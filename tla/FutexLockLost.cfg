SPECIFICATION FairSpec
CONSTANTS
  Threads = {t1, t2, t3}
  Futexes = {f}
  TheLock = f
  NoThread = NoThread
  Spin = 0
  Loops = 2
PROPERTY AllFinish
CHECK_DEADLOCK FALSE
