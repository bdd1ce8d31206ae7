SPECIFICATION FairSpec
CONSTANTS
  Threads = {t1, t2}
  Futexes = {f}
  TheLock = f
  NoThread = NoThread
  Spin = 0
  Loops = 3
INVARIANTS QueueExact MutualExclusion NoSleeperForgotten
PROPERTY AllFinish
