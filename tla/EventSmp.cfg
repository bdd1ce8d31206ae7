SPECIFICATION FairSpec
CONSTANTS
  Threads = {w, s}
  Futexes = {e}
  NoThread = NoThread
  TheEvent = e
  Waiter = w
  Signals = 2
  OneCpu = FALSE
PROPERTY SignalsServed
