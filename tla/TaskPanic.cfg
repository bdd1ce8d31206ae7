SPECIFICATION LifeSpec
CONSTANTS
  Pids = {p1}
  Structs = {k1}
  NoPid = NoPid
  NoTask = NoTask
  Waiters = {w1}
  MaxCreate = 1
  Prompt = FALSE
CHECK_DEADLOCK FALSE
INVARIANT NoRefPanic
