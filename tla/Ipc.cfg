SPECIFICATION Spec
CONSTANTS
  a = a  b = b  m = m  x = x  y = y  app = app  srv = srv  sys = sys
  NoThread = NoThread
  NoProc = NoProc
  Procs = {app, sys}
  Home <- Homes
  System = sys
  Server = sys
  Threads = {a, b, m, x, y}
  Clients = {a, b}
  Receivers = {m}
  Kinds = {"popup_request", "popup_notify", "serial_request", "serial_notify"}
  Preset = {}
  AllPorts = TRUE
  Killable = {}
  MaxAsk = 2
SYMMETRY Symmetry
CHECK_DEADLOCK FALSE
INVARIANTS RefsExact NoPanic AnswerIsMine
