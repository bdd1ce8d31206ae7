SPECIFICATION FairSpec
CONSTANTS
  a = a  b = b  m = m  x = x  y = y  app = app  srv = srv  sys = sys
  NoThread = NoThread
  NoProc = NoProc
  Procs = {app, sys}
  Home <- Homes
  System = sys
  Server = sys
  Threads = {a, m, x}
  Clients = {a}
  Receivers = {m}
  Kinds = {"serial_request"}
  Preset = {sys}
  AllPorts = TRUE
  Killable = {}
  MaxAsk = 1
CHECK_DEADLOCK FALSE
PROPERTY AllAnswered
