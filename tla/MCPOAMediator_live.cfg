\* One server, two processes in turn.
SPECIFICATION FairSpec
CONSTANTS
  r2 = r2
  b = b
  NoServer = NoServer
  NoProc = NoProc
  NoRequest = NoRequest
  Server = {a}
  Proc = {p1, p2}
  Request = {r1, r2}
  a = a
  r1 = r1
  p1 = p1
  p2 = p2
  Target <- OneTarget
  Forward = FALSE
  Scenario <- OnlyTame
PROPERTIES ExitNoticed 
CHECK_DEADLOCK FALSE
