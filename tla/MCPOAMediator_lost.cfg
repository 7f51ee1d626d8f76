SPECIFICATION Spec
CONSTANTS
  NoServer = NoServer
  NoProc = NoProc
  NoRequest = NoRequest
  Server = {a, b}
  Proc = {p1, p2}
  Request = {r1, r2}
  a = a
  b = b
  r1 = r1
  r2 = r2
  p1 = p1
  p2 = p2
  Target <- TwoTargets
  Forward = TRUE
  Scenario <- OnlyQuiet
SYMMETRY ProcSymmetry
INVARIANTS NoRequestLost
CHECK_DEADLOCK FALSE
