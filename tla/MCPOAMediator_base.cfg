\* Two servers that exit and crash at any moment, activate and stop; or everything
\* servers and administrators can do.
SPECIFICATION Spec
CONSTANTS
  NoServer = NoServer
  NoProc = NoProc
  NoRequest = NoRequest
  Server = {a, b}
  Proc = {p1, p2}
  Request = {r1, r2}
  a = a
  b = b
  r1 = r1
  r2 = r2
  p1 = p1
  p2 = p2
  Target <- TwoTargets
  Forward = FALSE
  Scenario <- TameOrWild
SYMMETRY ProcSymmetry
INVARIANTS TypeOK NoAbort StateMatchesProcess OneServerPerName RequestInOnePlace NoRequestStranded
CHECK_DEADLOCK FALSE
