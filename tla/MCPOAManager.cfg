SPECIFICATION Spec
CONSTANTS
  p1 = p1 p2 = p2 a1 = a1 a2 = a2 r1 = r1 r2 = r2
  POA = {p1, p2}
  Persistent = {p2}
  Admin = {a1, a2}
  Request = {r1}
  NoAdmin = NoAdmin NoPOA = NoPOA NoReq = NoReq
INVARIANTS TypeOK RequestInOnePlace StatesAgree
PROPERTIES AllServed
CHECK_DEADLOCK FALSE
