SPECIFICATION Spec
CONSTANTS
  q1 = q1 q2 = q2 c1 = c1 c2 = c2 o1 = o1
  Caller = {q1, q2}
  Oneway = {q2}
  Impatient = {}
  Conn = {c1, c2}
  NoConn = NoConn NoCall = NoCall
  OrbWorker = {o1}
  Main = Main
  ConnLimit = 2
  Events = {"crash", "close"}
INVARIANTS NoFault
PROPERTIES ImplementsInvocation AllAnswered Reclaimed
CHECK_DEADLOCK FALSE
