SPECIFICATION Spec
CONSTANTS
  c1 = c1 c2 = c2 w1 = w1 w2 = w2 o1 = o1 
  gentle = gentle notifier = notifier rough = rough
  Conn = {c1}
  NoConn = NoConn
  Worker = {w1, w2}
  OrbWorker = {o1}
  Main = Main
  Nobody = Nobody
  ConnLimit = 1
  Client = {rough}
  Speaks <- MCSpeaks
  Hasty = {rough}
  MaxMsg = 2
  CountMod = 256
  MayShutdown = TRUE
INVARIANTS TypeOK ActiveRefsExact
CHECK_DEADLOCK FALSE
 
