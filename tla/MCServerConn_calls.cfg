SPECIFICATION Spec
CONSTANTS
  c1 = c1 c2 = c2 w1 = w1 w2 = w2 o1 = o1 
  gentle = gentle notifier = notifier rough = rough
  Conn = {c1, c2}
  NoConn = NoConn
  Worker = {w1, w2}
  OrbWorker = {o1}
  Main = Main
  Nobody = Nobody
  ConnLimit = 2
  Client = {gentle}
  Speaks <- MCSpeaks
  Hasty = {}
  MaxMsg = 2
  CountMod = 256
  MayShutdown = FALSE
INVARIANTS NoFault CountsExact
CHECK_DEADLOCK FALSE
PROPERTIES Answered Reclaimed
