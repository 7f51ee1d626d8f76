SPECIFICATION Spec
CONSTANTS
  a = a
  b = b
  ta = ta
  tb = tb
  Cb = {a, b}
  Timer = {ta, tb}
  Watch <- MCWatch
  Owner <- MCOwner
  Timeout = {0, 1}
  MaxEvents = 2
  MaxDepth = 2
  MaxElapsed = 1
  MaxLate = 1
  NoTimerSleep = 1
INVARIANTS
  TypeOK
  RemovalSafe
  SleepMatches
PROPERTIES
  ImplementsEventLoop
  TimersFire
