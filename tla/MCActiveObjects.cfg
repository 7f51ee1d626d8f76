SPECIFICATION Spec
CONSTANTS
  i1 = i1 i2 = i2 s1 = s1 s2 = s2 a1 = a1 a2 = a2 w1 = w1 w2 = w2
  Id = {i1, i2}
  Servant = {s1, s2}
  App = {a1, a2}
  Worker = {w1, w2}
  NoServant = NoServant NoThread = NoThread NoId = NoId
INVARIANTS TypeOK RecordsExact
PROPERTIES ImplementsIncarnation DeactivationEnds
CHECK_DEADLOCK FALSE
