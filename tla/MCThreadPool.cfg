\* Two workers, two outside threads, three messages: the queue fills while
\* both workers are on their way to idle; shutdown at any time.
SPECIFICATION FairSpec
CONSTANTS
    w1 = w1 w2 = w2 p1 = p1 p2 = p2 m1 = m1 m2 = m2 m3 = m3 m4 = m4
    Worker = {w1, w2}
    Putter = {p1, p2}
    Msg = {m1, m2, m3}
    Max = 2
    NoWorker = NoWorker
    NoMsg = NoMsg
    NoThread = NoThread
INVARIANTS
    TypeOK
    IdleListExact
    HandOver
PROPERTIES
    ImplementsWorkQueue
    EveryMessageProcessed
    ShutdownCompletes
CHECK_DEADLOCK FALSE
