\* Two workers: check_msg(0) may hand a message to a worker it never posts.
SPECIFICATION FairSpec
CONSTANTS
    w1 = w1 w2 = w2 p1 = p1 p2 = p2 m1 = m1 m2 = m2 m3 = m3 m4 = m4
    Worker = {w1, w2}
    Putter = {p1}
    Msg = {m1, m2, m3, m4}
    Max = 2
    NoWorker = NoWorker
    NoMsg = NoMsg
    NoThread = NoThread
PROPERTY BusyWorkerReturnsToIdle
CHECK_DEADLOCK FALSE
