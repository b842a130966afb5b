SPECIFICATION FairSpec
CONSTANTS
    Promises = {p1, p2, p3, p4}
    Signalling = {p1, p2, p3}
    Silent = {p3, p4}
    Waiters = {w1, w2}
    TimedWaiters = {w3}
INVARIANTS
    TypeOK
    WaitersSeeResults
PROPERTIES
    SignalIsTaken
