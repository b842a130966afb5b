SPECIFICATION FairSpec
CONSTANTS
    Waiters = {w1}
    TimedWaiters = {w2}
    Nobody = Nobody
PROPERTY
    WaitReturns
CHECK_DEADLOCK FALSE
