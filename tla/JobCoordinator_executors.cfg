SPECIFICATION FairSpec
CONSTANTS
    i1 = i1
    i2 = i2
    NullInfo = NullInfo
    Jobs = {j1, j2}
    ExecutorCount = 2
    InstanceOf <- TwoInstances
    KindOf <- LocalAndDeferred
    DeferredAnswers = {"succeeded", "succeeded_partially", "failed"}
    CarriesResult = {"succeeded", "succeeded_partially"}
    MaxDequeue = 2
    InsertMayThrow = FALSE
INVARIANTS
    TypeOK
    NeverTerminates
    NoLostNotification
    SucceededMeansAll
PROPERTIES
    ServiceSpec
    EventuallyResolved
