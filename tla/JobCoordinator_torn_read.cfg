SPECIFICATION Spec
CONSTANTS
    i1 = i1
    i2 = i2
    NullInfo = NullInfo
    Jobs = {j1}
    ExecutorCount = 2
    InstanceOf <- TwoInstances
    KindOf <- LocalAndDeferred
    DeferredAnswers = {"succeeded", "failed"}
    CarriesResult = {"succeeded", "succeeded_partially"}
    MaxDequeue = 2
    InsertMayThrow = FALSE
INVARIANTS
    NoTornRead
