SPECIFICATION Spec
CONSTANTS
    i1 = i1
    i2 = i2
    NullInfo = NullInfo
    Jobs = {j1, j2}
    ExecutorCount = 2
    InstanceOf <- TwoInstances
    KindOf <- LocalAndRemote
    DeferredAnswers = {"succeeded", "failed"}
    CarriesResult = {"succeeded", "succeeded_partially"}
    MaxDequeue = 2
    InsertMayThrow = TRUE
PROPERTIES
    ServiceSpec
