\* Two collections that may overlap, beside the freshness worker.
CONSTANTS
    Keys <- ThreeKeys
    ResourceOf <- TwoResources
    Certificates <- OneCertificate
    Batches <- SomeBatches
    Earlier <- NoneOrOne
    MaxIngestions = 2
    BatchSize = 2
    Skew = 1
    StaleAfter = 1
    UnknownAfter = 2
    MaxTime = 2
    MaxFaults = 1
    Worker = Worker
SPECIFICATION Spec
INVARIANTS IngestionInv
PROPERTIES LapseIsStored ReplacementIsFlagged
CHECK_DEADLOCK FALSE
