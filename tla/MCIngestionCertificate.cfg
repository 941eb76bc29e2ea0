\* A site whose certificate is known, and a handshake that shows none.
CONSTANTS
    Keys <- ThreeKeys
    ResourceOf <- TwoResources
    Certificates <- OneCertificate
    Batches <- CertificateBatches
    Earlier <- NoneOrOne
    MaxIngestions = 2
    BatchSize = 2
    Skew = 1
    StaleAfter = 2
    UnknownAfter = 3
    MaxTime = 1
    MaxFaults = 0
    Worker = Worker
SPECIFICATION Spec
INVARIANTS FailureNeedsFault
CHECK_DEADLOCK FALSE
