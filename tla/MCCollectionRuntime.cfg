\* One integration, and a workload beside one that was left behind.
CONSTANTS
    Integrations = {m}
    m = m
    GlobalConcurrency = 1
    RestartCapacity = 2
    HealthyReset = 1
    RestartMaxDelay = 2
    Horizon = 1
    MaxVersion = 1
    MaxFailures = 1
    MaxRequests = 1
    MaxInputs = 1
    MaxFaults = 1
    MaxWorkloads = 2
SPECIFICATION FairSpec
INVARIANTS RuntimeInv
PROPERTIES BackoffKept RequestServed ConfigApplied DisabledStops
CHECK_DEADLOCK FALSE
