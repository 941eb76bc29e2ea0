\* One crash: the signal whose last attempt it interrupts is never settled.
CONSTANTS
    Signals = {1}
    Workers = {w1}
    BatchSize = 1
    MaxAttempts = 2
    Lease = 1
    Horizon = 3
    MaxStops = 1
SPECIFICATION FairSpec
PROPERTIES EventuallySettled
CHECK_DEADLOCK FALSE
