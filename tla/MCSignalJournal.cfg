\* Two workers, two signals in a batch, two attempts each, leases that expire
\* while a batch is being evaluated, one crash.
CONSTANTS
    Signals = {1, 2}
    Workers = {w1, w2}
    BatchSize = 2
    MaxAttempts = 2
    Lease = 1
    Horizon = 3
    MaxStops = 1
SPECIFICATION FairSpec
INVARIANTS JournalInv
PROPERTIES SettledIsFinal ImplementsQueue SettledOrStranded
CHECK_DEADLOCK FALSE
