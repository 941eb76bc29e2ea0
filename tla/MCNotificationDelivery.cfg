\* One incident event and one test for the same destination; two workers, two
\* attempts, leases that expire during a delivery, one restart that may lower
\* the attempt limit.
CONSTANTS
    Events = {e1}
    Tests = {t1}
    Destinations = {d1}
    Workers = {w1, w2}
    MaxAttempts = 2
    Limits = {1, 2}
    Lease = 1
    MaxRetryDelay = 1
    Horizon = 1
    MaxStops = 1
SPECIFICATION FairSpec
INVARIANTS OutboxInv
PROPERTIES TerminalIsFinal EventuallyTerminal
CHECK_DEADLOCK FALSE
