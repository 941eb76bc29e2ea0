\* A handshake and a collection, with two lines a correct adapter would not write.
CONSTANTS
    MaxCalls = 4
    MaxPipe = 2
    MaxOdd = 2
    None = None
SPECIFICATION Spec
INVARIANTS ProcessInv
PROPERTIES FailureEndsProcess StopEndsProcess ExitWakesCaller
CHECK_DEADLOCK FALSE
