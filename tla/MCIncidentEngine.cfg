\* Three small instances of the check, one for each kind of interference.
CONSTANTS
    Scenarios <- ThreeScenarios
    NoCode = ""
    StaleAfter = 1
    UnknownAfter = 2
    Horizon = 2
SPECIFICATION FairSpec
INVARIANTS EngineInv CountersMatchHistory DebounceKept
PROPERTIES ChangesAreEarned ActiveEndIsSignalled FailureReported
CHECK_DEADLOCK FALSE
