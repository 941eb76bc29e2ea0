\* Requests that meet at one user, for each kind of change.
CONSTANTS
    Handlers = {h1, h2}
    Names = {"ada", "bob", "zoe"}
    Scenarios <- MCScenarios
    None = None
    FailureLimit = 2
    Lockout = 2
    Idle = 2
    Absolute = 3
    AttemptLimit = 5
    Window = 2
    Retention = 1
    Horizon = 4
    MaxSessions = 3
    MaxFaults = 1
SYMMETRY Interchangeable
SPECIFICATION Spec
INVARIANTS UsersInv SessionsPostdateChanges GuessesBounded
PROPERTIES LifetimesKept NoLostUserUpdate
CHECK_DEADLOCK FALSE
