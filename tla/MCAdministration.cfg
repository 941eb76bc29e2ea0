\* Retries, rivals and failures at one row, for each kind of row.
CONSTANTS
    Handlers = {h1, h2}
    Scenarios <- AllScenarios
    Kind <- MCKind
    ByName <- MCByName
    Fresh <- MCFresh
    Clock = {1, 4}
    Unverified = "initial"
    Off = "off"
    None = None
    MaxSends = 2
SYMMETRY Interchangeable
SPECIFICATION Spec
INVARIANTS AdministrationInv ReceiptIsOfTheChange RefusedIsNotApplied NoLostUpdate StoredPairValidated
PROPERTIES VersionsMoveOn
CHECK_DEADLOCK FALSE
