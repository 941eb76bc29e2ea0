\* One page, a replay window larger than its channel, enough changes to fall
\* out of either, one restart of Core.
CONSTANTS
    Clients = {c1}
    ReplayLimit = 3
    Capacity = 2
    MaxStreams = 1
    MaxVersion = 5
    MaxBoots = 2
SPECIFICATION FairSpec
INVARIANTS HubInv CursorPageIsFresh
PROPERTIES RevokedIsClosed
CHECK_DEADLOCK FALSE
