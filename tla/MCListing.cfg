\* Up to four rows on pages of two, two of them written meanwhile.
CONSTANTS
    Ids <- SomeIds
    Limit = 2
    MaxTime = 2
    Ahead = 1
    MaxWrites = 2
SPECIFICATION Spec
INVARIANTS ListingInv
CHECK_DEADLOCK FALSE
