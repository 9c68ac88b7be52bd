CONSTANTS
    MaxBlock = 7
    SetId <- MCSetId
    U32 = 32
    Justified <- MCJustified
SPECIFICATION FindSpec
INVARIANTS
    TypeOK
    ResultCorrect
    ZeroIffCurrent
    ListedAreJustified
    ListedOnce
    ListingComplete
PROPERTIES
    Terminates
    FindTerminates
