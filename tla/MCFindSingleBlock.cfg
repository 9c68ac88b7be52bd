CONSTANTS
    MaxBlock = 7
    SetId <- MCSetId
    U32 = 32
    Justified <- MCJustified
SPECIFICATION FindSpec
INVARIANTS
    IncludesStartAndEnd
