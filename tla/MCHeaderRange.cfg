CONSTANTS
    C0 = C0
    C1 = C1
    C2 = C2
    C3 = C3
    C4 = C4
    C5 = C5
    C6 = C6
    C7 = C7
    C8 = C8
    C9 = C9
    Fork3 = Fork3
    Fork4 = Fork4
    Skip5 = Skip5
    Empty = Empty
    ZeroHash = ZeroHash
    EmptyHeader = Empty
    Headers <- MCHeaders
    AnyHeaders <- MCAnyHeaders
    NumberOf <- MCNumberOf
    ParentOf <- MCParentOf
    MaxBlock = 9
    Canonical <- Chain
    HEADERS_PER_MAP = 2
    Levels = 2
    SignerOf <- MCSignerOf
    MAX_CONCURRENT_WS_REQUESTS = 3
SPECIFICATION MCSpec
INVARIANTS
    OutputIsAChain
    ProofIsCanonical
PROPERTIES
    HonestProverSucceeds
CHECK_DEADLOCK FALSE
