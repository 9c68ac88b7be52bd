CONSTANTS
    HeaderRange2 = HeaderRange2
    HeaderRange4 = HeaderRange4
    Rotate1 = Rotate1
    GatewayA = GatewayA
    GatewayB = GatewayB
    MaxBlock = 4
    SetId <- MCSetId
    HeaderRangeFunctions <- TwoHeaderRanges
    TreeSizeOf <- MCTreeSizeOf
    RotateFunctions <- OneRotate
    Gateways <- TwoGateways
    MaxRequests = 2
    MaxGuardianCalls = 2
SYMMETRY Symmetry
SPECIFICATION Spec
INVARIANTS
    TypeOK
    HeadersCanonical
    AuthoritySetsCanonical
    RangeCommitmentsCanonical
    AuthorityWindow
    NeverStranded
    RangesTile
    AnnouncedTreeSize
PROPERTIES
    NoRollback
    ImplementsAttestedChain
CHECK_DEADLOCK FALSE
