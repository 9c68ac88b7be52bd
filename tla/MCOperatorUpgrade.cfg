CONSTANTS
    SmallRange = SmallRange
    LargeRange = LargeRange
    Rotate1 = Rotate1
    GatewayA = GatewayA
    MaxBlock = 4
    SetId <- ShortSetId
    HeaderRangeFunctions <- TwoHeaderRanges
    TreeSizeOf <- TwoTreeSizes
    RotateFunctions <- OneRotate
    Gateways <- OneGateway
    PlatformGateway = GatewayA
    MaxRequests = 0
    MaxGuardianCalls = 1
    Interval = 1
    IsDummyOperator = FALSE
    Justified <- ShortJustified
    MaxLost = 0
SPECIFICATION FairOperatorSpec
INVARIANTS
    RangeRequestsJustified
    RangeRequestsFit
    RotateRequestsProvable
PROPERTIES
    FollowsAvail
