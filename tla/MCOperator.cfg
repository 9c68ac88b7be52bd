CONSTANTS
    SmallRange = SmallRange
    LargeRange = LargeRange
    Rotate1 = Rotate1
    GatewayA = GatewayA
    MaxBlock = 7
    SetId <- MCSetId
    HeaderRangeFunctions <- OneHeaderRange
    TreeSizeOf <- OneTreeSize
    RotateFunctions <- OneRotate
    Gateways <- OneGateway
    PlatformGateway = GatewayA
    MaxRequests = 0
    MaxGuardianCalls = 0
    Interval = 2
    IsDummyOperator = FALSE
    Justified <- MCJustified
    MaxLost = 1
SPECIFICATION FairOperatorSpec
INVARIANTS
    OperatorTypeOK
    RangeRequestsJustified
    RangeRequestsFit
    RotateRequestsProvable
PROPERTIES
    FollowsAvail
