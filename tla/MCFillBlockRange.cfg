CONSTANTS
    HeaderRange2 = HeaderRange2
    HeaderRange4 = HeaderRange4
    Rotate1 = Rotate1
    GatewayA = GatewayA
    MaxBlock = 4
    SetId <- MCSetId
    HeaderRangeFunctions <- HeaderRanges
    TreeSizeOf <- MCTreeSizeOf
    RotateFunctions <- Rotates
    Gateways <- AllGateways
    MaxRequests = 1
    MaxGuardianCalls = 2
SPECIFICATION FillSpec
INVARIANTS
    StaleCallHarmless
