CONSTANTS
    EmittedSignature <- FiveArguments
    CursorStartBlock = 1
    BatchSize = 2
    MaxEthBlock = 6
    MaxCrashes = 2
SPECIFICATION Spec
INVARIANTS
    NothingSkipped
