CONSTANT MAX_NUM_AUTHORITIES = 5
SPECIFICATION Spec
INVARIANTS
    ProvedBlockHasVotes
    FetchedIsProvable
PROPERTIES
    SimpleGoesThrough
CHECK_DEADLOCK FALSE
