CONSTANTS
    HASH_SIZE = 2
    PUBKEY_LENGTH = 2
    WEIGHT_LENGTH = 2
    DELAY_LENGTH = 1
    MAX_NUM_AUTHORITIES = 65
    MAX_HEADER_SIZE = 400
    Header <- MCHeader
    Authorities <- MCAuthorities
    AnyNumber = {0, 1, 2, 15, 64}
    AnyPadding <- MCAnyPadding
SPECIFICATION Spec
INVARIANTS
    RotatedIsNextSet
    HeaderDecoded
PROPERTIES
    HonestRotateProved
CHECK_DEADLOCK FALSE
