SPECIFICATION Spec
CONSTANTS
    Limit <- MCLimit
    Inputs <- MCInputs
    Addresses <- MCAddresses
    Rounds = 2
INVARIANTS
    RecodingTypeOK
    EncodedSame
    ConvertedSame
CHECK_DEADLOCK FALSE
