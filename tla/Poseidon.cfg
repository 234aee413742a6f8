CONSTANTS
    Byte = 2
    W = 2
    P = 127
    INV = 1
    N_ROUNDS_F = 8
    N_ROUNDS_P = 57
    RoundConstants <- MCRoundConstants
    Matrix <- MCMatrix
    Lefts <- MCLefts
    Rights <- MCRights
SPECIFICATION HashSpec
INVARIANTS
    LanesReduced
PROPERTIES
    ImplementsReference
CHECK_DEADLOCK FALSE
