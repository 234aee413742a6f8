CONSTANTS
    Byte = 2
    W = 2
    P = 127
    INV = 1
SPECIFICATION MulSpec
INVARIANTS
    LoopInvariant
    ProductIsCanonical
    AddSubExact
    BytesRoundTrip
PROPERTIES
    ImplementsMontgomery
CHECK_DEADLOCK FALSE
