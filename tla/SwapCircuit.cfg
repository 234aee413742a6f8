CONSTANTS
    MaxU64 = 3
    P = 11
SPECIFICATION Spec
INVARIANTS
    TypeOK
    AcceptedTradesAreExact
    ExactTradesAccepted
    QuotesAreProvable
\* One trade is proved per run.
CHECK_DEADLOCK FALSE
