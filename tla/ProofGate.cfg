CONSTANTS
    Q = 32749
    Byte = 32
    Width = 3
    Circuits = {"shield", "unshield", "privswap"}
    VKeys <- MCVKeys
    KeysFor <- MCKeysFor
    Calls <- MCCalls
    Statements <- MCStatements
    Blinds <- MCBlinds
    Chains <- MCChains
    TwoTo128 = 1024
SPECIFICATION Spec
INVARIANTS
    OnlyProvedClaimsPass
    ProvedClaimsPass
    NegationsAgree
