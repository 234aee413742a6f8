CONSTANTS
    Pool = pool
    Users = {alice}
    SpendKeys = {alice}
    Funds = 5
    Wallets = {alice}
    Refs = {zero32}
    ZERO32 = zero32
    Rhos = {r1, r2, r3, r4}
    Empty = empty
    Capacity = 4
    MaxU64 = 4
    MaxI128 = 6
    Amounts <- MCAmounts
    SwapAmounts <- MCSwapAmounts
    Recipients = {alice}
    UnshieldFees <- MCFees
    SwapFees <- MCFees
    Seeds <- MCSeeds
    ScanMisses = FALSE
    Laps = {0}
    MaxLeaves = 4
    MaxOthers = 0
    MaxTimeouts = 0
    MaxCrashes = 0
    MaxDisturbances = 0
SPECIFICATION CliSpec
INVARIANTS
    UnshieldPicksPayableNote
