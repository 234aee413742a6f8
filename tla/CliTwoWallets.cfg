CONSTANTS
    Pool = pool
    Users = {alice, bob}
    SpendKeys = {alice, bob}
    Funds = 2
    Wallets = {alice, bob}
    Refs = {zero32}
    ZERO32 = zero32
    Rhos = {r1, r2}
    Empty = empty
    Capacity = 4
    MaxU64 = 4
    MaxI128 = 6
    Amounts <- MCOneAmount
    SwapAmounts <- MCSwapAmounts
    Recipients = {alice}
    UnshieldFees <- MCFees
    SwapFees <- MCFees
    Seeds <- MCNoSeeds
    ScanMisses = FALSE
    Laps = {0}
    MaxLeaves = 4
    MaxOthers = 0
    MaxTimeouts = 0
    MaxCrashes = 0
    MaxDisturbances = 0
SPECIFICATION CliSpec
INVARIANTS
    SyncEstablishesIndices
