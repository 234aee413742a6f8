CONSTANTS
    Pool = pool
    Users = {alice}
    SpendKeys = {alice}
    Funds = 2
    Wallets = {alice}
    Refs = {zero32}
    ZERO32 = zero32
    Rhos = {r1, r2}
    Empty = empty
    Capacity = 4
    MaxU64 = 4
    MaxI128 = 6
    Amounts <- MCOneAmount
    SwapAmounts <- MCSwapAmounts
    Recipients = {alice}
    UnshieldFees <- MCFees
    SwapFees <- MCFees
    Seeds <- MCNoSeeds
    ScanMisses = FALSE
    Laps = {0}
    MaxLeaves = 4
    MaxOthers = 0
    MaxTimeouts = 1
    MaxCrashes = 0
    MaxDisturbances = 1
SPECIFICATION CliSpec
INVARIANTS
    SpentFlagsMatchChain
