CONSTANTS
    Pool = pool
    Users = {alice, bob}
    SpendKeys = {alice, bob}
    Wallets = {alice}
    Funds = 3
    Refs = {zero32}
    ZERO32 = zero32
    Rhos = {r1, r2, r3, r4, r5, r6}
    Empty = empty
    Capacity = 8
    MaxU64 = 4
    MaxI128 = 6
    Amounts <- MCChangeAmount
    SwapAmounts <- MCTwoSwapAmounts
    Recipients = {bob}
    UnshieldFees <- MCFees
    SwapFees <- MCFees
    Seeds <- MCSeeds
    ScanMisses = TRUE
    Laps = {0}
    MaxLeaves = 4
    MaxOthers = 2
    MaxTimeouts = 1
    MaxCrashes = 1
    MaxDisturbances = 2
SPECIFICATION FairCliSpec
INVARIANTS
    CliTypeOK
    SpentNotesAreNullified
    ListedNotesAreMirrored
    RestingWalletMatchesChain
PROPERTIES
    MirrorOnlyGrows
    CommandsSettle
    WalletCatchesUp
