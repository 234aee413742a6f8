CONSTANTS
    Pool = pool
    Users = {alice}
    Funds = 3
    Refs = {ref}
    SpendKeys = {sk}
    Rhos = {r1, r2}
    Empty = empty
    Capacity = 4
    MaxU64 = 4
    MaxI128 = 6
    Amounts <- MCAmounts
    UnshieldFees = {0, 1}
    SwapFees = {0, 1}
    Seeds <- MCSeeds
    Laps = {0}
    MaxLeaves = 4
SPECIFICATION Spec
INVARIANTS
    FeesWithdrawable
