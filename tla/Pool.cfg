CONSTANTS
    Pool = pool
    Users = {alice}
    Funds = 3
    Refs = {ref}
    SpendKeys = {sk}
    Rhos = {r1, r2}
    Empty = empty
    Capacity = 2
    MaxU64 = 4
    MaxI128 = 5
    Amounts <- MCAmounts
    UnshieldFees = {0, 1}
    SwapFees = {0, 5}
    Seeds <- MCSeeds
    Laps = {0, 1}
    MaxLeaves = 4
SYMMETRY MCSymmetry
SPECIFICATION Spec
INVARIANTS
    TypeOK
    SpendsAreBacked
    Solvent
    LegsAccounted
    NotesWithdrawable
    RootsAreHistory
PROPERTIES
    NothingForgotten
    ReservesMoveByTrade
    ImplementsLedger
