CONSTANTS
    Depth = 2
    Zero = zero
    Leaf = {a, b, c}
    MaxLeaves = 6
SPECIFICATION Spec
INVARIANTS
    ClientPathsAuthenticate
    InclusionIsSound
    ClientMirrorsUpToCapacity
PROPERTIES
    ImplementsLog
\* The bound on the insertions ends a run.
CHECK_DEADLOCK FALSE
