\* Three data disks over GF(4), up to two rotten blocks, one racing write.
SPECIFICATION Spec
CONSTANTS
    W = 2
    Red = 3
    F <- Elements
    Plus <- GfXor
    Times <- MCTimes
    Inv <- MCInv
    Exp <- GfExp
    Sum <- GfSum
    Slots = {1, 2, 3}
    Stripes <- MCStripes
    Diffs = {2}
    MaxRot = 2
INVARIANTS
    TypeOK
    OneParityEnough
    TwoParitiesSolveTwo
    BakedInTold
CHECK_DEADLOCK FALSE
