\* Runs of 4, 1, 1 and 2 sectors, two under way; reads fail at will.
SPECIFICATION FairSpec
CONSTANTS
    Layout <- MCLayout
    CsumLeaves <- MCCsumLeaves
    Content <- MCContent
    Rots <- MCRots
    Modes = {"pipelined"}
    Depth = 2
    MaxRun = 4
    Splits = 3
    Budget = 4
INVARIANTS
    TypeOK
    CheckedOnce
    OkIsComplete
    ReportsExact
    TruncationTold
PROPERTIES
    Returns
CHECK_DEADLOCK FALSE
