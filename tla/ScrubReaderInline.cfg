\* The fallback without a reader thread.
SPECIFICATION Spec
CONSTANTS
    Layout <- MCLayout
    CsumLeaves <- MCCsumLeaves
    Content <- MCContent
    Rots <- MCRots
    Modes = {"inline"}
    Depth = 2
    MaxRun = 4
    Splits = 3
    Budget = 4
INVARIANTS
    ReportsExact
CHECK_DEADLOCK FALSE
