\* Three reports over two sectors: one duplicate at least, a full batch and a partial one.
SPECIFICATION FairSpec
CONSTANTS
    Phys = {1, 2}
    BatchMax = 2
    MaxEvents = 3
INVARIANTS
    TypeOK
    Conservation
    ReconciliationHolds
    NothingLost
    ExitTruthful
PROPERTIES
    VerdictFinal
    Terminates
CHECK_DEADLOCK FALSE
