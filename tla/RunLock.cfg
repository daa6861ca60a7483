\* The button and cron at once, up to one disk each, and a stop at any moment.
SPECIFICATION FairSpec
CONSTANTS
    Runs = {r1, r2}
    Disks = 1
    NoRun = NoRun
INVARIANTS
    TypeOK
    ExclusiveUnlessStolen
    LockReleased
    StopReaches
    DeadHoldNoFreeze
PROPERTIES
    RunsEnd
CHECK_DEADLOCK FALSE
