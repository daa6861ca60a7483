\* The button and cron at once.
SPECIFICATION Spec
CONSTANTS
    Runs = {r1, r2}
    Disks = 1
    NoRun = NoRun
INVARIANTS
    MutualExclusion
CHECK_DEADLOCK FALSE
