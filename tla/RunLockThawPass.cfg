\* One run on one disk and a stop that finds it in a freeze window.
SPECIFICATION Spec
CONSTANTS
    Runs = {r1}
    Disks = 1
    NoRun = NoRun
INVARIANTS
    StopLeavesThawed
CHECK_DEADLOCK FALSE
