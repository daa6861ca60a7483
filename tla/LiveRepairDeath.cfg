\* One sector, no faults but a failing scrub: what main leaves behind.
SPECIFICATION Spec
CONSTANTS
    Sectors = {s1}
    Contents = {1, 2}
    Modes = {"live"}
    Faults = {}
INVARIANTS
    DeathLeavesThawed
CHECK_DEADLOCK FALSE
