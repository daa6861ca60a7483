SPECIFICATION Spec
CONSTANTS
    Sectors = {s1}
    Contents = {1, 2}
    Modes = {"live"}
    Faults = {"panic", "signal"}
INVARIANTS
    NeverDamaged
CHECK_DEADLOCK FALSE
