\* Panics of any thread, SIGTERM and a stop's thaw pass at any step, beside
\* the filesystem; also with repairs outside windows.
SPECIFICATION Spec
CONSTANTS
    Sectors = {s1, s2}
    Contents = {1, 2}
    Modes = {"live", "unfrozen"}
    Faults = {"panic", "signal", "stop"}
SYMMETRY Symmetry
INVARIANTS
    DamageNeedsForeignThaw
    WriterLeavesThawed
    EmergencyThawSticks
    WindowCovered
    RecoveredIsCurrent
CHECK_DEADLOCK FALSE
