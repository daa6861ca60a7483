\* One report is enough: its batch is not frozen.
SPECIFICATION Spec
CONSTANTS
    Phys = {1}
    BatchMax = 1
    MaxEvents = 1
INVARIANTS
    SameDiskSameCode
CHECK_DEADLOCK FALSE
