\* Two sectors, two contents, no faults: the filesystem against the writer.
SPECIFICATION FairSpec
CONSTANTS
    Sectors = {s1, s2}
    Contents = {1, 2}
    Modes = {"live", "dry", "offline", "image"}
    Faults = {}
INVARIANTS
    TypeOK
PROPERTIES
    RaceFree
    FreezeReleased
CHECK_DEADLOCK FALSE
