\* One run that finishes while a stop is under way.
SPECIFICATION FairSpec
CONSTANTS
    Runs = {r1}
    Disks = 1
    NoRun = NoRun
PROPERTIES
    RealOutcomeStands
CHECK_DEADLOCK FALSE
