SPECIFICATION FairSpec
CONSTANTS
    Procs = {p1, p2, p3}
    Inodes = {i1, i2, i3}
    NoFile = NoFile
    MaxKilled = 2
INVARIANTS
    TypeOK
    OneHolder
PROPERTIES
    StaleIsReplaced
CHECK_DEADLOCK FALSE
