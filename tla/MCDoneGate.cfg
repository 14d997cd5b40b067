SPECIFICATION Spec
CONSTANTS
    Sessions = {s1, s2}
    Roots = {wt}
    Contents = {main, draft, done, rough}
    Unchanged = main
    Lawful = {main, draft, done}
    Clean = {main, draft, done}
    Green = {main, done}
    Product = {draft, done}
    Builds = {wt}
    Verdicts = {"pass", "fail"}
    MaxBlocks = 1
    None = None
    MaxEvents = 5
INVARIANTS
    TypeOK
PROPERTIES
    SilentStopChangedNothing
    PassIsProven
SYMMETRY Symmetry
CHECK_DEADLOCK FALSE
