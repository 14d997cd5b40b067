SPECIFICATION FairSpec
CONSTANTS
    EventNames = {"line1", "broken", "speech"}
    Events = {"line1", "broken", "speech"}
    Event <- MCEvent
    Calls = {"ours", "also", "theirs"}
    Outbound = {"ours"}
    Drains = {p1, p2}
    Nudges = {n1, n2}
    RetryLimit = 3
    MaxFaults = 2
    MaxLost = 0
    NoTx = NoTx
    NoConv = NoConv
    NoSummary = NoSummary
    NoNudge = NoNudge
INVARIANTS
    FailedLeavesNothing
PROPERTIES
    EveryEventSettles
CHECK_DEADLOCK FALSE
