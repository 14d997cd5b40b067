SPECIFICATION Spec
CONSTANTS
    EventNames = {"ring", "end1"}
    Events = {"ring", "end1"}
    Event <- MCEvent
    Calls = {"ours", "also", "theirs"}
    Outbound = {"ours"}
    Drains = {p1}
    Nudges = {n1, n2}
    RetryLimit = 3
    MaxFaults = 0
    MaxLost = 0
    NoTx = NoTx
    NoConv = NoConv
    NoSummary = NoSummary
    NoNudge = NoNudge
INVARIANTS
    CallIsRecorded
CHECK_DEADLOCK FALSE
