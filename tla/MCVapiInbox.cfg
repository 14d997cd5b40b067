SPECIFICATION Spec
CONSTANTS
    EventNames = {"line1", "end1", "end2"}
    Events = {"line1", "end1", "end2"}
    Event <- MCEvent
    Calls = {"ours", "also", "theirs"}
    Outbound = {"ours", "also"}
    Drains = {p1, p2}
    Nudges = {n1, n2, n3}
    RetryLimit = 1
    MaxFaults = 1
    MaxLost = 1
    NoTx = NoTx
    NoConv = NoConv
    NoSummary = NoSummary
    NoNudge = NoNudge
SYMMETRY Symmetry
INVARIANTS
    TypeOK
    LinesMatchStatus
    OneLiveSummary
    ReceivedHasDrain
PROPERTIES
    ConversationKept
CHECK_DEADLOCK FALSE
