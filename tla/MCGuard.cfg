SPECIFICATION Spec
CONSTANTS
    Runs = {r1, r2}
    Day = 4
    Horizon = 3
    Offset <- MCOffset
    DefaultZone = "local"
    Contacts <- MCContacts
    QuietPolicies <- OverMidnight
    CapPolicies <- TwoCalls
    MaxAttempts = 3
    MaxFaults = 1
    NoZone = NoZone
    NoRun = NoRun
INVARIANTS
    TypeOK
    CapHolds
    OneCallAfterNo
PROPERTIES
    QuietKept
CHECK_DEADLOCK FALSE
