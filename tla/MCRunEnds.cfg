SPECIFICATION FairSpec
CONSTANTS
    Runs = {r1, r2}
    Definition <- ShortDefinition
    Steps <- MCSteps
    Entry = "reach"
    CallSteps <- MCCallSteps
    Disps = {"no_answer", "failed", "interested"}
    Actions <- MCActions
    Walk <- MCWalk
    MaxSteps = 64
    NoDisp = "null"
    NoAgent = NoAgent
    NoRun = NoRun
    NoJob = NoJob
    MaxGen = 1
    Ticks = {t1}
    Workers = {w1,w2}
    RetryLimit = 2
    MaxApplyFailures = 3
    MaxFaults = 2
    Poisoned = {r2}
    GuardMayBlock = FALSE
PROPERTIES
    EveryRunEnds
    DueIsTaken
    PoisonedIsParked
CHECK_DEADLOCK FALSE
