SPECIFICATION Spec
CONSTANTS
    Runs = {r1}
    Definition <- CadenceDefinition
    Steps <- MCSteps
    Entry = "reach"
    CallSteps <- MCCallSteps
    Disps = {"no_answer", "interested"}
    Actions <- MCActions
    Walk <- MCWalk
    MaxSteps = 64
    NoDisp = "null"
    NoAgent = NoAgent
    NoRun = NoRun
    NoJob = NoJob
    MaxGen = 3
    Ticks = {t1}
    Workers = {w1, w2}
    RetryLimit = 2
    MaxApplyFailures = 3
    MaxFaults = 2
    Poisoned = {}
    GuardMayBlock = TRUE
SYMMETRY Symmetry
INVARIANTS
    AttemptsCountJobs
    ParkedIsServed
    RepeatsNeedFaults
CHECK_DEADLOCK FALSE
