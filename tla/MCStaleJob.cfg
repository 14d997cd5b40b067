SPECIFICATION Spec
CONSTANTS
    Runs = {r1}
    Definition <- SeedDefinition
    Steps <- MCSteps
    Entry = "qualify_call"
    CallSteps <- MCCallSteps
    Disps = {"no_answer", "interested"}
    Actions <- MCActions
    Walk <- MCWalk
    MaxSteps = 64
    NoDisp = "null"
    NoAgent = NoAgent
    NoRun = NoRun
    NoJob = NoJob
    MaxGen = 1
    Ticks = {t1, t2}
    Workers = {w1, w2}
    RetryLimit = 2
    MaxApplyFailures = 2
    MaxFaults = 3
    Poisoned = {}
    GuardMayBlock = TRUE
SYMMETRY Symmetry
PROPERTIES
    StaleJobIsNoOp
CHECK_DEADLOCK FALSE
