SPECIFICATION FairSpec
CONSTANTS
    Jobs = {j1, j2}
    Workers = {w1, w2}
    MaxRounds = 2
    MaxCalls = 1
    MaxLines = 2
    RetryLimit = 1
    MaxFaults = 1
    NoTx = NoTx
    NoJob = NoJob
INVARIANTS
    TypeOK
    NoLinePassedOver
    TurnsAnswerLines
    CompletedIsAnswered
    SendsAreOnRecord
    RowsMatch
PROPERTIES
    JobsSettle
CHECK_DEADLOCK FALSE
