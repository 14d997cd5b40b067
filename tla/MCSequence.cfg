SPECIFICATION Spec
CONSTANTS
    MaxSteps = 64
    MaxWakes = 5
    Disps <- MCDisps
    Definitions <- MCDefinitions
INVARIANTS
    TypeOK
    ParkedHasOneWaker
PROPERTY
    DispositionStopsAtBranch
CHECK_DEADLOCK FALSE
