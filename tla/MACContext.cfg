SPECIFICATION Spec
CONSTANTS
    Networks <- MCNetworks
    ScheduleRepetitions = 2
    MaxTile = 170
    MaxDelay = 2
INVARIANTS
    TypeOK
    InStep
    OperatesInTime
    MessagesUnderstood
    PlayedTogether
    NothingStalePlayed
    ScheduleFits
    Converges
PROPERTIES
    ActivatedOnTime
CHECK_DEADLOCK FALSE
