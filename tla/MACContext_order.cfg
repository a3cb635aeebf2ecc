SPECIFICATION Spec
CONSTANTS
    Networks <- OneLine
    ScheduleRepetitions = 2
    MaxTile = 60
    MaxDelay = 2
INVARIANT RelaysHaveBuffers
CHECK_DEADLOCK FALSE
