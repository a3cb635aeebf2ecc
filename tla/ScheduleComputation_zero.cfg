CONSTANTS
    Ids <- OneStream
    Params <- OneParams
    MaxScheduleId = 1
SPECIFICATION Spec
INVARIANTS
    ScheduleZeroNotSent
