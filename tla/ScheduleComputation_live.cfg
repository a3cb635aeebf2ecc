CONSTANTS
    Ids <- OneStream
    Params <- OneDirection
    MaxScheduleId = 1
SPECIFICATION FairSpec
INVARIANTS
    IInv
PROPERTIES
    ImplementsService
    RequestsDecided
    ResendServed
    SlotsGivenBack
