CONSTANTS
    Ids <- TwoStreams
    Params <- OneParams
    MaxScheduleId = 1
SPECIFICATION Spec
INVARIANTS
    TypeOK
    EstablishedIsScheduled
    NoLeakedSlots
    AcceptedIsRemembered
    NoDoubleAllocation
    RescheduleChanges
    DistributionConsistent
    ServerAnnouncementsAgree
PROPERTIES
    ScheduleHeldWhileSent
    DropIsAnnounced
