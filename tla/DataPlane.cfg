SPECIFICATION Spec
CONSTANTS
    Networks <- MCNetworks
    MaxPackets = 2
INVARIANTS
    SlotsDisjoint
    ControlSlotsFree
    InterferenceLinksTold
    HopsFollow
    RoutesRight
    ReadInOrder
PROPERTIES
    LossesMasked
