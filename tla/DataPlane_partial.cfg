SPECIFICATION Spec
CONSTANTS
    Networks <- MCNetworks
    MaxPackets = 2
INVARIANTS
    UndoneWhole
