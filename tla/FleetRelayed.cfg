SPECIFICATION FairFleetSpec
CONSTANTS
    b1 = b1  s1 = s1  i1 = i1
    Blade <- MCBlade
    Slot <- MCSlot
    Served <- MCSlot
    Image <- MCImage
    Catalogue <- MCImage
    None = None
    LocalDHCP = FALSE
    Refused = {"reimage"}
    MaxAsks = 2
    MaxFaults = 2
    MaxQueue = 2
INVARIANT SameDecisionOffline
PROPERTIES WipeNeedsTheButton FinishedBladeBoots
CHECK_DEADLOCK FALSE
