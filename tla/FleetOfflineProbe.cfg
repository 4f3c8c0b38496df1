SPECIFICATION FleetSpec
CONSTANTS
    b1 = b1  s1 = s1  i1 = i1
    Blade <- MCBlade
    Slot <- MCSlot
    Served <- MCSlot
    Image <- MCImage
    Catalogue <- MCImage
    None = None
    LocalDHCP = FALSE
    Refused = {}
    MaxAsks = 1
    MaxFaults = 1
    MaxQueue = 1
PROPERTY GoNeedsTheButton
CHECK_DEADLOCK FALSE
