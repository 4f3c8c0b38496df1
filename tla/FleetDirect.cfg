SPECIFICATION FairFleetSpec
CONSTANTS
    b1 = b1  s1 = s1  i1 = i1
    Blade <- MCBlade
    Slot <- MCSlot
    Served <- MCSlot
    Image <- MCImage
    Catalogue <- MCImage
    None = None
    LocalDHCP = TRUE
    Refused = {}
    MaxAsks = 2
    MaxFaults = 3
    MaxQueue = 1
PROPERTIES HalfWrittenStaysArmed SlotFreedWhenEmpty JobProtected GoNeedsTheButton WipeHappens
CHECK_DEADLOCK FALSE
