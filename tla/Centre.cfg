SPECIFICATION MCSpec
CONSTANTS
    b1 = b1  b2 = b2  s1 = s1  i1 = i1
    Blade <- MCBlade
    Slot <- MCSlot
    Served <- MCServed
    Image <- MCImage
    Catalogue <- MCImage
    None = None
    LocalDHCP = TRUE
INVARIANTS OneBladePerSlot ReservationsFollow ForgottenLeavesNothing SentBelongsToProbe
PROPERTY ArmedByAPersonOnly
CONSTRAINT FewCommands
CHECK_DEADLOCK FALSE
