SPECIFICATION FairConvergeSpec
CONSTANTS
    Patches <- MCPatches
    Bodies <- MCBodies
    Orders <- MCOrders
    Windows <- MCWindows
    Day = 2
    MaxEdits = 2
    MaxTroubles = 2
INVARIANTS AppliedIsOnDisk RestartIsOwed UnitRunsTheFile
PROPERTIES Converges RestartComes
CHECK_DEADLOCK FALSE
