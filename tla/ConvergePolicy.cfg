SPECIFICATION ConvergeSpec
CONSTANTS
    Patches <- MCPatches
    Bodies <- MCBodies
    Orders <- MCOrders
    Windows <- MCWindows
    Day = 2
    MaxEdits = 2
    MaxTroubles = 2
PROPERTY AllowHolds
CHECK_DEADLOCK FALSE
