SPECIFICATION FairAlertsSpec
CONSTANTS
    b1 = b1
    Blade <- MCBlade
    Hold = 2
    MaxTurns = 4
    MaxTroubles = 1
INVARIANTS HeldBeforeSaid SaidOnce
PROPERTY AlertsSettle
CHECK_DEADLOCK FALSE
