SPECIFICATION FairSpoolSpec
CONSTANTS
    MaxItems = 3
    MaxQueue = 2
    MaxFaults = 1
    MaxStops = 1
INVARIANT InOrder
PROPERTIES IsMailbox EverythingArrives
CHECK_DEADLOCK FALSE
