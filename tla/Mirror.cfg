SPECIFICATION FairMirrorSpec
CONSTANTS
    Size <- SameSize
    MaxDrops = 2
    MaxStops = 1
    MaxRefresh = 1
INVARIANTS HoldsWhatItSays StreamInPlace
PROPERTIES CatchesUp BladeInstalled
CHECK_DEADLOCK FALSE
