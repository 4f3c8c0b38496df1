SPECIFICATION FairImgSpec
CONSTANTS
    i1 = i1  u1 = u1  u2 = u2  h1 = h1  h2 = h2  w1 = w1  w2 = w2  s1 = s1
    Image <- MCImage
    URL <- MCURL
    Handler <- MCHandler
    Worker <- MCWorker
    Stray <- MCStray
    Name <- MCName
    mirrorName <- MCmirrorName
    preparedName <- MCpreparedName
    None = None
    MaxAsks = 3
    MaxStops = 1
INVARIANTS OneAtATime ReadyIsWhole UsedStays
PROPERTY QueueSettles
CONSTRAINT FirstComesFirst
CHECK_DEADLOCK FALSE
