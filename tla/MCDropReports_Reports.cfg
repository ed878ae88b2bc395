CONSTANTS
    queueFull = queueFull
    clientClosed = clientClosed
    Reasons = {queueFull, clientClosed}
    Leftover = clientClosed
    Interval = 3
    Setup = 1
    MaxDrops = 2
SPECIFICATION FairSpec
INVARIANTS
    Fresh
    ToldOnce
PROPERTIES
    DropsSurface
CHECK_DEADLOCK FALSE
