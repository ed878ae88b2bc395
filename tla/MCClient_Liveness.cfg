SPECIFICATION BackloggedSpec
CONSTANTS
    Records = {r1, r2, r3}
    Callers = {f1}
    Closer = closer
    Background = background
    Workers = {w1}
    QueueSize = 2
    BatchSize = 2
    Faults = {"bytes"}
PROPERTIES
    CloseReturns
    FlushReturns
    EveryRecordSettles
