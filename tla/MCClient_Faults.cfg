SPECIFICATION Spec
CONSTANTS
    Records = {r1, r2}
    Callers = {f1}
    Closer = closer
    Background = background
    Workers = {w1, w2}
    QueueSize = 1
    BatchSize = 2
    Faults = {"burst", "encode", "local", "bytes", "pack", "overLimit", "tooLarge", "reject", "expire"}
SYMMETRY Symmetry
INVARIANTS
    TypeOK
    CountedOnce
    NothingLost
    StatsBalance
    FailureSurfaces
    RepliedOnce
    CloseLeavesNothingRunning
    CleanCloseLosesNothing
    FlushLag
    PoolCounts
    TimedBatch
PROPERTY
    LedgerSpec
