SPECIFICATION Spec
CONSTANTS
    Records = {1, 2, 3}
    Workers = {w1}
    Cells <- MCCells
    QueueSize = 2
    BatchSize = 3
    HardMax = 7
    MaxWriting = 1
INVARIANTS
    QueuedIntact
    RawIntact
    BodyIntact
    OneOwner
