SPECIFICATION Spec
CONSTANTS
    Records = {r1, r2, r3}
    Callers = {f1}
    Closer = closer
    Background = background
    Workers = {w1, w2}
    QueueSize = 3
    BatchSize = 1
    Faults = {}
SYMMETRY Symmetry
INVARIANT
    FlushSettles
