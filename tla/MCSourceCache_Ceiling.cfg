SPECIFICATION Spec
CONSTANTS
    Sites = {s1, s2, s3}
    Goroutines = {g1}
    Maps = {m1, m2, m3, m4}
    Nil = nil
    Nobody = nobody
    Max = 1
INVARIANT
    Ceiling
