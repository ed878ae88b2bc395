SPECIFICATION Spec
CONSTANTS
    Sites = {s1, s2, s3, s4}
    Goroutines = {g1, g2}
    Maps = {m1, m2, m3, m4}
    Nil = nil
    Nobody = nobody
    Max = 2
SYMMETRY Symmetry
INVARIANTS
    NeverEvicted
    HeldOnce
PROPERTIES
    SecondChance
