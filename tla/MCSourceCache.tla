--------------------------- MODULE MCSourceCache ---------------------------
\* SourceCache for TLC.
EXTENDS SourceCache, TLC

Symmetry == Permutations(Goroutines) \cup Permutations(Sites) \cup Permutations(Maps)
=============================================================================
