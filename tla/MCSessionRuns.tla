--------------------------- MODULE MCSessionRuns ---------------------------
\* Model checking of SessionRuns: connections are interchangeable.
EXTENDS SessionRuns, TLC

Symmetry == Permutations(Conns)
=============================================================================
