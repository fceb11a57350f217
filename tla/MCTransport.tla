---------------------------- MODULE MCTransport -----------------------------
EXTENDS Transport, TLC

\* The goroutines are interchangeable.
Symmetry == Permutations(Callers)
=============================================================================
