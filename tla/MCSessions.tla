----------------------------- MODULE MCSessions -----------------------------
EXTENDS Sessions, TLC

\* The devices of a run are interchangeable.
Symmetry == Permutations(Device)
=============================================================================
