------------------------- MODULE MCHarnessRegistry --------------------------
\* Symmetry for TLC: the ids and the clients are interchangeable.
EXTENDS HarnessRegistry, TLC
Alike == Permutations(Id) \cup Permutations(Client)
=============================================================================
