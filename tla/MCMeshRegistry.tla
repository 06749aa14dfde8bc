--------------------------- MODULE MCMeshRegistry ---------------------------
(* Small instances of MeshRegistry for TLC. *)
EXTENDS MeshRegistry

CONSTANTS a, b, hub, guest, c1, c2, x, y

OneNode     == {a}
TwoNodes    == {a, b}
OwnPath     == [n \in TwoNodes |-> IF n = a THEN x ELSE y]
OnePath     == [n \in OneNode |-> x]
SamePath    == [n \in TwoNodes |-> x]
NoSeedOne   == [n \in OneNode |-> NoSeed]
NoSeeds     == [n \in TwoNodes |-> NoSeed]
SeedIsA     == [n \in TwoNodes |-> IF n = a THEN NoSeed ELSE a]

\* One call at a time in each process, or two in one process.
OneCall     == {c1, c2}
OneCallOf   == [s \in OneCall |-> IF s = c1 THEN a ELSE b]
BothOf      == [s \in OneCall |-> a]
=============================================================================
