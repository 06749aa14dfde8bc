----------------------------- MODULE MCTaskWaits -----------------------------
(* Instances of TaskWaits for TLC. *)
EXTENDS TaskWaits, TLC

CONSTANTS n1, s1, s2, p1, v1, p2, c1, c2

Once     == [t \in Task |-> 1]
Unpinned == [t \in Task |-> AnyNode]

\* A parent and its verifier, the call that creates the parent and a watcher.
OnePair  == [p \in {p1} |-> v1]
OnTheRow == [c \in {c1, c2} |-> p1]

\* The slots are interchangeable.
Alike == Permutations(Slot)

\* Two ticks of one schedule, whose rows are not evaluated.
NoPairs  == [p \in {} |-> p]
TwoTicks == [c \in {c1, c2} |-> IF c = c1 THEN p1 ELSE p2]
=============================================================================
