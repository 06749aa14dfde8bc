---------------------------- MODULE MCTaskEngine ----------------------------
(* Small instances of TaskEngine for TLC. *)
EXTENDS TaskEngine

CONSTANTS n1, n2, p1, p2, p3, w1, w2, w3, t1, t2, m1, m2

\* Two overlapping processes of one node, one slot each.
OneNode      == {n1}
TwoProcs     == {p1, p2}
OverlapNode  == [p \in TwoProcs |-> n1]
TwoWorkers   == {w1, w2}
OverlapHome  == [w \in TwoWorkers |-> IF w = w1 THEN p1 ELSE p2]

\* One process with two slots.
OneProc      == {p1}
SingleNode   == [p \in OneProc |-> n1]
SharedHome   == [w \in TwoWorkers |-> p1]

\* Two nodes, one process and one slot each.
TwoNodes     == {n1, n2}
MeshNode     == [p \in TwoProcs |-> IF p = p1 THEN n1 ELSE n2]

\* Besides, another node, one slot.
ThreeProcs   == {p1, p2, p3}
OverlapMesh  == [p \in ThreeProcs |-> IF p = p3 THEN n2 ELSE n1]
MeshOfTwo    == [p \in {p1, p3} |-> IF p = p3 THEN n2 ELSE n1]
ThreeWorkers == {w1, w2, w3}
OwnHome      == [w \in ThreeWorkers |-> CASE w = w1 -> p1 [] w = w2 -> p2 [] w = w3 -> p3]
SharedMesh   == [w \in ThreeWorkers |-> IF w = w3 THEN p3 ELSE p1]

OneTask      == {t1}
TwoTasks     == {t1, t2}
Once         == [t \in TwoTasks |-> 1]
OnceOne      == [t \in OneTask |-> 1]
TwiceOne     == [t \in OneTask |-> 2]
ThriceOne    == [t \in OneTask |-> 3]
UnpinnedOne  == [t \in OneTask |-> AnyNode]
PinnedOne    == [t \in OneTask |-> n1]
PinnedOneOf  == [t \in TwoTasks |-> IF t = t1 THEN n1 ELSE AnyNode]

AllOneNode   == [n \in OneNode |-> Task]
OnlyFirst    == [n \in TwoNodes |-> IF n = n1 THEN Task ELSE {}]
=============================================================================
