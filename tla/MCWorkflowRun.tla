--------------------------- MODULE MCWorkflowRun ----------------------------
\* Small scripts for TLC: agent step w, run step v, gates g and h, fork f of b1 and b2.
EXTENDS WorkflowRun, TLC
CONSTANTS w, v, g, h, f, b1, b2, e1, e2, e3

ScriptGW   == <<g, w>>
ScriptGWH   == <<g, w, h>>
ScriptWVF  == <<w, v, f>>
MCBranchOf == (f :> {b1, b2})
MCNoBranch == [x \in {} |-> {}]
MCFields   == (g :> {g} @@ h :> {h})
SameFields == (g :> {g} @@ h :> {g})
Alike == Permutations({b1, b2}) \cup Permutations({e1, e2, e3})
=============================================================================
