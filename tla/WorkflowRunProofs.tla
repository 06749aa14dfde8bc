------------------------- MODULE WorkflowRunProofs --------------------------
(***************************************************************************)
(* Theorems about WorkflowRun, for any script and any number of calls.     *)
(***************************************************************************)
EXTENDS WorkflowRun, SequenceTheorems, FiniteSetTheorems, WellFoundedInduction, TLAPS

\* The threads that execute steps.
Worker == Exec \X ({"script"} \cup Branch)

LEMMA Threads ==
  /\ Thread = (Exec \X {"engine"}) \cup Worker \cup {Killer}
  /\ \A e \in Exec : Engine(e) \in Thread /\ Engine(e) \notin Worker /\ Engine(e)[1] = e
  /\ \A e \in Exec : Run(e) \in Worker /\ Run(e)[1] = e /\ Run(e)[2] = "script"
  /\ \A e, f \in Exec : Engine(e) # Run(f) /\ (Engine(e) = Engine(f) <=> e = f)
                        /\ (Run(e) = Run(f) <=> e = f)
  /\ Killer \in Thread /\ Killer \notin Worker
  /\ \A e \in Exec : Killer # Engine(e) /\ Killer # Run(e)
  /\ \A t \in Worker : /\ t \in Thread /\ t[1] \in Exec
                       /\ t[2] = "script" \/ t[2] \in Branch
                       /\ t[2] = "script" <=> t = Run(t[1])
  BY KindAssumption DEF Thread, Worker, Engine, Run, Killer

LEMMA ThreadCases ==
  ASSUME NEW t \in Thread
  PROVE  t \in Worker \/ t = Killer \/ \E e \in Exec : t = Engine(e)
  <1>1. CASE t \in Exec \X {"engine"}
    BY <1>1 DEF Engine
  <1> QED
    BY <1>1, Threads

LEMMA Stages ==
  /\ Terminal \subseteq Status /\ Terminal \subseteq Await
  /\ \A s : AfterBegin(s) \in {"gate", "fork", "work"} /\ AfterBegin(s) \in Await
  /\ NoUpdate \in Update
  BY DEF Terminal, Status, Await, AfterBegin, NoUpdate, Update, Case

\* A step of the script or of a branch, by where the thread is.
LEMMA StepOfType ==
  ASSUME at \in [Exec -> 1..(Len(Script) + 1)], NEW t \in Worker
  PROVE  /\ StepOf(t) \in Steps \cup Branch \cup {"done"}
         /\ StepOf(t) \in Steps => /\ t[2] = "script" /\ at[t[1]] \in 1..Len(Script)
                                   /\ StepOf(t) = Script[at[t[1]]]
         /\ StepOf(t) \in Branch => t[2] \in Branch
         /\ t[2] = "script" => StepOf(t) \in Steps \cup {"done"}
  <1>1. Len(Script) \in Nat /\ \A i \in 1..Len(Script) : Script[i] \in Steps
    BY ScriptAssumption
  <1>2. t[1] \in Exec /\ (t[2] = "script" \/ t[2] \in Branch)
    BY DEF Worker
  <1>3. Steps \cap Branch = {} /\ "done" \notin Steps \cup Branch /\ "script" \notin Branch
    BY KindAssumption DEF Steps
  <1> QED
    BY <1>1, <1>2, <1>3 DEF StepOf

-----------------------------------------------------------------------------
\* Where threads can be, beside their types, and the updates they can be in.

EnginePlace(p, u) ==
  /\ p \in {"off", "starting", "queued", "check", "resolve", "flip", "load",
            "await", "finish_run", "ended", "read", "rename"}
  /\ p \in {"read", "rename"} => \/ u.then = "flip" /\ u.status = "keep"
                                 \/ u.then = "load" /\ u.status = "running"
                                 \/ u.then = "finish_run" /\ u.status \in Terminal

WorkerPlace(s, p, u) ==
  /\ p \in {"off", "begin", "mark", "read", "rename", "work", "busy", "finish",
            "fail", "gate", "fork", "join", "joined", "suspended", "ended"} \cup Terminal
  /\ p \in {"read", "rename"} =>
       \/ u.then = AfterBegin(s) /\ u.status = "running" /\ s # "done"
       \/ u.then = "finish" /\ u.status = "keep"
       \/ u.then = "suspended" /\ u.status = "paused_human" /\ s \in Gates
  /\ p = "fail" => u.then \in {"failed", "killed"}
  /\ p = "mark" => s # "done"
  /\ p \in {"work", "busy"} => s \in Paid
  /\ p = "gate" => s \in Gates
  /\ p \in {"fork", "join"} => s \in Forks

KillerPlace(p, u) ==
  /\ p \in {"off", "kill_file", "read", "rename", "finish_kill", "ended"}
  /\ p \in {"read", "rename"} => u.then = "finish_kill" /\ u.status = "killed"

Place ==
  /\ \A e \in Exec : EnginePlace(pc[Engine(e)], pend[Engine(e)])
  /\ \A t \in Worker : WorkerPlace(StepOf(t), pc[t], pend[t])
  /\ KillerPlace(pc[Killer], pend[Killer])

\* An engine at `resolve` has a gate, and only gates are opened.
GateKnown ==
  /\ \A e \in Exec : pc[Engine(e)] = "resolve" => gate[e] \in Gates
  /\ \A i \in DOMAIN journal :
       journal[i].type = "gate_opened" => journal[i].step \in Gates

TInv == TypeOK /\ Place /\ GateKnown

\* The other threads stay where they are.
OthersStay(t) == \A u \in Thread \ {t} : pc'[u] = pc[u] /\ pend'[u] = pend[u]

LEMMA AfterBeginPlace ==
  ASSUME NEW s \in Steps \cup Branch
  PROVE  /\ AfterBegin(s) = "gate" => s \in Gates
         /\ AfterBegin(s) = "fork" => s \in Forks
         /\ AfterBegin(s) = "work" => s \in Paid
         /\ AfterBegin(s) \in {"gate", "fork", "work"}
  BY KindAssumption DEF AfterBegin, Steps, Paid

LEMMA FindOpenGateFacts ==
  ASSUME journal \in Seq(JournalEntry), \E i \in DOMAIN journal : OpenGateAt(i)
  PROVE  \E i \in DOMAIN journal : OpenGateAt(i) /\ FindOpenGate = journal[i].step
  <1> DEFINE Open == {i \in DOMAIN journal : OpenGateAt(i)}
             Last(i) == OpenGateAt(i) /\ \A j \in DOMAIN journal : OpenGateAt(j) => j <= i
             Dist == {Len(journal) - i : i \in Open}
  <1>1. Open # {}
    OBVIOUS
  <1>2. Len(journal) \in Nat /\ DOMAIN journal = 1..Len(journal)
    OBVIOUS
  <1>3. Dist \in SUBSET Nat /\ Dist # {}
    BY <1>1, <1>2
  <1>4. PICK d \in Dist : \A m \in Dist : d <= m
    <2> DEFINE Less == {p \in Nat \X Nat : p[1] < p[2]}
    <2>1. IsWellFoundedOn(Less, Nat)
      BY NatLessThanWellFounded DEF OpToRel
    <2>2. PICK x \in Dist : \A y \in Dist : ~ (<<y, x>> \in Less)
      <3> HIDE DEF Less, Dist
      <3> QED BY <1>3, <2>1, WFMin
    <2>3. \A y \in Nat : ~ (<<y, x>> \in Less) => x <= y
      <3>1. x \in Nat
        BY <1>3
      <3> QED
        BY <3>1
    <2> HIDE DEF Less, Dist
    <2> QED
      BY <1>3, <2>2, <2>3
  <1>5. PICK i \in Open : d = Len(journal) - i
    OBVIOUS
  <1>6. \A j \in Open : Len(journal) - i <= Len(journal) - j
    BY <1>4, <1>5
  <1>7. i \in DOMAIN journal /\ Last(i)
    BY <1>2, <1>5, <1>6
  <1>8. FindOpenGate = journal[CHOOSE k \in DOMAIN journal : Last(k)].step
    BY <1>1 DEF FindOpenGate
  <1> HIDE DEF Last
  <1>9. (CHOOSE k \in DOMAIN journal : Last(k)) \in DOMAIN journal
        /\ Last(CHOOSE k \in DOMAIN journal : Last(k))
    BY <1>7
  <1> QED
    BY <1>8, <1>9 DEF Last

-----------------------------------------------------------------------------
\* updateCase, for any thread.

LEMMA ReadCaseFacts ==
  ASSUME TypeOK, NEW t \in Thread, ReadCase(t)
  PROVE  /\ pc' \in [Thread -> Await] /\ pend' \in [Thread -> Update]
         /\ \A u \in Thread \ {t} : pc'[u] = pc[u] /\ pend'[u] = pend[u]
         /\ \/ pc'[t] = pend[t].then /\ pend'[t] = NoUpdate /\ case.status \in Terminal
            \/ /\ pc'[t] = "rename" /\ case.status \notin Terminal
               /\ pend'[t].then = pend[t].then /\ pend'[t].status = pend[t].status
               /\ pend'[t].add = pend[t].add /\ pend'[t].snap = case
  <1> DEFINE u == [pend[t] EXCEPT !.snap = case]
  <1>1. /\ pend[t] \in Update /\ pend[t].then \in Await /\ "rename" \in Await
        /\ u \in Update /\ u.then = pend[t].then /\ u.status = pend[t].status
        /\ u.add = pend[t].add /\ u.snap = case
    <2>1. pend[t] \in Update /\ case \in Case
      BY DEF TypeOK
    <2> HIDE DEF u
    <2>2. "rename" \in Await
      BY DEF Await
    <2> QED
      BY <2>1, <2>2 DEF Update, u
  <1>2. IF case.status \in Terminal
        THEN pc' = [pc EXCEPT ![t] = pend[t].then] /\ pend' = [pend EXCEPT ![t] = NoUpdate]
        ELSE pc' = [pc EXCEPT ![t] = "rename"] /\ pend' = [pend EXCEPT ![t] = u]
    BY DEF ReadCase
  <1>3. pc \in [Thread -> Await] /\ pend \in [Thread -> Update]
    BY DEF TypeOK
  <1> HIDE DEF u
  <1> QED
    BY <1>1, <1>2, <1>3, Stages

LEMMA WriteCaseFacts ==
  ASSUME TypeOK, NEW t \in Thread, WriteCase(t)
  PROVE  /\ pc' \in [Thread -> Await] /\ pend' \in [Thread -> Update]
         /\ \A u \in Thread \ {t} : pc'[u] = pc[u] /\ pend'[u] = pend[u]
         /\ pc'[t] = pend[t].then /\ pend'[t] = NoUpdate
         /\ case' \in Case
         /\ case'.status = IF pend[t].status = "keep" THEN pend[t].snap.status
                                                     ELSE pend[t].status
  <1>1. pc \in [Thread -> Await] /\ pend \in [Thread -> Update] /\ pend[t] \in Update
        /\ pend[t].then \in Await
    BY DEF TypeOK, Update
  <1>2. /\ case' = Patched(pend[t])
        /\ pc' = [pc EXCEPT ![t] = pend[t].then] /\ pend' = [pend EXCEPT ![t] = NoUpdate]
    BY DEF WriteCase
  <1>3. Patched(pend[t]) \in Case
    BY <1>1 DEF Patched, Update, Case
  <1>4. Patched(pend[t]).status = IF pend[t].status = "keep" THEN pend[t].snap.status
                                                             ELSE pend[t].status
    BY DEF Patched
  <1> QED
    BY <1>1, <1>2, <1>3, <1>4, Stages

LEMMA SamePlace ==
  /\ at' = at => \A t : StepOf(t)' = StepOf(t)
  /\ \A t : t[2] # "script" => StepOf(t)' = StepOf(t)
  /\ \A e \in Exec : at'[e] = at[e] => StepOf(Run(e))' = StepOf(Run(e))
  BY DEF StepOf, Run

\* One thread moves.
LEMMA PlaceMoves ==
  ASSUME Place, NEW t \in Thread,
         \A u \in Thread \ {t} :
           pc'[u] = pc[u] /\ pend'[u] = pend[u] /\ StepOf(u)' = StepOf(u),
         \A e \in Exec : t = Engine(e) => EnginePlace(pc'[t], pend'[t]),
         t \in Worker => WorkerPlace(StepOf(t)', pc'[t], pend'[t]),
         t = Killer => KillerPlace(pc'[t], pend'[t])
  PROVE  Place'
  <1>1. \A e \in Exec : EnginePlace(pc'[Engine(e)], pend'[Engine(e)])
    BY Threads DEF Place
  <1>2. \A u \in Worker : WorkerPlace(StepOf(u)', pc'[u], pend'[u])
    BY Threads DEF Place
  <1>3. KillerPlace(pc'[Killer], pend'[Killer])
    BY Threads DEF Place
  <1> QED
    BY <1>1, <1>2, <1>3 DEF Place

LEMMA ReadWriteType ==
  ASSUME TInv, NEW t \in Thread, ReadCase(t) \/ WriteCase(t)
  PROVE  TInv'
  <1>1. TypeOK'
    BY ReadCaseFacts, WriteCaseFacts
       DEF TInv, TypeOK, ReadCase, WriteCase, durable
  <1>2. /\ \A u \in Thread \ {t} : pc'[u] = pc[u] /\ pend'[u] = pend[u]
        /\ \/ pc'[t] = pend[t].then /\ pend'[t] = NoUpdate
           \/ /\ pc'[t] = "rename" /\ pend'[t].then = pend[t].then
              /\ pend'[t].status = pend[t].status
        /\ pc[t] \in {"read", "rename"}
        /\ UNCHANGED <<at, gate, journal>>
    BY ReadCaseFacts, WriteCaseFacts DEF TInv, ReadCase, WriteCase, durable
  <1>3. \A u : StepOf(u)' = StepOf(u)
    BY <1>2, SamePlace
  <1>4. \A e \in Exec : t = Engine(e) => EnginePlace(pc'[t], pend'[t])
    BY <1>2 DEF TInv, Place, EnginePlace, NoUpdate
  <1>5. t \in Worker => WorkerPlace(StepOf(t), pc'[t], pend'[t])
    <2> SUFFICES ASSUME t \in Worker
                 PROVE  WorkerPlace(StepOf(t), pc'[t], pend'[t])
      OBVIOUS
    <2>1. WorkerPlace(StepOf(t), pc[t], pend[t])
      BY DEF TInv, Place
    <2>2. StepOf(t) \in Steps \cup Branch \cup {"done"}
      BY StepOfType DEF TInv, TypeOK
    <2> QED
      BY <1>2, <2>1, <2>2, AfterBeginPlace DEF WorkerPlace, NoUpdate
  <1>6. t = Killer => KillerPlace(pc'[t], pend'[t])
    BY <1>2 DEF TInv, Place, KillerPlace, NoUpdate
  <1>7. Place'
    BY <1>2, <1>3, <1>4, <1>5, <1>6, PlaceMoves DEF TInv
  <1>8. GateKnown'
    BY <1>2, <1>4, Threads DEF TInv, GateKnown, Place, EnginePlace
  <1> QED
    BY <1>1, <1>7, <1>8 DEF TInv

-----------------------------------------------------------------------------
\* Each action of an engine call keeps the types; e is the only thread to move.

\* The journal grows by an entry that opens no gate, or a known one.
LEMMA JournalGrows ==
  ASSUME journal \in Seq(JournalEntry), NEW x \in JournalEntry, AppendJournal(x)
  PROVE  /\ journal' \in Seq(JournalEntry)
         /\ DOMAIN journal' = DOMAIN journal \cup {Len(journal) + 1}
         /\ \A i \in DOMAIN journal : journal'[i] = journal[i] /\ i # Len(journal) + 1
         /\ journal'[Len(journal) + 1] = x
         /\ Range(journal') = Range(journal) \cup {x}
  <1>1. /\ journal' \in Seq(JournalEntry)
        /\ DOMAIN journal' = DOMAIN journal \cup {Len(journal) + 1}
        /\ \A i \in DOMAIN journal : journal'[i] = journal[i] /\ i # Len(journal) + 1
        /\ journal'[Len(journal) + 1] = x
    BY AppendProperties DEF AppendJournal
  <1> QED
    BY <1>1 DEF Range

LEMMA EngineMoves ==
  ASSUME TInv, NEW e \in Exec, OthersStay(Engine(e)), at' = at,
         EnginePlace(pc'[Engine(e)], pend'[Engine(e)])
  PROVE  Place'
  <1>1. \A u : StepOf(u)' = StepOf(u)
    BY SamePlace
  <1> QED
    BY <1>1, PlaceMoves, Threads DEF TInv, OthersStay

LEMMA LeaveType ==
  ASSUME TInv, NEW e \in Exec, Leave(e)
  PROVE  /\ pc' \in [Thread -> Await] /\ runLock' \in Seq(Exec)
         /\ pc'[Engine(e)] = "ended" /\ \A u \in Thread \ {Engine(e)} : pc'[u] = pc[u]
  BY Threads DEF Leave, TInv, TypeOK, Await

\* An engine call that is not about to resolve, and opens no gate.
LEMMA EngineGateKnown ==
  ASSUME TInv, NEW e \in Exec, OthersStay(Engine(e)), gate' = gate,
         pc'[Engine(e)] # "resolve",
         \/ journal' = journal
         \/ \E x \in JournalEntry : AppendJournal(x) /\ x.type # "gate_opened"
  PROVE  GateKnown'
  <1>1. \A f \in Exec : pc'[Engine(f)] = "resolve" => gate'[f] \in Gates
    BY Threads DEF TInv, GateKnown, OthersStay
  <1>2. \A i \in DOMAIN journal' :
          journal'[i].type = "gate_opened" => journal'[i].step \in Gates
    BY JournalGrows DEF TInv, TypeOK, GateKnown
  <1> QED
    BY <1>1, <1>2 DEF GateKnown

LEMMA OpenGateExists ==
  ASSUME FindOpenGate # None
  PROVE  \E i \in DOMAIN journal : OpenGateAt(i)
  BY DEF FindOpenGate

LEMMA OpenGateKnown ==
  ASSUME TInv, FindOpenGate # None
  PROVE  FindOpenGate \in Gates
  <1>1. journal \in Seq(JournalEntry)
    BY DEF TInv, TypeOK
  <1>2. PICK i \in DOMAIN journal : OpenGateAt(i) /\ FindOpenGate = journal[i].step
    BY <1>1, OpenGateExists, FindOpenGateFacts
  <1>3. journal[i].type = "gate_opened"
    BY <1>2 DEF OpenGateAt
  <1> QED
    BY <1>2, <1>3 DEF TInv, GateKnown

\* A thread of the engine or of a script begins an update.
LEMMA Updates ==
  ASSUME TInv, NEW t \in Thread,
         NEW status \in Status \cup {"keep"}, NEW add \in SUBSET (Steps \cup {"done"}),
         NEW next \in Await, BeginUpdate(t, status, add, next)
  PROVE  /\ pc' \in [Thread -> Await] /\ pend' \in [Thread -> Update] /\ OthersStay(t)
         /\ pc'[t] = "read" /\ pend'[t].then = next
         /\ pend'[t].status = status /\ pend'[t].add = add
  <1> DEFINE u == [NoUpdate EXCEPT !.status = status, !.add = add, !.then = next]
  <1>1. u \in Update /\ u.then = next /\ u.status = status /\ u.add = add
    BY Stages DEF Update, NoUpdate
  <1>2. pend' = [pend EXCEPT ![t] = u] /\ pc' = [pc EXCEPT ![t] = "read"]
    BY DEF BeginUpdate
  <1>3. pc \in [Thread -> Await] /\ pend \in [Thread -> Update] /\ "read" \in Await
    BY DEF TInv, TypeOK, Await
  <1> HIDE DEF u
  <1> QED
    BY <1>1, <1>2, <1>3 DEF OthersStay

LEMMA EngineUpdates ==
  ASSUME TInv, NEW e \in Exec, NEW status, NEW add \in SUBSET (Steps \cup {"done"}),
         NEW next, BeginUpdate(Engine(e), status, add, next),
         \/ status = "keep" /\ next = "flip"
         \/ status = "running" /\ next = "load"
         \/ status \in Terminal /\ next = "finish_run"
  PROVE  /\ pc' \in [Thread -> Await] /\ pend' \in [Thread -> Update]
         /\ OthersStay(Engine(e))
         /\ pc'[Engine(e)] = "read" /\ pend'[Engine(e)].then = next
         /\ pend'[Engine(e)].status = status
         /\ EnginePlace(pc'[Engine(e)], pend'[Engine(e)])
  <1>1. Engine(e) \in Thread
    BY Threads
  <1>2. status \in Status \cup {"keep"} /\ next \in Await
    BY DEF Status, Await, Terminal
  <1>3. /\ pc' \in [Thread -> Await] /\ pend' \in [Thread -> Update]
        /\ OthersStay(Engine(e))
        /\ pc'[Engine(e)] = "read" /\ pend'[Engine(e)].then = next
        /\ pend'[Engine(e)].status = status
    BY <1>1, <1>2, Updates
  <1> QED
    BY <1>3 DEF EnginePlace

LEMMA EngineType ==
  ASSUME TInv, NEW e \in Exec,
         \/ StartRun(e) \/ RunStarted(e) \/ ContinueRun(e) \/ Locked(e)
         \/ CheckGate(e) \/ ResolveGate(e) \/ FlipStatus(e) \/ Settled(e)
         \/ TimeLimit(e) \/ RunFinished(e) \/ \E g \in Gates : ResumeRun(e, g)
  PROVE  TInv' /\ OthersStay(Engine(e))
  <1> DEFINE t == Engine(e)
  <1> USE Threads
  <1>1. t \in Thread /\ {"off", "starting", "queued", "check", "resolve", "flip",
            "load", "await", "finish_run", "ended", "read", "rename"} \subseteq Await
        /\ t # Killer /\ t \notin Worker
    BY DEF Await
  <1>2. CASE StartRun(e)
    <2>1. TypeOK'
      BY <1>1, <1>2 DEF StartRun, TInv, TypeOK, Case, Status
    <2>2. OthersStay(t) /\ EnginePlace(pc'[t], pend'[t]) /\ UNCHANGED <<at, gate, journal>>
      BY <1>1, <1>2 DEF StartRun, TInv, TypeOK, EnginePlace, OthersStay
    <2>3. GateKnown'
      BY <1>1, <1>2, <2>2, EngineGateKnown DEF StartRun, TInv, TypeOK
    <2> QED
      BY <2>1, <2>2, <2>3, EngineMoves DEF TInv
  <1>3. CASE RunStarted(e)
    <2>1. Entry("run_started", None, None) \in JournalEntry
      BY DEF Entry, JournalEntry, EntryType
    <2>2. TypeOK'
      BY <1>1, <1>3, <2>1, JournalGrows DEF RunStarted, TInv, TypeOK
    <2>3. OthersStay(t) /\ EnginePlace(pc'[t], pend'[t]) /\ UNCHANGED <<at, gate>>
      BY <1>1, <1>3 DEF RunStarted, TInv, TypeOK, EnginePlace, OthersStay
    <2>4. GateKnown'
      BY <1>3, <2>1, <2>3, EngineGateKnown DEF RunStarted, TInv, TypeOK, Entry
    <2> QED
      BY <2>2, <2>3, <2>4, EngineMoves DEF TInv
  <1>4. CASE ContinueRun(e) \/ \E g \in Gates : ResumeRun(e, g)
    <2>1. TypeOK'
      <3>1. Append(runLock, e) \in Seq(Exec)
        BY DEF TInv, TypeOK
      <3>2. CASE ContinueRun(e)
        BY <1>1, <3>1, <3>2 DEF ContinueRun, TInv, TypeOK, durable
      <3>3. CASE \E g \in Gates : ResumeRun(e, g)
        BY <1>1, <3>1, <3>3 DEF ResumeRun, TInv, TypeOK, durable
      <3> QED
        BY <1>4, <3>2, <3>3
    <2>2. OthersStay(t) /\ EnginePlace(pc'[t], pend'[t]) /\ UNCHANGED <<at, gate, journal>>
      BY <1>1, <1>4 DEF ContinueRun, ResumeRun, TInv, TypeOK, EnginePlace, OthersStay, durable
    <2>3. GateKnown'
      BY <1>1, <1>4, <2>2, EngineGateKnown DEF ContinueRun, ResumeRun, TInv, TypeOK
    <2> QED
      BY <2>1, <2>2, <2>3, EngineMoves DEF TInv
  <1>5. CASE Locked(e)
    <2>1. /\ pc' \in [Thread -> Await] /\ runLock' \in Seq(Exec)
          /\ pc'[t] \in {"ended", "check", "load"}
          /\ \A u \in Thread \ {t} : pc'[u] = pc[u]
      <3>1. CASE Leave(e)
        BY <3>1, LeaveType
      <3>2. CASE ~ Leave(e)
        <4>1. /\ runLock' = runLock
              /\ \/ pc' = [pc EXCEPT ![t] = "check"]
                 \/ pc' = [pc EXCEPT ![t] = "load"]
          BY <1>5, <3>2 DEF Locked
        <4>2. pc \in [Thread -> Await] /\ runLock \in Seq(Exec)
          BY DEF TInv, TypeOK
        <4> QED
          BY <1>1, <4>1, <4>2
      <3> QED
        BY <3>1, <3>2
    <2>2. UNCHANGED <<durable, killFlag, live, at, answer, gate, pend, late, crashes>>
      BY <1>5 DEF Locked
    <2>3. TypeOK'
      BY <2>1, <2>2 DEF TInv, TypeOK, durable
    <2>4. OthersStay(t) /\ EnginePlace(pc'[t], pend'[t])
      BY <2>1, <2>2 DEF EnginePlace, OthersStay
    <2> QED
      BY <2>1, <2>2, <2>3, <2>4, EngineMoves, EngineGateKnown DEF TInv, durable
  <1>6. CASE CheckGate(e)
    <2> DEFINE open == FindOpenGate
    <2>1. open # None => open \in Gates
      BY OpenGateKnown
    <2> HIDE DEF open
    <2>2. \/ BeginUpdate(t, "running", {}, "load") /\ UNCHANGED <<runLock, gate>>
          \/ Leave(e) /\ UNCHANGED <<gate, pend>>
          \/ /\ open # None /\ gate' = [gate EXCEPT ![e] = open]
             /\ pc' = [pc EXCEPT ![t] = "resolve"] /\ UNCHANGED <<runLock, pend>>
      BY <1>6 DEF CheckGate, open
    <2>3. UNCHANGED <<durable, killFlag, live, at, answer, late, crashes>>
      BY <1>6 DEF CheckGate
    <2>4. CASE BeginUpdate(t, "running", {}, "load") /\ UNCHANGED <<runLock, gate>>
      <3>1. /\ pc' \in [Thread -> Await] /\ pend' \in [Thread -> Update] /\ OthersStay(t)
            /\ pc'[t] = "read" /\ pend'[t].then = "load" /\ pend'[t].status = "running"
        BY <2>4, EngineUpdates
      <3>2. TypeOK' /\ EnginePlace(pc'[t], pend'[t])
        BY <2>3, <2>4, <3>1 DEF TInv, TypeOK, durable, EnginePlace
      <3> QED
        BY <2>3, <2>4, <3>1, <3>2, EngineMoves, EngineGateKnown DEF TInv, durable
    <2>5. CASE Leave(e) /\ UNCHANGED <<gate, pend>>
      <3>1. TypeOK' /\ OthersStay(t) /\ EnginePlace(pc'[t], pend'[t]) /\ pc'[t] = "ended"
        BY <2>3, <2>5, LeaveType DEF TInv, TypeOK, durable, EnginePlace, OthersStay
      <3> QED
        BY <2>3, <2>5, <3>1, EngineMoves, EngineGateKnown DEF TInv, durable
    <2>6. CASE /\ open # None /\ gate' = [gate EXCEPT ![e] = open]
               /\ pc' = [pc EXCEPT ![t] = "resolve"] /\ UNCHANGED <<runLock, pend>>
      <3>1. TypeOK' /\ OthersStay(t) /\ EnginePlace(pc'[t], pend'[t])
        BY <1>1, <2>1, <2>3, <2>6 DEF TInv, TypeOK, durable, EnginePlace, OthersStay
      <3>2. GateKnown'
        BY <1>1, <2>1, <2>3, <2>6, <3>1 DEF TInv, TypeOK, GateKnown, OthersStay, durable
      <3> QED
        BY <2>3, <3>1, <3>2, EngineMoves DEF TInv
    <2> QED
      BY <2>2, <2>4, <2>5, <2>6
  <1>7. CASE ResolveGate(e)
    <2>1. gate[e] \in Gates /\ answer[e] \in Gates \cup {None}
      BY <1>7 DEF ResolveGate, TInv, GateKnown, TypeOK
    <2>2. Entry("gate_resolved", gate[e], answer[e]) \in JournalEntry
      BY <2>1 DEF Entry, JournalEntry, EntryType, Steps
    <2>3. {gate[e]} \in SUBSET (Steps \cup {"done"})
      BY <2>1 DEF Steps
    <2>4. BeginUpdate(t, "keep", {gate[e]}, "flip")
          /\ AppendJournal(Entry("gate_resolved", gate[e], answer[e]))
          /\ UNCHANGED <<case, killFile, killFlag, runLock, live, at, answer, gate,
                         late, crashes>>
      BY <1>7 DEF ResolveGate
    <2>5. /\ pc' \in [Thread -> Await] /\ pend' \in [Thread -> Update] /\ OthersStay(t)
          /\ pc'[t] = "read" /\ EnginePlace(pc'[t], pend'[t])
      BY <2>3, <2>4, EngineUpdates
    <2>6. journal' \in Seq(JournalEntry)
      BY <2>2, <2>4, JournalGrows DEF TInv, TypeOK
    <2>7. TypeOK'
      BY <2>4, <2>5, <2>6 DEF TInv, TypeOK
    <2>8. GateKnown'
      BY <2>2, <2>4, <2>5, EngineGateKnown DEF Entry
    <2> QED
      BY <2>4, <2>5, <2>7, <2>8, EngineMoves DEF TInv
  <1>8. CASE FlipStatus(e) \/ TimeLimit(e)
             \/ (Settled(e) /\ pc[Run(e)] \in Terminal)
    <2>1. UNCHANGED <<durable, killFlag, runLock, live, at, answer, gate, late, crashes>>
      BY <1>8 DEF FlipStatus, TimeLimit, Settled, Terminal
    <2>2. PICK status \in Status, next \in Await :
            /\ BeginUpdate(t, status, {}, next)
            /\ \/ status = "running" /\ next = "load"
               \/ status \in Terminal /\ next = "finish_run"
      BY <1>8, Stages DEF FlipStatus, TimeLimit, Settled, Terminal, Status, Await
    <2>3. /\ pc' \in [Thread -> Await] /\ pend' \in [Thread -> Update] /\ OthersStay(t)
          /\ pc'[t] = "read" /\ EnginePlace(pc'[t], pend'[t])
      BY <2>2, EngineUpdates
    <2>4. TypeOK'
      BY <2>1, <2>3 DEF TInv, TypeOK, durable
    <2> QED
      BY <2>1, <2>3, <2>4, EngineMoves, EngineGateKnown DEF TInv, durable
  <1>9. CASE Settled(e) /\ pc[Run(e)] \notin Terminal
    <2>1. Leave(e) /\ UNCHANGED <<durable, killFlag, live, at, answer, gate, late,
                                  crashes, pend>>
      BY <1>9 DEF Settled
    <2>2. TypeOK' /\ OthersStay(t) /\ EnginePlace(pc'[t], pend'[t]) /\ pc'[t] = "ended"
      BY <2>1, LeaveType DEF TInv, TypeOK, durable, EnginePlace, OthersStay
    <2> QED
      BY <2>1, <2>2, EngineMoves, EngineGateKnown DEF TInv, durable
  <1>10. CASE RunFinished(e)
    <2>1. Entry("run_finished", None, None) \in JournalEntry
      BY DEF Entry, JournalEntry, EntryType
    <2>2. /\ AppendJournal(Entry("run_finished", None, None)) /\ Leave(e)
          /\ UNCHANGED <<case, killFile, killFlag, live, at, answer, gate, pend, late,
                         crashes>>
      BY <1>10 DEF RunFinished
    <2>3. journal' \in Seq(JournalEntry)
      BY <2>1, <2>2, JournalGrows DEF TInv, TypeOK
    <2>4. TypeOK' /\ OthersStay(t) /\ EnginePlace(pc'[t], pend'[t]) /\ pc'[t] = "ended"
      BY <2>2, <2>3, LeaveType DEF TInv, TypeOK, EnginePlace, OthersStay
    <2>5. GateKnown'
      BY <2>1, <2>2, <2>4, EngineGateKnown DEF Entry
    <2> QED
      BY <2>2, <2>4, <2>5, EngineMoves DEF TInv
  <1> QED
    BY <1>2, <1>3, <1>4, <1>5, <1>6, <1>7, <1>8, <1>9, <1>10

-----------------------------------------------------------------------------
\* Each action of a thread that executes steps keeps the types.

LEMMA NextStepType ==
  ASSUME TInv, NEW t \in Worker, NextStep(t)
  PROVE  /\ pc' \in [Thread -> Await] /\ at' \in [Exec -> 1..(Len(Script) + 1)]
         /\ pc'[t] \in {"begin", "done", "joined"}
         /\ \A u \in Thread \ {t} : pc'[u] = pc[u] /\ StepOf(u)' = StepOf(u)
  <1> USE Threads
  <1>1. /\ pc \in [Thread -> Await] /\ at \in [Exec -> 1..(Len(Script) + 1)]
        /\ {"begin", "done", "joined"} \subseteq Await /\ t \in Thread /\ t[1] \in Exec
    BY DEF TInv, TypeOK, Await, Terminal
  <1>2. CASE t[2] = "script" /\ StepOf(t) # "done"
    <2>1. pc' = [pc EXCEPT ![t] = "begin"] /\ at' = [at EXCEPT ![t[1]] = @ + 1]
      BY <1>2 DEF NextStep
    <2>2. at[t[1]] \in 1..Len(Script)
      BY <1>1, <1>2, ScriptAssumption DEF StepOf
    <2>3. at' \in [Exec -> 1..(Len(Script) + 1)]
      BY <1>1, <2>1, <2>2, ScriptAssumption
    <2>4. \A u \in Thread \ {t} : u[2] # "script" \/ u[1] # t[1]
      BY <1>2 DEF Thread, Killer
    <2>5. \A u \in Thread \ {t} : u[2] = "script" => u[1] \in Exec /\ at'[u[1]] = at[u[1]]
      BY <1>1, <2>1, <2>4 DEF Thread, Killer
    <2>6. \A u \in Thread \ {t} : StepOf(u)' = StepOf(u)
      BY <2>5 DEF StepOf
    <2> QED
      BY <1>1, <2>1, <2>3, <2>6
  <1>3. CASE ~ (t[2] = "script" /\ StepOf(t) # "done")
    <2>1. pc' = [pc EXCEPT ![t] = IF t[2] = "script" THEN "done" ELSE "joined"] /\ at' = at
      BY <1>3 DEF NextStep
    <2> QED
      BY <1>1, <2>1, SamePlace
  <1> QED
    BY <1>2, <1>3

LEMMA AppendLiveType ==
  ASSUME TInv, NEW e \in Exec, NEW x \in JournalEntry, AppendLive(e, x)
  PROVE  journal' \in Seq(JournalEntry) /\ live' \in [Exec -> SUBSET JournalEntry]
         /\ AppendJournal(x)
  <1>1. journal \in Seq(JournalEntry) /\ live \in [Exec -> SUBSET JournalEntry]
    BY DEF TInv, TypeOK
  <1>2. AppendJournal(x) /\ live' = [live EXCEPT ![e] = @ \cup {x}]
    BY DEF AppendLive
  <1> QED
    BY <1>1, <1>2, JournalGrows

LEMMA OpenedGates ==
  ASSUME TInv,
         \/ journal' = journal
         \/ \E x \in JournalEntry :
              AppendJournal(x) /\ (x.type = "gate_opened" => x.step \in Gates)
  PROVE  \A i \in DOMAIN journal' :
           journal'[i].type = "gate_opened" => journal'[i].step \in Gates
  <1>1. /\ journal \in Seq(JournalEntry)
        /\ \A i \in DOMAIN journal :
             journal[i].type = "gate_opened" => journal[i].step \in Gates
    BY DEF TInv, TypeOK, GateKnown
  <1>2. CASE journal' = journal
    BY <1>1, <1>2
  <1>3. ASSUME NEW x \in JournalEntry, AppendJournal(x),
               x.type = "gate_opened" => x.step \in Gates
        PROVE  \A i \in DOMAIN journal' :
                 journal'[i].type = "gate_opened" => journal'[i].step \in Gates
    BY <1>1, <1>3, JournalGrows
  <1> QED
    BY <1>2, <1>3

LEMMA WorkerMoves ==
  ASSUME TInv, NEW t \in Worker, OthersStay(t), gate' = gate,
         \A u \in Thread \ {t} : StepOf(u)' = StepOf(u),
         WorkerPlace(StepOf(t)', pc'[t], pend'[t]),
         \/ journal' = journal
         \/ \E x \in JournalEntry :
              AppendJournal(x) /\ (x.type = "gate_opened" => x.step \in Gates)
  PROVE  Place' /\ GateKnown'
  <1> USE Threads
  <1>1. Place'
    BY PlaceMoves DEF TInv, OthersStay
  <1>2. \A f \in Exec : pc'[Engine(f)] = "resolve" => gate'[f] \in Gates
    BY DEF TInv, GateKnown, OthersStay
  <1>3. \A i \in DOMAIN journal' :
          journal'[i].type = "gate_opened" => journal'[i].step \in Gates
    BY OpenedGates
  <1> QED
    BY <1>1, <1>2, <1>3 DEF GateKnown

LEMMA WorkerType ==
  ASSUME TInv, NEW t \in Worker,
         \/ BeginStep(t) \/ StepStarted(t) \/ CallExecutor(t) \/ ExecutorReturns(t)
         \/ ExecutorThrows(t) \/ FinishStep(t) \/ FailStep(t)
         \/ \E e \in Exec : t = Run(e) /\ (OpenGate(e) \/ Join(e))
  PROVE  TInv' /\ OthersStay(t) /\ \A u \in Thread \ {t} : StepOf(u)' = StepOf(u)
  <1> DEFINE s == StepOf(t)
  <1>1. /\ t \in Thread /\ t[1] \in Exec
        /\ \A e \in Exec : t # Engine(e)
        /\ t # Killer
    BY Threads
  <1>2. s \in Steps \cup Branch \cup {"done"}
    BY StepOfType DEF TInv, TypeOK
  <1>3. pc \in [Thread -> Await] /\ pend \in [Thread -> Update]
    BY DEF TInv, TypeOK
  <1>4. {"begin", "mark", "read", "rename", "work", "busy", "finish", "fail", "gate",
          "fork", "join", "joined", "suspended", "failed", "killed"} \subseteq Await
    BY DEF Await, Terminal
  <1>5. WorkerPlace(s, pc[t], pend[t])
    BY DEF TInv, Place
  <1>6. "running" \in Status /\ "paused_human" \in Status
    BY DEF Status
  <1> HIDE DEF s
  <1>7. ASSUME at' = at PROVE \A u : StepOf(u)' = StepOf(u)
    BY <1>7, SamePlace
  <1>8. ASSUME UNCHANGED <<case, killFile, killFlag, runLock, answer, gate, crashes>>,
               journal' = journal /\ live' = live, late' \in [Thread -> Nat],
               at' \in [Exec -> 1..(Len(Script) + 1)],
               pc' \in [Thread -> Await], pend' \in [Thread -> Update]
        PROVE  TypeOK'
    BY <1>8 DEF TInv, TypeOK
  <1>9. ASSUME NEW x \in JournalEntry, AppendLive(t[1], x),
               UNCHANGED <<case, killFile, killFlag, runLock, answer, gate, crashes, late>>,
               at' \in [Exec -> 1..(Len(Script) + 1)],
               pc' \in [Thread -> Await], pend' \in [Thread -> Update]
        PROVE  TypeOK' /\ AppendJournal(x)
    <2>1. journal' \in Seq(JournalEntry) /\ live' \in [Exec -> SUBSET JournalEntry]
          /\ AppendJournal(x)
      BY <1>1, <1>9, AppendLiveType
    <2> QED
      BY <1>9, <2>1 DEF TInv, TypeOK
  <1>10. late \in [Thread -> Nat] /\ at \in [Exec -> 1..(Len(Script) + 1)]
    BY DEF TInv, TypeOK
  <1>11. CASE BeginStep(t)
    <2>1. UNCHANGED <<case, killFile, killFlag, runLock, answer, gate, crashes, late>>
          /\ journal' = journal /\ live' = live
      BY <1>11 DEF BeginStep, durable
    <2>2. CASE NextStep(t) /\ UNCHANGED pend
      <3>1. /\ pc' \in [Thread -> Await] /\ at' \in [Exec -> 1..(Len(Script) + 1)]
            /\ pc'[t] \in {"begin", "done", "joined"}
            /\ \A u \in Thread \ {t} : pc'[u] = pc[u] /\ StepOf(u)' = StepOf(u)
        BY <2>2, NextStepType
      <3>2. OthersStay(t) /\ WorkerPlace(StepOf(t)', pc'[t], pend'[t])
        BY <2>2, <3>1 DEF OthersStay, WorkerPlace, Terminal
      <3> QED
        BY <1>3, <1>8, <1>10, <2>1, <2>2, <3>1, <3>2, WorkerMoves DEF TInv
    <2>3. CASE \E p \in {"killed", "failed", "mark"} :
                 /\ pc' = [pc EXCEPT ![t] = p] /\ UNCHANGED <<at, pend>>
                 /\ p = "mark" => s # "done"
      <3>1. /\ pc' \in [Thread -> Await] /\ OthersStay(t)
            /\ pc'[t] \in {"killed", "failed", "mark"}
            /\ pc'[t] = "mark" => s # "done"
        BY <1>1, <1>3, <1>4, <2>3 DEF OthersStay
      <3>2. WorkerPlace(StepOf(t)', pc'[t], pend'[t])
        BY <1>7, <2>3, <3>1 DEF WorkerPlace, Terminal, s
      <3> QED
        BY <1>3, <1>7, <1>8, <1>10, <2>1, <2>3, <3>1, <3>2, WorkerMoves DEF TInv
    <2>4. CASE /\ BeginUpdate(t, "running", {}, AfterBegin(s)) /\ s # "done"
               /\ UNCHANGED at
      <3>1. /\ pc' \in [Thread -> Await] /\ pend' \in [Thread -> Update] /\ OthersStay(t)
            /\ pc'[t] = "read" /\ pend'[t].then = AfterBegin(s)
            /\ pend'[t].status = "running"
        BY <1>1, <1>6, <2>4, Stages, Updates
      <3>2. WorkerPlace(StepOf(t)', pc'[t], pend'[t])
        BY <1>7, <2>4, <3>1 DEF WorkerPlace, Terminal, s
      <3> QED
        BY <1>7, <1>8, <1>10, <2>1, <2>4, <3>1, <3>2, WorkerMoves DEF TInv
    <2>5. CASE BeginUpdate(t, "keep", {s}, "finish") /\ s = "done" /\ UNCHANGED at
      <3>1. /\ pc' \in [Thread -> Await] /\ pend' \in [Thread -> Update] /\ OthersStay(t)
            /\ pc'[t] = "read" /\ pend'[t].then = "finish" /\ pend'[t].status = "keep"
        BY <1>1, <1>4, <2>5, Updates
      <3>2. WorkerPlace(StepOf(t)', pc'[t], pend'[t])
        BY <1>7, <2>5, <3>1 DEF WorkerPlace, Terminal, s
      <3> QED
        BY <1>7, <1>8, <1>10, <2>1, <2>5, <3>1, <3>2, WorkerMoves DEF TInv
    <2> QED
      BY <1>11, <2>2, <2>3, <2>4, <2>5 DEF BeginStep, s
  <1>12. CASE StepStarted(t)
    <2> DEFINE x == Entry("step_started", s, None)
    <2>1. x \in JournalEntry /\ x.type # "gate_opened"
      BY <1>2 DEF Entry, JournalEntry, EntryType
    <2>2. /\ UNCHANGED <<case, killFile, killFlag, runLock, answer, gate, crashes, late, at>>
          /\ AppendLive(t[1], x) /\ BeginUpdate(t, "running", {}, AfterBegin(s))
          /\ s # "done"
      BY <1>5, <1>12 DEF StepStarted, s, WorkerPlace
    <2>3. /\ pc' \in [Thread -> Await] /\ pend' \in [Thread -> Update] /\ OthersStay(t)
          /\ pc'[t] = "read" /\ pend'[t].then = AfterBegin(s)
          /\ pend'[t].status = "running"
      BY <1>1, <1>6, <2>2, Stages, Updates
    <2> HIDE DEF x
    <2>4. WorkerPlace(StepOf(t)', pc'[t], pend'[t])
      BY <1>7, <2>2, <2>3 DEF WorkerPlace, Terminal, s
    <2>5. TypeOK' /\ AppendJournal(x)
      BY <1>9, <1>10, <2>1, <2>2, <2>3
    <2> QED
      BY <1>7, <2>1, <2>2, <2>3, <2>4, <2>5, WorkerMoves DEF TInv
  <1>13. CASE CallExecutor(t)
    <2>1. /\ UNCHANGED <<case, killFile, killFlag, runLock, answer, gate, crashes, at, pend>>
          /\ journal' = journal /\ live' = live
          /\ pc[t] = "work" /\ pc' = [pc EXCEPT ![t] = "busy"]
      BY <1>13 DEF CallExecutor, durable
    <2>2. late' \in [Thread -> Nat]
      <3>1. late' = late \/ late' = [late EXCEPT ![t] = late[t] + 1]
        BY <1>10, <1>13 DEF CallExecutor
      <3>2. late[t] + 1 \in Nat
        BY <1>1, <1>10
      <3> QED
        BY <1>10, <3>1, <3>2
    <2>3. pc' \in [Thread -> Await] /\ OthersStay(t) /\ pc'[t] = "busy"
      BY <1>1, <1>3, <1>4, <2>1 DEF OthersStay
    <2>4. WorkerPlace(StepOf(t)', pc'[t], pend'[t])
      BY <1>5, <1>7, <2>1, <2>3 DEF WorkerPlace, Terminal, s
    <2> QED
      BY <1>3, <1>7, <1>8, <1>10, <2>1, <2>2, <2>3, <2>4, WorkerMoves DEF TInv
  <1>14. CASE \/ ExecutorReturns(t) \/ ExecutorThrows(t)
              \/ \E e \in Exec : t = Run(e) /\ Join(e)
    <2>1. /\ UNCHANGED <<case, killFile, killFlag, runLock, answer, gate, crashes, at, late>>
          /\ journal' = journal /\ live' = live
      BY <1>14 DEF ExecutorReturns, ExecutorThrows, Join, durable
    <2>2. CASE BeginUpdate(t, "keep", {s}, "finish") /\ s \in Agents
      <3>1. {s} \in SUBSET (Steps \cup {"done"})
        BY <2>2 DEF Steps
      <3>2. /\ pc' \in [Thread -> Await] /\ pend' \in [Thread -> Update] /\ OthersStay(t)
            /\ pc'[t] = "read" /\ pend'[t].then = "finish" /\ pend'[t].status = "keep"
        BY <1>1, <1>4, <2>2, <3>1, Updates
      <3>3. WorkerPlace(StepOf(t)', pc'[t], pend'[t])
        BY <1>7, <2>1, <3>2 DEF WorkerPlace, Terminal
      <3> QED
        BY <1>7, <1>8, <1>10, <2>1, <3>2, <3>3, WorkerMoves DEF TInv
    <2>3. CASE pc' = [pc EXCEPT ![t] = "finish"] /\ UNCHANGED pend
      <3>1. pc' \in [Thread -> Await] /\ OthersStay(t) /\ pc'[t] = "finish"
        BY <1>1, <1>3, <1>4, <2>3 DEF OthersStay
      <3>2. WorkerPlace(StepOf(t)', pc'[t], pend'[t])
        BY <3>1 DEF WorkerPlace, Terminal
      <3> QED
        BY <1>3, <1>7, <1>8, <1>10, <2>1, <2>3, <3>1, <3>2, WorkerMoves DEF TInv
    <2>4. CASE \E p \in {"failed", "killed"} :
                 /\ pc' = [pc EXCEPT ![t] = "fail"] /\ pend' = [pend EXCEPT ![t].then = p]
      <3>1. PICK p \in {"failed", "killed"} :
              /\ pc' = [pc EXCEPT ![t] = "fail"] /\ pend' = [pend EXCEPT ![t].then = p]
        BY <2>4
      <3> DEFINE u == [pend[t] EXCEPT !.then = p]
      <3>2. u \in Update /\ u.then = p
        BY <1>1, <1>3, <1>4 DEF Update
      <3>3. pend' = [pend EXCEPT ![t] = u]
        BY <1>1, <1>3, <3>1
      <3> HIDE DEF u
      <3>4. /\ pc' \in [Thread -> Await] /\ pend' \in [Thread -> Update] /\ OthersStay(t)
            /\ pc'[t] = "fail" /\ pend'[t].then = p
        BY <1>1, <1>3, <1>4, <3>1, <3>2, <3>3 DEF OthersStay
      <3>5. WorkerPlace(StepOf(t)', pc'[t], pend'[t])
        BY <3>4 DEF WorkerPlace, Terminal
      <3> QED
        BY <1>7, <1>8, <1>10, <2>1, <3>4, <3>5, WorkerMoves DEF TInv
    <2> QED
      BY <1>14, <2>2, <2>3, <2>4 DEF ExecutorReturns, ExecutorThrows, Join, s
  <1>15. CASE FinishStep(t) \/ FailStep(t)
    <2>1. UNCHANGED <<case, killFile, killFlag, runLock, answer, gate, crashes, late>>
      BY <1>15 DEF FinishStep, FailStep
    <2>2. PICK x \in JournalEntry : AppendLive(t[1], x) /\ x.type # "gate_opened"
      <3>1. Entry("step_finished", s, t[1]) \in JournalEntry
            /\ Entry("step_failed", s, None) \in JournalEntry
        BY <1>1, <1>2 DEF Entry, JournalEntry, EntryType
      <3> QED
        BY <1>15, <3>1 DEF FinishStep, FailStep, Entry, s
    <2>3. pend' \in [Thread -> Update] /\ \A u \in Thread \ {t} : pend'[u] = pend[u]
      BY <1>1, <1>3, <1>15, Stages DEF FinishStep, FailStep
    <2>4. CASE NextStep(t)
      <3>1. /\ pc' \in [Thread -> Await] /\ at' \in [Exec -> 1..(Len(Script) + 1)]
            /\ pc'[t] \in {"begin", "done", "joined"}
            /\ \A u \in Thread \ {t} : pc'[u] = pc[u] /\ StepOf(u)' = StepOf(u)
        BY <2>4, NextStepType
      <3>2. OthersStay(t) /\ WorkerPlace(StepOf(t)', pc'[t], pend'[t])
        BY <2>3, <3>1 DEF OthersStay, WorkerPlace, Terminal
      <3>3. TypeOK' /\ \E y \in JournalEntry : AppendJournal(y) /\ y.type # "gate_opened"
        BY <1>9, <2>1, <2>2, <2>3, <3>1
      <3> QED
        BY <2>1, <3>1, <3>2, <3>3, WorkerMoves DEF TInv
    <2>5. CASE pc' = [pc EXCEPT ![t] = pend[t].then] /\ pc[t] = "fail" /\ UNCHANGED at
      <3>1. pend[t].then \in {"failed", "killed"}
        BY <1>5, <2>5 DEF WorkerPlace
      <3>2. /\ pc' \in [Thread -> Await] /\ OthersStay(t)
            /\ pc'[t] \in {"failed", "killed"}
        BY <1>1, <1>3, <1>4, <2>3, <2>5, <3>1 DEF OthersStay
      <3>3. WorkerPlace(StepOf(t)', pc'[t], pend'[t])
        BY <3>2 DEF WorkerPlace, Terminal
      <3>4. TypeOK' /\ \E y \in JournalEntry : AppendJournal(y) /\ y.type # "gate_opened"
        BY <1>9, <1>10, <2>1, <2>2, <2>3, <2>5, <3>2
      <3> QED
        BY <1>7, <2>1, <2>5, <3>2, <3>3, <3>4, WorkerMoves DEF TInv
    <2> QED
      BY <1>15, <2>4, <2>5 DEF FinishStep, FailStep
  <1>16. CASE \E e \in Exec : t = Run(e) /\ OpenGate(e)
    <2>1. PICK e \in Exec : t = Run(e) /\ OpenGate(e)
      BY <1>16
    <2>2. /\ UNCHANGED <<case, killFile, killFlag, runLock, answer, gate, crashes, late, at>>
          /\ BeginUpdate(t, "paused_human", {}, "suspended") /\ pc[t] = "gate"
          /\ \/ UNCHANGED <<journal, live>>
             \/ AppendLive(e, Entry("gate_opened", s, None))
      BY <2>1 DEF OpenGate, s
    <2>3. s \in Gates /\ e = t[1]
      BY <1>5, <2>1, <2>2, Threads DEF WorkerPlace
    <2>4. /\ pc' \in [Thread -> Await] /\ pend' \in [Thread -> Update] /\ OthersStay(t)
          /\ pc'[t] = "read" /\ pend'[t].then = "suspended"
          /\ pend'[t].status = "paused_human"
      BY <1>1, <1>4, <1>6, <2>2, Updates
    <2>5. WorkerPlace(StepOf(t)', pc'[t], pend'[t])
      BY <1>7, <2>2, <2>3, <2>4 DEF WorkerPlace, Terminal, s
    <2>6. CASE UNCHANGED <<journal, live>>
      BY <1>7, <1>8, <1>10, <2>2, <2>4, <2>5, <2>6, WorkerMoves DEF TInv
    <2>7. CASE AppendLive(e, Entry("gate_opened", s, None))
      <3> DEFINE x == Entry("gate_opened", s, None)
      <3>1. x \in JournalEntry /\ x.step \in Gates
        BY <2>3 DEF Entry, JournalEntry, EntryType, Steps
      <3> HIDE DEF x
      <3>2. AppendLive(t[1], x)
        BY <2>3, <2>7 DEF x
      <3>3. TypeOK' /\ AppendJournal(x)
        BY <1>9, <1>10, <2>2, <2>4, <3>1, <3>2
      <3> QED
        BY <1>7, <2>2, <2>4, <2>5, <3>1, <3>3, WorkerMoves DEF TInv
    <2> QED
      BY <2>2, <2>6, <2>7
  <1> QED
    BY <1>11, <1>12, <1>13, <1>14, <1>15, <1>16

-----------------------------------------------------------------------------
\* killRun, a fork, a start of a script and a crash.

LEMMA KillType ==
  ASSUME TInv, KillRun \/ KillFile \/ KillFinished
  PROVE  TInv' /\ OthersStay(Killer)
  <1> USE Threads
  <1>1. /\ pc \in [Thread -> Await] /\ pend \in [Thread -> Update]
        /\ {"kill_file", "finish_kill", "ended", "read"} \subseteq Await
        /\ "killed" \in Status /\ "finish_kill" \in Await
    BY DEF TInv, TypeOK, Await, Status, Terminal
  <1>2. ASSUME OthersStay(Killer), KillerPlace(pc'[Killer], pend'[Killer]),
               UNCHANGED <<at, gate>>,
               \/ journal' = journal
               \/ \E x \in JournalEntry : AppendJournal(x) /\ x.type # "gate_opened"
        PROVE  Place' /\ GateKnown'
    <2>1. Place'
      BY <1>2, SamePlace, PlaceMoves DEF TInv, OthersStay
    <2>2. \A f \in Exec : pc'[Engine(f)] = "resolve" => gate'[f] \in Gates
      BY <1>2 DEF TInv, GateKnown, OthersStay
    <2>3. \A i \in DOMAIN journal' :
            journal'[i].type = "gate_opened" => journal'[i].step \in Gates
      BY <1>2, OpenedGates
    <2> QED
      BY <2>1, <2>2, <2>3 DEF GateKnown
  <1>3. CASE KillRun
    <2>1. TypeOK'
      BY <1>1, <1>3 DEF KillRun, TInv, TypeOK, durable
    <2>2. OthersStay(Killer) /\ KillerPlace(pc'[Killer], pend'[Killer])
      BY <1>1, <1>3 DEF KillRun, OthersStay, KillerPlace
    <2> QED
      BY <1>2, <1>3, <2>1, <2>2 DEF KillRun, TInv, durable
  <1>4. CASE KillFile
    <2>1. /\ pc' \in [Thread -> Await] /\ pend' \in [Thread -> Update] /\ OthersStay(Killer)
          /\ pc'[Killer] = "read" /\ pend'[Killer].then = "finish_kill"
          /\ pend'[Killer].status = "killed"
      BY <1>1, <1>4, Updates DEF KillFile
    <2>2. TypeOK' /\ KillerPlace(pc'[Killer], pend'[Killer])
      BY <1>4, <2>1 DEF KillFile, TInv, TypeOK, KillerPlace
    <2> QED
      BY <1>2, <1>4, <2>1, <2>2 DEF KillFile, TInv
  <1>5. CASE KillFinished
    <2>1. Entry("run_finished", None, None) \in JournalEntry
          /\ Entry("run_finished", None, None).type # "gate_opened"
      BY DEF Entry, JournalEntry, EntryType
    <2>2. journal' \in Seq(JournalEntry)
      BY <1>5, <2>1, JournalGrows DEF KillFinished, TInv, TypeOK
    <2>3. TypeOK'
      BY <1>1, <1>5, <2>2 DEF KillFinished, TInv, TypeOK
    <2>4. OthersStay(Killer) /\ KillerPlace(pc'[Killer], pend'[Killer])
      BY <1>1, <1>5 DEF KillFinished, OthersStay, KillerPlace
    <2> QED
      BY <1>2, <1>5, <2>1, <2>3, <2>4 DEF KillFinished, TInv
  <1> QED
    BY <1>3, <1>4, <1>5

LEMMA ExecuteType ==
  ASSUME TInv, NEW e \in Exec, Execute(e)
  PROVE  /\ TInv'
         /\ pc'[Engine(e)] = "await" /\ pc'[Run(e)] = "begin" /\ pend' = pend
         /\ \A u \in Thread \ {Engine(e), Run(e)} : pc'[u] = pc[u]
         /\ \A u : StepOf(u)' = StepOf(u)
  <1> USE Threads
  <1>1. /\ pc \in [Thread -> Await] /\ "await" \in Await /\ "begin" \in Await
        /\ Engine(e) \in Thread /\ Run(e) \in Thread /\ Engine(e) # Run(e)
    BY DEF TInv, TypeOK, Await
  <1>2. /\ live' = [live EXCEPT ![e] = Range(journal)]
        /\ pc' = [pc EXCEPT ![Engine(e)] = "await", ![Run(e)] = "begin"]
        /\ UNCHANGED <<durable, killFlag, runLock, at, answer, gate, pend, late, crashes>>
    BY DEF Execute
  <1>3. /\ pc' \in [Thread -> Await]
        /\ pc'[Engine(e)] = "await" /\ pc'[Run(e)] = "begin"
        /\ \A u \in Thread \ {Engine(e), Run(e)} : pc'[u] = pc[u]
    BY <1>1, <1>2
  <1>4. live' \in [Exec -> SUBSET JournalEntry]
    <2>1. Range(journal) \in SUBSET JournalEntry
      BY DEF TInv, TypeOK, Range
    <2> QED
      BY <1>2, <2>1 DEF TInv, TypeOK
  <1>5. TypeOK'
    BY <1>2, <1>3, <1>4 DEF TInv, TypeOK, durable
  <1>6. \A u : StepOf(u)' = StepOf(u)
    BY <1>2, SamePlace
  <1>7. Place'
    <2>1. \A f \in Exec : EnginePlace(pc'[Engine(f)], pend'[Engine(f)])
      BY <1>2, <1>3 DEF TInv, Place, EnginePlace
    <2>2. \A t \in Worker : WorkerPlace(StepOf(t)', pc'[t], pend'[t])
      <3>1. WorkerPlace(StepOf(Run(e))', pc'[Run(e)], pend'[Run(e)])
        BY <1>3 DEF WorkerPlace, Terminal
      <3>2. \A t \in Worker : t # Run(e) => pc'[t] = pc[t] /\ pend'[t] = pend[t]
        BY <1>2, <1>3
      <3> QED
        BY <1>6, <3>1, <3>2 DEF TInv, Place
    <2>3. KillerPlace(pc'[Killer], pend'[Killer])
      BY <1>2, <1>3 DEF TInv, Place
    <2> QED
      BY <2>1, <2>2, <2>3 DEF Place
  <1>8. GateKnown'
    BY <1>2, <1>3 DEF TInv, GateKnown, durable
  <1> QED
    BY <1>2, <1>3, <1>5, <1>6, <1>7, <1>8 DEF TInv

LEMMA ForkType ==
  ASSUME TInv, NEW e \in Exec, Fork(e)
  PROVE  /\ TInv'
         /\ \A u \in Thread : \/ pc'[u] = pc[u]
                              \/ u \in Worker /\ u[1] = e /\ pc'[u] \in {"join", "begin"}
         /\ \A f \in Exec : pc'[Engine(f)] = pc[Engine(f)]
         /\ \A f \in Exec : f # e => pc'[Run(f)] = pc[Run(f)]
         /\ pc'[Run(e)] = "join" /\ pend' = pend
         /\ \A u : StepOf(u)' = StepOf(u)
  <1> USE Threads
  <1>1. /\ pc[Run(e)] = "fork" /\ StepOf(Run(e)) \in Forks
    BY DEF Fork, TInv, Place, WorkerPlace
  <1> DEFINE B == BranchOf[StepOf(Run(e))]
  <1>2. B \subseteq Branch /\ "engine" \notin B /\ "script" \notin B /\ Killer[1] # e
    BY <1>1, ScriptAssumption, KindAssumption DEF Killer
  <1>3. pc' = [t \in Thread |-> IF t = Run(e) THEN "join"
                               ELSE IF t[1] = e /\ t[2] \in B THEN "begin" ELSE pc[t]]
        /\ UNCHANGED <<durable, killFlag, runLock, live, at, answer, gate, pend, late, crashes>>
    BY DEF Fork
  <1>4. Engine(e)[2] = "engine" /\ \A g \in Exec : Engine(g)[2] = "engine"
        /\ \A h \in Exec : Run(h)[1] = h
    BY DEF Engine, Run
  <1> HIDE DEF B
  <1>5. /\ pc' \in [Thread -> Await]
        /\ pc'[Run(e)] = "join" /\ pc'[Killer] = pc[Killer]
        /\ \A f \in Exec : pc'[Engine(f)] = pc[Engine(f)]
        /\ \A f \in Exec : f # e => pc'[Run(f)] = pc[Run(f)]
        /\ \A t \in Worker : t # Run(e) => pc'[t] = pc[t] \/ (pc'[t] = "begin" /\ t[1] = e)
    <2>1. pc \in [Thread -> Await] /\ "join" \in Await /\ "begin" \in Await
      BY DEF TInv, TypeOK, Await
    <2> QED
      BY <1>2, <1>3, <1>4, <2>1
  <1>6. TypeOK'
    BY <1>3, <1>5 DEF TInv, TypeOK, durable
  <1>7. \A u : StepOf(u)' = StepOf(u)
    BY <1>3, SamePlace
  <1>8. Place'
    <2>1. \A f \in Exec : EnginePlace(pc'[Engine(f)], pend'[Engine(f)])
      BY <1>3, <1>5 DEF TInv, Place
    <2>2. \A t \in Worker : WorkerPlace(StepOf(t)', pc'[t], pend'[t])
      <3>1. WorkerPlace(StepOf(Run(e))', pc'[Run(e)], pend'[Run(e)])
        BY <1>1, <1>5, <1>7 DEF WorkerPlace, Terminal
      <3>2. \A t \in Worker : pc'[t] = "begin" => WorkerPlace(StepOf(t)', pc'[t], pend'[t])
        BY DEF WorkerPlace, Terminal
      <3> QED
        BY <1>3, <1>5, <1>7, <3>1, <3>2 DEF TInv, Place
    <2>3. KillerPlace(pc'[Killer], pend'[Killer])
      BY <1>3, <1>5 DEF TInv, Place
    <2> QED
      BY <2>1, <2>2, <2>3 DEF Place
  <1>9. GateKnown'
    BY <1>3, <1>5 DEF TInv, GateKnown, durable
  <1>10. \A u \in Thread : \/ pc'[u] = pc[u]
                           \/ u \in Worker /\ u[1] = e /\ pc'[u] \in {"join", "begin"}
    <2> SUFFICES ASSUME NEW u \in Thread, pc'[u] # pc[u]
                 PROVE  u \in Worker /\ u[1] = e /\ pc'[u] \in {"join", "begin"}
      OBVIOUS
    <2>1. u # Killer /\ \A f \in Exec : u # Engine(f)
      BY <1>5
    <2>2. u \in Worker
      BY <2>1, ThreadCases
    <2> QED
      BY <1>5, <2>2
  <1>11. TInv'
    BY <1>6, <1>8, <1>9 DEF TInv
  <1> QED
    BY <1>3, <1>5, <1>7, <1>10, <1>11

\* Only an execution that the engine began has a script.
Begun == \A t \in Worker : pc[t] # "off" => pc[Engine(t[1])] # "off"

LEMMA EngineBegun ==
  ASSUME TInv, NEW e \in Exec,
         \/ StartRun(e) \/ RunStarted(e) \/ ContinueRun(e) \/ Locked(e)
         \/ CheckGate(e) \/ ResolveGate(e) \/ FlipStatus(e) \/ Settled(e)
         \/ TimeLimit(e) \/ RunFinished(e) \/ \E g \in Gates : ResumeRun(e, g)
         \/ Execute(e)
  PROVE  pc'[Engine(e)] # "off"
  <1>1. pc \in [Thread -> Await] /\ Engine(e) \in Thread /\ Run(e) \in Thread
        /\ Engine(e) # Run(e)
    BY Threads DEF TInv, TypeOK
  <1>2. \A status, add, next :
          BeginUpdate(Engine(e), status, add, next) => pc'[Engine(e)] = "read"
    BY <1>1 DEF BeginUpdate
  <1>3. Leave(e) => pc'[Engine(e)] = "ended"
    BY <1>1 DEF Leave
  <1> QED
    BY <1>1, <1>2, <1>3
       DEF StartRun, RunStarted, ContinueRun, Locked, CheckGate, ResolveGate,
           FlipStatus, Settled, TimeLimit, RunFinished, ResumeRun, Execute

\* The steps, by the thread that takes them.
EngineCall(e) ==
  \/ StartRun(e) \/ RunStarted(e) \/ ContinueRun(e) \/ Locked(e)
  \/ CheckGate(e) \/ ResolveGate(e) \/ FlipStatus(e) \/ Settled(e)
  \/ TimeLimit(e) \/ RunFinished(e) \/ \E g \in Gates : ResumeRun(e, g)
WorkerStep(t) ==
  \/ BeginStep(t) \/ StepStarted(t) \/ CallExecutor(t) \/ ExecutorReturns(t)
  \/ ExecutorThrows(t) \/ FinishStep(t) \/ FailStep(t)
  \/ \E e \in Exec : t = Run(e) /\ (OpenGate(e) \/ Join(e))
KillCall == KillRun \/ KillFile \/ KillFinished
Updating(t) == ReadCase(t) \/ WriteCase(t)

LEMMA NextCases ==
  ASSUME Next
  PROVE  \/ \E e \in Exec : EngineCall(e) \/ Execute(e) \/ Fork(e)
         \/ \E t \in Worker : WorkerStep(t)
         \/ \E t \in Thread : Updating(t)
         \/ KillCall
         \/ Crash
  <1> USE Threads
  <1>1. ASSUME NEW e \in Exec, EngineStep(e)
        PROVE  EngineCall(e) \/ Execute(e) \/ Updating(Engine(e))
    BY <1>1 DEF EngineStep, EngineCall, Updating
  <1>2. ASSUME NEW e \in Exec, NEW r \in {"script"} \cup Branch, ScriptStep(<<e, r>>)
        PROVE  \E t \in Worker : WorkerStep(t) \/ Updating(t)
    <2>1. <<e, r>> \in Worker
      BY DEF Worker
    <2> QED
      BY <1>2, <2>1 DEF ScriptStep, WorkerStep, Updating
  <1>3. ASSUME NEW e \in Exec, OpenGate(e) \/ Join(e)
        PROVE  WorkerStep(Run(e))
    BY <1>3 DEF WorkerStep
  <1>4. ASSUME KillStep
        PROVE  KillCall \/ Updating(Killer)
    BY <1>4 DEF KillStep, KillCall, Updating
  <1>5. ASSUME NEW e \in Exec, StartRun(e) \/ ContinueRun(e) \/ \E g \in Gates : ResumeRun(e, g)
        PROVE  EngineCall(e)
    BY <1>5 DEF EngineCall
  <1> QED
    BY <1>1, <1>2, <1>3, <1>4, <1>5 DEF Next

LEMMA Blank ==
  /\ \A S : <<>> \in Seq(S)
  /\ [e \in Exec |-> {}] \in [Exec -> SUBSET JournalEntry]
  /\ [e \in Exec |-> None] \in [Exec -> Gates \cup {None}]
  /\ [t \in Thread |-> 0] \in [Thread -> Nat]
  /\ FALSE \in BOOLEAN
  <1>1. \A S : <<>> \in Seq(S)
    OBVIOUS
  <1>2. [e \in Exec |-> {}] \in [Exec -> SUBSET JournalEntry]
    <2>1. {} \in SUBSET JournalEntry
      OBVIOUS
    <2> QED
      BY <2>1
  <1>3. [e \in Exec |-> None] \in [Exec -> Gates \cup {None}]
    OBVIOUS
  <1>4. [t \in Thread |-> 0] \in [Thread -> Nat]
    OBVIOUS
  <1> QED
    BY <1>1, <1>2, <1>3, <1>4

LEMMA CrashType ==
  ASSUME TInv, Begun, Crash
  PROVE  TInv' /\ Begun'
  <1> USE Threads
  <1>1. /\ crashes < MaxCrashes /\ crashes' = crashes + 1
        /\ killFlag' = FALSE /\ runLock' = <<>>
        /\ pc' = [t \in Thread |->
                    IF t = Killer THEN "off"
                    ELSE IF pc[Engine(t[1])] = "off" THEN pc[t] ELSE "ended"]
        /\ pend' = [t \in Thread |-> NoUpdate]
        /\ live' = [e \in Exec |-> {}] /\ at' = [e \in Exec |-> 1]
        /\ answer' = [e \in Exec |-> None] /\ gate' = [e \in Exec |-> None]
        /\ UNCHANGED <<durable, late>>
    BY DEF Crash
  <1>2. /\ pc \in [Thread -> Await] /\ "off" \in Await /\ "ended" \in Await
        /\ crashes \in 0..MaxCrashes
    BY DEF TInv, TypeOK, Await
  <1>3. \A t \in Thread : pc'[t] \in {"off", "ended"} /\ pend'[t] = NoUpdate
    <2>1. \A e \in Exec : pc'[Engine(e)] \in {"off", "ended"}
      BY <1>1
    <2>2. \A t \in Worker : pc'[t] \in {"off", "ended"}
      BY <1>1 DEF Begun
    <2> QED
      BY <1>1, <2>1, <2>2, ThreadCases
  <1>4. TypeOK'
    <2>1. /\ pc' \in [Thread -> Await] /\ pend' \in [Thread -> Update]
      BY <1>1, <1>2, Stages
    <2>2. crashes' \in 0..MaxCrashes
      BY <1>1, <1>2, BoundAssumption
    <2>3. at' \in [Exec -> 1..(Len(Script) + 1)]
      BY <1>1, ScriptAssumption
    <2>4. live' \in [Exec -> SUBSET JournalEntry] /\ runLock' \in Seq(Exec)
          /\ answer' \in [Exec -> Gates \cup {None}] /\ gate' \in [Exec -> Gates \cup {None}]
          /\ killFlag' \in BOOLEAN
      BY <1>1, Blank
    <2> QED
      BY <1>1, <2>1, <2>2, <2>3, <2>4 DEF TInv, TypeOK, durable
  <1>5. Place'
    <2>1. \A e \in Exec : EnginePlace(pc'[Engine(e)], pend'[Engine(e)])
      BY <1>3 DEF EnginePlace
    <2>2. \A t \in Worker : WorkerPlace(StepOf(t)', pc'[t], pend'[t])
      BY <1>3 DEF WorkerPlace
    <2>3. KillerPlace(pc'[Killer], pend'[Killer])
      BY <1>3 DEF KillerPlace
    <2> QED
      BY <2>1, <2>2, <2>3 DEF Place
  <1>6. GateKnown'
    BY <1>1, <1>3 DEF TInv, GateKnown, durable
  <1>7. Begun'
    BY <1>1 DEF Begun
  <1> QED
    BY <1>4, <1>5, <1>6, <1>7 DEF TInv

LEMMA TypeStep ==
  ASSUME TInv, Begun, [Next]_vars
  PROVE  TInv' /\ Begun'
  <1> USE Threads
  <1>1. ASSUME NEW t \in Thread, OthersStay(t), t \in Worker => pc[t] # "off",
               \A e \in Exec : t = Engine(e) => pc'[t] # "off"
        PROVE  Begun'
    <2> SUFFICES ASSUME NEW u \in Worker, pc'[u] # "off"
                 PROVE  pc'[Engine(u[1])] # "off"
      BY DEF Begun
    <2>1. pc[u] # "off"
      BY <1>1 DEF OthersStay
    <2> QED
      BY <1>1, <2>1 DEF Begun, OthersStay
  <1>2. CASE \E e \in Exec : EngineCall(e)
    BY <1>1, <1>2, EngineType, EngineBegun DEF EngineCall
  <1>3. CASE \E e \in Exec : Execute(e)
    <2>1. PICK e \in Exec : Execute(e)
      BY <1>3
    <2>2. /\ TInv' /\ pc'[Engine(e)] = "await"
          /\ \A u \in Thread \ {Engine(e), Run(e)} : pc'[u] = pc[u]
      BY <2>1, ExecuteType
    <2>3. \A u \in Worker : pc'[u] # "off" => pc'[Engine(u[1])] # "off"
      BY <2>2 DEF Begun
    <2> QED
      BY <2>2, <2>3 DEF Begun
  <1>4. CASE \E e \in Exec : Fork(e)
    <2>1. PICK e \in Exec : Fork(e)
      BY <1>4
    <2>2. /\ TInv' /\ pc[Run(e)] = "fork"
          /\ \A u \in Worker : pc'[u] = pc[u] \/ u[1] = e
          /\ \A f \in Exec : pc'[Engine(f)] = pc[Engine(f)]
      BY <2>1, ForkType DEF Fork
    <2> QED
      BY <2>2 DEF Begun
  <1>5. CASE \E t \in Worker : WorkerStep(t)
    <2>1. PICK t \in Worker : WorkerStep(t)
      BY <1>5
    <2>2. TInv' /\ OthersStay(t)
      BY <2>1, WorkerType DEF WorkerStep
    <2>3. pc[t] # "off"
      BY <2>1 DEF WorkerStep, BeginStep, StepStarted, CallExecutor, ExecutorReturns,
                  ExecutorThrows, FinishStep, FailStep, OpenGate, Join
    <2> QED
      BY <1>1, <2>2, <2>3
  <1>6. CASE \E t \in Thread : Updating(t)
    <2>1. PICK t \in Thread : Updating(t)
      BY <1>6
    <2>2. TInv' /\ OthersStay(t)
      BY <2>1, ReadWriteType, ReadCaseFacts, WriteCaseFacts DEF Updating, OthersStay, TInv
    <2>3. pc[t] \in {"read", "rename"}
      BY <2>1 DEF Updating, ReadCase, WriteCase
    <2>4. \A e \in Exec : t = Engine(e) => pc'[t] # "off"
      BY <2>1, <2>3, ReadCaseFacts, WriteCaseFacts DEF Updating, TInv, Place, EnginePlace
    <2> QED
      BY <1>1, <2>2, <2>3, <2>4
  <1>7. CASE KillCall
    BY <1>1, <1>7, KillType DEF KillCall
  <1>8. CASE Crash
    BY <1>8, CrashType
  <1>9. CASE UNCHANGED vars
    <2>1. TypeOK' /\ Begun' /\ GateKnown'
      BY <1>9 DEF vars, TInv, TypeOK, Begun, GateKnown
    <2>2. Place'
      BY <1>9, SamePlace DEF vars, TInv, Place
    <2> QED
      BY <2>1, <2>2 DEF TInv
  <1> QED
    BY <1>2, <1>3, <1>4, <1>5, <1>6, <1>7, <1>8, <1>9, NextCases

LEMMA TypeInit ==
  ASSUME Init
  PROVE  TInv /\ Begun
  <1> USE Threads
  <1>1. TypeOK
    <2>1. pc \in [Thread -> Await] /\ pend \in [Thread -> Update]
      BY Stages DEF Init, Await
    <2>2. case \in Case
      BY DEF Init, Case, Status
    <2>3. at \in [Exec -> 1..(Len(Script) + 1)] /\ crashes \in 0..MaxCrashes
      BY ScriptAssumption, BoundAssumption DEF Init
    <2>4. /\ journal \in Seq(JournalEntry) /\ runLock \in Seq(Exec)
          /\ killFile \in BOOLEAN /\ killFlag \in BOOLEAN
          /\ live \in [Exec -> SUBSET JournalEntry]
          /\ answer \in [Exec -> Gates \cup {None}] /\ gate \in [Exec -> Gates \cup {None}]
          /\ late \in [Thread -> Nat]
      BY Blank DEF Init
    <2> QED
      BY <2>1, <2>2, <2>3, <2>4 DEF TypeOK
  <1>2. Place
    BY DEF Init, Place, EnginePlace, WorkerPlace, KillerPlace, Terminal
  <1>3. GateKnown /\ Begun
    BY DEF Init, GateKnown, Begun
  <1> QED
    BY <1>1, <1>2, <1>3 DEF TInv

\* The files and the calls of a run keep their types, and each thread is in the
\* update that its place in the code began.
THEOREM TypeCorrect == Spec => []TypeOK
  <1>1. Init => TInv /\ Begun
    BY TypeInit
  <1>2. TInv /\ Begun /\ [Next]_vars => TInv' /\ Begun'
    BY TypeStep
  <1>3. TInv => TypeOK
    BY DEF TInv
  <1> QED
    BY <1>1, <1>2, <1>3, PTL DEF Spec

THEOREM Typed == Spec => [](TInv /\ Begun)
  <1>1. Init => TInv /\ Begun
    BY TypeInit
  <1>2. TInv /\ Begun /\ [Next]_vars => TInv' /\ Begun'
    BY TypeStep
  <1> QED
    BY <1>1, <1>2, PTL DEF Spec

-----------------------------------------------------------------------------
\* Killed runs. A thread that executed a step after the kill is not on the way
\* to another: beginStep stands before each.

OnTheWay(t) == pc[t] \in {"mark", "work"}
               \/ (pc[t] \in {"read", "rename"} /\ pend[t].then = "work")
LateInv == /\ \A t \in Thread : late[t] <= 1
           /\ \A t \in Worker : late[t] = 1 => killFile /\ ~ OnTheWay(t)

LEMMA LateStep ==
  ASSUME TInv, Begun, LateInv, [Next]_vars
  PROVE  LateInv'
  <1> USE Threads
  <1>1. late \in [Thread -> Nat] /\ pc \in [Thread -> Await] /\ pend \in [Thread -> Update]
    BY DEF TInv, TypeOK
  <1>2. ASSUME late' = late, killFile => killFile',
               \A t \in Worker : killFile /\ late[t] = 1 /\ ~ OnTheWay(t) => ~ OnTheWay(t)'
        PROVE  LateInv'
    BY <1>2 DEF LateInv
  <1>3. CASE \E t \in Worker : CallExecutor(t)
    <2>1. PICK t \in Worker : CallExecutor(t)
      BY <1>3
    <2>2. /\ pc[t] = "work" /\ pc' = [pc EXCEPT ![t] = "busy"] /\ t \in Thread
          /\ late' = late \/ (killFile /\ late' = [late EXCEPT ![t] = late[t] + 1])
          /\ pend' = pend /\ killFile' = killFile
      BY <1>1, <2>1 DEF CallExecutor, durable
    <2>3. late[t] = 0
      BY <1>1, <2>2 DEF LateInv, OnTheWay
    <2>4. /\ \A u \in Thread \ {t} : pc'[u] = pc[u] /\ late'[u] = late[u]
          /\ pc'[t] = "busy" /\ late'[t] <= 1 /\ (late'[t] = 1 => killFile)
      BY <1>1, <2>2, <2>3
    <2> QED
      BY <2>2, <2>4 DEF LateInv, OnTheWay
  <1>4. CASE \E t \in Worker : WorkerStep(t) /\ ~ CallExecutor(t)
    <2>1. PICK t \in Worker : WorkerStep(t) /\ ~ CallExecutor(t)
      BY <1>4
    <2>2. TInv' /\ OthersStay(t)
      BY <2>1, WorkerType DEF WorkerStep
    <2>3. late' = late /\ killFile' = killFile
      BY <2>1 DEF WorkerStep, BeginStep, StepStarted, ExecutorReturns, ExecutorThrows,
                  FinishStep, FailStep, OpenGate, Join, durable
    <2>4. ASSUME killFile, ~ OnTheWay(t)
          PROVE  ~ OnTheWay(t)'
      <3>1. CASE BeginStep(t)
        <4>1. IsKilled
          BY <2>4 DEF IsKilled
        <4>2. pc' = [pc EXCEPT ![t] = "killed"]
          BY <3>1, <4>1 DEF BeginStep
        <4> QED
          BY <1>1, <4>2 DEF OnTheWay
      <3>2. CASE StepStarted(t)
        BY <2>4, <3>2 DEF StepStarted, OnTheWay
      <3>3. \A status, add, next : BeginUpdate(t, status, add, next) =>
              pc'[t] = "read" /\ pend'[t].then = next
        BY <1>1 DEF BeginUpdate, NoUpdate
      <3>4. CASE ExecutorReturns(t) \/ \E e \in Exec : t = Run(e) /\ (OpenGate(e) \/ Join(e))
        <4>1. pc'[t] \in {"finish", "fail"}
              \/ (pc'[t] = "read" /\ pend'[t].then \in {"finish", "suspended"})
          BY <1>1, <3>3, <3>4 DEF ExecutorReturns, OpenGate, Join
        <4> QED
          BY <4>1 DEF OnTheWay
      <3>5. CASE ExecutorThrows(t)
        BY <1>1, <3>5 DEF ExecutorThrows, OnTheWay
      <3>6. CASE FinishStep(t) \/ FailStep(t)
        <4>1. NextStep(t) => pc'[t] \in {"begin", "done", "joined"}
          BY NextStepType
        <4>2. FailStep(t) => pend[t].then \in {"failed", "killed"}
          BY DEF FailStep, TInv, Place, WorkerPlace
        <4>3. pc'[t] \in {"begin", "done", "joined", "failed", "killed"}
          BY <1>1, <3>6, <4>1, <4>2 DEF FinishStep, FailStep
        <4> QED
          BY <4>3 DEF OnTheWay
      <3> QED
        BY <2>1, <3>1, <3>2, <3>4, <3>5, <3>6 DEF WorkerStep
    <2>5. \A u \in Worker : u # t => (OnTheWay(u)' <=> OnTheWay(u))
      BY <2>2 DEF OthersStay, OnTheWay
    <2> QED
      BY <1>2, <2>3, <2>4, <2>5
  <1>5. CASE \E t \in Thread : Updating(t)
    <2>1. PICK t \in Thread : Updating(t)
      BY <1>5
    <2>2. OthersStay(t)
      BY <2>1, ReadCaseFacts, WriteCaseFacts DEF Updating, OthersStay, TInv
    <2>3. late' = late /\ killFile' = killFile /\ pc[t] \in {"read", "rename"}
      BY <2>1 DEF Updating, ReadCase, WriteCase, durable
    <2>4. \/ pc'[t] = pend[t].then /\ pend'[t] = NoUpdate
          \/ pc'[t] = "rename" /\ pend'[t].then = pend[t].then
      BY <2>1, ReadCaseFacts, WriteCaseFacts DEF Updating, TInv
    <2>5. ASSUME t \in Worker, ~ OnTheWay(t)
          PROVE  ~ OnTheWay(t)'
      <3>1. pend[t].then \in {"gate", "fork", "work", "finish", "suspended"}
        BY <2>3, <2>5, Stages DEF TInv, Place, WorkerPlace
      <3> QED
        BY <2>3, <2>4, <2>5, <3>1 DEF OnTheWay, NoUpdate
    <2>6. \A u \in Worker : u # t => (OnTheWay(u)' <=> OnTheWay(u))
      BY <2>2 DEF OthersStay, OnTheWay
    <2> QED
      BY <1>2, <2>3, <2>5, <2>6
  <1>6. CASE KillCall \/ (\E e \in Exec : EngineCall(e))
    <2>1. late' = late /\ (killFile => killFile')
      <3>1. KillCall => late' = late /\ (killFile => killFile')
        BY DEF KillCall, KillRun, KillFile, KillFinished, durable
      <3>2. ASSUME NEW e \in Exec, EngineCall(e)
            PROVE  late' = late /\ killFile' = killFile
        BY <3>2 DEF EngineCall, StartRun, RunStarted, ContinueRun, Locked, CheckGate,
                    ResolveGate, FlipStatus, Settled, TimeLimit, RunFinished, ResumeRun,
                    durable
      <3> QED
        BY <1>6, <3>1, <3>2
    <2>2. PICK t \in Thread \ Worker : OthersStay(t)
      BY <1>6, KillType, EngineType DEF KillCall, EngineCall
    <2>3. \A u \in Worker : OnTheWay(u)' <=> OnTheWay(u)
      BY <2>2 DEF OthersStay, OnTheWay
    <2> QED
      BY <1>2, <2>1, <2>3
  <1>7. CASE \E e \in Exec : Execute(e) \/ Fork(e)
    <2>1. late' = late /\ killFile' = killFile /\ pend' = pend
      BY <1>7 DEF Execute, Fork, durable
    <2>2. \A u \in Worker : pc'[u] = pc[u] \/ pc'[u] \in {"begin", "join"}
      BY <1>7, ExecuteType, ForkType
    <2>3. \A u \in Worker : OnTheWay(u)' => OnTheWay(u)
      BY <2>1, <2>2 DEF OnTheWay
    <2> QED
      BY <1>2, <2>1, <2>3
  <1>8. CASE Crash
    <2>1. late' = late /\ killFile' = killFile
      BY <1>8 DEF Crash, durable
    <2>2. \A u \in Worker : pc'[u] \in {"off", "ended"}
      BY <1>8 DEF Crash, Begun
    <2> QED
      BY <1>2, <2>1, <2>2 DEF OnTheWay
  <1>9. CASE UNCHANGED vars
    BY <1>9 DEF vars, LateInv, OnTheWay
  <1> QED
    BY <1>3, <1>4, <1>5, <1>6, <1>7, <1>8, <1>9, NextCases

\* A killed run executes at most the step each thread was about to execute,
\* whatever happens to its status.
THEOREM KillStops == Spec => []KillStopsSteps
  <1>1. Init => LateInv
    BY Threads DEF Init, LateInv
  <1>2. TInv /\ Begun /\ LateInv /\ [Next]_vars => LateInv'
    BY LateStep
  <1>3. LateInv => KillStopsSteps
    BY DEF LateInv, KillStopsSteps
  <1> QED
    BY <1>1, <1>2, <1>3, Typed, PTL DEF Spec

-----------------------------------------------------------------------------
\* Gates. The call that checks or resolves a gate holds the lock of the run, so
\* the gate it found open has no answer yet when it records its own.

Holding == {"check", "resolve"}
HoldsLock == \A e \in Exec : pc[Engine(e)] \in Holding =>
                               runLock # <<>> /\ Head(runLock) = e
Unresolved == \A e \in Exec : pc[Engine(e)] = "resolve" =>
                                ~ Has(Range(journal), "gate_resolved", gate[e])
GateInv == HoldsLock /\ Unresolved /\ GateAnsweredOnce

\* The journal keeps its answers, and the calls that hold the lock theirs.
LEMMA GateFrame ==
  ASSUME TInv, GateInv, HoldsLock',
         \A e \in Exec : pc'[Engine(e)] = "resolve" =>
                           pc[Engine(e)] = "resolve" /\ gate'[e] = gate[e],
         \/ journal' = journal
         \/ \E x \in JournalEntry : AppendJournal(x) /\ x.type # "gate_resolved"
  PROVE  GateInv'
  <1>1. journal \in Seq(JournalEntry)
    BY DEF TInv, TypeOK
  <1>2. CASE journal' = journal
    BY <1>2 DEF GateInv, Unresolved, GateAnsweredOnce
  <1>3. ASSUME NEW x \in JournalEntry, AppendJournal(x), x.type # "gate_resolved"
        PROVE  GateInv'
    <2>1. /\ DOMAIN journal' = DOMAIN journal \cup {Len(journal) + 1}
          /\ \A i \in DOMAIN journal : journal'[i] = journal[i]
          /\ journal'[Len(journal) + 1] = x
          /\ Range(journal') = Range(journal) \cup {x}
      BY <1>1, <1>3, JournalGrows
    <2>2. GateAnsweredOnce'
      BY <1>3, <2>1 DEF GateInv, GateAnsweredOnce
    <2>3. \A g : Has(Range(journal'), "gate_resolved", g) => Has(Range(journal), "gate_resolved", g)
      BY <1>3, <2>1 DEF Has
    <2>4. Unresolved'
      BY <2>3 DEF GateInv, Unresolved
    <2> QED
      BY <2>2, <2>4 DEF GateInv
  <1> QED
    BY <1>2, <1>3

\* A thread other than an engine call moves, or a call that does not hold the
\* lock and leaves it alone.
LEMMA LockFrame ==
  ASSUME TInv, GateInv, runLock' = runLock,
         \A e \in Exec : pc'[Engine(e)] \in Holding => pc[Engine(e)] \in Holding
  PROVE  HoldsLock'
  BY DEF GateInv, HoldsLock

LEMMA LeaveLock ==
  ASSUME TInv, GateInv, NEW e \in Exec, Leave(e)
  PROVE  HoldsLock'
  <1>1. /\ pc'[Engine(e)] = "ended"
        /\ \A f \in Exec : f # e => pc'[Engine(f)] = pc[Engine(f)]
    BY LeaveType, Threads
  <1> SUFFICES ASSUME NEW f \in Exec, pc'[Engine(f)] \in Holding
               PROVE  runLock' # <<>> /\ Head(runLock') = f
    BY DEF HoldsLock
  <1>2. f # e /\ runLock # <<>> /\ Head(runLock) = f
    BY <1>1 DEF Holding, GateInv, HoldsLock
  <1>3. runLock' = runLock
    BY <1>2 DEF Leave
  <1> QED
    BY <1>2, <1>3

\* The calls that leave the lock and the answers alone.
LEMMA GateUntouched ==
  ASSUME TInv, GateInv, runLock' = runLock, gate' = gate,
         \A e \in Exec : pc'[Engine(e)] \in Holding => pc'[Engine(e)] = pc[Engine(e)],
         \/ journal' = journal
         \/ \E x \in JournalEntry : AppendJournal(x) /\ x.type # "gate_resolved"
  PROVE  GateInv'
  <1>1. HoldsLock'
    BY LockFrame
  <1> QED
    BY <1>1, GateFrame DEF Holding

LEMMA EngineGate ==
  ASSUME TInv, GateInv, NEW e \in Exec, EngineCall(e)
  PROVE  GateInv'
  <1> USE Threads
  <1> DEFINE t == Engine(e)
  <1>1. OthersStay(t)
    BY EngineType DEF EngineCall
  <1>2. \A f \in Exec : f # e => pc'[Engine(f)] = pc[Engine(f)]
    BY <1>1 DEF OthersStay
  <1>3. pc \in [Thread -> Await] /\ runLock \in Seq(Exec) /\ journal \in Seq(JournalEntry)
        /\ gate \in [Exec -> Gates \cup {None}]
    BY DEF TInv, TypeOK
  <1>4. CASE StartRun(e) \/ RunStarted(e) \/ FlipStatus(e) \/ TimeLimit(e)
             \/ (Settled(e) /\ ~ Leave(e))
    <2>1. pc'[t] \notin Holding
      BY <1>3, <1>4 DEF StartRun, RunStarted, FlipStatus, TimeLimit, Settled, BeginUpdate, Holding
    <2>2. runLock' = runLock /\ gate' = gate
      BY <1>4 DEF StartRun, RunStarted, FlipStatus, TimeLimit, Settled
    <2>3. journal' = journal
          \/ \E x \in JournalEntry : AppendJournal(x) /\ x.type # "gate_resolved"
      <3>1. /\ Entry("run_started", None, None) \in JournalEntry
            /\ Entry("run_started", None, None).type # "gate_resolved"
        BY DEF Entry, JournalEntry, EntryType
      <3> QED
        BY <1>4, <3>1 DEF StartRun, RunStarted, FlipStatus, TimeLimit, Settled, durable
    <2> QED
      BY <1>2, <2>1, <2>2, <2>3, GateUntouched
  <1>5. CASE ContinueRun(e) \/ \E g \in Gates : ResumeRun(e, g)
    <2>1. /\ runLock' = Append(runLock, e) /\ pc'[t] = "queued" /\ gate' = gate
          /\ journal' = journal
      BY <1>3, <1>5 DEF ContinueRun, ResumeRun, durable
    <2>2. runLock # <<>> => runLock' # <<>> /\ Head(runLock') = Head(runLock)
      BY <1>3, <2>1
    <2>3. HoldsLock'
      BY <1>2, <2>1, <2>2 DEF GateInv, HoldsLock, Holding
    <2> QED
      BY <1>2, <2>1, <2>3, GateFrame
  <1>6. CASE Locked(e)
    <2>1. /\ gate' = gate /\ journal' = journal /\ runLock # <<>> /\ Head(runLock) = e
          /\ Leave(e) \/ (runLock' = runLock /\ pc'[t] \in {"check", "load"})
      BY <1>3, <1>6 DEF Locked, durable
    <2>2. HoldsLock'
      <3>1. CASE Leave(e)
        BY <3>1, LeaveLock
      <3>2. CASE runLock' = runLock
        BY <1>2, <2>1, <3>2 DEF GateInv, HoldsLock
      <3> QED
        BY <2>1, <3>1, <3>2
    <2>3. pc'[t] # "resolve"
      BY <2>1, LeaveType
    <2> QED
      BY <1>2, <2>1, <2>2, <2>3, GateFrame
  <1>7. CASE RunFinished(e) \/ (Settled(e) /\ Leave(e))
    <2>1. Leave(e) /\ gate' = gate
      BY <1>7 DEF RunFinished, Settled
    <2>2. journal' = journal
          \/ \E x \in JournalEntry : AppendJournal(x) /\ x.type # "gate_resolved"
      <3>1. /\ Entry("run_finished", None, None) \in JournalEntry
            /\ Entry("run_finished", None, None).type # "gate_resolved"
        BY DEF Entry, JournalEntry, EntryType
      <3> QED
        BY <1>7, <3>1 DEF RunFinished, Settled, durable
    <2>3. HoldsLock' /\ pc'[t] = "ended"
      BY <2>1, LeaveLock, LeaveType
    <2> QED
      BY <1>2, <2>1, <2>2, <2>3, GateFrame
  <1>8. CASE CheckGate(e)
    <2>1. journal' = journal /\ pc[t] = "check"
      BY <1>8 DEF CheckGate, durable
    <2>2. CASE Leave(e) /\ UNCHANGED gate
      BY <1>2, <2>1, <2>2, LeaveLock, LeaveType, GateFrame
    <2>3. CASE BeginUpdate(t, "running", {}, "load") /\ UNCHANGED <<runLock, gate>>
      <3>1. pc'[t] = "read"
        BY <1>3, <2>3 DEF BeginUpdate
      <3> QED
        BY <1>2, <2>1, <2>3, <3>1, GateUntouched DEF Holding
    <2>4. CASE /\ FindOpenGate # None /\ gate' = [gate EXCEPT ![e] = FindOpenGate]
               /\ pc' = [pc EXCEPT ![t] = "resolve"] /\ runLock' = runLock
      <3>1. HoldsLock'
        <4>1. \A f \in Exec : pc'[Engine(f)] \in Holding => pc[Engine(f)] \in Holding
          BY <1>2, <2>1 DEF Holding
        <4> QED
          BY <2>4, <4>1, LockFrame
      <3>2. ~ Has(Range(journal), "gate_resolved", FindOpenGate)
        <4>1. PICK i \in DOMAIN journal : OpenGateAt(i) /\ FindOpenGate = journal[i].step
          BY <1>3, <2>4, OpenGateExists, FindOpenGateFacts
        <4> QED
          BY <4>1 DEF OpenGateAt
      <3>3. gate'[e] = FindOpenGate /\ \A f \in Exec : f # e => gate'[f] = gate[f]
        BY <1>3, <2>4
      <3>4. Unresolved'
        BY <1>2, <2>1, <3>2, <3>3 DEF GateInv, Unresolved
      <3> QED
        BY <2>1, <3>1, <3>4 DEF GateInv, GateAnsweredOnce
    <2> QED
      BY <1>8, <2>2, <2>3, <2>4 DEF CheckGate
  <1>9. CASE ResolveGate(e)
    <2> DEFINE x == Entry("gate_resolved", gate[e], answer[e])
    <2>1. /\ pc[t] = "resolve" /\ AppendJournal(x) /\ gate' = gate /\ runLock' = runLock
          /\ pc'[t] = "read"
      BY <1>3, <1>9 DEF ResolveGate, BeginUpdate
    <2>2. x \in JournalEntry /\ x.step = gate[e]
      <3>1. gate[e] \in Gates /\ answer[e] \in Gates \cup {None}
        BY <2>1 DEF TInv, GateKnown, TypeOK
      <3> QED
        BY <3>1 DEF Entry, JournalEntry, EntryType, Steps
    <2> HIDE DEF x
    <2>3. /\ DOMAIN journal' = DOMAIN journal \cup {Len(journal) + 1}
          /\ \A i \in DOMAIN journal : journal'[i] = journal[i]
          /\ journal'[Len(journal) + 1] = x
      BY <1>3, <2>1, <2>2, JournalGrows
    <2>4. HoldsLock'
      <3>1. \A f \in Exec : pc'[Engine(f)] \in Holding => pc[Engine(f)] \in Holding
        BY <1>2, <2>1 DEF Holding
      <3> QED
        BY <2>1, <3>1, LockFrame
    <2>5. \A f \in Exec : pc'[Engine(f)] # "resolve"
      BY <1>2, <2>1 DEF GateInv, HoldsLock, Holding
    <2>6. \A i \in DOMAIN journal :
            ~ (journal[i].type = "gate_resolved" /\ journal[i].step = gate[e])
      BY <2>1 DEF GateInv, Unresolved, Has, Range
    <2>7. GateAnsweredOnce'
      BY <2>2, <2>3, <2>6 DEF GateInv, GateAnsweredOnce
    <2> QED
      BY <2>4, <2>5, <2>7 DEF GateInv, Unresolved
  <1> QED
    BY <1>4, <1>5, <1>6, <1>7, <1>8, <1>9 DEF EngineCall

LEMMA WorkerEntries ==
  ASSUME TInv, NEW t \in Worker, WorkerStep(t)
  PROVE  \/ journal' = journal
         \/ \E x \in JournalEntry :
              /\ AppendJournal(x)
              /\ x.type \in {"step_started", "step_finished", "step_failed", "gate_opened"}
  <1>1. StepOf(t) \in Steps \cup Branch \cup {"done"} /\ t[1] \in Exec
    BY StepOfType, Threads DEF TInv, TypeOK
  <1>2. ASSUME NEW type \in {"step_started", "step_finished", "step_failed", "gate_opened"},
               NEW val \in Exec \cup {None}
        PROVE  /\ Entry(type, StepOf(t), val) \in JournalEntry
               /\ Entry(type, StepOf(t), val).type = type
    BY <1>1 DEF Entry, JournalEntry, EntryType
  <1>3. CASE BeginStep(t) \/ CallExecutor(t) \/ ExecutorReturns(t) \/ ExecutorThrows(t)
             \/ \E e \in Exec : t = Run(e) /\ Join(e)
    BY <1>3 DEF BeginStep, CallExecutor, ExecutorReturns, ExecutorThrows, Join, durable
  <1>4. CASE StepStarted(t) \/ FinishStep(t) \/ FailStep(t)
    BY <1>1, <1>2, <1>4 DEF StepStarted, FinishStep, FailStep, AppendLive
  <1>5. CASE \E e \in Exec : t = Run(e) /\ OpenGate(e)
    BY <1>2, <1>5 DEF OpenGate, AppendLive
  <1> QED
    BY <1>3, <1>4, <1>5 DEF WorkerStep

LEMMA GateStep ==
  ASSUME TInv, Begun, GateInv, [Next]_vars
  PROVE  GateInv'
  <1> USE Threads
  <1>1. CASE \E e \in Exec : EngineCall(e)
    BY <1>1, EngineGate
  <1>2. CASE \E e \in Exec : Execute(e) \/ Fork(e)
    <2>1. /\ runLock' = runLock /\ gate' = gate /\ journal' = journal
      BY <1>2 DEF Execute, Fork, durable
    <2>2. \A f \in Exec : pc'[Engine(f)] = pc[Engine(f)] \/ pc'[Engine(f)] = "await"
      BY <1>2, ExecuteType, ForkType
    <2> QED
      BY <2>1, <2>2, GateUntouched DEF Holding
  <1>3. CASE \E t \in Worker : WorkerStep(t)
    <2>1. PICK t \in Worker : WorkerStep(t)
      BY <1>3
    <2>2. OthersStay(t)
      BY <2>1, WorkerType DEF WorkerStep
    <2>3. runLock' = runLock /\ gate' = gate
      BY <2>1 DEF WorkerStep, BeginStep, StepStarted, CallExecutor, ExecutorReturns,
                  ExecutorThrows, FinishStep, FailStep, OpenGate, Join
    <2>4. \A f \in Exec : pc'[Engine(f)] = pc[Engine(f)]
      BY <2>2 DEF OthersStay
    <2> QED
      BY <2>1, <2>3, <2>4, WorkerEntries, GateUntouched
  <1>4. CASE \E t \in Thread : Updating(t)
    <2>1. PICK t \in Thread : Updating(t)
      BY <1>4
    <2>2. OthersStay(t) /\ (pc'[t] = "rename" \/ pc'[t] = pend[t].then)
      BY <2>1, ReadCaseFacts, WriteCaseFacts DEF Updating, OthersStay, TInv
    <2>3. /\ runLock' = runLock /\ gate' = gate /\ journal' = journal
          /\ pc[t] \in {"read", "rename"}
      BY <2>1 DEF Updating, ReadCase, WriteCase, durable
    <2>4. \A f \in Exec : t = Engine(f) => pc'[t] \notin Holding
      BY <2>2, <2>3 DEF TInv, Place, EnginePlace, Holding
    <2>5. \A f \in Exec : pc'[Engine(f)] \in Holding => pc'[Engine(f)] = pc[Engine(f)]
      BY <2>2, <2>4 DEF OthersStay
    <2> QED
      BY <2>3, <2>5, GateUntouched
  <1>5. CASE KillCall
    <2>1. \A f \in Exec : pc'[Engine(f)] = pc[Engine(f)]
      BY <1>5, KillType DEF KillCall, OthersStay
    <2>2. /\ Entry("run_finished", None, None) \in JournalEntry
          /\ Entry("run_finished", None, None).type # "gate_resolved"
      BY DEF Entry, JournalEntry, EntryType
    <2>3. runLock' = runLock /\ gate' = gate
      BY <1>5 DEF KillCall, KillRun, KillFile, KillFinished
    <2>4. journal' = journal
          \/ \E x \in JournalEntry : AppendJournal(x) /\ x.type # "gate_resolved"
      BY <1>5, <2>2 DEF KillCall, KillRun, KillFile, KillFinished, durable
    <2> QED
      BY <2>1, <2>3, <2>4, GateUntouched
  <1>6. CASE Crash
    <2>1. journal' = journal
      BY <1>6 DEF Crash, durable
    <2>2. \A e \in Exec : pc'[Engine(e)] \in {"off", "ended"}
      BY <1>6 DEF Crash
    <2> QED
      BY <2>1, <2>2 DEF GateInv, HoldsLock, Unresolved, GateAnsweredOnce, Holding
  <1>7. CASE UNCHANGED vars
    BY <1>7 DEF vars, GateInv, HoldsLock, Unresolved, GateAnsweredOnce
  <1> QED
    BY <1>1, <1>2, <1>3, <1>4, <1>5, <1>6, <1>7, NextCases

LEMMA GateInit ==
  ASSUME Init
  PROVE  GateInv
  <1>1. \A e \in Exec : pc[Engine(e)] = "off"
    BY Threads DEF Init
  <1>2. DOMAIN journal = {}
    BY DEF Init
  <1> QED
    BY <1>1, <1>2 DEF GateInv, HoldsLock, Unresolved, GateAnsweredOnce, Holding

\* A gate is answered once: of concurrent resumes, retries after a crash and
\* recoveries, one records its answer.
THEOREM AnsweredOnce == Spec => []GateAnsweredOnce
  <1>1. Init => GateInv
    BY GateInit
  <1>2. TInv /\ Begun /\ GateInv /\ [Next]_vars => GateInv'
    BY GateStep
  <1>3. GateInv => GateAnsweredOnce
    BY DEF GateInv
  <1> QED
    BY <1>1, <1>2, <1>3, Typed, PTL DEF Spec

-----------------------------------------------------------------------------
\* The order of the script. What an execution sees is in the journal, and each
\* step its script has passed has its result there.

Result(entries, k) == \/ Cached(entries, Script[k])
                      \/ Script[k] \in Caught /\ Has(entries, "step_failed", Script[k])
SeesJournal == \A e \in Exec : live[e] \subseteq Range(journal)
Passed == \A e \in Exec : \A k \in 1..(at[e] - 1) : Result(Range(journal), k)
InOrder == \A x \in Range(journal) : \A k \in 1..Len(Script) :
             x.type = "step_started" /\ x.step = Script[k] =>
               \A m \in 1..(k - 1) : Result(Range(journal), m)
OrderInv == SeesJournal /\ Passed /\ InOrder

AtStep(s) == \/ s \notin Steps
             \/ \E e \in Exec : at[e] \in 1..Len(Script) /\ s = Script[at[e]]

LEMMA ResultStays ==
  ASSUME NEW A, NEW B, A \subseteq B, NEW k, Result(A, k)
  PROVE  Result(B, k)
  BY DEF Result, Cached, Has

\* The journal grows, and a script passes only a step that has its result.
LEMMA OrderFrame ==
  ASSUME TInv, OrderInv,
         SeesJournal',
         \A e \in Exec : \/ at'[e] = at[e] \/ at'[e] = 1
                         \/ at'[e] = at[e] + 1 /\ Result(Range(journal'), at[e]),
         \/ Range(journal') = Range(journal)
         \/ \E x \in JournalEntry : /\ Range(journal') = Range(journal) \cup {x}
                                    /\ x.type = "step_started" => AtStep(x.step)
  PROVE  OrderInv'
  <1>1. at \in [Exec -> 1..(Len(Script) + 1)]
    BY DEF TInv, TypeOK
  <1>2. Len(Script) \in Nat /\ \A n \in 1..Len(Script) : Script[n] \in Steps
        /\ \A i, j \in 1..Len(Script) : Script[i] = Script[j] => i = j
    BY ScriptAssumption
  <1>3. \A k : Result(Range(journal), k) => Result(Range(journal'), k)
    BY ResultStays
  <1>4. Passed'
    <2> SUFFICES ASSUME NEW e \in Exec, NEW k \in 1..(at'[e] - 1)
                 PROVE  Result(Range(journal'), k)
      BY DEF Passed, Result, Cached, Has
    <2>1. at[e] \in Nat
      BY <1>1, <1>2
    <2>2. k \in 1..(at[e] - 1) \/ (k = at[e] /\ Result(Range(journal'), at[e]))
      <3>1. CASE at'[e] = at[e] \/ at'[e] = 1
        BY <2>1, <3>1
      <3>2. CASE at'[e] = at[e] + 1 /\ Result(Range(journal'), at[e])
        BY <2>1, <3>2
      <3> QED
        BY <3>1, <3>2
    <2> QED
      BY <1>3, <2>2 DEF OrderInv, Passed
  <1>5. InOrder'
    <2> SUFFICES ASSUME NEW x \in Range(journal'), NEW k \in 1..Len(Script),
                        x.type = "step_started", x.step = Script[k],
                        NEW m \in 1..(k - 1)
                 PROVE  Result(Range(journal'), m)
      BY DEF InOrder, Result, Cached, Has
    <2>1. CASE x \in Range(journal)
      BY <1>3, <2>1 DEF OrderInv, InOrder
    <2>2. CASE x \notin Range(journal)
      <3>1. PICK e \in Exec : x.step = Script[at[e]] /\ at[e] \in 1..Len(Script)
        BY <1>2, <2>2 DEF AtStep
      <3>2. k = at[e]
        BY <1>2, <3>1
      <3> QED
        BY <1>3, <3>2 DEF OrderInv, Passed
    <2> QED
      BY <2>1, <2>2
  <1> QED
    BY <1>4, <1>5 DEF OrderInv

LEMMA WorkerOrder ==
  ASSUME TInv, OrderInv, NEW t \in Worker, WorkerStep(t)
  PROVE  OrderInv'
  <1> USE Threads
  <1> DEFINE s == StepOf(t)
             e == t[1]
  <1>1. /\ journal \in Seq(JournalEntry) /\ at \in [Exec -> 1..(Len(Script) + 1)]
        /\ live \in [Exec -> SUBSET JournalEntry] /\ e \in Exec
    BY DEF TInv, TypeOK
  <1>2. /\ s \in Steps \cup Branch \cup {"done"}
        /\ s \in Steps => /\ t[2] = "script" /\ at[e] \in 1..Len(Script)
                          /\ s = Script[at[e]]
        /\ t[2] = "script" => s \in Steps \cup {"done"}
    BY <1>1, StepOfType
  <1>3. Entry("step_started", s, None) \in JournalEntry
        /\ Entry("step_finished", s, e) \in JournalEntry
        /\ Entry("step_failed", s, None) \in JournalEntry
        /\ Entry("gate_opened", s, None) \in JournalEntry
    BY <1>1, <1>2 DEF Entry, JournalEntry, EntryType
  <1> HIDE DEF s, e
  <1>4. ASSUME NextStep(t)
        PROVE  \/ at' = at
               \/ s \in Steps /\ at'[e] = at[e] + 1 /\ \A f \in Exec : f # e => at'[f] = at[f]
    BY <1>1, <1>2, <1>4 DEF NextStep, s, e
  <1>5. ASSUME NEW x \in JournalEntry, AppendLive(e, x)
        PROVE  Range(journal') = Range(journal) \cup {x} /\ SeesJournal'
    <2>1. Range(journal') = Range(journal) \cup {x}
      BY <1>1, <1>5, JournalGrows DEF AppendLive
    <2>2. \A f \in Exec : live'[f] \subseteq live[f] \cup {x}
      BY <1>1, <1>5 DEF AppendLive
    <2> QED
      BY <2>1, <2>2 DEF OrderInv, SeesJournal
  <1>6. ASSUME journal' = journal, live' = live
        PROVE  Range(journal') = Range(journal) /\ SeesJournal'
    BY <1>6 DEF OrderInv, SeesJournal
  <1>7. CASE BeginStep(t)
    <2>1. journal' = journal /\ live' = live
      BY <1>7 DEF BeginStep, durable
    <2>2. at' = at \/ (Cached(live[e], s) /\ NextStep(t))
      BY <1>7 DEF BeginStep, s, e
    <2>3. CASE at' = at
      BY <1>6, <2>1, <2>3, OrderFrame
    <2>4. CASE Cached(live[e], s) /\ NextStep(t) /\ at' # at
      <3>1. /\ at'[e] = at[e] + 1 /\ \A f \in Exec : f # e => at'[f] = at[f]
            /\ s = Script[at[e]]
        BY <1>2, <1>4, <2>4
      <3>2. live[e] \subseteq Range(journal')
        BY <1>1, <2>1 DEF OrderInv, SeesJournal, e
      <3>3. Result(Range(journal'), at[e])
        BY <2>4, <3>1, <3>2 DEF Result, Cached, Has
      <3> QED
        BY <1>6, <2>1, <3>1, <3>3, OrderFrame
    <2> QED
      BY <2>2, <2>3, <2>4
  <1>8. CASE CallExecutor(t) \/ ExecutorReturns(t) \/ ExecutorThrows(t)
             \/ \E f \in Exec : t = Run(f) /\ Join(f)
    <2>1. journal' = journal /\ live' = live /\ at' = at
      BY <1>8 DEF CallExecutor, ExecutorReturns, ExecutorThrows, Join, durable
    <2> QED
      BY <1>6, <2>1, OrderFrame
  <1>9. CASE StepStarted(t)
    <2> DEFINE x == Entry("step_started", s, None)
    <2>1. AppendLive(e, x) /\ at' = at /\ x.step = s
      BY <1>9 DEF StepStarted, s, e, Entry
    <2>2. x \in JournalEntry
      BY <1>3
    <2> HIDE DEF x
    <2>3. AtStep(x.step)
      BY <1>1, <1>2, <2>1 DEF AtStep
    <2>4. Range(journal') = Range(journal) \cup {x} /\ SeesJournal'
      BY <1>5, <2>1, <2>2
    <2> QED
      BY <2>1, <2>2, <2>3, <2>4, OrderFrame
  <1>10. CASE FinishStep(t)
    <2> DEFINE x == Entry("step_finished", s, e)
    <2>1. AppendLive(e, x) /\ NextStep(t) /\ x.step = s /\ x.type = "step_finished"
      BY <1>10 DEF FinishStep, s, e, Entry
    <2>2. x \in JournalEntry
      BY <1>3
    <2> HIDE DEF x
    <2>3. Range(journal') = Range(journal) \cup {x} /\ SeesJournal'
      BY <1>5, <2>1, <2>2
    <2>4. s \in Steps => Result(Range(journal'), at[e])
      BY <1>2, <2>1, <2>3 DEF Result, Cached, Has
    <2> QED
      BY <1>4, <2>1, <2>2, <2>3, <2>4, OrderFrame
  <1>11. CASE FailStep(t)
    <2> DEFINE x == Entry("step_failed", s, None)
    <2>1. /\ AppendLive(e, x) /\ x.step = s /\ x.type = "step_failed"
          /\ at' = at \/ (NextStep(t) /\ s \in Caught)
      BY <1>11 DEF FailStep, Catches, s, e, Entry
    <2>2. x \in JournalEntry
      BY <1>3
    <2> HIDE DEF x
    <2>3. Range(journal') = Range(journal) \cup {x} /\ SeesJournal'
      BY <1>5, <2>1, <2>2
    <2>4. s \in Steps /\ s \in Caught => Result(Range(journal'), at[e])
      BY <1>2, <2>1, <2>3 DEF Result, Has
    <2> QED
      BY <1>4, <2>1, <2>2, <2>3, <2>4, OrderFrame
  <1>12. CASE \E f \in Exec : t = Run(f) /\ OpenGate(f)
    <2> DEFINE x == Entry("gate_opened", s, None)
    <2>1. /\ at' = at /\ x.type = "gate_opened"
          /\ UNCHANGED <<journal, live>> \/ AppendLive(e, x)
      BY <1>12 DEF OpenGate, s, e, Entry
    <2>2. x \in JournalEntry
      BY <1>3
    <2> HIDE DEF x
    <2>3. CASE UNCHANGED <<journal, live>>
      BY <1>6, <2>1, <2>3, OrderFrame
    <2>4. CASE AppendLive(e, x)
      <3>1. Range(journal') = Range(journal) \cup {x} /\ SeesJournal'
        BY <1>5, <2>2, <2>4
      <3> QED
        BY <2>1, <2>2, <3>1, OrderFrame
    <2> QED
      BY <2>1, <2>3, <2>4
  <1> QED
    BY <1>7, <1>8, <1>9, <1>10, <1>11, <1>12 DEF WorkerStep

LEMMA OrderStep ==
  ASSUME TInv, Begun, OrderInv, [Next]_vars
  PROVE  OrderInv'
  <1>1. journal \in Seq(JournalEntry) /\ live \in [Exec -> SUBSET JournalEntry]
    BY DEF TInv, TypeOK
  <1>2. ASSUME live' = live, at' = at,
               \/ journal' = journal
               \/ \E x \in JournalEntry : AppendJournal(x) /\ x.type # "step_started"
        PROVE  OrderInv'
    <2>1. \/ Range(journal') = Range(journal)
          \/ \E x \in JournalEntry : /\ Range(journal') = Range(journal) \cup {x}
                                     /\ x.type # "step_started"
      BY <1>1, <1>2, JournalGrows
    <2>2. SeesJournal'
      BY <1>2, <2>1 DEF OrderInv, SeesJournal
    <2> QED
      BY <1>2, <2>1, <2>2, OrderFrame
  <1>3. \A type \in {"run_started", "run_finished"} :
          Entry(type, None, None) \in JournalEntry /\ Entry(type, None, None).type = type
    BY DEF Entry, JournalEntry, EntryType
  <1>4. CASE \E e \in Exec : EngineCall(e)
    <2>1. PICK e \in Exec : EngineCall(e)
      BY <1>4
    <2>2. live' = live /\ at' = at
      BY <2>1 DEF EngineCall, StartRun, RunStarted, ContinueRun, Locked, CheckGate,
                  ResolveGate, FlipStatus, Settled, TimeLimit, RunFinished, ResumeRun
    <2>3. pc[Engine(e)] = "resolve" => gate[e] \in Gates /\ answer[e] \in Gates \cup {None}
      BY DEF TInv, GateKnown, TypeOK
    <2>4. pc[Engine(e)] = "resolve" =>
            /\ Entry("gate_resolved", gate[e], answer[e]) \in JournalEntry
            /\ Entry("gate_resolved", gate[e], answer[e]).type # "step_started"
      BY <2>3 DEF Entry, JournalEntry, EntryType, Steps
    <2>5. \/ journal' = journal
          \/ \E x \in JournalEntry : AppendJournal(x) /\ x.type # "step_started"
      BY <1>3, <2>1, <2>4
         DEF EngineCall, StartRun, RunStarted, ContinueRun, Locked, CheckGate,
             ResolveGate, FlipStatus, Settled, TimeLimit, RunFinished, ResumeRun, durable
    <2> QED
      BY <1>2, <2>2, <2>5
  <1>5. CASE \E e \in Exec : Execute(e)
    <2>1. PICK e \in Exec : Execute(e)
      BY <1>5
    <2>2. journal' = journal /\ at' = at /\ live' = [live EXCEPT ![e] = Range(journal)]
      BY <2>1 DEF Execute, durable
    <2>3. SeesJournal'
      BY <1>1, <2>2 DEF OrderInv, SeesJournal
    <2> QED
      BY <2>2, <2>3, OrderFrame
  <1>6. CASE (\E e \in Exec : Fork(e)) \/ (\E t \in Thread : Updating(t)) \/ UNCHANGED vars
    <2>1. live' = live /\ at' = at /\ journal' = journal
      BY <1>6 DEF Fork, Updating, ReadCase, WriteCase, vars, durable
    <2> QED
      BY <1>2, <2>1
  <1>7. CASE \E t \in Worker : WorkerStep(t)
    BY <1>7, WorkerOrder
  <1>8. CASE KillCall
    <2>1. live' = live /\ at' = at
      BY <1>8 DEF KillCall, KillRun, KillFile, KillFinished
    <2>2. \/ journal' = journal
          \/ \E x \in JournalEntry : AppendJournal(x) /\ x.type # "step_started"
      BY <1>3, <1>8 DEF KillCall, KillRun, KillFile, KillFinished, durable
    <2> QED
      BY <1>2, <2>1, <2>2
  <1>9. CASE Crash
    <2>1. journal' = journal /\ at' = [e \in Exec |-> 1] /\ live' = [e \in Exec |-> {}]
      BY <1>9 DEF Crash, durable
    <2>2. SeesJournal' /\ \A e \in Exec : at'[e] = 1
      BY <2>1 DEF SeesJournal
    <2> QED
      BY <2>1, <2>2, OrderFrame
  <1> QED
    BY <1>4, <1>5, <1>6, <1>7, <1>8, <1>9, NextCases

LEMMA OrderInit ==
  ASSUME Init
  PROVE  OrderInv
  <1>1. Range(journal) = {}
    BY DEF Init, Range
  <1>2. \A e \in Exec : live[e] = {} /\ at[e] = 1
    BY DEF Init
  <1> QED
    BY <1>1, <1>2 DEF OrderInv, SeesJournal, Passed, InOrder

\* A step is started only when each step before it has its result in the
\* journal, or failed and the script caught that: a crash never makes a replay
\* skip a step.
THEOREM NoStepSkipped == Spec => []StartedInOrder
  <1>1. Init => OrderInv
    BY OrderInit
  <1>2. TInv /\ Begun /\ OrderInv /\ [Next]_vars => OrderInv'
    BY OrderStep
  <1>3. OrderInv => StartedInOrder
    BY DEF OrderInv, InOrder, StartedInOrder, Result, Range
  <1> QED
    BY <1>1, <1>2, <1>3, Typed, PTL DEF Spec

-----------------------------------------------------------------------------
\* One script at a time. An execution works on the run from the moment the lock
\* lets it past the check of the status, and the status is paused_human only
\* while no script runs and no call has yet recorded an answer.

\* The call of e has not started its script.
Ahead(e) ==
  \/ pc[Engine(e)] \in {"off", "starting", "queued", "check", "resolve", "flip", "load"}
  \/ pc[Engine(e)] \in {"read", "rename"} /\ pend[Engine(e)].then \in {"flip", "load"}
\* It has found the run paused.
AtGate(e) ==
  \/ pc[Engine(e)] \in {"check", "resolve", "flip"}
  \/ pc[Engine(e)] \in {"read", "rename"} /\ pend[Engine(e)].then \in {"flip", "load"}
Past(e) == ScriptLive(e) \/ pc[Engine(e)] \in {"starting", "load"}
Active(e) == ScriptLive(e) \/ Launching(e)
Waiting(t) == \E e \in Exec : t = Engine(e) /\ pc[t] = "queued"
Working(t) == ~ Stopped(t) /\ ~ Waiting(t)

NotYet == \A e \in Exec : Ahead(e) => pc[Run(e)] = "off"
Solo == \A e, f \in Exec : Active(e) /\ Active(f) => e = f
Fresh == case.status = "none" => runLock = <<>> /\ \A t \in Thread : pc[t] = "off"
GateLocked == \A e \in Exec : AtGate(e) => runLock # <<>> /\ Head(runLock) = e
Unpaused == \A e \in Exec : Past(e) => case.status # "paused_human"
\* What an update writes when it keeps the status it read.
Snaps ==
  /\ \A t \in Thread : pc[t] = "rename" => pend[t].snap.status # "none"
  /\ \A e \in Exec : pc[Run(e)] = "rename" => pend[Run(e)].snap.status # "paused_human"
  /\ \A t \in Worker : t[2] \in Branch /\ pc[t] \in {"read", "rename"} =>
                         pend[t].status = "running"
\* A continueRun that waits found nothing of the run in the process.
ContinuesAlone ==
  \A e \in Exec : pc[Engine(e)] = "queued" /\ answer[e] = None =>
    /\ runLock # <<>> /\ Head(runLock) = e
    /\ \A t \in Thread \ {Killer} : ~ Working(t)
SoloInv == /\ NotYet /\ Solo /\ Fresh /\ GateLocked /\ Unpaused /\ Snaps
           /\ ContinuesAlone

LEMMA ActiveParts ==
  ASSUME NEW e \in Exec
  PROVE  /\ Active(e) <=> Past(e) \/ AtGate(e)
         /\ AtGate(e) => Ahead(e)
         /\ pc[Engine(e)] \in {"starting", "load"} => Ahead(e)
  BY DEF Active, Past, AtGate, Ahead, ScriptLive, Launching

\* A step of a thread that was working, other than killRun.
LEMMA SoloFrame ==
  ASSUME SoloInv, NEW t \in Thread \ {Killer}, Working(t), answer' = answer,
         case'.status # "none", Snaps',
         \A e \in Exec : /\ Ahead(e)' => Ahead(e) /\ pc'[Run(e)] = pc[Run(e)]
                         /\ Active(e)' => Active(e)
                         /\ AtGate(e)' => runLock' # <<>> /\ Head(runLock') = e
                         /\ Past(e)' => case'.status # "paused_human"
                         /\ pc'[Engine(e)] = "queued" => pc[Engine(e)] = "queued"
  PROVE  SoloInv'
  <1>1. NotYet' /\ Solo'
    BY DEF SoloInv, NotYet, Solo
  <1>2. Fresh' /\ GateLocked' /\ Unpaused'
    BY DEF Fresh, GateLocked, Unpaused
  <1>3. ContinuesAlone'
    BY DEF SoloInv, ContinuesAlone
  <1> QED
    BY <1>1, <1>2, <1>3 DEF SoloInv

\* A run that something works on exists.
LEMMA SomeRun ==
  ASSUME SoloInv, NEW t \in Thread, pc[t] # "off"
  PROVE  case.status # "none"
  BY DEF SoloInv, Fresh

LEMMA WorkerQuiet ==
  ASSUME TInv, NEW t \in Worker, WorkerStep(t)
  PROVE  /\ pc[t] \in {"begin", "mark", "work", "busy", "finish", "fail", "gate", "join"}
         /\ case' = case /\ runLock' = runLock /\ answer' = answer
         /\ pc'[t] \notin {"rename", "off", "ended"} /\ OthersStay(t)
         /\ t[2] \in Branch /\ pc'[t] = "read" => pend'[t].status = "running"
  <1> USE Threads
  <1> DEFINE s == StepOf(t)
  <1>1. /\ t \in Thread /\ pc \in [Thread -> Await] /\ pend \in [Thread -> Update]
    BY DEF TInv, TypeOK
  <1>2. t[2] \in Branch => s \in Branch /\ s \notin Agents /\ s # "done" /\ t[2] # "script"
    BY KindAssumption DEF StepOf
  <1>3. \A status, add, next :
          BeginUpdate(t, status, add, next) => pc'[t] = "read" /\ pend'[t].status = status
    BY <1>1 DEF BeginUpdate, NoUpdate
  <1>4. NextStep(t) => pc'[t] \in {"begin", "done", "joined"}
    BY NextStepType
  <1>5. OthersStay(t)
    BY WorkerType DEF WorkerStep
  <1>6. case' = case /\ runLock' = runLock /\ answer' = answer
    BY DEF WorkerStep, BeginStep, StepStarted, CallExecutor, ExecutorReturns,
           ExecutorThrows, FinishStep, FailStep, OpenGate, Join, durable
  <1>7. pc[t] \in {"begin", "mark", "work", "busy", "finish", "fail", "gate", "join"}
    BY DEF WorkerStep, BeginStep, StepStarted, CallExecutor, ExecutorReturns,
           ExecutorThrows, FinishStep, FailStep, OpenGate, Join
  <1> HIDE DEF s
  <1>8. CASE BeginStep(t)
    <2>1. \/ NextStep(t)
          \/ \E p \in {"killed", "failed", "mark"} : pc' = [pc EXCEPT ![t] = p]
          \/ \E next : BeginUpdate(t, "running", {}, next)
          \/ s = "done" /\ \E add : BeginUpdate(t, "keep", add, "finish")
      BY <1>8 DEF BeginStep, s
    <2> QED
      BY <1>1, <1>2, <1>3, <1>4, <1>5, <1>6, <1>7, <2>1
  <1>9. CASE StepStarted(t)
    BY <1>3, <1>5, <1>6, <1>7, <1>9 DEF StepStarted
  <1>10. CASE CallExecutor(t) \/ ExecutorThrows(t) \/ (\E e \in Exec : t = Run(e) /\ Join(e))
    <2>1. pc'[t] \in {"busy", "fail", "finish"}
      BY <1>1, <1>10 DEF CallExecutor, ExecutorThrows, Join
    <2> QED
      BY <1>5, <1>6, <1>7, <2>1
  <1>11. CASE ExecutorReturns(t)
    <2>1. \/ s \in Agents /\ \E add : BeginUpdate(t, "keep", add, "finish")
          \/ pc' = [pc EXCEPT ![t] = "finish"]
      BY <1>11 DEF ExecutorReturns, s
    <2> QED
      BY <1>1, <1>2, <1>3, <1>5, <1>6, <1>7, <2>1
  <1>12. CASE FinishStep(t) \/ FailStep(t)
    <2>1. \/ NextStep(t)
          \/ pc[t] = "fail" /\ pc' = [pc EXCEPT ![t] = pend[t].then]
      BY <1>12 DEF FinishStep, FailStep
    <2>2. pc[t] = "fail" => pend[t].then \in {"failed", "killed"}
      BY DEF TInv, Place, WorkerPlace
    <2> QED
      BY <1>1, <1>4, <1>5, <1>6, <1>7, <2>1, <2>2
  <1>13. CASE \E e \in Exec : t = Run(e) /\ OpenGate(e)
    <2>1. \E e \in Exec : t = Run(e) /\ BeginUpdate(t, "paused_human", {}, "suspended")
      BY <1>13 DEF OpenGate
    <2>2. t[2] \notin Branch
      BY <2>1, KindAssumption DEF Run
    <2> QED
      BY <1>3, <1>5, <1>6, <1>7, <2>1, <2>2
  <1> QED
    BY <1>8, <1>9, <1>10, <1>11, <1>12, <1>13 DEF WorkerStep

LEMMA WorkerSolo ==
  ASSUME TInv, SoloInv, NEW t \in Worker, WorkerStep(t)
  PROVE  SoloInv'
  <1> USE Threads
  <1>1. /\ pc[t] \in {"begin", "mark", "work", "busy", "finish", "fail", "gate", "join"}
        /\ case' = case /\ runLock' = runLock /\ answer' = answer
        /\ pc'[t] # "rename" /\ OthersStay(t)
        /\ t[2] \in Branch /\ pc'[t] = "read" => pend'[t].status = "running"
    BY WorkerQuiet
  <1>2. Working(t) /\ t \in Thread \ {Killer}
    BY <1>1 DEF Working, Stopped, Waiting
  <1>3. \A e \in Exec : pc'[Engine(e)] = pc[Engine(e)] /\ pend'[Engine(e)] = pend[Engine(e)]
    BY <1>1 DEF OthersStay
  <1>4. \A e \in Exec : Run(e) # t => pc'[Run(e)] = pc[Run(e)]
    BY <1>1 DEF OthersStay
  <1>5. \A e \in Exec : Run(e) = t => ScriptLive(e) /\ ~ Ahead(e)
    BY <1>1 DEF ScriptLive, Terminal, SoloInv, NotYet
  <1>6. \A e \in Exec : /\ Ahead(e)' <=> Ahead(e)
                        /\ AtGate(e)' <=> AtGate(e)
                        /\ Launching(e)' <=> Launching(e)
                        /\ ScriptLive(e)' => ScriptLive(e)
    BY <1>3, <1>4, <1>5 DEF Ahead, AtGate, Launching, ScriptLive
  <1>7. Snaps'
    BY <1>1 DEF SoloInv, Snaps, OthersStay
  <1>8. case'.status # "none"
    BY <1>1, SomeRun
  <1>9. \A e \in Exec : Past(e)' => Past(e)
    BY <1>3, <1>6 DEF Past
  <1>10. \A e \in Exec : Active(e)' => Active(e)
    BY <1>6 DEF Active
  <1>11. \A e \in Exec : Ahead(e)' => Ahead(e) /\ pc'[Run(e)] = pc[Run(e)]
    BY <1>4, <1>5, <1>6
  <1>12. \A e \in Exec : AtGate(e)' => runLock' # <<>> /\ Head(runLock') = e
    BY <1>1, <1>6 DEF SoloInv, GateLocked
  <1>13. \A e \in Exec : Past(e)' => case'.status # "paused_human"
    BY <1>1, <1>9 DEF SoloInv, Unpaused
  <1>14. \A e \in Exec : pc'[Engine(e)] = "queued" => pc[Engine(e)] = "queued"
    BY <1>3
  <1> QED
    BY <1>1, <1>2, <1>7, <1>8, <1>10, <1>11, <1>12, <1>13, <1>14, SoloFrame

\* What an update writes.
LEMMA WriteStatus ==
  ASSUME TInv, SoloInv, NEW t \in Thread, WriteCase(t)
  PROVE  /\ case'.status # "none"
         /\ case'.status = "paused_human" =>
              \/ \E e \in Exec : t = Run(e) /\ pend[t].then = "suspended"
              \/ \E e \in Exec : t = Engine(e) /\ pend[t].then = "flip"
  <1> USE Threads
  <1>1. pc[t] = "rename"
    BY DEF WriteCase
  <1>2. case'.status = IF pend[t].status = "keep" THEN pend[t].snap.status ELSE pend[t].status
    BY WriteCaseFacts DEF TInv
  <1>3. pend[t].snap.status # "none"
    BY <1>1 DEF SoloInv, Snaps
  <1>4. CASE t = Killer
    <2>1. pend[t].status = "killed"
      BY <1>1, <1>4 DEF TInv, Place, KillerPlace
    <2> QED
      BY <1>2, <2>1
  <1>5. CASE \E e \in Exec : t = Engine(e)
    <2>1. \/ pend[t].then = "flip" /\ pend[t].status = "keep"
          \/ pend[t].status \in {"running"} \cup Terminal
      BY <1>1, <1>5 DEF TInv, Place, EnginePlace
    <2> QED
      BY <1>2, <1>3, <1>5, <2>1 DEF Terminal
  <1>6. CASE t \in Worker
    <2>1. \/ pend[t].status = "running"
          \/ pend[t].status = "keep"
          \/ pend[t].then = "suspended" /\ pend[t].status = "paused_human"
      BY <1>1, <1>6 DEF TInv, Place, WorkerPlace
    <2>2. CASE t[2] \in Branch
      BY <1>1, <1>2, <1>6, <2>2 DEF SoloInv, Snaps
    <2>3. CASE \E e \in Exec : t = Run(e)
      <3>1. pend[t].snap.status # "paused_human"
        BY <1>1, <2>3 DEF SoloInv, Snaps
      <3> QED
        BY <1>2, <1>3, <2>1, <2>3, <3>1
    <2> QED
      BY <1>6, <2>2, <2>3
  <1> QED
    BY <1>4, <1>5, <1>6, ThreadCases

\* What an update leaves: the thread goes on, or reads what it will patch.
LEMMA UpdatingFacts ==
  ASSUME TInv, NEW t \in Thread, Updating(t)
  PROVE  /\ pc[t] \in {"read", "rename"} /\ OthersStay(t)
         /\ \/ pc'[t] = pend[t].then /\ pend'[t] = NoUpdate
            \/ /\ pc'[t] = "rename" /\ pend'[t].then = pend[t].then
               /\ pend'[t].status = pend[t].status /\ pend'[t].snap = case
         /\ runLock' = runLock /\ answer' = answer
         /\ WriteCase(t) \/ case' = case
  BY ReadCaseFacts, WriteCaseFacts DEF TInv, Updating, OthersStay, ReadCase, WriteCase, durable

LEMMA UpdatingSnaps ==
  ASSUME TInv, SoloInv, NEW t \in Thread, Updating(t)
  PROVE  Snaps' /\ case'.status # "none"
  <1> USE Threads
  <1>1. /\ pc[t] \in {"read", "rename"} /\ OthersStay(t)
        /\ \/ pc'[t] = pend[t].then /\ pend'[t] = NoUpdate
           \/ /\ pc'[t] = "rename" /\ pend'[t].then = pend[t].then
              /\ pend'[t].status = pend[t].status /\ pend'[t].snap = case
        /\ WriteCase(t) \/ case' = case
    BY UpdatingFacts
  <1>2. case.status # "none"
    BY <1>1, SomeRun
  <1>3. case'.status # "none"
    BY <1>1, <1>2, WriteStatus
  <1>4. pend[t].then \notin {"read", "rename"}
    <2>1. CASE t = Killer
      BY <1>1, <2>1 DEF TInv, Place, KillerPlace
    <2>2. CASE \E e \in Exec : t = Engine(e)
      BY <1>1, <2>2 DEF TInv, Place, EnginePlace
    <2>3. CASE t \in Worker
      BY <1>1, <2>3 DEF TInv, Place, WorkerPlace, AfterBegin
    <2> QED
      BY <2>1, <2>2, <2>3, ThreadCases
  <1>5. \A u \in Thread : pc'[u] = "rename" => pend'[u].snap.status # "none"
    BY <1>1, <1>2, <1>4 DEF OthersStay, SoloInv, Snaps
  <1>6. \A e \in Exec : pc'[Run(e)] = "rename" => pend'[Run(e)].snap.status # "paused_human"
    <2> SUFFICES ASSUME NEW e \in Exec, pc'[Run(e)] = "rename"
                 PROVE  pend'[Run(e)].snap.status # "paused_human"
      OBVIOUS
    <2>1. CASE Run(e) # t
      BY <1>1, <2>1 DEF OthersStay, SoloInv, Snaps
    <2>2. CASE Run(e) = t
      <3>1. ScriptLive(e)
        BY <1>1, <2>2 DEF ScriptLive, Terminal
      <3>2. case.status # "paused_human"
        BY <3>1 DEF SoloInv, Unpaused, Past
      <3> QED
        BY <1>1, <1>4, <2>2, <3>2
    <2> QED
      BY <2>1, <2>2
  <1>7. \A u \in Worker : u[2] \in Branch /\ pc'[u] \in {"read", "rename"} =>
                            pend'[u].status = "running"
    BY <1>1, <1>4 DEF OthersStay, SoloInv, Snaps
  <1> QED
    BY <1>3, <1>5, <1>6, <1>7 DEF Snaps

LEMMA UpdatingMoves ==
  ASSUME TInv, SoloInv, NEW t \in Thread, Updating(t), t # Killer
  PROVE  \A e \in Exec :
           /\ Ahead(e)' => Ahead(e) /\ pc'[Run(e)] = pc[Run(e)]
           /\ AtGate(e)' => AtGate(e)
           /\ ScriptLive(e)' => ScriptLive(e)
           /\ Launching(e)' => /\ Launching(e)
                               /\ t = Engine(e) => pc[t] \in {"read", "rename"}
           /\ pc'[Engine(e)] = "queued" => pc[Engine(e)] = "queued"
           /\ pc'[Engine(e)] # pc[Engine(e)] => pc'[Engine(e)] # "starting"
  <1> USE Threads
  <1>1. /\ pc[t] \in {"read", "rename"} /\ OthersStay(t)
        /\ \/ pc'[t] = pend[t].then
           \/ pc'[t] = "rename" /\ pend'[t].then = pend[t].then
        /\ runLock' = runLock /\ answer' = answer
        /\ WriteCase(t) \/ case' = case
    BY UpdatingFacts
  <1>2. \A e \in Exec : Engine(e) # t => pc'[Engine(e)] = pc[Engine(e)]
                                         /\ pend'[Engine(e)] = pend[Engine(e)]
    BY <1>1 DEF OthersStay
  <1>3. \A e \in Exec : Run(e) # t => pc'[Run(e)] = pc[Run(e)]
    BY <1>1 DEF OthersStay
  <1>4. \A e \in Exec : Run(e) = t => ScriptLive(e) /\ ~ Ahead(e)
    BY <1>1 DEF ScriptLive, Terminal, SoloInv, NotYet
  <1>5. \A e \in Exec : Engine(e) = t =>
          /\ Ahead(e)' => Ahead(e)
          /\ AtGate(e)' => AtGate(e)
          /\ Launching(e)' => AtGate(e)
          /\ pc'[t] \notin {"starting", "queued"}
          /\ pc'[t] = "load" => pend[t].then = "load" /\ pend[t].status = "running"
    <2> SUFFICES ASSUME NEW e \in Exec, Engine(e) = t
                 PROVE  /\ Ahead(e)' => Ahead(e)
                        /\ AtGate(e)' => AtGate(e)
                        /\ Launching(e)' => AtGate(e)
                        /\ pc'[t] \notin {"starting", "queued"}
                        /\ pc'[t] = "load" => pend[t].then = "load" /\ pend[t].status = "running"
      OBVIOUS
    <2>1. \/ pend[t].then = "flip" /\ pend[t].status = "keep"
          \/ pend[t].then = "load" /\ pend[t].status = "running"
          \/ pend[t].then = "finish_run"
      BY <1>1 DEF TInv, Place, EnginePlace
    <2> QED
      BY <1>1, <2>1 DEF Ahead, AtGate, Launching
  <1>6. \A e \in Exec : Engine(e) # t \/ Run(e) # t
    OBVIOUS
  <1> SUFFICES ASSUME NEW e \in Exec
               PROVE  /\ Ahead(e)' => Ahead(e) /\ pc'[Run(e)] = pc[Run(e)]
                      /\ AtGate(e)' => AtGate(e)
                      /\ ScriptLive(e)' => ScriptLive(e)
                      /\ Launching(e)' => /\ Launching(e)
                                          /\ t = Engine(e) => pc[t] \in {"read", "rename"}
                      /\ pc'[Engine(e)] = "queued" => pc[Engine(e)] = "queued"
                      /\ pc'[Engine(e)] # pc[Engine(e)] => pc'[Engine(e)] # "starting"
    OBVIOUS
  <1>7. CASE Engine(e) = t
    BY <1>1, <1>3, <1>5, <1>6, <1>7 DEF ScriptLive, Launching, AtGate
  <1>8. CASE Engine(e) # t
    BY <1>2, <1>3, <1>4, <1>8 DEF Ahead, AtGate, ScriptLive, Launching
  <1> QED
    BY <1>7, <1>8

LEMMA UpdatingSolo ==
  ASSUME TInv, SoloInv, NEW t \in Thread, Updating(t), t # Killer
  PROVE  SoloInv'
  <1> USE Threads
  <1>1. /\ pc[t] \in {"read", "rename"} /\ OthersStay(t)
        /\ \/ pc'[t] = pend[t].then
           \/ pc'[t] = "rename" /\ pend'[t].then = pend[t].then
        /\ runLock' = runLock /\ answer' = answer
        /\ WriteCase(t) \/ case' = case
    BY UpdatingFacts
  <1>2. Working(t) /\ t \in Thread \ {Killer}
    BY <1>1 DEF Working, Stopped, Waiting
  <1>3. \A e \in Exec : Engine(e) # t => pc'[Engine(e)] = pc[Engine(e)]
                                         /\ pend'[Engine(e)] = pend[Engine(e)]
    BY <1>1 DEF OthersStay
  <1>4. \A e \in Exec : Run(e) # t => pc'[Run(e)] = pc[Run(e)]
    BY <1>1 DEF OthersStay
  <1>5. \A e \in Exec : Run(e) = t => ScriptLive(e) /\ ~ Ahead(e)
    BY <1>1 DEF ScriptLive, Terminal, SoloInv, NotYet
  <1>6. \A e \in Exec : Engine(e) = t => pc'[t] # "starting"
    BY <1>1, UpdatingMoves
  <1>7. \A e \in Exec : /\ Ahead(e)' => Ahead(e) /\ pc'[Run(e)] = pc[Run(e)]
                        /\ AtGate(e)' => AtGate(e)
                        /\ ScriptLive(e)' => ScriptLive(e)
                        /\ Launching(e)' => Launching(e)
                        /\ pc'[Engine(e)] = "queued" => pc[Engine(e)] = "queued"
    BY UpdatingMoves
  <1>8. Snaps' /\ case'.status # "none"
    BY UpdatingSnaps
  <1>9. \A e \in Exec : Active(e)' => Active(e)
    BY <1>7 DEF Active
  <1>10. \A e \in Exec : AtGate(e)' => runLock' # <<>> /\ Head(runLock') = e
    BY <1>1, <1>7 DEF SoloInv, GateLocked
  <1>11. \A e \in Exec : Past(e)' => case'.status # "paused_human"
    <2> SUFFICES ASSUME NEW e \in Exec, Past(e)', case'.status = "paused_human"
                 PROVE  FALSE
      OBVIOUS
    <2>1. Active(e)
      BY <1>7, <1>9, ActiveParts DEF Past, Launching, Active
    <2>2. CASE WriteCase(t) /\ \E f \in Exec : t = Run(f) /\ pend[t].then = "suspended"
      <3>1. PICK f \in Exec : t = Run(f) /\ pend[t].then = "suspended"
        BY <2>2
      <3>2. Active(f) /\ f = e
        BY <1>5, <2>1, <3>1 DEF Active, SoloInv, Solo
      <3>3. pc'[Run(e)] = "suspended"
        BY <2>2, <3>1, <3>2, WriteCaseFacts DEF TInv
      <3>4. pc'[Engine(e)] = pc[Engine(e)] /\ ~ Ahead(e)
        BY <1>3, <1>5, <3>1, <3>2
      <3> QED
        BY <3>3, <3>4 DEF Past, ScriptLive, Ahead
    <2>3. CASE WriteCase(t) /\ \E f \in Exec : t = Engine(f) /\ pend[t].then = "flip"
      <3>1. PICK f \in Exec : t = Engine(f) /\ pend[t].then = "flip"
        BY <2>3
      <3>2. Launching(f) /\ Ahead(f)
        BY <1>1, <3>1 DEF Launching, Ahead
      <3>3. f = e
        BY <2>1, <3>2 DEF Active, SoloInv, Solo
      <3>4. pc'[Engine(e)] = "flip"
        BY <2>3, <3>1, <3>3, WriteCaseFacts DEF TInv
      <3>5. pc'[Run(e)] = "off"
        BY <1>4, <3>1, <3>2, <3>3 DEF SoloInv, NotYet
      <3> QED
        BY <3>4, <3>5 DEF Past, ScriptLive
    <2>4. CASE case' = case /\ ~ WriteCase(t)
      <3>1. ~ Past(e)
        BY <2>4 DEF SoloInv, Unpaused
      <3>2. pc'[Engine(e)] = "load" /\ Engine(e) = t
        BY <1>3, <1>6, <1>7, <3>1 DEF Past
      <3>3. case.status \in Terminal
        BY <2>4, <3>2, ReadCaseFacts DEF Updating, TInv
      <3> QED
        BY <2>4, <3>3 DEF Terminal
    <2> QED
      BY <1>1, <2>2, <2>3, <2>4, WriteStatus
  <1> QED
    BY <1>1, <1>2, <1>7, <1>8, <1>9, <1>10, <1>11, SoloFrame

LEMMA ExecuteSolo ==
  ASSUME TInv, SoloInv, NEW e \in Exec, Execute(e)
  PROVE  SoloInv'
  <1> USE Threads
  <1>1. /\ pc'[Engine(e)] = "await" /\ pc'[Run(e)] = "begin" /\ pend' = pend
        /\ \A u \in Thread \ {Engine(e), Run(e)} : pc'[u] = pc[u]
    BY ExecuteType
  <1>2. case' = case /\ runLock' = runLock /\ answer' = answer /\ pc[Engine(e)] = "load"
    BY DEF Execute, durable
  <1>3. Working(Engine(e)) /\ Engine(e) \in Thread \ {Killer}
    BY <1>2 DEF Working, Stopped, Waiting
  <1>4. \A f \in Exec : f # e => pc'[Engine(f)] = pc[Engine(f)] /\ pc'[Run(f)] = pc[Run(f)]
    BY <1>1
  <1>5. Active(e) /\ Past(e)
    BY <1>2 DEF Active, Past, Launching
  <1>6. \A f \in Exec : /\ Ahead(f)' => f # e /\ Ahead(f)
                        /\ AtGate(f)' => AtGate(f)
                        /\ Past(f)' => Past(f)
                        /\ Active(f)' => Active(f)
                        /\ pc'[Engine(f)] = "queued" => pc[Engine(f)] = "queued"
    <2> SUFFICES ASSUME NEW f \in Exec
                 PROVE  /\ Ahead(f)' => f # e /\ Ahead(f)
                        /\ AtGate(f)' => AtGate(f)
                        /\ Past(f)' => Past(f)
                        /\ Active(f)' => Active(f)
                        /\ pc'[Engine(f)] = "queued" => pc[Engine(f)] = "queued"
      OBVIOUS
    <2>1. CASE f = e
      BY <1>1, <1>5, <2>1 DEF Ahead, AtGate
    <2>2. CASE f # e
      BY <1>1, <1>4, <2>2 DEF Ahead, AtGate, Past, Active, ScriptLive, Launching
    <2> QED
      BY <2>1, <2>2
  <1>7. \A u \in Thread : pc'[u] \in {"read", "rename"} => pc[u] = pc'[u]
    BY <1>1
  <1>8. Snaps'
    BY <1>1, <1>7 DEF SoloInv, Snaps
  <1>9. case'.status # "none"
    BY <1>2, SomeRun
  <1>10. \A f \in Exec : /\ Ahead(f)' => Ahead(f) /\ pc'[Run(f)] = pc[Run(f)]
                         /\ Past(f)' => case'.status # "paused_human"
                         /\ AtGate(f)' => runLock' # <<>> /\ Head(runLock') = f
    BY <1>2, <1>4, <1>6 DEF SoloInv, Unpaused, GateLocked
  <1> QED
    BY <1>2, <1>3, <1>6, <1>8, <1>9, <1>10, SoloFrame

LEMMA ForkSolo ==
  ASSUME TInv, SoloInv, NEW e \in Exec, Fork(e)
  PROVE  SoloInv'
  <1> USE Threads
  <1>1. /\ \A u \in Thread : \/ pc'[u] = pc[u]
                             \/ u \in Worker /\ u[1] = e /\ pc'[u] \in {"join", "begin"}
        /\ \A f \in Exec : pc'[Engine(f)] = pc[Engine(f)]
        /\ \A f \in Exec : f # e => pc'[Run(f)] = pc[Run(f)]
        /\ pc'[Run(e)] = "join" /\ pend' = pend
    BY ForkType
  <1>2. case' = case /\ runLock' = runLock /\ answer' = answer /\ pc[Run(e)] = "fork"
    BY DEF Fork, durable
  <1>3. Working(Run(e)) /\ Run(e) \in Thread \ {Killer}
    BY <1>2 DEF Working, Stopped, Waiting
  <1>4. ScriptLive(e) /\ ~ Ahead(e)
    BY <1>2 DEF ScriptLive, Terminal, SoloInv, NotYet
  <1>5. \A f \in Exec : /\ Ahead(f)' <=> Ahead(f)
                        /\ AtGate(f)' <=> AtGate(f)
                        /\ Launching(f)' <=> Launching(f)
                        /\ ScriptLive(f)' => ScriptLive(f)
    BY <1>1, <1>4 DEF Ahead, AtGate, Launching, ScriptLive
  <1>6. \A u \in Thread : pc'[u] \in {"read", "rename"} => pc[u] = pc'[u]
    BY <1>1
  <1>7. Snaps'
    BY <1>1, <1>6 DEF SoloInv, Snaps
  <1>8. case'.status # "none"
    BY <1>2, SomeRun
  <1>9. \A f \in Exec : Past(f)' => Past(f)
    BY <1>1, <1>5 DEF Past
  <1>10. \A f \in Exec : Active(f)' => Active(f)
    BY <1>5 DEF Active
  <1>11. \A f \in Exec : /\ Ahead(f)' => Ahead(f) /\ pc'[Run(f)] = pc[Run(f)]
                         /\ Past(f)' => case'.status # "paused_human"
                         /\ AtGate(f)' => runLock' # <<>> /\ Head(runLock') = f
    BY <1>1, <1>2, <1>4, <1>5, <1>9 DEF SoloInv, Unpaused, GateLocked
  <1> QED
    BY <1>1, <1>2, <1>3, <1>7, <1>8, <1>10, <1>11, SoloFrame

\* killRun writes `killed`, which pauses nothing.
LEMMA KillSolo ==
  ASSUME TInv, SoloInv, KillCall \/ Updating(Killer)
  PROVE  SoloInv'
  <1> USE Threads
  <1>1. OthersStay(Killer) /\ runLock' = runLock /\ answer' = answer
    BY KillType, UpdatingFacts
       DEF KillCall, KillRun, KillFile, KillFinished
  <1>2. case.status # "none"
    <2>1. KillRun \/ pc[Killer] # "off"
      BY DEF KillCall, KillFile, KillFinished, Updating, ReadCase, WriteCase
    <2> QED
      BY <2>1, SomeRun DEF KillRun
  <1>3. case' = case \/ WriteCase(Killer)
    BY DEF KillCall, KillRun, KillFile, KillFinished, Updating, ReadCase, durable
  <1>4. /\ case'.status # "none"
        /\ case'.status = "paused_human" => case.status = "paused_human"
    BY <1>2, <1>3, WriteStatus
  <1>5. \A u \in Thread \ {Killer} : pc'[u] = pc[u] /\ pend'[u] = pend[u]
    BY <1>1 DEF OthersStay
  <1>6. \A e \in Exec : /\ pc'[Engine(e)] = pc[Engine(e)] /\ pend'[Engine(e)] = pend[Engine(e)]
                        /\ pc'[Run(e)] = pc[Run(e)] /\ pend'[Run(e)] = pend[Run(e)]
    BY <1>5
  <1>7. \A e \in Exec : /\ Ahead(e)' <=> Ahead(e)
                        /\ AtGate(e)' <=> AtGate(e)
                        /\ Past(e)' <=> Past(e)
                        /\ Active(e)' <=> Active(e)
    BY <1>6 DEF Ahead, AtGate, Past, Active, Launching, ScriptLive
  <1>8. \A u \in Thread \ {Killer} : Working(u)' <=> Working(u)
    BY <1>5 DEF Working, Stopped, Waiting
  <1>9. Snaps'
    <2>1. CASE Updating(Killer)
      BY <2>1, UpdatingSnaps
    <2>2. CASE KillCall
      <3>1. pc'[Killer] # "rename"
        BY <2>2 DEF KillCall, KillRun, KillFile, KillFinished, BeginUpdate, TInv, TypeOK
      <3> QED
        BY <1>5, <1>6, <3>1 DEF SoloInv, Snaps
    <2> QED
      BY <2>1, <2>2
  <1>10. NotYet' /\ Solo'
    BY <1>6, <1>7 DEF SoloInv, NotYet, Solo
  <1>11. Fresh' /\ GateLocked' /\ Unpaused'
    BY <1>1, <1>4, <1>7 DEF SoloInv, Fresh, GateLocked, Unpaused
  <1>12. ContinuesAlone'
    BY <1>1, <1>6, <1>8 DEF SoloInv, ContinuesAlone
  <1> QED
    BY <1>9, <1>10, <1>11, <1>12 DEF SoloInv

\* A crash stops everything.
LEMMA CrashSolo ==
  ASSUME TInv, Begun, SoloInv, Crash
  PROVE  SoloInv'
  <1> USE Threads
  <1>1. /\ case' = case /\ runLock' = <<>>
        /\ pc' = [t \in Thread |->
                    IF t = Killer THEN "off"
                    ELSE IF pc[Engine(t[1])] = "off" THEN pc[t] ELSE "ended"]
    BY DEF Crash, durable
  <1>2. \A t \in Thread : pc'[t] \in {"off", "ended"}
    <2> SUFFICES ASSUME NEW t \in Thread
                 PROVE  pc'[t] \in {"off", "ended"}
      OBVIOUS
    <2>1. CASE t = Killer
      BY <1>1, <2>1
    <2>2. CASE t \in Worker
      BY <1>1, <2>2 DEF Begun
    <2>3. CASE \E e \in Exec : t = Engine(e)
      BY <1>1, <2>3
    <2> QED
      BY <2>1, <2>2, <2>3, ThreadCases
  <1>3. \A e \in Exec : pc'[Engine(e)] = "off" => pc'[Run(e)] = "off"
    <2>1. Begun'
      BY CrashType
    <2> QED
      BY <2>1 DEF Begun
  <1>4. \A e \in Exec : ~ AtGate(e)' /\ ~ Past(e)' /\ ~ Active(e)' /\ pc'[Engine(e)] # "queued"
    <2> SUFFICES ASSUME NEW e \in Exec
                 PROVE  ~ AtGate(e)' /\ ~ Past(e)' /\ ~ Active(e)' /\ pc'[Engine(e)] # "queued"
      OBVIOUS
    <2>1. pc'[Engine(e)] \in {"off", "ended"} /\ pc'[Run(e)] \in {"off", "ended"}
      BY <1>2
    <2> QED
      BY <2>1 DEF AtGate, Past, Active, ScriptLive, Launching
  <1>5. NotYet'
    BY <1>2, <1>3 DEF NotYet, Ahead
  <1>6. Fresh'
    <2> SUFFICES ASSUME case.status = "none"
                 PROVE  \A t \in Thread : pc'[t] = "off"
      BY <1>1 DEF Fresh
    <2>1. \A t \in Thread : pc[t] = "off"
      BY DEF SoloInv, Fresh
    <2>2. \A t \in Thread : t # Killer => \E e \in Exec : pc[Engine(t[1])] = pc[Engine(e)]
      BY ThreadCases
    <2> QED
      BY <1>1, <2>1, <2>2
  <1>7. Snaps'
    BY <1>2 DEF Snaps
  <1> QED
    BY <1>4, <1>5, <1>6, <1>7 DEF SoloInv, Solo, GateLocked, Unpaused, ContinuesAlone

\* A call that works on the run: it goes on, or returns.
WorkingCall(e) ==
  \/ RunStarted(e) \/ CheckGate(e) \/ ResolveGate(e) \/ FlipStatus(e)
  \/ Settled(e) \/ TimeLimit(e) \/ RunFinished(e)

LEMMA WorkingCallMoves ==
  ASSUME TInv, NEW e \in Exec, WorkingCall(e)
  PROVE  /\ pc[Engine(e)] \in {"starting", "check", "resolve", "flip", "await", "finish_run"}
         /\ case' = case /\ answer' = answer /\ OthersStay(Engine(e))
         /\ \/ pc[Engine(e)] = "starting" /\ pc'[Engine(e)] = "load" /\ runLock' = runLock
            \/ Leave(e) /\ pc'[Engine(e)] = "ended"
            \/ /\ pc[Engine(e)] = "check" /\ pc'[Engine(e)] = "resolve" /\ runLock' = runLock
            \/ /\ pc[Engine(e)] \in {"check", "resolve", "flip"} /\ runLock' = runLock
               /\ pc'[Engine(e)] = "read" /\ pend'[Engine(e)].then \in {"flip", "load"}
            \/ /\ pc[Engine(e)] = "await" /\ runLock' = runLock
               /\ pc'[Engine(e)] = "read" /\ pend'[Engine(e)].then = "finish_run"
  <1> USE Threads
  <1> DEFINE t == Engine(e)
  <1>1. pc \in [Thread -> Await] /\ pend \in [Thread -> Update] /\ t \in Thread
    BY DEF TInv, TypeOK
  <1>2. \A status, add, next :
          BeginUpdate(t, status, add, next) => pc'[t] = "read" /\ pend'[t].then = next
    BY <1>1 DEF BeginUpdate, NoUpdate
  <1>3. Leave(e) => pc'[t] = "ended"
    BY LeaveType
  <1>4. case' = case /\ answer' = answer /\ OthersStay(t)
    BY EngineType DEF WorkingCall, RunStarted, CheckGate, ResolveGate, FlipStatus,
                      Settled, TimeLimit, RunFinished, durable
  <1>5. CASE RunStarted(e)
    BY <1>1, <1>4, <1>5 DEF RunStarted
  <1>6. CASE CheckGate(e)
    BY <1>1, <1>2, <1>3, <1>4, <1>6 DEF CheckGate
  <1>7. CASE ResolveGate(e) \/ FlipStatus(e)
    BY <1>1, <1>2, <1>4, <1>7 DEF ResolveGate, FlipStatus
  <1>8. CASE Settled(e) \/ TimeLimit(e)
    BY <1>1, <1>2, <1>3, <1>4, <1>8 DEF Settled, TimeLimit
  <1>9. CASE RunFinished(e)
    BY <1>1, <1>3, <1>4, <1>9 DEF RunFinished
  <1> QED
    BY <1>5, <1>6, <1>7, <1>8, <1>9 DEF WorkingCall

LEMMA WorkingCallSolo ==
  ASSUME TInv, SoloInv, NEW e \in Exec, WorkingCall(e)
  PROVE  SoloInv'
  <1> USE Threads
  <1> DEFINE t == Engine(e)
  <1>1. /\ pc[t] \in {"starting", "check", "resolve", "flip", "await", "finish_run"}
        /\ case' = case /\ answer' = answer /\ OthersStay(t)
        /\ \/ pc[t] = "starting" /\ pc'[t] = "load" /\ runLock' = runLock
           \/ Leave(e) /\ pc'[t] = "ended"
           \/ /\ pc[t] = "check" /\ pc'[t] = "resolve" /\ runLock' = runLock
           \/ /\ pc[t] \in {"check", "resolve", "flip"} /\ runLock' = runLock
              /\ pc'[t] = "read" /\ pend'[t].then \in {"flip", "load"}
           \/ /\ pc[t] = "await" /\ runLock' = runLock
              /\ pc'[t] = "read" /\ pend'[t].then = "finish_run"
    BY WorkingCallMoves
  <1>2. Working(t) /\ t \in Thread \ {Killer}
    BY <1>1 DEF Working, Stopped, Waiting
  <1>3. /\ \A f \in Exec : pc'[Run(f)] = pc[Run(f)]
        /\ \A f \in Exec : f # e => pc'[Engine(f)] = pc[Engine(f)]
                                    /\ pend'[Engine(f)] = pend[Engine(f)]
    BY <1>1 DEF OthersStay
  <1>4. \A f \in Exec : ScriptLive(f)' <=> ScriptLive(f)
    BY <1>3 DEF ScriptLive
  <1>5. /\ Ahead(e)' => Ahead(e)
        /\ AtGate(e)' => AtGate(e) /\ runLock' = runLock
        /\ Launching(e)' => Launching(e)
        /\ pc'[t] \in {"starting", "load"} => pc[t] \in {"starting", "load"}
        /\ pc'[t] # "queued"
    BY <1>1 DEF Ahead, AtGate, Launching
  <1>6. \A f \in Exec : f # e => /\ Ahead(f)' <=> Ahead(f)
                                 /\ AtGate(f)' <=> AtGate(f)
                                 /\ Launching(f)' <=> Launching(f)
    BY <1>3 DEF Ahead, AtGate, Launching
  <1>7. \A f \in Exec : Active(f)' => Active(f)
    BY <1>4, <1>5, <1>6 DEF Active
  <1>8. \A f \in Exec : Past(f)' => case'.status # "paused_human"
    BY <1>1, <1>3, <1>4, <1>5 DEF Past, SoloInv, Unpaused
  <1>9. \A f \in Exec : AtGate(f)' => runLock' # <<>> /\ Head(runLock') = f
    <2> SUFFICES ASSUME NEW f \in Exec, AtGate(f)'
                 PROVE  runLock' # <<>> /\ Head(runLock') = f
      OBVIOUS
    <2>1. runLock # <<>> /\ Head(runLock) = f
      BY <1>5, <1>6 DEF SoloInv, GateLocked
    <2>2. runLock' = runLock
      BY <1>1, <1>5, <2>1 DEF Leave
    <2> QED
      BY <2>1, <2>2
  <1>10. \A f \in Exec : Ahead(f)' => Ahead(f) /\ pc'[Run(f)] = pc[Run(f)]
    BY <1>3, <1>5, <1>6
  <1>11. Snaps'
    BY <1>1 DEF SoloInv, Snaps, OthersStay
  <1>12. case'.status # "none"
    BY <1>1, SomeRun
  <1>13. \A f \in Exec : pc'[Engine(f)] = "queued" => pc[Engine(f)] = "queued"
    BY <1>3, <1>5
  <1> QED
    BY <1>1, <1>2, <1>7, <1>8, <1>9, <1>10, <1>11, <1>12, <1>13, SoloFrame

\* The calls that begin, and the ones that get the lock. e moves, and the case
\* keeps its status or gets one.
LEMMA CallFrame ==
  ASSUME TInv, SoloInv, NEW e \in Exec, OthersStay(Engine(e)), pend' = pend,
         pc'[Engine(e)] \notin {"read", "rename"},
         Ahead(e), case'.status # "none", case.status # "paused_human" =>
                                          case'.status # "paused_human"
  PROVE  /\ NotYet' /\ Fresh' /\ Snaps'
         /\ \A f \in Exec : ScriptLive(f)' <=> ScriptLive(f)
         /\ \A f \in Exec : f # e => /\ AtGate(f)' <=> AtGate(f)
                                     /\ Past(f)' <=> Past(f)
                                     /\ Active(f)' <=> Active(f)
                                     /\ pc'[Engine(f)] = pc[Engine(f)]
         /\ ~ ScriptLive(e)
         /\ \A u \in Thread \ {Engine(e)} : pc'[u] = pc[u]
         /\ \A f \in Exec : f # e => (Past(f)' => case'.status # "paused_human")
  <1> USE Threads
  <1>1. /\ \A f \in Exec : pc'[Run(f)] = pc[Run(f)]
        /\ \A f \in Exec : f # e => pc'[Engine(f)] = pc[Engine(f)]
        /\ \A u \in Thread \ {Engine(e)} : pc'[u] = pc[u]
    BY DEF OthersStay
  <1>2. \A f \in Exec : ScriptLive(f)' <=> ScriptLive(f)
    BY <1>1 DEF ScriptLive
  <1>3. \A f \in Exec : f # e => /\ AtGate(f)' <=> AtGate(f)
                                 /\ Past(f)' <=> Past(f)
                                 /\ Active(f)' <=> Active(f)
                                 /\ Ahead(f)' <=> Ahead(f)
    BY <1>1, <1>2 DEF AtGate, Past, Active, Launching, Ahead
  <1>4. pc[Run(e)] = "off" /\ ~ ScriptLive(e)
    BY DEF SoloInv, NotYet, ScriptLive
  <1>5. NotYet' /\ Fresh'
    BY <1>1, <1>3, <1>4 DEF SoloInv, NotYet, Fresh
  <1>6. Snaps'
    BY <1>1 DEF SoloInv, Snaps
  <1>7. \A f \in Exec : f # e => (Past(f)' => case'.status # "paused_human")
    BY <1>3 DEF SoloInv, Unpaused
  <1> QED
    BY <1>1, <1>2, <1>3, <1>4, <1>5, <1>6, <1>7

LEMMA StartSolo ==
  ASSUME TInv, SoloInv, NEW e \in Exec, StartRun(e)
  PROVE  SoloInv'
  <1> USE Threads
  <1>1. /\ pc[Engine(e)] = "off" /\ case.status = "none" /\ case'.status = "running"
        /\ pend' = pend /\ runLock' = runLock /\ answer' = answer
        /\ OthersStay(Engine(e)) /\ pc'[Engine(e)] = "starting"
    BY EngineType DEF StartRun, TInv, TypeOK
  <1>2. runLock = <<>> /\ \A t \in Thread : pc[t] = "off"
    BY <1>1 DEF SoloInv, Fresh
  <1>3. /\ NotYet' /\ Fresh' /\ Snaps'
        /\ \A u \in Thread \ {Engine(e)} : pc'[u] = pc[u]
    BY <1>1, CallFrame DEF Ahead
  <1>4. \A f \in Exec : /\ pc'[Run(f)] = "off"
                        /\ f # e => pc'[Engine(f)] = "off"
    BY <1>2, <1>3
  <1>5. \A f \in Exec : /\ Active(f)' => f = e
                        /\ ~ AtGate(f)' /\ pc'[Engine(f)] # "queued"
    BY <1>1, <1>4 DEF Active, ScriptLive, Launching, AtGate
  <1>6. Solo' /\ GateLocked' /\ Unpaused' /\ ContinuesAlone'
    BY <1>1, <1>5 DEF Solo, GateLocked, Unpaused, ContinuesAlone
  <1> QED
    BY <1>3, <1>6 DEF SoloInv

\* The lock goes to the calls in the order of their arrival.
LEMMA Joins ==
  ASSUME runLock \in Seq(Exec), NEW e \in Exec, runLock' = Append(runLock, e)
  PROVE  runLock' # <<>> /\ Head(runLock') = IF runLock = <<>> THEN e ELSE Head(runLock)
  OBVIOUS

LEMMA BeginSolo ==
  ASSUME TInv, SoloInv, ~ EagerContinue, NEW e \in Exec,
         ContinueRun(e) \/ \E g \in Gates : ResumeRun(e, g)
  PROVE  SoloInv'
  <1> USE Threads
  <1>1. /\ pc[Engine(e)] = "off" /\ case.status # "none" /\ case' = case
        /\ pend' = pend /\ runLock' = Append(runLock, e)
        /\ OthersStay(Engine(e)) /\ pc'[Engine(e)] = "queued"
    <2>1. OthersStay(Engine(e))
      BY EngineType
    <2>2. pc \in [Thread -> Await]
      BY DEF TInv, TypeOK
    <2>3. CASE ContinueRun(e)
      BY <2>1, <2>2, <2>3 DEF ContinueRun, durable
    <2>4. CASE \E g \in Gates : ResumeRun(e, g)
      BY <2>1, <2>2, <2>4 DEF ResumeRun, durable
    <2> QED
      BY <2>3, <2>4
  <1>2. runLock' # <<>> /\ Head(runLock') = IF runLock = <<>> THEN e ELSE Head(runLock)
    BY <1>1, Joins DEF TInv, TypeOK
  <1>3. /\ NotYet' /\ Fresh' /\ Snaps'
        /\ \A f \in Exec : ScriptLive(f)' <=> ScriptLive(f)
        /\ \A f \in Exec : f # e => /\ AtGate(f)' <=> AtGate(f)
                                    /\ Past(f)' <=> Past(f)
                                    /\ Active(f)' <=> Active(f)
                                    /\ pc'[Engine(f)] = pc[Engine(f)]
        /\ ~ ScriptLive(e)
        /\ \A u \in Thread \ {Engine(e)} : pc'[u] = pc[u]
        /\ \A f \in Exec : f # e => (Past(f)' => case'.status # "paused_human")
    BY <1>1, CallFrame DEF Ahead
  <1>4. ~ AtGate(e)' /\ ~ Past(e)' /\ ~ Active(e)'
    BY <1>1, <1>3 DEF AtGate, Past, Active, Launching
  <1>5. Solo' /\ Unpaused'
    BY <1>3, <1>4 DEF SoloInv, Solo, Unpaused
  <1>6. GateLocked'
    BY <1>2, <1>3, <1>4 DEF SoloInv, GateLocked
  <1>7. Waiting(Engine(e))' /\ ~ Working(Engine(e))'
    BY <1>1 DEF Waiting, Working
  <1>8. \A t \in Thread \ {Engine(e)} : Working(t)' => Working(t)
    BY <1>3 DEF Working, Stopped, Waiting
  <1>9. ContinuesAlone'
    <2>1. CASE ContinueRun(e)
      <3>1. /\ runLock = <<>> /\ answer' = answer
            /\ \A t \in Thread \ {Killer} : Stopped(t)
        BY <2>1 DEF ContinueRun
      <3>2. \A t \in Thread \ {Killer} : ~ Working(t)'
        BY <1>7, <1>8, <3>1 DEF Working
      <3>3. \A f \in Exec : f # e => pc'[Engine(f)] # "queued"
        BY <1>3, <3>1 DEF Stopped
      <3> QED
        BY <1>2, <3>1, <3>2, <3>3 DEF ContinuesAlone
    <2>2. CASE \E g \in Gates : ResumeRun(e, g)
      <3>1. answer'[e] # None /\ \A f \in Exec : f # e => answer'[f] = answer[f]
        BY <2>2, KindAssumption DEF ResumeRun, TInv, TypeOK
      <3>2. \A f \in Exec : pc'[Engine(f)] = "queued" /\ answer'[f] = None =>
              f # e /\ pc[Engine(f)] = "queued" /\ answer[f] = None
        BY <1>3, <3>1
      <3> QED
        BY <1>2, <1>7, <1>8, <3>2 DEF SoloInv, ContinuesAlone
    <2> QED
      BY <2>1, <2>2
  <1> QED
    BY <1>3, <1>5, <1>6, <1>9 DEF SoloInv

\* A resume that gets the lock goes on when the run is paused, and then no
\* script runs and no other call is at the gate; a continueRun is alone.
LEMMA LockedSolo ==
  ASSUME TInv, SoloInv, NEW e \in Exec, Locked(e)
  PROVE  SoloInv'
  <1> USE Threads
  <1>1. /\ pc[Engine(e)] = "queued" /\ runLock # <<>> /\ Head(runLock) = e
        /\ case' = case /\ pend' = pend /\ answer' = answer
        /\ OthersStay(Engine(e))
    BY EngineType DEF Locked, durable
  <1>2. pc'[Engine(e)] = IF Refused(e) THEN "ended"
                         ELSE IF case.status = "paused_human" THEN "check" ELSE "load"
    BY LeaveType DEF Locked, TInv, TypeOK
  <1>3. ~ Refused(e) => runLock' = runLock
    BY DEF Locked
  <1>4. case.status # "none"
    BY <1>1, SomeRun
  <1>5. /\ NotYet' /\ Fresh' /\ Snaps'
        /\ \A f \in Exec : ScriptLive(f)' <=> ScriptLive(f)
        /\ \A f \in Exec : f # e => /\ AtGate(f)' <=> AtGate(f)
                                    /\ Past(f)' <=> Past(f)
                                    /\ Active(f)' <=> Active(f)
                                    /\ pc'[Engine(f)] = pc[Engine(f)]
        /\ ~ ScriptLive(e)
        /\ \A f \in Exec : f # e => (Past(f)' => case'.status # "paused_human")
    BY <1>1, <1>2, <1>4, CallFrame DEF Ahead
  <1>6. \A f \in Exec : ~ AtGate(f)
    BY <1>1 DEF SoloInv, GateLocked, AtGate
  <1>7. \A f \in Exec : f # e => ~ AtGate(f)'
    BY <1>5, <1>6
  <1>8. ContinuesAlone'
    <2> SUFFICES ASSUME NEW f \in Exec, pc'[Engine(f)] = "queued", answer[f] = None
                 PROVE  FALSE
      BY <1>1 DEF ContinuesAlone
    <2>1. f # e
      BY <1>2
    <2> QED
      BY <1>1, <1>5, <2>1 DEF SoloInv, ContinuesAlone
  <1>9. CASE Refused(e)
    <2>1. ~ AtGate(e)' /\ ~ Past(e)' /\ ~ Active(e)'
      BY <1>2, <1>5, <1>9 DEF AtGate, Past, Active, Launching
    <2>2. Solo' /\ Unpaused' /\ GateLocked'
      BY <1>5, <1>7, <2>1 DEF SoloInv, Solo, Unpaused, GateLocked
    <2> QED
      BY <1>5, <1>8, <2>2 DEF SoloInv
  <1>10. CASE ~ Refused(e) /\ case.status = "paused_human"
    <2>1. ~ Past(e)'
      BY <1>2, <1>5, <1>10 DEF Past
    <2>2. \A f \in Exec : ~ Active(f)
      BY <1>6, <1>10, ActiveParts DEF SoloInv, Unpaused
    <2>3. Solo' /\ Unpaused' /\ GateLocked'
      BY <1>1, <1>3, <1>5, <1>7, <1>10, <2>1, <2>2 DEF Solo, Unpaused, GateLocked
    <2> QED
      BY <1>5, <1>8, <2>3 DEF SoloInv
  <1>11. CASE ~ Refused(e) /\ case.status # "paused_human"
    <2>1. answer[e] = None
      BY <1>11 DEF Refused
    <2>2. \A t \in Thread \ {Killer} : ~ Working(t)
      BY <1>1, <2>1 DEF SoloInv, ContinuesAlone
    <2>3. \A f \in Exec : ~ Active(f)
      <3> SUFFICES ASSUME NEW f \in Exec PROVE ~ Active(f)
        OBVIOUS
      <3>1. ~ Working(Engine(f)) /\ ~ Working(Run(f))
        BY <2>2
      <3> QED
        BY <3>1 DEF Working, Stopped, Waiting, Active, ScriptLive, Launching
    <2>4. ~ AtGate(e)'
      BY <1>2, <1>11 DEF AtGate
    <2>5. Solo' /\ Unpaused' /\ GateLocked'
      BY <1>1, <1>5, <1>7, <1>11, <2>3, <2>4 DEF Solo, Unpaused, GateLocked
    <2> QED
      BY <1>5, <1>8, <2>5 DEF SoloInv
  <1> QED
    BY <1>9, <1>10, <1>11

LEMMA SoloStep ==
  ASSUME ~ EagerContinue, TInv, Begun, SoloInv, [Next]_vars
  PROVE  SoloInv'
  <1>1. CASE \E e \in Exec : EngineCall(e)
    BY <1>1, StartSolo, BeginSolo, LockedSolo, WorkingCallSolo DEF EngineCall, WorkingCall
  <1>2. CASE UNCHANGED vars
    BY <1>2 DEF vars, SoloInv, NotYet, Solo, Fresh, GateLocked, Unpaused, Snaps,
                ContinuesAlone, Ahead, AtGate, Past, Active, ScriptLive, Launching,
                Working, Waiting, Stopped
  <1> QED
    BY <1>1, <1>2, NextCases, ExecuteSolo, ForkSolo, WorkerSolo, UpdatingSolo, KillSolo,
       CrashSolo

LEMMA SoloInit ==
  ASSUME Init
  PROVE  SoloInv
  <1>1. \A e \in Exec : pc[Engine(e)] = "off" /\ pc[Run(e)] = "off"
    BY Threads DEF Init
  <1>2. \A t \in Thread : pc[t] = "off"
    BY DEF Init
  <1>3. \A e \in Exec : ~ AtGate(e) /\ ~ Past(e) /\ ~ Active(e)
    BY <1>1 DEF AtGate, Past, Active, ScriptLive, Launching
  <1>4. NotYet /\ Solo /\ GateLocked /\ Unpaused /\ ContinuesAlone
    BY <1>1, <1>3 DEF NotYet, Solo, GateLocked, Unpaused, ContinuesAlone
  <1>5. Fresh
    BY <1>2 DEF Init, Fresh
  <1>6. Snaps
    <2>1. \A t \in Worker : pc[t] = "off"
      BY <1>2, Threads
    <2> QED
      BY <1>1, <1>2, <2>1 DEF Snaps
  <1> QED
    BY <1>4, <1>5, <1>6 DEF SoloInv

\* Two scripts of a run never execute at once: of resumes, late branches, kills
\* and continueRuns after a crash, one starts a script, and the next only when
\* that one is over.
THEOREM OneScript == Spec => []SingleScript
  <1>1. CASE EagerContinue
    <2>1. SingleScript
      BY <1>1 DEF SingleScript
    <2> QED
      BY <2>1, PTL
  <1>2. CASE ~ EagerContinue
    <2>1. Init => SoloInv
      BY SoloInit
    <2>2. TInv /\ Begun /\ SoloInv /\ [Next]_vars => SoloInv'
      BY <1>2, SoloStep
    <2>3. SoloInv => SingleScript
      BY DEF SoloInv, Solo, Active, SingleScript
    <2> QED
      BY <2>1, <2>2, <2>3, Typed, PTL DEF Spec
  <1> QED
    BY <1>1, <1>2

-----------------------------------------------------------------------------
\* Each step is recorded once. The live script sees every result of a step of
\* the script, and it is in a step only when it saw no result for it.

IsDone(x) == x.type = "step_finished" /\ x.step \in Steps
InStep == {"mark", "read", "rename", "work", "busy", "finish", "fork", "join", "fail",
           "gate"}
SeesDone == \A e \in Exec : ScriptLive(e) =>
              \A x \in Range(journal) : IsDone(x) => x \in live[e]
NotDone == \A e \in Exec : pc[Run(e)] \in InStep =>
             \/ StepOf(Run(e)) = "done"
             \/ ~ Has(live[e], "step_finished", StepOf(Run(e)))
DoneOnce ==
  \A i, j \in DOMAIN journal :
    /\ IsDone(journal[i]) /\ IsDone(journal[j])
    /\ journal[i].step = journal[j].step
    => i = j
DoneInv == SeesDone /\ NotDone /\ DoneOnce

LEMMA OnceStays ==
  ASSUME TInv, DoneOnce, NEW x \in JournalEntry, AppendJournal(x),
         IsDone(x) => \A y \in Range(journal) : IsDone(y) => y.step # x.step
  PROVE  DoneOnce'
  <1>1. journal \in Seq(JournalEntry)
    BY DEF TInv, TypeOK
  <1>2. /\ DOMAIN journal' = DOMAIN journal \cup {Len(journal) + 1}
        /\ \A i \in DOMAIN journal : journal'[i] = journal[i]
        /\ journal'[Len(journal) + 1] = x
    BY <1>1, JournalGrows
  <1>3. \A i \in DOMAIN journal : journal[i] \in Range(journal)
    BY DEF Range
  <1> QED
    BY <1>2, <1>3 DEF DoneOnce, IsDone

\* Nothing a live script sees or records changes.
LEMMA DoneFrame ==
  ASSUME TInv, DoneInv, live' = live, at' = at,
         \A e \in Exec : /\ ScriptLive(e)' => ScriptLive(e)
                         /\ pc'[Run(e)] \in InStep => pc[Run(e)] \in InStep,
         \/ journal' = journal
         \/ \E x \in JournalEntry : AppendJournal(x) /\ x.type # "step_finished"
  PROVE  DoneInv'
  <1>1. journal \in Seq(JournalEntry)
    BY DEF TInv, TypeOK
  <1>2. NotDone'
    BY SamePlace DEF DoneInv, NotDone, Has
  <1>3. \A x \in Range(journal') : IsDone(x) => x \in Range(journal)
    BY <1>1, JournalGrows DEF IsDone
  <1>4. SeesDone'
    BY <1>3 DEF DoneInv, SeesDone, IsDone
  <1>5. DoneOnce'
    <2>1. CASE journal' = journal
      BY <2>1 DEF DoneInv, DoneOnce, IsDone
    <2>2. CASE \E x \in JournalEntry : AppendJournal(x) /\ x.type # "step_finished"
      BY <2>2, OnceStays DEF DoneInv, IsDone
    <2> QED
      BY <2>1, <2>2
  <1> QED
    BY <1>2, <1>4, <1>5 DEF DoneInv

LEMMA WorkerAppends ==
  ASSUME TInv, NEW t \in Worker, WorkerStep(t)
  PROVE  \/ journal' = journal /\ live' = live
         \/ \E x \in JournalEntry :
              /\ AppendLive(t[1], x) /\ x.step = StepOf(t)
              /\ x.type = "step_finished" <=> FinishStep(t)
  <1>1. StepOf(t) \in Steps \cup Branch \cup {"done"} /\ t[1] \in Exec
    BY StepOfType, Threads DEF TInv, TypeOK
  <1>2. ASSUME NEW type \in {"step_started", "step_finished", "step_failed", "gate_opened"},
               NEW val \in Exec \cup {None}
        PROVE  /\ Entry(type, StepOf(t), val) \in JournalEntry
               /\ Entry(type, StepOf(t), val).type = type
               /\ Entry(type, StepOf(t), val).step = StepOf(t)
    BY <1>1 DEF Entry, JournalEntry, EntryType
  <1>3. CASE BeginStep(t) \/ CallExecutor(t) \/ ExecutorReturns(t) \/ ExecutorThrows(t)
             \/ \E e \in Exec : t = Run(e) /\ Join(e)
    BY <1>3 DEF BeginStep, CallExecutor, ExecutorReturns, ExecutorThrows, Join, durable
  <1>4. CASE StepStarted(t) \/ FailStep(t)
    <2>1. ~ FinishStep(t)
      BY <1>4 DEF StepStarted, FailStep, FinishStep
    <2> QED
      BY <1>1, <1>2, <1>4, <2>1 DEF StepStarted, FailStep
  <1>5. CASE FinishStep(t)
    BY <1>1, <1>2, <1>5 DEF FinishStep
  <1>6. CASE \E e \in Exec : t = Run(e) /\ OpenGate(e)
    <2>1. ~ FinishStep(t)
      BY <1>6 DEF OpenGate, FinishStep
    <2>2. PICK e \in Exec : t = Run(e) /\ OpenGate(e)
      BY <1>6
    <2>3. t[1] = e
      BY <2>2, Threads
    <2> QED
      BY <1>2, <2>1, <2>2, <2>3 DEF OpenGate
  <1> QED
    BY <1>3, <1>4, <1>5, <1>6 DEF WorkerStep

\* The script is in a step after an action: it was, and goes on, or has begun it.
LEMMA RunGoesOn ==
  ASSUME TInv, NEW e \in Exec, WorkerStep(Run(e)), pc'[Run(e)] \in InStep
  PROVE  /\ at' = at /\ ~ FinishStep(Run(e))
         /\ \/ pc[Run(e)] \in InStep
            \/ StepOf(Run(e)) = "done"
            \/ ~ Has(live[e], "step_finished", StepOf(Run(e)))
  <1> USE Threads
  <1> DEFINE t == Run(e)
             s == StepOf(t)
  <1>1. /\ t \in Thread /\ t \in Worker /\ t[1] = e
        /\ pc \in [Thread -> Await] /\ pend \in [Thread -> Update]
    BY DEF TInv, TypeOK
  <1>2. ~ NextStep(t)
    BY NextStepType DEF InStep
  <1>3. pc[t] = "fail" => pend[t].then \in {"failed", "killed"}
    BY <1>1 DEF TInv, Place, WorkerPlace
  <1>4. ~ FinishStep(t)
    BY <1>2 DEF FinishStep
  <1>5. ~ FailStep(t)
    <2>1. FailStep(t) => pc'[t] \in {"failed", "killed"}
      BY <1>1, <1>2, <1>3 DEF FailStep
    <2> QED
      BY <2>1 DEF InStep
  <1>6. CASE BeginStep(t)
    <2>1. \/ pc' = [pc EXCEPT ![t] = IF IsKilled THEN "killed" ELSE "failed"]
          \/ ~ Cached(live[e], s) /\ at' = at
          \/ s = "done" /\ at' = at
      BY <1>1, <1>2, <1>6 DEF BeginStep, s
    <2>2. pc'[t] \notin {"killed", "failed"}
      BY DEF InStep
    <2> QED
      BY <1>1, <1>4, <2>1, <2>2 DEF Cached
  <1>7. CASE StepStarted(t) \/ CallExecutor(t) \/ ExecutorReturns(t) \/ ExecutorThrows(t)
             \/ \E f \in Exec : t = Run(f) /\ (OpenGate(f) \/ Join(f))
    BY <1>4, <1>7 DEF StepStarted, CallExecutor, ExecutorReturns, ExecutorThrows, OpenGate,
                      Join, InStep
  <1> QED
    BY <1>4, <1>5, <1>6, <1>7 DEF WorkerStep

LEMMA WorkerDone ==
  ASSUME TInv, SoloInv, DoneInv, NEW t \in Worker, WorkerStep(t)
  PROVE  DoneInv'
  <1> USE Threads
  <1> DEFINE e == t[1]
             s == StepOf(t)
  <1>1. /\ journal \in Seq(JournalEntry) /\ live \in [Exec -> SUBSET JournalEntry]
        /\ at \in [Exec -> 1..(Len(Script) + 1)] /\ e \in Exec
        /\ \A f \in Exec : Run(f) = t => f = e
    BY DEF TInv, TypeOK
  <1>2. /\ OthersStay(t) /\ \A u \in Thread \ {t} : StepOf(u)' = StepOf(u)
    BY WorkerType DEF WorkerStep
  <1>3. s \in Branch \/ t = Run(e)
    BY DEF StepOf
  <1>4. pc[t] \in {"begin", "mark", "work", "busy", "finish", "fail", "gate", "join"}
    BY WorkerQuiet
  <1>5. /\ Steps \cap Branch = {} /\ "done" \notin Steps \cup Branch
        /\ \A f \in Exec : StepOf(Run(f)) \in Steps \cup {"done"}
    BY <1>1, StepOfType, KindAssumption DEF Steps
  <1> HIDE DEF s
  <1>6. \A f \in Exec : Run(f) = t => ScriptLive(f)
    BY <1>4 DEF ScriptLive, Terminal
  <1>7. \A f \in Exec : ScriptLive(f)' => ScriptLive(f)
    <2> SUFFICES ASSUME NEW f \in Exec, ScriptLive(f)' PROVE ScriptLive(f)
      OBVIOUS
    <2>1. CASE Run(f) # t
      BY <1>2, <2>1 DEF OthersStay, ScriptLive
    <2> QED
      BY <1>6, <2>1
  <1>8. CASE journal' = journal /\ live' = live
    <2>1. SeesDone' /\ DoneOnce'
      BY <1>7, <1>8 DEF DoneInv, SeesDone, DoneOnce, IsDone
    <2>2. NotDone'
      <3> SUFFICES ASSUME NEW f \in Exec, pc'[Run(f)] \in InStep
                   PROVE  \/ StepOf(Run(f))' = "done"
                          \/ ~ Has(live[f], "step_finished", StepOf(Run(f))')
        BY <1>8 DEF NotDone, Has
      <3>1. CASE Run(f) = t
        <4>1. at' = at /\ \/ pc[t] \in InStep
                          \/ StepOf(t) = "done"
                          \/ ~ Has(live[f], "step_finished", StepOf(t))
          BY <3>1, RunGoesOn
        <4> QED
          BY <3>1, <4>1, SamePlace DEF DoneInv, NotDone
      <3>2. CASE Run(f) # t
        BY <1>2, <3>2 DEF OthersStay, DoneInv, NotDone
      <3> QED
        BY <3>1, <3>2
    <2> QED
      BY <2>1, <2>2 DEF DoneInv
  <1>9. ASSUME NEW x \in JournalEntry, AppendLive(e, x), x.step = s,
               x.type = "step_finished" <=> FinishStep(t)
        PROVE  DoneInv'
    <2>1. /\ AppendJournal(x) /\ Range(journal') = Range(journal) \cup {x}
          /\ live'[e] = live[e] \cup {x} /\ \A f \in Exec : f # e => live'[f] = live[f]
      BY <1>1, <1>9, JournalGrows DEF AppendLive
    <2>2. IsDone(x) => t = Run(e) /\ FinishStep(t) /\ s \in Steps
      BY <1>3, <1>5, <1>9 DEF IsDone
    <2>3. SeesDone'
      <3> SUFFICES ASSUME NEW f \in Exec, ScriptLive(f)', NEW y \in Range(journal'), IsDone(y)
                   PROVE  y \in live'[f]
        BY DEF SeesDone, IsDone
      <3>1. ScriptLive(f)
        BY <1>7
      <3>2. CASE y \in Range(journal)
        BY <2>1, <3>1, <3>2 DEF DoneInv, SeesDone
      <3>3. CASE y = x
        <4>1. Active(e) /\ Active(f)
          BY <1>6, <2>2, <3>1, <3>3 DEF Active
        <4>2. f = e
          BY <1>1, <4>1 DEF SoloInv, Solo
        <4> QED
          BY <2>1, <3>3, <4>2
      <3> QED
        BY <2>1, <3>2, <3>3
    <2>4. DoneOnce'
      <3> SUFFICES ASSUME IsDone(x), NEW y \in Range(journal), IsDone(y), y.step = x.step
                   PROVE  FALSE
        BY <2>1, OnceStays DEF DoneInv
      <3>1. /\ t = Run(e) /\ FinishStep(t) /\ s \in Steps /\ ScriptLive(e)
        BY <1>1, <1>6, <2>2
      <3>2. pc[Run(e)] \in InStep /\ StepOf(Run(e)) = s
        BY <3>1 DEF FinishStep, InStep, s
      <3>3. ~ Has(live[e], "step_finished", s)
        BY <1>1, <1>5, <3>1, <3>2 DEF DoneInv, NotDone
      <3>4. y \in live[e]
        BY <1>1, <3>1 DEF DoneInv, SeesDone
      <3> QED
        BY <1>9, <3>3, <3>4 DEF Has, IsDone
    <2>5. NotDone'
      <3> SUFFICES ASSUME NEW f \in Exec, pc'[Run(f)] \in InStep
                   PROVE  \/ StepOf(Run(f))' = "done"
                          \/ ~ Has(live'[f], "step_finished", StepOf(Run(f))')
        BY DEF NotDone, Has
      <3>1. CASE Run(f) = t
        <4>1. /\ at' = at /\ ~ FinishStep(t)
              /\ \/ pc[t] \in InStep
                 \/ StepOf(t) = "done"
                 \/ ~ Has(live[f], "step_finished", StepOf(t))
          BY <3>1, RunGoesOn
        <4>2. f = e /\ StepOf(Run(f))' = StepOf(t)
          BY <1>1, <3>1, <4>1, SamePlace
        <4>3. StepOf(t) = "done" \/ ~ Has(live[f], "step_finished", StepOf(t))
          BY <3>1, <4>1 DEF DoneInv, NotDone
        <4> QED
          BY <1>9, <2>1, <4>1, <4>2, <4>3 DEF Has
      <3>2. CASE Run(f) # t
        <4>1. /\ pc[Run(f)] \in InStep /\ StepOf(Run(f))' = StepOf(Run(f))
          BY <1>2, <3>2 DEF OthersStay
        <4>2. StepOf(Run(f)) = "done" \/ ~ Has(live[f], "step_finished", StepOf(Run(f)))
          BY <4>1 DEF DoneInv, NotDone
        <4>3. f = e => s \in Branch
          BY <1>3, <3>2
        <4>4. f = e => x.step # StepOf(Run(f))
          BY <1>5, <1>9, <4>3
        <4> QED
          BY <2>1, <4>1, <4>2, <4>4 DEF Has
      <3> QED
        BY <3>1, <3>2
    <2> QED
      BY <2>3, <2>4, <2>5 DEF DoneInv
  <1> QED
    BY <1>8, <1>9, WorkerAppends DEF s

LEMMA DoneStep ==
  ASSUME TInv, Begun, SoloInv, DoneInv, [Next]_vars
  PROVE  DoneInv'
  <1> USE Threads
  <1>1. \A type \in {"run_started", "run_finished"} :
          Entry(type, None, None) \in JournalEntry /\ Entry(type, None, None).type = type
    BY DEF Entry, JournalEntry, EntryType
  <1>2. CASE \E e \in Exec : EngineCall(e)
    <2>1. PICK e \in Exec : EngineCall(e)
      BY <1>2
    <2>2. live' = live /\ at' = at
      BY <2>1 DEF EngineCall, StartRun, RunStarted, ContinueRun, Locked, CheckGate,
                  ResolveGate, FlipStatus, Settled, TimeLimit, RunFinished, ResumeRun
    <2>3. pc[Engine(e)] = "resolve" => gate[e] \in Gates /\ answer[e] \in Gates \cup {None}
      BY DEF TInv, GateKnown, TypeOK
    <2>4. pc[Engine(e)] = "resolve" =>
            /\ Entry("gate_resolved", gate[e], answer[e]) \in JournalEntry
            /\ Entry("gate_resolved", gate[e], answer[e]).type # "step_finished"
      BY <2>3 DEF Entry, JournalEntry, EntryType, Steps
    <2>5. \/ journal' = journal
          \/ \E x \in JournalEntry : AppendJournal(x) /\ x.type # "step_finished"
      BY <1>1, <2>1, <2>4
         DEF EngineCall, StartRun, RunStarted, ContinueRun, Locked, CheckGate,
             ResolveGate, FlipStatus, Settled, TimeLimit, RunFinished, ResumeRun, durable
    <2>6. \A f \in Exec : pc'[Run(f)] = pc[Run(f)]
      BY <2>1, EngineType DEF EngineCall, OthersStay
    <2> QED
      BY <2>2, <2>5, <2>6, DoneFrame DEF ScriptLive
  <1>3. CASE \E e \in Exec : Execute(e)
    <2>1. PICK e \in Exec : Execute(e)
      BY <1>3
    <2>2. /\ journal' = journal /\ at' = at /\ live' = [live EXCEPT ![e] = Range(journal)]
          /\ pc[Engine(e)] = "load"
      BY <2>1 DEF Execute, durable
    <2>3. /\ pc'[Run(e)] = "begin"
          /\ \A f \in Exec : f # e => pc'[Run(f)] = pc[Run(f)] /\ live'[f] = live[f]
          /\ live'[e] = Range(journal) /\ \A u : StepOf(u)' = StepOf(u)
      BY <2>1, <2>2, ExecuteType DEF TInv, TypeOK
    <2>4. SeesDone' /\ DoneOnce'
      BY <2>2, <2>3 DEF DoneInv, SeesDone, ScriptLive, DoneOnce, IsDone
    <2>5. NotDone'
      BY <2>3 DEF DoneInv, NotDone, InStep
    <2> QED
      BY <2>4, <2>5 DEF DoneInv
  <1>4. CASE \E e \in Exec : Fork(e)
    <2>1. PICK e \in Exec : Fork(e)
      BY <1>4
    <2>2. live' = live /\ at' = at /\ journal' = journal /\ pc[Run(e)] = "fork"
      BY <2>1 DEF Fork, durable
    <2>3. \A f \in Exec : f # e => pc'[Run(f)] = pc[Run(f)]
      BY <2>1, ForkType
    <2>4. \A f \in Exec : /\ ScriptLive(f)' => ScriptLive(f)
                          /\ pc'[Run(f)] \in InStep => pc[Run(f)] \in InStep
      <3> SUFFICES ASSUME NEW f \in Exec
                   PROVE  /\ ScriptLive(f)' => ScriptLive(f)
                          /\ pc'[Run(f)] \in InStep => pc[Run(f)] \in InStep
        OBVIOUS
      <3>1. CASE f = e
        BY <2>2, <3>1 DEF ScriptLive, InStep, Terminal
      <3>2. CASE f # e
        BY <2>3, <3>2 DEF ScriptLive
      <3> QED
        BY <3>1, <3>2
    <2> QED
      BY <2>2, <2>4, DoneFrame
  <1>5. CASE \E t \in Worker : WorkerStep(t)
    BY <1>5, WorkerDone
  <1>6. CASE \E t \in Thread : Updating(t)
    <2>1. PICK t \in Thread : Updating(t)
      BY <1>6
    <2>2. pc[t] \in {"read", "rename"} /\ OthersStay(t)
      BY <2>1, UpdatingFacts
    <2>3. live' = live /\ at' = at /\ journal' = journal
      BY <2>1 DEF Updating, ReadCase, WriteCase, durable
    <2>4. \A f \in Exec : /\ ScriptLive(f)' => ScriptLive(f)
                          /\ pc'[Run(f)] \in InStep => pc[Run(f)] \in InStep
      <3> SUFFICES ASSUME NEW f \in Exec
                   PROVE  /\ ScriptLive(f)' => ScriptLive(f)
                          /\ pc'[Run(f)] \in InStep => pc[Run(f)] \in InStep
        OBVIOUS
      <3>1. CASE Run(f) = t
        BY <2>2, <3>1 DEF ScriptLive, InStep, Terminal
      <3>2. CASE Run(f) # t
        BY <2>2, <3>2 DEF OthersStay, ScriptLive
      <3> QED
        BY <3>1, <3>2
    <2> QED
      BY <2>3, <2>4, DoneFrame
  <1>7. CASE KillCall
    <2>1. live' = live /\ at' = at
      BY <1>7 DEF KillCall, KillRun, KillFile, KillFinished
    <2>2. \/ journal' = journal
          \/ \E x \in JournalEntry : AppendJournal(x) /\ x.type # "step_finished"
      BY <1>1, <1>7 DEF KillCall, KillRun, KillFile, KillFinished, durable
    <2>3. \A f \in Exec : pc'[Run(f)] = pc[Run(f)]
      BY <1>7, KillType DEF KillCall, OthersStay
    <2> QED
      BY <2>1, <2>2, <2>3, DoneFrame DEF ScriptLive
  <1>8. CASE Crash
    <2>1. /\ journal' = journal
          /\ \A e \in Exec : pc'[Run(e)] = IF pc[Engine(e)] = "off" THEN pc[Run(e)] ELSE "ended"
      BY <1>8 DEF Crash, durable
    <2>2. \A e \in Exec : pc'[Run(e)] \in {"off", "ended"}
      BY <2>1 DEF Begun
    <2> QED
      BY <2>1, <2>2 DEF DoneInv, SeesDone, NotDone, DoneOnce, IsDone, ScriptLive, InStep
  <1>9. CASE UNCHANGED vars
    <2>1. live' = live /\ at' = at /\ journal' = journal /\ pc' = pc
      BY <1>9 DEF vars
    <2> QED
      BY <2>1, DoneFrame DEF ScriptLive
  <1> QED
    BY <1>2, <1>3, <1>4, <1>5, <1>6, <1>7, <1>8, <1>9, NextCases

\* A step of the script is recorded once, so every later replay gives the
\* script the result that it went on with.
THEOREM StepsRecordedOnce == Spec => []RecordedOnce
  <1>1. CASE EagerContinue
    <2>1. RecordedOnce
      BY <1>1 DEF RecordedOnce
    <2> QED
      BY <2>1, PTL
  <1>2. CASE ~ EagerContinue
    <2>1. Init => SoloInv /\ DoneInv
      <3> SUFFICES ASSUME Init PROVE SoloInv /\ DoneInv
        OBVIOUS
      <3>1. Range(journal) = {} /\ DOMAIN journal = {}
        BY DEF Init, Range
      <3>2. \A e \in Exec : pc[Run(e)] = "off"
        BY Threads DEF Init
      <3> QED
        BY <3>1, <3>2, SoloInit DEF DoneInv, SeesDone, NotDone, DoneOnce, ScriptLive, InStep
    <2>2. TInv /\ Begun /\ SoloInv /\ DoneInv /\ [Next]_vars => SoloInv' /\ DoneInv'
      BY <1>2, SoloStep, DoneStep
    <2>3. DoneInv => RecordedOnce
      BY DEF DoneInv, DoneOnce, IsDone, RecordedOnce
    <2> QED
      BY <2>1, <2>2, <2>3, Typed, PTL DEF Spec
  <1> QED
    BY <1>1, <1>2

-----------------------------------------------------------------------------
\* Open gates. While one is open nothing works on the run but the script that
\* opened it, which is about to pause it, or the resume that found it.

Quiet == {"off", "ended", "joined"} \cup Terminal
Opened == \E i \in DOMAIN journal : OpenGateAt(i)
Opening(e) == pc[Run(e)] \in {"read", "rename"} /\ pend[Run(e)].then = "suspended"

\* Without a crash the first script of a run stays in the process, and so no
\* continueRun gets to the run.
StillThere == case.status # "none" =>
  \E e \in Exec : pc[Engine(e)] \in {"starting", "load"} \/ pc[Run(e)] \notin {"off", "ended"}
NoContinue == \A e \in Exec : pc[Engine(e)] = "queued" => answer[e] # None
\* A script that is over is the last one, and nothing pauses its run.
Over == \A e \in Exec : pc[Run(e)] \in Terminal =>
  case.status # "paused_human" /\ \A f \in Exec : ~ Active(f)
Empty == case.status = "none" => journal = <<>>
\* A branch works for a fork that its script is at, or that failed the script.
BranchIn == \A t \in Worker : t[2] \in Branch /\ pc[t] \notin Quiet =>
  \/ pc[Run(t[1])] \in {"fail"} \cup Terminal
  \/ pc[Run(t[1])] = "join" /\ t[2] \in BranchOf[StepOf(Run(t[1]))]
ResolvesOpened ==
  \A e \in Exec : pc[Engine(e)] = "resolve" => Has(Range(journal), "gate_opened", gate[e])
OneOpen == \A i, j \in DOMAIN journal :
  OpenGateAt(i) /\ OpenGateAt(j) => journal[i].step = journal[j].step
WhileOpen == Opened =>
  /\ \A e \in Exec : ScriptLive(e) => Opening(e)
  /\ \A e \in Exec : Launching(e) => pc[Engine(e)] \in {"check", "resolve"}
  /\ \A t \in Worker : t[2] \in Branch => pc[t] \in Quiet
  /\ case.status \in {"paused_human"} \cup Terminal \/ \E e \in Exec : Opening(e)
AnswerInv ==
  /\ StillThere /\ NoContinue /\ Over /\ Empty /\ BranchIn /\ ResolvesOpened
  /\ OneOpen /\ WhileOpen

\* Only a gate_opened entry opens a gate.
LEMMA OpenedBefore ==
  ASSUME TInv, \/ journal' = journal
               \/ \E x \in JournalEntry : AppendJournal(x) /\ x.type # "gate_opened"
  PROVE  /\ Opened' => Opened
         /\ OneOpen => OneOpen'
         /\ \A type, g : Has(Range(journal), type, g) => Has(Range(journal'), type, g)
  <1>1. journal \in Seq(JournalEntry)
    BY DEF TInv, TypeOK
  <1>2. CASE journal' = journal
    BY <1>2 DEF Opened, OneOpen, OpenGateAt
  <1>3. ASSUME NEW x \in JournalEntry, AppendJournal(x), x.type # "gate_opened"
        PROVE  /\ Opened' => Opened
               /\ OneOpen => OneOpen'
               /\ \A type, g : Has(Range(journal), type, g) => Has(Range(journal'), type, g)
    <2>1. /\ DOMAIN journal' = DOMAIN journal \cup {Len(journal) + 1}
          /\ \A i \in DOMAIN journal : journal'[i] = journal[i]
          /\ journal'[Len(journal) + 1] = x
          /\ Range(journal') = Range(journal) \cup {x}
      BY <1>1, <1>3, JournalGrows
    <2>2. \A type, g : Has(Range(journal), type, g) => Has(Range(journal'), type, g)
      BY <2>1 DEF Has
    <2>3. \A i \in DOMAIN journal' : OpenGateAt(i)' =>
            i \in DOMAIN journal /\ OpenGateAt(i) /\ journal'[i] = journal[i]
      BY <1>3, <2>1, <2>2 DEF OpenGateAt
    <2> QED
      BY <2>2, <2>3 DEF Opened, OneOpen
  <1> QED
    BY <1>2, <1>3

\* A step after which no more is going on than before.
LEMMA AnswerFrame ==
  ASSUME TInv, AnswerInv,
         \A g : Has(Range(journal), "gate_opened", g) => Has(Range(journal'), "gate_opened", g),
         case'.status # "none", StillThere', BranchIn', OneOpen', WhileOpen',
         \A e \in Exec : /\ Active(e)' => Active(e)
                         /\ pc'[Engine(e)] = "queued" =>
                              pc[Engine(e)] = "queued" /\ answer'[e] = answer[e]
                         /\ pc'[Engine(e)] = "resolve" =>
                              \/ pc[Engine(e)] = "resolve" /\ gate'[e] = gate[e]
                              \/ Has(Range(journal'), "gate_opened", gate'[e])
                         /\ pc'[Run(e)] \in Terminal =>
                              \/ pc[Run(e)] \in Terminal
                              \/ ScriptLive(e) /\ case' = case,
         case'.status = "paused_human" => \/ case.status = "paused_human"
                                          \/ \E e \in Exec : Active(e),
         SoloInv, SoloInv'
  PROVE  AnswerInv'
  <1>1. NoContinue'
    BY DEF AnswerInv, NoContinue
  <1>2. Over'
    <2> SUFFICES ASSUME NEW e \in Exec, pc'[Run(e)] \in Terminal
                 PROVE  case'.status # "paused_human" /\ \A f \in Exec : ~ Active(f)'
      BY DEF Over
    <2>1. CASE pc[Run(e)] \in Terminal
      BY <2>1 DEF AnswerInv, Over
    <2>2. CASE ScriptLive(e) /\ case' = case
      <3>1. case.status # "paused_human" /\ \A f \in Exec : Active(f) => f = e
        BY <2>2 DEF SoloInv, Unpaused, Past, Solo, Active
      <3>2. pc'[Run(e)] # "off"
        BY DEF Terminal
      <3>3. ~ Ahead(e)' /\ ~ ScriptLive(e)'
        BY <3>2 DEF SoloInv, NotYet, ScriptLive
      <3>4. ~ Active(e)'
        BY <3>3 DEF Active, Launching, Ahead
      <3> QED
        BY <2>2, <3>1, <3>4
    <2> QED
      BY <2>1, <2>2
  <1>3. ResolvesOpened'
    BY DEF AnswerInv, ResolvesOpened
  <1>4. Empty'
    BY DEF Empty
  <1> QED
    BY <1>1, <1>2, <1>3, <1>4 DEF AnswerInv

\* What a step of the script or of a branch leaves alone.
LEMMA WorkerKeeps ==
  ASSUME TInv, SoloInv, NEW t \in Worker, WorkerStep(t)
  PROVE  /\ \A e \in Exec : /\ pc'[Engine(e)] = pc[Engine(e)]
                            /\ Launching(e)' <=> Launching(e)
                            /\ ScriptLive(e)' => ScriptLive(e)
                            /\ Active(e)' => Active(e)
                            /\ Run(e) = t => ScriptLive(e)
         /\ gate' = gate /\ crashes' = crashes
  <1> USE Threads
  <1>1. /\ pc[t] \in {"begin", "mark", "work", "busy", "finish", "fail", "gate", "join"}
        /\ OthersStay(t)
    BY WorkerQuiet
  <1>2. \A e \in Exec : /\ pc'[Engine(e)] = pc[Engine(e)]
                        /\ pend'[Engine(e)] = pend[Engine(e)]
                        /\ Run(e) # t => pc'[Run(e)] = pc[Run(e)]
    BY <1>1 DEF OthersStay
  <1>3. \A e \in Exec : Run(e) = t => ScriptLive(e)
    BY <1>1 DEF ScriptLive, Terminal
  <1>4. \A e \in Exec : ScriptLive(e)' => ScriptLive(e)
    <2> SUFFICES ASSUME NEW e \in Exec, ScriptLive(e)' PROVE ScriptLive(e)
      OBVIOUS
    <2>1. CASE Run(e) # t
      BY <1>2, <2>1 DEF ScriptLive
    <2> QED
      BY <1>3, <2>1
  <1>5. \A e \in Exec : Launching(e)' <=> Launching(e)
    BY <1>2 DEF Launching
  <1>6. gate' = gate /\ crashes' = crashes
    BY DEF WorkerStep, BeginStep, StepStarted, CallExecutor, ExecutorReturns,
           ExecutorThrows, FinishStep, FailStep, OpenGate, Join
  <1> QED
    BY <1>2, <1>3, <1>4, <1>5, <1>6 DEF Active

\* A script at a join leaves it when its branches have joined, or one threw.
LEMMA ScriptLeaves ==
  ASSUME Caught = {}, TInv, NEW e \in Exec, WorkerStep(Run(e))
  PROVE  /\ pc[Run(e)] = "join" =>
              \/ pc'[Run(e)] = "fail"
              \/ \A b \in BranchOf[StepOf(Run(e))] : pc[<<e, b>>] = "joined"
         /\ pc[Run(e)] = "fail" => pc'[Run(e)] \in Terminal
  <1> USE Threads
  <1> DEFINE t == Run(e)
  <1>1. t \in Thread /\ t[1] = e /\ pc \in [Thread -> Await]
    BY DEF TInv, TypeOK
  <1>2. pc[t] = "join" => Join(e)
    BY DEF WorkerStep, BeginStep, StepStarted, CallExecutor, ExecutorReturns,
           ExecutorThrows, FinishStep, FailStep, OpenGate
  <1>3. Join(e) => \/ pc'[t] = "fail"
                   \/ \A b \in BranchOf[StepOf(t)] : pc[<<e, b>>] = "joined"
    BY <1>1 DEF Join
  <1>4. pc[t] = "fail" => FailStep(t)
    BY DEF WorkerStep, BeginStep, StepStarted, CallExecutor, ExecutorReturns,
           ExecutorThrows, FinishStep, OpenGate, Join
  <1>5. pc[t] = "fail" => pend[t].then \in {"failed", "killed"}
    BY DEF TInv, Place, WorkerPlace
  <1>6. FailStep(t) => pc' = [pc EXCEPT ![t] = pend[t].then]
    BY DEF FailStep, Catches
  <1> QED
    BY <1>1, <1>2, <1>3, <1>4, <1>5, <1>6 DEF Terminal

LEMMA WorkerBranches ==
  ASSUME Caught = {}, TInv, SoloInv, AnswerInv, NEW t \in Worker, WorkerStep(t)
  PROVE  BranchIn'
  <1> USE Threads
  <1>1. /\ pc[t] \in {"begin", "mark", "work", "busy", "finish", "fail", "gate", "join"}
        /\ OthersStay(t)
    BY WorkerQuiet
  <1>2. \A u \in Thread \ {t} : StepOf(u)' = StepOf(u)
    BY WorkerType DEF WorkerStep
  <1> SUFFICES ASSUME NEW u \in Worker, u[2] \in Branch, pc'[u] \notin Quiet
               PROVE  \/ pc'[Run(u[1])] \in {"fail"} \cup Terminal
                      \/ /\ pc'[Run(u[1])] = "join"
                         /\ u[2] \in BranchOf[StepOf(Run(u[1]))']
    BY DEF BranchIn
  <1>3. pc[u] \notin Quiet
    BY <1>1 DEF OthersStay, Quiet, Terminal
  <1>4. \/ pc[Run(u[1])] \in {"fail"} \cup Terminal
        \/ pc[Run(u[1])] = "join" /\ u[2] \in BranchOf[StepOf(Run(u[1]))]
    BY <1>3 DEF AnswerInv, BranchIn
  <1>5. CASE t # Run(u[1])
    BY <1>1, <1>2, <1>4, <1>5 DEF OthersStay
  <1>6. CASE t = Run(u[1])
    <2>1. u = <<u[1], u[2]>>
      BY DEF Worker
    <2>2. pc[t] = "join" => pc'[t] = "fail"
      <3>1. pc[t] = "join" => u[2] \in BranchOf[StepOf(t)]
        BY <1>4, <1>6 DEF Terminal
      <3> QED
        BY <1>3, <1>6, <2>1, <3>1, ScriptLeaves DEF Quiet
    <2>3. pc[t] = "fail" => pc'[t] \in Terminal
      BY <1>6, ScriptLeaves
    <2> QED
      BY <1>1, <1>4, <1>6, <2>2, <2>3 DEF Terminal
  <1> QED
    BY <1>5, <1>6

LEMMA WorkerOpens ==
  ASSUME Caught = {}, TInv, SoloInv, AnswerInv, NEW t \in Worker, WorkerStep(t)
  PROVE  ~ Opened
  <1>1. pc[t] \in {"begin", "mark", "work", "busy", "finish", "fail", "gate", "join"}
    BY WorkerQuiet
  <1>2. CASE t = Run(t[1])
    BY <1>1, <1>2, WorkerKeeps, Threads DEF AnswerInv, WhileOpen, Opening
  <1>3. CASE t[2] \in Branch
    BY <1>1, <1>3 DEF AnswerInv, WhileOpen, Quiet, Terminal
  <1> QED
    BY <1>2, <1>3, Threads

\* The script opens a gate: no branch works, and no other call.
LEMMA OpensGate ==
  ASSUME Caught = {}, TInv, SoloInv, AnswerInv, NEW e \in Exec, OpenGate(e)
  PROVE  WhileOpen' /\ OneOpen'
  <1> USE Threads
  <1> DEFINE t == Run(e)
  <1>1. t \in Worker /\ WorkerStep(t) /\ pc[t] = "gate"
    BY DEF WorkerStep, OpenGate
  <1>2. ~ Opened
    BY <1>1, WorkerOpens
  <1>3. Opening(e)' /\ OthersStay(t)
    <2>1. "paused_human" \in Status /\ "suspended" \in Await /\ t \in Thread
      BY DEF Status, Await
    <2>2. BeginUpdate(t, "paused_human", {}, "suspended")
      BY DEF OpenGate
    <2> QED
      BY <2>1, <2>2, Updates DEF Opening
  <1>4. ScriptLive(e) /\ pc[t] # "off"
    BY <1>1 DEF ScriptLive, Terminal
  <1>5. \A f \in Exec : Active(f) => f = e
    BY <1>4 DEF SoloInv, Solo, Active
  <1>6. \A f \in Exec : ScriptLive(f)' => Opening(f)'
    BY <1>1, <1>3, <1>5, WorkerKeeps DEF Active
  <1>7. \A f \in Exec : ~ Launching(f)'
    <2> SUFFICES ASSUME NEW f \in Exec, Launching(f)' PROVE FALSE
      OBVIOUS
    <2>1. Launching(f) /\ f = e
      BY <1>1, <1>5, WorkerKeeps DEF Active
    <2> QED
      BY <1>4, <2>1 DEF SoloInv, NotYet, Ahead, Launching
  <1>8. \A u \in Worker : u[2] \in Branch => pc'[u] \in Quiet
    <2> SUFFICES ASSUME NEW u \in Worker, u[2] \in Branch, pc'[u] \notin Quiet
                 PROVE  FALSE
      OBVIOUS
    <2>1. u # t
      BY KindAssumption DEF Run
    <2>2. pc[u] \notin Quiet
      BY <1>3, <2>1 DEF OthersStay
    <2>3. pc[Run(u[1])] \in {"fail", "join"} \cup Terminal
      BY <2>2 DEF AnswerInv, BranchIn
    <2>4. CASE pc[Run(u[1])] \in Terminal
      <3>1. ~ Active(e)
        BY <2>4 DEF AnswerInv, Over
      <3> QED
        BY <1>4, <3>1 DEF Active
    <2>5. CASE pc[Run(u[1])] \in {"fail", "join"}
      <3>1. ScriptLive(u[1])
        BY <2>5 DEF ScriptLive, Terminal
      <3>2. u[1] = e
        BY <1>5, <3>1 DEF Active
      <3> QED
        BY <1>1, <2>5, <3>2
    <2> QED
      BY <2>3, <2>4, <2>5
  <1>9. OneOpen'
    <2>1. \/ journal' = journal
          \/ \E x \in JournalEntry : AppendJournal(x)
      BY <1>1, WorkerEntries
    <2>2. journal \in Seq(JournalEntry)
      BY DEF TInv, TypeOK
    <2>3. CASE journal' = journal
      BY <1>2, <2>3 DEF Opened, OneOpen, OpenGateAt
    <2>4. ASSUME NEW x \in JournalEntry, AppendJournal(x)
          PROVE  OneOpen'
      <3>1. /\ DOMAIN journal' = DOMAIN journal \cup {Len(journal) + 1}
            /\ \A i \in DOMAIN journal : journal'[i] = journal[i]
            /\ Range(journal') = Range(journal) \cup {x}
        BY <2>2, <2>4, JournalGrows
      <3>2. \A i \in DOMAIN journal : ~ OpenGateAt(i)'
        BY <1>2, <3>1 DEF Opened, OpenGateAt, Has
      <3> QED
        BY <3>1, <3>2 DEF OneOpen
    <2> QED
      BY <2>1, <2>3, <2>4
  <1> QED
    BY <1>3, <1>6, <1>7, <1>8, <1>9 DEF WhileOpen

\* The steps of a script or a branch that open no gate.
LEMMA WorkerCloses ==
  ASSUME TInv, NEW t \in Worker, WorkerStep(t),
         ~ \E e \in Exec : t = Run(e) /\ OpenGate(e)
  PROVE  \/ journal' = journal
         \/ \E x \in JournalEntry : AppendJournal(x) /\ x.type # "gate_opened"
  <1>1. StepOf(t) \in Steps \cup Branch \cup {"done"} /\ t[1] \in Exec
    BY StepOfType, Threads DEF TInv, TypeOK
  <1>2. ASSUME NEW type \in {"step_started", "step_finished", "step_failed"},
               NEW val \in Exec \cup {None}
        PROVE  /\ Entry(type, StepOf(t), val) \in JournalEntry
               /\ Entry(type, StepOf(t), val).type # "gate_opened"
    BY <1>1 DEF Entry, JournalEntry, EntryType
  <1>3. CASE BeginStep(t) \/ CallExecutor(t) \/ ExecutorReturns(t) \/ ExecutorThrows(t)
             \/ \E e \in Exec : t = Run(e) /\ Join(e)
    BY <1>3 DEF BeginStep, CallExecutor, ExecutorReturns, ExecutorThrows, Join, durable
  <1>4. CASE StepStarted(t) \/ FinishStep(t) \/ FailStep(t)
    BY <1>1, <1>2, <1>4 DEF StepStarted, FinishStep, FailStep, AppendLive
  <1> QED
    BY <1>3, <1>4 DEF WorkerStep

LEMMA WorkerAnswer ==
  ASSUME Caught = {}, TInv, SoloInv, AnswerInv, NEW t \in Worker, WorkerStep(t)
  PROVE  AnswerInv'
  <1> USE Threads
  <1>1. /\ pc[t] \in {"begin", "mark", "work", "busy", "finish", "fail", "gate", "join"}
        /\ case' = case /\ answer' = answer
        /\ pc'[t] \notin {"off", "ended"} /\ OthersStay(t)
    BY WorkerQuiet
  <1>2. /\ \A e \in Exec : /\ pc'[Engine(e)] = pc[Engine(e)]
                           /\ Active(e)' => Active(e)
                           /\ Run(e) = t => ScriptLive(e)
        /\ gate' = gate
    BY WorkerKeeps
  <1>3. SoloInv' /\ BranchIn'
    BY WorkerSolo, WorkerBranches
  <1>4. case'.status # "none"
    BY <1>1, SomeRun
  <1>5. StillThere'
    <2>1. PICK e \in Exec : \/ pc[Engine(e)] \in {"starting", "load"}
                            \/ pc[Run(e)] \notin {"off", "ended"}
      BY <1>1, SomeRun DEF AnswerInv, StillThere
    <2>2. \/ pc'[Engine(e)] \in {"starting", "load"}
          \/ pc'[Run(e)] \notin {"off", "ended"}
      BY <1>1, <1>2, <2>1 DEF OthersStay
    <2> QED
      BY <2>2 DEF StillThere
  <1>6. ~ Opened
    BY WorkerOpens
  <1>7. /\ \/ journal' = journal
           \/ \E x \in JournalEntry : AppendJournal(x)
        /\ journal \in Seq(JournalEntry)
    BY WorkerEntries DEF TInv, TypeOK
  <1>8. \A g : Has(Range(journal), "gate_opened", g) => Has(Range(journal'), "gate_opened", g)
    BY <1>7, JournalGrows DEF Has
  <1>9. OneOpen' /\ WhileOpen'
    <2>1. CASE \E e \in Exec : t = Run(e) /\ OpenGate(e)
      BY <2>1, OpensGate
    <2>2. CASE ~ \E e \in Exec : t = Run(e) /\ OpenGate(e)
      <3>1. WorkerStep(t) /\ (journal' = journal
                              \/ \E x \in JournalEntry : AppendJournal(x) /\ x.type # "gate_opened")
        BY <2>2, WorkerCloses
      <3>2. ~ Opened' /\ OneOpen'
        BY <1>6, <3>1, OpenedBefore DEF AnswerInv
      <3> QED
        BY <3>2 DEF WhileOpen
    <2> QED
      BY <2>1, <2>2
  <1>10. \A e \in Exec : pc'[Run(e)] \in Terminal =>
                           pc[Run(e)] \in Terminal \/ (ScriptLive(e) /\ case' = case)
    BY <1>1, <1>2 DEF OthersStay
  <1>11. \A e \in Exec : /\ Active(e)' => Active(e)
                         /\ pc'[Engine(e)] = "queued" =>
                              pc[Engine(e)] = "queued" /\ answer'[e] = answer[e]
                         /\ pc'[Engine(e)] = "resolve" =>
                              pc[Engine(e)] = "resolve" /\ gate'[e] = gate[e]
    BY <1>1, <1>2
  <1> QED
    BY <1>1, <1>3, <1>4, <1>5, <1>8, <1>9, <1>10, <1>11, AnswerFrame

\* The steps in which the scripts and the branches stay where they are, or one
\* of them updates the case.
LEMMA StillThereStays ==
  ASSUME SoloInv, AnswerInv, NEW u \in Thread, pc[u] # "off",
         \A e \in Exec : /\ pc[Engine(e)] \in {"starting", "load"} =>
                              \/ pc'[Engine(e)] \in {"starting", "load"}
                              \/ pc'[Run(e)] \notin {"off", "ended"}
                         /\ pc[Run(e)] \notin {"off", "ended"} =>
                              pc'[Run(e)] \notin {"off", "ended"}
  PROVE  StillThere'
  <1>1. PICK e \in Exec : \/ pc[Engine(e)] \in {"starting", "load"}
                          \/ pc[Run(e)] \notin {"off", "ended"}
    BY SomeRun DEF AnswerInv, StillThere
  <1>2. pc'[Engine(e)] \in {"starting", "load"} \/ pc'[Run(e)] \notin {"off", "ended"}
    BY <1>1
  <1> QED
    BY <1>2 DEF StillThere

LEMMA BranchesStay ==
  ASSUME AnswerInv, \A u : StepOf(u)' = StepOf(u),
         \A u \in Worker : u[2] \in Branch /\ pc'[u] \notin Quiet => pc[u] \notin Quiet,
         \A e \in Exec : pc[Run(e)] \in {"fail", "join"} \cup Terminal => pc'[Run(e)] = pc[Run(e)]
  PROVE  BranchIn'
  <1> SUFFICES ASSUME NEW u \in Worker, u[2] \in Branch, pc'[u] \notin Quiet
               PROVE  \/ pc'[Run(u[1])] \in {"fail"} \cup Terminal
                      \/ /\ pc'[Run(u[1])] = "join"
                         /\ u[2] \in BranchOf[StepOf(Run(u[1]))']
    BY DEF BranchIn
  <1>1. pc[u] \notin Quiet /\ u[1] \in Exec
    BY Threads
  <1>2. \/ pc[Run(u[1])] \in {"fail"} \cup Terminal
        \/ pc[Run(u[1])] = "join" /\ u[2] \in BranchOf[StepOf(Run(u[1]))]
    BY <1>1 DEF AnswerInv, BranchIn
  <1> QED
    BY <1>1, <1>2

\* While a gate is open, an update pauses the run or ends it.
LEMMA UpdatingWhileOpen ==
  ASSUME TInv, SoloInv, AnswerInv, NEW t \in Thread, Updating(t), t # Killer, Opened'
  PROVE  WhileOpen'
  <1> USE Threads
  <1>1. /\ pc[t] \in {"read", "rename"} /\ OthersStay(t)
        /\ \/ pc'[t] = pend[t].then
           \/ pc'[t] = "rename" /\ pend'[t].then = pend[t].then
        /\ WriteCase(t) \/ case' = case
    BY UpdatingFacts
  <1>2. Opened
    BY OpenedBefore DEF Updating, ReadCase, WriteCase, durable
  <1>3. /\ \A e \in Exec : ScriptLive(e) => Opening(e)
        /\ \A e \in Exec : Launching(e) => pc[Engine(e)] \in {"check", "resolve"}
        /\ \A u \in Worker : u[2] \in Branch => pc[u] \in Quiet
        /\ case.status \in {"paused_human"} \cup Terminal \/ \E e \in Exec : Opening(e)
    BY <1>2 DEF AnswerInv, WhileOpen
  <1>4. \A e \in Exec : Launching(e)' => pc'[Engine(e)] \in {"check", "resolve"}
    <2> SUFFICES ASSUME NEW e \in Exec, Launching(e)'
                 PROVE  pc'[Engine(e)] \in {"check", "resolve"}
      OBVIOUS
    <2>1. Launching(e) /\ t # Engine(e)
      BY <1>1, <1>3, UpdatingMoves
    <2> QED
      BY <1>1, <1>3, <2>1 DEF OthersStay
  <1>5. t \notin {u \in Worker : u[2] \in Branch}
    BY <1>1, <1>3 DEF Quiet, Terminal
  <1>6. \A u \in Worker : u[2] \in Branch => pc'[u] \in Quiet
    BY <1>1, <1>3, <1>5 DEF OthersStay
  <1>7. CASE \E e \in Exec : t = Run(e)
    <2>1. PICK e \in Exec : t = Run(e)
      BY <1>7
    <2>2. Opening(e)
      BY <1>1, <1>3, <2>1 DEF ScriptLive, Terminal
    <2>3. pend[t].status = "paused_human"
      BY <1>1, <2>1, <2>2 DEF Opening, TInv, Place, WorkerPlace, AfterBegin
    <2>4. pc'[t] = "suspended" \/ Opening(e)'
      BY <1>1, <2>1, <2>2 DEF Opening
    <2>5. \A f \in Exec : ScriptLive(f)' => Opening(f)'
      <3> SUFFICES ASSUME NEW f \in Exec, ScriptLive(f)' PROVE Opening(f)'
        OBVIOUS
      <3>1. CASE f = e
        BY <2>1, <2>4, <3>1 DEF ScriptLive
      <3>2. CASE f # e
        BY <1>1, <1>3, <2>1, <3>2 DEF OthersStay, ScriptLive, Opening
      <3> QED
        BY <3>1, <3>2
    <2>6. case'.status \in {"paused_human"} \cup Terminal \/ Opening(e)'
      <3>1. CASE WriteCase(t)
        <4>1. case'.status = "paused_human"
          BY <2>3, <3>1, WriteCaseFacts DEF TInv
        <4> QED
          BY <4>1
      <3>2. CASE ReadCase(t)
        <4>1. \/ pc'[t] = "rename" \/ case.status \in Terminal
          BY <3>2, ReadCaseFacts DEF TInv
        <4>2. case' = case
          BY <3>2 DEF ReadCase, durable
        <4> QED
          BY <2>4, <4>1, <4>2
      <3> QED
        BY <3>1, <3>2 DEF Updating
    <2> QED
      BY <1>4, <1>6, <2>5, <2>6 DEF WhileOpen
  <1>8. CASE \E e \in Exec : t = Engine(e)
    <2>1. PICK e \in Exec : t = Engine(e)
      BY <1>8
    <2>2. ~ Launching(e)
      BY <1>1, <1>3, <2>1
    <2>3. pend[t].status \in Terminal
      BY <1>1, <2>1, <2>2 DEF Launching, TInv, Place, EnginePlace
    <2>4. case' = case \/ case'.status \in Terminal
      <3>1. WriteCase(t) => case'.status \in Terminal
        BY <2>3, WriteCaseFacts DEF TInv, Terminal
      <3> QED
        BY <1>1, <3>1
    <2>5. \A f \in Exec : pc'[Run(f)] = pc[Run(f)] /\ pend'[Run(f)] = pend[Run(f)]
      BY <1>1, <2>1 DEF OthersStay
    <2>6. \A f \in Exec : /\ ScriptLive(f)' <=> ScriptLive(f)
                          /\ Opening(f)' <=> Opening(f)
      BY <2>5 DEF ScriptLive, Opening
    <2>7. \A f \in Exec : ScriptLive(f)' => Opening(f)'
      BY <1>3, <2>6
    <2>8. case'.status \in {"paused_human"} \cup Terminal \/ \E f \in Exec : Opening(f)'
      BY <1>3, <2>4, <2>6
    <2> QED
      BY <1>4, <1>6, <2>7, <2>8 DEF WhileOpen
  <1> QED
    BY <1>5, <1>7, <1>8, ThreadCases

LEMMA UpdatingAnswer ==
  ASSUME TInv, SoloInv, AnswerInv, NEW t \in Thread, Updating(t), t # Killer
  PROVE  AnswerInv'
  <1> USE Threads
  <1>1. /\ pc[t] \in {"read", "rename"} /\ OthersStay(t)
        /\ \/ pc'[t] = pend[t].then
           \/ pc'[t] = "rename"
        /\ answer' = answer
        /\ WriteCase(t) \/ case' = case
    BY UpdatingFacts
  <1>2. journal' = journal /\ at' = at /\ gate' = gate
    BY DEF Updating, ReadCase, WriteCase, durable
  <1>3. \A e \in Exec : /\ Active(e)' => Active(e)
                        /\ pc'[Engine(e)] = "queued" => pc[Engine(e)] = "queued"
    BY UpdatingMoves DEF Active
  <1>4. \A u : StepOf(u)' = StepOf(u)
    BY <1>2, SamePlace
  <1>5. t \in Worker => /\ pc'[t] \notin {"off", "ended"} \cup Terminal
                        /\ pc[t] \notin {"fail", "join"} \cup Terminal \cup Quiet
    BY <1>1 DEF TInv, Place, WorkerPlace, AfterBegin, Terminal, Quiet
  <1>6. \A e \in Exec : t = Engine(e) => pc'[t] # "resolve"
    BY <1>1 DEF TInv, Place, EnginePlace
  <1>7. StillThere'
    <2>1. \A e \in Exec : /\ pc[Engine(e)] \in {"starting", "load"} =>
                               pc'[Engine(e)] \in {"starting", "load"}
                          /\ pc[Run(e)] \notin {"off", "ended"} =>
                               pc'[Run(e)] \notin {"off", "ended"}
      BY <1>1, <1>5 DEF OthersStay
    <2>2. pc[t] # "off"
      BY <1>1
    <2> QED
      BY <2>1, <2>2, StillThereStays
  <1>8. BranchIn'
    <2>1. \A u \in Worker : u[2] \in Branch /\ pc'[u] \notin Quiet => pc[u] \notin Quiet
      BY <1>1, <1>5 DEF OthersStay
    <2>2. \A e \in Exec : pc[Run(e)] \in {"fail", "join"} \cup Terminal => pc'[Run(e)] = pc[Run(e)]
      BY <1>1, <1>5 DEF OthersStay
    <2> QED
      BY <1>4, <2>1, <2>2, BranchesStay
  <1>9. OneOpen' /\ (Opened' => Opened)
    BY <1>2, OpenedBefore DEF AnswerInv
  <1>10. WhileOpen'
    <2>1. CASE Opened'
      BY <2>1, UpdatingWhileOpen
    <2>2. CASE ~ Opened'
      BY <2>2 DEF WhileOpen
    <2> QED
      BY <2>1, <2>2
  <1>11. \A e \in Exec : /\ pc'[Engine(e)] = "resolve" => pc[Engine(e)] = "resolve"
                         /\ pc'[Run(e)] \in Terminal => pc[Run(e)] \in Terminal
    BY <1>1, <1>5, <1>6 DEF OthersStay
  <1>12. case'.status = "paused_human" => case.status = "paused_human" \/ \E e \in Exec : Active(e)
    <2> SUFFICES ASSUME WriteCase(t), case'.status = "paused_human"
                 PROVE  \E e \in Exec : Active(e)
      BY <1>1
    <2>1. CASE \E e \in Exec : t = Run(e)
      BY <1>1, <2>1 DEF Active, ScriptLive, Terminal
    <2>2. CASE \E e \in Exec : t = Engine(e) /\ pend[t].then = "flip"
      BY <1>1, <2>2 DEF Active, Launching
    <2> QED
      BY <2>1, <2>2, WriteStatus
  <1>13. SoloInv' /\ case'.status # "none"
    BY UpdatingSolo, UpdatingSnaps
  <1> QED
    BY <1>1, <1>2, <1>3, <1>7, <1>8, <1>9, <1>10, <1>11, <1>12, <1>13, AnswerFrame

LEMMA ExecuteAnswer ==
  ASSUME TInv, SoloInv, AnswerInv, NEW e \in Exec, Execute(e)
  PROVE  AnswerInv'
  <1> USE Threads
  <1>1. /\ pc'[Engine(e)] = "await" /\ pc'[Run(e)] = "begin"
        /\ \A u \in Thread \ {Engine(e), Run(e)} : pc'[u] = pc[u]
        /\ \A u : StepOf(u)' = StepOf(u)
    BY ExecuteType
  <1>2. /\ case' = case /\ journal' = journal /\ answer' = answer /\ gate' = gate
        /\ pc[Engine(e)] = "load"
    BY DEF Execute, durable
  <1>3. \A f \in Exec : f # e => pc'[Engine(f)] = pc[Engine(f)] /\ pc'[Run(f)] = pc[Run(f)]
    BY <1>1
  <1>4. Active(e) /\ Launching(e)
    BY <1>2 DEF Active, Launching
  <1>5. pc[Run(e)] = "off"
    BY <1>2 DEF SoloInv, NotYet, Ahead
  <1>6. SoloInv' /\ case'.status # "none"
    BY <1>2, ExecuteSolo, SomeRun
  <1>7. StillThere'
    <2>1. pc[Engine(e)] # "off" /\ Engine(e) \in Thread
      BY <1>2
    <2>2. \A f \in Exec : /\ pc[Engine(f)] \in {"starting", "load"} =>
                               \/ pc'[Engine(f)] \in {"starting", "load"}
                               \/ pc'[Run(f)] \notin {"off", "ended"}
                          /\ pc[Run(f)] \notin {"off", "ended"} =>
                               pc'[Run(f)] \notin {"off", "ended"}
      BY <1>1, <1>3
    <2> QED
      BY <2>1, <2>2, StillThereStays
  <1>8. BranchIn'
    <2>1. \A u \in Worker : u[2] \in Branch => u # Run(e) /\ u # Engine(e)
      BY KindAssumption DEF Run
    <2>2. \A u \in Worker : u[2] \in Branch /\ pc'[u] \notin Quiet => pc[u] \notin Quiet
      BY <1>1, <2>1
    <2>3. \A f \in Exec : pc[Run(f)] \in {"fail", "join"} \cup Terminal => pc'[Run(f)] = pc[Run(f)]
      BY <1>3, <1>5 DEF Terminal
    <2> QED
      BY <1>1, <2>2, <2>3, BranchesStay
  <1>9. ~ Opened
    BY <1>2, <1>4 DEF AnswerInv, WhileOpen
  <1>10. OneOpen' /\ WhileOpen'
    BY <1>2, <1>9, OpenedBefore DEF AnswerInv, WhileOpen
  <1>11. \A f \in Exec : /\ Active(f)' => Active(f)
                         /\ pc'[Engine(f)] = "queued" => pc[Engine(f)] = "queued"
                         /\ pc'[Engine(f)] = "resolve" => pc[Engine(f)] = "resolve"
                         /\ pc'[Run(f)] \in Terminal => pc[Run(f)] \in Terminal
    <2> SUFFICES ASSUME NEW f \in Exec
                 PROVE  /\ Active(f)' => Active(f)
                        /\ pc'[Engine(f)] = "queued" => pc[Engine(f)] = "queued"
                        /\ pc'[Engine(f)] = "resolve" => pc[Engine(f)] = "resolve"
                        /\ pc'[Run(f)] \in Terminal => pc[Run(f)] \in Terminal
      OBVIOUS
    <2>1. CASE f = e
      BY <1>1, <1>4, <2>1 DEF Terminal
    <2>2. CASE f # e
      <3>1. pend' = pend
        BY DEF Execute
      <3> QED
        BY <1>3, <2>2, <3>1 DEF Active, ScriptLive, Launching
    <2> QED
      BY <2>1, <2>2
  <1> QED
    BY <1>2, <1>6, <1>7, <1>8, <1>10, <1>11, AnswerFrame

LEMMA ForkAnswer ==
  ASSUME TInv, SoloInv, AnswerInv, NEW e \in Exec, Fork(e)
  PROVE  AnswerInv'
  <1> USE Threads
  <1>1. /\ \A u \in Thread : \/ pc'[u] = pc[u]
                             \/ u \in Worker /\ u[1] = e /\ pc'[u] \in {"join", "begin"}
        /\ \A f \in Exec : pc'[Engine(f)] = pc[Engine(f)]
        /\ \A f \in Exec : f # e => pc'[Run(f)] = pc[Run(f)]
        /\ pc'[Run(e)] = "join" /\ pend' = pend
        /\ \A u : StepOf(u)' = StepOf(u)
    BY ForkType
  <1>2. /\ case' = case /\ journal' = journal /\ answer' = answer /\ gate' = gate
        /\ pc[Run(e)] = "fork"
    BY DEF Fork, durable
  <1>3. ScriptLive(e) /\ ~ Opening(e)
    BY <1>2 DEF ScriptLive, Opening, Terminal
  <1>4. SoloInv' /\ case'.status # "none"
    BY <1>2, ForkSolo, SomeRun
  <1>5. StillThere'
    <2>1. pc[Run(e)] # "off" /\ Run(e) \in Thread
      BY <1>2
    <2>2. \A f \in Exec : /\ pc[Engine(f)] \in {"starting", "load"} =>
                               pc'[Engine(f)] \in {"starting", "load"}
                          /\ pc[Run(f)] \notin {"off", "ended"} =>
                               pc'[Run(f)] \notin {"off", "ended"}
      BY <1>1
    <2> QED
      BY <2>1, <2>2, StillThereStays
  <1>6. BranchIn'
    <2> SUFFICES ASSUME NEW u \in Worker, u[2] \in Branch, pc'[u] \notin Quiet
                 PROVE  \/ pc'[Run(u[1])] \in {"fail"} \cup Terminal
                        \/ /\ pc'[Run(u[1])] = "join"
                           /\ u[2] \in BranchOf[StepOf(Run(u[1]))']
      BY DEF BranchIn
    <2>1. u[1] \in Exec /\ u # Run(e)
      BY KindAssumption DEF Run
    <2>2. pc'[u] = IF u[1] = e /\ u[2] \in BranchOf[StepOf(Run(e))] THEN "begin" ELSE pc[u]
      <3>1. pc' = [t \in Thread |->
              IF t = Run(e) THEN "join"
              ELSE IF t[1] = e /\ t[2] \in BranchOf[StepOf(Run(e))] THEN "begin"
              ELSE pc[t]]
        BY DEF Fork
      <3>2. u \in Thread
        OBVIOUS
      <3> QED
        BY <2>1, <3>1, <3>2
    <2>3. CASE u[1] = e /\ u[2] \in BranchOf[StepOf(Run(e))]
      BY <1>1, <2>3
    <2>4. CASE ~ (u[1] = e /\ u[2] \in BranchOf[StepOf(Run(e))])
      <3>1. pc[u] \notin Quiet
        BY <2>2, <2>4
      <3>2. \/ pc[Run(u[1])] \in {"fail"} \cup Terminal
            \/ pc[Run(u[1])] = "join" /\ u[2] \in BranchOf[StepOf(Run(u[1]))]
        BY <3>1 DEF AnswerInv, BranchIn
      <3>3. u[1] # e
        BY <1>2, <3>2 DEF Terminal
      <3> QED
        BY <1>1, <2>1, <3>2, <3>3
    <2> QED
      BY <2>3, <2>4
  <1>7. ~ Opened
    BY <1>3 DEF AnswerInv, WhileOpen
  <1>8. OneOpen' /\ WhileOpen'
    BY <1>2, <1>7, OpenedBefore DEF AnswerInv, WhileOpen
  <1>9. \A f \in Exec : /\ Active(f)' => Active(f)
                        /\ pc'[Run(f)] \in Terminal => pc[Run(f)] \in Terminal
    <2> SUFFICES ASSUME NEW f \in Exec
                 PROVE  /\ Active(f)' => Active(f)
                        /\ pc'[Run(f)] \in Terminal => pc[Run(f)] \in Terminal
      OBVIOUS
    <2>1. CASE f = e
      BY <1>1, <1>3, <2>1 DEF Terminal, Active
    <2>2. CASE f # e
      BY <1>1, <2>2 DEF Active, ScriptLive, Launching
    <2> QED
      BY <2>1, <2>2
  <1> QED
    BY <1>1, <1>2, <1>4, <1>5, <1>6, <1>8, <1>9, AnswerFrame

\* killRun ends the run, and touches nothing else.
LEMMA KillAnswer ==
  ASSUME TInv, SoloInv, AnswerInv, KillCall \/ Updating(Killer)
  PROVE  AnswerInv'
  <1> USE Threads
  <1>1. OthersStay(Killer) /\ answer' = answer /\ gate' = gate /\ at' = at
    BY KillType, UpdatingFacts
       DEF KillCall, KillRun, KillFile, KillFinished, Updating, ReadCase, WriteCase
  <1>2. SoloInv'
    BY KillSolo
  <1>3. /\ case.status # "none" /\ case'.status # "none"
        /\ case' = case \/ case'.status \in Terminal
    <2>1. case.status # "none"
      <3>1. KillRun \/ pc[Killer] # "off"
        BY DEF KillCall, KillFile, KillFinished, Updating, ReadCase, WriteCase
      <3> QED
        BY <3>1, SomeRun DEF KillRun
    <2>2. WriteCase(Killer) => case'.status \in Terminal
      <3>1. WriteCase(Killer) => pend[Killer].status = "killed"
        BY DEF WriteCase, TInv, Place, KillerPlace
      <3> QED
        BY <3>1, WriteCaseFacts DEF TInv, Terminal
    <2>3. case' = case \/ WriteCase(Killer)
      BY DEF KillCall, KillRun, KillFile, KillFinished, Updating, ReadCase, durable
    <2> QED
      BY <2>1, <2>2, <2>3 DEF Terminal
  <1>4. \A u \in Thread \ {Killer} : pc'[u] = pc[u] /\ pend'[u] = pend[u]
    BY <1>1 DEF OthersStay
  <1>5. \A e \in Exec : /\ pc'[Engine(e)] = pc[Engine(e)] /\ pend'[Engine(e)] = pend[Engine(e)]
                        /\ pc'[Run(e)] = pc[Run(e)] /\ pend'[Run(e)] = pend[Run(e)]
    BY <1>4
  <1>6. \A e \in Exec : /\ Active(e)' <=> Active(e)
                        /\ ScriptLive(e)' <=> ScriptLive(e)
                        /\ Launching(e)' <=> Launching(e)
                        /\ Opening(e)' <=> Opening(e)
    BY <1>5 DEF Active, ScriptLive, Launching, Opening
  <1>7. StillThere'
    BY <1>3, <1>5 DEF AnswerInv, StillThere
  <1>8. BranchIn'
    BY <1>1, <1>4, <1>5, SamePlace, BranchesStay
  <1>9. journal' = journal
        \/ \E x \in JournalEntry : AppendJournal(x) /\ x.type # "gate_opened"
    <2>1. Entry("run_finished", None, None) \in JournalEntry
          /\ Entry("run_finished", None, None).type # "gate_opened"
      BY DEF Entry, JournalEntry, EntryType
    <2> QED
      BY <2>1 DEF KillCall, KillRun, KillFile, KillFinished, Updating, ReadCase, WriteCase,
                  durable
  <1>10. OneOpen' /\ (Opened' => Opened)
         /\ \A g : Has(Range(journal), "gate_opened", g) => Has(Range(journal'), "gate_opened", g)
    BY <1>9, OpenedBefore DEF AnswerInv
  <1>11. WhileOpen'
    <2> SUFFICES ASSUME Opened' PROVE WhileOpen'
      BY DEF WhileOpen
    <2>1. /\ \A e \in Exec : ScriptLive(e) => Opening(e)
          /\ \A e \in Exec : Launching(e) => pc[Engine(e)] \in {"check", "resolve"}
          /\ \A u \in Worker : u[2] \in Branch => pc[u] \in Quiet
          /\ case.status \in {"paused_human"} \cup Terminal \/ \E e \in Exec : Opening(e)
      BY <1>10 DEF AnswerInv, WhileOpen
    <2>2. case'.status \in {"paused_human"} \cup Terminal \/ \E e \in Exec : Opening(e)'
      BY <1>3, <1>6, <2>1
    <2>3. \A u \in Worker : u[2] \in Branch => pc'[u] \in Quiet
      BY <1>4, <2>1
    <2> QED
      BY <1>5, <1>6, <2>1, <2>2, <2>3 DEF WhileOpen
  <1>12. case'.status = "paused_human" => case.status = "paused_human"
    BY <1>3 DEF Terminal
  <1> QED
    BY <1>1, <1>2, <1>3, <1>5, <1>6, <1>7, <1>8, <1>10, <1>11, <1>12, AnswerFrame

\* An engine call leaves the scripts alone, and opens no gate.
LEMMA CallKeeps ==
  ASSUME TInv, AnswerInv, NEW e \in Exec, EngineCall(e)
  PROVE  /\ OthersStay(Engine(e)) /\ BranchIn' /\ OneOpen' /\ (Opened' => Opened)
         /\ \A g : Has(Range(journal), "gate_opened", g) => Has(Range(journal'), "gate_opened", g)
         /\ \A f \in Exec : /\ pc'[Run(f)] = pc[Run(f)]
                            /\ ScriptLive(f)' <=> ScriptLive(f)
                            /\ Opening(f)' <=> Opening(f)
                            /\ f # e => /\ pc'[Engine(f)] = pc[Engine(f)]
                                        /\ Launching(f)' <=> Launching(f)
         /\ \A u \in Worker : pc'[u] = pc[u]
  <1> USE Threads
  <1>1. OthersStay(Engine(e))
    BY EngineType DEF EngineCall
  <1>2. at' = at
    BY DEF EngineCall, StartRun, RunStarted, ContinueRun, Locked, CheckGate,
           ResolveGate, FlipStatus, Settled, TimeLimit, RunFinished, ResumeRun
  <1>3. \A u \in Worker : pc'[u] = pc[u] /\ pend'[u] = pend[u]
    BY <1>1 DEF OthersStay
  <1>4. BranchIn'
    BY <1>2, <1>3, SamePlace, BranchesStay
  <1>5. \/ journal' = journal
        \/ \E x \in JournalEntry : AppendJournal(x) /\ x.type # "gate_opened"
    <2>1. \A type \in {"run_started", "run_finished"} :
            Entry(type, None, None) \in JournalEntry /\ Entry(type, None, None).type = type
      BY DEF Entry, JournalEntry, EntryType
    <2>2. pc[Engine(e)] = "resolve" => gate[e] \in Gates /\ answer[e] \in Gates \cup {None}
      BY DEF TInv, GateKnown, TypeOK
    <2>3. pc[Engine(e)] = "resolve" =>
            /\ Entry("gate_resolved", gate[e], answer[e]) \in JournalEntry
            /\ Entry("gate_resolved", gate[e], answer[e]).type # "gate_opened"
      BY <2>2 DEF Entry, JournalEntry, EntryType, Steps
    <2> QED
      BY <2>1, <2>3
         DEF EngineCall, StartRun, RunStarted, ContinueRun, Locked, CheckGate,
             ResolveGate, FlipStatus, Settled, TimeLimit, RunFinished, ResumeRun, durable
  <1>6. /\ OneOpen' /\ (Opened' => Opened)
        /\ \A g : Has(Range(journal), "gate_opened", g) => Has(Range(journal'), "gate_opened", g)
    BY <1>5, OpenedBefore DEF AnswerInv
  <1>7. \A f \in Exec : /\ pc'[Run(f)] = pc[Run(f)]
                        /\ ScriptLive(f)' <=> ScriptLive(f)
                        /\ Opening(f)' <=> Opening(f)
                        /\ f # e => /\ pc'[Engine(f)] = pc[Engine(f)]
                                    /\ Launching(f)' <=> Launching(f)
    BY <1>1, <1>3 DEF OthersStay, ScriptLive, Opening, Launching
  <1> QED
    BY <1>1, <1>3, <1>4, <1>6, <1>7

\* The gate that a call resolves is the one that is open.
LEMMA ResolveCloses ==
  ASSUME TInv, GateInv, AnswerInv, NEW e \in Exec, ResolveGate(e)
  PROVE  ~ Opened'
  <1>1. /\ pc[Engine(e)] = "resolve" /\ journal \in Seq(JournalEntry)
        /\ AppendJournal(Entry("gate_resolved", gate[e], answer[e]))
    BY DEF ResolveGate, TInv, TypeOK
  <1>2. gate[e] \in Gates /\ answer[e] \in Gates \cup {None}
    BY <1>1 DEF TInv, GateKnown, TypeOK
  <1> DEFINE x == Entry("gate_resolved", gate[e], answer[e])
  <1>3. x \in JournalEntry /\ x.type = "gate_resolved" /\ x.step = gate[e]
    BY <1>2 DEF Entry, JournalEntry, EntryType, Steps
  <1>4. PICK k \in DOMAIN journal : journal[k].type = "gate_opened" /\ journal[k].step = gate[e]
    BY <1>1 DEF AnswerInv, ResolvesOpened, Has, Range
  <1>5. OpenGateAt(k)
    BY <1>1, <1>4 DEF GateInv, Unresolved, OpenGateAt
  <1>6. \A i \in DOMAIN journal : OpenGateAt(i) => journal[i].step = gate[e]
    BY <1>4, <1>5 DEF AnswerInv, OneOpen
  <1> HIDE DEF x
  <1>7. /\ DOMAIN journal' = DOMAIN journal \cup {Len(journal) + 1}
        /\ \A i \in DOMAIN journal : journal'[i] = journal[i]
        /\ journal'[Len(journal) + 1] = x
        /\ Range(journal') = Range(journal) \cup {x}
    BY <1>1, <1>3, JournalGrows DEF x
  <1> SUFFICES ASSUME NEW i \in DOMAIN journal', OpenGateAt(i)'
               PROVE  FALSE
    BY DEF Opened
  <1>8. i \in DOMAIN journal
    BY <1>3, <1>7 DEF OpenGateAt
  <1>9. OpenGateAt(i)
    BY <1>7, <1>8 DEF OpenGateAt, Has
  <1>10. Has(Range(journal'), "gate_resolved", journal'[i].step)
    BY <1>3, <1>6, <1>7, <1>8, <1>9 DEF Has
  <1> QED
    BY <1>10 DEF OpenGateAt

LEMMA OpenGateFound ==
  ASSUME TInv, Opened
  PROVE  FindOpenGate # None
  <1>1. journal \in Seq(JournalEntry)
    BY DEF TInv, TypeOK
  <1>2. PICK i \in DOMAIN journal : OpenGateAt(i) /\ FindOpenGate = journal[i].step
    BY <1>1, FindOpenGateFacts DEF Opened
  <1>3. journal[i].step \in Gates
    BY <1>2 DEF OpenGateAt, TInv, GateKnown
  <1> QED
    BY <1>2, <1>3, KindAssumption

LEMMA WorkingCallStarts ==
  ASSUME TInv, NEW e \in Exec, WorkingCall(e), pc[Engine(e)] \in {"starting", "load"}
  PROVE  pc'[Engine(e)] = "load"
  <1>1. RunStarted(e)
    BY DEF WorkingCall, CheckGate, ResolveGate, FlipStatus, Settled, TimeLimit, RunFinished
  <1>2. Engine(e) \in Thread /\ pc \in [Thread -> Await]
    BY Threads DEF TInv, TypeOK
  <1> QED
    BY <1>1, <1>2 DEF RunStarted

LEMMA WorkingCallAnswer ==
  ASSUME TInv, GateInv, SoloInv, AnswerInv, NEW e \in Exec, WorkingCall(e)
  PROVE  AnswerInv'
  <1> USE Threads
  <1> DEFINE t == Engine(e)
  <1>1. /\ pc[t] \in {"starting", "check", "resolve", "flip", "await", "finish_run"}
        /\ case' = case /\ answer' = answer
        /\ \/ pc[t] = "starting" /\ pc'[t] = "load"
           \/ pc'[t] = "ended"
           \/ pc[t] = "check" /\ pc'[t] = "resolve"
           \/ /\ pc[t] \in {"check", "resolve", "flip"}
              /\ pc'[t] = "read" /\ pend'[t].then \in {"flip", "load"}
           \/ /\ pc[t] = "await"
              /\ pc'[t] = "read" /\ pend'[t].then = "finish_run"
    BY WorkingCallMoves
  <1>2. EngineCall(e)
    BY DEF WorkingCall, EngineCall
  <1>3. /\ BranchIn' /\ OneOpen' /\ (Opened' => Opened)
        /\ \A g : Has(Range(journal), "gate_opened", g) => Has(Range(journal'), "gate_opened", g)
        /\ \A f \in Exec : /\ pc'[Run(f)] = pc[Run(f)]
                           /\ ScriptLive(f)' <=> ScriptLive(f)
                           /\ Opening(f)' <=> Opening(f)
                           /\ f # e => /\ pc'[Engine(f)] = pc[Engine(f)]
                                       /\ Launching(f)' <=> Launching(f)
        /\ \A u \in Worker : pc'[u] = pc[u]
    BY <1>2, CallKeeps
  <1>4. SoloInv' /\ case'.status # "none"
    BY <1>1, WorkingCallSolo, SomeRun
  <1>5. StillThere'
    <2>1. pc[t] # "off" /\ t \in Thread
      BY <1>1
    <2>2. \A f \in Exec : /\ pc[Engine(f)] \in {"starting", "load"} =>
                               pc'[Engine(f)] \in {"starting", "load"}
                          /\ pc[Run(f)] \notin {"off", "ended"} =>
                               pc'[Run(f)] \notin {"off", "ended"}
      <3>1. pc[t] \in {"starting", "load"} => pc'[t] = "load"
        BY <1>2, <1>1, WorkingCallStarts
      <3> QED
        BY <1>3, <3>1
    <2> QED
      BY <2>1, <2>2, StillThereStays
  <1>6. \A f \in Exec : Active(f)' => Active(f)
    <2>1. Launching(e)' => Launching(e)
      BY <1>1 DEF Launching
    <2> QED
      BY <1>3, <2>1 DEF Active
  <1>7. pc'[t] = "resolve" => Has(Range(journal'), "gate_opened", gate'[e])
    <2> SUFFICES ASSUME pc'[t] = "resolve"
                 PROVE  Has(Range(journal'), "gate_opened", gate'[e])
      OBVIOUS
    <2>1. pc[t] = "check" /\ CheckGate(e)
      BY <1>1 DEF WorkingCall, RunStarted, ResolveGate, FlipStatus, Settled, TimeLimit,
                  RunFinished
    <2>2. /\ FindOpenGate # None /\ gate'[e] = FindOpenGate
          /\ journal \in Seq(JournalEntry)
      <3>1. pc \in [Thread -> Await] /\ gate \in [Exec -> Gates \cup {None}]
            /\ journal \in Seq(JournalEntry)
        BY DEF TInv, TypeOK
      <3>2. ~ Leave(e)
        BY LeaveType
      <3>3. \A status, add, next : ~ BeginUpdate(t, status, add, next)
        BY <3>1 DEF BeginUpdate
      <3> QED
        BY <2>1, <3>1, <3>2, <3>3 DEF CheckGate
    <2>3. PICK i \in DOMAIN journal : OpenGateAt(i) /\ FindOpenGate = journal[i].step
      BY <2>2, OpenGateExists, FindOpenGateFacts
    <2>4. Has(Range(journal), "gate_opened", gate'[e])
      BY <2>2, <2>3 DEF OpenGateAt, Has, Range
    <2> QED
      BY <1>3, <2>4
  <1>8. WhileOpen'
    <2> SUFFICES ASSUME Opened' PROVE WhileOpen'
      BY DEF WhileOpen
    <2>1. /\ \A f \in Exec : ScriptLive(f) => Opening(f)
          /\ \A f \in Exec : Launching(f) => pc[Engine(f)] \in {"check", "resolve"}
          /\ \A u \in Worker : u[2] \in Branch => pc[u] \in Quiet
          /\ case.status \in {"paused_human"} \cup Terminal \/ \E f \in Exec : Opening(f)
      BY <1>3 DEF AnswerInv, WhileOpen
    <2>2. ~ ResolveGate(e)
      BY ResolveCloses
    <2>3. FindOpenGate # None
      BY <1>3, OpenGateFound
    <2>4. Launching(e)' => pc'[t] \in {"check", "resolve"}
      <3>1. pc[t] \notin {"starting", "flip"}
        BY <2>1 DEF Launching
      <3>2. pc[t] # "resolve"
        BY <2>2 DEF WorkingCall, RunStarted, CheckGate, FlipStatus, Settled, TimeLimit,
                    RunFinished
      <3>3. pc[t] = "check" => pc'[t] \in {"ended", "resolve"}
        <4>1. pc[t] = "check" => CheckGate(e)
          BY DEF WorkingCall, RunStarted, ResolveGate, FlipStatus, Settled, TimeLimit,
                 RunFinished
        <4>2. CheckGate(e) => Leave(e) \/ pc' = [pc EXCEPT ![t] = "resolve"]
          BY <2>3 DEF CheckGate
        <4>3. pc \in [Thread -> Await]
          BY DEF TInv, TypeOK
        <4> QED
          BY <4>1, <4>2, <4>3, LeaveType
      <3> QED
        BY <1>1, <3>1, <3>2, <3>3 DEF Launching
    <2>5. \A f \in Exec : Launching(f)' => pc'[Engine(f)] \in {"check", "resolve"}
      BY <1>3, <2>1, <2>4
    <2>6. case'.status \in {"paused_human"} \cup Terminal \/ \E f \in Exec : Opening(f)'
      BY <1>1, <1>3, <2>1
    <2> QED
      BY <1>3, <2>1, <2>5, <2>6 DEF WhileOpen
  <1>9. \A f \in Exec : /\ pc'[Engine(f)] = "queued" => pc[Engine(f)] = "queued"
                        /\ pc'[Engine(f)] = "resolve" =>
                             \/ pc[Engine(f)] = "resolve" /\ gate'[f] = gate[f]
                             \/ Has(Range(journal'), "gate_opened", gate'[f])
    <2>1. \A f \in Exec : f # e => gate'[f] = gate[f]
      BY <1>2 DEF WorkingCall, RunStarted, CheckGate, ResolveGate, FlipStatus, Settled,
                  TimeLimit, RunFinished, TInv, TypeOK
    <2>2. pc'[t] # "queued"
      BY <1>1
    <2> QED
      BY <1>3, <1>7, <2>1, <2>2
  <1>10. \A f \in Exec : pc'[Run(f)] \in Terminal => pc[Run(f)] \in Terminal
    BY <1>3
  <1>11. \A f \in Exec : /\ Active(f)' => Active(f)
                         /\ pc'[Engine(f)] = "queued" =>
                              pc[Engine(f)] = "queued" /\ answer'[f] = answer[f]
                         /\ pc'[Engine(f)] = "resolve" =>
                              \/ pc[Engine(f)] = "resolve" /\ gate'[f] = gate[f]
                              \/ Has(Range(journal'), "gate_opened", gate'[f])
                         /\ pc'[Run(f)] \in Terminal =>
                              \/ pc[Run(f)] \in Terminal
                              \/ ScriptLive(f) /\ case' = case
    BY <1>1, <1>6, <1>9, <1>10
  <1> QED
    BY <1>1, <1>3, <1>4, <1>5, <1>8, <1>11, AnswerFrame

\* startRun finds nothing of the run, neither in the process nor on disk.
LEMMA StartAnswer ==
  ASSUME TInv, SoloInv, AnswerInv, NEW e \in Exec, StartRun(e)
  PROVE  AnswerInv'
  <1> USE Threads
  <1>1. /\ case.status = "none" /\ case'.status = "running" /\ journal' = journal
        /\ pc'[Engine(e)] = "starting"
    BY DEF StartRun, TInv, TypeOK
  <1>2. journal = <<>> /\ \A t \in Thread : pc[t] = "off"
    BY <1>1 DEF SoloInv, Fresh, AnswerInv, Empty
  <1>3. EngineCall(e)
    BY DEF EngineCall
  <1>4. /\ BranchIn' /\ OneOpen'
        /\ \A f \in Exec : /\ pc'[Run(f)] = "off"
                           /\ f # e => pc'[Engine(f)] = "off"
    BY <1>2, <1>3, CallKeeps
  <1>5. StillThere'
    BY <1>1 DEF StillThere
  <1>6. \A f \in Exec : pc'[Engine(f)] \notin {"queued", "resolve"} /\ pc'[Run(f)] \notin Terminal
    BY <1>1, <1>4 DEF Terminal
  <1>7. NoContinue' /\ Over' /\ ResolvesOpened'
    BY <1>6 DEF NoContinue, Over, ResolvesOpened
  <1>8. Empty' /\ ~ Opened'
    BY <1>1, <1>2 DEF Empty, Opened
  <1> QED
    BY <1>4, <1>5, <1>7, <1>8 DEF AnswerInv, WhileOpen

\* No continueRun gets to a run that is in the process; a resumeRun waits.
LEMMA NoneContinues ==
  ASSUME AnswerInv, ~ EagerContinue, NEW e \in Exec
  PROVE  ~ ContinueRun(e)
  <1> USE Threads
  <1> SUFFICES ASSUME ContinueRun(e) PROVE FALSE
    OBVIOUS
  <1>1. case.status # "none" /\ \A t \in Thread \ {Killer} : Stopped(t)
    BY DEF ContinueRun
  <1>2. \A f \in Exec : Stopped(Engine(f)) /\ Stopped(Run(f))
    BY <1>1
  <1> QED
    BY <1>1, <1>2 DEF AnswerInv, StillThere, Stopped

LEMMA ResumeAnswer ==
  ASSUME TInv, SoloInv, AnswerInv, NEW e \in Exec, NEW g \in Gates, ResumeRun(e, g)
  PROVE  AnswerInv'
  <1> USE Threads
  <1>1. /\ pc[Engine(e)] = "off" /\ case' = case /\ journal' = journal /\ gate' = gate
        /\ pc'[Engine(e)] = "queued" /\ case.status = "paused_human"
        /\ answer' = [answer EXCEPT ![e] = g]
    BY DEF ResumeRun, TInv, TypeOK, durable
  <1>2. EngineCall(e)
    BY DEF EngineCall
  <1>3. /\ BranchIn' /\ OneOpen' /\ (Opened' => Opened)
        /\ \A f \in Exec : /\ pc'[Run(f)] = pc[Run(f)]
                           /\ ScriptLive(f)' <=> ScriptLive(f)
                           /\ Opening(f)' <=> Opening(f)
                           /\ f # e => /\ pc'[Engine(f)] = pc[Engine(f)]
                                       /\ Launching(f)' <=> Launching(f)
        /\ \A u \in Worker : pc'[u] = pc[u]
    BY <1>2, CallKeeps
  <1>4. ~ Launching(e)'
    BY <1>1 DEF Launching
  <1>5. StillThere'
    BY <1>1, <1>3 DEF AnswerInv, StillThere
  <1>6. NoContinue'
    <2>1. g # None /\ answer \in [Exec -> Gates \cup {None}]
      BY KindAssumption DEF TInv, TypeOK
    <2> QED
      BY <1>1, <1>3, <2>1 DEF AnswerInv, NoContinue
  <1>7. Over'
    BY <1>1, <1>3, <1>4 DEF AnswerInv, Over, Active
  <1>8. ResolvesOpened' /\ Empty'
    BY <1>1, <1>3 DEF AnswerInv, ResolvesOpened, Empty
  <1>9. WhileOpen'
    BY <1>1, <1>3, <1>4 DEF AnswerInv, WhileOpen
  <1> QED
    BY <1>3, <1>5, <1>6, <1>7, <1>8, <1>9 DEF AnswerInv

LEMMA LockedAnswer ==
  ASSUME TInv, SoloInv, AnswerInv, NEW e \in Exec, Locked(e)
  PROVE  AnswerInv'
  <1> USE Threads
  <1>1. /\ pc[Engine(e)] = "queued" /\ answer' = answer
        /\ case' = case /\ journal' = journal /\ gate' = gate
    BY DEF Locked, durable
  <1>2. pc'[Engine(e)] = IF Refused(e) THEN "ended"
                         ELSE IF case.status = "paused_human" THEN "check" ELSE "load"
    BY LeaveType DEF Locked, TInv, TypeOK
  <1>3. answer[e] # None
    BY <1>1 DEF AnswerInv, NoContinue
  <1>4. pc'[Engine(e)] \in {"check", "ended"}
        /\ (pc'[Engine(e)] = "check" => case.status = "paused_human")
    BY <1>2, <1>3 DEF Refused
  <1>5. EngineCall(e)
    BY DEF EngineCall
  <1>6. /\ BranchIn' /\ OneOpen' /\ (Opened' => Opened)
        /\ \A f \in Exec : /\ pc'[Run(f)] = pc[Run(f)]
                           /\ ScriptLive(f)' <=> ScriptLive(f)
                           /\ Opening(f)' <=> Opening(f)
                           /\ f # e => /\ pc'[Engine(f)] = pc[Engine(f)]
                                       /\ Launching(f)' <=> Launching(f)
        /\ \A u \in Worker : pc'[u] = pc[u]
    BY <1>5, CallKeeps
  <1>7. Launching(e)' => pc'[Engine(e)] = "check"
    BY <1>4 DEF Launching
  <1>8. StillThere'
    BY <1>1, <1>6 DEF AnswerInv, StillThere
  <1>9. NoContinue'
    BY <1>1, <1>4, <1>6 DEF AnswerInv, NoContinue
  <1>10. Over'
    <2> SUFFICES ASSUME NEW h \in Exec, pc'[Run(h)] \in Terminal
                 PROVE  case'.status # "paused_human" /\ \A f \in Exec : ~ Active(f)'
      BY DEF Over
    <2>1. case.status # "paused_human" /\ \A f \in Exec : ~ Active(f)
      BY <1>6 DEF AnswerInv, Over
    <2>2. ~ Launching(e)'
      BY <1>4, <1>7, <2>1
    <2> QED
      BY <1>1, <1>6, <2>1, <2>2 DEF Active
  <1>11. ResolvesOpened'
    BY <1>1, <1>4, <1>6 DEF AnswerInv, ResolvesOpened
  <1>12. Empty'
    BY <1>1 DEF AnswerInv, Empty
  <1>13. WhileOpen'
    BY <1>1, <1>6, <1>7 DEF AnswerInv, WhileOpen
  <1> QED
    BY <1>6, <1>8, <1>9, <1>10, <1>11, <1>12, <1>13 DEF AnswerInv

LEMMA NoCrash ==
  ASSUME TInv, [Next]_vars, crashes' = 0
  PROVE  crashes = 0 /\ ~ Crash
  <1>1. crashes \in Nat
    BY DEF TInv, TypeOK
  <1>2. CASE Crash
    BY <1>1, <1>2 DEF Crash
  <1>3. CASE UNCHANGED vars
    BY <1>1, <1>3 DEF vars, Crash
  <1>4. CASE \E e \in Exec : EngineCall(e) \/ Execute(e) \/ Fork(e)
    <2>1. crashes' = crashes
      BY <1>4 DEF EngineCall, StartRun, RunStarted, ContinueRun, Locked, CheckGate,
                  ResolveGate, FlipStatus, Settled, TimeLimit, RunFinished, ResumeRun,
                  Execute, Fork
    <2> QED
      BY <1>1, <2>1 DEF Crash
  <1>5. CASE \E t \in Worker : WorkerStep(t)
    <2>1. crashes' = crashes
      BY <1>5 DEF WorkerStep, BeginStep, StepStarted, CallExecutor, ExecutorReturns,
                  ExecutorThrows, FinishStep, FailStep, OpenGate, Join
    <2> QED
      BY <1>1, <2>1 DEF Crash
  <1>6. CASE (\E t \in Thread : Updating(t)) \/ KillCall
    <2>1. crashes' = crashes
      BY <1>6 DEF Updating, ReadCase, WriteCase, KillCall, KillRun, KillFile, KillFinished
    <2> QED
      BY <1>1, <2>1 DEF Crash
  <1> QED
    BY <1>2, <1>3, <1>4, <1>5, <1>6, NextCases

LEMMA AnswerStep ==
  ASSUME ~ EagerContinue, Caught = {}, TInv, Begun, GateInv, SoloInv, AnswerInv,
         [Next]_vars, ~ Crash
  PROVE  AnswerInv'
  <1>1. CASE \E e \in Exec : EngineCall(e)
    BY <1>1, StartAnswer, NoneContinues, ResumeAnswer, LockedAnswer, WorkingCallAnswer
       DEF EngineCall, WorkingCall
  <1>2. CASE UNCHANGED vars
    BY <1>2 DEF vars, AnswerInv, StillThere, NoContinue, Over, Empty, BranchIn,
                ResolvesOpened, OneOpen, WhileOpen, Opened, Opening, OpenGateAt,
                Active, ScriptLive, Launching, StepOf
  <1> QED
    BY <1>1, <1>2, NextCases, ExecuteAnswer, ForkAnswer, WorkerAnswer, UpdatingAnswer, KillAnswer

LEMMA AnswerInit ==
  ASSUME Init
  PROVE  AnswerInv
  <1>1. \A t \in Thread : pc[t] = "off"
    BY DEF Init
  <1>2. \A e \in Exec : pc[Engine(e)] = "off" /\ pc[Run(e)] = "off"
    BY <1>1, Threads
  <1>3. journal = <<>> /\ case.status = "none"
    BY DEF Init
  <1>4. StillThere /\ NoContinue /\ Over /\ Empty /\ ResolvesOpened
    BY <1>2, <1>3 DEF StillThere, NoContinue, Over, Empty, ResolvesOpened, Terminal
  <1>5. BranchIn
    BY <1>1, Threads DEF BranchIn, Quiet
  <1>6. OneOpen /\ ~ Opened
    BY <1>3 DEF OneOpen, Opened
  <1> QED
    BY <1>4, <1>5, <1>6 DEF AnswerInv, WhileOpen

\* A gate that is open, in a run that nothing works on and that has not ended,
\* can be answered, on a run that nothing crashed and that only resumes go on.
LEMMA AnswerableNow ==
  ASSUME TInv, AnswerInv
  PROVE  OpenGateAnswerable
  <1> USE Threads
  <1> SUFFICES ASSUME FindOpenGate # None,
                      \A t \in Thread : \/ Stopped(t)
                                        \/ pc[t] \in Terminal \cup {"suspended", "joined"}
               PROVE  case.status \in {"paused_human"} \cup Terminal
    BY DEF OpenGateAnswerable
  <1>1. journal \in Seq(JournalEntry)
    BY DEF TInv, TypeOK
  <1>2. Opened
    BY <1>1, OpenGateExists DEF Opened
  <1>3. \A e \in Exec : ~ Opening(e)
    BY DEF Opening, Stopped, Terminal
  <1> QED
    BY <1>2, <1>3 DEF AnswerInv, WhileOpen

\* Unless continueRun is called on a run that this process executes, no order of
\* the writes of scripts, branches, calls and killRun leaves an open gate where
\* nobody can answer it.
THEOREM GatesAnswerable == ~ EagerContinue => (Spec => []OpenGateAnswerable)
  <1>1. CASE Caught # {}
    <2>1. OpenGateAnswerable
      BY <1>1 DEF OpenGateAnswerable
    <2> QED
      BY <2>1, PTL
  <1>2. CASE EagerContinue
    BY <1>2
  <1>3. CASE Caught = {} /\ ~ EagerContinue
    <2>1. Init => /\ GateInv /\ SoloInv /\ (crashes = 0 => AnswerInv)
      BY GateInit, SoloInit, AnswerInit
    <2>2. TInv /\ Begun /\ GateInv /\ SoloInv /\ [Next]_vars => GateInv' /\ SoloInv'
      BY <1>3, GateStep, SoloStep
    <2>3. TInv /\ Begun /\ GateInv /\ SoloInv /\ (crashes = 0 => AnswerInv) /\ [Next]_vars
            => (crashes = 0 => AnswerInv)'
      BY <1>3, NoCrash, AnswerStep
    <2>4. TInv /\ (crashes = 0 => AnswerInv) => OpenGateAnswerable
      BY AnswerableNow DEF OpenGateAnswerable
    <2> QED
      BY <2>1, <2>2, <2>3, <2>4, Typed, PTL DEF Spec
  <1> QED
    BY <1>1, <1>2, <1>3

-----------------------------------------------------------------------------
\* The budget. One execution works on the paid steps: the last one whose script
\* is running or over. Its live journal holds all that was paid, so that a step
\* begins only while the budget is not spent.

Holds(e) == ScriptLive(e) \/ pc[Run(e)] \in Terminal
OneOver == \A e, f \in Exec : pc[Run(e)] \in Terminal /\ pc[Run(f)] \in Terminal => e = f
\* A branch works for a fork that its script is at, fails on, or failed on.
AtFork == \A t \in Worker : t[2] \in Branch /\ pc[t] \notin Quiet =>
  \/ pc[Run(t[1])] \in Terminal
  \/ pc[Run(t[1])] = "fail" /\ StepOf(Run(t[1])) \in Forks
  \/ pc[Run(t[1])] = "join" /\ t[2] \in BranchOf[StepOf(Run(t[1]))]
OverInv == Over /\ OneOver /\ AtFork

\* A step after which no more is going on than before.
LEMMA OverFrame ==
  ASSUME SoloInv, SoloInv', OverInv,
         \A e \in Exec : /\ Active(e)' => Active(e)
                         /\ pc'[Run(e)] \in Terminal =>
                              \/ pc[Run(e)] \in Terminal
                              \/ ScriptLive(e) /\ case' = case,
         case'.status = "paused_human" => \/ case.status = "paused_human"
                                          \/ \E e \in Exec : Active(e)
  PROVE  Over' /\ OneOver'
  <1>1. ASSUME NEW e \in Exec, pc'[Run(e)] \in Terminal
        PROVE  ~ Active(e)'
    <2>1. pc'[Run(e)] # "off" /\ ~ ScriptLive(e)'
      BY <1>1 DEF Terminal, ScriptLive
    <2>2. ~ Ahead(e)'
      BY <2>1 DEF SoloInv, NotYet
    <2> QED
      BY <2>1, <2>2 DEF Active, Launching, Ahead
  <1>2. ASSUME NEW e \in Exec, ScriptLive(e)
        PROVE  /\ case.status # "paused_human"
               /\ \A f \in Exec : Active(f) => f = e
               /\ \A f \in Exec : pc[Run(f)] \notin Terminal
    <2>1. Active(e)
      BY <1>2 DEF Active
    <2> QED
      BY <1>2, <2>1 DEF SoloInv, Solo, Unpaused, Past, OverInv, Over
  <1>3. Over'
    <2> SUFFICES ASSUME NEW e \in Exec, pc'[Run(e)] \in Terminal
                 PROVE  case'.status # "paused_human" /\ \A f \in Exec : ~ Active(f)'
      BY DEF Over
    <2>1. CASE pc[Run(e)] \in Terminal
      BY <2>1 DEF OverInv, Over
    <2>2. CASE ScriptLive(e) /\ case' = case
      BY <1>1, <1>2, <2>2
    <2> QED
      BY <2>1, <2>2
  <1>4. OneOver'
    <2> SUFFICES ASSUME NEW e \in Exec, NEW f \in Exec,
                        pc'[Run(e)] \in Terminal, pc'[Run(f)] \in Terminal
                 PROVE  e = f
      BY DEF OneOver
    <2>1. /\ pc[Run(e)] \in Terminal \/ ScriptLive(e)
          /\ pc[Run(f)] \in Terminal \/ ScriptLive(f)
      OBVIOUS
    <2>2. (ScriptLive(e) => Active(e)) /\ (ScriptLive(f) => Active(f))
      BY DEF Active
    <2>3. ScriptLive(e) => e = f
      BY <1>2, <2>1, <2>2
    <2>4. ScriptLive(f) => e = f
      BY <1>2, <2>1, <2>2
    <2>5. pc[Run(e)] \in Terminal /\ pc[Run(f)] \in Terminal => e = f
      BY DEF OverInv, OneOver
    <2> QED
      BY <2>1, <2>3, <2>4, <2>5
  <1> QED
    BY <1>3, <1>4

\* The steps that leave the scripts at, and past, a fork where they are.
LEMMA ForksStay ==
  ASSUME AtFork, \A u : StepOf(u)' = StepOf(u),
         \A u \in Worker : u[2] \in Branch /\ pc'[u] \notin Quiet => pc[u] \notin Quiet,
         \A e \in Exec : pc[Run(e)] \in {"fail", "join"} \cup Terminal => pc'[Run(e)] = pc[Run(e)]
  PROVE  AtFork'
  <1> SUFFICES ASSUME NEW u \in Worker, u[2] \in Branch, pc'[u] \notin Quiet
               PROVE  \/ pc'[Run(u[1])] \in Terminal
                      \/ pc'[Run(u[1])] = "fail" /\ StepOf(Run(u[1]))' \in Forks
                      \/ /\ pc'[Run(u[1])] = "join"
                         /\ u[2] \in BranchOf[StepOf(Run(u[1]))']
    BY DEF AtFork
  <1>1. pc[u] \notin Quiet /\ u[1] \in Exec
    BY Threads
  <1>2. \/ pc[Run(u[1])] \in Terminal
        \/ pc[Run(u[1])] = "fail" /\ StepOf(Run(u[1])) \in Forks
        \/ pc[Run(u[1])] = "join" /\ u[2] \in BranchOf[StepOf(Run(u[1]))]
    BY <1>1 DEF AtFork
  <1> QED
    BY <1>1, <1>2

\* A script leaves its fork when the branches have joined, or it fails.
LEMMA LeavesFork ==
  ASSUME Caught \cap Forks = {}, TInv, NEW e \in Exec, WorkerStep(Run(e)),
         StepOf(Run(e)) \in Forks
  PROVE  /\ pc[Run(e)] = "join" =>
              \/ pc'[Run(e)] = "fail" /\ StepOf(Run(e))' = StepOf(Run(e))
              \/ \A b \in BranchOf[StepOf(Run(e))] : pc[<<e, b>>] = "joined"
         /\ pc[Run(e)] = "fail" => pc'[Run(e)] \in Terminal
  <1> USE Threads
  <1> DEFINE t == Run(e)
  <1>1. t \in Thread /\ t[1] = e /\ pc \in [Thread -> Await]
    BY DEF TInv, TypeOK
  <1>2. pc[t] = "join" => Join(e)
    BY DEF WorkerStep, BeginStep, StepStarted, CallExecutor, ExecutorReturns,
           ExecutorThrows, FinishStep, FailStep, OpenGate
  <1>3. Join(e) => \/ pc'[t] = "fail"
                   \/ \A b \in BranchOf[StepOf(t)] : pc[<<e, b>>] = "joined"
    BY <1>1 DEF Join
  <1>4. Join(e) => StepOf(t)' = StepOf(t)
    BY SamePlace DEF Join
  <1>5. pc[t] = "fail" => FailStep(t)
    BY DEF WorkerStep, BeginStep, StepStarted, CallExecutor, ExecutorReturns,
           ExecutorThrows, FinishStep, OpenGate, Join
  <1>6. pc[t] = "fail" => pend[t].then \in {"failed", "killed"}
    BY DEF TInv, Place, WorkerPlace
  <1>7. FailStep(t) => pc' = [pc EXCEPT ![t] = pend[t].then]
    BY DEF FailStep, Catches
  <1> QED
    BY <1>1, <1>2, <1>3, <1>4, <1>5, <1>6, <1>7 DEF Terminal

LEMMA WorkerForks ==
  ASSUME Caught \cap Forks = {}, TInv, AtFork, NEW t \in Worker, WorkerStep(t)
  PROVE  AtFork'
  <1> USE Threads
  <1>1. /\ pc[t] \in {"begin", "mark", "work", "busy", "finish", "fail", "gate", "join"}
        /\ OthersStay(t)
    BY WorkerQuiet
  <1>2. \A u \in Thread \ {t} : StepOf(u)' = StepOf(u)
    BY WorkerType DEF WorkerStep
  <1> SUFFICES ASSUME NEW u \in Worker, u[2] \in Branch, pc'[u] \notin Quiet
               PROVE  \/ pc'[Run(u[1])] \in Terminal
                      \/ pc'[Run(u[1])] = "fail" /\ StepOf(Run(u[1]))' \in Forks
                      \/ /\ pc'[Run(u[1])] = "join"
                         /\ u[2] \in BranchOf[StepOf(Run(u[1]))']
    BY DEF AtFork
  <1>3. pc[u] \notin Quiet
    BY <1>1 DEF OthersStay, Quiet, Terminal
  <1>4. \/ pc[Run(u[1])] \in Terminal
        \/ pc[Run(u[1])] = "fail" /\ StepOf(Run(u[1])) \in Forks
        \/ pc[Run(u[1])] = "join" /\ u[2] \in BranchOf[StepOf(Run(u[1]))]
    BY <1>3 DEF AtFork
  <1>5. CASE t # Run(u[1])
    BY <1>1, <1>2, <1>4, <1>5 DEF OthersStay
  <1>6. CASE t = Run(u[1])
    <2>1. u = <<u[1], u[2]>>
      BY DEF Worker
    <2>2. pc[t] = "join" => StepOf(t) \in Forks
      BY DEF TInv, Place, WorkerPlace
    <2>3. pc[t] = "join" => pc'[t] = "fail" /\ StepOf(t)' \in Forks
      <3>1. pc[t] = "join" => u[2] \in BranchOf[StepOf(t)]
        BY <1>4, <1>6 DEF Terminal
      <3> QED
        BY <1>3, <1>6, <2>1, <2>2, <3>1, LeavesFork DEF Quiet
    <2>4. pc[t] = "fail" => pc'[t] \in Terminal
      BY <1>4, <1>6, LeavesFork DEF Terminal
    <2> QED
      BY <1>1, <1>4, <1>6, <2>3, <2>4 DEF Terminal
  <1> QED
    BY <1>5, <1>6

LEMMA WorkerOver ==
  ASSUME Caught \cap Forks = {}, TInv, SoloInv, SoloInv', OverInv,
         NEW t \in Worker, WorkerStep(t)
  PROVE  OverInv'
  <1> USE Threads
  <1>1. case' = case /\ OthersStay(t)
    BY WorkerQuiet
  <1>2. \A e \in Exec : (Active(e)' => Active(e)) /\ (Run(e) = t => ScriptLive(e))
    BY WorkerKeeps
  <1>3. \A e \in Exec : pc'[Run(e)] \in Terminal => pc[Run(e)] \in Terminal \/ ScriptLive(e)
    BY <1>1, <1>2 DEF OthersStay
  <1>4. Over' /\ OneOver'
    BY <1>1, <1>2, <1>3, OverFrame
  <1>5. AtFork'
    BY WorkerForks DEF OverInv
  <1> QED
    BY <1>4, <1>5 DEF OverInv

LEMMA UpdatingOver ==
  ASSUME TInv, SoloInv, SoloInv', OverInv, NEW t \in Thread, Updating(t), t # Killer
  PROVE  OverInv'
  <1> USE Threads
  <1>1. /\ pc[t] \in {"read", "rename"} /\ OthersStay(t)
        /\ pc'[t] = pend[t].then \/ pc'[t] = "rename"
        /\ WriteCase(t) \/ case' = case
    BY UpdatingFacts
  <1>2. at' = at
    BY DEF Updating, ReadCase, WriteCase
  <1>3. \A e \in Exec : Active(e)' => Active(e)
    BY UpdatingMoves DEF Active
  <1>4. t \in Worker => /\ pc'[t] \notin {"off", "ended"} \cup Terminal
                        /\ pc[t] \notin {"fail", "join"} \cup Terminal \cup Quiet
    BY <1>1 DEF TInv, Place, WorkerPlace, AfterBegin, Terminal, Quiet
  <1>5. \A e \in Exec : pc'[Run(e)] \in Terminal => pc[Run(e)] \in Terminal
    BY <1>1, <1>4 DEF OthersStay
  <1>6. case'.status = "paused_human" => case.status = "paused_human" \/ \E e \in Exec : Active(e)
    <2> SUFFICES ASSUME WriteCase(t), case'.status = "paused_human"
                 PROVE  \E e \in Exec : Active(e)
      BY <1>1
    <2>1. CASE \E e \in Exec : t = Run(e)
      BY <1>1, <2>1 DEF Active, ScriptLive, Terminal
    <2>2. CASE \E e \in Exec : t = Engine(e) /\ pend[t].then = "flip"
      BY <1>1, <2>2 DEF Active, Launching
    <2> QED
      BY <2>1, <2>2, WriteStatus
  <1>7. Over' /\ OneOver'
    BY <1>3, <1>5, <1>6, OverFrame
  <1>8. AtFork'
    <2>1. \A u \in Worker : u[2] \in Branch /\ pc'[u] \notin Quiet => pc[u] \notin Quiet
      BY <1>1, <1>4 DEF OthersStay
    <2>2. \A e \in Exec : pc[Run(e)] \in {"fail", "join"} \cup Terminal => pc'[Run(e)] = pc[Run(e)]
      BY <1>1, <1>4 DEF OthersStay
    <2> QED
      BY <1>2, <2>1, <2>2, SamePlace, ForksStay DEF OverInv
  <1> QED
    BY <1>7, <1>8 DEF OverInv

LEMMA ExecuteOver ==
  ASSUME TInv, SoloInv, SoloInv', OverInv, NEW e \in Exec, Execute(e)
  PROVE  OverInv'
  <1> USE Threads
  <1>1. /\ pc'[Engine(e)] = "await" /\ pc'[Run(e)] = "begin" /\ pend' = pend
        /\ \A u \in Thread \ {Engine(e), Run(e)} : pc'[u] = pc[u]
        /\ \A u : StepOf(u)' = StepOf(u)
    BY ExecuteType
  <1>2. case' = case /\ pc[Engine(e)] = "load"
    BY DEF Execute, durable
  <1>3. Active(e) /\ pc[Run(e)] = "off"
    BY <1>2 DEF Active, Launching, SoloInv, NotYet, Ahead
  <1>4. \A f \in Exec : f # e => /\ pc'[Run(f)] = pc[Run(f)]
                                 /\ pc'[Engine(f)] = pc[Engine(f)]
    BY <1>1
  <1>5. \A f \in Exec : /\ Active(f)' => Active(f)
                        /\ pc'[Run(f)] \in Terminal => pc[Run(f)] \in Terminal
    <2> SUFFICES ASSUME NEW f \in Exec
                 PROVE  /\ Active(f)' => Active(f)
                        /\ pc'[Run(f)] \in Terminal => pc[Run(f)] \in Terminal
      OBVIOUS
    <2>1. CASE f = e
      BY <1>1, <1>3, <2>1 DEF Terminal
    <2>2. CASE f # e
      BY <1>1, <1>4, <2>2 DEF Active, ScriptLive, Launching
    <2> QED
      BY <2>1, <2>2
  <1>6. Over' /\ OneOver'
    BY <1>2, <1>5, OverFrame
  <1>7. AtFork'
    <2>1. \A u \in Worker : u[2] \in Branch => u # Run(e) /\ u # Engine(e)
      BY KindAssumption DEF Run
    <2>2. \A u \in Worker : u[2] \in Branch /\ pc'[u] \notin Quiet => pc[u] \notin Quiet
      BY <1>1, <2>1
    <2>3. \A f \in Exec : pc[Run(f)] \in {"fail", "join"} \cup Terminal => pc'[Run(f)] = pc[Run(f)]
      BY <1>3, <1>4 DEF Terminal
    <2> QED
      BY <1>1, <2>2, <2>3, ForksStay DEF OverInv
  <1> QED
    BY <1>6, <1>7 DEF OverInv

LEMMA ForkOver ==
  ASSUME TInv, SoloInv, SoloInv', OverInv, NEW e \in Exec, Fork(e)
  PROVE  OverInv'
  <1> USE Threads
  <1>1. /\ \A u \in Thread : \/ pc'[u] = pc[u]
                             \/ u \in Worker /\ u[1] = e /\ pc'[u] \in {"join", "begin"}
        /\ \A f \in Exec : pc'[Engine(f)] = pc[Engine(f)]
        /\ \A f \in Exec : f # e => pc'[Run(f)] = pc[Run(f)]
        /\ pc'[Run(e)] = "join" /\ pend' = pend
        /\ \A u : StepOf(u)' = StepOf(u)
    BY ForkType
  <1>2. case' = case /\ pc[Run(e)] = "fork"
    BY DEF Fork, durable
  <1>3. ScriptLive(e)
    BY <1>2 DEF ScriptLive, Terminal
  <1>4. \A f \in Exec : /\ Active(f)' => Active(f)
                        /\ pc'[Run(f)] \in Terminal => pc[Run(f)] \in Terminal
    <2> SUFFICES ASSUME NEW f \in Exec
                 PROVE  /\ Active(f)' => Active(f)
                        /\ pc'[Run(f)] \in Terminal => pc[Run(f)] \in Terminal
      OBVIOUS
    <2>1. CASE f = e
      BY <1>1, <1>3, <2>1 DEF Terminal, Active
    <2>2. CASE f # e
      BY <1>1, <2>2 DEF Active, ScriptLive, Launching
    <2> QED
      BY <2>1, <2>2
  <1>5. Over' /\ OneOver'
    BY <1>2, <1>4, OverFrame
  <1>6. AtFork'
    <2> SUFFICES ASSUME NEW u \in Worker, u[2] \in Branch, pc'[u] \notin Quiet
                 PROVE  \/ pc'[Run(u[1])] \in Terminal
                        \/ pc'[Run(u[1])] = "fail" /\ StepOf(Run(u[1]))' \in Forks
                        \/ /\ pc'[Run(u[1])] = "join"
                           /\ u[2] \in BranchOf[StepOf(Run(u[1]))']
      BY DEF AtFork
    <2>1. u[1] \in Exec /\ u # Run(e) /\ u \in Thread
      BY KindAssumption DEF Run
    <2>2. pc'[u] = IF u[1] = e /\ u[2] \in BranchOf[StepOf(Run(e))] THEN "begin" ELSE pc[u]
      <3>1. pc' = [t \in Thread |->
              IF t = Run(e) THEN "join"
              ELSE IF t[1] = e /\ t[2] \in BranchOf[StepOf(Run(e))] THEN "begin"
              ELSE pc[t]]
        BY DEF Fork
      <3> QED
        BY <2>1, <3>1
    <2>3. CASE u[1] = e /\ u[2] \in BranchOf[StepOf(Run(e))]
      BY <1>1, <2>3
    <2>4. CASE ~ (u[1] = e /\ u[2] \in BranchOf[StepOf(Run(e))])
      <3>1. pc[u] \notin Quiet
        BY <2>2, <2>4
      <3>2. \/ pc[Run(u[1])] \in Terminal
            \/ pc[Run(u[1])] = "fail" /\ StepOf(Run(u[1])) \in Forks
            \/ pc[Run(u[1])] = "join" /\ u[2] \in BranchOf[StepOf(Run(u[1]))]
        BY <3>1 DEF OverInv, AtFork
      <3>3. u[1] # e
        BY <1>2, <3>2 DEF Terminal
      <3> QED
        BY <1>1, <2>1, <3>2, <3>3
    <2> QED
      BY <2>3, <2>4
  <1> QED
    BY <1>5, <1>6 DEF OverInv

LEMMA KillOver ==
  ASSUME TInv, SoloInv, SoloInv', OverInv, KillCall \/ Updating(Killer)
  PROVE  OverInv'
  <1> USE Threads
  <1>1. OthersStay(Killer) /\ at' = at
    BY KillType, UpdatingFacts
       DEF KillCall, KillRun, KillFile, KillFinished, Updating, ReadCase, WriteCase
  <1>2. case'.status = "paused_human" => case.status = "paused_human"
    <2>1. case' = case \/ WriteCase(Killer)
      BY DEF KillCall, KillRun, KillFile, KillFinished, Updating, ReadCase, durable
    <2> QED
      BY <2>1, WriteStatus
  <1>3. \A u \in Thread \ {Killer} : pc'[u] = pc[u] /\ pend'[u] = pend[u]
    BY <1>1 DEF OthersStay
  <1>4. \A e \in Exec : /\ pc'[Engine(e)] = pc[Engine(e)] /\ pend'[Engine(e)] = pend[Engine(e)]
                        /\ pc'[Run(e)] = pc[Run(e)]
    BY <1>3
  <1>5. \A e \in Exec : Active(e)' <=> Active(e)
    BY <1>4 DEF Active, ScriptLive, Launching
  <1>6. Over' /\ OneOver'
    BY <1>2, <1>4, <1>5, OverFrame
  <1>7. AtFork'
    BY <1>1, <1>3, <1>4, SamePlace, ForksStay DEF OverInv
  <1> QED
    BY <1>6, <1>7 DEF OverInv

\* An engine call starts a script, or gets to its start, only where none is over.
LEMMA CallOver ==
  ASSUME TInv, SoloInv, SoloInv', OverInv, NEW e \in Exec, EngineCall(e)
  PROVE  OverInv'
  <1> USE Threads
  <1>1. OthersStay(Engine(e))
    BY EngineType DEF EngineCall
  <1>2. at' = at
    BY DEF EngineCall, StartRun, RunStarted, ContinueRun, Locked, CheckGate,
           ResolveGate, FlipStatus, Settled, TimeLimit, RunFinished, ResumeRun
  <1>3. \A u \in Worker : pc'[u] = pc[u] /\ pend'[u] = pend[u]
    BY <1>1 DEF OthersStay
  <1>4. AtFork'
    BY <1>2, <1>3, SamePlace, ForksStay DEF OverInv
  <1>5. \A f \in Exec : /\ ScriptLive(f)' <=> ScriptLive(f)
                        /\ pc'[Run(f)] = pc[Run(f)]
                        /\ f # e => (Launching(f)' <=> Launching(f))
    BY <1>1, <1>3 DEF OthersStay, ScriptLive, Launching
  <1>6. OneOver'
    BY <1>5 DEF OverInv, OneOver
  <1>7. case'.status = "paused_human" => case.status = "paused_human"
    BY DEF EngineCall, StartRun, RunStarted, ContinueRun, Locked, CheckGate, ResolveGate,
           FlipStatus, Settled, TimeLimit, RunFinished, ResumeRun, durable
  <1>8. ASSUME NEW h \in Exec, pc[Run(h)] \in Terminal
        PROVE  ~ Launching(e)'
    <2>1. /\ case.status # "paused_human" /\ ~ Launching(e)
          /\ Working(Run(h)) /\ Run(h) \in Thread \ {Killer}
      BY <1>8 DEF OverInv, Over, Active, Working, Stopped, Waiting, Terminal
    <2>2. ~ StartRun(e)
      <3>1. case.status # "none"
        BY <1>8, SomeRun DEF Terminal
      <3> QED
        BY <3>1 DEF StartRun
    <2>3. Locked(e) => pc'[Engine(e)] = "ended"
      <3> SUFFICES ASSUME Locked(e), ~ Refused(e)
                   PROVE  FALSE
        BY LeaveType DEF Locked
      <3>1. answer[e] = None /\ pc[Engine(e)] = "queued"
        BY <2>1 DEF Refused, Locked
      <3> QED
        BY <2>1, <3>1 DEF SoloInv, ContinuesAlone
    <2>4. ContinueRun(e) \/ (\E g \in Gates : ResumeRun(e, g)) => pc'[Engine(e)] = "queued"
      BY DEF ContinueRun, ResumeRun, TInv, TypeOK
    <2>5. WorkingCall(e) => ~ Launching(e)'
      <3> SUFFICES ASSUME WorkingCall(e) PROVE Launching(e)' => Launching(e)
        BY <2>1
      <3> QED
        BY WorkingCallMoves DEF Launching
    <2> QED
      BY <2>2, <2>3, <2>4, <2>5 DEF EngineCall, WorkingCall, Launching
  <1>9. Over'
    <2> SUFFICES ASSUME NEW h \in Exec, pc'[Run(h)] \in Terminal
                 PROVE  case'.status # "paused_human" /\ \A f \in Exec : ~ Active(f)'
      BY DEF Over
    <2>1. pc[Run(h)] \in Terminal
      BY <1>5
    <2>2. case.status # "paused_human" /\ \A f \in Exec : ~ Active(f)
      BY <2>1 DEF OverInv, Over
    <2> QED
      BY <1>5, <1>7, <1>8, <2>1, <2>2 DEF Active
  <1> QED
    BY <1>4, <1>6, <1>9 DEF OverInv

\* Nothing of a run is left in a process that died.
LEMMA CrashStops ==
  ASSUME TInv, Begun, Crash
  PROVE  \A t \in Thread : pc'[t] \in {"off", "ended"}
  <1> USE Threads
  <1>1. pc' = [t \in Thread |->
                 IF t = Killer THEN "off"
                 ELSE IF pc[Engine(t[1])] = "off" THEN pc[t] ELSE "ended"]
    BY DEF Crash
  <1> SUFFICES ASSUME NEW t \in Thread PROVE pc'[t] \in {"off", "ended"}
    OBVIOUS
  <1>2. CASE t = Killer
    BY <1>1, <1>2
  <1>3. CASE t \in Worker
    BY <1>1, <1>3 DEF Begun
  <1>4. CASE \E e \in Exec : t = Engine(e)
    BY <1>1, <1>4
  <1> QED
    BY <1>2, <1>3, <1>4, ThreadCases

LEMMA OverStep ==
  ASSUME ~ EagerContinue, Caught \cap Forks = {}, TInv, Begun, SoloInv, OverInv, [Next]_vars
  PROVE  OverInv'
  <1> USE Threads
  <1>1. SoloInv'
    BY SoloStep
  <1>2. CASE Crash
    <2>1. \A t \in Thread : pc'[t] \in {"off", "ended"}
      BY <1>2, CrashStops
    <2>2. \A t \in Worker : pc'[t] \in Quiet
      BY <2>1 DEF Quiet
    <2>3. \A e \in Exec : pc'[Run(e)] \notin Terminal
      BY <2>1 DEF Terminal
    <2> QED
      BY <2>2, <2>3 DEF OverInv, Over, OneOver, AtFork
  <1>3. CASE UNCHANGED vars
    BY <1>3 DEF vars, OverInv, Over, OneOver, AtFork, Active, ScriptLive, Launching, StepOf
  <1> QED
    BY <1>1, <1>2, <1>3, NextCases, CallOver, ExecuteOver, ForkOver, WorkerOver, UpdatingOver,
       KillOver

LEMMA OverInit ==
  ASSUME Init
  PROVE  OverInv
  <1> USE Threads
  <1>1. \A t \in Thread : pc[t] = "off"
    BY DEF Init
  <1>2. \A e \in Exec : pc[Run(e)] \notin Terminal
    BY <1>1 DEF Terminal
  <1>3. \A t \in Worker : pc[t] \in Quiet
    BY <1>1 DEF Quiet
  <1> QED
    BY <1>2, <1>3 DEF OverInv, Over, OneOver, AtFork

\* One execution works on steps at a time, with its script or with branches of it.
LEMMA OneHolds ==
  ASSUME SoloInv, OverInv, NEW e \in Exec, NEW f \in Exec, Holds(e), Holds(f)
  PROVE  e = f
  BY DEF Holds, SoloInv, Solo, OverInv, Over, OneOver, Active

LEMMA BranchHolds ==
  ASSUME AtFork, NEW t \in Worker, t[2] \in Branch, pc[t] \notin Quiet
  PROVE  Holds(t[1]) /\ pc[Run(t[1])] \in {"fail", "join"} \cup Terminal
  <1> USE Threads
  <1>1. t[1] \in Exec /\ pc[Run(t[1])] \in {"fail", "join"} \cup Terminal
    BY DEF AtFork
  <1> QED
    BY <1>1 DEF Holds, ScriptLive, Terminal

\* The paid steps that are begun and not recorded, and those that are recorded.
InWork == {"mark", "read", "rename", "work", "busy", "finish"}
Flight == {t \in Worker : StepOf(t) \in Paid /\ pc[t] \in InWork}
PaidEntries == {x \in Range(journal) : x.type = "step_finished" /\ x.step \in Paid}
FlightBounded == IsFiniteSet(Flight) /\ Cardinality(Flight) <= InFlight

LEMMA FlightShape ==
  ASSUME TInv, SoloInv, OverInv
  PROVE  \/ \E e \in Exec : Flight \subseteq {e} \X Branch
         \/ \E e \in Exec : Flight \subseteq {Run(e)}
         \/ Flight = {}
  <1> USE Threads
  <1>1. \A t \in Flight : t[2] \in Branch => /\ Holds(t[1])
                                             /\ pc[Run(t[1])] \notin InWork
    <2> SUFFICES ASSUME NEW t \in Flight, t[2] \in Branch
                 PROVE  Holds(t[1]) /\ pc[Run(t[1])] \notin InWork
      OBVIOUS
    <2>1. t \in Worker /\ pc[t] \notin Quiet
      BY DEF Flight, InWork, Quiet, Terminal
    <2> QED
      BY <2>1, BranchHolds DEF OverInv, InWork, Terminal
  <1>2. \A t \in Flight : /\ t \in Worker /\ t[1] \in Exec /\ t = <<t[1], t[2]>>
                          /\ t[2] \notin Branch => t = Run(t[1]) /\ Holds(t[1])
    BY DEF Flight, Worker, Run, Holds, ScriptLive, InWork, Terminal
  <1>3. CASE \E t \in Flight : t[2] \in Branch
    <2>1. PICK t \in Flight : t[2] \in Branch
      BY <1>3
    <2>2. ASSUME NEW u \in Flight
          PROVE  u \in {t[1]} \X Branch
      <3>1. Holds(u[1]) /\ Holds(t[1])
        BY <1>1, <1>2, <2>1
      <3>2. u[1] = t[1]
        BY <1>2, <2>1, <3>1, OneHolds
      <3>3. u[2] \in Branch
        <4> SUFFICES ASSUME u[2] \notin Branch PROVE FALSE
          OBVIOUS
        <4>1. u = Run(t[1])
          BY <1>2, <3>2
        <4> QED
          BY <1>1, <2>1, <4>1 DEF Flight
      <3>4. u = <<u[1], u[2]>>
        BY <1>2
      <3> QED
        BY <3>2, <3>3, <3>4
    <2> QED
      BY <1>2, <2>2
  <1>4. CASE (\A t \in Flight : t[2] \notin Branch) /\ Flight # {}
    <2>1. PICK t \in Flight : TRUE
      BY <1>4
    <2>2. ASSUME NEW u \in Flight
          PROVE  u = Run(t[1])
      <3>1. /\ Holds(u[1]) /\ Holds(t[1]) /\ u = Run(u[1])
            /\ u[1] \in Exec /\ t[1] \in Exec
        BY <1>2, <1>4, <2>1
      <3> QED
        BY <3>1, OneHolds
    <2>3. t[1] \in Exec
      BY <1>2
    <2> QED
      BY <2>2, <2>3
  <1> QED
    BY <1>3, <1>4

LEMMA FlightIsBounded ==
  ASSUME TInv, SoloInv, OverInv
  PROVE  FlightBounded
  <1>1. /\ IsFiniteSet(Branch) /\ Cardinality(Branch) \in Nat
        /\ Branch # {} => Cardinality(Branch) >= 1
        /\ InFlight \in Nat /\ InFlight >= 1
    <2>1. IsFiniteSet(Branch) /\ Cardinality(Branch) \in Nat
      BY ScriptAssumption, FS_CardinalityType
    <2>2. Branch # {} => Cardinality(Branch) # 0
      BY <2>1, FS_EmptySet
    <2> QED
      BY <2>1, <2>2 DEF InFlight
  <1>2. ASSUME NEW e \in Exec, Flight \subseteq {e} \X Branch
        PROVE  FlightBounded
    <2>1. CASE Branch = {}
      <3>1. Flight = {}
        BY <1>2, <2>1
      <3> QED
        BY <1>1, <3>1, FS_EmptySet DEF FlightBounded
    <2>2. CASE Branch # {}
      <3>1. IsFiniteSet({e}) /\ Cardinality({e}) = 1
        BY FS_Singleton
      <3>2. /\ IsFiniteSet({e} \X Branch)
            /\ Cardinality({e} \X Branch) = 1 * Cardinality(Branch)
        BY <1>1, <3>1, FS_Product
      <3>3. Flight \in SUBSET ({e} \X Branch)
        BY <1>2
      <3>4. IsFiniteSet(Flight) /\ Cardinality(Flight) <= Cardinality({e} \X Branch)
        BY <3>2, <3>3, FS_Subset
      <3>5. Cardinality({e} \X Branch) = InFlight
        BY <1>1, <2>2, <3>2 DEF InFlight
      <3> QED
        BY <3>4, <3>5 DEF FlightBounded
    <2> QED
      BY <2>1, <2>2
  <1>3. ASSUME NEW e \in Exec, Flight \subseteq {Run(e)}
        PROVE  FlightBounded
    <2>1. IsFiniteSet({Run(e)}) /\ Cardinality({Run(e)}) = 1
      BY FS_Singleton
    <2>2. Flight \in SUBSET {Run(e)}
      BY <1>3
    <2>3. IsFiniteSet(Flight) /\ Cardinality(Flight) <= 1
      BY <2>1, <2>2, FS_Subset
    <2>4. Cardinality(Flight) \in Nat
      BY <2>3, FS_CardinalityType
    <2> QED
      BY <1>1, <2>3, <2>4 DEF FlightBounded
  <1>4. CASE Flight = {}
    BY <1>1, <1>4, FS_EmptySet DEF FlightBounded
  <1> QED
    BY <1>2, <1>3, <1>4, FlightShape

\* What was paid, the execution at work knows, and what is in flight fits in.
SeesPaid == \A e \in Exec : Holds(e) => PaidEntries \subseteq live[e]
PaidBounded ==
  /\ IsFiniteSet(PaidEntries)
  /\ MaxTokens > 0 => Cardinality(PaidEntries) + Cardinality(Flight) <= MaxTokens + InFlight
PaidInv == SeesPaid /\ PaidBounded

LEMMA BoundsType ==
  /\ MaxTokens \in Nat /\ InFlight \in Nat
  /\ \A S : IsFiniteSet(S) => Cardinality(S) \in Nat
  <1>1. Cardinality(Branch) \in Nat
    BY ScriptAssumption, FS_CardinalityType
  <1> QED
    BY <1>1, BoundAssumption, FS_CardinalityType DEF InFlight

LEMMA BoundedLess ==
  ASSUME PaidBounded, FlightBounded, PaidEntries' = PaidEntries, Flight' \subseteq Flight
  PROVE  PaidBounded'
  <1>1. Flight' \in SUBSET Flight /\ IsFiniteSet(Flight)
    BY DEF FlightBounded
  <1>2. IsFiniteSet(Flight') /\ Cardinality(Flight') <= Cardinality(Flight)
    BY <1>1, FS_Subset
  <1>3. /\ Cardinality(Flight') \in Nat /\ Cardinality(Flight) \in Nat
        /\ Cardinality(PaidEntries) \in Nat /\ MaxTokens \in Nat /\ InFlight \in Nat
        /\ IsFiniteSet(PaidEntries)
    BY <1>1, <1>2, BoundsType DEF PaidBounded
  <1>4. MaxTokens > 0 =>
          Cardinality(PaidEntries) + Cardinality(Flight) <= MaxTokens + InFlight
    BY DEF PaidBounded
  <1>5. MaxTokens > 0 =>
          Cardinality(PaidEntries) + Cardinality(Flight') <= MaxTokens + InFlight
    BY <1>2, <1>3, <1>4
  <1>6. InFlight' = InFlight
    BY DEF InFlight
  <1> QED
    BY <1>3, <1>5, <1>6 DEF PaidBounded

\* No paid step begins or is recorded.
LEMMA PaidFrame ==
  ASSUME TInv, PaidInv, FlightBounded, live' = live, Flight' \subseteq Flight,
         \A e \in Exec : Holds(e)' => Holds(e),
         \/ journal' = journal
         \/ \E x \in JournalEntry : AppendJournal(x) /\ x.type # "step_finished"
  PROVE  PaidInv'
  <1>1. journal \in Seq(JournalEntry)
    BY DEF TInv, TypeOK
  <1>2. PaidEntries' = PaidEntries
    <2>1. CASE journal' = journal
      BY <2>1 DEF PaidEntries
    <2>2. ASSUME NEW x \in JournalEntry, AppendJournal(x), x.type # "step_finished"
          PROVE  PaidEntries' = PaidEntries
      <3>1. Range(journal') = Range(journal) \cup {x}
        BY <1>1, <2>2, JournalGrows
      <3> QED
        BY <2>2, <3>1 DEF PaidEntries
    <2> QED
      BY <2>1, <2>2
  <1>3. SeesPaid'
    BY <1>2 DEF PaidInv, SeesPaid
  <1>4. PaidBounded'
    BY <1>2, BoundedLess DEF PaidInv
  <1> QED
    BY <1>3, <1>4 DEF PaidInv

\* A step of the script or of a branch is in flight from its beginning until it
\* is recorded.
LEMMA WorkerFlight ==
  ASSUME TInv, NEW t \in Worker, WorkerStep(t), pc'[t] \in InWork, StepOf(t)' \in Paid
  PROVE  /\ StepOf(t)' = StepOf(t) /\ ~ FinishStep(t)
         /\ pc[t] \in InWork \/ (BeginStep(t) /\ ~ OverBudget(t[1]))
  <1> USE Threads
  <1> DEFINE s == StepOf(t)
  <1>1. /\ t \in Thread /\ pc \in [Thread -> Await] /\ pend \in [Thread -> Update]
    BY DEF TInv, TypeOK
  <1>2. ~ NextStep(t)
    BY NextStepType DEF InWork
  <1>3. ~ FinishStep(t)
    BY <1>2 DEF FinishStep
  <1>4. pc[t] = "fail" => pend[t].then \in {"failed", "killed"}
    BY DEF TInv, Place, WorkerPlace
  <1>5. ~ FailStep(t)
    <2>1. FailStep(t) => pc'[t] \in {"failed", "killed"}
      BY <1>1, <1>2, <1>4 DEF FailStep
    <2> QED
      BY <2>1 DEF InWork
  <1>6. CASE BeginStep(t)
    <2>1. \/ pc' = [pc EXCEPT ![t] = IF IsKilled THEN "killed" ELSE "failed"]
          \/ ~ OverBudget(t[1]) /\ at' = at
      BY <1>2, <1>6 DEF BeginStep
    <2>2. pc'[t] \notin {"killed", "failed"}
      BY DEF InWork
    <2>3. ~ OverBudget(t[1]) /\ at' = at
      BY <1>1, <2>1, <2>2
    <2> QED
      BY <1>3, <1>6, <2>3, SamePlace
  <1>7. CASE StepStarted(t) \/ CallExecutor(t) \/ ExecutorReturns(t) \/ ExecutorThrows(t)
    <2>1. at' = at /\ pc[t] \in InWork
      BY <1>7 DEF StepStarted, CallExecutor, ExecutorReturns, ExecutorThrows, InWork
    <2> QED
      BY <1>3, <2>1, SamePlace
  <1>8. CASE \E e \in Exec : t = Run(e) /\ (OpenGate(e) \/ Join(e))
    <2>1. at' = at /\ pc[t] \in {"gate", "join"}
      BY <1>8 DEF OpenGate, Join
    <2>2. StepOf(t)' = s /\ s \in Gates \cup Forks
      BY <2>1, SamePlace DEF TInv, Place, WorkerPlace
    <2> QED
      BY <2>2, KindAssumption DEF Paid
  <1> QED
    BY <1>3, <1>5, <1>6, <1>7, <1>8 DEF WorkerStep

LEMMA WorkerHolds ==
  ASSUME TInv, SoloInv, OverInv, NEW t \in Worker, WorkerStep(t)
  PROVE  Holds(t[1]) /\ \A e \in Exec : Holds(e)' => Holds(e)
  <1> USE Threads
  <1>1. /\ pc[t] \in {"begin", "mark", "work", "busy", "finish", "fail", "gate", "join"}
        /\ OthersStay(t)
    BY WorkerQuiet
  <1>2. \A e \in Exec : (ScriptLive(e)' => ScriptLive(e)) /\ (Run(e) = t => ScriptLive(e))
    BY WorkerKeeps
  <1>3. Holds(t[1])
    <2>1. CASE t[2] \in Branch
      BY <1>1, <2>1, BranchHolds DEF OverInv, Quiet, Terminal
    <2>2. CASE t = Run(t[1])
      BY <1>2, <2>2 DEF Holds
    <2> QED
      BY <2>1, <2>2
  <1>4. \A e \in Exec : Holds(e)' => Holds(e)
    BY <1>1, <1>2 DEF Holds, OthersStay
  <1> QED
    BY <1>3, <1>4

\* Another paid step is in flight: it fits in, for the budget is not spent.
LEMMA BegunFits ==
  ASSUME TInv, SeesJournal, PaidInv, FlightBounded', PaidEntries' = PaidEntries,
         NEW e \in Exec, Holds(e), ~ OverBudget(e)
  PROVE  PaidBounded'
  <1>1. PaidEntries = {x \in live[e] : x.type = "step_finished" /\ x.step \in Paid}
    BY DEF PaidInv, SeesPaid, SeesJournal, PaidEntries
  <1>2. Spent(e) = Cardinality(PaidEntries)
    BY <1>1 DEF Spent
  <1>3. /\ Cardinality(PaidEntries) \in Nat /\ MaxTokens \in Nat /\ InFlight \in Nat
        /\ IsFiniteSet(PaidEntries)
    BY BoundsType DEF PaidInv, PaidBounded
  <1>4. MaxTokens > 0 => Cardinality(PaidEntries) <= MaxTokens
    BY <1>2, <1>3 DEF OverBudget
  <1>5. InFlight' = InFlight
    BY DEF InFlight
  <1>6. IsFiniteSet(Flight') /\ Cardinality(Flight') <= InFlight
    BY <1>5 DEF FlightBounded
  <1>7. Cardinality(Flight') \in Nat
    BY <1>6, BoundsType
  <1>8. MaxTokens > 0 =>
          Cardinality(PaidEntries) + Cardinality(Flight') <= MaxTokens + InFlight
    BY <1>3, <1>4, <1>6, <1>7
  <1> QED
    BY <1>3, <1>5, <1>8 DEF PaidBounded

\* A paid step is recorded: it is in flight no more.
LEMMA RecordedFits ==
  ASSUME PaidInv, FlightBounded, NEW x, PaidEntries' = PaidEntries \cup {x},
         NEW t \in Flight, Flight' = Flight \ {t}
  PROVE  PaidBounded'
  <1>1. /\ IsFiniteSet(PaidEntries) /\ IsFiniteSet(Flight)
        /\ MaxTokens > 0 =>
             Cardinality(PaidEntries) + Cardinality(Flight) <= MaxTokens + InFlight
    BY DEF PaidInv, PaidBounded, FlightBounded
  <1>2. /\ IsFiniteSet(PaidEntries')
        /\ Cardinality(PaidEntries') =
             IF x \in PaidEntries THEN Cardinality(PaidEntries) ELSE Cardinality(PaidEntries) + 1
    BY <1>1, FS_AddElement
  <1>3. Cardinality(Flight') = Cardinality(Flight) - 1
    BY <1>1, FS_RemoveElement
  <1>4. /\ Cardinality(PaidEntries) \in Nat /\ Cardinality(Flight) \in Nat
        /\ MaxTokens \in Nat /\ InFlight \in Nat
    BY <1>1, BoundsType
  <1>5. MaxTokens > 0 =>
          Cardinality(PaidEntries') + Cardinality(Flight') <= MaxTokens + InFlight
    BY <1>1, <1>2, <1>3, <1>4
  <1>6. InFlight' = InFlight
    BY DEF InFlight
  <1> QED
    BY <1>2, <1>5, <1>6 DEF PaidBounded

LEMMA WorkerPaid ==
  ASSUME TInv, SeesJournal, SoloInv, OverInv, PaidInv, FlightBounded, FlightBounded',
         NEW t \in Worker, WorkerStep(t)
  PROVE  PaidInv'
  <1> USE Threads
  <1> DEFINE e == t[1]
  <1>1. /\ OthersStay(t) /\ \A u \in Thread \ {t} : StepOf(u)' = StepOf(u)
    BY WorkerType DEF WorkerStep
  <1>2. /\ journal \in Seq(JournalEntry) /\ live \in [Exec -> SUBSET JournalEntry]
        /\ e \in Exec
    BY DEF TInv, TypeOK
  <1>3. /\ Holds(e)
        /\ \A f \in Exec : Holds(f)' => Holds(f)
    BY WorkerHolds
  <1>4. \A f \in Exec : Holds(f)' => f = e
    BY <1>2, <1>3, OneHolds
  <1>5. \A u \in Worker : u # t => (u \in Flight' <=> u \in Flight)
    BY <1>1 DEF OthersStay, Flight
  <1>6. Flight \subseteq Worker /\ Flight' \subseteq Worker
    BY DEF Flight
  <1>7. \/ journal' = journal /\ live' = live
        \/ \E x \in JournalEntry :
             /\ AppendLive(e, x) /\ x.step = StepOf(t)
             /\ x.type = "step_finished" <=> FinishStep(t)
    BY WorkerAppends
  <1> HIDE DEF e
  <1>8. CASE FinishStep(t) /\ StepOf(t) \in Paid
    <2>1. t \in Flight
      BY <1>8 DEF Flight, FinishStep, InWork
    <2>2. t \notin Flight'
      BY WorkerFlight, <1>8 DEF Flight
    <2>3. Flight' = Flight \ {t}
      BY <1>5, <1>6, <2>1, <2>2
    <2>4. journal' # journal
      BY <1>2, <1>8 DEF FinishStep, AppendLive, AppendJournal
    <2>5. PICK x \in JournalEntry : /\ AppendLive(e, x) /\ x.step = StepOf(t)
                                    /\ x.type = "step_finished"
      BY <1>7, <1>8, <2>4
    <2>6. Range(journal') = Range(journal) \cup {x} /\ live'[e] = live[e] \cup {x}
      BY <1>2, <2>5, JournalGrows DEF AppendLive
    <2>7. PaidEntries' = PaidEntries \cup {x}
      BY <1>8, <2>5, <2>6 DEF PaidEntries
    <2>8. SeesPaid'
      BY <1>2, <1>3, <1>4, <2>6, <2>7 DEF PaidInv, SeesPaid
    <2>9. PaidBounded'
      BY <2>1, <2>3, <2>7, RecordedFits
    <2> QED
      BY <2>8, <2>9 DEF PaidInv
  <1>9. CASE ~ (FinishStep(t) /\ StepOf(t) \in Paid)
    <2>1. PaidEntries' = PaidEntries /\ live[e] \subseteq live'[e]
      <3>1. CASE journal' = journal /\ live' = live
        BY <3>1 DEF PaidEntries
      <3>2. ASSUME NEW x \in JournalEntry, AppendLive(e, x), x.step = StepOf(t),
                   x.type = "step_finished" <=> FinishStep(t)
            PROVE  PaidEntries' = PaidEntries /\ live[e] \subseteq live'[e]
        <4>1. Range(journal') = Range(journal) \cup {x} /\ live'[e] = live[e] \cup {x}
          BY <1>2, <3>2, JournalGrows DEF AppendLive
        <4>2. ~ (x.type = "step_finished" /\ x.step \in Paid)
          BY <1>9, <3>2
        <4> QED
          BY <4>1, <4>2 DEF PaidEntries
      <3> QED
        BY <1>7, <3>1, <3>2
    <2>2. SeesPaid'
      BY <1>2, <1>3, <1>4, <2>1 DEF PaidInv, SeesPaid
    <2>3. PaidBounded'
      <3>1. CASE t \in Flight' /\ t \notin Flight
        <4>1. pc'[t] \in InWork /\ StepOf(t)' \in Paid
          BY <3>1 DEF Flight
        <4>2. StepOf(t)' = StepOf(t)
          BY <4>1, WorkerFlight
        <4>3. pc[t] \notin InWork
          BY <3>1, <4>1, <4>2 DEF Flight
        <4>4. ~ OverBudget(e)
          BY <4>1, <4>3, WorkerFlight DEF e
        <4> QED
          BY <1>2, <1>3, <2>1, <4>4, BegunFits
      <3>2. CASE t \notin Flight' \/ t \in Flight
        <4>1. Flight' \subseteq Flight
          BY <1>5, <1>6, <3>2
        <4> QED
          BY <2>1, <4>1, BoundedLess DEF PaidInv
      <3> QED
        BY <3>1, <3>2
    <2> QED
      BY <2>2, <2>3 DEF PaidInv
  <1> QED
    BY <1>8, <1>9

\* Other steps begin and record no paid step; a script that starts has read all
\* that was paid.
LEMMA PaidStep ==
  ASSUME TInv, Begun, SeesJournal, SoloInv, OverInv, PaidInv, FlightBounded, FlightBounded',
         [Next]_vars
  PROVE  PaidInv'
  <1> USE Threads
  <1>1. \A type \in {"run_started", "run_finished"} :
          Entry(type, None, None) \in JournalEntry /\ Entry(type, None, None).type = type
    BY DEF Entry, JournalEntry, EntryType
  <1>2. ASSUME at' = at, \A u \in Worker : pc'[u] \in InWork => pc[u] \in InWork
        PROVE  Flight' \subseteq Flight
    BY <1>2, SamePlace DEF Flight
  <1>3. CASE \E e \in Exec : EngineCall(e)
    <2>1. PICK e \in Exec : EngineCall(e)
      BY <1>3
    <2>2. live' = live /\ at' = at
      BY <2>1 DEF EngineCall, StartRun, RunStarted, ContinueRun, Locked, CheckGate,
                  ResolveGate, FlipStatus, Settled, TimeLimit, RunFinished, ResumeRun
    <2>3. pc[Engine(e)] = "resolve" => gate[e] \in Gates /\ answer[e] \in Gates \cup {None}
      BY DEF TInv, GateKnown, TypeOK
    <2>4. pc[Engine(e)] = "resolve" =>
            /\ Entry("gate_resolved", gate[e], answer[e]) \in JournalEntry
            /\ Entry("gate_resolved", gate[e], answer[e]).type # "step_finished"
      BY <2>3 DEF Entry, JournalEntry, EntryType, Steps
    <2>5. \/ journal' = journal
          \/ \E x \in JournalEntry : AppendJournal(x) /\ x.type # "step_finished"
      BY <1>1, <2>1, <2>4
         DEF EngineCall, StartRun, RunStarted, ContinueRun, Locked, CheckGate,
             ResolveGate, FlipStatus, Settled, TimeLimit, RunFinished, ResumeRun, durable
    <2>6. \A u \in Worker : pc'[u] = pc[u]
      BY <2>1, EngineType DEF EngineCall, OthersStay
    <2>7. \A f \in Exec : Holds(f)' => Holds(f)
      BY <2>6 DEF Holds, ScriptLive
    <2> QED
      BY <1>2, <2>2, <2>5, <2>6, <2>7, PaidFrame
  <1>4. CASE \E e \in Exec : Execute(e)
    <2>1. PICK e \in Exec : Execute(e)
      BY <1>4
    <2>2. /\ journal' = journal /\ at' = at /\ live' = [live EXCEPT ![e] = Range(journal)]
      BY <2>1 DEF Execute, durable
    <2>3. /\ pc'[Run(e)] = "begin"
          /\ \A u \in Worker : u # Run(e) => pc'[u] = pc[u]
          /\ \A f \in Exec : f # e => live'[f] = live[f]
          /\ live'[e] = Range(journal)
      <3>1. /\ pc'[Run(e)] = "begin"
            /\ \A u \in Thread \ {Engine(e), Run(e)} : pc'[u] = pc[u]
        BY <2>1, ExecuteType
      <3>2. \A u \in Worker : u # Engine(e) /\ u \in Thread
        OBVIOUS
      <3>3. live \in [Exec -> SUBSET JournalEntry]
        BY DEF TInv, TypeOK
      <3> QED
        BY <2>2, <3>1, <3>2, <3>3
    <2>4. PaidEntries' = PaidEntries /\ PaidEntries \subseteq Range(journal)
      BY <2>2 DEF PaidEntries
    <2>5. SeesPaid'
      <3> SUFFICES ASSUME NEW f \in Exec, Holds(f)'
                   PROVE  PaidEntries \subseteq live'[f]
        BY <2>4 DEF SeesPaid
      <3>1. CASE f = e
        BY <2>3, <2>4, <3>1
      <3>2. CASE f # e
        <4>1. Run(f) # Run(e)
          BY <3>2
        <4>2. Holds(f)
          BY <2>3, <4>1 DEF Holds, ScriptLive
        <4> QED
          BY <2>3, <3>2, <4>2 DEF PaidInv, SeesPaid
      <3> QED
        BY <3>1, <3>2
    <2>6. Flight' \subseteq Flight
      BY <1>2, <2>2, <2>3 DEF InWork
    <2> QED
      BY <2>4, <2>5, <2>6, BoundedLess DEF PaidInv
  <1>5. CASE \E e \in Exec : Fork(e)
    <2>1. PICK e \in Exec : Fork(e)
      BY <1>5
    <2>2. live' = live /\ at' = at /\ journal' = journal /\ pc[Run(e)] = "fork"
      BY <2>1 DEF Fork, durable
    <2>3. /\ \A f \in Exec : f # e => pc'[Run(f)] = pc[Run(f)]
          /\ \A u \in Worker : pc'[u] = pc[u] \/ pc'[u] \in {"join", "begin"}
          /\ pc'[Run(e)] = "join"
      BY <2>1, ForkType
    <2>4. \A f \in Exec : Holds(f)' => Holds(f)
      BY <2>2, <2>3 DEF Holds, ScriptLive, Terminal
    <2>5. Flight' \subseteq Flight
      BY <1>2, <2>2, <2>3 DEF InWork
    <2> QED
      BY <2>2, <2>4, <2>5, PaidFrame
  <1>6. CASE \E t \in Worker : WorkerStep(t)
    BY <1>6, WorkerPaid
  <1>7. CASE \E t \in Thread : Updating(t)
    <2>1. PICK t \in Thread : Updating(t)
      BY <1>7
    <2>2. /\ pc[t] \in {"read", "rename"} /\ OthersStay(t)
          /\ pc'[t] = pend[t].then \/ pc'[t] = "rename"
      BY <2>1, UpdatingFacts
    <2>3. live' = live /\ at' = at /\ journal' = journal
      BY <2>1 DEF Updating, ReadCase, WriteCase, durable
    <2>4. \A f \in Exec : Holds(f)' => Holds(f)
      <3> SUFFICES ASSUME NEW f \in Exec, Holds(f)' PROVE Holds(f)
        OBVIOUS
      <3>1. CASE Run(f) = t
        BY <2>2, <3>1 DEF Holds, ScriptLive, Terminal
      <3>2. CASE Run(f) # t
        BY <2>2, <3>2 DEF OthersStay, Holds, ScriptLive
      <3> QED
        BY <3>1, <3>2
    <2>5. Flight' \subseteq Flight
      BY <1>2, <2>2, <2>3 DEF InWork, OthersStay
    <2> QED
      BY <2>3, <2>4, <2>5, PaidFrame
  <1>8. CASE KillCall
    <2>1. live' = live /\ at' = at
      BY <1>8 DEF KillCall, KillRun, KillFile, KillFinished
    <2>2. \/ journal' = journal
          \/ \E x \in JournalEntry : AppendJournal(x) /\ x.type # "step_finished"
      BY <1>1, <1>8 DEF KillCall, KillRun, KillFile, KillFinished, durable
    <2>3. \A u \in Worker : pc'[u] = pc[u]
      BY <1>8, KillType DEF KillCall, OthersStay
    <2>4. \A f \in Exec : Holds(f)' => Holds(f)
      BY <2>3 DEF Holds, ScriptLive
    <2> QED
      BY <1>2, <2>1, <2>2, <2>3, <2>4, PaidFrame
  <1>9. CASE Crash
    <2>1. \A t \in Thread : pc'[t] \in {"off", "ended"}
      BY <1>9, CrashStops
    <2>2. \A f \in Exec : ~ Holds(f)'
      BY <2>1 DEF Holds, ScriptLive, Terminal
    <2>3. Flight' \subseteq Flight
      BY <2>1 DEF Flight, InWork
    <2>4. PaidEntries' = PaidEntries
      BY <1>9 DEF Crash, durable, PaidEntries
    <2> QED
      BY <2>2, <2>3, <2>4, BoundedLess DEF PaidInv, SeesPaid
  <1>10. CASE UNCHANGED vars
    <2>1. live' = live /\ at' = at /\ journal' = journal /\ pc' = pc
      BY <1>10 DEF vars
    <2>2. \A f \in Exec : Holds(f)' => Holds(f)
      BY <2>1 DEF Holds, ScriptLive
    <2> QED
      BY <1>2, <2>1, <2>2, PaidFrame
  <1> QED
    BY <1>3, <1>4, <1>5, <1>6, <1>7, <1>8, <1>9, <1>10, NextCases

LEMMA PaidInit ==
  ASSUME Init
  PROVE  PaidInv
  <1> USE Threads
  <1>1. PaidEntries = {}
    BY DEF Init, PaidEntries, Range
  <1>2. Flight = {}
    <2>1. \A t \in Worker : pc[t] = "off"
      BY DEF Init
    <2> QED
      BY <2>1 DEF Flight, InWork
  <1>3. IsFiniteSet({}) /\ Cardinality({}) = 0
    BY FS_EmptySet
  <1>4. 0 + 0 <= MaxTokens + InFlight
    BY BoundsType
  <1>5. SeesPaid
    BY <1>1 DEF SeesPaid
  <1>6. PaidBounded
    BY <1>1, <1>2, <1>3, <1>4 DEF PaidBounded
  <1> QED
    BY <1>5, <1>6 DEF PaidInv

LEMMA PaidEnough ==
  ASSUME FlightBounded, PaidInv
  PROVE  WithinBudget
  <1>1. /\ MaxTokens \in Nat /\ InFlight \in Nat
        /\ Cardinality(PaidEntries) \in Nat /\ Cardinality(Flight) \in Nat
    BY BoundsType DEF FlightBounded, PaidInv, PaidBounded
  <1>2. MaxTokens > 0 => Cardinality(PaidEntries) <= MaxTokens + InFlight
    <2>1. MaxTokens > 0 =>
            Cardinality(PaidEntries) + Cardinality(Flight) <= MaxTokens + InFlight
      BY DEF PaidInv, PaidBounded
    <2> QED
      BY <1>1, <2>1
  <1> QED
    BY <1>2 DEF WithinBudget, PaidEntries

\* However executions and branches interleave, crash and are continued, the
\* journal holds no more paid steps than the budget and those that were in flight
\* when it was reached, unless the script catches the failure of a fork.
THEOREM BudgetKept == Spec => []WithinBudget
  <1>1. CASE EagerContinue \/ Caught \cap Forks # {}
    <2>1. WithinBudget
      BY <1>1 DEF WithinBudget
    <2> QED
      BY <2>1, PTL
  <1>2. CASE ~ EagerContinue /\ Caught \cap Forks = {}
    <2>1. Init => SoloInv /\ OverInv /\ OrderInv /\ PaidInv
      BY SoloInit, OverInit, OrderInit, PaidInit
    <2>2. TInv /\ Begun /\ OrderInv /\ SoloInv /\ OverInv /\ [Next]_vars
            => OrderInv' /\ SoloInv' /\ OverInv'
      BY <1>2, OrderStep, SoloStep, OverStep
    <2>3. TInv /\ SoloInv /\ OverInv => FlightBounded
      BY FlightIsBounded
    <2>4. TInv /\ Begun /\ OrderInv /\ SoloInv /\ OverInv /\ PaidInv /\ FlightBounded
            /\ FlightBounded' /\ [Next]_vars => PaidInv'
      BY PaidStep DEF OrderInv
    <2>5. FlightBounded /\ PaidInv => WithinBudget
      BY PaidEnough
    <2> QED
      BY <2>1, <2>2, <2>3, <2>4, <2>5, Typed, PTL DEF Spec
  <1> QED
    BY <1>1, <1>2
=============================================================================
