---------------------------- MODULE WorkflowRun -----------------------------
(***************************************************************************)
(* One run of a workflow (packages/workflows): the engine's calls on it    *)
(* (engine.ts), the script they execute from the top through the step SDK  *)
(* (step.ts), the journal its steps are replayed from (journal.ts) and     *)
(* case.json (case.ts).                                                    *)
(*                                                                         *)
(* Each startRun, resumeRun and continueRun is an execution. What runs     *)
(* concurrently is a thread: the engine's call, the script (it goes on     *)
(* when the time limit rejects the call), each branch of a step.parallel   *)
(* and killRun. An action is the code between two awaits; pc[t] names the  *)
(* await thread t is suspended at. The script is a fixed sequence of       *)
(* steps, each a (label, seq), as the determinism rule demands of run.ts.  *)
(***************************************************************************)
EXTENDS Integers, Sequences, FiniteSets, Functions

CONSTANTS
  Exec,          \* the executions: calls of startRun, resumeRun, continueRun
  Script,        \* the steps of run.ts, in order
  Agents, Runs,  \* step.agent; step.run and step.call
  Gates, Forks,  \* step.human; step.parallel
  Branch,        \* the steps inside the branches, one to a branch
  BranchOf,      \* Forks -> the steps of its branches
  GateFields,    \* Gates -> the fields the human must supply
  Caught,        \* steps whose error the script catches
  MaxTokens,     \* budgets.maxTokens, a paid step using one; 0 is unlimited
  MaxCrashes,    \* bound: restarts of the process
  MayKill,       \* bound: killRun is called
  EagerContinue, \* continueRun is called on a run this process executes
  None           \* no gate, no answer, no result

Steps  == Agents \cup Runs \cup Gates \cup Forks
Paid   == Agents \cup Runs \cup Branch
Killer == <<"killRun", "kill">>
Thread == (Exec \X ({"engine", "script"} \cup Branch)) \cup {Killer}
Engine(e) == <<e, "engine">>
Run(e)    == <<e, "script">>

ASSUME ScriptAssumption ==
  /\ Script \in Seq(Steps)
  /\ \A i, j \in 1..Len(Script) : Script[i] = Script[j] => i = j
  /\ BranchOf \in [Forks -> SUBSET Branch]
  /\ IsFiniteSet(Branch) /\ \A f \in Forks : BranchOf[f] # {}
ASSUME KindAssumption ==
  /\ Agents \cap (Runs \cup Gates \cup Forks \cup Branch) = {}
  /\ Runs \cap (Gates \cup Forks \cup Branch) = {}
  /\ Gates \cap (Forks \cup Branch) = {}
  /\ Forks \cap Branch = {}
  /\ "done" \notin Steps \cup Branch
  /\ None \notin Gates \cup Exec
  /\ {"engine", "script"} \cap Branch = {}
  /\ Gates \cap Exec = {}
  /\ "killRun" \notin Exec
ASSUME BoundAssumption ==
  /\ MaxTokens \in Nat
  /\ MaxCrashes \in Nat
  /\ MayKill \in BOOLEAN
  /\ EagerContinue \in BOOLEAN

VARIABLES
  \* on disk:
  case,      \* case.json: the run's status, and whose fields were merged
  journal,   \* journal.jsonl
  killFile,  \* the file KILLED is in the case directory
  \* in the process:
  killFlag,  \* killFlags.get(runId)
  runLock,   \* the calls chained in runLocks: the first of them runs
  live,      \* Exec -> its liveJournal, as a set
  at,        \* Exec -> the position of its script
  answer,    \* Exec -> the gate its gateResponse is for; None: continueRun
  gate,      \* Exec -> the open gate a resumeRun has found
  pc,        \* Thread -> the await it is suspended at
  pend,      \* Thread -> the updateCase it is in
  \* history:
  late,      \* Thread -> steps it executed after the run was killed
  crashes

durable == <<case, journal, killFile>>
vars == <<case, journal, killFile, killFlag, runLock, live, at, answer, gate,
          pc, pend, late, crashes>>

Terminal == {"done", "failed", "killed"}
Status   == {"none", "running", "paused_human"} \cup Terminal
Case     == [status : Status, fields : SUBSET (Steps \cup {"done"})]
EntryType == {"run_started", "step_started", "step_finished", "step_failed",
              "gate_opened", "gate_resolved", "run_finished"}
Entry(type, s, v) == [type |-> type, step |-> s, val |-> v]
NoUpdate == [snap |-> [status |-> "none", fields |-> {}], status |-> "keep",
             add |-> {}, then |-> "off"]

Init ==
  /\ case = [status |-> "none", fields |-> {}]
  /\ journal = <<>>
  /\ killFile = FALSE
  /\ killFlag = FALSE
  /\ runLock = <<>>
  /\ live = [e \in Exec |-> {}]
  /\ at = [e \in Exec |-> 1]
  /\ answer = [e \in Exec |-> None]
  /\ gate = [e \in Exec |-> None]
  /\ pc = [t \in Thread |-> "off"]
  /\ pend = [t \in Thread |-> NoUpdate]
  /\ late = [t \in Thread |-> 0]
  /\ crashes = 0

-----------------------------------------------------------------------------
\* journal.ts
Has(entries, type, s) == \E x \in entries : x.type = type /\ x.step = s

\* findCachedStepResult. Mistake: only gates are looked up.
CachedGates(entries, s) == Has(entries, "gate_resolved", s)
Cached(entries, s) ==
  Has(entries, "step_finished", s) \/ Has(entries, "gate_resolved", s)

\* findOpenGate: the last gate that was opened and not resolved.
\* Mistake: the last that was opened.
OpenGateAtAny(i) == journal[i].type = "gate_opened"
OpenGateAt(i) ==
  /\ journal[i].type = "gate_opened"
  /\ ~Has(Range(journal), "gate_resolved", journal[i].step)
FindOpenGate ==
  IF \E i \in DOMAIN journal : OpenGateAt(i)
  THEN journal[CHOOSE i \in DOMAIN journal :
                 /\ OpenGateAt(i)
                 /\ \A j \in DOMAIN journal : OpenGateAt(j) => j <= i].step
  ELSE None

\* appendJournal writes a line whole or not at all; by the script or a branch of e it also
\* extends its liveJournal.
AppendJournal(x) == journal' = Append(journal, x)
AppendLive(e, x) ==
  AppendJournal(x) /\ live' = [live EXCEPT ![e] = @ \cup {x}]

-----------------------------------------------------------------------------
\* case.ts

\* updateCase begins: the thread waits for readCase, and goes on at `next`.
BeginUpdate(t, status, add, next) ==
  /\ pc' = [pc EXCEPT ![t] = "read"]
  /\ pend' = [pend EXCEPT ![t] = [NoUpdate EXCEPT !.status = status,
                                  !.add = add, !.then = next]]

\* readCase: a terminal run is left alone.
ReadCase(t) ==
  /\ pc[t] = "read"
  /\ IF case.status \in Terminal
     THEN /\ pc' = [pc EXCEPT ![t] = pend[t].then]
          /\ pend' = [pend EXCEPT ![t] = NoUpdate]
     ELSE /\ pc' = [pc EXCEPT ![t] = "rename"]
          /\ pend' = [pend EXCEPT ![t].snap = case]
  /\ UNCHANGED <<durable, killFlag, runLock, live, at, answer, gate, late,
                 crashes>>

\* writeCase replaces the file by what was read, patched.
\* Mistake: the patch is spread under what was read.
PatchedUnder(u) == [status |-> u.snap.status, fields |-> u.snap.fields \cup u.add]
Patched(u) == [status |-> IF u.status = "keep" THEN u.snap.status ELSE u.status,
               fields |-> u.snap.fields \cup u.add]
WriteCase(t) ==
  /\ pc[t] = "rename"
  /\ case' = Patched(pend[t])
  /\ pc' = [pc EXCEPT ![t] = pend[t].then]
  /\ pend' = [pend EXCEPT ![t] = NoUpdate]
  /\ UNCHANGED <<journal, killFile, killFlag, runLock, live, at, answer, gate,
                 late, crashes>>

-----------------------------------------------------------------------------
\* engine.ts: the calls on a run.

\* The call of e returns or rejects; the next call in the lock's chain runs.
\* Mistake: the chain stays.
LeaveChained(e) ==
  pc' = [pc EXCEPT ![Engine(e)] = "ended"] /\ UNCHANGED runLock
Leave(e) ==
  /\ pc' = [pc EXCEPT ![Engine(e)] = "ended"]
  /\ runLock' = IF runLock # <<>> /\ Head(runLock) = e THEN Tail(runLock)
                                                       ELSE runLock

StartRun(e) ==
  /\ pc[Engine(e)] = "off"
  /\ case.status = "none"
  /\ case' = [status |-> "running", fields |-> {}]
  /\ pc' = [pc EXCEPT ![Engine(e)] = "starting"]
  /\ UNCHANGED <<journal, killFile, killFlag, runLock, live, at, answer, gate,
                 pend, late, crashes>>

RunStarted(e) ==
  /\ pc[Engine(e)] = "starting"
  /\ AppendJournal(Entry("run_started", None, None))
  /\ pc' = [pc EXCEPT ![Engine(e)] = "load"]
  /\ UNCHANGED <<case, killFile, killFlag, runLock, live, at, answer, gate,
                 pend, late, crashes>>

\* The API takes an answer to the gate a paused run shows, if any is open.
ResumeRun(e, g) ==
  /\ pc[Engine(e)] = "off"
  /\ case.status = "paused_human"
  /\ FindOpenGate \in {g, None}
  /\ answer' = [answer EXCEPT ![e] = g]
  /\ runLock' = Append(runLock, e)
  /\ pc' = [pc EXCEPT ![Engine(e)] = "queued"]
  /\ UNCHANGED <<durable, killFlag, live, at, gate, pend, late, crashes>>

\* "after a crash or engine restart": unless EagerContinue, nothing of the run
\* is left in the process.
Stopped(t) == pc[t] \in {"off", "ended"}
ContinueRun(e) ==
  /\ pc[Engine(e)] = "off"
  /\ case.status # "none"
  /\ EagerContinue \/ (runLock = <<>> /\ \A t \in Thread \ {Killer} : Stopped(t))
  /\ runLock' = Append(runLock, e)
  /\ pc' = [pc EXCEPT ![Engine(e)] = "queued"]
  /\ UNCHANGED <<durable, killFlag, live, at, answer, gate, pend, late, crashes>>

\* The lock is there: readCase and the check of the status. Mistake: a resume
\* is refused by ended runs only.
RefusedWhenOver(e) == case.status \in Terminal
Refused(e) == \/ answer[e] # None /\ case.status # "paused_human"
              \/ answer[e] = None /\ case.status \in Terminal
Locked(e) ==
  /\ pc[Engine(e)] = "queued"
  /\ runLock # <<>> /\ Head(runLock) = e
  /\ IF Refused(e)
     THEN Leave(e)
     ELSE /\ pc' = [pc EXCEPT ![Engine(e)] =
                      IF case.status = "paused_human" THEN "check" ELSE "load"]
          /\ UNCHANGED runLock
  /\ UNCHANGED <<durable, killFlag, live, at, answer, gate, pend, late, crashes>>

Accepts(e, open) ==
  answer[e] # None /\ GateFields[open] \subseteq GateFields[answer[e]]

\* readJournal of a paused run: with no open gate the run is recovered, and
\* the answer is discarded; an answer must cover the fields of the gate.
CheckGate(e) ==
  LET open == FindOpenGate IN
  /\ pc[Engine(e)] = "check"
  /\ \/ /\ open = None
        /\ BeginUpdate(Engine(e), "running", {}, "load")
        /\ UNCHANGED <<runLock, gate>>
     \/ /\ open # None
        /\ ~Accepts(e, open)
        /\ Leave(e)
        /\ UNCHANGED <<gate, pend>>
     \/ /\ open # None
        /\ Accepts(e, open)
        /\ gate' = [gate EXCEPT ![e] = open]
        /\ pc' = [pc EXCEPT ![Engine(e)] = "resolve"]
        /\ UNCHANGED <<runLock, pend>>
  /\ UNCHANGED <<durable, killFlag, live, at, answer, late, crashes>>

ResolveGate(e) ==
  /\ pc[Engine(e)] = "resolve"
  /\ AppendJournal(Entry("gate_resolved", gate[e], answer[e]))
  /\ BeginUpdate(Engine(e), "keep", {gate[e]}, "flip")
  /\ UNCHANGED <<case, killFile, killFlag, runLock, live, at, answer, gate,
                 late, crashes>>

FlipStatus(e) ==
  /\ pc[Engine(e)] = "flip"
  /\ BeginUpdate(Engine(e), "running", {}, "load")
  /\ UNCHANGED <<durable, killFlag, runLock, live, at, answer, gate, late, crashes>>

\* execute: the journal is read and the script begins.
Execute(e) ==
  /\ pc[Engine(e)] = "load"
  /\ live' = [live EXCEPT ![e] = Range(journal)]
  /\ pc' = [pc EXCEPT ![Engine(e)] = "await", ![Run(e)] = "begin"]
  /\ UNCHANGED <<durable, killFlag, runLock, at, answer, gate, pend, late, crashes>>

\* The script of e settles, and execute records how.
Settled(e) ==
  /\ pc[Engine(e)] = "await"
  /\ \/ /\ pc[Run(e)] = "suspended"
        /\ Leave(e)
        /\ UNCHANGED pend
     \/ /\ pc[Run(e)] \in Terminal
        /\ BeginUpdate(Engine(e), pc[Run(e)], {}, "finish_run")
        /\ UNCHANGED runLock
  /\ UNCHANGED <<durable, killFlag, live, at, answer, gate, late, crashes>>

\* The time limit rejects the race; the script goes on.
TimeLimit(e) ==
  /\ pc[Engine(e)] = "await"
  /\ pc[Run(e)] \notin Terminal \cup {"suspended"}
  /\ BeginUpdate(Engine(e), "failed", {}, "finish_run")
  /\ UNCHANGED <<durable, killFlag, runLock, live, at, answer, gate, late, crashes>>

RunFinished(e) ==
  /\ pc[Engine(e)] = "finish_run"
  /\ AppendJournal(Entry("run_finished", None, None))
  /\ Leave(e)
  /\ UNCHANGED <<case, killFile, killFlag, live, at, answer, gate, pend, late,
                 crashes>>

\* killRun: the flag, then the file KILLED, then the status and the journal.
KillRun ==
  /\ MayKill
  /\ pc[Killer] = "off"
  /\ case.status # "none"
  /\ killFlag' = TRUE
  /\ pc' = [pc EXCEPT ![Killer] = "kill_file"]
  /\ UNCHANGED <<durable, runLock, live, at, answer, gate, pend, late, crashes>>

KillFile ==
  /\ pc[Killer] = "kill_file"
  /\ killFile' = TRUE
  /\ BeginUpdate(Killer, "killed", {}, "finish_kill")
  /\ UNCHANGED <<case, journal, killFlag, runLock, live, at, answer, gate, late,
                 crashes>>

KillFinished ==
  /\ pc[Killer] = "finish_kill"
  /\ AppendJournal(Entry("run_finished", None, None))
  /\ pc' = [pc EXCEPT ![Killer] = "ended"]
  /\ UNCHANGED <<case, killFile, killFlag, runLock, live, at, answer, gate, pend,
                 late, crashes>>

-----------------------------------------------------------------------------
\* step.ts: the script and the branches of a step.parallel.

\* The step thread t is at; step.done follows the last step of the script.
StepOf(t) == IF t[2] # "script" THEN t[2]
             ELSE IF at[t[1]] <= Len(Script) THEN Script[at[t[1]]] ELSE "done"

\* Mistakes: the kill is seen by nobody; only the agents' tokens are counted.
IsKilledNever == FALSE
IsKilled == killFlag \/ killFile
Spent(e) == Cardinality({x \in live[e] : x.type = "step_finished" /\ x.step \in Paid})
OverBudgetByAgents(e) ==
  MaxTokens > 0 /\ Cardinality({x \in live[e] : /\ x.type = "step_finished"
                                               /\ x.step \in Agents}) > MaxTokens
OverBudget(e) == MaxTokens > 0 /\ Spent(e) > MaxTokens

\* The await a live step of each kind is at when beginStep is over.
AfterBegin(s) == IF s \in Gates THEN "gate" ELSE IF s \in Forks THEN "fork" ELSE "work"

\* Thread t is done with its step: the script goes to its next one.
NextStep(t) ==
  IF t[2] = "script" /\ StepOf(t) # "done"
  THEN /\ pc' = [pc EXCEPT ![t] = "begin"]
       /\ at' = [at EXCEPT ![t[1]] = @ + 1]
  ELSE /\ pc' = [pc EXCEPT ![t] = IF t[2] = "script" THEN "done" ELSE "joined"]
       /\ UNCHANGED at

\* beginStep (and the start of step.done): the kill flag, the budget, the
\* cache, the journal, and the status `running`.
BeginStep(t) ==
  LET e == t[1]
      s == StepOf(t)
  IN
  /\ pc[t] = "begin"
  /\ \/ /\ IsKilled \/ OverBudget(e)
        /\ pc' = [pc EXCEPT ![t] = IF IsKilled THEN "killed" ELSE "failed"]
        /\ UNCHANGED <<at, pend>>
     \/ /\ ~IsKilled /\ ~OverBudget(e)
        /\ Cached(live[e], s) /\ s # "done"
        /\ NextStep(t)
        /\ UNCHANGED pend
     \/ /\ ~IsKilled /\ ~OverBudget(e)
        /\ ~Cached(live[e], s) /\ s # "done"
        /\ IF Has(live[e], "step_started", s)
           THEN BeginUpdate(t, "running", {}, AfterBegin(s))
           ELSE pc' = [pc EXCEPT ![t] = "mark"] /\ UNCHANGED pend
        /\ UNCHANGED at
     \/ /\ ~IsKilled /\ ~OverBudget(e)
        /\ s = "done"   \* ... or its output misses a required field
        /\ \/ BeginUpdate(t, "keep", {s}, "finish")
           \/ pc' = [pc EXCEPT ![t] = "failed"] /\ UNCHANGED pend
        /\ UNCHANGED at
  /\ UNCHANGED <<durable, killFlag, runLock, live, answer, gate, late, crashes>>

StepStarted(t) ==
  LET s == StepOf(t) IN
  /\ pc[t] = "mark"
  /\ AppendLive(t[1], Entry("step_started", s, None))
  /\ BeginUpdate(t, "running", {}, AfterBegin(s))
  /\ UNCHANGED <<case, killFile, killFlag, runLock, at, answer, gate, late, crashes>>

\* An agent, run, call or branch step: its executor is called ...
CallExecutor(t) ==
  /\ pc[t] = "work"
  /\ pc' = [pc EXCEPT ![t] = "busy"]
  /\ late' = [late EXCEPT ![t] = IF killFile THEN @ + 1 ELSE @]
  /\ UNCHANGED <<durable, killFlag, runLock, live, at, answer, gate, pend, crashes>>

\* ... and returns (a step.agent of the script merges its fields) ...
ExecutorReturns(t) ==
  /\ pc[t] = "busy"
  /\ IF StepOf(t) \in Agents
     THEN BeginUpdate(t, "keep", {StepOf(t)}, "finish")
     ELSE pc' = [pc EXCEPT ![t] = "finish"] /\ UNCHANGED pend
  /\ UNCHANGED <<durable, killFlag, runLock, live, at, answer, gate, late, crashes>>

\* ... or throws.
ExecutorThrows(t) ==
  /\ pc[t] = "busy"
  /\ pc' = [pc EXCEPT ![t] = "fail"]
  /\ pend' = [pend EXCEPT ![t].then = "failed"]
  /\ UNCHANGED <<durable, killFlag, runLock, live, at, answer, gate, late, crashes>>

FinishStep(t) ==
  /\ pc[t] = "finish"
  /\ AppendLive(t[1], Entry("step_finished", StepOf(t), t[1]))
  /\ NextStep(t)
  /\ UNCHANGED <<case, killFile, killFlag, runLock, answer, gate, pend, late, crashes>>

\* failStep, and the error is thrown on: the script catches it or settles.
\* Mistake: the error of a step of the script is swallowed.
CatchesAll(t) == t[2] = "script"
Catches(t) == t[2] = "script" /\ StepOf(t) \in Caught
FailStep(t) ==
  /\ pc[t] = "fail"
  /\ AppendLive(t[1], Entry("step_failed", StepOf(t), None))
  /\ IF Catches(t)
     THEN NextStep(t)
     ELSE pc' = [pc EXCEPT ![t] = pend[t].then] /\ UNCHANGED at
  /\ pend' = [pend EXCEPT ![t] = NoUpdate]
  /\ UNCHANGED <<case, killFile, killFlag, runLock, answer, gate, late, crashes>>

\* step.human: the gate is opened once, the run paused, the script suspended.
OpenGate(e) ==
  LET s == StepOf(Run(e)) IN
  /\ pc[Run(e)] = "gate"
  /\ IF Has(live[e], "gate_opened", s) THEN UNCHANGED <<journal, live>>
     ELSE AppendLive(e, Entry("gate_opened", s, None))
  /\ BeginUpdate(Run(e), "paused_human", {}, "suspended")
  /\ UNCHANGED <<case, killFile, killFlag, runLock, at, answer, gate, late, crashes>>

\* step.parallel: the branches run, and Promise.all waits for all of them or
\* for the first that rejects; the others go on.
Fork(e) ==
  /\ pc[Run(e)] = "fork"
  /\ pc' = [t \in Thread |->
              IF t = Run(e) THEN "join"
              ELSE IF t[1] = e /\ t[2] \in BranchOf[StepOf(Run(e))] THEN "begin"
              ELSE pc[t]]
  /\ UNCHANGED <<durable, killFlag, runLock, live, at, answer, gate, pend, late,
                 crashes>>

Join(e) ==
  LET branches == {<<e, b>> : b \in BranchOf[StepOf(Run(e))]} IN
  /\ pc[Run(e)] = "join"
  /\ \/ /\ \A t \in branches : pc[t] = "joined"
        /\ pc' = [pc EXCEPT ![Run(e)] = "finish"]
        /\ UNCHANGED pend
     \/ \E t \in branches :
          /\ pc[t] \in {"failed", "killed"}
          /\ pc' = [pc EXCEPT ![Run(e)] = "fail"]
          /\ pend' = [pend EXCEPT ![Run(e)].then = pc[t]]
  /\ UNCHANGED <<durable, killFlag, runLock, live, at, answer, gate, late, crashes>>

-----------------------------------------------------------------------------
\* The process dies: what is on disk stays.
Crash ==
  /\ crashes < MaxCrashes
  /\ crashes' = crashes + 1
  /\ killFlag' = FALSE
  /\ runLock' = <<>>
  /\ pc' = [t \in Thread |->
              IF t = Killer THEN "off"
              ELSE IF pc[Engine(t[1])] = "off" THEN pc[t] ELSE "ended"]
  /\ pend' = [t \in Thread |-> NoUpdate]
  /\ live' = [e \in Exec |-> {}]
  /\ at' = [e \in Exec |-> 1]
  /\ answer' = [e \in Exec |-> None]
  /\ gate' = [e \in Exec |-> None]
  /\ UNCHANGED <<durable, late>>

\* The step of a thread that some await lets go on.
EngineStep(e) ==
  \/ RunStarted(e) \/ Locked(e) \/ CheckGate(e) \/ ResolveGate(e)
  \/ FlipStatus(e) \/ Execute(e) \/ Settled(e) \/ TimeLimit(e) \/ RunFinished(e)
  \/ ReadCase(Engine(e)) \/ WriteCase(Engine(e))

ScriptStep(t) ==
  \/ BeginStep(t) \/ StepStarted(t) \/ CallExecutor(t) \/ ExecutorReturns(t)
  \/ ExecutorThrows(t) \/ FinishStep(t) \/ FailStep(t)
  \/ ReadCase(t) \/ WriteCase(t)

KillStep == KillRun \/ KillFile \/ KillFinished \/ ReadCase(Killer) \/ WriteCase(Killer)

Next ==
  \/ \E e \in Exec : \/ StartRun(e) \/ ContinueRun(e) \/ EngineStep(e)
                     \/ OpenGate(e) \/ Fork(e) \/ Join(e)
                     \/ \E g \in Gates : ResumeRun(e, g)
                     \/ \E r \in {"script"} \cup Branch : ScriptStep(<<e, r>>)
  \/ KillStep
  \/ Crash

Spec == Init /\ [][Next]_vars

\* The awaits of the engine's own calls are file operations and a timer.
\* Nothing is assumed of the executors or of the script.
FairSpec == Spec /\ \A e \in Exec : WF_vars(EngineStep(e))

-----------------------------------------------------------------------------
Await == {"off", "starting", "queued", "check", "resolve", "flip", "load",
          "await", "finish_run", "ended", "kill_file", "finish_kill", "begin",
          "mark", "read", "rename", "work", "busy", "finish", "fail", "gate",
          "fork", "join", "joined", "suspended"} \cup Terminal
Update == [snap : Case, status : Status \cup {"keep"},
           add : SUBSET (Steps \cup {"done"}), then : Await]
JournalEntry == [type : EntryType, step : Steps \cup Branch \cup {"done", None},
                 val : Gates \cup Exec \cup {None}]

TypeOK ==
  /\ case \in Case
  /\ journal \in Seq(JournalEntry)
  /\ killFile \in BOOLEAN /\ killFlag \in BOOLEAN
  /\ runLock \in Seq(Exec)
  /\ live \in [Exec -> SUBSET JournalEntry]
  /\ at \in [Exec -> 1..(Len(Script) + 1)]
  /\ answer \in [Exec -> Gates \cup {None}]
  /\ gate \in [Exec -> Gates \cup {None}]
  /\ pc \in [Thread -> Await]
  /\ pend \in [Thread -> Update]
  /\ late \in [Thread -> Nat]
  /\ crashes \in 0..MaxCrashes

\* A gate is answered once: of concurrent resumes, retries after a crash and
\* recoveries of a run that crashed in mid-resume, one records its answer.
GateAnsweredOnce ==
  \A i, j \in DOMAIN journal :
    /\ journal[i].type = "gate_resolved"
    /\ journal[j].type = "gate_resolved"
    /\ journal[i].step = journal[j].step
    => i = j

\* A step of the script is recorded once, so every later replay gives the
\* script the result that it went on with.
RecordedOnce ==
  ~EagerContinue =>
    \A i, j \in DOMAIN journal :
      /\ journal[i].type = "step_finished"
      /\ journal[j].type = "step_finished"
      /\ journal[i].step = journal[j].step
      /\ journal[i].step \in Steps
      => i = j

\* A script is running, or an engine call is about to start it.
ScriptLive(e) ==
  pc[Run(e)] \notin {"off", "ended", "suspended"} \cup Terminal
Launching(e) ==
  \/ pc[Engine(e)] \in {"starting", "check", "resolve", "flip", "load"}
  \/ /\ pc[Engine(e)] \in {"read", "rename"}
     /\ pend[Engine(e)].then \in {"flip", "load"}

\* Two scripts of a run never execute at once, whatever the time limit, late
\* branches, kills and overwritten statuses do: only a continueRun on a run of
\* this very process could make a second one.
SingleScript ==
  ~EagerContinue =>
    \A e, f \in Exec : (ScriptLive(e) \/ Launching(e))
                       /\ (ScriptLive(f) \/ Launching(f)) => e = f

\* A step is started only when each step before it has its result in the
\* journal (or failed, and the script caught that): a crash never makes a
\* replay skip a step.
StartedInOrder ==
  \A i \in DOMAIN journal : \A k \in 1..Len(Script) :
    journal[i].type = "step_started" /\ journal[i].step = Script[k] =>
      \A m \in 1..(k - 1) :
        \/ Cached(Range(journal), Script[m])
        \/ Script[m] \in Caught /\ Has(Range(journal), "step_failed", Script[m])

\* A killed run executes at most the step each of its threads was about to
\* execute, whatever happens to its status.
KillStopsSteps == \A t \in Thread : late[t] <= 1

\* However executions and branches interleave, the journal holds no more paid
\* steps than the budget and those that were in flight when it was reached: the
\* branches of a fork, or one step of the script. (A fork whose failure the
\* script catches leaves branches behind that later executions do not count.)
InFlight == IF Branch # {} THEN Cardinality(Branch) ELSE 1
WithinBudget ==
  MaxTokens > 0 /\ ~EagerContinue /\ Caught \cap Forks = {} =>
    Cardinality({x \in Range(journal) : x.type = "step_finished" /\ x.step \in Paid})
      <= MaxTokens + InFlight

\* A gate that is open, in a run that nothing works on and that has not ended,
\* can be answered: no order of writes leaves it at running. (A crash may, and a
\* branch that goes on after the script caught the failure of its fork.)
OpenGateAnswerable ==
  FindOpenGate # None /\ crashes = 0 /\ Caught = {}
    /\ (\A t \in Thread : Stopped(t) \/ pc[t] \in Terminal \cup {"suspended", "joined"})
  => case.status \in {"paused_human"} \cup Terminal

\* A resume or continue that waits for the lock gets it and returns, even if
\* the executor of a step never does.
CallsReturn == \A e \in Exec : pc[Engine(e)] = "queued" ~> pc[Engine(e)] = "ended"

-----------------------------------------------------------------------------
\* What comments say, and the code does not keep.

\* "once status is done/failed/killed, late writers (orphaned steps after a
\* timeout or kill) cannot clobber the terminal state" (case.ts).
TerminalStays ==
  [][case.status \in Terminal => case'.status = case.status]_case

\* "The loser observes the winner's status flip and fails its paused_human
\* check" (engine.ts): an answer is recorded for the gate it was given to.
AnswersItsGate ==
  \A i \in DOMAIN journal :
    journal[i].type = "gate_resolved" => journal[i].step = journal[i].val

\* "resumeRun ... appends gate_resolved, merges fields into case.json, and
\* re-executes" (README.md of the package): a script past a gate finds the
\* fields of its answer in case.json.
AnswerInCase ==
  \A e \in Exec : pc[Run(e)] = "begin" =>
    \A k \in 1..(at[e] - 1) : Script[k] \in Gates => Script[k] \in case.fields
=============================================================================
