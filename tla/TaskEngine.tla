------------------------------ MODULE TaskEngine ------------------------------
(***************************************************************************)
(* The task runner (packages/core/src/domain/task/runner.ts) on the store  *)
(* of TaskStore: runner processes, each with worker slots that take jobs,  *)
(* claim rows and drive an executor turn after turn; clients that create,  *)
(* steer and kill tasks; outages, restarts and failing database calls.     *)
(*                                                                         *)
(* A worker's pc names the next await of createTaskHandler/runClaimedTask, *)
(* so each action is one statement on the database with the code up to the *)
(* following await.                                                        *)
(***************************************************************************)
EXTENDS TaskStore, FiniteSets

CONSTANTS
  Proc,            \* runner processes (incarnations share a node)
  ProcNode,        \* Proc -> Node
  Worker,          \* job slots (graphile concurrency)
  WorkerProc,      \* Worker -> Proc
  Registered,      \* Node -> tasks the node has an executor for
  MaxRetries,      \* evaluation.maxRetries
  HeartbeatStalls, \* may heartbeat writes be delayed past the sweep window?
  LostReplies,     \* may a statement commit and its reply be lost?
  MaxOutages,      \* bound on crashes and stops of processes
  MaxFaults        \* bound on failing database calls

NoTask == "no task"

ASSUME EngineAssumption ==
  /\ ProcNode \in [Proc -> Node]
  /\ WorkerProc \in [Worker -> Proc]
  /\ Registered \in [Node -> SUBSET Task]
  /\ MaxRetries \in Nat
  /\ HeartbeatStalls \in BOOLEAN /\ LostReplies \in BOOLEAN
  /\ MaxOutages \in Nat /\ MaxFaults \in Nat
  /\ NoTask \notin Task
  /\ "no owner" \notin Worker

VARIABLES
  up,        \* processes whose runner is started
  worker,    \* Worker -> local state of the handler it runs
  outbox,    \* Message -> the task its sender addressed, NoTask before
  accepted,  \* messages whose send() committed
  outages,   \* crashes and stops so far
  faults,    \* failing database calls so far
  \* history, never read by an action:
  goalRuns,  \* Task -> executor runs opened with the goal
  heard,     \* messages that opened an executor run
  overwritten, \* messages a later send or retry replaced in pending_message
  judged     \* Task -> a verifier pass followed the last executor run

engineVars  == <<up, worker>>
clientVars  == <<outbox, accepted>>
budgetVars  == <<outages, faults>>
historyVars == <<goalRuns, heard, overwritten, judged>>
vars == <<storeVars, engineVars, clientVars, budgetVars, historyVars>>

\* Before the claim the worker holds a job, after it a row.
Claiming  == {"claim", "recheck", "reenqueue", "add job"}
Executing == {"unserved", "take", "start", "turn", "overrun", "reread", "discard", "park",
              "reclaim", "park again", "evaluate", "escalate", "stash",
              "finish", "fail"}
PC        == {"idle"} \cup Claiming \cup Executing
Verdict   == {"completed", "failed", "killed", "timeout"}

WorkerState == [pc      : PC,
                task    : Task \cup {NoTask},
                resume  : Steer \cup {NoMessage},  \* resumeMessage
                tries   : Nat,                     \* evalAttempts
                verdict : Verdict]                 \* the last run's verdict

IdleWorker == [pc |-> "idle", task |-> NoTask, resume |-> NoMessage,
               tries |-> 0, verdict |-> "completed"]

NodeOf(w)  == ProcNode[WorkerProc[w]]
Executes(w, t) == worker[w].pc \in Executing /\ worker[w].task = t
IsExecuted(t)  == \E w \in Worker : Executes(w, t)

\* Past the claim and not in the handler's catch: runs of the executor happen.
Drives(w, t) == Executes(w, t) /\ worker[w].pc # "fail"

Init ==
  /\ StoreInit
  /\ up = {}
  /\ worker = [w \in Worker |-> IdleWorker]
  /\ outbox = [m \in Message |-> NoTask]
  /\ accepted = {}
  /\ outages = 0
  /\ faults = 0
  /\ goalRuns = [t \in Task |-> 0]
  /\ heard = {}
  /\ overwritten = {}
  /\ judged = [t \in Task |-> FALSE]

\* Shorthands of the worker actions: w's handler goes on at pc, or returns.
GoTo(w, pc)  == worker' = [worker EXCEPT ![w].pc = pc]
Return(w)    == worker' = [worker EXCEPT ![w] = IdleWorker]
At(w, pc)    == worker[w].pc = pc
RowOf(w)     == row[worker[w].task]
WorkerStep   == UNCHANGED <<up, clientVars, budgetVars>>

\* A message that is still pending when another one takes its place is gone.
Overwrite(t) == overwritten' = overwritten \cup ({row[t].pending} \cap Message)

-----------------------------------------------------------------------------
\* Clients.

Create(t) == /\ create(t)
             /\ UNCHANGED <<engineVars, clientVars, budgetVars, historyVars>>

CreateByOldNode(t) ==
  /\ createByOldNode(t)
  /\ UNCHANGED <<engineVars, clientVars, budgetVars, historyVars>>

\* Steer handler (and subagent send, which admits fewer rows): the row is read
\* and checked first ...
SteerCheck(t, m) ==
  /\ outbox[m] = NoTask
  /\ row[t].status \in Open
  /\ outbox' = [outbox EXCEPT ![m] = t]
  /\ UNCHANGED <<storeVars, engineVars, accepted, budgetVars, historyVars>>

\* ... and send() follows, whatever happened to the row in between.
SteerSend(m) ==
  /\ outbox[m] # NoTask
  /\ m \notin accepted
  /\ send(outbox[m], m)
  /\ accepted' = accepted \cup {m}
  /\ Overwrite(outbox[m])
  /\ UNCHANGED <<engineVars, outbox, budgetVars, goalRuns, heard, judged>>

Kill(t) == /\ requestKill(t)
           /\ UNCHANGED <<job, engineVars, clientVars, budgetVars, historyVars>>

-----------------------------------------------------------------------------
\* Taking a job and claiming its row.

Dequeue(w, t) ==
  /\ At(w, "idle")
  /\ WorkerProc[w] \in up
  /\ job[t] \in {GlobalJob, NodeOf(w)}
  /\ job' = [job EXCEPT ![t] = NoJob]
  /\ worker' = [worker EXCEPT ![w] = [@ EXCEPT !.pc = "claim", !.task = t]]
  /\ UNCHANGED <<row, historyVars>> /\ WorkerStep

\* Mistake: the evaluation counter starts anew with every claim.
ClaimForgetsTries(w) ==
  LET t == worker[w].task IN
  /\ At(w, "claim")
  /\ claimAllowed(t, NodeOf(w))
  /\ claim(t, NodeOf(w))
  /\ worker' = [worker EXCEPT ![w] =
       [@ EXCEPT !.pc = IF t \notin Registered[NodeOf(w)] THEN "unserved"
                        ELSE IF row[t].pending = NoMessage THEN "start"
                        ELSE "take",
                 !.tries = 0]]
  /\ UNCHANGED <<job, historyVars>> /\ WorkerStep

\* The claimed snapshot decides: with a pending message in it the message is
\* taken before the first run, else the run opens with the goal.
Claim(w) ==
  LET t == worker[w].task IN
  /\ At(w, "claim")
  /\ claimAllowed(t, NodeOf(w))
  /\ claim(t, NodeOf(w))
  /\ worker' = [worker EXCEPT ![w] =
       [@ EXCEPT !.pc = IF t \notin Registered[NodeOf(w)] THEN "unserved"
                        ELSE IF row[t].pending = NoMessage THEN "start"
                        ELSE "take",
                 !.tries = row[t].evalAttempt]]
  /\ UNCHANGED <<job, historyVars>> /\ WorkerStep

ClaimRefused(w) ==
  /\ At(w, "claim")
  /\ ~ claimAllowed(worker[w].task, NodeOf(w))
  /\ GoTo(w, "recheck")
  /\ UNCHANGED <<storeVars, historyVars>> /\ WorkerStep

\* Mistake: every refused claim is dropped.
RecheckDrops(w) ==
  /\ At(w, "recheck")
  /\ Return(w)
  /\ UNCHANGED <<storeVars, historyVars>> /\ WorkerStep

\* A refused claim is dropped, unless the row is queued for another node.
Recheck(w) ==
  LET t == worker[w].task IN
  /\ At(w, "recheck")
  /\ IF row[t].status = "queued" /\ Affinity[t] \notin {AnyNode, NodeOf(w)}
     THEN GoTo(w, "reenqueue")
     ELSE Return(w)
  /\ UNCHANGED <<storeVars, historyVars>> /\ WorkerStep

\* reenqueue(): the row is read again, and a job added by a second statement.
Reenqueue(w) ==
  /\ At(w, "reenqueue")
  /\ IF RowOf(w).status = "queued" THEN GoTo(w, "add job") ELSE Return(w)
  /\ UNCHANGED <<storeVars, historyVars>> /\ WorkerStep

ReenqueueJob(w) ==
  /\ At(w, "add job")
  /\ addJob(worker[w].task)
  /\ Return(w)
  /\ UNCHANGED <<row, historyVars>> /\ WorkerStep

\* A statement of the handler fails outside its try block: the handler throws
\* and the job, of max_attempts 1, is spent.  The UPDATE of the claim may have
\* committed with only its reply lost; that case is not retried.
ClaimFails(w) ==
  LET t == worker[w].task IN
  /\ worker[w].pc \in Claiming
  /\ faults < MaxFaults
  /\ faults' = faults + 1
  /\ Return(w)
  /\ \/ UNCHANGED row
     \/ /\ LostReplies
        /\ At(w, "claim")
        /\ claimAllowed(t, NodeOf(w))
        /\ claim(t, NodeOf(w))
  /\ UNCHANGED <<job, up, clientVars, outages, historyVars>>

-----------------------------------------------------------------------------
\* Driving the executor.

\* No executor is registered for the row's kind and target.
NoExecutor(w) ==
  /\ At(w, "unserved")
  /\ finish(worker[w].task, "failed")
  /\ Return(w)
  /\ UNCHANGED <<job, historyVars>> /\ WorkerStep

\* Mistake: the column is read back after it was set to NULL.
TakeResumeReadsBack(w) ==
  /\ At(w, "take")
  /\ takePendingMessage(worker[w].task)
  /\ worker' = [worker EXCEPT ![w] =
       [@ EXCEPT !.pc = "start", !.resume = NoMessage]]
  /\ UNCHANGED <<job, historyVars>> /\ WorkerStep

TakeResume(w) ==
  LET t == worker[w].task IN
  /\ At(w, "take")
  /\ takePendingMessage(t)
  /\ worker' = [worker EXCEPT ![w] =
       [@ EXCEPT !.pc = "start", !.resume = row[t].pending]]
  /\ UNCHANGED <<job, historyVars>> /\ WorkerStep

\* executor.start: the turn opens with the resume message, else with the goal.
Start(w) ==
  LET t == worker[w].task
      m == worker[w].resume
  IN
  /\ At(w, "start")
  /\ GoTo(w, "turn")
  /\ goalRuns' = [goalRuns EXCEPT ![t] = IF m = NoMessage THEN @ + 1 ELSE @]
  /\ heard' = heard \cup ({m} \cap Message)
  /\ judged' = [judged EXCEPT ![t] = FALSE]
  /\ UNCHANGED <<storeVars, overwritten>> /\ WorkerStep

\* The run ends: updateUsage stamps the row, the budget check may abort.
TurnEnd(w) ==
  /\ At(w, "turn")
  /\ heartbeat(worker[w].task)
  /\ \/ GoTo(w, "overrun")
     \/ \E v \in Verdict :
          worker' = [worker EXCEPT ![w] =
            [@ EXCEPT !.pc = "reread", !.verdict = v]]
  /\ UNCHANGED <<job, historyVars>> /\ WorkerStep

\* Budget exceeded: recorded before the row is read again.
Overrun(w) ==
  /\ At(w, "overrun")
  /\ finish(worker[w].task, "killed")
  /\ Return(w)
  /\ UNCHANGED <<job, historyVars>> /\ WorkerStep

\* Mistake: the criteria are not looked at.
AfterRunUnverified(t, v) == IF v = "completed" /\ t \in Interactive THEN "park"
                            ELSE "finish"

\* Where runClaimedTask goes with the result of a run nobody killed so far.
AfterRun(t, v) == IF v = "completed" /\ t \in Interactive THEN "park"
                  ELSE IF v = "completed" /\ t \in Evaluable THEN "evaluate"
                  ELSE "finish"

Reread(w) ==
  /\ At(w, "reread")
  /\ GoTo(w, IF RowOf(w).status = "killed" THEN "discard"
             ELSE AfterRun(worker[w].task, worker[w].verdict))
  /\ UNCHANGED <<storeVars, historyVars>> /\ WorkerStep

Discard(w) ==
  /\ At(w, "discard")
  /\ finish(worker[w].task, "killed")
  /\ Return(w)
  /\ UNCHANGED <<job, historyVars>> /\ WorkerStep

\* Park, or find that a message came in: take it and run again, or park again.
ParkRow(w) ==
  /\ worker[w].pc \in {"park", "park again"}
  /\ parkAllowed(worker[w].task)
  /\ markAwaitingInput(worker[w].task)
  /\ Return(w)
  /\ UNCHANGED <<job, historyVars>> /\ WorkerStep

ParkRefused(w) ==
  /\ worker[w].pc \in {"park", "park again"}
  /\ ~ parkAllowed(worker[w].task)
  /\ GoTo(w, IF At(w, "park") THEN "reclaim" ELSE "finish")
  /\ UNCHANGED <<storeVars, historyVars>> /\ WorkerStep

Reclaim(w) ==
  LET t == worker[w].task IN
  /\ At(w, "reclaim")
  /\ takePendingMessage(t)
  /\ worker' = [worker EXCEPT ![w] =
       [@ EXCEPT !.pc = IF row[t].pending = NoMessage THEN "park again"
                                                      ELSE "start",
                 !.resume = row[t].pending]]
  /\ UNCHANGED <<job, historyVars>> /\ WorkerStep

\* Mistake: the row gives up one retry early.
AfterRefutationEarly(w) ==
  IF worker[w].tries + 1 < MaxRetries
  THEN [worker[w] EXCEPT !.pc = "stash", !.tries = worker[w].tries + 1,
                         !.resume = RetrySteer]
  ELSE [worker[w] EXCEPT !.pc = "escalate"]

\* A refuted row is run again while retries are left.
AfterRefutation(w) ==
  IF worker[w].tries < MaxRetries
  THEN [worker[w] EXCEPT !.pc = "stash", !.tries = worker[w].tries + 1,
                         !.resume = RetrySteer]
  ELSE [worker[w] EXCEPT !.pc = "escalate"]

\* The verifier pass.  Its verdict is written to the row; when the write of the
\* verdict and then that of the refutation by error fail (evaluate's catch), the
\* row may show neither, or one whose reply was lost.
Evaluate(w) ==
  LET t     == worker[w].task
      tries == worker[w].tries
  IN
  /\ At(w, "evaluate")
  /\ \/ /\ recordEval(t, "verified", tries)
        /\ GoTo(w, "finish")
        /\ UNCHANGED faults
     \/ /\ recordEval(t, "refuted", tries)
        /\ worker' = [worker EXCEPT ![w] = AfterRefutation(w)]
        /\ UNCHANGED faults
     \/ /\ faults < MaxFaults
        /\ faults' = faults + 1
        /\ worker' = [worker EXCEPT ![w] = AfterRefutation(w)]
        /\ \/ UNCHANGED row
           \/ LostReplies /\ \E mark \in {"verified", "refuted"} :
                                recordEval(t, mark, tries)
  /\ judged' = [judged EXCEPT ![t] = TRUE]
  /\ UNCHANGED <<job, up, clientVars, outages, goalRuns, heard, overwritten>>

\* doEscalate never throws: a failing write is logged and the row finishes.
Escalate(w) ==
  /\ At(w, "escalate")
  /\ \/ /\ recordEval(worker[w].task, "escalated", worker[w].tries)
        /\ UNCHANGED faults
     \/ /\ faults < MaxFaults
        /\ faults' = faults + 1
        /\ UNCHANGED row
  /\ GoTo(w, "finish")
  /\ UNCHANGED <<job, up, clientVars, outages, historyVars>>

\* The retry is made durable, then run from memory.
Stash(w) ==
  LET t == worker[w].task IN
  /\ At(w, "stash")
  /\ stashEvalRetry(t, worker[w].tries)
  /\ GoTo(w, "start")
  /\ IF row[t].status = "running" THEN Overwrite(t) ELSE UNCHANGED overwritten
  /\ UNCHANGED <<job, goalRuns, heard, judged>> /\ WorkerStep

Finish(w) ==
  /\ At(w, "finish")
  /\ finish(worker[w].task, worker[w].verdict)
  /\ Return(w)
  /\ UNCHANGED <<job, historyVars>> /\ WorkerStep

\* What the statement a handler waits for does to the row.
Statement(w) ==
  LET t == worker[w].task IN
  \/ worker[w].pc \in {"overrun", "discard"} /\ finish(t, "killed")
  \/ At(w, "unserved") /\ finish(t, "failed")
  \/ At(w, "finish") /\ finish(t, worker[w].verdict)
  \/ worker[w].pc \in {"take", "reclaim"} /\ takePendingMessage(t)
  \/ At(w, "turn") /\ heartbeat(t)
  \/ worker[w].pc \in {"park", "park again"} /\ parkAllowed(t)
       /\ markAwaitingInput(t)
  \/ At(w, "stash") /\ stashEvalRetry(t, worker[w].tries)

\* A statement fails, or the executor does, and the error leaves runClaimedTask.
HandlerThrows(w) ==
  /\ worker[w].pc \in Executing \ {"start", "evaluate", "escalate", "fail"}
  /\ faults < MaxFaults
  /\ faults' = faults + 1
  /\ UNCHANGED row \/ (LostReplies /\ Statement(w))
  /\ GoTo(w, "fail")
  /\ UNCHANGED <<job, up, clientVars, outages, historyVars>>

\* The handler's catch: fail the row, or give up when that write fails too.
FailRow(w) ==
  /\ At(w, "fail")
  /\ \/ /\ finish(worker[w].task, "failed")
        /\ UNCHANGED faults
     \/ /\ faults < MaxFaults
        /\ faults' = faults + 1
        /\ UNCHANGED row
  /\ Return(w)
  /\ UNCHANGED <<job, up, clientVars, outages, historyVars>>

-----------------------------------------------------------------------------
\* Processes and time.

\* start(): the sweep commits before the first job is taken.
ProcStart(p) ==
  /\ p \notin up
  /\ sweep(ProcNode[p])
  /\ up' = up \cup {p}
  /\ UNCHANGED <<worker, clientVars, budgetVars, historyVars>>

\* stop(): runner.stop() lets the jobs in flight finish.
ProcStop(p) ==
  /\ p \in up
  /\ \A w \in Worker : WorkerProc[w] = p => At(w, "idle")
  /\ outages < MaxOutages
  /\ outages' = outages + 1
  /\ up' = up \ {p}
  /\ UNCHANGED <<storeVars, worker, clientVars, faults, historyVars>>

\* A crash loses the handlers' memory and the jobs they had locked: a job of
\* max_attempts 1 is not handed out again.
ProcCrash(p) ==
  /\ p \in up
  /\ outages < MaxOutages
  /\ outages' = outages + 1
  /\ up' = up \ {p}
  /\ worker' = [w \in Worker |-> IF WorkerProc[w] = p THEN IdleWorker
                                                      ELSE worker[w]]
  /\ UNCHANGED <<storeVars, clientVars, faults, historyVars>>

\* Heartbeats keep an executed row fresh, unless writes are held up that long;
\* a row nobody executes ages.
HeartbeatLapse(t) ==
  /\ row[t].status \in {"running", "awaiting-input"}
  /\ HeartbeatStalls \/ ~ IsExecuted(t)
  /\ ~ row[t].stale
  /\ row' = [row EXCEPT ![t].stale = TRUE]
  /\ UNCHANGED <<job, engineVars, clientVars, budgetVars, historyVars>>

\* The interval timer of a run in flight.
Heartbeat(w) ==
  /\ At(w, "turn")
  /\ RowOf(w).stale
  /\ heartbeat(worker[w].task)
  /\ UNCHANGED <<job, engineVars, clientVars, budgetVars, historyVars>>

-----------------------------------------------------------------------------
Client == \/ \E t \in Task : Create(t) \/ CreateByOldNode(t) \/ Kill(t)
          \/ \E t \in Task, m \in Message : SteerCheck(t, m)
          \/ \E m \in Message : SteerSend(m)

Handler(w) ==
  \/ \E t \in Task : Dequeue(w, t)
  \/ Claim(w) \/ ClaimRefused(w) \/ Recheck(w)
  \/ Reenqueue(w) \/ ReenqueueJob(w)
  \/ NoExecutor(w) \/ TakeResume(w) \/ Start(w) \/ TurnEnd(w) \/ Overrun(w)
  \/ Reread(w) \/ Discard(w) \/ ParkRow(w) \/ ParkRefused(w) \/ Reclaim(w)
  \/ Evaluate(w) \/ Escalate(w) \/ Stash(w) \/ Finish(w) \/ FailRow(w)

Fault(w) == ClaimFails(w) \/ HandlerThrows(w)

Process == \E p \in Proc : ProcStart(p) \/ ProcStop(p) \/ ProcCrash(p)

Clock == \/ \E t \in Task : HeartbeatLapse(t)
         \/ \E w \in Worker : Heartbeat(w)

Next == \/ Client
        \/ \E w \in Worker : Handler(w) \/ Fault(w)
        \/ Process
        \/ Clock

Spec == Init /\ [][Next]_vars

\* The node keeps its process started and every handler going; a client that
\* checked the row sends, time passes.  Clients need not call, processes need
\* not stop, calls need not fail.
Fairness == /\ \A w \in Worker : WF_vars(Handler(w))
            /\ \A p \in Proc : WF_vars(ProcStart(p))
            /\ \A m \in Message : WF_vars(SteerSend(m))
            /\ \A t \in Task : WF_vars(HeartbeatLapse(t))

FairSpec == Spec /\ Fairness

-----------------------------------------------------------------------------
\* Every variable stays within its type.
TypeOK ==
  /\ StoreTypeOK
  /\ up \in SUBSET Proc
  /\ worker \in [Worker -> WorkerState]
  /\ outbox \in [Message -> Task \cup {NoTask}]
  /\ accepted \in SUBSET Message
  /\ outages \in Nat /\ faults \in Nat
  /\ goalRuns \in [Task -> Nat]
  /\ heard \in SUBSET Message
  /\ overwritten \in SUBSET Message
  /\ judged \in [Task -> BOOLEAN]

\* No two workers ever drive the same row, whatever jobs, sweeps of overlapping
\* processes, late sends and failing calls there are (an agent turn must never
\* double-run).  Needs heartbeats that arrive within the sweep window.
SoleRunner ==
  \A v, w \in Worker, t \in Task : Drives(v, t) /\ Drives(w, t) => v = w

\* The engine implements the lease of TaskLifecycle: the owner of a row is the
\* worker between the claim and the last write of runClaimedTask.
Owner(t) == IF IsExecuted(t) THEN CHOOSE w \in Worker : Executes(w, t)
                             ELSE "no owner"

Lifecycle == INSTANCE TaskLifecycle
               WITH status <- [t \in Task |-> row[t].status],
                    owner  <- [t \in Task |-> Owner(t)]

ImplementsLifecycle == Lifecycle!LifecycleSpec

\* A pinned row is only ever executed on its node.
RunsWherePinned ==
  \A w \in Worker, t \in Task :
    Executes(w, t) => Affinity[t] \in {AnyNode, NodeOf(w)}

\* A row with criteria completes only after a verifier passed judgement on its
\* last executor run: retries and re-claims after a crash are judged again.
JudgedBeforeCompleted ==
  \A t \in Evaluable : row[t].status = "completed" => judged[t]

\* eval_attempt never exceeds the retry budget and never goes back: neither a
\* crash nor a later evaluation gives spent retries back.
RetryBudgetKept ==
  [][\A t \in Task : row'[t].evalAttempt \in row[t].evalAttempt .. MaxRetries]_row

\* An escalation is recorded only on a row whose retries are spent.
EscalatedWhenSpent ==
  \A t \in Task : row[t].eval = "escalated" => row[t].evalAttempt = MaxRetries

\* The goal of a row that is not a session is executed at most max_attempts
\* times, whatever is sent to it and however often processes crash.
GoalRunsWithinAttempts ==
  \A t \in Task \ Interactive : goalRuns[t] <= MaxAttempts[t]

\* Where no process dies and no call fails, an accepted message is never
\* dropped by the engine while its row is open: it waits on the row, was taken
\* by the worker about to run it, has been run, or was overwritten by a newer
\* one (the row keeps a single pending message).
MessageAccounted ==
  \A m \in accepted :
    LET t == outbox[m] IN
    \/ m \in heard \cup overwritten
    \/ row[t].pending = m
    \/ row[t].status \in Terminal
    \/ \E w \in Worker : Executes(w, t) /\ worker[w].resume = m

\* Where no process dies and no call fails, a row that waits for a worker has
\* one coming: a job, or a handler about to claim or to enqueue it again.
Attended(t) == \/ job[t] # NoJob
               \/ \E w \in Worker : worker[w].task = t /\ worker[w].pc \in Claiming

WaitingRowAttended ==
  \A t \in Task :
    \/ row[t].status = "queued"
    \/ row[t].status = "awaiting-input" /\ row[t].pending # NoMessage
    => Attended(t)

\* Every created task reaches a terminal status or parks.
Settles ==
  \A t \in Task :
    row[t].status = "queued" ~>
      row[t].status \in Terminal \cup {"awaiting-input"}

\* A session that was sent a message runs it, is overtaken by a newer message
\* or ends.
MessageAnswered ==
  \A m \in Message :
    m \in accepted ~>
      \/ m \in heard \cup overwritten
      \/ \E t \in Task : outbox[m] = t /\ row[t].status \in Terminal

-----------------------------------------------------------------------------
\* What comments and interface documentation say, and the code does not keep.

\* requestKill: "the runner re-reads the row at turn end and discards the
\* outcome" (store.ts).
KillSticks ==
  [][\A t \in Task : row[t].status = "killed" => row'[t].status = "killed"]_row

\* "the goal must never re-execute on resume" (types/task.ts, runner.ts): a row
\* that has been parked before is resumed by messages only.
GoalNotReplayedOnResume ==
  \A t \in Interactive : MaxAttempts[t] = 1 => goalRuns[t] <= 1

\* stashEvalRetry: "a crash mid-retry re-claims into the resume path (goal
\* never re-executes ...)" (store.ts).
GoalNotReplayedOnRetry ==
  [][\A t \in Task : row[t].evalAttempt > 0 => goalRuns'[t] = goalRuns[t]]_goalRuns

\* sweep: "awaiting-input rows nobody resumed within their budget ... expire"
\* (store.ts): a row with a message waiting has been resumed.
ResumedRowNotExpired ==
  [][\A t \in Task :
       row[t].status = "awaiting-input" /\ row[t].pending # NoMessage
         => row'[t].status # "timeout"]_row

\* "the crash sweep will requeue or fail it" (runner.ts): a row left running
\* by a worker that is gone does not stay so.
CrashedRowRecovered ==
  \A t \in Task :
    row[t].status = "running" /\ ~ IsExecuted(t) ~> row[t].status # "running"
=============================================================================
