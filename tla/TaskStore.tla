------------------------------ MODULE TaskStore ------------------------------
(***************************************************************************)
(* The durable task store (packages/core/src/domain/task/store.ts,         *)
(* PgTaskStore): one row of ros_tasks per task and its graphile-worker     *)
(* job.  Every operation but reenqueue is one SQL statement or one         *)
(* transaction, so every operator below is one atomic change of row and    *)
(* job; an operator X with a predicate XAllowed is an UPDATE with its      *)
(* WHERE clause.                                                           *)
(*                                                                         *)
(* Time is abstracted to the one comparison the code makes: stale says     *)
(* that the row's last_heartbeat_at is older than the limit the sweep      *)
(* applies to its status (90 s when running, the TTL when parked).         *)
(***************************************************************************)
EXTENDS Naturals

CONSTANTS
  Task,         \* task ids
  Node,         \* node ids
  Message,      \* messages clients send, each sent at most once
  MaxAttempts,  \* Task -> the row's max_attempts
  Interactive,  \* tasks with spec.interactive (subagent sessions)
  Evaluable,    \* other tasks with criteria that shouldEvaluate accepts
  Affinity      \* Task -> node_affinity, AnyNode when NULL

AnyNode    == "any node"
NoMessage  == "no message"     \* pending_message IS NULL
RetrySteer == "retry steer"    \* the message buildRetryMessage composes
NoJob      == "no job"
GlobalJob  == "run-task"       \* TASK_JOB_NAME; per-node names are the nodes

ASSUME StoreAssumption ==
  /\ MaxAttempts \in [Task -> Nat \ {0}]
  /\ Interactive \subseteq Task
  /\ Evaluable \subseteq Task \ Interactive
  /\ Affinity \in [Task -> Node \cup {AnyNode}]
  /\ AnyNode \notin Node /\ NoJob \notin Node /\ GlobalJob \notin Node
  /\ NoMessage \notin Message /\ RetrySteer \notin Message

Terminal == {"completed", "failed", "killed", "timeout"}
Open     == {"queued", "awaiting-input", "running"}
Status   == {"absent"} \cup Open \cup Terminal
EvalMark == {"none", "verified", "refuted", "escalated"}
Steer    == Message \cup {RetrySteer}

VARIABLES
  row,  \* Task -> the ros_tasks row
  job   \* Task -> name of the unlocked job keyed task:<id>, NoJob if none

storeVars == <<row, job>>

Row == [status      : Status,
        attempt     : Nat,
        evalAttempt : Nat,
        pending     : Steer \cup {NoMessage},
        claimedBy   : Node \cup {AnyNode},   \* AnyNode before the first claim
        stale       : BOOLEAN,
        eval        : EvalMark]

JobName == Node \cup {GlobalJob, NoJob}

NoRow == [status |-> "absent", attempt |-> 0, evalAttempt |-> 0,
          pending |-> NoMessage, claimedBy |-> AnyNode, stale |-> FALSE,
          eval |-> "none"]

StoreInit == /\ row = [t \in Task |-> NoRow]
             /\ job = [t \in Task |-> NoJob]

-----------------------------------------------------------------------------
\* Variants marked "Mistake" are plausible errors in the definition that follows;
\* no action uses them.

\* Mistake: node affinity does not reach the job name.
JobNameIgnoresPin(t) == GlobalJob

\* taskJobName: pinned rows enqueue under their node's name, others globally.
JobNameOf(t) == IF Affinity[t] = AnyNode THEN GlobalJob ELSE Affinity[t]

\* add_job under the key task:<id>.  graphile replaces an unlocked job of that
\* key and adds a second one when the first is locked by a worker; a locked
\* job is a worker's business (TaskEngine), so here the key's job is replaced.
addJob(t) == job' = [job EXCEPT ![t] = JobNameOf(t)]

\* Mistake: the row is inserted without its job.
createWithoutJob(t) == /\ row[t].status = "absent"
                       /\ row' = [row EXCEPT ![t] = [NoRow EXCEPT !.status = "queued"]]
                       /\ UNCHANGED job

\* INSERT and add_job in one transaction.
create(t) == /\ row[t].status = "absent"
             /\ row' = [row EXCEPT ![t] = [NoRow EXCEPT !.status = "queued"]]
             /\ addJob(t)

\* The insert of a node of an older version during a rolling upgrade: it knows
\* no per-node job names (handler's comment on the mixed-version window).
createByOldNode(t) ==
  /\ row[t].status = "absent"
  /\ Affinity[t] # AnyNode
  /\ row' = [row EXCEPT ![t] = [NoRow EXCEPT !.status = "queued"]]
  /\ job' = [job EXCEPT ![t] = GlobalJob]

\* Mistake: the claim's WHERE clause lacks the pin.
claimAllowedAnywhere(t, n) == row[t].status \in {"queued", "awaiting-input"}

claimAllowed(t, n) == /\ row[t].status \in {"queued", "awaiting-input"}
                      /\ Affinity[t] \in {AnyNode, n}

claim(t, n) ==
  row' = [row EXCEPT ![t] = [@ EXCEPT !.status = "running", !.stale = FALSE,
                               !.claimedBy = n, !.attempt = row[t].attempt + 1]]

\* No WHERE clause but the id: whatever the row's status has become.
finish(t, s) ==
  row' = [row EXCEPT ![t] = [@ EXCEPT !.status = s, !.pending = NoMessage]]

recordEval(t, mark, tries) ==
  row' = [row EXCEPT ![t] = [@ EXCEPT !.eval = mark, !.evalAttempt = tries]]

stashEvalRetry(t, tries) ==
  row' = IF row[t].status = "running"
         THEN [row EXCEPT ![t] = [@ EXCEPT !.evalAttempt = tries,
                                           !.pending = RetrySteer]]
         ELSE row

\* Mistake: a message that came in during the turn does not stop the parking.
parkAllowedWithMessage(t) == row[t].status = "running"

parkAllowed(t) == row[t].status = "running" /\ row[t].pending = NoMessage

\* Mistake: a status the schema does not have.
markParked(t) == row' = [row EXCEPT ![t].status = "parked"]

\* The parked row is measured by its TTL from now on.
markAwaitingInput(t) ==
  row' = [row EXCEPT ![t] = [@ EXCEPT !.status = "awaiting-input", !.stale = FALSE]]

\* Mistake: the kill does not look at the status.
requestKillAny(t) == /\ row[t].status # "absent"
                     /\ row' = [row EXCEPT ![t].status = "killed"]

requestKill(t) == /\ row[t].status \in Open
                  /\ row' = [row EXCEPT ![t].status = "killed"]

takePendingMessage(t) == row' = [row EXCEPT ![t].pending = NoMessage]

\* Mistake: the message is stored and no job is added.
sendWithoutJob(t, m) == /\ row' = [row EXCEPT ![t].pending = m]
                        /\ UNCHANGED job

\* The status is not looked at: callers check it before, in another statement.
send(t, m) == /\ row' = [row EXCEPT ![t].pending = m]
              /\ addJob(t)

\* heartbeat, and updateUsage as far as the liveness stamp goes.
heartbeat(t) == row' = [row EXCEPT ![t].stale = FALSE]

-----------------------------------------------------------------------------
\* The three UPDATEs of the sweep, in its one transaction: stale running rows
\* of the node are requeued while they have attempts left and failed otherwise,
\* its parked rows expire.
\* Mistakes: rows with a fresh heartbeat are swept, or one attempt too many.
sweepRequeuesFresh(t, n) == /\ row[t].status = "running"
                            /\ row[t].claimedBy = n
                            /\ row[t].attempt < MaxAttempts[t]

sweepRequeuesOnceMore(t, n) == /\ row[t].status = "running"
                               /\ row[t].claimedBy = n
                               /\ row[t].stale
                               /\ row[t].attempt <= MaxAttempts[t]

sweepRequeues(t, n) == /\ row[t].status = "running"
                       /\ row[t].claimedBy = n
                       /\ row[t].stale
                       /\ row[t].attempt < MaxAttempts[t]

sweepFails(t, n) == /\ row[t].status = "running"
                    /\ row[t].claimedBy = n
                    /\ row[t].stale
                    /\ ~ (row[t].attempt < MaxAttempts[t])

sweepExpires(t, n) == /\ row[t].status = "awaiting-input"
                      /\ row[t].claimedBy = n
                      /\ row[t].stale

sweptStatus(t, n) ==
  IF sweepRequeues(t, n) THEN "queued"
  ELSE IF sweepFails(t, n) THEN "failed"
  ELSE IF sweepExpires(t, n) THEN "timeout"
  ELSE row[t].status

sweep(n) ==
  /\ row' = [t \in Task |-> [row[t] EXCEPT !.status = sweptStatus(t, n)]]
  /\ job' = [t \in Task |-> IF sweepRequeues(t, n) THEN JobNameOf(t)
                                                   ELSE job[t]]

-----------------------------------------------------------------------------
StoreTypeOK == row \in [Task -> Row] /\ job \in [Task -> JobName]
=============================================================================
