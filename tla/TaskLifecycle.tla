--------------------------- MODULE TaskLifecycle ---------------------------
(***************************************************************************)
(* What the task engine promises about one task row, whatever the jobs,    *)
(* processes and messages behind it: a row is leased to at most one worker *)
(* at a time, only the worker that holds the lease moves the row out of    *)
(* 'running' with an outcome, a lease ends with the turn or with the       *)
(* process that holds it, and a row nobody holds is terminal for good or   *)
(* is moved by the crash sweep alone.  TaskEngine implements it.           *)
(***************************************************************************)
EXTENDS FiniteSets

CONSTANTS Task,     \* rows of ros_tasks
          Worker    \* worker slots of the runner processes

VARIABLES status,   \* Task -> Status
          owner     \* Task -> the worker that executes the row, or NoOwner

NoOwner  == "no owner"
Terminal == {"completed", "failed", "killed", "timeout"}
Open     == {"queued", "awaiting-input", "running"}
Status   == {"absent"} \cup Open \cup Terminal

lifecycleVars == <<status, owner>>

LifecycleTypeOK == /\ status \in [Task -> Status]
                   /\ owner \in [Task -> Worker \cup {NoOwner}]

LifecycleInit == /\ status = [t \in Task |-> "absent"]
                 /\ owner = [t \in Task |-> NoOwner]

\* A row appears, waiting for a worker.
Submit(t) ==
  /\ status[t] = "absent"
  /\ status' = [status EXCEPT ![t] = "queued"]
  /\ UNCHANGED owner

\* The lease: only a row nobody executes is handed out, to one worker.
Acquire(t, w) ==
  /\ status[t] \in {"queued", "awaiting-input"}
  /\ owner[t] = NoOwner
  /\ \A u \in Task : owner[u] # w
  /\ status' = [status EXCEPT ![t] = "running"]
  /\ owner' = [owner EXCEPT ![t] = w]

\* The owner parks a conversation that waits for its next message.
Park(t) ==
  /\ owner[t] # NoOwner
  /\ status[t] = "running"
  /\ status' = [status EXCEPT ![t] = "awaiting-input"]
  /\ owner' = [owner EXCEPT ![t] = NoOwner]

\* The owner records the outcome.
Conclude(t, s) ==
  /\ owner[t] # NoOwner
  /\ s \in Terminal
  /\ status' = [status EXCEPT ![t] = s]
  /\ owner' = [owner EXCEPT ![t] = NoOwner]

\* Anybody may kill an open row; the turn in flight keeps its lease.
Cancel(t) ==
  /\ status[t] \in Open
  /\ status' = [status EXCEPT ![t] = "killed"]
  /\ UNCHANGED owner

\* Workers die, or give up without recording anything.
Abandon(W) ==
  /\ owner' = [t \in Task |-> IF owner[t] \in W THEN NoOwner ELSE owner[t]]
  /\ UNCHANGED status

\* A starting process gives back, fails or expires rows nobody executes.
Recover ==
  /\ UNCHANGED owner
  /\ status' \in [Task -> Status]
  /\ \A t \in Task :
       status'[t] # status[t] =>
         /\ owner[t] = NoOwner
         /\ \/ status[t] = "running" /\ status'[t] \in {"queued", "failed"}
            \/ status[t] = "awaiting-input" /\ status'[t] = "timeout"

LifecycleNext ==
  \/ \E t \in Task :
       \/ Submit(t)
       \/ \E w \in Worker : Acquire(t, w)
       \/ Park(t)
       \/ \E s \in Terminal : Conclude(t, s)
       \/ Cancel(t)
  \/ \E W \in SUBSET Worker : Abandon(W)
  \/ Recover

LifecycleSpec == LifecycleInit /\ [][LifecycleNext]_lifecycleVars

-----------------------------------------------------------------------------
\* A leased row is running, or was killed under its worker: no outcome is ever
\* visible while a worker may still overwrite it, except a kill.
LeaseMeansRunning ==
  \A t \in Task : owner[t] # NoOwner => status[t] \in {"running", "killed"}

\* A terminal row that nobody executes never changes again.
OutcomeIsFinal ==
  [][\A t \in Task : status[t] \in Terminal /\ owner[t] = NoOwner
                       => status'[t] = status[t] /\ owner'[t] = NoOwner]_lifecycleVars
=============================================================================
