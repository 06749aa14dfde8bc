--------------------------- MODULE TaskEngineProofs ---------------------------
(***************************************************************************)
(* Theorems about TaskEngine, for any number of tasks, nodes, processes,   *)
(* workers and messages and any bounds on faults and outages.              *)
(***************************************************************************)
EXTENDS TaskEngine, TLAPS

\* A worker that is not idle has a task.
BusyHasTask == \A w \in Worker : worker[w].pc # "idle" => worker[w].task \in Task

TypeInv == TypeOK /\ BusyHasTask

-----------------------------------------------------------------------------
\* Type correctness.

LEMMA NoRowType == NoRow \in Row
  BY DEF NoRow, Row, Status, Steer, EvalMark

LEMMA IdleWorkerType == IdleWorker \in WorkerState
  BY DEF IdleWorker, WorkerState, PC, Verdict

LEMMA TypeInit == Init => TypeInv
  <1> SUFFICES ASSUME Init PROVE TypeInv
    OBVIOUS
  <1>1. StoreTypeOK
    BY NoRowType DEF Init, StoreInit, StoreTypeOK, JobName
  <1>2. worker \in [Worker -> WorkerState]
    BY IdleWorkerType DEF Init
  <1>3. BusyHasTask
    BY DEF Init, BusyHasTask, IdleWorker
  <1> QED
    BY <1>1, <1>2, <1>3 DEF Init, TypeInv, TypeOK

LEMMA JobNameType == ASSUME NEW t \in Task PROVE JobNameOf(t) \in JobName
  BY StoreAssumption DEF JobNameOf, JobName

\* The records a store operation writes are rows, and writing a row keeps the type.
LEMMA WrittenRows ==
  ASSUME NEW r \in Row
  PROVE  /\ \A s \in Status : [r EXCEPT !.status = s] \in Row
         /\ \A s \in Status, p \in Steer \cup {NoMessage} :
               [r EXCEPT !.status = s, !.pending = p] \in Row
         /\ \A s \in Status, b \in BOOLEAN :
               [r EXCEPT !.status = s, !.stale = b] \in Row
         /\ \A p \in Steer \cup {NoMessage} : [r EXCEPT !.pending = p] \in Row
         /\ \A b \in BOOLEAN : [r EXCEPT !.stale = b] \in Row
         /\ \A e \in EvalMark, k \in Nat :
               [r EXCEPT !.eval = e, !.evalAttempt = k] \in Row
         /\ \A k \in Nat, p \in Steer \cup {NoMessage} :
               [r EXCEPT !.evalAttempt = k, !.pending = p] \in Row
  <1>1. \A s \in Status : [r EXCEPT !.status = s] \in Row
    BY DEF Row
  <1>2. \A s \in Status, p \in Steer \cup {NoMessage} :
           [r EXCEPT !.status = s, !.pending = p] \in Row
    BY DEF Row
  <1>3. \A s \in Status, b \in BOOLEAN : [r EXCEPT !.status = s, !.stale = b] \in Row
    BY DEF Row
  <1>4. \A p \in Steer \cup {NoMessage} : [r EXCEPT !.pending = p] \in Row
    BY DEF Row
  <1>5. \A b \in BOOLEAN : [r EXCEPT !.stale = b] \in Row
    BY DEF Row
  <1>6. \A e \in EvalMark, k \in Nat : [r EXCEPT !.eval = e, !.evalAttempt = k] \in Row
    BY DEF Row
  <1>7. \A k \in Nat, p \in Steer \cup {NoMessage} :
           [r EXCEPT !.evalAttempt = k, !.pending = p] \in Row
    BY DEF Row
  <1> QED
    BY <1>1, <1>2, <1>3, <1>4, <1>5, <1>6, <1>7

LEMMA RowWrite ==
  ASSUME TypeInv, NEW t \in Task, NEW r \in Row, row' = [row EXCEPT ![t] = r]
  PROVE  row' \in [Task -> Row]
  BY DEF TypeInv, TypeOK, StoreTypeOK

LEMMA StatusWords ==
  /\ Terminal \subseteq Status /\ Open \subseteq Status
  /\ {"killed", "failed", "timeout"} \subseteq Status
  /\ {"queued", "running", "awaiting-input"} \subseteq Status
  BY DEF Status, Terminal, Open

LEMMA TypedRow == ASSUME TypeInv, NEW t \in Task PROVE row[t] \in Row
  BY DEF TypeInv, TypeOK, StoreTypeOK

LEMMA ClientType ==
  ASSUME TypeInv, Client PROVE TypeInv'
  <1> USE DEF TypeInv, TypeOK, StoreTypeOK, BusyHasTask
  <1>1. ASSUME NEW t \in Task, Create(t) PROVE TypeInv'
    BY <1>1, JobNameType DEF Create, create, addJob, Row, NoRow, Status, Open, EvalMark, Steer, engineVars, clientVars, budgetVars, historyVars
  <1>2. ASSUME NEW t \in Task, CreateByOldNode(t) PROVE TypeInv'
    BY <1>2 DEF CreateByOldNode, createByOldNode, JobName, Row, NoRow, Status, Open, EvalMark, Steer, engineVars, clientVars, budgetVars, historyVars
  <1>3. ASSUME NEW t \in Task, Kill(t) PROVE TypeInv'
    <2>1. row' = [row EXCEPT ![t] = [row[t] EXCEPT !.status = "killed"]]
      BY <1>3 DEF Kill, requestKill
    <2>2. [row[t] EXCEPT !.status = "killed"] \in Row
      BY TypedRow, StatusWords, WrittenRows
    <2>3. row' \in [Task -> Row]
      BY <2>1, <2>2, RowWrite
    <2> QED
      BY <1>3, <2>3 DEF Kill, engineVars, clientVars, budgetVars, historyVars
  <1>4. ASSUME NEW t \in Task, NEW m \in Message, SteerCheck(t, m) PROVE TypeInv'
    BY <1>4 DEF SteerCheck, storeVars, engineVars, budgetVars, historyVars
  <1>5. ASSUME NEW m \in Message, SteerSend(m) PROVE TypeInv'
    <2>1. outbox[m] \in Task
      BY <1>5 DEF SteerSend
    <2> QED
      BY <1>5, <2>1, JobNameType DEF SteerSend, send, addJob, Overwrite, Row, Steer, engineVars, budgetVars
  <1> QED
    BY <1>1, <1>2, <1>3, <1>4, <1>5 DEF Client

\* What a worker action leaves of the worker's own state.
LEMMA WorkerTypes ==
  ASSUME TypeInv, NEW w \in Worker
  PROVE  /\ worker[w] \in WorkerState
         /\ worker[w].pc \in PC
         /\ worker[w].pc # "idle" => worker[w].task \in Task
         /\ worker[w].tries \in Nat
         /\ worker[w].verdict \in Verdict
         /\ worker[w].resume \in Steer \cup {NoMessage}
  BY DEF TypeInv, TypeOK, BusyHasTask, WorkerState

LEMMA GoToType ==
  ASSUME TypeInv, NEW w \in Worker, NEW pc \in PC,
         pc # "idle" => worker[w].pc # "idle", GoTo(w, pc)
  PROVE  worker' \in [Worker -> WorkerState] /\ BusyHasTask'
  BY DEF TypeInv, TypeOK, BusyHasTask, WorkerState, GoTo

LEMMA MoveType ==
  ASSUME TypeInv, NEW w \in Worker, NEW r \in WorkerState,
         r.pc # "idle" => r.task \in Task,
         worker' = [worker EXCEPT ![w] = r]
  PROVE  worker' \in [Worker -> WorkerState] /\ BusyHasTask'
  BY DEF TypeInv, TypeOK, BusyHasTask

LEMMA ReturnType ==
  ASSUME TypeInv, NEW w \in Worker, Return(w)
  PROVE  worker' \in [Worker -> WorkerState] /\ BusyHasTask'
  BY IdleWorkerType DEF TypeInv, TypeOK, BusyHasTask, IdleWorker, Return

LEMMA FinishType ==
  ASSUME TypeInv, NEW t \in Task, NEW s \in Terminal, finish(t, s)
  PROVE  row' \in [Task -> Row]
  <1>1. [row[t] EXCEPT !.status = s, !.pending = NoMessage] \in Row
    BY TypedRow, StatusWords, WrittenRows
  <1> QED
    BY <1>1, RowWrite DEF finish

LEMMA ClaimRowType ==
  ASSUME TypeInv, NEW t \in Task, NEW n \in Node, claim(t, n)
  PROVE  row' \in [Task -> Row]
  <1> DEFINE r == [row[t] EXCEPT !.status = "running", !.stale = FALSE,
                                 !.claimedBy = n, !.attempt = row[t].attempt + 1]
  <1>1. row[t] \in Row /\ row[t].attempt \in Nat
    BY DEF TypeInv, TypeOK, StoreTypeOK, Row
  <1>2. r \in Row
    <2> DEFINE k == row[t].attempt + 1
    <2>1. k \in Nat
      BY <1>1
    <2> HIDE DEF k
    <2>2. [row[t] EXCEPT !.status = "running", !.stale = FALSE,
                         !.claimedBy = n, !.attempt = k] \in Row
      BY <1>1, <2>1 DEF Row, Status, Open
    <2> QED
      BY <2>2 DEF k
  <1> HIDE DEF r
  <1>3. row' = [row EXCEPT ![t] = r]
    BY DEF claim, r
  <1> QED
    BY <1>2, <1>3 DEF TypeInv, TypeOK, StoreTypeOK

LEMMA TakeType ==
  ASSUME TypeInv, NEW t \in Task, takePendingMessage(t)
  PROVE  row' \in [Task -> Row]
  <1>1. [row[t] EXCEPT !.pending = NoMessage] \in Row
    BY TypedRow, WrittenRows
  <1> QED
    BY <1>1, RowWrite DEF takePendingMessage

LEMMA ParkType ==
  ASSUME TypeInv, NEW t \in Task, markAwaitingInput(t)
  PROVE  row' \in [Task -> Row]
  <1>1. [row[t] EXCEPT !.status = "awaiting-input", !.stale = FALSE] \in Row
    BY TypedRow, StatusWords, WrittenRows
  <1> QED
    BY <1>1, RowWrite DEF markAwaitingInput

LEMMA HeartbeatType ==
  ASSUME TypeInv, NEW t \in Task, heartbeat(t)
  PROVE  row' \in [Task -> Row]
  <1>1. [row[t] EXCEPT !.stale = FALSE] \in Row
    BY TypedRow, WrittenRows
  <1> QED
    BY <1>1, RowWrite DEF heartbeat

LEMMA RecordEvalType ==
  ASSUME TypeInv, NEW t \in Task, NEW mark \in EvalMark, NEW k \in Nat,
         recordEval(t, mark, k)
  PROVE  row' \in [Task -> Row]
  <1>1. [row[t] EXCEPT !.eval = mark, !.evalAttempt = k] \in Row
    BY TypedRow, WrittenRows
  <1> QED
    BY <1>1, RowWrite DEF recordEval

LEMMA StashType ==
  ASSUME TypeInv, NEW t \in Task, NEW k \in Nat, stashEvalRetry(t, k)
  PROVE  row' \in [Task -> Row]
  <1>1. [row[t] EXCEPT !.evalAttempt = k, !.pending = RetrySteer] \in Row
    BY TypedRow, WrittenRows DEF Steer
  <1>2. CASE row[t].status = "running"
    BY <1>1, <1>2, RowWrite DEF stashEvalRetry
  <1>3. CASE row[t].status # "running"
    BY <1>3 DEF stashEvalRetry, TypeInv, TypeOK, StoreTypeOK
  <1> QED
    BY <1>2, <1>3

LEMMA SweepType ==
  ASSUME TypeInv, NEW n \in Node, sweep(n)
  PROVE  StoreTypeOK'
  <1>1. \A t \in Task : sweptStatus(t, n) \in Status
    <2>1. \A t \in Task : row[t].status \in Status
      BY TypedRow DEF Row
    <2> QED
      BY <2>1, StatusWords DEF sweptStatus
  <1>2. \A t \in Task : [row[t] EXCEPT !.status = sweptStatus(t, n)] \in Row
    BY <1>1, TypedRow, WrittenRows
  <1>4. row' \in [Task -> Row]
    BY <1>2 DEF sweep
  <1>3. job' \in [Task -> JobName]
    BY JobNameType DEF TypeInv, TypeOK, StoreTypeOK, sweep
  <1> QED
    BY <1>3, <1>4 DEF StoreTypeOK

LEMMA StatementType ==
  ASSUME TypeInv, NEW w \in Worker, Statement(w), worker[w].pc # "idle"
  PROVE  row' \in [Task -> Row]
  <1> DEFINE t == worker[w].task
  <1>1. t \in Task /\ worker[w].tries \in Nat /\ worker[w].verdict \in Terminal
    BY WorkerTypes DEF Verdict, Terminal
  <1>2. "killed" \in Terminal /\ "failed" \in Terminal
    BY DEF Terminal
  <1> HIDE DEF t
  <1>3. CASE finish(t, "killed") \/ finish(t, "failed") \/ finish(t, worker[w].verdict)
    BY <1>1, <1>2, <1>3, FinishType
  <1>4. CASE takePendingMessage(t)
    BY <1>1, <1>4, TakeType
  <1>5. CASE heartbeat(t)
    BY <1>1, <1>5, HeartbeatType
  <1>6. CASE markAwaitingInput(t)
    BY <1>1, <1>6, ParkType
  <1>7. CASE stashEvalRetry(t, worker[w].tries)
    BY <1>1, <1>7, StashType
  <1> QED
    BY <1>3, <1>4, <1>5, <1>6, <1>7 DEF Statement, t


\* Client and clock steps aside, every step is a handler's, a fault or a
\* process's; each is typed by the lemmas on the parts it is made of.
LEMMA HandlerType ==
  ASSUME TypeInv, NEW w \in Worker, Handler(w)
  PROVE  TypeInv'
  <1> USE DEF WorkerStep, clientVars, budgetVars, historyVars, storeVars
  <1> DEFINE t == worker[w].task
  <1>0. worker[w].pc # "idle" => t \in Task
    BY WorkerTypes
  <1>1. ASSUME NEW u \in Task, Dequeue(w, u) PROVE TypeInv'
    <2>1. worker' \in [Worker -> WorkerState] /\ BusyHasTask'
      <3> DEFINE r == [worker[w] EXCEPT !.pc = "claim", !.task = u]
      <3>1. r \in WorkerState /\ r.task = u
        BY WorkerTypes DEF WorkerState, PC, Claiming
      <3>2. worker' = [worker EXCEPT ![w] = r]
        BY <1>1 DEF Dequeue
      <3> HIDE DEF r
      <3> QED
        BY <3>1, <3>2, MoveType
    <2>2. job' \in [Task -> JobName]
      BY <1>1 DEF Dequeue, TypeInv, TypeOK, StoreTypeOK, JobName
    <2> QED
      BY <1>1, <2>1, <2>2 DEF Dequeue, TypeInv, TypeOK, StoreTypeOK
  <1>2. CASE Claim(w)
    <2>1. NodeOf(w) \in Node
      BY EngineAssumption DEF NodeOf
    <2>2. row' \in [Task -> Row]
      BY <1>0, <1>2, <2>1, ClaimRowType DEF Claim, At
    <2>3. row[t].evalAttempt \in Nat
      BY <1>0, <1>2 DEF Claim, At, TypeInv, TypeOK, StoreTypeOK, Row
    <2>4. worker' \in [Worker -> WorkerState] /\ BusyHasTask'
      <3> DEFINE pc == IF t \notin Registered[NodeOf(w)] THEN "unserved"
                       ELSE IF row[t].pending = NoMessage THEN "start"
                       ELSE "take"
                 r == [worker[w] EXCEPT !.pc = pc, !.tries = row[t].evalAttempt]
      <3>1. pc \in PC
        BY DEF PC, Executing
      <3>2. worker[w] \in WorkerState /\ t \in Task
        BY <1>0, <1>2, WorkerTypes DEF Claim, At
      <3>3. r \in WorkerState /\ r.task = t
        BY <2>3, <3>1, <3>2 DEF WorkerState
      <3>4. worker' = [worker EXCEPT ![w] = r]
        BY <1>2 DEF Claim
      <3> HIDE DEF r
      <3> QED
        BY <3>2, <3>3, <3>4, MoveType
    <2> QED
      BY <1>2, <2>2, <2>4 DEF Claim, TypeInv, TypeOK, StoreTypeOK
  <1>3. CASE ClaimRefused(w) \/ Recheck(w)
    BY <1>3, GoToType, ReturnType DEF ClaimRefused, Recheck, At, TypeInv, TypeOK,
       StoreTypeOK, PC, Claiming
  <1>4. CASE Reenqueue(w)
    BY <1>0, <1>4, ReturnType, GoToType DEF Reenqueue, At, PC, Claiming, TypeInv,
       TypeOK, StoreTypeOK
  <1>15. CASE ReenqueueJob(w)
    BY <1>0, <1>15, ReturnType, JobNameType DEF ReenqueueJob, addJob, At,
       TypeInv, TypeOK, StoreTypeOK
  <1>5. CASE NoExecutor(w) \/ Overrun(w) \/ Discard(w) \/ Finish(w)
    <2>1. worker[w].verdict \in Terminal /\ "failed" \in Terminal /\ "killed" \in Terminal
      BY WorkerTypes DEF Verdict, Terminal
    <2>2. row' \in [Task -> Row]
      BY <1>0, <1>5, <2>1, FinishType DEF NoExecutor, Overrun, Discard, Finish, At
    <2> QED
      BY <1>5, <2>2, ReturnType DEF NoExecutor, Overrun, Discard, Finish,
         TypeInv, TypeOK, StoreTypeOK
  <1>6. CASE TakeResume(w) \/ Reclaim(w)
    <2>1. row[t].pending \in Steer \cup {NoMessage}
      BY <1>0, <1>6 DEF TakeResume, Reclaim, At, TypeInv, TypeOK, StoreTypeOK, Row
    <2>2. row' \in [Task -> Row]
      BY <1>0, <1>6, TakeType DEF TakeResume, Reclaim, At
    <2>3. worker' \in [Worker -> WorkerState] /\ BusyHasTask'
      <3>1. worker[w] \in WorkerState /\ t \in Task
        BY <1>0, <1>6, WorkerTypes DEF TakeResume, Reclaim, At
      <3>2. PICK pc \in {"start", "park again"} : worker' = [worker EXCEPT ![w] =
              [worker[w] EXCEPT !.pc = pc, !.resume = row[t].pending]]
        BY <1>6 DEF TakeResume, Reclaim
      <3>3. pc \in PC
        BY DEF PC, Executing
      <3> DEFINE r == [worker[w] EXCEPT !.pc = pc, !.resume = row[t].pending]
      <3>4. r \in WorkerState /\ r.task = t
        BY <2>1, <3>1, <3>3 DEF WorkerState
      <3> HIDE DEF r
      <3> QED
        BY <3>1, <3>2, <3>4, MoveType DEF r
    <2> QED
      BY <1>6, <2>2, <2>3 DEF TakeResume, Reclaim, TypeInv, TypeOK, StoreTypeOK
  <1>7. CASE Start(w)
    <2>1. worker' \in [Worker -> WorkerState] /\ BusyHasTask'
      BY <1>7, GoToType DEF Start, At, PC, Executing
    <2>2. goalRuns' \in [Task -> Nat]
      <3> DEFINE k == IF worker[w].resume = NoMessage THEN goalRuns[t] + 1
                                                      ELSE goalRuns[t]
      <3>1. t \in Task
        BY <1>0, <1>7 DEF Start, At
      <3>2. k \in Nat
        BY <3>1 DEF TypeInv, TypeOK
      <3>3. goalRuns' = [goalRuns EXCEPT ![t] = k]
        BY <1>7, <3>1 DEF Start, TypeInv, TypeOK
      <3> HIDE DEF k
      <3> QED
        BY <3>2, <3>3 DEF TypeInv, TypeOK
    <2>3. judged' \in [Task -> BOOLEAN] /\ heard' \in SUBSET Message
      BY <1>7 DEF Start, TypeInv, TypeOK
    <2> QED
      BY <1>7, <2>1, <2>2, <2>3 DEF Start, TypeInv, TypeOK, StoreTypeOK
  <1>8. CASE TurnEnd(w)
    <2>1. row' \in [Task -> Row]
      BY <1>0, <1>8, HeartbeatType DEF TurnEnd, At
    <2>2. worker' \in [Worker -> WorkerState] /\ BusyHasTask'
      <3>1. CASE GoTo(w, "overrun")
        BY <1>8, <3>1, GoToType DEF TurnEnd, At, PC, Executing
      <3>2. ASSUME NEW v \in Verdict,
                   worker' = [worker EXCEPT ![w] =
                     [worker[w] EXCEPT !.pc = "reread", !.verdict = v]]
            PROVE  worker' \in [Worker -> WorkerState] /\ BusyHasTask'
        <4> DEFINE r == [worker[w] EXCEPT !.pc = "reread", !.verdict = v]
        <4>1. worker[w] \in WorkerState /\ t \in Task
          BY <1>0, <1>8, WorkerTypes DEF TurnEnd, At
        <4>2. r \in WorkerState /\ r.task = t
          BY <4>1 DEF WorkerState, PC, Executing
        <4> HIDE DEF r
        <4> QED
          BY <3>2, <4>1, <4>2, MoveType DEF r
      <3> QED
        BY <1>8, <3>1, <3>2 DEF TurnEnd
    <2> QED
      BY <1>8, <2>1, <2>2 DEF TurnEnd, TypeInv, TypeOK, StoreTypeOK
  <1>9. CASE Reread(w) \/ ParkRefused(w)
    BY <1>9, GoToType DEF Reread, ParkRefused, AfterRun, At, TypeInv, TypeOK,
       StoreTypeOK, PC, Executing
  <1>10. CASE ParkRow(w)
    BY <1>0, <1>10, ParkType, ReturnType DEF ParkRow, TypeInv, TypeOK, StoreTypeOK
  <1>11. CASE Evaluate(w)
    <2>1. row' \in [Task -> Row]
      BY <1>0, <1>11, RecordEvalType, WorkerTypes DEF Evaluate, At, EvalMark,
         TypeInv, TypeOK, StoreTypeOK
    <2>2. worker' \in [Worker -> WorkerState] /\ BusyHasTask'
      <3> DEFINE retry == [worker[w] EXCEPT !.pc = "stash",
                             !.tries = worker[w].tries + 1, !.resume = RetrySteer]
                 spent == [worker[w] EXCEPT !.pc = "escalate"]
      <3>1. worker[w] \in WorkerState /\ t \in Task /\ worker[w].tries \in Nat
        BY <1>0, <1>11, WorkerTypes DEF Evaluate, At
      <3>2. retry \in WorkerState /\ retry.task = t
        <4> DEFINE k == worker[w].tries + 1
        <4>1. k \in Nat
          BY <3>1
        <4> HIDE DEF k
        <4>2. /\ [worker[w] EXCEPT !.pc = "stash", !.tries = k,
                                   !.resume = RetrySteer] \in WorkerState
              /\ [worker[w] EXCEPT !.pc = "stash", !.tries = k,
                                   !.resume = RetrySteer].task = t
          BY <3>1, <4>1 DEF WorkerState, PC, Executing, Steer
        <4> QED
          BY <4>2 DEF k
      <3>3. spent \in WorkerState /\ spent.task = t
        BY <3>1 DEF WorkerState, PC, Executing
      <3>4. \/ GoTo(w, "finish")
            \/ worker' = [worker EXCEPT ![w] = retry]
            \/ worker' = [worker EXCEPT ![w] = spent]
        BY <1>11 DEF Evaluate, AfterRefutation
      <3>5. CASE GoTo(w, "finish")
        BY <1>11, <3>5, GoToType DEF Evaluate, At, PC, Executing
      <3> HIDE DEF retry, spent
      <3> QED
        BY <3>1, <3>2, <3>3, <3>4, <3>5, MoveType
    <2>3. faults' \in Nat
      <3>1. faults' = faults \/ faults' = faults + 1
        BY <1>11 DEF Evaluate
      <3> QED
        BY <3>1 DEF TypeInv, TypeOK
    <2>4. judged' \in [Task -> BOOLEAN]
      BY <1>11 DEF Evaluate, TypeInv, TypeOK
    <2> QED
      BY <1>11, <2>1, <2>2, <2>3, <2>4 DEF Evaluate, TypeInv, TypeOK, StoreTypeOK
  <1>12. CASE Escalate(w)
    <2>1. row' \in [Task -> Row]
      BY <1>0, <1>12, RecordEvalType, WorkerTypes DEF Escalate, At, EvalMark,
         TypeInv, TypeOK, StoreTypeOK
    <2>2. worker' \in [Worker -> WorkerState] /\ BusyHasTask'
      BY <1>12, GoToType DEF Escalate, At, PC, Executing
    <2> QED
      BY <1>12, <2>1, <2>2 DEF Escalate, TypeInv, TypeOK, StoreTypeOK
  <1>13. CASE Stash(w)
    <2>1. row' \in [Task -> Row]
      BY <1>0, <1>13, StashType, WorkerTypes DEF Stash, At
    <2>2. overwritten' \in SUBSET Message
      BY <1>13 DEF Stash, Overwrite, TypeInv, TypeOK
    <2> QED
      BY <1>13, <2>1, <2>2, GoToType DEF Stash, At, PC, Executing, TypeInv,
         TypeOK, StoreTypeOK
  <1>14. CASE FailRow(w)
    <2>1. row' \in [Task -> Row]
      BY <1>0, <1>14, FinishType DEF FailRow, At, Terminal, TypeInv, TypeOK,
         StoreTypeOK
    <2> QED
      BY <1>14, <2>1, ReturnType DEF FailRow, TypeInv, TypeOK, StoreTypeOK
  <1> QED
    BY <1>1, <1>2, <1>3, <1>4, <1>5, <1>6, <1>7, <1>8, <1>9, <1>10, <1>11,
       <1>12, <1>13, <1>14, <1>15 DEF Handler

LEMMA FaultType ==
  ASSUME TypeInv, NEW w \in Worker, Fault(w)
  PROVE  TypeInv'
  <1> USE DEF clientVars, budgetVars, historyVars, storeVars
  <1>1. CASE ClaimFails(w)
    <2>1. NodeOf(w) \in Node
      BY EngineAssumption DEF NodeOf
    <2>2. worker[w].task \in Task
      BY <1>1, WorkerTypes DEF ClaimFails, Claiming
    <2>3. row' \in [Task -> Row]
      BY <1>1, <2>1, <2>2, ClaimRowType DEF ClaimFails, TypeInv, TypeOK, StoreTypeOK
    <2> QED
      BY <1>1, <2>3, ReturnType DEF ClaimFails, TypeInv, TypeOK, StoreTypeOK
  <1>2. CASE HandlerThrows(w)
    <2>1. worker[w].pc # "idle"
      BY <1>2 DEF HandlerThrows, Executing
    <2>2. row' \in [Task -> Row] /\ job' = job
      BY <1>2, <2>1, StatementType DEF HandlerThrows, TypeInv, TypeOK, StoreTypeOK
    <2>3. worker' \in [Worker -> WorkerState] /\ BusyHasTask'
      BY <1>2, <2>1, GoToType DEF HandlerThrows, PC, Executing
    <2> QED
      BY <1>2, <2>2, <2>3 DEF HandlerThrows, TypeInv, TypeOK, StoreTypeOK
  <1> QED
    BY <1>1, <1>2 DEF Fault

LEMMA ProcessType ==
  ASSUME TypeInv, Process
  PROVE  TypeInv'
  <1> USE DEF clientVars, budgetVars, historyVars, storeVars
  <1>1. ASSUME NEW p \in Proc, ProcStart(p) PROVE TypeInv'
    <2>1. StoreTypeOK'
      BY <1>1, SweepType, EngineAssumption DEF ProcStart
    <2> QED
      BY <1>1, <2>1 DEF ProcStart, TypeInv, TypeOK, BusyHasTask
  <1>2. ASSUME NEW p \in Proc, ProcStop(p) PROVE TypeInv'
    BY <1>2 DEF ProcStop, TypeInv, TypeOK, StoreTypeOK, BusyHasTask
  <1>3. ASSUME NEW p \in Proc, ProcCrash(p) PROVE TypeInv'
    <2>1. worker' \in [Worker -> WorkerState] /\ BusyHasTask'
      BY <1>3, IdleWorkerType DEF ProcCrash, TypeInv, TypeOK, BusyHasTask, IdleWorker
    <2> QED
      BY <1>3, <2>1 DEF ProcCrash, TypeInv, TypeOK, StoreTypeOK
  <1> QED
    BY <1>1, <1>2, <1>3 DEF Process

LEMMA ClockType ==
  ASSUME TypeInv, Clock
  PROVE  TypeInv'
  <1> USE DEF engineVars, clientVars, budgetVars, historyVars
  <1>1. ASSUME NEW t \in Task, HeartbeatLapse(t) PROVE TypeInv'
    <2>1. row' = [row EXCEPT ![t] = [row[t] EXCEPT !.stale = TRUE]]
      BY <1>1 DEF HeartbeatLapse
    <2>2. [row[t] EXCEPT !.stale = TRUE] \in Row
      BY TypedRow, WrittenRows
    <2>3. row' \in [Task -> Row]
      BY <2>1, <2>2, RowWrite
    <2> QED
      BY <1>1, <2>3 DEF HeartbeatLapse, TypeInv, TypeOK, StoreTypeOK, BusyHasTask
  <1>2. ASSUME NEW w \in Worker, Heartbeat(w) PROVE TypeInv'
    <2>1. row' \in [Task -> Row]
      BY <1>2, HeartbeatType, WorkerTypes DEF Heartbeat, At
    <2> QED
      BY <1>2, <2>1 DEF Heartbeat, TypeInv, TypeOK, StoreTypeOK, BusyHasTask
  <1> QED
    BY <1>1, <1>2 DEF Clock

LEMMA TypeStep == TypeInv /\ [Next]_vars => TypeInv'
  <1>1. CASE UNCHANGED vars
    BY <1>1 DEF vars, storeVars, engineVars, clientVars, budgetVars, historyVars,
       TypeInv, TypeOK, StoreTypeOK, BusyHasTask
  <1> QED
    BY <1>1, ClientType, HandlerType, FaultType, ProcessType, ClockType DEF Next

LEMMA TypeInvariant == Spec => []TypeInv
  BY TypeInit, TypeStep, PTL DEF Spec

\* The variables of the engine keep their types.
THEOREM TypeCorrect == Spec => []TypeOK
  <1>1. TypeInv => TypeOK
    BY DEF TypeInv
  <1> QED
    BY <1>1, TypeInvariant, PTL

-----------------------------------------------------------------------------
(* One driver per row.  SoleRunner is not inductive: a second claim is       *)
(* refused by the status of the row, and the status is given back by the     *)
(* sweep, so the invariant says of a driven row that it cannot be claimed    *)
(* and that the sweep passes over it.                                        *)

Leased(t) == /\ row[t].status \in {"running"} \cup Terminal
             /\ row[t].status = "running" => ~ row[t].stale

DrivenIsLeased == \A w \in Worker, t \in Task : Drives(w, t) => Leased(t)

LeaseInv == TypeInv /\ SoleRunner /\ DrivenIsLeased

LEMMA LeaseInit == Init => LeaseInv
  <1> SUFFICES ASSUME Init PROVE LeaseInv
    OBVIOUS
  <1>1. ASSUME NEW w \in Worker, NEW t \in Task PROVE ~ Drives(w, t)
    BY DEF Init, IdleWorker, Drives, Executes, Executing
  <1> QED
    BY <1>1, TypeInit DEF LeaseInv, SoleRunner, DrivenIsLeased

\* A step that hands out no row and leaves the rows still driven leased.
LEMMA NoNewDriver ==
  ASSUME LeaseInv, TypeInv',
         \A w \in Worker, t \in Task : Drives(w, t)' => Drives(w, t) /\ Leased(t)'
  PROVE  LeaseInv'
  BY DEF LeaseInv, SoleRunner, DrivenIsLeased

\* What a worker action does to the drivers: going on, the worker drives its
\* row at most as it did; returning, it drives none.
LEMMA GoToDrivers ==
  ASSUME TypeInv, NEW w \in Worker, NEW r,
         r.task = worker[w].task,
         worker[w].pc \in Executing \ {"fail"},
         worker' = [worker EXCEPT ![w] = r],
         NEW v \in Worker, NEW t \in Task, Drives(v, t)'
  PROVE  Drives(v, t)
  BY DEF TypeInv, TypeOK, Drives, Executes

LEMMA ReturnDrivers ==
  ASSUME TypeInv, NEW w \in Worker, Return(w),
         NEW v \in Worker, NEW t \in Task, Drives(v, t)'
  PROVE  Drives(v, t) /\ v # w
  BY DEF TypeInv, TypeOK, Drives, Executes, Return, IdleWorker, Executing

LEMMA FailDrivers ==
  ASSUME TypeInv, NEW w \in Worker, GoTo(w, "fail"),
         NEW v \in Worker, NEW t \in Task, Drives(v, t)'
  PROVE  Drives(v, t) /\ v # w
  BY DEF TypeInv, TypeOK, Drives, Executes, GoTo

\* What each statement does to a leased row.
LEMMA FinishLeased ==
  ASSUME TypeInv, NEW u \in Task, NEW s \in Terminal, finish(u, s),
         NEW t \in Task, Leased(t)
  PROVE  Leased(t)'
  BY DEF TypeInv, TypeOK, StoreTypeOK, finish, Leased, Row, Terminal

LEMMA ClaimLeased ==
  ASSUME TypeInv, NEW u \in Task, NEW n \in Node, claim(u, n),
         NEW t \in Task, t = u \/ Leased(t)
  PROVE  Leased(t)'
  <1>1. row[t] \in Row /\ row[u] \in Row
    BY DEF TypeInv, TypeOK, StoreTypeOK
  <1>2. CASE t = u
    <2>1. row'[t].status = "running" /\ row'[t].stale = FALSE
      BY <1>1, <1>2 DEF TypeInv, TypeOK, StoreTypeOK, claim, Row
    <2> QED
      BY <2>1 DEF Leased
  <1>3. CASE t # u
    <2>1. row'[t] = row[t]
      BY <1>3 DEF TypeInv, TypeOK, StoreTypeOK, claim
    <2> QED
      BY <1>3, <2>1 DEF Leased
  <1> QED
    BY <1>2, <1>3

LEMMA TakeLeased ==
  ASSUME TypeInv, NEW u \in Task, takePendingMessage(u), NEW t \in Task, Leased(t)
  PROVE  Leased(t)'
  BY DEF TypeInv, TypeOK, StoreTypeOK, takePendingMessage, Leased, Row

LEMMA HeartbeatLeased ==
  ASSUME TypeInv, NEW u \in Task, heartbeat(u), NEW t \in Task, Leased(t)
  PROVE  Leased(t)'
  BY DEF TypeInv, TypeOK, StoreTypeOK, heartbeat, Leased, Row

LEMMA RecordEvalLeased ==
  ASSUME TypeInv, NEW u \in Task, NEW mark, NEW k, recordEval(u, mark, k),
         NEW t \in Task, Leased(t)
  PROVE  Leased(t)'
  BY DEF TypeInv, TypeOK, StoreTypeOK, recordEval, Leased, Row

LEMMA StashLeased ==
  ASSUME TypeInv, NEW u \in Task, NEW k, stashEvalRetry(u, k),
         NEW t \in Task, Leased(t)
  PROVE  Leased(t)'
  BY DEF TypeInv, TypeOK, StoreTypeOK, stashEvalRetry, Leased, Row

LEMMA ParkLeased ==
  ASSUME TypeInv, NEW u \in Task, markAwaitingInput(u),
         NEW t \in Task, t # u, Leased(t)
  PROVE  Leased(t)'
  BY DEF TypeInv, TypeOK, StoreTypeOK, markAwaitingInput, Leased, Row

\* The sweep passes over leased rows: they are not stale.
LEMMA SweepLeased ==
  ASSUME TypeInv, NEW n \in Node, sweep(n), NEW t \in Task, Leased(t)
  PROVE  Leased(t)'
  <1>1. sweptStatus(t, n) = row[t].status
    BY DEF Leased, sweptStatus, sweepRequeues, sweepFails, sweepExpires, Terminal
  <1>2. row[t] \in Row
    BY DEF TypeInv, TypeOK, StoreTypeOK
  <1>3. row'[t] = [row[t] EXCEPT !.status = row[t].status]
    BY <1>1 DEF sweep
  <1> QED
    BY <1>2, <1>3 DEF Leased, Row

LEMMA ClientLeases ==
  ASSUME LeaseInv, TypeInv', Client
  PROVE  LeaseInv'
  <1> USE DEF TypeInv, TypeOK, StoreTypeOK, engineVars
  <1>1. worker' = worker
    BY DEF Client, Create, CreateByOldNode, Kill, SteerCheck, SteerSend
  <1> SUFFICES ASSUME NEW t \in Task, Leased(t) PROVE Leased(t)'
    BY <1>1, NoNewDriver DEF Drives, Executes, LeaseInv, DrivenIsLeased
  <1>2. ASSUME NEW u \in Task, Create(u) \/ CreateByOldNode(u) PROVE Leased(t)'
    <2>1. u # t
      BY <1>2 DEF Create, CreateByOldNode, create, createByOldNode, Leased, Terminal
    <2> QED
      BY <1>2, <2>1 DEF Create, CreateByOldNode, create, createByOldNode, Leased, LeaseInv
  <1>3. ASSUME NEW u \in Task, Kill(u) PROVE Leased(t)'
    BY <1>3 DEF Kill, requestKill, Leased, LeaseInv, Terminal, Row
  <1>4. ASSUME NEW m \in Message, SteerSend(m) PROVE Leased(t)'
    BY <1>4 DEF SteerSend, send, Leased, LeaseInv, Row
  <1>5. ASSUME NEW u \in Task, NEW m \in Message, SteerCheck(u, m) PROVE Leased(t)'
    BY <1>5 DEF SteerCheck, storeVars, Leased
  <1> QED
    BY <1>2, <1>3, <1>4, <1>5 DEF Client

LEMMA HandlerLeases ==
  ASSUME LeaseInv, TypeInv', NEW w \in Worker, Handler(w)
  PROVE  LeaseInv'
  <1> USE DEF storeVars
  <1>0. TypeInv
    BY DEF LeaseInv
  <1>t. worker[w].pc # "idle" => worker[w].task \in Task
    BY <1>0, WorkerTypes
  \* Steps of a worker that does not drive a row, or goes on driving it.
  <1> DEFINE Kept == \A v \in Worker, t \in Task :
                       Drives(v, t)' => Drives(v, t) /\ Leased(t)'
  <1>k. ASSUME Kept PROVE LeaseInv'
    BY <1>k, NoNewDriver
  <1>l. ASSUME NEW v \in Worker, NEW t \in Task, Drives(v, t) PROVE Leased(t)
    BY <1>l DEF LeaseInv, DrivenIsLeased
  <1>1. ASSUME NEW u \in Task, Dequeue(w, u) PROVE Kept
    <2>1. row' = row
      BY <1>1 DEF Dequeue
    <2>2. worker'[w].pc = "claim"
      BY <1>0, <1>1 DEF Dequeue, TypeInv, TypeOK, WorkerState
    <2>3. ASSUME NEW v \in Worker, NEW t \in Task, Drives(v, t)' PROVE Drives(v, t)
      <3>1. v # w
        BY <2>2, <2>3 DEF Drives, Executes, Executing
      <3>2. worker'[v] = worker[v]
        BY <1>0, <1>1, <3>1 DEF Dequeue, TypeInv, TypeOK
      <3> QED
        BY <2>3, <3>2 DEF Drives, Executes
    <2> QED
      BY <1>l, <2>1, <2>3 DEF Leased
  <1>2. CASE Claim(w)
    <2> DEFINE u == worker[w].task
    <2>1. /\ u \in Task /\ NodeOf(w) \in Node
          /\ ~ Leased(u) /\ claim(u, NodeOf(w))
      BY <1>2, <1>t, EngineAssumption DEF Claim, At, claimAllowed, Leased, Terminal, NodeOf
    <2>2. \A v \in Worker : ~ Drives(v, u)
      BY <2>1, <1>l
    <2>3. ASSUME NEW v \in Worker, NEW t \in Task, Drives(v, t)'
          PROVE  (v = w /\ t = u) \/ (v # w /\ t # u /\ Drives(v, t))
      <3>1. CASE v = w
        <4>1. worker'[w].task = u
          BY <1>0, <1>2 DEF Claim, TypeInv, TypeOK, WorkerState
        <4> QED
          BY <3>1, <2>3, <4>1 DEF Drives, Executes
      <3>2. CASE v # w
        <4>1. worker'[v] = worker[v]
          BY <1>0, <1>2, <3>2 DEF Claim, TypeInv, TypeOK
        <4> QED
          BY <2>2, <2>3, <3>2, <4>1 DEF Drives, Executes
      <3> QED
        BY <3>1, <3>2
    <2>4. SoleRunner'
      BY <2>3 DEF SoleRunner, LeaseInv
    <2>5. DrivenIsLeased'
      BY <2>1, <2>3, <1>l, <1>0, ClaimLeased DEF DrivenIsLeased
    <2> QED
      BY <2>4, <2>5 DEF LeaseInv
  <1>3. CASE ClaimRefused(w) \/ Recheck(w) \/ Reenqueue(w) \/ ReenqueueJob(w)
    <2>1. row' = row
      BY <1>3 DEF ClaimRefused, Recheck, Reenqueue, ReenqueueJob
    <2>2. ASSUME NEW v \in Worker, NEW t \in Task, Drives(v, t)' PROVE Drives(v, t)
      <3>1. CASE Return(w)
        BY <1>0, <2>2, <3>1, ReturnDrivers
      <3>2. CASE GoTo(w, "recheck") \/ GoTo(w, "reenqueue") \/ GoTo(w, "add job")
        <4>0. worker'[w].pc \in {"recheck", "reenqueue", "add job"}
          <5>1. worker \in [Worker -> WorkerState]
            BY <1>0 DEF TypeInv, TypeOK
          <5>2. PICK pc \in {"recheck", "reenqueue", "add job"} : GoTo(w, pc)
            BY <3>2
          <5>3. worker'[w] = [worker[w] EXCEPT !.pc = pc]
            BY <5>1, <5>2 DEF GoTo
          <5>4. worker[w] \in WorkerState
            BY <5>1
          <5>5. worker'[w].pc = pc
            BY <5>3, <5>4 DEF WorkerState
          <5> QED
            BY <5>5
        <4>1. worker'[w].pc \notin Executing
          BY <4>0 DEF Executing
        <4>2. v # w
          BY <2>2, <4>1 DEF Drives, Executes
        <4>3. worker'[v] = worker[v]
          BY <1>0, <3>2, <4>2 DEF GoTo, TypeInv, TypeOK
        <4> QED
          BY <2>2, <4>3 DEF Drives, Executes
      <3> QED
        BY <1>3, <3>1, <3>2 DEF ClaimRefused, Recheck, Reenqueue, ReenqueueJob
    <2> QED
      BY <1>k, <1>l, <2>1, <2>2 DEF Leased
  <1>4. CASE NoExecutor(w) \/ Overrun(w) \/ Discard(w) \/ Finish(w)
    <2>1. worker[w].verdict \in Terminal /\ "failed" \in Terminal /\ "killed" \in Terminal
      BY <1>0, WorkerTypes DEF Verdict, Terminal
    <2>2. PICK s \in Terminal : finish(worker[w].task, s)
      BY <1>4, <2>1 DEF NoExecutor, Overrun, Discard, Finish
    <2>3. Return(w) /\ worker[w].task \in Task
      BY <1>4, <1>t DEF NoExecutor, Overrun, Discard, Finish, At
    <2> QED
      BY <1>0, <1>k, <1>l, <2>2, <2>3, FinishLeased, ReturnDrivers
  <1>5. CASE TakeResume(w) \/ Reclaim(w)
    <2>1. PICK r : worker' = [worker EXCEPT ![w] = r] /\ r.task = worker[w].task
      BY <1>0, <1>5, WorkerTypes DEF TakeResume, Reclaim, WorkerState
    <2>2. takePendingMessage(worker[w].task) /\ worker[w].task \in Task
      BY <1>5, <1>t DEF TakeResume, Reclaim, At
    <2>3. worker[w].pc \in Executing \ {"fail"}
      BY <1>5 DEF TakeResume, Reclaim, At, Executing
    <2> QED
      BY <1>0, <1>k, <1>l, <2>1, <2>2, <2>3, TakeLeased, GoToDrivers
  <1>6. CASE Start(w) \/ Reread(w) \/ ParkRefused(w)
    <2>1. PICK pc : GoTo(w, pc)
      BY <1>6 DEF Start, Reread, ParkRefused
    <2>2. worker[w].pc \in Executing \ {"fail"} /\ row' = row
      BY <1>6 DEF Start, Reread, ParkRefused, At, Executing
    <2>3. worker' = [worker EXCEPT ![w] = [worker[w] EXCEPT !.pc = pc]]
      BY <2>1 DEF GoTo
    <2>4. [worker[w] EXCEPT !.pc = pc].task = worker[w].task
      BY <1>0, WorkerTypes DEF WorkerState
    <2> QED
      BY <1>0, <1>k, <1>l, <2>2, <2>3, <2>4, GoToDrivers DEF Leased
  <1>7. CASE TurnEnd(w)
    <2>1. PICK r : worker' = [worker EXCEPT ![w] = r] /\ r.task = worker[w].task
      <3>1. CASE GoTo(w, "overrun")
        <4>1. worker' = [worker EXCEPT ![w] = [worker[w] EXCEPT !.pc = "overrun"]]
          BY <3>1 DEF GoTo
        <4>2. [worker[w] EXCEPT !.pc = "overrun"].task = worker[w].task
          BY <1>0, WorkerTypes DEF WorkerState
        <4> QED
          BY <4>1, <4>2
      <3>2. ASSUME NEW v \in Verdict,
                   worker' = [worker EXCEPT ![w] =
                     [worker[w] EXCEPT !.pc = "reread", !.verdict = v]]
            PROVE  \E r : worker' = [worker EXCEPT ![w] = r] /\ r.task = worker[w].task
        <4>1. [worker[w] EXCEPT !.pc = "reread", !.verdict = v].task = worker[w].task
          BY <1>0, WorkerTypes DEF WorkerState
        <4> QED
          BY <3>2, <4>1
      <3> QED
        BY <1>7, <3>1, <3>2 DEF TurnEnd
    <2>2. heartbeat(worker[w].task) /\ worker[w].task \in Task
      BY <1>7, <1>t DEF TurnEnd, At
    <2>3. worker[w].pc \in Executing \ {"fail"}
      BY <1>7 DEF TurnEnd, At, Executing
    <2> QED
      BY <1>0, <1>k, <1>l, <2>1, <2>2, <2>3, HeartbeatLeased, GoToDrivers
  <1>8. CASE ParkRow(w)
    <2> DEFINE u == worker[w].task
    <2>1. Return(w) /\ markAwaitingInput(u) /\ Drives(w, u) /\ u \in Task
      BY <1>8, <1>t DEF ParkRow, Drives, Executes, Executing
    <2>2. ASSUME NEW v \in Worker, NEW t \in Task, Drives(v, t)'
          PROVE  Drives(v, t) /\ t # u
      <3>1. Drives(v, t) /\ v # w
        BY <1>0, <2>1, <2>2, ReturnDrivers
      <3> QED
        BY <2>1, <3>1 DEF LeaseInv, SoleRunner
    <2> QED
      BY <1>0, <1>k, <1>l, <2>1, <2>2, ParkLeased
  <1>9. CASE Evaluate(w)
    <2>1. PICK r : worker' = [worker EXCEPT ![w] = r] /\ r.task = worker[w].task
      <3>1. CASE GoTo(w, "finish")
        <4>1. worker' = [worker EXCEPT ![w] = [worker[w] EXCEPT !.pc = "finish"]]
          BY <3>1 DEF GoTo
        <4>2. [worker[w] EXCEPT !.pc = "finish"].task = worker[w].task
          BY <1>0, WorkerTypes DEF WorkerState
        <4> QED
          BY <4>1, <4>2
      <3>2. CASE worker' = [worker EXCEPT ![w] = AfterRefutation(w)]
        <4>1. AfterRefutation(w).task = worker[w].task
          BY <1>0, WorkerTypes DEF AfterRefutation, WorkerState
        <4> QED
          BY <3>2, <4>1
      <3> QED
        BY <1>9, <3>1, <3>2 DEF Evaluate
    <2>2. \/ row' = row
          \/ \E mark, k : recordEval(worker[w].task, mark, k)
      BY <1>9 DEF Evaluate
    <2>3. worker[w].pc \in Executing \ {"fail"} /\ worker[w].task \in Task
      BY <1>9, <1>t DEF Evaluate, At, Executing
    <2>4. ASSUME NEW t \in Task, Leased(t) PROVE Leased(t)'
      BY <1>0, <2>2, <2>3, <2>4, RecordEvalLeased DEF Leased
    <2> QED
      BY <1>0, <1>k, <1>l, <2>1, <2>3, <2>4, GoToDrivers
  <1>10. CASE Escalate(w) \/ Stash(w)
    <2>1. PICK pc : GoTo(w, pc)
      BY <1>10 DEF Escalate, Stash
    <2>2. \/ row' = row
          \/ \E mark, k : recordEval(worker[w].task, mark, k)
          \/ \E k : stashEvalRetry(worker[w].task, k)
      BY <1>10 DEF Escalate, Stash
    <2>3. worker[w].pc \in Executing \ {"fail"} /\ worker[w].task \in Task
      BY <1>10, <1>t DEF Escalate, Stash, At, Executing
    <2>4. ASSUME NEW t \in Task, Leased(t) PROVE Leased(t)'
      BY <1>0, <2>2, <2>3, <2>4, RecordEvalLeased, StashLeased DEF Leased
    <2>5. worker' = [worker EXCEPT ![w] = [worker[w] EXCEPT !.pc = pc]]
      BY <2>1 DEF GoTo
    <2>6. [worker[w] EXCEPT !.pc = pc].task = worker[w].task
      BY <1>0, WorkerTypes DEF WorkerState
    <2> QED
      BY <1>0, <1>k, <1>l, <2>3, <2>4, <2>5, <2>6, GoToDrivers
  <1>11. CASE FailRow(w)
    <2>1. Return(w) /\ worker[w].task \in Task
      BY <1>11, <1>t DEF FailRow, At
    <2>2. ASSUME NEW t \in Task, Leased(t) PROVE Leased(t)'
      BY <1>0, <1>11, <2>1, <2>2, FinishLeased DEF FailRow, Leased, Terminal
    <2> QED
      BY <1>0, <1>k, <1>l, <2>1, <2>2, ReturnDrivers
  <1> QED
    BY <1>k, <1>1, <1>2, <1>3, <1>4, <1>5, <1>6, <1>7, <1>8, <1>9, <1>10, <1>11
       DEF Handler

LEMMA FaultLeases ==
  ASSUME LeaseInv, TypeInv', NEW w \in Worker, Fault(w)
  PROVE  LeaseInv'
  <1>0. TypeInv
    BY DEF LeaseInv
  <1>l. ASSUME NEW v \in Worker, NEW t \in Task, Drives(v, t) PROVE Leased(t)
    BY <1>l DEF LeaseInv, DrivenIsLeased
  <1> DEFINE u == worker[w].task
  <1>1. CASE ClaimFails(w)
    <2>1. Return(w) /\ u \in Task /\ NodeOf(w) \in Node
      BY <1>0, <1>1, WorkerTypes, EngineAssumption DEF ClaimFails, Claiming, NodeOf
    <2>2. row' = row \/ claim(u, NodeOf(w))
      BY <1>1 DEF ClaimFails
    <2>3. ASSUME NEW t \in Task, Leased(t) PROVE Leased(t)'
      BY <1>0, <2>1, <2>2, <2>3, ClaimLeased DEF Leased
    <2> QED
      BY <1>0, <1>l, <2>1, <2>3, ReturnDrivers, NoNewDriver
  <1>2. CASE HandlerThrows(w)
    <2>1. /\ GoTo(w, "fail") /\ u \in Task
          /\ worker[w].tries \in Nat /\ worker[w].verdict \in Terminal
          /\ Drives(w, u)
      BY <1>0, <1>2, WorkerTypes DEF HandlerThrows, Executing, Verdict, Terminal,
         Drives, Executes
    <2>2. \/ row' = row
          \/ \E s \in Terminal : finish(u, s)
          \/ takePendingMessage(u)
          \/ heartbeat(u)
          \/ markAwaitingInput(u)
          \/ \E k : stashEvalRetry(u, k)
      BY <1>2, <2>1 DEF HandlerThrows, Statement, Terminal
    <2>3. ASSUME NEW t \in Task, Leased(t), t # u PROVE Leased(t)'
      BY <1>0, <2>1, <2>2, <2>3, FinishLeased, TakeLeased, HeartbeatLeased,
         ParkLeased, StashLeased DEF Leased
    <2>4. ASSUME NEW v \in Worker, NEW t \in Task, Drives(v, t)'
          PROVE  Drives(v, t) /\ t # u
      <3>1. Drives(v, t) /\ v # w
        BY <1>0, <2>1, <2>4, FailDrivers
      <3> QED
        BY <2>1, <3>1 DEF LeaseInv, SoleRunner
    <2> QED
      BY <1>0, <1>l, <2>3, <2>4, NoNewDriver
  <1> QED
    BY <1>1, <1>2 DEF Fault

LEMMA ProcessLeases ==
  ASSUME LeaseInv, TypeInv', Process
  PROVE  LeaseInv'
  <1>0. TypeInv
    BY DEF LeaseInv
  <1>l. ASSUME NEW v \in Worker, NEW t \in Task, Drives(v, t) PROVE Leased(t)
    BY <1>l DEF LeaseInv, DrivenIsLeased
  <1>1. ASSUME NEW p \in Proc, ProcStart(p) PROVE LeaseInv'
    <2>1. sweep(ProcNode[p]) /\ ProcNode[p] \in Node /\ worker' = worker
      BY <1>1, EngineAssumption DEF ProcStart
    <2>2. ASSUME NEW v \in Worker, NEW t \in Task, Drives(v, t)'
          PROVE  Drives(v, t) /\ Leased(t)'
      BY <1>0, <1>l, <2>1, <2>2, SweepLeased DEF Drives, Executes
    <2> QED
      BY <2>2, NoNewDriver
  <1>2. ASSUME NEW p \in Proc, ProcStop(p) \/ ProcCrash(p) PROVE LeaseInv'
    <2>1. row' = row
      BY <1>2 DEF ProcStop, ProcCrash, storeVars
    <2>2. ASSUME NEW v \in Worker, NEW t \in Task, Drives(v, t)'
          PROVE  Drives(v, t)
      <3>1. worker'[v] = worker[v] \/ worker'[v] = IdleWorker
        <4>1. CASE ProcStop(p)
          BY <4>1 DEF ProcStop
        <4>2. CASE ProcCrash(p)
          BY <4>2 DEF ProcCrash
        <4> QED
          BY <1>2, <4>1, <4>2
      <3>2. worker'[v] # IdleWorker
        <4>1. worker'[v].pc \in Executing
          BY <2>2 DEF Drives, Executes
        <4>2. IdleWorker.pc \notin Executing
          BY DEF IdleWorker, Executing
        <4> QED
          BY <4>1, <4>2
      <3> QED
        BY <2>2, <3>1, <3>2 DEF Drives, Executes
    <2> QED
      BY <1>l, <2>1, <2>2, NoNewDriver DEF Leased
  <1> QED
    BY <1>1, <1>2 DEF Process

\* The one step that takes a lease away under a driver, and what excludes it.
LEMMA ClockLeases ==
  ASSUME LeaseInv, TypeInv', Clock, ~ HeartbeatStalls
  PROVE  LeaseInv'
  <1>0. TypeInv /\ worker' = worker
    BY DEF LeaseInv, Clock, HeartbeatLapse, Heartbeat, engineVars
  <1>l. ASSUME NEW v \in Worker, NEW t \in Task, Drives(v, t) PROVE Leased(t)
    BY <1>l DEF LeaseInv, DrivenIsLeased
  <1>1. ASSUME NEW u \in Task, HeartbeatLapse(u) PROVE LeaseInv'
    <2>1. ASSUME NEW v \in Worker, NEW t \in Task, Drives(v, t)
          PROVE  row'[t] = row[t]
      BY <1>0, <1>1, <2>1 DEF HeartbeatLapse, IsExecuted, Drives, TypeInv,
         TypeOK, StoreTypeOK
    <2> QED
      BY <1>0, <1>l, <2>1, NoNewDriver DEF Leased, Drives, Executes
  <1>2. ASSUME NEW w \in Worker, Heartbeat(w) PROVE LeaseInv'
    <2>1. worker[w].task \in Task /\ heartbeat(worker[w].task)
      BY <1>0, <1>2, WorkerTypes DEF Heartbeat, At
    <2> QED
      BY <1>0, <1>l, <2>1, HeartbeatLeased, NoNewDriver DEF Drives, Executes
  <1> QED
    BY <1>1, <1>2 DEF Clock

LEMMA LeaseStep ==
  ASSUME ~ HeartbeatStalls
  PROVE  LeaseInv /\ [Next]_vars => LeaseInv'
  <1> SUFFICES ASSUME LeaseInv, [Next]_vars PROVE LeaseInv'
    OBVIOUS
  <1>1. TypeInv'
    BY TypeStep DEF LeaseInv
  <1>2. CASE UNCHANGED vars
    BY <1>1, <1>2, NoNewDriver DEF vars, storeVars, engineVars, Drives, Executes,
       Leased, LeaseInv, DrivenIsLeased
  <1> QED
    BY <1>1, <1>2, ClientLeases, HandlerLeases, FaultLeases, ProcessLeases,
       ClockLeases DEF Next

\* Where heartbeats arrive within the sweep window, no row is ever driven by two
\* workers, for any number of processes, overlapping or not, and any crashes and
\* failing calls.
THEOREM OneDriver == ~ HeartbeatStalls /\ Spec => []SoleRunner
  <1> SUFFICES ASSUME ~ HeartbeatStalls PROVE Spec => []SoleRunner
    OBVIOUS
  <1>1. LeaseInv => SoleRunner
    BY DEF LeaseInv
  <1> QED
    BY <1>1, LeaseInit, LeaseStep, PTL DEF Spec

-----------------------------------------------------------------------------
\* Node affinity: the claim is the only way to come to execute a row, and its
\* WHERE clause looks at the pin.

LEMMA IdleExecutesNothing == IdleWorker.pc \notin Executing
  BY DEF IdleWorker, Executing

\* A worker that goes on, or returns, executes no row it did not execute.
LEMMA GoOnExecutes ==
  ASSUME TypeInv, NEW w \in Worker, NEW r,
         worker' = [worker EXCEPT ![w] = r],
         \/ r.pc \notin Executing
         \/ r.task = worker[w].task /\ worker[w].pc \in Executing,
         NEW v \in Worker, NEW t \in Task, Executes(v, t)'
  PROVE  Executes(v, t)
  BY DEF TypeInv, TypeOK, Executes

LEMMA NewExecutor ==
  ASSUME TypeInv, NEW w \in Worker, Handler(w) \/ Fault(w),
         NEW v \in Worker, NEW t \in Task, Executes(v, t)'
  PROVE  Executes(v, t) \/ (v = w /\ claimAllowed(t, NodeOf(w)))
  <1>w. worker[w] \in WorkerState
    BY WorkerTypes
  \* The worker's next local state, by the kind of the step.
  <1>1. ASSUME Return(w) PROVE Executes(v, t)
    BY <1>1, IdleExecutesNothing, GoOnExecutes DEF Return
  <1>2. ASSUME NEW pc \in PC, GoTo(w, pc),
               pc \in Executing => worker[w].pc \in Executing
        PROVE  Executes(v, t)
    <2> DEFINE r == [worker[w] EXCEPT !.pc = pc]
    <2>1. worker' = [worker EXCEPT ![w] = r]
      BY <1>2 DEF GoTo, TypeInv, TypeOK
    <2>2. r.pc = pc /\ r.task = worker[w].task
      BY <1>w DEF WorkerState
    <2> HIDE DEF r
    <2> QED
      BY <1>2, <2>1, <2>2, GoOnExecutes
  <1>3. CASE \E u \in Task : Dequeue(w, u)
    <2> PICK u \in Task : Dequeue(w, u)
      BY <1>3
    <2> DEFINE r == [worker[w] EXCEPT !.pc = "claim", !.task = u]
    <2>1. worker' = [worker EXCEPT ![w] = r] /\ r.pc \notin Executing
      BY <1>w DEF Dequeue, WorkerState, Executing
    <2> HIDE DEF r
    <2> QED
      BY <2>1, GoOnExecutes
  <1>4. CASE Claim(w)
    <2>1. CASE v = w
      <3>1. worker'[w].task = worker[w].task
        BY <1>w, <1>4 DEF Claim, WorkerState, TypeInv, TypeOK
      <3>2. t = worker[w].task
        BY <2>1, <3>1 DEF Executes
      <3> QED
        BY <1>4, <2>1, <3>2 DEF Claim
    <2>2. CASE v # w
      <3>1. worker'[v] = worker[v]
        BY <1>4, <2>2 DEF Claim, TypeInv, TypeOK
      <3> QED
        BY <3>1 DEF Executes
    <2> QED
      BY <2>1, <2>2
  <1>5. CASE ClaimRefused(w) \/ Recheck(w) \/ Reenqueue(w) \/ ReenqueueJob(w)
    BY <1>5, <1>1, <1>2 DEF ClaimRefused, Recheck, Reenqueue, ReenqueueJob, PC,
       Claiming, Executing
  <1>6. CASE \/ NoExecutor(w) \/ Overrun(w) \/ Discard(w) \/ ParkRow(w)
             \/ Finish(w) \/ FailRow(w) \/ ClaimFails(w)
    BY <1>6, <1>1 DEF NoExecutor, Overrun, Discard, ParkRow, Finish, FailRow,
       ClaimFails
  <1>7. CASE Start(w) \/ ParkRefused(w) \/ Escalate(w) \/ Stash(w)
    BY <1>7, <1>2 DEF Start, ParkRefused, Escalate, Stash, At, PC, Executing
  <1>8. CASE HandlerThrows(w)
    BY <1>8, <1>2 DEF HandlerThrows, PC, Executing
  <1>9. CASE Reread(w)
    <2>1. worker[w].pc \in Executing
      BY <1>9 DEF Reread, At, Executing
    <2> DEFINE pc == IF RowOf(w).status = "killed" THEN "discard"
                     ELSE AfterRun(worker[w].task, worker[w].verdict)
    <2>2. pc \in PC /\ GoTo(w, pc)
      BY <1>9 DEF Reread, AfterRun, PC, Executing
    <2> HIDE DEF pc
    <2> QED
      BY <1>2, <2>1, <2>2
  <1>10. ASSUME worker[w].pc \in Executing,
                NEW r, r.task = worker[w].task, worker' = [worker EXCEPT ![w] = r]
         PROVE  Executes(v, t)
    BY <1>10, GoOnExecutes
  <1>11. CASE TakeResume(w) \/ Reclaim(w) \/ TurnEnd(w)
    <2>1. worker[w].pc \in Executing
      BY <1>11 DEF TakeResume, Reclaim, TurnEnd, At, Executing
    <2>2. \E r : r.task = worker[w].task /\ worker' = [worker EXCEPT ![w] = r]
      BY <1>11, <1>w DEF TakeResume, Reclaim, TurnEnd, GoTo, WorkerState, TypeInv, TypeOK
    <2> QED
      BY <1>10, <2>1, <2>2
  <1>12. CASE Evaluate(w)
    <2>1. worker[w].pc \in Executing
      BY <1>12 DEF Evaluate, At, Executing
    <2>2. AfterRefutation(w).task = worker[w].task
      BY <1>w DEF AfterRefutation, WorkerState
    <2>3. worker' = [worker EXCEPT ![w] = AfterRefutation(w)] \/ GoTo(w, "finish")
      BY <1>12 DEF Evaluate
    <2>4. "finish" \in PC
      BY DEF PC, Executing
    <2> QED
      BY <1>2, <1>10, <2>1, <2>2, <2>3, <2>4
  <1> QED
    BY <1>3, <1>4, <1>5, <1>6, <1>7, <1>8, <1>9, <1>11, <1>12 DEF Handler, Fault

PinInv == TypeInv /\ RunsWherePinned

LEMMA PinInit == Init => PinInv
  <1> SUFFICES ASSUME Init PROVE PinInv
    OBVIOUS
  <1>1. ASSUME NEW w \in Worker, NEW t \in Task PROVE ~ Executes(w, t)
    BY IdleExecutesNothing DEF Init, Executes
  <1> QED
    BY <1>1, TypeInit DEF PinInv, RunsWherePinned

LEMMA PinStep == PinInv /\ [Next]_vars => PinInv'
  <1> SUFFICES ASSUME PinInv, [Next]_vars, NEW v \in Worker, NEW t \in Task,
                      Executes(v, t)'
               PROVE  Affinity[t] \in {AnyNode, NodeOf(v)}
    BY TypeStep DEF PinInv, RunsWherePinned, NodeOf
  <1>t. TypeInv /\ (Executes(v, t) => Affinity[t] \in {AnyNode, NodeOf(v)})
    BY DEF PinInv, RunsWherePinned
  <1>1. CASE \E w \in Worker : Handler(w) \/ Fault(w)
    BY <1>1, <1>t, NewExecutor DEF claimAllowed
  <1>2. CASE worker' = worker
    BY <1>2, <1>t DEF Executes
  <1>3. CASE \E p \in Proc : ProcCrash(p)
    <2>1. worker'[v] = worker[v] \/ worker'[v] = IdleWorker
      BY <1>3 DEF ProcCrash
    <2> QED
      BY <2>1, <1>t, IdleExecutesNothing DEF Executes
  <1>4. CASE UNCHANGED vars \/ Client \/ Clock
    BY <1>4, <1>2 DEF vars, engineVars, Client, Create, CreateByOldNode, Kill,
       SteerCheck, SteerSend, Clock, HeartbeatLapse, Heartbeat
  <1>5. CASE Process
    BY <1>5, <1>2, <1>3 DEF Process, ProcStart, ProcStop
  <1> QED
    BY <1>1, <1>4, <1>5 DEF Next

\* A pinned row is only executed on its node, whatever jobs carry its id: those
\* of nodes that know no per-node names and those added again included.
THEOREM PinKept == Spec => []RunsWherePinned
  <1>1. PinInv => RunsWherePinned
    BY DEF PinInv
  <1> QED
    BY <1>1, PinInit, PinStep, PTL DEF Spec

=============================================================================
