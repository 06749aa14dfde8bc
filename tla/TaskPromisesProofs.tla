-------------------------- MODULE TaskPromisesProofs --------------------------
(***************************************************************************)
(* Theorems about what TaskEngine promises its clients, on top of the type *)
(* and the lease of TaskEngineProofs:                                      *)
(*   - budgets and verdicts: attempts, retries and judgements are read by  *)
(*     a worker in one step and used in later ones, which is sound because *)
(*     no other worker drives the row in between;                          *)
(*   - where no process dies and no call fails, a row that waits has a     *)
(*     worker coming and an accepted message is not dropped;               *)
(*   - every step is a step of the abstract lifecycle of TaskLifecycle.    *)
(***************************************************************************)
EXTENDS TaskEngineProofs

-----------------------------------------------------------------------------
\* Budgets and verdicts: where a driving worker is.
Driving == Executing \ {"fail"}

\* The row and the history of a task agree with its budgets.
RowInBudget(t) ==
  /\ row[t].evalAttempt <= MaxRetries
  /\ row[t].eval = "escalated" => row[t].evalAttempt = MaxRetries
  /\ row[t].status = "absent" => goalRuns[t] = 0 /\ row[t].evalAttempt = 0
  /\ t \in Evaluable /\ row[t].status = "completed" => judged[t]
  /\ t \notin Interactive =>
       /\ row[t].status # "awaiting-input"
       /\ row[t].status = "queued" => row[t].attempt < MaxAttempts[t]
       /\ row[t].attempt <= MaxAttempts[t]
       /\ goalRuns[t] <= row[t].attempt

\* What a worker that drives task t in local state s has established.
InOrder(s, t) ==
  /\ row[t].evalAttempt <= s.tries /\ s.tries <= MaxRetries
  /\ s.pc = "stash" => s.resume = RetrySteer
  /\ s.pc = "escalate" => judged[t] /\ s.tries = MaxRetries
  /\ s.pc = "finish" /\ s.verdict = "completed" /\ t \in Evaluable => judged[t]
  /\ s.pc \in {"park", "reclaim", "park again"} => t \in Interactive
  /\ t \in Evaluable => row[t].status # "completed"
  /\ s.pc = "take" \/ (s.pc = "start" /\ s.resume = NoMessage)
       => t \in Interactive \/ goalRuns[t] < row[t].attempt

RunsInOrder == \A w \in Worker, t \in Task : Drives(w, t) => InOrder(worker[w], t)

BudgetInv == /\ LeaseInv
             /\ \A t \in Task : RowInBudget(t)
             /\ RunsInOrder

\* The action property that goes with it.
NoRetryBack == \A t \in Task : row[t].evalAttempt <= row'[t].evalAttempt

LEMMA BudgetInit == Init => BudgetInv
  <1> SUFFICES ASSUME Init PROVE BudgetInv
    OBVIOUS
  <1>1. ASSUME NEW t \in Task PROVE RowInBudget(t)
    <2>1. row[t] = NoRow /\ goalRuns[t] = 0
      BY DEF Init, StoreInit
    <2>2. MaxAttempts[t] \in Nat \ {0} /\ MaxRetries \in Nat
      BY StoreAssumption, EngineAssumption
    <2> QED
      BY <2>1, <2>2 DEF NoRow, RowInBudget
  <1>2. ASSUME NEW w \in Worker, NEW t \in Task PROVE ~ Drives(w, t)
    BY IdleExecutesNothing DEF Init, Drives, Executes
  <1> QED
    BY <1>1, <1>2, LeaseInit DEF BudgetInv, RunsInOrder

LEMMA BudgetTypes ==
  ASSUME TypeInv, NEW t \in Task
  PROVE  /\ row[t].attempt \in Nat /\ row[t].evalAttempt \in Nat
         /\ goalRuns[t] \in Nat /\ MaxRetries \in Nat /\ MaxAttempts[t] \in Nat
         /\ MaxAttempts[t] # 0 /\ row[t].status \in Status
  BY StoreAssumption, EngineAssumption DEF TypeInv, TypeOK, StoreTypeOK, Row

LEMMA EvaluableNotInteractive ==
  \A t \in Evaluable : t \in Task /\ t \notin Interactive
  BY StoreAssumption

-----------------------------------------------------------------------------
(* The two kinds of steps: one that changes statuses from outside and makes  *)
(* nobody a driver, and one of the only worker that drives a row.            *)

\* What a step from outside may do to the row of t.
Outside(t) ==
  /\ row'[t].attempt = row[t].attempt
  /\ row'[t].evalAttempt = row[t].evalAttempt
  /\ row'[t].eval = row[t].eval
  /\ \/ row'[t].status = row[t].status
     \/ row'[t].status \in {"killed", "failed", "timeout"}
     \/ row'[t].status = "queued" /\ row[t].attempt < MaxAttempts[t]

LEMMA OutsideStep ==
  ASSUME BudgetInv, LeaseInv',
         \A t \in Task : Outside(t),
         goalRuns' = goalRuns, judged' = judged,
         \A v \in Worker, t \in Task :
           Drives(v, t)' => Drives(v, t) /\ worker'[v] = worker[v]
  PROVE  BudgetInv' /\ NoRetryBack
  <1>t. TypeInv
    BY DEF BudgetInv, LeaseInv
  <1>1. ASSUME NEW t \in Task PROVE RowInBudget(t)'
    BY <1>t, BudgetTypes DEF BudgetInv, RowInBudget, Outside
  <1>2. ASSUME NEW v \in Worker, NEW t \in Task, Drives(v, t)'
        PROVE  InOrder(worker[v], t)'
    <2>1. InOrder(worker[v], t) /\ worker'[v] = worker[v]
      BY <1>2 DEF BudgetInv, RunsInOrder
    <2> QED
      BY <2>1 DEF InOrder, Outside
  <1>3. NoRetryBack
    BY <1>t, BudgetTypes DEF NoRetryBack, Outside
  <1> QED
    BY <1>1, <1>2, <1>3 DEF BudgetInv, RunsInOrder

\* A step of w on the row of u, that no other worker drives.
LEMMA DriverStep ==
  ASSUME BudgetInv, LeaseInv', NEW w \in Worker, NEW u \in Task,
         \A v \in Worker : v # w => ~ Drives(v, u) /\ worker'[v] = worker[v],
         \A t \in Task : t # u => /\ row'[t] = row[t]
                                  /\ goalRuns'[t] = goalRuns[t]
                                  /\ judged'[t] = judged[t],
         RowInBudget(u)',
         row[u].evalAttempt <= row'[u].evalAttempt,
         Drives(w, u)' => InOrder(worker[w], u)',
         \A t \in Task : t # u => ~ Drives(w, t)'
  PROVE  BudgetInv' /\ NoRetryBack
  <1>t. TypeInv
    BY DEF BudgetInv, LeaseInv
  <1>1. ASSUME NEW t \in Task PROVE RowInBudget(t)'
    BY DEF BudgetInv, RowInBudget
  <1>2. ASSUME NEW v \in Worker, NEW t \in Task, Drives(v, t)'
        PROVE  InOrder(worker[v], t)'
    <2>1. CASE v = w
      BY <1>2, <2>1
    <2>2. CASE v # w
      <3>1. Drives(v, t) /\ worker'[v] = worker[v] /\ t # u
        BY <1>2, <2>2 DEF Drives, Executes
      <3>2. InOrder(worker[v], t)
        BY <3>1 DEF BudgetInv, RunsInOrder
      <3> QED
        BY <3>1, <3>2 DEF InOrder
    <2> QED
      BY <2>1, <2>2
  <1>3. NoRetryBack
    BY <1>t, BudgetTypes DEF NoRetryBack
  <1> QED
    BY <1>1, <1>2, <1>3 DEF BudgetInv, RunsInOrder
-----------------------------------------------------------------------------
\* Steps from outside: clients but for the creation, processes, clocks, and the
\* handlers that have not claimed or whose error left runClaimedTask.

LEMMA FrameStep ==
  ASSUME BudgetInv, LeaseInv', row' = row, goalRuns' = goalRuns, judged' = judged,
         \A v \in Worker : worker'[v] = worker[v] \/ worker'[v].pc \notin Driving
  PROVE  BudgetInv' /\ NoRetryBack
  <1>1. \A t \in Task : Outside(t)
    BY DEF Outside
  <1>2. ASSUME NEW v \in Worker, NEW t \in Task, Drives(v, t)'
        PROVE  Drives(v, t) /\ worker'[v] = worker[v]
    BY <1>2 DEF Drives, Executes, Driving
  <1> QED
    BY <1>1, <1>2, OutsideStep

LEMMA SweepOutside ==
  ASSUME TypeInv, NEW n \in Node, sweep(n), NEW t \in Task
  PROVE  Outside(t)
  <1> DEFINE s == sweptStatus(t, n)
  <1>1. row[t] \in Row
    BY DEF TypeInv, TypeOK, StoreTypeOK
  <1>2. \/ s = row[t].status \/ s \in {"failed", "timeout"}
        \/ s = "queued" /\ row[t].attempt < MaxAttempts[t]
    BY DEF sweptStatus, sweepRequeues
  <1>3. row'[t] = [row[t] EXCEPT !.status = s]
    BY DEF sweep
  <1> HIDE DEF s
  <1> QED
    BY <1>1, <1>2, <1>3 DEF Outside, Row

\* A step that writes one row and leaves workers and history alone.
LEMMA WriteStep ==
  ASSUME BudgetInv, LeaseInv', NEW u \in Task, NEW r,
         row' = [row EXCEPT ![u] = r],
         r.attempt = row[u].attempt, r.evalAttempt = row[u].evalAttempt,
         r.eval = row[u].eval,
         r.status = row[u].status \/ r.status \in {"killed", "failed", "timeout"},
         goalRuns' = goalRuns, judged' = judged,
         \A v \in Worker : worker'[v] = worker[v] \/ worker'[v].pc \notin Driving
  PROVE  BudgetInv' /\ NoRetryBack
  <1>1. ASSUME NEW t \in Task PROVE Outside(t)
    BY DEF Outside, BudgetInv, LeaseInv, TypeInv, TypeOK, StoreTypeOK
  <1>2. ASSUME NEW v \in Worker, NEW t \in Task, Drives(v, t)'
        PROVE  Drives(v, t) /\ worker'[v] = worker[v]
    BY <1>2 DEF Drives, Executes, Driving
  <1> QED
    BY <1>1, <1>2, OutsideStep

LEMMA NotDrivenNow ==
  ASSUME BudgetInv, NEW t \in Task, row[t].status \notin {"running"} \cup Terminal,
         NEW v \in Worker
  PROVE  ~ Drives(v, t)
  BY DEF BudgetInv, LeaseInv, DrivenIsLeased, Leased

LEMMA CreateStep ==
  ASSUME BudgetInv, LeaseInv', NEW u \in Task,
         row[u].status = "absent",
         row' = [row EXCEPT ![u] = [NoRow EXCEPT !.status = "queued"]],
         worker' = worker, goalRuns' = goalRuns, judged' = judged
  PROVE  BudgetInv' /\ NoRetryBack
  <1>t. TypeInv /\ RowInBudget(u)
    BY DEF BudgetInv, LeaseInv
  <1>1. ASSUME NEW v \in Worker PROVE ~ Drives(v, u)
    BY NotDrivenNow DEF Terminal
  <1>2. row'[u] = [NoRow EXCEPT !.status = "queued"]
    BY <1>t DEF TypeInv, TypeOK, StoreTypeOK
  <1>3. /\ row'[u].status = "queued" /\ row'[u].attempt = 0
        /\ row'[u].evalAttempt = 0 /\ row'[u].eval = "none"
    BY <1>2 DEF NoRow
  <1>4. goalRuns[u] = 0 /\ row[u].evalAttempt = 0
    BY <1>t DEF RowInBudget
  <1>5. RowInBudget(u)'
    BY <1>t, <1>3, <1>4, BudgetTypes DEF RowInBudget
  <1>6. ASSUME NEW t \in Task, t # u PROVE row'[t] = row[t]
    BY <1>6, <1>t DEF TypeInv, TypeOK, StoreTypeOK
  <1>7. ASSUME NEW t \in Task PROVE RowInBudget(t)'
    BY <1>5, <1>6 DEF BudgetInv, RowInBudget
  <1>8. ASSUME NEW v \in Worker, NEW t \in Task, Drives(v, t)'
        PROVE  InOrder(worker[v], t)'
    <2>1. Drives(v, t) /\ t # u
      BY <1>1, <1>8 DEF Drives, Executes
    <2>2. InOrder(worker[v], t)
      BY <2>1 DEF BudgetInv, RunsInOrder
    <2> QED
      BY <1>6, <2>1, <2>2 DEF InOrder
  <1>9. NoRetryBack
    BY <1>t, <1>3, <1>4, <1>6, BudgetTypes DEF NoRetryBack
  <1> QED
    BY <1>7, <1>8, <1>9 DEF BudgetInv, RunsInOrder

LEMMA ClientBudget ==
  ASSUME BudgetInv, LeaseInv', Client
  PROVE  BudgetInv' /\ NoRetryBack
  <1> USE DEF storeVars, engineVars, clientVars, budgetVars, historyVars
  <1>t. TypeInv
    BY DEF BudgetInv, LeaseInv
  <1>1. ASSUME NEW t \in Task, Create(t) \/ CreateByOldNode(t)
        PROVE  BudgetInv' /\ NoRetryBack
    BY <1>1, CreateStep DEF Create, CreateByOldNode, create, createByOldNode
  <1>2. ASSUME NEW t \in Task, Kill(t) PROVE BudgetInv' /\ NoRetryBack
    <2> DEFINE r == [row[t] EXCEPT !.status = "killed"]
    <2>1. row' = [row EXCEPT ![t] = r]
      BY <1>2 DEF Kill, requestKill
    <2>2. /\ r.attempt = row[t].attempt /\ r.evalAttempt = row[t].evalAttempt
          /\ r.eval = row[t].eval /\ r.status = "killed"
      BY <1>t, TypedRow DEF Row
    <2>3. worker' = worker /\ goalRuns' = goalRuns /\ judged' = judged
      BY <1>2 DEF Kill
    <2> HIDE DEF r
    <2> QED
      BY <2>1, <2>2, <2>3, WriteStep
  <1>3. ASSUME NEW t \in Task, NEW m \in Message, SteerCheck(t, m)
        PROVE  BudgetInv' /\ NoRetryBack
    BY <1>3, FrameStep DEF SteerCheck
  <1>4. ASSUME NEW m \in Message, SteerSend(m) PROVE BudgetInv' /\ NoRetryBack
    <2> DEFINE t == outbox[m]
               r == [row[t] EXCEPT !.pending = m]
    <2>1. t \in Task
      BY <1>t, <1>4 DEF SteerSend, TypeInv, TypeOK
    <2>2. row' = [row EXCEPT ![t] = r]
      BY <1>4 DEF SteerSend, send
    <2>3. /\ r.attempt = row[t].attempt /\ r.evalAttempt = row[t].evalAttempt
          /\ r.eval = row[t].eval /\ r.status = row[t].status
      BY <1>t, <2>1, TypedRow DEF Row
    <2>4. worker' = worker /\ goalRuns' = goalRuns /\ judged' = judged
      BY <1>4 DEF SteerSend
    <2> HIDE DEF r, t
    <2> QED
      BY <2>1, <2>2, <2>3, <2>4, WriteStep
  <1> QED
    BY <1>1, <1>2, <1>3, <1>4 DEF Client

LEMMA ProcessBudget ==
  ASSUME BudgetInv, LeaseInv', Process
  PROVE  BudgetInv' /\ NoRetryBack
  <1> USE DEF storeVars, clientVars, budgetVars, historyVars
  <1>t. TypeInv
    BY DEF BudgetInv, LeaseInv
  <1>1. ASSUME NEW p \in Proc, ProcStart(p) PROVE BudgetInv' /\ NoRetryBack
    <2>1. ASSUME NEW t \in Task PROVE Outside(t)
      BY <1>t, <1>1, SweepOutside, EngineAssumption DEF ProcStart
    <2>2. worker' = worker /\ goalRuns' = goalRuns /\ judged' = judged
      BY <1>1 DEF ProcStart
    <2>3. ASSUME NEW v \in Worker, NEW t \in Task, Drives(v, t)' PROVE Drives(v, t)
      BY <2>2, <2>3 DEF Drives, Executes
    <2> QED
      BY <2>1, <2>2, <2>3, OutsideStep
  <1>2. ASSUME NEW p \in Proc, ProcStop(p) PROVE BudgetInv' /\ NoRetryBack
    BY <1>2, FrameStep DEF ProcStop
  <1>3. ASSUME NEW p \in Proc, ProcCrash(p) PROVE BudgetInv' /\ NoRetryBack
    <2>1. ASSUME NEW v \in Worker
          PROVE  worker'[v] = worker[v] \/ worker'[v].pc \notin Driving
      BY <1>3, IdleExecutesNothing DEF ProcCrash, Driving
    <2> QED
      BY <1>3, <2>1, FrameStep DEF ProcCrash
  <1> QED
    BY <1>1, <1>2, <1>3 DEF Process

LEMMA ClockBudget ==
  ASSUME BudgetInv, LeaseInv', Clock
  PROVE  BudgetInv' /\ NoRetryBack
  <1>t. TypeInv
    BY DEF BudgetInv, LeaseInv
  <1>1. worker' = worker /\ goalRuns' = goalRuns /\ judged' = judged
    BY DEF Clock, HeartbeatLapse, Heartbeat, engineVars, historyVars
  <1>2. PICK t \in Task, b \in BOOLEAN : row' = [row EXCEPT ![t].stale = b]
    BY <1>t, WorkerTypes DEF Clock, HeartbeatLapse, Heartbeat, heartbeat, At
  <1> DEFINE r == [row[t] EXCEPT !.stale = b]
  <1>3. row' = [row EXCEPT ![t] = r]
    BY <1>2
  <1>4. /\ r.attempt = row[t].attempt /\ r.evalAttempt = row[t].evalAttempt
        /\ r.eval = row[t].eval /\ r.status = row[t].status
    BY <1>t, TypedRow DEF Row
  <1> HIDE DEF r
  <1> QED
    BY <1>1, <1>3, <1>4, WriteStep

-----------------------------------------------------------------------------
\* Steps of the one driver of a row.

\* What the statements of a driver do to its row.
Inside(w, u) ==
  /\ row'[u].attempt = row[u].attempt
  /\ row'[u].evalAttempt \in {row[u].evalAttempt, worker[w].tries}
  /\ \/ row'[u].eval = row[u].eval
     \/ row'[u].eval \in {"verified", "refuted"}
     \/ row'[u].eval = "escalated" /\ row'[u].evalAttempt = MaxRetries
  /\ \/ row'[u].status = row[u].status
     \/ row'[u].status \in {"failed", "killed", "timeout"}
     \/ row'[u].status = "completed" /\ (u \in Evaluable => judged[u])
     \/ row'[u].status = "awaiting-input" /\ u \in Interactive
  /\ \A t \in Task : t # u => row'[t] = row[t]

LEMMA DriverHas ==
  ASSUME BudgetInv, NEW w \in Worker, NEW u \in Task, Drives(w, u)
  PROVE  /\ InOrder(worker[w], u) /\ RowInBudget(u) /\ TypeInv
         /\ row[u] \in Row /\ row[u].status \in {"running"} \cup Terminal
         /\ worker[w] \in WorkerState /\ worker[w].task = u
         /\ worker[w].tries \in Nat /\ worker[w].pc \in Driving
  BY WorkerTypes, TypedRow
     DEF BudgetInv, RunsInOrder, LeaseInv, DrivenIsLeased, Leased, Drives, Executes, Driving

LEMMA InsideBudget ==
  ASSUME BudgetInv, NEW w \in Worker, NEW u \in Task, Drives(w, u), Inside(w, u),
         goalRuns'[u] = goalRuns[u], judged[u] => judged'[u]
  PROVE  /\ RowInBudget(u)'
         /\ row[u].evalAttempt <= row'[u].evalAttempt
         /\ row'[u].evalAttempt <= worker[w].tries
  <1>1. /\ InOrder(worker[w], u) /\ RowInBudget(u) /\ TypeInv
        /\ row[u].status \in {"running"} \cup Terminal /\ worker[w].tries \in Nat
    BY DriverHas
  <1>2. /\ row[u].evalAttempt <= worker[w].tries /\ worker[w].tries <= MaxRetries
    BY <1>1 DEF InOrder
  <1>3. /\ row[u].attempt \in Nat /\ row[u].evalAttempt \in Nat
        /\ goalRuns[u] \in Nat /\ MaxRetries \in Nat
    BY <1>1, BudgetTypes
  <1>4. /\ row[u].evalAttempt <= row'[u].evalAttempt
        /\ row'[u].evalAttempt <= worker[w].tries
        /\ row'[u].evalAttempt <= MaxRetries
    BY <1>1, <1>2, <1>3 DEF Inside
  <1>5. row'[u].eval = "escalated" => row'[u].evalAttempt = MaxRetries
    BY <1>1, <1>2, <1>3 DEF Inside, RowInBudget
  <1>6. row'[u].status \notin {"absent", "queued"}
    BY <1>1 DEF Inside, Terminal
  <1>7. u \in Evaluable /\ row'[u].status = "completed" => judged'[u]
    BY <1>1 DEF Inside, RowInBudget
  <1>8. u \notin Interactive => /\ row'[u].status # "awaiting-input"
                                /\ row'[u].attempt <= MaxAttempts[u]
                                /\ goalRuns'[u] <= row'[u].attempt
    BY <1>1 DEF Inside, RowInBudget, Terminal
  <1> QED
    BY <1>4, <1>5, <1>6, <1>7, <1>8 DEF RowInBudget

LEMMA DriverGoes ==
  ASSUME BudgetInv, LeaseInv', NEW w \in Worker, NEW u \in Task, Drives(w, u),
         Inside(w, u),
         NEW s, worker' = [worker EXCEPT ![w] = s], s.task = u \/ s.pc \notin Driving,
         goalRuns' = goalRuns,
         \A t \in Task : t # u => judged'[t] = judged[t],
         judged[u] => judged'[u],
         Drives(w, u)' => InOrder(worker[w], u)'
  PROVE  BudgetInv' /\ NoRetryBack
  <1>1. worker \in [Worker -> WorkerState]
    BY DEF BudgetInv, LeaseInv, TypeInv, TypeOK
  <1>2. RowInBudget(u)' /\ row[u].evalAttempt <= row'[u].evalAttempt
    BY InsideBudget
  <1>3. ASSUME NEW v \in Worker, v # w
        PROVE  ~ Drives(v, u) /\ worker'[v] = worker[v]
    BY <1>1, <1>3 DEF BudgetInv, LeaseInv, SoleRunner
  <1>4. ASSUME NEW t \in Task, t # u PROVE ~ Drives(w, t)'
    BY <1>1, <1>4 DEF Drives, Executes, Driving
  <1>5. \A t \in Task : t # u => /\ row'[t] = row[t]
                                 /\ goalRuns'[t] = goalRuns[t]
                                 /\ judged'[t] = judged[t]
    BY DEF Inside
  <1> QED
    BY <1>2, <1>3, <1>4, <1>5, DriverStep

\* A driver that returns, or whose error leaves runClaimedTask, drives no more.
LEMMA DriverLeaves ==
  ASSUME BudgetInv, LeaseInv', NEW w \in Worker, NEW u \in Task, Drives(w, u),
         Inside(w, u), Return(w) \/ GoTo(w, "fail"),
         goalRuns' = goalRuns, judged' = judged
  PROVE  BudgetInv' /\ NoRetryBack
  <1>1. PICK s : worker' = [worker EXCEPT ![w] = s] /\ s.pc \notin Driving
    <2>1. CASE Return(w)
      BY <2>1, IdleExecutesNothing DEF Return, Driving
    <2>2. CASE GoTo(w, "fail")
      <3>1. [worker[w] EXCEPT !.pc = "fail"].pc \notin Driving
        BY DriverHas DEF WorkerState, Driving
      <3> QED
        BY <2>2, <3>1 DEF GoTo
    <2> QED
      BY <2>1, <2>2
  <1>2. ~ Drives(w, u)'
    BY <1>1 DEF Drives, Executes, Driving, BudgetInv, LeaseInv, TypeInv, TypeOK
  <1> QED
    BY <1>1, <1>2, DriverGoes

\* The statements stay inside.
LEMMA WrittenInside ==
  ASSUME BudgetInv, NEW w \in Worker, NEW u \in Task, Drives(w, u)
  PROVE  /\ row' = row => Inside(w, u)
         /\ \A s \in {"failed", "killed", "timeout"} : finish(u, s) => Inside(w, u)
         /\ (u \in Evaluable => judged[u]) /\ finish(u, "completed") => Inside(w, u)
         /\ takePendingMessage(u) \/ heartbeat(u) => Inside(w, u)
         /\ u \in Interactive /\ markAwaitingInput(u) => Inside(w, u)
         /\ stashEvalRetry(u, worker[w].tries) => Inside(w, u)
         /\ \A mark \in {"verified", "refuted"} :
               recordEval(u, mark, worker[w].tries) => Inside(w, u)
         /\ worker[w].tries = MaxRetries
              /\ recordEval(u, "escalated", worker[w].tries) => Inside(w, u)
  <1>r. row \in [Task -> Row] /\ row[u] \in Row
    BY DriverHas DEF TypeInv, TypeOK, StoreTypeOK
  <1> USE <1>r DEF Row, Inside
  <1>1. row' = row => Inside(w, u)
    OBVIOUS
  <1>2. ASSUME NEW s \in {"failed", "killed", "timeout"}, finish(u, s) PROVE Inside(w, u)
    BY <1>2 DEF finish
  <1>3. ASSUME u \in Evaluable => judged[u], finish(u, "completed") PROVE Inside(w, u)
    BY <1>3 DEF finish
  <1>4. takePendingMessage(u) \/ heartbeat(u) => Inside(w, u)
    BY DEF takePendingMessage, heartbeat
  <1>5. u \in Interactive /\ markAwaitingInput(u) => Inside(w, u)
    BY DEF markAwaitingInput
  <1>6. stashEvalRetry(u, worker[w].tries) => Inside(w, u)
    BY DEF stashEvalRetry
  <1>7. ASSUME NEW mark \in {"verified", "refuted"}, recordEval(u, mark, worker[w].tries)
        PROVE  Inside(w, u)
    BY <1>7 DEF recordEval
  <1>8. ASSUME worker[w].tries = MaxRetries, recordEval(u, "escalated", worker[w].tries)
        PROVE  Inside(w, u)
    BY <1>8 DEF recordEval
  <1> QED
    BY <1>1, <1>2, <1>3, <1>4, <1>5, <1>6, <1>7, <1>8

\* The last write of a handler whose run completed.
LEMMA FinishInside ==
  ASSUME BudgetInv, NEW w \in Worker, NEW u \in Task, Drives(w, u),
         At(w, "finish"), finish(u, worker[w].verdict)
  PROVE  Inside(w, u)
  <1>1. worker[w].verdict \in Verdict /\ InOrder(worker[w], u)
    BY DriverHas DEF WorkerState
  <1>2. worker[w].verdict = "completed" /\ u \in Evaluable => judged[u]
    BY <1>1 DEF InOrder, At
  <1>3. CASE worker[w].verdict = "completed"
    BY <1>2, <1>3, WrittenInside
  <1>4. CASE worker[w].verdict # "completed"
    BY <1>1, <1>4, WrittenInside DEF Verdict
  <1> QED
    BY <1>3, <1>4

LEMMA ParkInside ==
  ASSUME BudgetInv, NEW w \in Worker, NEW u \in Task, Drives(w, u),
         worker[w].pc \in {"park", "park again"}, markAwaitingInput(u)
  PROVE  Inside(w, u)
  <1>1. u \in Interactive
    BY DriverHas DEF InOrder
  <1> QED
    BY <1>1, WrittenInside

LEMMA StatementInside ==
  ASSUME BudgetInv, NEW w \in Worker, NEW u \in Task, Drives(w, u), Statement(w)
  PROVE  Inside(w, u)
  <1>1. worker[w].task = u
    BY DriverHas
  <1>2. CASE finish(u, "killed") \/ finish(u, "failed")
    BY <1>2, WrittenInside
  <1>3. CASE At(w, "finish") /\ finish(u, worker[w].verdict)
    BY <1>3, FinishInside
  <1>4. CASE takePendingMessage(u) \/ heartbeat(u)
    BY <1>4, WrittenInside
  <1>5. CASE worker[w].pc \in {"park", "park again"} /\ markAwaitingInput(u)
    BY <1>5, ParkInside
  <1>6. CASE stashEvalRetry(u, worker[w].tries)
    BY <1>6, WrittenInside
  <1> QED
    BY <1>1, <1>2, <1>3, <1>4, <1>5, <1>6 DEF Statement

\* What a driver that goes on with the retries it had still has established,
\* whatever its statement was but the write of a final status.
LEMMA StillInOrder ==
  ASSUME BudgetInv, NEW w \in Worker, NEW u \in Task, Drives(w, u), Inside(w, u),
         row'[u].status = row[u].status,
         goalRuns'[u] = goalRuns[u], judged[u] => judged'[u]
  PROVE  /\ row'[u].evalAttempt <= worker[w].tries /\ worker[w].tries <= MaxRetries
         /\ u \in Evaluable => row'[u].status # "completed"
         /\ goalRuns[u] < row[u].attempt => goalRuns'[u] < row'[u].attempt
  <1>1. InOrder(worker[w], u)
    BY DriverHas
  <1> QED
    BY <1>1, InsideBudget DEF InOrder, Inside

LEMMA StatusKept ==
  ASSUME TypeInv, NEW u \in Task,
         \/ row' = row \/ takePendingMessage(u) \/ heartbeat(u)
         \/ \E k : stashEvalRetry(u, k)
         \/ \E mark, k : recordEval(u, mark, k)
  PROVE  row'[u].status = row[u].status
  <1>1. row \in [Task -> Row] /\ row[u] \in Row
    BY TypedRow DEF TypeInv, TypeOK, StoreTypeOK
  <1>2. CASE row' = row
    BY <1>2
  <1>3. CASE takePendingMessage(u) \/ heartbeat(u)
    BY <1>1, <1>3 DEF takePendingMessage, heartbeat, Row
  <1>4. CASE \E k : stashEvalRetry(u, k)
    BY <1>1, <1>4 DEF stashEvalRetry, Row
  <1>5. CASE \E mark, k : recordEval(u, mark, k)
    BY <1>1, <1>5 DEF recordEval, Row
  <1> QED
    BY <1>2, <1>3, <1>4, <1>5

LEMMA LeqOrder ==
  \A a, b, c \in Nat : a <= a /\ (a <= b /\ b <= c => a <= c)
  OBVIOUS

\* A driver goes on in local state s with its row's status as it was.
LEMMA DriverMoves ==
  ASSUME BudgetInv, LeaseInv', NEW w \in Worker, NEW u \in Task, Drives(w, u),
         Inside(w, u), row'[u].status = row[u].status,
         goalRuns' = goalRuns,
         \A t \in Task : t # u => judged'[t] = judged[t],
         judged[u] => judged'[u],
         NEW s, worker' = [worker EXCEPT ![w] = s], s.task = u,
         s.tries \in Nat, worker[w].tries <= s.tries, s.tries <= MaxRetries,
         s.pc = "stash" => s.resume = RetrySteer,
         s.pc = "escalate" => judged'[u] /\ s.tries = MaxRetries,
         s.pc = "finish" /\ s.verdict = "completed" /\ u \in Evaluable => judged'[u],
         s.pc \in {"park", "reclaim", "park again"} => u \in Interactive,
         s.pc = "take" \/ (s.pc = "start" /\ s.resume = NoMessage)
           => u \in Interactive \/ goalRuns[u] < row[u].attempt
  PROVE  BudgetInv' /\ NoRetryBack
  <1>1. worker'[w] = s
    BY DEF BudgetInv, LeaseInv, TypeInv, TypeOK
  <1>2. /\ row'[u].evalAttempt <= worker[w].tries
        /\ u \in Evaluable => row'[u].status # "completed"
        /\ goalRuns[u] < row[u].attempt => goalRuns'[u] < row'[u].attempt
    BY StillInOrder
  <1>3. row'[u].evalAttempt \in Nat /\ worker[w].tries \in Nat
    <2>1. TypeInv'
      BY DEF LeaseInv
    <2> QED
      BY <2>1, DriverHas DEF TypeInv, TypeOK, StoreTypeOK, Row
  <1>4. row'[u].evalAttempt <= s.tries
    BY <1>2, <1>3, LeqOrder
  <1>5. InOrder(worker[w], u)'
    BY <1>1, <1>2, <1>4 DEF InOrder
  <1> QED
    BY <1>5, DriverGoes

\* The same for a step that only moves the pc.
LEMMA DriverGoesTo ==
  ASSUME BudgetInv, LeaseInv', NEW w \in Worker, NEW u \in Task, Drives(w, u),
         Inside(w, u), row'[u].status = row[u].status,
         goalRuns' = goalRuns, judged' = judged,
         NEW pc, GoTo(w, pc),
         pc = "stash" => worker[w].resume = RetrySteer,
         pc = "escalate" => judged[u] /\ worker[w].tries = MaxRetries,
         pc = "finish" /\ worker[w].verdict = "completed" /\ u \in Evaluable => judged[u],
         pc \in {"park", "reclaim", "park again"} => u \in Interactive,
         pc = "take" \/ (pc = "start" /\ worker[w].resume = NoMessage)
           => u \in Interactive \/ goalRuns[u] < row[u].attempt
  PROVE  BudgetInv' /\ NoRetryBack
  <1>1. /\ worker[w] \in WorkerState /\ worker[w].task = u /\ worker[w].tries \in Nat
        /\ worker[w].tries <= MaxRetries
    BY DriverHas DEF InOrder
  <1> DEFINE s == [worker[w] EXCEPT !.pc = pc]
  <1>2. worker' = [worker EXCEPT ![w] = s]
    BY DEF GoTo
  <1>3. /\ s.pc = pc /\ s.task = u /\ s.tries = worker[w].tries
        /\ s.resume = worker[w].resume /\ s.verdict = worker[w].verdict
    BY <1>1 DEF WorkerState
  <1>4. worker[w].tries <= worker[w].tries
    BY <1>1, LeqOrder
  <1>5. /\ s.tries \in Nat /\ worker[w].tries <= s.tries /\ s.tries <= MaxRetries
        /\ (s.pc = "stash" => s.resume = RetrySteer)
        /\ (s.pc = "escalate" => judged'[u] /\ s.tries = MaxRetries)
        /\ (s.pc = "finish" /\ s.verdict = "completed" /\ u \in Evaluable => judged'[u])
        /\ (s.pc \in {"park", "reclaim", "park again"} => u \in Interactive)
        /\ (s.pc = "take" \/ (s.pc = "start" /\ s.resume = NoMessage)
              => u \in Interactive \/ goalRuns[u] < row[u].attempt)
    BY <1>1, <1>3, <1>4
  <1>6. \A t \in Task : t # u => judged'[t] = judged[t]
    OBVIOUS
  <1> HIDE DEF s
  <1> QED
    BY <1>2, <1>3, <1>5, <1>6, DriverMoves

LEMMA StartBudget ==
  ASSUME BudgetInv, LeaseInv', NEW w \in Worker, NEW u \in Task, Drives(w, u), Start(w)
  PROVE  BudgetInv' /\ NoRetryBack
  <1>1. /\ InOrder(worker[w], u) /\ RowInBudget(u) /\ TypeInv
        /\ row[u].status \in {"running"} \cup Terminal
        /\ worker[w] \in WorkerState /\ worker[w].task = u
    BY DriverHas
  <1>2. row' = row /\ worker[w].pc = "start"
    BY DEF Start, At, storeVars
  <1>3. worker'[w] = [worker[w] EXCEPT !.pc = "turn"]
    BY <1>1 DEF Start, GoTo, TypeInv, TypeOK
  <1>4. /\ worker'[w].pc = "turn" /\ worker'[w].task = u
        /\ worker'[w].tries = worker[w].tries
    BY <1>1, <1>3 DEF WorkerState
  <1>5. ASSUME NEW v \in Worker, v # w
        PROVE  ~ Drives(v, u) /\ worker'[v] = worker[v]
    BY <1>1, <1>5 DEF Start, GoTo, TypeInv, TypeOK, BudgetInv, LeaseInv, SoleRunner
  <1>6. ASSUME NEW t \in Task, t # u
        PROVE  /\ row'[t] = row[t] /\ goalRuns'[t] = goalRuns[t]
               /\ judged'[t] = judged[t]
    BY <1>1, <1>2, <1>6 DEF Start, TypeInv, TypeOK
  <1>7. RowInBudget(u)'
    <2>1. goalRuns'[u] = goalRuns[u] \/
          (worker[w].resume = NoMessage /\ goalRuns'[u] = goalRuns[u] + 1)
      BY <1>1 DEF Start, TypeInv, TypeOK
    <2>2. goalRuns[u] \in Nat /\ row[u].attempt \in Nat
      BY <1>1, BudgetTypes
    <2>3. u \notin Interactive => goalRuns'[u] <= row[u].attempt
      BY <1>1, <1>2, <2>1, <2>2 DEF InOrder, RowInBudget
    <2>4. row[u].status # "absent" /\ ~ (u \in Evaluable /\ row[u].status = "completed")
      BY <1>1 DEF InOrder, Terminal
    <2> QED
      BY <1>1, <1>2, <2>3, <2>4 DEF RowInBudget
  <1>8. InOrder(worker[w], u)'
    BY <1>1, <1>2, <1>4 DEF InOrder
  <1>9. \A t \in Task : t # u => ~ Drives(w, t)'
    BY <1>4 DEF Drives, Executes
  <1>10. row[u].evalAttempt <= row'[u].evalAttempt
    BY <1>1, <1>2, BudgetTypes
  <1> QED
    BY <1>5, <1>6, <1>7, <1>8, <1>9, <1>10, DriverStep

\* The claim: nobody drives the row, and its attempts cover its next goal run.
LEMMA ClaimedRow ==
  ASSUME BudgetInv, NEW u \in Task, NEW n \in Node, claimAllowed(u, n), claim(u, n),
         goalRuns' = goalRuns, judged' = judged
  PROVE  /\ RowInBudget(u)'
         /\ row'[u].evalAttempt = row[u].evalAttempt
         /\ row'[u].status = "running"
         /\ u \in Interactive \/ goalRuns[u] < row'[u].attempt
         /\ \A v \in Worker : ~ Drives(v, u)
         /\ \A t \in Task : t # u => row'[t] = row[t]
  <1>1. TypeInv /\ RowInBudget(u) /\ row[u].status \in {"queued", "awaiting-input"}
    BY DEF BudgetInv, LeaseInv, claimAllowed
  <1>2. row \in [Task -> Row] /\ row[u] \in Row
    BY <1>1 DEF TypeInv, TypeOK, StoreTypeOK
  <1> DEFINE k == row[u].attempt + 1
  <1>3. /\ row'[u].status = "running" /\ row'[u].attempt = k
        /\ row'[u].evalAttempt = row[u].evalAttempt /\ row'[u].eval = row[u].eval
    <2>1. row' = [row EXCEPT ![u] = [row[u] EXCEPT
                    !.status = "running", !.stale = FALSE, !.claimedBy = n,
                    !.attempt = k]]
      BY DEF claim
    <2> HIDE DEF k
    <2> QED
      BY <1>2, <2>1 DEF Row
  <1>4. /\ row[u].attempt \in Nat /\ goalRuns[u] \in Nat /\ MaxAttempts[u] \in Nat
    BY <1>1, BudgetTypes
  <1>5. u \notin Interactive => /\ row[u].status = "queued"
                                /\ row[u].attempt < MaxAttempts[u]
                                /\ goalRuns[u] <= row[u].attempt
    BY <1>1 DEF RowInBudget
  <1>6. u \notin Interactive => /\ k <= MaxAttempts[u]
                                /\ goalRuns[u] < k /\ goalRuns[u] <= k
    BY <1>4, <1>5
  <1>7. \A v \in Worker : ~ Drives(v, u)
    BY <1>1, NotDrivenNow DEF Terminal
  <1>8. \A t \in Task : t # u => row'[t] = row[t]
    BY <1>2 DEF claim
  <1> HIDE DEF k
  <1>9. RowInBudget(u)'
    BY <1>1, <1>3, <1>6 DEF RowInBudget
  <1> QED
    BY <1>3, <1>6, <1>7, <1>8, <1>9

LEMMA ClaimBudget ==
  ASSUME BudgetInv, LeaseInv', NEW w \in Worker, Claim(w),
         NEW u \in Task, u = worker[w].task
  PROVE  BudgetInv' /\ NoRetryBack
  <1>1. TypeInv /\ worker[w] \in WorkerState /\ u \in Task /\ NodeOf(w) \in Node
    BY WorkerTypes, EngineAssumption DEF BudgetInv, LeaseInv, Claim, At, NodeOf
  <1>2. /\ claimAllowed(u, NodeOf(w)) /\ claim(u, NodeOf(w))
        /\ goalRuns' = goalRuns /\ judged' = judged
    BY DEF Claim, historyVars
  <1>3. /\ worker'[w].task = u /\ worker'[w].tries = row[u].evalAttempt
        /\ worker'[w].pc \in {"unserved", "start", "take"}
        /\ \A v \in Worker : v # w => worker'[v] = worker[v]
    BY <1>1 DEF Claim, TypeInv, TypeOK, WorkerState
  <1>4. /\ RowInBudget(u)'
        /\ row'[u].evalAttempt = row[u].evalAttempt
        /\ row'[u].status = "running"
        /\ u \in Interactive \/ goalRuns[u] < row'[u].attempt
        /\ \A v \in Worker : ~ Drives(v, u)
        /\ \A t \in Task : t # u => row'[t] = row[t]
    BY <1>1, <1>2, ClaimedRow
  <1>5. row[u].evalAttempt <= row'[u].evalAttempt
    BY <1>1, <1>4, BudgetTypes, LeqOrder
  <1>6. row'[u].evalAttempt <= worker'[w].tries /\ worker'[w].tries <= MaxRetries
    BY <1>1, <1>3, <1>4, <1>5 DEF BudgetInv, RowInBudget
  <1>7. InOrder(worker[w], u)'
    BY <1>2, <1>3, <1>4, <1>6 DEF InOrder
  <1>8. \A t \in Task : t # u => ~ Drives(w, t)'
    BY <1>3 DEF Drives, Executes
  <1> QED
    BY <1>1, <1>2, <1>3, <1>4, <1>5, <1>7, <1>8, DriverStep

LEMMA ClaimFailsBudget ==
  ASSUME BudgetInv, LeaseInv', NEW w \in Worker, ClaimFails(w),
         NEW u \in Task, u = worker[w].task
  PROVE  BudgetInv' /\ NoRetryBack
  <1>1. TypeInv /\ u \in Task /\ NodeOf(w) \in Node
    BY WorkerTypes, EngineAssumption DEF BudgetInv, LeaseInv, ClaimFails, Claiming, NodeOf
  <1>2. Return(w) /\ goalRuns' = goalRuns /\ judged' = judged
    BY DEF ClaimFails, historyVars
  <1>3. /\ worker'[w].pc \notin Driving
        /\ \A v \in Worker : v # w => worker'[v] = worker[v]
    BY <1>1, <1>2, IdleExecutesNothing DEF Return, TypeInv, TypeOK, Driving
  <1>4. CASE row' = row
    BY <1>2, <1>3, <1>4, FrameStep
  <1>5. CASE claimAllowed(u, NodeOf(w)) /\ claim(u, NodeOf(w))
    <2>1. /\ RowInBudget(u)'
          /\ row'[u].evalAttempt = row[u].evalAttempt
          /\ \A v \in Worker : ~ Drives(v, u)
          /\ \A t \in Task : t # u => row'[t] = row[t]
      BY <1>1, <1>2, <1>5, ClaimedRow
    <2>2. row[u].evalAttempt <= row'[u].evalAttempt
      BY <1>1, <2>1, BudgetTypes, LeqOrder
    <2>3. \A t \in Task : ~ Drives(w, t)'
      BY <1>3 DEF Drives, Executes, Driving
    <2> QED
      BY <1>1, <1>2, <1>3, <2>1, <2>2, <2>3, DriverStep
  <1> QED
    BY <1>4, <1>5 DEF ClaimFails

LEMMA FailRowBudget ==
  ASSUME BudgetInv, LeaseInv', NEW w \in Worker, FailRow(w)
  PROVE  BudgetInv' /\ NoRetryBack
  <1>1. TypeInv /\ worker[w].task \in Task
    BY WorkerTypes DEF BudgetInv, LeaseInv, FailRow, At
  <1>2. Return(w) /\ goalRuns' = goalRuns /\ judged' = judged
    BY DEF FailRow, historyVars
  <1>3. \A v \in Worker : worker'[v] = worker[v] \/ worker'[v].pc \notin Driving
    BY <1>1, <1>2, IdleExecutesNothing DEF Return, TypeInv, TypeOK, Driving
  <1>4. CASE row' = row
    BY <1>2, <1>3, <1>4, FrameStep
  <1>5. CASE finish(worker[w].task, "failed")
    <2> DEFINE u == worker[w].task
               r == [row[u] EXCEPT !.status = "failed", !.pending = NoMessage]
    <2>1. row' = [row EXCEPT ![u] = r]
      BY <1>5 DEF finish
    <2>2. /\ r.attempt = row[u].attempt /\ r.evalAttempt = row[u].evalAttempt
          /\ r.eval = row[u].eval /\ r.status = "failed"
      BY <1>1, TypedRow DEF Row
    <2> HIDE DEF u, r
    <2>3. u \in Task
      BY <1>1 DEF u
    <2> QED
      BY <1>2, <1>3, <2>1, <2>2, <2>3, WriteStep
  <1> QED
    BY <1>4, <1>5 DEF FailRow

\* The worker's actions before its claim.
LEMMA ClaimingBudget ==
  ASSUME BudgetInv, LeaseInv', NEW w \in Worker,
         \/ \E t \in Task : Dequeue(w, t)
         \/ ClaimRefused(w) \/ Recheck(w) \/ Reenqueue(w) \/ ReenqueueJob(w)
  PROVE  BudgetInv' /\ NoRetryBack
  <1>1. worker \in [Worker -> WorkerState]
    BY DEF BudgetInv, LeaseInv, TypeInv, TypeOK
  <1>2. row' = row /\ goalRuns' = goalRuns /\ judged' = judged
    BY DEF Dequeue, ClaimRefused, Recheck, Reenqueue, ReenqueueJob, storeVars,
       historyVars
  <1>3. PICK s : worker' = [worker EXCEPT ![w] = s] /\ s.pc \notin Driving
    <2>1. CASE Return(w)
      BY <2>1, IdleExecutesNothing DEF Return, Driving
    <2>2. ASSUME NEW pc \in Claiming, GoTo(w, pc)
          PROVE  \E s : worker' = [worker EXCEPT ![w] = s] /\ s.pc \notin Driving
      <3>1. [worker[w] EXCEPT !.pc = pc].pc = pc
        BY <1>1 DEF WorkerState
      <3>2. pc \notin Driving
        BY DEF Claiming, Driving, Executing
      <3> QED
        BY <2>2, <3>1, <3>2 DEF GoTo
    <2>3. ASSUME NEW t \in Task, Dequeue(w, t)
          PROVE  \E s : worker' = [worker EXCEPT ![w] = s] /\ s.pc \notin Driving
      <3>1. [worker[w] EXCEPT !.pc = "claim", !.task = t].pc = "claim"
        BY <1>1 DEF WorkerState
      <3>2. "claim" \notin Driving
        BY DEF Driving, Executing
      <3> QED
        BY <2>3, <3>1, <3>2 DEF Dequeue
    <2>4. {"recheck", "reenqueue", "add job"} \subseteq Claiming
      BY DEF Claiming
    <2> QED
      BY <2>1, <2>2, <2>3, <2>4 DEF ClaimRefused, Recheck, Reenqueue, ReenqueueJob
  <1>4. \A v \in Worker : worker'[v] = worker[v] \/ worker'[v].pc \notin Driving
    BY <1>1, <1>3
  <1> QED
    BY <1>2, <1>4, FrameStep

\* Statements after which the handler returns.
LEMMA ReturningBudget ==
  ASSUME BudgetInv, LeaseInv', NEW w \in Worker, NEW u \in Task, Drives(w, u),
         NoExecutor(w) \/ Overrun(w) \/ Discard(w) \/ Finish(w) \/ ParkRow(w)
  PROVE  BudgetInv' /\ NoRetryBack
  <1>1. worker[w].task = u
    BY DriverHas
  <1>2. Return(w) /\ goalRuns' = goalRuns /\ judged' = judged
    BY DEF NoExecutor, Overrun, Discard, Finish, ParkRow, historyVars
  <1>3. Inside(w, u)
    <2>1. CASE NoExecutor(w) \/ Overrun(w) \/ Discard(w)
      BY <1>1, <2>1, WrittenInside DEF NoExecutor, Overrun, Discard
    <2>2. CASE Finish(w)
      BY <1>1, <2>2, FinishInside DEF Finish
    <2>3. CASE ParkRow(w)
      BY <1>1, <2>3, ParkInside DEF ParkRow
    <2> QED
      BY <2>1, <2>2, <2>3
  <1> QED
    BY <1>2, <1>3, DriverLeaves

LEMMA ThrowBudget ==
  ASSUME BudgetInv, LeaseInv', NEW w \in Worker, NEW u \in Task, Drives(w, u),
         HandlerThrows(w)
  PROVE  BudgetInv' /\ NoRetryBack
  <1>1. GoTo(w, "fail") /\ goalRuns' = goalRuns /\ judged' = judged
    BY DEF HandlerThrows, historyVars
  <1>2. Inside(w, u)
    BY StatementInside, WrittenInside DEF HandlerThrows
  <1> QED
    BY <1>1, <1>2, DriverLeaves

\* Statements after which the run goes on.
LEMMA TakingBudget ==
  ASSUME BudgetInv, LeaseInv', NEW w \in Worker, NEW u \in Task, Drives(w, u),
         TakeResume(w) \/ Reclaim(w)
  PROVE  BudgetInv' /\ NoRetryBack
  <1>1. /\ InOrder(worker[w], u) /\ TypeInv /\ worker[w] \in WorkerState
        /\ worker[w].task = u /\ worker[w].tries \in Nat
    BY DriverHas
  <1>2. /\ takePendingMessage(u) /\ goalRuns' = goalRuns /\ judged' = judged
    BY <1>1 DEF TakeResume, Reclaim, historyVars
  <1>3. Inside(w, u) /\ row'[u].status = row[u].status
    BY <1>1, <1>2, WrittenInside, StatusKept
  <1>4. PICK pc \in {"start", "park again"} :
          /\ worker' = [worker EXCEPT ![w] =
               [worker[w] EXCEPT !.pc = pc, !.resume = row[u].pending]]
          /\ u \in Interactive \/ goalRuns[u] < row[u].attempt
          /\ pc = "park again" => u \in Interactive
    <2>1. CASE TakeResume(w)
      BY <1>1, <2>1 DEF TakeResume, At, InOrder
    <2>2. CASE Reclaim(w)
      BY <1>1, <2>2 DEF Reclaim, At, InOrder
    <2> QED
      BY <2>1, <2>2
  <1> DEFINE s == [worker[w] EXCEPT !.pc = pc, !.resume = row[u].pending]
  <1>5. s.pc = pc /\ s.task = u /\ s.tries = worker[w].tries
    BY <1>1 DEF WorkerState
  <1>6. worker' = [worker EXCEPT ![w] = s]
    BY <1>4
  <1> HIDE DEF s
  <1>7. s.tries \in Nat /\ worker[w].tries <= s.tries /\ s.tries <= MaxRetries
    BY <1>1, <1>5, LeqOrder DEF InOrder
  <1>8. /\ s.pc \notin {"stash", "escalate", "finish", "park", "reclaim", "take"}
        /\ s.pc = "park again" => u \in Interactive
    BY <1>4, <1>5
  <1>9. \A t \in Task : t # u => judged'[t] = judged[t]
    BY <1>2
  <1> QED
    BY <1>2, <1>3, <1>4, <1>5, <1>6, <1>7, <1>8, <1>9, DriverMoves

LEMMA TurnEndBudget ==
  ASSUME BudgetInv, LeaseInv', NEW w \in Worker, NEW u \in Task, Drives(w, u),
         TurnEnd(w)
  PROVE  BudgetInv' /\ NoRetryBack
  <1>1. /\ InOrder(worker[w], u) /\ TypeInv /\ worker[w] \in WorkerState
        /\ worker[w].task = u /\ worker[w].tries \in Nat
    BY DriverHas
  <1>2. heartbeat(u) /\ goalRuns' = goalRuns /\ judged' = judged
    BY <1>1 DEF TurnEnd, historyVars
  <1>3. Inside(w, u) /\ row'[u].status = row[u].status
    BY <1>1, <1>2, WrittenInside, StatusKept
  <1>4. CASE GoTo(w, "overrun")
    BY <1>2, <1>3, <1>4, DriverGoesTo
  <1>5. ASSUME NEW v \in Verdict,
               worker' = [worker EXCEPT ![w] =
                 [worker[w] EXCEPT !.pc = "reread", !.verdict = v]]
        PROVE  BudgetInv' /\ NoRetryBack
    <2> DEFINE s == [worker[w] EXCEPT !.pc = "reread", !.verdict = v]
    <2>1. s.pc = "reread" /\ s.task = u /\ s.tries = worker[w].tries
      BY <1>1 DEF WorkerState
    <2>2. worker' = [worker EXCEPT ![w] = s]
      BY <1>5
    <2> HIDE DEF s
    <2>3. s.tries \in Nat /\ worker[w].tries <= s.tries /\ s.tries <= MaxRetries
      BY <1>1, <2>1, LeqOrder DEF InOrder
    <2>4. s.pc \notin {"stash", "escalate", "finish", "park", "reclaim",
                       "park again", "take", "start"}
      BY <2>1
    <2>5. \A t \in Task : t # u => judged'[t] = judged[t]
      BY <1>2
    <2> QED
      BY <1>2, <1>3, <2>1, <2>2, <2>3, <2>4, <2>5, DriverMoves
  <1> QED
    BY <1>4, <1>5 DEF TurnEnd

\* Where the row is only read.
LEMMA ReadingBudget ==
  ASSUME BudgetInv, LeaseInv', NEW w \in Worker, NEW u \in Task, Drives(w, u),
         Reread(w) \/ ParkRefused(w)
  PROVE  BudgetInv' /\ NoRetryBack
  <1>1. /\ InOrder(worker[w], u) /\ worker[w].task = u
    BY DriverHas
  <1>2. row' = row /\ goalRuns' = goalRuns /\ judged' = judged
    BY DEF Reread, ParkRefused, storeVars, historyVars
  <1>3. Inside(w, u) /\ row'[u].status = row[u].status
    BY <1>2, WrittenInside
  <1>4. PICK pc \in {"discard", "park", "evaluate", "finish", "reclaim"} :
          /\ GoTo(w, pc)
          /\ pc \in {"park", "reclaim"} => u \in Interactive
          /\ pc = "finish" /\ worker[w].verdict = "completed" => u \notin Evaluable
    <2>1. CASE Reread(w)
      BY <1>1, <2>1, EvaluableNotInteractive DEF Reread, AfterRun
    <2>2. CASE ParkRefused(w)
      <3>1. u \in Interactive
        BY <1>1, <2>2 DEF ParkRefused, InOrder
      <3>2. CASE At(w, "park")
        BY <2>2, <3>1, <3>2 DEF ParkRefused
      <3>3. CASE ~ At(w, "park")
        BY <2>2, <3>1, <3>3, EvaluableNotInteractive DEF ParkRefused
      <3> QED
        BY <3>2, <3>3
    <2> QED
      BY <2>1, <2>2
  <1> QED
    BY <1>2, <1>3, <1>4, DriverGoesTo

LEMMA StashBudget ==
  ASSUME BudgetInv, LeaseInv', NEW w \in Worker, NEW u \in Task, Drives(w, u),
         Stash(w)
  PROVE  BudgetInv' /\ NoRetryBack
  <1>1. /\ InOrder(worker[w], u) /\ worker[w].task = u /\ TypeInv
    BY DriverHas
  <1>2. /\ stashEvalRetry(u, worker[w].tries) /\ GoTo(w, "start")
        /\ goalRuns' = goalRuns /\ judged' = judged
    BY <1>1 DEF Stash
  <1>3. Inside(w, u) /\ row'[u].status = row[u].status
    BY <1>1, <1>2, WrittenInside, StatusKept
  <1>4. worker[w].resume = RetrySteer /\ RetrySteer # NoMessage
    BY <1>1 DEF Stash, At, InOrder, RetrySteer, NoMessage
  <1> QED
    BY <1>2, <1>3, <1>4, DriverGoesTo

LEMMA EscalateBudget ==
  ASSUME BudgetInv, LeaseInv', NEW w \in Worker, NEW u \in Task, Drives(w, u),
         Escalate(w)
  PROVE  BudgetInv' /\ NoRetryBack
  <1>1. /\ InOrder(worker[w], u) /\ worker[w].task = u /\ TypeInv
    BY DriverHas
  <1>2. /\ recordEval(u, "escalated", worker[w].tries) \/ row' = row
        /\ GoTo(w, "finish") /\ goalRuns' = goalRuns /\ judged' = judged
    BY <1>1 DEF Escalate, historyVars
  <1>3. judged[u] /\ worker[w].tries = MaxRetries
    BY <1>1 DEF Escalate, At, InOrder
  <1>4. Inside(w, u) /\ row'[u].status = row[u].status
    BY <1>1, <1>2, <1>3, WrittenInside, StatusKept
  <1> QED
    BY <1>2, <1>3, <1>4, DriverGoesTo

\* Where a refuted run goes: to a retry the budget has, or to the escalation of
\* a spent one.
LEMMA Refuted ==
  ASSUME NEW w \in Worker, worker[w] \in WorkerState, worker[w].tries \in Nat,
         MaxRetries \in Nat, worker[w].tries <= MaxRetries
  PROVE  LET s == AfterRefutation(w) IN
         /\ s.task = worker[w].task /\ s.tries \in Nat
         /\ worker[w].tries <= s.tries /\ s.tries <= MaxRetries
         /\ s.pc \in {"stash", "escalate"}
         /\ s.pc = "stash" => s.resume = RetrySteer
         /\ s.pc = "escalate" => s.tries = MaxRetries
  <1>1. CASE worker[w].tries < MaxRetries
    <2> DEFINE k == worker[w].tries + 1
               s == [worker[w] EXCEPT !.pc = "stash", !.tries = k, !.resume = RetrySteer]
    <2>1. k \in Nat /\ worker[w].tries <= k /\ k <= MaxRetries
      BY <1>1
    <2>2. AfterRefutation(w) = s
      BY <1>1 DEF AfterRefutation
    <2> HIDE DEF k
    <2>3. s.task = worker[w].task /\ s.tries = k /\ s.pc = "stash" /\ s.resume = RetrySteer
      BY DEF WorkerState
    <2> QED
      BY <2>1, <2>2, <2>3
  <1>2. CASE ~ (worker[w].tries < MaxRetries)
    <2>1. worker[w].tries = MaxRetries
      BY <1>2
    <2>2. AfterRefutation(w) = [worker[w] EXCEPT !.pc = "escalate"]
      BY <1>2 DEF AfterRefutation
    <2> QED
      BY <2>1, <2>2 DEF WorkerState
  <1> QED
    BY <1>1, <1>2

LEMMA EvaluateBudget ==
  ASSUME BudgetInv, LeaseInv', NEW w \in Worker, NEW u \in Task, Drives(w, u),
         Evaluate(w)
  PROVE  BudgetInv' /\ NoRetryBack
  <1>1. /\ InOrder(worker[w], u) /\ worker[w].task = u /\ TypeInv
        /\ worker[w] \in WorkerState /\ worker[w].tries \in Nat /\ MaxRetries \in Nat
    BY DriverHas, EngineAssumption
  <1>2. /\ goalRuns' = goalRuns /\ judged' = [judged EXCEPT ![u] = TRUE]
        /\ \/ row' = row
           \/ \E mark \in {"verified", "refuted"} : recordEval(u, mark, worker[w].tries)
    BY <1>1 DEF Evaluate
  <1>3. Inside(w, u) /\ row'[u].status = row[u].status
    BY <1>1, <1>2, WrittenInside, StatusKept
  <1>4. judged'[u] /\ \A t \in Task : t # u => judged'[t] = judged[t]
    BY <1>1, <1>2 DEF TypeInv, TypeOK
  <1>5. CASE GoTo(w, "finish")
    <2> DEFINE s == [worker[w] EXCEPT !.pc = "finish"]
    <2>1. s.pc = "finish" /\ s.task = u /\ s.tries = worker[w].tries
      BY <1>1 DEF WorkerState
    <2>2. worker' = [worker EXCEPT ![w] = s]
      BY <1>5 DEF GoTo
    <2> HIDE DEF s
    <2>3. s.tries \in Nat /\ worker[w].tries <= s.tries /\ s.tries <= MaxRetries
      BY <1>1, <2>1, LeqOrder DEF InOrder
    <2> QED
      BY <1>2, <1>3, <1>4, <2>1, <2>2, <2>3, DriverMoves
  <1>6. CASE worker' = [worker EXCEPT ![w] = AfterRefutation(w)]
    <2> DEFINE s == AfterRefutation(w)
    <2>1. worker[w].tries <= MaxRetries
      BY <1>1 DEF InOrder
    <2>2. /\ s.task = u /\ s.tries \in Nat
          /\ worker[w].tries <= s.tries /\ s.tries <= MaxRetries
          /\ s.pc \in {"stash", "escalate"}
          /\ s.pc = "stash" => s.resume = RetrySteer
          /\ s.pc = "escalate" => s.tries = MaxRetries
      BY <1>1, <2>1, Refuted
    <2>3. worker' = [worker EXCEPT ![w] = s]
      BY <1>6
    <2> HIDE DEF s
    <2> QED
      BY <1>2, <1>3, <1>4, <2>2, <2>3, DriverMoves
  <1> QED
    BY <1>5, <1>6 DEF Evaluate

LEMMA HandlerBudget ==
  ASSUME BudgetInv, LeaseInv', NEW w \in Worker, Handler(w) \/ Fault(w)
  PROVE  BudgetInv' /\ NoRetryBack
  <1> DEFINE Claims == \/ \E t \in Task : Dequeue(w, t)
                       \/ ClaimRefused(w) \/ Recheck(w) \/ Reenqueue(w)
                       \/ ReenqueueJob(w)
             Drove  == \/ NoExecutor(w) \/ Overrun(w) \/ Discard(w) \/ Finish(w)
                       \/ ParkRow(w) \/ TakeResume(w) \/ Reclaim(w) \/ Start(w)
                       \/ TurnEnd(w) \/ Reread(w) \/ ParkRefused(w)
                       \/ Evaluate(w) \/ Escalate(w) \/ Stash(w)
                       \/ HandlerThrows(w)
  <1>t. TypeInv
    BY DEF BudgetInv, LeaseInv
  <1>1. CASE Claims
    BY <1>1, ClaimingBudget
  <1>2. CASE Claim(w) \/ ClaimFails(w)
    <2>1. worker[w].task \in Task
      BY <1>t, <1>2, WorkerTypes DEF Claim, ClaimFails, At, Claiming
    <2> QED
      BY <1>2, <2>1, ClaimBudget, ClaimFailsBudget
  <1>3. CASE FailRow(w)
    BY <1>3, FailRowBudget
  <1>4. CASE Drove
    <2>1. worker[w].pc \in Executing \ {"fail"}
      BY <1>4 DEF NoExecutor, Overrun, Discard, Finish, ParkRow, TakeResume, Reclaim,
         Start, TurnEnd, Reread, ParkRefused, Evaluate, Escalate, Stash,
         HandlerThrows, At, Executing
    <2>2. PICK u \in Task : Drives(w, u)
      BY <1>t, <2>1, WorkerTypes DEF Drives, Executes, Executing
    <2> QED
      BY <1>4, <2>2, ReturningBudget, TakingBudget, StartBudget, TurnEndBudget,
         ReadingBudget, EvaluateBudget, EscalateBudget, StashBudget, ThrowBudget
  <1> QED
    BY <1>1, <1>2, <1>3, <1>4 DEF Handler, Fault

LEMMA BudgetStep ==
  ASSUME ~ HeartbeatStalls
  PROVE  BudgetInv /\ [Next]_vars => BudgetInv' /\ NoRetryBack
  <1> SUFFICES ASSUME BudgetInv, [Next]_vars PROVE BudgetInv' /\ NoRetryBack
    OBVIOUS
  <1>1. LeaseInv'
    BY LeaseStep DEF BudgetInv
  <1>2. CASE UNCHANGED vars
    BY <1>1, <1>2, FrameStep DEF vars, storeVars, engineVars, historyVars
  <1> QED
    BY <1>1, <1>2, ClientBudget, HandlerBudget, ProcessBudget, ClockBudget DEF Next

LEMMA BudgetInvariant == ~ HeartbeatStalls /\ Spec => []BudgetInv
  <1> SUFFICES ASSUME ~ HeartbeatStalls PROVE Spec => []BudgetInv
    OBVIOUS
  <1>1. BudgetInv /\ [Next]_vars => BudgetInv'
    BY BudgetStep
  <1> QED
    BY <1>1, BudgetInit, PTL DEF Spec

-----------------------------------------------------------------------------
\* A row with criteria completes only after a verifier judged its last run,
\* for any number of overlapping processes and any crashes, kills and failing
\* calls, where heartbeats arrive within the sweep window.
THEOREM Judged == ~ HeartbeatStalls /\ Spec => []JudgedBeforeCompleted
  <1>1. BudgetInv => JudgedBeforeCompleted
    BY EvaluableNotInteractive DEF BudgetInv, RowInBudget, JudgedBeforeCompleted
  <1> QED
    BY <1>1, BudgetInvariant, PTL

\* Escalation waits for the last retry.
THEOREM SpentBeforeEscalated == ~ HeartbeatStalls /\ Spec => []EscalatedWhenSpent
  <1>1. BudgetInv => EscalatedWhenSpent
    BY DEF BudgetInv, RowInBudget, EscalatedWhenSpent
  <1> QED
    BY <1>1, BudgetInvariant, PTL

\* The goal of a row that is no session is executed at most max_attempts times.
THEOREM GoalBounded == ~ HeartbeatStalls /\ Spec => []GoalRunsWithinAttempts
  <1>1. BudgetInv => GoalRunsWithinAttempts
    <2> SUFFICES ASSUME BudgetInv, NEW t \in Task \ Interactive
                 PROVE  goalRuns[t] <= MaxAttempts[t]
      BY DEF GoalRunsWithinAttempts
    <2>1. RowInBudget(t) /\ TypeInv
      BY DEF BudgetInv, LeaseInv
    <2> QED
      BY <2>1, BudgetTypes, LeqOrder DEF RowInBudget
  <1> QED
    BY <1>1, BudgetInvariant, PTL

\* No crash, kill or late evaluation gives spent retries back, and none takes
\* more than the budget has.
THEOREM RetriesKept == ~ HeartbeatStalls /\ Spec => RetryBudgetKept
  <1> SUFFICES ASSUME ~ HeartbeatStalls PROVE Spec => RetryBudgetKept
    OBVIOUS
  <1> DEFINE Kept == \A t \in Task :
                       row'[t].evalAttempt \in row[t].evalAttempt .. MaxRetries
  <1>1. BudgetInv /\ [Next]_vars => [Kept]_row
    <2> SUFFICES ASSUME BudgetInv, [Next]_vars, NEW t \in Task
                 PROVE  row'[t].evalAttempt \in row[t].evalAttempt .. MaxRetries
      OBVIOUS
    <2>1. BudgetInv' /\ NoRetryBack
      BY BudgetStep
    <2>2. /\ row'[t].evalAttempt <= MaxRetries
          /\ row[t].evalAttempt <= row'[t].evalAttempt
      BY <2>1 DEF BudgetInv, RowInBudget, NoRetryBack
    <2>3. TypeInv /\ TypeInv'
      BY <2>1 DEF BudgetInv, LeaseInv
    <2>4. row[t].evalAttempt \in Nat /\ row'[t].evalAttempt \in Nat /\ MaxRetries \in Nat
      BY <2>3, EngineAssumption DEF TypeInv, TypeOK, StoreTypeOK, Row
    <2> QED
      BY <2>2, <2>4
  <1>2. RetryBudgetKept <=> [][Kept]_row
    BY DEF RetryBudgetKept
  <1> QED
    BY <1>1, <1>2, BudgetInvariant, PTL DEF Spec

-----------------------------------------------------------------------------
(* A row that waits for a worker has one coming.  The job alone does not     *)
(* show it: a worker holds the job while it is about to claim, to look at    *)
(* the row again or to add the job anew, and a worker of another node that   *)
(* holds it hands it on only while the row is queued.                        *)

Here(w, t) == Affinity[t] \in {AnyNode, NodeOf(w)}

Coming(w, t) ==
  /\ worker[w].task = t
  /\ \/ worker[w].pc = "claim" /\ (row[t].status = "queued" \/ Here(w, t))
     \/ /\ row[t].status = "queued"
        /\ \/ worker[w].pc = "recheck" /\ ~ Here(w, t)
           \/ worker[w].pc \in {"reenqueue", "add job"}

Waits(t) == \/ row[t].status = "queued"
            \/ row[t].status = "awaiting-input" /\ row[t].pending # NoMessage

\* The job of an old node's insert is gone once a worker or a client was there.
RowAttended(t) ==
  /\ Waits(t) => job[t] # NoJob \/ \E w \in Worker : Coming(w, t)
  /\ job[t] \in {NoJob, GlobalJob, JobNameOf(t)}
  /\ job[t] = GlobalJob /\ Affinity[t] # AnyNode =>
       /\ \A w \in Worker : worker[w].task # t
       /\ row[t].status \notin {"running", "awaiting-input"}
  /\ row[t].status = "absent" =>
       /\ job[t] = NoJob
       /\ \A w \in Worker : worker[w].task # t
       /\ \A m \in Message : outbox[m] # t

AttendInv == TypeInv /\ \A t \in Task : RowAttended(t)

NoOutages == MaxOutages = 0 /\ MaxFaults = 0

LEMMA JobNames ==
  ASSUME NEW t \in Task
  PROVE  /\ JobNameOf(t) # NoJob /\ GlobalJob # NoJob
         /\ JobNameOf(t) = GlobalJob => Affinity[t] = AnyNode
         /\ Affinity[t] # AnyNode => JobNameOf(t) = Affinity[t]
  BY StoreAssumption DEF JobNameOf, GlobalJob, NoJob

LEMMA AttendInit == Init => AttendInv
  <1> SUFFICES ASSUME Init, NEW t \in Task PROVE RowAttended(t)
    BY TypeInit DEF AttendInv
  <1>1. row[t].status = "absent" /\ job[t] = NoJob
    BY DEF Init, StoreInit, NoRow
  <1>2. \A w \in Worker : worker[w].task = NoTask
    BY DEF Init, IdleWorker
  <1>3. \A m \in Message : outbox[m] = NoTask
    BY DEF Init
  <1>4. NoTask # t
    BY EngineAssumption
  <1> QED
    BY <1>1, <1>2, <1>3, <1>4, JobNames DEF RowAttended, Waits

\* A row the step does not touch.
LEMMA RowAside ==
  ASSUME NEW t \in Task, RowAttended(t), row'[t] = row[t], job'[t] = job[t],
         \A v \in Worker : \/ worker'[v] = worker[v]
                           \/ ~ Coming(v, t) /\ worker'[v].task # t,
         outbox' = outbox
  PROVE  RowAttended(t)'
  <1>1. \A v \in Worker : Coming(v, t) => Coming(v, t)'
    BY DEF Coming, Here, NodeOf
  <1>2. \A v \in Worker : worker[v].task # t => worker'[v].task # t
    OBVIOUS
  <1> QED
    BY <1>1, <1>2 DEF RowAttended, Waits, JobNameOf

\* A row that clients, processes or the clock touch.
LEMMA RowTouched ==
  ASSUME NEW t \in Task, RowAttended(t), worker' = worker,
         \/ /\ job'[t] = job[t] /\ row'[t].status = row[t].status
            /\ row'[t].pending = row[t].pending /\ outbox' = outbox
         \/ job'[t] = job[t] /\ row'[t].status \in Terminal
         \/ job'[t] = JobNameOf(t) /\ row'[t].status # "absent"
         \/ /\ job'[t] = job[t] /\ row'[t] = row[t] /\ row[t].status # "absent"
  PROVE  RowAttended(t)'
  <1>1. CASE /\ job'[t] = job[t] /\ row'[t].status = row[t].status
             /\ row'[t].pending = row[t].pending
             /\ outbox' = outbox \/ row[t].status # "absent"
    <2>1. \A v \in Worker : Coming(v, t) => Coming(v, t)'
      BY <1>1 DEF Coming, Here, NodeOf
    <2> QED
      BY <1>1, <2>1 DEF RowAttended, Waits, JobNameOf
  <1>2. CASE job'[t] = job[t] /\ row'[t].status \in Terminal
    BY <1>2 DEF RowAttended, Waits, Terminal, JobNameOf
  <1>3. CASE job'[t] = JobNameOf(t) /\ row'[t].status # "absent"
    BY <1>3, JobNames DEF RowAttended, Waits, JobNameOf
  <1> QED
    BY <1>1, <1>2, <1>3

LEMMA ClientAttends ==
  ASSUME AttendInv, TypeInv', Client
  PROVE  AttendInv'
  <1> USE DEF storeVars, engineVars, clientVars, budgetVars, historyVars
  <1>r. row \in [Task -> Row] /\ job \in [Task -> JobName] /\ TypeInv
    BY DEF AttendInv, TypeInv, TypeOK, StoreTypeOK
  <1> SUFFICES ASSUME NEW t \in Task PROVE RowAttended(t)'
    BY DEF AttendInv
  <1>a. RowAttended(t)
    BY DEF AttendInv
  <1>1. ASSUME NEW u \in Task, Create(u) PROVE RowAttended(t)'
    <2>1. CASE t = u
      <3>1. row'[t] = [NoRow EXCEPT !.status = "queued"] /\ job'[t] = JobNameOf(t)
        BY <1>1, <1>r, <2>1 DEF Create, create, addJob
      <3> QED
        BY <1>1, <1>a, <3>1, RowTouched DEF Create, NoRow
    <2>2. CASE t # u
      BY <1>1, <1>a, <1>r, <2>2, RowAside DEF Create, create, addJob
    <2> QED
      BY <2>1, <2>2
  <1>2. ASSUME NEW u \in Task, CreateByOldNode(u) PROVE RowAttended(t)'
    <2>1. CASE t = u
      <3>1. row'[t] = [NoRow EXCEPT !.status = "queued"] /\ job'[t] = GlobalJob
        BY <1>2, <1>r, <2>1 DEF CreateByOldNode, createByOldNode
      <3>2. row'[t].status = "queued"
        BY <3>1 DEF NoRow
      <3>3. \A w \in Worker : worker'[w].task # t
        BY <1>2, <1>a, <2>1 DEF CreateByOldNode, createByOldNode, RowAttended
      <3> QED
        BY <3>1, <3>2, <3>3, JobNames DEF RowAttended
    <2>2. CASE t # u
      BY <1>2, <1>a, <1>r, <2>2, RowAside DEF CreateByOldNode, createByOldNode
    <2> QED
      BY <2>1, <2>2
  <1>3. ASSUME NEW u \in Task, Kill(u) PROVE RowAttended(t)'
    <2>1. CASE t = u
      <3>1. row'[t].status = "killed"
        BY <1>3, <1>r, <2>1 DEF Kill, requestKill, Row
      <3> QED
        BY <1>3, <1>a, <3>1, RowTouched DEF Kill, Terminal
    <2>2. CASE t # u
      BY <1>3, <1>a, <1>r, <2>2, RowAside DEF Kill, requestKill
    <2> QED
      BY <2>1, <2>2
  <1>4. ASSUME NEW u \in Task, NEW m \in Message, SteerCheck(u, m) PROVE RowAttended(t)'
    <2>1. row' = row /\ job' = job /\ worker' = worker /\ row[u].status \in Open
      BY <1>4 DEF SteerCheck
    <2>2. CASE row[t].status # "absent"
      BY <1>a, <2>1, <2>2, RowTouched
    <2>3. CASE row[t].status = "absent"
      <3>1. t # u
        BY <2>1, <2>3 DEF Open
      <3>2. \A l \in Message : outbox[l] # t => outbox'[l] # t
        BY <1>4, <3>1, <1>r DEF SteerCheck, TypeInv, TypeOK
      <3> QED
        BY <1>a, <2>1, <2>3, <3>2 DEF RowAttended, Waits, JobNameOf
    <2> QED
      BY <2>2, <2>3
  <1>5. ASSUME NEW m \in Message, SteerSend(m) PROVE RowAttended(t)'
    <2>1. CASE t = outbox[m]
      <3>1. job'[t] = JobNameOf(t) /\ row'[t].status = row[t].status
        BY <1>5, <1>r, <2>1 DEF SteerSend, send, addJob, Row
      <3>2. row[t].status # "absent"
        BY <1>a, <2>1 DEF RowAttended
      <3> QED
        BY <1>5, <1>a, <3>1, <3>2, RowTouched DEF SteerSend
    <2>2. CASE t # outbox[m]
      BY <1>5, <1>a, <1>r, <2>2, RowAside DEF SteerSend, send, addJob
    <2> QED
      BY <2>1, <2>2
  <1> QED
    BY <1>1, <1>2, <1>3, <1>4, <1>5 DEF Client

LEMMA ProcessAttends ==
  ASSUME AttendInv, TypeInv', Process, NoOutages
  PROVE  AttendInv'
  <1>r. row \in [Task -> Row] /\ job \in [Task -> JobName] /\ TypeInv
    BY DEF AttendInv, TypeInv, TypeOK, StoreTypeOK
  <1> SUFFICES ASSUME NEW t \in Task PROVE RowAttended(t)'
    BY DEF AttendInv
  <1>a. RowAttended(t)
    BY DEF AttendInv
  <1>1. PICK p \in Proc : ProcStart(p)
    BY <1>r DEF Process, ProcStop, ProcCrash, NoOutages, TypeInv, TypeOK
  <1>2. sweep(ProcNode[p]) /\ worker' = worker /\ outbox' = outbox
    BY <1>1 DEF ProcStart, clientVars
  <1> DEFINE s == sweptStatus(t, ProcNode[p])
  <1>3. /\ row'[t].status = s /\ row'[t].pending = row[t].pending
        /\ job'[t] = IF sweepRequeues(t, ProcNode[p]) THEN JobNameOf(t) ELSE job[t]
    <2>1. row'[t] = [row[t] EXCEPT !.status = s]
      BY <1>2 DEF sweep
    <2>2. row[t] \in Row
      BY <1>r
    <2> HIDE DEF s
    <2>3. row'[t].status = s /\ row'[t].pending = row[t].pending
      BY <2>1, <2>2 DEF Row
    <2> QED
      BY <1>2, <2>3 DEF sweep
  <1>4. CASE sweepRequeues(t, ProcNode[p])
    BY <1>2, <1>3, <1>4, <1>a, RowTouched DEF sweptStatus
  <1>5. CASE ~ sweepRequeues(t, ProcNode[p])
    <2>1. s = row[t].status \/ s \in Terminal
      BY <1>5 DEF sweptStatus, Terminal
    <2> QED
      BY <1>2, <1>3, <1>5, <1>a, <2>1, RowTouched
  <1> QED
    BY <1>4, <1>5

LEMMA ClockAttends ==
  ASSUME AttendInv, TypeInv', Clock
  PROVE  AttendInv'
  <1>r. row \in [Task -> Row] /\ TypeInv
    BY DEF AttendInv, TypeInv, TypeOK, StoreTypeOK
  <1> SUFFICES ASSUME NEW t \in Task PROVE RowAttended(t)'
    BY DEF AttendInv
  <1>a. RowAttended(t)
    BY DEF AttendInv
  <1>1. worker' = worker /\ outbox' = outbox /\ job' = job
    BY DEF Clock, HeartbeatLapse, Heartbeat, engineVars, clientVars
  <1>2. PICK u \in Task, b \in BOOLEAN : row' = [row EXCEPT ![u].stale = b]
    BY <1>r, WorkerTypes DEF Clock, HeartbeatLapse, Heartbeat, heartbeat, At
  <1>3. row'[t].status = row[t].status /\ row'[t].pending = row[t].pending
    BY <1>r, <1>2 DEF Row
  <1> QED
    BY <1>1, <1>3, <1>a, RowTouched

\* A worker that executes the row, before and after the step or before it.
LEMMA ExecutorAttends ==
  ASSUME AttendInv, TypeInv', NEW w \in Worker, NEW u \in Task,
         worker[w].task = u, worker[w].pc \in Executing,
         \A v \in Worker : v # w => worker'[v] = worker[v],
         worker'[w].task \in {u, NoTask},
         job' = job, outbox' = outbox,
         \A t \in Task : t # u => row'[t] = row[t],
         \/ /\ row'[u].status = row[u].status
            /\ \/ row'[u].pending \in {row[u].pending, NoMessage}
               \/ row[u].status = "running"
         \/ row'[u].status \in Terminal
         \/ row'[u].status = "awaiting-input" /\ row'[u].pending = NoMessage
  PROVE  AttendInv'
  <1> SUFFICES ASSUME NEW t \in Task PROVE RowAttended(t)'
    BY DEF AttendInv
  <1>a. RowAttended(t)
    BY DEF AttendInv
  <1>1. CASE t # u
    <2>1. ~ Coming(w, t) /\ worker'[w].task # t
      BY <1>1, EngineAssumption DEF Coming
    <2> QED
      BY <1>1, <1>a, <2>1, RowAside
  <1>2. CASE t = u
    <2>1. Waits(t)' => Waits(t) /\ row'[t].status = row[t].status
      BY <1>2 DEF Waits, Terminal
    <2>2. ~ Coming(w, t)
      BY <1>2 DEF Coming, Executing
    <2>3. \A v \in Worker :
            Coming(v, t) /\ row'[t].status = row[t].status => Coming(v, t)'
      BY <2>2 DEF Coming, Here, NodeOf
    <2>4. row[t].status # "absent" /\ ~ (job[t] = GlobalJob /\ Affinity[t] # AnyNode)
      BY <1>2, <1>a DEF RowAttended
    <2>5. row'[t].status # "absent"
      BY <1>2, <2>4 DEF Terminal
    <2> QED
      BY <1>a, <2>1, <2>3, <2>4, <2>5 DEF RowAttended, JobNameOf
  <1> QED
    BY <1>1, <1>2

\* What the actions of an executing worker do, in those terms.
ExecutingStep(w) ==
  \/ NoExecutor(w) \/ TakeResume(w) \/ Start(w) \/ TurnEnd(w) \/ Overrun(w)
  \/ Reread(w) \/ Discard(w) \/ ParkRow(w) \/ ParkRefused(w) \/ Reclaim(w)
  \/ Evaluate(w) \/ Escalate(w) \/ Stash(w) \/ Finish(w) \/ FailRow(w)

LEMMA ExecutingDoes ==
  ASSUME TypeInv, NEW w \in Worker, ExecutingStep(w),
         NEW u \in Task, u = worker[w].task
  PROVE  /\ worker[w].pc \in Executing
         /\ job' = job /\ outbox' = outbox
         /\ worker \in [Worker -> WorkerState]
         /\ row \in [Task -> Row] /\ row[u] \in Row
         /\ \E s : worker' = [worker EXCEPT ![w] = s] /\ s.task \in {u, NoTask}
         /\ \/ row' = row
            \/ \E e \in Terminal : finish(u, e)
            \/ takePendingMessage(u) \/ heartbeat(u)
            \/ parkAllowed(u) /\ markAwaitingInput(u)
            \/ \E mark, k : recordEval(u, mark, k)
            \/ \E k : stashEvalRetry(u, k)
  <1> USE DEF ExecutingStep
  <1>1. u \in Task /\ u = worker[w].task
    OBVIOUS
  <1>0. worker[w].pc \in Executing
    BY DEF NoExecutor, TakeResume, Start, TurnEnd, Overrun, Reread, Discard, ParkRow,
       ParkRefused, Reclaim, Evaluate, Escalate, Stash, Finish, FailRow, At, Executing
  <1>2. job' = job /\ outbox' = outbox
    BY DEF NoExecutor, TakeResume, Start, TurnEnd, Overrun, Reread, Discard, ParkRow,
       ParkRefused, Reclaim, Evaluate, Escalate, Stash, Finish, FailRow, WorkerStep,
       storeVars, clientVars
  <1>3. /\ worker \in [Worker -> WorkerState] /\ worker[w] \in WorkerState
        /\ row \in [Task -> Row] /\ row[u] \in Row /\ worker[w].verdict \in Terminal
    BY WorkerTypes DEF TypeInv, TypeOK, StoreTypeOK, Verdict, Terminal
  <1>4. \E s : worker' = [worker EXCEPT ![w] = s] /\ s.task \in {u, NoTask}
    <2>0. IdleWorker.task = NoTask
      BY DEF IdleWorker
    <2>1. CASE Return(w)
      BY <2>0, <2>1 DEF Return
    <2>2. CASE \E pc : GoTo(w, pc)
      BY <1>1, <1>3, <2>2 DEF GoTo, WorkerState
    <2>3. CASE TakeResume(w) \/ Reclaim(w)
      BY <1>1, <1>3, <2>3 DEF TakeResume, Reclaim, WorkerState
    <2>4. CASE TurnEnd(w)
      BY <1>1, <1>3, <2>2, <2>4 DEF TurnEnd, WorkerState
    <2>5. CASE Evaluate(w)
      <3>1. AfterRefutation(w).task = u
        BY <1>1, <1>3 DEF AfterRefutation, WorkerState
      <3> QED
        BY <2>2, <2>5, <3>1 DEF Evaluate
    <2> QED
      BY <2>1, <2>2, <2>3, <2>4, <2>5 DEF NoExecutor, Start, Overrun, Reread,
         Discard, ParkRow, ParkRefused, Escalate, Stash, Finish, FailRow
  <1>5. \/ row' = row
        \/ \E e \in Terminal : finish(u, e)
        \/ takePendingMessage(u) \/ heartbeat(u)
        \/ parkAllowed(u) /\ markAwaitingInput(u)
        \/ \E mark, k : recordEval(u, mark, k)
        \/ \E k : stashEvalRetry(u, k)
    <2>1. {"failed", "killed"} \subseteq Terminal
      BY DEF Terminal
    <2>2. CASE NoExecutor(w) \/ Overrun(w) \/ Discard(w) \/ Finish(w) \/ FailRow(w)
      BY <1>1, <1>3, <2>1, <2>2 DEF NoExecutor, Overrun, Discard, Finish, FailRow
    <2>3. CASE TakeResume(w) \/ Reclaim(w) \/ TurnEnd(w) \/ ParkRow(w) \/ Stash(w)
      BY <1>1, <2>3 DEF TakeResume, Reclaim, TurnEnd, ParkRow, Stash
    <2>4. CASE Start(w) \/ Reread(w) \/ ParkRefused(w)
      BY <2>4 DEF Start, Reread, ParkRefused, storeVars
    <2>5. CASE Evaluate(w)
      BY <1>1, <2>5 DEF Evaluate
    <2>6. CASE Escalate(w)
      BY <1>1, <2>6 DEF Escalate
    <2> QED
      BY <2>2, <2>3, <2>4, <2>5, <2>6
  <1> QED
    BY <1>0, <1>2, <1>3, <1>4, <1>5

LEMMA ExecutingAttends ==
  ASSUME AttendInv, TypeInv', NEW w \in Worker, ExecutingStep(w)
  PROVE  AttendInv'
  <1>t. TypeInv
    BY DEF AttendInv
  <1>0. worker[w].task \in Task
    <2>1. worker[w].pc \in Executing
      BY DEF ExecutingStep, NoExecutor, TakeResume, Start, TurnEnd, Overrun, Reread,
         Discard, ParkRow, ParkRefused, Reclaim, Evaluate, Escalate, Stash, Finish,
         FailRow, At, Executing
    <2> QED
      BY <1>t, <2>1, WorkerTypes DEF Executing
  <1>1. PICK u \in Task : u = worker[w].task
    BY <1>0
  <1>2. /\ worker[w].pc \in Executing
        /\ job' = job /\ outbox' = outbox
        /\ worker \in [Worker -> WorkerState]
    BY <1>t, <1>1, ExecutingDoes
  <1>3. row \in [Task -> Row] /\ row[u] \in Row
    BY <1>t, <1>1, ExecutingDoes
  <1>4. PICK s : worker' = [worker EXCEPT ![w] = s] /\ s.task \in {u, NoTask}
    BY <1>t, <1>1, ExecutingDoes
  <1>5. \/ row' = row
        \/ \E e \in Terminal : finish(u, e)
        \/ takePendingMessage(u) \/ heartbeat(u)
        \/ parkAllowed(u) /\ markAwaitingInput(u)
        \/ \E mark, k : recordEval(u, mark, k)
        \/ \E k : stashEvalRetry(u, k)
    BY <1>t, <1>1, ExecutingDoes
  <1>6. /\ \A t \in Task : t # u => row'[t] = row[t]
        /\ \/ /\ row'[u].status = row[u].status
              /\ \/ row'[u].pending \in {row[u].pending, NoMessage}
                 \/ row[u].status = "running"
           \/ row'[u].status \in Terminal
           \/ row'[u].status = "awaiting-input" /\ row'[u].pending = NoMessage
    <2>1. CASE row' = row
      BY <2>1
    <2>2. CASE \E e \in Terminal : finish(u, e)
      BY <1>3, <2>2 DEF finish, Row
    <2>3. CASE takePendingMessage(u) \/ heartbeat(u)
      BY <1>3, <2>3 DEF takePendingMessage, heartbeat, Row
    <2>4. CASE parkAllowed(u) /\ markAwaitingInput(u)
      BY <1>3, <2>4 DEF parkAllowed, markAwaitingInput, Row
    <2>5. CASE \E mark, k : recordEval(u, mark, k)
      BY <1>3, <2>5 DEF recordEval, Row
    <2>6. CASE \E k : stashEvalRetry(u, k)
      BY <1>3, <2>6 DEF stashEvalRetry, Row
    <2> QED
      BY <1>5, <2>1, <2>2, <2>3, <2>4, <2>5, <2>6
  <1>7. /\ worker'[w].task \in {u, NoTask}
        /\ \A v \in Worker : v # w => worker'[v] = worker[v]
    BY <1>2, <1>4
  <1> QED
    BY <1>1, <1>2, <1>6, <1>7, ExecutorAttends

\* A worker on its way to the claim, or back from a refused one.
LEMMA ClaimingAttends ==
  ASSUME AttendInv, TypeInv', NEW w \in Worker,
         Claim(w) \/ ClaimRefused(w) \/ Recheck(w) \/ Reenqueue(w) \/ ReenqueueJob(w)
  PROVE  AttendInv'
  <1>t. TypeInv
    BY DEF AttendInv
  <1>0. worker[w].pc \in Claiming
    BY DEF Claim, ClaimRefused, Recheck, Reenqueue, ReenqueueJob, At, Claiming
  <1>1. PICK u \in Task : u = worker[w].task
    BY <1>t, <1>0, WorkerTypes DEF Claiming
  <1>2. /\ worker \in [Worker -> WorkerState] /\ worker[w] \in WorkerState
        /\ row \in [Task -> Row] /\ row[u] \in Row /\ job \in [Task -> JobName]
    BY <1>t, WorkerTypes DEF TypeInv, TypeOK, StoreTypeOK
  <1>3. outbox' = outbox
    BY DEF Claim, ClaimRefused, Recheck, Reenqueue, ReenqueueJob, WorkerStep, clientVars
  <1>4. \A v \in Worker : v # w => worker'[v] = worker[v]
    BY <1>2 DEF Claim, ClaimRefused, Recheck, Reenqueue, ReenqueueJob, GoTo, Return
  <1>5. worker'[w].task \in {u, NoTask}
    <2>1. IdleWorker.task = NoTask
      BY DEF IdleWorker
    <2>2. CASE Claim(w)
      BY <1>1, <1>2, <2>2 DEF Claim, WorkerState
    <2>3. CASE ~ Claim(w)
      BY <1>1, <1>2, <2>1, <2>3 DEF ClaimRefused, Recheck, Reenqueue, ReenqueueJob,
         GoTo, Return, WorkerState
    <2> QED
      BY <2>2, <2>3
  <1>6. \A t \in Task : t # u => row'[t] = row[t] /\ job'[t] = job[t]
    BY <1>1, <1>2 DEF Claim, claim, ClaimRefused, Recheck, Reenqueue, ReenqueueJob,
       addJob, storeVars
  <1>7. ASSUME NEW t \in Task, t # u PROVE RowAttended(t)'
    <2>1. ~ Coming(w, t) /\ worker'[w].task # t /\ RowAttended(t)
      BY <1>1, <1>5, <1>7, EngineAssumption DEF Coming, AttendInv
    <2> QED
      BY <1>3, <1>4, <1>6, <1>7, <2>1, RowAside
  <1>8. RowAttended(u)'
    <2>a. RowAttended(u) /\ worker[w].task = u
      BY <1>1 DEF AttendInv
    <2>b. row[u].status # "absent" /\ ~ (job[u] = GlobalJob /\ Affinity[u] # AnyNode)
      BY <2>a DEF RowAttended
    <2>c. \A v \in Worker : v # w /\ Coming(v, u) /\ row'[u] = row[u] => Coming(v, u)'
      BY <1>4 DEF Coming, Here, NodeOf
    \* The row and the job are as they were, and so w's part is what may change.
    <2>d. ASSUME row' = row, job' = job, Coming(w, u) /\ Waits(u) => Coming(w, u)'
          PROVE  RowAttended(u)'
      BY <2>a, <2>b, <2>c, <2>d DEF RowAttended, Waits, JobNameOf
    <2>1. CASE Claim(w)
      <3>1. row'[u].status = "running" /\ job' = job
        BY <1>1, <1>2, <2>1 DEF Claim, claim, Row
      <3> QED
        BY <2>a, <2>b, <3>1 DEF RowAttended, Waits, JobNameOf
    <2>2. CASE ClaimRefused(w)
      <3>1. row' = row /\ job' = job /\ worker'[w] = [worker[w] EXCEPT !.pc = "recheck"]
        BY <1>2, <2>2 DEF ClaimRefused, storeVars, GoTo
      <3>2. worker'[w].pc = "recheck" /\ worker'[w].task = u
        BY <1>1, <1>2, <3>1 DEF WorkerState
      <3>3. Waits(u) /\ Coming(w, u) => row[u].status = "queued" /\ ~ Here(w, u)
        BY <1>1, <2>2 DEF ClaimRefused, claimAllowed, Waits, Coming, Here, At
      <3> QED
        BY <2>d, <3>1, <3>2, <3>3 DEF Coming, Here, NodeOf
    <2>3. CASE Recheck(w)
      <3>1. row' = row /\ job' = job
        BY <2>3 DEF Recheck, storeVars
      <3>2. ASSUME Coming(w, u), Waits(u) PROVE Coming(w, u)'
        <4>1. row[u].status = "queued" /\ ~ Here(w, u)
          BY <2>3, <3>2 DEF Coming, Recheck, At
        <4>2. worker'[w] = [worker[w] EXCEPT !.pc = "reenqueue"]
          BY <1>1, <1>2, <2>3, <4>1 DEF Recheck, GoTo, Here
        <4>3. worker'[w].pc = "reenqueue" /\ worker'[w].task = u
          BY <1>1, <1>2, <4>2 DEF WorkerState
        <4> QED
          BY <3>1, <4>1, <4>3 DEF Coming
      <3> QED
        BY <2>d, <3>1, <3>2
    <2>4. CASE Reenqueue(w)
      <3>1. row' = row /\ job' = job
        BY <2>4 DEF Reenqueue, storeVars
      <3>2. ASSUME Coming(w, u), Waits(u) PROVE Coming(w, u)'
        <4>1. row[u].status = "queued"
          BY <2>4, <3>2 DEF Coming, Reenqueue, At
        <4>2. worker'[w] = [worker[w] EXCEPT !.pc = "add job"]
          BY <1>1, <1>2, <2>4, <4>1 DEF Reenqueue, GoTo, RowOf
        <4>3. worker'[w].pc = "add job" /\ worker'[w].task = u
          BY <1>1, <1>2, <4>2 DEF WorkerState
        <4> QED
          BY <3>1, <4>1, <4>3 DEF Coming
      <3> QED
        BY <2>d, <3>1, <3>2
    <2>5. CASE ReenqueueJob(w)
      <3>1. row' = row /\ job'[u] = JobNameOf(u)
        BY <1>1, <1>2, <2>5 DEF ReenqueueJob, addJob
      <3> QED
        BY <2>b, <3>1, JobNames DEF RowAttended, JobNameOf
    <2> QED
      BY <2>1, <2>2, <2>3, <2>4, <2>5
  <1> QED
    BY <1>7, <1>8 DEF AttendInv

LEMMA DequeueAttends ==
  ASSUME AttendInv, TypeInv', NEW w \in Worker, NEW u \in Task, Dequeue(w, u)
  PROVE  AttendInv'
  <1>1. /\ worker \in [Worker -> WorkerState] /\ worker[w] \in WorkerState
        /\ job \in [Task -> JobName]
    BY WorkerTypes DEF AttendInv, TypeInv, TypeOK, StoreTypeOK
  <1>2. /\ row' = row /\ outbox' = outbox /\ worker[w].pc = "idle"
        /\ job[u] \in {GlobalJob, NodeOf(w)} /\ job' = [job EXCEPT ![u] = NoJob]
        /\ worker' = [worker EXCEPT ![w] = [worker[w] EXCEPT !.pc = "claim", !.task = u]]
    BY DEF Dequeue, At, WorkerStep, clientVars
  <1>3. /\ worker'[w].pc = "claim" /\ worker'[w].task = u
        /\ \A v \in Worker : v # w => worker'[v] = worker[v]
    BY <1>1, <1>2 DEF WorkerState
  <1>4. ASSUME NEW t \in Task, t # u PROVE RowAttended(t)'
    <2>1. ~ Coming(w, t) /\ worker'[w].task # t /\ RowAttended(t)
      BY <1>2, <1>3, <1>4 DEF Coming, AttendInv
    <2>2. row'[t] = row[t] /\ job'[t] = job[t]
      BY <1>1, <1>2, <1>4
    <2> QED
      BY <1>2, <1>3, <2>1, <2>2, RowAside
  <1>5. RowAttended(u)'
    <2>1. RowAttended(u)
      BY DEF AttendInv
    <2>2. job[u] # NoJob
      <3>1. NodeOf(w) \in Node
        BY EngineAssumption DEF NodeOf
      <3> QED
        BY <1>2, <3>1, JobNames, StoreAssumption
    <2>3. row[u].status # "absent" /\ job'[u] = NoJob
      BY <1>1, <1>2, <2>1, <2>2 DEF RowAttended
    <2>4. ASSUME Waits(u) PROVE row[u].status = "queued" \/ Here(w, u)
      <3>1. CASE job[u] = GlobalJob
        BY <2>1, <2>4, <3>1 DEF RowAttended, Waits, Here
      <3>2. CASE job[u] # GlobalJob
        BY <1>2, <2>1, <2>2, <3>2, JobNames DEF RowAttended, Here
      <3> QED
        BY <3>1, <3>2
    <2>5. Waits(u)' => Coming(w, u)'
      BY <1>2, <1>3, <2>4 DEF Waits, Coming, Here, NodeOf
    <2> QED
      BY <1>2, <2>3, <2>5, JobNames DEF RowAttended, JobNameOf
  <1> QED
    BY <1>4, <1>5 DEF AttendInv

LEMMA AttendStep ==
  ASSUME NoOutages
  PROVE  AttendInv /\ [Next]_vars => AttendInv'
  <1> SUFFICES ASSUME AttendInv, [Next]_vars PROVE AttendInv'
    OBVIOUS
  <1>t. TypeInv /\ TypeInv' /\ faults \in Nat
    BY TypeStep DEF AttendInv, TypeInv, TypeOK
  <1>1. CASE UNCHANGED vars
    BY <1>1, <1>t, RowAside DEF vars, storeVars, engineVars, clientVars, AttendInv
  <1>2. ASSUME NEW w \in Worker, Handler(w) PROVE AttendInv'
    BY <1>2, <1>t, ClaimingAttends, DequeueAttends, ExecutingAttends DEF Handler, ExecutingStep
  <1>3. ASSUME NEW w \in Worker, Fault(w) PROVE AttendInv'
    BY <1>3, <1>t DEF Fault, ClaimFails, HandlerThrows, NoOutages
  <1> QED
    BY <1>1, <1>2, <1>3, <1>t, ClientAttends, ProcessAttends, ClockAttends DEF Next

\* Where no process dies and no call fails, a row that waits for a worker never
\* lost its last job, whatever nodes took it, sent it on or swept the row.
THEOREM NoRowForgotten == NoOutages /\ Spec => []WaitingRowAttended
  <1> SUFFICES ASSUME NoOutages PROVE Spec => []WaitingRowAttended
    OBVIOUS
  <1>1. AttendInv => WaitingRowAttended
    BY DEF AttendInv, RowAttended, Waits, Coming, WaitingRowAttended, Attended, Claiming
  <1>2. AttendInv /\ [Next]_vars => AttendInv'
    BY AttendStep
  <1> QED
    BY <1>1, <1>2, AttendInit, PTL DEF Spec
-----------------------------------------------------------------------------
(* No accepted message is dropped.  Between its row and its run a message is *)
(* only in the memory of the worker that took it, which must be about to     *)
(* open a run with it.                                                       *)

OpensWith(w, t, m) ==
  At(w, "start") /\ worker[w].task = t /\ worker[w].resume = m

Accounted(m, t) ==
  \/ m \in heard \cup overwritten
  \/ row[t].pending = m
  \/ row[t].status \in Terminal
  \/ \E w \in Worker : OpensWith(w, t, m)

AccountInv ==
  /\ AttendInv
  /\ \A m \in accepted : outbox[m] \in Task /\ Accounted(m, outbox[m])

LEMMA AccountInit == Init => AccountInv
  BY AttendInit DEF Init, AccountInv

\* A step after which messages are where they were, or a place further.
LEMMA MessagesKept ==
  ASSUME AccountInv, AttendInv', accepted' = accepted, outbox' = outbox,
         heard \subseteq heard', overwritten \subseteq overwritten',
         \A t \in Task :
           row[t].status \in Terminal => row'[t].status \in Terminal,
         \A t \in Task, m \in Message :
           row[t].pending = m =>
             \/ row'[t].pending = m
             \/ row'[t].status \in Terminal
             \/ m \in overwritten'
             \/ \E w \in Worker : OpensWith(w, t, m)',
         \A v \in Worker, t \in Task, m \in Message :
           OpensWith(v, t, m) => OpensWith(v, t, m)' \/ m \in heard'
  PROVE  AccountInv'
  <1>1. accepted \in SUBSET Message
    BY DEF AccountInv, AttendInv, TypeInv, TypeOK
  <1> SUFFICES ASSUME NEW m \in accepted PROVE Accounted(m, outbox[m])'
    BY DEF AccountInv
  <1>2. m \in Message /\ outbox[m] \in Task /\ Accounted(m, outbox[m])
    BY <1>1 DEF AccountInv
  <1>3. PICK t \in Task : t = outbox[m]
    BY <1>2
  <1>4. Accounted(m, t)'
    BY <1>2, <1>3 DEF Accounted
  <1> QED
    BY <1>3, <1>4 DEF Accounted, OpensWith, At

\* A step of one worker that is not about to open a run, on rows that keep their
\* message or whose message goes on.
LEMMA MessagesAside ==
  ASSUME AccountInv, AttendInv', accepted' = accepted, outbox' = outbox,
         heard' = heard, overwritten \subseteq overwritten',
         NEW w \in Worker, worker[w].pc # "start",
         \A v \in Worker : v # w => worker'[v] = worker[v],
         NEW u \in Task,
         \A t \in Task : t # u => row'[t] = row[t],
         row[u].status \in Terminal => row'[u].status \in Terminal,
         \/ row'[u].pending = row[u].pending
         \/ row'[u].status \in Terminal
         \/ \A m \in Message : row[u].pending = m => m \in overwritten'
         \/ \A m \in Message : row[u].pending = m => OpensWith(w, u, m)'
  PROVE  AccountInv'
  <1>1. \A t \in Task : row[t].status \in Terminal => row'[t].status \in Terminal
    OBVIOUS
  <1>2. ASSUME NEW v \in Worker, NEW t \in Task, NEW m \in Message, OpensWith(v, t, m)
        PROVE  OpensWith(v, t, m)'
    BY <1>2 DEF OpensWith, At
  <1>3. ASSUME NEW t \in Task, NEW m \in Message, row[t].pending = m
        PROVE  \/ row'[t].pending = m
               \/ row'[t].status \in Terminal
               \/ m \in overwritten'
               \/ OpensWith(w, t, m)'
    BY <1>3 DEF OpensWith, At
  <1>4. heard \subseteq heard'
    OBVIOUS
  <1> QED
    BY <1>1, <1>2, <1>3, <1>4, MessagesKept

LEMMA ClientAccounts ==
  ASSUME AccountInv, AttendInv', Client
  PROVE  AccountInv'
  <1> USE DEF storeVars, engineVars, clientVars, budgetVars, historyVars
  <1>r. /\ row \in [Task -> Row] /\ accepted \in SUBSET Message
        /\ outbox \in [Message -> Task \cup {NoTask}] /\ TypeInv
    BY DEF AccountInv, AttendInv, TypeInv, TypeOK, StoreTypeOK
  <1>a. \A t \in Task : RowAttended(t)
    BY DEF AccountInv, AttendInv
  <1>b. \A m \in accepted : outbox[m] \in Task /\ Accounted(m, outbox[m])
    BY DEF AccountInv
  <1>1. ASSUME NEW u \in Task, Create(u) \/ CreateByOldNode(u) PROVE AccountInv'
    <2>1. /\ row[u].status = "absent" /\ worker' = worker /\ heard' = heard
          /\ overwritten' = overwritten /\ accepted' = accepted /\ outbox' = outbox
          /\ \A t \in Task : t # u => row'[t] = row[t]
      BY <1>1, <1>r DEF Create, CreateByOldNode, create, createByOldNode
    <2>2. ASSUME NEW m \in accepted PROVE Accounted(m, outbox[m])'
      <3>1. m \in Message /\ outbox[m] \in Task /\ outbox[m] # u
        BY <1>r, <1>a, <1>b, <2>1 DEF RowAttended
      <3> QED
        BY <1>b, <2>1, <3>1 DEF Accounted, OpensWith, At
    <2> QED
      BY <1>b, <2>1, <2>2 DEF AccountInv
  <1>2. ASSUME NEW u \in Task, Kill(u) PROVE AccountInv'
    <2>1. /\ worker' = worker /\ heard' = heard /\ overwritten' = overwritten
          /\ accepted' = accepted /\ outbox' = outbox
          /\ \A t \in Task : t # u => row'[t] = row[t]
          /\ row'[u].status = "killed"
      BY <1>2, <1>r DEF Kill, requestKill, Row
    <2> QED
      BY <2>1, MessagesKept DEF Terminal, OpensWith, At
  <1>3. ASSUME NEW u \in Task, NEW l \in Message, SteerCheck(u, l) PROVE AccountInv'
    <2>1. /\ worker' = worker /\ heard' = heard /\ overwritten' = overwritten
          /\ accepted' = accepted /\ row' = row
      BY <1>3 DEF SteerCheck
    <2>2. ASSUME NEW m \in accepted PROVE outbox'[m] = outbox[m]
      BY <1>3, <1>r, <1>b, EngineAssumption DEF SteerCheck
    <2> QED
      BY <1>b, <2>1, <2>2 DEF AccountInv, Accounted, OpensWith, At
  <1>4. ASSUME NEW l \in Message, SteerSend(l) PROVE AccountInv'
    <2>1. PICK u \in Task : u = outbox[l]
      BY <1>4, <1>r DEF SteerSend
    <2>2. /\ worker' = worker /\ heard' = heard /\ outbox' = outbox
          /\ accepted' = accepted \cup {l}
          /\ overwritten' = overwritten \cup ({row[u].pending} \cap Message)
          /\ row' = [row EXCEPT ![u].pending = l]
      BY <1>4, <2>1 DEF SteerSend, send, Overwrite
    <2>3. /\ row'[u].pending = l /\ row'[u].status = row[u].status
          /\ \A t \in Task : t # u => row'[t] = row[t]
      BY <1>r, <2>2 DEF Row
    <2>4. ASSUME NEW m \in accepted PROVE Accounted(m, outbox[m])'
      <3>1. m \in Message /\ outbox[m] \in Task /\ Accounted(m, outbox[m])
        BY <1>r, <1>b
      <3>2. CASE outbox[m] = u
        BY <2>2, <2>3, <3>1, <3>2 DEF Accounted, OpensWith, At
      <3>3. CASE outbox[m] # u
        BY <2>2, <2>3, <3>1, <3>3 DEF Accounted, OpensWith, At
      <3> QED
        BY <3>2, <3>3
    <2>5. Accounted(l, outbox[l])'
      BY <2>1, <2>2, <2>3 DEF Accounted
    <2> QED
      BY <1>b, <2>1, <2>2, <2>4, <2>5 DEF AccountInv
  <1> QED
    BY <1>1, <1>2, <1>3, <1>4 DEF Client

\* Processes and the clock leave messages alone.
LEMMA EnvironmentAccounts ==
  ASSUME AccountInv, AttendInv', Process \/ Clock, NoOutages
  PROVE  AccountInv'
  <1>r. row \in [Task -> Row] /\ outages \in Nat /\ TypeInv
    BY DEF AccountInv, AttendInv, TypeInv, TypeOK, StoreTypeOK
  <1>1. \/ \E p \in Proc : sweep(ProcNode[p])
        \/ \E t \in Task, b \in BOOLEAN : row' = [row EXCEPT ![t].stale = b]
    <2>1. CASE Process
      BY <1>r, <2>1 DEF Process, ProcStart, ProcStop, ProcCrash, NoOutages
    <2>2. ASSUME NEW t \in Task, HeartbeatLapse(t)
          PROVE  \E u \in Task, b \in BOOLEAN : row' = [row EXCEPT ![u].stale = b]
      BY <2>2 DEF HeartbeatLapse
    <2>3. ASSUME NEW w \in Worker, Heartbeat(w)
          PROVE  \E u \in Task, b \in BOOLEAN : row' = [row EXCEPT ![u].stale = b]
      <3>1. worker[w].task \in Task
        BY <1>r, <2>3, WorkerTypes DEF Heartbeat, At
      <3> QED
        BY <2>3, <3>1 DEF Heartbeat, heartbeat
    <2> QED
      BY <2>1, <2>2, <2>3 DEF Clock
  <1>2. /\ worker' = worker /\ heard' = heard /\ overwritten' = overwritten
        /\ accepted' = accepted /\ outbox' = outbox
    BY <1>r DEF Process, ProcStart, ProcStop, ProcCrash, NoOutages, Clock,
       HeartbeatLapse, Heartbeat, engineVars, clientVars, historyVars
  <1>3. ASSUME NEW t \in Task
        PROVE  /\ row'[t].pending = row[t].pending
               /\ row[t].status \in Terminal => row'[t].status \in Terminal
    <2>1. ASSUME NEW p \in Proc, sweep(ProcNode[p])
          PROVE  /\ row'[t].pending = row[t].pending
                 /\ row[t].status \in Terminal => row'[t].status \in Terminal
      <3> DEFINE s == sweptStatus(t, ProcNode[p])
      <3>1. row'[t] = [row[t] EXCEPT !.status = s]
        BY <2>1 DEF sweep
      <3>2. row[t].status \in Terminal => s \in Terminal
        BY DEF sweptStatus, sweepRequeues, sweepFails, sweepExpires, Terminal
      <3>3. row[t] \in Row
        BY <1>r
      <3> HIDE DEF s
      <3> QED
        BY <3>1, <3>2, <3>3 DEF Row
    <2>2. CASE \E u \in Task, b \in BOOLEAN : row' = [row EXCEPT ![u].stale = b]
      BY <1>r, <2>2 DEF Row
    <2> QED
      BY <1>1, <2>1, <2>2
  <1> QED
    BY <1>2, <1>3, MessagesKept DEF OpensWith, At

\* The claim and the way to it.
LEMMA ClaimingAccounts ==
  ASSUME AccountInv, AttendInv', NEW w \in Worker,
         \/ \E t \in Task : Dequeue(w, t)
         \/ Claim(w) \/ ClaimRefused(w) \/ Recheck(w) \/ Reenqueue(w)
         \/ ReenqueueJob(w)
  PROVE  AccountInv'
  <1>r. /\ row \in [Task -> Row] /\ worker \in [Worker -> WorkerState] /\ TypeInv
    BY DEF AccountInv, AttendInv, TypeInv, TypeOK, StoreTypeOK
  <1>1. /\ accepted' = accepted /\ outbox' = outbox /\ heard' = heard
        /\ overwritten' = overwritten
    BY DEF Dequeue, Claim, ClaimRefused, Recheck, Reenqueue, ReenqueueJob,
       WorkerStep, clientVars, historyVars
  <1>2. worker[w].pc # "start" /\ \A v \in Worker : v # w => worker'[v] = worker[v]
    BY <1>r DEF Dequeue, Claim, ClaimRefused, Recheck, Reenqueue, ReenqueueJob,
       GoTo, Return, At
  <1>3. \A v \in Worker, t \in Task, m \in Message :
          OpensWith(v, t, m) => OpensWith(v, t, m)'
    BY <1>2 DEF OpensWith, At
  <1>4. CASE row' = row
    BY <1>1, <1>3, <1>4, MessagesKept
  <1>5. CASE Claim(w)
    <2>1. worker[w].task \in Task
      BY <1>r, <1>5, WorkerTypes DEF Claim, At
    <2>2. PICK u \in Task : u = worker[w].task
      BY <2>1
    <2>3. /\ row'[u].pending = row[u].pending /\ row[u].status \notin Terminal
          /\ \A t \in Task : t # u => row'[t] = row[t]
      BY <1>r, <1>5, <2>2 DEF Claim, claim, claimAllowed, Row, Terminal
    <2> QED
      BY <1>1, <1>3, <2>3, MessagesKept
  <1>6. row' = row \/ Claim(w)
    BY DEF Dequeue, ClaimRefused, Recheck, Reenqueue, ReenqueueJob, storeVars
  <1> QED
    BY <1>4, <1>5, <1>6

LEMMA ExecutingAccounts ==
  ASSUME AccountInv, AttendInv', NEW w \in Worker, ExecutingStep(w),
         NEW u \in Task, u = worker[w].task
  PROVE  AccountInv'
  <1>t. TypeInv
    BY DEF AccountInv, AttendInv
  <1>1. /\ outbox' = outbox /\ worker \in [Worker -> WorkerState]
        /\ row \in [Task -> Row] /\ row[u] \in Row
    BY <1>t, ExecutingDoes
  <1>2. accepted' = accepted
    BY DEF ExecutingStep, NoExecutor, TakeResume, Start, TurnEnd, Overrun, Reread,
       Discard, ParkRow, ParkRefused, Reclaim, Evaluate, Escalate, Stash, Finish,
       FailRow, WorkerStep, clientVars
  <1>3. \A v \in Worker : v # w => worker'[v] = worker[v]
    <2>1. PICK s : worker' = [worker EXCEPT ![w] = s]
      BY <1>t, ExecutingDoes
    <2> QED
      BY <1>1, <2>1
  <1>4. \/ row' = row
        \/ \E e \in Terminal : finish(u, e)
        \/ takePendingMessage(u) \/ heartbeat(u)
        \/ parkAllowed(u) /\ markAwaitingInput(u)
        \/ \E mark, k : recordEval(u, mark, k)
        \/ \E k : stashEvalRetry(u, k)
    BY <1>t, ExecutingDoes
  <1>5. /\ \A t \in Task : t # u => row'[t] = row[t]
        /\ row[u].status \in Terminal => row'[u].status \in Terminal
        /\ \/ row'[u].pending = row[u].pending
           \/ row'[u].status \in Terminal
           \/ takePendingMessage(u)
           \/ \E k : stashEvalRetry(u, k)
    <2>1. CASE row' = row
      BY <2>1
    <2>2. CASE \E e \in Terminal : finish(u, e)
      BY <1>1, <2>2 DEF finish, Row
    <2>3. CASE takePendingMessage(u)
      BY <1>1, <2>3 DEF takePendingMessage, Row
    <2>4. CASE heartbeat(u)
      BY <1>1, <2>4 DEF heartbeat, Row
    <2>5. CASE parkAllowed(u) /\ markAwaitingInput(u)
      BY <1>1, <2>5 DEF parkAllowed, markAwaitingInput, Row, Terminal
    <2>6. CASE \E mark, k : recordEval(u, mark, k)
      BY <1>1, <2>6 DEF recordEval, Row
    <2>7. CASE \E k : stashEvalRetry(u, k)
      <3>1. PICK k : stashEvalRetry(u, k)
        BY <2>7
      <3>2. /\ \A t \in Task : t # u => row'[t] = row[t]
            /\ row[u].status \in Terminal => row'[u].status \in Terminal
        BY <1>1, <3>1 DEF stashEvalRetry, Row
      <3> QED
        BY <2>7, <3>2
    <2> QED
      BY <1>4, <2>1, <2>2, <2>3, <2>4, <2>5, <2>6, <2>7
  <1>6. CASE Start(w)
    <2>1. row' = row /\ overwritten' = overwritten
          /\ heard' = heard \cup ({worker[w].resume} \cap Message)
      BY <1>6 DEF Start, storeVars
    <2>2. \A v \in Worker, t \in Task, m \in Message :
            OpensWith(v, t, m) => OpensWith(v, t, m)' \/ m \in heard'
      BY <1>3, <2>1 DEF OpensWith, At
    <2> QED
      BY <1>1, <1>2, <2>1, <2>2, MessagesKept
  <1>7. CASE TakeResume(w) \/ Reclaim(w)
    <2>1. /\ takePendingMessage(u) /\ heard' = heard /\ overwritten' = overwritten
          /\ worker[w].pc # "start"
      BY <1>7 DEF TakeResume, Reclaim, historyVars, At
    <2>2. ASSUME NEW m \in Message, row[u].pending = m PROVE OpensWith(w, u, m)'
      <3>1. m # NoMessage
        BY StoreAssumption
      <3>2. worker'[w] = [worker[w] EXCEPT !.pc = "start", !.resume = m]
        BY <1>1, <1>7, <2>2, <3>1 DEF TakeResume, Reclaim
      <3>3. worker[w] \in WorkerState
        BY <1>1
      <3> QED
        BY <3>2, <3>3 DEF OpensWith, At, WorkerState
    <2> QED
      BY <1>1, <1>2, <1>3, <1>5, <2>1, <2>2, MessagesAside
  <1>8. CASE Stash(w)
    <2>1. /\ heard' = heard /\ worker[w].pc # "start"
          /\ stashEvalRetry(u, worker[w].tries)
          /\ IF row[u].status = "running" THEN Overwrite(u)
                                          ELSE overwritten' = overwritten
      BY <1>8 DEF Stash, At
    <2>2. CASE row[u].status = "running"
      BY <1>1, <1>2, <1>3, <1>5, <2>1, <2>2, MessagesAside DEF Overwrite
    <2>3. CASE row[u].status # "running"
      <3>1. row' = row
        BY <2>1, <2>3 DEF stashEvalRetry
      <3> QED
        BY <1>1, <1>2, <1>3, <1>5, <2>1, <2>3, <3>1, MessagesAside
    <2> QED
      BY <2>2, <2>3
  <1>9. CASE \/ NoExecutor(w) \/ TurnEnd(w) \/ Overrun(w) \/ Reread(w)
             \/ Discard(w) \/ ParkRow(w) \/ ParkRefused(w) \/ Evaluate(w)
             \/ Escalate(w) \/ Finish(w) \/ FailRow(w)
    <2>1. /\ heard' = heard /\ overwritten' = overwritten /\ worker[w].pc # "start"
      BY <1>9 DEF NoExecutor, TurnEnd, Overrun, Reread, Discard, ParkRow,
         ParkRefused, Evaluate, Escalate, Finish, FailRow, historyVars, At
    <2>2. \/ row' = row
          \/ \E e \in Terminal : finish(u, e)
          \/ heartbeat(u)
          \/ markAwaitingInput(u)
          \/ \E mark, k : recordEval(u, mark, k)
      <3>1. worker[w].verdict \in Terminal /\ {"failed", "killed"} \subseteq Terminal
        BY <1>t, WorkerTypes DEF Verdict, Terminal
      <3>2. CASE NoExecutor(w) \/ Overrun(w) \/ Discard(w) \/ Finish(w) \/ FailRow(w)
        BY <3>1, <3>2 DEF NoExecutor, Overrun, Discard, Finish, FailRow
      <3>3. CASE TurnEnd(w) \/ ParkRow(w) \/ Reread(w) \/ ParkRefused(w)
        BY <3>3 DEF TurnEnd, ParkRow, Reread, ParkRefused, storeVars
      <3>4. CASE Evaluate(w)
        BY <3>4 DEF Evaluate
      <3>5. CASE Escalate(w)
        BY <3>5 DEF Escalate
      <3> QED
        BY <1>9, <3>2, <3>3, <3>4, <3>5
    <2>3. row'[u].pending = row[u].pending \/ row'[u].status \in Terminal
      <3>1. CASE \E e \in Terminal : finish(u, e)
        BY <1>1, <3>1 DEF finish, Row
      <3>2. CASE heartbeat(u) \/ markAwaitingInput(u)
        BY <1>1, <3>2 DEF heartbeat, markAwaitingInput, Row
      <3>3. CASE \E mark, k : recordEval(u, mark, k)
        BY <1>1, <3>3 DEF recordEval, Row
      <3> QED
        BY <2>2, <3>1, <3>2, <3>3
    <2> QED
      BY <1>1, <1>2, <1>3, <1>5, <2>1, <2>3, MessagesAside
  <1> QED
    BY <1>6, <1>7, <1>8, <1>9 DEF ExecutingStep

LEMMA AccountStep ==
  ASSUME NoOutages
  PROVE  AccountInv /\ [Next]_vars => AccountInv'
  <1> SUFFICES ASSUME AccountInv, [Next]_vars PROVE AccountInv'
    OBVIOUS
  <1>t. AttendInv' /\ TypeInv /\ faults \in Nat
    BY AttendStep DEF AccountInv, AttendInv, TypeInv, TypeOK
  <1>1. CASE UNCHANGED vars
    BY <1>1, <1>t DEF vars, storeVars, engineVars, clientVars, historyVars,
       AccountInv, Accounted, OpensWith, At
  <1>2. ASSUME NEW w \in Worker, Handler(w) PROVE AccountInv'
    <2>1. CASE ExecutingStep(w)
      <3>1. worker[w].pc \in Executing
        BY <2>1 DEF ExecutingStep, NoExecutor, TakeResume, Start, TurnEnd, Overrun,
           Reread, Discard, ParkRow, ParkRefused, Reclaim, Evaluate, Escalate,
           Stash, Finish, FailRow, At, Executing
      <3>2. worker[w].task \in Task
        BY <1>t, <3>1, WorkerTypes DEF Executing
      <3> QED
        BY <1>t, <2>1, <3>2, ExecutingAccounts
    <2>2. CASE ~ ExecutingStep(w)
      BY <1>2, <1>t, <2>2, ClaimingAccounts DEF Handler, ExecutingStep
    <2> QED
      BY <2>1, <2>2
  <1>3. ASSUME NEW w \in Worker, Fault(w) PROVE AccountInv'
    BY <1>3, <1>t DEF Fault, ClaimFails, HandlerThrows, NoOutages
  <1> QED
    BY <1>1, <1>2, <1>3, <1>t, ClientAccounts, EnvironmentAccounts DEF Next

\* Where no process dies and no call fails, an accepted message is never dropped
\* while its row is open, for any number of senders, nodes and workers.
THEOREM NoMessageDropped == NoOutages /\ Spec => []MessageAccounted
  <1> SUFFICES ASSUME NoOutages PROVE Spec => []MessageAccounted
    OBVIOUS
  <1>1. AccountInv => MessageAccounted
    <2>1. "start" \in Executing
      BY DEF Executing
    <2> QED
      BY <2>1 DEF AccountInv, Accounted, OpensWith, At, MessageAccounted, Executes
  <1>2. AccountInv /\ [Next]_vars => AccountInv'
    BY AccountStep
  <1> QED
    BY <1>1, <1>2, AccountInit, PTL DEF Spec

-----------------------------------------------------------------------------
(* The engine implements the lifecycle of TaskLifecycle.  Where no statement *)
(* commits without its reply, the lease of a row extends to the handler's    *)
(* last statement: while a worker executes a row, the row is running or was  *)
(* killed under it.                                                          *)

Owned(t) == /\ row[t].status \in {"running", "killed"}
            /\ row[t].status = "running" => ~ row[t].stale

ExecInv == /\ TypeInv
           /\ \A v, w \in Worker, t \in Task : Executes(v, t) /\ Executes(w, t) => v = w
           /\ \A w \in Worker, t \in Task : Executes(w, t) => Owned(t)

\* What a step of a worker is to the row it executes.
Ends(w, u)    == Return(w) /\ \E e \in Terminal : finish(u, e)
GivesUp(w)    == Return(w) /\ row' = row
Parks(w, u)   == Return(w) /\ parkAllowed(u) /\ markAwaitingInput(u)
GoesOn(w, u)  == /\ \E s : /\ worker' = [worker EXCEPT ![w] = s]
                           /\ s.task = u /\ s.pc \in Executing
                 /\ \A t \in Task : t # u => row'[t] = row[t]
                 /\ row'[u].status = row[u].status
                 /\ row'[u].stale \in {row[u].stale, FALSE}
Takes(w, u)   == /\ claimAllowed(u, NodeOf(w)) /\ claim(u, NodeOf(w))
                 /\ worker[w].pc \notin Executing
                 /\ \E s : /\ worker' = [worker EXCEPT ![w] = s]
                           /\ s.task = u /\ s.pc \in Executing
Prepares(w)   == /\ row' = row /\ worker[w].pc \notin Executing
                 /\ \E s : worker' = [worker EXCEPT ![w] = s] /\ s.pc \notin Executing

LEMMA ClaimingKinds ==
  ASSUME TypeInv, ~ LostReplies, NEW w \in Worker,
         \/ \E t \in Task : Dequeue(w, t)
         \/ Claim(w) \/ ClaimRefused(w) \/ Recheck(w) \/ Reenqueue(w)
         \/ ReenqueueJob(w) \/ ClaimFails(w)
  PROVE  Prepares(w) \/ \E u \in Task : Takes(w, u)
  <1>1. worker \in [Worker -> WorkerState] /\ worker[w] \in WorkerState
    BY WorkerTypes DEF TypeInv, TypeOK
  <1>2. worker[w].pc \notin Executing
    BY DEF Dequeue, Claim, ClaimRefused, Recheck, Reenqueue, ReenqueueJob, ClaimFails,
       At, Claiming, Executing
  <1>3. CASE Claim(w)
    <2>1. worker[w].task \in Task
      BY <1>3, WorkerTypes DEF Claim, At
    <2> DEFINE t == worker[w].task
               pc == IF t \notin Registered[NodeOf(w)] THEN "unserved"
                     ELSE IF row[t].pending = NoMessage THEN "start" ELSE "take"
               s == [worker[w] EXCEPT !.pc = pc, !.tries = row[t].evalAttempt]
    <2>2. worker' = [worker EXCEPT ![w] = s] /\ claimAllowed(t, NodeOf(w))
          /\ claim(t, NodeOf(w))
      BY <1>3 DEF Claim
    <2>3. pc \in Executing
      BY DEF Executing
    <2> HIDE DEF pc
    <2>4. s.task = t /\ s.pc = pc
      BY <1>1 DEF WorkerState
    <2> HIDE DEF s
    <2>5. Takes(w, t)
      BY <1>2, <2>2, <2>3, <2>4 DEF Takes
    <2> QED
      BY <2>1, <2>5
  <1>4. CASE ~ Claim(w)
    <2>1. row' = row
      BY <1>4 DEF Dequeue, ClaimRefused, Recheck, Reenqueue, ReenqueueJob,
         ClaimFails, storeVars
    <2>2. \/ Return(w)
          \/ \E pc \in Claiming : GoTo(w, pc)
          \/ \E t \in Task : worker' = [worker EXCEPT ![w] =
               [worker[w] EXCEPT !.pc = "claim", !.task = t]]
      BY <1>4 DEF Dequeue, ClaimRefused, Recheck, Reenqueue, ReenqueueJob,
         ClaimFails, Claiming
    <2>3. \E s : worker' = [worker EXCEPT ![w] = s] /\ s.pc \notin Executing
      <3>1. CASE Return(w)
        BY <3>1, IdleExecutesNothing DEF Return
      <3>2. ASSUME NEW pc \in Claiming, GoTo(w, pc)
            PROVE  \E s : worker' = [worker EXCEPT ![w] = s] /\ s.pc \notin Executing
        <4>1. [worker[w] EXCEPT !.pc = pc].pc = pc
          BY <1>1 DEF WorkerState
        <4>2. pc \notin Executing
          BY DEF Claiming, Executing
        <4> QED
          BY <3>2, <4>1, <4>2 DEF GoTo
      <3>3. ASSUME NEW t \in Task, worker' = [worker EXCEPT ![w] =
                     [worker[w] EXCEPT !.pc = "claim", !.task = t]]
            PROVE  \E s : worker' = [worker EXCEPT ![w] = s] /\ s.pc \notin Executing
        <4>1. [worker[w] EXCEPT !.pc = "claim", !.task = t].pc = "claim"
          BY <1>1 DEF WorkerState
        <4>2. "claim" \notin Executing
          BY DEF Executing
        <4> QED
          BY <3>3, <4>1, <4>2
      <3> QED
        BY <2>2, <3>1, <3>2, <3>3
    <2> QED
      BY <1>2, <2>1, <2>3 DEF Prepares
  <1> QED
    BY <1>3, <1>4

LEMMA ExecutingKinds ==
  ASSUME TypeInv, ~ LostReplies, NEW w \in Worker,
         ExecutingStep(w) \/ HandlerThrows(w),
         NEW u \in Task, u = worker[w].task
  PROVE  /\ Executes(w, u)
         /\ Ends(w, u) \/ GivesUp(w) \/ Parks(w, u) \/ GoesOn(w, u)
  <1>0. worker[w].pc \in Executing
    BY DEF ExecutingStep, NoExecutor, TakeResume, Start, TurnEnd, Overrun, Reread,
       Discard, ParkRow, ParkRefused, Reclaim, Evaluate, Escalate, Stash, Finish,
       FailRow, HandlerThrows, At, Executing
  <1> SUFFICES Ends(w, u) \/ GivesUp(w) \/ Parks(w, u) \/ GoesOn(w, u)
    BY <1>0 DEF Executes
  <1>1. /\ worker[w] \in WorkerState /\ worker[w].verdict \in Terminal
        /\ row \in [Task -> Row] /\ row[u] \in Row
        /\ {"failed", "killed"} \subseteq Terminal
    BY WorkerTypes DEF TypeInv, TypeOK, StoreTypeOK, Verdict, Terminal
  <1>2. CASE NoExecutor(w) \/ Overrun(w) \/ Discard(w) \/ Finish(w) \/ FailRow(w)
    BY <1>1, <1>2 DEF NoExecutor, Overrun, Discard, Finish, FailRow, Ends, GivesUp
  <1>3. CASE ParkRow(w)
    BY <1>3 DEF ParkRow, Parks
  <1>4. ASSUME \/ \E pc \in Executing : GoTo(w, pc)
               \/ \E s : /\ worker' = [worker EXCEPT ![w] = s]
                         /\ s.task = u /\ s.pc \in Executing,
               \/ row' = row \/ takePendingMessage(u) \/ heartbeat(u)
               \/ \E k : stashEvalRetry(u, k)
               \/ \E mark, k : recordEval(u, mark, k)
        PROVE  GoesOn(w, u)
    <2>1. \E s : /\ worker' = [worker EXCEPT ![w] = s]
                 /\ s.task = u /\ s.pc \in Executing
      <3>1. ASSUME NEW pc \in Executing, GoTo(w, pc)
            PROVE  \E s : /\ worker' = [worker EXCEPT ![w] = s]
                          /\ s.task = u /\ s.pc \in Executing
        <4>1. /\ [worker[w] EXCEPT !.pc = pc].task = u
              /\ [worker[w] EXCEPT !.pc = pc].pc \in Executing
          BY <1>1 DEF WorkerState
        <4> QED
          BY <3>1, <4>1 DEF GoTo
      <3> QED
        BY <1>4, <3>1
    <2>2. /\ \A t \in Task : t # u => row'[t] = row[t]
          /\ row'[u].status = row[u].status
          /\ row'[u].stale \in {row[u].stale, FALSE}
      <3>1. CASE row' = row
        BY <3>1
      <3>2. CASE takePendingMessage(u)
        BY <1>1, <3>2 DEF takePendingMessage, Row
      <3>5. CASE heartbeat(u)
        BY <1>1, <3>5 DEF heartbeat, Row
      <3>3. CASE \E k : stashEvalRetry(u, k)
        BY <1>1, <3>3 DEF stashEvalRetry, Row
      <3>4. CASE \E mark, k : recordEval(u, mark, k)
        BY <1>1, <3>4 DEF recordEval, Row
      <3> QED
        BY <1>4, <3>1, <3>2, <3>3, <3>4, <3>5
    <2> QED
      BY <2>1, <2>2 DEF GoesOn
  <1>5. CASE Start(w) \/ ParkRefused(w)
    <2>1. row' = row /\ \E pc \in Executing : GoTo(w, pc)
      BY <1>5 DEF Start, ParkRefused, storeVars, Executing
    <2> QED
      BY <1>4, <2>1
  <1>6. CASE Reread(w)
    <2> DEFINE pc == IF RowOf(w).status = "killed" THEN "discard"
                     ELSE AfterRun(worker[w].task, worker[w].verdict)
    <2>1. row' = row /\ GoTo(w, pc) /\ pc \in Executing
      BY <1>6 DEF Reread, AfterRun, storeVars, Executing
    <2> HIDE DEF pc
    <2> QED
      BY <1>4, <2>1
  <1>7. CASE HandlerThrows(w)
    <2>1. row' = row /\ GoTo(w, "fail") /\ "fail" \in Executing
      BY <1>7 DEF HandlerThrows, Executing
    <2> QED
      BY <1>4, <2>1
  <1>8. CASE TakeResume(w) \/ Reclaim(w)
    <2>1. takePendingMessage(u)
      BY <1>8 DEF TakeResume, Reclaim
    <2>2. PICK pc \in {"start", "park again"} :
            worker' = [worker EXCEPT ![w] =
              [worker[w] EXCEPT !.pc = pc, !.resume = row[u].pending]]
      BY <1>8 DEF TakeResume, Reclaim
    <2> DEFINE s == [worker[w] EXCEPT !.pc = pc, !.resume = row[u].pending]
    <2>3. pc \in Executing
      BY DEF Executing
    <2>4. s.task = u /\ s.pc = pc
      BY <1>1 DEF WorkerState
    <2>5. worker' = [worker EXCEPT ![w] = s]
      BY <2>2
    <2> HIDE DEF s
    <2> QED
      BY <1>4, <2>1, <2>3, <2>4, <2>5
  <1>9. CASE TurnEnd(w)
    <2>1. heartbeat(u) /\ "overrun" \in Executing /\ "reread" \in Executing
      BY <1>9 DEF TurnEnd, Executing
    <2>2. ASSUME NEW v \in Verdict,
                 worker' = [worker EXCEPT ![w] =
                   [worker[w] EXCEPT !.pc = "reread", !.verdict = v]]
          PROVE  GoesOn(w, u)
      <3> DEFINE s == [worker[w] EXCEPT !.pc = "reread", !.verdict = v]
      <3>1. s.task = u /\ s.pc = "reread" /\ worker' = [worker EXCEPT ![w] = s]
        BY <1>1, <2>2 DEF WorkerState
      <3> HIDE DEF s
      <3> QED
        BY <1>4, <2>1, <3>1
    <2> QED
      BY <1>4, <1>9, <2>1, <2>2 DEF TurnEnd
  <1>10. CASE Evaluate(w)
    <2>1. row' = row \/ \E mark, k : recordEval(u, mark, k)
      BY <1>10 DEF Evaluate
    <2>2. {"finish", "stash", "escalate"} \subseteq Executing
      BY DEF Executing
    <2>3. AfterRefutation(w).task = u /\ AfterRefutation(w).pc \in Executing
      BY <1>1, <2>2 DEF AfterRefutation, WorkerState
    <2>4. GoTo(w, "finish") \/ worker' = [worker EXCEPT ![w] = AfterRefutation(w)]
      BY <1>10 DEF Evaluate
    <2> QED
      BY <1>4, <2>1, <2>2, <2>3, <2>4
  <1>11. CASE Escalate(w) \/ Stash(w)
    <2>1. \/ row' = row \/ \E mark, k : recordEval(u, mark, k)
          \/ \E k : stashEvalRetry(u, k)
      BY <1>11 DEF Escalate, Stash
    <2>2. GoTo(w, "finish") \/ GoTo(w, "start")
      BY <1>11 DEF Escalate, Stash
    <2>3. {"finish", "start"} \subseteq Executing
      BY DEF Executing
    <2> QED
      BY <1>4, <2>1, <2>2, <2>3
  <1> QED
    BY <1>2, <1>3, <1>5, <1>6, <1>7, <1>8, <1>9, <1>10, <1>11 DEF ExecutingStep

\* Who executes what after a step.
LEMMA ReturnExecutes ==
  ASSUME TypeInv, NEW w \in Worker, Return(w), NEW v \in Worker, NEW t \in Task
  PROVE  Executes(v, t)' <=> Executes(v, t) /\ v # w
  BY IdleExecutesNothing DEF TypeInv, TypeOK, Executes, Return

LEMMA GoesOnExecutes ==
  ASSUME TypeInv, NEW w \in Worker, NEW u \in Task, Executes(w, u), GoesOn(w, u),
         NEW v \in Worker, NEW t \in Task
  PROVE  Executes(v, t)' <=> Executes(v, t)
  BY DEF TypeInv, TypeOK, Executes, GoesOn

LEMMA TakesExecutes ==
  ASSUME TypeInv, NEW w \in Worker, NEW u \in Task, Takes(w, u),
         NEW v \in Worker, NEW t \in Task
  PROVE  Executes(v, t)' <=> Executes(v, t) \/ (v = w /\ t = u)
  BY DEF TypeInv, TypeOK, Executes, Takes

LEMMA PreparesExecutes ==
  ASSUME TypeInv, NEW w \in Worker, Prepares(w), NEW v \in Worker, NEW t \in Task
  PROVE  Executes(v, t)' <=> Executes(v, t)
  BY DEF TypeInv, TypeOK, Executes, Prepares

\* Every step of a worker is of one of the six kinds.
LEMMA WorkerKinds ==
  ASSUME TypeInv, ~ LostReplies, NEW w \in Worker, Handler(w) \/ Fault(w)
  PROVE  \/ Prepares(w)
         \/ \E u \in Task : Takes(w, u)
         \/ \E u \in Task : /\ Executes(w, u)
                            /\ \/ Ends(w, u) \/ GivesUp(w)
                               \/ Parks(w, u) \/ GoesOn(w, u)
  <1>1. CASE ExecutingStep(w) \/ HandlerThrows(w)
    <2>1. worker[w].pc \in Executing
      BY <1>1 DEF ExecutingStep, NoExecutor, TakeResume, Start, TurnEnd, Overrun,
         Reread, Discard, ParkRow, ParkRefused, Reclaim, Evaluate, Escalate, Stash,
         Finish, FailRow, HandlerThrows, At, Executing
    <2>2. PICK u \in Task : u = worker[w].task
      BY <2>1, WorkerTypes DEF Executing
    <2>3. /\ Executes(w, u)
          /\ Ends(w, u) \/ GivesUp(w) \/ Parks(w, u) \/ GoesOn(w, u)
      BY <1>1, <2>2, ExecutingKinds
    <2> QED
      BY <2>3
  <1>2. CASE ~ (ExecutingStep(w) \/ HandlerThrows(w))
    BY <1>2, ClaimingKinds DEF Handler, Fault, ExecutingStep
  <1> QED
    BY <1>1, <1>2

LEMMA ExecInit == Init => ExecInv
  <1> SUFFICES ASSUME Init PROVE ExecInv
    OBVIOUS
  <1>1. ASSUME NEW w \in Worker, NEW t \in Task PROVE ~ Executes(w, t)
    BY IdleExecutesNothing DEF Init, Executes
  <1> QED
    BY <1>1, TypeInit DEF ExecInv

LEMMA ExecFrame ==
  ASSUME ExecInv, TypeInv',
         \A w \in Worker, t \in Task :
           Executes(w, t)' => Executes(w, t) /\ (Owned(t) => Owned(t)')
  PROVE  ExecInv'
  BY DEF ExecInv

LEMMA WorkerExec ==
  ASSUME ExecInv, TypeInv', ~ LostReplies, NEW w \in Worker, Handler(w) \/ Fault(w)
  PROVE  ExecInv'
  <1>r. TypeInv /\ row \in [Task -> Row] /\ \A t \in Task : row[t] \in Row
    BY DEF ExecInv, TypeInv, TypeOK, StoreTypeOK
  <1>1. CASE Prepares(w)
    <2>1. row' = row
      BY <1>1 DEF Prepares
    <2> QED
      BY <1>1, <1>r, <2>1, PreparesExecutes, ExecFrame DEF Owned
  <1>2. ASSUME NEW u \in Task, Takes(w, u) PROVE ExecInv'
    <2>1. row[u].status \notin {"running", "killed"} /\ claim(u, NodeOf(w))
      BY <1>2 DEF Takes, claimAllowed
    <2>2. \A v \in Worker : ~ Executes(v, u)
      BY <2>1 DEF ExecInv, Owned
    <2>3. /\ row'[u].status = "running" /\ row'[u].stale = FALSE
          /\ \A t \in Task : t # u => row'[t] = row[t]
      <3> DEFINE k == row[u].attempt + 1
      <3>1. row' = [row EXCEPT ![u] = [row[u] EXCEPT
                      !.status = "running", !.stale = FALSE,
                      !.claimedBy = NodeOf(w), !.attempt = k]]
        BY <2>1 DEF claim
      <3> HIDE DEF k
      <3> QED
        BY <1>r, <3>1 DEF Row
    <2>4. \A v \in Worker, t \in Task :
            Executes(v, t)' <=> Executes(v, t) \/ (v = w /\ t = u)
      BY <1>r, <1>2, TakesExecutes
    <2>5. \A v, x \in Worker, t \in Task : (Executes(v, t) /\ Executes(x, t) => v = x)'
      BY <2>2, <2>4 DEF ExecInv
    <2>6. \A v \in Worker, t \in Task : (Executes(v, t) => Owned(t))'
      BY <2>2, <2>3, <2>4 DEF ExecInv, Owned
    <2> QED
      BY <2>5, <2>6 DEF ExecInv
  <1>3. ASSUME NEW u \in Task, Executes(w, u), GoesOn(w, u) PROVE ExecInv'
    <2>1. ASSUME NEW t \in Task, Owned(t) PROVE Owned(t)'
      BY <1>3, <2>1 DEF GoesOn, Owned
    <2> QED
      BY <1>3, <1>r, <2>1, GoesOnExecutes, ExecFrame
  <1>4. ASSUME NEW u \in Task, Executes(w, u), Ends(w, u) \/ GivesUp(w) \/ Parks(w, u)
        PROVE  ExecInv'
    <2>1. Return(w) /\ \A t \in Task : t # u => row'[t] = row[t]
      BY <1>4, <1>r DEF Ends, GivesUp, Parks, finish, markAwaitingInput
    <2>2. ASSUME NEW v \in Worker, NEW t \in Task, Executes(v, t)'
          PROVE  Executes(v, t) /\ (Owned(t) => Owned(t)')
      <3>1. Executes(v, t) /\ v # w
        BY <1>r, <2>1, <2>2, ReturnExecutes
      <3>2. t # u
        BY <1>4, <3>1 DEF ExecInv
      <3> QED
        BY <2>1, <3>1, <3>2 DEF Owned
    <2> QED
      BY <2>2, ExecFrame
  <1> QED
    BY <1>1, <1>2, <1>3, <1>4, <1>r, WorkerKinds

\* What a step of a client, of a process or of the clock is.
Submits(u)  == /\ worker' = worker
               /\ row[u].status = "absent" /\ row'[u].status = "queued"
               /\ \A t \in Task : t # u => row'[t] = row[t]
Cancels(u)  == /\ worker' = worker
               /\ row[u].status \in Open /\ row'[u].status = "killed"
               /\ \A t \in Task : t # u => row'[t] = row[t]
Keeps       == /\ worker' = worker
               /\ \A t \in Task : /\ row'[t].status = row[t].status
                                  /\ IsExecuted(t) => row'[t].stale \in {row[t].stale, FALSE}
Sweeps      == /\ worker' = worker
               /\ \A t \in Task :
                    /\ row'[t].stale = row[t].stale
                    /\ \/ row'[t].status = row[t].status
                       \/ /\ row[t].status = "running" /\ row[t].stale
                          /\ row'[t].status \in {"queued", "failed"}
                       \/ row[t].status = "awaiting-input" /\ row'[t].status = "timeout"
Crashes(p)  == /\ row' = row
               /\ worker' = [w \in Worker |-> IF WorkerProc[w] = p THEN IdleWorker
                                                                   ELSE worker[w]]

LEMMA OtherKinds ==
  ASSUME TypeInv, ~ HeartbeatStalls, Client \/ Process \/ Clock
  PROVE  \/ Keeps \/ Sweeps
         \/ \E u \in Task : Submits(u) \/ Cancels(u)
         \/ \E p \in Proc : Crashes(p)
  <1>r. row \in [Task -> Row] /\ \A t \in Task : row[t] \in Row
    BY DEF TypeInv, TypeOK, StoreTypeOK
  <1>1. ASSUME NEW t \in Task, Create(t) \/ CreateByOldNode(t) PROVE Submits(t)
    <2>1. /\ worker' = worker /\ row[t].status = "absent"
          /\ row' = [row EXCEPT ![t] = [NoRow EXCEPT !.status = "queued"]]
      BY <1>1 DEF Create, CreateByOldNode, create, createByOldNode, engineVars
    <2>2. [NoRow EXCEPT !.status = "queued"].status = "queued"
      BY DEF NoRow
    <2> QED
      BY <1>r, <2>1, <2>2 DEF Submits
  <1>2. ASSUME NEW t \in Task, Kill(t) PROVE Cancels(t)
    BY <1>2, <1>r DEF Kill, requestKill, Cancels, engineVars, Row
  <1>3. ASSUME NEW t \in Task, NEW m \in Message, SteerCheck(t, m) PROVE Keeps
    BY <1>3 DEF SteerCheck, Keeps, engineVars, storeVars
  <1>4. ASSUME NEW m \in Message, SteerSend(m) PROVE Keeps
    <2>1. worker' = worker /\ row' = [row EXCEPT ![outbox[m]].pending = m]
      BY <1>4 DEF SteerSend, send, engineVars
    <2> QED
      BY <1>r, <2>1 DEF Keeps, Row
  <1>5. ASSUME NEW p \in Proc, ProcStart(p) PROVE Sweeps
    <2>1. /\ worker' = worker
          /\ \A t \in Task : row'[t] =
               [row[t] EXCEPT !.status = sweptStatus(t, ProcNode[p])]
      BY <1>5 DEF ProcStart, sweep
    <2>2. \A t \in Task : /\ row'[t].stale = row[t].stale
                          /\ row'[t].status = sweptStatus(t, ProcNode[p])
      BY <1>r, <2>1 DEF Row
    <2>3. \A t \in Task :
            \/ sweptStatus(t, ProcNode[p]) = row[t].status
            \/ /\ row[t].status = "running" /\ row[t].stale
               /\ sweptStatus(t, ProcNode[p]) \in {"queued", "failed"}
            \/ /\ row[t].status = "awaiting-input"
               /\ sweptStatus(t, ProcNode[p]) = "timeout"
      BY DEF sweptStatus, sweepRequeues, sweepFails, sweepExpires
    <2> QED
      BY <2>1, <2>2, <2>3 DEF Sweeps
  <1>6. ASSUME NEW p \in Proc, ProcStop(p) PROVE Keeps
    BY <1>6 DEF ProcStop, Keeps, storeVars
  <1>7. ASSUME NEW p \in Proc, ProcCrash(p) PROVE Crashes(p)
    BY <1>7 DEF ProcCrash, Crashes, storeVars
  <1>8. ASSUME NEW t \in Task, HeartbeatLapse(t) PROVE Keeps
    <2>1. /\ worker' = worker /\ ~ IsExecuted(t)
          /\ row' = [row EXCEPT ![t].stale = TRUE]
      BY <1>8 DEF HeartbeatLapse, engineVars
    <2> QED
      BY <1>r, <2>1 DEF Keeps, Row
  <1>9. ASSUME NEW w \in Worker, Heartbeat(w) PROVE Keeps
    <2>1. worker' = worker /\ row' = [row EXCEPT ![worker[w].task].stale = FALSE]
      BY <1>9 DEF Heartbeat, heartbeat, engineVars
    <2> QED
      BY <1>r, <2>1 DEF Keeps, Row
  <1>10. CASE Client
    BY <1>1, <1>2, <1>3, <1>4, <1>10 DEF Client
  <1>11. CASE Process
    BY <1>5, <1>6, <1>7, <1>11 DEF Process
  <1>12. CASE Clock
    BY <1>8, <1>9, <1>12 DEF Clock
  <1> QED
    BY <1>10, <1>11, <1>12

LEMMA OtherExec ==
  ASSUME ExecInv, TypeInv', ~ HeartbeatStalls, Client \/ Process \/ Clock
  PROVE  ExecInv'
  <1>1. ASSUME worker' = worker, NEW w \in Worker, NEW t \in Task
        PROVE  Executes(w, t)' <=> Executes(w, t)
    BY <1>1 DEF Executes
  <1>2. ASSUME NEW u \in Task, Submits(u) PROVE ExecInv'
    <2>1. \A w \in Worker : ~ Executes(w, u)
      BY <1>2 DEF ExecInv, Owned, Submits
    <2> QED
      BY <1>1, <1>2, <2>1, ExecFrame DEF Submits, Owned
  <1>3. ASSUME NEW u \in Task, Cancels(u) PROVE ExecInv'
    BY <1>1, <1>3, ExecFrame DEF Cancels, Owned
  <1>4. CASE Keeps
    BY <1>1, <1>4, ExecFrame DEF Keeps, Owned, IsExecuted
  <1>5. CASE Sweeps
    BY <1>1, <1>5, ExecFrame DEF Sweeps, Owned
  <1>6. ASSUME NEW p \in Proc, Crashes(p) PROVE ExecInv'
    <2>1. ASSUME NEW w \in Worker, NEW t \in Task, Executes(w, t)' PROVE Executes(w, t)
      BY <1>6, <2>1, IdleExecutesNothing DEF Crashes, Executes
    <2> QED
      BY <1>6, <2>1, ExecFrame DEF Crashes, Owned
  <1> QED
    BY <1>2, <1>3, <1>4, <1>5, <1>6, OtherKinds DEF ExecInv

LEMMA ExecStep ==
  ASSUME ~ HeartbeatStalls, ~ LostReplies
  PROVE  ExecInv /\ [Next]_vars => ExecInv'
  <1> SUFFICES ASSUME ExecInv, [Next]_vars PROVE ExecInv'
    OBVIOUS
  <1>1. TypeInv'
    BY TypeStep DEF ExecInv
  <1>2. CASE UNCHANGED vars
    <2>1. row' = row /\ worker' = worker
      BY <1>2 DEF vars, storeVars, engineVars
    <2> QED
      BY <1>1, <2>1, ExecFrame DEF Owned, Executes
  <1> QED
    BY <1>1, <1>2, WorkerExec, OtherExec DEF Next

-----------------------------------------------------------------------------
\* The refinement mapping: who owns a row, and what each kind of step does to
\* the mapped state.
StatusMap == [t \in Task |-> row[t].status]
OwnerMap  == [t \in Task |-> Owner(t)]

LEMMA OwnerIs ==
  ASSUME ExecInv, NEW t \in Task
  PROVE  /\ \A w \in Worker : Owner(t) = w <=> Executes(w, t)
         /\ Owner(t) = "no owner" <=> ~ IsExecuted(t)
  <1>1. CASE IsExecuted(t)
    <2>1. Owner(t) \in Worker /\ Executes(Owner(t), t)
      BY <1>1 DEF Owner, IsExecuted
    <2> QED
      BY <1>1, <2>1, EngineAssumption DEF ExecInv
  <1>2. CASE ~ IsExecuted(t)
    BY <1>2, EngineAssumption DEF Owner, IsExecuted
  <1> QED
    BY <1>1, <1>2

LEMMA OwnerIsNext ==
  ASSUME ExecInv', NEW t \in Task
  PROVE  /\ \A w \in Worker : Owner(t)' = w <=> Executes(w, t)'
         /\ Owner(t)' = "no owner" <=> ~ IsExecuted(t)'
  <1>1. CASE IsExecuted(t)'
    <2>1. Owner(t)' \in Worker /\ Executes(Owner(t), t)'
      BY <1>1 DEF Owner, IsExecuted
    <2> QED
      BY <1>1, <2>1, EngineAssumption DEF ExecInv
  <1>2. CASE ~ IsExecuted(t)'
    BY <1>2, EngineAssumption DEF Owner, IsExecuted
  <1> QED
    BY <1>1, <1>2

\* Owners follow from who executes what.
LEMMA OwnerKept ==
  ASSUME ExecInv, ExecInv', NEW t \in Task,
         \A v \in Worker : Executes(v, t)' <=> Executes(v, t)
  PROVE  Owner(t)' = Owner(t)
  <1>1. CASE IsExecuted(t)
    <2>1. PICK v \in Worker : Executes(v, t)
      BY <1>1 DEF IsExecuted
    <2> QED
      BY <2>1, OwnerIs, OwnerIsNext
  <1>2. CASE ~ IsExecuted(t)
    <2>1. ~ IsExecuted(t)'
      BY <1>2 DEF IsExecuted
    <2> QED
      BY <1>2, <2>1, OwnerIs, OwnerIsNext
  <1> QED
    BY <1>1, <1>2

LEMMA OwnersKept ==
  ASSUME ExecInv, ExecInv', worker' = worker
  PROVE  OwnerMap' = OwnerMap
  <1>1. ASSUME NEW t \in Task PROVE Owner(t)' = Owner(t)
    BY OwnerKept DEF Executes
  <1> QED
    BY <1>1 DEF OwnerMap

LEMMA OwnerReturned ==
  ASSUME ExecInv, ExecInv', NEW w \in Worker, NEW u \in Task, Executes(w, u), Return(w)
  PROVE  OwnerMap' = [OwnerMap EXCEPT ![u] = "no owner"]
  <1>1. \A v \in Worker, t \in Task : Executes(v, t)' <=> Executes(v, t) /\ v # w
    BY ReturnExecutes DEF ExecInv
  <1>2. Owner(u)' = "no owner"
    <2>1. \A v \in Worker : ~ Executes(v, u)'
      BY <1>1 DEF ExecInv
    <2>2. ~ IsExecuted(u)'
      BY <2>1 DEF IsExecuted
    <2> QED
      BY <2>2, OwnerIsNext
  <1>3. ASSUME NEW t \in Task, t # u PROVE Owner(t)' = Owner(t)
    <2>1. ~ Executes(w, t)
      BY <1>3 DEF Executes
    <2> QED
      BY <1>1, <2>1, OwnerKept
  <1> QED
    BY <1>2, <1>3 DEF OwnerMap

LEMMA StatusMoves ==
  ASSUME ExecInv, NEW u \in Task, \A t \in Task : t # u => row'[t] = row[t]
  PROVE  StatusMap' = [StatusMap EXCEPT ![u] = row'[u].status]
  BY DEF StatusMap

LEMMA MappedState ==
  /\ Lifecycle!lifecycleVars = <<StatusMap, OwnerMap>>
  /\ Lifecycle!NoOwner = "no owner" /\ Lifecycle!Terminal = Terminal
  /\ Lifecycle!Open = Open /\ Lifecycle!Status = Status
  BY DEF Lifecycle!lifecycleVars, Lifecycle!NoOwner, Lifecycle!Terminal, Lifecycle!Open,
     Lifecycle!Status, Terminal, Open, Status, StatusMap, OwnerMap

LEMMA InitMaps == Init => Lifecycle!LifecycleInit
  <1> SUFFICES ASSUME Init PROVE Lifecycle!LifecycleInit
    OBVIOUS
  <1>1. ExecInv
    BY ExecInit
  <1>2. \A t \in Task : ~ IsExecuted(t)
    BY IdleExecutesNothing DEF Init, IsExecuted, Executes
  <1>3. \A t \in Task : Owner(t) = "no owner"
    BY <1>1, <1>2, OwnerIs
  <1>4. \A t \in Task : row[t].status = "absent"
    BY DEF Init, StoreInit, NoRow
  <1> QED
    BY <1>3, <1>4 DEF Lifecycle!LifecycleInit, Lifecycle!NoOwner

\* Steps that take, keep, leave or give up the lease.
LEMMA TakeMaps ==
  ASSUME ExecInv, ExecInv', NEW w \in Worker, NEW u \in Task, Takes(w, u)
  PROVE  Lifecycle!Acquire(u, w)
  <1>1. /\ row[u].status \in {"queued", "awaiting-input"} /\ claim(u, NodeOf(w))
        /\ worker[w].pc \notin Executing
    BY DEF Takes, claimAllowed
  <1>2. ~ IsExecuted(u) /\ \A t \in Task : ~ Executes(w, t)
    BY <1>1 DEF IsExecuted, ExecInv, Owned, Executes
  <1>3. /\ row'[u].status = "running" /\ \A t \in Task : t # u => row'[t] = row[t]
    <2> DEFINE k == row[u].attempt + 1
    <2>1. row' = [row EXCEPT ![u] = [row[u] EXCEPT
                    !.status = "running", !.stale = FALSE,
                    !.claimedBy = NodeOf(w), !.attempt = k]]
      BY <1>1 DEF claim
    <2> HIDE DEF k
    <2> QED
      BY <2>1 DEF ExecInv, TypeInv, TypeOK, StoreTypeOK, Row
  <1>4. StatusMap' = [StatusMap EXCEPT ![u] = "running"]
    BY <1>3, StatusMoves
  <1>5. \A v \in Worker, t \in Task :
          Executes(v, t)' <=> Executes(v, t) \/ (v = w /\ t = u)
    BY TakesExecutes DEF ExecInv
  <1>6. Owner(u)' = w
    BY <1>5, OwnerIsNext
  <1>7. ASSUME NEW t \in Task, t # u PROVE Owner(t)' = Owner(t)
    BY <1>5, <1>7, OwnerKept
  <1>8. OwnerMap' = [OwnerMap EXCEPT ![u] = w]
    BY <1>6, <1>7 DEF OwnerMap
  <1>9. Owner(u) = "no owner" /\ \A t \in Task : Owner(t) # w
    BY <1>2, OwnerIs
  <1> QED
    BY <1>1, <1>4, <1>8, <1>9 DEF Lifecycle!Acquire, Lifecycle!NoOwner, StatusMap, OwnerMap

LEMMA EndMaps ==
  ASSUME ExecInv, ExecInv', NEW w \in Worker, NEW u \in Task, Executes(w, u), Ends(w, u)
  PROVE  \E e \in Terminal : Lifecycle!Conclude(u, e)
  <1>1. PICK e \in Terminal : finish(u, e)
    BY DEF Ends
  <1>2. row'[u].status = e /\ \A t \in Task : t # u => row'[t] = row[t]
    BY <1>1 DEF finish, ExecInv, TypeInv, TypeOK, StoreTypeOK, Row
  <1>3. StatusMap' = [StatusMap EXCEPT ![u] = e]
    BY <1>2, StatusMoves
  <1>4. OwnerMap' = [OwnerMap EXCEPT ![u] = "no owner"]
    BY OwnerReturned DEF Ends
  <1>5. Owner(u) # "no owner"
    BY OwnerIs DEF IsExecuted
  <1> QED
    BY <1>3, <1>4, <1>5, MappedState DEF Lifecycle!Conclude, StatusMap, OwnerMap

LEMMA ParkMaps ==
  ASSUME ExecInv, ExecInv', NEW w \in Worker, NEW u \in Task, Executes(w, u), Parks(w, u)
  PROVE  Lifecycle!Park(u)
  <1>1. row[u].status = "running" /\ markAwaitingInput(u)
    BY DEF Parks, parkAllowed
  <1>2. row'[u].status = "awaiting-input" /\ \A t \in Task : t # u => row'[t] = row[t]
    BY <1>1 DEF markAwaitingInput, ExecInv, TypeInv, TypeOK, StoreTypeOK, Row
  <1>3. StatusMap' = [StatusMap EXCEPT ![u] = "awaiting-input"]
    BY <1>2, StatusMoves
  <1>4. OwnerMap' = [OwnerMap EXCEPT ![u] = "no owner"]
    BY OwnerReturned DEF Parks
  <1>5. Owner(u) # "no owner"
    BY OwnerIs DEF IsExecuted
  <1> QED
    BY <1>1, <1>3, <1>4, <1>5 DEF Lifecycle!Park, Lifecycle!NoOwner, StatusMap, OwnerMap

LEMMA AbandonMaps ==
  ASSUME ExecInv, ExecInv', NEW W \in SUBSET Worker, row' = row,
         \A v \in Worker, t \in Task : Executes(v, t)' <=> Executes(v, t) /\ v \notin W
  PROVE  Lifecycle!Abandon(W)
  <1>1. StatusMap' = StatusMap
    BY DEF StatusMap
  <1>2. ASSUME NEW t \in Task
        PROVE  Owner(t)' = IF Owner(t) \in W THEN "no owner" ELSE Owner(t)
    <2>1. CASE Owner(t) \in W
      <3>1. Executes(Owner(t), t) /\ Owner(t) \in Worker
        BY <2>1, OwnerIs
      <3>2. \A v \in Worker : ~ Executes(v, t)'
        BY <2>1, <3>1 DEF ExecInv
      <3>3. ~ IsExecuted(t)'
        BY <3>2 DEF IsExecuted
      <3> QED
        BY <2>1, <3>3, OwnerIsNext
    <2>2. CASE Owner(t) \notin W
      <3>1. \A v \in Worker : Executes(v, t) => v \notin W
        BY <2>2, OwnerIs
      <3>2. \A v \in Worker : Executes(v, t)' <=> Executes(v, t)
        BY <3>1
      <3> QED
        BY <2>2, <3>2, OwnerKept
    <2> QED
      BY <2>1, <2>2
  <1> QED
    BY <1>1, <1>2 DEF Lifecycle!Abandon, Lifecycle!NoOwner, StatusMap, OwnerMap

LEMMA WorkerMaps ==
  ASSUME ExecInv, ExecInv', ~ LostReplies, NEW w \in Worker, Handler(w) \/ Fault(w)
  PROVE  Lifecycle!LifecycleNext \/ UNCHANGED <<StatusMap, OwnerMap>>
  <1>1. CASE Prepares(w)
    <2>1. StatusMap' = StatusMap
      BY <1>1 DEF Prepares, StatusMap
    <2>2. ASSUME NEW t \in Task PROVE Owner(t)' = Owner(t)
      BY <1>1, PreparesExecutes, OwnerKept DEF ExecInv
    <2> QED
      BY <2>1, <2>2 DEF OwnerMap
  <1>2. ASSUME NEW u \in Task, Takes(w, u) PROVE Lifecycle!LifecycleNext
    BY <1>2, TakeMaps DEF Lifecycle!LifecycleNext
  <1>3. ASSUME NEW u \in Task, Executes(w, u), Ends(w, u) PROVE Lifecycle!LifecycleNext
    BY <1>3, EndMaps, MappedState DEF Lifecycle!LifecycleNext
  <1>4. ASSUME NEW u \in Task, Executes(w, u), Parks(w, u) PROVE Lifecycle!LifecycleNext
    BY <1>4, ParkMaps DEF Lifecycle!LifecycleNext
  <1>5. ASSUME NEW u \in Task, Executes(w, u), GivesUp(w) PROVE Lifecycle!LifecycleNext
    <2>1. \A v \in Worker, t \in Task : Executes(v, t)' <=> Executes(v, t) /\ v \notin {w}
      BY <1>5, ReturnExecutes DEF GivesUp, ExecInv
    <2>2. Lifecycle!Abandon({w})
      BY <1>5, <2>1, AbandonMaps DEF GivesUp
    <2> QED
      BY <2>2 DEF Lifecycle!LifecycleNext
  <1>6. ASSUME NEW u \in Task, Executes(w, u), GoesOn(w, u)
        PROVE  UNCHANGED <<StatusMap, OwnerMap>>
    <2>1. \A t \in Task : row'[t].status = row[t].status
      BY <1>6 DEF GoesOn
    <2>2. ASSUME NEW t \in Task PROVE Owner(t)' = Owner(t)
      BY <1>6, GoesOnExecutes, OwnerKept DEF ExecInv
    <2> QED
      BY <2>1, <2>2 DEF StatusMap, OwnerMap
  <1> QED
    BY <1>1, <1>2, <1>3, <1>4, <1>5, <1>6, WorkerKinds DEF ExecInv

LEMMA OtherMaps ==
  ASSUME ExecInv, ExecInv', ~ HeartbeatStalls, Client \/ Process \/ Clock
  PROVE  Lifecycle!LifecycleNext \/ UNCHANGED <<StatusMap, OwnerMap>>
  <1>1. CASE Keeps
    BY <1>1, OwnersKept DEF Keeps, StatusMap
  <1>2. CASE Sweeps
    <2>1. OwnerMap' = OwnerMap
      BY <1>2, OwnersKept DEF Sweeps
    <2>2. \A t \in Task : Owner(t) # "no owner" => row'[t].status = row[t].status
      BY <1>2, OwnerIs DEF Sweeps, ExecInv, Owned, IsExecuted
    <2>3. \A t \in Task : row'[t].status \in Status
      BY DEF ExecInv, TypeInv, TypeOK, StoreTypeOK, Row
    <2>4. Lifecycle!Recover
      <3>1. StatusMap' \in [Task -> Status]
        BY <2>3 DEF StatusMap
      <3>2. \A t \in Task : row'[t].status # row[t].status =>
              /\ Owner(t) = "no owner"
              /\ \/ row[t].status = "running" /\ row'[t].status \in {"queued", "failed"}
                 \/ row[t].status = "awaiting-input" /\ row'[t].status = "timeout"
        BY <1>2, <2>2 DEF Sweeps
      <3> QED
        BY <2>1, <3>1, <3>2, MappedState DEF Lifecycle!Recover, StatusMap, OwnerMap
    <2> QED
      BY <2>4 DEF Lifecycle!LifecycleNext
  <1>3. ASSUME NEW u \in Task, Submits(u) PROVE Lifecycle!LifecycleNext
    <2>1. OwnerMap' = OwnerMap /\ StatusMap' = [StatusMap EXCEPT ![u] = "queued"]
      BY <1>3, OwnersKept, StatusMoves DEF Submits
    <2>2. Lifecycle!Submit(u)
      BY <1>3, <2>1 DEF Submits, Lifecycle!Submit, StatusMap, OwnerMap
    <2> QED
      BY <2>2 DEF Lifecycle!LifecycleNext
  <1>4. ASSUME NEW u \in Task, Cancels(u) PROVE Lifecycle!LifecycleNext
    <2>1. OwnerMap' = OwnerMap /\ StatusMap' = [StatusMap EXCEPT ![u] = "killed"]
      BY <1>4, OwnersKept, StatusMoves DEF Cancels
    <2>2. Lifecycle!Cancel(u)
      BY <1>4, <2>1, MappedState DEF Cancels, Lifecycle!Cancel, StatusMap, OwnerMap
    <2> QED
      BY <2>2 DEF Lifecycle!LifecycleNext
  <1>5. ASSUME NEW p \in Proc, Crashes(p) PROVE Lifecycle!LifecycleNext
    <2> DEFINE W == {w \in Worker : WorkerProc[w] = p}
    <2>1. \A v \in Worker, t \in Task : Executes(v, t)' <=> Executes(v, t) /\ v \notin W
      BY <1>5, IdleExecutesNothing DEF Crashes, Executes
    <2>2. Lifecycle!Abandon(W)
      BY <1>5, <2>1, AbandonMaps DEF Crashes
    <2> QED
      BY <2>2 DEF Lifecycle!LifecycleNext
  <1> QED
    BY <1>1, <1>2, <1>3, <1>4, <1>5, OtherKinds DEF ExecInv

\* The engine implements the lifecycle: where heartbeats arrive within the sweep
\* window and no statement commits without its reply, every step of the clients,
\* processes, handlers and faults is a step of TaskLifecycle or leaves its state
\* alone, for any number of overlapping processes and any crashes and failures.
THEOREM Implements ==
  ~ HeartbeatStalls /\ ~ LostReplies /\ Spec => ImplementsLifecycle
  <1> SUFFICES ASSUME ~ HeartbeatStalls, ~ LostReplies PROVE Spec => ImplementsLifecycle
    OBVIOUS
  <1>1. ExecInv /\ [Next]_vars => ExecInv'
    BY ExecStep
  <1>2. ExecInv /\ ExecInv' /\ [Next]_vars
          => [Lifecycle!LifecycleNext]_(Lifecycle!lifecycleVars)
    <2> SUFFICES ASSUME ExecInv, ExecInv', [Next]_vars
                 PROVE  Lifecycle!LifecycleNext \/ UNCHANGED <<StatusMap, OwnerMap>>
      BY MappedState DEF Lifecycle!lifecycleVars, StatusMap, OwnerMap
    <2>1. CASE UNCHANGED vars
      <3>1. row' = row /\ worker' = worker
        BY <2>1 DEF vars, storeVars, engineVars
      <3> QED
        BY <3>1, OwnersKept DEF StatusMap
    <2> QED
      BY <2>1, WorkerMaps, OtherMaps DEF Next
  <1> QED
    BY <1>1, <1>2, ExecInit, InitMaps, PTL DEF Spec, ImplementsLifecycle,
       Lifecycle!LifecycleSpec
=============================================================================
