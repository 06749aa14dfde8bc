--------------------------- MODULE TaskWaitsProofs ---------------------------
(***************************************************************************)
(* Theorems about TaskWaits, for any number of tasks, slots and calls and  *)
(* any bound on failing calls.                                             *)
(***************************************************************************)
EXTENDS TaskWaits, TLAPS

Job(s)    == <<s, "job">>
Inline(s) == <<s, "inline">>

\* The handler of a child runs while its parent's handler waits for it, and
\* only then; only rows that are evaluated have children.
FrameInv ==
  /\ \A h \in Handler : hand[h].pc # "idle" => hand[h].task \in Task
  /\ \A s \in Slot :
       /\ At(Inline(s), "idle") <=> ~ At(Job(s), "inline")
       /\ At(Job(s), "inline") => hand[Inline(s)].task = ChildOf(s)
       /\ hand[Inline(s)].pc \in {"idle", "claim", "run", "discard", "finish"}
       /\ hand[Job(s)].pc \in {"child", "inline", "look", "wait", "kill", "record", "rewrite"}
            => hand[Job(s)].task \in Evaluable

\* A running row has one handler that drives it, and a driven row was killed at most.
LeaseInv ==
  /\ \A t \in Task : row[t].status # "awaiting-input"
  /\ \A t \in Task : row[t].status = "running" => \E h \in Handler : Drives(h, t)
  /\ \A h \in Handler, t \in Task : Drives(h, t) => row[t].status \in {"running", "killed"}
  /\ \A h, i \in Handler, t \in Task : Drives(h, t) /\ Drives(i, t) => h = i

\* Once the parent looks at its child again, the child was claimed or left to the queue.
ChildInv ==
  \A s \in Slot :
    /\ At(Job(s), "inline") => row[ChildOf(s)].status # "absent"
    /\ hand[Job(s)].pc \in {"look", "wait", "kill", "record"} =>
         \/ row[ChildOf(s)].status \in {"running"} \cup Terminal
         \/ ChildOf(s) \in dropped

\* No row that is evaluated completes without a verdict, but for those a verdict of
\* which could not be written.
Judged(t) == row[t].eval # "none" \/ t \in unwritten

JudgeInv ==
  /\ \A s \in Slot : hand[Job(s)].pc \in {"kill", "record", "rewrite"} => mark[s] # "none"
  /\ \A h \in Handler :
       At(h, "finish") /\ hand[h].verdict = "completed" /\ hand[h].task \in Evaluable
         => Judged(hand[h].task)
  /\ \A t \in Evaluable : row[t].status = "completed" => Judged(t)

\* What a call of wait() saw of a row that had ended still holds of the row.
WaitOk(w) ==
  /\ wait[w].pc # "none" => wait[w].task \in Task
  /\ wait[w].saw \in Terminal =>
       /\ wait[w].pc # "none"
       /\ row[wait[w].task].status \in Terminal
       /\ wait[w].saw = "completed" => row[wait[w].task].status = "completed"
  /\ wait[w].saw = "error" => StoreFails
  /\ wait[w].pc = "ended" => wait[w].saw # "open"

WaitInv == \A w \in Waiter : WaitOk(w)

\* A call waits for its own row, which exists, and has ended when the call has killed it.
CallOk(c) ==
  /\ client[c] \in {"wait", "kill", "after"} =>
       /\ wait[c].pc # "none" /\ wait[c].task = RowFor[c]
       /\ row[RowFor[c]].status # "absent"
  /\ client[c] \in {"kill", "after"} => wait[c].pc = "ended" /\ wait[c].saw \in Gone
  /\ client[c] = "after" => row[RowFor[c]].status \in Terminal
  /\ c \in Owner /\ client[c] = "done" => StoreFails \/ row[RowFor[c]].status \in Terminal
  /\ answer[c] = "completed" => row[RowFor[c]].status = "completed"

CallInv == \A c \in Client : CallOk(c)

HandInv == FrameInv /\ LeaseInv /\ ChildInv /\ JudgeInv
IInv    == TypeOK /\ HandInv /\ WaitInv /\ CallInv
-----------------------------------------------------------------------------
LEMMA Words ==
  /\ Terminal \subseteq Status /\ Open \subseteq Status
  /\ \A s \in Status : s \in {"absent", "queued", "awaiting-input", "running"} \/ s \in Terminal
  /\ \A s \in Terminal : s \notin {"absent", "queued", "awaiting-input", "running"}
  /\ {"completed", "failed", "killed"} \subseteq Terminal
  /\ \A s \in Open : s \in {"queued", "awaiting-input", "running"}
  /\ {"absent", "queued", "running"} \subseteq Status
  BY DEF Status, Terminal, Open

LEMMA SlotHandlers ==
  /\ \A s \in Slot : Job(s) \in Handler /\ Inline(s) \in Handler /\ Job(s) # Inline(s)
  /\ \A h \in Handler : h[1] \in Slot /\ (h = Job(h[1]) \/ h = Inline(h[1]))
  /\ \A s \in Slot : Job(s)[1] = s /\ Job(s)[2] = "job" /\ Inline(s)[1] = s /\ Inline(s)[2] = "inline"
  /\ \A s \in Slot : Outer(Inline(s)) = Job(s)
  /\ \A s, u \in Slot : /\ Job(s) = Job(u) => s = u
                        /\ Inline(s) = Inline(u) => s = u
                        /\ Job(s) # Inline(u)
  <1>1. \A s \in Slot : Job(s) \in Handler /\ Inline(s) \in Handler /\ Job(s) # Inline(s)
    BY DEF Handler, Job, Inline
  <1>2. \A h \in Handler : h[1] \in Slot /\ (h = Job(h[1]) \/ h = Inline(h[1]))
    BY DEF Handler, Job, Inline
  <1>3. \A s \in Slot : /\ Job(s)[1] = s /\ Job(s)[2] = "job"
                       /\ Inline(s)[1] = s /\ Inline(s)[2] = "inline"
    BY DEF Job, Inline
  <1>4. \A s \in Slot : Outer(Inline(s)) = Job(s)
    BY DEF Job, Inline, Outer
  <1>5. \A s, u \in Slot : /\ Job(s) = Job(u) => s = u
                          /\ Inline(s) = Inline(u) => s = u
                          /\ Job(s) # Inline(u)
    BY <1>3
  <1> QED
    BY <1>1, <1>2, <1>3, <1>4, <1>5

\* What the operations of the store do to the rows.
LEMMA RowTyped ==
  ASSUME NEW r \in Row, NEW s \in Status
  PROVE  /\ [r EXCEPT !.status = s] \in Row
         /\ \A n \in Node : [r EXCEPT !.status = s, !.stale = FALSE, !.claimedBy = n,
                                      !.attempt = r.attempt + 1] \in Row
         /\ [r EXCEPT !.status = s, !.pending = NoMessage] \in Row
         /\ \A e \in EvalMark : [r EXCEPT !.eval = e, !.evalAttempt = 0] \in Row
  <1>1. [r EXCEPT !.status = s] \in Row
    BY DEF Row
  <1>2. \A n \in Node : [r EXCEPT !.status = s, !.stale = FALSE, !.claimedBy = n,
                                 !.attempt = r.attempt + 1] \in Row
    <2> SUFFICES ASSUME NEW n \in Node
                 PROVE  [r EXCEPT !.status = s, !.stale = FALSE, !.claimedBy = n,
                                  !.attempt = r.attempt + 1] \in Row
      OBVIOUS
    <2>1. r.attempt + 1 \in Nat
      BY DEF Row
    <2> DEFINE k == r.attempt + 1
    <2>2. k \in Nat
      BY <2>1
    <2> HIDE DEF k
    <2>3. [r EXCEPT !.status = s, !.stale = FALSE, !.claimedBy = n, !.attempt = k] \in Row
      BY <2>2 DEF Row
    <2> QED
      BY <2>3 DEF k
  <1>3. [r EXCEPT !.status = s, !.pending = NoMessage] \in Row
    BY DEF Row
  <1>4. \A e \in EvalMark : [r EXCEPT !.eval = e, !.evalAttempt = 0] \in Row
    BY DEF Row
  <1> QED
    BY <1>1, <1>2, <1>3, <1>4

LEMMA NoRowTyped == NoRow \in Row /\ NoRow.eval = "none" /\ NoRow.status = "absent"
  BY DEF NoRow, Row, Status, Steer, EvalMark

\* Only the row of t changes, in its status and its verdict as given.
Becomes(t, status, eval) ==
  /\ row' \in [Task -> Row]
  /\ row'[t].status = status /\ row'[t].eval = eval
  /\ \A u \in Task : u # t => row'[u] = row[u]

LEMMA CreateRow ==
  ASSUME TypeOK, NEW t \in Task, create(t)
  PROVE  /\ Becomes(t, "queued", "none") /\ row[t].status = "absent"
         /\ job' \in [Task -> JobName]
  <1>1. row \in [Task -> Row] /\ job \in [Task -> JobName]
    BY DEF TypeOK, StoreTypeOK
  <1>2. [NoRow EXCEPT !.status = "queued"] \in Row
    BY NoRowTyped, RowTyped, Words
  <1>3. /\ [NoRow EXCEPT !.status = "queued"].status = "queued"
        /\ [NoRow EXCEPT !.status = "queued"].eval = "none"
    BY NoRowTyped DEF Row
  <1>4. JobNameOf(t) \in JobName
    BY StoreAssumption DEF JobNameOf, JobName
  <1>5. row' = [row EXCEPT ![t] = [NoRow EXCEPT !.status = "queued"]]
    BY DEF create
  <1>6. Becomes(t, "queued", "none")
    BY <1>1, <1>2, <1>3, <1>5 DEF Becomes
  <1> QED
    BY <1>1, <1>4, <1>6 DEF create, addJob

LEMMA ClaimedRow ==
  ASSUME TypeOK, NEW t \in Task, claim(t, Here)
  PROVE  Becomes(t, "running", row[t].eval)
  <1>1. row \in [Task -> Row] /\ row[t] \in Row /\ Here \in Node
    BY WaitsAssumption DEF TypeOK, StoreTypeOK
  <1> DEFINE r == [row[t] EXCEPT !.status = "running", !.stale = FALSE, !.claimedBy = Here,
                                 !.attempt = row[t].attempt + 1]
  <1>2. r \in Row
    BY <1>1, RowTyped, Words
  <1>3. r.status = "running" /\ r.eval = row[t].eval
    BY <1>1 DEF Row
  <1>4. row' = [row EXCEPT ![t] = r]
    BY DEF claim
  <1> HIDE DEF r
  <1> QED
    BY <1>1, <1>2, <1>3, <1>4 DEF Becomes

LEMMA FinishedRow ==
  ASSUME TypeOK, NEW t \in Task, NEW s \in Terminal, finish(t, s)
  PROVE  Becomes(t, s, row[t].eval)
  <1>1. row \in [Task -> Row] /\ row[t] \in Row
    BY DEF TypeOK, StoreTypeOK
  <1> DEFINE r == [row[t] EXCEPT !.status = s, !.pending = NoMessage]
  <1>2. r \in Row
    BY <1>1, RowTyped, Words
  <1>3. r.status = s /\ r.eval = row[t].eval
    BY <1>1 DEF Row
  <1>4. row' = [row EXCEPT ![t] = r]
    BY DEF finish
  <1> HIDE DEF r
  <1> QED
    BY <1>1, <1>2, <1>3, <1>4 DEF Becomes

LEMMA KilledRow ==
  ASSUME TypeOK, NEW t \in Task, requestKill(t)
  PROVE  Becomes(t, "killed", row[t].eval) /\ row[t].status \in Open
  <1>1. row \in [Task -> Row] /\ row[t] \in Row
    BY DEF TypeOK, StoreTypeOK
  <1> DEFINE r == [row[t] EXCEPT !.status = "killed"]
  <1>2. r \in Row
    BY <1>1, RowTyped, Words
  <1>3. r.status = "killed" /\ r.eval = row[t].eval
    BY <1>1 DEF Row
  <1>4. row' = [row EXCEPT ![t] = r]
    BY DEF requestKill
  <1> HIDE DEF r
  <1> QED
    BY <1>1, <1>2, <1>3, <1>4 DEF Becomes, requestKill

LEMMA JudgedRow ==
  ASSUME TypeOK, NEW t \in Task, NEW e \in EvalMark, recordEval(t, e, 0)
  PROVE  Becomes(t, row[t].status, e)
  <1>1. row \in [Task -> Row] /\ row[t] \in Row
    BY DEF TypeOK, StoreTypeOK
  <1> DEFINE r == [row[t] EXCEPT !.eval = e, !.evalAttempt = 0]
  <1>2. r \in Row
    BY <1>1, RowTyped DEF Row
  <1>3. r.status = row[t].status /\ r.eval = e
    BY <1>1 DEF Row
  <1>4. row' = [row EXCEPT ![t] = r]
    BY DEF recordEval
  <1> HIDE DEF r
  <1> QED
    BY <1>1, <1>2, <1>3, <1>4 DEF Becomes

-----------------------------------------------------------------------------
\* What the handlers' moves do to hand.
LEMMA IdleTyped == IdleHand \in Hand /\ IdleHand.pc = "idle"
  BY DEF IdleHand, Hand, HandlerPC

LEMMA GoToEffect ==
  ASSUME TypeOK, NEW h \in Handler, NEW pc \in HandlerPC, GoTo(h, pc)
  PROVE  /\ hand' \in [Handler -> Hand]
         /\ hand'[h].pc = pc /\ hand'[h].task = hand[h].task
         /\ hand'[h].verdict = hand[h].verdict
         /\ \A i \in Handler : i # h => hand'[i] = hand[i]
  <1>1. hand \in [Handler -> Hand] /\ hand[h] \in Hand
    BY DEF TypeOK
  <1> DEFINE r == [hand[h] EXCEPT !.pc = pc]
  <1>2. r \in Hand /\ r.pc = pc /\ r.task = hand[h].task /\ r.verdict = hand[h].verdict
    BY <1>1 DEF Hand
  <1>3. hand' = [hand EXCEPT ![h] = r]
    BY DEF GoTo
  <1> HIDE DEF r
  <1> QED
    BY <1>1, <1>2, <1>3

LEMMA ReturnEffect ==
  ASSUME TypeOK, NEW h \in Handler, Return(h)
  PROVE  /\ hand' \in [Handler -> Hand]
         /\ hand'[h].pc = "idle"
         /\ \A s \in Slot : h = Job(s) => \A i \in Handler : i # h => hand'[i] = hand[i]
         /\ \A s \in Slot : h = Inline(s) =>
              /\ hand'[Job(s)].pc = "look" /\ hand'[Job(s)].task = hand[Job(s)].task
              /\ hand'[Job(s)].verdict = hand[Job(s)].verdict
              /\ \A i \in Handler : i \notin {h, Job(s)} => hand'[i] = hand[i]
  <1>1. hand \in [Handler -> Hand]
    BY DEF TypeOK
  <1>2. PICK s \in Slot : h = Job(s) \/ h = Inline(s)
    BY SlotHandlers
  <1>3. CASE h = Job(s)
    <2>1. hand' = [hand EXCEPT ![h] = IdleHand]
      BY <1>3, SlotHandlers DEF Return
    <2>2. \A u \in Slot : h # Inline(u)
      BY <1>3, SlotHandlers
    <2> QED
      BY <1>1, <2>1, <2>2, IdleTyped
  <1>4. CASE h = Inline(s)
    <2>1. Job(s) \in Handler /\ Job(s) # h /\ Outer(h) = Job(s) /\ h[2] # "job"
      BY <1>4, SlotHandlers
    <2> DEFINE r == [hand[Job(s)] EXCEPT !.pc = "look"]
    <2>2. hand[Job(s)] \in Hand
      BY <1>1, <2>1
    <2>3. /\ r \in Hand /\ r.pc = "look" /\ r.task = hand[Job(s)].task
          /\ r.verdict = hand[Job(s)].verdict
      BY <2>2 DEF Hand, HandlerPC
    <2>4. hand' = [hand EXCEPT ![h] = IdleHand, ![Job(s)].pc = "look"]
      BY <2>1 DEF Return
    <2>5. hand' = [[hand EXCEPT ![h] = IdleHand] EXCEPT ![Job(s)] = r]
      BY <1>1, <2>1, <2>4
    <2>6. \A u \in Slot : h # Job(u) /\ (h = Inline(u) => u = s)
      BY <1>4, SlotHandlers
    <2> HIDE DEF r
    <2> QED
      BY <1>1, <2>1, <2>3, <2>5, <2>6, IdleTyped
  <1> QED
    BY <1>2, <1>3, <1>4

LEMMA DequeueEffect ==
  ASSUME TypeOK, NEW s \in Slot, NEW t \in Task, Dequeue(s, t)
  PROVE  /\ hand' \in [Handler -> Hand] /\ job' \in [Task -> JobName]
         /\ hand[Job(s)].pc = "idle" /\ hand'[Job(s)].pc = "claim" /\ hand'[Job(s)].task = t
         /\ \A i \in Handler : i # Job(s) => hand'[i] = hand[i]
  <1>1. hand \in [Handler -> Hand] /\ Job(s) \in Handler /\ hand[Job(s)] \in Hand
    BY SlotHandlers DEF TypeOK
  <1> DEFINE r == [hand[Job(s)] EXCEPT !.pc = "claim", !.task = t]
  <1>2. r \in Hand /\ r.pc = "claim" /\ r.task = t
    BY <1>1 DEF Hand, HandlerPC
  <1>3. hand' = [hand EXCEPT ![Job(s)] = r]
    BY DEF Dequeue, Job
  <1>4. job' \in [Task -> JobName]
    BY DEF TypeOK, StoreTypeOK, Dequeue, JobName
  <1>5. hand[Job(s)].pc = "idle"
    BY DEF Dequeue, At, Job
  <1> HIDE DEF r
  <1> QED
    BY <1>1, <1>2, <1>3, <1>4, <1>5

LEMMA TurnEndEffect ==
  ASSUME TypeOK, NEW h \in Handler, TurnEnd(h)
  PROVE  /\ hand' \in [Handler -> Hand]
         /\ hand[h].pc = "run" /\ hand'[h].pc \in {"discard", "child", "finish"}
         /\ hand'[h].task = hand[h].task
         /\ hand'[h].pc = "child" => hand[h].task \in Evaluable
         /\ hand'[h].pc = "finish" =>
              \/ hand[h].task \notin Evaluable \/ hand'[h].verdict # "completed"
         /\ \A i \in Handler : i # h => hand'[i] = hand[i]
  <1>1. hand \in [Handler -> Hand] /\ hand[h] \in Hand /\ hand[h].pc = "run"
    BY DEF TypeOK, TurnEnd, At
  <1>2. PICK v \in {"completed", "failed"} : hand' = [hand EXCEPT ![h] =
         [@ EXCEPT !.verdict = v,
                   !.pc = IF row[hand[h].task].status = "killed" THEN "discard"
                          ELSE IF v = "completed" /\ hand[h].task \in Evaluable THEN "child"
                          ELSE "finish"]]
    BY DEF TurnEnd
  <1> DEFINE pc == IF row[hand[h].task].status = "killed" THEN "discard"
                   ELSE IF v = "completed" /\ hand[h].task \in Evaluable THEN "child"
                   ELSE "finish"
             r == [hand[h] EXCEPT !.verdict = v, !.pc = pc]
  <1>3. /\ pc \in {"discard", "child", "finish"}
        /\ pc = "child" => hand[h].task \in Evaluable
        /\ pc = "finish" => hand[h].task \notin Evaluable \/ v # "completed"
    OBVIOUS
  <1>4. hand' = [hand EXCEPT ![h] = r]
    BY <1>2
  <1> HIDE DEF pc
  <1>5. pc \in HandlerPC
    BY <1>3 DEF HandlerPC
  <1>6. r \in Hand /\ r.pc = pc /\ r.task = hand[h].task /\ r.verdict = v
    BY <1>1, <1>5 DEF Hand
  <1> HIDE DEF r
  <1> QED
    BY <1>1, <1>3, <1>4, <1>6

LEMMA SpawnEffect ==
  ASSUME TypeOK, FrameInv, NEW s \in Slot, Spawn(s)
  PROVE  /\ hand' \in [Handler -> Hand]
         /\ hand[Job(s)].pc = "child" /\ ChildOf(s) \in Task \ Evaluable /\ create(ChildOf(s))
         /\ hand'[Job(s)].pc = "inline" /\ hand'[Job(s)].task = hand[Job(s)].task
         /\ hand'[Job(s)].verdict = hand[Job(s)].verdict
         /\ hand'[Inline(s)].pc = "claim" /\ hand'[Inline(s)].task = ChildOf(s)
         /\ \A i \in Handler : i \notin {Job(s), Inline(s)} => hand'[i] = hand[i]
  <1>1. /\ hand \in [Handler -> Hand] /\ Job(s) \in Handler /\ Inline(s) \in Handler
        /\ Job(s) # Inline(s) /\ hand[Job(s)] \in Hand
    BY SlotHandlers DEF TypeOK
  <1>2. hand[Job(s)].pc = "child" /\ create(ChildOf(s))
    BY DEF Spawn, At, Job
  <1>3. ChildOf(s) \in Task \ Evaluable
    BY <1>2, WaitsAssumption DEF FrameInv, ChildOf, Job
  <1> DEFINE r == [hand[Job(s)] EXCEPT !.pc = "inline"]
             q == [IdleHand EXCEPT !.pc = "claim", !.task = ChildOf(s)]
  <1>4. /\ r \in Hand /\ r.pc = "inline" /\ r.task = hand[Job(s)].task
        /\ r.verdict = hand[Job(s)].verdict
    BY <1>1 DEF Hand, HandlerPC
  <1>5. q \in Hand /\ q.pc = "claim" /\ q.task = ChildOf(s)
    BY <1>3, IdleTyped DEF Hand, HandlerPC
  <1>6. hand' = [[hand EXCEPT ![Job(s)] = r] EXCEPT ![Inline(s)] = q]
    <2> HIDE DEF q
    <2>1. hand' = [hand EXCEPT ![Job(s)].pc = "inline", ![Inline(s)] = q]
      BY DEF Spawn, Job, Inline, q
    <2> QED
      BY <1>1, <2>1
  <1> HIDE DEF r, q
  <1> QED
    BY <1>1, <1>2, <1>3, <1>4, <1>5, <1>6

-----------------------------------------------------------------------------
\* What the moves of wait() do to wait and wakeups.
Got == Terminal \cup Gone \cup {"error"}

LEMMA WaitTyped ==
  ASSUME NEW r \in Wait
  PROVE  /\ \A got \in Got : LET q == [r EXCEPT !.pc = "ended", !.set = NoSet, !.saw = got]
                             IN  q \in Wait /\ q.pc = "ended" /\ q.saw = got /\ q.task = r.task
         /\ \A pc \in {"read", "asleep"} : LET q == [r EXCEPT !.pc = pc]
                             IN  q \in Wait /\ q.pc = pc /\ q.saw = r.saw /\ q.task = r.task
         /\ \A saw \in Terminal \cup {"open"} : LET q == [r EXCEPT !.pc = "decide", !.saw = saw]
                             IN  q \in Wait /\ q.pc = "decide" /\ q.saw = saw /\ q.task = r.task
  <1>1. \A got \in Got : LET q == [r EXCEPT !.pc = "ended", !.set = NoSet, !.saw = got]
                         IN  q \in Wait /\ q.pc = "ended" /\ q.saw = got /\ q.task = r.task
    BY DEF Wait, Got
  <1>2. \A pc \in {"read", "asleep"} : LET q == [r EXCEPT !.pc = pc]
                             IN  q \in Wait /\ q.pc = pc /\ q.saw = r.saw /\ q.task = r.task
    BY DEF Wait
  <1>3. \A saw \in Terminal \cup {"open"} : LET q == [r EXCEPT !.pc = "decide", !.saw = saw]
                             IN  q \in Wait /\ q.pc = "decide" /\ q.saw = saw /\ q.task = r.task
    BY DEF Wait
  <1> QED
    BY <1>1, <1>2, <1>3

LEMMA NoWaitTyped == NoWait \in Wait /\ NoWait.pc = "none" /\ NoWait.saw = "open"
  BY DEF NoWait, Wait

LEMMA WaitWords ==
  /\ "open" \notin Terminal \cup Gone /\ "error" \notin Terminal \cup Gone
  /\ "completed" \notin Gone /\ {"stopped", "deadline"} \subseteq Gone
  /\ Terminal \cap Gone = {} /\ Terminal \subseteq Got /\ Gone \subseteq Got /\ "error" \in Got
  BY DEF Terminal, Gone, Got

LEMMA EndEffect ==
  ASSUME TypeOK, NEW w \in Waiter, NEW got \in Got, End(w, got)
  PROVE  /\ wait' \in [Waiter -> Wait] /\ wakeups' \in [Task -> Waiter \cup {NoSet}]
         /\ wait'[w].pc = "ended" /\ wait'[w].saw = got /\ wait'[w].task = wait[w].task
         /\ \A u \in Waiter : u # w => wait'[u] = wait[u]
  <1>1. wait \in [Waiter -> Wait] /\ wakeups \in [Task -> Waiter \cup {NoSet}] /\ wait[w] \in Wait
    BY DEF TypeOK
  <1> DEFINE r == [wait[w] EXCEPT !.pc = "ended", !.set = NoSet, !.saw = got]
  <1>2. r \in Wait /\ r.pc = "ended" /\ r.saw = got /\ r.task = wait[w].task
    BY <1>1, WaitTyped
  <1>3. wait' = [wait EXCEPT ![w] = r]
    BY DEF End
  <1>4. wakeups' \in [Task -> Waiter \cup {NoSet}]
    BY <1>1 DEF End
  <1> HIDE DEF r
  <1> QED
    BY <1>1, <1>2, <1>3, <1>4

LEMMA LoopEffect ==
  ASSUME TypeOK, NEW w \in Waiter, Loop(w)
  PROVE  /\ wait' \in [Waiter -> Wait] /\ wakeups' \in [Task -> Waiter \cup {NoSet}]
         /\ wait'[w].task = wait[w].task
         /\ \/ wait'[w].pc = "ended" /\ wait'[w].saw = "stopped"
            \/ wait'[w].pc = "read" /\ wait'[w].saw = wait[w].saw
         /\ \A u \in Waiter : u # w => wait'[u] = wait[u]
  <1>1. CASE Stopped
    <2>1. End(w, "stopped") /\ "stopped" \in Got
      BY <1>1, WaitWords DEF Loop
    <2> QED
      BY <2>1, EndEffect
  <1>2. CASE ~Stopped
    <2>1. wait \in [Waiter -> Wait] /\ wakeups \in [Task -> Waiter \cup {NoSet}] /\ wait[w] \in Wait
      BY DEF TypeOK
    <2> DEFINE r == [wait[w] EXCEPT !.pc = "read"]
    <2>2. r \in Wait /\ r.pc = "read" /\ r.saw = wait[w].saw /\ r.task = wait[w].task
      BY <2>1, WaitTyped
    <2>3. wait' = [wait EXCEPT ![w] = r] /\ wakeups' = wakeups
      BY <1>2 DEF Loop
    <2> HIDE DEF r
    <2> QED
      BY <2>1, <2>2, <2>3
  <1> QED
    BY <1>1, <1>2

LEMMA BeginEffect ==
  ASSUME TypeOK, NEW w \in Waiter, NEW t \in Task, Begin(w, t)
  PROVE  /\ wait' \in [Waiter -> Wait] /\ wakeups' \in [Task -> Waiter \cup {NoSet}]
         /\ listen' \in BOOLEAN
         /\ wait'[w].task = t
         /\ \/ wait'[w].pc = "ended" /\ wait'[w].saw = "stopped"
            \/ wait'[w].pc = "read" /\ wait'[w].saw = "open"
         /\ \A u \in Waiter : u # w => wait'[u] = wait[u]
  <1>1. wait \in [Waiter -> Wait] /\ wakeups \in [Task -> Waiter \cup {NoSet}] /\ listen \in BOOLEAN
    BY DEF TypeOK
  <1> DEFINE set == IF wakeups[t] = NoSet THEN w ELSE wakeups[t]
             r == IF Stopped THEN [pc |-> "ended", task |-> t, set |-> NoSet, saw |-> "stopped"]
                             ELSE [pc |-> "read", task |-> t, set |-> set, saw |-> "open"]
  <1>2. set \in Waiter
    BY <1>1
  <1>3. /\ wait' = [wait EXCEPT ![w] = r]
        /\ listen' \in IF listen \/ Stopped THEN {listen} ELSE BOOLEAN
        /\ wakeups' = IF ~ Stopped THEN [wakeups EXCEPT ![t] = set]
                      ELSE IF Asleep(t, set) = {} THEN [wakeups EXCEPT ![t] = NoSet] ELSE wakeups
    BY DEF Begin
  <1> HIDE DEF set
  <1>4. /\ r \in Wait /\ r.task = t
        /\ \/ r.pc = "ended" /\ r.saw = "stopped"
           \/ r.pc = "read" /\ r.saw = "open"
    BY <1>2 DEF Wait, Gone
  <1>5. wakeups' \in [Task -> Waiter \cup {NoSet}]
    BY <1>1, <1>2, <1>3
  <1>6. listen' \in BOOLEAN
    BY <1>1, <1>3
  <1> HIDE DEF r
  <1> QED
    BY <1>1, <1>3, <1>4, <1>5, <1>6

\* How a call of wait() may go on.
WaitMove(w) ==
  \/ wait'[w] = wait[w]
  \/ /\ wait[w].pc \in {"read", "decide", "asleep"}
     /\ wait'[w].pc # "none" /\ wait'[w].task = wait[w].task
     /\ \/ wait'[w].saw = wait[w].saw
        \/ wait'[w].saw \in Gone \cup {"open"}
        \/ wait'[w].saw = "error" /\ StoreFails
        \/ wait'[w].saw \in Terminal /\ row[wait[w].task].status = wait'[w].saw
     /\ wait'[w].pc = "ended" => wait'[w].saw # "open"

WaiterStep ==
  \/ \E w \in Waiter : WaitStep(w) \/ GiveUp(w) \/ ReadFails(w)
  \/ \E t \in Task : Deliver(t)
  \/ LoseListener \/ StopWaiter

LEMMA WaiterMoves ==
  ASSUME TypeOK, WaiterStep
  PROVE  /\ wait' \in [Waiter -> Wait] /\ wakeups' \in [Task -> Waiter \cup {NoSet}]
         /\ \A w \in Waiter : WaitMove(w)
  <1>0. wait \in [Waiter -> Wait] /\ wakeups \in [Task -> Waiter \cup {NoSet}]
    BY DEF TypeOK
  <1>1. ASSUME NEW w \in Waiter, Read(w)
        PROVE  /\ wait' \in [Waiter -> Wait] /\ wakeups' = wakeups
               /\ \A u \in Waiter : WaitMove(u)
    <2> DEFINE saw == IF row[wait[w].task].status \in Terminal
                      THEN row[wait[w].task].status ELSE "open"
               r == [wait[w] EXCEPT !.pc = "decide", !.saw = saw]
    <2>1. /\ saw \in Terminal \cup {"open"}
          /\ saw = "open" \/ (saw \in Terminal /\ row[wait[w].task].status = saw)
      OBVIOUS
    <2>2. wait[w].pc = "read" /\ wait' = [wait EXCEPT ![w] = r] /\ wakeups' = wakeups
      BY <1>1 DEF Read
    <2> HIDE DEF saw
    <2>3. r \in Wait /\ r.pc = "decide" /\ r.saw = saw /\ r.task = wait[w].task
      BY <1>0, <2>1, WaitTyped
    <2> HIDE DEF r
    <2> QED
      BY <1>0, <2>1, <2>2, <2>3 DEF WaitMove
  <1>2. ASSUME NEW w \in Waiter, Found(w)
        PROVE  /\ wait' \in [Waiter -> Wait] /\ wakeups' \in [Task -> Waiter \cup {NoSet}]
               /\ \A u \in Waiter : WaitMove(u)
    <2>1. wait[w].pc = "decide" /\ wait[w].saw \in Got /\ wait[w].saw # "open" /\ End(w, wait[w].saw)
      BY <1>2, WaitWords DEF Found
    <2> QED
      BY <2>1, EndEffect DEF WaitMove
  <1>3. ASSUME NEW w \in Waiter, Sleep(w)
        PROVE  /\ wait' \in [Waiter -> Wait] /\ wakeups' = wakeups
               /\ \A u \in Waiter : WaitMove(u)
    <2> DEFINE r == [wait[w] EXCEPT !.pc = "asleep"]
    <2>1. r \in Wait /\ r.pc = "asleep" /\ r.saw = wait[w].saw /\ r.task = wait[w].task
      BY <1>0, WaitTyped
    <2>2. wait[w].pc = "decide" /\ wait' = [wait EXCEPT ![w] = r] /\ wakeups' = wakeups
      BY <1>3 DEF Sleep
    <2> HIDE DEF r
    <2> QED
      BY <1>0, <2>1, <2>2 DEF WaitMove
  <1>4. ASSUME NEW w \in Waiter, Poll(w)
        PROVE  /\ wait' \in [Waiter -> Wait] /\ wakeups' \in [Task -> Waiter \cup {NoSet}]
               /\ \A u \in Waiter : WaitMove(u)
    <2>1. wait[w].pc = "asleep" /\ Loop(w)
      BY <1>4 DEF Poll
    <2> QED
      BY <2>1, LoopEffect, WaitWords DEF WaitMove
  <1>5. ASSUME NEW w \in Waiter, GiveUp(w)
        PROVE  /\ wait' \in [Waiter -> Wait] /\ wakeups' \in [Task -> Waiter \cup {NoSet}]
               /\ \A u \in Waiter : WaitMove(u)
    <2>1. wait[w].pc = "decide" /\ End(w, "deadline") /\ "deadline" \in Got
      BY <1>5, WaitWords DEF GiveUp
    <2> QED
      BY <2>1, EndEffect, WaitWords DEF WaitMove
  <1>6. ASSUME NEW w \in Waiter, ReadFails(w)
        PROVE  /\ wait' \in [Waiter -> Wait] /\ wakeups' \in [Task -> Waiter \cup {NoSet}]
               /\ \A u \in Waiter : WaitMove(u)
    <2>1. wait[w].pc = "read" /\ End(w, "error") /\ "error" \in Got /\ StoreFails
      BY <1>6, WaitWords DEF ReadFails
    <2> QED
      BY <2>1, EndEffect DEF WaitMove
  <1>7. ASSUME NEW t \in Task, Deliver(t)
        PROVE  /\ wait' \in [Waiter -> Wait] /\ wakeups' = wakeups
               /\ \A u \in Waiter : WaitMove(u)
    <2>1. /\ wait' = [u \in Waiter |-> IF u \in Asleep(t, wakeups[t])
                                       THEN [wait[u] EXCEPT !.pc = "read"] ELSE wait[u]]
          /\ wakeups' = wakeups
      BY <1>7 DEF Deliver
    <2>2. ASSUME NEW u \in Waiter PROVE wait'[u] \in Wait /\ WaitMove(u)
      <3>1. CASE u \in Asleep(t, wakeups[t])
        <4> DEFINE r == [wait[u] EXCEPT !.pc = "read"]
        <4>1. r \in Wait /\ r.pc = "read" /\ r.saw = wait[u].saw /\ r.task = wait[u].task
          BY <1>0, WaitTyped
        <4>2. wait'[u] = r /\ wait[u].pc = "asleep"
          BY <2>1, <3>1 DEF Asleep
        <4> HIDE DEF r
        <4> QED
          BY <4>1, <4>2 DEF WaitMove
      <3>2. CASE u \notin Asleep(t, wakeups[t])
        BY <1>0, <2>1, <3>2 DEF WaitMove
      <3> QED
        BY <3>1, <3>2
    <2> QED
      BY <2>1, <2>2
  <1>8. ASSUME LoseListener
        PROVE  /\ wait' \in [Waiter -> Wait] /\ wakeups' = wakeups
               /\ \A u \in Waiter : WaitMove(u)
    BY <1>0, <1>8 DEF LoseListener, WaitMove
  <1>9. ASSUME StopWaiter
        PROVE  /\ wait' \in [Waiter -> Wait] /\ wakeups' \in [Task -> Waiter \cup {NoSet}]
               /\ \A u \in Waiter : WaitMove(u)
    <2> DEFINE Woken == {u \in Waiter : \E t \in Task : u \in Asleep(t, wakeups[t])}
    <2>1. /\ wait' = [u \in Waiter |-> IF u \in Woken
             THEN [wait[u] EXCEPT !.pc = "ended", !.set = NoSet, !.saw = "stopped"] ELSE wait[u]]
          /\ wakeups' = [t \in Task |-> IF Asleep(t, wakeups[t]) = {} THEN wakeups[t] ELSE NoSet]
      BY <1>9 DEF StopWaiter
    <2>2. \A u \in Woken : u \in Waiter /\ wait[u].pc = "asleep"
      BY DEF Asleep
    <2> HIDE DEF Woken
    <2>3. ASSUME NEW u \in Waiter PROVE wait'[u] \in Wait /\ WaitMove(u)
      <3>1. CASE u \in Woken
        <4> DEFINE got == "stopped"
                   r   == [wait[u] EXCEPT !.pc = "ended", !.set = NoSet, !.saw = got]
        <4>0. got \in Got /\ wait[u] \in Wait /\ got \in Gone
          BY <1>0, WaitWords
        <4>3. wait'[u] = r
          BY <2>1, <2>2, <3>1
        <4> HIDE DEF got
        <4>1. r \in Wait /\ r.pc = "ended" /\ r.saw = got /\ r.task = wait[u].task
          BY <4>0, WaitTyped
        <4>2. wait[u].pc = "asleep"
          BY <2>2, <3>1
        <4> HIDE DEF r
        <4> QED
          BY <4>0, <4>1, <4>2, <4>3, WaitWords DEF WaitMove
      <3>2. CASE u \notin Woken
        BY <1>0, <2>1, <3>2 DEF WaitMove
      <3> QED
        BY <3>1, <3>2
    <2>4. wakeups' \in [Task -> Waiter \cup {NoSet}]
      <3> DEFINE some(t) == Asleep(t, wakeups[t]) = {}
      <3>1. wakeups' = [t \in Task |-> IF some(t) THEN wakeups[t] ELSE NoSet]
        BY <2>1
      <3> HIDE DEF some
      <3> QED
        BY <1>0, <3>1
    <2> QED
      BY <2>1, <2>3, <2>4
  <1> QED
    BY <1>0, <1>1, <1>2, <1>3, <1>4, <1>5, <1>6, <1>7, <1>8, <1>9 DEF WaiterStep, WaitStep

-----------------------------------------------------------------------------
\* The steps, by what they move.
PassFails(s) == KillChildFails(s) \/ PassThrows(s) \/ RewriteFails(s)

LEMMA NextCases ==
  ASSUME [Next]_vars
  PROVE  \/ WaiterStep
         \/ \E h \in Handler : HandlerStep(h) \/ ClaimFails(h)
         \/ \E s \in Slot : PassStep(s) \/ PassFails(s) \/ \E t \in Task : Dequeue(s, t)
         \/ \E c \in Client : CallStep(c) \/ Create(c) \/ Watch(c) \/ KillRowFails(c)
         \/ \E t \in Task : Kill(t)
         \/ Stop \/ StopRunner
         \/ UNCHANGED vars
  <1>1. ASSUME NEW s \in Slot, SlotGoesOn(s)
        PROVE  \/ WaiterStep \/ PassStep(s)
               \/ \E h \in Handler : HandlerStep(h) \/ ClaimFails(h)
    <2>1. Job(s) \in Handler /\ Inline(s) \in Handler /\ s \in Waiter
      BY SlotHandlers DEF Waiter
    <2>2. HandlerStep(Job(s)) \/ HandlerStep(Inline(s)) \/ PassStep(s) \/ WaitStep(s)
      BY <1>1 DEF SlotGoesOn, Job, Inline
    <2> QED
      BY <2>1, <2>2 DEF WaiterStep
  <1>2. ASSUME NEW c \in Client, CallGoesOn(c)
        PROVE  WaiterStep \/ CallStep(c)
    BY <1>2 DEF CallGoesOn, WaiterStep, Waiter
  <1> QED
    BY <1>1, <1>2 DEF Next, WaiterStep, ShutDown, PassFails

LEMMA NotifyType ==
  ASSUME TypeOK, NEW t \in Task, Notify(t) PROVE notes' \subseteq Task
  BY DEF TypeOK, Notify

LEMMA JudgeEffect ==
  ASSUME TypeOK, NEW s \in Slot, NEW status, Judge(s, status)
  PROVE  /\ mark' \in [Slot -> EvalMark] /\ mark'[s] # "none"
         /\ \A u \in Slot : u # s => mark'[u] = mark[u]
  <1>1. PICK v \in {"verified", "refuted"} : mark' = [mark EXCEPT ![s] = v]
    BY DEF Judge
  <1>2. mark \in [Slot -> EvalMark] /\ v \in EvalMark /\ v # "none"
    BY DEF TypeOK, EvalMark
  <1> QED
    BY <1>1, <1>2

LEMMA KillAfterWaitRow ==
  ASSUME TypeOK, NEW t \in Task, KillAfterWait(t)
  PROVE  /\ row' \in [Task -> Row]
         /\ \/ Becomes(t, "killed", row[t].eval) /\ row[t].status \in Open
            \/ row' = row /\ row[t].status \notin Open
  BY KilledRow DEF KillAfterWait, TypeOK, StoreTypeOK, Becomes

LEMMA AnswerEffect ==
  ASSUME TypeOK, NEW c \in Client, NEW a \in Got, Answer(c, a)
  PROVE  /\ client' \in [Client -> {"idle", "wait", "kill", "after", "done"}]
         /\ answer' \in [Client -> Terminal \cup Gone \cup {"none", "error"}]
         /\ wait' \in [Waiter -> Wait] /\ wakeups' = wakeups /\ listen' = listen
         /\ client'[c] = "done" /\ answer'[c] = a /\ wait'[c] = NoWait
         /\ \A d \in Client : d # c => client'[d] = client[d] /\ answer'[d] = answer[d]
         /\ \A u \in Waiter : u # c => wait'[u] = wait[u]
  <1>1. /\ client \in [Client -> {"idle", "wait", "kill", "after", "done"}]
        /\ answer \in [Client -> Terminal \cup Gone \cup {"none", "error"}]
        /\ wait \in [Waiter -> Wait] /\ c \in Waiter
    BY DEF TypeOK, Waiter
  <1>2. a \in Terminal \cup Gone \cup {"none", "error"}
    BY DEF Got
  <1>3. /\ client' = [client EXCEPT ![c] = "done"] /\ answer' = [answer EXCEPT ![c] = a]
        /\ wait' = [wait EXCEPT ![c] = NoWait] /\ wakeups' = wakeups /\ listen' = listen
    BY DEF Answer
  <1>4. client' \in [Client -> {"idle", "wait", "kill", "after", "done"}] /\ client'[c] = "done"
    BY <1>1, <1>3
  <1>5. answer' \in [Client -> Terminal \cup Gone \cup {"none", "error"}] /\ answer'[c] = a
    BY <1>1, <1>2, <1>3
  <1>6. /\ wait' \in [Waiter -> Wait] /\ wait'[c] = NoWait
        /\ \A u \in Waiter : u # c => wait'[u] = wait[u]
    BY <1>1, <1>3, NoWaitTyped
  <1>7. \A d \in Client : d # c => client'[d] = client[d] /\ answer'[d] = answer[d]
    BY <1>1, <1>3
  <1> QED
    BY <1>3, <1>4, <1>5, <1>6, <1>7

LEMMA ClientEffect ==
  ASSUME TypeOK, NEW c \in Client, NEW pc \in {"wait", "kill", "after"},
         client' = [client EXCEPT ![c] = pc]
  PROVE  /\ client' \in [Client -> {"idle", "wait", "kill", "after", "done"}]
         /\ client'[c] = pc
         /\ \A d \in Client : d # c => client'[d] = client[d]
  BY DEF TypeOK

\* A row that has ended has ended for good, and so has one that has completed.
Onward(t) ==
  /\ row[t].status \in Terminal => row'[t].status \in Terminal
  /\ row[t].status = "completed" => row'[t].status = "completed"
  /\ row[t].status # "absent" => row'[t].status # "absent"
  /\ row[t].status = "running" => row'[t].status \in {"running"} \cup Terminal

LEMMA BecomesOnward ==
  ASSUME NEW t \in Task, NEW s, NEW e, Becomes(t, s, e),
         row[t].status \in Terminal => s \in Terminal,
         row[t].status = "completed" => s = "completed",
         row[t].status # "absent" => s # "absent",
         row[t].status = "running" => s \in {"running"} \cup Terminal
  PROVE  \A u \in Task : Onward(u)
  <1>1. Onward(t)
    BY DEF Becomes, Onward
  <1>2. \A u \in Task : u # t => Onward(u)
    BY DEF Becomes, Onward
  <1> QED
    BY <1>1, <1>2

LEMMA SameOnward == ASSUME row' = row PROVE \A u \in Task : Onward(u)
  BY DEF Onward

LEMMA KillOnward ==
  ASSUME TypeOK, NEW t \in Task, KillAfterWait(t) \/ requestKill(t)
  PROVE  \A u \in Task : Onward(u)
  <1>1. CASE row' = row
    BY <1>1, SameOnward
  <1>2. CASE Becomes(t, "killed", row[t].eval) /\ row[t].status \in Open
    BY <1>2, BecomesOnward, Words
  <1> QED
    BY <1>1, <1>2, KillAfterWaitRow, KilledRow

LEMMA FinishOnward ==
  ASSUME TypeOK, LeaseInv, NEW h \in Handler, hand[h].pc \in Driving, NEW s \in Terminal,
         hand[h].task \in Task, finish(hand[h].task, s)
  PROVE  \A u \in Task : Onward(u)
  <1> DEFINE t == hand[h].task
  <1>0. t \in Task
    OBVIOUS
  <1>1. row[t].status \in {"running", "killed"}
    BY DEF LeaseInv, Drives
  <1>2. Becomes(t, s, row[t].eval)
    BY FinishedRow
  <1> HIDE DEF t
  <1> QED
    BY <1>0, <1>1, <1>2, BecomesOnward, Words

LEMMA DrivingWords ==
  {"run", "discard", "child", "inline", "look", "wait", "kill", "record", "rewrite", "finish"} = Driving
  BY DEF Driving

LEMMA RowsGoOn ==
  ASSUME IInv, [Next]_vars PROVE \A u \in Task : Onward(u)
  <1> USE DEF IInv, HandInv
  <1>1. CASE WaiterStep
    <2>1. row' = row
      BY <1>1 DEF WaiterStep, WaitStep, Read, Found, Sleep, Poll, GiveUp, ReadFails, Deliver,
                  LoseListener, StopWaiter, storeVars
    <2> QED
      BY <2>1, SameOnward
  <1>2. ASSUME NEW h \in Handler, HandlerStep(h) \/ ClaimFails(h)
        PROVE  \A u \in Task : Onward(u)
    <2>1. CASE ClaimRow(h)
      <3> DEFINE t == hand[h].task
      <3>1. t \in Task
        BY <2>1 DEF ClaimRow, At, FrameInv
      <3>2. Becomes(t, "running", row[t].eval)
        BY <2>1, <3>1, ClaimedRow DEF ClaimRow
      <3>3. row[t].status \in {"queued", "awaiting-input"}
        BY <2>1 DEF ClaimRow, claimAllowed
      <3> HIDE DEF t
      <3> QED
        BY <3>1, <3>2, <3>3, BecomesOnward, Words
    <2>2. CASE Discard(h)
      <3>1. /\ hand[h].pc \in Driving /\ hand[h].task \in Task
            /\ finish(hand[h].task, "killed") /\ "killed" \in Terminal
        BY <2>2, DrivingWords, Words DEF Discard, At, FrameInv
      <3> QED
        BY <3>1, FinishOnward
    <2>3. CASE Finish(h)
      <3>1. /\ hand[h].pc \in Driving /\ hand[h].task \in Task
            /\ finish(hand[h].task, hand[h].verdict)
        BY <2>3, DrivingWords DEF Finish, At, FrameInv
      <3>2. hand[h].verdict \in Terminal
        BY Words DEF TypeOK, Hand
      <3> QED
        BY <3>1, <3>2, FinishOnward
    <2>4. CASE ClaimRefused(h) \/ TurnEnd(h) \/ ClaimFails(h)
      BY <2>4, SameOnward DEF ClaimRefused, TurnEnd, ClaimFails, storeVars
    <2> QED
      BY <1>2, <2>1, <2>2, <2>3, <2>4 DEF HandlerStep
  <1>3. ASSUME NEW s \in Slot, PassStep(s) \/ PassFails(s) \/ \E t \in Task : Dequeue(s, t)
        PROVE  \A u \in Task : Onward(u)
    <2>1. CASE Spawn(s)
      <3>1. create(ChildOf(s)) /\ ChildOf(s) \in Task
        BY <2>1, SpawnEffect
      <3>2. Becomes(ChildOf(s), "queued", "none") /\ row[ChildOf(s)].status = "absent"
        BY <3>1, CreateRow
      <3> QED
        BY <3>1, <3>2, BecomesOnward, Words
    <2>2. CASE KillChild(s)
      <3>1. hand[Job(s)].pc = "kill" /\ KillAfterWait(ChildOf(s))
        BY <2>2 DEF KillChild, At, Job
      <3>2. ChildOf(s) \in Task
        BY <3>1, WaitsAssumption DEF FrameInv, ChildOf, Job
      <3> QED
        BY <3>1, <3>2, KillOnward
    <2>3. CASE Record(s)
      <3> DEFINE t == hand[Job(s)].task
      <3>1. t \in Task /\ mark[s] \in EvalMark
        BY <2>3, SlotHandlers DEF Record, At, Job, FrameInv, TypeOK
      <3>2. recordEval(t, mark[s], 0)
        BY <2>3 DEF Record, Job
      <3>3. Becomes(t, row[t].status, mark[s])
        BY <3>1, <3>2, JudgedRow
      <3> HIDE DEF t
      <3> QED
        BY <3>1, <3>3, BecomesOnward
    <2>4. CASE Look(s) \/ Resume(s) \/ PassFails(s) \/ \E t \in Task : Dequeue(s, t)
      BY <2>4, SameOnward DEF Look, Resume, PassFails, KillChildFails, PassThrows, RewriteFails,
                              Dequeue, storeVars
    <2> QED
      BY <1>3, <2>1, <2>2, <2>3, <2>4 DEF PassStep
  <1>4. ASSUME NEW c \in Client, CallStep(c) \/ Create(c) \/ Watch(c) \/ KillRowFails(c)
        PROVE  \A u \in Task : Onward(u)
    <2>1. RowFor[c] \in Task
      BY WaitsAssumption
    <2>2. CASE Create(c)
      <3>1. Becomes(RowFor[c], "queued", "none") /\ row[RowFor[c]].status = "absent"
        BY <2>1, <2>2, CreateRow DEF Create
      <3> QED
        BY <2>1, <3>1, BecomesOnward, Words
    <2>3. CASE KillRow(c)
      BY <2>1, <2>3, KillOnward DEF KillRow
    <2>4. CASE Answered(c) \/ After(c) \/ Watch(c) \/ KillRowFails(c)
      BY <2>4, SameOnward DEF Answered, After, Watch, KillRowFails, storeVars
    <2> QED
      BY <1>4, <2>2, <2>3, <2>4 DEF CallStep
  <1>5. ASSUME NEW t \in Task, Kill(t) PROVE \A u \in Task : Onward(u)
    BY <1>5, KillOnward DEF Kill
  <1>6. CASE Stop \/ StopRunner \/ UNCHANGED vars
    BY <1>6, SameOnward DEF Stop, StopRunner, vars, storeVars
  <1> QED
    BY <1>1, <1>2, <1>3, <1>4, <1>5, <1>6, NextCases

-----------------------------------------------------------------------------
\* Type correctness.
LEMMA TypeStep ==
  ASSUME IInv, [Next]_vars PROVE TypeOK'
  <1> USE DEF IInv, HandInv
  <1>1. CASE WaiterStep
    <2>1. /\ wait' \in [Waiter -> Wait] /\ wakeups' \in [Task -> Waiter \cup {NoSet}]
      BY <1>1, WaiterMoves
    <2>2. listen' \in BOOLEAN /\ notes' \subseteq Task
      BY <1>1 DEF WaiterStep, WaitStep, Read, Found, Sleep, Poll, GiveUp, ReadFails, Deliver,
                  LoseListener, StopWaiter, TypeOK
    <2>3. phase' \in {"up", "stopping", "stopped", "ended"}
      BY <1>1 DEF WaiterStep, WaitStep, Read, Found, Sleep, Poll, GiveUp, ReadFails, Deliver,
                  LoseListener, StopWaiter, TypeOK
    <2>6. /\ dropped' = dropped /\ unwritten' = unwritten
          /\ faults' = faults \/ (faults < MaxFaults /\ faults' = faults + 1)
      BY <1>1 DEF WaiterStep, WaitStep, Read, Found, Sleep, Poll, GiveUp, ReadFails, Deliver,
                  LoseListener, StopWaiter, faultVars
    <2>4. faults' \in 0..MaxFaults /\ dropped' = dropped /\ unwritten' = unwritten
      BY <2>6, WaitsAssumption DEF TypeOK
    <2>5. row' = row /\ job' = job /\ hand' = hand /\ mark' = mark /\ client' = client /\ answer' = answer
      BY <1>1 DEF WaiterStep, WaitStep, Read, Found, Sleep, Poll, GiveUp, ReadFails, Deliver,
                  LoseListener, StopWaiter, storeVars, callVars
    <2> QED
      BY <2>1, <2>2, <2>3, <2>4, <2>5 DEF TypeOK, StoreTypeOK
  <1>2. ASSUME NEW h \in Handler, HandlerStep(h) \/ ClaimFails(h)
        PROVE  TypeOK'
    <2>1. /\ job' = job /\ mark' = mark /\ wait' = wait /\ wakeups' = wakeups /\ listen' = listen
          /\ phase' = phase /\ client' = client /\ answer' = answer
      BY <1>2 DEF HandlerStep, ClaimRow, ClaimRefused, TurnEnd, Discard, Finish, ClaimFails,
                  Quiet, storeVars, waitVars, callVars
    <2>2. hand[h].pc # "idle" /\ hand[h].task \in Task
      BY <1>2 DEF HandlerStep, ClaimRow, ClaimRefused, TurnEnd, Discard, Finish, ClaimFails,
                  At, FrameInv
    <2>3. faults' \in 0..MaxFaults /\ dropped' \subseteq Task /\ unwritten' = unwritten
      <3>1. CASE ClaimFails(h)
        BY <2>2, <3>1, WaitsAssumption DEF ClaimFails, TypeOK
      <3>2. CASE HandlerStep(h)
        BY <3>2 DEF HandlerStep, ClaimRow, ClaimRefused, TurnEnd, Discard, Finish, Quiet,
                    faultVars, TypeOK
      <3> QED
        BY <1>2, <3>1, <3>2
    <2>4. row' \in [Task -> Row] /\ notes' \subseteq Task
      <3>1. CASE ClaimRow(h)
        <4>1. claim(hand[h].task, Here) /\ notes' = notes
          BY <3>1 DEF ClaimRow
        <4>2. row' \in [Task -> Row]
          BY <2>2, <4>1, ClaimedRow DEF Becomes
        <4> QED
          BY <4>1, <4>2 DEF TypeOK
      <3>2. CASE Discard(h)
        <4>1. finish(hand[h].task, "killed") /\ "killed" \in Terminal /\ Notify(hand[h].task)
          BY <3>2, Words DEF Discard
        <4> QED
          BY <2>2, <4>1, FinishedRow, NotifyType DEF Becomes
      <3>3. CASE Finish(h)
        <4>1. /\ finish(hand[h].task, hand[h].verdict) /\ hand[h].verdict \in Terminal
              /\ Notify(hand[h].task)
          BY <3>3, Words DEF Finish, TypeOK, Hand
        <4> QED
          BY <2>2, <4>1, FinishedRow, NotifyType DEF Becomes
      <3>4. CASE ClaimRefused(h) \/ TurnEnd(h) \/ ClaimFails(h)
        BY <3>4 DEF ClaimRefused, TurnEnd, ClaimFails, storeVars, TypeOK, StoreTypeOK
      <3> QED
        BY <1>2, <3>1, <3>2, <3>3, <3>4 DEF HandlerStep
    <2>5. hand' \in [Handler -> Hand]
      <3>1. CASE ClaimRow(h)
        <4>1. GoTo(h, "run") /\ "run" \in HandlerPC
          BY <3>1 DEF ClaimRow, HandlerPC
        <4> QED
          BY <4>1, GoToEffect
      <3>2. CASE TurnEnd(h)
        BY <3>2, TurnEndEffect
      <3>3. CASE ClaimRefused(h) \/ ClaimFails(h) \/ Discard(h) \/ Finish(h)
        <4>1. Return(h)
          BY <3>3 DEF ClaimRefused, ClaimFails, Discard, Finish
        <4> QED
          BY <4>1, ReturnEffect
      <3> QED
        BY <1>2, <3>1, <3>2, <3>3 DEF HandlerStep
    <2> QED
      BY <2>1, <2>3, <2>4, <2>5 DEF TypeOK, StoreTypeOK
  <1>8. ASSUME NEW s \in Slot, PassFails(s) PROVE TypeOK'
    <2>0. Job(s) \in Handler /\ s \in Waiter
      BY SlotHandlers DEF Waiter
    <2>1. /\ row' = row /\ job' = job /\ wakeups' = wakeups /\ listen' = listen /\ notes' = notes
          /\ phase' = phase /\ client' = client /\ answer' = answer /\ dropped' = dropped
          /\ faults < MaxFaults /\ faults' = faults + 1
          /\ wait' = wait \/ wait' = [wait EXCEPT ![s] = NoWait]
          /\ mark' = mark \/ \E e \in {"none", "refuted"} : mark' = [mark EXCEPT ![s] = e]
      BY <1>8 DEF PassFails, KillChildFails, PassThrows, RewriteFails, Fail, storeVars,
                  waitVars, callVars
    <2>2. PICK pc \in {"record", "rewrite", "finish"} : GoTo(Job(s), pc)
      BY <1>8 DEF PassFails, KillChildFails, PassThrows, RewriteFails, Job
    <2>3. hand' \in [Handler -> Hand]
      BY <2>0, <2>2, GoToEffect DEF HandlerPC
    <2>4. mark' \in [Slot -> EvalMark]
      BY <2>1 DEF TypeOK, EvalMark
    <2>5. wait' \in [Waiter -> Wait]
      BY <2>1, NoWaitTyped DEF TypeOK
    <2>6. faults' \in 0..MaxFaults
      BY <2>1, WaitsAssumption DEF TypeOK
    <2>7. unwritten' \subseteq Task
      <3>1. CASE RewriteFails(s)
        <4>1. hand[Job(s)].task \in Task
          BY <2>0, <3>1 DEF RewriteFails, At, Job, FrameInv
        <4> QED
          BY <3>1, <4>1 DEF RewriteFails, Job, TypeOK
      <3>2. CASE KillChildFails(s) \/ PassThrows(s)
        BY <3>2 DEF KillChildFails, PassThrows, TypeOK
      <3> QED
        BY <1>8, <3>1, <3>2 DEF PassFails
    <2> QED
      BY <2>1, <2>3, <2>4, <2>5, <2>6, <2>7 DEF TypeOK, StoreTypeOK
  <1>3. ASSUME NEW s \in Slot, PassStep(s) \/ \E t \in Task : Dequeue(s, t)
        PROVE  TypeOK'
    <2>0. Job(s) \in Handler /\ s \in Waiter
      BY SlotHandlers DEF Waiter
    <2>1. /\ phase' = phase /\ client' = client /\ answer' = answer /\ faults' = faults
          /\ dropped' = dropped /\ unwritten' = unwritten
      BY <1>3 DEF PassStep, Spawn, Look, Resume, KillChild, Record, Dequeue, Quiet,
                  callVars, faultVars
    <2>2. CASE Spawn(s)
      <3>1. /\ hand' \in [Handler -> Hand] /\ ChildOf(s) \in Task /\ create(ChildOf(s))
        BY <2>2, SpawnEffect
      <3>2. row' \in [Task -> Row] /\ job' \in [Task -> JobName]
        BY <3>1, CreateRow DEF Becomes
      <3>3. mark' = mark /\ wait' = wait /\ wakeups' = wakeups /\ listen' = listen /\ notes' = notes
        BY <2>2 DEF Spawn, waitVars
      <3> QED
        BY <2>1, <3>1, <3>2, <3>3 DEF TypeOK, StoreTypeOK
    <2>3. CASE Look(s)
      <3>1. row' = row /\ job' = job /\ notes' = notes
        BY <2>3 DEF Look, storeVars
      <3>2. hand[Job(s)].pc = "look"
        BY <2>3 DEF Look, At, Job
      <3>3. ChildOf(s) \in Task
        BY <3>2, WaitsAssumption DEF FrameInv, ChildOf, Job
      <3>4. \/ /\ Judge(s, row[ChildOf(s)].status) /\ GoTo(Job(s), "record")
               /\ wait' = wait /\ wakeups' = wakeups /\ listen' = listen
            \/ /\ Begin(s, ChildOf(s)) /\ GoTo(Job(s), "wait") /\ mark' = mark
        BY <2>3 DEF Look, Job, waitVars
      <3>5. "record" \in HandlerPC /\ "wait" \in HandlerPC
        BY DEF HandlerPC
      <3>6. hand' \in [Handler -> Hand]
        BY <2>0, <3>4, <3>5, GoToEffect
      <3>7. mark' \in [Slot -> EvalMark]
        BY <3>4, JudgeEffect DEF TypeOK
      <3>8. /\ wait' \in [Waiter -> Wait] /\ wakeups' \in [Task -> Waiter \cup {NoSet}]
            /\ listen' \in BOOLEAN
        BY <2>0, <3>3, <3>4, BeginEffect DEF TypeOK
      <3> QED
        BY <2>1, <3>1, <3>6, <3>7, <3>8 DEF TypeOK, StoreTypeOK
    <2>4. CASE Resume(s)
      <3>1. /\ row' = row /\ job' = job /\ notes' = notes
            /\ wait' = wait /\ wakeups' = wakeups /\ listen' = listen /\ Judge(s, wait[s].saw)
        BY <2>4 DEF Resume, storeVars, waitVars
      <3>2. PICK pc \in {"kill", "record", "rewrite"} : GoTo(Job(s), pc)
        BY <2>4 DEF Resume, Job
      <3>3. hand' \in [Handler -> Hand]
        BY <2>0, <3>2, GoToEffect DEF HandlerPC
      <3>4. mark' \in [Slot -> EvalMark]
        BY <3>1, JudgeEffect
      <3> QED
        BY <2>1, <3>1, <3>3, <3>4 DEF TypeOK, StoreTypeOK
    <2>5. CASE KillChild(s)
      <3>1. /\ hand[Job(s)].pc = "kill" /\ KillAfterWait(ChildOf(s)) /\ Notify(ChildOf(s))
            /\ GoTo(Job(s), "record")
            /\ job' = job /\ mark' = mark /\ wait' = wait /\ wakeups' = wakeups /\ listen' = listen
        BY <2>5 DEF KillChild, At, Job, waitVars
      <3>2. ChildOf(s) \in Task
        BY <3>1, WaitsAssumption DEF FrameInv, ChildOf, Job
      <3>3. row' \in [Task -> Row] /\ notes' \subseteq Task
        BY <3>1, <3>2, KillAfterWaitRow, NotifyType
      <3>4. hand' \in [Handler -> Hand]
        BY <2>0, <3>1, GoToEffect DEF HandlerPC
      <3> QED
        BY <2>1, <3>1, <3>3, <3>4 DEF TypeOK, StoreTypeOK
    <2>6. CASE Record(s)
      <3> DEFINE t == hand[Job(s)].task
      <3>1. /\ t \in Task /\ mark[s] \in EvalMark
        BY <2>6, SlotHandlers DEF Record, At, Job, FrameInv, TypeOK
      <3>2. /\ recordEval(t, mark[s], 0) /\ GoTo(Job(s), "finish")
            /\ mark' = [mark EXCEPT ![s] = "none"] /\ wait' = [wait EXCEPT ![s] = NoWait]
            /\ job' = job /\ wakeups' = wakeups /\ listen' = listen /\ notes' = notes
        BY <2>6 DEF Record, Job
      <3>3. row' \in [Task -> Row]
        BY <3>1, <3>2, JudgedRow DEF Becomes
      <3>4. hand' \in [Handler -> Hand]
        BY <2>0, <3>2, GoToEffect DEF HandlerPC
      <3>5. mark' \in [Slot -> EvalMark]
        BY <3>2 DEF TypeOK, EvalMark
      <3>6. wait' \in [Waiter -> Wait]
        BY <3>2, NoWaitTyped DEF TypeOK
      <3> QED
        BY <2>1, <3>2, <3>3, <3>4, <3>5, <3>6 DEF TypeOK, StoreTypeOK
    <2>7. CASE \E t \in Task : Dequeue(s, t)
      <3>1. hand' \in [Handler -> Hand] /\ job' \in [Task -> JobName]
        BY <2>7, DequeueEffect
      <3>2. /\ row' = row /\ mark' = mark /\ wait' = wait /\ wakeups' = wakeups
            /\ listen' = listen /\ notes' = notes
        BY <2>7 DEF Dequeue, waitVars
      <3> QED
        BY <2>1, <3>1, <3>2 DEF TypeOK, StoreTypeOK
    <2> QED
      BY <1>3, <2>2, <2>3, <2>4, <2>5, <2>6, <2>7 DEF PassStep
  <1>9. ASSUME NEW c \in Client, KillRowFails(c) PROVE TypeOK'
    <2>1. /\ row' = row /\ job' = job /\ hand' = hand /\ mark' = mark /\ notes' = notes
          /\ phase' = phase /\ dropped' = dropped /\ unwritten' = unwritten
          /\ faults < MaxFaults /\ faults' = faults + 1
          /\ Answer(c, "error") /\ "error" \in Got
      BY <1>9 DEF KillRowFails, Fail, storeVars, Got
    <2>2. faults' \in 0..MaxFaults
      BY <2>1, WaitsAssumption DEF TypeOK
    <2> QED
      BY <2>1, <2>2, AnswerEffect DEF TypeOK, StoreTypeOK
  <1>4. ASSUME NEW c \in Client, CallStep(c) \/ Create(c) \/ Watch(c)
        PROVE  TypeOK'
    <2>0. RowFor[c] \in Task /\ c \in Waiter
      BY WaitsAssumption DEF Waiter
    <2>1. hand' = hand /\ mark' = mark /\ phase' = phase /\ faults' = faults /\ dropped' = dropped /\ unwritten' = unwritten
      BY <1>4 DEF CallStep, Answered, KillRow, After, Create, Watch, faultVars
    <2>2. CASE Create(c) \/ Watch(c)
      <3>1. /\ Begin(c, RowFor[c]) /\ client' = [client EXCEPT ![c] = "wait"]
            /\ answer' = answer /\ notes' = notes
        BY <2>2 DEF Create, Watch
      <3>2. row' \in [Task -> Row] /\ job' \in [Task -> JobName]
        BY <2>0, <2>2, CreateRow DEF Create, Watch, Becomes, storeVars, TypeOK, StoreTypeOK
      <3>3. client' \in [Client -> {"idle", "wait", "kill", "after", "done"}]
        BY <3>1, ClientEffect
      <3>4. /\ wait' \in [Waiter -> Wait] /\ wakeups' \in [Task -> Waiter \cup {NoSet}]
            /\ listen' \in BOOLEAN
        BY <2>0, <3>1, BeginEffect
      <3> QED
        BY <2>1, <3>1, <3>2, <3>3, <3>4 DEF TypeOK, StoreTypeOK
    <2>3. ASSUME NEW a \in Got, Answer(c, a), notes' \subseteq Task,
                 row' \in [Task -> Row], job' = job
          PROVE  TypeOK'
      BY <2>1, <2>3, AnswerEffect DEF TypeOK, StoreTypeOK
    <2>4. ASSUME NEW pc \in {"kill", "after"}, GoOn(c, pc), notes' \subseteq Task,
                 row' \in [Task -> Row], job' = job
          PROVE  TypeOK'
      <3>1. client' \in [Client -> {"idle", "wait", "kill", "after", "done"}]
        BY <2>4, ClientEffect DEF GoOn
      <3> QED
        BY <2>1, <2>4, <3>1 DEF TypeOK, StoreTypeOK, GoOn, waitVars
    <2>5. CASE Answered(c)
      <3>1. row' = row /\ job' = job /\ notes' = notes
        BY <2>5 DEF Answered, storeVars
      <3>2. wait[c] \in Wait /\ wait[c].pc = "ended" /\ wait[c].saw # "open"
        BY <2>0, <2>5 DEF Answered, TypeOK, WaitInv, WaitOk
      <3>3. wait[c].saw \in Got
        BY <3>2 DEF Wait, Got
      <3>4. GoOn(c, "kill") \/ Answer(c, wait[c].saw)
        BY <2>5 DEF Answered
      <3>5. row' \in [Task -> Row] /\ notes' \subseteq Task
        BY <3>1 DEF TypeOK, StoreTypeOK
      <3> QED
        BY <2>3, <2>4, <3>1, <3>3, <3>4, <3>5
    <2>6. CASE KillRow(c)
      <3>1. KillAfterWait(RowFor[c]) /\ Notify(RowFor[c]) /\ job' = job /\ client[c] = "kill"
        BY <2>6 DEF KillRow
      <3>2. row' \in [Task -> Row] /\ notes' \subseteq Task
        BY <2>0, <3>1, KillAfterWaitRow, NotifyType
      <3>3. wait[c].saw \in Got
        BY <3>1, WaitWords DEF CallInv, CallOk
      <3>4. GoOn(c, "after") \/ Answer(c, wait[c].saw)
        BY <2>6 DEF KillRow
      <3> QED
        BY <2>3, <2>4, <3>1, <3>2, <3>3, <3>4
    <2>7. CASE After(c)
      <3>1. client[c] = "after" /\ row' = row /\ job' = job /\ notes' = notes
        BY <2>7 DEF After, storeVars
      <3>2. row[RowFor[c]].status \in Got /\ wait[c].saw \in Got
        BY <3>1, WaitWords DEF CallInv, CallOk
      <3>3. Answer(c, row[RowFor[c]].status) \/ Answer(c, wait[c].saw)
        BY <2>7 DEF After
      <3>4. row' \in [Task -> Row] /\ notes' \subseteq Task
        BY <3>1 DEF TypeOK, StoreTypeOK
      <3> QED
        BY <2>3, <3>1, <3>2, <3>3, <3>4
    <2> QED
      BY <1>4, <2>2, <2>5, <2>6, <2>7 DEF CallStep
  <1>5. ASSUME NEW t \in Task, Kill(t) PROVE TypeOK'
    <2>1. row' \in [Task -> Row] /\ notes' \subseteq Task
      BY <1>5, KilledRow, NotifyType DEF Kill, Becomes
    <2> QED
      BY <1>5, <2>1 DEF Kill, TypeOK, StoreTypeOK, waitVars, callVars, faultVars
  <1>6. CASE Stop \/ StopRunner
    BY <1>6 DEF Stop, StopRunner, TypeOK, StoreTypeOK, storeVars, waitVars, callVars, faultVars
  <1>7. CASE UNCHANGED vars
    BY <1>7 DEF vars, TypeOK, StoreTypeOK, storeVars, waitVars, callVars, faultVars
  <1> QED
    BY <1>1, <1>2, <1>3, <1>4, <1>5, <1>6, <1>7, <1>8, <1>9, NextCases

-----------------------------------------------------------------------------
\* The handlers and what they drive.
PassPC == {"child", "inline", "look", "wait", "kill", "record", "rewrite"}

\* A row's status is left, or the row is created or killed.
Kept(t) == \/ row'[t].status = row[t].status
           \/ row[t].status = "absent" /\ row'[t].status = "queued"
           \/ row'[t].status = "killed"

LEMMA LeaseKept ==
  ASSUME LeaseInv, \A h \in Handler, t \in Task : Drives(h, t)' <=> Drives(h, t),
         \A t \in Task : Kept(t)
  PROVE  LeaseInv'
  <1>1. \A t \in Task : row'[t].status # "awaiting-input"
    BY DEF LeaseInv, Kept
  <1>2. \A t \in Task : row'[t].status = "running" => row[t].status = "running"
    BY DEF Kept
  <1>3. ASSUME NEW t \in Task, row'[t].status = "running"
        PROVE  \E h \in Handler : Drives(h, t)'
    BY <1>2, <1>3 DEF LeaseInv
  <1>4. ASSUME NEW h \in Handler, NEW t \in Task, Drives(h, t)'
        PROVE  row'[t].status \in {"running", "killed"}
    BY <1>4 DEF LeaseInv, Kept
  <1>5. \A h, i \in Handler, t \in Task : Drives(h, t)' /\ Drives(i, t)' => h = i
    BY DEF LeaseInv
  <1> QED
    BY <1>1, <1>3, <1>4, <1>5 DEF LeaseInv

\* A handler that drives nothing or the same row after its step.
LEMMA DrivesKept ==
  ASSUME NEW S, S \subseteq Handler,
         \A i \in Handler : i \notin S => hand'[i] = hand[i],
         \A i \in S : \/ hand[i].pc \notin Driving /\ hand'[i].pc \notin Driving
                      \/ /\ hand[i].pc \in Driving /\ hand'[i].pc \in Driving
                         /\ hand'[i].task = hand[i].task
  PROVE  \A h \in Handler, t \in Task : Drives(h, t)' <=> Drives(h, t)
  BY DEF Drives

\* A step of one handler that does not call and does not return.
LEMMA FrameMove ==
  ASSUME FrameInv, NEW h \in Handler,
         \A i \in Handler : i # h => hand'[i] = hand[i],
         hand[h].pc # "inline" /\ hand'[h].pc \notin {"inline", "idle"},
         hand'[h].task \in Task,
         \A s \in Slot : h = Job(s) => (hand'[h].pc \in PassPC => hand'[h].task \in Evaluable),
         \A s \in Slot : h = Inline(s) =>
            /\ hand'[h].pc \in {"claim", "run", "discard", "finish"}
            /\ hand[h].pc # "idle" /\ hand'[h].task = hand[h].task
  PROVE  FrameInv'
  <1>1. \A i \in Handler : hand'[i].pc # "idle" => hand'[i].task \in Task
    BY DEF FrameInv
  <1>2. ASSUME NEW s \in Slot
        PROVE  /\ hand'[Inline(s)].pc = "idle" <=> ~ hand'[Job(s)].pc = "inline"
               /\ hand'[Job(s)].pc = "inline" => hand'[Inline(s)].task = Verifier[hand'[Job(s)].task]
               /\ hand'[Inline(s)].pc \in {"idle", "claim", "run", "discard", "finish"}
               /\ hand'[Job(s)].pc \in PassPC => hand'[Job(s)].task \in Evaluable
    <2>1. Job(s) \in Handler /\ Inline(s) \in Handler /\ Job(s) # Inline(s)
      BY SlotHandlers
    <2>2. /\ hand[Inline(s)].pc = "idle" <=> ~ hand[Job(s)].pc = "inline"
          /\ hand[Job(s)].pc = "inline" => hand[Inline(s)].task = Verifier[hand[Job(s)].task]
          /\ hand[Inline(s)].pc \in {"idle", "claim", "run", "discard", "finish"}
          /\ hand[Job(s)].pc \in PassPC => hand[Job(s)].task \in Evaluable
      BY DEF FrameInv, At, Job, ChildOf, PassPC
    <2>3. CASE h = Job(s)
      BY <2>1, <2>2, <2>3
    <2>4. CASE h = Inline(s)
      BY <2>1, <2>2, <2>4
    <2>5. CASE h # Job(s) /\ h # Inline(s)
      BY <2>1, <2>2, <2>5
    <2> QED
      BY <2>3, <2>4, <2>5
  <1> QED
    BY <1>1, <1>2 DEF FrameInv, At, Job, ChildOf, PassPC

\* The child of a slot whose parent's handler has gone on.
LEMMA ChildMove ==
  ASSUME ChildInv, \A t \in Task : Onward(t) \/ Kept(t),
         dropped \subseteq dropped', NEW S,
         \A s \in Slot : s \notin S =>
            hand'[Job(s)].task = hand[Job(s)].task /\ hand'[Job(s)].pc = hand[Job(s)].pc,
         \A s \in Slot : hand[Job(s)].pc \in PassPC => ChildOf(s) \in Task,
         \A s \in S : /\ hand'[Job(s)].pc # "inline"
                      /\ hand'[Job(s)].pc \in {"look", "wait", "kill", "record"} =>
                           /\ hand[Job(s)].pc \in {"look", "wait", "kill", "record"}
                           /\ hand'[Job(s)].task = hand[Job(s)].task
  PROVE  ChildInv'
  <1>1. ASSUME NEW s \in Slot, NEW t \in Task
        PROVE  /\ row[t].status # "absent" => row'[t].status # "absent"
               /\ row[t].status \in {"running"} \cup Terminal => row'[t].status \in {"running"} \cup Terminal
    BY Words DEF Onward, Kept
  <1>2. ASSUME NEW s \in Slot
        PROVE  /\ hand'[Job(s)].pc = "inline" => row'[Verifier[hand'[Job(s)].task]].status # "absent"
               /\ hand'[Job(s)].pc \in {"look", "wait", "kill", "record"} =>
                    \/ row'[Verifier[hand'[Job(s)].task]].status \in {"running"} \cup Terminal
                    \/ Verifier[hand'[Job(s)].task] \in dropped'
    <2>1. /\ hand[Job(s)].pc = "inline" => row[Verifier[hand[Job(s)].task]].status # "absent"
          /\ hand[Job(s)].pc \in {"look", "wait", "kill", "record"} =>
               \/ row[Verifier[hand[Job(s)].task]].status \in {"running"} \cup Terminal
               \/ Verifier[hand[Job(s)].task] \in dropped
      BY DEF ChildInv, At, Job, ChildOf
    <2>2. hand[Job(s)].pc \in PassPC => Verifier[hand[Job(s)].task] \in Task
      BY DEF ChildOf, Job
    <2> QED
      BY <1>1, <2>1, <2>2 DEF PassPC
  <1> QED
    BY <1>2 DEF ChildInv, At, Job, ChildOf

LEMMA ChildrenTasks ==
  ASSUME FrameInv
  PROVE  \A s \in Slot : hand[Job(s)].pc \in PassPC =>
           hand[Job(s)].task \in Evaluable /\ ChildOf(s) \in Task \ Evaluable
  BY WaitsAssumption DEF FrameInv, PassPC, ChildOf, Job

\* Steps that leave the handlers alone.
LEMMA HandKept ==
  ASSUME IInv, hand' = hand, mark' = mark, dropped' = dropped, unwritten' = unwritten,
         \/ row' = row
         \/ \E t \in Task : /\ row[t].status = "absent" /\ Becomes(t, "queued", "none")
         \/ \E t \in Task : Becomes(t, "killed", row[t].eval)
  PROVE  HandInv'
  <1> USE DEF IInv, HandInv
  <1>1. FrameInv'
    BY DEF FrameInv, At, ChildOf
  <1>2. \A t \in Task : Kept(t)
    BY DEF Kept, Becomes
  <1>3. LeaseInv'
    <2>1. \A h \in Handler, t \in Task : Drives(h, t)' <=> Drives(h, t)
      BY DEF Drives
    <2> QED
      BY <1>2, <2>1, LeaseKept
  <1>4. ChildInv'
    <2> DEFINE S == {}
    <2>1. \A s \in Slot : s \notin S => hand'[Job(s)] = hand[Job(s)]
      OBVIOUS
    <2>2. \A s \in S : FALSE
      OBVIOUS
    <2> HIDE DEF S
    <2> QED
      BY <1>2, <2>1, <2>2, ChildrenTasks, ChildMove
  <1>5. JudgeInv'
    <2>1. \A s \in Slot : hand'[Job(s)].pc \in {"kill", "record", "rewrite"} => mark'[s] # "none"
      BY DEF JudgeInv
    <2>2. ASSUME NEW h \in Handler, hand'[h].pc = "finish", hand'[h].verdict = "completed",
                 hand'[h].task \in Evaluable
          PROVE  Judged(hand[h].task)'
      <3>1. Judged(hand[h].task)
        BY <2>2 DEF JudgeInv, At
      <3>2. hand[h].task \in Task /\ Drives(h, hand[h].task)
        BY <2>2, DrivingWords DEF FrameInv, Drives
      <3>3. row[hand[h].task].status # "absent"
        BY <3>2 DEF LeaseInv
      <3> QED
        BY <3>1, <3>2, <3>3 DEF Becomes, Judged
    <2>3. \A t \in Evaluable : row'[t].status = "completed" => Judged(t)'
      BY StoreAssumption DEF JudgeInv, Becomes, Judged
    <2> QED
      BY <2>1, <2>2, <2>3 DEF JudgeInv, At
  <1> QED
    BY <1>1, <1>3, <1>4, <1>5

\* The verdicts, where no handler comes to its finish.
LEMMA JudgeKept ==
  ASSUME JudgeInv, NEW S, unwritten' = unwritten,
         \A t \in Task : row'[t].eval = row[t].eval,
         \A t \in Task : row'[t].status = "completed" => row[t].status = "completed",
         \A i \in Handler : i \notin S => hand'[i] = hand[i],
         \A i \in S : hand'[i].pc = "finish" =>
            hand'[i].task \notin Evaluable \/ hand'[i].verdict # "completed",
         \A s \in Slot : hand'[Job(s)].pc \in {"kill", "record", "rewrite"} => mark'[s] # "none",
         Evaluable \subseteq Task
  PROVE  JudgeInv'
  <1>1. ASSUME NEW h \in Handler, hand'[h].pc = "finish", hand'[h].verdict = "completed",
               hand'[h].task \in Evaluable
        PROVE  Judged(hand[h].task)'
    BY <1>1 DEF JudgeInv, At, Judged
  <1>2. \A t \in Evaluable : row'[t].status = "completed" => Judged(t)'
    BY DEF JudgeInv, Judged
  <1> QED
    BY <1>1, <1>2 DEF JudgeInv, At

LEMMA DequeueHand ==
  ASSUME IInv, NEW s \in Slot, NEW t \in Task, Dequeue(s, t) PROVE HandInv'
  <1> USE DEF IInv, HandInv
  <1>1. row' = row /\ mark' = mark /\ dropped' = dropped /\ unwritten' = unwritten
    BY DEF Dequeue, Quiet, faultVars
  <1>2. /\ hand[Job(s)].pc = "idle" /\ hand'[Job(s)].pc = "claim" /\ hand'[Job(s)].task = t
        /\ \A i \in Handler : i # Job(s) => hand'[i] = hand[i]
    BY DequeueEffect
  <1>3. Job(s) \in Handler /\ \A u \in Slot : Job(u) = Job(s) => u = s
    BY SlotHandlers
  <1>4. \A u \in Slot : Job(s) # Inline(u)
    BY SlotHandlers
  <1>5. FrameInv'
    BY <1>2, <1>3, <1>4, FrameMove DEF PassPC
  <1>6. LeaseInv'
    <2>1. \A h \in Handler, r \in Task : Drives(h, r)' <=> Drives(h, r)
      BY <1>2, <1>3 DEF Drives, Driving
    <2> QED
      BY <1>1, <2>1, LeaseKept DEF Kept
  <1>7. ChildInv'
    <2>1. \A u \in Slot : u # s => hand'[Job(u)] = hand[Job(u)]
      BY <1>2, <1>3, SlotHandlers
    <2>2. \A r \in Task : Kept(r)
      BY <1>1 DEF Kept
    <2> DEFINE S == {s}
    <2>3. \A u \in Slot : u \notin S => hand'[Job(u)] = hand[Job(u)]
      BY <2>1
    <2>4. \A u \in S : hand'[Job(u)].pc = "claim"
      BY <1>2
    <2> HIDE DEF S
    <2> QED
      BY <1>1, <2>2, <2>3, <2>4, ChildrenTasks, ChildMove
  <1>8. JudgeInv'
    <2> DEFINE S == {Job(s)}
    <2>1. \A i \in Handler : i \notin S => hand'[i] = hand[i]
      BY <1>2
    <2>2. \A i \in S : hand'[i].pc = "claim"
      BY <1>2
    <2>3. \A u \in Slot : hand'[Job(u)].pc \in {"kill", "record", "rewrite"} => mark'[u] # "none"
      BY <1>1, <1>2, <1>3, SlotHandlers DEF JudgeInv
    <2> HIDE DEF S
    <2> QED
      BY <1>1, <2>1, <2>2, <2>3, JudgeKept, StoreAssumption
  <1> QED
    BY <1>5, <1>6, <1>7, <1>8

LEMMA ChildOneHandler ==
  ASSUME IInv, NEW h \in Handler, \A i \in Handler : i # h => hand'[i] = hand[i],
         \A t \in Task : Onward(t), dropped \subseteq dropped',
         \A s \in Slot : h = Job(s) =>
           /\ hand'[h].pc # "inline"
           /\ hand'[h].pc \in {"look", "wait", "kill", "record"} =>
                /\ hand[h].pc \in {"look", "wait", "kill", "record"}
                /\ hand'[h].task = hand[h].task
  PROVE  ChildInv'
  <1> USE DEF IInv, HandInv
  <1> DEFINE S == {s \in Slot : h = Job(s)}
  <1>1. \A s \in Slot : s \notin S => hand'[Job(s)] = hand[Job(s)]
    BY SlotHandlers
  <1>2. \A s \in S : /\ hand'[Job(s)].pc # "inline"
                     /\ hand'[Job(s)].pc \in {"look", "wait", "kill", "record"} =>
                          /\ hand[Job(s)].pc \in {"look", "wait", "kill", "record"}
                          /\ hand'[Job(s)].task = hand[Job(s)].task
    OBVIOUS
  <1> HIDE DEF S
  <1> QED
    BY <1>1, <1>2, ChildrenTasks, ChildMove

\* A handler returns, to graphile or to the handler of its row's parent.
LEMMA ReturnHand ==
  ASSUME IInv, NEW h \in Handler, Return(h), hand[h].pc \in {"claim", "discard", "finish"},
         dropped \subseteq dropped', \A t \in Task : Onward(t),
         \A s \in Slot : h = Inline(s) =>
           row'[ChildOf(s)].status \in {"running"} \cup Terminal \/ ChildOf(s) \in dropped'
  PROVE  /\ FrameInv' /\ ChildInv'
         /\ \A i \in Handler, t \in Task : Drives(i, t)' <=> Drives(i, t) /\ i # h
         /\ \A i \in Handler : hand'[i].pc \in {"finish", "kill", "record", "rewrite"} =>
              i # h /\ hand'[i] = hand[i]
  <1> USE DEF IInv, HandInv
  <1>0. PICK s \in Slot : h = Job(s) \/ h = Inline(s)
    BY SlotHandlers
  <1>s. /\ Job(s) \in Handler /\ Inline(s) \in Handler /\ Job(s) # Inline(s)
        /\ \A u \in Slot : /\ Job(u) \in Handler /\ Inline(u) \in Handler /\ Job(u) # Inline(u)
                           /\ Job(u) # Inline(s) /\ Inline(u) # Job(s)
                           /\ u # s => Job(u) # Job(s) /\ Inline(u) # Inline(s)
    BY SlotHandlers
  <1>f. \A u \in Slot :
          /\ hand[Inline(u)].pc = "idle" <=> ~ hand[Job(u)].pc = "inline"
          /\ hand[Job(u)].pc = "inline" => hand[Inline(u)].task = Verifier[hand[Job(u)].task]
          /\ hand[Inline(u)].pc \in {"idle", "claim", "run", "discard", "finish"}
          /\ hand[Job(u)].pc \in PassPC => hand[Job(u)].task \in Evaluable
    BY DEF FrameInv, At, Job, ChildOf, PassPC
  <1>t. \A i \in Handler : hand[i].pc # "idle" => hand[i].task \in Task
    BY DEF FrameInv
  <1>1. CASE h = Job(s)
    <2>1. hand'[h].pc = "idle" /\ \A i \in Handler : i # h => hand'[i] = hand[i]
      BY <1>1, ReturnEffect
    <2>2. \A i \in Handler : hand'[i].pc # "idle" => hand'[i].task \in Task
      BY <1>t, <2>1
    <2>3. ASSUME NEW u \in Slot
          PROVE  /\ hand'[Inline(u)].pc = "idle" <=> ~ hand'[Job(u)].pc = "inline"
                 /\ hand'[Job(u)].pc = "inline" => hand'[Inline(u)].task = Verifier[hand'[Job(u)].task]
                 /\ hand'[Inline(u)].pc \in {"idle", "claim", "run", "discard", "finish"}
                 /\ hand'[Job(u)].pc \in PassPC => hand'[Job(u)].task \in Evaluable
      <3>1. CASE u = s
        BY <1>1, <1>s, <1>f, <2>1, <3>1 DEF PassPC
      <3>2. CASE u # s
        BY <1>1, <1>s, <1>f, <2>1, <3>2
      <3> QED
        BY <3>1, <3>2
    <2>4. FrameInv'
      BY <2>2, <2>3 DEF FrameInv, At, Job, ChildOf, PassPC
    <2>5. ChildInv'
      BY <2>1, ChildOneHandler
    <2>6. \A i \in Handler, t \in Task : Drives(i, t)' <=> Drives(i, t) /\ i # h
      BY <2>1 DEF Drives, Driving
    <2> QED
      BY <2>1, <2>4, <2>5, <2>6
  <1>2. CASE h = Inline(s)
    <2>1. /\ hand'[h].pc = "idle"
          /\ hand'[Job(s)].pc = "look" /\ hand'[Job(s)].task = hand[Job(s)].task
          /\ \A i \in Handler : i \notin {h, Job(s)} => hand'[i] = hand[i]
      BY <1>2, ReturnEffect
    <2>2. hand[Job(s)].pc = "inline"
      BY <1>2, <1>f
    <2>3. \A i \in Handler : hand'[i].pc # "idle" => hand'[i].task \in Task
      BY <1>s, <1>t, <2>1, <2>2
    <2>4. ASSUME NEW u \in Slot
          PROVE  /\ hand'[Inline(u)].pc = "idle" <=> ~ hand'[Job(u)].pc = "inline"
                 /\ hand'[Job(u)].pc = "inline" => hand'[Inline(u)].task = Verifier[hand'[Job(u)].task]
                 /\ hand'[Inline(u)].pc \in {"idle", "claim", "run", "discard", "finish"}
                 /\ hand'[Job(u)].pc \in PassPC => hand'[Job(u)].task \in Evaluable
      <3>1. CASE u = s
        BY <1>2, <1>s, <1>f, <2>1, <2>2, <3>1 DEF PassPC
      <3>2. CASE u # s
        BY <1>2, <1>s, <1>f, <2>1, <3>2
      <3> QED
        BY <3>1, <3>2
    <2>5. FrameInv'
      BY <2>3, <2>4 DEF FrameInv, At, Job, ChildOf, PassPC
    <2>6. ASSUME NEW u \in Slot
          PROVE  /\ hand'[Job(u)].pc = "inline" => row'[Verifier[hand'[Job(u)].task]].status # "absent"
                 /\ hand'[Job(u)].pc \in {"look", "wait", "kill", "record"} =>
                      \/ row'[Verifier[hand'[Job(u)].task]].status \in {"running"} \cup Terminal
                      \/ Verifier[hand'[Job(u)].task] \in dropped'
      <3>1. CASE u = s
        BY <1>2, <2>1, <3>1 DEF ChildOf, Job
      <3>2. CASE u # s
        <4>1. hand'[Job(u)] = hand[Job(u)]
          BY <1>2, <1>s, <2>1, <3>2
        <4>2. hand[Job(u)].pc \in PassPC => Verifier[hand[Job(u)].task] \in Task
          BY ChildrenTasks DEF ChildOf, Job
        <4>3. /\ hand[Job(u)].pc = "inline" => row[Verifier[hand[Job(u)].task]].status # "absent"
              /\ hand[Job(u)].pc \in {"look", "wait", "kill", "record"} =>
                   \/ row[Verifier[hand[Job(u)].task]].status \in {"running"} \cup Terminal
                   \/ Verifier[hand[Job(u)].task] \in dropped
          BY DEF ChildInv, At, Job, ChildOf
        <4> QED
          BY <4>1, <4>2, <4>3 DEF PassPC, Onward
      <3> QED
        BY <3>1, <3>2
    <2>7. ChildInv'
      BY <2>6 DEF ChildInv, At, Job, ChildOf
    <2>8. ASSUME NEW i \in Handler, NEW t \in Task PROVE Drives(i, t)' <=> Drives(i, t) /\ i # h
      BY <1>2, <1>s, <2>1, <2>2 DEF Drives, Driving
    <2>9. \A i \in Handler : hand'[i].pc \in {"finish", "kill", "record", "rewrite"} =>
            i # h /\ hand'[i] = hand[i]
      BY <1>2, <1>s, <2>1
    <2> QED
      BY <2>5, <2>7, <2>8, <2>9
  <1> QED
    BY <1>0, <1>1, <1>2

LEMMA ClaimRowHand ==
  ASSUME IInv, NEW h \in Handler, ClaimRow(h), \A u \in Task : Onward(u) PROVE HandInv'
  <1> USE DEF IInv, HandInv
  <1> DEFINE t == hand[h].task
  <1>1. hand[h].pc = "claim" /\ t \in Task /\ mark' = mark /\ dropped' = dropped /\ unwritten' = unwritten
    BY DEF ClaimRow, At, FrameInv, Quiet, faultVars
  <1>2. Becomes(t, "running", row[t].eval) /\ row[t].status = "queued"
    <2>1. row[t].status \in {"queued", "awaiting-input"} /\ claim(t, Here)
      BY DEF ClaimRow, claimAllowed
    <2> QED
      BY <1>1, <2>1, ClaimedRow DEF LeaseInv
  <1>3. /\ hand'[h].pc = "run" /\ hand'[h].task = t
        /\ \A i \in Handler : i # h => hand'[i] = hand[i]
    <2>1. GoTo(h, "run") /\ "run" \in HandlerPC
      BY DEF ClaimRow, HandlerPC
    <2> QED
      BY <2>1, GoToEffect
  <1> HIDE DEF t
  <1>4. FrameInv'
    BY <1>1, <1>3, FrameMove DEF PassPC, t
  <1>5. LeaseInv'
    <2>1. \A i \in Handler, u \in Task :
            Drives(i, u)' <=> Drives(i, u) \/ (i = h /\ u = t)
      BY <1>1, <1>3 DEF Drives, Driving, t
    <2>2. \A i \in Handler : ~ Drives(i, t)
      BY <1>1, <1>2 DEF LeaseInv
    <2>3. \A i \in Handler : i = h => \A u \in Task : ~ Drives(i, u)
      BY <1>1 DEF Drives, Driving
    <2>4. \A u \in Task : row'[u].status # "awaiting-input"
      BY <1>1, <1>2 DEF LeaseInv, Becomes
    <2>5. ASSUME NEW u \in Task, row'[u].status = "running" PROVE \E i \in Handler : Drives(i, u)'
      <3>1. CASE u = t
        BY <2>1, <3>1
      <3>2. CASE u # t
        BY <1>2, <2>1, <2>5, <3>2 DEF LeaseInv, Becomes
      <3> QED
        BY <3>1, <3>2
    <2>6. ASSUME NEW i \in Handler, NEW u \in Task, Drives(i, u)'
          PROVE  row'[u].status \in {"running", "killed"}
      BY <1>1, <1>2, <2>1, <2>6 DEF LeaseInv, Becomes
    <2>7. ASSUME NEW i \in Handler, NEW k \in Handler, NEW u \in Task, Drives(i, u)', Drives(k, u)'
          PROVE  i = k
      BY <2>1, <2>2, <2>3, <2>7 DEF LeaseInv
    <2> QED
      BY <2>4, <2>5, <2>6, <2>7 DEF LeaseInv
  <1>6. ChildInv'
    BY <1>1, <1>3, ChildOneHandler
  <1>7. JudgeInv'
    <2> DEFINE S == {h}
    <2>1. \A i \in Handler : i \notin S => hand'[i] = hand[i]
      BY <1>3
    <2>2. \A i \in S : hand'[i].pc = "run"
      BY <1>3
    <2>3. \A s \in Slot : hand'[Job(s)].pc \in {"kill", "record", "rewrite"} => mark'[s] # "none"
      BY <1>1, <1>3, SlotHandlers DEF JudgeInv
    <2>4. \A u \in Task : /\ row'[u].eval = row[u].eval
                          /\ row'[u].status = "completed" => row[u].status = "completed"
      BY <1>2 DEF Becomes
    <2> HIDE DEF S
    <2> QED
      BY <1>1, <2>1, <2>2, <2>3, <2>4, JudgeKept, StoreAssumption
  <1> QED
    BY <1>4, <1>5, <1>6, <1>7

LEMMA NoClaimHand ==
  ASSUME IInv, NEW h \in Handler, ClaimRefused(h) \/ ClaimFails(h), \A u \in Task : Onward(u)
  PROVE  HandInv'
  <1> USE DEF IInv, HandInv
  <1>1. /\ hand[h].pc = "claim" /\ hand[h].task \in Task /\ Return(h)
        /\ mark' = mark /\ row' = row /\ dropped \subseteq dropped' /\ unwritten' = unwritten
    BY DEF ClaimRefused, ClaimFails, At, FrameInv, Quiet, faultVars, storeVars
  <1>2. \A s \in Slot : h = Inline(s) =>
          row'[ChildOf(s)].status \in {"running"} \cup Terminal \/ ChildOf(s) \in dropped'
    <2> SUFFICES ASSUME NEW s \in Slot, h = Inline(s)
                 PROVE  row'[ChildOf(s)].status \in {"running"} \cup Terminal \/ ChildOf(s) \in dropped'
      OBVIOUS
    <2>1. At(Job(s), "inline") /\ hand[h].task = ChildOf(s) /\ ChildOf(s) \in Task
      BY <1>1 DEF FrameInv, At
    <2>2. CASE ClaimFails(h)
      BY <2>1, <2>2 DEF ClaimFails
    <2>3. CASE ClaimRefused(h)
      <3>1. row[ChildOf(s)].status \notin {"queued", "awaiting-input", "absent"}
        BY <2>1, <2>3, WaitsAssumption DEF ClaimRefused, claimAllowed, ChildInv
      <3>2. row[ChildOf(s)].status \in Status
        BY <2>1 DEF TypeOK, StoreTypeOK, Row
      <3> QED
        BY <1>1, <3>1, <3>2, Words
    <2> QED
      BY <2>2, <2>3
  <1>3. /\ FrameInv' /\ ChildInv'
        /\ \A i \in Handler, t \in Task : Drives(i, t)' <=> Drives(i, t) /\ i # h
        /\ \A i \in Handler : hand'[i].pc \in {"finish", "kill", "record", "rewrite"} =>
             i # h /\ hand'[i] = hand[i]
    BY <1>1, <1>2, ReturnHand
  <1>4. LeaseInv'
    <2>1. \A t \in Task : ~ Drives(h, t)
      BY <1>1 DEF Drives, Driving
    <2>2. \A i \in Handler, t \in Task : Drives(i, t)' <=> Drives(i, t)
      BY <1>3, <2>1
    <2> QED
      BY <1>1, <2>2, LeaseKept DEF Kept
  <1>5. JudgeInv'
    BY <1>1, <1>3, SlotHandlers DEF JudgeInv, Judged, At
  <1> QED
    BY <1>3, <1>4, <1>5

LEMMA TurnEndHand ==
  ASSUME IInv, NEW h \in Handler, TurnEnd(h), \A u \in Task : Onward(u) PROVE HandInv'
  <1> USE DEF IInv, HandInv
  <1>1. mark' = mark /\ row' = row /\ dropped' = dropped /\ unwritten' = unwritten
    BY DEF TurnEnd, Quiet, faultVars, storeVars
  <1>2. /\ hand[h].pc = "run" /\ hand'[h].pc \in {"discard", "child", "finish"}
        /\ hand'[h].task = hand[h].task
        /\ hand'[h].pc = "child" => hand[h].task \in Evaluable
        /\ hand'[h].pc = "finish" => hand[h].task \notin Evaluable \/ hand'[h].verdict # "completed"
        /\ \A i \in Handler : i # h => hand'[i] = hand[i]
    BY TurnEndEffect
  <1>3. hand[h].task \in Task
    BY <1>2 DEF FrameInv
  <1>4. \A s \in Slot : h = Inline(s) => hand[h].task \notin Evaluable
    BY <1>2, ChildrenTasks DEF FrameInv, At, PassPC
  <1>5. FrameInv'
    <2>1. \A s \in Slot : h = Inline(s) => hand'[h].pc \in {"claim", "run", "discard", "finish"}
      BY <1>2, <1>4
    <2>2. \A s \in Slot : h = Job(s) => (hand'[h].pc \in PassPC => hand'[h].task \in Evaluable)
      BY <1>2 DEF PassPC
    <2> QED
      BY <1>2, <1>3, <2>1, <2>2, FrameMove
  <1>6. LeaseInv'
    <2>1. \A i \in Handler, t \in Task : Drives(i, t)' <=> Drives(i, t)
      BY <1>2 DEF Drives, Driving
    <2> QED
      BY <1>1, <2>1, LeaseKept DEF Kept
  <1>7. ChildInv'
    BY <1>1, <1>2, ChildOneHandler
  <1>8. JudgeInv'
    <2> DEFINE S == {h}
    <2>1. \A i \in Handler : i \notin S => hand'[i] = hand[i]
      BY <1>2
    <2>2. \A i \in S : hand'[i].pc = "finish" =>
            hand'[i].task \notin Evaluable \/ hand'[i].verdict # "completed"
      BY <1>2
    <2>3. \A s \in Slot : hand'[Job(s)].pc \in {"kill", "record", "rewrite"} => mark'[s] # "none"
      BY <1>1, <1>2, SlotHandlers DEF JudgeInv
    <2> HIDE DEF S
    <2> QED
      BY <1>1, <2>1, <2>2, <2>3, JudgeKept, StoreAssumption
  <1> QED
    BY <1>5, <1>6, <1>7, <1>8

LEMMA FinishHand ==
  ASSUME IInv, NEW h \in Handler, Discard(h) \/ Finish(h), \A u \in Task : Onward(u)
  PROVE  HandInv'
  <1> USE DEF IInv, HandInv
  <1> DEFINE t == hand[h].task
  <1>1. /\ hand[h].pc \in {"discard", "finish"} /\ t \in Task /\ Return(h)
        /\ mark' = mark /\ dropped' = dropped /\ unwritten' = unwritten
    BY DEF Discard, Finish, At, FrameInv, Quiet, faultVars
  <1>2. PICK v \in Terminal : /\ Becomes(t, v, row[t].eval)
                              /\ v = "completed" => At(h, "finish") /\ hand[h].verdict = "completed"
    <2>1. CASE Discard(h)
      <3>1. finish(t, "killed") /\ "killed" \in Terminal
        BY <2>1, Words DEF Discard
      <3> QED
        BY <1>1, <3>1, FinishedRow
    <2>2. CASE Finish(h)
      <3>1. finish(t, hand[h].verdict) /\ hand[h].verdict \in Terminal /\ At(h, "finish")
        BY <2>2, Words DEF Finish, TypeOK, Hand
      <3> QED
        BY <1>1, <3>1, FinishedRow
    <2> QED
      BY <2>1, <2>2
  <1>3. Drives(h, t)
    BY <1>1 DEF Drives, Driving
  <1>4. \A s \in Slot : h = Inline(s) => ChildOf(s) = t
    BY <1>1 DEF FrameInv, At
  <1>5. /\ FrameInv' /\ ChildInv'
        /\ \A i \in Handler, u \in Task : Drives(i, u)' <=> Drives(i, u) /\ i # h
        /\ \A i \in Handler : hand'[i].pc \in {"finish", "kill", "record", "rewrite"} =>
             i # h /\ hand'[i] = hand[i]
    <2>1. \A s \in Slot : h = Inline(s) =>
            row'[ChildOf(s)].status \in {"running"} \cup Terminal \/ ChildOf(s) \in dropped'
      BY <1>2, <1>4 DEF Becomes
    <2> QED
      BY <1>1, <2>1, ReturnHand
  <1> HIDE DEF t
  <1>6. LeaseInv'
    <2>1. \A u \in Task : row'[u].status # "awaiting-input"
      BY <1>1, <1>2, Words DEF LeaseInv, Becomes
    <2>2. ASSUME NEW u \in Task, row'[u].status = "running" PROVE \E i \in Handler : Drives(i, u)'
      <3>1. u # t /\ row[u].status = "running"
        BY <1>1, <1>2, <2>2, Words DEF Becomes
      <3>2. PICK i \in Handler : Drives(i, u)
        BY <3>1 DEF LeaseInv
      <3>3. i # h
        BY <1>3, <3>1, <3>2 DEF Drives
      <3> QED
        BY <1>5, <3>2, <3>3
    <2>3. ASSUME NEW i \in Handler, NEW u \in Task, Drives(i, u)'
          PROVE  row'[u].status \in {"running", "killed"}
      <3>1. Drives(i, u) /\ i # h
        BY <1>5, <2>3
      <3>2. u # t
        BY <1>1, <1>3, <3>1 DEF LeaseInv
      <3> QED
        BY <1>2, <3>1, <3>2 DEF LeaseInv, Becomes
    <2>4. \A i, k \in Handler, u \in Task : Drives(i, u)' /\ Drives(k, u)' => i = k
      BY <1>5 DEF LeaseInv
    <2> QED
      BY <2>1, <2>2, <2>3, <2>4 DEF LeaseInv
  <1>7. JudgeInv'
    <2>1. \A u \in Task : row'[u].eval = row[u].eval
      BY <1>1, <1>2 DEF Becomes
    <2>2. \A s \in Slot : hand'[Job(s)].pc \in {"kill", "record", "rewrite"} => mark'[s] # "none"
      BY <1>1, <1>5, SlotHandlers DEF JudgeInv
    <2>3. ASSUME NEW i \in Handler, hand'[i].pc = "finish", hand'[i].verdict = "completed",
                 hand'[i].task \in Evaluable
          PROVE  Judged(hand[i].task)'
      <3>1. hand'[i] = hand[i]
        BY <1>5, <2>3
      <3> QED
        BY <1>1, <2>1, <2>3, <3>1, StoreAssumption DEF JudgeInv, At, Judged
    <2>4. ASSUME NEW u \in Evaluable, row'[u].status = "completed" PROVE Judged(u)'
      <3>0. u \in Task
        BY StoreAssumption
      <3>1. CASE u = t
        BY <1>1, <1>2, <2>1, <2>4, <3>0, <3>1 DEF JudgeInv, Judged, Becomes, t
      <3>2. CASE u # t
        BY <1>1, <1>2, <2>1, <2>4, <3>0, <3>2 DEF JudgeInv, Judged, Becomes
      <3> QED
        BY <3>1, <3>2
    <2> QED
      BY <2>2, <2>3, <2>4 DEF JudgeInv, At
  <1> QED
    BY <1>5, <1>6, <1>7

LEMMA SpawnHand ==
  ASSUME IInv, NEW s \in Slot, Spawn(s), \A u \in Task : Onward(u) PROVE HandInv'
  <1> USE DEF IInv, HandInv
  <1> DEFINE t == ChildOf(s)
  <1>1. mark' = mark /\ dropped' = dropped /\ unwritten' = unwritten
    BY DEF Spawn, Quiet, faultVars
  <1>2. /\ hand[Job(s)].pc = "child" /\ t \in Task \ Evaluable /\ create(t)
        /\ hand'[Job(s)].pc = "inline" /\ hand'[Job(s)].task = hand[Job(s)].task
        /\ hand'[Inline(s)].pc = "claim" /\ hand'[Inline(s)].task = t
        /\ \A i \in Handler : i \notin {Job(s), Inline(s)} => hand'[i] = hand[i]
    BY SpawnEffect
  <1>3. Becomes(t, "queued", "none") /\ row[t].status = "absent"
    BY <1>2, CreateRow
  <1>4. /\ Job(s) \in Handler /\ Inline(s) \in Handler /\ Job(s) # Inline(s)
        /\ \A u \in Slot : /\ Job(u) \in Handler /\ Inline(u) \in Handler /\ Job(u) # Inline(u)
                           /\ Job(u) # Inline(s) /\ Inline(u) # Job(s)
                           /\ u # s => Job(u) # Job(s) /\ Inline(u) # Inline(s)
    BY SlotHandlers
  <1>5. \A u \in Slot :
          /\ hand[Inline(u)].pc = "idle" <=> ~ hand[Job(u)].pc = "inline"
          /\ hand[Job(u)].pc = "inline" => hand[Inline(u)].task = Verifier[hand[Job(u)].task]
          /\ hand[Inline(u)].pc \in {"idle", "claim", "run", "discard", "finish"}
          /\ hand[Job(u)].pc \in PassPC => hand[Job(u)].task \in Evaluable
    BY DEF FrameInv, At, Job, ChildOf, PassPC
  <1>6. t = Verifier[hand[Job(s)].task]
    BY DEF ChildOf, Job
  <1> HIDE DEF t
  <1>7. FrameInv'
    <2>1. \A i \in Handler : hand'[i].pc # "idle" => hand'[i].task \in Task
      <3>1. \A i \in Handler : hand[i].pc # "idle" => hand[i].task \in Task
        BY DEF FrameInv
      <3> QED
        BY <1>2, <3>1
    <2>2. ASSUME NEW u \in Slot
          PROVE  /\ hand'[Inline(u)].pc = "idle" <=> ~ hand'[Job(u)].pc = "inline"
                 /\ hand'[Job(u)].pc = "inline" => hand'[Inline(u)].task = Verifier[hand'[Job(u)].task]
                 /\ hand'[Inline(u)].pc \in {"idle", "claim", "run", "discard", "finish"}
                 /\ hand'[Job(u)].pc \in PassPC => hand'[Job(u)].task \in Evaluable
      <3>1. CASE u = s
        BY <1>2, <1>5, <1>6, <3>1 DEF PassPC
      <3>2. CASE u # s
        BY <1>2, <1>4, <1>5, <3>2
      <3> QED
        BY <3>1, <3>2
    <2> QED
      BY <2>1, <2>2 DEF FrameInv, At, Job, ChildOf, PassPC
  <1>8. LeaseInv'
    <2> DEFINE S == {Job(s), Inline(s)}
    <2>1. S \subseteq Handler /\ \A i \in Handler : i \notin S => hand'[i] = hand[i]
      BY <1>2, <1>4
    <2>2. \A i \in S : \/ hand[i].pc \notin Driving /\ hand'[i].pc \notin Driving
                       \/ /\ hand[i].pc \in Driving /\ hand'[i].pc \in Driving
                          /\ hand'[i].task = hand[i].task
      <3>1. hand[Inline(s)].pc = "idle"
        BY <1>2, <1>5
      <3> QED
        BY <1>2, <3>1 DEF Driving
    <2> HIDE DEF S
    <2>3. \A h \in Handler, u \in Task : Drives(h, u)' <=> Drives(h, u)
      BY <2>1, <2>2, DrivesKept
    <2>4. \A u \in Task : Kept(u)
      BY <1>3 DEF Kept, Becomes
    <2> QED
      BY <2>3, <2>4, LeaseKept
  <1>9. ChildInv'
    <2>1. ASSUME NEW u \in Slot
          PROVE  /\ hand'[Job(u)].pc = "inline" => row'[Verifier[hand'[Job(u)].task]].status # "absent"
                 /\ hand'[Job(u)].pc \in {"look", "wait", "kill", "record"} =>
                      \/ row'[Verifier[hand'[Job(u)].task]].status \in {"running"} \cup Terminal
                      \/ Verifier[hand'[Job(u)].task] \in dropped'
      <3>1. CASE u = s
        BY <1>2, <1>3, <1>6, <3>1 DEF Becomes
      <3>2. CASE u # s
        <4>1. hand'[Job(u)] = hand[Job(u)]
          BY <1>2, <1>4, <3>2
        <4>2. hand[Job(u)].pc \in PassPC => Verifier[hand[Job(u)].task] \in Task
          BY ChildrenTasks DEF ChildOf, Job
        <4>3. /\ hand[Job(u)].pc = "inline" => row[Verifier[hand[Job(u)].task]].status # "absent"
              /\ hand[Job(u)].pc \in {"look", "wait", "kill", "record"} =>
                   \/ row[Verifier[hand[Job(u)].task]].status \in {"running"} \cup Terminal
                   \/ Verifier[hand[Job(u)].task] \in dropped
          BY DEF ChildInv, At, Job, ChildOf
        <4> QED
          BY <1>1, <4>1, <4>2, <4>3 DEF PassPC, Onward
      <3> QED
        BY <3>1, <3>2
    <2> QED
      BY <2>1 DEF ChildInv, At, Job, ChildOf
  <1>10. JudgeInv'
    <2>1. \A u \in Evaluable : row'[u] = row[u]
      BY <1>2, <1>3, StoreAssumption DEF Becomes
    <2>2. \A u \in Slot : hand'[Job(u)].pc \in {"kill", "record", "rewrite"} => mark'[u] # "none"
      <3>1. \A u \in Slot : hand[Job(u)].pc \in {"kill", "record", "rewrite"} => mark[u] # "none"
        BY DEF JudgeInv
      <3> QED
        BY <1>1, <1>2, <1>4, <3>1
    <2>3. \A i \in Handler : hand'[i].pc = "finish" => hand'[i] = hand[i]
      BY <1>2
    <2> QED
      BY <1>1, <2>1, <2>2, <2>3 DEF JudgeInv, Judged, At
  <1> QED
    BY <1>7, <1>8, <1>9, <1>10

\* The handler of the parent goes on to wait, to kill, or with a verdict.
LEMMA PassMove ==
  ASSUME IInv, NEW s \in Slot, NEW pc \in {"wait", "kill", "record", "rewrite"}, GoTo(Job(s), pc),
         hand[Job(s)].pc \in {"child", "look", "wait", "kill", "record"},
         pc # "rewrite" => hand[Job(s)].pc \in {"look", "wait", "kill"}, dropped' = dropped, unwritten' = unwritten,
         \A u \in Task : Onward(u),
         row' = row \/ \E t \in Task : Becomes(t, "killed", row[t].eval),
         pc # "wait" => mark'[s] # "none",
         \A u \in Slot : u # s => mark'[u] = mark[u]
  PROVE  HandInv'
  <1> USE DEF IInv, HandInv
  <1>1. Job(s) \in Handler /\ \A u \in Slot : Job(s) # Inline(u) /\ (Job(s) = Job(u) => u = s)
    BY SlotHandlers
  <1>2. /\ hand'[Job(s)].pc = pc /\ hand'[Job(s)].task = hand[Job(s)].task
        /\ \A i \in Handler : i # Job(s) => hand'[i] = hand[i]
    <2>1. pc \in HandlerPC
      BY DEF HandlerPC
    <2> QED
      BY <1>1, <2>1, GoToEffect
  <1>3. hand[Job(s)].task \in Task /\ hand[Job(s)].task \in Evaluable
    BY ChildrenTasks, StoreAssumption DEF PassPC
  <1>4. FrameInv'
    BY <1>1, <1>2, <1>3, FrameMove
  <1>5. LeaseInv'
    <2>1. \A i \in Handler, t \in Task : Drives(i, t)' <=> Drives(i, t)
      BY <1>2 DEF Drives, Driving
    <2>2. \A t \in Task : Kept(t)
      BY DEF Kept, Becomes
    <2> QED
      BY <2>1, <2>2, LeaseKept
  <1>6. ChildInv'
    BY <1>1, <1>2, ChildOneHandler
  <1>7. JudgeInv'
    <2> DEFINE S == {Job(s)}
    <2>1. \A i \in Handler : i \notin S => hand'[i] = hand[i]
      BY <1>2
    <2>2. \A i \in S : hand'[i].pc # "finish"
      BY <1>2
    <2>3. \A u \in Slot : hand'[Job(u)].pc \in {"kill", "record", "rewrite"} => mark'[u] # "none"
      <3>1. \A u \in Slot : hand[Job(u)].pc \in {"kill", "record", "rewrite"} => mark[u] # "none"
        BY DEF JudgeInv
      <3>2. \A u \in Slot : u # s => hand'[Job(u)] = hand[Job(u)]
        BY <1>1, <1>2, SlotHandlers
      <3> QED
        BY <1>2, <3>1, <3>2
    <2>4. \A t \in Task : /\ row'[t].eval = row[t].eval
                          /\ row'[t].status = "completed" => row[t].status = "completed"
      BY DEF Becomes
    <2> HIDE DEF S
    <2> QED
      BY <2>1, <2>2, <2>3, <2>4, JudgeKept, StoreAssumption
  <1> QED
    BY <1>4, <1>5, <1>6, <1>7

LEMMA PassMovesHand ==
  ASSUME IInv, NEW s \in Slot, \A u \in Task : Onward(u),
         Look(s) \/ Resume(s) \/ KillChild(s) \/ KillChildFails(s) \/ PassThrows(s)
  PROVE  HandInv'
  <1> USE DEF IInv, HandInv
  <1>1. dropped' = dropped /\ unwritten' = unwritten
    BY DEF Look, Resume, KillChild, KillChildFails, PassThrows, Quiet, faultVars
  <1>2. CASE Look(s)
    <2>1. hand[Job(s)].pc = "look" /\ row' = row
      BY <1>2 DEF Look, At, Job, storeVars
    <2>2. \/ Judge(s, row[ChildOf(s)].status) /\ GoTo(Job(s), "record")
          \/ GoTo(Job(s), "wait") /\ mark' = mark
      BY <1>2 DEF Look, Job
    <2>3. CASE Judge(s, row[ChildOf(s)].status) /\ GoTo(Job(s), "record")
      <3>1. mark'[s] # "none" /\ \A u \in Slot : u # s => mark'[u] = mark[u]
        BY <2>3, JudgeEffect
      <3> QED
        BY <1>1, <2>1, <2>3, <3>1, PassMove
    <2>4. CASE GoTo(Job(s), "wait") /\ mark' = mark
      BY <1>1, <2>1, <2>4, PassMove
    <2> QED
      BY <2>2, <2>3, <2>4
  <1>3. CASE Resume(s)
    <2>1. hand[Job(s)].pc = "wait" /\ row' = row /\ Judge(s, wait[s].saw)
      BY <1>3 DEF Resume, At, Job, storeVars
    <2>2. PICK pc \in {"kill", "record", "rewrite"} : GoTo(Job(s), pc)
      BY <1>3 DEF Resume, Job
    <2>3. mark'[s] # "none" /\ \A u \in Slot : u # s => mark'[u] = mark[u]
      BY <2>1, JudgeEffect
    <2>4. pc \in {"wait", "kill", "record", "rewrite"}
      OBVIOUS
    <2> QED
      BY <1>1, <2>1, <2>2, <2>3, <2>4, PassMove
  <1>4. CASE KillChild(s)
    <2>1. /\ hand[Job(s)].pc = "kill" /\ KillAfterWait(ChildOf(s)) /\ mark' = mark
          /\ GoTo(Job(s), "record")
      BY <1>4 DEF KillChild, At, Job
    <2>2. ChildOf(s) \in Task
      BY <2>1, ChildrenTasks DEF PassPC
    <2>3. row' = row \/ \E t \in Task : Becomes(t, "killed", row[t].eval)
      BY <2>1, <2>2, KillAfterWaitRow
    <2>4. mark'[s] # "none"
      BY <2>1 DEF JudgeInv
    <2> QED
      BY <1>1, <2>1, <2>3, <2>4, PassMove
  <1>5. CASE KillChildFails(s)
    <2>1. hand[Job(s)].pc = "kill" /\ row' = row /\ mark' = mark /\ GoTo(Job(s), "record")
      BY <1>5 DEF KillChildFails, At, Job, storeVars
    <2>2. mark'[s] # "none"
      BY <2>1 DEF JudgeInv
    <2> QED
      BY <1>1, <2>1, <2>2, PassMove
  <1>6. CASE PassThrows(s)
    <2>1. /\ hand[Job(s)].pc \in {"child", "look", "record"} /\ row' = row
          /\ mark' = [mark EXCEPT ![s] = "refuted"] /\ GoTo(Job(s), "rewrite")
      BY <1>6 DEF PassThrows, At, Job, storeVars
    <2>2. mark'[s] # "none" /\ \A u \in Slot : u # s => mark'[u] = mark[u]
      BY <2>1 DEF TypeOK
    <2> QED
      BY <1>1, <2>1, <2>2, PassMove
  <1> QED
    BY <1>2, <1>3, <1>4, <1>5, <1>6

\* The pass ends with its verdict on the row, or with a verdict that could not be written.
LEMMA RecordHand ==
  ASSUME IInv, NEW s \in Slot, Record(s) \/ RewriteFails(s), \A u \in Task : Onward(u) PROVE HandInv'
  <1> USE DEF IInv, HandInv
  <1> DEFINE t == hand[Job(s)].task
  <1>1. Job(s) \in Handler /\ \A u \in Slot : Job(s) # Inline(u) /\ (Job(s) = Job(u) => u = s)
    BY SlotHandlers
  <1>2. /\ hand[Job(s)].pc \in {"record", "rewrite"} /\ GoTo(Job(s), "finish")
        /\ mark' = [mark EXCEPT ![s] = "none"] /\ dropped' = dropped
        /\ \/ recordEval(t, mark[s], 0) /\ unwritten' = unwritten
           \/ row' = row /\ unwritten' = unwritten \cup {t}
    BY DEF Record, RewriteFails, At, Job, Quiet, storeVars, faultVars
  <1>3. /\ hand'[Job(s)].pc = "finish" /\ hand'[Job(s)].task = t
        /\ \A i \in Handler : i # Job(s) => hand'[i] = hand[i]
    <2>1. "finish" \in HandlerPC
      BY DEF HandlerPC
    <2> QED
      BY <1>1, <1>2, <2>1, GoToEffect
  <1>4. t \in Task /\ mark[s] \in EvalMark /\ mark[s] # "none"
    BY <1>1, <1>2 DEF FrameInv, TypeOK, JudgeInv
  <1>5. \/ Becomes(t, row[t].status, mark[s]) /\ unwritten' = unwritten
        \/ row' = row /\ unwritten' = unwritten \cup {t}
    BY <1>2, <1>4, JudgedRow
  <1> HIDE DEF t
  <1>6. FrameInv'
    BY <1>1, <1>2, <1>3, <1>4, FrameMove DEF PassPC
  <1>7. LeaseInv'
    <2>1. \A i \in Handler, u \in Task : Drives(i, u)' <=> Drives(i, u)
      BY <1>2, <1>3 DEF Drives, Driving, t
    <2>2. \A u \in Task : Kept(u)
      BY <1>5 DEF Kept, Becomes
    <2> QED
      BY <2>1, <2>2, LeaseKept
  <1>8. ChildInv'
    BY <1>1, <1>2, <1>3, ChildOneHandler
  <1>9. JudgeInv'
    <2>1. \A u \in Slot : hand'[Job(u)].pc \in {"kill", "record", "rewrite"} => mark'[u] # "none"
      <3>1. \A u \in Slot : hand[Job(u)].pc \in {"kill", "record", "rewrite"} => mark[u] # "none"
        BY DEF JudgeInv
      <3>2. \A u \in Slot : u # s => hand'[Job(u)] = hand[Job(u)] /\ mark'[u] = mark[u]
        BY <1>1, <1>2, <1>3, SlotHandlers DEF TypeOK
      <3> QED
        BY <1>3, <3>1, <3>2
    <2>2. \A u \in Task : Judged(u) => Judged(u)'
      BY <1>4, <1>5 DEF Becomes, Judged
    <2>0. row'[t].eval # "none" \/ t \in unwritten'
      BY <1>4, <1>5 DEF Becomes, Judged
    <2>3. ASSUME NEW i \in Handler, hand'[i].pc = "finish", hand'[i].verdict = "completed",
                 hand'[i].task \in Evaluable
          PROVE  Judged(hand[i].task)'
      <3>1. CASE i = Job(s)
        BY <1>3, <2>0, <3>1 DEF Judged
      <3>2. CASE i # Job(s)
        <4>1. Judged(hand[i].task) /\ hand'[i] = hand[i] /\ hand[i].task \in Task
          BY <1>3, <2>3, <3>2, StoreAssumption DEF JudgeInv, At
        <4>2. Judged(hand[i].task) => row'[hand[i].task].eval # "none" \/ hand[i].task \in unwritten'
          BY <2>2, <4>1 DEF Judged
        <4> QED
          BY <4>1, <4>2 DEF Judged
      <3> QED
        BY <3>1, <3>2
    <2>4. ASSUME NEW u \in Evaluable, row'[u].status = "completed" PROVE Judged(u)'
      <3>1. u \in Task /\ row[u].status = "completed"
        BY <1>4, <1>5, <2>4, StoreAssumption DEF Becomes
      <3> QED
        BY <2>2, <3>1 DEF JudgeInv
    <2> QED
      BY <2>1, <2>3, <2>4 DEF JudgeInv, At
  <1> QED
    BY <1>6, <1>7, <1>8, <1>9

LEMMA HandStep ==
  ASSUME IInv, [Next]_vars PROVE HandInv'
  <1> USE DEF IInv, HandInv
  <1>0. \A u \in Task : Onward(u)
    BY RowsGoOn
  <1>1. CASE WaiterStep \/ Stop \/ StopRunner \/ UNCHANGED vars
    <2>1. row' = row /\ hand' = hand /\ mark' = mark /\ dropped' = dropped /\ unwritten' = unwritten
      BY <1>1 DEF WaiterStep, WaitStep, Read, Found, Sleep, Poll, GiveUp, ReadFails, Deliver,
                  LoseListener, StopWaiter, Stop, StopRunner, vars, storeVars, faultVars
    <2> QED
      BY <2>1, HandKept
  <1>2. ASSUME NEW h \in Handler, HandlerStep(h) \/ ClaimFails(h) PROVE HandInv'
    BY <1>0, <1>2, ClaimRowHand, NoClaimHand, TurnEndHand, FinishHand DEF HandlerStep
  <1>3. ASSUME NEW s \in Slot, PassStep(s) \/ PassFails(s) \/ \E t \in Task : Dequeue(s, t) PROVE HandInv'
    BY <1>0, <1>3, SpawnHand, PassMovesHand, RecordHand, DequeueHand DEF PassStep, PassFails
  <1>4. ASSUME NEW c \in Client, CallStep(c) \/ Create(c) \/ Watch(c) \/ KillRowFails(c) PROVE HandInv'
    <2>1. RowFor[c] \in Task
      BY WaitsAssumption
    <2>2. hand' = hand /\ mark' = mark /\ dropped' = dropped /\ unwritten' = unwritten
      BY <1>4 DEF CallStep, Answered, KillRow, After, Create, Watch, KillRowFails, faultVars
    <2>3. \/ row' = row
          \/ \E t \in Task : /\ row[t].status = "absent" /\ Becomes(t, "queued", "none")
          \/ \E t \in Task : Becomes(t, "killed", row[t].eval)
      <3>1. CASE Create(c)
        BY <2>1, <3>1, CreateRow DEF Create
      <3>2. CASE KillRow(c)
        BY <2>1, <3>2, KillAfterWaitRow DEF KillRow
      <3>3. CASE Answered(c) \/ After(c) \/ Watch(c) \/ KillRowFails(c)
        BY <3>3 DEF Answered, After, Watch, KillRowFails, storeVars
      <3> QED
        BY <1>4, <3>1, <3>2, <3>3 DEF CallStep
    <2> QED
      BY <2>2, <2>3, HandKept
  <1>5. ASSUME NEW t \in Task, Kill(t) PROVE HandInv'
    <2>1. hand' = hand /\ mark' = mark /\ dropped' = dropped /\ unwritten' = unwritten /\ Becomes(t, "killed", row[t].eval)
      BY <1>5, KilledRow DEF Kill, faultVars
    <2> QED
      BY <2>1, HandKept
  <1> QED
    BY <1>1, <1>2, <1>3, <1>4, <1>5, NextCases

-----------------------------------------------------------------------------
\* The waits and the calls.
LEMMA WaitKept ==
  ASSUME IInv, NEW w \in Waiter, WaitMove(w), \A t \in Task : Onward(t)
  PROVE  WaitOk(w)'
  <1>1. WaitOk(w)
    BY DEF IInv, WaitInv
  <1>2. CASE wait'[w] = wait[w]
    <2>1. wait'[w].saw \in Terminal => wait'[w].task \in Task
      BY <1>1, <1>2 DEF WaitOk
    <2> QED
      BY <1>1, <1>2, <2>1 DEF WaitOk, Onward
  <1>3. CASE wait'[w] # wait[w]
    <2>1. /\ wait[w].pc # "none" /\ wait[w].task \in Task
          /\ wait'[w].pc # "none" /\ wait'[w].task = wait[w].task
          /\ \/ wait'[w].saw = wait[w].saw
             \/ wait'[w].saw \in Gone \cup {"open"}
             \/ wait'[w].saw = "error" /\ StoreFails
             \/ wait'[w].saw \in Terminal /\ row[wait[w].task].status = wait'[w].saw
          /\ wait'[w].pc = "ended" => wait'[w].saw # "open"
      BY <1>1, <1>3 DEF WaitMove, WaitOk
    <2>2. CASE wait'[w].saw = wait[w].saw
      BY <1>1, <2>1, <2>2 DEF WaitOk, Onward
    <2>3. CASE wait'[w].saw \in Gone \cup {"open"}
      BY <2>1, <2>3, WaitWords DEF WaitOk
    <2>4. CASE wait'[w].saw = "error" /\ StoreFails
      BY <2>1, <2>4, WaitWords DEF WaitOk
    <2>5. CASE wait'[w].saw \in Terminal /\ row[wait[w].task].status = wait'[w].saw
      BY <2>1, <2>5, WaitWords DEF WaitOk, Onward
    <2> QED
      BY <2>1, <2>2, <2>3, <2>4, <2>5
  <1> QED
    BY <1>2, <1>3

LEMMA WaitNew ==
  ASSUME NEW w \in Waiter,
         \/ wait'[w] = NoWait
         \/ /\ wait'[w].task \in Task
            /\ \/ wait'[w].pc = "ended" /\ wait'[w].saw = "stopped"
               \/ wait'[w].pc = "read" /\ wait'[w].saw = "open"
  PROVE  WaitOk(w)'
  <1>1. "stopped" \notin Terminal /\ "open" \notin Terminal
    BY WaitWords
  <1> QED
    BY <1>1, NoWaitTyped DEF WaitOk

\* What a step does to the waits: they go on, or one begins or is forgotten.
LEMMA WaitsMove ==
  ASSUME IInv, [Next]_vars
  PROVE  \A w \in Waiter :
           \/ WaitMove(w)
           \/ wait'[w] = NoWait
           \/ /\ wait'[w].task \in Task
              /\ \/ wait'[w].pc = "ended" /\ wait'[w].saw = "stopped"
                 \/ wait'[w].pc = "read" /\ wait'[w].saw = "open"
  <1> USE DEF IInv, HandInv
  <1>1. CASE WaiterStep
    BY <1>1, WaiterMoves
  <1>2. CASE wait' = wait
    BY <1>2 DEF WaitMove
  <1>3. ASSUME NEW v \in Waiter, NEW t \in Task, Begin(v, t) PROVE
          \A w \in Waiter :
           \/ WaitMove(w)
           \/ /\ wait'[w].task \in Task
              /\ \/ wait'[w].pc = "ended" /\ wait'[w].saw = "stopped"
                 \/ wait'[w].pc = "read" /\ wait'[w].saw = "open"
    <2>1. /\ wait'[v].task = t
          /\ \/ wait'[v].pc = "ended" /\ wait'[v].saw = "stopped"
             \/ wait'[v].pc = "read" /\ wait'[v].saw = "open"
          /\ \A u \in Waiter : u # v => wait'[u] = wait[u]
      BY <1>3, BeginEffect
    <2> QED
      BY <2>1 DEF WaitMove
  <1>4. ASSUME NEW v \in Waiter, wait' = [wait EXCEPT ![v] = NoWait]
        PROVE  \A w \in Waiter : WaitMove(w) \/ wait'[w] = NoWait
    BY <1>4 DEF WaitMove, TypeOK
  <1>5. ASSUME NEW h \in Handler, HandlerStep(h) \/ ClaimFails(h) PROVE wait' = wait
    BY <1>5 DEF HandlerStep, ClaimRow, ClaimRefused, TurnEnd, Discard, Finish, ClaimFails,
                Quiet, waitVars
  <1>6. ASSUME NEW s \in Slot, PassStep(s) \/ PassFails(s) \/ \E t \in Task : Dequeue(s, t)
        PROVE  \/ wait' = wait \/ wait' = [wait EXCEPT ![s] = NoWait]
               \/ \E t \in Task : Begin(s, t)
    <2>1. CASE Look(s)
      <3>1. ChildOf(s) \in Task
        <4>1. hand[Job(s)].pc = "look"
          BY <2>1 DEF Look, At, Job
        <4> QED
          BY <4>1, ChildrenTasks DEF PassPC
      <3> QED
        BY <2>1, <3>1 DEF Look, waitVars
    <2>2. CASE \/ Spawn(s) \/ Resume(s) \/ KillChild(s) \/ \E t \in Task : Dequeue(s, t)
               \/ KillChildFails(s) \/ PassThrows(s)
      BY <2>2 DEF Spawn, Resume, KillChild, KillChildFails, PassThrows, Dequeue, waitVars
    <2>3. CASE Record(s) \/ RewriteFails(s)
      BY <2>3 DEF Record, RewriteFails
    <2> QED
      BY <1>6, <2>1, <2>2, <2>3 DEF PassStep, PassFails
  <1>7. ASSUME NEW c \in Client, CallStep(c) \/ Create(c) \/ Watch(c) \/ KillRowFails(c)
        PROVE  \/ wait' = wait \/ wait' = [wait EXCEPT ![c] = NoWait]
               \/ Begin(c, RowFor[c])
    BY <1>7 DEF CallStep, Answered, KillRow, KillRowFails, After, Create, Watch, GoOn, Answer, waitVars
  <1>8. ASSUME NEW t \in Task, Kill(t) PROVE wait' = wait
    BY <1>8 DEF Kill, waitVars
  <1>9. CASE Stop \/ StopRunner \/ UNCHANGED vars
    <2>1. wait' = wait
      BY <1>9 DEF Stop, StopRunner, vars, waitVars
    <2> QED
      BY <1>2, <2>1
  <1>10. Slot \subseteq Waiter /\ Client \subseteq Waiter /\ \A c \in Client : RowFor[c] \in Task
    BY WaitsAssumption DEF Waiter
  <1>11. ASSUME NEW h \in Handler, HandlerStep(h) \/ ClaimFails(h)
         PROVE  \A w \in Waiter : WaitMove(w)
    BY <1>5, <1>11 DEF WaitMove
  <1>12. ASSUME NEW t \in Task, Kill(t) PROVE \A w \in Waiter : WaitMove(w)
    BY <1>8, <1>12 DEF WaitMove
  <1>13. ASSUME NEW v \in Waiter,
                \/ wait' = wait \/ wait' = [wait EXCEPT ![v] = NoWait]
                \/ \E t \in Task : Begin(v, t)
         PROVE \A w \in Waiter :
           \/ WaitMove(w)
           \/ wait'[w] = NoWait
           \/ /\ wait'[w].task \in Task
              /\ \/ wait'[w].pc = "ended" /\ wait'[w].saw = "stopped"
                 \/ wait'[w].pc = "read" /\ wait'[w].saw = "open"
    BY <1>2, <1>3, <1>4, <1>13
  <1>14. ASSUME NEW s \in Slot, PassStep(s) \/ PassFails(s) \/ \E t \in Task : Dequeue(s, t)
         PROVE \A w \in Waiter :
           \/ WaitMove(w)
           \/ wait'[w] = NoWait
           \/ /\ wait'[w].task \in Task
              /\ \/ wait'[w].pc = "ended" /\ wait'[w].saw = "stopped"
                 \/ wait'[w].pc = "read" /\ wait'[w].saw = "open"
    BY <1>6, <1>10, <1>13, <1>14
  <1>15. ASSUME NEW c \in Client, CallStep(c) \/ Create(c) \/ Watch(c) \/ KillRowFails(c)
         PROVE \A w \in Waiter :
           \/ WaitMove(w)
           \/ wait'[w] = NoWait
           \/ /\ wait'[w].task \in Task
              /\ \/ wait'[w].pc = "ended" /\ wait'[w].saw = "stopped"
                 \/ wait'[w].pc = "read" /\ wait'[w].saw = "open"
    BY <1>7, <1>10, <1>13, <1>15
  <1> QED
    BY <1>1, <1>9, <1>11, <1>12, <1>14, <1>15, NextCases

LEMMA WaitInvStep ==
  ASSUME IInv, [Next]_vars PROVE WaitInv'
  <1>1. \A t \in Task : Onward(t)
    BY RowsGoOn
  <1>2. ASSUME NEW w \in Waiter PROVE WaitOk(w)'
    BY <1>1, WaitsMove, WaitKept, WaitNew
  <1> QED
    BY <1>2 DEF WaitInv, Waiter

LEMMA CallKept ==
  ASSUME IInv, NEW c \in Client, client'[c] = client[c], answer'[c] = answer[c],
         WaitMove(c), \A t \in Task : Onward(t)
  PROVE  CallOk(c)'
  <1>1. CallOk(c) /\ RowFor[c] \in Task
    BY WaitsAssumption DEF IInv, CallInv
  <1>2. /\ wait'[c].pc # "none" \/ wait'[c] = wait[c]
        /\ wait'[c].task = wait[c].task
        /\ wait[c].pc = "ended" => wait'[c] = wait[c]
    BY DEF WaitMove
  <1>3. client[c] \in {"wait", "kill", "after"} =>
          /\ wait'[c].pc # "none" /\ wait'[c].task = RowFor[c]
          /\ row'[RowFor[c]].status # "absent"
    BY <1>1, <1>2 DEF CallOk, Onward
  <1>4. client[c] \in {"kill", "after"} => wait'[c].pc = "ended" /\ wait'[c].saw \in Gone
    BY <1>1, <1>2 DEF CallOk
  <1>5. /\ client[c] = "after" => row'[RowFor[c]].status \in Terminal
        /\ c \in Owner /\ client[c] = "done" => StoreFails \/ row'[RowFor[c]].status \in Terminal
        /\ answer[c] = "completed" => row'[RowFor[c]].status = "completed"
    BY <1>1 DEF CallOk, Onward
  <1> QED
    BY <1>3, <1>4, <1>5 DEF CallOk

LEMMA CallInvStep ==
  ASSUME IInv, [Next]_vars PROVE CallInv'
  <1> USE DEF IInv, HandInv
  <1>0. \A t \in Task : Onward(t)
    BY RowsGoOn
  <1>1. ASSUME client' = client, answer' = answer, \A c \in Client : WaitMove(c)
        PROVE  CallInv'
    BY <1>0, <1>1, CallKept DEF CallInv
  <1>2. CASE WaiterStep
    <2>1. client' = client /\ answer' = answer
      BY <1>2 DEF WaiterStep, WaitStep, Read, Found, Sleep, Poll, GiveUp, ReadFails, Deliver,
                  LoseListener, StopWaiter, callVars
    <2>2. \A c \in Client : WaitMove(c)
      BY <1>2, WaiterMoves DEF Waiter
    <2> QED
      BY <1>1, <2>1, <2>2
  <1>3. ASSUME NEW h \in Handler, HandlerStep(h) \/ ClaimFails(h) PROVE CallInv'
    <2>1. client' = client /\ answer' = answer /\ wait' = wait
      BY <1>3 DEF HandlerStep, ClaimRow, ClaimRefused, TurnEnd, Discard, Finish, ClaimFails,
                  Quiet, waitVars, callVars
    <2> QED
      BY <1>1, <2>1 DEF WaitMove
  <1>4. ASSUME NEW s \in Slot, PassStep(s) \/ PassFails(s) \/ \E t \in Task : Dequeue(s, t) PROVE CallInv'
    <2>0. s \in Waiter /\ \A c \in Client : c \in Waiter /\ c # s
      BY WaitsAssumption DEF Waiter
    <2>1. client' = client /\ answer' = answer
      BY <1>4 DEF PassStep, Spawn, Look, Resume, KillChild, Record, Dequeue, Quiet, callVars,
                  PassFails, KillChildFails, PassThrows, RewriteFails
    <2>2. \/ wait' = wait \/ wait' = [wait EXCEPT ![s] = NoWait]
          \/ \E t \in Task : Begin(s, t)
      <3>1. CASE Look(s)
        <4>1. hand[Job(s)].pc = "look"
          BY <3>1 DEF Look, At, Job
        <4>2. ChildOf(s) \in Task
          BY <4>1, ChildrenTasks DEF PassPC
        <4> QED
          BY <3>1, <4>2 DEF Look, waitVars
      <3>2. CASE \/ Spawn(s) \/ Resume(s) \/ KillChild(s) \/ \E t \in Task : Dequeue(s, t)
                 \/ KillChildFails(s) \/ PassThrows(s)
        BY <3>2 DEF Spawn, Resume, KillChild, KillChildFails, PassThrows, Dequeue, waitVars
      <3>3. CASE Record(s) \/ RewriteFails(s)
        BY <3>3 DEF Record, RewriteFails
      <3> QED
        BY <1>4, <3>1, <3>2, <3>3 DEF PassStep, PassFails
    <2>3. \A c \in Client : wait'[c] = wait[c]
      <3>1. CASE wait' = wait
        BY <3>1
      <3>2. CASE wait' = [wait EXCEPT ![s] = NoWait]
        BY <2>0, <3>2 DEF TypeOK
      <3>3. ASSUME NEW t \in Task, Begin(s, t) PROVE \A c \in Client : wait'[c] = wait[c]
        <4>1. \A u \in Waiter : u # s => wait'[u] = wait[u]
          BY <2>0, <3>3, BeginEffect
        <4> QED
          BY <2>0, <4>1
      <3> QED
        BY <2>2, <3>1, <3>2, <3>3
    <2> QED
      BY <1>1, <2>1, <2>3 DEF WaitMove
  <1>5. ASSUME NEW c \in Client, CallStep(c) \/ Create(c) \/ Watch(c) \/ KillRowFails(c) PROVE CallInv'
    <2>0. c \in Waiter /\ RowFor[c] \in Task /\ \A d \in Client : d \in Waiter
      BY WaitsAssumption DEF Waiter
    <2>1. CallOk(c) /\ WaitOk(c)
      BY <2>0 DEF CallInv, WaitInv
    <2>2. ASSUME CallOk(c)',
                 \A d \in Client : d # c => /\ client'[d] = client[d] /\ answer'[d] = answer[d]
                                            /\ wait'[d] = wait[d]
          PROVE  CallInv'
      <3>1. ASSUME NEW d \in Client, d # c PROVE CallOk(d)'
        BY <1>0, <2>2, <3>1, CallKept DEF WaitMove
      <3> QED
        BY <2>2, <3>1 DEF CallInv
    <2>3. CASE Create(c) \/ Watch(c)
      <3>1. /\ Begin(c, RowFor[c]) /\ client' = [client EXCEPT ![c] = "wait"] /\ answer' = answer
        BY <2>3 DEF Create, Watch
      <3>2. /\ client'[c] = "wait" /\ \A d \in Client : d # c => client'[d] = client[d]
        BY <3>1, ClientEffect
      <3>3. /\ wait'[c].task = RowFor[c] /\ wait'[c].pc # "none"
            /\ \A u \in Waiter : u # c => wait'[u] = wait[u]
        BY <2>0, <3>1, BeginEffect
      <3>4. row'[RowFor[c]].status # "absent"
        BY <2>0, <2>3, CreateRow DEF Create, Watch, Becomes, storeVars
      <3>5. answer'[c] = "completed" => row'[RowFor[c]].status = "completed"
        BY <1>0, <2>0, <2>1, <3>1 DEF CallOk, Onward
      <3>6. CallOk(c)'
        BY <3>2, <3>3, <3>4, <3>5 DEF CallOk
      <3> QED
        BY <2>0, <2>2, <3>1, <3>2, <3>3, <3>6
    <2>4. ASSUME NEW a \in Got, Answer(c, a),
                 c \in Owner => StoreFails \/ row'[RowFor[c]].status \in Terminal,
                 a = "completed" => row'[RowFor[c]].status = "completed"
          PROVE  CallInv'
      <3>1. /\ client'[c] = "done" /\ answer'[c] = a
            /\ \A d \in Client : d # c => client'[d] = client[d] /\ answer'[d] = answer[d]
            /\ \A u \in Waiter : u # c => wait'[u] = wait[u]
        BY <2>4, AnswerEffect
      <3>2. CallOk(c)'
        BY <2>4, <3>1 DEF CallOk
      <3> QED
        BY <2>0, <2>2, <3>1, <3>2
    <2>5. ASSUME NEW pc \in {"kill", "after"}, GoOn(c, pc),
                 wait[c].pc = "ended" /\ wait[c].saw \in Gone,
                 client[c] \in {"wait", "kill"},
                 pc = "after" => row'[RowFor[c]].status \in Terminal
          PROVE  CallInv'
      <3>1. wait' = wait /\ answer' = answer /\ client' = [client EXCEPT ![c] = pc]
        BY <2>5 DEF GoOn, waitVars
      <3>2. client'[c] = pc /\ \A d \in Client : d # c => client'[d] = client[d]
        BY <3>1, ClientEffect
      <3>3. /\ wait'[c].pc # "none" /\ wait'[c].task = RowFor[c]
            /\ row'[RowFor[c]].status # "absent"
            /\ answer'[c] = "completed" => row'[RowFor[c]].status = "completed"
        BY <1>0, <2>0, <2>1, <2>5, <3>1 DEF CallOk, Onward
      <3>4. CallOk(c)'
        BY <2>5, <3>1, <3>2, <3>3 DEF CallOk
      <3> QED
        BY <2>2, <3>1, <3>2, <3>4
    <2>6. CASE Answered(c)
      <3>1. client[c] = "wait" /\ wait[c].pc = "ended" /\ row' = row
        BY <2>6 DEF Answered, storeVars
      <3>2. \/ GoOn(c, "kill") /\ wait[c].saw \in Gone
            \/ Answer(c, wait[c].saw) /\ (c \in Owner => wait[c].saw \notin Gone)
        BY <2>6 DEF Answered
      <3>3. wait[c].saw \in Got /\ wait[c].task = RowFor[c]
        <4>1. wait[c] \in Wait /\ wait[c].saw # "open"
          BY <2>0, <2>1, <3>1 DEF TypeOK, WaitOk
        <4> QED
          BY <2>1, <3>1, <4>1 DEF Wait, Got, CallOk
      <3>4. wait[c].saw \notin Gone => StoreFails \/ row'[RowFor[c]].status \in Terminal
        BY <2>1, <3>1, <3>3 DEF WaitOk, Got
      <3>5. wait[c].saw = "completed" => row'[RowFor[c]].status = "completed"
        BY <2>1, <3>1, <3>3, Words DEF WaitOk
      <3>6. CASE GoOn(c, "kill") /\ wait[c].saw \in Gone
        BY <2>5, <3>1, <3>6
      <3>7. CASE Answer(c, wait[c].saw) /\ (c \in Owner => wait[c].saw \notin Gone)
        BY <2>4, <3>3, <3>4, <3>5, <3>7
      <3> QED
        BY <3>2, <3>6, <3>7
    <2>7. CASE KillRow(c)
      <3>1. client[c] = "kill" /\ KillAfterWait(RowFor[c])
        BY <2>7 DEF KillRow
      <3>2. wait[c].pc = "ended" /\ wait[c].saw \in Gone /\ row[RowFor[c]].status # "absent"
        BY <2>1, <3>1 DEF CallOk
      <3>3. row'[RowFor[c]].status \in Terminal
        <4>1. row[RowFor[c]].status \in Status
          BY <2>0 DEF TypeOK, StoreTypeOK, Row
        <4>2. row[RowFor[c]].status \notin Open => row[RowFor[c]].status \in Terminal
          BY <3>2, <4>1 DEF Status
        <4> QED
          BY <2>0, <3>1, <4>2, KillAfterWaitRow, Words DEF Becomes
      <3>4. GoOn(c, "after") \/ Answer(c, wait[c].saw)
        BY <2>7 DEF KillRow
      <3>5. wait[c].saw \in Got /\ wait[c].saw # "completed"
        BY <3>2, WaitWords
      <3> QED
        BY <2>4, <2>5, <3>1, <3>2, <3>3, <3>4, <3>5
    <2>8. CASE After(c)
      <3>1. client[c] = "after" /\ row' = row
        BY <2>8 DEF After, storeVars
      <3>2. row[RowFor[c]].status \in Terminal /\ wait[c].saw \in Gone
        BY <2>1, <3>1 DEF CallOk
      <3>3. Answer(c, row[RowFor[c]].status) \/ Answer(c, wait[c].saw)
        BY <2>8 DEF After
      <3>4. /\ row[RowFor[c]].status \in Got /\ wait[c].saw \in Got
            /\ wait[c].saw # "completed"
        BY <3>2, WaitWords
      <3> QED
        BY <2>4, <3>1, <3>2, <3>3, <3>4
    <2>9. CASE KillRowFails(c)
      <3>1. StoreFails /\ Answer(c, "error") /\ "error" \in Got
        BY <2>9 DEF KillRowFails, Got
      <3> QED
        BY <2>4, <3>1
    <2> QED
      BY <1>5, <2>3, <2>6, <2>7, <2>8, <2>9 DEF CallStep
  <1>6. ASSUME NEW t \in Task, Kill(t) PROVE CallInv'
    <2>1. client' = client /\ answer' = answer /\ wait' = wait
      BY <1>6 DEF Kill, waitVars, callVars
    <2> QED
      BY <1>1, <2>1 DEF WaitMove
  <1>7. CASE Stop \/ StopRunner \/ UNCHANGED vars
    <2>1. client' = client /\ answer' = answer /\ wait' = wait
      BY <1>7 DEF Stop, StopRunner, vars, waitVars, callVars
    <2> QED
      BY <1>1, <2>1 DEF WaitMove
  <1> QED
    BY <1>2, <1>3, <1>4, <1>5, <1>6, <1>7, NextCases

-----------------------------------------------------------------------------
LEMMA IInvInit == Init => IInv
  <1> SUFFICES ASSUME Init PROVE IInv
    OBVIOUS
  <1>1. TypeOK
    <2>1. row \in [Task -> Row] /\ job \in [Task -> JobName]
      BY NoRowTyped DEF Init, StoreInit, JobName
    <2>2. hand \in [Handler -> Hand] /\ mark \in [Slot -> EvalMark]
      BY IdleTyped DEF Init, EvalMark
    <2>3. wait \in [Waiter -> Wait] /\ wakeups \in [Task -> Waiter \cup {NoSet}]
      BY NoWaitTyped DEF Init
    <2>4. faults \in 0..MaxFaults
      BY WaitsAssumption DEF Init
    <2> QED
      BY <2>1, <2>2, <2>3, <2>4 DEF Init, TypeOK, StoreTypeOK
  <1>2. \A h \in Handler : hand[h].pc = "idle"
    BY IdleTyped DEF Init
  <1>3. \A t \in Task : row[t].status = "absent" /\ row[t].eval = "none"
    BY NoRowTyped DEF Init, StoreInit
  <1>4. \A s \in Slot : hand[Job(s)].pc = "idle" /\ hand[Inline(s)].pc = "idle"
    BY <1>2, SlotHandlers
  <1>5. FrameInv
    BY <1>2, <1>4 DEF FrameInv, At
  <1>6. LeaseInv
    BY <1>2, <1>3 DEF LeaseInv, Drives, Driving
  <1>7. ChildInv
    BY <1>4 DEF ChildInv, At
  <1>8. JudgeInv
    BY <1>2, <1>3, <1>4, StoreAssumption DEF JudgeInv, At
  <1>9. WaitInv
    <2>1. \A w \in Waiter : wait[w].pc = "none" /\ wait[w].saw = "open"
      BY NoWaitTyped DEF Init
    <2> QED
      BY <2>1, WaitWords DEF WaitInv, WaitOk
  <1>10. CallInv
    <2>1. \A c \in Client : client[c] = "idle" /\ answer[c] = "none"
      BY DEF Init
    <2> QED
      BY <2>1 DEF CallInv, CallOk
  <1> QED
    BY <1>1, <1>5, <1>6, <1>7, <1>8, <1>9, <1>10 DEF IInv, HandInv

LEMMA Inductive == Spec => []IInv
  <1>1. IInv /\ [Next]_vars => IInv'
    <2> SUFFICES ASSUME IInv, [Next]_vars PROVE IInv'
      OBVIOUS
    <2> QED
      BY TypeStep, HandStep, WaitInvStep, CallInvStep DEF IInv
  <1> QED
    BY <1>1, IInvInit, PTL DEF Spec

\* Every value the waiter's map, the handlers and the calls hold is one of its kind.
THEOREM TypeCorrect == Spec => []TypeOK
  <1>1. IInv => TypeOK
    BY DEF IInv
  <1> QED
    BY <1>1, Inductive, PTL

\* A slot never waits for a verifier child that no other slot executes
\* (EvaluationCoordinatorOptions.runTask: "deadlock-free" with any number of
\* slots), unless the child's claim failed, which leaves it to the queue.
THEOREM WaitsOnDriven == Spec => []WaitsForDriven
  <1>1. IInv => WaitsForDriven
    <2> SUFFICES ASSUME IInv, NEW s \in Slot, At(Job(s), "wait"),
                        row[ChildOf(s)].status \notin Terminal, ChildOf(s) \notin dropped
                 PROVE  \E h \in Handler : h[1] # s /\ Drives(h, ChildOf(s))
      BY DEF WaitsForDriven, Job
    <2>1. FrameInv /\ LeaseInv /\ ChildInv
      BY DEF IInv, HandInv
    <2>2. hand[Job(s)].task \in Evaluable /\ ChildOf(s) \in Task \ Evaluable
      BY <2>1, ChildrenTasks DEF At, PassPC
    <2>3. row[ChildOf(s)].status = "running"
      BY <2>1 DEF ChildInv, At
    <2>4. PICK h \in Handler : Drives(h, ChildOf(s))
      BY <2>1, <2>2, <2>3 DEF LeaseInv
    <2>5. h # Job(s)
      BY <2>2, <2>4 DEF Drives
    <2>6. hand[Inline(s)].pc = "idle"
      BY <2>1 DEF FrameInv, At
    <2>7. h # Inline(s)
      BY <2>4, <2>6 DEF Drives, Driving
    <2> QED
      BY <2>4, <2>5, <2>7, SlotHandlers
  <1> QED
    BY <1>1, Inductive, PTL

\* A caller that was answered with a completed row can rely on it: no kill at a
\* deadline (KillAfterWait) and no second run changes the row afterwards, and a
\* row with criteria carries its verdict, unless the write of the refutation by
\* error that evaluate falls back to failed as well.
THEOREM AnswersStand == Spec => []AnswerStands
  <1>1. IInv => AnswerStands
    BY DEF IInv, HandInv, CallInv, CallOk, JudgeInv, Judged, AnswerStands
  <1> QED
    BY <1>1, Inductive, PTL

\* As long as the reads of wait() and a creator's kill succeed, a creator that waits (heartbeat-task.ts,
\* POST ?wait, mesh-delegation.ts, agent-executor.ts) returns with its row ended.
THEOREM NothingLeft ==
  ASSUME StoreFails = FALSE
  PROVE  Spec => []NothingLeftOpen
  <1>1. IInv => NothingLeftOpen
    BY WaitsAssumption DEF IInv, CallInv, CallOk, NothingLeftOpen
  <1> QED
    BY <1>1, Inductive, PTL

=============================================================================
