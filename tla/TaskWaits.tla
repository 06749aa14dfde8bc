------------------------------ MODULE TaskWaits ------------------------------
(***************************************************************************)
(* Those who wait for a row of TaskStore, on one node: the parent of a     *)
(* verifier child (evaluation-coordinator.ts, runVerifierChild), the       *)
(* creators that give up at a deadline and kill (heartbeat-task.ts, POST   *)
(* ?wait of task-api.ts, delegateRemoteViaTasks of mesh-delegation.ts, the *)
(* agent steps of a workflow in agent-executor.ts) and watchers (GET       *)
(* :id/wait).  All share the waiter of completion-waiter.ts: a map of      *)
(* wakeup sets, one LISTEN client and a poll, and all go down with the     *)
(* runtime in the order of runtime.stop().                                 *)
(*                                                                         *)
(* The handler is that of TaskEngine with its database statements, less    *)
(* what waits do not meet: crashes, messages, retries.                     *)
(***************************************************************************)
EXTENDS TaskStore, FiniteSets

CONSTANTS
  Here,       \* the node
  Slot,       \* its worker slots
  Verifier,   \* [Evaluable -> Task], the child of a row's verifier pass
  Client,     \* calls that wait
  RowFor,     \* Client -> the row a call creates or watches
  Owner,      \* the calls that create their row, and kill it when they give up
  Rereads,    \* owners that read the row again after the kill (POST ?wait)
  Tick,       \* owners that are ticks of one heartbeat schedule
  StoreFails, \* may a read of the waiter fail, or the kill of a creator?
  MaxFaults   \* bound on failing calls

NoSet  == "no set"    \* the map has no entry
NoTask == "no task"
Gone   == {"deadline", "stopped"} \* wait() returns undefined

ASSUME WaitsAssumption ==
  /\ Here \in Node
  /\ \A t \in Task : Affinity[t] \in {AnyNode, Here}
  /\ Verifier \in [Evaluable -> Task \ Evaluable]
  /\ \A p, q \in Evaluable : Verifier[p] = Verifier[q] => p = q
  /\ RowFor \in [Client -> Task]
  /\ \A c \in Client, p \in Evaluable : RowFor[c] # Verifier[p]
  /\ Owner \subseteq Client /\ Rereads \subseteq Owner /\ Tick \subseteq Owner \ Rereads
  /\ \A c, d \in Owner : RowFor[c] = RowFor[d] => c = d
  /\ Client \cap Slot = {} /\ NoSet \notin Client \cup Slot /\ NoTask \notin Task
  /\ StoreFails \in BOOLEAN /\ MaxFaults \in Nat

\* A handler runs a job in its slot, or a child inside the handler of the parent.
Handler == Slot \X {"job", "inline"}
Waiter  == Slot \cup Client

VARIABLES
  hand,     \* Handler -> the handler's next await and its task
  mark,     \* Slot -> the verdict of the slot's verifier pass
  wait,     \* Waiter -> its call of wait()
  wakeups,  \* Task -> the waiter whose call made the set the map has, NoSet
  listen,   \* listenHealthy
  notes,    \* notifications under way
  phase,    \* how far runtime.stop() is
  client,   \* Client -> next await of the call
  answer,   \* Client -> what the call returned
  faults,   \* failing calls so far
  dropped,  \* history: tasks a claim of which failed
  unwritten \* history: tasks a verdict of which could not be written

callVars  == <<client, answer>>
waitVars  == <<wait, wakeups, listen>>
faultVars == <<faults, dropped, unwritten>>
vars == <<storeVars, hand, mark, waitVars, notes, phase, callVars, faultVars>>

HandlerPC == {"idle", "claim", "run", "discard", "child", "inline", "look",
              "wait", "kill", "record", "rewrite", "finish"}
Driving   == {"run", "discard", "child", "inline", "look", "wait", "kill",
              "record", "rewrite", "finish"}
Hand == [pc : HandlerPC, task : Task \cup {NoTask}, verdict : {"completed", "failed"}]
Wait == [pc : {"none", "read", "decide", "asleep", "ended"},
         task : Task \cup {NoTask}, set : Waiter \cup {NoSet},
         saw  : Terminal \cup Gone \cup {"open", "error"}]   \* what it read, or returned

IdleHand == [pc |-> "idle", task |-> NoTask, verdict |-> "failed"]
NoWait   == [pc |-> "none", task |-> NoTask, set |-> NoSet, saw |-> "open"]

Init ==
  /\ StoreInit
  /\ hand = [h \in Handler |-> IdleHand]
  /\ mark = [s \in Slot |-> "none"]
  /\ wait = [w \in Waiter |-> NoWait]
  /\ wakeups = [t \in Task |-> NoSet]
  /\ listen = FALSE /\ notes = {}
  /\ phase = "up"
  /\ client = [c \in Client |-> "idle"]
  /\ answer = [c \in Client |-> "none"]
  /\ faults = 0 /\ dropped = {} /\ unwritten = {}

\* Trigger trg_task_done (0002_ros_tasks.sql): a row that becomes terminal is
\* notified to the session that listens, if one does.  Of no use to calls that
\* begin later: they read the row.
Notify(t) == notes' = IF /\ listen /\ \E w \in Waiter : wait[w].task = t
                         /\ row[t].status \notin Terminal /\ row'[t].status \in Terminal
                      THEN notes \cup {t} ELSE notes

-----------------------------------------------------------------------------
\* completion-waiter.ts: its flag stopped, and those asleep in one set of a task.
Stopped == phase \in {"stopped", "ended"}

Asleep(t, set) == {u \in Waiter : /\ wait[u].pc = "asleep" /\ wait[u].task = t
                                  /\ wait[u].set = set}

\* wait() returns, and its finally removes the entry of the map if the set that
\* the call holds is empty, though the entry may be of another call's set.
End(w, got) ==
  LET t == wait[w].task IN
  /\ wait' = [wait EXCEPT ![w] = [@ EXCEPT !.pc = "ended", !.set = NoSet, !.saw = got]]
  /\ wakeups' = IF Asleep(t, wait[w].set) \subseteq {w}
                THEN [wakeups EXCEPT ![t] = NoSet] ELSE wakeups

\* Top of the loop: stopped is looked at, and the read is sent.
Loop(w) == IF Stopped
           THEN End(w, "stopped")
           ELSE wait' = [wait EXCEPT ![w].pc = "read"] /\ UNCHANGED wakeups

\* ensureListener connects, or fails to; then the call joins the set of its task.
Begin(w, t) ==
  LET set == IF wakeups[t] = NoSet THEN w ELSE wakeups[t] IN
  /\ listen' \in IF listen \/ Stopped THEN {listen} ELSE BOOLEAN
  /\ wait' = [wait EXCEPT ![w] =
       IF Stopped THEN [pc |-> "ended", task |-> t, set |-> NoSet, saw |-> "stopped"]
                  ELSE [pc |-> "read", task |-> t, set |-> set, saw |-> "open"]]
  /\ wakeups' = IF ~ Stopped THEN [wakeups EXCEPT ![t] = set]
                ELSE IF Asleep(t, set) = {} THEN [wakeups EXCEPT ![t] = NoSet]
                ELSE wakeups

Read(w) ==
  /\ wait[w].pc = "read"
  /\ wait' = [wait EXCEPT ![w] = [@ EXCEPT !.pc = "decide", !.saw =
       IF row[wait[w].task].status \in Terminal THEN row[wait[w].task].status ELSE "open"]]
  /\ UNCHANGED <<storeVars, hand, mark, wakeups, listen, notes, phase, callVars, faultVars>>

\* store.get rejects, and so does wait().
ReadFails(w) ==
  /\ StoreFails /\ faults < MaxFaults
  /\ wait[w].pc = "read"
  /\ End(w, "error")
  /\ faults' = faults + 1
  /\ UNCHANGED <<storeVars, hand, mark, listen, notes, phase, callVars, dropped, unwritten>>

\* The row as it was read decides: it has ended, ...
Found(w) ==
  /\ wait[w].pc = "decide" /\ wait[w].saw \in Terminal
  /\ End(w, wait[w].saw)
  /\ UNCHANGED <<storeVars, hand, mark, listen, notes, phase, callVars, faultVars>>

\* ... or it has not and the deadline has passed, ...
GiveUp(w) ==
  /\ wait[w].pc = "decide" /\ wait[w].saw = "open"
  /\ End(w, "deadline")
  /\ UNCHANGED <<storeVars, hand, mark, listen, notes, phase, callVars, faultVars>>

\* ... or the call sleeps, and is only now in its set.
Sleep(w) ==
  /\ wait[w].pc = "decide" /\ wait[w].saw = "open"
  /\ wait' = [wait EXCEPT ![w].pc = "asleep"]
  /\ UNCHANGED <<storeVars, hand, mark, wakeups, listen, notes, phase, callVars, faultVars>>

\* Mistake: no timer while LISTEN is healthy.
PollUnlessListening(w) ==
  /\ wait[w].pc = "asleep" /\ ~ listen
  /\ Loop(w)
  /\ UNCHANGED <<storeVars, hand, mark, listen, notes, phase, callVars, faultVars>>

\* The timer of the sleep, at the poll interval or what remains.
Poll(w) ==
  /\ wait[w].pc = "asleep"
  /\ Loop(w)
  /\ UNCHANGED <<storeVars, hand, mark, listen, notes, phase, callVars, faultVars>>

\* A notification wakes those asleep in the set the map has now.
Deliver(t) ==
  /\ listen /\ t \in notes
  /\ notes' = notes \ {t}
  /\ wait' = [u \in Waiter |-> IF u \in Asleep(t, wakeups[t])
                               THEN [wait[u] EXCEPT !.pc = "read"] ELSE wait[u]]
  /\ UNCHANGED <<storeVars, hand, mark, wakeups, listen, phase, callVars, faultVars>>

\* The LISTEN client errors; the next call of wait() connects again.
LoseListener ==
  /\ listen
  /\ listen' = FALSE /\ notes' = {}
  /\ UNCHANGED <<storeVars, hand, mark, wait, wakeups, phase, callVars, faultVars>>

-----------------------------------------------------------------------------
\* runner.ts: the job, the claim, the run and the finish.
At(h, pc)    == hand[h].pc = pc
GoTo(h, pc)  == hand' = [hand EXCEPT ![h].pc = pc]
Outer(h)     == <<h[1], "job">>
Quiet        == UNCHANGED <<phase, callVars, faultVars>>
Fail         == faults < MaxFaults /\ faults' = faults + 1

\* The handler returns: to graphile, or to the parent that called it.
Return(h) == hand' = IF h[2] = "job" THEN [hand EXCEPT ![h] = IdleHand]
                     ELSE [hand EXCEPT ![h] = IdleHand, ![Outer(h)].pc = "look"]

\* runner.stop() takes no more jobs and waits for the ones it has.
Dequeue(s, t) ==
  LET h == <<s, "job">> IN
  /\ At(h, "idle") /\ phase # "ended"
  /\ job[t] # NoJob
  /\ job' = [job EXCEPT ![t] = NoJob]
  /\ hand' = [hand EXCEPT ![h] = [@ EXCEPT !.pc = "claim", !.task = t]]
  /\ UNCHANGED <<row, mark, waitVars, notes>> /\ Quiet

ClaimRow(h) ==
  LET t == hand[h].task IN
  /\ At(h, "claim")
  /\ claimAllowed(t, Here)
  /\ claim(t, Here)
  /\ GoTo(h, "run")
  /\ UNCHANGED <<job, mark, waitVars, notes>> /\ Quiet

\* Another handler has the row, or it has ended.
ClaimRefused(h) ==
  /\ At(h, "claim")
  /\ ~ claimAllowed(hand[h].task, Here)
  /\ Return(h)
  /\ UNCHANGED <<storeVars, mark, waitVars, notes>> /\ Quiet

\* The claim throws.  A job is spent by that; runVerifierChild goes on.
ClaimFails(h) ==
  /\ At(h, "claim") /\ faults < MaxFaults
  /\ faults' = faults + 1
  /\ dropped' = dropped \cup {hand[h].task}
  /\ Return(h)
  /\ UNCHANGED <<storeVars, mark, waitVars, notes, phase, callVars, unwritten>>

\* The turn ends and the row is read: killed, to be judged, or to be finished.
TurnEnd(h) ==
  LET t == hand[h].task IN
  /\ At(h, "run")
  /\ \E v \in {"completed", "failed"} :
       hand' = [hand EXCEPT ![h] =
         [@ EXCEPT !.verdict = v,
                   !.pc = IF row[t].status = "killed" THEN "discard"
                          ELSE IF v = "completed" /\ t \in Evaluable THEN "child"
                          ELSE "finish"]]
  /\ UNCHANGED <<storeVars, mark, waitVars, notes>> /\ Quiet

Discard(h) ==
  /\ At(h, "discard")
  /\ finish(hand[h].task, "killed")
  /\ Notify(hand[h].task)
  /\ Return(h)
  /\ UNCHANGED <<job, mark, waitVars>> /\ Quiet

Finish(h) ==
  /\ At(h, "finish")
  /\ finish(hand[h].task, hand[h].verdict)
  /\ Notify(hand[h].task)
  /\ Return(h)
  /\ UNCHANGED <<job, mark, waitVars>> /\ Quiet

-----------------------------------------------------------------------------
\* evaluation-coordinator.ts: the verifier child of the slot's row.
ChildOf(s) == Verifier[hand[<<s, "job">>].task]

\* Mistake: the child is left to the queue.
SpawnQueued(s) ==
  LET h == <<s, "job">> IN
  /\ At(h, "child")
  /\ create(ChildOf(s))
  /\ hand' = [hand EXCEPT ![h].pc = "look"]
  /\ UNCHANGED <<mark, waitVars, notes>> /\ Quiet

\* The child row and its job, and then the child in this slot.
Spawn(s) ==
  LET h == <<s, "job">> IN
  /\ At(h, "child")
  /\ create(ChildOf(s))
  /\ hand' = [hand EXCEPT ![h].pc = "inline",
                          ![<<s, "inline">>] = [IdleHand EXCEPT !.pc = "claim",
                                                                !.task = ChildOf(s)]]
  /\ UNCHANGED <<mark, waitVars, notes>> /\ Quiet

\* A completed verifier reports every criterion met, or not.
Judge(s, status) ==
  \E v \in IF status = "completed" THEN {"verified", "refuted"} ELSE {"refuted"} :
     mark' = [mark EXCEPT ![s] = v]

\* The child after the inline run: judged if it has ended, else waited for.
Look(s) ==
  LET h == <<s, "job">>  status == row[ChildOf(s)].status IN
  /\ At(h, "look")
  /\ IF status \in Terminal
     THEN Judge(s, status) /\ GoTo(h, "record") /\ UNCHANGED waitVars
     ELSE Begin(s, ChildOf(s)) /\ GoTo(h, "wait") /\ UNCHANGED mark
  /\ UNCHANGED <<storeVars, notes>> /\ Quiet

\* What wait() returned; its rejection is caught by evaluate().
Resume(s) ==
  LET h == <<s, "job">>  got == wait[s].saw IN
  /\ At(h, "wait") /\ wait[s].pc = "ended"
  /\ GoTo(h, IF got \in Gone THEN "kill" ELSE IF got = "error" THEN "rewrite" ELSE "record")
  /\ Judge(s, got)
  /\ UNCHANGED <<storeVars, waitVars, notes>> /\ Quiet

KillAfterWait(t) == IF row[t].status \in Open THEN requestKill(t) ELSE UNCHANGED row

KillChild(s) ==
  LET h == <<s, "job">> IN
  /\ At(h, "kill")
  /\ KillAfterWait(ChildOf(s))
  /\ Notify(ChildOf(s))
  /\ GoTo(h, "record")
  /\ UNCHANGED <<job, mark, waitVars>> /\ Quiet

\* A kill that throws is swallowed.
KillChildFails(s) ==
  LET h == <<s, "job">> IN
  /\ At(h, "kill")
  /\ Fail
  /\ GoTo(h, "record")
  /\ UNCHANGED <<storeVars, mark, waitVars, notes, phase, callVars, dropped, unwritten>>

\* Mistake: the finish before the verdict.
RecordAfterFinish(s) ==
  LET h == <<s, "job">> IN
  /\ At(h, "record") \/ At(h, "rewrite")
  /\ finish(hand[h].task, hand[h].verdict)
  /\ Notify(hand[h].task)
  /\ Return(h)
  /\ UNCHANGED <<job, mark, waitVars>> /\ Quiet

\* The verdict, or the refutation by error of evaluate's catch, is on the row.
Record(s) ==
  LET h == <<s, "job">> IN
  /\ At(h, "record") \/ At(h, "rewrite")
  /\ recordEval(hand[h].task, mark[s], 0)
  /\ GoTo(h, "finish")
  /\ mark' = [mark EXCEPT ![s] = "none"]
  /\ wait' = [wait EXCEPT ![s] = NoWait]
  /\ UNCHANGED <<job, wakeups, listen, notes>> /\ Quiet

\* The create of the child, the read after its inline run or the write of the
\* verdict throws: the catch refutes.
PassThrows(s) ==
  LET h == <<s, "job">> IN
  /\ At(h, "child") \/ At(h, "look") \/ At(h, "record")
  /\ Fail
  /\ mark' = [mark EXCEPT ![s] = "refuted"]
  /\ GoTo(h, "rewrite")
  /\ UNCHANGED <<storeVars, waitVars, notes, phase, callVars, dropped, unwritten>>

\* The catch's own write throws, which is swallowed: the row is finished with
\* what verdict it has, which may be none.
RewriteFails(s) ==
  LET h == <<s, "job">> IN
  /\ At(h, "rewrite")
  /\ Fail
  /\ unwritten' = unwritten \cup {hand[h].task}
  /\ GoTo(h, "finish")
  /\ mark' = [mark EXCEPT ![s] = "none"]
  /\ wait' = [wait EXCEPT ![s] = NoWait]
  /\ UNCHANGED <<storeVars, wakeups, listen, notes, phase, callVars, dropped>>

-----------------------------------------------------------------------------
\* The calls.
Answer(c, a) == /\ client' = [client EXCEPT ![c] = "done"]
                /\ answer' = [answer EXCEPT ![c] = a]
                /\ wait' = [wait EXCEPT ![c] = NoWait]
                /\ UNCHANGED <<wakeups, listen>>

GoOn(c, pc) == client' = [client EXCEPT ![c] = pc] /\ UNCHANGED <<answer, waitVars>>

\* The crontab's one slot is held by a tick until it returns, and no tick
\* starts once the scheduler stops.
MayTick(c) == c \in Tick => /\ phase = "up"
                            /\ \A d \in Tick : client[d] \in {"idle", "done"}

\* The row is created, and wait() is called.
Create(c) ==
  /\ c \in Owner /\ client[c] = "idle" /\ phase # "ended" /\ MayTick(c)
  /\ create(RowFor[c])
  /\ Begin(c, RowFor[c])
  /\ client' = [client EXCEPT ![c] = "wait"]
  /\ UNCHANGED <<hand, mark, notes, phase, answer, faultVars>>

Watch(c) ==
  /\ c \notin Owner /\ client[c] = "idle" /\ phase # "ended"
  /\ row[RowFor[c]].status # "absent"
  /\ Begin(c, RowFor[c])
  /\ client' = [client EXCEPT ![c] = "wait"]
  /\ UNCHANGED <<storeVars, hand, mark, notes, phase, answer, faultVars>>

\* Mistake: the creator leaves its row behind, as a watcher does.
AnsweredAsWatcher(c) ==
  /\ client[c] = "wait" /\ wait[c].pc = "ended"
  /\ Answer(c, wait[c].saw)
  /\ UNCHANGED <<storeVars, hand, mark, notes, phase, faultVars>>

\* The row, or an error; an owner that got nothing goes on to kill.
Answered(c) ==
  /\ client[c] = "wait" /\ wait[c].pc = "ended"
  /\ IF wait[c].saw \in Gone /\ c \in Owner
     THEN GoOn(c, "kill") ELSE Answer(c, wait[c].saw)
  /\ UNCHANGED <<storeVars, hand, mark, notes, phase, faultVars>>

KillRow(c) ==
  /\ client[c] = "kill"
  /\ KillAfterWait(RowFor[c])
  /\ Notify(RowFor[c])
  /\ IF c \in Rereads THEN GoOn(c, "after") ELSE Answer(c, wait[c].saw)
  /\ UNCHANGED <<job, hand, mark, phase, faultVars>>

\* The creator's call throws.
KillRowFails(c) ==
  /\ StoreFails /\ client[c] = "kill"
  /\ Fail
  /\ Answer(c, "error")
  /\ UNCHANGED <<storeVars, hand, mark, notes, phase, dropped, unwritten>>

\* The row after the kill: 200 with it when it ended otherwise.
After(c) ==
  /\ client[c] = "after"
  /\ LET s == row[RowFor[c]].status IN Answer(c, IF s = "killed" THEN wait[c].saw ELSE s)
  /\ UNCHANGED <<storeVars, hand, mark, notes, phase, faultVars>>

\* POST :id/kill, of anyone.
Kill(t) ==
  /\ requestKill(t)
  /\ Notify(t)
  /\ UNCHANGED <<job, hand, mark, waitVars, phase, callVars, faultVars>>

-----------------------------------------------------------------------------
\* runtime.stop(): the heartbeat scheduler, whose ticks it waits for, ...
Stop == /\ phase = "up" /\ phase' = "stopping"
        /\ UNCHANGED <<storeVars, hand, mark, waitVars, notes, callVars, faultVars>>

\* ... the waiter, which wakes the sets the map has and closes its client, ...
StopWaiter ==
  LET Woken == {u \in Waiter : \E t \in Task : u \in Asleep(t, wakeups[t])} IN
  /\ phase = "stopping"
  /\ \A c \in Tick : client[c] \in {"idle", "done"}
  /\ phase' = "stopped"
  /\ wait' = [u \in Waiter |-> IF u \in Woken
                               THEN [wait[u] EXCEPT !.pc = "ended", !.set = NoSet, !.saw = "stopped"]
                               ELSE wait[u]]
  /\ wakeups' = [t \in Task |-> IF Asleep(t, wakeups[t]) = {} THEN wakeups[t] ELSE NoSet]
  /\ listen' = FALSE /\ notes' = {}
  /\ UNCHANGED <<storeVars, hand, mark, callVars, faultVars>>

\* ... and the runner, whose jobs it waits for.
StopRunner == /\ phase = "stopped" /\ phase' = "ended"
              /\ \A s \in Slot : At(<<s, "job">>, "idle")
              /\ UNCHANGED <<storeVars, hand, mark, waitVars, notes, callVars, faultVars>>

-----------------------------------------------------------------------------
HandlerStep(h) == ClaimRow(h) \/ ClaimRefused(h) \/ TurnEnd(h) \/ Discard(h) \/ Finish(h)
PassStep(s)    == Spawn(s) \/ Look(s) \/ Resume(s) \/ KillChild(s) \/ Record(s)
WaitStep(w)    == Read(w) \/ Found(w) \/ Sleep(w) \/ Poll(w)
CallStep(c)    == Answered(c) \/ KillRow(c) \/ After(c)
ShutDown       == StopWaiter \/ StopRunner

\* A slot is one thread of control, and so is a call.
SlotGoesOn(s)  == \/ HandlerStep(<<s, "job">>) \/ HandlerStep(<<s, "inline">>)
                  \/ PassStep(s) \/ WaitStep(s)
CallGoesOn(c)  == CallStep(c) \/ WaitStep(c)

Next ==
  \/ \E s \in Slot : SlotGoesOn(s) \/ \E t \in Task : Dequeue(s, t)
  \/ \E s \in Slot : KillChildFails(s) \/ PassThrows(s) \/ RewriteFails(s)
  \/ \E c \in Client : CallGoesOn(c) \/ Create(c) \/ Watch(c) \/ KillRowFails(c)
  \/ \E w \in Waiter : GiveUp(w) \/ ReadFails(w)
  \/ \E h \in Handler : ClaimFails(h)
  \/ \E t \in Task : Deliver(t) \/ Kill(t)
  \/ LoseListener \/ Stop \/ ShutDown

Spec == Init /\ [][Next]_vars

\* Calls of the database answer, executors have time limits, polls fire, and a
\* stop goes on; a deadline passes once and holds at each read after it, so the
\* call gives up at one of them unless it finds the row ended at all.  Nothing is
\* fair about clients, jobs, notifications and faults.
FairSpec == /\ Spec
            /\ \A s \in Slot : WF_vars(SlotGoesOn(s))
            /\ \A c \in Client : WF_vars(CallGoesOn(c))
            /\ \A w \in Waiter : SF_vars(GiveUp(w))
            /\ WF_vars(ShutDown)

-----------------------------------------------------------------------------
TypeOK ==
  /\ StoreTypeOK
  /\ hand \in [Handler -> Hand]
  /\ mark \in [Slot -> EvalMark]
  /\ wait \in [Waiter -> Wait]
  /\ wakeups \in [Task -> Waiter \cup {NoSet}]
  /\ listen \in BOOLEAN /\ notes \subseteq Task
  /\ phase \in {"up", "stopping", "stopped", "ended"}
  /\ client \in [Client -> {"idle", "wait", "kill", "after", "done"}]
  /\ answer \in [Client -> Terminal \cup Gone \cup {"none", "error"}]
  /\ faults \in 0..MaxFaults /\ dropped \subseteq Task /\ unwritten \subseteq Task

\* A slot that waits for the verifier child of its row waits for one that has
\* ended or that another slot executes: no verifier sits in the queue while all
\* slots are taken by parents that wait for verifiers (EvaluationCoordinatorOptions
\* .runTask).  A child whose claim failed is left to the queue and the deadline.
Drives(h, t) == hand[h].pc \in Driving /\ hand[h].task = t

WaitsForDriven ==
  \A s \in Slot : At(<<s, "job">>, "wait") =>
    \/ row[ChildOf(s)].status \in Terminal
    \/ \E h \in Handler : h[1] # s /\ Drives(h, ChildOf(s))
    \/ ChildOf(s) \in dropped

\* An answer "completed" stands: the row the caller was given stays completed,
\* whatever deadlines and kills come after, and its verdict was on it, unless the
\* write of the refutation by error, the last that evaluate tries, failed as well.
AnswerStands ==
  \A c \in Client : answer[c] = "completed" =>
    /\ row[RowFor[c]].status = "completed"
    /\ RowFor[c] \in Evaluable \ unwritten => row[RowFor[c]].eval # "none"

\* Who creates a row and waits for it leaves no run behind: when the call has
\* returned the row has ended ("no zombie runs").
NothingLeftOpen ==
  \A c \in Owner : client[c] = "done" => row[RowFor[c]].status \in Terminal

\* Calls return, waits for verifiers end, and a stop comes to its end, though
\* notifications are lost and sleepers are in sets the map has forgotten.
CallsEnd ==
  /\ \A c \in Client : client[c] \in {"wait", "kill", "after"} ~> client[c] = "done"
  /\ \A s \in Slot : At(<<s, "job">>, "wait") ~> ~ At(<<s, "job">>, "wait")
  /\ phase = "stopping" ~> phase = "ended"

\* "?wait consumers and the done-notify see an already-evaluated task"
\* (runner.ts:432-433): a row with criteria that has completed has its verdict.
SeenEvaluated ==
  \A t \in Evaluable : row[t].status = "completed" => row[t].eval # "none"

\* "callers get undefined and the durable row survives" (waiter.stop): those
\* who wait for a row kill it when the deadline has passed, not when the
\* runtime stops.
StopSparesRows ==
  [][/\ \A c \in Client : client[c] = "kill" /\ client'[c] # "kill" => wait[c].saw = "deadline"
     /\ \A s \in Slot : At(<<s, "job">>, "kill") /\ ~ At(<<s, "job">>, "kill")'
                          => wait[s].saw = "deadline"]_vars

\* "the next tick must never overlap a still-running run" (heartbeat-task.ts).
TicksApart ==
  \A h, i \in Handler, c, d \in Tick :
    At(h, "run") /\ hand[h].task = RowFor[c] /\ At(i, "run") /\ hand[i].task = RowFor[d]
      => h = i

\* A sleeping call can be woken by the notification of its row.
SleepersReachable ==
  \A w \in Waiter : wait[w].pc = "asleep" => wakeups[wait[w].task] = wait[w].set
=============================================================================
