---------------------------- MODULE SessionTurns ----------------------------
(***************************************************************************)
(* The turns of one chat session: the message queue (core/domain/queue.ts),*)
(* the turn handler it runs (core/runtime/turn-handler.ts), the inbound    *)
(* callback of the runtime and the commands that reach into a running turn *)
(* (core/runtime/commands.ts).                                             *)
(*                                                                         *)
(* JavaScript runs one callback at a time, so an action is the code        *)
(* between two awaits; a turn's stage names the await it is suspended at.  *)
(* drainQueue's loop looks at the queue again when the turn it started is  *)
(* over; NothingStranded says that it then finds nothing to do, and so the *)
(* second look is not an action.                                           *)
(***************************************************************************)
EXTENDS Naturals, Sequences, FiniteSets, SequencesExt

CONSTANTS Message,  \* texts a user sends, as messages or with a command
          NoTurn    \* an absent entry of a map keyed by the session

ASSUME TurnAssumption == NoTurn \notin Message

VARIABLES
  mq,         \* the MessageQueue and the turns it and the runtime started
  hasQueue,   \* queues.get(sessionKey) exists
  direct,     \* messages handled without a queue
  abortOf,    \* aborts.get(sessionKey): the turn whose controller is there
  loopOf,     \* activeLoops.get(sessionKey): the turn whose loop is there
  steers,     \* Message -> the texts in the steerQueue of its turn's loop
  resetting,  \* a /new waits for the session:end hooks
  \* history:
  arrived,    \* the order in which messages were handed to the queue
  injected,   \* texts handed to a loop
  cleared     \* messages a command threw out of the queue

vars == <<mq, hasQueue, direct, abortOf, loopOf, steers, resetting, arrived,
          injected, cleared>>
commandVars == <<steers, resetting, arrived, injected, cleared>>
sessionVars == <<hasQueue, direct>>

\* What a turn waits for.
Working == {"opening",    \* the session and its system prompt
            "hooks",      \* turn:before hooks
            "media",      \* attachments
            "running",    \* AgentLoop.run
            "reviewing",  \* turn:after hooks
            "answering",  \* the channel and the memory
            "failing"}    \* the error message
Stage   == {"none", "returned", "over"} \cup Working

MessageQueue == [waiting    : Seq(Message),
                 processing : BOOLEAN,
                 turn       : [Message -> Stage],
                 started    : Seq(Message)]        \* history

Init ==
  /\ mq = [waiting |-> <<>>, processing |-> FALSE,
           turn |-> [m \in Message |-> "none"], started |-> <<>>]
  /\ hasQueue = FALSE
  /\ direct = {}
  /\ abortOf = NoTurn
  /\ loopOf = NoTurn
  /\ steers = [m \in Message |-> {}]
  /\ resetting = FALSE
  /\ arrived = <<>>
  /\ injected = {}
  /\ cleared = {}

-----------------------------------------------------------------------------
\* The queue, as functions of its state.

\* process() up to the first await of the handler.
StartTurn(q, m) ==
  [waiting    |-> q.waiting,
   processing |-> TRUE,
   turn       |-> [q.turn EXCEPT ![m] = "opening"],
   started    |-> Append(q.started, m)]

enqueue(q, m) == IF q.processing THEN [q EXCEPT !.waiting = Append(q.waiting, m)]
                                 ELSE StartTurn(q, m)

\* Variants marked "Mistake" are plausible errors in the definition that follows;
\* no action uses them: the queue is not drained, is never idle again, is drained
\* from the wrong end, or keeps what it hands out.
endTurnWithoutDrain(q) == [q EXCEPT !.processing = FALSE]

endTurnStaysBusy(q) ==
  IF q.waiting = <<>>
  THEN q
  ELSE StartTurn([q EXCEPT !.waiting = Tail(q.waiting)], Head(q.waiting))

endTurnPops(q) ==
  IF q.waiting = <<>>
  THEN [q EXCEPT !.processing = FALSE]
  ELSE StartTurn([q EXCEPT !.waiting = Front(q.waiting)], Last(q.waiting))

endTurnPeeks(q) ==
  IF q.waiting = <<>>
  THEN [q EXCEPT !.processing = FALSE]
  ELSE StartTurn(q, Head(q.waiting))

\* endTurn(), and the finally clause of process(): idle, then drain.
endTurn(q) ==
  IF q.waiting = <<>>
  THEN [q EXCEPT !.processing = FALSE]
  ELSE StartTurn([q EXCEPT !.waiting = Tail(q.waiting)], Head(q.waiting))

clear(q) == [q EXCEPT !.waiting = <<>>]

\* The handler's finally clause; a turn without a queue just ends.
HandlerReturns(q, m) ==
  IF m \in direct THEN [q EXCEPT !.turn[m] = "over"]
                  ELSE endTurn([q EXCEPT !.turn[m] = "returned"])

-----------------------------------------------------------------------------
\* A turn.

At(m, stage) == mq.turn[m] = stage

Move(m, from, to) == /\ At(m, from)
                     /\ mq' = [mq EXCEPT !.turn[m] = to]

Open(m) == /\ Move(m, "opening", "hooks")
           /\ abortOf' = m
           /\ UNCHANGED <<sessionVars, loopOf, commandVars>>

\* A hook skips the turn: endTurn is called, and once more by the finally.
Skip(m) == /\ At(m, "hooks")
           /\ mq' = IF m \in direct
                    THEN HandlerReturns(mq, m)
                    ELSE HandlerReturns(endTurn(mq), m)
           /\ UNCHANGED <<sessionVars, abortOf, loopOf, commandVars>>

Proceed(m) == /\ Move(m, "hooks", "media")
              /\ UNCHANGED <<sessionVars, abortOf, loopOf, commandVars>>

RunLoop(m) == /\ Move(m, "media", "running")
              /\ loopOf' = m
              /\ UNCHANGED <<sessionVars, abortOf, commandVars>>

\* prepareStep drains the steer queue between two model calls.
NextStep(m) == /\ At(m, "running")
               /\ steers[m] # {}
               /\ steers' = [steers EXCEPT ![m] = {}]
               /\ UNCHANGED <<mq, sessionVars, abortOf, loopOf, resetting,
                              arrived, injected, cleared>>

LoopReturns(m) == /\ Move(m, "running", "reviewing")
                  /\ UNCHANGED <<sessionVars, abortOf, loopOf, commandVars>>

\* The maps are keyed by the session: whatever they hold is deleted.
CleanUp(m) == /\ Move(m, "reviewing", "answering")
              /\ abortOf' = NoTurn
              /\ loopOf' = NoTurn
              /\ UNCHANGED <<sessionVars, commandVars>>

\* Any of the awaited calls rejects; the maps keep their entries.
Fail(m) == /\ mq.turn[m] \in Working \ {"failing"}
           /\ mq' = [mq EXCEPT !.turn[m] = "failing"]
           /\ UNCHANGED <<sessionVars, abortOf, loopOf, commandVars>>

Return(m) == /\ mq.turn[m] \in {"answering", "failing"}
             /\ mq' = HandlerReturns(mq, m)
             /\ UNCHANGED <<sessionVars, abortOf, loopOf, commandVars>>

\* process() resumes after its handler.
Release(m) == /\ At(m, "returned")
              /\ mq' = endTurn([mq EXCEPT !.turn[m] = "over"])
              /\ UNCHANGED <<sessionVars, abortOf, loopOf, commandVars>>

-----------------------------------------------------------------------------
\* The user.

Unsent(m) == m \notin ToSet(arrived) \cup injected

Deliver(q, m) == /\ mq' = enqueue(q, m)
                 /\ arrived' = Append(arrived, m)

\* The inbound callback makes the queue on the first message.
Receive(m) == /\ Unsent(m)
              /\ hasQueue' = TRUE
              /\ Deliver(mq, m)
              /\ UNCHANGED <<direct, abortOf, loopOf, steers, resetting,
                             injected, cleared>>

\* A command's text becomes a turn: through the queue, or without one.
Rerun(q, m) == IF hasQueue
               THEN Deliver(q, m) /\ UNCHANGED direct
               ELSE /\ mq' = [q EXCEPT !.turn[m] = "opening",
                                       !.started = Append(q.started, m)]
                    /\ arrived' = Append(arrived, m)
                    /\ direct' = direct \cup {m}

\* /stop, and /interrupt without a text.
Stop == /\ abortOf # NoTurn
        /\ abortOf' = NoTurn
        /\ loopOf' = NoTurn
        /\ mq' = clear(mq)
        /\ cleared' = cleared \cup ToSet(mq.waiting)
        /\ UNCHANGED <<sessionVars, steers, resetting, arrived, injected>>

Interrupt(m) ==
  /\ Unsent(m)
  /\ IF abortOf # NoTurn
     THEN Rerun(clear(mq), m) /\ cleared' = cleared \cup ToSet(mq.waiting)
     ELSE Rerun(mq, m) /\ UNCHANGED cleared
  /\ abortOf' = NoTurn
  /\ loopOf' = IF abortOf # NoTurn THEN NoTurn ELSE loopOf
  /\ UNCHANGED <<hasQueue, steers, resetting, injected>>

\* /steer goes to the session's active loop, else it is a turn of its own.
Steer(m) ==
  /\ Unsent(m)
  /\ \/ /\ loopOf # NoTurn
        /\ steers' = [steers EXCEPT ![loopOf] = @ \cup {m}]
        /\ injected' = injected \cup {m}
        /\ UNCHANGED <<mq, direct, arrived>>
     \/ /\ loopOf = NoTurn
        /\ Rerun(mq, m)
        /\ UNCHANGED <<steers, injected>>
  /\ UNCHANGED <<hasQueue, abortOf, loopOf, resetting, cleared>>

\* /new aborts at once and clears the queue after the session:end hooks.
NewSession == /\ ~ resetting
              /\ resetting' = TRUE
              /\ abortOf' = NoTurn
              /\ loopOf' = IF abortOf # NoTurn THEN NoTurn ELSE loopOf
              /\ UNCHANGED <<mq, sessionVars, steers, arrived, injected, cleared>>

ClearWaiting == /\ mq' = clear(mq)
                /\ cleared' = cleared \cup ToSet(mq.waiting)
                /\ UNCHANGED <<sessionVars, abortOf, loopOf, steers, arrived, injected>>

FreshSession == /\ resetting
                /\ resetting' = FALSE
                /\ ClearWaiting

\* /clear
Clear == /\ mq.waiting # <<>>
         /\ UNCHANGED resetting
         /\ ClearWaiting

-----------------------------------------------------------------------------
Progress(m) == \/ Open(m) \/ Skip(m) \/ Proceed(m) \/ RunLoop(m)
               \/ LoopReturns(m) \/ CleanUp(m) \/ Return(m) \/ Release(m)

User == \/ \E m \in Message : Receive(m) \/ Interrupt(m) \/ Steer(m)
        \/ Stop \/ NewSession \/ FreshSession \/ Clear

Next == \/ \E m \in Message : Progress(m) \/ NextStep(m) \/ Fail(m)
        \/ User

Spec == Init /\ [][Next]_vars

\* What a turn waits for ends: hooks return, channels and memory answer or
\* reject, and AgentLoop.run is cut off by its turn timeout.
FairSpec == Spec /\ \A m \in Message : WF_vars(Progress(m))

-----------------------------------------------------------------------------
TypeOK ==
  /\ mq \in MessageQueue
  /\ hasQueue \in BOOLEAN
  /\ direct \in SUBSET Message
  /\ abortOf \in Message \cup {NoTurn}
  /\ loopOf \in Message \cup {NoTurn}
  /\ steers \in [Message -> SUBSET Message]
  /\ resetting \in BOOLEAN
  /\ arrived \in Seq(Message)
  /\ injected \in SUBSET Message
  /\ cleared \in SUBSET Message

\* Nothing waits in an idle queue: whoever sets processing to false drains, and
\* a message never has to wait for the next one to arrive.
NothingStranded == mq.waiting # <<>> => mq.processing

\* The queue is busy only on account of a turn that will end it: no order of
\* ending turns leaves a session that queues everything for ever.
BusyWithTurn ==
  mq.processing => \E m \in Message \ direct :
                     mq.turn[m] \in Working \cup {"returned"}

\* Turns start in the order in which their messages arrived, however turns,
\* errors, skips and commands interleave.
StartsInOrder ==
  \A i, j \in DOMAIN mq.started : \A k, l \in DOMAIN arrived :
    i < j /\ mq.started[i] = arrived[k] /\ mq.started[j] = arrived[l] => k < l

\* Each message that arrived is started once, still waiting, or was thrown out
\* by a command: none is lost, none runs twice.
MessageConserved ==
  /\ ToSet(arrived) = ToSet(mq.started) \cup ToSet(mq.waiting) \cup cleared
  /\ Len(arrived) = Len(mq.started) + Len(mq.waiting) + Cardinality(cleared)

\* A waiting message is started or thrown out.
WaitingServed ==
  \A m \in Message :
    m \in ToSet(mq.waiting) ~> m \in ToSet(mq.started) \cup cleared

-----------------------------------------------------------------------------
\* What comments say, and the code does not keep.

\* "Turn active -> queue the message, process after current turn" (queue.ts):
\* the queue runs one turn at a time.
OneQueuedTurn ==
  \A m, n \in Message \ direct :
    mq.turn[m] \in Working /\ mq.turn[n] \in Working => m = n

\* "The turn finished between the user speaking and this landing - don't drop
\* the message; run it as a fresh turn" (commands.ts): a loop that /steer hands
\* a text to is one that runs.
SteerFindsRunningTurn ==
  [][\A m, l \in Message :
       m \in steers'[l] \ steers[l] => mq.turn[l] = "running"]_steers
=============================================================================
