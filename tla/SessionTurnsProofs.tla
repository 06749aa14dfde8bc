------------------------- MODULE SessionTurnsProofs -------------------------
(***************************************************************************)
(* Theorems about SessionTurns, for any set of messages.                   *)
(***************************************************************************)
EXTENDS SessionTurns, SequenceTheorems, FiniteSetTheorems, TLAPS

-----------------------------------------------------------------------------
\* The operations of the queue, field by field.

LEMMA StartTurnFacts ==
  ASSUME NEW q \in MessageQueue, NEW m \in Message
  PROVE  /\ StartTurn(q, m) \in MessageQueue
         /\ StartTurn(q, m).waiting = q.waiting
         /\ StartTurn(q, m).processing = TRUE
         /\ StartTurn(q, m).turn[m] = "opening"
  <1>1. [q.turn EXCEPT ![m] = "opening"] \in [Message -> Stage]
    BY DEF MessageQueue, Stage, Working
  <1>2. Append(q.started, m) \in Seq(Message)
    BY DEF MessageQueue
  <1>3. [q.turn EXCEPT ![m] = "opening"][m] = "opening"
    BY DEF MessageQueue
  <1> QED
    BY <1>1, <1>2, <1>3 DEF StartTurn, MessageQueue

LEMMA EnqueueFacts ==
  ASSUME NEW q \in MessageQueue, NEW m \in Message
  PROVE  /\ enqueue(q, m) \in MessageQueue
         /\ enqueue(q, m).processing = TRUE
         /\ q.processing => /\ enqueue(q, m).waiting = Append(q.waiting, m)
                            /\ enqueue(q, m).turn = q.turn
         /\ ~ q.processing => /\ enqueue(q, m).waiting = q.waiting
                              /\ enqueue(q, m).turn[m] = "opening"
  <1>1. CASE q.processing
    <2> DEFINE w == Append(q.waiting, m)
    <2>1. w \in Seq(Message)
      BY DEF MessageQueue
    <2>2. enqueue(q, m) = [q EXCEPT !.waiting = w]
      BY <1>1 DEF enqueue
    <2> HIDE DEF w
    <2>3. [q EXCEPT !.waiting = w] \in MessageQueue
      BY <2>1 DEF MessageQueue
    <2> QED
      BY <1>1, <2>2, <2>3 DEF MessageQueue, w
  <1>2. CASE ~ q.processing
    BY <1>2, StartTurnFacts DEF enqueue
  <1> QED
    BY <1>1, <1>2

\* endTurn leaves an idle queue empty and a busy one with a turn just started.
LEMMA EndTurnFacts ==
  ASSUME NEW q \in MessageQueue
  PROVE  /\ endTurn(q) \in MessageQueue
         /\ \/ /\ ~ endTurn(q).processing
               /\ endTurn(q).waiting = <<>>
            \/ /\ endTurn(q).processing
               /\ q.waiting # <<>>
               /\ endTurn(q).waiting = Tail(q.waiting)
               /\ Head(q.waiting) \in Message
               /\ endTurn(q).turn[Head(q.waiting)] = "opening"
  <1>1. CASE q.waiting = <<>>
    BY <1>1 DEF endTurn, MessageQueue
  <1>2. CASE q.waiting # <<>>
    <2> DEFINE w == Tail(q.waiting)
               r == [q EXCEPT !.waiting = w]
               m == Head(q.waiting)
    <2>1. m \in Message /\ w \in Seq(Message)
      BY <1>2, HeadTailProperties DEF MessageQueue
    <2>2. endTurn(q) = StartTurn(r, m)
      BY <1>2 DEF endTurn
    <2> HIDE DEF w, m
    <2>3. r \in MessageQueue /\ r.waiting = w
      BY <2>1 DEF MessageQueue
    <2> HIDE DEF r
    <2>4. /\ endTurn(q) \in MessageQueue
          /\ endTurn(q).waiting = w
          /\ endTurn(q).processing = TRUE
          /\ endTurn(q).turn[m] = "opening"
      BY <2>1, <2>2, <2>3, StartTurnFacts
    <2>5. w = Tail(q.waiting) /\ m = Head(q.waiting)
      BY DEF m, w
    <2> HIDE DEF MessageQueue
    <2> QED
      BY <1>2, <2>1, <2>4, <2>5
  <1> QED
    BY <1>1, <1>2

LEMMA SetStageFacts ==
  ASSUME NEW q \in MessageQueue, NEW m \in Message, NEW s \in Stage
  PROVE  /\ [q EXCEPT !.turn[m] = s] \in MessageQueue
         /\ [q EXCEPT !.turn[m] = s].waiting = q.waiting
         /\ [q EXCEPT !.turn[m] = s].processing = q.processing
  <1> DEFINE t == [q.turn EXCEPT ![m] = s]
  <1>1. t \in [Message -> Stage]
    BY DEF MessageQueue
  <1>2. [q EXCEPT !.turn[m] = s] = [q EXCEPT !.turn = t]
    BY DEF MessageQueue
  <1> HIDE DEF t
  <1>3. /\ [q EXCEPT !.turn = t] \in MessageQueue
        /\ [q EXCEPT !.turn = t].waiting = q.waiting
        /\ [q EXCEPT !.turn = t].processing = q.processing
    BY <1>1 DEF MessageQueue
  <1> QED
    BY <1>2, <1>3

LEMMA ClearFacts ==
  ASSUME NEW q \in MessageQueue
  PROVE  /\ clear(q) \in MessageQueue
         /\ clear(q).waiting = <<>>
         /\ clear(q).processing = q.processing
  BY EmptySeq DEF clear, MessageQueue

-----------------------------------------------------------------------------
\* A queue in which nobody waits for nothing, and the operations that keep it so.

Served(q) == q \in MessageQueue /\ (q.waiting # <<>> => q.processing)

LEMMA SetStageServed ==
  ASSUME NEW q, Served(q), NEW m \in Message, NEW s \in Stage
  PROVE  Served([q EXCEPT !.turn[m] = s])
  BY SetStageFacts DEF Served

LEMMA EnqueueServed ==
  ASSUME NEW q, Served(q), NEW m \in Message
  PROVE  Served(enqueue(q, m))
  BY EnqueueFacts DEF Served

LEMMA EndTurnServed ==
  ASSUME NEW q \in MessageQueue
  PROVE  Served(endTurn(q))
  BY EndTurnFacts DEF Served

LEMMA ClearServed ==
  ASSUME NEW q, Served(q)
  PROVE  Served(clear(q))
  BY ClearFacts DEF Served

LEMMA HandlerReturnsServed ==
  ASSUME NEW q, Served(q), NEW m \in Message
  PROVE  Served(HandlerReturns(q, m))
  <1>1. "over" \in Stage /\ "returned" \in Stage
    BY DEF Stage
  <1>2. CASE m \in direct
    BY <1>1, <1>2, SetStageServed DEF HandlerReturns
  <1>3. CASE m \notin direct
    <2>1. [q EXCEPT !.turn[m] = "returned"] \in MessageQueue
      BY <1>1, SetStageServed DEF Served
    <2> QED
      BY <1>3, <2>1, EndTurnServed DEF HandlerReturns
  <1> QED
    BY <1>2, <1>3

\* A direct turn is started without a look at the queue.
LEMMA DirectServed ==
  ASSUME NEW q, Served(q), NEW m \in Message
  PROVE  Served([q EXCEPT !.turn[m] = "opening",
                          !.started = Append(q.started, m)])
  <1> DEFINE r == [q EXCEPT !.turn[m] = "opening"]
             s == Append(q.started, m)
  <1>1. Served(r)
    BY SetStageServed DEF Stage, Working
  <1>2. s \in Seq(Message)
    BY DEF Served, MessageQueue
  <1>3. [q EXCEPT !.turn[m] = "opening", !.started = Append(q.started, m)]
          = [r EXCEPT !.started = s]
    BY DEF Served, MessageQueue
  <1> HIDE DEF r, s
  <1> QED
    BY <1>1, <1>2, <1>3 DEF Served, MessageQueue

-----------------------------------------------------------------------------
TurnInv == TypeOK /\ NothingStranded

LEMMA TurnInit == Init => TurnInv
  <1> SUFFICES ASSUME Init PROVE TurnInv
    OBVIOUS
  <1>1. <<>> \in Seq(Message)
    BY EmptySeq
  <1>2. mq \in MessageQueue /\ mq.waiting = <<>>
    BY <1>1 DEF Init, MessageQueue, Stage
  <1> QED
    BY <1>1, <1>2 DEF Init, TurnInv, TypeOK, NothingStranded

\* The other variables, and what a step has to do with the queue.
Rest == /\ hasQueue \in BOOLEAN
        /\ direct \in SUBSET Message
        /\ abortOf \in Message \cup {NoTurn}
        /\ loopOf \in Message \cup {NoTurn}
        /\ steers \in [Message -> SUBSET Message]
        /\ resetting \in BOOLEAN
        /\ arrived \in Seq(Message)
        /\ injected \in SUBSET Message
        /\ cleared \in SUBSET Message

LEMMA InvIsServed == TurnInv <=> Served(mq) /\ Rest
  BY DEF TurnInv, TypeOK, NothingStranded, Served, Rest

LEMMA ProgressStep ==
  ASSUME TurnInv, NEW m \in Message, Progress(m) \/ NextStep(m) \/ Fail(m)
  PROVE  TurnInv'
  <1>0. Served(mq) /\ Rest
    BY InvIsServed
  <1>1. Rest'
    BY <1>0 DEF Rest, Progress, Open, Skip, Proceed, RunLoop, NextStep,
       LoopReturns, CleanUp, Fail, Return, Release, sessionVars, commandVars
  <1>2. Served(mq')
    <2>1. CASE \/ Open(m) \/ Proceed(m) \/ RunLoop(m) \/ LoopReturns(m)
               \/ CleanUp(m) \/ Fail(m)
      <3>1. PICK s \in Stage : mq' = [mq EXCEPT !.turn[m] = s]
        BY <2>1 DEF Open, Proceed, RunLoop, LoopReturns, CleanUp, Fail, Move,
           Stage, Working
      <3> QED
        BY <1>0, <3>1, SetStageServed
    <2>2. CASE Skip(m)
      BY <1>0, <2>2, HandlerReturnsServed, EndTurnServed DEF Skip, Served
    <2>3. CASE Return(m)
      BY <1>0, <2>3, HandlerReturnsServed DEF Return
    <2>4. CASE Release(m)
      <3>1. [mq EXCEPT !.turn[m] = "over"] \in MessageQueue
        BY <1>0, SetStageServed DEF Served, Stage
      <3> QED
        BY <2>4, <3>1, EndTurnServed DEF Release
    <2>5. CASE NextStep(m)
      BY <1>0, <2>5 DEF NextStep
    <2> QED
      BY <2>1, <2>2, <2>3, <2>4, <2>5 DEF Progress
  <1> QED
    BY <1>1, <1>2 DEF TurnInv, TypeOK, NothingStranded, Served, Rest

LEMMA RerunServed ==
  ASSUME NEW q, Served(q), Rest, NEW m \in Message, Rerun(q, m)
  PROVE  /\ Served(mq')
         /\ arrived' \in Seq(Message)
         /\ direct' \in SUBSET Message
  <1>1. CASE hasQueue
    <2>1. mq' = enqueue(q, m) /\ arrived' = Append(arrived, m) /\ direct' = direct
      BY <1>1 DEF Rerun, Deliver
    <2>2. Append(arrived, m) \in Seq(Message)
      BY AppendProperties DEF Rest
    <2>3. Served(enqueue(q, m))
      BY EnqueueServed
    <2> QED
      BY <2>1, <2>2, <2>3 DEF Rest
  <1>2. CASE ~ hasQueue
    <2>1. Served(mq')
      BY <1>2, DirectServed DEF Rerun
    <2> QED
      BY <1>2, <2>1 DEF Rerun, Rest
  <1> QED
    BY <1>1, <1>2

LEMMA WaitingType == ASSUME Served(mq) PROVE ToSet(mq.waiting) \in SUBSET Message
  BY DEF Served, MessageQueue, ToSet

LEMMA UserStep ==
  ASSUME TurnInv, User
  PROVE  TurnInv'
  <1>0. Served(mq) /\ Rest
    BY InvIsServed
  <1>w. ToSet(mq.waiting) \in SUBSET Message
    BY <1>0, WaitingType
  <1> SUFFICES Served(mq') /\ Rest'
    BY DEF TurnInv, TypeOK, NothingStranded, Served, Rest
  <1>1. ASSUME NEW m \in Message, Receive(m) PROVE Served(mq') /\ Rest'
    BY <1>0, <1>1, EnqueueServed DEF Receive, Deliver, Rest
  <1>2. ASSUME NEW m \in Message, Interrupt(m) PROVE Served(mq') /\ Rest'
    <2>1. PICK q : Served(q) /\ Rerun(q, m)
      BY <1>0, <1>2, ClearServed DEF Interrupt
    <2>2. /\ Served(mq')
          /\ arrived' \in Seq(Message)
          /\ direct' \in SUBSET Message
      BY <1>0, <2>1, RerunServed
    <2> QED
      BY <1>0, <1>2, <1>w, <2>2 DEF Interrupt, Rest
  <1>3. ASSUME NEW m \in Message, Steer(m) PROVE Served(mq') /\ Rest'
    <2>1. CASE loopOf # NoTurn
      <3>1. mq' = mq /\ arrived' = arrived /\ direct' = direct
        BY <1>3, <2>1 DEF Steer
      <3> QED
        BY <1>0, <1>3, <2>1, <3>1 DEF Steer, Rest
    <2>2. CASE loopOf = NoTurn
      <3>1. /\ Served(mq')
            /\ arrived' \in Seq(Message)
            /\ direct' \in SUBSET Message
        BY <1>0, <1>3, <2>2, RerunServed DEF Steer
      <3> QED
        BY <1>0, <1>3, <2>2, <3>1 DEF Steer, Rest
    <2> QED
      BY <2>1, <2>2
  <1>4. CASE Stop
    BY <1>0, <1>4, <1>w, ClearServed DEF Stop, Rest, sessionVars
  <1>5. CASE NewSession
    BY <1>0, <1>5 DEF NewSession, Rest, sessionVars
  <1>6. CASE FreshSession \/ Clear
    BY <1>0, <1>6, <1>w, ClearServed DEF FreshSession, Clear, ClearWaiting, Rest, sessionVars
  <1> QED
    BY <1>1, <1>2, <1>3, <1>4, <1>5, <1>6 DEF User

LEMMA TurnStep == TurnInv /\ [Next]_vars => TurnInv'
  <1>1. ASSUME TurnInv, UNCHANGED vars PROVE TurnInv'
    BY <1>1 DEF vars, TurnInv, TypeOK, NothingStranded
  <1> QED
    BY <1>1, ProgressStep, UserStep DEF Next

LEMMA TurnInvariant == Spec => []TurnInv
  BY TurnInit, TurnStep, PTL DEF Spec

\* The queue, the turns and the maps keep their types.
THEOREM TurnTypes == Spec => []TypeOK
  <1>1. TurnInv => TypeOK
    BY DEF TurnInv
  <1> QED
    BY <1>1, TurnInvariant, PTL

\* No message is ever left waiting in an idle queue, for any number of messages.
THEOREM NobodyStranded == Spec => []NothingStranded
  <1>1. TurnInv => NothingStranded
    BY DEF TurnInv
  <1> QED
    BY <1>1, TurnInvariant, PTL
-----------------------------------------------------------------------------
\* What the queue holds.

LEMMA ToSetAppend ==
  ASSUME NEW s \in Seq(Message), NEW m \in Message
  PROVE  /\ ToSet(Append(s, m)) = ToSet(s) \cup {m}
         /\ Len(Append(s, m)) = Len(s) + 1
         /\ ToSet(s) \subseteq Message /\ Len(s) \in Nat
  <1>1. /\ Append(s, m) \in Seq(Message) /\ Len(Append(s, m)) = Len(s) + 1
        /\ \A i \in 1..Len(s) : Append(s, m)[i] = s[i]
        /\ Append(s, m)[Len(s) + 1] = m /\ Len(s) \in Nat
    BY AppendProperties, LenProperties
  <1>2. DOMAIN s = 1..Len(s) /\ DOMAIN Append(s, m) = 1..(Len(s) + 1)
    BY <1>1, LenProperties
  <1>3. \A i \in 1..(Len(s) + 1) : i \in 1..Len(s) \/ i = Len(s) + 1
    BY <1>1
  <1>4. \A i \in 1..Len(s) : i \in 1..(Len(s) + 1) /\ s[i] \in Message
    BY <1>1, ElementOfSeq
  <1>5. Len(s) + 1 \in 1..(Len(s) + 1)
    BY <1>1
  <1> QED
    BY <1>1, <1>2, <1>3, <1>4, <1>5 DEF ToSet

\* A sequence without repetitions.
Distinct(s) == \A i, j \in 1..Len(s) : s[i] = s[j] => i = j

LEMMA ToSetTail ==
  ASSUME NEW s \in Seq(Message), s # <<>>
  PROVE  /\ ToSet(s) = ToSet(Tail(s)) \cup {Head(s)}
         /\ Len(s) = Len(Tail(s)) + 1 /\ Len(Tail(s)) \in Nat
         /\ Distinct(s) => Distinct(Tail(s)) /\ Head(s) \notin ToSet(Tail(s))
  <1> DEFINE t == Tail(s)
             n == Len(t)
  <1>1. /\ t \in Seq(Message) /\ Len(s) = n + 1 /\ n \in Nat
        /\ \A i \in 1..n : t[i] = s[i + 1]
    BY HeadTailProperties, LenProperties
  <1>2. DOMAIN s = 1..(n + 1) /\ DOMAIN t = 1..n
    BY <1>1, LenProperties
  <1>3. Head(s) = s[1]
    OBVIOUS
  <1> HIDE DEF t, n
  <1>4. \A i \in 1..(n + 1) : i = 1 \/ (i - 1 \in 1..n /\ (i - 1) + 1 = i)
    BY <1>1
  <1>5. \A i \in 1..n : i + 1 \in 1..(n + 1) /\ i + 1 # 1
    BY <1>1
  <1>6. 1 \in 1..(n + 1)
    BY <1>1
  <1>7. ToSet(s) = ToSet(t) \cup {s[1]}
    <2>1. \A i \in 1..(n + 1) : s[i] = s[1] \/ (i - 1 \in 1..n /\ s[i] = t[i - 1])
      BY <1>1, <1>4
    <2>2. ToSet(s) \subseteq ToSet(t) \cup {s[1]}
      BY <1>2, <2>1 DEF ToSet
    <2>3. ToSet(t) \subseteq ToSet(s)
      BY <1>1, <1>2, <1>5 DEF ToSet
    <2>4. s[1] \in ToSet(s)
      BY <1>2, <1>6 DEF ToSet
    <2> QED
      BY <2>2, <2>3, <2>4
  <1>8. ASSUME Distinct(s) PROVE Distinct(t)
    <2> SUFFICES ASSUME NEW i \in 1..n, NEW j \in 1..n, t[i] = t[j] PROVE i = j
      BY DEF Distinct, n
    <2>1. s[i + 1] = s[j + 1] /\ i + 1 \in 1..Len(s) /\ j + 1 \in 1..Len(s)
      BY <1>1, <1>5
    <2>2. i + 1 = j + 1
      BY <1>8, <2>1 DEF Distinct
    <2> QED
      BY <1>1, <2>2
  <1>9. ASSUME Distinct(s) PROVE s[1] \notin ToSet(t)
    <2> SUFFICES ASSUME NEW i \in 1..n, t[i] = s[1] PROVE FALSE
      BY <1>2 DEF ToSet
    <2>1. s[i + 1] = s[1] /\ i + 1 \in 1..Len(s) /\ 1 \in 1..Len(s)
      BY <1>1, <1>5, <1>6
    <2>2. i + 1 = 1
      BY <1>9, <2>1 DEF Distinct
    <2> QED
      BY <1>5, <2>2
  <1> QED
    BY <1>1, <1>3, <1>7, <1>8, <1>9 DEF t, n

LEMMA ToSetEmpty == ToSet(<<>>) = {} /\ Len(<<>>) = 0 /\ Distinct(<<>>)
  BY DEF ToSet, Distinct

LEMMA DistinctAppend ==
  ASSUME NEW s \in Seq(Message), NEW m \in Message, Distinct(s), m \notin ToSet(s)
  PROVE  Distinct(Append(s, m))
  <1> DEFINE r == Append(s, m)
             n == Len(s)
  <1>1. /\ n \in Nat /\ Len(r) = n + 1 /\ DOMAIN s = 1..n
        /\ \A i \in 1..n : r[i] = s[i]
        /\ r[n + 1] = m
    BY AppendProperties, LenProperties
  <1> HIDE DEF r
  <1> SUFFICES ASSUME NEW i \in 1..(n + 1), NEW j \in 1..(n + 1), r[i] = r[j] PROVE i = j
    BY <1>1 DEF Distinct, r
  <1>2. \A k \in 1..n : r[k] # m
    BY <1>1 DEF ToSet
  <1>3. CASE i \in 1..n /\ j \in 1..n
    BY <1>1, <1>3 DEF Distinct
  <1>4. CASE i = n + 1 \/ j = n + 1
    <2> HIDE DEF n
    <2>1. \A k \in 1..(n + 1) : k \in 1..n \/ k = n + 1
      BY <1>1
    <2> QED
      BY <1>1, <1>2, <1>4, <2>1
  <1>5. (i \in 1..n /\ j \in 1..n) \/ i = n + 1 \/ j = n + 1
    BY <1>1
  <1> QED
    BY <1>3, <1>4, <1>5

LEMMA DistinctCount ==
  ASSUME NEW s \in Seq(Message), Distinct(s)
  PROVE  IsFiniteSet(ToSet(s)) /\ Cardinality(ToSet(s)) = Len(s)
  <1> DEFINE n == Len(s)
  <1>1. n \in Nat /\ DOMAIN s = 1..n /\ s \in [1..n -> Message]
    BY LenProperties
  <1>2. IsFiniteSet(1..n) /\ Cardinality(1..n) = n
    <2>1. IsFiniteSet(1..n) /\ Cardinality(1..n) = IF 1 > n THEN 0 ELSE n - 1 + 1
      BY <1>1, FS_Interval
    <2> HIDE DEF n
    <2> QED
      BY <1>1, <2>1
  <1> HIDE DEF n
  <1>3. s \in Surjection(1..n, ToSet(s))
    BY <1>1 DEF Surjection, ToSet
  <1>4. s \in Injection(1..n, ToSet(s))
    BY <1>1 DEF Injection, IsInjective, ToSet, Distinct, n
  <1> QED
    BY <1>2, <1>3, <1>4, FS_Surjection DEF n

-----------------------------------------------------------------------------
\* The queue's books: what it holds, how many, and who makes it busy.

Owned(q) == ToSet(q.started) \cup ToSet(q.waiting)
Count(q) == Len(q.started) + Len(q.waiting)

\* The messages of alone have turns of their own, beside the queue.
Sound(q, alone) ==
  /\ q \in MessageQueue
  /\ Distinct(q.waiting)
  /\ ToSet(q.waiting) \cap alone = {}
  /\ \A m \in Message : q.turn[m] # "none" => m \in ToSet(q.started)

Busy(q, alone) ==
  q.processing => \E m \in Message \ alone : q.turn[m] \in Working \cup {"returned"}

LEMMA CountMore ==
  ASSUME NEW q, NEW r, Len(q.started) \in Nat, Len(q.waiting) \in Nat,
         \/ Len(r.started) = Len(q.started) + 1 /\ Len(r.waiting) = Len(q.waiting)
         \/ Len(r.started) = Len(q.started) /\ Len(r.waiting) = Len(q.waiting) + 1
  PROVE  Count(r) = Count(q) + 1
  <1> DEFINE a == Len(q.started)
             b == Len(q.waiting)
             c == Len(r.started)
             d == Len(r.waiting)
  <1>1. a \in Nat /\ b \in Nat /\ ((c = a + 1 /\ d = b) \/ (c = a /\ d = b + 1))
    OBVIOUS
  <1>2. Count(q) = a + b /\ Count(r) = c + d
    BY DEF Count
  <1> HIDE DEF a, b, c, d
  <1>3. c + d = (a + b) + 1
    BY <1>1
  <1> QED
    BY <1>2, <1>3

LEMMA StartTurnSound ==
  ASSUME NEW q, NEW alone, Sound(q, alone), NEW m \in Message \ alone
  PROVE  /\ Sound(StartTurn(q, m), alone) /\ Busy(StartTurn(q, m), alone)
         /\ Owned(StartTurn(q, m)) = Owned(q) \cup {m}
         /\ Count(StartTurn(q, m)) = Count(q) + 1
         /\ ToSet(StartTurn(q, m).started) = ToSet(q.started) \cup {m}
         /\ StartTurn(q, m).waiting = q.waiting
  <1> DEFINE r == StartTurn(q, m)
  <1>1. /\ r \in MessageQueue /\ r.waiting = q.waiting /\ r.turn[m] = "opening"
        /\ q \in MessageQueue
    BY StartTurnFacts DEF Sound
  <1>2. r.started = Append(q.started, m) /\ r.turn = [q.turn EXCEPT ![m] = "opening"]
    BY DEF StartTurn
  <1>3. q.started \in Seq(Message) /\ q.waiting \in Seq(Message) /\ q.turn \in [Message -> Stage]
    BY <1>1 DEF MessageQueue
  <1>4. /\ ToSet(r.started) = ToSet(q.started) \cup {m} /\ Len(r.started) = Len(q.started) + 1
        /\ Len(q.started) \in Nat /\ Len(q.waiting) \in Nat
    BY <1>2, <1>3, ToSetAppend, LenProperties
  <1> HIDE DEF r
  <1>5. \A k \in Message : r.turn[k] # "none" => k \in ToSet(r.started)
    BY <1>2, <1>3, <1>4 DEF Sound
  <1>6. Sound(r, alone)
    BY <1>1, <1>5 DEF Sound
  <1>7. Busy(r, alone)
    BY <1>1 DEF Busy, Working
  <1>8. Owned(r) = Owned(q) \cup {m}
    BY <1>1, <1>4 DEF Owned
  <1>9. Count(r) = Count(q) + 1
    BY <1>1, <1>3, <1>4, CountMore
  <1> QED
    BY <1>1, <1>4, <1>6, <1>7, <1>8, <1>9 DEF r

LEMMA EnqueueSound ==
  ASSUME NEW q, NEW alone, Sound(q, alone), Busy(q, alone), NEW m \in Message \ alone,
         m \notin ToSet(q.waiting)
  PROVE  /\ Sound(enqueue(q, m), alone) /\ Busy(enqueue(q, m), alone)
         /\ Owned(enqueue(q, m)) = Owned(q) \cup {m}
         /\ Count(enqueue(q, m)) = Count(q) + 1
         /\ ToSet(q.started) \subseteq ToSet(enqueue(q, m).started)
  <1>1. CASE ~ q.processing
    BY <1>1, StartTurnSound DEF enqueue
  <1>2. CASE q.processing
    <2> DEFINE w == Append(q.waiting, m)
               r == [q EXCEPT !.waiting = w]
    <2>1. q \in MessageQueue /\ q.waiting \in Seq(Message) /\ q.started \in Seq(Message)
      BY DEF Sound, MessageQueue
    <2>2. /\ ToSet(w) = ToSet(q.waiting) \cup {m} /\ Len(w) = Len(q.waiting) + 1
          /\ Len(q.waiting) \in Nat /\ Len(q.started) \in Nat /\ w \in Seq(Message)
      BY <2>1, ToSetAppend, LenProperties
    <2>3. Distinct(w)
      BY <2>1, DistinctAppend DEF Sound
    <2>4. enqueue(q, m) = r
      BY <1>2 DEF enqueue
    <2> HIDE DEF w
    <2>5. /\ r \in MessageQueue /\ r.waiting = w /\ r.started = q.started
          /\ r.turn = q.turn /\ r.processing = q.processing
      BY <2>1, <2>2 DEF MessageQueue
    <2> HIDE DEF r
    <2>6. Sound(r, alone)
      BY <2>2, <2>3, <2>5 DEF Sound
    <2>7. Busy(r, alone)
      BY <2>5 DEF Busy
    <2>8. Owned(r) = Owned(q) \cup {m}
      BY <2>2, <2>5 DEF Owned
    <2>9. Count(r) = Count(q) + 1
      BY <2>2, <2>5, CountMore
    <2> QED
      BY <2>4, <2>5, <2>6, <2>7, <2>8, <2>9
  <1> QED
    BY <1>1, <1>2

LEMMA EndTurnSound ==
  ASSUME NEW q, NEW alone, Sound(q, alone)
  PROVE  /\ Sound(endTurn(q), alone) /\ Busy(endTurn(q), alone)
         /\ Owned(endTurn(q)) = Owned(q)
         /\ Count(endTurn(q)) = Count(q)
         /\ ToSet(q.started) \subseteq ToSet(endTurn(q).started)
  <1>0. q \in MessageQueue /\ q.waiting \in Seq(Message) /\ q.started \in Seq(Message)
    BY DEF Sound, MessageQueue
  <1>1. CASE q.waiting = <<>>
    <2> DEFINE r == [q EXCEPT !.processing = FALSE]
    <2>1. endTurn(q) = r
      BY <1>1 DEF endTurn
    <2>2. /\ r \in MessageQueue /\ r.waiting = q.waiting /\ r.started = q.started
          /\ r.turn = q.turn /\ r.processing = FALSE
      BY <1>0 DEF MessageQueue
    <2> HIDE DEF r
    <2>3. Sound(r, alone)
      BY <2>2 DEF Sound
    <2>4. Busy(r, alone) /\ Owned(r) = Owned(q) /\ Count(r) = Count(q)
      BY <2>2 DEF Busy, Owned, Count
    <2> QED
      BY <2>1, <2>2, <2>3, <2>4
  <1>2. CASE q.waiting # <<>>
    <2> DEFINE w == Tail(q.waiting)
               r == [q EXCEPT !.waiting = w]
               m == Head(q.waiting)
    <2>1. m \in Message /\ w \in Seq(Message)
      BY <1>0, <1>2, HeadTailProperties
    <2>2. /\ ToSet(q.waiting) = ToSet(w) \cup {m} /\ Len(q.waiting) = Len(w) + 1
          /\ Len(w) \in Nat /\ Len(q.started) \in Nat /\ Distinct(w)
      BY <1>0, <1>2, ToSetTail, LenProperties DEF Sound
    <2>3. m \notin alone
      BY <2>2 DEF Sound
    <2>4. endTurn(q) = StartTurn(r, m)
      BY <1>2 DEF endTurn
    <2> HIDE DEF w, m
    <2>5. /\ r \in MessageQueue /\ r.waiting = w /\ r.started = q.started /\ r.turn = q.turn
      BY <1>0, <2>1 DEF MessageQueue
    <2> HIDE DEF r
    <2>6. Sound(r, alone)
      BY <2>2, <2>5 DEF Sound
    <2>7. /\ Sound(StartTurn(r, m), alone) /\ Busy(StartTurn(r, m), alone)
          /\ Owned(StartTurn(r, m)) = Owned(r) \cup {m}
          /\ Count(StartTurn(r, m)) = Count(r) + 1
          /\ ToSet(StartTurn(r, m).started) = ToSet(r.started) \cup {m}
      BY <2>1, <2>3, <2>6, StartTurnSound
    <2>8. Owned(r) \cup {m} = Owned(q)
      BY <2>2, <2>5 DEF Owned
    <2>9. Count(r) + 1 = Count(q)
      BY <2>2, <2>5, CountMore
    <2> QED
      BY <2>4, <2>5, <2>7, <2>8, <2>9
  <1> QED
    BY <1>1, <1>2

\* A turn that has begun goes on to another stage.
AtStage(q, m, s) == [q EXCEPT !.turn[m] = s]

LEMMA SetStageSound ==
  ASSUME NEW q, NEW alone, Sound(q, alone), NEW m \in Message, q.turn[m] # "none",
         NEW s \in Stage, NEW r, r = AtStage(q, m, s)
  PROVE  /\ Sound(r, alone) /\ Owned(r) = Owned(q) /\ Count(r) = Count(q)
         /\ r.started = q.started /\ r.processing = q.processing /\ r.turn[m] = s
         /\ Busy(q, alone) /\ (m \in alone \/ s \in Working \cup {"returned"}) => Busy(r, alone)
  <1>1. q \in MessageQueue /\ q.turn \in [Message -> Stage]
    BY DEF Sound, MessageQueue
  <1> DEFINE t == [q.turn EXCEPT ![m] = s]
  <1>2. t \in [Message -> Stage] /\ t[m] = s /\ \A k \in Message : k # m => t[k] = q.turn[k]
    BY <1>1
  <1>3. r = [q EXCEPT !.turn = t]
    BY <1>1 DEF MessageQueue, AtStage
  <1> HIDE DEF t
  <1>4. /\ r \in MessageQueue /\ r.waiting = q.waiting /\ r.started = q.started
        /\ r.processing = q.processing /\ r.turn = t
    BY <1>1, <1>2, <1>3 DEF MessageQueue
  <1>5. Sound(r, alone)
    BY <1>2, <1>4 DEF Sound
  <1>6. Owned(r) = Owned(q) /\ Count(r) = Count(q)
    BY <1>4 DEF Owned, Count
  <1>7. ASSUME Busy(q, alone), m \in alone \/ s \in Working \cup {"returned"}
        PROVE  Busy(r, alone)
    BY <1>2, <1>4, <1>7 DEF Busy
  <1> QED
    BY <1>2, <1>4, <1>5, <1>6, <1>7

LEMMA HandlerReturnsSound ==
  ASSUME NEW q, Sound(q, direct), Busy(q, direct), NEW m \in Message, q.turn[m] # "none"
  PROVE  /\ Sound(HandlerReturns(q, m), direct) /\ Busy(HandlerReturns(q, m), direct)
         /\ Owned(HandlerReturns(q, m)) = Owned(q)
         /\ Count(HandlerReturns(q, m)) = Count(q)
         /\ ToSet(q.started) \subseteq ToSet(HandlerReturns(q, m).started)
  <1>1. CASE m \in direct
    <2>1. HandlerReturns(q, m) = AtStage(q, m, "over") /\ "over" \in Stage
      BY <1>1 DEF HandlerReturns, Stage, AtStage
    <2> QED
      BY <1>1, <2>1, SetStageSound
  <1>2. CASE m \notin direct
    <2> DEFINE r == AtStage(q, m, "returned")
    <2>1. HandlerReturns(q, m) = endTurn(r) /\ "returned" \in Stage
      BY <1>2 DEF HandlerReturns, Stage, AtStage
    <2>2. Sound(r, direct) /\ Owned(r) = Owned(q) /\ Count(r) = Count(q) /\ r.started = q.started
      BY <2>1, SetStageSound
    <2> HIDE DEF r
    <2> QED
      BY <2>1, <2>2, EndTurnSound
  <1> QED
    BY <1>1, <1>2

LEMMA ClearSound ==
  ASSUME NEW q, NEW alone, Sound(q, alone)
  PROVE  /\ Sound(clear(q), alone) /\ (Busy(q, alone) => Busy(clear(q), alone))
         /\ Owned(clear(q)) = ToSet(q.started) /\ Count(clear(q)) = Len(q.started)
         /\ clear(q).started = q.started
  <1> DEFINE r == clear(q)
  <1>1. q \in MessageQueue /\ q.started \in Seq(Message)
    BY DEF Sound, MessageQueue
  <1>2. /\ r \in MessageQueue /\ r.waiting = <<>> /\ r.processing = q.processing
        /\ r.started = q.started /\ r.turn = q.turn
    BY <1>1, ClearFacts DEF clear, MessageQueue
  <1>3. Len(q.started) \in Nat
    BY <1>1, LenProperties
  <1> HIDE DEF r
  <1>4. Sound(r, alone)
    BY <1>2, ToSetEmpty DEF Sound
  <1>5. Busy(q, alone) => Busy(r, alone)
    BY <1>2 DEF Busy
  <1>6. Owned(r) = ToSet(q.started) /\ Count(r) = Len(q.started)
    BY <1>2, <1>3, ToSetEmpty DEF Owned, Count
  <1> QED
    BY <1>2, <1>4, <1>5, <1>6 DEF r

\* A turn beside the queue.
Beside(q, m, r) ==
  /\ r \in MessageQueue
  /\ r.turn = [q.turn EXCEPT ![m] = "opening"] /\ r.started = Append(q.started, m)
  /\ r.waiting = q.waiting /\ r.processing = q.processing

LEMMA DirectSound ==
  ASSUME NEW q, NEW alone, Sound(q, alone), Busy(q, alone), NEW m \in Message, m \notin Owned(q),
         NEW r, Beside(q, m, r)
  PROVE  /\ Sound(r, alone \cup {m}) /\ Busy(r, alone \cup {m})
         /\ Owned(r) = Owned(q) \cup {m} /\ Count(r) = Count(q) + 1
         /\ ToSet(r.started) = ToSet(q.started) \cup {m}
  <1>1. /\ q \in MessageQueue /\ q.turn \in [Message -> Stage]
        /\ q.started \in Seq(Message) /\ q.waiting \in Seq(Message)
    BY DEF Sound, MessageQueue
  <1> DEFINE t == [q.turn EXCEPT ![m] = "opening"]
             s == Append(q.started, m)
  <1>2. t \in [Message -> Stage] /\ \A k \in Message : k # m => t[k] = q.turn[k]
    BY <1>1 DEF Stage, Working
  <1>3. /\ s \in Seq(Message) /\ ToSet(s) = ToSet(q.started) \cup {m}
        /\ Len(s) = Len(q.started) + 1 /\ Len(q.started) \in Nat /\ Len(q.waiting) \in Nat
    BY <1>1, ToSetAppend, LenProperties
  <1>4. /\ r \in MessageQueue /\ r.turn = t /\ r.started = s /\ r.waiting = q.waiting
        /\ r.processing = q.processing
    BY DEF Beside
  <1> HIDE DEF t, s
  <1>5. /\ r \in MessageQueue /\ r.turn = t /\ r.started = s /\ r.waiting = q.waiting
        /\ r.processing = q.processing
    BY <1>4
  <1>6. m \notin ToSet(q.started) /\ m \notin ToSet(q.waiting)
    BY DEF Owned
  <1>7. Sound(r, alone \cup {m})
    BY <1>2, <1>3, <1>5, <1>6 DEF Sound
  <1>8. Busy(r, alone \cup {m})
    <2> SUFFICES ASSUME r.processing
                 PROVE  \E k \in Message \ (alone \cup {m}) : r.turn[k] \in Working \cup {"returned"}
      BY DEF Busy
    <2>1. PICK k \in Message \ alone : q.turn[k] \in Working \cup {"returned"}
      BY <1>5 DEF Busy
    <2>2. q.turn[k] # "none"
      BY <2>1 DEF Working
    <2>3. k # m
      BY <1>6, <2>1, <2>2 DEF Sound
    <2> QED
      BY <1>2, <1>5, <2>1, <2>3
  <1>9. Owned(r) = Owned(q) \cup {m} /\ Count(r) = Count(q) + 1
    BY <1>3, <1>5, CountMore DEF Owned
  <1> QED
    BY <1>3, <1>5, <1>7, <1>8, <1>9

-----------------------------------------------------------------------------
\* The books of a session: a arrived, c was thrown out.

Flow(q, alone, a, c) ==
  /\ Sound(q, alone) /\ Busy(q, alone) /\ alone \subseteq ToSet(q.started)
  /\ a \in Seq(Message) /\ IsFiniteSet(c)
  /\ ToSet(a) = Owned(q) \cup c
  /\ ToSet(q.waiting) \cap c = {}
  /\ Len(a) = Count(q) + Cardinality(c)

LEMMA CountType ==
  ASSUME NEW q \in MessageQueue
  PROVE  Count(q) \in Nat
  <1>1. Len(q.started) \in Nat /\ Len(q.waiting) \in Nat
    BY LenProperties DEF MessageQueue
  <1> DEFINE x == Len(q.started)
             y == Len(q.waiting)
  <1>2. Count(q) = x + y /\ x \in Nat /\ y \in Nat
    BY <1>1 DEF Count
  <1> HIDE DEF x, y
  <1> QED
    BY <1>2

\* The queue changes, and neither what arrived nor what was thrown out does.
LEMMA FlowStays ==
  ASSUME NEW q, NEW r, NEW alone, NEW a, NEW c, Flow(q, alone, a, c),
         Sound(r, alone), Busy(r, alone), Owned(r) = Owned(q), Count(r) = Count(q),
         ToSet(q.started) \subseteq ToSet(r.started),
         ToSet(r.waiting) \subseteq ToSet(q.waiting)
  PROVE  Flow(r, alone, a, c)
  BY DEF Flow

\* One message more arrives.
LEMMA FlowGrows ==
  ASSUME NEW q, NEW r, NEW alone, NEW more, NEW a, NEW c, Flow(q, alone, a, c),
         NEW m \in Message, m \notin ToSet(a),
         Sound(r, more), Busy(r, more), more \subseteq ToSet(r.started),
         Owned(r) = Owned(q) \cup {m}, Count(r) = Count(q) + 1,
         ToSet(r.waiting) \subseteq ToSet(q.waiting) \cup {m}
  PROVE  Flow(r, more, Append(a, m), c)
  <1> DEFINE b == Append(a, m)
  <1>1. b \in Seq(Message) /\ ToSet(b) = ToSet(a) \cup {m} /\ Len(b) = Len(a) + 1
    BY ToSetAppend, AppendProperties DEF Flow
  <1>2. Count(q) \in Nat /\ Cardinality(c) \in Nat
    BY CountType, FS_CardinalityType DEF Flow, Sound
  <1>3. Len(b) = Count(r) + Cardinality(c)
    <2> DEFINE x == Count(q)
               y == Cardinality(c)
    <2>1. x \in Nat /\ y \in Nat /\ Len(a) = x + y /\ Count(r) = x + 1
      BY <1>2 DEF Flow
    <2> HIDE DEF x
    <2> QED
      BY <1>1, <2>1
  <1> HIDE DEF b
  <1>4. m \notin c /\ ToSet(q.waiting) \cap c = {}
    BY DEF Flow
  <1>5. ToSet(b) = Owned(r) \cup c /\ ToSet(r.waiting) \cap c = {}
    BY <1>1, <1>4 DEF Flow
  <1>6. IsFiniteSet(c)
    BY DEF Flow
  <1> QED
    BY <1>1, <1>3, <1>5, <1>6 DEF Flow, b

LEMMA EnqueueFlow ==
  ASSUME NEW q, NEW alone, NEW a, NEW c, Flow(q, alone, a, c),
         NEW m \in Message, m \notin ToSet(a)
  PROVE  Flow(enqueue(q, m), alone, Append(a, m), c)
  <1> DEFINE r == enqueue(q, m)
  <1>1. /\ q \in MessageQueue /\ q.waiting \in Seq(Message)
        /\ Sound(q, alone) /\ Busy(q, alone) /\ alone \subseteq ToSet(q.started)
    BY DEF Flow, Sound, MessageQueue
  <1>2. m \notin Owned(q)
    BY DEF Flow
  <1>3. m \notin ToSet(q.waiting) /\ m \notin alone
    BY <1>1, <1>2 DEF Owned
  <1>4. /\ Sound(r, alone) /\ Busy(r, alone)
        /\ Owned(r) = Owned(q) \cup {m} /\ Count(r) = Count(q) + 1
        /\ ToSet(q.started) \subseteq ToSet(r.started)
    BY <1>1, <1>3, EnqueueSound
  <1>5. r.waiting = Append(q.waiting, m) \/ r.waiting = q.waiting
    BY <1>1, EnqueueFacts
  <1>6. ToSet(r.waiting) \subseteq ToSet(q.waiting) \cup {m}
    BY <1>1, <1>5, ToSetAppend
  <1> HIDE DEF r
  <1>7. alone \subseteq ToSet(r.started)
    BY <1>1, <1>4
  <1>8. Flow(r, alone, Append(a, m), c)
    BY <1>4, <1>6, <1>7, FlowGrows
  <1> QED
    BY <1>8 DEF r

LEMMA DirectFlow ==
  ASSUME NEW q, NEW alone, NEW a, NEW c, Flow(q, alone, a, c),
         NEW m \in Message, m \notin ToSet(a),
         NEW r, Beside(q, m, r)
  PROVE  Flow(r, alone \cup {m}, Append(a, m), c)
  <1>1. q \in MessageQueue /\ Sound(q, alone) /\ Busy(q, alone) /\ alone \subseteq ToSet(q.started)
    BY DEF Flow, Sound
  <1>2. m \notin Owned(q)
    BY DEF Flow
  <1>3. /\ Sound(r, alone \cup {m}) /\ Busy(r, alone \cup {m})
        /\ Owned(r) = Owned(q) \cup {m} /\ Count(r) = Count(q) + 1
        /\ ToSet(r.started) = ToSet(q.started) \cup {m}
    BY <1>1, <1>2, DirectSound
  <1>5. alone \cup {m} \subseteq ToSet(r.started)
    BY <1>1, <1>3
  <1> QED
    BY <1>3, <1>5, FlowGrows DEF Beside

LEMMA ClearFlow ==
  ASSUME NEW q, NEW alone, NEW a, NEW c, Flow(q, alone, a, c)
  PROVE  Flow(clear(q), alone, a, c \cup ToSet(q.waiting))
  <1> DEFINE r == clear(q)
             w == ToSet(q.waiting)
             d == c \cup w
  <1>1. /\ q \in MessageQueue /\ q.waiting \in Seq(Message) /\ q.started \in Seq(Message)
        /\ Sound(q, alone) /\ Busy(q, alone) /\ alone \subseteq ToSet(q.started)
        /\ Distinct(q.waiting) /\ IsFiniteSet(c) /\ w \cap c = {}
    BY DEF Flow, Sound, MessageQueue
  <1>2. /\ Sound(r, alone) /\ Busy(r, alone)
        /\ Owned(r) = ToSet(q.started) /\ Count(r) = Len(q.started)
        /\ r.started = q.started
    BY <1>1, ClearSound
  <1>3. r.waiting = <<>>
    BY <1>1, ClearFacts
  <1>4. IsFiniteSet(w) /\ Cardinality(w) = Len(q.waiting)
    BY <1>1, DistinctCount
  <1> HIDE DEF r, w
  <1>5. IsFiniteSet(d) /\ Cardinality(d) = Cardinality(c) + Cardinality(w)
    <2>1. /\ IsFiniteSet(d)
          /\ Cardinality(d) = Cardinality(c) + Cardinality(w) - Cardinality(c \cap w)
      BY <1>1, <1>4, FS_Union
    <2>2. Cardinality(c \cap w) = 0
      <3>1. c \cap w = {}
        BY <1>1
      <3> QED
        BY <3>1, FS_EmptySet
    <2>3. Cardinality(c) \in Nat /\ Cardinality(w) \in Nat
      BY <1>1, <1>4, FS_CardinalityType
    <2> HIDE DEF d
    <2> QED
      BY <2>1, <2>2, <2>3
  <1>6. ToSet(a) = Owned(r) \cup d
    BY <1>2 DEF Flow, Owned, w
  <1>7. Len(a) = Count(r) + Cardinality(d)
    <2> DEFINE x == Len(q.started)
               y == Len(q.waiting)
               z == Cardinality(c)
    <2>1. x \in Nat /\ y \in Nat /\ z \in Nat
      BY <1>1, LenProperties, FS_CardinalityType
    <2>2. Len(a) = (x + y) + z
      BY DEF Flow, Count
    <2>3. Count(r) = x /\ Cardinality(d) = z + y
      BY <1>2, <1>4, <1>5
    <2> HIDE DEF x, y, z, d
    <2> QED
      BY <2>1, <2>2, <2>3
  <1>8. ToSet(r.waiting) \cap d = {}
    BY <1>3, ToSetEmpty
  <1>9. a \in Seq(Message) /\ alone \subseteq ToSet(r.started)
    BY <1>1, <1>2 DEF Flow
  <1> HIDE DEF d
  <1>10. Flow(r, alone, a, d)
    BY <1>2, <1>5, <1>6, <1>7, <1>8, <1>9 DEF Flow
  <1> QED
    BY <1>10 DEF r, d, w

LEMMA EndTurnWaits ==
  ASSUME NEW q \in MessageQueue
  PROVE  /\ ToSet(endTurn(q).waiting) \subseteq ToSet(q.waiting)
         /\ \A m \in Message : q.turn[m] # "none" => endTurn(q).turn[m] # "none"
  <1>1. CASE q.waiting = <<>>
    <2>1. endTurn(q).waiting = q.waiting /\ endTurn(q).turn = q.turn
      BY <1>1 DEF endTurn, MessageQueue
    <2> QED
      BY <2>1
  <1>2. CASE q.waiting # <<>>
    <2> DEFINE m == Head(q.waiting)
               t == [q.turn EXCEPT ![m] = "opening"]
    <2>1. q.waiting \in Seq(Message) /\ q.turn \in [Message -> Stage]
      BY DEF MessageQueue
    <2>2. endTurn(q).waiting = Tail(q.waiting) /\ endTurn(q).turn = t
      BY <1>2 DEF endTurn, StartTurn, MessageQueue
    <2>3. ToSet(q.waiting) = ToSet(Tail(q.waiting)) \cup {m}
      BY <1>2, <2>1, ToSetTail
    <2>4. \A k \in Message : q.turn[k] # "none" => t[k] # "none"
      BY <2>1
    <2> QED
      BY <2>2, <2>3, <2>4
  <1> QED
    BY <1>1, <1>2
LEMMA EndTurnFlow ==
  ASSUME NEW q, NEW alone, NEW a, NEW c, Flow(q, alone, a, c)
  PROVE  Flow(endTurn(q), alone, a, c)
  <1>1. Sound(q, alone) /\ q \in MessageQueue
    BY DEF Flow, Sound
  <1>2. /\ Sound(endTurn(q), alone) /\ Busy(endTurn(q), alone)
        /\ Owned(endTurn(q)) = Owned(q) /\ Count(endTurn(q)) = Count(q)
        /\ ToSet(q.started) \subseteq ToSet(endTurn(q).started)
    BY <1>1, EndTurnSound
  <1>3. ToSet(endTurn(q).waiting) \subseteq ToSet(q.waiting)
    BY <1>1, EndTurnWaits
  <1> QED
    BY <1>2, <1>3, FlowStays

\* A turn goes on to a stage in which the queue still waits for it.
LEMMA SetStageFlow ==
  ASSUME NEW q, NEW alone, NEW a, NEW c, Flow(q, alone, a, c),
         NEW m \in Message, q.turn[m] # "none", NEW s \in Stage,
         NEW r, r = AtStage(q, m, s)
  PROVE  /\ Sound(r, alone) /\ Owned(r) = Owned(q) /\ Count(r) = Count(q)
         /\ r.started = q.started /\ r.waiting = q.waiting
         /\ m \in alone \/ s \in Working \cup {"returned"} => Flow(r, alone, a, c)
  <1>1. Sound(q, alone) /\ Busy(q, alone) /\ q \in MessageQueue
    BY DEF Flow, Sound
  <1>2. /\ Sound(r, alone) /\ Owned(r) = Owned(q) /\ Count(r) = Count(q)
        /\ r.started = q.started /\ r.processing = q.processing /\ r.turn[m] = s
        /\ Busy(q, alone) /\ (m \in alone \/ s \in Working \cup {"returned"}) => Busy(r, alone)
    BY <1>1, SetStageSound
  <1>3. r.waiting = q.waiting
    BY <1>1, SetStageFacts DEF AtStage
  <1> QED
    BY <1>1, <1>2, <1>3, FlowStays

LEMMA HandlerReturnsFlow ==
  ASSUME NEW q, NEW a, NEW c, Flow(q, direct, a, c), NEW m \in Message, q.turn[m] # "none"
  PROVE  Flow(HandlerReturns(q, m), direct, a, c)
  <1>0. "over" \in Stage /\ "returned" \in Stage
    BY DEF Stage
  <1>1. CASE m \in direct
    <2>1. HandlerReturns(q, m) = AtStage(q, m, "over")
      BY <1>1 DEF HandlerReturns, AtStage
    <2> QED
      BY <1>0, <1>1, <2>1, SetStageFlow
  <1>2. CASE m \notin direct
    <2> DEFINE r == AtStage(q, m, "returned")
    <2>1. Flow(r, direct, a, c)
      BY <1>0, SetStageFlow
    <2>2. HandlerReturns(q, m) = endTurn(r)
      BY <1>2 DEF HandlerReturns, AtStage
    <2> HIDE DEF r
    <2> QED
      BY <2>1, <2>2, EndTurnFlow
  <1> QED
    BY <1>1, <1>2

\* process() is over: its turn no longer makes the queue busy, but it drains it.
LEMMA ReleaseFlow ==
  ASSUME NEW q, NEW alone, NEW a, NEW c, Flow(q, alone, a, c),
         NEW m \in Message, q.turn[m] # "none"
  PROVE  Flow(endTurn(AtStage(q, m, "over")), alone, a, c)
  <1> DEFINE r == AtStage(q, m, "over")
             e == endTurn(r)
  <1>1. "over" \in Stage
    BY DEF Stage
  <1>2. /\ Sound(r, alone) /\ Owned(r) = Owned(q) /\ Count(r) = Count(q)
        /\ r.started = q.started /\ r.waiting = q.waiting
    BY <1>1, SetStageFlow
  <1> HIDE DEF r
  <1>3. r \in MessageQueue
    BY <1>2 DEF Sound
  <1>4. /\ Sound(e, alone) /\ Busy(e, alone) /\ Owned(e) = Owned(q) /\ Count(e) = Count(q)
        /\ ToSet(q.started) \subseteq ToSet(e.started)
    BY <1>2, EndTurnSound
  <1>5. ToSet(e.waiting) \subseteq ToSet(q.waiting)
    BY <1>2, <1>3, EndTurnWaits
  <1> HIDE DEF e
  <1>6. Flow(e, alone, a, c)
    BY <1>4, <1>5, FlowStays
  <1> QED
    BY <1>6 DEF e, r

-----------------------------------------------------------------------------
Books == Flow(mq, direct, arrived, cleared)

LEMMA BooksInit == Init => Books
  <1> SUFFICES ASSUME Init PROVE Books
    OBVIOUS
  <1>1. /\ mq \in MessageQueue /\ mq.waiting = <<>> /\ mq.started = <<>>
        /\ mq.processing = FALSE /\ \A m \in Message : mq.turn[m] = "none"
    BY EmptySeq DEF Init, MessageQueue, Stage
  <1>2. direct = {} /\ cleared = {} /\ arrived = <<>>
    BY DEF Init
  <1>3. Sound(mq, {}) /\ Busy(mq, {})
    BY <1>1, ToSetEmpty DEF Sound, Busy
  <1>4. Owned(mq) = {} /\ Count(mq) = 0
    BY <1>1, ToSetEmpty DEF Owned, Count
  <1>5. IsFiniteSet({}) /\ Cardinality({}) = 0
    BY FS_EmptySet
  <1>6. Len(arrived) = Count(mq) + Cardinality({})
    BY <1>2, <1>4, <1>5, ToSetEmpty
  <1>7. arrived \in Seq(Message)
    BY <1>2, EmptySeq
  <1> QED
    BY <1>2, <1>3, <1>4, <1>5, <1>6, <1>7, ToSetEmpty DEF Books, Flow

LEMMA ProgressBooks ==
  ASSUME Books, NEW m \in Message, Progress(m) \/ NextStep(m) \/ Fail(m)
  PROVE  Books'
  <1>0. /\ direct' = direct /\ arrived' = arrived /\ cleared' = cleared
    BY DEF Progress, Open, Skip, Proceed, RunLoop, NextStep, LoopReturns, CleanUp,
       Fail, Return, Release, sessionVars, commandVars
  <1>1. Flow(mq, direct, arrived, cleared) /\ mq \in MessageQueue
    BY DEF Books, Flow, Sound
  <1> SUFFICES Flow(mq', direct, arrived, cleared)
    BY <1>0 DEF Books
  <1>2. CASE \/ Open(m) \/ Proceed(m) \/ RunLoop(m) \/ LoopReturns(m)
             \/ CleanUp(m) \/ Fail(m)
    <2>1. PICK s \in Working : mq' = AtStage(mq, m, s)
      BY <1>2 DEF AtStage, Open, Proceed, RunLoop, LoopReturns, CleanUp, Fail, Move, Working
    <2>2. mq.turn[m] # "none"
      BY <1>2 DEF Open, Proceed, RunLoop, LoopReturns, CleanUp, Fail, Move, At, Working
    <2>3. s \in Stage /\ s \in Working \cup {"returned"}
      BY DEF Stage
    <2> QED
      BY <1>1, <2>1, <2>2, <2>3, SetStageFlow
  <1>3. CASE Skip(m)
    <2>1. mq.turn[m] # "none"
      BY <1>3 DEF Skip, At
    <2>2. CASE m \in direct
      BY <1>1, <1>3, <2>1, <2>2, HandlerReturnsFlow DEF Skip
    <2>3. CASE m \notin direct
      <3>1. Flow(endTurn(mq), direct, arrived, cleared) /\ endTurn(mq).turn[m] # "none"
        BY <1>1, <2>1, EndTurnFlow, EndTurnWaits
      <3>2. mq' = HandlerReturns(endTurn(mq), m)
        BY <1>3, <2>3 DEF Skip
      <3> QED
        BY <3>1, <3>2, HandlerReturnsFlow
    <2> QED
      BY <2>2, <2>3
  <1>4. CASE Return(m)
    BY <1>1, <1>4, HandlerReturnsFlow DEF Return
  <1>5. CASE Release(m)
    <2>1. mq.turn[m] # "none" /\ mq' = endTurn(AtStage(mq, m, "over"))
      BY <1>5 DEF Release, At, AtStage
    <2> QED
      BY <1>1, <2>1, ReleaseFlow
  <1>6. CASE NextStep(m)
    BY <1>1, <1>6 DEF NextStep
  <1> QED
    BY <1>2, <1>3, <1>4, <1>5, <1>6 DEF Progress
LEMMA RerunBooks ==
  ASSUME NEW q, NEW c, Flow(q, direct, arrived, c), NEW m \in Message,
         m \notin ToSet(arrived), Rerun(q, m)
  PROVE  Flow(mq', direct', arrived', c)
  <1>1. CASE hasQueue
    <2>1. mq' = enqueue(q, m) /\ arrived' = Append(arrived, m) /\ direct' = direct
      BY <1>1 DEF Rerun, Deliver
    <2> QED
      BY <2>1, EnqueueFlow
  <1>2. CASE ~ hasQueue
    <2>1. /\ mq' = [q EXCEPT !.turn[m] = "opening", !.started = Append(q.started, m)]
          /\ arrived' = Append(arrived, m) /\ direct' = direct \cup {m}
      BY <1>2 DEF Rerun
    <2>2. Beside(q, m, mq')
      <3> DEFINE t == [q.turn EXCEPT ![m] = "opening"]
                 s == Append(q.started, m)
      <3>1. q \in MessageQueue
        BY DEF Flow, Sound
      <3>2. s \in Seq(Message) /\ t \in [Message -> Stage]
        BY <3>1 DEF MessageQueue, Stage, Working
      <3>3. mq' = [q EXCEPT !.turn = t, !.started = s]
        BY <2>1, <3>1 DEF MessageQueue
      <3> HIDE DEF t, s
      <3>4. /\ mq' \in MessageQueue /\ mq'.turn = t /\ mq'.started = s
            /\ mq'.waiting = q.waiting /\ mq'.processing = q.processing
        BY <3>1, <3>2, <3>3 DEF MessageQueue
      <3> QED
        BY <3>4 DEF Beside, t, s
    <2> QED
      BY <2>1, <2>2, DirectFlow
  <1> QED
    BY <1>1, <1>2

LEMMA UserBooks ==
  ASSUME Books, User
  PROVE  Books'
  <1>1. Flow(mq, direct, arrived, cleared)
    BY DEF Books
  <1>2. Flow(clear(mq), direct, arrived, cleared \cup ToSet(mq.waiting))
    BY <1>1, ClearFlow
  <1>3. ASSUME NEW m \in Message, Receive(m) PROVE Books'
    <2>1. /\ m \notin ToSet(arrived) /\ mq' = enqueue(mq, m) /\ arrived' = Append(arrived, m)
          /\ direct' = direct /\ cleared' = cleared
      BY <1>3 DEF Receive, Unsent, Deliver
    <2>2. Flow(enqueue(mq, m), direct, Append(arrived, m), cleared)
      BY <1>1, <2>1, EnqueueFlow
    <2> QED
      BY <2>1, <2>2 DEF Books
  <1>4. ASSUME NEW m \in Message, Interrupt(m) PROVE Books'
    <2>1. m \notin ToSet(arrived)
      BY <1>4 DEF Interrupt, Unsent
    <2>2. CASE abortOf # NoTurn
      <3>1. Rerun(clear(mq), m) /\ cleared' = cleared \cup ToSet(mq.waiting)
        BY <1>4, <2>2 DEF Interrupt
      <3>2. Flow(mq', direct', arrived', cleared \cup ToSet(mq.waiting))
        BY <1>2, <2>1, <3>1, RerunBooks
      <3> QED
        BY <3>1, <3>2 DEF Books
    <2>3. CASE abortOf = NoTurn
      <3>1. Rerun(mq, m) /\ cleared' = cleared
        BY <1>4, <2>3 DEF Interrupt
      <3>2. Flow(mq', direct', arrived', cleared)
        BY <1>1, <2>1, <3>1, RerunBooks
      <3> QED
        BY <3>1, <3>2 DEF Books
    <2> QED
      BY <2>2, <2>3
  <1>5. ASSUME NEW m \in Message, Steer(m) PROVE Books'
    <2>1. m \notin ToSet(arrived) /\ cleared' = cleared
      BY <1>5 DEF Steer, Unsent
    <2>2. CASE mq' = mq /\ direct' = direct /\ arrived' = arrived
      BY <1>1, <2>1, <2>2 DEF Books
    <2>3. CASE Rerun(mq, m)
      <3>1. Flow(mq', direct', arrived', cleared)
        BY <1>1, <2>1, <2>3, RerunBooks
      <3> QED
        BY <2>1, <3>1 DEF Books
    <2> QED
      BY <1>5, <2>2, <2>3 DEF Steer
  <1>6. ASSUME mq' = clear(mq), cleared' = cleared \cup ToSet(mq.waiting),
               direct' = direct, arrived' = arrived
        PROVE  Books'
    BY <1>2, <1>6 DEF Books
  <1>7. CASE Stop \/ FreshSession \/ Clear
    BY <1>6, <1>7 DEF Stop, FreshSession, Clear, ClearWaiting, sessionVars
  <1>8. CASE NewSession
    BY <1>1, <1>8 DEF NewSession, sessionVars, Books
  <1> QED
    BY <1>3, <1>4, <1>5, <1>7, <1>8 DEF User

LEMMA BooksInvariant == Spec => []Books
  <1>1. Books /\ [Next]_vars => Books'
    <2>1. ASSUME Books, UNCHANGED vars PROVE Books'
      BY <2>1 DEF vars, Books
    <2> QED
      BY <2>1, ProgressBooks, UserBooks DEF Next
  <1> QED
    BY <1>1, BooksInit, PTL DEF Spec

\* The queue never says that it is busy without a turn that will come back to it,
\* whatever is skipped, interrupted or cleared: no session queues for ever.
THEOREM BusyQueue == Spec => []BusyWithTurn
  <1>1. Books => BusyWithTurn
    BY DEF Books, Flow, Busy, BusyWithTurn
  <1> QED
    BY <1>1, BooksInvariant, PTL

\* Whatever turns end and commands clear, each message that arrived is started once,
\* waits, or was thrown out by a command, for any number of messages.
THEOREM MessagesConserved == Spec => []MessageConserved
  <1>1. Books => MessageConserved
    BY DEF Books, Flow, Owned, Count, MessageConserved
  <1> QED
    BY <1>1, BooksInvariant, PTL
-----------------------------------------------------------------------------
\* The order of the turns: what was started and what waits, one after the other,
\* are in the order of arrival.

Ahead(a, x, y) == \A k, l \in 1..Len(a) : x = a[k] /\ y = a[l] => k < l
InLine(a, s) == \A i, j \in 1..Len(s) : i < j => Ahead(a, s[i], s[j])
Lined(a, q) ==
  /\ InLine(a, q.started) /\ InLine(a, q.waiting)
  /\ \A x \in ToSet(q.started), y \in ToSet(q.waiting) : Ahead(a, x, y)

LEMMA NewIsLast ==
  ASSUME NEW a \in Seq(Message), NEW m \in Message, m \notin ToSet(a), NEW x \in ToSet(a)
  PROVE  /\ Ahead(Append(a, m), x, m)
         /\ \A y \in ToSet(a) : Ahead(a, x, y) => Ahead(Append(a, m), x, y)
  <1> DEFINE b == Append(a, m)
             n == Len(a)
  <1>1. /\ n \in Nat /\ Len(b) = n + 1 /\ b[n + 1] = m /\ \A k \in 1..n : b[k] = a[k]
    BY AppendProperties, LenProperties
  <1>2. \A k \in 1..n : a[k] \in ToSet(a)
    BY LenProperties DEF ToSet
  <1> HIDE DEF b, n
  <1>3. \A k \in 1..(n + 1) : k \in 1..n \/ k = n + 1
    BY <1>1
  <1>4. ASSUME NEW y \in ToSet(a), NEW k \in 1..(n + 1), y = b[k] PROVE k \in 1..n /\ y = a[k]
    BY <1>1, <1>3, <1>4
  <1>5. ASSUME NEW k \in 1..(n + 1), m = b[k] PROVE k = n + 1
    BY <1>1, <1>2, <1>3, <1>5
  <1>6. Ahead(b, x, m)
    <2> SUFFICES ASSUME NEW k \in 1..(n + 1), NEW l \in 1..(n + 1), x = b[k], m = b[l] PROVE k < l
      BY <1>1 DEF Ahead
    <2>1. k \in 1..n /\ l = n + 1
      BY <1>4, <1>5
    <2> QED
      BY <1>1, <2>1
  <1>7. ASSUME NEW y \in ToSet(a), Ahead(a, x, y) PROVE Ahead(b, x, y)
    <2> SUFFICES ASSUME NEW k \in 1..(n + 1), NEW l \in 1..(n + 1), x = b[k], y = b[l] PROVE k < l
      BY <1>1 DEF Ahead
    <2>1. k \in 1..n /\ l \in 1..n /\ x = a[k] /\ y = a[l]
      BY <1>4
    <2> QED
      BY <1>7, <2>1 DEF Ahead, n
  <1> QED
    BY <1>6, <1>7 DEF b

\* One more at the end of a line.
LEMMA LineAppend ==
  ASSUME NEW a, NEW s \in Seq(Message), NEW m \in Message, InLine(a, s), \A x \in ToSet(s) : Ahead(a, x, m)
  PROVE  InLine(a, Append(s, m))
  <1> DEFINE r == Append(s, m)
             n == Len(s)
  <1>1. n \in Nat /\ Len(r) = n + 1 /\ r[n + 1] = m /\ \A k \in 1..n : r[k] = s[k]
    BY AppendProperties, LenProperties
  <1>2. \A k \in 1..n : s[k] \in ToSet(s)
    BY LenProperties DEF ToSet
  <1> HIDE DEF r
  <1> SUFFICES ASSUME NEW i \in 1..(n + 1), NEW j \in 1..(n + 1), i < j PROVE Ahead(a, r[i], r[j])
    BY <1>1 DEF InLine, r
  <1>3. i \in 1..n /\ (j \in 1..n \/ j = n + 1)
    <2> HIDE DEF n
    <2> QED
      BY <1>1
  <1>4. CASE j \in 1..n
    <2>1. r[i] = s[i] /\ r[j] = s[j]
      BY <1>1, <1>3, <1>4
    <2> QED
      BY <1>3, <1>4, <2>1 DEF InLine
  <1>5. CASE j = n + 1
    <2>1. r[i] = s[i] /\ r[j] = m /\ s[i] \in ToSet(s)
      BY <1>1, <1>2, <1>3, <1>5
    <2> QED
      BY <2>1
  <1> QED
    BY <1>3, <1>4, <1>5

\* The first leaves a line.
LEMMA LineTail ==
  ASSUME NEW a, NEW w \in Seq(Message), w # <<>>, InLine(a, w)
  PROVE  InLine(a, Tail(w)) /\ \A y \in ToSet(Tail(w)) : Ahead(a, Head(w), y)
  <1> DEFINE t == Tail(w)
             n == Len(t)
  <1>1. /\ t \in Seq(Message) /\ Len(w) = n + 1 /\ n \in Nat /\ Head(w) = w[1]
        /\ \A k \in 1..n : t[k] = w[k + 1]
    BY HeadTailProperties, LenProperties
  <1>2. \A y \in ToSet(t) : \E k \in 1..n : y = t[k]
    BY <1>1, LenProperties DEF ToSet
  <1> HIDE DEF t, n
  <1>3. \A k \in 1..n : k + 1 \in 1..Len(w) /\ 1 \in 1..Len(w) /\ 1 < k + 1
    BY <1>1
  <1>4. InLine(a, t)
    <2> SUFFICES ASSUME NEW i \in 1..n, NEW j \in 1..n, i < j PROVE Ahead(a, t[i], t[j])
      BY DEF InLine, n
    <2>1. i + 1 < j + 1
      BY <1>1
    <2>2. t[i] = w[i + 1] /\ t[j] = w[j + 1] /\ i + 1 \in 1..Len(w) /\ j + 1 \in 1..Len(w)
      BY <1>1, <1>3
    <2> QED
      BY <2>1, <2>2 DEF InLine
  <1>5. ASSUME NEW y \in ToSet(t) PROVE Ahead(a, Head(w), y)
    <2>1. PICK k \in 1..n : y = t[k]
      BY <1>2
    <2>2. y = w[k + 1]
      BY <1>1, <2>1
    <2> QED
      BY <1>1, <1>3, <2>2 DEF InLine
  <1> QED
    BY <1>4, <1>5 DEF t

LEMMA EndTurnLined ==
  ASSUME NEW q \in MessageQueue, NEW a, Lined(a, q)
  PROVE  Lined(a, endTurn(q))
  <1>0. q.waiting \in Seq(Message) /\ q.started \in Seq(Message)
    BY DEF MessageQueue
  <1>1. CASE q.waiting = <<>>
    <2>1. endTurn(q).waiting = q.waiting /\ endTurn(q).started = q.started
      BY <1>1 DEF endTurn, MessageQueue
    <2> QED
      BY <2>1 DEF Lined
  <1>2. CASE q.waiting # <<>>
    <2> DEFINE m == Head(q.waiting)
               w == Tail(q.waiting)
               s == Append(q.started, m)
    <2>1. endTurn(q).waiting = w /\ endTurn(q).started = s
      BY <1>2 DEF endTurn, StartTurn, MessageQueue
    <2>2. m \in Message /\ ToSet(s) = ToSet(q.started) \cup {m}
      BY <1>0, <1>2, HeadTailProperties, ToSetAppend
    <2>3. m \in ToSet(q.waiting) /\ ToSet(w) \subseteq ToSet(q.waiting)
      BY <1>0, <1>2, ToSetTail
    <2>4. InLine(a, w) /\ \A y \in ToSet(w) : Ahead(a, m, y)
      BY <1>0, <1>2, LineTail DEF Lined
    <2>5. InLine(a, s)
      BY <1>0, <2>2, <2>3, LineAppend DEF Lined
    <2> HIDE DEF m, w, s
    <2> QED
      BY <2>1, <2>2, <2>3, <2>4, <2>5 DEF Lined
  <1> QED
    BY <1>1, <1>2

LEMMA LinedAfter ==
  ASSUME NEW q \in MessageQueue, NEW a \in Seq(Message), Lined(a, q), Owned(q) \subseteq ToSet(a),
         NEW m \in Message, m \notin ToSet(a)
  PROVE  /\ InLine(Append(a, m), q.started) /\ InLine(Append(a, m), q.waiting)
         /\ \A x \in ToSet(q.started), y \in ToSet(q.waiting) : Ahead(Append(a, m), x, y)
         /\ \A x \in Owned(q) : Ahead(Append(a, m), x, m)
  <1>1. q.waiting \in Seq(Message) /\ q.started \in Seq(Message)
    BY DEF MessageQueue
  <1>2. /\ \A i \in 1..Len(q.started) : q.started[i] \in ToSet(a)
        /\ \A i \in 1..Len(q.waiting) : q.waiting[i] \in ToSet(a)
    BY <1>1, LenProperties DEF Owned, ToSet
  <1>3. ToSet(q.started) \subseteq ToSet(a) /\ ToSet(q.waiting) \subseteq ToSet(a)
    BY DEF Owned
  <1>4. \A x, y \in ToSet(a) : Ahead(a, x, y) => Ahead(Append(a, m), x, y)
    BY NewIsLast
  <1>5. \A x \in ToSet(a) : Ahead(Append(a, m), x, m)
    BY NewIsLast
  <1> QED
    BY <1>2, <1>3, <1>4, <1>5 DEF Lined, InLine

LEMMA EnqueueLined ==
  ASSUME NEW q \in MessageQueue, NEW a \in Seq(Message), Lined(a, q), Owned(q) \subseteq ToSet(a),
         q.waiting # <<>> => q.processing, NEW m \in Message, m \notin ToSet(a)
  PROVE  Lined(Append(a, m), enqueue(q, m))
  <1> DEFINE b == Append(a, m)
  <1>1. q.waiting \in Seq(Message) /\ q.started \in Seq(Message)
    BY DEF MessageQueue
  <1>2. /\ InLine(b, q.started) /\ InLine(b, q.waiting)
        /\ \A x \in ToSet(q.started), y \in ToSet(q.waiting) : Ahead(b, x, y)
        /\ \A x \in ToSet(q.started) \cup ToSet(q.waiting) : Ahead(b, x, m)
    BY LinedAfter DEF Owned
  <1> HIDE DEF b
  <1>3. CASE q.processing
    <2> DEFINE w == Append(q.waiting, m)
    <2>1. enqueue(q, m).waiting = w /\ enqueue(q, m).started = q.started
      BY <1>3 DEF enqueue, MessageQueue
    <2>2. ToSet(w) = ToSet(q.waiting) \cup {m} /\ InLine(b, w)
      BY <1>1, <1>2, ToSetAppend, LineAppend
    <2> HIDE DEF w
    <2> QED
      BY <1>2, <2>1, <2>2 DEF Lined, b
  <1>4. CASE ~ q.processing
    <2> DEFINE s == Append(q.started, m)
    <2>1. enqueue(q, m).waiting = <<>> /\ enqueue(q, m).started = s
      BY <1>4 DEF enqueue, StartTurn
    <2>2. InLine(b, s)
      BY <1>1, <1>2, LineAppend
    <2>3. ToSet(<<>>) = {} /\ InLine(b, <<>>)
      BY ToSetEmpty DEF InLine
    <2> HIDE DEF s
    <2> QED
      BY <2>1, <2>2, <2>3 DEF Lined, b
  <1> QED
    BY <1>3, <1>4

LEMMA BesideLined ==
  ASSUME NEW q \in MessageQueue, NEW a \in Seq(Message), Lined(a, q), Owned(q) \subseteq ToSet(a),
         q.waiting = <<>>, NEW m \in Message, m \notin ToSet(a), NEW r, Beside(q, m, r)
  PROVE  Lined(Append(a, m), r)
  <1> DEFINE b == Append(a, m)
             s == Append(q.started, m)
  <1>1. q.started \in Seq(Message)
    BY DEF MessageQueue
  <1>2. InLine(b, q.started) /\ InLine(b, q.waiting) /\ \A x \in ToSet(q.started) : Ahead(b, x, m)
    BY LinedAfter DEF Owned
  <1> HIDE DEF b
  <1>3. InLine(b, s)
    BY <1>1, <1>2, LineAppend
  <1>4. r.started = s /\ r.waiting = q.waiting /\ ToSet(r.waiting) = {}
    BY ToSetEmpty DEF Beside
  <1> HIDE DEF s
  <1> QED
    BY <1>2, <1>3, <1>4 DEF Lined, b

\* Without a queue nothing waits.
Fit(a, q) == Lined(a, q) /\ (~ hasQueue => q.waiting = <<>>)
Order == Fit(arrived, mq)

LEMMA EndTurnFit ==
  ASSUME NEW q \in MessageQueue, NEW a, Fit(a, q)
  PROVE  endTurn(q) \in MessageQueue /\ Fit(a, endTurn(q))
  <1>1. q.waiting = <<>> => endTurn(q).waiting = <<>>
    BY DEF endTurn, MessageQueue
  <1> QED
    BY <1>1, EndTurnFacts, EndTurnLined DEF Fit

LEMMA SetStageFit ==
  ASSUME NEW q \in MessageQueue, NEW a, Fit(a, q), NEW m \in Message, NEW s \in Stage
  PROVE  AtStage(q, m, s) \in MessageQueue /\ Fit(a, AtStage(q, m, s))
  <1>1. AtStage(q, m, s).waiting = q.waiting /\ AtStage(q, m, s).started = q.started
    BY DEF AtStage, MessageQueue
  <1> QED
    BY <1>1, SetStageFacts DEF AtStage, Fit, Lined

LEMMA HandlerReturnsFit ==
  ASSUME NEW q \in MessageQueue, NEW a, Fit(a, q), NEW m \in Message
  PROVE  Fit(a, HandlerReturns(q, m))
  <1>1. "over" \in Stage /\ "returned" \in Stage
    BY DEF Stage
  <1>2. HandlerReturns(q, m) = IF m \in direct THEN AtStage(q, m, "over")
                                               ELSE endTurn(AtStage(q, m, "returned"))
    BY DEF HandlerReturns, AtStage
  <1> QED
    BY <1>1, <1>2, SetStageFit, EndTurnFit

LEMMA ProgressOrder ==
  ASSUME TurnInv, Order, NEW m \in Message, Progress(m) \/ NextStep(m) \/ Fail(m)
  PROVE  Order'
  <1>1. arrived' = arrived /\ hasQueue' = hasQueue /\ mq \in MessageQueue /\ Fit(arrived, mq)
    BY DEF Progress, Open, Skip, Proceed, RunLoop, NextStep, LoopReturns, CleanUp, Fail, Return,
       Release, sessionVars, commandVars, Order, TurnInv, TypeOK
  <1> SUFFICES Fit(arrived, mq')
    BY <1>1 DEF Order, Fit
  <1>2. CASE Open(m) \/ Proceed(m) \/ RunLoop(m) \/ LoopReturns(m) \/ CleanUp(m) \/ Fail(m)
    <2>1. PICK s \in Stage : mq' = AtStage(mq, m, s)
      BY <1>2 DEF AtStage, Open, Proceed, RunLoop, LoopReturns, CleanUp, Fail, Move, Stage, Working
    <2> QED
      BY <1>1, <2>1, SetStageFit
  <1>3. CASE Skip(m)
    <2>1. mq' = HandlerReturns(mq, m) \/ mq' = HandlerReturns(endTurn(mq), m)
      BY <1>3 DEF Skip
    <2> QED
      BY <1>1, <2>1, EndTurnFit, HandlerReturnsFit
  <1>4. CASE Return(m)
    BY <1>1, <1>4, HandlerReturnsFit DEF Return
  <1>5. CASE Release(m)
    <2>1. mq' = endTurn(AtStage(mq, m, "over")) /\ "over" \in Stage
      BY <1>5 DEF Release, AtStage, Stage
    <2> QED
      BY <1>1, <2>1, SetStageFit, EndTurnFit
  <1>6. CASE NextStep(m)
    BY <1>1, <1>6 DEF NextStep
  <1> QED
    BY <1>2, <1>3, <1>4, <1>5, <1>6 DEF Progress

LEMMA RerunOrder ==
  ASSUME NEW q \in MessageQueue, arrived \in Seq(Message), Fit(arrived, q),
         Owned(q) \subseteq ToSet(arrived), q.waiting # <<>> => q.processing,
         NEW m \in Message, m \notin ToSet(arrived), Rerun(q, m), hasQueue' = hasQueue
  PROVE  Order'
  <1>1. CASE hasQueue
    <2>1. mq' = enqueue(q, m) /\ arrived' = Append(arrived, m)
      BY <1>1 DEF Rerun, Deliver
    <2> QED
      BY <1>1, <2>1, EnqueueLined DEF Order, Fit
  <1>2. CASE ~ hasQueue
    <2> DEFINE t == [q.turn EXCEPT ![m] = "opening"]
               s == Append(q.started, m)
    <2>1. /\ mq' = [q EXCEPT !.turn[m] = "opening", !.started = Append(q.started, m)]
          /\ arrived' = Append(arrived, m)
      BY <1>2 DEF Rerun
    <2>2. Beside(q, m, mq')
      <3>1. s \in Seq(Message) /\ t \in [Message -> Stage]
        BY DEF MessageQueue, Stage, Working
      <3>2. mq' = [q EXCEPT !.turn = t, !.started = s]
        BY <2>1 DEF MessageQueue
      <3> HIDE DEF t, s
      <3>3. /\ mq' \in MessageQueue /\ mq'.turn = t /\ mq'.started = s
            /\ mq'.waiting = q.waiting /\ mq'.processing = q.processing
        BY <3>1, <3>2 DEF MessageQueue
      <3> QED
        BY <3>3 DEF Beside, t, s
    <2>3. q.waiting = <<>> /\ mq'.waiting = <<>>
      BY <1>2, <2>2 DEF Fit, Beside
    <2>4. Lined(Append(arrived, m), mq')
      BY <2>2, <2>3, BesideLined DEF Fit
    <2> QED
      BY <2>1, <2>3, <2>4 DEF Order, Fit
  <1> QED
    BY <1>1, <1>2

LEMMA UserOrder ==
  ASSUME TurnInv, Books, Order, User
  PROVE  Order'
  <1>1. /\ mq \in MessageQueue /\ arrived \in Seq(Message) /\ Fit(arrived, mq)
        /\ Owned(mq) \subseteq ToSet(arrived) /\ (mq.waiting # <<>> => mq.processing)
    BY DEF TurnInv, TypeOK, NothingStranded, Books, Flow, Order
  <1>2. /\ clear(mq) \in MessageQueue /\ clear(mq).waiting = <<>> /\ Fit(arrived, clear(mq))
        /\ Owned(clear(mq)) \subseteq ToSet(arrived)
    <2>1. /\ clear(mq) \in MessageQueue /\ clear(mq).waiting = <<>>
          /\ clear(mq).started = mq.started
      BY <1>1, ClearFacts DEF clear, MessageQueue
    <2>2. ToSet(<<>>) = {} /\ InLine(arrived, <<>>)
      BY ToSetEmpty DEF InLine
    <2> QED
      BY <1>1, <2>1, <2>2 DEF Fit, Lined, Owned
  <1>3. ASSUME NEW m \in Message, Receive(m) PROVE Order'
    <2>1. /\ m \notin ToSet(arrived) /\ mq' = enqueue(mq, m) /\ arrived' = Append(arrived, m)
          /\ hasQueue'
      BY <1>3 DEF Receive, Unsent, Deliver
    <2>2. Lined(Append(arrived, m), enqueue(mq, m))
      BY <1>1, <2>1, EnqueueLined DEF Fit
    <2> QED
      BY <2>1, <2>2 DEF Order, Fit
  <1>4. ASSUME NEW m \in Message, Interrupt(m) PROVE Order'
    <2>1. m \notin ToSet(arrived) /\ hasQueue' = hasQueue /\ (Rerun(clear(mq), m) \/ Rerun(mq, m))
      BY <1>4 DEF Interrupt, Unsent
    <2> QED
      BY <1>1, <1>2, <2>1, RerunOrder
  <1>5. ASSUME NEW m \in Message, Steer(m) PROVE Order'
    <2>1. /\ m \notin ToSet(arrived) /\ hasQueue' = hasQueue
          /\ (mq' = mq /\ arrived' = arrived) \/ Rerun(mq, m)
      BY <1>5 DEF Steer, Unsent
    <2>2. CASE mq' = mq /\ arrived' = arrived
      BY <1>1, <2>1, <2>2 DEF Order, Fit
    <2>3. CASE Rerun(mq, m)
      BY <1>1, <2>1, <2>3, RerunOrder
    <2> QED
      BY <2>1, <2>2, <2>3
  <1>6. CASE Stop \/ FreshSession \/ Clear \/ NewSession
    <2>1. (mq' = clear(mq) \/ mq' = mq) /\ arrived' = arrived /\ hasQueue' = hasQueue
      BY <1>6 DEF Stop, FreshSession, Clear, ClearWaiting, NewSession, sessionVars
    <2> QED
      BY <1>1, <1>2, <2>1 DEF Order, Fit
  <1> QED
    BY <1>3, <1>4, <1>5, <1>6 DEF User

\* Turns start in the order in which messages arrived, however ends of turns, skips, errors,
\* commands and turns beside the queue interleave, for any number of messages.
THEOREM StartedAsArrived == Spec => []StartsInOrder
  <1>1. Init => Order
    <2> SUFFICES ASSUME Init PROVE Order
      OBVIOUS
    <2>1. mq.waiting = <<>> /\ mq.started = <<>>
      BY DEF Init
    <2>2. ToSet(<<>>) = {} /\ InLine(arrived, <<>>)
      BY ToSetEmpty DEF InLine
    <2> QED
      BY <2>1, <2>2 DEF Order, Fit, Lined
  <1>2. TurnInv /\ Books /\ Order /\ [Next]_vars => Order'
    <2>1. ASSUME Order, UNCHANGED vars PROVE Order'
      BY <2>1 DEF vars, Order, Fit
    <2> QED
      BY <2>1, ProgressOrder, UserOrder DEF Next
  <1>3. TurnInv /\ Order => StartsInOrder
    <2> SUFFICES ASSUME TurnInv, Order PROVE StartsInOrder
      OBVIOUS
    <2>1. DOMAIN mq.started = 1..Len(mq.started) /\ DOMAIN arrived = 1..Len(arrived)
      BY LenProperties DEF TurnInv, TypeOK, MessageQueue
    <2> QED
      BY <2>1 DEF StartsInOrder, Order, Fit, Lined, InLine, Ahead
  <1> QED
    BY <1>1, <1>2, <1>3, TurnInvariant, BooksInvariant, PTL DEF Spec
=============================================================================
