----------------------- MODULE HarnessRegistryProofs ------------------------
(***************************************************************************)
(* Theorems about HarnessRegistry, for any number of ids, rooms and        *)
(* clients and any length of the chains.                                   *)
(***************************************************************************)
EXTENDS HarnessRegistry, SequenceTheorems, FiniteSetTheorems, WellFoundedInduction, TLAPS

\* The end of a chain is an id without a successor, however long the chain.
LEMMA HeadsType ==
  ASSUME NEW nx, NEW i, NEW h \in Heads(nx, i)
  PROVE  h \in Id /\ nx[h] = None
  BY DEF Heads

----------------------------------------------------------------------------
\* The stack: its top, and what an action makes of it.

LEMMA TopType ==
  ASSUME stack \in Seq(Frame), stack # <<>>
  PROVE  Len(stack) \in Nat \ {0} /\ Len(stack) \in 1..Len(stack) /\ Top \in Frame
  BY DEF Top

LEMMA BecomesType ==
  ASSUME stack \in Seq(Frame), stack # <<>>, NEW f \in Frame, Becomes(f)
  PROVE  /\ stack' \in Seq(Frame) /\ Len(stack') = Len(stack)
         /\ stack'[Len(stack)] = f
         /\ \A k \in 1..Len(stack) : k # Len(stack) => stack'[k] = stack[k]
  BY DEF Becomes

LEMMA PopType ==
  ASSUME stack \in Seq(Frame), stack # <<>>, Pop
  PROVE  /\ stack' \in Seq(Frame) /\ Len(stack') = Len(stack) - 1
         /\ \A k \in 1..Len(stack') : stack'[k] = stack[k]
  <1>1. Len(stack) \in Nat \ {0} /\ \A k \in 1..(Len(stack) - 1) : stack[k] \in Frame
    OBVIOUS
  <1> QED
    <2> DEFINE n == Len(stack) - 1
    <2>1. n \in Nat /\ stack' = SubSeq(stack, 1, n)
      BY <1>1 DEF Pop
    <2>2. \A k \in 1..n : stack[k] \in Frame
      BY <1>1
    <2> HIDE DEF n
    <2>3. /\ SubSeq(stack, 1, n) \in Seq(Frame)
          /\ Len(SubSeq(stack, 1, n)) = IF 1 <= n THEN n - 1 + 1 ELSE 0
          /\ \A k \in 1..(n - 1 + 1) : SubSeq(stack, 1, n)[k] = stack[1 + k - 1]
      BY <2>1, <2>2, SubSeqProperties
    <2>4. Len(stack') = n
      BY <2>1, <2>3
    <2>5. \A k \in 1..n : stack'[k] = stack[k]
      BY <2>1, <2>3
    <2> QED
      BY <2>1, <2>3, <2>4, <2>5 DEF n

----------------------------------------------------------------------------
\* A rotation handed to a client.

LEMMA HandedType ==
  ASSUME tails \in [Client -> TailState], NEW c \in Client, NEW key \in Key, NEW b \in BOOLEAN,
         HandTo(c, key, b)
  PROVE  /\ tails' \in [Client -> TailState]
         /\ \A d \in Client : d # c => tails'[d] = tails[d]
         /\ tails'[c].at = tails[c].at /\ tails'[c].deaf = tails[c].deaf
         /\ tails'[c].missed = tails[c].missed
         /\ tails'[c].st = IF b THEN "closed" ELSE tails[c].st
         /\ tails'[c].got = IF Knows(c, key) THEN tails[c].got ELSE Append(tails[c].got, key)
         /\ tails'[c].delivered = IF Knows(c, key) THEN tails[c].delivered
                                  ELSE Remember(tails[c].delivered, key)
  <1>1. tails[c] \in TailState /\ tails[c].delivered \in Seq(Key)
    BY DEF TailState
  <1>2. Remember(tails[c].delivered, key) \in Seq(Key)
    <2> DEFINE all == Append(tails[c].delivered, key)
    <2>1. all \in Seq(Key) /\ all # <<>>
      BY <1>1
    <2>2. Tail(all) \in Seq(Key)
      BY <2>1
    <2> QED
      BY <2>1, <2>2 DEF Remember
  <1>3. Given(c, key) \in TailState
    <2>1. Append(tails[c].got, key) \in Seq(Key)
      BY <1>1 DEF TailState
    <2>2. CASE Knows(c, key)
      BY <1>1, <2>2 DEF Given
    <2>3. CASE ~Knows(c, key)
      <3> DEFINE d == Remember(tails[c].delivered, key)
      <3>1. Given(c, key) = [tails[c] EXCEPT !.delivered = d, !.got = Append(tails[c].got, key)]
        BY <2>3 DEF Given
      <3>2. d \in Seq(Key)
        BY <1>2
      <3> HIDE DEF d
      <3> QED
        BY <1>1, <2>1, <3>1, <3>2 DEF TailState
    <2> QED
      BY <2>2, <2>3
  <1>4. tails' = [tails EXCEPT ![c] = [Given(c, key) EXCEPT !.st = IF b THEN "closed" ELSE @]]
    BY DEF HandTo
  <1>5. /\ Given(c, key).at = tails[c].at /\ Given(c, key).deaf = tails[c].deaf
        /\ Given(c, key).missed = tails[c].missed
        /\ Given(c, key).st = tails[c].st
        /\ Given(c, key).got = IF Knows(c, key) THEN tails[c].got ELSE Append(tails[c].got, key)
        /\ Given(c, key).delivered = IF Knows(c, key) THEN tails[c].delivered
                                  ELSE Remember(tails[c].delivered, key)
    BY <1>1 DEF Given, TailState
  <1> HIDE DEF Given
  <1>6. /\ [Given(c, key) EXCEPT !.st = IF b THEN "closed" ELSE @] \in TailState
    BY <1>3 DEF TailState
  <1> QED
    BY <1>3, <1>4, <1>5, <1>6 DEF TailState

----------------------------------------------------------------------------
\* What an action leaves of the stack.

LEMMA OverType ==
  ASSUME stack \in Seq(Frame), stack # <<>>, Over
  PROVE  /\ stack' \in Seq(Frame)
         /\ \/ Len(stack') = Len(stack) - 1
            \/ /\ Len(stack') = Len(stack) /\ stack'[Len(stack)].pc = "tellLate"
               /\ stack'[Len(stack)].prev = Top.prev
         /\ \A k \in 1..Len(stack') : k # Len(stack) => stack'[k] = stack[k]
  <1>1. LateTells \in SUBSET Client
    BY DEF LateTells, ToldAt
  <1>2. CASE Pop
    BY <1>2, PopType
  <1>3. CASE Becomes([Top EXCEPT !.pc = "tellLate", !.todo = LateTells])
    <2> DEFINE f == [Top EXCEPT !.pc = "tellLate", !.todo = LateTells]
    <2>1. f \in Frame /\ f.pc = "tellLate" /\ f.prev = Top.prev
      BY <1>1, TopType DEF Frame
    <2>2. Becomes(f)
      BY <1>3
    <2> HIDE DEF f
    <2> QED
      BY <2>1, <2>2, BecomesType
  <1> QED
    BY <1>2, <1>3 DEF Over

\* The next state is typed: the breadcrumbs, the rooms and the database.
LEMMA SwitchType ==
  ASSUME TypeOK, NEW r \in Room, NEW i \in Id, Switch(r, i)
  PROVE  TypeOK'
  <1>1. runs' \in [Room -> Id \cup {None}] /\ posted' \subseteq Room \X Id
    BY DEF TypeOK, Switch
  <1>2. Breadcrumb(r, i) \in Seq(Key)
    <2>1. CASE runs[r] = None
      BY <2>1 DEF Breadcrumb, TypeOK
    <2>2. CASE runs[r] # None
      <3>1. <<runs[r], i>> \in Key
        BY <2>2 DEF TypeOK, Key
      <3> QED
        BY <2>2, <3>1 DEF Breadcrumb, TypeOK
    <2> QED
      BY <2>1, <2>2
  <1> QED
    BY <1>1, <1>2 DEF TypeOK, Switch

LEMMA AnnouncedType ==
  ASSUME TypeOK, NEW r \in Room, NEW i \in Id, Announced(r, i)
  PROVE  TypeOK'
  <1>1. posted' \subseteq Room \X Id /\ roomNative' \in [Room -> Id \cup {None}]
    BY DEF TypeOK, Announced
  <1>2. stack' \in Seq(Frame)
    <2>1. CASE UNCHANGED stack
      BY <2>1 DEF TypeOK
    <2>2. ASSUME NEW order \in Orders, roomNative[r] # None,
                 stack' = Append(stack,
                   [prev |-> roomNative[r], next |-> i, order |-> order, head |-> None,
                    pc |-> "tell",
                    todo |-> IF order = "before" THEN ToldAt(roomNative[r]) ELSE {},
                    tail |-> None, from |-> None, failed |-> FALSE])
          PROVE  stack' \in Seq(Frame)
      <3> DEFINE f == [prev |-> roomNative[r], next |-> i, order |-> order, head |-> None,
                       pc |-> "tell",
                       todo |-> IF order = "before" THEN ToldAt(roomNative[r]) ELSE {},
                       tail |-> None, from |-> None, failed |-> FALSE]
      <3>1. f \in Frame
        BY <2>2 DEF TypeOK, Frame, ToldAt
      <3>2. stack' = Append(stack, f) /\ stack \in Seq(Frame)
        BY <2>2 DEF TypeOK
      <3> HIDE DEF f
      <3> QED
        BY <3>1, <3>2
    <2> QED
      BY <2>1, <2>2 DEF Announced
  <1> QED
    BY <1>1, <1>2 DEF TypeOK, Announced, durable

LEMMA LinkedType ==
  ASSUME next \in [Id -> Id \cup {None}], NEW prev \in Id, NEW to \in Id
  PROVE  /\ Linked(prev, to) \in [Id -> Id \cup {None}]
         /\ \A i \in Id : next[i] # None => Linked(prev, to)[i] # None
         /\ Accepts(prev, to) => Linked(prev, to)[prev] # None
  <1>1. Writes(prev, to) => next[prev] = None
    BY DEF Writes
  <1>2. to # None
    BY RegistryAssumption
  <1>3. Accepts(prev, to) => next[prev] = to \/ Writes(prev, to)
    BY DEF Accepts
  <1> QED
    BY <1>1, <1>2, <1>3 DEF Linked

\* The handlers' actions.
LEMMA TellType ==
  ASSUME TypeOK, NEW c \in Client, NEW leaves \in BOOLEAN, Tell(c, leaves)
  PROVE  TypeOK'
  <1>1. Top \in Frame /\ stack # <<>> /\ stack \in Seq(Frame)
    BY TopType DEF TypeOK, Tell, TopAt
  <1>2. stack' \in Seq(Frame)
    <2> DEFINE f == [Top EXCEPT !.todo = @ \ {c}]
    <2>1. f \in Frame /\ Becomes(f)
      BY <1>1 DEF Frame, Tell
    <2> HIDE DEF f
    <2> QED
      BY <1>1, <2>1, BecomesType
  <1>3. <<Top.prev, Top.next>> \in Key
    BY <1>1 DEF Frame, Key
  <1>4. tails' \in [Client -> TailState]
    BY <1>3, HandedType DEF Tell, TypeOK
  <1>5. sinks' \in [Client -> SUBSET Id]
    BY DEF Tell, TypeOK, Detached
  <1> QED
    BY <1>2, <1>4, <1>5 DEF TypeOK, Tell, durable

LEMMA HandlerType ==
  ASSUME TypeOK, Return \/ Dropped \/ Recorded \/ Retire
  PROVE  TypeOK'
  <1>1. Top \in Frame /\ stack # <<>> /\ stack \in Seq(Frame) /\ Top.prev \in Id /\ Top.next \in Id
    BY TopType DEF TypeOK, Return, Dropped, Recorded, Retire, TopAt, Frame
  <1>2. CASE Return
    <2>1. stack' \in Seq(Frame)
      BY <1>1, <1>2, PopType DEF Return
    <2> QED
      BY <1>2, <2>1 DEF TypeOK, Return, durable
  <1>3. CASE Dropped
    <2>1. stack' \in Seq(Frame)
      BY <1>1, <1>3, OverType DEF Dropped
    <2>2. next' \in [Id -> Id \cup {None}]
      BY <1>1, <1>3, LinkedType DEF Dropped, TypeOK
    <2> QED
      BY <1>3, <2>1, <2>2 DEF TypeOK, Dropped, durable
  <1>4. CASE Recorded
    <2>1. ASSUME Over PROVE stack' \in Seq(Frame)
      BY <1>1, <2>1, OverType
    <2>2. ASSUME NEW h \in Heads(next', Top.next),
                 Becomes([Top EXCEPT !.pc = "rekey", !.head = h, !.todo = OpenTails])
          PROVE  stack' \in Seq(Frame)
      <3> DEFINE f == [Top EXCEPT !.pc = "rekey", !.head = h, !.todo = OpenTails]
      <3>1. h \in Id
        BY HeadsType
      <3>2. f \in Frame /\ Becomes(f)
        BY <1>1, <2>2, <3>1 DEF Frame, OpenTails
      <3> HIDE DEF f
      <3> QED
        BY <1>1, <3>2, BecomesType
    <2>3. stack' \in Seq(Frame)
      BY <1>4, <2>1, <2>2 DEF Recorded
    <2>4. next' \in [Id -> Id \cup {None}]
      BY <1>1, <1>4, LinkedType DEF Recorded, TypeOK
    <2> QED
      BY <1>4, <2>3, <2>4 DEF TypeOK, Recorded, durable
  <1>5. CASE Retire
    <2>1. stack' \in Seq(Frame)
      BY <1>1, <1>5, OverType DEF Retire
    <2>2. retired' \subseteq Id /\ ended' \in Seq(Id)
      BY <1>1, <1>5 DEF Retire, Reported, TypeOK
    <2> QED
      BY <1>5, <2>1, <2>2 DEF TypeOK, Retire, durable
  <1> QED
    BY <1>2, <1>3, <1>4, <1>5

LEMMA MoveType ==
  ASSUME TypeOK, NEW c \in Client, NEW leaves \in BOOLEAN, NEW refuses \in BOOLEAN,
         Move(c, leaves, refuses)
  PROVE  TypeOK'
  <1>1. Top \in Frame /\ stack # <<>> /\ stack \in Seq(Frame)
    BY TopType DEF TypeOK, Move, TopAt
  <1>2. tails[c].at \in Id \cup {None} /\ Top.head \in Id
    <2>1. Top.head \in Heads(next, tails[c].at)
      BY DEF Move, Follows
    <2> QED
      BY <2>1, HeadsType DEF TypeOK, TailState
  <1>3. stack' \in Seq(Frame)
    <2>1. CASE leaves
      <3> DEFINE f == [Top EXCEPT !.todo = @ \ {c}]
      <3>1. f \in Frame /\ Becomes(f)
        BY <1>1, <2>1 DEF Frame, Move
      <3> HIDE DEF f
      <3> QED
        BY <1>1, <3>1, BecomesType
    <2>2. CASE ~leaves
      <3> DEFINE f == [Top EXCEPT !.pc = "attach", !.todo = @ \ {c}, !.tail = c,
                                  !.from = tails[c].at, !.failed = refuses]
      <3>1. f \in Frame /\ Becomes(f)
        BY <1>1, <1>2, <2>2 DEF Frame, Move
      <3> HIDE DEF f
      <3> QED
        BY <1>1, <3>1, BecomesType
    <2> QED
      BY <2>1, <2>2
  <1>4. <<Top.prev, Top.next>> \in Key
    BY <1>1 DEF Frame, Key
  <1>5. tails' \in [Client -> TailState]
    BY <1>4, HandedType DEF Move, TypeOK
  <1>6. sinks' \in [Client -> SUBSET Id]
    <2>1. sinks \in [Client -> SUBSET Id]
      BY DEF TypeOK
    <2>2. CASE leaves
      BY <2>1, <2>2 DEF Move, Detached
    <2>3. CASE refuses
      BY <2>1, <2>3 DEF Move
    <2>4. CASE ~leaves /\ ~refuses
      BY <1>2, <2>1, <2>4 DEF Move
    <2> QED
      BY <2>2, <2>3, <2>4
  <1> QED
    BY <1>3, <1>5, <1>6 DEF TypeOK, Move, durable

LEMMA AttachedType ==
  ASSUME TypeOK, Attached
  PROVE  TypeOK'
  <1>1. Top \in Frame /\ stack # <<>> /\ stack \in Seq(Frame)
    BY TopType DEF TypeOK, Attached, TopAt
  <1>2. stack' \in Seq(Frame)
    <2> DEFINE f == [Top EXCEPT !.pc = "rekey", !.tail = None, !.from = None, !.failed = FALSE]
    <2>1. f \in Frame /\ Becomes(f)
      BY <1>1 DEF Frame, Attached
    <2> HIDE DEF f
    <2> QED
      BY <1>1, <2>1, BecomesType
  <1>3. tails' \in [Client -> TailState]
    <2>1. tails \in [Client -> TailState]
      BY DEF TypeOK
    <2>2. CASE Overtaken(Top.tail)
      BY <2>1, <2>2 DEF Attached
    <2>3. CASE ~Overtaken(Top.tail)
      <3>1. tails' = [tails EXCEPT ![Top.tail] = [@ EXCEPT !.at = Top.head, !.deaf = Top.failed]]
        BY <2>3 DEF Attached
      <3>2. Top.head \in Id \cup {None} /\ Top.failed \in BOOLEAN
        BY <1>1 DEF Frame
      <3>3. \A t \in TailState : [t EXCEPT !.at = Top.head, !.deaf = Top.failed] \in TailState
        BY <3>2 DEF TailState
      <3> HIDE DEF TailState
      <3> QED
        BY <2>1, <3>1, <3>3
    <2> QED
      BY <2>2, <2>3
  <1>4. sinks' \in [Client -> SUBSET Id]
    <2>1. sinks \in [Client -> SUBSET Id]
      BY DEF TypeOK
    <2>2. sinks' = sinks \/ (\E id \in {Top.head, Top.from} : sinks' = Detached(Top.tail, id))
      BY DEF Attached
    <2> QED
      BY <2>1, <2>2 DEF Detached
  <1> QED
    BY <1>2, <1>3, <1>4 DEF TypeOK, Attached, durable

LEMMA ClientType ==
  ASSUME TypeOK, NEW c \in Client,
         (\E i \in Id : Subscribe(c, i)) \/ Subscribed(c) \/ Unsubscribe(c)
  PROVE  TypeOK'
  <1>1. CASE Unsubscribe(c)
    <2>1. tails \in [Client -> TailState] /\ sinks \in [Client -> SUBSET Id]
      BY DEF TypeOK
    <2>2. tails' = [tails EXCEPT ![c] = [@ EXCEPT !.st = "closed"]] /\ sinks' = Detached(c, tails[c].at)
      BY <1>1 DEF Unsubscribe
    <2>3. \A t \in TailState : [t EXCEPT !.st = "closed"] \in TailState
      BY DEF TailState
    <2>4. tails' \in [Client -> TailState]
      BY <2>1, <2>2, <2>3
    <2>5. sinks' \in [Client -> SUBSET Id]
      BY <2>1, <2>2 DEF Detached
    <2> QED
      BY <1>1, <2>4, <2>5 DEF TypeOK, Unsubscribe, durable
  <1>2. ASSUME NEW i \in Id, Subscribe(c, i)
        PROVE  TypeOK'
    <2>1. PICK h \in Heads(next, i), r \in Room \cup {None} :
            /\ tails' = [tails EXCEPT ![c] = [Fresh EXCEPT !.st = "opening", !.at = h, !.room = r]]
            /\ sinks' = [sinks EXCEPT ![c] = {h}]
      BY <1>2 DEF Subscribe
    <2>2. h \in Id
      BY HeadsType
    <2>3. [Fresh EXCEPT !.st = "opening", !.at = h, !.room = r] \in TailState
      <3>1. Fresh \in TailState
        BY DEF Fresh, TailState
      <3>2. \A t \in TailState : [t EXCEPT !.st = "opening", !.at = h, !.room = r] \in TailState
        BY <2>2 DEF TailState
      <3> QED
        BY <3>1, <3>2
    <2>4. tails' \in [Client -> TailState] /\ sinks' \in [Client -> SUBSET Id]
      BY <2>1, <2>2, <2>3 DEF TypeOK
    <2> QED
      BY <1>2, <2>4 DEF TypeOK, Subscribe, durable
  <1>3. CASE Subscribed(c)
    <2> DEFINE m == IF next[tails[c].at] = None THEN None ELSE tails[c].at
    <2>1. tails \in [Client -> TailState] /\ m \in Id \cup {None}
      BY DEF TypeOK, TailState
    <2>2. tails' = [tails EXCEPT ![c] = [@ EXCEPT !.st = "open", !.missed = m]]
      BY <1>3 DEF Subscribed
    <2> HIDE DEF m
    <2>3. \A t \in TailState : [t EXCEPT !.st = "open", !.missed = m] \in TailState
      BY <2>1 DEF TailState
    <2>4. tails' \in [Client -> TailState]
      BY <2>1, <2>2, <2>3
    <2> QED
      BY <1>3, <2>4 DEF TypeOK, Subscribed, durable
  <1> QED
    BY <1>1, <1>2, <1>3

LEMMA RestartType ==
  ASSUME TypeOK, Restart \/ ApplyCrumb \/ (\E fails \in BOOLEAN : ReadCrumbs(fails))
  PROVE  TypeOK'
  <1>1. CASE Restart
    <2>1. Fresh \in TailState
      BY DEF Fresh, TailState
    <2>2. restarts' \in 0..MaxRestarts
      BY <1>1, RegistryAssumption DEF Restart, TypeOK
    <2> QED
      BY <1>1, <2>1, <2>2 DEF TypeOK, Restart, durable
  <1>2. CASE ApplyCrumb
    <2>1. restore.rows \in Seq(Key) /\ restore.rows # <<>>
      BY <1>2 DEF ApplyCrumb, TypeOK
    <2>2. Head(restore.rows) \in Key /\ Tail(restore.rows) \in Seq(Key)
      BY <2>1, HeadTailProperties
    <2>3. next' \in [Id -> Id \cup {None}]
      BY <1>2, <2>2, LinkedType DEF ApplyCrumb, TypeOK, Key
    <2>4. restore' \in [reading : BOOLEAN, rows : Seq(Key)]
      BY <1>2, <2>2 DEF ApplyCrumb, TypeOK
    <2> QED
      BY <1>2, <2>3, <2>4 DEF TypeOK, ApplyCrumb, durable
  <1>3. CASE \E fails \in BOOLEAN : ReadCrumbs(fails)
    BY <1>3 DEF ReadCrumbs, TypeOK, durable
  <1> QED
    BY <1>1, <1>2, <1>3

LEMMA InitType == Init => TypeOK
  BY RegistryAssumption DEF Init, TypeOK, Fresh, TailState

LEMMA StepType == TypeOK /\ [Next]_vars => TypeOK'
  <1> SUFFICES ASSUME TypeOK, [Next]_vars
               PROVE  TypeOK'
    OBVIOUS
  <1>1. CASE UNCHANGED vars
    BY <1>1 DEF TypeOK, vars, durable
  <1>2. CASE Next
    BY <1>2, SwitchType, AnnouncedType, TellType, HandlerType, MoveType, AttachedType,
       ClientType, RestartType DEF Next
  <1> QED
    BY <1>1, <1>2

\* The state of the registry, of its tails and of the handlers under way is typed: every
\* frame of a handler is well formed, however rotations nest.
THEOREM TypeCorrect == Spec => []TypeOK
  <1>1. Init => TypeOK
    BY InitType
  <1>2. TypeOK /\ [Next]_vars => TypeOK'
    BY StepType
  <1> QED
    BY <1>1, <1>2, PTL DEF Spec

----------------------------------------------------------------------------
(* A rotation is handed to a client once: what it has been handed lately   *)
(* is what it remembers.                                                   *)

Window(d, g) ==
  /\ Len(d) <= MaxDepth /\ Len(d) <= Len(g)
  /\ Len(d) = Len(g) \/ Len(d) = MaxDepth
  /\ \A n \in 1..Len(d) : d[n] = g[Len(g) - Len(d) + n]
Once(g) == \A j, k \in 1..Len(g) : j < k /\ k <= j + MaxDepth => g[j] # g[k]
Windows == \A c \in Client : Window(tails[c].delivered, tails[c].got) /\ Once(tails[c].got)

LEMMA RememberWindow ==
  ASSUME NEW d \in Seq(Key), NEW g \in Seq(Key), NEW key \in Key,
         Window(d, g), Once(g), \A n \in 1..Len(d) : d[n] # key
  PROVE  Window(Remember(d, key), Append(g, key)) /\ Once(Append(g, key))
  <1> DEFINE a == Append(d, key)
             h == Append(g, key)
  <1>1. /\ MaxDepth \in Nat \ {0} /\ Len(d) \in Nat /\ Len(g) \in Nat
        /\ a \in Seq(Key) /\ Len(a) = Len(d) + 1 /\ a[Len(d) + 1] = key
        /\ h \in Seq(Key) /\ Len(h) = Len(g) + 1 /\ h[Len(g) + 1] = key
        /\ \A n \in 1..Len(d) : a[n] = d[n]
        /\ \A n \in 1..Len(g) : h[n] = g[n]
    BY RegistryAssumption
  <1> HIDE DEF a, h
  <1>2. Once(h)
    <2> SUFFICES ASSUME NEW j \in 1..Len(h), NEW k \in 1..Len(h), j < k, k <= j + MaxDepth
                 PROVE  h[j] # h[k]
      BY DEF Once
    <2>1. CASE k <= Len(g)
      <3>1. j \in 1..Len(g) /\ k \in 1..Len(g) /\ h[j] = g[j] /\ h[k] = g[k]
        BY <1>1, <2>1
      <3>2. g[j] # g[k]
        BY <3>1 DEF Once
      <3> QED
        BY <3>1, <3>2
    <2>2. CASE k = Len(g) + 1
      <3> DEFINE n == j - Len(g) + Len(d)
      <3>1. n \in 1..Len(d) /\ j \in 1..Len(g) /\ Len(g) - Len(d) + n = j
        BY <1>1, <2>2 DEF Window
      <3>2. d[n] = g[j]
        BY <3>1 DEF Window
      <3> QED
        BY <1>1, <2>2, <3>1, <3>2
    <2> QED
      BY <1>1, <2>1, <2>2
  <1>3. CASE Len(a) <= MaxDepth
    <2>1. Remember(d, key) = a /\ Len(d) = Len(g)
      BY <1>1, <1>3 DEF Remember, Window, a
    <2>2. \A n \in 1..Len(a) : a[n] = h[Len(h) - Len(a) + n]
      BY <1>1, <2>1 DEF Window
    <2> QED
      BY <1>1, <1>2, <1>3, <2>1, <2>2 DEF Window, h
  <1>4. CASE ~(Len(a) <= MaxDepth)
    <2> DEFINE t == Tail(a)
    <2>1. Remember(d, key) = t /\ Len(d) = MaxDepth /\ a # <<>>
      <3>1. Len(d) = MaxDepth /\ a # <<>>
        BY <1>1, <1>4 DEF Window
      <3>2. Remember(d, key) = t
        BY <1>4 DEF Remember, a
      <3> QED
        BY <3>1, <3>2
    <2>2. t \in Seq(Key) /\ Len(t) = Len(d) /\ \A n \in 1..Len(t) : t[n] = a[n + 1]
      BY <1>1, <2>1, HeadTailProperties
    <2> HIDE DEF t
    <2>3. ASSUME NEW n \in 1..Len(t) PROVE t[n] = h[Len(h) - Len(t) + n]
      <3>1. CASE n = Len(d)
        BY <1>1, <2>2, <3>1
      <3>2. CASE n < Len(d)
        <4>1. n + 1 \in 1..Len(d) /\ Len(g) - Len(d) + n + 1 \in 1..Len(g)
          BY <1>1, <2>2, <3>2 DEF Window
        <4>2. d[n + 1] = g[Len(g) - Len(d) + n + 1]
          BY <1>1, <4>1 DEF Window
        <4>3. t[n] = d[n + 1]
          BY <1>1, <2>2, <4>1
        <4>4. Len(h) - Len(t) + n = Len(g) - Len(d) + n + 1
          BY <1>1, <2>2
        <4>5. h[Len(g) - Len(d) + n + 1] = g[Len(g) - Len(d) + n + 1]
          BY <1>1, <4>1
        <4> QED
          BY <4>2, <4>3, <4>4, <4>5
      <3> QED
        BY <1>1, <2>2, <3>1, <3>2
    <2> QED
      <3>1. Len(t) = MaxDepth /\ Len(t) <= Len(h)
        BY <1>1, <2>1, <2>2 DEF Window
      <3>2. Window(t, h)
        BY <1>1, <2>3, <3>1 DEF Window
      <3> QED
        BY <1>2, <2>1, <3>2 DEF h
  <1> QED
    BY <1>3, <1>4

LEMMA FreshWindow == Window(<<>>, <<>>) /\ Once(<<>>)
  BY RegistryAssumption DEF Window, Once

LEMMA HandedWindows ==
  ASSUME TypeOK, Windows, NEW c \in Client, NEW key \in Key, NEW b \in BOOLEAN, HandTo(c, key, b)
  PROVE  Windows'
  <1> SUFFICES ASSUME NEW d \in Client
               PROVE  Window(tails'[d].delivered, tails'[d].got) /\ Once(tails'[d].got)
    BY DEF Windows
  <1>1. CASE d # c
    BY <1>1, HandedType DEF Windows, TypeOK
  <1>2. CASE d = c /\ Knows(c, key)
    BY <1>2, HandedType DEF Windows, TypeOK
  <1>3. CASE d = c /\ ~Knows(c, key)
    <2>1. tails[c].delivered \in Seq(Key) /\ tails[c].got \in Seq(Key)
      BY DEF TypeOK, TailState
    <2>2. \A n \in 1..Len(tails[c].delivered) : tails[c].delivered[n] # key
      BY <1>3, <2>1 DEF Knows
    <2>3. /\ tails'[c].delivered = Remember(tails[c].delivered, key)
          /\ tails'[c].got = Append(tails[c].got, key)
      <3>1. tails \in [Client -> TailState]
        BY DEF TypeOK
      <3>2. /\ tails'[c].got = IF Knows(c, key) THEN tails[c].got ELSE Append(tails[c].got, key)
            /\ tails'[c].delivered = IF Knows(c, key) THEN tails[c].delivered
                                     ELSE Remember(tails[c].delivered, key)
        BY <3>1, HandedType
      <3> QED
        BY <1>3, <3>2
    <2>4. Window(tails[c].delivered, tails[c].got) /\ Once(tails[c].got)
      BY DEF Windows
    <2>5. /\ Window(Remember(tails[c].delivered, key), Append(tails[c].got, key))
          /\ Once(Append(tails[c].got, key))
      BY <2>1, <2>2, <2>4, RememberWindow
    <2> QED
      BY <1>3, <2>3, <2>5
  <1> QED
    BY <1>1, <1>2, <1>3

LEMMA StepWindows == TypeOK /\ Windows /\ [Next]_vars => Windows'
  <1> SUFFICES ASSUME TypeOK, Windows, [Next]_vars
               PROVE  Windows'
    OBVIOUS
  <1>1. CASE UNCHANGED tails
    BY <1>1 DEF Windows
  <1>2. ASSUME NEW c \in Client, NEW leaves \in BOOLEAN,
               Tell(c, leaves) \/ \E refuses \in BOOLEAN : Move(c, leaves, refuses)
        PROVE  Windows'
    <2>1. <<Top.prev, Top.next>> \in Key
      BY <1>2, TopType DEF TypeOK, Tell, Move, TopAt, Frame, Key
    <2>2. HandTo(c, <<Top.prev, Top.next>>, leaves)
      BY <1>2 DEF Tell, Move
    <2> QED
      BY <2>1, <2>2, HandedWindows
  <1>3. CASE Attached
    <2>1. \A d \in Client : tails'[d].delivered = tails[d].delivered /\ tails'[d].got = tails[d].got
      <3>1. tails \in [Client -> TailState]
        BY DEF TypeOK
      <3>2. \A t \in TailState : /\ [t EXCEPT !.at = Top.head, !.deaf = Top.failed].got = t.got
                                /\ [t EXCEPT !.at = Top.head, !.deaf = Top.failed].delivered = t.delivered
        BY DEF TailState
      <3>3. \/ tails' = tails
            \/ tails' = [tails EXCEPT ![Top.tail] = [@ EXCEPT !.at = Top.head, !.deaf = Top.failed]]
        BY <1>3 DEF Attached
      <3> HIDE DEF TailState
      <3> QED
        BY <3>1, <3>2, <3>3
    <2> QED
      BY <2>1 DEF Windows
  <1>4. ASSUME NEW c \in Client, NEW i \in Id, Subscribe(c, i)
        PROVE  Windows'
    <2>1. /\ \A d \in Client : d # c => tails'[d] = tails[d]
          /\ tails'[c].delivered = <<>> /\ tails'[c].got = <<>>
      BY <1>4 DEF Subscribe, TypeOK, Fresh
    <2> QED
      BY <2>1, FreshWindow DEF Windows
  <1>5. ASSUME NEW c \in Client, Unsubscribe(c)
        PROVE  Windows'
    <2>1. \A d \in Client : tails'[d].delivered = tails[d].delivered /\ tails'[d].got = tails[d].got
      BY <1>5 DEF Unsubscribe, TypeOK, TailState
    <2> QED
      BY <2>1 DEF Windows
  <1>6. CASE Restart
    BY <1>6, FreshWindow DEF Restart, Windows, Fresh
  <1>7. CASE UNCHANGED vars
    BY <1>1, <1>7 DEF vars
  <1>9. ASSUME NEW c \in Client, Subscribed(c)
        PROVE  Windows'
    <2>1. \A d \in Client : tails'[d].delivered = tails[d].delivered /\ tails'[d].got = tails[d].got
      BY <1>9 DEF Subscribed, TypeOK, TailState
    <2> QED
      BY <2>1 DEF Windows
  <1>8. CASE Next
    BY <1>1, <1>2, <1>3, <1>4, <1>5, <1>6, <1>8, <1>9
       DEF Next, Switch, Announced, Return, Dropped, Recorded, Retire, ApplyCrumb, ReadCrumbs
  <1> QED
    BY <1>7, <1>8

\* Whatever order the driver tells its sinks in, and however rotations nest, a client is not
\* handed a rotation again among the next MaxDepth ones it is handed.
THEOREM HandedOnce == Spec => []RotationOnce
  <1>1. Init => Windows
    BY FreshWindow DEF Init, Windows, Fresh
  <1>2. TypeOK /\ Windows => RotationOnce
    <2>1. ASSUME TypeOK, NEW c \in Client PROVE DOMAIN tails[c].got = 1..Len(tails[c].got)
      BY <2>1 DEF TypeOK, TailState
    <2> QED
      BY <2>1 DEF Windows, Once, RotationOnce
  <1> QED
    BY <1>1, <1>2, StepWindows, TypeCorrect, PTL DEF Spec

----------------------------------------------------------------------------
(* The handlers under way: how rotations nest, what they have recorded and *)
(* where the tail that is being moved is.                                  *)

Nesting ==
  /\ Len(stack) <= 2
  /\ Len(stack) = 2 => stack[1].pc = "attach" /\ ~stack[1].failed /\ stack[2].prev = stack[1].head
Follow(f) ==
  /\ f.pc \in {"rekey", "attach"} => /\ f.head \in Id /\ f.head # f.prev
                                     /\ next[f.prev] # None
  /\ f.pc = "attach" => f.tail \in Client /\ f.head # tails[f.tail].at
Frames == \A k \in 1..Len(stack) : Follow(stack[k])
Superseded == \A i \in retired : next[i] # None
Handlers == Nesting /\ Frames /\ Superseded

\* The aliases only grow while the process runs.
Grows == \A i \in Id : next[i] # None => next'[i] # None
AtStays == \A c \in Client : tails'[c].at = tails[c].at

LEMMA FollowStays ==
  ASSUME Grows, AtStays, NEW f \in Frame, Follow(f)
  PROVE  Follow(f)'
  BY DEF Grows, AtStays, Follow, Frame

\* What keeps the handlers in order: the top changes, or goes away.
LEMMA TopChanges ==
  ASSUME TypeOK, Nesting, stack # <<>>, NEW f \in Frame, Becomes(f), f.prev = Top.prev,
         Len(stack) = 1 \/ stack[1] = stack'[1]
  PROVE  Nesting'
  <1>1. stack \in Seq(Frame)
    BY DEF TypeOK
  <1>2. Len(stack') = Len(stack) /\ stack'[Len(stack)] = f /\ Len(stack) \in Nat
    BY <1>1, BecomesType
  <1> QED
    BY <1>1, <1>2 DEF Nesting, Top

\* A handler in the middle is not touched when the top changes.
LEMMA BottomStays ==
  ASSUME TypeOK, stack # <<>>, NEW f \in Frame, Becomes(f)
  PROVE  Len(stack) = 1 \/ stack[1] = stack'[1]
  <1>1. stack \in Seq(Frame) /\ Len(stack) \in Nat \ {0}
    BY TopType DEF TypeOK
  <1>2. \A k \in 1..Len(stack) : k # Len(stack) => stack'[k] = stack[k]
    BY <1>1, BecomesType
  <1>3. 1 \in 1..Len(stack)
    BY <1>1
  <1>4. 1 # Len(stack) => stack'[1] = stack[1]
    BY <1>2, <1>3
  <1> QED
    BY <1>4

LEMMA OverNesting ==
  ASSUME TypeOK, Nesting, stack # <<>>, Over
  PROVE  Nesting'
  <1>1. stack \in Seq(Frame) /\ Len(stack) \in Nat \ {0}
    BY TopType DEF TypeOK
  <1>2. /\ \/ Len(stack') = Len(stack) - 1
           \/ Len(stack') = Len(stack) /\ stack'[Len(stack)].prev = Top.prev
        /\ \A k \in 1..Len(stack') : k # Len(stack) => stack'[k] = stack[k]
    BY <1>1, OverType
  <1> QED
    BY <1>1, <1>2 DEF Nesting, Top

LEMMA OverFrames ==
  ASSUME TypeOK, Frames, stack # <<>>, Over, Grows, AtStays
  PROVE  Frames'
  <1>1. stack \in Seq(Frame) /\ Len(stack) \in Nat \ {0}
    BY TopType DEF TypeOK
  <1>2. /\ stack' \in Seq(Frame)
        /\ \/ Len(stack') = Len(stack) - 1
           \/ Len(stack') = Len(stack) /\ stack'[Len(stack)].pc = "tellLate"
        /\ \A k \in 1..Len(stack') : k # Len(stack) => stack'[k] = stack[k]
    BY <1>1, OverType
  <1> SUFFICES ASSUME NEW k \in 1..Len(stack')
               PROVE  Follow(stack[k])' 
    BY DEF Frames
  <1>3. CASE k # Len(stack)
    <2>1. k \in 1..Len(stack) /\ stack'[k] = stack[k] /\ stack[k] \in Frame /\ Follow(stack[k])
      BY <1>1, <1>2, <1>3 DEF Frames
    <2> QED
      BY <2>1 DEF Grows, AtStays, Follow, Frame
  <1>4. CASE k = Len(stack)
    BY <1>1, <1>2, <1>4 DEF Follow
  <1> QED
    BY <1>3, <1>4

\* A top that becomes f, with the tails where they were.
LEMMA BecomesFrames ==
  ASSUME TypeOK, Frames, stack # <<>>, NEW f \in Frame, Becomes(f), Grows,
         \A k \in 1..Len(stack) : k # Len(stack) /\ stack[k].pc = "attach" =>
            tails'[stack[k].tail].at = tails[stack[k].tail].at \/ tails'[stack[k].tail].at # stack[k].head,
         f.pc \in {"rekey", "attach"} => /\ f.head \in Id /\ f.head # f.prev
                                         /\ next'[f.prev] # None,
         f.pc = "attach" => f.tail \in Client /\ f.head # tails'[f.tail].at
  PROVE  Frames'
  <1>1. stack \in Seq(Frame) /\ Len(stack) \in Nat \ {0}
    BY TopType DEF TypeOK
  <1>2. /\ stack' \in Seq(Frame) /\ Len(stack') = Len(stack) /\ stack'[Len(stack)] = f
        /\ \A k \in 1..Len(stack) : k # Len(stack) => stack'[k] = stack[k]
    BY <1>1, BecomesType
  <1> SUFFICES ASSUME NEW k \in 1..Len(stack')
               PROVE  Follow(stack[k])' 
    BY DEF Frames
  <1>3. CASE k # Len(stack)
    <2>1. k \in 1..Len(stack) /\ stack'[k] = stack[k] /\ stack[k] \in Frame /\ Follow(stack[k])
      BY <1>1, <1>2, <1>3 DEF Frames
    <2>2. stack[k].pc \in {"rekey", "attach"} => next'[stack[k].prev] # None
      BY <2>1 DEF Follow, Grows, Frame
    <2>3. stack[k].pc = "attach" => stack[k].head # tails'[stack[k].tail].at
      BY <1>3, <2>1 DEF Follow
    <2> QED
      BY <2>1, <2>2, <2>3 DEF Follow
  <1>4. CASE k = Len(stack)
    BY <1>1, <1>2, <1>4 DEF Follow
  <1> QED
    BY <1>3, <1>4

\* The links an action adds, and the ids that retire with it.
LEMMA StepGrows ==
  ASSUME TypeOK, Superseded, Next, ~Restart,
         TopAt("rekey") => next[Top.prev] # None
  PROVE  Grows /\ Superseded'
  <1>1. CASE UNCHANGED <<next, retired>>
    BY <1>1 DEF Grows, Superseded
  <1>2. CASE Dropped \/ Recorded \/ ApplyCrumb
    <2>1. ASSUME NEW prev \in Id, NEW to \in Id, next' = Linked(prev, to), retired' = retired
          PROVE  Grows /\ Superseded'
      BY <2>1, LinkedType DEF Grows, Superseded, TypeOK
    <2>2. CASE Dropped \/ Recorded
      <3>1. Top.prev \in Id /\ Top.next \in Id /\ retired' = retired
        BY <2>2, TopType DEF Dropped, Recorded, TopAt, TypeOK, Frame
      <3>2. next' = next \/ next' = Linked(Top.prev, Top.next)
        BY <2>2 DEF Dropped, Recorded
      <3> QED
        BY <1>1, <2>1, <3>1, <3>2
    <2>3. CASE ApplyCrumb
      <3>1. restore.rows \in Seq(Key) /\ restore.rows # <<>>
        BY <2>3 DEF ApplyCrumb, TypeOK
      <3>2. Head(restore.rows) \in Key
        BY <3>1, HeadTailProperties
      <3>3. Head(restore.rows)[1] \in Id /\ Head(restore.rows)[2] \in Id
        BY <3>2 DEF Key
      <3>4. next' = Linked(Head(restore.rows)[1], Head(restore.rows)[2]) /\ retired' = retired
        BY <2>3 DEF ApplyCrumb
      <3> QED
        BY <2>1, <3>3, <3>4
    <2> QED
      BY <1>2, <2>2, <2>3
  <1>3. CASE Retire
    <2>1. next' = next /\ retired' = retired \cup {Top.prev} /\ next[Top.prev] # None
      BY <1>3 DEF Retire
    <2> QED
      BY <2>1 DEF Grows, Superseded
  <1> QED
    BY <1>1, <1>2, <1>3 DEF Next, Switch, Announced, Tell, Return, Move, Attached, Subscribe, Subscribed,
       Unsubscribe, ReadCrumbs

LEMMA AnnouncedHandlers ==
  ASSUME TypeOK, Nesting, Frames, NEW r \in Room, NEW i \in Id, Announced(r, i)
  PROVE  Nesting' /\ Frames'
  <1>1. stack \in Seq(Frame) /\ UNCHANGED <<next, tails>>
    BY DEF TypeOK, Announced
  <1>2. CASE UNCHANGED stack
    BY <1>1, <1>2 DEF Nesting, Frames, Follow
  <1>3. ASSUME NEW f, stack' = Append(stack, f), f.pc = "tell", f.prev = roomNative[r]
        PROVE  Nesting' /\ Frames'
    <2>1. /\ Len(stack') = Len(stack) + 1 /\ stack'[Len(stack) + 1] = f
          /\ \A k \in 1..Len(stack) : stack'[k] = stack[k]
      BY <1>1, <1>3
    <2>2. Len(stack) = 0 \/ /\ Len(stack) = 1 /\ stack[1].pc = "attach" /\ ~stack[1].failed
                            /\ roomNative[r] = stack[1].head
      BY <1>1 DEF Announced, MayEmit, Subscribing, Idle, TopAt, Top
    <2>3. Nesting'
      BY <1>1, <1>3, <2>1, <2>2 DEF Nesting
    <2>4. ASSUME NEW k \in 1..Len(stack') PROVE Follow(stack[k])'
      <3>1. CASE k \in 1..Len(stack)
        BY <1>1, <2>1, <3>1 DEF Frames, Follow
      <3>2. CASE k = Len(stack) + 1
        BY <1>3, <2>1, <3>2 DEF Follow
      <3> QED
        BY <1>1, <2>1, <3>1, <3>2
    <2> QED
      BY <2>3, <2>4 DEF Frames
  <1>4. UNCHANGED stack \/ \E f : stack' = Append(stack, f) /\ f.pc = "tell" /\ f.prev = roomNative[r]
    <2>1. ASSUME NEW order \in Orders, NEW todo
          PROVE  LET f == [prev |-> roomNative[r], next |-> i, order |-> order, head |-> None,
                           pc |-> "tell", todo |-> todo,
                           tail |-> None, from |-> None, failed |-> FALSE]
                 IN  f.pc = "tell" /\ f.prev = roomNative[r]
      OBVIOUS
    <2> QED
      BY <2>1 DEF Announced
  <1> QED
    BY <1>2, <1>3, <1>4

LEMMA TellHandlers ==
  ASSUME TypeOK, Handlers, NEW c \in Client, NEW leaves \in BOOLEAN, Tell(c, leaves)
  PROVE  Nesting' /\ Frames'
  <1> DEFINE f == [Top EXCEPT !.todo = @ \ {c}]
  <1>1. /\ stack \in Seq(Frame) /\ Len(stack) \in Nat \ {0} /\ Top \in Frame /\ stack # <<>>
        /\ Top.pc \in {"tell", "tellLate"} /\ tails \in [Client -> TailState]
    BY TopType DEF TypeOK, Tell, TopAt
  <1>2. f \in Frame /\ Becomes(f) /\ f.prev = Top.prev /\ f.pc = Top.pc
    BY <1>1 DEF Frame, Tell
  <1>3. <<Top.prev, Top.next>> \in Key
    BY <1>1 DEF Frame, Key
  <1>4. \A d \in Client : tails'[d].at = tails[d].at
    BY <1>1, <1>3, HandedType DEF Tell
  <1>5. Grows
    BY DEF Tell, Grows
  <1> HIDE DEF f
  <1>6. \A k \in 1..Len(stack) : stack[k].pc = "attach" => stack[k].tail \in Client
    BY DEF Handlers, Frames, Follow
  <1>7. Frames'
    BY <1>1, <1>2, <1>4, <1>5, <1>6, BecomesFrames DEF Handlers
  <1>8. Len(stack) = 1 \/ stack[1] = stack'[1]
    BY <1>1, <1>2, BottomStays
  <1> QED
    BY <1>1, <1>2, <1>7, <1>8, TopChanges DEF Handlers

LEMMA OverHandlers ==
  ASSUME TypeOK, Handlers, Return \/ Dropped \/ Retire, Grows
  PROVE  Nesting' /\ Frames'
  <1>1. stack # <<>> /\ stack \in Seq(Frame) /\ Len(stack) \in Nat \ {0}
    BY TopType DEF TypeOK, Return, Dropped, Retire, TopAt
  <1>2. AtStays
    BY DEF Return, Dropped, Retire, AtStays
  <1>3. CASE Dropped \/ Retire
    BY <1>1, <1>2, <1>3, OverNesting, OverFrames DEF Handlers, Dropped, Retire
  <1>4. CASE Return
    <2>1. /\ Len(stack') = Len(stack) - 1
          /\ \A k \in 1..Len(stack') : stack'[k] = stack[k]
      BY <1>1, <1>4, PopType DEF Return
    <2>2. Nesting'
      BY <1>1, <2>1 DEF Handlers, Nesting
    <2>3. ASSUME NEW k \in 1..Len(stack') PROVE Follow(stack[k])'
      <3>1. k \in 1..Len(stack) /\ stack'[k] = stack[k]
        BY <1>1, <2>1
      <3> QED
        BY <1>4, <3>1 DEF Return, Handlers, Frames, Follow
    <2> QED
      BY <2>2, <2>3 DEF Frames
  <1> QED
    BY <1>3, <1>4

LEMMA RecordedHandlers ==
  ASSUME TypeOK, Handlers, Recorded, Grows
  PROVE  Nesting' /\ Frames'
  <1>1. /\ stack # <<>> /\ stack \in Seq(Frame) /\ Len(stack) \in Nat \ {0} /\ Top \in Frame
        /\ Top.prev \in Id /\ Top.next \in Id
    BY TopType DEF TypeOK, Recorded, TopAt, Frame
  <1>2. AtStays
    BY DEF Recorded, AtStays
  <1>3. CASE Over
    BY <1>1, <1>2, <1>3, OverNesting, OverFrames DEF Handlers
  <1>4. ASSUME NEW h \in Heads(next', Top.next),
               Becomes([Top EXCEPT !.pc = "rekey", !.head = h, !.todo = OpenTails])
        PROVE  Nesting' /\ Frames'
    <2> DEFINE f == [Top EXCEPT !.pc = "rekey", !.head = h, !.todo = OpenTails]
    <2>1. h \in Id /\ next'[h] = None
      BY HeadsType
    <2>2. next'[Top.prev] # None
      BY <1>1, LinkedType DEF Recorded, TypeOK
    <2>3. /\ f \in Frame /\ Becomes(f) /\ f.prev = Top.prev /\ f.pc = "rekey" /\ f.head = h
      BY <1>1, <1>4, <2>1 DEF Frame, OpenTails
    <2> HIDE DEF f
    <2>4. \A k \in 1..Len(stack) : stack[k].pc = "attach" => tails'[stack[k].tail].at = tails[stack[k].tail].at
      BY DEF Recorded
    <2>5. f.head # f.prev /\ next'[f.prev] # None
      BY <2>1, <2>2, <2>3
    <2>6. Frames'
      BY <1>1, <2>1, <2>3, <2>4, <2>5, BecomesFrames DEF Handlers
    <2>7. Len(stack) = 1 \/ stack[1] = stack'[1]
      BY <1>1, <2>3, BottomStays
    <2> QED
      BY <1>1, <2>3, <2>6, <2>7, TopChanges DEF Handlers
  <1> QED
    BY <1>3, <1>4 DEF Recorded

LEMMA MoveHandlers ==
  ASSUME TypeOK, Handlers, NEW c \in Client, NEW leaves \in BOOLEAN, NEW refuses \in BOOLEAN,
         Move(c, leaves, refuses)
  PROVE  Nesting' /\ Frames'
  <1>1. /\ stack \in Seq(Frame) /\ Len(stack) \in Nat \ {0} /\ Top \in Frame /\ stack # <<>>
        /\ Top.pc = "rekey" /\ tails \in [Client -> TailState] /\ Top.head # tails[c].at
        /\ tails[c].at \in Id \cup {None}
    BY TopType DEF TypeOK, Move, TopAt, Follows, TailState
  <1>2. <<Top.prev, Top.next>> \in Key
    BY <1>1 DEF Frame, Key
  <1>3. \A d \in Client : tails'[d].at = tails[d].at
    BY <1>1, <1>2, HandedType DEF Move
  <1>4. Grows
    BY DEF Move, Grows
  <1>5. Top.head \in Id /\ Top.head # Top.prev /\ next'[Top.prev] # None
    BY <1>1 DEF Handlers, Frames, Follow, Top, Move
  <1>6. \E f \in Frame : /\ Becomes(f) /\ f.prev = Top.prev /\ f.head = Top.head
                         /\ f.pc = "rekey" \/ (f.pc = "attach" /\ f.tail = c)
    <2>1. CASE leaves
      <3> DEFINE f == [Top EXCEPT !.todo = @ \ {c}]
      <3>1. f \in Frame /\ Becomes(f) /\ f.prev = Top.prev /\ f.pc = Top.pc /\ f.head = Top.head
        BY <1>1, <2>1 DEF Frame, Move
      <3> HIDE DEF f
      <3> QED
        BY <1>1, <3>1
    <2>2. CASE ~leaves
      <3> DEFINE f == [Top EXCEPT !.pc = "attach", !.todo = @ \ {c}, !.tail = c,
                                  !.from = tails[c].at, !.failed = refuses]
      <3>1. /\ f \in Frame /\ Becomes(f) /\ f.prev = Top.prev /\ f.pc = "attach" /\ f.head = Top.head
            /\ f.tail = c
        BY <1>1, <2>2 DEF Frame, Move
      <3> HIDE DEF f
      <3> QED
        BY <3>1
    <2> QED
      BY <2>1, <2>2
  <1>7. PICK f \in Frame : /\ Becomes(f) /\ f.prev = Top.prev /\ f.head = Top.head
                           /\ f.pc = "rekey" \/ (f.pc = "attach" /\ f.tail = c)
    BY <1>6
  <1>8. \A k \in 1..Len(stack) : stack[k].pc = "attach" => stack[k].tail \in Client
    BY DEF Handlers, Frames, Follow
  <1>9. f.pc = "attach" => f.tail \in Client /\ f.head # tails'[f.tail].at
    BY <1>1, <1>3, <1>7
  <1>10. Frames'
    BY <1>1, <1>3, <1>4, <1>5, <1>7, <1>8, <1>9, BecomesFrames DEF Handlers
  <1>11. Len(stack) = 1 \/ stack[1] = stack'[1]
    BY <1>1, <1>7, BottomStays
  <1> QED
    BY <1>1, <1>7, <1>10, <1>11, TopChanges DEF Handlers

LEMMA AttachedHandlers ==
  ASSUME TypeOK, Handlers, Attached
  PROVE  Nesting' /\ Frames'
  <1> DEFINE f == [Top EXCEPT !.pc = "rekey", !.tail = None, !.from = None, !.failed = FALSE]
  <1>1. /\ stack \in Seq(Frame) /\ Len(stack) \in Nat \ {0} /\ Top \in Frame /\ stack # <<>>
        /\ Top.pc = "attach" /\ tails \in [Client -> TailState]
    BY TopType DEF TypeOK, Attached, TopAt
  <1>2. f \in Frame /\ Becomes(f) /\ f.prev = Top.prev /\ f.pc = "rekey" /\ f.head = Top.head
    BY <1>1 DEF Frame, Attached
  <1>3. /\ Top.head \in Id /\ Top.head # Top.prev /\ next'[Top.prev] # None /\ Top.tail \in Client
        /\ next' = next
    BY <1>1 DEF Handlers, Frames, Follow, Top, Attached
  <1> HIDE DEF f
  <1>4. \A d \in Client : tails'[d].at = tails[d].at \/ (d = Top.tail /\ tails'[d].at = Top.head)
    <2>1. \A t \in TailState : [t EXCEPT !.at = Top.head, !.deaf = Top.failed].at = Top.head
      BY DEF TailState
    <2>2. CASE tails' = tails
      BY <2>2
    <2>3. CASE tails' = [tails EXCEPT ![Top.tail] = [@ EXCEPT !.at = Top.head, !.deaf = Top.failed]]
      <3> SUFFICES ASSUME NEW d \in Client
                   PROVE  tails'[d].at = tails[d].at \/ (d = Top.tail /\ tails'[d].at = Top.head)
        OBVIOUS
      <3>1. CASE d # Top.tail
        BY <1>1, <1>3, <2>3, <3>1
      <3>2. CASE d = Top.tail
        <4>1. tails'[d] = [tails[d] EXCEPT !.at = Top.head, !.deaf = Top.failed] /\ tails[d] \in TailState
          BY <1>1, <1>3, <2>3, <3>2
        <4> HIDE DEF TailState
        <4> QED
          BY <2>1, <3>2, <4>1
      <3> QED
        BY <3>1, <3>2
    <2> QED
      BY <2>2, <2>3 DEF Attached
  <1>5. ASSUME NEW k \in 1..Len(stack), k # Len(stack), stack[k].pc = "attach"
        PROVE  tails'[stack[k].tail].at = tails[stack[k].tail].at \/ tails'[stack[k].tail].at # stack[k].head
    <2>1. Len(stack) = 2 /\ k = 1
      <3>1. Len(stack) <= 2 /\ Len(stack) \in Nat
        BY <1>1 DEF Handlers, Nesting
      <3>2. k \in 1..Len(stack) /\ k # Len(stack)
        BY <1>5
      <3>3. ASSUME NEW n \in Nat, n <= 2, NEW j \in 1..n, j # n
            PROVE  n = 2 /\ j = 1
        BY <3>3
      <3> QED
        BY <3>1, <3>2, <3>3
    <2>2. stack[2].prev = stack[1].head /\ Top = stack[2]
      BY <2>1 DEF Handlers, Nesting, Top
    <2>3. Top.head # stack[k].head
      BY <1>3, <2>1, <2>2
    <2>4. stack[k].tail \in Client
      BY <1>5 DEF Handlers, Frames, Follow
    <2> QED
      BY <1>4, <2>3, <2>4
  <1>6. Grows
    BY <1>3 DEF Grows
  <1>7. Frames'
    BY <1>1, <1>2, <1>3, <1>5, <1>6, BecomesFrames DEF Handlers
  <1>8. Len(stack) = 1 \/ stack[1] = stack'[1]
    BY <1>1, <1>2, BottomStays
  <1> QED
    BY <1>1, <1>2, <1>7, <1>8, TopChanges DEF Handlers

LEMMA StepHandlers == TypeOK /\ Handlers /\ [Next]_vars => Handlers'
  <1> SUFFICES ASSUME TypeOK, Handlers, [Next]_vars
               PROVE  Handlers'
    OBVIOUS
  <1>1. CASE UNCHANGED <<stack, next, retired, tails>>
    BY <1>1 DEF Handlers, Nesting, Frames, Follow, Superseded
  <1>2. CASE Restart
    <2>1. stack' = <<>> /\ retired' = {}
      BY <1>2 DEF Restart
    <2> QED
      BY <2>1 DEF Handlers, Nesting, Frames, Superseded
  <1>3. CASE Next /\ ~Restart
    <2>1. TopAt("rekey") => next[Top.prev] # None
      BY TopType DEF TypeOK, TopAt, Handlers, Frames, Follow, Top
    <2>2. Grows /\ Superseded'
      BY <1>3, <2>1, StepGrows DEF Handlers
    <2>3. CASE stack = <<>> /\ stack' = <<>>
      BY <2>2, <2>3 DEF Handlers, Nesting, Frames
    <2>4. ASSUME NEW r \in Room, NEW i \in Id, Announced(r, i) PROVE Handlers'
      BY <2>2, <2>4, AnnouncedHandlers DEF Handlers
    <2>5. ASSUME NEW c \in Client, NEW leaves \in BOOLEAN, Tell(c, leaves) PROVE Handlers'
      BY <2>2, <2>5, TellHandlers DEF Handlers
    <2>6. CASE Return \/ Dropped \/ Retire
      BY <2>2, <2>6, OverHandlers DEF Handlers
    <2>7. CASE Recorded
      BY <2>2, <2>7, RecordedHandlers DEF Handlers
    <2>8. ASSUME NEW c \in Client, NEW leaves \in BOOLEAN, NEW refuses \in BOOLEAN,
                 Move(c, leaves, refuses)
          PROVE  Handlers'
      BY <2>2, <2>8, MoveHandlers DEF Handlers
    <2>9. CASE Attached
      BY <2>2, <2>9, AttachedHandlers DEF Handlers
    <2>10. ASSUME NEW c \in Client,
                  (\E i \in Id : Subscribe(c, i)) \/ Subscribed(c) \/ Unsubscribe(c)
           PROVE  Handlers'
      BY <2>3, <2>10 DEF Subscribe, Subscribed, Unsubscribe, Idle
    <2>11. CASE ApplyCrumb
      BY <2>3, <2>11 DEF ApplyCrumb
    <2> QED
      BY <1>1, <1>3, <2>4, <2>5, <2>6, <2>7, <2>8, <2>9, <2>10, <2>11
         DEF Next, Switch, ReadCrumbs
  <1> QED
    BY <1>1, <1>2, <1>3 DEF vars

LEMMA InitHandlers == Init => Handlers
  BY DEF Init, Handlers, Nesting, Frames, Superseded

----------------------------------------------------------------------------
(* What was reported ended: the retired ids, each once.                    *)

Ends ==
  /\ \A k \in 1..Len(ended) : ended[k] \in retired
  /\ \A j, k \in 1..Len(ended) : ended[j] = ended[k] => j = k

LEMMA StepEnds == TypeOK /\ Ends /\ [Next]_vars => Ends'
  <1> SUFFICES ASSUME TypeOK, Ends, [Next]_vars
               PROVE  Ends'
    OBVIOUS
  <1>1. CASE UNCHANGED <<ended, retired>>
    BY <1>1 DEF Ends
  <1>2. CASE Restart
    BY <1>2 DEF Restart, Ends
  <1>3. CASE Retire
    <2>1. ended \in Seq(Id) /\ retired' = retired \cup {Top.prev} /\ ended' = Reported(Top.prev)
      BY <1>3 DEF Retire, TypeOK
    <2>2. CASE Top.prev \in retired
      BY <2>1, <2>2 DEF Reported, Ends
    <2>3. CASE Top.prev \notin retired
      <3>1. /\ Len(ended') = Len(ended) + 1 /\ ended'[Len(ended) + 1] = Top.prev
            /\ \A k \in 1..Len(ended) : ended'[k] = ended[k]
        BY <2>1, <2>3 DEF Reported
      <3>2. \A k \in 1..Len(ended) : ended'[k] # Top.prev
        BY <2>3, <3>1 DEF Ends
      <3> QED
        BY <2>1, <3>1, <3>2 DEF Ends
    <2> QED
      BY <2>2, <2>3
  <1> QED
    BY <1>1, <1>2, <1>3
       DEF Next, vars, Switch, Announced, Tell, Return, Dropped, Recorded, Move, Attached,
           Subscribe, Subscribed, Unsubscribe, ReadCrumbs, ApplyCrumb

\* A superseded id is reported ended once, however often the driver says the rotation again,
\* and stays superseded.
THEOREM EndedOnce == Spec => []RetiredOnce
  <1>1. Init => Ends
    BY DEF Init, Ends
  <1>2. TypeOK /\ Handlers /\ Ends => RetiredOnce
    <2>1. ASSUME TypeOK PROVE DOMAIN ended = 1..Len(ended)
      BY <2>1 DEF TypeOK
    <2> QED
      BY <2>1 DEF Handlers, Superseded, Ends, RetiredOnce
  <1> QED
    BY <1>1, <1>2, StepEnds, StepHandlers, InitHandlers, TypeCorrect, PTL DEF Spec

----------------------------------------------------------------------------
(* The chains: walking one, and what is on it.                             *)

LEMMA LeastOf ==
  ASSUME NEW T, T \subseteq Nat, T # {}
  PROVE  \E n \in T : \A m \in T : n <= m
  <1> DEFINE Less == {p \in Nat \X Nat : p[1] < p[2]}
  <1>1. IsWellFoundedOn(Less, Nat)
    BY NatLessThanWellFounded DEF OpToRel
  <1>2. PICK n \in T : \A m \in T : ~ (<<m, n>> \in Less)
    <2> HIDE DEF Less
    <2> QED BY <1>1, WFMin
  <1>3. \A m \in Nat : ~ (<<m, n>> \in Less) => n <= m
    OBVIOUS
  <1> HIDE DEF Less
  <1> QED
    BY <1>2, <1>3

\* A function is iterated: the first n steps exist, for every n, and all agree.
IsWalk(w, A, i, g, n) ==
  w \in [0..n -> A] /\ w[0] = i /\ \A k \in 1..n : w[k] = g[w[k - 1]]

LEMMA WalkOfLength ==
  ASSUME NEW A, NEW i \in A, NEW g \in [A -> A], NEW n \in Nat
  PROVE  \E w : IsWalk(w, A, i, g, n)
  <1> DEFINE T == {m \in Nat : ~ \E w : IsWalk(w, A, i, g, m)}
  <1>1. SUFFICES ASSUME T # {} PROVE FALSE
    OBVIOUS
  <1>2. PICK m \in T : \A k \in T : m <= k
    BY <1>1, LeastOf
  <1>3. m # 0
    <2> DEFINE w == [k \in 0..0 |-> i]
    <2>1. IsWalk(w, A, i, g, 0)
      BY DEF IsWalk
    <2> QED
      BY <2>1
  <1>4. m - 1 \in Nat /\ m - 1 \notin T
    BY <1>2, <1>3
  <1>5. PICK w : IsWalk(w, A, i, g, m - 1)
    BY <1>4
  <1> DEFINE v == [k \in 0..m |-> IF k = m THEN g[w[m - 1]] ELSE w[k]]
  <1>6. \A k \in 0..(m - 1) : w[k] \in A
    BY <1>5 DEF IsWalk
  <1>7. v \in [0..m -> A]
    BY <1>4, <1>6
  <1>8. v[0] = i
    BY <1>3, <1>4, <1>5 DEF IsWalk
  <1>9. ASSUME NEW k \in 1..m PROVE v[k] = g[v[k - 1]]
    <2>1. CASE k = m
      BY <1>4, <2>1
    <2>2. CASE k # m
      <3>1. k \in 1..(m - 1) /\ w[k] = g[w[k - 1]]
        BY <1>4, <1>5, <2>2 DEF IsWalk
      <3> QED
        BY <1>4, <3>1
    <2> QED
      BY <2>1, <2>2
  <1>10. IsWalk(v, A, i, g, m)
    BY <1>7, <1>8, <1>9 DEF IsWalk
  <1> QED
    BY <1>10

LEMMA WalksAgree ==
  ASSUME NEW A, NEW i, NEW g, NEW n \in Nat, NEW m \in Nat, NEW w, NEW v,
         IsWalk(w, A, i, g, n), IsWalk(v, A, i, g, m), NEW k \in Nat, k <= n, k <= m
  PROVE  w[k] = v[k]
  <1> DEFINE T == {j \in 0..k : w[j] # v[j]}
  <1>1. SUFFICES ASSUME T # {} PROVE FALSE
    OBVIOUS
  <1>2. PICK j \in T : \A l \in T : j <= l
    <2>1. T \subseteq Nat
      OBVIOUS
    <2> HIDE DEF T
    <2> QED
      BY <1>1, <2>1, LeastOf
  <1>3. j # 0
    BY DEF IsWalk
  <1>4. j - 1 \in 0..k /\ j - 1 \notin T /\ j \in 1..n /\ j \in 1..m
    BY <1>2, <1>3
  <1>5. w[j - 1] = v[j - 1]
    BY <1>4
  <1> QED
    BY <1>4, <1>5 DEF IsWalk

LEMMA Iterates ==
  ASSUME NEW A, NEW i \in A, NEW g \in [A -> A]
  PROVE  \E w \in [Nat -> A] : w[0] = i /\ \A n \in Nat : n # 0 => w[n] = g[w[n - 1]]
  <1> DEFINE W(n) == CHOOSE w : IsWalk(w, A, i, g, n)
  <1>1. \A n \in Nat : IsWalk(W(n), A, i, g, n)
    BY WalkOfLength
  <1> HIDE DEF W
  <1> DEFINE w == [n \in Nat |-> W(n)[n]]
  <1>2. w \in [Nat -> A]
    <2>1. ASSUME NEW n \in Nat PROVE W(n)[n] \in A
      BY <1>1 DEF IsWalk
    <2> QED
      BY <2>1
  <1>3. w[0] = i
    BY <1>1 DEF IsWalk
  <1>4. ASSUME NEW n \in Nat, n # 0 PROVE w[n] = g[w[n - 1]]
    <2>1. n - 1 \in Nat /\ n \in 1..n
      BY <1>4
    <2>2. W(n)[n] = g[W(n)[n - 1]]
      BY <1>1, <2>1 DEF IsWalk
    <2>3. W(n)[n - 1] = W(n - 1)[n - 1]
      BY <1>1, <2>1, WalksAgree
    <2> QED
      BY <2>1, <2>2, <2>3
  <1> QED
    BY <1>2, <1>3, <1>4

\* What resolve walks.
LEMMA Walked ==
  ASSUME NEW nx \in [Id -> Id \cup {None}], NEW i \in Id
  PROVE  \E w \in [Nat -> Id] :
           /\ w[0] = i
           /\ \A n \in Nat : n # 0 =>
                w[n] = IF nx[w[n - 1]] = None THEN w[n - 1] ELSE nx[w[n - 1]]
           /\ Heads(nx, i) = {h \in Id : h = w[MaxDepth - 1] /\ nx[h] = None}
  <1> DEFINE g == [x \in Id |-> IF nx[x] = None THEN x ELSE nx[x]]
             P(w) == w = [n \in Nat |-> IF n = 0 THEN i
                                        ELSE IF nx[w[n - 1]] = None THEN w[n - 1] ELSE nx[w[n - 1]]]
  <1>1. g \in [Id -> Id]
    OBVIOUS
  <1> HIDE DEF g
  <1>2. PICK v \in [Nat -> Id] : v[0] = i /\ \A n \in Nat : n # 0 => v[n] = g[v[n - 1]]
    BY <1>1, Iterates
  <1>3. P(v)
    <2>1. ASSUME NEW n \in Nat, n # 0
          PROVE  v[n] = IF nx[v[n - 1]] = None THEN v[n - 1] ELSE nx[v[n - 1]]
      <3>1. n - 1 \in Nat
        BY <2>1
      <3> QED
        BY <1>2, <2>1, <3>1 DEF g
    <2> QED
      BY <1>2, <2>1
  <1> DEFINE w == CHOOSE x : P(x)
  <1>4. P(w)
    BY <1>3
  <1>5. Heads(nx, i) = {h \in Id : h = w[MaxDepth - 1] /\ nx[h] = None}
    BY DEF Heads
  <1> HIDE DEF w
  <1>6. w \in [Nat -> Id] /\ w[0] = i
    <2>1. ASSUME NEW n \in Nat PROVE w[n] = v[n]
      <3> DEFINE T == {m \in Nat : w[m] # v[m]}
      <3>1. SUFFICES ASSUME T # {} PROVE FALSE
        OBVIOUS
      <3>2. PICK m \in T : \A k \in T : m <= k
        BY <3>1, LeastOf
      <3>3. m # 0
        BY <1>3, <1>4
      <3>4. m - 1 \in Nat /\ w[m - 1] = v[m - 1]
        BY <3>2, <3>3
      <3> QED
        BY <1>3, <1>4, <3>2, <3>3, <3>4
    <2>2. w = [n \in Nat |-> w[n]]
      BY <1>4
    <2> QED
      BY <1>2, <2>1, <2>2
  <1>7. \A n \in Nat : n # 0 =>
          w[n] = IF nx[w[n - 1]] = None THEN w[n - 1] ELSE nx[w[n - 1]]
    BY <1>4
  <1> QED
    BY <1>5, <1>6, <1>7

\* The ids that a chain leads to.
Below(nx, i) ==
  {j \in Id : \A S \in SUBSET Id : i \in S /\ (\A x \in S : nx[x] \in S \cup {None}) => j \in S}
Links == [Id -> Id \cup {None}]
Acyclic(nx) == \A S \in SUBSET Id : S # {} => \E i \in S : nx[i] \notin S

LEMMA DownIsBelow == \A i : Down(i) = Below(next, i)
  BY DEF Down, Below

LEMMA BelowFacts ==
  ASSUME NEW nx \in Links, NEW i \in Id
  PROVE  /\ i \in Below(nx, i) /\ Below(nx, i) \in SUBSET Id
         /\ \A j \in Below(nx, i) : nx[j] \in Below(nx, i) \cup {None}
         /\ \A j \in Below(nx, i) : Below(nx, j) \subseteq Below(nx, i)
         /\ nx[i] = None => Below(nx, i) = {i}
         /\ nx[i] # None => Below(nx, i) = {i} \cup Below(nx, nx[i])
  <1>1. i \in Below(nx, i) /\ Below(nx, i) \in SUBSET Id
    BY DEF Below
  <1>2. ASSUME NEW j \in Below(nx, i) PROVE nx[j] \in Below(nx, i) \cup {None}
    <2>1. j \in Id /\ nx[j] \in Id \cup {None}
      BY DEF Below, Links
    <2>2. ASSUME nx[j] # None, NEW S \in SUBSET Id, i \in S,
                 \A x \in S : nx[x] \in S \cup {None}
          PROVE  nx[j] \in S
      <3>1. j \in S
        BY <2>2 DEF Below
      <3> QED
        BY <2>2, <3>1
    <2> QED
      BY <2>1, <2>2 DEF Below
  <1>3. ASSUME NEW j \in Below(nx, i) PROVE Below(nx, j) \subseteq Below(nx, i)
    BY DEF Below
  <1>4. ASSUME nx[i] = None PROVE Below(nx, i) = {i}
    <2>1. {i} \in SUBSET Id /\ \A x \in {i} : nx[x] \in {i} \cup {None}
      BY <1>4
    <2> QED
      BY <1>1, <2>1 DEF Below
  <1>5. ASSUME nx[i] # None PROVE Below(nx, i) = {i} \cup Below(nx, nx[i])
    <2>1. nx[i] \in Id /\ nx[i] \in Below(nx, i)
      BY <1>1, <1>2, <1>5 DEF Links
    <2>2. {i} \cup Below(nx, nx[i]) \subseteq Below(nx, i)
      BY <1>1, <1>3, <2>1
    <2> DEFINE S == {i} \cup Below(nx, nx[i])
    <2>3. nx[i] \in Below(nx, nx[i])
      BY <2>1 DEF Below
    <2>4. ASSUME NEW x \in S PROVE nx[x] \in S \cup {None}
      <3>1. CASE x = i
        BY <2>3, <3>1
      <3>2. CASE x \in Below(nx, nx[i])
        <4>1. x \in Id /\ nx[x] \in Id \cup {None}
          BY <3>2 DEF Below, Links
        <4>2. ASSUME nx[x] # None, NEW R \in SUBSET Id, nx[i] \in R,
                     \A y \in R : nx[y] \in R \cup {None}
              PROVE  nx[x] \in R
          <5>1. x \in R
            BY <3>2, <4>2 DEF Below
          <5> QED
            BY <4>2, <5>1
        <4> QED
          BY <4>1, <4>2 DEF Below
      <3> QED
        BY <3>1, <3>2
    <2>5. S \in SUBSET Id /\ i \in S
      BY DEF Below
    <2>6. Below(nx, i) \subseteq S
      <3> HIDE DEF S
      <3> QED
        BY <2>4, <2>5 DEF Below
    <2> QED
      BY <2>2, <2>6
  <1> QED
    BY <1>1, <1>2, <1>3, <1>4, <1>5

\* A chain has one end.
LEMMA OneEnd ==
  ASSUME NEW nx \in Links, NEW i \in Id, NEW g \in Below(nx, i), NEW h \in Below(nx, i),
         nx[g] = None, nx[h] = None
  PROVE  g = h
  <1> DEFINE S == {x \in Id : g \in Below(nx, x)}
  <1>1. ASSUME NEW x \in S PROVE nx[x] \in S \cup {None}
    <2>1. CASE nx[x] # None
      <3>1. nx[x] \in Id /\ g \in {x} \cup Below(nx, nx[x])
        BY <2>1, BelowFacts DEF Links
      <3>2. g # x
        BY <2>1
      <3> QED
        BY <3>1, <3>2
    <2> QED
      BY <2>1
  <1>2. S \in SUBSET Id /\ i \in S
    OBVIOUS
  <1>3. h \in S
    <2> HIDE DEF S
    <2> QED
      BY <1>1, <1>2 DEF Below
  <1>4. h \in Id /\ Below(nx, h) = {h}
    BY BelowFacts DEF Below
  <1> QED
    BY <1>3, <1>4

\* More links, longer chains.
LEMMA BelowGrows ==
  ASSUME NEW nx \in Links, NEW ny \in Links, \A j \in Id : nx[j] # None => ny[j] = nx[j],
         NEW i \in Id
  PROVE  Below(nx, i) \subseteq Below(ny, i)
  <1>1. ASSUME NEW S \in SUBSET Id, \A x \in S : ny[x] \in S \cup {None}
        PROVE  \A x \in S : nx[x] \in S \cup {None}
    BY <1>1
  <1> QED
    BY <1>1 DEF Below

\* Resolve returns the end of the chain.
LEMMA HeadBelow ==
  ASSUME NEW nx \in Links, NEW i \in Id, NEW h \in Heads(nx, i)
  PROVE  h \in Below(nx, i)
  <1>1. PICK w \in [Nat -> Id] :
           /\ w[0] = i
           /\ \A n \in Nat : n # 0 =>
                w[n] = IF nx[w[n - 1]] = None THEN w[n - 1] ELSE nx[w[n - 1]]
           /\ Heads(nx, i) = {j \in Id : j = w[MaxDepth - 1] /\ nx[j] = None}
    BY Walked DEF Links
  <1>2. \A n \in Nat : w[n] \in Below(nx, i)
    <2> DEFINE T == {n \in Nat : w[n] \notin Below(nx, i)}
    <2>1. SUFFICES ASSUME T # {} PROVE FALSE
      OBVIOUS
    <2>2. PICK m \in T : \A k \in T : m <= k
      BY <2>1, LeastOf
    <2>3. m # 0
      BY <1>1, BelowFacts
    <2>4. m - 1 \in Nat /\ w[m - 1] \in Below(nx, i)
      BY <2>2, <2>3
    <2>5. w[m] \in {w[m - 1], nx[w[m - 1]]} /\ w[m] \in Id
      BY <1>1, <2>3
    <2>6. w[m] # None
      BY <2>5, RegistryAssumption
    <2> QED
      BY <2>4, <2>5, <2>6, BelowFacts
  <1>3. MaxDepth - 1 \in Nat
    BY RegistryAssumption
  <1> QED
    BY <1>1, <1>2, <1>3

LEMMA HeadIsEnd ==
  ASSUME NEW nx \in Links, NEW i \in Id, Heads(nx, i) # {}, NEW h \in Below(nx, i), nx[h] = None
  PROVE  Heads(nx, i) = {h}
  <1>1. \A g \in Heads(nx, i) : g \in Below(nx, i) /\ nx[g] = None
    BY HeadBelow, HeadsType
  <1> QED
    BY <1>1, OneEnd

----------------------------------------------------------------------------
(* No cycle.                                                               *)

LEMMA AcyclicBelow ==
  ASSUME NEW nx \in Links, Acyclic(nx), NEW i \in Id, NEW j \in Id, nx[i] = j
  PROVE  i \notin Below(nx, j)
  <1> SUFFICES ASSUME i \in Below(nx, j) PROVE FALSE
    OBVIOUS
  <1> DEFINE S == {x \in Below(nx, j) : i \in Below(nx, x)}
  <1>1. S \in SUBSET Id /\ j \in S
    BY BelowFacts
  <1>2. ASSUME NEW x \in S PROVE nx[x] \in S
    <2>1. CASE x = i
      BY <1>1, <2>1
    <2>2. CASE x # i
      <3>1. x \in Id /\ i \in Below(nx, x)
        BY <1>1
      <3>2. nx[x] # None
        BY <2>2, <3>1, BelowFacts
      <3>3. i \in Below(nx, nx[x])
        BY <2>2, <3>1, <3>2, BelowFacts
      <3>4. nx[x] \in Below(nx, j)
        BY <3>2, BelowFacts
      <3> QED
        BY <3>3, <3>4
    <2> QED
      BY <2>1, <2>2
  <1> HIDE DEF S
  <1> QED
    BY <1>1, <1>2 DEF Acyclic

LEMMA LinkedAcyclic ==
  ASSUME next \in Links, Acyclic(next), NEW prev \in Id, NEW to \in Id
  PROVE  Acyclic(Linked(prev, to))
  <1>1. CASE ~Writes(prev, to)
    BY <1>1 DEF Linked
  <1>2. CASE Writes(prev, to)
    <2>1. PICK h \in Heads(next, to) : h # prev
      BY <1>2 DEF Writes
    <2>2. Linked(prev, to) = [next EXCEPT ![prev] = to]
      BY <1>2 DEF Linked
    <2>3. h \in Below(next, to) /\ next[h] = None /\ h \in Id
      BY HeadBelow, HeadsType
    <2> DEFINE ny == [next EXCEPT ![prev] = to]
    <2> SUFFICES ASSUME NEW S \in SUBSET Id, S # {}, \A i \in S : ny[i] \in S
                 PROVE  FALSE
      BY <2>2 DEF Acyclic
    <2>4. prev \in S
      <3> SUFFICES ASSUME prev \notin S PROVE FALSE
        OBVIOUS
      <3>1. \A i \in S : next[i] \in S
        BY DEF Links
      <3> QED
        BY <3>1 DEF Acyclic
    <2>5. to \in S
      BY <2>4 DEF Links
    <2>6. \A i \in S : next[i] \in S \cup {None}
      BY <1>2 DEF Links, Writes
    <2>7. h \in S
      BY <2>3, <2>5, <2>6 DEF Below
    <2>8. ny[h] = None
      BY <2>1, <2>3 DEF Links
    <2> QED
      BY <2>7, <2>8, RegistryAssumption
  <1> QED
    BY <1>1, <1>2

\* The aliases have no cycle, whatever drivers and breadcrumbs say in which order: a cycle
\* would poison every later resolve.
THEOREM NoCycle == Spec => []AliasesAcyclic
  <1>1. Init => Acyclic(next)
    BY RegistryAssumption DEF Init, Acyclic
  <1>2. TypeOK /\ Acyclic(next) /\ [Next]_vars => Acyclic(next)'
    <2> SUFFICES ASSUME TypeOK, Acyclic(next), [Next]_vars PROVE Acyclic(next)'
      OBVIOUS
    <2>1. next \in Links
      BY DEF TypeOK, Links
    <2>2. CASE next' = next
      BY <2>2
    <2>3. CASE Dropped \/ Recorded
      <3>1. Top.prev \in Id /\ Top.next \in Id
        BY <2>3, TopType DEF Dropped, Recorded, TopAt, TypeOK, Frame
      <3>2. next' = next \/ next' = Linked(Top.prev, Top.next)
        BY <2>3 DEF Dropped, Recorded
      <3>3. CASE next' = Linked(Top.prev, Top.next)
        <4>1. Acyclic(Linked(Top.prev, Top.next))
          BY <2>1, <3>1, LinkedAcyclic
        <4> QED
          BY <3>3, <4>1
      <3> QED
        BY <2>2, <3>2, <3>3
    <2>4. CASE ApplyCrumb
      <3>1. restore.rows \in Seq(Key) /\ restore.rows # <<>>
        BY <2>4 DEF ApplyCrumb, TypeOK
      <3>2. Head(restore.rows) \in Key
        BY <3>1, HeadTailProperties
      <3>3. Head(restore.rows)[1] \in Id /\ Head(restore.rows)[2] \in Id
        BY <3>2 DEF Key
      <3>4. next' = Linked(Head(restore.rows)[1], Head(restore.rows)[2])
        BY <2>4 DEF ApplyCrumb
      <3>5. Acyclic(Linked(Head(restore.rows)[1], Head(restore.rows)[2]))
        BY <2>1, <3>3, LinkedAcyclic
      <3> QED
        BY <3>4, <3>5
    <2>5. CASE Restart
      BY <2>5, RegistryAssumption DEF Restart, Acyclic
    <2> QED
      BY <2>2, <2>3, <2>4, <2>5
         DEF Next, vars, Switch, Announced, Tell, Return, Move, Attached, Retire, Subscribe, Subscribed,
             Unsubscribe, ReadCrumbs
  <1>3. Acyclic(next) => AliasesAcyclic
    BY DEF Acyclic, AliasesAcyclic
  <1> QED
    BY <1>1, <1>2, <1>3, TypeCorrect, PTL DEF Spec

----------------------------------------------------------------------------
(* Where the driver calls a client: on the id of its tail, and on the ids  *)
(* that the handlers under way are attaching it to.                        *)

Brings(f, c) == IF f.pc = "attach" /\ f.tail = c /\ ~f.failed THEN {f.head} ELSE {}
Brought(st, n, c) == UNION {Brings(st[k], c) : k \in 1..n}
Own(c) == IF (IsOpen(c) \/ Opening(c)) /\ ~tails[c].deaf THEN {tails[c].at} ELSE {}
Sources == \A k \in 1..Len(stack) : stack[k].pc = "attach" => stack[k].from # stack[k].head
Attachments ==
  /\ Sources
  /\ \A c \in Client : sinks[c] = Own(c) \cup Brought(stack, Len(stack), c)

\* The handlers below the top.
Under(c) == Brought(stack, Len(stack) - 1, c)

LEMMA BroughtSplits ==
  ASSUME NEW st, NEW n \in Nat \ {0}, NEW c
  PROVE  Brought(st, n, c) = Brought(st, n - 1, c) \cup Brings(st[n], c)
  <1>1. 1..n = (1..(n - 1)) \cup {n} /\ n \in 1..n
    OBVIOUS
  <1> QED
    BY <1>1 DEF Brought

LEMMA BroughtSame ==
  ASSUME NEW st, NEW su, NEW n \in Nat, NEW c, \A k \in 1..n : st[k] = su[k]
  PROVE  Brought(st, n, c) = Brought(su, n, c)
  BY DEF Brought

LEMMA BroughtNow ==
  ASSUME stack \in Seq(Frame), stack # <<>>, NEW c
  PROVE  Brought(stack, Len(stack), c) = Under(c) \cup Brings(Top, c)
  BY TopType, BroughtSplits DEF Under, Top

LEMMA BroughtBecomes ==
  ASSUME stack \in Seq(Frame), stack # <<>>, NEW f \in Frame, Becomes(f), NEW c
  PROVE  Brought(stack', Len(stack'), c) = Under(c) \cup Brings(f, c)
  <1>1. Len(stack) \in Nat \ {0} /\ Len(stack) - 1 \in Nat
    BY TopType
  <1>2. /\ Len(stack') = Len(stack) /\ stack'[Len(stack)] = f
        /\ \A k \in 1..(Len(stack) - 1) : stack'[k] = stack[k]
    BY <1>1, BecomesType
  <1>3. Brought(stack', Len(stack) - 1, c) = Under(c)
    BY <1>1, <1>2, BroughtSame DEF Under
  <1> QED
    BY <1>1, <1>2, <1>3, BroughtSplits

LEMMA BroughtOver ==
  ASSUME stack \in Seq(Frame), stack # <<>>, Over \/ Pop, NEW c
  PROVE  Brought(stack', Len(stack'), c) = Under(c)
  <1>1. Len(stack) \in Nat \ {0} /\ Len(stack) - 1 \in Nat
    BY TopType
  <1>2. /\ \/ Len(stack') = Len(stack) - 1
           \/ Len(stack') = Len(stack) /\ stack'[Len(stack)].pc = "tellLate"
        /\ \A k \in 1..(Len(stack) - 1) : stack'[k] = stack[k]
    <2>1. /\ \/ Len(stack') = Len(stack) - 1
             \/ Len(stack') = Len(stack) /\ stack'[Len(stack)].pc = "tellLate"
          /\ \A k \in 1..Len(stack') : k # Len(stack) => stack'[k] = stack[k]
      <3>1. CASE Over
        BY <3>1, OverType
      <3>2. CASE Pop
        BY <1>1, <3>2, PopType
      <3> QED
        BY <3>1, <3>2
    <2>2. ASSUME NEW k \in 1..(Len(stack) - 1) PROVE stack'[k] = stack[k]
      <3>1. k \in 1..Len(stack') /\ k # Len(stack)
        BY <1>1, <2>1
      <3> QED
        BY <2>1, <3>1
    <2> QED
      BY <2>1, <2>2
  <1>3. Brought(stack', Len(stack) - 1, c) = Under(c)
    BY <1>1, <1>2, BroughtSame DEF Under
  <1>4. CASE Len(stack') = Len(stack) - 1
    BY <1>3, <1>4
  <1>5. CASE Len(stack') = Len(stack) /\ stack'[Len(stack)].pc = "tellLate"
    <2>1. Brings(stack'[Len(stack)], c) = {}
      BY <1>5 DEF Brings
    <2>2. Brought(stack', Len(stack), c)
            = Brought(stack', Len(stack) - 1, c) \cup Brings(stack'[Len(stack)], c)
      BY <1>1, BroughtSplits
    <2> QED
      BY <1>3, <1>5, <2>1, <2>2
  <1> QED
    BY <1>2, <1>4, <1>5

\* What a handler brings to is not where the tail is, and each to another id.
LEMMA BroughtElsewhere ==
  ASSUME TypeOK, Handlers, NEW c \in Client
  PROVE  tails[c].at \notin Brought(stack, Len(stack), c)
  BY DEF Handlers, Frames, Follow, Brought, Brings

LEMMA UnderTop ==
  ASSUME TypeOK, Handlers, TopAt("attach"), NEW c \in Client
  PROVE  Top.head \notin Under(c) /\ tails[c].at \notin Under(c)
  <1>1. stack \in Seq(Frame) /\ Len(stack) \in Nat \ {0} /\ stack # <<>> /\ Len(stack) \in 1..Len(stack)
    BY TopType DEF TypeOK, TopAt
  <1>2. Top.head # Top.prev
    BY <1>1 DEF Handlers, Frames, Follow, Top, TopAt
  <1>3. ASSUME NEW k \in 1..(Len(stack) - 1)
        PROVE  k = 1 /\ Top.prev = stack[k].head
    <2>1. Len(stack) <= 2
      BY DEF Handlers, Nesting
    <2>2. k = 1 /\ Len(stack) = 2
      <3>1. ASSUME NEW n \in Nat \ {0}, n <= 2, NEW j \in 1..(n - 1) PROVE j = 1 /\ n = 2
        BY <3>1
      <3> QED
        BY <1>1, <2>1, <3>1
    <2> QED
      BY <2>2 DEF Handlers, Nesting, Top
  <1>4. Top.head \notin Under(c)
    BY <1>2, <1>3 DEF Under, Brought, Brings
  <1>5. Under(c) \subseteq Brought(stack, Len(stack), c)
    BY <1>1 DEF Under, Brought
  <1> QED
    BY <1>4, <1>5, BroughtElsewhere

\* The tops that do not attach bring nothing.
LEMMA SourcesStay ==
  ASSUME TypeOK, Sources, stack # <<>>,
         (Over \/ Pop) \/ \E f \in Frame : Becomes(f) /\ (f.pc = "attach" => f.from # f.head)
  PROVE  Sources'
  <1>1. stack \in Seq(Frame) /\ Len(stack) \in Nat \ {0}
    BY TopType DEF TypeOK
  <1>2. ASSUME NEW f \in Frame, Becomes(f), f.pc = "attach" => f.from # f.head
        PROVE  Sources'
    <2>1. /\ Len(stack') = Len(stack) /\ stack'[Len(stack)] = f
          /\ \A k \in 1..Len(stack) : k # Len(stack) => stack'[k] = stack[k]
      BY <1>1, <1>2, BecomesType
    <2> QED
      BY <1>2, <2>1 DEF Sources
  <1>3. CASE Pop
    <2>1. /\ Len(stack') = Len(stack) - 1
          /\ \A k \in 1..Len(stack') : stack'[k] = stack[k]
      BY <1>1, <1>3, PopType
    <2> QED
      BY <1>1, <2>1 DEF Sources
  <1>4. CASE Over
    <2>1. /\ \/ Len(stack') = Len(stack) - 1
             \/ Len(stack') = Len(stack) /\ stack'[Len(stack)].pc = "tellLate"
          /\ \A k \in 1..Len(stack') : k # Len(stack) => stack'[k] = stack[k]
      BY <1>1, <1>4, OverType
    <2> QED
      BY <1>1, <2>1 DEF Sources
  <1> QED
    BY <1>2, <1>3, <1>4

LEMMA TellAttachments ==
  ASSUME TypeOK, Handlers, Attachments, NEW c \in Client, NEW leaves \in BOOLEAN, Tell(c, leaves)
  PROVE  Attachments'
  <1> DEFINE f == [Top EXCEPT !.todo = @ \ {c}]
  <1>1. /\ stack \in Seq(Frame) /\ Len(stack) \in Nat \ {0} /\ Top \in Frame /\ stack # <<>>
        /\ Top.pc \in {"tell", "tellLate"} /\ tails \in [Client -> TailState]
        /\ sinks \in [Client -> SUBSET Id]
    BY TopType DEF TypeOK, Tell, TopAt
  <1>2. f \in Frame /\ Becomes(f) /\ f.pc = Top.pc
    BY <1>1 DEF Frame, Tell
  <1>3. <<Top.prev, Top.next>> \in Key
    BY <1>1 DEF Frame, Key
  <1>4. /\ \A d \in Client : d # c => tails'[d] = tails[d]
        /\ tails'[c].at = tails[c].at /\ tails'[c].deaf = tails[c].deaf
        /\ tails'[c].st = IF leaves THEN "closed" ELSE tails[c].st
        /\ leaves => IsOpen(c)
    BY <1>1, <1>3, HandedType DEF Tell, HandTo
  <1> HIDE DEF f
  <1>5. Sources'
    BY <1>1, <1>2, SourcesStay DEF Attachments
  <1>6. ASSUME NEW d \in Client
        PROVE  Brought(stack', Len(stack'), d) = Brought(stack, Len(stack), d)
    <2>1. Brings(f, d) = {} /\ Brings(Top, d) = {}
      BY <1>1, <1>2 DEF Brings
    <2> QED
      BY <1>1, <1>2, <2>1, BroughtNow, BroughtBecomes
  <1>7. sinks' = IF leaves THEN Detached(c, tails[c].at) ELSE sinks
    BY DEF Tell
  <1>8. ASSUME NEW d \in Client
        PROVE  sinks'[d] = Own(d)' \cup Brought(stack', Len(stack'), d)
    <2>1. sinks[d] = Own(d) \cup Brought(stack, Len(stack), d)
      BY DEF Attachments
    <2>2. CASE ~ (d = c /\ leaves)
      <3>1. sinks'[d] = sinks[d]
        BY <1>1, <1>7, <2>2 DEF Detached
      <3>2. Own(d)' = Own(d)
        BY <1>4, <2>2 DEF Own, IsOpen, Opening
      <3> QED
        BY <1>6, <2>1, <3>1, <3>2
    <2>3. CASE d = c /\ leaves
      <3>1. sinks'[d] = sinks[d] \ {tails[c].at}
        BY <1>1, <1>7, <2>3 DEF Detached
      <3>2. Own(d)' = {} /\ Own(d) \subseteq {tails[c].at}
        BY <1>4, <2>3 DEF Own, IsOpen, Opening
      <3> QED
        BY <1>6, <2>1, <2>3, <3>1, <3>2, BroughtElsewhere
    <2> QED
      BY <2>2, <2>3
  <1> QED
    BY <1>5, <1>8 DEF Attachments

LEMMA MoveAttachments ==
  ASSUME TypeOK, Handlers, Attachments, NEW c \in Client, NEW leaves \in BOOLEAN,
         NEW refuses \in BOOLEAN, Move(c, leaves, refuses)
  PROVE  Attachments'
  <1>1. /\ stack \in Seq(Frame) /\ Len(stack) \in Nat \ {0} /\ Top \in Frame /\ stack # <<>>
        /\ Top.pc = "rekey" /\ tails \in [Client -> TailState] /\ Top.head # tails[c].at
        /\ tails[c].at \in Id \cup {None} /\ sinks \in [Client -> SUBSET Id]
        /\ Top.head \in Id
    BY TopType, HeadsType DEF TypeOK, Move, TopAt, Follows, TailState
  <1>2. <<Top.prev, Top.next>> \in Key
    BY <1>1 DEF Frame, Key
  <1>3. /\ \A d \in Client : d # c => tails'[d] = tails[d]
        /\ tails'[c].at = tails[c].at /\ tails'[c].deaf = tails[c].deaf
        /\ tails'[c].st = IF leaves THEN "closed" ELSE tails[c].st
        /\ leaves => IsOpen(c)
    BY <1>1, <1>2, HandedType DEF Move, HandTo
  <1>4. ASSUME NEW d \in Client
        PROVE  sinks[d] = Own(d) \cup Under(d) /\ tails[d].at \notin Under(d)
    <2>1. Brings(Top, d) = {}
      BY <1>1 DEF Brings
    <2>2. Brought(stack, Len(stack), d) = Under(d)
      BY <1>1, <2>1, BroughtNow
    <2>3. sinks[d] = Own(d) \cup Brought(stack, Len(stack), d)
      BY DEF Attachments
    <2> QED
      BY <2>2, <2>3, BroughtElsewhere
  <1>5. CASE leaves
    <2> DEFINE f == [Top EXCEPT !.todo = @ \ {c}]
    <2>1. f \in Frame /\ Becomes(f) /\ f.pc = "rekey"
      BY <1>1, <1>5 DEF Frame, Move
    <2> HIDE DEF f
    <2>2. Sources'
      BY <1>1, <2>1, SourcesStay DEF Attachments
    <2>3. \A d \in Client : Brought(stack', Len(stack'), d) = Under(d)
      <3>1. \A d \in Client : Brings(f, d) = {}
        BY <2>1 DEF Brings
      <3> QED
        BY <1>1, <2>1, <3>1, BroughtBecomes
    <2>4. sinks' = Detached(c, tails[c].at)
      BY <1>5 DEF Move
    <2>5. ASSUME NEW d \in Client
          PROVE  sinks'[d] = Own(d)' \cup Brought(stack', Len(stack'), d)
      <3>1. CASE d # c
        <4>1. sinks'[d] = sinks[d] /\ Own(d)' = Own(d)
          BY <1>1, <1>3, <2>4, <3>1 DEF Detached, Own, IsOpen, Opening
        <4> QED
          BY <1>4, <2>3, <4>1
      <3>2. CASE d = c
        <4>1. sinks'[d] = sinks[d] \ {tails[c].at}
          BY <1>1, <2>4, <3>2 DEF Detached
        <4>2. Own(d)' = {} /\ Own(d) \subseteq {tails[c].at}
          BY <1>3, <1>5, <3>2 DEF Own, IsOpen, Opening
        <4> QED
          BY <1>4, <2>3, <3>2, <4>1, <4>2
      <3> QED
        BY <3>1, <3>2
    <2> QED
      BY <2>2, <2>5 DEF Attachments
  <1>6. CASE ~leaves
    <2> DEFINE f == [Top EXCEPT !.pc = "attach", !.todo = @ \ {c}, !.tail = c,
                                !.from = tails[c].at, !.failed = refuses]
    <2>1. /\ f \in Frame /\ Becomes(f) /\ f.pc = "attach" /\ f.from = tails[c].at
          /\ f.head = Top.head /\ f.tail = c /\ f.failed = refuses
      BY <1>1, <1>6 DEF Frame, Move
    <2> HIDE DEF f
    <2>2. Sources'
      BY <1>1, <2>1, SourcesStay DEF Attachments
    <2>3. \A d \in Client : Brought(stack', Len(stack'), d) = Under(d) \cup Brings(f, d)
      BY <1>1, <2>1, BroughtBecomes
    <2>4. sinks' = IF refuses THEN sinks ELSE [sinks EXCEPT ![c] = @ \cup {Top.head}]
      BY <1>6 DEF Move
    <2>5. ASSUME NEW d \in Client
          PROVE  sinks'[d] = Own(d)' \cup Brought(stack', Len(stack'), d)
      <3>1. Own(d)' = Own(d)
        BY <1>3, <1>6 DEF Own, IsOpen, Opening
      <3>2. sinks'[d] = sinks[d] \cup Brings(f, d)
        <4>1. Brings(f, d) = IF d = c /\ ~refuses THEN {Top.head} ELSE {}
          BY <2>1 DEF Brings
        <4>2. CASE d = c /\ ~refuses
          BY <1>1, <2>4, <4>1, <4>2
        <4>3. CASE ~ (d = c /\ ~refuses)
          BY <1>1, <2>4, <4>1, <4>3
        <4> QED
          BY <4>2, <4>3
      <3> QED
        BY <1>4, <2>3, <3>1, <3>2
    <2> QED
      BY <2>2, <2>5 DEF Attachments
  <1> QED
    BY <1>5, <1>6

LEMMA AttachedAttachments ==
  ASSUME TypeOK, Handlers, Attachments, Attached
  PROVE  Attachments'
  <1> DEFINE f == [Top EXCEPT !.pc = "rekey", !.tail = None, !.from = None, !.failed = FALSE]
  <1>1. /\ stack \in Seq(Frame) /\ Len(stack) \in Nat \ {0} /\ Len(stack) \in 1..Len(stack)
        /\ Top \in Frame /\ stack # <<>> /\ TopAt("attach")
        /\ Top.pc = "attach" /\ tails \in [Client -> TailState]
        /\ sinks \in [Client -> SUBSET Id]
    BY TopType DEF TypeOK, Attached, TopAt
  <1>2. f \in Frame /\ Becomes(f) /\ f.pc = "rekey"
    BY <1>1 DEF Frame, Attached
  <1> HIDE DEF f
  <1>0. Top.tail \in Client /\ Top.head # tails[Top.tail].at /\ Top.from # Top.head
    BY <1>1 DEF Handlers, Frames, Follow, Top, Attachments, Sources
  <1>3. PICK c \in Client : c = Top.tail /\ Top.head # tails[c].at /\ Top.from # Top.head
    BY <1>0
  <1>4. Sources'
    BY <1>1, <1>2, SourcesStay DEF Attachments
  <1>5. ASSUME NEW d \in Client
        PROVE  /\ sinks[d] = Own(d) \cup Under(d) \cup Brings(Top, d)
               /\ Brought(stack', Len(stack'), d) = Under(d)
               /\ tails[d].at \notin Under(d) /\ Top.head \notin Under(d)
    <2>1. sinks[d] = Own(d) \cup Brought(stack, Len(stack), d)
      BY DEF Attachments
    <2>2. Brought(stack, Len(stack), d) = Under(d) \cup Brings(Top, d)
      BY <1>1, BroughtNow
    <2>3. Brings(f, d) = {}
      BY <1>2 DEF Brings
    <2>4. Brought(stack', Len(stack'), d) = Under(d)
      BY <1>1, <1>2, <2>3, BroughtBecomes
    <2>5. tails[d].at \notin Under(d) /\ Top.head \notin Under(d)
      BY <1>1, UnderTop
    <2> QED
      BY <2>1, <2>2, <2>4, <2>5
  <1>6. ASSUME NEW d \in Client, d # c
        PROVE  sinks'[d] = Own(d)' \cup Brought(stack', Len(stack'), d)
    <2>1. Brings(Top, d) = {}
      BY <1>3, <1>6 DEF Brings
    <2>2. sinks'[d] = sinks[d]
      BY <1>1, <1>3, <1>6 DEF Attached, Detached
    <2>3. tails'[d] = tails[d]
      BY <1>1, <1>3, <1>6 DEF Attached
    <2>4. Own(d)' = Own(d)
      BY <2>3 DEF Own, IsOpen, Opening
    <2> QED
      BY <1>5, <2>1, <2>2, <2>4
  <1>7. CASE Overtaken(c)
    <2>1. sinks' = (IF Top.failed THEN sinks ELSE Detached(c, Top.head)) /\ tails' = tails
      BY <1>3, <1>7 DEF Attached
    <2>2. Own(c)' = Own(c) /\ Own(c) \subseteq {tails[c].at}
      BY <2>1 DEF Own, IsOpen, Opening
    <2>3. Brings(Top, c) = IF Top.failed THEN {} ELSE {Top.head}
      BY <1>1, <1>3 DEF Brings
    <2>4. sinks'[c] = IF Top.failed THEN sinks[c] ELSE sinks[c] \ {Top.head}
      BY <1>1, <1>3, <2>1 DEF Detached
    <2>5. sinks'[c] = Own(c)' \cup Brought(stack', Len(stack'), c)
      <3>1. CASE Top.failed
        BY <1>3, <1>5, <2>2, <2>3, <2>4, <3>1
      <3>2. CASE ~Top.failed
        BY <1>3, <1>5, <2>2, <2>3, <2>4, <3>2
      <3> QED
        BY <3>1, <3>2
    <2> QED
      BY <1>4, <1>6, <2>5 DEF Attachments
  <1>8. CASE ~Overtaken(c)
    <2>1. /\ sinks' = Detached(c, Top.from)
          /\ tails' = [tails EXCEPT ![c] = [@ EXCEPT !.at = Top.head, !.deaf = Top.failed]]
      BY <1>3, <1>8 DEF Attached
    <2>2. IsOpen(c) /\ tails[c].at = Top.from
      BY <1>3, <1>8 DEF Overtaken
    <2>3. /\ tails'[c].at = Top.head /\ tails'[c].deaf = Top.failed /\ tails'[c].st = tails[c].st
      <3>1. \A t \in TailState : LET u == [t EXCEPT !.at = Top.head, !.deaf = Top.failed]
                                IN  u.at = Top.head /\ u.deaf = Top.failed /\ u.st = t.st
        BY DEF TailState
      <3>2. tails'[c] = [tails[c] EXCEPT !.at = Top.head, !.deaf = Top.failed] /\ tails[c] \in TailState
        BY <1>1, <1>3, <2>1
      <3> HIDE DEF TailState
      <3> QED
        BY <3>1, <3>2
    <2>4. Brings(Top, c) = IF Top.failed THEN {} ELSE {Top.head}
      BY <1>1, <1>3 DEF Brings
    <2>5. sinks'[c] = sinks[c] \ {Top.from}
      BY <1>1, <1>3, <2>1 DEF Detached
    <2>6. Own(c)' = (IF Top.failed THEN {} ELSE {Top.head}) /\ Own(c) \subseteq {Top.from}
      BY <2>2, <2>3 DEF Own, IsOpen, Opening
    <2>7. sinks'[c] = Own(c)' \cup Brought(stack', Len(stack'), c)
      <3>1. Top.from \notin Under(c)
        BY <1>3, <1>5, <2>2
      <3>2. CASE Top.failed
        BY <1>3, <1>5, <2>4, <2>5, <2>6, <3>1, <3>2
      <3>3. CASE ~Top.failed
        BY <1>3, <1>5, <2>4, <2>5, <2>6, <3>1, <3>3
      <3> QED
        BY <3>2, <3>3
    <2> QED
      BY <1>4, <1>6, <2>7 DEF Attachments
  <1> QED
    BY <1>7, <1>8

\* A handler that has not got to the tails, or is done with them, leaves them alone.
LEMMA OverAttachments ==
  ASSUME TypeOK, Attachments, Return \/ Dropped \/ Recorded \/ Retire
  PROVE  Attachments'
  <1>1. /\ stack \in Seq(Frame) /\ Len(stack) \in Nat \ {0} /\ Top \in Frame /\ stack # <<>>
        /\ Top.pc # "attach" /\ Top.prev \in Id
    BY TopType DEF TypeOK, Return, Dropped, Recorded, Retire, TopAt, Frame
  <1>2. UNCHANGED <<tails, sinks>>
    BY DEF Return, Dropped, Recorded, Retire
  <1>3. \A d \in Client : sinks[d] = Own(d) \cup Under(d)
    <2>1. \A d \in Client : Brings(Top, d) = {}
      BY <1>1 DEF Brings
    <2> QED
      BY <1>1, <2>1, BroughtNow DEF Attachments
  <1>4. ASSUME Over \/ Pop PROVE Attachments'
    <2>1. Sources'
      BY <1>1, <1>4, SourcesStay DEF Attachments
    <2>2. \A d \in Client : Brought(stack', Len(stack'), d) = Under(d)
      BY <1>1, <1>4, BroughtOver
    <2> QED
      BY <1>2, <1>3, <2>1, <2>2 DEF Attachments, Own, IsOpen, Opening
  <1>5. ASSUME NEW h \in Heads(next', Top.next),
               Becomes([Top EXCEPT !.pc = "rekey", !.head = h, !.todo = OpenTails])
        PROVE  Attachments'
    <2> DEFINE f == [Top EXCEPT !.pc = "rekey", !.head = h, !.todo = OpenTails]
    <2>1. h \in Id
      BY HeadsType
    <2>2. f \in Frame /\ Becomes(f) /\ f.pc = "rekey"
      BY <1>1, <1>5, <2>1 DEF Frame, OpenTails
    <2> HIDE DEF f
    <2>3. Sources'
      BY <1>1, <2>2, SourcesStay DEF Attachments
    <2>4. \A d \in Client : Brought(stack', Len(stack'), d) = Under(d)
      <3>1. \A d \in Client : Brings(f, d) = {}
        BY <2>2 DEF Brings
      <3> QED
        BY <1>1, <2>2, <3>1, BroughtBecomes
    <2> QED
      BY <1>2, <1>3, <2>3, <2>4 DEF Attachments, Own, IsOpen, Opening
  <1> QED
    BY <1>4, <1>5 DEF Return, Dropped, Recorded, Retire

LEMMA AnnouncedAttachments ==
  ASSUME TypeOK, Attachments, NEW r \in Room, NEW i \in Id, Announced(r, i)
  PROVE  Attachments'
  <1>1. stack \in Seq(Frame) /\ UNCHANGED <<tails, sinks>> /\ Len(stack) \in Nat
    BY DEF TypeOK, Announced
  <1>2. CASE UNCHANGED stack
    BY <1>1, <1>2 DEF Attachments, Sources, Own, IsOpen, Opening
  <1>3. ASSUME NEW f, stack' = Append(stack, f), f.pc = "tell"
        PROVE  Attachments'
    <2>1. /\ Len(stack') = Len(stack) + 1 /\ stack'[Len(stack) + 1] = f
          /\ \A k \in 1..Len(stack) : stack'[k] = stack[k]
      BY <1>1, <1>3
    <2>2. Sources'
      BY <1>1, <1>3, <2>1 DEF Attachments, Sources
    <2>3. ASSUME NEW d \in Client
          PROVE  Brought(stack', Len(stack'), d) = Brought(stack, Len(stack), d)
      <3>1. Brings(f, d) = {}
        BY <1>3 DEF Brings
      <3>2. Brought(stack', Len(stack), d) = Brought(stack, Len(stack), d)
        BY <1>1, <2>1, BroughtSame
      <3>3. Len(stack) + 1 \in Nat \ {0} /\ Len(stack) + 1 - 1 = Len(stack)
        BY <1>1
      <3>4. Brought(stack', Len(stack) + 1, d)
              = Brought(stack', Len(stack), d) \cup Brings(stack'[Len(stack) + 1], d)
        BY <3>3, BroughtSplits
      <3> QED
        BY <2>1, <3>1, <3>2, <3>4
    <2> QED
      BY <1>1, <2>2, <2>3 DEF Attachments, Own, IsOpen, Opening
  <1>4. UNCHANGED stack \/ \E f : stack' = Append(stack, f) /\ f.pc = "tell"
    <2>1. ASSUME NEW order \in Orders, NEW todo
          PROVE  LET f == [prev |-> roomNative[r], next |-> i, order |-> order, head |-> None,
                           pc |-> "tell", todo |-> todo,
                           tail |-> None, from |-> None, failed |-> FALSE]
                 IN  f.pc = "tell"
      OBVIOUS
    <2> QED
      BY <2>1 DEF Announced
  <1> QED
    BY <1>2, <1>3, <1>4

LEMMA ClientAttachments ==
  ASSUME TypeOK, Attachments, NEW c \in Client,
         (\E i \in Id : Subscribe(c, i)) \/ Subscribed(c) \/ Unsubscribe(c)
  PROVE  Attachments'
  <1>1. /\ stack = <<>> /\ stack' = <<>> /\ Len(stack) = 0
        /\ tails \in [Client -> TailState] /\ sinks \in [Client -> SUBSET Id]
    BY DEF Subscribe, Subscribed, Unsubscribe, Idle, TypeOK
  <1>2. Sources' /\ \A d \in Client : Brought(stack, Len(stack), d) = {} /\ Brought(stack', Len(stack'), d) = {}
    BY <1>1 DEF Sources, Brought
  <1>3. /\ \A d \in Client : d # c => tails'[d] = tails[d] /\ sinks'[d] = sinks[d]
        /\ sinks'[c] = Own(c)'
    <2>1. ASSUME NEW i \in Id, Subscribe(c, i)
          PROVE  /\ \A d \in Client : d # c => tails'[d] = tails[d] /\ sinks'[d] = sinks[d]
                 /\ tails'[c].st = "opening" /\ ~tails'[c].deaf /\ sinks'[c] = {tails'[c].at}
      <3>1. PICK h \in Heads(next, i), q \in Room \cup {None} :
              /\ tails' = [tails EXCEPT ![c] = [Fresh EXCEPT !.st = "opening", !.at = h, !.room = q]]
              /\ sinks' = [sinks EXCEPT ![c] = {h}]
        BY <2>1 DEF Subscribe
      <3> QED
        BY <1>1, <3>1 DEF Fresh
    <2>2. ASSUME Unsubscribe(c)
          PROVE  /\ \A d \in Client : d # c => tails'[d] = tails[d] /\ sinks'[d] = sinks[d]
                 /\ tails'[c].st = "closed" /\ sinks'[c] = sinks[c] \ {tails[c].at}
                 /\ sinks[c] \subseteq {tails[c].at}
      <3>1. sinks[c] = Own(c)
        BY <1>2 DEF Attachments
      <3>2. Own(c) \subseteq {tails[c].at}
        BY DEF Own
      <3>3. tails' = [tails EXCEPT ![c].st = "closed"] /\ sinks' = Detached(c, tails[c].at)
        BY <2>2 DEF Unsubscribe
      <3>4. tails'[c].st = "closed"
        BY <1>1, <3>3 DEF TailState
      <3> QED
        BY <1>1, <3>1, <3>2, <3>3, <3>4 DEF Detached
    <2>3. ASSUME Subscribed(c)
          PROVE  /\ \A d \in Client : d # c => tails'[d] = tails[d] /\ sinks'[d] = sinks[d]
                 /\ sinks'[c] = Own(c)'
      <3>1. /\ tails'[c].st = "open" /\ tails'[c].at = tails[c].at
            /\ tails'[c].deaf = tails[c].deaf /\ tails[c].st = "opening"
            /\ \A d \in Client : d # c => tails'[d] = tails[d]
            /\ sinks' = sinks
        BY <1>1, <2>3 DEF Subscribed, Opening, TailState
      <3>2. sinks[c] = Own(c)
        BY <1>2 DEF Attachments
      <3> QED
        BY <3>1, <3>2 DEF Own, IsOpen, Opening
    <2> QED
      BY <2>1, <2>2, <2>3 DEF Own, IsOpen, Opening
  <1>4. ASSUME NEW d \in Client, d # c PROVE Own(d)' = Own(d)
    BY <1>3, <1>4 DEF Own, IsOpen, Opening
  <1> QED
    BY <1>2, <1>3, <1>4 DEF Attachments

LEMMA StepAttachments == TypeOK /\ Handlers /\ Attachments /\ [Next]_vars => Attachments'
  <1> SUFFICES ASSUME TypeOK, Handlers, Attachments, [Next]_vars
               PROVE  Attachments'
    OBVIOUS
  <1>1. CASE UNCHANGED <<stack, tails, sinks>>
    BY <1>1 DEF Attachments, Sources, Own, IsOpen, Opening
  <1>2. CASE Restart
    <2>1. /\ stack' = <<>> /\ sinks' = [c \in Client |-> {}]
          /\ \A c \in Client : tails'[c].st = "none"
      BY <1>2 DEF Restart, Fresh
    <2> QED
      BY <2>1 DEF Attachments, Sources, Own, IsOpen, Opening, Brought
  <1> QED
    BY <1>1, <1>2, TellAttachments, MoveAttachments, AttachedAttachments, OverAttachments,
       AnnouncedAttachments, ClientAttachments
       DEF Next, vars, Switch, ReadCrumbs, ApplyCrumb

\* Once the handlers are over, the driver calls a client for exactly the id its tail is on,
\* whatever rotations nested, threw or overtook each other and whoever left from inside.
THEOREM TailsAttached == Spec => []AttachedWhereItIs
  <1>1. Init => Attachments
    BY DEF Init, Attachments, Sources, Own, IsOpen, Opening, Brought, Fresh
  <1>2. TypeOK /\ Attachments => AttachedWhereItIs
    <2> SUFFICES ASSUME Attachments, stack = <<>>, NEW c \in Client PROVE sinks[c] = Own(c)
      BY DEF AttachedWhereItIs, Idle, Own, Opening
    <2>1. Brought(stack, Len(stack), c) = {}
      BY DEF Brought
    <2> QED
      BY <2>1 DEF Attachments
  <1> QED
    BY <1>1, <1>2, StepAttachments, StepHandlers, InitHandlers, TypeCorrect, PTL DEF Spec

----------------------------------------------------------------------------
(* No tail is left behind. A handler has yet to see to every open tail on  *)
(* the id it supersedes; a nested one that superseded the end of the       *)
(* chain of an outer one takes over the tails of that chain.               *)

Works(f) == f.pc \in {"rekey", "attach"}
Lives(tl, c) == tl[c].st = "open"
\* A handler has links of the aliases behind it.
Chained(nx, f) ==
  /\ Works(f) => f.head \in Below(nx, f.prev)
  /\ f.pc = "attach" => f.from \in Id /\ f.head \in Below(nx, f.from)
\* It has not seen the tail of c, or is moving it.
Handling(tl, f, c) == c \in f.todo \/ (f.pc = "attach" /\ f.tail = c /\ f.from = tl[c].at)
Covers(tl, f) ==
  Works(f) => \A c \in Client : Lives(tl, c) /\ tl[c].at = f.prev => Handling(tl, f, c)
\* The tail of c is on the chain of a handler, whose end was superseded meanwhile.
Outrun(nx, tl, f, c) == Works(f) /\ nx[f.head] # None /\ Lives(tl, c) /\ f.head \in Below(nx, tl[c].at)

Held == \A k \in 1..Len(stack) : Chained(next, stack[k]) /\ Covers(tails, stack[k])
InnerEnd == Len(stack) = 2 /\ Works(stack[2]) => next[stack[2].head] = None
TakenOver ==
  stack # <<>> =>
    \A c \in Client : Outrun(next, tails, stack[1], c)
                        => Len(stack) = 2 /\ Works(stack[2]) /\ Handling(tails, stack[2], c)
\* An open tail, or one that is being opened, is somewhere. The open one is nowhere behind
\* unless it is still where it was opened too late.
Placed(tl, c) == tl[c].st \in {"opening", "open"} => tl[c].at \in Id
NoneBehind ==
  \A c \in Client :
    /\ Placed(tails, c)
    /\ Lives(tails, c) /\ tails[c].at # tails[c].missed => tails[c].at \notin retired
Trailing == Held /\ InnerEnd /\ TakenOver /\ NoneBehind

\* No client opened or moved its tail.
TailsBack ==
  \A c \in Client : tails'[c].st \in {"opening", "open"} =>
    /\ tails'[c].st = tails[c].st /\ tails'[c].at = tails[c].at
    /\ tails'[c].missed = tails[c].missed
Longer(nx, ny) == \A i \in Id : nx[i] # None => ny[i] = nx[i]

LEMMA ChainedLonger ==
  ASSUME NEW nx \in Links, NEW ny \in Links, Longer(nx, ny), NEW f \in Frame, Chained(nx, f)
  PROVE  Chained(ny, f)
  <1>1. Works(f) => Below(nx, f.prev) \subseteq Below(ny, f.prev)
    BY BelowGrows DEF Frame, Longer
  <1>2. f.pc = "attach" => Below(nx, f.from) \subseteq Below(ny, f.from)
    BY BelowGrows DEF Chained, Longer
  <1> QED
    BY <1>1, <1>2 DEF Chained

LEMMA CoversBack ==
  ASSUME NEW tl, NEW tm, NEW f, Covers(tl, f),
         \A c \in Client : Lives(tm, c) => Lives(tl, c) /\ tm[c].at = tl[c].at
  PROVE  Covers(tm, f)
  BY DEF Covers, Handling

LEMMA LinkedLonger ==
  ASSUME next \in Links, NEW prev \in Id, NEW to \in Id
  PROVE  /\ Longer(next, Linked(prev, to))
         /\ Accepts(prev, to) => Linked(prev, to)[prev] = to
  <1>1. Writes(prev, to) => next[prev] = None
    BY DEF Writes
  <1>2. to # None
    BY RegistryAssumption
  <1> QED
    BY <1>1, <1>2 DEF Linked, Longer, Links, Accepts

LEMMA NextLonger ==
  ASSUME TypeOK, Next, ~Restart
  PROVE  Longer(next, next')
  <1>1. next \in Links
    BY DEF TypeOK, Links
  <1>2. CASE UNCHANGED next
    BY <1>2 DEF Longer
  <1>3. CASE Dropped \/ Recorded
    <2>1. Top.prev \in Id /\ Top.next \in Id
      BY <1>3, TopType DEF Dropped, Recorded, TopAt, TypeOK, Frame
    <2>2. next' = next \/ next' = Linked(Top.prev, Top.next)
      BY <1>3 DEF Dropped, Recorded
    <2> QED
      BY <1>1, <1>2, <2>1, <2>2, LinkedLonger
  <1>4. CASE ApplyCrumb
    <2>1. restore.rows \in Seq(Key) /\ restore.rows # <<>>
      BY <1>4 DEF ApplyCrumb, TypeOK
    <2>2. Head(restore.rows) \in Key
      BY <2>1, HeadTailProperties
    <2>3. Head(restore.rows)[1] \in Id /\ Head(restore.rows)[2] \in Id
      BY <2>2 DEF Key
    <2>4. next' = Linked(Head(restore.rows)[1], Head(restore.rows)[2])
      BY <1>4 DEF ApplyCrumb
    <2> QED
      BY <1>1, <2>3, <2>4, LinkedLonger
  <1> QED
    BY <1>2, <1>3, <1>4 DEF Next, Switch, Announced, Tell, Return, Move, Attached, Retire,
       Subscribe, Subscribed, Unsubscribe, ReadCrumbs

\* The innermost handler is over, or has nothing to do with tails.
LEMMA QuietTrails ==
  ASSUME TypeOK, Nesting, Held, InnerEnd, stack # <<>>, next' = next, TailsBack,
         \/ Len(stack') = Len(stack) - 1
         \/ Len(stack') = Len(stack) /\ ~Works(stack'[Len(stack)]),
         \A k \in 1..Len(stack') : k # Len(stack) => stack'[k] = stack[k],
         Len(stack) = 2 => \A c \in Client : ~Outrun(next, tails, stack[1], c)
  PROVE  Held' /\ InnerEnd' /\ TakenOver'
  <1>1. stack \in Seq(Frame) /\ Len(stack) \in {1, 2}
    <2>1. stack \in Seq(Frame) /\ Len(stack) \in Nat \ {0} /\ Len(stack) <= 2
      BY TopType DEF TypeOK, Nesting
    <2>2. \A n \in Nat \ {0} : n <= 2 => n \in {1, 2}
      OBVIOUS
    <2> QED
      BY <2>1, <2>2
  <1>2. \A c \in Client : Outrun(next', tails', stack[1], c) => Outrun(next, tails, stack[1], c)
    BY DEF TailsBack, Outrun, Lives
  <1>3. \A k \in 1..Len(stack) : Chained(next', stack[k]) /\ Covers(tails', stack[k])
    BY CoversBack DEF Held, TailsBack, Lives
  <1>4. ASSUME NEW k \in 1..Len(stack')
        PROVE  Chained(next', stack'[k]) /\ Covers(tails', stack'[k])
    <2>1. CASE k # Len(stack)
      BY <1>1, <1>3, <2>1
    <2>2. CASE k = Len(stack)
      <3>1. ~Works(stack'[k])
        BY <1>1, <2>2
      <3> QED
        BY <3>1 DEF Chained, Covers, Works
    <2> QED
      BY <2>1, <2>2
  <1>5. Len(stack') = 2 => ~Works(stack'[2])
    <2>0. Len(stack') = Len(stack) - 1 \/ Len(stack') = Len(stack)
      OBVIOUS
    <2>1. Len(stack') = 2 => Len(stack) = 2 /\ Len(stack') # Len(stack) - 1
      <3>1. \A m, n : n \in {1, 2} /\ (m = n - 1 \/ m = n) /\ m = 2 => n = 2 /\ m # n - 1
        OBVIOUS
      <3> QED
        BY <1>1, <2>0, <3>1
    <2>2. Len(stack') # Len(stack) - 1 => ~Works(stack'[Len(stack)])
      OBVIOUS
    <2> QED
      BY <2>1, <2>2
  <1>6. ASSUME stack' # <<>>, NEW c \in Client
        PROVE  ~Outrun(next', tails', stack'[1], c)
    <2>1. CASE Len(stack) = 1
      <3>1. Len(stack') = 1
        BY <1>6, <2>1
      <3> QED
        BY <2>1, <3>1 DEF Outrun
    <2>2. CASE Len(stack) = 2
      <3>1. stack'[1] = stack[1]
        BY <2>2
      <3> QED
        BY <1>2, <2>2, <3>1
    <2> QED
      BY <1>1, <2>1, <2>2
  <1> QED
    BY <1>4, <1>5, <1>6 DEF Held, InnerEnd, TakenOver

LEMMA AnnouncedTrails ==
  ASSUME TypeOK, Trailing, NEW r \in Room, NEW i \in Id, Announced(r, i)
  PROVE  Trailing'
  <1>1. stack \in Seq(Frame) /\ UNCHANGED <<next, tails, retired>> /\ Len(stack) \in Nat
    BY DEF TypeOK, Announced
  <1>2. NoneBehind'
    BY <1>1 DEF Trailing, NoneBehind, Placed, Lives
  <1>3. CASE UNCHANGED stack
    BY <1>1, <1>2, <1>3 DEF Trailing, Held, InnerEnd, TakenOver
  <1>4. ASSUME NEW f, stack' = Append(stack, f), f.pc = "tell"
        PROVE  Trailing'
    <2>1. /\ Len(stack') = Len(stack) + 1 /\ stack'[Len(stack) + 1] = f
          /\ \A k \in 1..Len(stack) : stack'[k] = stack[k]
      BY <1>1, <1>4
    <2>2. ~Works(f) /\ f.pc # "attach"
      BY <1>4 DEF Works
    <2>3. Len(stack) \in {0, 1}
      <3>1. stack = <<>> \/ Len(stack) = 1
        BY DEF Announced, MayEmit, Subscribing, Idle
      <3> QED
        BY <3>1
    <2>4. ASSUME NEW k \in 1..Len(stack')
          PROVE  Chained(next', stack'[k]) /\ Covers(tails', stack'[k])
      <3>1. CASE k \in 1..Len(stack)
        BY <1>1, <2>1, <3>1 DEF Trailing, Held
      <3>2. CASE k = Len(stack) + 1
        <4>1. Chained(next', f) /\ Covers(tails', f)
          BY <2>2 DEF Chained, Covers
        <4> QED
          BY <2>1, <3>2, <4>1
      <3> QED
        BY <1>1, <2>1, <3>1, <3>2
    <2>5. Held'
      BY <2>4 DEF Held
    <2>6. InnerEnd'
      <3>1. Len(stack') = 2 => stack'[2] = f
        BY <2>1, <2>3
      <3> QED
        BY <2>2, <3>1 DEF InnerEnd
    <2>7. ASSUME NEW c \in Client PROVE ~Outrun(next', tails', stack'[1], c)
      <3>1. CASE Len(stack) = 0
        <4>1. stack'[1] = f
          BY <2>1, <3>1
        <4> QED
          BY <2>2, <4>1 DEF Outrun
      <3>2. CASE Len(stack) = 1
        <4>1. stack'[1] = stack[1] /\ stack # <<>> /\ Len(stack) # 2
          BY <1>1, <2>1, <3>2
        <4>2. ~Outrun(next, tails, stack[1], c)
          BY <4>1 DEF Trailing, TakenOver
        <4> QED
          BY <1>1, <4>1, <4>2
      <3> QED
        BY <2>3, <3>1, <3>2
    <2> QED
      BY <1>2, <2>5, <2>6, <2>7 DEF Trailing, TakenOver
  <1>5. UNCHANGED stack \/ \E f : stack' = Append(stack, f) /\ f.pc = "tell"
    <2>1. ASSUME NEW order \in Orders, NEW todo
          PROVE  LET f == [prev |-> roomNative[r], next |-> i, order |-> order, head |-> None,
                           pc |-> "tell", todo |-> todo,
                           tail |-> None, from |-> None, failed |-> FALSE]
                 IN  f.pc = "tell"
      OBVIOUS
    <2> QED
      BY <2>1 DEF Announced
  <1> QED
    BY <1>3, <1>4, <1>5

LEMMA TellTrails ==
  ASSUME TypeOK, Nesting, Trailing, NEW c \in Client, NEW leaves \in BOOLEAN, Tell(c, leaves)
  PROVE  Trailing'
  <1> DEFINE f == [Top EXCEPT !.todo = @ \ {c}]
  <1>1. /\ stack \in Seq(Frame) /\ Len(stack) \in Nat \ {0} /\ Top \in Frame /\ stack # <<>>
        /\ Top.pc \in {"tell", "tellLate"} /\ tails \in [Client -> TailState]
        /\ next' = next /\ retired' = retired
    BY TopType DEF TypeOK, Tell, TopAt
  <1>2. f \in Frame /\ Becomes(f) /\ f.pc = Top.pc
    BY <1>1 DEF Frame, Tell
  <1>3. <<Top.prev, Top.next>> \in Key
    BY <1>1 DEF Frame, Key
  <1>4. TailsBack
    <2>1. /\ \A d \in Client : d # c => tails'[d] = tails[d]
          /\ tails'[c].at = tails[c].at /\ tails'[c].missed = tails[c].missed
          /\ tails'[c].st = IF leaves THEN "closed" ELSE tails[c].st
      BY <1>1, <1>3, HandedType DEF Tell
    <2> QED
      BY <2>1 DEF TailsBack, Lives
  <1> HIDE DEF f
  <1>5. /\ Len(stack') = Len(stack) /\ stack'[Len(stack)] = f
        /\ \A k \in 1..Len(stack) : k # Len(stack) => stack'[k] = stack[k]
    BY <1>1, <1>2, BecomesType
  <1>6. ~Works(f) /\ ~Works(Top)
    BY <1>1, <1>2 DEF Works
  <1>7. Len(stack) = 2 => \A d \in Client : ~Outrun(next, tails, stack[1], d)
    BY <1>1, <1>6 DEF Trailing, TakenOver, Top
  <1>8. Held' /\ InnerEnd' /\ TakenOver'
    <2>1. /\ Len(stack') = Len(stack) /\ ~Works(stack'[Len(stack)])
          /\ \A k \in 1..Len(stack') : k # Len(stack) => stack'[k] = stack[k]
      BY <1>5, <1>6
    <2> QED
      BY <1>1, <1>4, <1>7, <2>1, QuietTrails DEF Trailing
  <1>9. NoneBehind'
    BY <1>1, <1>4 DEF Trailing, NoneBehind, TailsBack, Placed, Lives
  <1> QED
    BY <1>8, <1>9 DEF Trailing

\* The innermost handler is over, and what it retires is on no live tail.
LEMMA OverTrails ==
  ASSUME TypeOK, Nesting, Trailing, stack # <<>>, Over \/ Pop, next' = next, tails' = tails,
         Len(stack) = 2 => \A c \in Client : ~Outrun(next, tails, stack[1], c),
         \A c \in Client : Lives(tails, c) /\ tails[c].at # tails[c].missed => tails[c].at \notin retired'
  PROVE  Trailing'
  <1>1. stack \in Seq(Frame) /\ Len(stack) \in Nat \ {0}
    BY TopType DEF TypeOK
  <1>2. /\ \/ Len(stack') = Len(stack) - 1
           \/ Len(stack') = Len(stack) /\ ~Works(stack'[Len(stack)])
        /\ \A k \in 1..Len(stack') : k # Len(stack) => stack'[k] = stack[k]
    <2>1. CASE Over
      BY <1>1, <2>1, OverType DEF Works
    <2>2. CASE Pop
      BY <1>1, <2>2, PopType
    <2> QED
      BY <2>1, <2>2
  <1>3. TailsBack
    BY DEF TailsBack
  <1>4. Held' /\ InnerEnd' /\ TakenOver'
    BY <1>2, <1>3, QuietTrails DEF Trailing
  <1>5. NoneBehind'
    BY DEF Trailing, NoneBehind, Placed, Lives
  <1> QED
    BY <1>4, <1>5 DEF Trailing

LEMMA RecordedTrails ==
  ASSUME TypeOK, TypeOK', Nesting, Trailing, NEW h \in Heads(next', Top.next), Recorded,
         Becomes([Top EXCEPT !.pc = "rekey", !.head = h, !.todo = OpenTails])
  PROVE  Trailing'
  <1> DEFINE f == [Top EXCEPT !.pc = "rekey", !.head = h, !.todo = OpenTails]
  <1>1. /\ stack \in Seq(Frame) /\ Len(stack) \in Nat \ {0} /\ Top \in Frame /\ stack # <<>>
        /\ Top.prev \in Id /\ Top.next \in Id /\ next \in Links /\ next' \in Links
        /\ tails' = tails /\ retired' = retired
    BY TopType DEF TypeOK, Recorded, TopAt, Frame, Links
  <1>2. h \in Id /\ next'[h] = None
    BY HeadsType
  <1>3. f \in Frame /\ Becomes(f) /\ f.pc = "rekey" /\ f.head = h /\ f.prev = Top.prev /\ f.todo = OpenTails
    BY <1>1, <1>2 DEF Frame, OpenTails
  <1> HIDE DEF f
  <1>4. /\ Len(stack') = Len(stack) /\ stack'[Len(stack)] = f
        /\ \A k \in 1..Len(stack) : k # Len(stack) => stack'[k] = stack[k] /\ stack[k] \in Frame
    BY <1>1, <1>3, BecomesType
  <1>5. Longer(next, next') /\ next'[Top.prev] = Top.next
    <2>1. next' = Linked(Top.prev, Top.next) /\ Accepts(Top.prev, Top.next)
      BY DEF Recorded
    <2> QED
      BY <1>1, <2>1, LinkedLonger
  <1>6. Chained(next', f)
    <2>1. Top.next # None
      BY <1>1, RegistryAssumption
    <2>2. Below(next', Top.prev) = {Top.prev} \cup Below(next', Top.next)
      BY <1>1, <1>5, <2>1, BelowFacts
    <2>3. h \in Below(next', Top.next)
      BY <1>1, HeadBelow
    <2> QED
      BY <1>3, <2>2, <2>3 DEF Chained
  <1>7. \A c \in Client : Lives(tails, c) => Handling(tails, f, c)
    BY <1>3 DEF Lives, Handling, OpenTails, IsOpen
  <1>8. ASSUME NEW k \in 1..Len(stack')
        PROVE  Chained(next', stack'[k]) /\ Covers(tails', stack'[k])
    <2>1. CASE k = Len(stack)
      BY <1>1, <1>4, <1>6, <1>7, <2>1 DEF Covers
    <2>2. CASE k # Len(stack)
      <3>1. Chained(next, stack[k]) /\ Covers(tails, stack[k]) /\ stack'[k] = stack[k] /\ stack[k] \in Frame
        BY <1>4, <2>2 DEF Trailing, Held
      <3>2. Chained(next', stack[k])
        BY <1>1, <1>5, <3>1, ChainedLonger
      <3> QED
        BY <1>1, <3>1, <3>2
    <2> QED
      BY <2>1, <2>2
  <1>9. InnerEnd'
    BY <1>2, <1>3, <1>4 DEF InnerEnd
  <1>10. ASSUME NEW c \in Client, Outrun(next', tails', stack'[1], c)
         PROVE  Len(stack') = 2 /\ Works(stack'[2]) /\ Handling(tails', stack'[2], c)
    <2>1. Len(stack) \in {1, 2}
      <3>1. \A n \in Nat \ {0} : n <= 2 => n \in {1, 2}
        OBVIOUS
      <3> QED
        BY <1>1, <3>1 DEF Nesting
    <2>2. CASE Len(stack) = 1
      <3>1. stack'[1] = f
        BY <1>4, <2>2
      <3> QED
        BY <1>2, <1>3, <1>10, <3>1 DEF Outrun
    <2>3. CASE Len(stack) = 2
      <3>1. Len(stack') = 2 /\ stack'[2] = f
        BY <1>4, <2>3
      <3>2. Works(f) /\ Handling(tails, f, c)
        BY <1>1, <1>3, <1>7, <1>10 DEF Works, Outrun
      <3> QED
        BY <1>1, <3>1, <3>2
    <2> QED
      BY <2>1, <2>2, <2>3
  <1>11. NoneBehind'
    BY <1>1 DEF Trailing, NoneBehind, Placed, Lives
  <1> QED
    BY <1>8, <1>9, <1>10, <1>11 DEF Trailing, Held, TakenOver

LEMMA MoveTrails ==
  ASSUME TypeOK, Nesting, Trailing, NEW c \in Client, NEW leaves \in BOOLEAN,
         NEW refuses \in BOOLEAN, Move(c, leaves, refuses)
  PROVE  Trailing'
  <1>1. /\ stack \in Seq(Frame) /\ Len(stack) \in Nat \ {0} /\ Top \in Frame /\ stack # <<>>
        /\ Len(stack) \in 1..Len(stack)
        /\ Top.pc = "rekey" /\ tails \in [Client -> TailState] /\ Lives(tails, c)
        /\ next \in Links /\ next' = next /\ retired' = retired
        /\ Top.head \in Heads(next, tails[c].at)
    BY TopType DEF TypeOK, Move, TopAt, Follows, Lives, IsOpen, Links
  <1>2. tails[c].at \in Id /\ Top.head \in Id /\ next[Top.head] = None
    BY <1>1, HeadsType DEF Trailing, NoneBehind, Placed, Lives
  <1>3. Top.head \in Below(next, tails[c].at)
    BY <1>1, <1>2, HeadBelow
  <1>4. <<Top.prev, Top.next>> \in Key
    BY <1>1 DEF Frame, Key
  <1>5. /\ TailsBack /\ \A d \in Client : tails'[d].at = tails[d].at
        /\ Lives(tails', c) => ~leaves
    <2>1. /\ \A d \in Client : d # c => tails'[d] = tails[d]
          /\ tails'[c].at = tails[c].at /\ tails'[c].missed = tails[c].missed
          /\ tails'[c].st = IF leaves THEN "closed" ELSE tails[c].st
      BY <1>1, <1>4, HandedType DEF Move
    <2> QED
      BY <2>1 DEF TailsBack, Lives
  <1>6. \E f \in Frame : /\ Becomes(f) /\ f.prev = Top.prev /\ f.head = Top.head
                         /\ f.todo = Top.todo \ {c}
                         /\ \/ f.pc = "rekey" /\ leaves
                            \/ f.pc = "attach" /\ f.tail = c /\ f.from = tails[c].at
    <2>1. CASE leaves
      <3> DEFINE f == [Top EXCEPT !.todo = @ \ {c}]
      <3>1. /\ f \in Frame /\ Becomes(f) /\ f.prev = Top.prev /\ f.pc = Top.pc /\ f.head = Top.head
            /\ f.todo = Top.todo \ {c}
        BY <1>1, <2>1 DEF Frame, Move
      <3> HIDE DEF f
      <3> QED
        BY <1>1, <2>1, <3>1
    <2>2. CASE ~leaves
      <3> DEFINE f == [Top EXCEPT !.pc = "attach", !.todo = @ \ {c}, !.tail = c,
                                  !.from = tails[c].at, !.failed = refuses]
      <3>1. /\ f \in Frame /\ Becomes(f) /\ f.prev = Top.prev /\ f.pc = "attach" /\ f.head = Top.head
            /\ f.tail = c /\ f.from = tails[c].at /\ f.todo = Top.todo \ {c}
        BY <1>1, <1>2, <2>2 DEF Frame, Move
      <3> HIDE DEF f
      <3> QED
        BY <3>1
    <2> QED
      BY <2>1, <2>2
  <1>7. PICK f \in Frame : /\ Becomes(f) /\ f.prev = Top.prev /\ f.head = Top.head
                           /\ f.todo = Top.todo \ {c}
                           /\ \/ f.pc = "rekey" /\ leaves
                              \/ f.pc = "attach" /\ f.tail = c /\ f.from = tails[c].at
    BY <1>6
  <1>8. /\ Len(stack') = Len(stack) /\ stack'[Len(stack)] = f
        /\ \A k \in 1..Len(stack) : k # Len(stack) => stack'[k] = stack[k]
    BY <1>1, <1>7, BecomesType
  <1>9. Works(f) /\ Works(Top)
    BY <1>1, <1>7 DEF Works
  <1>10. Chained(next, Top) /\ Covers(tails, Top)
    BY <1>1 DEF Trailing, Held, Top
  <1>11. ASSUME NEW d \in Client, Lives(tails', d), Handling(tails, Top, d)
         PROVE  Handling(tails', f, d)
    <2>1. d \in Top.todo
      BY <1>1, <1>11 DEF Handling
    <2>2. CASE d # c
      BY <1>7, <2>1, <2>2 DEF Handling
    <2>3. CASE d = c
      BY <1>5, <1>7, <1>11, <2>3 DEF Handling
    <2> QED
      BY <2>2, <2>3
  <1>12. Chained(next, f) /\ Covers(tails', f)
    <2>1. Chained(next, f)
      BY <1>2, <1>3, <1>7, <1>9, <1>10 DEF Chained
    <2>2. ASSUME NEW d \in Client, Lives(tails', d), tails'[d].at = f.prev
          PROVE  Handling(tails', f, d)
      <3>1. Lives(tails, d) /\ tails[d].at = Top.prev
        BY <1>5, <1>7, <2>2 DEF TailsBack, Lives
      <3>2. Handling(tails, Top, d)
        BY <1>9, <1>10, <3>1 DEF Covers
      <3> QED
        BY <1>11, <2>2, <3>2
    <2> QED
      BY <2>1, <2>2 DEF Covers
  <1>13. ASSUME NEW k \in 1..Len(stack')
         PROVE  Chained(next', stack'[k]) /\ Covers(tails', stack'[k])
    <2>1. CASE k = Len(stack)
      BY <1>1, <1>8, <1>12, <2>1
    <2>2. CASE k # Len(stack)
      <3>1. Chained(next, stack[k]) /\ Covers(tails, stack[k]) /\ stack'[k] = stack[k]
        BY <1>8, <2>2 DEF Trailing, Held
      <3>2. Covers(tails', stack[k])
        BY <1>5, <3>1, CoversBack DEF TailsBack, Lives
      <3> QED
        BY <1>1, <3>1, <3>2
    <2> QED
      BY <2>1, <2>2
  <1>14. InnerEnd'
    BY <1>1, <1>2, <1>7, <1>8 DEF InnerEnd
  <1>15. ASSUME NEW d \in Client, Outrun(next', tails', stack'[1], d)
         PROVE  Len(stack') = 2 /\ Works(stack'[2]) /\ Handling(tails', stack'[2], d)
    <2>1. Len(stack) \in {1, 2}
      <3>1. \A n \in Nat \ {0} : n <= 2 => n \in {1, 2}
        OBVIOUS
      <3> QED
        BY <1>1, <3>1 DEF Nesting
    <2>2. CASE Len(stack) = 1
      <3>1. stack'[1] = f
        BY <1>8, <2>2
      <3> QED
        BY <1>1, <1>2, <1>7, <1>15, <3>1 DEF Outrun
    <2>3. CASE Len(stack) = 2
      <3>1. Len(stack') = 2 /\ stack'[2] = f /\ stack'[1] = stack[1] /\ Top = stack[2]
        BY <1>8, <2>3 DEF Top
      <3>2. Outrun(next, tails, stack[1], d) /\ Lives(tails', d)
        BY <1>1, <1>5, <1>15, <3>1 DEF Outrun, TailsBack, Lives
      <3>3. Handling(tails, Top, d)
        BY <1>1, <3>1, <3>2 DEF Trailing, TakenOver
      <3> QED
        BY <1>9, <1>11, <3>1, <3>2, <3>3
    <2> QED
      BY <2>1, <2>2, <2>3
  <1>16. NoneBehind'
    BY <1>1, <1>5 DEF Trailing, NoneBehind, TailsBack, Placed, Lives
  <1> QED
    BY <1>13, <1>14, <1>15, <1>16 DEF Trailing, Held, TakenOver

\* A nested handler attaches to the end of the chain, and past the end of the outer one.
LEMMA InnerFacts ==
  ASSUME TypeOK, Handlers, Trailing, Len(stack) = 2, Works(stack[2])
  PROVE  /\ Top = stack[2] /\ Works(stack[1]) /\ stack[1].head = stack[2].prev
         /\ stack[2].head \in Id /\ next[stack[2].head] = None
         /\ Below(next, stack[2].head) = {stack[2].head}
         /\ stack[1].head \notin Below(next, stack[2].head)
         /\ stack[2].head \in Below(next, stack[1].head)
         /\ next[stack[1].prev] # None /\ next[stack[1].head] # None /\ stack[1].head \in Id
  <1>1. 1 \in 1..Len(stack) /\ 2 \in 1..Len(stack) /\ next \in Links
    BY DEF TypeOK, Links
  <1>2. stack[1].pc = "attach" /\ stack[2].prev = stack[1].head
    BY DEF Handlers, Nesting
  <1>3. /\ stack[2].head \in Id /\ stack[2].head # stack[2].prev /\ next[stack[2].prev] # None
        /\ stack[1].head \in Id /\ next[stack[1].prev] # None
    BY <1>1, <1>2 DEF Handlers, Frames, Follow, Works
  <1>4. next[stack[2].head] = None
    BY DEF Trailing, InnerEnd
  <1>5. stack[2].head \in Below(next, stack[2].prev)
    BY <1>1 DEF Trailing, Held, Chained
  <1>6. Below(next, stack[2].head) = {stack[2].head}
    BY <1>1, <1>3, <1>4, BelowFacts
  <1> QED
    BY <1>2, <1>3, <1>4, <1>5, <1>6 DEF Top, Works

LEMMA AttachedTrails ==
  ASSUME TypeOK, Handlers, Trailing, Attached
  PROVE  Trailing'
  <1> DEFINE f == [Top EXCEPT !.pc = "rekey", !.tail = None, !.from = None, !.failed = FALSE]
  <1>1. /\ stack \in Seq(Frame) /\ Len(stack) \in Nat \ {0} /\ Top \in Frame /\ stack # <<>>
        /\ Len(stack) \in 1..Len(stack)
        /\ Top.pc = "attach" /\ tails \in [Client -> TailState]
        /\ next \in Links /\ next' = next /\ retired' = retired
    BY TopType DEF TypeOK, Attached, TopAt, Links
  <1>2. f \in Frame /\ Becomes(f) /\ f.prev = Top.prev /\ f.pc = "rekey" /\ f.head = Top.head /\ f.todo = Top.todo
    BY <1>1 DEF Frame, Attached
  <1> HIDE DEF f
  <1>3. /\ Len(stack') = Len(stack) /\ stack'[Len(stack)] = f
        /\ \A k \in 1..Len(stack) : k # Len(stack) => stack'[k] = stack[k]
    BY <1>1, <1>2, BecomesType
  <1>4. Works(f) /\ Works(Top)
    BY <1>1, <1>2 DEF Works
  <1>5. Chained(next, Top) /\ Covers(tails, Top)
    BY <1>1 DEF Trailing, Held, Top
  <1>6. /\ Top.head \in Id /\ Top.head # Top.prev /\ next[Top.prev] # None
        /\ Top.from \in Id /\ Top.head \in Below(next, Top.from)
    BY <1>1, <1>5 DEF Handlers, Frames, Follow, Top, Chained
  <1>7. Top.tail \in Client
    BY <1>1 DEF Handlers, Frames, Follow, Top
  <1>8. PICK c \in Client : c = Top.tail
    BY <1>7
  <1>9. Len(stack) \in {1, 2}
    <2>1. \A n \in Nat \ {0} : n <= 2 => n \in {1, 2}
      OBVIOUS
    <2> QED
      BY <1>1, <2>1 DEF Handlers, Nesting
  <1>10. CASE Overtaken(c)
    <2>1. tails' = tails /\ ~ (Lives(tails, c) /\ tails[c].at = Top.from)
      BY <1>8, <1>10 DEF Attached, Overtaken, Lives, IsOpen
    <2>2. ASSUME NEW d \in Client, Lives(tails, d), Handling(tails, Top, d)
          PROVE  Handling(tails, f, d)
      BY <1>2, <1>8, <2>1, <2>2 DEF Handling
    <2>3. Chained(next, f) /\ Covers(tails, f)
      BY <1>2, <1>4, <1>5, <2>2 DEF Chained, Covers
    <2>4. ASSUME NEW k \in 1..Len(stack')
          PROVE  Chained(next', stack'[k]) /\ Covers(tails', stack'[k])
      <3>1. CASE k = Len(stack)
        BY <1>1, <1>3, <2>1, <2>3, <3>1
      <3>2. CASE k # Len(stack)
        BY <1>1, <1>3, <2>1, <3>2 DEF Trailing, Held
      <3> QED
        BY <3>1, <3>2
    <2>5. InnerEnd'
      BY <1>1, <1>2, <1>3, <1>4 DEF Trailing, InnerEnd, Top
    <2>6. ASSUME NEW d \in Client, Outrun(next', tails', stack'[1], d)
          PROVE  Len(stack') = 2 /\ Works(stack'[2]) /\ Handling(tails', stack'[2], d)
      <3>1. CASE Len(stack) = 1
        <4>1. stack'[1] = f /\ Top = stack[1]
          BY <1>3, <3>1 DEF Top
        <4>2. Outrun(next, tails, stack[1], d)
          BY <1>1, <1>2, <1>4, <2>1, <2>6, <4>1 DEF Outrun
        <4> QED
          BY <1>1, <3>1, <4>2 DEF Trailing, TakenOver
      <3>2. CASE Len(stack) = 2
        <4>1. Len(stack') = 2 /\ stack'[2] = f /\ stack'[1] = stack[1] /\ Top = stack[2]
          BY <1>3, <3>2 DEF Top
        <4>2. Outrun(next, tails, stack[1], d) /\ Lives(tails, d)
          BY <1>1, <2>1, <2>6, <4>1 DEF Outrun
        <4>3. Handling(tails, Top, d)
          BY <1>1, <4>1, <4>2 DEF Trailing, TakenOver
        <4>4. Handling(tails, f, d)
          BY <2>2, <4>2, <4>3
        <4> QED
          BY <1>4, <2>1, <4>1, <4>4
      <3> QED
        BY <1>9, <3>1, <3>2
    <2>7. NoneBehind'
      BY <1>1, <2>1 DEF Trailing, NoneBehind, Placed, Lives
    <2> QED
      BY <2>4, <2>5, <2>6, <2>7 DEF Trailing, Held, TakenOver
  <1>11. CASE ~Overtaken(c)
    <2>1. tails' = [tails EXCEPT ![c] = [@ EXCEPT !.at = Top.head, !.deaf = Top.failed]]
      BY <1>8, <1>11 DEF Attached
    <2>2. Lives(tails, c) /\ tails[c].at = Top.from
      BY <1>8, <1>11 DEF Overtaken, Lives, IsOpen
    <2>3. /\ tails'[c].at = Top.head
          /\ \A d \in Client : d # c => tails'[d] = tails[d]
      <3>1. \A t \in TailState : [t EXCEPT !.at = Top.head, !.deaf = Top.failed].at = Top.head
        BY DEF TailState
      <3>2. tails'[c] = [tails[c] EXCEPT !.at = Top.head, !.deaf = Top.failed] /\ tails[c] \in TailState
        BY <1>1, <2>1
      <3> HIDE DEF TailState
      <3> QED
        BY <1>1, <2>1, <3>1, <3>2
    <2>4. ASSUME NEW d \in Client, d # c, Lives(tails', d)
          PROVE  Lives(tails, d) /\ tails'[d].at = tails[d].at
      BY <2>3, <2>4 DEF Lives
    <2>5. ASSUME NEW d \in Client, d # c, Handling(tails, Top, d)
          PROVE  Handling(tails', f, d)
      BY <1>2, <1>8, <2>5 DEF Handling
    <2>6. Covers(tails', f) /\ Chained(next, f)
      BY <1>2, <1>4, <1>5, <1>6, <2>3, <2>4, <2>5 DEF Covers, Chained
    <2>7. ASSUME Len(stack) = 2
          PROVE  Covers(tails', stack[1])
      <3>1. /\ Top = stack[2] /\ next[Top.head] = None /\ next[stack[1].prev] # None
        BY <1>4, <2>7, InnerFacts DEF Top
      <3>2. Covers(tails, stack[1])
        BY <1>1, <2>7 DEF Trailing, Held
      <3>3. ASSUME NEW d \in Client, Works(stack[1]), Lives(tails', d), tails'[d].at = stack[1].prev
            PROVE  Handling(tails', stack[1], d)
        <4>1. d # c
          BY <2>3, <3>1, <3>3
        <4>2. Lives(tails, d) /\ tails[d].at = stack[1].prev
          BY <2>4, <3>3, <4>1
        <4>3. Handling(tails, stack[1], d)
          BY <3>2, <3>3, <4>2 DEF Covers
        <4> QED
          BY <2>3, <4>1, <4>3 DEF Handling
      <3> QED
        BY <3>3 DEF Covers
    <2>8. ASSUME NEW k \in 1..Len(stack')
          PROVE  Chained(next', stack'[k]) /\ Covers(tails', stack'[k])
      <3>1. CASE k = Len(stack)
        BY <1>1, <1>3, <2>6, <3>1
      <3>2. CASE k # Len(stack)
        <4>1. k = 1 /\ Len(stack) = 2
          <5>1. \A n \in {1, 2} : \A m \in 1..n : m # n => m = 1 /\ n = 2
            OBVIOUS
          <5> QED
            BY <1>3, <1>9, <3>2, <5>1
        <4>2. Chained(next, stack[1]) /\ stack'[1] = stack[1]
          BY <1>1, <1>3, <4>1 DEF Trailing, Held
        <4> QED
          BY <1>1, <2>7, <4>1, <4>2
      <3> QED
        BY <3>1, <3>2
    <2>9. InnerEnd'
      BY <1>1, <1>2, <1>3, <1>4 DEF Trailing, InnerEnd, Top
    <2>10. Len(stack) = 1 => next[Top.head] = None
      <3> SUFFICES ASSUME Len(stack) = 1, next[Top.head] # None PROVE FALSE
        OBVIOUS
      <3>1. Top = stack[1]
        BY DEF Top
      <3>2. Outrun(next, tails, stack[1], c)
        BY <1>4, <1>6, <2>2, <3>1 DEF Outrun
      <3> QED
        BY <1>1, <3>2 DEF Trailing, TakenOver
    <2>11. Len(stack) = 2 => next[Top.head] = None /\ stack[1].head \notin Below(next, Top.head) /\ Top = stack[2]
      BY <1>4, InnerFacts DEF Top
    <2>12. ASSUME NEW d \in Client, Outrun(next', tails', stack'[1], d)
           PROVE  Len(stack') = 2 /\ Works(stack'[2]) /\ Handling(tails', stack'[2], d)
      <3>1. CASE Len(stack) = 1
        <4>1. stack'[1] = f
          BY <1>3, <3>1
        <4> QED
          BY <1>1, <1>2, <2>10, <2>12, <3>1, <4>1 DEF Outrun
      <3>2. CASE Len(stack) = 2
        <4>1. Len(stack') = 2 /\ stack'[2] = f /\ stack'[1] = stack[1]
          BY <1>3, <3>2
        <4>2. d # c
          BY <1>1, <2>3, <2>11, <2>12, <3>2, <4>1 DEF Outrun
        <4>3. Outrun(next, tails, stack[1], d)
          BY <1>1, <2>4, <2>12, <4>1, <4>2 DEF Outrun
        <4>4. Handling(tails, Top, d)
          BY <1>1, <2>11, <3>2, <4>3 DEF Trailing, TakenOver
        <4> QED
          BY <1>4, <2>5, <4>1, <4>2, <4>4
      <3> QED
        BY <1>9, <3>1, <3>2
    <2>13. NoneBehind'
      <3>1. next[Top.head] = None
        BY <1>9, <2>10, <2>11
      <3>2. Top.head \notin retired
        BY <3>1 DEF Handlers, Superseded
      <3> QED
        BY <1>1, <1>6, <2>3, <3>2 DEF Trailing, NoneBehind, Placed, Lives
    <2> QED
      BY <2>8, <2>9, <2>12, <2>13 DEF Trailing, Held, TakenOver
  <1> QED
    BY <1>10, <1>11

LEMMA RetireTrails ==
  ASSUME TypeOK, Handlers, EveryIdResolves, Trailing, Retire
  PROVE  Trailing'
  <1>1. /\ stack \in Seq(Frame) /\ Len(stack) \in Nat \ {0} /\ Top \in Frame /\ stack # <<>>
        /\ Len(stack) \in 1..Len(stack)
        /\ Top.pc = "rekey" /\ next \in Links /\ next' = next /\ tails' = tails
        /\ retired' = retired \cup {Top.prev} /\ Top.prev \in Id
    BY TopType DEF TypeOK, Retire, TopAt, Links, Frame
  <1>2. Works(Top) /\ Chained(next, Top) /\ Covers(tails, Top) /\ Top.head # Top.prev
    BY <1>1 DEF Trailing, Held, Top, Works, Handlers, Frames, Follow
  <1>3. ASSUME NEW d \in Client, Lives(tails, d), Handling(tails, Top, d),
               Top.head \in Below(next, tails[d].at), next[Top.head] = None
        PROVE  tails[d].at = Top.head
    <2>1. tails[d].at \in Id
      BY <1>3 DEF Trailing, NoneBehind, Placed, Lives
    <2>2. Heads(next, tails[d].at) = {Top.head}
      BY <1>1, <1>3, <2>1, HeadIsEnd DEF EveryIdResolves
    <2>3. d \in Top.todo
      BY <1>1, <1>3 DEF Handling
    <2>4. ~Follows(d)
      BY DEF Retire
    <2> QED
      BY <1>3, <2>2, <2>3, <2>4 DEF Follows, IsOpen, Lives
  <1>4. ASSUME NEW d \in Client, Lives(tails, d), tails[d].at # tails[d].missed
        PROVE  tails[d].at \notin retired'
    <2> SUFFICES ASSUME tails[d].at = Top.prev PROVE FALSE
      BY <1>1, <1>4 DEF Trailing, NoneBehind
    <2>1. Handling(tails, Top, d)
      BY <1>2, <1>4 DEF Covers
    <2>2. Top.head \in Below(next, tails[d].at)
      BY <1>2 DEF Chained
    <2>3. next[Top.head] = None
      <3> SUFFICES ASSUME next[Top.head] # None PROVE FALSE
        OBVIOUS
      <3>1. CASE Len(stack) = 2
        BY <1>2, <3>1, InnerFacts DEF Top
      <3>2. CASE Len(stack) = 1
        <4>1. Outrun(next, tails, stack[1], d)
          BY <1>2, <1>4, <2>2, <3>2 DEF Outrun, Top
        <4> QED
          BY <1>1, <3>2, <4>1 DEF Trailing, TakenOver
      <3>3. Len(stack) \in {1, 2}
        <4>1. \A n \in Nat \ {0} : n <= 2 => n \in {1, 2}
          OBVIOUS
        <4> QED
          BY <1>1, <4>1 DEF Handlers, Nesting
      <3> QED
        BY <3>1, <3>2, <3>3
    <2> QED
      BY <1>2, <1>3, <1>4, <2>1, <2>2, <2>3
  <1>5. ASSUME Len(stack) = 2, NEW d \in Client, Outrun(next, tails, stack[1], d)
        PROVE  FALSE
    <2>1. /\ Top = stack[2] /\ stack[1].head = Top.prev /\ next[Top.head] = None
          /\ stack[1].head \notin Below(next, Top.head)
          /\ Top.head \in Below(next, stack[1].head)
      BY <1>2, <1>5, InnerFacts DEF Top
    <2>2. Lives(tails, d) /\ stack[1].head \in Below(next, tails[d].at)
      BY <1>5 DEF Outrun
    <2>3. Handling(tails, Top, d)
      BY <1>1, <1>5, <2>1 DEF Trailing, TakenOver
    <2>4. tails[d].at \in Id
      BY <2>2 DEF Trailing, NoneBehind, Placed, Lives
    <2>5. Top.head \in Below(next, tails[d].at)
      BY <1>1, <2>1, <2>2, <2>4, BelowFacts
    <2> QED
      BY <1>3, <2>1, <2>2, <2>3, <2>5
  <1> QED
    BY <1>1, <1>4, <1>5, OverTrails DEF Handlers, Retire

LEMMA DroppedTrails ==
  ASSUME TypeOK, Nesting, EveryIdResolves', Trailing, Dropped \/ Return
  PROVE  Trailing'
  <1>1. /\ stack # <<>> /\ Len(stack) \in 1..Len(stack) /\ tails' = tails /\ retired' = retired
        /\ ~Works(Top) /\ Top.prev \in Id /\ Top.next \in Id
    BY TopType DEF TypeOK, Dropped, Return, TopAt, Works, Frame
  <1>2. next' = next
    <2> SUFFICES ASSUME Dropped, next' # next PROVE FALSE
      BY DEF Return
    <2>1. next' = Linked(Top.prev, Top.next) /\ ~Accepts(Top.prev, Top.next)
      BY DEF Dropped
    <2>2. Writes(Top.prev, Top.next)
      BY <2>1 DEF Linked
    <2>3. Heads(Linked(Top.prev, Top.next), Top.prev) # {}
      BY <1>1, <2>1 DEF EveryIdResolves
    <2> QED
      BY <2>1, <2>2, <2>3 DEF Accepts
  <1>3. Len(stack) = 2 => \A d \in Client : ~Outrun(next, tails, stack[1], d)
    BY <1>1 DEF Trailing, TakenOver, Top
  <1> QED
    BY <1>1, <1>2, <1>3, OverTrails DEF Trailing, NoneBehind, Placed, Lives, Dropped, Return

LEMMA StepTrails ==
  TypeOK /\ TypeOK' /\ Handlers /\ EveryIdResolves /\ EveryIdResolves' /\ Trailing /\ [Next]_vars => Trailing'
  <1> SUFFICES ASSUME TypeOK, TypeOK', Handlers, EveryIdResolves, EveryIdResolves', Trailing, [Next]_vars
               PROVE  Trailing'
    OBVIOUS
  <1>1. CASE UNCHANGED <<stack, next, retired, tails>>
    BY <1>1 DEF Trailing, Held, InnerEnd, TakenOver, NoneBehind, Placed, Lives
  <1>2. CASE stack' = <<>> /\ NoneBehind'
    BY <1>2 DEF Trailing, Held, InnerEnd, TakenOver
  <1>3. CASE Restart
    <2>1. stack' = <<>> /\ \A c \in Client : tails'[c].st = "none"
      BY <1>3 DEF Restart, Fresh
    <2> QED
      BY <1>2, <2>1 DEF NoneBehind, Placed, Lives
  <1>4. CASE Recorded
    <2>1. Top.next \in Id
      BY <1>4, TopType DEF TypeOK, Recorded, TopAt, Frame
    <2>2. Heads(next', Top.next) # {}
      BY <2>1 DEF EveryIdResolves
    <2> QED
      BY <1>4, <2>2, RecordedTrails DEF Recorded, Handlers
  <1>5. CASE ApplyCrumb
    BY <1>2, <1>5 DEF ApplyCrumb, Trailing, NoneBehind, Placed, Lives
  <1>6. ASSUME NEW c \in Client,
               (\E i \in Id : Subscribe(c, i)) \/ Subscribed(c) \/ Unsubscribe(c)
        PROVE  Trailing'
    <2>1. /\ stack' = <<>> /\ retired' = retired /\ tails \in [Client -> TailState]
      BY <1>6 DEF Subscribe, Subscribed, Unsubscribe, Idle, TypeOK
    <2>2. ASSUME NEW i \in Id, Subscribe(c, i)
          PROVE  NoneBehind'
      <3>1. PICK h \in Heads(next, i), q \in Room \cup {None} :
              tails' = [tails EXCEPT ![c] = [Fresh EXCEPT !.st = "opening", !.at = h, !.room = q]]
        BY <2>2 DEF Subscribe
      <3>2. h \in Id
        BY HeadsType
      <3>3. /\ tails'[c].at = h /\ tails'[c].st = "opening"
            /\ \A d \in Client : d # c => tails'[d] = tails[d]
        BY <2>1, <3>1 DEF Fresh
      <3> QED
        BY <2>1, <3>2, <3>3 DEF Trailing, NoneBehind, Placed, Lives
    <2>3. ASSUME Subscribed(c)
          PROVE  NoneBehind'
      <3>1. /\ tails[c].st = "opening" /\ tails'[c].st = "open" /\ tails'[c].at = tails[c].at
            /\ tails'[c].missed = IF next[tails[c].at] = None THEN None ELSE tails[c].at
            /\ \A d \in Client : d # c => tails'[d] = tails[d]
        BY <2>1, <2>3 DEF Subscribed, Opening, TailState
      <3>2. tails[c].at \in Id
        BY <3>1 DEF Trailing, NoneBehind, Placed
      <3>3. tails'[c].at # tails'[c].missed => tails'[c].at \notin retired
        BY <3>1, <3>2 DEF Handlers, Superseded
      <3> QED
        BY <2>1, <3>1, <3>2, <3>3 DEF Trailing, NoneBehind, Placed, Lives
    <2>4. ASSUME Unsubscribe(c)
          PROVE  NoneBehind'
      <3>1. tails' = [tails EXCEPT ![c].st = "closed"]
        BY <2>4 DEF Unsubscribe
      <3>2. tails'[c].st = "closed" /\ \A d \in Client : d # c => tails'[d] = tails[d]
        BY <2>1, <3>1 DEF TailState
      <3> QED
        BY <2>1, <3>2 DEF Trailing, NoneBehind, Placed, Lives
    <2> QED
      BY <1>2, <1>6, <2>1, <2>2, <2>3, <2>4
  <1>7. CASE Dropped \/ Return
    BY <1>7, DroppedTrails DEF Handlers
  <1>8. CASE Retire
    BY <1>8, RetireTrails
  <1>9. CASE Attached
    BY <1>9, AttachedTrails
  <1> QED
    BY <1>1, <1>3, <1>4, <1>5, <1>6, <1>7, <1>8, <1>9, AnnouncedTrails, TellTrails, MoveTrails
       DEF Next, vars, Switch, ReadCrumbs, Handlers

\* While every id resolves, no live tail stays on an id that was reported ended, whatever
\* rotates from inside the subscribe that moves a tail, leaves, refuses or is told again
\* late. The exception is in NoTailLeftBehind: rekey does not find a tail while the subscribe
\* that opens it runs, and a rotation from inside that one leaves the tail where it was.
THEOREM TailsMoveOn == Spec /\ []EveryIdResolves => []NoTailLeftBehind
  <1>1. Init => Trailing
    BY DEF Init, Trailing, Held, InnerEnd, TakenOver, NoneBehind, Placed, Lives, Fresh
  <1>2. Trailing => NoTailLeftBehind
    BY DEF Trailing, NoneBehind, NoTailLeftBehind, Lives, IsOpen
  <1> QED
    BY <1>1, <1>2, StepTrails, StepHandlers, InitHandlers, TypeCorrect, PTL DEF Spec

----------------------------------------------------------------------------
(* As long as the ids are no more than the cap of the walk, every id       *)
(* resolves.                                                               *)

\* A walk that has come to an end stays there, and one that has not visits no id twice.
LEMMA WalkAhead ==
  ASSUME NEW nx \in Links, NEW w \in [Nat -> Id],
         \A n \in Nat : n # 0 => w[n] = IF nx[w[n - 1]] = None THEN w[n - 1] ELSE nx[w[n - 1]],
         NEW n \in Nat
  PROVE  \A m \in Nat : n <= m => /\ w[m] \in Below(nx, w[n])
                                  /\ nx[w[n]] = None => w[m] = w[n]
  <1> DEFINE Past(m) == w[m] \in Below(nx, w[n]) /\ (nx[w[n]] = None => w[m] = w[n])
             T == {m \in Nat : n <= m /\ ~Past(m)}
  <1>1. SUFFICES ASSUME T # {} PROVE FALSE
    <2>1. \A m \in Nat : n <= m => Past(m)
      <3> HIDE DEF Past
      <3> QED
        OBVIOUS
    <2> QED
      BY <2>1
  <1>2. PICK m \in T : \A k \in T : m <= k
    <2>1. T \subseteq Nat
      OBVIOUS
    <2> HIDE DEF T
    <2> QED
      BY <1>1, <2>1, LeastOf
  <1>3. m # n
    BY <1>2, BelowFacts
  <1>4. m - 1 \in Nat /\ n <= m - 1 /\ m - 1 \notin T
    BY <1>2, <1>3
  <1>5. w[m - 1] \in Below(nx, w[n]) /\ (nx[w[n]] = None => w[m - 1] = w[n])
    <2>1. Past(m - 1)
      <3> HIDE DEF Past
      <3> QED
        BY <1>4
    <2> QED
      BY <2>1
  <1>6. m # 0
    BY <1>4
  <1>7. w[m] = IF nx[w[m - 1]] = None THEN w[m - 1] ELSE nx[w[m - 1]]
    BY <1>6
  <1>8. w[m] \in Below(nx, w[n])
    <2>1. CASE nx[w[m - 1]] = None
      BY <1>5, <1>7, <2>1
    <2>2. CASE nx[w[m - 1]] # None
      BY <1>4, <1>5, <1>7, <2>2, BelowFacts
    <2> QED
      BY <2>1, <2>2
  <1>9. nx[w[n]] = None => w[m] = w[n]
    BY <1>5, <1>7
  <1> QED
    BY <1>2, <1>8, <1>9

LEMMA ShortResolves ==
  ASSUME NEW nx \in Links, Acyclic(nx), IsFiniteSet(Id), Cardinality(Id) <= MaxDepth, NEW i \in Id
  PROVE  Heads(nx, i) # {}
  <1>1. PICK w \in [Nat -> Id] :
           /\ w[0] = i
           /\ \A n \in Nat : n # 0 =>
                w[n] = IF nx[w[n - 1]] = None THEN w[n - 1] ELSE nx[w[n - 1]]
           /\ Heads(nx, i) = {h \in Id : h = w[MaxDepth - 1] /\ nx[h] = None}
    BY Walked DEF Links
  <1>2. MaxDepth \in Nat \ {0} /\ MaxDepth - 1 \in Nat /\ Cardinality(Id) \in Nat
    BY RegistryAssumption, FS_CardinalityType
  <1> SUFFICES ASSUME nx[w[MaxDepth - 1]] # None PROVE FALSE
    BY <1>1, <1>2
  <1>3. ASSUME NEW n \in 0..(MaxDepth - 1) PROVE nx[w[n]] # None
    <2>1. n \in Nat /\ n <= MaxDepth - 1
      BY <1>2
    <2>2. nx[w[n]] = None => w[MaxDepth - 1] = w[n]
      BY <1>1, <1>2, <2>1, WalkAhead
    <2> QED
      BY <2>2
  <1>4. ASSUME NEW n \in 0..MaxDepth, NEW m \in 0..MaxDepth, n < m PROVE w[n] # w[m]
    <2>1. n \in Nat /\ m \in Nat /\ n \in 0..(MaxDepth - 1) /\ n + 1 \in Nat /\ n + 1 # 0 /\ n + 1 <= m
          /\ (n + 1) - 1 = n
      BY <1>2, <1>4
    <2>2. nx[w[n]] # None
      BY <1>3, <2>1
    <2>3. w[n + 1] = nx[w[n]]
      BY <1>1, <2>1, <2>2
    <2>4. w[m] \in Below(nx, w[n + 1])
      BY <1>1, <2>1, WalkAhead
    <2>5. w[n] \in Id /\ w[n + 1] \in Id
      BY <2>1
    <2>6. w[n] \notin Below(nx, w[n + 1])
      BY <2>3, <2>5, AcyclicBelow
    <2> QED
      BY <2>4, <2>6
  <1> DEFINE S == 0..MaxDepth
             f == [n \in S |-> w[n]]
  <1>5. IsFiniteSet(S) /\ Cardinality(S) = MaxDepth + 1
    <2>1. 0 \in Int /\ MaxDepth \in Int /\ ~ (0 > MaxDepth) /\ MaxDepth - 0 + 1 = MaxDepth + 1
      BY <1>2
    <2> QED
      BY <2>1, FS_Interval
  <1>6. f \in [S -> Id]
    BY <1>2
  <1>7. Cardinality(Id) < Cardinality(S)
    BY <1>2, <1>5
  <1>8. PICK x \in S, y \in S : x # y /\ f[x] = f[y]
    <2> HIDE DEF S, f
    <2> QED
      BY <1>5, <1>6, <1>7, FS_PigeonHole
  <1>9. x < y \/ y < x
    BY <1>2, <1>8
  <1> QED
    BY <1>4, <1>8, <1>9

\* The cap cuts no chain while the harness has had no more ids than the cap: every id
\* resolves.
THEOREM ShortChains ==
  IsFiniteSet(Id) /\ Cardinality(Id) <= MaxDepth => (Spec => []EveryIdResolves)
  <1> SUFFICES ASSUME IsFiniteSet(Id), Cardinality(Id) <= MaxDepth
               PROVE  Spec => []EveryIdResolves
    OBVIOUS
  <1>1. TypeOK /\ AliasesAcyclic => EveryIdResolves
    BY ShortResolves DEF TypeOK, Links, AliasesAcyclic, Acyclic, EveryIdResolves
  <1> QED
    BY <1>1, NoCycle, TypeCorrect, PTL

----------------------------------------------------------------------------
(* Rotations are handed in the order of the chain, as long as no alias was *)
(* restored. What a tail was handed lies behind it, or is what a handler   *)
(* that has it in hand is moving it along; a rotation that is told before  *)
(* it is recorded is the one of the innermost handler.                     *)

Link(f) == <<f.prev, f.next>>
Made(nx, l) == nx[l[1]] = l[2]
\* It may be recorded yet.
Unmade(nx, im, l) == nx[l[1]] = None /\ l[1] \notin im /\ l[1] \notin Below(nx, l[2])
\* The tail missed a rotation while it was opening: nothing is said of it. What was handed
\* to the other ones, and which of those are served.
Aside(nx, tl, c) == IF tl[c].st = "opening" THEN nx[tl[c].at] # None ELSE tl[c].missed # None
Handed(nx, tl, c) == IF Aside(nx, tl, c) THEN <<>> ELSE tl[c].got
Got(nx, tl, c) == {Handed(nx, tl, c)[j] : j \in 1..Len(Handed(nx, tl, c))}
Serves(nx, tl, c) == tl[c].st \in {"opening", "open"} /\ ~Aside(nx, tl, c)

InHand(nx, tl, f, c) == Works(f) /\ Handling(tl, f, c) /\ f.prev \in Below(nx, tl[c].at)
Backed(nx, im, f) ==
  /\ Works(f) => nx[f.prev] = f.next /\ f.head \in Below(nx, f.next)
  /\ f.pc = "tellLate" => ~Unmade(nx, im, Link(f))
InOrder(nx, g) ==
  \A j, k \in 1..Len(g) : j < k /\ Made(nx, g[j]) /\ Made(nx, g[k]) => g[k][2] \in Below(nx, g[j][2])
NewestLast(nx, im, g) ==
  \A j, k \in 1..Len(g) : Unmade(nx, im, g[j]) /\ Made(nx, g[k]) => k < j
\* What is told of a rotation that is recorded already, and of one that may be.
ReadyFor(nx, im, tl, f, c) ==
  /\ Made(nx, Link(f)) =>
       /\ \A l \in Got(nx, tl, c) : Made(nx, l) => f.next \in Below(nx, l[2])
       /\ Serves(nx, tl, c) => tl[c].at \in Below(nx, f.next)
  /\ Unmade(nx, im, Link(f)) =>
       /\ \A l \in Got(nx, tl, c) : Made(nx, l) => f.prev \in Below(nx, l[2])
       /\ Serves(nx, tl, c) => f.prev \in Below(nx, tl[c].at)
\* The tail that an outer handler is attaching.
OuterOk(nx, tl, f) ==
  /\ \A l \in Got(nx, tl, f.tail) : Made(nx, l) => f.head \in Below(nx, l[2]) \/ l[1] = f.head
  /\ Serves(nx, tl, f.tail) =>
       \/ tl[f.tail].at = f.from
       \/ nx[f.head] # None /\ tl[f.tail].at \in Below(nx, nx[f.head])

Frozen == \A i \in immutable : next[i] = None
Linking == \A k \in 1..Len(stack) : Backed(next, immutable, stack[k])
Kept == \A c \in Client : Serves(next, tails, c) /\ next[tails[c].at] # None
                            => \E k \in 1..Len(stack) : InHand(next, tails, stack[k], c)
Reaching ==
  \A c \in Client : Serves(next, tails, c) =>
    \A l \in Got(next, tails, c) : Made(next, l) =>
      \/ tails[c].at \in Below(next, l[2])
      \/ \E k \in 1..Len(stack) : InHand(next, tails, stack[k], c) /\ l = Link(stack[k])
Ordered == \A c \in Client : /\ InOrder(next, Handed(next, tails, c))
                             /\ NewestLast(next, immutable, Handed(next, tails, c))
Announcing ==
  \A c \in Client : \A l \in Got(next, tails, c) : Unmade(next, immutable, l) =>
    /\ TopAt("tell") /\ l = Link(Top)
    /\ Serves(next, tails, c) => Top.prev \in Below(next, tails[c].at)
    /\ \A m \in Got(next, tails, c) : Made(next, m) => Top.prev \in Below(next, m[2])
Outer == stack # <<>> /\ stack[1].pc = "attach" => OuterOk(next, tails, stack[1])
Ready == TopAt("tell") \/ TopAt("tellLate")
           => \A c \in Top.todo : ReadyFor(next, immutable, tails, Top, c)

Sequenced == /\ Frozen /\ Linking /\ Kept /\ Reaching /\ Ordered
             /\ Announcing /\ Outer /\ Ready

\* The ground facts.
LEMMA Grounds ==
  ASSUME TypeOK
  PROVE  /\ stack \in Seq(Frame) /\ tails \in [Client -> TailState] /\ next \in Links
         /\ sinks \in [Client -> SUBSET Id]
         /\ \A c \in Client : /\ Got(next, tails, c) \subseteq Key
                               /\ Handed(next, tails, c) \in Seq(Key) /\ tails[c].got \in Seq(Key)
  <1>1. \A c \in Client : tails[c].got \in Seq(Key) /\ Handed(next, tails, c) \in Seq(Key)
    BY DEF TypeOK, TailState, Handed
  <1>2. \A c \in Client : Got(next, tails, c) \subseteq Key
    BY <1>1 DEF Got
  <1> QED
    BY <1>1, <1>2 DEF TypeOK, Links

LEMMA OneOrTwo ==
  ASSUME TypeOK, Nesting, stack # <<>>
  PROVE  /\ Len(stack) \in {1, 2} /\ Len(stack) \in 1..Len(stack) /\ Top \in Frame
         /\ Top.prev \in Id /\ Top.next \in Id /\ Link(Top) \in Key /\ Top.next # None
         /\ Len(stack) = 2 => /\ stack[1] \in Frame /\ stack[1].pc = "attach" /\ Works(stack[1])
                              /\ Top.prev = stack[1].head /\ Top = stack[2]
         /\ Len(stack) = 1 => Top = stack[1]
  <1>1. stack \in Seq(Frame) /\ Len(stack) \in Nat \ {0} /\ Len(stack) <= 2 /\ Top \in Frame
        /\ Len(stack) \in 1..Len(stack)
    BY TopType DEF TypeOK, Nesting
  <1>2. Len(stack) \in {1, 2}
    <2>1. \A n \in Nat \ {0} : n <= 2 => n \in {1, 2}
      OBVIOUS
    <2> QED
      BY <1>1, <2>1
  <1>3. Top.prev \in Id /\ Top.next \in Id /\ Link(Top) \in Key /\ Top.next # None
    BY <1>1, RegistryAssumption DEF Frame, Link, Key
  <1>4. Len(stack) = 2 => stack[1] \in Frame
    BY <1>1
  <1> QED
    BY <1>1, <1>2, <1>3, <1>4 DEF Nesting, Top, Works

LEMMA Onward ==
  ASSUME NEW nx \in Links, NEW i \in Id, NEW j \in Below(nx, i)
  PROVE  /\ j \in Id
         /\ \A k \in Below(nx, j) : k \in Below(nx, i)
         /\ nx[j] # None => nx[j] \in Id /\ nx[j] \in Below(nx, i)
  BY BelowFacts DEF Below, Links

LEMMA NoWayBack ==
  ASSUME NEW nx \in Links, Acyclic(nx), NEW i \in Id, NEW j \in Id, nx[i] = j, NEW k \in Below(nx, j)
  PROVE  i \notin Below(nx, k)
  BY AcyclicBelow, BelowFacts

\* One more rotation is handed to a client.
LEMMA AppendOrdered ==
  ASSUME NEW nx \in Links, NEW im, NEW g \in Seq(Key), NEW l \in Key,
         InOrder(nx, g), NewestLast(nx, im, g),
         \A j \in 1..Len(g) : Made(nx, l) => /\ Made(nx, g[j]) => l[2] \in Below(nx, g[j][2])
                                             /\ ~Unmade(nx, im, g[j])
  PROVE  InOrder(nx, Append(g, l)) /\ NewestLast(nx, im, Append(g, l))
  <1> DEFINE h == Append(g, l)
  <1>1. /\ Len(h) = Len(g) + 1 /\ h[Len(g) + 1] = l /\ Len(g) \in Nat
        /\ \A j \in 1..Len(g) : h[j] = g[j]
    OBVIOUS
  <1>2. \A j \in 1..Len(h) : j \in 1..Len(g) \/ j = Len(g) + 1
    BY <1>1
  <1> HIDE DEF h
  <1>3. ASSUME NEW j \in 1..Len(h), NEW k \in 1..Len(h), j < k, Made(nx, h[j]), Made(nx, h[k])
        PROVE  h[k][2] \in Below(nx, h[j][2])
    <2>1. j \in 1..Len(g)
      BY <1>1, <1>3
    <2>2. CASE k \in 1..Len(g)
      BY <1>1, <1>3, <2>1, <2>2 DEF InOrder
    <2>3. CASE k = Len(g) + 1
      BY <1>1, <1>3, <2>1, <2>3
    <2> QED
      BY <1>2, <2>2, <2>3
  <1>4. ASSUME NEW j \in 1..Len(h), NEW k \in 1..Len(h), Unmade(nx, im, h[j]), Made(nx, h[k])
        PROVE  k < j
    <2>1. CASE j \in 1..Len(g) /\ k \in 1..Len(g)
      BY <1>1, <1>4, <2>1 DEF NewestLast
    <2>2. CASE j \in 1..Len(g) /\ k = Len(g) + 1
      BY <1>1, <1>4, <2>2
    <2>3. CASE j = Len(g) + 1 /\ k \in 1..Len(g)
      BY <1>1, <2>3
    <2>4. CASE j = Len(g) + 1 /\ k = Len(g) + 1
      <3>1. nx[l[1]] = None /\ nx[l[1]] = l[2] /\ l[2] \in Id
        BY <1>1, <1>4, <2>4 DEF Made, Unmade, Key
      <3> QED
        BY <3>1, RegistryAssumption
    <2> QED
      BY <1>2, <2>1, <2>2, <2>3, <2>4
  <1> QED
    BY <1>3, <1>4 DEF InOrder, NewestLast, h

LEMMA HandedOrdered ==
  ASSUME TypeOK, Ordered, NEW c \in Client, NEW key \in Key, NEW b \in BOOLEAN, HandTo(c, key, b),
         Made(next, key) => \A m \in Got(next, tails, c) :
           (Made(next, m) => key[2] \in Below(next, m[2])) /\ ~Unmade(next, immutable, m)
  PROVE  /\ \A d \in Client : /\ InOrder(next, Handed(next, tails', d))
                               /\ NewestLast(next, immutable, Handed(next, tails', d))
         /\ \A d \in Client : d # c => tails'[d] = tails[d]
         /\ \A d \in Client : d # c => Got(next, tails', d) = Got(next, tails, d)
         /\ Got(next, tails', c) \subseteq Got(next, tails, c) \cup {key}
         /\ \A d \in Client : tails'[d].at = tails[d].at
         /\ \A d \in Client : Aside(next, tails', d) <=> Aside(next, tails, d)
         /\ \A d \in Client : Serves(next, tails', d) => Serves(next, tails, d)
         /\ Serves(next, tails', c) => ~b
  <1>1. /\ tails \in [Client -> TailState] /\ next \in Links /\ tails[c].got \in Seq(Key)
    BY Grounds
  <1>2. /\ \A d \in Client : d # c => tails'[d] = tails[d]
        /\ tails'[c].at = tails[c].at /\ tails'[c].missed = tails[c].missed
        /\ tails'[c].st = IF b THEN "closed" ELSE tails[c].st
        /\ tails'[c].got = IF Knows(c, key) THEN tails[c].got ELSE Append(tails[c].got, key)
    BY <1>1, HandedType
  <1>3. /\ \A d \in Client : tails'[d].at = tails[d].at
        /\ \A d \in Client : Aside(next, tails', d) <=> Aside(next, tails, d)
        /\ \A d \in Client : Serves(next, tails', d) => Serves(next, tails, d)
        /\ Serves(next, tails', c) => ~b
    <2>1. b => tails[c].st = "open"
      BY DEF HandTo, IsOpen
    <2> QED
      BY <1>2, <2>1 DEF Serves, Aside
  <1>4. \A d \in Client : d # c => /\ Handed(next, tails', d) = Handed(next, tails, d)
                                   /\ Got(next, tails', d) = Got(next, tails, d)
    BY <1>2, <1>3 DEF Handed, Got
  <1>5. CASE Handed(next, tails', c) = Handed(next, tails, c)
    BY <1>2, <1>3, <1>4, <1>5 DEF Ordered, Got
  <1>6. CASE ~Aside(next, tails, c) /\ tails'[c].got = Append(tails[c].got, key)
    <2> DEFINE g == tails[c].got
    <2>1. /\ Handed(next, tails, c) = g /\ Handed(next, tails', c) = Append(g, key)
          /\ \A j \in 1..Len(g) : g[j] \in Got(next, tails, c)
      BY <1>3, <1>6 DEF Got, Handed
    <2>2. InOrder(next, Append(g, key)) /\ NewestLast(next, immutable, Append(g, key))
      BY <1>1, <2>1, AppendOrdered DEF Ordered
    <2>3. \A j \in 1..Len(Append(g, key)) : Append(g, key)[j] \in Got(next, tails, c) \cup {key}
      <3>1. Len(Append(g, key)) = Len(g) + 1 /\ Append(g, key)[Len(g) + 1] = key /\ Len(g) \in Nat
            /\ \A j \in 1..Len(g) : Append(g, key)[j] = g[j]
        BY <1>1
      <3>2. \A j \in 1..(Len(g) + 1) : j \in 1..Len(g) \/ j = Len(g) + 1
        BY <3>1
      <3> QED
        BY <2>1, <3>1, <3>2
    <2>4. Got(next, tails', c) \subseteq Got(next, tails, c) \cup {key}
      BY <2>1, <2>3 DEF Got
    <2>5. \A d \in Client : d # c => /\ InOrder(next, Handed(next, tails', d))
                                     /\ NewestLast(next, immutable, Handed(next, tails', d))
      BY <1>4 DEF Ordered
    <2> QED
      BY <1>2, <1>3, <1>4, <2>1, <2>2, <2>4, <2>5
  <1>7. \/ Handed(next, tails', c) = Handed(next, tails, c)
        \/ ~Aside(next, tails, c) /\ tails'[c].got = Append(tails[c].got, key)
    BY <1>2, <1>3 DEF Handed
  <1> QED
    BY <1>5, <1>6, <1>7

\* What a frame on top leaves of the stack.
LEMMA OnTop ==
  ASSUME TypeOK, stack # <<>>, NEW f \in Frame, Becomes(f)
  PROVE  /\ Len(stack') = Len(stack) /\ stack' # <<>> /\ Top' = f
         /\ stack'[Len(stack)] = f
         /\ \A k \in 1..Len(stack) : k # Len(stack) => stack'[k] = stack[k]
  <1>1. stack \in Seq(Frame)
    BY DEF TypeOK
  <1>2. /\ stack' \in Seq(Frame) /\ Len(stack') = Len(stack) /\ stack'[Len(stack)] = f
        /\ \A k \in 1..Len(stack) : k # Len(stack) => stack'[k] = stack[k]
    BY <1>1, BecomesType
  <1>3. stack' # <<>>
    BY <1>1, <1>2, TopType
  <1> QED
    BY <1>2, <1>3 DEF Top

LEMMA NeverBoth ==
  ASSUME NEW nx, NEW im, NEW l \in Key
  PROVE  ~ (Made(nx, l) /\ Unmade(nx, im, l))
  BY RegistryAssumption DEF Key, Made, Unmade

LEMMA TellChain ==
  ASSUME TypeOK, Handlers, Sequenced, NEW c \in Client, NEW leaves \in BOOLEAN, Tell(c, leaves)
  PROVE  Sequenced'
  <1>1. /\ stack # <<>> /\ Top.pc \in {"tell", "tellLate"} /\ c \in Top.todo
        /\ HandTo(c, Link(Top), leaves) /\ next' = next /\ immutable' = immutable
    BY DEF Tell, TopAt, Link
  <1>2. /\ Len(stack) \in {1, 2} /\ Len(stack) \in 1..Len(stack) /\ Top \in Frame
        /\ Link(Top) \in Key
        /\ Len(stack) = 2 => /\ stack[1].pc = "attach" /\ Works(stack[1])
                             /\ Top.prev = stack[1].head /\ Top = stack[2]
        /\ Len(stack) = 1 => Top = stack[1]
    BY <1>1, OneOrTwo DEF Handlers
  <1>3. PICK f \in Frame : /\ Becomes(f) /\ f.pc = Top.pc /\ Link(f) = Link(Top) /\ f.prev = Top.prev
                           /\ f.next = Top.next /\ f.todo = Top.todo \ {c}
    <2> DEFINE g == [Top EXCEPT !.todo = @ \ {c}]
    <2>1. /\ g \in Frame /\ g.pc = Top.pc /\ g.prev = Top.prev /\ g.next = Top.next
          /\ g.todo = Top.todo \ {c}
      BY <1>2 DEF Frame
    <2>2. Becomes(g)
      BY DEF Tell
    <2> HIDE DEF g
    <2> QED
      BY <2>1, <2>2 DEF Link
  <1>4. /\ Len(stack') = Len(stack) /\ stack' # <<>> /\ Top' = f
        /\ stack'[Len(stack)] = f
        /\ \A k \in 1..Len(stack) : k # Len(stack) => stack'[k] = stack[k]
    BY <1>1, <1>3, OnTop
  <1>5. ReadyFor(next, immutable, tails, Top, c)
    BY <1>1 DEF Sequenced, Ready, TopAt
  <1>6. ~Works(f) /\ ~Works(Top) /\ f.pc # "attach"
    BY <1>1, <1>3 DEF Works
  <1>7. \A d \in Client : \A m \in Got(next, tails, d) :
          Unmade(next, immutable, m) => TopAt("tell") /\ m = Link(Top)
    BY DEF Sequenced, Announcing
  <1>8. /\ \A d \in Client : /\ InOrder(next, Handed(next', tails', d))
                              /\ NewestLast(next, immutable, Handed(next', tails', d))
        /\ \A d \in Client : d # c => tails'[d] = tails[d]
        /\ \A d \in Client : d # c => Got(next', tails', d) = Got(next, tails, d)
        /\ Got(next', tails', c) \subseteq Got(next, tails, c) \cup {Link(Top)}
        /\ \A d \in Client : tails'[d].at = tails[d].at
        /\ \A d \in Client : Serves(next', tails', d) => Serves(next, tails, d)
    <2>1. Made(next, Link(Top)) => \A m \in Got(next, tails, c) :
            (Made(next, m) => Link(Top)[2] \in Below(next, m[2])) /\ ~Unmade(next, immutable, m)
      BY <1>2, <1>5, <1>7, NeverBoth DEF ReadyFor, Link
    <2> QED
      BY <1>1, <1>2, <2>1, HandedOrdered DEF Sequenced
  <1>9. \A d \in Client : /\ d # c => Got(next', tails', d) = Got(next, tails, d)
                          /\ Got(next', tails', d) \subseteq Got(next, tails, d) \cup {Link(Top)}
    BY <1>8
  <1>10. ASSUME NEW d \in Client, NEW k \in 1..Len(stack), InHand(next, tails, stack[k], d)
         PROVE  /\ k \in 1..Len(stack') /\ InHand(next', tails', stack'[k], d)
                /\ stack'[k] = stack[k]
    <2>1. k # Len(stack)
      BY <1>6, <1>10 DEF InHand, Top
    <2> QED
      BY <1>1, <1>4, <1>8, <1>10, <2>1 DEF InHand, Handling
  <1>11. Frozen' /\ Linking'
    <2>1. Backed(next, immutable, Top)
      BY <1>2 DEF Sequenced, Linking, Top
    <2>2. Backed(next, immutable, f)
      BY <1>3, <1>6, <2>1 DEF Backed
    <2>3. ASSUME NEW k \in 1..Len(stack') PROVE Backed(next, immutable, stack'[k])
      BY <1>4, <2>2 DEF Sequenced, Linking
    <2> QED
      BY <1>1, <2>3 DEF Sequenced, Frozen, Linking
  <1>12. Kept'
    BY <1>1, <1>8, <1>10 DEF Sequenced, Kept
  <1>13. Reaching'
    <2> SUFFICES ASSUME NEW d \in Client, Serves(next', tails', d), NEW l \in Got(next', tails', d), Made(next, l)
                 PROVE  \/ tails[d].at \in Below(next, l[2])
                        \/ \E k \in 1..Len(stack') : InHand(next', tails', stack'[k], d) /\ l = Link(stack'[k])
      BY <1>1, <1>8 DEF Reaching
    <2>1. CASE l \in Got(next, tails, d)
      BY <1>8, <1>10, <2>1 DEF Sequenced, Reaching
    <2>2. CASE l \notin Got(next, tails, d)
      <3>1. d = c /\ l = Link(Top)
        BY <1>9, <2>2
      <3> QED
        BY <1>5, <1>8, <3>1 DEF ReadyFor, Link
    <2> QED
      BY <2>1, <2>2
  <1>14. Ordered'
    BY <1>1, <1>8 DEF Ordered
  <1>15. Announcing'
    <2> SUFFICES ASSUME NEW d \in Client, NEW l \in Got(next', tails', d), Unmade(next, immutable, l)
                 PROVE  /\ f.pc = "tell" /\ l = Link(f)
                        /\ Serves(next', tails', d) => f.prev \in Below(next, tails[d].at)
                        /\ \A m \in Got(next', tails', d) : Made(next, m) => f.prev \in Below(next, m[2])
      BY <1>1, <1>4, <1>8 DEF Announcing, TopAt
    <2>1. /\ Top.pc = "tell" /\ l = Link(Top)
          /\ Serves(next, tails, d) => Top.prev \in Below(next, tails[d].at)
          /\ \A m \in Got(next, tails, d) : Made(next, m) => Top.prev \in Below(next, m[2])
      <3>1. CASE l \in Got(next, tails, d)
        BY <3>1 DEF Sequenced, Announcing, TopAt
      <3>2. CASE l \notin Got(next, tails, d)
        <4>1. d = c /\ l = Link(Top)
          BY <1>9, <3>2
        <4>2. Top.pc = "tell"
          BY <1>1, <1>2, <4>1 DEF Sequenced, Linking, Backed, Top
        <4> QED
          BY <1>5, <4>1, <4>2 DEF ReadyFor
      <3> QED
        BY <3>1, <3>2
    <2>2. ~Made(next, Link(Top))
      BY <1>2, <2>1, NeverBoth
    <2> QED
      BY <1>3, <1>8, <1>9, <2>1, <2>2
  <1>16. Outer'
    <2> SUFFICES ASSUME stack'[1].pc = "attach" PROVE OuterOk(next, tails', stack'[1])
      BY <1>1 DEF Outer
    <2>1. Len(stack) = 2 /\ stack'[1] = stack[1]
      <3>1. Len(stack) # 1
        BY <1>4, <1>6
      <3> QED
        BY <1>2, <1>4, <3>1
    <2>2. OuterOk(next, tails, stack[1]) /\ Link(Top)[1] = stack[1].head
      BY <1>1, <1>2, <2>1 DEF Sequenced, Outer, Link
    <2>3. stack[1].tail \in Client
      BY <1>2, <2>1 DEF Handlers, Frames, Follow
    <2> QED
      BY <1>1, <1>8, <1>9, <2>1, <2>2, <2>3 DEF OuterOk
  <1>17. Ready'
    <2> SUFFICES ASSUME NEW d \in f.todo PROVE ReadyFor(next, immutable, tails', f, d)
      BY <1>1, <1>4 DEF Ready
    <2>1. d \in Top.todo /\ d # c /\ d \in Client
      BY <1>2, <1>3 DEF Frame
    <2>2. ReadyFor(next, immutable, tails, Top, d)
      BY <1>1, <2>1 DEF Sequenced, Ready, TopAt
    <2>3. tails'[d] = tails[d] /\ Got(next', tails', d) = Got(next, tails, d)
      BY <1>8, <1>9, <2>1
    <2> QED
      BY <1>1, <1>3, <2>2, <2>3 DEF ReadyFor, Serves, Aside
  <1> QED
    BY <1>11, <1>12, <1>13, <1>14, <1>15, <1>16, <1>17 DEF Sequenced

\* The first handler, or the next rotation of the session that is being attached to: there is
\* nothing yet between the tails and the id that is superseded.
LEMMA AnnouncedChain ==
  ASSUME TypeOK, TypeOK', Handlers, Attachments, Trailing, Acyclic(next), Sequenced,
         NEW r \in Room, NEW i \in Id, Announced(r, i)
  PROVE  Sequenced'
  <1>1. /\ UNCHANGED <<next, immutable, tails, sinks>> /\ stack \in Seq(Frame) /\ next \in Links
        /\ MayEmit(r, i)
    BY DEF Announced, TypeOK, Links
  <1>2. CASE UNCHANGED stack
    BY <1>1, <1>2 DEF Sequenced, Frozen, Linking, Kept, Reaching, Ordered, Announcing, Outer, Ready,
       TopAt, Top
  <1>3. ASSUME NEW f, stack' = Append(stack, f), f.pc = "tell", f.prev = roomNative[r], f.next = i,
               f.todo \subseteq ToldAt(f.prev), roomNative[r] # None
        PROVE  Sequenced'
    <2>1. /\ Len(stack') = Len(stack) + 1 /\ stack'[Len(stack) + 1] = f /\ stack' # <<>> /\ Top' = f
          /\ \A k \in 1..Len(stack) : stack'[k] = stack[k]
      BY <1>1, <1>3 DEF Top
    <2>2. /\ f.prev \in Id /\ Link(f) = <<f.prev, i>> /\ Link(f) \in Key
      BY <1>3 DEF TypeOK, Link, Key
    <2>3. Len(stack) \in {0, 1} /\ (Len(stack) = 1 => Top = stack[1])
      BY DEF Announced, MayEmit, Subscribing, Idle, Top
    <2>4. ASSUME NEW c \in Client, NEW l \in Got(next, tails, c) PROVE ~Unmade(next, immutable, l)
      BY <1>1 DEF Sequenced, Announcing, MayEmit, Subscribing, TopAt, Idle
    <2>5. ~Works(f)
      BY <1>3 DEF Works
    <2>6. \A k \in 1..Len(stack') : k \in 1..Len(stack) \/ (k = Len(stack) + 1 /\ stack'[k] = f)
      BY <1>1, <2>1
    <2>7. \A k \in 1..Len(stack) : k \in 1..Len(stack')
      BY <1>1, <2>1
    <2>8. Frozen' /\ Linking' /\ Ordered'
      <3>1. Backed(next, immutable, f)
        BY <1>3, <2>5 DEF Backed
      <3>2. ASSUME NEW k \in 1..Len(stack') PROVE Backed(next, immutable, stack'[k])
        BY <2>1, <2>6, <3>1 DEF Sequenced, Linking
      <3> QED
        BY <1>1, <3>2 DEF Sequenced, Frozen, Linking, Ordered
    <2>9. Kept'
      BY <1>1, <2>1, <2>7 DEF Sequenced, Kept
    <2>10. Reaching'
      BY <1>1, <2>1, <2>7 DEF Sequenced, Reaching
    <2>11. Announcing'
      BY <1>1, <2>4 DEF Announcing
    <2>12. Outer'
      <3>1. CASE Len(stack) = 0
        <4>1. stack'[1] = f
          BY <2>1, <3>1
        <4> QED
          BY <1>3, <4>1 DEF Outer
      <3>2. CASE Len(stack) = 1
        <4>1. stack'[1] = stack[1] /\ stack # <<>>
          BY <2>1, <3>2
        <4> QED
          BY <1>1, <4>1 DEF Sequenced, Outer
      <3> QED
        BY <2>3, <3>1, <3>2
    <2>13. ASSUME NEW c \in Client, f.prev \in sinks[c], ~Aside(next, tails, c)
           PROVE  /\ Made(next, Link(f)) => FALSE
                  /\ Unmade(next, immutable, Link(f)) =>
                       /\ \A l \in Got(next, tails, c) : Made(next, l) => f.prev \in Below(next, l[2])
                       /\ Serves(next, tails, c) => f.prev \in Below(next, tails[c].at)
      <3>1. f.prev \in Below(next, f.prev)
        BY <1>1, <2>2, BelowFacts
      <3>2. CASE Len(stack) = 0
        <4>1. Brought(stack, Len(stack), c) = {}
          BY <3>2 DEF Brought
        <4>2. sinks[c] = Own(c)
          BY <4>1 DEF Attachments
        <4>3. Serves(next, tails, c) /\ tails[c].at = f.prev
          BY <2>13, <4>2 DEF Own, Serves, IsOpen, Opening
        <4>4. \A k \in 1..Len(stack) : FALSE
          BY <3>2
        <4>5. next[f.prev] = None
          BY <4>3, <4>4 DEF Sequenced, Kept
        <4>6. ~Made(next, Link(f))
          BY <1>1, <2>2, <4>5, RegistryAssumption DEF Made
        <4>7. \A l \in Got(next, tails, c) : Made(next, l) => f.prev \in Below(next, l[2])
          BY <4>3, <4>4 DEF Sequenced, Reaching
        <4> QED
          BY <3>1, <4>3, <4>6, <4>7
      <3>3. CASE Len(stack) = 1
        <4>0. stack # <<>> /\ Top = stack[1]
          BY <2>3, <3>3
        <4>1. /\ Top = stack[1] /\ Top.pc = "attach" /\ f.prev = Top.head
              /\ \A j \in Id : next[j] # i
          BY <1>1, <1>3, <4>0 DEF MayEmit, Subscribing, TopAt, Idle
        <4>2. ~Made(next, Link(f))
          BY <2>2, <4>1 DEF Made
        <4>3. /\ Works(Top) /\ next[Top.prev] = Top.next /\ Top.head \in Below(next, Top.next)
              /\ Top \in Frame /\ Top.prev \in Id /\ Top.next \in Id
              /\ Chained(next, Top)
          <5>1. 1 \in 1..Len(stack) /\ stack[1] \in Frame
            BY <1>1, <3>3
          <5> QED
            BY <4>1, <5>1 DEF Sequenced, Linking, Backed, Works, Frame, Trailing, Held
        <4>4. Brought(stack, Len(stack), c) = Brings(Top, c)
          <5>1. 1..Len(stack) = {1}
            BY <3>3
          <5> QED
            BY <4>1, <5>1 DEF Brought
        <4>5. CASE f.prev \in Own(c)
          <5>1. Serves(next, tails, c) /\ tails[c].at = f.prev
            BY <2>13, <4>5 DEF Own, Serves, IsOpen, Opening
          <5>2. \A k \in 1..Len(stack) : ~InHand(next, tails, stack[k], c)
            <6>1. Top.prev \notin Below(next, Top.head)
              BY <1>1, <4>3, NoWayBack
            <6>2. \A k \in 1..Len(stack) : stack[k] = Top
              BY <3>3, <4>1
            <6> QED
              BY <4>1, <5>1, <6>1, <6>2 DEF InHand
          <5>3. \A l \in Got(next, tails, c) : Made(next, l) => f.prev \in Below(next, l[2])
            BY <5>1, <5>2 DEF Sequenced, Reaching
          <5> QED
            BY <3>1, <4>2, <5>1, <5>3
        <4>6. CASE f.prev \in Brings(Top, c)
          <5>1. Top.tail = c
            BY <4>6 DEF Brings
          <5>2. OuterOk(next, tails, Top)
            BY <4>0, <4>1 DEF Sequenced, Outer
          <5>3. ASSUME Unmade(next, immutable, Link(f)) PROVE next[f.prev] = None
            BY <2>2, <5>3 DEF Unmade
          <5>4. ASSUME next[f.prev] = None, NEW l \in Got(next, tails, c), Made(next, l)
                PROVE  f.prev \in Below(next, l[2])
            <6>1. l \in Key
              BY Grounds
            <6>2. l[2] # None
              BY <6>1, RegistryAssumption DEF Key
            <6> QED
              BY <4>1, <5>1, <5>2, <5>4, <6>2 DEF OuterOk, Made
          <5>5. ASSUME next[f.prev] = None, Serves(next, tails, c)
                PROVE  f.prev \in Below(next, tails[c].at)
            BY <4>1, <4>3, <5>1, <5>2, <5>5 DEF OuterOk, Chained
          <5> QED
            BY <4>2, <5>3, <5>4, <5>5
        <4> QED
          BY <2>13, <4>4, <4>5, <4>6 DEF Attachments
      <3> QED
        BY <2>3, <3>2, <3>3
    <2>14. Ready'
      <3> SUFFICES ASSUME NEW d \in f.todo PROVE ReadyFor(next, immutable, tails, f, d)
        BY <1>1, <2>1 DEF Ready
      <3>1. d \in Client /\ f.prev \in sinks[d]
        BY <1>3 DEF ToldAt
      <3>2. CASE Aside(next, tails, d)
        BY <3>2 DEF ReadyFor, Got, Handed, Serves
      <3> QED
        BY <2>13, <3>1, <3>2 DEF ReadyFor
    <2> QED
      BY <2>8, <2>9, <2>10, <2>11, <2>12, <2>14 DEF Sequenced
  <1>4. \/ UNCHANGED stack
        \/ \E f : /\ stack' = Append(stack, f) /\ f.pc = "tell" /\ f.prev = roomNative[r] /\ f.next = i
                  /\ f.todo \subseteq ToldAt(f.prev) /\ roomNative[r] # None
    <2>1. ASSUME NEW order \in Orders
          PROVE  LET f == [prev |-> roomNative[r], next |-> i, order |-> order, head |-> None,
                           pc |-> "tell",
                           todo |-> IF order = "before" THEN ToldAt(roomNative[r]) ELSE {},
                           tail |-> None, from |-> None, failed |-> FALSE]
                 IN  /\ f.pc = "tell" /\ f.prev = roomNative[r] /\ f.next = i
                     /\ f.todo \subseteq ToldAt(f.prev)
      OBVIOUS
    <2> QED
      BY <2>1 DEF Announced
  <1> QED
    BY <1>2, <1>3, <1>4

\* No handler has a tail in hand that is being opened.
LEMMA OpeningFree ==
  ASSUME TypeOK, NoneBehind, Linking, NEW c \in Client, tails[c].st = "opening",
         Serves(next, tails, c), NEW k \in 1..Len(stack)
  PROVE  /\ tails[c].at \in Id /\ next[tails[c].at] = None
         /\ Below(next, tails[c].at) = {tails[c].at}
         /\ ~InHand(next, tails, stack[k], c)
  <1>1. tails[c].at \in Id /\ next[tails[c].at] = None /\ next \in Links
    BY DEF NoneBehind, Placed, Serves, Aside, TypeOK, Links
  <1>2. Below(next, tails[c].at) = {tails[c].at}
    BY <1>1, BelowFacts
  <1>3. stack[k] \in Frame
    BY DEF TypeOK
  <1>4. stack[k].next \in Id /\ stack[k].next # None
    BY <1>3, RegistryAssumption DEF Frame
  <1>5. Works(stack[k]) => next[stack[k].prev] = stack[k].next
    BY DEF Linking, Backed
  <1> QED
    BY <1>1, <1>2, <1>4, <1>5 DEF InHand

\* What recording the link of the innermost handler makes of the links.
LEMMA RecordedLinks ==
  ASSUME TypeOK, TypeOK', Sequenced, Acyclic(next'), Recorded
  PROVE  /\ next \in Links /\ next' \in Links /\ Longer(next, next') /\ next'[Top.prev] = Top.next
         /\ Top.prev \in Id /\ Top.next \in Id /\ Top.prev \notin immutable
         /\ \A i \in Id : i # Top.prev => next'[i] = next[i]
         /\ \A i \in Id : Below(next, i) \subseteq Below(next', i)
         /\ \A l \in Key : Made(next, l) => Made(next', l)
         /\ \A l \in Key : Unmade(next', immutable, l) => Unmade(next, immutable, l) /\ l # Link(Top)
         /\ \A l \in Key : Made(next', l) /\ ~Made(next, l)
                             => l = Link(Top) /\ Unmade(next, immutable, l)
  <1>1. /\ Top.prev \in Id /\ Top.next \in Id /\ next \in Links /\ next' \in Links
        /\ Top.prev \notin immutable
    BY TopType DEF TypeOK, Recorded, TopAt, Frame, Links
  <1>2. Longer(next, next') /\ next'[Top.prev] = Top.next
    <2>1. next' = Linked(Top.prev, Top.next) /\ Accepts(Top.prev, Top.next)
      BY DEF Recorded
    <2> QED
      BY <1>1, <2>1, LinkedLonger
  <1>3. \A i \in Id : i # Top.prev => next'[i] = next[i]
    BY <1>1 DEF Recorded, Linked, Links
  <1>4. \A i \in Id : Below(next, i) \subseteq Below(next', i)
    BY <1>1, <1>2, BelowGrows DEF Longer
  <1>5. \A l \in Key : l[1] \in Id /\ l[2] \in Id /\ l[2] # None
    BY RegistryAssumption DEF Key
  <1>6. \A l \in Key : Made(next, l) => Made(next', l)
    BY <1>2, <1>5 DEF Made, Longer
  <1>7. ASSUME NEW l \in Key, Unmade(next', immutable, l)
        PROVE  Unmade(next, immutable, l) /\ l # Link(Top)
    <2>1. next[l[1]] = None
      BY <1>2, <1>5, <1>7 DEF Unmade, Longer
    <2>2. l[1] \notin Below(next, l[2])
      BY <1>4, <1>5, <1>7 DEF Unmade
    <2>3. l[1] # Top.prev
      BY <1>1, <1>2, <1>7, RegistryAssumption DEF Unmade
    <2> QED
      BY <1>7, <2>1, <2>2, <2>3 DEF Unmade, Link
  <1>8. ASSUME NEW l \in Key, Made(next', l), ~Made(next, l)
        PROVE  l = Link(Top) /\ Unmade(next, immutable, l)
    <2>1. l[1] = Top.prev
      BY <1>3, <1>5, <1>8 DEF Made
    <2>2. l[2] = Top.next
      BY <1>2, <1>8, <2>1 DEF Made
    <2>3. l = Link(Top)
      BY <2>1, <2>2 DEF Key, Link
    <2>4. next[Top.prev] = None
      BY <1>1, <1>2, <1>8, <2>1, <2>2 DEF Longer, Made
    <2>5. Top.prev \notin Below(next, Top.next)
      BY <1>1, <1>2, <1>4, AcyclicBelow
    <2> QED
      BY <1>1, <2>1, <2>2, <2>3, <2>4, <2>5 DEF Unmade
  <1> QED
    BY <1>1, <1>2, <1>3, <1>4, <1>6, <1>7, <1>8

LEMMA RecordedChain ==
  ASSUME TypeOK, TypeOK', Handlers, Trailing, Sequenced, Acyclic(next'), Recorded,
         NEW h \in Heads(next', Top.next),
         Becomes([Top EXCEPT !.pc = "rekey", !.head = h, !.todo = OpenTails])
  PROVE  Sequenced'
  <1>1. /\ stack # <<>> /\ Top.pc = "tell" /\ tails' = tails /\ immutable' = immutable
    BY DEF Recorded, TopAt
  <1>2. /\ Len(stack) \in {1, 2} /\ Len(stack) \in 1..Len(stack) /\ Top \in Frame
        /\ Link(Top) \in Key
        /\ Len(stack) = 2 => /\ stack[1] \in Frame /\ stack[1].pc = "attach" /\ Works(stack[1])
                             /\ Top.prev = stack[1].head /\ Top = stack[2]
        /\ Len(stack) = 1 => Top = stack[1]
    BY <1>1, OneOrTwo DEF Handlers
  <1>3. /\ next \in Links /\ next' \in Links /\ Longer(next, next') /\ next'[Top.prev] = Top.next
        /\ Top.prev \in Id /\ Top.next \in Id /\ Top.prev \notin immutable
        /\ \A i \in Id : i # Top.prev => next'[i] = next[i]
        /\ \A i \in Id : Below(next, i) \subseteq Below(next', i)
        /\ \A l \in Key : Made(next, l) => Made(next', l)
        /\ \A l \in Key : Unmade(next', immutable, l) => Unmade(next, immutable, l) /\ l # Link(Top)
        /\ \A l \in Key : Made(next', l) /\ ~Made(next, l)
                            => l = Link(Top) /\ Unmade(next, immutable, l)
    BY RecordedLinks
  <1>4. h \in Id /\ h \in Below(next', Top.next)
    BY <1>3, HeadsType, HeadBelow
  <1>5. PICK f \in Frame : /\ Becomes(f) /\ f.pc = "rekey" /\ Link(f) = Link(Top) /\ f.prev = Top.prev
                           /\ f.next = Top.next /\ f.head = h /\ f.todo = OpenTails
    <2> DEFINE g == [Top EXCEPT !.pc = "rekey", !.head = h, !.todo = OpenTails]
    <2>1. /\ g \in Frame /\ g.pc = "rekey" /\ g.prev = Top.prev /\ g.next = Top.next
          /\ g.head = h /\ g.todo = OpenTails
      BY <1>2, <1>4 DEF Frame, OpenTails
    <2>2. Becomes(g)
      OBVIOUS
    <2> HIDE DEF g
    <2> QED
      BY <2>1, <2>2 DEF Link
  <1>6. /\ Len(stack') = Len(stack) /\ stack' # <<>> /\ Top' = f
        /\ stack'[Len(stack)] = f
        /\ \A k \in 1..Len(stack) : k # Len(stack) => stack'[k] = stack[k]
    BY <1>1, <1>5, OnTop
  <1>7. ~Works(Top) /\ Works(f)
    BY <1>1, <1>5 DEF Works
  <1>8. /\ \A c \in Client : /\ Got(next, tails, c) \subseteq Key
                              /\ Handed(next, tails, c) \in Seq(Key)
        /\ \A c \in Client : tails[c].st \in {"opening", "open"} => tails[c].at \in Id
    BY Grounds DEF Trailing, NoneBehind, Placed
  <1>22. \A c \in Client :
           /\ Aside(next, tails, c) => Aside(next', tails, c)
           /\ Serves(next', tails, c) => Serves(next, tails, c) /\ tails[c].at \in Id
           /\ Got(next', tails, c) \subseteq Got(next, tails, c)
           /\ Handed(next', tails, c) = <<>> \/ Handed(next', tails, c) = Handed(next, tails, c)
    <2> SUFFICES ASSUME NEW c \in Client
                 PROVE  /\ Aside(next, tails, c) => Aside(next', tails, c)
                        /\ Serves(next', tails, c) => Serves(next, tails, c) /\ tails[c].at \in Id
                        /\ Got(next', tails, c) \subseteq Got(next, tails, c)
                        /\ \/ Handed(next', tails, c) = <<>>
                           \/ Handed(next', tails, c) = Handed(next, tails, c)
      OBVIOUS
    <2>1. Aside(next, tails, c) => Aside(next', tails, c)
      <3>1. CASE tails[c].st = "opening"
        BY <1>3, <1>8, <3>1 DEF Longer, Aside
      <3>2. CASE tails[c].st # "opening"
        BY <3>2 DEF Aside
      <3> QED
        BY <3>1, <3>2
    <2>2. Handed(next', tails, c) = <<>> \/ Handed(next', tails, c) = Handed(next, tails, c)
      BY <2>1 DEF Handed
    <2>3. Got(next', tails, c) \subseteq Got(next, tails, c)
      BY <2>2 DEF Got
    <2> QED
      BY <1>8, <2>1, <2>2, <2>3 DEF Serves
  <1>9. ASSUME NEW c \in Client, NEW l \in Got(next, tails, c) PROVE ~Unmade(next', immutable, l)
    BY <1>3, <1>8 DEF Sequenced, Announcing
  <1>10. ASSUME NEW c \in Client, NEW l \in Got(next, tails, c), Made(next', l), ~Made(next, l)
         PROVE  /\ l = Link(Top) /\ Unmade(next, immutable, l)
                /\ Serves(next, tails, c) => Top.prev \in Below(next, tails[c].at)
                /\ \A m \in Got(next, tails, c) : Made(next, m) => Top.prev \in Below(next, m[2])
    BY <1>3, <1>8, <1>10 DEF Sequenced, Announcing
  <1>11. \A c \in Client : Lives(tails, c) => Handling(tails, f, c)
    BY <1>5 DEF Lives, Handling, OpenTails, IsOpen
  <1>12. ASSUME NEW c \in Client, Serves(next, tails, c), NEW k \in 1..Len(stack),
                InHand(next, tails, stack[k], c)
         PROVE  k \in 1..Len(stack') /\ InHand(next', tails', stack'[k], c) /\ stack'[k] = stack[k]
    <2>1. k # Len(stack)
      BY <1>7, <1>12 DEF InHand, Top
    <2>2. Below(next, tails[c].at) \subseteq Below(next', tails[c].at)
      BY <1>3, <1>8, <1>12 DEF Serves
    <2> QED
      BY <1>1, <1>6, <1>12, <2>1, <2>2 DEF InHand
  <1>13. ASSUME NEW c \in Client, Serves(next', tails, c), Top.prev \in Below(next', tails[c].at)
         PROVE  \E k \in 1..Len(stack') : InHand(next', tails', stack'[k], c) /\ Link(stack'[k]) = Link(Top)
    <2>0. Lives(tails, c)
      <3> SUFFICES ASSUME tails[c].st = "opening" PROVE FALSE
        BY <1>13 DEF Serves, Lives
      <3>1. next'[tails[c].at] = None /\ tails[c].at \in Id
        BY <1>8, <1>13 DEF Serves, Aside
      <3>2. Top.prev = tails[c].at
        BY <1>3, <1>13, <3>1, BelowFacts
      <3> QED
        BY <1>3, <3>1, <3>2, RegistryAssumption
    <2>1. InHand(next', tails', f, c)
      BY <1>1, <1>5, <1>7, <1>11, <1>13, <2>0 DEF InHand
    <2> QED
      BY <1>2, <1>5, <1>6, <2>1
  <1>14. Frozen'
    BY <1>1, <1>3 DEF Sequenced, Frozen, TypeOK
  <1>15. Linking'
    <2>1. Backed(next', immutable, f)
      BY <1>3, <1>4, <1>5 DEF Backed
    <2>2. ASSUME NEW g \in Frame, Backed(next, immutable, g) PROVE Backed(next', immutable, g)
      <3>1. g.prev \in Id /\ g.next \in Id /\ Link(g) \in Key /\ g.next # None
        BY RegistryAssumption DEF Frame, Link, Key
      <3> QED
        BY <1>3, <2>2, <3>1 DEF Backed, Longer
    <2>3. ASSUME NEW k \in 1..Len(stack') PROVE Backed(next', immutable, stack'[k])
      <3>1. stack[k] \in Frame
        BY <1>6 DEF TypeOK
      <3> QED
        BY <1>6, <2>1, <2>2, <3>1 DEF Sequenced, Linking
    <2> QED
      BY <1>1, <2>3 DEF Linking
  <1>16. Kept'
    <2> SUFFICES ASSUME NEW c \in Client, Serves(next', tails, c), next'[tails[c].at] # None
                 PROVE  \E k \in 1..Len(stack') : InHand(next', tails', stack'[k], c)
      BY <1>1 DEF Kept
    <2>0. Serves(next, tails, c) /\ tails[c].at \in Id
      BY <1>22
    <2>1. CASE next[tails[c].at] # None
      BY <1>12, <2>0, <2>1 DEF Sequenced, Kept
    <2>2. CASE next[tails[c].at] = None
      <3>1. tails[c].at = Top.prev
        BY <1>3, <2>0, <2>2
      <3>2. Top.prev \in Below(next', tails[c].at)
        BY <1>3, <3>1, BelowFacts
      <3> QED
        BY <1>13, <3>2
    <2> QED
      BY <2>1, <2>2
  <1>17. Reaching'
    <2> SUFFICES ASSUME NEW c \in Client, Serves(next', tails, c), NEW l \in Got(next', tails, c),
                        Made(next', l)
                 PROVE  \/ tails[c].at \in Below(next', l[2])
                        \/ \E k \in 1..Len(stack') : InHand(next', tails', stack'[k], c) /\ l = Link(stack'[k])
      BY <1>1 DEF Reaching
    <2>0. Serves(next, tails, c) /\ tails[c].at \in Id /\ l \in Got(next, tails, c)
      BY <1>22
    <2>1. CASE Made(next, l)
      <3>1. CASE tails[c].at \in Below(next, l[2])
        <4>1. l[2] \in Id
          BY <1>8, <2>0 DEF Key
        <4> QED
          BY <1>3, <3>1, <4>1
      <3>2. CASE \E k \in 1..Len(stack) : InHand(next, tails, stack[k], c) /\ l = Link(stack[k])
        BY <1>12, <2>0, <3>2
      <3> QED
        BY <2>0, <2>1, <3>1, <3>2 DEF Sequenced, Reaching
    <2>2. CASE ~Made(next, l)
      <3>1. l = Link(Top) /\ Top.prev \in Below(next, tails[c].at)
        BY <1>10, <2>0, <2>2
      <3>2. Top.prev \in Below(next', tails[c].at)
        BY <1>3, <2>0, <3>1
      <3> QED
        BY <1>13, <3>1, <3>2
    <2> QED
      BY <2>1, <2>2
  <1>18. Ordered'
    <2> SUFFICES ASSUME NEW c \in Client
                 PROVE  /\ InOrder(next', Handed(next, tails, c))
                        /\ NewestLast(next', immutable, Handed(next, tails, c))
      <3>1. InOrder(next', <<>>) /\ NewestLast(next', immutable, <<>>)
        BY DEF InOrder, NewestLast
      <3> QED
        BY <1>1, <1>22, <3>1 DEF Ordered
    <2> DEFINE g == Handed(next, tails, c)
    <2>1. \A j \in 1..Len(g) : g[j] \in Got(next, tails, c) /\ g[j][2] \in Id
      BY <1>8 DEF Got, Key
    <2>2. InOrder(next, g) /\ NewestLast(next, immutable, g)
      BY DEF Sequenced, Ordered
    <2> HIDE DEF g
    <2>3. ASSUME NEW j \in 1..Len(g), NEW k \in 1..Len(g), j < k, Made(next', g[j]), Made(next', g[k])
          PROVE  g[k][2] \in Below(next', g[j][2])
      <3>1. CASE Made(next, g[j]) /\ Made(next, g[k])
        BY <1>3, <2>1, <2>2, <2>3, <3>1 DEF InOrder
      <3>2. CASE Made(next, g[j]) /\ ~Made(next, g[k])
        <4>1. g[k] = Link(Top) /\ Top.prev \in Below(next, g[j][2])
          BY <1>10, <2>1, <2>3, <3>2
        <4>2. Top.prev \in Below(next', g[j][2])
          BY <1>3, <2>1, <4>1
        <4>3. Top.next \in Below(next', g[j][2])
          BY <1>2, <1>3, <2>1, <4>2, Onward, OneOrTwo, <1>1 DEF Handlers
        <4> QED
          BY <4>1, <4>3 DEF Link
      <3>3. CASE ~Made(next, g[j]) /\ Made(next, g[k])
        <4>1. Unmade(next, immutable, g[j])
          BY <1>10, <2>1, <2>3, <3>3
        <4>2. k < j
          BY <2>2, <3>3, <4>1 DEF NewestLast
        <4> QED
          BY <2>3, <4>2
      <3>4. CASE ~Made(next, g[j]) /\ ~Made(next, g[k])
        <4>1. g[j] = Link(Top) /\ g[k] = Link(Top)
          BY <1>10, <2>1, <2>3, <3>4
        <4> QED
          BY <1>3, <2>1, <4>1, BelowFacts
      <3> QED
        BY <3>1, <3>2, <3>3, <3>4
    <2>4. NewestLast(next', immutable, g)
      BY <1>9, <2>1 DEF NewestLast
    <2> QED
      BY <2>3, <2>4 DEF InOrder, g
  <1>19. Announcing'
    BY <1>1, <1>9, <1>22 DEF Announcing
  <1>20. Outer'
    <2> SUFFICES ASSUME stack'[1].pc = "attach" PROVE OuterOk(next', tails, stack'[1])
      BY <1>1 DEF Outer
    <2>1. Len(stack) = 2 /\ stack'[1] = stack[1]
      <3>1. Len(stack) # 1
        BY <1>5, <1>6
      <3> QED
        BY <1>2, <1>6, <3>1
    <2>2. /\ OuterOk(next, tails, stack[1]) /\ stack[1].tail \in Client
          /\ Link(Top)[1] = stack[1].head /\ stack[1].head = Top.prev
      BY <1>1, <1>2, <2>1 DEF Sequenced, Outer, Link, Handlers, Frames, Follow
    <2> DEFINE o == stack[1]
    <2> HIDE DEF o
    <2>3. ASSUME o = stack[1], NEW l \in Got(next, tails, o.tail), Made(next', l)
          PROVE  o.head \in Below(next', l[2]) \/ l[1] = o.head
      <3>1. l[2] \in Id
        BY <1>8, <2>2, <2>3 DEF Key
      <3>2. CASE Made(next, l)
        BY <1>3, <2>2, <2>3, <3>1, <3>2 DEF OuterOk
      <3>3. CASE ~Made(next, l)
        BY <1>10, <2>2, <2>3, <3>3
      <3> QED
        BY <3>2, <3>3
    <2>4. ASSUME o = stack[1], Serves(next, tails, o.tail), tails[o.tail].at # o.from
          PROVE  next'[o.head] # None /\ tails[o.tail].at \in Below(next', next'[o.head])
      <3>1. next[o.head] # None /\ tails[o.tail].at \in Below(next, next[o.head])
        BY <2>2, <2>4 DEF OuterOk
      <3>2. next'[o.head] = next[o.head] /\ next[o.head] \in Id
        BY <1>3, <2>2, <2>4, <3>1 DEF Longer, Links
      <3> QED
        BY <1>3, <3>1, <3>2
    <2> QED
      BY <1>22, <2>1, <2>2, <2>3, <2>4 DEF OuterOk, o
  <1>21. Ready'
    BY <1>5, <1>6 DEF Ready, TopAt
  <1> QED
    BY <1>14, <1>15, <1>16, <1>17, <1>18, <1>19, <1>20, <1>21 DEF Sequenced

\* The rotation that an inner handler moves tails along continues that of the outer one.
LEMMA InnerLink ==
  ASSUME TypeOK, Handlers, Linking, Len(stack) = 2, next[Top.prev] = Top.next
  PROVE  /\ Link(Top)[1] = stack[1].head /\ Top.prev = stack[1].head /\ stack[1].prev \in Id
         /\ next[stack[1].prev] = stack[1].next /\ stack[1].next \in Id
         /\ stack[1].head \in Below(next, stack[1].next)
         /\ Top.next \in Below(next, stack[1].next)
  <1>1. /\ stack # <<>> /\ 1 \in 1..Len(stack) /\ next \in Links
    BY DEF TypeOK, Links
  <1>2. /\ stack[1] \in Frame /\ Works(stack[1]) /\ Top.prev = stack[1].head
        /\ Top.prev \in Id /\ Top.next # None
    BY <1>1, OneOrTwo DEF Handlers
  <1>3. /\ next[stack[1].prev] = stack[1].next /\ stack[1].next \in Id /\ stack[1].prev \in Id
        /\ stack[1].head \in Below(next, stack[1].next)
    BY <1>1, <1>2 DEF Linking, Backed, Frame
  <1>4. Top.next \in Below(next, stack[1].next)
    BY <1>1, <1>2, <1>3, Onward
  <1> QED
    BY <1>2, <1>3, <1>4 DEF Link

LEMMA MoveFrame ==
  ASSUME TypeOK, stack # <<>>, NEW c \in Client, NEW leaves \in BOOLEAN, NEW refuses \in BOOLEAN,
         Move(c, leaves, refuses), tails[c].at \in Id
  PROVE  \E f \in Frame : /\ Becomes(f) /\ f.prev = Top.prev /\ f.next = Top.next /\ f.head = Top.head
                          /\ f.todo = Top.todo \ {c} /\ Works(f)
                          /\ \/ f.pc = "rekey" /\ leaves
                             \/ f.pc = "attach" /\ f.tail = c /\ f.from = tails[c].at
  <1>1. Top \in Frame /\ Top.pc = "rekey"
    BY TopType DEF TypeOK, Move, TopAt
  <1>2. CASE leaves
    <2> DEFINE f == [Top EXCEPT !.todo = @ \ {c}]
    <2>1. /\ f \in Frame /\ Becomes(f) /\ f.prev = Top.prev /\ f.next = Top.next
          /\ f.pc = Top.pc /\ f.head = Top.head /\ f.todo = Top.todo \ {c}
      BY <1>1, <1>2 DEF Frame, Move
    <2> HIDE DEF f
    <2> QED
      BY <1>1, <1>2, <2>1 DEF Works
  <1>3. CASE ~leaves
    <2> DEFINE f == [Top EXCEPT !.pc = "attach", !.todo = @ \ {c}, !.tail = c,
                                !.from = tails[c].at, !.failed = refuses]
    <2>1. /\ f \in Frame /\ Becomes(f) /\ f.prev = Top.prev /\ f.next = Top.next /\ f.pc = "attach"
          /\ f.head = Top.head /\ f.tail = c /\ f.from = tails[c].at /\ f.todo = Top.todo \ {c}
      BY <1>1, <1>3 DEF Frame, Move
    <2> HIDE DEF f
    <2> QED
      BY <2>1 DEF Works
  <1> QED
    BY <1>2, <1>3

LEMMA MoveChain ==
  ASSUME TypeOK, Handlers, Trailing, Sequenced, NEW c \in Client, NEW leaves \in BOOLEAN,
         NEW refuses \in BOOLEAN, Move(c, leaves, refuses)
  PROVE  Sequenced'
  <1>1. /\ stack # <<>> /\ Top.pc = "rekey" /\ c \in Top.todo /\ tails[c].st = "open"
        /\ HandTo(c, Link(Top), leaves) /\ next' = next /\ immutable' = immutable
        /\ tails[c].at # Top.head /\ Top.head \in Heads(next, tails[c].at) /\ next \in Links
    BY DEF Move, TopAt, Follows, IsOpen, Link, TypeOK, Links
  <1>2. /\ Len(stack) \in {1, 2} /\ Len(stack) \in 1..Len(stack) /\ Top \in Frame
        /\ Link(Top) \in Key /\ Top.prev \in Id /\ Top.next \in Id /\ Top.next # None
        /\ Len(stack) = 2 => /\ stack[1] \in Frame /\ stack[1].pc = "attach" /\ Works(stack[1])
                             /\ Top.prev = stack[1].head /\ Top = stack[2]
        /\ Len(stack) = 1 => Top = stack[1]
    BY <1>1, OneOrTwo DEF Handlers
  <1>3. tails[c].at \in Id /\ Top.head \in Id /\ next[Top.head] = None /\ Top.head \in Below(next, tails[c].at)
    BY <1>1, HeadsType, HeadBelow DEF Trailing, NoneBehind, Placed
  <1>4. next[tails[c].at] # None
    BY <1>1, <1>3, BelowFacts
  <1>5. PICK f \in Frame : /\ Becomes(f) /\ f.prev = Top.prev /\ f.next = Top.next /\ f.head = Top.head
                           /\ f.todo = Top.todo \ {c} /\ Works(f)
                           /\ \/ f.pc = "rekey" /\ leaves
                              \/ f.pc = "attach" /\ f.tail = c /\ f.from = tails[c].at
    BY <1>1, <1>3, MoveFrame
  <1>6. /\ Len(stack') = Len(stack) /\ stack' # <<>> /\ Top' = f
        /\ stack'[Len(stack)] = f
        /\ \A k \in 1..Len(stack) : k # Len(stack) => stack'[k] = stack[k]
    BY <1>1, <1>5, OnTop
  <1>7. Works(Top) /\ Top = stack[Len(stack)] /\ Link(f) = Link(Top)
    BY <1>1, <1>5 DEF Works, Top, Link
  <1>8. next[Top.prev] = Top.next /\ Top.head \in Below(next, Top.next) /\ Made(next, Link(Top))
    BY <1>2, <1>7 DEF Sequenced, Linking, Backed, Made, Link
  <1>9. Len(stack) = 2 => /\ Link(Top)[1] = stack[1].head /\ Top.prev = stack[1].head
                          /\ next[stack[1].prev] = stack[1].next /\ stack[1].next \in Id
                          /\ stack[1].head \in Below(next, stack[1].next)
                          /\ Top.next \in Below(next, stack[1].next) /\ stack[1].prev \in Id
    BY <1>8, InnerLink DEF Sequenced
  <1>10. \A k \in 1..Len(stack) : k = Len(stack) \/ (k = 1 /\ Len(stack) = 2)
    <2>1. \A n \in {1, 2} : \A k \in 1..n : k = n \/ (k = 1 /\ n = 2)
      OBVIOUS
    <2> QED
      BY <1>2, <2>1
  <1>11. ~Aside(next, tails, c) => Top.prev \in Below(next, tails[c].at)
    <2> SUFFICES ASSUME Serves(next, tails, c) PROVE Top.prev \in Below(next, tails[c].at)
      BY <1>1 DEF Serves
    <2>1. PICK k \in 1..Len(stack) : InHand(next, tails, stack[k], c)
      BY <1>1, <1>4 DEF Sequenced, Kept
    <2>2. CASE k = Len(stack)
      BY <1>7, <2>1, <2>2 DEF InHand
    <2>3. CASE k = 1 /\ Len(stack) = 2
      <3>1. stack[1].prev \in Below(next, tails[c].at)
        BY <2>1, <2>3 DEF InHand
      <3>2. stack[1].next \in Below(next, tails[c].at)
        BY <1>1, <1>3, <1>9, <2>3, <3>1, Onward, RegistryAssumption
      <3> QED
        BY <1>1, <1>3, <1>9, <2>3, <3>2, Onward
    <2> QED
      BY <1>10, <2>2, <2>3
  <1>12. ASSUME NEW m \in Got(next, tails, c), Made(next, m) PROVE Top.next \in Below(next, m[2])
    <2>0. Serves(next, tails, c) /\ ~Aside(next, tails, c)
      BY <1>1, <1>12 DEF Got, Handed, Serves
    <2>1. m[2] \in Id
      BY Grounds DEF Key
    <2>2. CASE tails[c].at \in Below(next, m[2])
      <3>1. Top.prev \in Below(next, m[2])
        BY <1>1, <1>11, <2>0, <2>1, <2>2, Onward
      <3> QED
        BY <1>1, <1>2, <1>8, <2>1, <3>1, Onward
    <2>3. CASE \E k \in 1..Len(stack) : InHand(next, tails, stack[k], c) /\ m = Link(stack[k])
      <3>1. PICK k \in 1..Len(stack) : m = Link(stack[k])
        BY <2>3
      <3>2. CASE k = Len(stack)
        <4>1. m[2] = Top.next
          BY <1>7, <3>1, <3>2 DEF Link
        <4> QED
          BY <1>1, <2>1, <4>1, BelowFacts
      <3>3. CASE k = 1 /\ Len(stack) = 2
        <4>1. m[2] = stack[1].next
          BY <3>1, <3>3 DEF Link
        <4> QED
          BY <1>9, <3>3, <4>1
      <3> QED
        BY <1>10, <3>2, <3>3
    <2> QED
      BY <1>1, <1>12, <2>0, <2>2, <2>3 DEF Sequenced, Reaching
  <1>13. ASSUME NEW d \in Client, NEW m \in Got(next, tails, d) PROVE ~Unmade(next, immutable, m)
    BY <1>1 DEF Sequenced, Announcing, TopAt
  <1>14. /\ \A d \in Client : /\ InOrder(next, Handed(next', tails', d))
                               /\ NewestLast(next, immutable, Handed(next', tails', d))
         /\ \A d \in Client : d # c => tails'[d] = tails[d]
         /\ \A d \in Client : d # c => Got(next', tails', d) = Got(next, tails, d)
         /\ \A d \in Client : Aside(next', tails', d) <=> Aside(next, tails, d)
         /\ Got(next', tails', c) \subseteq Got(next, tails, c) \cup {Link(Top)}
         /\ \A d \in Client : tails'[d].at = tails[d].at
         /\ \A d \in Client : Serves(next', tails', d) => Serves(next, tails, d)
         /\ Serves(next', tails', c) => ~leaves
    <2>1. \A m \in Got(next, tails, c) :
            (Made(next, m) => Link(Top)[2] \in Below(next, m[2])) /\ ~Unmade(next, immutable, m)
      BY <1>12, <1>13 DEF Link
    <2> QED
      BY <1>1, <1>2, <2>1, HandedOrdered DEF Sequenced
  <1>15. \A d \in Client : /\ d # c => Got(next', tails', d) = Got(next, tails, d)
                           /\ Got(next', tails', d) \subseteq Got(next, tails, d) \cup {Link(Top)}
    BY <1>14
  <1>16. ASSUME NEW d \in Client, Serves(next', tails', d), NEW k \in 1..Len(stack),
                InHand(next, tails, stack[k], d)
         PROVE  /\ k \in 1..Len(stack') /\ InHand(next', tails', stack'[k], d)
                /\ Link(stack'[k]) = Link(stack[k])
    <2>1. CASE k # Len(stack)
      BY <1>1, <1>6, <1>14, <1>16, <2>1 DEF InHand, Handling
    <2>2. CASE k = Len(stack)
      <3>1. d \in Top.todo /\ Top.prev \in Below(next, tails[d].at)
        BY <1>1, <1>7, <1>16, <2>2 DEF InHand, Handling
      <3>2. CASE d # c
        BY <1>1, <1>5, <1>6, <1>7, <1>14, <2>2, <3>1, <3>2 DEF InHand, Handling
      <3>3. CASE d = c
        BY <1>1, <1>5, <1>6, <1>7, <1>14, <1>16, <2>2, <3>1, <3>3 DEF InHand, Handling
      <3> QED
        BY <3>2, <3>3
    <2> QED
      BY <2>1, <2>2
  <1>17. Frozen' /\ Linking'
    <2>1. Backed(next, immutable, f)
      BY <1>5, <1>7, <1>8 DEF Backed, Works
    <2>2. ASSUME NEW k \in 1..Len(stack') PROVE Backed(next, immutable, stack'[k])
      BY <1>6, <2>1 DEF Sequenced, Linking
    <2> QED
      BY <1>1, <2>2 DEF Sequenced, Frozen, Linking
  <1>18. Kept'
    BY <1>1, <1>14, <1>16 DEF Sequenced, Kept
  <1>19. Reaching'
    <2> SUFFICES ASSUME NEW d \in Client, Serves(next', tails', d), NEW l \in Got(next', tails', d), Made(next, l)
                 PROVE  \/ tails[d].at \in Below(next, l[2])
                        \/ \E k \in 1..Len(stack') : InHand(next', tails', stack'[k], d) /\ l = Link(stack'[k])
      BY <1>1, <1>14 DEF Reaching
    <2>1. CASE l \in Got(next, tails, d)
      BY <1>14, <1>16, <2>1 DEF Sequenced, Reaching
    <2>2. CASE l \notin Got(next, tails, d)
      <3>1. d = c /\ l = Link(f)
        BY <1>7, <1>15, <2>2
      <3>2. Handling(tails', f, c)
        BY <1>5, <1>14, <3>1 DEF Handling
      <3>3. InHand(next', tails', stack'[Len(stack)], c)
        BY <1>1, <1>5, <1>6, <1>11, <1>14, <3>1, <3>2 DEF InHand, Serves
      <3> QED
        BY <1>2, <1>6, <3>1, <3>3
    <2> QED
      BY <2>1, <2>2
  <1>20. Ordered'
    BY <1>1, <1>14 DEF Ordered
  <1>21. Announcing'
    <2>1. ASSUME NEW d \in Client, NEW l \in Got(next', tails', d) PROVE ~Unmade(next, immutable, l)
      BY <1>2, <1>8, <1>13, <1>15, NeverBoth
    <2> QED
      BY <1>1, <2>1 DEF Announcing
  <1>22. Outer'
    <2> SUFFICES ASSUME stack'[1].pc = "attach" PROVE OuterOk(next, tails', stack'[1])
      BY <1>1 DEF Outer
    <2>1. CASE Len(stack) = 1
      <3>1. stack'[1] = f /\ f.tail = c /\ f.from = tails[c].at
        BY <1>5, <1>6, <2>1
      <3>2. ASSUME NEW l \in Got(next', tails', c), Made(next, l) PROVE f.head \in Below(next, l[2])
        <4>1. CASE l \in Got(next, tails, c)
          <5>1. Top.next \in Below(next, l[2]) /\ l[2] \in Id
            BY <1>12, <3>2, <4>1, Grounds DEF Key
          <5> QED
            BY <1>1, <1>5, <1>8, <5>1, Onward
        <4>2. CASE l \notin Got(next, tails, c)
          <5>1. l[2] = Top.next
            BY <1>15, <4>2 DEF Link
          <5> QED
            BY <1>5, <1>8, <5>1
        <4> QED
          BY <4>1, <4>2
      <3> QED
        BY <1>1, <1>14, <3>1, <3>2 DEF OuterOk
    <2>2. CASE Len(stack) = 2
      <3>1. stack'[1] = stack[1]
        BY <1>6, <2>2
      <3>2. /\ OuterOk(next, tails, stack[1]) /\ Link(Top)[1] = stack[1].head
            /\ stack[1].tail \in Client
        BY <1>1, <1>2, <1>9, <2>2 DEF Sequenced, Outer, Handlers, Frames, Follow
      <3> QED
        BY <1>1, <1>14, <1>15, <3>1, <3>2 DEF OuterOk
    <2> QED
      BY <1>2, <2>1, <2>2
  <1>23. Ready'
    BY <1>5, <1>6 DEF Ready, TopAt, Works
  <1> QED
    BY <1>17, <1>18, <1>19, <1>20, <1>21, <1>22, <1>23 DEF Sequenced

\* A tail that no nested rotation took over goes to an end of its chain.
LEMMA AttachedEnd ==
  ASSUME TypeOK, Handlers, Trailing, Attached, ~Overtaken(Top.tail)
  PROVE  /\ Lives(tails, Top.tail) /\ tails[Top.tail].at = Top.from /\ Top.from \in Id
         /\ Top.head \in Id /\ next[Top.head] = None /\ Top.head \in Below(next, Top.from)
         /\ Top.tail \in Client
  <1>1. /\ stack # <<>> /\ Top.pc = "attach" /\ Len(stack) \in {1, 2} /\ Len(stack) \in 1..Len(stack)
        /\ Top = stack[Len(stack)]
    BY OneOrTwo DEF Attached, TopAt, Handlers, Top
  <1>2. Works(Top) /\ Chained(next, Top) /\ Top.tail \in Client /\ Top.head \in Id
    BY <1>1 DEF Trailing, Held, Works, Handlers, Frames, Follow
  <1>3. /\ Lives(tails, Top.tail) /\ tails[Top.tail].at = Top.from
        /\ Top.from \in Id /\ Top.head \in Below(next, Top.from)
    BY <1>1, <1>2 DEF Overtaken, Lives, IsOpen, Chained
  <1>4. next[Top.head] = None
    <2>1. CASE Len(stack) = 1
      <3> SUFFICES ASSUME next[Top.head] # None PROVE FALSE
        OBVIOUS
      <3>1. Outrun(next, tails, stack[1], Top.tail)
        BY <1>1, <1>2, <1>3, <2>1 DEF Outrun
      <3> QED
        BY <1>1, <1>2, <2>1, <3>1 DEF Trailing, TakenOver
    <2>2. CASE Len(stack) = 2
      BY <1>1, <1>2, <2>2, InnerFacts
    <2> QED
      BY <1>1, <2>1, <2>2
  <1> QED
    BY <1>2, <1>3, <1>4

LEMMA AttachedChain ==
  ASSUME TypeOK, Handlers, Trailing, Sequenced, Attached
  PROVE  Sequenced'
  <1>1. /\ stack # <<>> /\ Top.pc = "attach" /\ next' = next /\ immutable' = immutable
        /\ next \in Links /\ tails \in [Client -> TailState]
    BY DEF Attached, TopAt, TypeOK, Links
  <1>2. /\ Len(stack) \in {1, 2} /\ Len(stack) \in 1..Len(stack) /\ Top \in Frame
        /\ Link(Top) \in Key /\ Top.prev \in Id /\ Top.next \in Id /\ Top.next # None
        /\ Len(stack) = 2 => /\ stack[1] \in Frame /\ stack[1].pc = "attach" /\ Works(stack[1])
                             /\ Top.prev = stack[1].head /\ Top = stack[2]
        /\ Len(stack) = 1 => Top = stack[1]
    BY <1>1, OneOrTwo DEF Handlers
  <1>3. PICK f \in Frame : /\ Becomes(f) /\ f.prev = Top.prev /\ f.next = Top.next /\ f.pc = "rekey"
                           /\ f.head = Top.head /\ f.todo = Top.todo
    <2> DEFINE g == [Top EXCEPT !.pc = "rekey", !.tail = None, !.from = None, !.failed = FALSE]
    <2>1. /\ g \in Frame /\ Becomes(g) /\ g.prev = Top.prev /\ g.next = Top.next /\ g.pc = "rekey"
          /\ g.head = Top.head /\ g.todo = Top.todo
      BY <1>2 DEF Frame, Attached
    <2> HIDE DEF g
    <2> QED
      BY <2>1
  <1>4. /\ Len(stack') = Len(stack) /\ stack' # <<>> /\ Top' = f
        /\ stack'[Len(stack)] = f
        /\ \A k \in 1..Len(stack) : k # Len(stack) => stack'[k] = stack[k]
    BY <1>1, <1>3, OnTop
  <1>5. Works(Top) /\ Works(f) /\ Top = stack[Len(stack)] /\ Link(f) = Link(Top) /\ Top.tail \in Client
    BY <1>1, <1>2, <1>3 DEF Works, Top, Link, Handlers, Frames, Follow
  <1>6. next[Top.prev] = Top.next /\ Top.head \in Below(next, Top.next)
    BY <1>2, <1>5 DEF Sequenced, Linking, Backed
  <1>7. PICK c \in Client : c = Top.tail
    BY <1>5
  <1>8. ~Overtaken(c) => /\ tails'[c].at = Top.head /\ Lives(tails, c) /\ tails[c].at = Top.from
                         /\ Top.from \in Id /\ next[Top.head] = None /\ Top.head \in Below(next, Top.from)
    <2> SUFFICES ASSUME ~Overtaken(c)
                 PROVE  /\ tails'[c].at = Top.head /\ Lives(tails, c) /\ tails[c].at = Top.from
                        /\ Top.from \in Id /\ next[Top.head] = None /\ Top.head \in Below(next, Top.from)
      OBVIOUS
    <2>1. tails' = [tails EXCEPT ![c] = [@ EXCEPT !.at = Top.head, !.deaf = Top.failed]]
      BY <1>7 DEF Attached
    <2>2. tails'[c].at = Top.head
      <3>1. \A t \in TailState : [t EXCEPT !.at = Top.head, !.deaf = Top.failed].at = Top.head
        BY DEF TailState
      <3>2. tails'[c] = [tails[c] EXCEPT !.at = Top.head, !.deaf = Top.failed] /\ tails[c] \in TailState
        BY <1>1, <2>1
      <3> HIDE DEF TailState
      <3> QED
        BY <3>1, <3>2
    <2> QED
      BY <1>7, <2>2, AttachedEnd
  <1>9. /\ \A d \in Client : /\ tails'[d].got = tails[d].got /\ tails'[d].st = tails[d].st
                              /\ tails'[d].missed = tails[d].missed
        /\ \A d \in Client : d # c \/ Overtaken(c) => tails'[d] = tails[d]
    <2>1. CASE Overtaken(c)
      BY <1>7, <2>1 DEF Attached
    <2>2. CASE ~Overtaken(c)
      <3>1. tails' = [tails EXCEPT ![c] = [@ EXCEPT !.at = Top.head, !.deaf = Top.failed]]
        BY <1>7, <2>2 DEF Attached
      <3>2. \A t \in TailState : LET u == [t EXCEPT !.at = Top.head, !.deaf = Top.failed]
                                 IN  u.got = t.got /\ u.st = t.st /\ u.missed = t.missed
        BY DEF TailState
      <3>3. tails'[c] = [tails[c] EXCEPT !.at = Top.head, !.deaf = Top.failed] /\ tails[c] \in TailState
        BY <1>1, <3>1
      <3> HIDE DEF TailState
      <3>4. /\ tails'[c].got = tails[c].got /\ tails'[c].st = tails[c].st
            /\ tails'[c].missed = tails[c].missed
        BY <3>2, <3>3
      <3> QED
        BY <1>1, <2>2, <3>1, <3>4
    <2> QED
      BY <2>1, <2>2
  <1>10. \A d \in Client : /\ Got(next', tails', d) = Got(next, tails, d)
                           /\ Handed(next', tails', d) = Handed(next, tails, d)
                           /\ Serves(next', tails', d) <=> Serves(next, tails, d)
    <2>1. \A d \in Client : Aside(next', tails', d) <=> Aside(next, tails, d)
      BY <1>1, <1>8, <1>9 DEF Aside, Lives
    <2>2. \A d \in Client : Handed(next', tails', d) = Handed(next, tails, d)
      BY <1>9, <2>1 DEF Handed
    <2> QED
      BY <1>9, <2>1, <2>2 DEF Got, Serves
  <1>11. ASSUME NEW d \in Client, Serves(next, tails, d), d # c \/ Overtaken(c), NEW k \in 1..Len(stack),
                InHand(next, tails, stack[k], d)
         PROVE  /\ k \in 1..Len(stack') /\ InHand(next', tails', stack'[k], d)
                /\ Link(stack'[k]) = Link(stack[k])
    <2>1. tails'[d] = tails[d]
      BY <1>9, <1>11
    <2>2. CASE k # Len(stack)
      BY <1>1, <1>4, <1>11, <2>1, <2>2 DEF InHand, Handling
    <2>3. CASE k = Len(stack)
      <3>1. Handling(tails, Top, d) /\ Top.prev \in Below(next, tails[d].at)
        BY <1>5, <1>11, <2>3 DEF InHand
      <3>2. tails[d].st = "open"
        BY <1>11, OpeningFree DEF Serves, Sequenced, Trailing
      <3>3. d \in Top.todo
        BY <1>7, <1>11, <3>1, <3>2 DEF Handling, Overtaken, IsOpen
      <3> QED
        BY <1>1, <1>3, <1>4, <1>5, <2>1, <2>3, <3>1, <3>3 DEF InHand, Handling
    <2> QED
      BY <2>2, <2>3
  <1>12. Len(stack) = 2 => /\ next[stack[1].head] = Top.next
                           /\ stack[1].next \in Id
                           /\ Top.next \in Below(next, stack[1].next)
    BY <1>6, InnerLink DEF Sequenced
  <1>13. Frozen' /\ Linking' /\ Ordered'
    <2>1. Backed(next, immutable, f)
      BY <1>3, <1>6 DEF Backed
    <2>2. ASSUME NEW k \in 1..Len(stack') PROVE Backed(next, immutable, stack'[k])
      BY <1>4, <2>1 DEF Sequenced, Linking
    <2>3. Ordered'
      BY <1>1, <1>10 DEF Sequenced, Ordered
    <2> QED
      BY <1>1, <2>2, <2>3 DEF Sequenced, Frozen, Linking
  <1>14. Kept'
    <2> SUFFICES ASSUME NEW d \in Client, Serves(next, tails, d), next[tails'[d].at] # None
                 PROVE  \E k \in 1..Len(stack') : InHand(next', tails', stack'[k], d)
      BY <1>1, <1>10 DEF Kept
    <2>1. d # c \/ Overtaken(c)
      BY <1>8
    <2>2. PICK k \in 1..Len(stack) : InHand(next, tails, stack[k], d)
      BY <1>9, <2>1 DEF Sequenced, Kept
    <2> QED
      BY <1>11, <2>1, <2>2
  <1>15. Reaching'
    <2> SUFFICES ASSUME NEW d \in Client, Serves(next, tails, d), NEW l \in Got(next, tails, d), Made(next, l)
                 PROVE  \/ tails'[d].at \in Below(next, l[2])
                        \/ \E k \in 1..Len(stack') : InHand(next', tails', stack'[k], d) /\ l = Link(stack'[k])
      BY <1>1, <1>10 DEF Reaching
    <2>1. CASE d # c \/ Overtaken(c)
      BY <1>9, <1>11, <2>1 DEF Sequenced, Reaching
    <2>2. CASE d = c /\ ~Overtaken(c)
      <3>1. l[2] \in Id
        BY Grounds DEF Key
      <3>2. CASE tails[c].at \in Below(next, l[2])
        BY <1>1, <1>8, <2>2, <3>1, <3>2, Onward
      <3>3. CASE \E k \in 1..Len(stack) : InHand(next, tails, stack[k], c) /\ l = Link(stack[k])
        <4>1. PICK k \in 1..Len(stack) : l = Link(stack[k])
          BY <3>3
        <4>2. CASE k = Len(stack)
          BY <1>5, <1>6, <1>8, <2>2, <4>1, <4>2 DEF Link
        <4>3. CASE k # Len(stack)
          <5>1. k = 1 /\ Len(stack) = 2
            <6>1. \A n \in {1, 2} : \A m \in 1..n : m # n => m = 1 /\ n = 2
              OBVIOUS
            <6> QED
              BY <1>2, <4>3, <6>1
          <5>2. l[2] = stack[1].next
            BY <4>1, <5>1 DEF Link
          <5>3. Top.head \in Below(next, stack[1].next)
            BY <1>1, <1>6, <1>12, <5>1, Onward
          <5> QED
            BY <1>8, <2>2, <5>2, <5>3
        <4> QED
          BY <4>2, <4>3
      <3> QED
        BY <2>2, <3>2, <3>3 DEF Sequenced, Reaching
    <2> QED
      BY <2>1, <2>2
  <1>16. Announcing'
    <2>1. ASSUME NEW d \in Client, NEW l \in Got(next, tails, d) PROVE ~Unmade(next, immutable, l)
      BY <1>1 DEF Sequenced, Announcing, TopAt
    <2> QED
      BY <1>1, <1>10, <2>1 DEF Announcing
  <1>17. Outer'
    <2> SUFFICES ASSUME stack'[1].pc = "attach" PROVE OuterOk(next, tails', stack'[1])
      BY <1>1 DEF Outer
    <2>1. Len(stack) = 2 /\ stack'[1] = stack[1]
      <3>1. Len(stack) # 1
        BY <1>3, <1>4
      <3> QED
        BY <1>2, <1>4, <3>1
    <2>2. OuterOk(next, tails, stack[1]) /\ stack[1].tail \in Client
      BY <1>1, <1>2, <2>1 DEF Sequenced, Outer, Handlers, Frames, Follow
    <2>3. ASSUME stack[1].tail = c, ~Overtaken(c)
          PROVE  next[stack[1].head] # None /\ tails'[c].at \in Below(next, next[stack[1].head])
      BY <1>2, <1>6, <1>8, <1>12, <2>1, <2>3
    <2>4. CASE stack[1].tail # c \/ Overtaken(c)
      BY <1>1, <1>9, <1>10, <2>1, <2>2, <2>4 DEF OuterOk
    <2>5. CASE stack[1].tail = c /\ ~Overtaken(c)
      BY <1>1, <1>10, <2>1, <2>2, <2>3, <2>5 DEF OuterOk
    <2> QED
      BY <2>4, <2>5
  <1>18. Ready'
    BY <1>3, <1>4 DEF Ready, TopAt
  <1> QED
    BY <1>13, <1>14, <1>15, <1>16, <1>17, <1>18 DEF Sequenced

\* The innermost handler is over: it has no tail in hand, and what its driver tells late
\* of the rotation is in order.
LEMMA OverChain ==
  ASSUME TypeOK, Handlers, Sequenced, stack # <<>>, next' = next, tails' = tails, immutable' = immutable,
         \/ Pop
         \/ Over /\ \A c \in LateTells : ReadyFor(next, immutable, tails, Top, c),
         \A c \in Client : Serves(next, tails, c) => ~InHand(next, tails, Top, c),
         \A c \in Client : \A l \in Got(next, tails, c) : ~Unmade(next, immutable, l),
         ~Unmade(next, immutable, Link(Top)) \/ Pop
  PROVE  Sequenced'
  <1>1. /\ Len(stack) \in {1, 2} /\ Len(stack) \in 1..Len(stack) /\ Top \in Frame
        /\ Len(stack) = 2 => stack[1].pc = "attach"
        /\ Top = stack[Len(stack)] /\ stack \in Seq(Frame)
    BY OneOrTwo DEF Handlers, Top, TypeOK
  <1>2. \/ Len(stack') = Len(stack) - 1 /\ stack' \in Seq(Frame)
           /\ \A k \in 1..Len(stack') : stack'[k] = stack[k]
        \/ /\ ~Unmade(next, immutable, Link(Top))
           /\ \A c \in LateTells : ReadyFor(next, immutable, tails, Top, c)
           /\ \E f \in Frame : /\ Becomes(f) /\ f.pc = "tellLate" /\ f.prev = Top.prev
                               /\ f.next = Top.next /\ f.todo = LateTells
    <2>1. CASE Pop
      BY <1>1, <2>1, PopType
    <2>2. CASE ~Pop
      <3> DEFINE g == [Top EXCEPT !.pc = "tellLate", !.todo = LateTells]
      <3>1. g \in Frame /\ g.pc = "tellLate" /\ g.prev = Top.prev /\ g.next = Top.next /\ g.todo = LateTells
        BY <1>1 DEF Frame, LateTells, ToldAt
      <3>2. Becomes(g)
        BY <2>2 DEF Over
      <3> HIDE DEF g
      <3> QED
        BY <2>2, <3>1, <3>2
    <2> QED
      BY <2>1, <2>2
  <1>3. CASE /\ Len(stack') = Len(stack) - 1 /\ stack' \in Seq(Frame)
             /\ \A k \in 1..Len(stack') : stack'[k] = stack[k]
    <2>1. \A k \in 1..Len(stack) : k # Len(stack) => k \in 1..Len(stack')
      <3>1. \A n \in {1, 2} : \A k \in 1..n : k # n => k \in 1..(n - 1)
        OBVIOUS
      <3> QED
        BY <1>1, <1>3, <3>1
    <2>2. \A k \in 1..Len(stack') : k \in 1..Len(stack)
      <3>1. \A n \in {1, 2} : \A k \in 1..(n - 1) : k \in 1..n
        OBVIOUS
      <3> QED
        BY <1>1, <1>3, <3>1
    <2>3. stack' # <<>> => Len(stack) = 2 /\ Top' = stack[1] /\ stack'[1] = stack[1]
      <3>1. stack' # <<>> => Len(stack') # 0
        BY <1>3
      <3>2. Len(stack) = 2 => Len(stack') = 1 /\ 1 \in 1..Len(stack')
        BY <1>3
      <3>3. Len(stack) = 1 => Len(stack') = 0
        BY <1>3
      <3> QED
        BY <1>1, <1>3, <3>1, <3>2, <3>3 DEF Top
    <2>4. ASSUME NEW c \in Client, Serves(next, tails, c), NEW k \in 1..Len(stack), InHand(next, tails, stack[k], c)
          PROVE  k \in 1..Len(stack') /\ stack'[k] = stack[k]
      BY <1>1, <1>3, <2>1, <2>4
    <2>5. Frozen' /\ Linking' /\ Ordered' /\ Announcing'
      BY <1>3, <2>2 DEF Sequenced, Frozen, Linking, Ordered, Announcing
    <2>6. Kept' /\ Reaching'
      <3>1. Kept'
        BY <2>4 DEF Sequenced, Kept
      <3>2. Reaching'
        BY <2>4 DEF Sequenced, Reaching
      <3> QED
        BY <3>1, <3>2
    <2>7. Outer' /\ Ready'
      BY <1>1, <2>3 DEF Sequenced, Outer, Ready, TopAt
    <2> QED
      BY <2>5, <2>6, <2>7 DEF Sequenced
  <1>4. ASSUME ~Unmade(next, immutable, Link(Top)),
               \A c \in LateTells : ReadyFor(next, immutable, tails, Top, c),
               NEW f \in Frame, Becomes(f), f.pc = "tellLate", f.prev = Top.prev, f.next = Top.next,
               f.todo = LateTells
        PROVE  Sequenced'
    <2>1. /\ Len(stack') = Len(stack) /\ stack' # <<>> /\ Top' = f
          /\ stack'[Len(stack)] = f
          /\ \A k \in 1..Len(stack) : k # Len(stack) => stack'[k] = stack[k]
      BY <1>4, OnTop
    <2>2. ASSUME NEW c \in Client, Serves(next, tails, c), NEW k \in 1..Len(stack), InHand(next, tails, stack[k], c)
          PROVE  k \in 1..Len(stack') /\ stack'[k] = stack[k]
      BY <1>1, <2>1, <2>2
    <2>3. Linking'
      <3>1. Backed(next, immutable, f)
        BY <1>4 DEF Backed, Works, Link
      <3>2. ASSUME NEW k \in 1..Len(stack') PROVE Backed(next, immutable, stack'[k])
        BY <2>1, <3>1 DEF Sequenced, Linking
      <3> QED
        BY <3>2 DEF Linking
    <2>4. Frozen' /\ Ordered' /\ Announcing'
      BY DEF Sequenced, Frozen, Ordered, Announcing
    <2>5. Kept'
      BY <2>2 DEF Sequenced, Kept
    <2>6. Reaching'
      BY <2>2 DEF Sequenced, Reaching
    <2>7. Outer'
      <3>1. stack'[1].pc = "attach" => stack'[1] = stack[1]
        BY <1>1, <1>4, <2>1
      <3> QED
        BY <3>1 DEF Sequenced, Outer
    <2>8. Ready'
      <3> SUFFICES ASSUME NEW c \in LateTells PROVE ReadyFor(next, immutable, tails, f, c)
        BY <1>4, <2>1 DEF Ready
      <3> QED
        BY <1>4 DEF ReadyFor, Link
    <2> QED
      BY <2>3, <2>4, <2>5, <2>6, <2>7, <2>8 DEF Sequenced
  <1> QED
    BY <1>2, <1>3, <1>4

\* What a handler has worked off is in nobody's hand.
LEMMA WorkedOff ==
  ASSUME TypeOK, Handlers, EveryIdResolves, Trailing, Retire, NEW d \in Client, Lives(tails, d)
  PROVE  ~InHand(next, tails, Top, d)
  <1> SUFFICES ASSUME InHand(next, tails, Top, d) PROVE FALSE
    OBVIOUS
  <1>1. /\ stack # <<>> /\ Top.pc = "rekey" /\ next \in Links
        /\ Len(stack) \in {1, 2} /\ Len(stack) \in 1..Len(stack) /\ Top = stack[Len(stack)]
        /\ Top.prev \in Id
    BY OneOrTwo DEF Retire, TopAt, Handlers, TypeOK, Links, Top
  <1>2. Works(Top) /\ Chained(next, Top) /\ Top.head # Top.prev /\ Top.head \in Id
    BY <1>1 DEF Trailing, Held, Works, Handlers, Frames, Follow
  <1>3. d \in Top.todo /\ Top.prev \in Below(next, tails[d].at) /\ tails[d].at \in Id
    BY <1>1 DEF InHand, Handling, Trailing, NoneBehind, Placed, Lives
  <1>4. Top.head \in Below(next, tails[d].at)
    BY <1>1, <1>2, <1>3, Onward DEF Chained
  <1>5. next[Top.head] = None
    <2>1. CASE Len(stack) = 2
      BY <1>1, <1>2, <2>1, InnerFacts
    <2>2. CASE Len(stack) = 1
      <3> SUFFICES ASSUME next[Top.head] # None PROVE FALSE
        OBVIOUS
      <3>1. Outrun(next, tails, stack[1], d)
        BY <1>1, <1>2, <1>4, <2>2 DEF Outrun
      <3> QED
        BY <1>1, <2>2, <3>1 DEF Trailing, TakenOver
    <2> QED
      BY <1>1, <2>1, <2>2
  <1>6. Heads(next, tails[d].at) = {Top.head}
    BY <1>1, <1>3, <1>4, <1>5, HeadIsEnd DEF EveryIdResolves
  <1>7. tails[d].at = Top.head
    BY <1>3, <1>6 DEF Retire, Follows, IsOpen, Lives
  <1>8. Below(next, Top.head) = {Top.head}
    BY <1>1, <1>2, <1>5, BelowFacts
  <1> QED
    BY <1>2, <1>3, <1>7, <1>8

LEMMA RetireChain ==
  ASSUME TypeOK, Handlers, Attachments, EveryIdResolves, Trailing, Acyclic(next), Sequenced, Retire
  PROVE  Sequenced'
  <1>1. /\ stack # <<>> /\ Top.pc = "rekey" /\ next' = next /\ immutable' = immutable /\ tails' = tails
        /\ next \in Links /\ stack \in Seq(Frame) /\ Over
    BY DEF Retire, TopAt, TypeOK, Links
  <1>2. /\ Len(stack) \in {1, 2} /\ Len(stack) \in 1..Len(stack) /\ Top \in Frame
        /\ Link(Top) \in Key /\ Top.prev \in Id /\ Top.next \in Id /\ Top.next # None
        /\ Len(stack) = 2 => /\ stack[1] \in Frame /\ stack[1].pc = "attach" /\ Works(stack[1])
                             /\ Top.prev = stack[1].head /\ Top = stack[2]
        /\ Len(stack) = 1 => Top = stack[1]
    BY <1>1, OneOrTwo DEF Handlers
  <1>3. Works(Top) /\ Top = stack[Len(stack)]
    BY <1>1 DEF Works, Top
  <1>4. next[Top.prev] = Top.next /\ Made(next, Link(Top)) /\ ~Unmade(next, immutable, Link(Top))
    BY <1>2, <1>3, NeverBoth DEF Sequenced, Linking, Backed, Made, Link
  <1>5. \A d \in Client : Serves(next, tails, d) => ~InHand(next, tails, Top, d)
    <2> SUFFICES ASSUME NEW d \in Client, Serves(next, tails, d) PROVE ~InHand(next, tails, Top, d)
      OBVIOUS
    <2>1. CASE Lives(tails, d)
      BY <2>1, WorkedOff
    <2>2. CASE ~Lives(tails, d)
      BY <1>2, <1>3, <2>2, OpeningFree DEF Serves, Lives, Sequenced, Trailing
    <2> QED
      BY <2>1, <2>2
  <1>6. \A d \in Client : \A l \in Got(next, tails, d) : ~Unmade(next, immutable, l)
    BY <1>1 DEF Sequenced, Announcing, TopAt
  <1>7. Len(stack) = 2 => /\ stack[1].next \in Id /\ Top.next \in Below(next, stack[1].next)
    BY <1>4, InnerLink DEF Sequenced
  <1>8. \A i \in Id : i \in Below(next, i)
    BY <1>1, BelowFacts
  <1>9. \A c \in Client : Brought(stack, Len(stack), c) = IF Len(stack) = 2 THEN Brings(stack[1], c) ELSE {}
    <2> SUFFICES ASSUME NEW c \in Client
                 PROVE  Brought(stack, Len(stack), c) = IF Len(stack) = 2 THEN Brings(stack[1], c) ELSE {}
      OBVIOUS
    <2>1. Brings(Top, c) = {}
      BY <1>1 DEF Brings
    <2>2. CASE Len(stack) = 1
      <3>1. 1..Len(stack) = {1}
        BY <2>2
      <3> QED
        BY <1>2, <2>1, <2>2, <3>1 DEF Brought
    <2>3. CASE Len(stack) = 2
      <3>1. 1..Len(stack) = {1, 2}
        BY <2>3
      <3> QED
        BY <1>2, <2>1, <2>3, <3>1 DEF Brought
    <2> QED
      BY <1>2, <2>2, <2>3
  <1>10. ASSUME NEW c \in LateTells
         PROVE  ReadyFor(next, immutable, tails, Top, c)
    <2>1. /\ c \in Client /\ (Top.prev \in sinks[c] \/ Top.next \in sinks[c])
          /\ sinks[c] = Own(c) \cup Brought(stack, Len(stack), c)
      <3>1. c \in Client /\ (Top.prev \in sinks[c] \/ Top.next \in sinks[c])
        BY DEF LateTells, ToldAt
      <3> QED
        BY <3>1 DEF Attachments
    <2> SUFFICES ASSUME ~Aside(next, tails, c)
                 PROVE  /\ \A l \in Got(next, tails, c) : Made(next, l) => Top.next \in Below(next, l[2])
                        /\ Serves(next, tails, c) => tails[c].at \in Below(next, Top.next)
      BY <1>4 DEF ReadyFor, Got, Handed, Serves
    <2>2. CASE Top.prev \in Own(c)
      <3>1. Serves(next, tails, c) /\ Lives(tails, c) /\ tails[c].at = Top.prev
        BY <1>2, <1>4, <2>2 DEF Own, Serves, Lives, IsOpen, Opening, Aside
      <3>2. Handling(tails, Top, c)
        BY <1>2, <1>3, <2>1, <3>1 DEF Trailing, Held, Covers
      <3>3. InHand(next, tails, Top, c)
        BY <1>2, <1>3, <1>8, <3>1, <3>2 DEF InHand
      <3> QED
        BY <1>5, <2>1, <3>1, <3>3
    <2>3. CASE Top.next \in Own(c)
      <3>1. Serves(next, tails, c) /\ tails[c].at = Top.next
        BY <2>3 DEF Own, Serves, IsOpen, Opening
      <3>2. ASSUME NEW l \in Got(next, tails, c), Made(next, l) PROVE Top.next \in Below(next, l[2])
        <4>1. CASE tails[c].at \in Below(next, l[2])
          BY <3>1, <4>1
        <4>2. CASE \E k \in 1..Len(stack) : InHand(next, tails, stack[k], c) /\ l = Link(stack[k])
          <5>1. PICK k \in 1..Len(stack) : InHand(next, tails, stack[k], c) /\ l = Link(stack[k])
            BY <4>2
          <5>2. k # Len(stack)
            BY <1>3, <1>5, <2>1, <3>1, <5>1
          <5>3. k = 1 /\ Len(stack) = 2
            <6>1. \A n \in {1, 2} : \A m \in 1..n : m # n => m = 1 /\ n = 2
              OBVIOUS
            <6> QED
              BY <1>2, <5>2, <6>1
          <5>4. l[2] = stack[1].next
            BY <5>1, <5>3 DEF Link
          <5> QED
            BY <1>7, <5>3, <5>4
        <4> QED
          BY <2>1, <3>1, <3>2, <4>1, <4>2 DEF Sequenced, Reaching
      <3> QED
        BY <1>2, <1>8, <3>1, <3>2
    <2>4. CASE Len(stack) = 2 /\ (Top.prev \in Brings(stack[1], c) \/ Top.next \in Brings(stack[1], c))
      <3>1. stack[1].tail = c /\ stack[1].head = Top.prev /\ stack[1].pc = "attach"
        BY <1>2, <2>4 DEF Brings
      <3>2. OuterOk(next, tails, stack[1])
        BY <1>1, <3>1 DEF Sequenced, Outer
      <3>3. ASSUME NEW l \in Got(next, tails, c), Made(next, l) PROVE Top.next \in Below(next, l[2])
        <4>1. l[2] \in Id
          BY <2>1, Grounds DEF Key
        <4>2. CASE Top.prev \in Below(next, l[2])
          BY <1>1, <1>2, <1>4, <4>1, <4>2, Onward
        <4>3. CASE l[1] = Top.prev
          <5>1. l[2] = Top.next
            BY <1>4, <3>3, <4>3 DEF Made
          <5> QED
            BY <1>2, <1>8, <5>1
        <4> QED
          BY <3>1, <3>2, <3>3, <4>2, <4>3 DEF OuterOk
      <3>4. ASSUME Serves(next, tails, c) PROVE tails[c].at \in Below(next, Top.next)
        <4>1. CASE tails[c].at = stack[1].from
          <5>1. stack[1].head \in Below(next, tails[c].at)
            BY <1>2, <2>4, <3>1, <4>1 DEF Trailing, Held, Chained
          <5>0. Lives(tails, c)
            <6> SUFFICES ASSUME tails[c].st = "opening" PROVE FALSE
              BY <3>4 DEF Serves, Lives
            <6>1. next[tails[c].at] = None /\ Below(next, tails[c].at) = {tails[c].at}
              BY <1>2, <2>1, <3>4, OpeningFree DEF Sequenced, Trailing
            <6> QED
              BY <1>2, <1>4, <3>1, <5>1, <6>1
          <5>2. Outrun(next, tails, stack[1], c)
            BY <1>2, <1>4, <2>4, <3>1, <5>0, <5>1 DEF Outrun
          <5>3. Handling(tails, Top, c)
            BY <1>1, <1>2, <2>1, <2>4, <5>2 DEF Trailing, TakenOver
          <5>4. InHand(next, tails, Top, c)
            BY <1>3, <3>1, <5>1, <5>3 DEF InHand
          <5> QED
            BY <1>5, <2>1, <3>4, <5>4
        <4>2. CASE tails[c].at # stack[1].from
          BY <1>4, <3>1, <3>2, <3>4, <4>2 DEF OuterOk
        <4> QED
          BY <4>1, <4>2
      <3> QED
        BY <3>3, <3>4
    <2> QED
      BY <1>9, <2>1, <2>2, <2>3, <2>4
  <1> QED
    BY <1>1, <1>4, <1>5, <1>6, <1>10, OverChain

LEMMA DroppedChain ==
  ASSUME TypeOK, Handlers, EveryIdResolves, EveryIdResolves', Sequenced, Dropped \/ Return
  PROVE  Sequenced'
  <1>1. /\ stack # <<>> /\ tails' = tails /\ immutable' = immutable /\ ~Works(Top)
        /\ Top.prev \in Id /\ Top.next \in Id /\ Top.next # None /\ next \in Links
        /\ Link(Top) \in Key
    BY OneOrTwo DEF Dropped, Return, TopAt, Works, TypeOK, Links, Handlers
  <1>2. \A d \in Client : ~InHand(next, tails, Top, d)
    BY <1>1 DEF InHand
  <1>3. CASE Return
    <2>1. \A d \in Client : \A l \in Got(next, tails, d) : ~Unmade(next, immutable, l)
      BY <1>3 DEF Return, Sequenced, Announcing, TopAt
    <2> QED
      BY <1>1, <1>2, <1>3, <2>1, OverChain DEF Return
  <1>4. CASE Dropped
    <2>1. next' = next
      <3> SUFFICES ASSUME next' # next PROVE FALSE
        OBVIOUS
      <3>1. next' = Linked(Top.prev, Top.next) /\ ~Accepts(Top.prev, Top.next)
        BY <1>4 DEF Dropped
      <3>2. Writes(Top.prev, Top.next)
        BY <3>1 DEF Linked
      <3>3. Heads(Linked(Top.prev, Top.next), Top.prev) # {}
        BY <1>1, <3>1 DEF EveryIdResolves
      <3> QED
        BY <3>1, <3>2, <3>3 DEF Accepts
    <2>2. ~Made(next, Link(Top)) /\ ~Unmade(next, immutable, Link(Top))
      <3>1. CASE Top.prev \in immutable
        BY <1>1, <3>1 DEF Sequenced, Frozen, Made, Unmade, Link
      <3>2. CASE Top.prev \notin immutable
        <4>1. ~Accepts(Top.prev, Top.next) /\ Linked(Top.prev, Top.next) = next
          BY <1>4, <2>1, <3>2 DEF Dropped
        <4>2. ~Made(next, Link(Top))
          BY <4>1 DEF Accepts, Made, Link
        <4>3. ASSUME Unmade(next, immutable, Link(Top)) PROVE FALSE
          <5>1. next[Top.prev] = None /\ Top.prev \notin Below(next, Top.next)
            BY <4>3 DEF Unmade, Link
          <5>2. PICK h \in Heads(next, Top.next) : TRUE
            BY <1>1 DEF EveryIdResolves
          <5>3. h # Top.prev
            BY <1>1, <5>1, <5>2, HeadBelow
          <5>4. Top.prev # Top.next
            BY <1>1, <5>1, BelowFacts
          <5>5. Writes(Top.prev, Top.next)
            BY <5>1, <5>2, <5>3, <5>4 DEF Writes
          <5>6. next[Top.prev] = Top.next
            BY <1>1, <4>1, <5>5 DEF Linked, Links
          <5> QED
            BY <1>1, <5>1, <5>6
        <4> QED
          BY <4>2, <4>3
      <3> QED
        BY <3>1, <3>2
    <2>3. \A d \in Client : \A l \in Got(next, tails, d) : ~Unmade(next, immutable, l)
      BY <2>2 DEF Sequenced, Announcing
    <2>4. \A c \in LateTells : ReadyFor(next, immutable, tails, Top, c)
      BY <2>2 DEF ReadyFor
    <2>5. Over
      BY <1>4 DEF Dropped
    <2> QED
      BY <1>1, <1>2, <2>1, <2>2, <2>3, <2>4, <2>5, OverChain
  <1> QED
    BY <1>3, <1>4

LEMMA ClientChain ==
  ASSUME TypeOK, Sequenced, NoneBehind, NEW c \in Client,
         (\E i \in Id : Subscribe(c, i)) \/ Subscribed(c) \/ Unsubscribe(c)
  PROVE  Sequenced'
  <1>1. /\ stack = <<>> /\ stack' = <<>> /\ next' = next /\ immutable' = immutable /\ next \in Links
        /\ tails \in [Client -> TailState] /\ Len(stack) = 0
    BY DEF Subscribe, Subscribed, Unsubscribe, Idle, TypeOK, Links
  <1>2. \A d \in Client : d # c => tails'[d] = tails[d]
    BY <1>1 DEF Subscribe, Subscribed, Unsubscribe
  <1>3. \A d \in Client : d # c => /\ Handed(next', tails', d) = Handed(next, tails, d)
                                   /\ Got(next', tails', d) = Got(next, tails, d)
                                   /\ Serves(next', tails', d) <=> Serves(next, tails, d)
    <2>1. \A d \in Client : d # c => (Aside(next', tails', d) <=> Aside(next, tails, d))
      BY <1>1, <1>2 DEF Aside
    <2> QED
      BY <1>2, <2>1 DEF Got, Handed, Serves
  <1>4. \/ /\ Got(next', tails', c) = {} /\ Handed(next', tails', c) = <<>>
           /\ Serves(next', tails', c) => next[tails'[c].at] = None
        \/ /\ Got(next', tails', c) = Got(next, tails, c) /\ Handed(next', tails', c) = Handed(next, tails, c)
           /\ Serves(next', tails', c) => Serves(next, tails, c) /\ tails'[c].at = tails[c].at
    <2>1. ASSUME NEW i \in Id, Subscribe(c, i)
          PROVE  /\ Got(next', tails', c) = {} /\ Handed(next', tails', c) = <<>>
                 /\ Serves(next', tails', c) => next[tails'[c].at] = None
      <3>1. PICK h \in Heads(next, i), q \in Room \cup {None} :
              tails' = [tails EXCEPT ![c] = [Fresh EXCEPT !.st = "opening", !.at = h, !.room = q]]
        BY <2>1 DEF Subscribe
      <3>2. next[h] = None
        BY HeadsType
      <3>3. tails'[c].got = <<>> /\ tails'[c].at = h
        BY <1>1, <3>1 DEF Fresh
      <3> QED
        BY <3>2, <3>3 DEF Got, Handed
    <2>2. ASSUME Subscribed(c)
          PROVE  /\ Got(next', tails', c) = Got(next, tails, c) /\ Handed(next', tails', c) = Handed(next, tails, c)
                 /\ Serves(next', tails', c) => Serves(next, tails, c) /\ tails'[c].at = tails[c].at
      <3>1. /\ tails[c].st = "opening" /\ tails'[c].st = "open" /\ tails'[c].at = tails[c].at
            /\ tails'[c].missed = IF next[tails[c].at] = None THEN None ELSE tails[c].at
            /\ tails'[c].got = tails[c].got
        BY <1>1, <2>2 DEF Subscribed, Opening, TailState
      <3>2. tails[c].at # None
        BY <3>1, RegistryAssumption DEF NoneBehind, Placed
      <3>3. Aside(next', tails', c) <=> Aside(next, tails, c)
        BY <1>1, <3>1, <3>2 DEF Aside
      <3> QED
        BY <3>1, <3>3 DEF Got, Handed, Serves
    <2>3. ASSUME Unsubscribe(c)
          PROVE  /\ Got(next', tails', c) = Got(next, tails, c) /\ Handed(next', tails', c) = Handed(next, tails, c)
                 /\ ~Serves(next', tails', c)
      <3>1. /\ tails[c].st = "open" /\ tails'[c].st = "closed" /\ tails'[c].missed = tails[c].missed
            /\ tails'[c].got = tails[c].got
        BY <1>1, <2>3 DEF Unsubscribe, IsOpen, TailState
      <3>2. Aside(next', tails', c) <=> Aside(next, tails, c)
        BY <3>1 DEF Aside
      <3> QED
        BY <3>1, <3>2 DEF Got, Handed, Serves
    <2> QED
      BY <2>1, <2>2, <2>3
  <1>5. Frozen' /\ Linking' /\ Outer' /\ Ready'
    BY <1>1 DEF Sequenced, Frozen, Linking, Outer, Ready, TopAt
  <1>6. Kept'
    BY <1>1, <1>2, <1>3, <1>4 DEF Sequenced, Kept
  <1>7. Reaching'
    <2>1. \A d \in Client : Serves(next, tails, d) =>
            \A l \in Got(next, tails, d) : Made(next, l) => tails[d].at \in Below(next, l[2])
      BY <1>1 DEF Sequenced, Reaching
    <2>2. ASSUME NEW d \in Client, Serves(next', tails', d), NEW l \in Got(next', tails', d), Made(next, l)
          PROVE  tails'[d].at \in Below(next, l[2])
      BY <1>2, <1>3, <1>4, <2>1, <2>2
    <2> QED
      BY <1>1, <2>2 DEF Reaching
  <1>8. Ordered'
    <2>1. InOrder(next, <<>>) /\ NewestLast(next, immutable, <<>>)
      BY DEF InOrder, NewestLast
    <2> QED
      BY <1>1, <1>3, <1>4, <2>1 DEF Sequenced, Ordered
  <1>9. Announcing'
    <2>1. \A d \in Client : \A l \in Got(next, tails, d) : ~Unmade(next, immutable, l)
      BY <1>1 DEF Sequenced, Announcing, TopAt
    <2>2. \A d \in Client : \A l \in Got(next', tails', d) : ~Unmade(next, immutable, l)
      BY <1>3, <1>4, <2>1
    <2> QED
      BY <1>1, <2>2 DEF Announcing
  <1> QED
    BY <1>5, <1>6, <1>7, <1>8, <1>9 DEF Sequenced

\* A process that has just started has handed nothing.
LEMMA FreshChain == Init => Sequenced
  <1> SUFFICES ASSUME Init PROVE Sequenced
    OBVIOUS
  <1>1. /\ \A c \in Client : ~Serves(next, tails, c) /\ Handed(next, tails, c) = <<>> /\ Got(next, tails, c) = {}
        /\ stack = <<>> /\ Len(stack) = 0
    BY DEF Init, Fresh, Serves, Got, Handed
  <1>2. Frozen
    BY RegistryAssumption DEF Frozen, Init
  <1>3. Linking /\ Outer /\ Ready
    BY <1>1 DEF Linking, Outer, Ready, TopAt
  <1>4. InOrder(next, <<>>) /\ NewestLast(next, immutable, <<>>)
    BY DEF InOrder, NewestLast
  <1> QED
    BY <1>1, <1>2, <1>3, <1>4 DEF Sequenced, Kept, Reaching, Ordered, Announcing

LEMMA RestartChain == Restart => Sequenced'
  <1> SUFFICES ASSUME Restart PROVE Sequenced'
    OBVIOUS
  <1>1. /\ \A c \in Client : ~Serves(next', tails', c) /\ Handed(next', tails', c) = <<>> /\ Got(next', tails', c) = {}
        /\ stack' = <<>> /\ Len(stack') = 0
    BY DEF Restart, Fresh, Serves, Got, Handed
  <1>2. Frozen'
    BY DEF Frozen, Restart
  <1>3. Linking' /\ Outer' /\ Ready'
    BY <1>1 DEF Linking, Outer, Ready, TopAt
  <1>4. InOrder(next', <<>>) /\ NewestLast(next', immutable', <<>>)
    BY DEF InOrder, NewestLast
  <1> QED
    BY <1>1, <1>2, <1>3, <1>4 DEF Sequenced, Kept, Reaching, Ordered, Announcing

LEMMA StepChain ==
  ASSUME TypeOK, TypeOK', Handlers, Attachments, Trailing, Acyclic(next), Acyclic(next'),
         EveryIdResolves, EveryIdResolves', Sequenced, Next, ~Restart, ~ApplyCrumb
  PROVE  Sequenced'
  <1>1. CASE UNCHANGED <<next, immutable, tails, stack>>
    BY <1>1 DEF Sequenced, Frozen, Linking, Kept, Reaching, Ordered, Announcing, Outer, Ready, TopAt, Top
  <1>2. CASE Recorded
    <2>1. Top.next \in Id
      BY <1>2, TopType DEF TypeOK, Recorded, TopAt, Frame
    <2>2. Heads(next', Top.next) # {}
      BY <2>1 DEF EveryIdResolves
    <2>3. PICK h \in Heads(next', Top.next) :
            Becomes([Top EXCEPT !.pc = "rekey", !.head = h, !.todo = OpenTails])
      BY <1>2, <2>2 DEF Recorded
    <2> QED
      BY <1>2, <2>3, RecordedChain
  <1> QED
    BY <1>1, <1>2, AnnouncedChain, TellChain, MoveChain, AttachedChain, RetireChain, DroppedChain,
       ClientChain
       DEF Next, Switch, ReadCrumbs, Trailing

ChainInv == restore.reading => restore.rows = <<>> /\ Sequenced

LEMMA StepChainInv ==
  /\ TypeOK /\ TypeOK' /\ Handlers /\ Attachments /\ Trailing
  /\ AliasesAcyclic /\ AliasesAcyclic' /\ EveryIdResolves /\ EveryIdResolves'
  /\ ChainInv /\ [Next]_vars
  => ChainInv'
  <1> SUFFICES ASSUME TypeOK, TypeOK', Handlers, Attachments, Trailing,
                      AliasesAcyclic, AliasesAcyclic', EveryIdResolves, EveryIdResolves',
                      ChainInv, [Next]_vars, restore'.reading
               PROVE  restore'.rows = <<>> /\ Sequenced'
    BY DEF ChainInv
  <1>1. Acyclic(next) /\ Acyclic(next')
    BY DEF Acyclic, AliasesAcyclic
  <1>2. CASE Restart
    BY <1>2, RestartChain DEF Restart
  <1>3. CASE UNCHANGED vars
    BY <1>3 DEF vars, ChainInv, Sequenced, Frozen, Linking, Kept, Reaching, Ordered, Announcing, Outer,
       Ready, TopAt, Top
  <1>4. CASE Next /\ ~Restart
    <2>1. ~ReadCrumbs(TRUE) /\ ~ReadCrumbs(FALSE)
      BY DEF ReadCrumbs
    <2>2. restore' = restore \/ ApplyCrumb
      BY <1>4, <2>1 DEF Next, Switch, Announced, Tell, Return, Dropped, Recorded, Move, Attached, Retire,
         Subscribe, Subscribed, Unsubscribe
    <2>3. restore'.reading = restore.reading
      BY <2>2 DEF ApplyCrumb, TypeOK
    <2>4. restore.rows = <<>> /\ Sequenced
      BY <2>3 DEF ChainInv
    <2>5. ~ApplyCrumb /\ restore' = restore
      BY <2>2, <2>4 DEF ApplyCrumb
    <2>6. Sequenced'
      BY <1>1, <1>4, <2>4, <2>5, StepChain
    <2> QED
      BY <2>4, <2>5, <2>6
  <1> QED
    BY <1>2, <1>3, <1>4

\* While every id resolves, a client is never handed the earlier of two recorded links of a
\* chain after the later one, from a start until the aliases are restored: wherever its tail
\* was when handlers nested, whenever its driver told it and whatever was refused or left.
\* Excepted is a tail that was superseded inside the subscribe that opened it.
THEOREM ChainOrderKept == Spec /\ []EveryIdResolves => []InChainOrder
  <1>1. Init => Trailing /\ Attachments
    BY DEF Init, Trailing, Held, InnerEnd, TakenOver, NoneBehind, Placed, Lives, Fresh, Attachments, Sources,
       Own, IsOpen, Opening, Brought
  <1>2. Init => ChainInv
    <2> SUFFICES ASSUME Init PROVE restore.rows = <<>> /\ Sequenced
      BY DEF ChainInv
    <2> QED
      BY FreshChain DEF Init
  <1>3. TypeOK /\ AliasesAcyclic /\ ChainInv => InChainOrder
    <2> SUFFICES ASSUME TypeOK, AliasesAcyclic, Sequenced, NEW c \in Client,
                        tails[c].missed = None, tails[c].st # "opening",
                        NEW j \in DOMAIN tails[c].got, NEW k \in DOMAIN tails[c].got, j < k,
                        Made(next, tails[c].got[j]), Made(next, tails[c].got[k])
                 PROVE  tails[c].got[j][1] \notin Down(tails[c].got[k][2])
      BY DEF InChainOrder, ChainInv, Made, Opening
    <2> DEFINE one == tails[c].got[j]
               other == tails[c].got[k]
    <2>1. next \in Links /\ Acyclic(next) /\ tails[c].got \in Seq(Key)
      BY Grounds DEF AliasesAcyclic, Acyclic
    <2>2. j \in 1..Len(tails[c].got) /\ k \in 1..Len(tails[c].got)
      BY <2>1
    <2>3. one \in Key /\ one[1] \in Id /\ one[2] \in Id
      BY <2>1, <2>2 DEF Key
    <2>4. other[2] \in Below(next, one[2])
      <3>1. Handed(next, tails, c) = tails[c].got
        BY DEF Handed, Aside
      <3> QED
        BY <2>2, <3>1 DEF Sequenced, Ordered, InOrder
    <2>5. one[1] \notin Below(next, other[2])
      BY <2>1, <2>3, <2>4, NoWayBack DEF Made
    <2> QED
      BY <2>5, DownIsBelow
  <1> QED
    BY <1>1, <1>2, <1>3, StepChainInv, StepAttachments, StepTrails, StepHandlers, InitHandlers,
       NoCycle, TypeCorrect, PTL DEF Spec

\* So a harness that has had no more ids than the cap leaves no tail behind and hands no
\* rotations out of the order of their chain, with nothing assumed of its run. Both say
\* nothing of a tail that was superseded inside the very subscribe that opened it.
COROLLARY SmallRegistry ==
  IsFiniteSet(Id) /\ Cardinality(Id) <= MaxDepth => (Spec => [](NoTailLeftBehind /\ InChainOrder))
  <1> SUFFICES ASSUME IsFiniteSet(Id), Cardinality(Id) <= MaxDepth
               PROVE  Spec => [](NoTailLeftBehind /\ InChainOrder)
    OBVIOUS
  <1>1. Spec => []EveryIdResolves
    BY ShortChains
  <1> QED
    BY <1>1, TailsMoveOn, ChainOrderKept, PTL
=============================================================================
