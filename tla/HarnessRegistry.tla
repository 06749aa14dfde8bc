-------------------------- MODULE HarnessRegistry --------------------------
(***************************************************************************)
(* How den-server follows a harness that changes its session id: the alias *)
(* store (harness/alias.ts), the registry's rotation handler and the live  *)
(* tails it moves (harness/registry.ts), the rooms of an adopting driver   *)
(* (harness/adopting-harness-driver.ts) and the rebuilding of the aliases  *)
(* after a restart (harness/alias-restore.ts).                             *)
(*                                                                         *)
(* There is one harness, so no alias crosses harnesses. JavaScript runs a  *)
(* handler to completion, but the handler calls out: a client's sink may   *)
(* unsubscribe from inside a delivery, and a driver may emit its next      *)
(* rotation from inside subscribe, whether the subscribe opens a tail or   *)
(* moves one. The handlers that are under way are the frames of a stack,   *)
(* innermost last, and an action is what the innermost one does up to its  *)
(* next call out; a subscribeSession that is under way is the state of its *)
(* tail, below all of them.                                                *)
(***************************************************************************)
EXTENDS Naturals, Sequences, FiniteSets

CONSTANTS
  Id,           \* native session ids of the harness
  Room,         \* den rooms the harness runs in
  Client,       \* per-session subscriptions (subscribeSession)
  None,         \* no session, no successor
  MaxDepth,     \* MAX_ALIAS_CHAIN_DEPTH, and the window ROTATION_MEMORY
  Minted,       \* ids whose rotation is refused until the process restarts
  Orders,       \* when the driver tells its own sinks of a rotation
  MayLeave,     \* a sink may unsubscribe from inside a delivery
  MayRefuse,    \* driver.subscribe may throw while a tail is being moved
  MayReenter,   \* driver.subscribe may emit the next rotation before it returns
  MaxSwitches,  \* bound: changes of session
  MaxPosted,    \* bound: announcements of earlier sessions on the wire
  MaxRestarts   \* bound: restarts of den-server

Key == Id \X Id  \* a rotation: <<previous, next>>

ASSUME RegistryAssumption ==
  /\ None \notin Id \cup Room \cup Client
  /\ MaxDepth \in Nat \ {0}
  /\ Minted \subseteq Id
  /\ Orders \subseteq {"before", "after", "successor", "silent"}
  /\ MaxSwitches \in Nat /\ MaxPosted \in Nat /\ MaxRestarts \in Nat

VARIABLES
  runs,        \* Room -> the session the harness runs there
  posted,      \* announcements of earlier sessions that are still on the wire
  crumbs,      \* the rotation breadcrumbs in the memory database, oldest first
  next,        \* the alias store: previous -> next
  retired,     \* ids already reported ended by a rotation
  immutable,   \* minted, or with supersedes lineage
  roomNative,  \* Room -> the session the driver knows there
  tails,       \* Client -> its SessionSubscription
  sinks,       \* Client -> the ids the driver calls it for
  stack,       \* the handlers under way
  restore,     \* the rebuilding of the aliases: whether it has to read, its rows
  ended,       \* history: ids reported ended on the registry stream
  restarts

durable == <<runs, posted, crumbs>>
vars == <<durable, next, retired, immutable, roomNative, tails, sinks, stack,
          restore, ended, restarts>>

\* opening: driver.subscribe has the sink and has not returned. deaf: the client was told
\* its tail is dead. History: got, the rotations handed to the client; missed, the id the
\* tail was added on, if that was superseded while the tail was opening.
TailState == [st : {"none", "opening", "open", "closed"}, at : Id \cup {None},
              delivered : Seq(Key), got : Seq(Key), room : Room \cup {None},
              deaf : BOOLEAN, missed : Id \cup {None}]
Fresh == [st |-> "none", at |-> None, delivered |-> <<>>, got |-> <<>>,
          room |-> None, deaf |-> FALSE, missed |-> None]

\* tail, from: the tail being moved and attachedAt; failed: attachFailed.
Frame == [prev : Id, next : Id, order : Orders, head : Id \cup {None},
          pc : {"tell", "rekey", "attach", "tellLate"}, todo : SUBSET Client,
          tail : Client \cup {None}, from : Id \cup {None}, failed : BOOLEAN]

TypeOK ==
  /\ runs \in [Room -> Id \cup {None}]
  /\ posted \subseteq Room \X Id
  /\ crumbs \in Seq(Key)
  /\ next \in [Id -> Id \cup {None}]
  /\ retired \subseteq Id
  /\ immutable \subseteq Id
  /\ roomNative \in [Room -> Id \cup {None}]
  /\ tails \in [Client -> TailState]
  /\ sinks \in [Client -> SUBSET Id]
  /\ stack \in Seq(Frame)
  /\ restore \in [reading : BOOLEAN, rows : Seq(Key)]
  /\ ended \in Seq(Id)
  /\ restarts \in 0..MaxRestarts

Init ==
  /\ runs = [r \in Room |-> None] /\ posted = {} /\ crumbs = <<>>
  /\ next = [i \in Id |-> None] /\ retired = {} /\ immutable = Minted
  /\ roomNative = [r \in Room |-> None]
  /\ tails = [c \in Client |-> Fresh] /\ sinks = [c \in Client |-> {}]
  /\ stack = <<>> /\ restore = [reading |-> TRUE, rows |-> <<>>]
  /\ ended = <<>> /\ restarts = 0

----------------------------------------------------------------------------
(* The alias store.                                                        *)

\* resolve: the end of the chain from i, or none of it when the chain is too long.
Heads(nx, i) ==
  LET walk[n \in Nat] ==
        IF n = 0 THEN i
        ELSE LET at == walk[n - 1] IN IF nx[at] = None THEN at ELSE nx[at]
  IN {h \in Id : h = walk[MaxDepth - 1] /\ nx[h] = None}

\* Mistake: the cycle is not looked for.
WritesCycle(prev, to) == prev # to /\ next[prev] = None /\ Heads(next, to) # {}
\* record writes the link: no other successor, no cycle, canonical resolves.
Writes(prev, to) ==
  /\ prev # to
  /\ next[prev] = None
  /\ \E h \in Heads(next, to) : h # prev
Linked(prev, to) == IF Writes(prev, to) THEN [next EXCEPT ![prev] = to] ELSE next
\* record returns: the link was there, or the chain it made is short enough.
Accepts(prev, to) ==
  \/ next[prev] = to
  \/ Writes(prev, to) /\ Heads(Linked(prev, to), prev) # {}

----------------------------------------------------------------------------
(* Tails.                                                                  *)

\* The tails in sessionSubs.
IsOpen(c) == tails[c].st = "open"
OpenTails == {c \in Client : IsOpen(c)}
ToldAt(id) == {c \in Client : id \in sinks[c]}

\* remember: beyond the window the oldest rotation is forgotten.
Remember(window, key) ==
  LET all == Append(window, key)
  IN IF Len(all) <= MaxDepth THEN all ELSE Tail(all)

\* Mistake: nothing remembers what was delivered.
KnowsNothing(c, key) == FALSE
Knows(c, key) == \E k \in DOMAIN tails[c].delivered : tails[c].delivered[k] = key
Given(c, key) ==
  IF Knows(c, key) THEN tails[c]
  ELSE [tails[c] EXCEPT !.delivered = Remember(@, key), !.got = Append(@, key)]

\* Client c is handed the rotation key unless it has it, and may unsubscribe from inside.
HandTo(c, key, leaves) ==
  /\ leaves => MayLeave /\ ~Knows(c, key) /\ IsOpen(c)
  /\ tails' = [tails EXCEPT ![c] = [Given(c, key) EXCEPT !.st = IF leaves THEN "closed" ELSE @]]

Detached(c, id) == [sinks EXCEPT ![c] = @ \ {id}]

----------------------------------------------------------------------------
(* The handlers under way.                                                 *)

Opening(c) == tails[c].st = "opening"
Idle == stack = <<>> /\ restore.rows = <<>> /\ \A c \in Client : ~Opening(c)
Top == stack[Len(stack)]
Becomes(f) == stack' = [stack EXCEPT ![Len(stack)] = f]
TopAt(pc) == stack # <<>> /\ Top.pc = pc

----------------------------------------------------------------------------
(* The harness and its driver.                                             *)

\* on_session_switch: capture writes a breadcrumb unless there was no session before.
Breadcrumb(r, i) == IF runs[r] = None THEN crumbs ELSE Append(crumbs, <<runs[r], i>>)

\* The harness changes the session of room r. What the hooks posted about the old session
\* may still be on its way.
Switch(r, i) ==
  /\ Idle
  /\ runs[r] # i
  /\ Len(crumbs) < MaxSwitches
  /\ runs' = [runs EXCEPT ![r] = i]
  /\ \/ UNCHANGED posted
     \/ /\ runs[r] # None /\ Cardinality(posted) < MaxPosted
        /\ posted' = posted \cup {<<r, runs[r]>>}
  /\ crumbs' = Breadcrumb(r, i)
  /\ UNCHANGED <<next, retired, immutable, roomNative, tails, sinks, stack, restore, ended, restarts>>

\* The driver is inside subscribe to the session id: for a tail that is being moved, or for
\* one that is being opened.
Subscribing(id) ==
  \/ TopAt("attach") /\ ~Top.failed /\ Len(stack) = 1 /\ Top.head = id
  \/ stack = <<>> /\ \E c \in Client : Opening(c) /\ tails[c].at = id

\* The driver may handle an announcement of i: nothing runs, or it is inside subscribe and
\* i is the next session of the one being subscribed to.
MayEmit(r, i) ==
  \/ Idle
  \/ /\ MayReenter /\ Subscribing(roomNative[r])
     /\ next[i] = None /\ \A j \in Id : next[j] # i

\* nativeFor, bindRoom and rotate: a den event says that room r runs session i. The first
\* sighting is an adoption; a room that changes its session is a rotation.
Announced(r, i) ==
  /\ runs[r] = i \/ <<r, i>> \in posted
  /\ roomNative[r] # i
  /\ MayEmit(r, i)
  /\ posted' = posted \ {<<r, i>>}
  /\ roomNative' = [roomNative EXCEPT ![r] = i]
  /\ \/ roomNative[r] = None /\ UNCHANGED stack
     \/ \E order \in Orders :
          /\ roomNative[r] # None
          /\ stack' = Append(stack,
               [prev |-> roomNative[r], next |-> i, order |-> order, head |-> None, pc |-> "tell",
                todo |-> IF order = "before" THEN ToldAt(roomNative[r]) ELSE {},
                tail |-> None, from |-> None, failed |-> FALSE])
  /\ UNCHANGED <<runs, crumbs, next, retired, immutable, tails, sinks, restore, ended, restarts>>

\* emit: the driver tells its own sink of client c, before or after the registry.
Tell(c, leaves) ==
  /\ TopAt("tell") \/ TopAt("tellLate")
  /\ c \in Top.todo
  /\ HandTo(c, <<Top.prev, Top.next>>, leaves)
  /\ sinks' = IF leaves THEN Detached(c, tails[c].at) ELSE sinks
  /\ Becomes([Top EXCEPT !.todo = @ \ {c}])
  /\ UNCHANGED <<durable, next, retired, immutable, roomNative, restore, ended, restarts>>

LateTells == IF Top.order = "after" THEN ToldAt(Top.prev)
             ELSE IF Top.order = "successor" THEN ToldAt(Top.next)
             ELSE {}
\* The registry's handler is over; rotate goes on, and returns when it has told its sinks.
Pop == stack' = SubSeq(stack, 1, Len(stack) - 1)
Over == IF LateTells = {} THEN Pop ELSE Becomes([Top EXCEPT !.pc = "tellLate", !.todo = LateTells])

Return ==
  /\ TopAt("tellLate") /\ Top.todo = {}
  /\ Pop
  /\ UNCHANGED <<durable, next, retired, immutable, roomNative, tails, sinks, restore, ended, restarts>>

----------------------------------------------------------------------------
(* The registry's handler of a rotation.                                   *)

\* The rotation of an immutable session is dropped, and so is one that the alias store
\* refuses: the event is fanned out and nothing is moved.
Dropped ==
  /\ TopAt("tell") /\ Top.todo = {}
  /\ Top.prev \in immutable \/ ~Accepts(Top.prev, Top.next)
  /\ next' = IF Top.prev \in immutable THEN next ELSE Linked(Top.prev, Top.next)
  /\ Over
  /\ UNCHANGED <<durable, retired, immutable, roomNative, tails, sinks, restore, ended, restarts>>

\* The alias is recorded, and the tails are to follow it to the end of the chain. A chain
\* too long from there on throws out of the handler.
Recorded ==
  /\ TopAt("tell") /\ Top.todo = {}
  /\ Top.prev \notin immutable /\ Accepts(Top.prev, Top.next)
  /\ next' = Linked(Top.prev, Top.next)
  /\ \/ Heads(next', Top.next) = {} /\ Over
     \/ \E h \in Heads(next', Top.next) :
          Becomes([Top EXCEPT !.pc = "rekey", !.head = h, !.todo = OpenTails])
  /\ UNCHANGED <<durable, retired, immutable, roomNative, tails, sinks, restore, ended, restarts>>

\* Mistakes: a tail that was told is taken for one that was moved; a tail that a nested
\* rotation took further is brought back.
FollowsUntold(c) ==
  /\ c \in Top.todo /\ IsOpen(c) /\ ~Knows(c, <<Top.prev, Top.next>>)
  /\ tails[c].at # Top.head /\ Top.head \in Heads(next, tails[c].at)
FollowsAnywhere(c) == c \in Top.todo /\ IsOpen(c) /\ tails[c].at # Top.head
\* rekey has not seen tail c, which is on an id of this chain other than its end. It passes
\* over the tails that are not.
Follows(c) ==
  /\ c \in Top.todo /\ IsOpen(c)
  /\ tails[c].at # Top.head /\ Top.head \in Heads(next, tails[c].at)

\* The tail is handed the rotation and, unless its client left, attached at the end of the
\* chain as well.
Move(c, leaves, refuses) ==
  /\ TopAt("rekey") /\ Follows(c)
  /\ HandTo(c, <<Top.prev, Top.next>>, leaves)
  /\ refuses => MayRefuse /\ ~leaves
  /\ IF leaves
     THEN /\ sinks' = Detached(c, tails[c].at)
          /\ Becomes([Top EXCEPT !.todo = @ \ {c}])
     ELSE /\ sinks' = IF refuses THEN sinks ELSE [sinks EXCEPT ![c] = @ \cup {Top.head}]
          /\ Becomes([Top EXCEPT !.pc = "attach", !.todo = @ \ {c}, !.tail = c,
                                 !.from = tails[c].at, !.failed = refuses])
  /\ UNCHANGED <<durable, next, retired, immutable, roomNative, restore, ended, restarts>>

\* Mistake: the outer frame assigns its stale locals.
OvertakenByLeaving(c) == ~IsOpen(c)
\* A nested rotation moved the tail, or its client left.
Overtaken(c) == ~IsOpen(c) \/ tails[c].at # Top.from

\* driver.subscribe returns: a tail that was overtaken keeps what it has, another one is
\* detached from where it was.
Attached ==
  /\ TopAt("attach")
  /\ IF Overtaken(Top.tail)
     THEN /\ sinks' = IF Top.failed THEN sinks ELSE Detached(Top.tail, Top.head)
          /\ UNCHANGED tails
     ELSE /\ sinks' = Detached(Top.tail, Top.from)
          /\ tails' = [tails EXCEPT ![Top.tail] = [@ EXCEPT !.at = Top.head, !.deaf = Top.failed]]
  /\ Becomes([Top EXCEPT !.pc = "rekey", !.tail = None, !.from = None, !.failed = FALSE])
  /\ UNCHANGED <<durable, next, retired, immutable, roomNative, restore, ended, restarts>>

\* Mistake: the driver says it again, and so does the registry.
ReportedAgain(prev) == Append(ended, prev)
\* The superseded id is reported ended unless it was already.
Reported(prev) == IF prev \in retired THEN ended ELSE Append(ended, prev)

\* Every tail was seen to: the rotation is fanned out, and the superseded id retires.
Retire ==
  /\ TopAt("rekey") /\ \A c \in Client : ~Follows(c)
  /\ retired' = retired \cup {Top.prev}
  /\ ended' = Reported(Top.prev)
  /\ Over
  /\ UNCHANGED <<durable, next, immutable, roomNative, tails, sinks, restore, restarts>>

----------------------------------------------------------------------------
(* Clients.                                                                *)

\* subscribeSession under an id the harness has run calls the driver; a chain too long
\* throws, and so does a driver that cannot serve a tail.
Subscribe(c, i) ==
  /\ Idle
  /\ \E r \in Room : runs[r] = i \/ \E k \in DOMAIN crumbs : i \in {crumbs[k][1], crumbs[k][2]}
  /\ tails[c].st = "none"
  /\ \E h \in Heads(next, i), r \in Room \cup {None} :
       /\ IF \E q \in Room : roomNative[q] = h
          THEN r # None /\ roomNative[r] = h
          ELSE r = None
       /\ tails' = [tails EXCEPT ![c] = [Fresh EXCEPT !.st = "opening", !.at = h, !.room = r]]
       /\ sinks' = [sinks EXCEPT ![c] = {h}]
  /\ UNCHANGED <<durable, next, retired, immutable, roomNative, stack, restore, ended, restarts>>

\* driver.subscribe returns, and only now is the tail where rekey finds it.
Subscribed(c) ==
  /\ stack = <<>> /\ Opening(c)
  /\ LET at == tails[c].at IN
       tails' = [tails EXCEPT ![c] = [@ EXCEPT !.st = "open",
                                               !.missed = IF next[at] = None THEN None ELSE at]]
  /\ UNCHANGED <<durable, next, retired, immutable, roomNative, sinks, stack, restore, ended, restarts>>

Unsubscribe(c) ==
  /\ Idle
  /\ IsOpen(c)
  /\ tails' = [tails EXCEPT ![c].st = "closed"]
  /\ sinks' = Detached(c, tails[c].at)
  /\ UNCHANGED <<durable, next, retired, immutable, roomNative, stack, restore, ended, restarts>>

----------------------------------------------------------------------------
(* Restarts.                                                               *)

\* Everything but the harness and the database dies with the process.
Restart ==
  /\ restarts < MaxRestarts
  /\ restarts' = restarts + 1
  /\ next' = [i \in Id |-> None] /\ retired' = {} /\ immutable' = {}
  /\ roomNative' = [r \in Room |-> None]
  /\ tails' = [c \in Client |-> Fresh] /\ sinks' = [c \in Client |-> {}]
  /\ stack' = <<>> /\ restore' = [reading |-> TRUE, rows |-> <<>>]
  /\ ended' = <<>>
  /\ UNCHANGED durable

\* restoreHarnessAliases reads the breadcrumbs some time after the start, or fails to.
ReadCrumbs(fails) ==
  /\ Idle /\ restore.reading
  /\ restore' = [reading |-> FALSE, rows |-> IF fails THEN <<>> ELSE crumbs]
  /\ UNCHANGED <<durable, next, retired, immutable, roomNative, tails, sinks, stack, ended, restarts>>

\* Each row goes through registry.alias, which moves no tail and retires nothing. What
\* record refuses is dropped.
ApplyCrumb ==
  /\ stack = <<>> /\ restore.rows # <<>>
  /\ LET row == Head(restore.rows) IN next' = Linked(row[1], row[2])
  /\ restore' = [restore EXCEPT !.rows = Tail(@)]
  /\ UNCHANGED <<durable, retired, immutable, roomNative, tails, sinks, stack, ended, restarts>>

----------------------------------------------------------------------------
Next ==
  \/ \E r \in Room, i \in Id : Switch(r, i) \/ Announced(r, i)
  \/ \E c \in Client, leaves \in BOOLEAN : Tell(c, leaves)
  \/ Return \/ Dropped \/ Recorded
  \/ \E c \in Client, leaves, refuses \in BOOLEAN : Move(c, leaves, refuses)
  \/ Attached \/ Retire
  \/ \E c \in Client, i \in Id : Subscribe(c, i)
  \/ \E c \in Client : Subscribed(c) \/ Unsubscribe(c)
  \/ Restart \/ ApplyCrumb
  \/ \E fails \in BOOLEAN : ReadCrumbs(fails)

Spec == Init /\ [][Next]_vars

----------------------------------------------------------------------------
(* What the registry promises.                                             *)

\* The aliases have no cycle: no set of ids has all its successors inside (a recorded
\* cycle would poison every later resolve).
AliasesAcyclic == \A S \in SUBSET Id : S # {} => \E i \in S : next[i] \notin S

\* Once the handlers are over, an open tail is attached to the driver under exactly the id
\* it is on, or under none and its client was told so; a closed one is attached nowhere.
AttachedWhereItIs ==
  Idle => \A c \in Client :
            sinks[c] = IF IsOpen(c) /\ ~tails[c].deaf THEN {tails[c].at} ELSE {}

\* Once the handlers are over, no live tail is on an id that was reported ended (as long as
\* the chains are shorter than MaxDepth: EveryIdResolves is about those that are not), but
\* for a tail that is still where it was opened, that id superseded inside the very
\* subscribe that opened it: OpenedWhereItRuns is about such a one.
NoTailLeftBehind ==
  Idle => \A c \in Client : IsOpen(c) /\ tails[c].at # tails[c].missed => tails[c].at \notin retired

\* A client is handed a rotation once, whenever the driver tells its own sinks of it:
\* never again within the next MaxDepth rotations it is handed.
RotationOnce ==
  \A c \in Client : \A j, k \in DOMAIN tails[c].got :
    j < k /\ k <= j + MaxDepth => tails[c].got[j] # tails[c].got[k]

\* The ids the aliases lead to from i, i included.
Down(i) == {j \in Id : \A S \in SUBSET Id :
                         i \in S /\ (\A x \in S : next[x] \in S \cup {None}) => j \in S}

\* Deliver, then move: of two recorded links of a chain, a client is never handed the
\* earlier one after the later one, as long as all links come from rotations (aliases that
\* are restored move no tail, and a later rotation above them reaches the tails below) and
\* the tail missed none while it was opening.
InChainOrder ==
  restore.reading =>
    \A c \in Client : tails[c].missed = None /\ ~Opening(c) => \A j, k \in DOMAIN tails[c].got :
      LET one == tails[c].got[j]  other == tails[c].got[k]
      IN j < k /\ next[one[1]] = one[2] /\ next[other[1]] = other[2]
           => one[1] \notin Down(other[2])

\* A superseded id is reported ended once, whatever the driver says again, and an id that
\* was reported ended stays superseded.
RetiredOnce ==
  /\ \A j, k \in DOMAIN ended : ended[j] = ended[k] => j = k
  /\ \A k \in DOMAIN ended : next[ended[k]] # None

\* registry.ts:22-23: subscriptions survive rotation. When the driver knows what a room
\* runs, an open tail that was opened on the session of the room is on that session.
TailFollowsRoom ==
  Idle => \A c \in Client :
            IsOpen(c) /\ tails[c].room # None /\ roomNative[tails[c].room] = runs[tails[c].room]
              => tails[c].at = runs[tails[c].room]

\* registry.ts:22-23: a rotation re-keys every live per-session subscription off the
\* superseded id. No open tail stays on an id that was reported ended.
OpenedWhereItRuns == Idle => \A c \in Client : IsOpen(c) => tails[c].at \notin retired

\* alias.ts:172-173: a long chain fails at the rotation that broke it, not at some later
\* unrelated read. Every id resolves.
EveryIdResolves == \A i \in Id : Heads(next, i) # {}
=============================================================================
