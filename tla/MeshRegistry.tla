----------------------------- MODULE MeshRegistry -----------------------------
(***************************************************************************)
(* The mesh registry (packages/core/src/domain/mesh.ts, FileMeshRegistry): *)
(* every node keeps the roster of the mesh in one shared file, mesh.json,  *)
(* which it loads, changes and saves without a lock: when it starts, at    *)
(* every heartbeat, when a node joins through its agent channel, when it   *)
(* copies a seed's roster.                                                 *)
(*                                                                         *)
(* A registry call is a slot whose pc names its next await: the file is    *)
(* read, the temporary file opened (and thereby truncated), written, and   *)
(* renamed.  A descriptor follows its inode: when the temporary file is    *)
(* renamed under a call that is still writing, the call writes mesh.json.  *)
(*                                                                         *)
(* Time is the age of lastSeen in ticks of the clock, which ages every     *)
(* copy of an entry; ages past the stale threshold are not told apart.     *)
(***************************************************************************)
EXTENDS Naturals, FiniteSets

CONSTANTS
  Node,        \* nodes that run a runtime; their ids in the roster
  Infra,       \* ids of the roster with a role other than agent
  Guest,       \* ids that "mesh join" makes up: nobody heartbeats them
  Slot,        \* registry calls that may be in flight
  SlotNode,    \* Slot -> Node
  Path,        \* temporary files, mesh.json.tmp-<pid>
  TmpPath,     \* Node -> Path: processes of the same pid share one
  Seed,        \* Node -> seed to copy from at the start, NoSeed if none
  StaleAge,    \* stale_threshold_ms
  MaxOutages,  \* bound on crashes and shutdowns
  MaxMisreads, \* bound on failing reads of an existing file
  MaxFaults,   \* bound on failing writes and fetches
  MaxJoins,    \* bound on joins
  MaxForgets   \* bound on "mesh forget"

Id      == Node \cup Infra \cup Guest
NoSeed  == "no seed"

ASSUME MeshAssumption ==
  /\ SlotNode \in [Slot -> Node]
  /\ TmpPath \in [Node -> Path]
  /\ Seed \in [Node -> Node \cup {NoSeed}]
  /\ Infra \cap (Node \cup Guest) = {}
  /\ StaleAge \in Nat
  /\ MaxOutages \in Nat /\ MaxFaults \in Nat /\ MaxMisreads \in Nat
  /\ MaxJoins \in Nat /\ MaxForgets \in Nat

Age    == 0 .. StaleAge + 1
Stale  == StaleAge + 1
NoEntry == [status |-> "absent", age |-> 0]
Entry  == [status : {"online", "offline"}, age : Age] \cup {NoEntry}
Roster == [Id -> Entry]
Empty  == [i \in Id |-> NoEntry]

\* A file: valid JSON, not valid (truncated, or two texts mixed), or missing.
\* What is not valid counts as an empty registry.
Json(roster) == [kind |-> "json", nodes |-> roster]
Torn    == [kind |-> "torn", nodes |-> Empty]
NoFile  == [kind |-> "none", nodes |-> Empty]
Content == [kind : {"json", "torn", "none"}, nodes : Roster]

\* Variants marked "Mistake" are plausible errors in the definition that follows;
\* no action uses them.

Fresh == [status |-> "online", age |-> 0]
HubEntry == [status |-> "online", age |-> Stale]  \* infrastructure does not heartbeat

VARIABLES
  file,     \* mesh.json: a roster or Torn
  tmp,      \* Path -> content of the temporary file
  slot,     \* Slot -> local state of the registry call
  state,    \* Node -> "down", "starting", "ticking", "serving", "left"
  cli,      \* the roster "mesh forget" is about to write, NoFile if none
  budget    \* outages, misreads, faults, joins and forgets so far

vars == <<file, tmp, slot, state, cli, budget>>

\* Calls that register an entry, and the others.
Registers == {"start", "rejoin", "join"}
Call      == Registers \cup {"sync", "heartbeat", "prune"}
PC        == {"idle", "fetch", "load", "open", "write", "rename"}
Bounded   == {"outages", "misreads", "faults", "joins", "forgets"}

SlotState == [pc     : PC,
              call   : Call \cup {"none"},
              id     : Id,
              age    : Age,             \* age of the entry a register writes
              data   : Roster,          \* what load() returned, changed
              remote : Roster,          \* the seed's answer
              fd     : {"none", "tmp", "file", "gone"}]

Running == {"ticking", "serving"}   \* the heartbeat timer is set
NodeOf(s) == SlotNode[s]
PathOf(s) == TmpPath[NodeOf(s)]

IdleSlot(n) == [pc |-> "idle", call |-> "none", id |-> n, age |-> 0,
                data |-> Empty, remote |-> Empty, fd |-> "none"]

Init ==
  /\ file = Json([i \in Id |-> IF i \in Infra THEN HubEntry ELSE NoEntry])
  /\ tmp = [p \in Path |-> NoFile]
  /\ slot = [s \in Slot |-> IdleSlot(NodeOf(s))]
  /\ state = [n \in Node |-> "down"]
  /\ cli = NoFile
  /\ budget = [b \in Bounded |-> 0]

At(s, pc)      == slot[s].pc = pc
Spend(what)    == budget' = [budget EXCEPT ![what] = @ + 1]
FaultsLeft     == budget["faults"] < MaxFaults

-----------------------------------------------------------------------------
\* Calls: how they begin, return and fail.

Begin(s, call, id) ==
  [IdleSlot(NodeOf(s)) EXCEPT !.pc = IF call = "sync" THEN "fetch" ELSE "load",
                              !.call = call, !.id = id]

\* start() syncs with a seed once it has registered; a tick prunes after its
\* heartbeat.
AfterCall(s) ==
  CASE slot[s].call = "start" /\ Seed[NodeOf(s)] # NoSeed -> Begin(s, "sync", NodeOf(s))
    [] slot[s].call \in {"heartbeat", "rejoin"} -> Begin(s, "prune", NodeOf(s))
    [] OTHER -> IdleSlot(NodeOf(s))

\* The timer is set when start() has registered; the agent channel, which serves
\* joins and seeds, starts when start() returns.
StateAfter(s) ==
  LET n == NodeOf(s) IN
  CASE slot[s].call = "start" -> [state EXCEPT ![n] = IF Seed[n] = NoSeed THEN "serving"
                                                                         ELSE "ticking"]
    [] slot[s].call = "sync"  -> [state EXCEPT ![n] = "serving"]
    [] OTHER -> state

Return(s) == /\ slot' = [slot EXCEPT ![s] = AfterCall(s)]
             /\ state' = StateAfter(s)

\* The call rejects.  A tick is given up, a join answers an error, a sync is
\* caught inside syncFromSeed; a failing start ends the boot of the process.
Reject(s) ==
  IF slot[s].call = "sync" THEN Return(s)
  ELSE /\ slot' = [slot EXCEPT ![s] = IdleSlot(NodeOf(s))]
       /\ state' = IF slot[s].call = "start"
                   THEN [state EXCEPT ![NodeOf(s)] = "down"] ELSE state

Boot(s) ==
  /\ state[NodeOf(s)] \in {"down", "left"}
  /\ state' = [state EXCEPT ![NodeOf(s)] = "starting"]
  /\ slot' = [slot EXCEPT ![s] = Begin(s, "start", NodeOf(s))]
  /\ UNCHANGED <<file, tmp, cli, budget>>

\* The interval timer; it does not wait for the previous tick.
Tick(s) ==
  /\ At(s, "idle")
  /\ state[NodeOf(s)] \in Running
  /\ slot' = [slot EXCEPT ![s] = Begin(s, "heartbeat", NodeOf(s))]
  /\ UNCHANGED <<file, tmp, state, cli, budget>>

\* POST /api/mesh/join: the handler stamps the entry, then registers it.
Join(s, g) ==
  /\ At(s, "idle")
  /\ state[NodeOf(s)] = "serving"
  /\ budget["joins"] < MaxJoins
  /\ Spend("joins")
  /\ slot' = [slot EXCEPT ![s] = Begin(s, "join", g)]
  /\ UNCHANGED <<file, tmp, state, cli>>

-----------------------------------------------------------------------------
\* load() and what the call makes of the roster.

\* Mistake: infrastructure nodes are pruned, too.
PrunedAll(data, n) ==
  {i \in Id \ {n} : /\ data[i] # NoEntry
                    /\ data[i].age > StaleAge
                    /\ data[i].status # "offline"}

\* Never the node itself, nor a node that does not heartbeat.
Pruned(data, n) ==
  {i \in Id \ ({n} \cup Infra) : /\ data[i] # NoEntry
                                 /\ data[i].age > StaleAge
                                 /\ data[i].status # "offline"}

\* What a seed knows better; past the threshold either copy may be the newer one.
Newer(remote, data) ==
  {i \in Id : /\ remote[i] # NoEntry
              /\ data[i] = NoEntry \/ remote[i].age < data[i].age}
Unclear(remote, data) ==
  {i \in Id : /\ remote[i] # NoEntry /\ data[i] # NoEntry
              /\ remote[i].age = Stale /\ data[i].age = Stale}

\* The call goes on to save data.
Saves(s, data) == /\ slot' = [slot EXCEPT ![s] = [@ EXCEPT !.pc = "open", !.data = data,
                                                          !.age = 0, !.remote = Empty]]
                  /\ UNCHANGED state

\* Mistake: the roster is written anew.
LoadRegisterAlone(s, data) ==
  /\ slot[s].call \in Registers
  /\ Saves(s, [Empty EXCEPT ![slot[s].id] = [status |-> "online", age |-> slot[s].age]])

LoadRegister(s, data) ==
  /\ slot[s].call \in Registers
  /\ Saves(s, [data EXCEPT ![slot[s].id] = [status |-> "online", age |-> slot[s].age]])

\* Mistake: a node that is not on the roster does nothing about it.
LoadHeartbeatNoOp(s, data) ==
  LET n == NodeOf(s) IN
  /\ slot[s].call = "heartbeat"
  /\ IF data[n] = NoEntry THEN Return(s) ELSE Saves(s, [data EXCEPT ![n] = Fresh])

\* A node that is not on the roster registers again.
LoadHeartbeat(s, data) ==
  LET n == NodeOf(s) IN
  /\ slot[s].call = "heartbeat"
  /\ IF data[n] = NoEntry
     THEN slot' = [slot EXCEPT ![s] = Begin(s, "rejoin", n)] /\ UNCHANGED state
     ELSE Saves(s, [data EXCEPT ![n] = Fresh])

\* Mistake: what was marked is not saved.
LoadPruneUnsaved(s, data) == slot[s].call = "prune" /\ Return(s)

LoadPrune(s, data) ==
  LET stale == Pruned(data, NodeOf(s)) IN
  /\ slot[s].call = "prune"
  /\ IF stale = {} THEN Return(s)
     ELSE Saves(s, [i \in Id |-> IF i \in stale THEN [data[i] EXCEPT !.status = "offline"]
                                                ELSE data[i]])

LoadSync(s, data) ==
  LET remote == slot[s].remote IN
  /\ slot[s].call = "sync"
  /\ \E more \in SUBSET Unclear(remote, data) :
       LET merged == Newer(remote, data) \cup more IN
       IF merged = {} THEN Return(s)
       ELSE Saves(s, [i \in Id |-> IF i \in merged THEN remote[i] ELSE data[i]])

Load(s) ==
  /\ At(s, "load")
  /\ \E data \in {file.nodes, Empty} :
       /\ IF data = file.nodes THEN UNCHANGED budget
                                 ELSE /\ budget["misreads"] < MaxMisreads
                                      /\ Spend("misreads")
       /\ \/ LoadRegister(s, data) \/ LoadHeartbeat(s, data)
          \/ LoadPrune(s, data)    \/ LoadSync(s, data)
  /\ UNCHANGED <<file, tmp, cli>>

\* GET /api/mesh of the seed, which loads the file; any failure ends the sync.
Fetch(s) ==
  /\ At(s, "fetch")
  /\ \/ /\ state[Seed[NodeOf(s)]] = "serving"
        /\ slot' = [slot EXCEPT ![s].pc = "load", ![s].remote = file.nodes]
        /\ UNCHANGED <<state, budget>>
     \/ /\ state[Seed[NodeOf(s)]] # "serving"
        /\ Return(s)
        /\ UNCHANGED budget
     \/ /\ FaultsLeft /\ Spend("faults")
        /\ Return(s)
  /\ UNCHANGED <<file, tmp, cli>>

-----------------------------------------------------------------------------
\* save()

\* Mistake: mesh.json itself is opened and written.
OpenInPlace(s) ==
  /\ At(s, "open")
  /\ file' = Torn
  /\ tmp' = [tmp EXCEPT ![PathOf(s)] = Torn]
  /\ slot' = [slot EXCEPT ![s].pc = "write", ![s].fd = "tmp"]
  /\ UNCHANGED <<state, cli, budget>>

\* writeFile() truncates the file when it opens it ...
Open(s) ==
  /\ At(s, "open")
  /\ tmp' = [tmp EXCEPT ![PathOf(s)] = Torn]
  /\ slot' = [slot EXCEPT ![s].pc = "write", ![s].fd = "tmp"]
  /\ UNCHANGED <<file, state, cli, budget>>

\* What is in the file after data is written over its content: when another call
\* wrote another text since the truncation, the longer one may stick out.
Written(data, content) ==
  {Json(data)} \cup (IF content \in {Torn, Json(data)} THEN {} ELSE {Torn})

\* ... and writes through its descriptor.
Write(s) ==
  LET p == PathOf(s) IN
  /\ At(s, "write")
  /\ \/ /\ slot[s].fd = "tmp"
        /\ \E c \in Written(slot[s].data, tmp[p]) : tmp' = [tmp EXCEPT ![p] = c]
        /\ UNCHANGED file
     \/ /\ slot[s].fd = "file"
        /\ file' \in Written(slot[s].data, file)
        /\ UNCHANGED tmp
     \/ /\ slot[s].fd = "gone"
        /\ UNCHANGED <<file, tmp>>
  /\ slot' = [slot EXCEPT ![s] = [@ EXCEPT !.pc = "rename", !.fd = "none", !.data = Empty]]
  /\ UNCHANGED <<state, cli, budget>>

\* Descriptors after mesh.json became the inode at path p.
Moved(r, p) == [slot[r] EXCEPT !.fd = IF @ = "tmp" /\ PathOf(r) = p THEN "file"
                                      ELSE IF @ = "file" THEN "gone"
                                      ELSE @]

Rename(s) ==
  LET p == PathOf(s) IN
  /\ At(s, "rename")
  /\ tmp[p] # NoFile
  /\ file' = tmp[p]
  /\ tmp' = [tmp EXCEPT ![p] = NoFile]
  /\ slot' = [r \in Slot |-> IF r = s THEN AfterCall(s) ELSE Moved(r, p)]
  /\ state' = StateAfter(s)
  /\ UNCHANGED <<cli, budget>>

\* ENOENT: another call renamed the file.
RenameMisses(s) ==
  /\ At(s, "rename")
  /\ tmp[PathOf(s)] = NoFile
  /\ Reject(s)
  /\ UNCHANGED <<file, tmp, cli, budget>>

\* A statement of save() fails; what was opened stays as it is.
SaveFails(s) ==
  /\ slot[s].pc \in {"open", "write", "rename"}
  /\ FaultsLeft /\ Spend("faults")
  /\ Reject(s)
  /\ UNCHANGED <<file, tmp, cli>>

-----------------------------------------------------------------------------
\* Processes, operators and time.

Exit(n, how) ==
  /\ state[n] \in {"starting"} \cup Running
  /\ budget["outages"] < MaxOutages
  /\ Spend("outages")
  /\ state' = [state EXCEPT ![n] = how]
  /\ slot' = [s \in Slot |-> IF NodeOf(s) = n THEN IdleSlot(n) ELSE slot[s]]
  /\ UNCHANGED <<file, tmp, cli>>

Crash(n) == Exit(n, "down")

\* SIGTERM: runtime.stop() and its hooks, then process.exit().  The registry is
\* not among what is stopped.
Shutdown(n) == state[n] = "serving" /\ Exit(n, "left")

\* "mesh forget --force": another process reads the file ...
ForgetRead(i) ==
  /\ cli = NoFile
  /\ budget["forgets"] < MaxForgets
  /\ file.nodes[i] # NoEntry
  /\ Spend("forgets")
  /\ cli' = Json([file.nodes EXCEPT ![i] = NoEntry])
  /\ UNCHANGED <<file, tmp, slot, state>>

\* ... and replaces it, through a temporary file of its own.
ForgetWrite ==
  /\ cli # NoFile
  /\ file' = cli
  /\ cli' = NoFile
  /\ slot' = [s \in Slot |-> [slot[s] EXCEPT !.fd = IF @ = "file" THEN "gone" ELSE @]]
  /\ UNCHANGED <<tmp, state, budget>>

Older(age)    == IF age < Stale THEN age + 1 ELSE age
Aged(roster)  == [i \in Id |-> IF roster[i] = NoEntry THEN NoEntry
                               ELSE [roster[i] EXCEPT !.age = Older(@)]]
AgedFile(f)   == [f EXCEPT !.nodes = Aged(@)]

\* Every copy of lastSeen gets older.
Clock ==
  /\ file' = AgedFile(file)
  /\ tmp' = [p \in Path |-> AgedFile(tmp[p])]
  /\ cli' = AgedFile(cli)
  /\ slot' = [s \in Slot |->
       [slot[s] EXCEPT !.data = Aged(@), !.remote = Aged(@),
                       !.age = IF slot[s].call \in Registers /\ At(s, "load")
                               THEN Older(@) ELSE @]]
  /\ UNCHANGED <<state, budget>>

-----------------------------------------------------------------------------
Step(s) == \/ Load(s) \/ Fetch(s) \/ Open(s) \/ Write(s)
           \/ Rename(s) \/ RenameMisses(s) \/ SaveFails(s)

Next == \/ \E s \in Slot : Boot(s) \/ Tick(s) \/ Step(s) \/ \E g \in Guest : Join(s, g)
        \/ \E n \in Node : Crash(n) \/ Shutdown(n)
        \/ \E i \in Id : ForgetRead(i)
        \/ ForgetWrite
        \/ Clock

Spec == Init /\ [][Next]_vars

\* The timer of a running node fires, calls go on, time passes.  Nodes need not
\* start again, clients need not call.
Fairness == /\ \A s \in Slot : WF_vars(Step(s)) /\ WF_vars(Tick(s))
            /\ WF_vars(Clock)

FairSpec == Spec /\ Fairness

-----------------------------------------------------------------------------
\* Every variable stays within its type.
TypeOK ==
  /\ file \in Content
  /\ tmp \in [Path -> Content]
  /\ slot \in [Slot -> SlotState]
  /\ state \in [Node -> {"down", "starting", "left"} \cup Running]
  /\ cli \in Content
  /\ budget \in [Bounded -> Nat]

\* Where every call in flight has a temporary file of its own, nobody ever reads
\* a half-written roster, whatever writes fail and whichever processes die at any
\* await of save().
NeverTorn == file # Torn

\* Where, besides, every read of the file succeeds, an infrastructure entry is
\* never lost: nobody would register it again.
HubKept == \A h \in Infra : file.nodes[h] # NoEntry

\* Whatever is lost, no copy of the roster shows infrastructure as offline: no
\* heartbeat would ever bring it back.
HubNeverOffline ==
  \A h \in Infra :
    \A copy \in {file.nodes, cli.nodes} \cup {tmp[p].nodes : p \in Path}
                  \cup {slot[s].data : s \in Slot} :
      copy[h] \in {NoEntry, HubEntry}

Online(i) == file.nodes[i].status = "online"
Runs(i)   == i \in Node /\ state[i] \in Running

\* A node that keeps running is on the roster and online again and again: lost
\* updates, a wiped roster, a late prune and "mesh forget" are made good.
RunningNodeListed ==
  \A n \in Node : <>[]Runs(n) => []<>Online(n)

\* An entry nobody heartbeats, of a node that is gone or of a guest, is taken
\* offline again and again as long as some node keeps running: calls that save
\* an older copy do not keep it online.
DeadEntryLeaves ==
  \A q \in Node, i \in Node \cup Guest :
    <>[](Runs(q) /\ ~ Runs(i)) => []<>(file # Torn /\ ~ Online(i))

-----------------------------------------------------------------------------
\* What comments say, and the code does not keep.

\* "a shared-file based registry - no separate coordination service needed"
\* (mesh.ts): a node that has registered is on the roster.
RegisteredNodeListed == \A n \in Node : state[n] \in Running => file.nodes[n] # NoEntry

\* "On shutdown, node marks itself offline" (mesh.ts).
LeftNodeOffline == \A n \in Node : state[n] = "left" => ~ Online(n)
=============================================================================
