-------------------------- MODULE MeshRegistryProofs --------------------------
(***************************************************************************)
(* Theorems about MeshRegistry, for any number of nodes, calls, joining    *)
(* guests and infrastructure entries and any bounds on faults and outages. *)
(***************************************************************************)
EXTENDS MeshRegistry, TLAPS

-----------------------------------------------------------------------------
\* Entries and rosters.

LEMMA Entries ==
  /\ NoEntry \in Entry /\ Fresh \in Entry /\ HubEntry \in Entry
  /\ Stale \in Age /\ 0 \in Age
  /\ \A k \in Age : [status |-> "online", age |-> k] \in Entry
  BY MeshAssumption DEF NoEntry, Fresh, HubEntry, Stale, Age, Entry

LEMMA EmptyRoster == Empty \in Roster /\ \A i \in Id : Empty[i] = NoEntry
  BY Entries DEF Empty, Roster

LEMMA Contents ==
  /\ NoFile \in Content /\ Torn \in Content
  /\ \A r \in Roster : Json(r) \in Content /\ Json(r).nodes = r /\ Json(r).kind = "json"
  BY EmptyRoster DEF NoFile, Torn, Json, Content

LEMMA Put ==
  ASSUME NEW r \in Roster, NEW i \in Id, NEW e \in Entry
  PROVE  [r EXCEPT ![i] = e] \in Roster
  BY DEF Roster

\* An entry that is marked offline, or got older, is an entry.
LEMMA MarkedEntry ==
  ASSUME NEW e \in Entry, e # NoEntry
  PROVE  /\ [e EXCEPT !.status = "offline"] \in Entry
         /\ [e EXCEPT !.status = "offline"] # NoEntry
  BY DEF Entry, NoEntry

LEMMA OlderAge == ASSUME NEW k \in Age PROVE Older(k) \in Age
  BY MeshAssumption DEF Older, Age, Stale

LEMMA OlderEntry ==
  ASSUME NEW e \in Entry, e # NoEntry
  PROVE  /\ [e EXCEPT !.age = Older(@)] \in Entry
         /\ [e EXCEPT !.age = Older(@)] # NoEntry
  BY OlderAge DEF Entry, NoEntry

LEMMA AgedRoster ==
  ASSUME NEW r \in Roster
  PROVE  /\ Aged(r) \in Roster
         /\ \A i \in Id : Aged(r)[i] = NoEntry <=> r[i] = NoEntry
  BY OlderEntry, Entries DEF Aged, Roster

LEMMA AgedHub ==
  ASSUME NEW r \in Roster, NEW h \in Id, r[h] \in {NoEntry, HubEntry}
  PROVE  Aged(r)[h] \in {NoEntry, HubEntry}
  BY MeshAssumption DEF Aged, HubEntry, NoEntry, Older, Stale

LEMMA AgedEmpty == Aged(Empty) = Empty
  BY DEF Aged, Empty

LEMMA AgedContent ==
  ASSUME NEW f \in Content
  PROVE  /\ AgedFile(f) \in Content
         /\ AgedFile(f).kind = f.kind
         /\ AgedFile(f).nodes = Aged(f.nodes)
         /\ f \in {Torn, NoFile} => AgedFile(f) = f
  BY AgedRoster, AgedEmpty DEF AgedFile, Content, Torn, NoFile

-----------------------------------------------------------------------------
\* Calls that begin or have returned: nothing of save() is under way.

Quiet(r) == r.pc \in {"idle", "fetch", "load"} /\ r.fd = "none" /\ r.data = Empty

\* A quiet call of a node; what it will register is not infrastructure.
QuietCall(r) == r \in SlotState /\ Quiet(r) /\ r.remote = Empty /\ r.id \notin Infra

LEMMA NodeIds == ASSUME NEW s \in Slot
                 PROVE  NodeOf(s) \in Node /\ NodeOf(s) \in Id \ Infra /\ PathOf(s) \in Path
  BY MeshAssumption DEF NodeOf, PathOf, Id

LEMMA IdleQuiet == ASSUME NEW n \in Node PROVE QuietCall(IdleSlot(n))
  BY EmptyRoster, Entries, MeshAssumption
     DEF IdleSlot, QuietCall, Quiet, SlotState, PC, Id

LEMMA BeginQuiet ==
  ASSUME NEW s \in Slot, NEW c \in Call, NEW i \in Id \ Infra
  PROVE  QuietCall(Begin(s, c, i))
  BY EmptyRoster, Entries, NodeIds
     DEF Begin, IdleSlot, QuietCall, Quiet, SlotState, PC

LEMMA AfterQuiet == ASSUME NEW s \in Slot PROVE QuietCall(AfterCall(s))
  <1>1. /\ QuietCall(Begin(s, "sync", NodeOf(s)))
        /\ QuietCall(Begin(s, "prune", NodeOf(s)))
        /\ QuietCall(IdleSlot(NodeOf(s)))
    BY BeginQuiet, IdleQuiet, NodeIds DEF Call
  <1> QED
    BY <1>1 DEF AfterCall

\* The other changes of a call: it goes on to save a roster, or gets on with it.
SaveCall(s, r) ==
  /\ slot[s].pc = "load"
  /\ r.pc = "open" /\ r.fd = slot[s].fd /\ r.call = slot[s].call /\ r.id = slot[s].id
  /\ r.age = 0 /\ r.remote = Empty

States == {"down", "starting", "left"} \cup Running
StateNext == state' = state \/ \E n \in Node, v \in States : state' = [state EXCEPT ![n] = v]

LEMMA ReturnState == ASSUME NEW s \in Slot PROVE state' = StateAfter(s) => StateNext
  BY NodeIds DEF StateAfter, StateNext, States, Running

LEMMA RejectQuiet ==
  ASSUME NEW s \in Slot, Reject(s)
  PROVE  /\ \E r : QuietCall(r) /\ slot' = [slot EXCEPT ![s] = r]
         /\ StateNext
  BY AfterQuiet, IdleQuiet, NodeIds, ReturnState
     DEF Reject, Return, StateNext, States

\* What a call makes of the roster data it loaded: no entry is lost, and of
\* infrastructure it knows what data or a seed's answer says.
Derived(s, data, d) ==
  \A h \in Infra :
    /\ data[h] # NoEntry => d[h] # NoEntry
    /\ data[h] \in {NoEntry, HubEntry} /\ slot[s].remote[h] \in {NoEntry, HubEntry}
         => d[h] \in {NoEntry, HubEntry}

LEMMA SavesShape ==
  ASSUME slot \in [Slot -> SlotState], NEW s \in Slot, NEW d \in Roster,
         slot[s].pc = "load", Saves(s, d)
  PROVE  \E r \in SlotState : /\ slot' = [slot EXCEPT ![s] = r]
                              /\ SaveCall(s, r) /\ r.data = d
  <1> DEFINE r == [slot[s] EXCEPT !.pc = "open", !.data = d, !.age = 0, !.remote = Empty]
  <1>1. slot[s] \in SlotState
    OBVIOUS
  <1>2. r \in SlotState
    BY <1>1, EmptyRoster, Entries DEF SlotState, PC
  <1>3. SaveCall(s, r) /\ r.data = d
    BY <1>1 DEF SaveCall, SlotState
  <1>4. slot' = [slot EXCEPT ![s] = r]
    BY DEF Saves
  <1> QED
    BY <1>2, <1>3, <1>4

\* A call returns, begins anew, or goes on to save what it made of the roster.
LoadResult(s, data) ==
  /\ StateNext
  /\ \/ \E r : QuietCall(r) /\ slot' = [slot EXCEPT ![s] = r]
     \/ \E r \in SlotState : /\ slot' = [slot EXCEPT ![s] = r]
                             /\ SaveCall(s, r)
                             /\ Derived(s, data, r.data)

LEMMA SavesResult ==
  ASSUME slot \in [Slot -> SlotState], NEW s \in Slot, NEW d \in Roster,
         slot[s].pc = "load", Saves(s, d), NEW data, Derived(s, data, d)
  PROVE  LoadResult(s, data)
  <1>1. PICK r \in SlotState : /\ slot' = [slot EXCEPT ![s] = r]
                               /\ SaveCall(s, r) /\ r.data = d
    BY SavesShape
  <1>2. StateNext
    BY DEF Saves, StateNext
  <1> QED
    BY <1>1, <1>2 DEF LoadResult

LEMMA ReturnResult ==
  ASSUME NEW s \in Slot, NEW data, Return(s)
  PROVE  LoadResult(s, data)
  BY AfterQuiet, ReturnState DEF Return, LoadResult

LEMMA PutDerived ==
  ASSUME NEW s, NEW data \in Roster, NEW i \in Id \ Infra, NEW e
  PROVE  Derived(s, data, [data EXCEPT ![i] = e])
  BY DEF Derived, Roster, Id

LEMMA RegisterResult ==
  ASSUME slot \in [Slot -> SlotState], NEW s \in Slot, slot[s].pc = "load",
         slot[s].id \notin Infra, NEW data \in Roster, LoadRegister(s, data)
  PROVE  LoadResult(s, data)
  <1> DEFINE e == [status |-> "online", age |-> slot[s].age]
             d == [data EXCEPT ![slot[s].id] = e]
  <1>1. slot[s].id \in Id \ Infra /\ slot[s].age \in Age
    BY DEF SlotState
  <1>2. e \in Entry
    BY <1>1, Entries
  <1> HIDE DEF e
  <1>3. d \in Roster /\ Derived(s, data, d)
    BY <1>1, <1>2, Put, PutDerived
  <1>4. Saves(s, d)
    BY DEF LoadRegister, e
  <1> HIDE DEF d
  <1> QED
    BY <1>3, <1>4, SavesResult

LEMMA HeartbeatResult ==
  ASSUME slot \in [Slot -> SlotState], NEW s \in Slot, slot[s].pc = "load",
         NEW data \in Roster, LoadHeartbeat(s, data)
  PROVE  LoadResult(s, data)
  <1> DEFINE n == NodeOf(s)
             d == [data EXCEPT ![n] = Fresh]
  <1>1. n \in Id \ Infra
    BY NodeIds
  <1>2. CASE data[n] = NoEntry
    <2>1. slot' = [slot EXCEPT ![s] = Begin(s, "rejoin", n)] /\ state' = state
      BY <1>2 DEF LoadHeartbeat
    <2>2. QuietCall(Begin(s, "rejoin", n))
      BY <1>1, BeginQuiet DEF Call, Registers
    <2> QED
      BY <2>1, <2>2 DEF LoadResult, StateNext
  <1>3. CASE data[n] # NoEntry
    <2>1. d \in Roster /\ Derived(s, data, d)
      BY <1>1, Entries, Put, PutDerived
    <2>2. Saves(s, d)
      BY <1>3 DEF LoadHeartbeat
    <2> HIDE DEF d
    <2> QED
      BY <2>1, <2>2, SavesResult
  <1> QED
    BY <1>2, <1>3

LEMMA PruneResult ==
  ASSUME slot \in [Slot -> SlotState], NEW s \in Slot, slot[s].pc = "load",
         NEW data \in Roster, LoadPrune(s, data)
  PROVE  LoadResult(s, data)
  <1> DEFINE stale == Pruned(data, NodeOf(s))
             d == [i \in Id |-> IF i \in stale THEN [data[i] EXCEPT !.status = "offline"]
                                               ELSE data[i]]
  <1>1. \A i \in stale : i \in Id \ Infra /\ data[i] # NoEntry
    BY DEF Pruned
  <1>2. d \in Roster
    BY <1>1, MarkedEntry DEF Roster
  <1>3. \A h \in Infra : d[h] = data[h]
    BY <1>1 DEF Id
  <1>4. Derived(s, data, d)
    BY <1>3 DEF Derived
  <1>5. Return(s) \/ Saves(s, d)
    BY DEF LoadPrune
  <1> HIDE DEF d
  <1> QED
    BY <1>2, <1>4, <1>5, SavesResult, ReturnResult

LEMMA SyncResult ==
  ASSUME slot \in [Slot -> SlotState], NEW s \in Slot, slot[s].pc = "load",
         NEW data \in Roster, LoadSync(s, data)
  PROVE  LoadResult(s, data)
  <1> DEFINE remote == slot[s].remote
  <1>1. PICK more \in SUBSET Unclear(remote, data) :
          LET merged == Newer(remote, data) \cup more IN
          IF merged = {} THEN Return(s)
          ELSE Saves(s, [i \in Id |-> IF i \in merged THEN remote[i] ELSE data[i]])
    BY DEF LoadSync
  <1> DEFINE merged == Newer(remote, data) \cup more
             d == [i \in Id |-> IF i \in merged THEN remote[i] ELSE data[i]]
  <1>2. remote \in Roster
    BY DEF SlotState
  <1>3. \A i \in merged : remote[i] # NoEntry
    BY DEF Newer, Unclear
  <1>4. d \in Roster
    BY <1>2 DEF Roster
  <1>5. Derived(s, data, d)
    BY <1>3 DEF Derived, Id
  <1>6. Return(s) \/ Saves(s, d)
    BY <1>1
  <1> HIDE DEF d, merged
  <1> QED
    BY <1>4, <1>5, <1>6, SavesResult, ReturnResult

-----------------------------------------------------------------------------
\* The steps by what they do to the call, the files and the rest.

BudgetNext == budget' = budget \/ \E b \in Bounded : budget' = [budget EXCEPT ![b] = @ + 1]
FilesStay  == UNCHANGED <<file, tmp, cli>>

\* A call begins, or ends without having touched a file.
QuietStep(s) ==
  /\ FilesStay /\ StateNext /\ BudgetNext
  /\ \E r : QuietCall(r) /\ slot' = [slot EXCEPT ![s] = r]

LoadStep(s) ==
  /\ FilesStay /\ BudgetNext /\ slot[s].pc = "load"
  /\ \E data \in {file.nodes, Empty} :
       /\ data = file.nodes \/ budget["misreads"] < MaxMisreads
       /\ LoadResult(s, data)

FetchStep(s) ==
  /\ FilesStay /\ StateNext /\ BudgetNext /\ slot[s].pc = "fetch"
  /\ slot' = [slot EXCEPT ![s] = [slot[s] EXCEPT !.pc = "load", !.remote = file.nodes]]

CallOk(r) == /\ r.id \notin Infra
             /\ r.pc # "write" => r.fd = "none"
             /\ r.pc \notin {"open", "write"} => r.data = Empty

CallInv == TypeOK /\ \A s \in Slot : CallOk(slot[s])

LEMMA SpendBudget == \A b \in Bounded : Spend(b) => BudgetNext
  BY DEF Spend, BudgetNext

LEMMA BeginSteps ==
  ASSUME NEW s \in Slot, Boot(s) \/ Tick(s) \/ \E g \in Guest : Join(s, g)
  PROVE  QuietStep(s)
  <1>1. CASE Boot(s)
    <2>1. QuietCall(Begin(s, "start", NodeOf(s)))
      BY NodeIds, BeginQuiet DEF Call, Registers
    <2> QED
      BY <1>1, <2>1, NodeIds DEF Boot, QuietStep, FilesStay, StateNext, BudgetNext, States
  <1>2. CASE Tick(s)
    <2>1. QuietCall(Begin(s, "heartbeat", NodeOf(s)))
      BY NodeIds, BeginQuiet DEF Call
    <2> QED
      BY <1>2, <2>1 DEF Tick, QuietStep, FilesStay, StateNext, BudgetNext
  <1>3. ASSUME NEW g \in Guest, Join(s, g) PROVE QuietStep(s)
    <2>1. g \in Id \ Infra
      BY MeshAssumption DEF Id
    <2>2. QuietCall(Begin(s, "join", g))
      BY <2>1, BeginQuiet DEF Call, Registers
    <2>3. BudgetNext
      BY <1>3, SpendBudget DEF Join, Bounded
    <2> QED
      BY <1>3, <2>2, <2>3 DEF Join, QuietStep, FilesStay, StateNext
  <1> QED
    BY <1>1, <1>2, <1>3

LEMMA EndSteps ==
  ASSUME NEW s \in Slot, RenameMisses(s) \/ SaveFails(s)
  PROVE  QuietStep(s)
  <1>1. Reject(s) /\ FilesStay
    BY DEF RenameMisses, SaveFails, FilesStay
  <1>2. BudgetNext
    BY SpendBudget DEF RenameMisses, SaveFails, BudgetNext, Bounded
  <1> QED
    BY <1>1, <1>2, RejectQuiet DEF QuietStep

LEMMA FetchSteps ==
  ASSUME NEW s \in Slot, slot[s] \in SlotState, Fetch(s)
  PROVE  QuietStep(s) \/ FetchStep(s)
  <1>1. FilesStay /\ BudgetNext
    BY SpendBudget DEF Fetch, FilesStay, BudgetNext, Bounded
  <1>2. CASE Return(s)
    BY <1>1, <1>2, AfterQuiet, ReturnState DEF Return, QuietStep
  <1>3. CASE /\ slot' = [slot EXCEPT ![s].pc = "load", ![s].remote = file.nodes]
             /\ state' = state
    BY <1>1, <1>3 DEF FetchStep, StateNext, Fetch, At
  <1> QED
    BY <1>2, <1>3 DEF Fetch

LEMMA LoadSteps ==
  ASSUME CallInv, NEW s \in Slot, Load(s)
  PROVE  LoadStep(s)
  <1>1. /\ slot \in [Slot -> SlotState] /\ slot[s].pc = "load"
        /\ slot[s].id \notin Infra /\ file.nodes \in Roster
    BY DEF CallInv, TypeOK, CallOk, Load, At, Content
  <1>2. PICK data \in {file.nodes, Empty} :
          /\ IF data = file.nodes THEN UNCHANGED budget
             ELSE budget["misreads"] < MaxMisreads /\ Spend("misreads")
          /\ \/ LoadRegister(s, data) \/ LoadHeartbeat(s, data)
             \/ LoadPrune(s, data)    \/ LoadSync(s, data)
    BY DEF Load
  <1>3. data \in Roster
    BY <1>1, EmptyRoster
  <1>4. LoadResult(s, data)
    BY <1>1, <1>2, <1>3, RegisterResult, HeartbeatResult, PruneResult, SyncResult
  <1>5. FilesStay /\ BudgetNext
    BY <1>2, SpendBudget DEF Load, FilesStay, BudgetNext, Bounded
  <1> QED
    BY <1>1, <1>2, <1>4, <1>5 DEF LoadStep

\* Every step is one of these.
ExitStep == \E n \in Node, how \in {"down", "left"} : Exit(n, how)

StepKind == \/ \E s \in Slot : \/ QuietStep(s) \/ LoadStep(s) \/ FetchStep(s)
                               \/ Open(s) \/ Write(s) \/ Rename(s)
            \/ ExitStep
            \/ \E i \in Id : ForgetRead(i)
            \/ ForgetWrite
            \/ Clock
            \/ UNCHANGED vars

LEMMA StepKinds == ASSUME CallInv, [Next]_vars PROVE StepKind
  <1>1. ASSUME NEW s \in Slot, Boot(s) \/ Tick(s) \/ \E g \in Guest : Join(s, g)
        PROVE  QuietStep(s)
    BY <1>1, BeginSteps
  <1>2. ASSUME NEW s \in Slot, Step(s)
        PROVE  \/ QuietStep(s) \/ LoadStep(s) \/ FetchStep(s)
               \/ Open(s) \/ Write(s) \/ Rename(s)
    <2>1. slot[s] \in SlotState
      BY DEF CallInv, TypeOK
    <2> QED
      BY <1>2, <2>1, EndSteps, FetchSteps, LoadSteps DEF Step
  <1>3. ASSUME NEW n \in Node, Crash(n) \/ Shutdown(n) PROVE ExitStep
    BY <1>3 DEF Crash, Shutdown, ExitStep
  <1> QED
    BY <1>1, <1>2, <1>3 DEF Next, StepKind

-----------------------------------------------------------------------------
\* Type correctness, with what a call holds at each of its awaits.

LEMMA QuietOk == ASSUME NEW r, QuietCall(r) PROVE r \in SlotState /\ CallOk(r)
  BY DEF QuietCall, Quiet, CallOk

LEMMA StateBudgetType ==
  ASSUME CallInv
  PROVE  /\ StateNext => state' \in [Node -> States]
         /\ BudgetNext => budget' \in [Bounded -> Nat]
  BY DEF CallInv, TypeOK, StateNext, BudgetNext, States

\* The parts of the invariant, and what changing one call does to them.
FilesType == file \in Content /\ tmp \in [Path -> Content] /\ cli \in Content

LEMMA CallParts ==
  CallInv <=> /\ FilesType
              /\ state \in [Node -> States]
              /\ budget \in [Bounded -> Nat]
              /\ slot \in [Slot -> SlotState]
              /\ \A s \in Slot : CallOk(slot[s])
  BY DEF CallInv, TypeOK, FilesType, States

LEMMA OneCall ==
  ASSUME slot \in [Slot -> SlotState], \A t \in Slot : CallOk(slot[t]),
         NEW s \in Slot, NEW r \in SlotState, CallOk(r), slot' = [slot EXCEPT ![s] = r]
  PROVE  slot' \in [Slot -> SlotState] /\ \A t \in Slot : CallOk(slot'[t])
  OBVIOUS

LEMMA CallPartsNext ==
  /\ FilesType' /\ (state \in [Node -> States])' /\ (budget \in [Bounded -> Nat])'
  /\ slot' \in [Slot -> SlotState] /\ (\A t \in Slot : CallOk(slot'[t]))
  => CallInv'
  BY DEF CallInv, TypeOK, FilesType, States

LEMMA FilesStayType == FilesType /\ FilesStay => FilesType'
  BY DEF FilesType, FilesStay

LEMMA QuietType == ASSUME CallInv, NEW s \in Slot, QuietStep(s) PROVE CallInv'
  BY CallParts, QuietOk, OneCall, StateBudgetType, FilesStayType, CallPartsNext DEF QuietStep

LEMMA LoadType == ASSUME CallInv, NEW s \in Slot, LoadStep(s) PROVE CallInv'
  <1>1. FilesType' /\ (budget \in [Bounded -> Nat])'
    BY CallParts, StateBudgetType, FilesStayType DEF LoadStep
  <1>2. PICK data : LoadResult(s, data)
    BY DEF LoadStep
  <1>3. (state \in [Node -> States])'
    BY <1>2, StateBudgetType DEF LoadResult
  <1>4. PICK r \in SlotState : slot' = [slot EXCEPT ![s] = r] /\ (QuietCall(r) \/ SaveCall(s, r))
    BY <1>2, QuietOk DEF LoadResult
  <1>5. CallOk(r)
    BY <1>4, QuietOk, CallParts DEF SaveCall, CallOk
  <1> QED
    BY <1>1, <1>3, <1>4, <1>5, CallParts, OneCall, CallPartsNext

LEMMA FetchType == ASSUME CallInv, NEW s \in Slot, FetchStep(s) PROVE CallInv'
  <1> DEFINE r == [slot[s] EXCEPT !.pc = "load", !.remote = file.nodes]
  <1>1. FilesType' /\ (state \in [Node -> States])' /\ (budget \in [Bounded -> Nat])'
    BY CallParts, StateBudgetType, FilesStayType DEF FetchStep
  <1>2. r \in SlotState
    BY CallParts DEF FilesType, Content, SlotState, PC
  <1>3. CallOk(r)
    BY CallParts DEF CallOk, SlotState, FetchStep
  <1>4. slot' = [slot EXCEPT ![s] = r]
    BY DEF FetchStep
  <1> HIDE DEF r
  <1> QED
    BY <1>1, <1>2, <1>3, <1>4, CallParts, OneCall, CallPartsNext

LEMMA OpenType == ASSUME CallInv, NEW s \in Slot, Open(s) PROVE CallInv'
  <1> DEFINE r == [slot[s] EXCEPT !.pc = "write", !.fd = "tmp"]
  <1>1. FilesType' /\ (state \in [Node -> States])' /\ (budget \in [Bounded -> Nat])'
    BY CallParts, Contents DEF Open, FilesType
  <1>2. r \in SlotState /\ CallOk(r)
    BY CallParts DEF CallOk, SlotState, PC
  <1>3. slot' = [slot EXCEPT ![s] = r]
    BY DEF Open
  <1> HIDE DEF r
  <1> QED
    BY <1>1, <1>2, <1>3, CallParts, OneCall, CallPartsNext

LEMMA WrittenContent ==
  ASSUME NEW d \in Roster, NEW c, NEW w \in Written(d, c)
  PROVE  w \in Content
  BY Contents DEF Written

LEMMA WriteType == ASSUME CallInv, NEW s \in Slot, Write(s) PROVE CallInv'
  <1> DEFINE r == [slot[s] EXCEPT !.pc = "rename", !.fd = "none", !.data = Empty]
  <1>1. slot[s].data \in Roster
    BY CallParts DEF SlotState
  <1>2. FilesType'
    <2>1. file' \in Content
      BY <1>1, CallParts, WrittenContent DEF Write, FilesType
    <2>2. tmp' \in [Path -> Content]
      BY <1>1, CallParts, WrittenContent DEF Write, FilesType
    <2> QED
      BY <2>1, <2>2, CallParts DEF FilesType, Write
  <1>3. (state \in [Node -> States])' /\ (budget \in [Bounded -> Nat])'
    BY CallParts DEF Write
  <1>4. r \in SlotState /\ CallOk(r)
    BY CallParts, EmptyRoster DEF CallOk, SlotState, PC
  <1>5. slot' = [slot EXCEPT ![s] = r]
    BY DEF Write
  <1> HIDE DEF r
  <1> QED
    BY <1>2, <1>3, <1>4, <1>5, CallParts, OneCall, CallPartsNext

\* When mesh.json becomes another file, at most descriptors change, and a call
\* that is not writing has none.
LEMMA MovedOk ==
  ASSUME CallInv, NEW r \in Slot, NEW p
  PROVE  /\ Moved(r, p) \in SlotState /\ CallOk(Moved(r, p))
         /\ Moved(r, p).pc = slot[r].pc /\ Moved(r, p).data = slot[r].data
         /\ Moved(r, p).remote = slot[r].remote
         /\ ~ (slot[r].fd = "tmp" /\ PathOf(r) = p) /\ slot[r].fd # "file"
              => Moved(r, p).fd = slot[r].fd
  <1>1. slot[r] \in SlotState /\ CallOk(slot[r])
    BY CallParts
  <1> QED
    BY <1>1 DEF Moved, SlotState, CallOk

LEMMA RenameType == ASSUME CallInv, NEW s \in Slot, Rename(s) PROVE CallInv'
  <1>1. FilesType'
    BY CallParts, NodeIds, Contents DEF Rename, FilesType
  <1>2. (state \in [Node -> States])' /\ (budget \in [Bounded -> Nat])'
    BY CallParts, ReturnState, StateBudgetType DEF Rename
  <1>3. slot' = [r \in Slot |-> IF r = s THEN AfterCall(s) ELSE Moved(r, PathOf(s))]
    BY DEF Rename
  <1>4. AfterCall(s) \in SlotState /\ CallOk(AfterCall(s))
    BY AfterQuiet, QuietOk
  <1>5. \A r \in Slot : slot'[r] \in SlotState /\ CallOk(slot'[r])
    BY <1>3, <1>4, MovedOk
  <1>6. slot' \in [Slot -> SlotState]
    BY <1>3, <1>5
  <1> QED
    BY <1>1, <1>2, <1>5, <1>6, CallPartsNext

LEMMA ExitParts ==
  ASSUME CallInv, ExitStep
  PROVE  /\ FilesStay
         /\ (state \in [Node -> States])' /\ (budget \in [Bounded -> Nat])'
         /\ slot' \in [Slot -> SlotState]
         /\ \A s \in Slot : slot'[s] = slot[s] \/ QuietCall(slot'[s])
  <1>1. PICK n \in Node, how \in {"down", "left"} : Exit(n, how)
    BY DEF ExitStep
  <1>2. slot' = [s \in Slot |-> IF NodeOf(s) = n THEN IdleSlot(n) ELSE slot[s]]
    BY <1>1 DEF Exit
  <1>3. QuietCall(IdleSlot(n)) /\ IdleSlot(n) \in SlotState
    BY IdleQuiet, QuietOk
  <1>4. slot' \in [Slot -> SlotState]
    BY <1>2, <1>3, CallParts
  <1>5. \A s \in Slot : slot'[s] = slot[s] \/ QuietCall(slot'[s])
    BY <1>2, <1>3
  <1>6. FilesStay /\ (state \in [Node -> States])'
    BY <1>1, CallParts DEF Exit, FilesStay, States
  <1>7. (budget \in [Bounded -> Nat])'
    BY <1>1, SpendBudget, StateBudgetType DEF Exit, Bounded
  <1> QED
    BY <1>4, <1>5, <1>6, <1>7

LEMMA ExitType == ASSUME CallInv, ExitStep PROVE CallInv'
  BY ExitParts, CallParts, QuietOk, FilesStayType, CallPartsNext

LEMMA ForgetReadType == ASSUME CallInv, NEW i \in Id, ForgetRead(i) PROVE CallInv'
  <1>1. [file.nodes EXCEPT ![i] = NoEntry] \in Roster
    BY CallParts, Entries, Put DEF FilesType, Content
  <1>2. FilesType'
    BY <1>1, CallParts, Contents DEF ForgetRead, FilesType
  <1>3. (budget \in [Bounded -> Nat])'
    BY SpendBudget, StateBudgetType DEF ForgetRead, Bounded
  <1>4. slot' = slot /\ state' = state
    BY DEF ForgetRead
  <1> QED
    BY <1>2, <1>3, <1>4, CallParts, CallPartsNext

\* A call that is not writing has no descriptor to lose.
Dropped(s) == [slot[s] EXCEPT !.fd = IF @ = "file" THEN "gone" ELSE @]

LEMMA DroppedOk ==
  ASSUME CallInv, NEW s \in Slot
  PROVE  /\ Dropped(s) \in SlotState /\ CallOk(Dropped(s))
         /\ Dropped(s).pc = slot[s].pc /\ Dropped(s).data = slot[s].data
         /\ Dropped(s).remote = slot[s].remote
         /\ slot[s].fd # "file" => Dropped(s).fd = slot[s].fd
  <1>1. slot[s] \in SlotState /\ CallOk(slot[s])
    BY CallParts
  <1> QED
    BY <1>1 DEF Dropped, SlotState, CallOk

LEMMA ForgetSlots == ForgetWrite => slot' = [s \in Slot |-> Dropped(s)]
  BY DEF ForgetWrite, Dropped

LEMMA ForgetWriteType == ASSUME CallInv, ForgetWrite PROVE CallInv'
  <1>1. \A s \in Slot : slot'[s] \in SlotState /\ CallOk(slot'[s])
    BY ForgetSlots, DroppedOk
  <1>2. slot' \in [Slot -> SlotState]
    BY <1>1, ForgetSlots
  <1>3. FilesType' /\ (state \in [Node -> States])' /\ (budget \in [Bounded -> Nat])'
    BY CallParts, Contents DEF ForgetWrite, FilesType
  <1> QED
    BY <1>1, <1>2, <1>3, CallPartsNext

\* What the clock makes of a call.
OlderCall(s) ==
  [slot[s] EXCEPT !.data = Aged(@), !.remote = Aged(@),
                  !.age = IF slot[s].call \in Registers /\ At(s, "load")
                          THEN Older(@) ELSE @]

LEMMA ClockSlots == Clock => slot' = [s \in Slot |-> OlderCall(s)]
  BY DEF Clock, OlderCall

LEMMA OlderCallOk ==
  ASSUME CallInv, NEW s \in Slot
  PROVE  /\ OlderCall(s) \in SlotState /\ CallOk(OlderCall(s))
         /\ OlderCall(s).pc = slot[s].pc /\ OlderCall(s).fd = slot[s].fd
         /\ OlderCall(s).data = Aged(slot[s].data)
         /\ OlderCall(s).remote = Aged(slot[s].remote)
  <1>1. slot[s] \in SlotState /\ CallOk(slot[s])
    BY CallParts
  <1>2. Aged(slot[s].data) \in Roster /\ Aged(slot[s].remote) \in Roster
    BY <1>1, AgedRoster DEF SlotState
  <1>3. Older(slot[s].age) \in Age
    BY <1>1, OlderAge DEF SlotState
  <1> QED
    BY <1>1, <1>2, <1>3, AgedEmpty DEF OlderCall, SlotState, CallOk

LEMMA ClockType == ASSUME CallInv, Clock PROVE CallInv'
  <1>1. \A s \in Slot : slot'[s] \in SlotState /\ CallOk(slot'[s])
    BY ClockSlots, OlderCallOk
  <1>2. slot' \in [Slot -> SlotState]
    BY <1>1, ClockSlots
  <1>3. FilesType'
    BY CallParts, AgedContent DEF Clock, FilesType
  <1>4. (state \in [Node -> States])' /\ (budget \in [Bounded -> Nat])'
    BY CallParts DEF Clock
  <1> QED
    BY <1>1, <1>2, <1>3, <1>4, CallPartsNext

LEMMA InitRoster ==
  LET r == [i \in Id |-> IF i \in Infra THEN HubEntry ELSE NoEntry] IN
  r \in Roster /\ \A h \in Infra : r[h] = HubEntry
  BY Entries DEF Roster, Id

LEMMA InitType == Init => CallInv
  <1> SUFFICES ASSUME Init PROVE CallInv
    OBVIOUS
  <1>1. FilesType
    BY InitRoster, Contents DEF Init, FilesType
  <1>2. state \in [Node -> States] /\ budget \in [Bounded -> Nat]
    BY DEF Init, States
  <1>3. \A s \in Slot : slot[s] \in SlotState /\ CallOk(slot[s])
    BY IdleQuiet, QuietOk, NodeIds DEF Init
  <1>4. slot \in [Slot -> SlotState]
    BY <1>3 DEF Init
  <1> QED
    BY <1>1, <1>2, <1>3, <1>4, CallParts

LEMMA NextType == CallInv /\ [Next]_vars => CallInv'
  <1> SUFFICES ASSUME CallInv, [Next]_vars PROVE CallInv'
    OBVIOUS
  <1>1. ASSUME UNCHANGED vars PROVE CallInv'
    BY <1>1, CallParts, CallPartsNext DEF vars, FilesType
  <1> QED
    BY <1>1, StepKinds, QuietType, LoadType, FetchType, OpenType, WriteType, RenameType,
       ExitType, ForgetReadType, ForgetWriteType, ClockType DEF StepKind

\* What a call holds at each await of load() and save() (mesh.ts).
THEOREM CallsHold == Spec => []CallInv
  BY InitType, NextType, PTL DEF Spec

\* Every variable keeps its type, whatever fails and whoever dies.
THEOREM TypeCorrect == Spec => []TypeOK
  <1>1. CallInv => TypeOK
    BY DEF CallInv
  <1> QED
    BY <1>1, CallsHold, PTL

-----------------------------------------------------------------------------
\* Infrastructure is never shown as offline.

Good(e) == e \in {NoEntry, HubEntry}

\* Every copy of the roster, those of the temporary files, of the calls and of the
\* answers of seeds included: a descriptor may write any of them to mesh.json.
HubGood(h) ==
  /\ Good(file.nodes[h]) /\ Good(cli.nodes[h])
  /\ \A p \in Path : Good(tmp[p].nodes[h])
  /\ \A s \in Slot : Good(slot[s].data[h]) /\ Good(slot[s].remote[h])

HubInv == CallInv /\ \A h \in Infra : HubGood(h)

LEMMA EmptyGood ==
  ASSUME NEW h \in Infra
  PROVE  /\ Good(NoEntry) /\ Good(Empty[h])
         /\ Good(Torn.nodes[h]) /\ Good(NoFile.nodes[h])
         /\ \A r : QuietCall(r) => Good(r.data[h]) /\ Good(r.remote[h])
  BY EmptyRoster DEF Good, Torn, NoFile, QuietCall, Quiet, Id

\* One call changes, the files do not.
LEMMA CallGood ==
  ASSUME HubInv, NEW h \in Infra, FilesStay, NEW s \in Slot, NEW r,
         slot' = [slot EXCEPT ![s] = r], Good(r.data[h]), Good(r.remote[h])
  PROVE  HubGood(h)'
  <1>1. \A t \in Slot : slot'[t] = IF t = s THEN r ELSE slot[t]
    BY CallParts DEF HubInv
  <1> QED
    BY <1>1 DEF HubInv, HubGood, FilesStay

LEMMA QuietGood == ASSUME HubInv, NEW s \in Slot, QuietStep(s), NEW h \in Infra PROVE HubGood(h)'
  BY EmptyGood, CallGood DEF QuietStep

LEMMA LoadGood == ASSUME HubInv, NEW s \in Slot, LoadStep(s), NEW h \in Infra PROVE HubGood(h)'
  <1>1. PICK data \in {file.nodes, Empty} : LoadResult(s, data)
    BY DEF LoadStep
  <1>2. Good(data[h]) /\ Good(slot[s].remote[h])
    BY EmptyGood DEF HubInv, HubGood
  <1>3. CASE \E r : QuietCall(r) /\ slot' = [slot EXCEPT ![s] = r]
    BY <1>3, EmptyGood, CallGood DEF LoadStep
  <1>4. ASSUME NEW r \in SlotState, slot' = [slot EXCEPT ![s] = r],
               SaveCall(s, r), Derived(s, data, r.data)
        PROVE  HubGood(h)'
    <2>1. Good(r.data[h])
      BY <1>2, <1>4 DEF Derived, Good
    <2>2. Good(r.remote[h])
      BY <1>4, EmptyGood DEF SaveCall
    <2> QED
      BY <1>4, <2>1, <2>2, CallGood DEF LoadStep
  <1> QED
    BY <1>1, <1>3, <1>4 DEF LoadResult

LEMMA FetchGood == ASSUME HubInv, NEW s \in Slot, FetchStep(s), NEW h \in Infra PROVE HubGood(h)'
  <1> DEFINE r == [slot[s] EXCEPT !.pc = "load", !.remote = file.nodes]
  <1>1. Good(r.data[h]) /\ Good(r.remote[h])
    BY CallParts DEF HubInv, HubGood, SlotState
  <1>2. FilesStay /\ slot' = [slot EXCEPT ![s] = r]
    BY DEF FetchStep
  <1> HIDE DEF r
  <1> QED
    BY <1>1, <1>2, CallGood

LEMMA OpenGood == ASSUME HubInv, NEW s \in Slot, Open(s), NEW h \in Infra PROVE HubGood(h)'
  <1>1. \A p \in Path : Good(tmp'[p].nodes[h])
    BY CallParts, EmptyGood DEF HubInv, HubGood, Open, FilesType
  <1>2. \A t \in Slot : slot'[t].data = slot[t].data /\ slot'[t].remote = slot[t].remote
    BY CallParts DEF HubInv, Open, SlotState
  <1> QED
    BY <1>1, <1>2 DEF HubInv, HubGood, Open

LEMMA WrittenGood ==
  ASSUME NEW h \in Infra, NEW d \in Roster, Good(d[h]), NEW c, NEW w \in Written(d, c)
  PROVE  Good(w.nodes[h])
  BY EmptyGood, Contents DEF Written

LEMMA WriteGood == ASSUME HubInv, NEW s \in Slot, Write(s), NEW h \in Infra PROVE HubGood(h)'
  <1>1. slot[s].data \in Roster /\ Good(slot[s].data[h])
    BY CallParts DEF HubInv, HubGood, SlotState
  <1>2. Good(file'.nodes[h])
    BY <1>1, WrittenGood DEF Write, HubInv, HubGood
  <1>3. \A p \in Path : Good(tmp'[p].nodes[h])
    BY <1>1, WrittenGood, CallParts DEF Write, HubInv, HubGood, FilesType
  <1>4. \A t \in Slot : /\ slot'[t].data = slot[t].data \/ slot'[t].data = Empty
                        /\ slot'[t].remote = slot[t].remote
    BY CallParts DEF HubInv, Write, SlotState
  <1> QED
    BY <1>2, <1>3, <1>4, EmptyGood DEF HubInv, HubGood, Write

LEMMA RenameGood == ASSUME HubInv, NEW s \in Slot, Rename(s), NEW h \in Infra PROVE HubGood(h)'
  <1>1. Good(file'.nodes[h]) /\ Good(cli'.nodes[h])
    BY NodeIds DEF HubInv, HubGood, Rename
  <1>2. \A p \in Path : Good(tmp'[p].nodes[h])
    BY CallParts, EmptyGood DEF HubInv, HubGood, Rename, FilesType
  <1>3. \A r \in Slot : slot'[r] = AfterCall(s) \/ slot'[r] = Moved(r, PathOf(s))
    BY DEF Rename
  <1>4. QuietCall(AfterCall(s))
    BY AfterQuiet
  <1>5. \A r \in Slot : \/ QuietCall(slot'[r])
                        \/ slot'[r].data = slot[r].data /\ slot'[r].remote = slot[r].remote
    BY <1>3, <1>4, MovedOk DEF HubInv
  <1> QED
    BY <1>1, <1>2, <1>5, EmptyGood DEF HubInv, HubGood

LEMMA ExitGood == ASSUME HubInv, ExitStep, NEW h \in Infra PROVE HubGood(h)'
  BY ExitParts, EmptyGood DEF HubInv, HubGood, FilesStay

LEMMA ForgetReadGood ==
  ASSUME HubInv, NEW i \in Id, ForgetRead(i), NEW h \in Infra
  PROVE  HubGood(h)'
  <1> DEFINE r == [file.nodes EXCEPT ![i] = NoEntry]
  <1>1. file.nodes \in Roster /\ r \in Roster
    BY CallParts, Entries, Put DEF HubInv, FilesType, Content
  <1>2. Good(r[h])
    BY <1>1, EmptyGood DEF HubInv, HubGood, Roster, Id
  <1>3. cli'.nodes = r
    BY <1>1, Contents DEF ForgetRead
  <1> QED
    BY <1>2, <1>3 DEF HubInv, HubGood, ForgetRead

LEMMA ForgetWriteGood == ASSUME HubInv, ForgetWrite, NEW h \in Infra PROVE HubGood(h)'
  <1>1. \A s \in Slot : slot'[s].data = slot[s].data /\ slot'[s].remote = slot[s].remote
    BY ForgetSlots, DroppedOk DEF HubInv
  <1> QED
    BY <1>1, EmptyGood DEF HubInv, HubGood, ForgetWrite

LEMMA AgedGood ==
  ASSUME NEW h \in Infra, NEW r \in Roster, Good(r[h])
  PROVE  Good(Aged(r)[h])
  BY AgedHub DEF Good, Id

LEMMA ClockGood == ASSUME HubInv, Clock, NEW h \in Infra PROVE HubGood(h)'
  <1>1. \A f \in Content : Good(f.nodes[h]) => Good(AgedFile(f).nodes[h])
    BY AgedContent, AgedGood DEF Content
  <1>2. Good(file'.nodes[h]) /\ Good(cli'.nodes[h])
    BY <1>1, CallParts DEF Clock, HubInv, HubGood, FilesType
  <1>3. \A p \in Path : Good(tmp'[p].nodes[h])
    BY <1>1, CallParts DEF Clock, HubInv, HubGood, FilesType
  <1>4. \A s \in Slot : slot[s].data \in Roster /\ slot[s].remote \in Roster
    BY CallParts DEF HubInv, SlotState
  <1>5. \A s \in Slot : /\ slot'[s].data = Aged(slot[s].data)
                        /\ slot'[s].remote = Aged(slot[s].remote)
    BY ClockSlots, OlderCallOk DEF HubInv
  <1>6. \A s \in Slot : Good(slot'[s].data[h]) /\ Good(slot'[s].remote[h])
    BY <1>4, <1>5, AgedGood DEF HubInv, HubGood
  <1> QED
    BY <1>2, <1>3, <1>6 DEF HubGood

LEMMA InitGood == ASSUME Init, NEW h \in Infra PROVE HubGood(h)
  <1>1. Good(file.nodes[h])
    BY InitRoster, Contents DEF Init, Good
  <1>2. \A s \in Slot : QuietCall(slot[s])
    BY IdleQuiet, NodeIds DEF Init
  <1> QED
    BY <1>1, <1>2, EmptyGood DEF Init, HubGood

LEMMA NextGood == HubInv /\ [Next]_vars => HubInv'
  <1> SUFFICES ASSUME HubInv, [Next]_vars PROVE HubInv'
    OBVIOUS
  <1>1. CallInv'
    BY NextType DEF HubInv
  <1>2. ASSUME NEW h \in Infra PROVE HubGood(h)'
    <2>1. ASSUME UNCHANGED vars PROVE HubGood(h)'
      BY <2>1 DEF vars, HubInv, HubGood
    <2> QED
      BY <2>1, StepKinds, QuietGood, LoadGood, FetchGood, OpenGood, WriteGood, RenameGood,
         ExitGood, ForgetReadGood, ForgetWriteGood, ClockGood DEF HubInv, StepKind
  <1> QED
    BY <1>1, <1>2 DEF HubInv

\* No fault, overlap, misread or crash makes a node show infrastructure as offline:
\* prune() passes it over, and every copy of the roster agrees with that.
THEOREM HubStaysOnline == Spec => []HubNeverOffline
  <1>1. Init => HubInv
    BY InitType, InitGood DEF HubInv
  <1>2. HubInv => HubNeverOffline
    BY DEF HubInv, HubGood, HubNeverOffline, Good
  <1> QED
    BY <1>1, <1>2, NextGood, PTL DEF Spec

-----------------------------------------------------------------------------
\* The file is whole, where every call has a temporary file of its own.

PrivatePaths == \A r, s \in Slot : PathOf(r) = PathOf(s) => r = s

\* A call that writes does so to its own truncated file, and what it is about to
\* rename is what it wrote.
OwnFile(s) ==
  /\ slot[s].fd \in {"none", "tmp"}
  /\ slot[s].pc = "write" => slot[s].fd = "tmp" /\ tmp[PathOf(s)] = Torn
  /\ slot[s].pc = "rename" => tmp[PathOf(s)].kind = "json"

Whole == file.kind = "json" /\ (cli = NoFile \/ cli.kind = "json")

TearInv == CallInv /\ Whole /\ \A s \in Slot : OwnFile(s)

LEMMA QuietOwn == ASSUME NEW s \in Slot, QuietCall(slot'[s]) PROVE OwnFile(s)'
  BY DEF QuietCall, Quiet, OwnFile

\* Steps of one call that leave the files alone.
LEMMA CallOwn ==
  ASSUME TearInv, FilesStay, NEW s \in Slot, NEW r, slot' = [slot EXCEPT ![s] = r],
         r.pc \notin {"write", "rename"}, r.fd \in {"none", "tmp"}
  PROVE  Whole' /\ \A t \in Slot : OwnFile(t)'
  <1>1. \A t \in Slot : slot'[t] = IF t = s THEN r ELSE slot[t]
    BY CallParts DEF TearInv
  <1> QED
    BY <1>1 DEF TearInv, Whole, OwnFile, FilesStay

LEMMA QuietTear ==
  ASSUME TearInv, NEW s \in Slot, QuietStep(s) \/ LoadStep(s) \/ FetchStep(s)
  PROVE  Whole' /\ \A t \in Slot : OwnFile(t)'
  <1>1. FilesStay
    BY DEF QuietStep, LoadStep, FetchStep
  <1>2. ASSUME NEW r, QuietCall(r), slot' = [slot EXCEPT ![s] = r]
        PROVE  Whole' /\ \A t \in Slot : OwnFile(t)'
    BY <1>1, <1>2, CallOwn DEF QuietCall, Quiet
  <1>3. ASSUME NEW r, SaveCall(s, r), slot' = [slot EXCEPT ![s] = r]
        PROVE  Whole' /\ \A t \in Slot : OwnFile(t)'
    BY <1>1, <1>3, CallOwn DEF SaveCall, TearInv, OwnFile
  <1>4. CASE FetchStep(s)
    <2> DEFINE r == [slot[s] EXCEPT !.pc = "load", !.remote = file.nodes]
    <2>1. r.pc = "load" /\ r.fd \in {"none", "tmp"}
      BY CallParts DEF TearInv, OwnFile, SlotState
    <2>2. slot' = [slot EXCEPT ![s] = r]
      BY <1>4 DEF FetchStep
    <2> HIDE DEF r
    <2> QED
      BY <1>1, <2>1, <2>2, CallOwn
  <1> QED
    BY <1>2, <1>3, <1>4 DEF QuietStep, LoadStep, LoadResult

LEMMA OpenTear ==
  ASSUME PrivatePaths, TearInv, NEW s \in Slot, Open(s)
  PROVE  Whole' /\ \A t \in Slot : OwnFile(t)'
  <1>1. slot'[s].pc = "write" /\ slot'[s].fd = "tmp" /\ tmp'[PathOf(s)] = Torn
    BY CallParts, NodeIds DEF TearInv, Open, SlotState, FilesType
  <1>2. \A t \in Slot \ {s} : slot'[t] = slot[t] /\ tmp'[PathOf(t)] = tmp[PathOf(t)]
    BY CallParts, NodeIds DEF PrivatePaths, TearInv, Open, FilesType
  <1> QED
    BY <1>1, <1>2 DEF TearInv, Whole, OwnFile, Open

LEMMA WriteTear ==
  ASSUME PrivatePaths, TearInv, NEW s \in Slot, Write(s)
  PROVE  /\ Whole' /\ \A t \in Slot : OwnFile(t)'
         /\ tmp'[PathOf(s)] = Json(slot[s].data)
  <1>1. slot[s].fd = "tmp" /\ tmp[PathOf(s)] = Torn
    BY DEF TearInv, OwnFile, Write, At
  <1>2. tmp' = [tmp EXCEPT ![PathOf(s)] = Json(slot[s].data)] /\ file' = file
    BY <1>1 DEF Write, Written
  <1>3. tmp'[PathOf(s)] = Json(slot[s].data)
    BY <1>2, CallParts, NodeIds DEF TearInv, FilesType
  <1>4. slot'[s].pc = "rename" /\ slot'[s].fd = "none" /\ tmp'[PathOf(s)].kind = "json"
    BY <1>3, CallParts DEF TearInv, Write, SlotState, Json
  <1>5. \A t \in Slot \ {s} : slot'[t] = slot[t] /\ tmp'[PathOf(t)] = tmp[PathOf(t)]
    BY <1>2, CallParts, NodeIds DEF PrivatePaths, TearInv, Write, FilesType
  <1> QED
    BY <1>2, <1>3, <1>4, <1>5 DEF TearInv, Whole, OwnFile, Write

LEMMA RenameTear ==
  ASSUME PrivatePaths, TearInv, NEW s \in Slot, Rename(s)
  PROVE  Whole' /\ \A t \in Slot : OwnFile(t)'
  <1>1. Whole'
    BY DEF TearInv, OwnFile, Whole, Rename, At
  <1>2. OwnFile(s)'
    BY AfterQuiet, QuietOwn DEF Rename
  <1>3. ASSUME NEW t \in Slot \ {s} PROVE OwnFile(t)'
    <2>1. tmp'[PathOf(t)] = tmp[PathOf(t)] /\ PathOf(t) # PathOf(s)
      BY CallParts, NodeIds DEF PrivatePaths, TearInv, Rename, FilesType
    <2>2. slot'[t] = Moved(t, PathOf(s))
      BY DEF Rename
    <2>3. slot'[t].pc = slot[t].pc /\ slot'[t].fd = slot[t].fd
      BY <2>1, <2>2, MovedOk DEF TearInv, OwnFile
    <2> QED
      BY <2>1, <2>3 DEF TearInv, OwnFile
  <1> QED
    BY <1>1, <1>2, <1>3

LEMMA OtherTear ==
  ASSUME TearInv, ExitStep \/ (\E i \in Id : ForgetRead(i)) \/ ForgetWrite \/ Clock
  PROVE  Whole' /\ \A t \in Slot : OwnFile(t)'
  <1>1. CASE ExitStep
    BY <1>1, ExitParts, QuietOwn DEF TearInv, Whole, OwnFile, FilesStay
  <1>2. ASSUME NEW i \in Id, ForgetRead(i) PROVE Whole' /\ \A t \in Slot : OwnFile(t)'
    BY <1>2 DEF ForgetRead, Json, TearInv, Whole, OwnFile
  <1>3. CASE ForgetWrite
    <2>1. \A s \in Slot : slot'[s].pc = slot[s].pc /\ slot'[s].fd = slot[s].fd
      BY <1>3, ForgetSlots, DroppedOk DEF TearInv, OwnFile
    <2> QED
      BY <1>3, <2>1 DEF ForgetWrite, TearInv, Whole, OwnFile
  <1>4. CASE Clock
    <2>1. \A s \in Slot : slot'[s].pc = slot[s].pc /\ slot'[s].fd = slot[s].fd
      BY <1>4, ClockSlots, OlderCallOk DEF TearInv
    <2>2. \A s \in Slot : /\ tmp'[PathOf(s)].kind = tmp[PathOf(s)].kind
                          /\ tmp[PathOf(s)] = Torn => tmp'[PathOf(s)] = Torn
      BY <1>4, CallParts, NodeIds, AgedContent DEF TearInv, Clock, FilesType
    <2>3. Whole'
      BY <1>4, CallParts, AgedContent DEF TearInv, Clock, FilesType, Whole
    <2> QED
      BY <2>1, <2>2, <2>3 DEF TearInv, OwnFile
  <1> QED
    BY <1>1, <1>2, <1>3, <1>4

LEMMA NextTear == ASSUME PrivatePaths PROVE TearInv /\ [Next]_vars => TearInv'
  <1> SUFFICES ASSUME TearInv, [Next]_vars PROVE TearInv'
    OBVIOUS
  <1>1. CallInv'
    BY NextType DEF TearInv
  <1>2. ASSUME UNCHANGED vars PROVE Whole' /\ \A t \in Slot : OwnFile(t)'
    BY <1>2 DEF vars, TearInv, Whole, OwnFile
  <1>3. Whole' /\ \A t \in Slot : OwnFile(t)'
    BY <1>2, StepKinds, QuietTear, OpenTear, WriteTear, RenameTear, OtherTear
       DEF TearInv, StepKind
  <1> QED
    BY <1>1, <1>3 DEF TearInv

LEMMA InitTear == Init => TearInv
  <1> SUFFICES ASSUME Init PROVE TearInv
    OBVIOUS
  <1>1. \A s \in Slot : QuietCall(slot[s])
    BY IdleQuiet, NodeIds DEF Init
  <1>2. \A s \in Slot : OwnFile(s)
    BY <1>1 DEF QuietCall, Quiet, OwnFile
  <1> QED
    BY <1>2, InitType DEF Init, Json, Whole, TearInv

\* Whatever writes fail and whichever processes die at any await of save(), mesh.json
\* is valid: provided that no two calls share a temporary file.
THEOREM FileStaysWhole == PrivatePaths => (Spec => []NeverTorn)
  <1> SUFFICES ASSUME PrivatePaths PROVE Spec => []NeverTorn
    OBVIOUS
  <1>1. TearInv /\ [Next]_vars => TearInv'
    BY NextTear
  <1>2. TearInv => NeverTorn
    BY DEF TearInv, Whole, NeverTorn, Torn
  <1> QED
    BY <1>1, <1>2, InitTear, PTL DEF Spec

-----------------------------------------------------------------------------
\* Infrastructure entries survive, where besides every read succeeds and nobody
\* runs "mesh forget".

NoWipes == PrivatePaths /\ MaxMisreads = 0 /\ MaxForgets = 0

\* What a call is about to save, or to rename, has the entry.
CarriesHub(s, h) ==
  /\ slot[s].pc \in {"open", "write"} => slot[s].data[h] # NoEntry
  /\ slot[s].pc = "rename" => tmp[PathOf(s)].nodes[h] # NoEntry

HubThere(h) == file.nodes[h] # NoEntry /\ \A s \in Slot : CarriesHub(s, h)

KeptInv == TearInv /\ cli = NoFile /\ \A h \in Infra : HubThere(h)

\* Steps of one call that leave the files alone.
LEMMA CallKept ==
  ASSUME KeptInv, NEW h \in Infra, FilesStay, NEW s \in Slot, NEW r,
         slot' = [slot EXCEPT ![s] = r],
         \/ r.pc \notin {"open", "write", "rename"}
         \/ r.pc = "open" /\ r.data[h] # NoEntry
  PROVE  cli' = NoFile /\ HubThere(h)'
  <1>1. \A t \in Slot : slot'[t] = IF t = s THEN r ELSE slot[t]
    BY CallParts DEF KeptInv, TearInv
  <1>2. CarriesHub(s, h)'
    BY <1>1 DEF CarriesHub
  <1>3. \A t \in Slot \ {s} : CarriesHub(t, h)'
    BY <1>1 DEF CarriesHub, KeptInv, HubThere, FilesStay
  <1> QED
    BY <1>2, <1>3 DEF KeptInv, HubThere, FilesStay

LEMMA QuietKept ==
  ASSUME KeptInv, NEW h \in Infra, NEW s \in Slot, QuietStep(s) \/ FetchStep(s)
  PROVE  cli' = NoFile /\ HubThere(h)'
  <1>1. CASE QuietStep(s)
    BY <1>1, CallKept DEF QuietStep, QuietCall, Quiet
  <1>2. CASE FetchStep(s)
    <2> DEFINE r == [slot[s] EXCEPT !.pc = "load", !.remote = file.nodes]
    <2>1. r.pc = "load" /\ slot' = [slot EXCEPT ![s] = r] /\ FilesStay
      BY <1>2, CallParts DEF KeptInv, TearInv, SlotState, FetchStep
    <2> HIDE DEF r
    <2> QED
      BY <2>1, CallKept
  <1> QED
    BY <1>1, <1>2

LEMMA LoadKept ==
  ASSUME NoWipes, KeptInv, NEW h \in Infra, NEW s \in Slot, LoadStep(s)
  PROVE  cli' = NoFile /\ HubThere(h)'
  <1>1. PICK data \in {file.nodes, Empty} :
          /\ data = file.nodes \/ budget["misreads"] < MaxMisreads
          /\ LoadResult(s, data)
    BY DEF LoadStep
  <1>2. budget["misreads"] \in Nat
    BY CallParts DEF KeptInv, TearInv, Bounded
  <1>3. data[h] # NoEntry
    BY <1>1, <1>2 DEF NoWipes, KeptInv, HubThere
  <1>4. FilesStay
    BY DEF LoadStep
  <1>5. ASSUME NEW r, QuietCall(r), slot' = [slot EXCEPT ![s] = r]
        PROVE  cli' = NoFile /\ HubThere(h)'
    BY <1>4, <1>5, CallKept DEF QuietCall, Quiet
  <1>6. ASSUME NEW r, slot' = [slot EXCEPT ![s] = r], SaveCall(s, r),
               Derived(s, data, r.data)
        PROVE  cli' = NoFile /\ HubThere(h)'
    <2>1. r.pc = "open" /\ r.data[h] # NoEntry
      BY <1>3, <1>6 DEF SaveCall, Derived
    <2> QED
      BY <1>4, <1>6, <2>1, CallKept
  <1> QED
    BY <1>1, <1>5, <1>6 DEF LoadResult

LEMMA OpenKept ==
  ASSUME NoWipes, KeptInv, NEW h \in Infra, NEW s \in Slot, Open(s)
  PROVE  cli' = NoFile /\ HubThere(h)'
  <1>1. /\ slot'[s].pc = "write" /\ slot'[s].data = slot[s].data
        /\ slot[s].data[h] # NoEntry
    BY CallParts DEF KeptInv, HubThere, CarriesHub, TearInv, Open, SlotState, At
  <1>2. \A t \in Slot \ {s} : slot'[t] = slot[t] /\ tmp'[PathOf(t)] = tmp[PathOf(t)]
    BY CallParts, NodeIds DEF NoWipes, PrivatePaths, KeptInv, TearInv, Open, FilesType
  <1>3. CarriesHub(s, h)'
    BY <1>1 DEF CarriesHub
  <1>4. \A t \in Slot \ {s} : CarriesHub(t, h)'
    BY <1>2 DEF KeptInv, HubThere, CarriesHub
  <1> QED
    BY <1>3, <1>4 DEF KeptInv, HubThere, Open

LEMMA WriteKept ==
  ASSUME NoWipes, KeptInv, NEW h \in Infra, NEW s \in Slot, Write(s)
  PROVE  cli' = NoFile /\ HubThere(h)'
  <1>1. slot[s].fd = "tmp" /\ tmp[PathOf(s)] = Torn /\ slot[s].data \in Roster
    BY CallParts DEF KeptInv, TearInv, OwnFile, Write, At, SlotState
  <1>2. tmp' = [tmp EXCEPT ![PathOf(s)] = Json(slot[s].data)] /\ file' = file
    BY <1>1 DEF Write, Written
  <1>3. tmp'[PathOf(s)].nodes = slot[s].data
    BY <1>1, <1>2, CallParts, NodeIds, Contents DEF KeptInv, TearInv, FilesType
  <1>4. slot[s].data[h] # NoEntry /\ slot'[s].pc = "rename"
    BY CallParts DEF KeptInv, HubThere, CarriesHub, TearInv, Write, SlotState, At
  <1>5. CarriesHub(s, h)'
    BY <1>3, <1>4 DEF CarriesHub
  <1>6. \A t \in Slot \ {s} : slot'[t] = slot[t] /\ tmp'[PathOf(t)] = tmp[PathOf(t)]
    BY <1>2, CallParts, NodeIds DEF NoWipes, PrivatePaths, KeptInv, TearInv, Write, FilesType
  <1>7. \A t \in Slot \ {s} : CarriesHub(t, h)'
    BY <1>6 DEF KeptInv, HubThere, CarriesHub
  <1> QED
    BY <1>2, <1>5, <1>7 DEF KeptInv, HubThere, Write

LEMMA RenameKept ==
  ASSUME NoWipes, KeptInv, NEW h \in Infra, NEW s \in Slot, Rename(s)
  PROVE  cli' = NoFile /\ HubThere(h)'
  <1>1. file'.nodes[h] # NoEntry /\ cli' = NoFile
    BY DEF KeptInv, HubThere, CarriesHub, Rename, At
  <1>2. CarriesHub(s, h)'
    BY AfterQuiet DEF Rename, QuietCall, Quiet, CarriesHub
  <1>3. ASSUME NEW t \in Slot \ {s} PROVE CarriesHub(t, h)'
    <2>1. tmp'[PathOf(t)] = tmp[PathOf(t)]
      BY CallParts, NodeIds
         DEF NoWipes, PrivatePaths, KeptInv, TearInv, Rename, FilesType
    <2>2. slot'[t].pc = slot[t].pc /\ slot'[t].data = slot[t].data
      BY MovedOk DEF Rename, KeptInv, TearInv
    <2> QED
      BY <2>1, <2>2 DEF KeptInv, HubThere, CarriesHub
  <1> QED
    BY <1>1, <1>2, <1>3 DEF HubThere

LEMMA ExitKept ==
  ASSUME KeptInv, NEW h \in Infra, ExitStep
  PROVE  cli' = NoFile /\ HubThere(h)'
  <1>1. FilesStay /\ \A s \in Slot : slot'[s] = slot[s] \/ QuietCall(slot'[s])
    BY ExitParts DEF KeptInv, TearInv
  <1>2. \A s \in Slot : CarriesHub(s, h)'
    BY <1>1 DEF KeptInv, HubThere, CarriesHub, QuietCall, Quiet, FilesStay
  <1> QED
    BY <1>1, <1>2 DEF KeptInv, HubThere, FilesStay

LEMMA ClockKept ==
  ASSUME KeptInv, NEW h \in Infra, Clock
  PROVE  cli' = NoFile /\ HubThere(h)'
  <1>1. h \in Id
    BY DEF Id
  <1>2. \A f \in Content : AgedFile(f).nodes[h] = NoEntry <=> f.nodes[h] = NoEntry
    BY <1>1, AgedContent, AgedRoster DEF Content
  <1>3. file'.nodes[h] # NoEntry
    BY <1>2, CallParts DEF Clock, KeptInv, TearInv, HubThere, FilesType
  <1>4. cli' = NoFile
    BY CallParts, AgedContent, Contents DEF Clock, KeptInv
  <1>5. ASSUME NEW s \in Slot PROVE CarriesHub(s, h)'
    <2>1. slot'[s].pc = slot[s].pc /\ slot'[s].data = Aged(slot[s].data)
      BY ClockSlots, OlderCallOk DEF KeptInv, TearInv
    <2>2. slot'[s].data[h] = NoEntry <=> slot[s].data[h] = NoEntry
      BY <1>1, <2>1, CallParts, AgedRoster DEF KeptInv, TearInv, SlotState
    <2>3. tmp'[PathOf(s)].nodes[h] = NoEntry <=> tmp[PathOf(s)].nodes[h] = NoEntry
      BY <1>2, CallParts, NodeIds DEF Clock, KeptInv, TearInv, FilesType
    <2> QED
      BY <2>1, <2>2, <2>3 DEF KeptInv, HubThere, CarriesHub
  <1> QED
    BY <1>3, <1>4, <1>5 DEF HubThere

LEMMA NoForgets ==
  ASSUME NoWipes, KeptInv
  PROVE  ~ ForgetWrite /\ \A i \in Id : ~ ForgetRead(i)
  <1>1. budget["forgets"] \in Nat
    BY CallParts DEF KeptInv, TearInv, Bounded
  <1> QED
    BY <1>1 DEF NoWipes, KeptInv, ForgetWrite, ForgetRead

LEMMA NextKept == ASSUME NoWipes PROVE KeptInv /\ [Next]_vars => KeptInv'
  <1> SUFFICES ASSUME KeptInv, [Next]_vars PROVE KeptInv'
    OBVIOUS
  <1>1. TearInv'
    BY NextTear DEF NoWipes, KeptInv
  <1>2. ASSUME NEW h \in Infra PROVE cli' = NoFile /\ HubThere(h)'
    <2>1. ASSUME UNCHANGED vars PROVE cli' = NoFile /\ HubThere(h)'
      BY <2>1 DEF vars, KeptInv, HubThere, CarriesHub
    <2> QED
      BY <2>1, StepKinds, QuietKept, LoadKept, OpenKept, WriteKept, RenameKept, ExitKept,
         ClockKept, NoForgets DEF KeptInv, TearInv, StepKind
  <1>3. cli' = NoFile
    <2>1. CASE Clock
      BY <2>1, CallParts, AgedContent, Contents DEF Clock, KeptInv
    <2>2. CASE UNCHANGED vars
      BY <2>2 DEF vars, KeptInv
    <2> QED
      BY <2>1, <2>2, StepKinds, ExitParts, NoForgets
         DEF KeptInv, TearInv, StepKind, QuietStep, LoadStep, FetchStep, FilesStay,
             Open, Write, Rename
  <1> QED
    BY <1>1, <1>2, <1>3 DEF KeptInv

LEMMA InitKept == Init => KeptInv
  <1> SUFFICES ASSUME Init PROVE KeptInv
    OBVIOUS
  <1>1. \A h \in Infra : file.nodes[h] # NoEntry
    BY InitRoster, Contents DEF Init, HubEntry, NoEntry
  <1>2. \A s \in Slot : QuietCall(slot[s])
    BY IdleQuiet, NodeIds DEF Init
  <1>3. \A h \in Infra, s \in Slot : CarriesHub(s, h)
    BY <1>2 DEF QuietCall, Quiet, CarriesHub
  <1> QED
    BY <1>1, <1>3, InitTear DEF Init, KeptInv, HubThere

\* No interleaving of registrations, heartbeats, prunes, joins and seeds, and no
\* failing save, loses an infrastructure entry: each change is made to a whole copy.
THEOREM HubSurvives == NoWipes => (Spec => []HubKept)
  <1> SUFFICES ASSUME NoWipes PROVE Spec => []HubKept
    OBVIOUS
  <1>1. KeptInv /\ [Next]_vars => KeptInv'
    BY NextKept
  <1>2. KeptInv => HubKept
    BY DEF KeptInv, HubThere, HubKept
  <1> QED
    BY <1>1, <1>2, InitKept, PTL DEF Spec
=============================================================================
