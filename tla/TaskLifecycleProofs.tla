------------------------- MODULE TaskLifecycleProofs -------------------------
(***************************************************************************)
(* What the lease of TaskLifecycle is good for: theorems about every       *)
(* implementation of it, for any number of rows and workers.               *)
(***************************************************************************)
EXTENDS TaskLifecycle, TLAPS

LeaseTypes == LifecycleTypeOK /\ LeaseMeansRunning

LEMMA LeaseTypesInit == LifecycleInit => LeaseTypes
  BY DEF LifecycleInit, LeaseTypes, LifecycleTypeOK, LeaseMeansRunning, Status

LEMMA LeaseTypesStep ==
  LeaseTypes /\ [LifecycleNext]_lifecycleVars => LeaseTypes'
  <1> SUFFICES ASSUME LeaseTypes, [LifecycleNext]_lifecycleVars
               PROVE  LeaseTypes'
    OBVIOUS
  <1> USE DEF LeaseTypes, LifecycleTypeOK, LeaseMeansRunning
  <1>1. ASSUME NEW t \in Task, Submit(t) PROVE LeaseTypes'
    BY <1>1 DEF Submit, Status, Open
  <1>2. ASSUME NEW t \in Task, NEW w \in Worker, Acquire(t, w) PROVE LeaseTypes'
    BY <1>2 DEF Acquire, Status, Open
  <1>3. ASSUME NEW t \in Task, Park(t) PROVE LeaseTypes'
    BY <1>3 DEF Park, Status, Open
  <1>4. ASSUME NEW t \in Task, NEW s \in Terminal, Conclude(t, s) PROVE LeaseTypes'
    BY <1>4 DEF Conclude, Status
  <1>5. ASSUME NEW t \in Task, Cancel(t) PROVE LeaseTypes'
    BY <1>5 DEF Cancel, Status, Terminal
  <1>6. ASSUME NEW W \in SUBSET Worker, Abandon(W) PROVE LeaseTypes'
    BY <1>6 DEF Abandon
  <1>7. CASE Recover
    BY <1>7 DEF Recover
  <1>8. CASE UNCHANGED lifecycleVars
    BY <1>8 DEF lifecycleVars
  <1> QED
    BY <1>1, <1>2, <1>3, <1>4, <1>5, <1>6, <1>7, <1>8 DEF LifecycleNext

LEMMA LeaseTypesInvariant == LifecycleSpec => []LeaseTypes
  BY LeaseTypesInit, LeaseTypesStep, PTL DEF LifecycleSpec

\* A leased row is running, or was killed under its worker: no other outcome is
\* visible while a worker may still write one.
THEOREM NoOutcomeUnderLease == LifecycleSpec => []LeaseMeansRunning
  <1>1. LeaseTypes => LeaseMeansRunning
    BY DEF LeaseTypes
  <1> QED
    BY <1>1, LeaseTypesInvariant, PTL

\* The outcome of a row nobody holds is final: no claim, kill, sweep or late
\* worker changes it.
THEOREM OutcomesAreFinal == LifecycleSpec => OutcomeIsFinal
  <1> DEFINE Final == \A t \in Task : status[t] \in Terminal /\ owner[t] = NoOwner
                        => status'[t] = status[t] /\ owner'[t] = NoOwner
  <1>1. ASSUME LeaseTypes, [LifecycleNext]_lifecycleVars PROVE [Final]_lifecycleVars
    <2> SUFFICES ASSUME NEW t \in Task, status[t] \in Terminal, owner[t] = NoOwner,
                        LifecycleNext
                 PROVE  status'[t] = status[t] /\ owner'[t] = NoOwner
      BY <1>1
    <2> USE <1>1 DEF LeaseTypes, LifecycleTypeOK, Terminal, Open
    <2>1. ASSUME NEW u \in Task, Submit(u) \/ Park(u) \/ Cancel(u)
          PROVE  status'[t] = status[t] /\ owner'[t] = NoOwner
      BY <2>1 DEF Submit, Park, Cancel
    <2>2. ASSUME NEW u \in Task, NEW w \in Worker, Acquire(u, w)
          PROVE  status'[t] = status[t] /\ owner'[t] = NoOwner
      BY <2>2 DEF Acquire
    <2>3. ASSUME NEW u \in Task, NEW s \in Terminal, Conclude(u, s)
          PROVE  status'[t] = status[t] /\ owner'[t] = NoOwner
      BY <2>3 DEF Conclude
    <2>4. ASSUME NEW W \in SUBSET Worker, Abandon(W)
          PROVE  status'[t] = status[t] /\ owner'[t] = NoOwner
      BY <2>4 DEF Abandon
    <2>5. CASE Recover
      BY <2>5 DEF Recover
    <2> QED
      BY <2>1, <2>2, <2>3, <2>4, <2>5 DEF LifecycleNext
  <1> QED
    BY <1>1, LeaseTypesInvariant, PTL DEF LifecycleSpec, OutcomeIsFinal
=============================================================================
