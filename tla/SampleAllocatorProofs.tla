------------------------ MODULE SampleAllocatorProofs ------------------------
(***************************************************************************)
(* The allocator's invariants for every number of getters and samples, and *)
(* that it implements SamplePool.                                          *)
(***************************************************************************)
EXTENDS SampleAllocator, FiniteSetTheorems, TLAPS

\* TypeOK without the bounds that only follow from the balance of the waits.
Types ==
    /\ m_bCommitted \in BOOLEAN /\ m_bDecommitInProgress \in BOOLEAN /\ m_bChanged \in BOOLEAN
    /\ m_lCount \in SUBSET Sample /\ m_lAllocated \in SUBSET Sample
    /\ m_lFree \in SUBSET Sample /\ returning \in SUBSET Sample
    /\ m_lWaiting \in Nat /\ m_hSem \in Nat /\ asleep \in SUBSET Getter
    /\ m_cRef \in [Sample -> 0 .. MaxRefs]
    /\ selfRefs \in Nat /\ owed \in 0 .. MaxOwed

Inv == Types /\ NoLostWakeup /\ OwnedOnce /\ KeptAlive /\ PropertiesInForce

\* The bounds in TypeOK: no more getters wait than there are.
LEMMA InvTypeOK == Inv => TypeOK
<1>. SUFFICES ASSUME Inv PROVE TypeOK
  OBVIOUS
<1>1. Cardinality(asleep) <= Cardinality(Getter) /\ Cardinality(Getter) \in Nat
  BY FS_Subset, FS_CardinalityType, AllocatorAssumption DEF Inv, Types
<1>2. m_lWaiting \in 0 .. Cardinality(Getter) /\ m_hSem \in 0 .. Cardinality(Getter)
  BY <1>1 DEF Inv, Types, NoLostWakeup
<1>3. selfRefs \in 0 .. MaxOwed + 1
  BY AllocatorAssumption DEF Inv, Types, KeptAlive
<1>. QED
  BY <1>2, <1>3 DEF Inv, Types, TypeOK

\* At first there are no samples and nobody waits.
LEMMA InvInit == Init => Inv
<1>. SUFFICES ASSUME Init PROVE Inv
  OBVIOUS
<1>1. Types
  <2>1. m_cRef \in [Sample -> 0 .. MaxRefs]
    BY AllocatorAssumption DEF Init
  <2>2. owed \in 0 .. MaxOwed
    BY AllocatorAssumption DEF Init
  <2>3. {m_lCount, m_lAllocated, m_lFree, returning} \subseteq SUBSET Sample
        /\ asleep \in SUBSET Getter
    BY DEF Init
  <2>4. m_lWaiting \in Nat /\ m_hSem \in Nat /\ selfRefs \in Nat
    BY DEF Init
  <2>5. /\ m_bCommitted \in BOOLEAN /\ m_bDecommitInProgress \in BOOLEAN
        /\ m_bChanged \in BOOLEAN
    BY DEF Init
  <2>. QED
    BY <2>1, <2>2, <2>3, <2>4, <2>5 DEF Types
<1>2. NoLostWakeup
  BY FS_EmptySet DEF Init, NoLostWakeup
<1>3. OwnedOnce
  BY DEF Init, OwnedOnce, Held
<1>4. KeptAlive /\ PropertiesInForce
  BY DEF Init, KeptAlive, PropertiesInForce, Out
<1>. QED
  BY <1>1, <1>2, <1>3, <1>4 DEF Inv

\* Where the waits are left alone, only what makes them legitimate can change.
LEMMA WaitsUnchanged ==
  ASSUME Inv, UNCHANGED waits,
         m_lWaiting > 0 => m_bCommitted' /\ m_lFree' = {} /\ m_lAllocated' # {}
  PROVE  NoLostWakeup'
  BY DEF Inv, NoLostWakeup, waits

\* NotifySample turns every count of a waiting getter into a permit.
LEMMA WaitsNotified ==
  ASSUME Inv, NotifySample, UNCHANGED asleep
  PROVE  NoLostWakeup' /\ m_lWaiting' \in Nat /\ m_hSem' \in Nat
  BY DEF Inv, Types, NoLostWakeup, NotifySample

LEMMA SetPropertiesInv == Inv /\ SetProperties => Inv'
<1>. SUFFICES ASSUME Inv, SetProperties PROVE Inv'
  OBVIOUS
<1>1. Types'
  BY DEF Inv, Types, SetProperties, flags, waits, lent, self
<1>2. NoLostWakeup'
  BY WaitsUnchanged DEF Inv, NoLostWakeup, SetProperties, flags, waits
<1>3. OwnedOnce' /\ KeptAlive'
  BY DEF Inv, OwnedOnce, KeptAlive, Held, Out, SetProperties, flags, lent, self
<1>4. PropertiesInForce'
  BY DEF Inv, KeptAlive, PropertiesInForce, OwnedOnce, Out, SetProperties, flags
<1>. QED
  BY <1>1, <1>2, <1>3, <1>4 DEF Inv

LEMMA GetSampleInv == ASSUME NEW g \in Getter PROVE Inv /\ GetSample(g) => Inv'
<1>. SUFFICES ASSUME Inv, GetSample(g) PROVE Inv'
  OBVIOUS
<1>1. PICK s \in m_lFree : m_lFree' = m_lFree \ {s} /\ m_cRef' = [m_cRef EXCEPT ![s] = 1]
  BY DEF GetSample
<1>2. s \in Sample /\ 1 \in 0 .. MaxRefs
  BY <1>1, AllocatorAssumption DEF Inv, Types
<1>3. Types'
  BY <1>1, <1>2 DEF Inv, Types, GetSample, flags, pool, waits, self
<1>4. NoLostWakeup'
  BY <1>1, WaitsUnchanged DEF Inv, NoLostWakeup, GetSample, waits
<1>5. Held' = Held \cup {s}
  BY <1>1, <1>2 DEF Inv, Types, Held
<1>6. OwnedOnce'
  BY <1>1, <1>5 DEF Inv, OwnedOnce, GetSample, pool
<1>7. KeptAlive' /\ PropertiesInForce'
  BY DEF Inv, KeptAlive, PropertiesInForce, Out, GetSample, flags, pool, self
<1>. QED
  BY <1>3, <1>4, <1>6, <1>7 DEF Inv

LEMMA SetWaitingInv == ASSUME NEW g \in Getter PROVE Inv /\ SetWaiting(g) => Inv'
<1>. SUFFICES ASSUME Inv, SetWaiting(g) PROVE Inv'
  OBVIOUS
<1>1. Types'
  BY DEF Inv, Types, SetWaiting, flags, pool, lent, self
<1>2. Cardinality(asleep') = Cardinality(asleep) + 1
  BY FS_Subset, FS_AddElement, AllocatorAssumption DEF Inv, Types, SetWaiting
<1>3. m_lAllocated # {}
  BY DEF Inv, PropertiesInForce, SetWaiting
<1>4. NoLostWakeup'
  BY <1>2, <1>3, FS_Subset, FS_CardinalityType, AllocatorAssumption
  DEF Inv, Types, NoLostWakeup, SetWaiting, flags, pool
<1>5. OwnedOnce' /\ KeptAlive' /\ PropertiesInForce'
  BY DEF Inv, OwnedOnce, KeptAlive, PropertiesInForce, Held, Out, SetWaiting, flags, pool,
         lent, self
<1>. QED
  BY <1>1, <1>4, <1>5 DEF Inv

LEMMA WakeInv == ASSUME NEW g \in Getter PROVE Inv /\ Wake(g) => Inv'
<1>. SUFFICES ASSUME Inv, Wake(g) PROVE Inv'
  OBVIOUS
<1>1. Types'
  BY DEF Inv, Types, Wake, flags, pool, lent, self
<1>2. Cardinality(asleep') = Cardinality(asleep) - 1
  BY FS_Subset, FS_RemoveElement, AllocatorAssumption DEF Inv, Types, Wake
<1>3. NoLostWakeup'
  BY <1>2, FS_Subset, FS_CardinalityType, AllocatorAssumption
  DEF Inv, Types, NoLostWakeup, Wake, flags, pool
<1>4. OwnedOnce' /\ KeptAlive' /\ PropertiesInForce'
  BY DEF Inv, OwnedOnce, KeptAlive, PropertiesInForce, Held, Out, Wake, flags, pool,
         lent, self
<1>. QED
  BY <1>1, <1>3, <1>4 DEF Inv

LEMMA AddRefInv == ASSUME NEW s \in Sample PROVE Inv /\ AddRef(s) => Inv'
<1>. SUFFICES ASSUME Inv, AddRef(s) PROVE Inv'
  OBVIOUS
<1>1. Types'
  BY AllocatorAssumption DEF Inv, Types, AddRef, flags, pool, waits, self
<1>2. Held' = Held
  BY AllocatorAssumption DEF Inv, Types, AddRef, Held
<1>3. OwnedOnce' /\ KeptAlive' /\ PropertiesInForce'
  BY <1>2 DEF Inv, OwnedOnce, KeptAlive, PropertiesInForce, Out, AddRef, flags, pool, self
<1>4. NoLostWakeup'
  BY DEF Inv, NoLostWakeup, AddRef, flags, pool, waits
<1>. QED
  BY <1>1, <1>3, <1>4 DEF Inv

LEMMA ReleaseInv == ASSUME NEW s \in Sample PROVE Inv /\ Release(s) => Inv'
<1>. SUFFICES ASSUME Inv, Release(s) PROVE Inv'
  OBVIOUS
<1>1. Types'
  BY AllocatorAssumption DEF Inv, Types, Release, flags, pool, waits, self
<1>2. Held' \cup returning' = Held \cup returning /\ Held' \subseteq Held
      /\ Held' \cap returning' = {}
  BY AllocatorAssumption DEF Inv, Types, OwnedOnce, Release, Held
<1>3. OwnedOnce' /\ KeptAlive' /\ PropertiesInForce'
  BY <1>2 DEF Inv, OwnedOnce, KeptAlive, PropertiesInForce, Out, Release, flags, pool, self
<1>4. NoLostWakeup'
  BY DEF Inv, NoLostWakeup, Release, flags, pool, waits
<1>. QED
  BY <1>1, <1>3, <1>4 DEF Inv

LEMMA ReleaseBufferInv == ASSUME NEW s \in Sample PROVE Inv /\ ReleaseBuffer(s) => Inv'
<1>. SUFFICES ASSUME Inv, ReleaseBuffer(s) PROVE Inv'
  OBVIOUS
<1>1. NoLostWakeup' /\ m_lWaiting' \in Nat /\ m_hSem' \in Nat
  BY WaitsNotified DEF ReleaseBuffer
<1>2. Types'
  <2>1. m_bCommitted' \in BOOLEAN /\ m_bDecommitInProgress' \in BOOLEAN /\ m_bChanged' \in BOOLEAN
    BY DEF Inv, Types, ReleaseBuffer, pool
  <2>2. owed' \in 0 .. MaxOwed
    BY AllocatorAssumption DEF Inv, Types, ReleaseBuffer
  <2>. QED
    BY <1>1, <2>1, <2>2 DEF Inv, Types, ReleaseBuffer, pool
<1>3. Held' = Held
  BY DEF ReleaseBuffer, Held
<1>4. OwnedOnce'
  BY <1>3 DEF Inv, OwnedOnce, ReleaseBuffer, pool
<1>5. s \in Out /\ (m_bCommitted \/ m_bDecommitInProgress)
  BY DEF Inv, OwnedOnce, KeptAlive, Out, ReleaseBuffer
<1>6. KeptAlive' /\ PropertiesInForce'
  BY <1>4, <1>5, AllocatorAssumption
  DEF Inv, Types, OwnedOnce, KeptAlive, PropertiesInForce, Out, ReleaseBuffer, pool
<1>. QED
  BY <1>1, <1>2, <1>4, <1>6 DEF Inv

LEMMA ReleaseSelfInv == Inv /\ ReleaseSelf => Inv'
<1>. SUFFICES ASSUME Inv, ReleaseSelf PROVE Inv'
  OBVIOUS
<1>1. Types'
  BY AllocatorAssumption DEF Inv, Types, KeptAlive, ReleaseSelf, flags, pool, waits, lent
<1>2. NoLostWakeup' /\ OwnedOnce' /\ PropertiesInForce'
  BY DEF Inv, NoLostWakeup, OwnedOnce, PropertiesInForce, Held, ReleaseSelf, flags, pool,
         waits, lent
<1>3. KeptAlive'
  BY AllocatorAssumption DEF Inv, Types, KeptAlive, Out, ReleaseSelf, flags, pool
<1>. QED
  BY <1>1, <1>2, <1>3 DEF Inv

\* Without a decommit pending nothing is out, so Alloc may free what there is.
LEMMA CommitInv == Inv /\ Commit => Inv'
<1>. SUFFICES ASSUME Inv, Commit PROVE Inv'
  OBVIOUS
<1>1. CASE m_bDecommitInProgress
  <2>1. Types' /\ NoLostWakeup' /\ OwnedOnce' /\ PropertiesInForce'
    BY <1>1 DEF Inv, Types, NoLostWakeup, OwnedOnce, PropertiesInForce, Held, Commit, pool,
                waits, lent
  <2>2. KeptAlive'
    BY <1>1 DEF Inv, KeptAlive, Out, Commit, pool
  <2>. QED
    BY <2>1, <2>2 DEF Inv
<1>2. CASE ~m_bDecommitInProgress
  <2>1. PICK ok \in BOOLEAN : /\ Alloc(ok) /\ m_bCommitted' = ok
                              /\ selfRefs' = IF ok THEN selfRefs + 1 ELSE selfRefs
    BY <1>2 DEF Commit
  <2>2. Out = {} /\ Held = {} /\ returning = {} /\ m_lFree = m_lAllocated /\ ~m_bCommitted
    BY <1>2 DEF Inv, KeptAlive, OwnedOnce, Out, Commit
  <2>3. Types'
    <3>1. m_bCommitted' \in BOOLEAN /\ m_bDecommitInProgress' \in BOOLEAN
      BY <2>1 DEF Commit
    <3>2. /\ m_bChanged' \in BOOLEAN /\ m_lCount' \in SUBSET Sample
          /\ m_lAllocated' \in SUBSET Sample /\ m_lFree' \in SUBSET Sample
      BY <2>1 DEF Inv, Types, Alloc, pool
    <3>3. selfRefs' \in Nat
      BY <2>1 DEF Inv, Types
    <3>. QED
      BY <3>1, <3>2, <3>3 DEF Inv, Types, Commit, waits, lent
  <2>4. m_lWaiting = 0
    BY <2>2 DEF Inv, Types, NoLostWakeup
  <2>5. NoLostWakeup'
    BY <2>4, WaitsUnchanged DEF Commit, waits
  <2>6. m_lFree' = m_lAllocated'
    BY <2>1, <2>2 DEF Alloc, pool
  <2>7. OwnedOnce'
    BY <2>2, <2>6 DEF OwnedOnce, Held, Commit, lent
  <2>8. KeptAlive'
    BY <1>2, <2>1, <2>2, <2>6 DEF Inv, Types, KeptAlive, Out, Commit
  <2>9. PropertiesInForce'
    <3>1. CASE m_lCount = {}
      <4>1. m_bCommitted' = FALSE /\ m_bDecommitInProgress' = FALSE /\ UNCHANGED pool
        BY <2>1, <3>1 DEF Alloc, Commit
      <4>. QED
        BY <4>1 DEF Inv, PropertiesInForce, pool
    <3>2. CASE m_lCount # {} /\ ~m_bChanged
      <4>1. UNCHANGED pool
        BY <2>1, <3>2 DEF Alloc
      <4>. QED
        BY <3>2, <4>1 DEF Inv, PropertiesInForce, pool
    <3>3. CASE m_lCount # {} /\ m_bChanged
      <4>1. CASE ok = TRUE
        BY <2>1, <3>3, <4>1 DEF Alloc, PropertiesInForce
      <4>2. CASE ok = FALSE
        <5>1. m_bCommitted' = FALSE /\ m_bDecommitInProgress' = FALSE /\ m_bChanged' = TRUE
          BY <2>1, <3>3, <4>2 DEF Alloc, Commit
        <5>. QED
          BY <5>1 DEF PropertiesInForce
      <4>. QED
        BY <4>1, <4>2
    <3>. QED
      BY <3>1, <3>2, <3>3
  <2>. QED
    BY <2>3, <2>5, <2>7, <2>8, <2>9 DEF Inv
<1>. QED
  BY <1>1, <1>2

LEMMA DecommitInv == Inv /\ Decommit => Inv'
<1>. SUFFICES ASSUME Inv, Decommit PROVE Inv'
  OBVIOUS
<1>1. NoLostWakeup' /\ m_lWaiting' \in Nat /\ m_hSem' \in Nat
  BY WaitsNotified DEF Decommit
<1>2. Types'
  <2>1. m_bCommitted' \in BOOLEAN /\ m_bDecommitInProgress' \in BOOLEAN /\ m_bChanged' \in BOOLEAN
    BY DEF Inv, Types, Decommit, pool
  <2>2. owed' \in 0 .. MaxOwed
    BY AllocatorAssumption DEF Inv, Types, Decommit
  <2>. QED
    BY <1>1, <2>1, <2>2 DEF Inv, Types, Decommit, pool, lent
<1>3. OwnedOnce' /\ PropertiesInForce'
  BY DEF Inv, OwnedOnce, PropertiesInForce, Held, Decommit, pool, lent
<1>4. m_lFree # m_lAllocated <=> Out # {}
  BY DEF Inv, OwnedOnce, Out
<1>5. KeptAlive'
  BY <1>4, AllocatorAssumption DEF Inv, Types, KeptAlive, Out, Decommit, pool
<1>. QED
  BY <1>1, <1>2, <1>3, <1>5 DEF Inv

LEMMA InvNext == Inv /\ [Next]_vars => Inv'
<1>. SUFFICES ASSUME Inv, [Next]_vars PROVE Inv'
  OBVIOUS
<1>1. CASE SetProperties \/ Commit \/ Decommit \/ ReleaseSelf
  BY <1>1, SetPropertiesInv, CommitInv, DecommitInv, ReleaseSelfInv
<1>2. ASSUME NEW g \in Getter, GetSample(g) \/ SetWaiting(g) \/ Wake(g) PROVE Inv'
  BY <1>2, GetSampleInv, SetWaitingInv, WakeInv
<1>3. ASSUME NEW s \in Sample, AddRef(s) \/ Release(s) \/ ReleaseBuffer(s) PROVE Inv'
  BY <1>3, AddRefInv, ReleaseInv, ReleaseBufferInv
<1>4. CASE UNCHANGED vars
  BY <1>4 DEF Inv, Types, NoLostWakeup, OwnedOnce, KeptAlive, PropertiesInForce, Held, Out,
              vars, flags, pool, waits, lent, self
<1>. QED
  BY <1>1, <1>2, <1>3, <1>4 DEF Next

(***************************************************************************)
(* The inductive invariant: types, the balance of permits and waiting      *)
(* getters, who owns each sample, and what commit and decommit maintain.   *)
(***************************************************************************)
THEOREM InvHolds == Spec => []Inv
  BY InvInit, InvNext, PTL DEF Spec

(***************************************************************************)
(* Every variable of the allocator keeps its type, and no more getters are *)
(* counted or permitted than there are.                                    *)
(***************************************************************************)
THEOREM TypeCorrect == Spec => []TypeOK
  BY InvHolds, InvTypeOK, PTL

(***************************************************************************)
(* No thread that waits for a sample is forgotten by ReleaseBuffer,        *)
(* Decommit or Commit.                                                     *)
(***************************************************************************)
THEOREM NoWaiterIsForgotten == Spec => []NoLostWakeup
<1>. Inv => NoLostWakeup
  BY DEF Inv
<1>. QED
  BY InvHolds, PTL

(***************************************************************************)
(* Every sample has one owner, the allocator keeps itself alive while      *)
(* samples are out, and the properties set last are in force.              *)
(***************************************************************************)
THEOREM SamplesAreSafe == Spec => []SamplesSafe
<1>. Inv => SamplesSafe
  BY DEF Inv, SamplesSafe
<1>. QED
  BY InvHolds, PTL

-----------------------------------------------------------------------------
\* The initial state and every step, as SamplePool sees them.
LEMMA PoolInit == Init => Pool!Init
  BY DEF Init, Pool!Init, Out

LEMMA PoolNext == Inv /\ [Next]_vars => [Pool!Next]_(Pool!vars)
<1>. SUFFICES ASSUME Inv, [Next]_vars
              PROVE  Pool!Next \/ UNCHANGED <<m_bCommitted, m_lAllocated, Out>>
  BY DEF Pool!vars
<1>1. ASSUME NEW g \in Getter, GetSample(g) PROVE Pool!Get
  <2>1. PICK s \in m_lFree : m_lFree' = m_lFree \ {s}
    BY <1>1 DEF GetSample
  <2>2. s \in m_lAllocated \ Out /\ Out' = Out \cup {s}
    BY <1>1, <2>1 DEF Inv, OwnedOnce, Out, GetSample, pool
  <2>. QED
    BY <1>1, <2>2 DEF Pool!Get, GetSample, flags, pool
<1>2. ASSUME NEW s \in Sample, ReleaseBuffer(s) PROVE Pool!Put
  <2>1. s \in Out /\ Out' = Out \ {s}
    BY <1>2 DEF Inv, OwnedOnce, Out, ReleaseBuffer, pool
  <2>. QED
    BY <1>2, <2>1 DEF Pool!Put, ReleaseBuffer, pool
<1>3. ASSUME Commit
      PROVE Pool!Open \/ Pool!OpenFails \/ UNCHANGED <<m_bCommitted, m_lAllocated, Out>>
  <2>1. CASE m_bDecommitInProgress
    <3>1. m_bCommitted = FALSE /\ m_bCommitted' = TRUE /\ UNCHANGED <<m_lAllocated, Out>>
      BY <1>3, <2>1 DEF Inv, Types, Commit, Out, pool
    <3>2. m_lAllocated \in SUBSET Sample /\ m_lAllocated # {}
      BY <2>1 DEF Inv, Types, PropertiesInForce
    <3>. QED
      BY <3>1, <3>2 DEF Pool!Open
  <2>2. CASE ~m_bDecommitInProgress
    <3>1. PICK ok \in BOOLEAN : Alloc(ok) /\ m_bCommitted' = ok
      BY <1>3, <2>2 DEF Commit
    <3>2. ~m_bCommitted /\ Out = {} /\ m_lFree = m_lAllocated
      BY <1>3, <2>2 DEF Inv, KeptAlive, OwnedOnce, Out, Commit
    <3>3. Out' = {}
      BY <3>1, <3>2 DEF Alloc, Out, pool
    <3>4. CASE ok = TRUE
      <4>1. m_lAllocated' \in SUBSET Sample /\ m_lAllocated' # {}
        BY <3>1, <3>4 DEF Inv, Types, PropertiesInForce, Alloc, pool
      <4>. QED
        BY <3>1, <3>2, <3>3, <3>4, <4>1 DEF Pool!Open
    <3>5. CASE ok = FALSE
      <4>1. m_bCommitted = FALSE /\ m_bCommitted' = FALSE
        BY <3>1, <3>2, <3>5 DEF Inv, Types
      <4>2. m_lAllocated' = m_lAllocated \/ m_lAllocated' = {}
        BY <3>1, <3>5 DEF Alloc, pool
      <4>. QED
        BY <3>2, <3>3, <4>1, <4>2 DEF Pool!OpenFails
    <3>. QED
      BY <3>4, <3>5
  <2>. QED
    BY <2>1, <2>2
<1>4. ASSUME Decommit PROVE Pool!Close \/ UNCHANGED <<m_bCommitted, m_lAllocated, Out>>
  BY <1>4 DEF Inv, Types, Decommit, Out, pool, Pool!Close
<1>5. ASSUME SetProperties \/ ReleaseSelf
      PROVE  UNCHANGED <<m_bCommitted, m_lAllocated, Out>>
  BY <1>5 DEF SetProperties, ReleaseSelf, Out, flags, pool
<1>6. ASSUME NEW g \in Getter, SetWaiting(g) \/ Wake(g)
      PROVE  UNCHANGED <<m_bCommitted, m_lAllocated, Out>>
  BY <1>6 DEF SetWaiting, Wake, Out, flags, pool
<1>7. ASSUME NEW s \in Sample, AddRef(s) \/ Release(s)
      PROVE  UNCHANGED <<m_bCommitted, m_lAllocated, Out>>
  BY <1>7 DEF AddRef, Release, Out, flags, pool
<1>8. CASE UNCHANGED vars
  BY <1>8 DEF vars, Out, flags, pool
<1>. QED
  BY <1>1, <1>2, <1>3, <1>4, <1>5, <1>6, <1>7, <1>8 DEF Next, Pool!Next

(***************************************************************************)
(* The allocator implements SamplePool for every number of samples and     *)
(* threads.                                                                *)
(***************************************************************************)
THEOREM ImplementsSamplePool == Spec => ImplementsPool
  BY InvHolds, PoolInit, PoolNext, PTL DEF Spec, ImplementsPool, Pool!Spec
=============================================================================
