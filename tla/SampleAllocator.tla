--------------------------- MODULE SampleAllocator ---------------------------
(***************************************************************************)
(* The memory allocator between an output pin and the pin downstream       *)
(* (CMemAllocator of the base classes), with the samples it lends.         *)
(*                                                                         *)
(* The demux worker asks for samples and sleeps when there is none; the    *)
(* queue's thread and the downstream pin hold references to them and give  *)
(* them back in any order; the graph commits and decommits on behalf of    *)
(* both pins.  Each region under the allocator's lock is one step.  What   *)
(* is done after the lock is given up - the wait on the semaphore, the     *)
(* last Release of the allocator by itself - is a step of its own.         *)
(*                                                                         *)
(* A number of samples is the set of the samples that there would be, so   *)
(* that GetCount() < m_lAllocated reads m_lFree # m_lAllocated.            *)
(***************************************************************************)
EXTENDS Naturals, FiniteSets

CONSTANTS Getter,    \* the threads that ask for samples
          Sample,    \* the samples there may ever be
          MaxRefs,   \* bound: references to one sample
          MaxOwed    \* bound: threads between unlocking and their Release

ASSUME AllocatorAssumption ==
    /\ IsFiniteSet(Getter) /\ IsFiniteSet(Sample)
    /\ MaxRefs \in Nat \ {0} /\ MaxOwed \in Nat \ {0}

VARIABLES
    m_bCommitted, m_bDecommitInProgress,
    m_bChanged,      \* SetProperties has been called since the last Alloc
    m_lCount,        \* the samples asked for
    m_lAllocated,    \* the samples there are
    m_lFree,         \* those on the free list
    m_lWaiting,      \* getters that have found the list empty
    m_hSem,          \* permits of the semaphore
    asleep,          \* the getters at WaitForSingleObject
    m_cRef,          \* the references to each sample
    returning,       \* samples whose last reference is gone and that are not back yet
    selfRefs,        \* the references of the allocator to itself
    owed             \* those of them that a thread is about to release

flags == <<m_bCommitted, m_bDecommitInProgress>>
pool  == <<m_bChanged, m_lCount, m_lAllocated>>
waits == <<m_lWaiting, m_hSem, asleep>>
lent  == <<m_cRef, returning>>
self  == <<selfRefs, owed>>
vars  == <<flags, pool, m_lFree, waits, lent, self>>

Held == {s \in Sample : m_cRef[s] > 0}
Out  == m_lAllocated \ m_lFree

TypeOK ==
    /\ {m_bCommitted, m_bDecommitInProgress, m_bChanged} \subseteq BOOLEAN
    /\ {m_lCount, m_lAllocated, m_lFree, returning} \subseteq SUBSET Sample
    /\ m_lWaiting \in 0 .. Cardinality(Getter) /\ m_hSem \in 0 .. Cardinality(Getter)
    /\ asleep \in SUBSET Getter
    /\ m_cRef \in [Sample -> 0 .. MaxRefs]
    /\ selfRefs \in 0 .. MaxOwed + 1 /\ owed \in 0 .. MaxOwed

Init ==
    /\ m_bCommitted = FALSE /\ m_bDecommitInProgress = FALSE
    /\ m_bChanged = FALSE /\ m_lCount = {} /\ m_lAllocated = {} /\ m_lFree = {}
    /\ m_lWaiting = 0 /\ m_hSem = 0 /\ asleep = {}
    /\ m_cRef = [s \in Sample |-> 0] /\ returning = {}
    /\ selfRefs = 0 /\ owed = 0

-----------------------------------------------------------------------------
(***************************************************************************)
(* Configuration, by the pins while they connect or reconnect.             *)
(***************************************************************************)
SetProperties ==
    /\ ~m_bCommitted /\ m_lFree = m_lAllocated
    /\ m_lCount' \in SUBSET Sample /\ m_bChanged' = TRUE
    /\ UNCHANGED <<flags, m_lAllocated, m_lFree, waits, lent, self>>

-----------------------------------------------------------------------------
(***************************************************************************)
(* The worker: GetBuffer, one round of its loop under the lock, and the    *)
(* wait.  A getter that is not asleep is outside or about to try again.    *)
(***************************************************************************)
\* Mutant of GetSample: a getter that has waited takes a sample without looking.
GetSampleUnchecked(g) ==
    /\ g \notin asleep
    /\ \E s \in m_lFree : /\ m_lFree' = m_lFree \ {s}
                          /\ m_cRef' = [m_cRef EXCEPT ![s] = 1]
    /\ UNCHANGED <<flags, pool, waits, returning, self>>

GetSample(g) ==
    /\ g \notin asleep /\ m_bCommitted
    /\ \E s \in m_lFree : /\ m_lFree' = m_lFree \ {s}
                          /\ m_cRef' = [m_cRef EXCEPT ![s] = 1]
    /\ UNCHANGED <<flags, pool, waits, returning, self>>

\* SetWaiting, and on to the semaphore.
SetWaiting(g) ==
    /\ g \notin asleep /\ m_bCommitted /\ m_lFree = {}
    /\ m_lWaiting' = m_lWaiting + 1 /\ asleep' = asleep \cup {g}
    /\ UNCHANGED <<flags, pool, m_lFree, m_hSem, lent, self>>

Wake(g) ==
    /\ g \in asleep /\ m_hSem > 0
    /\ m_hSem' = m_hSem - 1 /\ asleep' = asleep \ {g}
    /\ UNCHANGED <<flags, pool, m_lFree, m_lWaiting, lent, self>>

-----------------------------------------------------------------------------
(***************************************************************************)
(* The holders of samples: the worker, the queue, the downstream pin.      *)
(***************************************************************************)
AddRef(s) ==
    /\ m_cRef[s] \in 1 .. MaxRefs - 1
    /\ m_cRef' = [m_cRef EXCEPT ![s] = @ + 1]
    /\ UNCHANGED <<flags, pool, m_lFree, waits, returning, self>>

Release(s) ==
    /\ m_cRef[s] > 0
    /\ m_cRef' = [m_cRef EXCEPT ![s] = @ - 1]
    /\ returning' = IF m_cRef[s] = 1 THEN returning \cup {s} ELSE returning
    /\ UNCHANGED <<flags, pool, m_lFree, waits, self>>

\* Mutant of NotifySample: the count of waiting getters is kept.
NotifySampleCounted == m_hSem' = m_hSem + m_lWaiting /\ UNCHANGED m_lWaiting

\* A permit for every getter that waits.
NotifySample == m_hSem' = m_hSem + m_lWaiting /\ m_lWaiting' = 0

\* Mutant of ReleaseBuffer: it wakes nobody and completes no decommit.
ReleaseBufferSilent(s) ==
    /\ s \in returning
    /\ returning' = returning \ {s} /\ m_lFree' = m_lFree \cup {s}
    /\ UNCHANGED <<flags, pool, waits, m_cRef, self>>

\* The last sample to come back completes a pending decommit.
ReleaseBuffer(s) ==
    /\ s \in returning
    /\ returning' = returning \ {s} /\ m_lFree' = m_lFree \cup {s}
    /\ NotifySample
    /\ IF m_bDecommitInProgress /\ m_lFree' = m_lAllocated
       THEN owed < MaxOwed /\ owed' = owed + 1 /\ m_bDecommitInProgress' = FALSE
       ELSE UNCHANGED <<owed, m_bDecommitInProgress>>
    /\ UNCHANGED <<m_bCommitted, pool, asleep, m_cRef, selfRefs>>

ReleaseSelf ==
    /\ owed > 0
    /\ owed' = owed - 1 /\ selfRefs' = selfRefs - 1
    /\ UNCHANGED <<flags, pool, m_lFree, waits, lent>>

-----------------------------------------------------------------------------
(***************************************************************************)
(* Activation and deactivation of the pins.                                *)
(***************************************************************************)
\* What Alloc does and whether it succeeds: it fails when no count was set, keeps
\* the samples when nothing changed, and else frees them all before it asks for
\* memory, which there may not be.
Alloc(ok) ==
    IF m_lCount = {} THEN ok = FALSE /\ UNCHANGED <<pool, m_lFree>>
    ELSE IF ~m_bChanged THEN ok = TRUE /\ UNCHANGED <<pool, m_lFree>>
    ELSE /\ m_lAllocated' = (IF ok THEN m_lCount ELSE {}) /\ m_lFree' = m_lAllocated'
         /\ m_bChanged' = ~ok /\ UNCHANGED m_lCount

\* Mutant of Commit: a pending decommit is not cancelled but allocated over.
CommitUncancelled ==
    /\ ~m_bCommitted /\ selfRefs <= MaxOwed
    /\ \E ok \in BOOLEAN : /\ Alloc(ok) /\ m_bCommitted' = ok
                           /\ selfRefs' = IF ok THEN selfRefs + 1 ELSE selfRefs
    /\ m_bDecommitInProgress' = FALSE
    /\ UNCHANGED <<waits, lent, owed>>

Commit ==
    /\ ~m_bCommitted
    /\ IF m_bDecommitInProgress
       THEN m_bCommitted' = TRUE /\ UNCHANGED <<pool, m_lFree, selfRefs>>
       ELSE \E ok \in BOOLEAN : /\ Alloc(ok) /\ m_bCommitted' = ok
                                /\ selfRefs' = IF ok THEN selfRefs + 1 ELSE selfRefs
    /\ m_bDecommitInProgress' = FALSE
    /\ UNCHANGED <<waits, lent, owed>>

\* Mutant of Decommit: those who wait are not told.
DecommitSilent ==
    /\ m_bCommitted \/ m_bDecommitInProgress
    /\ m_bCommitted' = FALSE /\ m_bDecommitInProgress' = (m_lFree # m_lAllocated)
    /\ IF m_lFree = m_lAllocated THEN owed < MaxOwed /\ owed' = owed + 1 ELSE UNCHANGED owed
    /\ UNCHANGED <<pool, m_lFree, waits, lent, selfRefs>>

\* It is pending while samples are out, and may be asked for again then.
Decommit ==
    /\ m_bCommitted \/ m_bDecommitInProgress
    /\ m_bCommitted' = FALSE /\ m_bDecommitInProgress' = (m_lFree # m_lAllocated)
    /\ IF m_lFree = m_lAllocated THEN owed < MaxOwed /\ owed' = owed + 1 ELSE UNCHANGED owed
    /\ NotifySample
    /\ UNCHANGED <<pool, m_lFree, asleep, lent, selfRefs>>

-----------------------------------------------------------------------------
Next == \/ SetProperties \/ Commit \/ Decommit \/ ReleaseSelf
        \/ \E g \in Getter : GetSample(g) \/ SetWaiting(g) \/ Wake(g)
        \/ \E s \in Sample : AddRef(s) \/ Release(s) \/ ReleaseBuffer(s)

Spec == Init /\ [][Next]_vars

\* A thread whose wait is satisfied runs.
FairSpec == Spec /\ \A g \in Getter : WF_vars(Wake(g))

(***************************************************************************)
(* No lost wake-up: a getter counts as waiting only while the allocator is *)
(* committed, has samples, and all are out, so that the next release or    *)
(* decommit tells it; and every getter asleep is counted as waiting or has *)
(* a permit of the semaphore.                                              *)
(***************************************************************************)
NoLostWakeup ==
    /\ m_lWaiting > 0 => m_bCommitted /\ m_lFree = {} /\ m_lAllocated # {}
    /\ m_lWaiting + m_hSem = Cardinality(asleep)

\* A sample is at every moment on the free list, in use, or on its way back.
OwnedOnce ==
    /\ m_lAllocated = m_lFree \cup Held \cup returning
    /\ m_lFree \cap Held = {} /\ m_lFree \cap returning = {} /\ Held \cap returning = {}

\* The allocator holds one reference to itself from Commit until the decommit is
\* complete, and as long as a sample is out.
KeptAlive ==
    /\ selfRefs = owed + (IF m_bCommitted \/ m_bDecommitInProgress THEN 1 ELSE 0)
    /\ Out # {} => m_bCommitted \/ m_bDecommitInProgress
    /\ m_bDecommitInProgress => ~m_bCommitted /\ Out # {}

\* The samples are what SetProperties was told last, unless Commit has yet to make them.
PropertiesInForce ==
    /\ m_bCommitted \/ m_bDecommitInProgress => ~m_bChanged /\ m_lCount # {}
    /\ ~m_bChanged => m_lAllocated = m_lCount

(***************************************************************************)
(* Over decommits that are cancelled, repeated or completed by the last    *)
(* sample, no sample is lost, lent twice, or destroyed while somebody      *)
(* holds it; the allocator outlives the samples ("we must leave it to the  *)
(* allocator to hold an addref on our behalf", CMediaSample); and they are *)
(* those that were last agreed on: "he cannot allow SetProperties between  *)
(* Decommit and the last free, so the buffer size cannot have changed"     *)
(* (Commit).                                                               *)
(***************************************************************************)
SamplesSafe == OwnedOnce /\ KeptAlive /\ PropertiesInForce

(***************************************************************************)
(* The allocator is a SamplePool: nothing is handed out after a decommit,  *)
(* by a getter that was asleep neither, and the samples there are change   *)
(* only while none is out.                                                 *)
(***************************************************************************)
Pool == INSTANCE SamplePool WITH open <- m_bCommitted, pool <- m_lAllocated, out <- Out
ImplementsPool == Pool!Spec

(***************************************************************************)
(* No getter sleeps for ever while a sample is free or the allocator is    *)
(* decommitted: "tell anyone waiting that they can go now" (Decommit).     *)
(***************************************************************************)
WaitersGo ==
    \A g \in Getter :
        (g \in asleep /\ (m_lFree # {} \/ ~m_bCommitted))
            ~> (g \notin asleep \/ (m_lFree = {} /\ m_bCommitted))
=============================================================================
