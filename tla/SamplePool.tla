----------------------------- MODULE SamplePool -----------------------------
(***************************************************************************)
(* What a pin and the pin downstream of it may rely on in the allocator    *)
(* between them: a pool of samples, each out to at most one owner, that    *)
(* hands out nothing while it is closed and changes only while nothing is  *)
(* out.  SampleAllocator implements it; FilterLifecycle counts the samples *)
(* of such a pool.                                                         *)
(***************************************************************************)
EXTENDS Naturals

CONSTANT Sample

VARIABLES open,   \* samples may be asked for
          pool,   \* the samples there are
          out     \* those handed out and not yet given back

vars == <<open, pool, out>>

Init == open = FALSE /\ pool = {} /\ out = {}

Get == /\ open
       /\ \E s \in pool \ out : out' = out \cup {s}
       /\ UNCHANGED <<open, pool>>

Put == /\ \E s \in out : out' = out \ {s}
       /\ UNCHANGED <<open, pool>>

\* Opening again before all samples are back leaves the pool as it is.
Open == /\ ~open /\ open' = TRUE
        /\ pool' \in SUBSET Sample /\ pool' # {}
        /\ out # {} => pool' = pool
        /\ UNCHANGED out

\* The old samples are gone and there is no memory for new ones.
OpenFails == /\ ~open /\ out = {}
             /\ pool' = {}
             /\ UNCHANGED <<open, out>>

Close == /\ open /\ open' = FALSE
         /\ UNCHANGED <<pool, out>>

Next == Get \/ Put \/ Open \/ OpenFails \/ Close

Spec == Init /\ [][Next]_vars
=============================================================================
