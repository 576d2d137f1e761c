---------------------------- MODULE FlushChannel ----------------------------
(***************************************************************************)
(* The abstract specification of a delivery queue: the behaviours of one   *)
(* channel, with the items its downstream pin accepted as what is seen.    *)
(***************************************************************************)
EXTENDS Channel

VARIABLES chan,      \* the channel
          arrived    \* the items the downstream pin accepted, oldest first

vars == <<chan, arrived>>

Init == chan = Fresh /\ arrived = <<>>

Put == /\ \/ \E i \in Item    : chan' = Accept(chan, i)
          \/ \E i \in Segment : chan' = Queued(chan, i)
       /\ UNCHANGED arrived

Forward == CanTake(chan) /\ chan' = Take(chan) /\ UNCHANGED arrived

\* Media that was not sent because the channel is no longer open.
Skip == CanSkip(chan) /\ chan' = Skipped(chan) /\ UNCHANGED arrived

Arrive == /\ CanLand(chan)
          /\ chan' = Landed(chan)
          /\ arrived' = Append(arrived, chan.inflight)

\* The call downstream returns, or fails.
Return == /\ chan.inflight # NoItem
          /\ chan.inflight \in Segment => chan.landed
          /\ chan' = IF chan.landed THEN Returned(chan) ELSE Failed(chan)
          /\ UNCHANGED arrived

FlushBegins == chan' = BeginFlush(chan) /\ UNCHANGED arrived

\* A flush empties the queue.
Discard == /\ chan.mode = "flushing"
           /\ chan' = Emptied(chan)
           /\ UNCHANGED arrived

FlushEnds == /\ chan.mode = "flushing"
             /\ Drained(chan)
             /\ chan' = EndFlush(chan)
             /\ UNCHANGED arrived

Next == Put \/ Forward \/ Skip \/ Arrive \/ Return \/ FlushBegins \/ Discard \/ FlushEnds

Spec == Init /\ [][Next]_vars
=============================================================================
