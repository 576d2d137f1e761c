------------------------------- MODULE Channel -------------------------------
(***************************************************************************)
(* What an output pin of the splitter expects of the delivery queue behind *)
(* it: an unbounded FIFO that hands items to the downstream pin one at a   *)
(* time, that delivers no media after the first failure ("broken") or once *)
(* a flush has begun ("flushing"), and that starts again, empty, when the  *)
(* flush ends.                                                             *)
(*                                                                         *)
(* The state of one channel is a record and the operations are operators   *)
(* on such records: FlushChannel makes a specification of them, which      *)
(* OutputQueue implements, and FilterLifecycle holds a channel per pin.    *)
(***************************************************************************)
EXTENDS Naturals, Sequences

CONSTANTS Item,      \* what a producer can put in the channel
          Segment,   \* the items that announce a new segment
          NoItem     \* nothing

\* pending: queued; inflight: being handed to the downstream pin; landed: the
\* downstream pin has accepted it, and its call has not returned.
ChannelType ==
    [mode : {"open", "broken", "flushing"}, pending : Seq(Item),
     inflight : Item \cup {NoItem}, landed : BOOLEAN]

Fresh == [mode |-> "open", pending |-> <<>>, inflight |-> NoItem, landed |-> FALSE]

(***************************************************************************)
(* The producer's calls: media is queued, or dropped when the channel has  *)
(* failed or is being flushed.  A segment whose producer looked at the     *)
(* mode before it took the lock is queued in any mode.                     *)
(***************************************************************************)
Queued(ch, i) == [ch EXCEPT !.pending = Append(@, i)]

Accept(ch, i) == IF ch.mode = "open" THEN Queued(ch, i) ELSE ch

(***************************************************************************)
(* The delivery thread takes the oldest item.  Media is not taken during a *)
(* flush, and is skipped in a channel that is no longer open; segments are *)
(* passed on in any mode.                                                  *)
(***************************************************************************)
CanTake(ch) == /\ ch.inflight = NoItem /\ ch.pending # <<>>
               /\ ch.mode # "flushing" \/ Head(ch.pending) \in Segment

Take(ch) == [ch EXCEPT !.pending = Tail(@), !.inflight = Head(ch.pending)]

Skipped(ch) == [ch EXCEPT !.inflight = NoItem]

CanSkip(ch) == /\ ch.inflight # NoItem /\ ~ch.landed
               /\ ch.mode # "open" /\ ch.inflight \notin Segment

\* The downstream pin accepts the item, and later its call returns; or the
\* call fails, and the channel is broken until the next flush.  Media that was
\* already in flight can still land while a flush begins.
CanLand(ch) == /\ ch.inflight # NoItem /\ ~ch.landed
               /\ ch.mode # "broken" \/ ch.inflight \in Segment

Landed(ch)   == [ch EXCEPT !.landed = TRUE]
Returned(ch) == [ch EXCEPT !.landed = FALSE, !.inflight = NoItem]
Failed(ch)   == [ch EXCEPT !.inflight = NoItem,
                           !.mode = IF @ = "open" THEN "broken" ELSE @]

BeginFlush(ch) == [ch EXCEPT !.mode = "flushing"]
Emptied(ch)    == [ch EXCEPT !.pending = <<>>]
EndFlush(ch)   == [ch EXCEPT !.mode = "open"]

\* No media of before the flush is left; late segment marks may be.
Drained(ch) == /\ ch.inflight \in Segment \cup {NoItem}
               /\ \A n \in DOMAIN ch.pending : ch.pending[n] \in Segment
=============================================================================
