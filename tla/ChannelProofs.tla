---------------------------- MODULE ChannelProofs ----------------------------
(***************************************************************************)
(* What the operations of a channel do to what it holds, for every set of  *)
(* items: to the type of the channel, to its mode, and to its line, the    *)
(* items that have not been given back, oldest first.  The proofs about    *)
(* the filter and the output pins cite these lemmas.                       *)
(***************************************************************************)
EXTENDS Channel, SequenceTheorems, TLAPS

Mode == {"open", "broken", "flushing"}

ChannelOf(S) == [mode : Mode, pending : Seq(S), inflight : S \cup {NoItem}, landed : BOOLEAN]

LEMMA ChannelProducers ==
    ASSUME NEW S, NEW ch \in ChannelOf(S), NEW i \in S
    PROVE  /\ Queued(ch, i) \in ChannelOf(S) /\ Queued(ch, i).mode = ch.mode
           /\ Accept(ch, i) \in ChannelOf(S) /\ Accept(ch, i).mode = ch.mode
BY DEF ChannelOf, Mode, Queued, Accept

LEMMA ChannelThread ==
    ASSUME NEW S, NEW ch \in ChannelOf(S)
    PROVE  /\ CanTake(ch) => Take(ch) \in ChannelOf(S) /\ Take(ch).mode = ch.mode
           /\ Skipped(ch) \in ChannelOf(S) /\ Skipped(ch).mode = ch.mode
           /\ Landed(ch) \in ChannelOf(S) /\ Landed(ch).mode = ch.mode
           /\ Returned(ch) \in ChannelOf(S) /\ Returned(ch).mode = ch.mode
           /\ Failed(ch) \in ChannelOf(S)
           /\ ch.mode = "flushing" => Failed(ch).mode = "flushing"
           /\ Emptied(ch) \in ChannelOf(S) /\ Emptied(ch).mode = ch.mode
<1>1. ASSUME CanTake(ch) PROVE Take(ch) \in ChannelOf(S) /\ Take(ch).mode = ch.mode
  <2>1. Head(ch.pending) \in S /\ Tail(ch.pending) \in Seq(S)
    BY <1>1 DEF ChannelOf, CanTake
  <2> QED
    BY <2>1 DEF ChannelOf, Take
<1>2. /\ Skipped(ch) \in ChannelOf(S) /\ Skipped(ch).mode = ch.mode
      /\ Landed(ch) \in ChannelOf(S) /\ Landed(ch).mode = ch.mode
      /\ Returned(ch) \in ChannelOf(S) /\ Returned(ch).mode = ch.mode
  BY DEF ChannelOf, Skipped, Landed, Returned
<1>4. Emptied(ch) \in ChannelOf(S) /\ Emptied(ch).mode = ch.mode
  <2>1. <<>> \in Seq(S)
    OBVIOUS
  <2> QED
    BY <2>1 DEF ChannelOf, Emptied
<1>3. Failed(ch) \in ChannelOf(S) /\ (ch.mode = "flushing" => Failed(ch).mode = "flushing")
  <2>1. CASE ch.mode = "open"
    BY <2>1 DEF ChannelOf, Mode, Failed
  <2>2. CASE ch.mode # "open"
    <3>1. Failed(ch) = [ch EXCEPT !.inflight = NoItem, !.mode = ch.mode]
      BY <2>2 DEF Failed
    <3> QED
      BY <3>1 DEF ChannelOf, Mode
  <2> QED
    BY <2>1, <2>2
<1> QED
  BY <1>1, <1>2, <1>3, <1>4

LEMMA ChannelControl ==
    ASSUME NEW S, NEW ch \in ChannelOf(S)
    PROVE  /\ BeginFlush(ch) \in ChannelOf(S) /\ BeginFlush(ch).mode = "flushing"
           /\ EndFlush(ch) \in ChannelOf(S)
           /\ Fresh \in ChannelOf(S)
BY DEF ChannelOf, Mode, BeginFlush, EndFlush, Fresh

LEMMA ChannelTypes == ChannelType = ChannelOf(Item)
BY DEF ChannelType, ChannelOf, Mode

-----------------------------------------------------------------------------
\* The items in a channel, the one in flight first.
Line(ch) == (IF ch.inflight = NoItem THEN <<>> ELSE <<ch.inflight>>) \o ch.pending

LEMMA Prepended ==
    ASSUME NEW S, NEW e \in S, NEW s \in Seq(S)
    PROVE  /\ <<e>> \o s \in Seq(S) /\ Len(<<e>> \o s) = Len(s) + 1
           /\ (<<e>> \o s)[1] = e
           /\ \A n \in 1 .. Len(s) : (<<e>> \o s)[n + 1] = s[n]
<1> DEFINE one == <<e>>
<1>1. one \in Seq(S) /\ Len(one) = 1 /\ one[1] = e
  OBVIOUS
<1>2. /\ one \o s \in Seq(S) /\ Len(one \o s) = Len(one) + Len(s)
      /\ \A i \in 1 .. Len(one) + Len(s) : (one \o s)[i] =
            IF i <= Len(one) THEN one[i] ELSE s[i - Len(one)]
  BY <1>1, ConcatProperties
<1>3. Len(s) \in Nat
  OBVIOUS
<1> HIDE DEF one
<1>4. (one \o s)[1] = e /\ \A n \in 1 .. Len(s) : (one \o s)[n + 1] = s[n]
  BY <1>1, <1>2, <1>3
<1> QED
  BY <1>1, <1>2, <1>3, <1>4 DEF one

LEMMA LineShape ==
    ASSUME NEW S, NoItem \notin S, NEW ch \in ChannelOf(S)
    PROVE  /\ Line(ch) \in Seq(S)
           /\ ch.inflight = NoItem => Line(ch) = ch.pending
           /\ ch.inflight # NoItem =>
                 /\ Len(Line(ch)) = Len(ch.pending) + 1
                 /\ Line(ch)[1] = ch.inflight
                 /\ \A n \in 1 .. Len(ch.pending) : Line(ch)[n + 1] = ch.pending[n]
                 /\ Line(ch) # <<>> /\ Tail(Line(ch)) = ch.pending
<1>0. ch.pending \in Seq(S) /\ ch.inflight \in S \cup {NoItem}
  BY DEF ChannelOf
<1>1. CASE ch.inflight = NoItem
  <2>1. Line(ch) = <<>> \o ch.pending
    BY <1>1 DEF Line
  <2>2. <<>> \o ch.pending = ch.pending
    BY <1>0
  <2> QED
    BY <1>0, <1>1, <2>1, <2>2
<1>2. CASE ch.inflight # NoItem
  <2>1. Line(ch) = <<ch.inflight>> \o ch.pending
    BY <1>2 DEF Line
  <2>3. /\ Line(ch) \in Seq(S) /\ Len(Line(ch)) = Len(ch.pending) + 1
        /\ Line(ch)[1] = ch.inflight
        /\ \A n \in 1 .. Len(ch.pending) : Line(ch)[n + 1] = ch.pending[n]
    BY <1>0, <1>2, <2>1, Prepended
  <2>4. /\ Tail(Line(ch)) \in Seq(S) /\ Len(Tail(Line(ch))) = Len(ch.pending)
        /\ \A n \in 1 .. Len(ch.pending) : Tail(Line(ch))[n] = ch.pending[n]
    BY <1>0, <2>3
  <2>5. Tail(Line(ch)) = ch.pending
    BY <1>0, <2>4
  <2> QED
    BY <1>0, <1>2, <2>3, <2>5
<1> QED
  BY <1>1, <1>2

LEMMA LineQueued ==
    ASSUME NEW S, NoItem \notin S, NEW ch \in ChannelOf(S), NEW i \in S
    PROVE  Line(Queued(ch, i)) = Append(Line(ch), i)
<1> DEFINE front == IF ch.inflight = NoItem THEN <<>> ELSE <<ch.inflight>>
<1>1. ch.pending \in Seq(S) /\ front \in Seq(S)
  BY DEF ChannelOf
<1>2. Queued(ch, i).inflight = ch.inflight /\ Queued(ch, i).pending = Append(ch.pending, i)
  BY DEF ChannelOf, Queued
<1>3. Line(ch) = front \o ch.pending /\ Line(Queued(ch, i)) = front \o Append(ch.pending, i)
  BY <1>2 DEF Line
<1> HIDE DEF front
<1>4. front \o Append(ch.pending, i) = Append(front \o ch.pending, i)
  BY <1>1
<1> QED
  BY <1>3, <1>4

LEMMA LineTake ==
    ASSUME NEW S, NoItem \notin S, NEW ch \in ChannelOf(S), CanTake(ch)
    PROVE  Line(Take(ch)) = Line(ch)
<1>1. ch.pending \in Seq(S) /\ ch.pending # <<>> /\ ch.inflight = NoItem
  BY DEF ChannelOf, CanTake
<1>2. Take(ch).inflight = Head(ch.pending) /\ Take(ch).pending = Tail(ch.pending)
  BY DEF ChannelOf, Take
<1>3. Head(ch.pending) # NoItem
  BY <1>1
<1>4. Line(Take(ch)) = <<Head(ch.pending)>> \o Tail(ch.pending)
  BY <1>2, <1>3 DEF Line
<1>5. <<Head(ch.pending)>> \o Tail(ch.pending) = ch.pending
  BY <1>1
<1> QED
  BY <1>1, <1>4, <1>5, LineShape

LEMMA LineRemoved ==
    ASSUME NEW S, NoItem \notin S, NEW ch \in ChannelOf(S), ch.inflight # NoItem
    PROVE  /\ Line(Skipped(ch)) = Tail(Line(ch))
           /\ Line(Returned(ch)) = Tail(Line(ch))
           /\ Line(Failed(ch)) = Tail(Line(ch))
<1>1. Skipped(ch).inflight = NoItem /\ Skipped(ch).pending = ch.pending
  BY DEF ChannelOf, Skipped
<1>2. Returned(ch).inflight = NoItem /\ Returned(ch).pending = ch.pending
  BY DEF ChannelOf, Returned
<1>3. Failed(ch).inflight = NoItem /\ Failed(ch).pending = ch.pending
  BY DEF ChannelOf, Failed
<1>4. Tail(Line(ch)) = ch.pending
  BY LineShape
<1> QED
  BY <1>1, <1>2, <1>3, <1>4, LineShape, ChannelThread

LEMMA LineKept ==
    ASSUME NEW S, NoItem \notin S, NEW ch \in ChannelOf(S)
    PROVE  /\ Line(Landed(ch)) = Line(ch) /\ Line(BeginFlush(ch)) = Line(ch)
           /\ Line(EndFlush(ch)) = Line(ch)
BY DEF ChannelOf, Line, Landed, BeginFlush, EndFlush

LEMMA LineEmptied ==
    ASSUME NEW S, NoItem \notin S, NEW ch \in ChannelOf(S)
    PROVE  Line(Emptied(ch)) \in {<<>>} \cup {<<ch.inflight>>}
           /\ (ch.inflight = NoItem => Line(Emptied(ch)) = <<>>)
<1>1. Emptied(ch).inflight = ch.inflight /\ Emptied(ch).pending = <<>>
  BY DEF ChannelOf, Emptied
<1> QED
  BY <1>1 DEF Line, ChannelOf

LEMMA LineFresh == Line(Fresh) = <<>>
BY DEF Line, Fresh

=============================================================================
