--------------------------- MODULE OutputPinProofs ---------------------------
(***************************************************************************)
(* What the downstream pin of an output pin is told of discontinuities, of *)
(* changes of format and of failures, for every file, every limit and      *)
(* every number of seeks, jumps and activations.                           *)
(***************************************************************************)
EXTENDS OutputPin, SequenceTheorems, TLAPS

Items == Sample \cup Segment

C == INSTANCE ChannelProofs WITH Item <- Sample \cup Segment

\* The lemmas about channels are about the operations of this module.
LEMMA SameChannel ==
    /\ \A ch, i : Q!Queued(ch, i) = C!Queued(ch, i) /\ Q!Accept(ch, i) = C!Accept(ch, i)
    /\ \A ch : /\ Q!CanTake(ch) = C!CanTake(ch) /\ Q!Take(ch) = C!Take(ch)
               /\ Q!Skipped(ch) = C!Skipped(ch) /\ Q!Landed(ch) = C!Landed(ch)
               /\ Q!Returned(ch) = C!Returned(ch) /\ Q!Failed(ch) = C!Failed(ch)
               /\ Q!Emptied(ch) = C!Emptied(ch) /\ Q!BeginFlush(ch) = C!BeginFlush(ch)
               /\ Q!EndFlush(ch) = C!EndFlush(ch)
    /\ Q!Fresh = C!Fresh /\ Q!ChannelType = C!ChannelOf(Items)
    /\ NoItem \notin Items
BY C!ChannelTypes DEF NoItem, Items, Sample, Segment,
   Q!Queued, C!Queued, Q!Accept, C!Accept, Q!CanTake, C!CanTake, Q!Take, C!Take,
   Q!Skipped, C!Skipped, Q!Landed, C!Landed, Q!Returned, C!Returned, Q!Failed, C!Failed,
   Q!Emptied, C!Emptied, Q!BeginFlush, C!BeginFlush, Q!EndFlush, C!EndFlush,
   Q!Fresh, C!Fresh, Q!ChannelType, C!ChannelType, C!ChannelOf, C!Mode

LEMMA ItemFacts ==
    ASSUME NEW i \in Items
    PROVE  /\ i.kind = "segment" <=> i \in Segment
           /\ i.kind = "sample" <=> i \in Sample
           /\ i \in Sample \/ i \in Segment
BY DEF Items, Sample, Segment

LEMMA Numbers ==
    /\ Units \in Nat /\ ChangeAt \in Nat /\ HoleAt \in Nat /\ Hole \in Nat
    /\ DiscontinuityGap \in Nat /\ MaxEpochs \in Nat /\ Units > 0 /\ MaxEpochs > 0
    /\ MaxConsecutiveFailures \in Nat /\ MaxConsecutiveFailures > 0
BY PinAssumption

\* The ranges that counts and epochs keep to.
LEMMA Ranges ==
    /\ 0 \in 0 .. Units /\ 0 \in 0 .. MaxConsecutiveFailures /\ 0 < MaxConsecutiveFailures
    /\ \A n \in 0 .. MaxConsecutiveFailures :
          n < MaxConsecutiveFailures => n + 1 \in 0 .. MaxConsecutiveFailures
    /\ \A n \in 0 .. MaxConsecutiveFailures :
          ~(n >= MaxConsecutiveFailures) => n < MaxConsecutiveFailures
    /\ ~(0 >= MaxConsecutiveFailures)
    /\ \A u \in Unit : u \in 1 .. Units + 1 /\ u + 1 \in 1 .. Units + 1 /\ u \in 0 .. Units
    /\ \A e \in Epoch : e \in 0 .. MaxEpochs /\ (e < MaxEpochs => e + 1 \in Epoch)
BY Numbers DEF Unit, Epoch

-----------------------------------------------------------------------------
(***************************************************************************)
(* Types, with where the worker and the graph thread may be together.      *)
(***************************************************************************)
PinTyped ==
    /\ m_format \in Format
    /\ m_formatChanged \in BOOLEAN /\ m_firstSample \in BOOLEAN
    /\ m_lastDeliveredPts \in {0} \cup {Time(u) : u \in Unit}
    /\ m_consecutiveDeliveryFailures \in 0 .. MaxConsecutiveFailures
    /\ m_deliverySuppressed \in BOOLEAN

SinkType == [type : Format, last : 0 .. Units, epoch : 0 .. MaxEpochs, flushing : BOOLEAN]

QueueTyped ==
    /\ chan \in C!ChannelOf(Items) /\ sink \in SinkType /\ untold \in BOOLEAN
    /\ m_hr \in {"S_OK", "S_FALSE", "failed", "wrong state"}

\* The worker is joined before a flush ends.
ControlTyped ==
    /\ kind \in {"video", "audio"}
    /\ worker \in {"none", "segment", "loop", "buffer"}
    /\ graph \in {"run", "seek", "stop", "seek joined", "stop joined", "reset", "inactive",
                  "stopped"}
    /\ graph \in {"run", "seek", "stop"} <=> worker # "none"

\* A call leaves room for the epoch it begins; a unit is read in its format.
Placed ==
    /\ at \in 1 .. Units + 1 /\ epoch \in Epoch
    /\ graph # "run" => epoch < MaxEpochs
    /\ worker = "buffer" => at \in Unit /\ m_format = FormatOf(at)

\* A pin is suppressed exactly at the limit, and makes no sample then.
Limited ==
    /\ m_deliverySuppressed <=> m_consecutiveDeliveryFailures >= MaxConsecutiveFailures
    /\ worker = "buffer" => ~m_deliverySuppressed

Typed == PinTyped /\ QueueTyped /\ ControlTyped /\ Placed /\ Limited

LEMMA TypedOK == Typed => TypeOK
BY SameChannel DEF Typed, TypeOK, PinTyped, QueueTyped, SinkType, ControlTyped, Placed

LEMMA TypedInit == Init => Typed
<1> SUFFICES ASSUME Init PROVE Typed
  OBVIOUS
<1> USE Numbers DEF Init
<1>1. PinTyped
  <2>1. /\ m_lastDeliveredPts \in {0} \cup {Time(u) : u \in Unit}
        /\ m_consecutiveDeliveryFailures \in 0 .. MaxConsecutiveFailures
    OBVIOUS
  <2> QED
    BY <2>1 DEF PinTyped, Format
<1>2. QueueTyped
  <2>1. chan \in C!ChannelOf(Items)
    BY C!ChannelControl, SameChannel DEF C!ChannelOf, C!Mode, Q!Fresh
  <2>2. sink \in SinkType
    BY DEF SinkType, Format
  <2> QED
    BY <2>1, <2>2 DEF QueueTyped
<1>3. ControlTyped /\ Placed /\ Limited
  BY DEF ControlTyped, Placed, Limited, Epoch
<1> QED
  BY <1>1, <1>2, <1>3 DEF Typed

\* The steps of the delivery thread and the downstream pin.
PinSide == QueueTakes \/ QueueSkips \/ QueueFreesSamples \/ SinkAccepts \/ SinkFails \/ SinkReturns

LEMMA PinSideNext == Typed /\ PinSide => Typed'
<1> SUFFICES ASSUME Typed, PinSide PROVE Typed'
  OBVIOUS
<1>1. UNCHANGED <<kind, pinVars, worker, at, graph, epoch>>
  BY DEF PinSide, QueueTakes, QueueSkips, QueueFreesSamples, SinkAccepts, SinkFails, SinkReturns,
     PinOnly
<1>2. (PinTyped /\ ControlTyped /\ Placed /\ Limited)'
  BY <1>1 DEF Typed, PinTyped, ControlTyped, Placed, Limited, pinVars
<1>3. chan \in C!ChannelOf(Items) /\ sink \in SinkType /\ untold \in BOOLEAN
      /\ m_hr \in {"S_OK", "S_FALSE", "failed", "wrong state"}
  BY DEF Typed, QueueTyped
<1>4. chan' \in C!ChannelOf(Items)
  <2>1. \/ Q!CanTake(chan) /\ chan' = Q!Take(chan)
        \/ chan' \in {Q!Skipped(chan), Q!Emptied(chan), Q!Landed(chan), Q!Failed(chan),
                      Q!Returned(chan)}
    BY DEF PinSide, QueueTakes, QueueSkips, QueueFreesSamples, SinkAccepts, SinkFails, SinkReturns
  <2>2. \/ C!CanTake(chan) /\ chan' = C!Take(chan)
        \/ chan' \in {C!Skipped(chan), C!Emptied(chan), C!Landed(chan), C!Failed(chan),
                      C!Returned(chan)}
    BY <2>1, SameChannel
  <2>3. /\ C!CanTake(chan) => C!Take(chan) \in C!ChannelOf(Items)
        /\ C!Skipped(chan) \in C!ChannelOf(Items) /\ C!Emptied(chan) \in C!ChannelOf(Items)
        /\ C!Landed(chan) \in C!ChannelOf(Items) /\ C!Failed(chan) \in C!ChannelOf(Items)
        /\ C!Returned(chan) \in C!ChannelOf(Items)
    BY <1>3, C!ChannelThread
  <2> QED
    BY <2>2, <2>3
<1>5. m_hr' \in {"S_OK", "S_FALSE", "failed", "wrong state"}
  BY <1>3 DEF PinSide, QueueTakes, QueueSkips, QueueFreesSamples, SinkAccepts, SinkFails, SinkReturns
<1>6. untold' \in BOOLEAN
  BY <1>3 DEF PinSide, QueueTakes, QueueSkips, QueueFreesSamples, SinkAccepts, SinkFails,
     SinkReturns, CarriesType
<1>7. sink' \in SinkType
  <2>1. CASE SinkAccepts
    <3>1. CASE chan.inflight \in Segment
      BY <1>3, <2>1, <3>1 DEF SinkAccepts
    <3>2. CASE chan.inflight \notin Segment
      <4>1. chan.inflight \in Sample
        BY <1>3, <2>1, <3>2 DEF SinkAccepts, Q!CanLand, C!ChannelOf, Items
      <4>3. TypeAfter(chan.inflight) \in Format
        BY <1>3, <4>1 DEF TypeAfter, Sample, SinkType
      <4>4. chan.inflight.unit \in Unit /\ chan.inflight.epoch \in Epoch
        BY <4>1 DEF Sample
      <4>2. /\ TypeAfter(chan.inflight) \in Format /\ chan.inflight.unit \in 0 .. Units
            /\ chan.inflight.epoch \in 0 .. MaxEpochs
        BY <4>3, <4>4, Numbers DEF Unit, Epoch
      <4> QED
        BY <1>3, <2>1, <3>2, <4>2 DEF SinkAccepts, SinkType
    <3> QED
      BY <3>1, <3>2
  <2>2. CASE UNCHANGED sink
    BY <1>3, <2>2
  <2> QED
    BY <2>1, <2>2 DEF PinSide, QueueTakes, QueueSkips, QueueFreesSamples, SinkFails, SinkReturns
<1> QED
  BY <1>2, <1>4, <1>5, <1>6, <1>7 DEF Typed, QueueTyped

WorkerSide == DeliverNewSegment \/ Callback \/ NoSample \/ DeliverSample \/ Jump
GraphSide == DeliverBeginFlush \/ StopThread \/ DeliverEndFlush \/ SeekTo \/ Inactive \/ Active

\* The sample that DeliverSample makes, and whether the change of type it should
\* carry is refused or dropped.
Made(i) ==
    /\ i \in Sample /\ i.unit = at /\ i.epoch = epoch /\ i.untold = untold'
    /\ i.discontinuity = (m_firstSample \/ TimestampDiscontinuity(Time(at)))
    /\ m_lastDeliveredPts' = Time(at)
    /\ \/ ~m_formatChanged /\ untold' = untold /\ i.type = "none"
       \/ m_formatChanged /\ untold' = TRUE
       \/ m_formatChanged /\ untold' = FALSE /\ i.type = m_format /\ chan.mode = "open"

LEMMA SampleMade ==
    ASSUME Typed, DeliverSample
    PROVE  \E i : Made(i) /\ chan' = Q!Accept(chan, i) /\ untold' \in BOOLEAN
<1>1. at \in Unit /\ epoch \in Epoch /\ m_format \in Format /\ untold \in BOOLEAN
      /\ m_formatChanged \in BOOLEAN /\ m_firstSample \in BOOLEAN
  BY DEF Typed, Placed, PinTyped, QueueTyped, DeliverSample
<1>2. PICK accepted \in IF kind = "audio" THEN BOOLEAN ELSE {TRUE} :
         LET pts == Time(at)
             type == IF m_formatChanged /\ accepted THEN m_format ELSE "none"
             item == [kind |-> "sample", unit |-> at, epoch |-> epoch, type |-> type,
                      discontinuity |-> m_firstSample \/ TimestampDiscontinuity(pts),
                      untold |-> untold']
         IN  /\ untold' = IF m_formatChanged THEN ~accepted \/ chan.mode # "open" ELSE untold
             /\ chan' = Q!Accept(chan, item)
             /\ m_lastDeliveredPts' = pts
  BY DEF DeliverSample
<1> DEFINE type == IF m_formatChanged /\ accepted THEN m_format ELSE "none"
           i == [kind |-> "sample", unit |-> at, epoch |-> epoch, type |-> type,
                 discontinuity |-> m_firstSample \/ TimestampDiscontinuity(Time(at)),
                 untold |-> untold']
<1>3. accepted \in BOOLEAN
  BY <1>2
<1>4. untold' \in BOOLEAN
  BY <1>1, <1>2, <1>3
<1>5. m_firstSample \/ TimestampDiscontinuity(Time(at)) \in BOOLEAN
  BY <1>1 DEF TimestampDiscontinuity
<1>6. i \in Sample
  BY <1>1, <1>4, <1>5 DEF Sample
<1>7. /\ \/ ~m_formatChanged /\ untold' = untold /\ i.type = "none"
         \/ m_formatChanged /\ untold' = TRUE
         \/ m_formatChanged /\ untold' = FALSE /\ i.type = m_format /\ chan.mode = "open"
  BY <1>1, <1>2, <1>3
<1>8. Made(i)
  BY <1>2, <1>6, <1>7 DEF Made
<1> QED
  BY <1>2, <1>4, <1>8

LEMMA WorkerSideNext == Typed /\ WorkerSide => Typed'
<1> SUFFICES ASSUME Typed, WorkerSide PROVE Typed'
  OBVIOUS
<1>0. PinTyped /\ QueueTyped /\ ControlTyped /\ Placed /\ Limited
  BY DEF Typed
<1>1. ControlTyped'
  BY <1>0 DEF ControlTyped, WorkerSide, DeliverNewSegment, Callback, NoSample, DeliverSample, Jump
<1>2. CASE DeliverNewSegment
  <2>1. chan' = Q!Accept(chan, [kind |-> "segment"]) /\ [kind |-> "segment"] \in Items
    BY <1>2 DEF DeliverNewSegment, Items, Segment
  <2>2. chan' \in C!ChannelOf(Items)
    BY <1>0, <2>1, C!ChannelProducers, SameChannel DEF QueueTyped
  <2>3. QueueTyped'
    BY <1>0, <1>2, <2>2 DEF DeliverNewSegment, QueueTyped
  <2>4. PinTyped' /\ Limited'
    BY <1>0, <1>2, Ranges DEF DeliverNewSegment, ClearFailures, PinTyped, Limited
  <2>5. Placed'
    BY <1>0, <1>2 DEF DeliverNewSegment, Placed
  <2> QED
    BY <1>1, <2>3, <2>4, <2>5 DEF Typed
<1>3. CASE Callback
  <2>1. QueueTyped'
    BY <1>0, <1>3 DEF Callback, QueueTyped, queueVars
  <2>2. FormatOf(at) \in Format
    BY DEF FormatOf, Format
  <2>3. PinTyped'
    BY <1>0, <1>3, <2>2 DEF Callback, PinTyped, SetInfo
  <2>4. Placed'
    BY <1>0, <1>3, Ranges DEF Callback, Placed, SetInfo
  <2>5. Limited'
    BY <1>0, <1>3 DEF Callback, Limited, AcceptsSamples
  <2> QED
    BY <1>1, <2>1, <2>3, <2>4, <2>5 DEF Typed
<1>4. CASE NoSample
  <2>1. QueueTyped' /\ PinTyped'
    BY <1>0, <1>4 DEF NoSample, QueueTyped, queueVars, PinTyped, pinVars
  <2>2. Placed'
    BY <1>0, <1>4, Ranges DEF NoSample, Placed
  <2>3. Limited'
    BY <1>0, <1>4 DEF NoSample, Limited, pinVars
  <2> QED
    BY <1>1, <2>1, <2>2, <2>3 DEF Typed
<1>5. CASE DeliverSample
  <2>1. PICK i : Made(i) /\ chan' = Q!Accept(chan, i) /\ untold' \in BOOLEAN
    BY <1>5, SampleMade
  <2>2. i \in Items /\ at \in Unit /\ worker' = "loop"
    BY <1>0, <1>5, <2>1 DEF Made, Items, DeliverSample, Placed
  <2>3. chan' \in C!ChannelOf(Items)
    BY <1>0, <2>1, <2>2, C!ChannelProducers, SameChannel DEF QueueTyped
  <2>4. QueueTyped'
    BY <1>0, <1>5, <2>1, <2>3 DEF QueueTyped, DeliverSample
  <2>5. /\ m_consecutiveDeliveryFailures' \in 0 .. MaxConsecutiveFailures
        /\ m_deliverySuppressed' \in BOOLEAN
        /\ m_deliverySuppressed' <=> m_consecutiveDeliveryFailures' >= MaxConsecutiveFailures
    <3>1. /\ m_consecutiveDeliveryFailures \in 0 .. MaxConsecutiveFailures
          /\ m_deliverySuppressed = FALSE
          /\ ~(m_consecutiveDeliveryFailures >= MaxConsecutiveFailures)
      BY <1>0, <1>5 DEF DeliverSample, Limited, PinTyped
    <3>2. CASE UNCHANGED <<m_consecutiveDeliveryFailures, m_deliverySuppressed>>
      BY <3>1, <3>2
    <3>3. CASE m_consecutiveDeliveryFailures' = 0 /\ UNCHANGED m_deliverySuppressed
      BY <3>1, <3>3, Ranges
    <3>4. CASE /\ m_consecutiveDeliveryFailures' = m_consecutiveDeliveryFailures + 1
               /\ m_deliverySuppressed' =
                      (m_consecutiveDeliveryFailures' >= MaxConsecutiveFailures)
      <4>1. m_consecutiveDeliveryFailures' \in 0 .. MaxConsecutiveFailures
        BY <3>1, <3>4, Ranges
      <4>2. (m_consecutiveDeliveryFailures' >= MaxConsecutiveFailures) \in BOOLEAN
        OBVIOUS
      <4> QED
        BY <3>4, <4>1, <4>2
    <3> QED
      BY <1>5, <3>2, <3>3, <3>4 DEF DeliverSample, Count
  <2>6. PinTyped'
    BY <1>0, <1>5, <2>1, <2>2, <2>5 DEF PinTyped, DeliverSample, Made
  <2>7. Placed'
    BY <1>0, <1>5, <2>2, Ranges DEF DeliverSample, Placed
  <2>8. Limited'
    BY <2>2, <2>5 DEF Limited
  <2> QED
    BY <1>1, <2>4, <2>6, <2>7, <2>8 DEF Typed
<1>6. CASE Jump
  <2>1. QueueTyped'
    BY <1>0, <1>6 DEF Jump, QueueTyped, queueVars
  <2>2. PinTyped' /\ Limited'
    BY <1>0, <1>6, Ranges DEF Jump, ResetForSeek, ClearFailures, PinTyped, Limited
  <2>3. epoch < MaxEpochs /\ (graph # "run" => epoch + 1 < MaxEpochs)
    BY <1>0, <1>6, Numbers DEF Jump, Placed, Epoch
  <2>4. Placed'
    BY <1>0, <1>6, <2>3, Ranges DEF Jump, Placed
  <2> QED
    BY <1>1, <2>1, <2>2, <2>3, <2>4 DEF Typed
<1> QED
  BY <1>2, <1>3, <1>4, <1>5, <1>6 DEF WorkerSide

LEMMA GraphSideNext == Typed /\ GraphSide => Typed'
<1> SUFFICES ASSUME Typed, GraphSide PROVE Typed'
  OBVIOUS
<1>0. PinTyped /\ QueueTyped /\ ControlTyped /\ Placed /\ Limited
  BY DEF Typed
<1>1. QueueTyped'
  <2>1. chan' \in {chan, Q!BeginFlush(chan), Q!EndFlush(chan), Q!Fresh}
    BY DEF GraphSide, DeliverBeginFlush, StopThread, DeliverEndFlush, SeekTo, Inactive, Active,
       queueVars
  <2>2. chan' \in C!ChannelOf(Items)
    BY <1>0, <2>1, C!ChannelControl, SameChannel DEF QueueTyped
  <2>3. sink' \in {sink, [sink EXCEPT !.flushing = TRUE],
                   [sink EXCEPT !.flushing = FALSE, !.last = 0]}
    BY DEF GraphSide, DeliverBeginFlush, StopThread, DeliverEndFlush, SeekTo, Inactive, Active,
       queueVars
  <2>4. sink \in SinkType 
    BY <1>0 DEF QueueTyped
  <2>5. sink' \in SinkType
    BY <2>3, <2>4, Ranges DEF SinkType
  <2> QED
    BY <1>0, <2>2, <2>5 DEF QueueTyped, GraphSide, DeliverBeginFlush, StopThread, DeliverEndFlush,
       SeekTo, Inactive, Active, queueVars
<1>2. ControlTyped'
  BY <1>0 DEF ControlTyped, GraphSide, DeliverBeginFlush, StopThread, DeliverEndFlush, SeekTo,
     Inactive, Active
<1>3. CASE UNCHANGED pinVars /\ (DeliverBeginFlush \/ StopThread \/ Inactive)
  <2>1. PinTyped'
    BY <1>0, <1>3 DEF PinTyped, pinVars
  <2>2. UNCHANGED <<at, epoch>> /\ worker' \in {worker, "none"}
    BY <1>3 DEF DeliverBeginFlush, StopThread, Inactive
  <2>3. graph # "run" \/ epoch < MaxEpochs
    BY <1>3 DEF DeliverBeginFlush, StopThread, Inactive
  <2>4. Placed' /\ Limited'
    BY <1>0, <1>3, <2>2, <2>3 DEF Placed, Limited, pinVars
  <2> QED
    BY <1>1, <1>2, <2>1, <2>4 DEF Typed
<1>4. CASE DeliverEndFlush \/ SeekTo \/ Active
  <2>1. PinTyped'
    BY <1>0, <1>4, Ranges DEF PinTyped, DeliverEndFlush, SeekTo, Active, ResetForSeek, ClearFailures
  <2>2. Limited'
    <3>1. m_consecutiveDeliveryFailures' = 0 /\ m_deliverySuppressed' = FALSE
      BY <1>4 DEF DeliverEndFlush, SeekTo, Active, ResetForSeek, ClearFailures
    <3> QED
      BY <3>1, Ranges DEF Limited
  <2>3. CASE DeliverEndFlush
    BY <1>0, <1>1, <1>2, <2>1, <2>2, <2>3 DEF Typed, Placed, DeliverEndFlush
  <2>4. CASE SeekTo \/ Active
    <3>1. at' \in Unit /\ epoch' = epoch + 1 /\ epoch < MaxEpochs /\ worker' = "segment"
          /\ graph' = "run"
      BY <1>0, <2>4 DEF Placed, SeekTo, Active
    <3>2. Placed'
      BY <1>0, <3>1, Ranges DEF Placed
    <3> QED
      BY <1>1, <1>2, <2>1, <2>2, <3>2 DEF Typed
  <2> QED
    BY <1>4, <2>3, <2>4
<1> QED
  BY <1>3, <1>4 DEF GraphSide, DeliverBeginFlush, StopThread, Inactive

LEMMA TypedNext == Typed /\ [Next]_vars => Typed'
<1> SUFFICES ASSUME Typed, [Next]_vars PROVE Typed'
  OBVIOUS
<1>1. CASE UNCHANGED vars
  <2>1. (PinTyped /\ Limited /\ ControlTyped)'
    BY <1>1 DEF Typed, PinTyped, ControlTyped, Limited, vars, pinVars
  <2>2. (QueueTyped /\ Placed)'
    BY <1>1 DEF Typed, QueueTyped, Placed, vars, pinVars, queueVars
  <2> QED
    BY <2>1, <2>2 DEF Typed
<1> QED
  BY <1>1, WorkerSideNext, GraphSideNext, PinSideNext
     DEF Next, WorkerSide, GraphSide, PinSide, AtRest

(***************************************************************************)
(* Every variable of the pin, its queue and the pin downstream keeps its   *)
(* type; the failures never exceed their limit.                            *)
(***************************************************************************)
THEOREM TypeCorrect == Spec => []TypeOK
<1>1. Spec => []Typed
  BY TypedInit, TypedNext, PTL DEF Spec
<1> QED
  BY <1>1, TypedOK, PTL

-----------------------------------------------------------------------------
(***************************************************************************)
(* Failures are counted only while the queue is not open, and then m_hr is *)
(* the failure that is counted; the end of a flush clears the count before *)
(* the queue is open again.                                                *)
(***************************************************************************)
Counted ==
    /\ m_consecutiveDeliveryFailures # 0 =>
          kind = "audio" /\ m_hr = "failed" /\ chan.mode # "open"
    /\ graph \in {"reset", "inactive", "stopped"} => m_consecutiveDeliveryFailures = 0

LEMMA CountedInit == Init => Counted
BY DEF Init, Counted

\* The modes that the producer and the delivery thread leave a channel in.
LEMMA ModeKept ==
    ASSUME Typed, WorkerSide \/ PinSide
    PROVE  /\ chan.mode \in {"open", "broken", "flushing"}
           /\ chan.mode # "open" => chan'.mode = chan.mode
           /\ chan'.mode = "open" => chan.mode = "open"
<1>1. chan \in C!ChannelOf(Items)
  BY DEF Typed, QueueTyped
<1>2. \/ chan' = chan \/ \E i : chan' = Q!Accept(chan, i)
      \/ chan' \in {Q!Take(chan), Q!Skipped(chan), Q!Emptied(chan), Q!Landed(chan),
                    Q!Failed(chan), Q!Returned(chan)}
  <2>1. CASE WorkerSide
    BY <2>1 DEF WorkerSide, DeliverNewSegment, Callback, NoSample, DeliverSample, Jump, queueVars
  <2>2. CASE PinSide
    BY <2>2 DEF PinSide, QueueTakes, QueueSkips, QueueFreesSamples, SinkAccepts, SinkFails,
       SinkReturns
  <2> QED
    BY <2>1, <2>2
<1>3. CASE chan' # Q!Failed(chan)
  <2>1. chan'.mode = chan.mode
    BY <1>1, <1>2, <1>3 DEF C!ChannelOf, Q!Accept, Q!Queued, Q!Take, Q!Skipped, Q!Emptied,
       Q!Landed, Q!Returned
  <2> QED
    BY <1>1, <2>1 DEF C!ChannelOf, C!Mode
<1>4. CASE chan' = Q!Failed(chan)
  <2>1. chan'.mode = IF chan.mode = "open" THEN "broken" ELSE chan.mode
    BY <1>1, <1>4 DEF C!ChannelOf, Q!Failed
  <2> QED
    BY <1>1, <2>1 DEF C!ChannelOf, C!Mode
<1> QED
  BY <1>3, <1>4

LEMMA CountedNext == Typed /\ Counted /\ [Next]_vars => Counted'
<1> SUFFICES ASSUME Typed, Counted, [Next]_vars PROVE Counted'
  OBVIOUS
<1>0. ControlTyped /\ QueueTyped /\ chan \in C!ChannelOf(Items)
  BY DEF Typed, QueueTyped
<1> USE DEF Counted
<1>1. CASE UNCHANGED vars
  BY <1>1 DEF vars, pinVars, queueVars
<1>2. CASE m_consecutiveDeliveryFailures' = 0
  BY <1>2
<1>3. CASE Callback \/ NoSample \/ StopThread
  BY <1>3 DEF Callback, NoSample, StopThread, pinVars, queueVars
<1>4. CASE DeliverSample
  <2>1. /\ UNCHANGED <<kind, m_hr, graph>> /\ graph \notin {"reset", "inactive", "stopped"}
        /\ chan.mode # "open" => chan'.mode # "open"
    BY <1>0, <1>4, ModeKept DEF DeliverSample, ControlTyped, WorkerSide
  <2>2. \/ UNCHANGED m_consecutiveDeliveryFailures \/ m_consecutiveDeliveryFailures' = 0
        \/ kind = "audio" /\ m_hr = "failed" /\ chan.mode = "broken"
    BY <1>0, <1>4 DEF DeliverSample, Count, QueueTyped, ControlTyped
  <2> QED
    BY <1>2, <2>1, <2>2
<1>5. CASE DeliverBeginFlush
  <2>1. chan'.mode = "flushing"
    BY <1>0, <1>5 DEF DeliverBeginFlush, Q!BeginFlush, C!ChannelOf
  <2> QED
    BY <1>5, <2>1 DEF DeliverBeginFlush, pinVars
<1>6. CASE Inactive
  BY <1>6 DEF Inactive, pinVars
<1>7. CASE PinSide
  <2>1. /\ UNCHANGED <<kind, m_consecutiveDeliveryFailures, graph>>
        /\ chan.mode # "open" => UNCHANGED m_hr
    BY <1>7 DEF PinSide, QueueTakes, QueueSkips, QueueFreesSamples, SinkAccepts, SinkFails,
       SinkReturns, PinOnly, pinVars
  <2> QED
    BY <1>7, <2>1, ModeKept
<1>8. CASE DeliverNewSegment \/ Jump \/ DeliverEndFlush \/ SeekTo \/ Active
  BY <1>2, <1>8 DEF DeliverNewSegment, Jump, DeliverEndFlush, SeekTo, Active, ResetForSeek,
     ClearFailures
<1> QED
  BY <1>1, <1>3, <1>4, <1>5, <1>6, <1>7, <1>8 DEF Next, PinSide, AtRest

(***************************************************************************)
(* A pin is suppressed only for failures of the run in progress that are   *)
(* no state errors.                                                        *)
(***************************************************************************)
THEOREM SuppressedOnlyForFailures == Spec => []SuppressedForFailures
<1>1. Spec => [](Typed /\ Counted)
  BY TypedInit, TypedNext, CountedInit, CountedNext, PTL DEF Spec
<1>2. Typed /\ Counted => SuppressedForFailures
  <2> SUFFICES ASSUME Typed, Counted, m_deliverySuppressed
               PROVE  kind = "audio" /\ m_hr = "failed"
    BY DEF SuppressedForFailures
  <2>1. m_consecutiveDeliveryFailures >= MaxConsecutiveFailures
    BY DEF Typed, Limited
  <2>2. m_consecutiveDeliveryFailures # 0
    BY <2>1, Ranges
  <2> QED
    BY <2>2 DEF Counted
<1> QED
  BY <1>1, <1>2, PTL

-----------------------------------------------------------------------------
(***************************************************************************)
(* Discontinuities.  While the queue is open nothing of what the worker    *)
(* queues is lost, so every sample in the line is marked or follows on the *)
(* sample before it, which for the first one is the last that landed.      *)
(***************************************************************************)
\* A sample that may come after the unit `last' of epoch e on a pin of kind k.
FollowsOn(k, i, last, e) ==
    /\ last > 0 /\ e = i.epoch
    /\ k = "audio" => Time(i.unit) <= Time(last) + DiscontinuityGap

ChainOf(k, L, last, e, landed) ==
    \A n \in DOMAIN L : L[n].kind = "sample" =>
        \/ L[n].discontinuity
        \/ n = 1 /\ (landed \/ FollowsOn(k, L[1], last, e))
        \/ n # 1 /\ L[n - 1].kind = "sample" /\ FollowsOn(k, L[n], L[n - 1].unit, L[n - 1].epoch)

\* What the worker knows of the unit it queued last.
LastIs(k, unit, e, pts, ep) == unit \in Unit /\ e = ep /\ (k = "audio" => pts = Time(unit))

LinkOf(k, L, last, e, pts, ep) ==
    \/ L = <<>> /\ LastIs(k, last, e, pts, ep)
    \/ /\ L # <<>> /\ L[Len(L)].kind = "sample"
       /\ LastIs(k, L[Len(L)].unit, L[Len(L)].epoch, pts, ep)

LEMMA UnitTimes == \A u \in Unit : u \in Nat /\ u > 0 /\ Time(u) \in Nat /\ Time(u) > 0
BY Numbers DEF Unit, Time

LEMMA SampleFacts ==
    ASSUME NEW i \in Items, i.kind = "sample"
    PROVE  i \in Sample /\ i.unit \in Unit /\ i.epoch \in Epoch
           /\ i.discontinuity \in BOOLEAN /\ i.untold \in BOOLEAN
           /\ i.type \in Format \cup {"none"}
BY ItemFacts DEF Sample

\* The first item is given back, of a sample once it has landed.
LEMMA ChainTail ==
    ASSUME NEW k, NEW L \in Seq(Items), L # <<>>, NEW last, NEW e, NEW landed, NEW pts, NEW ep,
           ChainOf(k, L, last, e, landed),
           L[1].kind = "sample" => last = L[1].unit /\ e = L[1].epoch
    PROVE  /\ ChainOf(k, Tail(L), last, e, FALSE)
           /\ LinkOf(k, L, last, e, pts, ep) => LinkOf(k, Tail(L), last, e, pts, ep)
<1> DEFINE T == Tail(L)
<1>0. /\ T \in Seq(Items) /\ Len(T) = Len(L) - 1 /\ Len(L) \in Nat /\ Len(L) > 0
      /\ \A n \in DOMAIN T : n \in Nat /\ n > 0 /\ n + 1 \in DOMAIN L /\ T[n] = L[n + 1]
  BY HeadTailProperties
<1> HIDE DEF T
<1>1. /\ T \in Seq(Items) /\ Len(T) = Len(L) - 1 /\ Len(L) \in Nat /\ Len(L) > 0
      /\ \A n \in DOMAIN T : n \in Nat /\ n > 0 /\ n + 1 \in DOMAIN L /\ T[n] = L[n + 1]
      /\ T # <<>> => Len(T) \in DOMAIN T
      /\ T = <<>> => Len(L) = 1
  <2>1. T # <<>> => Len(T) \in DOMAIN T
    BY <1>0
  <2>2. T = <<>> => Len(L) = 1
    BY <1>0
  <2> QED
    BY <1>0, <2>1, <2>2
<1>2. ChainOf(k, T, last, e, FALSE)
  <2> SUFFICES ASSUME NEW n \in DOMAIN T, T[n].kind = "sample", ~T[n].discontinuity
               PROVE  \/ n = 1 /\ FollowsOn(k, T[1], last, e)
                      \/ n # 1 /\ T[n - 1].kind = "sample"
                         /\ FollowsOn(k, T[n], T[n - 1].unit, T[n - 1].epoch)
    BY DEF ChainOf
  <2>1. n + 1 \in DOMAIN L /\ T[n] = L[n + 1] /\ n + 1 # 1 /\ (n + 1) - 1 = n
    BY <1>1
  <2>2. L[n].kind = "sample" /\ FollowsOn(k, L[n + 1], L[n].unit, L[n].epoch)
    BY <2>1 DEF ChainOf
  <2>3. CASE n = 1
    BY <2>1, <2>2, <2>3
  <2>4. CASE n # 1
    <3>1. n - 1 \in DOMAIN T /\ T[n - 1] = L[n]
      BY <1>1, <2>4
    <3> QED
      BY <2>1, <2>2, <2>4, <3>1
  <2> QED
    BY <2>3, <2>4
<1>3. ASSUME LinkOf(k, L, last, e, pts, ep) PROVE LinkOf(k, T, last, e, pts, ep)
  <2>1. L[Len(L)].kind = "sample" /\ LastIs(k, L[Len(L)].unit, L[Len(L)].epoch, pts, ep)
    BY <1>3 DEF LinkOf
  <2>2. CASE T = <<>>
    BY <1>1, <2>1, <2>2 DEF LinkOf
  <2>3. CASE T # <<>>
    <3>1. T[Len(T)] = L[Len(L)]
      BY <1>1, <2>3
    <3> QED
      BY <2>1, <2>3, <3>1 DEF LinkOf
  <2> QED
    BY <2>2, <2>3
<1> QED
  BY <1>2, <1>3 DEF T

\* The worker queues an item.
LEMMA ChainAppend ==
    ASSUME NEW k, NEW L \in Seq(Items), NEW i \in Items, NEW last, NEW e, NEW landed,
           NEW pts, NEW ep, ChainOf(k, L, last, e, landed),
           \/ i.kind = "segment"
           \/ i.kind = "sample" /\ i.discontinuity
           \/ /\ i.kind = "sample" /\ LinkOf(k, L, last, e, pts, ep) /\ i.epoch = ep
              /\ k = "audio" => Time(i.unit) <= pts + DiscontinuityGap
    PROVE  /\ ChainOf(k, Append(L, i), last, e, landed)
           /\ i.kind = "sample" =>
                 LinkOf(k, Append(L, i), last, e, Time(i.unit), i.epoch)
<1> DEFINE A == Append(L, i)
<1>1. /\ A \in Seq(Items) /\ Len(A) = Len(L) + 1 /\ Len(L) \in Nat /\ A # <<>>
      /\ \A n \in DOMAIN L : n \in Nat /\ n \in DOMAIN A /\ A[n] = L[n]
      /\ \A n \in DOMAIN L : n # 1 => n - 1 \in DOMAIN L
      /\ A[Len(A)] = i
      /\ \A n \in DOMAIN A : n \in DOMAIN L \/ n = Len(L) + 1
      /\ L # <<>> => Len(L) \in DOMAIN L /\ Len(L) > 0
      /\ L = <<>> => Len(L) = 0
  BY AppendProperties
<1> HIDE DEF A
<1>2. ASSUME NEW n \in DOMAIN A, A[n].kind = "sample", ~A[n].discontinuity
      PROVE  \/ n = 1 /\ (landed \/ FollowsOn(k, A[1], last, e))
             \/ n # 1 /\ A[n - 1].kind = "sample"
                /\ FollowsOn(k, A[n], A[n - 1].unit, A[n - 1].epoch)
  <2>1. CASE n \in DOMAIN L
    <3>1. A[n] = L[n] /\ (n # 1 => A[n - 1] = L[n - 1])
      BY <1>1, <2>1
    <3> QED
      BY <1>2, <2>1, <3>1 DEF ChainOf
  <2>2. CASE n \notin DOMAIN L
    <3>1. n = Len(L) + 1 /\ A[n] = i
      BY <1>1, <2>2
    <3>2. /\ LinkOf(k, L, last, e, pts, ep) /\ i.epoch = ep
          /\ k = "audio" => Time(i.unit) <= pts + DiscontinuityGap
      BY <1>2, <3>1
    <3>3. CASE L = <<>>
      <4>1. n = 1 /\ last \in Unit /\ e = ep /\ (k = "audio" => pts = Time(last))
        BY <1>1, <3>1, <3>2, <3>3 DEF LinkOf, LastIs
      <4> QED
        BY <3>1, <3>2, <4>1, UnitTimes DEF FollowsOn
    <3>4. CASE L # <<>>
      <4>1. n # 1 /\ A[n - 1] = L[Len(L)]
        BY <1>1, <3>1, <3>4
      <4>2. /\ L[Len(L)].kind = "sample" /\ L[Len(L)].unit \in Unit /\ L[Len(L)].epoch = ep
            /\ k = "audio" => pts = Time(L[Len(L)].unit)
        BY <3>2, <3>4 DEF LinkOf, LastIs
      <4> QED
        BY <3>1, <3>2, <4>1, <4>2, UnitTimes DEF FollowsOn
    <3> QED
      BY <3>3, <3>4
  <2> QED
    BY <2>1, <2>2
<1>3. i.kind = "sample" => LinkOf(k, A, last, e, Time(i.unit), i.epoch)
  BY <1>1, SampleFacts DEF LinkOf, LastIs
<1> QED
  BY <1>2, <1>3 DEF ChainOf, A
-----------------------------------------------------------------------------
\* What the downstream pin has accepted is what it knows.
Landing ==
    chan.landed => /\ chan.inflight # NoItem
                   /\ chan.inflight.kind = "sample" =>
                        sink.last = chan.inflight.unit /\ sink.epoch = chan.inflight.epoch

\* A flush is on from its beginning to its end.
Flushed ==
    /\ graph \in {"seek", "stop", "seek joined", "stop joined"} => chan.mode = "flushing"
    /\ chan.mode = "flushing" => sink.flushing
    /\ worker = "segment" => m_firstSample

Chained ==
    chan.mode = "open" => ChainOf(kind, C!Line(chan), sink.last, sink.epoch, chan.landed)

Linked ==
    chan.mode = "open" /\ graph = "run" /\ ~m_firstSample =>
        LinkOf(kind, C!Line(chan), sink.last, sink.epoch, m_lastDeliveredPts, epoch)

Marks == Landing /\ Flushed /\ Chained /\ Linked

\* A line of segments needs no marks.
LEMMA ChainOfSegments ==
    ASSUME NEW k, NEW L, \A n \in DOMAIN L : L[n].kind # "sample", NEW last, NEW e, NEW landed
    PROVE  ChainOf(k, L, last, e, landed)
BY DEF ChainOf

LEMMA MarksInit == Init => Marks
<1> SUFFICES ASSUME Init PROVE Marks
  OBVIOUS
<1>1. chan = C!Fresh /\ chan.landed = FALSE /\ chan.mode = "open"
  BY SameChannel DEF Init, C!Fresh
<1>2. Chained
  BY <1>1, C!LineFresh, ChainOfSegments DEF Chained
<1> QED
  BY <1>1, <1>2 DEF Marks, Landing, Flushed, Linked, Init

\* What the operations do to the item in flight.
LEMMA InFlight ==
    ASSUME chan \in C!ChannelOf(Items)
    PROVE  /\ \A i : C!Accept(chan, i).inflight = chan.inflight /\ C!Accept(chan, i).landed = chan.landed
           /\ C!BeginFlush(chan).inflight = chan.inflight /\ C!BeginFlush(chan).landed = chan.landed
           /\ C!EndFlush(chan).inflight = chan.inflight /\ C!EndFlush(chan).landed = chan.landed
           /\ C!Emptied(chan).inflight = chan.inflight /\ C!Emptied(chan).landed = chan.landed
           /\ C!Landed(chan).inflight = chan.inflight /\ C!Landed(chan).landed = TRUE
           /\ C!Take(chan).landed = chan.landed /\ C!Skipped(chan).landed = chan.landed
           /\ C!Failed(chan).landed = chan.landed /\ C!Returned(chan).landed = FALSE
           /\ C!Fresh.landed = FALSE /\ C!Fresh.inflight = NoItem
BY DEF C!ChannelOf, C!Accept, C!Queued, C!BeginFlush, C!EndFlush, C!Emptied, C!Landed, C!Take,
   C!Skipped, C!Failed, C!Returned, C!Fresh

\* Only the downstream pin makes an item land, and a sample lands in an open queue.
LEMMA OnlyAcceptLands ==
    ASSUME Typed, Flushed, [Next]_vars, ~chan.landed, chan'.landed
    PROVE  SinkAccepts /\ (chan.inflight \notin Segment => chan.mode = "open")
<1>0. chan \in C!ChannelOf(Items)
  BY DEF Typed, QueueTyped
<1>1. SinkAccepts
  <2> SUFFICES ASSUME ~SinkAccepts PROVE chan'.landed = chan.landed \/ chan'.landed = FALSE
    OBVIOUS
  <2>1. \/ chan' = chan \/ \E i : chan' = C!Accept(chan, i)
        \/ chan' \in {C!BeginFlush(chan), C!EndFlush(chan), C!Fresh, C!Take(chan),
                      C!Skipped(chan), C!Emptied(chan), C!Failed(chan), C!Returned(chan)}
    <3>1. CASE WorkerSide
      BY <3>1, SameChannel
         DEF WorkerSide, DeliverNewSegment, Callback, NoSample, DeliverSample, Jump, queueVars
    <3>2. CASE GraphSide
      BY <3>2, SameChannel
         DEF GraphSide, DeliverBeginFlush, StopThread, DeliverEndFlush, SeekTo, Inactive, Active,
             queueVars
    <3>3. CASE PinSide
      BY <3>3, SameChannel
         DEF PinSide, QueueTakes, QueueSkips, QueueFreesSamples, SinkFails, SinkReturns
    <3>4. CASE UNCHANGED vars
      BY <3>4 DEF vars, queueVars
    <3> QED
      BY <3>1, <3>2, <3>3, <3>4 DEF Next, WorkerSide, GraphSide, PinSide, AtRest
  <2> QED
    BY <1>0, <2>1, InFlight
<1>2. ASSUME chan.inflight \notin Segment PROVE chan.mode = "open"
  BY <1>0, <1>1, <1>2 DEF SinkAccepts, Q!CanLand, C!ChannelOf, C!Mode, Flushed
<1> QED
  BY <1>1, <1>2

LEMMA MarksPinSide == Typed /\ Marks /\ PinSide => Marks'
<1> SUFFICES ASSUME Typed, Marks, PinSide PROVE Marks'
  OBVIOUS
<1>0. /\ chan \in C!ChannelOf(Items) /\ sink \in SinkType /\ NoItem \notin Items
      /\ C!Line(chan) \in Seq(Items)
      /\ chan.landed \in BOOLEAN
  BY SameChannel, C!LineShape DEF Typed, QueueTyped, C!ChannelOf
<1>1. UNCHANGED <<kind, m_firstSample, m_lastDeliveredPts, worker, graph, epoch>>
  BY DEF PinSide, QueueTakes, QueueSkips, QueueFreesSamples, SinkAccepts, SinkFails, SinkReturns,
     PinOnly, pinVars
<1>2. /\ chan.mode # "open" => chan'.mode = chan.mode
      /\ chan'.mode = "open" => chan.mode = "open"
  BY ModeKept
<1>3. Flushed'
  <2>1. sink'.flushing = sink.flushing
    BY <1>0 DEF PinSide, QueueTakes, QueueSkips, QueueFreesSamples, SinkAccepts, SinkFails,
       SinkReturns, SinkType
  <2>2. chan'.mode = "flushing" => chan.mode = "flushing"
    <3>1. \/ chan' \in {Q!Take(chan), Q!Skipped(chan), Q!Emptied(chan), Q!Landed(chan),
                        Q!Failed(chan), Q!Returned(chan)}
      BY DEF PinSide, QueueTakes, QueueSkips, QueueFreesSamples, SinkAccepts, SinkFails,
         SinkReturns
    <3> QED
      BY <1>0, <3>1 DEF C!ChannelOf, Q!Take, Q!Skipped, Q!Emptied, Q!Landed, Q!Failed, Q!Returned
  <2> QED
    BY <1>1, <1>2, <2>1, <2>2 DEF Marks, Flushed
<1>4. CASE QueueTakes
  <2>1. C!CanTake(chan) /\ chan' = C!Take(chan) /\ UNCHANGED sink
    BY <1>4, SameChannel DEF QueueTakes
  <2>2. C!Line(chan') = C!Line(chan) /\ chan'.landed = chan.landed
    BY <1>0, <2>1, C!LineTake, InFlight
  <2>3. ~chan'.landed
    BY <1>0, <2>1, <2>2 DEF C!CanTake, Marks, Landing
  <2>4. Landing'
    BY <2>3 DEF Landing
  <2>5. Chained' /\ Linked'
    BY <1>1, <1>2, <2>1, <2>2 DEF Marks, Chained, Linked
  <2> QED
    BY <1>3, <2>4, <2>5 DEF Marks
<1>5. CASE QueueSkips \/ QueueFreesSamples \/ SinkFails
  <2>1. chan' \in {C!Skipped(chan), C!Emptied(chan), C!Failed(chan)} /\ UNCHANGED sink
    BY <1>5, SameChannel DEF QueueSkips, QueueFreesSamples, SinkFails
  <2>2. chan'.mode # "open"
    <3>1. CASE SinkFails
      <4>1. chan'.mode = IF chan.mode = "open" THEN "broken" ELSE chan.mode
        BY <1>0, <3>1 DEF SinkFails, Q!Failed, C!ChannelOf
      <4> QED
        BY <4>1
    <3>2. CASE QueueSkips \/ QueueFreesSamples
      BY <1>2, <3>2 DEF QueueSkips, Q!CanSkip, QueueFreesSamples
    <3> QED
      BY <1>5, <3>1, <3>2
  <2>3. Landing'
    <3>1. CASE QueueFreesSamples
      <4>1. chan' = C!Emptied(chan)
        BY <3>1, SameChannel DEF QueueFreesSamples
      <4> QED
        BY <1>0, <2>1, <4>1, InFlight DEF Marks, Landing
    <3>2. CASE QueueSkips \/ SinkFails
      <4>1. ~chan.landed /\ chan' \in {C!Skipped(chan), C!Failed(chan)}
        BY <3>2, SameChannel DEF QueueSkips, SinkFails, Q!CanSkip, Q!CanLand
      <4> QED
        BY <1>0, <4>1, InFlight DEF Landing
    <3> QED
      BY <1>5, <3>1, <3>2
  <2> QED
    BY <1>3, <2>2, <2>3 DEF Marks, Chained, Linked
<1>6. CASE SinkAccepts
  <2>1. /\ chan' = C!Landed(chan) /\ chan.inflight # NoItem
        /\ IF chan.inflight \in Segment THEN UNCHANGED sink
           ELSE /\ sink'.last = chan.inflight.unit /\ sink'.epoch = chan.inflight.epoch
    BY <1>0, <1>6, SameChannel DEF SinkAccepts, Q!CanLand, SinkType
  <2>2. C!Line(chan') = C!Line(chan) /\ chan'.landed = TRUE /\ chan'.inflight = chan.inflight
    BY <1>0, <2>1, C!LineKept, InFlight
  <2>3. C!Line(chan) # <<>>
    BY <1>0, <2>1, C!LineShape
  <2>4. Landing'
    BY <1>0, <2>1, <2>2, ItemFacts DEF Landing, C!ChannelOf
  <2>5. Chained'
    BY <1>1, <1>2, <2>2 DEF Marks, Chained, ChainOf
  <2>6. Linked'
    BY <1>1, <1>2, <2>2, <2>3 DEF Marks, Linked, LinkOf
  <2> QED
    BY <1>3, <2>4, <2>5, <2>6 DEF Marks
<1>7. CASE SinkReturns
  <2>1. chan.landed /\ chan' = C!Returned(chan) /\ UNCHANGED sink
    BY <1>7, SameChannel DEF SinkReturns
  <2>2. chan.inflight # NoItem
        /\ (chan.inflight.kind = "sample" =>
              sink.last = chan.inflight.unit /\ sink.epoch = chan.inflight.epoch)
    BY <2>1 DEF Marks, Landing
  <2>3. C!Line(chan') = Tail(C!Line(chan)) /\ chan'.landed = FALSE
    BY <1>0, <2>1, <2>2, C!LineRemoved, InFlight
  <2>4. C!Line(chan) # <<>> /\ C!Line(chan)[1] = chan.inflight
    BY <1>0, <2>2, C!LineShape
  <2>5. Landing'
    BY <2>3 DEF Landing
  <2>6. ASSUME chan'.mode = "open"
        PROVE  ChainOf(kind, Tail(C!Line(chan)), sink.last, sink.epoch, FALSE)
               /\ (graph = "run" /\ ~m_firstSample =>
                     LinkOf(kind, Tail(C!Line(chan)), sink.last, sink.epoch,
                            m_lastDeliveredPts, epoch))
    <3>1. chan.mode = "open"
      BY <1>2, <2>6
    <3> QED
      BY <1>0, <2>2, <2>4, <3>1, ChainTail DEF Marks, Chained, Linked
  <2>7. Chained' /\ Linked'
    BY <1>1, <2>1, <2>3, <2>6 DEF Chained, Linked
  <2> QED
    BY <1>3, <2>5, <2>7 DEF Marks
<1> QED
  BY <1>4, <1>5, <1>6, <1>7 DEF PinSide

\* A line that the worker's item is appended to, or that it is not in.
LEMMA LineAccept ==
    ASSUME chan \in C!ChannelOf(Items), NEW i \in Items
    PROVE  IF chan.mode = "open"
           THEN C!Line(C!Accept(chan, i)) = Append(C!Line(chan), i)
           ELSE C!Accept(chan, i) = chan
BY C!LineQueued, SameChannel DEF C!Accept

LEMMA MarksWorkerSide == Typed /\ Marks /\ WorkerSide => Marks'
<1> SUFFICES ASSUME Typed, Marks, WorkerSide PROVE Marks'
  OBVIOUS
<1>0. /\ chan \in C!ChannelOf(Items) /\ C!Line(chan) \in Seq(Items)
      /\ m_firstSample \in BOOLEAN /\ kind \in {"video", "audio"}
  BY SameChannel, C!LineShape DEF Typed, PinTyped, QueueTyped, ControlTyped
<1>1. UNCHANGED <<kind, sink, graph>>
  BY DEF WorkerSide, DeliverNewSegment, Callback, NoSample, DeliverSample, Jump, queueVars
<1>2. chan' = chan \/ \E i : chan' = C!Accept(chan, i)
  BY SameChannel
     DEF WorkerSide, DeliverNewSegment, Callback, NoSample, DeliverSample, Jump, queueVars
<1>3. chan'.mode = chan.mode /\ chan'.inflight = chan.inflight /\ chan'.landed = chan.landed
  BY <1>0, <1>2 DEF C!Accept, C!Queued, C!ChannelOf
<1>4. Landing'
  BY <1>1, <1>3 DEF Marks, Landing
<1>5. Flushed'
  <2>1. worker' # "segment"
    BY DEF WorkerSide, DeliverNewSegment, Callback, NoSample, DeliverSample, Jump
  <2> QED
    BY <1>1, <1>3, <2>1 DEF Marks, Flushed
<1>6. CASE chan.mode # "open"
  BY <1>3, <1>4, <1>5, <1>6 DEF Marks, Chained, Linked
<1>7. CASE chan.mode = "open" /\ DeliverNewSegment
  <2>1. PICK i \in Items : chan' = C!Accept(chan, i) /\ i.kind = "segment"
    BY <1>7, SameChannel DEF DeliverNewSegment, Items, Segment
  <2>2. C!Line(chan') = Append(C!Line(chan), i)
    BY <1>0, <1>7, <2>1, LineAccept
  <2>3. ChainOf(kind, Append(C!Line(chan), i), sink.last, sink.epoch, chan.landed)
    BY <1>0, <1>7, <2>1, ChainAppend DEF Marks, Chained
  <2>4. m_firstSample'
    BY <1>7 DEF DeliverNewSegment, Marks, Flushed
  <2> QED
    BY <1>1, <1>3, <1>4, <1>5, <2>2, <2>3, <2>4 DEF Marks, Chained, Linked
<1>8. CASE chan.mode = "open" /\ (Callback \/ NoSample)
  BY <1>4, <1>5, <1>8 DEF Marks, Chained, Linked, Callback, NoSample, pinVars, queueVars
<1>9. CASE Jump
  BY <1>4, <1>5, <1>9 DEF Marks, Chained, Linked, Jump, ResetForSeek, queueVars
<1>10. CASE chan.mode = "open" /\ DeliverSample
  <2>1. PICK i : Made(i) /\ chan' = C!Accept(chan, i)
    BY <1>10, SampleMade, SameChannel
  <2>2. i \in Items /\ i.kind = "sample" /\ i.unit = at /\ i.epoch = epoch
        /\ i.discontinuity = (m_firstSample \/ TimestampDiscontinuity(Time(at)))
        /\ m_lastDeliveredPts' = Time(at) /\ epoch' = epoch
    BY <1>10, <2>1, ItemFacts DEF Made, Items, DeliverSample
  <2>3. C!Line(chan') = Append(C!Line(chan), i)
    BY <1>0, <1>10, <2>1, <2>2, LineAccept
  <2>4. graph = "run"
    BY <1>10 DEF DeliverSample, Typed, ControlTyped, Marks, Flushed
  <2>5. CASE i.discontinuity
    <3>1. ChainOf(kind, Append(C!Line(chan), i), sink.last, sink.epoch, chan.landed)
          /\ LinkOf(kind, Append(C!Line(chan), i), sink.last, sink.epoch, Time(i.unit), i.epoch)
      BY <1>0, <1>10, <2>2, <2>5, ChainAppend DEF Marks, Chained
    <3> QED
      BY <1>1, <1>3, <1>4, <1>5, <2>2, <2>3, <3>1 DEF Marks, Chained, Linked
  <2>6. CASE ~i.discontinuity
    <3>1. ~m_firstSample /\ ~TimestampDiscontinuity(Time(at))
      BY <2>2, <2>6
    <3>2. LinkOf(kind, C!Line(chan), sink.last, sink.epoch, m_lastDeliveredPts, epoch)
      BY <1>10, <2>4, <3>1 DEF Marks, Linked
    <3>3. kind = "audio" => m_lastDeliveredPts \in {Time(u) : u \in Unit}
      BY <3>2 DEF LinkOf, LastIs
    <3>4. at \in Unit
      BY <1>10 DEF Typed, Placed, DeliverSample
    <3>5. ASSUME kind = "audio" PROVE Time(at) <= m_lastDeliveredPts + DiscontinuityGap
      <4>1. /\ m_lastDeliveredPts \in Nat /\ m_lastDeliveredPts > 0 /\ Time(at) \in Nat
            /\ DiscontinuityGap \in Nat
        BY <3>3, <3>4, <3>5, UnitTimes, Numbers
      <4>2. ~(Time(at) > m_lastDeliveredPts + DiscontinuityGap)
        BY <3>1, <3>5, <4>1 DEF TimestampDiscontinuity
      <4> QED
        BY <4>1, <4>2
    <3>6. ChainOf(kind, Append(C!Line(chan), i), sink.last, sink.epoch, chan.landed)
          /\ LinkOf(kind, Append(C!Line(chan), i), sink.last, sink.epoch, Time(i.unit), i.epoch)
      BY <1>0, <1>10, <2>2, <3>2, <3>5, ChainAppend DEF Marks, Chained
    <3> QED
      BY <1>1, <1>3, <1>4, <1>5, <2>2, <2>3, <3>6 DEF Marks, Chained, Linked
  <2> QED
    BY <2>5, <2>6
<1> QED
  BY <1>6, <1>7, <1>8, <1>9, <1>10 DEF WorkerSide

\* The graph thread leaves no sample in a queue that it opens.
LEMMA NoSampleLeft ==
    ASSUME Typed, DeliverEndFlush \/ Inactive \/ Active
    PROVE  \A n \in DOMAIN C!Line(chan') : C!Line(chan')[n].kind = "segment"
<1>0. chan \in C!ChannelOf(Items) /\ C!Line(chan) \in Seq(Items) /\ NoItem \notin Items
  BY SameChannel, C!LineShape DEF Typed, QueueTyped
<1>1. CASE Inactive \/ Active
  <2>1. C!Line(chan') = <<>>
    BY <1>1, C!LineFresh, SameChannel DEF Inactive, Active
  <2> QED
    BY <2>1
<1>2. CASE DeliverEndFlush
  <2>1. C!Line(chan') = C!Line(chan)
    BY <1>0, <1>2, C!LineKept, SameChannel DEF DeliverEndFlush
  <2>2. chan.inflight \in Segment \cup {NoItem} /\ chan.pending \in Seq(Items)
        /\ \A n \in DOMAIN chan.pending : chan.pending[n] \in Segment
    BY <1>0, <1>2 DEF DeliverEndFlush, Q!Drained, C!ChannelOf
  <2>3. \A n \in DOMAIN C!Line(chan) : C!Line(chan)[n] \in Segment
    <3>1. CASE chan.inflight = NoItem
      BY <1>0, <2>2, <3>1, C!LineShape
    <3>2. CASE chan.inflight # NoItem
      <4>1. /\ Len(C!Line(chan)) = Len(chan.pending) + 1 /\ C!Line(chan)[1] = chan.inflight
            /\ \A n \in 1 .. Len(chan.pending) : C!Line(chan)[n + 1] = chan.pending[n]
        BY <1>0, <3>2, C!LineShape
      <4>2. ASSUME NEW n \in DOMAIN C!Line(chan), n # 1
            PROVE  C!Line(chan)[n] \in Segment
        <5>1. n - 1 \in 1 .. Len(chan.pending) /\ (n - 1) + 1 = n
          BY <1>0, <2>2, <4>1, <4>2
        <5>2. C!Line(chan)[n] = chan.pending[n - 1]
          BY <4>1, <5>1
        <5>3. n - 1 \in DOMAIN chan.pending
          BY <2>2, <5>1
        <5> QED
          BY <2>2, <5>2, <5>3
      <4>3. C!Line(chan)[1] \in Segment
        BY <2>2, <3>2, <4>1
      <4> QED
        BY <4>2, <4>3
    <3> QED
      BY <3>1, <3>2
  <2> QED
    BY <2>1, <2>3 DEF Segment
<1> QED
  BY <1>1, <1>2

LEMMA MarksGraphSide == Typed /\ Marks /\ GraphSide => Marks'
<1> SUFFICES ASSUME Typed, Marks, GraphSide PROVE Marks'
  OBVIOUS
<1>0. chan \in C!ChannelOf(Items) /\ sink \in SinkType /\ ControlTyped
  BY DEF Typed, QueueTyped
<1>1. Landing'
  <2>1. CASE DeliverEndFlush
    <3>1. chan'.inflight = chan.inflight /\ chan'.landed = chan.landed
          /\ chan.inflight \in Segment \cup {NoItem}
      BY <1>0, <2>1, InFlight, SameChannel DEF DeliverEndFlush, Q!Drained
    <3> QED
      BY <3>1 DEF Marks, Landing, Segment
  <2>2. CASE DeliverBeginFlush
    <3>1. /\ chan'.inflight = chan.inflight /\ chan'.landed = chan.landed
          /\ sink'.last = sink.last /\ sink'.epoch = sink.epoch
      BY <1>0, <2>2, InFlight, SameChannel DEF DeliverBeginFlush, SinkType
    <3> QED
      BY <3>1 DEF Marks, Landing
  <2>3. CASE Inactive \/ Active
    <3>1. chan'.landed = FALSE
      BY <1>0, <2>3, InFlight, SameChannel DEF Inactive, Active
    <3> QED
      BY <3>1 DEF Landing
  <2>4. CASE UNCHANGED queueVars
    BY <2>4 DEF Marks, Landing, queueVars
  <2> QED
    BY <2>1, <2>2, <2>3, <2>4 DEF GraphSide, StopThread, SeekTo
<1>2. Flushed'
  <2>1. CASE DeliverBeginFlush
    <3>1. chan'.mode = "flushing" /\ sink'.flushing = TRUE
      BY <1>0, <2>1 DEF DeliverBeginFlush, Q!BeginFlush, C!ChannelOf, SinkType
    <3> QED
      BY <2>1, <3>1 DEF Marks, Flushed, DeliverBeginFlush, pinVars
  <2>2. CASE DeliverEndFlush \/ Inactive \/ Active
    <3>1. chan'.mode = "open"
      <4>1. C!EndFlush(chan).mode = "open" /\ C!Fresh.mode = "open"
        BY <1>0 DEF C!EndFlush, C!Fresh, C!ChannelOf
      <4>2. chan' \in {C!EndFlush(chan), C!Fresh}
        BY <2>2, SameChannel DEF DeliverEndFlush, Inactive, Active
      <4> QED
        BY <4>1, <4>2
    <3>2. graph' \notin {"seek", "stop", "seek joined", "stop joined"}
      BY <2>2 DEF DeliverEndFlush, Inactive, Active
    <3>3. worker' = "segment" => m_firstSample'
      BY <1>0, <2>2 DEF DeliverEndFlush, Inactive, Active, Marks, Flushed, pinVars
    <3> QED
      BY <3>1, <3>2, <3>3 DEF Flushed
  <2>3. CASE StopThread \/ SeekTo
    BY <2>3 DEF StopThread, SeekTo, ResetForSeek, Marks, Flushed, queueVars, pinVars
  <2> QED
    BY <2>1, <2>2, <2>3 DEF GraphSide
<1>3. Chained'
  <2>1. CASE DeliverEndFlush \/ Inactive \/ Active
    <3>1. \A n \in DOMAIN C!Line(chan') : C!Line(chan')[n].kind # "sample"
      BY <2>1, NoSampleLeft
    <3> QED
      BY <3>1, ChainOfSegments DEF Chained
  <2>2. CASE DeliverBeginFlush
    <3>1. chan'.mode = "flushing"
      BY <1>0, <2>2 DEF DeliverBeginFlush, Q!BeginFlush, C!ChannelOf
    <3> QED
      BY <3>1 DEF Chained
  <2>3. CASE StopThread \/ SeekTo
    BY <2>3 DEF StopThread, SeekTo, Marks, Chained, queueVars
  <2> QED
    BY <2>1, <2>2, <2>3 DEF GraphSide
<1>4. Linked'
  <2>1. graph' # "run" \/ m_firstSample' = TRUE
    BY DEF GraphSide, DeliverBeginFlush, StopThread, DeliverEndFlush, SeekTo, Inactive, Active,
       ResetForSeek
  <2> QED
    BY <2>1 DEF Linked
<1> QED
  BY <1>1, <1>2, <1>3, <1>4 DEF Marks

LEMMA MarksNext == Typed /\ Marks /\ [Next]_vars => Marks'
<1> SUFFICES ASSUME Typed, Marks, UNCHANGED vars PROVE Marks'
  BY MarksWorkerSide, MarksGraphSide, MarksPinSide
     DEF Next, WorkerSide, GraphSide, PinSide, AtRest
<1> QED
  BY DEF Marks, Landing, Flushed, Chained, Linked, vars, pinVars, queueVars

(***************************************************************************)
(* A sample that lands downstream is marked, or follows on the last one    *)
(* that landed: no gap that a flush, a seek, an activation, a jump or the  *)
(* recording makes goes untold.                                            *)
(***************************************************************************)
THEOREM GapsAreMarked == Spec => DiscontinuityTold
<1>1. ASSUME Typed, Marks, [Next]_vars, SampleLands
      PROVE  \/ chan.inflight.discontinuity
             \/ /\ sink.last > 0 /\ sink.epoch = chan.inflight.epoch
                /\ kind = "audio" =>
                     Time(chan.inflight.unit) <= Time(sink.last) + DiscontinuityGap
  <2>1. /\ SinkAccepts /\ chan.mode = "open" /\ ~chan.landed /\ chan.inflight \notin Segment
    BY <1>1, OnlyAcceptLands DEF SampleLands, Marks
  <2>2. chan \in C!ChannelOf(Items) /\ NoItem \notin Items
    BY <1>1, SameChannel DEF Typed, QueueTyped
  <2>3. chan.inflight # NoItem /\ chan.inflight \in Items
    BY <2>1, <2>2 DEF SinkAccepts, Q!CanLand, C!ChannelOf
  <2>4. chan.inflight.kind = "sample"
    BY <2>1, <2>3, ItemFacts
  <2>5. 1 \in DOMAIN C!Line(chan) /\ C!Line(chan)[1] = chan.inflight
    BY <2>2, <2>3, C!LineShape
  <2>6. chan.inflight.discontinuity \/ FollowsOn(kind, chan.inflight, sink.last, sink.epoch)
    BY <1>1, <2>1, <2>4, <2>5 DEF Marks, Chained, ChainOf
  <2> QED
    BY <2>6 DEF FollowsOn
<1> QED
  BY <1>1, TypedInit, TypedNext, MarksInit, MarksNext, PTL DEF Spec, DiscontinuityTold

-----------------------------------------------------------------------------
(***************************************************************************)
(* Changes of format.  A change that is neither waiting for a sample nor   *)
(* lost is carried by a sample in the line, or has landed: the type that   *)
(* the downstream pin will have after the line is the format of the pin.   *)
(***************************************************************************)
Carries(i) == i.kind = "sample" /\ i.type # "none"

\* A downstream pin of type t is of type f after the first n items of the line.
TypedAt(L, n, t, f) ==
    \/ \E m \in DOMAIN L : /\ m <= n /\ Carries(L[m]) /\ L[m].type = f
                           /\ \A k \in DOMAIN L : m < k /\ k <= n => ~Carries(L[k])
    \/ f = t /\ \A k \in DOMAIN L : k <= n => ~Carries(L[k])

\* The first item is given back, whose type the downstream pin has.
LEMMA TypedTail ==
    ASSUME NEW L \in Seq(Items), L # <<>>, NEW t, NEW f, NEW n \in Nat,
           Carries(L[1]) => t = L[1].type, TypedAt(L, n + 1, t, f)
    PROVE  TypedAt(Tail(L), n, t, f)
<1> DEFINE T == Tail(L)
<1>1. /\ T \in Seq(Items) /\ Len(T) = Len(L) - 1 /\ Len(L) \in Nat /\ Len(L) > 0
      /\ \A k \in DOMAIN T : k \in Nat /\ k > 0 /\ k + 1 \in DOMAIN L /\ T[k] = L[k + 1]
  BY HeadTailProperties
<1>2. \A k \in DOMAIN L : k \in Nat /\ (k # 1 => k - 1 \in DOMAIN T /\ T[k - 1] = L[k])
  <2> SUFFICES ASSUME NEW k \in DOMAIN L
               PROVE  k \in Nat /\ (k # 1 => k - 1 \in DOMAIN T /\ T[k - 1] = L[k])
    OBVIOUS
  <2>1. k \in Nat /\ k >= 1 /\ k <= Len(L)
    OBVIOUS
  <2>2. ASSUME k # 1 PROVE k - 1 \in DOMAIN T /\ (k - 1) + 1 = k
    BY <1>1, <2>1, <2>2
  <2> QED
    BY <1>1, <2>1, <2>2
<1> HIDE DEF T
<1>3. ASSUME NEW m \in DOMAIN L, m <= n + 1, Carries(L[m]), L[m].type = f,
             \A k \in DOMAIN L : m < k /\ k <= n + 1 => ~Carries(L[k])
      PROVE  TypedAt(T, n, t, f)
  <2>1. ASSUME NEW k \in DOMAIN T, m < k + 1, k <= n PROVE ~Carries(T[k])
    BY <1>1, <1>3, <2>1
  <2>2. CASE m = 1
    <3>1. \A k \in DOMAIN T : k <= n => ~Carries(T[k])
      BY <1>1, <2>1, <2>2
    <3> QED
      BY <1>3, <2>2, <3>1 DEF TypedAt
  <2>3. CASE m # 1
    <3>1. m - 1 \in DOMAIN T /\ T[m - 1] = L[m] /\ m - 1 <= n
      BY <1>2, <1>3, <2>3
    <3>2. \A k \in DOMAIN T : m - 1 < k /\ k <= n => ~Carries(T[k])
      BY <1>1, <1>2, <2>1
    <3> QED
      BY <1>3, <3>1, <3>2 DEF TypedAt
  <2> QED
    BY <2>2, <2>3
<1>4. ASSUME f = t, \A k \in DOMAIN L : k <= n + 1 => ~Carries(L[k])
      PROVE  TypedAt(T, n, t, f)
  <2>1. \A k \in DOMAIN T : k <= n => ~Carries(T[k])
    BY <1>1, <1>4
  <2> QED
    BY <1>4, <2>1 DEF TypedAt
<1> QED
  BY <1>3, <1>4 DEF TypedAt, T

\* The downstream pin accepts the first item.
LEMMA TypedLanded ==
    ASSUME NEW L \in Seq(Items), L # <<>>, NEW t, NEW u, NEW f, NEW n \in Nat, n > 0,
           TypedAt(L, n, t, f), ~Carries(L[1]) => u = t
    PROVE  TypedAt(L, n, u, f)
<1>1. 1 \in DOMAIN L /\ 1 <= n
  OBVIOUS
<1> QED
  BY <1>1 DEF TypedAt

\* The worker queues an item.
LEMMA TypedAppended ==
    ASSUME NEW L \in Seq(Items), NEW i \in Items, NEW t, NEW f
    PROVE  /\ \A n \in DOMAIN L : TypedAt(L, n, t, f) => TypedAt(Append(L, i), n, t, f)
           /\ Carries(i) /\ f = i.type => TypedAt(Append(L, i), Len(Append(L, i)), t, f)
           /\ ~Carries(i) /\ TypedAt(L, Len(L), t, f) =>
                TypedAt(Append(L, i), Len(Append(L, i)), t, f)
<1> DEFINE A == Append(L, i)
<1>1. /\ Len(L) \in Nat /\ Len(A) = Len(L) + 1 /\ Len(A) \in DOMAIN A /\ A[Len(A)] = i
      /\ \A k \in DOMAIN L : k \in DOMAIN A /\ A[k] = L[k] /\ k \in Nat /\ k <= Len(L)
      /\ \A k \in DOMAIN A : k \in Nat /\ (k \in DOMAIN L \/ k = Len(A))
  BY AppendProperties
<1> HIDE DEF A
<1>2. ASSUME NEW n \in DOMAIN L, TypedAt(L, n, t, f) PROVE TypedAt(A, n, t, f)
  <2>1. \A k \in DOMAIN A : k <= n => k \in DOMAIN L
    BY <1>1
  <2> QED
    BY <1>1, <1>2, <2>1 DEF TypedAt
<1>3. ASSUME Carries(i), f = i.type PROVE TypedAt(A, Len(A), t, f)
  <2>1. Len(A) <= Len(A) /\ \A k \in DOMAIN A : ~(Len(A) < k /\ k <= Len(A))
    BY <1>1
  <2> QED
    BY <1>1, <1>3, <2>1 DEF TypedAt
<1>4. ASSUME ~Carries(i), TypedAt(L, Len(L), t, f) PROVE TypedAt(A, Len(A), t, f)
  <2>1. \A k \in DOMAIN L : k <= Len(A)
    BY <1>1
  <2> QED
    BY <1>1, <1>4, <2>1 DEF TypedAt
<1> QED
  BY <1>2, <1>3, <1>4 DEF A

\* The line loses items that carry no change, all but perhaps the first.
LEMMA TypedShorter ==
    ASSUME NEW L \in Seq(Items), NEW K \in Seq(Items), NEW t, NEW f,
           TypedAt(L, Len(L), t, f),
           \/ K = <<>> /\ \A k \in DOMAIN L : ~Carries(L[k])
           \/ /\ L # <<>> /\ K = <<L[1]>> /\ \A k \in DOMAIN L : k # 1 => ~Carries(L[k])
    PROVE  TypedAt(K, Len(K), t, f)
<1>1. \A k \in DOMAIN L : k \in Nat /\ k <= Len(L)
  OBVIOUS
<1>2. CASE K = <<>> /\ \A k \in DOMAIN L : ~Carries(L[k])
  BY <1>1, <1>2 DEF TypedAt
<1>3. CASE L # <<>> /\ K = <<L[1]>> /\ \A k \in DOMAIN L : k # 1 => ~Carries(L[k])
  <2>1. 1 \in DOMAIN L /\ 1 <= Len(L)
    BY <1>3
  <2>2. Len(K) = 1 /\ DOMAIN K = {1} /\ K[1] = L[1]
    BY <1>3
  <2>3. CASE Carries(L[1])
    <3>1. L[1].type = f
      BY <1>1, <1>3, <2>1, <2>3 DEF TypedAt
    <3> QED
      BY <2>2, <2>3, <3>1 DEF TypedAt
  <2>4. CASE ~Carries(L[1])
    <3>1. \A k \in DOMAIN L : ~Carries(L[k])
      BY <1>3, <2>4
    <3>2. f = t
      BY <1>1, <3>1 DEF TypedAt
    <3> QED
      BY <2>2, <2>4, <3>2 DEF TypedAt
  <2> QED
    BY <2>3, <2>4
<1> QED
  BY <1>2, <1>3

\* What the downstream pin has accepted is its type.
TypeHeld == chan.landed /\ Carries(chan.inflight) => sink.type = chan.inflight.type

ToldOf(L) == ~m_formatChanged /\ ~untold => TypedAt(L, Len(L), sink.type, m_format)

\* No sample is left of before the queue was deleted.
Cleared ==
    graph \in {"inactive", "stopped"} =>
        \A n \in DOMAIN C!Line(chan) : C!Line(chan)[n].kind = "segment"

EachTold(L) ==
    chan.mode = "open" =>
        \A n \in DOMAIN L : L[n].kind = "sample" /\ ~L[n].untold =>
            TypedAt(L, n, sink.type, FormatOf(L[n].unit))

Formats == TypeHeld /\ ToldOf(C!Line(chan)) /\ Cleared /\ EachTold(C!Line(chan))

LEMMA FormatsInit == Init => Formats
<1> SUFFICES ASSUME Init PROVE Formats
  OBVIOUS
<1>1. chan.landed = FALSE /\ C!Line(chan) = <<>>
  BY SameChannel, C!LineFresh DEF Init, C!Fresh
<1>2. TypedAt(<<>>, Len(<<>>), "old", "old")
  BY DEF TypedAt
<1>3. sink.type = "old" /\ m_format = "old"
  BY DEF Init
<1> QED
  BY <1>1, <1>2, <1>3 DEF Formats, TypeHeld, ToldOf, Cleared, EachTold

\* A step that changes neither the items, the format nor the downstream type.
LEMMA FormatsSame ==
    ASSUME Formats, C!Line(chan') = C!Line(chan), sink'.type = sink.type, m_format' = m_format,
           m_formatChanged' = m_formatChanged, untold' = untold,
           chan'.mode = "open" => chan.mode = "open",
           graph' \in {"inactive", "stopped"} => graph \in {"inactive", "stopped"}
    PROVE  (ToldOf(C!Line(chan)) /\ Cleared /\ EachTold(C!Line(chan)))'
BY DEF Formats, ToldOf, Cleared, EachTold

LEMMA FormatsPinSide == Typed /\ Marks /\ Formats /\ PinSide => Formats'
<1> SUFFICES ASSUME Typed, Marks, Formats, PinSide PROVE Formats'
  OBVIOUS
<1> DEFINE L == C!Line(chan)
<1>0. /\ chan \in C!ChannelOf(Items) /\ sink \in SinkType /\ NoItem \notin Items
      /\ L \in Seq(Items) /\ Len(L) \in Nat /\ untold \in BOOLEAN
      /\ \A n \in DOMAIN L : n \in Nat /\ n > 0
  <2>1. chan \in C!ChannelOf(Items) /\ sink \in SinkType /\ untold \in BOOLEAN
    BY DEF Typed, QueueTyped
  <2>2. NoItem \notin Items
    BY SameChannel
  <2>3. L \in Seq(Items)
    BY <2>1, <2>2, C!LineShape
  <2> HIDE DEF L
  <2>4. Len(L) \in Nat /\ \A n \in DOMAIN L : n \in Nat /\ n > 0
    BY <2>3
  <2> QED
    BY <2>1, <2>2, <2>3, <2>4
<1>1. UNCHANGED <<m_format, m_formatChanged, graph>>
  BY DEF PinSide, QueueTakes, QueueSkips, QueueFreesSamples, SinkAccepts, SinkFails, SinkReturns,
     PinOnly, pinVars
<1>2. chan'.mode = "open" => chan.mode = "open"
  BY ModeKept
<1>3. CASE QueueTakes
  <2>1. C!CanTake(chan) /\ chan' = C!Take(chan) /\ UNCHANGED <<sink, untold>>
    BY <1>3, SameChannel DEF QueueTakes
  <2>2. C!Line(chan') = L /\ ~chan'.landed
    BY <1>0, <2>1, C!LineTake, InFlight DEF C!CanTake, Marks, Landing
  <2> QED
    BY <1>1, <1>2, <2>1, <2>2, FormatsSame DEF Formats, TypeHeld
<1>4. CASE SinkAccepts
  <2>1. chan' = C!Landed(chan) /\ UNCHANGED untold /\ chan.inflight # NoItem
    BY <1>4, SameChannel DEF SinkAccepts, Q!CanLand
  <2>2. /\ C!Line(chan') = L /\ chan'.inflight = chan.inflight
        /\ L # <<>> /\ L[1] = chan.inflight /\ chan.inflight \in Items
    <3>1. C!Line(chan') = L
      BY <1>0, <2>1, C!LineKept
    <3>2. chan'.inflight = chan.inflight
      BY <1>0, <2>1, InFlight
    <3>3. L # <<>> /\ L[1] = chan.inflight
      BY <1>0, <2>1, C!LineShape
    <3>4. chan.inflight \in Items
      BY <1>0, <2>1 DEF C!ChannelOf
    <3> QED
      BY <3>1, <3>2, <3>3, <3>4
  <2>3. sink'.type = IF Carries(L[1]) THEN L[1].type ELSE sink.type
    <3>1. CASE chan.inflight \in Segment
      BY <1>4, <2>2, <3>1 DEF SinkAccepts, Carries, Segment
    <3>2. CASE chan.inflight \notin Segment
      <4>1. sink'.type = TypeAfter(chan.inflight) /\ chan.inflight.kind = "sample"
        BY <1>0, <1>4, <2>2, <3>2, ItemFacts DEF SinkAccepts, SinkType
      <4> QED
        BY <2>2, <4>1 DEF TypeAfter, Carries
    <3> QED
      BY <3>1, <3>2
  <2>4. TypeHeld'
    BY <2>2, <2>3 DEF TypeHeld
  <2>5. Len(L) > 0
    BY <1>0, <2>2
  <2> HIDE DEF L
  <2>6. \A f : \A n \in Nat : n > 0 /\ TypedAt(L, n, sink.type, f) => TypedAt(L, n, sink'.type, f)
    BY <1>0, <2>2, <2>3, TypedLanded
  <2>7. ToldOf(L)'
    BY <1>0, <1>1, <2>1, <2>2, <2>5, <2>6 DEF Formats, ToldOf, L
  <2>8. EachTold(L)'
    BY <1>0, <1>2, <2>2, <2>6 DEF Formats, EachTold, L
  <2>9. Cleared'
    BY <1>1, <2>2 DEF Formats, Cleared, L
  <2> QED
    BY <2>4, <2>7, <2>8, <2>9 DEF Formats, L
<1>5. CASE QueueFreesSamples
  <2>1. /\ chan' = C!Emptied(chan) /\ UNCHANGED sink
        /\ untold' = (untold \/ CarriesType(chan.pending))
    BY <1>5, SameChannel DEF QueueFreesSamples
  <2>2. chan'.mode # "open"
    BY <1>0, <1>5, ModeKept DEF QueueFreesSamples
  <2>3. chan'.inflight = chan.inflight /\ chan'.landed = chan.landed
    BY <1>0, <2>1, InFlight
  <2>4. /\ C!Line(chan') = IF chan.inflight = NoItem THEN <<>> ELSE <<chan.inflight>>
        /\ chan.pending \in Seq(Items)
    BY <1>0, <2>1, C!LineEmptied DEF C!Emptied, C!ChannelOf, C!Line
  <2>5. /\ C!Line(chan') = <<>> \/ (L # <<>> /\ C!Line(chan') = <<L[1]>>)
        /\ C!Line(chan') \in Seq(Items)
    BY <1>0, <2>4, C!LineShape DEF C!ChannelOf
  <2>6. ASSUME ~m_formatChanged, ~untold'
        PROVE  TypedAt(C!Line(chan'), Len(C!Line(chan')), sink.type, m_format)
    <3>1. \A n \in DOMAIN chan.pending : ~Carries(chan.pending[n])
      BY <2>1, <2>6 DEF CarriesType, Carries
    <3>2. TypedAt(L, Len(L), sink.type, m_format)
      BY <1>0, <2>1, <2>6 DEF Formats, ToldOf
    <3>3. CASE chan.inflight = NoItem
      <4>1. L = chan.pending /\ C!Line(chan') = <<>>
        BY <1>0, <2>4, <3>3, C!LineShape
      <4> HIDE DEF L
      <4> QED
        BY <1>0, <2>5, <3>1, <3>2, <4>1, TypedShorter
    <3>4. CASE chan.inflight # NoItem
      <4>1. /\ Len(L) = Len(chan.pending) + 1 /\ L[1] = chan.inflight /\ L # <<>>
            /\ \A n \in 1 .. Len(chan.pending) : L[n + 1] = chan.pending[n]
            /\ C!Line(chan') = <<L[1]>>
        BY <1>0, <2>4, <3>4, C!LineShape
      <4> HIDE DEF L
      <4>2. ASSUME NEW k \in DOMAIN L, k # 1 PROVE ~Carries(L[k])
        <5>0. k \in 1 .. Len(L) /\ Len(chan.pending) \in Nat
          BY <1>0, <2>4
        <5>1. k - 1 \in 1 .. Len(chan.pending) /\ (k - 1) + 1 = k
          BY <4>1, <4>2, <5>0
        <5>2. L[k] = chan.pending[k - 1] /\ k - 1 \in DOMAIN chan.pending
          BY <2>4, <4>1, <5>1
        <5> QED
          BY <3>1, <5>2
      <4> QED
        BY <1>0, <2>5, <3>2, <4>1, <4>2, TypedShorter
    <3> QED
      BY <3>3, <3>4
  <2>7. Cleared'
    <3>1. ASSUME graph \in {"inactive", "stopped"}, L # <<>> PROVE L[1].kind = "segment"
      BY <1>0, <3>1 DEF Formats, Cleared
    <3> QED
      BY <1>1, <2>5, <3>1 DEF Cleared
  <2> QED
    BY <1>1, <2>1, <2>2, <2>3, <2>6, <2>7 DEF Formats, TypeHeld, ToldOf, EachTold
<1>6. CASE QueueSkips \/ SinkFails \/ SinkReturns
  <2>1. /\ chan.inflight # NoItem /\ UNCHANGED sink
        /\ chan' \in {C!Skipped(chan), C!Failed(chan), C!Returned(chan)}
    BY <1>6, SameChannel
       DEF QueueSkips, SinkFails, SinkReturns, Q!CanSkip, Q!CanLand, Marks, Landing
  <2>2. /\ C!Line(chan') = Tail(L) /\ L # <<>> /\ L[1] = chan.inflight
        /\ \A n \in DOMAIN Tail(L) : n \in Nat /\ n + 1 \in DOMAIN L /\ Tail(L)[n] = L[n + 1]
        /\ Len(Tail(L)) \in Nat /\ Len(Tail(L)) + 1 = Len(L)
    BY <1>0, <2>1, C!LineRemoved, C!LineShape, HeadTailProperties
  <2> HIDE DEF L
  <2>3. ~chan'.landed
    BY <1>0, <1>6, <2>1, InFlight, SameChannel
       DEF QueueSkips, SinkFails, SinkReturns, Q!CanSkip, Q!CanLand
  <2>4. ~untold' => ~untold
    BY <1>0, <1>6 DEF QueueSkips, SinkFails, SinkReturns
  <2>5. ASSUME SinkReturns \/ ~untold' PROVE Carries(L[1]) => sink.type = L[1].type
    <3>1. CASE SinkReturns
      BY <2>2, <3>1 DEF SinkReturns, Formats, TypeHeld
    <3>2. CASE ~SinkReturns
      <4>1. ~CarriesType(<<chan.inflight>>)
        BY <1>6, <2>5, <3>2 DEF QueueSkips, SinkFails
      <4>2. 1 \in DOMAIN <<chan.inflight>> /\ <<chan.inflight>>[1] = chan.inflight
        OBVIOUS
      <4> QED
        BY <2>2, <4>1, <4>2 DEF CarriesType, Carries
    <3> QED
      BY <3>1, <3>2
  <2>6. \A f : \A n \in Nat : (SinkReturns \/ ~untold') /\ TypedAt(L, n + 1, sink.type, f)
                          => TypedAt(Tail(L), n, sink.type, f)
    BY <1>0, <2>2, <2>5, TypedTail
  <2>7. (ToldOf(C!Line(chan)))'
    BY <1>1, <2>1, <2>2, <2>4, <2>6 DEF Formats, ToldOf, L
  <2>8. (EachTold(C!Line(chan)))'
    <3>1. ASSUME chan'.mode = "open" PROVE SinkReturns
      BY <1>0, <1>2, <1>6, <3>1
         DEF QueueSkips, SinkFails, Q!CanSkip, Q!Failed, C!ChannelOf
    <3> QED
      BY <1>2, <2>1, <2>2, <2>6, <3>1 DEF Formats, EachTold, L
  <2>9. Cleared'
    BY <1>1, <2>2 DEF Formats, Cleared, L
  <2> QED
    BY <2>3, <2>7, <2>8, <2>9 DEF Formats, TypeHeld
<1> QED
  BY <1>3, <1>4, <1>5, <1>6 DEF PinSide

\* The worker queues a sample of the format that the pin was told of.
LEMMA FormatsDeliver == Typed /\ Marks /\ Formats /\ DeliverSample => Formats'
<1> SUFFICES ASSUME Typed, Marks, Formats, DeliverSample PROVE Formats'
  OBVIOUS
<1> DEFINE L == C!Line(chan)
<1>0. chan \in C!ChannelOf(Items) /\ L \in Seq(Items) /\ m_formatChanged \in BOOLEAN
  BY SameChannel, C!LineShape DEF Typed, PinTyped, QueueTyped
<1>1. /\ UNCHANGED <<m_format, sink, graph>> /\ m_formatChanged' = FALSE
      /\ m_format = FormatOf(at) /\ graph \notin {"inactive", "stopped"}
  BY DEF DeliverSample, Typed, Placed, ControlTyped
<1>2. PICK i : Made(i) /\ chan' = C!Accept(chan, i)
  BY SampleMade, SameChannel
<1>3. i \in Items /\ i.kind = "sample" /\ i.unit = at /\ i.untold = untold'
  BY <1>2, ItemFacts DEF Made, Items
<1>4. chan'.mode = chan.mode /\ chan'.inflight = chan.inflight /\ chan'.landed = chan.landed
  BY <1>0, <1>2 DEF C!Accept, C!Queued, C!ChannelOf
<1>5. TypeHeld' /\ Cleared'
  BY <1>1, <1>4 DEF Formats, TypeHeld, Cleared
<1> HIDE DEF L
<1>6. ASSUME ~untold'
      PROVE  \/ ~m_formatChanged /\ ~untold /\ ~Carries(i)
             \/ chan.mode = "open" /\ Carries(i) /\ i.type = m_format
  <2>1. m_format # "none"
    BY DEF Typed, PinTyped, Format
  <2> QED
    BY <1>2, <1>3, <1>6, <2>1 DEF Made, Carries
<1>7. CASE chan.mode # "open"
  <2>1. C!Line(chan') = L
    BY <1>0, <1>2, <1>3, <1>7, LineAccept DEF L
  <2>2. ToldOf(L)'
    BY <1>1, <1>6, <1>7, <2>1 DEF Formats, ToldOf, L
  <2> QED
    BY <1>4, <1>5, <1>7, <2>1, <2>2 DEF Formats, EachTold, L
<1>8. CASE chan.mode = "open"
  <2> DEFINE A == Append(L, i)
  <2>1. C!Line(chan') = A
    BY <1>0, <1>2, <1>3, <1>8, LineAccept DEF L
  <2>2. /\ \A n \in DOMAIN A : n \in DOMAIN L \/ n = Len(A)
        /\ \A n \in DOMAIN L : A[n] = L[n]
        /\ A[Len(A)] = i
    BY <1>0, <1>3, AppendProperties
  <2>3. \A f : /\ \A n \in DOMAIN L : TypedAt(L, n, sink.type, f) => TypedAt(A, n, sink.type, f)
               /\ Carries(i) /\ f = i.type => TypedAt(A, Len(A), sink.type, f)
               /\ ~Carries(i) /\ TypedAt(L, Len(L), sink.type, f) =>
                    TypedAt(A, Len(A), sink.type, f)
    BY <1>0, <1>3, TypedAppended
  <2> HIDE DEF A
  <2>4. ASSUME ~untold' PROVE TypedAt(A, Len(A), sink.type, m_format)
    BY <1>6, <2>3, <2>4 DEF Formats, ToldOf, L
  <2>5. (ToldOf(C!Line(chan)))'
    BY <1>1, <2>1, <2>4 DEF ToldOf
  <2>6. ASSUME NEW n \in DOMAIN A, A[n].kind = "sample", ~A[n].untold
        PROVE  TypedAt(A, n, sink.type, FormatOf(A[n].unit))
    <3>1. CASE n \in DOMAIN L
      BY <1>8, <2>2, <2>3, <2>6, <3>1 DEF Formats, EachTold, L
    <3>2. CASE n = Len(A)
      BY <1>1, <1>3, <2>2, <2>4, <2>6, <3>2
    <3> QED
      BY <2>2, <3>1, <3>2
  <2>7. (EachTold(C!Line(chan)))'
    BY <1>1, <2>1, <2>6 DEF EachTold
  <2> QED
    BY <1>5, <2>5, <2>7 DEF Formats
<1> QED
  BY <1>7, <1>8

LEMMA FormatsWorkerSide == Typed /\ Marks /\ Formats /\ WorkerSide => Formats'
<1> SUFFICES ASSUME Typed, Marks, Formats, WorkerSide, ~DeliverSample PROVE Formats'
  BY FormatsDeliver
<1>0. chan \in C!ChannelOf(Items) /\ C!Line(chan) \in Seq(Items) /\ m_formatChanged \in BOOLEAN
      /\ ControlTyped
  BY SameChannel, C!LineShape DEF Typed, PinTyped, QueueTyped
<1>1. CASE DeliverNewSegment
  <2>1. PICK i \in Items : chan' = C!Accept(chan, i) /\ i.kind = "segment"
    BY <1>1, SameChannel DEF DeliverNewSegment, Items, Segment
  <2>2. /\ UNCHANGED <<m_format, m_formatChanged, untold, sink, graph>>
        /\ graph \notin {"inactive", "stopped"}
    BY <1>0, <1>1 DEF DeliverNewSegment, ControlTyped
  <2>3. chan'.mode = chan.mode /\ chan'.inflight = chan.inflight /\ chan'.landed = chan.landed
    BY <1>0, <2>1 DEF C!Accept, C!Queued, C!ChannelOf
  <2>4. TypeHeld' /\ Cleared'
    BY <2>2, <2>3 DEF Formats, TypeHeld, Cleared
  <2>5. CASE chan.mode # "open"
    <3>1. C!Line(chan') = C!Line(chan)
      BY <1>0, <2>1, <2>5, LineAccept
    <3> QED
      BY <2>2, <2>3, <2>4, <3>1, FormatsSame DEF Formats
  <2>6. CASE chan.mode = "open"
    <3> DEFINE L == C!Line(chan)
               A == Append(L, i)
    <3>1. C!Line(chan') = A
      BY <1>0, <2>1, <2>6, LineAccept
    <3>2. /\ \A n \in DOMAIN A : n \in DOMAIN L \/ A[n] = i
          /\ \A n \in DOMAIN L : A[n] = L[n]
      BY <1>0, AppendProperties
    <3>3. \A f : /\ \A n \in DOMAIN L :
                       TypedAt(L, n, sink.type, f) => TypedAt(A, n, sink.type, f)
                 /\ TypedAt(L, Len(L), sink.type, f) => TypedAt(A, Len(A), sink.type, f)
      BY <1>0, <2>1, TypedAppended DEF Carries
    <3> HIDE DEF L, A
    <3>4. (ToldOf(C!Line(chan)))'
      BY <2>2, <3>1, <3>3 DEF Formats, ToldOf, L
    <3>5. (EachTold(C!Line(chan)))'
      BY <2>1, <2>2, <2>6, <3>1, <3>2, <3>3 DEF Formats, EachTold, L
    <3> QED
      BY <2>4, <3>4, <3>5 DEF Formats
  <2> QED
    BY <2>5, <2>6
<1>2. CASE Callback
  <2>1. UNCHANGED <<chan, sink, untold, graph>>
    BY <1>2 DEF Callback, queueVars
  <2>2. ~m_formatChanged' => ~m_formatChanged /\ m_format' = m_format
    BY <1>0, <1>2 DEF Callback, SetInfo
  <2> QED
    BY <2>1, <2>2 DEF Formats, TypeHeld, ToldOf, Cleared, EachTold
<1>3. CASE NoSample \/ Jump
  BY <1>3 DEF NoSample, Jump, ResetForSeek, pinVars, queueVars, Formats, TypeHeld, ToldOf,
     Cleared, EachTold
<1> QED
  BY <1>1, <1>2, <1>3 DEF WorkerSide

\* The last change is told before the queue is deleted, or it is lost.
LEMMA FormatsGraphSide == Typed /\ Formats /\ GraphSide => Formats'
<1> SUFFICES ASSUME Typed, Formats, GraphSide PROVE Formats'
  OBVIOUS
<1>0. /\ chan \in C!ChannelOf(Items) /\ sink \in SinkType /\ C!Line(chan) \in Seq(Items)
      /\ NoItem \notin Items
  BY SameChannel, C!LineShape DEF Typed, QueueTyped
<1>1. UNCHANGED <<m_format, m_formatChanged, untold>> /\ sink'.type = sink.type
  BY <1>0 DEF GraphSide, DeliverBeginFlush, StopThread, DeliverEndFlush, SeekTo, Inactive, Active,
     ResetForSeek, pinVars, queueVars, SinkType
<1>2. CASE DeliverBeginFlush
  <2>1. /\ C!Line(chan') = C!Line(chan) /\ chan'.mode = "flushing"
        /\ chan'.inflight = chan.inflight /\ chan'.landed = chan.landed
    BY <1>0, <1>2, SameChannel, C!LineKept, InFlight, C!ChannelControl DEF DeliverBeginFlush
  <2>2. graph' \notin {"inactive", "stopped"}
    BY <1>2 DEF DeliverBeginFlush
  <2> QED
    BY <1>1, <2>1, <2>2, FormatsSame DEF Formats, TypeHeld
<1>3. CASE StopThread \/ SeekTo
  <2>1. UNCHANGED <<chan, sink>> /\ graph' \notin {"inactive", "stopped"}
    BY <1>3 DEF StopThread, SeekTo, queueVars
  <2> QED
    BY <1>1, <2>1 DEF Formats, TypeHeld, ToldOf, Cleared, EachTold
<1>4. CASE DeliverEndFlush \/ Inactive \/ Active
  <2>1. \A n \in DOMAIN C!Line(chan') : C!Line(chan')[n].kind = "segment"
    BY <1>4, NoSampleLeft
  <2>2. Cleared' /\ (EachTold(C!Line(chan)))'
    BY <2>1 DEF Cleared, EachTold
  <2>3. CASE DeliverEndFlush
    <3>1. /\ C!Line(chan') = C!Line(chan)
          /\ chan'.inflight = chan.inflight /\ chan'.landed = chan.landed
      BY <1>0, <2>3, SameChannel, C!LineKept, InFlight DEF DeliverEndFlush
    <3>2. TypeHeld' /\ (ToldOf(C!Line(chan)))'
      BY <1>1, <3>1 DEF Formats, TypeHeld, ToldOf
    <3> QED
      BY <2>2, <3>2 DEF Formats
  <2>4. CASE Inactive \/ Active
    <3>1. chan' = C!Fresh /\ C!Line(chan') = <<>> /\ chan'.landed = FALSE
      <4>1. chan' = C!Fresh
        BY <2>4, SameChannel DEF Inactive, Active
      <4> QED
        BY <1>0, <4>1, C!LineFresh, InFlight
    <3>2. \A n \in DOMAIN C!Line(chan) : ~Carries(C!Line(chan)[n])
      BY <2>4 DEF Inactive, Active, Formats, Cleared, Carries
    <3>3. (ToldOf(C!Line(chan)))'
      <4> DEFINE L == C!Line(chan)
      <4>1. ASSUME TypedAt(L, Len(L), sink.type, m_format)
            PROVE  TypedAt(<<>>, Len(<<>>), sink.type, m_format)
        <5>1. <<>> \in Seq(Items) /\ L \in Seq(Items)
          BY <1>0
        <5> HIDE DEF L
        <5> QED
          BY <3>2, <4>1, <5>1, TypedShorter DEF L
      <4> QED
        BY <1>1, <3>1, <4>1 DEF Formats, ToldOf
    <3> QED
      BY <2>2, <3>1, <3>3 DEF Formats, TypeHeld
  <2> QED
    BY <2>3, <2>4, <1>4
<1> QED
  BY <1>2, <1>3, <1>4 DEF GraphSide

LEMMA FormatsNext == Typed /\ Marks /\ Formats /\ [Next]_vars => Formats'
<1> SUFFICES ASSUME Formats, UNCHANGED vars PROVE Formats'
  BY FormatsWorkerSide, FormatsGraphSide, FormatsPinSide
     DEF Next, WorkerSide, GraphSide, PinSide, AtRest
<1> QED
  BY DEF Formats, TypeHeld, ToldOf, Cleared, EachTold, vars, pinVars, queueVars

(***************************************************************************)
(* A sample that lands is of the type that the downstream pin has then, or *)
(* the change of type before it was discarded by a flush or a failure, or  *)
(* refused downstream.                                                     *)
(***************************************************************************)
THEOREM TypesAreTold == Spec => ToldUnlessDiscarded
<1>1. ASSUME Typed, Marks, Formats, [Next]_vars, SampleLands, ~chan.inflight.untold
      PROVE  FormatOf(chan.inflight.unit) = TypeAfter(chan.inflight)
  <2>1. /\ SinkAccepts /\ chan.mode = "open" /\ chan.inflight \notin Segment
    BY <1>1, OnlyAcceptLands DEF SampleLands, Marks
  <2>2. chan \in C!ChannelOf(Items) /\ NoItem \notin Items
    BY <1>1, SameChannel DEF Typed, QueueTyped
  <2>3. chan.inflight # NoItem /\ chan.inflight \in Items
    BY <2>1, <2>2 DEF SinkAccepts, Q!CanLand, C!ChannelOf
  <2>4. chan.inflight.kind = "sample"
    BY <2>1, <2>3, ItemFacts
  <2>5. /\ 1 \in DOMAIN C!Line(chan) /\ C!Line(chan)[1] = chan.inflight
        /\ \A m \in DOMAIN C!Line(chan) : m <= 1 => m = 1
    <3>1. C!Line(chan) \in Seq(Items) /\ C!Line(chan) # <<>> /\ C!Line(chan)[1] = chan.inflight
      BY <2>2, <2>3, C!LineShape
    <3> DEFINE L == C!Line(chan)
    <3> HIDE DEF L
    <3>2. L \in Seq(Items) /\ L # <<>> => 1 \in DOMAIN L /\ \A m \in DOMAIN L : m <= 1 => m = 1
      OBVIOUS
    <3> QED
      BY <3>1, <3>2 DEF L
  <2>6. TypedAt(C!Line(chan), 1, sink.type, FormatOf(chan.inflight.unit))
    BY <1>1, <2>1, <2>4, <2>5 DEF Formats, EachTold
  <2> QED
    BY <2>4, <2>5, <2>6 DEF TypedAt, Carries, TypeAfter
<1>2. Spec => [](Typed /\ Marks /\ Formats)
  BY TypedInit, TypedNext, MarksInit, MarksNext, FormatsInit, FormatsNext, PTL DEF Spec
<1> QED
  BY <1>1, <1>2, PTL DEF Spec, ToldUnlessDiscarded

=============================================================================
