------------------------------ MODULE OutputPin ------------------------------
(***************************************************************************)
(* One output pin of the splitter, of video or of audio: the demux worker  *)
(* calls DeliverSample for complete access units, NewSegment at its start  *)
(* and ResetForSeek at a jump between edit segments; the graph thread      *)
(* flushes, resets, deactivates and activates the pin while the worker is  *)
(* joined (FilterLifecycle); the delivery queue (Channel) passes samples   *)
(* to the downstream pin, which may fail any of them.                      *)
(*                                                                         *)
(* A unit is its number.  What the pin keeps about delivery - the count of *)
(* failures, the pending change of format, the last time delivered - is    *)
(* written when a sample is queued, long before the downstream pin sees    *)
(* it, and the properties are about what that pin sees.                    *)
(***************************************************************************)
EXTENDS Naturals, Sequences

CONSTANTS Units,       \* the number of access units in the file
          ChangeAt,    \* the first unit of the second format
          HoleAt,      \* the unit before which the recording has a hole
          Hole,        \* the length of the hole
          DiscontinuityGap,        \* kDiscontinuityGap
          MaxConsecutiveFailures,  \* kMaxConsecutiveDeliveryFailures
          MaxEpochs    \* bound: seeks, jumps and activations

ASSUME PinAssumption ==
    /\ {Units, ChangeAt, HoleAt, Hole, DiscontinuityGap, MaxEpochs} \subseteq Nat
    /\ Units > 0 /\ MaxEpochs > 0 /\ MaxConsecutiveFailures \in Nat \ {0}

Unit == 1 .. Units
Epoch == 1 .. MaxEpochs
Format == {"old", "new"}
FormatOf(u) == IF u < ChangeAt THEN "old" ELSE "new"
Time(u) == IF u < HoleAt THEN u ELSE u + Hole

\* A sample may carry a change of type and a discontinuity flag; what it also
\* carries here is whether a change before it was discarded or refused.
Sample == [kind : {"sample"}, unit : Unit, epoch : Epoch, type : Format \cup {"none"},
           discontinuity : BOOLEAN, untold : BOOLEAN]
Segment == [kind : {"segment"}]
NoItem == [kind |-> "none"]

Q == INSTANCE Channel WITH Item <- Sample \cup Segment

VARIABLES
    kind,        \* "video" or "audio"
    m_format,    \* the format the pin was told of last
    m_formatChanged, m_firstSample,
    m_lastDeliveredPts,                  \* 0 for none
    m_consecutiveDeliveryFailures, m_deliverySuppressed,
    chan,        \* m_pQueue
    m_hr,        \* what Receive returns once the queue has failed
    sink,        \* the downstream pin: the type it has, the last unit and its epoch
    worker,      \* where the demux worker is
    at,          \* the next unit it reads
    graph,       \* where the graph thread is
    epoch,       \* the number of seeks, jumps and activations so far
    untold       \* the last change of type was discarded or refused on its way

pinVars == <<m_format, m_formatChanged, m_firstSample, m_lastDeliveredPts,
             m_consecutiveDeliveryFailures, m_deliverySuppressed>>
queueVars == <<chan, m_hr, sink, untold>>
vars == <<kind, pinVars, queueVars, worker, at, graph, epoch>>

TypeOK ==
    /\ kind \in {"video", "audio"} /\ m_format \in Format
    /\ {m_formatChanged, m_firstSample, m_deliverySuppressed, untold} \subseteq BOOLEAN
    /\ m_lastDeliveredPts \in {0} \cup {Time(u) : u \in Unit}
    /\ m_consecutiveDeliveryFailures \in 0 .. MaxConsecutiveFailures
    /\ chan \in Q!ChannelType
    /\ m_hr \in {"S_OK", "S_FALSE", "failed", "wrong state"}
    /\ sink \in [type : Format, last : 0 .. Units, epoch : 0 .. MaxEpochs, flushing : BOOLEAN]
    /\ worker \in {"none", "segment", "loop", "buffer"} /\ at \in 1 .. Units + 1
    /\ graph \in {"run", "seek", "stop", "seek joined", "stop joined", "reset", "inactive",
                  "stopped"}
    /\ epoch \in Epoch

Init ==
    /\ kind \in {"video", "audio"} /\ m_format = "old"
    /\ m_formatChanged = FALSE /\ m_firstSample = TRUE /\ m_lastDeliveredPts = 0
    /\ m_consecutiveDeliveryFailures = 0 /\ m_deliverySuppressed = FALSE
    /\ chan = Q!Fresh /\ m_hr = "S_OK"
    /\ sink = [type |-> "old", last |-> 0, epoch |-> 0, flushing |-> FALSE]
    /\ worker = "segment" /\ at = 1 /\ graph = "run" /\ epoch = 1
    /\ untold = FALSE

-----------------------------------------------------------------------------
(***************************************************************************)
(* The demux worker.                                                       *)
(***************************************************************************)
ClearFailures == m_consecutiveDeliveryFailures' = 0 /\ m_deliverySuppressed' = FALSE

DeliverNewSegment ==
    /\ worker = "segment"
    /\ ClearFailures
    /\ chan' = Q!Accept(chan, [kind |-> "segment"])
    /\ worker' = "loop"
    /\ UNCHANGED <<kind, m_format, m_formatChanged, m_firstSample, m_lastDeliveredPts,
                   m_hr, sink, untold, at, graph, epoch>>

AcceptsSamples == ~m_deliverySuppressed

\* SetVideoInfo and SetAudioInfo note that the format is not what it was.
SetInfo(f) == /\ m_format' = f
              /\ m_formatChanged' = (m_formatChanged \/ f # m_format)

\* The callback for a unit tells the pin its format, unless audio is suppressed.
Callback ==
    /\ worker = "loop" /\ at \in Unit
    /\ IF AcceptsSamples
       THEN SetInfo(FormatOf(at)) /\ worker' = "buffer" /\ UNCHANGED at
       ELSE at' = at + 1 /\ UNCHANGED <<m_format, m_formatChanged, worker>>
    /\ UNCHANGED <<kind, m_firstSample, m_lastDeliveredPts, m_consecutiveDeliveryFailures,
                   m_deliverySuppressed, queueVars, graph, epoch>>

\* Mutant of NoSample: the change of format is forgotten with the sample.
NoSampleForgets ==
    /\ worker = "buffer"
    /\ worker' = "loop" /\ at' = at + 1
    /\ m_formatChanged' = FALSE
    /\ UNCHANGED <<kind, m_format, m_firstSample, m_lastDeliveredPts,
                   m_consecutiveDeliveryFailures, m_deliverySuppressed, queueVars,
                   graph, epoch>>

\* GetDeliveryBuffer fails, or the unit is larger than the buffer.
NoSample ==
    /\ worker = "buffer"
    /\ worker' = "loop" /\ at' = at + 1
    /\ UNCHANGED <<kind, pinVars, queueVars, graph, epoch>>

\* Mutant of Count: a state error counts too.
CountAll(hr) ==
    IF kind = "video" THEN UNCHANGED <<m_consecutiveDeliveryFailures, m_deliverySuppressed>>
    ELSE IF hr \in {"S_OK", "S_FALSE"}
    THEN m_consecutiveDeliveryFailures' = 0 /\ UNCHANGED m_deliverySuppressed
    ELSE /\ m_consecutiveDeliveryFailures' = m_consecutiveDeliveryFailures + 1
         /\ m_deliverySuppressed' =
                (m_consecutiveDeliveryFailures' >= MaxConsecutiveFailures)

\* Mutant of Count: one failure more is allowed than the limit.
CountLate(hr) ==
    IF kind = "video" \/ hr = "wrong state"
    THEN UNCHANGED <<m_consecutiveDeliveryFailures, m_deliverySuppressed>>
    ELSE IF hr \in {"S_OK", "S_FALSE"}
    THEN m_consecutiveDeliveryFailures' = 0 /\ UNCHANGED m_deliverySuppressed
    ELSE /\ m_consecutiveDeliveryFailures' = m_consecutiveDeliveryFailures + 1
         /\ m_deliverySuppressed' =
                (m_consecutiveDeliveryFailures' > MaxConsecutiveFailures)

\* Audio only: failures in a row, other than a state error, suppress the pin.
Count(hr) ==
    IF kind = "video" \/ hr = "wrong state"
    THEN UNCHANGED <<m_consecutiveDeliveryFailures, m_deliverySuppressed>>
    ELSE IF hr \in {"S_OK", "S_FALSE"}
    THEN m_consecutiveDeliveryFailures' = 0 /\ UNCHANGED m_deliverySuppressed
    ELSE /\ m_consecutiveDeliveryFailures' = m_consecutiveDeliveryFailures + 1
         /\ m_deliverySuppressed' =
                (m_consecutiveDeliveryFailures' >= MaxConsecutiveFailures)

TimestampDiscontinuity(pts) ==
    /\ kind = "audio" /\ m_lastDeliveredPts > 0
    /\ pts < m_lastDeliveredPts \/ pts > m_lastDeliveredPts + DiscontinuityGap

\* DeliverSample, once it has a buffer.  The queue takes the sample, or drops it
\* with the failure it has latched, or with S_FALSE during a flush.  Audio asks
\* the downstream pin about a new type, and keeps the old one when refused.
DeliverSample ==
    /\ worker = "buffer"
    /\ \E accepted \in IF kind = "audio" THEN BOOLEAN ELSE {TRUE} :
         LET pts == Time(at)
             type == IF m_formatChanged /\ accepted THEN m_format ELSE "none"
             item == [kind |-> "sample", unit |-> at, epoch |-> epoch, type |-> type,
                      discontinuity |-> m_firstSample \/ TimestampDiscontinuity(pts),
                      untold |-> untold']
         IN  /\ untold' = IF m_formatChanged THEN ~accepted \/ chan.mode # "open" ELSE untold
             /\ chan' = Q!Accept(chan, item)
             /\ m_lastDeliveredPts' = pts
    /\ m_formatChanged' = FALSE /\ m_firstSample' = FALSE
    /\ Count(IF chan.mode = "broken" THEN m_hr ELSE "S_OK")
    /\ worker' = "loop" /\ at' = at + 1
    /\ UNCHANGED <<kind, m_format, m_hr, sink, graph, epoch>>

\* Mutant of ResetForSeek: the first sample of the new position is not marked.
ResetForSeekUnmarked ==
    /\ m_lastDeliveredPts' = 0 /\ ClearFailures
    /\ UNCHANGED <<m_format, m_formatChanged, m_firstSample>>

ResetForSeek ==
    /\ m_firstSample' = TRUE /\ m_lastDeliveredPts' = 0 /\ ClearFailures
    /\ UNCHANGED <<m_format, m_formatChanged>>

\* The worker jumps to another edit segment without a flush.
Jump ==
    /\ worker = "loop" /\ epoch < IF graph = "run" THEN MaxEpochs ELSE MaxEpochs - 1
    /\ ResetForSeek
    /\ at' \in Unit /\ epoch' = epoch + 1
    /\ UNCHANGED <<kind, queueVars, worker, graph>>

-----------------------------------------------------------------------------
(***************************************************************************)
(* The graph thread: a seek or a stop begins a flush, joins the worker and *)
(* ends the flush; a seek then resets the pin, a stop deactivates it.      *)
(***************************************************************************)
DeliverBeginFlush ==
    /\ graph = "run" /\ epoch < MaxEpochs
    /\ graph' \in {"seek", "stop"}
    /\ chan' = Q!BeginFlush(chan)
    /\ sink' = [sink EXCEPT !.flushing = TRUE]
    /\ UNCHANGED <<kind, pinVars, m_hr, untold, worker, at, epoch>>

StopThread ==
    /\ graph \in {"seek", "stop"} /\ worker = "loop"
    /\ worker' = "none"
    /\ graph' = IF graph = "seek" THEN "seek joined" ELSE "stop joined"
    /\ UNCHANGED <<kind, pinVars, queueVars, at, epoch>>

DeliverEndFlush ==
    /\ graph \in {"seek joined", "stop joined"}
    /\ Q!Drained(chan)
    /\ ClearFailures
    /\ chan' = Q!EndFlush(chan) /\ m_hr' = "S_OK"
    /\ sink' = [sink EXCEPT !.flushing = FALSE, !.last = 0]
    /\ graph' = IF graph = "seek joined" THEN "reset" ELSE "inactive"
    /\ UNCHANGED <<kind, m_format, m_formatChanged, m_firstSample, m_lastDeliveredPts,
                   untold, worker, at, epoch>>

SeekTo ==
    /\ graph = "reset"
    /\ ResetForSeek
    /\ at' \in Unit /\ epoch' = epoch + 1
    /\ worker' = "segment" /\ graph' = "run"
    /\ UNCHANGED <<kind, queueVars>>

\* Inactive deletes the queue once its thread has ended.
Inactive ==
    /\ graph = "inactive" /\ chan.inflight = NoItem
    /\ chan' = Q!Fresh
    /\ graph' = "stopped"
    /\ UNCHANGED <<kind, pinVars, m_hr, sink, untold, worker, at, epoch>>

Active ==
    /\ graph = "stopped"
    /\ m_firstSample' = TRUE /\ m_lastDeliveredPts' = 0 /\ ClearFailures
    /\ chan' = Q!Fresh
    /\ at' \in Unit /\ epoch' = epoch + 1
    /\ worker' = "segment" /\ graph' = "run"
    /\ UNCHANGED <<kind, m_format, m_formatChanged, m_hr, sink, untold>>

-----------------------------------------------------------------------------
(***************************************************************************)
(* The delivery thread and the downstream pin.                             *)
(***************************************************************************)
PinOnly == UNCHANGED <<kind, pinVars, worker, at, graph, epoch>>

CarriesType(s) == \E n \in DOMAIN s : s[n].kind = "sample" /\ s[n].type # "none"

QueueTakes == /\ Q!CanTake(chan) /\ chan' = Q!Take(chan)
              /\ UNCHANGED <<m_hr, sink, untold>> /\ PinOnly

QueueSkips == /\ Q!CanSkip(chan) /\ chan' = Q!Skipped(chan)
              /\ untold' = (untold \/ CarriesType(<<chan.inflight>>))
              /\ UNCHANGED <<m_hr, sink>> /\ PinOnly

QueueFreesSamples ==
    /\ chan.mode = "flushing" /\ chan.pending # <<>>
    /\ chan' = Q!Emptied(chan)
    /\ untold' = (untold \/ CarriesType(chan.pending))
    /\ UNCHANGED <<m_hr, sink>> /\ PinOnly

\* The type a downstream pin has after a sample.
TypeAfter(i) == IF i.type = "none" THEN sink.type ELSE i.type

SinkAccepts ==
    /\ Q!CanLand(chan)
    /\ chan.inflight \in Segment \/ ~sink.flushing
    /\ chan' = Q!Landed(chan)
    /\ LET i == chan.inflight IN
       IF i \in Segment
       THEN UNCHANGED sink
       ELSE sink' = [sink EXCEPT !.type = TypeAfter(i), !.last = i.unit, !.epoch = i.epoch]
    /\ UNCHANGED <<m_hr, untold>> /\ PinOnly

SinkFails ==
    /\ Q!CanLand(chan) /\ chan.inflight \notin Segment
    /\ chan' = Q!Failed(chan)
    /\ IF chan.mode = "open" THEN m_hr' \in {"S_FALSE", "failed", "wrong state"} ELSE UNCHANGED m_hr
    /\ untold' = (untold \/ CarriesType(<<chan.inflight>>))
    /\ UNCHANGED sink /\ PinOnly

SinkReturns == /\ chan.landed /\ chan' = Q!Returned(chan)
               /\ UNCHANGED <<m_hr, sink, untold>> /\ PinOnly

\* The file is at its end, or the bound is reached, and everything is delivered.
AtRest == /\ worker = "loop" /\ at = Units + 1 /\ graph = "run" /\ epoch = MaxEpochs
          /\ chan.inflight = NoItem /\ chan.pending = <<>>
          /\ UNCHANGED vars

Next == \/ DeliverNewSegment \/ Callback \/ NoSample \/ DeliverSample \/ Jump
        \/ DeliverBeginFlush \/ StopThread \/ DeliverEndFlush \/ SeekTo \/ Inactive \/ Active
        \/ QueueTakes \/ QueueSkips \/ QueueFreesSamples
        \/ SinkAccepts \/ SinkFails \/ SinkReturns \/ AtRest

Spec == Init /\ [][Next]_vars

-----------------------------------------------------------------------------
\* A sample lands downstream in this step.
SampleLands == ~chan.landed /\ chan'.landed /\ chan.inflight \notin Segment

(***************************************************************************)
(* A pin is suppressed only for failures of the run in progress that are   *)
(* no state errors: "suppressing that one would leave the next run silent  *)
(* until something flushed it" (DeliverSample).                            *)
(***************************************************************************)
SuppressedForFailures == m_deliverySuppressed => kind = "audio" /\ m_hr = "failed"

(***************************************************************************)
(* The first sample that the downstream pin accepts after a flush, a seek, *)
(* an activation or a jump between edit segments is marked, and so is an   *)
(* audio sample after a hole, whatever the queue and the allocator lost.   *)
(***************************************************************************)
DiscontinuityTold ==
    [][SampleLands =>
         \/ chan.inflight.discontinuity
         \/ /\ sink.last > 0 /\ sink.epoch = chan.inflight.epoch
            /\ kind = "audio" =>
                 Time(chan.inflight.unit) <= Time(sink.last) + DiscontinuityGap]_vars

(***************************************************************************)
(* A sample that arrives is of the type the downstream pin was told of     *)
(* last, or the sample that carried the change was discarded or refused:   *)
(* a unit that finds no buffer or is too large does not lose the change.   *)
(***************************************************************************)
ToldUnlessDiscarded ==
    [][SampleLands => \/ FormatOf(chan.inflight.unit) = TypeAfter(chan.inflight)
                      \/ chan.inflight.untold]_vars
=============================================================================
