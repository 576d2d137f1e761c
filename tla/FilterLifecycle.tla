--------------------------- MODULE FilterLifecycle ---------------------------
(***************************************************************************)
(* The splitter filter as its threads see it: the graph thread, which      *)
(* calls Pause, Run, Stop, SetPositions and Enable under m_pinLock; the    *)
(* demux worker that StartThread creates and StopThread joins; and, behind *)
(* every connected output pin, the delivery thread of a channel (Channel,  *)
(* implemented by OutputQueue) and the downstream pin.  The worker takes   *)
(* no lock: what keeps the two threads apart is the order of the calls.    *)
(*                                                                         *)
(* What the file contains is abstracted: the worker chooses which pin the  *)
(* next access unit is for and when its loop ends by itself.  Every thread *)
(* the filter starts is a new run, and every item carries its run.         *)
(***************************************************************************)
EXTENDS Naturals, Sequences

CONSTANTS NumPins,      \* the connected output pins; the first is the video pin
          Position,     \* the positions SetPositions is asked for
          AtFileStart,  \* those that are the first of the source file
          Buffers,      \* samples each pin's allocator has
          MaxRuns,      \* bound: threads started
          MaxCalls,     \* bound: calls of the graph thread
          MaxSamples    \* bound: samples in a run

ASSUME NumbersAssumption ==
    /\ Position \subseteq Nat /\ 0 \in Position /\ AtFileStart \subseteq Position
    /\ NumPins \in Nat \ {0}
    /\ Buffers \in Nat \ {0}
    /\ MaxRuns \in Nat /\ MaxCalls \in Nat /\ MaxSamples \in Nat

Pin == 1 .. NumPins
Run == 0 .. MaxRuns

\* An end of stream says whether the run's loop ended by itself.
Item == [kind : {"sample", "segment"}, run : Run] \cup
        [kind : {"eos"}, run : Run, natural : BOOLEAN]
Segment == [kind : {"segment"}, run : Run]
NoItem == [kind |-> "none"]

Q == INSTANCE Channel

VARIABLES
    m_State, m_hThread, m_active, m_hStop, m_isSeeking,
    m_seekTarget, m_currentPts,
    chan,        \* m_pQueue of each connected pin
    sink,        \* what the pin downstream has seen since its last flush
    graph,       \* the call in progress: its name, its step, and its position
    at,          \* the pin that the graph thread's loop is at
    worker,      \* where the demux worker is
    workerAt,    \* the pin that the worker deals with
    natural,     \* the worker's loop ended by itself
    run,         \* the number of threads started
    calls,       \* the number of calls made
    samples,     \* samples made in this run
    carry        \* the run whose half-read access units the demuxer holds, 0 if none

graphVars == <<m_State, m_hThread, m_isSeeking, m_seekTarget, graph, at, calls>>
workerVars == <<worker, workerAt, natural, samples, carry>>
vars == <<graphVars, workerVars, m_active, m_hStop, m_currentPts, chan, sink, run>>

Idle == [call |-> "none", step |-> "idle", pos |-> 0]

NewSink == [segment |-> 0, sample |-> 0, eos |-> "none", flushing |-> FALSE]

TypeOK ==
    /\ m_State \in {"Stopped", "Paused", "Running"}
    /\ m_hThread \in BOOLEAN /\ m_active \in BOOLEAN /\ m_hStop \in BOOLEAN
    /\ m_isSeeking \in BOOLEAN /\ natural \in BOOLEAN
    /\ m_seekTarget \in Position
    /\ m_currentPts \in Position
    /\ chan \in [Pin -> Q!ChannelType]
    /\ sink \in [Pin -> [segment : Run, sample : Run, eos : {"none", "natural", "cut"},
                         flushing : BOOLEAN]]
    /\ graph \in [call : {"none", "Stop", "Seek"}, pos : Position,
                  step : {"idle", "begin", "seeking", "signal", "join", "end", "reset", "inactive"}]
    /\ at \in Pin /\ workerAt \in 1 .. NumPins + 1
    /\ worker \in {"none", "setup", "announce", "announcing", "loop", "buffer",
                   "ending", "eos", "late", "exited"}
    /\ run \in Run /\ carry \in Run /\ calls \in 0 .. MaxCalls /\ samples \in 0 .. MaxSamples

Init ==
    /\ m_State = "Stopped" /\ m_hThread = FALSE /\ m_active = FALSE
    /\ m_hStop = FALSE /\ m_isSeeking = FALSE
    /\ m_seekTarget = 0 /\ m_currentPts = 0
    /\ chan = [p \in Pin |-> Q!Fresh] /\ sink = [p \in Pin |-> NewSink]
    /\ graph = Idle /\ at = 1
    /\ worker = "none" /\ workerAt = 1 /\ natural = FALSE
    /\ run = 0 /\ calls = 0 /\ samples = 0 /\ carry = 0

-----------------------------------------------------------------------------
(***************************************************************************)
(* The graph thread.                                                       *)
(***************************************************************************)
\* A call takes m_pinLock, which the graph thread holds until it is idle again.
Enter == /\ graph = Idle
         /\ calls < MaxCalls /\ run < MaxRuns
         /\ calls' = calls + 1

\* StartThread: nothing when there is a handle, even of a worker that has ended.
StartThread ==
    IF m_hThread
    THEN UNCHANGED <<m_hThread, m_active, m_hStop, worker, workerAt, natural, samples, run>>
    ELSE /\ m_hThread' = TRUE /\ m_active' = TRUE /\ m_hStop' = FALSE
         /\ worker' = "setup" /\ workerAt' = 1 /\ natural' = FALSE /\ samples' = 0
         /\ run' = run + 1

\* Pause, from Stopped (the pins become active, with new queues) or Running.
Pause ==
    /\ Enter
    /\ m_State' = "Paused"
    /\ IF m_State = "Stopped"
       THEN chan' = [p \in Pin |-> Q!Fresh] /\ sink' = [p \in Pin |-> NewSink]
       ELSE UNCHANGED <<chan, sink>>
    /\ StartThread
    /\ UNCHANGED <<m_isSeeking, m_seekTarget, m_currentPts, graph, at, carry>>

\* Run; from Stopped, CBaseFilter::Run pauses first.
RunFilter ==
    /\ m_State = "Paused"
    /\ Enter
    /\ m_State' = "Running"
    /\ StartThread
    /\ UNCHANGED <<m_isSeeking, m_seekTarget, m_currentPts, chan, sink, graph, at,
                   carry>>

\* Mutant of Stop: the thread is stopped before the pins are flushed.
StopUnflushed ==
    /\ Enter
    /\ graph' = [call |-> "Stop", pos |-> m_seekTarget, step |-> "seeking"]
    /\ at' = 1
    /\ UNCHANGED <<m_State, m_hThread, m_isSeeking, m_seekTarget, workerVars, m_active,
                   m_hStop, m_currentPts, chan, sink, run>>

Stop ==
    /\ Enter
    /\ graph' = [call |-> "Stop", pos |-> m_seekTarget,
                 step |-> IF m_State = "Stopped" THEN "seeking" ELSE "begin"]
    /\ at' = 1
    /\ UNCHANGED <<m_State, m_hThread, m_isSeeking, m_seekTarget, workerVars, m_active,
                   m_hStop, m_currentPts, chan, sink, run>>

\* Mutant of SeekTo: the thread is stopped without a flush.
SeekToUnflushed(pos) ==
    /\ graph' = [call |-> "Seek", pos |-> pos, step |-> "seeking"]
    /\ at' = 1
    /\ UNCHANGED <<m_State, m_hThread, m_isSeeking, m_seekTarget, workerVars, m_active,
                   m_hStop, m_currentPts, chan, sink, run>>

\* SeekTo, from SetPositions or from Enable, which passes the current position.
SeekTo(pos) ==
    /\ graph' = [call |-> "Seek", pos |-> pos,
                 step |-> IF m_State = "Stopped" THEN "seeking" ELSE "begin"]
    /\ at' = 1
    /\ UNCHANGED <<m_State, m_hThread, m_isSeeking, m_seekTarget, workerVars, m_active,
                   m_hStop, m_currentPts, chan, sink, run>>

\* SetPositions: a seek to where the filter already is, is ignored; without a
\* thread the target is noted for the next one.
SetPositions(pos) ==
    /\ Enter
    /\ IF m_hThread
       THEN IF pos = m_seekTarget /\ pos = m_currentPts
            THEN UNCHANGED <<m_State, m_hThread, m_isSeeking, m_seekTarget, graph, at,
                             workerVars, m_active, m_hStop, m_currentPts, chan, sink, run>>
            ELSE SeekTo(pos)
       ELSE /\ m_seekTarget' = pos
            /\ m_currentPts' = pos
            /\ UNCHANGED <<m_State, m_hThread, m_isSeeking, graph, at, workerVars,
                           m_active, m_hStop, chan, sink, run>>

Enable == Enter /\ SeekTo(m_currentPts)

\* Mutant of BeginFlush: the loop over the pins ends one too late.
BeginFlushPastEnd ==
    /\ graph.step = "begin"
    /\ chan' = [chan EXCEPT ![at] = Q!BeginFlush(@)]
    /\ sink' = [sink EXCEPT ![at].flushing = TRUE]
    /\ IF at <= NumPins
       THEN at' = at + 1 /\ UNCHANGED graph
       ELSE at' = 1 /\ graph' = [graph EXCEPT !.step = "seeking"]
    /\ UNCHANGED <<m_State, m_hThread, m_isSeeking, m_seekTarget, calls, workerVars,
                   m_active, m_hStop, m_currentPts, run>>

\* The loop over the connected pins that begins their flush.
BeginFlush ==
    /\ graph.step = "begin"
    /\ chan' = [chan EXCEPT ![at] = Q!BeginFlush(@)]
    /\ sink' = [sink EXCEPT ![at].flushing = TRUE]
    /\ IF at < NumPins
       THEN at' = at + 1 /\ UNCHANGED graph
       ELSE at' = 1 /\ graph' = [graph EXCEPT !.step = "seeking"]
    /\ UNCHANGED <<m_State, m_hThread, m_isSeeking, m_seekTarget, calls, workerVars,
                   m_active, m_hStop, m_currentPts, run>>

\* A seek says so before it stops the thread; a stop does not.
SetSeeking ==
    /\ graph.step = "seeking"
    /\ m_isSeeking' = (graph.call = "Seek")
    /\ graph' = [graph EXCEPT !.step = "signal"]
    /\ UNCHANGED <<m_State, m_hThread, m_seekTarget, at, calls, workerVars, m_active,
                   m_hStop, m_currentPts, chan, sink, run>>

\* StopThread clears m_active and signals m_hStop.
SignalThread ==
    /\ graph.step = "signal"
    /\ m_active' = IF m_hThread THEN FALSE ELSE m_active
    /\ m_hStop' = IF m_hThread THEN TRUE ELSE m_hStop
    /\ graph' = [graph EXCEPT !.step = "join"]
    /\ UNCHANGED <<m_State, m_hThread, m_isSeeking, m_seekTarget, at, calls, workerVars, m_currentPts,
                   chan, sink, run>>

\* Mutant of JoinThread: the wait times out.
JoinThreadTimedOut ==
    /\ graph.step = "join"
    /\ m_hThread' = FALSE /\ m_hStop' = FALSE
    /\ worker' = IF worker = "exited" THEN "none" ELSE worker
    /\ m_isSeeking' = FALSE
    /\ graph' = [graph EXCEPT !.step = IF m_State # "Stopped" THEN "end"
                                       ELSE IF graph.call = "Seek" THEN "reset"
                                       ELSE "inactive"]
    /\ UNCHANGED <<m_State, m_seekTarget, at, calls, workerAt, natural, samples,
                   carry, m_active, m_currentPts, chan, sink, run>>

\* Mutant of JoinThread: the filter goes on thinking that it seeks.
JoinThreadStillSeeking ==
    /\ graph.step = "join"
    /\ m_hThread => worker = "exited"
    /\ m_hThread' = FALSE /\ m_hStop' = FALSE
    /\ worker' = "none"
    /\ graph' = [graph EXCEPT !.step = IF m_State # "Stopped" THEN "end"
                                       ELSE IF graph.call = "Seek" THEN "reset"
                                       ELSE "inactive"]
    /\ UNCHANGED <<m_State, m_isSeeking, m_seekTarget, at, calls, workerAt, natural, samples,
                   carry, m_active, m_currentPts, chan, sink, run>>

\* StopThread waits for the worker, without a timeout.
JoinThread ==
    /\ graph.step = "join"
    /\ m_hThread => worker = "exited"
    /\ m_hThread' = FALSE /\ m_hStop' = FALSE
    /\ worker' = "none"
    /\ m_isSeeking' = FALSE
    /\ graph' = [graph EXCEPT !.step = IF m_State # "Stopped" THEN "end"
                                       ELSE IF graph.call = "Seek" THEN "reset"
                                       ELSE "inactive"]
    /\ UNCHANGED <<m_State, m_seekTarget, at, calls, workerAt, natural, samples,
                   carry, m_active, m_currentPts, chan, sink, run>>

\* Mutant of EndFlush: it does not wait for the channel.
EndFlushUndrained ==
    /\ graph.step = "end"
    /\ chan' = [chan EXCEPT ![at] = Q!EndFlush(@)]
    /\ sink' = [sink EXCEPT ![at] = [NewSink EXCEPT !.segment = sink[at].segment]]
    /\ IF at < NumPins
       THEN at' = at + 1 /\ UNCHANGED graph
       ELSE at' = 1 /\ graph' = [graph EXCEPT !.step = IF graph.call = "Seek" THEN "reset"
                                                       ELSE "inactive"]
    /\ UNCHANGED <<m_State, m_hThread, m_isSeeking, m_seekTarget, calls, workerVars,
                   m_active, m_hStop, m_currentPts, run>>

\* EndFlush of one pin waits until its channel is drained.
EndFlush ==
    /\ graph.step = "end"
    /\ Q!Drained(chan[at])
    /\ chan' = [chan EXCEPT ![at] = Q!EndFlush(@)]
    /\ sink' = [sink EXCEPT ![at] = [NewSink EXCEPT !.segment = sink[at].segment]]
    /\ IF at < NumPins
       THEN at' = at + 1 /\ UNCHANGED graph
       ELSE at' = 1 /\ graph' = [graph EXCEPT !.step = IF graph.call = "Seek" THEN "reset"
                                                       ELSE "inactive"]
    /\ UNCHANGED <<m_State, m_hThread, m_isSeeking, m_seekTarget, calls, workerVars,
                   m_active, m_hStop, m_currentPts, run>>

\* The rest of SeekTo: accumulators, decoders, demuxer and handler are reset,
\* the position is set, and the worker starts again unless stopped.
Reset ==
    /\ graph.step = "reset"
    /\ m_seekTarget' = graph.pos
    /\ m_currentPts' = graph.pos
    /\ carry' = 0
    /\ IF m_State = "Stopped"
       THEN UNCHANGED <<m_hThread, m_active, m_hStop, worker, workerAt, natural, samples, run>>
       ELSE StartThread
    /\ graph' = Idle
    /\ UNCHANGED <<m_State, m_isSeeking, at, calls, chan, sink>>

\* CBaseFilter::Stop: every pin deletes its queue, waiting for its thread.
Inactive ==
    /\ graph.step = "inactive"
    /\ \A p \in Pin : chan[p].inflight = NoItem
    /\ chan' = [p \in Pin |-> Q!Fresh]
    /\ m_State' = "Stopped"
    /\ graph' = Idle
    /\ UNCHANGED <<m_hThread, m_isSeeking, m_seekTarget, at, calls, workerVars, m_active,
                   m_hStop, m_currentPts, sink, run>>

-----------------------------------------------------------------------------
(***************************************************************************)
(* The demux worker (DemuxLoop).                                           *)
(***************************************************************************)
WorkerOnly == UNCHANGED <<graphVars, m_hStop, run, sink>>

\* It opens the file, indexes the subtitles, clears the demuxer if the target,
\* mapped through the edit list, is the beginning of the file, and seeks; without
\* the file it returns at once, with no end of stream.
SetUp ==
    /\ worker = "setup"
    /\ worker' \in {"announce", "exited"}
    /\ workerAt' = 1
    /\ carry' = IF worker' = "announce" /\ m_seekTarget \in AtFileStart THEN 0 ELSE carry
    /\ UNCHANGED <<natural, samples, m_active, m_currentPts, chan>> /\ WorkerOnly

\* NewSegment on every pin looks at the queue's m_hr before it takes the lock.
Announce ==
    /\ worker = "announce"
    /\ IF workerAt > NumPins
       THEN worker' = "loop" /\ UNCHANGED workerAt
       ELSE IF chan[workerAt].mode = "open"
            THEN worker' = "announcing" /\ UNCHANGED workerAt
            ELSE workerAt' = workerAt + 1 /\ UNCHANGED worker
    /\ UNCHANGED <<natural, samples, carry, m_active, m_currentPts, chan>> /\ WorkerOnly

Announcing ==
    /\ worker = "announcing"
    /\ chan' = [chan EXCEPT ![workerAt] = Q!Queued(@, [kind |-> "segment", run |-> run])]
    /\ workerAt' = workerAt + 1
    /\ worker' = "announce"
    /\ UNCHANGED <<natural, samples, carry, m_active, m_currentPts>> /\ WorkerOnly

\* The loop ends when StopThread has asked for it...
LoopAsked ==
    /\ worker = "loop" /\ (~m_active \/ m_hStop)
    /\ worker' = "ending"
    /\ UNCHANGED <<workerAt, natural, samples, carry, m_active, m_currentPts, chan>>
    /\ WorkerOnly

\* ... or at the end of the file or of the last edit segment.
LoopAtEnd ==
    /\ worker = "loop" /\ m_active
    /\ worker' = "ending" /\ natural' = TRUE
    /\ UNCHANGED <<workerAt, samples, carry, m_active, m_currentPts, chan>> /\ WorkerOnly

\* A frame past the stop position makes the video callback clear m_active.
LoopPastStop ==
    /\ worker = "loop" /\ m_active
    /\ m_active' = FALSE /\ natural' = TRUE
    /\ UNCHANGED <<worker, workerAt, samples, carry, m_currentPts, chan>> /\ WorkerOnly

\* The next access unit, of any pin: the video callback (pin 1) reports the
\* position.  The rest of the packet stays in the demuxer.
LoopSample ==
    /\ worker = "loop" /\ m_active /\ samples < MaxSamples
    /\ samples' = samples + 1
    /\ workerAt' \in Pin
    /\ IF workerAt' = 1 THEN m_currentPts' \in Position ELSE UNCHANGED m_currentPts
    /\ carry' = run
    /\ worker' = "buffer"
    /\ UNCHANGED <<natural, m_active, chan>> /\ WorkerOnly

\* Samples the pin's queue and downstream call hold.
InUse(p) ==
    LET inflight == IF chan[p].inflight = NoItem THEN <<>> ELSE <<chan[p].inflight>>
    IN  Len(SelectSeq(inflight \o chan[p].pending, LAMBDA i : i.kind = "sample"))

\* GetDeliveryBuffer blocks while the allocator has no free sample.
Deliver ==
    /\ worker \in {"buffer", "late"} /\ InUse(workerAt) < Buffers
    /\ chan' = [chan EXCEPT ![workerAt] = Q!Accept(@, [kind |-> "sample", run |-> run])]
    /\ IF worker = "buffer"
       THEN worker' = "loop" /\ UNCHANGED workerAt
       ELSE worker' = "eos" /\ workerAt' = 1
    /\ UNCHANGED <<natural, samples, carry, m_active, m_currentPts>> /\ WorkerOnly

\* A seek's worker leaves without an end of stream.
Ending ==
    /\ worker = "ending"
    /\ worker' = IF m_isSeeking THEN "exited" ELSE "eos"
    /\ workerAt' = 1
    /\ UNCHANGED <<natural, samples, carry, m_active, m_currentPts, chan>> /\ WorkerOnly

\* Documents that waited for a glyph are tried again first, whoever ended the loop:
\* their cues go to a pin that is not the video's.
DeferredSample ==
    /\ worker = "eos" /\ workerAt = 1 /\ samples < MaxSamples
    /\ samples' = samples + 1
    /\ workerAt' \in Pin \ {1}
    /\ worker' = "late"
    /\ UNCHANGED <<natural, carry, m_active, m_currentPts, chan>> /\ WorkerOnly

DeliverEOS ==
    /\ worker = "eos"
    /\ chan' = [chan EXCEPT ![workerAt] =
                   Q!Accept(@, [kind |-> "eos", run |-> run, natural |-> natural])]
    /\ IF workerAt < NumPins
       THEN workerAt' = workerAt + 1 /\ UNCHANGED worker
       ELSE workerAt' = 1 /\ worker' = "exited"
    /\ UNCHANGED <<natural, samples, carry, m_active, m_currentPts>> /\ WorkerOnly

-----------------------------------------------------------------------------
(***************************************************************************)
(* The delivery thread of a pin, and the pin downstream of it.             *)
(***************************************************************************)
ChannelOnly == UNCHANGED <<graphVars, workerVars, m_active, m_hStop, m_currentPts, run>>

\* The thread takes an item, skips one that may not be sent, or empties a queue
\* that is being flushed.
QueueStep(p) ==
    /\ \/ Q!CanTake(chan[p]) /\ chan' = [chan EXCEPT ![p] = Q!Take(@)]
       \/ Q!CanSkip(chan[p]) /\ chan' = [chan EXCEPT ![p] = Q!Skipped(@)]
       \/ /\ chan[p].mode = "flushing" /\ chan[p].pending # <<>>
          /\ chan' = [chan EXCEPT ![p] = Q!Emptied(@)]
    /\ UNCHANGED sink /\ ChannelOnly

\* The downstream pin accepts the item.
SinkAccepts(p) ==
    /\ Q!CanLand(chan[p])
    /\ chan[p].inflight \in Segment \/ ~sink[p].flushing
    /\ chan' = [chan EXCEPT ![p] = Q!Landed(@)]
    /\ LET i == chan[p].inflight IN
       sink' = [sink EXCEPT ![p] =
                   CASE i.kind = "segment" -> [@ EXCEPT !.segment = i.run]
                     [] i.kind = "sample"  -> [@ EXCEPT !.sample = i.run]
                     [] i.kind = "eos"     -> [@ EXCEPT !.eos = IF i.natural THEN "natural"
                                                                ELSE "cut"]]
    /\ ChannelOnly

\* It fails the sample: it is not playing it, or it is stopping or flushing.
SinkFails(p) ==
    /\ Q!CanLand(chan[p]) /\ chan[p].inflight \notin Segment
    /\ chan' = [chan EXCEPT ![p] = Q!Failed(@)]
    /\ UNCHANGED sink /\ ChannelOnly

\* The call on the downstream pin returns.
SinkReturns(p) ==
    /\ chan[p].landed
    /\ chan' = [chan EXCEPT ![p] = Q!Returned(@)]
    /\ UNCHANGED sink /\ ChannelOnly

GraphCall == \/ Pause \/ RunFilter \/ Stop \/ Enable
             \/ \E pos \in Position : SetPositions(pos)
GraphStep == \/ BeginFlush \/ SetSeeking \/ SignalThread \/ JoinThread
             \/ EndFlush \/ Reset \/ Inactive
WorkerStep == \/ SetUp \/ Announce \/ Announcing \/ LoopAsked \/ LoopAtEnd
              \/ LoopPastStop \/ LoopSample \/ Deliver \/ Ending \/ DeferredSample
              \/ DeliverEOS
PinStep(p) == QueueStep(p) \/ SinkAccepts(p) \/ SinkFails(p) \/ SinkReturns(p)

\* The bounds are reached and no call is in progress.
AtRest == graph = Idle /\ (calls = MaxCalls \/ run = MaxRuns) /\ UNCHANGED vars

Next == GraphCall \/ GraphStep \/ WorkerStep \/ AtRest \/ \E p \in Pin : PinStep(p)

Spec == Init /\ [][Next]_vars

(***************************************************************************)
(* The threads run, and the file is finite.  A downstream pin gives a call *)
(* back once it is told to flush, and does not block in NewSegment; while  *)
(* it plays or is paused it may hold a sample for ever.                    *)
(***************************************************************************)
SinkReleases(p) ==
    \/ sink[p].flushing /\ (SinkFails(p) \/ SinkReturns(p))
    \/ chan[p].inflight \in Segment /\ (SinkAccepts(p) \/ SinkReturns(p))

Fairness == /\ WF_vars(GraphStep)
            /\ WF_vars(WorkerStep)
            /\ \A p \in Pin : WF_vars(QueueStep(p)) /\ WF_vars(SinkReleases(p))

FairSpec == Spec /\ Fairness

-----------------------------------------------------------------------------
\* The item lands downstream in this step.
Lands(p) == ~chan[p].landed /\ chan[p]'.landed

(***************************************************************************)
(* A sample that a downstream pin accepts is of the newest run, comes      *)
(* after the new segment of that run on the same pin, and never follows    *)
(* that run's end of stream: after a seek, a stream switch or a stop and a *)
(* restart nothing of the old position is shown.                           *)
(***************************************************************************)
FreshSamplesOnly ==
    [][\A p \in Pin : Lands(p) /\ chan[p].inflight.kind = "sample" =>
          /\ chan[p].inflight.run = run
          /\ sink[p].segment = run
          /\ sink[p].eos = "none"]_vars

(***************************************************************************)
(* A downstream pin is told of the end of the stream only when the run's   *)
(* loop ended by itself: the end of stream that a worker sends because     *)
(* Stop interrupted it is kept from every pin (by the flush in progress).  *)
(***************************************************************************)
EosOnlyAtTheEnd == \A p \in Pin : sink[p].eos # "cut"

(***************************************************************************)
(* The worker uses the pins, the accumulators, the demuxer and the handler *)
(* without a lock, so the graph thread may touch them, end a flush or      *)
(* delete a queue only when there is no worker; there is one at most, and  *)
(* a handle exactly while there is one.  StopThread: "a timeout cannot     *)
(* make either safe to reset or destroy".                                  *)
(***************************************************************************)
WorkerIsAlone ==
    /\ m_hThread <=> worker # "none"
    /\ graph.step \in {"end", "reset", "inactive"} => worker = "none"
    /\ m_State = "Stopped" => worker = "none"

(***************************************************************************)
(* Every call that holds m_pinLock returns, although Stop and the seeks    *)
(* wait for the worker without a timeout and the worker may be waiting for *)
(* a buffer that a paused renderer holds: the flush comes first.           *)
(***************************************************************************)
CallsReturn == graph.step # "idle" ~> graph.step = "idle"

(***************************************************************************)
(* When a run ends by itself, every pin downstream is told, behind all     *)
(* that is queued for it: unless its queue has failed, it never gives the  *)
(* call back that it is holding, or a stop or a seek intervenes.  A player *)
(* would otherwise wait for the end for ever.                              *)
(***************************************************************************)
EndIsTold ==
    \A p \in Pin :
        worker = "exited" /\ natural
            ~> \/ sink[p].eos = "natural" \/ graph.step # "idle"
               \/ chan[p].mode = "broken" \/ [](chan[p].inflight # NoItem)

(***************************************************************************)
(* "Clear demuxer state for normal play; seek path already called          *)
(* resetStreams()" (the comment in DemuxLoop): when the loop starts, the   *)
(* demuxer holds nothing of another run.                                   *)
(***************************************************************************)
StartsClean == worker = "announce" => carry \in {0, run}
=============================================================================
