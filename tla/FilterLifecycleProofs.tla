------------------------ MODULE FilterLifecycleProofs ------------------------
(***************************************************************************)
(* The safety of the filter's threads for every number of pins, calls,     *)
(* runs, samples and buffers.                                              *)
(***************************************************************************)
EXTENDS FilterLifecycle, SequenceTheorems, TLAPS

Step == {"idle", "begin", "seeking", "signal", "join", "end", "reset", "inactive"}
Call == [call : {"none", "Stop", "Seek"}, pos : Position, step : Step]

\* What the graph thread's control needs of types.
ControlTyped ==
    /\ m_State \in {"Stopped", "Paused", "Running"}
    /\ m_hThread \in BOOLEAN
    /\ m_seekTarget \in Position /\ m_currentPts \in Position
    /\ graph \in Call

Alone == ControlTyped /\ WorkerIsAlone

LEMMA AloneInit == Init => Alone
<1> SUFFICES ASSUME Init PROVE Alone
  OBVIOUS
<1>1. m_State = "Stopped" /\ m_hThread = FALSE /\ worker = "none" /\ graph = Idle
  BY DEF Init
<1>2. m_seekTarget \in Position /\ m_currentPts \in Position
  BY NumbersAssumption DEF Init
<1>3. Idle \in Call /\ Idle.step = "idle"
  BY NumbersAssumption DEF Idle, Call, Step
<1> QED
  BY <1>1, <1>2, <1>3 DEF Alone, ControlTyped, WorkerIsAlone

LEMMA AloneNext == Alone /\ [Next]_vars => Alone'
<1> SUFFICES ASSUME Alone, [Next]_vars PROVE Alone'
  OBVIOUS
<1> USE NumbersAssumption DEF Alone, ControlTyped, WorkerIsAlone, Call, Step, Idle
<1>1. CASE UNCHANGED vars
  BY <1>1 DEF vars, graphVars, workerVars
<1>2. CASE GraphCall
  <2>1. CASE Pause
    BY <1>2, <2>1 DEF Pause, Enter, StartThread
  <2>2. CASE RunFilter
    BY <1>2, <2>2 DEF RunFilter, Enter, StartThread
  <2>3. CASE Stop
    BY <2>3 DEF Stop, Enter, workerVars
  <2>4. CASE Enable
    BY <2>4 DEF Enable, SeekTo, Enter, workerVars
  <2>5. ASSUME NEW pos \in Position, SetPositions(pos) PROVE Alone'
    BY <2>5 DEF SetPositions, SeekTo, Enter, workerVars
  <2> QED
    BY <1>2, <2>1, <2>2, <2>3, <2>4, <2>5 DEF GraphCall
<1>3. CASE GraphStep
  <2>1. CASE BeginFlush
    BY <2>1 DEF BeginFlush, workerVars
  <2>2. CASE SetSeeking
    BY <2>2 DEF SetSeeking, workerVars
  <2>3. CASE SignalThread
    BY <2>3 DEF SignalThread, workerVars
  <2>4. CASE JoinThread
    BY <2>4 DEF JoinThread
  <2>5. CASE EndFlush
    BY <2>5 DEF EndFlush, workerVars
  <2>6. CASE Reset
    BY <2>6 DEF Reset, StartThread
  <2>7. CASE Inactive
    BY <2>7 DEF Inactive, workerVars
  <2> QED
    BY <1>3, <2>1, <2>2, <2>3, <2>4, <2>5, <2>6, <2>7 DEF GraphStep
<1>4. CASE WorkerStep
  <2>1. m_currentPts' \in Position
    BY <1>4 DEF WorkerStep, SetUp, Announce, Announcing, LoopAsked, LoopAtEnd,
       LoopPastStop, LoopSample, Deliver, Ending, DeferredSample, DeliverEOS
  <2>2. worker # "none" /\ worker' # "none" /\ UNCHANGED <<m_State, m_hThread, m_seekTarget, graph>>
    BY <1>4 DEF WorkerStep, WorkerOnly, graphVars, SetUp, Announce, Announcing, LoopAsked,
       LoopAtEnd, LoopPastStop, LoopSample, Deliver, Ending, DeferredSample, DeliverEOS
  <2> QED
    BY <2>1, <2>2
<1>5. ASSUME NEW p \in Pin, PinStep(p) PROVE Alone'
  BY <1>5 DEF PinStep, QueueStep, SinkAccepts, SinkFails, SinkReturns, ChannelOnly,
     graphVars, workerVars
<1> QED
  BY <1>1, <1>2, <1>3, <1>4, <1>5 DEF Next, AtRest

(***************************************************************************)
(* The graph thread touches what the worker uses only when there is no     *)
(* worker.                                                                 *)
(***************************************************************************)
THEOREM TheWorkerIsAlone == Spec => []WorkerIsAlone
<1>1. Spec => []Alone
  BY AloneInit, AloneNext, PTL DEF Spec
<1>2. Alone => WorkerIsAlone
  BY DEF Alone
<1> QED
  BY <1>1, <1>2, PTL

-----------------------------------------------------------------------------
(***************************************************************************)
(* The channels.  What one may hold is given by a set of items, so that    *)
(* one lemma serves the types and the end of stream.                       *)
(***************************************************************************)
C == INSTANCE ChannelProofs

\* The lemmas about channels are about the operations of this module.
LEMMA SameChannel ==
    /\ \A ch, i : Q!Queued(ch, i) = C!Queued(ch, i) /\ Q!Accept(ch, i) = C!Accept(ch, i)
    /\ \A ch : /\ Q!CanTake(ch) = C!CanTake(ch) /\ Q!Take(ch) = C!Take(ch)
               /\ Q!Skipped(ch) = C!Skipped(ch) /\ Q!Landed(ch) = C!Landed(ch)
               /\ Q!Returned(ch) = C!Returned(ch) /\ Q!Failed(ch) = C!Failed(ch)
               /\ Q!Emptied(ch) = C!Emptied(ch) /\ Q!BeginFlush(ch) = C!BeginFlush(ch)
               /\ Q!EndFlush(ch) = C!EndFlush(ch)
    /\ Q!Fresh = C!Fresh /\ Q!ChannelType = C!ChannelType
    /\ NoItem \notin Item
BY DEF NoItem, Item, Q!Queued, C!Queued, Q!Accept, C!Accept, Q!CanTake, C!CanTake, Q!Take, C!Take,
   Q!Skipped, C!Skipped, Q!Landed, C!Landed, Q!Returned, C!Returned, Q!Failed, C!Failed,
   Q!Emptied, C!Emptied, Q!BeginFlush, C!BeginFlush, Q!EndFlush, C!EndFlush,
   Q!Fresh, C!Fresh, Q!ChannelType, C!ChannelType

\* The steps of a pin keep what its channel holds within a set and let no flush
\* end; of the other pins they change nothing.
LEMMA PinStepChannels ==
    ASSUME NEW S, chan \in [Pin -> C!ChannelOf(S)], NEW p \in Pin, PinStep(p)
    PROVE  /\ chan' \in [Pin -> C!ChannelOf(S)]
           /\ \A q \in Pin : chan[q].mode = "flushing" => chan'[q].mode = "flushing"
<1>1. CASE QueueStep(p)
  BY <1>1, C!ChannelThread, SameChannel DEF QueueStep
<1>2. CASE SinkAccepts(p)
  BY <1>2, C!ChannelThread, SameChannel DEF SinkAccepts
<1>3. CASE SinkFails(p)
  BY <1>3, C!ChannelThread, SameChannel DEF SinkFails
<1>4. CASE SinkReturns(p)
  BY <1>4, C!ChannelThread, SameChannel DEF SinkReturns
<1> QED
  BY <1>1, <1>2, <1>3, <1>4 DEF PinStep

-----------------------------------------------------------------------------
(***************************************************************************)
(* The types, with where the worker's loop over the pins is and that a     *)
(* call leaves room for the thread it may start.                           *)
(***************************************************************************)
Placed ==
    /\ worker = "announcing" => workerAt \in Pin
    /\ worker \in {"buffer", "eos", "late"} => workerAt \in Pin
    /\ graph.step # "idle" => run < MaxRuns

Typed == TypeOK /\ Placed

LEMMA TypedInit == Init => Typed
<1> SUFFICES ASSUME Init PROVE Typed
  OBVIOUS
<1>1. chan \in [Pin -> Q!ChannelType]
  BY DEF Init, Q!ChannelType, Q!Fresh
<1>2. sink \in [Pin -> [segment : Run, sample : Run, eos : {"none", "natural", "cut"},
                        flushing : BOOLEAN]]
  BY NumbersAssumption DEF Init, NewSink, Run
<1>3. 1 \in Pin /\ 1 \in 1 .. NumPins + 1 /\ 0 \in Run /\ 0 \in 0 .. MaxCalls /\ 0 \in 0 .. MaxSamples
  BY NumbersAssumption DEF Pin, Run
<1>4. graph = Idle /\ Idle.step = "idle" /\ m_seekTarget \in Position /\ m_currentPts \in Position
  BY NumbersAssumption DEF Init, Idle
<1>5. graph \in [call : {"none", "Stop", "Seek"}, pos : Position,
        step : {"idle", "begin", "seeking", "signal", "join", "end", "reset", "inactive"}]
  BY <1>4, NumbersAssumption DEF Idle
<1> QED
  BY <1>1, <1>2, <1>3, <1>4, <1>5 DEF Init, Typed, TypeOK, Placed

\* The variables of the graph thread and the worker, without channels and sinks.
ScalarsTyped ==
    /\ m_State \in {"Stopped", "Paused", "Running"}
    /\ m_hThread \in BOOLEAN /\ m_active \in BOOLEAN /\ m_hStop \in BOOLEAN
    /\ m_isSeeking \in BOOLEAN /\ natural \in BOOLEAN
    /\ m_seekTarget \in Position /\ m_currentPts \in Position
    /\ graph \in Call
    /\ at \in Pin /\ workerAt \in 1 .. NumPins + 1
    /\ worker \in {"none", "setup", "announce", "announcing", "loop", "buffer",
                   "ending", "eos", "late", "exited"}
    /\ run \in Run /\ carry \in Run /\ calls \in 0 .. MaxCalls /\ samples \in 0 .. MaxSamples

SinkType == [segment : Run, sample : Run, eos : {"none", "natural", "cut"}, flushing : BOOLEAN]

PinsTyped == chan \in [Pin -> C!ChannelOf(Item)] /\ sink \in [Pin -> SinkType]

LEMMA TypedParts == Typed <=> ScalarsTyped /\ PinsTyped /\ Placed
BY DEF Typed, TypeOK, ScalarsTyped, PinsTyped, SinkType, Call, Step, C!ChannelOf, C!Mode,
   Q!ChannelType

LEMMA TypedPartsNext == Typed' <=> ScalarsTyped' /\ PinsTyped' /\ Placed'
BY TypedParts, PTL

LEMMA StartThreadTyped ==
    ASSUME ScalarsTyped, Placed, run < MaxRuns, StartThread
    PROVE  /\ m_hThread' \in BOOLEAN /\ m_active' \in BOOLEAN /\ m_hStop' \in BOOLEAN
           /\ natural' \in BOOLEAN /\ workerAt' \in 1 .. NumPins + 1
           /\ worker' \in {worker, "setup"} /\ run' \in Run /\ samples' \in 0 .. MaxSamples
           /\ worker' = "announcing" => workerAt' \in Pin
           /\ worker' \in {"buffer", "eos", "late"} => workerAt' \in Pin
<1>1. CASE m_hThread
  BY <1>1 DEF StartThread, ScalarsTyped, Placed
<1>2. CASE ~m_hThread
  <2>1. /\ m_hThread' = TRUE /\ m_active' = TRUE /\ m_hStop' = FALSE
        /\ worker' = "setup" /\ workerAt' = 1 /\ natural' = FALSE /\ samples' = 0
        /\ run' = run + 1
    BY <1>2 DEF StartThread
  <2>2. run + 1 \in Run /\ 1 \in 1 .. NumPins + 1 /\ 0 \in 0 .. MaxSamples
    BY NumbersAssumption DEF Run, ScalarsTyped
  <2> QED
    BY <2>1, <2>2
<1> QED
  BY <1>1, <1>2

LEMMA ScalarsNext == Typed /\ [Next]_vars => ScalarsTyped' /\ Placed'
<1> SUFFICES ASSUME Typed, [Next]_vars PROVE ScalarsTyped' /\ Placed'
  OBVIOUS
<1>0. ScalarsTyped /\ Placed
  BY TypedParts
<1> HIDE DEF Typed
<1> USE <1>0, NumbersAssumption DEF ScalarsTyped, Placed, Call, Step, Idle, Pin, Run
<1>1. CASE UNCHANGED vars
  BY <1>1 DEF vars, graphVars, workerVars
<1>2. CASE GraphCall
  <2>1. CASE Pause
    BY <2>1, StartThreadTyped DEF Pause, Enter
  <2>2. CASE RunFilter
    BY <2>2, StartThreadTyped DEF RunFilter, Enter
  <2>3. CASE Stop
    BY <2>3 DEF Stop, Enter, workerVars
  <2>4. CASE Enable
    BY <2>4 DEF Enable, SeekTo, Enter, workerVars
  <2>5. ASSUME NEW pos \in Position, SetPositions(pos) PROVE ScalarsTyped' /\ Placed'
    BY <2>5 DEF SetPositions, SeekTo, Enter, workerVars
  <2> QED
    BY <1>2, <2>1, <2>2, <2>3, <2>4, <2>5 DEF GraphCall
<1>3. CASE GraphStep
  <2>1. CASE BeginFlush
    BY <2>1 DEF BeginFlush, workerVars
  <2>2. CASE SetSeeking
    BY <2>2 DEF SetSeeking, workerVars
  <2>3. CASE SignalThread
    BY <2>3 DEF SignalThread, workerVars
  <2>4. CASE JoinThread
    BY <2>4 DEF JoinThread
  <2>5. CASE EndFlush
    BY <2>5 DEF EndFlush, workerVars
  <2>6. CASE Reset
    BY <2>6, StartThreadTyped DEF Reset
  <2>7. CASE Inactive
    BY <2>7 DEF Inactive, workerVars
  <2> QED
    BY <1>3, <2>1, <2>2, <2>3, <2>4, <2>5, <2>6, <2>7 DEF GraphStep
<1>4. CASE WorkerStep
  <2> USE DEF WorkerOnly, graphVars
  <2>1. CASE SetUp
    BY <2>1 DEF SetUp
  <2>2. CASE Announce
    BY <2>2 DEF Announce
  <2>3. CASE Announcing
    BY <2>3 DEF Announcing
  <2>4. CASE LoopAsked \/ LoopAtEnd \/ LoopPastStop
    BY <2>4 DEF LoopAsked, LoopAtEnd, LoopPastStop
  <2>5. CASE LoopSample
    BY <2>5 DEF LoopSample
  <2>6. CASE Deliver
    BY <2>6 DEF Deliver
  <2>7. CASE Ending
    BY <2>7 DEF Ending
  <2>8. CASE DeliverEOS
    BY <2>8 DEF DeliverEOS
  <2>9. CASE DeferredSample
    BY <2>9 DEF DeferredSample
  <2> QED
    BY <1>4, <2>1, <2>2, <2>3, <2>4, <2>5, <2>6, <2>7, <2>8, <2>9 DEF WorkerStep
<1>5. ASSUME NEW p \in Pin, PinStep(p) PROVE ScalarsTyped' /\ Placed'
  BY <1>5 DEF PinStep, QueueStep, SinkAccepts, SinkFails, SinkReturns, ChannelOnly,
     graphVars, workerVars
<1> QED
  BY <1>1, <1>2, <1>3, <1>4, <1>5 DEF Next, AtRest

\* What the channels hold stays within a set if what the worker may add does.
LEMMA ChannelsNext ==
    ASSUME NEW S, chan \in [Pin -> C!ChannelOf(S)], Typed, [Next]_vars,
           [kind |-> "segment", run |-> run] \in S, [kind |-> "sample", run |-> run] \in S,
           worker = "eos" => \/ [kind |-> "eos", run |-> run, natural |-> natural] \in S
                             \/ chan[workerAt].mode # "open"
    PROVE  chan' \in [Pin -> C!ChannelOf(S)]
<1> USE DEF Typed, Placed
<1>1. CASE UNCHANGED vars
  BY <1>1 DEF vars
<1>2. CASE GraphCall
  BY <1>2, C!ChannelControl, SameChannel DEF GraphCall, Pause, RunFilter, Stop, Enable, SetPositions, SeekTo
<1>3. CASE GraphStep
  <2>1. CASE BeginFlush
    BY <2>1, C!ChannelControl, SameChannel DEF BeginFlush, TypeOK
  <2>2. CASE EndFlush
    BY <2>2, C!ChannelControl, SameChannel DEF EndFlush, TypeOK
  <2>3. CASE Inactive
    BY <2>3, C!ChannelControl, SameChannel DEF Inactive
  <2>4. CASE SetSeeking \/ SignalThread \/ JoinThread \/ Reset
    BY <2>4 DEF SetSeeking, SignalThread, JoinThread, Reset
  <2> QED
    BY <1>3, <2>1, <2>2, <2>3, <2>4 DEF GraphStep
<1>4. CASE WorkerStep
  <2>1. CASE Announcing
    BY <2>1, C!ChannelProducers, SameChannel DEF Announcing
  <2>2. CASE Deliver
    BY <2>2, C!ChannelProducers, SameChannel DEF Deliver
  <2>3. CASE DeliverEOS
    <3>1. CASE chan[workerAt].mode = "open"
      BY <2>3, <3>1, C!ChannelProducers, SameChannel DEF DeliverEOS
    <3>2. CASE chan[workerAt].mode # "open"
      BY <2>3, <3>2 DEF DeliverEOS, Q!Accept
    <3> QED
      BY <3>1, <3>2
  <2>4. CASE SetUp \/ Announce \/ LoopAsked \/ LoopAtEnd \/ LoopPastStop \/ LoopSample \/ Ending
             \/ DeferredSample
    BY <2>4 DEF SetUp, Announce, LoopAsked, LoopAtEnd, LoopPastStop, LoopSample, Ending,
       DeferredSample
  <2> QED
    BY <1>4, <2>1, <2>2, <2>3, <2>4 DEF WorkerStep
<1>5. ASSUME NEW p \in Pin, PinStep(p) PROVE chan' \in [Pin -> C!ChannelOf(S)]
  BY <1>5, PinStepChannels
<1> QED
  BY <1>1, <1>2, <1>3, <1>4, <1>5 DEF Next, AtRest, vars

\* Only the downstream pins and the flushes change what they have seen.
LEMMA SinksNext == Typed /\ [Next]_vars => sink' \in [Pin -> SinkType]
<1> SUFFICES ASSUME Typed, [Next]_vars PROVE sink' \in [Pin -> SinkType]
  OBVIOUS
<1>0. sink \in [Pin -> SinkType] /\ chan \in [Pin -> C!ChannelOf(Item)] /\ at \in Pin
  BY TypedParts DEF PinsTyped, ScalarsTyped
<1>1. NewSink \in SinkType
  BY NumbersAssumption DEF NewSink, SinkType, Run
<1>2. CASE UNCHANGED sink
  BY <1>0, <1>2
<1>3. CASE Pause
  BY <1>0, <1>1, <1>3 DEF Pause
<1>4. CASE BeginFlush
  BY <1>0, <1>4 DEF BeginFlush, SinkType
<1>6. CASE EndFlush
  <2>1. [NewSink EXCEPT !.segment = sink[at].segment] \in SinkType
    BY <1>0, <1>1 DEF SinkType
  <2> QED
    BY <1>0, <1>6, <2>1 DEF EndFlush
<1>5. ASSUME NEW p \in Pin, SinkAccepts(p) PROVE sink' \in [Pin -> SinkType]
  <2>1. chan[p].inflight \in Item /\ sink[p] \in SinkType
    BY <1>0, <1>5 DEF SinkAccepts, Q!CanLand, C!ChannelOf
  <2>2. PICK s : sink' = [sink EXCEPT ![p] = s]
        /\ \/ s = [sink[p] EXCEPT !.segment = chan[p].inflight.run]
           \/ s = [sink[p] EXCEPT !.sample = chan[p].inflight.run]
           \/ s = [sink[p] EXCEPT !.eos = "natural"]
           \/ s = [sink[p] EXCEPT !.eos = "cut"]
    <3> DEFINE i == chan[p].inflight
    <3>1. CASE i.kind = "segment"
      BY <1>5, <3>1 DEF SinkAccepts
    <3>2. CASE i.kind = "sample"
      BY <1>5, <3>2 DEF SinkAccepts
    <3>3. CASE i.kind = "eos"
      BY <1>5, <3>3 DEF SinkAccepts
    <3> QED
      BY <2>1, <3>1, <3>2, <3>3 DEF Item
  <2>3. chan[p].inflight.run \in Run
    BY <2>1 DEF Item
  <2> QED
    BY <1>0, <2>1, <2>2, <2>3 DEF SinkType
<1> QED
  BY <1>2, <1>3, <1>4, <1>5, <1>6 DEF Next, AtRest, vars, GraphCall, RunFilter, Stop, Enable,
     SetPositions, SeekTo, GraphStep, SetSeeking, SignalThread, JoinThread, Reset, Inactive,
     WorkerStep, WorkerOnly, SetUp, Announce, Announcing, LoopAsked, LoopAtEnd, LoopPastStop,
     LoopSample, Deliver, Ending, DeferredSample, DeliverEOS, PinStep, QueueStep, SinkFails, SinkReturns

LEMMA TypedNext == Typed /\ [Next]_vars => Typed'
<1> SUFFICES ASSUME Typed, [Next]_vars PROVE Typed'
  OBVIOUS
<1>1. chan \in [Pin -> C!ChannelOf(Item)] /\ run \in Run /\ natural \in BOOLEAN
  BY TypedParts DEF PinsTyped, ScalarsTyped
<1>2. /\ [kind |-> "segment", run |-> run] \in Item /\ [kind |-> "sample", run |-> run] \in Item
      /\ [kind |-> "eos", run |-> run, natural |-> natural] \in Item
  BY <1>1 DEF Item
<1> QED
  BY <1>1, <1>2, ChannelsNext, SinksNext, ScalarsNext, TypedPartsNext DEF PinsTyped

(***************************************************************************)
(* Every variable of the filter, its queues and its worker keeps its type. *)
(***************************************************************************)
THEOREM TypeCorrect == Spec => []TypeOK
<1>1. Spec => []Typed
  BY TypedInit, TypedNext, PTL DEF Spec
<1>2. Typed => TypeOK
  BY DEF Typed
<1> QED
  BY <1>1, <1>2, PTL

-----------------------------------------------------------------------------
(***************************************************************************)
(* No end of stream of an interrupted run reaches a pin downstream.  Such  *)
(* a run is only found between the signal to its worker and the join, when *)
(* every pin has been told to flush; so the channels never hold one.       *)
(***************************************************************************)
\* Every pin that the loop of BeginFlush has passed is flushing, and all of
\* them until the worker is joined.
FlushedPins ==
    /\ graph.step = "begin" =>
          m_State # "Stopped" /\ \A p \in Pin : p < at => chan[p].mode = "flushing"
    /\ graph.step \in {"seeking", "signal", "join"} /\ m_State # "Stopped" =>
          \A p \in Pin : chan[p].mode = "flushing"

\* A worker ends otherwise than by itself only when StopThread waits for it.
Interrupted ==
    ~natural /\ worker # "none" /\ (~m_active \/ m_hStop \/ worker \in {"ending", "eos", "late"})
        => graph.step = "join"

\* The items that a channel may hold.
Whole == {i \in Item : i.kind = "eos" => i.natural = TRUE}

WholeChannels == chan \in [Pin -> C!ChannelOf(Whole)]

Ended == FlushedPins /\ Interrupted /\ WholeChannels /\ EosOnlyAtTheEnd

LEMMA EndedInit == Init => Ended
<1> SUFFICES ASSUME Init PROVE Ended
  OBVIOUS
<1>1. WholeChannels
  BY DEF Init, WholeChannels, C!ChannelOf, C!Mode, Q!Fresh
<1>2. FlushedPins /\ Interrupted /\ EosOnlyAtTheEnd
  BY DEF Init, FlushedPins, Interrupted, EosOnlyAtTheEnd, NewSink, Idle
<1> QED
  BY <1>1, <1>2 DEF Ended

LEMMA InterruptedNext == Typed /\ Alone /\ Interrupted /\ [Next]_vars => Interrupted'
<1> SUFFICES ASSUME ScalarsTyped, Alone, Interrupted, [Next]_vars PROVE Interrupted'
  BY TypedParts
<1> USE DEF Interrupted, ScalarsTyped, Call, Step
<1>1. CASE UNCHANGED vars
  BY <1>1 DEF vars, graphVars, workerVars
<1>2. CASE GraphCall
  <2>1. graph.step = "idle"
    BY <1>2 DEF GraphCall, Pause, RunFilter, Stop, Enable, SetPositions, Enter, Idle
  <2>2. CASE Pause \/ RunFilter
    BY <2>1, <2>2 DEF Pause, RunFilter, StartThread
  <2>3. CASE Stop \/ Enable \/ \E pos \in Position : SetPositions(pos)
    BY <2>1, <2>3 DEF Stop, Enable, SetPositions, SeekTo, workerVars
  <2> QED
    BY <1>2, <2>2, <2>3 DEF GraphCall
<1>3. CASE GraphStep
  <2>1. CASE BeginFlush \/ SetSeeking \/ EndFlush \/ Inactive
    BY <2>1 DEF BeginFlush, SetSeeking, EndFlush, Inactive, workerVars
  <2>2. CASE SignalThread
    BY <2>2 DEF SignalThread
  <2>3. CASE JoinThread
    BY <2>3 DEF JoinThread
  <2>4. CASE Reset
    BY <2>4 DEF Reset, StartThread
  <2> QED
    BY <1>3, <2>1, <2>2, <2>3, <2>4 DEF GraphStep
<1>4. CASE WorkerStep
  BY <1>4 DEF WorkerStep, WorkerOnly, graphVars, SetUp, Announce, Announcing, LoopAsked,
     LoopAtEnd, LoopPastStop, LoopSample, Deliver, Ending, DeferredSample, DeliverEOS
<1>5. ASSUME NEW p \in Pin, PinStep(p) PROVE Interrupted'
  BY <1>5 DEF PinStep, QueueStep, SinkAccepts, SinkFails, SinkReturns, ChannelOnly,
     graphVars, workerVars
<1> QED
  BY <1>1, <1>2, <1>3, <1>4, <1>5 DEF Next, AtRest

\* The worker and the pins leave a channel that is being flushed that way.
LEMMA FlushStays ==
    ASSUME Typed, WorkerStep \/ \E q \in Pin : PinStep(q),
           NEW p \in Pin, chan[p].mode = "flushing"
    PROVE  chan'[p].mode = "flushing"
<1>0. chan \in [Pin -> C!ChannelOf(Item)] /\ (worker \in {"announcing", "buffer", "eos", "late"} => workerAt \in Pin)
  BY TypedParts DEF PinsTyped, Placed
<1>1. CASE \E q \in Pin : PinStep(q)
  BY <1>0, <1>1, PinStepChannels
<1>2. CASE WorkerStep
  <2>1. ASSUME NEW q \in Pin, NEW ch, ch.mode = chan[q].mode, chan' = [chan EXCEPT ![q] = ch]
        PROVE  chan'[p].mode = "flushing"
    BY <1>0, <2>1
  <2>2. CASE Announcing
    BY <1>0, <2>1, <2>2 DEF Announcing, Q!Queued, C!ChannelOf
  <2>3. CASE Deliver
    BY <1>0, <2>1, <2>3 DEF Deliver, Q!Accept, Q!Queued, C!ChannelOf
  <2>4. CASE DeliverEOS
    BY <1>0, <2>1, <2>4 DEF DeliverEOS, Q!Accept, Q!Queued, C!ChannelOf
  <2>5. CASE SetUp \/ Announce \/ LoopAsked \/ LoopAtEnd \/ LoopPastStop \/ LoopSample \/ Ending
             \/ DeferredSample
    BY <2>5 DEF SetUp, Announce, LoopAsked, LoopAtEnd, LoopPastStop, LoopSample, Ending,
       DeferredSample
  <2> QED
    BY <1>2, <2>2, <2>3, <2>4, <2>5 DEF WorkerStep
<1> QED
  BY <1>1, <1>2

LEMMA FlushedPinsNext == Typed /\ FlushedPins /\ [Next]_vars => FlushedPins'
<1> SUFFICES ASSUME Typed, FlushedPins, [Next]_vars PROVE FlushedPins'
  OBVIOUS
<1>0. chan \in [Pin -> C!ChannelOf(Item)] /\ at \in Pin /\ graph \in Call
  BY TypedParts DEF PinsTyped, ScalarsTyped
<1> USE DEF FlushedPins
<1>1. CASE UNCHANGED vars
  BY <1>1 DEF vars, graphVars
<1>2. CASE GraphCall
  <2>1. graph.step = "idle"
    BY <1>2 DEF GraphCall, Pause, RunFilter, Stop, Enable, SetPositions, Enter, Idle
  <2>2. CASE UNCHANGED graph
    BY <2>1, <2>2
  <2>3. CASE /\ graph'.step = IF m_State = "Stopped" THEN "seeking" ELSE "begin"
             /\ at' = 1 /\ UNCHANGED m_State
    BY <2>3 DEF Pin
  <2> QED
    BY <1>2, <2>2, <2>3 DEF GraphCall, Pause, RunFilter, Stop, Enable, SetPositions, SeekTo
<1>3. CASE GraphStep
  <2>1. CASE BeginFlush
    <3>1. /\ m_State # "Stopped" /\ UNCHANGED m_State
          /\ \A p \in Pin : p < at => chan[p].mode = "flushing"
          /\ chan' = [chan EXCEPT ![at] = Q!BeginFlush(chan[at])]
      BY <2>1 DEF BeginFlush
    <3>2. \A p \in Pin : p <= at => chan'[p].mode = "flushing"
      BY <1>0, <3>1, C!ChannelControl, SameChannel DEF Pin
    <3>3. CASE at < NumPins
      BY <1>0, <2>1, <3>1, <3>2, <3>3 DEF BeginFlush, Pin
    <3>4. CASE ~(at < NumPins)
      BY <1>0, <2>1, <3>1, <3>2, <3>4, NumbersAssumption DEF BeginFlush, Pin, Call
    <3> QED
      BY <3>3, <3>4
  <2>2. CASE SetSeeking \/ SignalThread
    BY <1>0, <2>2 DEF SetSeeking, SignalThread, Call
  <2>3. CASE JoinThread \/ Inactive \/ Reset \/ EndFlush
    BY <1>0, <2>3 DEF JoinThread, Inactive, Reset, EndFlush, Call, Idle
  <2> QED
    BY <1>3, <2>1, <2>2, <2>3 DEF GraphStep
<1>4. CASE WorkerStep \/ \E p \in Pin : PinStep(p)
  <2>1. UNCHANGED <<graph, m_State, at>>
    BY <1>4 DEF WorkerStep, WorkerOnly, graphVars, SetUp, Announce, Announcing, LoopAsked,
       LoopAtEnd, LoopPastStop, LoopSample, Deliver, Ending, DeferredSample, DeliverEOS,
       PinStep, QueueStep, SinkAccepts, SinkFails, SinkReturns, ChannelOnly
  <2> QED
    BY <1>4, <2>1, FlushStays
<1> QED
  BY <1>1, <1>2, <1>3, <1>4 DEF Next, AtRest

\* The end of stream of an interrupted run finds its queue flushing.
LEMMA WholeChannelsNext == Typed /\ Alone /\ Ended /\ [Next]_vars => WholeChannels'
<1> SUFFICES ASSUME Typed, Alone, Ended, [Next]_vars PROVE WholeChannels'
  OBVIOUS
<1>1. run \in Run /\ natural \in BOOLEAN /\ (worker = "eos" => workerAt \in Pin)
  BY TypedParts DEF ScalarsTyped, Placed
<1>2. [kind |-> "segment", run |-> run] \in Whole /\ [kind |-> "sample", run |-> run] \in Whole
  BY <1>1 DEF Whole, Item
<1>3. CASE natural
  <2>1. [kind |-> "eos", run |-> run, natural |-> natural] \in Whole
    BY <1>1, <1>3 DEF Whole, Item
  <2> QED
    BY <1>2, <2>1, ChannelsNext DEF WholeChannels, Ended
<1>4. CASE ~natural
  <2>1. worker = "eos" => graph.step = "join" /\ m_State # "Stopped"
    BY <1>4 DEF Ended, Interrupted, Alone, WorkerIsAlone
  <2>2. worker = "eos" => chan[workerAt].mode # "open"
    BY <1>1, <2>1 DEF Ended, FlushedPins
  <2> QED
    BY <1>2, <2>2, ChannelsNext DEF WholeChannels, Ended
<1> QED
  BY <1>3, <1>4

LEMMA EosNext == Typed /\ Ended /\ [Next]_vars => EosOnlyAtTheEnd'
<1> SUFFICES ASSUME Typed, Ended, [Next]_vars PROVE EosOnlyAtTheEnd'
  OBVIOUS
<1>0. sink \in [Pin -> SinkType] /\ at \in Pin
  BY TypedParts DEF PinsTyped, ScalarsTyped
<1> USE DEF EosOnlyAtTheEnd, Ended
<1>1. CASE UNCHANGED sink
  BY <1>1
<1>2. CASE Pause
  BY <1>0, <1>2 DEF Pause, NewSink
<1>3. CASE BeginFlush
  BY <1>0, <1>3 DEF BeginFlush, SinkType
<1>4. CASE EndFlush
  BY <1>0, <1>4 DEF EndFlush, NewSink, SinkType
<1>5. ASSUME NEW p \in Pin, SinkAccepts(p) PROVE EosOnlyAtTheEnd'
  <2> DEFINE i == chan[p].inflight
  <2>1. i \in Whole
    BY <1>5 DEF SinkAccepts, Q!CanLand, WholeChannels, C!ChannelOf
  <2>2. CASE i.kind = "segment"
    BY <1>0, <1>5, <2>2 DEF SinkAccepts, SinkType
  <2>3. CASE i.kind = "sample"
    BY <1>0, <1>5, <2>3 DEF SinkAccepts, SinkType
  <2>4. CASE i.kind = "eos"
    <3>1. i.natural = TRUE
      BY <2>1, <2>4 DEF Whole
    <3>2. sink' = [sink EXCEPT ![p] = [@ EXCEPT !.eos = "natural"]]
      BY <1>5, <2>4, <3>1 DEF SinkAccepts
    <3> QED
      BY <1>0, <3>2 DEF SinkType
  <2> QED
    BY <2>1, <2>2, <2>3, <2>4 DEF Whole, Item
<1> QED
  BY <1>1, <1>2, <1>3, <1>4, <1>5 DEF Next, AtRest, vars, GraphCall, RunFilter, Stop, Enable,
     SetPositions, SeekTo, GraphStep, SetSeeking, SignalThread, JoinThread, Reset, Inactive,
     WorkerStep, WorkerOnly, SetUp, Announce, Announcing, LoopAsked, LoopAtEnd, LoopPastStop,
     LoopSample, Deliver, Ending, DeferredSample, DeliverEOS, PinStep, QueueStep, SinkFails, SinkReturns

(***************************************************************************)
(* A downstream pin is told of the end of the stream only when the run's   *)
(* loop ended by itself, and never because Stop interrupted the worker.    *)
(***************************************************************************)
THEOREM EosIsNatural == Spec => []EosOnlyAtTheEnd
<1>1. Init => Typed /\ Alone /\ Ended
  BY TypedInit, AloneInit, EndedInit
<1>2. Typed /\ Alone /\ Ended /\ [Next]_vars => (Typed /\ Alone /\ Ended)'
  <2>1. Typed /\ Alone /\ Ended /\ [Next]_vars => Ended'
    BY FlushedPinsNext, InterruptedNext, WholeChannelsNext, EosNext DEF Ended
  <2> QED
    BY <2>1, TypedNext, AloneNext
<1>3. Ended => EosOnlyAtTheEnd
  BY DEF Ended
<1> QED
  BY <1>1, <1>2, <1>3, PTL DEF Spec

-----------------------------------------------------------------------------
(***************************************************************************)
(* Nothing of an old position is shown.  The argument is about what a      *)
(* channel and the pin behind it hold together: the line of items that     *)
(* have not been given back, oldest first, and the segment and the end of  *)
(* stream that the downstream pin has seen.                                *)
(***************************************************************************)
Mark(r) == [kind |-> "segment", run |-> r]

NoMedia(L) == \A n \in DOMAIN L : L[n].kind = "segment"

\* The downstream pin has, or gets before anything queued now, the segment of run r.
Led(L, seg, r) == seg = r \/ \E n \in DOMAIN L : L[n] = Mark(r)

\* The runs in a line never decrease, and none is older than the segment the
\* downstream pin has; media is of the run in progress and behind its segment;
\* nothing follows an end of stream.
InOrder(L, seg, eos, r) ==
    /\ seg <= r
    /\ \A n \in DOMAIN L : seg <= L[n].run /\ L[n].run <= r
    /\ \A m, n \in DOMAIN L : m <= n => L[m].run <= L[n].run
    /\ \A n \in DOMAIN L : L[n].kind # "segment" =>
          L[n].run = r /\ (seg = r \/ \E m \in DOMAIN L : m < n /\ L[m] = Mark(r))
    /\ \A n \in DOMAIN L : L[n].kind = "eos" => n = Len(L)
    /\ eos # "none" => \A n \in DOMAIN L : L[n].kind # "sample"

-----------------------------------------------------------------------------
(***************************************************************************)
(* Lines as sequences.                                                     *)
(***************************************************************************)
LEMMA ItemFacts ==
    /\ NoItem \notin Item
    /\ \A i \in Item : i.run \in Nat /\ i.kind \in {"sample", "segment", "eos"}
                       /\ (i \in Segment <=> i.kind = "segment")
                       /\ (i.kind = "segment" => i = Mark(i.run))
<1>1. NoItem \notin Item
  BY DEF NoItem, Item
<1>2. ASSUME NEW i \in Item
      PROVE  /\ i.run \in Run /\ i.kind \in {"sample", "segment", "eos"}
             /\ i \in Segment <=> i.kind = "segment"
             /\ i.kind = "segment" => i = Mark(i.run)
  BY <1>2 DEF Item, Segment, Mark
<1> QED
  BY <1>1, <1>2 DEF Run

LEMMA LineDrained ==
    ASSUME NEW ch \in C!ChannelOf(Item), Q!Drained(ch)
    PROVE  NoMedia(C!Line(ch))
<1>1. ch.inflight \in Segment \cup {NoItem} /\ ch.pending \in Seq(Item)
      /\ \A n \in DOMAIN ch.pending : ch.pending[n].kind = "segment"
  BY DEF Q!Drained, C!ChannelOf, Segment
<1>2. CASE ch.inflight = NoItem
  BY <1>1, <1>2, C!LineShape, SameChannel DEF NoMedia
<1>3. CASE ch.inflight # NoItem
  <2>1. ch.inflight.kind = "segment"
    BY <1>1, <1>3 DEF Segment
  <2>2. ASSUME NEW n \in DOMAIN C!Line(ch) PROVE C!Line(ch)[n].kind = "segment"
    <3>1. n \in 1 .. Len(ch.pending) + 1
      BY <1>3, <2>2, C!LineShape, SameChannel
    <3>2. CASE n = 1
      BY <1>3, <2>1, <3>2, C!LineShape, SameChannel
    <3>3. CASE n # 1
      <4>1. n - 1 \in 1 .. Len(ch.pending) /\ n = (n - 1) + 1
        BY <1>1, <3>1, <3>3
      <4>2. C!Line(ch)[n] = ch.pending[n - 1]
        BY <1>3, <4>1, C!LineShape, SameChannel
      <4> QED
        BY <1>1, <4>1, <4>2
    <3> QED
      BY <3>2, <3>3
  <2> QED
    BY <2>2 DEF NoMedia
<1> QED
  BY <1>2, <1>3

-----------------------------------------------------------------------------
(***************************************************************************)
(* What the steps do to a line in order.                                   *)
(***************************************************************************)
LEMMA InOrderTail ==
    ASSUME NEW L \in Seq(Item), L # <<>>, NEW seg \in Nat, NEW eos, NEW r \in Nat,
           InOrder(L, seg, eos, r), L[1].kind = "segment" => seg = L[1].run
    PROVE  InOrder(Tail(L), seg, eos, r) /\ (Led(L, seg, r) => Led(Tail(L), seg, r))
           /\ \A n \in DOMAIN Tail(L) : n + 1 \in DOMAIN L /\ Tail(L)[n] = L[n + 1]
<1> DEFINE T == Tail(L)
<1>1. /\ T \in Seq(Item) /\ Len(T) = Len(L) - 1 /\ Len(L) \in Nat /\ Len(L) > 0
      /\ \A n \in DOMAIN T : n + 1 \in DOMAIN L /\ T[n] = L[n + 1]
      /\ \A n \in DOMAIN L : n # 1 => n - 1 \in DOMAIN T /\ L[n] = T[n - 1]
  BY HeadTailProperties
<1>2. \A n \in DOMAIN L : L[n] = Mark(r) => seg = r \/ n # 1
  BY DEF Mark
<1> HIDE DEF T
<1>3. Led(L, seg, r) => Led(T, seg, r)
  BY <1>1, <1>2 DEF Led
<1>4. \A n \in DOMAIN T : T[n].kind # "segment" =>
          T[n].run = r /\ (seg = r \/ \E m \in DOMAIN T : m < n /\ T[m] = Mark(r))
  <2> SUFFICES ASSUME NEW n \in DOMAIN T, T[n].kind # "segment", seg # r
               PROVE  T[n].run = r /\ \E m \in DOMAIN T : m < n /\ T[m] = Mark(r)
    BY <1>1 DEF InOrder
  <2>1. PICK m \in DOMAIN L : m < n + 1 /\ L[m] = Mark(r)
    BY <1>1 DEF InOrder
  <2>2. m - 1 \in DOMAIN T /\ T[m - 1] = Mark(r) /\ m - 1 < n
    BY <1>1, <1>2, <2>1
  <2> QED
    BY <1>1, <2>2 DEF InOrder
<1>5. \A n \in DOMAIN T : seg <= T[n].run /\ T[n].run <= r
  BY <1>1 DEF InOrder
<1>6. \A m, n \in DOMAIN T : m <= n => T[m].run <= T[n].run
  BY <1>1 DEF InOrder
<1>7. /\ \A n \in DOMAIN T : T[n].kind = "eos" => n = Len(T)
      /\ eos # "none" => \A n \in DOMAIN T : T[n].kind # "sample"
  BY <1>1 DEF InOrder
<1> QED
  BY <1>1, <1>3, <1>4, <1>5, <1>6, <1>7 DEF InOrder, T

LEMMA InOrderAppend ==
    ASSUME NEW L \in Seq(Item), NEW i \in Item, NEW seg \in Nat, NEW eos, NEW r \in Nat,
           InOrder(L, seg, eos, r), i.run = r,
           \A n \in DOMAIN L : L[n].kind # "eos",
           i.kind # "segment" => Led(L, seg, r),
           i.kind = "sample" => eos = "none"
    PROVE  InOrder(Append(L, i), seg, eos, r)
<1> DEFINE A == Append(L, i)
<1>1. /\ A \in Seq(Item) /\ Len(A) = Len(L) + 1 /\ Len(L) \in Nat
      /\ \A n \in DOMAIN L : n \in DOMAIN A /\ A[n] = L[n] /\ n < Len(A)
      /\ A[Len(A)] = i
      /\ \A n \in DOMAIN A : n \in DOMAIN L \/ n = Len(A)
  BY AppendProperties
<1> HIDE DEF A
<1>2. \A n \in DOMAIN A : seg <= A[n].run /\ A[n].run <= r
  BY <1>1 DEF InOrder
<1>3. \A m, n \in DOMAIN A : m <= n => A[m].run <= A[n].run
  BY <1>1 DEF InOrder
<1>4. \A n \in DOMAIN A : A[n].kind # "segment" =>
          A[n].run = r /\ (seg = r \/ \E m \in DOMAIN A : m < n /\ A[m] = Mark(r))
  <2> SUFFICES ASSUME NEW n \in DOMAIN A, A[n].kind # "segment"
               PROVE  A[n].run = r /\ (seg = r \/ \E m \in DOMAIN A : m < n /\ A[m] = Mark(r))
    OBVIOUS
  <2>1. CASE n \in DOMAIN L
    BY <1>1, <2>1 DEF InOrder
  <2>2. CASE n = Len(A)
    BY <1>1, <2>2 DEF Led
  <2> QED
    BY <1>1, <2>1, <2>2
<1>5. /\ \A n \in DOMAIN A : A[n].kind = "eos" => n = Len(A)
      /\ eos # "none" => \A n \in DOMAIN A : A[n].kind # "sample"
  BY <1>1 DEF InOrder
<1> QED
  BY <1>2, <1>3, <1>4, <1>5 DEF InOrder, A

\* A line without media is in order in the next run too.
LEMMA InOrderSegments ==
    ASSUME NEW L \in Seq(Item), NEW seg \in Nat, NEW eos, NEW eos2, NEW r \in Nat, NEW r2 \in Nat,
           InOrder(L, seg, eos, r), NoMedia(L), r <= r2
    PROVE  InOrder(L, seg, eos2, r2)
<1>1. \A n \in DOMAIN L : L[n].run \in Nat /\ L[n].kind = "segment"
  BY ItemFacts DEF NoMedia
<1> QED
  BY <1>1 DEF InOrder

LEMMA InOrderEmpty ==
    ASSUME NEW seg \in Nat, NEW eos, NEW r \in Nat, seg <= r
    PROVE  InOrder(<<>>, seg, eos, r)
BY DEF InOrder

\* Only the first item is left, and the downstream pin has what came before it.
LEMMA InOrderFirst ==
    ASSUME NEW L \in Seq(Item), L # <<>>, NEW seg \in Nat, NEW eos, NEW r \in Nat,
           InOrder(L, seg, eos, r)
    PROVE  InOrder(<<L[1]>>, seg, eos, r)
<1> DEFINE F == <<L[1]>>
<1>1. F[1] = L[1] /\ Len(F) = 1 /\ DOMAIN F = {1} /\ 1 \in DOMAIN L
  OBVIOUS
<1> HIDE DEF F
<1>2. L[1].kind # "segment" => L[1].run = r /\ seg = r
  BY <1>1 DEF InOrder
<1>3. L[1].run <= L[1].run
  BY <1>1 DEF InOrder
<1>4. \A n \in DOMAIN F : n = 1
  BY <1>1
<1> QED
  BY <1>1, <1>2, <1>3, <1>4 DEF InOrder, F

\* The first item of a line lands.
LEMMA InOrderLands ==
    ASSUME NEW L \in Seq(Item), L # <<>>, NEW seg \in Nat, NEW eos, NEW r \in Nat,
           InOrder(L, seg, eos, r)
    PROVE  /\ L[1].kind = "segment" => InOrder(L, L[1].run, eos, r)
                 /\ (Led(L, seg, r) => Led(L, L[1].run, r))
           /\ L[1].kind = "eos" => \A n \in DOMAIN L : L[n].kind = "eos"
           /\ L[1].kind = "sample" => seg = r /\ L[1].run = r /\ eos = "none"
<1>1. 1 \in DOMAIN L /\ \A n \in DOMAIN L : 1 <= n /\ n <= Len(L)
  OBVIOUS
<1>2. \A n \in DOMAIN L : L[n].run \in Nat
  BY ItemFacts
<1>3. ASSUME L[1].kind = "segment"
      PROVE  InOrder(L, L[1].run, eos, r) /\ (Led(L, seg, r) => Led(L, L[1].run, r))
  <2>1. \A n \in DOMAIN L : L[1].run <= L[n].run /\ L[n].run <= r
    BY <1>1 DEF InOrder
  <2>2. seg = r => L[1].run = r
    BY <1>1, <1>2 DEF InOrder
  <2> QED
    BY <1>1, <1>2, <1>3, <2>1, <2>2 DEF InOrder, Led
<1>4. ASSUME L[1].kind = "eos" PROVE \A n \in DOMAIN L : L[n].kind = "eos"
  BY <1>1, <1>4 DEF InOrder
<1>5. ASSUME L[1].kind = "sample" PROVE seg = r /\ L[1].run = r /\ eos = "none"
  BY <1>1, <1>5 DEF InOrder
<1> QED
  BY <1>3, <1>4, <1>5

-----------------------------------------------------------------------------
(***************************************************************************)
(* The inductive invariant.                                                *)
(***************************************************************************)
\* An active filter has a worker until StopThread has joined it, and the loops
\* over the pins begin at the first.
Threaded ==
    /\ m_State # "Stopped" /\ graph.step \notin {"end", "reset", "inactive"} => worker # "none"
    /\ graph.step \in {"seeking", "signal", "join"} => at = 1

\* The worker has not come to the media of a pin, or, before the next worker
\* starts, the pin's flush has ended.
NotYet(p) ==
    \/ worker \in {"setup", "announce", "announcing"}
    \/ /\ worker = "none" /\ m_State # "Stopped"
       /\ graph.step \in {"reset", "inactive"} \/ (graph.step = "end" /\ p < at)

\* The worker has passed the pin with its new segment.
Announced(p) ==
    \/ worker \in {"loop", "buffer", "ending", "eos", "late"}
    \/ worker \in {"announce", "announcing"} /\ p < workerAt

\* The worker queues nothing more on the pin.
Closed(p) == worker \in {"exited", "none"} \/ (worker = "eos" /\ p < workerAt)

\* A landed call holds an item; of a segment, the downstream pin knows.
Held(ch, seg) ==
    ch.landed => ch.inflight # NoItem /\ (ch.inflight.kind = "segment" => seg = ch.inflight.run)

NoEos(L) == \A n \in DOMAIN L : L[n].kind # "eos"

FlowOf(p) ==
    /\ InOrder(C!Line(chan[p]), sink[p].segment, sink[p].eos, run)
    /\ Held(chan[p], sink[p].segment)
    /\ NotYet(p) => NoMedia(C!Line(chan[p])) /\ sink[p].eos = "none"
    /\ Announced(p) /\ chan[p].mode = "open" => Led(C!Line(chan[p]), sink[p].segment, run)
    /\ ~Closed(p) => NoEos(C!Line(chan[p])) /\ sink[p].eos = "none"

Flow == Threaded /\ \A p \in Pin : FlowOf(p)

LEMMA FlowInit == Init => Flow
<1> SUFFICES ASSUME Init PROVE Flow
  OBVIOUS
<1>1. Threaded
  BY DEF Init, Threaded, Idle
<1>2. ASSUME NEW p \in Pin PROVE FlowOf(p)
  <2>1. chan[p] = Q!Fresh /\ sink[p] = NewSink /\ run = 0
    BY DEF Init
  <2>2. C!Line(chan[p]) = <<>> /\ sink[p].segment = 0 /\ sink[p].eos = "none"
    BY <2>1, C!LineFresh, SameChannel DEF NewSink
  <2>3. InOrder(<<>>, 0, "none", 0)
    BY InOrderEmpty
  <2>4. ~Announced(p) /\ ~chan[p].landed
    BY <2>1 DEF Init, Announced, Q!Fresh
  <2> QED
    BY <2>1, <2>2, <2>3, <2>4 DEF FlowOf, Held, NoMedia, NoEos
<1> QED
  BY <1>1, <1>2 DEF Flow

LEMMA ThreadedNext == Typed /\ Alone /\ Threaded /\ [Next]_vars => Threaded'
<1> SUFFICES ASSUME ScalarsTyped, Alone, Threaded, [Next]_vars PROVE Threaded'
  BY TypedParts
<1> USE DEF Threaded, ScalarsTyped, Call, Step, Alone, WorkerIsAlone
<1>1. CASE UNCHANGED vars
  BY <1>1 DEF vars, graphVars, workerVars
<1>2. CASE GraphCall
  <2>1. graph.step = "idle"
    BY <1>2 DEF GraphCall, Pause, RunFilter, Stop, Enable, SetPositions, Enter, Idle
  <2>2. CASE Pause \/ RunFilter
    BY <2>1, <2>2 DEF Pause, RunFilter, StartThread
  <2>3. CASE Stop \/ Enable \/ \E pos \in Position : SetPositions(pos)
    BY <2>1, <2>3 DEF Stop, Enable, SetPositions, SeekTo, workerVars
  <2> QED
    BY <1>2, <2>2, <2>3 DEF GraphCall
<1>3. CASE GraphStep
  <2>1. CASE BeginFlush
    BY <2>1 DEF BeginFlush, workerVars
  <2>2. CASE SetSeeking \/ SignalThread
    BY <2>2 DEF SetSeeking, SignalThread, workerVars
  <2>5. CASE EndFlush \/ Inactive
    BY <2>5 DEF EndFlush, Inactive, workerVars, Idle
  <2>3. CASE JoinThread
    BY <2>3 DEF JoinThread
  <2>4. CASE Reset
    BY <2>4 DEF Reset, StartThread, Idle
  <2> QED
    BY <1>3, <2>1, <2>2, <2>3, <2>4, <2>5 DEF GraphStep
<1>4. CASE WorkerStep
  BY <1>4 DEF WorkerStep, WorkerOnly, graphVars, SetUp, Announce, Announcing, LoopAsked,
     LoopAtEnd, LoopPastStop, LoopSample, Deliver, Ending, DeferredSample, DeliverEOS
<1>5. ASSUME NEW p \in Pin, PinStep(p) PROVE Threaded'
  BY <1>5 DEF PinStep, QueueStep, SinkAccepts, SinkFails, SinkReturns, ChannelOnly,
     graphVars, workerVars
<1> QED
  BY <1>1, <1>2, <1>3, <1>4, <1>5 DEF Next, AtRest

\* A step that leaves the line of a pin, and what its downstream pin has seen,
\* as they are.
LEMMA FlowKept ==
    ASSUME NEW p \in Pin, FlowOf(p), UNCHANGED <<sink[p], run>>,
           C!Line(chan'[p]) = C!Line(chan[p]),
           Held(chan'[p], sink[p].segment),
           NotYet(p)' => NotYet(p),
           Announced(p)' /\ chan'[p].mode = "open" => Announced(p) /\ chan[p].mode = "open",
           Closed(p) => Closed(p)'
    PROVE  FlowOf(p)'
BY DEF FlowOf

\* What a pin's own steps need of types.
LEMMA PinFacts ==
    ASSUME Typed, NEW p \in Pin
    PROVE  /\ chan[p] \in C!ChannelOf(Item) /\ sink[p] \in SinkType
           /\ sink[p].segment \in Nat /\ run \in Nat
           /\ C!Line(chan[p]) \in Seq(Item)
           /\ chan \in [Pin -> C!ChannelOf(Item)] /\ sink \in [Pin -> SinkType]
<1>1. chan \in [Pin -> C!ChannelOf(Item)] /\ sink \in [Pin -> SinkType] /\ run \in Run
  BY TypedParts DEF PinsTyped, ScalarsTyped
<1>2. sink[p].segment \in Run
  BY <1>1 DEF SinkType
<1> QED
  BY <1>1, <1>2, C!LineShape, SameChannel DEF Run

\* What the graph thread and the worker have come to is the same.
Placing == <<m_State, graph, at, worker, workerAt, run>>

LEMMA PlacingSame ==
    ASSUME UNCHANGED Placing, NEW p \in Pin
    PROVE  (NotYet(p)' <=> NotYet(p)) /\ (Announced(p)' <=> Announced(p))
           /\ (Closed(p)' <=> Closed(p))
BY DEF Placing, NotYet, Announced, Closed

\* A step that takes the first item of a pin's line away.
LEMMA FlowShorter ==
    ASSUME Typed, NEW p \in Pin, FlowOf(p), UNCHANGED Placing, UNCHANGED sink[p],
           C!Line(chan'[p]) = Tail(C!Line(chan[p])), chan[p].inflight # NoItem,
           chan[p].inflight.kind = "segment" => sink[p].segment = chan[p].inflight.run,
           ~chan'[p].landed, chan'[p].mode = "open" => chan[p].mode = "open"
    PROVE  FlowOf(p)'
<1> DEFINE L == C!Line(chan[p])
<1>1. L \in Seq(Item) /\ L # <<>> /\ L[1] = chan[p].inflight
  BY PinFacts, C!LineShape, SameChannel
<1>2. InOrder(L, sink[p].segment, sink[p].eos, run)
  BY DEF FlowOf
<1>3. /\ InOrder(Tail(L), sink[p].segment, sink[p].eos, run)
      /\ Led(L, sink[p].segment, run) => Led(Tail(L), sink[p].segment, run)
      /\ \A n \in DOMAIN Tail(L) : n + 1 \in DOMAIN L /\ Tail(L)[n] = L[n + 1]
  <2>1. sink[p].segment \in Nat /\ run \in Nat
    BY PinFacts
  <2> QED
    BY <1>1, <1>2, <2>1, InOrderTail
<1>4. (NoMedia(L) => NoMedia(Tail(L))) /\ (NoEos(L) => NoEos(Tail(L)))
  BY <1>3 DEF NoMedia, NoEos
<1>5. UNCHANGED run
  BY DEF Placing
<1> HIDE DEF L
<1>6. C!Line(chan[p]) = L /\ C!Line(chan[p])' = Tail(L)
  BY DEF L
<1> QED
  BY <1>3, <1>4, <1>5, <1>6, PlacingSame DEF FlowOf, Held

LEMMA FlowPinStep ==
    ASSUME Typed, Flow, NEW q \in Pin, PinStep(q), NEW p \in Pin
    PROVE  FlowOf(p)'
<1>1. UNCHANGED Placing
  BY DEF Placing, PinStep, QueueStep, SinkAccepts, SinkFails, SinkReturns, ChannelOnly,
     graphVars, workerVars
<1>2. FlowOf(p) /\ UNCHANGED run
  BY <1>1 DEF Flow, Placing
<1>3. /\ chan[p] \in C!ChannelOf(Item) /\ sink[p] \in SinkType
      /\ sink[p].segment \in Nat /\ run \in Nat /\ C!Line(chan[p]) \in Seq(Item)
      /\ chan \in [Pin -> C!ChannelOf(Item)] /\ sink \in [Pin -> SinkType]
  BY PinFacts
<1>4. CASE p # q
  <2>1. UNCHANGED <<chan[p], sink[p]>>
    BY <1>3, <1>4 DEF PinStep, QueueStep, SinkAccepts, SinkFails, SinkReturns
  <2> QED
    BY <1>1, <1>2, <2>1, FlowKept, PlacingSame DEF FlowOf
<1>5. CASE p = q
  <2> DEFINE ch == chan[p]
  <2>1. ASSUME Q!CanTake(ch), chan'[p] = Q!Take(ch), UNCHANGED sink PROVE FlowOf(p)'
    <3>1. C!Line(chan'[p]) = C!Line(ch)
      BY <1>3, <2>1, C!LineTake, SameChannel
    <3>2. ~chan'[p].landed /\ chan'[p].mode = ch.mode
      BY <1>2, <1>3, <2>1 DEF FlowOf, Held, Q!CanTake, Q!Take, C!ChannelOf
    <3> QED
      BY <1>1, <1>2, <2>1, <3>1, <3>2, FlowKept, PlacingSame DEF Held
  <2>2. ASSUME Q!CanSkip(ch), chan'[p] = Q!Skipped(ch), UNCHANGED sink PROVE FlowOf(p)'
    <3>1. ch.inflight # NoItem /\ ch.inflight.kind # "segment" /\ ~ch.landed
      BY <1>3, <2>2, ItemFacts DEF Q!CanSkip, C!ChannelOf
    <3>2. C!Line(chan'[p]) = Tail(C!Line(ch)) /\ ~chan'[p].landed /\ chan'[p].mode = ch.mode
      BY <1>3, <2>2, <3>1, C!LineRemoved, SameChannel DEF Q!Skipped, C!ChannelOf
    <3> QED
      BY <1>1, <1>2, <2>2, <3>1, <3>2, FlowShorter
  <2>3. ASSUME ch.mode = "flushing", chan'[p] = Q!Emptied(ch), UNCHANGED sink PROVE FlowOf(p)'
    <3> DEFINE L == C!Line(ch)
               E == C!Line(Q!Emptied(ch))
    <3>1. E = <<>> \/ (L # <<>> /\ E = <<L[1]>>)
      BY <1>3, C!LineEmptied, C!LineShape, SameChannel
    <3>2. InOrder(L, sink[p].segment, sink[p].eos, run)
      BY <1>2 DEF FlowOf
    <3>3. InOrder(E, sink[p].segment, sink[p].eos, run)
      <4>1. sink[p].segment <= run
        BY <3>2 DEF InOrder
      <4> HIDE DEF L, E
      <4>2. L \in Seq(Item)
        BY <1>3 DEF L
      <4> QED
        BY <1>3, <3>1, <3>2, <4>1, <4>2, InOrderEmpty, InOrderFirst
    <3>4. (NoMedia(L) => NoMedia(E)) /\ (NoEos(L) => NoEos(E))
      <4>1. \A n \in DOMAIN E : n = 1 /\ 1 \in DOMAIN L /\ E[1] = L[1]
        BY <1>3, <3>1
      <4> QED
        BY <4>1 DEF NoMedia, NoEos
    <3>5. chan'[p].mode = "flushing" /\ chan'[p].landed = ch.landed
          /\ chan'[p].inflight = ch.inflight
      BY <1>3, <2>3 DEF Q!Emptied, C!ChannelOf
    <3>6. C!Line(chan[p])' = E /\ Held(chan'[p], sink'[p].segment)
      BY <1>2, <2>3, <3>5 DEF FlowOf, Held
    <3> HIDE DEF L, E
    <3>7. C!Line(chan[p]) = L
      BY DEF L
    <3> QED
      BY <1>1, <1>2, <2>3, <3>3, <3>4, <3>5, <3>6, <3>7, PlacingSame DEF FlowOf
  <2>4. CASE QueueStep(q)
    BY <1>3, <1>5, <2>1, <2>2, <2>3, <2>4 DEF QueueStep
  <2>5. CASE SinkAccepts(q)
    <3>1. /\ Q!CanLand(ch) /\ chan'[p] = Q!Landed(ch) /\ ch.inflight \in Item
          /\ C!Line(chan'[p]) = C!Line(ch) /\ C!Line(ch) # <<>> /\ C!Line(ch)[1] = ch.inflight
      BY <1>3, <1>5, <2>5, C!LineKept, C!LineShape, SameChannel DEF SinkAccepts, Q!CanLand, C!ChannelOf
    <3>2. chan'[p].mode = ch.mode /\ chan'[p].inflight = ch.inflight
      BY <1>3, <3>1 DEF Q!Landed, C!ChannelOf
    <3>3. ch.inflight # NoItem
      BY <3>1 DEF Q!CanLand
    <3> DEFINE L == C!Line(ch)
               i == ch.inflight
    <3>4. InOrder(L, sink[p].segment, sink[p].eos, run)
      BY <1>2 DEF FlowOf
    <3>5. /\ i.kind = "segment" => InOrder(L, i.run, sink[p].eos, run)
                /\ (Led(L, sink[p].segment, run) => Led(L, i.run, run))
          /\ i.kind = "eos" => \A n \in DOMAIN L : L[n].kind = "eos"
      BY <1>3, <3>1, <3>4, InOrderLands
    <3>6. C!Line(chan[p])' = L
      BY <3>1
    <3>7. CASE i.kind = "segment"
      <4>1. sink'[p].segment = i.run /\ sink'[p].eos = sink[p].eos
        BY <1>3, <1>5, <2>5, <3>7 DEF SinkAccepts, SinkType
      <4> HIDE DEF L
      <4>2. C!Line(chan[p]) = L
        BY DEF L
      <4> QED
        BY <1>1, <1>2, <3>2, <3>3, <3>5, <3>6, <3>7, <4>1, <4>2, PlacingSame DEF FlowOf, Held
    <3>8. CASE i.kind = "sample"
      <4>1. sink'[p].segment = sink[p].segment /\ sink'[p].eos = sink[p].eos
        BY <1>3, <1>5, <2>5, <3>8 DEF SinkAccepts, SinkType
      <4> QED
        BY <1>1, <1>2, <3>2, <3>3, <3>6, <3>8, <4>1, PlacingSame DEF FlowOf, Held
    <3>9. CASE i.kind = "eos"
      <4>1. sink'[p].segment = sink[p].segment
        BY <1>3, <1>5, <2>5, <3>9 DEF SinkAccepts, SinkType
      <4>2. \A n \in DOMAIN L : L[n].kind = "eos"
        BY <3>5, <3>9
      <4>3. 1 \in DOMAIN L
        BY <1>3, <3>1
      <4>4. InOrder(L, sink[p].segment, sink'[p].eos, run)
        BY <3>4, <4>2 DEF InOrder
      <4>5. ~NotYet(p) /\ Closed(p)
        BY <1>2, <4>2, <4>3 DEF FlowOf, NoMedia, NoEos
      <4> QED
        BY <1>1, <1>2, <3>2, <3>3, <3>6, <3>9, <4>1, <4>4, <4>5, PlacingSame DEF FlowOf, Held
    <3> QED
      BY <3>1, <3>7, <3>8, <3>9, ItemFacts
  <2>6. CASE SinkFails(q)
    <3>1. /\ Q!CanLand(ch) /\ ch.inflight \notin Segment /\ chan'[p] = Q!Failed(ch)
          /\ UNCHANGED sink
      BY <1>3, <1>5, <2>6 DEF SinkFails
    <3>2. ch.inflight # NoItem /\ ch.inflight.kind # "segment" /\ ~ch.landed
      BY <1>3, <3>1, ItemFacts DEF Q!CanLand, C!ChannelOf
    <3>3. C!Line(chan'[p]) = Tail(C!Line(ch)) /\ ~chan'[p].landed
      BY <1>3, <3>1, <3>2, C!LineRemoved, SameChannel DEF Q!Failed, C!ChannelOf
    <3>4. chan'[p].mode # "open"
      BY <1>3, <3>1 DEF Q!Failed, C!ChannelOf
    <3> QED
      BY <1>1, <1>2, <3>1, <3>2, <3>3, <3>4, FlowShorter
  <2>7. CASE SinkReturns(q)
    <3>1. ch.landed /\ chan'[p] = Q!Returned(ch) /\ UNCHANGED sink
      BY <1>3, <1>5, <2>7 DEF SinkReturns
    <3>2. ch.inflight # NoItem /\ (ch.inflight.kind = "segment" => sink[p].segment = ch.inflight.run)
      BY <1>2, <3>1 DEF FlowOf, Held
    <3>3. C!Line(chan'[p]) = Tail(C!Line(ch)) /\ ~chan'[p].landed /\ chan'[p].mode = ch.mode
      BY <1>3, <3>1, <3>2, C!LineRemoved, SameChannel DEF Q!Returned, C!ChannelOf
    <3> QED
      BY <1>1, <1>2, <3>1, <3>2, <3>3, FlowShorter
  <2> QED
    BY <1>5, <2>4, <2>5, <2>6, <2>7 DEF PinStep
<1> QED
  BY <1>4, <1>5

\* The worker adds an item to a pin's line.
LEMMA FlowLonger ==
    ASSUME Typed, NEW p \in Pin, FlowOf(p), UNCHANGED <<run, sink[p]>>,
           NEW i \in Item, i.run = run, chan'[p] = Q!Queued(chan[p], i),
           NoEos(C!Line(chan[p])), i.kind = "sample" => sink[p].eos = "none",
           i.kind # "segment" => Led(C!Line(chan[p]), sink[p].segment, run),
           NotYet(p)' => NotYet(p) /\ i.kind = "segment",
           Announced(p)' /\ chan[p].mode = "open" => Announced(p) \/ i.kind = "segment",
           Closed(p) => Closed(p)', ~Closed(p)' => i.kind # "eos"
    PROVE  FlowOf(p)'
<1> DEFINE L == C!Line(chan[p])
           A == Append(L, i)
<1>1. /\ chan[p] \in C!ChannelOf(Item) /\ sink[p].segment \in Nat /\ run \in Nat
      /\ L \in Seq(Item)
  BY PinFacts
<1>2. C!Line(chan[p])' = A
  BY <1>1, C!LineQueued, SameChannel
<1>3. InOrder(L, sink[p].segment, sink[p].eos, run)
  BY DEF FlowOf
<1>4. InOrder(A, sink[p].segment, sink[p].eos, run)
  BY <1>1, <1>3, InOrderAppend DEF NoEos
<1>5. /\ \A n \in DOMAIN L : n \in DOMAIN A /\ A[n] = L[n]
      /\ Len(A) \in DOMAIN A /\ A[Len(A)] = i
      /\ \A n \in DOMAIN A : n \in DOMAIN L \/ n = Len(A)
  BY <1>1, AppendProperties
<1>6. /\ chan'[p].mode = chan[p].mode /\ chan'[p].landed = chan[p].landed
      /\ chan'[p].inflight = chan[p].inflight
  BY <1>1 DEF Q!Queued, C!ChannelOf
<1> HIDE DEF A, L
<1>7. (NoMedia(L) /\ i.kind = "segment" => NoMedia(A)) /\ (NoEos(L) /\ i.kind # "eos" => NoEos(A))
  BY <1>5 DEF NoMedia, NoEos
<1>8. Led(L, sink[p].segment, run) \/ i.kind = "segment" => Led(A, sink[p].segment, run)
  <2>1. i.kind = "segment" => i = Mark(run)
    BY ItemFacts
  <2> QED
    BY <1>5, <2>1 DEF Led
<1>9. C!Line(chan[p]) = L
  BY DEF L
<1>10. Held(chan[p], sink[p].segment)'
  BY <1>6 DEF FlowOf, Held
<1>11. NotYet(p)' => NoMedia(A) /\ sink[p].eos = "none"
  BY <1>7, <1>9 DEF FlowOf
<1>12. (Announced(p) /\ chan[p].mode = "open")' => Led(A, sink[p].segment, run)
  BY <1>6, <1>8, <1>9 DEF FlowOf
<1>13. ~Closed(p)' => NoEos(A) /\ sink[p].eos = "none"
  BY <1>7, <1>9 DEF FlowOf
<1> QED
  BY <1>2, <1>4, <1>10, <1>11, <1>12, <1>13 DEF FlowOf

LEMMA FlowWorkerStep ==
    ASSUME Typed, Alone, Flow, WorkerStep, NEW p \in Pin
    PROVE  FlowOf(p)'
<1>1. FlowOf(p) /\ UNCHANGED <<run, sink, m_State, graph, at>>
  BY DEF Flow, WorkerStep, WorkerOnly, graphVars, SetUp, Announce, Announcing, LoopAsked,
     LoopAtEnd, LoopPastStop, LoopSample, Deliver, Ending, DeferredSample, DeliverEOS
<1>2. /\ chan[p] \in C!ChannelOf(Item) /\ chan \in [Pin -> C!ChannelOf(Item)]
      /\ workerAt \in Nat /\ natural \in BOOLEAN /\ run \in Run
  BY PinFacts, TypedParts, NumbersAssumption DEF ScalarsTyped
<1>3. /\ [kind |-> "segment", run |-> run] \in Item /\ [kind |-> "sample", run |-> run] \in Item
      /\ [kind |-> "eos", run |-> run, natural |-> natural] \in Item
  BY <1>2 DEF Item
<1>4. ASSUME UNCHANGED chan, NotYet(p)' => NotYet(p), Closed(p) => Closed(p)',
             Announced(p)' /\ chan[p].mode = "open" => Announced(p)
      PROVE  FlowOf(p)'
  BY <1>1, <1>4, FlowKept DEF FlowOf
<1>5. CASE SetUp
  BY <1>1, <1>4, <1>5 DEF SetUp, NotYet, Closed, Announced, Pin
<1>6. CASE Announce
  <2>1. CASE workerAt > NumPins
    BY <1>1, <1>2, <1>4, <1>6, <2>1, NumbersAssumption DEF Announce, NotYet, Closed, Announced, Pin
  <2>2. CASE ~(workerAt > NumPins) /\ chan[workerAt].mode = "open"
    BY <1>1, <1>4, <1>6, <2>2 DEF Announce, NotYet, Closed, Announced
  <2>3. CASE ~(workerAt > NumPins) /\ chan[workerAt].mode # "open"
    BY <1>1, <1>2, <1>4, <1>6, <2>3 DEF Announce, NotYet, Closed, Announced, Pin
  <2> QED
    BY <2>1, <2>2, <2>3
<1>7. CASE LoopAsked \/ LoopAtEnd \/ LoopPastStop \/ LoopSample
  BY <1>1, <1>4, <1>7 DEF LoopAsked, LoopAtEnd, LoopPastStop, LoopSample, NotYet, Closed, Announced
<1>8. CASE Ending
  BY <1>1, <1>4, <1>8 DEF Ending, NotYet, Closed, Announced
<1>12. CASE DeferredSample
  BY <1>1, <1>4, <1>12 DEF DeferredSample, NotYet, Closed, Announced, Pin
<1>9. CASE Announcing
  <2> DEFINE i == [kind |-> "segment", run |-> run]
  <2>1. /\ worker = "announcing" /\ worker' = "announce" /\ workerAt' = workerAt + 1
        /\ chan' = [chan EXCEPT ![workerAt] = Q!Queued(chan[workerAt], i)]
    BY <1>9 DEF Announcing
  <2>2. NotYet(p) /\ ~Closed(p) /\ ~Closed(p)'
    BY <2>1 DEF NotYet, Closed
  <2>3. CASE p = workerAt
    <3>1. chan'[p] = Q!Queued(chan[p], i)
      BY <1>2, <2>1, <2>3
    <3>2. NoEos(C!Line(chan[p]))
      BY <1>1, <2>2 DEF FlowOf
    <3> QED
      BY <1>1, <1>3, <2>2, <3>1, <3>2, FlowLonger
  <2>4. CASE p # workerAt
    <3>1. UNCHANGED chan[p]
      BY <1>2, <2>1, <2>4
    <3>2. Announced(p)' => Announced(p)
      BY <1>2, <2>1, <2>4 DEF Announced, Pin
    <3> QED
      BY <1>1, <2>2, <3>1, <3>2, FlowKept DEF FlowOf
  <2> QED
    BY <2>3, <2>4
<1>10. CASE Deliver
  <2> DEFINE i == [kind |-> "sample", run |-> run]
  <2>1. /\ \/ worker = "buffer" /\ worker' = "loop"
           \/ worker = "late" /\ worker' = "eos" /\ workerAt' = 1
        /\ chan' = [chan EXCEPT ![workerAt] = Q!Accept(chan[workerAt], i)]
    BY <1>10 DEF Deliver
  <2>2. Announced(p) /\ ~Closed(p) /\ ~Closed(p)' /\ ~NotYet(p)'
    BY <2>1 DEF NotYet, Closed, Announced, Pin
  <2>3. CASE p = workerAt /\ chan[p].mode = "open"
    <3>1. chan'[p] = Q!Queued(chan[p], i)
      BY <1>2, <2>1, <2>3 DEF Q!Accept
    <3>2. /\ NoEos(C!Line(chan[p])) /\ sink[p].eos = "none"
          /\ Led(C!Line(chan[p]), sink[p].segment, run)
      BY <1>1, <2>2, <2>3 DEF FlowOf
    <3> QED
      BY <1>1, <1>3, <2>2, <3>1, <3>2, FlowLonger
  <2>4. CASE ~(p = workerAt /\ chan[p].mode = "open")
    <3>1. UNCHANGED chan[p]
      BY <1>2, <2>1, <2>4 DEF Q!Accept
    <3> QED
      BY <1>1, <2>2, <3>1, FlowKept DEF FlowOf
  <2> QED
    BY <2>3, <2>4
<1>11. CASE DeliverEOS
  <2> DEFINE i == [kind |-> "eos", run |-> run, natural |-> natural]
  <2>1. /\ worker = "eos"
        /\ chan' = [chan EXCEPT ![workerAt] = Q!Accept(chan[workerAt], i)]
        /\ \/ worker' = "eos" /\ workerAt' = workerAt + 1
           \/ worker' = "exited" /\ ~(workerAt < NumPins)
    BY <1>11 DEF DeliverEOS
  <2>2. Announced(p) /\ ~NotYet(p)' /\ (Closed(p) => Closed(p)') /\ (p = workerAt => Closed(p)')
        /\ (p = workerAt => ~Closed(p))
    BY <1>2, <2>1 DEF NotYet, Closed, Announced, Pin
  <2>3. CASE p = workerAt /\ chan[p].mode = "open"
    <3>1. chan'[p] = Q!Queued(chan[p], i)
      BY <1>2, <2>1, <2>3 DEF Q!Accept
    <3>2. NoEos(C!Line(chan[p])) /\ Led(C!Line(chan[p]), sink[p].segment, run)
      BY <1>1, <2>2, <2>3 DEF FlowOf
    <3> QED
      BY <1>1, <1>3, <2>2, <2>3, <3>1, <3>2, FlowLonger
  <2>4. CASE ~(p = workerAt /\ chan[p].mode = "open")
    <3>1. UNCHANGED chan[p]
      BY <1>2, <2>1, <2>4 DEF Q!Accept
    <3> QED
      BY <1>1, <2>2, <3>1, FlowKept DEF FlowOf
  <2> QED
    BY <2>3, <2>4
<1> QED
  BY <1>5, <1>6, <1>7, <1>8, <1>9, <1>10, <1>11, <1>12 DEF WorkerStep

LEMMA FlowGraphCall ==
    ASSUME Typed, Alone, Flow, GraphCall, NEW p \in Pin
    PROVE  FlowOf(p)'
<1>0. FlowOf(p) /\ Threaded
  BY DEF Flow
<1>1. graph.step = "idle"
  BY DEF GraphCall, Pause, RunFilter, Stop, Enable, SetPositions, Enter, Idle
<1>2. CASE Stop \/ Enable \/ \E pos \in Position : SetPositions(pos)
  <2>1. /\ UNCHANGED <<chan, sink, run, worker, workerAt, m_State>>
        /\ graph'.step \notin {"end", "reset", "inactive"}
    BY <1>1, <1>2 DEF Stop, Enable, SetPositions, SeekTo, workerVars
  <2> QED
    BY <1>0, <2>1, FlowKept DEF FlowOf, NotYet, Announced, Closed
<1>3. CASE (Pause \/ RunFilter) /\ m_State # "Stopped"
  <2>1. worker # "none" /\ m_hThread
    BY <1>0, <1>1, <1>3 DEF Threaded, Alone, WorkerIsAlone
  <2>2. UNCHANGED <<chan, sink, run, worker, workerAt>>
    BY <1>3, <2>1 DEF Pause, RunFilter, StartThread
  <2> QED
    BY <1>0, <2>1, <2>2, FlowKept DEF FlowOf, NotYet, Announced, Closed
<1>4. CASE Pause /\ m_State = "Stopped"
  <2>1. ~m_hThread
    BY <1>4 DEF Alone, WorkerIsAlone
  <2>2. chan'[p] = Q!Fresh /\ sink'[p] = NewSink /\ run' = run + 1
        /\ worker' = "setup"
    BY <1>4, <2>1 DEF Pause, StartThread
  <2>3. C!Line(chan[p])' = <<>> /\ sink'[p].segment = 0 /\ sink'[p].eos = "none"
    BY <2>2, C!LineFresh, SameChannel DEF NewSink
  <2>4. InOrder(<<>>, 0, "none", run + 1)
    BY PinFacts, InOrderEmpty
  <2>5. ~Announced(p)' /\ ~chan'[p].landed
    BY <2>2 DEF Announced, Q!Fresh
  <2> QED
    BY <2>2, <2>3, <2>4, <2>5 DEF FlowOf, Held, NoMedia, NoEos
<1> QED
  BY <1>2, <1>3, <1>4 DEF GraphCall, RunFilter

LEMMA FlowGraphStep ==
    ASSUME Typed, Alone, Flow, GraphStep, NEW p \in Pin
    PROVE  FlowOf(p)'
<1>0. FlowOf(p) /\ Threaded /\ at \in Pin /\ graph \in Call
  BY TypedParts DEF Flow, ScalarsTyped
<1>1. /\ chan[p] \in C!ChannelOf(Item) /\ sink[p] \in SinkType
      /\ sink[p].segment \in Nat /\ run \in Nat /\ C!Line(chan[p]) \in Seq(Item)
      /\ chan \in [Pin -> C!ChannelOf(Item)] /\ sink \in [Pin -> SinkType]
  BY PinFacts
<1>2. CASE BeginFlush
  <2>1. UNCHANGED <<worker, workerAt, run, m_State>>
    BY <1>2 DEF BeginFlush, workerVars
  <2>2. graph.step = "begin" /\ graph'.step \in {"begin", "seeking"}
    BY <1>0, <1>2 DEF BeginFlush, Call
  <2>3. worker # "none" \/ m_State = "Stopped"
    BY <1>0, <2>2 DEF Threaded
  <2>4. sink'[p].segment = sink[p].segment /\ sink'[p].eos = sink[p].eos
    BY <1>0, <1>1, <1>2 DEF BeginFlush, SinkType
  <2>5. /\ chan'[p] \in {chan[p], Q!BeginFlush(chan[p])}
    BY <1>0, <1>1, <1>2 DEF BeginFlush
  <2>6. /\ C!Line(chan'[p]) = C!Line(chan[p])
        /\ chan'[p].landed = chan[p].landed /\ chan'[p].inflight = chan[p].inflight
        /\ chan'[p].mode = "open" => chan[p].mode = "open"
    BY <1>1, <2>5, C!LineKept, SameChannel DEF Q!BeginFlush, C!ChannelOf
  <2> QED
    BY <1>0, <2>1, <2>2, <2>3, <2>4, <2>6 DEF FlowOf, NotYet, Announced, Closed, Held
<1>3. CASE SetSeeking \/ SignalThread
  <2>1. /\ UNCHANGED <<chan, sink, run, worker, workerAt, m_State>>
        /\ graph'.step \notin {"end", "reset", "inactive"}
    BY <1>0, <1>3 DEF SetSeeking, SignalThread, workerVars, Call
  <2> QED
    BY <1>0, <2>1, FlowKept DEF FlowOf, NotYet, Announced, Closed
<1>4. CASE JoinThread
  <2>1. /\ UNCHANGED <<chan, sink, run, workerAt, m_State, at>> /\ worker' = "none" /\ at = 1
        /\ m_State # "Stopped" => graph'.step = "end"
    BY <1>0, <1>4 DEF JoinThread, Call, Threaded
  <2>2. ~NotYet(p)' /\ ~Announced(p)' /\ Closed(p)'
    BY <2>1 DEF NotYet, Announced, Closed, Pin
  <2> QED
    BY <1>0, <2>1, <2>2, FlowKept DEF FlowOf
<1>5. CASE EndFlush
  <2>1. /\ UNCHANGED <<worker, workerAt, run, m_State>> /\ worker = "none" /\ graph.step = "end"
        /\ Q!Drained(chan[at])
        /\ chan' = [chan EXCEPT ![at] = Q!EndFlush(@)]
        /\ sink' = [sink EXCEPT ![at] = [NewSink EXCEPT !.segment = sink[at].segment]]
    BY <1>5 DEF EndFlush, workerVars, Alone, WorkerIsAlone
  <2>2. \/ at < NumPins /\ at' = at + 1 /\ UNCHANGED graph
        \/ ~(at < NumPins) /\ graph'.step \in {"reset", "inactive"}
    BY <1>0, <1>5 DEF EndFlush, Call
  <2>3. ~Announced(p)' /\ Closed(p)'
    BY <2>1 DEF Announced, Closed
  <2>4. CASE p = at
    <3>1. chan'[p] = Q!EndFlush(chan[p]) /\ sink'[p] = [NewSink EXCEPT !.segment = sink[p].segment]
      BY <1>1, <2>1, <2>4
    <3>2. sink'[p].segment = sink[p].segment /\ sink'[p].eos = "none"
      BY <3>1 DEF NewSink
    <3>3. C!Line(chan[p])' = C!Line(chan[p]) /\ NoMedia(C!Line(chan[p]))
      BY <1>1, <2>1, <2>4, <3>1, C!LineKept, SameChannel, LineDrained
    <3>4. chan'[p].landed = chan[p].landed /\ chan'[p].inflight = chan[p].inflight
      BY <1>1, <3>1 DEF Q!EndFlush, C!ChannelOf
    <3>5. InOrder(C!Line(chan[p]), sink[p].segment, "none", run)
      BY <1>0, <1>1, <3>3, InOrderSegments DEF FlowOf
    <3> QED
      BY <1>0, <2>1, <2>3, <3>2, <3>3, <3>4, <3>5 DEF FlowOf, Held
  <2>5. CASE p # at
    <3>1. UNCHANGED <<chan[p], sink[p]>>
      BY <1>1, <2>1, <2>5
    <3>2. NotYet(p)' => NotYet(p)
      <4>1. CASE at < NumPins /\ at' = at + 1 /\ UNCHANGED graph
        BY <1>0, <2>1, <2>5, <4>1 DEF NotYet, Pin
      <4>2. CASE ~(at < NumPins)
        BY <1>0, <2>1, <2>5, <4>2, NumbersAssumption DEF NotYet, Pin
      <4> QED
        BY <2>2, <4>1, <4>2
    <3> QED
      BY <1>0, <2>1, <2>3, <3>1, <3>2, FlowKept DEF FlowOf
  <2> QED
    BY <2>4, <2>5
<1>6. CASE Reset
  <2>1. /\ UNCHANGED <<chan, sink, m_State>> /\ graph.step = "reset" /\ worker = "none"
        /\ graph' = Idle /\ ~m_hThread
    BY <1>6 DEF Reset, Alone, WorkerIsAlone
  <2>2. CASE m_State = "Stopped"
    <3>1. UNCHANGED <<run, worker, workerAt>>
      BY <1>6, <2>2 DEF Reset
    <3> QED
      BY <1>0, <2>1, <2>2, <3>1, FlowKept DEF FlowOf, NotYet, Announced, Closed
  <2>3. CASE m_State # "Stopped"
    <3>1. run' = run + 1 /\ worker' = "setup"
      BY <1>6, <2>1, <2>3 DEF Reset, StartThread
    <3>2. NotYet(p) /\ ~Announced(p)'
      BY <2>1, <2>3, <3>1 DEF NotYet, Announced
    <3>3. NoMedia(C!Line(chan[p])) /\ sink[p].eos = "none"
      BY <1>0, <3>2 DEF FlowOf
    <3>4. InOrder(C!Line(chan[p]), sink[p].segment, sink[p].eos, run + 1)
      BY <1>0, <1>1, <3>3, InOrderSegments DEF FlowOf
    <3>5. NoEos(C!Line(chan[p]))
      BY <3>3 DEF NoMedia, NoEos
    <3> QED
      BY <1>0, <2>1, <3>1, <3>2, <3>3, <3>4, <3>5 DEF FlowOf
  <2> QED
    BY <2>2, <2>3
<1>7. CASE Inactive
  <2>1. /\ chan'[p] = Q!Fresh /\ UNCHANGED <<sink, run, worker>> /\ worker = "none"
        /\ m_State' = "Stopped"
    BY <1>7 DEF Inactive, workerVars, Alone, WorkerIsAlone
  <2>2. C!Line(chan[p])' = <<>>
    BY <2>1, C!LineFresh, SameChannel
  <2>5. ~chan'[p].landed
    BY <2>1 DEF Q!Fresh
  <2>3. InOrder(<<>>, sink[p].segment, sink[p].eos, run)
    BY <1>0, <1>1, InOrderEmpty DEF FlowOf, InOrder
  <2>4. ~NotYet(p)' /\ ~Announced(p)' /\ Closed(p)'
    BY <2>1 DEF NotYet, Announced, Closed
  <2> QED
    BY <2>1, <2>2, <2>3, <2>4, <2>5 DEF FlowOf, Held
<1> QED
  BY <1>2, <1>3, <1>4, <1>5, <1>6, <1>7 DEF GraphStep

LEMMA FlowNext == Typed /\ Alone /\ Flow /\ [Next]_vars => Flow'
<1> SUFFICES ASSUME Typed, Alone, Flow, [Next]_vars PROVE Flow'
  OBVIOUS
<1>1. Threaded'
  BY ThreadedNext DEF Flow
<1>2. ASSUME NEW p \in Pin PROVE FlowOf(p)'
  <2>1. CASE UNCHANGED vars
    BY <2>1, FlowKept DEF vars, graphVars, workerVars, Flow, FlowOf, NotYet, Announced, Closed
  <2>2. CASE AtRest
    BY <2>1, <2>2 DEF AtRest
  <2> QED
    BY <2>1, <2>2, FlowGraphCall, FlowGraphStep, FlowWorkerStep, FlowPinStep DEF Next
<1> QED
  BY <1>1, <1>2 DEF Flow

(***************************************************************************)
(* After a seek, a stream switch or a stop and a restart nothing of the    *)
(* old position is shown: a sample that a downstream pin accepts is of the *)
(* newest run, comes after that run's segment and not after its end.       *)
(***************************************************************************)
THEOREM NothingOldIsShown == Spec => FreshSamplesOnly
<1>1. Init => Typed /\ Alone /\ Flow
  BY TypedInit, AloneInit, FlowInit
<1>2. Typed /\ Alone /\ Flow /\ [Next]_vars => (Typed /\ Alone /\ Flow)'
  BY TypedNext, AloneNext, FlowNext
<1>3. ASSUME Typed, Alone, Flow, [Next]_vars
      PROVE  [\A p \in Pin : Lands(p) /\ chan[p].inflight.kind = "sample" =>
                /\ chan[p].inflight.run = run
                /\ sink[p].segment = run
                /\ sink[p].eos = "none"]_vars
  <2> SUFFICES ASSUME NEW p \in Pin, Lands(p), chan[p].inflight.kind = "sample"
               PROVE  chan[p].inflight.run = run /\ sink[p].segment = run /\ sink[p].eos = "none"
    OBVIOUS
  <2>1. /\ chan[p] \in C!ChannelOf(Item) /\ sink[p].segment \in Nat /\ run \in Nat
        /\ C!Line(chan[p]) \in Seq(Item)
    BY <1>3, PinFacts
  <2>2. chan[p].inflight # NoItem
    BY DEF NoItem
  <2>3. C!Line(chan[p]) # <<>> /\ C!Line(chan[p])[1] = chan[p].inflight
    BY <2>1, <2>2, C!LineShape, SameChannel
  <2>4. InOrder(C!Line(chan[p]), sink[p].segment, sink[p].eos, run)
    BY <1>3 DEF Flow, FlowOf
  <2> QED
    BY <2>1, <2>3, <2>4, InOrderLands
<1> QED
  BY <1>1, <1>2, <1>3, PTL DEF Spec, FreshSamplesOnly
=============================================================================
