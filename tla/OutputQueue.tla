----------------------------- MODULE OutputQueue -----------------------------
(***************************************************************************)
(* COutputQueue (DirectShow base classes), as CMmtTlvOutputPin::Active     *)
(* instantiates it behind every connected output pin: bQueue, batches of   *)
(* one sample, no exact batching, no flushing optimisation.                *)
(*                                                                         *)
(* Three threads meet here.  The demux worker calls Receive, EOS and       *)
(* NewSegment.  The graph thread, which holds the filter's m_pinLock,      *)
(* calls BeginFlush, joins the worker, calls EndFlush, and in the end      *)
(* deletes the queue.  The queue's own thread hands the items to the       *)
(* downstream pin.  Everything the code does under the queue's critical    *)
(* section is one step; what it does outside is split at every access of   *)
(* shared state.                                                           *)
(***************************************************************************)
EXTENDS Naturals, Sequences

CONSTANTS MaxItems,     \* bound: items the producer makes
          MaxFlushes    \* bound: flushes

ASSUME BoundsAssumption == MaxItems \in Nat /\ MaxFlushes \in Nat

Kind == {"sample", "eos", "segment"}
HResult == {"S_OK", "S_FALSE", "E_FAIL"}

\* id numbers the items in the order the producer makes them; flush is the
\* number of flushes that had ended by then.
Item == [kind : Kind, id : Nat, flush : Nat]
NoItem == [kind |-> "none"]

VARIABLES
    list,          \* m_List
    m_hr,          \* the sticky result
    m_bFlushing, m_bFlushed, m_bTerminate,
    evFlushComplete,   \* m_evFlushComplete, an auto-reset event
    m_lWaiting,    \* 1: the thread is about to wait, or waits, on m_hSem
    m_hSem,        \* the semaphore's count
    held,          \* the item the thread took off the list
    thread,        \* where the queue's thread is
    result,        \* what the downstream call in progress returned
    producer,      \* where the demux worker is
    control,       \* where the graph thread is
    sinkFlushing,  \* the downstream pin is between BeginFlush and EndFlush
    made,          \* history: items made so far
    flushes,       \* history: flushes the downstream pin has seen the end of
    arrived        \* history: items the downstream pin accepted

queueVars == <<list, m_lWaiting, m_hSem>>
flushVars == <<m_bFlushing, m_bFlushed, evFlushComplete, sinkFlushing, flushes>>
threadVars == <<held, thread, result>>
vars == <<queueVars, flushVars, threadVars, m_hr, m_bTerminate,
          producer, control, made, arrived>>

ThreadPC == {"lock", "wait", "send", "calling", "returned", "exited"}
ProducerPC == {"stopped", "ready", "segment"}
ControlPC == {"idle", "beginDown", "begun", "joined", "clear", "endDown", "endHr",
              "dying", "gone"}

TypeOK ==
    /\ list \in Seq(Item)
    /\ m_hr \in HResult /\ result \in HResult
    /\ m_bFlushing \in BOOLEAN /\ m_bFlushed \in BOOLEAN /\ m_bTerminate \in BOOLEAN
    /\ evFlushComplete \in BOOLEAN /\ sinkFlushing \in BOOLEAN
    /\ m_lWaiting \in {0, 1} /\ m_hSem \in {0, 1}
    /\ held \in Item \cup {NoItem}
    /\ thread \in ThreadPC /\ producer \in ProducerPC /\ control \in ControlPC
    /\ made \in Nat /\ flushes \in Nat
    /\ arrived \in Seq(Item)

Init ==
    /\ list = <<>> /\ m_hr = "S_OK" /\ result = "S_OK"
    /\ m_bFlushing = FALSE /\ m_bFlushed = TRUE /\ m_bTerminate = FALSE
    /\ evFlushComplete = FALSE /\ sinkFlushing = FALSE
    /\ m_lWaiting = 0 /\ m_hSem = 0
    /\ held = NoItem /\ thread = "lock"
    /\ producer = "stopped" /\ control = "idle"
    /\ made = 0 /\ flushes = 0 /\ arrived = <<>>

-----------------------------------------------------------------------------
\* The next item the producer makes.
Made(kind) == [kind |-> kind, id |-> made + 1, flush |-> flushes]

\* Wakes the thread if it waits.
NotifyThread == /\ m_hSem' = m_hSem + m_lWaiting
                /\ m_lWaiting' = 0

QueueSample(i) == list' = Append(list, i)

\* Mutant of Receive: the queue stays marked as flushed.
ReceiveStaysFlushed ==
    /\ producer = "ready" /\ made < MaxItems
    /\ made' = made + 1
    /\ IF m_hr = "S_OK"
       THEN QueueSample(Made("sample")) /\ NotifyThread
       ELSE UNCHANGED queueVars
    /\ UNCHANGED <<flushVars, threadVars, m_hr, m_bTerminate, producer, control, arrived>>

(***************************************************************************)
(* The demux worker.                                                       *)
(***************************************************************************)
\* ReceiveMultiple with one sample: queued, or discarded with m_hr as result.
Receive ==
    /\ producer = "ready" /\ made < MaxItems
    /\ made' = made + 1
    /\ IF m_hr = "S_OK"
       THEN m_bFlushed' = FALSE /\ QueueSample(Made("sample")) /\ NotifyThread
       ELSE UNCHANGED <<m_bFlushed, queueVars>>
    /\ UNCHANGED <<m_bFlushing, evFlushComplete, sinkFlushing, flushes, threadVars,
                   m_hr, m_bTerminate, producer, control, arrived>>

\* Mutant of EOS: the thread is not notified.
EOSUnnotified ==
    /\ producer = "ready" /\ made < MaxItems
    /\ made' = made + 1
    /\ IF m_hr = "S_OK"
       THEN m_bFlushed' = FALSE /\ QueueSample(Made("eos")) /\ UNCHANGED <<m_lWaiting, m_hSem>>
       ELSE UNCHANGED <<m_bFlushed, queueVars>>
    /\ UNCHANGED <<m_bFlushing, evFlushComplete, sinkFlushing, flushes, threadVars,
                   m_hr, m_bTerminate, producer, control, arrived>>

EOS ==
    /\ producer = "ready" /\ made < MaxItems
    /\ made' = made + 1
    /\ IF m_hr = "S_OK"
       THEN m_bFlushed' = FALSE /\ QueueSample(Made("eos")) /\ NotifyThread
       ELSE UNCHANGED <<m_bFlushed, queueVars>>
    /\ UNCHANGED <<m_bFlushing, evFlushComplete, sinkFlushing, flushes, threadVars,
                   m_hr, m_bTerminate, producer, control, arrived>>

\* NewSegment reads m_hr before it takes the lock.
NewSegmentCheck ==
    /\ producer = "ready" /\ made < MaxItems
    /\ m_hr = "S_OK"
    /\ producer' = "segment"
    /\ UNCHANGED <<queueVars, flushVars, threadVars, m_hr, m_bTerminate, control,
                   made, arrived>>

NewSegmentQueue ==
    /\ producer = "segment"
    /\ QueueSample(Made("segment")) /\ NotifyThread
    /\ made' = made + 1
    /\ producer' = "ready"
    /\ UNCHANGED <<flushVars, threadVars, m_hr, m_bTerminate, control, arrived>>

-----------------------------------------------------------------------------
(***************************************************************************)
(* The queue's thread.                                                     *)
(***************************************************************************)
\* It empties the list when asked to terminate or to flush (FreeSamples), takes
\* an item, or prepares to wait.
ThreadLock ==
    /\ thread = "lock"
    /\ \/ /\ m_bTerminate
          /\ list' = <<>> /\ thread' = "exited"
          /\ UNCHANGED <<m_lWaiting, held, evFlushComplete>>
       \/ /\ ~m_bTerminate
          /\ m_bFlushing \/ list = <<>>
          /\ list' = <<>>
          /\ evFlushComplete' = (evFlushComplete \/ m_bFlushing)
          /\ m_lWaiting' = m_lWaiting + 1
          /\ thread' = "wait"
          /\ UNCHANGED held
       \/ /\ ~m_bTerminate /\ ~m_bFlushing /\ list # <<>>
          /\ held' = Head(list) /\ list' = Tail(list)
          /\ thread' = "send"
          /\ UNCHANGED <<m_lWaiting, evFlushComplete>>
    /\ UNCHANGED <<m_hSem, m_bFlushing, m_bFlushed, sinkFlushing, flushes, result,
                   m_hr, m_bTerminate, producer, control, made, arrived>>

\* Mutant of ThreadWait: waking does not take the semaphore's count.
ThreadWaitUncounted ==
    /\ thread = "wait" /\ m_hSem > 0
    /\ thread' = "lock"
    /\ UNCHANGED <<queueVars, flushVars, held, result, m_hr, m_bTerminate,
                   producer, control, made, arrived>>

ThreadWait ==
    /\ thread = "wait" /\ m_hSem > 0
    /\ m_hSem' = m_hSem - 1
    /\ thread' = "lock"
    /\ UNCHANGED <<list, m_lWaiting, flushVars, held, result, m_hr, m_bTerminate,
                   producer, control, made, arrived>>

\* Mutant of ThreadSend: m_hr is not looked at.
ThreadSendUnchecked ==
    /\ thread = "send"
    /\ thread' = "calling"
    /\ UNCHANGED <<queueVars, flushVars, held, result, m_hr, m_bTerminate, producer,
                   control, made, arrived>>

\* A sample and an end of stream are passed on only while m_hr is S_OK; a new
\* segment always.
ThreadSend ==
    /\ thread = "send"
    /\ IF m_hr = "S_OK" \/ held.kind = "segment"
       THEN thread' = "calling" /\ UNCHANGED held
       ELSE thread' = "lock" /\ held' = NoItem
    /\ UNCHANGED <<queueVars, flushVars, result, m_hr, m_bTerminate, producer,
                   control, made, arrived>>

\* The downstream pin: it refuses media while it flushes, may fail a sample at
\* any time, and stores a segment at any time.
SinkCall ==
    /\ thread = "calling"
    /\ result' \in IF held.kind = "sample"
                   THEN IF sinkFlushing THEN {"S_FALSE"} ELSE {"S_OK", "E_FAIL"}
                   ELSE {"S_OK"}
    /\ arrived' = IF result' = "S_OK" /\ (held.kind = "segment" \/ ~sinkFlushing)
                  THEN Append(arrived, held) ELSE arrived
    /\ thread' = "returned"
    /\ UNCHANGED <<queueVars, flushVars, held, m_hr, m_bTerminate, producer, control,
                   made>>

\* Mutant of ThreadReturn: the failure is not latched.
ThreadReturnUnlatched ==
    /\ thread = "returned"
    /\ held' = NoItem
    /\ thread' = "lock"
    /\ UNCHANGED <<queueVars, flushVars, result, m_hr, m_bTerminate, producer, control,
                   made, arrived>>

\* Latches the result of a sample; what is latched already stays.
ThreadReturn ==
    /\ thread = "returned"
    /\ m_hr' = IF held.kind = "sample" /\ m_hr = "S_OK" THEN result ELSE m_hr
    /\ held' = NoItem
    /\ thread' = "lock"
    /\ UNCHANGED <<queueVars, flushVars, result, m_bTerminate, producer, control,
                   made, arrived>>

-----------------------------------------------------------------------------
(***************************************************************************)
(* The graph thread, in the order of CMmtTlvSplitter::Stop and SeekTo:     *)
(* BeginFlush, join the worker, EndFlush; and Inactive deletes the queue.  *)
(***************************************************************************)
StartProducer ==
    /\ control = "idle" /\ producer = "stopped" /\ flushes < MaxFlushes
    /\ producer' = "ready"
    /\ UNCHANGED <<queueVars, flushVars, threadVars, m_hr, m_bTerminate, control,
                   made, arrived>>

\* Mutant of BeginFlush: a sleeping thread is not notified.
BeginFlushUnnotified ==
    /\ control = "idle" /\ flushes < MaxFlushes
    /\ m_bFlushing' = TRUE
    /\ m_hr' = IF m_hr = "S_OK" THEN "S_FALSE" ELSE m_hr
    /\ evFlushComplete' = FALSE
    /\ control' = "beginDown"
    /\ UNCHANGED <<queueVars, m_bFlushed, sinkFlushing, flushes, threadVars, m_bTerminate,
                   producer, made, arrived>>

BeginFlush ==
    /\ control = "idle" /\ flushes < MaxFlushes
    /\ m_bFlushing' = TRUE
    /\ m_hr' = IF m_hr = "S_OK" THEN "S_FALSE" ELSE m_hr
    /\ evFlushComplete' = FALSE
    /\ NotifyThread
    /\ control' = "beginDown"
    /\ UNCHANGED <<list, m_bFlushed, sinkFlushing, flushes, threadVars, m_bTerminate,
                   producer, made, arrived>>

BeginFlushDown ==
    /\ control = "beginDown"
    /\ sinkFlushing' = TRUE
    /\ control' = "begun"
    /\ UNCHANGED <<queueVars, m_bFlushing, m_bFlushed, evFlushComplete, flushes,
                   threadVars, m_hr, m_bTerminate, producer, made, arrived>>

\* StopThread waits for the worker, which may not be between the two halves of
\* NewSegment then.
JoinProducer ==
    /\ control = "begun" /\ producer \in {"ready", "stopped"}
    /\ producer' = "stopped"
    /\ control' = "joined"
    /\ UNCHANGED <<queueVars, flushVars, threadVars, m_hr, m_bTerminate, made, arrived>>

\* Mutant of EndFlushWait: EndFlush does not wait for the thread.
EndFlushWaitless ==
    /\ control = "joined"
    /\ evFlushComplete' = FALSE
    /\ control' = "clear"
    /\ UNCHANGED <<queueVars, m_bFlushing, m_bFlushed, sinkFlushing, flushes,
                   threadVars, m_hr, m_bTerminate, producer, made, arrived>>

EndFlushWait ==
    /\ control = "joined" /\ evFlushComplete
    /\ evFlushComplete' = FALSE
    /\ control' = "clear"
    /\ UNCHANGED <<queueVars, m_bFlushing, m_bFlushed, sinkFlushing, flushes,
                   threadVars, m_hr, m_bTerminate, producer, made, arrived>>

EndFlushClear ==
    /\ control = "clear"
    /\ m_bFlushing' = FALSE /\ m_bFlushed' = TRUE
    /\ control' = "endDown"
    /\ UNCHANGED <<queueVars, evFlushComplete, sinkFlushing, flushes, threadVars,
                   m_hr, m_bTerminate, producer, made, arrived>>

EndFlushDown ==
    /\ control = "endDown"
    /\ sinkFlushing' = FALSE /\ flushes' = flushes + 1
    /\ control' = "endHr"
    /\ UNCHANGED <<queueVars, m_bFlushing, m_bFlushed, evFlushComplete, threadVars,
                   m_hr, m_bTerminate, producer, made, arrived>>

EndFlushHr ==
    /\ control = "endHr"
    /\ m_hr' = "S_OK"
    /\ control' = "idle"
    /\ UNCHANGED <<queueVars, flushVars, threadVars, m_bTerminate, producer, made,
                   arrived>>

\* The destructor, and its wait for the thread.
Delete ==
    /\ control = "idle" /\ producer = "stopped"
    /\ m_bTerminate' = TRUE /\ m_hr' = "S_FALSE"
    /\ NotifyThread
    /\ control' = "dying"
    /\ UNCHANGED <<list, flushVars, threadVars, producer, made, arrived>>

DeleteWait ==
    /\ control = "dying" /\ thread = "exited"
    /\ control' = "gone"
    /\ UNCHANGED <<queueVars, flushVars, threadVars, m_hr, m_bTerminate, producer,
                   made, arrived>>

\* Nothing happens to a deleted queue.
Gone == control = "gone" /\ UNCHANGED vars

Thread == ThreadLock \/ ThreadWait \/ ThreadSend \/ ThreadReturn
Producer == Receive \/ EOS \/ NewSegmentCheck \/ NewSegmentQueue
Control == \/ StartProducer \/ BeginFlush \/ BeginFlushDown \/ JoinProducer
           \/ EndFlushWait \/ EndFlushClear \/ EndFlushDown \/ EndFlushHr
           \/ Delete \/ DeleteWait

Next == Thread \/ SinkCall \/ Producer \/ Control \/ Gone

Spec == Init /\ [][Next]_vars

(***************************************************************************)
(* The threads run.  The downstream pin returns from a call once it is     *)
(* told to flush, and never blocks in NewSegment; nothing is assumed of    *)
(* when it returns from any other call, since a renderer holds a sample as *)
(* long as the graph is paused.                                            *)
(***************************************************************************)
SinkReleases == SinkCall /\ (sinkFlushing \/ held.kind = "segment")

Fairness == /\ WF_vars(Thread)
            /\ WF_vars(SinkReleases)
            /\ WF_vars(NewSegmentQueue)
            /\ WF_vars(BeginFlushDown \/ JoinProducer \/ DeleteWait)
            /\ WF_vars(EndFlushWait \/ EndFlushClear \/ EndFlushDown \/ EndFlushHr)

FairSpec == Spec /\ Fairness

-----------------------------------------------------------------------------
Media(i) == i.kind # "segment"

(***************************************************************************)
(* A sample or an end of stream that the worker queued before a flush is   *)
(* never accepted downstream after that flush has ended there, however the *)
(* thread, the worker and the flush interleave: the seek that flushed      *)
(* would show a picture of the old position.                               *)
(***************************************************************************)
NoStaleMedia ==
    [][\A n \in DOMAIN arrived' \ DOMAIN arrived :
          Media(arrived'[n]) => arrived'[n].flush = flushes]_vars

(***************************************************************************)
(* Between two flushes the downstream pin sees the worker's items in order *)
(* and without a hole: once one sample is lost, nothing later of the same  *)
(* stretch arrives, the end of stream included (the sticky m_hr).          *)
(***************************************************************************)
NoGap ==
    \A m, n \in DOMAIN arrived :
        /\ m < n => arrived[m].id < arrived[n].id
        /\ m < n /\ Media(arrived[n]) /\ arrived[m].flush = arrived[n].flush
           => \A id \in arrived[m].id .. arrived[n].id :
                  \E k \in m .. n : arrived[k].id = id

(***************************************************************************)
(* The thread never sleeps on its semaphore with work to do: items, a      *)
(* request to terminate, or a flush whose completion it has not signalled. *)
(* The waker reads and clears m_lWaiting under the lock only.              *)
(***************************************************************************)
NoLostWakeup ==
    thread = "wait" /\ m_hSem = 0 =>
        /\ list = <<>>
        /\ ~m_bTerminate
        /\ control \in {"beginDown", "begun", "joined"} => evFlushComplete

(***************************************************************************)
(* The two ASSERT(!m_bFlushed) around the downstream Receive hold, and so  *)
(* does the assumption EndFlush states ("no more data to go downstream")   *)
(* for media: nothing is being sent when it writes m_hr without the lock.  *)
(***************************************************************************)
QuietEndFlush ==
    thread \in {"calling", "returned"} /\ held.kind = "sample" =>
        /\ ~m_bFlushed
        /\ control \notin {"clear", "endDown", "endHr", "dying", "gone"}

(***************************************************************************)
(* EndFlush and the destructor return, provided the downstream pin gives   *)
(* its calls back once it flushes: the filter waits for both while it      *)
(* holds m_pinLock.                                                        *)
(***************************************************************************)
FlushAndDeleteReturn == /\ control = "beginDown" ~> control = "idle"
                        /\ control = "dying" ~> control = "gone"

-----------------------------------------------------------------------------
(***************************************************************************)
(* The queue implements the channel.  The flush lasts from BeginFlush to   *)
(* EndFlush's last assignment, and an item is in flight from when the      *)
(* thread takes it to when the thread has dealt with the call's result.    *)
(***************************************************************************)
BoundedItem == [kind : Kind, id : 1 .. MaxItems, flush : 0 .. MaxFlushes]

chanOf == [mode     |-> IF control # "idle" THEN "flushing"
                        ELSE IF m_hr = "S_OK" THEN "open" ELSE "broken",
           pending  |-> list,
           inflight |-> held,
           landed   |-> /\ thread = "returned"
                        /\ arrived # <<>> /\ arrived[Len(arrived)] = held]

Abstract == INSTANCE FlushChannel
                WITH Item <- BoundedItem, Segment <- {i \in BoundedItem : i.kind = "segment"},
                     NoItem <- NoItem, chan <- chanOf

\* Every behaviour of the queue is one of the channel: a flushable FIFO.
ImplementsChannel == Abstract!Spec
=============================================================================
