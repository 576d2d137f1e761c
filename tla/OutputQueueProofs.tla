-------------------------- MODULE OutputQueueProofs --------------------------
(***************************************************************************)
(* The safety of COutputQueue for every bound, and that it is a channel.   *)
(*                                                                         *)
(* Inv is inductive; the argument is that the event of a flush is          *)
(* signalled only by a thread that holds nothing and has just emptied the  *)
(* list (Quiet), that from BeginFlush on the sticky m_hr keeps media out   *)
(* (Latched), and that the waiting flag and the semaphore together say     *)
(* where the thread sleeps.                                                *)
(*                                                                         *)
(* Stream is inductive beside it: the items that have arrived, the one in  *)
(* hand and the list are one stream in the order of making (Ordered), of   *)
(* which nothing is missing while m_hr is S_OK (Complete).  The refinement *)
(* of FlushChannel uses both.                                              *)
(***************************************************************************)
EXTENDS OutputQueue, TLAPS

Flushing == {"beginDown", "begun", "joined"}

\* The flag or the semaphore is up exactly while the thread sleeps, and the
\* flag only while there is nothing to do.
Sleeping ==
    /\ (thread = "wait") <=> (m_lWaiting + m_hSem = 1)
    /\ m_lWaiting + m_hSem <= 1
    /\ m_lWaiting = 1 => /\ list = <<>> /\ ~m_bTerminate
                         /\ control \in Flushing => evFlushComplete

\* The thread holds an item exactly while it deals with one.
Holding == (held # NoItem) <=> (thread \in {"send", "calling", "returned"})

\* The flags follow the graph thread.
Flags ==
    /\ m_bTerminate <=> control \in {"dying", "gone"}
    /\ thread = "exited" => m_bTerminate
    /\ m_bFlushing <=> control \in Flushing \cup {"clear"}
    /\ sinkFlushing <=> control \in {"begun", "joined", "clear", "endDown"}
    /\ control \in {"joined", "clear", "endDown", "endHr", "dying", "gone"}
       => producer = "stopped"

\* From BeginFlush to the end of EndFlush, and once deleted, nothing is queued.
Latched == control # "idle" => m_hr # "S_OK"

\* The flush has passed the thread, or no worker has run since it ended.
Flushed == \/ control \in {"clear", "endDown", "endHr", "dying", "gone"}
           \/ control = "idle" /\ producer = "stopped"
           \/ control \in Flushing /\ evFlushComplete

Queued(i) == i = held \/ \E n \in DOMAIN list : i = list[n]

\* Then only segments are left in the queue.
Quiet == Flushed => \A i \in Item : Queued(i) => i.kind = "segment"

\* Media in the queue belongs to the current stretch, and a queue that holds
\* some is not marked as flushed.
Current == \A i \in Item : Queued(i) /\ Media(i) => i.flush = flushes /\ ~m_bFlushed

Inv == TypeOK /\ Sleeping /\ Holding /\ Flags /\ Latched /\ Quiet /\ Current

-----------------------------------------------------------------------------
\* The flags of TypeOK, and the rest of it.
FlagsTyped ==
    /\ m_bFlushing \in BOOLEAN /\ m_bFlushed \in BOOLEAN /\ m_bTerminate \in BOOLEAN
    /\ evFlushComplete \in BOOLEAN /\ sinkFlushing \in BOOLEAN

DataTyped ==
    /\ list \in Seq(Item) /\ arrived \in Seq(Item)
    /\ m_hr \in HResult /\ result \in HResult
    /\ m_lWaiting \in {0, 1} /\ m_hSem \in {0, 1}
    /\ held \in Item \cup {NoItem}
    /\ thread \in ThreadPC /\ producer \in ProducerPC /\ control \in ControlPC
    /\ made \in Nat /\ flushes \in Nat

LEMMA TypeParts == TypeOK <=> FlagsTyped /\ DataTyped
BY Zenon DEF TypeOK, FlagsTyped, DataTyped

LEMMA TypePartsNext == TypeOK' <=> FlagsTyped' /\ DataTyped'
BY TypeParts, PTL

LEMMA AppendElements ==
    ASSUME NEW S, NEW s \in Seq(S), NEW x \in S, NEW n \in DOMAIN Append(s, x)
    PROVE  \/ n \in DOMAIN s /\ Append(s, x)[n] = s[n]
           \/ Append(s, x)[n] = x
OBVIOUS

LEMMA AppendTyped ==
    ASSUME NEW S, NEW s \in Seq(S), NEW x \in S
    PROVE  Append(s, x) \in Seq(S)
OBVIOUS

LEMMA TailElements ==
    ASSUME NEW S, NEW s \in Seq(S), s # <<>>
    PROVE  /\ 1 \in DOMAIN s /\ Head(s) = s[1] /\ Tail(s) \in Seq(S)
           /\ \A n \in DOMAIN Tail(s) : n + 1 \in DOMAIN s /\ Tail(s)[n] = s[n + 1]
OBVIOUS

LEMMA NoItemNotItem == NoItem \notin Item
BY DEF NoItem, Item, Kind

LEMMA InvInit == Init => Inv
<1> SUFFICES ASSUME Init PROVE Inv
  OBVIOUS
<1>1. FlagsTyped
  BY Zenon DEF Init, FlagsTyped
<1>2. DataTyped
  BY SMT DEF Init, DataTyped, HResult, ThreadPC, ProducerPC, ControlPC
<1>3. Sleeping /\ Holding /\ Flags /\ Latched /\ Quiet /\ Current
  BY NoItemNotItem DEF Init, Sleeping, Holding, Flags, Latched, Quiet, Current, Queued,
     Flushing
<1> QED
  BY <1>1, <1>2, <1>3, TypeParts DEF Inv

LEMMA InvNext == Inv /\ [Next]_vars => Inv'
<1> SUFFICES ASSUME Inv, [Next]_vars PROVE Inv'
  OBVIOUS
<1> USE DEF Inv, TypeOK, Sleeping, Holding, Flags, Flushing, Latched
<1> USE DEF Item, Kind, HResult, ThreadPC, ProducerPC, ControlPC
<1> USE DEF queueVars, flushVars, threadVars, NotifyThread, QueueSample, Made
<1>1. CASE Receive
  <2>1. FlagsTyped'
    BY Zenon, <1>1 DEF Receive, FlagsTyped
  <2>2. Made("sample") \in Item
    BY DEF Made
  <2>3. CASE m_hr = "S_OK"
    <3>1. /\ list' = Append(list, Made("sample")) /\ m_bFlushed' = FALSE
          /\ m_hSem' = m_hSem + m_lWaiting /\ m_lWaiting' = 0
          /\ made' = made + 1
          /\ UNCHANGED <<m_bFlushing, evFlushComplete, sinkFlushing, flushes, held, thread,
                         result, m_hr, m_bTerminate, producer, control, arrived>>
      BY <1>1, <2>3 DEF Receive
    <3>2. ~Flushed'
      BY <1>1, <2>3, <3>1 DEF Receive, Flushed
    <3>3. DataTyped'
      BY <2>2, <3>1 DEF DataTyped
    <3>4. Sleeping' /\ Holding' /\ Flags' /\ Latched'
      BY <2>2, <3>1
    <3>5. \A i \in Item : Queued(i)' => Queued(i) \/ i = Made("sample")
      BY <2>2, <3>1, AppendElements DEF Queued
    <3>6. Made("sample").flush = flushes
      OBVIOUS
    <3>7. Current'
      <4> SUFFICES ASSUME NEW i \in Item, Queued(i)', Media(i)
                   PROVE  i.flush = flushes
        BY <3>1 DEF Current, Media
      <4> QED
        BY <3>5, <3>6 DEF Current
    <3> QED
      BY <2>1, <3>2, <3>3, <3>4, <3>7, TypePartsNext DEF Quiet
  <2>4. CASE m_hr # "S_OK"
    <3>1. UNCHANGED <<queueVars, flushVars, threadVars, m_hr, m_bTerminate, producer,
                      control, arrived>> /\ made' = made + 1
      BY <1>1, <2>4 DEF Receive
    <3>2. DataTyped'
      BY <3>1 DEF DataTyped
    <3>3. Sleeping' /\ Holding' /\ Flags' /\ Latched'
      BY <3>1
    <3>4. Quiet' /\ Current'
      BY <3>1 DEF Quiet, Queued, Flushed, Current, Media
    <3> QED
      BY <2>1, <3>2, <3>3, <3>4, TypePartsNext
  <2> QED
    BY <2>3, <2>4
<1>2. CASE EOS
  <2>1. FlagsTyped'
    BY Zenon, <1>2 DEF EOS, FlagsTyped
  <2>2. Made("eos") \in Item
    BY DEF Made
  <2>3. CASE m_hr = "S_OK"
    <3>1. /\ list' = Append(list, Made("eos")) /\ m_bFlushed' = FALSE
          /\ m_hSem' = m_hSem + m_lWaiting /\ m_lWaiting' = 0
          /\ made' = made + 1
          /\ UNCHANGED <<m_bFlushing, evFlushComplete, sinkFlushing, flushes, held, thread,
                         result, m_hr, m_bTerminate, producer, control, arrived>>
      BY <1>2, <2>3 DEF EOS
    <3>2. ~Flushed'
      BY <1>2, <2>3, <3>1 DEF EOS, Flushed
    <3>3. DataTyped'
      BY <2>2, <3>1 DEF DataTyped
    <3>4. Sleeping' /\ Holding' /\ Flags' /\ Latched'
      BY <2>2, <3>1
    <3>5. \A i \in Item : Queued(i)' => Queued(i) \/ i = Made("eos")
      BY <2>2, <3>1, AppendElements DEF Queued
    <3>6. Made("eos").flush = flushes
      OBVIOUS
    <3>7. Current'
      <4> SUFFICES ASSUME NEW i \in Item, Queued(i)', Media(i)
                   PROVE  i.flush = flushes
        BY <3>1 DEF Current, Media
      <4> QED
        BY <3>5, <3>6 DEF Current
    <3> QED
      BY <2>1, <3>2, <3>3, <3>4, <3>7, TypePartsNext DEF Quiet
  <2>4. CASE m_hr # "S_OK"
    <3>1. UNCHANGED <<queueVars, flushVars, threadVars, m_hr, m_bTerminate, producer,
                      control, arrived>> /\ made' = made + 1
      BY <1>2, <2>4 DEF EOS
    <3>2. DataTyped'
      BY <3>1 DEF DataTyped
    <3>3. Sleeping' /\ Holding' /\ Flags' /\ Latched'
      BY <3>1
    <3>4. Quiet' /\ Current'
      BY <3>1 DEF Quiet, Queued, Flushed, Current, Media
    <3> QED
      BY <2>1, <3>2, <3>3, <3>4, TypePartsNext
  <2> QED
    BY <2>3, <2>4
<1>3. CASE NewSegmentCheck
  <2>1. FlagsTyped'
    BY Zenon, <1>3 DEF NewSegmentCheck, FlagsTyped
  <2>2. DataTyped'
    BY <1>3 DEF NewSegmentCheck, DataTyped
  <2>3. Sleeping' /\ Holding' /\ Flags' /\ Latched'
    BY <1>3, NoItemNotItem DEF NewSegmentCheck
  <2>4. Quiet'
    BY <1>3, NoItemNotItem DEF NewSegmentCheck, Quiet, Queued, Flushed
  <2>5. Current'
    BY <1>3, NoItemNotItem DEF NewSegmentCheck, Current, Queued, Media, Quiet, Flushed
  <2> QED
    BY <2>1, <2>2, <2>3, <2>4, <2>5, TypePartsNext
<1>4. CASE NewSegmentQueue
  <2>1. FlagsTyped'
    BY Zenon, <1>4 DEF NewSegmentQueue, FlagsTyped
  <2>2. Made("segment") \in Item /\ Made("segment").kind = "segment"
    BY DEF Made
  <2>3. DataTyped'
    BY <1>4, <2>2 DEF NewSegmentQueue, DataTyped
  <2>4. Sleeping' /\ Holding' /\ Flags' /\ Latched'
    BY <1>4, NoItemNotItem DEF NewSegmentQueue
  <2>5. \A i \in Item : Queued(i)' => Queued(i) \/ i = Made("segment")
    BY <1>4, <2>2, AppendElements DEF NewSegmentQueue, Queued
  <2>6. Quiet'
    BY <1>4, <2>2, <2>5 DEF NewSegmentQueue, Quiet, Flushed
  <2>7. Current'
    BY <1>4, <2>2, <2>5 DEF NewSegmentQueue, Current, Media
  <2> QED
    BY <2>1, <2>3, <2>4, <2>6, <2>7, TypePartsNext
<1>5. CASE ThreadLock
  <2>1. FlagsTyped'
    BY Zenon, <1>5 DEF ThreadLock, FlagsTyped
  <2>2. CASE m_bTerminate
    <3>1. /\ list' = <<>> /\ thread' = "exited" /\ thread = "lock"
          /\ UNCHANGED <<m_lWaiting, m_hSem, flushVars, held, result, m_hr, m_bTerminate,
                         producer, control, made, arrived>>
      BY <1>5, <2>2 DEF ThreadLock
    <3> QED
      BY <2>1, <2>2, <3>1, TypePartsNext, NoItemNotItem
         DEF DataTyped, Quiet, Current, Queued, Flushed, Media
  <2>3. CASE ~m_bTerminate /\ (m_bFlushing \/ list = <<>>)
    <3>1. /\ list' = <<>> /\ thread' = "wait" /\ thread = "lock"
          /\ m_lWaiting' = m_lWaiting + 1
          /\ evFlushComplete' = (evFlushComplete \/ m_bFlushing)
          /\ UNCHANGED <<m_hSem, m_bFlushing, m_bFlushed, sinkFlushing, flushes, held,
                         result, m_hr, m_bTerminate, producer, control, made, arrived>>
      BY <1>5, <2>3 DEF ThreadLock
    <3>2. DataTyped'
      BY <3>1 DEF DataTyped
    <3>3. Sleeping' /\ Holding' /\ Flags' /\ Latched'
      BY <2>3, <3>1
    <3>4. Quiet' /\ Current'
      BY <3>1, NoItemNotItem DEF Quiet, Current, Queued, Flushed, Media
    <3> QED
      BY <2>1, <3>2, <3>3, <3>4, TypePartsNext
  <2>4. CASE ~m_bTerminate /\ ~m_bFlushing /\ list # <<>>
    <3>1. /\ held' = Head(list) /\ list' = Tail(list)
          /\ thread' = "send" /\ thread = "lock"
          /\ UNCHANGED <<m_lWaiting, m_hSem, flushVars, result, m_hr, m_bTerminate,
                         producer, control, made, arrived>>
      BY <1>5, <2>4 DEF ThreadLock
    <3>2. /\ list \in Seq(Item) /\ list' \in Seq(Item) /\ held' \in Item
      <4>1. list \in Seq(Item)
        OBVIOUS
      <4> HIDE DEF Item, Inv
      <4>2. Head(list) \in Item
        BY <4>1, <2>4
      <4>3. Tail(list) \in Seq(Item)
        BY <4>1, <2>4, TailElements
      <4> QED
        BY <4>1, <4>2, <4>3, <3>1
    <3>3. \A i \in Item : Queued(i)' => Queued(i)
      BY <2>4, <3>1, <3>2, TailElements DEF Queued
    <3>4. DataTyped'
      BY <3>1, <3>2 DEF DataTyped
    <3>5. Sleeping' /\ Holding' /\ Flags' /\ Latched'
      BY <2>4, <3>1, <3>2, NoItemNotItem
    <3>6. Quiet' /\ Current'
      BY <3>1, <3>3 DEF Quiet, Current, Flushed, Media
    <3> QED
      BY <2>1, <3>4, <3>5, <3>6, TypePartsNext
  <2> QED
    BY <2>2, <2>3, <2>4
<1>6. CASE ThreadWait
  <2>1. FlagsTyped'
    BY Zenon, <1>6 DEF ThreadWait, FlagsTyped
  <2>2. DataTyped'
    BY <1>6 DEF ThreadWait, DataTyped
  <2>3. Sleeping' /\ Holding' /\ Flags' /\ Latched'
    BY <1>6, NoItemNotItem DEF ThreadWait
  <2>4. Quiet'
    BY <1>6, NoItemNotItem DEF ThreadWait, Quiet, Queued, Flushed
  <2>5. Current'
    BY <1>6, NoItemNotItem DEF ThreadWait, Current, Queued, Media, Quiet, Flushed
  <2> QED
    BY <2>1, <2>2, <2>3, <2>4, <2>5, TypePartsNext
<1>7. CASE ThreadSend
  <2>1. FlagsTyped'
    BY Zenon, <1>7 DEF ThreadSend, FlagsTyped
  <2>2. DataTyped'
    BY <1>7 DEF ThreadSend, DataTyped
  <2>3. Sleeping' /\ Holding' /\ Flags' /\ Latched'
    BY <1>7, NoItemNotItem DEF ThreadSend
  <2>4. Quiet'
    BY <1>7, NoItemNotItem DEF ThreadSend, Quiet, Queued, Flushed
  <2>5. Current'
    BY <1>7, NoItemNotItem DEF ThreadSend, Current, Queued, Media, Quiet, Flushed
  <2> QED
    BY <2>1, <2>2, <2>3, <2>4, <2>5, TypePartsNext
<1>8. CASE SinkCall
  <2>1. FlagsTyped'
    BY Zenon, <1>8 DEF SinkCall, FlagsTyped
  <2>2. DataTyped'
    <3>1. held \in Item
      BY <1>8 DEF SinkCall
    <3>2. arrived' = arrived \/ arrived' = Append(arrived, held)
      BY <1>8 DEF SinkCall
    <3>3. arrived' \in Seq(Item)
      <4>1. arrived \in Seq(Item)
        OBVIOUS
      <4> HIDE DEF Item, Inv
      <4> QED
        BY <4>1, <3>1, <3>2, AppendTyped
    <3>4. result' \in HResult
      BY <1>8 DEF SinkCall
    <3> QED
      BY <1>8, <3>3, <3>4 DEF SinkCall, DataTyped
  <2>3. Sleeping' /\ Holding' /\ Flags' /\ Latched'
    BY <1>8, NoItemNotItem DEF SinkCall
  <2>4. Quiet'
    BY <1>8, NoItemNotItem DEF SinkCall, Quiet, Queued, Flushed
  <2>5. Current'
    BY <1>8, NoItemNotItem DEF SinkCall, Current, Queued, Media, Quiet, Flushed
  <2> QED
    BY <2>1, <2>2, <2>3, <2>4, <2>5, TypePartsNext
<1>9. CASE ThreadReturn
  <2>1. FlagsTyped'
    BY Zenon, <1>9 DEF ThreadReturn, FlagsTyped
  <2>2. DataTyped'
    BY <1>9 DEF ThreadReturn, DataTyped
  <2>3. Sleeping' /\ Holding' /\ Flags' /\ Latched'
    BY <1>9, NoItemNotItem DEF ThreadReturn
  <2>4. Quiet'
    BY <1>9, NoItemNotItem DEF ThreadReturn, Quiet, Queued, Flushed
  <2>5. Current'
    BY <1>9, NoItemNotItem DEF ThreadReturn, Current, Queued, Media, Quiet, Flushed
  <2> QED
    BY <2>1, <2>2, <2>3, <2>4, <2>5, TypePartsNext
<1>10. CASE StartProducer
  <2>1. FlagsTyped'
    BY Zenon, <1>10 DEF StartProducer, FlagsTyped
  <2>2. DataTyped'
    BY <1>10 DEF StartProducer, DataTyped
  <2>3. Sleeping' /\ Holding' /\ Flags' /\ Latched'
    BY <1>10, NoItemNotItem DEF StartProducer
  <2>4. Quiet'
    BY <1>10, NoItemNotItem DEF StartProducer, Quiet, Queued, Flushed
  <2>5. Current'
    BY <1>10, NoItemNotItem DEF StartProducer, Current, Queued, Media, Quiet, Flushed
  <2> QED
    BY <2>1, <2>2, <2>3, <2>4, <2>5, TypePartsNext
<1>11. CASE BeginFlush
  <2>1. FlagsTyped'
    BY Zenon, <1>11 DEF BeginFlush, FlagsTyped
  <2>2. DataTyped'
    BY <1>11 DEF BeginFlush, DataTyped
  <2>3. Sleeping' /\ Holding' /\ Flags' /\ Latched'
    BY <1>11, NoItemNotItem DEF BeginFlush
  <2>4. Quiet'
    BY <1>11, NoItemNotItem DEF BeginFlush, Quiet, Queued, Flushed
  <2>5. Current'
    BY <1>11, NoItemNotItem DEF BeginFlush, Current, Queued, Media, Quiet, Flushed
  <2> QED
    BY <2>1, <2>2, <2>3, <2>4, <2>5, TypePartsNext
<1>12. CASE BeginFlushDown
  <2>1. FlagsTyped'
    BY Zenon, <1>12 DEF BeginFlushDown, FlagsTyped
  <2>2. DataTyped'
    BY <1>12 DEF BeginFlushDown, DataTyped
  <2>3. Sleeping' /\ Holding' /\ Flags' /\ Latched'
    BY <1>12, NoItemNotItem DEF BeginFlushDown
  <2>4. Quiet'
    BY <1>12, NoItemNotItem DEF BeginFlushDown, Quiet, Queued, Flushed
  <2>5. Current'
    BY <1>12, NoItemNotItem DEF BeginFlushDown, Current, Queued, Media, Quiet, Flushed
  <2> QED
    BY <2>1, <2>2, <2>3, <2>4, <2>5, TypePartsNext
<1>13. CASE JoinProducer
  <2>1. FlagsTyped'
    BY Zenon, <1>13 DEF JoinProducer, FlagsTyped
  <2>2. DataTyped'
    BY <1>13 DEF JoinProducer, DataTyped
  <2>3. Sleeping' /\ Holding' /\ Flags' /\ Latched'
    BY <1>13, NoItemNotItem DEF JoinProducer
  <2>4. Quiet'
    BY <1>13, NoItemNotItem DEF JoinProducer, Quiet, Queued, Flushed
  <2>5. Current'
    BY <1>13, NoItemNotItem DEF JoinProducer, Current, Queued, Media, Quiet, Flushed
  <2> QED
    BY <2>1, <2>2, <2>3, <2>4, <2>5, TypePartsNext
<1>14. CASE EndFlushWait
  <2>1. FlagsTyped'
    BY Zenon, <1>14 DEF EndFlushWait, FlagsTyped
  <2>2. DataTyped'
    BY <1>14 DEF EndFlushWait, DataTyped
  <2>3. Sleeping' /\ Holding' /\ Flags' /\ Latched'
    BY <1>14, NoItemNotItem DEF EndFlushWait
  <2>4. Quiet'
    BY <1>14, NoItemNotItem DEF EndFlushWait, Quiet, Queued, Flushed
  <2>5. Current'
    BY <1>14, NoItemNotItem DEF EndFlushWait, Current, Queued, Media, Quiet, Flushed
  <2> QED
    BY <2>1, <2>2, <2>3, <2>4, <2>5, TypePartsNext
<1>15. CASE EndFlushClear
  <2>1. FlagsTyped'
    BY Zenon, <1>15 DEF EndFlushClear, FlagsTyped
  <2>2. DataTyped'
    BY <1>15 DEF EndFlushClear, DataTyped
  <2>3. Sleeping' /\ Holding' /\ Flags' /\ Latched'
    BY <1>15, NoItemNotItem DEF EndFlushClear
  <2>4. Quiet'
    BY <1>15, NoItemNotItem DEF EndFlushClear, Quiet, Queued, Flushed
  <2>5. Current'
    BY <1>15, NoItemNotItem DEF EndFlushClear, Current, Queued, Media, Quiet, Flushed
  <2> QED
    BY <2>1, <2>2, <2>3, <2>4, <2>5, TypePartsNext
<1>16. CASE EndFlushDown
  <2>1. FlagsTyped'
    BY Zenon, <1>16 DEF EndFlushDown, FlagsTyped
  <2>2. DataTyped'
    BY <1>16 DEF EndFlushDown, DataTyped
  <2>3. Sleeping' /\ Holding' /\ Flags' /\ Latched'
    BY <1>16, NoItemNotItem DEF EndFlushDown
  <2>4. Quiet'
    BY <1>16, NoItemNotItem DEF EndFlushDown, Quiet, Queued, Flushed
  <2>5. Current'
    BY <1>16, NoItemNotItem DEF EndFlushDown, Current, Queued, Media, Quiet, Flushed
  <2> QED
    BY <2>1, <2>2, <2>3, <2>4, <2>5, TypePartsNext
<1>17. CASE EndFlushHr
  <2>1. FlagsTyped'
    BY Zenon, <1>17 DEF EndFlushHr, FlagsTyped
  <2>2. DataTyped'
    BY <1>17 DEF EndFlushHr, DataTyped
  <2>3. Sleeping' /\ Holding' /\ Flags' /\ Latched'
    BY <1>17, NoItemNotItem DEF EndFlushHr
  <2>4. Quiet'
    BY <1>17, NoItemNotItem DEF EndFlushHr, Quiet, Queued, Flushed
  <2>5. Current'
    BY <1>17, NoItemNotItem DEF EndFlushHr, Current, Queued, Media, Quiet, Flushed
  <2> QED
    BY <2>1, <2>2, <2>3, <2>4, <2>5, TypePartsNext
<1>18. CASE Delete
  <2>1. FlagsTyped'
    BY Zenon, <1>18 DEF Delete, FlagsTyped
  <2>2. DataTyped'
    BY <1>18 DEF Delete, DataTyped
  <2>3. Sleeping' /\ Holding' /\ Flags' /\ Latched'
    BY <1>18, NoItemNotItem DEF Delete
  <2>4. Quiet'
    BY <1>18, NoItemNotItem DEF Delete, Quiet, Queued, Flushed
  <2>5. Current'
    BY <1>18, NoItemNotItem DEF Delete, Current, Queued, Media, Quiet, Flushed
  <2> QED
    BY <2>1, <2>2, <2>3, <2>4, <2>5, TypePartsNext
<1>19. CASE DeleteWait
  <2>1. FlagsTyped'
    BY Zenon, <1>19 DEF DeleteWait, FlagsTyped
  <2>2. DataTyped'
    BY <1>19 DEF DeleteWait, DataTyped
  <2>3. Sleeping' /\ Holding' /\ Flags' /\ Latched'
    BY <1>19, NoItemNotItem DEF DeleteWait
  <2>4. Quiet'
    BY <1>19, NoItemNotItem DEF DeleteWait, Quiet, Queued, Flushed
  <2>5. Current'
    BY <1>19, NoItemNotItem DEF DeleteWait, Current, Queued, Media, Quiet, Flushed
  <2> QED
    BY <2>1, <2>2, <2>3, <2>4, <2>5, TypePartsNext
<1>20. CASE UNCHANGED vars
  BY <1>20 DEF vars, Quiet, Current, Queued, Flushed, Media
<1> QED
  BY <1>1, <1>2, <1>3, <1>4, <1>5, <1>6, <1>7, <1>8, <1>9, <1>10, <1>11, <1>12, <1>13, <1>14, <1>15, <1>16, <1>17, <1>18, <1>19, <1>20 DEF Next, Thread, Producer, Control, Gone

(***************************************************************************)
(* What the invariant gives.                                               *)
(***************************************************************************)
\* Inv holds in every reachable state, whatever the bounds.
THEOREM InvHolds == Spec => []Inv
BY InvInit, InvNext, PTL DEF Spec

\* Every variable keeps its type; in particular the thread never waits twice
\* (ASSERT(m_lWaiting == 0)) and the semaphore never exceeds one.
THEOREM TypeCorrect == Spec => []TypeOK
<1>1. Inv => TypeOK
  BY DEF Inv
<1> QED
  BY <1>1, InvHolds, PTL

\* The thread never sleeps with work to do, so no wakeup is ever lost.
THEOREM NoWakeupIsLost == Spec => []NoLostWakeup
<1>1. Inv => NoLostWakeup
  BY DEF Inv, TypeOK, Sleeping, Flushing, NoLostWakeup
<1> QED
  BY <1>1, InvHolds, PTL

\* No sample is on its way downstream once the flush event has been consumed.
THEOREM EndFlushIsQuiet == Spec => []QuietEndFlush
<1>1. Inv => QuietEndFlush
  BY NoItemNotItem
     DEF Inv, TypeOK, Holding, Quiet, Current, Queued, Flushed, Media, QuietEndFlush
<1> QED
  BY <1>1, InvHolds, PTL

\* Media of before a flush never arrives after it.
THEOREM NothingStaleArrives == Spec => NoStaleMedia
<1>1. Inv /\ [Next]_vars =>
        [\A n \in DOMAIN arrived' \ DOMAIN arrived :
            Media(arrived'[n]) => arrived'[n].flush = flushes]_vars
  <2> SUFFICES ASSUME Inv, Next, NEW n \in DOMAIN arrived' \ DOMAIN arrived,
                      Media(arrived'[n])
               PROVE  arrived'[n].flush = flushes
    OBVIOUS
  <2>1. SinkCall
    BY DEF Next, Thread, ThreadLock, ThreadWait, ThreadSend, ThreadReturn,
       Producer, Receive, EOS, NewSegmentCheck, NewSegmentQueue,
       Control, StartProducer, BeginFlush, BeginFlushDown, JoinProducer, EndFlushWait,
       EndFlushClear, EndFlushDown, EndFlushHr, Delete, DeleteWait, Gone, vars
  <2>2. held \in Item /\ arrived \in Seq(Item)
    BY <2>1 DEF SinkCall, Inv, TypeOK, Holding
  <2>3. arrived' = Append(arrived, held)
    BY <2>1 DEF SinkCall
  <2>4. arrived'[n] = held
    BY <2>2, <2>3
  <2> QED
    BY <2>2, <2>4 DEF Inv, Current, Queued
<1> QED
  BY <1>1, InvHolds, PTL DEF Spec, NoStaleMedia

-----------------------------------------------------------------------------
(***************************************************************************)
(* The stream: what the downstream pin has accepted, the item the thread   *)
(* holds, and the list.                                                    *)
(***************************************************************************)
Arrived(i) == \E n \in DOMAIN arrived : i = arrived[n]
InStream(i) == Queued(i) \/ Arrived(i)

HasLanded == thread = "returned" /\ arrived # <<>> /\ arrived[Len(arrived)] = held

\* Bounds, which a new segment keeps that the worker has begun to queue; and the
\* stretch of everything in the stream, which is over while a flush ends.
Bounded ==
    /\ made <= MaxItems /\ (producer = "segment" => made < MaxItems)
    /\ flushes <= MaxFlushes
    /\ control \in Flushing \cup {"clear", "endDown"} => flushes < MaxFlushes
    /\ \A i \in Item : InStream(i) =>
          /\ i.id >= 1 /\ i.id <= made /\ i.flush <= flushes
          /\ control = "endHr" => i.flush < flushes

\* The items of the stream are in the order they were made.
Ordered ==
    /\ \A m, n \in DOMAIN arrived : m < n => arrived[m].id < arrived[n].id
    /\ \A m, n \in DOMAIN list : m < n => list[m].id < list[n].id
    /\ \A m \in DOMAIN arrived, n \in DOMAIN list : arrived[m].id < list[n].id
    /\ held # NoItem => \A n \in DOMAIN list : held.id < list[n].id
    /\ held # NoItem /\ ~HasLanded => \A m \in DOMAIN arrived : arrived[m].id < held.id

\* While m_hr is S_OK, nothing made after an item of the stretch is missing.
Complete ==
    m_hr = "S_OK" => \A i \in Item : InStream(i) /\ i.flush = flushes =>
        \A id \in i.id .. made : \E j \in Item : InStream(j) /\ j.id = id

\* Media that is being sent was sent while m_hr was S_OK, and follows on what
\* has arrived of its stretch.
Sent ==
    thread = "calling" /\ Media(held) =>
        /\ control = "idle" => m_hr = "S_OK"
        /\ \A m \in DOMAIN arrived : arrived[m].flush = held.flush =>
              \A id \in arrived[m].id .. held.id - 1 :
                  \E k \in DOMAIN arrived : arrived[k].id = id

\* A call that has returned was accepted; or it failed; or it was an end of
\* stream during a flush, whose result does not say so.
Outcome ==
    thread = "returned" =>
        \/ HasLanded /\ (held.kind = "sample" => result = "S_OK")
        \/ ~HasLanded /\ held.kind = "sample" /\ result # "S_OK"
        \/ ~HasLanded /\ held.kind = "eos" /\ control # "idle"

Stream == Bounded /\ Ordered /\ Complete /\ Sent /\ Outcome /\ NoGap

LEMMA StreamInit == Init => Stream
<1> SUFFICES ASSUME Init PROVE Stream
  OBVIOUS
<1> USE DEF Init
<1>1. list = <<>> /\ arrived = <<>> /\ held = NoItem
  OBVIOUS
<1>2. \A i \in Item : ~InStream(i)
  BY <1>1, NoItemNotItem DEF InStream, Queued, Arrived
<1>3. Bounded
  BY <1>2, BoundsAssumption DEF Bounded, Flushing
<1>4. Ordered /\ NoGap
  BY <1>1 DEF Ordered, NoGap
<1>5. Complete /\ Sent /\ Outcome
  BY <1>2 DEF Complete, Sent, Outcome
<1> QED
  BY <1>3, <1>4, <1>5 DEF Stream

(***************************************************************************)
(* The steps by what they do to the stream.                                *)
(***************************************************************************)
\* The worker makes an item, which is queued or, as m_hr is not S_OK, is not.
Makes(i) ==
    /\ i \in Item /\ i.id = made + 1 /\ i.flush = flushes
    /\ made' = made + 1 /\ made < MaxItems
    /\ list' = Append(list, i)
    /\ UNCHANGED <<held, arrived, thread, m_hr, flushes, control, result>>

Drops == /\ m_hr # "S_OK" /\ made' = made + 1 /\ made < MaxItems
         /\ UNCHANGED <<list, held, arrived, thread, m_hr, flushes, control, result>>

\* The thread takes the first item, or empties the list.
Takes == /\ list # <<>> /\ held' = Head(list) /\ list' = Tail(list)
         /\ thread = "lock" /\ thread' = "send" /\ held = NoItem
         /\ UNCHANGED <<made, arrived, m_hr, flushes, control, result>>

Empties == /\ list' = <<>> /\ (list # <<>> => m_hr # "S_OK")
           /\ thread = "lock" /\ thread' \in {"wait", "exited"} /\ held = NoItem
           /\ UNCHANGED <<made, held, arrived, m_hr, flushes, control, result>>

\* The thread is done with the item.
Lets == /\ held # NoItem /\ held' = NoItem /\ thread' = "lock"
        /\ thread \in {"send", "returned"}
        /\ UNCHANGED <<list, made, arrived, flushes, control, result>>

\* Nothing of the stream changes.
Leaves == UNCHANGED <<list, held, made, arrived>>

LEMMA StreamSteps ==
    ASSUME Inv, Bounded, [Next]_vars
    PROVE  \/ \E i : Makes(i)
           \/ Drops \/ Takes \/ Empties
           \/ (ThreadSend /\ Lets) \/ (ThreadReturn /\ Lets)
           \/ SinkCall
           \/ Leaves
<1>0. TypeOK /\ Holding /\ Latched /\ Flags
  BY DEF Inv
<1>1. CASE Receive \/ EOS
  <2>1. CASE m_hr = "S_OK"
    <3>1. PICK kind \in Kind : list' = Append(list, Made(kind))
      BY <1>1, <2>1 DEF Receive, EOS, QueueSample, Kind
    <3>2. Makes(Made(kind))
      BY <1>0, <1>1, <3>1
         DEF Receive, EOS, Makes, Made, Item, TypeOK, threadVars, queueVars, flushVars
    <3> QED
      BY <3>2
  <2>2. CASE m_hr # "S_OK"
    BY <1>1, <2>2 DEF Receive, EOS, Drops, threadVars, queueVars
  <2> QED
    BY <2>1, <2>2
<1>2. CASE NewSegmentQueue
  <2>1. Makes(Made("segment"))
    BY <1>0, <1>2 DEF NewSegmentQueue, QueueSample, Makes, Made, Item, Kind, TypeOK, Bounded,
       threadVars, flushVars
  <2> QED
    BY <2>1
<1>3. CASE ThreadLock
  <2>0. held = NoItem
    BY <1>0, <1>3 DEF ThreadLock, Holding
  <2>1. CASE m_bTerminate \/ m_bFlushing \/ list = <<>>
    <3>1. list # <<>> => m_hr # "S_OK"
      BY <1>0, <2>1 DEF Flags, Latched, Flushing
    <3> QED
      BY <1>3, <2>0, <2>1, <3>1 DEF ThreadLock, Empties
  <2>2. CASE ~m_bTerminate /\ ~m_bFlushing /\ list # <<>>
    BY <1>3, <2>0, <2>2 DEF ThreadLock, Takes
  <2> QED
    BY <2>1, <2>2
<1>4. CASE ThreadSend \/ ThreadReturn
  <2>1. held # NoItem
    BY <1>0, <1>4 DEF ThreadSend, ThreadReturn, Holding
  <2> QED
    BY <1>4, <2>1 DEF ThreadSend, ThreadReturn, Lets, Leaves, queueVars, flushVars
<1>5. CASE ThreadWait \/ NewSegmentCheck \/ Control \/ Gone \/ UNCHANGED vars
  BY <1>5 DEF Leaves, ThreadWait, NewSegmentCheck, Control, StartProducer, BeginFlush,
     BeginFlushDown, JoinProducer, EndFlushWait, EndFlushClear, EndFlushDown, EndFlushHr, Delete,
     DeleteWait, Gone, vars, queueVars, threadVars
<1> QED
  BY <1>1, <1>2, <1>3, <1>4, <1>5 DEF Next, Thread, Producer

\* Only what the worker makes enters the stream.
LEMMA StreamGrows ==
    ASSUME Inv, Bounded, [Next]_vars, NEW i \in Item, InStream(i)'
    PROVE  InStream(i) \/ Makes(i)
<1>0. list \in Seq(Item) /\ arrived \in Seq(Item) /\ Holding
  BY DEF Inv, TypeOK
<1>1. CASE \E j : Makes(j)
  <2>1. PICK j : Makes(j)
    BY <1>1
  <2>2. j \in Item
    BY <2>1 DEF Makes
  <2>3. \A n \in DOMAIN Append(list, j) :
          (n \in DOMAIN list /\ Append(list, j)[n] = list[n]) \/ Append(list, j)[n] = j
    BY <1>0, <2>2, AppendElements
  <2>4. InStream(i) \/ i = j
    BY <2>1, <2>3 DEF Makes, InStream, Queued, Arrived
  <2> QED
    BY <2>1, <2>4
<1>2. CASE Takes
  BY <1>0, <1>2, TailElements DEF Takes, InStream, Queued, Arrived
<1>3. CASE Drops \/ Empties \/ Lets \/ Leaves
  BY <1>3, NoItemNotItem DEF Drops, Empties, Lets, Leaves, InStream, Queued, Arrived
<1>4. CASE SinkCall
  <2>1. held \in Item /\ UNCHANGED <<list, held>>
    BY <1>4 DEF SinkCall, Inv, TypeOK, Holding, queueVars
  <2>2. arrived' = arrived \/ arrived' = Append(arrived, held)
    BY <1>4 DEF SinkCall
  <2>3. \A n \in DOMAIN Append(arrived, held) :
          \/ n \in DOMAIN arrived /\ Append(arrived, held)[n] = arrived[n]
          \/ Append(arrived, held)[n] = held
    BY <1>0, <2>1, AppendElements
  <2> QED
    BY <2>1, <2>2, <2>3 DEF InStream, Queued, Arrived
<1> QED
  BY <1>1, <1>2, <1>3, <1>4, StreamSteps

LEMMA AppendShape ==
    ASSUME NEW S, NEW s \in Seq(S), NEW x \in S
    PROVE  /\ \A n \in DOMAIN Append(s, x) :
                  \/ n \in DOMAIN s /\ Append(s, x)[n] = s[n]
                  \/ Append(s, x)[n] = x /\ n = Len(s) + 1
           /\ Len(s) \in Nat /\ \A n \in DOMAIN s : n \in Nat /\ n <= Len(s)
           /\ \A n \in DOMAIN s : n \in DOMAIN Append(s, x) /\ Append(s, x)[n] = s[n]
           /\ Append(s, x) # <<>> /\ Append(s, x)[Len(Append(s, x))] = x
           /\ Len(s) + 1 \in DOMAIN Append(s, x) /\ Append(s, x)[Len(s) + 1] = x
<1>1. /\ Len(Append(s, x)) = Len(s) + 1 /\ Len(s) \in Nat
      /\ DOMAIN Append(s, x) = 1 .. Len(s) + 1 /\ DOMAIN s = 1 .. Len(s)
      /\ \A n \in 1 .. Len(s) : Append(s, x)[n] = s[n]
      /\ Append(s, x)[Len(s) + 1] = x
  OBVIOUS
<1>2. Append(s, x) # <<>>
  BY <1>1
<1> QED
  BY <1>1, <1>2

LEMMA BoundedNext == Inv /\ Bounded /\ [Next]_vars => Bounded'
<1> SUFFICES ASSUME Inv, Bounded, [Next]_vars PROVE Bounded'
  OBVIOUS
<1>0. /\ made \in Nat /\ flushes \in Nat /\ MaxItems \in Nat /\ MaxFlushes \in Nat
      /\ control \in ControlPC /\ producer \in ProducerPC
      /\ \A i \in Item : i.id \in Nat /\ i.flush \in Nat
      /\ Flags
  BY BoundsAssumption DEF Inv, TypeOK, Item
<1>1. \/ made' = made /\ (producer' = "segment" => producer = "segment" \/ made < MaxItems)
      \/ made' = made + 1 /\ made < MaxItems /\ producer' # "segment"
  BY <1>0 DEF Next, Thread, ThreadLock, ThreadWait, ThreadSend, ThreadReturn, SinkCall,
     Producer, Receive, EOS, NewSegmentCheck, NewSegmentQueue,
     Control, StartProducer, BeginFlush, BeginFlushDown, JoinProducer, EndFlushWait,
     EndFlushClear, EndFlushDown, EndFlushHr, Delete, DeleteWait, Gone, vars, Bounded
<1>2. \/ flushes' = flushes /\ control' \notin Flushing \cup {"clear", "endDown", "endHr"}
      \/ flushes' = flushes /\ control' = control
      \/ flushes' = flushes /\ control' \in Flushing \cup {"clear", "endDown"}
         /\ (control \in Flushing \cup {"clear", "endDown"} \/ flushes < MaxFlushes)
      \/ EndFlushDown /\ flushes' = flushes + 1 /\ control = "endDown" /\ control' = "endHr"
  BY <1>0 DEF Next, Thread, ThreadLock, ThreadWait, ThreadSend, ThreadReturn, SinkCall,
     Producer, Receive, EOS, NewSegmentCheck, NewSegmentQueue,
     Control, StartProducer, BeginFlush, BeginFlushDown, JoinProducer, EndFlushWait,
     EndFlushClear, EndFlushDown, EndFlushHr, Delete, DeleteWait, Gone, vars, flushVars, Flushing
<1>3. made' \in Nat /\ made' >= made /\ made' <= MaxItems
      /\ (producer' = "segment" => made' < MaxItems)
  BY <1>0, <1>1 DEF Bounded
<1>4. flushes' \in Nat /\ flushes' >= flushes /\ flushes' <= MaxFlushes
      /\ (control' \in Flushing \cup {"clear", "endDown"} => flushes' < MaxFlushes)
  <2>1. CASE EndFlushDown
    BY <1>0, <1>2, <2>1 DEF Bounded, Flushing, EndFlushDown, flushVars
  <2>2. CASE ~EndFlushDown
    BY <1>0, <1>2, <2>2 DEF Bounded
  <2> QED
    BY <2>1, <2>2
<1>5. ASSUME NEW i \in Item, InStream(i)'
      PROVE  /\ i.id >= 1 /\ i.id <= made' /\ i.flush <= flushes'
             /\ control' = "endHr" => i.flush < flushes'
  <2>1. CASE InStream(i)
    <3>1. i.id >= 1 /\ i.id <= made /\ i.flush <= flushes
          /\ (control = "endHr" => i.flush < flushes)
      BY <2>1 DEF Bounded
    <3>2. i.id <= made' /\ i.flush <= flushes'
      BY <1>0, <1>3, <1>4, <3>1
    <3>3. control' = "endHr" => i.flush < flushes'
      BY <1>0, <1>2, <3>1 DEF Flushing
    <3> QED
      BY <3>1, <3>2, <3>3
  <2>2. CASE Makes(i)
    <3>1. i.id = made + 1 /\ made' = made + 1 /\ i.flush = flushes /\ flushes' = flushes
          /\ control' = control
      BY <2>2 DEF Makes
    <3>2. producer # "stopped"
      <4>1. made' # made
        BY <1>0, <3>1
      <4> QED
        BY <4>1 DEF Next, Thread, ThreadLock, ThreadWait, ThreadSend, ThreadReturn, SinkCall,
           Producer, Receive, EOS, NewSegmentCheck, NewSegmentQueue,
           Control, StartProducer, BeginFlush, BeginFlushDown, JoinProducer, EndFlushWait,
           EndFlushClear, EndFlushDown, EndFlushHr, Delete, DeleteWait, Gone, vars
    <3>3. control # "endHr"
      BY <1>0, <3>2 DEF Flags
    <3> QED
      BY <1>0, <3>1, <3>3
  <2> QED
    BY <1>5, <2>1, <2>2, StreamGrows
<1> QED
  BY <1>3, <1>4, <1>5 DEF Bounded

LEMMA OrderedNext == Inv /\ Bounded /\ Ordered /\ [Next]_vars => Ordered'
<1> SUFFICES ASSUME Inv, Bounded, Ordered, [Next]_vars PROVE Ordered'
  OBVIOUS
<1>0. /\ list \in Seq(Item) /\ arrived \in Seq(Item) /\ held \in Item \cup {NoItem}
      /\ Holding /\ made \in Nat
      /\ \A i \in Item : i.id \in Nat
  BY DEF Inv, TypeOK, Item
<1>1. \A n \in DOMAIN list : list[n] \in Item /\ list[n].id <= made
  BY <1>0 DEF Bounded, InStream, Queued
<1>2. \A n \in DOMAIN arrived : arrived[n] \in Item /\ arrived[n].id <= made
  BY <1>0 DEF Bounded, InStream, Arrived
<1>3. held # NoItem => held \in Item /\ held.id <= made
  BY <1>0 DEF Bounded, InStream, Queued
<1>4. CASE \E i : Makes(i)
  <2>1. PICK i : Makes(i)
    BY <1>4
  <2>2. /\ i \in Item /\ i.id = made + 1 /\ list' = Append(list, i)
        /\ UNCHANGED <<held, arrived, thread>>
    BY <2>1 DEF Makes
  <2>3. /\ \A n \in DOMAIN list' : \/ n \in DOMAIN list /\ list'[n] = list[n]
                                   \/ list'[n] = i /\ n = Len(list) + 1
        /\ \A n \in DOMAIN list : n \in Nat /\ n <= Len(list)
        /\ Len(list) \in Nat
    <3>1. list \in Seq(Item) /\ i \in Item /\ list' = Append(list, i)
      BY <1>0, <2>2
    <3> QED
      BY ONLY <3>1, AppendShape
  <2>4. \A m, n \in DOMAIN list' : m < n => list'[m].id < list'[n].id
    <3> SUFFICES ASSUME NEW m \in DOMAIN list', NEW n \in DOMAIN list', m < n
                 PROVE  list'[m].id < list'[n].id
      OBVIOUS
    <3>1. m \in DOMAIN list /\ list'[m] = list[m]
      BY <2>3
    <3>2. CASE n \in DOMAIN list /\ list'[n] = list[n]
      BY <3>1, <3>2 DEF Ordered
    <3>3. CASE list'[n] = i
      BY <1>0, <1>1, <2>2, <3>1, <3>3
    <3> QED
      BY <2>3, <3>2, <3>3
  <2>5. \A m \in DOMAIN arrived, n \in DOMAIN list' : arrived[m].id < list'[n].id
    BY <1>0, <1>2, <2>2, <2>3 DEF Ordered
  <2>6. held # NoItem => \A n \in DOMAIN list' : held.id < list'[n].id
    BY <1>0, <1>3, <2>2, <2>3 DEF Ordered
  <2> QED
    BY <2>2, <2>4, <2>5, <2>6 DEF Ordered, HasLanded
<1>5. CASE Takes
  <2>1. /\ held' = list[1] /\ 1 \in DOMAIN list /\ held = NoItem
        /\ UNCHANGED arrived /\ thread' = "send"
        /\ \A n \in DOMAIN list' : n + 1 \in DOMAIN list /\ list'[n] = list[n + 1]
        /\ list' \in Seq(Item)
    BY <1>0, <1>5, TailElements DEF Takes
  <2>2. \A n \in DOMAIN list' : n \in Nat /\ n >= 1
    BY <2>1
  <2>3. \A m, n \in DOMAIN list' : m < n => list'[m].id < list'[n].id
    BY <2>1, <2>2 DEF Ordered
  <2>4. \A n \in DOMAIN list' : list[1].id < list'[n].id
    BY <2>1, <2>2 DEF Ordered
  <2> QED
    BY <2>1, <2>3, <2>4 DEF Ordered
<1>6. CASE Drops
  BY <1>6 DEF Drops, Ordered, HasLanded
<1>7. CASE Empties
  BY <1>7 DEF Empties, Ordered
<1>8. CASE Lets
  BY <1>8 DEF Lets, Ordered
<1>9. CASE SinkCall
  <2>1. /\ held \in Item /\ UNCHANGED <<list, held>>
        /\ thread = "calling" /\ thread' = "returned"
        /\ arrived' = arrived \/ arrived' = Append(arrived, held)
    BY <1>0, <1>9 DEF SinkCall, Holding, queueVars
  <2>2. \A m \in DOMAIN arrived : arrived[m].id < held.id
    BY <1>0, <2>1 DEF Ordered, Holding, HasLanded
  <2>3. CASE arrived' = arrived
    BY <2>1, <2>2, <2>3 DEF Ordered
  <2>4. CASE arrived' = Append(arrived, held)
    <3>1. /\ \A n \in DOMAIN arrived' :
                \/ n \in DOMAIN arrived /\ arrived'[n] = arrived[n]
                \/ arrived'[n] = held /\ n = Len(arrived) + 1
          /\ \A n \in DOMAIN arrived : n \in Nat /\ n <= Len(arrived)
          /\ Len(arrived) \in Nat
          /\ arrived' # <<>> /\ arrived'[Len(arrived')] = held
      <4>1. arrived \in Seq(Item) /\ held \in Item
        BY <1>0, <2>1
      <4> QED
        BY ONLY <2>4, <4>1, AppendShape
    <3>2. HasLanded'
      BY <2>1, <3>1 DEF HasLanded
    <3>3. \A m, n \in DOMAIN arrived' : m < n => arrived'[m].id < arrived'[n].id
      <4> SUFFICES ASSUME NEW m \in DOMAIN arrived', NEW n \in DOMAIN arrived', m < n
                   PROVE  arrived'[m].id < arrived'[n].id
        OBVIOUS
      <4>1. m \in DOMAIN arrived /\ arrived'[m] = arrived[m]
        BY <3>1
      <4>2. CASE n \in DOMAIN arrived /\ arrived'[n] = arrived[n]
        BY <4>1, <4>2 DEF Ordered
      <4>3. CASE arrived'[n] = held
        BY <2>2, <4>1, <4>3
      <4> QED
        BY <3>1, <4>2, <4>3
    <3>4. \A m \in DOMAIN arrived', n \in DOMAIN list : arrived'[m].id < list[n].id
      BY <1>0, <2>1, <3>1, NoItemNotItem DEF Ordered
    <3> QED
      BY <2>1, <3>2, <3>3, <3>4 DEF Ordered
  <2> QED
    BY <2>1, <2>3, <2>4
<1>10. CASE Leaves
  <2>1. HasLanded /\ held # NoItem => HasLanded'
    <3>1. thread = "returned" /\ held # NoItem /\ Leaves => thread' = "returned"
      BY <1>0 DEF Next, Thread, ThreadLock, ThreadWait, ThreadSend, ThreadReturn, SinkCall,
         Producer, Receive, EOS, NewSegmentCheck, NewSegmentQueue, Leaves,
         Control, StartProducer, BeginFlush, BeginFlushDown, JoinProducer, EndFlushWait,
         EndFlushClear, EndFlushDown, EndFlushHr, Delete, DeleteWait, Gone, vars, threadVars
    <3> QED
      BY <1>10, <3>1 DEF HasLanded, Leaves
  <2> QED
    BY <1>10, <2>1 DEF Ordered, Leaves
<1> QED
  BY <1>4, <1>5, <1>6, <1>7, <1>8, <1>9, <1>10, StreamSteps

LEMMA TailLosesHead ==
    ASSUME NEW S, NEW s \in Seq(S), s # <<>>, NEW n \in DOMAIN s
    PROVE  s[n] = Head(s) \/ \E m \in DOMAIN Tail(s) : Tail(s)[m] = s[n]
<1>1. /\ Len(s) \in Nat /\ n \in 1 .. Len(s) /\ Head(s) = s[1]
      /\ DOMAIN Tail(s) = 1 .. Len(s) - 1
      /\ \A m \in 1 .. Len(s) - 1 : Tail(s)[m] = s[m + 1]
  OBVIOUS
<1>2. CASE n # 1
  <2>1. n - 1 \in DOMAIN Tail(s) /\ (n - 1) + 1 = n
    BY <1>1, <1>2
  <2>2. Tail(s)[n - 1] = s[n]
    BY <1>1, <2>1
  <2> QED
    BY <2>1, <2>2
<1> QED
  BY <1>1, <1>2

LEMMA OutcomeNext == Inv /\ Stream /\ [Next]_vars => Outcome'
<1> SUFFICES ASSUME Inv, Stream, [Next]_vars, thread' = "returned" PROVE Outcome'
  BY DEF Outcome
<1>0. TypeOK /\ Holding /\ Flags /\ Quiet /\ Outcome
  BY DEF Inv, Stream
<1>1. CASE SinkCall
  <2>1. /\ thread = "calling" /\ held \in Item /\ held' = held /\ control' = control
        /\ arrived \in Seq(Item) /\ held.kind \in Kind
    BY <1>0, <1>1 DEF SinkCall, TypeOK, Holding, Item
  <2>2. ASSUME arrived' = Append(arrived, held) PROVE HasLanded'
    <3>1. arrived' # <<>> /\ arrived'[Len(arrived')] = held
      BY <2>1, <2>2, AppendShape
    <3> QED
      BY <2>1, <3>1 DEF HasLanded
  <2>3. ASSUME arrived' = arrived PROVE ~HasLanded'
    <3>1. \A m \in DOMAIN arrived : arrived[m].id < held.id
      BY <2>1, NoItemNotItem DEF Stream, Ordered, HasLanded
    <3>2. arrived # <<>> => Len(arrived) \in DOMAIN arrived
      BY <2>1
    <3>3. held.id \in Nat
      BY <2>1 DEF Item
    <3>4. arrived # <<>> => arrived[Len(arrived)] # held
      BY <3>1, <3>2, <3>3
    <3> QED
      BY <2>1, <2>3, <3>4 DEF HasLanded
  <2>4. CASE held.kind = "sample"
    BY <1>1, <2>1, <2>2, <2>3, <2>4 DEF SinkCall, Outcome
  <2>5. CASE held.kind = "segment"
    BY <1>1, <2>1, <2>2, <2>5 DEF SinkCall, Outcome
  <2>6. CASE held.kind = "eos"
    <3>1. CASE sinkFlushing
      <4>1. control # "idle"
        BY <1>0, <3>1 DEF Flags
      <4> QED
        BY <1>1, <2>1, <2>3, <2>6, <3>1, <4>1 DEF SinkCall, Outcome
    <3>2. CASE ~sinkFlushing
      BY <1>1, <2>1, <2>2, <2>6, <3>2 DEF SinkCall, Outcome
    <3> QED
      BY <3>1, <3>2
  <2> QED
    BY <2>1, <2>4, <2>5, <2>6 DEF Kind
<1>2. CASE ~SinkCall
  <2>1. thread = "returned" /\ UNCHANGED <<held, arrived, result>>
    BY <1>2 DEF Next, Thread, ThreadLock, ThreadWait, ThreadSend, ThreadReturn,
       Producer, Receive, EOS, NewSegmentCheck, NewSegmentQueue,
       Control, StartProducer, BeginFlush, BeginFlushDown, JoinProducer, EndFlushWait,
       EndFlushClear, EndFlushDown, EndFlushHr, Delete, DeleteWait, Gone, vars, threadVars
  <2>2. HasLanded' = HasLanded
    BY <2>1 DEF HasLanded
  <2>3. ASSUME held.kind = "eos", control # "idle" PROVE control' # "idle"
    <3>1. held \in Item
      BY <1>0, <2>1 DEF TypeOK, Holding
    <3>2. control # "endHr"
      BY <1>0, <2>3, <3>1 DEF Quiet, Flushed, Queued
    <3> QED
      BY <2>3, <3>2 DEF Next, Thread, ThreadLock, ThreadWait, ThreadSend, ThreadReturn, SinkCall,
         Producer, Receive, EOS, NewSegmentCheck, NewSegmentQueue,
         Control, StartProducer, BeginFlush, BeginFlushDown, JoinProducer, EndFlushWait,
         EndFlushClear, EndFlushDown, EndFlushHr, Delete, DeleteWait, Gone, vars
  <2> QED
    BY <1>0, <2>1, <2>2, <2>3 DEF Outcome
<1> QED
  BY <1>1, <1>2

\* A call that has returned S_OK and is dealt with leaves its item downstream.
LEMMA Accepted ==
    ASSUME Inv, Stream, ThreadReturn, m_hr' = "S_OK"
    PROVE  Arrived(held)
<1>0. /\ held \in Item /\ held.kind \in Kind /\ thread = "returned" /\ arrived \in Seq(Item)
      /\ Latched /\ Outcome
  BY DEF ThreadReturn, Inv, TypeOK, Holding, Stream, Item
<1>1. HasLanded
  BY <1>0 DEF ThreadReturn, Latched, Outcome, HResult
<1>2. arrived # <<>> => Len(arrived) \in DOMAIN arrived
  BY <1>0
<1> QED
  BY <1>1, <1>2 DEF HasLanded, Arrived

LEMMA CompleteNext == Inv /\ Stream /\ [Next]_vars => Complete'
<1> SUFFICES ASSUME Inv, Stream, [Next]_vars, m_hr' = "S_OK" PROVE Complete'
  BY DEF Complete
<1>0. /\ list \in Seq(Item) /\ arrived \in Seq(Item) /\ made \in Nat /\ flushes \in Nat
      /\ Holding /\ Latched /\ Bounded /\ Complete
      /\ \A i \in Item : i.id \in Nat /\ i.flush \in Nat
  BY DEF Inv, TypeOK, Item, Stream
<1>1. CASE EndFlushHr
  <2>1. UNCHANGED <<list, held, arrived, made, flushes>> /\ control = "endHr"
    BY <1>1 DEF EndFlushHr, queueVars, flushVars, threadVars
  <2>2. ASSUME NEW i \in Item, InStream(i)', i.flush = flushes PROVE FALSE
    <3>1. InStream(i)
      BY <2>1, <2>2 DEF InStream, Queued, Arrived
    <3> QED
      BY <1>0, <2>1, <2>2, <3>1 DEF Bounded
  <2> QED
    BY <2>1, <2>2 DEF Complete
<1>2. CASE ~EndFlushHr
  <2>1. m_hr = "S_OK"
    BY <1>2 DEF Next, Thread, ThreadLock, ThreadWait, ThreadSend, ThreadReturn, SinkCall,
       Producer, Receive, EOS, NewSegmentCheck, NewSegmentQueue,
       Control, StartProducer, BeginFlush, BeginFlushDown, JoinProducer, EndFlushWait,
       EndFlushClear, EndFlushDown, EndFlushHr, Delete, DeleteWait, Gone, vars
  <2>2. control = "idle"
    BY <1>0, <2>1 DEF Latched
  <2>3. flushes' = flushes
    BY <2>2 DEF Next, Thread, ThreadLock, ThreadWait, ThreadSend, ThreadReturn, SinkCall,
       Producer, Receive, EOS, NewSegmentCheck, NewSegmentQueue,
       Control, StartProducer, BeginFlush, BeginFlushDown, JoinProducer, EndFlushWait,
       EndFlushClear, EndFlushDown, EndFlushHr, Delete, DeleteWait, Gone, vars, flushVars
  <2>4. CASE \E i : Makes(i)
    <3>1. PICK i : Makes(i)
      BY <2>4
    <3>2. i \in Item /\ i.id = made + 1 /\ made' = made + 1
      BY <3>1 DEF Makes
    <3>3. \A j : InStream(j) => InStream(j)'
      BY <1>0, <3>1, <3>2, AppendShape DEF Makes, InStream, Queued, Arrived
    <3>4. InStream(i)'
      <4>1. Len(list) + 1 \in DOMAIN list' /\ list'[Len(list) + 1] = i
        BY <1>0, <3>1, <3>2, AppendShape DEF Makes
      <4> QED
        BY <4>1 DEF InStream, Queued
    <3>5. ASSUME NEW j \in Item, InStream(j)', j.flush = flushes, NEW id \in j.id .. made'
          PROVE  \E k \in Item : InStream(k)' /\ k.id = id
      <4>1. CASE id = made + 1
        BY <3>2, <3>4, <4>1
      <4>2. CASE id # made + 1
        <5>1. id \in Nat /\ id <= made
          BY <1>0, <3>2, <3>5, <4>2
        <5>2. InStream(j)
          <6>1. ASSUME Makes(j) PROVE FALSE
            <7>1. j.id = made + 1
              BY <6>1 DEF Makes
            <7> QED
              BY <1>0, <3>2, <3>5, <4>2, <7>1
          <6> QED
            BY <1>0, <3>5, <6>1, StreamGrows
        <5>3. id \in j.id .. made
          BY <1>0, <3>5, <5>1
        <5> QED
          BY <1>0, <2>1, <3>3, <3>5, <5>2, <5>3 DEF Complete
      <4> QED
        BY <4>1, <4>2
    <3> QED
      BY <2>3, <3>5 DEF Complete
  <2>5. CASE ~\E i : Makes(i)
    <3>1. \A j \in Item : InStream(j)' => InStream(j)
      BY <1>0, <2>5, StreamGrows
    <3>2. made' = made /\ \A j \in Item : InStream(j) => InStream(j)'
      <4>1. CASE Takes
        <5>1. \A n \in DOMAIN list : \/ list[n] = Head(list)
                                     \/ \E m \in DOMAIN Tail(list) : Tail(list)[m] = list[n]
          BY <1>0, <4>1, TailLosesHead DEF Takes
        <5> QED
          BY <4>1, <5>1, NoItemNotItem DEF Takes, InStream, Queued, Arrived
      <4>2. CASE Empties
        BY <2>1, <4>2 DEF Empties, InStream, Queued, Arrived
      <4>3. CASE ThreadSend /\ Lets
        BY <2>1, <4>3, NoItemNotItem DEF ThreadSend, Lets
      <4>4. CASE ThreadReturn /\ Lets
        BY <4>4, Accepted DEF Lets, InStream, Queued, Arrived
      <4>5. CASE SinkCall
        <5>1. held \in Item /\ UNCHANGED <<list, held, made>>
              /\ arrived' \in {arrived, Append(arrived, held)}
          BY <1>0, <4>5 DEF SinkCall, Holding, Inv, TypeOK, queueVars
        <5>2. \A n \in DOMAIN arrived : n \in DOMAIN Append(arrived, held)
                                        /\ Append(arrived, held)[n] = arrived[n]
          BY <1>0, <5>1, AppendShape
        <5> QED
          BY <5>1, <5>2 DEF InStream, Queued, Arrived
      <4>6. CASE Leaves
        BY <4>6 DEF Leaves, InStream, Queued, Arrived
      <4>7. ~Drops
        BY <2>1 DEF Drops
      <4> QED
        BY <1>0, <2>5, <4>1, <4>2, <4>3, <4>4, <4>5, <4>6, <4>7, StreamSteps
    <3> QED
      BY <1>0, <2>1, <2>3, <3>1, <3>2 DEF Complete
  <2> QED
    BY <2>4, <2>5
<1> QED
  BY <1>1, <1>2

LEMMA SentNext == Inv /\ Stream /\ [Next]_vars => Sent'
<1> SUFFICES ASSUME Inv, Stream, [Next]_vars, thread' = "calling", Media(held)' PROVE Sent'
  BY DEF Sent
<1>0. /\ arrived \in Seq(Item) /\ Holding /\ Bounded /\ Ordered /\ Complete /\ Sent /\ Current
      /\ held \in Item \cup {NoItem} /\ made \in Nat
      /\ \A i \in Item : i.id \in Nat
  BY DEF Inv, TypeOK, Item, Stream
<1>1. CASE ThreadSend
  <2>1. /\ thread = "send" /\ held \in Item /\ m_hr = "S_OK" /\ Media(held)
        /\ UNCHANGED <<held, arrived, m_hr>>
    BY <1>0, <1>1 DEF ThreadSend, Media, Holding
  <2>2. held.flush = flushes /\ held.id <= made
    BY <1>0, <2>1 DEF Current, Bounded, InStream, Queued
  <2>3. ASSUME NEW m \in DOMAIN arrived, arrived[m].flush = held.flush,
               NEW id \in arrived[m].id .. held.id - 1
        PROVE  \E k \in DOMAIN arrived : arrived[k].id = id
    <3>1. arrived[m] \in Item /\ InStream(arrived[m]) /\ arrived[m].flush = flushes
      BY <1>0, <2>2, <2>3 DEF InStream, Arrived
    <3>2. id \in arrived[m].id .. made /\ id < held.id
      BY <1>0, <2>1, <2>2, <2>3, <3>1
    <3>3. PICK j \in Item : InStream(j) /\ j.id = id
      BY <1>0, <2>1, <3>1, <3>2 DEF Complete
    <3>4. ASSUME Queued(j) PROVE FALSE
      <4>1. CASE j = held
        BY <1>0, <2>1, <3>2, <3>3, <4>1
      <4>2. CASE \E n \in DOMAIN list : j = list[n]
        <5>1. held.id < j.id
          BY <1>0, <2>1, <4>2, NoItemNotItem DEF Ordered
        <5> QED
          BY <1>0, <2>1, <3>2, <3>3, <5>1
      <4> QED
        BY <3>4, <4>1, <4>2 DEF Queued
    <3> QED
      BY <3>3, <3>4 DEF InStream, Arrived
  <2> QED
    BY <2>1, <2>3 DEF Sent
<1>2. CASE ~ThreadSend
  <2>1. thread = "calling" /\ UNCHANGED <<held, arrived>>
    BY <1>2 DEF Next, Thread, ThreadLock, ThreadWait, ThreadReturn, SinkCall,
       Producer, Receive, EOS, NewSegmentCheck, NewSegmentQueue,
       Control, StartProducer, BeginFlush, BeginFlushDown, JoinProducer, EndFlushWait,
       EndFlushClear, EndFlushDown, EndFlushHr, Delete, DeleteWait, Gone, vars, threadVars
  <2>2. control' = "idle" => m_hr' = "S_OK" \/ (control = "idle" /\ m_hr' = m_hr)
    BY <1>2, <2>1 DEF Next, Thread, ThreadLock, ThreadWait, ThreadReturn, SinkCall,
       Producer, Receive, EOS, NewSegmentCheck, NewSegmentQueue,
       Control, StartProducer, BeginFlush, BeginFlushDown, JoinProducer, EndFlushWait,
       EndFlushClear, EndFlushDown, EndFlushHr, Delete, DeleteWait, Gone, vars, threadVars
  <2>3. Media(held)
    BY <2>1 DEF Media
  <2> QED
    BY <1>0, <2>1, <2>2, <2>3 DEF Sent
<1> QED
  BY <1>1, <1>2

LEMMA NoGapNext == Inv /\ Stream /\ [Next]_vars => NoGap'
<1> SUFFICES ASSUME Inv, Stream, [Next]_vars PROVE NoGap'
  OBVIOUS
<1>0. /\ arrived \in Seq(Item) /\ Holding /\ Sent /\ NoGap /\ Ordered
      /\ \A i \in Item : i.id \in Nat
  BY DEF Inv, TypeOK, Item, Stream
<1>1. Ordered'
  BY OrderedNext DEF Stream
<1>2. CASE arrived' = arrived
  BY <1>0, <1>2 DEF NoGap
<1>3. CASE arrived' # arrived
  <2>1. SinkCall
    BY <1>3 DEF Next, Thread, ThreadLock, ThreadWait, ThreadSend, ThreadReturn,
       Producer, Receive, EOS, NewSegmentCheck, NewSegmentQueue,
       Control, StartProducer, BeginFlush, BeginFlushDown, JoinProducer, EndFlushWait,
       EndFlushClear, EndFlushDown, EndFlushHr, Delete, DeleteWait, Gone, vars
  <2>2. thread = "calling" /\ held \in Item /\ arrived' = Append(arrived, held)
    BY <1>0, <1>3, <2>1 DEF SinkCall, Holding, Inv, TypeOK
  <2>3. /\ \A n \in DOMAIN arrived' :
              \/ n \in DOMAIN arrived /\ arrived'[n] = arrived[n]
              \/ arrived'[n] = held /\ n = Len(arrived) + 1
        /\ Len(arrived) \in Nat
        /\ \A n \in DOMAIN arrived : /\ n \in Nat /\ n <= Len(arrived) /\ arrived[n] \in Item
                                     /\ n \in DOMAIN arrived' /\ arrived'[n] = arrived[n]
    BY <1>0, <2>2, AppendShape
  <2>4. ASSUME NEW m \in DOMAIN arrived', NEW n \in DOMAIN arrived', m < n, Media(arrived'[n]),
               arrived'[m].flush = arrived'[n].flush,
               NEW id \in arrived'[m].id .. arrived'[n].id
        PROVE  \E k \in m .. n : arrived'[k].id = id
    <3>1. m \in DOMAIN arrived /\ arrived'[m] = arrived[m] /\ m \in Nat
      BY <2>3, <2>4
    <3>2. CASE n \in DOMAIN arrived
      <4>1. arrived'[n] = arrived[n] /\ n \in Nat
        BY <2>3, <3>2
      <4>2. PICK k \in m .. n : arrived[k].id = id
        BY <1>0, <2>4, <3>1, <3>2, <4>1 DEF NoGap
      <4>3. k \in DOMAIN arrived
        BY <1>0, <3>1, <3>2
      <4> QED
        BY <2>3, <4>2, <4>3
    <3>3. CASE n \notin DOMAIN arrived
      <4>1. n = Len(arrived) + 1 /\ arrived'[n] = held
        BY <2>3, <3>3
      <4>2. CASE id = held.id
        BY <2>4, <2>3, <3>1, <4>1, <4>2
      <4>3. CASE id # held.id
        <5>1. id \in arrived[m].id .. held.id - 1
          BY <1>0, <2>2, <2>3, <2>4, <3>1, <4>1, <4>3
        <5>2. PICK k \in DOMAIN arrived : arrived[k].id = id
          BY <1>0, <2>2, <2>4, <3>1, <4>1, <5>1 DEF Sent
        <5>3. ~(k < m)
          <6> SUFFICES ASSUME k < m PROVE FALSE
            OBVIOUS
          <6>1. arrived[k].id < arrived[m].id
            BY <1>0, <3>1, <5>2 DEF Ordered
          <6> QED
            BY <1>0, <2>2, <2>3, <3>1, <5>1, <5>2, <6>1
        <5>4. k \in m .. n /\ arrived'[k].id = id
          BY <2>3, <3>1, <4>1, <5>2, <5>3
        <5> QED
          BY <5>4
      <4> QED
        BY <4>2, <4>3
    <3> QED
      BY <3>2, <3>3
  <2>5. \A m, n \in DOMAIN arrived' : m < n => arrived'[m].id < arrived'[n].id
    BY <1>1 DEF Ordered
  <2> QED
    BY <2>4, <2>5 DEF NoGap
<1> QED
  BY <1>2, <1>3

LEMMA StreamNext == Inv /\ Stream /\ [Next]_vars => Stream'
BY BoundedNext, OrderedNext, CompleteNext, SentNext, OutcomeNext, NoGapNext DEF Stream

THEOREM StreamHolds == Spec => [](Inv /\ Stream)
BY InvInit, InvNext, StreamInit, StreamNext, PTL DEF Spec

\* Between two flushes nothing that arrives is out of order, and no media
\* arrives after something that was lost.
THEOREM NothingIsSkipped == Spec => []NoGap
<1>1. Stream => NoGap
  BY DEF Stream
<1> QED
  BY <1>1, StreamHolds, PTL

-----------------------------------------------------------------------------
(***************************************************************************)
(* The refinement.  The steps under the queue's lock are the operations of *)
(* the channel; those between them change nothing that the channel has.    *)
(***************************************************************************)
SegmentItem == {i \in BoundedItem : i.kind = "segment"}

LEMMA WithinBounds ==
    ASSUME Inv, Bounded
    PROVE  \A i \in Item : InStream(i) =>
              /\ i \in BoundedItem
              /\ i \in SegmentItem <=> i.kind = "segment"
<1> SUFFICES ASSUME NEW i \in Item, InStream(i)
             PROVE  i \in BoundedItem /\ (i \in SegmentItem <=> i.kind = "segment")
  OBVIOUS
<1>1. /\ i.id >= 1 /\ i.id <= made /\ i.flush <= flushes /\ made <= MaxItems
      /\ flushes <= MaxFlushes /\ made \in Nat /\ flushes \in Nat
      /\ MaxItems \in Nat /\ MaxFlushes \in Nat
  BY BoundsAssumption DEF Bounded, Inv, TypeOK
<1>2. i.id \in 1 .. MaxItems /\ i.flush \in 0 .. MaxFlushes
  BY <1>1 DEF Item
<1> QED
  BY <1>2 DEF BoundedItem, Item, SegmentItem

ModeNow == IF control # "idle" THEN "flushing" ELSE IF m_hr = "S_OK" THEN "open" ELSE "broken"

ChannelSet == [mode : {"open", "broken", "flushing"}, pending : Seq(Item),
               inflight : Item \cup {NoItem}, landed : BOOLEAN]

LEMMA SameChannel ==
    ASSUME NEW a \in ChannelSet, NEW b \in ChannelSet,
           a.mode = b.mode, a.pending = b.pending, a.inflight = b.inflight,
           a.landed <=> b.landed
    PROVE  a = b
<1>1. a.landed = b.landed
  <2>1. a.landed \in BOOLEAN /\ b.landed \in BOOLEAN
    BY DEF ChannelSet
  <2> QED
    BY <2>1
<1> QED
  BY <1>1 DEF ChannelSet

LEMMA ChanFields ==
    /\ chanOf.mode = ModeNow /\ chanOf.pending = list /\ chanOf.inflight = held
    /\ chanOf.landed <=> HasLanded
<1>1. chanOf.mode = ModeNow /\ chanOf.pending = list /\ chanOf.inflight = held
  BY DEF chanOf, ModeNow
<1>2. chanOf.landed <=> HasLanded
  BY DEF chanOf, HasLanded
<1> QED
  BY <1>1, <1>2

LEMMA ChanFieldsNext ==
    /\ chanOf'.mode = ModeNow' /\ chanOf'.pending = list' /\ chanOf'.inflight = held'
    /\ chanOf'.landed <=> HasLanded'
<1>1. (/\ chanOf.mode = ModeNow /\ chanOf.pending = list /\ chanOf.inflight = held
       /\ chanOf.landed <=> HasLanded)'
  BY ChanFields, PTL
<1> QED
  BY <1>1 DEF HasLanded

LEMMA ChanTyped == Inv => chanOf \in ChannelSet
<1> SUFFICES ASSUME Inv PROVE chanOf \in ChannelSet
  OBVIOUS
<1> DEFINE b == /\ thread = "returned"
                /\ arrived # <<>> /\ arrived[Len(arrived)] = held
<1>1. b \in BOOLEAN
  OBVIOUS
<1>2. ModeNow \in {"open", "broken", "flushing"}
  BY DEF ModeNow
<1>3. list \in Seq(Item) /\ held \in Item \cup {NoItem}
  BY DEF Inv, TypeOK
<1>4. chanOf = [mode |-> ModeNow, pending |-> list, inflight |-> held, landed |-> b]
  BY DEF chanOf, ModeNow
<1> HIDE DEF b
<1> QED
  BY <1>1, <1>2, <1>3, <1>4 DEF ChannelSet

LEMMA ChanTypedNext == Inv' => chanOf' \in ChannelSet
<1>1. (Inv => chanOf \in ChannelSet)'
  BY ChanTyped, PTL
<1> QED
  BY <1>1 DEF ChannelSet, Item

\* The state after a step is the one whose fields the step gives.
LEMMA ChanStep ==
    ASSUME Inv', NEW ch \in ChannelSet,
           ch.mode = ModeNow', ch.pending = list', ch.inflight = held',
           ch.landed <=> HasLanded'
    PROVE  chanOf' = ch
BY ChanFieldsNext, ChanTypedNext, SameChannel

\* The operations of the channel by its fields.
Is(ch, mode, pending, inflight, landed) ==
    /\ ch \in ChannelSet
    /\ ch.mode = mode /\ ch.pending = pending /\ ch.inflight = inflight
    /\ ch.landed <=> landed

LEMMA ProducerOperations ==
    ASSUME NEW ch \in ChannelSet, NEW i \in Item
    PROVE  Is(Abstract!Queued(ch, i), ch.mode, Append(ch.pending, i), ch.inflight, ch.landed)
BY AppendTyped DEF ChannelSet, Is, Abstract!Queued

LEMMA ThreadOperations ==
    ASSUME NEW ch \in ChannelSet
    PROVE  /\ ch.pending # <<>> =>
                 Is(Abstract!Take(ch), ch.mode, Tail(ch.pending), Head(ch.pending), ch.landed)
           /\ Is(Abstract!Skipped(ch), ch.mode, ch.pending, NoItem, ch.landed)
           /\ Is(Abstract!Landed(ch), ch.mode, ch.pending, ch.inflight, TRUE)
           /\ Is(Abstract!Returned(ch), ch.mode, ch.pending, NoItem, FALSE)
           /\ Is(Abstract!Failed(ch), IF ch.mode = "open" THEN "broken" ELSE ch.mode,
                 ch.pending, NoItem, ch.landed)
           /\ Is(Abstract!Emptied(ch), ch.mode, <<>>, ch.inflight, ch.landed)
<1>1. ASSUME ch.pending # <<>>
      PROVE  Is(Abstract!Take(ch), ch.mode, Tail(ch.pending), Head(ch.pending), ch.landed)
  <2>1. Tail(ch.pending) \in Seq(Item) /\ Head(ch.pending) \in Item
    BY <1>1 DEF ChannelSet
  <2> QED
    BY <2>1 DEF ChannelSet, Is, Abstract!Take
<1>2. /\ Is(Abstract!Skipped(ch), ch.mode, ch.pending, NoItem, ch.landed)
      /\ Is(Abstract!Landed(ch), ch.mode, ch.pending, ch.inflight, TRUE)
      /\ Is(Abstract!Returned(ch), ch.mode, ch.pending, NoItem, FALSE)
  BY DEF ChannelSet, Is, Abstract!Skipped, Abstract!Landed, Abstract!Returned
<1>3. Is(Abstract!Failed(ch), IF ch.mode = "open" THEN "broken" ELSE ch.mode,
         ch.pending, NoItem, ch.landed)
  BY DEF ChannelSet, Is, Abstract!Failed
<1>4. Is(Abstract!Emptied(ch), ch.mode, <<>>, ch.inflight, ch.landed)
  <2>1. <<>> \in Seq(Item)
    OBVIOUS
  <2> QED
    BY <2>1 DEF ChannelSet, Is, Abstract!Emptied
<1> QED
  BY <1>1, <1>2, <1>3, <1>4

LEMMA FlushOperations ==
    ASSUME NEW ch \in ChannelSet
    PROVE  /\ Is(Abstract!BeginFlush(ch), "flushing", ch.pending, ch.inflight, ch.landed)
           /\ Is(Abstract!EndFlush(ch), "open", ch.pending, ch.inflight, ch.landed)
BY DEF ChannelSet, Is, Abstract!BeginFlush, Abstract!EndFlush

LEMMA RefinesInit == Init => Abstract!Init
BY DEF Init, Abstract!Init, Abstract!Fresh, chanOf

\* The steps of the worker.
LEMMA RefinesMakes ==
    ASSUME Inv, Inv', Stream, NEW i, Makes(i), m_hr = "S_OK" \/ i.kind = "segment"
    PROVE  Abstract!Put
<1>1. /\ i \in Item /\ i.id = made + 1 /\ i.flush = flushes /\ made < MaxItems
      /\ made \in Nat /\ flushes \in Nat /\ flushes <= MaxFlushes
      /\ MaxItems \in Nat /\ MaxFlushes \in Nat
  BY BoundsAssumption DEF Makes, Inv, TypeOK, Stream, Bounded
<1>2. i \in BoundedItem
  <2>1. i.id \in 1 .. MaxItems /\ i.flush \in 0 .. MaxFlushes
    BY <1>1
  <2> QED
    BY <1>1, <2>1 DEF BoundedItem, Item
<1>3. chanOf' = Abstract!Queued(chanOf, i) /\ arrived' = arrived
  <2>1. ModeNow' = ModeNow /\ HasLanded' = HasLanded /\ list' = Append(list, i) /\ held' = held
        /\ arrived' = arrived
    BY DEF Makes, ModeNow, HasLanded
  <2> QED
    BY <1>1, <2>1, ChanFields, ChanTyped, ChanStep, ProducerOperations
       DEF Is
<1>4. CASE m_hr = "S_OK"
  <2>1. chanOf.mode = "open"
    BY <1>4, ChanFields DEF Inv, Latched, ModeNow
  <2> QED
    BY <1>2, <1>3, <2>1 DEF Abstract!Put, Abstract!Accept
<1>5. CASE i.kind = "segment"
  BY <1>2, <1>3, <1>5 DEF Abstract!Put
<1> QED
  BY <1>4, <1>5

\* The steps of the queue's thread and the downstream pin.
LEMMA RefinesLock ==
    ASSUME Inv, Inv', Stream, ThreadLock
    PROVE  Abstract!Forward \/ Abstract!Discard \/ (chanOf' = chanOf /\ arrived' = arrived)
<1>0. /\ held = NoItem /\ thread = "lock" /\ list \in Seq(Item) /\ Flags /\ Latched /\ Quiet
      /\ control \in ControlPC
  BY DEF ThreadLock, Inv, TypeOK, Holding
<1>1. /\ UNCHANGED <<control, m_hr, arrived>> /\ thread' # "returned"
  BY DEF ThreadLock, flushVars
<1>2. ModeNow' = ModeNow /\ ~HasLanded /\ ~HasLanded'
  BY <1>0, <1>1 DEF ModeNow, HasLanded
<1>3. CASE m_bTerminate \/ m_bFlushing
  <2>1. list' = <<>> /\ held' = held
    BY <1>0, <1>3 DEF ThreadLock
  <2>2. chanOf.mode = "flushing"
    BY <1>0, <1>3, ChanFields DEF Flags, Flushing, ModeNow
  <2>3. chanOf' = Abstract!Emptied(chanOf)
    BY <1>2, <2>1, ChanFields, ChanTyped, ChanStep, ThreadOperations
       DEF Is
  <2> QED
    BY <1>1, <2>2, <2>3 DEF Abstract!Discard
<1>4. CASE ~m_bTerminate /\ ~m_bFlushing /\ list = <<>>
  <2>1. list' = list /\ held' = held
    BY <1>4 DEF ThreadLock
  <2> QED
    BY <1>1, <1>2, <2>1, ChanFields, ChanTyped, ChanStep
<1>5. CASE ~m_bTerminate /\ ~m_bFlushing /\ list # <<>>
  <2>1. list' = Tail(list) /\ held' = Head(list)
    BY <1>5 DEF ThreadLock
  <2>2. chanOf' = Abstract!Take(chanOf)
    BY <1>2, <1>5, <2>1, ChanFields, ChanTyped, ChanStep, ThreadOperations
       DEF Is
  <2>3. ASSUME chanOf.mode = "flushing" PROVE Head(list) \in SegmentItem
    <3>1. control # "idle"
      BY <2>3, ChanFields DEF ModeNow
    <3>2. Flushed
      BY <1>0, <1>5, <3>1 DEF Flags, Flushing, Flushed, ControlPC
    <3>3. Head(list) \in Item /\ Queued(Head(list))
      BY <1>0, <1>5, TailElements DEF Queued
    <3>4. Head(list).kind = "segment"
      BY <1>0, <3>2, <3>3 DEF Quiet
    <3> QED
      BY <3>3, <3>4, WithinBounds DEF Stream, InStream
  <2>4. Abstract!CanTake(chanOf)
    BY <1>0, <1>5, <2>3, ChanFields DEF Abstract!CanTake, SegmentItem
  <2> QED
    BY <1>1, <2>2, <2>4 DEF Abstract!Forward
<1> QED
  BY <1>3, <1>4, <1>5

LEMMA RefinesSend ==
    ASSUME Inv, Inv', Stream, ThreadSend
    PROVE  Abstract!Skip \/ (chanOf' = chanOf /\ arrived' = arrived)
<1>0. /\ held \in Item /\ held # NoItem /\ thread = "send" /\ Queued(held)
      /\ UNCHANGED <<control, m_hr, arrived, list>> /\ thread' # "returned"
  BY NoItemNotItem DEF ThreadSend, Inv, TypeOK, Holding, queueVars, flushVars, Queued
<1>1. ModeNow' = ModeNow /\ ~HasLanded /\ ~HasLanded'
  BY <1>0 DEF ModeNow, HasLanded
<1>2. CASE m_hr = "S_OK" \/ held.kind = "segment"
  <2>1. held' = held
    BY <1>2 DEF ThreadSend
  <2> QED
    BY <1>0, <1>1, <2>1, ChanFields, ChanTyped, ChanStep
<1>3. CASE ~(m_hr = "S_OK" \/ held.kind = "segment")
  <2>1. held' = NoItem
    BY <1>3 DEF ThreadSend
  <2>2. chanOf' = Abstract!Skipped(chanOf)
    BY <1>0, <1>1, <2>1, ChanFields, ChanTyped, ChanStep, ThreadOperations
       DEF Is
  <2>3. chanOf.mode # "open" /\ held \notin SegmentItem
    BY <1>3, ChanFields DEF ModeNow, SegmentItem
  <2> QED
    BY <1>0, <1>1, <2>2, <2>3, ChanFields DEF Abstract!Skip, Abstract!CanSkip, SegmentItem
<1> QED
  BY <1>2, <1>3

LEMMA RefinesCall ==
    ASSUME Inv, Inv', Stream, SinkCall
    PROVE  Abstract!Arrive \/ (chanOf' = chanOf /\ arrived' = arrived)
<1>0. /\ held \in Item /\ held # NoItem /\ thread = "calling" /\ Queued(held)
      /\ UNCHANGED <<control, m_hr, held, list>> /\ thread' = "returned"
      /\ arrived \in Seq(Item)
  BY NoItemNotItem DEF SinkCall, Inv, TypeOK, Holding, queueVars, flushVars, Queued
<1>1. ModeNow' = ModeNow /\ ~HasLanded
  BY <1>0 DEF ModeNow, HasLanded
<1>2. CASE arrived' = Append(arrived, held)
  <2>1. HasLanded'
    BY <1>0, <1>2, AppendShape DEF HasLanded
  <2>2. chanOf' = Abstract!Landed(chanOf)
    BY <1>0, <1>1, <2>1, ChanFields, ChanTyped, ChanStep, ThreadOperations
       DEF Is
  <2>3. ASSUME chanOf.mode = "broken" PROVE held \in SegmentItem
    <3>1. control = "idle" /\ m_hr # "S_OK"
      BY <2>3, ChanFields DEF ModeNow
    <3>2. held.kind = "segment"
      BY <1>0, <3>1 DEF Stream, Sent, Media
    <3> QED
      BY <1>0, <3>2, WithinBounds DEF Stream, InStream
  <2>4. Abstract!CanLand(chanOf)
    BY <1>0, <1>1, <2>3, ChanFields DEF Abstract!CanLand, SegmentItem
  <2> QED
    BY <1>2, <2>2, <2>4, ChanFields DEF Abstract!Arrive
<1>3. CASE arrived' = arrived
  <2>1. arrived # <<>> => Len(arrived) \in DOMAIN arrived
    BY <1>0
  <2>2. \A m \in DOMAIN arrived : arrived[m].id < held.id
    BY <1>0, <1>1 DEF Stream, Ordered
  <2>3. held.id \in Nat
    BY <1>0 DEF Item
  <2>4. ~HasLanded'
    <3>1. arrived # <<>> => arrived[Len(arrived)] # held
      BY <2>1, <2>2, <2>3
    <3> QED
      BY <1>0, <1>3, <3>1 DEF HasLanded
  <2> QED
    BY <1>0, <1>1, <1>3, <2>4, ChanFields, ChanTyped, ChanStep
<1> QED
  BY <1>2, <1>3 DEF SinkCall

LEMMA RefinesReturn ==
    ASSUME Inv, Inv', Stream, ThreadReturn
    PROVE  Abstract!Return
<1>0. /\ held \in Item /\ held # NoItem /\ thread = "returned" /\ held' = NoItem
      /\ UNCHANGED <<control, arrived, list>> /\ thread' # "returned"
      /\ Outcome /\ Latched
      /\ m_hr' = IF held.kind = "sample" /\ m_hr = "S_OK" THEN result ELSE m_hr
  BY NoItemNotItem DEF ThreadReturn, Inv, TypeOK, Holding, queueVars, flushVars, Stream
<1>1. ~HasLanded'
  BY <1>0 DEF HasLanded
<1>2. held \in SegmentItem => HasLanded
  BY <1>0 DEF Outcome, SegmentItem
<1>3. CASE HasLanded
  <2>1. ModeNow' = ModeNow
    BY <1>0, <1>3 DEF ModeNow, Outcome
  <2>2. chanOf' = Abstract!Returned(chanOf)
    BY <1>0, <1>1, <2>1, ChanFields, ChanTyped, ChanStep, ThreadOperations
       DEF Is
  <2> QED
    BY <1>0, <1>3, <2>2, ChanFields DEF Abstract!Return
<1>4. CASE ~HasLanded
  <2>1. ModeNow' = IF ModeNow = "open" THEN "broken" ELSE ModeNow
    BY <1>0, <1>4 DEF ModeNow, Outcome
  <2>2. chanOf' = Abstract!Failed(chanOf)
    BY <1>0, <1>1, <1>4, <2>1, ChanFields, ChanTyped, ChanStep, ThreadOperations
       DEF Is
  <2> QED
    BY <1>0, <1>2, <1>4, <2>2, ChanFields DEF Abstract!Return, SegmentItem
<1> QED
  BY <1>3, <1>4

\* The steps of the graph thread.
LEMMA RefinesBegin ==
    ASSUME Inv, Inv', BeginFlush \/ Delete
    PROVE  Abstract!FlushBegins
<1>1. control' # "idle" /\ UNCHANGED <<list, held, thread, arrived>>
  BY DEF BeginFlush, Delete, threadVars
<1>2. ModeNow' = "flushing" /\ HasLanded' = HasLanded
  BY <1>1 DEF ModeNow, HasLanded
<1>3. chanOf' = Abstract!BeginFlush(chanOf)
  BY <1>1, <1>2, ChanFields, ChanTyped, ChanStep, FlushOperations DEF Is
<1> QED
  BY <1>1, <1>3 DEF Abstract!FlushBegins

LEMMA RefinesEnd ==
    ASSUME Inv, Inv', Stream, EndFlushHr
    PROVE  Abstract!FlushEnds
<1>1. /\ control = "endHr" /\ control' = "idle" /\ m_hr' = "S_OK"
      /\ UNCHANGED <<list, held, thread, arrived>>
  BY DEF EndFlushHr, threadVars, queueVars
<1>2. ModeNow = "flushing" /\ ModeNow' = "open" /\ HasLanded' = HasLanded
  BY <1>1 DEF ModeNow, HasLanded
<1>3. chanOf' = Abstract!EndFlush(chanOf)
  BY <1>1, <1>2, ChanFields, ChanTyped, ChanStep, FlushOperations DEF Is
<1>4. \A i \in Item : Queued(i) => i \in SegmentItem
  BY <1>1, WithinBounds DEF Inv, Quiet, Flushed, Stream, InStream
<1>5. held \in SegmentItem \cup {NoItem}
  BY <1>4 DEF Inv, TypeOK, Queued
<1>6. \A n \in DOMAIN list : list[n] \in SegmentItem
  <2>1. list \in Seq(Item)
    BY DEF Inv, TypeOK
  <2>2. \A n \in DOMAIN list : list[n] \in Item
    BY <2>1
  <2> QED
    BY <1>4, <2>2 DEF Queued
<1> QED
  BY <1>1, <1>2, <1>3, <1>5, <1>6, ChanFields
     DEF Abstract!FlushEnds, Abstract!Drained, SegmentItem

\* What changes nothing of the channel.
LEMMA RefinesNothing ==
    ASSUME Inv, Inv', UNCHANGED <<list, held, arrived, m_hr>>,
           control' = "idle" <=> control = "idle",
           thread' = thread \/ (thread = "wait" /\ thread' = "lock")
    PROVE  chanOf' = chanOf /\ arrived' = arrived
<1>1. ModeNow' = ModeNow
  BY DEF ModeNow
<1>2. HasLanded' <=> HasLanded
  BY DEF HasLanded
<1> QED
  BY <1>1, <1>2, ChanFields, ChanTyped, ChanStep

LEMMA RefinesNext ==
    Inv /\ Inv' /\ Stream /\ [Next]_vars => [Abstract!Next]_(Abstract!vars)
<1> SUFFICES ASSUME Inv, Inv', Stream, [Next]_vars
             PROVE  Abstract!Next \/ (chanOf' = chanOf /\ arrived' = arrived)
  BY DEF Abstract!vars
<1>0. TypeOK /\ Bounded
  BY DEF Inv, Stream
<1>1. CASE Receive \/ EOS
  <2>1. CASE m_hr = "S_OK"
    <3>1. PICK kind \in Kind : list' = Append(list, Made(kind))
      BY <1>1, <2>1 DEF Receive, EOS, QueueSample, Kind
    <3>2. Makes(Made(kind))
      BY <1>0, <1>1, <3>1
         DEF Receive, EOS, Makes, Made, Item, TypeOK, threadVars, queueVars, flushVars
    <3> QED
      BY <2>1, <3>2, RefinesMakes DEF Abstract!Next
  <2>2. CASE m_hr # "S_OK"
    BY <1>1, <2>2, RefinesNothing DEF Receive, EOS, threadVars, queueVars
  <2> QED
    BY <2>1, <2>2
<1>2. CASE NewSegmentQueue
  <2>1. Makes(Made("segment")) /\ Made("segment").kind = "segment"
    BY <1>0, <1>2 DEF NewSegmentQueue, QueueSample, Makes, Made, Item, Kind, TypeOK, Bounded,
       threadVars, flushVars
  <2> QED
    BY <2>1, RefinesMakes DEF Abstract!Next
<1>3. CASE ThreadLock
  BY <1>3, RefinesLock DEF Abstract!Next
<1>4. CASE ThreadSend
  BY <1>4, RefinesSend DEF Abstract!Next
<1>5. CASE SinkCall
  BY <1>5, RefinesCall DEF Abstract!Next
<1>6. CASE ThreadReturn
  BY <1>6, RefinesReturn DEF Abstract!Next
<1>7. CASE BeginFlush \/ Delete
  BY <1>7, RefinesBegin DEF Abstract!Next
<1>8. CASE EndFlushHr
  BY <1>8, RefinesEnd DEF Abstract!Next
<1>9. CASE \/ ThreadWait \/ NewSegmentCheck \/ StartProducer \/ BeginFlushDown \/ JoinProducer
           \/ EndFlushWait \/ EndFlushClear \/ EndFlushDown \/ DeleteWait \/ Gone
           \/ UNCHANGED vars
  <2>1. /\ UNCHANGED <<list, held, arrived, m_hr>>
        /\ control' = "idle" <=> control = "idle"
        /\ thread' = thread \/ (thread = "wait" /\ thread' = "lock")
    BY <1>9 DEF ThreadWait, NewSegmentCheck, StartProducer, BeginFlushDown, JoinProducer,
       EndFlushWait, EndFlushClear, EndFlushDown, DeleteWait, Gone, vars, queueVars, threadVars
  <2> QED
    BY <2>1, RefinesNothing
<1> QED
  BY <1>1, <1>2, <1>3, <1>4, <1>5, <1>6, <1>7, <1>8, <1>9
     DEF Next, Thread, Producer, Control

\* The queue is a flushable FIFO: whatever the three threads do, the downstream
\* pin sees one of the channel's behaviours, which the other parts rely on.
THEOREM QueueIsChannel == Spec => ImplementsChannel
<1>1. Inv /\ Stream /\ [Next]_vars => [Abstract!Next]_(Abstract!vars)
  BY InvNext, RefinesNext
<1> QED
  BY StreamHolds, RefinesInit, <1>1, PTL DEF Spec, ImplementsChannel, Abstract!Spec
=============================================================================
