# A TLA+ verification of mmts-dsfilter

mmts-dsfilter is a DirectShow source filter that plays MMT/TLV recordings
(`.mmts`) and edit decision lists over them (`.mmtsedit`). These modules model
the parts of it in which several threads, several pieces of state or several
steps have to agree, check them with TLC on small instances, and prove what
matters most of its delivery queue, its pins, its sample allocator, its threads,
its edited timeline, its choice of service and its subtitle index with TLAPS. Source paths below are
relative to the repository; `outputq.cpp` and `amfilter.cpp` are the copies of the
DirectShow base classes under `baseclasses/`, which run inside this filter.

## 1. The system

```
 application / graph thread                    demux worker (one at a time)
 Load Pause Run Stop SetPositions Enable       DemuxLoop: read file -> demuxer
        |  under m_pinLock                        -> CFilterDemuxerHandler
        |  BeginFlush, StopThread (join),         -> video / audio / subtitle callbacks
        |  EndFlush, reset, StartThread           -> CMmtTlvOutputPin::DeliverSample
        v                                                   |
   m_active, m_hStop, m_isSeeking, m_seekTarget   CMemAllocator: wait for a free sample  <--- Release
                                                            v                                  |
                                              COutputQueue of each pin --own thread--> downstream pin

 subtitles, in the worker:  document -> schedule (clipped to the segment, given its end by
 CSubtitleFileIndex, which reads the same file with a demuxer of its own) -> pump at each
 video unit -> cue to a subtitle pin; documents whose glyphs have not come wait aside
```

| Component | State | Operations | What makes it correct | Status |
|---|---|---|---|---|
| Delivery queue (`outputq.cpp`) | list, sticky `m_hr`, flush flags, event, semaphore | Receive, EOS, NewSegment, BeginFlush, EndFlush, its thread, delete | order, no hole, no lost wake-up, nothing stale after a flush, flush and delete return | modelled, proved but for liveness |
| Filter lifecycle (`MmtTlvSplitter.cpp`) | filter state, thread handle, flags, targets | Pause, Run, Stop, SetPositions, Enable, SeekTo, StartThread, StopThread | worker and graph thread never share; only fresh samples; calls return; the end is told | modelled, proved but for liveness |
| Demux loop and edit timeline (`MmtTlvSplitter.cpp`) | edit segments, current segment and base, pending jump, waits for an access point, stop position | Load's clean-up, DemuxLoop, EditMapPts, video and audio callback | what is shown is the edited program, in place, complete and in step | modelled, proved |
| Output pin (`MmtTlvOutputPin.cpp`) | failure counter, suppression, pending format, discontinuity state, accumulator | DeliverSample, NewSegment, flush, ResetForSeek, Active, Inactive | breaks are marked, formats are told, a pin is silenced only when it fails | partly modelled, proved |
| Service and stream selection (`DsHandler.cpp`) | packages on the air, selected package, packets, stream lists, selections, program | onPlt, onMpt, onMhEit, on*Data, select* | one service is played, lists and routing are its own | partly modelled, proved |
| Sample allocator (`amfilter.cpp`) | free list, counts, commit flags, semaphore and waiting count, reference counts | SetProperties, Commit, Decommit, GetBuffer, ReleaseBuffer, AddRef, Release | no waiter forgotten, no sample lost, lent twice or freed in use | modelled, proved but for liveness |
| Subtitle index (`SubtitleFileIndex.cpp`) | second demuxer, window, records | Resolve, Restart, ReadPacket, Controls | the interval of a document does not depend on what was asked before | modelled, proved |
| Subtitle scheduling (`MmtTlvSplitter.cpp`, `TtmlAdapter.cpp`) | waiting documents, scheduled samples, pump position | ProcessSubtitleDocument, pump, ProcessDeferred, clear | no cue after its clear, none lost or twice, none outside its segment | partly modelled |
| Subtitle timing resolver | none | one pure function | picks the reference time | not modelled: the filter does not call it, only the tool `mmts_compare_dump` does |
| Sidecar files, prescan, LATM decoding, TTML to ASS, COM glue, tools | tables, buffers | sequential parsing and conversion | data-driven, tested by their inputs | not modelled |
| MMT/TLV demultiplexer (`dantto4k`) | streams, half-read units | a submodule, not in the repository | - | external |

The worker takes no lock for what it shares with the graph thread: pins,
accumulators, decoders, the demuxer and the handler. What keeps the threads
apart is only the order of calls (flush, join, end the flush, reset, start).
That is why the lifecycle is modelled together with the queues: the worker can
be asleep waiting for a buffer that only a flush gives back.

The behaviours that are hard to test, each at its line with the properties that
would catch it, are the `hazards` of `PROJECT.json`.

## 2. The modules

| Module | Models | Lines |
|---|---|---|
| `OutputQueue` | `COutputQueue` as `CMmtTlvOutputPin::Active` makes it | `outputq.cpp:43-767` |
| `Channel`, `FlushChannel` | what a pin may rely on: a FIFO that can be flushed and can break; operators, and the specification | - |
| `ChannelProofs` | what the operations of a channel do, for every set of items | - |
| `OutputQueueProofs` | the theorems about `OutputQueue` | - |
| `FilterLifecycle` | the calls on the filter, the worker, and a channel and a downstream pin behind every pin | `MmtTlvSplitter.cpp:4455-4722, 4821-4892, 5047-5083` |
| `FilterLifecycleProofs` | the theorems about `FilterLifecycle` | - |
| `EditTimeline`, `MCEditTimeline` | one run of the worker as a timeline over a small file | `MmtTlvSplitter.cpp:2804-2940, 4026-4137, 4557-4727` |
| `EditTimelineProofs` | the theorems about `EditTimeline` | - |
| `OutputPin` | one pin, its channel and a failing downstream pin | `MmtTlvOutputPin.cpp:166-520, 630-753` |
| `OutputPinProofs` | the theorems about `OutputPin` | - |
| `ServiceSelection`, `MCServiceSelection` | the handler of the playing filter | `DsHandler.cpp:178-1460` |
| `ServiceSelectionProofs` | the theorems about `ServiceSelection` | - |
| `SampleAllocator` | `CMemAllocator` and the samples it lends | `amfilter.cpp:3344-3400, 4552-4989, 5049-5266` |
| `SamplePool` | what a pin may rely on: samples that are lent and come back | - |
| `SampleAllocatorProofs` | the theorems about `SampleAllocator` | - |
| `SubtitleInterval` | the intervals of all documents, as a function of the whole recording | `SubtitleFileIndex.cpp:85-162` |
| `SubtitleIndex`, `MCSubtitleIndex` | the index and its window over the recording | `SubtitleFileIndex.cpp:5-163` |
| `SubtitleIndexProofs` | the theorems about `SubtitleIndex` | - |
| `SubtitleSchedule`, `MCSubtitleSchedule` | documents, schedule and pump of one subtitle pin during a run | `MmtTlvSplitter.cpp:4039-4073, 4147-4171, 4210-4402, 4557-4723`, `TtmlAdapter.cpp:170-214` |

**OutputQueue.** Every critical section of the class is one step, and what it
does outside is split where it touches shared state: NewSegment's look at `m_hr`
before it takes the lock (405) and its insertion; EndFlush's wait, its three
assignments, the call downstream and its last write of `m_hr` (550) are steps of
their own. `thread`, `producer` and `control` are the program counters of the
queue's thread, the worker and the graph thread. The auto-reset event is a
Boolean, the semaphore a count with `m_lWaiting`. Direct delivery (`bQueue`
false), batches over one and `m_bFlushingOpt` are not used by this filter and
are left out.

**Channel / FlushChannel.** One record per queue: `mode` (open, broken by a
failure downstream, flushing), `pending`, `inflight` and `landed` (the downstream
pin has accepted the item in flight and has not returned yet). `OutputQueue`
implements `FlushChannel` under the mapping `chanOf`; `FilterLifecycle` and
`OutputPin` use the same operators for the queues behind their pins, so what
they say of flushes rests on the refinement and not on an idealised queue.

**FilterLifecycle.** A call that holds `m_pinLock` is a sequence of steps
(`graph.step`): flush every pin in turn, set `m_isSeeking`, signal, join, end the
flush pin by pin, reset, restart. The worker's steps interleave with all of them.
Which unit goes to which pin, and when the loop ends by itself, is free.
Abstractions: the contents of the file; connected pins only. `carry` stands for
the access units that the demuxer has half read. `AtFileStart` are the positions
that the edit list maps to the beginning of the file: only from there does the loop
clear the demuxer. Before the end of stream, documents that waited for a glyph are
tried again (`DeferredSample`), by a worker that was interrupted as well; that
worker may wait for a buffer once more.

**EditTimeline.** The file is a sequence of units with decode and presentation
times; a state variable is named as in the code, and `played` is the history of
samples handed to the pins. One step reads one unit and calls its callback
completely, including the pin's tests (`PinDelivers`); batches end anywhere.
Left out: the calls that the video callback makes for subtitles, unconnected
pins, `m_hStop` in the middle of a run (FilterLifecycle has it). `FileAssumption`
says what the prescan and a decoder count on: there is video, it is stored in decode
order, and nothing is shown before it is decoded. `OpeningAssumption` is what
`LoadSidecarEdit` leaves of an edit list: segments that end after their start
(`MmtTlvSplitter.cpp:2063-2068`).

**OutputPin.** One unit is one complete access unit; putting fragments together
and finding the access point are not in it. What the pin knows (`m_format`,
counter, last time delivered) is written when a sample is queued; `sink` is what
the downstream pin has seen. `untold` is a history.

**ServiceSelection.** Tables, events and data come in any order. A service id is
its package. `table` is what the demuxer knows; `fresh` says that an MPT of the
selected service has come since it was selected. Routing audio changes no state
here (the list is locked once pins exist), so it is the operator `AudioPinsFor`.
How the demuxer numbers streams is not in this repository (the test
`transport_state_test.cpp:166-173` has an asset keep its index and a new one take one
that was freed, the comments at `DsHandler.cpp:394` and `:546` have them counted anew):
an MPT of the model says which indices its assets are registered under, and any
numbering is allowed. `AssetAssumption` is what a broadcaster's tables and the
demuxer promise: the assets of one MPT have packets, component tags and indices of
their own.

**SampleAllocator / SamplePool.** What happens under the allocator's lock is one
step. The wait on the semaphore (`Wake`), the reference counts (interlocked
operations, no lock) and the allocator's last Release of itself (`owed`) are steps
of their own, and so is the return of a sample after its last Release
(`returning`). `asleep` are the threads at the wait, `m_lWaiting` those that the
code counts. The number of samples is a set of them, so that `GetCount() <
m_lAllocated` compares sets. A decommit with samples out leaves its completion to
the last of them (`m_bDecommitInProgress`), and a commit may cancel it. `SamplePool`
has only lending, returning, opening and closing: nothing is handed out while it
is closed, and its samples change only while none is out. Left out: AM_GBF_NOWAIT
(the pins do not use it), the release callback, the destructor, and a `new` that
fails half way (Alloc fails as a whole).

**SubtitleInterval / SubtitleIndex.** The recording is a sequence of packets: MPTs
with an asset and a control, video units, documents. `SubtitleInterval` says what
interval each document has when everything is read from the first byte.
`SubtitleIndex` has the window (`m_windowStart`, `consumed`, records, controls in
force) as the code has it: a request that the window does not cover restarts it up to
`restartLead` before the place asked for, one ahead reads on, and both can be
cancelled between packets. Byte offsets are positions less one. `PacketAssumption`
says what packets carry, `BroadcastAssumption` what a broadcast does and the code
counts on: an MPT and a timed video unit (before the first of these, an NTP time)
come within the lead before each document, pictures are not reordered over more than
the lead, and the clock does not run backwards. `opened` is a
history: of documents in the head of a window, before the one it was opened for,
nothing is promised (see below).

**SubtitleSchedule.** A recording as the worker reads it: video units, documents
with the spans they show, glyphs, MPTs with the controls of the streams. One step is
one callback with everything it calls: the lookup of the interval, the slices, the
clipping to the segment, the schedule, the pump, the documents that wait.
`m_subtitleFileIndex` holds what the index answers, the intervals of
`SubtitleInterval`; that the code's index answers so is what `SubtitleIndex` checks.
`shown` is what reached the pins. The properties compare it with what the documents
say of the moment at which it is shown, worked out from the recording and the edit
list and not from the schedule; `ready` and `fresh` are histories of which documents
had their glyphs, and whether the position was that of the place being read. Left
out: routing of assets to several subtitle pins by tag (`ServiceSelection` has the
indices), a delay or a stop position changed while playing, documents whose parsing
fails, and a Resolve that is cancelled (`SubtitleIndex` has it).

## 3. The runs

| Run | Question | Result |
|---|---|---|
| `output_queue` | Every interleaving of the three threads: wake-ups, holes, stale media, the quiet of EndFlush; refinement of `FlushChannel`; flush and delete return | holds |
| `lifecycle` | After any sequence of calls, is only the newest run shown, is no end of stream of an interrupted run told, is the worker joined before its state is touched | holds |
| `lifecycle_live` | Do all calls return, is the end of a run told | holds |
| `lifecycle_carry` | Does every run start with an empty demuxer, as a comment says | violated |
| `timeline` | Is what is shown the edited program: in place, in order, in step, decodable, complete | holds |
| `timeline_trim` | Does a single segment end at its out point, as the README says | violated |
| `timeline_last` | Does a run end in the last segment, as the README says | violated |
| `output_pin` | Is what follows a break marked; is a format told unless its carrier was discarded or refused; is a pin silenced only for failures | holds |
| `services` | One service is played; its lists (with its program), its video, its tracks | holds |
| `allocator` | Two threads that ask, holders that share, commits and decommits between: is a waiter forgotten, a sample lost, lent twice or freed in use; refinement of `SamplePool`; does every waiter go on | holds |
| `subtitle_index` | Does Resolve give the interval of the whole file, whatever was asked, cancelled or jumped over before | holds |
| `subtitle_schedule` | Is what is on the screen what the documents say of that moment, one text at a time, nothing kept back but for a missing glyph | holds |

### Bounds

- `output_queue`: three items and two flushes. A lost wake-up needs one item, a
  hole three (one accepted, one lost, one after it), a stale item one flush to
  survive and one to tell generations apart. The proofs have no bound.
- `lifecycle`: two pins (so that a flush is between pins while the worker feeds
  the other one), three runs, three calls, one buffer per pin so that the worker
  does wait for buffers, two samples per run. With three calls a seek or a stop
  can follow a pause and be followed by a restart. `lifecycle_carry` needs five
  calls: play, stop, position, pause, run.
- `timeline`: nine frames in groups I P B shown as I B P, so that decode order and
  time order differ, an audio unit for each; cuts at, between and inside groups,
  reordered, repeated, adjacent, past the source, or none; start positions at 0,
  on a cut, and inside groups; two stop positions or none; with and without a map.
- `output_pin`: three units, a format change before the second, a hole before the
  third, failures in a row up to two, three positions: one break can be in
  the middle and be followed by another.
- `services`: two services sharing tags and indices; the first has a second MPT with
  a moved video and an inserted commentary track, once with the indices kept and
  once counted anew; the second may have two videos or nothing. Five PLTs.
- `allocator`: two threads that ask, three samples of which SetProperties may make
  fewer, two references per sample, and two threads between giving up the lock and
  their Release of the allocator: a thread can be woken for a sample that the other one takes, and a
  decommit can find samples out, be cancelled and be repeated. The proofs have no
  bound.
- `subtitle_index`: two recordings with replacements, clears, a change of control
  and documents sent early, longer than the lead, so that windows start in the
  middle and are left in both directions.
- `subtitle_schedule`: a recording of one and a half seconds in units of 100 ms, a
  lead of 200 ms, one document that may wait (32 in the code: the eviction of the
  oldest is then an ordinary step), two starts or seeks, to 0 or into the middle,
  landing at eight places; a stop or none, a delay of either sign; no edit, a trim,
  and two segments in reversed order. Glyphs come late, together for two documents,
  or never.

Deadlock is checked in every passing run: where a bound stops the system, a
named stuttering action (`AtRest`, `Finish`) says so.

### Fairness

`output_queue` and `lifecycle_live` assume that threads run (weak fairness of the
queue's thread, of the worker and of a call in progress, one conjunct per
thread). Of the downstream pin they assume only that it gives back a call
once it has been told to flush and that it does not block in NewSegment, which
is the contract of `IPin::BeginFlush`; while it is not flushing it may keep a
sample for ever, as a paused renderer does. The file is finite. No application
is assumed ever to call anything. `EndIsTold` therefore excuses a pin that never gives
back the call it is holding (`[](inflight # NoItem)`), and no other: a call that
returns, of a sample queued before the end of stream, excuses nothing.

`allocator` assumes only that a thread whose wait has been satisfied runs (weak
fairness of `Wake`): holders may keep samples for ever, and `WaitersGo` is about
those for whom there is something to do. The other runs check safety only.

### What the code does otherwise

1. **A segment that ends with the source stops the edit** (`timeline_last`). With
   B pictures no decode time reaches the end of such a segment
   (`MmtTlvSplitter.cpp:2852`), so the jump to the next one is never requested.
2. **A single segment has no out point** (`timeline_trim`). `m_virtualEnd` only
   shortens the duration reported (2933-2937).
3. **Half-read units cross a stop** (`lifecycle_carry`). SetPositions without a
   thread, and a stop with a position above zero, start the loop in the middle of
   the file without `resetStreams()`.

Seen while reading or proving, without a run of their own:

- A stop position within the reordering of the first frames comes too early. A frame
  that is decoded before time zero of the program has a negative decode time, which
  the video callback takes for an unknown one; it then compares the stop position
  with the time at which the frame is shown (`MmtTlvSplitter.cpp:4054`), and the B
  pictures of before the stop are not read any more, against the comment at
  4050-4052. A trim to after an I picture of a file in groups I P B B, stopped one
  frame later, is enough. The proof of `EveryFrameIsShown` brought it up: it is what
  its premise `StopsPastReordering` excludes.
- `MmtTlvOutputPin.cpp:659` clears `m_videoFormatChanged` when the sample with the
  new type is queued; a flush or a failed queue discards the sample and nobody
  attaches the type again. `ToldUnlessDiscarded` says that this is the only way to
  lose it.
- The comment at `MmtTlvOutputPin.cpp:732` has a video pin keep trying after a
  failure; the queue latches the first failure until the next flush
  (`outputq.cpp:321-324`).
- `audioStreamIndexFor` (`DsHandler.cpp:416`) falls back to the demuxer's new
  index, which may be one that another asset's pin had at the pre-scan: two assets
  on one pin. `AudioOnItsTrack` holds for every asset whose tag is known.
- NewSegment of an interrupted run can be passed on after the flush, because `m_hr`
  is read before the lock (`outputq.cpp:406`; the model has it, and the next run's
  own NewSegment follows).
- Audio between an access point and a seek target is stamped zero and played when
  the file has at most one segment (`MmtTlvSplitter.cpp:4097` against the comment
  at 2867; the model has it).
- Load of a plain file keeps the segments of an edit loaded before into the same
  filter. With an unconnected video pin and a start above zero the audio waits for
  an access point that nobody looks for.
- The index is said to read each byte once and to keep its records across seeks
  (`README.md:383-385`, `SubtitleFileIndex.h:9`); `Restart` clears them
  (`SubtitleFileIndex.cpp:83`). After a step back, a document in the head of the
  new window, before the one it was opened for, may be missing or have a shorter
  interval than the file gives (`SubtitleFileIndex.cpp:123` against
  `SubtitleFileIndex.h:13-17`); it is asked for only by a seek that lands there.
- A document without an end is held to the last time stamp that the index has seen
  (`SubtitleFileIndex.cpp:157-159`), and a window sees only its own. A picture stored
  before the lead but shown after everything in the window would give the window
  another end than the file; a video unit without a time, as the only one in the
  lead, would leave the window without a clock. The proof of `AnswersAlwaysAgree`
  brought both up, and `BroadcastAssumption` excludes them.
- The index's own handler never gets `copyServiceSelectionFrom`, so that in a
  recording with two services a window far into the file may follow another
  service than the player.
- Stop followed by Run without a position keeps the pump's last time
  (`m_currentDts`): a document before the first video unit of the new run is pumped
  at the old position.
- A negative subtitle delay leaves a cue that ends before the start as one of
  length one at the start; one missing glyph holds back all slices of its document;
  subtitles are not shifted by `m_segmentTimeOffset`.

## 4. The proofs

Every theorem holds for all values of the constants that the named assumptions of
its module admit; TLC evaluates those assumptions on the instance of each run. An
invariant that a run checks is seldom inductive, so each proof module strengthens it:
one lemma shows that the initial states have the strengthening and one, with a step
per action, that every step keeps it.

### The queue and its abstraction

`OutputQueueProofs` proves for every number of items and flushes, from
`BoundsAssumption` alone (both are natural numbers):

- `TypeCorrect`: `Spec => []TypeOK`;
- `NoWakeupIsLost`: `Spec => []NoLostWakeup`;
- `EndFlushIsQuiet`: `Spec => []QuietEndFlush`;
- `NothingStaleArrives`: `Spec => NoStaleMedia`, an action property;
- `NothingIsSkipped`: `Spec => []NoGap`;
- `QueueIsChannel`: `Spec => ImplementsChannel`, the refinement.

`Inv` (`InvHolds`) adds to the types `Sleeping` (flag plus semaphore say exactly where
the thread sleeps, and the flag is up only while there is nothing to do), `Holding`,
`Flags` (the flags follow the graph thread's counter), `Latched` (from BeginFlush on,
`m_hr` is not S_OK, so nothing is queued), `Quiet` (once the flush has passed the
thread, only segments are left) and `Current` (media in the queue is of the current
stretch and the queue is not marked flushed). The heart of the argument: the event of
a flush is signalled only by a thread that holds nothing and has just emptied the
list, and until the end of the flush `Latched` keeps media out, so `Quiet` holds when
EndFlush writes `m_hr` without the lock, and everything accepted afterwards was
queued afterwards.

`Stream` (`StreamHolds`) is about the whole history: what has arrived, the item held
and the list are in the order they were made (`Ordered`); while `m_hr` is S_OK
nothing made after an item of the stretch is missing (`Complete`); what is being sent
follows on what has arrived (`Sent`); and what a call's return says of its item
(`Outcome`). `NoGap` needs them all: a failure makes a hole, and only the stickiness
of `m_hr` keeps what comes behind the hole from being sent.

The refinement maps initial states to initial states and each step to a step of
`FlushChannel` or a stutter: of the many steps of a flush, one is the channel's
BeginFlush and one its EndFlush. It is what entitles `FilterLifecycle` and
`OutputPin` to a channel behind each pin, and `ChannelProofs` says what the
operations of a channel do to its type, its mode and its line, the items that have
not been given back, oldest first.

### The filter and its worker

`FilterLifecycleProofs` proves for every number of pins,
positions, buffers, calls, runs and samples, from `NumbersAssumption` alone (the
numbers are natural numbers, there is a pin and a buffer, and 0 is a position):

- `TypeCorrect`: `Spec => []TypeOK`. `Placed` makes it inductive: the worker's
  loop is at a pin when it uses one, and a call in progress leaves room for the
  thread it may start.
- `TheWorkerIsAlone`: `Spec => []WorkerIsAlone`, inductive with the types of the
  graph thread's variables.
- `EosIsNatural`: `Spec => []EosOnlyAtTheEnd`. `Ended` adds `FlushedPins` (the pins
  that the loop of BeginFlush has passed are flushing, and all are until the join),
  `Interrupted` (a worker that does not end by itself is found only while
  StopThread waits for it) and `WholeChannels` (no channel holds the end of stream
  of an interrupted run). The argument: when such a worker sends its end of stream
  the call is at the join, so by `WorkerIsAlone` the filter is not stopped, so every
  pin is flushing and drops it. This is where the order flush, then join, matters.
- `NothingOldIsShown`: `Spec => FreshSamplesOnly`. `Flow` says of every pin's line
  together with the pin downstream: runs never decrease in it, media is of the run
  in progress and behind that run's segment, nothing follows an end of stream
  (`InOrder`); before the worker has come to a pin's media there is none (`NotYet`),
  and once it has passed the segment, the segment is in the line or has arrived
  (`Announced`, `Led`). Segments of interrupted runs may be left in the line.

### The allocator

`SampleAllocatorProofs` proves for every set of threads and of samples and every
bound, from `AllocatorAssumption` alone (threads and samples are finite sets, the bounds are
positive natural numbers):

- `TypeCorrect`: `Spec => []TypeOK`;
- `NoWaiterIsForgotten`: `Spec => []NoLostWakeup`;
- `SamplesAreSafe`: `Spec => []SamplesSafe`;
- `ImplementsSamplePool`: `Spec => ImplementsPool`, the refinement: `PoolInit` for the
  initial states, `PoolNext` for every step.

`Inv` joins the types with `NoLostWakeup` (the threads asleep are as many as
`m_lWaiting` and the permits together, and nobody is counted while a sample is
free or the allocator is decommitted), `OwnedOnce` (every sample is free, held or on
its way back, and only one of these), `KeptAlive` (the allocator refers to itself
from Commit until the decommit is complete, and while a sample is out) and
`PropertiesInForce` (the samples are those last agreed on, unless Commit has yet to
make them). They need each other: that a counted thread will be told needs a sample
to be out, and that Commit frees none in use needs `KeptAlive`. `m_lWaiting` and
`m_hSem` are only natural numbers in `Inv`; that they stay within the number of
threads follows from the balance. The balance is a statement about cardinalities,
so the steps that move one thread cite finite set lemmas.

### The pin

`OutputPinProofs` proves for every number of units, breaks and failures, from
`PinAssumption` (natural numbers, at least one unit, one epoch and one failure):

- `TypeCorrect`: `Spec => []TypeOK`, with the failure counters below their limits;
- `SuppressedOnlyForFailures`: `Spec => []SuppressedForFailures`. `Counted`: failures
  are counted only while the queue is not open, and then `m_hr` is the one counted;
- `GapsAreMarked`: `Spec => DiscontinuityTold`. `Marks` is about the line of an open
  queue: each sample in it is marked or follows on the one before it (`Chained`),
  and what the pin remembers of the last one it queued is the end of that line
  (`Linked`);
- `TypesAreTold`: `Spec => ToldUnlessDiscarded`. `Formats`: every sample in the line
  finds downstream, when it gets there, the type it was made with, unless `untold`.

### The timeline

`EditTimelineProofs` proves for every file, every edit list, start and stop, with a
map or without, from `FileAssumption` and `OpeningAssumption`:

- `TypeCorrect`: `Spec => []TypeOK`;
- `EditIsAConcatenation`: `Spec => []ShownInPlace`;
- `VideoAndAudioInStep`: `Spec => []InStep`;
- `NothingMissing`: `Spec => []NoMissingReference`, for a file that begins at an
  access point (`BeginsAtRap`). The hypothesis is needed: a run that starts at
  byte 0 does not wait for one (`MmtTlvSplitter.cpp:4588`);
- `EveryFrameIsShown`: `Spec => []EveryFrameShown`, for a file that begins at an
  access point and whose pictures stored before an access point are shown before it
  (`RapsDivide`; no picture trails behind a later access point).

The runs evaluate both hypotheses on their files. What a run must be given is in the
property itself: an access point in the map up to each place that it seeks to
(`SeeksMapped`), and a stop position past the reordering of the frames
(`StopsPastReordering`). Without a map the ratio of the durations may land behind the
place, and nothing makes up for it.

`Inv` says what Load leaves (`Opened`: the segments kept lie within the source, the
durations agree with them), that `m_curSegmentBase` is the sum it stands for
(`Placed`), and that pin and filter wait together (`Waits`). `Timeline` is the
history: in an edited file each sample shown is in its segment at the place that
the segments before it give; in another there is one offset, set while nothing has
been handed on. `ShownInPlace` counts the moments of the segments before, where the
code adds lengths; `MomentsCounted` shows that these are the same. `Decoding`
carries the argument for the decoder: when a jump is due all video left in the file is
past the segment (`JumpDue`: this is where the test on decode time matters), while pin and filter
wait nothing of the segment has been handed on, and otherwise what was read since
the last picture handed on is cut by the offset (`Reading`), which is the time of the
first picture of the run (`OffsetOfFirst`).

`Whole` counts what has been shown: every segment that the run has left is `Complete`,
and of the segment it is in, everything wanted that has been read has been shown
(`Caught`). A landing by the map skips nothing that is wanted (`LandsBefore`), the
first picture after it is an access point at or before the position (`RapIsNext`), so
the wait drops nothing and the offset stays 0. When a jump is due or the stop is
passed, nothing wanted is left in the file: decode times grow, and no frame is shown
before it is decoded (`DueIsComplete`, `StopIsInDecodeOrder`). A stop also lies before
the end of its segment in the program, so before all of the segments that follow.

### The selection

`ServiceSelectionProofs` proves for all packages, services, tables and streams, from
`ServiceAssumption` (types) and `AssetAssumption`:

- `TypeCorrect`: `Spec => []TypeOK`;
- `VideoIsAccepted`: `Spec => []VideoFollowsService`;
- `ListsAreOfService`: `Spec => []ListsOfService`;
- `IndexNamesOneTrack`: `Spec => []SubtitleIndexIsOnes`;
- `AudioKeepsItsPin`: `Spec => []AudioOnItsTrack`;
- `ServiceStays`: `Spec => ServiceIsKept`, an action property.

`Inv` adds that service, program and package agree (`ServiceKnown`, `ProgramKnown`),
that once the service's MPT has come the lists hold only packets that are let through
(`Lists`), and that no two entries of a list share what they are looked up by
(`SubtitlesDiffer`, `AudioTags`).

### The subtitle index

`SubtitleIndexProofs` proves for every set of recordings, every lead and every
distance read through, from `PacketAssumption` and `BroadcastAssumption`:

- `TypeCorrect`: `Spec => []TypeOK`;
- `AnswersAlwaysAgree`: `Spec => []AnswersAgree`.

`SubtitleInterval` defines clock and streams at a packet by looking back over the
whole file; `ArrivalSteps` and `StreamsSteps` give them from one packet to the next,
and `ArrivalGrows` says that the clock does not run backwards. `Inv` says what the
window knows: where it begins (`Placed`), that the streams are the file's once the
window has had an MPT (`Controlled`), that the clock is once it has had one
(`Clocked`), which time stamps it has seen (`Stamped`), and of its records that they
stand in the order of the file (`Ordered`), say what the file says of their packet
(`Truthful`), and that none is missing (`Complete`). Before the document that the
window was opened for, records may be wrong: the window may have begun between an
MPT and the document. `Synced` is where the lead counts: from that document on,
streams and clock are the file's. So the records
name every ending of a document that has been read, and an ending still to be read
comes no earlier than the clock (`BoundariesKnown`); Resolve stops reading when the
clock has reached the earliest one it knows, which no other can undercut then
(`BoundedStop`), or at the end of the file, where it knows all of them and the last
time stamp (`StopAtEnd`, `EndIsMediaEnd`).

### Functions over data

The library's induction theorems have an operator as parameter and cannot be used.
Where an argument is by induction (a sum over the segments of an edit list, the
tracks that `OfType` selects), the module proves once, from the well-foundedness of
`<` on the naturals, that a set with 0 and all successors has every natural, and
applies it to the set of the numbers for which the claim holds. A recursive function
first needs that it exists: `RecursionExists` builds it step by step in the same way.

### Only model-checked

- Liveness (`CallsReturn`, `EndIsTold`, `FlushAndDeleteReturn`, `WaitersGo`): fairness
  and ENABLED are out of the prover's reach.
- The properties of `SubtitleSchedule`. Its schedule is made by folds over sorted
  sequences of cues, one inside the other, with operators as parameters; what such a
  fold computes is an induction over data.

## 5. The plan

Done: queue, allocator, lifecycle, timeline, pin, selection, subtitle index and
schedule; proofs of the safety properties of the queue with its refinement, of the
allocator with its refinement, of the lifecycle, of the pin, of the selection, of
the timeline and of the subtitle index.

Left, in this order:

1. Proofs: `ShownAsWritten` of `SubtitleSchedule`, which needs only that each cue is
   right when it is made and that the folds keep cues as they are.
2. Several subtitle pins: the routing of documents by tag together with the
   schedule.
3. A pin with its allocator and its queue in one model: today `FilterLifecycle`
   has a count of buffers for what `SampleAllocator` does in detail.

Not modelled, and why:

- The assembly of access units in the pin (`DsHandler.cpp:1216` and the
  accumulators): what a fragment is, and when a unit is complete, is decided by the
  demultiplexer, whose source is in another repository. `OutputPin` and
  `ServiceSelection` take whole units.
- JSON parsing of sidecar files, the pre-scan, LATM decoding and downmix, the text
  and layout part of TTML to ASS, COM glue and the tools:
  sequential, data-driven code whose behaviour is in its inputs.
- The other DirectShow base classes (windows, renderers, clocks, list templates,
  type libraries) and the ffmpeg headers under `thirdparty/`: vendored code that is
  most of the lines of the repository and holds none of this program's logic. Of
  the base classes, the two that this filter's threads meet in, `COutputQueue` and
  `CMemAllocator`, are modelled.
