---------------------------- MODULE SubtitleIndex ----------------------------
(***************************************************************************)
(* SubtitleFileIndex: a second reader of the file, which the demux worker  *)
(* asks for the display interval of each document it meets.  It reads      *)
(* ahead of the worker, keeps the timing records of one window of the file *)
(* and opens another window when the worker has been seeked away.  A stop  *)
(* may cancel it between two packets; the next run asks the same index.    *)
(*                                                                         *)
(* A packet's byte offset is its position less one.  Documents of equal    *)
(* bytes at one offset do not occur, so that the offset stands for offset, *)
(* packet id and hash.                                                     *)
(***************************************************************************)
EXTENDS Integers, Sequences, FiniteSetsExt

CONSTANTS Files,         \* the recordings: each a sequence of packets
          InitialTime,
          m_readThrough, m_restartLead   \* in packets

None == -1

VARIABLES
    file,
    m_windowStart,     \* the offset at which the window begins
    consumed,          \* the offset it has been read to
    m_records, m_arrival, m_lastPts, m_hasVideoClock,
    m_controls,        \* the subtitle streams of the last MPT
    wanted,            \* the document that Resolve is asked for, 0 while it is not running
    answer,            \* the record it filled in, NoAnswer before
    opened             \* history: the document that the window was opened for

window == <<m_windowStart, consumed, m_records, m_arrival, m_lastPts, m_hasVideoClock>>
vars == <<file, window, m_controls, wanted, answer, opened>>

I == INSTANCE SubtitleInterval WITH File <- file

Time == Nat \cup {None}
Control == [sync : BOOLEAN, ref : Time]

\* What a packet carries.
ASSUME PacketAssumption == \A f \in Files :
    /\ f \in Seq({f[k] : k \in DOMAIN f})
    /\ \A k \in DOMAIN f : LET p == f[k] IN
         \/ p.kind = "video" /\ p.dts \in Time /\ p.pts \in Time
         \/ p.kind = "ntp" /\ p.time \in Nat
         \/ /\ p.kind = "mpt" /\ p.streams \in [DOMAIN p.streams -> Control]
            /\ IsFiniteSet(DOMAIN p.streams) /\ DOMAIN p.streams \subseteq STRING
         \/ p.kind = "doc" /\ p.pid \in STRING /\ {p.begin, p.end} \subseteq Time

\* The packets that set the clock: NTP until the first video unit with a time.
Clocks(f) == {j \in DOMAIN f : I!IsClock(f[j])}
Ticks(f) == Clocks(f) \cup {j \in DOMAIN f : f[j].kind = "ntp" /\ \A i \in Clocks(f) : j < i}
TickTime(p) == IF p.kind = "ntp" THEN p.time ELSE I!ClockOf(p)

\* A recording repeats its MPT and its video densely enough for the lead of a
\* restart: both come at most m_restartLead packets before every document (before
\* the first clock an NTP time will do), and pictures are reordered within the lead.
\* Its clock does not run backwards.
ASSUME BroadcastAssumption ==
    /\ m_readThrough \in Nat \ {0} /\ m_restartLead \in Nat /\ InitialTime \in Time
    /\ \A f \in Files : \A k \in DOMAIN f : f[k].kind = "doc" =>
         LET lead == {j \in DOMAIN f : k - m_restartLead <= j /\ j < k}
             Some(kind) == \E j \in lead : f[j].kind = kind
         IN  /\ Some("mpt")
             /\ IF \E j \in Clocks(f) : j < k THEN \E j \in Clocks(f) : j \in lead
                                              ELSE Some("ntp")
             /\ \A i \in DOMAIN f : f[i].kind = "video" /\ i < k - m_restartLead =>
                   \E j \in lead : f[j].kind = "video" /\ f[i].pts <= f[j].pts
    /\ \A f \in Files : \A j, k \in Ticks(f) : j < k => TickTime(f[j]) <= TickTime(f[k])

NoAnswer == [doc |-> 0, found |-> FALSE, start |-> None, stop |-> None]

Record == [offset : Nat, pid : STRING, update : BOOLEAN, start : Time, stop : Time, arrival : Time]

TypeOK ==
    /\ file \in Files
    /\ m_windowStart \in 0 .. Len(file) /\ consumed \in m_windowStart .. Len(file)
    /\ m_records \in Seq(Record)
    /\ \A n \in DOMAIN m_records : m_records[n].offset \in m_windowStart .. consumed - 1
    /\ {m_arrival, m_lastPts} \subseteq Time /\ m_hasVideoClock \in BOOLEAN
    /\ wanted \in {0} \cup I!Docs /\ answer.doc \in {0} \cup I!Docs
    /\ opened \in {0} \cup I!Docs

Init ==
    /\ file \in Files
    /\ m_windowStart = 0 /\ consumed = 0 /\ m_records = <<>>
    /\ m_arrival = InitialTime /\ m_lastPts = None /\ m_hasVideoClock = FALSE
    /\ m_controls = I!NoStreams
    /\ wanted = 0 /\ answer = NoAnswer /\ opened = 0

-----------------------------------------------------------------------------
(***************************************************************************)
(* The callbacks of the index's own demuxer, for packet k.                 *)
(***************************************************************************)
Video(k) ==
    LET p == file[k] IN
    /\ IF I!IsClock(p) THEN m_arrival' = I!ClockOf(p) /\ m_hasVideoClock' = TRUE
                       ELSE UNCHANGED <<m_arrival, m_hasVideoClock>>
    /\ m_lastPts' = I!Larger(m_lastPts, p.pts)
    /\ UNCHANGED <<m_records, m_controls>>

Ntp(k) ==
    /\ m_arrival' = IF m_hasVideoClock THEN m_arrival ELSE file[k].time
    /\ UNCHANGED <<m_records, m_lastPts, m_hasVideoClock, m_controls>>

\* A stream that is gone or has another control gets a record of its own.
Controls(k) ==
    LET streams == file[k].streams
        changed == {p \in DOMAIN m_controls :
                      p \notin DOMAIN streams \/ streams[p] # m_controls[p]}
        Update(p) == [offset |-> k - 1, pid |-> p, update |-> TRUE,
                      start |-> m_arrival, arrival |-> m_arrival, stop |-> None]
    IN  /\ \E order \in [1 .. Cardinality(changed) -> changed] :
             /\ \A p \in changed : \E n \in DOMAIN order : order[n] = p
             /\ m_records' = m_records \o [n \in DOMAIN order |-> Update(order[n])]
        /\ m_controls' = streams
        /\ UNCHANGED <<m_arrival, m_lastPts, m_hasVideoClock>>

\* The demuxer hands on the documents of the streams it knows.
Document(k) ==
    LET d == file[k]
        control == m_controls[d.pid]
    IN  /\ m_records' =
             IF d.pid \notin DOMAIN m_controls THEN m_records
             ELSE Append(m_records, [offset |-> k - 1, pid |-> d.pid, update |-> FALSE,
                                     start |-> I!Start(d, control, m_arrival),
                                     stop |-> I!OwnStop(d, control, m_arrival),
                                     arrival |-> m_arrival])
        /\ UNCHANGED <<m_arrival, m_lastPts, m_hasVideoClock, m_controls>>

-----------------------------------------------------------------------------
(***************************************************************************)
(* Resolve: it scans the records, and reads packets until the end it has   *)
(* found so far cannot be undercut any more.                               *)
(***************************************************************************)
\* Mutant of Restart: the lead reaches before the file.
RestartBeforeFile(offset) ==
    /\ m_windowStart' = offset - m_restartLead /\ consumed' = offset - m_restartLead
    /\ m_records' = <<>> /\ m_arrival' = None /\ m_lastPts' = None /\ m_hasVideoClock' = FALSE

\* The streams that the demuxer knows are kept.
Restart(offset) ==
    /\ m_windowStart' = I!Larger(0, offset - m_restartLead) /\ consumed' = m_windowStart'
    /\ m_records' = <<>> /\ m_arrival' = None /\ m_lastPts' = None /\ m_hasVideoClock' = FALSE

\* The place is before the window or far ahead of it.
Left(offset) == offset < m_windowStart \/ offset > consumed + m_readThrough

Resolve(d) ==
    /\ wanted = 0 /\ wanted' = d
    /\ IF Left(d - 1) THEN Restart(d - 1) /\ opened' = d ELSE UNCHANGED <<window, opened>>
    /\ answer' = NoAnswer
    /\ UNCHANGED <<file, m_controls>>

Matches == {n \in DOMAIN m_records : ~m_records[n].update /\ m_records[n].offset = wanted - 1}
Found == Matches # {}
Index == Min(Matches)

\* Mutant of UpdateOf: a document replaces the one before it at its begin, also
\* when it comes later than that.
UpdateAtBegin(r) == r.start

\* When a later record of the stream ends what is shown.
UpdateOf(r) == I!Larger(r.start, r.arrival)

Boundaries ==
    LET r == m_records[Index]
        later == {n \in DOMAIN m_records : n > Index /\ m_records[n].pid = r.pid}
    IN  ({r.stop} \ {None}) \cup {UpdateOf(m_records[n]) : n \in later}

ReadFarEnough == Found /\ Boundaries # {} /\ m_arrival >= Min(Boundaries)

Answer(stop) ==
    /\ answer' = [doc |-> wanted, found |-> TRUE, start |-> m_records[Index].start, stop |-> stop]
    /\ wanted' = 0
    /\ UNCHANGED <<file, window, m_controls, opened>>

AnswerBounded == wanted # 0 /\ ReadFarEnough /\ Answer(Min(Boundaries))

ReadPacket ==
    /\ wanted # 0 /\ ~ReadFarEnough /\ consumed < Len(file)
    /\ LET k == consumed + 1
           kind == file[k].kind
       IN  \/ kind = "video" /\ Video(k)
           \/ kind = "ntp" /\ Ntp(k)
           \/ kind = "mpt" /\ Controls(k)
           \/ kind = "doc" /\ Document(k)
    /\ consumed' = consumed + 1
    /\ UNCHANGED <<file, m_windowStart, wanted, answer, opened>>

\* At the end of the file the last document is held to the last time stamp.
AnswerAtEnd ==
    /\ wanted # 0 /\ ~ReadFarEnough /\ consumed = Len(file)
    /\ IF Found THEN Answer(Min(Boundaries \cup {I!Larger(m_arrival, m_lastPts)}))
       ELSE /\ answer' = [NoAnswer EXCEPT !.doc = wanted]
            /\ wanted' = 0
            /\ UNCHANGED <<file, window, m_controls, opened>>

\* The filter stops: Resolve returns without an answer.
Cancelled ==
    /\ wanted # 0 /\ ~ReadFarEnough
    /\ wanted' = 0
    /\ UNCHANGED <<file, window, m_controls, answer, opened>>

Next == \/ \E d \in I!Docs : Resolve(d)
        \/ AnswerBounded \/ ReadPacket \/ AnswerAtEnd \/ Cancelled

Spec == Init /\ [][Next]_vars

-----------------------------------------------------------------------------
(***************************************************************************)
(* The interval of a document does not depend on which part of the file    *)
(* the index has read, on where its window began, on the seeks and the     *)
(* cancelled calls before: it is that of the whole file.  This holds for   *)
(* the document the window was opened for and those after it; a document   *)
(* before that one, in the lead of the window, is not promised.            *)
(***************************************************************************)
AnswersAgree ==
    answer.doc > 0 /\ wanted = 0 /\ answer.doc >= opened =>
        /\ answer.found = I!Known(answer.doc)
        /\ answer.found => /\ answer.start = I!StartOf(answer.doc)
                           /\ answer.stop = I!StopOf(answer.doc)
=============================================================================
