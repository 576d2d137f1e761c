--------------------------- MODULE SubtitleInterval ---------------------------
(***************************************************************************)
(* The display intervals of the subtitle documents of a recording, as a    *)
(* function of the whole file: what SubtitleFileIndex must answer whatever *)
(* part of the file it happens to have read.                               *)
(***************************************************************************)
EXTENDS Integers, Sequences, FiniteSetsExt

CONSTANTS File,         \* the packets, in file order
          InitialTime   \* m_origFirstPts: the clock before the first time stamp

None == -1   \* no time
Packets == DOMAIN File
Docs == {k \in Packets : File[k].kind = "doc"}

\* A video unit sets the clock to its decode time, or to its presentation time.
ClockOf(p) == IF p.dts >= 0 THEN p.dts ELSE p.pts
IsClock(p) == p.kind = "video" /\ ClockOf(p) >= 0

Latest(S, default(_), none) == IF S = {} THEN none ELSE default(Max(S))

\* The media time at packet k: the clock of the last video unit before it; while
\* there has been none, the last NTP time.
Arrival(k) ==
    LET clocks == {j \in 1 .. k - 1 : IsClock(File[j])}
        ntps == {j \in 1 .. k - 1 : File[j].kind = "ntp"}
        Clock(j) == ClockOf(File[j])
        Ntp(j) == File[j].time
    IN  Latest(clocks, Clock, Latest(ntps, Ntp, InitialTime))

\* The subtitle streams that the last MPT before packet k listed, with their control.
NoStreams == [p \in {} |-> None]
Streams(k) ==
    LET Listed(j) == File[j].streams
    IN  Latest({j \in 1 .. k - 1 : File[j].kind = "mpt"}, Listed, NoStreams)

\* An asynchronous document has no times of its own.
Base(d, control, arrival) == IF control.sync /\ control.ref # None THEN control.ref ELSE arrival
Start(d, control, arrival) ==
    IF ~control.sync \/ d.begin = None \/ d.clear THEN arrival
    ELSE Base(d, control, arrival) + d.begin
OwnStop(d, control, arrival) ==
    IF ~control.sync \/ d.end = None THEN None ELSE Base(d, control, arrival) + d.end

ControlOf(k) == Streams(k)[File[k].pid]
StartOf(k) == Start(File[k], ControlOf(k), Arrival(k))
Larger(a, b) == IF a >= b THEN a ELSE b

\* What ends the display of document d: its own end, the next document of the
\* stream from its begin or from when it comes, a change of the stream's control.
Endings(d) ==
    LET pid == File[d].pid
        own == OwnStop(File[d], ControlOf(d), Arrival(d))
        later == {k \in Docs : k > d /\ File[k].pid = pid /\ pid \in DOMAIN Streams(k)}
        changes == {k \in Packets : /\ k > d /\ File[k].kind = "mpt" /\ pid \in DOMAIN Streams(k)
                                    /\ \/ pid \notin DOMAIN File[k].streams
                                       \/ File[k].streams[pid] # Streams(k)[pid]}
    IN  ({own} \ {None}) \cup {Larger(StartOf(k), Arrival(k)) : k \in later}
                         \cup {Arrival(k) : k \in changes}

\* The media time at the end of the file.
MediaEnd ==
    LET stamps == {File[k].pts : k \in {j \in Packets : File[j].kind = "video"}}
    IN  Max(stamps \cup {Arrival(Len(File) + 1)})

Known(d) == File[d].pid \in DOMAIN Streams(d)

StopOf(d) == Min(Endings(d) \cup {MediaEnd})

\* The documents of known streams, with their intervals.
Intervals ==
    [d \in {k \in Docs : Known(k)} |->
        [start |-> StartOf(d), stop |-> StopOf(d), arrival |-> Arrival(d),
         base |-> Base(File[d], ControlOf(d), Arrival(d)), control |-> ControlOf(d)]]
=============================================================================
