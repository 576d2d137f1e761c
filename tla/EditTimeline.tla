---------------------------- MODULE EditTimeline ----------------------------
(***************************************************************************)
(* One run of CMmtTlvSplitter::DemuxLoop seen as a timeline: how the       *)
(* access units of the source file become samples of the edited program.   *)
(* The file is a sequence of units in file order; an edit decision list of *)
(* several segments makes the loop jump in the file, a list of one segment *)
(* trims it by shifting the first time stamp.                              *)
(*                                                                         *)
(* Times count frames.  The parser, the queues behind the pins and what    *)
(* can interrupt a run are elsewhere (OutputQueue, FilterLifecycle); both  *)
(* the video pin and the audio pin are connected here.                     *)
(***************************************************************************)
EXTENDS Integers, Sequences, FiniteSetsExt

CONSTANTS File,      \* the units: [kind, pts, dts, key], in file order
          Edits,     \* the edit lists a file may be opened with; <<>> for none
          Targets,   \* the program positions a run may start at
          Stops      \* the stop positions, NoStop for none

NoStop == 1000

\* The prescan finds the first time stamp; units are stored in decode order.
ASSUME FileAssumption ==
    /\ File \in Seq([kind : {"video", "audio"}, pts : Nat, dts : Nat, key : BOOLEAN])
    /\ \E n \in DOMAIN File : File[n].kind = "video"
    /\ \A n \in DOMAIN File : File[n].dts <= File[n].pts
    /\ \A m, n \in DOMAIN File : m < n /\ File[m].kind = "video" /\ File[n].kind = "video"
          => File[m].dts < File[n].dts

\* LoadSidecarEdit skips a segment that does not end after its start.
ASSUME OpeningAssumption ==
    /\ Edits \subseteq Seq({s \in [start : Nat, end : Nat] : s.start < s.end})
    /\ Targets \subseteq Nat /\ Stops \subseteq Nat

VARIABLES
    m_editSegments, m_virtualStart, m_firstPts, m_duration,
    m_seekTarget,          \* the program position of the run, also m_segmentStart
    m_stopPos,
    hasMap,                \* m_hasSidecarMap
    m_active, m_curSegment, m_curSegmentBase, m_pendingSegmentJump,
    m_waitingForVideoRap,  \* of the filter: audio is dropped
    m_waitForVideoRap,     \* of the video pin: dependent frames are dropped
    m_segmentTimeOffset,
    m_currentPts, m_currentDts,
    next,                  \* the unit that the buffer and the file are at
    loop,                  \* where the loop is
    played                 \* history: the samples handed on

loaded == <<m_editSegments, m_virtualStart, m_firstPts, m_duration, m_seekTarget,
            m_stopPos, hasMap>>
segmentVars == <<m_curSegment, m_curSegmentBase>>
rapVars == <<m_waitingForVideoRap, m_waitForVideoRap, m_segmentTimeOffset>>
positionVars == <<m_currentPts, m_currentDts>>
vars == <<loaded, segmentVars, m_pendingSegmentJump, rapVars, positionVars, m_active,
          next, loop, played>>

-----------------------------------------------------------------------------
(***************************************************************************)
(* Load: the prescan and ApplySidecarIndex.                                *)
(***************************************************************************)
Stamps == {File[n].pts : n \in DOMAIN File}
m_origFirstPts == Min(Stamps)
m_sourceDuration == Max(Stamps) - Min(Stamps)

Length(s) == s.end - s.start

\* Several segments: clamped to the source, and the empty ones dropped.
Kept(edit) ==
    LET clamped == [i \in DOMAIN edit |->
                       [edit[i] EXCEPT !.end = Min({@, m_sourceDuration})]]
        kept[n \in 0 .. Len(edit)] ==
            IF n = 0 THEN <<>>
            ELSE IF clamped[n].end > clamped[n].start THEN Append(kept[n - 1], clamped[n])
            ELSE kept[n - 1]
    IN  IF Len(edit) <= 1 THEN edit ELSE kept[Len(edit)]

SegmentBase(segs, i) ==
    LET base[n \in 0 .. Len(segs)] == IF n = 0 THEN 0 ELSE base[n - 1] + Length(segs[n])
    IN  base[i - 1]

EditTotalDuration(segs) == SegmentBase(segs, Len(segs) + 1)

\* The segment of a program position, and its position in the source.
SegmentAtProgram(segs, pos) ==
    LET last == Len(segs)
        i == Min({last} \cup {k \in 1 .. last : pos < SegmentBase(segs, k + 1)})
    IN  [segment |-> i,
         source  |-> segs[i].start + Min({pos - SegmentBase(segs, i), Length(segs[i])})]

\* Whether a segment trims the file: it must begin within the source.
Trims(segs) == Len(segs) = 1 /\ segs[1].start < m_sourceDuration

Load(edit) ==
    LET segs  == Kept(edit)
        start == IF Trims(segs) THEN segs[1].start ELSE 0
        rest  == m_sourceDuration - start
    IN  /\ m_editSegments = segs
        /\ m_virtualStart = start
        /\ m_firstPts = m_origFirstPts + start
        /\ m_duration = IF Len(segs) > 1 THEN EditTotalDuration(segs)
                        ELSE IF Trims(segs) THEN Min({rest, Length(segs[1])})
                        ELSE m_sourceDuration

IsMultiSegment == Len(m_editSegments) > 1

Init ==
    /\ \E edit \in Edits : Load(edit)
    /\ m_seekTarget \in {Min({t, m_duration}) : t \in Targets}
    /\ m_stopPos \in {Min({s, m_duration}) : s \in Stops \ {NoStop}} \cup (Stops \cap {NoStop})
    /\ hasMap \in BOOLEAN
    /\ m_active = TRUE
    /\ m_curSegment = 1 /\ m_curSegmentBase = 0 /\ m_pendingSegmentJump = "none"
    /\ m_waitingForVideoRap = FALSE /\ m_waitForVideoRap = FALSE
    /\ m_segmentTimeOffset = 0
    /\ m_currentPts = m_seekTarget /\ m_currentDts = -1
    /\ next = 1 /\ loop = "setup" /\ played = <<>>

-----------------------------------------------------------------------------
(***************************************************************************)
(* Where a seek lands.                                                     *)
(***************************************************************************)
RapPoints == {n \in DOMAIN File : File[n].kind = "video" /\ File[n].key}

\* The last access point that the map has up to the source position.
Mapped(source) == {n \in RapPoints : File[n].pts - m_origFirstPts <= source}

\* The ratio of the durations leads anywhere in the file.
Landing(source) ==
    IF source = 0 THEN {1}
    ELSE IF hasMap /\ Mapped(source) # {} THEN {Max(Mapped(source))}
    ELSE 1 .. Len(File) + 1

\* The loop's start: segment, position, and whether to wait for an access point.
SetUp ==
    /\ loop = "setup"
    /\ LET at     == SegmentAtProgram(m_editSegments, m_seekTarget)
           source == IF IsMultiSegment THEN at.source ELSE m_seekTarget + m_virtualStart
       IN  /\ IF IsMultiSegment
              THEN /\ m_curSegment' = at.segment
                   /\ m_curSegmentBase' = SegmentBase(m_editSegments, at.segment)
                   /\ m_pendingSegmentJump' = "none"
              ELSE UNCHANGED <<segmentVars, m_pendingSegmentJump>>
           /\ m_waitingForVideoRap' = (source > 0)
           /\ m_waitForVideoRap' = (source > 0)
           /\ m_segmentTimeOffset' = 0
           /\ next' \in Landing(source)
    /\ loop' = "read"
    /\ UNCHANGED <<loaded, positionVars, m_active, played>>

-----------------------------------------------------------------------------
(***************************************************************************)
(* The mapping of a unit's times (EditMapPts, and the plain mapping).      *)
(***************************************************************************)
Segment == m_editSegments[m_curSegment]
SourceTime(u) == u.pts - m_origFirstPts

NormPts(u) == IF IsMultiSegment THEN m_curSegmentBase + (SourceTime(u) - Segment.start)
              ELSE u.pts - m_firstPts
NormDts(u) == u.dts - (u.pts - NormPts(u))
\* Mutant of DecodeTime: the stop position is compared with the time shown.
DecodeTimeShown(u) == NormPts(u)

DecodeTime(u) == IF NormDts(u) >= 0 THEN NormDts(u) ELSE NormPts(u)

ToSegmentTime(rt) == IF rt < 0 THEN rt ELSE Max({rt - m_seekTarget, 0})

\* Mutant of PastSegment: the time the frame is shown at decides.
PastSegmentShown(u) == IsMultiSegment /\ SourceTime(u) >= Segment.end

\* In decode order the segment is over; a jump is due.
PastSegment(u) == IsMultiSegment /\ u.dts - m_origFirstPts >= Segment.end

\* Mutant of Preroll: a reference frame of after the cut is shown.
PrerollBeforeOnly(u) ==
    \/ NormPts(u) > m_stopPos
    \/ IsMultiSegment /\ (SourceTime(u) < Segment.start \/ NormPts(u) < m_seekTarget)

\* Decoded, but not shown.
Preroll(u) ==
    \/ NormPts(u) > m_stopPos
    \/ /\ IsMultiSegment
       /\ \/ SourceTime(u) < Segment.start \/ SourceTime(u) >= Segment.end
          \/ NormPts(u) < m_seekTarget

\* Audio outside the segment, or before the requested position.
AudioOutside(u) ==
    /\ IsMultiSegment
    /\ \/ SourceTime(u) < Segment.start \/ SourceTime(u) >= Segment.end
       \/ NormPts(u) < m_seekTarget

\* The end of DeliverSample: what precedes the time offset is dropped.
PinDelivers(u, time, preroll, offset) ==
    played' = IF 0 <= time /\ time < offset THEN played
              ELSE Append(played, [unit |-> next, segment |-> m_curSegment,
                                   time |-> IF time < 0 THEN time ELSE time - offset,
                                   preroll |-> preroll])

Demux(kind) == /\ loop = "batch" /\ m_active /\ next <= Len(File)
               /\ File[next].kind = kind
               /\ next' = next + 1

\* Mutant of VideoPastSegment: the last segment is not told from the others.
VideoPastSegmentAlways ==
    /\ Demux("video") /\ PastSegment(File[next])
    /\ m_pendingSegmentJump' = "next"
    /\ UNCHANGED <<loaded, segmentVars, rapVars, positionVars, m_active, loop, played>>

\* The video callback, past the end of the segment: the jump is noted.
VideoPastSegment ==
    /\ Demux("video") /\ PastSegment(File[next])
    /\ m_pendingSegmentJump' = IF m_curSegment < Len(m_editSegments) THEN "next" ELSE "end"
    /\ UNCHANGED <<loaded, segmentVars, rapVars, positionVars, m_active, loop, played>>

\* Past the stop position, in decode order.
VideoPastStop ==
    /\ Demux("video") /\ ~PastSegment(File[next])
    /\ DecodeTime(File[next]) > m_stopPos
    /\ m_active' = FALSE
    /\ UNCHANGED <<loaded, segmentVars, m_pendingSegmentJump, rapVars, positionVars, loop,
                   played>>

\* Mutant of VideoSample: every access point sets the offset.
VideoSampleRebased ==
    /\ Demux("video") /\ ~PastSegment(File[next])
    /\ DecodeTime(File[next]) <= m_stopPos
    /\ LET u == File[next]
           time == ToSegmentTime(NormPts(u))
       IN  IF m_waitForVideoRap /\ ~u.key
           THEN UNCHANGED <<rapVars, played>>
           ELSE /\ m_waitForVideoRap' = FALSE
                /\ m_waitingForVideoRap' = FALSE
                /\ m_segmentTimeOffset' = IF u.key /\ ~IsMultiSegment THEN Max({time, 0})
                                          ELSE m_segmentTimeOffset
                /\ PinDelivers(u, time, Preroll(u), m_segmentTimeOffset')
    /\ UNCHANGED <<loaded, segmentVars, m_pendingSegmentJump, positionVars, m_active, loop>>

\* The first access point ends the wait of the pin and of the filter, and its
\* time becomes the offset of the run unless the file is edited.
VideoSample ==
    /\ Demux("video") /\ ~PastSegment(File[next])
    /\ DecodeTime(File[next]) <= m_stopPos
    /\ LET u == File[next]
           time == ToSegmentTime(NormPts(u))
       IN  /\ IF Preroll(u) THEN UNCHANGED positionVars
              ELSE /\ m_currentPts' = IF NormPts(u) > 0 THEN NormPts(u) ELSE m_currentPts
                   /\ m_currentDts' = IF NormDts(u) >= 0 THEN NormDts(u) ELSE m_currentDts
           /\ IF m_waitForVideoRap /\ ~u.key
              THEN UNCHANGED <<rapVars, played>>
              ELSE /\ m_waitForVideoRap' = FALSE
                   /\ IF m_waitForVideoRap /\ m_waitingForVideoRap
                      THEN /\ m_waitingForVideoRap' = FALSE
                           /\ m_segmentTimeOffset' = IF IsMultiSegment THEN 0
                                                     ELSE Max({time, 0})
                      ELSE UNCHANGED <<m_waitingForVideoRap, m_segmentTimeOffset>>
                   /\ PinDelivers(u, time, Preroll(u), m_segmentTimeOffset')
    /\ UNCHANGED <<loaded, segmentVars, m_pendingSegmentJump, m_active, loop>>

AudioSample ==
    /\ Demux("audio")
    /\ LET u == File[next] IN
       IF AudioOutside(u) \/ NormPts(u) > m_stopPos \/ m_waitingForVideoRap
       THEN UNCHANGED played
       ELSE PinDelivers(u, ToSegmentTime(NormPts(u)), FALSE, m_segmentTimeOffset)
    /\ UNCHANGED <<loaded, segmentVars, m_pendingSegmentJump, rapVars, positionVars,
                   m_active, loop>>

-----------------------------------------------------------------------------
(***************************************************************************)
(* The loop.                                                               *)
(***************************************************************************)
LoopOnly == UNCHANGED <<loaded, positionVars, m_active, played>>

\* The buffer is refilled...
Read ==
    /\ loop = "read" /\ m_active /\ next <= Len(File)
    /\ loop' = "batch"
    /\ UNCHANGED <<segmentVars, m_pendingSegmentJump, rapVars, next>> /\ LoopOnly

\* ... unless the file has ended, or the stop position is passed.
Finish ==
    /\ loop = "read" /\ (~m_active \/ next > Len(File))
    /\ loop' = "done"
    /\ UNCHANGED <<segmentVars, m_pendingSegmentJump, rapVars, next>> /\ LoopOnly

\* A batch ends at any unit; a jump that it asked for is made now.
BatchEnds ==
    /\ loop = "batch" /\ m_pendingSegmentJump = "none"
    /\ loop' = "read"
    /\ UNCHANGED <<segmentVars, m_pendingSegmentJump, rapVars, next>> /\ LoopOnly

EditEnds ==
    /\ loop = "batch" /\ m_pendingSegmentJump = "end"
    /\ m_pendingSegmentJump' = "none"
    /\ loop' = "done"
    /\ UNCHANGED <<segmentVars, rapVars, next>> /\ LoopOnly

JumpToSegment ==
    /\ loop = "batch" /\ m_pendingSegmentJump = "next"
    /\ m_pendingSegmentJump' = "none"
    /\ m_curSegment' = m_curSegment + 1
    /\ m_curSegmentBase' = SegmentBase(m_editSegments, m_curSegment + 1)
    /\ next' \in Landing(m_editSegments[m_curSegment + 1].start)
    /\ m_waitingForVideoRap' = TRUE /\ m_waitForVideoRap' = TRUE
    /\ loop' = "read"
    /\ UNCHANGED m_segmentTimeOffset /\ LoopOnly

\* The end of stream has been delivered.
Done == loop = "done" /\ UNCHANGED vars

Next == \/ SetUp \/ Read \/ Finish \/ BatchEnds \/ EditEnds \/ JumpToSegment \/ Done
        \/ VideoPastSegment \/ VideoPastStop \/ VideoSample \/ AudioSample

Spec == Init /\ [][Next]_vars
-----------------------------------------------------------------------------
LoopPC == {"setup", "read", "batch", "done"}

TypeOK ==
    /\ m_editSegments \in Seq([start : Nat, end : Nat])
    /\ m_virtualStart \in Nat /\ m_firstPts \in Nat /\ m_duration \in Nat
    /\ m_seekTarget \in 0 .. m_duration /\ m_stopPos \in Nat /\ hasMap \in BOOLEAN
    /\ m_active \in BOOLEAN
    /\ m_curSegment \in 1 .. Max({1, Len(m_editSegments)}) /\ m_curSegmentBase \in Nat
    /\ m_pendingSegmentJump \in {"none", "next", "end"}
    /\ m_pendingSegmentJump = "next" => m_curSegment < Len(m_editSegments)
    /\ m_waitingForVideoRap \in BOOLEAN /\ m_waitForVideoRap \in BOOLEAN
    /\ m_segmentTimeOffset \in Nat
    /\ m_currentPts \in Nat /\ m_currentDts \in Nat \cup {-1}
    /\ next \in 1 .. Len(File) + 1 /\ loop \in LoopPC
    /\ played \in Seq([unit : DOMAIN File, segment : Nat, time : Int, preroll : BOOLEAN])

Unit(e) == File[e.unit]
Shown == {n \in DOMAIN played : ~played[n].preroll}
PlayedVideo == {n \in DOMAIN played : Unit(played[n]).kind = "video"}

\* The moments of the source that the first segments of the edit list show.
Moments(segs, n) == {m \in (1 .. n) \X (0 .. m_sourceDuration) :
                         segs[m[1]].start <= m[2] /\ m[2] < segs[m[1]].end}

\* The time of a source instant in the edited program, as the edit list says.
ProgramTime(u, i) ==
    IF IsMultiSegment
    THEN SourceTime(u) - m_editSegments[i].start + Cardinality(Moments(m_editSegments, i - 1))
    ELSE SourceTime(u) - m_virtualStart

\* A unit that the edit shows in its segment i.
Edited(u, i) ==
    IsMultiSegment => /\ m_editSegments[i].start <= SourceTime(u)
                      /\ SourceTime(u) < m_editSegments[i].end

(***************************************************************************)
(* "The edited program is the concatenation of the listed source           *)
(* segments": what is shown of an edited file lies in its segment, at the  *)
(* time that the lengths of the segments before it give, and the segments  *)
(* come in order; nothing of before the requested position is shown.       *)
(***************************************************************************)
ShownInPlace ==
    IsMultiSegment =>
        /\ \A n \in Shown :
              LET e == played[n] IN
              /\ Edited(Unit(e), e.segment)
              /\ e.time = ProgramTime(Unit(e), e.segment) - m_seekTarget
              /\ e.time >= 0
        /\ \A m, n \in Shown : m < n => played[m].segment <= played[n].segment

(***************************************************************************)
(* In a file that is not edited, whatever time the first access point had, *)
(* video and audio from the requested position on stay in step: the run    *)
(* has one offset, and no sample was handed on under another one.          *)
(***************************************************************************)
InStep ==
    ~IsMultiSegment =>
        \A m, n \in DOMAIN played :
            LET d == Unit(played[m]) e == Unit(played[n]) IN
            NormPts(d) >= m_seekTarget /\ NormPts(e) >= m_seekTarget
                => played[m].time - played[n].time = d.pts - e.pts

(***************************************************************************)
(* The decoder gets, at the start and after every jump, an access point    *)
(* first and then every frame in decode order, save leading pictures of    *)
(* before the first access point (which the time offset cuts): a missing   *)
(* reference frame shows as broken pictures until the next access point.   *)
(***************************************************************************)
NoMissingReference ==
    \A n \in PlayedVideo :
        LET e == played[n]
            before == {m \in PlayedVideo : m < n}
            previous == played[Max(before)]
        IN  IF before = {} \/ previous.segment # e.segment
            THEN Unit(e).key
            ELSE \A k \in previous.unit + 1 .. e.unit - 1 :
                    File[k].kind = "video" => File[k].pts < Unit(played[Min(PlayedVideo)]).pts

\* A recording that begins at an access point: at the start of a file the code
\* does not wait for one.
BeginsAtRap ==
    \A n \in DOMAIN File :
        File[n].kind = "video" /\ (\A k \in DOMAIN File : k < n => File[k].kind # "video")
            => File[n].key

\* Every picture that is stored before an access point is shown before it.
RapsDivide ==
    \A n \in RapPoints : \A k \in DOMAIN File :
        File[k].kind = "video" /\ k < n => File[k].pts < File[n].pts

\* The source positions that the seeks of the run go to, and whether the map has
\* an access point up to each of them.
SeekSources ==
    LET at == SegmentAtProgram(m_editSegments, m_seekTarget)
    IN  IF IsMultiSegment
        THEN {at.source} \cup
             {m_editSegments[i].start : i \in at.segment + 1 .. Len(m_editSegments)}
        ELSE {m_seekTarget + m_virtualStart}
SeeksMapped == hasMap /\ \A source \in SeekSources : source = 0 \/ Mapped(source) # {}

\* A frame that is decoded before time zero is shown before the stop position.
StopsPastReordering ==
    \A n \in DOMAIN File : File[n].kind = "video" => File[n].pts - File[n].dts <= m_stopPos

(***************************************************************************)
(* When every seek of a run had a map to go by and the run ended at the    *)
(* end of the last segment, of the file or at the stop position, every     *)
(* frame of the edited program from the requested position to there has    *)
(* been shown, in spite of B pictures that are decoded late and of jumps   *)
(* in the middle of a batch; but a stop position within the reordering of  *)
(* the first frames may come too early, and is left out.                   *)
(***************************************************************************)
EveryFrameShown ==
    /\ loop = "done" /\ SeeksMapped /\ StopsPastReordering
    /\ IsMultiSegment /\ m_active => m_curSegment = Len(m_editSegments)
    => \A n \in DOMAIN File, i \in 1 .. Max({1, Len(m_editSegments)}) :
           LET t == ProgramTime(File[n], i) IN
           /\ File[n].kind = "video" /\ Edited(File[n], i)
           /\ m_seekTarget <= t /\ t <= m_stopPos
           => \E k \in Shown : played[k].unit = n /\ played[k].segment = i

(***************************************************************************)
(* "A single segment behaves as a simple in/out trim" (README): nothing    *)
(* after the out point is shown, even if every seek has a map to go by.    *)
(***************************************************************************)
TrimmedAtTheEnd ==
    hasMap /\ Trims(m_editSegments) =>
        \A n \in Shown : SourceTime(Unit(played[n])) < m_editSegments[1].end

(***************************************************************************)
(* "Multiple segments are concatenated, with the demuxer jumping across    *)
(* the cut gaps" (README): a run that is not stopped ends in the last      *)
(* segment, if every seek has a map to go by.                              *)
(***************************************************************************)
EndsInTheLastSegment ==
    loop = "done" /\ hasMap /\ IsMultiSegment /\ m_active
        => m_curSegment = Len(m_editSegments)
=============================================================================
