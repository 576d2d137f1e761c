-------------------------- MODULE SubtitleSchedule --------------------------
(***************************************************************************)
(* From the documents and glyphs that the demux worker meets in the file   *)
(* to the cues it hands to the subtitle pins: documents that wait for      *)
(* their glyphs, the schedule, the pump that follows the video, clipping   *)
(* by edit segments, seeks and restarts.                                   *)
(*                                                                         *)
(* The index answers with the intervals of SubtitleInterval, which is what *)
(* SubtitleIndex checks of it.  A cue is what is shown of one document     *)
(* while none of its spans comes or goes; its text is the set of the spans *)
(* visible.  Every stream has a pin of its own that takes all cues.  A     *)
(* video unit is one complete access unit.                                 *)
(***************************************************************************)
EXTENDS SubtitleInterval, SequencesExt

CONSTANTS EditLists,     \* the edit lists a file may be opened with; <<>> for none
          Targets,       \* the program positions a run may start at
          Stops,         \* the stop positions, NoStop for none
          Landings,      \* the packets that a seek may lead to
          Delays,        \* the delays the user may have set
          Lead,          \* how early the pump hands on a cue
          MaxDeferred,   \* documents that may wait for glyphs
          MaxStarts      \* bound: seeks and restarts

NoStop == 1000

\* Frames follow one another within the lead, as do the last one and the end of the
\* media.
ASSUME ScheduleAssumption ==
    /\ MaxDeferred \in Nat \ {0} /\ Lead \in Nat /\ 0 \in Targets
    /\ Landings \subseteq 1 .. Len(File) + 1
    /\ LET clocks == {ClockOf(File[k]) : k \in {j \in Packets : IsClock(File[j])}} \cup {MediaEnd}
       IN  \A t \in clocks : t = Min(clocks) \/ \E s \in clocks : s < t /\ t - s <= Lead

VARIABLES
    m_subtitleFileIndex,   \* what it answers for each document
    m_editSegments, delayMs,
    m_segmentStart,        \* the program position of the run, also m_seekTarget
    m_stopPos,
    m_curSegment, m_pendingSegmentJump,
    m_currentPts, m_currentDts,
    next,                  \* the packet that the worker reads next
    running,               \* the worker is in its loop
    m_subtitleStreams,     \* the demuxer's streams
    g_subtitleGlyphs,
    m_deferredSubtitleSamples, m_scheduledSubtitleSamples,
    shown,                 \* history: the cues handed on in this run
    ready,                 \* history: documents of this run that found all their glyphs
    fresh,                 \* history: the position is that of the place where the worker reads
    starts

settings == <<m_subtitleFileIndex, m_editSegments, delayMs, m_segmentStart, m_stopPos>>
segmentVars == <<m_curSegment, m_pendingSegmentJump>>
positionVars == <<m_currentPts, m_currentDts>>
cueVars == <<m_deferredSubtitleSamples, m_scheduledSubtitleSamples, shown>>
vars == <<settings, segmentVars, positionVars, next, running, m_subtitleStreams,
          g_subtitleGlyphs, cueVars, ready, fresh, starts>>

-----------------------------------------------------------------------------
(***************************************************************************)
(* Time: absolute as in the file, of the program, and of the run.          *)
(***************************************************************************)
IsMultiSegment == Len(m_editSegments) > 1
m_firstPts == InitialTime + (IF Len(m_editSegments) = 1 THEN m_editSegments[1].start ELSE 0)
SegmentBase(i) ==
    MapThenSumSet(LAMBDA j : m_editSegments[j].end - m_editSegments[j].start, 1 .. i - 1)
SegmentAtProgram(pos) ==
    Min({Len(m_editSegments)} \cup {i \in DOMAIN m_editSegments : pos < SegmentBase(i + 1)})

\* What program time zero is in the file, seen from segment i.
Origin(i) == IF IsMultiSegment THEN InitialTime + m_editSegments[i].start - SegmentBase(i)
             ELSE m_firstPts
SubtitleProgramTime(t) == t - Origin(m_curSegment)
ToSegmentTime(t) == IF t < 0 THEN t ELSE Larger(t - m_segmentStart, 0)

SubtitleTimingAnchor == IF m_currentDts >= 0 THEN m_currentDts
                        ELSE Larger(m_currentPts, 0)

-----------------------------------------------------------------------------
(***************************************************************************)
(* A document: its interval (the index), and its slices (DsTtml::Slices).  *)
(***************************************************************************)
Documents == {d \in Docs : Known(d)}
Timed == [d \in Documents |-> ControlOf(d).sync]

Active(e, at) == (e.begin = None \/ at >= e.begin) /\ (e.end = None \/ at < e.end)
Visible(d, at) ==
    {s \in File[d].spans : ~Timed[d] \/ (Active(File[d], at) /\ Active(s, at))}

\* [from, to, text] of each stretch in which something is visible.
SlicesOf(d) ==
    LET timed == IF Timed[d] THEN File[d].spans \cup {File[d]} ELSE {}
        boundaries == {0} \cup (UNION {{e.begin, e.end} : e \in timed} \ {None})
        To(b) == LET after == {c \in boundaries : c > b}
                 IN  IF after = {} THEN None ELSE Min(after)
    IN  {[from |-> b, to |-> To(b), text |-> Visible(d, b)] :
            b \in {c \in boundaries : Visible(d, c) # {}}}
Slices == [d \in Documents |-> SlicesOf(d)]

-----------------------------------------------------------------------------
(***************************************************************************)
(* ProcessSubtitleDocument, the pump and the waiting documents, as         *)
(* functions of [waiting, schedule, shown] at the position `anchor'.       *)
(***************************************************************************)
Cues == [waiting |-> m_deferredSubtitleSamples, schedule |-> m_scheduledSubtitleSamples,
         shown |-> shown]
SetCues(c) == /\ m_deferredSubtitleSamples' = c.waiting
              /\ m_scheduledSubtitleSamples' = c.schedule
              /\ shown' = c.shown

Smaller(a, b) == IF a <= b THEN a ELSE b
SliceStart(d, s) ==
    LET r == m_subtitleFileIndex[d]
        start == Larger(Larger(r.start, r.base + s.from), r.arrival)
    IN  IF IsMultiSegment THEN Larger(start, InitialTime + m_editSegments[m_curSegment].start)
        ELSE start

\* Mutant of SliceStop: a declared end is taken for the end of the display.
SliceStopDeclared(d, s) ==
    IF s.to # None THEN m_subtitleFileIndex[d].base + s.to ELSE m_subtitleFileIndex[d].stop

SliceStop(d, s) ==
    LET stop == IF s.to = None THEN m_subtitleFileIndex[d].stop
                ELSE Smaller(m_subtitleFileIndex[d].stop, m_subtitleFileIndex[d].base + s.to)
    IN  IF IsMultiSegment THEN Smaller(stop, InitialTime + m_editSegments[m_curSegment].end)
        ELSE stop

\* What is still to be shown of d; a document that has waited begins now.
CuesOf(d, waited) ==
    LET Cue(s) ==
            LET start == ToSegmentTime(SubtitleProgramTime(SliceStart(d, s)))
            IN  [doc |-> d, segment |-> m_curSegment, text |-> s.text,
                 start |-> IF waited THEN Larger(start, ToSegmentTime(SubtitleTimingAnchor)) ELSE start,
                 stop |-> ToSegmentTime(SubtitleProgramTime(SliceStop(d, s)))]
    IN  {c \in {Cue(s) : s \in Slices[d]} : c.stop > c.start /\ c.stop > 0}

MissingGlyph(cues, glyphs) == \E c \in cues : \E s \in c.text : s.glyph \notin glyphs \cup {None}

\* DeliverSubtitleCue: the user's delay and the stop position.
Delivered(c) ==
    LET first == Larger(c.start, 0)
        start == Larger(0, first + delayMs)
        stop == IF delayMs = 0 THEN c.stop ELSE Larger(start + 1, c.stop + delayMs)
    IN  IF start >= m_stopPos - m_segmentStart THEN <<>>
        ELSE <<[c EXCEPT !.start = start, !.stop = Smaller(stop, m_stopPos - m_segmentStart)]>>

Pump(c, now) ==
    LET due == Max({0} \cup {n \in DOMAIN c.schedule :
                               \A k \in 1 .. n : c.schedule[k].start <= now + Lead})
        Hand(handed, cue) == IF cue.stop > now THEN handed \o Delivered(cue) ELSE handed
    IN  [c EXCEPT !.schedule = SubSeq(c.schedule, due + 1, Len(c.schedule)),
                  !.shown = FoldLeft(Hand, c.shown, SubSeq(c.schedule, 1, due))]

\* Mutant of Insert: the schedule is left in the order in which documents come.
InsertLast(schedule, cue) == Append(schedule, cue)

\* The schedule is sorted by start, first come first.
Insert(schedule, cue) ==
    LET before == Cardinality({n \in DOMAIN schedule : schedule[n].start <= cue.start})
    IN  InsertAt(schedule, before + 1, cue)

Schedule(c, cues) ==
    LET sorted == SetToSortSeq(cues, LAMBDA a, b : a.start < b.start)
    IN  Pump([c EXCEPT !.schedule = FoldLeft(Insert, c.schedule, sorted)],
             ToSegmentTime(SubtitleTimingAnchor))

\* Mutant of Defer: the list grows without bound.
DeferAll(waiting, d) == Append(waiting, d)

\* The document that has waited longest makes room.
Defer(waiting, d) ==
    Append(IF Len(waiting) >= MaxDeferred THEN Tail(waiting) ELSE waiting, d)

Without(waiting, gone) == SelectSeq(waiting, LAMBDA w : w \notin gone)

\* A document that the worker meets.
Process(c, d) ==
    LET cues == CuesOf(d, FALSE)
        ofTheStream == {w \in Docs : File[w].pid = File[d].pid}
    IN  IF File[d].clear THEN [c EXCEPT !.waiting = Without(c.waiting, ofTheStream)]
        ELSE IF MissingGlyph(cues, g_subtitleGlyphs)
             THEN [c EXCEPT !.waiting = Defer(c.waiting, d)]
             ELSE Schedule(c, cues)

\* Mutant of ProcessDeferred: a document stays in the list when it has been scheduled.
ProcessDeferredKept(glyphs) ==
    LET Again(c, w) ==
            IF SubtitleProgramTime(m_subtitleFileIndex[w].stop) <= SubtitleTimingAnchor THEN c
            ELSE LET kept == [c EXCEPT !.waiting = Append(@, w)]
                 IN  IF MissingGlyph(CuesOf(w, TRUE), glyphs) THEN kept
                     ELSE Schedule(kept, CuesOf(w, TRUE))
    IN  FoldLeft(Again, [Cues EXCEPT !.waiting = <<>>], m_deferredSubtitleSamples)

\* The list is moved aside and each document tried again, with the glyphs there are.
ProcessDeferred(glyphs) ==
    LET Again(c, w) ==
            IF SubtitleProgramTime(m_subtitleFileIndex[w].stop) <= SubtitleTimingAnchor THEN c
            ELSE IF MissingGlyph(CuesOf(w, TRUE), glyphs)
                 THEN [c EXCEPT !.waiting = Append(@, w)]
                 ELSE Schedule(c, CuesOf(w, TRUE))
    IN  FoldLeft(Again, [Cues EXCEPT !.waiting = <<>>], m_deferredSubtitleSamples)

-----------------------------------------------------------------------------
(***************************************************************************)
(* The start of a run, at any packet that a seek may lead to.              *)
(***************************************************************************)
SetUp(target) ==
    LET i == IF IsMultiSegment THEN SegmentAtProgram(target) ELSE 1
        source == target + Origin(i) - InitialTime
    IN  /\ m_curSegment' = i /\ m_pendingSegmentJump' = "none"
        /\ next' \in IF source = 0 THEN {1} ELSE Landings
        /\ m_subtitleStreams' = IF source = 0 THEN NoStreams ELSE m_subtitleStreams
        /\ m_deferredSubtitleSamples' = <<>> /\ m_scheduledSubtitleSamples' = <<>>
        /\ shown' = <<>> /\ ready' = {}
        /\ running' = TRUE

Init ==
    /\ m_subtitleFileIndex = Intervals
    /\ m_editSegments \in EditLists /\ delayMs \in Delays
    /\ m_segmentStart = 0 /\ m_stopPos \in Stops
    /\ m_curSegment = 1 /\ m_pendingSegmentJump = "none"
    /\ m_currentPts = 0 /\ m_currentDts = -1
    /\ next = Len(File) + 1 /\ running = FALSE
    /\ m_subtitleStreams = NoStreams /\ g_subtitleGlyphs = {}
    /\ m_deferredSubtitleSamples = <<>> /\ m_scheduledSubtitleSamples = <<>>
    /\ shown = <<>> /\ ready = {} /\ fresh = TRUE /\ starts = 0

\* A seek by the map leads to before the position asked for, one by the ratio of
\* the durations anywhere.
TimeAt == [k \in 1 .. Len(File) + 1 |-> Arrival(k) - InitialTime]
InStep(source) == TimeAt[next'] <= source

\* SetPositions, whether a worker runs (SeekTo) or not.
SeekTo(target) ==
    /\ starts < MaxStarts /\ starts' = starts + 1
    /\ m_segmentStart' = target
    /\ m_currentPts' = target /\ m_currentDts' = -1
    /\ SetUp(target)
    /\ fresh' = InStep(target + Origin(m_curSegment') - InitialTime)
    /\ UNCHANGED <<m_subtitleFileIndex, m_editSegments, delayMs, m_stopPos, g_subtitleGlyphs>>

\* Stop, and Pause or Run again: the position is that of the run before.
Restart ==
    /\ starts < MaxStarts /\ starts' = starts + 1
    /\ SetUp(m_segmentStart)
    /\ fresh' = /\ m_currentDts = -1 /\ m_currentPts = m_segmentStart
                /\ InStep(m_segmentStart + Origin(m_curSegment') - InitialTime)
    /\ UNCHANGED <<settings, positionVars, g_subtitleGlyphs>>

-----------------------------------------------------------------------------
(***************************************************************************)
(* The worker's callbacks.                                                 *)
(***************************************************************************)
Read(kind) == /\ running /\ next <= Len(File) /\ File[next].kind = kind
              /\ next' = next + 1
              /\ UNCHANGED <<settings, m_curSegment, starts>>

Segment == m_editSegments[m_curSegment]
NormPts(p) == SubtitleProgramTime(p.pts)
NormDts(p) == IF p.dts = None THEN None ELSE SubtitleProgramTime(p.dts)
DecodeTime(p) == IF NormDts(p) >= 0 THEN NormDts(p) ELSE NormPts(p)
PastSegment(p) == IsMultiSegment /\ ClockOf(p) - InitialTime >= Segment.end
Preroll(p) ==
    \/ NormPts(p) > m_stopPos
    \/ /\ IsMultiSegment
       /\ \/ p.pts - InitialTime < Segment.start \/ p.pts - InitialTime >= Segment.end
          \/ NormPts(p) < m_segmentStart

\* The segment is over, and the jump is noted; or the stop position is passed.
VideoPastSegment ==
    /\ Read("video") /\ PastSegment(File[next])
    /\ m_pendingSegmentJump' = IF m_curSegment < Len(m_editSegments) THEN "next" ELSE "end"
    /\ UNCHANGED <<positionVars, running, m_subtitleStreams, g_subtitleGlyphs, cueVars, ready, fresh>>

VideoPastStop ==
    /\ Read("video") /\ ~PastSegment(File[next]) /\ DecodeTime(File[next]) > m_stopPos
    /\ running' = FALSE
    /\ SetCues(ProcessDeferred(g_subtitleGlyphs))
    /\ UNCHANGED <<m_pendingSegmentJump, positionVars, m_subtitleStreams, g_subtitleGlyphs, ready, fresh>>

\* The position, then the documents that have waited too long, then the pump.
Video ==
    /\ Read("video") /\ ~PastSegment(File[next]) /\ DecodeTime(File[next]) <= m_stopPos
    /\ LET p == File[next]
           clock == ToSegmentTime(DecodeTime(p))
           Stop(w) == SubtitleProgramTime(m_subtitleFileIndex[w].stop)
           expired == {w \in Documents : ToSegmentTime(Stop(w)) <= clock}
       IN  /\ m_currentPts' = IF ~Preroll(p) /\ NormPts(p) > 0 THEN NormPts(p) ELSE m_currentPts
           /\ m_currentDts' = IF ~Preroll(p) /\ NormDts(p) >= 0 THEN NormDts(p) ELSE m_currentDts
           /\ fresh' = \/ fresh
                       \/ ~Preroll(p) /\ (NormDts(p) >= 0 \/ (m_currentDts = -1 /\ NormPts(p) > 0))
           /\ SetCues(Pump([Cues EXCEPT !.waiting = Without(@, expired)], clock))
    /\ UNCHANGED <<m_pendingSegmentJump, running, m_subtitleStreams, g_subtitleGlyphs, ready>>

\* Documents of streams the demuxer knows; the index may know it otherwise.
Document ==
    /\ Read("doc")
    /\ IF File[next].pid \in DOMAIN m_subtitleStreams /\ next \in Documents
       THEN /\ SetCues(Process(Cues, next))
            /\ ready' = IF MissingGlyph(CuesOf(next, FALSE), g_subtitleGlyphs) THEN ready
                        ELSE ready \cup {[doc |-> next, segment |-> m_curSegment, fresh |-> fresh]}
       ELSE UNCHANGED <<cueVars, ready>>
    /\ UNCHANGED <<m_pendingSegmentJump, positionVars, running, m_subtitleStreams, g_subtitleGlyphs, fresh>>

\* Documents wait no longer for a stream that is gone or has another control.
Controls ==
    /\ Read("mpt")
    /\ m_subtitleStreams' = File[next].streams
    /\ LET changed == {w \in Documents : \/ File[w].pid \notin DOMAIN File[next].streams
                                         \/ File[next].streams[File[w].pid] # m_subtitleFileIndex[w].control}
       IN  m_deferredSubtitleSamples' = Without(m_deferredSubtitleSamples, changed)
    /\ UNCHANGED <<m_scheduledSubtitleSamples, shown, m_pendingSegmentJump, positionVars, running,
                   g_subtitleGlyphs, ready, fresh>>

\* Mutant of Glyph: the documents that wait are not tried again.
GlyphUnnoticed ==
    /\ Read("glyph")
    /\ g_subtitleGlyphs' = g_subtitleGlyphs \cup {File[next].glyph}
    /\ UNCHANGED <<m_pendingSegmentJump, positionVars, running, m_subtitleStreams, cueVars, ready, fresh>>

Glyph ==
    /\ Read("glyph")
    /\ g_subtitleGlyphs' = g_subtitleGlyphs \cup {File[next].glyph}
    /\ SetCues(ProcessDeferred(g_subtitleGlyphs'))
    /\ UNCHANGED <<m_pendingSegmentJump, positionVars, running, m_subtitleStreams, ready, fresh>>

Ntp ==
    /\ Read("ntp")
    /\ UNCHANGED <<m_pendingSegmentJump, positionVars, running, m_subtitleStreams, g_subtitleGlyphs,
                   cueVars, ready, fresh>>

\* A batch may read on after the packet that asked for the jump.
JumpToSegment ==
    /\ running /\ m_pendingSegmentJump = "next"
    /\ m_pendingSegmentJump' = "none" /\ m_curSegment' = m_curSegment + 1
    /\ m_deferredSubtitleSamples' = <<>> /\ m_scheduledSubtitleSamples' = <<>>
    /\ next' \in Landings
    /\ fresh' = (fresh /\ InStep(m_editSegments[m_curSegment'].start))
    /\ UNCHANGED <<settings, positionVars, running, m_subtitleStreams, g_subtitleGlyphs, shown,
                   ready, starts>>

\* The end of the file or of the last segment.
Finish ==
    /\ running
    /\ IF next > Len(File) THEN m_pendingSegmentJump # "next" ELSE m_pendingSegmentJump = "end"
    /\ running' = FALSE
    /\ SetCues(ProcessDeferred(g_subtitleGlyphs))
    /\ UNCHANGED <<settings, segmentVars, positionVars, next, m_subtitleStreams, g_subtitleGlyphs,
                   ready, fresh, starts>>

\* Nobody starts it again.
AtRest == ~running /\ starts = MaxStarts /\ UNCHANGED vars

Next ==
    \/ \E target \in Targets : SeekTo(target)
    \/ Restart \/ VideoPastSegment \/ VideoPastStop \/ Video \/ Document \/ Controls
    \/ Glyph \/ Ntp \/ JumpToSegment \/ Finish \/ AtRest

Spec == Init /\ [][Next]_vars

-----------------------------------------------------------------------------
Cue == [doc : Documents, segment : Nat, text : SUBSET UNION {File[d].spans : d \in Docs},
        start : Int, stop : Int]

\* The 33rd document that waits for a glyph drops the first: the list is bounded.
TypeOK ==
    /\ m_segmentStart \in Targets /\ m_stopPos \in Stops /\ delayMs \in Delays
    /\ m_curSegment \in 1 .. Larger(1, Len(m_editSegments))
    /\ m_pendingSegmentJump \in {"none", "next", "end"}
    /\ m_currentPts \in Int /\ m_currentDts \in Int
    /\ next \in 1 .. Len(File) + 1 /\ {running, fresh} \subseteq BOOLEAN
    /\ g_subtitleGlyphs \subseteq {File[k].glyph : k \in {j \in Packets : File[j].kind = "glyph"}}
    /\ m_deferredSubtitleSamples \in Seq(Documents)
    /\ Len(m_deferredSubtitleSamples) <= MaxDeferred
    /\ m_scheduledSubtitleSamples \in Seq(Cue) /\ shown \in Seq(Cue)
    /\ ready \subseteq [doc : Documents, segment : Nat, fresh : BOOLEAN]

\* A negative delay leaves a cue that it moves before the start one unit of time.
Collapsed(c) == delayMs < 0 /\ c.start = 0 /\ c.stop = 1

\* The moment of the file that is shown at time t of the run, in segment i.
Moment(t, i) == t - delayMs + m_segmentStart + Origin(i)

\* Document d is on the screen at moment t of the file, seen from segment i.
Displayed(d, t, i) ==
    /\ m_subtitleFileIndex[d].start <= t /\ m_subtitleFileIndex[d].arrival <= t
    /\ t < m_subtitleFileIndex[d].stop
    /\ IsMultiSegment => /\ InitialTime + m_editSegments[i].start <= t
                         /\ t < InitialTime + m_editSegments[i].end

(***************************************************************************)
(* "Clips events ... and prevents an older glyph-waiting document from     *)
(* returning after a clear" (README): whatever waited, was sought or       *)
(* jumped, what is on the screen at any time is what its document says of  *)
(* that time, after the document has come and begun, before it is ended,   *)
(* replaced or cleared, within its edit segment and before the stop.       *)
(***************************************************************************)
ShownAsWritten ==
    \A n \in DOMAIN shown :
        LET c == shown[n] IN
        /\ 0 <= c.start /\ c.start < c.stop /\ c.stop <= m_stopPos - m_segmentStart
        /\ Collapsed(c) \/ \A t \in c.start .. c.stop - 1 :
              /\ Displayed(c.doc, Moment(t, c.segment), c.segment)
              /\ c.text = Visible(c.doc, Moment(t, c.segment) - m_subtitleFileIndex[c.doc].base)

(***************************************************************************)
(* No two cues of one stream are on the screen together: no document is    *)
(* handed on twice, and none together with the one that replaces it.       *)
(***************************************************************************)
OneTextAtATime ==
    \A m, n \in DOMAIN shown :
        LET b == shown[m] c == shown[n] IN
        m < n /\ File[b.doc].pid = File[c.doc].pid
            => b.stop <= c.start \/ c.stop <= b.start \/ Collapsed(b) \/ Collapsed(c)

(***************************************************************************)
(* When a run is over, every document that it met with its glyphs at hand  *)
(* has been on the screen at every moment that its interval, its segment,  *)
(* the requested position and the stop leave: no cue stays in the schedule *)
(* and none is passed over by the pump.  A run started again without a     *)
(* seek answers for this only from its first position on.                  *)
(***************************************************************************)
NothingWithheld ==
    ~running => \A r \in ready : r.fresh =>
        \A t \in m_subtitleFileIndex[r.doc].start .. m_subtitleFileIndex[r.doc].stop - 1 :
            LET at == t - Origin(r.segment) - m_segmentStart
                text == Visible(r.doc, t - m_subtitleFileIndex[r.doc].base)
            IN  /\ Displayed(r.doc, t, r.segment) /\ text # {}
                /\ at >= 0 /\ at + delayMs \in 0 .. m_stopPos - m_segmentStart - 1
                => \E n \in DOMAIN shown :
                      /\ shown[n].doc = r.doc /\ shown[n].segment = r.segment
                      /\ shown[n].text = text
                      /\ at + delayMs \in shown[n].start .. shown[n].stop - 1

(***************************************************************************)
(* A document that waits lacks a glyph, and the end of its display has not *)
(* come: none is forgotten in the list when its glyphs are there, and none *)
(* is kept to come back after its time.                                    *)
(***************************************************************************)
WaitsForAGlyph ==
    \A n \in DOMAIN m_deferredSubtitleSamples :
        LET w == m_deferredSubtitleSamples[n] IN
        /\ \E s \in File[w].spans : s.glyph \notin g_subtitleGlyphs \cup {None}
        /\ fresh => SubtitleProgramTime(m_subtitleFileIndex[w].stop) > SubtitleTimingAnchor
=============================================================================
