--------------------------- MODULE MCEditTimeline ---------------------------
(***************************************************************************)
(* A source file of nine frames in three groups, with B pictures: each     *)
(* group is decoded in the order I P B and shown in the order I B P, one   *)
(* frame after it is decoded at the earliest.  A unit of audio precedes    *)
(* the frame that is decoded at its time.                                  *)
(***************************************************************************)
EXTENDS EditTimeline

Frame(n) == [kind |-> "video", dts |-> n, key |-> n % 3 = 0,
             pts |-> n + CASE n % 3 = 0 -> 1 [] n % 3 = 1 -> 2 [] n % 3 = 2 -> 0]
Sound(n) == [kind |-> "audio", pts |-> n, dts |-> n, key |-> TRUE]

NineFrames == [k \in 1 .. 18 |-> IF k % 2 = 1 THEN Sound((k + 1) \div 2)
                                  ELSE Frame(k \div 2 - 1)]

ASSUME BeginsAtRap
ASSUME RapsDivide

Cut(from, to) == [start |-> from, end |-> to]

\* Cuts between, at and inside groups, reordered, repeated, adjacent, beyond the
\* source, and none; the first three keep a later segment from following the
\* end of the source.
Concatenations == {<<Cut(1, 3), Cut(6, 9)>>, <<Cut(4, 6), Cut(0, 2)>>,
                   <<Cut(2, 5), Cut(2, 5), Cut(7, 8)>>}
Trims1 == {<<>>, <<Cut(2, 5)>>, <<Cut(0, 4)>>, <<Cut(9, 12)>>, <<Cut(3, 20), Cut(15, 20)>>}
EveryEdit == Concatenations \cup Trims1
ToTheEnd == {<<Cut(5, 8), Cut(0, 2)>>}
SomeTargets == {0, 1, 3, 4}
SomeStops == {2, 5, NoStop}
Unstopped == {NoStop}
=============================================================================
