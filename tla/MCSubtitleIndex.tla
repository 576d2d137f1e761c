--------------------------- MODULE MCSubtitleIndex ---------------------------
EXTENDS SubtitleIndex

V(t) == [kind |-> "video", dts |-> t, pts |-> t + 1]
Still(t) == [kind |-> "video", dts |-> None, pts |-> t]
N(t) == [kind |-> "ntp", time |-> t]
Mpt(control) == [kind |-> "mpt", streams |-> control]
Doc(pid, from, to) == [kind |-> "doc", pid |-> pid, begin |-> from, end |-> to, clear |-> FALSE]
Clear(pid) == [kind |-> "doc", pid |-> pid, begin |-> None, end |-> None, clear |-> TRUE]

Timed(t) == [sync |-> TRUE, ref |-> t]
Async == [sync |-> FALSE, ref |-> None]
Captions(control) == [p \in {"caption"} |-> control]
Both(control, other) == [p \in {"caption", "super"} |-> IF p = "caption" THEN control ELSE other]
Nothing == [p \in {} |-> Async]

\* A caption that comes before any video; one that lasts, a replacement that comes
\* early, a clear that comes before the replacement begins; then a caption without
\* an end, and the control changes.
Captioned ==
    <<N(9), Mpt(Captions(Async)), Doc("caption", None, None), V(10), Mpt(Captions(Timed(10))),
      Doc("caption", 1, 20), V(12), Doc("caption", 8, None), V(14), Clear("caption"), V(19), Mpt(Captions(Timed(10))), Doc("caption", 8, None),
      V(22), Mpt(Captions(Async)), Doc("caption", 30, 40), V(24), V(26)>>

\* Two streams, documents that begin before they come and after the end of the
\* file; the superimposed one goes off the air and comes back.
Superimposed ==
    <<Mpt(Both(Timed(10), Async)), V(10), Doc("super", None, None), Doc("caption", 3, 6),
      Mpt(Captions(Timed(12))), Still(12), Doc("caption", 0, 5), Doc("super", None, None), V(15),
      Mpt(Both(Timed(12), Async)), Doc("super", None, None), V(17), Doc("caption", 2, None),
      V(19), Doc("caption", 30, 35)>>

Recordings == {Captioned, Superimposed}
=============================================================================
