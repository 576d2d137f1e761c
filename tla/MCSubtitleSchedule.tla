------------------------- MODULE MCSubtitleSchedule -------------------------
EXTENDS SubtitleSchedule

V(t) == [kind |-> "video", dts |-> t, pts |-> t + 1]
N(t) == [kind |-> "ntp", time |-> t]
G(g) == [kind |-> "glyph", glyph |-> g]
Mpt(control) == [kind |-> "mpt", streams |-> control]
Span(name, from, to, g) == [name |-> name, begin |-> from, end |-> to, glyph |-> g]
Plain(name) == Span(name, None, None, None)
Doc(pid, from, to, spans) ==
    [kind |-> "doc", pid |-> pid, begin |-> from, end |-> to, clear |-> FALSE, spans |-> spans]
Clear(pid) ==
    [kind |-> "doc", pid |-> pid, begin |-> None, end |-> None, clear |-> TRUE, spans |-> {}]

Both == [p \in {"caption", "super"} |->
            IF p = "caption" THEN [sync |-> TRUE, ref |-> 10] ELSE [sync |-> FALSE, ref |-> None]]
Caption == [p \in {"caption"} |-> Both[p]]

\* A caption in three slices that waits for a glyph and is cleared before its end;
\* a superimposed text that waits until it is replaced, and one that is over before a
\* caption begins that came earlier; a short caption; two captions that wait together.
Broadcast ==
    <<N(9), Mpt(Both), V(10),
      Doc("caption", 1, 8, {Plain("a"), Span("b", 3, 5, 1)}), V(12), G(1),
      Doc("super", None, None, {Span("c", None, None, 2)}), V(14), Clear("caption"),
      Doc("caption", 7, None, {Plain("d")}), Doc("super", None, None, {Plain("i")}), V(16), Mpt(Caption),
      Doc("caption", 8, 9, {Plain("e")}), V(18),
      Doc("caption", 9, 14, {Span("f", None, None, 2)}),
      Doc("caption", 12, None, {Plain("g"), Span("h", 13, None, 3)}), V(20), G(2), V(22), G(3), V(24)>>

Part(from, to) == [start |-> from, end |-> to]
Places == {1, 4, 6, 9, 11, 16, 18, 23}
Offsets == {-1, 1}
Programs == {<<>>, <<Part(2, 14)>>, <<Part(7, 11), Part(1, 6)>>}
=============================================================================
