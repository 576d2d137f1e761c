-------------------------- MODULE EditTimelineProofs --------------------------
(***************************************************************************)
(* The timeline of a run, for every file, edit list, position and stop.    *)
(*                                                                         *)
(* Four invariants, each resting on those before: Inv (types, and what     *)
(* holds of the opened file and of the place in the edit list), Timeline   *)
(* (the times of what was handed on), Decoding (what the decoder got) and  *)
(* Whole (what has been shown of the segments, as far as they were read).  *)
(* Sums over the edit list and the extremes of sets are reached through    *)
(* the well-foundedness of < on the naturals: a set that has 0 and the     *)
(* successor of each of its members has every natural.                     *)
(***************************************************************************)
EXTENDS EditTimeline, FiniteSetTheorems, WellFoundedInduction, TLAPS

Less == {ss \in Nat \X Nat : ss[1] < ss[2]}

LEMMA LessIsWellFounded == IsWellFoundedOn(Less, Nat)
BY NatLessThanWellFounded, Zenon DEF Less, OpToRel

LEMMA Least ==
    ASSUME NEW T, T \subseteq Nat, T # {}
    PROVE  \E x \in T : \A y \in T : x <= y
<1>1. PICK x \in T : \A y \in T : ~(<<y, x>> \in Less)
  BY LessIsWellFounded, WFMin
<1>2. \A y \in T : <<y, x>> \in Nat \X Nat /\ y \in Nat /\ x \in Nat
  OBVIOUS
<1>3. \A y \in T : ~(y < x)
  BY <1>1, <1>2 DEF Less
<1> QED
  BY <1>2, <1>3

LEMMA Induction ==
    ASSUME NEW T, 0 \in T, \A n \in Nat : n \in T => n + 1 \in T
    PROVE  Nat \subseteq T
<1> SUFFICES ASSUME Nat \ T # {} PROVE FALSE
  OBVIOUS
<1>1. PICK x \in Nat \ T : \A y \in Nat \ T : x <= y
  BY Least
<1>2. x # 0
  BY <1>1
<1>3. x - 1 \in Nat /\ x - 1 < x /\ x = (x - 1) + 1
  BY <1>2
<1>4. x - 1 \in T
  BY <1>1, <1>3
<1> QED
  BY <1>1, <1>3, <1>4

\* The extremes that Min and Max choose.
LEMMA MinIsLeast ==
    ASSUME NEW S, S \subseteq Nat, S # {}
    PROVE  Min(S) \in S /\ \A y \in S : Min(S) <= y
<1>1. \E x \in S : \A y \in S : x <= y
  BY Least
<1> QED
  BY <1>1 DEF Min

LEMMA MaxIsLargest ==
    ASSUME NEW S, S \subseteq Nat, S # {}, NEW b \in Nat, \A y \in S : y <= b
    PROVE  Max(S) \in S /\ \A y \in S : y <= Max(S)
<1> DEFINE T == {d \in Nat : b - d \in S}
<1>1. PICK y \in S : TRUE
  OBVIOUS
<1>2. b - y \in Nat /\ b - (b - y) = y
  BY <1>1
<1>3. PICK d \in T : \A e \in T : d <= e
  <2>1. b - y \in T
    BY <1>2
  <2> QED
    BY <2>1, Least
<1>4. \A z \in S : b - z \in T
  OBVIOUS
<1>5. b - d \in S /\ \A z \in S : b - d >= z
  BY <1>3, <1>4
<1> QED
  BY <1>5 DEF Max

LEMMA MinOfTwo ==
    ASSUME NEW a \in Int, NEW b \in Int
    PROVE  Min({a, b}) = IF a <= b THEN a ELSE b
<1>1. \E x \in {a, b} : \A y \in {a, b} : x =< y
  OBVIOUS
<1> QED
  BY <1>1 DEF Min

LEMMA MaxOfTwo ==
    ASSUME NEW a \in Int, NEW b \in Int
    PROVE  Max({a, b}) = IF a >= b THEN a ELSE b
<1>1. \E x \in {a, b} : \A y \in {a, b} : x >= y
  OBVIOUS
<1> QED
  BY <1>1 DEF Max

-----------------------------------------------------------------------------
(***************************************************************************)
(* A function that is defined by recursion over 0 .. n exists.             *)
(***************************************************************************)
Recursion(z, h, n, f) == f = [k \in 0 .. n |-> IF k = 0 THEN z ELSE h[k][f[k - 1]]]

LEMMA RecursionExists ==
    ASSUME NEW V, NEW z \in V, NEW n \in Nat, NEW h \in [1 .. n -> [V -> V]]
    PROVE  \E f \in [0 .. n -> V] : Recursion(z, h, n, f)
<1> DEFINE T == {m \in Nat : m <= n => \E f \in [0 .. m -> V] : Recursion(z, h, m, f)}
<1>1. 0 \in T
  <2> DEFINE f == [k \in 0 .. 0 |-> z]
  <2>1. f \in [0 .. 0 -> V] /\ Recursion(z, h, 0, f)
    BY DEF Recursion
  <2> QED
    BY <2>1
<1>2. ASSUME NEW m \in Nat, m \in T PROVE m + 1 \in T
  <2> SUFFICES ASSUME m + 1 <= n
               PROVE  \E f \in [0 .. m + 1 -> V] : Recursion(z, h, m + 1, f)
    OBVIOUS
  <2>1. PICK f \in [0 .. m -> V] : Recursion(z, h, m, f)
    BY <1>2
  <2> DEFINE g == [k \in 0 .. m + 1 |-> IF k <= m THEN f[k] ELSE h[k][f[k - 1]]]
  <2>2. /\ m + 1 \in 1 .. n /\ (m + 1) - 1 = m /\ m \in 0 .. m /\ f[m] \in V
        /\ h[m + 1][f[m]] \in V
    BY <2>1
  <2>3. g \in [0 .. m + 1 -> V]
    BY <2>1, <2>2
  <2>4. \A k \in 0 .. m + 1 : k # 0 => k - 1 \in 0 .. m /\ g[k - 1] = f[k - 1]
    OBVIOUS
  <2>5. \A k \in 0 .. m : f[k] = IF k = 0 THEN z ELSE h[k][f[k - 1]]
    BY <2>1 DEF Recursion
  <2>6. \A k \in 0 .. m + 1 : g[k] = IF k = 0 THEN z ELSE h[k][f[k - 1]]
    BY <2>5
  <2> HIDE DEF g
  <2>7. g = [k \in 0 .. m + 1 |-> g[k]]
    BY <2>3
  <2>8. Recursion(z, h, m + 1, g)
    BY <2>4, <2>6, <2>7 DEF Recursion
  <2> QED
    BY <2>3, <2>8
<1> HIDE DEF T
<1>3. n \in T
  BY <1>1, <1>2, Induction
<1> QED
  BY <1>3 DEF T

-----------------------------------------------------------------------------
(***************************************************************************)
(* The edit list: where its segments begin in the program, and how many    *)
(* moments of the source come before them.                                 *)
(***************************************************************************)
Seg == [start : Nat, end : Nat]

Summed(segs, f, n) == IF n = 0 THEN 0 ELSE f[n - 1] + Length(segs[n])

LEMMA SegmentBaseSteps ==
    ASSUME NEW segs \in Seq(Seg)
    PROVE  /\ SegmentBase(segs, 1) = 0
           /\ \A i \in 1 .. Len(segs) :
                 SegmentBase(segs, i + 1) = SegmentBase(segs, i) + Length(segs[i])
           /\ \A i \in 1 .. Len(segs) + 1 : SegmentBase(segs, i) \in Int
<1> DEFINE L == Len(segs)
           base == CHOOSE f : f = [k \in 0 .. L |-> Summed(segs, f, k)]
           h == [k \in 1 .. L |-> [v \in Int |-> v + Length(segs[k])]]
<1>1. L \in Nat /\ DOMAIN segs = 1 .. L /\ \A k \in 1 .. L : Length(segs[k]) \in Int
  <2>1. L \in Nat /\ DOMAIN segs = 1 .. L /\ \A k \in 1 .. L : segs[k] \in Seg
    OBVIOUS
  <2>2. \A s \in Seg : Length(s) \in Int
    BY DEF Length, Seg
  <2> QED
    BY <2>1, <2>2
<1>2. h \in [1 .. L -> [Int -> Int]]
  BY <1>1
<1>3. base \in [0 .. L -> Int] /\ base = [k \in 0 .. L |-> Summed(segs, base, k)]
  <2>1. PICK f \in [0 .. L -> Int] : Recursion(0, h, L, f)
    <3> HIDE DEF h, L
    <3> QED
      BY <1>1, <1>2, RecursionExists, 0 \in Int, Zenon
  <2>2. \A k \in 0 .. L : k # 0 => k \in 1 .. L /\ k - 1 \in 0 .. L
    BY <1>1
  <2>3. \A k \in 0 .. L : (IF k = 0 THEN 0 ELSE h[k][f[k - 1]]) = Summed(segs, f, k)
    BY <2>1, <2>2 DEF Summed
  <2>4. f = [k \in 0 .. L |-> Summed(segs, f, k)]
    <3> HIDE DEF h
    <3> QED
      BY <2>1, <2>3 DEF Recursion
  <2>5. base = [k \in 0 .. L |-> Summed(segs, base, k)]
    BY <2>4, Zenon
  <2>6. \A k \in Nat : k \in 0 .. L => base[k] \in Int
    <3> HIDE DEF base, h, L
    <3> DEFINE T == {k \in Nat : k \in 0 .. L => base[k] \in Int}
    <3>1. 0 \in T
      BY <1>1, <2>5 DEF Summed
    <3>2. ASSUME NEW k \in Nat, k \in T PROVE k + 1 \in T
      <4> SUFFICES ASSUME k + 1 \in 0 .. L PROVE base[k + 1] \in Int
        OBVIOUS
      <4>1. k \in 0 .. L /\ k + 1 # 0 /\ k + 1 \in 1 .. L /\ (k + 1) - 1 = k
        BY <1>1
      <4>2. base[k + 1] = base[k] + Length(segs[k + 1])
        BY <2>5, <4>1 DEF Summed
      <4> QED
        BY <1>1, <3>2, <4>1, <4>2
    <3> HIDE DEF T
    <3>3. Nat \subseteq T
      BY <3>1, <3>2, Induction
    <3> QED
      BY <3>3 DEF T
  <2> QED
    <3> HIDE DEF base
    <3>1. \A k \in 0 .. L : k \in Nat
      BY <1>1
    <3> QED
      BY <2>5, <2>6, <3>1
<1>4. \A i : SegmentBase(segs, i) = base[i - 1]
  BY Zenon DEF SegmentBase, Summed
<1> HIDE DEF base, L, h
<1>5. base[0] = 0
  BY <1>1, <1>3 DEF Summed
<1>6. \A i \in 1 .. L : i \in 0 .. L /\ i # 0 /\ (i + 1) - 1 = i
  BY <1>1
<1>7. \A i \in 1 .. L : base[i] = base[i - 1] + Length(segs[i])
  BY <1>3, <1>6 DEF Summed
<1>8. \A i \in 1 .. L + 1 : i - 1 \in 0 .. L
  BY <1>1
<1>9. 1 - 1 = 0
  OBVIOUS
<1>10. SegmentBase(segs, 1) = 0
  BY <1>4, <1>5, <1>9
<1>11. \A i \in 1 .. L :
          SegmentBase(segs, i + 1) = SegmentBase(segs, i) + Length(segs[i])
  <2> SUFFICES ASSUME NEW i \in 1 .. L
               PROVE  SegmentBase(segs, i + 1) = SegmentBase(segs, i) + Length(segs[i])
    OBVIOUS
  <2>1. SegmentBase(segs, i + 1) = base[i] /\ SegmentBase(segs, i) = base[i - 1]
    BY <1>4, <1>6
  <2> QED
    BY <1>7, <2>1
<1>12. \A i \in 1 .. L + 1 : SegmentBase(segs, i) \in Int
  BY <1>3, <1>4, <1>8
<1> QED
  BY <1>10, <1>11, <1>12 DEF L

\* Every segment of an edit list that the loop follows is within the source.
WithinSource(segs) ==
    \A i \in 1 .. Len(segs) : segs[i].start < segs[i].end /\ segs[i].end <= m_sourceDuration

LEMMA SegmentBaseNat ==
    ASSUME NEW segs \in Seq(Seg), WithinSource(segs)
    PROVE  \A i \in 1 .. Len(segs) + 1 : SegmentBase(segs, i) \in Nat
<1> DEFINE T == {k \in Nat : k + 1 \in 1 .. Len(segs) + 1 => SegmentBase(segs, k + 1) \in Nat}
<1>0. Len(segs) \in Nat
  OBVIOUS
<1>1. 0 \in T
  BY SegmentBaseSteps
<1>2. ASSUME NEW k \in Nat, k \in T PROVE k + 1 \in T
  <2> SUFFICES ASSUME k + 2 \in 1 .. Len(segs) + 1 PROVE SegmentBase(segs, (k + 1) + 1) \in Nat
    OBVIOUS
  <2>1. k + 1 \in 1 .. Len(segs) /\ k + 1 \in 1 .. Len(segs) + 1
    BY <1>0
  <2>2. Length(segs[k + 1]) \in Nat
    <3>1. segs[k + 1] \in Seg /\ segs[k + 1].start < segs[k + 1].end
      BY <2>1 DEF WithinSource
    <3> QED
      BY <3>1 DEF Length, Seg
  <2>3. SegmentBase(segs, (k + 1) + 1) = SegmentBase(segs, k + 1) + Length(segs[k + 1])
    BY <2>1, SegmentBaseSteps
  <2> QED
    BY <1>2, <2>1, <2>2, <2>3
<1> HIDE DEF T
<1>3. Nat \subseteq T
  BY <1>1, <1>2, Induction
<1> QED
  <2> SUFFICES ASSUME NEW i \in 1 .. Len(segs) + 1 PROVE SegmentBase(segs, i) \in Nat
    OBVIOUS
  <2>1. i - 1 \in Nat /\ (i - 1) + 1 = i
    BY <1>0
  <2>2. i - 1 \in T
    BY <1>3, <2>1
  <2> QED
    BY <2>1, <2>2 DEF T

-----------------------------------------------------------------------------
(***************************************************************************)
(* What Load makes of a file and an edit list.                             *)
(***************************************************************************)
LEMMA FileFacts ==
    /\ Len(File) \in Nat /\ DOMAIN File = 1 .. Len(File)
    /\ \A n \in DOMAIN File :
          /\ File[n] \in [kind : {"video", "audio"}, pts : Nat, dts : Nat, key : BOOLEAN]
          /\ File[n].pts \in Nat /\ File[n].dts \in Nat /\ File[n].key \in BOOLEAN
          /\ File[n].kind \in {"video", "audio"} /\ File[n].dts <= File[n].pts
<1> DEFINE U == [kind : {"video", "audio"}, pts : Nat, dts : Nat, key : BOOLEAN]
<1>1. File \in Seq(U) /\ \A n \in DOMAIN File : File[n].dts <= File[n].pts
  BY FileAssumption
<1>2. Len(File) \in Nat /\ DOMAIN File = 1 .. Len(File) /\ \A n \in DOMAIN File : File[n] \in U
  <2> HIDE DEF U
  <2> QED
    BY <1>1
<1>3. \A u \in U : /\ u.pts \in Nat /\ u.dts \in Nat /\ u.key \in BOOLEAN
                   /\ u.kind \in {"video", "audio"}
  OBVIOUS
<1> QED
  BY <1>1, <1>2, <1>3

LEMMA StampFacts ==
    /\ m_origFirstPts \in Nat /\ m_sourceDuration \in Nat
    /\ \A n \in DOMAIN File : SourceTime(File[n]) \in 0 .. m_sourceDuration
<1> DEFINE N == DOMAIN File
           T == {m \in Nat : \E b \in Nat : \A n \in N : n <= m => File[n].pts <= b}
<1>1. 0 \in T
  BY FileFacts
<1>2. ASSUME NEW m \in Nat, m \in T PROVE m + 1 \in T
  <2>1. PICK b \in Nat : \A n \in N : n <= m => File[n].pts <= b
    BY <1>2
  <2>2. CASE m + 1 \in N
    <3>1. b + File[m + 1].pts \in Nat /\ \A n \in N : n <= m + 1 => n <= m \/ n = m + 1
      BY <2>2, FileFacts
    <3>2. \A n \in N : n <= m + 1 => File[n].pts <= b + File[m + 1].pts
      BY <2>1, <2>2, <3>1, FileFacts
    <3> QED
      BY <3>1, <3>2
  <2>3. CASE m + 1 \notin N
    <3>1. \A n \in N : n <= m + 1 => n <= m
      BY <2>3, FileFacts
    <3> QED
      BY <2>1, <3>1
  <2> QED
    BY <2>2, <2>3
<1> HIDE DEF T
<1>3. Len(File) \in T
  BY <1>1, <1>2, Induction, FileFacts
<1>4. PICK b \in Nat : \A n \in N : File[n].pts <= b
  <2>1. PICK b \in Nat : \A n \in N : n <= Len(File) => File[n].pts <= b
    BY <1>3 DEF T
  <2> QED
    BY <2>1, FileFacts
<1>5. /\ Stamps \subseteq Nat /\ Stamps # {} /\ \A t \in Stamps : t <= b
      /\ \A n \in N : File[n].pts \in Stamps
  BY <1>4, FileFacts, FileAssumption DEF Stamps
<1>6. Min(Stamps) \in Stamps /\ \A t \in Stamps : Min(Stamps) <= t
  BY <1>5, MinIsLeast
<1>7. Max(Stamps) \in Stamps /\ \A t \in Stamps : t <= Max(Stamps)
  BY <1>5, MaxIsLargest
<1>8. Min(Stamps) \in Nat /\ Max(Stamps) \in Nat /\ Min(Stamps) <= Max(Stamps)
  BY <1>5, <1>6, <1>7
<1> QED
  BY <1>5, <1>6, <1>7, <1>8, FileFacts DEF m_origFirstPts, m_sourceDuration, SourceTime

LEMMA AppendType ==
    ASSUME NEW S, NEW s \in Seq(S), NEW x \in S
    PROVE  Append(s, x) \in Seq(S)
OBVIOUS

Within == {s \in Seg : s.start < s.end /\ s.end <= m_sourceDuration}

Clamped(edit) ==
    [i \in DOMAIN edit |-> [edit[i] EXCEPT !.end = Min({@, m_sourceDuration})]]

KeptUpTo(clamped, f, n) ==
    IF n = 0 THEN <<>>
    ELSE IF clamped[n].end > clamped[n].start THEN Append(f[n - 1], clamped[n])
    ELSE f[n - 1]

LEMMA ClampedType ==
    ASSUME NEW edit \in Seq(Seg)
    PROVE  \A i \in 1 .. Len(edit) :
              Clamped(edit)[i] \in Seg /\ Clamped(edit)[i].end <= m_sourceDuration
<1> SUFFICES ASSUME NEW i \in 1 .. Len(edit)
             PROVE  Clamped(edit)[i] \in Seg /\ Clamped(edit)[i].end <= m_sourceDuration
  OBVIOUS
<1>1. edit[i] \in Seg /\ i \in DOMAIN edit
  OBVIOUS
<1>2. Clamped(edit)[i] = [edit[i] EXCEPT !.end = Min({edit[i].end, m_sourceDuration})]
  BY <1>1 DEF Clamped
<1>3. edit[i].end \in Nat
  BY <1>1 DEF Seg
<1>4. /\ Min({edit[i].end, m_sourceDuration}) \in Nat
      /\ Min({edit[i].end, m_sourceDuration}) <= m_sourceDuration
  BY <1>3, StampFacts, MinOfTwo
<1> QED
  BY <1>1, <1>2, <1>4 DEF Seg

LEMMA KeptType ==
    ASSUME NEW edit \in Seq(Seg), Len(edit) > 1
    PROVE  Kept(edit) \in Seq(Within)
<1> DEFINE L == Len(edit)
           c == Clamped(edit)
           V == Seq(Within)
           kept == CHOOSE f : f = [k \in 0 .. L |-> KeptUpTo(c, f, k)]
           h == [k \in 1 .. L |-> [v \in V |->
                    IF c[k].end > c[k].start THEN Append(v, c[k]) ELSE v]]
<1>1. L \in Nat /\ \A k \in 1 .. L : c[k].end > c[k].start => c[k] \in Within
  <2>1. \A k \in 1 .. L : c[k] \in Seg /\ c[k].end <= m_sourceDuration
    BY ClampedType
  <2>2. \A s \in Seg : s.end > s.start => s.start < s.end
    BY DEF Seg
  <2> HIDE DEF c
  <2> QED
    BY <2>1, <2>2 DEF Within
<1> HIDE DEF c
<1>2. h \in [1 .. L -> [V -> V]]
  <2>1. \A k \in 1 .. L : \A v \in V :
           (IF c[k].end > c[k].start THEN Append(v, c[k]) ELSE v) \in V
    BY <1>1, AppendType
  <2> HIDE DEF V
  <2> QED
    BY <2>1
<1>3. <<>> \in V
  OBVIOUS
<1>4. kept = [k \in 0 .. L |-> KeptUpTo(c, kept, k)]
  <2> HIDE DEF V
  <2>1. PICK f \in [0 .. L -> V] : Recursion(<<>>, h, L, f)
    <3> HIDE DEF h, L
    <3> QED
      BY <1>1, <1>2, <1>3, RecursionExists, Zenon
  <2>2. \A k \in 0 .. L : k # 0 => k \in 1 .. L /\ k - 1 \in 0 .. L
    BY <1>1
  <2>3. \A k \in 0 .. L : (IF k = 0 THEN <<>> ELSE h[k][f[k - 1]]) = KeptUpTo(c, f, k)
    BY <2>1, <2>2 DEF KeptUpTo
  <2>4. f = [k \in 0 .. L |-> KeptUpTo(c, f, k)]
    <3> HIDE DEF h
    <3> QED
      BY <2>1, <2>3 DEF Recursion
  <2> QED
    BY <2>4, Zenon
<1>5. Kept(edit) = kept[L]
  <2>1. ~(Len(edit) <= 1)
    OBVIOUS
  <2> QED
    BY <2>1, Zenon DEF Kept, KeptUpTo, Clamped, c
<1> HIDE DEF kept, h, L, V
<1> DEFINE T == {k \in Nat : k \in 0 .. L => kept[k] \in V}
<1>6. 0 \in T
  BY <1>1, <1>3, <1>4 DEF KeptUpTo
<1>7. ASSUME NEW k \in Nat, k \in T PROVE k + 1 \in T
  <2> SUFFICES ASSUME k + 1 \in 0 .. L PROVE kept[k + 1] \in V
    OBVIOUS
  <2>1. k \in 0 .. L /\ k + 1 # 0 /\ k + 1 \in 1 .. L /\ (k + 1) - 1 = k
    BY <1>1
  <2>2. kept[k + 1] = IF c[k + 1].end > c[k + 1].start THEN Append(kept[k], c[k + 1]) ELSE kept[k]
    BY <1>4, <2>1 DEF KeptUpTo
  <2>3. kept[k] \in V
    BY <1>7, <2>1
  <2> QED
    BY <1>1, <2>1, <2>2, <2>3, AppendType DEF V
<1> HIDE DEF T
<1>8. L \in T /\ L \in 0 .. L
  BY <1>1, <1>6, <1>7, Induction
<1> QED
  BY <1>5, <1>8 DEF T, V

-----------------------------------------------------------------------------
(***************************************************************************)
(* The invariant: what Load leaves, where the loop is in the edit list,    *)
(* and that pin and filter wait for an access point together.              *)
(***************************************************************************)
Opened ==
    /\ m_editSegments \in Seq(Seg)
    /\ IsMultiSegment => WithinSource(m_editSegments)
    /\ m_firstPts = m_origFirstPts + m_virtualStart

Placed == IsMultiSegment => /\ m_curSegmentBase = SegmentBase(m_editSegments, m_curSegment)
                            /\ m_segmentTimeOffset = 0

Waits == m_waitForVideoRap = m_waitingForVideoRap

Begins == loop = "setup" => played = <<>>

Inv == TypeOK /\ Opened /\ Placed /\ Waits /\ Begins

LEMMA LoadHolds ==
    ASSUME NEW edit \in Edits, Load(edit)
    PROVE  Opened /\ m_virtualStart \in Nat /\ m_firstPts \in Nat /\ m_duration \in Nat
<1> DEFINE segs == Kept(edit)
           Proper == {s \in [start : Nat, end : Nat] : s.start < s.end}
<1>1. edit \in Seq(Proper) /\ edit \in Seq(Seg)
  <2>1. edit \in Seq(Proper)
    BY OpeningAssumption
  <2>2. Proper \subseteq Seg
    BY DEF Seg
  <2>3. \A k \in 1 .. Len(edit) : edit[k] \in Seg
    <3> HIDE DEF Proper
    <3> QED
      BY <2>1, <2>2
  <2>4. edit \in Seq(Seg)
    <3> HIDE DEF Proper
    <3> QED
      BY <2>1, <2>3
  <2> QED
    BY <2>1, <2>4
<1>2. /\ segs \in Seq(Seg)
      /\ Len(segs) > 1 => WithinSource(segs)
      /\ Len(segs) = 1 => segs[1].start < segs[1].end
  <2>1. CASE Len(edit) <= 1
    <3>1. segs = edit
      BY <2>1 DEF Kept
    <3>2. Len(edit) = 1 => edit[1] \in Proper
      <4> HIDE DEF Proper
      <4> QED
        BY <1>1
    <3> HIDE DEF segs
    <3> QED
      BY <1>1, <2>1, <3>1, <3>2
  <2>2. CASE ~(Len(edit) <= 1)
    <3>1. Len(edit) > 1
      BY <1>1, <2>2
    <3>2. segs \in Seq(Within)
      BY <1>1, <3>1, KeptType
    <3>3. Within \subseteq Seg
      BY DEF Within
    <3> HIDE DEF segs
    <3>4. \A k \in 1 .. Len(segs) : segs[k] \in Within
      BY <3>2
    <3>5. segs \in Seq(Seg)
      BY <3>2, <3>3, <3>4
    <3>6. \A k \in 1 .. Len(segs) :
             segs[k].start < segs[k].end /\ segs[k].end <= m_sourceDuration
      BY <3>4 DEF Within
    <3> QED
      BY <3>5, <3>6 DEF WithinSource
  <2> QED
    BY <2>1, <2>2
<1>3. /\ m_editSegments = segs
      /\ m_virtualStart = IF Trims(segs) THEN segs[1].start ELSE 0
      /\ m_firstPts = m_origFirstPts + m_virtualStart
      /\ m_duration = IF Len(segs) > 1 THEN EditTotalDuration(segs)
                      ELSE IF Trims(segs)
                      THEN Min({m_sourceDuration - m_virtualStart, Length(segs[1])})
                      ELSE m_sourceDuration
  BY DEF Load
<1> HIDE DEF segs, Proper
<1>4. Opened
  BY <1>2, <1>3 DEF Opened, IsMultiSegment
<1>5. Trims(segs) => /\ segs[1] \in Seg /\ segs[1].start \in Nat /\ segs[1].end \in Nat
                     /\ segs[1].start < segs[1].end /\ segs[1].start < m_sourceDuration
  <2>1. Trims(segs) => segs[1] \in Seg /\ Len(segs) = 1 /\ segs[1].start < m_sourceDuration
    <3>1. Len(segs) = 1 => segs[1] \in Seg
      BY <1>2
    <3> QED
      BY <3>1 DEF Trims
  <2> QED
    BY <1>2, <2>1 DEF Seg
<1>6. m_virtualStart \in Nat /\ m_firstPts \in Nat
  BY <1>3, <1>5, StampFacts
<1>7. m_duration \in Nat
  <2>1. CASE Len(segs) > 1
    <3>1. Len(segs) + 1 \in 1 .. Len(segs) + 1
      BY <1>2
    <3>2. EditTotalDuration(segs) \in Nat
      BY <1>2, <2>1, <3>1, SegmentBaseNat DEF EditTotalDuration
    <3> QED
      BY <1>3, <2>1, <3>2
  <2>2. CASE ~(Len(segs) > 1) /\ Trims(segs)
    <3>1. /\ m_sourceDuration - m_virtualStart \in Nat /\ Length(segs[1]) \in Nat
      BY <1>3, <1>5, <2>2, StampFacts DEF Length
    <3>2. Min({m_sourceDuration - m_virtualStart, Length(segs[1])}) \in Nat
      BY <3>1, MinOfTwo
    <3> QED
      BY <1>3, <2>2, <3>2
  <2>3. CASE ~(Len(segs) > 1) /\ ~Trims(segs)
    BY <1>3, <2>3, StampFacts
  <2> QED
    BY <2>1, <2>2, <2>3
<1> QED
  BY <1>4, <1>6, <1>7

LEMMA InitHolds == Init => Inv
<1> SUFFICES ASSUME Init PROVE Inv
  OBVIOUS
<1>1. PICK edit \in Edits : Load(edit)
  BY DEF Init
<1>2. Opened /\ m_virtualStart \in Nat /\ m_firstPts \in Nat /\ m_duration \in Nat
  BY <1>1, LoadHolds
<1>3. m_seekTarget \in 0 .. m_duration
  <2>1. PICK t \in Targets : m_seekTarget = Min({t, m_duration})
    BY DEF Init
  <2>2. t \in Nat
    BY OpeningAssumption
  <2> QED
    BY <1>2, <2>1, <2>2, MinOfTwo
<1>4. m_stopPos \in Nat
  <2>1. CASE \E s \in Stops : m_stopPos = Min({s, m_duration})
    <3>1. PICK s \in Stops : m_stopPos = Min({s, m_duration})
      BY <2>1
    <3>2. s \in Nat
      BY OpeningAssumption
    <3> QED
      BY <1>2, <3>1, <3>2, MinOfTwo
  <2>2. CASE m_stopPos \in Stops
    BY <2>2, OpeningAssumption
  <2> QED
    BY <2>1, <2>2 DEF Init
<1>5. 1 \in 1 .. Max({1, Len(m_editSegments)})
  BY <1>2, MaxOfTwo DEF Opened
<1>6. 1 \in 1 .. Len(File) + 1
  BY FileFacts
<1>7. TypeOK
  <2>1. m_pendingSegmentJump = "none" /\ "none" # "next"
    BY DEF Init
  <2>2. played \in Seq([unit : DOMAIN File, segment : Nat, time : Int, preroll : BOOLEAN])
    BY DEF Init
  <2>3. m_curSegment \in 1 .. Max({1, Len(m_editSegments)}) /\ m_curSegmentBase \in Nat
    BY <1>5 DEF Init
  <2>4. /\ m_segmentTimeOffset \in Nat /\ m_currentPts \in Nat
        /\ m_currentDts \in Nat \cup {-1}
    BY <1>2, <1>3 DEF Init
  <2>5. /\ next \in 1 .. Len(File) + 1 /\ loop \in LoopPC /\ hasMap \in BOOLEAN
        /\ m_active \in BOOLEAN /\ m_waitingForVideoRap \in BOOLEAN
        /\ m_waitForVideoRap \in BOOLEAN
    BY <1>6 DEF Init, LoopPC
  <2>6. m_editSegments \in Seq([start : Nat, end : Nat])
    BY <1>2 DEF Opened, Seg
  <2> QED
    BY <1>2, <1>3, <1>4, <2>1, <2>2, <2>3, <2>4, <2>5, <2>6 DEF TypeOK
<1>8. Placed
  BY <1>2, SegmentBaseSteps DEF Init, Placed, Opened
<1> QED
  BY <1>2, <1>7, <1>8 DEF Init, Inv, Waits, Begins

-----------------------------------------------------------------------------
(***************************************************************************)
(* Every step keeps it.                                                    *)
(***************************************************************************)
LEMMA SegmentFacts ==
    ASSUME TypeOK, Opened
    PROVE  /\ m_curSegment \in 1 .. (IF Len(m_editSegments) >= 1 THEN Len(m_editSegments) ELSE 1)
           /\ Len(m_editSegments) \in Nat
           /\ IsMultiSegment =>
                 /\ m_curSegment \in 1 .. Len(m_editSegments)
                 /\ Segment \in Seg /\ Segment.start \in Nat /\ Segment.end \in Nat
                 /\ Segment.start < Segment.end /\ Segment.end <= m_sourceDuration
<1>1. Len(m_editSegments) \in Nat
  BY DEF Opened
<1>2. m_curSegment \in 1 .. (IF Len(m_editSegments) >= 1 THEN Len(m_editSegments) ELSE 1)
  <2>1. Max({1, Len(m_editSegments)}) = IF 1 >= Len(m_editSegments) THEN 1
                                        ELSE Len(m_editSegments)
    BY <1>1, MaxOfTwo
  <2>2. m_curSegment \in 1 .. Max({1, Len(m_editSegments)})
    BY DEF TypeOK
  <2> QED
    BY <1>1, <2>1, <2>2
<1>3. ASSUME IsMultiSegment
      PROVE  /\ m_curSegment \in 1 .. Len(m_editSegments)
             /\ Segment \in Seg /\ Segment.start \in Nat /\ Segment.end \in Nat
             /\ Segment.start < Segment.end /\ Segment.end <= m_sourceDuration
  <2>1. m_curSegment \in 1 .. Len(m_editSegments)
    BY <1>1, <1>2, <1>3 DEF IsMultiSegment
  <2>2. Segment \in Seg
    BY <2>1 DEF Opened, Segment
  <2>3. Segment.start < Segment.end /\ Segment.end <= m_sourceDuration
    BY <1>3, <2>1 DEF Opened, WithinSource, Segment
  <2> QED
    BY <2>1, <2>2, <2>3 DEF Seg
<1> QED
  BY <1>1, <1>2, <1>3

LEMMA UnitTimes ==
    ASSUME TypeOK, Opened, NEW n \in DOMAIN File
    PROVE  /\ SourceTime(File[n]) \in Nat /\ SourceTime(File[n]) <= m_sourceDuration
           /\ NormPts(File[n]) \in Int /\ NormDts(File[n]) \in Int
           /\ DecodeTime(File[n]) \in Int
           /\ IsMultiSegment =>
                NormPts(File[n]) = m_curSegmentBase + (SourceTime(File[n]) - Segment.start)
           /\ ~IsMultiSegment => NormPts(File[n]) = File[n].pts - m_firstPts
<1>1. SourceTime(File[n]) \in Nat /\ SourceTime(File[n]) <= m_sourceDuration
  BY StampFacts
<1>2. /\ NormPts(File[n]) \in Int
      /\ IsMultiSegment =>
           NormPts(File[n]) = m_curSegmentBase + (SourceTime(File[n]) - Segment.start)
      /\ ~IsMultiSegment => NormPts(File[n]) = File[n].pts - m_firstPts
  <2>1. m_firstPts \in Nat /\ m_curSegmentBase \in Nat
    BY DEF TypeOK
  <2>2. IsMultiSegment => Segment.start \in Nat
    BY SegmentFacts
  <2> QED
    BY <1>1, <2>1, <2>2, FileFacts DEF NormPts
<1>3. NormDts(File[n]) \in Int
  BY <1>2, FileFacts DEF NormDts
<1> QED
  BY <1>1, <1>2, <1>3 DEF DecodeTime

LEMMA SegmentTimeValue ==
    ASSUME TypeOK, NEW rt \in Int
    PROVE  /\ ToSegmentTime(rt) \in Int
           /\ rt >= m_seekTarget => ToSegmentTime(rt) = rt - m_seekTarget
           /\ rt < m_seekTarget => ToSegmentTime(rt) <= 0
           /\ Max({ToSegmentTime(rt), 0}) \in Nat
           /\ ToSegmentTime(rt) >= 0 => Max({ToSegmentTime(rt), 0}) = ToSegmentTime(rt)
           /\ ToSegmentTime(rt) < 0 => Max({ToSegmentTime(rt), 0}) = 0
<1>1. m_seekTarget \in Nat
  BY DEF TypeOK
<1>2. Max({rt - m_seekTarget, 0}) = IF rt - m_seekTarget >= 0 THEN rt - m_seekTarget ELSE 0
  BY <1>1, MaxOfTwo
<1>3. /\ ToSegmentTime(rt) \in Int
      /\ rt >= m_seekTarget => ToSegmentTime(rt) = rt - m_seekTarget
      /\ rt < m_seekTarget => ToSegmentTime(rt) <= 0
  BY <1>1, <1>2 DEF ToSegmentTime
<1>4. Max({ToSegmentTime(rt), 0}) = IF ToSegmentTime(rt) >= 0 THEN ToSegmentTime(rt) ELSE 0
  BY <1>3, MaxOfTwo
<1> QED
  BY <1>3, <1>4

Entry == [unit : DOMAIN File, segment : Nat, time : Int, preroll : BOOLEAN]

\* What a pin hands on of a unit.
Handed(time, preroll, offset) ==
    [unit |-> next, segment |-> m_curSegment,
     time |-> IF time < 0 THEN time ELSE time - offset, preroll |-> preroll]

LEMMA Delivers ==
    ASSUME TypeOK, Opened, next \in DOMAIN File, NEW u, NEW time \in Int,
           NEW preroll \in BOOLEAN, NEW offset \in Nat, PinDelivers(u, time, preroll, offset)
    PROVE  /\ Handed(time, preroll, offset) \in Entry
           /\ \/ played' = played /\ 0 <= time /\ time < offset
              \/ /\ played' = Append(played, Handed(time, preroll, offset))
                 /\ ~(0 <= time /\ time < offset)
           /\ played' \in Seq(Entry)
<1>1. m_curSegment \in Nat /\ played \in Seq(Entry)
  BY SegmentFacts DEF TypeOK, Entry
<1>2. Handed(time, preroll, offset) \in Entry
  BY <1>1 DEF Handed, Entry
<1>3. \/ played' = played /\ 0 <= time /\ time < offset
      \/ /\ played' = Append(played, Handed(time, preroll, offset))
         /\ ~(0 <= time /\ time < offset)
  BY DEF PinDelivers, Handed
<1> QED
  BY <1>1, <1>2, <1>3, AppendType

LEMMA LandingInFile ==
    ASSUME NEW source
    PROVE  Landing(source) \subseteq 1 .. Len(File) + 1
<1>1. /\ Mapped(source) \subseteq Nat /\ Mapped(source) \subseteq DOMAIN File
      /\ \A n \in Mapped(source) : n <= Len(File)
  BY FileFacts DEF Mapped, RapPoints
<1>2. Mapped(source) # {} => Max(Mapped(source)) \in DOMAIN File
  BY <1>1, FileFacts, MaxIsLargest
<1> QED
  BY <1>2, FileFacts DEF Landing

LEMMA SegmentFound ==
    ASSUME Opened, IsMultiSegment, NEW pos \in Nat
    PROVE  SegmentAtProgram(m_editSegments, pos).segment \in 1 .. Len(m_editSegments)
<1> DEFINE last == Len(m_editSegments)
           S == {last} \cup {k \in 1 .. last : pos < SegmentBase(m_editSegments, k + 1)}
<1>1. S \subseteq Nat /\ S # {} /\ S \subseteq 1 .. last
  BY DEF Opened, IsMultiSegment
<1>2. Min(S) \in S
  BY <1>1, MinIsLeast
<1>3. SegmentAtProgram(m_editSegments, pos).segment = Min(S)
  BY DEF SegmentAtProgram
<1> QED
  BY <1>1, <1>2, <1>3

\* What one unit of video does, and one of audio.
LEMMA VideoSampleSteps ==
    ASSUME Inv, VideoSample
    PROVE  LET u == File[next]
               time == ToSegmentTime(NormPts(u))
           IN  /\ next \in DOMAIN File /\ time \in Int /\ Preroll(u) \in BOOLEAN
               /\ m_segmentTimeOffset' \in Nat /\ played' \in Seq(Entry)
               /\ m_waitForVideoRap' = m_waitingForVideoRap'
               /\ m_waitForVideoRap' \in BOOLEAN
               /\ \/ m_waitForVideoRap /\ ~u.key /\ UNCHANGED <<rapVars, played>>
                  \/ /\ m_waitForVideoRap => u.key
                     /\ ~m_waitForVideoRap'
                     /\ m_segmentTimeOffset' =
                          IF m_waitForVideoRap
                          THEN IF IsMultiSegment THEN 0 ELSE Max({time, 0})
                          ELSE m_segmentTimeOffset
                     /\ \/ played' = played /\ 0 <= time /\ time < m_segmentTimeOffset'
                        \/ /\ played' = Append(played, Handed(time, Preroll(u), m_segmentTimeOffset'))
                           /\ ~(0 <= time /\ time < m_segmentTimeOffset')
                     /\ Handed(time, Preroll(u), m_segmentTimeOffset') \in Entry
<1> DEFINE u == File[next]
           time == ToSegmentTime(NormPts(u))
           offset == m_segmentTimeOffset'
<1>0. TypeOK /\ Opened /\ Waits
  BY DEF Inv
<1>1. next \in DOMAIN File
  BY <1>0, FileFacts DEF VideoSample, Demux, TypeOK
<1>2. time \in Int /\ Max({time, 0}) \in Nat
  BY <1>0, <1>1, UnitTimes, SegmentTimeValue
<1>3. Preroll(u) \in BOOLEAN
  BY DEF Preroll
<1>4. /\ m_waitForVideoRap = m_waitingForVideoRap /\ m_waitForVideoRap \in BOOLEAN
      /\ m_segmentTimeOffset \in Nat /\ played \in Seq(Entry)
  BY <1>0 DEF TypeOK, Waits, Entry
<1>5. CASE m_waitForVideoRap /\ ~u.key
  <2>1. UNCHANGED <<rapVars, played>>
    BY <1>5 DEF VideoSample
  <2> QED
    BY <1>1, <1>2, <1>3, <1>4, <1>5, <2>1 DEF rapVars
<1>6. CASE ~(m_waitForVideoRap /\ ~u.key)
  <2>1. /\ m_waitForVideoRap' = FALSE
        /\ IF m_waitForVideoRap /\ m_waitingForVideoRap
           THEN /\ m_waitingForVideoRap' = FALSE
                /\ offset = IF IsMultiSegment THEN 0 ELSE Max({time, 0})
           ELSE UNCHANGED <<m_waitingForVideoRap, m_segmentTimeOffset>>
        /\ PinDelivers(u, time, Preroll(u), offset)
    BY <1>6 DEF VideoSample
  <2>2. /\ m_waitingForVideoRap' = FALSE
        /\ offset = IF m_waitForVideoRap THEN IF IsMultiSegment THEN 0 ELSE Max({time, 0})
                    ELSE m_segmentTimeOffset
    BY <1>4, <2>1
  <2>3. offset \in Nat
    BY <1>2, <1>4, <2>2
  <2>4. /\ Handed(time, Preroll(u), offset) \in Entry
        /\ \/ played' = played /\ 0 <= time /\ time < offset
           \/ /\ played' = Append(played, Handed(time, Preroll(u), offset))
              /\ ~(0 <= time /\ time < offset)
        /\ played' \in Seq(Entry)
    <3> HIDE DEF u, time, offset
    <3> QED
      BY <1>0, <1>1, <1>2, <1>3, <2>1, <2>3, Delivers
  <2>5. m_waitForVideoRap => u.key
    BY <1>1, <1>4, <1>6, FileFacts
  <2> HIDE DEF u, time, offset
  <2> QED
    BY <1>1, <1>2, <1>3, <2>1, <2>2, <2>3, <2>4, <2>5 DEF u, time, offset
<1> QED
  BY <1>5, <1>6

LEMMA AudioSampleSteps ==
    ASSUME Inv, AudioSample
    PROVE  LET u == File[next]
               time == ToSegmentTime(NormPts(u))
           IN  /\ next \in DOMAIN File /\ time \in Int /\ played' \in Seq(Entry)
               /\ UNCHANGED rapVars
               /\ \/ played' = played
                  \/ /\ ~AudioOutside(u) /\ NormPts(u) <= m_stopPos
                     /\ ~m_waitForVideoRap
                     /\ played' = Append(played, Handed(time, FALSE, m_segmentTimeOffset))
                     /\ Handed(time, FALSE, m_segmentTimeOffset) \in Entry
                     /\ ~(0 <= time /\ time < m_segmentTimeOffset)
<1> DEFINE u == File[next]
           time == ToSegmentTime(NormPts(u))
<1>0. TypeOK /\ Opened /\ Waits
  BY DEF Inv
<1>1. next \in DOMAIN File
  BY <1>0, FileFacts DEF AudioSample, Demux, TypeOK
<1>2. time \in Int /\ NormPts(u) \in Int
  BY <1>0, <1>1, UnitTimes, SegmentTimeValue
<1>3. m_segmentTimeOffset \in Nat /\ played \in Seq(Entry) /\ m_stopPos \in Nat
  BY <1>0 DEF TypeOK, Entry
<1>4. UNCHANGED rapVars
  BY DEF AudioSample
<1>5. CASE AudioOutside(u) \/ NormPts(u) > m_stopPos \/ m_waitingForVideoRap
  <2>1. played' = played
    BY <1>5 DEF AudioSample
  <2> QED
    BY <1>1, <1>2, <1>3, <1>4, <2>1
<1>6. CASE ~(AudioOutside(u) \/ NormPts(u) > m_stopPos \/ m_waitingForVideoRap)
  <2>1. PinDelivers(u, time, FALSE, m_segmentTimeOffset)
    BY <1>6 DEF AudioSample
  <2>2. /\ Handed(time, FALSE, m_segmentTimeOffset) \in Entry
        /\ \/ played' = played /\ 0 <= time /\ time < m_segmentTimeOffset
           \/ /\ played' = Append(played, Handed(time, FALSE, m_segmentTimeOffset))
              /\ ~(0 <= time /\ time < m_segmentTimeOffset)
        /\ played' \in Seq(Entry)
    <3> HIDE DEF u, time
    <3> QED
      BY <1>0, <1>1, <1>2, <1>3, <2>1, Delivers
  <2>3. ~AudioOutside(u) /\ NormPts(u) <= m_stopPos /\ ~m_waitForVideoRap
    BY <1>0, <1>2, <1>3, <1>6 DEF Waits
  <2> HIDE DEF u, time
  <2> QED
    BY <1>1, <1>2, <1>4, <2>2, <2>3 DEF u, time
<1> QED
  BY <1>5, <1>6

LEMMA TypeFrom ==
    ASSUME TypeOK, UNCHANGED loaded, m_active' \in BOOLEAN,
           m_curSegment' \in 1 .. Max({1, Len(m_editSegments)}), m_curSegmentBase' \in Nat,
           m_pendingSegmentJump' \in {"none", "next", "end"},
           m_pendingSegmentJump' = "next" => m_curSegment' < Len(m_editSegments),
           m_waitingForVideoRap' \in BOOLEAN, m_waitForVideoRap' \in BOOLEAN,
           m_segmentTimeOffset' \in Nat, m_currentPts' \in Nat,
           m_currentDts' \in Nat \cup {-1}, next' \in 1 .. Len(File) + 1,
           loop' \in LoopPC, played' \in Seq(Entry)
    PROVE  TypeOK'
<1>1. /\ m_editSegments' = m_editSegments /\ m_virtualStart' = m_virtualStart
      /\ m_firstPts' = m_firstPts /\ m_duration' = m_duration
      /\ m_seekTarget' = m_seekTarget /\ m_stopPos' = m_stopPos /\ hasMap' = hasMap
  BY DEF loaded
<1> QED
  BY <1>1 DEF TypeOK, Entry

LEMMA OpenedStays ==
    ASSUME Opened, UNCHANGED loaded
    PROVE  /\ Opened' /\ IsMultiSegment' = IsMultiSegment
           /\ m_editSegments' = m_editSegments /\ m_seekTarget' = m_seekTarget
           /\ m_firstPts' = m_firstPts
BY DEF loaded, Opened, IsMultiSegment, WithinSource, m_origFirstPts, m_sourceDuration, Stamps

LEMMA SetUpKeeps == Inv /\ SetUp => Inv'
<1> SUFFICES ASSUME Inv, SetUp PROVE Inv'
  OBVIOUS
<1> DEFINE at == SegmentAtProgram(m_editSegments, m_seekTarget)
           source == IF IsMultiSegment THEN at.source ELSE m_seekTarget + m_virtualStart
<1>0. TypeOK /\ Opened /\ Placed /\ Waits /\ Begins
  BY DEF Inv
<1>1. /\ loop = "setup" /\ loop' = "read" /\ UNCHANGED <<loaded, positionVars, m_active, played>>
      /\ IF IsMultiSegment
         THEN /\ m_curSegment' = at.segment
              /\ m_curSegmentBase' = SegmentBase(m_editSegments, at.segment)
              /\ m_pendingSegmentJump' = "none"
         ELSE UNCHANGED <<segmentVars, m_pendingSegmentJump>>
      /\ m_waitingForVideoRap' = (source > 0) /\ m_waitForVideoRap' = (source > 0)
      /\ m_segmentTimeOffset' = 0
      /\ next' \in Landing(source)
  BY DEF SetUp
<1>2. next' \in 1 .. Len(File) + 1
  BY <1>1, LandingInFile
<1>3. IsMultiSegment => /\ at.segment \in 1 .. Len(m_editSegments)
                        /\ SegmentBase(m_editSegments, at.segment) \in Nat
                        /\ at.segment \in 1 .. Max({1, Len(m_editSegments)})
  <2> SUFFICES ASSUME IsMultiSegment
               PROVE  /\ at.segment \in 1 .. Len(m_editSegments)
                      /\ SegmentBase(m_editSegments, at.segment) \in Nat
                      /\ at.segment \in 1 .. Max({1, Len(m_editSegments)})
    OBVIOUS
  <2>1. m_seekTarget \in Nat /\ Len(m_editSegments) \in Nat
    BY <1>0 DEF TypeOK, Opened
  <2>2. at.segment \in 1 .. Len(m_editSegments)
    BY <1>0, <2>1, SegmentFound
  <2>3. at.segment \in 1 .. Len(m_editSegments) + 1
    BY <2>1, <2>2
  <2>4. SegmentBase(m_editSegments, at.segment) \in Nat
    BY <1>0, <2>3, SegmentBaseNat DEF Opened
  <2>5. at.segment \in 1 .. Max({1, Len(m_editSegments)})
    BY <2>1, <2>2, MaxOfTwo
  <2> QED
    BY <2>2, <2>4, <2>5
<1> HIDE DEF at, source
<1>4. /\ m_active' \in BOOLEAN /\ m_currentPts' \in Nat /\ m_currentDts' \in Nat \cup {-1}
      /\ played' \in Seq(Entry) /\ loop' \in LoopPC /\ m_segmentTimeOffset' \in Nat
      /\ m_waitingForVideoRap' \in BOOLEAN /\ m_waitForVideoRap' \in BOOLEAN
  BY <1>0, <1>1 DEF TypeOK, positionVars, Entry, LoopPC
<1>5. /\ m_curSegment' \in 1 .. Max({1, Len(m_editSegments)}) /\ m_curSegmentBase' \in Nat
      /\ m_pendingSegmentJump' \in {"none", "next", "end"}
      /\ m_pendingSegmentJump' = "next" => m_curSegment' < Len(m_editSegments)
  <2>1. CASE IsMultiSegment
    BY <1>1, <1>3, <2>1
  <2>2. CASE ~IsMultiSegment
    BY <1>0, <1>1, <2>2 DEF TypeOK, segmentVars
  <2> QED
    BY <2>1, <2>2
<1>6. TypeOK'
  BY <1>0, <1>1, <1>2, <1>4, <1>5, TypeFrom, Zenon
<1>7. Opened' /\ IsMultiSegment' = IsMultiSegment /\ m_editSegments' = m_editSegments
  BY <1>0, <1>1, OpenedStays
<1>8. Placed'
  <2>1. IsMultiSegment => m_curSegmentBase' = SegmentBase(m_editSegments, m_curSegment')
    BY <1>1
  <2> QED
    BY <1>1, <1>7, <2>1 DEF Placed
<1> QED
  BY <1>1, <1>6, <1>7, <1>8 DEF Inv, Waits, Begins

LEMMA VideoKeeps == Inv /\ VideoSample => Inv'
<1> SUFFICES ASSUME Inv, VideoSample PROVE Inv'
  OBVIOUS
<1> DEFINE u == File[next]
<1>0. TypeOK /\ Opened /\ Placed /\ Waits /\ Begins
  BY DEF Inv
<1>1. /\ loop = "batch" /\ next <= Len(File) /\ next' = next + 1
      /\ UNCHANGED <<loaded, segmentVars, m_pendingSegmentJump, m_active, loop>>
  BY DEF VideoSample, Demux
<1>2. /\ next \in DOMAIN File /\ m_segmentTimeOffset' \in Nat /\ played' \in Seq(Entry)
      /\ m_waitForVideoRap' = m_waitingForVideoRap' /\ m_waitForVideoRap' \in BOOLEAN
      /\ \/ UNCHANGED <<rapVars, played>>
         \/ m_segmentTimeOffset' = IF m_waitForVideoRap
              THEN IF IsMultiSegment THEN 0 ELSE Max({ToSegmentTime(NormPts(u)), 0})
              ELSE m_segmentTimeOffset
  BY VideoSampleSteps
<1>3. m_currentPts' \in Nat /\ m_currentDts' \in Nat \cup {-1}
  <2>1. NormPts(u) \in Int /\ NormDts(u) \in Int
    BY <1>0, <1>2, UnitTimes
  <2>2. \/ m_currentPts' = m_currentPts /\ m_currentDts' = m_currentDts
        \/ /\ m_currentPts' = IF NormPts(u) > 0 THEN NormPts(u) ELSE m_currentPts
           /\ m_currentDts' = IF NormDts(u) >= 0 THEN NormDts(u) ELSE m_currentDts
    BY DEF VideoSample, positionVars
  <2>3. m_currentPts \in Nat /\ m_currentDts \in Nat \cup {-1}
    BY <1>0 DEF TypeOK
  <2> HIDE DEF u
  <2> QED
    BY <2>1, <2>2, <2>3
<1>4. next' \in 1 .. Len(File) + 1 /\ loop' \in LoopPC
  BY <1>1, <1>2, FileFacts DEF LoopPC
<1>5. /\ m_active' \in BOOLEAN /\ m_curSegment' \in 1 .. Max({1, Len(m_editSegments)})
      /\ m_curSegmentBase' \in Nat /\ m_pendingSegmentJump' \in {"none", "next", "end"}
      /\ m_pendingSegmentJump' = "next" => m_curSegment' < Len(m_editSegments)
  BY <1>0, <1>1 DEF TypeOK, segmentVars
<1>6. TypeOK'
  BY <1>0, <1>1, <1>2, <1>3, <1>4, <1>5, TypeFrom, Zenon
<1>7. Opened' /\ IsMultiSegment' = IsMultiSegment /\ m_editSegments' = m_editSegments
  BY <1>0, <1>1, OpenedStays
<1>8. Placed'
  BY <1>0, <1>1, <1>2, <1>7 DEF Placed, segmentVars, rapVars
<1> QED
  BY <1>1, <1>2, <1>6, <1>7, <1>8 DEF Inv, Waits, Begins

LEMMA AudioKeeps == Inv /\ AudioSample => Inv'
<1> SUFFICES ASSUME Inv, AudioSample PROVE Inv'
  OBVIOUS
<1>0. TypeOK /\ Opened /\ Placed /\ Waits /\ Begins
  BY DEF Inv
<1>1. /\ loop = "batch" /\ next <= Len(File) /\ next' = next + 1
      /\ UNCHANGED <<loaded, segmentVars, m_pendingSegmentJump, positionVars, m_active, loop>>
  BY DEF AudioSample, Demux
<1>2. next \in DOMAIN File /\ played' \in Seq(Entry) /\ UNCHANGED rapVars
  BY AudioSampleSteps
<1>3. /\ next' \in 1 .. Len(File) + 1 /\ loop' \in LoopPC
  BY <1>1, <1>2, FileFacts DEF LoopPC
<1>4. /\ m_active' \in BOOLEAN /\ m_curSegment' \in 1 .. Max({1, Len(m_editSegments)})
      /\ m_curSegmentBase' \in Nat /\ m_pendingSegmentJump' \in {"none", "next", "end"}
      /\ m_pendingSegmentJump' = "next" => m_curSegment' < Len(m_editSegments)
      /\ m_waitingForVideoRap' \in BOOLEAN /\ m_waitForVideoRap' \in BOOLEAN
      /\ m_segmentTimeOffset' \in Nat
      /\ m_currentPts' \in Nat /\ m_currentDts' \in Nat \cup {-1}
  BY <1>0, <1>1, <1>2 DEF TypeOK, segmentVars, rapVars, positionVars
<1>5. TypeOK'
  BY <1>0, <1>1, <1>2, <1>3, <1>4, TypeFrom, Zenon
<1>6. Opened' /\ IsMultiSegment' = IsMultiSegment /\ m_editSegments' = m_editSegments
  BY <1>0, <1>1, OpenedStays
<1>7. Placed' /\ Waits'
  BY <1>0, <1>1, <1>2, <1>6 DEF Placed, Waits, segmentVars, rapVars
<1> QED
  BY <1>1, <1>5, <1>6, <1>7 DEF Inv, Begins

LEMMA JumpKeeps == Inv /\ JumpToSegment => Inv'
<1> SUFFICES ASSUME Inv, JumpToSegment PROVE Inv'
  OBVIOUS
<1>0. TypeOK /\ Opened /\ Placed /\ Waits /\ Begins
  BY DEF Inv
<1>1. /\ loop = "batch" /\ loop' = "read" /\ m_pendingSegmentJump = "next"
      /\ m_pendingSegmentJump' = "none" /\ m_curSegment' = m_curSegment + 1
      /\ m_curSegmentBase' = SegmentBase(m_editSegments, m_curSegment + 1)
      /\ next' \in Landing(m_editSegments[m_curSegment + 1].start)
      /\ m_waitingForVideoRap' = TRUE /\ m_waitForVideoRap' = TRUE
      /\ m_segmentTimeOffset' = m_segmentTimeOffset
      /\ UNCHANGED <<loaded, positionVars, m_active, played>>
  BY DEF JumpToSegment, LoopOnly
<1>2. /\ m_curSegment < Len(m_editSegments) /\ Len(m_editSegments) \in Nat
      /\ m_curSegment \in 1 .. (IF Len(m_editSegments) >= 1 THEN Len(m_editSegments) ELSE 1)
  BY <1>0, <1>1, SegmentFacts DEF TypeOK
<1>3. /\ IsMultiSegment /\ m_curSegment + 1 \in 1 .. Len(m_editSegments)
      /\ m_curSegment + 1 \in 1 .. Len(m_editSegments) + 1
      /\ m_curSegment + 1 \in 1 .. Max({1, Len(m_editSegments)})
  BY <1>2, MaxOfTwo DEF IsMultiSegment
<1>4. m_curSegmentBase' \in Nat
  BY <1>0, <1>1, <1>3, SegmentBaseNat DEF Opened
<1>5. next' \in 1 .. Len(File) + 1
  BY <1>1, LandingInFile
<1>6. /\ m_active' \in BOOLEAN /\ m_currentPts' \in Nat /\ m_currentDts' \in Nat \cup {-1}
      /\ played' \in Seq(Entry) /\ loop' \in LoopPC /\ m_segmentTimeOffset' \in Nat
  BY <1>0, <1>1 DEF TypeOK, positionVars, Entry, LoopPC
<1>7. TypeOK'
  BY <1>0, <1>1, <1>3, <1>4, <1>5, <1>6, TypeFrom
<1>8. Opened' /\ IsMultiSegment' = IsMultiSegment /\ m_editSegments' = m_editSegments
  BY <1>0, <1>1, OpenedStays
<1>9. Placed'
  BY <1>0, <1>1, <1>3, <1>8 DEF Placed
<1> QED
  BY <1>1, <1>7, <1>8, <1>9 DEF Inv, Waits, Begins

\* The steps that hand nothing on and do not move in the edit list.
Idles == /\ UNCHANGED <<loaded, segmentVars, rapVars, positionVars, played>>
         /\ next' \in 1 .. Len(File) + 1 /\ loop' \in LoopPC /\ m_active' \in BOOLEAN
         /\ m_pendingSegmentJump' \in {"none", "next", "end"}
         /\ m_pendingSegmentJump' = "next" => m_curSegment < Len(m_editSegments)
         /\ loop' = "setup" => loop = "setup"

LEMMA IdleKeeps == Inv /\ Idles => Inv'
<1> SUFFICES ASSUME Inv, Idles PROVE Inv'
  OBVIOUS
<1>0. TypeOK /\ Opened /\ Placed /\ Waits /\ Begins
  BY DEF Inv
<1>1. /\ m_curSegment' \in 1 .. Max({1, Len(m_editSegments)}) /\ m_curSegmentBase' \in Nat
      /\ m_pendingSegmentJump' = "next" => m_curSegment' < Len(m_editSegments)
      /\ m_waitingForVideoRap' \in BOOLEAN /\ m_waitForVideoRap' \in BOOLEAN
      /\ m_segmentTimeOffset' \in Nat /\ played' \in Seq(Entry)
      /\ m_currentPts' \in Nat /\ m_currentDts' \in Nat \cup {-1}
  BY <1>0 DEF Idles, TypeOK, segmentVars, rapVars, positionVars, Entry
<1>2. TypeOK'
  BY <1>0, <1>1, TypeFrom, Zenon DEF Idles
<1>3. Opened' /\ IsMultiSegment' = IsMultiSegment /\ m_editSegments' = m_editSegments
  BY <1>0, OpenedStays DEF Idles
<1>4. Placed' /\ Waits' /\ Begins'
  BY <1>0, <1>3 DEF Idles, Placed, Waits, Begins, segmentVars, rapVars
<1> QED
  BY <1>2, <1>3, <1>4 DEF Inv

LEMMA OthersIdle ==
    ASSUME Inv,
           \/ Read \/ Finish \/ BatchEnds \/ EditEnds \/ Done
           \/ VideoPastSegment \/ VideoPastStop \/ UNCHANGED vars
    PROVE  Idles
<1>0. /\ next \in 1 .. Len(File) + 1 /\ loop \in LoopPC /\ m_active \in BOOLEAN
      /\ m_pendingSegmentJump \in {"none", "next", "end"}
      /\ m_pendingSegmentJump = "next" => m_curSegment < Len(m_editSegments)
  BY DEF Inv, TypeOK
<1>1. CASE Read \/ Finish \/ BatchEnds \/ EditEnds
  BY <1>0, <1>1 DEF Read, Finish, BatchEnds, EditEnds, LoopOnly, Idles, LoopPC
<1>2. CASE Done \/ UNCHANGED vars
  BY <1>0, <1>2 DEF Done, vars, Idles, loaded, segmentVars, rapVars, positionVars
<1>3. CASE VideoPastSegment \/ VideoPastStop
  <2>1. /\ loop = "batch" /\ next <= Len(File) /\ next' = next + 1 /\ loop' = loop
        /\ UNCHANGED <<loaded, segmentVars, rapVars, positionVars, played>>
        /\ \/ m_active' = m_active /\ m_pendingSegmentJump' =
                IF m_curSegment < Len(m_editSegments) THEN "next" ELSE "end"
           \/ m_active' = FALSE /\ m_pendingSegmentJump' = m_pendingSegmentJump
    BY <1>3 DEF VideoPastSegment, VideoPastStop, Demux
  <2>2. next' \in 1 .. Len(File) + 1
    BY <1>0, <2>1, FileFacts
  <2> QED
    BY <1>0, <2>1, <2>2 DEF Idles
<1> QED
  BY <1>1, <1>2, <1>3

LEMMA StepKeeps == Inv /\ [Next]_vars => Inv'
BY SetUpKeeps, VideoKeeps, AudioKeeps, JumpKeeps, IdleKeeps, OthersIdle DEF Next

(***************************************************************************)
(* The inductive invariant: wherever seeks, jumps and batches lead.        *)
(***************************************************************************)
THEOREM InvHolds == Spec => []Inv
BY InitHolds, StepKeeps, PTL DEF Spec

(***************************************************************************)
(* Every variable of the run keeps its type: the loop stays in the file    *)
(* and in the edit list, and a jump is due only before the last segment.   *)
(***************************************************************************)
THEOREM TypeCorrect == Spec => []TypeOK
<1>1. Inv => TypeOK
  BY DEF Inv
<1> QED
  BY <1>1, InvHolds, PTL

-----------------------------------------------------------------------------
(***************************************************************************)
(* The time of what was handed on: in an edited file, the place of the     *)
(* segment it was read in; in another, one offset for the whole run, which *)
(* is set while nothing has been handed on.                                *)
(***************************************************************************)
InItsSegment(e) ==
    LET s == m_editSegments[e.segment]
        at == SourceTime(Unit(e))
    IN  /\ s.start <= at /\ at < s.end
        /\ e.time = SegmentBase(m_editSegments, e.segment) + (at - s.start) - m_seekTarget
        /\ e.time >= 0

InPlace ==
    IsMultiSegment =>
        /\ \A n \in DOMAIN played : played[n].segment \in 1 .. m_curSegment
        /\ \A m, n \in DOMAIN played : m < n => played[m].segment <= played[n].segment
        /\ \A n \in DOMAIN played : ~played[n].preroll => InItsSegment(played[n])

Offset(e) == LET t == Unit(e).pts - m_firstPts
             IN  t >= m_seekTarget => e.time = t - m_seekTarget - m_segmentTimeOffset

OneOffset ==
    ~IsMultiSegment =>
        /\ m_waitingForVideoRap => played = <<>>
        /\ \A n \in DOMAIN played : Offset(played[n])

Timeline == InPlace /\ OneOffset

LEMMA AppendShape ==
    ASSUME NEW S, NEW s \in Seq(S), NEW x \in S
    PROVE  /\ Append(s, x) \in Seq(S)
           /\ Len(s) \in Nat /\ DOMAIN s = 1 .. Len(s)
           /\ DOMAIN Append(s, x) = 1 .. Len(s) + 1
           /\ \A n \in 1 .. Len(s) : Append(s, x)[n] = s[n]
           /\ Append(s, x)[Len(s) + 1] = x
OBVIOUS

\* What a step adds to what was handed on.
LEMMA PlayedGrows ==
    ASSUME NEW e \in Entry, TypeOK, played' = Append(played, e)
    PROVE  /\ Len(played) \in Nat /\ DOMAIN played = 1 .. Len(played)
           /\ DOMAIN played' = 1 .. Len(played) + 1
           /\ \A n \in 1 .. Len(played) : played'[n] = played[n]
           /\ played'[Len(played) + 1] = e
           /\ \A n \in DOMAIN played' : n \in DOMAIN played \/ n = Len(played) + 1
<1>1. played \in Seq(Entry)
  BY DEF TypeOK, Entry
<1>2. /\ Len(played) \in Nat /\ DOMAIN played = 1 .. Len(played)
      /\ DOMAIN played' = 1 .. Len(played) + 1
      /\ \A n \in 1 .. Len(played) : played'[n] = played[n]
      /\ played'[Len(played) + 1] = e
  BY <1>1, AppendShape
<1> QED
  BY <1>2

\* What is handed on in an edited file is in its segment...
LEMMA HandedInSegment ==
    ASSUME Inv, IsMultiSegment, next \in DOMAIN File,
           NEW preroll \in BOOLEAN,
           preroll \/ /\ Segment.start <= SourceTime(File[next])
                      /\ SourceTime(File[next]) < Segment.end
                      /\ NormPts(File[next]) >= m_seekTarget
    PROVE  LET e == Handed(ToSegmentTime(NormPts(File[next])), preroll, 0)
           IN  e.segment = m_curSegment /\ (~e.preroll => InItsSegment(e))
<1> DEFINE u == File[next]
           time == ToSegmentTime(NormPts(u))
           e == Handed(time, preroll, 0)
<1>0. TypeOK /\ Opened /\ Placed
  BY DEF Inv
<1>1. /\ e.segment = m_curSegment /\ e.preroll = preroll /\ Unit(e) = u
      /\ e.time = IF time < 0 THEN time ELSE time - 0
  BY DEF Handed, Unit
<1>2. ASSUME ~preroll PROVE InItsSegment(e)
  <2>1. /\ NormPts(u) = m_curSegmentBase + (SourceTime(u) - Segment.start)
        /\ NormPts(u) \in Int /\ SourceTime(u) \in Nat
    BY <1>0, UnitTimes
  <2>2. m_curSegmentBase = SegmentBase(m_editSegments, m_curSegment)
    BY <1>0 DEF Placed
  <2>3. time = NormPts(u) - m_seekTarget
    BY <1>0, <1>2, <2>1, SegmentTimeValue
  <2>4. m_seekTarget \in Nat /\ m_curSegmentBase \in Nat
    BY <1>0 DEF TypeOK
  <2>5. e.time = NormPts(u) - m_seekTarget /\ e.time >= 0
    <3> HIDE DEF e, time, u
    <3> QED
      BY <1>1, <1>2, <2>1, <2>3, <2>4 DEF u
  <2>6. m_editSegments[e.segment] = Segment
    BY <1>1 DEF Segment
  <2>7. Segment.start \in Nat
    BY <1>0, SegmentFacts
  <2>8. Segment.start <= SourceTime(u) /\ SourceTime(u) < Segment.end
    BY <1>2
  <2> HIDE DEF e, time, u
  <2>9. e.time = SegmentBase(m_editSegments, m_curSegment)
                    + (SourceTime(u) - Segment.start) - m_seekTarget
    BY <2>1, <2>2, <2>4, <2>5, <2>7
  <2> QED
    BY <1>1, <2>5, <2>6, <2>8, <2>9 DEF InItsSegment
<1> HIDE DEF e, time
<1> QED
  BY <1>1, <1>2 DEF e, time

\* ... and in another it is offset as the rest.
LEMMA HandedOffset ==
    ASSUME Inv, ~IsMultiSegment, next \in DOMAIN File, NEW preroll \in BOOLEAN,
           NEW offset \in Nat
    PROVE  LET e == Handed(ToSegmentTime(NormPts(File[next])), preroll, offset)
               t == Unit(e).pts - m_firstPts
           IN  t >= m_seekTarget => e.time = t - m_seekTarget - offset
<1> DEFINE u == File[next]
           time == ToSegmentTime(NormPts(u))
           e == Handed(time, preroll, offset)
<1>0. TypeOK /\ Opened
  BY DEF Inv
<1>1. Unit(e) = u /\ e.time = IF time < 0 THEN time ELSE time - offset
  BY DEF Handed, Unit
<1>2. NormPts(u) = u.pts - m_firstPts /\ NormPts(u) \in Int
  BY <1>0, UnitTimes
<1>3. NormPts(u) >= m_seekTarget => time = NormPts(u) - m_seekTarget
  BY <1>0, <1>2, SegmentTimeValue
<1>4. m_seekTarget \in Nat
  BY <1>0 DEF TypeOK
<1> HIDE DEF e, time, u
<1>5. NormPts(u) >= m_seekTarget => e.time = NormPts(u) - m_seekTarget - offset
  BY <1>1, <1>2, <1>3, <1>4
<1> QED
  BY <1>1, <1>2, <1>5 DEF e, time, u

LEMMA TimelineBegins == Init => Timeline
BY DEF Init, Timeline, InPlace, OneOffset

LEMMA UnitStays ==
    ASSUME UNCHANGED loaded
    PROVE  /\ \A n : InItsSegment(played[n])' = InItsSegment(played'[n])
           /\ \A n : Unit(played[n])' = Unit(played'[n])
           /\ IsMultiSegment' = IsMultiSegment
           /\ m_seekTarget' = m_seekTarget /\ m_firstPts' = m_firstPts
BY DEF loaded, Unit, InItsSegment, SourceTime, SegmentBase, m_origFirstPts, Stamps,
       IsMultiSegment

\* Nothing is handed on.
LEMMA TimelineSilent ==
    ASSUME Inv, Timeline, UNCHANGED <<loaded, played>>,
           \/ played = <<>>
           \/ /\ m_curSegment' \in Nat /\ m_curSegment' >= m_curSegment
              /\ IsMultiSegment
           \/ m_curSegment' = m_curSegment /\ UNCHANGED rapVars
    PROVE  Timeline'
<1>0. m_curSegment \in Nat
  BY SegmentFacts DEF Inv
<1>1. UNCHANGED loaded /\ played' = played
  OBVIOUS
<1>2. InPlace'
  <2> SUFFICES ASSUME IsMultiSegment
               PROVE  /\ \A n \in DOMAIN played : played[n].segment \in 1 .. m_curSegment'
                      /\ \A m, n \in DOMAIN played : m < n => played[m].segment <= played[n].segment
                      /\ \A n \in DOMAIN played : ~played[n].preroll => InItsSegment(played[n])
    BY <1>1, UnitStays DEF InPlace
  <2>1. CASE played = <<>>
    BY <2>1
  <2>2. CASE played # <<>>
    <3>1. m_curSegment' \in Nat /\ m_curSegment' >= m_curSegment
      BY <1>0, <2>2
    <3> QED
      BY <1>0, <3>1 DEF Timeline, InPlace
  <2> QED
    BY <2>1, <2>2
<1>3. OneOffset'
  <2> SUFFICES ASSUME ~IsMultiSegment, played # <<>> PROVE OneOffset'
    BY <1>1, UnitStays DEF OneOffset
  <2>1. UNCHANGED rapVars
    OBVIOUS
  <2>2. /\ m_waitingForVideoRap => played = <<>>
        /\ \A n \in DOMAIN played : Offset(played[n])
    BY DEF Timeline, OneOffset
  <2>3. \A n : Offset(played[n])' = Offset(played[n])
    BY <1>1, <2>1, UnitStays DEF Offset, rapVars
  <2> QED
    BY <1>1, <2>1, <2>2, <2>3 DEF OneOffset, rapVars
<1> QED
  BY <1>2, <1>3 DEF Timeline

\* One more sample is.
LEMMA TimelineGrows ==
    ASSUME Inv, Timeline, NEW e \in Entry, played' = Append(played, e),
           UNCHANGED <<loaded, segmentVars>>,
           IsMultiSegment => e.segment = m_curSegment /\ (~e.preroll => InItsSegment(e)),
           ~IsMultiSegment =>
             /\ ~m_waitingForVideoRap'
             /\ played = <<>> \/ m_segmentTimeOffset' = m_segmentTimeOffset
             /\ LET t == Unit(e).pts - m_firstPts
                IN  t >= m_seekTarget => e.time = t - m_seekTarget - m_segmentTimeOffset'
    PROVE  Timeline'
<1>0. TypeOK /\ m_curSegment \in Nat /\ m_curSegment >= 1
  BY SegmentFacts DEF Inv
<1>1. /\ Len(played) \in Nat /\ DOMAIN played = 1 .. Len(played)
      /\ DOMAIN played' = 1 .. Len(played) + 1
      /\ \A n \in 1 .. Len(played) : played'[n] = played[n]
      /\ played'[Len(played) + 1] = e
      /\ \A n \in DOMAIN played' : n \in DOMAIN played \/ n = Len(played) + 1
  BY <1>0, PlayedGrows
<1>2. UNCHANGED loaded /\ m_curSegment' = m_curSegment
  BY DEF segmentVars
<1> HIDE <1>0
<1>3. InPlace'
  <2> SUFFICES ASSUME IsMultiSegment
               PROVE  /\ \A n \in DOMAIN played' : played'[n].segment \in 1 .. m_curSegment
                      /\ \A m, n \in DOMAIN played' :
                            m < n => played'[m].segment <= played'[n].segment
                      /\ \A n \in DOMAIN played' :
                            ~played'[n].preroll => InItsSegment(played'[n])
    BY <1>2, UnitStays DEF InPlace
  <2>1. /\ \A n \in DOMAIN played : played[n].segment \in 1 .. m_curSegment
        /\ \A m, n \in DOMAIN played : m < n => played[m].segment <= played[n].segment
        /\ \A n \in DOMAIN played : ~played[n].preroll => InItsSegment(played[n])
    BY DEF Timeline, InPlace
  <2>2. e.segment = m_curSegment /\ (~e.preroll => InItsSegment(e))
    OBVIOUS
  <2>3. \A n \in DOMAIN played' : played'[n].segment \in 1 .. m_curSegment
    BY <1>0, <1>1, <2>1, <2>2
  <2>4. \A n \in DOMAIN played' : ~played'[n].preroll => InItsSegment(played'[n])
    BY <1>1, <2>1, <2>2
  <2>5. ASSUME NEW m \in DOMAIN played', NEW n \in DOMAIN played', m < n
        PROVE  played'[m].segment <= played'[n].segment
    <3>1. m \in DOMAIN played
      BY <1>1, <2>5
    <3>2. CASE n \in DOMAIN played
      BY <1>1, <2>1, <2>5, <3>1, <3>2
    <3>3. CASE n = Len(played) + 1
      BY <1>1, <2>1, <2>2, <3>1, <3>3
    <3> QED
      BY <1>1, <3>2, <3>3
  <2> QED
    BY <2>3, <2>4, <2>5
<1>4. OneOffset'
  <2> SUFFICES ASSUME ~IsMultiSegment PROVE OneOffset'
    BY <1>2, UnitStays DEF OneOffset
  <2>1. \A n : Offset(played[n])' =
          LET t == Unit(played'[n]).pts - m_firstPts
          IN  t >= m_seekTarget => played'[n].time = t - m_seekTarget - m_segmentTimeOffset'
    BY <1>2, UnitStays DEF Offset
  <2>2. ASSUME NEW n \in DOMAIN played' PROVE Offset(played[n])'
    <3>1. CASE n \in DOMAIN played
      <4>1. m_segmentTimeOffset' = m_segmentTimeOffset
        BY <1>1, <3>1
      <4>2. Offset(played[n]) /\ played'[n] = played[n]
        BY <1>1, <3>1 DEF Timeline, OneOffset
      <4> QED
        BY <2>1, <4>1, <4>2 DEF Offset
    <3>2. CASE n = Len(played) + 1
      BY <1>1, <2>1, <3>2
    <3> QED
      BY <1>1, <3>1, <3>2
  <2> QED
    BY <2>2 DEF OneOffset
<1> QED
  BY <1>3, <1>4 DEF Timeline

LEMMA TimelineStep == Inv /\ Timeline /\ [Next]_vars => Timeline'
<1> SUFFICES ASSUME Inv, Timeline, [Next]_vars PROVE Timeline'
  OBVIOUS
<1>0. TypeOK /\ Opened /\ Placed /\ Waits /\ Begins
  BY DEF Inv
<1>1. CASE SetUp
  <2>1. UNCHANGED <<loaded, played>> /\ played = <<>>
    BY <1>0, <1>1 DEF SetUp, Begins
  <2> QED
    BY <2>1, TimelineSilent
<1>2. CASE JumpToSegment
  <2>1. UNCHANGED <<loaded, played>> /\ m_curSegment' = m_curSegment + 1
    BY <1>2 DEF JumpToSegment, LoopOnly
  <2>2. /\ IsMultiSegment /\ m_curSegment \in Nat
    <3>1. m_curSegment < Len(m_editSegments)
      BY <1>0, <1>2 DEF JumpToSegment, TypeOK
    <3> QED
      BY <1>0, <3>1, SegmentFacts DEF IsMultiSegment
  <2>3. m_curSegment' \in Nat /\ m_curSegment' >= m_curSegment
    BY <2>1, <2>2
  <2> QED
    BY <2>1, <2>2, <2>3, TimelineSilent
<1>3. CASE Idles
  <2>1. UNCHANGED <<loaded, played>> /\ m_curSegment' = m_curSegment /\ UNCHANGED rapVars
    BY <1>3 DEF Idles, segmentVars
  <2> QED
    BY <2>1, TimelineSilent
<1>4. CASE VideoSample
  <2> DEFINE u == File[next]
             time == ToSegmentTime(NormPts(u))
             offset == m_segmentTimeOffset'
             e == Handed(time, Preroll(u), offset)
  <2>1. UNCHANGED <<loaded, segmentVars>>
    BY <1>4 DEF VideoSample
  <2>2. /\ next \in DOMAIN File /\ time \in Int /\ Preroll(u) \in BOOLEAN /\ offset \in Nat
        /\ m_waitForVideoRap' = m_waitingForVideoRap' /\ m_waitForVideoRap' \in BOOLEAN
        /\ \/ UNCHANGED <<rapVars, played>>
           \/ /\ ~m_waitForVideoRap'
              /\ offset = IF m_waitForVideoRap THEN IF IsMultiSegment THEN 0 ELSE Max({time, 0})
                          ELSE m_segmentTimeOffset
              /\ \/ played' = played /\ 0 <= time /\ time < offset
                 \/ played' = Append(played, e)
              /\ e \in Entry
    BY <1>4, VideoSampleSteps
  <2>3. CASE UNCHANGED <<rapVars, played>>
    <3>1. UNCHANGED <<loaded, played>> /\ m_curSegment' = m_curSegment /\ UNCHANGED rapVars
      BY <2>1, <2>3 DEF segmentVars
    <3> QED
      BY <3>1, TimelineSilent
  <2>4. IsMultiSegment => offset = 0
    <3>1. IsMultiSegment => m_segmentTimeOffset = 0
      BY <1>0 DEF Placed
    <3> QED
      BY <2>2, <3>1 DEF rapVars
  <2>5. ~IsMultiSegment => played = <<>> \/ (offset = m_segmentTimeOffset /\ ~m_waitForVideoRap)
                           \/ UNCHANGED <<rapVars, played>>
    BY <1>0, <2>2 DEF Timeline, OneOffset, Waits
  <2>6. CASE ~UNCHANGED <<rapVars, played>> /\ played' = played /\ 0 <= time /\ time < offset
    <3>1. ~IsMultiSegment
      <4> HIDE DEF time, offset
      <4> QED
        BY <2>2, <2>4, <2>6
    <3>2. played = <<>>
      <4> SUFFICES ASSUME offset = m_segmentTimeOffset, ~m_waitForVideoRap PROVE FALSE
        BY <2>5, <2>6, <3>1
      <4>1. m_waitForVideoRap' = m_waitForVideoRap /\ m_waitingForVideoRap' = m_waitingForVideoRap
        <5>1. /\ ~m_waitForVideoRap' /\ m_waitForVideoRap \in BOOLEAN
              /\ m_waitForVideoRap = m_waitingForVideoRap
          BY <1>0, <2>2, <2>6 DEF TypeOK, Waits
        <5> HIDE DEF time, offset, e
        <5> QED
          BY <2>2, <5>1, Zenon
      <4> QED
        BY <2>6, <4>1 DEF rapVars
    <3> QED
      BY <2>1, <2>6, <3>2, TimelineSilent
  <2>7. CASE ~UNCHANGED <<rapVars, played>> /\ played' = Append(played, e)
    <3>1. /\ e \in Entry /\ ~m_waitingForVideoRap'
          /\ ~IsMultiSegment => played = <<>> \/ m_segmentTimeOffset' = m_segmentTimeOffset
      BY <2>2, <2>5, <2>7
    <3>2. ASSUME IsMultiSegment
          PROVE  e.segment = m_curSegment /\ (~e.preroll => InItsSegment(e))
      <4>1. Preroll(u) \/ /\ Segment.start <= SourceTime(u) /\ SourceTime(u) < Segment.end
                          /\ NormPts(u) >= m_seekTarget
        <5>1. /\ SourceTime(u) \in Nat /\ NormPts(u) \in Int /\ m_seekTarget \in Nat
              /\ Segment.start \in Nat /\ Segment.end \in Nat
          BY <1>0, <2>2, <3>2, UnitTimes, SegmentFacts DEF TypeOK
        <5> QED
          BY <3>2, <5>1 DEF Preroll
      <4>2. offset = 0
        BY <2>4, <3>2
      <4> QED
        BY <2>2, <3>2, <4>1, <4>2, HandedInSegment
    <3>3. ASSUME ~IsMultiSegment
          PROVE  LET t == Unit(e).pts - m_firstPts
                 IN  t >= m_seekTarget => e.time = t - m_seekTarget - m_segmentTimeOffset'
      BY <2>2, <3>3, HandedOffset
    <3> HIDE DEF e
    <3> QED
      BY <2>1, <2>7, <3>1, <3>2, <3>3, TimelineGrows
  <2> QED
    BY <2>2, <2>3, <2>6, <2>7
<1>5. CASE AudioSample
  <2> DEFINE u == File[next]
             time == ToSegmentTime(NormPts(u))
             offset == m_segmentTimeOffset
             e == Handed(time, FALSE, offset)
  <2>1. UNCHANGED <<loaded, segmentVars>>
    BY <1>5 DEF AudioSample
  <2>2. /\ next \in DOMAIN File /\ time \in Int /\ UNCHANGED rapVars
        /\ \/ played' = played
           \/ /\ ~AudioOutside(u) /\ ~m_waitForVideoRap
              /\ played' = Append(played, e) /\ e \in Entry
    BY <1>5, AudioSampleSteps
  <2>3. CASE played' = played
    <3>1. UNCHANGED <<loaded, played>> /\ m_curSegment' = m_curSegment /\ UNCHANGED rapVars
      BY <2>1, <2>2, <2>3 DEF segmentVars
    <3> QED
      BY <3>1, TimelineSilent
  <2>4. CASE ~AudioOutside(u) /\ ~m_waitForVideoRap /\ played' = Append(played, e) /\ e \in Entry
    <3>1. /\ ~m_waitingForVideoRap' /\ m_segmentTimeOffset' = m_segmentTimeOffset
          /\ m_segmentTimeOffset \in Nat
      BY <1>0, <2>2, <2>4 DEF rapVars, Waits, TypeOK
    <3>2. ASSUME IsMultiSegment
          PROVE  e.segment = m_curSegment /\ (~e.preroll => InItsSegment(e))
      <4>1. /\ Segment.start <= SourceTime(u) /\ SourceTime(u) < Segment.end
            /\ NormPts(u) >= m_seekTarget
        <5>1. /\ SourceTime(u) \in Nat /\ NormPts(u) \in Int /\ m_seekTarget \in Nat
              /\ Segment.start \in Nat /\ Segment.end \in Nat
          BY <1>0, <2>2, <3>2, UnitTimes, SegmentFacts DEF TypeOK
        <5> QED
          BY <2>4, <3>2, <5>1 DEF AudioOutside
      <4>2. offset = 0
        BY <1>0, <3>2 DEF Placed
      <4> QED
        BY <2>2, <3>2, <4>1, <4>2, HandedInSegment
    <3>3. ASSUME ~IsMultiSegment
          PROVE  LET t == Unit(e).pts - m_firstPts
                 IN  t >= m_seekTarget => e.time = t - m_seekTarget - m_segmentTimeOffset'
      BY <2>2, <3>1, <3>3, HandedOffset
    <3> HIDE DEF e
    <3> QED
      BY <2>1, <2>4, <3>1, <3>2, <3>3, TimelineGrows
  <2> QED
    BY <2>2, <2>3, <2>4
<1> QED
  BY <1>1, <1>2, <1>3, <1>4, <1>5, OthersIdle DEF Next

LEMMA TimelineHolds == Spec => [](Inv /\ Timeline)
BY InitHolds, StepKeeps, TimelineBegins, TimelineStep, PTL DEF Spec

\* The lengths of the segments add up to the number of moments that they show.
LEMMA MomentsCounted ==
    ASSUME NEW segs \in Seq(Seg), WithinSource(segs), NEW i \in 1 .. Len(segs) + 1
    PROVE  Cardinality(Moments(segs, i - 1)) = SegmentBase(segs, i)
<1> DEFINE Counted(k) == /\ IsFiniteSet(Moments(segs, k))
                         /\ Cardinality(Moments(segs, k)) = SegmentBase(segs, k + 1)
           T == {k \in Nat : k <= Len(segs) => Counted(k)}
<1>0. Len(segs) \in Nat
  OBVIOUS
<1>1. 0 \in T
  <2>1. Moments(segs, 0) = {}
    BY DEF Moments
  <2>2. IsFiniteSet(Moments(segs, 0)) /\ Cardinality(Moments(segs, 0)) = 0
    BY <2>1, FS_EmptySet
  <2>3. SegmentBase(segs, 0 + 1) = 0
    BY SegmentBaseSteps
  <2> QED
    BY <2>2, <2>3
<1>2. ASSUME NEW k \in Nat, k \in T PROVE k + 1 \in T
  <2> SUFFICES ASSUME k + 1 <= Len(segs) PROVE Counted(k + 1)
    OBVIOUS
  <2> DEFINE s == segs[k + 1]
             new == {k + 1} \X (s.start .. s.end - 1)
             old == Moments(segs, k)
  <2>1. /\ k + 1 \in 1 .. Len(segs) /\ k + 1 \in 1 .. Len(segs) + 1
        /\ s.start \in Nat /\ s.end \in Nat /\ s.start < s.end /\ s.end <= m_sourceDuration
    <3>1. k + 1 \in 1 .. Len(segs) /\ k + 1 \in 1 .. Len(segs) + 1
      BY <1>0
    <3>2. s \in Seg
      BY <3>1
    <3>3. s.start < s.end /\ s.end <= m_sourceDuration
      BY <3>1 DEF WithinSource
    <3> QED
      BY <3>1, <3>2, <3>3 DEF Seg
  <2>2. Counted(k)
    <3>1. k <= Len(segs)
      BY <1>0
    <3> QED
      BY <1>2, <3>1
  <2>3. IsFiniteSet(new) /\ Cardinality(new) = s.end - s.start
    <3>1. IsFiniteSet({k + 1}) /\ Cardinality({k + 1}) = 1
      BY FS_Singleton
    <3>2. /\ IsFiniteSet(s.start .. s.end - 1)
          /\ Cardinality(s.start .. s.end - 1) = s.end - s.start
      <4>1. s.start \in Int /\ s.end - 1 \in Int
        BY <2>1
      <4> HIDE DEF s
      <4>2. /\ IsFiniteSet(s.start .. s.end - 1)
            /\ Cardinality(s.start .. s.end - 1) =
                 IF s.start > s.end - 1 THEN 0 ELSE (s.end - 1) - s.start + 1
        BY <4>1, FS_Interval
      <4> QED
        BY <2>1, <4>2
    <3> HIDE DEF s
    <3>3. IsFiniteSet(new) /\ Cardinality(new) = 1 * (s.end - s.start)
      BY <3>1, <3>2, FS_Product
    <3> QED
      BY <2>1, <3>3
  <2>4. Moments(segs, k + 1) = old \cup new
    <3> DEFINE D == 0 .. m_sourceDuration
    <3>1. \A m \in (1 .. k + 1) \X D : m[1] \in 1 .. k \/ m[1] = k + 1
      OBVIOUS
    <3>2. \A m \in Moments(segs, k + 1) : m \in old \/ m \in new
      <4> SUFFICES ASSUME NEW m \in Moments(segs, k + 1) PROVE m \in old \/ m \in new
        OBVIOUS
      <4>1. /\ m \in (1 .. k + 1) \X D /\ m = <<m[1], m[2]>> /\ m[2] \in D
            /\ segs[m[1]].start <= m[2] /\ m[2] < segs[m[1]].end
        BY DEF Moments
      <4>2. CASE m[1] \in 1 .. k
        BY <4>1, <4>2 DEF Moments
      <4>3. CASE m[1] = k + 1
        <5>1. s.start <= m[2] /\ m[2] < s.end
          BY <4>1, <4>3
        <5>2. m[2] \in s.start .. s.end - 1
          <6> HIDE DEF s
          <6> QED
            BY <2>1, <4>1, <5>1, StampFacts
        <5> QED
          BY <4>1, <4>3, <5>2
      <4> QED
        BY <3>1, <4>1, <4>2, <4>3
    <3>3. \A m \in old : m \in Moments(segs, k + 1)
      BY DEF Moments
    <3>4. \A m \in new : m \in Moments(segs, k + 1)
      <4> SUFFICES ASSUME NEW t \in s.start .. s.end - 1
                   PROVE  <<k + 1, t>> \in Moments(segs, k + 1)
        OBVIOUS
      <4>1. t \in D /\ s.start <= t /\ t < s.end
        <5> HIDE DEF s
        <5> QED
          BY <2>1, StampFacts
      <4>2. k + 1 \in 1 .. k + 1
        OBVIOUS
      <4> QED
        BY <4>1, <4>2 DEF Moments
    <3> HIDE DEF old, new
    <3> QED
      BY <3>2, <3>3, <3>4
  <2>5. old \cap new = {}
    <3>1. \A m \in old : m[1] \in 1 .. k
      BY DEF Moments
    <3>2. \A m \in new : m[1] = k + 1
      OBVIOUS
    <3> HIDE DEF old, new
    <3> QED
      BY <3>1, <3>2
  <2>6. /\ IsFiniteSet(old \cup new)
        /\ Cardinality(old \cup new) = SegmentBase(segs, k + 1) + (s.end - s.start)
    <3>1. IsFiniteSet(old) /\ Cardinality(old) = SegmentBase(segs, k + 1)
      BY <2>2
    <3> HIDE DEF old, new
    <3>2. /\ IsFiniteSet(old \cup new)
          /\ Cardinality(old \cup new) = Cardinality(old) + Cardinality(new) - 0
      BY <2>3, <2>5, <3>1, FS_Union, FS_EmptySet
    <3>3. SegmentBase(segs, k + 1) \in Int
      BY <2>1, SegmentBaseSteps
    <3> QED
      BY <2>1, <2>3, <3>1, <3>2, <3>3
  <2>7. SegmentBase(segs, (k + 1) + 1) = SegmentBase(segs, k + 1) + (s.end - s.start)
    BY <2>1, SegmentBaseSteps DEF Length
  <2> QED
    BY <2>4, <2>6, <2>7
<1> HIDE DEF T
<1>3. i - 1 \in Nat /\ i - 1 \in T /\ i - 1 <= Len(segs) /\ (i - 1) + 1 = i
  BY <1>0, <1>1, <1>2, Induction
<1> QED
  BY <1>3 DEF T

(***************************************************************************)
(* What is shown of an edited file lies in its segment, at the time that   *)
(* the lengths of the segments before it give, and the segments come in    *)
(* order, whatever the worker jumped over in the file.                     *)
(***************************************************************************)
THEOREM EditIsAConcatenation == Spec => []ShownInPlace
<1>1. ASSUME Inv, Timeline PROVE ShownInPlace
  <2> SUFFICES ASSUME IsMultiSegment PROVE ShownInPlace
    BY DEF ShownInPlace
  <2>1. /\ \A n \in DOMAIN played : played[n].segment \in 1 .. m_curSegment
        /\ \A m, n \in DOMAIN played : m < n => played[m].segment <= played[n].segment
        /\ \A n \in DOMAIN played : ~played[n].preroll => InItsSegment(played[n])
    BY <1>1 DEF Timeline, InPlace
  <2>2. ASSUME NEW n \in Shown
        PROVE  LET e == played[n]
               IN  /\ Edited(Unit(e), e.segment)
                   /\ e.time = ProgramTime(Unit(e), e.segment) - m_seekTarget
                   /\ e.time >= 0
    <3> DEFINE e == played[n]
               i == e.segment
    <3>1. n \in DOMAIN played /\ InItsSegment(e) /\ i \in 1 .. m_curSegment
      BY <2>1 DEF Shown
    <3>2. i \in 1 .. Len(m_editSegments) + 1 /\ i \in 1 .. Len(m_editSegments)
      BY <1>1, <3>1, SegmentFacts DEF Inv
    <3>3. Cardinality(Moments(m_editSegments, i - 1)) = SegmentBase(m_editSegments, i)
      BY <1>1, <3>2, MomentsCounted DEF Inv, Opened
    <3>4. /\ SegmentBase(m_editSegments, i) \in Int /\ SourceTime(Unit(e)) \in Int
          /\ m_editSegments[i].start \in Int /\ m_seekTarget \in Int
      <4>1. played \in Seq(Entry) /\ m_seekTarget \in Int /\ m_editSegments \in Seq(Seg)
        BY <1>1 DEF Inv, TypeOK, Opened, Entry
      <4>2. e \in Entry
        BY <3>1, <4>1
      <4>3. SourceTime(Unit(e)) \in Int
        BY <4>2, StampFacts DEF Entry, Unit
      <4>4. m_editSegments[i] \in Seg
        BY <3>2, <4>1
      <4> QED
        BY <3>2, <4>1, <4>3, <4>4, SegmentBaseSteps DEF Seg
    <3> HIDE DEF e, i
    <3>5. /\ m_editSegments[i].start <= SourceTime(Unit(e))
          /\ SourceTime(Unit(e)) < m_editSegments[i].end
          /\ e.time = SegmentBase(m_editSegments, i)
                         + (SourceTime(Unit(e)) - m_editSegments[i].start) - m_seekTarget
          /\ e.time >= 0
      BY <3>1 DEF InItsSegment, i
    <3>6. Edited(Unit(e), i)
      BY <3>5 DEF Edited
    <3>7. e.time = ProgramTime(Unit(e), i) - m_seekTarget
      BY <3>3, <3>4, <3>5 DEF ProgramTime
    <3> QED
      BY <3>5, <3>6, <3>7 DEF e, i
  <2> QED
    BY <2>1, <2>2 DEF ShownInPlace, Shown
<1> QED
  BY <1>1, TimelineHolds, PTL

(***************************************************************************)
(* Video and audio of a file that is not edited stay in step from the      *)
(* requested position on.                                                  *)
(***************************************************************************)
THEOREM VideoAndAudioInStep == Spec => []InStep
<1>1. ASSUME Inv, Timeline PROVE InStep
  <2> SUFFICES ASSUME ~IsMultiSegment, NEW m \in DOMAIN played, NEW n \in DOMAIN played,
                      NormPts(Unit(played[m])) >= m_seekTarget,
                      NormPts(Unit(played[n])) >= m_seekTarget
               PROVE  played[m].time - played[n].time
                        = Unit(played[m]).pts - Unit(played[n]).pts
    BY DEF InStep
  <2> DEFINE d == Unit(played[m])
             e == Unit(played[n])
  <2>1. NormPts(d) = d.pts - m_firstPts /\ NormPts(e) = e.pts - m_firstPts
    BY DEF NormPts
  <2>2. Offset(played[m]) /\ Offset(played[n])
    BY <1>1 DEF Timeline, OneOffset
  <2>3. /\ played[m].time = d.pts - m_firstPts - m_seekTarget - m_segmentTimeOffset
        /\ played[n].time = e.pts - m_firstPts - m_seekTarget - m_segmentTimeOffset
    BY <2>1, <2>2 DEF Offset
  <2>4. d.pts \in Int /\ e.pts \in Int
    <3>0. played \in Seq(Entry)
      BY <1>1 DEF Inv, TypeOK, Entry
    <3>1. played[m] \in Entry /\ played[n] \in Entry
      BY <3>0
    <3> QED
      BY <3>1, FileFacts DEF Entry, Unit
  <2>5. m_firstPts \in Int /\ m_seekTarget \in Int /\ m_segmentTimeOffset \in Int
    BY <1>1 DEF Inv, TypeOK
  <2> HIDE DEF d, e
  <2>6. played[m].time - played[n].time = d.pts - e.pts
    BY <2>3, <2>4, <2>5
  <2> QED
    BY <2>6 DEF d, e
<1> QED
  BY <1>1, TimelineHolds, PTL

-----------------------------------------------------------------------------
(***************************************************************************)
(* What the decoder gets.  The units handed on, as a sequence p: the       *)
(* video among them, the first and the last of it, and what may be missing *)
(* between one and the next.                                               *)
(***************************************************************************)
Videos(p) == {n \in DOMAIN p : File[p[n].unit].kind = "video"}
FirstVideo(p, f) == f \in Videos(p) /\ \A m \in Videos(p) : f <= m
LastVideo(p, l) == l \in Videos(p) /\ \A m \in Videos(p) : m <= l

\* A picture that is shown before the first that was handed on.
Leading(p, k) == \A f \in DOMAIN p : FirstVideo(p, f) => File[k].pts < File[p[f].unit].pts
OnlyLeading(p, a, b) ==
    \A k \in DOMAIN File : a <= k /\ k <= b /\ File[k].kind = "video" => Leading(p, k)

Follows(p, m, n) == m \in Videos(p) /\ m < n /\ \A j \in Videos(p) : ~(m < j /\ j < n)

Decodable(p, n) ==
    /\ FirstVideo(p, n) => File[p[n].unit].key
    /\ \A m \in DOMAIN p : Follows(p, m, n) =>
          IF p[m].segment # p[n].segment THEN File[p[n].unit].key
          ELSE OnlyLeading(p, p[m].unit + 1, p[n].unit - 1)

LEMMA VideoAppended ==
    ASSUME NEW p \in Seq(Entry), NEW e \in Entry, File[e.unit].kind = "video",
           \A n \in Videos(p) : Decodable(p, n),
           Videos(p) = {} => File[e.unit].key,
           \A l \in DOMAIN p : LastVideo(p, l) =>
              IF p[l].segment # e.segment THEN File[e.unit].key
              ELSE OnlyLeading(p, p[l].unit + 1, e.unit - 1)
    PROVE  LET q == Append(p, e)
               N == Len(p) + 1
           IN  /\ DOMAIN q = DOMAIN p \cup {N} /\ N \notin DOMAIN p /\ q[N] = e
               /\ \A n \in DOMAIN p : q[n] = p[n]
               /\ Videos(q) = Videos(p) \cup {N}
               /\ \A l : LastVideo(q, l) => l = N
               /\ Videos(p) # {} => \A f : FirstVideo(q, f) <=> FirstVideo(p, f)
               /\ Videos(p) = {} => \A f : FirstVideo(q, f) => f = N
               /\ \A n \in Videos(q) : Decodable(q, n)
<1> DEFINE q == Append(p, e)
           N == Len(p) + 1
<1>1. /\ DOMAIN q = 1 .. N /\ DOMAIN p = 1 .. Len(p) /\ Len(p) \in Nat /\ q[N] = e
      /\ \A n \in DOMAIN p : q[n] = p[n]
  BY AppendShape
<1> HIDE DEF q
<1>2. /\ DOMAIN q = DOMAIN p \cup {N} /\ N \notin DOMAIN p /\ N \in DOMAIN q /\ N \in Nat
      /\ \A n \in DOMAIN p : n \in Nat /\ n < N
  BY <1>1
<1> HIDE DEF N
<1>3. Videos(q) = Videos(p) \cup {N} /\ Videos(p) \subseteq DOMAIN p
  BY <1>1, <1>2 DEF Videos
<1>4. \A l : LastVideo(q, l) => l = N
  <2> SUFFICES ASSUME NEW l, LastVideo(q, l) PROVE l = N
    OBVIOUS
  <2>1. l \in Videos(q) /\ N <= l
    BY <1>3 DEF LastVideo
  <2> QED
    BY <1>2, <1>3, <2>1
<1>5. Videos(p) = {} => \A f : FirstVideo(q, f) => f = N
  BY <1>3 DEF FirstVideo
<1>6. ASSUME Videos(p) # {} PROVE \A f : FirstVideo(q, f) <=> FirstVideo(p, f)
  <2>1. PICK v \in Videos(p) : TRUE
    BY <1>6
  <2>2. v \in Nat /\ v < N
    BY <1>2, <1>3, <2>1
  <2>3. ~(N <= v)
    BY <1>2, <2>2
  <2>4. \A f : FirstVideo(q, f) => f \in Videos(p)
    BY <1>3, <2>1, <2>3 DEF FirstVideo
  <2>5. \A f \in Videos(p) : f <= N
    BY <1>2, <1>3
  <2> QED
    BY <1>3, <2>4, <2>5 DEF FirstVideo
<1>7. \A a, b : Videos(p) # {} /\ OnlyLeading(p, a, b) => OnlyLeading(q, a, b)
  <2> SUFFICES ASSUME NEW k \in DOMAIN File, Videos(p) # {}, Leading(p, k) PROVE Leading(q, k)
    BY DEF OnlyLeading
  <2>1. \A f : FirstVideo(q, f) => f \in DOMAIN p /\ FirstVideo(p, f) /\ q[f] = p[f]
    BY <1>1, <1>3, <1>6 DEF FirstVideo
  <2> QED
    BY <2>1 DEF Leading
<1>8. ASSUME NEW n \in Videos(q) PROVE Decodable(q, n)
  <2>1. CASE n \in Videos(p)
    <3>1. Decodable(p, n) /\ n \in DOMAIN p /\ q[n] = p[n] /\ n < N /\ n \in Nat
      BY <1>1, <1>2, <1>3, <2>1
    <3>2. FirstVideo(q, n) => File[q[n].unit].key
      BY <1>6, <2>1, <3>1 DEF Decodable
    <3>3. ASSUME NEW m \in DOMAIN q, Follows(q, m, n)
          PROVE  IF q[m].segment # q[n].segment THEN File[q[n].unit].key
                 ELSE OnlyLeading(q, q[m].unit + 1, q[n].unit - 1)
      <4>1. m \in Videos(q) /\ m < n /\ \A j \in Videos(p) : ~(m < j /\ j < n)
        BY <1>3, <3>3 DEF Follows
      <4>2. m # N
        BY <1>2, <3>1, <4>1
      <4>3. m \in Videos(p) /\ m \in DOMAIN p /\ q[m] = p[m]
        BY <1>1, <1>3, <4>1, <4>2
      <4>4. Follows(p, m, n)
        BY <4>1, <4>3 DEF Follows
      <4> QED
        BY <1>7, <2>1, <3>1, <4>3, <4>4 DEF Decodable
    <3> QED
      BY <3>2, <3>3 DEF Decodable
  <2>2. CASE n = N
    <3>1. FirstVideo(q, N) => File[q[N].unit].key
      <4>1. ASSUME FirstVideo(q, N), Videos(p) # {} PROVE FALSE
        BY <1>2, <1>3, <1>6, <4>1 DEF FirstVideo
      <4> QED
        BY <1>1, <4>1
    <3>2. ASSUME NEW m \in DOMAIN q, Follows(q, m, N)
          PROVE  IF q[m].segment # q[N].segment THEN File[q[N].unit].key
                 ELSE OnlyLeading(q, q[m].unit + 1, q[N].unit - 1)
      <4>1. m \in Videos(q) /\ m < N /\ \A j \in Videos(p) : ~(m < j /\ j < N)
        BY <1>3, <3>2 DEF Follows
      <4>2. m \in Videos(p) /\ m \in DOMAIN p /\ q[m] = p[m] /\ m \in Nat
        BY <1>1, <1>2, <1>3, <4>1
      <4>3. \A j \in Videos(p) : j <= m
        BY <1>2, <1>3, <4>1, <4>2
      <4>4. LastVideo(p, m)
        BY <4>2, <4>3 DEF LastVideo
      <4> QED
        BY <1>1, <1>7, <4>2, <4>4
    <3> QED
      BY <2>2, <3>1, <3>2 DEF Decodable
  <2> QED
    BY <1>3, <2>1, <2>2
<1> QED
  BY <1>1, <1>2, <1>3, <1>4, <1>5, <1>6, <1>8 DEF q, N

LEMMA AudioAppended ==
    ASSUME NEW p \in Seq(Entry), NEW e \in Entry, File[e.unit].kind # "video"
    PROVE  LET q == Append(p, e)
           IN  /\ Videos(q) = Videos(p) /\ \A n \in Videos(p) : n \in DOMAIN p /\ q[n] = p[n]
               /\ \A n : Decodable(p, n) /\ n \in Videos(p) => Decodable(q, n)
               /\ \A a, b : OnlyLeading(p, a, b) => OnlyLeading(q, a, b)
               /\ \A l : LastVideo(q, l) <=> LastVideo(p, l)
               /\ \A f : FirstVideo(q, f) <=> FirstVideo(p, f)
<1> DEFINE q == Append(p, e)
           N == Len(p) + 1
<1>1. /\ DOMAIN q = 1 .. N /\ DOMAIN p = 1 .. Len(p) /\ Len(p) \in Nat /\ q[N] = e
      /\ \A n \in DOMAIN p : q[n] = p[n]
  BY AppendShape
<1> HIDE DEF q
<1>2. DOMAIN q = DOMAIN p \cup {N} /\ N \notin DOMAIN p
  BY <1>1
<1> HIDE DEF N
<1>3. Videos(q) = Videos(p) /\ Videos(p) \subseteq DOMAIN p
  BY <1>1, <1>2 DEF Videos
<1>4. \A f : (FirstVideo(q, f) <=> FirstVideo(p, f)) /\ (LastVideo(q, f) <=> LastVideo(p, f))
  BY <1>3 DEF FirstVideo, LastVideo
<1>5. \A k : Leading(p, k) => Leading(q, k)
  BY <1>1, <1>3, <1>4 DEF Leading, FirstVideo
<1>6. \A a, b : OnlyLeading(p, a, b) => OnlyLeading(q, a, b)
  BY <1>5 DEF OnlyLeading
<1>7. \A m, n : Follows(q, m, n) => Follows(p, m, n)
  BY <1>3 DEF Follows
<1>8. ASSUME NEW n \in Videos(p), Decodable(p, n) PROVE Decodable(q, n)
  <2>1. q[n] = p[n]
    BY <1>1, <1>3
  <2>2. \A m : Follows(q, m, n) => m \in DOMAIN p /\ q[m] = p[m] /\ Follows(p, m, n)
    BY <1>1, <1>3, <1>7 DEF Follows
  <2> QED
    BY <1>4, <1>6, <1>8, <2>1, <2>2 DEF Decodable
<1> QED
  BY <1>1, <1>3, <1>4, <1>6, <1>8 DEF q

(***************************************************************************)
(* Where the decoder stands: the segments come in order; when a jump is    *)
(* due, the rest of the file is past the segment; while pin and filter     *)
(* wait, nothing of the segment has been handed on; otherwise what was     *)
(* read since the last picture is cut by the offset, which is the time of  *)
(* the first picture of the run.                                           *)
(***************************************************************************)
InOrder ==
    /\ \A n \in DOMAIN played : played[n].segment \in 1 .. m_curSegment
    /\ \A m, n \in DOMAIN played : m <= n => played[m].segment <= played[n].segment
    /\ loop = "setup" => m_pendingSegmentJump = "none"

JumpDue ==
    m_pendingSegmentJump # "none" =>
        \A k \in DOMAIN File : next <= k /\ File[k].kind = "video" => PastSegment(File[k])

NoneOfSegment == \A n \in Videos(played) : played[n].segment # m_curSegment

Reading ==
    loop \in {"read", "batch"} /\ m_active /\ m_pendingSegmentJump = "none" /\ ~m_waitForVideoRap =>
        /\ \A l \in DOMAIN played :
              LastVideo(played, l) /\ played[l].segment = m_curSegment =>
                  OnlyLeading(played, played[l].unit + 1, next - 1)
        /\ NoneOfSegment => \A k \in DOMAIN File : k < next => File[k].kind # "video"

OffsetOfFirst ==
    m_segmentTimeOffset > 0 =>
        /\ ~IsMultiSegment /\ Videos(played) # {}
        /\ \A f \in DOMAIN played : FirstVideo(played, f) =>
              File[played[f].unit].pts - m_firstPts - m_seekTarget = m_segmentTimeOffset

Decoding ==
    /\ \A n \in Videos(played) : Decodable(played, n)
    /\ InOrder /\ JumpDue /\ Reading /\ OffsetOfFirst
    /\ m_waitForVideoRap => NoneOfSegment

LEMMA DecodingBegins == Init => Decoding
BY DEF Init, Decoding, InOrder, JumpDue, Reading, OffsetOfFirst, NoneOfSegment, Videos

\* A run that begins elsewhere than at the start of the file waits for an access point.
LEMMA SourceFound ==
    ASSUME Opened, IsMultiSegment, NEW pos \in Nat
    PROVE  LET at == SegmentAtProgram(m_editSegments, pos)
               base == SegmentBase(m_editSegments, at.segment)
           IN  /\ at.source \in Nat /\ at.segment \in 1 .. Len(m_editSegments)
               /\ base <= pos
               /\ at.source - m_editSegments[at.segment].start <= pos - base
<1> DEFINE segs == m_editSegments
           last == Len(segs)
           S == {last} \cup {k \in 1 .. last : pos < SegmentBase(segs, k + 1)}
           i == Min(S)
<1>1. S \subseteq Nat /\ S # {} /\ S \subseteq 1 .. last /\ segs \in Seq(Seg) /\ last \in Nat
  BY DEF Opened, IsMultiSegment
<1>2. i \in S /\ \A y \in S : i <= y
  <2> HIDE DEF S
  <2> QED
    BY <1>1, MinIsLeast
<1>3. i \in 1 .. last /\ i \in 1 .. last + 1
  <2> HIDE DEF i, S
  <2> QED
    BY <1>1, <1>2
<1>4. /\ SegmentAtProgram(segs, pos).source
            = segs[i].start + Min({pos - SegmentBase(segs, i), Length(segs[i])})
      /\ SegmentAtProgram(segs, pos).segment = i
  BY DEF SegmentAtProgram
<1>5. SegmentBase(segs, i) \in Nat
  BY <1>1, <1>3, SegmentBaseNat DEF Opened
<1>6. SegmentBase(segs, i) <= pos
  <2>1. CASE i = 1
    BY <1>1, <2>1, SegmentBaseSteps
  <2>2. CASE i # 1
    <3> HIDE DEF i, last
    <3>1. i - 1 \in 1 .. last /\ (i - 1) + 1 = i /\ ~(i <= i - 1)
      BY <1>1, <1>3, <2>2
    <3>2. i - 1 \notin S
      BY <1>2, <3>1
    <3>3. ~(pos < SegmentBase(segs, i))
      BY <3>1, <3>2
    <3> QED
      BY <1>5, <3>3
  <2> QED
    BY <2>1, <2>2
<1> HIDE DEF i, S
<1>7. segs[i] \in Seg /\ segs[i].start < segs[i].end
  BY <1>1, <1>3 DEF Opened, WithinSource
<1>8. segs[i].start \in Nat /\ Length(segs[i]) \in Nat
  BY <1>7 DEF Seg, Length
<1>9. /\ Min({pos - SegmentBase(segs, i), Length(segs[i])}) \in Nat
      /\ Min({pos - SegmentBase(segs, i), Length(segs[i])}) <= pos - SegmentBase(segs, i)
  BY <1>5, <1>6, <1>8, MinOfTwo
<1> QED
  BY <1>3, <1>4, <1>5, <1>6, <1>8, <1>9

LEMMA DecodingSetUp == Inv /\ Decoding /\ SetUp => Decoding'
<1> SUFFICES ASSUME Inv, Decoding, SetUp PROVE Decoding'
  OBVIOUS
<1> DEFINE at == SegmentAtProgram(m_editSegments, m_seekTarget)
           source == IF IsMultiSegment THEN at.source ELSE m_seekTarget + m_virtualStart
<1>0. TypeOK /\ Opened /\ Begins
  BY DEF Inv
<1>1. /\ loop = "setup" /\ loop' = "read" /\ played' = played
      /\ m_pendingSegmentJump' = "none" \/ m_pendingSegmentJump' = m_pendingSegmentJump
      /\ m_waitForVideoRap' = (source > 0) /\ m_segmentTimeOffset' = 0
      /\ next' \in Landing(source)
  BY DEF SetUp
<1>2. played' = <<>>
  BY <1>0, <1>1 DEF Begins
<1>3. Videos(played') = {} /\ DOMAIN played' = {}
  BY <1>2 DEF Videos
<1>4. m_pendingSegmentJump' = "none"
  BY <1>1 DEF Decoding, InOrder
<1>5. source \in Nat
  <2>1. m_seekTarget \in Nat /\ m_virtualStart \in Nat
    BY <1>0 DEF TypeOK
  <2> QED
    BY <1>0, <2>1, SourceFound
<1> HIDE DEF source, at
<1>6. ~m_waitForVideoRap' => next' = 1
  <2> SUFFICES ASSUME ~m_waitForVideoRap' PROVE next' = 1
    OBVIOUS
  <2>1. source = 0
    <3>1. ~(source > 0)
      BY <1>1, Zenon
    <3> QED
      BY <1>5, <3>1
  <2> QED
    BY <1>1, <2>1 DEF Landing
<1>7. Reading'
  BY <1>3, <1>6, FileFacts DEF Reading
<1> QED
  BY <1>1, <1>3, <1>4, <1>7 DEF Decoding, InOrder, JumpDue, OffsetOfFirst, NoneOfSegment

LEMMA DecodingJump == Inv /\ Decoding /\ JumpToSegment => Decoding'
<1> SUFFICES ASSUME Inv, Decoding, JumpToSegment PROVE Decoding'
  OBVIOUS
<1>0. TypeOK /\ Opened /\ Placed
  BY DEF Inv
<1>1. /\ loop' = "read" /\ m_pendingSegmentJump' = "none" /\ m_curSegment' = m_curSegment + 1
      /\ m_waitForVideoRap' = TRUE /\ m_segmentTimeOffset' = m_segmentTimeOffset
      /\ UNCHANGED loaded /\ played' = played
  BY DEF JumpToSegment, LoopOnly
<1>2. IsMultiSegment /\ m_curSegment \in Nat
  <2>1. m_curSegment < Len(m_editSegments)
    BY <1>0 DEF JumpToSegment, TypeOK
  <2> QED
    BY <1>0, <2>1, SegmentFacts DEF IsMultiSegment
<1>3. \A n \in DOMAIN played : /\ played[n].segment \in Nat
                              /\ played[n].segment <= m_curSegment
  <2>1. played \in Seq(Entry)
    BY <1>0 DEF TypeOK, Entry
  <2>2. \A n \in DOMAIN played : played[n] \in Entry
    BY <2>1
  <2> QED
    BY <2>2 DEF Decoding, InOrder, Entry
<1>4. InOrder'
  BY <1>1, <1>2, <1>3 DEF Decoding, InOrder
<1>5. NoneOfSegment'
  BY <1>1, <1>2, <1>3 DEF NoneOfSegment, Videos
<1>6. ~(m_segmentTimeOffset' > 0)
  BY <1>0, <1>1, <1>2 DEF Placed
<1> QED
  BY <1>1, <1>4, <1>5, <1>6 DEF Decoding, JumpDue, Reading, OffsetOfFirst

LEMMA DecodingIdle ==
    ASSUME Decoding, UNCHANGED <<loaded, segmentVars, rapVars, played>>, JumpDue',
           loop' = "setup" => loop = "setup" /\ m_pendingSegmentJump' = m_pendingSegmentJump,
           \/ loop' = "done" \/ ~m_active' \/ m_pendingSegmentJump' # "none"
           \/ /\ loop' \in {"read", "batch"} => loop \in {"read", "batch"}
              /\ UNCHANGED <<m_active, m_pendingSegmentJump, next>>
    PROVE  Decoding'
<1>1. /\ played' = played /\ m_curSegment' = m_curSegment
      /\ m_waitForVideoRap' = m_waitForVideoRap /\ m_segmentTimeOffset' = m_segmentTimeOffset
      /\ m_firstPts' = m_firstPts /\ m_seekTarget' = m_seekTarget
      /\ IsMultiSegment' = IsMultiSegment
  BY DEF segmentVars, rapVars, loaded, IsMultiSegment
<1>2. NoneOfSegment' = NoneOfSegment
  BY <1>1 DEF NoneOfSegment
<1>3. Reading'
  BY <1>1, <1>2 DEF Decoding, Reading
<1>4. InOrder' /\ OffsetOfFirst'
  BY <1>1 DEF Decoding, InOrder, OffsetOfFirst
<1> QED
  BY <1>1, <1>2, <1>3, <1>4 DEF Decoding

LEMMA PastStays ==
    ASSUME UNCHANGED <<loaded, segmentVars>>
    PROVE  \A k : PastSegment(File[k])' <=> PastSegment(File[k])
BY DEF loaded, segmentVars, PastSegment, IsMultiSegment, Segment, m_origFirstPts, Stamps

LEMMA JumpDueStays ==
    ASSUME JumpDue, UNCHANGED <<loaded, segmentVars>>, next \in Nat,
           next' = next \/ next' = next + 1,
           m_pendingSegmentJump' = "none" \/ m_pendingSegmentJump' = m_pendingSegmentJump
    PROVE  JumpDue'
<1> SUFFICES ASSUME m_pendingSegmentJump # "none", NEW k \in DOMAIN File, next' <= k,
                    File[k].kind = "video"
             PROVE  PastSegment(File[k])
  BY PastStays DEF JumpDue
<1>1. next <= k
  BY FileFacts
<1> QED
  BY <1>1 DEF JumpDue

LEMMA DecodingRest ==
    ASSUME Inv, Decoding,
           \/ Read \/ Finish \/ BatchEnds \/ EditEnds \/ Done
           \/ VideoPastSegment \/ VideoPastStop \/ UNCHANGED vars
    PROVE  Decoding'
<1>0. TypeOK /\ next \in Nat
  BY DEF Inv, TypeOK
<1>1. JumpDue
  BY DEF Decoding
<1>2. CASE Read \/ Finish \/ BatchEnds \/ EditEnds
  <2>1. /\ UNCHANGED <<loaded, segmentVars, rapVars, played>> /\ next' = next
        /\ m_pendingSegmentJump' = "none" \/ m_pendingSegmentJump' = m_pendingSegmentJump
        /\ loop' # "setup"
        /\ \/ loop' = "done"
           \/ loop \in {"read", "batch"} /\ UNCHANGED <<m_active, m_pendingSegmentJump, next>>
    BY <1>2 DEF Read, Finish, BatchEnds, EditEnds, LoopOnly
  <2>2. JumpDue'
    BY <1>0, <1>1, <2>1, JumpDueStays
  <2> QED
    BY <2>1, <2>2, DecodingIdle
<1>3. CASE Done \/ UNCHANGED vars
  <2>1. /\ UNCHANGED <<loaded, segmentVars, rapVars, played>> /\ next' = next /\ loop' = loop
        /\ UNCHANGED <<m_active, m_pendingSegmentJump, next>>
    BY <1>3 DEF Done, vars
  <2>2. JumpDue'
    BY <1>0, <1>1, <2>1, JumpDueStays
  <2> QED
    BY <2>1, <2>2, DecodingIdle
<1>4. CASE VideoPastStop
  <2>1. /\ UNCHANGED <<loaded, segmentVars, rapVars, played>> /\ next' = next + 1
        /\ m_pendingSegmentJump' = m_pendingSegmentJump /\ ~m_active' /\ loop' = loop
        /\ loop = "batch"
    BY <1>4 DEF VideoPastStop, Demux
  <2>2. JumpDue'
    BY <1>0, <1>1, <2>1, JumpDueStays
  <2> QED
    BY <2>1, <2>2, DecodingIdle
<1>5. CASE VideoPastSegment
  <2>1. /\ UNCHANGED <<loaded, segmentVars, rapVars, played>> /\ next' = next + 1
        /\ m_pendingSegmentJump' # "none" /\ loop' = loop /\ loop = "batch"
        /\ next \in DOMAIN File /\ File[next].kind = "video" /\ PastSegment(File[next])
    BY <1>0, <1>5, FileFacts DEF VideoPastSegment, Demux, TypeOK
  <2>2. JumpDue'
    <3> SUFFICES ASSUME NEW k \in DOMAIN File, next + 1 <= k, File[k].kind = "video"
                 PROVE  PastSegment(File[k])
      BY <2>1, PastStays DEF JumpDue
    <3>1. File[next].dts < File[k].dts
      <4>1. next < k
        BY <1>0, FileFacts
      <4> QED
        BY <2>1, <4>1, FileAssumption
    <3>2. /\ IsMultiSegment /\ File[next].dts - m_origFirstPts >= Segment.end
          /\ Segment.end \in Nat
      BY <2>1, SegmentFacts DEF PastSegment, Inv
    <3>3. File[next].dts \in Nat /\ File[k].dts \in Nat /\ m_origFirstPts \in Nat
      BY <2>1, FileFacts, StampFacts
    <3>4. File[k].dts - m_origFirstPts >= Segment.end
      BY <3>1, <3>2, <3>3
    <3> QED
      BY <3>2, <3>4 DEF PastSegment
  <2> QED
    BY <2>1, <2>2, DecodingIdle
<1> QED
  BY <1>2, <1>3, <1>4, <1>5

LEMMA InOrderGrows ==
    ASSUME TypeOK, Opened, InOrder, NEW e \in Entry, e.segment = m_curSegment,
           played' = Append(played, e), m_curSegment' = m_curSegment,
           loop' = "batch"
    PROVE  InOrder'
<1>1. /\ Len(played) \in Nat /\ DOMAIN played = 1 .. Len(played)
      /\ DOMAIN played' = 1 .. Len(played) + 1
      /\ \A n \in 1 .. Len(played) : played'[n] = played[n]
      /\ played'[Len(played) + 1] = e
      /\ \A n \in DOMAIN played' : n \in DOMAIN played \/ n = Len(played) + 1
  BY PlayedGrows
<1>2. m_curSegment \in Nat /\ m_curSegment >= 1
  BY SegmentFacts
<1>3. \A n \in DOMAIN played' : played'[n].segment \in 1 .. m_curSegment
  BY <1>1, <1>2 DEF InOrder
<1>4. ASSUME NEW m \in DOMAIN played', NEW n \in DOMAIN played', m <= n
      PROVE  played'[m].segment <= played'[n].segment
  <2>1. CASE n \in DOMAIN played
    <3>1. m \in DOMAIN played
      BY <1>1, <1>4, <2>1
    <3> QED
      BY <1>1, <1>4, <2>1, <3>1 DEF InOrder
  <2>2. CASE n = Len(played) + 1
    BY <1>1, <1>3, <1>4, <2>2
  <2> QED
    BY <1>1, <2>1, <2>2
<1> QED
  BY <1>3, <1>4 DEF InOrder

LEMMA DecodingAudio == Inv /\ Decoding /\ AudioSample => Decoding'
<1> SUFFICES ASSUME Inv, Decoding, AudioSample PROVE Decoding'
  OBVIOUS
<1> DEFINE e == Handed(ToSegmentTime(NormPts(File[next])), FALSE, m_segmentTimeOffset)
<1>0. TypeOK /\ Opened /\ next \in Nat /\ played \in Seq(Entry)
  BY DEF Inv, TypeOK, Entry
<1>1. /\ loop = "batch" /\ loop' = loop /\ next' = next + 1 /\ File[next].kind = "audio"
      /\ UNCHANGED <<loaded, segmentVars, m_pendingSegmentJump, m_active>>
  BY DEF AudioSample, Demux
<1>2. /\ next \in DOMAIN File /\ UNCHANGED rapVars
      /\ played' = played \/ (played' = Append(played, e) /\ e \in Entry)
  BY AudioSampleSteps
<1>3. /\ m_curSegment' = m_curSegment /\ m_waitForVideoRap' = m_waitForVideoRap
      /\ m_segmentTimeOffset' = m_segmentTimeOffset
      /\ m_firstPts' = m_firstPts /\ m_seekTarget' = m_seekTarget
      /\ IsMultiSegment' = IsMultiSegment
  BY <1>1, <1>2 DEF segmentVars, rapVars, loaded, IsMultiSegment
<1>4. e.unit = next /\ e.segment = m_curSegment
  BY DEF Handed
<1> HIDE DEF e
\* The video handed on is as before.
<1>5. /\ Videos(played') = Videos(played)
      /\ \A n \in Videos(played) : n \in DOMAIN played /\ played'[n] = played[n]
      /\ \A n \in Videos(played) : Decodable(played, n) => Decodable(played', n)
      /\ \A a, b : OnlyLeading(played, a, b) => OnlyLeading(played', a, b)
      /\ \A l : LastVideo(played', l) <=> LastVideo(played, l)
      /\ \A f : FirstVideo(played', f) <=> FirstVideo(played, f)
  <2>1. CASE played' = played
    BY <2>1 DEF Videos
  <2>2. CASE played' = Append(played, e) /\ e \in Entry
    <3>1. File[e.unit].kind # "video"
      BY <1>1, <1>4
    <3> QED
      BY <1>0, <2>2, <3>1, AudioAppended
  <2> QED
    BY <1>2, <2>1, <2>2
<1>6. \A l : LastVideo(played, l) \/ FirstVideo(played, l) => l \in Videos(played)
  BY DEF LastVideo, FirstVideo
<1>7. InOrder'
  <2>1. CASE played' = played
    BY <1>1, <1>3, <2>1 DEF Decoding, InOrder
  <2>2. CASE played' = Append(played, e) /\ e \in Entry
    BY <1>0, <1>1, <1>3, <1>4, <2>2, InOrderGrows DEF Decoding
  <2> QED
    BY <1>2, <2>1, <2>2
<1>8. JumpDue'
  BY <1>0, <1>1, JumpDueStays DEF Decoding
<1>9. NoneOfSegment' <=> NoneOfSegment
  BY <1>3, <1>5 DEF NoneOfSegment
<1>10. Reading'
  <2> SUFFICES ASSUME m_active, m_pendingSegmentJump = "none", ~m_waitForVideoRap
               PROVE  /\ \A l \in DOMAIN played' :
                            LastVideo(played', l) /\ played'[l].segment = m_curSegment =>
                                OnlyLeading(played', played'[l].unit + 1, next)
                      /\ NoneOfSegment => \A k \in DOMAIN File : k < next + 1 => File[k].kind # "video"
    <3>1. next' - 1 = next
      BY <1>0, <1>1
    <3> QED
      BY <1>1, <1>3, <1>9, <3>1 DEF Reading
  <2>1. /\ \A l \in DOMAIN played :
              LastVideo(played, l) /\ played[l].segment = m_curSegment =>
                  OnlyLeading(played, played[l].unit + 1, next - 1)
        /\ NoneOfSegment => \A k \in DOMAIN File : k < next => File[k].kind # "video"
    BY <1>1 DEF Decoding, Reading
  <2>2. \A k \in DOMAIN File : File[k].kind = "video" /\ k <= next => k <= next - 1 /\ k < next
    BY <1>0, <1>1, FileFacts
  <2>3. \A a : OnlyLeading(played, a, next - 1) => OnlyLeading(played, a, next)
    BY <2>2 DEF OnlyLeading
  <2>4. ASSUME NEW l \in DOMAIN played', LastVideo(played', l), played'[l].segment = m_curSegment
        PROVE  OnlyLeading(played', played'[l].unit + 1, next)
    BY <1>5, <1>6, <2>1, <2>3, <2>4
  <2>5. \A k \in DOMAIN File : k < next + 1 => k <= next
    BY <1>0, FileFacts
  <2>6. NoneOfSegment => \A k \in DOMAIN File : k < next + 1 => File[k].kind # "video"
    BY <2>1, <2>2, <2>5
  <2> QED
    BY <2>4, <2>6
<1>11. OffsetOfFirst'
  BY <1>3, <1>5, <1>6 DEF Decoding, OffsetOfFirst
<1> QED
  BY <1>3, <1>5, <1>7, <1>8, <1>9, <1>10, <1>11 DEF Decoding

LEMMA DecodingGrows ==
    ASSUME Inv, Decoding, NEW e \in Entry, played' = Append(played, e),
           next \in DOMAIN File, e.unit = next, e.segment = m_curSegment,
           File[next].kind = "video",
           Videos(played) = {} => File[next].key,
           \A l \in DOMAIN played : LastVideo(played, l) =>
              IF played[l].segment # m_curSegment THEN File[next].key
              ELSE OnlyLeading(played, played[l].unit + 1, next - 1),
           UNCHANGED <<loaded, segmentVars>>, loop' = "batch", next' = next + 1, JumpDue',
           ~m_waitForVideoRap',
           \/ ~(m_segmentTimeOffset' > 0)
           \/ Videos(played) # {} /\ m_segmentTimeOffset' = m_segmentTimeOffset
           \/ /\ Videos(played) = {} /\ ~IsMultiSegment
              /\ File[next].pts - m_firstPts - m_seekTarget = m_segmentTimeOffset'
    PROVE  Decoding'
<1> DEFINE q == Append(played, e)
           N == Len(played) + 1
<1>0. TypeOK /\ Opened /\ played \in Seq(Entry) /\ next \in Nat
  BY DEF Inv, TypeOK, Entry
<1>1. /\ DOMAIN q = DOMAIN played \cup {N} /\ N \notin DOMAIN played /\ q[N] = e
      /\ \A n \in DOMAIN played : q[n] = played[n]
      /\ Videos(q) = Videos(played) \cup {N}
      /\ \A l : LastVideo(q, l) => l = N
      /\ Videos(played) # {} => \A f : FirstVideo(q, f) <=> FirstVideo(played, f)
      /\ Videos(played) = {} => \A f : FirstVideo(q, f) => f = N
      /\ \A n \in Videos(q) : Decodable(q, n)
  BY <1>0, VideoAppended DEF Decoding
<1> HIDE DEF q, N
<1>2. played' = q
  BY DEF q
<1>3. /\ m_curSegment' = m_curSegment /\ m_firstPts' = m_firstPts
      /\ m_seekTarget' = m_seekTarget /\ IsMultiSegment' = IsMultiSegment
  BY DEF segmentVars, loaded, IsMultiSegment
<1>4. InOrder'
  BY <1>0, <1>3, InOrderGrows DEF Decoding
<1>5. Reading'
  <2>1. ~NoneOfSegment'
    BY <1>1, <1>2, <1>3 DEF NoneOfSegment
  <2>2. \A k \in DOMAIN File : ~(next + 1 <= k /\ k <= next' - 1)
    BY <1>0, FileFacts
  <2>3. \A l \in DOMAIN q : LastVideo(q, l) => OnlyLeading(q, q[l].unit + 1, next' - 1)
    BY <1>1, <2>2 DEF OnlyLeading
  <2> QED
    BY <1>2, <2>1, <2>3 DEF Reading
<1>6. OffsetOfFirst'
  <2>1. CASE ~(m_segmentTimeOffset' > 0)
    BY <2>1 DEF OffsetOfFirst
  <2>2. CASE m_segmentTimeOffset' > 0 /\ Videos(played) # {}
             /\ m_segmentTimeOffset' = m_segmentTimeOffset
    <3>1. /\ ~IsMultiSegment /\ Videos(played) # {}
          /\ \A f \in DOMAIN played : FirstVideo(played, f) =>
                File[played[f].unit].pts - m_firstPts - m_seekTarget = m_segmentTimeOffset
      BY <2>2 DEF Decoding, OffsetOfFirst
    <3>2. \A f : FirstVideo(played, f) => f \in DOMAIN played
      BY DEF FirstVideo, Videos
    <3>3. Videos(q) # {}
      BY <1>1
    <3> QED
      BY <1>1, <1>2, <1>3, <2>2, <3>1, <3>2, <3>3 DEF OffsetOfFirst
  <2>3. CASE /\ Videos(played) = {} /\ ~IsMultiSegment
             /\ File[next].pts - m_firstPts - m_seekTarget = m_segmentTimeOffset'
    BY <1>1, <1>2, <1>3, <2>3 DEF OffsetOfFirst
  <2> QED
    BY <2>1, <2>2, <2>3
<1> QED
  BY <1>1, <1>2, <1>4, <1>5, <1>6 DEF Decoding

LEMMA DecodingVideo == BeginsAtRap /\ Inv /\ Timeline /\ Decoding /\ VideoSample => Decoding'
<1> SUFFICES ASSUME BeginsAtRap, Inv, Timeline, Decoding, VideoSample PROVE Decoding'
  OBVIOUS
<1> DEFINE u == File[next]
           time == ToSegmentTime(NormPts(u))
           offset == m_segmentTimeOffset'
           e == Handed(time, Preroll(u), offset)
<1>0. /\ TypeOK /\ Opened /\ Placed /\ Waits /\ next \in Nat /\ played \in Seq(Entry)
      /\ m_segmentTimeOffset \in Nat /\ m_seekTarget \in Nat
  BY DEF Inv, TypeOK, Entry
<1>1. /\ loop = "batch" /\ loop' = loop /\ next' = next + 1 /\ u.kind = "video"
      /\ UNCHANGED <<loaded, segmentVars, m_pendingSegmentJump, m_active>>
      /\ m_active /\ ~PastSegment(u)
  BY DEF VideoSample, Demux
<1>2. /\ next \in DOMAIN File /\ time \in Int /\ offset \in Nat
      /\ \/ m_waitForVideoRap /\ UNCHANGED <<rapVars, played>>
         \/ /\ m_waitForVideoRap => u.key
            /\ ~m_waitForVideoRap'
            /\ offset = IF m_waitForVideoRap THEN IF IsMultiSegment THEN 0 ELSE Max({time, 0})
                        ELSE m_segmentTimeOffset
            /\ \/ played' = played /\ 0 <= time /\ time < offset
               \/ /\ played' = Append(played, e) /\ ~(0 <= time /\ time < offset)
            /\ e \in Entry
  BY VideoSampleSteps
<1>3. e.unit = next /\ e.segment = m_curSegment
  BY DEF Handed
<1>4. JumpDue'
  BY <1>0, <1>1, JumpDueStays DEF Decoding
<1>5. m_pendingSegmentJump = "none"
  BY <1>0, <1>1, <1>2 DEF Decoding, JumpDue
<1>6. /\ NormPts(u) \in Int
      /\ ~IsMultiSegment => NormPts(u) = u.pts - m_firstPts
      /\ time > 0 => time = NormPts(u) - m_seekTarget
      /\ Max({time, 0}) = IF time >= 0 THEN time ELSE 0
      /\ time >= 0 => NormPts(u) - m_seekTarget <= time
  <2>1. /\ NormPts(u) \in Int
        /\ ~IsMultiSegment => NormPts(u) = u.pts - m_firstPts
    BY <1>0, <1>2, UnitTimes
  <2>2. /\ NormPts(u) >= m_seekTarget => time = NormPts(u) - m_seekTarget
        /\ NormPts(u) < m_seekTarget => time <= 0
    BY <1>0, <2>1, SegmentTimeValue
  <2>3. Max({time, 0}) = IF time >= 0 THEN time ELSE 0
    BY <1>2, MaxOfTwo
  <2> HIDE DEF u, time
  <2> QED
    BY <1>0, <1>2, <2>1, <2>2, <2>3
<1>7. ~IsMultiSegment => m_curSegment = 1
  BY <1>0, SegmentFacts DEF IsMultiSegment
<1> HIDE DEF u, time, offset, e
<1>8. CASE m_waitForVideoRap /\ UNCHANGED <<rapVars, played>>
  <2>1. /\ played' = played /\ m_waitForVideoRap' = m_waitForVideoRap
        /\ m_segmentTimeOffset' = m_segmentTimeOffset
        /\ m_curSegment' = m_curSegment /\ m_firstPts' = m_firstPts
        /\ m_seekTarget' = m_seekTarget /\ IsMultiSegment' = IsMultiSegment
    BY <1>1, <1>8 DEF rapVars, segmentVars, loaded, IsMultiSegment
  <2>2. Reading'
    BY <1>8, <2>1 DEF Reading
  <2>3. InOrder' /\ OffsetOfFirst' /\ (NoneOfSegment' <=> NoneOfSegment)
    BY <1>1, <2>1 DEF Decoding, InOrder, OffsetOfFirst, NoneOfSegment
  <2> QED
    BY <1>4, <2>1, <2>2, <2>3 DEF Decoding
<1>9. ASSUME ~m_waitForVideoRap', played' = Append(played, e), e \in Entry,
             u.key, NoneOfSegment, ~IsMultiSegment => Videos(played) = {},
             IsMultiSegment => offset = 0,
             offset = 0 \/ (Videos(played) = {} /\ offset = time /\ time > 0)
      PROVE  Decoding'
  <2>1. \A l \in DOMAIN played : LastVideo(played, l) => played[l].segment # m_curSegment
    BY <1>9 DEF NoneOfSegment, LastVideo
  <2>2. \/ ~(m_segmentTimeOffset' > 0)
        \/ /\ Videos(played) = {} /\ ~IsMultiSegment
           /\ File[next].pts - m_firstPts - m_seekTarget = m_segmentTimeOffset'
    BY <1>6, <1>9 DEF offset, u
  <2>3. File[next].key /\ File[next].kind = "video"
    BY <1>1, <1>9 DEF u
  <2> QED
    BY <1>1, <1>2, <1>3, <1>4, <1>9, <2>1, <2>2, <2>3, DecodingGrows
<1>10. ASSUME ~m_waitForVideoRap', m_waitForVideoRap, u.key, e \in Entry,
              offset = IF IsMultiSegment THEN 0 ELSE Max({time, 0}),
              \/ played' = played /\ 0 <= time /\ time < offset
              \/ played' = Append(played, e)
       PROVE  Decoding'
  <2>1. played' = Append(played, e)
    BY <1>2, <1>6, <1>10
  <2>2. ~IsMultiSegment => Videos(played) = {}
    BY <1>0, <1>10 DEF Timeline, OneOffset, Waits, Videos
  <2>3. offset = 0 \/ (Videos(played) = {} /\ offset = time /\ time > 0)
    BY <1>2, <1>6, <1>10, <2>2
  <2>4. NoneOfSegment
    BY <1>10 DEF Decoding
  <2> QED
    BY <1>9, <1>10, <2>1, <2>2, <2>3, <2>4
<1>11. ASSUME ~m_waitForVideoRap', ~m_waitForVideoRap, offset = m_segmentTimeOffset, e \in Entry,
              \/ played' = played /\ 0 <= time /\ time < offset
              \/ played' = Append(played, e)
       PROVE  Decoding'
  <2>1. /\ \A l \in DOMAIN played :
              LastVideo(played, l) /\ played[l].segment = m_curSegment =>
                  OnlyLeading(played, played[l].unit + 1, next - 1)
        /\ NoneOfSegment => \A k \in DOMAIN File : k < next => File[k].kind # "video"
    BY <1>1, <1>5, <1>11 DEF Decoding, Reading
  <2>2. \A n \in DOMAIN played : played[n].segment \in 1 .. m_curSegment
    BY DEF Decoding, InOrder
  <2>3. CASE NoneOfSegment
    <3>1. u.key
      BY <1>1, <1>2, <2>1, <2>3 DEF BeginsAtRap, u
    <3>2. ~IsMultiSegment => Videos(played) = {}
      BY <1>7, <2>2, <2>3 DEF NoneOfSegment, Videos
    <3>3. offset = 0
      BY <1>0, <1>11, <3>2 DEF Decoding, OffsetOfFirst
    <3>4. played' = Append(played, e)
      BY <1>2, <1>11, <3>3
    <3> QED
      BY <1>9, <1>11, <2>3, <3>1, <3>2, <3>3, <3>4
  <2>4. CASE ~NoneOfSegment
    <3>1. PICK v \in Videos(played) : played[v].segment = m_curSegment
      BY <2>4 DEF NoneOfSegment
    <3>2. \A l \in DOMAIN played : LastVideo(played, l) => played[l].segment = m_curSegment
      <4> SUFFICES ASSUME NEW l \in DOMAIN played, LastVideo(played, l)
                   PROVE  played[l].segment = m_curSegment
        OBVIOUS
      <4>1. v <= l /\ v \in DOMAIN played
        BY <3>1 DEF LastVideo, Videos
      <4>2. played[v].segment <= played[l].segment
        BY <4>1 DEF Decoding, InOrder
      <4>3. played[l].segment \in 1 .. m_curSegment /\ m_curSegment \in Nat
        BY <1>0, <2>2, SegmentFacts
      <4> QED
        BY <3>1, <4>2, <4>3
    <3>3. CASE played' = Append(played, e)
      <4>1. \A l \in DOMAIN played : LastVideo(played, l) =>
               IF played[l].segment # m_curSegment THEN File[next].key
               ELSE OnlyLeading(played, played[l].unit + 1, next - 1)
        BY <2>1, <3>2
      <4>2. Videos(played) # {} /\ m_segmentTimeOffset' = m_segmentTimeOffset
        BY <1>11, <3>1 DEF offset
      <4> QED
        BY <1>1, <1>2, <1>3, <1>4, <1>11, <3>3, <4>1, <4>2, DecodingGrows DEF u
    <3>4. CASE played' = played /\ 0 <= time /\ time < offset
      <4>1. /\ ~IsMultiSegment
            /\ \A f \in DOMAIN played : FirstVideo(played, f) =>
                  File[played[f].unit].pts - m_firstPts - m_seekTarget = offset
        <5>1. m_segmentTimeOffset > 0
          BY <1>0, <1>2, <1>11, <3>4
        <5> QED
          BY <1>11, <5>1 DEF Decoding, OffsetOfFirst
      <4>2. Leading(played, next)
        <5> SUFFICES ASSUME NEW f \in DOMAIN played, FirstVideo(played, f)
                     PROVE  u.pts < File[played[f].unit].pts
          BY DEF Leading, u
        <5>1. u.pts \in Nat /\ File[played[f].unit].pts \in Nat /\ m_firstPts \in Nat
          <6>1. played[f] \in Entry
            BY <1>0
          <6> QED
            BY <1>0, <1>2, <6>1, FileFacts DEF Entry, TypeOK, u
        <5>2. u.pts - m_firstPts - m_seekTarget < offset
          BY <1>0, <1>2, <1>6, <3>4, <4>1, <5>1
        <5>3. File[played[f].unit].pts - m_firstPts - m_seekTarget = offset
          BY <4>1
        <5> QED
          BY <1>0, <1>2, <5>1, <5>2, <5>3
      <4>3. \A a : OnlyLeading(played, a, next - 1) => OnlyLeading(played, a, next' - 1)
        <5>1. \A k \in DOMAIN File : k <= next' - 1 => k <= next - 1 \/ k = next
          BY <1>0, <1>1, FileFacts
        <5> QED
          BY <4>2, <5>1 DEF OnlyLeading
      <4>4. /\ m_curSegment' = m_curSegment /\ m_segmentTimeOffset' = m_segmentTimeOffset
            /\ m_firstPts' = m_firstPts /\ m_seekTarget' = m_seekTarget
            /\ IsMultiSegment' = IsMultiSegment
        BY <1>1, <1>11 DEF offset, segmentVars, loaded, IsMultiSegment
      <4>5. NoneOfSegment' <=> NoneOfSegment
        BY <3>4, <4>4 DEF NoneOfSegment
      <4>6. Reading'
        BY <2>1, <2>4, <3>4, <4>3, <4>4, <4>5 DEF Reading
      <4>7. InOrder' /\ OffsetOfFirst'
        BY <1>1, <3>4, <4>4 DEF Decoding, InOrder, OffsetOfFirst
      <4> QED
        BY <1>4, <1>11, <3>4, <4>6, <4>7 DEF Decoding
    <3> QED
      BY <1>11, <3>3, <3>4
  <2> QED
    BY <2>3, <2>4
<1> QED
  BY <1>2, <1>8, <1>10, <1>11

LEMMA DecodingStep ==
    ASSUME BeginsAtRap PROVE Inv /\ Timeline /\ Decoding /\ [Next]_vars => Decoding'
BY DecodingSetUp, DecodingJump, DecodingRest, DecodingAudio, DecodingVideo DEF Next

LEMMA DecodingHolds ==
    ASSUME BeginsAtRap PROVE Spec => [](Inv /\ Timeline /\ Decoding)
<1>1. Init => Inv /\ Timeline /\ Decoding
  BY InitHolds, TimelineBegins, DecodingBegins
<1>2. Inv /\ Timeline /\ Decoding /\ [Next]_vars => (Inv /\ Timeline /\ Decoding)'
  BY StepKeeps, TimelineStep, DecodingStep
<1> QED
  BY <1>1, <1>2, PTL DEF Spec

\* What is decodable misses no reference frame.
LEMMA DecodableMissesNothing == TypeOK /\ Decoding => NoMissingReference
<1> SUFFICES ASSUME TypeOK, Decoding, NEW n \in PlayedVideo
             PROVE  LET e == played[n]
                        before == {m \in PlayedVideo : m < n}
                        previous == played[Max(before)]
                    IN  IF before = {} \/ previous.segment # e.segment
                        THEN Unit(e).key
                        ELSE \A k \in previous.unit + 1 .. e.unit - 1 :
                                File[k].kind = "video" =>
                                    File[k].pts < Unit(played[Min(PlayedVideo)]).pts
  BY DEF NoMissingReference
<1> DEFINE before == {m \in PlayedVideo : m < n}
           l == Max(before)
<1>0. /\ played \in Seq(Entry) /\ PlayedVideo = Videos(played) /\ n \in Videos(played)
      /\ DOMAIN played = 1 .. Len(played) /\ Len(played) \in Nat
      /\ PlayedVideo \subseteq DOMAIN played /\ PlayedVideo \subseteq Nat
      /\ before \subseteq Nat /\ n \in Nat
  BY DEF TypeOK, Entry, PlayedVideo, Videos, Unit
<1>1. Decodable(played, n)
  BY <1>0 DEF Decoding
<1>2. CASE before = {}
  <2>1. \A m \in Videos(played) : n <= m
    <3> SUFFICES ASSUME NEW m \in Videos(played) PROVE n <= m
      OBVIOUS
    <3>1. ~(m < n) /\ m \in Nat
      BY <1>0, <1>2
    <3> QED
      BY <1>0, <3>1
  <2>2. FirstVideo(played, n)
    BY <1>0, <2>1 DEF FirstVideo
  <2> QED
    BY <1>1, <1>2, <2>2 DEF Decodable, Unit
<1>3. CASE before # {}
  <2>1. l \in before /\ \A m \in before : m <= l
    <3>1. \A m \in before : m <= n
      BY <1>0
    <3> HIDE DEF before
    <3> QED
      BY <1>0, <1>3, <3>1, MaxIsLargest
  <2> HIDE DEF l
  <2>2. Follows(played, l, n)
    <3>1. ASSUME NEW j \in Videos(played), l < j, j < n PROVE FALSE
      <4>1. j \in before /\ j \in Nat /\ l \in Nat
        BY <1>0, <2>1, <3>1
      <4> QED
        BY <2>1, <3>1, <4>1
    <3> QED
      BY <1>0, <2>1, <3>1 DEF Follows
  <2>3. IF played[l].segment # played[n].segment THEN File[played[n].unit].key
        ELSE OnlyLeading(played, played[l].unit + 1, played[n].unit - 1)
    BY <1>0, <1>1, <2>1, <2>2 DEF Decodable
  <2>4. FirstVideo(played, Min(PlayedVideo)) /\ Min(PlayedVideo) \in DOMAIN played
    <3>1. Min(PlayedVideo) \in PlayedVideo /\ \A y \in PlayedVideo : Min(PlayedVideo) <= y
      BY <1>0, MinIsLeast
    <3> QED
      BY <1>0, <3>1 DEF FirstVideo
  <2>5. played[l] \in Entry /\ played[n] \in Entry /\ l \in DOMAIN played
    BY <1>0, <2>1
  <2>6. ASSUME played[l].segment = played[n].segment,
               NEW k \in played[l].unit + 1 .. played[n].unit - 1, File[k].kind = "video"
        PROVE  File[k].pts < Unit(played[Min(PlayedVideo)]).pts
    <3>1. k \in DOMAIN File /\ played[l].unit + 1 <= k /\ k <= played[n].unit - 1
      BY <2>5, FileFacts DEF Entry
    <3>2. Leading(played, k)
      BY <2>3, <2>6, <3>1 DEF OnlyLeading
    <3> QED
      BY <2>4, <3>2 DEF Leading, Unit
  <2> QED
    BY <1>3, <2>3, <2>6 DEF l, Unit
<1> QED
  BY <1>2, <1>3

(***************************************************************************)
(* The decoder gets an access point at the start and after every jump, and *)
(* after it every frame in decode order but the leading pictures that the  *)
(* offset cuts.  At the start of a file the code does not wait for an      *)
(* access point, so the file has to begin with one.                        *)
(***************************************************************************)
THEOREM NothingMissing == ASSUME BeginsAtRap PROVE Spec => []NoMissingReference
<1>1. Inv /\ Decoding => NoMissingReference
  BY DecodableMissesNothing DEF Inv
<1> QED
  BY <1>1, DecodingHolds, PTL

-----------------------------------------------------------------------------
(***************************************************************************)
(* What is shown of the program.  A frame is wanted in a segment if the    *)
(* segment shows it between the requested position and the stop position.  *)
(***************************************************************************)
AtProgram(k, i) ==
    IF IsMultiSegment
    THEN SegmentBase(m_editSegments, i) + (SourceTime(File[k]) - m_editSegments[i].start)
    ELSE File[k].pts - m_firstPts

Wanted(k, i) ==
    /\ File[k].kind = "video" /\ Edited(File[k], i)
    /\ m_seekTarget <= AtProgram(k, i) /\ AtProgram(k, i) <= m_stopPos

ShownIn(k, i) == \E n \in Shown : played[n].unit = k /\ played[n].segment = i

Complete(i) == \A k \in DOMAIN File : Wanted(k, i) => ShownIn(k, i)

\* What is wanted of the segment and has been read.
Caught == \A k \in DOMAIN File : k < next /\ Wanted(k, m_curSegment) => ShownIn(k, m_curSegment)

\* The next video is an access point, and not after the requested position.
RapIsNext ==
    \A k \in DOMAIN File :
        /\ next <= k /\ File[k].kind = "video"
        /\ \A j \in DOMAIN File : next <= j /\ j < k => File[j].kind # "video"
        => /\ File[k].key
           /\ ~IsMultiSegment => SourceTime(File[k]) <= m_seekTarget + m_virtualStart

Running ==
    /\ loop = "setup" => m_active
    /\ ~m_active => m_pendingSegmentJump = "none"
    /\ loop # "setup" /\ IsMultiSegment =>
          SegmentAtProgram(m_editSegments, m_seekTarget).segment <= m_curSegment

Asked == SeeksMapped /\ StopsPastReordering

Showing ==
    Asked =>
        /\ loop # "setup" => (\A i \in 1 .. m_curSegment - 1 : Complete(i)) /\ Caught
        /\ ~m_active \/ loop = "done" => Complete(m_curSegment)
        /\ ~m_active /\ IsMultiSegment => m_stopPos < SegmentBase(m_editSegments, m_curSegment + 1)
        /\ loop \in {"read", "batch"} /\ m_active /\ m_pendingSegmentJump = "none"
              /\ m_waitForVideoRap => RapIsNext
        /\ m_segmentTimeOffset = 0

Whole == Running /\ Showing

LEMMA BaseGrows ==
    ASSUME NEW segs \in Seq(Seg), WithinSource(segs),
           NEW i \in 1 .. Len(segs) + 1, NEW j \in 1 .. Len(segs) + 1, i <= j
    PROVE  SegmentBase(segs, i) <= SegmentBase(segs, j)
<1> DEFINE B(m) == SegmentBase(segs, m)
           T == {d \in Nat : i + d \in 1 .. Len(segs) + 1 => B(i) <= B(i + d)}
<1>0. Len(segs) \in Nat /\ \A m \in 1 .. Len(segs) + 1 : B(m) \in Nat
  BY SegmentBaseNat
<1>1. 0 \in T
  BY <1>0
<1>2. ASSUME NEW d \in Nat, d \in T PROVE d + 1 \in T
  <2> SUFFICES ASSUME i + (d + 1) \in 1 .. Len(segs) + 1 PROVE B(i) <= B(i + (d + 1))
    OBVIOUS
  <2>1. i + d \in 1 .. Len(segs) /\ i + d \in 1 .. Len(segs) + 1 /\ i + (d + 1) = (i + d) + 1
    BY <1>0
  <2>2. segs[i + d] \in Seg /\ segs[i + d].start < segs[i + d].end
    BY <2>1 DEF WithinSource
  <2>3. Length(segs[i + d]) \in Nat
    BY <2>2 DEF Seg, Length
  <2>4. B(i + d + 1) = B(i + d) + Length(segs[i + d])
    BY <2>1, SegmentBaseSteps
  <2>5. B(i) <= B(i + d)
    BY <1>2, <2>1
  <2> HIDE DEF B
  <2> QED
    BY <1>0, <2>1, <2>3, <2>4, <2>5
<1> HIDE DEF T
<1>3. j - i \in Nat /\ i + (j - i) = j
  BY <1>0
<1>4. j - i \in T
  BY <1>1, <1>2, <1>3, Induction
<1> QED
  BY <1>3, <1>4 DEF T

\* The time of a frame in the program, and where the edit list shows it.
LEMMA AtProgramFacts ==
    ASSUME TypeOK, Opened, NEW k \in DOMAIN File, NEW i,
           IsMultiSegment => i \in 1 .. Len(m_editSegments)
    PROVE  /\ AtProgram(k, i) \in Int
           /\ IsMultiSegment /\ Edited(File[k], i) =>
                 /\ SegmentBase(m_editSegments, i) <= AtProgram(k, i)
                 /\ AtProgram(k, i) < SegmentBase(m_editSegments, i + 1)
<1>1. m_firstPts \in Nat /\ File[k].pts \in Nat /\ SourceTime(File[k]) \in Nat
  BY UnitTimes, FileFacts DEF TypeOK
<1>2. CASE IsMultiSegment
  <2>1. /\ m_editSegments[i] \in Seg
        /\ SegmentBase(m_editSegments, i) \in Int
        /\ SegmentBase(m_editSegments, i + 1) =
              SegmentBase(m_editSegments, i) + Length(m_editSegments[i])
    <3>1. i \in 1 .. Len(m_editSegments) /\ m_editSegments \in Seq(Seg)
      BY <1>2 DEF Opened
    <3>2. i \in 1 .. Len(m_editSegments) + 1
      BY <3>1
    <3> QED
      BY <3>1, <3>2, SegmentBaseSteps
  <2>2. m_editSegments[i].start \in Nat /\ m_editSegments[i].end \in Nat
    BY <2>1 DEF Seg
  <2>3. AtProgram(k, i) = SegmentBase(m_editSegments, i)
                              + (SourceTime(File[k]) - m_editSegments[i].start)
    BY <1>2 DEF AtProgram
  <2>4. Edited(File[k], i) => /\ m_editSegments[i].start <= SourceTime(File[k])
                              /\ SourceTime(File[k]) < m_editSegments[i].end
    BY <1>2 DEF Edited
  <2>5. SegmentBase(m_editSegments, i + 1) = SegmentBase(m_editSegments, i)
                              + (m_editSegments[i].end - m_editSegments[i].start)
    BY <2>1 DEF Length
  <2> QED
    BY <1>1, <2>1, <2>2, <2>3, <2>4, <2>5
<1>3. CASE ~IsMultiSegment
  BY <1>1, <1>3 DEF AtProgram
<1> QED
  BY <1>2, <1>3

LEMMA AtProgramNow ==
    ASSUME TypeOK, Opened, Placed, NEW k \in DOMAIN File
    PROVE  /\ AtProgram(k, m_curSegment) = NormPts(File[k])
           /\ AtProgram(k, m_curSegment) \in Int
           /\ IsMultiSegment /\ Edited(File[k], m_curSegment) =>
                 /\ SegmentBase(m_editSegments, m_curSegment) <= AtProgram(k, m_curSegment)
                 /\ AtProgram(k, m_curSegment) < SegmentBase(m_editSegments, m_curSegment + 1)
<1>1. IsMultiSegment => m_curSegment \in 1 .. Len(m_editSegments)
  BY SegmentFacts
<1>2. AtProgram(k, m_curSegment) = NormPts(File[k])
  BY DEF AtProgram, NormPts, Placed, Segment
<1> QED
  BY <1>1, <1>2, AtProgramFacts

\* A segment that the rest of the file is past shows nothing of the rest.
LEMMA PastIsNotWanted ==
    ASSUME TypeOK, Opened, NEW k \in DOMAIN File, PastSegment(File[k])
    PROVE  ~Wanted(k, m_curSegment)
<1>1. /\ IsMultiSegment /\ File[k].dts - m_origFirstPts >= Segment.end
      /\ Segment.end \in Nat
  BY SegmentFacts DEF PastSegment
<1>2. File[k].dts \in Nat /\ File[k].pts \in Nat /\ File[k].dts <= File[k].pts
      /\ m_origFirstPts \in Nat
  BY FileFacts, StampFacts
<1>3. SourceTime(File[k]) >= Segment.end /\ SourceTime(File[k]) \in Int
  BY <1>1, <1>2 DEF SourceTime
<1>4. ~(SourceTime(File[k]) < Segment.end)
  BY <1>1, <1>3
<1> QED
  BY <1>1, <1>4 DEF Wanted, Edited, Segment

\* A seek by the map lands at an access point, and nothing of what it skips is
\* shown at the source position or later.
LEMMA LandsBefore ==
    ASSUME RapsDivide, NEW source \in Nat, hasMap, source = 0 \/ Mapped(source) # {},
           NEW land \in Landing(source)
    PROVE  /\ source = 0 => land = 1
           /\ source # 0 => /\ land \in RapPoints
                            /\ SourceTime(File[land]) <= source
           /\ \A k \in DOMAIN File :
                 k < land /\ File[k].kind = "video" => SourceTime(File[k]) < source
<1>1. CASE source = 0
  <2>1. land = 1
    BY <1>1 DEF Landing
  <2> QED
    BY <1>1, <2>1, FileFacts
<1>2. CASE source # 0
  <2>1. land = Max(Mapped(source)) /\ Mapped(source) # {}
    BY <1>2 DEF Landing
  <2>2. /\ Mapped(source) \subseteq Nat /\ Mapped(source) \subseteq DOMAIN File
        /\ \A n \in Mapped(source) : n <= Len(File)
    BY FileFacts DEF Mapped, RapPoints
  <2>3. land \in Mapped(source)
    BY <2>1, <2>2, FileFacts, MaxIsLargest
  <2>4. land \in RapPoints /\ SourceTime(File[land]) <= source /\ land \in DOMAIN File
    BY <2>3 DEF Mapped, RapPoints, SourceTime
  <2>5. ASSUME NEW k \in DOMAIN File, k < land, File[k].kind = "video"
        PROVE  SourceTime(File[k]) < source
    <3>1. File[k].pts < File[land].pts
      BY <2>4, <2>5 DEF RapsDivide
    <3>2. File[k].pts \in Nat /\ File[land].pts \in Nat /\ m_origFirstPts \in Nat
      BY <2>4, FileFacts, StampFacts
    <3> QED
      BY <2>4, <3>1, <3>2 DEF SourceTime
  <2> QED
    BY <1>2, <2>4, <2>5
<1> QED
  BY <1>1, <1>2

\* What is wanted depends on what was opened and asked for.
LEMMA WantsStay ==
    ASSUME UNCHANGED loaded
    PROVE  /\ IsMultiSegment' <=> IsMultiSegment
           /\ Asked' <=> Asked
           /\ \A k, i : Wanted(k, i)' <=> Wanted(k, i)
           /\ m_editSegments' = m_editSegments /\ m_stopPos' = m_stopPos
           /\ m_seekTarget' = m_seekTarget /\ m_virtualStart' = m_virtualStart
<1>1. /\ m_editSegments' = m_editSegments /\ m_stopPos' = m_stopPos
      /\ m_seekTarget' = m_seekTarget /\ m_virtualStart' = m_virtualStart
      /\ m_firstPts' = m_firstPts /\ hasMap' = hasMap
  BY DEF loaded
<1>2. IsMultiSegment' <=> IsMultiSegment
  BY <1>1 DEF IsMultiSegment
<1>3. \A k, i : AtProgram(k, i)' = AtProgram(k, i) /\ (Edited(File[k], i)' <=> Edited(File[k], i))
  BY <1>1, <1>2 DEF AtProgram, Edited
<1>4. \A k, i : Wanted(k, i)' <=> Wanted(k, i)
  BY <1>1, <1>3 DEF Wanted
<1>5. SeekSources' = SeekSources
  BY <1>1, <1>2 DEF SeekSources
<1>6. Asked' <=> Asked
  BY <1>1, <1>5 DEF Asked, SeeksMapped, StopsPastReordering
<1> QED
  BY <1>1, <1>2, <1>4, <1>6

\* What has been shown stays shown.
LEMMA ShownStays ==
    ASSUME played \in Seq(Entry),
           played' = played \/ \E e \in Entry : played' = Append(played, e)
    PROVE  \A k, i : ShownIn(k, i) => ShownIn(k, i)'
<1>1. \A n \in DOMAIN played : n \in DOMAIN played' /\ played'[n] = played[n]
  <2>1. CASE played' = played
    BY <2>1
  <2>2. CASE \E e \in Entry : played' = Append(played, e)
    BY <2>2, AppendShape
  <2> QED
    BY <2>1, <2>2
<1> QED
  BY <1>1 DEF ShownIn, Shown

\* A step that reads no video and goes to no other segment.
LEMMA ShowingRests ==
    ASSUME Inv, Whole, UNCHANGED <<loaded, segmentVars>>, m_waitForVideoRap' = m_waitForVideoRap,
           m_segmentTimeOffset' = m_segmentTimeOffset,
           played' = played \/ \E e \in Entry : played' = Append(played, e),
           \/ next' = next
           \/ next' = next + 1 /\ next \in DOMAIN File /\ ~Wanted(next, m_curSegment),
           loop # "setup" <=> loop' # "setup",
           Asked /\ (~m_active' \/ loop' = "done") => Complete(m_curSegment)',
           Asked /\ ~m_active' /\ IsMultiSegment =>
               m_stopPos < SegmentBase(m_editSegments, m_curSegment + 1),
           ~m_active' => m_pendingSegmentJump' = "none",
           m_active' => m_active,
           loop = "setup" => m_active',
           loop' \in {"read", "batch"} /\ m_active' /\ m_pendingSegmentJump' = "none" =>
               /\ loop \in {"read", "batch"} /\ m_pendingSegmentJump = "none"
               /\ next' = next \/ (next \in DOMAIN File /\ File[next].kind # "video")
    PROVE  Whole'
<1>0. TypeOK /\ next \in Nat /\ played \in Seq(Entry)
  BY DEF Inv, TypeOK, Entry
<1>1. /\ IsMultiSegment' <=> IsMultiSegment
      /\ Asked' <=> Asked
      /\ \A k, i : Wanted(k, i)' <=> Wanted(k, i)
      /\ m_editSegments' = m_editSegments /\ m_stopPos' = m_stopPos
      /\ m_seekTarget' = m_seekTarget /\ m_virtualStart' = m_virtualStart
  BY WantsStay
<1>2. m_curSegment' = m_curSegment
  BY DEF segmentVars
<1>3. \A k, i : ShownIn(k, i) => ShownIn(k, i)'
  BY <1>0, ShownStays
<1>4. Running'
  BY <1>1, <1>2 DEF Whole, Running
<1>5. ASSUME Asked PROVE Showing'
  <2>1. \A i : Complete(i) => Complete(i)'
    BY <1>1, <1>3 DEF Complete
  <2>2. \A k \in DOMAIN File : k < next' => k < next \/ k = next
    BY <1>0, FileFacts
  <2>3. Caught => Caught'
    BY <1>1, <1>2, <1>3, <2>2 DEF Caught
  <2>4. ASSUME loop' \in {"read", "batch"}, m_active', m_pendingSegmentJump' = "none",
               m_waitForVideoRap'
        PROVE  RapIsNext'
    <3>1. RapIsNext
      BY <1>5, <2>4 DEF Whole, Showing
    <3>2. CASE next' = next
      BY <1>1, <3>1, <3>2 DEF RapIsNext
    <3>3. CASE next' = next + 1 /\ next \in DOMAIN File /\ File[next].kind # "video"
      <4>1. \A k \in DOMAIN File : next' <= k => next <= k
        BY <1>0, <3>3, FileFacts
      <4>2. \A j \in DOMAIN File : next <= j => j = next \/ next' <= j
        BY <1>0, <3>3, FileFacts
      <4>3. ASSUME NEW k \in DOMAIN File, next' <= k, File[k].kind = "video",
                   \A j \in DOMAIN File : next' <= j /\ j < k => File[j].kind # "video"
            PROVE  File[k].key
                   /\ (~IsMultiSegment => SourceTime(File[k]) <= m_seekTarget + m_virtualStart)
        BY <3>1, <3>3, <4>1, <4>2, <4>3 DEF RapIsNext
      <4> QED
        BY <1>1, <4>3 DEF RapIsNext
    <3> QED
      BY <2>4, <3>2, <3>3
  <2>5. m_segmentTimeOffset' = 0
    BY <1>5 DEF Whole, Showing
  <2>6. loop' # "setup" => (\A i \in 1 .. m_curSegment' - 1 : Complete(i)') /\ Caught'
    BY <1>2, <1>5, <2>1, <2>3 DEF Whole, Showing
  <2>7. ~m_active' \/ loop' = "done" => Complete(m_curSegment)'
    BY <1>5
  <2>8. ~m_active' /\ IsMultiSegment' => m_stopPos' < SegmentBase(m_editSegments', m_curSegment' + 1)
    BY <1>1, <1>2, <1>5
  <2> QED
    BY <2>4, <2>5, <2>6, <2>7, <2>8 DEF Showing
<1>6. ~Asked => Showing'
  BY <1>1 DEF Showing
<1> QED
  BY <1>4, <1>5, <1>6 DEF Whole

LEMMA CompleteStays ==
    ASSUME UNCHANGED <<loaded, segmentVars, played>>, Complete(m_curSegment)
    PROVE  Complete(m_curSegment)'
<1>1. /\ \A k, i : Wanted(k, i)' <=> Wanted(k, i)
      /\ m_curSegment' = m_curSegment /\ played' = played
  BY WantsStay DEF segmentVars
<1>2. \A k, i : ShownIn(k, i)' <=> ShownIn(k, i)
  BY <1>1 DEF ShownIn, Shown
<1> QED
  BY <1>1, <1>2 DEF Complete

\* When a jump is due, the segment has been shown.
LEMMA DueIsComplete ==
    ASSUME TypeOK, Opened, JumpDue, m_pendingSegmentJump # "none", Caught
    PROVE  Complete(m_curSegment)
<1> SUFFICES ASSUME NEW k \in DOMAIN File, Wanted(k, m_curSegment)
             PROVE  ShownIn(k, m_curSegment)
  BY DEF Complete
<1>1. File[k].kind = "video"
  BY DEF Wanted
<1>2. ~(next <= k)
  BY <1>1, PastIsNotWanted DEF JumpDue
<1>3. k < next
  BY <1>2, FileFacts DEF TypeOK
<1> QED
  BY <1>3 DEF Caught

LEMMA ShowingLoop ==
    ASSUME Inv, Decoding, Whole,
           Read \/ Finish \/ BatchEnds \/ EditEnds \/ Done \/ UNCHANGED vars
    PROVE  Whole'
<1>0. TypeOK /\ Opened /\ JumpDue /\ next \in Nat
  BY DEF Inv, TypeOK, Decoding
<1>1. /\ UNCHANGED <<loaded, segmentVars, played>> /\ m_waitForVideoRap' = m_waitForVideoRap
      /\ m_segmentTimeOffset' = m_segmentTimeOffset /\ next' = next /\ m_active' = m_active
      /\ played' = played
      /\ m_pendingSegmentJump' = "none" \/ m_pendingSegmentJump' = m_pendingSegmentJump
      /\ loop # "setup" <=> loop' # "setup"
      /\ loop' \in {"read", "batch"} =>
            loop \in {"read", "batch"} /\ m_pendingSegmentJump' = m_pendingSegmentJump
      /\ \/ loop' # "done" \/ (loop = "done" /\ m_pendingSegmentJump' = m_pendingSegmentJump)
         \/ loop = "read" /\ (~m_active \/ next > Len(File))
         \/ loop = "batch" /\ m_pendingSegmentJump = "end"
  <2>1. CASE Read \/ Finish \/ BatchEnds \/ EditEnds
    BY <2>1 DEF Read, Finish, BatchEnds, EditEnds, LoopOnly, rapVars
  <2>2. CASE Done \/ UNCHANGED vars
    BY <2>2 DEF Done, vars, rapVars
  <2> QED
    BY <2>1, <2>2
<1>2. ASSUME Asked, ~m_active' \/ loop' = "done" PROVE Complete(m_curSegment)
  <2>1. CASE ~m_active \/ loop = "done"
    BY <1>2, <2>1 DEF Whole, Showing
  <2>2. CASE loop = "read" /\ next > Len(File)
    <3>1. Caught
      BY <1>2, <2>2 DEF Whole, Showing
    <3>2. \A k \in DOMAIN File : k < next
      BY <1>0, <2>2, FileFacts
    <3> QED
      BY <3>1, <3>2 DEF Complete, Caught
  <2>3. CASE loop = "batch" /\ m_pendingSegmentJump = "end"
    <3>1. Caught
      BY <1>2, <2>3 DEF Whole, Showing
    <3> QED
      BY <1>0, <2>3, <3>1, DueIsComplete
  <2> QED
    BY <1>1, <1>2, <2>1, <2>2, <2>3
<1>3. Asked /\ (~m_active' \/ loop' = "done") => Complete(m_curSegment)'
  BY <1>1, <1>2, CompleteStays
<1>4. Asked /\ ~m_active' /\ IsMultiSegment =>
          m_stopPos < SegmentBase(m_editSegments, m_curSegment + 1)
  BY <1>1 DEF Whole, Showing
<1>5. (~m_active' => m_pendingSegmentJump' = "none") /\ (loop = "setup" => m_active')
  BY <1>1 DEF Whole, Running
<1> QED
  BY <1>1, <1>3, <1>4, <1>5, ShowingRests

LEMMA ShowingAudio == Inv /\ Whole /\ AudioSample => Whole'
<1> SUFFICES ASSUME Inv, Whole, AudioSample PROVE Whole'
  OBVIOUS
<1>1. /\ loop = "batch" /\ loop' = loop /\ next' = next + 1 /\ File[next].kind = "audio"
      /\ UNCHANGED <<loaded, segmentVars, m_pendingSegmentJump, m_active>> /\ m_active
  BY DEF AudioSample, Demux
<1>2. /\ next \in DOMAIN File /\ UNCHANGED rapVars
      /\ played' = played \/ \E e \in Entry : played' = Append(played, e)
  BY AudioSampleSteps
<1>3. m_waitForVideoRap' = m_waitForVideoRap /\ m_segmentTimeOffset' = m_segmentTimeOffset
  BY <1>2 DEF rapVars
<1>4. ~Wanted(next, m_curSegment) /\ File[next].kind # "video"
  BY <1>1 DEF Wanted
<1>5. m_active' /\ m_pendingSegmentJump' = m_pendingSegmentJump /\ loop' = "batch"
  BY <1>1
<1> QED
  BY <1>1, <1>2, <1>3, <1>4, <1>5, ShowingRests

LEMMA ShowingPastSegment == Inv /\ Whole /\ VideoPastSegment => Whole'
<1> SUFFICES ASSUME Inv, Whole, VideoPastSegment PROVE Whole'
  OBVIOUS
<1>0. TypeOK /\ Opened
  BY DEF Inv
<1>1. /\ loop = "batch" /\ loop' = loop /\ next' = next + 1 /\ PastSegment(File[next])
      /\ UNCHANGED <<loaded, segmentVars, rapVars, played, m_active>> /\ m_active
      /\ m_pendingSegmentJump' # "none" /\ played' = played
  BY DEF VideoPastSegment, Demux
<1>2. next \in DOMAIN File
  BY <1>0, FileFacts DEF VideoPastSegment, Demux, TypeOK
<1>3. m_waitForVideoRap' = m_waitForVideoRap /\ m_segmentTimeOffset' = m_segmentTimeOffset
  BY <1>1 DEF rapVars
<1>4. ~Wanted(next, m_curSegment)
  BY <1>0, <1>1, <1>2, PastIsNotWanted
<1> QED
  BY <1>1, <1>2, <1>3, <1>4, ShowingRests

\* What is decoded from a unit past the stop position on is not wanted.
LEMMA StopIsInDecodeOrder ==
    ASSUME TypeOK, Opened, Placed, StopsPastReordering, next \in DOMAIN File,
           File[next].kind = "video", DecodeTime(File[next]) > m_stopPos
    PROVE  /\ \A k \in DOMAIN File : next <= k => ~Wanted(k, m_curSegment)
           /\ m_stopPos < NormDts(File[next])
<1>1. m_stopPos \in Nat /\ next \in Nat
  BY DEF TypeOK
<1>2. \A k \in DOMAIN File :
         /\ NormPts(File[k]) \in Int /\ NormDts(File[k]) \in Int
         /\ File[k].pts \in Nat /\ File[k].dts \in Nat /\ File[k].dts <= File[k].pts
         /\ NormDts(File[k]) = NormPts(File[k]) - (File[k].pts - File[k].dts)
  <2> SUFFICES ASSUME NEW k \in DOMAIN File
               PROVE  /\ NormPts(File[k]) \in Int /\ NormDts(File[k]) \in Int
                      /\ File[k].pts \in Nat /\ File[k].dts \in Nat /\ File[k].dts <= File[k].pts
                      /\ NormDts(File[k]) = NormPts(File[k]) - (File[k].pts - File[k].dts)
    OBVIOUS
  <2>1. NormPts(File[k]) \in Int /\ NormDts(File[k]) \in Int
    BY UnitTimes
  <2>2. File[k].pts \in Nat /\ File[k].dts \in Nat /\ File[k].dts <= File[k].pts
    BY FileFacts
  <2> QED
    BY <2>1, <2>2 DEF NormDts
<1>3. NormDts(File[next]) >= 0
  <2> SUFFICES ASSUME ~(NormDts(File[next]) >= 0) PROVE FALSE
    OBVIOUS
  <2>1. NormPts(File[next]) > m_stopPos
    BY DEF DecodeTime
  <2>2. File[next].pts - File[next].dts <= m_stopPos
    BY DEF StopsPastReordering
  <2> QED
    BY <1>1, <1>2, <2>1, <2>2
<1>4. m_stopPos < NormDts(File[next])
  BY <1>1, <1>2, <1>3 DEF DecodeTime
<1>5. ASSUME NEW k \in DOMAIN File, next <= k PROVE ~Wanted(k, m_curSegment)
  <2> SUFFICES ASSUME File[k].kind = "video" PROVE ~Wanted(k, m_curSegment)
    BY DEF Wanted
  <2>1. File[next].dts <= File[k].dts
    <3>1. k = next \/ next < k
      BY <1>1, <1>5, FileFacts
    <3>2. CASE k = next
      BY <1>2, <3>2
    <3>3. CASE next < k
      <4>1. File[next].dts < File[k].dts
        BY <3>3, FileAssumption
      <4> QED
        BY <1>2, <4>1
    <3> QED
      BY <3>1, <3>2, <3>3
  <2>2. NormPts(File[k]) - NormPts(File[next]) = File[k].pts - File[next].pts
    <3>1. SourceTime(File[k]) - SourceTime(File[next]) = File[k].pts - File[next].pts
          /\ SourceTime(File[k]) \in Int /\ SourceTime(File[next]) \in Int
      BY <1>2, StampFacts DEF SourceTime
    <3>2. CASE IsMultiSegment
      <4>1. /\ NormPts(File[k]) = m_curSegmentBase + (SourceTime(File[k]) - Segment.start)
            /\ NormPts(File[next]) = m_curSegmentBase + (SourceTime(File[next]) - Segment.start)
            /\ m_curSegmentBase \in Nat /\ Segment.start \in Nat
        BY <3>2, UnitTimes, SegmentFacts DEF TypeOK
      <4> QED
        BY <1>2, <3>1, <4>1
    <3>3. CASE ~IsMultiSegment
      <4>1. /\ NormPts(File[k]) = File[k].pts - m_firstPts
            /\ NormPts(File[next]) = File[next].pts - m_firstPts
            /\ m_firstPts \in Nat
        BY <3>3, UnitTimes DEF TypeOK
      <4> QED
        BY <1>2, <4>1
    <3> QED
      BY <3>2, <3>3
  <2>3. NormPts(File[k]) > m_stopPos
    BY <1>1, <1>2, <1>4, <2>1, <2>2
  <2>4. ~(NormPts(File[k]) <= m_stopPos)
    BY <1>1, <1>2, <2>3
  <2> QED
    BY <2>4, AtProgramNow DEF Wanted
<1> QED
  BY <1>4, <1>5

LEMMA ShowingPastStop == Inv /\ Decoding /\ Whole /\ VideoPastStop => Whole'
<1> SUFFICES ASSUME Inv, Decoding, Whole, VideoPastStop PROVE Whole'
  OBVIOUS
<1>0. TypeOK /\ Opened /\ Placed /\ JumpDue /\ next \in Nat
  BY DEF Inv, TypeOK, Decoding
<1>1. /\ loop = "batch" /\ loop' = loop /\ next' = next + 1 /\ ~PastSegment(File[next])
      /\ UNCHANGED <<loaded, segmentVars, rapVars, played>> /\ ~m_active'
      /\ m_pendingSegmentJump' = m_pendingSegmentJump /\ played' = played
      /\ File[next].kind = "video" /\ DecodeTime(File[next]) > m_stopPos
  BY DEF VideoPastStop, Demux
<1>2. next \in DOMAIN File
  BY <1>0, FileFacts DEF VideoPastStop, Demux, TypeOK
<1>3. m_pendingSegmentJump = "none"
  BY <1>0, <1>1, <1>2 DEF JumpDue
<1>4. ASSUME Asked
      PROVE  /\ Complete(m_curSegment) /\ ~Wanted(next, m_curSegment)
             /\ IsMultiSegment => m_stopPos < SegmentBase(m_editSegments, m_curSegment + 1)
  <2>1. /\ \A k \in DOMAIN File : next <= k => ~Wanted(k, m_curSegment)
        /\ m_stopPos < NormDts(File[next])
    BY <1>0, <1>1, <1>2, <1>4, StopIsInDecodeOrder DEF Asked
  <2>2. Caught
    BY <1>1, <1>4 DEF Whole, Showing
  <2>3. \A k \in DOMAIN File : k < next \/ next <= k
    BY <1>0, FileFacts
  <2>4. Complete(m_curSegment)
    BY <2>1, <2>2, <2>3 DEF Complete, Caught
  <2>5. ~Wanted(next, m_curSegment)
    BY <1>0, <1>2, <2>1
  <2>6. ASSUME IsMultiSegment
        PROVE  m_stopPos < SegmentBase(m_editSegments, m_curSegment + 1)
    <3>1. /\ m_curSegment \in 1 .. Len(m_editSegments) /\ m_editSegments \in Seq(Seg)
          /\ Segment.start \in Nat /\ Segment.end \in Nat
      BY <1>0, <2>6, SegmentFacts DEF Opened
    <3>2. /\ SegmentBase(m_editSegments, m_curSegment + 1)
                = SegmentBase(m_editSegments, m_curSegment) + (Segment.end - Segment.start)
          /\ SegmentBase(m_editSegments, m_curSegment) = m_curSegmentBase
          /\ m_curSegmentBase \in Nat
      BY <1>0, <2>6, <3>1, SegmentBaseSteps DEF Length, Segment, Placed, TypeOK
    <3>3. NormPts(File[next]) = m_curSegmentBase + (SourceTime(File[next]) - Segment.start)
      BY <1>0, <1>2, <2>6, UnitTimes
    <3>4. /\ File[next].pts \in Nat /\ File[next].dts \in Nat /\ m_origFirstPts \in Nat
          /\ m_stopPos \in Nat
      BY <1>0, <1>2, FileFacts, StampFacts DEF TypeOK
    <3>5. File[next].dts - m_origFirstPts < Segment.end
      BY <1>1, <2>6, <3>1, <3>4 DEF PastSegment
    <3>6. /\ NormDts(File[next]) = File[next].dts - (File[next].pts - NormPts(File[next]))
          /\ SourceTime(File[next]) = File[next].pts - m_origFirstPts
      BY DEF NormDts, SourceTime
    <3> DEFINE dts == File[next].dts
               pts == File[next].pts
               norm == NormPts(File[next])
               at == SourceTime(File[next])
               from == Segment.start
               to == Segment.end
               decoded == NormDts(File[next])
               end == SegmentBase(m_editSegments, m_curSegment + 1)
    <3>7. /\ dts \in Int /\ pts \in Int /\ from \in Int /\ to \in Int
          /\ m_stopPos \in Int /\ m_origFirstPts \in Int /\ m_curSegmentBase \in Int
          /\ m_stopPos < decoded /\ decoded = dts - (pts - norm) /\ at = pts - m_origFirstPts
          /\ norm = m_curSegmentBase + (at - from) /\ dts - m_origFirstPts < to
          /\ end = m_curSegmentBase + (to - from)
      <4>1. dts \in Int /\ pts \in Int /\ m_stopPos \in Int /\ m_origFirstPts \in Int
        BY <3>4
      <4>2. from \in Int /\ to \in Int /\ m_curSegmentBase \in Int
        BY <3>1, <3>2
      <4>3. m_stopPos < decoded
        BY <2>1
      <4>4. decoded = dts - (pts - norm) /\ at = pts - m_origFirstPts
        BY <3>6
      <4>5. norm = m_curSegmentBase + (at - from)
        BY <3>3
      <4>6. dts - m_origFirstPts < to
        BY <3>5
      <4>7. end = m_curSegmentBase + (to - from)
        BY <3>2
      <4> HIDE DEF dts, pts, norm, at, from, to, decoded, end
      <4> QED
        BY <4>1, <4>2, <4>3, <4>4, <4>5, <4>6, <4>7
    <3> HIDE DEF dts, pts, norm, at, from, to, decoded, end
    <3>8. decoded = m_curSegmentBase + (dts - m_origFirstPts - from)
      BY <3>7
    <3>9. m_stopPos < end
      BY <3>7, <3>8
    <3> QED
      BY <3>9 DEF end
  <2> QED
    BY <2>4, <2>5, <2>6
<1>5. CASE Asked
  <2>1. Complete(m_curSegment)'
    BY <1>1, <1>4, <1>5, CompleteStays
  <2>2. m_waitForVideoRap' = m_waitForVideoRap /\ m_segmentTimeOffset' = m_segmentTimeOffset
    BY <1>1 DEF rapVars
  <2> QED
    BY <1>1, <1>2, <1>3, <1>4, <1>5, <2>1, <2>2, ShowingRests
<1>6. CASE ~Asked
  <2>1. ~Asked' /\ (IsMultiSegment' <=> IsMultiSegment) /\ m_curSegment' = m_curSegment
        /\ m_editSegments' = m_editSegments /\ m_seekTarget' = m_seekTarget
    BY <1>1, <1>6, WantsStay DEF segmentVars
  <2> QED
    BY <1>1, <1>3, <2>1 DEF Whole, Running, Showing
<1> QED
  BY <1>5, <1>6

LEMMA ShowingSetUp == RapsDivide /\ Inv /\ Decoding /\ Whole /\ SetUp => Whole'
<1> SUFFICES ASSUME RapsDivide, Inv, Decoding, Whole, SetUp PROVE Whole'
  OBVIOUS
<1> DEFINE at == SegmentAtProgram(m_editSegments, m_seekTarget)
           source == IF IsMultiSegment THEN at.source ELSE m_seekTarget + m_virtualStart
           c == m_curSegment'
<1>0. TypeOK /\ Opened /\ m_seekTarget \in Nat /\ m_virtualStart \in Nat
  BY DEF Inv, TypeOK
<1>1. /\ loop = "setup" /\ loop' = "read" /\ m_active' = m_active /\ UNCHANGED loaded
      /\ IF IsMultiSegment THEN m_curSegment' = at.segment /\ m_pendingSegmentJump' = "none"
         ELSE m_curSegment' = m_curSegment /\ m_pendingSegmentJump' = m_pendingSegmentJump
      /\ m_waitForVideoRap' = (source > 0) /\ m_segmentTimeOffset' = 0
      /\ next' \in Landing(source)
  BY DEF SetUp, segmentVars
<1>2. m_active' /\ m_pendingSegmentJump' = "none"
  BY <1>1 DEF Whole, Running, Decoding, InOrder
<1>3. /\ IsMultiSegment' <=> IsMultiSegment
      /\ Asked' <=> Asked
      /\ \A k, i : Wanted(k, i)' <=> Wanted(k, i)
      /\ m_editSegments' = m_editSegments /\ m_stopPos' = m_stopPos
      /\ m_seekTarget' = m_seekTarget /\ m_virtualStart' = m_virtualStart
  BY <1>1, WantsStay
<1>4. ASSUME IsMultiSegment
      PROVE  /\ at.source \in Nat /\ at.segment \in 1 .. Len(m_editSegments)
             /\ SegmentBase(m_editSegments, at.segment) <= m_seekTarget
             /\ at.source - m_editSegments[at.segment].start
                  <= m_seekTarget - SegmentBase(m_editSegments, at.segment)
  BY <1>0, <1>4, SourceFound
<1>5. source \in Nat
  BY <1>0, <1>4
<1> HIDE DEF at
<1>6. Running'
  <2>1. IsMultiSegment => at.segment <= m_curSegment'
    BY <1>1, <1>4
  <2> QED
    BY <1>1, <1>2, <1>3, <2>1 DEF Running, at
<1>7. CASE ~Asked
  BY <1>3, <1>6, <1>7 DEF Whole, Showing
<1>8. CASE Asked
  <2>1. hasMap /\ (source = 0 \/ Mapped(source) # {})
    BY <1>8 DEF Asked, SeeksMapped, SeekSources, at
  <2> HIDE DEF source
  <2>2. /\ source = 0 => next' = 1
        /\ source # 0 => next' \in RapPoints /\ SourceTime(File[next']) <= source
        /\ \A k \in DOMAIN File :
              k < next' /\ File[k].kind = "video" => SourceTime(File[k]) < source
    BY <1>1, <1>5, <2>1, LandsBefore
  <2>3. ASSUME NEW k \in DOMAIN File, k < next' PROVE ~Wanted(k, c)
    <3> SUFFICES ASSUME File[k].kind = "video" PROVE ~(m_seekTarget <= AtProgram(k, c))
      BY DEF Wanted
    <3>1. SourceTime(File[k]) < source /\ SourceTime(File[k]) \in Nat
      BY <1>0, <2>2, <2>3, UnitTimes
    <3>2. CASE IsMultiSegment
      <4>1. /\ c = at.segment /\ source = at.source
            /\ AtProgram(k, c) = SegmentBase(m_editSegments, c)
                                   + (SourceTime(File[k]) - m_editSegments[c].start)
        BY <1>1, <3>2 DEF AtProgram, source
      <4>2. m_editSegments[c] \in Seg /\ SegmentBase(m_editSegments, c) \in Int
        <5>1. c \in 1 .. Len(m_editSegments) /\ c \in 1 .. Len(m_editSegments) + 1
              /\ m_editSegments \in Seq(Seg)
          BY <1>0, <1>4, <3>2, <4>1 DEF Opened
        <5> QED
          BY <5>1, SegmentBaseSteps
      <4> DEFINE base == SegmentBase(m_editSegments, c)
                 from == m_editSegments[c].start
                 t == SourceTime(File[k])
                 p == AtProgram(k, c)
      <4>3. /\ base \in Int /\ from \in Int /\ p = base + (t - from)
            /\ t < source /\ source - from <= m_seekTarget - base /\ t \in Int
        BY <1>4, <3>1, <3>2, <4>1, <4>2 DEF Seg
      <4> HIDE DEF base, from, t, p
      <4>4. p < m_seekTarget /\ p \in Int
        BY <1>0, <1>5, <4>3
      <4>5. ~(m_seekTarget <= p)
        BY <1>0, <4>4
      <4> QED
        BY <4>5 DEF p
    <3>3. CASE ~IsMultiSegment
      <4>1. AtProgram(k, c) = File[k].pts - m_firstPts /\ source = m_seekTarget + m_virtualStart
            /\ m_firstPts = m_origFirstPts + m_virtualStart
        BY <1>0, <3>3 DEF AtProgram, source, Opened
      <4>2. File[k].pts \in Nat /\ m_origFirstPts \in Nat
            /\ SourceTime(File[k]) = File[k].pts - m_origFirstPts
        BY FileFacts, StampFacts DEF SourceTime
      <4> QED
        BY <1>0, <3>1, <4>1, <4>2
    <3> QED
      BY <3>2, <3>3
  <2>4. Caught'
    BY <1>3, <2>3 DEF Caught
  <2>5. ASSUME NEW i \in 1 .. c - 1, NEW k \in DOMAIN File PROVE ~Wanted(k, i)
    <3>1. CASE IsMultiSegment
      <4>1. /\ c \in 1 .. Len(m_editSegments) /\ c \in 1 .. Len(m_editSegments) + 1
            /\ i \in 1 .. Len(m_editSegments) /\ i + 1 \in 1 .. Len(m_editSegments) + 1
            /\ i + 1 <= c /\ c = at.segment
            /\ m_editSegments \in Seq(Seg) /\ WithinSource(m_editSegments)
        BY <1>0, <1>1, <1>4, <3>1 DEF Opened
      <4>2. SegmentBase(m_editSegments, i + 1) <= SegmentBase(m_editSegments, c)
        BY <4>1, BaseGrows
      <4>3. /\ SegmentBase(m_editSegments, i + 1) \in Int /\ SegmentBase(m_editSegments, c) \in Int
        BY <4>1, SegmentBaseSteps
      <4>4. SegmentBase(m_editSegments, c) <= m_seekTarget
        BY <1>4, <3>1, <4>1
      <4>5. AtProgram(k, i) \in Int
            /\ (Edited(File[k], i) => AtProgram(k, i) < SegmentBase(m_editSegments, i + 1))
        BY <1>0, <3>1, <4>1, AtProgramFacts
      <4>6. Edited(File[k], i) => ~(m_seekTarget <= AtProgram(k, i))
        BY <1>0, <4>2, <4>3, <4>4, <4>5
      <4> QED
        BY <4>6 DEF Wanted
    <3>2. CASE ~IsMultiSegment
      <4>1. c = m_curSegment /\ m_curSegment = 1
        BY <1>0, <1>1, <3>2, SegmentFacts DEF IsMultiSegment
      <4> QED
        BY <4>1
    <3> QED
      BY <3>1, <3>2
  <2>6. \A i \in 1 .. c - 1 : Complete(i)'
    BY <1>3, <2>5 DEF Complete
  <2>7. ASSUME m_waitForVideoRap' PROVE RapIsNext'
    <3>1. source # 0
      <4>1. source > 0
        BY <1>1, <2>7 DEF source
      <4> QED
        BY <1>5, <4>1
    <3>2. /\ next' \in DOMAIN File /\ File[next'].kind = "video" /\ File[next'].key
          /\ SourceTime(File[next']) <= source
      BY <2>2, <3>1 DEF RapPoints
    <3>3. ASSUME NEW k \in DOMAIN File, next' <= k,
                 \A j \in DOMAIN File : next' <= j /\ j < k => File[j].kind # "video"
          PROVE  k = next'
      <4>1. next' <= next' /\ (k = next' \/ next' < k)
        BY <3>2, <3>3, FileFacts
      <4> QED
        BY <3>2, <3>3, <4>1
    <3>4. ~IsMultiSegment => source = m_seekTarget + m_virtualStart
      BY DEF source
    <3> QED
      BY <1>3, <3>2, <3>3, <3>4 DEF RapIsNext
  <2> QED
    BY <1>1, <1>2, <1>6, <2>4, <2>6, <2>7 DEF Whole, Showing
<1> QED
  BY <1>7, <1>8

LEMMA ShowingJump ==
    BeginsAtRap /\ RapsDivide /\ Inv /\ Decoding /\ Whole /\ JumpToSegment => Whole'
<1> SUFFICES ASSUME BeginsAtRap, RapsDivide, Inv, Decoding, Whole, JumpToSegment PROVE Whole'
  OBVIOUS
<1> DEFINE c == m_curSegment + 1
           source == m_editSegments[c].start
           at == SegmentAtProgram(m_editSegments, m_seekTarget)
<1>0. TypeOK /\ Opened /\ Placed /\ JumpDue /\ m_seekTarget \in Nat
  BY DEF Inv, TypeOK, Decoding
<1>1. /\ loop = "batch" /\ m_pendingSegmentJump = "next" /\ loop' = "read"
      /\ m_pendingSegmentJump' = "none" /\ m_curSegment' = c
      /\ m_active' = m_active /\ played' = played /\ UNCHANGED loaded
      /\ m_segmentTimeOffset' = m_segmentTimeOffset /\ next' \in Landing(source)
  BY DEF JumpToSegment, LoopOnly
<1>2. m_active /\ m_active'
  BY <1>1 DEF Whole, Running
<1>3. /\ IsMultiSegment' <=> IsMultiSegment
      /\ Asked' <=> Asked
      /\ \A k, i : Wanted(k, i)' <=> Wanted(k, i)
      /\ m_editSegments' = m_editSegments
      /\ m_seekTarget' = m_seekTarget /\ m_virtualStart' = m_virtualStart
  BY <1>1, WantsStay
<1>4. /\ IsMultiSegment /\ c \in 1 .. Len(m_editSegments) /\ m_curSegment \in Nat
      /\ Len(m_editSegments) \in Nat
  <2>1. m_curSegment < Len(m_editSegments)
    BY <1>0, <1>1 DEF TypeOK
  <2>2. m_curSegment \in 1 .. Len(m_editSegments) /\ IsMultiSegment /\ Len(m_editSegments) \in Nat
    BY <1>0, <2>1, SegmentFacts DEF IsMultiSegment
  <2> QED
    BY <2>1, <2>2
<1>5. at.segment <= m_curSegment /\ at.segment \in 1 .. Len(m_editSegments)
  BY <1>0, <1>1, <1>4, SourceFound DEF Whole, Running
<1>6. Running'
  <2>1. at.segment <= c
    BY <1>4, <1>5
  <2> QED
    BY <1>1, <1>2, <1>3, <2>1 DEF Running
<1>7. source \in Nat
  <2>1. m_editSegments[c] \in Seg
    <3> HIDE DEF c
    <3> QED
      BY <1>0, <1>4 DEF Opened
  <2> QED
    BY <2>1 DEF Seg
<1>8. CASE ~Asked
  BY <1>3, <1>6, <1>8 DEF Whole, Showing
<1>9. CASE Asked
  <2>1. Caught /\ \A i \in 1 .. m_curSegment - 1 : Complete(i)
    BY <1>1, <1>9 DEF Whole, Showing
  <2>2. Complete(m_curSegment)
    BY <1>0, <1>1, <2>1, DueIsComplete
  <2>3. \A i \in 1 .. c - 1 : Complete(i)
    <3>1. \A i \in 1 .. c - 1 : i \in 1 .. m_curSegment - 1 \/ i = m_curSegment
      BY <1>4
    <3> QED
      BY <2>1, <2>2, <3>1
  <2>4. \A k, i : ShownIn(k, i)' <=> ShownIn(k, i)
    BY <1>1 DEF ShownIn, Shown
  <2>5. \A i \in 1 .. c - 1 : Complete(i)'
    BY <1>3, <2>3, <2>4 DEF Complete
  <2>6. hasMap /\ (source = 0 \/ Mapped(source) # {})
    <3>1. c \in at.segment + 1 .. Len(m_editSegments)
      BY <1>4, <1>5
    <3>2. source \in SeekSources
      BY <1>4, <3>1 DEF SeekSources
    <3> QED
      BY <1>9, <3>2 DEF Asked, SeeksMapped
  <2> HIDE DEF source, c, at
  <2>7. /\ source = 0 => next' = 1
        /\ source # 0 => next' \in RapPoints
        /\ \A k \in DOMAIN File :
              k < next' /\ File[k].kind = "video" => SourceTime(File[k]) < source
    BY <1>1, <1>7, <2>6, LandsBefore
  <2>8. ASSUME NEW k \in DOMAIN File, k < next' PROVE ~Wanted(k, c)
    <3> SUFFICES ASSUME File[k].kind = "video" PROVE ~(source <= SourceTime(File[k]))
      BY <1>4 DEF Wanted, Edited, source
    <3>1. SourceTime(File[k]) < source /\ SourceTime(File[k]) \in Nat
      BY <1>0, <2>7, <2>8, UnitTimes
    <3> QED
      BY <1>7, <3>1
  <2>9. Caught'
    BY <1>1, <1>3, <2>8 DEF Caught
  <2>10. RapIsNext'
    <3>1. ASSUME NEW k \in DOMAIN File, next' <= k, File[k].kind = "video",
                 \A j \in DOMAIN File : next' <= j /\ j < k => File[j].kind # "video"
          PROVE  File[k].key
      <4>1. CASE source = 0
        <5>1. \A j \in DOMAIN File : next' <= j
          BY <2>7, <4>1, FileFacts
        <5> QED
          BY <3>1, <5>1 DEF BeginsAtRap
      <4>2. CASE source # 0
        <5>1. next' \in DOMAIN File /\ File[next'].kind = "video" /\ File[next'].key
          BY <2>7, <4>2 DEF RapPoints
        <5>2. next' <= next' /\ (k = next' \/ next' < k)
          BY <3>1, <5>1, FileFacts
        <5> QED
          BY <3>1, <5>1, <5>2
      <4> QED
        BY <4>1, <4>2
    <3> QED
      BY <1>3, <1>4, <3>1 DEF RapIsNext
  <2>11. m_segmentTimeOffset' = 0
    BY <1>1, <1>9 DEF Whole, Showing
  <2> QED
    BY <1>1, <1>2, <1>6, <2>5, <2>9, <2>10, <2>11 DEF Whole, Showing
<1> QED
  BY <1>8, <1>9

\* A picture that is wanted is shown when it is read: the wait is over at the
\* access point that the seek landed at, and no time is cut.
LEMMA ShowingVideo == Inv /\ Decoding /\ Whole /\ VideoSample => Whole'
<1> SUFFICES ASSUME Inv, Decoding, Whole, VideoSample PROVE Whole'
  OBVIOUS
<1> DEFINE u == File[next]
           time == ToSegmentTime(NormPts(u))
           entry == Handed(time, Preroll(u), 0)
<1>0. TypeOK /\ Opened /\ Placed /\ JumpDue /\ next \in Nat /\ played \in Seq(Entry)
  BY DEF Inv, TypeOK, Decoding, Entry
<1>1. /\ loop = "batch" /\ loop' = "batch" /\ next' = next + 1 /\ ~PastSegment(u)
      /\ UNCHANGED <<loaded, segmentVars>> /\ m_active /\ m_active'
      /\ m_pendingSegmentJump' = m_pendingSegmentJump /\ m_curSegment' = m_curSegment
      /\ u.kind = "video"
  BY DEF VideoSample, Demux, segmentVars
<1>2. next \in DOMAIN File
  BY VideoSampleSteps
<1>3. m_pendingSegmentJump = "none"
  BY <1>0, <1>1, <1>2 DEF JumpDue
<1>4. /\ IsMultiSegment' <=> IsMultiSegment
      /\ Asked' <=> Asked
      /\ \A k, i : Wanted(k, i)' <=> Wanted(k, i)
      /\ m_editSegments' = m_editSegments /\ m_seekTarget' = m_seekTarget
  BY <1>1, WantsStay
<1>5. Running'
  BY <1>1, <1>4 DEF Whole, Running
<1>6. CASE ~Asked
  BY <1>4, <1>5, <1>6 DEF Whole, Showing
<1>7. CASE Asked
  <2>1. /\ Caught /\ \A i \in 1 .. m_curSegment - 1 : Complete(i)
        /\ m_segmentTimeOffset = 0
        /\ m_waitForVideoRap => RapIsNext
    BY <1>1, <1>3, <1>7 DEF Whole, Showing
  <2>2. m_waitForVideoRap =>
            u.key /\ (~IsMultiSegment => SourceTime(u) <= m_seekTarget + m_virtualStart)
    <3>1. \A j \in DOMAIN File : next <= j /\ j < next => File[j].kind # "video"
      BY <1>0, FileFacts
    <3>2. next <= next
      BY <1>0
    <3> QED
      BY <1>1, <1>2, <2>1, <3>1, <3>2 DEF RapIsNext
  <2>3. /\ ~m_waitForVideoRap' /\ time \in Int /\ Preroll(u) \in BOOLEAN
        /\ m_segmentTimeOffset' =
             IF m_waitForVideoRap THEN IF IsMultiSegment THEN 0 ELSE Max({time, 0})
             ELSE m_segmentTimeOffset
        /\ \/ played' = played /\ 0 <= time /\ time < m_segmentTimeOffset'
           \/ played' = Append(played, Handed(time, Preroll(u), m_segmentTimeOffset'))
        /\ Handed(time, Preroll(u), m_segmentTimeOffset') \in Entry
    BY <2>2, VideoSampleSteps
  <2>4. ASSUME ~IsMultiSegment, m_waitForVideoRap PROVE Max({time, 0}) = 0
    <3>1. /\ SourceTime(u) = u.pts - m_origFirstPts /\ SourceTime(u) \in Nat
          /\ NormPts(u) = u.pts - m_firstPts /\ NormPts(u) \in Int
      BY <1>0, <1>2, <2>4, UnitTimes DEF SourceTime
    <3>2. /\ m_firstPts = m_origFirstPts + m_virtualStart /\ m_origFirstPts \in Nat
          /\ m_virtualStart \in Nat /\ m_seekTarget \in Nat /\ u.pts \in Nat
      BY <1>0, <1>2, FileFacts, StampFacts DEF Opened, TypeOK
    <3>3. SourceTime(u) <= m_seekTarget + m_virtualStart
      BY <2>2, <2>4
    <3> HIDE DEF u
    <3>4. NormPts(u) <= m_seekTarget
      BY <3>1, <3>2, <3>3
    <3>5. /\ NormPts(u) >= m_seekTarget => time = NormPts(u) - m_seekTarget
          /\ NormPts(u) < m_seekTarget => time <= 0
          /\ time \in Int
          /\ time >= 0 => Max({time, 0}) = time
          /\ time < 0 => Max({time, 0}) = 0
      BY <1>0, <3>1, SegmentTimeValue
    <3> HIDE DEF time
    <3> QED
      BY <3>1, <3>2, <3>4, <3>5
  <2>5. m_segmentTimeOffset' = 0
    BY <2>1, <2>3, <2>4
  <2>6. played' = Append(played, entry) /\ entry \in Entry
    <3> HIDE DEF u, time
    <3> QED
      BY <2>3, <2>5
  <2>7. \A k, i : ShownIn(k, i) => ShownIn(k, i)'
    BY <1>0, <2>6, ShownStays
  <2>8. ASSUME NEW k \in DOMAIN File, k = next, Wanted(k, m_curSegment)
        PROVE  ShownIn(k, m_curSegment)'
    <3>1. NormPts(u) = AtProgram(next, m_curSegment) /\ NormPts(u) \in Int
      BY <1>0, <1>2, AtProgramNow
    <3>2. m_seekTarget <= NormPts(u) /\ NormPts(u) <= m_stopPos /\ Edited(u, m_curSegment)
      BY <2>8, <3>1 DEF Wanted
    <3>3. /\ m_stopPos \in Nat /\ m_seekTarget \in Nat /\ SourceTime(u) \in Nat
          /\ IsMultiSegment => Segment.start \in Nat /\ Segment.end \in Nat
      BY <1>0, <1>2, UnitTimes, SegmentFacts DEF TypeOK
    <3>4. IsMultiSegment => Segment.start <= SourceTime(u) /\ SourceTime(u) < Segment.end
      BY <3>2 DEF Edited, Segment
    <3>5. ~Preroll(u)
      <4> HIDE DEF u
      <4> QED
        BY <3>1, <3>2, <3>3, <3>4 DEF Preroll
    <3>6. entry.unit = next /\ entry.segment = m_curSegment /\ entry.preroll = FALSE
      BY <2>8, <3>5 DEF Handed
    <3> HIDE DEF entry
    <3>7. Len(played) + 1 \in DOMAIN played' /\ played'[Len(played) + 1] = entry
      BY <1>0, <2>6, AppendShape
    <3> QED
      BY <1>1, <2>8, <3>6, <3>7 DEF ShownIn, Shown
  <2>9. \A k \in DOMAIN File : k < next' => k < next \/ k = next
    BY <1>0, <1>1, FileFacts
  <2>10. Caught'
    BY <1>1, <1>4, <2>1, <2>7, <2>8, <2>9 DEF Caught
  <2>11. \A i \in 1 .. m_curSegment' - 1 : Complete(i)'
    BY <1>1, <1>4, <2>1, <2>7 DEF Complete
  <2> QED
    BY <1>1, <1>5, <2>3, <2>5, <2>10, <2>11 DEF Whole, Showing
<1> QED
  BY <1>6, <1>7

LEMMA ShowingBegins == Init => Whole
BY DEF Init, Whole, Running, Showing

LEMMA ShowingStep ==
    BeginsAtRap /\ RapsDivide /\ Inv /\ Decoding /\ Whole /\ [Next]_vars => Whole'
<1>1. BeginsAtRap /\ RapsDivide /\ Inv /\ Decoding /\ Whole /\ SetUp => Whole'
  BY ShowingSetUp
<1>2. BeginsAtRap /\ RapsDivide /\ Inv /\ Decoding /\ Whole /\ JumpToSegment => Whole'
  BY ShowingJump
<1>3. Inv /\ Decoding /\ Whole
         /\ (Read \/ Finish \/ BatchEnds \/ EditEnds \/ Done \/ UNCHANGED vars) => Whole'
  BY ShowingLoop
<1>4. Inv /\ Decoding /\ Whole
         /\ (VideoPastSegment \/ VideoPastStop \/ VideoSample \/ AudioSample) => Whole'
  BY ShowingPastSegment, ShowingPastStop, ShowingVideo, ShowingAudio
<1> QED
  BY <1>1, <1>2, <1>3, <1>4 DEF Next

LEMMA WholeHolds ==
    ASSUME BeginsAtRap, RapsDivide PROVE Spec => [](Inv /\ Timeline /\ Decoding /\ Whole)
<1>1. Init => Whole
  BY ShowingBegins
<1>2. Inv /\ Timeline /\ Decoding /\ Whole /\ [Next]_vars => Whole'
  BY ShowingStep
<1> QED
  BY <1>1, <1>2, DecodingHolds, PTL DEF Spec

\* The time that the edit list gives a frame is the time that the code gives it.
LEMMA TimeOfProgram ==
    ASSUME TypeOK, Opened, NEW k \in DOMAIN File, NEW i,
           IsMultiSegment => i \in 1 .. Len(m_editSegments)
    PROVE  ProgramTime(File[k], i) = AtProgram(k, i)
<1>1. /\ SourceTime(File[k]) = File[k].pts - m_origFirstPts /\ SourceTime(File[k]) \in Nat
      /\ File[k].pts \in Nat /\ m_origFirstPts \in Nat /\ m_virtualStart \in Nat
      /\ m_firstPts = m_origFirstPts + m_virtualStart
  BY FileFacts, StampFacts DEF SourceTime, Opened, TypeOK
<1>2. CASE IsMultiSegment
  <2>1. /\ m_editSegments \in Seq(Seg) /\ WithinSource(m_editSegments)
        /\ i \in 1 .. Len(m_editSegments) /\ i \in 1 .. Len(m_editSegments) + 1
    BY <1>2 DEF Opened
  <2>2. Cardinality(Moments(m_editSegments, i - 1)) = SegmentBase(m_editSegments, i)
    BY <2>1, MomentsCounted
  <2>3. SegmentBase(m_editSegments, i) \in Nat /\ m_editSegments[i] \in Seg
    BY <2>1, SegmentBaseNat
  <2>4. m_editSegments[i].start \in Nat
    BY <2>3 DEF Seg
  <2>5. /\ ProgramTime(File[k], i) = SourceTime(File[k]) - m_editSegments[i].start
                                        + SegmentBase(m_editSegments, i)
        /\ AtProgram(k, i) = SegmentBase(m_editSegments, i)
                                 + (SourceTime(File[k]) - m_editSegments[i].start)
    BY <1>2, <2>2 DEF ProgramTime, AtProgram
  <2> QED
    BY <1>1, <2>3, <2>4, <2>5
<1>3. CASE ~IsMultiSegment
  BY <1>1, <1>3 DEF ProgramTime, AtProgram
<1> QED
  BY <1>2, <1>3

LEMMA WholeShowsEveryFrame == Inv /\ Whole => EveryFrameShown
<1> SUFFICES ASSUME Inv, Whole, loop = "done", SeeksMapped, StopsPastReordering,
                    IsMultiSegment /\ m_active => m_curSegment = Len(m_editSegments),
                    NEW n \in DOMAIN File, NEW i \in 1 .. Max({1, Len(m_editSegments)}),
                    File[n].kind = "video", Edited(File[n], i),
                    m_seekTarget <= ProgramTime(File[n], i), ProgramTime(File[n], i) <= m_stopPos
             PROVE  ShownIn(n, i)
  BY DEF EveryFrameShown, ShownIn
<1>0. TypeOK /\ Opened
  BY DEF Inv
<1>1. /\ \A j \in 1 .. m_curSegment - 1 : Complete(j)
      /\ Complete(m_curSegment)
      /\ ~m_active /\ IsMultiSegment => m_stopPos < SegmentBase(m_editSegments, m_curSegment + 1)
  BY DEF Whole, Showing, Asked
<1>2. /\ Len(m_editSegments) \in Nat
      /\ m_curSegment \in 1 .. (IF Len(m_editSegments) >= 1 THEN Len(m_editSegments) ELSE 1)
      /\ i \in 1 .. (IF Len(m_editSegments) >= 1 THEN Len(m_editSegments) ELSE 1)
  <2>1. Max({1, Len(m_editSegments)}) = IF 1 >= Len(m_editSegments) THEN 1
                                        ELSE Len(m_editSegments)
    BY <1>0, SegmentFacts, MaxOfTwo
  <2> QED
    BY <1>0, <2>1, SegmentFacts
<1>3. IsMultiSegment => i \in 1 .. Len(m_editSegments) /\ m_curSegment \in 1 .. Len(m_editSegments)
  BY <1>2 DEF IsMultiSegment
<1>4. Wanted(n, i)
  BY <1>0, <1>3, TimeOfProgram DEF Wanted
<1>5. i <= m_curSegment
  <2>1. CASE ~IsMultiSegment
    BY <1>2, <2>1 DEF IsMultiSegment
  <2>2. CASE IsMultiSegment /\ m_active
    BY <1>3, <2>2
  <2>3. CASE IsMultiSegment /\ ~m_active
    <3> SUFFICES ASSUME m_curSegment + 1 <= i PROVE FALSE
      BY <1>2
    <3>1. /\ m_editSegments \in Seq(Seg) /\ WithinSource(m_editSegments)
          /\ i \in 1 .. Len(m_editSegments) + 1 /\ m_curSegment + 1 \in 1 .. Len(m_editSegments) + 1
      BY <1>0, <1>2, <1>3, <2>3 DEF Opened
    <3>2. /\ SegmentBase(m_editSegments, m_curSegment + 1) <= SegmentBase(m_editSegments, i)
          /\ SegmentBase(m_editSegments, m_curSegment + 1) \in Nat
          /\ SegmentBase(m_editSegments, i) \in Nat
      BY <3>1, BaseGrows, SegmentBaseNat
    <3>3. SegmentBase(m_editSegments, i) <= AtProgram(n, i) /\ AtProgram(n, i) \in Int
      BY <1>0, <1>3, <2>3, AtProgramFacts
    <3>4. AtProgram(n, i) <= m_stopPos /\ m_stopPos \in Nat
      BY <1>0, <1>4 DEF Wanted, TypeOK
    <3> QED
      BY <1>1, <2>3, <3>2, <3>3, <3>4
  <2> QED
    BY <2>1, <2>2, <2>3
<1>6. i \in 1 .. m_curSegment - 1 \/ i = m_curSegment
  BY <1>2, <1>5
<1> QED
  BY <1>1, <1>4, <1>6 DEF Complete

(***************************************************************************)
(* Every frame of the edited program is shown, from the requested position *)
(* to the stop position, when every seek has a map to go by and no stop    *)
(* position lies within the reordering of the first frames.  The file      *)
(* begins at an access point, and each access point divides what is shown  *)
(* before it from what is shown after it.                                  *)
(***************************************************************************)
THEOREM EveryFrameIsShown == ASSUME BeginsAtRap, RapsDivide PROVE Spec => []EveryFrameShown
<1>1. Inv /\ Timeline /\ Decoding /\ Whole => EveryFrameShown
  BY WholeShowsEveryFrame
<1> QED
  BY <1>1, WholeHolds, PTL
=============================================================================
