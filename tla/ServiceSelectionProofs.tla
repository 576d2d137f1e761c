------------------------ MODULE ServiceSelectionProofs ------------------------
(***************************************************************************)
(* The selection of the service and of its streams, for every set of       *)
(* tables.  Lists is inductive: the lists hold the assets of the service   *)
(* that is played, under packets that are all different.  What the         *)
(* recursive OfType selects is found by induction over the assets, in the  *)
(* form that a set of naturals with 0 and all successors has them all.     *)
(***************************************************************************)
EXTENDS ServiceSelection, WellFoundedInduction, TLAPS

Less == {ss \in Nat \X Nat : ss[1] < ss[2]}

LEMMA LessIsWellFounded == IsWellFoundedOn(Less, Nat)
BY NatLessThanWellFounded, Zenon DEF Less, OpToRel

LEMMA Least ==
    ASSUME NEW T, T \subseteq Nat, T # {}
    PROVE  \E x \in T : \A y \in T : x <= y
<1>1. PICK x \in T : \A y \in T : ~(<<y, x>> \in Less)
  BY LessIsWellFounded, WFMin
<1>2. \A y \in T : <<y, x>> \in Nat \X Nat /\ y \in Nat /\ x \in Nat
  OBVIOUS
<1>3. \A y \in T : ~(y < x)
  BY <1>1, <1>2 DEF Less
<1> QED
  BY <1>2, <1>3

LEMMA Induction ==
    ASSUME NEW T, 0 \in T, \A n \in Nat : n \in T => n + 1 \in T
    PROVE  Nat \subseteq T
<1> SUFFICES ASSUME Nat \ T # {} PROVE FALSE
  OBVIOUS
<1>1. PICK x \in Nat \ T : \A y \in Nat \ T : x <= y
  BY Least
<1>2. x # 0
  BY <1>1
<1>3. x - 1 \in Nat /\ x - 1 < x /\ x = (x - 1) + 1
  BY <1>2
<1>4. x - 1 \in T
  BY <1>1, <1>3
<1> QED
  BY <1>1, <1>3, <1>4

-----------------------------------------------------------------------------
(***************************************************************************)
(* What OfType selects.                                                    *)
(***************************************************************************)
LEMMA AppendShape ==
    ASSUME NEW S, NEW s \in Seq(S), NEW x \in S
    PROVE  /\ Append(s, x) \in Seq(S)
           /\ Len(s) \in Nat /\ DOMAIN s = 1 .. Len(s)
           /\ DOMAIN Append(s, x) = 1 .. Len(s) + 1
           /\ \A n \in 1 .. Len(s) : Append(s, x)[n] = s[n]
           /\ Append(s, x)[Len(s) + 1] = x
OBVIOUS

\* The selection among the first n assets, by that among those before.
Chosen(a, type, f, n) ==
    IF n = 0 THEN <<>>
    ELSE IF a[n].type = type THEN Append(f[n - 1], a[n]) ELSE f[n - 1]

LEMMA ChosenExists ==
    ASSUME NEW a, NEW type, NEW n \in Nat
    PROVE  \E f : f = [k \in 0 .. n |-> Chosen(a, type, f, k)]
<1> DEFINE T == {m \in Nat : \E f : f = [k \in 0 .. m |-> Chosen(a, type, f, k)]}
<1>1. 0 \in T
  <2> DEFINE f == [k \in 0 .. 0 |-> <<>>]
  <2>1. f = [k \in 0 .. 0 |-> Chosen(a, type, f, k)]
    BY DEF Chosen
  <2> QED
    BY <2>1
<1>2. ASSUME NEW m \in Nat, m \in T PROVE m + 1 \in T
  <2>1. PICK f : f = [k \in 0 .. m |-> Chosen(a, type, f, k)]
    BY <1>2
  <2> DEFINE g == [k \in 0 .. m + 1 |-> IF k <= m THEN f[k] ELSE Chosen(a, type, f, k)]
  <2>2. \A k \in 0 .. m + 1 : k # 0 => k - 1 \in 0 .. m /\ g[k - 1] = f[k - 1]
    OBVIOUS
  <2>3. \A k \in 0 .. m + 1 : Chosen(a, type, g, k) = Chosen(a, type, f, k)
    <3> HIDE DEF g
    <3> QED
      BY <2>2 DEF Chosen
  <2>4. \A k \in 0 .. m + 1 : g[k] = Chosen(a, type, f, k)
    BY <2>1
  <2>5. g = [k \in 0 .. m + 1 |-> g[k]]
    OBVIOUS
  <2> HIDE DEF g
  <2>6. g = [k \in 0 .. m + 1 |-> Chosen(a, type, g, k)]
    BY <2>3, <2>4, <2>5
  <2> QED
    BY <2>6
<1> HIDE DEF T
<1>3. n \in T
  BY <1>1, <1>2, Induction
<1> QED
  BY <1>3 DEF T

\* The selection has assets of the type, and each under another packet.
Selects(q, a, type, n) ==
    /\ q \in Seq(Asset)
    /\ \A k \in DOMAIN q : \E m \in 1 .. n : q[k] = a[m] /\ a[m].type = type
    /\ \A j, k \in DOMAIN q : q[j].packet = q[k].packet => j = k

LEMMA OfTypeSelects ==
    ASSUME NEW t \in Mpt, NEW type
    PROVE  Selects(OfType(t, type), t.assets, type, Len(t.assets))
<1> DEFINE a == t.assets
           L == Len(a)
           among == CHOOSE f : f = [k \in 0 .. L |-> Chosen(a, type, f, k)]
<1>1. a \in Seq(Asset) /\ L \in Nat /\ DOMAIN a = 1 .. L
  BY ServiceAssumption
<1>2. among = [k \in 0 .. L |-> Chosen(a, type, among, k)]
  <2>1. \E f : f = [k \in 0 .. L |-> Chosen(a, type, f, k)]
    BY <1>1, ChosenExists
  <2> QED
    BY <2>1, Zenon
<1>3. OfType(t, type) = among[L]
  BY Zenon DEF OfType, Chosen
<1>4. \A n, k \in 1 .. L : a[n].packet = a[k].packet => n = k
  BY <1>1, AssetAssumption
<1> HIDE DEF among, a, L
<1> DEFINE T == {n \in Nat : n <= L => Selects(among[n], a, type, n)}
<1>5. 0 \in T
  <2>1. among[0] = <<>>
    BY <1>1, <1>2 DEF Chosen
  <2>2. Selects(<<>>, a, type, 0)
    BY DEF Selects
  <2> QED
    BY <2>1, <2>2
<1>6. ASSUME NEW n \in Nat, n \in T PROVE n + 1 \in T
  <2> SUFFICES ASSUME n + 1 <= L PROVE Selects(among[n + 1], a, type, n + 1)
    OBVIOUS
  <2> DEFINE q == among[n]
             x == a[n + 1]
  <2>1. /\ n + 1 \in 1 .. L /\ n + 1 \in 0 .. L /\ (n + 1) - 1 = n /\ n + 1 # 0
        /\ \A m \in 1 .. n : m \in 1 .. L /\ m \in 1 .. n + 1 /\ m # n + 1
        /\ n + 1 \in 1 .. n + 1
    BY <1>1
  <2>2. Selects(q, a, type, n)
    BY <1>1, <1>6
  <2>3. x \in Asset
    BY <1>1, <2>1
  <2>4. among[n + 1] = IF x.type = type THEN Append(q, x) ELSE q
    BY <1>2, <2>1 DEF Chosen
  <2> HIDE DEF q
  <2>5. CASE x.type # type
    BY <2>1, <2>2, <2>4, <2>5 DEF Selects
  <2>6. CASE x.type = type
    <3>1. /\ Append(q, x) \in Seq(Asset)
          /\ Len(q) \in Nat /\ DOMAIN q = 1 .. Len(q)
          /\ DOMAIN Append(q, x) = 1 .. Len(q) + 1
          /\ \A k \in 1 .. Len(q) : Append(q, x)[k] = q[k]
          /\ Append(q, x)[Len(q) + 1] = x
      BY <2>2, <2>3, AppendShape DEF Selects
    <3>2. \A k \in 1 .. Len(q) : q[k].packet # x.packet
      BY <1>4, <2>1, <2>2, <3>1 DEF Selects
    <3>3. \A k \in 1 .. Len(q) + 1 : k \in 1 .. Len(q) \/ k = Len(q) + 1
      BY <3>1
    <3> DEFINE r == Append(q, x)
    <3> HIDE DEF r
    <3>4. \A k \in 1 .. Len(q) + 1 : \E m \in 1 .. n + 1 : r[k] = a[m] /\ a[m].type = type
      <4> SUFFICES ASSUME NEW k \in 1 .. Len(q) + 1
                   PROVE  \E m \in 1 .. n + 1 : r[k] = a[m] /\ a[m].type = type
        OBVIOUS
      <4>1. CASE k = Len(q) + 1
        BY <2>1, <2>6, <3>1, <4>1 DEF r
      <4>2. CASE k \in 1 .. Len(q)
        BY <2>1, <2>2, <3>1, <4>2 DEF r, Selects
      <4> QED
        BY <3>3, <4>1, <4>2
    <3>5. \A j, k \in 1 .. Len(q) + 1 : r[j].packet = r[k].packet => j = k
      BY <2>2, <3>1, <3>2, <3>3 DEF r, Selects
    <3> QED
      BY <2>4, <2>6, <3>1, <3>4, <3>5 DEF r, Selects
  <2> QED
    BY <2>5, <2>6
<1> HIDE DEF T
<1>7. L \in T
  BY <1>1, <1>5, <1>6, Induction
<1> QED
  BY <1>1, <1>3, <1>7 DEF T, a, L

-----------------------------------------------------------------------------
(***************************************************************************)
(* The lists that an MPT gives.                                            *)
(***************************************************************************)
LEMMA IndexNamesPacket ==
    ASSUME NEW t \in Mpt, NEW p \in Packets(t)
    PROVE  /\ IndexIn(t, p) \in Nat
           /\ \A q \in Packets(t) : IndexIn(t, p) = IndexIn(t, q) => p = q
<1> DEFINE at(q) == CHOOSE n \in DOMAIN t.assets : t.assets[n].packet = q
<1>1. t.assets \in Seq(Asset)
  BY ServiceAssumption
<1>2. \A q \in Packets(t) : at(q) \in DOMAIN t.assets /\ t.assets[at(q)].packet = q
  BY DEF Packets
<1>3. \A q \in Packets(t) : IndexIn(t, q) = t.assets[at(q)].index
  BY DEF IndexIn
<1>4. ASSUME NEW n \in DOMAIN t.assets PROVE t.assets[n].index \in Nat
  <2>1. t.assets[n] \in Asset
    BY <1>1
  <2> QED
    BY <2>1 DEF Asset
<1>5. \A n, k \in DOMAIN t.assets : t.assets[n].index = t.assets[k].index => n = k
  BY AssetAssumption
<1> HIDE DEF at
<1> QED
  BY <1>2, <1>3, <1>4, <1>5

LEMMA OfTypeListed ==
    ASSUME NEW t \in Mpt, NEW type
    PROVE  /\ OfType(t, type) \in Seq(Asset)
           /\ \A n \in DOMAIN OfType(t, type) :
                 /\ OfType(t, type)[n] \in Asset
                 /\ OfType(t, type)[n].packet \in Packets(t)
           /\ \A n, k \in DOMAIN OfType(t, type) :
                 \/ OfType(t, type)[n].packet = OfType(t, type)[k].packet
                 \/ OfType(t, type)[n].tag = OfType(t, type)[k].tag
                 => n = k
<1> DEFINE o == OfType(t, type)
<1>1. Selects(o, t.assets, type, Len(t.assets))
  BY OfTypeSelects
<1>2. t.assets \in Seq(Asset) /\ DOMAIN t.assets = 1 .. Len(t.assets)
  BY ServiceAssumption
<1> HIDE DEF o
<1>3. o \in Seq(Asset) /\ \A n \in DOMAIN o : o[n] \in Asset
  BY <1>1 DEF Selects
<1>4. \A n \in DOMAIN o : o[n].packet \in Packets(t)
  BY <1>1, <1>2 DEF Selects, Packets
<1>5. ASSUME NEW n \in DOMAIN o, NEW k \in DOMAIN o, o[n].tag = o[k].tag
      PROVE  o[n].packet = o[k].packet
  <2>1. PICK m \in DOMAIN t.assets : o[n] = t.assets[m]
    BY <1>1, <1>2 DEF Selects
  <2>2. PICK j \in DOMAIN t.assets : o[k] = t.assets[j]
    BY <1>1, <1>2 DEF Selects
  <2>3. m = j
    BY <1>5, <2>1, <2>2, AssetAssumption
  <2> QED
    BY <2>1, <2>2, <2>3
<1>6. \A n, k \in DOMAIN o : o[n].packet = o[k].packet => n = k
  BY <1>1 DEF Selects
<1> QED
  BY <1>3, <1>4, <1>5, <1>6 DEF o

LEMMA VideosListed ==
    ASSUME NEW t \in Mpt
    PROVE  /\ Videos(t) \in Seq(Video)
           /\ \A n \in DOMAIN Videos(t) : Videos(t)[n].packet \in Packets(t)
<1> DEFINE o == OfType(t, "video")
<1>1. /\ o \in Seq(Asset)
      /\ \A n \in DOMAIN o : o[n] \in Asset /\ o[n].packet \in Packets(t)
  BY OfTypeListed
<1>2. Videos(t) = [n \in DOMAIN o |-> [packet |-> o[n].packet, tag |-> o[n].tag]]
  BY DEF Videos
<1> HIDE DEF o
<1>3. \A n \in DOMAIN o : [packet |-> o[n].packet, tag |-> o[n].tag] \in Video
  BY <1>1 DEF Asset, Video
<1>4. DOMAIN o = 1 .. Len(o) /\ Len(o) \in Nat
  BY <1>1
<1>5. Videos(t) \in Seq(Video)
  BY <1>2, <1>3, <1>4
<1> QED
  BY <1>1, <1>2, <1>5

LEMMA AudiosListed ==
    ASSUME NEW t \in Mpt
    PROVE  /\ Audios(t) \in Seq(Audio)
           /\ \A n, k \in DOMAIN Audios(t) : Audios(t)[n].tag = Audios(t)[k].tag => n = k
<1> DEFINE o == OfType(t, "audio")
<1>1. /\ o \in Seq(Asset)
      /\ \A n \in DOMAIN o : o[n] \in Asset /\ o[n].packet \in Packets(t)
      /\ \A n, k \in DOMAIN o : o[n].tag = o[k].tag => n = k
  BY OfTypeListed
<1>2. Audios(t) = [n \in DOMAIN o |-> [packet |-> o[n].packet, tag |-> o[n].tag,
                                       index |-> IndexIn(t, o[n].packet)]]
  BY DEF Audios
<1> HIDE DEF o
<1>3. \A n \in DOMAIN o : IndexIn(t, o[n].packet) \in Nat
  BY <1>1, IndexNamesPacket
<1>4. \A n \in DOMAIN o : [packet |-> o[n].packet, tag |-> o[n].tag,
                           index |-> IndexIn(t, o[n].packet)] \in Audio
  BY <1>1, <1>3 DEF Asset, Audio, Index
<1>5. DOMAIN o = 1 .. Len(o) /\ Len(o) \in Nat
  BY <1>1
<1>6. Audios(t) \in Seq(Audio)
  BY <1>2, <1>4, <1>5
<1> QED
  BY <1>1, <1>2, <1>6

\* Every packet and every index is of one entry.
PacketsDiffer(streams) ==
    \A n, k \in DOMAIN streams : streams[n].packet = streams[k].packet => n = k

IndexesDiffer(streams) ==
    \A n, k \in DOMAIN streams :
        streams[n].index = streams[k].index /\ n # k => streams[n].index = -1

LEMMA SubtitlesListed ==
    ASSUME NEW t \in Mpt, NEW known
    PROVE  /\ Subtitles(t, known) \in Seq(Subtitle)
           /\ \A n \in DOMAIN Subtitles(t, known) : Subtitles(t, known)[n].packet \in Packets(t)
           /\ PacketsDiffer(Subtitles(t, known))
           /\ IndexesDiffer(Subtitles(t, known))
<1> DEFINE o == OfType(t, "subtitle")
           seen == [n \in DOMAIN o |-> \E k \in DOMAIN known : known[k].packet = o[n].packet
                                                               /\ known[k].hasData]
           q == Subtitles(t, known)
<1>1. /\ o \in Seq(Asset)
      /\ \A n \in DOMAIN o : o[n] \in Asset /\ o[n].packet \in Packets(t)
      /\ \A n, k \in DOMAIN o : o[n].packet = o[k].packet => n = k
  BY OfTypeListed
<1>2. \A n \in DOMAIN o : seen[n] \in BOOLEAN
  OBVIOUS
<1>3. q = [n \in DOMAIN o |-> [packet |-> o[n].packet, tag |-> o[n].tag,
                               index |-> IndexIn(t, o[n].packet), hasData |-> seen[n]]]
  BY DEF Subtitles
<1> HIDE DEF o, seen, q
<1>4. \A n \in DOMAIN o : IndexIn(t, o[n].packet) \in Nat
  BY <1>1, IndexNamesPacket
<1>5. \A n \in DOMAIN o :
        [packet |-> o[n].packet, tag |-> o[n].tag,
         index |-> IndexIn(t, o[n].packet), hasData |-> seen[n]] \in Subtitle
  BY <1>1, <1>2, <1>4 DEF Asset, Subtitle, Index
<1>6. DOMAIN o = 1 .. Len(o) /\ Len(o) \in Nat
  BY <1>1
<1>7. q \in Seq(Subtitle)
  BY <1>3, <1>5, <1>6
<1>8. \A n, k \in DOMAIN o : IndexIn(t, o[n].packet) = IndexIn(t, o[k].packet) => n = k
  BY <1>1, IndexNamesPacket
<1>9. /\ DOMAIN q = DOMAIN o
      /\ \A n \in DOMAIN o : q[n].packet = o[n].packet /\ q[n].index = IndexIn(t, o[n].packet)
  BY <1>3
<1>10. PacketsDiffer(q) /\ IndexesDiffer(q)
  BY <1>1, <1>8, <1>9 DEF PacketsDiffer, IndexesDiffer
<1> QED
  BY <1>1, <1>7, <1>9, <1>10 DEF q

-----------------------------------------------------------------------------
(***************************************************************************)
(* What is found in a list, and the selection of the video.                *)
(***************************************************************************)
LEMMA LeastPlace ==
    ASSUME NEW S, NEW s \in Seq(S), NEW T, T \subseteq DOMAIN s, T # {}
    PROVE  \E n \in T : \A k \in 1 .. n - 1 : k \in DOMAIN s /\ k \notin T
<1>1. DOMAIN s = 1 .. Len(s) /\ Len(s) \in Nat
  OBVIOUS
<1>2. T \subseteq Nat
  BY <1>1
<1>3. PICK n \in T : \A k \in T : n <= k
  BY <1>2, Least
<1>4. \A k \in 1 .. n - 1 : k \in DOMAIN s /\ ~(n <= k)
  BY <1>1
<1> QED
  BY <1>3, <1>4

LEMMA DefaultListed ==
    ASSUME NEW streams \in Seq(Video), streams # <<>>
    PROVE  \E n \in DOMAIN streams : DefaultVideo(streams) = streams[n]
<1> DEFINE tags == {streams[n].tag : n \in DOMAIN streams}
           T == {n \in DOMAIN streams : \A k \in DOMAIN streams :
                                            streams[n].tag <= streams[k].tag}
<1>1. \A n \in DOMAIN streams : streams[n] \in Video
  OBVIOUS
<1>2. tags \subseteq Nat
  BY <1>1, ServiceAssumption DEF Video
<1>3. 1 \in DOMAIN streams
  OBVIOUS
<1>4. PICK x \in tags : \A y \in tags : x <= y
  <2>1. tags # {}
    BY <1>3
  <2> HIDE DEF tags
  <2> QED
    BY <1>2, <2>1, Least
<1>5. T # {}
  BY <1>4
<1>6. \E n \in T : \A k \in 1 .. n - 1 : k \in DOMAIN streams /\ k \notin T
  <2> HIDE DEF T
  <2>1. T \subseteq DOMAIN streams
    BY DEF T
  <2> QED
    BY <1>5, <2>1, LeastPlace
<1> DEFINE m == CHOOSE n \in DOMAIN streams :
                   /\ \A k \in DOMAIN streams : streams[n].tag <= streams[k].tag
                   /\ \A j \in 1 .. n - 1 :
                         ~(\A k \in DOMAIN streams : streams[j].tag <= streams[k].tag)
<1>7. m \in DOMAIN streams
  BY <1>6
<1>8. DefaultVideo(streams) = streams[m]
  BY Zenon DEF DefaultVideo, First, FirstAt
<1> HIDE DEF m
<1> QED
  BY <1>7, <1>8

LEMMA FirstWithTag ==
    ASSUME NEW S, NEW streams \in Seq(S), NEW tag, \E n \in DOMAIN streams : streams[n].tag = tag
    PROVE  \E n \in DOMAIN streams : /\ streams[n].tag = tag
                                     /\ First(streams, LAMBDA v : v.tag = tag) = streams[n]
<1> DEFINE T == {n \in DOMAIN streams : streams[n].tag = tag}
<1>1. \E n \in T : \A k \in 1 .. n - 1 : k \in DOMAIN streams /\ k \notin T
  <2> HIDE DEF T
  <2>1. T \subseteq DOMAIN streams /\ T # {}
    BY DEF T
  <2> QED
    BY <2>1, LeastPlace
<1> DEFINE m == CHOOSE n \in DOMAIN streams :
                   streams[n].tag = tag /\ \A k \in 1 .. n - 1 : ~(streams[k].tag = tag)
<1>2. m \in DOMAIN streams /\ streams[m].tag = tag
  BY <1>1
<1>3. First(streams, LAMBDA v : v.tag = tag) = streams[m]
  BY Zenon DEF First, FirstAt
<1> HIDE DEF m
<1> QED
  BY <1>2, <1>3

\* The selected video has the packet of one that is listed.
VideoIn(streams, selected) ==
    streams # <<>> => /\ selected # <<>>
                      /\ \E n \in DOMAIN streams : streams[n].packet = selected[1].packet

LEMMA SelectionListed ==
    ASSUME NEW streams \in Seq(Video), NEW selected \in Optional(Video)
    PROVE  /\ EnsureVideoSelection(streams, selected) \in Optional(Video)
           /\ VideoIn(streams, EnsureVideoSelection(streams, selected))
<1>1. \A n \in DOMAIN streams : /\ streams[n] \in Video
                                /\ <<streams[n]>> # <<>> /\ <<streams[n]>>[1] = streams[n]
                                /\ <<streams[n]>> \in Optional(Video)
  BY DEF Optional
<1> DEFINE r == EnsureVideoSelection(streams, selected)
<1>2. CASE streams = <<>>
  BY <1>2 DEF EnsureVideoSelection, VideoIn
<1>3. CASE streams # <<>> /\ r = <<DefaultVideo(streams)>>
  <2>1. PICK n \in DOMAIN streams : DefaultVideo(streams) = streams[n]
    BY <1>3, DefaultListed
  <2> HIDE DEF r
  <2> QED
    BY <1>1, <1>3, <2>1 DEF VideoIn, r
<1>4. CASE /\ streams # <<>> /\ selected # <<>> /\ r = selected
           /\ \E n \in DOMAIN streams : streams[n].packet = selected[1].packet
  BY <1>4 DEF VideoIn
<1>5. CASE /\ streams # <<>>
           /\ r = <<First(streams, LAMBDA v : v.tag = selected[1].tag)>>
           /\ \E n \in DOMAIN streams : streams[n].tag = selected[1].tag
  <2>1. PICK n \in DOMAIN streams :
            First(streams, LAMBDA v : v.tag = selected[1].tag) = streams[n]
    BY <1>5, FirstWithTag
  <2>2. r = <<streams[n]>>
    BY <1>5, <2>1, Zenon
  <2> HIDE DEF r
  <2> QED
    BY <1>1, <2>2 DEF VideoIn, r
<1>6. \/ streams = <<>>
      \/ r = <<DefaultVideo(streams)>>
      \/ /\ selected # <<>> /\ r = selected
         /\ \E n \in DOMAIN streams : streams[n].packet = selected[1].packet
      \/ /\ r = <<First(streams, LAMBDA v : v.tag = selected[1].tag)>>
         /\ \E n \in DOMAIN streams : streams[n].tag = selected[1].tag
  BY Zenon DEF EnsureVideoSelection, Has
<1> HIDE DEF r
<1> QED
  BY <1>2, <1>3, <1>4, <1>5, <1>6 DEF r

-----------------------------------------------------------------------------
(***************************************************************************)
(* What subtitle data do to the list of the subtitles.                     *)
(***************************************************************************)
DataStream == [packet : Packet, tag : Tag, index : Nat]

\* The list has the entry once, and otherwise what it had.
Holds(listed, streams, entry) ==
    /\ listed \in Seq(Subtitle) /\ PacketsDiffer(listed)
    /\ \A n \in DOMAIN listed : listed[n] = entry \/ \E k \in DOMAIN streams : listed[n] = streams[k]

LEMMA EntryReplaced ==
    ASSUME NEW streams \in Seq(Subtitle), PacketsDiffer(streams), NEW entry \in Subtitle,
           NEW m \in DOMAIN streams,
           \A k \in DOMAIN streams : streams[k].packet = entry.packet => k = m
    PROVE  Holds([streams EXCEPT ![m] = entry], streams, entry)
<1> DEFINE q == [streams EXCEPT ![m] = entry]
<1>1. /\ q \in Seq(Subtitle) /\ DOMAIN q = DOMAIN streams /\ q[m] = entry
      /\ \A k \in DOMAIN streams : k # m => q[k] = streams[k]
  OBVIOUS
<1> HIDE DEF q
<1>2. PacketsDiffer(q)
  BY <1>1 DEF PacketsDiffer
<1>3. Holds(q, streams, entry)
  BY <1>1, <1>2 DEF Holds
<1> QED
  BY <1>3 DEF q

LEMMA EntryAppended ==
    ASSUME NEW streams \in Seq(Subtitle), PacketsDiffer(streams), NEW entry \in Subtitle,
           \A k \in DOMAIN streams : streams[k].packet # entry.packet
    PROVE  Holds(Append(streams, entry), streams, entry)
<1> DEFINE q == Append(streams, entry)
<1>1. /\ q \in Seq(Subtitle)
      /\ Len(streams) \in Nat /\ DOMAIN streams = 1 .. Len(streams)
      /\ DOMAIN q = 1 .. Len(streams) + 1
      /\ \A n \in 1 .. Len(streams) : q[n] = streams[n]
      /\ q[Len(streams) + 1] = entry
  BY AppendShape
<1> HIDE DEF q
<1>2. \A n \in DOMAIN q : n \in DOMAIN streams \/ n = Len(streams) + 1
  BY <1>1
<1>3. PacketsDiffer(q)
  BY <1>1, <1>2 DEF PacketsDiffer
<1>4. Holds(q, streams, entry)
  BY <1>1, <1>2, <1>3 DEF Holds
<1> QED
  BY <1>4 DEF q

LEMMA IndexReleased ==
    ASSUME NEW listed \in Seq(Subtitle), PacketsDiffer(listed), NEW s \in DataStream
    PROVE  LET q == ReleaseIndex(listed, s)
           IN  /\ q \in Seq(Subtitle) /\ DOMAIN q = DOMAIN listed
               /\ \A n \in DOMAIN q :
                     /\ q[n].packet = listed[n].packet
                     /\ q[n].index = IF listed[n].index = s.index /\ listed[n].packet # s.packet
                                     THEN -1 ELSE listed[n].index
<1> DEFINE q == ReleaseIndex(listed, s)
<1>1. q = [n \in DOMAIN listed |->
             IF listed[n].index = s.index /\ listed[n].packet # s.packet
             THEN [listed[n] EXCEPT !.index = -1] ELSE listed[n]]
  BY DEF ReleaseIndex
<1>2. \A n \in DOMAIN listed : listed[n] \in Subtitle
  OBVIOUS
<1>3. \A n \in DOMAIN listed :
        /\ [listed[n] EXCEPT !.index = -1] \in Subtitle
        /\ [listed[n] EXCEPT !.index = -1].packet = listed[n].packet
        /\ [listed[n] EXCEPT !.index = -1].index = -1
  BY <1>2 DEF Subtitle
<1>4. DOMAIN listed = 1 .. Len(listed) /\ Len(listed) \in Nat
  OBVIOUS
<1> HIDE DEF q
<1>5. \A n \in DOMAIN listed :
        /\ q[n] \in Subtitle /\ q[n].packet = listed[n].packet
        /\ q[n].index = IF listed[n].index = s.index /\ listed[n].packet # s.packet
                        THEN -1 ELSE listed[n].index
  BY <1>1, <1>2, <1>3
<1>6. q \in Seq(Subtitle) /\ DOMAIN q = DOMAIN listed
  BY <1>1, <1>4, <1>5
<1> QED
  BY <1>5, <1>6 DEF q

LEMMA SubtitleRemembered ==
    ASSUME NEW streams \in Seq(Subtitle), PacketsDiffer(streams), IndexesDiffer(streams),
           NEW s \in DataStream
    PROVE  LET q == RememberSubtitle(streams, s)
           IN  /\ q \in Seq(Subtitle) /\ PacketsDiffer(q) /\ IndexesDiffer(q)
               /\ \A n \in DOMAIN q : \/ q[n].packet = s.packet
                                      \/ \E k \in DOMAIN streams : q[n].packet = streams[k].packet
<1> DEFINE entry == [packet |-> s.packet, tag |-> s.tag, index |-> s.index, hasData |-> TRUE]
           Known(e) == e.packet = s.packet
           Companion(e) == IsCaption(s.tag) /\ ~e.hasData /\ e.tag = s.tag + 8
           atKnown == CHOOSE n \in DOMAIN streams :
                         Known(streams[n]) /\ \A k \in 1 .. n - 1 : ~Known(streams[k])
           atCompanion == CHOOSE n \in DOMAIN streams :
                         Companion(streams[n]) /\ \A k \in 1 .. n - 1 : ~Companion(streams[k])
           known == \E n \in DOMAIN streams : Known(streams[n])
           companion == \E n \in DOMAIN streams : Companion(streams[n])
           listed == IF known THEN [streams EXCEPT ![atKnown] = entry]
                     ELSE IF companion THEN [streams EXCEPT ![atCompanion] = entry]
                     ELSE Append(streams, entry)
           moved == ~\E n \in DOMAIN streams :
                       SameIdentity(streams[n], s) /\ streams[n].index = s.index
           q == RememberSubtitle(streams, s)
<1>1. q = IF moved THEN ReleaseIndex(listed, s) ELSE listed
  BY Zenon DEF RememberSubtitle, Has, FirstAt
<1>2. entry \in Subtitle /\ entry.packet = s.packet /\ entry.index = s.index
  BY DEF Subtitle, DataStream, Index
<1>3. known => atKnown \in DOMAIN streams /\ Known(streams[atKnown])
  <2> DEFINE T == {n \in DOMAIN streams : Known(streams[n])}
  <2>1. ASSUME known PROVE \E n \in T : \A k \in 1 .. n - 1 : k \in DOMAIN streams /\ k \notin T
    <3>1. T \subseteq DOMAIN streams /\ T # {}
      BY <2>1
    <3> HIDE DEF T, known
    <3> QED
      BY <3>1, LeastPlace
  <2> QED
    BY <2>1
<1>4. companion => atCompanion \in DOMAIN streams
  <2> DEFINE T == {n \in DOMAIN streams : Companion(streams[n])}
  <2>1. ASSUME companion
        PROVE  \E n \in T : \A k \in 1 .. n - 1 : k \in DOMAIN streams /\ k \notin T
    <3>1. T \subseteq DOMAIN streams /\ T # {}
      BY <2>1
    <3> HIDE DEF T, companion
    <3> QED
      BY <3>1, LeastPlace
  <2> QED
    BY <2>1
<1>5. known <=> \E n \in DOMAIN streams : streams[n].packet = s.packet
  OBVIOUS
<1>6. known => streams[atKnown].packet = s.packet
  BY <1>3
<1> HIDE DEF entry, Companion, Known, atKnown, atCompanion, known, companion, q
<1>7. Holds(listed, streams, entry)
  <2>1. CASE known
    <3>1. \A k \in DOMAIN streams : streams[k].packet = entry.packet => k = atKnown
      BY <1>2, <1>3, <1>6, <2>1 DEF PacketsDiffer
    <3> QED
      BY <1>2, <1>3, <2>1, <3>1, EntryReplaced
  <2>2. CASE ~known /\ companion
    <3>1. \A k \in DOMAIN streams : streams[k].packet = entry.packet => k = atCompanion
      BY <1>2, <1>5, <2>2
    <3> QED
      BY <1>2, <1>4, <2>2, <3>1, EntryReplaced
  <2>3. CASE ~known /\ ~companion
    <3>1. \A k \in DOMAIN streams : streams[k].packet # entry.packet
      BY <1>2, <1>5, <2>3
    <3> QED
      BY <1>2, <2>3, <3>1, EntryAppended
  <2> QED
    BY <2>1, <2>2, <2>3
<1>8. CASE moved
  <2> HIDE DEF listed, moved
  <2>1. q = ReleaseIndex(listed, s)
    BY <1>1, <1>8
  <2>2. /\ q \in Seq(Subtitle) /\ DOMAIN q = DOMAIN listed
        /\ \A n \in DOMAIN q :
              /\ q[n].packet = listed[n].packet
              /\ q[n].index = IF listed[n].index = s.index /\ listed[n].packet # s.packet
                              THEN -1 ELSE listed[n].index
    BY <1>7, <2>1, IndexReleased DEF Holds
  <2>3. PacketsDiffer(q)
    BY <1>7, <2>2 DEF PacketsDiffer, Holds
  <2>4. \A n \in DOMAIN q : \/ q[n].packet = s.packet
                            \/ \E k \in DOMAIN streams : q[n].packet = streams[k].packet
    BY <1>2, <1>7, <2>2 DEF Holds
  <2>5. ASSUME NEW n \in DOMAIN q, NEW k \in DOMAIN q, q[n].index = q[k].index, n # k
        PROVE  q[n].index = -1
    <3>1. /\ listed[n] = entry \/ \E j \in DOMAIN streams : listed[n] = streams[j]
          /\ listed[k] = entry \/ \E j \in DOMAIN streams : listed[k] = streams[j]
          /\ listed[n].packet # listed[k].packet
      BY <1>7, <2>2, <2>5 DEF Holds, PacketsDiffer
    <3>2. CASE listed[n] = entry \/ listed[k] = entry
      BY <1>2, <2>2, <2>5, <3>1, <3>2
    <3>3. CASE listed[n] # entry /\ listed[k] # entry
      <4>1. PICK i, j \in DOMAIN streams : listed[n] = streams[i] /\ listed[k] = streams[j]
        BY <3>1, <3>3
      <4>2. i # j
        BY <3>1, <4>1
      <4>3. streams[i].index = streams[j].index => streams[i].index = -1
        BY <4>2 DEF IndexesDiffer
      <4> QED
        BY <2>2, <2>5, <4>1, <4>3
    <3> QED
      BY <3>2, <3>3
  <2> QED
    BY <2>2, <2>3, <2>4, <2>5 DEF IndexesDiffer, q
<1>9. CASE ~moved
  <2>1. PICK m \in DOMAIN streams : streams[m].packet = s.packet /\ streams[m].index = s.index
    BY <1>9 DEF SameIdentity
  <2>2. known /\ atKnown = m
    BY <1>3, <1>5, <1>6, <2>1 DEF PacketsDiffer
  <2>3. q = [streams EXCEPT ![m] = entry]
    BY <1>1, <1>9, <2>2
  <2>4. DOMAIN q = DOMAIN streams /\ \A n \in DOMAIN q : q[n].index = streams[n].index
    BY <1>2, <2>1, <2>3
  <2>5. IndexesDiffer(q)
    BY <2>4 DEF IndexesDiffer
  <2>6. Holds(q, streams, entry)
    BY <1>1, <1>7, <1>9
  <2>7. \A n \in DOMAIN q : \/ q[n].packet = s.packet
                            \/ \E k \in DOMAIN streams : q[n].packet = streams[k].packet
    BY <1>2, <2>6 DEF Holds
  <2> QED
    BY <2>5, <2>6, <2>7 DEF Holds, q
<1> QED
  BY <1>8, <1>9 DEF q

-----------------------------------------------------------------------------
(***************************************************************************)
(* The inductive invariant.                                                *)
(***************************************************************************)
\* Without a service there was a PLT that listed none, and no MPT since.
ServiceKnown ==
    /\ m_serviceId = m_selectedPackage
    /\ m_selectedPackage = <<>> => m_availablePackages # <<>> /\ ~fresh

ProgramKnown == m_programId # <<>> => m_serviceId = <<m_programId[1].service>>

\* Once the service's MPT has come, the lists are the service's, and the video
\* that is selected is in its list.
Accepted == /\ \A n \in DOMAIN m_videoStreams : AcceptsPacket(m_videoStreams[n].packet)
            /\ \A n \in DOMAIN m_subtitleStreams : AcceptsPacket(m_subtitleStreams[n].packet)

Lists == fresh => Accepted /\ VideoIn(m_videoStreams, m_selectedVideo)

SubtitlesDiffer == PacketsDiffer(m_subtitleStreams) /\ IndexesDiffer(m_subtitleStreams)

\* The audio list is locked.
AudioTags ==
    \A n, k \in DOMAIN m_audioStreams : m_audioStreams[n].tag = m_audioStreams[k].tag => n = k

Inv == /\ TypeOK /\ ServiceKnown /\ ProgramKnown /\ Lists /\ SubtitlesDiffer /\ AudioTags

LEMMA OptionalShape ==
    ASSUME NEW S
    PROVE  /\ <<>> \in Optional(S)
           /\ \A e \in S : <<e>> \in Optional(S) /\ <<e>> # <<>> /\ <<e>>[1] = e
           /\ \A x \in Optional(S) : x # <<>> => x[1] \in S /\ x = <<x[1]>>
BY DEF Optional

LEMMA AssetsTyped ==
    ASSUME NEW t \in Mpt
    PROVE  t.package \in Package /\ Packets(t) \in SUBSET Packet
<1>1. t.package \in Package /\ t.assets \in Seq(Asset)
  BY ServiceAssumption
<1>2. \A n \in DOMAIN t.assets : t.assets[n] \in Asset
  BY <1>1
<1> QED
  BY <1>1, <1>2 DEF Packets, Asset

LEMMA InvInit == Init => Inv
<1> SUFFICES ASSUME Init PROVE Inv
  OBVIOUS
<1>1. PICK t \in Scanned :
        /\ m_selectedPackage = <<t.package>> /\ m_serviceId = <<t.package>>
        /\ m_availablePackages \in Optional({S \in SUBSET Package : t.package \in S})
        /\ m_packagePackets = [p \in Package |-> IF p = t.package THEN <<Packets(t)>> ELSE <<>>]
        /\ table = [p \in Package |-> IF p = t.package THEN <<t>> ELSE <<>>]
        /\ m_programId = <<>>
        /\ m_videoStreams = Videos(t)
        /\ m_selectedVideo = EnsureVideoSelection(Videos(t), <<>>)
        /\ m_subtitleStreams = Subtitles(t, <<>>)
        /\ m_audioStreams = Audios(t)
        /\ fresh = TRUE
  BY Zenon DEF Init
<1>2. t \in Mpt /\ t.package \in Package /\ Packets(t) \in SUBSET Packet
  BY ServiceAssumption, AssetsTyped
<1>3. /\ m_videoStreams \in Seq(Video) /\ m_selectedVideo \in Optional(Video)
      /\ VideoIn(m_videoStreams, m_selectedVideo)
  <2>1. Videos(t) \in Seq(Video) /\ <<>> \in Optional(Video)
    BY <1>2, VideosListed, OptionalShape
  <2> QED
    BY <1>1, <2>1, SelectionListed
<1>4. m_subtitleStreams \in Seq(Subtitle) /\ SubtitlesDiffer
  BY <1>1, <1>2, SubtitlesListed DEF SubtitlesDiffer
<1>5. m_audioStreams \in Seq(Audio) /\ AudioTags
  BY <1>1, <1>2, AudiosListed DEF AudioTags
<1>6. /\ m_availablePackages \in Optional(SUBSET Package)
      /\ m_selectedPackage \in Optional(Package) /\ m_serviceId \in Optional(Package)
  BY <1>1, <1>2 DEF Optional
<1>7. /\ m_packagePackets \in [Package -> Optional(SUBSET Packet)]
      /\ table \in [Package -> Optional(Mpt)]
  BY <1>1, <1>2 DEF Optional
<1>8. TypeOK
  BY <1>1, <1>3, <1>4, <1>5, <1>6, <1>7, OptionalShape DEF TypeOK
<1>9. Accepted
  <2>1. \A p \in Packets(t) : AcceptsPacket(p)
    BY <1>1, <1>2 DEF AcceptsPacket
  <2> QED
    BY <1>1, <1>2, <2>1, VideosListed, SubtitlesListed DEF Accepted
<1>10. ServiceKnown /\ ProgramKnown
  BY <1>1, <1>2, OptionalShape DEF ServiceKnown, ProgramKnown
<1> QED
  BY <1>3, <1>4, <1>5, <1>8, <1>9, <1>10 DEF Inv, Lists

(***************************************************************************)
(* What the tables do to the service and to what it accepts.               *)
(***************************************************************************)
ServiceTyped ==
    /\ m_availablePackages \in Optional(SUBSET Package)
    /\ m_selectedPackage \in Optional(Package) /\ m_serviceId \in Optional(Package)
    /\ m_packagePackets \in [Package -> Optional(SUBSET Packet)]
    /\ m_programId \in Optional([service : Package, event : Event])
    /\ table \in [Package -> Optional(Mpt)] /\ fresh \in BOOLEAN

StreamsTyped ==
    /\ m_videoStreams \in Seq(Video) /\ m_selectedVideo \in Optional(Video)
    /\ m_subtitleStreams \in Seq(Subtitle) /\ m_audioStreams \in Seq(Audio)

LEMMA TypeParts == TypeOK <=> ServiceTyped /\ StreamsTyped
BY Zenon DEF TypeOK, ServiceTyped, StreamsTyped

LEMMA TypePartsNext == TypeOK' <=> ServiceTyped' /\ StreamsTyped'
BY TypeParts, PTL

LEMMA PltTaken ==
    ASSUME ServiceTyped, ServiceKnown, ProgramKnown, NEW plt \in Plt, OnPlt(plt)
    PROVE  /\ ServiceTyped' /\ ServiceKnown' /\ ProgramKnown'
           /\ fresh' => fresh /\ \A p : AcceptsPacket(p) => AcceptsPacket(p)'
<1> DEFINE first == FirstOf(plt)
<1>1. plt \in Seq(Package) /\ \A n \in DOMAIN plt : plt[n] \in Package
  BY ServiceAssumption
<1>2. ToSet(plt) \subseteq Package
  BY <1>1 DEF ToSet
<1>3. /\ first \in Optional(Package)
      /\ first # <<>> => first[1] \in ToSet(plt)
  <2>1. plt # <<>> => plt[1] \in Package /\ plt[1] \in ToSet(plt)
    BY <1>1 DEF ToSet
  <2> QED
    BY <2>1, OptionalShape DEF FirstOf
<1> HIDE DEF first
<1>4. /\ m_availablePackages' = <<ToSet(plt)>>
      /\ m_packagePackets' = [p \in Package |-> IF p \in ToSet(plt) THEN m_packagePackets[p]
                                                ELSE <<>>]
      /\ table' = table
  BY DEF OnPlt, TakePlt
<1>5. /\ m_availablePackages' \in Optional(SUBSET Package) /\ m_availablePackages' # <<>>
      /\ m_packagePackets' \in [Package -> Optional(SUBSET Packet)]
      /\ table' \in [Package -> Optional(Mpt)]
  BY <1>2, <1>4 DEF ServiceTyped, Optional
<1>6. CASE StillListed(plt)
  <2>1. UNCHANGED <<m_selectedPackage, m_serviceId, m_programId, fresh>>
    BY <1>6 DEF OnPlt, TakePlt
  <2>2. m_selectedPackage # <<>> /\ m_selectedPackage[1] \in ToSet(plt)
        /\ m_selectedPackage[1] \in Package
    BY <1>2, <1>6 DEF StillListed
  <2>3. m_packagePackets'[m_selectedPackage[1]] = m_packagePackets[m_selectedPackage[1]]
    BY <1>4, <2>2
  <2>4. \A p : AcceptsPacket(p) => AcceptsPacket(p)'
    BY <2>1, <2>2, <2>3 DEF AcceptsPacket
  <2> QED
    BY <1>5, <2>1, <2>2, <2>4 DEF ServiceTyped, ServiceKnown, ProgramKnown
<1>7. CASE ~StillListed(plt) /\ m_selectedPackage = first
  <2>1. m_selectedPackage = <<>>
    BY <1>3, <1>7 DEF StillListed
  <2>2. UNCHANGED <<m_selectedPackage, m_serviceId, m_programId, fresh>>
    BY <1>7 DEF OnPlt, TakePlt, first
  <2>3. ~fresh'
    BY <2>1, <2>2 DEF ServiceKnown
  <2> QED
    BY <1>5, <2>2, <2>3 DEF ServiceTyped, ServiceKnown, ProgramKnown
<1>8. CASE ~StillListed(plt) /\ m_selectedPackage # first
  <2>1. /\ m_selectedPackage' = first /\ m_serviceId' = first
        /\ m_programId' = <<>> /\ fresh' = FALSE
    BY <1>8 DEF OnPlt, TakePlt, first
  <2> QED
    BY <1>3, <1>5, <2>1, OptionalShape DEF ServiceTyped, ServiceKnown, ProgramKnown
<1> QED
  BY <1>6, <1>7, <1>8

\* An MPT of another service changes nothing that is played; one of the service
\* replaces the lists and what is accepted.
LEMMA MptTaken ==
    ASSUME ServiceTyped, ServiceKnown, ProgramKnown, NEW t \in Mpt, OnMpt(t)
    PROVE  /\ ServiceTyped' /\ ServiceKnown' /\ ProgramKnown'
           /\ \/ /\ UNCHANGED <<streamVars, fresh>>
                 /\ fresh => \A p : AcceptsPacket(p) => AcceptsPacket(p)'
              \/ /\ m_videoStreams' = Videos(t)
                 /\ m_selectedVideo' = EnsureVideoSelection(Videos(t), m_selectedVideo)
                 /\ m_subtitleStreams' = Subtitles(t, m_subtitleStreams)
                 /\ \A p \in Packets(t) : AcceptsPacket(p)'
<1> DEFINE k == t.package
<1>1. k \in Package /\ Packets(t) \in SUBSET Packet
  BY AssetsTyped
<1>2. /\ <<t>> \in Optional(Mpt) /\ <<Packets(t)>> \in Optional(SUBSET Packet)
      /\ <<k>> \in Optional(Package) /\ <<k>> # <<>> /\ <<k>>[1] = k
      /\ m_selectedPackage # <<>> =>
            m_selectedPackage[1] \in Package /\ m_selectedPackage = <<m_selectedPackage[1]>>
  BY <1>1, OptionalShape DEF ServiceTyped
<1>3. table' = [table EXCEPT ![k] = <<t>>] /\ UNCHANGED <<m_availablePackages, m_programId>>
  BY DEF OnMpt, TakeMpt
<1>4. table' \in [Package -> Optional(Mpt)]
  BY <1>1, <1>2, <1>3 DEF ServiceTyped
<1>5. CASE NotOnAir(k)
  <2>1. UNCHANGED <<m_packagePackets, m_selectedPackage, m_serviceId, streamVars, fresh>>
    BY <1>5 DEF OnMpt, TakeMpt
  <2>2. \A p : AcceptsPacket(p) => AcceptsPacket(p)'
    BY <1>3, <2>1 DEF AcceptsPacket
  <2> QED
    BY <1>3, <1>4, <2>1, <2>2 DEF ServiceTyped, ServiceKnown, ProgramKnown
<1>6. CASE ~NotOnAir(k) /\ m_selectedPackage \notin {<<>>, <<k>>}
  <2>1. /\ m_packagePackets' = [m_packagePackets EXCEPT ![k] = <<Packets(t)>>]
        /\ UNCHANGED <<m_selectedPackage, m_serviceId, streamVars, fresh>>
    BY <1>6 DEF OnMpt, TakeMpt
  <2>2. m_packagePackets' \in [Package -> Optional(SUBSET Packet)]
    BY <1>1, <1>2, <2>1 DEF ServiceTyped
  <2>3. m_selectedPackage # <<>> /\ m_selectedPackage[1] # k
    BY <1>2, <1>6
  <2>4. m_packagePackets'[m_selectedPackage[1]] = m_packagePackets[m_selectedPackage[1]]
    BY <1>2, <2>1, <2>3 DEF ServiceTyped
  <2>5. \A p : AcceptsPacket(p) => AcceptsPacket(p)'
    BY <2>1, <2>3, <2>4 DEF AcceptsPacket
  <2> QED
    BY <1>3, <1>4, <2>1, <2>2, <2>5 DEF ServiceTyped, ServiceKnown, ProgramKnown
<1>7. CASE ~NotOnAir(k) /\ m_selectedPackage \in {<<>>, <<k>>}
  <2>1. /\ m_packagePackets' = [m_packagePackets EXCEPT ![k] = <<Packets(t)>>]
        /\ m_selectedPackage' = <<k>> /\ m_serviceId' = <<k>> /\ fresh' = TRUE
        /\ m_videoStreams' = Videos(t)
        /\ m_selectedVideo' = EnsureVideoSelection(Videos(t), m_selectedVideo)
        /\ m_subtitleStreams' = Subtitles(t, m_subtitleStreams)
    BY <1>7 DEF OnMpt, TakeMpt
  <2>2. m_packagePackets' \in [Package -> Optional(SUBSET Packet)]
    BY <1>1, <1>2, <2>1 DEF ServiceTyped
  <2>3. m_packagePackets'[k] = <<Packets(t)>>
    BY <1>1, <2>1 DEF ServiceTyped
  <2>4. \A p \in Packets(t) : AcceptsPacket(p)'
    BY <1>2, <2>1, <2>3 DEF AcceptsPacket
  <2>5. ServiceKnown' /\ ProgramKnown'
    BY <1>2, <1>3, <1>7, <2>1 DEF ServiceKnown, ProgramKnown
  <2> QED
    BY <1>2, <1>3, <1>4, <2>1, <2>2, <2>4, <2>5 DEF ServiceTyped
<1> QED
  BY <1>5, <1>6, <1>7

-----------------------------------------------------------------------------
(***************************************************************************)
(* What the data do to the lists.                                          *)
(***************************************************************************)
LEMMA StreamsNumbered ==
    ASSUME ServiceTyped, NEW type, NEW s \in Streams(type)
    PROVE  s \in DataStream
<1>1. PICK t \in {table[p][1] : p \in {q \in Package : table[q] # <<>>}} :
        s \in {[packet |-> a.packet, tag |-> a.tag, index |-> IndexIn(t, a.packet)] :
                 a \in ToSet(OfType(t, type))}
  BY Zenon DEF Streams
<1>2. t \in Mpt
  BY <1>1, OptionalShape DEF ServiceTyped
<1>3. PICK n \in DOMAIN OfType(t, type) :
        s = [packet |-> OfType(t, type)[n].packet, tag |-> OfType(t, type)[n].tag,
             index |-> IndexIn(t, OfType(t, type)[n].packet)]
  BY <1>1 DEF ToSet
<1>4. OfType(t, type)[n] \in Asset /\ OfType(t, type)[n].packet \in Packets(t)
  BY <1>2, OfTypeListed
<1>5. IndexIn(t, OfType(t, type)[n].packet) \in Nat
  BY <1>2, <1>4, IndexNamesPacket
<1> QED
  BY <1>3, <1>4, <1>5 DEF DataStream, Asset

LEMMA VideoData ==
    ASSUME Inv, NEW s \in DataStream, OnVideoData(s)
    PROVE  StreamsTyped' /\ Lists'
<1>1. /\ m_videoStreams \in Seq(Video) /\ m_selectedVideo \in Optional(Video)
      /\ m_subtitleStreams \in Seq(Subtitle) /\ m_audioStreams \in Seq(Audio)
  BY DEF Inv, TypeOK
<1>2. /\ UNCHANGED <<serviceVars, m_subtitleStreams, m_audioStreams, fresh>>
      /\ AcceptsPacket(s.packet)
  BY DEF OnVideoData
<1>3. \A p : AcceptsPacket(p)' <=> AcceptsPacket(p)
  BY <1>2 DEF AcceptsPacket, serviceVars
<1>4. CASE UNCHANGED <<m_videoStreams, m_selectedVideo>>
  BY <1>1, <1>2, <1>3, <1>4 DEF Inv, Lists, Accepted, StreamsTyped
<1>5. CASE /\ m_videoStreams' = Append(m_videoStreams, [packet |-> s.packet, tag |-> s.tag])
           /\ m_selectedVideo' = EnsureVideoSelection(m_videoStreams', m_selectedVideo)
  <2> DEFINE video == [packet |-> s.packet, tag |-> s.tag]
  <2>1. video \in Video /\ video.packet = s.packet
    BY DEF DataStream, Video
  <2> HIDE DEF video
  <2>2. /\ m_videoStreams' \in Seq(Video)
        /\ Len(m_videoStreams) \in Nat /\ DOMAIN m_videoStreams = 1 .. Len(m_videoStreams)
        /\ DOMAIN m_videoStreams' = 1 .. Len(m_videoStreams) + 1
        /\ \A n \in 1 .. Len(m_videoStreams) : m_videoStreams'[n] = m_videoStreams[n]
        /\ m_videoStreams'[Len(m_videoStreams) + 1] = video
    BY <1>1, <1>5, <2>1, AppendShape DEF video
  <2>3. m_selectedVideo' \in Optional(Video) /\ VideoIn(m_videoStreams', m_selectedVideo')
    BY <1>1, <1>5, <2>2, SelectionListed
  <2>4. \A n \in DOMAIN m_videoStreams' :
          n \in DOMAIN m_videoStreams \/ n = Len(m_videoStreams) + 1
    BY <2>2
  <2>5. fresh' => Accepted'
    BY <1>2, <1>3, <2>1, <2>2, <2>4 DEF Inv, Lists, Accepted
  <2> QED
    BY <1>1, <1>2, <2>2, <2>3, <2>5 DEF Lists, StreamsTyped
<1> QED
  BY <1>4, <1>5 DEF OnVideoData

LEMMA SubtitleData ==
    ASSUME Inv, NEW s \in DataStream, OnSubtitleData(s)
    PROVE  StreamsTyped' /\ Lists' /\ SubtitlesDiffer'
<1>1. /\ m_videoStreams \in Seq(Video) /\ m_selectedVideo \in Optional(Video)
      /\ m_subtitleStreams \in Seq(Subtitle) /\ m_audioStreams \in Seq(Audio)
      /\ PacketsDiffer(m_subtitleStreams) /\ IndexesDiffer(m_subtitleStreams)
  BY DEF Inv, TypeOK, SubtitlesDiffer
<1>2. /\ UNCHANGED <<serviceVars, m_videoStreams, m_selectedVideo, m_audioStreams, fresh>>
      /\ m_subtitleStreams' = RememberSubtitle(m_subtitleStreams, s)
      /\ AcceptsPacket(s.packet)
  BY DEF OnSubtitleData
<1>3. \A p : AcceptsPacket(p)' <=> AcceptsPacket(p)
  BY <1>2 DEF AcceptsPacket, serviceVars
<1>4. /\ m_subtitleStreams' \in Seq(Subtitle)
      /\ PacketsDiffer(m_subtitleStreams') /\ IndexesDiffer(m_subtitleStreams')
      /\ \A n \in DOMAIN m_subtitleStreams' :
            \/ m_subtitleStreams'[n].packet = s.packet
            \/ \E k \in DOMAIN m_subtitleStreams :
                  m_subtitleStreams'[n].packet = m_subtitleStreams[k].packet
  BY <1>1, <1>2, SubtitleRemembered
<1>5. fresh' => Accepted'
  BY <1>2, <1>3, <1>4 DEF Inv, Lists, Accepted
<1> QED
  BY <1>1, <1>2, <1>4, <1>5 DEF Inv, Lists, StreamsTyped, SubtitlesDiffer

LEMMA InvNext == Inv /\ [Next]_vars => Inv'
<1> SUFFICES ASSUME Inv, [Next]_vars PROVE Inv'
  OBVIOUS
<1>0. /\ ServiceTyped /\ StreamsTyped /\ ServiceKnown /\ ProgramKnown
      /\ Lists /\ SubtitlesDiffer /\ AudioTags
  BY TypeParts DEF Inv
<1>1. ASSUME NEW plt \in Plt, OnPlt(plt) PROVE Inv'
  <2>1. UNCHANGED <<streamVars, m_audioStreams>>
    BY <1>1 DEF OnPlt, TakePlt
  <2>2. /\ ServiceTyped' /\ ServiceKnown' /\ ProgramKnown'
        /\ fresh' => fresh /\ \A p : AcceptsPacket(p) => AcceptsPacket(p)'
    BY <1>0, <1>1, PltTaken
  <2>3. StreamsTyped' /\ SubtitlesDiffer' /\ AudioTags'
    BY <1>0, <2>1 DEF StreamsTyped, SubtitlesDiffer, AudioTags, streamVars
  <2>4. Lists'
    BY <1>0, <2>1, <2>2 DEF Lists, Accepted, streamVars
  <2> QED
    BY <2>2, <2>3, <2>4, TypePartsNext DEF Inv
<1>2. ASSUME NEW t \in Mpt, OnMpt(t) PROVE Inv'
  <2>1. m_audioStreams' = m_audioStreams
    BY <1>2 DEF OnMpt, TakeMpt
  <2>2. ServiceTyped' /\ ServiceKnown' /\ ProgramKnown'
    BY <1>0, <1>2, MptTaken
  <2>3. CASE /\ UNCHANGED <<streamVars, fresh>>
             /\ fresh => \A p : AcceptsPacket(p) => AcceptsPacket(p)'
    <3>1. StreamsTyped' /\ SubtitlesDiffer' /\ AudioTags'
      BY <1>0, <2>1, <2>3 DEF StreamsTyped, SubtitlesDiffer, AudioTags, streamVars
    <3>2. Lists'
      BY <1>0, <2>3 DEF Lists, Accepted, streamVars
    <3> QED
      BY <2>2, <3>1, <3>2, TypePartsNext DEF Inv
  <2>4. CASE /\ m_videoStreams' = Videos(t)
             /\ m_selectedVideo' = EnsureVideoSelection(Videos(t), m_selectedVideo)
             /\ m_subtitleStreams' = Subtitles(t, m_subtitleStreams)
             /\ \A p \in Packets(t) : AcceptsPacket(p)'
    <3>1. /\ m_videoStreams' \in Seq(Video)
          /\ \A n \in DOMAIN m_videoStreams' : m_videoStreams'[n].packet \in Packets(t)
      BY <2>4, VideosListed
    <3>2. m_selectedVideo' \in Optional(Video) /\ VideoIn(m_videoStreams', m_selectedVideo')
      BY <1>0, <2>4, <3>1, SelectionListed DEF StreamsTyped
    <3>3. /\ m_subtitleStreams' \in Seq(Subtitle)
          /\ \A n \in DOMAIN m_subtitleStreams' : m_subtitleStreams'[n].packet \in Packets(t)
          /\ SubtitlesDiffer'
      BY <2>4, SubtitlesListed DEF SubtitlesDiffer
    <3>4. StreamsTyped' /\ AudioTags'
      BY <1>0, <2>1, <3>1, <3>2, <3>3 DEF StreamsTyped, AudioTags
    <3>5. Lists'
      BY <2>4, <3>1, <3>2, <3>3 DEF Lists, Accepted
    <3> QED
      BY <2>2, <3>3, <3>4, <3>5, TypePartsNext DEF Inv
  <2> QED
    BY <1>0, <1>2, <2>3, <2>4, MptTaken
<1>3. ASSUME NEW service \in Package, NEW event \in Event, OnMhEit(service, event) PROVE Inv'
  <2>1. /\ UNCHANGED <<serviceVars, streamVars, m_audioStreams, table, fresh>>
        /\ m_programId' = <<[service |-> service, event |-> event]>>
    BY <1>3 DEF OnMhEit
  <2>2. m_serviceId # <<>>
    BY <1>0, <1>3 DEF OnMhEit, ServiceKnown
  <2>3. m_serviceId = <<service>>
    BY <1>0, <1>3, <2>2, OptionalShape DEF OnMhEit, ServiceTyped
  <2>4. m_programId' \in Optional([service : Package, event : Event])
        /\ m_programId'[1].service = service
    BY <2>1 DEF Optional
  <2>5. StreamsTyped' /\ SubtitlesDiffer' /\ AudioTags' /\ Lists'
    BY <1>0, <2>1 DEF StreamsTyped, SubtitlesDiffer, AudioTags, streamVars, Lists, Accepted,
       AcceptsPacket, serviceVars
  <2>6. ServiceTyped' /\ ServiceKnown' /\ ProgramKnown'
    BY <1>0, <2>1, <2>3, <2>4 DEF ServiceTyped, ServiceKnown, ProgramKnown, serviceVars
  <2> QED
    BY <2>5, <2>6, TypePartsNext DEF Inv
<1>4. ASSUME NEW s \in Streams("video"), OnVideoData(s) PROVE Inv'
  <2>1. UNCHANGED <<serviceVars, m_programId, m_subtitleStreams, m_audioStreams, table, fresh>>
    BY <1>4 DEF OnVideoData
  <2>2. s \in DataStream
    BY <1>0, StreamsNumbered
  <2>3. StreamsTyped' /\ Lists'
    BY <1>4, <2>2, VideoData
  <2>4. ServiceTyped' /\ ServiceKnown' /\ ProgramKnown' /\ SubtitlesDiffer' /\ AudioTags'
    BY <1>0, <2>1 DEF ServiceTyped, ServiceKnown, ProgramKnown, SubtitlesDiffer, AudioTags,
       serviceVars
  <2> QED
    BY <2>3, <2>4, TypePartsNext DEF Inv
<1>5. ASSUME NEW s \in Streams("subtitle"), OnSubtitleData(s) PROVE Inv'
  <2>1. UNCHANGED <<serviceVars, m_programId, m_audioStreams, table, fresh>>
    BY <1>5 DEF OnSubtitleData
  <2>2. s \in DataStream
    BY <1>0, StreamsNumbered
  <2>3. StreamsTyped' /\ Lists' /\ SubtitlesDiffer'
    BY <1>5, <2>2, SubtitleData
  <2>4. ServiceTyped' /\ ServiceKnown' /\ ProgramKnown' /\ AudioTags'
    BY <1>0, <2>1 DEF ServiceTyped, ServiceKnown, ProgramKnown, AudioTags, serviceVars
  <2> QED
    BY <2>3, <2>4, TypePartsNext DEF Inv
<1>6. ASSUME \/ Reset
             \/ \E n \in DOMAIN m_videoStreams : SelectVideo(n)
      PROVE  Inv'
  <2>1. /\ UNCHANGED <<serviceVars, m_videoStreams, m_subtitleStreams, m_audioStreams, table,
                       fresh>>
        /\ m_programId' = <<>>
        /\ \/ m_selectedVideo' = m_selectedVideo
           \/ \E n \in DOMAIN m_videoStreams : m_selectedVideo' = <<m_videoStreams[n]>>
    BY <1>6 DEF Reset, SelectVideo, streamVars
  <2>2. \A n \in DOMAIN m_videoStreams :
          /\ m_videoStreams[n] \in Video
          /\ <<m_videoStreams[n]>> # <<>> /\ <<m_videoStreams[n]>>[1] = m_videoStreams[n]
    BY <1>0 DEF StreamsTyped
  <2>3. m_selectedVideo' \in Optional(Video)
    BY <1>0, <2>1, <2>2 DEF StreamsTyped, Optional
  <2>4. VideoIn(m_videoStreams, m_selectedVideo) => VideoIn(m_videoStreams, m_selectedVideo')
    BY <2>1, <2>2 DEF VideoIn
  <2>5. StreamsTyped' /\ SubtitlesDiffer' /\ AudioTags'
    BY <1>0, <2>1, <2>3 DEF StreamsTyped, SubtitlesDiffer, AudioTags
  <2>6. Lists'
    BY <1>0, <2>1, <2>4 DEF Lists, Accepted, AcceptsPacket, serviceVars
  <2>7. ServiceTyped' /\ ServiceKnown' /\ ProgramKnown'
    BY <1>0, <2>1, OptionalShape DEF ServiceTyped, ServiceKnown, ProgramKnown, serviceVars
  <2> QED
    BY <2>5, <2>6, <2>7, TypePartsNext DEF Inv
<1>7. ASSUME UNCHANGED vars PROVE Inv'
  <2>1. StreamsTyped' /\ SubtitlesDiffer' /\ AudioTags' /\ Lists'
    BY <1>0, <1>7 DEF vars, StreamsTyped, SubtitlesDiffer, AudioTags, streamVars, Lists,
       Accepted, AcceptsPacket, serviceVars
  <2>2. ServiceTyped' /\ ServiceKnown' /\ ProgramKnown'
    BY <1>0, <1>7 DEF vars, ServiceTyped, ServiceKnown, ProgramKnown, serviceVars
  <2> QED
    BY <2>1, <2>2, TypePartsNext DEF Inv
<1> QED
  BY <1>1, <1>2, <1>3, <1>4, <1>5, <1>6, <1>7 DEF Next

THEOREM InvHolds == Spec => []Inv
BY InvInit, InvNext, PTL DEF Spec

\* The handler's lists, selections and tables have their types, the entries'
\* places and indexes included.
THEOREM TypeCorrect == Spec => []TypeOK
<1>1. Inv => TypeOK
  BY DEF Inv
<1> QED
  BY <1>1, InvHolds, PTL

\* Once the service's MPT has come, the video selected is one whose data are let
\* through, for every order of tables, data, seeks and selections.
THEOREM VideoIsAccepted == Spec => []VideoFollowsService
<1>1. Inv => VideoFollowsService
  <2> SUFFICES ASSUME Inv, fresh, m_videoStreams # <<>>
               PROVE  m_selectedVideo # <<>> /\ AcceptsPacket(m_selectedVideo[1].packet)
    BY DEF VideoFollowsService
  <2> QED
    BY DEF Inv, Lists, Accepted, VideoIn
<1> QED
  BY <1>1, InvHolds, PTL

\* The lists and the program are those of the service that is played.
THEOREM ListsAreOfService == Spec => []ListsOfService
<1>1. Inv => ListsOfService
  BY DEF Inv, Lists, Accepted, ProgramKnown, ListsOfService
<1> QED
  BY <1>1, InvHolds, PTL

\* A stream index answers for one subtitle track at most.
THEOREM IndexNamesOneTrack == Spec => []SubtitleIndexIsOnes
<1>1. Inv => SubtitleIndexIsOnes
  BY DEF Inv, SubtitlesDiffer, IndexesDiffer, SubtitleIndexIsOnes
<1> QED
  BY <1>1, InvHolds, PTL

\* Audio data of a known asset go to that asset's pin, and those of another
\* service's asset with its tag too.
THEOREM AudioKeepsItsPin == Spec => []AudioOnItsTrack
<1>1. Inv => AudioOnItsTrack
  <2> SUFFICES ASSUME Inv, NEW s \in Streams("audio"), NEW n \in DOMAIN m_audioStreams,
                      AcceptsPacket(s.packet), m_audioStreams[n].tag = s.tag
               PROVE  AudioPinsFor(s) = {m_audioStreams[n].index}
    BY DEF AudioOnItsTrack
  <2>0. m_audioStreams \in Seq(Audio) /\ AudioTags
    BY DEF Inv, TypeOK
  <2> DEFINE same(k) == SameIdentity(m_audioStreams[k], s)
             at == CHOOSE k \in DOMAIN m_audioStreams :
                      same(k) /\ \A j \in 1 .. k - 1 : ~same(j)
  <2>1. ASSUME \E k \in DOMAIN m_audioStreams : same(k)
        PROVE  AudioStreamIndexFor(s) = m_audioStreams[n].index
    <3> DEFINE T == {k \in DOMAIN m_audioStreams : same(k)}
    <3>1. T \subseteq DOMAIN m_audioStreams /\ T # {}
      BY <2>1
    <3>2. \E k \in T : \A j \in 1 .. k - 1 : j \in DOMAIN m_audioStreams /\ j \notin T
      <4> HIDE DEF T
      <4> QED
        BY <2>0, <3>1, LeastPlace
    <3>3. at \in DOMAIN m_audioStreams /\ same(at)
      BY <3>2
    <3>4. AudioStreamIndexFor(s) = m_audioStreams[at].index
      BY <2>1, Zenon DEF AudioStreamIndexFor, Has, First, FirstAt
    <3> HIDE DEF at
    <3>5. at = n
      BY <2>0, <3>3 DEF SameIdentity, AudioTags
    <3> QED
      BY <3>4, <3>5
  <2>2. ASSUME ~\E k \in DOMAIN m_audioStreams : same(k)
        PROVE  AudioStreamIndexFor(s) = m_audioStreams[n].index
    <3>1. PICK k \in DOMAIN m_audioStreams :
            /\ m_audioStreams[k].tag = s.tag
            /\ First(m_audioStreams, LAMBDA v : v.tag = s.tag) = m_audioStreams[k]
      BY <2>0, FirstWithTag
    <3>2. AudioStreamIndexFor(s) = First(m_audioStreams, LAMBDA v : v.tag = s.tag).index
      BY <2>2, Zenon DEF AudioStreamIndexFor, Has
    <3>3. k = n
      BY <2>0, <3>1 DEF AudioTags
    <3> QED
      BY <3>1, <3>2, <3>3
  <2> QED
    BY <2>1, <2>2 DEF AudioPinsFor
<1> QED
  BY <1>1, InvHolds, PTL

\* No other service's tables, no order of the services in a PLT, and no seek
\* change the service: only a PLT that no longer lists it.
THEOREM ServiceStays == Spec => ServiceIsKept
<1> DEFINE Kept == m_selectedPackage' # m_selectedPackage =>
                     \/ m_selectedPackage = <<>>
                     \/ /\ m_availablePackages' # <<>>
                        /\ m_selectedPackage[1] \notin m_availablePackages'[1]
<1>1. Inv /\ [Next]_vars => [Kept]_vars
  <2> SUFFICES ASSUME Inv, Next, m_selectedPackage' # m_selectedPackage,
                      m_selectedPackage # <<>>
               PROVE  /\ m_availablePackages' # <<>>
                      /\ m_selectedPackage[1] \notin m_availablePackages'[1]
    OBVIOUS
  <2>1. PICK plt \in Plt : OnPlt(plt)
    BY DEF Next, OnMpt, TakeMpt, OnMhEit, OnVideoData, OnSubtitleData, Reset, SelectVideo,
       serviceVars
  <2>2. m_availablePackages' = <<ToSet(plt)>> /\ ~StillListed(plt)
    BY <2>1 DEF OnPlt, TakePlt
  <2> QED
    BY <2>2 DEF StillListed
<1> QED
  BY <1>1, InvHolds, PTL DEF Spec, ServiceIsKept
=============================================================================
