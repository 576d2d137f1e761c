--------------------------- MODULE ServiceSelection ---------------------------
(***************************************************************************)
(* The demuxer handler of the playing filter (CFilterDemuxerHandler): which *)
(* of the multiplexed services it plays, which streams it lists for it, and *)
(* where their data go.  PLTs name the services on the air, MPTs the assets *)
(* of one service, EITs its programs; data and tables of all services come *)
(* interleaved, in any order, and any of them may be missing.              *)
(*                                                                         *)
(* The start is what the pre-scan left: a service, its lists, and an audio *)
(* list that is locked because the pins are made for it.  A service id is  *)
(* its package.  An optional value is a sequence of at most one element.   *)
(***************************************************************************)
EXTENDS Integers, Sequences, SequencesExt

CONSTANTS Package, Packet, Tag, Event,
          Mpt,     \* the MPTs that may come: [package, assets]
          Scanned, \* those that the pre-scan may have seen
          Plt      \* the PLTs that may come: sequences of packages

Optional(S) == {<<>>} \cup {<<x>> : x \in S}

\* index: the one of the stream that the demuxer has registered for the asset by
\* the time it hands the MPT on.  How it numbers streams is its own business.
Asset == [type : {"video", "audio", "subtitle"}, packet : Packet, tag : Tag, index : Nat]

ASSUME ServiceAssumption ==
    /\ Tag \subseteq Nat /\ Packet \subseteq Nat
    /\ \A t \in Mpt : t.package \in Package /\ t.assets \in Seq(Asset)
    /\ Scanned \subseteq Mpt /\ Plt \subseteq Seq(Package)

\* In an MPT each asset has a packet, a component tag and an index of its own.
ASSUME AssetAssumption ==
    \A t \in Mpt : \A n, k \in DOMAIN t.assets :
        \/ t.assets[n].packet = t.assets[k].packet
        \/ t.assets[n].tag = t.assets[k].tag
        \/ t.assets[n].index = t.assets[k].index
        => n = k

VARIABLES
    m_availablePackages,   \* optional set
    m_selectedPackage,     \* optional
    m_packagePackets,      \* per package an optional set of packets
    m_serviceId, m_programId,                      \* optional
    m_videoStreams, m_selectedVideo,               \* the second optional
    m_subtitleStreams, m_audioStreams,
    table,       \* the demuxer: the last MPT of each package, optional
    fresh        \* an MPT of the selected service has come since it was selected

serviceVars == <<m_availablePackages, m_selectedPackage, m_packagePackets, m_serviceId>>
streamVars == <<m_videoStreams, m_selectedVideo, m_subtitleStreams>>
vars == <<serviceVars, m_programId, streamVars, m_audioStreams, table, fresh>>

Index == Nat
Video == [packet : Packet, tag : Tag]
Subtitle == [packet : Packet, tag : Tag, index : Index \cup {-1}, hasData : BOOLEAN]
Audio == [packet : Packet, tag : Tag, index : Index]

TypeOK ==
    /\ m_availablePackages \in Optional(SUBSET Package)
    /\ m_selectedPackage \in Optional(Package) /\ m_serviceId \in Optional(Package)
    /\ m_packagePackets \in [Package -> Optional(SUBSET Packet)]
    /\ m_programId \in Optional([service : Package, event : Event])
    /\ m_videoStreams \in Seq(Video) /\ m_selectedVideo \in Optional(Video)
    /\ m_subtitleStreams \in Seq(Subtitle) /\ m_audioStreams \in Seq(Audio)
    /\ table \in [Package -> Optional(Mpt)] /\ fresh \in BOOLEAN

-----------------------------------------------------------------------------
Packets(t) == {t.assets[n].packet : n \in DOMAIN t.assets}

\* The streams of one type in an MPT, in its order.
OfType(t, type) ==
    LET among[n \in 0 .. Len(t.assets)] ==
            IF n = 0 THEN <<>>
            ELSE IF t.assets[n].type = type THEN Append(among[n - 1], t.assets[n])
            ELSE among[n - 1]
    IN  among[Len(t.assets)]

\* The index of the registered stream.
IndexIn(t, packet) ==
    t.assets[CHOOSE n \in DOMAIN t.assets : t.assets[n].packet = packet].index

Videos(t) ==
    LET assets == OfType(t, "video")
    IN  [n \in DOMAIN assets |-> [packet |-> assets[n].packet, tag |-> assets[n].tag]]

\* A track keeps the flag that data was seen, found by its packet.
Subtitles(t, known) ==
    LET assets == OfType(t, "subtitle")
        hasData(p) == \E n \in DOMAIN known : known[n].packet = p /\ known[n].hasData
    IN  [n \in DOMAIN assets |->
           [packet |-> assets[n].packet, tag |-> assets[n].tag,
            index |-> IndexIn(t, assets[n].packet), hasData |-> hasData(assets[n].packet)]]

Audios(t) ==
    LET assets == OfType(t, "audio")
    IN  [n \in DOMAIN assets |-> [packet |-> assets[n].packet, tag |-> assets[n].tag,
                                  index |-> IndexIn(t, assets[n].packet)]]

FirstAt(s, P(_)) == CHOOSE n \in DOMAIN s : P(s[n]) /\ \A k \in 1 .. n - 1 : ~P(s[k])
First(s, P(_)) == s[FirstAt(s, P)]
Has(s, P(_)) == \E n \in DOMAIN s : P(s[n])

SameIdentity(a, b) == a.packet = b.packet /\ a.tag = b.tag

\* The main video has the lowest component tag.
DefaultVideo(streams) ==
    First(streams, LAMBDA v : \A n \in DOMAIN streams : v.tag <= streams[n].tag)

\* Mutant of EnsureVideoSelection: an asset that is gone stays selected.
KeepVideoSelection(streams, selected) ==
    IF streams = <<>> \/ selected # <<>> THEN selected ELSE <<DefaultVideo(streams)>>

\* The selection is kept while its packet is listed; then it follows its tag,
\* or falls back to the main video.
EnsureVideoSelection(streams, selected) ==
    IF streams = <<>> THEN selected
    ELSE IF selected = <<>> THEN <<DefaultVideo(streams)>>
    ELSE IF Has(streams, LAMBDA v : v.packet = selected[1].packet) THEN selected
    ELSE IF Has(streams, LAMBDA v : v.tag = selected[1].tag)
    THEN <<First(streams, LAMBDA v : v.tag = selected[1].tag)>>
    ELSE <<DefaultVideo(streams)>>

\* What the pre-scan leaves, having seen one MPT, with or without a PLT.
Init ==
    \E t \in Scanned :
        /\ OfType(t, "audio") # <<>>
        /\ m_selectedPackage = <<t.package>> /\ m_serviceId = <<t.package>>
        /\ m_availablePackages \in Optional({S \in SUBSET Package : t.package \in S})
        /\ m_packagePackets = [p \in Package |-> IF p = t.package THEN <<Packets(t)>> ELSE <<>>]
        /\ table = [p \in Package |-> IF p = t.package THEN <<t>> ELSE <<>>]
        /\ m_programId = <<>>
        /\ m_videoStreams = Videos(t)
        /\ m_selectedVideo = EnsureVideoSelection(Videos(t), <<>>)
        /\ m_subtitleStreams = Subtitles(t, <<>>)
        /\ m_audioStreams = Audios(t)
        /\ fresh = TRUE

-----------------------------------------------------------------------------
(***************************************************************************)
(* The tables.                                                             *)
(***************************************************************************)
FirstOf(plt) == IF plt = <<>> THEN <<>> ELSE <<plt[1]>>

StillListed(plt) == m_selectedPackage # <<>> /\ m_selectedPackage[1] \in ToSet(plt)

\* A PLT is taken: packets of services that are gone are forgotten, and unless
\* the selection is kept, first, if any, is selected and the program is forgotten.
TakePlt(plt, kept, first) ==
    /\ m_availablePackages' = <<ToSet(plt)>>
    /\ m_packagePackets' = [p \in Package |-> IF p \in ToSet(plt) THEN m_packagePackets[p]
                                              ELSE <<>>]
    /\ IF kept \/ m_selectedPackage = first
       THEN UNCHANGED <<m_selectedPackage, m_serviceId, m_programId, fresh>>
       ELSE /\ m_selectedPackage' = first
            /\ m_serviceId' = first
            /\ m_programId' = <<>>
            /\ fresh' = FALSE
    /\ UNCHANGED <<streamVars, m_audioStreams, table>>

\* Mutant of OnPlt: the first service is taken whether or not the selected one
\* is still on the air.
OnPltFirst(plt) == TakePlt(plt, FALSE, FirstOf(plt))

\* Mutant of OnPlt: a PLT without services selects the service with id zero.
OnPltZero(plt) ==
    TakePlt(plt, StillListed(plt), IF plt = <<>> THEN <<0>> ELSE FirstOf(plt))

\* The selected service stays while it is listed, and else the first is selected.
OnPlt(plt) == TakePlt(plt, StillListed(plt), FirstOf(plt))

NotOnAir(p) == m_availablePackages # <<>> /\ p \notin m_availablePackages[1]

\* An MPT is taken: the packets of a service on the air are noted, and if it is
\* listed its videos and subtitles replace the lists.  The audio list is locked:
\* only formats, left out here, change in it.
TakeMpt(t, listed) ==
    /\ table' = [table EXCEPT ![t.package] = <<t>>]
    /\ IF NotOnAir(t.package)
       THEN UNCHANGED <<m_packagePackets, m_selectedPackage>>
       ELSE /\ m_packagePackets' = [m_packagePackets EXCEPT ![t.package] = <<Packets(t)>>]
            /\ m_selectedPackage' = IF m_selectedPackage = <<>> THEN <<t.package>>
                                    ELSE m_selectedPackage
    /\ IF NotOnAir(t.package) \/ ~listed
       THEN UNCHANGED <<m_serviceId, streamVars, fresh>>
       ELSE /\ m_serviceId' = m_selectedPackage'
            /\ m_videoStreams' = Videos(t)
            /\ m_selectedVideo' = EnsureVideoSelection(Videos(t), m_selectedVideo)
            /\ m_subtitleStreams' = Subtitles(t, m_subtitleStreams)
            /\ fresh' = TRUE
    /\ UNCHANGED <<m_availablePackages, m_programId, m_audioStreams>>

\* Mutant of OnMpt: the tables of every service set the lists.
OnMptOfAnyService(t) == TakeMpt(t, TRUE)

\* The lists follow the selected service, which this table's is if none was.
OnMpt(t) == TakeMpt(t, m_selectedPackage \in {<<>>, <<t.package>>})

\* The present event, of the service played unless none is known.
OnMhEit(service, event) ==
    /\ ~(m_availablePackages # <<>> /\ m_selectedPackage = <<>>)
    /\ m_serviceId = <<>> \/ m_serviceId[1] = service
    /\ m_programId' = <<[service |-> service, event |-> event]>>
    /\ UNCHANGED <<serviceVars, streamVars, m_audioStreams, table, fresh>>

-----------------------------------------------------------------------------
(***************************************************************************)
(* The data.  The demuxer hands over data of the streams of the MPTs it    *)
(* has seen, of every service.                                             *)
(***************************************************************************)
AcceptsPacket(p) ==
    IF m_selectedPackage = <<>> THEN m_availablePackages = <<>>
    ELSE LET packets == m_packagePackets[m_selectedPackage[1]]
         IN  packets # <<>> /\ p \in packets[1]

\* A stream of the demuxer, with the index it has in the last MPT listing it.
Streams(type) ==
    UNION {{[packet |-> a.packet, tag |-> a.tag, index |-> IndexIn(t, a.packet)] :
              a \in ToSet(OfType(t, type))} :
            t \in {table[p][1] : p \in {q \in Package : table[q] # <<>>}}}

\* rememberVideoStream, for data that acceptsPacket let through.
OnVideoData(s) ==
    /\ AcceptsPacket(s.packet)
    /\ LET video == [packet |-> s.packet, tag |-> s.tag]
           known == Has(m_videoStreams, LAMBDA v : SameIdentity(v, video))
       IN  IF known
           THEN UNCHANGED <<m_videoStreams, m_selectedVideo>>
           ELSE /\ m_videoStreams' = Append(m_videoStreams, video)
                /\ m_selectedVideo' = EnsureVideoSelection(m_videoStreams', m_selectedVideo)
    /\ UNCHANGED <<serviceVars, m_programId, m_subtitleStreams, m_audioStreams, table, fresh>>

\* Mutant of AudioStreamIndexFor: the demuxer's index is the pin's.
DemuxerIndex(s) == s.index

\* The pin for a stream: the known asset's, or that of the known asset with the
\* same tag, or the one that has the demuxer's index.
AudioStreamIndexFor(s) ==
    IF Has(m_audioStreams, LAMBDA a : SameIdentity(a, s))
    THEN First(m_audioStreams, LAMBDA a : SameIdentity(a, s)).index
    ELSE IF Has(m_audioStreams, LAMBDA a : a.tag = s.tag)
    THEN First(m_audioStreams, LAMBDA a : a.tag = s.tag).index
    ELSE s.index

\* The pins that audio data of a stream go to: none when its service is not
\* played or no pin has the index.
AudioPinsFor(s) ==
    {i \in {m_audioStreams[n].index : n \in DOMAIN m_audioStreams} :
        AcceptsPacket(s.packet) /\ i = AudioStreamIndexFor(s)}

\* Mutant of ReleaseIndex: an index is not released.
ReleaseNothing(streams, s) == streams

\* Any other entry that still holds the index of a stream is stale.
ReleaseIndex(streams, s) ==
    [n \in DOMAIN streams |->
        IF streams[n].index = s.index /\ streams[n].packet # s.packet
        THEN [streams[n] EXCEPT !.index = -1] ELSE streams[n]]

IsCaption(tag) == tag \in 48 .. 55

\* A known packet is moved to its index; a new caption replaces the management
\* stream of its tag that has had no data.
RememberSubtitle(streams, s) ==
    LET entry == [packet |-> s.packet, tag |-> s.tag, index |-> s.index, hasData |-> TRUE]
        Known(e) == e.packet = s.packet
        Companion(e) == IsCaption(s.tag) /\ ~e.hasData /\ e.tag = s.tag + 8
        listed == IF Has(streams, Known)
                  THEN [streams EXCEPT ![FirstAt(streams, Known)] = entry]
                  ELSE IF Has(streams, Companion)
                  THEN [streams EXCEPT ![FirstAt(streams, Companion)] = entry]
                  ELSE Append(streams, entry)
        moved == ~Has(streams, LAMBDA e : SameIdentity(e, s) /\ e.index = s.index)
    IN  IF moved THEN ReleaseIndex(listed, s) ELSE listed

OnSubtitleData(s) ==
    /\ AcceptsPacket(s.packet)
    /\ m_subtitleStreams' = RememberSubtitle(m_subtitleStreams, s)
    /\ UNCHANGED <<serviceVars, m_programId, m_videoStreams, m_selectedVideo, m_audioStreams,
                   table, fresh>>

\* A seek, or a jump between edit segments, resets the handler...
Reset ==
    /\ m_programId' = <<>>
    /\ UNCHANGED <<serviceVars, streamVars, m_audioStreams, table, fresh>>

\* ... and Enable selects a video by its place in the list first.
SelectVideo(n) ==
    /\ m_selectedVideo' = <<m_videoStreams[n]>>
    /\ m_programId' = <<>>
    /\ UNCHANGED <<serviceVars, m_videoStreams, m_subtitleStreams, m_audioStreams, table,
                   fresh>>

Next ==
    \/ \E plt \in Plt : OnPlt(plt)
    \/ \E t \in Mpt : OnMpt(t)
    \/ \E service \in Package, event \in Event : OnMhEit(service, event)
    \/ \E s \in Streams("video") : OnVideoData(s)
    \/ \E s \in Streams("subtitle") : OnSubtitleData(s)
    \/ Reset
    \/ \E n \in DOMAIN m_videoStreams : SelectVideo(n)

Spec == Init /\ [][Next]_vars

-----------------------------------------------------------------------------
(***************************************************************************)
(* "Holding on to the old one would drop the video for the rest of the     *)
(* file": once the selected service's MPT has come, the selected video is  *)
(* one whose data are let through, whatever was selected by hand or        *)
(* discovered from data before, also of another service.                   *)
(***************************************************************************)
VideoFollowsService ==
    fresh /\ m_videoStreams # <<>> =>
        /\ m_selectedVideo # <<>>
        /\ AcceptsPacket(m_selectedVideo[1].packet)

(***************************************************************************)
(* The streams that the filter lists, and the program that is playing, are *)
(* those of the service it plays, also after a change of service: "another *)
(* simultaneously multiplexed service is not a channel change".            *)
(***************************************************************************)
ListsOfService ==
    /\ fresh => /\ \A n \in DOMAIN m_videoStreams : AcceptsPacket(m_videoStreams[n].packet)
                /\ \A n \in DOMAIN m_subtitleStreams : AcceptsPacket(m_subtitleStreams[n].packet)
    /\ m_programId # <<>> => m_serviceId = <<m_programId[1].service>>

(***************************************************************************)
(* A stream index names one subtitle track: an entry whose index a         *)
(* renumbering or another channel has given away "must not answer" for it. *)
(***************************************************************************)
SubtitleIndexIsOnes ==
    \A n, k \in DOMAIN m_subtitleStreams :
        m_subtitleStreams[n].index = m_subtitleStreams[k].index /\ n # k =>
            m_subtitleStreams[n].index = -1

(***************************************************************************)
(* The service changes only when a PLT no longer lists it: neither another *)
(* service's tables, nor the order of a PLT, nor a seek change it.         *)
(***************************************************************************)
ServiceIsKept ==
    [][m_selectedPackage' # m_selectedPackage =>
         \/ m_selectedPackage = <<>>
         \/ m_availablePackages' # <<>> /\ m_selectedPackage[1] \notin m_availablePackages'[1]]_vars

(***************************************************************************)
(* An audio asset keeps its pin, however the demuxer renumbers the assets, *)
(* and an asset of another service with the component tag of a pin's track *)
(* takes that pin over: the viewer's track goes on after a channel change. *)
(***************************************************************************)
AudioOnItsTrack ==
    \A s \in Streams("audio") : \A n \in DOMAIN m_audioStreams :
        AcceptsPacket(s.packet) /\ m_audioStreams[n].tag = s.tag =>
            AudioPinsFor(s) = {m_audioStreams[n].index}
=============================================================================
