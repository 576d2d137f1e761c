------------------------- MODULE SubtitleIndexProofs -------------------------
(***************************************************************************)
(* The index answers as if it had read the whole file, for every file and  *)
(* every order of questions, cancelled calls and restarts.                 *)
(*                                                                         *)
(* The clock and the streams of the whole file are given step by step      *)
(* (ArrivalSteps, StreamsSteps) and the clock does not run backwards       *)
(* (ArrivalGrows).  Inv then says what the window knows: from the document *)
(* it was opened for, clock, streams and records are those of the file.    *)
(***************************************************************************)
EXTENDS SubtitleIndex, FiniteSetTheorems, SequenceTheorems, WellFoundedInduction, TLAPS

Less == {ss \in Nat \X Nat : ss[1] < ss[2]}

LEMMA LessIsWellFounded == IsWellFoundedOn(Less, Nat)
BY NatLessThanWellFounded, Zenon DEF Less, OpToRel

\* A set of numbers has a least one, and a greatest one if it is bounded.
LEMMA Least ==
    ASSUME NEW T, T \subseteq Nat, T # {}
    PROVE  \E x \in T : \A y \in T : x <= y
<1>1. PICK x \in T : \A y \in T : ~(<<y, x>> \in Less)
  BY LessIsWellFounded, WFMin
<1>2. \A y \in T : <<y, x>> \in Nat \X Nat /\ y \in Nat /\ x \in Nat
  OBVIOUS
<1>3. \A y \in T : ~(y < x)
  BY <1>1, <1>2 DEF Less
<1> QED
  BY <1>2, <1>3

LEMMA Greatest ==
    ASSUME NEW T, T \subseteq Nat, T # {}, NEW b \in Nat, \A y \in T : y <= b
    PROVE  \E x \in T : \A y \in T : y <= x
<1> DEFINE U == {d \in Nat : b - d \in T}
<1>1. \A z \in T : b - z \in U
  OBVIOUS
<1>2. U \subseteq Nat /\ U # {}
  BY <1>1
<1>3. PICK d \in U : \A e \in U : d <= e
  BY <1>2, Least
<1>4. b - d \in T /\ \A z \in T : z <= b - d
  BY <1>1, <1>3
<1> QED
  BY <1>4

\* What Min and Max choose.
LEMMA MinIs ==
    ASSUME NEW S, S \subseteq Int, NEW x \in S, \A y \in S : x <= y
    PROVE  Min(S) = x /\ I!Min(S) = x
<1>1. Min(S) \in S /\ \A y \in S : Min(S) <= y
  BY DEF Min
<1>2. I!Min(S) \in S /\ \A y \in S : I!Min(S) <= y
  BY DEF I!Min
<1>3. \A y \in S : y <= x /\ x <= y => y = x
  OBVIOUS
<1> QED
  BY <1>1, <1>2, <1>3

LEMMA MaxIs ==
    ASSUME NEW S, S \subseteq Int, NEW x \in S, \A y \in S : y <= x
    PROVE  I!Max(S) = x
<1>1. I!Max(S) \in S /\ \A y \in S : y <= I!Max(S)
  BY DEF I!Max
<1>2. \A y \in S : y <= x /\ x <= y => y = x
  OBVIOUS
<1> QED
  BY <1>1, <1>2

-----------------------------------------------------------------------------
(***************************************************************************)
(* The file.                                                               *)
(***************************************************************************)
LEMMA FileFacts ==
    ASSUME file \in Files
    PROVE  /\ Len(file) \in Nat /\ DOMAIN file = 1 .. Len(file)
           /\ \A k \in DOMAIN file :
                /\ file[k].kind \in {"video", "ntp", "mpt", "doc"}
                /\ file[k].kind = "video" =>
                      /\ file[k].dts \in Time /\ file[k].pts \in Time
                      /\ I!ClockOf(file[k]) \in Time
                /\ file[k].kind = "ntp" => file[k].time \in Nat
                /\ file[k].kind = "mpt" =>
                      /\ file[k].streams \in [DOMAIN file[k].streams -> Control]
                      /\ IsFiniteSet(DOMAIN file[k].streams)
                      /\ DOMAIN file[k].streams \subseteq STRING
                /\ file[k].kind = "doc" =>
                      file[k].pid \in STRING /\ file[k].begin \in Time /\ file[k].end \in Time
                /\ I!IsClock(file[k]) => I!ClockOf(file[k]) \in Nat /\ file[k].kind = "video"
<1>1. file \in Seq({file[k] : k \in DOMAIN file})
  BY PacketAssumption
<1>2. Len(file) \in Nat /\ DOMAIN file = 1 .. Len(file)
  BY <1>1
<1>3. ASSUME NEW k \in DOMAIN file
      PROVE  /\ file[k].kind \in {"video", "ntp", "mpt", "doc"}
             /\ file[k].kind = "video" => file[k].dts \in Time /\ file[k].pts \in Time
             /\ file[k].kind = "ntp" => file[k].time \in Nat
             /\ file[k].kind = "mpt" =>
                   /\ file[k].streams \in [DOMAIN file[k].streams -> Control]
                   /\ IsFiniteSet(DOMAIN file[k].streams)
                   /\ DOMAIN file[k].streams \subseteq STRING
             /\ file[k].kind = "doc" =>
                   file[k].pid \in STRING /\ file[k].begin \in Time /\ file[k].end \in Time
  BY PacketAssumption
<1>4. ASSUME NEW k \in DOMAIN file, file[k].kind = "video" PROVE I!ClockOf(file[k]) \in Time
  BY <1>3, <1>4 DEF I!ClockOf
<1>5. ASSUME NEW k \in DOMAIN file, I!IsClock(file[k])
      PROVE  I!ClockOf(file[k]) \in Nat /\ file[k].kind = "video"
  <2>1. file[k].kind = "video" /\ I!ClockOf(file[k]) >= 0
    BY <1>5 DEF I!IsClock
  <2> QED
    BY <1>4, <2>1 DEF Time, None
<1> QED
  BY <1>2, <1>3, <1>4, <1>5

LEMMA TimeFacts ==
    /\ None \in Time /\ \A t \in Time : t \in Int /\ (t # None => t \in Nat)
    /\ I!None = None /\ Time \subseteq Int /\ Nat \subseteq Time
BY DEF Time, None, I!None

\* The streams at a packet: those of the last MPT before it.
LEMMA StreamsSteps ==
    ASSUME file \in Files
    PROVE  /\ I!Streams(1) = I!NoStreams
           /\ \A k \in DOMAIN file :
                I!Streams(k + 1) = IF file[k].kind = "mpt" THEN file[k].streams ELSE I!Streams(k)
<1> DEFINE M(k) == {j \in 1 .. k - 1 : file[j].kind = "mpt"}
<1>1. \A k \in Nat : I!Streams(k) = IF M(k) = {} THEN I!NoStreams ELSE file[I!Max(M(k))].streams
  BY DEF I!Streams, I!Latest
<1>2. I!Streams(1) = I!NoStreams
  <2>1. M(1) = {}
    OBVIOUS
  <2> QED
    BY <1>1, <2>1
<1>3. ASSUME NEW k \in DOMAIN file
      PROVE  I!Streams(k + 1) = IF file[k].kind = "mpt" THEN file[k].streams ELSE I!Streams(k)
  <2>1. k \in Nat /\ k + 1 \in Nat /\ k \in 1 .. (k + 1) - 1
    BY FileFacts
  <2>2. CASE file[k].kind = "mpt"
    <3>1. k \in M(k + 1)
      BY <2>1, <2>2
    <3>3. M(k + 1) \subseteq Int /\ \A j \in M(k + 1) : j <= k
      BY <2>1
    <3>2. I!Max(M(k + 1)) = k
      BY <3>1, <3>3, <2>1, MaxIs
    <3> QED
      BY <1>1, <2>1, <2>2, <3>1, <3>2
  <2>3. CASE file[k].kind # "mpt"
    <3>1. M(k + 1) = M(k)
      BY <2>1, <2>3, 1 .. (k + 1) - 1 = 1 .. (k - 1) \cup {k}
    <3> QED
      BY <1>1, <2>1, <2>3, <3>1
  <2> QED
    BY <2>2, <2>3
<1> QED
  BY <1>2, <1>3

ClocksBefore(k) == {j \in 1 .. k - 1 : I!IsClock(file[j])}
NtpsBefore(k) == {j \in 1 .. k - 1 : file[j].kind = "ntp"}

\* The time at a packet by its cases.
LEMMA ArrivalCases ==
    ASSUME NEW k \in Nat
    PROVE  /\ ClocksBefore(k) # {} => I!Arrival(k) = I!ClockOf(file[I!Max(ClocksBefore(k))])
           /\ ClocksBefore(k) = {} /\ NtpsBefore(k) # {} =>
                 I!Arrival(k) = file[I!Max(NtpsBefore(k))].time
           /\ ClocksBefore(k) = {} /\ NtpsBefore(k) = {} => I!Arrival(k) = InitialTime
BY DEF I!Arrival, I!Latest, ClocksBefore, NtpsBefore

LEMMA ArrivalAt ==
    ASSUME file \in Files, NEW k \in Nat, NEW j \in 1 .. k - 1
    PROVE  /\ I!IsClock(file[j]) /\ (\A i \in j + 1 .. k - 1 : ~I!IsClock(file[i])) =>
                 I!Arrival(k) = I!ClockOf(file[j])
           /\ /\ file[j].kind = "ntp" /\ ClocksBefore(k) = {}
              /\ \A i \in j + 1 .. k - 1 : file[i].kind # "ntp"
              => I!Arrival(k) = file[j].time
<1>1. ASSUME I!IsClock(file[j]), \A i \in j + 1 .. k - 1 : ~I!IsClock(file[i])
      PROVE  I!Arrival(k) = I!ClockOf(file[j])
  <2>1. j \in ClocksBefore(k) /\ ClocksBefore(k) \subseteq Int
    BY <1>1 DEF ClocksBefore
  <2>2. \A i \in ClocksBefore(k) : i <= j
    <3> SUFFICES ASSUME NEW i \in 1 .. k - 1, I!IsClock(file[i]) PROVE i <= j
      BY DEF ClocksBefore
    <3>1. i \notin j + 1 .. k - 1
      BY <1>1
    <3> QED
      BY <3>1
  <2>3. I!Max(ClocksBefore(k)) = j
    BY <2>1, <2>2, MaxIs
  <2> QED
    BY <2>1, <2>3, ArrivalCases
<1>2. ASSUME file[j].kind = "ntp", ClocksBefore(k) = {},
             \A i \in j + 1 .. k - 1 : file[i].kind # "ntp"
      PROVE  I!Arrival(k) = file[j].time
  <2>1. j \in NtpsBefore(k) /\ NtpsBefore(k) \subseteq Int
    BY <1>2 DEF NtpsBefore
  <2>2. \A i \in NtpsBefore(k) : i <= j
    <3> SUFFICES ASSUME NEW i \in 1 .. k - 1, file[i].kind = "ntp" PROVE i <= j
      BY DEF NtpsBefore
    <3>1. i \notin j + 1 .. k - 1
      BY <1>2
    <3> QED
      BY <3>1
  <2>3. I!Max(NtpsBefore(k)) = j
    BY <2>1, <2>2, MaxIs
  <2> QED
    BY <1>2, <2>1, <2>3, ArrivalCases
<1> QED
  BY <1>1, <1>2

\* The clock at a packet, step by step.
LEMMA ArrivalSteps ==
    ASSUME file \in Files
    PROVE  /\ I!Arrival(1) = InitialTime
           /\ \A k \in DOMAIN file :
                /\ I!IsClock(file[k]) => I!Arrival(k + 1) = I!ClockOf(file[k])
                /\ ~I!IsClock(file[k]) /\ (file[k].kind # "ntp" \/ ClocksBefore(k) # {}) =>
                      I!Arrival(k + 1) = I!Arrival(k)
                /\ file[k].kind = "ntp" /\ ClocksBefore(k) = {} => I!Arrival(k + 1) = file[k].time
<1>1. I!Arrival(1) = InitialTime
  <2>1. ClocksBefore(1) = {} /\ NtpsBefore(1) = {}
    BY DEF ClocksBefore, NtpsBefore
  <2> QED
    BY <2>1, ArrivalCases
<1> SUFFICES ASSUME NEW k \in DOMAIN file
             PROVE  /\ I!IsClock(file[k]) => I!Arrival(k + 1) = I!ClockOf(file[k])
                    /\ ~I!IsClock(file[k]) /\ (file[k].kind # "ntp" \/ ClocksBefore(k) # {}) =>
                          I!Arrival(k + 1) = I!Arrival(k)
                    /\ file[k].kind = "ntp" /\ ClocksBefore(k) = {} =>
                          I!Arrival(k + 1) = file[k].time
  BY <1>1
<1>2. k \in Nat /\ k + 1 \in Nat /\ k \in 1 .. (k + 1) - 1 /\ k + 1 .. (k + 1) - 1 = {}
  BY FileFacts
<1>3. 1 .. (k + 1) - 1 = 1 .. k - 1 \cup {k}
  BY <1>2
<1>4. /\ ~I!IsClock(file[k]) => ClocksBefore(k + 1) = ClocksBefore(k)
      /\ file[k].kind # "ntp" => NtpsBefore(k + 1) = NtpsBefore(k)
  BY <1>3 DEF ClocksBefore, NtpsBefore
<1>5. ASSUME I!IsClock(file[k]) PROVE I!Arrival(k + 1) = I!ClockOf(file[k])
  BY <1>2, <1>5, ArrivalAt
<1>6. ASSUME ~I!IsClock(file[k]), file[k].kind # "ntp" \/ ClocksBefore(k) # {}
      PROVE  I!Arrival(k + 1) = I!Arrival(k)
  BY <1>2, <1>4, <1>6, ArrivalCases
<1>7. ASSUME file[k].kind = "ntp", ClocksBefore(k) = {} PROVE I!Arrival(k + 1) = file[k].time
  <2>1. ~I!IsClock(file[k])
    BY <1>7 DEF I!IsClock
  <2> QED
    BY <1>2, <1>4, <1>7, <2>1, ArrivalAt
<1> QED
  BY <1>5, <1>6, <1>7

\* Behind a tick the clock is that of the last one.
LEMMA LastTick ==
    ASSUME file \in Files, NEW k \in 1 .. Len(file) + 1, NEW i \in Ticks(file), i < k
    PROVE  \E j \in Ticks(file) : /\ i <= j /\ j < k /\ I!Arrival(k) = TickTime(file[j])
                                  /\ \A x \in Ticks(file) : x < k => x <= j
<1> DEFINE T == {j \in Ticks(file) : j < k}
<1>1. Len(file) \in Nat /\ DOMAIN file = 1 .. Len(file) /\ k \in Nat
  BY FileFacts
<1>2. Ticks(file) \subseteq 1 .. Len(file)
  BY <1>1 DEF Ticks, Clocks
<1>3. T \subseteq Nat /\ T # {} /\ \A j \in T : j <= Len(file)
  BY <1>2
<1>4. PICK j \in T : \A x \in T : x <= j
  <2> HIDE DEF T
  <2> QED
    BY <1>1, <1>3, Greatest
<1>5. j \in 1 .. k - 1 /\ j \in DOMAIN file
  BY <1>1, <1>2
<1>6. CASE I!IsClock(file[j])
  <2>1. \A x \in j + 1 .. k - 1 : ~I!IsClock(file[x])
    <3> SUFFICES ASSUME NEW x \in j + 1 .. k - 1, I!IsClock(file[x]) PROVE FALSE
      OBVIOUS
    <3>1. x \in DOMAIN file /\ x < k /\ x > j
      BY <1>1, <1>5
    <3>2. x \in T
      BY <3>1 DEF Ticks, Clocks
    <3> QED
      BY <1>4, <3>1, <3>2, <1>5
  <2>2. TickTime(file[j]) = I!ClockOf(file[j])
    BY <1>6 DEF TickTime, I!IsClock
  <2> QED
    BY <1>4, <1>1, <1>5, <1>6, <2>1, <2>2, ArrivalAt
<1>7. CASE ~I!IsClock(file[j])
  <2>1. file[j].kind = "ntp" /\ \A x \in Clocks(file) : j < x
    BY <1>7 DEF Ticks, Clocks
  <2>2. ClocksBefore(k) = {}
    <3> SUFFICES ASSUME NEW x \in 1 .. k - 1, I!IsClock(file[x]) PROVE FALSE
      BY DEF ClocksBefore
    <3>1. x \in DOMAIN file /\ x < k
      BY <1>1
    <3>2. x \in Clocks(file) /\ x \in T
      BY <3>1 DEF Ticks, Clocks
    <3> QED
      BY <1>4, <2>1, <3>1, <3>2, <1>5
  <2>3. \A x \in j + 1 .. k - 1 : file[x].kind # "ntp"
    <3> SUFFICES ASSUME NEW x \in j + 1 .. k - 1, file[x].kind = "ntp" PROVE FALSE
      OBVIOUS
    <3>1. x \in DOMAIN file /\ x < k /\ x > j
      BY <1>1, <1>5
    <3>2. \A y \in Clocks(file) : x < y
      <4> SUFFICES ASSUME NEW y \in Clocks(file), y <= x PROVE FALSE
        BY <1>1, <3>1 DEF Clocks
      <4>1. y \in ClocksBefore(k)
        BY <1>1, <3>1 DEF Clocks, ClocksBefore
      <4> QED
        BY <4>1, <2>2
    <3>3. x \in T
      BY <3>1, <3>2 DEF Ticks
    <3> QED
      BY <1>4, <3>1, <3>3, <1>5
  <2>4. TickTime(file[j]) = file[j].time
    BY <2>1 DEF TickTime
  <2> QED
    BY <1>4, <1>1, <1>5, <2>1, <2>2, <2>3, <2>4, ArrivalAt
<1> QED
  BY <1>6, <1>7

\* Behind a tick the clock does not run backwards.
LEMMA ArrivalGrows ==
    ASSUME file \in Files, NEW k \in 1 .. Len(file) + 1, NEW l \in k .. Len(file) + 1,
           NEW i \in Ticks(file), i < k
    PROVE  I!Arrival(k) \in Nat /\ I!Arrival(l) \in Nat /\ I!Arrival(k) <= I!Arrival(l)
<1>1. Len(file) \in Nat /\ DOMAIN file = 1 .. Len(file)
  BY FileFacts
<1>2. Ticks(file) \subseteq DOMAIN file
  BY DEF Ticks, Clocks
<1>3. \A x \in Ticks(file) : TickTime(file[x]) \in Nat
  BY <1>2, FileFacts DEF Ticks, Clocks, TickTime
<1>4. PICK j \in Ticks(file) : j < k /\ I!Arrival(k) = TickTime(file[j])
  BY LastTick
<1>5. l \in 1 .. Len(file) + 1 /\ i < l /\ j < l
  BY <1>1, <1>2, <1>4
<1>6. PICK m \in Ticks(file) : /\ j <= m /\ m < l /\ I!Arrival(l) = TickTime(file[m])
  BY <1>5, LastTick
<1>7. TickTime(file[j]) <= TickTime(file[m])
  <2>1. j = m \/ j < m
    BY <1>1, <1>2, <1>6
  <2> QED
    BY <2>1, <1>3, BroadcastAssumption
<1> QED
  BY <1>3, <1>4, <1>6, <1>7

\* The clock is a time everywhere.
LEMMA ArrivalType ==
    ASSUME file \in Files, NEW k \in 1 .. Len(file) + 1
    PROVE  I!Arrival(k) \in Time
<1> DEFINE N == NtpsBefore(k)
           C == ClocksBefore(k)
<1>1. Len(file) \in Nat /\ DOMAIN file = 1 .. Len(file) /\ k \in Nat
  BY FileFacts
<1>2. C \subseteq Nat /\ C \subseteq DOMAIN file /\ N \subseteq Nat /\ N \subseteq DOMAIN file
  BY <1>1 DEF ClocksBefore, NtpsBefore
<1>3. (\A x \in C : x <= k) /\ (\A x \in N : x <= k)
  BY <1>1 DEF ClocksBefore, NtpsBefore
<1>4. /\ \A x \in C : I!ClockOf(file[x]) \in Time
      /\ \A x \in N : file[x].time \in Time
  BY <1>2, FileFacts, TimeFacts DEF ClocksBefore, NtpsBefore
<1> HIDE DEF N, C
<1>5. C # {} => I!Max(C) \in C
  <2> SUFFICES ASSUME C # {} PROVE I!Max(C) \in C
    OBVIOUS
  <2>1. PICK x \in C : \A y \in C : y <= x
    BY <1>1, <1>2, <1>3, Greatest
  <2>2. C \subseteq Int
    BY <1>2
  <2> QED
    BY <2>1, <2>2, MaxIs
<1>6. N # {} => I!Max(N) \in N
  <2> SUFFICES ASSUME N # {} PROVE I!Max(N) \in N
    OBVIOUS
  <2>1. PICK x \in N : \A y \in N : y <= x
    BY <1>1, <1>2, <1>3, Greatest
  <2>2. N \subseteq Int
    BY <1>2
  <2> QED
    BY <2>1, <2>2, MaxIs
<1> QED
  BY <1>1, <1>4, <1>5, <1>6, ArrivalCases, BroadcastAssumption DEF N, C

\* Every stream that an MPT listed has a control.
LEMMA StreamsType ==
    ASSUME file \in Files, NEW k \in 1 .. Len(file) + 1, NEW p \in DOMAIN I!Streams(k)
    PROVE  I!Streams(k)[p] \in Control
<1> DEFINE M == {j \in 1 .. k - 1 : file[j].kind = "mpt"}
<1>1. Len(file) \in Nat /\ DOMAIN file = 1 .. Len(file) /\ k \in Nat
  BY FileFacts
<1>2. I!Streams(k) = IF M = {} THEN I!NoStreams ELSE file[I!Max(M)].streams
  BY DEF I!Streams, I!Latest
<1>3. M # {}
  BY <1>2 DEF I!NoStreams
<1>4. M \subseteq Nat /\ M \subseteq Int /\ M \subseteq DOMAIN file /\ \A j \in M : j <= k
  BY <1>1
<1>5. \A j \in M : file[j].streams \in [DOMAIN file[j].streams -> Control]
  BY <1>4, FileFacts
<1> HIDE DEF M
<1>6. PICK j \in M : \A i \in M : i <= j
  BY <1>1, <1>3, <1>4, Greatest
<1>7. I!Max(M) = j
  BY <1>4, <1>6, MaxIs
<1> QED
  BY <1>2, <1>3, <1>5, <1>7

-----------------------------------------------------------------------------
(***************************************************************************)
(* The invariant: what the packets of the window have told.                *)
(***************************************************************************)
Read == m_windowStart + 1 .. consumed

Typed ==
    /\ TypeOK
    /\ m_controls \in [DOMAIN m_controls -> Control] /\ IsFiniteSet(DOMAIN m_controls)
    /\ DOMAIN m_controls \subseteq STRING

\* Where the window lies, and that an answer belongs to no running call.
Placed ==
    /\ m_windowStart = IF opened = 0 THEN 0 ELSE I!Larger(0, opened - 1 - m_restartLead)
    /\ wanted # 0 => m_windowStart < wanted
    /\ answer.doc # 0 => wanted = 0

\* The streams are those of the file once the window has had an MPT.
Controlled ==
    \A k \in {consumed + 1} :
        opened = 0 \/ (\E j \in Read : file[j].kind = "mpt") => m_controls = I!Streams(k)

\* The clock is that of the file once the window has had one, or an NTP time
\* where the file has had none.
Clocked ==
    /\ m_hasVideoClock <=> \E j \in Read : I!IsClock(file[j])
    /\ \A k \in {consumed + 1} :
           \/ m_hasVideoClock
           \/ /\ opened = 0 \/ \E j \in Read : file[j].kind = "ntp"
              /\ \A j \in 1 .. consumed : ~I!IsClock(file[j])
           => m_arrival = I!Arrival(k)

Stamped ==
    /\ \A j \in Read : file[j].kind = "video" => file[j].pts <= m_lastPts
    /\ m_lastPts = None \/ \E j \in Read : file[j].kind = "video" /\ file[j].pts = m_lastPts

\* The streams that the MPT at packet k ends or changes.
Changed(k) == {p \in DOMAIN I!Streams(k) : \/ p \notin DOMAIN file[k].streams
                                           \/ file[k].streams[p] # I!Streams(k)[p]}

OfDocument(r, k) ==
    /\ ~r.update /\ file[k].kind = "doc" /\ I!Known(k) /\ r.pid = file[k].pid
    /\ r.start = I!StartOf(k) /\ r.arrival = I!Arrival(k)
    /\ r.stop = I!OwnStop(file[k], I!ControlOf(k), I!Arrival(k))

OfControls(r, k) ==
    /\ r.update /\ file[k].kind = "mpt" /\ r.pid \in Changed(k)
    /\ r.start = I!Arrival(k) /\ r.arrival = I!Arrival(k)

\* The records stand in the order of the file; each says of its packet what the
\* whole file says, and no packet that has something to say is without one.
Ordered ==
    \A m, n \in DOMAIN m_records : m < n =>
        \/ m_records[m].offset < m_records[n].offset
        \/ m_records[m].offset = m_records[n].offset /\ m_records[m].update /\ m_records[n].update

Truthful ==
    \A n \in DOMAIN m_records : \A r \in Record, k \in Nat :
        m_records[n] = r /\ k = r.offset + 1 /\ k >= opened => OfDocument(r, k) \/ OfControls(r, k)

DocumentsAt(k) == {n \in DOMAIN m_records : m_records[n].offset = k - 1 /\ ~m_records[n].update}
ControlsAt(k) == {n \in DOMAIN m_records : m_records[n].offset = k - 1 /\ m_records[n].update}

Complete ==
    \A k \in Read : k >= opened =>
        /\ file[k].kind = "doc" /\ I!Known(k) => DocumentsAt(k) # {}
        /\ file[k].kind = "mpt" =>
              \A p \in Changed(k) : \E n \in ControlsAt(k) : m_records[n].pid = p

Inv == Typed /\ Placed /\ Controlled /\ Clocked /\ Stamped /\ Ordered /\ Truthful /\ Complete

\* What the file says does not depend on the state.
LEMMA FileStays ==
    ASSUME UNCHANGED file
    PROVE  /\ I!Docs' = I!Docs
           /\ \A k : /\ I!Streams(k)' = I!Streams(k) /\ I!Arrival(k)' = I!Arrival(k)
                     /\ Changed(k)' = Changed(k) /\ I!Known(k)' = I!Known(k)
           /\ \A r, k : /\ OfDocument(r, k)' = OfDocument(r, k)
                        /\ OfControls(r, k)' = OfControls(r, k)
<1>1. I!Docs' = I!Docs
  BY DEF I!Docs, I!Packets
<1>2. ASSUME NEW k PROVE I!Streams(k)' = I!Streams(k)
  BY DEF I!Streams, I!Latest
<1>3. ASSUME NEW k PROVE I!Arrival(k)' = I!Arrival(k)
  BY DEF I!Arrival, I!Latest, I!IsClock, I!ClockOf
<1>4. ASSUME NEW k PROVE Changed(k)' = Changed(k)
  BY <1>2 DEF Changed
<1>5. ASSUME NEW k PROVE I!Known(k)' = I!Known(k)
  BY <1>2 DEF I!Known
<1>6. ASSUME NEW r, NEW k PROVE OfDocument(r, k)' = OfDocument(r, k)
  BY <1>2, <1>3, <1>5 DEF OfDocument, I!StartOf, I!ControlOf
<1>7. ASSUME NEW r, NEW k PROVE OfControls(r, k)' = OfControls(r, k)
  BY <1>3, <1>4 DEF OfControls
<1> QED
  BY <1>1, <1>2, <1>3, <1>4, <1>5, <1>6, <1>7

LEMMA DocsFacts ==
    ASSUME file \in Files
    PROVE  I!Docs \subseteq DOMAIN file /\ I!Docs \subseteq Nat \ {0}
           /\ \A k \in I!Docs : file[k].kind = "doc"
BY FileFacts DEF I!Docs, I!Packets

\* At the document that the window was opened for, and from there on, the lead
\* has told the streams and the clock.
LEMMA Synced ==
    ASSUME Inv, NEW k, k = consumed + 1, k >= opened
    PROVE  m_controls = I!Streams(k) /\ m_arrival = I!Arrival(k)
<1>1. /\ Len(file) \in Nat /\ DOMAIN file = 1 .. Len(file) /\ file \in Files
      /\ opened \in {0} \cup I!Docs /\ m_hasVideoClock \in BOOLEAN
      /\ m_windowStart \in 0 .. Len(file) /\ consumed \in m_windowStart .. Len(file)
  BY FileFacts DEF Inv, Typed, TypeOK
<1>2. CASE opened = 0
  <2>1. m_controls = I!Streams(k)
    BY <1>2 DEF Inv, Controlled
  <2>2. Read = 1 .. consumed
    BY <1>2 DEF Read, Inv, Placed
  <2>3. m_arrival = I!Arrival(k)
    BY <1>1, <1>2, <2>2 DEF Inv, Clocked
  <2> QED
    BY <2>1, <2>3
<1>3. CASE opened # 0
  <2> DEFINE lead == {j \in DOMAIN file : opened - m_restartLead <= j /\ j < opened}
  <2>1. opened \in DOMAIN file /\ opened \in Nat \ {0} /\ file[opened].kind = "doc"
    BY <1>1, <1>3, DocsFacts
  <2>2. m_restartLead \in Nat
    BY BroadcastAssumption
  <2>3. m_windowStart = I!Larger(0, opened - 1 - m_restartLead)
    BY <1>3 DEF Inv, Placed
  <2>4. lead \subseteq Read
    BY <1>1, <2>1, <2>2, <2>3 DEF Read, I!Larger
  <2>5. /\ \E j \in lead : file[j].kind = "mpt"
        /\ IF \E j \in Clocks(file) : j < opened THEN \E j \in Clocks(file) : j \in lead
                                                 ELSE \E j \in lead : file[j].kind = "ntp"
    BY <1>1, <2>1, BroadcastAssumption
  <2> HIDE DEF lead
  <2>6. m_controls = I!Streams(k)
    BY <2>4, <2>5 DEF Inv, Controlled
  <2>7. m_arrival = I!Arrival(k)
    <3>1. CASE \E j \in Clocks(file) : j < opened
      BY <1>1, <2>4, <2>5, <3>1 DEF Inv, Clocked, Clocks
    <3>2. CASE ~(\E j \in Clocks(file) : j < opened) /\ ~m_hasVideoClock
      <4>1. \A j \in Read : ~I!IsClock(file[j])
        BY <3>2 DEF Inv, Clocked
      <4>2. \A j \in 1 .. consumed : ~I!IsClock(file[j])
        <5> SUFFICES ASSUME NEW j \in 1 .. consumed, I!IsClock(file[j]) PROVE FALSE
          OBVIOUS
        <5>1. j \in Clocks(file)
          BY <1>1 DEF Clocks
        <5>2. j >= opened
          BY <3>2, <5>1, <1>1, <2>1
        <5>3. j \in Read
          BY <5>2, <1>1, <2>1, <2>2, <2>3 DEF Read, I!Larger
        <5> QED
          BY <4>1, <5>3
      <4> QED
        BY <2>4, <2>5, <3>2, <4>2 DEF Inv, Clocked
    <3>3. CASE m_hasVideoClock
      BY <3>3 DEF Inv, Clocked
    <3> QED
      BY <3>1, <3>2, <3>3
  <2> QED
    BY <2>6, <2>7
<1> QED
  BY <1>2, <1>3

LEMMA InitHolds == Init => Inv
<1> SUFFICES ASSUME Init PROVE Inv
  OBVIOUS
<1>1. file \in Files /\ Len(file) \in Nat /\ InitialTime \in Time
  BY FileFacts, BroadcastAssumption DEF Init
<1>2. TypeOK
  <2>1. m_records = <<>> /\ m_records \in Seq(Record) /\ DOMAIN m_records = {}
    BY DEF Init
  <2>2. {m_arrival, m_lastPts} \subseteq Time /\ m_hasVideoClock \in BOOLEAN
    BY <1>1, TimeFacts DEF Init
  <2>3. m_windowStart \in 0 .. Len(file) /\ consumed \in m_windowStart .. Len(file)
    BY <1>1 DEF Init
  <2>4. wanted = 0 /\ answer.doc = 0 /\ opened = 0
    BY DEF Init, NoAnswer
  <2> QED
    BY <1>1, <2>1, <2>2, <2>3, <2>4 DEF TypeOK
<1>3. Typed
  <2>1. DOMAIN m_controls = {} /\ m_controls \in [DOMAIN m_controls -> Control]
    BY DEF Init, I!NoStreams
  <2> QED
    BY <1>2, <2>1, FS_EmptySet DEF Typed
<1>4. Placed
  BY DEF Init, Placed, NoAnswer
<1>5. Read = {} /\ consumed + 1 = 1 /\ 1 .. consumed = {}
  BY DEF Init, Read
<1>6. Controlled
  BY <1>1, <1>5, StreamsSteps DEF Init, Controlled
<1>7. Clocked
  BY <1>1, <1>5, ArrivalSteps DEF Init, Clocked
<1>8. Stamped
  BY <1>5 DEF Init, Stamped
<1>9. Ordered /\ Truthful /\ Complete
  BY <1>5 DEF Init, Ordered, Truthful, Complete
<1> QED
  BY <1>3, <1>4, <1>6, <1>7, <1>8, <1>9 DEF Inv

\* While the window stays as it is, so does what it tells.
LEMMA WindowStays ==
    ASSUME Inv, UNCHANGED <<file, window, m_controls, opened>>, TypeOK', Placed'
    PROVE  Inv'
<1>1. /\ file' = file /\ m_windowStart' = m_windowStart /\ consumed' = consumed
      /\ m_records' = m_records /\ m_arrival' = m_arrival /\ m_lastPts' = m_lastPts
      /\ m_hasVideoClock' = m_hasVideoClock /\ m_controls' = m_controls /\ opened' = opened
  BY DEF window
<1>2. Read' = Read /\ \A k : DocumentsAt(k)' = DocumentsAt(k) /\ ControlsAt(k)' = ControlsAt(k)
  BY <1>1 DEF Read, DocumentsAt, ControlsAt
<1>3. Typed'
  BY <1>1 DEF Inv, Typed
<1>4. Controlled'
  BY <1>1, <1>2, FileStays DEF Inv, Controlled
<1>5. Clocked'
  <2>1. \A p : I!IsClock(p)' = I!IsClock(p)
    BY DEF I!IsClock, I!ClockOf
  <2> QED
    BY <1>1, <1>2, <2>1, FileStays DEF Inv, Clocked
<1>6. Stamped'
  BY <1>1, <1>2 DEF Inv, Stamped
<1>7. Ordered'
  BY <1>1 DEF Inv, Ordered
<1>8. Truthful'
  BY <1>1, FileStays DEF Inv, Truthful
<1>9. Complete'
  <2> SUFFICES ASSUME NEW k \in Read', (k >= opened)'
               PROVE  /\ file'[k].kind = "doc" /\ I!Known(k)' => DocumentsAt(k)' # {}
                      /\ file'[k].kind = "mpt" => \A p \in Changed(k)' :
                            \E n \in ControlsAt(k)' : m_records'[n].pid = p
    BY DEF Complete
  <2>1. /\ DocumentsAt(k)' = DocumentsAt(k) /\ ControlsAt(k)' = ControlsAt(k)
        /\ I!Known(k)' = I!Known(k) /\ Changed(k)' = Changed(k)
    BY <1>1, <1>2, FileStays
  <2> QED
    BY <1>1, <1>2, <2>1 DEF Inv, Complete
<1> QED
  BY <1>3, <1>4, <1>5, <1>6, <1>7, <1>8, <1>9 DEF Inv

LEMMA ResolveKeeps ==
    ASSUME Inv, NEW d \in I!Docs, Resolve(d)
    PROVE  Inv'
<1>1. /\ Len(file) \in Nat /\ DOMAIN file = 1 .. Len(file) /\ file \in Files /\ d \in DOMAIN file
      /\ m_windowStart \in 0 .. Len(file) /\ consumed \in m_windowStart .. Len(file) /\ d \in Nat
      /\ m_restartLead \in Nat /\ TypeOK
  BY FileFacts, DocsFacts, BroadcastAssumption DEF Inv, Typed, TypeOK
<1>2. /\ file' = file /\ wanted' = d /\ answer' = NoAnswer /\ m_controls' = m_controls
      /\ I!Docs' = I!Docs /\ NoAnswer.doc = 0
  BY FileStays DEF Resolve, NoAnswer
<1>3. CASE Left(d - 1)
  <2>1. /\ m_windowStart' = I!Larger(0, d - 1 - m_restartLead) /\ consumed' = m_windowStart'
        /\ m_records' = <<>> /\ m_arrival' = None /\ m_lastPts' = None
        /\ m_hasVideoClock' = FALSE /\ opened' = d
    BY <1>3 DEF Resolve, Restart
  <2>2. m_windowStart' \in 0 .. d - 1
    BY <1>1, <2>1 DEF I!Larger
  <2>3. Read' = {}
    BY <2>1, <2>2 DEF Read
  <2>4. TypeOK'
    <3>1. m_windowStart' \in 0 .. Len(file) /\ consumed' \in m_windowStart' .. Len(file)
      BY <1>1, <2>1, <2>2
    <3>2. m_records' \in Seq(Record) /\ DOMAIN m_records' = {}
      BY <2>1
    <3> QED
      BY <1>1, <1>2, <2>1, <3>1, <3>2, TimeFacts DEF TypeOK
  <2>5. Typed'
    BY <1>2, <2>4 DEF Inv, Typed
  <2>6. Placed'
    <3>1. opened' # 0 /\ m_windowStart' = I!Larger(0, opened' - 1 - m_restartLead)
      BY <1>1, <2>1
    <3>2. m_windowStart' < wanted'
      BY <1>1, <1>2, <2>2
    <3> QED
      BY <1>2, <3>1, <3>2 DEF Placed, I!Larger
  <2>7. opened' # 0
    BY <1>1, <2>1
  <2>8. Controlled' /\ Clocked' /\ Stamped'
    BY <2>1, <2>3, <2>7 DEF Controlled, Clocked, Stamped
  <2>9. Ordered' /\ Truthful' /\ Complete'
    BY <2>1, <2>3 DEF Ordered, Truthful, Complete
  <2> QED
    BY <2>5, <2>6, <2>8, <2>9 DEF Inv
<1>4. CASE ~Left(d - 1)
  <2>1. UNCHANGED <<file, window, m_controls, opened>> /\ m_windowStart' = m_windowStart
        /\ m_windowStart < d
    BY <1>1, <1>4 DEF Resolve, Left, window
  <2>2. TypeOK'
    BY <1>1, <1>2, <2>1 DEF TypeOK, window
  <2>3. Placed'
    BY <1>2, <2>1 DEF Inv, Placed, I!Larger
  <2> QED
    BY <2>1, <2>2, <2>3, WindowStays
<1> QED
  BY <1>3, <1>4

\* Answering and giving up leave the window alone.
LEMMA ReturnKeeps ==
    ASSUME Inv, wanted # 0, wanted' = 0, UNCHANGED <<file, window, m_controls, opened>>,
           answer' = answer \/ answer'.doc = wanted
    PROVE  Inv'
<1>1. TypeOK'
  BY FileStays DEF Inv, Typed, TypeOK, window
<1>2. Placed'
  BY DEF Inv, Placed, window, I!Larger
<1> QED
  BY <1>1, <1>2, WindowStays

-----------------------------------------------------------------------------
(***************************************************************************)
(* Reading a packet.                                                       *)
(***************************************************************************)
Reading(k) ==
    /\ k \in DOMAIN file /\ k = consumed + 1 /\ consumed' = k /\ wanted # 0
    /\ UNCHANGED <<file, m_windowStart, wanted, answer, opened>>

LEMMA ReadingFacts ==
    ASSUME Inv, NEW k, Reading(k)
    PROVE  /\ file \in Files /\ Len(file) \in Nat /\ DOMAIN file = 1 .. Len(file)
           /\ k \in Nat \ {0} /\ consumed = k - 1
           /\ m_windowStart \in 0 .. k - 1 /\ opened \in Nat
           /\ Read' = Read \cup {k} /\ Read \subseteq 1 .. k - 1 /\ Placed'
<1>1. /\ file \in Files /\ Len(file) \in Nat /\ DOMAIN file = 1 .. Len(file)
      /\ m_windowStart \in 0 .. Len(file) /\ consumed \in m_windowStart .. Len(file)
      /\ opened \in {0} \cup I!Docs
  BY FileFacts DEF Inv, Typed, TypeOK
<1>2. /\ k \in Nat \ {0} /\ consumed = k - 1 /\ consumed' = k /\ m_windowStart' = m_windowStart
  BY <1>1 DEF Reading
<1>3. Read' = Read \cup {k} /\ Read \subseteq 1 .. k - 1
  BY <1>1, <1>2 DEF Read
<1>4. Placed'
  BY DEF Reading, Inv, Placed, I!Larger
<1> QED
  BY <1>1, <1>2, <1>3, <1>4, DocsFacts

\* What is known of a packet to be recorded.
LEMMA RecordsGrow ==
    ASSUME Inv, NEW k, Reading(k), NEW more \in Seq(Record), m_records' = m_records \o more,
           \A n \in DOMAIN more : more[n].offset = k - 1,
           \A m, n \in DOMAIN more : m < n => more[m].update /\ more[n].update,
           \A n \in DOMAIN more : k >= opened => OfDocument(more[n], k) \/ OfControls(more[n], k),
           k >= opened =>
             /\ file[k].kind = "doc" /\ I!Known(k) => \E n \in DOMAIN more : ~more[n].update
             /\ file[k].kind = "mpt" => \A p \in Changed(k) :
                   \E n \in DOMAIN more : more[n].update /\ more[n].pid = p
    PROVE  /\ m_records' \in Seq(Record) /\ Ordered' /\ Truthful' /\ Complete'
           /\ \A n \in DOMAIN m_records' : m_records'[n].offset \in m_windowStart' .. consumed' - 1
<1> DEFINE L == Len(m_records)
<1>1. /\ file \in Files /\ Len(file) \in Nat /\ k \in Nat \ {0} /\ consumed = k - 1
      /\ m_windowStart \in 0 .. k - 1 /\ opened \in Nat
      /\ Read' = Read \cup {k} /\ Read \subseteq 1 .. k - 1
  BY ReadingFacts
<1>2. /\ m_records \in Seq(Record) /\ L \in Nat /\ DOMAIN m_records = 1 .. L
      /\ Len(more) \in Nat /\ DOMAIN more = 1 .. Len(more)
  BY DEF Inv, Typed, TypeOK
<1>3. /\ m_records' \in Seq(Record) /\ DOMAIN m_records' = 1 .. L + Len(more)
      /\ \A n \in 1 .. L : m_records'[n] = m_records[n]
      /\ \A n \in L + 1 .. L + Len(more) : n - L \in DOMAIN more /\ m_records'[n] = more[n - L]
      /\ \A n \in DOMAIN more : L + n \in DOMAIN m_records' /\ m_records'[L + n] = more[n]
  BY <1>2
<1>4. /\ file' = file /\ consumed' = k /\ m_windowStart' = m_windowStart /\ opened' = opened
  BY DEF Reading
<1>5. \A n \in DOMAIN m_records : m_records[n].offset \in m_windowStart .. k - 2
  BY <1>1 DEF Inv, Typed, TypeOK
<1> HIDE DEF L
<1>6. \A n \in DOMAIN m_records' : \/ n \in DOMAIN m_records /\ m_records'[n] = m_records[n]
                                   \/ /\ n \in L + 1 .. L + Len(more) /\ n - L \in DOMAIN more
                                      /\ m_records'[n] = more[n - L]
  BY <1>2, <1>3
<1>7. ASSUME NEW n \in DOMAIN m_records'
      PROVE  m_records'[n].offset \in m_windowStart' .. consumed' - 1
  BY <1>1, <1>4, <1>5, <1>6
<1>8. Ordered'
  <2> SUFFICES ASSUME NEW m \in DOMAIN m_records', NEW n \in DOMAIN m_records', m < n
               PROVE  \/ m_records'[m].offset < m_records'[n].offset
                      \/ /\ m_records'[m].offset = m_records'[n].offset
                         /\ m_records'[m].update /\ m_records'[n].update
    BY DEF Ordered
  <2>1. CASE n \in 1 .. L
    <3>1. m \in 1 .. L
      BY <1>2, <1>3, <2>1
    <3> QED
      BY <1>2, <1>3, <2>1, <3>1 DEF Inv, Ordered
  <2>2. CASE m \in 1 .. L /\ n \notin 1 .. L
    <3>1. m_records'[m].offset \in m_windowStart .. k - 2 /\ m_records'[n].offset = k - 1
      BY <1>2, <1>3, <1>5, <1>6, <2>2
    <3> QED
      BY <1>1, <3>1
  <2>3. CASE m \notin 1 .. L /\ n \notin 1 .. L
    <3>1. /\ m_records'[m] = more[m - L] /\ m_records'[n] = more[n - L]
          /\ m - L \in DOMAIN more /\ n - L \in DOMAIN more /\ m - L < n - L
      BY <1>2, <1>6, <2>3
    <3> QED
      BY <3>1
  <2> QED
    BY <1>2, <1>3, <2>1, <2>2, <2>3
<1>9. Truthful'
  <2> SUFFICES ASSUME NEW n \in DOMAIN m_records', NEW r \in Record, NEW j \in Nat,
                      m_records'[n] = r, j = r.offset + 1, j >= opened
               PROVE  OfDocument(r, j) \/ OfControls(r, j)
    BY <1>4, FileStays DEF Truthful
  <2>1. CASE n \in DOMAIN m_records /\ m_records'[n] = m_records[n]
    BY <2>1 DEF Inv, Truthful
  <2>2. CASE n - L \in DOMAIN more /\ m_records'[n] = more[n - L]
    <3>1. j = k
      BY <1>1, <2>2
    <3> QED
      BY <2>2, <3>1
  <2> QED
    BY <1>6, <2>1, <2>2
<1>10. Complete'
  <2> DEFINE Ds(j) == {n \in DOMAIN m_records' : m_records'[n].offset = j - 1 /\ ~m_records'[n].update}
             Cs(j) == {n \in DOMAIN m_records' : m_records'[n].offset = j - 1 /\ m_records'[n].update}
  <2>1. /\ \A j : DocumentsAt(j)' = Ds(j) /\ ControlsAt(j)' = Cs(j)
        /\ \A j : I!Known(j)' = I!Known(j) /\ Changed(j)' = Changed(j)
    <3>1. \A j : DocumentsAt(j)' = Ds(j) /\ ControlsAt(j)' = Cs(j)
      BY DEF DocumentsAt, ControlsAt
    <3> QED
      BY <1>4, <3>1, FileStays
  <2> SUFFICES ASSUME NEW j \in Read', j >= opened
               PROVE  /\ file[j].kind = "doc" /\ I!Known(j) => Ds(j) # {}
                      /\ file[j].kind = "mpt" => \A p \in Changed(j) :
                            \E n \in Cs(j) : m_records'[n].pid = p
    <3> HIDE DEF Ds, Cs
    <3>1. \A j : /\ DocumentsAt(j)' = Ds(j) /\ ControlsAt(j)' = Cs(j)
                 /\ I!Known(j)' = I!Known(j) /\ Changed(j)' = Changed(j)
      BY <2>1
    <3> QED
      BY <1>4, <3>1 DEF Complete
  <2>2. CASE j \in Read
    <3>1. /\ file[j].kind = "doc" /\ I!Known(j) => DocumentsAt(j) # {}
          /\ file[j].kind = "mpt" =>
                \A p \in Changed(j) : \E n \in ControlsAt(j) : m_records[n].pid = p
      BY <2>2 DEF Inv, Complete
    <3>2. \A n \in DOMAIN m_records : n \in DOMAIN m_records' /\ m_records'[n] = m_records[n]
      BY <1>2, <1>3
    <3>3. /\ \A n \in DocumentsAt(j) : n \in Ds(j)
          /\ \A n \in ControlsAt(j) : n \in Cs(j) /\ m_records'[n] = m_records[n]
      BY <3>2 DEF DocumentsAt, ControlsAt
    <3> HIDE DEF Ds, Cs
    <3>4. ASSUME file[j].kind = "mpt", NEW p \in Changed(j)
          PROVE  \E n \in Cs(j) : m_records'[n].pid = p
      <4>1. PICK n \in ControlsAt(j) : m_records[n].pid = p
        BY <3>1, <3>4
      <4> QED
        BY <3>3, <4>1
    <3> QED
      BY <3>1, <3>3, <3>4
  <2>3. CASE j = k
    <3>1. \A n \in DOMAIN more : more[n] \in Record
      BY <1>2
    <3>2. \A n \in DOMAIN more : more[n].update \in BOOLEAN
      BY <3>1 DEF Record
    <3>3. \A n \in DOMAIN more : /\ L + n \in DOMAIN m_records' /\ m_records'[L + n] = more[n]
                                 /\ more[n].offset = j - 1
      BY <1>3, <2>3
    <3>4. \A n \in DOMAIN more : /\ more[n].update => L + n \in Cs(j)
                                 /\ ~more[n].update => L + n \in Ds(j)
      BY <3>2, <3>3
    <3>5. /\ file[j].kind = "doc" /\ I!Known(j) => \E n \in DOMAIN more : ~more[n].update
          /\ file[j].kind = "mpt" => \A p \in Changed(j) :
                \E n \in DOMAIN more : more[n].update /\ more[n].pid = p
      BY <2>3
    <3> HIDE DEF Ds, Cs
    <3>6. ASSUME file[j].kind = "mpt", NEW p \in Changed(j)
          PROVE  \E n \in Cs(j) : m_records'[n].pid = p
      <4>1. PICK n \in DOMAIN more : more[n].update /\ more[n].pid = p
        BY <3>5, <3>6
      <4> QED
        BY <3>3, <3>4, <4>1
    <3> QED
      BY <3>4, <3>5, <3>6
  <2> QED
    BY <1>1, <2>2, <2>3
<1> QED
  BY <1>3, <1>7, <1>8, <1>9, <1>10

LEMMA ReadingTypes ==
    ASSUME Inv, NEW k, Reading(k), m_records' \in Seq(Record),
           \A n \in DOMAIN m_records' : m_records'[n].offset \in m_windowStart' .. consumed' - 1,
           m_arrival' \in Time, m_lastPts' \in Time, m_hasVideoClock' \in BOOLEAN
    PROVE  TypeOK'
<1>1. m_windowStart' \in 0 .. Len(file') /\ consumed' \in m_windowStart' .. Len(file')
  BY ReadingFacts DEF Reading
<1>2. I!Docs' = I!Docs /\ file' = file /\ wanted' = wanted /\ answer' = answer /\ opened' = opened
  BY FileStays DEF Reading
<1> QED
  BY <1>1, <1>2 DEF Inv, Typed, TypeOK

\* No record is added, for packets that say nothing.
LEMMA NoRecord ==
    ASSUME Inv, NEW k, Reading(k), m_records' = m_records,
           k >= opened => file[k].kind # "mpt" /\ (file[k].kind = "doc" => ~I!Known(k))
    PROVE  /\ m_records' \in Seq(Record) /\ Ordered' /\ Truthful' /\ Complete'
           /\ \A n \in DOMAIN m_records' : m_records'[n].offset \in m_windowStart' .. consumed' - 1
<1> DEFINE more == <<>>
<1>1. more \in Seq(Record) /\ DOMAIN more = {}
  OBVIOUS
<1>2. m_records' = m_records \o more
  BY DEF Inv, Typed, TypeOK
<1> HIDE DEF more
<1> QED
  BY <1>1, <1>2, RecordsGrow

\* The streams are unchanged by a packet that is not an MPT.
LEMMA ControlsStay ==
    ASSUME Inv, NEW k, Reading(k), file[k].kind # "mpt", m_controls' = m_controls
    PROVE  Controlled'
<1>1. /\ file \in Files /\ k \in Nat /\ consumed = k - 1 /\ consumed' = k /\ consumed + 1 = k
      /\ Read' = Read \cup {k} /\ file' = file /\ opened' = opened
  BY ReadingFacts DEF Reading
<1>2. I!Streams(k + 1) = I!Streams(k)
  BY <1>1, StreamsSteps DEF Reading
<1>3. \A j : I!Streams(j)' = I!Streams(j)
  BY <1>1, FileStays
<1>4. opened = 0 \/ (\E j \in Read : file[j].kind = "mpt") => m_controls = I!Streams(k)
  BY <1>1 DEF Inv, Controlled
<1> QED
  BY <1>1, <1>2, <1>3, <1>4 DEF Controlled

\* The clock is unchanged by a packet that does not set it.
LEMMA ClockStays ==
    ASSUME Inv, NEW k, Reading(k), ~I!IsClock(file[k]),
           file[k].kind # "ntp" \/ m_hasVideoClock,
           m_arrival' = m_arrival, m_hasVideoClock' = m_hasVideoClock
    PROVE  Clocked'
<1>1. /\ file \in Files /\ k \in Nat \ {0} /\ consumed = k - 1 /\ consumed' = k /\ consumed + 1 = k
      /\ Read' = Read \cup {k} /\ Read \subseteq 1 .. k - 1 /\ file' = file /\ opened' = opened
      /\ k \in DOMAIN file
  BY ReadingFacts DEF Reading
<1>2. m_hasVideoClock => ClocksBefore(k) # {}
  BY <1>1 DEF Inv, Clocked, ClocksBefore
<1>3. I!Arrival(k + 1) = I!Arrival(k)
  BY <1>1, <1>2, ArrivalSteps
<1>4. \A j : I!Arrival(j)' = I!Arrival(j)
  BY <1>1, FileStays
<1>5. \A j : I!IsClock(j)' = I!IsClock(j)
  BY DEF I!IsClock, I!ClockOf
<1>6. m_hasVideoClock' <=> \E j \in Read' : I!IsClock(file[j])
  BY <1>1 DEF Inv, Clocked
<1>7. 1 .. k = 1 .. k - 1 \cup {k}
  BY <1>1
<1>8. ASSUME \/ m_hasVideoClock
             \/ /\ opened = 0 \/ \E j \in Read' : file[j].kind = "ntp"
                /\ \A j \in 1 .. k : ~I!IsClock(file[j])
      PROVE  m_arrival' = I!Arrival(k + 1)
  <2>1. \/ m_hasVideoClock
        \/ /\ opened = 0 \/ \E j \in Read : file[j].kind = "ntp"
           /\ \A j \in 1 .. consumed : ~I!IsClock(file[j])
    BY <1>1, <1>7, <1>8
  <2>2. m_arrival = I!Arrival(k)
    BY <1>1, <2>1 DEF Inv, Clocked
  <2> QED
    BY <1>3, <2>2
<1> QED
  BY <1>1, <1>4, <1>5, <1>6, <1>8 DEF Clocked

LEMMA StampsStay ==
    ASSUME Inv, NEW k, Reading(k), file[k].kind # "video", m_lastPts' = m_lastPts
    PROVE  Stamped'
<1>1. Read' = Read \cup {k} /\ file' = file
  BY ReadingFacts DEF Reading
<1> QED
  BY <1>1 DEF Inv, Stamped

LEMMA VideoKeeps ==
    ASSUME Inv, NEW k, Reading(k), file[k].kind = "video", Video(k)
    PROVE  Inv'
<1>1. /\ file \in Files /\ k \in Nat \ {0} /\ consumed = k - 1 /\ consumed' = k /\ consumed + 1 = k
      /\ Read' = Read \cup {k} /\ Read \subseteq 1 .. k - 1 /\ file' = file /\ opened' = opened
      /\ k \in DOMAIN file /\ Placed'
  BY ReadingFacts DEF Reading
<1>2. file[k].pts \in Time /\ I!ClockOf(file[k]) \in Time /\ m_lastPts \in Time
  BY <1>1, FileFacts DEF Inv, Typed, TypeOK
<1>3. /\ m_lastPts' = I!Larger(m_lastPts, file[k].pts) /\ m_records' = m_records
      /\ m_controls' = m_controls
  BY DEF Video
<1>4. /\ m_records' \in Seq(Record) /\ Ordered' /\ Truthful' /\ Complete'
      /\ \A n \in DOMAIN m_records' : m_records'[n].offset \in m_windowStart' .. consumed' - 1
  BY <1>3, NoRecord
<1>5. TypeOK'
  <2>1. m_lastPts' \in Time
    BY <1>2, <1>3 DEF I!Larger
  <2>2. m_arrival' \in Time /\ m_hasVideoClock' \in BOOLEAN
    BY <1>2 DEF Video, Inv, Typed, TypeOK
  <2> QED
    BY <1>4, <2>1, <2>2, ReadingTypes
<1>6. Typed'
  BY <1>3, <1>5 DEF Inv, Typed
<1>7. Controlled'
  BY <1>3, ControlsStay
<1>8. Clocked'
  <2>1. CASE I!IsClock(file[k])
    <3>1. m_arrival' = I!ClockOf(file[k]) /\ m_hasVideoClock' = TRUE
      BY <2>1 DEF Video
    <3>2. I!Arrival(k + 1) = I!ClockOf(file[k])
      BY <1>1, <2>1, ArrivalSteps
    <3>3. /\ \A j : I!Arrival(j)' = I!Arrival(j)
          /\ \A j : I!IsClock(j)' = I!IsClock(j)
      BY <1>1, FileStays DEF I!IsClock, I!ClockOf
    <3> QED
      BY <1>1, <2>1, <3>1, <3>2, <3>3 DEF Clocked
  <2>2. CASE ~I!IsClock(file[k])
    BY <2>2, ClockStays DEF Video
  <2> QED
    BY <2>1, <2>2
<1>9. Stamped'
  <2>1. \A j \in Read : file[j].kind = "video" => file[j].pts \in Int
    <3>1. Read \subseteq DOMAIN file
      BY <1>1, FileFacts
    <3> QED
      BY <1>1, <3>1, FileFacts, TimeFacts
  <2>2. m_lastPts \in Int /\ file[k].pts \in Int /\ file[k].pts >= None
    BY <1>2 DEF Time, None
  <2>3. /\ m_lastPts' = m_lastPts \/ m_lastPts' = file[k].pts
        /\ m_lastPts <= m_lastPts' /\ file[k].pts <= m_lastPts' /\ m_lastPts' \in Int
    BY <1>3, <2>2 DEF I!Larger
  <2>4. \A j \in Read' : file[j].kind = "video" => file[j].pts <= m_lastPts'
    BY <1>1, <2>1, <2>2, <2>3 DEF Inv, Stamped
  <2>5. m_lastPts' = None \/ \E j \in Read' : file[j].kind = "video" /\ file[j].pts = m_lastPts'
    BY <1>1, <2>3 DEF Inv, Stamped
  <2> QED
    BY <1>1, <2>4, <2>5 DEF Stamped
<1> QED
  BY <1>1, <1>4, <1>6, <1>7, <1>8, <1>9 DEF Inv

LEMMA NtpKeeps ==
    ASSUME Inv, NEW k, Reading(k), file[k].kind = "ntp", Ntp(k)
    PROVE  Inv'
<1>1. /\ file \in Files /\ k \in Nat \ {0} /\ consumed = k - 1 /\ consumed' = k /\ consumed + 1 = k
      /\ Read' = Read \cup {k} /\ Read \subseteq 1 .. k - 1 /\ file' = file /\ opened' = opened
      /\ k \in DOMAIN file /\ Placed' /\ file[k].time \in Nat
  BY ReadingFacts, FileFacts DEF Reading
<1>2. /\ m_records' = m_records /\ m_lastPts' = m_lastPts /\ m_hasVideoClock' = m_hasVideoClock
      /\ m_controls' = m_controls /\ m_arrival' = IF m_hasVideoClock THEN m_arrival ELSE file[k].time
  BY DEF Ntp
<1>3. ~I!IsClock(file[k])
  BY DEF I!IsClock
<1>4. /\ m_records' \in Seq(Record) /\ Ordered' /\ Truthful' /\ Complete'
      /\ \A n \in DOMAIN m_records' : m_records'[n].offset \in m_windowStart' .. consumed' - 1
  BY <1>2, NoRecord
<1>5. TypeOK'
  <2>1. m_arrival' \in Time /\ m_lastPts' \in Time /\ m_hasVideoClock' \in BOOLEAN
    BY <1>1, <1>2, TimeFacts DEF Inv, Typed, TypeOK
  <2> QED
    BY <1>4, <2>1, ReadingTypes
<1>6. Typed'
  BY <1>2, <1>5 DEF Inv, Typed
<1>7. Controlled' /\ Stamped'
  BY <1>2, ControlsStay, StampsStay
<1>8. Clocked'
  <2>1. CASE m_hasVideoClock
    BY <1>2, <1>3, <2>1, ClockStays
  <2>2. CASE ~m_hasVideoClock
    <3>1. m_arrival' = file[k].time /\ ~m_hasVideoClock'
      BY <1>2, <2>2
    <3>2. /\ \A j : I!Arrival(j)' = I!Arrival(j)
          /\ \A j : I!IsClock(j)' = I!IsClock(j)
      BY <1>1, FileStays DEF I!IsClock, I!ClockOf
    <3>3. ~\E j \in Read' : I!IsClock(file[j])
      BY <1>1, <1>3, <2>2 DEF Inv, Clocked
    <3>4. ASSUME \A j \in 1 .. k : ~I!IsClock(file[j]) PROVE I!Arrival(k + 1) = file[k].time
      <4>1. ClocksBefore(k) = {}
        BY <1>1, <3>4 DEF ClocksBefore
      <4> QED
        BY <1>1, <4>1, ArrivalSteps
    <3> QED
      BY <1>1, <3>1, <3>2, <3>3, <3>4 DEF Clocked
  <2> QED
    BY <2>1, <2>2
<1> QED
  BY <1>1, <1>4, <1>6, <1>7, <1>8 DEF Inv

\* The times of a document.
LEMMA DocumentTimes ==
    ASSUME NEW d, d.begin \in Time, d.end \in Time, NEW control \in Control, NEW arrival \in Time
    PROVE  /\ I!Start(d, control, arrival) \in Time /\ I!OwnStop(d, control, arrival) \in Time
<1>1. control.ref \in Time
  BY DEF Control
<1>2. I!Base(d, control, arrival) \in Time
  BY <1>1 DEF I!Base
<1>3. \A s, t \in Time : t # None => s + t \in Time
  BY DEF Time, None
<1>4. I!None = None /\ None \in Time
  BY TimeFacts
<1> HIDE DEF Time
<1>5. I!Start(d, control, arrival) \in Time
  BY <1>2, <1>3, <1>4 DEF I!Start
<1>6. I!OwnStop(d, control, arrival) \in Time
  BY <1>2, <1>3, <1>4 DEF I!OwnStop
<1> QED
  BY <1>5, <1>6

LEMMA DocumentKeeps ==
    ASSUME Inv, NEW k, Reading(k), file[k].kind = "doc", Document(k)
    PROVE  Inv'
<1> DEFINE d == file[k]
           control == m_controls[d.pid]
           r == [offset |-> k - 1, pid |-> d.pid, update |-> FALSE,
                 start |-> I!Start(d, control, m_arrival),
                 stop |-> I!OwnStop(d, control, m_arrival), arrival |-> m_arrival]
<1>1. /\ file \in Files /\ k \in Nat \ {0} /\ k = consumed + 1 /\ Placed' /\ k \in DOMAIN file
  BY ReadingFacts DEF Reading
<1>2. d.pid \in STRING /\ d.begin \in Time /\ d.end \in Time
  BY <1>1, FileFacts
<1>3. m_arrival \in Time /\ m_records \in Seq(Record)
  BY DEF Inv, Typed, TypeOK
<1>4. /\ m_lastPts' = m_lastPts /\ m_hasVideoClock' = m_hasVideoClock
      /\ m_controls' = m_controls /\ m_arrival' = m_arrival
      /\ d.pid \notin DOMAIN m_controls => m_records' = m_records
      /\ d.pid \in DOMAIN m_controls => m_records' = Append(m_records, r)
  BY DEF Document
<1>5. k >= opened => m_controls = I!Streams(k) /\ m_arrival = I!Arrival(k)
  BY <1>1, Synced
<1>6. /\ m_records' \in Seq(Record) /\ Ordered' /\ Truthful' /\ Complete'
      /\ \A n \in DOMAIN m_records' : m_records'[n].offset \in m_windowStart' .. consumed' - 1
  <2>1. CASE d.pid \notin DOMAIN m_controls
    <3>1. k >= opened => file[k].kind # "mpt" /\ ~I!Known(k)
      BY <1>5, <2>1 DEF I!Known
    <3> QED
      BY <1>4, <2>1, <3>1, NoRecord
  <2>2. CASE d.pid \in DOMAIN m_controls
    <3>1. control \in Control
      BY <2>2 DEF Inv, Typed
    <3>2. I!Start(d, control, m_arrival) \in Time /\ I!OwnStop(d, control, m_arrival) \in Time
      <4> HIDE DEF d, control
      <4> QED
        BY <1>2, <1>3, <3>1, DocumentTimes
    <3>3. r \in Record
      BY <1>1, <1>2, <1>3, <3>2 DEF Record
    <3>4. k >= opened => OfDocument(r, k)
      <4> SUFFICES ASSUME k >= opened PROVE OfDocument(r, k)
        OBVIOUS
      <4>1. m_controls = I!Streams(k) /\ m_arrival = I!Arrival(k)
        BY <1>5
      <4>2. control = I!ControlOf(k) /\ I!Known(k)
        BY <2>2, <4>1 DEF I!ControlOf, I!Known
      <4>3. /\ ~r.update /\ r.pid = file[k].pid /\ r.start = I!Start(d, control, m_arrival)
            /\ r.stop = I!OwnStop(d, control, m_arrival) /\ r.arrival = m_arrival
        OBVIOUS
      <4> HIDE DEF r
      <4> QED
        BY <4>1, <4>2, <4>3 DEF OfDocument, I!StartOf
    <3>5. r.offset = k - 1 /\ ~r.update
      OBVIOUS
    <3>6. m_records' = Append(m_records, r)
      BY <1>4, <2>2
    <3> DEFINE more == <<r>>
    <3> HIDE DEF r
    <3>7. more \in Seq(Record) /\ DOMAIN more = {1} /\ more[1] = r
      BY <3>3
    <3>8. m_records' = m_records \o more
      BY <1>3, <3>3, <3>6
    <3> HIDE DEF more
    <3>9. /\ \A n \in DOMAIN more : more[n].offset = k - 1
          /\ \A m, n \in DOMAIN more : m < n => more[m].update /\ more[n].update
          /\ \A n \in DOMAIN more :
                k >= opened => OfDocument(more[n], k) \/ OfControls(more[n], k)
          /\ \E n \in DOMAIN more : ~more[n].update
      BY <3>4, <3>5, <3>7
    <3> QED
      BY <3>7, <3>8, <3>9, RecordsGrow
  <2> QED
    BY <2>1, <2>2
<1>7. TypeOK'
  <2>1. m_arrival' \in Time /\ m_lastPts' \in Time /\ m_hasVideoClock' \in BOOLEAN
    BY <1>4 DEF Inv, Typed, TypeOK
  <2> QED
    BY <1>6, <2>1, ReadingTypes
<1>8. Typed'
  BY <1>4, <1>7 DEF Inv, Typed
<1>9. Controlled' /\ Clocked' /\ Stamped'
  <2>1. ~I!IsClock(file[k])
    BY DEF I!IsClock
  <2> QED
    BY <1>4, <2>1, ControlsStay, ClockStays, StampsStay
<1> QED
  BY <1>1, <1>6, <1>8, <1>9 DEF Inv

LEMMA ControlsKeeps ==
    ASSUME Inv, NEW k, Reading(k), file[k].kind = "mpt", Controls(k)
    PROVE  Inv'
<1> DEFINE streams == file[k].streams
           changed == {p \in DOMAIN m_controls :
                         p \notin DOMAIN streams \/ streams[p] # m_controls[p]}
           Update(p) == [offset |-> k - 1, pid |-> p, update |-> TRUE,
                         start |-> m_arrival, arrival |-> m_arrival, stop |-> None]
<1>1. /\ file \in Files /\ k \in Nat \ {0} /\ k = consumed + 1 /\ Placed' /\ k \in DOMAIN file
      /\ consumed' = k /\ file' = file
  BY ReadingFacts DEF Reading
<1>2. /\ streams \in [DOMAIN streams -> Control] /\ IsFiniteSet(DOMAIN streams)
      /\ DOMAIN streams \subseteq STRING
  BY <1>1, FileFacts
<1>3. m_arrival \in Time /\ m_records \in Seq(Record) /\ None \in Time
  BY TimeFacts DEF Inv, Typed, TypeOK
<1>4. /\ m_lastPts' = m_lastPts /\ m_hasVideoClock' = m_hasVideoClock
      /\ m_controls' = streams /\ m_arrival' = m_arrival
  BY DEF Controls
<1>5. PICK order \in [1 .. Cardinality(changed) -> changed] :
          /\ \A p \in changed : \E n \in DOMAIN order : order[n] = p
          /\ m_records' = m_records \o [n \in DOMAIN order |-> Update(order[n])]
  BY DEF Controls
<1>6. Cardinality(changed) \in Nat /\ changed \subseteq STRING
  <2>1. changed \subseteq DOMAIN m_controls
    OBVIOUS
  <2>2. IsFiniteSet(DOMAIN m_controls) /\ DOMAIN m_controls \subseteq STRING
    BY DEF Inv, Typed
  <2> HIDE DEF changed
  <2>3. IsFiniteSet(changed)
    BY <2>1, <2>2, FS_Subset
  <2> QED
    BY <2>1, <2>2, <2>3, FS_CardinalityType
<1>7. k >= opened => changed = Changed(k) /\ m_arrival = I!Arrival(k)
  BY <1>1, Synced DEF Changed
<1>8. /\ m_records' \in Seq(Record) /\ Ordered' /\ Truthful' /\ Complete'
      /\ \A n \in DOMAIN m_records' : m_records'[n].offset \in m_windowStart' .. consumed' - 1
  <2> DEFINE more == [n \in DOMAIN order |-> Update(order[n])]
  <2>1. \A p \in changed : Update(p) \in Record
    <3> HIDE DEF changed
    <3> QED
      BY <1>1, <1>3, <1>6 DEF Record
  <2>2. /\ \A p : Update(p).offset = k - 1 /\ Update(p).update /\ Update(p).pid = p
        /\ \A p : Update(p).start = m_arrival /\ Update(p).arrival = m_arrival
    OBVIOUS
  <2> HIDE DEF changed, Update
  <2>3. DOMAIN order = 1 .. Cardinality(changed) /\ \A n \in DOMAIN order : order[n] \in changed
    OBVIOUS
  <2>4. /\ DOMAIN more = DOMAIN order /\ \A n \in DOMAIN order : more[n] = Update(order[n])
        /\ more \in [1 .. Cardinality(changed) -> Record] /\ m_records' = m_records \o more
    BY <1>5, <2>1, <2>3
  <2> HIDE DEF more
  <2>5. more \in Seq(Record)
    BY <1>6, <2>4, SeqDef
  <2>6. \A n \in DOMAIN more : /\ more[n].offset = k - 1 /\ more[n].update
                               /\ more[n].pid = order[n] /\ order[n] \in changed
                               /\ more[n].start = m_arrival /\ more[n].arrival = m_arrival
    BY <2>2, <2>3, <2>4
  <2>7. \A n \in DOMAIN more : k >= opened => OfControls(more[n], k)
    BY <1>7, <2>6 DEF OfControls
  <2>8. k >= opened => \A p \in Changed(k) :
            \E n \in DOMAIN more : more[n].update /\ more[n].pid = p
    BY <1>5, <1>7, <2>4, <2>6
  <2> QED
    BY <2>4, <2>5, <2>6, <2>7, <2>8, RecordsGrow
<1>9. TypeOK'
  <2>1. m_arrival' \in Time /\ m_lastPts' \in Time /\ m_hasVideoClock' \in BOOLEAN
    BY <1>4 DEF Inv, Typed, TypeOK
  <2> QED
    BY <1>8, <2>1, ReadingTypes
<1>10. Typed'
  BY <1>2, <1>4, <1>9 DEF Typed
<1>11. Clocked' /\ Stamped'
  <2>1. ~I!IsClock(file[k])
    BY DEF I!IsClock
  <2> QED
    BY <1>4, <2>1, ClockStays, StampsStay
<1>12. Controlled'
  <2>1. I!Streams(k + 1) = streams
    BY <1>1, StreamsSteps
  <2>2. \A j : I!Streams(j)' = I!Streams(j)
    BY <1>1, FileStays
  <2> QED
    BY <1>1, <1>4, <2>1, <2>2 DEF Controlled
<1> QED
  BY <1>1, <1>8, <1>10, <1>11, <1>12 DEF Inv

LEMMA ReadPacketKeeps ==
    ASSUME Inv, ReadPacket
    PROVE  Inv'
<1> DEFINE k == consumed + 1
<1>1. Reading(k)
  BY FileFacts DEF ReadPacket, Reading, Inv, Typed, TypeOK
<1>2. \/ file[k].kind = "video" /\ Video(k)
      \/ file[k].kind = "ntp" /\ Ntp(k)
      \/ file[k].kind = "mpt" /\ Controls(k)
      \/ file[k].kind = "doc" /\ Document(k)
  BY DEF ReadPacket
<1> HIDE DEF k
<1> QED
  BY <1>1, <1>2, VideoKeeps, NtpKeeps, ControlsKeeps, DocumentKeeps

LEMMA StepKeeps == Inv /\ [Next]_vars => Inv'
<1> SUFFICES ASSUME Inv, [Next]_vars PROVE Inv'
  OBVIOUS
<1>1. ASSUME NEW d \in I!Docs, Resolve(d) PROVE Inv'
  BY <1>1, ResolveKeeps
<1>2. ASSUME AnswerBounded PROVE Inv'
  BY <1>2, ReturnKeeps DEF AnswerBounded, Answer
<1>3. ASSUME ReadPacket PROVE Inv'
  BY <1>3, ReadPacketKeeps
<1>4. ASSUME AnswerAtEnd PROVE Inv'
  BY <1>4, ReturnKeeps DEF AnswerAtEnd, Answer, NoAnswer
<1>5. ASSUME Cancelled PROVE Inv'
  BY <1>5, ReturnKeeps DEF Cancelled
<1>6. ASSUME UNCHANGED vars PROVE Inv'
  <2>1. UNCHANGED <<file, window, m_controls, opened>> /\ wanted' = wanted /\ answer' = answer
    BY <1>6 DEF vars
  <2>2. TypeOK'
    BY <2>1, FileStays DEF Inv, Typed, TypeOK, window
  <2>3. Placed'
    BY <2>1 DEF Inv, Placed, window, I!Larger
  <2> QED
    BY <2>1, <2>2, <2>3, WindowStays
<1> QED
  BY <1>1, <1>2, <1>3, <1>4, <1>5, <1>6 DEF Next

\* Every reachable state is of the index's types: the window lies in the file, and
\* every record in the window (SubtitleFileIndex::Restart, AddTiming).
THEOREM TypeCorrect == Spec => []TypeOK
<1>1. Inv => TypeOK
  BY DEF Inv, Typed
<1> QED
  BY <1>1, InitHolds, StepKeeps, PTL DEF Spec

-----------------------------------------------------------------------------
(***************************************************************************)
(* The answers.  For a document from the one the window was opened for on, *)
(* the records name its endings; what they do not name yet comes no        *)
(* earlier than the clock has got to.                                      *)
(***************************************************************************)
Asked == wanted # 0 /\ wanted >= opened

LEMMA LeastTime ==
    ASSUME NEW T, T \subseteq Time, T # {}
    PROVE  \E x \in T : \A y \in T : x <= y
<1> DEFINE U == {n \in Nat : n - 1 \in T}
<1>1. \A t \in T : t \in Int /\ t + 1 \in Nat /\ (t + 1) - 1 = t
  BY DEF Time, None
<1>2. \A t \in T : t + 1 \in U
  BY <1>1
<1>3. U \subseteq Nat /\ U # {}
  BY <1>2
<1>4. \A n \in U : n \in Nat /\ n - 1 \in T
  OBVIOUS
<1> HIDE DEF U
<1>5. PICK n \in U : \A m \in U : n <= m
  BY <1>3, Least
<1>6. \A t \in T : n - 1 <= t
  <2> TAKE t \in T
  <2>1. n <= t + 1 /\ t \in Int /\ n \in Nat
    BY <1>1, <1>2, <1>4, <1>5
  <2> QED
    BY <2>1
<1> QED
  BY <1>4, <1>5, <1>6

\* Any first part of the file has a bound on its time stamps.
LEMMA StampsBounded ==
    ASSUME file \in Files
    PROVE  \E b \in Nat : \A j \in DOMAIN file : file[j].kind = "video" => file[j].pts <= b
<1> DEFINE Bounded(n) == \E b \in Nat : \A j \in 1 .. n : file[j].kind = "video" => file[j].pts <= b
           U == {n \in Nat : n <= Len(file) /\ ~Bounded(n)}
<1>1. Len(file) \in Nat /\ DOMAIN file = 1 .. Len(file)
  BY FileFacts
<1>2. ASSUME U # {} PROVE FALSE
  <2>1. \A n \in U : n \in Nat /\ n <= Len(file) /\ ~Bounded(n)
    OBVIOUS
  <2>2. \A n \in Nat : n <= Len(file) /\ n \notin U => Bounded(n)
    OBVIOUS
  <2>3. Bounded(0)
    <3>1. \A j \in 1 .. 0 : file[j].kind = "video" => file[j].pts <= 0
      OBVIOUS
    <3> QED
      BY <3>1
  <2>4. ASSUME NEW n \in Nat, n + 1 <= Len(file), Bounded(n) PROVE Bounded(n + 1)
    <3>1. PICK b \in Nat : \A j \in 1 .. n : file[j].kind = "video" => file[j].pts <= b
      BY <2>4
    <3>2. n + 1 \in DOMAIN file
      BY <1>1, <2>4
    <3>3. CASE file[n + 1].kind = "video"
      <4>1. file[n + 1].pts \in Time
        BY <3>2, <3>3, FileFacts
      <4>2. PICK c \in Nat : b <= c /\ file[n + 1].pts <= c
        <5>1. CASE file[n + 1].pts <= b
          BY <5>1
        <5>2. CASE ~(file[n + 1].pts <= b)
          <6>1. file[n + 1].pts \in Nat
            BY <4>1, <5>2 DEF Time, None
          <6> QED
            BY <5>2, <6>1
        <5> QED
          BY <5>1, <5>2
      <4>3. \A j \in 1 .. n : j \in DOMAIN file /\ (file[j].kind = "video" => file[j].pts \in Int)
        BY <1>1, <2>4, FileFacts, TimeFacts
      <4>4. \A j \in 1 .. n + 1 : file[j].kind = "video" => file[j].pts <= c
        <5> TAKE j \in 1 .. n + 1
        <5>1. j \in 1 .. n \/ j = n + 1
          OBVIOUS
        <5> QED
          BY <3>1, <4>2, <4>3, <5>1
      <4> QED
        BY <4>4
    <3>4. CASE file[n + 1].kind # "video"
      <4>1. \A j \in 1 .. n + 1 : file[j].kind = "video" => file[j].pts <= b
        <5> TAKE j \in 1 .. n + 1
        <5>1. j \in 1 .. n \/ j = n + 1
          OBVIOUS
        <5> QED
          BY <3>1, <3>4, <5>1
      <4> QED
        BY <4>1
    <3> QED
      BY <3>3, <3>4
  <2> HIDE DEF Bounded, U
  <2>5. U \subseteq Nat
    BY <2>1
  <2>6. PICK n \in U : \A m \in U : n <= m
    BY <1>2, <2>5, Least
  <2>7. n # 0 /\ n \in Nat /\ n <= Len(file)
    BY <2>1, <2>3, <2>6
  <2>8. n - 1 \in Nat /\ n - 1 \notin U /\ n - 1 <= Len(file) /\ (n - 1) + 1 = n
    BY <1>1, <2>6, <2>7
  <2>9. Bounded(n - 1)
    BY <2>2, <2>8
  <2>10. Bounded((n - 1) + 1)
    BY <2>4, <2>7, <2>8, <2>9
  <2> QED
    BY <2>1, <2>6, <2>8, <2>10
<1>3. Bounded(Len(file))
  BY <1>1, <1>2
<1> QED
  BY <1>1, <1>3

\* The end of the media is no earlier than any clock, and is one of its stamps.
Stamps == {file[k].pts : k \in {j \in DOMAIN file : file[j].kind = "video"}}

LEMMA EndOfMedia ==
    ASSUME file \in Files
    PROVE  /\ I!MediaEnd \in Time /\ I!Arrival(Len(file) + 1) <= I!MediaEnd
           /\ \A x \in Stamps \cup {I!Arrival(Len(file) + 1)} :
                (\A y \in Stamps \cup {I!Arrival(Len(file) + 1)} : y <= x) => I!MediaEnd = x
<1> DEFINE A == I!Arrival(Len(file) + 1)
           T == Stamps \cup {A}
<1>1. Len(file) \in Nat /\ DOMAIN file = 1 .. Len(file)
  BY FileFacts
<1>2. A \in Time
  BY <1>1, ArrivalType
<1>3. I!MediaEnd = I!Max(T)
  BY DEF I!MediaEnd, I!Packets, Stamps
<1>4. Stamps \subseteq Time
  BY FileFacts DEF Stamps
<1>5. PICK b \in Nat : \A s \in Stamps : s <= b
  BY StampsBounded DEF Stamps
<1> HIDE DEF A
<1>6. T \subseteq Time /\ T \subseteq Int /\ A \in T
  BY <1>2, <1>4, TimeFacts
<1>7. PICK c \in Nat : \A t \in T : t <= c
  <2>1. PICK c \in Nat : b <= c /\ A <= c
    <3>1. CASE A <= b
      BY <3>1
    <3>2. CASE ~(A <= b)
      BY <1>2, <3>2 DEF Time, None
    <3> QED
      BY <3>1, <3>2
  <2>2. \A s \in Stamps : s \in Int
    BY <1>4, TimeFacts
  <2> QED
    BY <1>5, <2>1, <2>2
<1> HIDE DEF T
<1>8. PICK x \in T : \A y \in T : y <= x
  <2> DEFINE U == {c - t : t \in T}
  <2>1. \A t \in T : c - t \in Nat
    BY <1>6, <1>7
  <2>2. U \subseteq Nat /\ U # {} /\ \A t \in T : c - t \in U
    BY <1>6, <2>1
  <2>3. \A u \in U : \E t \in T : u = c - t
    OBVIOUS
  <2> HIDE DEF U
  <2>4. PICK u \in U : \A v \in U : u <= v
    BY <2>2, Least
  <2>5. PICK x \in T : u = c - x
    BY <2>3
  <2>6. \A y \in T : y <= x
    <3> TAKE y \in T
    <3>1. c - x <= c - y /\ x \in Int /\ y \in Int
      BY <1>6, <2>2, <2>4, <2>5
    <3> QED
      BY <3>1
  <2> QED
    BY <2>6
<1>9. I!MediaEnd = x
  BY <1>3, <1>6, <1>8, MaxIs
<1>10. \A z \in T : (\A y \in T : y <= z) => I!MediaEnd = z
  BY <1>3, <1>6, MaxIs
<1> QED
  BY <1>6, <1>8, <1>9, <1>10 DEF T, A

\* Before every document the clock has ticked.
LEMMA TickBefore ==
    ASSUME file \in Files, NEW d \in I!Docs
    PROVE  \E i \in Ticks(file) : i < d
<1>1. d \in DOMAIN file /\ file[d].kind = "doc" /\ DOMAIN file = 1 .. Len(file) /\ Len(file) \in Nat
  BY DocsFacts, FileFacts
<1>2. CASE \E j \in Clocks(file) : j < d
  BY <1>2 DEF Ticks
<1>3. CASE ~\E j \in Clocks(file) : j < d
  <2>1. PICK j \in DOMAIN file : j < d /\ file[j].kind = "ntp"
    BY <1>1, <1>3, BroadcastAssumption
  <2>2. \A i \in Clocks(file) : j < i
    BY <1>1, <1>3, <2>1 DEF Clocks
  <2> QED
    BY <2>1, <2>2 DEF Ticks
<1> QED
  BY <1>2, <1>3

LEMMA AskedFacts ==
    ASSUME Inv, Asked
    PROVE  /\ file \in Files /\ Len(file) \in Nat /\ DOMAIN file = 1 .. Len(file)
           /\ wanted \in I!Docs /\ wanted \in DOMAIN file /\ wanted \in Nat
           /\ file[wanted].kind = "doc" /\ opened \in Nat
           /\ m_windowStart \in Nat /\ m_windowStart < wanted
           /\ consumed \in m_windowStart .. Len(file) /\ m_arrival \in Time
           /\ m_records \in Seq(Record) /\ DOMAIN m_records \subseteq Nat \ {0}
<1>1. /\ file \in Files /\ m_records \in Seq(Record) /\ wanted \in {0} \cup I!Docs
      /\ opened \in {0} \cup I!Docs /\ m_windowStart \in 0 .. Len(file)
      /\ consumed \in m_windowStart .. Len(file) /\ m_arrival \in Time
  BY DEF Inv, Typed, TypeOK
<1>2. wanted # 0 /\ m_windowStart < wanted
  BY DEF Asked, Inv, Placed
<1> QED
  BY <1>1, <1>2, FileFacts, DocsFacts

\* The record that is found is that of the document asked for.
LEMMA FoundFacts ==
    ASSUME Inv, Asked, Found
    PROVE  /\ Index \in DOMAIN m_records /\ OfDocument(m_records[Index], wanted)
           /\ m_records[Index].offset = wanted - 1 /\ ~m_records[Index].update
           /\ wanted <= consumed /\ m_arrival = I!Arrival(consumed + 1)
<1>1. /\ DOMAIN m_records \subseteq Nat \ {0} /\ m_records \in Seq(Record) /\ wanted \in Nat
      /\ opened \in Nat /\ consumed \in Int /\ m_windowStart \in Nat
  BY AskedFacts
<1>2. Matches \subseteq DOMAIN m_records /\ Matches # {}
  BY DEF Matches, Found
<1>3. Index \in Matches
  <2>1. Matches \subseteq Nat /\ Matches \subseteq Int
    BY <1>1, <1>2
  <2>2. PICK x \in Matches : \A y \in Matches : x <= y
    BY <1>2, <2>1, Least
  <2> QED
    BY <2>1, <2>2, MinIs DEF Index
<1>4. /\ Index \in DOMAIN m_records /\ m_records[Index].offset = wanted - 1
      /\ ~m_records[Index].update /\ m_records[Index] \in Record
  BY <1>1, <1>3 DEF Matches
<1>5. OfDocument(m_records[Index], wanted)
  <2>1. wanted = m_records[Index].offset + 1 /\ wanted >= opened
    BY <1>1, <1>4 DEF Asked
  <2>2. OfDocument(m_records[Index], wanted) \/ OfControls(m_records[Index], wanted)
    BY <1>1, <1>4, <2>1 DEF Inv, Truthful
  <2> QED
    BY <1>4, <2>2 DEF OfControls
<1>6. wanted <= consumed
  <2>1. m_records[Index].offset \in m_windowStart .. consumed - 1
    BY <1>4 DEF Inv, Typed, TypeOK
  <2> QED
    BY <1>1, <1>4, <2>1
<1>7. consumed + 1 >= opened
  BY <1>1, <1>6 DEF Asked
<1>8. m_arrival = I!Arrival(consumed + 1)
  BY <1>7, Synced
<1> QED
  BY <1>4, <1>5, <1>6, <1>8

\* A later record is of a packet behind the document, and says when that ends.
LEMMA LaterRecord ==
    ASSUME Inv, Asked, Found, NEW n \in DOMAIN m_records, n > Index, NEW k, k = m_records[n].offset + 1
    PROVE  /\ k > wanted /\ k \in DOMAIN file
           /\ \/ OfDocument(m_records[n], k) /\ UpdateOf(m_records[n]) = I!Larger(I!StartOf(k), I!Arrival(k))
              \/ OfControls(m_records[n], k) /\ UpdateOf(m_records[n]) = I!Arrival(k)
<1>1. /\ DOMAIN m_records \subseteq Nat \ {0} /\ m_records \in Seq(Record) /\ wanted \in Nat
      /\ opened \in Nat /\ consumed \in m_windowStart .. Len(file) /\ m_windowStart \in Nat
      /\ DOMAIN file = 1 .. Len(file) /\ Len(file) \in Nat
  BY AskedFacts
<1>2. /\ Index \in DOMAIN m_records /\ m_records[Index].offset = wanted - 1 /\ ~m_records[Index].update
  BY FoundFacts
<1>3. m_records[Index].offset < m_records[n].offset
  BY <1>1, <1>2 DEF Inv, Ordered
<1>4. m_records[n] \in Record /\ m_records[n].offset \in m_windowStart .. consumed - 1
  BY <1>1 DEF Inv, Typed, TypeOK
<1>5. k > wanted /\ k \in DOMAIN file /\ k \in Nat /\ k >= opened
  BY <1>1, <1>2, <1>3, <1>4 DEF Asked
<1>6. OfDocument(m_records[n], k) \/ OfControls(m_records[n], k)
  BY <1>4, <1>5 DEF Inv, Truthful
<1>7. ASSUME OfDocument(m_records[n], k)
      PROVE  UpdateOf(m_records[n]) = I!Larger(I!StartOf(k), I!Arrival(k))
  BY <1>7 DEF OfDocument, UpdateOf
<1>8. ASSUME OfControls(m_records[n], k) PROVE UpdateOf(m_records[n]) = I!Arrival(k)
  BY <1>8 DEF OfControls, UpdateOf, I!Larger
<1> QED
  BY <1>5, <1>6, <1>7, <1>8

\* A packet behind the document that has been read has its record.
LEMMA EarlierRecord ==
    ASSUME Inv, Asked, Found, NEW n \in DOMAIN m_records,
           m_records[n].offset >= wanted
    PROVE  n > Index
<1>1. DOMAIN m_records \subseteq Nat \ {0} /\ wanted \in Nat /\ m_records \in Seq(Record)
  BY AskedFacts
<1>2. /\ Index \in DOMAIN m_records /\ m_records[Index].offset = wanted - 1 /\ ~m_records[Index].update
  BY FoundFacts
<1>3. m_records[n].offset \in Nat
  <2>1. m_records[n] \in Record
    BY <1>1
  <2> QED
    BY <2>1 DEF Record
<1>4. n # Index
  BY <1>1, <1>2
<1>5. ~(n < Index)
  BY <1>1, <1>2, <1>3 DEF Inv, Ordered
<1> QED
  BY <1>1, <1>2, <1>4, <1>5

\* What the records name is an ending in the file, and an ending that they do not
\* name lies behind what has been read and comes no earlier than the clock.
LEMMA BoundariesKnown ==
    ASSUME Inv, Asked, Found
    PROVE  /\ Boundaries \subseteq Time /\ Boundaries \subseteq I!Endings(wanted)
           /\ \A x \in I!Endings(wanted) :
                x \in Boundaries \/ (consumed < Len(file) /\ x \in Int /\ m_arrival <= x)
<1> DEFINE r == m_records[Index]
           pid == file[wanted].pid
           own == I!OwnStop(file[wanted], I!ControlOf(wanted), I!Arrival(wanted))
           later == {k \in I!Docs : k > wanted /\ file[k].pid = pid /\ pid \in DOMAIN I!Streams(k)}
           changes == {k \in DOMAIN file : /\ k > wanted /\ file[k].kind = "mpt" /\ pid \in DOMAIN I!Streams(k)
                                           /\ \/ pid \notin DOMAIN file[k].streams
                                              \/ file[k].streams[pid] # I!Streams(k)[pid]}
           after == {n \in DOMAIN m_records : n > Index /\ m_records[n].pid = r.pid}
<1>1. /\ file \in Files /\ Len(file) \in Nat /\ DOMAIN file = 1 .. Len(file)
      /\ wanted \in I!Docs /\ wanted \in Nat \ {0} /\ opened \in Nat
      /\ m_windowStart \in Nat /\ m_windowStart < wanted
      /\ consumed \in m_windowStart .. Len(file) /\ m_arrival \in Time
      /\ m_records \in Seq(Record)
  BY AskedFacts, DocsFacts
<1>2. /\ Index \in DOMAIN m_records /\ OfDocument(r, wanted) /\ wanted <= consumed
      /\ m_arrival = I!Arrival(consumed + 1)
  BY FoundFacts
<1>3. r.pid = pid /\ r.stop = own
  BY <1>2 DEF OfDocument
<1>4. I!Endings(wanted) = ({own} \ {None}) \cup {I!Larger(I!StartOf(k), I!Arrival(k)) : k \in later}
                                           \cup {I!Arrival(k) : k \in changes}
  BY DEF I!Endings, I!Packets, I!None, None
<1>5. Boundaries = ({r.stop} \ {None}) \cup {UpdateOf(m_records[n]) : n \in after}
  BY DEF Boundaries
<1>6. ASSUME NEW n \in after
      PROVE  /\ UpdateOf(m_records[n]) \in Time
             /\ \/ \E k \in later : UpdateOf(m_records[n]) = I!Larger(I!StartOf(k), I!Arrival(k))
                \/ \E k \in changes : UpdateOf(m_records[n]) = I!Arrival(k)
  <2>1. n \in DOMAIN m_records /\ n > Index /\ m_records[n].pid = pid /\ m_records[n] \in Record
    BY <1>1, <1>3
  <2>2. UpdateOf(m_records[n]) \in Time
    BY <2>1 DEF UpdateOf, I!Larger, Record
  <2>3. PICK k : k = m_records[n].offset + 1
    OBVIOUS
  <2>4. /\ k > wanted /\ k \in DOMAIN file
        /\ \/ OfDocument(m_records[n], k) /\ UpdateOf(m_records[n]) = I!Larger(I!StartOf(k), I!Arrival(k))
           \/ OfControls(m_records[n], k) /\ UpdateOf(m_records[n]) = I!Arrival(k)
    BY <2>1, <2>3, LaterRecord
  <2>5. CASE OfDocument(m_records[n], k)
    <3>1. k \in later
      BY <2>1, <2>4, <2>5 DEF OfDocument, I!Docs, I!Packets, I!Known
    <3>2. ~OfControls(m_records[n], k)
      BY <2>5 DEF OfDocument, OfControls
    <3> QED
      BY <2>2, <2>4, <3>1, <3>2
  <2>6. CASE OfControls(m_records[n], k)
    <3>1. k \in changes
      BY <2>1, <2>4, <2>6 DEF OfControls, Changed
    <3>2. ~OfDocument(m_records[n], k)
      BY <2>6 DEF OfDocument, OfControls
    <3> QED
      BY <2>2, <2>4, <3>1, <3>2
  <2> QED
    BY <2>4, <2>5, <2>6
<1>7. ASSUME NEW k \in later, k <= consumed
      PROVE  I!Larger(I!StartOf(k), I!Arrival(k)) \in Boundaries
  <2>1. /\ k \in Read /\ k >= opened /\ k > wanted /\ file[k].kind = "doc" /\ I!Known(k)
        /\ file[k].pid = pid /\ k \in Nat
    BY <1>1, <1>7, DocsFacts DEF Read, Asked, I!Known
  <2>2. PICK n \in DOMAIN m_records : m_records[n].offset = k - 1 /\ ~m_records[n].update
    BY <2>1 DEF Inv, Complete, DocumentsAt
  <2>3. n > Index /\ k = m_records[n].offset + 1
    BY <1>1, <2>1, <2>2, EarlierRecord
  <2>4. OfDocument(m_records[n], k) /\ UpdateOf(m_records[n]) = I!Larger(I!StartOf(k), I!Arrival(k))
    BY <2>2, <2>3, LaterRecord DEF OfControls
  <2>5. n \in after
    BY <1>3, <2>1, <2>2, <2>3, <2>4 DEF OfDocument
  <2> QED
    BY <1>5, <2>4, <2>5
<1>8. ASSUME NEW k \in changes, k <= consumed
      PROVE  I!Arrival(k) \in Boundaries
  <2>1. /\ k \in Read /\ k >= opened /\ k > wanted /\ file[k].kind = "mpt" /\ pid \in Changed(k)
        /\ k \in Nat
    BY <1>1, <1>8 DEF Read, Asked, Changed
  <2>2. PICK n \in DOMAIN m_records :
            m_records[n].offset = k - 1 /\ m_records[n].update /\ m_records[n].pid = pid
    BY <2>1 DEF Inv, Complete, ControlsAt
  <2>3. n > Index /\ k = m_records[n].offset + 1
    BY <1>1, <2>1, <2>2, EarlierRecord
  <2>4. UpdateOf(m_records[n]) = I!Arrival(k)
    BY <2>2, <2>3, LaterRecord DEF OfDocument
  <2>5. n \in after
    BY <1>3, <2>2, <2>3
  <2> QED
    BY <1>5, <2>4, <2>5
<1>9. ASSUME NEW k \in DOMAIN file, k > consumed
      PROVE  /\ consumed < Len(file) /\ I!Arrival(k) \in Int /\ m_arrival <= I!Arrival(k)
  <2>1. PICK i \in Ticks(file) : i < wanted
    BY <1>1, TickBefore
  <2>2. consumed + 1 \in 1 .. Len(file) + 1 /\ k \in consumed + 1 .. Len(file) + 1 /\ i < consumed + 1
    BY <1>1, <1>2, <1>9, <2>1, FileFacts DEF Ticks, Clocks
  <2>3. I!Arrival(k) \in Nat /\ I!Arrival(consumed + 1) <= I!Arrival(k)
    BY <1>1, <2>1, <2>2, ArrivalGrows
  <2> QED
    BY <1>1, <1>2, <1>9, <2>3
<1>10. ASSUME NEW k \in later, k > consumed
       PROVE  /\ consumed < Len(file) /\ I!Larger(I!StartOf(k), I!Arrival(k)) \in Int
              /\ m_arrival <= I!Larger(I!StartOf(k), I!Arrival(k))
  <2>1. k \in DOMAIN file /\ file[k].kind = "doc" /\ file[k].pid \in DOMAIN I!Streams(k)
    BY <1>1, DocsFacts
  <2>2. consumed < Len(file) /\ I!Arrival(k) \in Int /\ m_arrival <= I!Arrival(k)
    BY <1>9, <1>10, <2>1
  <2>3. k \in 1 .. Len(file) + 1
    BY <1>1, <2>1
  <2>4. I!ControlOf(k) \in Control
    BY <1>1, <2>1, <2>3, StreamsType DEF I!ControlOf
  <2>5. file[k].begin \in Time /\ file[k].end \in Time /\ I!Arrival(k) \in Time
    BY <1>1, <2>1, <2>3, FileFacts, ArrivalType
  <2>6. I!StartOf(k) \in Time
    BY <2>4, <2>5, DocumentTimes DEF I!StartOf
  <2>7. I!StartOf(k) \in Int /\ m_arrival \in Int
    BY <1>1, <2>6, TimeFacts
  <2> QED
    BY <2>2, <2>7 DEF I!Larger
<1>11. Boundaries \subseteq Time
  <2>1. r \in Record
    BY <1>1, <1>2
  <2>2. r.stop \in Time
    BY <2>1 DEF Record
  <2> HIDE DEF r, after
  <2> QED
    BY <1>5, <1>6, <2>2
<1>12. Boundaries \subseteq I!Endings(wanted)
  <2> HIDE DEF r, own, later, changes, after
  <2> QED
    BY <1>3, <1>4, <1>5, <1>6
<1>13. ASSUME NEW x \in I!Endings(wanted)
       PROVE  x \in Boundaries \/ (consumed < Len(file) /\ x \in Int /\ m_arrival <= x)
  <2>1. consumed \in Int /\ \A k \in later \cup changes : k \in Int /\ k \in DOMAIN file
    BY <1>1, DocsFacts
  <2> HIDE DEF r, own, later, changes, after
  <2>2. CASE x \in {own} \ {None}
    BY <1>3, <1>5, <2>2
  <2>3. ASSUME NEW k \in later, x = I!Larger(I!StartOf(k), I!Arrival(k))
        PROVE  x \in Boundaries \/ (consumed < Len(file) /\ x \in Int /\ m_arrival <= x)
    <3>1. k <= consumed \/ k > consumed
      BY <2>1
    <3> QED
      BY <1>7, <1>10, <2>3, <3>1
  <2>4. ASSUME NEW k \in changes, x = I!Arrival(k)
        PROVE  x \in Boundaries \/ (consumed < Len(file) /\ x \in Int /\ m_arrival <= x)
    <3>1. k <= consumed \/ k > consumed
      BY <2>1
    <3> QED
      BY <1>8, <1>9, <2>1, <2>4, <3>1
  <2> QED
    BY <1>4, <2>2, <2>3, <2>4
<1> QED
  BY <1>11, <1>12, <1>13

\* At the end of the file every time stamp is at most that of the window.
LEMMA LastStamp ==
    ASSUME Inv, file \in Files, consumed = Len(file), NEW i \in DOMAIN file, file[i].kind = "video"
    PROVE  file[i].pts <= m_lastPts
<1>1. /\ Len(file) \in Nat /\ DOMAIN file = 1 .. Len(file) /\ opened \in {0} \cup I!Docs
      /\ m_lastPts \in Int /\ m_restartLead \in Nat /\ Read \subseteq DOMAIN file
  <2>1. m_windowStart \in 0 .. Len(file) /\ Len(file) \in Nat /\ DOMAIN file = 1 .. Len(file)
    BY FileFacts DEF Inv, Typed, TypeOK
  <2>2. Read \subseteq DOMAIN file
    BY <2>1 DEF Read
  <2> QED
    BY <2>1, <2>2, TimeFacts, BroadcastAssumption DEF Inv, Typed, TypeOK
<1>2. \A j \in Read : file[j].kind = "video" => file[j].pts <= m_lastPts
  BY DEF Inv, Stamped
<1>3. \A j \in DOMAIN file : file[j].kind = "video" => file[j].pts \in Int
  BY FileFacts, TimeFacts
<1>4. CASE i \in Read
  BY <1>2, <1>4
<1>5. CASE i \notin Read
  <2> DEFINE lead == {j \in DOMAIN file : opened - m_restartLead <= j /\ j < opened}
  <2>1. m_windowStart = IF opened = 0 THEN 0 ELSE I!Larger(0, opened - 1 - m_restartLead)
    BY DEF Inv, Placed
  <2>2. opened # 0
    BY <1>1, <1>5, <2>1 DEF Read
  <2>3. opened \in DOMAIN file /\ file[opened].kind = "doc"
    BY <1>1, <2>2, DocsFacts
  <2>4. lead \subseteq Read /\ i < opened - m_restartLead
    BY <1>1, <1>5, <2>1, <2>2, <2>3 DEF Read, I!Larger
  <2>5. \E j \in lead : file[j].kind = "video" /\ file[i].pts <= file[j].pts
    BY <2>3, <2>4, BroadcastAssumption
  <2>6. PICK j \in Read : file[j].kind = "video" /\ file[i].pts <= file[j].pts
    <3> HIDE DEF lead
    <3> QED
      BY <2>4, <2>5
  <2> QED
    BY <1>1, <1>2, <1>3, <2>6
<1> QED
  BY <1>4, <1>5

LEMMA EndIsMediaEnd ==
    ASSUME Inv, file \in Files, consumed = Len(file), m_arrival = I!Arrival(consumed + 1)
    PROVE  I!Larger(m_arrival, m_lastPts) = I!MediaEnd
<1>1. m_arrival \in Time /\ m_lastPts \in Time /\ m_arrival \in Int /\ m_lastPts \in Int
  BY TimeFacts DEF Inv, Typed, TypeOK
<1>2. \A y \in Stamps : y <= m_lastPts /\ y \in Int
  BY LastStamp, FileFacts, TimeFacts DEF Stamps
<1>3. m_lastPts = None \/ m_lastPts \in Stamps
  <2>1. m_windowStart \in 0 .. Len(file) /\ Len(file) \in Nat /\ DOMAIN file = 1 .. Len(file)
    BY FileFacts DEF Inv, Typed, TypeOK
  <2>2. Read \subseteq DOMAIN file
    BY <2>1 DEF Read
  <2> QED
    BY <2>2 DEF Inv, Stamped, Stamps
<1>4. /\ I!Larger(m_arrival, m_lastPts) \in Stamps \cup {m_arrival}
      /\ m_arrival <= I!Larger(m_arrival, m_lastPts) /\ m_lastPts <= I!Larger(m_arrival, m_lastPts)
      /\ I!Larger(m_arrival, m_lastPts) \in Int
  BY <1>1, <1>3 DEF I!Larger, Time, None
<1>5. \A y \in Stamps \cup {m_arrival} : y <= I!Larger(m_arrival, m_lastPts)
  BY <1>1, <1>2, <1>4
<1> QED
  BY <1>4, <1>5, EndOfMedia

\* Once the clock has reached the earliest ending known, no other undercuts it.
LEMMA BoundedStop ==
    ASSUME Inv, Asked, ReadFarEnough
    PROVE  Min(Boundaries) = I!StopOf(wanted)
<1>1. Found /\ Boundaries # {} /\ m_arrival >= Min(Boundaries)
  BY DEF ReadFarEnough
<1>2. /\ file \in Files /\ Len(file) \in Nat /\ DOMAIN file = 1 .. Len(file)
      /\ consumed \in m_windowStart .. Len(file) /\ m_windowStart \in Nat /\ m_arrival \in Int
      /\ wanted \in I!Docs /\ wanted \in Nat
  BY AskedFacts, TimeFacts
<1>3. wanted <= consumed /\ m_arrival = I!Arrival(consumed + 1)
  BY <1>1, FoundFacts
<1>4. /\ Boundaries \subseteq Time /\ Boundaries \subseteq I!Endings(wanted)
      /\ \A x \in I!Endings(wanted) : x \in Boundaries \/ (x \in Int /\ m_arrival <= x)
  BY <1>1, BoundariesKnown
<1>5. PICK x \in Boundaries : \A y \in Boundaries : x <= y
  BY <1>1, <1>4, LeastTime
<1>6. Boundaries \subseteq Int
  BY <1>4, TimeFacts
<1>7. Min(Boundaries) = x /\ x <= m_arrival /\ x \in Int
  BY <1>1, <1>2, <1>5, <1>6, MinIs
<1>8. m_arrival <= I!MediaEnd /\ I!MediaEnd \in Int
  <2>1. PICK i \in Ticks(file) : i < wanted
    BY <1>2, TickBefore
  <2>2. /\ consumed + 1 \in 1 .. Len(file) + 1 /\ Len(file) + 1 \in consumed + 1 .. Len(file) + 1
        /\ i < consumed + 1
    BY <1>2, <1>3, <2>1, FileFacts DEF Ticks, Clocks
  <2>3. /\ I!Arrival(consumed + 1) <= I!Arrival(Len(file) + 1) /\ I!Arrival(Len(file) + 1) \in Nat
    BY <1>2, <2>1, <2>2, ArrivalGrows
  <2>4. I!Arrival(Len(file) + 1) <= I!MediaEnd /\ I!MediaEnd \in Int
    BY <1>2, EndOfMedia, TimeFacts
  <2> QED
    BY <1>2, <1>3, <2>3, <2>4
<1>9. \A y \in I!Endings(wanted) \cup {I!MediaEnd} : y \in Int /\ x <= y
  BY <1>2, <1>4, <1>5, <1>6, <1>7, <1>8
<1>10. x \in I!Endings(wanted) \cup {I!MediaEnd}
  BY <1>4, <1>5
<1>11. I!Min(I!Endings(wanted) \cup {I!MediaEnd}) = x
  <2> DEFINE E == I!Endings(wanted) \cup {I!MediaEnd}
  <2>1. E \subseteq Int /\ x \in E /\ \A y \in E : x <= y
    BY <1>9, <1>10
  <2> HIDE DEF E
  <2>2. I!Min(E) = x
    BY <2>1, MinIs
  <2> QED
    BY <2>2 DEF E
<1> QED
  BY <1>7, <1>11 DEF I!StopOf

\* At the end of the file the records name every ending.
LEMMA StopAtEnd ==
    ASSUME Inv, Asked, Found, consumed = Len(file)
    PROVE  Min(Boundaries \cup {I!Larger(m_arrival, m_lastPts)}) = I!StopOf(wanted)
<1>1. file \in Files /\ Len(file) \in Nat /\ m_arrival = I!Arrival(consumed + 1)
  BY AskedFacts, FoundFacts
<1>2. Boundaries \subseteq Time /\ Boundaries = I!Endings(wanted)
  <2>1. Boundaries \subseteq Time /\ Boundaries \subseteq I!Endings(wanted)
    BY BoundariesKnown
  <2>2. ~(consumed < Len(file))
    BY <1>1
  <2>3. \A x \in I!Endings(wanted) : x \in Boundaries
    BY <2>2, BoundariesKnown
  <2> QED
    BY <2>1, <2>3
<1>3. I!Larger(m_arrival, m_lastPts) = I!MediaEnd /\ I!MediaEnd \in Time
  BY <1>1, EndIsMediaEnd, EndOfMedia
<1> DEFINE E == I!Endings(wanted) \cup {I!MediaEnd}
<1>4. E \subseteq Time /\ E # {} /\ E = Boundaries \cup {I!Larger(m_arrival, m_lastPts)}
  BY <1>2, <1>3
<1>5. I!StopOf(wanted) = I!Min(E)
  BY DEF I!StopOf
<1> HIDE DEF E
<1>6. PICK x \in E : \A y \in E : x <= y
  BY <1>4, LeastTime
<1>7. E \subseteq Int
  BY <1>4, TimeFacts
<1>8. Min(E) = x /\ I!Min(E) = x
  BY <1>6, <1>7, MinIs
<1> QED
  BY <1>4, <1>5, <1>8

LEMMA UnknownAtEnd ==
    ASSUME Inv, Asked, ~Found, consumed = Len(file)
    PROVE  ~I!Known(wanted)
<1>1. /\ wanted \in DOMAIN file /\ DOMAIN file = 1 .. Len(file) /\ Len(file) \in Nat
      /\ m_windowStart \in Nat /\ m_windowStart < wanted /\ file[wanted].kind = "doc"
  BY AskedFacts
<1>2. wanted \in Read /\ wanted >= opened
  BY <1>1 DEF Read, Asked
<1>3. DocumentsAt(wanted) = {}
  BY DEF Found, Matches, DocumentsAt
<1> QED
  BY <1>1, <1>2, <1>3 DEF Inv, Complete

\* What an answer says is what the whole file says.
RightAnswer(a, d) ==
    /\ a.doc = d /\ a.found = I!Known(d)
    /\ a.found => a.start = I!StartOf(d) /\ a.stop = I!StopOf(d)

LEMMA AnswersRight ==
    ASSUME Inv, Asked, AnswerBounded \/ AnswerAtEnd
    PROVE  RightAnswer(answer', wanted)
<1>1. ASSUME Found, NEW stop, Answer(stop), stop = I!StopOf(wanted)
      PROVE  RightAnswer(answer', wanted)
  <2>1. I!Known(wanted) /\ m_records[Index].start = I!StartOf(wanted)
    BY <1>1, FoundFacts DEF OfDocument
  <2>2. I!Known(wanted) = TRUE
    BY <2>1 DEF I!Known
  <2>3. answer'.doc = wanted /\ answer'.found = TRUE /\ answer'.stop = stop
        /\ answer'.start = m_records[Index].start
    BY <1>1 DEF Answer
  <2> QED
    BY <1>1, <2>1, <2>2, <2>3 DEF RightAnswer
<1>2. CASE AnswerBounded
  <2>1. Found /\ Answer(Min(Boundaries)) /\ ReadFarEnough
    BY <1>2 DEF AnswerBounded, ReadFarEnough
  <2> QED
    BY <1>1, <2>1, BoundedStop
<1>3. CASE AnswerAtEnd /\ Found
  <2>1. consumed = Len(file) /\ Answer(Min(Boundaries \cup {I!Larger(m_arrival, m_lastPts)}))
    BY <1>3 DEF AnswerAtEnd
  <2> QED
    BY <1>1, <1>3, <2>1, StopAtEnd
<1>4. CASE AnswerAtEnd /\ ~Found
  <2>1. consumed = Len(file) /\ answer' = [NoAnswer EXCEPT !.doc = wanted]
    BY <1>4 DEF AnswerAtEnd
  <2>2. answer'.doc = wanted /\ answer'.found = FALSE
    BY <2>1 DEF NoAnswer
  <2>3. I!Known(wanted) = FALSE
    BY <1>4, <2>1, UnknownAtEnd DEF I!Known
  <2> QED
    BY <2>2, <2>3 DEF RightAnswer
<1> QED
  BY <1>2, <1>3, <1>4

LEMMA RightStays ==
    ASSUME UNCHANGED file, NEW a, NEW d
    PROVE  RightAnswer(a, d)' = RightAnswer(a, d)
<1>1. \A k : /\ I!Streams(k)' = I!Streams(k) /\ I!Arrival(k)' = I!Arrival(k)
             /\ I!Known(k)' = I!Known(k)
  BY FileStays
<1>2. I!Docs' = I!Docs /\ file' = file
  BY FileStays
<1>3. \A k : I!ControlOf(k)' = I!ControlOf(k)
  BY <1>1 DEF I!ControlOf
<1>4. \A k : I!StartOf(k)' = I!StartOf(k)
  BY <1>1, <1>3 DEF I!StartOf
<1>5. I!Endings(d)' = I!Endings(d)
  BY <1>1, <1>2, <1>3, <1>4 DEF I!Endings, I!Packets
<1>6. I!MediaEnd' = I!MediaEnd
  <2>1. I!Arrival(Len(file) + 1)' = I!Arrival(Len(file) + 1)
    BY <1>2 DEF I!Arrival, I!Latest, I!IsClock, I!ClockOf
  <2> QED
    BY <1>2, <2>1 DEF I!MediaEnd, I!Packets
<1>7. I!StopOf(d)' = I!StopOf(d)
  BY <1>5, <1>6 DEF I!StopOf
<1> QED
  BY <1>1, <1>4, <1>7 DEF RightAnswer

Agree ==
    \A a \in {answer} : \A d \in {a.doc} :
        d > 0 /\ wanted = 0 /\ d >= opened => RightAnswer(a, d)

LEMMA FileKept == [Next]_vars => file' = file
<1> SUFFICES ASSUME [Next]_vars PROVE file' = file
  OBVIOUS
<1>1. ASSUME NEW d \in I!Docs, Resolve(d) PROVE file' = file
  BY <1>1 DEF Resolve
<1>2. ASSUME AnswerBounded PROVE file' = file
  BY <1>2 DEF AnswerBounded, Answer
<1>3. ASSUME ReadPacket PROVE file' = file
  BY <1>3 DEF ReadPacket
<1>4. ASSUME AnswerAtEnd PROVE file' = file
  BY <1>4 DEF AnswerAtEnd, Answer
<1>5. ASSUME Cancelled PROVE file' = file
  BY <1>5 DEF Cancelled
<1>6. ASSUME UNCHANGED vars PROVE file' = file
  BY <1>6 DEF vars
<1> QED
  BY <1>1, <1>2, <1>3, <1>4, <1>5, <1>6 DEF Next

LEMMA AnswersKept == Inv /\ Agree /\ [Next]_vars => Agree'
<1> SUFFICES ASSUME Inv, Agree, [Next]_vars PROVE Agree'
  OBVIOUS
<1>6. file' = file
  BY FileKept
<1> SUFFICES ASSUME NEW a, a = answer', NEW d, d = a.doc, d > 0, wanted' = 0, d >= opened'
             PROVE  RightAnswer(a, d)
  <2>1. \A a, d : RightAnswer(a, d)' = RightAnswer(a, d)
    BY <1>6, RightStays
  <2> QED
    BY <2>1 DEF Agree
<1>1. ASSUME NEW e \in I!Docs, Resolve(e) PROVE FALSE
  BY <1>1, DocsFacts DEF Resolve, Inv, Typed, TypeOK
<1>2. CASE AnswerBounded \/ AnswerAtEnd
  <2>1. answer'.doc = wanted /\ wanted # 0 /\ opened' = opened
    BY <1>2 DEF AnswerBounded, AnswerAtEnd, Answer, NoAnswer
  <2>2. Asked
    BY <2>1 DEF Asked
  <2> QED
    BY <1>2, <2>1, <2>2, AnswersRight
<1>3. ASSUME ReadPacket PROVE FALSE
  BY <1>3 DEF ReadPacket
<1>4. ASSUME Cancelled PROVE FALSE
  <2>1. answer' = answer /\ wanted # 0
    BY <1>4 DEF Cancelled
  <2>2. answer.doc = 0
    BY <2>1 DEF Inv, Placed
  <2> QED
    BY <2>1, <2>2
<1>5. CASE UNCHANGED vars
  BY <1>5 DEF vars, Agree
<1> QED
  BY <1>1, <1>2, <1>3, <1>4, <1>5 DEF Next

\* Whatever parts of the file the index has read, and whatever calls came before,
\* the interval it answers is that of the whole file (SubtitleFileIndex::Resolve),
\* for every document from the one the window was opened for on.
THEOREM AnswersAlwaysAgree == Spec => []AnswersAgree
<1>1. Init => Agree
  BY DEF Init, Agree, NoAnswer
<1>2. Inv /\ Agree => AnswersAgree
  BY DEF Agree, AnswersAgree, RightAnswer
<1> QED
  BY <1>1, <1>2, InitHolds, StepKeeps, AnswersKept, PTL DEF Spec
=============================================================================
