------------------------- MODULE FrameSources_proofs -------------------------
(***************************************************************************)
(* Theorems about the two sources that a provider may take its frames      *)
(* from.  RecordingPlayer, for recordings of every length: where a seek    *)
(* lands, that a frame is found again at the time it was shown with, and   *)
(* that the player implements Playback, frames numbered in the order they  *)
(* are played, which SensorFrameProvider takes it for.  K4aDevice, for any *)
(* cameras, capturers and values of the controls: that a camera is as it   *)
(* was asked to be.                                                        *)
(***************************************************************************)
EXTENDS RecordingPlayer, K4aDevice, FiniteSetTheorems, WellFoundedInduction, TLAPS

-----------------------------------------------------------------------------
(* Orders: what CHOOSE finds                                                *)

\* A set of natural numbers that is not empty has a least element.
LEMMA LeastNatural ==
  ASSUME NEW T \in SUBSET Nat, T # {}
  PROVE  \E m \in T : \A n \in T : m <= n
<1>1. PICK m \in T : \A n \in T : <<n, m>> \notin OpToRel(<, Nat)
  BY WFMin, NatLessThanWellFounded
<1>2. ASSUME NEW n \in T PROVE m <= n
  <2>1. ~(n < m)
    <3>1. <<n, m>> \in Nat \X Nat /\ <<n, m>>[1] = n /\ <<n, m>>[2] = m
      OBVIOUS
    <3>2. n < m => <<n, m>> \in OpToRel(<, Nat)
      BY <3>1 DEF OpToRel
    <3> QED BY <1>1, <3>2
  <2> QED BY <2>1
<1> QED BY <1>2

\* A file's messages as its type has them.
LogTyped == file \in [cameras : SUBSET STRING, log : Seq(Messages)]

\* The indices and the times of the messages are natural numbers, finitely many.
LEMMA LogTypes ==
  LogTyped =>
    /\ Log \in Seq(Messages)
    /\ IsFiniteSet(DOMAIN Log)
    /\ DOMAIN Log \subseteq Nat \ {0}
    /\ \A i \in DOMAIN Log : /\ Log[i].time \in Nat
                             /\ Log[i].decodes \in BOOLEAN
                             /\ Log[i].channel \in STRING
<1> SUFFICES ASSUME LogTyped
             PROVE  LogTypes!2
  OBVIOUS
<1>1. Log \in Seq(Messages)
  BY DEF Log, LogTyped
<1>2. DOMAIN Log = 1..Len(Log) /\ Len(Log) \in Nat
  BY <1>1
<1>3. IsFiniteSet(DOMAIN Log)
  BY <1>2, FS_Interval
<1>4. \A i \in DOMAIN Log : Log[i] \in Messages
  BY <1>1
<1> QED BY <1>1, <1>2, <1>3, <1>4 DEF Messages

\* Messages are played in a total order.
LEMMA BeforeIsOrder ==
  LogTyped =>
    \A i, j, k \in DOMAIN Log :
      /\ ~Before(i, i)
      /\ Before(i, j) => ~Before(j, i)
      /\ i # j => Before(i, j) \/ Before(j, i)
      /\ Before(i, j) /\ Before(j, k) => Before(i, k)
      /\ Before(i, j) => Log[i].time <= Log[j].time
BY LogTypes DEF Before

\* Of messages that are not none, one is played first.
LEMMA EarliestIsFirst ==
  LogTyped =>
    \A c \in SUBSET DOMAIN Log :
      c # {} => /\ Earliest(c) \in c
                /\ \A j \in c \ {Earliest(c)} : Before(Earliest(c), j)
<1> SUFFICES ASSUME LogTyped, NEW c \in SUBSET DOMAIN Log, c # {}
             PROVE  \E i \in c : \A j \in c \ {i} : Before(i, j)
  BY DEF Earliest
<1> DEFINE times == {Log[i].time : i \in c}
<1>1. PICK t \in times : \A u \in times : t <= u
  <2>1. times \in SUBSET Nat /\ times # {}
    BY LogTypes
  <2> HIDE DEF times
  <2> QED BY <2>1, LeastNatural
<1> DEFINE firsts == {i \in c : Log[i].time = t}
<1>2. PICK i \in firsts : \A j \in firsts : i <= j
  <2>1. firsts \in SUBSET Nat /\ firsts # {}
    BY LogTypes
  <2> HIDE DEF firsts
  <2> QED BY <2>1, LeastNatural
<1>3. ASSUME NEW j \in c \ {i} PROVE Before(i, j)
  <2>1. Log[j].time \in times /\ i \in c /\ Log[i].time = t
    OBVIOUS
  <2>2. t <= Log[j].time
    BY <1>1, <2>1
  <2>3. Log[j].time = t => i <= j
    BY <1>2
  <2> QED BY <2>1, <2>2, <2>3, LogTypes DEF Before
<1> QED BY <1>3

\* The first and the last time are those of messages that are logged.
LEMMA TimesBound ==
  LogTyped =>
    /\ FirstTime \in Nat /\ LastTime \in Nat
    /\ FirstTime <= LastTime
    /\ \A i \in DOMAIN Log : FirstTime <= Log[i].time /\ Log[i].time <= LastTime
<1> SUFFICES ASSUME LogTyped PROVE TimesBound!2
  OBVIOUS
<1>1. CASE Times = {}
  <2>1. DOMAIN Log = {}
    BY <1>1 DEF Times
  <2>2. FirstTime = 0 /\ LastTime = 0
    BY <1>1 DEF FirstTime, LastTime
  <2> QED BY <2>1, <2>2
<1>2. CASE Times # {}
  <2>1. Times \in SUBSET Nat
    BY LogTypes DEF Times
  <2>2. FirstTime \in Times /\ \A u \in Times : FirstTime <= u
    BY <1>2, <2>1, LeastNatural DEF FirstTime
  <2>3. \E t \in Times : \A u \in Times : u <= t
    <3> DEFINE Later(i) == {j \in DOMAIN Log : Log[i].time < Log[j].time}
               counts == {Cardinality(Later(i)) : i \in DOMAIN Log}
    <3>1. ASSUME NEW i \in DOMAIN Log
          PROVE  /\ IsFiniteSet(Later(i)) /\ Cardinality(Later(i)) \in Nat
      BY LogTypes, FS_Subset, FS_CardinalityType
    <3>2. counts \in SUBSET Nat /\ counts # {}
      BY <1>2, <3>1 DEF Times
    <3>3. PICK m \in counts : \A n \in counts : m <= n
      <4> HIDE DEF counts
      <4> QED BY <3>2, LeastNatural
    <3>4. PICK i \in DOMAIN Log : m = Cardinality(Later(i))
      OBVIOUS
    <3>5. ASSUME NEW j \in DOMAIN Log PROVE Log[j].time <= Log[i].time
      <4> SUFFICES ASSUME Log[i].time < Log[j].time PROVE FALSE
        BY LogTypes
      <4>1. Later(j) \subseteq Later(i) /\ j \in Later(i) /\ j \notin Later(j)
        BY LogTypes
      <4>2. /\ Cardinality(Later(j)) <= Cardinality(Later(i))
            /\ Cardinality(Later(j)) # Cardinality(Later(i))
        BY <3>1, <4>1, FS_Subset
      <4>3. Cardinality(Later(i)) <= Cardinality(Later(j))
        BY <3>3, <3>4
      <4>4. Cardinality(Later(i)) \in Nat /\ Cardinality(Later(j)) \in Nat
        BY <3>1
      <4> HIDE DEF Later
      <4> QED BY ONLY <4>2, <4>3, <4>4
    <3> QED BY <3>5 DEF Times
  <2>4. LastTime \in Times /\ \A u \in Times : u <= LastTime
    BY <1>2, <2>3 DEF LastTime
  <2>5. \A i \in DOMAIN Log : Log[i].time \in Times
    BY DEF Times
  <2>6. FirstTime \in Nat /\ LastTime \in Nat /\ FirstTime <= LastTime
    BY <2>1, <2>2, <2>4
  <2> QED BY <2>2, <2>4, <2>5, <2>6
<1> QED BY <1>1, <1>2

-----------------------------------------------------------------------------
(* The inductive invariant                                                  *)

PlayerTypeOK ==
  /\ LogTyped
  /\ opened \in BOOLEAN /\ autoRepeat \in BOOLEAN
  /\ opened => stream \in file.cameras
  /\ cursor \subseteq DOMAIN Log /\ played \subseteq DOMAIN Log
  /\ fetched \in {0} \cup DOMAIN Log
  /\ target \in Nat
  /\ ~opened => Log = <<>>

\* With c to come and s played since t was sought: both lie behind where the seek
\* landed, s before c, and between them they have every frame from there on; or
\* nothing was played and nothing will be.
LandsAt(c, s, t) ==
  /\ \A i \in c : Log[i].channel = stream /\ Log[i].time >= Clamp(t)
  /\ \A i \in s : i \in Frames /\ Log[i].time >= Clamp(t)
  /\ \A i \in s, j \in c : Before(i, j)
  /\ \/ c = {} /\ s = {}
     \/ \A j \in Frames : Log[j].time >= Clamp(t) => j \in s \cup c

Landed == LandsAt(cursor, played, target)

PlayerInv == PlayerTypeOK /\ Landed

\* Where the file and the stream are not changed, nothing that is asked of them is.
LEMMA SameFile ==
  UNCHANGED fileVars =>
    /\ LogTyped' = LogTyped
    /\ Log' = Log
    /\ Frames' = Frames
    /\ FirstTime' = FirstTime
    /\ Landed' = LandsAt(cursor', played', target')
BY DEF fileVars, LogTyped, Log, Frames, Before, Times, FirstTime, LastTime, Clamp,
       LandsAt, Landed

\* A view that starts where a seek lands has all there is to come.
LEMMA FreshViewLands ==
  ASSUME NEW t
  PROVE  /\ LandsAt(From(Clamp(t)), {}, t) /\ From(Clamp(t)) \subseteq DOMAIN Log
         /\ LandsAt({}, {}, t)
BY DEF LandsAt, From, Frames

\* The first frame of a view is one of the stream's, and the view starts with it.
LEMMA AdvanceLands ==
  ASSUME LogTyped, NEW c \in SUBSET DOMAIN Log, NEW s \in SUBSET DOMAIN Log,
         NEW t, LandsAt(c, s, t), Advance(c, s)
  PROVE  /\ LandsAt(cursor', played', t)
         /\ cursor' \subseteq DOMAIN Log /\ played' \subseteq DOMAIN Log
         /\ fetched' \in {0} \cup DOMAIN Log
<1>1. Decoding(c) = c \cap Frames
  BY LogTypes DEF Decoding, Frames, LandsAt
<1>2. CASE Decoding(c) = {}
  BY <1>1, <1>2 DEF Advance, LandsAt
<1>3. CASE Decoding(c) # {}
  <2>1. /\ fetched' = Earliest(Decoding(c))
        /\ cursor' = {i \in c : Before(fetched', i)}
        /\ played' = s \cup {fetched'}
    BY <1>3 DEF Advance
  <2>2. /\ fetched' \in c \cap Frames
        /\ \A j \in (c \cap Frames) \ {fetched'} : Before(fetched', j)
    BY <1>1, <1>3, <2>1, EarliestIsFirst
  <2>3. \A i \in played', j \in cursor' : Before(i, j)
    BY <2>1 DEF LandsAt
  <2>4. \A j \in Frames : Log[j].time >= Clamp(t) => j \in played' \cup cursor'
    BY <2>1, <2>2 DEF LandsAt
  <2>5. \A i \in cursor' : Log[i].channel = stream /\ Log[i].time >= Clamp(t)
    BY <2>1 DEF LandsAt
  <2>6. \A i \in played' : i \in Frames /\ Log[i].time >= Clamp(t)
    BY <2>1, <2>2 DEF LandsAt
  <2> QED BY <2>1, <2>2, <2>3, <2>4, <2>5, <2>6 DEF LandsAt
<1> QED BY <1>2, <1>3

\* Opening a file finds its log empty or typed, and a view of all of the stream.
LEMMA OpenLands == ASSUME PlayerInv, NEW f \in Files, Open(f) PROVE PlayerInv'
<1>1. f \in [cameras : SUBSET STRING, log : Seq(Messages)]
  BY PlayerAssumption DEF PlayerAssumption
<1>2. LogTyped'
  BY <1>1 DEF Open, OpenReader, LogTyped
<1>3. TimesBound!1' /\ TimesBound!2'
  BY <1>2, TimesBound, PTL
<1>4. FirstTime' \in Nat /\ Clamp(FirstTime)' = FirstTime'
  BY <1>3 DEF Clamp
<1>5. Landed'
  BY <1>4, FreshViewLands DEF Open, OpenReader, Landed, LandsAt, From, Frames
<1>6. cursor' \subseteq DOMAIN Log'
  BY DEF Open, OpenReader, From
<1> QED
  BY <1>1, <1>2, <1>4, <1>5, <1>6 DEF Open, OpenReader, PlayerInv, PlayerTypeOK

\* Every step of the player keeps it typed and on what it landed on.
LEMMA PlayerStep == PlayerInv /\ [Next]_vars => PlayerInv'
<1> SUFFICES ASSUME PlayerInv, [Next]_vars PROVE PlayerInv'
  OBVIOUS
<1>t. /\ LogTyped /\ cursor \in SUBSET DOMAIN Log /\ played \in SUBSET DOMAIN Log
      /\ FirstTime \in Nat /\ LastTime \in Nat
  BY TimesBound DEF PlayerInv, PlayerTypeOK
<1>v. ASSUME UNCHANGED fileVars, autoRepeat' \in BOOLEAN,
             cursor' \subseteq DOMAIN Log, played' \subseteq DOMAIN Log,
             fetched' \in {0} \cup DOMAIN Log, target' \in Nat,
             LandsAt(cursor', played', target')
      PROVE  PlayerInv'
  <2>1. UNCHANGED <<file, opened, stream>>
    BY <1>v DEF fileVars
  <2> QED BY <1>v, <2>1, SameFile DEF PlayerInv, PlayerTypeOK
<1>s. ASSUME NEW t \in Nat, opened, target' = t, played' = {},
             cursor' = From(Clamp(t)) \/ cursor' = {},
             UNCHANGED <<fileVars, autoRepeat, fetched>>
      PROVE  PlayerInv'
  BY <1>s, <1>v, FreshViewLands DEF PlayerInv, PlayerTypeOK
<1>1. ASSUME NEW f \in Files, Open(f) PROVE PlayerInv'
  BY <1>1, OpenLands
<1>2. CASE EnableAutoRepeat
  BY <1>2, <1>v DEF EnableAutoRepeat, PlayerInv, PlayerTypeOK, Landed
<1>3. CASE SeekBegin \/ SeekEnd
  BY <1>3, <1>t, <1>s DEF SeekBegin, SeekEnd, Seek
<1>4. CASE SeekTimestamp
  <2>1. PICK us \in Targets : Seek(ToNanos(us))
    BY <1>4 DEF SeekTimestamp
  <2>2. ToNanos(us) \in Nat
    BY PlayerAssumption DEF PlayerAssumption, ToNanos
  <2> QED BY <2>1, <2>2, <1>s DEF Seek
<1>5. CASE SeekFails
  BY <1>5, <1>t, <1>s DEF SeekFails
<1>6. CASE Fetch
  <2>1. Advance(cursor, played) /\ UNCHANGED <<fileVars, autoRepeat, target>>
    BY <1>6 DEF Fetch
  <2>2. LandsAt(cursor, played, target)
    BY DEF PlayerInv, Landed
  <2> QED BY <1>t, <2>1, <2>2, <1>v, AdvanceLands DEF PlayerInv, PlayerTypeOK
<1>7. CASE FetchAgain
  <2>1. UNCHANGED fileVars /\ autoRepeat' \in BOOLEAN
    BY <1>7 DEF FetchAgain, PlayerInv, PlayerTypeOK
  <2>2. PICK c \in {From(FirstTime), {}} :
           /\ Advance(c, {})
           /\ LandsAt(c, {}, target') /\ c \subseteq DOMAIN Log
           /\ target' \in Nat
    <3>1. Clamp(FirstTime) = FirstTime
      BY <1>t, TimesBound DEF Clamp
    <3> QED BY <1>7, <1>t, <3>1, FreshViewLands DEF FetchAgain
  <2>3. {} \in SUBSET DOMAIN Log
    OBVIOUS
  <2> QED BY <1>t, <2>1, <2>2, <2>3, <1>v, AdvanceLands
<1>8. CASE Close
  <2>1. /\ file' = [cameras |-> {}, log |-> <<>>] /\ stream' = ""
        /\ opened' = FALSE /\ cursor' = {} /\ played' = {} /\ fetched' = 0
        /\ target' = 0 /\ autoRepeat' = autoRepeat
    BY <1>8 DEF Close, CloseReader
  <2>2. LogTyped' /\ Log' = <<>>
    <3>1. <<>> \in Seq(Messages) /\ {} \in SUBSET STRING
      OBVIOUS
    <3>2. [cameras |-> {}, log |-> <<>>] \in [cameras : SUBSET STRING, log : Seq(Messages)]
      BY <3>1, Zenon
    <3>3. file' \in [cameras : SUBSET STRING, log : Seq(Messages)]
      BY <2>1, <3>2, Zenon
    <3>4. file'.log = <<>>
      BY <2>1, Zenon
    <3> QED BY <3>3, <3>4, Zenon DEF LogTyped, Log
  <2>3. Landed'
    BY <2>1 DEF Landed, LandsAt
  <2>4. opened' = FALSE /\ autoRepeat' \in BOOLEAN
    BY <2>1 DEF PlayerInv, PlayerTypeOK
  <2>5. cursor' \subseteq DOMAIN Log' /\ played' \subseteq DOMAIN Log'
    BY <2>1, Zenon
  <2>6. fetched' \in {0} \cup DOMAIN Log' /\ target' \in Nat
    BY <2>1, Zenon
  <2> QED BY <2>2, <2>3, <2>4, <2>5, <2>6 DEF PlayerInv, PlayerTypeOK
<1>9. CASE UNCHANGED vars
  BY <1>9, <1>v DEF vars, fileVars, PlayerInv, PlayerTypeOK, Landed
<1> QED
  BY <1>1, <1>2, <1>3, <1>4, <1>5, <1>6, <1>7, <1>8, <1>9 DEF Next

\* A player keeps its invariant.
LEMMA PlayerInvariant == Spec => []PlayerInv
<1>1. Init => PlayerInv
  <2> SUFFICES ASSUME Init PROVE PlayerInv
    OBVIOUS
  <2>1. <<>> \in Seq(Messages) /\ {} \in SUBSET STRING
    OBVIOUS
  <2>2. [cameras |-> {}, log |-> <<>>] \in [cameras : SUBSET STRING, log : Seq(Messages)]
    BY <2>1, Zenon
  <2>3. LogTyped
    BY <2>2, Zenon DEF Init, LogTyped
  <2>4. Log = <<>>
    BY Zenon DEF Init, Log
  <2>5. Landed
    BY DEF Init, Landed, LandsAt
  <2>6. fetched \in {0} \cup DOMAIN Log /\ target \in Nat
    BY Zenon DEF Init
  <2> QED BY <2>3, <2>4, <2>5, <2>6 DEF Init, PlayerInv, PlayerTypeOK
<1> QED BY <1>1, PlayerStep, PTL DEF Spec

\* Every variable of the player keeps its type: what is to come, what was played and
\* what is shown are messages of the open file, a closed player has none, and an
\* open one plays one of the file's cameras.
THEOREM PlayerTyping == Spec => []PlayerTypeOK
BY PlayerInvariant, PTL DEF PlayerInv

-----------------------------------------------------------------------------
(* Seeks                                                                    *)

\* Since a seek the stream's frames come in time order from the first at or after
\* its position, none left out and none from before.
THEOREM SeeksLand == Spec => []SeekLandsRight
<1>1. PlayerInv => SeekLandsRight
  <2> SUFFICES ASSUME PlayerInv PROVE SeekLandsRight
    OBVIOUS
  <2>t. /\ LogTyped /\ cursor \subseteq DOMAIN Log /\ played \subseteq DOMAIN Log
        /\ FirstTime \in Nat /\ LastTime \in Nat /\ target \in Nat
    BY TimesBound DEF PlayerInv, PlayerTypeOK
  <2>1. ASSUME NEW i \in played
        PROVE  Log[i].time >= target \/ target > LastTime
    BY <2>t, LogTypes DEF PlayerInv, Landed, LandsAt, Clamp
  <2>2. ASSUME NEW i \in played, NEW j \in Frames, Before(j, i),
               Log[j].time >= Clamp(target)
        PROVE  j \in played
    <3>1. i \in DOMAIN Log /\ j \in DOMAIN Log
      BY <2>t DEF Frames
    <3>2. j \notin cursor
      BY <2>t, <2>2, <3>1, BeforeIsOrder DEF PlayerInv, Landed, LandsAt
    <3> QED BY <2>2, <3>2 DEF PlayerInv, Landed, LandsAt
  <2> QED BY <2>1, <2>2 DEF SeekLandsRight
<1> QED BY <1>1, PlayerInvariant, PTL

\* Cutting a time to microseconds keeps it in its microsecond.
LEMMA MicrosecondOf ==
  ASSUME NEW t \in Nat
  PROVE  /\ ToMicros(t) \in Nat
         /\ ToNanos(ToMicros(t)) \in Nat
         /\ ToNanos(ToMicros(t)) <= t
         /\ \A u \in Nat : (ToNanos(ToMicros(t)) <= u /\ u <= t)
                              => ToMicros(u) = ToMicros(t)
<1> USE PlayerAssumption DEF PlayerAssumption, ToMicros, ToNanos
<1>1. /\ t \div Micro \in Nat /\ (t \div Micro) * Micro \in Nat
      /\ (t \div Micro) * Micro <= t
  OBVIOUS
<1>2. ASSUME NEW u \in Nat, (t \div Micro) * Micro <= u, u <= t
      PROVE  u \div Micro = t \div Micro
  <2>1. ASSUME NEW n \in Nat
        PROVE  /\ n \div Micro \in Nat
               /\ (n \div Micro) * Micro <= n
               /\ n < (n \div Micro + 1) * Micro
    OBVIOUS
  <2>2. ASSUME NEW a \in Nat, NEW b \in Nat, a < b
        PROVE  (a + 1) * Micro <= b * Micro
    <3>1. PICK d \in Nat : b = a + 1 + d
      BY <2>2, b - a - 1 \in Nat
    <3>2. b * Micro = (a + 1) * Micro + d * Micro /\ d * Micro \in Nat
      BY <3>1
    <3> QED BY <3>2
  <2>3. ~(u \div Micro < t \div Micro)
    BY <1>2, <2>1, <2>2
  <2>4. ~(t \div Micro < u \div Micro)
    BY <1>2, <2>1, <2>2
  <2> QED BY <2>1, <2>3, <2>4
<1> QED BY <1>1, <1>2

\* Seeking to the microsecond that a frame was shown with shows a frame of that
\* microsecond.
THEOREM ShownTimesAreFound == Spec => []ShownIsFoundAgain
<1>1. PlayerInv => ShownIsFoundAgain
  <2> SUFFICES ASSUME PlayerInv, NEW i \in Frames,
                      target = ToNanos(ToMicros(Log[i].time)), played # {}
               PROVE  \E j \in played : ToMicros(Log[j].time) = ToMicros(Log[i].time)
    BY DEF ShownIsFoundAgain
  <2>t. /\ LogTyped /\ i \in DOMAIN Log
        /\ cursor \subseteq DOMAIN Log /\ played \subseteq DOMAIN Log
        /\ FirstTime <= Log[i].time /\ Log[i].time <= LastTime
        /\ FirstTime \in Nat /\ LastTime \in Nat /\ Log[i].time \in Nat
    BY TimesBound, LogTypes DEF PlayerInv, PlayerTypeOK, Frames
  <2>1. target \in Nat /\ target <= Log[i].time
    BY <2>t, MicrosecondOf
  <2>2. target <= Clamp(target) /\ Clamp(target) <= Log[i].time
    BY <2>t, <2>1 DEF Clamp
  <2>3. i \in played \/ i \in cursor
    BY <2>2 DEF PlayerInv, Landed, LandsAt
  <2>4. CASE i \in cursor
    <3>1. PICK j \in played : TRUE
      OBVIOUS
    <3>2. /\ Log[j].time \in Nat /\ target <= Log[j].time
          /\ Log[j].time <= Log[i].time
      <4>1. Before(j, i) /\ Log[j].time >= Clamp(target)
        BY <2>4 DEF PlayerInv, Landed, LandsAt
      <4>2. Clamp(target) \in Nat
        BY <2>t, <2>1 DEF Clamp
      <4> QED BY <2>t, <2>1, <2>2, <4>1, <4>2, BeforeIsOrder, LogTypes
    <3> QED BY <2>t, <3>2, MicrosecondOf
  <2> QED BY <2>3, <2>4
<1> QED BY <1>1, PlayerInvariant, PTL

-----------------------------------------------------------------------------
(* The player implements Playback: its cursor is the number of the stream's *)
(* frames that are not to come, and one.                                    *)

\* A recording has a number of frames, and so has any part of it.
LEMMA FrameCount ==
  LogTyped =>
    /\ IsFiniteSet(Frames) /\ Cardinality(Frames) \in Nat
    /\ \A c : /\ IsFiniteSet(Frames \ c) /\ Cardinality(Frames \ c) \in Nat
              /\ Cardinality(Frames \ c) <= Cardinality(Frames)
              /\ Cardinality(Frames \ c) = Cardinality(Frames) => Frames \cap c = {}
<1> SUFFICES ASSUME LogTyped, NEW c
             PROVE  /\ IsFiniteSet(Frames) /\ Cardinality(Frames) \in Nat
                    /\ IsFiniteSet(Frames \ c) /\ Cardinality(Frames \ c) \in Nat
                    /\ Cardinality(Frames \ c) <= Cardinality(Frames)
                    /\ Cardinality(Frames \ c) = Cardinality(Frames)
                         => Frames \cap c = {}
  OBVIOUS
<1>1. IsFiniteSet(Frames)
  <2>1. Frames \in SUBSET DOMAIN Log
    BY DEF Frames
  <2> QED BY <2>1, LogTypes, FS_Subset
<1>2. Frames \ c \in SUBSET Frames
  OBVIOUS
<1>3. /\ IsFiniteSet(Frames \ c)
      /\ Cardinality(Frames \ c) <= Cardinality(Frames)
      /\ Cardinality(Frames) = Cardinality(Frames \ c) => Frames = Frames \ c
  BY <1>1, <1>2, FS_Subset
<1> QED BY <1>1, <1>3, FS_CardinalityType

\* A view is of the stream, and has every later frame of those it has.
Onward(c) == \A i \in c : /\ Log[i].channel = stream
                          /\ \A j \in Frames : Before(i, j) => j \in c

\* What is to come from a time on, and for a player that landed, is such a view.
LEMMA ViewsGoOnward ==
  LogTyped => /\ \A t \in Nat : Onward(From(t))
              /\ PlayerInv => Onward(cursor)
<1> SUFFICES ASSUME LogTyped
             PROVE  /\ \A t \in Nat : Onward(From(t))
                    /\ PlayerInv => Onward(cursor)
  OBVIOUS
<1>1. ASSUME NEW t \in Nat, NEW i \in From(t), NEW j \in Frames, Before(i, j)
      PROVE  j \in From(t)
  BY <1>1, LogTypes, BeforeIsOrder DEF From, Frames
<1>2. ASSUME PlayerInv, NEW i \in cursor, NEW j \in Frames, Before(i, j)
      PROVE  j \in cursor
  <2>1. i \in DOMAIN Log /\ j \in DOMAIN Log /\ Clamp(target) \in Nat
    BY <1>2, TimesBound DEF PlayerInv, PlayerTypeOK, Frames, Clamp
  <2>2. Log[j].time >= Clamp(target)
    BY <1>2, <2>1, LogTypes, BeforeIsOrder DEF PlayerInv, Landed, LandsAt
  <2>3. j \notin played
    BY <1>2, <2>1, BeforeIsOrder DEF PlayerInv, Landed, LandsAt
  <2> QED BY <1>2, <2>2, <2>3 DEF PlayerInv, Landed, LandsAt
<1> QED BY <1>1, <1>2 DEF Onward, From, PlayerInv, Landed, LandsAt

\* A frame of a view is played as the frame after those that the view has not, and
\* has one more behind it: Playback's PlayFrom.
LEMMA AdvancePlays ==
  ASSUME LogTyped, NEW c \in SUBSET DOMAIN Log, NEW s, Onward(c),
         Advance(c, s), UNCHANGED fileVars
  PROVE  P!PlayFrom(Cardinality(Frames \ c) + 1)
<1> DEFINE n == Cardinality(Frames \ c)
<1>1. /\ n \in Nat /\ Cardinality(Frames) \in Nat /\ n <= Cardinality(Frames)
      /\ n = Cardinality(Frames) => Frames \cap c = {}
  BY FrameCount
<1>2. Decoding(c) = c \cap Frames
  BY LogTypes DEF Decoding, Frames, Onward
<1>3. Cardinality(Frames)' = Cardinality(Frames) /\ Frames' = Frames
  BY SameFile
<1>4. CASE Decoding(c) = {}
  <2>1. fetched' = 0 /\ cursor' = {}
    BY <1>4 DEF Advance
  <2>2. Frames \ c = Frames /\ Frames' \ cursor' = Frames
    BY <1>2, <1>3, <1>4, <2>1
  <2> QED BY <1>1, <2>1, <2>2 DEF P!PlayFrom
<1>5. CASE Decoding(c) # {}
  <2>1. fetched' = Earliest(Decoding(c)) /\ cursor' = {i \in c : Before(fetched', i)}
    BY <1>5 DEF Advance
  <2>2. /\ fetched' \in c \cap Frames
        /\ \A j \in (c \cap Frames) \ {fetched'} : Before(fetched', j)
    BY <1>2, <1>5, <2>1, EarliestIsFirst
  <2>3. {j \in Frames : Before(j, fetched')} = Frames \ c
    <3>1. ASSUME NEW j \in Frames, Before(j, fetched') PROVE j \notin c
      BY <2>2, <3>1, BeforeIsOrder DEF Frames
    <3>2. ASSUME NEW j \in Frames \ c PROVE Before(j, fetched')
      BY <2>2, BeforeIsOrder DEF Frames, Onward
    <3> QED BY <3>1, <3>2
  <2>4. Rank(fetched)' = n + 1
    <3>1. {j \in Frames : Before(j, fetched)}' = Frames \ c
      BY <2>3, <1>3, SameFile DEF Before
    <3> QED BY <3>1 DEF Rank
  <2>5. Frames' \ cursor' = (Frames \ c) \cup {fetched'}
    <3>1. fetched' \notin cursor'
      BY <2>1, <2>2, BeforeIsOrder
    <3>2. ASSUME NEW j \in Frames, j \in c, j # fetched' PROVE j \in cursor'
      BY <2>1, <2>2, <3>2
    <3> QED BY <1>3, <2>1, <2>2, <3>1, <3>2
  <2>6. Cardinality(Frames' \ cursor') = n + 1
    <3>1. IsFiniteSet(Frames \ c) /\ fetched' \notin Frames \ c
      BY <2>2, FrameCount
    <3> QED BY <2>5, <3>1, FS_AddElement
  <2>7. fetched' # 0
    BY <2>2, LogTypes DEF Frames
  <2>8. ~(n + 1 > Cardinality(Frames))
    BY <1>1, <1>2, <1>5
  <2> QED BY <1>1, <2>4, <2>6, <2>7, <2>8 DEF P!PlayFrom
<1> QED BY <1>4, <1>5

\* A player without a file has nothing to play.
LEMMA NoFrames == Log = <<>> => Frames = {} /\ Cardinality(Frames) = 0
<1> SUFFICES ASSUME Log = <<>> PROVE Frames = {}
  BY FS_EmptySet
<1>1. DOMAIN Log = {}
  OBVIOUS
<1> QED BY <1>1 DEF Frames

\* Every step of the player is one of Playback's or changes nothing that it shows.
LEMMA PlayerRefines ==
  PlayerInv /\ PlayerInv' /\ [Next]_vars => [P!Next]_(P!vars)
<1> SUFFICES ASSUME PlayerInv, PlayerInv', [Next]_vars
             PROVE  P!Next \/ UNCHANGED P!vars
  OBVIOUS
<1>t. /\ LogTyped /\ LogTyped' /\ cursor \in SUBSET DOMAIN Log
      /\ FirstTime \in Nat /\ Onward(cursor)
      /\ autoRepeat \in BOOLEAN /\ autoRepeat' \in BOOLEAN
  BY TimesBound, ViewsGoOnward DEF PlayerInv, PlayerTypeOK
<1> DEFINE n == Cardinality(Frames \ cursor)
<1>n. n \in Nat /\ Cardinality(Frames) \in Nat /\ n <= Cardinality(Frames)
  BY <1>t, FrameCount
<1>u. ASSUME UNCHANGED fileVars
      PROVE  /\ UNCHANGED Cardinality(Frames)
             /\ UNCHANGED cursor => UNCHANGED Cardinality(Frames \ cursor)
             /\ UNCHANGED fetched
                  => UNCHANGED (IF fetched = 0 THEN 0 ELSE Rank(fetched))
  BY <1>u, SameFile DEF Rank, Before
<1>s. ASSUME UNCHANGED <<fileVars, autoRepeat, fetched>> PROVE P!Seek
  <2>1. Cardinality(Frames \ cursor)' \in 0..Cardinality(Frames)
    <3>1. /\ Cardinality(Frames \ cursor') \in Nat
          /\ Cardinality(Frames \ cursor') <= Cardinality(Frames)
      BY <1>t, FrameCount
    <3> QED BY <1>n, <1>s, <3>1, SameFile
  <2> QED BY <1>n, <1>s, <1>u, <2>1 DEF P!Seek
<1>1. ASSUME NEW f \in Files, Open(f) PROVE P!Load
  <2>1. Cardinality(Frames) = 0
    BY <1>1, NoFrames DEF Open, PlayerInv, PlayerTypeOK
  <2>2. Cardinality(Frames)' \in Nat
    <3>1. FrameCount!1' => FrameCount!2'
      BY FrameCount, PTL
    <3> QED BY <3>1, <1>t
  <2>3. (Frames \ cursor)' = {}
    <3>1. TimesBound!1' => TimesBound!2'
      BY TimesBound, PTL
    <3>2. LogTypes!1' => LogTypes!2'
      BY LogTypes, PTL
    <3>3. \A i \in DOMAIN Log' : /\ FirstTime' <= Log'[i].time
                                /\ FirstTime' \in Nat /\ Log'[i].time \in Nat
      BY <3>1, <3>2, <1>t
    <3> QED BY <1>1, <3>3 DEF Open, OpenReader, From, Frames
  <2>4. fetched' = 0
    BY <1>1 DEF Open
  <2> QED BY <1>t, <2>1, <2>2, <2>3, <2>4, FS_EmptySet DEF P!Load
<1>2. CASE EnableAutoRepeat
  BY <1>2, <1>t, <1>u DEF EnableAutoRepeat, P!Next, P!SetRepeat
<1>3. CASE SeekBegin \/ SeekEnd \/ SeekTimestamp \/ SeekFails
  BY <1>3, <1>s DEF SeekBegin, SeekEnd, SeekTimestamp, SeekFails, Seek, P!Next
<1>p. Decoding(cursor) = cursor \cap Frames
  BY <1>t, LogTypes DEF Decoding, Frames, Onward
<1>4. CASE Fetch
  <2>1. P!PlayFrom(n + 1) /\ UNCHANGED <<fileVars, autoRepeat>>
    BY <1>4, <1>t, AdvancePlays DEF Fetch
  <2>2. n + 1 <= Cardinality(Frames) \/ ~autoRepeat
    <3>1. n = Cardinality(Frames) => Decoding(cursor) = {}
      BY <1>p, <1>t, FrameCount
    <3> QED BY <1>n, <1>4, <3>1 DEF Fetch
  <2>3. n + 1 <= Cardinality(Frames) \/ n + 1 > Cardinality(Frames)
    BY <1>n
  <2>4. P!Fetch
    BY <2>1, <2>2, <2>3, <1>u DEF P!Fetch
  <2> QED BY <2>4 DEF P!Next
<1>5. CASE FetchAgain
  <2>1. Decoding(cursor) = {} /\ autoRepeat /\ UNCHANGED <<fileVars, autoRepeat>>
    BY <1>5 DEF FetchAgain
  <2>2. n + 1 > Cardinality(Frames)
    <3>1. Frames \ cursor = Frames
      BY <1>p, <2>1
    <3> QED BY <1>n, <3>1
  <2>3. CASE Advance(From(FirstTime), {})
    <3>1. Frames \ From(FirstTime) = {}
      BY <1>t, TimesBound, LogTypes DEF From, Frames
    <3>2. From(FirstTime) \in SUBSET DOMAIN Log /\ Onward(From(FirstTime))
      BY <1>t, ViewsGoOnward DEF From
    <3>3. P!PlayFrom(Cardinality(Frames \ From(FirstTime)) + 1)
      BY <1>t, <2>1, <2>3, <3>2, AdvancePlays
    <3>4. P!PlayFrom(1)
      BY <3>1, <3>3, FS_EmptySet
    <3> QED BY <2>1, <2>2, <3>4, <1>u DEF P!Fetch, P!Next
  <2>4. CASE Advance({}, {})
    <3>1. {} \in SUBSET DOMAIN Log /\ Onward({}) /\ Frames \ {} = Frames
      BY DEF Onward
    <3>2. P!PlayFrom(Cardinality(Frames) + 1)
      BY <1>t, <2>1, <2>4, <3>1, AdvancePlays
    <3> QED BY <2>1, <2>2, <3>2, <1>u DEF P!Fetch, P!Next
  <2> QED BY <1>5, <2>3, <2>4 DEF FetchAgain
<1>6. CASE Close
  <2>1. Log' = <<>>
    BY <1>6, Zenon DEF Close, CloseReader, Log
  <2>2. Frames' = {} /\ Cardinality(Frames)' = 0
    <3>1. NoFrames!1' => NoFrames!2'
      BY NoFrames, PTL
    <3> QED BY <2>1, <3>1
  <2>3. (Frames \ cursor)' = {}
    BY <2>2
  <2> QED BY <1>6, <2>2, <2>3, FS_EmptySet DEF Close, P!Unload, P!Next
<1>7. CASE UNCHANGED vars
  <2>1. UNCHANGED <<fileVars, cursor, fetched, autoRepeat>>
    BY <1>7 DEF vars, fileVars
  <2> QED BY <2>1, <1>u DEF P!vars
<1> QED
  BY <1>1, <1>2, <1>3, <1>4, <1>5, <1>6, <1>7 DEF Next, P!Next

\* The player is the cursor over numbered frames that the provider takes it for:
\* every step maps to one of Playback's or to none.
THEOREM PlayerImplementsPlayback == Spec => ImplementsPlayback
<1>1. Init => P!Init
  <2> SUFFICES ASSUME Init PROVE P!Init
    OBVIOUS
  <2>1. Log = <<>>
    BY Zenon DEF Init, Log
  <2>2. Cardinality(Frames) = 0 /\ Frames \ cursor = {}
    BY <2>1, NoFrames
  <2>3. autoRepeat = FALSE /\ fetched = 0
    BY Zenon DEF Init
  <2>4. Cardinality(Frames \ cursor) + 1 = 1
    BY <2>2, FS_EmptySet
  <2> QED BY <2>2, <2>3, <2>4 DEF P!Init
<1> QED BY <1>1, PlayerInvariant, PlayerRefines, PTL DEF Spec, P!Spec, ImplementsPlayback

-----------------------------------------------------------------------------
(* The cameras: what the controls rest on                                   *)

Openings == [capturer : Capturers, camera : Cameras]

DeviceTypeOK ==
    /\ camera \in [Cameras -> {"closed", "open", "streaming"}]
    /\ control \in [Cameras -> Settings]
    /\ device \in [Capturers -> Cameras \cup {None}]
    /\ fetching \in [Capturers -> BOOLEAN]
    /\ source \in Capturers \cup {None} /\ replaced \in Capturers \cup {None}
    /\ opening \in Openings \cup {None}
    /\ asked \in [Capturers -> Settings]
    /\ refused \in [Capturers -> SUBSET Controls]

\* Who has a device: the pipeline's capturer and the one it replaces, which differ.
OwnersHold ==
    /\ \A p \in Capturers : device[p] # None <=> p = source \/ p = replaced
    /\ source # None => source # replaced

\* A camera is streaming for one capturer; what is open is being opened.
CamerasAreHeld ==
    /\ \A p \in Capturers : device[p] # None =>
          /\ camera[device[p]] = "streaming"
          /\ \A q \in Capturers : device[q] = device[p] => q = p
    /\ \A k \in Cameras : camera[k] = "streaming" => \E p \in Capturers : device[p] = k
    /\ \A k \in Cameras : camera[k] = "open" => opening # None /\ opening.camera = k

\* An open() is under way for a capturer that has nothing yet, and nothing is replaced.
OpeningHolds ==
    opening # None =>
        /\ camera[opening.camera] = "open"
        /\ replaced = None
        /\ opening.capturer # source

ControlsHold ==
    \A p \in Capturers : device[p] # None =>
        \A c \in Controls \ refused[p] : control[device[p]][c] = asked[p][c]

FetchersHold == \A p \in Capturers : fetching[p] => device[p] # None

DeviceInv ==
    /\ DeviceTypeOK
    /\ OwnersHold
    /\ CamerasAreHeld
    /\ OpeningHolds
    /\ ControlsHold
    /\ FetchersHold

-----------------------------------------------------------------------------
LEMMA DeviceInitially == DeviceInit => DeviceInv
<1> SUFFICES ASSUME DeviceInit PROVE DeviceInv
  OBVIOUS
<1> USE DEF DeviceInit
<1>1. DeviceTypeOK
  BY DEF DeviceTypeOK, NothingAsked, Settings
<1>2. OwnersHold
  BY K4aAssumption DEF OwnersHold
<1>3. CamerasAreHeld /\ OpeningHolds /\ ControlsHold /\ FetchersHold
  BY DEF CamerasAreHeld, OpeningHolds, ControlsHold, FetchersHold
<1> QED
  BY <1>1, <1>2, <1>3 DEF DeviceInv

LEMMA OpenDeviceKeeps ==
  ASSUME DeviceInv, NEW p \in Capturers, NEW k \in Cameras, OpenDevice(p, k)
  PROVE  DeviceInv'
<1> USE K4aAssumption DEF DeviceInv, OpenDevice
<1>0. opening' = [capturer |-> p, camera |-> k] /\ opening' \in Openings /\ opening' # None
  BY DEF Openings
<1>1. DeviceTypeOK'
  BY <1>0 DEF DeviceTypeOK
<1>2. OwnersHold'
  BY DEF OwnersHold
<1>3. CamerasAreHeld'
  BY <1>0 DEF CamerasAreHeld, DeviceTypeOK
<1>4. OpeningHolds'
  BY <1>0 DEF OpeningHolds, DeviceTypeOK
<1>5. ControlsHold' /\ FetchersHold'
  BY DEF ControlsHold, FetchersHold
<1> QED
  BY <1>1, <1>2, <1>3, <1>4, <1>5 DEF DeviceInv

LEMMA OpenFailsKeeps ==
  ASSUME DeviceInv, OpenFails
  PROVE  DeviceInv'
<1> USE K4aAssumption DEF DeviceInv, OpenFails
<1>0. opening \in Openings /\ opening.camera \in Cameras
  BY DEF DeviceTypeOK, Openings
<1>1. DeviceTypeOK'
  BY <1>0 DEF DeviceTypeOK
<1>2. OwnersHold'
  BY DEF OwnersHold
<1>3. CamerasAreHeld'
  BY <1>0 DEF CamerasAreHeld, DeviceTypeOK, OpeningHolds
<1>4. OpeningHolds'
  BY DEF OpeningHolds
<1>5. ControlsHold' /\ FetchersHold'
  BY DEF ControlsHold, FetchersHold
<1> QED
  BY <1>1, <1>2, <1>3, <1>4, <1>5 DEF DeviceInv

LEMMA StartKeeps ==
  ASSUME DeviceInv, NEW settings \in Settings, NEW failed \in SUBSET Controls,
         Start(settings, failed)
  PROVE  DeviceInv'
<1> DEFINE p == opening.capturer
           k == opening.camera
<1> USE K4aAssumption
<1>0. /\ p \in Capturers /\ k \in Cameras
      /\ camera[k] = "open" /\ replaced = None /\ p # source /\ device[p] = None
      /\ \A q \in Capturers : device[q] # k
  BY DEF DeviceInv, DeviceTypeOK, Openings, OpeningHolds, OwnersHold, CamerasAreHeld, Start
<1>1. /\ camera' = [camera EXCEPT ![k] = "streaming"]
      /\ control' = [control EXCEPT ![k] = [c \in Controls |->
                        IF c \in failed THEN @[c] ELSE settings[c]]]
      /\ device' = [device EXCEPT ![p] = k]
      /\ source' = p /\ replaced' = source
      /\ asked' = [asked EXCEPT ![p] = settings]
      /\ refused' = [refused EXCEPT ![p] = failed]
      /\ opening' = None /\ fetching' = fetching
  BY DEF Start, ApplyColorControls
<1> HIDE DEF p, k
<1>2. [c \in Controls |-> IF c \in failed THEN control[k][c] ELSE settings[c]] \in Settings
  BY <1>0 DEF DeviceInv, DeviceTypeOK, Settings
<1>3. DeviceTypeOK'
  BY <1>0, <1>1, <1>2 DEF DeviceInv, DeviceTypeOK
<1>4. OwnersHold'
  BY <1>0, <1>1 DEF DeviceInv, DeviceTypeOK, OwnersHold
<1>5. CamerasAreHeld'
  <2>1. ASSUME NEW q \in Capturers, device'[q] # None
        PROVE  /\ camera'[device'[q]] = "streaming"
               /\ \A r \in Capturers : device'[r] = device'[q] => r = q
    BY <1>0, <1>1, <2>1 DEF DeviceInv, DeviceTypeOK, CamerasAreHeld
  <2>2. ASSUME NEW j \in Cameras, camera'[j] = "streaming"
        PROVE  \E q \in Capturers : device'[q] = j
    <3>1. CASE j = k
      BY <1>0, <1>1, <3>1 DEF DeviceInv, DeviceTypeOK
    <3>2. CASE j # k
      BY <1>0, <1>1, <2>2, <3>2 DEF DeviceInv, DeviceTypeOK, CamerasAreHeld
    <3> QED
      BY <3>1, <3>2
  <2>3. ASSUME NEW j \in Cameras
        PROVE  camera'[j] # "open"
    BY <1>0, <1>1 DEF DeviceInv, DeviceTypeOK, CamerasAreHeld, k
  <2> QED
    BY <2>1, <2>2, <2>3 DEF CamerasAreHeld
<1>6. OpeningHolds'
  BY <1>1 DEF OpeningHolds
<1>7. ControlsHold'
  <2> SUFFICES ASSUME NEW q \in Capturers, device'[q] # None,
                      NEW c \in Controls, c \notin refused'[q]
               PROVE  control'[device'[q]][c] = asked'[q][c]
    BY DEF ControlsHold
  <2>1. CASE q = p
    BY <1>0, <1>1, <2>1 DEF DeviceInv, DeviceTypeOK
  <2>2. CASE q # p
    BY <1>0, <1>1, <2>2 DEF DeviceInv, DeviceTypeOK, ControlsHold
  <2> QED
    BY <2>1, <2>2
<1>8. FetchersHold'
  BY <1>0, <1>1 DEF DeviceInv, DeviceTypeOK, FetchersHold
<1> QED
  BY <1>3, <1>4, <1>5, <1>6, <1>7, <1>8 DEF DeviceInv

\* Whoever closes a capturer, its camera is closed and nobody else's.
LEMMA ReleaseKeeps ==
  ASSUME DeviceInv, NEW p \in {source, replaced}, ReleaseCamera(p), opening = None,
         source' = IF p = source THEN None ELSE source,
         replaced' = IF p = replaced THEN None ELSE replaced
  PROVE  DeviceInv'
<1> USE K4aAssumption
<1>0. /\ p \in Capturers /\ p # None /\ device[p] \in Cameras
      /\ camera' = [camera EXCEPT ![device[p]] = "closed"]
      /\ device' = [device EXCEPT ![p] = None]
      /\ asked' = [asked EXCEPT ![p] = [c \in Controls |-> Automatic]]
      /\ refused' = [refused EXCEPT ![p] = {}]
      /\ control' = control /\ fetching' = fetching /\ opening' = None
      /\ ~fetching[p]
  BY DEF ReleaseCamera, DeviceInv, DeviceTypeOK, OwnersHold
<1>1. DeviceTypeOK'
  <2>1. [c \in Controls |-> Automatic] \in Settings
    BY DEF Settings
  <2> QED
    BY <1>0, <2>1 DEF DeviceInv, DeviceTypeOK
<1>2. OwnersHold'
  BY <1>0 DEF DeviceInv, DeviceTypeOK, OwnersHold
<1>3. CamerasAreHeld'
  <2>1. ASSUME NEW q \in Capturers, device'[q] # None
        PROVE  /\ camera'[device'[q]] = "streaming"
               /\ \A r \in Capturers : device'[r] = device'[q] => r = q
    BY <1>0, <2>1 DEF DeviceInv, DeviceTypeOK, CamerasAreHeld
  <2>2. ASSUME NEW j \in Cameras, camera'[j] = "streaming"
        PROVE  \E q \in Capturers : device'[q] = j
    BY <1>0, <2>2 DEF DeviceInv, DeviceTypeOK, CamerasAreHeld
  <2>3. ASSUME NEW j \in Cameras
        PROVE  camera'[j] # "open"
    BY <1>0 DEF DeviceInv, DeviceTypeOK, CamerasAreHeld
  <2> QED
    BY <2>1, <2>2, <2>3 DEF CamerasAreHeld
<1>4. OpeningHolds'
  BY <1>0 DEF OpeningHolds
<1>5. ControlsHold'
  BY <1>0 DEF DeviceInv, DeviceTypeOK, ControlsHold
<1>6. FetchersHold'
  BY <1>0 DEF DeviceInv, DeviceTypeOK, FetchersHold
<1> QED
  BY <1>1, <1>2, <1>3, <1>4, <1>5, <1>6 DEF DeviceInv

LEMMA WorkerKeeps ==
  ASSUME DeviceInv, NEW p \in Capturers, BeginFetch(p) \/ EndFetch(p)
  PROVE  DeviceInv'
<1>1. fetching' \in [Capturers -> BOOLEAN] /\ FetchersHold'
  BY DEF BeginFetch, EndFetch, DeviceInv, DeviceTypeOK, FetchersHold
<1>2. UNCHANGED <<camera, control, device, source, replaced, opening, asked, refused>>
  BY DEF BeginFetch, EndFetch
<1> QED
  BY <1>1, <1>2 DEF DeviceInv, DeviceTypeOK, OwnersHold, CamerasAreHeld, OpeningHolds,
                    ControlsHold

LEMMA FetchFailsKeeps ==
  ASSUME DeviceInv, NEW p \in Capturers, FetchFails(p)
  PROVE  DeviceInv'
<1> USE DEF FetchFails
<1>1. control' \in [Cameras -> Settings]
  <2> DEFINE automatic == [c \in Controls |-> Automatic]
  <2>1. automatic \in Settings
    BY DEF Settings
  <2>2. control' = control \/ control' = [control EXCEPT ![device[p]] = automatic]
    OBVIOUS
  <2> HIDE DEF automatic
  <2> QED
    BY <2>1, <2>2 DEF DeviceInv, DeviceTypeOK
<1>2. DeviceTypeOK'
  BY <1>1 DEF DeviceTypeOK, NothingAsked, Settings
<1>3. OwnersHold'
  BY K4aAssumption DEF OwnersHold
<1>4. CamerasAreHeld' /\ OpeningHolds' /\ ControlsHold' /\ FetchersHold'
  BY DEF CamerasAreHeld, OpeningHolds, ControlsHold, FetchersHold
<1> QED
  BY <1>2, <1>3, <1>4 DEF DeviceInv

LEMMA DeviceInductive == DeviceInv /\ [DeviceNext]_deviceVars => DeviceInv'
<1> SUFFICES ASSUME DeviceInv, [DeviceNext]_deviceVars PROVE DeviceInv'
  OBVIOUS
<1>1. ASSUME NEW p \in Capturers, NEW k \in Cameras, OpenDevice(p, k) PROVE DeviceInv'
  BY <1>1, OpenDeviceKeeps
<1>2. ASSUME NEW settings \in Settings, NEW failed \in SUBSET Controls,
             Start(settings, failed)
      PROVE  DeviceInv'
  BY <1>2, StartKeeps
<1>3. CASE OpenFails
  BY <1>3, OpenFailsKeeps
<1>4. CASE CloseReplaced
  <2>1. opening = None
    BY <1>4, K4aAssumption DEF CloseReplaced, ReleaseCamera, DeviceInv, OpeningHolds
  <2>2. ReleaseCamera(replaced) /\ replaced # None /\ source # replaced
    BY <1>4 DEF CloseReplaced, ReleaseCamera, DeviceInv, OwnersHold
  <2> QED
    BY <1>4, <2>1, <2>2, ReleaseKeeps DEF CloseReplaced
<1>5. CASE CloseSource
  <2>1. opening = None /\ ReleaseCamera(source) /\ source # None /\ source # replaced
    BY <1>5 DEF CloseSource, ReleaseCamera, DeviceInv, OwnersHold
  <2> QED
    BY <1>5, <2>1, ReleaseKeeps DEF CloseSource
<1>6. ASSUME NEW p \in Capturers, BeginFetch(p) \/ EndFetch(p) PROVE DeviceInv'
  BY <1>6, WorkerKeeps
<1>7. ASSUME NEW p \in Capturers, FetchFails(p) PROVE DeviceInv'
  BY <1>7, FetchFailsKeeps
<1>8. CASE UNCHANGED deviceVars
  BY <1>8 DEF deviceVars, DeviceInv, DeviceTypeOK, OwnersHold, CamerasAreHeld,
              OpeningHolds, ControlsHold, FetchersHold
<1> QED
  BY <1>1, <1>2, <1>3, <1>4, <1>5, <1>6, <1>7, <1>8 DEF DeviceNext

LEMMA DeviceInvSuffices == DeviceInv => CameraIsAsAsked
<1> SUFFICES ASSUME DeviceInv PROVE CameraIsAsAsked
  OBVIOUS
<1>1. ASSUME NEW k \in Cameras, camera[k] # "closed"
      PROVE  \/ \E p \in {source, replaced} \cap Capturers : device[p] = k
             \/ opening # None /\ opening.camera = k
  <2>1. CASE camera[k] = "streaming"
    BY <2>1, K4aAssumption DEF DeviceInv, CamerasAreHeld, OwnersHold
  <2>2. CASE camera[k] = "open"
    BY <2>2 DEF DeviceInv, CamerasAreHeld
  <2> QED
    BY <1>1, <2>1, <2>2 DEF DeviceInv, DeviceTypeOK
<1> QED
  BY <1>1 DEF CameraIsAsAsked, DeviceInv, CamerasAreHeld, ControlsHold, FetchersHold

\* k4a_frame_source.cc:88: a capturer that is open streams from a camera of its own with
\* the controls it was opened with, however many cameras and sources there are.
THEOREM CamerasAsAsked == DeviceSpec => []CameraIsAsAsked
BY DeviceInitially, DeviceInductive, DeviceInvSuffices, PTL DEF DeviceSpec
=============================================================================
