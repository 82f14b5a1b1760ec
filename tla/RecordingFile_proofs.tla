------------------------ MODULE RecordingFile_proofs ------------------------
(***************************************************************************)
(* That a recording reads back as it was written, for any number and size  *)
(* of images and wherever the library ends a chunk or the process is       *)
(* killed; and that the converter's success means a complete file.         *)
(***************************************************************************)
EXTENDS MkvToMcap, FiniteSetTheorems, FunctionTheorems, SequenceTheorems, TLAPS

-----------------------------------------------------------------------------
(* What a loop over a sequence keeps                                        *)

\* As many as are listed, when each is above the one before.
LEMMA CountOfListed ==
  ASSUME NEW n \in Nat, NEW s, NEW S,
         S = {s[k] : k \in 1..n},
         \A k \in 1..n : s[k] \in Nat,
         \A k, l \in 1..n : k < l => s[k] < s[l]
  PROVE  IsFiniteSet(S) /\ Cardinality(S) = n
<1> DEFINE f == [k \in 1..n |-> s[k]]
<1>1. IsFiniteSet(1..n) /\ Cardinality(1..n) = n
  BY FS_Interval
<1>2. \A k, l \in 1..n : s[k] = s[l] => k = l
  <2> SUFFICES ASSUME NEW k \in 1..n, NEW l \in 1..n, s[k] = s[l], k # l
               PROVE  FALSE
    OBVIOUS
  <2>1. s[k] \in Nat /\ ~(s[k] < s[l]) /\ ~(s[l] < s[k])
    OBVIOUS
  <2>2. k < l \/ l < k
    OBVIOUS
  <2> QED BY <2>1, <2>2
<1>3. /\ f \in [1..n -> S]
      /\ \A k, l \in 1..n : f[k] = f[l] => k = l
      /\ \A t \in S : \E k \in 1..n : f[k] = t
  BY <1>2
<1> HIDE DEF f
<1>4. f \in Bijection(1..n, S)
  BY <1>3, Fun_IsBij
<1>5. ExistsBijection(1..n, S)
  BY <1>4 DEF ExistsBijection
<1> QED BY <1>1, <1>5, FS_Bijection

\* Numbers that are listed from the least on, all of S or those before the rest of it,
\* are the first of its members in order.
LEMMA ListedInOrder ==
  ASSUME NEW n \in Nat, NEW s, NEW S, IsFiniteSet(S),
         \A i \in S : i \in Nat,
         \A k \in 1..n : s[k] \in S,
         \A k, l \in 1..n : k < l => s[k] < s[l],
         \A i \in S : (\E k \in 1..n : s[k] = i) \/ (\A k \in 1..n : s[k] < i)
  PROVE  /\ n <= Cardinality(S)
         /\ \A k \in 1..n : k \in DOMAIN InOrder(S) /\ InOrder(S)[k] = s[k]
<1> DEFINE place(i) == Cardinality({j \in S : j <= i})
<1>1. \A k, l \in 1..n : s[l] <= s[k] <=> l <= k
  <2> SUFFICES ASSUME NEW k \in 1..n, NEW l \in 1..n
               PROVE  s[l] <= s[k] <=> l <= k
    OBVIOUS
  <2>1. s[l] \in Nat /\ s[k] \in Nat
    OBVIOUS
  <2>2. l < k \/ l = k \/ k < l
    OBVIOUS
  <2>3. (l < k => s[l] < s[k]) /\ (k < l => s[k] < s[l])
    OBVIOUS
  <2> QED BY <2>1, <2>2, <2>3
<1>2. ASSUME NEW k \in 1..n PROVE place(s[k]) = k
  <2>1. \A i \in S : i <= s[k] <=> \E l \in 1..k : s[l] = i
    <3> SUFFICES ASSUME NEW i \in S
                 PROVE  i <= s[k] <=> \E l \in 1..k : s[l] = i
      OBVIOUS
    <3>1. s[k] \in Nat /\ i \in Nat /\ (s[k] < i => ~(i <= s[k]))
      OBVIOUS
    <3>2. \A l : l \in 1..k <=> l \in 1..n /\ l <= k
      OBVIOUS
    <3> QED BY <1>1, <3>1, <3>2
  <2>2. \A l \in 1..k : s[l] \in S /\ l \in 1..n
    OBVIOUS
  <2>3. {j \in S : j <= s[k]} = {s[l] : l \in 1..k}
    BY <2>1, <2>2
  <2>4. k \in Nat
    OBVIOUS
  <2>5. Cardinality({s[l] : l \in 1..k}) = k
    BY <2>2, <2>4, CountOfListed
  <2> QED BY <2>3, <2>5
<1> DEFINE T == {s[k] : k \in 1..n}
<1>3. IsFiniteSet(T) /\ Cardinality(T) = n /\ T \in SUBSET S
  BY CountOfListed
<1>4. n <= Cardinality(S)
  BY <1>3, FS_Subset
<1>5. ASSUME NEW i \in S, i \notin T, NEW k \in 1..n
      PROVE  place(i) # k
  <2>1. \A l \in 1..n : s[l] <= i
    <3>1. \A l \in 1..n : s[l] < i
      BY <1>5
    <3> QED BY <3>1
  <2>2. T \cup {i} \in SUBSET {j \in S : j <= i}
    BY <1>3, <2>1
  <2>3. Cardinality(T \cup {i}) = n + 1
    BY <1>3, <1>5, FS_AddElement
  <2>4. IsFiniteSet({j \in S : j <= i})
    BY FS_Subset
  <2>5. n + 1 <= place(i)
    BY <2>2, <2>3, <2>4, FS_Subset
  <2>6. place(i) \in Nat
    BY <2>4, FS_CardinalityType
  <2> HIDE DEF place
  <2> QED BY <2>5, <2>6
<1>6. ASSUME NEW k \in 1..n
      PROVE  (CHOOSE i \in S : place(i) = k) = s[k]
  <2>1. s[k] \in S /\ place(s[k]) = k
    BY <1>2
  <2>2. ASSUME NEW i \in S, place(i) = k PROVE i = s[k]
    <3>1. i \in T
      BY <1>5, <2>2
    <3>2. PICK l \in 1..n : s[l] = i
      BY <3>1
    <3> QED BY <1>2, <2>2, <3>2
  <2> HIDE DEF place
  <2> QED BY <2>1, <2>2, Zenon
<1>7. InOrder(S) = [k \in 1..Cardinality(S) |-> CHOOSE i \in S : place(i) = k]
  BY DEF InOrder
<1>8. Cardinality(S) \in Nat
  BY FS_CardinalityType
<1>9. \A k \in 1..n : k \in 1..Cardinality(S)
  BY <1>4, <1>8
<1> HIDE DEF place
<1> QED BY <1>4, <1>6, <1>7, <1>9

\* What is listed from the least on is the whole set in order.
LEMMA AllListedInOrder ==
  ASSUME NEW n \in Nat, NEW s, NEW S,
         \A k \in 1..n : s[k] \in S,
         \A i \in S : \E k \in 1..n : s[k] = i,
         \A k \in 1..n : s[k] \in Nat,
         \A k, l \in 1..n : k < l => s[k] < s[l]
  PROVE  /\ Cardinality(S) = n
         /\ DOMAIN InOrder(S) = 1..n
         /\ \A k \in 1..n : InOrder(S)[k] = s[k]
<1>1. IsFiniteSet(S) /\ Cardinality(S) = n
  <2>1. S = {s[k] : k \in 1..n}
    OBVIOUS
  <2> QED BY <2>1, CountOfListed
<1>2. DOMAIN InOrder(S) = 1..n
  BY <1>1 DEF InOrder
<1>3. /\ \A i \in S : i \in Nat
      /\ \A k \in 1..n : s[k] \in S
      /\ \A i \in S : (\E k \in 1..n : s[k] = i) \/ (\A k \in 1..n : s[k] < i)
  OBVIOUS
<1>4. \A k \in 1..n : k \in DOMAIN InOrder(S) /\ InOrder(S)[k] = s[k]
  BY <1>1, <1>3, ListedInOrder
<1> QED BY <1>1, <1>2, <1>4

-----------------------------------------------------------------------------
(* What a message keeps                                                     *)

\* Each parameter of the camera's calibration is found again in its place.
LEMMA CalibrationSurvives ==
  DecodeCalibration(EncodeCalibration(DeviceCalibration)) = DeviceCalibration
<1> DEFINE D == {"fx", "fy", "cx", "cy", "width", "height",
                 "k1", "k2", "p1", "p2", "k3", "k4", "k5", "k6"}
           c == DeviceCalibration
           m == EncodeCalibration(c)
<1>1. DOMAIN Distortion = 1..8
  BY DEF Distortion
<1>2. {Distortion[i] : i \in 1..8} = {"k1", "k2", "p1", "p2", "k3", "k4", "k5", "k6"}
  BY DEF Distortion
<1>3. c = [p \in D |-> p]
  BY <1>1, <1>2 DEF DeviceCalibration
<1> HIDE DEF c
<1>4. /\ m.schema = "CameraCalibration"
      /\ m.k = <<"fx", "0", "cx", "0", "fy", "cy", "0", "0", "1">>
      /\ m.width = "width" /\ m.height = "height"
  BY <1>3 DEF EncodeCalibration
<1>5. m.d = [i \in 1..8 |-> c[Distortion[i]]]
  BY <1>1 DEF EncodeCalibration
<1>6. \A i \in 1..8 : c[Distortion[i]] = Distortion[i]
  BY <1>2, <1>3
<1>7. /\ Len(m.d) = 8
      /\ \A i \in 1..8 : m.d[i] = Distortion[i]
  BY <1>5, <1>6
<1> HIDE DEF m
<1>8. DecodeCalibration(m)
        = [fx |-> "fx", fy |-> "fy", cx |-> "cx", cy |-> "cy",
           width |-> "width", height |-> "height",
           k1 |-> "k1", k2 |-> "k2", p1 |-> "p1", p2 |-> "p2",
           k3 |-> "k3", k4 |-> "k4", k5 |-> "k5", k6 |-> "k6"]
  <2>1. Len(m.k) = 9 /\ m.k[1] = "fx" /\ m.k[5] = "fy" /\ m.k[3] = "cx" /\ m.k[6] = "cy"
    BY <1>4
  <2>2. /\ m.d[1] = "k1" /\ m.d[2] = "k2" /\ m.d[3] = "p1" /\ m.d[4] = "p2"
        /\ m.d[5] = "k3" /\ m.d[6] = "k4" /\ m.d[7] = "k5" /\ m.d[8] = "k6"
    BY <1>7 DEF Distortion
  <2> QED BY <1>4, <1>7, <2>1, <2>2 DEF DecodeCalibration
<1>9. [fx |-> "fx", fy |-> "fy", cx |-> "cx", cy |-> "cy",
           width |-> "width", height |-> "height",
           k1 |-> "k1", k2 |-> "k2", p1 |-> "p1", p2 |-> "p2",
           k3 |-> "k3", k4 |-> "k4", k5 |-> "k5", k6 |-> "k6"] = c
  BY <1>3
<1> QED BY <1>8, <1>9 DEF m, c

\* A raw image fits its header: its sides are in an int's range.
LEMMA OwnHeaderFits ==
  /\ ToInt(Cols) > 0 /\ ToInt(Rows) > 0
  /\ 3 * Cols * Rows >= (3 * Cols) * Rows
<1>1. Cols \in Nat \ {0} /\ Rows \in Nat \ {0} /\ IntLimit \in Nat /\ 3 * Cols * Rows < IntLimit
  BY RecordingFileAssumption
<1>2. 3 * Cols * Rows >= Cols /\ 3 * Cols * Rows >= Rows
  BY <1>1
<1>3. Cols < IntLimit /\ Rows < IntLimit
  BY <1>1, <1>2
<1> QED BY <1>1, <1>3 DEF ToInt

\* An image that the writer encodes is decoded to itself, with either codec.
LEMMA ImageSurvives ==
  ASSUME codec \in Codecs, NEW image \in Nat
  PROVE  DecodeFrame(codec, EncodeFrame(image)) = image
<1> DEFINE m == EncodeFrame(image)
<1>1. CASE codec = "jpeg"
  <2>1. m = [schema |-> "CompressedImage", pixels |-> image]
    BY <1>1 DEF EncodeFrame
  <2>2. m.schema = "CompressedImage" /\ m.pixels = image
    BY <2>1
  <2> QED BY <1>1, <2>2 DEF DecodeFrame
<1>2. CASE codec = "raw_bgr8"
  <2>1. m = [schema |-> "RawImage", encoding |-> "bgr8", width |-> Cols, height |-> Rows,
             step |-> 3 * Cols, size |-> 3 * Cols * Rows, pixels |-> image]
    BY <1>2 DEF EncodeFrame
  <2>2. /\ m.schema = "RawImage" /\ m.pixels = image /\ m.encoding = "bgr8"
        /\ m.width = Cols /\ m.height = Rows
        /\ m.step = 3 * Cols /\ m.size = 3 * Cols * Rows
    BY <2>1
  <2>3. 3 * Cols \in Int /\ 3 * Cols >= 3 * Cols
    BY RecordingFileAssumption
  <2> HIDE DEF m
  <2>4. RawFits(m)
    BY <2>2, <2>3, OwnHeaderFits DEF RawFits
  <2> QED BY <1>2, <2>2, <2>4 DEF DecodeFrame, m
<1> QED BY <1>1, <1>2 DEF Codecs

-----------------------------------------------------------------------------
(* The inductive invariant                                                  *)

Payloads ==
    {EncodeCalibration(DeviceCalibration)}
    \cup [schema : {"CompressedImage"}, pixels : Nat]
    \cup [schema : {"RawImage"}, encoding : {"bgr8"}, width : Nat, height : Nat,
          step : Nat, size : Nat, pixels : Nat]

AnyMessage == [topic : {"calibration", "image"}, payload : Payloads]

RecordingTypeOK ==
    /\ codec \in Codecs \cup {""}
    /\ writing \in BOOLEAN /\ calibrated \in BOOLEAN /\ finalized \in BOOLEAN
    /\ chunk \in Seq(AnyMessage) /\ stored \in Seq(AnyMessage)
    /\ lastChunk \in 0..Len(stored)
    /\ images \in Nat /\ accepted \in Seq(Nat)

\* What the writer handed to the library, and how much of it.
Sent(k) == IF k = 1 THEN [topic |-> "calibration",
                          payload |-> EncodeCalibration(DeviceCalibration)]
           ELSE ImageMessage(accepted[k - 1])

SentLength == IF calibrated THEN Len(accepted) + 1 ELSE 0

Gathered == stored \o chunk

\* The library has all of it until the process is killed, and a beginning of it then.
Gathers ==
    /\ ~calibrated => accepted = <<>>
    /\ Len(Gathered) <= SentLength
    /\ writing \/ finalized => Len(Gathered) = SentLength
    /\ \A k \in 1..Len(Gathered) : Gathered[k] = Sent(k)

\* A file that is not written to has nothing left in a chunk, one that is has no
\* summary, and where there is no file nothing is stored.
Closes ==
    /\ ~writing => chunk = <<>>
    /\ writing => ~finalized
    /\ codec = "" => ~writing /\ ~finalized /\ stored = <<>>

\* What was read is what the file holds, or another program's file.
Reads ==
    \/ readBack = NotRead
    \/ ~writing /\ codec # "" /\ readBack = Read(OwnFile)
    \/ \E f \in ForeignFiles : readBack = Read(f)

RecordingInv == RecordingTypeOK /\ Gathers /\ Closes /\ (writing => readBack = NotRead) /\ Reads

\* What the writer makes of an image or of its calibration is a message.
LEMMA MessageTypes ==
  /\ [topic |-> "calibration", payload |-> EncodeCalibration(DeviceCalibration)] \in AnyMessage
  /\ \A i \in Nat : ImageMessage(i) \in AnyMessage
  /\ CalibrationMessages \in Seq(AnyMessage)
<1>1. [topic |-> "calibration", payload |-> EncodeCalibration(DeviceCalibration)] \in AnyMessage
  BY DEF AnyMessage, Payloads
<1>2. ASSUME NEW i \in Nat PROVE EncodeFrame(i) \in Payloads
  <2>1. Cols \in Nat /\ Rows \in Nat /\ 3 * Cols \in Nat /\ 3 * Cols * Rows \in Nat
    BY RecordingFileAssumption
  <2>2. [schema |-> "CompressedImage", pixels |-> i]
          \in [schema : {"CompressedImage"}, pixels : Nat]
    OBVIOUS
  <2>3. [schema |-> "RawImage", encoding |-> "bgr8", width |-> Cols, height |-> Rows,
         step |-> 3 * Cols, size |-> 3 * Cols * Rows, pixels |-> i]
          \in [schema : {"RawImage"}, encoding : {"bgr8"}, width : Nat, height : Nat,
               step : Nat, size : Nat, pixels : Nat]
    BY <2>1
  <2>4. \/ EncodeFrame(i) = [schema |-> "CompressedImage", pixels |-> i]
        \/ EncodeFrame(i) = [schema |-> "RawImage", encoding |-> "bgr8", width |-> Cols,
               height |-> Rows, step |-> 3 * Cols, size |-> 3 * Cols * Rows, pixels |-> i]
    BY DEF EncodeFrame
  <2> QED BY <2>2, <2>3, <2>4 DEF Payloads
<1>3. \A i \in Nat : ImageMessage(i) \in AnyMessage
  BY <1>2 DEF ImageMessage, AnyMessage
<1>4. CalibrationMessages \in Seq(AnyMessage)
  BY <1>1 DEF CalibrationMessages
<1> QED BY <1>1, <1>3, <1>4

\* It does not matter in which order messages are put behind one another.
LEMMA Associates ==
  ASSUME NEW a \in Seq(AnyMessage), NEW b \in Seq(AnyMessage), NEW c \in Seq(AnyMessage)
  PROVE  a \o (b \o c) = (a \o b) \o c
<1>1. a \o (b \o c) \in Seq(AnyMessage) /\ (a \o b) \o c \in Seq(AnyMessage)
  OBVIOUS
<1>2. Len(a \o (b \o c)) = Len((a \o b) \o c)
  OBVIOUS
<1>3. ASSUME NEW i \in 1..Len((a \o b) \o c)
      PROVE  (a \o (b \o c))[i] = ((a \o b) \o c)[i]
  OBVIOUS
<1> QED BY ONLY <1>1, <1>2, <1>3, SeqEqual

\* Whether a chunk becomes full or not, what the library has grows by the messages.
LEMMA StoreAppends ==
  ASSUME RecordingTypeOK, NEW m \in Seq(AnyMessage), Store(m)
  PROVE  /\ chunk' \in Seq(AnyMessage) /\ stored' \in Seq(AnyMessage)
         /\ lastChunk' \in 0..Len(stored')
         /\ Gathered' = Gathered \o m
<1>1. chunk \in Seq(AnyMessage) /\ stored \in Seq(AnyMessage) /\ lastChunk \in 0..Len(stored)
  BY DEF RecordingTypeOK
<1>2. CASE chunk' = chunk \o m /\ UNCHANGED <<stored, lastChunk>>
  <2>1. stored \o (chunk \o m) = (stored \o chunk) \o m
    BY <1>1, Associates
  <2>2. chunk \o m \in Seq(AnyMessage)
    BY <1>1, ConcatProperties
  <2> QED BY <1>1, <1>2, <2>1, <2>2 DEF Gathered
<1>3. CASE chunk' = <<>> /\ stored' = stored \o chunk \o m /\ lastChunk' = Len(stored)
  <2>1. stored \o chunk \in Seq(AnyMessage) /\ Len(stored \o chunk) = Len(stored) + Len(chunk)
    BY <1>1, ConcatProperties
  <2>2. /\ stored' \in Seq(AnyMessage)
        /\ Len(stored') = Len(stored) + Len(chunk) + Len(m)
    BY <1>3, <2>1, ConcatProperties
  <2>3. Len(stored) \in Nat /\ Len(chunk) \in Nat /\ Len(m) \in Nat
    BY <1>1, LenProperties
  <2>4. lastChunk' \in 0..Len(stored')
    BY <1>3, <2>2, <2>3
  <2>5. Gathered' = stored'
    BY <1>3, <2>2, ConcatEmptySeq DEF Gathered
  <2>6. chunk' \in Seq(AnyMessage)
    BY <1>3, EmptySeq
  <2> QED BY <1>3, <2>2, <2>4, <2>5, <2>6 DEF Gathered
<1> QED BY <1>2, <1>3 DEF Store

\* The lengths of what was handed over and of what the library has.
LEMMA GatheredTypes ==
  ASSUME RecordingTypeOK
  PROVE  /\ Gathered \in Seq(AnyMessage) /\ Len(Gathered) = Len(stored) + Len(chunk)
         /\ Len(Gathered) \in Nat /\ Len(stored) \in Nat /\ Len(chunk) \in Nat
         /\ Len(accepted) \in Nat /\ SentLength \in Nat
         /\ \A k \in 1..Len(stored) : Gathered[k] = stored[k]
<1>1. chunk \in Seq(AnyMessage) /\ stored \in Seq(AnyMessage) /\ accepted \in Seq(Nat)
  BY DEF RecordingTypeOK
<1>2. Len(stored) \in Nat /\ Len(chunk) \in Nat /\ Len(accepted) \in Nat
  BY <1>1, LenProperties
<1>3. /\ Gathered \in Seq(AnyMessage) /\ Len(Gathered) = Len(stored) + Len(chunk)
      /\ \A k \in 1..Len(stored) : Gathered[k] = stored[k]
  BY <1>1, <1>2, ConcatProperties DEF Gathered
<1> QED BY <1>2, <1>3 DEF SentLength

\* The library goes on having all of it when what it is given is what comes next.
LEMMA GatherGrows ==
  ASSUME RecordingTypeOK, Gathers, writing,
         NEW n \in Nat, n = SentLength,
         NEW m \in Seq(AnyMessage), Gathered' = Gathered \o m,
         SentLength' = n + Len(m),
         \A k \in 1..n : Sent(k)' = Sent(k),
         \A j \in 1..Len(m) : Sent(n + j)' = m[j]
  PROVE  /\ Len(Gathered') = SentLength'
         /\ \A k \in 1..Len(Gathered') : Gathered'[k] = Sent(k)'
<1>1. /\ Gathered \in Seq(AnyMessage) /\ Len(Gathered) = n
      /\ \A k \in 1..n : Gathered[k] = Sent(k)
  BY GatheredTypes DEF Gathers
<1>2. Len(m) \in Nat
  BY LenProperties
<1>3. /\ Len(Gathered') = n + Len(m)
      /\ \A k \in 1..(n + Len(m)) :
            Gathered'[k] = IF k <= n THEN Gathered[k] ELSE m[k - n]
  BY <1>1, <1>2, ConcatProperties
<1>4. ASSUME NEW k \in 1..(n + Len(m)) PROVE Gathered'[k] = Sent(k)'
  <2>1. CASE k <= n
    <3>1. k \in 1..n
      BY <2>1
    <3> QED BY <1>1, <1>3, <2>1, <3>1
  <2>2. CASE ~(k <= n)
    <3>1. k - n \in 1..Len(m) /\ n + (k - n) = k
      BY <1>2, <2>2
    <3>2. Gathered'[k] = m[k - n]
      BY <1>3, <2>2
    <3>3. Sent(n + (k - n))' = m[k - n]
      BY <3>1
    <3> QED BY <3>1, <3>2, <3>3
  <2> QED BY <2>1, <2>2
<1> QED BY <1>3, <1>4

\* What was handed over stays as it was when an image is added to those accepted.
LEMMA SentStays ==
  ASSUME RecordingTypeOK, codec' = codec,
         \/ UNCHANGED accepted
         \/ \E image \in Nat : accepted' = Append(accepted, image)
  PROVE  \A k \in 1..(Len(accepted) + 1) : Sent(k)' = Sent(k)
<1>1. accepted \in Seq(Nat) /\ Len(accepted) \in Nat
  BY LenProperties DEF RecordingTypeOK
<1>2. ASSUME NEW k \in 1..(Len(accepted) + 1) PROVE Sent(k)' = Sent(k)
  <2>1. CASE k = 1
    BY <2>1 DEF Sent
  <2>2. CASE k # 1
    <3>1. k - 1 \in 1..Len(accepted)
      BY <1>1, <2>2
    <3>2. ASSUME NEW image \in Nat, accepted' = Append(accepted, image)
          PROVE  accepted'[k - 1] = accepted[k - 1]
      <4>1. Append(accepted, image)[k - 1] = accepted[k - 1]
        BY ONLY <1>1, <3>1, <3>2, AppendProperties
      <4> QED BY <3>2, <4>1
    <3>3. UNCHANGED accepted => accepted'[k - 1] = accepted[k - 1]
      OBVIOUS
    <3>4. accepted'[k - 1] = accepted[k - 1]
      BY <3>2, <3>3
    <3> QED BY <2>2, <3>4 DEF Sent, ImageMessage, EncodeFrame
  <2> QED BY <2>1, <2>2
<1> QED BY <1>2

\* An image that is written is the next thing the library has, after the calibration.
LEMMA WriteSucceedsKeeps ==
  ASSUME RecordingInv, NEW image \in Nat, WriteSucceeds(image)
  PROVE  RecordingInv'
<1> DEFINE m == Append(CalibrationMessages, ImageMessage(image))
<1>1. RecordingTypeOK /\ Gathers /\ Closes /\ readBack = NotRead /\ writing
  BY DEF RecordingInv, WriteSucceeds
<1> PICK n \in Nat : n = SentLength
  BY <1>1, GatheredTypes
<1>2. /\ Store(m) /\ writing' = TRUE /\ images' = image /\ calibrated' = TRUE
      /\ accepted' = Append(accepted, image)
      /\ UNCHANGED <<codec, finalized, readBack>>
  BY <1>1, Zenon DEF WriteSucceeds, RecordingTypeOK
<1>3. /\ m \in Seq(AnyMessage)
      /\ Len(m) = Len(CalibrationMessages) + 1
      /\ \A k \in 1..Len(CalibrationMessages) : m[k] = CalibrationMessages[k]
      /\ m[Len(CalibrationMessages) + 1] = ImageMessage(image)
  BY MessageTypes, AppendProperties
<1>4. accepted \in Seq(Nat) /\ Len(accepted) \in Nat
  BY <1>1, LenProperties DEF RecordingTypeOK
<1>5. /\ accepted' \in Seq(Nat) /\ Len(accepted') = Len(accepted) + 1
      /\ accepted'[Len(accepted) + 1] = image
  BY <1>2, <1>4, AppendProperties
<1> HIDE DEF m
<1>6. /\ chunk' \in Seq(AnyMessage) /\ stored' \in Seq(AnyMessage)
      /\ lastChunk' \in 0..Len(stored')
      /\ Gathered' = Gathered \o m
  BY <1>1, <1>2, <1>3, StoreAppends
<1>7. RecordingTypeOK'
  BY <1>1, <1>2, <1>5, <1>6, Zenon DEF RecordingTypeOK
<1>8. \A k \in 1..(Len(accepted) + 1) : Sent(k)' = Sent(k)
  BY <1>1, <1>2, SentStays
<1>9. \A k \in Nat : k = Len(accepted) + 2 => Sent(k)' = ImageMessage(image)
  BY <1>2, <1>4, <1>5 DEF Sent, ImageMessage, EncodeFrame
<1>10. /\ SentLength' = n + Len(m)
       /\ \A k \in 1..n : Sent(k)' = Sent(k)
       /\ \A j \in 1..Len(m) : Sent(n + j)' = m[j]
  <2>1. CASE calibrated
    <3>1. CalibrationMessages = <<>> /\ Len(CalibrationMessages) = 0 /\ n = Len(accepted) + 1
      BY <1>4, <2>1 DEF CalibrationMessages, SentLength
    <3>2. Len(m) = 1 /\ m[1] = ImageMessage(image) /\ SentLength' = Len(accepted) + 2
      BY <1>2, <1>3, <1>4, <1>5, <3>1 DEF SentLength
    <3>3. \A j \in 1..1 : j = 1
      OBVIOUS
    <3>4. n + 1 \in Nat /\ n + 1 = Len(accepted) + 2
      BY <1>4, <3>1
    <3>5. Sent(n + 1)' = m[1]
      BY <1>9, <3>2, <3>4
    <3>6. \A k \in 1..n : Sent(k)' = Sent(k)
      BY <1>8, <3>1
    <3>7. SentLength' = n + Len(m)
      BY <1>4, <3>1, <3>2
    <3> QED BY <3>2, <3>3, <3>5, <3>6, <3>7
  <2>2. CASE ~calibrated
    <3>1. /\ CalibrationMessages = <<[topic |-> "calibration",
                                      payload |-> EncodeCalibration(DeviceCalibration)]>>
          /\ n = 0 /\ Len(accepted) = 0
      BY <1>1, <2>2 DEF CalibrationMessages, SentLength, Gathers
    <3>2. Len(CalibrationMessages) = 1 /\ CalibrationMessages[1] = Sent(1)
      BY <3>1 DEF Sent
    <3>3. /\ Len(m) = 2 /\ m[1] = Sent(1) /\ m[2] = ImageMessage(image)
          /\ SentLength' = 2
      BY <1>2, <1>3, <1>5, <3>1, <3>2 DEF SentLength
    <3>4. Sent(1)' = Sent(1) /\ Sent(2)' = ImageMessage(image)
      <4>1. 1 \in 1..(Len(accepted) + 1) /\ 2 \in Nat /\ 2 = Len(accepted) + 2
        BY <3>1
      <4> QED BY <1>8, <1>9, <4>1
    <3>5. \A j \in 1..Len(m) : j = 1 \/ j = 2
      BY <3>3
    <3>6. \A j \in 1..Len(m) : Sent(n + j)' = m[j]
      BY <3>1, <3>3, <3>4, <3>5
    <3>7. \A k \in 1..n : Sent(k)' = Sent(k)
      BY <3>1
    <3>8. SentLength' = n + Len(m)
      BY <3>1, <3>3
    <3> QED BY <3>6, <3>7, <3>8
  <2> QED BY <2>1, <2>2
<1>11. /\ Len(Gathered') = SentLength'
       /\ \A k \in 1..Len(Gathered') : Gathered'[k] = Sent(k)'
  BY <1>1, <1>3, <1>6, <1>10, GatherGrows
<1>12. SentLength' \in Nat
  BY <1>2, <1>4, <1>5 DEF SentLength
<1>13. Gathers'
  BY <1>2, <1>11, <1>12 DEF Gathers
<1>14. Closes' /\ (writing => readBack = NotRead)' /\ Reads'
  BY <1>1, <1>2, Zenon DEF Closes, Reads
<1> QED BY <1>7, <1>13, <1>14 DEF RecordingInv

\* An image that is refused may leave the calibration behind, and nothing else.
LEMMA WriteRefusedKeeps ==
  ASSUME RecordingInv, NEW image \in Nat, WriteRefused(image)
  PROVE  RecordingInv'
<1>1. RecordingTypeOK /\ Gathers /\ Closes /\ readBack = NotRead /\ writing
  BY DEF RecordingInv, WriteRefused
<1> PICK n \in Nat : n = SentLength
  BY <1>1, GatheredTypes
<1>2. /\ images' = image
      /\ UNCHANGED <<codec, writing, finalized, accepted, readBack>>
      /\ \/ calibrated = FALSE /\ UNCHANGED <<calibrated, containerVars>>
         \/ Store(CalibrationMessages) /\ calibrated' = TRUE
  BY DEF WriteRefused
<1>3. Closes' /\ (writing => readBack = NotRead)' /\ Reads'
  BY <1>1, <1>2, Zenon DEF Closes, Reads
<1>4. CASE UNCHANGED <<calibrated, containerVars>>
  <2>1. RecordingTypeOK'
    BY <1>1, <1>2, <1>4 DEF RecordingTypeOK, containerVars
  <2>2. Gathers'
    BY <1>1, <1>2, <1>4
      DEF Gathers, Gathered, SentLength, Sent, ImageMessage, EncodeFrame, containerVars
  <2> QED BY <1>3, <2>1, <2>2 DEF RecordingInv
<1>5. CASE Store(CalibrationMessages) /\ calibrated' = TRUE
  <2> DEFINE m == CalibrationMessages
  <2>1. m \in Seq(AnyMessage)
    BY MessageTypes
  <2>2. /\ chunk' \in Seq(AnyMessage) /\ stored' \in Seq(AnyMessage)
        /\ lastChunk' \in 0..Len(stored')
        /\ Gathered' = Gathered \o m
    BY <1>1, <1>5, <2>1, StoreAppends
  <2>3. RecordingTypeOK'
    BY <1>1, <1>2, <1>5, <2>2, Zenon DEF RecordingTypeOK
  <2>4. \A k \in 1..(Len(accepted) + 1) : Sent(k)' = Sent(k)
    BY <1>1, <1>2, SentStays
  <2>5. /\ SentLength' = n + Len(m)
        /\ \A k \in 1..n : Sent(k)' = Sent(k)
        /\ \A j \in 1..Len(m) : Sent(n + j)' = m[j]
    <3>1. accepted \in Seq(Nat) /\ Len(accepted) \in Nat
      BY <1>1, LenProperties DEF RecordingTypeOK
    <3>2. CASE calibrated
      <4>1. m = <<>> /\ Len(m) = 0 /\ n = Len(accepted) + 1
        BY <3>1, <3>2 DEF CalibrationMessages, SentLength
      <4>2. SentLength' = n + Len(m)
        BY <1>2, <1>5, <3>1, <4>1 DEF SentLength
      <4>3. \A k \in 1..n : Sent(k)' = Sent(k)
        BY <2>4, <4>1
      <4> HIDE DEF m
      <4> QED BY <4>1, <4>2, <4>3
    <3>3. CASE ~calibrated
      <4>1. /\ m = <<[topic |-> "calibration", payload |-> EncodeCalibration(DeviceCalibration)]>>
            /\ n = 0 /\ Len(accepted) = 0
        BY <1>1, <3>3 DEF CalibrationMessages, SentLength, Gathers
      <4>2. Len(m) = 1 /\ m[1] = Sent(1)
        BY <4>1 DEF Sent
      <4>3. SentLength' = 1
        BY <1>2, <1>5, <4>1 DEF SentLength
      <4>4. 1 \in 1..(Len(accepted) + 1) /\ n + 1 = 1 /\ \A j \in 1..1 : j = 1
        BY <4>1
      <4>5. Sent(1)' = Sent(1)
        BY <2>4, <4>4
      <4> HIDE DEF m
      <4>6. \A j \in 1..Len(m) : Sent(n + j)' = m[j]
        BY <4>2, <4>4, <4>5
      <4>7. \A k \in 1..n : Sent(k)' = Sent(k)
        BY <4>1
      <4> QED BY <4>1, <4>2, <4>3, <4>6, <4>7
    <3> QED BY <3>2, <3>3
  <2>6. /\ Len(Gathered') = SentLength'
        /\ \A k \in 1..Len(Gathered') : Gathered'[k] = Sent(k)'
    BY <1>1, <2>1, <2>2, <2>5, GatherGrows
  <2>7. SentLength' \in Nat
    BY <2>1, <2>5, LenProperties
  <2>8. Gathers'
    BY <1>2, <1>5, <2>6, <2>7 DEF Gathers
  <2> QED BY <1>3, <2>3, <2>8 DEF RecordingInv
<1> QED BY <1>2, <1>4, <1>5

\* A new file has nothing yet.
LEMMA CreateFileKeeps ==
  ASSUME NEW c \in Codecs, CreateFile(c)
  PROVE  RecordingInv'
<1>1. /\ codec' = c /\ writing' = TRUE /\ calibrated' = FALSE
      /\ chunk' = <<>> /\ stored' = <<>> /\ lastChunk' = 0 /\ finalized' = FALSE
      /\ images' = 0 /\ accepted' = <<>> /\ readBack' = NotRead
  BY DEF CreateFile
<1>2. Len(<<>>) = 0 /\ <<>> \in Seq(AnyMessage) /\ <<>> \in Seq(Nat)
  BY EmptySeq
<1>3. RecordingTypeOK'
  <2>1. codec' \in Codecs \cup {""} /\ writing' \in BOOLEAN /\ calibrated' \in BOOLEAN
        /\ finalized' \in BOOLEAN
    BY <1>1
  <2>2. chunk' \in Seq(AnyMessage) /\ stored' \in Seq(AnyMessage) /\ accepted' \in Seq(Nat)
    BY <1>1, <1>2
  <2>3. images' \in Nat
    BY <1>1
  <2>4. lastChunk' \in 0..Len(stored')
    BY <1>1, <1>2
  <2> QED BY <2>1, <2>2, <2>3, <2>4, Zenon DEF RecordingTypeOK
<1>4. Gathered' = <<>> /\ Len(Gathered') = 0
  <2>1. <<>> \o <<>> = <<>>
    BY <1>2, ConcatEmptySeq
  <2> QED BY <1>1, <1>2, <2>1 DEF Gathered
<1>5. SentLength' = 0
  BY <1>1 DEF SentLength
<1>6. \A k : k \notin 1..0
  OBVIOUS
<1>7. Gathers'
  BY <1>1, <1>4, <1>5, <1>6 DEF Gathers
<1>8. c # ""
  BY DEF Codecs
<1>9. Closes' /\ (writing => readBack = NotRead)' /\ Reads'
  BY <1>1, <1>8 DEF Closes, Reads
<1> QED BY <1>3, <1>7, <1>9 DEF RecordingInv

\* Closing the file puts in it what the library has.
LEMMA FinishFileKeeps ==
  ASSUME RecordingInv, FinishFile
  PROVE  RecordingInv'
<1>1. RecordingTypeOK /\ Gathers /\ Closes /\ readBack = NotRead /\ writing
  BY DEF RecordingInv, FinishFile
<1>2. /\ chunk' = <<>> /\ stored' = Gathered
      /\ lastChunk' = IF chunk = <<>> THEN lastChunk ELSE Len(stored)
      /\ finalized' = TRUE /\ writing' = FALSE
      /\ UNCHANGED <<codec, calibrated, images, accepted, readBack>>
  BY DEF FinishFile, Gathered
<1>3. /\ Gathered \in Seq(AnyMessage) /\ Len(Gathered) = Len(stored) + Len(chunk)
      /\ Len(stored) \in Nat /\ Len(chunk) \in Nat
  BY <1>1, GatheredTypes
<1>4. lastChunk' \in 0..Len(stored')
  <2>1. lastChunk \in 0..Len(stored)
    BY <1>1 DEF RecordingTypeOK
  <2>2. Len(stored') = Len(stored) + Len(chunk)
    BY <1>2, <1>3
  <2>3. lastChunk' = lastChunk \/ lastChunk' = Len(stored)
    BY <1>2
  <2> QED BY <1>3, <2>1, <2>2, <2>3
<1>5. <<>> \in Seq(AnyMessage)
  BY EmptySeq
<1>6. RecordingTypeOK'
  BY <1>1, <1>2, <1>3, <1>4, <1>5, Zenon DEF RecordingTypeOK
<1>7. Gathered' = Gathered
  BY <1>2, <1>3, ConcatEmptySeq DEF Gathered
<1>8. SentLength' = SentLength /\ \A k : Sent(k)' = Sent(k)
  BY <1>2 DEF SentLength, Sent, ImageMessage, EncodeFrame
<1>9. Gathers'
  BY <1>1, <1>2, <1>7, <1>8 DEF Gathers
<1>10. Closes' /\ (writing => readBack = NotRead)' /\ Reads'
  <2>1. codec # ""
    BY <1>1 DEF Closes
  <2> QED BY <1>1, <1>2, <2>1 DEF Closes, Reads
<1> QED BY <1>6, <1>9, <1>10 DEF RecordingInv

\* A process that is killed leaves a beginning of what the library had.
LEMMA KilledKeeps ==
  ASSUME RecordingInv, Killed
  PROVE  RecordingInv'
<1>1. RecordingTypeOK /\ Gathers /\ Closes /\ readBack = NotRead /\ writing
  BY DEF RecordingInv, Killed
<1>2. /\ chunk' = <<>> /\ writing' = FALSE
      /\ stored' = stored \/ stored' = SubSeq(stored, 1, lastChunk)
      /\ UNCHANGED <<codec, calibrated, lastChunk, finalized, images, accepted, readBack>>
  BY DEF Killed
<1>3. stored \in Seq(AnyMessage) /\ Len(stored) \in Nat /\ lastChunk \in 0..Len(stored)
  BY <1>1, LenProperties DEF RecordingTypeOK
<1>4. /\ stored' \in Seq(AnyMessage)
      /\ lastChunk <= Len(stored') /\ Len(stored') <= Len(stored) /\ Len(stored') \in Nat
      /\ \A k \in 1..Len(stored') : stored'[k] = stored[k]
  <2>1. CASE stored' = stored
    BY <1>3, <2>1
  <2>2. CASE stored' = SubSeq(stored, 1, lastChunk)
    BY <1>3, <2>2, SubSeqProperties
  <2> QED BY <1>2, <2>1, <2>2
<1>5. lastChunk' \in 0..Len(stored')
  BY <1>2, <1>3, <1>4
<1>6. <<>> \in Seq(AnyMessage)
  BY EmptySeq
<1>7. RecordingTypeOK'
  BY <1>1, <1>2, <1>4, <1>5, <1>6, Zenon DEF RecordingTypeOK
<1>8. Gathered' = stored'
  BY <1>2, <1>4, ConcatEmptySeq DEF Gathered
<1>9. SentLength' = SentLength /\ \A k : Sent(k)' = Sent(k)
  BY <1>2 DEF SentLength, Sent, ImageMessage, EncodeFrame
<1>10. /\ Len(Gathered) = Len(stored) + Len(chunk) /\ Len(chunk) \in Nat
       /\ SentLength \in Nat
       /\ \A k \in 1..Len(stored) : Gathered[k] = stored[k]
  BY <1>1, GatheredTypes
<1>11. \A k \in 1..Len(Gathered') : Gathered'[k] = Sent(k)'
  <2>1. \A k \in 1..Len(stored') : k \in 1..Len(stored) /\ k \in 1..Len(Gathered)
    BY <1>3, <1>4, <1>10
  <2> QED BY <1>1, <1>4, <1>8, <1>9, <1>10, <2>1 DEF Gathers
<1>12. Len(Gathered') <= SentLength'
  BY <1>1, <1>3, <1>4, <1>8, <1>9, <1>10 DEF Gathers
<1>13. Gathers'
  <2>1. ~finalized' /\ ~writing'
    BY <1>1, <1>2 DEF Closes
  <2> QED BY <1>1, <1>2, <1>11, <1>12, <2>1 DEF Gathers
<1>14. Closes' /\ (writing => readBack = NotRead)' /\ Reads'
  BY <1>1, <1>2 DEF Closes, Reads
<1> QED BY <1>7, <1>13, <1>14 DEF RecordingInv

\* A reader changes nothing but what was read.
LEMMA ReadingKeeps ==
  ASSUME RecordingInv, ReadFile \/ ReadForeignFile
  PROVE  RecordingInv'
<1>1. UNCHANGED <<codec, writing, calibrated, chunk, stored, lastChunk,
                  finalized, images, accepted>>
  BY DEF ReadFile, ReadForeignFile, containerVars
<1>2. RecordingTypeOK' /\ Gathers' /\ Closes'
  BY <1>1
    DEF RecordingInv, RecordingTypeOK, Gathers, Gathered, SentLength, Sent, ImageMessage,
        EncodeFrame, Closes
<1>3. CASE ReadFile
  <2>1. ~writing /\ codec # "" /\ readBack' = Read(OwnFile)
    BY <1>3 DEF ReadFile
  <2>2. OwnFile' = OwnFile
    BY <1>1 DEF OwnFile
  <2>3. readBack' = Read(OwnFile')
    BY <2>1, <2>2
  <2>4. Reads' /\ ~writing'
    BY <1>1, <2>1, <2>3 DEF Reads
  <2> QED BY <1>2, <2>4 DEF RecordingInv
<1>4. CASE ReadForeignFile
  <2>1. Reads'
    BY <1>4 DEF Reads, ReadForeignFile
  <2>2. ~writing'
    <3>1. codec = "" /\ Closes
      BY <1>4, Zenon DEF ReadForeignFile, RecordingInv
    <3> QED BY <1>1, <3>1 DEF Closes
  <2> QED BY <1>2, <2>1, <2>2 DEF RecordingInv
<1> QED BY <1>3, <1>4

\* Nothing changes the recording while its variables stay.
LEMMA RecordingStutters ==
  ASSUME RecordingInv, UNCHANGED recordingVars
  PROVE  RecordingInv'
<1>1. UNCHANGED <<codec, writing, calibrated, chunk, stored, lastChunk,
                  finalized, images, accepted, readBack>>
  BY DEF recordingVars, containerVars
<1>2. RecordingTypeOK' /\ Gathers' /\ Closes' /\ (writing => readBack = NotRead)'
  BY <1>1
    DEF RecordingInv, RecordingTypeOK, Gathers, Gathered, SentLength, Sent, ImageMessage,
        EncodeFrame, Closes
<1>3. OwnFile' = OwnFile
  BY <1>1 DEF OwnFile
<1>4. Reads'
  BY <1>1, <1>3 DEF RecordingInv, Reads
<1> QED BY <1>2, <1>4 DEF RecordingInv

\* There is no file at first.
LEMMA RecordingInitially == RecordingInit => RecordingInv
<1> SUFFICES ASSUME RecordingInit PROVE RecordingInv
  OBVIOUS
<1>1. /\ codec = "" /\ writing = FALSE /\ calibrated = FALSE
      /\ chunk = <<>> /\ stored = <<>> /\ lastChunk = 0 /\ finalized = FALSE
      /\ images = 0 /\ accepted = <<>> /\ readBack = NotRead
  BY DEF RecordingInit
<1>2. Len(<<>>) = 0 /\ <<>> \in Seq(AnyMessage) /\ <<>> \in Seq(Nat)
  BY EmptySeq
<1>3. RecordingTypeOK
  <2>1. codec \in Codecs \cup {""} /\ writing \in BOOLEAN /\ calibrated \in BOOLEAN
        /\ finalized \in BOOLEAN
    BY <1>1
  <2>2. chunk \in Seq(AnyMessage) /\ stored \in Seq(AnyMessage) /\ accepted \in Seq(Nat)
    BY <1>1, <1>2
  <2>3. images \in Nat /\ lastChunk \in 0..Len(stored)
    <3>1. images = 0 /\ lastChunk = 0 /\ Len(stored) = 0
      BY <1>1, <1>2
    <3> QED BY ONLY <3>1
  <2> QED BY <2>1, <2>2, <2>3, Zenon DEF RecordingTypeOK
<1>4. Gathered = <<>> /\ Len(Gathered) = 0
  <2>1. <<>> \o <<>> = <<>>
    BY <1>2, ConcatEmptySeq
  <2> QED BY <1>1, <1>2, <2>1 DEF Gathered
<1>5. SentLength = 0
  BY <1>1 DEF SentLength
<1>6. Gathers
  <2>1. \A k : k \notin 1..0
    OBVIOUS
  <2>2. \A k \in 1..Len(Gathered) : Gathered[k] = Sent(k)
    BY <1>4, <2>1
  <2>3. Len(Gathered) <= SentLength /\ Len(Gathered) = SentLength
    BY <1>4, <1>5
  <2> QED BY <1>1, <2>2, <2>3, Zenon DEF Gathers
<1>7. Closes /\ Reads
  BY <1>1 DEF Closes, Reads
<1> QED BY <1>1, <1>3, <1>6, <1>7 DEF RecordingInv

\* What every step of a recording keeps.
LEMMA RecordingStep == RecordingInv /\ [RecordingNext]_recordingVars => RecordingInv'
<1> SUFFICES ASSUME RecordingInv, [RecordingNext]_recordingVars PROVE RecordingInv'
  OBVIOUS
<1>1. images + 1 \in Nat
  <2>1. images \in Nat
    BY Zenon DEF RecordingInv, RecordingTypeOK
  <2> QED BY <2>1
<1> QED BY <1>1, CreateFileKeeps, WriteSucceedsKeeps, WriteRefusedKeeps, FinishFileKeeps,
           KilledKeeps, ReadingKeeps, RecordingStutters DEF RecordingNext

-----------------------------------------------------------------------------
(* What is read                                                             *)

\* A run of f places behind a, in order.
LEMMA RunInOrder ==
  ASSUME NEW a \in Nat, NEW f \in Nat, NEW D, \A i : i \in D <=> i - a \in 1..f /\ i \in Nat
  PROVE  /\ Cardinality(D) = f
         /\ \A k \in 1..f : InOrder(D)[k] = k + a
<1>1. ASSUME NEW s, \A k \in 1..f : s[k] = k + a
      PROVE  Cardinality(D) = f /\ \A k \in 1..f : InOrder(D)[k] = s[k]
  <2>1. \A i \in D : i - a \in 1..f /\ (i - a) + a = i
    OBVIOUS
  <2>2. \A k \in 1..f : k + a \in D /\ k + a \in Nat
    OBVIOUS
  <2>3. \A k \in 1..f : s[k] \in D
    BY <1>1, <2>2
  <2>4. \A k \in 1..f : s[k] \in Nat
    BY <1>1, <2>2
  <2>5. \A i \in D : \E k \in 1..f : s[k] = i
    BY <1>1, <2>1
  <2>6. \A k, l \in 1..f : k < l => s[k] < s[l]
    BY <1>1
  <2>7. f \in Nat
    OBVIOUS
  <2> QED BY ONLY <2>3, <2>4, <2>5, <2>6, <2>7, AllListedInOrder
<1> DEFINE s == [k \in 1..f |-> k + a]
<1>2. \A k \in 1..f : s[k] = k + a
  OBVIOUS
<1> HIDE DEF s
<1> QED BY <1>1, <1>2

\* The places from the second on, in order.
LEMMA AllButFirst ==
  ASSUME NEW n \in Nat, NEW D, \A i : i \in D <=> i \in 1..n /\ i # 1
  PROVE  LET f == IF n = 0 THEN 0 ELSE n - 1
         IN  /\ Cardinality(D) = f
             /\ \A k \in 1..f : InOrder(D)[k] = k + 1
<1> PICK f \in Nat : f = IF n = 0 THEN 0 ELSE n - 1
  OBVIOUS
<1> PICK a \in Nat : a = 1
  OBVIOUS
<1>1. \A i : i \in D <=> i - a \in 1..f /\ i \in Nat
  OBVIOUS
<1>2. /\ Cardinality(D) = f
      /\ \A k \in 1..f : InOrder(D)[k] = k + a
  BY ONLY <1>1, a \in Nat, f \in Nat, RunInOrder
<1> QED BY <1>2

\* The first place alone, in order.
LEMMA OnlyTheFirst ==
  ASSUME NEW C, \A i : i \in C <=> i = 1
  PROVE  InOrder(C)[1] = 1
<1> PICK f \in Nat : f = 1
  OBVIOUS
<1> PICK a \in Nat : a = 0
  OBVIOUS
<1>1. \A i : i \in C <=> i - a \in 1..f /\ i \in Nat
  OBVIOUS
<1>2. /\ Cardinality(C) = f
      /\ \A k \in 1..f : InOrder(C)[k] = k + a
  BY ONLY <1>1, a \in Nat, f \in Nat, RunInOrder
<1> QED BY <1>2

\* What a reader makes of the writer's file, spelled out.
LEMMA ReadOfOwnFile ==
  ASSUME NEW D,
         D = {i \in {j \in DOMAIN stored : stored[j].topic = "image"} :
                 DecodeFrame(codec, stored[i].payload) # Undecodable},
         NEW C, C = {j \in DOMAIN stored : stored[j].topic = "calibration"}
  PROVE  LET r == Read(OwnFile)
         IN  /\ r.file = OwnFile /\ r.file.own = TRUE
             /\ codec \in Codecs => r.opens = (finalized \/ stored # <<>>)
             /\ C # {} => r.calibration = DecodeCalibration(stored[InOrder(C)[1]].payload)
             /\ DOMAIN r.frames = 1..Cardinality(D)
             /\ \A k \in 1..Cardinality(D) :
                   r.frames[k] = DecodeFrame(codec, stored[InOrder(D)[k]].payload)
<1>1. /\ OwnFile.own = TRUE /\ OwnFile.codec = codec /\ OwnFile.messages = stored
      /\ OwnFile.channels # {} <=> finalized \/ stored # <<>>
  BY DEF OwnFile
<1> HIDE DEF OwnFile
<1>2. Read(OwnFile).file = OwnFile
  BY DEF Read
<1>3. Read(OwnFile).opens = (OwnFile.channels # {} /\ OwnFile.codec \in Codecs)
  BY Zenon DEF Read
<1>4. C # {} =>
        Read(OwnFile).calibration = DecodeCalibration(stored[InOrder(C)[1]].payload)
  BY <1>1 DEF Read
<1>5. Read(OwnFile).frames
        = [k \in 1..Cardinality(D) |-> DecodeFrame(codec, stored[InOrder(D)[k]].payload)]
  BY <1>1 DEF Read
<1> QED BY <1>1, <1>2, <1>3, <1>4, <1>5

\* The file plays the images that were accepted, all of them or the first ones, and an
\* image has the camera's calibration with it.
LEMMA OwnFilePlays ==
  ASSUME RecordingInv, ~writing, codec \in Codecs
  PROVE  LET r == Read(OwnFile)
         IN  /\ r.file.own = TRUE
             /\ r.opens = (finalized \/ stored # <<>>)
             /\ finalized => r.frames = accepted
             /\ \A k \in DOMAIN r.frames :
                   k \in DOMAIN accepted /\ r.frames[k] = accepted[k]
             /\ r.frames # <<>> => r.calibration = DeviceCalibration
<1> DEFINE n == Len(stored)
           D == {i \in {j \in DOMAIN stored : stored[j].topic = "image"} :
                 DecodeFrame(codec, stored[i].payload) # Undecodable}
           C == {j \in DOMAIN stored : stored[j].topic = "calibration"}
           own == Read(OwnFile)
<1>1. RecordingTypeOK /\ Gathers /\ chunk = <<>> /\ codec \in Codecs
  BY Zenon DEF RecordingInv, Closes, RecordingTypeOK
<1>2. /\ stored \in Seq(AnyMessage) /\ n \in Nat /\ DOMAIN stored = 1..n
      /\ accepted \in Seq(Nat) /\ Len(accepted) \in Nat /\ DOMAIN accepted = 1..Len(accepted)
  BY <1>1, LenProperties DEF RecordingTypeOK
<1>3. Gathered = stored
  BY <1>1, <1>2, ConcatEmptySeq DEF Gathered
<1>4. /\ \A k \in 1..n : stored[k] = Sent(k)
      /\ n <= SentLength /\ (finalized => n = SentLength)
  BY <1>1, <1>3 DEF Gathers
<1> HIDE DEF n, D, C, own
<1>5. /\ n # 0 => n <= Len(accepted) + 1
      /\ finalized => n = Len(accepted) + 1 \/ (n = 0 /\ Len(accepted) = 0)
  <2>1. CASE calibrated
    BY <1>2, <1>4, <2>1 DEF SentLength
  <2>2. CASE ~calibrated
    BY <1>1, <1>2, <1>4, <2>2 DEF SentLength, Gathers
  <2> QED BY <2>1, <2>2
<1>6. ASSUME NEW k \in 1..n, k # 1
      PROVE  /\ k - 1 \in 1..Len(accepted)
             /\ stored[k].topic = "image"
             /\ DecodeFrame(codec, stored[k].payload) = accepted[k - 1]
             /\ accepted[k - 1] \in Nat
  <2>1. k - 1 \in 1..Len(accepted)
    BY <1>2, <1>5, <1>6
  <2>2. stored[k] = ImageMessage(accepted[k - 1])
    BY <1>4, <1>6 DEF Sent
  <2>3. accepted[k - 1] \in Nat
    BY <1>2, <2>1
  <2>4. stored[k].topic = "image" /\ stored[k].payload = EncodeFrame(accepted[k - 1])
    BY <2>2 DEF ImageMessage
  <2> QED BY <1>1, <2>1, <2>3, <2>4, ImageSurvives
<1>7. n # 0 => /\ stored[1].topic = "calibration"
               /\ stored[1].payload = EncodeCalibration(DeviceCalibration)
  <2>1. n # 0 => 1 \in 1..n
    BY <1>2
  <2> QED BY <1>4, <2>1 DEF Sent
<1>8. ASSUME NEW k \in 1..n
      PROVE  /\ stored[k].topic = "image" <=> k # 1
             /\ stored[k].topic = "calibration" <=> k = 1
  <2>1. k = 1 => n # 0
    BY <1>2
  <2> QED BY <1>6, <1>7, <2>1
<1> DEFINE f == IF n = 0 THEN 0 ELSE n - 1
<1>9. f \in Nat /\ \A k : k \in 1..f <=> k \in Nat /\ k # 0 /\ k + 1 \in 1..n
  BY <1>2
<1>10. \A i : i \in D <=> i \in 1..n /\ i # 1
  <2>1. \A i \in 1..n : i # 1 => DecodeFrame(codec, stored[i].payload) # Undecodable
    BY <1>6 DEF Undecodable
  <2> QED BY <1>2, <1>8, <2>1 DEF D
<1>12. /\ Cardinality(D) = f
       /\ \A k \in 1..f : InOrder(D)[k] = k + 1
  BY <1>2, <1>10, AllButFirst
<1>13. C # {} => InOrder(C)[1] = 1 /\ n # 0
  <2> SUFFICES ASSUME C # {} PROVE InOrder(C)[1] = 1 /\ n # 0
    OBVIOUS
  <2>1. n # 0 /\ \A i : i \in C <=> i = 1
    BY <1>2, <1>8 DEF C
  <2> HIDE DEF C
  <2> QED BY <2>1, OnlyTheFirst
<1>14. /\ own.file.own = TRUE
       /\ own.opens = (finalized \/ stored # <<>>)
       /\ C # {} => own.calibration = DecodeCalibration(stored[InOrder(C)[1]].payload)
       /\ DOMAIN own.frames = 1..f
       /\ \A k \in 1..f : own.frames[k] = DecodeFrame(codec, stored[InOrder(D)[k]].payload)
  BY <1>1, <1>12, ReadOfOwnFile DEF own, C, D
<1>15. ASSUME NEW k \in 1..f
       PROVE  k \in DOMAIN accepted /\ own.frames[k] = accepted[k]
  <2>1. /\ k + 1 \in 1..n /\ k + 1 # 1 /\ (k + 1) - 1 = k
        /\ InOrder(D)[k] = k + 1
    BY <1>9, <1>12
  <2> HIDE DEF f
  <2> QED BY <1>2, <1>6, <1>14, <2>1
<1>16. ASSUME finalized PROVE own.frames = accepted
  <2>1. f = Len(accepted)
    BY <1>2, <1>5, <1>16
  <2> HIDE DEF f
  <2>2. own.frames = [k \in 1..Cardinality(D) |->
                      DecodeFrame(codec, stored[InOrder(D)[k]].payload)]
    BY DEF own, D, Read, OwnFile
  <2>3. accepted = [k \in 1..Len(accepted) |-> accepted[k]]
    BY <1>2
  <2>4. own.frames = [k \in 1..f |-> own.frames[k]]
    BY <1>12, <2>2
  <2> QED BY <1>15, <2>1, <2>3, <2>4
<1>17. ASSUME own.frames # <<>> PROVE own.calibration = DeviceCalibration
  <2>1. n # 0
    <3> SUFFICES ASSUME n = 0 PROVE FALSE
      OBVIOUS
    <3>1. 1..Cardinality(D) = {}
      BY <1>12
    <3>2. own.frames = [k \in 1..Cardinality(D) |->
                        DecodeFrame(codec, stored[InOrder(D)[k]].payload)]
      BY DEF own, D, Read, OwnFile
    <3> QED BY <1>17, <3>1, <3>2
  <2>2. 1 \in 1..n
    BY <1>2, <2>1
  <2>3. C # {}
    BY <1>2, <1>8, <2>2 DEF C
  <2> QED BY <1>7, <1>13, <1>14, <2>1, <2>3, CalibrationSurvives
<1> HIDE DEF f
<1> QED BY <1>14, <1>15, <1>16, <1>17 DEF own

\* What a raw image's header says fits behind the data, as far as it is believed.
LEMMA HeaderFits ==
  ASSUME NEW h \in Nat, NEW w \in Nat, NEW step \in Nat, NEW size \in Nat,
         step >= 3 * w, size >= step * h
  PROVE  (h - 1) * step + 3 * w <= size
<1>1. step * h \in Nat /\ (h - 1) * step = step * h - step
  OBVIOUS
<1>2. (h - 1) * step + 3 * w <= step * h
  BY <1>1
<1> QED BY <1>1, <1>2

\* A file of another program is read as far as its header is true.
LEMMA ForeignFilePlays ==
  ASSUME NEW f \in ForeignFiles, readBack = Read(f)
  PROVE  readBack.file.own = FALSE /\ ForeignFileIsChecked
<1>1. PICK c \in {"raw_bgr8", "png"},
           m \in [schema : {"RawImage"}, encoding : {"bgr8", "mono8"}, pixels : {0},
                  width : Headers, height : Headers, step : Headers, size : Headers] :
        f = [own |-> FALSE, codec |-> c, channels |-> {"image"},
             messages |-> <<[topic |-> "image", payload |-> m]>>]
  BY DEF ForeignFiles
<1>2. /\ f.own = FALSE /\ f.codec = c
      /\ f.messages = <<[topic |-> "image", payload |-> m]>>
  BY <1>1
<1>3. /\ DOMAIN f.messages = 1..1 /\ \A i \in 1..1 : i = 1
      /\ f.messages[1].payload = m
  BY <1>2
<1> DEFINE D == {i \in {j \in DOMAIN f.messages : f.messages[j].topic = "image"} :
                    DecodeFrame(f.codec, f.messages[i].payload) # Undecodable}
<1>4. /\ readBack.file = f
      /\ readBack.opens = (f.channels # {} /\ f.codec \in Codecs)
      /\ readBack.frames = [k \in 1..Cardinality(D) |->
            DecodeFrame(f.codec, f.messages[InOrder(D)[k]].payload)]
  <2>1. readBack.file = f
    BY DEF Read
  <2>2. readBack.opens = (f.channels # {} /\ f.codec \in Codecs)
    BY Zenon DEF Read
  <2>3. readBack.frames = [k \in 1..Cardinality(D) |->
            DecodeFrame(f.codec, f.messages[InOrder(D)[k]].payload)]
    BY DEF Read
  <2> QED BY <2>1, <2>2, <2>3
<1>5. ASSUME readBack.opens, readBack.frames # <<>>
      PROVE  (m.height - 1) * m.step + 3 * m.width <= m.size
  <2>1. D # {}
    <3> SUFFICES ASSUME D = {} PROVE FALSE
      OBVIOUS
    <3>1. Cardinality(D) = 0 /\ 1..0 = {}
      BY FS_EmptySet
    <3> HIDE DEF D
    <3> QED BY <1>4, <1>5, <3>1
  <2>2. DecodeFrame(c, m) # Undecodable
    BY <1>2, <1>3, <2>1
  <2>3. c = "raw_bgr8"
    BY <1>2, <1>4, <1>5 DEF Codecs
  <2>4. RawFits(m)
    BY <2>2, <2>3 DEF DecodeFrame
  <2>5. /\ m.height \in Nat /\ m.width \in Nat /\ m.step \in Nat /\ m.size \in Nat
    <3>1. Headers \subseteq Nat
      BY RecordingFileAssumption
    <3> QED BY <3>1
  <2>6. m.step >= 3 * m.width /\ m.size >= m.step * m.height
    BY <2>4 DEF RawFits
  <2> QED BY <2>5, <2>6, HeaderFits
<1>6. ForeignFileIsChecked
  BY <1>3, <1>4, <1>5 DEF ForeignFileIsChecked
<1> QED BY <1>2, <1>4, <1>6

\* The invariant is as strong as the property.
LEMMA RecordingInvSuffices == RecordingInv => ReadsBackWhatWasWritten
<1> SUFFICES ASSUME RecordingInv, readBack # NotRead
             PROVE  IF readBack.file.own THEN OwnFileSurvives ELSE ForeignFileIsChecked
  BY DEF ReadsBackWhatWasWritten
<1>1. CASE ~writing /\ codec # "" /\ readBack = Read(OwnFile)
  <2>1. codec \in Codecs
    BY <1>1, Zenon DEF RecordingInv, RecordingTypeOK
  <2>2. /\ readBack.file.own = TRUE
        /\ readBack.opens = (finalized \/ stored # <<>>)
        /\ finalized => readBack.frames = accepted
        /\ \A k \in DOMAIN readBack.frames :
              k \in DOMAIN accepted /\ readBack.frames[k] = accepted[k]
        /\ readBack.frames # <<>> => readBack.calibration = DeviceCalibration
    BY <1>1, <2>1, OwnFilePlays
  <2>3. OwnFileSurvives
    BY <2>2, Zenon DEF OwnFileSurvives
  <2> QED BY <2>2, <2>3
<1>2. CASE \E f \in ForeignFiles : readBack = Read(f)
  BY <1>2, ForeignFilePlays
<1> QED BY <1>1, <1>2, Zenon DEF RecordingInv, Reads

\* recording_writer.cc, for any number and size of images and any fate of the writer.
LEMMA RecordingInvariant == RecordingSpec => []RecordingInv
<1>1. RecordingInit => RecordingInv
  BY RecordingInitially
<1>2. RecordingInv /\ [RecordingNext]_recordingVars => RecordingInv'
  BY RecordingStep
<1> QED BY <1>1, <1>2, PTL DEF RecordingSpec

\* recording_writer.cc:222: however the library ends its chunks and whenever the
\* process is killed, the file plays the accepted images from the first on, all of them
\* once it was closed, and with the camera's calibration; and a foreign image is read
\* only as far as its data goes.
THEOREM RecordingsReadBack == RecordingSpec => []ReadsBackWhatWasWritten
<1>1. RecordingInv => ReadsBackWhatWasWritten
  BY RecordingInvSuffices
<1> QED BY <1>1, RecordingInvariant, PTL

-----------------------------------------------------------------------------
(* The converter                                                            *)

ConverterTypeOK ==
    /\ mkv \in [usable : BOOLEAN, captures : Seq(Captures), end : {"eof", "error"}]
    /\ converter \in {"idle", "setup", "transcode", "failed", "left", "killed"}
    /\ frames \in Nat /\ skipped \in Nat
    /\ exitCode \in {-1, 0, 1}

\* The colour captures among the first.
Colors(p) == {i \in 1..p : mkv.captures[i] = "color"}

\* The images that were accepted are the colour captures that were read, in order.
Transcribes ==
    /\ Position <= Len(mkv.captures)
    /\ Len(accepted) = frames
    /\ \A k \in 1..Len(accepted) : accepted[k] \in Colors(Position)
    /\ \A i \in Colors(Position) : \E k \in 1..Len(accepted) : accepted[k] = i
    /\ \A k, l \in 1..Len(accepted) : k < l => accepted[k] < accepted[l]

\* The writer is open while captures are read, and main() is left with a closed file.
Leaves ==
    /\ writing <=> converter \in {"transcode", "failed"}
    /\ converter \in {"idle", "setup"} =>
          codec \notin Codecs /\ accepted = <<>> /\ frames = 0 /\ skipped = 0
    /\ writing => codec \in Codecs
    /\ converter = "left" =>
          /\ codec \in Codecs => finalized
          /\ exitCode = 0 => codec \in Codecs /\ frames > 0 /\ Position = Len(mkv.captures)

ConverterInv == RecordingInv /\ ConverterTypeOK /\ Transcribes /\ Leaves

\* The numbers the converter counts with.
LEMMA ConverterNumbers ==
  ASSUME ConverterInv
  PROVE  /\ accepted \in Seq(Nat) /\ Len(accepted) \in Nat
         /\ frames \in Nat /\ skipped \in Nat /\ Position \in Nat /\ Position = frames + skipped
         /\ mkv.captures \in Seq(Captures) /\ Len(mkv.captures) \in Nat
<1>1. accepted \in Seq(Nat)
  BY DEF ConverterInv, RecordingInv, RecordingTypeOK
<1>2. frames \in Nat /\ skipped \in Nat /\ mkv.captures \in Seq(Captures)
  BY DEF ConverterInv, ConverterTypeOK
<1> QED BY <1>1, <1>2, LenProperties DEF Position

\* A capture that is skipped is no colour capture.
LEMMA SkipKeepsList ==
  ASSUME ConverterInv, NextCapture("depth"), skipped' = skipped + 1,
         UNCHANGED <<mkv, frames, accepted>>
  PROVE  Transcribes'
<1>1. /\ frames \in Nat /\ skipped \in Nat /\ Position \in Nat /\ Position = frames + skipped
      /\ Len(mkv.captures) \in Nat
  BY ConverterNumbers
<1>2. Position' = Position + 1 /\ Position + 1 <= Len(mkv.captures)
  BY <1>1 DEF NextCapture, Position
<1>3. \A i : i \in Colors(Position)' <=> i \in Colors(Position)
  <2>1. mkv.captures[Position + 1] # "color"
    BY DEF NextCapture
  <2>2. \A i : i \in 1..(Position + 1) <=> i \in 1..Position \/ i = Position + 1
    BY <1>1
  <2> QED BY <1>2, <2>1, <2>2 DEF Colors
<1> QED BY <1>2, <1>3 DEF ConverterInv, Transcribes

\* A colour capture is accepted after all that came before it.
LEMMA TranscodeKeepsList ==
  ASSUME ConverterInv, NextCapture("color"), frames' = frames + 1,
         accepted' = Append(accepted, Position + 1),
         UNCHANGED <<mkv, skipped>>
  PROVE  Transcribes'
<1> DEFINE n == Len(accepted)
           p == Position
<1>1. /\ frames \in Nat /\ skipped \in Nat /\ Position \in Nat /\ Position = frames + skipped
      /\ Len(mkv.captures) \in Nat /\ accepted \in Seq(Nat) /\ n \in Nat
  BY ConverterNumbers
<1>2. /\ Position' = p + 1 /\ p + 1 <= Len(mkv.captures)
      /\ mkv.captures[p + 1] = "color"
  BY <1>1 DEF NextCapture, Position
<1>3. /\ n = frames
      /\ \A k \in 1..n : accepted[k] \in Colors(p)
      /\ \A i \in Colors(p) : \E k \in 1..n : accepted[k] = i
      /\ \A k, l \in 1..n : k < l => accepted[k] < accepted[l]
  BY DEF ConverterInv, Transcribes
<1>4. /\ Len(accepted') = n + 1 /\ accepted'[n + 1] = p + 1
      /\ \A k \in 1..n : accepted'[k] = accepted[k]
  BY <1>1, AppendProperties
<1>5. \A i : i \in Colors(Position)' <=> i \in Colors(p) \/ i = p + 1
  <2>1. \A i : i \in 1..(p + 1) <=> i \in 1..p \/ i = p + 1
    BY <1>1
  <2> QED BY <1>2, <2>1 DEF Colors
<1>6. \A i \in Colors(p) : i \in Nat /\ i < p + 1
  BY <1>1 DEF Colors
<1> HIDE DEF n, p
<1>7. \A k : k \in 1..(n + 1) <=> k \in 1..n \/ k = n + 1
  BY <1>1 DEF n
<1>8. \A k \in 1..(n + 1) : accepted'[k] \in Colors(Position)'
  BY <1>3, <1>4, <1>5, <1>7
<1>9. \A i \in Colors(Position)' : \E k \in 1..(n + 1) : accepted'[k] = i
  BY <1>3, <1>4, <1>5, <1>7
<1>10. ASSUME NEW k \in 1..(n + 1), NEW l \in 1..(n + 1), k < l
       PROVE  accepted'[k] < accepted'[l]
  <2>1. k \in 1..n
    BY <1>1, <1>10 DEF n
  <2>2. CASE l \in 1..n
    BY <1>3, <1>4, <1>10, <2>1, <2>2
  <2>3. CASE l = n + 1
    <3>1. accepted'[k] \in Colors(p) /\ accepted'[l] = p + 1
      BY <1>3, <1>4, <2>1, <2>3
    <3> QED BY <1>6, <3>1
  <2> QED BY <1>7, <2>2, <2>3
<1> QED BY <1>2, <1>3, <1>4, <1>8, <1>9, <1>10 DEF Transcribes, p

\* What was listed stays while nothing is counted and nothing accepted.
LEMMA ListStays ==
  ASSUME Transcribes, UNCHANGED <<mkv, frames, skipped, accepted>>
  PROVE  Transcribes'
BY DEF Transcribes, Colors, Position

\* The writer's side of what the converter does.
LEMMA RecordingVarsStay ==
  ASSUME UNCHANGED recordingVars
  PROVE  UNCHANGED <<codec, writing, calibrated, chunk, stored, lastChunk,
                     finalized, images, accepted, readBack>>
BY DEF recordingVars, containerVars

\* Before there is an output nothing is written.
LEMMA SetupKeeps ==
  ASSUME ConverterInv, (\E m \in Mkvs : Run(m)) \/ SetupFails
  PROVE  ConverterInv'
<1>1. RecordingInv /\ ConverterTypeOK /\ Transcribes /\ Leaves
  BY DEF ConverterInv
<1>2. CASE \E m \in Mkvs : Run(m)
  <2>1. PICK m \in Mkvs : Run(m)
    BY <1>2
  <2>2. /\ converter = "idle" /\ mkv' = m /\ converter' = "setup"
        /\ UNCHANGED <<frames, skipped, exitCode>>
        /\ UNCHANGED recordingVars
    BY <2>1 DEF Run
  <2>3. UNCHANGED <<codec, writing, finalized, accepted>>
    BY <2>2, RecordingVarsStay
  <2>4. RecordingInv'
    BY <1>1, <2>2, RecordingStutters
  <2>5. m \in [usable : BOOLEAN, captures : Seq(Captures), end : {"eof", "error"}]
    <3>1. \A n \in 0..MaxCaptures : \A s \in [1..n -> Captures] : s \in Seq(Captures)
      BY MkvAssumption, IsASeq
    <3>2. UNION {[1..n -> Captures] : n \in 0..MaxCaptures} \subseteq Seq(Captures)
      BY <3>1
    <3> QED BY <3>2 DEF Mkvs
  <2>6. ConverterTypeOK'
    BY <1>1, <2>2, <2>5 DEF ConverterTypeOK
  <2>7. /\ codec \notin Codecs /\ accepted = <<>> /\ frames = 0 /\ skipped = 0
        /\ Len(accepted) = 0
    BY <1>1, <2>2 DEF Leaves
  <2>8. Transcribes'
    <3>1. Position' = 0 /\ Len(accepted') = 0 /\ frames' = 0
      BY <2>2, <2>3, <2>7 DEF Position
    <3>2. Len(mkv'.captures) \in Nat
      BY <2>2, <2>5, LenProperties
    <3>3. \A i : i \notin 1..0
      OBVIOUS
    <3>4. \A i : i \notin Colors(Position)'
      BY <3>1, <3>3 DEF Colors
    <3> QED BY <3>1, <3>2, <3>3, <3>4 DEF Transcribes
  <2>9. Leaves'
    BY <1>1, <2>2, <2>3, <2>7 DEF Leaves
  <2> QED BY <2>4, <2>6, <2>8, <2>9 DEF ConverterInv
<1>3. CASE SetupFails
  <2>1. /\ converter = "setup" /\ converter' = "left" /\ exitCode' = 1
        /\ UNCHANGED <<mkv, frames, skipped>>
        /\ UNCHANGED recordingVars
    BY <1>3 DEF SetupFails, Exit
  <2>2. UNCHANGED <<codec, writing, finalized, accepted>>
    BY <2>1, RecordingVarsStay
  <2>3. RecordingInv'
    BY <1>1, <2>1, RecordingStutters
  <2>4. ConverterTypeOK'
    BY <1>1, <2>1 DEF ConverterTypeOK
  <2>5. Transcribes'
    BY <1>1, <2>1, <2>2, ListStays
  <2>6. Leaves'
    BY <1>1, <2>1, <2>2 DEF Leaves
  <2> QED BY <2>3, <2>4, <2>5, <2>6 DEF ConverterInv
<1> QED BY <1>2, <1>3

\* The output begins empty, as what was read of the recording.
LEMMA OpenOutputKeeps ==
  ASSUME ConverterInv, OpenOutput
  PROVE  ConverterInv'
<1>1. RecordingInv /\ ConverterTypeOK /\ Transcribes /\ Leaves
  BY DEF ConverterInv
<1>2. PICK c \in Codecs : CreateFile(c)
  BY DEF OpenOutput
<1>3. /\ converter = "setup" /\ converter' = "transcode"
      /\ UNCHANGED <<mkv, frames, skipped, exitCode>>
      /\ codec' = c /\ writing' = TRUE /\ finalized' = FALSE /\ accepted' = <<>>
  BY <1>2 DEF OpenOutput, CreateFile
<1>4. RecordingInv'
  BY <1>2, CreateFileKeeps
<1>5. ConverterTypeOK'
  BY <1>1, <1>3 DEF ConverterTypeOK
<1>6. accepted = <<>>
  BY <1>1, <1>3 DEF Leaves
<1>7. Transcribes'
  BY <1>1, <1>3, <1>6, ListStays
<1>8. Leaves'
  BY <1>1, <1>3 DEF Leaves
<1> QED BY <1>4, <1>5, <1>7, <1>8 DEF ConverterInv

\* A capture is skipped, written or not.
LEMMA CaptureKeeps ==
  ASSUME ConverterInv, Skip \/ Transcode \/ WriteFails
  PROVE  ConverterInv'
<1>1. RecordingInv /\ ConverterTypeOK /\ Transcribes /\ Leaves
  BY DEF ConverterInv
<1>2. frames \in Nat /\ skipped \in Nat /\ Position \in Nat /\ Position + 1 \in Nat
  BY ConverterNumbers
<1>3. CASE Skip
  <2>1. /\ NextCapture("depth") /\ skipped' = skipped + 1
        /\ UNCHANGED <<mkv, converter, frames, exitCode>>
        /\ UNCHANGED recordingVars
    BY <1>3 DEF Skip
  <2>2. converter = "transcode" /\ UNCHANGED <<codec, writing, finalized, accepted>>
    BY <2>1, RecordingVarsStay DEF NextCapture
  <2>3. RecordingInv'
    BY <1>1, <2>1, RecordingStutters
  <2>4. ConverterTypeOK'
    BY <1>1, <1>2, <2>1 DEF ConverterTypeOK
  <2>5. Transcribes'
    BY <2>1, <2>2, SkipKeepsList
  <2>6. Leaves'
    BY <1>1, <2>1, <2>2 DEF Leaves
  <2> QED BY <2>3, <2>4, <2>5, <2>6 DEF ConverterInv
<1>4. CASE Transcode
  <2>1. /\ NextCapture("color") /\ WriteSucceeds(Position + 1) /\ frames' = frames + 1
        /\ UNCHANGED <<mkv, converter, skipped, exitCode>>
    BY <1>4 DEF Transcode
  <2>2. /\ converter = "transcode" /\ UNCHANGED <<codec, writing, finalized>>
        /\ accepted' = Append(accepted, Position + 1)
    BY <2>1 DEF NextCapture, WriteSucceeds
  <2>3. RecordingInv'
    BY <1>1, <1>2, <2>1, WriteSucceedsKeeps
  <2>4. ConverterTypeOK'
    BY <1>1, <1>2, <2>1 DEF ConverterTypeOK
  <2>5. Transcribes'
    BY <2>1, <2>2, TranscodeKeepsList
  <2>6. Leaves'
    BY <1>1, <2>1, <2>2 DEF Leaves
  <2> QED BY <2>3, <2>4, <2>5, <2>6 DEF ConverterInv
<1>5. CASE WriteFails
  <2>1. /\ NextCapture("color") /\ WriteRefused(Position + 1) /\ converter' = "failed"
        /\ UNCHANGED <<mkv, frames, skipped, exitCode>>
    BY <1>5 DEF WriteFails
  <2>2. converter = "transcode" /\ UNCHANGED <<codec, writing, finalized, accepted>>
    BY <2>1 DEF NextCapture, WriteRefused
  <2>3. RecordingInv'
    BY <1>1, <1>2, <2>1, WriteRefusedKeeps
  <2>4. ConverterTypeOK'
    BY <1>1, <2>1 DEF ConverterTypeOK
  <2>5. Transcribes'
    BY <1>1, <2>1, <2>2, ListStays
  <2>6. Leaves'
    BY <1>1, <2>1, <2>2 DEF Leaves
  <2> QED BY <2>3, <2>4, <2>5, <2>6 DEF ConverterInv
<1> QED BY <1>3, <1>4, <1>5

\* main() is left, or killed, with the writer's file closed or cut short.
LEMMA EndKeeps ==
  ASSUME ConverterInv, Fail \/ Finish \/ KillConverter
  PROVE  ConverterInv'
<1>1. RecordingInv /\ ConverterTypeOK /\ Transcribes /\ Leaves
  BY DEF ConverterInv
<1>2. frames \in Nat /\ skipped \in Nat /\ Position = frames + skipped
  BY ConverterNumbers
<1>3. CASE Fail \/ Finish
  <2>1. /\ FinishFile /\ converter' = "left" /\ exitCode' \in {0, 1}
        /\ UNCHANGED <<mkv, frames, skipped>>
        /\ exitCode' = 0 => frames # 0 /\ Position = Len(mkv.captures)
    <3>1. CASE Fail
      BY <3>1 DEF Fail, Exit
    <3>2. CASE Finish
      BY <3>2 DEF Finish, Exit
    <3> QED BY <1>3, <3>1, <3>2
  <2>2. writing /\ finalized' = TRUE /\ writing' = FALSE /\ UNCHANGED <<codec, accepted>>
    BY <2>1 DEF FinishFile
  <2>3. RecordingInv'
    BY <1>1, <2>1, FinishFileKeeps
  <2>4. ConverterTypeOK'
    BY <1>1, <2>1 DEF ConverterTypeOK
  <2>5. Transcribes'
    BY <1>1, <2>1, <2>2, ListStays
  <2>6. codec \in Codecs
    BY <1>1, <2>2 DEF Leaves
  <2>7. Position' = Position /\ (frames # 0 => frames > 0)
    BY <1>2, <2>1 DEF Position
  <2>8. Leaves'
    BY <2>1, <2>2, <2>6, <2>7 DEF Leaves
  <2> QED BY <2>3, <2>4, <2>5, <2>8 DEF ConverterInv
<1>4. CASE KillConverter
  <2>1. /\ Killed /\ converter' = "killed"
        /\ UNCHANGED <<mkv, frames, skipped, exitCode>>
    BY <1>4 DEF KillConverter
  <2>2. writing' = FALSE /\ UNCHANGED <<codec, accepted>>
    BY <2>1 DEF Killed
  <2>3. RecordingInv'
    BY <1>1, <2>1, KilledKeeps
  <2>4. ConverterTypeOK'
    BY <1>1, <2>1 DEF ConverterTypeOK
  <2>5. Transcribes'
    BY <1>1, <2>1, <2>2, ListStays
  <2>6. Leaves'
    BY <2>1, <2>2 DEF Leaves
  <2> QED BY <2>3, <2>4, <2>5, <2>6 DEF ConverterInv
<1> QED BY <1>3, <1>4

\* What every step of the converter keeps.
LEMMA ConverterStep ==
  ConverterInv /\ [ConverterNext]_<<recordingVars, converterVars>> => ConverterInv'
<1> SUFFICES ASSUME ConverterInv, [ConverterNext]_<<recordingVars, converterVars>>
             PROVE  ConverterInv'
  OBVIOUS
<1>1. CASE ConverterNext
  BY <1>1, SetupKeeps, OpenOutputKeeps, CaptureKeeps, EndKeeps DEF ConverterNext
<1>2. CASE UNCHANGED <<recordingVars, converterVars>>
  <2>1. UNCHANGED recordingVars /\ UNCHANGED <<mkv, converter, frames, skipped, exitCode>>
    BY <1>2 DEF converterVars
  <2>2. UNCHANGED <<codec, writing, finalized, accepted>>
    BY <2>1, RecordingVarsStay
  <2>3. RecordingInv /\ ConverterTypeOK /\ Transcribes /\ Leaves
    BY DEF ConverterInv
  <2>4. RecordingInv'
    BY <2>1, <2>3, RecordingStutters
  <2>5. ConverterTypeOK'
    BY <2>1, <2>3 DEF ConverterTypeOK
  <2>6. Transcribes'
    BY <2>1, <2>2, <2>3, ListStays
  <2>7. Leaves'
    BY <2>1, <2>2, <2>3 DEF Leaves, Position
  <2> QED BY <2>4, <2>5, <2>6, <2>7 DEF ConverterInv
<1> QED BY <1>1, <1>2

\* Nothing is converted at first.
LEMMA ConverterInitially == RecordingInit /\ ConverterInit => ConverterInv
<1> SUFFICES ASSUME RecordingInit, ConverterInit PROVE ConverterInv
  OBVIOUS
<1>1. RecordingInv
  BY RecordingInitially
<1>2. /\ mkv = [usable |-> FALSE, captures |-> <<>>, end |-> "eof"]
      /\ converter = "idle" /\ frames = 0 /\ skipped = 0 /\ exitCode = -1
  BY DEF ConverterInit
<1>3. codec \notin Codecs /\ writing = FALSE /\ accepted = <<>>
  BY DEF RecordingInit, Codecs
<1>4. Len(<<>>) = 0 /\ <<>> \in Seq(Captures)
  BY EmptySeq
<1>5. ConverterTypeOK
  BY <1>2, <1>4 DEF ConverterTypeOK
<1>6. Transcribes
  <2>1. Position = 0 /\ Len(accepted) = 0 /\ frames = 0 /\ Len(mkv.captures) = 0
    BY <1>2, <1>3, <1>4 DEF Position
  <2>2. \A i : i \notin 1..0
    OBVIOUS
  <2>3. \A i : i \notin Colors(Position)
    BY <2>1, <2>2 DEF Colors
  <2> QED BY <2>1, <2>2, <2>3 DEF Transcribes
<1>7. Leaves
  BY <1>2, <1>3 DEF Leaves
<1> QED BY <1>1, <1>5, <1>6, <1>7 DEF ConverterInv

\* A file that was closed plays the colour captures that were read: the first of the
\* recording's, or all of them.
LEMMA ClosedFilePlays ==
  ASSUME ConverterInv, finalized, codec \in Codecs, ~writing
  PROVE  LET played == Read(OwnFile).frames
         IN  /\ \A k \in DOMAIN played :
                   k \in DOMAIN ColorCaptures /\ played[k] = ColorCaptures[k]
             /\ Position = Len(mkv.captures) => played = ColorCaptures
             /\ frames > 0 => played # <<>>
<1>1. RecordingInv /\ Transcribes
  BY DEF ConverterInv
<1>2. Read(OwnFile).frames = accepted
  BY <1>1, OwnFilePlays
<1>3. /\ accepted \in Seq(Nat) /\ Len(accepted) \in Nat /\ Position \in Nat
      /\ mkv.captures \in Seq(Captures) /\ Len(mkv.captures) \in Nat
      /\ DOMAIN mkv.captures = 1..Len(mkv.captures) /\ DOMAIN accepted = 1..Len(accepted)
  BY ConverterNumbers
<1> PICK n \in Nat : n = Len(accepted)
  BY <1>3
<1> PICK S : S = Colors(Len(mkv.captures))
  OBVIOUS
<1>4. ColorCaptures = InOrder(S)
  BY <1>3 DEF ColorCaptures, Colors
<1>5. /\ Position <= Len(mkv.captures)
      /\ \A k \in 1..n : accepted[k] \in Colors(Position)
      /\ \A i \in Colors(Position) : \E k \in 1..n : accepted[k] = i
      /\ \A k, l \in 1..n : k < l => accepted[k] < accepted[l]
  BY <1>1 DEF Transcribes
<1>6. IsFiniteSet(S)
  <2>1. IsFiniteSet(1..Len(mkv.captures))
    <3>1. 1 \in Int /\ Len(mkv.captures) \in Int
      BY <1>3
    <3> QED BY ONLY <3>1, FS_Interval
  <2>2. S \in SUBSET (1..Len(mkv.captures))
    BY DEF Colors
  <2> QED BY ONLY <2>1, <2>2, FS_Subset
<1>7. /\ \A i \in S : i \in Nat
      /\ \A i : i \in Colors(Position) <=> i \in S /\ i <= Position
  BY <1>3, <1>5 DEF Colors
<1>8. \A k \in 1..n : accepted[k] \in S /\ accepted[k] <= Position
  BY <1>5, <1>7
<1>9. \A i \in S : (\E k \in 1..n : accepted[k] = i) \/ (\A k \in 1..n : accepted[k] < i)
  <2> SUFFICES ASSUME NEW i \in S, ~(i <= Position), NEW k \in 1..n
               PROVE  accepted[k] < i
    BY <1>5, <1>7
  <2> QED BY <1>3, <1>7, <1>8
<1>10. \A k \in 1..n : k \in DOMAIN InOrder(S) /\ InOrder(S)[k] = accepted[k]
  <2>1. \A k \in 1..n : accepted[k] \in S
    BY <1>8
  <2>2. \A k, l \in 1..n : k < l => accepted[k] < accepted[l]
    BY <1>5
  <2>3. \A i \in S : i \in Nat
    BY <1>7
  <2>4. n \in Nat
    OBVIOUS
  <2> QED BY ONLY <1>6, <1>9, <2>1, <2>2, <2>3, <2>4, ListedInOrder
<1>11. ASSUME Position = Len(mkv.captures) PROVE accepted = InOrder(S)
  <2>1. \A k \in 1..n : accepted[k] \in S
    BY <1>8
  <2>2. \A k \in 1..n : accepted[k] \in Nat
    BY <1>7, <2>1
  <2>3. \A k, l \in 1..n : k < l => accepted[k] < accepted[l]
    BY <1>5
  <2>4. \A i \in S : \E k \in 1..n : accepted[k] = i
    BY <1>5, <1>11
  <2>5. n \in Nat
    OBVIOUS
  <2>6. Cardinality(S) = n
    BY ONLY <2>1, <2>2, <2>3, <2>4, <2>5, AllListedInOrder
  <2>7. InOrder(S) = [k \in 1..n |-> InOrder(S)[k]]
    <3> DEFINE e(k) == CHOOSE i \in S : Cardinality({j \in S : j <= i}) = k
    <3>1. InOrder(S) = [k \in 1..n |-> e(k)]
      BY <2>6, Zenon DEF InOrder
    <3> HIDE DEF e
    <3> QED BY ONLY <3>1
  <2>8. accepted = [k \in 1..n |-> accepted[k]]
    BY <1>3
  <2> QED BY <1>10, <2>7, <2>8
<1>12. frames > 0 => accepted # <<>>
  BY <1>1 DEF Transcribes
<1> QED BY <1>2, <1>3, <1>4, <1>10, <1>11, <1>12

\* The invariant is as strong as the property.
LEMMA ConverterInvSuffices == ConverterInv => ConversionComplete
<1> SUFFICES ASSUME ConverterInv, converter = "left"
             PROVE  LET played == Read(OwnFile).frames
                    IN  /\ codec # "" => finalized
                        /\ exitCode = 0 => codec # "" /\ played = ColorCaptures /\ played # <<>>
                        /\ exitCode = 1 =>
                              \A i \in DOMAIN played :
                                 i \in DOMAIN ColorCaptures /\ played[i] = ColorCaptures[i]
  BY DEF ConversionComplete
<1>1. /\ RecordingInv /\ ~writing
      /\ codec \in Codecs => finalized
      /\ exitCode = 0 => codec \in Codecs /\ frames > 0 /\ Position = Len(mkv.captures)
  BY DEF ConverterInv, Leaves
<1>2. codec \in Codecs \/ codec = ""
  BY <1>1, Zenon DEF RecordingInv, RecordingTypeOK
<1>3. codec \in Codecs => codec # ""
  BY DEF Codecs
<1>4. CASE codec \in Codecs
  BY <1>1, <1>3, <1>4, ClosedFilePlays
<1>5. CASE codec \notin Codecs
  <2>1. codec = ""
    BY <1>2, <1>5
  <2>2. stored = <<>>
    BY <1>1, <1>2, <1>5, Zenon DEF RecordingInv, Closes
  <2>3. PICK D : D = {i \in {j \in DOMAIN stored : stored[j].topic = "image"} :
                        DecodeFrame(codec, stored[i].payload) # Undecodable}
    OBVIOUS
  <2>4. DOMAIN stored = {}
    BY <2>2
  <2>5. D = {}
    BY <2>3, <2>4
  <2>6. DOMAIN Read(OwnFile).frames = 1..Cardinality(D)
    BY <2>3, ReadOfOwnFile
  <2>7. \A i : i \notin DOMAIN Read(OwnFile).frames
    BY <2>5, <2>6, FS_EmptySet
  <2> QED BY <1>1, <1>5, <2>1, <2>7, Zenon
<1> QED BY <1>4, <1>5

\* The converter keeps the invariant, its writer's and its own.
LEMMA ConverterInvariant == ConverterSpec => []ConverterInv
<1>1. RecordingInit /\ ConverterInit => ConverterInv
  BY ConverterInitially
<1>2. ConverterInv /\ [ConverterNext]_<<recordingVars, converterVars>> => ConverterInv'
  BY ConverterStep
<1> QED BY <1>1, <1>2, PTL DEF ConverterSpec

\* mkv_to_mcap.cc: a conversion that reports success leaves a closed file that plays
\* every colour capture of the recording in order, and at least one; one that reports a
\* failure leaves one that plays those that came before it, or none.
THEOREM ConversionsComplete == ConverterSpec => []ConversionComplete
<1>1. ConverterInv => ConversionComplete
  BY ConverterInvSuffices
<1> QED BY <1>1, ConverterInvariant, PTL

\* recording_writer.cc:222: what a conversion writes is read back as well, whether it
\* ended, failed or was killed.
THEOREM ConversionsReadBack == ConverterSpec => []ReadsBackWhatWasWritten
<1>1. ConverterInv => ReadsBackWhatWasWritten
  BY RecordingInvSuffices DEF ConverterInv
<1> QED BY <1>1, ConverterInvariant, PTL
=============================================================================
