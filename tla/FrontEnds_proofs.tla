-------------------------- MODULE FrontEnds_proofs --------------------------
(***************************************************************************)
(* Theorems about the front ends, for rings, histories and queues of any   *)
(* size: what the debugger's plots pair and show, the counts of its log    *)
(* panel, and the one command that a web client has under way.             *)
(***************************************************************************)
EXTENDS DebuggerView, LogConsole, WebClient, FiniteSetTheorems, SequenceTheorems,
        TLAPS

-----------------------------------------------------------------------------
(* Rings                                                                    *)

Latched == [source : Nat, number : Nat]
Samples == [at : Int, of : Latched, joints : Latched]
Rings   == [data : Seq(Samples), offset : 0..(Capacity - 1), origin : Times,
            last : Times \cup {None}]

\* Only a full ring has turned.
RingOK(p) ==
  /\ p \in Rings
  /\ Len(p.data) <= Capacity
  /\ Len(p.data) < Capacity => p.offset = 0

\* One turn at most is taken off by %.
LEMMA OneTurn ==
  ASSUME NEW n \in Nat \ {0}, NEW a \in 0..(2 * n - 1)
  PROVE  a % n = IF a < n THEN a ELSE a - n
<1>1. CASE a < n
  BY <1>1
<1>2. CASE a >= n
  <2>1. PICK b \in 0..(n - 1) : a = b + n
    BY <1>2, a - n \in 0..(n - 1)
  <2>2. (b + n) % n = b
    BY <2>1
  <2> QED BY <1>2, <2>1, <2>2
<1> QED BY <1>1, <1>2

\* A view has the ring's samples, from its offset on and around.
LEMMA ViewIs ==
  ASSUME NEW p, RingOK(p)
  PROVE  /\ View(p) \in Seq(Samples) /\ Len(View(p)) = Len(p.data)
         /\ \A i \in 1..Len(p.data) :
               View(p)[i] = p.data[IF p.offset + i <= Len(p.data) THEN p.offset + i
                                   ELSE p.offset + i - Len(p.data)]
<1> DEFINE n == Len(p.data)
<1>1. /\ p.data \in Seq(Samples) /\ n \in Nat /\ DOMAIN p.data = 1..n
      /\ p.offset \in 0..(Capacity - 1) /\ Capacity \in Nat
      /\ n <= Capacity /\ (n < Capacity => p.offset = 0)
  BY ViewAssumption DEF RingOK, Rings, ViewAssumption
<1>2. ASSUME NEW i \in 1..n
      PROVE  /\ View(p)[i] = p.data[IF p.offset + i <= n THEN p.offset + i
                                    ELSE p.offset + i - n]
             /\ View(p)[i] \in Samples
  <2> DEFINE k == p.offset + i - 1
             m == k % n
  <2>1. /\ n \in Nat \ {0} /\ k \in 0..(2 * n - 1)
        /\ p.offset \in Int /\ i \in Int /\ k = p.offset + i - 1
    BY <1>1
  <2>2. View(p)[i] = p.data[1 + m]
    BY <1>1 DEF View
  <2>3. m = IF k < n THEN k ELSE k - n
    <3> HIDE DEF n, k
    <3> QED BY <2>1, OneTurn
  <2> HIDE DEF n, k, m
  <2>4. /\ 1 + m = IF p.offset + i <= n THEN p.offset + i ELSE p.offset + i - n
        /\ 1 + m \in 1..n
    BY ONLY <2>1, <2>3
  <2> QED BY <1>1, <2>2, <2>4 DEF n
<1>3. View(p) \in [1..n -> Samples]
  <2>1. View(p) = [i \in 1..n |-> View(p)[i]]
    BY <1>1 DEF View
  <2> QED BY <1>2, <2>1
<1>4. View(p) \in Seq(Samples) /\ Len(View(p)) = n
  BY ONLY <1>1, <1>3
<1> QED BY <1>2, <1>4

\* What a history keeps when a sample comes.
Kept(h) == IF Len(h) < Capacity THEN h ELSE Tail(h)

\* A history that gets a sample has it behind what is kept.
LEMMA KeptIs ==
  ASSUME NEW h \in Seq(Samples), Len(h) <= Capacity, NEW x \in Samples
  PROVE  /\ Kept(h) \in Seq(Samples)
         /\ Len(Kept(h)) = IF Len(h) < Capacity THEN Len(h) ELSE Capacity - 1
         /\ \A i \in 1..Len(Kept(h)) :
               Kept(h)[i] = IF Len(h) < Capacity THEN h[i] ELSE h[i + 1]
         /\ Append(Kept(h), x) \in Seq(Samples)
         /\ Len(Append(Kept(h), x)) = Len(Kept(h)) + 1
         /\ \A i \in 1..Len(Kept(h)) : Append(Kept(h), x)[i] = Kept(h)[i]
         /\ Append(Kept(h), x)[Len(Kept(h)) + 1] = x
<1>1. CASE Len(h) < Capacity
  <2>1. Kept(h) = h
    BY <1>1 DEF Kept
  <2> QED BY <1>1, <2>1, AppendProperties
<1>2. CASE ~(Len(h) < Capacity)
  <2>1. Kept(h) = Tail(h) /\ Len(h) = Capacity /\ h # <<>>
    BY <1>2, ViewAssumption DEF Kept, ViewAssumption
  <2>2. /\ Tail(h) \in Seq(Samples) /\ Len(Tail(h)) = Capacity - 1
        /\ \A i \in 1..Len(Tail(h)) : Tail(h)[i] = h[i + 1]
    BY <2>1, HeadTailProperties
  <2> QED BY <1>2, <2>1, <2>2, AppendProperties
<1> QED BY <1>1, <1>2

\* Adding a value to a ring adds it to its view, full or not, turned or not.
LEMMA RingPush ==
  ASSUME NEW p, RingOK(p), NEW x \in Samples
  PROVE  /\ RingOK(AddValue(p, x))
         /\ AddValue(p, x).last = p.last /\ AddValue(p, x).origin = p.origin
         /\ View(AddValue(p, x)) = Append(Kept(View(p)), x)
<1> DEFINE n == Len(p.data)
           q == AddValue(p, x)
           h == View(p)
<1>1. /\ p \in Rings /\ p.data \in Seq(Samples) /\ n \in Nat
      /\ p.offset \in 0..(Capacity - 1) /\ Capacity \in Nat \ {0}
      /\ n <= Capacity /\ (n < Capacity => p.offset = 0)
  BY ViewAssumption DEF RingOK, Rings, ViewAssumption
<1>2. /\ h \in Seq(Samples) /\ Len(h) = n
      /\ \A i \in 1..n : h[i] = p.data[IF p.offset + i <= n THEN p.offset + i
                                       ELSE p.offset + i - n]
  BY ViewIs
<1> HIDE DEF n, q, h
<1>o. p.offset \in Int
  BY <1>1
<1>3. CASE n < Capacity
  <2>1. q = [p EXCEPT !.data = Append(@, x)]
    BY <1>3 DEF AddValue, q, n
  <2>2. /\ q.data = Append(p.data, x) /\ q.offset = 0
        /\ q.last = p.last /\ q.origin = p.origin
    BY <1>1, <1>3, <2>1 DEF Rings
  <2>3. /\ q.data \in Seq(Samples) /\ Len(q.data) = n + 1
        /\ \A i \in 1..n : q.data[i] = p.data[i]
        /\ q.data[n + 1] = x
    BY <1>1, <2>2, AppendProperties DEF n
  <2>4. q \in Rings
    BY <1>1, <2>1, <2>3 DEF Rings
  <2>5. RingOK(q)
    BY <1>1, <1>3, <2>2, <2>3, <2>4 DEF RingOK
  <2>6. /\ View(q) \in Seq(Samples) /\ Len(View(q)) = n + 1
        /\ \A i \in 1..(n + 1) : View(q)[i] = q.data[i]
    <3>1. /\ View(q) \in Seq(Samples) /\ Len(View(q)) = Len(q.data)
          /\ \A i \in 1..Len(q.data) :
               View(q)[i] = q.data[IF q.offset + i <= Len(q.data) THEN q.offset + i
                                   ELSE q.offset + i - Len(q.data)]
      BY <2>5, ViewIs
    <3>2. ASSUME NEW i \in 1..(n + 1) PROVE View(q)[i] = q.data[i]
      <4>1. (IF 0 + i <= n + 1 THEN 0 + i ELSE 0 + i - (n + 1)) = i
        BY <1>1
      <4> QED BY <2>2, <2>3, <3>1, <4>1
    <3> QED BY <2>3, <3>1, <3>2
  <2>7. \A i \in 1..n : h[i] = p.data[i]
    BY <1>1, <1>2, <1>3
  <2>8. View(q) = Append(Kept(h), x)
    <3>1. Kept(h) = h
      BY <1>2, <1>3 DEF Kept
    <3>2. /\ Append(h, x) \in Seq(Samples) /\ Len(Append(h, x)) = n + 1
          /\ \A i \in 1..n : Append(h, x)[i] = h[i]
          /\ Append(h, x)[n + 1] = x
      BY <1>2, AppendProperties
    <3>3. \A i \in 1..(n + 1) : View(q)[i] = Append(h, x)[i]
      BY <1>1, <2>3, <2>6, <2>7, <3>2
    <3> QED BY <2>6, <3>1, <3>2, <3>3, SeqEqual
  <2> QED BY <2>2, <2>5, <2>8 DEF q, h
<1>4. CASE ~(n < Capacity)
  <2>1. q = [p EXCEPT !.data[p.offset + 1] = x, !.offset = (@ + 1) % Capacity]
    BY <1>4 DEF AddValue, q, n
  <2>2. /\ q.data = [p.data EXCEPT ![p.offset + 1] = x]
        /\ q.offset = (p.offset + 1) % Capacity
        /\ q.last = p.last /\ q.origin = p.origin
    BY <1>1, <2>1 DEF Rings
  <2>3. q.offset = IF p.offset + 1 < Capacity THEN p.offset + 1 ELSE 0
    <3> DEFINE o == p.offset + 1
    <3>1. o \in 0..(2 * Capacity - 1) /\ o <= Capacity
      BY ONLY <1>1
    <3>2. o % Capacity = IF o < Capacity THEN o ELSE o - Capacity
      <4> HIDE DEF o
      <4> QED BY <1>1, <3>1, OneTurn
    <3> HIDE DEF o
    <3>3. o % Capacity = IF o < Capacity THEN o ELSE 0
      BY ONLY <1>1, <3>1, <3>2
    <3> QED BY <2>2, <3>3 DEF o
  <2>4. n = Capacity /\ p.offset + 1 \in 1..n
    <3>1. ~(n < Capacity)
      BY <1>4
    <3> QED BY ONLY <1>1, <3>1
  <2>5. /\ q.data \in Seq(Samples) /\ Len(q.data) = n
        /\ \A i \in 1..n : q.data[i] = IF i = p.offset + 1 THEN x ELSE p.data[i]
    BY <1>1, <2>2, <2>4, ExceptSeq DEF n
  <2>6. q \in Rings
    <3>1. q.offset \in 0..(Capacity - 1)
      BY ONLY <1>1, <2>3
    <3>2. q = [p EXCEPT !.data = q.data, !.offset = q.offset]
      BY <1>1, <2>1, <2>2 DEF Rings
    <3>3. q.data \in Seq(Samples) /\ p.origin \in Times /\ p.last \in Times \cup {None}
      BY <1>1, <2>5 DEF Rings
    <3>4. q = [data |-> q.data, offset |-> q.offset, origin |-> p.origin, last |-> p.last]
      BY <1>1, <3>2 DEF Rings
    <3> QED BY <3>1, <3>3, <3>4 DEF Rings
  <2>7. RingOK(q)
    BY <1>1, <2>4, <2>5, <2>6 DEF RingOK
  <2>8. /\ View(q) \in Seq(Samples) /\ Len(View(q)) = n
        /\ \A i \in 1..n : View(q)[i] = q.data[IF q.offset + i <= n THEN q.offset + i
                                               ELSE q.offset + i - n]
    BY <2>5, <2>7, ViewIs
  <2>9. ASSUME NEW i \in 1..(n - 1)
        PROVE  View(q)[i] = h[i + 1]
    <3> DEFINE j == IF q.offset + i <= n THEN q.offset + i ELSE q.offset + i - n
    <3>1. /\ j = IF p.offset + (i + 1) <= n THEN p.offset + (i + 1)
                 ELSE p.offset + (i + 1) - n
          /\ j \in 1..n /\ j # p.offset + 1 /\ i \in 1..n /\ i + 1 \in 1..n
      <4> DEFINE o == p.offset
                 r == q.offset
      <4>1. n \in Nat /\ o \in Int /\ i \in 1..(n - 1)
        BY <1>1, <1>o
      <4>2. o + 1 \in 1..n /\ r = IF o + 1 < n THEN o + 1 ELSE 0
        BY <2>3, <2>4
      <4> HIDE DEF o, r, n
      <4> QED BY ONLY <4>1, <4>2 DEF j, o, r
    <3> HIDE DEF j
    <3>2. View(q)[i] = q.data[j]
      BY <2>8, <3>1 DEF j
    <3>3. h[i + 1] = p.data[j]
      BY <1>2, <3>1
    <3> QED BY <2>5, <3>1, <3>2, <3>3
  <2>10. View(q)[n] = x
    <3>1. /\ (IF q.offset + n <= n THEN q.offset + n ELSE q.offset + n - n)
               = p.offset + 1
          /\ n \in 1..n
      BY ONLY <1>1, <1>o, <2>3, <2>4
    <3> QED BY <2>4, <2>5, <2>8, <3>1
  <2>11. View(q) = Append(Kept(h), x)
    <3>1. /\ Append(Kept(h), x) \in Seq(Samples) /\ Len(Append(Kept(h), x)) = n
          /\ Append(Kept(h), x)[n] = x
          /\ \A i \in 1..(n - 1) : Append(Kept(h), x)[i] = h[i + 1]
      <4>1. /\ Len(h) = n /\ ~(Len(h) < Capacity) /\ Len(h) <= Capacity
            /\ Capacity - 1 + 1 = n /\ Capacity - 1 = n - 1
        BY <1>1, <1>2, <1>4, <2>4
      <4>2. /\ Len(Kept(h)) = n - 1
            /\ \A i \in 1..(n - 1) : Kept(h)[i] = h[i + 1]
        BY <1>2, <4>1, KeptIs
      <4>3. /\ Append(Kept(h), x) \in Seq(Samples)
            /\ Len(Append(Kept(h), x)) = Len(Kept(h)) + 1
            /\ \A i \in 1..Len(Kept(h)) : Append(Kept(h), x)[i] = Kept(h)[i]
            /\ Append(Kept(h), x)[Len(Kept(h)) + 1] = x
        BY <1>2, <4>1, KeptIs
      <4>4. Len(Kept(h)) + 1 = n
        BY <1>1, <4>2
      <4> QED BY <4>2, <4>3, <4>4
    <3>2. \A i \in 1..n : View(q)[i] = Append(Kept(h), x)[i]
      BY <1>1, <2>4, <2>9, <2>10, <3>1
    <3> QED BY <2>8, <3>1, <3>2, SeqEqual
  <2> QED BY <2>2, <2>7, <2>11 DEF q, h
<1> QED BY <1>3, <1>4

-----------------------------------------------------------------------------
(* Plots                                                                    *)

Newest(h) == h[Len(h)]

\* A plot has a time when it has samples, and its newest was taken then.
PlotOK(p) ==
  /\ RingOK(p)
  /\ p.last = None <=> p.data = <<>>
  /\ p.data # <<>> => Newest(View(p)).at = p.last - p.origin

\* A ring without samples has an empty view.
LEMMA EmptyView ==
  ASSUME NEW p, RingOK(p), p.data = <<>>
  PROVE  View(p) = <<>>
BY ViewIs, EmptySeq

\* A plot as it is built, and one that is emptied, has nothing to show.
LEMMA ClearedPlot ==
  ASSUME NEW p \in Rings, p.data = <<>>, p.offset = 0, p.last = None
  PROVE  PlotOK(p) /\ View(p) = <<>>
<1>1. Len(p.data) = 0
  BY EmptySeq
<1>2. RingOK(p)
  BY <1>1, ViewAssumption DEF RingOK, ViewAssumption
<1> QED BY <1>2, EmptyView DEF PlotOK

\* Emptying a plot leaves a plot.
LEMMA ClearedRing ==
  ASSUME NEW p \in Rings
  PROVE  /\ Cleared(p) \in Rings
         /\ Cleared(p).data = <<>> /\ Cleared(p).offset = 0 /\ Cleared(p).last = None
         /\ PlotOK(Cleared(p)) /\ View(Cleared(p)) = <<>>
<1>1. Cleared(p) = [p EXCEPT !.data = <<>>, !.offset = 0, !.last = None]
  BY DEF Cleared
<1>2. <<>> \in Seq(Samples) /\ 0 \in 0..(Capacity - 1)
  BY ViewAssumption, EmptySeq DEF ViewAssumption
<1>3. Cleared(p) \in Rings
  BY <1>1, <1>2 DEF Rings
<1>4. Cleared(p).data = <<>> /\ Cleared(p).offset = 0 /\ Cleared(p).last = None
  BY <1>1 DEF Rings
<1> QED BY <1>3, <1>4, ClearedPlot

\* A sample is shown behind what is kept of the plot, at no earlier time; or, when
\* the plot was empty or time has gone back, it is the only one.
LEMMA PlotPush ==
  ASSUME NEW p, PlotOK(p), NEW t \in Times, NEW f \in Latched, NEW j \in Latched
  PROVE  /\ PlotOK(Push(Advance(p, t), f, j))
         /\ \E x \in Samples :
               /\ x.of = f /\ x.joints = j
               /\ \/ x.at = 0 /\ View(Push(Advance(p, t), f, j)) = <<x>>
                  \/ /\ View(p) # <<>>
                     /\ x.at >= Newest(View(p)).at
                     /\ View(Push(Advance(p, t), f, j)) = Append(Kept(View(p)), x)
<1> DEFINE r == Advance(p, t)
           q == Push(r, f, j)
           x == [at |-> r.last - r.origin, of |-> f, joints |-> j]
           early == p.last = None \/ t < p.last
<1>1. /\ p \in Rings /\ RingOK(p) /\ t \in Int /\ t # None /\ Times \subseteq Int
      /\ p.last \in Times \cup {None} /\ p.origin \in Int
  BY DEF PlotOK, RingOK, Rings, Times, None
<1>2. /\ r \in Rings /\ RingOK(r) /\ r.last = t
      /\ early => r.data = <<>> /\ r.origin = t
      /\ ~early => r.data = p.data /\ r.offset = p.offset /\ r.origin = p.origin
  <2>1. CASE p.last # None /\ t < p.last
    <3>1. r = [Cleared(p) EXCEPT !.origin = t, !.last = t]
      BY <2>1, <1>1, ClearedRing DEF Advance
    <3>2. r \in Rings /\ r.last = t /\ r.data = <<>> /\ r.origin = t /\ r.offset = 0
      BY <1>1, <3>1, ClearedRing DEF Rings
    <3>3. Len(r.data) = 0
      BY <3>2, EmptySeq
    <3> QED BY <2>1, <3>2, <3>3, ViewAssumption DEF RingOK, ViewAssumption
  <2>2. CASE p.last = None
    <3>1. r = [p EXCEPT !.origin = t, !.last = t]
      BY <2>2 DEF Advance
    <3>2. r \in Rings /\ r.last = t /\ r.data = p.data /\ r.origin = t
          /\ r.offset = p.offset /\ p.data = <<>>
      BY <1>1, <2>2, <3>1 DEF Rings, PlotOK
    <3> QED BY <1>1, <2>2, <3>2 DEF RingOK
  <2>3. CASE ~early
    <3>1. r = [p EXCEPT !.origin = p.origin, !.last = t]
      BY <2>3 DEF Advance
    <3>2. r \in Rings /\ r.last = t /\ r.data = p.data /\ r.origin = p.origin
          /\ r.offset = p.offset
      BY <1>1, <3>1 DEF Rings
    <3> QED BY <1>1, <2>3, <3>2 DEF RingOK
  <2> QED BY <2>1, <2>2, <2>3
<1>3. x \in Samples /\ x.of = f /\ x.joints = j /\ x.at = t - r.origin
  BY <1>1, <1>2 DEF Samples, Rings
<1>4. q = AddValue(r, x)
  BY DEF Push
<1> HIDE DEF r, q, x
<1>5. /\ RingOK(q) /\ q.last = t /\ q.origin = r.origin
      /\ View(q) = Append(Kept(View(r)), x)
  BY <1>2, <1>3, <1>4, RingPush
<1>6. View(r) \in Seq(Samples) /\ Len(View(r)) <= Capacity
  BY <1>2, ViewIs DEF RingOK
<1>7. PlotOK(q)
  <2>1. /\ Len(View(q)) = Len(Kept(View(r))) + 1
        /\ View(q)[Len(Kept(View(r))) + 1] = x
        /\ Len(Kept(View(r))) \in Nat
    BY <1>3, <1>5, <1>6, KeptIs
  <2>2. Newest(View(q)) = x
    BY <2>1 DEF Newest
  <2>3. q.data # <<>>
    <3>1. Len(q.data) = Len(View(q))
      BY <1>5, ViewIs
    <3> QED BY <2>1, <3>1, EmptySeq
  <2> QED BY <1>1, <1>3, <1>5, <2>2, <2>3 DEF PlotOK
<1>8. CASE early
  <2>1. View(r) = <<>>
    BY <1>2, <1>8, EmptyView
  <2>2. Kept(View(r)) = <<>>
    BY <2>1, EmptySeq, ViewAssumption DEF Kept, ViewAssumption
  <2>3. View(q) = <<x>>
    BY <1>5, <2>2
  <2>4. x.at = 0
    BY <1>1, <1>2, <1>3, <1>8
  <2> QED BY <1>3, <1>7, <2>3, <2>4 DEF q, r
<1>9. CASE ~early
  <2>1. View(r) = View(p)
    BY <1>2, <1>9 DEF View
  <2>2. p.data # <<>> /\ View(p) # <<>>
    <3>1. p.data # <<>>
      BY <1>9 DEF PlotOK
    <3> QED BY <1>1, <3>1, ViewIs, EmptySeq DEF Rings
  <2>3. x.at >= Newest(View(p)).at
    BY <1>1, <1>2, <1>3, <1>9, <2>2 DEF PlotOK
  <2> QED BY <1>3, <1>5, <1>7, <2>1, <2>2, <2>3 DEF q, r
<1> QED BY <1>8, <1>9

-----------------------------------------------------------------------------
(* The joints of a plot's samples                                           *)

ViewTypeOK ==
  /\ source \in Nat /\ opens \in Nat /\ seq \in Nat /\ timestamp \in Times
  /\ poseSeq \in Nat /\ posed \in Latched
  /\ window \in {"server", "view", "panels"}
  /\ lastSeq \in Nat /\ texture \in Latched
  /\ plots \in [{"euler", "quat"} -> Rings]

\* The joints are those of the frame the pump has seen last, if the source is still
\* the same, and never of one that is to come.
PoseInv ==
  /\ source <= opens /\ posed.source <= opens
  /\ poseSeq <= seq
  /\ poseSeq # 0 => source # 0 /\ posed = Frame(source, poseSeq)
  /\ posed.source = source => posed.number <= seq
  /\ posed.source = 0 => posed.number = 0

\* A sample has no later frame's joints, and none from before the sample before it.
Fits(s) == s.joints.source = s.of.source => s.joints.number <= s.of.number

Follows(s, t) ==
  s.of.source = t.of.source /\ s.of.number # 0 =>
     /\ t.joints.source = t.of.source
     /\ s.of.number <= t.joints.number

Paired(h) ==
  /\ \A i \in 1..Len(h) : Fits(h[i])
  /\ \A i \in 1..(Len(h) - 1) : Follows(h[i], h[i + 1])

\* The pump has fed the estimator the newest sample's frame, or a later one, by the
\* time the window takes the next.
IsFollowed(s) ==
  /\ s.of.source \in 1..opens
  /\ s.of.source = source =>
        /\ s.of.number <= seq
        /\ window = "view" /\ s.of.number # 0 =>
              posed.source = source /\ s.of.number <= posed.number

PlotInv(p) ==
  /\ PlotOK(p)
  /\ Paired(View(p))
  /\ View(p) # <<>> => IsFollowed(Newest(View(p)))

PlotsInv == \A b \in {"euler", "quat"} : PlotInv(plots[b])

ViewInv == ViewTypeOK /\ PoseInv /\ PlotsInv

\* What is kept of a paired history and a sample that follows it are paired.
LEMMA PairedPush ==
  ASSUME NEW h \in Seq(Samples), Len(h) <= Capacity, h # <<>>, NEW x \in Samples,
         Paired(h), Fits(x), Follows(Newest(h), x)
  PROVE  Paired(Append(Kept(h), x))
<1> DEFINE k == Kept(h)
           a == Append(k, x)
           n == Len(k)
<1>1. /\ n = IF Len(h) < Capacity THEN Len(h) ELSE Capacity - 1
      /\ \A i \in 1..n : k[i] = IF Len(h) < Capacity THEN h[i] ELSE h[i + 1]
      /\ Len(a) = n + 1
      /\ \A i \in 1..n : a[i] = k[i]
      /\ a[n + 1] = x
  BY KeptIs
<1>2. Len(h) \in Nat \ {0} /\ Capacity \in Nat \ {0}
  BY EmptySeq, ViewAssumption DEF ViewAssumption
<1> HIDE DEF k, a, n
<1> DEFINE d == IF Len(h) < Capacity THEN 0 ELSE 1
<1>3. /\ n \in Nat /\ d \in 0..1 /\ n + d = Len(h)
      /\ \A i \in 1..n : a[i] = h[i + d]
  BY <1>1, <1>2
<1> HIDE DEF d
<1>4. ASSUME NEW i \in 1..(n + 1) PROVE Fits(a[i])
  <2>1. CASE i = n + 1
    BY <2>1, <1>1
  <2>2. CASE i \in 1..n
    <3>1. i + d \in 1..Len(h)
      BY <1>2, <1>3, <2>2
    <3> QED BY <1>3, <2>2, <3>1 DEF Paired
  <2> QED BY <1>3, <2>1, <2>2
<1>5. ASSUME NEW i \in 1..n PROVE Follows(a[i], a[i + 1])
  <2>1. CASE i = n
    <3>1. a[i] = h[Len(h)] /\ a[i + 1] = x
      BY <1>1, <1>3, <2>1
    <3> QED BY <3>1 DEF Newest
  <2>2. CASE i \in 1..(n - 1)
    <3>1. /\ i + d \in 1..(Len(h) - 1) /\ i + 1 \in 1..n
          /\ i + 1 + d = (i + d) + 1
      BY <1>2, <1>3, <2>2
    <3>2. a[i] = h[i + d] /\ a[i + 1] = h[(i + d) + 1]
      BY <1>3, <2>2, <3>1
    <3> QED BY <3>1, <3>2 DEF Paired
  <2> QED BY <1>3, <2>1, <2>2
<1>6. Len(a) = n + 1 /\ n \in Nat
  BY <1>1, <1>3
<1> HIDE DEF a, n
<1>7. /\ \A i \in 1..Len(a) : Fits(a[i])
      /\ \A i \in 1..(Len(a) - 1) : Follows(a[i], a[i + 1])
  <2>1. Len(a) - 1 = n
    BY ONLY <1>6
  <2> QED BY <1>4, <1>5, <1>6, <2>1
<1>8. Paired(a)
  BY <1>7 DEF Paired
<1> QED BY <1>8 DEF a, k

\* Plots that are not touched keep their invariant if their newest samples do.
LEMMA PlotsKept ==
  ASSUME PlotsInv, UNCHANGED plots,
         \A s \in Samples : IsFollowed(s) => IsFollowed(s)'
  PROVE  PlotsInv'
<1> SUFFICES ASSUME NEW b \in {"euler", "quat"}
             PROVE  PlotInv(plots[b])'
  BY DEF PlotsInv
<1>1. PlotInv(plots[b]) /\ View(plots[b]) \in Seq(Samples)
  BY ViewIs DEF PlotsInv, PlotInv, PlotOK
<1>2. View(plots[b]) # <<>> => Newest(View(plots[b])) \in Samples
  BY <1>1, EmptySeq DEF Newest
<1> QED BY <1>1, <1>2 DEF PlotInv

\* Plots that were emptied have nothing that anyone could follow.
LEMMA PlotsCleared ==
  ASSUME ViewTypeOK, PlotsInv,
         \A s \in Samples : IsFollowed(s) => IsFollowed(s)',
         NEW B \in SUBSET {"euler", "quat"},
         plots' = [b \in DOMAIN plots |-> IF b \in B THEN Cleared(plots[b]) ELSE plots[b]]
  PROVE  plots' \in [{"euler", "quat"} -> Rings] /\ PlotsInv'
<1>1. /\ plots \in [{"euler", "quat"} -> Rings]
      /\ \A b \in {"euler", "quat"} :
            plots'[b] = IF b \in B THEN Cleared(plots[b]) ELSE plots[b]
  BY DEF ViewTypeOK
<1>2. plots' \in [{"euler", "quat"} -> Rings]
  BY <1>1, ClearedRing
<1>3. ASSUME NEW b \in {"euler", "quat"}, b \in B
      PROVE  PlotInv(plots[b])'
  <2>1. PlotOK(plots'[b]) /\ View(plots'[b]) = <<>>
    BY <1>1, <1>3, ClearedRing
  <2> QED BY <2>1, EmptySeq DEF PlotInv, Paired
<1>4. ASSUME NEW b \in {"euler", "quat"}, b \notin B
      PROVE  PlotInv(plots[b])'
  <2>1. PlotInv(plots[b]) /\ View(plots[b]) \in Seq(Samples) /\ plots'[b] = plots[b]
    BY <1>1, <1>4, ViewIs DEF PlotsInv, PlotInv, PlotOK
  <2>2. View(plots[b]) # <<>> => Newest(View(plots[b])) \in Samples
    BY <2>1, EmptySeq DEF Newest
  <2> QED BY <2>1, <2>2 DEF PlotInv
<1> QED BY <1>2, <1>3, <1>4 DEF PlotsInv

\* A source that comes or goes leaves no sample that could be followed.
LEMMA SourceChanges ==
  ASSUME ViewTypeOK, PoseInv, OpenSource \/ CloseSource
  PROVE  /\ source' \in Nat /\ opens' \in Nat /\ seq' \in Nat /\ timestamp' \in Times
         /\ poseSeq' \in Nat /\ posed' \in Latched
         /\ PoseInv'
         /\ \A s \in Samples : IsFollowed(s) => IsFollowed(s)'
<1>1. /\ source \in Nat /\ opens \in Nat /\ posed \in Latched /\ posed' = posed
      /\ seq' = 0 /\ timestamp' = 0 /\ poseSeq' = 0 /\ 0 \in Times
      /\ \/ opens' = opens + 1 /\ source' = opens + 1
         \/ opens' = opens /\ source' = 0
  BY ViewAssumption DEF ViewTypeOK, OpenSource, CloseSource, Times, ViewAssumption
<1>2. PoseInv'
  BY <1>1 DEF PoseInv, Latched
<1>3. ASSUME NEW s \in Samples, IsFollowed(s) PROVE IsFollowed(s)'
  <2>1. s.of.source \in 1..opens
    BY <1>3 DEF IsFollowed
  <2> QED BY <1>1, <2>1 DEF IsFollowed
<1> QED BY <1>1, <1>2, <1>3

\* Every step of the view keeps its invariant.
LEMMA ViewStep == ViewInv /\ [Next]_vars => ViewInv'
<1> SUFFICES ASSUME ViewInv, [Next]_vars PROVE ViewInv'
  OBVIOUS
<1> USE DEF ViewInv
<1>t. /\ source \in Nat /\ opens \in Nat /\ seq \in Nat /\ timestamp \in Times
      /\ poseSeq \in Nat /\ posed \in Latched
      /\ posed.source \in Nat /\ posed.number \in Nat
      /\ plots \in [{"euler", "quat"} -> Rings]
  BY DEF ViewTypeOK, Latched
<1>c. \A B : [b \in DOMAIN plots |-> Cleared(plots[b])] =
        [b \in DOMAIN plots |-> IF b \in {"euler", "quat"} THEN Cleared(plots[b])
                                ELSE plots[b]]
  BY <1>t
<1>1. CASE Latch
  <2>1. /\ seq' = seq + 1 /\ timestamp' \in Times
        /\ UNCHANGED <<source, opens, poseSeq, posed, window, lastSeq, texture, plots>>
    BY <1>1 DEF Latch, poseVars, viewVars
  <2>2. PoseInv'
    BY <1>t, <2>1 DEF PoseInv, Frame
  <2>3. ASSUME NEW s \in Samples, IsFollowed(s) PROVE IsFollowed(s)'
    <3>1. s.of.number \in Nat
      BY DEF Samples, Latched
    <3> QED BY <1>t, <2>1, <2>3, <3>1 DEF IsFollowed
  <2> QED BY <1>t, <2>1, <2>2, <2>3, PlotsKept DEF ViewTypeOK
<1>2. CASE ClientCommand
  <2>1. (OpenSource \/ CloseSource) /\ UNCHANGED <<window, lastSeq, texture, plots>>
    BY <1>2 DEF ClientCommand, viewVars
  <2> QED BY <2>1, SourceChanges, PlotsKept DEF ViewTypeOK
<1>3. CASE Polled
  <2>1. /\ window = "server" /\ window' = "view"
        /\ UNCHANGED <<source, opens, seq, timestamp, lastSeq, texture, plots>>
        /\ IF source # 0 /\ seq # poseSeq
           THEN poseSeq' = seq /\ posed' = Frame(source, seq)
           ELSE poseSeq' = poseSeq /\ posed' = posed
    BY <1>3 DEF Polled, sourceVars, poseVars, viewVars
  <2>2. Frame(source, seq) \in Latched /\ Frame(source, seq).source = source
        /\ Frame(source, seq).number = seq
    BY <1>t DEF Frame, Latched
  <2>3. poseSeq' \in Nat /\ posed' \in Latched
    BY <1>t, <2>1, <2>2
  <2>4. PoseInv'
    BY <1>t, <2>1, <2>2 DEF PoseInv
  <2>5. ASSUME NEW s \in Samples, IsFollowed(s) PROVE IsFollowed(s)'
    <3>1. s.of.number \in Nat /\ s.of.source \in Nat \ {0}
      BY <2>5 DEF Samples, Latched, IsFollowed
    <3>2. ASSUME s.of.source = source, s.of.number # 0
          PROVE  posed'.source = source /\ posed'.number = seq
      <4>1. s.of.number <= seq
        BY <2>5, <3>2 DEF IsFollowed
      <4>2. CASE seq # poseSeq
        BY <2>1, <2>2, <3>1, <3>2, <4>2
      <4>3. CASE seq = poseSeq
        <5>1. poseSeq # 0 /\ posed' = posed
          BY <1>t, <2>1, <3>1, <3>2, <4>1, <4>3
        <5> QED BY <2>2, <4>3, <5>1 DEF PoseInv
      <4> QED BY <4>2, <4>3
    <3> QED BY <2>1, <2>5, <3>1, <3>2 DEF IsFollowed
  <2> QED BY <1>t, <2>1, <2>3, <2>4, <2>5, PlotsKept DEF ViewTypeOK
<1>4. CASE UpdatePoseFrame /\ HasNewFrame
  <2> DEFINE f == Frame(source, seq)
             q(b) == Push(Advance(plots[b], timestamp), f, posed)
  <2>1. /\ window = "view" /\ window' = "panels"
        /\ source # 0 /\ lastSeq' = seq
        /\ texture' = (IF seq = 0 THEN texture ELSE f)
        /\ plots' = [b \in DOMAIN plots |-> q(b)]
        /\ UNCHANGED <<source, opens, seq, timestamp, poseSeq, posed>>
    BY <1>4 DEF UpdatePoseFrame, HasNewFrame, sourceVars, poseVars
  <2>2. f \in Latched /\ f.source = source /\ f.number = seq
    BY <1>t DEF Frame, Latched
  <2>3. PoseInv'
    BY <2>1 DEF PoseInv, Frame
  <2>4. ASSUME NEW b \in {"euler", "quat"}
        PROVE  plots'[b] \in Rings /\ PlotInv(plots[b])'
    <3>1. /\ PlotInv(plots[b]) /\ plots'[b] = q(b)
          /\ View(plots[b]) \in Seq(Samples) /\ Len(View(plots[b])) <= Capacity
      BY <1>t, <2>1, ViewIs DEF PlotsInv, PlotInv, PlotOK, RingOK
    <3> HIDE DEF f, q
    <3>2. PICK x \in Samples :
             /\ PlotOK(q(b))
             /\ x.of = f /\ x.joints = posed
             /\ \/ View(q(b)) = <<x>>
                \/ /\ View(plots[b]) # <<>>
                   /\ View(q(b)) = Append(Kept(View(plots[b])), x)
      <4> DEFINE p == plots[b]
      <4>1. PlotOK(p) /\ q(b) = Push(Advance(p, timestamp), f, posed)
        BY <3>1 DEF PlotInv, q
      <4> HIDE DEF p
      <4>2. /\ PlotOK(Push(Advance(p, timestamp), f, posed))
            /\ \E x \in Samples :
                  /\ x.of = f /\ x.joints = posed
                  /\ \/ x.at = 0 /\ View(Push(Advance(p, timestamp), f, posed)) = <<x>>
                     \/ /\ View(p) # <<>>
                        /\ x.at >= Newest(View(p)).at
                        /\ View(Push(Advance(p, timestamp), f, posed))
                             = Append(Kept(View(p)), x)
        BY <1>t, <2>2, <4>1, PlotPush
      <4> QED BY <4>1, <4>2 DEF p
    <3>3. Fits(x)
      BY <2>2, <3>2 DEF Fits, PoseInv
    <3>4. IsFollowed(x)'
      BY <1>t, <2>1, <2>2, <3>2 DEF IsFollowed, PoseInv
    <3>5. CASE View(q(b)) = <<x>>
      <4>1. Len(View(q(b))) = 1 /\ View(q(b))[1] = x
        BY <3>5
      <4> QED BY <3>1, <3>2, <3>3, <3>4, <4>1
              DEF PlotInv, Paired, Newest, PlotOK, RingOK
    <3>6. CASE View(plots[b]) # <<>> /\ View(q(b)) = Append(Kept(View(plots[b])), x)
      <4>1. Follows(Newest(View(plots[b])), x)
        BY <2>1, <2>2, <3>1, <3>2, <3>6 DEF PlotInv, IsFollowed, Follows
      <4>2. Paired(View(q(b)))
        BY <3>1, <3>3, <3>6, <4>1, PairedPush DEF PlotInv
      <4>3. Newest(View(q(b))) = x
        <5>1. /\ Len(View(q(b))) = Len(Kept(View(plots[b]))) + 1
              /\ View(q(b))[Len(Kept(View(plots[b]))) + 1] = x
          BY <3>1, <3>6, KeptIs
        <5> QED BY <5>1 DEF Newest
      <4> QED BY <3>1, <3>2, <3>4, <4>2, <4>3 DEF PlotInv, PlotOK, RingOK
    <3> QED BY <3>2, <3>5, <3>6
  <2>5. plots' \in [{"euler", "quat"} -> Rings]
    BY <1>t, <2>1, <2>4
  <2>6. lastSeq' \in Nat /\ texture' \in Latched
    BY <1>t, <2>1, <2>2 DEF ViewTypeOK
  <2> QED BY <1>t, <2>1, <2>3, <2>4, <2>5, <2>6 DEF ViewTypeOK, PlotsInv
<1>5. CASE UpdatePoseFrame /\ ~HasNewFrame
  <2>1. /\ window' = "panels"
        /\ UNCHANGED <<source, opens, seq, timestamp, poseSeq, posed, lastSeq, texture,
                       plots>>
    BY <1>5 DEF UpdatePoseFrame, sourceVars, poseVars, viewVars
  <2>2. \A s \in Samples : IsFollowed(s) => IsFollowed(s)'
    BY <2>1 DEF IsFollowed
  <2> QED BY <2>1, <2>2, PlotsKept DEF ViewTypeOK, PoseInv
<1>6. CASE OpenFromDialog \/ CloseFromMenu
  <2>1. /\ window' = "server" /\ lastSeq' = 0 /\ texture' = texture
        /\ plots' = [b \in DOMAIN plots |-> IF b \in {"euler", "quat"}
                                            THEN Cleared(plots[b]) ELSE plots[b]]
    BY <1>6, <1>t DEF OpenFromDialog, CloseFromMenu, ViewStartsOver
  <2>2. CASE OpenSource \/ CloseSource
    BY <2>1, <2>2, SourceChanges, PlotsCleared DEF ViewTypeOK
  <2>3. CASE OpenFails
    <3>1. UNCHANGED <<source, opens, seq, timestamp, poseSeq, posed>>
      BY <2>3 DEF OpenFails, sourceVars, poseVars
    <3>2. \A s \in Samples : IsFollowed(s) => IsFollowed(s)'
      BY <2>1, <3>1 DEF IsFollowed
    <3> QED BY <2>1, <3>1, <3>2, PlotsCleared DEF ViewTypeOK, PoseInv
  <2> QED BY <1>6, <2>2, <2>3 DEF OpenFromDialog, CloseFromMenu
<1>7. CASE ChangeBasis
  <2>1. /\ window' = "server"
        /\ UNCHANGED <<source, opens, seq, timestamp, poseSeq, posed, lastSeq, texture>>
    BY <1>7 DEF ChangeBasis, sourceVars, poseVars
  <2>2. \E B \in SUBSET {"euler", "quat"} :
           plots' = [b \in DOMAIN plots |-> IF b \in B THEN Cleared(plots[b])
                                            ELSE plots[b]]
    <3>1. [plots EXCEPT !["euler"] = Cleared(@)] =
             [b \in DOMAIN plots |-> IF b \in {"euler"} THEN Cleared(plots[b])
                                     ELSE plots[b]]
      BY <1>t
    <3>2. \/ plots' = [b \in DOMAIN plots |-> Cleared(plots[b])]
          \/ plots' = [plots EXCEPT !["euler"] = Cleared(@)]
      BY <1>7 DEF ChangeBasis
    <3> QED BY <1>c, <3>1, <3>2
  <2>3. \A s \in Samples : IsFollowed(s) => IsFollowed(s)'
    BY <2>1 DEF IsFollowed
  <2> QED BY <2>1, <2>2, <2>3, PlotsCleared DEF ViewTypeOK, PoseInv
<1>8. CASE NextFrame \/ UNCHANGED vars
  <2>1. /\ window' = "server" \/ window' = window
        /\ UNCHANGED <<source, opens, seq, timestamp, poseSeq, posed, lastSeq, texture,
                       plots>>
    BY <1>8 DEF NextFrame, vars, sourceVars, poseVars, viewVars
  <2>2. \A s \in Samples : IsFollowed(s) => IsFollowed(s)'
    BY <2>1 DEF IsFollowed
  <2> QED BY <2>1, <2>2, PlotsKept DEF ViewTypeOK, PoseInv
<1> QED
  BY <1>1, <1>2, <1>3, <1>4, <1>5, <1>6, <1>7, <1>8 DEF Next

\* The view keeps its invariant.
LEMMA ViewInvariant == Spec => []ViewInv
<1>1. Init => ViewInv
  <2> SUFFICES ASSUME Init PROVE ViewInv
    OBVIOUS
  <2>1. EmptyPlot \in Rings
    <3>1. /\ <<>> \in Seq(Samples) /\ 0 \in 0..(Capacity - 1) /\ 0 \in Times
          /\ None \in Times \cup {None}
      BY ViewAssumption, EmptySeq DEF ViewAssumption, Times
    <3> QED BY <3>1, Zenon DEF EmptyPlot, Rings
  <2>2. /\ plots \in [{"euler", "quat"} -> Rings]
        /\ \A b \in {"euler", "quat"} : plots[b] = EmptyPlot
    BY <2>1 DEF Init
  <2>3. PlotsInv
    <3>1. ASSUME NEW b \in {"euler", "quat"} PROVE PlotInv(plots[b])
      <4>1. PlotOK(plots[b]) /\ View(plots[b]) = <<>>
        <5>1. /\ plots[b] \in Rings /\ plots[b].data = <<>>
              /\ plots[b].offset = 0 /\ plots[b].last = None
          <6>1. /\ EmptyPlot.data = <<>> /\ EmptyPlot.offset = 0
                /\ EmptyPlot.last = None
            BY Zenon DEF EmptyPlot
          <6> QED BY <2>2, <6>1, Zenon
        <5> QED BY <5>1, ClearedPlot
      <4> QED BY <4>1, EmptySeq DEF PlotInv, Paired
    <3> QED BY <3>1 DEF PlotsInv
  <2>4. Frame(0, 0) \in Latched /\ 0 \in Times
    BY ViewAssumption DEF Frame, Latched, Times, ViewAssumption
  <2> QED BY <2>2, <2>3, <2>4 DEF Init, ViewInv, ViewTypeOK, PoseInv, Frame
<1> QED BY <1>1, ViewStep, PTL DEF Spec

\* Every variable of the debugger's view keeps its type.
THEOREM ViewTyping == Spec => []ViewTypeOK
BY ViewInvariant, PTL DEF ViewInv

\* The joints of a plot's samples never lag behind the sample before, and are never
\* ahead of the frame they are shown with.
THEOREM PlottedJointsAreRecent == Spec => []JointsAreRecent
<1>1. ViewInv => JointsAreRecent
  <2> SUFFICES ASSUME ViewInv, NEW b \in DOMAIN plots
               PROVE  /\ \A i \in DOMAIN View(plots[b]) : Fits(View(plots[b])[i])
                      /\ \A i \in 1..(Len(View(plots[b])) - 1) :
                            Follows(View(plots[b])[i], View(plots[b])[i + 1])
    BY DEF JointsAreRecent, Fits, Follows
  <2>1. PlotInv(plots[b]) /\ View(plots[b]) \in Seq(Samples)
    BY ViewIs DEF ViewInv, ViewTypeOK, PlotsInv, PlotInv, PlotOK
  <2> QED BY <2>1 DEF PlotInv, Paired
<1> QED BY <1>1, ViewInvariant, PTL

-----------------------------------------------------------------------------
(* The plots implement PlotHistory                                          *)

\* What a plot's view may become in a step.
Slides(h, g) ==
  \/ g = h
  \/ g = <<>>
  \/ Len(g) = 1 /\ g[1].at = 0
  \/ /\ h # <<>>
     /\ Len(g) = Len(Kept(h)) + 1
     /\ SubSeq(g, 1, Len(Kept(h))) = Kept(h)
     /\ g[Len(Kept(h)) + 1].at >= h[Len(h)].at

\* Every step clears a plot, starts it over, or slides it by a sample.
LEMMA PlotsSlide ==
  ViewInv /\ [Next]_vars =>
    \A b \in {"euler", "quat"} : Slides(View(plots[b]), View(plots'[b]))
<1> SUFFICES ASSUME ViewInv, [Next]_vars, NEW b \in {"euler", "quat"}
             PROVE  Slides(View(plots[b]), View(plots'[b]))
  OBVIOUS
<1>t. /\ plots \in [{"euler", "quat"} -> Rings]
      /\ PlotOK(plots[b]) /\ plots[b] \in Rings
      /\ View(plots[b]) \in Seq(Samples) /\ Len(View(plots[b])) <= Capacity
      /\ timestamp \in Times /\ Frame(source, seq) \in Latched /\ posed \in Latched
  BY ViewIs
     DEF ViewInv, ViewTypeOK, PlotsInv, PlotInv, PlotOK, RingOK, Frame, Latched
<1>1. CASE UpdatePoseFrame /\ HasNewFrame
  <2> DEFINE p == plots[b]
             q == Push(Advance(p, timestamp), Frame(source, seq), posed)
             k == Kept(View(p))
  <2>1. plots'[b] = q
    BY <1>1, <1>t DEF UpdatePoseFrame
  <2> HIDE DEF p
  <2>2. PICK x \in Samples :
           \/ x.at = 0 /\ View(q) = <<x>>
           \/ /\ View(p) # <<>>
              /\ x.at >= Newest(View(p)).at
              /\ View(q) = Append(k, x)
    BY <1>t, PlotPush DEF p
  <2>3. CASE x.at = 0 /\ View(q) = <<x>>
    BY <2>1, <2>3 DEF Slides
  <2>4. CASE /\ View(p) # <<>>
             /\ x.at >= Newest(View(p)).at
             /\ View(q) = Append(k, x)
    <3>1. /\ k \in Seq(Samples) /\ Append(k, x) \in Seq(Samples) /\ Len(k) \in Nat
          /\ Len(Append(k, x)) = Len(k) + 1
          /\ \A i \in 1..Len(k) : Append(k, x)[i] = k[i]
          /\ Append(k, x)[Len(k) + 1] = x
      BY <1>t, KeptIs DEF p
    <3> HIDE DEF k, q
    <3>2. SubSeq(Append(k, x), 1, Len(k)) = k
      <4>1. /\ SubSeq(Append(k, x), 1, Len(k)) \in Seq(Samples)
            /\ Len(SubSeq(Append(k, x), 1, Len(k))) = Len(k)
            /\ \A i \in 1..Len(k) : SubSeq(Append(k, x), 1, Len(k))[i] = Append(k, x)[i]
        BY <3>1, SubSeqProperties
      <4> QED BY <3>1, <4>1, SeqEqual
    <3> QED BY <2>1, <2>4, <3>1, <3>2 DEF Slides, Newest, k, p
  <2> QED BY <2>2, <2>3, <2>4
<1>2. CASE UpdatePoseFrame /\ ~HasNewFrame
  BY <1>2 DEF UpdatePoseFrame, viewVars, Slides
<1>3. CASE OpenFromDialog \/ CloseFromMenu \/ ChangeBasis
  <2>1. plots'[b] = Cleared(plots[b]) \/ plots'[b] = plots[b]
    BY <1>3, <1>t DEF OpenFromDialog, CloseFromMenu, ChangeBasis, ViewStartsOver
  <2> QED BY <1>t, <2>1, ClearedRing DEF Slides
<1>4. CASE Latch \/ ClientCommand \/ Polled \/ NextFrame \/ UNCHANGED vars
  BY <1>4 DEF Latch, ClientCommand, Polled, NextFrame, vars, viewVars, Slides
<1> QED
  BY <1>1, <1>2, <1>3, <1>4 DEF Next

\* A view that slides takes a step of PlotHistory or none.
LEMMA SlidesAreSteps ==
  /\ Slides(View(plots["euler"]), View(plots'["euler"]))
       => [EulerHistory!Next]_(View(plots["euler"]))
  /\ Slides(View(plots["quat"]), View(plots'["quat"]))
       => [QuatHistory!Next]_(View(plots["quat"]))
BY DEF Slides, Kept, EulerHistory!Next, EulerHistory!Clear, EulerHistory!Restart,
       EulerHistory!Extend, QuatHistory!Next, QuatHistory!Clear, QuatHistory!Restart,
       QuatHistory!Extend

\* The rings, read from their offset, are sliding histories in the order of their
\* times, whatever source the times come from and whenever a ring was emptied.
THEOREM PlotsImplementHistories == Spec => PlotsAreHistories
<1>1. Init => EulerHistory!Init /\ QuatHistory!Init
  <2> SUFFICES ASSUME Init
               PROVE  View(plots["euler"]) = <<>> /\ View(plots["quat"]) = <<>>
    BY DEF EulerHistory!Init, QuatHistory!Init
  <2>1. plots["euler"] = EmptyPlot /\ plots["quat"] = EmptyPlot
    BY DEF Init
  <2>2. EmptyPlot.data = <<>> /\ DOMAIN EmptyPlot.data = {}
    BY EmptySeq DEF EmptyPlot
  <2> QED BY <2>1, <2>2 DEF View
<1>2. ViewInv /\ [Next]_vars => /\ [EulerHistory!Next]_(View(plots["euler"]))
                                /\ [QuatHistory!Next]_(View(plots["quat"]))
  BY PlotsSlide, SlidesAreSteps
<1> QED
  BY <1>1, <1>2, ViewInvariant, PTL
     DEF Spec, PlotsAreHistories, EulerHistory!Spec, QuatHistory!Spec

-----------------------------------------------------------------------------
(* Counting in a queue                                                      *)

\* A queue's members of a kind are finitely many, and there are none in an empty one.
LEMMA CountIs ==
  ASSUME NEW T, NEW S
  PROVE  /\ \A s \in Seq(T) : /\ IsFiniteSet({i \in DOMAIN s : s[i] \in S})
                              /\ Count(s, S) \in Nat
         /\ Count(<<>>, S) = 0
<1>1. ASSUME NEW s \in Seq(T)
      PROVE  IsFiniteSet({i \in DOMAIN s : s[i] \in S})
  <2>1. DOMAIN s = 1..Len(s) /\ Len(s) \in Nat
    OBVIOUS
  <2>2. IsFiniteSet(DOMAIN s)
    BY <2>1, FS_Interval
  <2> QED BY <2>2, FS_Subset
<1>2. Count(<<>>, S) = 0
  <2>1. {i \in DOMAIN <<>> : <<>>[i] \in S} = {}
    OBVIOUS
  <2> QED BY <2>1, FS_EmptySet DEF Count
<1> QED BY <1>1, <1>2, FS_CardinalityType DEF Count

\* What is queued is counted if it is of the kind.
LEMMA CountAppend ==
  ASSUME NEW T, NEW S, NEW s \in Seq(T), NEW x \in T
  PROVE  Count(Append(s, x), S) = IF x \in S THEN Count(s, S) + 1 ELSE Count(s, S)
<1> DEFINE a == Append(s, x)
           old == {i \in DOMAIN s : s[i] \in S}
           new == {i \in DOMAIN a : a[i] \in S}
<1>1. /\ a \in Seq(T) /\ Len(s) \in Nat /\ Len(a) = Len(s) + 1
      /\ DOMAIN a = 1..(Len(s) + 1) /\ DOMAIN s = 1..Len(s)
      /\ \A i \in 1..Len(s) : a[i] = s[i]
      /\ a[Len(s) + 1] = x
  BY AppendProperties
<1>2. IsFiniteSet(old)
  BY CountIs
<1>3. Len(s) + 1 \notin DOMAIN s
  BY <1>1
<1> DEFINE l == Len(s) + 1
<1>4. l \notin old /\ Cardinality(old \cup {l}) = Cardinality(old) + 1
  BY <1>2, <1>3, FS_AddElement
<1> HIDE DEF a
<1>5. CASE x \in S
  <2>1. new = old \cup {l}
    BY <1>1, <1>5
  <2> QED BY <1>4, <1>5, <2>1 DEF Count, a
<1>6. CASE x \notin S
  <2>1. new = old
    BY <1>1, <1>6
  <2> QED BY <1>6, <2>1 DEF Count, a
<1> QED BY <1>5, <1>6

\* What leaves the queue is not counted any longer.
LEMMA CountTail ==
  ASSUME NEW T, NEW S, NEW s \in Seq(T), s # <<>>
  PROVE  Count(s, S) = IF Head(s) \in S THEN Count(Tail(s), S) + 1
                                        ELSE Count(Tail(s), S)
<1> DEFINE t == Tail(s)
           old == {i \in DOMAIN s : s[i] \in S}
           new == {i \in DOMAIN t : t[i] \in S}
           later == old \ {1}
           f == [i \in new |-> i + 1]
<1>1. /\ t \in Seq(T) /\ Len(s) \in Nat \ {0} /\ Len(t) = Len(s) - 1
      /\ DOMAIN t = 1..(Len(s) - 1) /\ DOMAIN s = 1..Len(s)
      /\ \A i \in 1..(Len(s) - 1) : t[i] = s[i + 1]
      /\ Head(s) = s[1]
  <2>1. t \in Seq(T) /\ Len(t) = Len(s) - 1 /\ Len(s) \in Nat /\ Head(s) = s[1]
    BY HeadTailProperties
  <2>2. \A i \in 1..(Len(s) - 1) : t[i] = s[i + 1]
    BY HeadTailProperties
  <2>3. Len(s) # 0
    BY EmptySeq
  <2>4. DOMAIN s = 1..Len(s) /\ DOMAIN t = 1..Len(t)
    BY <2>1
  <2>5. Len(s) \in Nat \ {0} /\ DOMAIN t = 1..(Len(s) - 1)
    BY <2>1, <2>3, <2>4, Zenon
  <2> QED BY <2>1, <2>2, <2>4, <2>5, Zenon
<1> HIDE DEF t
<1>2. IsFiniteSet(old) /\ IsFiniteSet(new)
  <2>1. IsFiniteSet(old)
    BY CountIs
  <2>2. t \in Seq(T)
    BY <1>1
  <2>3. IsFiniteSet(new)
    BY <2>2, CountIs
  <2> QED BY <2>1, <2>3
<1>3. f \in Bijection(new, later)
  <2>1. f \in [new -> later]
    BY <1>1
  <2>2. \A a, b \in new : f[a] = f[b] => a = b
    BY <1>1
  <2>3. \A j \in later : \E i \in new : f[i] = j
    <3>1. ASSUME NEW j \in later PROVE j - 1 \in new /\ f[j - 1] = j
      BY <1>1
    <3> QED BY <3>1
  <2> QED BY <2>1, <2>2, <2>3 DEF Bijection, Injection, IsInjective, Surjection
<1>4. Cardinality(later) = Cardinality(new)
  BY <1>2, <1>3, FS_Bijection DEF ExistsBijection
<1>5. Cardinality(later) = IF 1 \in old THEN Cardinality(old) - 1 ELSE Cardinality(old)
  BY <1>2, FS_RemoveElement
<1>6. 1 \in old <=> Head(s) \in S
  BY <1>1
<1>7. Cardinality(old) \in Nat
  BY <1>2, FS_CardinalityType
<1>8. Count(s, S) = Cardinality(old) /\ Count(t, S) = Cardinality(new)
  BY DEF Count, t
<1> HIDE DEF old, new, later, f
<1>9. CASE Head(s) \in S
  <2>1. Cardinality(new) = Cardinality(old) - 1
    BY <1>4, <1>5, <1>6, <1>9
  <2>2. Cardinality(old) = Cardinality(new) + 1
    BY ONLY <2>1, <1>7
  <2> QED BY <1>8, <1>9, <2>2, Zenon DEF t
<1>10. CASE Head(s) \notin S
  BY <1>4, <1>5, <1>6, <1>8, <1>10, Zenon DEF t
<1> QED BY <1>9, <1>10

-----------------------------------------------------------------------------
(* The log panel                                                            *)

OfLevel(l) == {r \in Record : r.level = l}

\* The counts are numbers, and each is of the records that are still buffered.
LogInv ==
  /\ records \in Seq(Record)
  /\ counts \in [Levels -> Int]
  /\ \A l \in Levels : counts[l] = Count(records, OfLevel(l))

\* A record that comes is counted, and the one that leaves for it is not any longer.
LEMMA SinkCounts ==
  ASSUME LogInv, NEW r \in Record, Sink(r)
  PROVE  LogInv'
<1> DEFINE full == Len(records) = Buffered
           kept == IF full THEN Tail(records) ELSE records
<1>1. r.level \in Levels /\ Buffered \in Nat \ {0}
  BY LogConsoleAssumption DEF Record, LogConsoleAssumption
<1>2. full => records # <<>>
  <2> SUFFICES ASSUME records = <<>>, Len(records) = Buffered
               PROVE  FALSE
    BY Zenon
  <2>1. Len(records) = 0
    OBVIOUS
  <2> QED BY <1>1, <2>1
<1>3. full => Head(records) \in Record /\ Head(records).level \in Levels
  <2>1. records # <<>> => Head(records) \in Record
    BY HeadTailProperties DEF LogInv
  <2>2. \A q \in Record : q.level \in Levels
    BY DEF Record
  <2> QED BY <1>2, <2>1, <2>2, Zenon
<1>4. kept \in Seq(Record)
  BY <1>2, HeadTailProperties DEF LogInv
<1>5. records' = Append(kept, r)
  BY DEF Sink
<1>6. records' \in Seq(Record)
  BY <1>4, <1>5, AppendProperties
<1>7. counts' \in [Levels -> Int]
  <2>1. [counts EXCEPT ![r.level] = @ + 1] \in [Levels -> Int]
    BY <1>1 DEF LogInv
  <2> DEFINE c == [counts EXCEPT ![r.level] = @ + 1]
  <2>2. c \in [Levels -> Int]
    BY <2>1
  <2>3. counts' = IF full THEN [c EXCEPT ![Head(records).level] = @ - 1] ELSE c
    BY DEF Sink
  <2> HIDE DEF full, c
  <2> QED BY <1>3, <2>2, <2>3
<1>8. ASSUME NEW l \in Levels
      PROVE  counts'[l] = Count(records', OfLevel(l))
  <2>1. Count(kept, OfLevel(l)) = counts[l] - (IF full /\ Head(records).level = l
                                               THEN 1 ELSE 0)
    <3>1. full => Count(records, OfLevel(l))
                    = IF Head(records) \in OfLevel(l) THEN Count(Tail(records), OfLevel(l)) + 1
                      ELSE Count(Tail(records), OfLevel(l))
      BY <1>2, CountTail DEF LogInv
    <3>2. full => (Head(records) \in OfLevel(l) <=> Head(records).level = l)
      BY <1>3 DEF OfLevel
    <3>3. Count(kept, OfLevel(l)) \in Nat
      BY <1>4, CountIs
    <3>4. counts[l] = Count(records, OfLevel(l)) /\ counts[l] \in Int
      BY DEF LogInv
    <3> QED BY <3>1, <3>2, <3>3, <3>4
  <2>2. Count(records', OfLevel(l))
          = Count(kept, OfLevel(l)) + (IF r.level = l THEN 1 ELSE 0)
    <3>1. r \in OfLevel(l) <=> r.level = l
      BY DEF OfLevel
    <3>2. Count(kept, OfLevel(l)) \in Nat
      BY <1>4, CountIs
    <3> HIDE DEF kept
    <3>3. Count(Append(kept, r), OfLevel(l))
            = IF r \in OfLevel(l) THEN Count(kept, OfLevel(l)) + 1
              ELSE Count(kept, OfLevel(l))
      BY <1>4, CountAppend
    <3> QED BY <1>5, <3>1, <3>2, <3>3
  <2>3. counts'[l] = counts[l] + (IF r.level = l THEN 1 ELSE 0)
                       - (IF full /\ Head(records).level = l THEN 1 ELSE 0)
    BY <1>1, <1>3 DEF Sink, LogInv
  <2>4. counts[l] \in Int
    BY DEF LogInv
  <2> QED BY <2>1, <2>2, <2>3, <2>4
<1> QED BY <1>6, <1>7, <1>8 DEF LogInv

\* A new sink has nothing to count, and every step keeps the count.
LEMMA LogCounts == LogSpec => []LogInv
<1>1. ASSUME NEW l \in Levels
      PROVE  [k \in Levels |-> 0][l] = Count(<<>>, OfLevel(l))
  BY CountIs
<1>2. LogInit => LogInv
  BY <1>1, EmptySeq DEF LogInit, LogInv
<1>3. LogInv /\ [LogNext]_logVars => LogInv'
  <2> SUFFICES ASSUME LogInv, [LogNext]_logVars
               PROVE  LogInv'
    OBVIOUS
  <2>1. CASE UNCHANGED sinkVars
    BY <2>1 DEF LogInv, sinkVars
  <2>2. CASE Clear
    BY <1>1, <2>2, EmptySeq DEF LogInv, Clear
  <2>3. ASSUME NEW r \in Record, Sink(r) PROVE LogInv'
    BY <2>3, SinkCounts
  <2> QED BY <2>1, <2>2, <2>3
         DEF LogNext, Buttons, Chips, DrawList, sinkVars, logVars
<1> QED BY <1>2, <1>3, PTL DEF LogSpec

\* However records come, leave and are cleared, the numbers on the chips are those of
\* the records that are still buffered.
THEOREM ChipsCountRecords == LogSpec => []CountsAgree
<1>1. ASSUME records \in Seq(Record), NEW l \in Levels
      PROVE  Count(records, OfLevel(l))
               = Cardinality({i \in DOMAIN records : records[i].level = l})
  <2>1. \A i \in DOMAIN records : records[i] \in Record
    BY <1>1
  <2>2. {i \in DOMAIN records : records[i] \in OfLevel(l)}
          = {i \in DOMAIN records : records[i].level = l}
    BY <2>1 DEF OfLevel
  <2> QED BY <2>2 DEF Count
<1>2. LogInv => CountsAgree
  BY <1>1 DEF LogInv, CountsAgree
<1> QED BY <1>2, LogCounts, PTL

-----------------------------------------------------------------------------
(* The web client                                                           *)

Posts   == Commands \cup {"Hello", "GetServerStatus", "Disconnect"}
Answers == {Status(TRUE), Status(FALSE), Reply("Upgraded"), Reply("Closed"),
            Reply("HelloAck"), Reply("Ack")}

WebTypes ==
  /\ readyState \in {"closed", "connecting", "open", "closing"}
  /\ slot \in {"free", "ours", "other"}
  /\ helloPending \in BOOLEAN /\ pending \in BOOLEAN /\ ackLost \in BOOLEAN
  /\ connected \in BOOLEAN /\ connecting \in BOOLEAN /\ handshaked \in BOOLEAN
  /\ requests \in Seq(Posts)
  /\ replies \in Seq(Answers)

\* The panel follows the socket: nothing is under way before the socket is open, and
\* one that is not closed is being connected or is connected.
PanelInv ==
  /\ readyState \in {"closed", "connecting"} =>
        /\ requests = <<>>
        /\ ~helloPending /\ ~pending /\ ~connected /\ ~ackLost /\ ~handshaked
  /\ readyState # "closed" => connected \/ connecting

\* The server counts our socket while there is one, from the upgrade on and not after
\* its end has been sent.
SlotInv ==
  /\ readyState = "closed" => slot # "ours"
  /\ readyState = "connecting" /\ slot = "ours" => replies = <<Reply("Upgraded")>>
  /\ slot = "ours" => Count(replies, {Reply("Closed")}) = 0
  /\ handshaked => slot = "ours"

\* What is awaited is under way, and a server that has not shaken hands has the Hello
\* to come next.
AwaitedInv ==
  readyState = "open" /\ slot = "ours" =>
    /\ Outstanding = IF pending THEN 1 ELSE 0
    /\ Count(requests, {"Hello"}) + Count(replies, {Reply("HelloAck")})
          = IF helloPending THEN 1 ELSE 0
    /\ ~handshaked => requests # <<>> /\ Head(requests) = "Hello"

WebInv == WebTypes /\ PanelInv /\ SlotInv /\ AwaitedInv

Kinds == {"Ack", "HelloAck", "Closed"}

\* An answer without content is told by its kind.
LEMMA AnswerKinds ==
  /\ \A m \in Answers, x \in Kinds : m \in {Reply(x)} <=> m.is = x
  /\ \A x \in Kinds : Reply(x) \in Answers /\ Reply(x).is = x
  /\ \A b \in BOOLEAN : Status(b) \in Answers /\ Status(b).is = "Status"
  /\ Reply("Upgraded") \in Answers /\ Reply("Upgraded").is = "Upgraded"
<1>1. ASSUME NEW m \in Answers, NEW x \in Kinds
      PROVE  m \in {Reply(x)} <=> m.is = x
  <2>1. CASE m \in {Status(TRUE), Status(FALSE)}
    <3>1. m.is = "Status"
      BY <2>1 DEF Status
    <3>2. Reply(x).is = x /\ x # "Status"
      BY DEF Reply, Kinds
    <3> QED BY <3>1, <3>2
  <2>2. CASE m \in {Reply("Upgraded"), Reply("Closed"), Reply("HelloAck"), Reply("Ack")}
    BY <2>2 DEF Reply, Kinds
  <2> QED BY <2>1, <2>2 DEF Answers
<1>2. ASSUME NEW x \in Kinds
      PROVE  Reply(x) \in Answers /\ Reply(x).is = x
  BY DEF Reply, Kinds, Answers
<1>3. ASSUME NEW b \in BOOLEAN
      PROVE  Status(b) \in Answers /\ Status(b).is = "Status"
  BY DEF Status, Answers
<1>4. Reply("Upgraded") \in Answers /\ Reply("Upgraded").is = "Upgraded"
  BY DEF Reply, Answers
<1> QED BY <1>1, <1>2, <1>3, <1>4

\* A request that is sent is the last one, and counts as what it is.
LEMMA RequestSent ==
  ASSUME NEW s \in Seq(Posts), NEW c \in Posts
  PROVE  /\ Append(s, c) \in Seq(Posts) /\ Append(s, c) # <<>>
         /\ Head(Append(s, c)) = IF s = <<>> THEN c ELSE Head(s)
         /\ Count(Append(s, c), Commands)
              = IF c \in Commands THEN Count(s, Commands) + 1 ELSE Count(s, Commands)
         /\ Count(Append(s, c), {"Hello"})
              = IF c = "Hello" THEN Count(s, {"Hello"}) + 1 ELSE Count(s, {"Hello"})
<1>1. Append(s, c) \in Seq(Posts) /\ Append(s, c) # <<>>
  BY AppendProperties
<1>2. Head(Append(s, c)) = IF s = <<>> THEN c ELSE Head(s)
  <2>1. s = <<>> <=> Len(s) = 0
    BY EmptySeq
  <2> QED BY <2>1, AppendProperties, HeadTailProperties
<1>3. Count(Append(s, c), Commands)
        = IF c \in Commands THEN Count(s, Commands) + 1 ELSE Count(s, Commands)
  BY CountAppend
<1>4. Count(Append(s, c), {"Hello"})
        = IF c \in {"Hello"} THEN Count(s, {"Hello"}) + 1 ELSE Count(s, {"Hello"})
  BY CountAppend
<1> QED BY <1>1, <1>2, <1>3, <1>4

\* A request that is taken counted as what it is.
LEMMA RequestTaken ==
  ASSUME NEW s \in Seq(Posts), s # <<>>
  PROVE  /\ Head(s) \in Posts /\ Tail(s) \in Seq(Posts)
         /\ Count(s, Commands) = IF Head(s) \in Commands THEN Count(Tail(s), Commands) + 1
                                                         ELSE Count(Tail(s), Commands)
         /\ Count(s, {"Hello"}) = IF Head(s) = "Hello" THEN Count(Tail(s), {"Hello"}) + 1
                                                       ELSE Count(Tail(s), {"Hello"})
<1>1. Head(s) \in Posts /\ Tail(s) \in Seq(Posts)
  BY HeadTailProperties
<1>2. Count(s, Commands) = IF Head(s) \in Commands THEN Count(Tail(s), Commands) + 1
                                                   ELSE Count(Tail(s), Commands)
  BY CountTail
<1>3. Count(s, {"Hello"}) = IF Head(s) \in {"Hello"} THEN Count(Tail(s), {"Hello"}) + 1
                                                     ELSE Count(Tail(s), {"Hello"})
  BY CountTail
<1> QED BY <1>1, <1>2, <1>3

\* So do the answers.
LEMMA AnswerSent ==
  ASSUME NEW s \in Seq(Answers), NEW m \in Answers
  PROVE  /\ Append(s, m) \in Seq(Answers)
         /\ \A x \in Kinds :
               Count(Append(s, m), {Reply(x)})
                 = IF m.is = x THEN Count(s, {Reply(x)}) + 1 ELSE Count(s, {Reply(x)})
<1>1. Append(s, m) \in Seq(Answers)
  BY AppendProperties
<1>2. ASSUME NEW x \in Kinds
      PROVE  Count(Append(s, m), {Reply(x)})
               = IF m.is = x THEN Count(s, {Reply(x)}) + 1 ELSE Count(s, {Reply(x)})
  <2>1. Count(Append(s, m), {Reply(x)})
          = IF m \in {Reply(x)} THEN Count(s, {Reply(x)}) + 1 ELSE Count(s, {Reply(x)})
    BY CountAppend
  <2>2. m \in {Reply(x)} <=> m.is = x
    BY AnswerKinds
  <2> QED BY <2>1, <2>2, Zenon
<1> QED BY <1>1, <1>2

LEMMA AnswerTaken ==
  ASSUME NEW s \in Seq(Answers), s # <<>>
  PROVE  /\ Head(s) \in Answers /\ Tail(s) \in Seq(Answers)
         /\ \A x \in Kinds :
               Count(s, {Reply(x)})
                 = IF Head(s).is = x THEN Count(Tail(s), {Reply(x)}) + 1
                                     ELSE Count(Tail(s), {Reply(x)})
<1>1. Head(s) \in Answers /\ Tail(s) \in Seq(Answers)
  BY HeadTailProperties
<1>2. ASSUME NEW x \in Kinds
      PROVE  Count(s, {Reply(x)})
               = IF Head(s).is = x THEN Count(Tail(s), {Reply(x)}) + 1
                                   ELSE Count(Tail(s), {Reply(x)})
  <2>1. Count(s, {Reply(x)})
          = IF Head(s) \in {Reply(x)} THEN Count(Tail(s), {Reply(x)}) + 1
                                      ELSE Count(Tail(s), {Reply(x)})
    BY CountTail
  <2>2. Head(s) \in {Reply(x)} <=> Head(s).is = x
    BY <1>1, AnswerKinds
  <2> QED BY <2>1, <2>2, Zenon
<1> QED BY <1>1, <1>2

\* What is under way is a number.
LEMMA WebCounts ==
  ASSUME WebTypes
  PROVE  /\ Count(requests, Commands) \in Nat /\ Count(requests, {"Hello"}) \in Nat
         /\ \A x \in Kinds : Count(replies, {Reply(x)}) \in Nat
BY CountIs DEF WebTypes

-----------------------------------------------------------------------------
(* The page's steps                                                         *)

\* A socket that is gone leaves nothing under way.
LEMMA SocketGone ==
  ASSUME OnClose, slot' \in {"free", "other"}, ~handshaked', handshaked' \in BOOLEAN
  PROVE  WebInv'
<1>1. <<>> \in Seq(Posts) /\ <<>> \in Seq(Answers)
  BY EmptySeq
<1>2. WebTypes'
  BY <1>1 DEF OnClose, WebTypes
<1>3. PanelInv'
  BY DEF OnClose, PanelInv
<1>4. SlotInv' /\ AwaitedInv'
  BY Zenon DEF OnClose, SlotInv, AwaitedInv
<1> QED BY <1>2, <1>3, <1>4 DEF WebInv

LEMMA ConnectStep ==
  ASSUME WebInv, DoConnect
  PROVE  WebInv'
<1>1. WebTypes'
  BY DEF DoConnect, WebInv, WebTypes, socketVars, serverVars
<1>2. readyState = "closed"
  BY DEF DoConnect, WebInv, PanelInv
<1>3. PanelInv'
  BY <1>2 DEF DoConnect, WebInv, PanelInv, socketVars, serverVars
<1>4. slot' # "ours"
  BY <1>2 DEF DoConnect, WebInv, SlotInv, serverVars
<1>5. handshaked' = handshaked
  BY DEF DoConnect, serverVars
<1>6. SlotInv' /\ AwaitedInv'
  BY <1>2, <1>4, <1>5 DEF WebInv, SlotInv, AwaitedInv
<1> QED BY <1>1, <1>3, <1>6 DEF WebInv

LEMMA DisconnectStep ==
  ASSUME WebInv, DoDisconnect
  PROVE  WebInv'
<1>1. requests' \in Seq(Posts)
  BY RequestSent DEF DoDisconnect, WebInv, WebTypes, Posts
<1>2. WebTypes'
  BY <1>1 DEF DoDisconnect, WebInv, WebTypes, panelVars, serverVars
<1>3. PanelInv'
  BY DEF DoDisconnect, WebInv, PanelInv, panelVars, serverVars
<1>4. UNCHANGED <<slot, replies, handshaked>> /\ readyState' = "closing"
  BY DEF DoDisconnect, serverVars
<1>5. SlotInv' /\ AwaitedInv'
  BY <1>4 DEF WebInv, SlotInv, AwaitedInv
<1> QED BY <1>2, <1>3, <1>5 DEF WebInv

\* Commands wait for the Ack of the one before, so there is no other to count.
LEMMA CommandStep ==
  ASSUME WebInv, NEW c \in Commands, DoCommand(c)
  PROVE  WebInv'
<1>1. /\ connected /\ ~pending /\ pending' = TRUE
      /\ UNCHANGED <<readyState, helloPending, connected, connecting>>
      /\ UNCHANGED <<replies, ackLost, slot, handshaked>>
      /\ requests' = IF readyState = "open" THEN Append(requests, c) ELSE requests
  BY DEF DoCommand, Send, serverVars
<1>2. c \in Posts /\ c # "Hello"
  BY DEF Posts, Commands
<1>3. WebTypes'
  BY <1>1, <1>2, RequestSent DEF WebInv, WebTypes
<1>4. readyState \in {"open", "closing"}
  BY <1>1 DEF WebInv, WebTypes, PanelInv
<1>5. PanelInv'
  BY <1>1, <1>4 DEF WebInv, PanelInv
<1>6. SlotInv'
  BY <1>1 DEF WebInv, SlotInv
<1>7. AwaitedInv'
  <2> SUFFICES ASSUME readyState = "open", slot = "ours"
               PROVE  AwaitedInv'
    BY <1>1 DEF AwaitedInv
  <2>1. requests' = Append(requests, c) /\ requests \in Seq(Posts)
    BY <1>1 DEF WebInv, WebTypes
  <2>2. /\ Count(requests', Commands) = Count(requests, Commands) + 1
        /\ Count(requests', {"Hello"}) = Count(requests, {"Hello"})
        /\ requests' # <<>>
        /\ requests # <<>> => Head(requests') = Head(requests)
    BY <1>2, <2>1, RequestSent
  <2>3. /\ Outstanding = 0
        /\ Count(requests, {"Hello"}) + Count(replies, {Reply("HelloAck")})
              = IF helloPending THEN 1 ELSE 0
        /\ ~handshaked => requests # <<>> /\ Head(requests) = "Hello"
    BY <1>1 DEF WebInv, AwaitedInv
  <2>4. Outstanding' = 1
    <3>1. Count(requests, Commands) \in Nat /\ Count(replies, {Reply("Ack")}) \in Nat
      BY WebCounts DEF WebInv, Kinds
    <3> QED BY <1>1, <2>2, <2>3, <3>1 DEF Outstanding
  <2> QED BY <1>1, <2>2, <2>3, <2>4 DEF AwaitedInv
<1> QED BY <1>3, <1>5, <1>6, <1>7 DEF WebInv

LEMMA PollStep ==
  ASSUME WebInv, StatusPoll
  PROVE  WebInv'
<1>1. /\ UNCHANGED <<readyState, helloPending, connected, connecting, pending>>
      /\ UNCHANGED <<replies, ackLost, slot, handshaked>>
      /\ requests' = IF readyState = "open" THEN Append(requests, "GetServerStatus")
                                            ELSE requests
  BY DEF StatusPoll, Send, pageVars, panelVars, serverVars
<1>2. "GetServerStatus" \in Posts /\ "GetServerStatus" \notin Commands
  BY DEF Posts, Commands
<1>3. WebTypes'
  BY <1>1, <1>2, RequestSent DEF WebInv, WebTypes
<1>4. PanelInv'
  BY <1>1 DEF WebInv, PanelInv
<1>5. SlotInv'
  BY <1>1 DEF WebInv, SlotInv
<1>6. AwaitedInv'
  <2> SUFFICES ASSUME readyState = "open", slot = "ours"
               PROVE  AwaitedInv'
    BY <1>1 DEF AwaitedInv
  <2>1. requests' = Append(requests, "GetServerStatus") /\ requests \in Seq(Posts)
    BY <1>1 DEF WebInv, WebTypes
  <2>2. /\ Count(requests', Commands) = Count(requests, Commands)
        /\ Count(requests', {"Hello"}) = Count(requests, {"Hello"})
        /\ requests' # <<>>
        /\ requests # <<>> => Head(requests') = Head(requests)
    BY <1>2, <2>1, RequestSent
  <2>3. Outstanding' = Outstanding
    BY <1>1, <2>2 DEF Outstanding
  <2> QED BY <1>1, <2>2, <2>3 DEF WebInv, AwaitedInv
<1> QED BY <1>3, <1>4, <1>5, <1>6 DEF WebInv

\* Taking an answer that is no Ack of what is awaited changes no count.
LEMMA ReceiveStep ==
  ASSUME WebInv, Receive
  PROVE  WebInv'
<1> DEFINE m == Head(replies)
<1>1. replies # <<>> /\ UNCHANGED <<slot, handshaked>>
  BY DEF Receive, serverVars
<1>2. /\ m \in Answers /\ Tail(replies) \in Seq(Answers)
      /\ \A x \in Kinds : Count(replies, {Reply(x)})
                            = IF m.is = x THEN Count(Tail(replies), {Reply(x)}) + 1
                                          ELSE Count(Tail(replies), {Reply(x)})
  BY <1>1, AnswerTaken DEF WebInv, WebTypes
<1>3. \A x \in Kinds : Count(Tail(replies), {Reply(x)}) \in Nat
  BY <1>2, CountIs
<1>4. Count(requests, Commands) \in Nat /\ Count(requests, {"Hello"}) \in Nat
  BY WebCounts DEF WebInv
<1>5. CASE m.is = "Closed" /\ OnClose
  <2>1. slot # "ours"
    BY <1>2, <1>3, <1>5 DEF WebInv, SlotInv, Kinds
  <2> QED BY <1>1, <1>5, <2>1, SocketGone DEF WebInv, WebTypes, SlotInv
<1>6. ASSUME replies' = Tail(replies), UNCHANGED ackLost, m.is # "Closed"
      PROVE  /\ slot = "ours" => Count(replies', {Reply("Closed")}) = 0
             /\ (handshaked' => slot' = "ours") /\ replies' \in Seq(Answers)
  BY <1>1, <1>2, <1>6 DEF WebInv, SlotInv, Kinds
<1>7. CASE /\ m.is # "Closed" /\ replies' = Tail(replies) /\ UNCHANGED ackLost
           /\ readyState = "connecting" /\ m.is = "Upgraded" /\ OnOpen
  <2>1. /\ requests = <<>> /\ ~pending /\ ~connected /\ connecting /\ ~handshaked
        /\ ~ackLost
    BY <1>7 DEF WebInv, PanelInv
  <2>2. /\ requests' = Append(requests, "Hello") /\ "Hello" \in Posts
        /\ "Hello" \notin Commands /\ requests \in Seq(Posts)
    BY <1>7 DEF OnOpen, Posts, Commands, WebInv, WebTypes
  <2>3. /\ requests' \in Seq(Posts) /\ requests' # <<>> /\ Head(requests') = "Hello"
        /\ Count(requests', Commands) = 0 /\ Count(requests', {"Hello"}) = 1
    <3>1. Count(requests, Commands) = 0 /\ Count(requests, {"Hello"}) = 0
      BY <2>1, CountIs
    <3>2. Count(requests', Commands) = Count(requests, Commands)
          /\ Count(requests', {"Hello"}) = Count(requests, {"Hello"}) + 1
      BY <2>2, RequestSent
    <3>3. requests' \in Seq(Posts) /\ requests' # <<>> /\ Head(requests') = "Hello"
      BY <2>1, <2>2, RequestSent
    <3> QED BY <3>1, <3>2, <3>3
  <2>4. /\ readyState' = "open" /\ helloPending' = TRUE
        /\ UNCHANGED <<connected, connecting, pending, ackLost>>
    BY <1>7 DEF OnOpen, panelVars
  <2>5. WebTypes'
    BY <1>1, <1>6, <1>7, <2>3, <2>4 DEF WebInv, WebTypes
  <2>6. PanelInv'
    BY <2>1, <2>4 DEF PanelInv
  <2>7. SlotInv'
    BY <1>1, <1>6, <1>7, <2>4 DEF SlotInv
  <2>8. slot = "ours" => \A x \in Kinds : Count(replies', {Reply(x)}) = 0
    <3> SUFFICES ASSUME slot = "ours" PROVE \A x \in Kinds : Count(replies', {Reply(x)}) = 0
      OBVIOUS
    <3>1. replies = <<Reply("Upgraded")>>
      BY <1>7 DEF WebInv, SlotInv
    <3>2. Tail(replies) = <<>>
      BY <3>1
    <3> QED BY <1>7, <3>2, CountIs
  <2>9. AwaitedInv'
    BY <1>1, <2>1, <2>3, <2>4, <2>8 DEF AwaitedInv, Outstanding, Kinds
  <2> QED BY <2>5, <2>6, <2>7, <2>9 DEF WebInv
<1>8. CASE /\ m.is # "Closed" /\ replies' = Tail(replies) /\ UNCHANGED ackLost
           /\ readyState = "open" /\ m.is \in {"HelloAck", "Ack"}
           /\ HandleAck(m.is = "HelloAck")
  <2>1. /\ UNCHANGED <<readyState, requests>> /\ helloPending' \in BOOLEAN
        /\ pending' \in BOOLEAN /\ connected' \in BOOLEAN /\ connecting' \in BOOLEAN
        /\ connected' \/ connecting'
    <3>1. connected \/ connecting
      BY <1>8 DEF WebInv, PanelInv
    <3>2. /\ helloPending \in BOOLEAN /\ pending \in BOOLEAN
          /\ connected \in BOOLEAN /\ connecting \in BOOLEAN
      BY DEF WebInv, WebTypes
    <3>3. CASE OnReady
      BY <3>2, <3>3 DEF OnReady
    <3>4. CASE OnAck
      BY <3>1, <3>2, <3>4 DEF OnAck
    <3> QED BY <1>8, <3>3, <3>4, Zenon DEF HandleAck
  <2>2. WebTypes'
    BY <1>1, <1>6, <1>8, <2>1 DEF WebInv, WebTypes
  <2>3. PanelInv' /\ SlotInv'
    BY <1>1, <1>6, <1>8, <2>1 DEF PanelInv, SlotInv
  <2>4. AwaitedInv'
    <3> SUFFICES ASSUME slot = "ours"
                 PROVE  AwaitedInv'
      BY <1>1 DEF AwaitedInv
    <3>1. /\ Outstanding = IF pending THEN 1 ELSE 0
          /\ Count(requests, {"Hello"}) + Count(replies, {Reply("HelloAck")})
                = IF helloPending THEN 1 ELSE 0
          /\ ~handshaked => requests # <<>> /\ Head(requests) = "Hello"
      BY <1>8 DEF WebInv, AwaitedInv
    <3>2. CASE m.is = "HelloAck"
      <4>1. /\ Count(replies, {Reply("HelloAck")}) = Count(replies', {Reply("HelloAck")}) + 1
            /\ Count(replies, {Reply("Ack")}) = Count(replies', {Reply("Ack")})
            /\ Count(replies', {Reply("HelloAck")}) \in Nat
        BY <1>2, <1>3, <1>8, <3>2 DEF Kinds
      <4>2. helloPending
        BY <1>4, <3>1, <4>1
      <4>3. OnReady
        BY <1>8, <3>2, <4>2 DEF HandleAck
      <4>4. Outstanding' = Outstanding
        BY <1>8, <2>1, <4>1 DEF Outstanding
      <4>5. Count(requests', {"Hello"}) + Count(replies', {Reply("HelloAck")}) = 0
        BY <1>4, <2>1, <3>1, <4>1, <4>2
      <4> QED BY <1>1, <2>1, <3>1, <4>3, <4>4, <4>5 DEF AwaitedInv, OnReady
    <3>3. CASE m.is = "Ack"
      <4>1. /\ Count(replies, {Reply("HelloAck")}) = Count(replies', {Reply("HelloAck")})
            /\ Count(replies, {Reply("Ack")}) = Count(replies', {Reply("Ack")}) + 1
            /\ Count(replies', {Reply("Ack")}) \in Nat
        BY <1>2, <1>3, <1>8, <3>3 DEF Kinds
      <4>2. OnAck
        BY <1>8, <3>3 DEF HandleAck
      <4>3. Outstanding' = 0
        BY <1>4, <1>8, <2>1, <3>1, <4>1 DEF Outstanding
      <4> QED BY <1>1, <2>1, <3>1, <4>1, <4>2, <4>3 DEF AwaitedInv, OnAck
    <3> QED BY <1>8, <3>2, <3>3
  <2> QED BY <2>2, <2>3, <2>4 DEF WebInv
<1>9. CASE /\ m.is # "Closed" /\ replies' = Tail(replies) /\ UNCHANGED ackLost
           /\ readyState = "open" /\ m.is = "Status" /\ OnStatus(m.opened)
  <2>1. UNCHANGED <<readyState, helloPending, connected, connecting, pending, requests>>
    BY <1>9 DEF OnStatus
  <2>2. WebTypes'
    BY <1>1, <1>6, <1>9, <2>1 DEF WebInv, WebTypes
  <2>3. PanelInv' /\ SlotInv'
    BY <1>1, <1>6, <1>9, <2>1 DEF WebInv, PanelInv, SlotInv
  <2>4. /\ Count(replies', {Reply("HelloAck")}) = Count(replies, {Reply("HelloAck")})
        /\ Count(replies', {Reply("Ack")}) = Count(replies, {Reply("Ack")})
    BY <1>2, <1>9 DEF Kinds
  <2>5. AwaitedInv'
    BY <1>1, <1>9, <2>1, <2>4 DEF WebInv, AwaitedInv, Outstanding
  <2> QED BY <2>2, <2>3, <2>5 DEF WebInv
<1>10. CASE /\ m.is # "Closed" /\ replies' = Tail(replies) /\ UNCHANGED ackLost
            /\ readyState = "closing" /\ UNCHANGED <<pageVars, requests>>
  <2>1. UNCHANGED <<readyState, helloPending, connected, connecting, pending, requests>>
    BY <1>10 DEF pageVars, panelVars
  <2>2. WebTypes'
    BY <1>1, <1>6, <1>10, <2>1 DEF WebInv, WebTypes
  <2>3. PanelInv' /\ SlotInv' /\ AwaitedInv'
    BY <1>1, <1>6, <1>10, <2>1 DEF WebInv, PanelInv, SlotInv, AwaitedInv
  <2> QED BY <2>2, <2>3 DEF WebInv
<1> QED BY <1>5, <1>7, <1>8, <1>9, <1>10 DEF Receive

-----------------------------------------------------------------------------
(* The server's steps, and the others'                                      *)

\* Two answers are posted one after the other.
LEMMA TwoAnswers ==
  ASSUME NEW s \in Seq(Answers), NEW a \in Answers, NEW b \in Answers
  PROVE  s \o <<a, b>> = Append(Append(s, a), b)
OBVIOUS

\* An end that is posted, or the others' coming and going, is past the slot.
LEMMA SlotLeft ==
  ASSUME WebInv, slot' \in {"free", "other"}, ~handshaked', handshaked' \in BOOLEAN,
         UNCHANGED <<readyState, helloPending, connected, connecting, pending>>,
         ackLost' = ackLost, requests' \in Seq(Posts), replies' \in Seq(Answers),
         requests = <<>> => requests' = <<>>
  PROVE  WebInv'
<1>1. WebTypes'
  BY DEF WebInv, WebTypes
<1>2. PanelInv'
  BY DEF WebInv, PanelInv
<1>3. SlotInv' /\ AwaitedInv'
  BY DEF WebInv, WebTypes, SlotInv, AwaitedInv
<1> QED BY <1>1, <1>2, <1>3 DEF WebInv

\* A status that is posted changes nothing that is awaited.
LEMMA StatusPosted ==
  ASSUME WebInv, NEW b \in BOOLEAN,
         Posted(Status(b)) \/ UNCHANGED replies,
         ~(readyState = "connecting" /\ slot = "ours") \/ UNCHANGED replies,
         UNCHANGED <<readyState, helloPending, connected, connecting, pending>>,
         UNCHANGED <<requests, ackLost, slot, handshaked>>
  PROVE  WebInv'
<1>1. /\ replies' \in Seq(Answers)
      /\ \A x \in Kinds : Count(replies', {Reply(x)}) = Count(replies, {Reply(x)})
  <2>1. CASE Posted(Status(b))
    <3>1. Status(b) \in Answers /\ \A x \in Kinds : Status(b).is # x
      BY AnswerKinds DEF Kinds
    <3> QED BY <2>1, <3>1, AnswerSent DEF Posted, WebInv, WebTypes
  <2>2. CASE UNCHANGED replies
    BY <2>2 DEF WebInv, WebTypes
  <2> QED BY <2>1, <2>2
<1>2. /\ Count(replies', {Reply("Closed")}) = Count(replies, {Reply("Closed")})
      /\ Count(replies', {Reply("HelloAck")}) = Count(replies, {Reply("HelloAck")})
      /\ Count(replies', {Reply("Ack")}) = Count(replies, {Reply("Ack")})
  BY <1>1 DEF Kinds
<1>3. WebTypes'
  BY <1>1 DEF WebInv, WebTypes
<1>4. PanelInv'
  BY DEF WebInv, PanelInv
<1>5. SlotInv'
  BY <1>2 DEF WebInv, SlotInv
<1>6. AwaitedInv'
  BY <1>2 DEF WebInv, AwaitedInv, Outstanding
<1> QED BY <1>3, <1>4, <1>5, <1>6 DEF WebInv

LEMMA OpensStep ==
  ASSUME WebInv, ServerOpens
  PROVE  WebInv'
<1>1. /\ readyState = "connecting" /\ replies = <<>> /\ ~handshaked /\ requests \in Seq(Posts)
      /\ UNCHANGED <<readyState, helloPending, connected, connecting, pending>>
      /\ UNCHANGED <<requests, ackLost, handshaked>>
  BY DEF ServerOpens, pageVars, panelVars, WebInv, WebTypes, PanelInv
<1>2. /\ Reply("Upgraded") \in Answers /\ Reply("Closed") \in Answers
      /\ Reply("Upgraded").is = "Upgraded" /\ <<>> \in Seq(Answers)
  BY AnswerKinds, EmptySeq DEF Kinds
<1>3. CASE slot' = "ours" /\ Posted(Reply("Upgraded"))
  <2>1. replies' = <<Reply("Upgraded")>>
    BY <1>1, <1>3 DEF Posted
  <2>2. replies' = Append(<<>>, Reply("Upgraded"))
    BY <1>1, <1>3 DEF Posted
  <2>3. replies' \in Seq(Answers) /\ Count(replies', {Reply("Closed")}) = 0
    <3>1. Count(<<>>, {Reply("Closed")}) = 0
      BY CountIs
    <3> QED BY <1>2, <2>2, <3>1, AnswerSent DEF Kinds
  <2>4. WebTypes'
    BY <1>1, <1>3, <2>3 DEF WebInv, WebTypes
  <2>5. PanelInv'
    BY <1>1 DEF WebInv, PanelInv
  <2>6. SlotInv' /\ AwaitedInv'
    BY <1>1, <1>3, <2>1, <2>3 DEF SlotInv, AwaitedInv
  <2> QED BY <2>4, <2>5, <2>6 DEF WebInv
<1>4. CASE slot = "other" /\ UNCHANGED slot
           /\ replies' = <<Reply("Upgraded"), Reply("Closed")>>
  <2>1. replies' \in Seq(Answers)
    BY <1>2, <1>4
  <2>2. /\ slot' = "other" /\ handshaked' = FALSE /\ ackLost' = ackLost
        /\ requests' = requests
    BY <1>1, <1>4 DEF WebInv, WebTypes
  <2> QED BY <1>1, <2>1, <2>2, SlotLeft
<1> QED BY <1>3, <1>4 DEF ServerOpens

\* A request is taken when it has its turn, and answered with what the page awaits.
LEMMA ReceivesStep ==
  ASSUME WebInv, streamOpened \in BOOLEAN, ServerReceives
  PROVE  WebInv'
<1> DEFINE m == Head(requests)
<1>1. /\ requests # <<>> /\ slot = "ours" /\ requests' = Tail(requests)
      /\ UNCHANGED <<readyState, helloPending, connected, connecting, pending>>
      /\ requests \in Seq(Posts) /\ replies \in Seq(Answers)
  BY DEF ServerReceives, pageVars, panelVars, WebInv, WebTypes
<1>2. readyState \in {"open", "closing"}
  BY <1>1 DEF WebInv, WebTypes, PanelInv
<1>3. /\ m \in Posts /\ requests' \in Seq(Posts)
      /\ Count(requests, Commands) = IF m \in Commands THEN Count(requests', Commands) + 1
                                                       ELSE Count(requests', Commands)
      /\ Count(requests, {"Hello"}) = IF m = "Hello" THEN Count(requests', {"Hello"}) + 1
                                                     ELSE Count(requests', {"Hello"})
  BY <1>1, RequestTaken
<1>4. /\ Count(requests', Commands) \in Nat /\ Count(requests', {"Hello"}) \in Nat
      /\ \A x \in Kinds : Count(replies, {Reply(x)}) \in Nat
  BY <1>3, WebCounts, CountIs DEF WebInv
<1>5. CASE m = "Hello" /\ ServerGreets
  <2> DEFINE one == Append(replies, Reply("HelloAck"))
             two == Append(one, Status(streamOpened))
  <2>1. replies' = replies \o <<Reply("HelloAck"), Status(streamOpened)>>
        /\ handshaked' = TRUE /\ UNCHANGED <<ackLost, slot>>
    BY <1>5 DEF ServerGreets
  <2>2. /\ Reply("HelloAck") \in Answers /\ Status(streamOpened) \in Answers
        /\ Reply("HelloAck").is = "HelloAck" /\ Status(streamOpened).is = "Status"
    BY AnswerKinds DEF Kinds
  <2>3. replies' = two
    BY <1>1, <2>1, <2>2, TwoAnswers
  <2>4. /\ replies' \in Seq(Answers)
        /\ Count(replies', {Reply("HelloAck")}) = Count(replies, {Reply("HelloAck")}) + 1
        /\ Count(replies', {Reply("Ack")}) = Count(replies, {Reply("Ack")})
        /\ Count(replies', {Reply("Closed")}) = Count(replies, {Reply("Closed")})
    <3>1. one \in Seq(Answers)
      BY <1>1, <2>2, AnswerSent
    <3>2. \A x \in Kinds : Count(one, {Reply(x)})
                = IF x = "HelloAck" THEN Count(replies, {Reply(x)}) + 1
                                    ELSE Count(replies, {Reply(x)})
      BY <1>1, <2>2, AnswerSent
    <3>3. two \in Seq(Answers)
          /\ \A x \in Kinds : Count(two, {Reply(x)}) = Count(one, {Reply(x)})
      BY <2>2, <3>1, AnswerSent DEF Kinds
    <3> QED BY <2>3, <3>2, <3>3 DEF Kinds
  <2>5. WebTypes'
    BY <1>1, <1>3, <2>1, <2>4 DEF WebInv, WebTypes
  <2>6. PanelInv' /\ SlotInv'
    BY <1>1, <1>2, <2>1, <2>4 DEF WebInv, PanelInv, SlotInv
  <2>7. Outstanding' = Outstanding
    BY <1>3, <1>5, <2>1, <2>4 DEF Outstanding, Commands
  <2>8. Count(requests', {"Hello"}) + Count(replies', {Reply("HelloAck")})
          = Count(requests, {"Hello"}) + Count(replies, {Reply("HelloAck")})
    BY <1>3, <1>4, <1>5, <2>4 DEF Kinds
  <2>9. AwaitedInv'
    BY <1>1, <2>1, <2>7, <2>8 DEF WebInv, AwaitedInv
  <2> QED BY <2>5, <2>6, <2>9 DEF WebInv
<1>6. CASE m \in Commands /\ handshaked /\ ServerObeys(m)
  <2>1. UNCHANGED <<slot, handshaked>> /\ handshaked
    BY <1>6 DEF ServerObeys
  <2>2. /\ replies' \in Seq(Answers) /\ ackLost' \in BOOLEAN
        /\ Count(replies', {Reply("HelloAck")}) = Count(replies, {Reply("HelloAck")})
        /\ Count(replies', {Reply("Closed")}) = Count(replies, {Reply("Closed")})
    <3>1. CASE Posted(Reply("Ack")) /\ UNCHANGED ackLost
      <4>1. Reply("Ack") \in Answers /\ Reply("Ack").is = "Ack"
        BY AnswerKinds DEF Kinds
      <4> QED BY <1>1, <3>1, <4>1, AnswerSent DEF Posted, Kinds, WebInv, WebTypes
    <3>2. CASE UNCHANGED replies /\ ackLost' = TRUE
      BY <1>1, <3>2
    <3> QED BY <1>6, <3>1, <3>2 DEF ServerObeys
  <2>3. WebTypes'
    BY <1>1, <1>3, <2>1, <2>2 DEF WebInv, WebTypes
  <2>4. PanelInv' /\ SlotInv'
    BY <1>1, <1>2, <2>1, <2>2 DEF WebInv, PanelInv, SlotInv
  <2>5. AwaitedInv'
    <3> SUFFICES ASSUME readyState = "open"
                 PROVE  AwaitedInv'
      BY <1>1 DEF AwaitedInv
    <3>1. /\ Outstanding = IF pending THEN 1 ELSE 0
          /\ Count(requests, {"Hello"}) + Count(replies, {Reply("HelloAck")})
                = IF helloPending THEN 1 ELSE 0
      BY <1>1 DEF WebInv, AwaitedInv
    <3>2. Count(requests, Commands) = Count(requests', Commands) + 1 /\ m # "Hello"
      BY <1>3, <1>6 DEF Commands
    <3>3. Count(replies, {Reply("Ack")}) \in Nat
      BY <1>4 DEF Kinds
    <3>4. ~ackLost /\ pending /\ Outstanding = 1
      BY <1>4, <3>1, <3>2, <3>3 DEF Outstanding
    <3>5. Outstanding' = 1
      <4>1. CASE Posted(Reply("Ack")) /\ UNCHANGED ackLost
        <5>1. Reply("Ack") \in Answers /\ Reply("Ack").is = "Ack"
          BY AnswerKinds DEF Kinds
        <5>2. Count(replies', {Reply("Ack")}) = Count(replies, {Reply("Ack")}) + 1
          BY <1>1, <4>1, <5>1, AnswerSent DEF Posted, Kinds
        <5> QED BY <1>4, <3>2, <3>3, <3>4, <4>1, <5>2 DEF Outstanding
      <4>2. CASE UNCHANGED replies /\ ackLost' = TRUE
        BY <1>4, <3>2, <3>3, <3>4, <4>2 DEF Outstanding
      <4> QED BY <1>6, <4>1, <4>2 DEF ServerObeys
    <3>6. Count(requests', {"Hello"}) = Count(requests, {"Hello"})
      BY <1>3, <3>2
    <3>7. Outstanding' = IF pending' THEN 1 ELSE 0
      BY <1>1, <3>4, <3>5
    <3>8. Count(requests', {"Hello"}) + Count(replies', {Reply("HelloAck")})
            = IF helloPending' THEN 1 ELSE 0
      BY <1>1, <2>2, <3>1, <3>6
    <3>9. handshaked'
      BY <2>1
    <3> QED BY <3>7, <3>8, <3>9 DEF AwaitedInv
  <2> QED BY <2>3, <2>4, <2>5 DEF WebInv
<1>7. CASE m = "GetServerStatus" /\ handshaked /\ ServerTells
  <2>1. /\ UNCHANGED <<ackLost, slot, handshaked>>
        /\ Posted(Status(streamOpened)) \/ UNCHANGED replies
    BY <1>7 DEF ServerTells, MayBeLost, serverVars
  <2>2. /\ replies' \in Seq(Answers)
        /\ \A x \in Kinds : Count(replies', {Reply(x)}) = Count(replies, {Reply(x)})
    <3>1. Status(streamOpened) \in Answers /\ \A x \in Kinds : Status(streamOpened).is # x
      BY AnswerKinds DEF Kinds
    <3>2. CASE Posted(Status(streamOpened))
      BY <1>1, <3>1, <3>2, AnswerSent DEF Posted
    <3>3. CASE UNCHANGED replies
      BY <1>1, <3>3
    <3> QED BY <2>1, <3>2, <3>3
  <2>3. /\ Count(replies', {Reply("Closed")}) = Count(replies, {Reply("Closed")})
        /\ Count(replies', {Reply("HelloAck")}) = Count(replies, {Reply("HelloAck")})
        /\ Count(replies', {Reply("Ack")}) = Count(replies, {Reply("Ack")})
    BY <2>2 DEF Kinds
  <2>4. WebTypes'
    BY <1>1, <1>3, <2>1, <2>2 DEF WebInv, WebTypes
  <2>5. PanelInv' /\ SlotInv'
    BY <1>1, <1>2, <2>1, <2>3 DEF WebInv, PanelInv, SlotInv
  <2>6. Outstanding' = Outstanding /\ Count(requests', {"Hello"}) = Count(requests, {"Hello"})
    BY <1>3, <1>7, <2>1, <2>3 DEF Outstanding, Commands
  <2>7. AwaitedInv'
    BY <1>1, <1>7, <2>1, <2>3, <2>6 DEF WebInv, AwaitedInv
  <2> QED BY <2>4, <2>5, <2>7 DEF WebInv
<1>8. CASE m = "Disconnect" /\ ServerDisconnects
  <2>1. slot' = "free" /\ handshaked' = FALSE /\ UNCHANGED ackLost
    BY <1>8 DEF ServerDisconnects, Released
  <2>2. replies' \in Seq(Answers)
    BY <1>1, <1>8, AnswerKinds, AnswerSent DEF ServerDisconnects, Posted, Kinds
  <2> QED BY <1>1, <1>3, <2>1, <2>2, SlotLeft
<1> QED BY <1>5, <1>6, <1>7, <1>8 DEF ServerReceives

\* Nothing else that happens reaches what the page awaits.
LEMMA OthersStep ==
  ASSUME WebInv, streamOpened \in BOOLEAN, ServerEnds \/ Publish \/ Others
  PROVE  WebInv'
<1>1. requests \in Seq(Posts) /\ replies \in Seq(Answers) /\ handshaked \in BOOLEAN
      /\ slot \in {"free", "ours", "other"}
  BY DEF WebInv, WebTypes
<1>2. CASE ServerEnds
  <2>1. replies' \in Seq(Answers)
    <3>1. Reply("Closed") \in Answers
      BY AnswerKinds DEF Kinds
    <3> QED BY <1>1, <1>2, <3>1, AnswerSent DEF ServerEnds, ServerDisconnects, Posted
  <2>2. /\ slot' = "free" /\ handshaked' = FALSE /\ UNCHANGED <<ackLost, requests>>
        /\ UNCHANGED <<readyState, helloPending, connected, connecting, pending>>
    BY <1>2 DEF ServerEnds, ServerDisconnects, Released, pageVars, panelVars
  <2> QED BY <1>1, <2>1, <2>2, SlotLeft
<1>3. CASE Publish
  <2>1. /\ UNCHANGED <<readyState, helloPending, connected, connecting, pending>>
        /\ UNCHANGED <<requests, ackLost, slot, handshaked>>
        /\ IF slot = "ours" /\ handshaked THEN MayBeLost(Status(streamOpened))
                                          ELSE UNCHANGED replies
    BY <1>3 DEF Publish, pageVars, panelVars
  <2>2. Posted(Status(streamOpened)) \/ UNCHANGED replies
    BY <2>1 DEF MayBeLost
  <2>3. ~(readyState = "connecting" /\ slot = "ours") \/ UNCHANGED replies
    BY <2>1 DEF WebInv, PanelInv
  <2> QED BY <2>1, <2>2, <2>3, StatusPosted
<1>4. CASE Broken
  <2>1. slot' \in {"free", "other"} /\ handshaked' = FALSE /\ OnClose
    BY <1>1, <1>4 DEF Broken
  <2> QED BY <2>1, SocketGone
<1>5. CASE OtherComes \/ OtherLeaves
  <2>1. slot # "ours" /\ slot' \in {"free", "other"} /\ UNCHANGED <<pageVars, socketVars>>
        /\ (handshaked' = handshaked \/ handshaked' = FALSE)
    BY <1>5 DEF OtherComes, OtherLeaves, Released
  <2>2. handshaked' = FALSE
    BY <1>1, <2>1 DEF WebInv, SlotInv
  <2>3. /\ UNCHANGED <<ackLost, requests, replies>>
        /\ UNCHANGED <<readyState, helloPending, connected, connecting, pending>>
    BY <2>1 DEF pageVars, panelVars, socketVars
  <2> QED BY <1>1, <2>1, <2>2, <2>3, SlotLeft
<1>6. CASE OtherCommand
  <2>1. /\ UNCHANGED <<readyState, helloPending, connected, connecting, pending>>
        /\ UNCHANGED <<requests, replies, ackLost, slot, handshaked>>
    BY <1>6 DEF OtherCommand, pageVars, panelVars, socketVars
  <2> QED BY <2>1, StatusPosted
<1> QED BY <1>2, <1>3, <1>4, <1>5, <1>6 DEF Others

-----------------------------------------------------------------------------

\* A source is open or it is not.
LEMMA StreamTyped ==
  ASSUME streamOpened \in BOOLEAN, [WebNext]_webVars
  PROVE  streamOpened' \in BOOLEAN
<1>1. CASE \E b \in BOOLEAN : Streams(b)
  BY <1>1 DEF Streams
<1>2. CASE UNCHANGED streamOpened
  BY <1>2
<1>3. CASE Page
  BY <1>2, <1>3 DEF Page, DoConnect, DoDisconnect, StatusPoll, Receive, DoCommand,
                    serverVars, streamVars
<1>4. CASE Server
  <2>1. CASE ServerOpens \/ ServerEnds \/ Publish
    BY <1>1, <1>2, <2>1 DEF ServerOpens, ServerEnds, ServerDisconnects, Released, Publish,
                            streamVars
  <2>2. CASE ServerReceives
    BY <1>1, <1>2, <2>2 DEF ServerReceives, ServerGreets, ServerObeys, ServerTells,
         ServerDisconnects, Released, Flags, streamVars, serverVars
  <2> QED BY <1>4, <2>1, <2>2 DEF Server
<1>5. CASE Others
  BY <1>1, <1>2, <1>5 DEF Others, Broken, OtherComes, OtherLeaves, OtherCommand, Released,
                          Flags, streamVars
<1>6. CASE UNCHANGED webVars
  BY <1>2, <1>6 DEF webVars, serverVars, streamVars
<1> QED BY <1>3, <1>4, <1>5, <1>6 DEF WebNext

LEMMA WebStep ==
  ASSUME WebInv, streamOpened \in BOOLEAN, [WebNext]_webVars
  PROVE  WebInv'
<1>1. CASE Page
  BY <1>1, ConnectStep, DisconnectStep, PollStep, ReceiveStep, CommandStep DEF Page
<1>2. CASE Server
  BY <1>2, OpensStep, ReceivesStep, OthersStep DEF Server
<1>3. CASE Others
  BY <1>3, OthersStep
<1>4. CASE UNCHANGED webVars
  <2>1. /\ UNCHANGED <<readyState, helloPending, connected, connecting, pending>>
        /\ UNCHANGED <<requests, replies, ackLost, slot, handshaked>>
    BY <1>4 DEF webVars, pageVars, panelVars, socketVars, serverVars
  <2> QED BY <2>1, StatusPosted
<1> QED BY <1>1, <1>2, <1>3, <1>4 DEF WebNext

\* However commands, drops, reconnections and clicks on a dying socket fall together,
\* an open page awaits exactly the command that is under way, and the Hello is the
\* first and the only one that the server sees of its kind.
THEOREM OneCommandIsUnderWay == WebSpec => []OneCommandAtATime
<1> DEFINE Typed == streamOpened \in BOOLEAN
<1>1. WebInit => WebInv /\ Typed
  <2> SUFFICES ASSUME WebInit
               PROVE  WebInv /\ Typed
    OBVIOUS
  <2>1. WebTypes
    BY EmptySeq DEF WebInit, WebTypes
  <2>2. PanelInv /\ SlotInv /\ AwaitedInv
    BY DEF WebInit, PanelInv, SlotInv, AwaitedInv
  <2>3. Typed
    BY DEF WebInit
  <2> QED BY <2>1, <2>2, <2>3 DEF WebInv
<1>2. WebInv /\ Typed /\ [WebNext]_webVars => WebInv' /\ Typed'
  BY WebStep, StreamTyped
<1>3. WebInv => OneCommandAtATime
  BY DEF WebInv, AwaitedInv, OneCommandAtATime
<1> HIDE DEF Typed
<1> QED BY <1>1, <1>2, <1>3, PTL DEF WebSpec

-----------------------------------------------------------------------------
(* The log panel's rows                                                     *)

\* The members of a finite set of numbers, each once and from the least on.
LEMMA InOrderIs ==
  ASSUME NEW S \in SUBSET Nat, IsFiniteSet(S)
  PROVE  /\ {InOrder(S)[k] : k \in DOMAIN InOrder(S)} = S
         /\ \A k, l \in DOMAIN InOrder(S) : k < l => InOrder(S)[k] < InOrder(S)[l]
<1> DEFINE upTo(i) == {j \in S : j <= i}
           n == Cardinality(S)
           place == [i \in S |-> Cardinality(upTo(i))]
<1>1. n \in Nat
  BY FS_CardinalityType
<1>2. ASSUME NEW i \in S
      PROVE  IsFiniteSet(upTo(i)) /\ place[i] \in 1..n
  <2>1. IsFiniteSet(upTo(i)) /\ Cardinality(upTo(i)) <= n
    BY FS_Subset
  <2>2. i \in upTo(i)
    OBVIOUS
  <2>3. Cardinality(upTo(i)) \in Nat /\ Cardinality(upTo(i)) # 0
    BY <2>1, <2>2, FS_CardinalityType, FS_EmptySet
  <2> HIDE DEF upTo, n
  <2> QED BY <1>1, <2>1, <2>3
<1>3. ASSUME NEW i \in S, NEW j \in S, i < j
      PROVE  place[i] < place[j]
  <2>1. upTo(i) \in SUBSET upTo(j) /\ upTo(i) # upTo(j)
    <3>1. i \in Nat /\ j \in Nat /\ \A k \in S : k \in Nat
      OBVIOUS
    <3>2. \A k \in S : k <= i => k <= j
      BY <1>3, <3>1
    <3>3. j <= j /\ ~(j <= i)
      BY <1>3, <3>1
    <3>4. j \in upTo(j) /\ j \notin upTo(i)
      BY <3>3
    <3>5. upTo(i) \in SUBSET upTo(j)
      BY <3>2
    <3> QED BY <3>4, <3>5
  <2>2. Cardinality(upTo(i)) <= Cardinality(upTo(j))
        /\ Cardinality(upTo(i)) # Cardinality(upTo(j))
    BY <1>2, <2>1, FS_Subset
  <2>3. Cardinality(upTo(i)) \in Nat /\ Cardinality(upTo(j)) \in Nat
    BY <1>2, FS_CardinalityType
  <2> HIDE DEF upTo
  <2> QED BY <2>2, <2>3
<1>4. \A i, j \in S : i # j => i < j \/ j < i
  OBVIOUS
<1>5. \A i \in S : place[i] = Cardinality({j \in S : j <= i})
  OBVIOUS
<1>6. place \in [S -> 1..n]
  BY <1>2
<1> HIDE DEF place
<1>7. \A i \in S : place[i] \in Nat
  BY <1>1, <1>6
<1>8. place \in Injection(S, 1..n)
  <2>1. \A i, j \in S : place[i] = place[j] => i = j
    BY <1>3, <1>4, <1>7
  <2> QED BY <1>6, <2>1 DEF Injection, IsInjective
<1>9. place \in Surjection(S, 1..n)
  <2>1. IsFiniteSet(1..n) /\ Cardinality(1..n) = n
    BY <1>1, FS_Interval
  <2> QED BY <1>8, <2>1, FS_Injection
<1>10. \A k \in 1..n : \E i \in S : place[i] = k
  BY <1>9 DEF Surjection
<1>11. \A i, j \in S : /\ i < j => place[i] < place[j]
                       /\ place[i] = place[j] => i = j
  BY <1>3, <1>4, <1>7
<1>12. ASSUME NEW k \in 1..n
       PROVE  InOrder(S)[k] \in S /\ place[InOrder(S)[k]] = k
  <2>1. \E i \in S : Cardinality({j \in S : j <= i}) = k
    BY <1>5, <1>10
  <2>2. InOrder(S)[k] = CHOOSE i \in S : Cardinality({j \in S : j <= i}) = k
    BY DEF InOrder
  <2>3. InOrder(S)[k] \in S /\ Cardinality({j \in S : j <= InOrder(S)[k]}) = k
    BY <2>1, <2>2, Zenon
  <2> QED BY <1>5, <2>3
<1>13. DOMAIN InOrder(S) = 1..n
  BY DEF InOrder
<1> HIDE DEF n
<1>14. ASSUME NEW i \in S
       PROVE  \E k \in 1..n : InOrder(S)[k] = i
  <2> DEFINE k == place[i]
             c == InOrder(S)[k]
  <2>1. k \in 1..n
    BY <1>6
  <2> HIDE DEF k
  <2>2. c \in S /\ place[c] = k
    BY <1>12, <2>1
  <2> HIDE DEF c
  <2>3. c = i
    BY <1>11, <2>2 DEF k
  <2> QED BY <2>1, <2>3 DEF c
<1>15. ASSUME NEW k \in 1..n, NEW l \in 1..n, k < l
       PROVE  InOrder(S)[k] < InOrder(S)[l]
  <2> DEFINE c == InOrder(S)[k]
             d == InOrder(S)[l]
  <2>1. /\ c \in S /\ place[c] = k
        /\ d \in S /\ place[d] = l
    BY <1>12
  <2> HIDE DEF c, d
  <2>2. c # d
    BY <1>1, <1>15, <2>1
  <2>3. ~(d < c)
    <3> SUFFICES ASSUME d < c PROVE FALSE
      OBVIOUS
    <3>1. l < k
      BY <1>11, <2>1
    <3> QED BY <1>1, <1>15, <3>1
  <2>4. c < d
    BY <1>4, <2>1, <2>2, <2>3
  <2> QED BY <2>4 DEF c, d
<1> QED BY <1>12, <1>13, <1>14, <1>15

\* Rows that are not to be collected anew are those the filters let through.
RowsInv ==
  /\ version \in Nat /\ visibleVersion \in Nat /\ visibleVersion <= version
  /\ visibleDirty \in BOOLEAN
  /\ ~visibleDirty /\ visibleVersion = version => visible = RebuildVisible

\* The rows depend on the records and the filters alone.
LEMMA RowsDepend ==
  ASSUME UNCHANGED <<records, levelMask, filter>>
  PROVE  RebuildVisible' = RebuildVisible
BY DEF RebuildVisible, Passes

\* The version and the mark give away whatever has changed.
LEMMA RowsKept ==
  ASSUME RowsInv, [LogNext]_logVars
  PROVE  RowsInv'
<1>1. ASSUME version' = version + 1, UNCHANGED <<visibleVersion, visibleDirty>>
      PROVE  RowsInv'
  BY <1>1 DEF RowsInv
<1>2. ASSUME UNCHANGED <<records, levelMask, filter>>, UNCHANGED <<version, cacheVars>>
      PROVE  RowsInv'
  BY <1>2, RowsDepend DEF RowsInv, cacheVars
<1>3. ASSUME NEW r \in Record, Sink(r) PROVE RowsInv'
  BY <1>1, <1>3 DEF Sink, cacheVars
<1>4. CASE Buttons
  BY <1>1, <1>2, <1>4 DEF Buttons, Clear, sinkVars, cacheVars
<1>5. CASE Chips
  <2>1. UNCHANGED <<records, version, visible, visibleVersion>>
    BY <1>5 DEF Chips, sinkVars
  <2>2. visibleDirty' \in BOOLEAN
    BY <1>5 DEF Chips, FilterChanges, RowsInv
  <2>3. CASE visibleDirty'
    BY <2>1, <2>2, <2>3 DEF RowsInv
  <2>4. CASE ~visibleDirty'
    <3>1. ~visibleDirty /\ UNCHANGED <<levelMask, filter>>
      BY <1>5, <2>4 DEF Chips, FilterChanges
    <3>2. visibleDirty' = visibleDirty
      BY <2>2, <2>4, <3>1 DEF RowsInv
    <3> QED BY <1>2, <2>1, <3>1, <3>2 DEF cacheVars
  <2> QED BY <2>3, <2>4
<1>6. CASE DrawList
  <2>1. UNCHANGED <<records, version, levelMask, filter>>
    BY <1>6 DEF DrawList, sinkVars
  <2>2. CASE UNCHANGED cacheVars
    BY <1>2, <2>1, <2>2
  <2>3. CASE visible' = RebuildVisible /\ visibleVersion' = version /\ visibleDirty' = FALSE
    <3>1. RebuildVisible' = RebuildVisible
      BY <2>1, RowsDepend
    <3>2. visible' = RebuildVisible'
      BY <2>3, <3>1
    <3>3. version' = version /\ visibleVersion' = version /\ visibleDirty' = FALSE
      BY <2>1, <2>3
    <3>4. version \in Nat /\ version <= version
      BY DEF RowsInv
    <3> QED BY <3>2, <3>3, <3>4 DEF RowsInv
  <2> QED BY <1>6, <2>2, <2>3 DEF DrawList
<1>7. CASE UNCHANGED logVars
  BY <1>2, <1>7 DEF logVars, sinkVars
<1> QED BY <1>3, <1>4, <1>5, <1>6, <1>7 DEF LogNext

\* Whenever the list is drawn, its rows are the buffer's records that the filters let
\* through, in their order, whatever happened since the rows were collected.
THEOREM DrawnRowsAreCurrent == LogSpec => RowsAreFiltered
<1> DEFINE Draws == drawing = "list" /\ drawing' = "toolbar"
<1>1. ASSUME records \in Seq(Record)
      PROVE  RowsAre(RebuildVisible)
  <2> DEFINE S == {i \in DOMAIN records : Passes(records[i])}
  <2>1. DOMAIN records = 1..Len(records) /\ Len(records) \in Nat
    BY <1>1
  <2>2. IsFiniteSet(S) /\ S \in SUBSET Nat
    <3>1. S \in SUBSET (1..Len(records)) /\ IsFiniteSet(1..Len(records))
      BY <2>1, FS_Interval
    <3> HIDE DEF S
    <3>2. \A i \in 1..Len(records) : i \in Nat
      BY <2>1
    <3> QED BY <3>1, <3>2, FS_Subset
  <2>3. RebuildVisible = InOrder(S)
    BY DEF RebuildVisible
  <2> HIDE DEF S
  <2>4. /\ {InOrder(S)[k] : k \in DOMAIN InOrder(S)} = S
        /\ \A k, l \in DOMAIN InOrder(S) : k < l => InOrder(S)[k] < InOrder(S)[l]
    BY <2>2, InOrderIs
  <2> QED BY <2>3, <2>4 DEF RowsAre, S
<1>2. LogInit => RowsInv
  BY DEF LogInit, RowsInv
<1>3. RowsInv /\ [LogNext]_logVars => RowsInv'
  BY RowsKept
<1>4. LogInv /\ RowsInv /\ [LogNext]_logVars => [Draws => RowsAre(visible')]_logVars
  <2> SUFFICES ASSUME LogInv, RowsInv, LogNext, Draws
               PROVE  RowsAre(visible')
    OBVIOUS
  <2>1. drawing = "list" /\ drawing' # drawing
    OBVIOUS
  <2>2. DrawList
    BY <2>1 DEF LogNext, Sink, Buttons, Chips
  <2>3. visible' = RebuildVisible
    BY <2>2 DEF DrawList, RowsInv, cacheVars
  <2> QED BY <1>1, <2>3 DEF LogInv
<1>5. LogSpec => []LogInv
  BY LogCounts
<1> QED BY <1>2, <1>3, <1>4, <1>5, ChipsCountRecords, PTL DEF LogSpec, RowsAreFiltered
=============================================================================
