------------------------- MODULE MediaForwarderProofs -------------------------
(***************************************************************************)
(* Theorems about MediaForwarder for every limit of the queue, every set   *)
(* of frame sizes and any number of frames and readers: the queue keeps    *)
(* its limits and its count of bytes, a reader gets frames in the order of *)
(* pushing, and a reader of video starts with a keyframe once one is known.*)
(***************************************************************************)
EXTENDS MediaForwarder, WellFoundedInduction, TLAPS

(* Natural induction for a set, from the least element outside of it. *)
LEMMA SetInduction ==
  ASSUME NEW T, 0 \in T, \A n \in Nat : n \in T => n + 1 \in T
  PROVE  Nat \subseteq T
<1> SUFFICES ASSUME NEW m \in Nat, m \notin T PROVE FALSE
  OBVIOUS
<1> DEFINE U == {n \in Nat : n \notin T}
           R == OpToRel(<, Nat)
<1>1. U \subseteq Nat /\ U # {}
  OBVIOUS
<1>2. IsWellFoundedOn(R, Nat)
  BY NatLessThanWellFounded
<1> HIDE DEF R
<1>3. PICK x \in U : \A y \in U : ~ (<<y, x>> \in R)
  BY <1>1, <1>2, WFMin
<1>4. \A y \in Nat : y < x => <<y, x>> \in R
  BY DEF R, OpToRel
<1>5. x # 0 /\ x - 1 \in Nat
  BY <1>3
<1>6. x - 1 \in U /\ x - 1 < x
  BY <1>5
<1>7. <<x - 1, x>> \in R
  BY <1>4, <1>5, <1>6
<1> QED BY <1>3, <1>6, <1>7

(* The least number with a property *)
LEMMA LeastNumber ==
  ASSUME NEW U, U \subseteq Nat, U # {}
  PROVE  \E x \in U : \A y \in Nat : y < x => y \notin U
<1> DEFINE R == OpToRel(<, Nat)
<1>1. IsWellFoundedOn(R, Nat)
  BY NatLessThanWellFounded
<1> HIDE DEF R
<1>2. PICK x \in U : \A y \in U : ~ (<<y, x>> \in R)
  BY <1>1, WFMin
<1>3. \A y \in Nat : y < x => <<y, x>> \in R
  BY DEF R, OpToRel
<1> QED BY <1>2, <1>3

-----------------------------------------------------------------------------
(* Size: the recursive function exists, is the only one of its kind, and so *)
(* follows the queue at both ends.                                          *)

LEMMA FrameSize == \A f \in Frame : f.size \in Nat /\ f.size \in 1 .. MaxBytes
<1>1. MaxBytes \in Nat /\ Sizes \subseteq 1 .. MaxBytes
  BY ForwarderAssumption DEF ForwarderAssumption
<1>2. \A f \in Frame : f.size \in 1 .. MaxBytes
  BY <1>1 DEF Frame
<1> QED BY <1>1, <1>2

IsSum(g, q) ==
  /\ g \in [0 .. Len(q) -> Nat]
  /\ g[0] = 0
  /\ \A i \in 1 .. Len(q) : g[i] = g[i - 1] + q[i].size

LEMMA SumExists ==
  ASSUME NEW q \in Seq(Frame)
  PROVE  \E g : g = [i \in 0 .. Len(q) |-> IF i = 0 THEN 0 ELSE g[i - 1] + q[i].size]
<1> DEFINE H(g, n) ==
             /\ g \in [0 .. n -> Nat]
             /\ g = [i \in 0 .. n |-> IF i = 0 THEN 0 ELSE g[i - 1] + q[i].size]
           T == {n \in Nat : n <= Len(q) => \E g : H(g, n)}
<1>1. 0 \in T
  <2> DEFINE g == [i \in 0 .. 0 |-> 0]
  <2>1. H(g, 0)
    OBVIOUS
  <2> QED BY <2>1
<1>2. ASSUME NEW n \in Nat, n \in T PROVE n + 1 \in T
  <2> SUFFICES ASSUME n + 1 <= Len(q) PROVE \E k : H(k, n + 1)
    OBVIOUS
  <2>1. PICK g : H(g, n)
    BY <1>2
  <2> DEFINE h == [i \in 0 .. n + 1 |-> IF i = n + 1 THEN g[n] + q[n + 1].size ELSE g[i]]
  <2>2. h \in [0 .. n + 1 -> Nat]
    BY <2>1, FrameSize
  <2>3. \A i \in 0 .. n + 1 : h[i] = IF i = 0 THEN 0 ELSE h[i - 1] + q[i].size
    <3> SUFFICES ASSUME NEW i \in 0 .. n + 1
                 PROVE  h[i] = IF i = 0 THEN 0 ELSE h[i - 1] + q[i].size
      OBVIOUS
    <3>1. CASE i = n + 1
      BY <2>1, <3>1
    <3>2. CASE i \in 0 .. n
      BY <2>1, <3>2
    <3> QED BY <3>1, <3>2
  <2>4. H(h, n + 1)
    <3> HIDE DEF h
    <3> QED BY <2>2, <2>3
  <2> HIDE DEF H
  <2> QED BY <2>4
<1> HIDE DEF T
<1>3. Nat \subseteq T
  BY <1>1, <1>2, SetInduction
<1>4. Len(q) \in Nat
  OBVIOUS
<1> QED BY <1>3, <1>4 DEF T

LEMMA SizeIsSum ==
  ASSUME NEW q \in Seq(Frame)
  PROVE  \E g : IsSum(g, q) /\ Size(q) = g[Len(q)]
<1> DEFINE sum[i \in 0 .. Len(q)] == IF i = 0 THEN 0 ELSE sum[i - 1] + q[i].size
<1>1. sum = [i \in 0 .. Len(q) |-> IF i = 0 THEN 0 ELSE sum[i - 1] + q[i].size]
  BY SumExists
<1>2. Size(q) = sum[Len(q)]
  BY DEF Size
<1> HIDE DEF sum
<1>3. sum \in [0 .. Len(q) -> Nat]
  <2> DEFINE T == {n \in Nat : n <= Len(q) => sum[n] \in Nat}
  <2>1. 0 \in T
    BY <1>1
  <2>2. ASSUME NEW n \in Nat, n \in T PROVE n + 1 \in T
    BY <1>1, <2>2, FrameSize
  <2> HIDE DEF T
  <2>3. Nat \subseteq T
    BY <2>1, <2>2, SetInduction
  <2>4. \A n \in 0 .. Len(q) : sum[n] \in Nat
    BY <2>3 DEF T
  <2> QED BY <1>1, <2>4
<1>4. IsSum(sum, q)
  <2>1. ASSUME NEW i \in 1 .. Len(q) PROVE sum[i] = sum[i - 1] + q[i].size
    BY <1>1
  <2>2. sum[0] = 0
    BY <1>1
  <2> QED BY <1>3, <2>1, <2>2 DEF IsSum
<1> QED BY <1>2, <1>4

LEMMA SizeIs ==
  ASSUME NEW q \in Seq(Frame), NEW h, IsSum(h, q)
  PROVE  Size(q) = h[Len(q)]
<1>1. PICK g : IsSum(g, q) /\ Size(q) = g[Len(q)]
  BY SizeIsSum
<1> DEFINE T == {n \in Nat : n <= Len(q) => g[n] = h[n]}
<1>2. 0 \in T
  BY <1>1 DEF IsSum
<1>3. ASSUME NEW n \in Nat, n \in T PROVE n + 1 \in T
  BY <1>1, <1>3 DEF IsSum
<1> HIDE DEF T
<1>4. Nat \subseteq T
  BY <1>2, <1>3, SetInduction
<1> QED BY <1>1, <1>4 DEF T

LEMMA SizeEmpty == Size(<<>>) = 0
<1>1. <<>> \in Seq(Frame) /\ Len(<<>>) = 0
  OBVIOUS
<1>2. PICK g : IsSum(g, <<>>) /\ Size(<<>>) = g[Len(<<>>)]
  BY <1>1, SizeIsSum
<1> QED BY <1>1, <1>2 DEF IsSum

LEMMA SizeAppend ==
  ASSUME NEW q \in Seq(Frame), NEW x \in Frame
  PROVE  Size(q) \in Nat /\ Size(Append(q, x)) = Size(q) + x.size
<1>1. PICK g : IsSum(g, q) /\ Size(q) = g[Len(q)]
  BY SizeIsSum
<1> DEFINE r == Append(q, x)
           h == [i \in 0 .. Len(r) |-> IF i = Len(r) THEN g[Len(q)] + x.size ELSE g[i]]
<1>2. /\ r \in Seq(Frame) /\ Len(r) = Len(q) + 1 /\ r[Len(r)] = x
      /\ \A i \in 1 .. Len(q) : r[i] = q[i]
  OBVIOUS
<1> HIDE DEF r
<1>3. IsSum(h, r)
  <2>0. x.size \in Nat /\ Len(q) \in Nat
    BY FrameSize
  <2>1. h \in [0 .. Len(r) -> Nat] /\ h[0] = 0
    BY <1>1, <1>2, <2>0 DEF IsSum
  <2>2. ASSUME NEW i \in 1 .. Len(r) PROVE h[i] = h[i - 1] + r[i].size
    <3>1. CASE i = Len(r)
      BY <1>2, <2>0, <3>1
    <3>2. CASE i \in 1 .. Len(q)
      <4>1. g[i] = g[i - 1] + q[i].size
        BY <1>1, <3>2 DEF IsSum
      <4> QED BY <1>2, <2>0, <3>2, <4>1
    <3> QED BY <1>2, <2>0, <3>1, <3>2
  <2> QED BY <2>1, <2>2 DEF IsSum
<1>4. Size(r) = h[Len(r)]
  BY <1>2, <1>3, SizeIs
<1> QED BY <1>1, <1>2, <1>4 DEF IsSum, r

LEMMA SizeTail ==
  ASSUME NEW q \in Seq(Frame), q # <<>>
  PROVE  Size(q) = Head(q).size + Size(Tail(q)) /\ Size(Tail(q)) \in Nat
<1> DEFINE r == Tail(q)
<1>1. /\ r \in Seq(Frame) /\ Len(r) = Len(q) - 1 /\ Len(q) \in Nat \ {0}
      /\ Head(q) = q[1] /\ q[1] \in Frame
      /\ \A i \in 1 .. Len(r) : r[i] = q[i + 1]
  OBVIOUS
<1> HIDE DEF r
<1>2. PICK g : IsSum(g, r) /\ Size(r) = g[Len(r)]
  BY <1>1, SizeIsSum
<1> DEFINE h == [i \in 0 .. Len(q) |-> IF i = 0 THEN 0 ELSE q[1].size + g[i - 1]]
<1>3. q[1].size \in Nat
  BY <1>1, FrameSize
<1>4. IsSum(h, q)
  <2>1. h \in [0 .. Len(q) -> Nat] /\ h[0] = 0
    BY <1>1, <1>2, <1>3 DEF IsSum
  <2>2. ASSUME NEW i \in 1 .. Len(q) PROVE h[i] = h[i - 1] + q[i].size
    <3>1. CASE i = 1
      BY <1>1, <1>2, <1>3, <3>1 DEF IsSum
    <3>2. CASE i > 1
      <4> DEFINE k == i - 1
      <4>1. k \in 1 .. Len(r) /\ k - 1 \in 0 .. Len(r) /\ k + 1 = i
        BY <1>1, <3>2
      <4>2. g[k] = g[k - 1] + q[i].size
        BY <1>1, <1>2, <4>1 DEF IsSum
      <4>3. h[i] = q[1].size + g[k] /\ h[i - 1] = q[1].size + g[k - 1]
        BY <1>1, <3>2
      <4>4. g[k - 1] \in Nat /\ q[i].size \in Nat
        <5>1. q[i] \in Frame
          OBVIOUS
        <5> QED BY <1>2, <4>1, <5>1, FrameSize DEF IsSum
      <4> QED BY <1>3, <4>2, <4>3, <4>4
    <3> QED BY <3>1, <3>2
  <2> QED BY <2>1, <2>2 DEF IsSum
<1>5. Size(q) = h[Len(q)]
  BY <1>4, SizeIs
<1> QED BY <1>1, <1>2, <1>5 DEF IsSum, r

-----------------------------------------------------------------------------
(* The inductive invariant *)

Ordered(q) == \A i, j \in 1 .. Len(q) : i < j => q[i].id < q[j].id
UpTo(q, n) == \A i \in 1 .. Len(q) : q[i].id <= n
Before(q, r) == \A i \in 1 .. Len(q), j \in 1 .. Len(r) : q[i].id < r[j].id

StateOK ==
  /\ kind \in Kinds
  /\ config \in BOOLEAN
  /\ worker \in {"accept", "connected", "greeting", "forward", "sending",
                 "release", "ended"}
  /\ client \in {"none", "open", "closed"}
  /\ entry \in BOOLEAN
  /\ backlog \in BOOLEAN
  /\ connections \in 0 .. MaxConnections
  /\ stop \in {"no", "requested", "joining"}

QueueOK ==
  /\ frames \in Seq(Frame) /\ Len(frames) <= MaxQueued
  /\ bytes = Size(frames) /\ bytes \in 0 .. MaxBytes
  /\ keyframe \in Seq(Frame) /\ Len(keyframe) <= 1
  /\ pushed \in 0 .. MaxFrames
  /\ LatestAudio

HandOK ==
  /\ got \in Seq(Frame)
  /\ inHand \in Seq(Frame)
  /\ inHand = <<>> \/ (worker = "sending" /\ Len(inHand) = 1)

(* What the reader has got comes before what it will get. *)
OrderInv ==
  /\ Ordered(frames) /\ Ordered(got)
  /\ UpTo(frames, pushed) /\ UpTo(got, pushed) /\ UpTo(inHand, pushed)
  /\ UpTo(keyframe, pushed)
  /\ worker \in {"connected", "greeting"} => got = <<>>
  /\ worker \in {"forward", "sending"} => /\ Before(got, frames)
                                         /\ Before(got, inHand)
                                         /\ Before(inHand, frames)

(* A reader of video that has got nothing will get a keyframe first. *)
KeyInv ==
  /\ \A i \in 1 .. Len(keyframe) : keyframe[i].key
  /\ (kind = "video" /\ entry) =>
       /\ got # <<>> => got[1].key
       /\ worker = "sending" /\ got = <<>> => inHand # <<>> /\ inHand[1].key
       /\ worker \in {"greeting", "forward"} /\ got = <<>> => frames # <<>> /\ frames[1].key

ForwarderInv == StateOK /\ QueueOK /\ HandOK /\ OrderInv /\ KeyInv

LEMMA Ids ==
  ASSUME NEW q \in Seq(Frame)
  PROVE  Len(q) \in Nat /\ \A i \in 1 .. Len(q) : q[i] \in Frame /\ q[i].id \in Nat
<1>1. \A f \in Frame : f.id \in Nat
  BY ForwarderAssumption DEF Frame, ForwarderAssumption
<1>2. \A i \in 1 .. Len(q) : q[i] \in Frame
  OBVIOUS
<1> QED BY <1>1, <1>2

LEMMA AtMostOne == ASSUME NEW n \in Nat, n <= 1 PROVE n = 0 \/ n = 1
OBVIOUS

LEMMA UpToNext ==
  ASSUME NEW q \in Seq(Frame), NEW n \in Nat, UpTo(q, n)
  PROVE  UpTo(q, n + 1)
BY Ids DEF UpTo

LEMMA AppendFacts ==
  ASSUME NEW q \in Seq(Frame), NEW x \in Frame
  PROVE  /\ Append(q, x) \in Seq(Frame) /\ Len(Append(q, x)) = Len(q) + 1
         /\ \A i \in 1 .. Len(q) : Append(q, x)[i] = q[i]
         /\ Append(q, x)[Len(q) + 1] = x
OBVIOUS

LEMMA InitForwarder == Init => ForwarderInv
<1> SUFFICES ASSUME Init PROVE ForwarderInv
  OBVIOUS
<1>1. /\ <<>> \in Seq(Frame) /\ Len(<<>>) = 0
      /\ 0 \in 0 .. MaxBytes /\ 0 \in 0 .. MaxFrames /\ 0 \in 0 .. MaxConnections
      /\ 0 <= MaxQueued
  BY ForwarderAssumption DEF ForwarderAssumption
<1>2. StateOK
  BY <1>1 DEF Init, StateOK
<1>3. QueueOK
  BY <1>1, SizeEmpty DEF Init, QueueOK, LatestAudio
<1>4. HandOK
  BY <1>1 DEF Init, HandOK
<1>5. OrderInv /\ KeyInv
  BY <1>1 DEF Init, OrderInv, KeyInv, Ordered, UpTo, Before
<1> QED BY <1>2, <1>3, <1>4, <1>5 DEF ForwarderInv

-----------------------------------------------------------------------------
(* What a push does to the queue: the new frame is put behind what is left  *)
(* of it, or takes its place, or is dropped.                                *)

Kept(n, q) ==
  /\ q \in Seq(Frame) /\ Len(q) = Len(frames) - n
  /\ \A i \in 1 .. Len(q) : q[i] = frames[i + n]

LEMMA NewFrameFacts ==
  ASSUME ForwarderInv, pushed < MaxFrames, NEW size \in Sizes, NEW key \in BOOLEAN
  PROVE  /\ NewFrame(key, size) \in Frame /\ NewFrame(key, size).id = pushed + 1
         /\ NewFrame(key, size).key = key /\ NewFrame(key, size).size = size
         /\ size \in Nat /\ size <= MaxBytes
<1>1. pushed + 1 \in 1 .. MaxFrames
  BY ForwarderAssumption DEF ForwarderInv, QueueOK, ForwarderAssumption
<1>2. size \in 1 .. MaxBytes
  BY ForwarderAssumption DEF ForwarderAssumption
<1> QED BY <1>1, <1>2, ForwarderAssumption DEF NewFrame, Frame, ForwarderAssumption

(* enqueue: as many of the oldest frames are dropped as it takes. *)
LEMMA EnqueueFacts ==
  ASSUME ForwarderInv, NEW f \in Frame, Enqueue(f)
  PROVE  \E n \in 0 .. Len(frames), q \in Seq(Frame) :
           /\ Kept(n, q) /\ frames' = Append(q, f) /\ bytes' = Size(q) + f.size
           /\ Len(q) + 1 <= MaxQueued /\ Size(q) + f.size <= MaxBytes
<1>0. /\ frames \in Seq(Frame) /\ Len(frames) \in Nat
      /\ MaxQueued \in Nat \ {0} /\ f.size \in Nat /\ f.size <= MaxBytes
      /\ MaxBytes \in Nat
  BY ForwarderAssumption, FrameSize DEF ForwarderInv, QueueOK, ForwarderAssumption
<1> DEFINE Rest(n) == SubSeq(frames, n + 1, Len(frames))
           Fits(n) == Len(frames) - n < MaxQueued /\ Size(Rest(n)) + f.size <= MaxBytes
           Good(n) == /\ Fits(n) \/ n = Len(frames)
                      /\ \A m \in 0 .. n - 1 : ~ Fits(m)
           dropped == CHOOSE n \in 0 .. Len(frames) : Good(n)
<1>1. ASSUME NEW n \in 0 .. Len(frames)
      PROVE  Kept(n, Rest(n))
  BY SMTT(30), <1>0 DEF Kept
<1>2. \E n \in 0 .. Len(frames) : Good(n)
  <2> DEFINE U == {n \in 0 .. Len(frames) : Fits(n) \/ n = Len(frames)}
  <2>1. Len(frames) \in U /\ U \subseteq Nat
    BY <1>0
  <2>2. PICK n \in U : \A m \in Nat : m < n => m \notin U
    BY <2>1, LeastNumber
  <2>3. n \in 0 .. Len(frames) /\ (Fits(n) \/ n = Len(frames))
    BY <2>2
  <2>4. \A m \in 0 .. n - 1 : m \in Nat /\ m < n /\ m \in 0 .. Len(frames)
    BY <1>0, <2>3
  <2>5. \A m \in 0 .. n - 1 : ~ Fits(m)
    <3> HIDE DEF Fits
    <3> QED BY <2>2, <2>4
  <2> QED BY <2>3, <2>5
<1>3. dropped \in 0 .. Len(frames) /\ Good(dropped)
  <2> HIDE DEF Good
  <2> QED BY <1>2
<1>4. frames' = Append(Rest(dropped), f) /\ bytes' = Size(Rest(dropped)) + f.size
  BY DEF Enqueue
<1> HIDE DEF dropped
<1>5. Len(Rest(dropped)) + 1 <= MaxQueued /\ Size(Rest(dropped)) + f.size <= MaxBytes
  <2>1. CASE Fits(dropped)
    BY <1>0, <1>1, <1>3, <2>1 DEF Kept
  <2>2. CASE dropped = Len(frames)
    <3>1. Rest(dropped) = <<>>
      BY <1>0, <2>2
    <3>2. Len(Rest(dropped)) = 0 /\ Size(Rest(dropped)) = 0
      <4> HIDE DEF Rest
      <4> QED BY <3>1, SizeEmpty
    <3> HIDE DEF Rest
    <3> QED BY <1>0, <3>2
  <2> QED BY <1>3, <2>1, <2>2
<1>6. Kept(dropped, Rest(dropped)) /\ Rest(dropped) \in Seq(Frame)
  BY <1>1, <1>3 DEF Kept
<1> HIDE DEF Rest
<1> QED BY <1>3, <1>4, <1>5, <1>6

LEMMA PushFacts ==
  ASSUME ForwarderInv, NEW size \in Sizes, Push(size)
  PROVE  \E key \in BOOLEAN : LET f == NewFrame(key, size) IN
           /\ f \in Frame /\ f.id = pushed + 1 /\ f.key = key /\ f.size <= MaxBytes
           /\ \/ \E n \in 0 .. Len(frames), q \in Seq(Frame) :
                   /\ Kept(n, q) /\ frames' = Append(q, f) /\ bytes' = Size(q) + f.size
                   /\ Len(q) + 1 <= MaxQueued /\ bytes' <= MaxBytes
                   /\ kind = "video" => n = 0
                   /\ UNCHANGED keyframe
              \/ UNCHANGED <<frames, bytes, keyframe>> /\ kind = "video"
              \/ kind = "video" /\ key /\ frames' = <<f>> /\ keyframe' = <<f>> /\ bytes' = size
<1>0. pushed < MaxFrames
  BY DEF Push
<1>1. CASE PushAudio(size)
  <2>1. NewFrame(FALSE, size) \in Frame
    BY <1>0, NewFrameFacts
  <2>2. Enqueue(NewFrame(FALSE, size)) /\ UNCHANGED keyframe /\ kind = "audio"
    BY <1>1 DEF PushAudio
  <2> QED BY <1>0, <2>1, <2>2, NewFrameFacts, EnqueueFacts
<1>2. CASE PushDependent(size)
  <2>1. CASE Len(frames) < MaxQueued /\ bytes + size <= MaxBytes
    <3>1. Kept(0, frames)
      BY DEF ForwarderInv, QueueOK, Kept
    <3>2. /\ frames' = Append(frames, NewFrame(FALSE, size)) /\ bytes' = Size(frames) + size
          /\ UNCHANGED keyframe /\ kind = "video" /\ bytes' <= MaxBytes
      BY <1>2, <2>1 DEF PushDependent, ForwarderInv, QueueOK
    <3>3. Len(frames) + 1 <= MaxQueued /\ 0 \in 0 .. Len(frames)
      <4>1. frames \in Seq(Frame) /\ MaxQueued \in Nat
        BY ForwarderAssumption DEF ForwarderInv, QueueOK, ForwarderAssumption
      <4>2. Len(frames) \in Nat
        BY <4>1
      <4> QED BY <2>1, <4>1, <4>2
    <3>4. frames \in Seq(Frame)
      BY DEF ForwarderInv, QueueOK
    <3> QED BY <1>0, <3>1, <3>2, <3>3, <3>4, NewFrameFacts
  <2>2. CASE ~ (Len(frames) < MaxQueued /\ bytes + size <= MaxBytes)
    BY <1>0, <1>2, <2>2, NewFrameFacts DEF PushDependent
  <2> QED BY <2>1, <2>2
<1>3. CASE PushKeyframe(size)
  BY <1>0, <1>3, NewFrameFacts DEF PushKeyframe
<1> QED BY <1>1, <1>2, <1>3 DEF Push

(* The push is in order: the new frame has the highest number. *)
LEMMA PushKeeps ==
  ASSUME ForwarderInv, NEW size \in Sizes, Push(size)
  PROVE  ForwarderInv'
<1>0. /\ StateOK /\ QueueOK /\ HandOK /\ OrderInv /\ KeyInv
      /\ UNCHANGED <<kind, worker, inHand, client, got, entry, backlog, connections, stop>>
      /\ pushed' = pushed + 1
  BY DEF ForwarderInv, Push, workerVars
<1>1. pushed \in Nat /\ pushed' \in 0 .. MaxFrames /\ MaxQueued \in Nat \ {0}
      /\ MaxBytes \in Nat
  BY <1>0, ForwarderAssumption DEF Push, QueueOK, ForwarderAssumption
<1>2. StateOK'
  BY <1>0 DEF StateOK, Push
<1>3. HandOK'
  BY <1>0 DEF HandOK
<1>4. UpTo(got, pushed + 1) /\ UpTo(inHand, pushed + 1) /\ UpTo(frames, pushed + 1)
      /\ UpTo(keyframe, pushed + 1)
  BY <1>0, <1>1, UpToNext DEF OrderInv, HandOK, QueueOK
<1>5. PICK key \in BOOLEAN : LET f == NewFrame(key, size) IN
           /\ f \in Frame /\ f.id = pushed + 1 /\ f.key = key /\ f.size <= MaxBytes
           /\ \/ \E n \in 0 .. Len(frames), q \in Seq(Frame) :
                   /\ Kept(n, q) /\ frames' = Append(q, f) /\ bytes' = Size(q) + f.size
                   /\ Len(q) + 1 <= MaxQueued /\ bytes' <= MaxBytes
                   /\ kind = "video" => n = 0
                   /\ UNCHANGED keyframe
              \/ UNCHANGED <<frames, bytes, keyframe>> /\ kind = "video"
              \/ kind = "video" /\ key /\ frames' = <<f>> /\ keyframe' = <<f>> /\ bytes' = size
  BY PushFacts
<1> DEFINE f == NewFrame(key, size)
<1>6. /\ f \in Frame /\ f.id = pushed + 1 /\ f.key = key /\ f.size <= MaxBytes
      /\ f.size \in Nat
  BY <1>5, FrameSize
<1>7. ASSUME NEW n \in 0 .. Len(frames), NEW q \in Seq(Frame), Kept(n, q), frames' = Append(q, f),
             bytes' = Size(q) + f.size, Len(q) + 1 <= MaxQueued, bytes' <= MaxBytes,
             kind = "video" => n = 0, UNCHANGED keyframe
      PROVE  QueueOK' /\ OrderInv' /\ KeyInv'
  <2> HIDE DEF f
  <2>0. /\ q \in Seq(Frame) /\ Len(q) = Len(frames) - n /\ Len(q) \in Nat
        /\ \A i \in 1 .. Len(q) : i + n \in 1 .. Len(frames) /\ q[i] = frames[i + n]
    BY <1>7, <1>0 DEF Kept, QueueOK
  <2>1. /\ frames' \in Seq(Frame) /\ Len(frames') = Len(q) + 1
        /\ \A i \in 1 .. Len(q) : frames'[i] = q[i]
        /\ frames'[Len(q) + 1] = f
    BY <1>6, <1>7, <2>0, AppendFacts
  <2>2. bytes' = Size(frames)' /\ bytes' \in 0 .. MaxBytes
    BY <1>1, <1>6, <1>7, <2>0, SizeAppend
  <2>3. LatestAudio'
    <3>1. ASSUME kind = "audio", NEW i \in 1 .. Len(frames')
          PROVE  frames'[i].id = pushed' - Len(frames') + i
      <4>1. CASE i \in 1 .. Len(q)
        <5>1. frames'[i] = frames[i + n] /\ i + n \in 1 .. Len(frames)
          BY <2>0, <2>1, <4>1
        <5>2. frames[i + n].id = pushed - Len(frames) + (i + n)
          BY <1>0, <3>1, <5>1 DEF QueueOK, LatestAudio
        <5> QED BY <1>0, <1>1, <2>0, <2>1, <5>1, <5>2
      <4>2. CASE i = Len(q) + 1
        BY <1>0, <1>1, <1>6, <2>0, <2>1, <4>2
      <4>3. i \in 1 .. Len(q) \/ i = Len(q) + 1
        BY <2>0, <2>1
      <4> QED BY <4>1, <4>2, <4>3
    <3> QED BY <1>0, <3>1 DEF LatestAudio
  <2>4. QueueOK'
    BY <1>0, <1>1, <1>7, <2>1, <2>2, <2>3 DEF QueueOK
  <2>5. \A i \in 1 .. Len(frames') :
          \/ i \in 1 .. Len(q) /\ i + n \in 1 .. Len(frames) /\ frames'[i] = frames[i + n]
          \/ i = Len(q) + 1 /\ frames'[i].id = pushed + 1
    <3> SUFFICES ASSUME NEW i \in 1 .. Len(frames'), i \notin 1 .. Len(q)
                 PROVE  i = Len(q) + 1
      BY <1>6, <2>0, <2>1
    <3> QED BY <2>0, <2>1
  <2>6. UpTo(frames, pushed)'
    <3> SUFFICES ASSUME NEW i \in 1 .. Len(frames') PROVE frames'[i].id <= pushed + 1
      BY <1>0 DEF UpTo
    <3> QED BY SMTT(30), <1>1, <1>4, <2>5 DEF UpTo
  <2>7. Ordered(frames)'
    <3> SUFFICES ASSUME NEW i \in 1 .. Len(frames'), NEW j \in 1 .. Len(frames'), i < j
                 PROVE  frames'[i].id < frames'[j].id
      BY DEF Ordered
    <3>1. /\ i \in 1 .. Len(q) /\ i + n \in 1 .. Len(frames) /\ frames'[i] = frames[i + n]
      BY <2>0, <2>1, <2>5
    <3>2. CASE j \in 1 .. Len(q)
      <4>1. /\ j + n \in 1 .. Len(frames) /\ frames'[j] = frames[j + n] /\ i + n < j + n
        BY <2>0, <2>5, <3>2
      <4> QED BY <1>0, <3>1, <4>1 DEF OrderInv, Ordered
    <3>3. CASE j = Len(q) + 1
      <4>1. frames'[j].id = pushed + 1
        BY <1>6, <2>1, <3>3
      <4>2. frames[i + n].id <= pushed /\ frames[i + n].id \in Nat
        BY <1>0, <3>1, Ids DEF OrderInv, UpTo, QueueOK
      <4> QED BY <1>1, <3>1, <4>1, <4>2
    <3> QED BY <2>0, <2>1, <3>2, <3>3
  <2>8. worker \in {"forward", "sending"} => Before(got, frames)' /\ Before(inHand, frames)'
    <3> SUFFICES ASSUME worker \in {"forward", "sending"}
                 PROVE  Before(got, frames)' /\ Before(inHand, frames)'
      OBVIOUS
    <3>1. ASSUME NEW r \in Seq(Frame), Before(r, frames), UpTo(r, pushed),
                 NEW i \in 1 .. Len(r), NEW j \in 1 .. Len(frames')
          PROVE  r[i].id < frames'[j].id
      <4>1. r[i].id \in Nat /\ r[i].id <= pushed
        BY <3>1, Ids DEF UpTo
      <4>2. CASE frames'[j].id = pushed + 1
        BY <1>1, <4>1, <4>2
      <4>3. CASE j + n \in 1 .. Len(frames) /\ frames'[j] = frames[j + n]
        BY <3>1, <4>3 DEF Before
      <4> QED BY <2>5, <4>2, <4>3
    <3> QED BY <1>0, <3>1 DEF OrderInv, HandOK, Before
  <2>9. OrderInv'
    BY <1>0, <1>4, <1>7, <2>6, <2>7, <2>8 DEF OrderInv, Ordered, Before, UpTo
  <2>10. KeyInv'
    <3>1. kind = "video" /\ frames # <<>> => frames' # <<>> /\ frames'[1] = frames[1]
      BY <1>0, <1>7, <2>0, <2>1, <2>5 DEF QueueOK
    <3> QED BY <1>0, <1>7, <3>1 DEF KeyInv
  <2> QED BY <2>4, <2>9, <2>10
<1>8. ASSUME UNCHANGED <<frames, bytes, keyframe>>, kind = "video"
      PROVE  QueueOK' /\ OrderInv' /\ KeyInv'
  <2>1. QueueOK'
    BY <1>0, <1>1, <1>8 DEF QueueOK, LatestAudio
  <2>2. OrderInv'
    BY <1>0, <1>4, <1>8 DEF OrderInv, Ordered, Before, UpTo
  <2>3. KeyInv'
    BY <1>0, <1>8 DEF KeyInv
  <2> QED BY <2>1, <2>2, <2>3
<1>9. ASSUME kind = "video", key, frames' = <<f>>, keyframe' = <<f>>, bytes' = size
      PROVE  QueueOK' /\ OrderInv' /\ KeyInv'
  <2>0. f.size = size
    BY DEF NewFrame
  <2> HIDE DEF f
  <2>1. /\ frames' \in Seq(Frame) /\ Len(frames') = 1 /\ frames'[1] = f
        /\ keyframe' \in Seq(Frame) /\ Len(keyframe') = 1 /\ keyframe'[1] = f
    BY <1>6, <1>9
  <2>2. Size(<<f>>) = f.size
    <3>1. <<>> \in Seq(Frame) /\ Append(<<>>, f) = <<f>>
      BY <1>6
    <3>2. Size(Append(<<>>, f)) = Size(<<>>) + f.size
      BY <1>6, <3>1, SizeAppend
    <3> QED BY <1>6, <3>1, <3>2, SizeEmpty
  <2>3. QueueOK'
    BY <1>0, <1>1, <1>6, <1>9, <2>0, <2>1, <2>2 DEF QueueOK, LatestAudio
  <2>4. Ordered(frames)' /\ UpTo(frames, pushed)' /\ UpTo(keyframe, pushed)'
    BY <1>0, <1>1, <1>6, <2>1 DEF Ordered, UpTo
  <2>5. Before(got, frames)' /\ Before(inHand, frames)'
    <3>1. ASSUME NEW r \in Seq(Frame), UpTo(r, pushed),
                 NEW i \in 1 .. Len(r), NEW j \in 1 .. Len(frames')
          PROVE  r[i].id < frames'[j].id
      <4>1. r[i].id \in Nat /\ r[i].id <= pushed
        BY <3>1, Ids DEF UpTo
      <4>2. frames'[j].id = pushed + 1
        BY <1>6, <2>1
      <4> QED BY <1>1, <4>1, <4>2
    <3> QED BY <1>0, <3>1 DEF OrderInv, HandOK, Before
  <2>6. OrderInv'
    BY <1>0, <1>4, <2>4, <2>5 DEF OrderInv, Ordered, Before, UpTo
  <2>7. KeyInv'
    <3>0. f.key
      BY <1>6, <1>9
    <3>1. frames' # <<>> /\ frames'[1].key /\ \A i \in 1 .. Len(keyframe') : keyframe'[i].key
      BY <1>9, <2>1, <3>0
    <3> QED BY <1>0, <3>1 DEF KeyInv
  <2> QED BY <2>3, <2>6, <2>7
<1>10. QueueOK' /\ OrderInv' /\ KeyInv'
  BY <1>5, <1>7, <1>8, <1>9
<1> QED BY <1>2, <1>3, <1>10 DEF ForwarderInv

-----------------------------------------------------------------------------
(* The worker *)

LEMMA ClientConnectedKeeps ==
  ASSUME ForwarderInv, OnClientConnected
  PROVE  ForwarderInv'
<1>0. /\ StateOK /\ QueueOK /\ HandOK /\ OrderInv /\ KeyInv
      /\ worker = "connected" /\ worker' \in {"greeting", "forward"}
      /\ entry' = (keyframe # <<>>)
      /\ UNCHANGED <<kind, keyframe, config, pushed, inHand, client, got, backlog,
                     connections, stop>>
      /\ got = <<>> /\ inHand = <<>>
  BY DEF ForwarderInv, OnClientConnected, OrderInv, HandOK
<1>1. StateOK' /\ HandOK'
  BY <1>0 DEF StateOK, HandOK
<1>2. \/ UNCHANGED <<frames, bytes>>
      \/ kind = "video" /\ frames' = keyframe /\ bytes' = Size(keyframe)
  BY DEF OnClientConnected
<1>3. Len(keyframe) \in {0, 1}
  <2>1. Len(keyframe) \in Nat /\ Len(keyframe) <= 1
    BY <1>0, Ids DEF QueueOK
  <2> QED BY <2>1
<1>4. QueueOK'
  <2>1. CASE UNCHANGED <<frames, bytes>>
    BY <1>0, <2>1 DEF QueueOK, LatestAudio
  <2>2. CASE kind = "video" /\ frames' = keyframe /\ bytes' = Size(keyframe)
    <3>1. Size(keyframe) \in 0 .. MaxBytes
      <4>1. CASE keyframe = <<>>
        BY <4>1, SizeEmpty, ForwarderAssumption DEF ForwarderAssumption
      <4>2. CASE keyframe # <<>>
        <5>1. Head(keyframe) \in Frame /\ Tail(keyframe) = <<>>
          BY <1>0, <4>2 DEF QueueOK
        <5>2. Size(keyframe) = Head(keyframe).size + 0
          BY <1>0, <4>2, <5>1, SizeTail, SizeEmpty DEF QueueOK
        <5> QED BY <5>1, <5>2, FrameSize, ForwarderAssumption DEF ForwarderAssumption
      <4> QED BY <4>1, <4>2
    <3>2. Len(frames') <= MaxQueued
      <4>1. MaxQueued \in Nat /\ MaxQueued >= 1
        BY ForwarderAssumption DEF ForwarderAssumption
      <4>2. Len(frames') = Len(keyframe)
        BY <2>2
      <4> QED BY <1>3, <4>1, <4>2
    <3> QED BY <1>0, <2>2, <3>1, <3>2 DEF QueueOK, LatestAudio
  <2> QED BY <1>2, <2>1, <2>2
<1>5. OrderInv'
  <2>1. Len(<<>>) = 0
    OBVIOUS
  <2>2. Ordered(frames)' /\ UpTo(frames, pushed)'
    BY <1>0, <1>2, <1>3 DEF OrderInv, Ordered, UpTo
  <2> QED BY <1>0, <2>1, <2>2 DEF OrderInv, Ordered, UpTo, Before
<1>6. KeyInv'
  <2>1. kind = "video" /\ keyframe # <<>> => frames' # <<>> /\ frames'[1] = keyframe[1]
    BY <1>0 DEF OnClientConnected, QueueOK
  <2>2. keyframe # <<>> => keyframe[1].key
    BY <1>0, <1>3 DEF KeyInv, QueueOK
  <2> QED BY <1>0, <2>1, <2>2 DEF KeyInv
<1> QED BY <1>1, <1>4, <1>5, <1>6 DEF ForwarderInv

LEMMA TakeFrameKeeps ==
  ASSUME ForwarderInv, TakeFrame
  PROVE  ForwarderInv'
<1>0. /\ StateOK /\ QueueOK /\ HandOK /\ OrderInv /\ KeyInv
      /\ worker = "forward" /\ worker' = "sending" /\ frames # <<>> /\ inHand = <<>>
      /\ inHand' = <<Head(frames)>> /\ frames' = Tail(frames)
      /\ bytes' = bytes - Head(frames).size
      /\ UNCHANGED <<kind, keyframe, config, pushed, client, got, entry, backlog,
                     connections, stop>>
  BY DEF ForwarderInv, TakeFrame, HandOK
<1>1. /\ frames \in Seq(Frame) /\ Len(frames) \in Nat \ {0} /\ Head(frames) = frames[1]
      /\ frames[1] \in Frame
      /\ frames' \in Seq(Frame) /\ Len(frames') = Len(frames) - 1
      /\ \A i \in 1 .. Len(frames') : /\ i + 1 \in 1 .. Len(frames)
                                      /\ frames'[i] = frames[i + 1]
  BY <1>0 DEF QueueOK
<1>2. inHand' \in Seq(Frame) /\ Len(inHand') = 1 /\ inHand'[1] = frames[1] /\ inHand' # <<>>
  BY <1>0, <1>1
<1>3. StateOK' /\ HandOK'
  BY <1>0, <1>2 DEF StateOK, HandOK
<1>4. QueueOK'
  <2>1. bytes' = Size(frames)' /\ bytes' \in 0 .. MaxBytes
    <3>1. /\ Size(frames) = frames[1].size + Size(frames') /\ Size(frames') \in Nat
          /\ frames[1].size \in Nat
      BY <1>0, <1>1, SizeTail, FrameSize
    <3> QED BY <1>0, <1>1, <3>1, ForwarderAssumption DEF QueueOK, ForwarderAssumption
  <2>2. LatestAudio'
    <3>1. ASSUME kind = "audio", NEW i \in 1 .. Len(frames')
          PROVE  frames'[i].id = pushed - Len(frames') + i
      <4>1. frames'[i] = frames[i + 1] /\ i + 1 \in 1 .. Len(frames)
        BY <1>1
      <4>2. frames[i + 1].id = pushed - Len(frames) + (i + 1)
        BY <1>0, <3>1, <4>1 DEF QueueOK, LatestAudio
      <4> QED BY <1>0, <1>1, <4>1, <4>2, ForwarderAssumption DEF QueueOK, ForwarderAssumption
    <3> QED BY <1>0, <3>1 DEF LatestAudio
  <2>3. Len(frames') <= MaxQueued
    BY <1>0, <1>1, ForwarderAssumption DEF QueueOK, ForwarderAssumption
  <2> QED BY <1>0, <1>1, <2>1, <2>2, <2>3 DEF QueueOK
<1>5. OrderInv'
  <2>1. Ordered(frames)' /\ UpTo(frames, pushed)' /\ Before(got, frames)'
    BY <1>0, <1>1 DEF OrderInv, Ordered, UpTo, Before
  <2>2. UpTo(inHand, pushed)' /\ Before(got, inHand)'
    BY <1>0, <1>1, <1>2 DEF OrderInv, UpTo, Before
  <2>3. Before(inHand, frames)'
    BY <1>0, <1>1, <1>2 DEF OrderInv, Ordered, Before
  <2> QED BY <1>0, <2>1, <2>2, <2>3 DEF OrderInv, Ordered, UpTo
<1>6. KeyInv'
  BY <1>0, <1>2 DEF KeyInv
<1> QED BY <1>3, <1>4, <1>5, <1>6 DEF ForwarderInv

LEMMA SendFrameKeeps ==
  ASSUME ForwarderInv, SendFrame
  PROVE  ForwarderInv'
<1>0. /\ StateOK /\ QueueOK /\ HandOK /\ OrderInv /\ KeyInv
      /\ worker = "sending" /\ worker' \in {"forward", "release"} /\ inHand' = <<>>
      /\ \/ got' = got \o inHand
         \/ UNCHANGED got /\ worker' = "release"
      /\ UNCHANGED <<kind, frames, bytes, keyframe, config, pushed, client, entry, backlog,
                     connections, stop>>
  BY DEF ForwarderInv, SendFrame, queueVars
<1>1. /\ got \in Seq(Frame) /\ inHand \in Seq(Frame) /\ Len(inHand) \in {0, 1}
      /\ Len(got) \in Nat /\ Len(inHand') = 0 /\ inHand' \in Seq(Frame)
  BY <1>0 DEF HandOK
<1>2. StateOK' /\ QueueOK'
  BY <1>0 DEF StateOK, QueueOK, LatestAudio
<1>3. CASE UNCHANGED got /\ worker' = "release"
  <2>1. HandOK'
    BY <1>0, <1>1, <1>3 DEF HandOK
  <2>2. OrderInv'
    BY <1>0, <1>1, <1>3 DEF OrderInv, Ordered, UpTo
  <2>3. KeyInv'
    BY <1>0, <1>3 DEF KeyInv
  <2> QED BY <1>2, <2>1, <2>2, <2>3 DEF ForwarderInv
<1>4. CASE got' = got \o inHand
  <2>1. /\ got' \in Seq(Frame) /\ Len(got') = Len(got) + Len(inHand)
        /\ \A i \in 1 .. Len(got) : got'[i] = got[i]
        /\ \A i \in 1 .. Len(inHand) : got'[i + Len(got)] = inHand[i]
    BY <1>1, <1>4
  <2>2. \A i \in 1 .. Len(got') :
          \/ i \in 1 .. Len(got) /\ got'[i] = got[i]
          \/ i = Len(got) + 1 /\ 1 \in 1 .. Len(inHand) /\ got'[i] = inHand[1]
    BY <1>1, <2>1
  <2>3. HandOK'
    BY <1>0, <1>1, <2>1 DEF HandOK
  <2>4. Ordered(got)'
    <3> SUFFICES ASSUME NEW i \in 1 .. Len(got'), NEW j \in 1 .. Len(got'), i < j
                 PROVE  got'[i].id < got'[j].id
      BY DEF Ordered
    <3>1. i \in 1 .. Len(got) /\ got'[i] = got[i]
      BY <1>1, <2>1, <2>2
    <3> QED BY <1>0, <2>2, <3>1 DEF OrderInv, Ordered, Before
  <2>5. UpTo(got, pushed)' /\ Before(got, frames)'
    BY <1>0, <2>2 DEF OrderInv, UpTo, Before
  <2>6. OrderInv'
    BY <1>0, <1>1, <2>4, <2>5 DEF OrderInv, Ordered, UpTo, Before
  <2>7. KeyInv'
    <3>1. kind = "video" /\ entry => got' # <<>> /\ got'[1].key
      <4>1. CASE got = <<>>
        BY <1>0, <1>1, <2>1, <2>2, <4>1 DEF KeyInv
      <4>2. CASE got # <<>>
        BY <1>0, <1>1, <2>1, <2>2, <4>2 DEF KeyInv
      <4> QED BY <4>1, <4>2
    <3> QED BY <1>0, <3>1 DEF KeyInv
  <2> QED BY <1>2, <2>3, <2>6, <2>7 DEF ForwarderInv
<1> QED BY <1>0, <1>3, <1>4

(* The other steps leave the queue and what has been got alone, but for the *)
(* new connection, which has got nothing.                                   *)
LEMMA OthersKeep ==
  ASSUME ForwarderInv,
         \/ Accept \/ SendConfig \/ Leave \/ Release \/ ReaderConnects \/ ReaderCloses
         \/ RequestStop \/ ShutdownClient
  PROVE  ForwarderInv'
<1>0. /\ StateOK /\ QueueOK /\ HandOK /\ OrderInv /\ KeyInv
      /\ UNCHANGED <<kind, frames, bytes, keyframe, config, pushed, inHand, entry>>
  BY DEF ForwarderInv, Accept, SendConfig, Leave, Release, ReaderConnects, ReaderCloses,
         RequestStop, ShutdownClient, queueVars, workerVars
<1>1. StateOK'
  <2>1. connections' \in 0 .. MaxConnections
    BY <1>0, ForwarderAssumption
    DEF StateOK, Accept, SendConfig, Leave, Release, ReaderConnects, ReaderCloses,
        RequestStop, ShutdownClient, ForwarderAssumption
  <2> QED BY ZenonT(40), <1>0, <2>1
          DEF StateOK, Accept, SendConfig, Leave, Release, ReaderConnects, ReaderCloses,
              RequestStop, ShutdownClient, workerVars
<1>2. QueueOK'
  BY <1>0 DEF QueueOK, LatestAudio
<1>3. CASE Accept
  <2>1. /\ got' = <<>> /\ got' \in Seq(Frame) /\ Len(got') = 0 /\ inHand = <<>>
        /\ worker' \in {"accept", "connected"}
    BY <1>0, <1>3 DEF Accept, HandOK
  <2>2. HandOK'
    BY <1>0, <2>1 DEF HandOK
  <2>3. OrderInv'
    BY <1>0, <2>1 DEF OrderInv, Ordered, UpTo
  <2>4. KeyInv'
    BY <1>0, <2>1 DEF KeyInv
  <2> QED BY <1>1, <1>2, <2>2, <2>3, <2>4 DEF ForwarderInv
<1>4. CASE /\ UNCHANGED got
           /\ \/ UNCHANGED worker
              \/ worker = "greeting" /\ worker' \in {"forward", "release"}
              \/ worker \in {"accept", "forward", "release"}
                 /\ worker' \in {"ended", "release", "accept"}
  <2>1. HandOK'
    BY <1>0, <1>4 DEF HandOK
  <2>2. OrderInv'
    <3>1. worker = "greeting" => got = <<>> /\ Len(got) = 0 /\ inHand = <<>> /\ Len(inHand) = 0
      BY <1>0 DEF OrderInv, HandOK
    <3>2. CASE worker = "greeting"
      BY <1>0, <1>4, <3>1, <3>2 DEF OrderInv, Ordered, UpTo, Before
    <3>3. CASE worker # "greeting"
      BY <1>0, <1>4, <3>3 DEF OrderInv, Ordered, UpTo, Before
    <3> QED BY <3>2, <3>3
  <2>3. KeyInv'
    BY <1>0, <1>4 DEF KeyInv
  <2> QED BY <1>1, <1>2, <2>1, <2>2, <2>3 DEF ForwarderInv
<1> QED BY <1>3, <1>4
        DEF SendConfig, Leave, Release, ReaderConnects, ReaderCloses, RequestStop,
            ShutdownClient, workerVars

-----------------------------------------------------------------------------
(* The inductive invariant holds in every run of the forwarder. *)
THEOREM ForwarderInvariant == Spec => []ForwarderInv
<1>1. ForwarderInv /\ [Next]_vars => ForwarderInv'
  <2> SUFFICES ASSUME ForwarderInv, [Next]_vars PROVE ForwarderInv'
    OBVIOUS
  <2>1. CASE UNCHANGED vars
    <3>1. /\ UNCHANGED <<kind, frames, bytes, keyframe, config, pushed, worker, inHand, client>>
          /\ UNCHANGED <<got, entry, backlog, connections, stop>>
      BY <2>1 DEF vars, queueVars, workerVars
    <3>2. StateOK' /\ QueueOK'
      BY <3>1 DEF ForwarderInv, StateOK, QueueOK, LatestAudio
    <3>3. HandOK' /\ OrderInv'
      BY <3>1 DEF ForwarderInv, HandOK, OrderInv, Ordered, UpTo, Before
    <3>4. KeyInv'
      BY <3>1 DEF ForwarderInv, KeyInv
    <3> QED BY <3>2, <3>3, <3>4 DEF ForwarderInv
  <2> QED
    BY <2>1, PushKeeps, ClientConnectedKeeps, TakeFrameKeeps, SendFrameKeeps, OthersKeep
    DEF Next, Worker, Ended
<1> QED BY <1>1, InitForwarder, PTL DEF Spec

(* However pushes, drops, takes and rebuilt queues interleave, the queue    *)
(* keeps its limits and queued_bytes_ is the size of what is queued.        *)
THEOREM QueueCounted == Spec => []QueueAccounted
<1>1. ForwarderInv => QueueAccounted
  <2> SUFFICES ASSUME ForwarderInv PROVE QueueAccounted
    OBVIOUS
  <2>1. StateOK /\ QueueOK /\ HandOK
    BY DEF ForwarderInv
  <2>2. keyframe = <<>> \/ (Len(keyframe) = 1 /\ keyframe[1] \in Frame)
    <3>1. Len(keyframe) \in Nat /\ Len(keyframe) <= 1
      BY <2>1, Ids DEF QueueOK
    <3>2. keyframe \in Seq(Frame)
      BY <2>1 DEF QueueOK
    <3>3. Len(keyframe) = 0 \/ Len(keyframe) = 1
      BY <3>1, AtMostOne
    <3> QED BY <3>2, <3>3
  <2>3. inHand = <<>> \/ (Len(inHand) = 1 /\ inHand[1] \in Frame)
    BY <2>1 DEF HandOK
  <2>4. TypeOK
    BY <2>1, <2>2, <2>3 DEF StateOK, QueueOK, HandOK, TypeOK
  <2> QED BY <2>1, <2>4 DEF QueueOK, QueueAccounted, BytesCounted
<1> QED BY <1>1, ForwarderInvariant, PTL

(* A reader is sent no frame twice and none after a later one. *)
THEOREM ReaderInOrder == Spec => []StreamInOrder
<1>1. ForwarderInv => StreamInOrder
  BY DEF ForwarderInv, OrderInv, Ordered, StreamInOrder
<1> QED BY <1>1, ForwarderInvariant, PTL

(* A reader of video that connects when a keyframe is cached is sent a      *)
(* keyframe first, whatever is pushed between its steps.                    *)
THEOREM ReaderStartsDecodable == Spec => []StartsDecodable
<1>1. ForwarderInv => StartsDecodable
  BY DEF ForwarderInv, KeyInv, StartsDecodable
<1> QED BY <1>1, ForwarderInvariant, PTL
=============================================================================
