--------------------------- MODULE EventPathProofs ---------------------------
(***************************************************************************)
(* Theorems about EventPath for every limit of the queue and the socket    *)
(* and any number of events, sessions and faults: the queue keeps its      *)
(* limits and its count of bytes, frames are delivered whole or given up   *)
(* for a reason, and the path implements MessageChannel.                   *)
(***************************************************************************)
EXTENDS EventPath, WellFoundedInduction, TLAPS

Units == Frames \X {0, 1}
Conns == [data : Seq(Units), w : BOOLEAN, r : {"backlog", "open", "closed"}]

ChanType ==
  [pc : {"open", "answer", "closed"}, sent : Nat, decrypted : Nat, consumed : Nat,
   behind : Nat]

WriterType ==
  [pc : {"wait", "connect", "send", "sleep", "off"}, frame : {0} \cup Frames,
   units : {0, 1}, conn : Nat, stop : BOOLEAN]

ReceiverType ==
  [pc : {"accept", "header", "body", "callback", "off"}, conn : Nat,
   frame : Seq(Frames), stop : BOOLEAN]

StateOK ==
  /\ chan \in ChanType /\ writer \in WriterType /\ receiver \in ReceiverType
  /\ conns \in Seq(Conns) /\ queue \in Seq(Frames)
  /\ delivered \in Seq(Frames \X Frames)
  /\ faults \in Nat /\ session \in Nat

(* Requests are numbered in the order of their units. *)
ChanInv ==
  /\ chan.consumed % 2 = 0
  /\ chan.consumed <= chan.decrypted /\ chan.decrypted <= chan.sent
  /\ chan.sent <= 2 * MaxEvents
  /\ chan.pc = "answer" => chan.consumed + 2 <= chan.decrypted
  /\ \A n \in accepted :
       /\ 2 * n <= chan.decrypted
       /\ chan.pc = "open" => 2 * n <= chan.consumed
       /\ chan.pc = "answer" => 2 * n <= chan.consumed + 2

QueueInv ==
  /\ Len(queue) <= MaxQueued /\ bytes = Bytes(queue) /\ bytes <= MaxBytes
  /\ \A i, j \in 1 .. Len(queue) : i < j => queue[i] < queue[j]

WriterInv ==
  /\ writer.pc \in {"connect", "send"} <=> writer.frame # 0
  /\ writer.pc = "send" => writer.conn # 0
  /\ writer.pc = "connect" => writer.conn = 0 /\ writer.units = 0
  /\ writer.conn \in {0, Len(conns)}

(* Of the connections only that of the receiver and those that wait behind  *)
(* it, which are the newest, hold data.                                     *)
ConnInv ==
  /\ receiver.conn <= Len(conns)
  /\ receiver.pc \in {"accept", "off"} <=> receiver.conn = 0
  /\ \A i \in 1 .. Len(conns) :
       /\ Len(conns[i].data) <= Capacity
       /\ conns[i].r = "closed" => conns[i].data = <<>>
       /\ conns[i].r = "open" <=> i = receiver.conn
       /\ conns[i].r = "backlog" => \A j \in i .. Len(conns) : conns[j].r = "backlog"

(* The frame whose length the receiver has read from connection i, or 0. *)
Pending(i) ==
  IF receiver.conn = i /\ receiver.pc = "body" THEN receiver.frame[1] ELSE 0

(* d follows the length of frame b, or follows a message if b is 0: every   *)
(* length is followed by its message, and the messages are in order.        *)
Alternating(d, b) ==
  /\ d # <<>> => IF b = 0 THEN d[1][2] = 0 ELSE d[1] = <<b, 1>>
  /\ \A k \in 1 .. Len(d) - 1 :
       IF d[k][2] = 0 THEN d[k + 1] = <<d[k][1], 1>> ELSE d[k + 1][2] = 0
  /\ \A j, k \in 1 .. Len(d) : j < k /\ d[j][2] = 1 /\ d[k][2] = 1 => d[j][1] < d[k][1]

(* The frame whose length ends d, or 0 *)
HalfSent(d, b) ==
  IF d = <<>> THEN b ELSE IF d[Len(d)][2] = 0 THEN d[Len(d)][1] ELSE 0

StreamInv ==
  /\ \A i \in 1 .. Len(conns) : Alternating(conns[i].data, Pending(i))
  /\ writer.conn # 0 /\ conns[writer.conn].r # "closed" =>
       HalfSent(conns[writer.conn].data, Pending(writer.conn))
         = IF writer.pc = "send" /\ writer.units = 1 THEN writer.frame ELSE 0
  /\ receiver.pc = "body" => Len(receiver.frame) = 1
  /\ receiver.pc = "callback" => Len(receiver.frame) = 2 /\ receiver.frame[1] = receiver.frame[2]
  /\ receiver.pc \in {"accept", "header"} => receiver.frame = <<>>
  /\ WholeFrames

(* The frames of a connection whose messages are in it *)
Whole(d) == {n \in Frames : \E u \in DOMAIN d : d[u] = <<n, 1>>}

(* Where a frame can be, from the car to the daemon *)
InSocket == UNION {Whole(conns[i].data) : i \in DOMAIN conns}
InCallback == IF receiver.pc = "callback" THEN {receiver.frame[1]} ELSE {}
Given == {delivered[i][1] : i \in DOMAIN delivered}

Before(S, T) == \A n \in S, m \in T : n < m

(* Every frame taken is at one place or lost, and the places are in order. *)
Chain(D, C, S, W, Q, A, L) ==
  /\ A \subseteq Frames /\ L \subseteq A
  /\ D \cup C \cup S \cup W \cup Q \subseteq A \ L
  /\ A \subseteq D \cup C \cup S \cup W \cup Q \cup L
  /\ Before(D, C \cup S \cup W \cup Q)
  /\ Before(C, S \cup W \cup Q)
  /\ Before(S, W \cup Q)
  /\ Before(W, Q)

OrderInv ==
  /\ Chain(Given, InCallback, InSocket, InHand, Queued, accepted, lost)
  /\ \A i, j \in 1 .. Len(conns) : i < j => Before(Whole(conns[i].data), Whole(conns[j].data))

EventInv ==
  StateOK /\ ChanInv /\ QueueInv /\ WriterInv /\ ConnInv /\ StreamInv /\ OrderInv

-----------------------------------------------------------------------------
(* Bytes: the recursive function exists, is the only one of its kind, and   *)
(* so follows the queue at both ends.                                       *)

(* Natural induction for a set, from the least element outside of it. *)
LEMMA SetInduction ==
  ASSUME NEW T, 0 \in T, \A n \in Nat : n \in T => n + 1 \in T
  PROVE  Nat \subseteq T
<1> SUFFICES ASSUME NEW m \in Nat, m \notin T PROVE FALSE
  OBVIOUS
<1> DEFINE U == {n \in Nat : n \notin T}
           R == OpToRel(<, Nat)
<1>1. U \subseteq Nat /\ U # {}
  OBVIOUS
<1>2. IsWellFoundedOn(R, Nat)
  BY NatLessThanWellFounded
<1> HIDE DEF R
<1>3. PICK x \in U : \A y \in U : ~ (<<y, x>> \in R)
  BY <1>1, <1>2, WFMin
<1>4. \A y \in Nat : y < x => <<y, x>> \in R
  BY DEF R, OpToRel
<1>5. x # 0 /\ x - 1 \in Nat
  BY <1>3
<1>6. x - 1 \in U /\ x - 1 < x
  BY <1>5
<1>7. <<x - 1, x>> \in R
  BY <1>4, <1>5, <1>6
<1> QED BY <1>3, <1>6, <1>7

LEMMA FrameSize == \A n \in Frames : n \in Nat /\ Size(n) \in Nat
BY EventAssumption DEF Frames, Size

IsSum(g, q) ==
  /\ g \in [0 .. Len(q) -> Nat]
  /\ g[0] = 0
  /\ \A i \in 1 .. Len(q) : g[i] = g[i - 1] + Size(q[i])

LEMMA SumExists ==
  ASSUME NEW q \in Seq(Frames)
  PROVE  \E g : g = [i \in 0 .. Len(q) |-> IF i = 0 THEN 0 ELSE g[i - 1] + Size(q[i])]
<1> DEFINE H(g, n) ==
             /\ g \in [0 .. n -> Nat]
             /\ g = [i \in 0 .. n |-> IF i = 0 THEN 0 ELSE g[i - 1] + Size(q[i])]
           T == {n \in Nat : n <= Len(q) => \E g : H(g, n)}
<1>1. 0 \in T
  <2> DEFINE g == [i \in 0 .. 0 |-> 0]
  <2>1. H(g, 0)
    OBVIOUS
  <2> QED BY <2>1
<1>2. ASSUME NEW n \in Nat, n \in T PROVE n + 1 \in T
  <2> SUFFICES ASSUME n + 1 <= Len(q) PROVE \E k : H(k, n + 1)
    OBVIOUS
  <2>1. PICK g : H(g, n)
    BY <1>2
  <2> DEFINE h == [i \in 0 .. n + 1 |-> IF i = n + 1 THEN g[n] + Size(q[n + 1]) ELSE g[i]]
  <2>2. h \in [0 .. n + 1 -> Nat]
    BY SMTT(30), <2>1, FrameSize
  <2>3. \A i \in 0 .. n + 1 : h[i] = IF i = 0 THEN 0 ELSE h[i - 1] + Size(q[i])
    <3> SUFFICES ASSUME NEW i \in 0 .. n + 1
                 PROVE  h[i] = IF i = 0 THEN 0 ELSE h[i - 1] + Size(q[i])
      OBVIOUS
    <3>1. CASE i = n + 1
      BY <2>1, <3>1
    <3>2. CASE i \in 0 .. n
      BY <2>1, <3>2
    <3> QED BY <3>1, <3>2
  <2>4. H(h, n + 1)
    <3> HIDE DEF h
    <3> QED BY <2>2, <2>3
  <2> HIDE DEF H
  <2> QED BY <2>4
<1> HIDE DEF T
<1>3. Nat \subseteq T
  BY <1>1, <1>2, SetInduction
<1>4. Len(q) \in Nat
  OBVIOUS
<1> QED BY <1>3, <1>4 DEF T

LEMMA BytesIsSum ==
  ASSUME NEW q \in Seq(Frames)
  PROVE  \E g : IsSum(g, q) /\ Bytes(q) = g[Len(q)]
<1> DEFINE sum[i \in 0 .. Len(q)] == IF i = 0 THEN 0 ELSE sum[i - 1] + Size(q[i])
<1>1. sum = [i \in 0 .. Len(q) |-> IF i = 0 THEN 0 ELSE sum[i - 1] + Size(q[i])]
  BY SumExists
<1>2. Bytes(q) = sum[Len(q)]
  BY DEF Bytes
<1> HIDE DEF sum
<1>3. sum \in [0 .. Len(q) -> Nat]
  <2> DEFINE T == {n \in Nat : n <= Len(q) => sum[n] \in Nat}
  <2>1. 0 \in T
    BY <1>1
  <2>2. ASSUME NEW n \in Nat, n \in T PROVE n + 1 \in T
    BY SMTT(30), <1>1, <2>2, FrameSize
  <2> HIDE DEF T
  <2>3. Nat \subseteq T
    BY <2>1, <2>2, SetInduction
  <2>4. \A n \in 0 .. Len(q) : sum[n] \in Nat
    BY <2>3 DEF T
  <2> QED BY <1>1, <2>4
<1>4. IsSum(sum, q)
  <2>1. ASSUME NEW i \in 1 .. Len(q) PROVE sum[i] = sum[i - 1] + Size(q[i])
    BY <1>1
  <2>2. sum[0] = 0
    BY <1>1
  <2> QED BY <1>3, <2>1, <2>2 DEF IsSum
<1> QED BY <1>2, <1>4

LEMMA BytesIs ==
  ASSUME NEW q \in Seq(Frames), NEW h, IsSum(h, q)
  PROVE  Bytes(q) = h[Len(q)]
<1>1. PICK g : IsSum(g, q) /\ Bytes(q) = g[Len(q)]
  BY BytesIsSum
<1> DEFINE T == {n \in Nat : n <= Len(q) => g[n] = h[n]}
<1>2. 0 \in T
  BY <1>1 DEF IsSum
<1>3. ASSUME NEW n \in Nat, n \in T PROVE n + 1 \in T
  BY <1>1, <1>3 DEF IsSum
<1> HIDE DEF T
<1>4. Nat \subseteq T
  BY <1>2, <1>3, SetInduction
<1> QED BY <1>1, <1>4 DEF T

LEMMA BytesEmpty == Bytes(<<>>) = 0
<1>1. <<>> \in Seq(Frames) /\ Len(<<>>) = 0
  OBVIOUS
<1>2. PICK g : IsSum(g, <<>>) /\ Bytes(<<>>) = g[Len(<<>>)]
  BY <1>1, BytesIsSum
<1> QED BY <1>1, <1>2 DEF IsSum

LEMMA BytesAppend ==
  ASSUME NEW q \in Seq(Frames), NEW x \in Frames
  PROVE  Bytes(q) \in Nat /\ Bytes(Append(q, x)) = Bytes(q) + Size(x)
<1>1. PICK g : IsSum(g, q) /\ Bytes(q) = g[Len(q)]
  BY BytesIsSum
<1> DEFINE r == Append(q, x)
           h == [i \in 0 .. Len(r) |-> IF i = Len(r) THEN g[Len(q)] + Size(x) ELSE g[i]]
<1>2. /\ r \in Seq(Frames) /\ Len(r) = Len(q) + 1 /\ r[Len(r)] = x
      /\ \A i \in 1 .. Len(q) : r[i] = q[i]
  OBVIOUS
<1> HIDE DEF r
<1>3. IsSum(h, r)
  <2>0. Size(x) \in Nat /\ Len(q) \in Nat
    BY FrameSize
  <2>1. h \in [0 .. Len(r) -> Nat] /\ h[0] = 0
    BY <1>1, <1>2, <2>0 DEF IsSum
  <2>2. ASSUME NEW i \in 1 .. Len(r) PROVE h[i] = h[i - 1] + Size(r[i])
    <3>1. CASE i = Len(r)
      BY <1>2, <2>0, <3>1
    <3>2. CASE i \in 1 .. Len(q)
      <4>1. g[i] = g[i - 1] + Size(q[i])
        BY <1>1, <3>2 DEF IsSum
      <4> QED BY <1>2, <2>0, <3>2, <4>1
    <3> QED BY <1>2, <2>0, <3>1, <3>2
  <2> QED BY <2>1, <2>2 DEF IsSum
<1>4. Bytes(r) = h[Len(r)]
  BY <1>2, <1>3, BytesIs
<1> QED BY <1>1, <1>2, <1>4 DEF IsSum, r

LEMMA BytesTail ==
  ASSUME NEW q \in Seq(Frames), q # <<>>
  PROVE  Bytes(q) = Size(Head(q)) + Bytes(Tail(q)) /\ Bytes(Tail(q)) \in Nat
<1> DEFINE r == Tail(q)
<1>1. /\ r \in Seq(Frames) /\ Len(r) = Len(q) - 1 /\ Len(q) \in Nat \ {0}
      /\ Head(q) = q[1] /\ q[1] \in Frames
      /\ \A i \in 1 .. Len(r) : r[i] = q[i + 1]
  OBVIOUS
<1> HIDE DEF r
<1>2. PICK g : IsSum(g, r) /\ Bytes(r) = g[Len(r)]
  BY <1>1, BytesIsSum
<1> DEFINE h == [i \in 0 .. Len(q) |-> IF i = 0 THEN 0 ELSE Size(q[1]) + g[i - 1]]
<1>3. Size(q[1]) \in Nat
  BY <1>1, FrameSize
<1>4. IsSum(h, q)
  <2>1. h \in [0 .. Len(q) -> Nat] /\ h[0] = 0
    BY <1>1, <1>2, <1>3 DEF IsSum
  <2>2. ASSUME NEW i \in 1 .. Len(q) PROVE h[i] = h[i - 1] + Size(q[i])
    <3>1. CASE i = 1
      BY <1>1, <1>2, <1>3, <3>1 DEF IsSum
    <3>2. CASE i > 1
      <4> DEFINE k == i - 1
      <4>1. k \in 1 .. Len(r) /\ k - 1 \in 0 .. Len(r) /\ k + 1 = i
        BY <1>1, <3>2
      <4>2. g[k] = g[k - 1] + Size(q[i])
        BY <1>1, <1>2, <4>1 DEF IsSum
      <4>3. h[i] = Size(q[1]) + g[k] /\ h[i - 1] = Size(q[1]) + g[k - 1]
        BY <1>1, <3>2
      <4>4. g[k - 1] \in Nat /\ Size(q[i]) \in Nat
        <5>1. q[i] \in Frames
          OBVIOUS
        <5> QED BY <1>2, <4>1, <5>1, FrameSize DEF IsSum
      <4> QED BY <1>3, <4>2, <4>3, <4>4
    <3> QED BY <3>1, <3>2
  <2> QED BY <2>1, <2>2 DEF IsSum
<1>5. Bytes(q) = h[Len(q)]
  BY <1>4, BytesIs
<1> QED BY <1>1, <1>2, <1>5 DEF IsSum, r

LEMMA BytesFront ==
  ASSUME NEW q \in Seq(Frames), NEW x \in Frames
  PROVE  /\ <<x>> \o q \in Seq(Frames) /\ Len(<<x>> \o q) = Len(q) + 1
         /\ (<<x>> \o q)[1] = x /\ \A i \in 1 .. Len(q) : (<<x>> \o q)[i + 1] = q[i]
         /\ Bytes(<<x>> \o q) = Size(x) + Bytes(q)
<1> DEFINE r == <<x>> \o q
<1>1. <<x>> \in Seq(Frames) /\ Len(<<x>>) = 1 /\ <<x>>[1] = x
  OBVIOUS
<1>2. /\ r \in Seq(Frames) /\ Len(r) = Len(q) + 1 /\ Len(q) \in Nat
      /\ r[1] = x /\ \A i \in 1 .. Len(q) : r[i + 1] = q[i]
  BY <1>1
<1> HIDE DEF r
<1>3. r # <<>> /\ Head(r) = x
  BY <1>2
<1>4. Tail(r) = q
  <2>1. Tail(r) \in Seq(Frames) /\ Len(Tail(r)) = Len(q)
    BY <1>2, <1>3
  <2>2. \A i \in 1 .. Len(q) : Tail(r)[i] = q[i]
    BY <1>2, <1>3
  <2> QED BY <2>1, <2>2
<1>5. Bytes(r) = Size(Head(r)) + Bytes(Tail(r))
  BY <1>2, <1>3, BytesTail
<1> QED BY <1>2, <1>3, <1>4, <1>5 DEF r

-----------------------------------------------------------------------------
(* How frames move along the chain *)

LEMMA FramesAreNumbers == Frames \subseteq Nat /\ 0 \notin Frames
BY EventAssumption DEF Frames

LEMMA ChainTaken ==
  ASSUME NEW D, NEW C, NEW S, NEW W, NEW Q, NEW A, NEW L, Chain(D, C, S, W, Q, A, L),
         NEW n \in Frames, \A m \in A : m < n
  PROVE  Chain(D, C, S, W, Q \cup {n}, A \cup {n}, L)
<1>1. n \notin A
  BY FramesAreNumbers
<1> QED BY <1>1 DEF Chain, Before

LEMMA ChainToHand ==
  ASSUME NEW D, NEW C, NEW S, NEW Q, NEW A, NEW L, Chain(D, C, S, {}, Q, A, L),
         NEW n \in Q, NEW R, Q = R \cup {n}, \A m \in R : n < m
  PROVE  Chain(D, C, S, {n}, R, A, L)
BY DEF Chain, Before

LEMMA ChainToQueue ==
  ASSUME NEW D, NEW C, NEW S, NEW W, NEW Q, NEW A, NEW L, Chain(D, C, S, W, Q, A, L)
  PROVE  Chain(D, C, S, {}, W \cup Q, A, L)
BY DEF Chain, Before

LEMMA ChainToSocket ==
  ASSUME NEW D, NEW C, NEW S, NEW W, NEW Q, NEW A, NEW L, Chain(D, C, S, W, Q, A, L)
  PROVE  Chain(D, C, S \cup W, {}, Q, A, L)
BY DEF Chain, Before

LEMMA ChainToCallback ==
  ASSUME NEW D, NEW S, NEW W, NEW Q, NEW A, NEW L, Chain(D, {}, S, W, Q, A, L),
         NEW n \in S, NEW R, S = R \cup {n}, \A m \in R : n < m
  PROVE  Chain(D, {n}, R, W, Q, A, L)
BY DEF Chain, Before

LEMMA ChainDelivered ==
  ASSUME NEW D, NEW C, NEW S, NEW W, NEW Q, NEW A, NEW L, Chain(D, C, S, W, Q, A, L)
  PROVE  Chain(D \cup C, {}, S, W, Q, A, L)
BY DEF Chain, Before

(* What is given up is in order among the rest, so it is nowhere else. *)
LEMMA ChainLost ==
  ASSUME NEW D, NEW C, NEW S, NEW W, NEW Q, NEW A, NEW L, Chain(D, C, S, W, Q, A, L),
         NEW T, NEW V, NEW P, T \subseteq S, V \subseteq W, P \subseteq Q,
         NEW X, X \subseteq (S \ T) \cup (W \ V) \cup (Q \ P),
         (S \ T) \cup (W \ V) \cup (Q \ P) \subseteq X
  PROVE  Chain(D, C, T, V, P, A, L \cup X)
<1>1. A \subseteq Nat
  BY FramesAreNumbers DEF Chain
<1>2. \A n \in Nat : ~ (n < n)
  OBVIOUS
<1>3. \A n \in X : n \notin D \cup C
  BY <1>1, <1>2 DEF Chain, Before
<1>4. \A n \in X : n \notin T \cup V \cup P
  BY <1>1, <1>2 DEF Chain, Before
<1>5. D \cup C \cup T \cup V \cup P \subseteq A \ (L \cup X)
  BY <1>3, <1>4 DEF Chain
<1>6. A \subseteq D \cup C \cup T \cup V \cup P \cup (L \cup X)
  BY DEF Chain
<1>7. L \cup X \subseteq A
  BY DEF Chain
<1>8. /\ Before(D, C \cup T \cup V \cup P) /\ Before(C, T \cup V \cup P)
      /\ Before(T, V \cup P) /\ Before(V, P)
  BY DEF Chain, Before
<1> QED BY <1>5, <1>6, <1>7, <1>8 DEF Chain

-----------------------------------------------------------------------------
(* What a connection holds *)

LEMMA UnreadIsWhole == \A i : Unread(i) = Whole(conns[i].data)
BY DEF Unread, Whole

LEMMA WholeEmpty == Whole(<<>>) = {}
BY DEF Whole

LEMMA WholeAppend ==
  ASSUME NEW d \in Seq(Units), NEW n \in Frames, NEW u \in {0, 1}
  PROVE  /\ Append(d, <<n, u>>) \in Seq(Units)
         /\ Whole(Append(d, <<n, u>>)) = Whole(d) \cup (IF u = 1 THEN {n} ELSE {})
<1> DEFINE x == <<n, u>>
           e == Append(d, x)
<1>1. x \in Units /\ x[1] = n /\ x[2] = u
  BY DEF Units
<1> HIDE DEF x
<1>2. /\ e \in Seq(Units) /\ Len(e) = Len(d) + 1 /\ Len(d) \in Nat
      /\ \A i \in 1 .. Len(d) : e[i] = d[i]
      /\ e[Len(d) + 1] = x
  BY <1>1
<1> HIDE DEF e
<1>3. DOMAIN e = 1 .. Len(d) + 1 /\ DOMAIN d = 1 .. Len(d)
  BY <1>2
<1>4. Whole(e) \subseteq Whole(d) \cup (IF u = 1 THEN {n} ELSE {})
  <2> SUFFICES ASSUME NEW m \in Whole(e) PROVE m \in Whole(d) \cup (IF u = 1 THEN {n} ELSE {})
    OBVIOUS
  <2>1. PICK k \in 1 .. Len(d) + 1 : e[k] = <<m, 1>> /\ m \in Frames
    BY <1>3 DEF Whole
  <2>2. CASE k = Len(d) + 1
    <3>1. x = <<m, 1>>
      BY <1>2, <2>1, <2>2
    <3>2. n = m /\ u = 1
      BY <1>1, <3>1
    <3> QED BY <3>2
  <2>3. CASE k \in 1 .. Len(d)
    BY <1>2, <1>3, <2>1, <2>3 DEF Whole
  <2> QED BY <1>2, <2>1, <2>2, <2>3
<1>5. Whole(d) \subseteq Whole(e)
  <2> SUFFICES ASSUME NEW m \in Whole(d) PROVE m \in Whole(e)
    OBVIOUS
  <2>1. PICK k \in 1 .. Len(d) : d[k] = <<m, 1>> /\ m \in Frames
    BY <1>3 DEF Whole
  <2>2. k \in 1 .. Len(d) + 1 /\ e[k] = <<m, 1>>
    BY <1>2, <2>1
  <2> QED BY <1>3, <2>1, <2>2 DEF Whole
<1>6. u = 1 => n \in Whole(e)
  <2>1. Len(d) + 1 \in DOMAIN e /\ e[Len(d) + 1] = <<n, u>>
    BY <1>2, <1>3 DEF x
  <2> QED BY <2>1 DEF Whole
<1> QED BY <1>2, <1>4, <1>5, <1>6 DEF e, x

LEMMA WholeTail ==
  ASSUME NEW d \in Seq(Units), d # <<>>
  PROVE  /\ Tail(d) \in Seq(Units) /\ d[1] \in Units
         /\ d[1][2] = 0 => Whole(Tail(d)) = Whole(d)
         /\ d[1][2] = 1 => Whole(d) = Whole(Tail(d)) \cup {d[1][1]}
<1> DEFINE e == Tail(d)
<1>1. /\ e \in Seq(Units) /\ Len(e) = Len(d) - 1 /\ Len(d) \in Nat /\ Len(d) > 0
      /\ \A i \in 1 .. Len(d) - 1 : e[i] = d[i + 1]
      /\ d[1] \in Units
  OBVIOUS
<1> HIDE DEF e
<1>2. DOMAIN e = 1 .. Len(d) - 1 /\ DOMAIN d = 1 .. Len(d)
  BY <1>1
<1>3. Whole(e) \subseteq Whole(d)
  <2> SUFFICES ASSUME NEW m \in Whole(e) PROVE m \in Whole(d)
    OBVIOUS
  <2>1. PICK k \in 1 .. Len(d) - 1 : e[k] = <<m, 1>> /\ m \in Frames
    BY <1>2 DEF Whole
  <2>2. k + 1 \in 1 .. Len(d) /\ d[k + 1] = <<m, 1>>
    BY <1>1, <2>1
  <2> QED BY <1>2, <2>1, <2>2 DEF Whole
<1>4. ASSUME NEW m \in Whole(d) PROVE m \in Whole(e) \/ d[1] = <<m, 1>>
  <2>1. PICK k \in 1 .. Len(d) : d[k] = <<m, 1>> /\ m \in Frames
    BY <1>2 DEF Whole
  <2>2. CASE k > 1
    <3>1. k - 1 \in 1 .. Len(d) - 1 /\ k - 1 + 1 = k
      BY <1>1, <2>2
    <3>2. e[k - 1] = <<m, 1>>
      BY <1>1, <2>1, <3>1
    <3> QED BY <1>2, <2>1, <3>1, <3>2 DEF Whole
  <2> QED BY <2>1, <2>2
<1>5. d[1][2] = 1 => d[1][1] \in Whole(d)
  <2> SUFFICES ASSUME d[1][2] = 1 PROVE d[1][1] \in Whole(d)
    OBVIOUS
  <2>1. d[1] = <<d[1][1], 1>> /\ d[1][1] \in Frames /\ 1 \in DOMAIN d
    BY <1>1, <1>2 DEF Units
  <2> QED BY <2>1 DEF Whole
<1>6. \A m : d[1] = <<m, 1>> => d[1][2] = 1 /\ d[1][1] = m
  OBVIOUS
<1>7. ASSUME d[1][2] = 0 PROVE Whole(e) = Whole(d)
  <2>1. \A m : d[1] # <<m, 1>>
    BY <1>6, <1>7
  <2> QED BY <1>3, <1>4, <2>1
<1>8. ASSUME d[1][2] = 1 PROVE Whole(d) = Whole(e) \cup {d[1][1]}
  <2>1. ASSUME NEW m \in Whole(d) PROVE m \in Whole(e) \cup {d[1][1]}
    BY <1>4, <1>6, <2>1
  <2> QED BY <1>3, <1>5, <1>8, <2>1
<1> QED BY <1>1, <1>7, <1>8 DEF e

LEMMA SetConn ==
  ASSUME NEW cs \in Seq(Conns), NEW i \in 1 .. Len(cs), NEW c \in Conns
  PROVE  LET ds == [cs EXCEPT ![i] = c]
         IN  /\ ds \in Seq(Conns) /\ Len(ds) = Len(cs) /\ ds[i] = c
             /\ \A j \in 1 .. Len(cs) : j # i => ds[j] = cs[j]
OBVIOUS

LEMMA AppendHeader ==
  ASSUME NEW d \in Seq(Units), NEW b, NEW n \in Frames, Alternating(d, b), HalfSent(d, b) = 0
  PROVE  /\ Alternating(Append(d, <<n, 0>>), b)
         /\ HalfSent(Append(d, <<n, 0>>), b) = n
<1> DEFINE x == <<n, 0>>
           e == Append(d, x)
<1>1. x \in Units /\ x[1] = n /\ x[2] = 0
  BY DEF Units
<1>2. \A u \in Units : u[1] \in Frames /\ u[1] # 0 /\ u[2] \in {0, 1}
  BY FramesAreNumbers DEF Units
<1> HIDE DEF x
<1>3. /\ e \in Seq(Units) /\ Len(e) = Len(d) + 1 /\ Len(d) \in Nat
      /\ \A i \in 1 .. Len(d) : e[i] = d[i] /\ d[i] \in Units
      /\ e[Len(d) + 1] = x /\ e # <<>>
      /\ d = <<>> <=> Len(d) = 0
  <2>1. d = <<>> <=> Len(d) = 0
    OBVIOUS
  <2>2. /\ e \in Seq(Units) /\ Len(e) = Len(d) + 1 /\ Len(d) \in Nat
        /\ \A i \in 1 .. Len(d) : e[i] = d[i] /\ d[i] \in Units
        /\ e[Len(d) + 1] = x
    BY <1>1
  <2> HIDE DEF e
  <2>3. e # <<>>
    BY <2>2
  <2> QED BY <2>1, <2>2, <2>3
<1> HIDE DEF e
<1>4. HalfSent(e, b) = n
  BY <1>1, <1>3 DEF HalfSent
<1>5. IF b = 0 THEN e[1][2] = 0 ELSE e[1] = <<b, 1>>
  <2>1. CASE Len(d) = 0
    BY <1>1, <1>3, <2>1 DEF HalfSent
  <2>2. CASE Len(d) # 0
    BY <1>3, <2>2 DEF Alternating
  <2> QED BY <2>1, <2>2
<1>6. ASSUME NEW k \in 1 .. Len(e) - 1
      PROVE  IF e[k][2] = 0 THEN e[k + 1] = <<e[k][1], 1>> ELSE e[k + 1][2] = 0
  <2>0. k \in 1 .. Len(d) /\ e[k] = d[k]
    BY <1>3
  <2>1. CASE k = Len(d)
    <3>1. d # <<>> /\ d[Len(d)] \in Units
      BY <1>3, <2>0
    <3>2. d[Len(d)][2] # 0
      BY <1>2, <3>1 DEF HalfSent
    <3> QED BY <1>1, <1>3, <2>0, <2>1, <3>2
  <2>2. CASE k \in 1 .. Len(d) - 1
    <3>1. e[k + 1] = d[k + 1]
      BY <1>3, <2>2
    <3> QED BY <2>0, <2>2, <3>1 DEF Alternating
  <2> QED BY <1>3, <2>0, <2>1, <2>2
<1>7. ASSUME NEW j \in 1 .. Len(e), NEW k \in 1 .. Len(e), j < k, e[j][2] = 1, e[k][2] = 1
      PROVE  e[j][1] < e[k][1]
  <2>1. k # Len(d) + 1
    BY <1>1, <1>3, <1>7
  <2>2. j \in 1 .. Len(d) /\ k \in 1 .. Len(d) /\ e[j] = d[j] /\ e[k] = d[k]
    BY <1>3, <1>7, <2>1
  <2> QED BY <1>7, <2>2 DEF Alternating
<1>8. Alternating(e, b)
  BY <1>5, <1>6, <1>7 DEF Alternating
<1> QED BY <1>4, <1>8 DEF e, x

LEMMA AppendBody ==
  ASSUME NEW d \in Seq(Units), NEW b, NEW n \in Frames, Alternating(d, b), HalfSent(d, b) = n,
         \A m \in Whole(d) : m < n
  PROVE  /\ Alternating(Append(d, <<n, 1>>), b)
         /\ HalfSent(Append(d, <<n, 1>>), b) = 0
<1> DEFINE x == <<n, 1>>
           e == Append(d, x)
<1>1. x \in Units /\ x[1] = n /\ x[2] = 1 /\ n # 0
  BY FramesAreNumbers DEF Units
<1>2. \A u \in Units : u[1] \in Frames /\ u[2] \in {0, 1} /\ u = <<u[1], u[2]>>
  BY DEF Units
<1> HIDE DEF x
<1>3. /\ e \in Seq(Units) /\ Len(e) = Len(d) + 1 /\ Len(d) \in Nat
      /\ \A i \in 1 .. Len(d) : e[i] = d[i] /\ d[i] \in Units
      /\ e[Len(d) + 1] = x /\ e # <<>>
      /\ d = <<>> <=> Len(d) = 0
  <2>1. d = <<>> <=> Len(d) = 0
    OBVIOUS
  <2>2. /\ e \in Seq(Units) /\ Len(e) = Len(d) + 1 /\ Len(d) \in Nat
        /\ \A i \in 1 .. Len(d) : e[i] = d[i] /\ d[i] \in Units
        /\ e[Len(d) + 1] = x
    BY <1>1
  <2> HIDE DEF e
  <2>3. e # <<>>
    BY <2>2
  <2> QED BY <2>1, <2>2, <2>3
<1> HIDE DEF e
<1>4. HalfSent(e, b) = 0
  BY <1>1, <1>3 DEF HalfSent
<1>5. IF b = 0 THEN e[1][2] = 0 ELSE e[1] = <<b, 1>>
  <2>1. CASE Len(d) = 0
    BY <1>1, <1>3, <2>1 DEF HalfSent, x
  <2>2. CASE Len(d) # 0
    BY <1>3, <2>2 DEF Alternating
  <2> QED BY <2>1, <2>2
<1>6. ASSUME NEW k \in 1 .. Len(e) - 1
      PROVE  IF e[k][2] = 0 THEN e[k + 1] = <<e[k][1], 1>> ELSE e[k + 1][2] = 0
  <2>0. k \in 1 .. Len(d) /\ e[k] = d[k]
    BY <1>3
  <2>1. CASE k = Len(d)
    <3>1. d # <<>>
      BY <1>3, <2>0
    <3>2. d[Len(d)][2] = 0 /\ d[Len(d)][1] = n
      BY <1>1, <3>1 DEF HalfSent
    <3> QED BY <1>3, <2>0, <2>1, <3>2 DEF x
  <2>2. CASE k \in 1 .. Len(d) - 1
    <3>1. e[k + 1] = d[k + 1]
      BY <1>3, <2>2
    <3> QED BY <2>0, <2>2, <3>1 DEF Alternating
  <2> QED BY <1>3, <2>0, <2>1, <2>2
<1>7. ASSUME NEW j \in 1 .. Len(e), NEW k \in 1 .. Len(e), j < k, e[j][2] = 1, e[k][2] = 1
      PROVE  e[j][1] < e[k][1]
  <2>0. j \in 1 .. Len(d) /\ e[j] = d[j] /\ d[j] \in Units
    BY <1>3, <1>7
  <2>1. CASE k = Len(d) + 1
    <3>1. d[j] = <<d[j][1], 1>> /\ d[j][1] \in Frames
      BY <1>2, <1>7, <2>0
    <3>2. d[j][1] \in Whole(d)
      <4>1. j \in DOMAIN d
        BY <2>0
      <4> QED BY <3>1, <4>1 DEF Whole
    <3> QED BY <1>1, <1>3, <2>0, <2>1, <3>2
  <2>2. CASE k \in 1 .. Len(d)
    BY <1>3, <1>7, <2>0, <2>2 DEF Alternating
  <2> QED BY <1>3, <2>1, <2>2
<1>8. Alternating(e, b)
  BY <1>5, <1>6, <1>7 DEF Alternating
<1> QED BY <1>4, <1>8 DEF e, x

LEMMA TailParts ==
  ASSUME NEW d \in Seq(Units), d # <<>>, NEW b, Alternating(d, b)
  PROVE  LET e == Tail(d)
         IN  /\ e \in Seq(Units) /\ Len(e) = Len(d) - 1 /\ Len(d) \in Nat /\ Len(d) > 0
             /\ \A k \in 1 .. Len(e) : e[k] = d[k + 1] /\ k + 1 \in 1 .. Len(d)
             /\ \A k \in 1 .. Len(e) - 1 :
                  IF e[k][2] = 0 THEN e[k + 1] = <<e[k][1], 1>> ELSE e[k + 1][2] = 0
             /\ \A j, k \in 1 .. Len(e) :
                  j < k /\ e[j][2] = 1 /\ e[k][2] = 1 => e[j][1] < e[k][1]
             /\ d[1] \in Units
             /\ e = <<>> <=> Len(e) = 0
             /\ e # <<>> => e[1] = d[2] /\ e[Len(e)] = d[Len(d)] /\ 1 \in 1 .. Len(d) - 1
<1> DEFINE e == Tail(d)
<1>1. /\ e \in Seq(Units) /\ Len(e) = Len(d) - 1 /\ Len(d) \in Nat /\ Len(d) > 0
      /\ \A k \in 1 .. Len(e) : e[k] = d[k + 1] /\ k + 1 \in 1 .. Len(d)
      /\ d[1] \in Units
      /\ e = <<>> <=> Len(e) = 0
  <2>1. /\ e \in Seq(Units) /\ Len(e) = Len(d) - 1 /\ Len(d) \in Nat /\ Len(d) > 0
        /\ \A k \in 1 .. Len(e) : e[k] = d[k + 1]
        /\ d[1] \in Units
    OBVIOUS
  <2> HIDE DEF e
  <2>2. \A k \in 1 .. Len(e) : k + 1 \in 1 .. Len(d)
    BY <2>1
  <2>3. e = <<>> <=> Len(e) = 0
    BY <2>1
  <2> QED BY <2>1, <2>2, <2>3
<1> HIDE DEF e
<1>2. ASSUME NEW k \in 1 .. Len(e) - 1
      PROVE  IF e[k][2] = 0 THEN e[k + 1] = <<e[k][1], 1>> ELSE e[k + 1][2] = 0
  <2>1. k + 1 \in 1 .. Len(d) - 1 /\ e[k] = d[k + 1] /\ e[k + 1] = d[(k + 1) + 1]
    BY <1>1
  <2> QED BY <2>1 DEF Alternating
<1>3. ASSUME NEW j \in 1 .. Len(e), NEW k \in 1 .. Len(e), j < k, e[j][2] = 1, e[k][2] = 1
      PROVE  e[j][1] < e[k][1]
  <2>1. /\ j + 1 \in 1 .. Len(d) /\ k + 1 \in 1 .. Len(d) /\ j + 1 < k + 1
        /\ e[j] = d[j + 1] /\ e[k] = d[k + 1]
    BY <1>1, <1>3
  <2> QED BY <1>3, <2>1 DEF Alternating
<1>4. e # <<>> => e[1] = d[2] /\ e[Len(e)] = d[Len(d)] /\ 1 \in 1 .. Len(d) - 1
  <2> SUFFICES ASSUME e # <<>>
               PROVE  e[1] = d[2] /\ e[Len(e)] = d[Len(d)] /\ 1 \in 1 .. Len(d) - 1
    OBVIOUS
  <2>1. 1 \in 1 .. Len(e) /\ Len(e) \in 1 .. Len(e) /\ Len(e) + 1 = Len(d) /\ 1 + 1 = 2
    BY <1>1
  <2> QED BY <1>1, <2>1
<1> QED BY <1>1, <1>2, <1>3, <1>4 DEF e

LEMMA TailHeader ==
  ASSUME NEW d \in Seq(Units), d # <<>>, Alternating(d, 0)
  PROVE  /\ d[1][2] = 0 /\ d[1][1] \in Frames
         /\ Alternating(Tail(d), d[1][1])
         /\ HalfSent(Tail(d), d[1][1]) = HalfSent(d, 0)
<1> DEFINE e == Tail(d)
           n == d[1][1]
<1>1. /\ e \in Seq(Units) /\ Len(e) = Len(d) - 1 /\ Len(d) \in Nat /\ Len(d) > 0
      /\ \A k \in 1 .. Len(e) - 1 :
           IF e[k][2] = 0 THEN e[k + 1] = <<e[k][1], 1>> ELSE e[k + 1][2] = 0
      /\ \A j, k \in 1 .. Len(e) :
           j < k /\ e[j][2] = 1 /\ e[k][2] = 1 => e[j][1] < e[k][1]
      /\ d[1] \in Units
      /\ e = <<>> <=> Len(e) = 0
      /\ e # <<>> => e[1] = d[2] /\ e[Len(e)] = d[Len(d)] /\ 1 \in 1 .. Len(d) - 1
  BY TailParts
<1> HIDE DEF e
<1>2. d[1][2] = 0 /\ n \in Frames /\ n # 0
  BY <1>1, FramesAreNumbers DEF Alternating, Units
<1>3. e # <<>> => e[1] = <<n, 1>>
  <2>1. e # <<>> => d[1 + 1] = <<d[1][1], 1>>
    BY <1>1, <1>2 DEF Alternating
  <2>2. 1 + 1 = 2
    OBVIOUS
  <2> QED BY <1>1, <2>1, <2>2
<1>4. Alternating(e, n)
  BY <1>1, <1>2, <1>3 DEF Alternating
<1>5. HalfSent(e, n) = HalfSent(d, 0)
  <2>1. CASE Len(e) = 0
    <3>1. Len(d) = 1
      BY <1>1, <2>1
    <3> QED BY <1>1, <1>2, <2>1, <3>1 DEF HalfSent
  <2>2. CASE Len(e) # 0
    BY <1>1, <2>2 DEF HalfSent
  <2> QED BY <2>1, <2>2
<1> QED BY <1>2, <1>4, <1>5 DEF e

LEMMA TailBody ==
  ASSUME NEW d \in Seq(Units), d # <<>>, NEW b \in Frames, Alternating(d, b)
  PROVE  /\ d[1][1] = b /\ d[1][2] = 1
         /\ Alternating(Tail(d), 0)
         /\ HalfSent(Tail(d), 0) = HalfSent(d, b)
         /\ \A m \in Whole(Tail(d)) : b < m
<1> DEFINE e == Tail(d)
<1>1. /\ e \in Seq(Units) /\ Len(e) = Len(d) - 1 /\ Len(d) \in Nat /\ Len(d) > 0
      /\ \A k \in 1 .. Len(e) : e[k] = d[k + 1] /\ k + 1 \in 1 .. Len(d)
      /\ \A k \in 1 .. Len(e) - 1 :
           IF e[k][2] = 0 THEN e[k + 1] = <<e[k][1], 1>> ELSE e[k + 1][2] = 0
      /\ \A j, k \in 1 .. Len(e) :
           j < k /\ e[j][2] = 1 /\ e[k][2] = 1 => e[j][1] < e[k][1]
      /\ e = <<>> <=> Len(e) = 0
      /\ e # <<>> => e[1] = d[2] /\ e[Len(e)] = d[Len(d)] /\ 1 \in 1 .. Len(d) - 1
  BY TailParts
<1> HIDE DEF e
<1>2. b # 0
  BY FramesAreNumbers
<1>3. d[1][1] = b /\ d[1][2] = 1
  BY <1>2 DEF Alternating
<1>4. e # <<>> => e[1][2] = 0
  <2>1. e # <<>> => d[1 + 1][2] = 0
    BY <1>1, <1>3 DEF Alternating
  <2>2. 1 + 1 = 2
    OBVIOUS
  <2> QED BY <1>1, <2>1, <2>2
<1>5. Alternating(e, 0)
  BY <1>1, <1>4 DEF Alternating
<1>6. HalfSent(e, 0) = HalfSent(d, b)
  <2>1. CASE Len(e) = 0
    <3>1. Len(d) = 1
      BY <1>1, <2>1
    <3> QED BY <1>1, <1>3, <2>1, <3>1 DEF HalfSent
  <2>2. CASE Len(e) # 0
    BY <1>1, <2>2 DEF HalfSent
  <2> QED BY <2>1, <2>2
<1>7. ASSUME NEW m \in Whole(e) PROVE b < m
  <2>1. PICK u \in 1 .. Len(e) : e[u] = <<m, 1>>
    BY SMTT(30), <1>1 DEF Whole
  <2>2. /\ u + 1 \in 1 .. Len(d) /\ 1 \in 1 .. Len(d) /\ 1 < u + 1
        /\ d[u + 1][1] = m /\ d[u + 1][2] = 1
    BY <1>1, <2>1
  <2> QED BY <1>3, <2>2 DEF Alternating
<1> QED BY <1>3, <1>5, <1>6, <1>7 DEF e

LEMMA EmptyStream == \A b : Alternating(<<>>, b) /\ HalfSent(<<>>, b) = b
BY DEF Alternating, HalfSent

-----------------------------------------------------------------------------
LEMMA InitEvent == Init => EventInv
<1> SUFFICES ASSUME Init PROVE EventInv
  OBVIOUS
<1>1. <<>> \in Seq(Frames) /\ <<>> \in Seq(Conns) /\ <<>> \in Seq(Frames \X Frames)
  OBVIOUS
<1>2. StateOK
  BY <1>1 DEF Init, StateOK, ChanType, WriterType, ReceiverType, NewChannel, NewWriter
<1>3. ChanInv
  BY EventAssumption DEF Init, ChanInv, NewChannel
<1>4. QueueInv
  BY BytesEmpty, EventAssumption DEF Init, QueueInv
<1>5. WriterInv /\ ConnInv
  BY DEF Init, WriterInv, ConnInv, NewWriter
<1>6. StreamInv
  BY DEF Init, StreamInv, NewWriter, WholeFrames
<1>7. OrderInv
  <2>1. Given = {} /\ InCallback = {} /\ InSocket = {} /\ InHand = {} /\ Queued = {}
    BY DEF Init, Given, InCallback, InSocket, InHand, Queued, NewWriter
  <2> QED BY <2>1 DEF Init, OrderInv, Chain, Before
<1> QED BY <1>2, <1>3, <1>4, <1>5, <1>6, <1>7 DEF EventInv

-----------------------------------------------------------------------------
(* The event channel *)

(* Steps of the channel that take no frame *)
LEMMA ChannelFrame ==
  ASSUME EventInv, UNCHANGED <<queue, bytes, writer, ends, accepted, lost>>,
         faults' \in Nat, session' \in Nat, chan' \in ChanType, ChanInv'
  PROVE  EventInv'
<1>0. StateOK /\ ChanInv /\ QueueInv /\ WriterInv /\ ConnInv /\ StreamInv /\ OrderInv
  BY DEF EventInv
<1>1. StateOK' /\ QueueInv' /\ WriterInv' /\ ConnInv'
  BY <1>0 DEF StateOK, QueueInv, WriterInv, ConnInv, ends
<1>2. StreamInv'
  BY <1>0 DEF StreamInv, Pending, WholeFrames, ends
<1>3. OrderInv'
  <2>1. /\ Given' = Given /\ InCallback' = InCallback /\ InSocket' = InSocket
        /\ InHand' = InHand /\ Queued' = Queued /\ conns' = conns
    BY DEF Given, InCallback, InSocket, InHand, Queued, ends
  <2> QED BY <1>0, <2>1 DEF OrderInv
<1> QED BY <1>1, <1>2, <1>3 DEF EventInv

LEMMA AccessorySendsKeeps ==
  ASSUME EventInv, NEW k \in 1 .. 2 * MaxEvents, AccessorySends(k)
  PROVE  EventInv'
<1>0. StateOK /\ ChanInv
  BY DEF EventInv
<1> DEFINE whole == chan.behind + (chan.sent + k) \div 2 - chan.sent \div 2
<1>1. chan' \in ChanType
  <2>1. chan \in ChanType /\ k \in Nat /\ chan.sent \in Nat /\ chan.behind \in Nat
    BY <1>0, EventAssumption DEF StateOK, ChanType
  <2>2. whole \in Nat
    BY <2>1
  <2>3. chan.sent + k \in Nat /\ (IF whole = 0 THEN 0 ELSE whole - 1) \in Nat
    BY <2>1, <2>2
  <2>4. chan' = [chan EXCEPT !.sent = chan.sent + k,
                             !.behind = IF whole = 0 THEN 0 ELSE whole - 1]
    BY DEF AccessorySends
  <2> HIDE DEF whole
  <2> QED BY <2>1, <2>3, <2>4 DEF ChanType
<1>2. ChanInv'
  BY <1>0 DEF AccessorySends, StateOK, ChanType, ChanInv
<1> QED BY <1>0, <1>1, <1>2, ChannelFrame DEF AccessorySends, StateOK

LEMMA AnswerKeeps ==
  ASSUME EventInv, Answer
  PROVE  EventInv'
<1>0. StateOK /\ ChanInv
  BY DEF EventInv
<1>3. chan.consumed \in Nat /\ chan.consumed + 2 \in Nat
  BY <1>0 DEF StateOK, ChanType
<1>1. /\ chan' \in ChanType /\ chan'.consumed = chan.consumed + 2 /\ chan'.pc = "open"
      /\ chan'.sent = chan.sent /\ chan'.decrypted = chan.decrypted /\ chan.pc = "answer"
  BY <1>0, <1>3 DEF Answer, Erase, StateOK, ChanType
<1>2. ChanInv'
  <2>1. (chan.consumed + 2) % 2 = 0
    BY <1>0, <1>3 DEF ChanInv
  <2> QED BY <1>0, <1>1, <1>3, <2>1 DEF Answer, ChanInv
<1> QED BY <1>0, <1>1, <1>2, ChannelFrame DEF Answer, StateOK

LEMMA ChannelClosesKeeps ==
  ASSUME EventInv, ChannelCloses
  PROVE  EventInv'
<1>0. StateOK /\ ChanInv
  BY DEF EventInv
<1>1. chan' \in ChanType
  BY <1>0 DEF ChannelCloses, StateOK, ChanType
<1>2. ChanInv'
  BY <1>0 DEF ChannelCloses, StateOK, ChanType, ChanInv
<1> QED BY <1>0, <1>1, <1>2, ChannelFrame DEF ChannelCloses, StateOK

(* A request has a higher number than every frame taken before. *)
LEMMA NextNumber ==
  ASSUME EventInv, chan.pc = "open", chan.sent - chan.consumed >= 2
  PROVE  LET n == chan.consumed \div 2 + 1
         IN  /\ 2 * n = chan.consumed + 2 /\ n \in Frames
             /\ \A m \in accepted : m \in Nat /\ m < n
<1>0. StateOK /\ ChanInv /\ OrderInv
  BY DEF EventInv
<1> DEFINE n == chan.consumed \div 2 + 1
<1>1. chan.sent \in Nat /\ chan.consumed \in Nat
  BY <1>0 DEF StateOK, ChanType
<1>2. 2 * n = chan.consumed + 2 /\ n \in Frames
  <2>1. chan.consumed % 2 = 0 /\ chan.sent <= 2 * MaxEvents
    BY <1>0 DEF ChanInv
  <2>2. chan.consumed = 2 * (chan.consumed \div 2) /\ chan.consumed \div 2 \in Nat
    BY <1>1, <2>1
  <2> QED BY <1>1, <2>1, <2>2, EventAssumption DEF Frames
<1>3. \A m \in accepted : m \in Nat /\ m < n
  <2>1. accepted \subseteq Nat
    BY <1>0, FramesAreNumbers DEF OrderInv, Chain
  <2>2. \A m \in accepted : 2 * m <= chan.consumed
    BY <1>0 DEF ChanInv
  <2>3. n \in Nat
    BY <1>2, FramesAreNumbers
  <2> HIDE DEF n
  <2> QED BY <1>1, <1>2, <2>1, <2>2, <2>3
<1> QED BY <1>2, <1>3

LEMMA DecryptKeeps ==
  ASSUME EventInv, Decrypt
  PROVE  EventInv'
<1>0. StateOK /\ ChanInv /\ QueueInv /\ WriterInv /\ ConnInv /\ StreamInv /\ OrderInv
  BY DEF EventInv
<1> DEFINE n == chan.consumed \div 2 + 1
<1>1. /\ chan.pc = "open" /\ chan.sent \in Nat /\ chan.consumed \in Nat
      /\ chan.decrypted < chan.sent /\ UNCHANGED <<writer, ends, lost, faults, session>>
      /\ chan \in ChanType
  BY <1>0 DEF Decrypt, StateOK, ChanType
<1>2. CASE chan.sent - chan.consumed >= 2
  <2>1. /\ chan' \in ChanType /\ chan'.pc = "answer" /\ chan'.decrypted = chan.sent
        /\ chan'.sent = chan.sent /\ chan'.consumed = chan.consumed /\ Send(n)
    BY <1>1, <1>2 DEF Decrypt, ChanType
  <2>2. 2 * n = chan.consumed + 2 /\ n \in Frames
    BY <1>1, <1>2, NextNumber
  <2>3. \A m \in accepted : m \in Nat /\ m < n
    BY <1>1, <1>2, NextNumber
  <2> HIDE DEF n
  <2>4. CASE ~ HasRoom(n)
    <3>1. UNCHANGED <<queue, bytes, accepted>>
      BY <2>1, <2>4 DEF Send
    <3>2. ChanInv'
      BY <1>0, <1>1, <1>2, <2>1, <2>3, <3>1 DEF ChanInv
    <3>3. faults' \in Nat /\ session' \in Nat
      BY <1>0, <1>1 DEF StateOK
    <3> QED BY <1>1, <2>1, <3>1, <3>2, <3>3, ChannelFrame
  <2>5. CASE HasRoom(n)
    <3>1. /\ queue' = Append(queue, n) /\ bytes' = bytes + Size(n)
          /\ accepted' = accepted \cup {n}
          /\ Len(queue) < MaxQueued /\ bytes + Size(n) <= MaxBytes
      BY <2>1, <2>5 DEF Send, HasRoom
    <3>2. queue \in Seq(Frames)
      BY <1>0 DEF StateOK
    <3>3. /\ queue' \in Seq(Frames) /\ Len(queue') = Len(queue) + 1 /\ Len(queue) \in Nat
          /\ \A i \in 1 .. Len(queue) : queue'[i] = queue[i]
          /\ queue'[Len(queue) + 1] = n
      BY <2>2, <3>1, <3>2
    <3>4. Queued' = Queued \cup {n}
      <4>1. DOMAIN queue = 1 .. Len(queue) /\ DOMAIN queue' = 1 .. Len(queue) + 1
        BY <3>2, <3>3
      <4>2. \A i \in 1 .. Len(queue) + 1 : i \in 1 .. Len(queue) \/ i = Len(queue) + 1
        BY <3>3
      <4>3. \A i \in 1 .. Len(queue) : i \in 1 .. Len(queue) + 1
        BY <3>3
      <4>4. Len(queue) + 1 \in 1 .. Len(queue) + 1
        BY <3>3
      <4> QED BY <3>3, <4>1, <4>2, <4>3, <4>4 DEF Queued
    <3>5. StateOK'
      BY <1>0, <1>1, <2>1, <3>3 DEF StateOK, ends
    <3>6. ChanInv'
      BY <1>0, <1>1, <1>2, <2>1, <2>2, <2>3, <3>1 DEF ChanInv
    <3>7. QueueInv'
      <4>1. bytes' = Bytes(queue')
        BY <1>0, <2>2, <3>1, <3>2, BytesAppend DEF QueueInv
      <4>2. \A i \in 1 .. Len(queue) : queue[i] \in accepted
        <5>1. Queued \subseteq accepted
          BY <1>0 DEF OrderInv, Chain
        <5>2. \A i \in 1 .. Len(queue) : queue[i] \in Queued
          BY <3>2 DEF Queued
        <5> QED BY <5>1, <5>2
      <4>3. ASSUME NEW i \in 1 .. Len(queue'), NEW j \in 1 .. Len(queue'), i < j
            PROVE  queue'[i] < queue'[j]
        <5>1. i \in 1 .. Len(queue)
          BY <3>3, <4>3
        <5>2. CASE j = Len(queue) + 1
          BY <2>3, <3>3, <4>2, <5>1, <5>2
        <5>3. CASE j \in 1 .. Len(queue)
          BY <1>0, <3>3, <4>3, <5>1, <5>3 DEF QueueInv
        <5> QED BY <3>3, <5>2, <5>3
      <4>4. Len(queue') <= MaxQueued /\ bytes' <= MaxBytes
        BY <3>1, <3>3, EventAssumption
      <4> QED BY <4>1, <4>3, <4>4 DEF QueueInv
    <3>8. WriterInv' /\ ConnInv'
      BY <1>0, <1>1 DEF WriterInv, ConnInv, ends
    <3>9. StreamInv'
      BY <1>0, <1>1 DEF StreamInv, Pending, WholeFrames, ends
    <3>10. OrderInv'
      <4>1. /\ Given' = Given /\ InCallback' = InCallback /\ InSocket' = InSocket
            /\ InHand' = InHand /\ lost' = lost /\ conns' = conns
            BY <1>1 DEF Given, InCallback, InSocket, InHand, ends
      <4>2. Chain(Given, InCallback, InSocket, InHand, Queued \cup {n}, accepted \cup {n}, lost)
        BY <1>0, <2>2, <2>3, ChainTaken DEF OrderInv
      <4> QED BY <1>0, <3>1, <3>4, <4>1, <4>2 DEF OrderInv
    <3> QED BY <3>5, <3>6, <3>7, <3>8, <3>9, <3>10 DEF EventInv
  <2> QED BY <2>4, <2>5
<1>3. CASE ~ (chan.sent - chan.consumed >= 2)
  <2>1. /\ chan' \in ChanType /\ chan'.pc = "open" /\ chan'.decrypted = chan.sent
        /\ chan'.sent = chan.sent /\ chan'.consumed = chan.consumed
        /\ UNCHANGED <<queue, bytes, accepted>>
    BY <1>1, <1>3 DEF Decrypt, ChanType
  <2>2. ChanInv'
    <3>1. accepted \subseteq Nat
      BY <1>0, FramesAreNumbers DEF OrderInv, Chain
    <3> QED BY <1>0, <1>1, <2>1, <3>1 DEF ChanInv, ChanType
  <2>3. faults' \in Nat /\ session' \in Nat
    BY <1>0, <1>1 DEF StateOK
  <2> QED BY <1>1, <2>1, <2>2, <2>3, ChannelFrame
<1> QED BY <1>2, <1>3

-----------------------------------------------------------------------------
(* The writer *)

LEMMA QueuedTail ==
  ASSUME queue \in Seq(Frames), queue # <<>>, QueueInv
  PROVE  /\ Head(queue) \in Frames /\ Tail(queue) \in Seq(Frames)
         /\ Len(Tail(queue)) <= MaxQueued
         /\ bytes - Size(Head(queue)) = Bytes(Tail(queue))
         /\ bytes - Size(Head(queue)) <= MaxBytes
         /\ \A i, j \in 1 .. Len(Tail(queue)) : i < j => Tail(queue)[i] < Tail(queue)[j]
         /\ Queued = {Tail(queue)[i] : i \in DOMAIN Tail(queue)} \cup {Head(queue)}
         /\ \A m \in {Tail(queue)[i] : i \in DOMAIN Tail(queue)} : Head(queue) < m
<1> DEFINE t == Tail(queue)
<1>1. /\ t \in Seq(Frames) /\ Len(t) = Len(queue) - 1 /\ Len(queue) \in Nat /\ Len(queue) > 0
      /\ Head(queue) = queue[1] /\ queue[1] \in Frames
      /\ \A i \in 1 .. Len(queue) - 1 : t[i] = queue[i + 1]
  OBVIOUS
<1>2. Bytes(queue) = Size(Head(queue)) + Bytes(t) /\ Bytes(t) \in Nat
  BY BytesTail
<1> HIDE DEF t
<1>3. DOMAIN t = 1 .. Len(queue) - 1 /\ DOMAIN queue = 1 .. Len(queue)
  BY <1>1
<1>4. Size(Head(queue)) \in Nat
  BY <1>1, FrameSize
<1>5. bytes - Size(Head(queue)) = Bytes(t) /\ bytes - Size(Head(queue)) <= MaxBytes
  BY <1>2, <1>4, EventAssumption DEF QueueInv
<1>6. Len(t) <= MaxQueued
  BY <1>1, EventAssumption DEF QueueInv
<1>7. ASSUME NEW i \in 1 .. Len(t), NEW j \in 1 .. Len(t), i < j PROVE t[i] < t[j]
  <2>1. i + 1 \in 1 .. Len(queue) /\ j + 1 \in 1 .. Len(queue) /\ i + 1 < j + 1
    BY <1>1, <1>7
  <2> QED BY <1>1, <2>1 DEF QueueInv
<1>8. Queued = {t[i] : i \in DOMAIN t} \cup {Head(queue)}
  <2>1. ASSUME NEW k \in 1 .. Len(queue), k # 1
        PROVE  k - 1 \in 1 .. Len(queue) - 1 /\ t[k - 1] = queue[k]
    <3>1. k - 1 \in 1 .. Len(queue) - 1 /\ (k - 1) + 1 = k
      BY <1>1, <2>1
    <3> QED BY <1>1, <3>1
  <2>2. \A k \in 1 .. Len(queue) - 1 : k + 1 \in 1 .. Len(queue) /\ t[k] = queue[k + 1]
    BY <1>1
  <2>3. 1 \in 1 .. Len(queue)
    BY <1>1
  <2>4. Queued = {queue[k] : k \in 1 .. Len(queue)}
    BY <1>3 DEF Queued
  <2>5. \A k \in 1 .. Len(queue) : queue[k] \in {t[i] : i \in DOMAIN t} \cup {Head(queue)}
    BY <1>1, <1>3, <2>1
  <2>6. \A k \in DOMAIN t : t[k] \in {queue[i] : i \in 1 .. Len(queue)}
    BY <1>3, <2>2
  <2>7. Head(queue) \in {queue[i] : i \in 1 .. Len(queue)}
    BY <1>1, <2>3
  <2> QED BY <2>4, <2>5, <2>6, <2>7
<1>9. ASSUME NEW i \in DOMAIN t PROVE Head(queue) < t[i]
  <2>1. i + 1 \in 1 .. Len(queue) /\ 1 \in 1 .. Len(queue) /\ 1 < i + 1 /\ t[i] = queue[i + 1]
    BY <1>1, <1>3
  <2> QED BY <1>1, <2>1 DEF QueueInv
<1> QED BY <1>1, <1>5, <1>6, <1>7, <1>8, <1>9 DEF t

LEMMA TakeKeeps ==
  ASSUME EventInv, Take
  PROVE  EventInv'
<1>0. StateOK /\ ChanInv /\ QueueInv /\ WriterInv /\ ConnInv /\ StreamInv /\ OrderInv
  BY DEF EventInv
<1>1. /\ queue \in Seq(Frames) /\ queue # <<>> /\ writer.pc = "wait" /\ writer \in WriterType
      /\ queue' = Tail(queue) /\ bytes' = bytes - Size(Head(queue))
      /\ UNCHANGED <<chan, ends, accepted, lost, faults, session>>
  BY <1>0 DEF Take, StateOK
<1>2. /\ Head(queue) \in Frames /\ queue' \in Seq(Frames) /\ QueueInv'
      /\ Queued = Queued' \cup {Head(queue)} /\ \A m \in Queued' : Head(queue) < m
  BY <1>0, <1>1, QueuedTail DEF QueueInv, Queued
<1>3. /\ writer' \in WriterType /\ writer'.frame = Head(queue) /\ writer'.units = 0
      /\ writer'.pc = (IF writer.conn = 0 THEN "connect" ELSE "send")
      /\ writer'.conn = writer.conn
  BY <1>1, <1>2 DEF Take, WriterType
<1>4. Head(queue) # 0
  BY <1>2, FramesAreNumbers
<1>5. StateOK' /\ ChanInv' /\ ConnInv'
  BY <1>0, <1>1, <1>2, <1>3 DEF StateOK, ChanInv, ConnInv, ends
<1>6. WriterInv'
  BY <1>0, <1>1, <1>3, <1>4 DEF WriterInv, ends
<1>7. StreamInv'
  BY <1>0, <1>1, <1>3 DEF StreamInv, Pending, WholeFrames, ends
<1>8. OrderInv'
  <2>1. /\ Given' = Given /\ InCallback' = InCallback /\ InSocket' = InSocket
        /\ conns' = conns
    BY <1>1 DEF Given, InCallback, InSocket, ends
  <2>2. InHand = {} /\ InHand' = {Head(queue)}
    BY <1>0, <1>1, <1>3, <1>4 DEF InHand, WriterInv
  <2>3. Chain(Given, InCallback, InSocket, {Head(queue)}, Queued', accepted, lost)
    BY <1>0, <1>2, <2>2, ChainToHand DEF OrderInv
  <2> QED BY <1>0, <1>1, <2>1, <2>2, <2>3 DEF OrderInv
<1> QED BY <1>2, <1>5, <1>6, <1>7, <1>8 DEF EventInv

(* The frame in hand goes back to the queue, or is lost. *)
LEMMA RequeueKeeps ==
  ASSUME StateOK, QueueInv, OrderInv, writer.frame \in Frames, Requeue, UNCHANGED accepted
  PROVE  /\ queue' \in Seq(Frames) /\ QueueInv'
         /\ Chain(Given, InCallback, InSocket, {}, Queued', accepted', lost')
<1>0. /\ InHand = {writer.frame} /\ queue \in Seq(Frames)
      /\ Chain(Given, InCallback, InSocket, InHand, Queued, accepted, lost)
  BY FramesAreNumbers DEF InHand, StateOK, OrderInv
<1>1. CASE ~ writer.stop /\ HasRoom(writer.frame)
  <2> DEFINE x == writer.frame
             r == <<x>> \o queue
  <2>1. /\ queue' = r /\ lost' = lost /\ bytes' = bytes + Size(x)
        /\ Len(queue) < MaxQueued /\ bytes + Size(x) <= MaxBytes
    BY <1>1 DEF Requeue, HasRoom
  <2>2. /\ r \in Seq(Frames) /\ Len(r) = Len(queue) + 1 /\ r[1] = x
        /\ \A i \in 1 .. Len(queue) : r[i + 1] = queue[i]
        /\ Bytes(r) = Size(x) + Bytes(queue)
    BY <1>0, BytesFront
  <2> HIDE DEF r, x
  <2>3. Len(queue) \in Nat /\ Size(x) \in Nat /\ Bytes(queue) \in Nat
    BY <1>0, FrameSize, BytesAppend DEF x
  <2>4. DOMAIN r = 1 .. Len(queue) + 1 /\ DOMAIN queue = 1 .. Len(queue)
    BY <1>0, <2>2
  <2>5. ASSUME NEW i \in 1 .. Len(queue) + 1, i # 1
        PROVE  i - 1 \in 1 .. Len(queue) /\ r[i] = queue[i - 1]
    <3>1. i - 1 \in 1 .. Len(queue) /\ (i - 1) + 1 = i
      BY <2>3, <2>5
    <3> QED BY <2>2, <3>1
  <2>6. Queued' = InHand \cup Queued
    <3>1. \A i \in 1 .. Len(queue) : i + 1 \in 1 .. Len(queue) + 1
      BY <2>3
    <3>2. 1 \in 1 .. Len(queue) + 1
      BY <2>3
    <3>3. Queued' = {r[i] : i \in 1 .. Len(queue) + 1}
      BY <2>1, <2>4 DEF Queued
    <3>4. Queued = {queue[i] : i \in 1 .. Len(queue)}
      BY <2>4 DEF Queued
    <3>5. \A i \in 1 .. Len(queue) + 1 : r[i] \in {x} \cup {queue[k] : k \in 1 .. Len(queue)}
      BY <2>2, <2>5
    <3>6. \A i \in 1 .. Len(queue) : queue[i] \in {r[k] : k \in 1 .. Len(queue) + 1}
      BY <2>2, <3>1
    <3>7. x \in {r[k] : k \in 1 .. Len(queue) + 1}
      BY <2>2, <3>2
    <3>8. InHand = {x}
      BY <1>0 DEF x
    <3> QED BY <3>3, <3>4, <3>5, <3>6, <3>7, <3>8
  <2>7. \A i \in 1 .. Len(queue) : x < queue[i]
    <3>1. \A i \in 1 .. Len(queue) : queue[i] \in Queued
      BY <2>4 DEF Queued
    <3> QED BY <1>0, <3>1 DEF Chain, Before, x
  <2>8. QueueInv'
    <3>1. bytes' = Bytes(queue') /\ bytes' <= MaxBytes
      BY <2>1, <2>2, <2>3 DEF QueueInv
    <3>2. Len(queue') <= MaxQueued
      BY <2>1, <2>2, <2>3, EventAssumption
    <3>3. ASSUME NEW i \in 1 .. Len(queue'), NEW j \in 1 .. Len(queue'), i < j
          PROVE  queue'[i] < queue'[j]
      <4>1. i \in 1 .. Len(queue) + 1 /\ j \in 1 .. Len(queue) + 1 /\ j # 1
        BY <2>1, <2>2, <2>3, <3>3
      <4>2. j - 1 \in 1 .. Len(queue) /\ r[j] = queue[j - 1]
        BY <2>5, <4>1
      <4>3. CASE i = 1
        BY <2>1, <2>2, <2>7, <4>2, <4>3
      <4>4. CASE i # 1
        <5>1. i - 1 \in 1 .. Len(queue) /\ r[i] = queue[i - 1] /\ i - 1 < j - 1
          BY <2>3, <2>5, <3>3, <4>1, <4>4
        <5> QED BY <2>1, <4>2, <5>1 DEF QueueInv
      <4> QED BY <4>3, <4>4
    <3> QED BY <3>1, <3>2, <3>3 DEF QueueInv
  <2> QED BY <1>0, <2>1, <2>2, <2>6, <2>8, ChainToQueue
<1>2. CASE ~ (~ writer.stop /\ HasRoom(writer.frame))
  <2>1. lost' = lost \cup InHand /\ UNCHANGED <<queue, bytes>>
    BY <1>0, <1>2 DEF Requeue
  <2>2. Queued' = Queued /\ QueueInv'
    BY <2>1 DEF Queued, QueueInv
  <2>3. Chain(Given, InCallback, InSocket, {}, Queued, accepted, lost \cup InHand)
    BY <1>0, ChainLost
  <2> QED BY <1>0, <2>1, <2>2, <2>3
<1> QED BY <1>1, <1>2

(* What the writer leaves of the connections when it goes: they keep their  *)
(* data and their receiver, and no writer speaks of them any more.          *)
SameConns ==
  /\ conns' \in Seq(Conns) /\ Len(conns') = Len(conns)
  /\ \A i \in 1 .. Len(conns) : conns'[i].data = conns[i].data /\ conns'[i].r = conns[i].r

LEMMA HangupSame ==
  ASSUME conns \in Seq(Conns), NEW i \in Nat, i <= Len(conns), conns' = Hangup(conns, i)
  PROVE  SameConns
<1>1. CASE i = 0
  BY <1>1 DEF Hangup, SameConns
<1>2. CASE i # 0
  <2> DEFINE c == [conns[i] EXCEPT !.w = FALSE]
  <2>1. i \in 1 .. Len(conns)
    BY <1>2
  <2>2. c \in Conns /\ c.data = conns[i].data /\ c.r = conns[i].r
    <3>1. conns[i] \in Conns
      BY <2>1
    <3> QED BY <3>1 DEF Conns
  <2>3. conns' = [conns EXCEPT ![i] = c]
    BY <1>2 DEF Hangup
  <2> HIDE DEF c
  <2>4. /\ conns' \in Seq(Conns) /\ Len(conns') = Len(conns) /\ conns'[i] = c
        /\ \A j \in 1 .. Len(conns) : j # i => conns'[j] = conns[j]
    BY <2>1, <2>2, <2>3, SetConn
  <2> QED BY <2>2, <2>4 DEF SameConns
<1> QED BY <1>1, <1>2

LEMMA SameConnsKeep ==
  ASSUME EventInv, SameConns, UNCHANGED <<receiver, delivered>>, writer'.conn = 0
  PROVE  /\ ConnInv' /\ StreamInv'
         /\ Given' = Given /\ InCallback' = InCallback /\ InSocket' = InSocket
         /\ \A i, j \in 1 .. Len(conns') : i < j => Before(Whole(conns'[i].data), Whole(conns'[j].data))
<1>0. StateOK /\ ConnInv /\ StreamInv /\ OrderInv
  BY DEF EventInv
<1>1. ConnInv'
  BY <1>0 DEF SameConns, ConnInv
<1>2. StreamInv'
  <2>1. \A i \in 1 .. Len(conns') : Alternating(conns'[i].data, Pending(i)')
    BY <1>0 DEF SameConns, StreamInv, Pending
  <2> QED BY <1>0, <2>1 DEF StreamInv, WholeFrames
<1>3. \A i \in 1 .. Len(conns) : conns'[i].data = conns[i].data
  BY DEF SameConns
<1>4. DOMAIN conns = 1 .. Len(conns) /\ DOMAIN conns' = 1 .. Len(conns)
  BY <1>0 DEF StateOK, SameConns
<1>5. InSocket' = InSocket
  BY <1>3, <1>4 DEF InSocket
<1>6. Given' = Given /\ InCallback' = InCallback
  BY DEF Given, InCallback
<1> QED BY <1>0, <1>1, <1>2, <1>3, <1>5, <1>6 DEF SameConns, OrderInv

LEMMA SendFailsKeeps ==
  ASSUME EventInv, SendFails
  PROVE  EventInv'
<1>0. StateOK /\ ChanInv /\ QueueInv /\ WriterInv /\ ConnInv /\ StreamInv /\ OrderInv
  BY DEF EventInv
<1>1. /\ writer.pc = "send" /\ writer \in WriterType /\ conns \in Seq(Conns)
      /\ writer.frame \in Frames /\ writer.conn \in Nat /\ writer.conn # 0
      /\ writer.conn <= Len(conns) /\ Requeue
      /\ UNCHANGED <<chan, receiver, delivered, accepted, session>>
  <2>1. writer.frame # 0 /\ writer.conn # 0 /\ writer.conn = Len(conns) /\ writer.pc = "send"
    BY <1>0 DEF SendFails, WriterInv
  <2>2. Len(conns) <= Len(conns) /\ conns \in Seq(Conns)
    BY <1>0 DEF StateOK
  <2> QED BY <1>0, <2>1, <2>2 DEF SendFails, StateOK, WriterType
<1>2. /\ writer' \in WriterType /\ writer'.pc = "sleep" /\ writer'.frame = 0
      /\ writer'.conn = 0
  BY <1>1 DEF SendFails, GiveUpConnection, WriterType
<1>3. SameConns
  <2>1. conns' = Hangup(conns, writer.conn)
    BY <1>1, <1>2 DEF SendFails, Hangup
  <2> QED BY <1>1, <2>1, HangupSame
<1>4. /\ queue' \in Seq(Frames) /\ QueueInv'
      /\ Chain(Given, InCallback, InSocket, {}, Queued', accepted', lost')
  BY <1>0, <1>1, RequeueKeeps
<1>5. faults' \in Nat
  BY <1>0 DEF SendFails, Fault, StateOK
<1>6. StateOK'
  BY <1>0, <1>1, <1>2, <1>3, <1>4, <1>5 DEF StateOK, SameConns
<1>7. ChanInv'
  BY <1>0, <1>1 DEF ChanInv
<1>8. WriterInv'
  BY <1>2 DEF WriterInv
<1>9. /\ ConnInv' /\ StreamInv'
      /\ Given' = Given /\ InCallback' = InCallback /\ InSocket' = InSocket
      /\ \A i, j \in 1 .. Len(conns') : i < j => Before(Whole(conns'[i].data), Whole(conns'[j].data))
  BY <1>1, <1>2, <1>3, SameConnsKeep
<1>10. OrderInv'
  <2>1. InHand' = {}
    BY <1>2 DEF InHand
  <2> QED BY <1>4, <1>9, <2>1 DEF OrderInv
<1> QED BY <1>4, <1>6, <1>7, <1>8, <1>9, <1>10 DEF EventInv

LEMMA ConnectKeeps ==
  ASSUME EventInv, Connect
  PROVE  EventInv'
<1>0. StateOK /\ ChanInv /\ QueueInv /\ WriterInv /\ ConnInv /\ StreamInv /\ OrderInv
  BY DEF EventInv
<1>1. /\ writer.pc = "connect" /\ writer \in WriterType /\ conns \in Seq(Conns)
      /\ writer.frame \in Frames /\ writer.conn = 0 /\ writer.units = 0
      /\ UNCHANGED <<chan, receiver, delivered, accepted, session>>
  BY <1>0 DEF Connect, WriterInv, StateOK, WriterType
<1>2. CASE /\ IF HasPlace THEN Fault ELSE UNCHANGED faults
           /\ writer' = [writer EXCEPT !.pc = "sleep", !.frame = 0]
           /\ Requeue
           /\ UNCHANGED conns
  <2>1. /\ writer' \in WriterType /\ writer'.pc = "sleep" /\ writer'.frame = 0
        /\ writer'.conn = 0
    BY <1>1, <1>2 DEF WriterType
  <2>2. SameConns
    BY <1>1, <1>2 DEF SameConns
  <2>3. /\ queue' \in Seq(Frames) /\ QueueInv'
        /\ Chain(Given, InCallback, InSocket, {}, Queued', accepted', lost')
    BY <1>0, <1>1, <1>2, RequeueKeeps
  <2>4. faults' \in Nat
    BY <1>0, <1>2 DEF Fault, StateOK
  <2>5. StateOK' /\ ChanInv' /\ WriterInv'
    BY <1>0, <1>1, <1>2, <2>1, <2>3, <2>4 DEF StateOK, ChanInv, WriterInv
  <2>6. /\ ConnInv' /\ StreamInv'
        /\ Given' = Given /\ InCallback' = InCallback /\ InSocket' = InSocket
        /\ \A i, j \in 1 .. Len(conns') : i < j => Before(Whole(conns'[i].data), Whole(conns'[j].data))
    BY <1>1, <2>1, <2>2, SameConnsKeep
  <2>7. OrderInv'
    <3>1. InHand' = {}
      BY <2>1 DEF InHand
    <3> QED BY <2>3, <2>6, <3>1 DEF OrderInv
  <2> QED BY <2>3, <2>5, <2>6, <2>7 DEF EventInv
<1>3. CASE /\ HasPlace
           /\ conns' = Append(conns, [data |-> <<>>, w |-> TRUE, r |-> "backlog"])
           /\ writer' = [writer EXCEPT !.pc = "send", !.conn = Len(conns) + 1]
           /\ UNCHANGED <<queue, bytes, lost, faults>>
  <2> DEFINE c == [data |-> <<>>, w |-> TRUE, r |-> "backlog"]
             last == Len(conns) + 1
  <2>1. c \in Conns /\ c.data = <<>> /\ c.r = "backlog"
    <3>1. <<>> \in Seq(Units)
      OBVIOUS
    <3> QED BY <3>1 DEF Conns
  <2> HIDE DEF c
  <2>2. /\ conns' \in Seq(Conns) /\ Len(conns') = last /\ Len(conns) \in Nat
        /\ \A i \in 1 .. Len(conns) : conns'[i] = conns[i]
        /\ conns'[last] = c
    BY <1>1, <1>3, <2>1 DEF c
  <2>3. \A i \in 1 .. last : i \in 1 .. Len(conns) \/ i = last
    BY <2>2
  <2>4. last \in Nat /\ last # 0 /\ last > Len(conns) /\ last \in 1 .. last
    BY <2>2
  <2> HIDE DEF last
  <2>5. /\ writer' \in WriterType /\ writer'.pc = "send" /\ writer'.conn = last
        /\ writer'.frame = writer.frame /\ writer'.units = 0
    BY <1>1, <1>3, <2>4 DEF WriterType, last
  <2>6. StateOK' /\ ChanInv' /\ QueueInv'
    BY <1>0, <1>1, <1>3, <2>2, <2>5 DEF StateOK, ChanInv, QueueInv
  <2>7. WriterInv'
    BY <1>0, <1>1, <2>2, <2>4, <2>5, FramesAreNumbers DEF WriterInv
  <2>8. receiver.conn # last /\ receiver.conn <= last /\ receiver.conn \in Nat
    BY <1>0, <2>2, <2>4 DEF ConnInv, StateOK, ReceiverType, last
  <2>10. ConnInv'
    <3>1. ASSUME NEW i \in 1 .. Len(conns')
          PROVE  /\ Len(conns'[i].data) <= Capacity
                 /\ conns'[i].r = "closed" => conns'[i].data = <<>>
                 /\ conns'[i].r = "open" <=> i = receiver'.conn
                 /\ conns'[i].r = "backlog" =>
                      \A j \in i .. Len(conns') : conns'[j].r = "backlog"
      <4>1. CASE i \in 1 .. Len(conns)
        BY <1>0, <1>1, <2>1, <2>2, <2>3, <4>1 DEF ConnInv
      <4>2. CASE i = last
        BY <1>1, <2>1, <2>2, <2>4, <2>8, <4>2, EventAssumption
      <4> QED BY <2>2, <2>3, <4>1, <4>2
    <3> QED BY <1>0, <1>1, <2>2, <2>8, <3>1 DEF ConnInv
  <2>11. StreamInv'
    <3>0. \A i : Pending(i)' = Pending(i)
      BY <1>1 DEF Pending
    <3>1. ASSUME NEW i \in 1 .. Len(conns') PROVE Alternating(conns'[i].data, Pending(i)')
      <4>1. CASE i \in 1 .. Len(conns)
        BY <1>0, <2>2, <3>0, <4>1 DEF StreamInv
      <4>2. CASE i = last
        BY <2>1, <2>2, <4>2, EmptyStream
      <4> QED BY <2>2, <2>3, <4>1, <4>2
    <3>2. HalfSent(conns'[writer'.conn].data, Pending(writer.conn)') = 0
      <4>1. Pending(writer.conn)' = 0
        BY <1>1, <2>5, <2>8 DEF Pending
      <4> QED BY <2>1, <2>2, <2>5, <4>1, EmptyStream
    <3> QED BY <1>0, <1>1, <2>5, <3>1, <3>2 DEF StreamInv, WholeFrames
  <2>12. OrderInv'
    <3>1. Whole(conns'[last].data) = {}
      BY <2>1, <2>2, WholeEmpty
    <3>2. DOMAIN conns = 1 .. Len(conns) /\ DOMAIN conns' = 1 .. last
      BY <1>1, <2>2
    <3>3. InSocket' = InSocket
      <4>1. \A i \in 1 .. Len(conns) : i \in 1 .. last
        BY <2>2, <2>4
      <4> QED BY <2>2, <2>3, <3>1, <3>2, <4>1 DEF InSocket
    <3>4. /\ Given' = Given /\ InCallback' = InCallback /\ InHand' = InHand
          /\ Queued' = Queued
      BY <1>1, <1>3, <2>5 DEF Given, InCallback, InHand, Queued
    <3>5. ASSUME NEW i \in 1 .. Len(conns'), NEW j \in 1 .. Len(conns'), i < j
          PROVE  Before(Whole(conns'[i].data), Whole(conns'[j].data))
      <4>1. CASE i \in 1 .. Len(conns) /\ j \in 1 .. Len(conns)
        BY <1>0, <2>2, <3>5, <4>1 DEF OrderInv
      <4>2. CASE i = last \/ j = last
        BY <3>1, <4>2 DEF Before
      <4> QED BY <2>2, <2>3, <4>1, <4>2
    <3> QED BY <1>0, <1>1, <1>3, <3>3, <3>4, <3>5 DEF OrderInv
  <2> QED BY <2>6, <2>7, <2>10, <2>11, <2>12 DEF EventInv
<1> QED BY <1>2, <1>3 DEF Connect

(* The frames in all connections but one *)
Others(k) == UNION {Whole(conns[j].data) : j \in (1 .. Len(conns)) \ {k}}

(* One connection has changed. *)
LEMMA OneConn ==
  ASSUME StateOK, ConnInv, OrderInv, NEW k \in 1 .. Len(conns), NEW c \in Conns,
         conns' = [conns EXCEPT ![k] = c]
  PROVE  /\ conns' \in Seq(Conns) /\ Len(conns') = Len(conns) /\ conns'[k] = c
         /\ \A j \in 1 .. Len(conns) : j # k => conns'[j] = conns[j]
         /\ InSocket = Others(k) \cup Whole(conns[k].data)
         /\ InSocket' = Others(k) \cup Whole(c.data)
<1>1. conns \in Seq(Conns)
  BY DEF StateOK
<1>2. /\ conns' \in Seq(Conns) /\ Len(conns') = Len(conns) /\ conns'[k] = c
      /\ \A j \in 1 .. Len(conns) : j # k => conns'[j] = conns[j]
  BY <1>1, SetConn
<1>3. DOMAIN conns = 1 .. Len(conns) /\ DOMAIN conns' = 1 .. Len(conns)
  BY <1>1, <1>2
<1>4. InSocket = Others(k) \cup Whole(conns[k].data)
  BY <1>3 DEF InSocket, Others
<1>5. InSocket' = Others(k) \cup Whole(c.data)
  <2>1. InSocket' \subseteq Others(k) \cup Whole(c.data)
    BY <1>2, <1>3 DEF InSocket, Others
  <2>2. Others(k) \subseteq InSocket'
    BY <1>2, <1>3 DEF InSocket, Others
  <2>3. Whole(c.data) \subseteq InSocket'
    BY <1>2, <1>3 DEF InSocket
  <2> QED BY <2>1, <2>2, <2>3
<1> QED BY <1>2, <1>4, <1>5

LEMMA SendUnitKeeps ==
  ASSUME EventInv, SendUnit
  PROVE  EventInv'
<1>0. StateOK /\ ChanInv /\ QueueInv /\ WriterInv /\ ConnInv /\ StreamInv /\ OrderInv
  BY DEF EventInv
<1> DEFINE k == writer.conn
           f == writer.frame
           u == writer.units
           d == conns[k].data
           e == Append(d, <<f, u>>)
           c == [conns[k] EXCEPT !.data = e]
<1>1. /\ writer.pc = "send" /\ writer \in WriterType /\ conns \in Seq(Conns)
      /\ UNCHANGED <<chan, queue, bytes, receiver, delivered, accepted, lost, faults, session>>
  BY <1>0 DEF SendUnit, StateOK
<1>2. /\ k = Len(conns) /\ k \in 1 .. Len(conns) /\ k # 0 /\ f \in Frames /\ u \in {0, 1}
  <2>1. writer.frame # 0 /\ writer.conn # 0 /\ writer.conn = Len(conns)
    BY <1>0, <1>1 DEF WriterInv
  <2>2. Len(conns) \in Nat
    BY <1>1
  <2> QED BY <1>1, <2>1, <2>2 DEF WriterType
<1>3. conns[k] \in Conns /\ conns[k].r # "closed" /\ Len(d) < Capacity
  BY <1>1, <1>2 DEF SendUnit
<1>4. d \in Seq(Units)
  BY <1>3 DEF Conns
<1>5. e \in Seq(Units) /\ Whole(e) = Whole(d) \cup (IF u = 1 THEN {f} ELSE {})
  BY <1>2, <1>4, WholeAppend
<1>6. Len(e) = Len(d) + 1 /\ Len(d) \in Nat
  BY <1>4
<1>7. c \in Conns /\ c.data = e /\ c.r = conns[k].r
  <2> HIDE DEF e
  <2> QED BY <1>3, <1>5 DEF Conns
<1>8. conns' = [conns EXCEPT ![k] = c]
  BY DEF SendUnit
<1> HIDE DEF c, e
<1>9. /\ conns' \in Seq(Conns) /\ Len(conns') = Len(conns) /\ conns'[k] = c
      /\ \A j \in 1 .. Len(conns) : j # k => conns'[j] = conns[j]
      /\ InSocket = Others(k) \cup Whole(conns[k].data)
      /\ InSocket' = Others(k) \cup Whole(c.data)
  BY <1>0, <1>2, <1>7, <1>8, OneConn
<1>10. /\ writer' \in WriterType /\ writer'.conn = k
       /\ u = 0 => writer'.pc = "send" /\ writer'.frame = f /\ writer'.units = 1
       /\ u = 1 => writer'.pc = "wait" /\ writer'.frame = 0
  <2>1. CASE u = 0
    BY <1>1, <2>1 DEF SendUnit, WriterType
  <2>2. CASE u = 1
    <3>1. writer' = [writer EXCEPT !.pc = "wait", !.frame = 0]
      BY <2>2 DEF SendUnit
    <3>2. /\ writer' \in WriterType /\ writer'.conn = writer.conn
          /\ writer'.pc = "wait" /\ writer'.frame = 0
      BY <1>1, <3>1 DEF WriterType
    <3> QED BY <2>2, <3>2
  <2> QED BY <1>2, <2>1, <2>2
<1>11. StateOK' /\ ChanInv' /\ QueueInv'
  BY <1>0, <1>1, <1>9, <1>10 DEF StateOK, ChanInv, QueueInv
<1>12. WriterInv'
  BY <1>2, <1>9, <1>10, FramesAreNumbers DEF WriterInv
<1>13. ConnInv'
  <2>1. Len(c.data) <= Capacity
    BY <1>3, <1>6, <1>7, EventAssumption
  <2>2. ASSUME NEW i \in 1 .. Len(conns)
        PROVE  /\ Len(conns'[i].data) <= Capacity
               /\ conns'[i].r = conns[i].r
               /\ conns'[i].r = "closed" => conns'[i].data = <<>>
    BY <1>0, <1>3, <1>7, <1>9, <2>1 DEF ConnInv
  <2> QED BY <1>0, <1>1, <1>9, <2>2 DEF ConnInv
<1>14. \A i : Pending(i)' = Pending(i)
  BY <1>1 DEF Pending
<1>15. /\ Alternating(d, Pending(k))
       /\ HalfSent(d, Pending(k)) = IF u = 1 THEN f ELSE 0
  BY <1>0, <1>1, <1>2, <1>3 DEF StreamInv
<1>16. \A m \in InSocket : m < f
  <2>1. InHand = {f}
    BY <1>2, FramesAreNumbers DEF InHand
  <2> QED BY <1>0, <2>1 DEF OrderInv, Chain, Before
<1>17. /\ Alternating(e, Pending(k))
       /\ HalfSent(e, Pending(k)) = IF u = 0 THEN f ELSE 0
  <2>1. CASE u = 0
    BY <1>2, <1>4, <1>15, <2>1, AppendHeader DEF e
  <2>2. CASE u = 1
    <3>1. \A m \in Whole(d) : m < f
      BY <1>9, <1>16
    <3> QED BY <1>2, <1>4, <1>15, <2>2, <3>1, AppendBody DEF e
  <2> QED BY <1>2, <2>1, <2>2
<1>18. StreamInv'
  <2>1. ASSUME NEW i \in 1 .. Len(conns') PROVE Alternating(conns'[i].data, Pending(i)')
    BY <1>0, <1>7, <1>9, <1>14, <1>17 DEF StreamInv
  <2>2. Pending(writer.conn)' = Pending(k)
    BY <1>1, <1>10 DEF Pending
  <2>3. HalfSent(conns'[writer'.conn].data, Pending(writer.conn)')
          = IF writer'.pc = "send" /\ writer'.units = 1 THEN writer'.frame ELSE 0
    BY <1>2, <1>7, <1>9, <1>10, <1>17, <2>2
  <2> QED BY <1>0, <1>1, <2>1, <2>3 DEF StreamInv, WholeFrames
<1>19. OrderInv'
  <2>1. Given' = Given /\ InCallback' = InCallback /\ Queued' = Queued
    BY <1>1 DEF Given, InCallback, Queued
  <2>2. ASSUME NEW i \in 1 .. Len(conns'), NEW j \in 1 .. Len(conns'), i < j
        PROVE  Before(Whole(conns'[i].data), Whole(conns'[j].data))
    <3>1. i \in 1 .. Len(conns) /\ j \in 1 .. Len(conns) /\ i # k /\ conns'[i] = conns[i]
      BY <1>2, <1>9, <2>2
    <3>2. Whole(conns[i].data) \subseteq InSocket
      BY <1>1, <3>1 DEF InSocket
    <3>3. Before(Whole(conns[i].data), Whole(conns[j].data))
      BY <1>0, <2>2, <3>1 DEF OrderInv
    <3>4. CASE j = k
      BY <1>5, <1>7, <1>9, <1>16, <3>1, <3>2, <3>3, <3>4 DEF Before
    <3>5. CASE j # k
      BY <1>9, <3>1, <3>3, <3>5
    <3> QED BY <3>4, <3>5
  <2>3. CASE u = 0
    <3>1. InHand' = InHand /\ InSocket' = InSocket
      BY <1>5, <1>7, <1>9, <1>10, <2>3 DEF InHand
    <3> QED BY <1>0, <1>1, <2>1, <2>2, <3>1 DEF OrderInv
  <2>4. CASE u = 1
    <3>1. InHand = {f} /\ InHand' = {} /\ InSocket' = InSocket \cup {f}
      BY <1>2, <1>5, <1>7, <1>9, <1>10, <2>4, FramesAreNumbers DEF InHand
    <3>2. Chain(Given, InCallback, InSocket \cup {f}, {}, Queued, accepted, lost)
      BY <1>0, <3>1, ChainToSocket DEF OrderInv
    <3> QED BY <1>1, <2>1, <2>2, <3>1, <3>2 DEF OrderInv
  <2> QED BY <1>2, <2>3, <2>4
<1> QED BY <1>11, <1>12, <1>13, <1>18, <1>19 DEF EventInv

LEMMA SleepKeeps ==
  ASSUME EventInv, Sleep
  PROVE  EventInv'
<1>0. StateOK /\ ChanInv /\ QueueInv /\ WriterInv /\ ConnInv /\ StreamInv /\ OrderInv
  BY DEF EventInv
<1>1. /\ writer.pc = "sleep" /\ writer' \in WriterType /\ writer'.pc = "wait"
      /\ writer'.frame = writer.frame /\ writer'.conn = writer.conn
      /\ UNCHANGED <<chan, queue, bytes, ends, accepted, lost, faults, session>>
  BY <1>0 DEF Sleep, StateOK, WriterType
<1>2. StateOK' /\ ChanInv' /\ QueueInv' /\ WriterInv' /\ ConnInv'
  BY <1>0, <1>1 DEF StateOK, ChanInv, QueueInv, WriterInv, ConnInv, ends
<1>3. StreamInv'
  BY <1>0, <1>1 DEF StreamInv, Pending, WholeFrames, ends
<1>4. OrderInv'
  <2>1. /\ Given' = Given /\ InCallback' = InCallback /\ InSocket' = InSocket
        /\ InHand' = InHand /\ Queued' = Queued /\ conns' = conns
    BY <1>1 DEF Given, InCallback, InSocket, InHand, Queued, ends
  <2> QED BY <1>0, <1>1, <2>1 DEF OrderInv
<1> QED BY <1>2, <1>3, <1>4 DEF EventInv

LEMMA StopWriterKeeps ==
  ASSUME EventInv, StopWriter
  PROVE  EventInv'
<1>0. StateOK /\ ChanInv /\ QueueInv /\ WriterInv /\ ConnInv /\ StreamInv /\ OrderInv
  BY DEF EventInv
<1>1. /\ writer' \in WriterType /\ writer'.pc = writer.pc /\ writer'.units = writer.units
      /\ writer'.frame = writer.frame /\ writer'.conn = writer.conn
      /\ UNCHANGED <<chan, queue, bytes, ends, accepted, lost, faults, session>>
  BY <1>0 DEF StopWriter, StateOK, WriterType
<1>2. StateOK' /\ ChanInv' /\ QueueInv' /\ WriterInv' /\ ConnInv'
  BY <1>0, <1>1 DEF StateOK, ChanInv, QueueInv, WriterInv, ConnInv, ends
<1>3. StreamInv'
  BY <1>0, <1>1 DEF StreamInv, Pending, WholeFrames, ends
<1>4. OrderInv'
  <2>1. /\ Given' = Given /\ InCallback' = InCallback /\ InSocket' = InSocket
        /\ InHand' = InHand /\ Queued' = Queued /\ conns' = conns
    BY <1>1 DEF Given, InCallback, InSocket, InHand, Queued, ends
  <2> QED BY <1>0, <1>1, <2>1 DEF OrderInv
<1> QED BY <1>2, <1>3, <1>4 DEF EventInv

(* The writer goes: what it holds and what is queued is lost. *)
LEMMA WriterGoes ==
  ASSUME EventInv, writer' \in WriterType, writer'.conn = 0, writer'.frame = 0,
         writer'.pc = "off", conns' = Hangup(conns, writer.conn),
         lost' = lost \cup Queued \cup InHand, queue' = <<>>, bytes' = 0,
         chan' \in ChanType, ChanInv',
         UNCHANGED <<receiver, delivered, accepted, faults, session>>
  PROVE  EventInv'
<1>0. StateOK /\ ChanInv /\ QueueInv /\ WriterInv /\ ConnInv /\ StreamInv /\ OrderInv
  BY DEF EventInv
<1>1. SameConns
  <2>1. conns \in Seq(Conns) /\ writer.conn \in Nat
    BY <1>0 DEF StateOK, WriterType
  <2>2. writer.conn <= Len(conns)
    BY <1>0, <2>1 DEF WriterInv
  <2> QED BY <2>1, <2>2, HangupSame
<1>2. /\ ConnInv' /\ StreamInv'
      /\ Given' = Given /\ InCallback' = InCallback /\ InSocket' = InSocket
      /\ \A i, j \in 1 .. Len(conns') : i < j => Before(Whole(conns'[i].data), Whole(conns'[j].data))
  BY <1>1, SameConnsKeep
<1>3. <<>> \in Seq(Frames) /\ Len(<<>>) = 0
  OBVIOUS
<1>4. StateOK'
  BY <1>0, <1>1, <1>3 DEF StateOK, SameConns
<1>5. QueueInv'
  BY <1>3, BytesEmpty, EventAssumption DEF QueueInv
<1>6. WriterInv'
  BY DEF WriterInv
<1>7. OrderInv'
  <2>1. Queued' = {} /\ InHand' = {}
    BY DEF Queued, InHand
  <2>2. Chain(Given, InCallback, InSocket, {}, {}, accepted, lost \cup (Queued \cup InHand))
    BY <1>0, ChainLost DEF OrderInv
  <2>3. lost' = lost \cup (Queued \cup InHand)
    OBVIOUS
  <2> QED BY <1>2, <2>1, <2>2, <2>3 DEF OrderInv
<1> QED BY <1>2, <1>4, <1>5, <1>6, <1>7 DEF EventInv

LEMMA WriterEndsKeeps ==
  ASSUME EventInv, WriterEnds
  PROVE  EventInv'
<1>0. StateOK /\ ChanInv /\ WriterInv
  BY DEF EventInv
<1>1. writer \in WriterType /\ writer.pc = "wait"
  BY <1>0 DEF WriterEnds, StateOK
<1>2. writer.frame = 0 /\ InHand = {}
  BY <1>0, <1>1 DEF WriterInv, InHand
<1>3. /\ writer' \in WriterType /\ writer'.conn = 0 /\ writer'.frame = 0 /\ writer'.pc = "off"
  BY <1>1, <1>2 DEF WriterEnds, WriterType
<1>4. chan' \in ChanType /\ ChanInv'
  BY <1>0 DEF WriterEnds, StateOK, ChanInv
<1>5. lost' = lost \cup Queued \cup InHand
  BY <1>2 DEF WriterEnds
<1>6. /\ conns' = Hangup(conns, writer.conn) /\ queue' = <<>> /\ bytes' = 0
      /\ UNCHANGED <<receiver, delivered, accepted, faults, session>>
  BY DEF WriterEnds
<1> QED BY <1>3, <1>4, <1>5, <1>6, WriterGoes

LEMMA KilledKeeps ==
  ASSUME EventInv, Killed
  PROVE  EventInv'
<1>0. StateOK /\ ChanInv
  BY DEF EventInv
<1>1. /\ writer' \in WriterType /\ writer'.conn = 0 /\ writer'.frame = 0 /\ writer'.pc = "off"
  BY DEF Killed, NewWriter, WriterType
<1>2. chan' \in ChanType /\ ChanInv'
  <2>1. chan' \in ChanType
    BY <1>0 DEF Killed, StateOK, ChanType
  <2>2. ChanInv'
    BY <1>0 DEF Killed, StateOK, ChanType, ChanInv
  <2> QED BY <2>1, <2>2
<1>3. /\ conns' = Hangup(conns, writer.conn) /\ queue' = <<>> /\ bytes' = 0
      /\ lost' = lost \cup Queued \cup InHand
      /\ UNCHANGED <<receiver, delivered, accepted, faults, session>>
  BY DEF Killed
<1> QED BY <1>1, <1>2, <1>3, WriterGoes

LEMMA NextSessionKeeps ==
  ASSUME EventInv, NextSession
  PROVE  EventInv'
<1>0. StateOK /\ ChanInv /\ QueueInv /\ WriterInv /\ ConnInv /\ StreamInv /\ OrderInv
  BY DEF EventInv
<1> DEFINE s == chan.sent + (chan.sent % 2)
<1>1. /\ chan' = NewChannel(s) /\ UNCHANGED <<queue, bytes, ends, accepted, lost, faults>>
      /\ session' \in Nat
  BY <1>0 DEF NextSession, StateOK
<1>2. chan.sent \in Nat /\ chan.decrypted \in Nat /\ chan.sent <= 2 * MaxEvents /\ MaxEvents \in Nat
      /\ chan.decrypted <= chan.sent
  BY <1>0, EventAssumption DEF StateOK, ChanType, ChanInv
<1>3. s \in Nat /\ s % 2 = 0 /\ chan.sent <= s /\ s <= 2 * MaxEvents
  <2>1. \/ chan.sent % 2 = 0
        \/ chan.sent % 2 = 1
    BY <1>2
  <2>2. CASE chan.sent % 2 = 0
    BY <1>2, <2>2
  <2>3. CASE chan.sent % 2 = 1
    <3>1. chan.sent # 2 * MaxEvents
      <4>1. (2 * MaxEvents) % 2 = 0
        BY <1>2
      <4> QED BY <2>3, <4>1
    <3>2. s = chan.sent + 1 /\ (chan.sent + 1) % 2 = 0
      BY <1>2, <2>3
    <3> QED BY <1>2, <3>1, <3>2
  <2> QED BY <2>1, <2>2, <2>3
<1> HIDE DEF s
<1>4. /\ chan' \in ChanType /\ chan'.pc = "open" /\ chan'.sent = s /\ chan'.decrypted = s
      /\ chan'.consumed = s
  BY <1>1, <1>3 DEF NewChannel, ChanType
<1>5. ChanInv'
  <2>1. \A n \in accepted : n \in Nat /\ 2 * n <= chan.decrypted
    BY <1>0, FramesAreNumbers DEF ChanInv, OrderInv, Chain
  <2>2. \A n \in accepted : 2 * n <= s
    BY <1>2, <1>3, <2>1
  <2>3. s <= s
    BY <1>3
  <2> QED BY <1>1, <1>3, <1>4, <2>2, <2>3 DEF ChanInv
<1>6. CASE UNCHANGED writer
  <2>1. faults' \in Nat
    BY <1>0, <1>1 DEF StateOK
  <2> QED BY <1>1, <1>4, <1>5, <1>6, <2>1, ChannelFrame
<1>7. CASE writer.pc = "off" /\ writer' = NewWriter
  <2>1. /\ writer' \in WriterType /\ writer'.conn = 0 /\ writer'.frame = 0
        /\ writer'.pc = "wait" /\ writer.frame = 0
    BY <1>0, <1>7 DEF NewWriter, WriterType, WriterInv
  <2>2. StateOK' /\ QueueInv' /\ WriterInv' /\ ConnInv'
    BY <1>0, <1>1, <1>4, <2>1 DEF StateOK, QueueInv, WriterInv, ConnInv, ends
  <2>3. StreamInv'
    BY <1>0, <1>1, <2>1 DEF StreamInv, Pending, WholeFrames, ends
  <2>4. OrderInv'
    <3>1. /\ Given' = Given /\ InCallback' = InCallback /\ InSocket' = InSocket
          /\ InHand' = InHand /\ Queued' = Queued /\ conns' = conns
      BY <1>1, <2>1 DEF Given, InCallback, InSocket, InHand, Queued, ends
    <3> QED BY <1>0, <1>1, <3>1 DEF OrderInv
  <2> QED BY <1>5, <2>2, <2>3, <2>4 DEF EventInv
<1> QED BY <1>6, <1>7 DEF NextSession

-----------------------------------------------------------------------------
(* The receiver *)

(* The first connection of the backlog *)
LEMMA OldestConnection ==
  ASSUME NEW S, S \subseteq Nat, S # {}
  PROVE  \E i \in S : \A j \in S : i <= j
<1> DEFINE R == OpToRel(<, Nat)
<1>1. IsWellFoundedOn(R, Nat)
  BY NatLessThanWellFounded
<1> HIDE DEF R
<1>2. PICK i \in S : \A j \in S : ~ (<<j, i>> \in R)
  BY <1>1, WFMin
<1>3. \A j \in S : ~ (j < i)
  BY <1>2 DEF R, OpToRel
<1> QED BY <1>3

LEMMA AcceptKeeps ==
  ASSUME EventInv, Accept
  PROVE  EventInv'
<1>0. StateOK /\ ChanInv /\ QueueInv /\ WriterInv /\ ConnInv /\ StreamInv /\ OrderInv
  BY DEF EventInv
<1> DEFINE k == CHOOSE i \in Backlog : \A j \in Backlog : i <= j
           c == [conns[k] EXCEPT !.r = "open"]
<1>1. /\ receiver.pc = "accept" /\ receiver \in ReceiverType /\ conns \in Seq(Conns)
      /\ UNCHANGED <<chan, queue, bytes, writer, delivered, accepted, lost, faults, session>>
  BY <1>0 DEF Accept, StateOK
<1>2. /\ k \in Backlog /\ k \in 1 .. Len(conns)
      /\ \A j \in Backlog : k <= j
  <2>1. DOMAIN conns = 1 .. Len(conns) /\ Len(conns) \in Nat
    BY <1>1
  <2>2. Backlog \subseteq 1 .. Len(conns) /\ Backlog # {} /\ Backlog \subseteq Nat
    BY <2>1 DEF Accept, Backlog
  <2> QED BY <2>2, OldestConnection
<1>3. /\ conns' = [conns EXCEPT ![k].r = "open"]
      /\ receiver' = [receiver EXCEPT !.pc = "header", !.conn = k]
  BY DEF Accept
<1> HIDE DEF k
<1>4. /\ receiver' \in ReceiverType /\ receiver'.pc = "header" /\ receiver'.conn = k
      /\ receiver'.frame = receiver.frame
  <2>1. k \in Nat
    BY <1>2
  <2> QED BY <1>1, <1>3, <2>1 DEF ReceiverType
<1>5. conns[k] \in Conns /\ conns[k].r = "backlog"
  BY <1>1, <1>2 DEF Backlog
<1>6. c \in Conns /\ c.data = conns[k].data /\ c.r = "open"
  BY <1>5 DEF Conns
<1>7. conns' = [conns EXCEPT ![k] = c]
  BY <1>3
<1> HIDE DEF c
<1>8. /\ conns' \in Seq(Conns) /\ Len(conns') = Len(conns) /\ conns'[k] = c
      /\ \A j \in 1 .. Len(conns) : j # k => conns'[j] = conns[j]
      /\ InSocket' = InSocket
  <2>1. /\ conns' \in Seq(Conns) /\ Len(conns') = Len(conns) /\ conns'[k] = c
        /\ \A j \in 1 .. Len(conns) : j # k => conns'[j] = conns[j]
        /\ InSocket = Others(k) \cup Whole(conns[k].data)
        /\ InSocket' = Others(k) \cup Whole(c.data)
    BY <1>0, <1>2, <1>6, <1>7, OneConn
  <2> QED BY <1>6, <2>1
<1>9. StateOK' /\ ChanInv' /\ QueueInv' /\ WriterInv'
  BY <1>0, <1>1, <1>4, <1>8 DEF StateOK, ChanInv, QueueInv, WriterInv
<1>10. receiver.conn = 0
  BY <1>0, <1>1 DEF ConnInv
<1>11. ConnInv'
  <2>1. ASSUME NEW i \in 1 .. Len(conns)
        PROVE  /\ Len(conns'[i].data) <= Capacity
               /\ conns'[i].r = "closed" => conns'[i].data = <<>>
               /\ conns'[i].r = "open" <=> i = k
               /\ conns'[i].r = "backlog" =>
                    \A j \in i .. Len(conns) : conns'[j].r = "backlog"
    <3>1. CASE i = k
      BY <1>0, <1>6, <1>8, <3>1 DEF ConnInv
    <3>2. CASE i # k
      <4>1. ASSUME conns[i].r = "backlog" PROVE i > k
        BY <1>1, <1>2, <3>2, <4>1 DEF Backlog
      <4>2. ASSUME conns'[i].r = "backlog"
            PROVE  \A j \in i .. Len(conns) : conns'[j].r = "backlog"
        BY <1>0, <1>2, <1>8, <3>2, <4>1, <4>2 DEF ConnInv
      <4> QED BY <1>0, <1>8, <1>10, <3>2, <4>2 DEF ConnInv
    <3> QED BY <3>1, <3>2
  <2>2. k \in Nat /\ k # 0 /\ k <= Len(conns)
    BY <1>2
  <2> QED BY <1>4, <1>8, <2>1, <2>2 DEF ConnInv
<1>12. \A i \in 1 .. Len(conns) : conns'[i].data = conns[i].data
  BY <1>6, <1>8
<1>13. StreamInv'
  <2>1. \A i : Pending(i) = 0 /\ Pending(i)' = 0
    BY <1>1, <1>4 DEF Pending
  <2>2. \A i \in 1 .. Len(conns') : Alternating(conns'[i].data, Pending(i)')
    BY <1>0, <1>8, <1>12, <2>1 DEF StreamInv
  <2>3. writer.conn # 0 /\ conns'[writer.conn].r # "closed" =>
          /\ conns[writer.conn].r # "closed"
          /\ conns'[writer.conn].data = conns[writer.conn].data
    BY <1>0, <1>2, <1>5, <1>6, <1>8 DEF WriterInv
  <2>4. Pending(writer.conn)' = 0
    BY <1>4 DEF Pending
  <2>5. receiver.frame = <<>>
    BY <1>0, <1>1 DEF StreamInv
  <2> QED BY <1>0, <1>1, <1>4, <2>1, <2>2, <2>3, <2>4, <2>5 DEF StreamInv, WholeFrames
<1>14. OrderInv'
  <2>1. /\ Given' = Given /\ InCallback' = InCallback
        /\ InHand' = InHand /\ Queued' = Queued
    BY <1>1, <1>4 DEF Given, InCallback, InHand, Queued
  <2> QED BY <1>0, <1>1, <1>8, <1>12, <2>1 DEF OrderInv
<1> QED BY <1>9, <1>11, <1>13, <1>14 DEF EventInv

(* What the two reads do to the connection they read from *)
LEMMA ConsumeKeeps ==
  ASSUME EventInv, receiver.pc \in {"header", "body"}, Data # <<>>,
         NEW pc \in {"body", "callback"}, NEW frame \in Seq(Frames), Consume(pc, frame)
  PROVE  /\ StateOK' /\ ChanInv' /\ QueueInv' /\ WriterInv' /\ ConnInv'
         /\ receiver.conn \in 1 .. Len(conns) /\ conns[receiver.conn].r = "open"
         /\ Data \in Seq(Units) /\ Len(conns') = Len(conns)
         /\ receiver'.pc = pc /\ receiver'.conn = receiver.conn /\ receiver'.frame = frame
         /\ conns'[receiver.conn].data = Tail(Data)
         /\ conns'[receiver.conn].r = conns[receiver.conn].r
         /\ \A j \in 1 .. Len(conns) : j # receiver.conn => conns'[j] = conns[j]
         /\ InSocket = Others(receiver.conn) \cup Whole(Data)
         /\ InSocket' = Others(receiver.conn) \cup Whole(Tail(Data))
<1>0. StateOK /\ ChanInv /\ QueueInv /\ WriterInv /\ ConnInv /\ StreamInv /\ OrderInv
  BY DEF EventInv
<1> DEFINE k == receiver.conn
           d == conns[k].data
           c == [conns[k] EXCEPT !.data = Tail(d)]
<1>1. /\ receiver \in ReceiverType /\ conns \in Seq(Conns)
      /\ UNCHANGED <<chan, queue, bytes, writer, delivered, accepted, lost, faults, session>>
      /\ receiver' = [receiver EXCEPT !.pc = pc, !.frame = frame]
  BY <1>0 DEF Consume, StateOK
<1>2. k \in 1 .. Len(conns) /\ k \in Nat
  <2>1. k \in Nat /\ k # 0 /\ k <= Len(conns) /\ Len(conns) \in Nat
    BY <1>0, <1>1 DEF ConnInv, ReceiverType
  <2> QED BY <2>1
<1>3. conns[k] \in Conns /\ conns[k].r = "open"
  BY <1>0, <1>1, <1>2 DEF ConnInv
<1>4. d \in Seq(Units) /\ d # <<>> /\ Data = d
  BY <1>3 DEF Conns, Data
<1>5. Tail(d) \in Seq(Units) /\ Len(Tail(d)) = Len(d) - 1 /\ Len(d) \in Nat
  BY <1>4
<1>6. c \in Conns /\ c.data = Tail(d) /\ c.r = conns[k].r
  BY <1>3, <1>5 DEF Conns
<1>7. conns' = [conns EXCEPT ![k] = c]
  BY DEF Consume
<1> HIDE DEF c
<1>8. /\ conns' \in Seq(Conns) /\ Len(conns') = Len(conns) /\ conns'[k] = c
      /\ \A j \in 1 .. Len(conns) : j # k => conns'[j] = conns[j]
      /\ InSocket = Others(k) \cup Whole(conns[k].data)
      /\ InSocket' = Others(k) \cup Whole(c.data)
  BY <1>0, <1>2, <1>6, <1>7, OneConn
<1>9. /\ receiver' \in ReceiverType /\ receiver'.pc = pc /\ receiver'.conn = k
      /\ receiver'.frame = frame
  BY <1>1 DEF ReceiverType
<1>10. StateOK' /\ ChanInv' /\ QueueInv' /\ WriterInv'
  BY <1>0, <1>1, <1>8, <1>9 DEF StateOK, ChanInv, QueueInv, WriterInv
<1>11. ConnInv'
  <2>1. Len(c.data) <= Capacity
    BY <1>0, <1>2, <1>5, <1>6, EventAssumption DEF ConnInv
  <2>2. ASSUME NEW i \in 1 .. Len(conns)
        PROVE  /\ Len(conns'[i].data) <= Capacity
               /\ conns'[i].r = conns[i].r
               /\ conns'[i].r = "closed" => conns'[i].data = <<>>
    BY <1>0, <1>3, <1>6, <1>8, <2>1 DEF ConnInv
  <2>3. k # 0 /\ k <= Len(conns)
    BY <1>0, <1>2 DEF ConnInv
  <2>4. ASSUME NEW i \in 1 .. Len(conns), conns'[i].r = "backlog"
        PROVE  \A j \in i .. Len(conns) : conns'[j].r = "backlog"
    BY <1>0, <2>2, <2>4 DEF ConnInv
  <2> QED BY <1>0, <1>1, <1>8, <1>9, <2>2, <2>3, <2>4 DEF ConnInv
<1>12. /\ InSocket = Others(k) \cup Whole(Data)
       /\ InSocket' = Others(k) \cup Whole(Tail(Data))
  BY <1>4, <1>6, <1>8
<1> HIDE DEF d
<1> QED BY <1>2, <1>3, <1>4, <1>6, <1>8, <1>9, <1>10, <1>11, <1>12

(* The header is read: no message leaves the socket. *)
LEMMA ReadHeaderKeeps ==
  ASSUME EventInv, ReadHeader
  PROVE  EventInv'
<1>0. StateOK /\ StreamInv /\ OrderInv /\ WriterInv
  BY DEF EventInv
<1> DEFINE k == receiver.conn
           d == Data
           n == d[1][1]
<1>1. receiver.pc = "header" /\ d # <<>> /\ Consume("body", <<Head(d)[1]>>)
  BY DEF ReadHeader
<1>2. k \in 1 .. Len(conns) /\ conns[k].r = "open" /\ d \in Seq(Units)
  <2>1. receiver.conn # 0 /\ receiver.conn \in Nat /\ receiver.conn <= Len(conns)
    BY <1>0, <1>1 DEF EventInv, ConnInv, StateOK, ReceiverType
  <2>2. conns \in Seq(Conns) /\ Len(conns) \in Nat
    BY <1>0 DEF StateOK
  <2>3. k \in 1 .. Len(conns)
    BY <2>1, <2>2
  <2>4. conns[k] \in Conns
    BY <2>2, <2>3
  <2>5. conns[k].r = "open"
    BY <2>3 DEF EventInv, ConnInv
  <2> QED BY <2>3, <2>4, <2>5 DEF Conns, Data
<1>3. d = conns[k].data /\ Pending(k) = 0
  BY <1>1 DEF Data, Pending
<1>4. Alternating(d, 0)
  BY <1>0, <1>2, <1>3 DEF StreamInv
<1>5. /\ d[1][2] = 0 /\ n \in Frames
      /\ Alternating(Tail(d), n)
      /\ HalfSent(Tail(d), n) = HalfSent(d, 0)
      /\ Whole(Tail(d)) = Whole(d)
  BY <1>1, <1>2, <1>4, TailHeader, WholeTail
<1>6. Head(d) = d[1]
  BY <1>1, <1>2
<1> HIDE DEF d
<1>7. <<n>> \in Seq(Frames) /\ Len(<<n>>) = 1 /\ <<n>>[1] = n
  BY <1>5
<1>8. Consume("body", <<n>>)
  BY <1>1, <1>6
<1> HIDE DEF n
<1>9. /\ StateOK' /\ ChanInv' /\ QueueInv' /\ WriterInv' /\ ConnInv'
      /\ Len(conns') = Len(conns)
      /\ receiver'.pc = "body" /\ receiver'.conn = k /\ receiver'.frame = <<n>>
      /\ conns'[k].data = Tail(d) /\ conns'[k].r = conns[k].r
      /\ \A j \in 1 .. Len(conns) : j # k => conns'[j] = conns[j]
      /\ InSocket = Others(k) \cup Whole(d)
      /\ InSocket' = Others(k) \cup Whole(Tail(d))
  BY <1>1, <1>7, <1>8, ConsumeKeeps DEF d
<1>10. UNCHANGED <<writer, queue, delivered, accepted, lost>>
  BY <1>8 DEF Consume
<1>11. \A i : Pending(i)' = IF i = k THEN n ELSE Pending(i)
  BY <1>1, <1>7, <1>9 DEF Pending
<1>12. StreamInv'
  <2>1. ASSUME NEW i \in 1 .. Len(conns') PROVE Alternating(conns'[i].data, Pending(i)')
    <3>1. CASE i = k
      BY <1>5, <1>9, <1>11, <3>1
    <3>2. CASE i # k
      BY <1>0, <1>9, <1>11, <3>2 DEF StreamInv
    <3> QED BY <3>1, <3>2
  <2>2. ASSUME writer.conn # 0, conns'[writer.conn].r # "closed"
        PROVE  HalfSent(conns'[writer.conn].data, Pending(writer.conn)')
                 = IF writer.pc = "send" /\ writer.units = 1 THEN writer.frame ELSE 0
    <3>0. writer.conn \in 1 .. Len(conns)
      BY <1>0, <1>2, <2>2 DEF WriterInv
    <3>1. Pending(writer.conn)' = IF writer.conn = k THEN n ELSE Pending(writer.conn)
      BY <1>1, <1>7, <1>9, <1>10 DEF Pending
    <3>2. CASE writer.conn = k
      <4>1. HalfSent(conns'[writer.conn].data, Pending(writer.conn)')
              = HalfSent(conns[writer.conn].data, Pending(writer.conn))
        BY <1>3, <1>5, <1>9, <3>1, <3>2
      <4> QED BY <1>0, <1>9, <2>2, <3>2, <4>1 DEF StreamInv
    <3>3. CASE writer.conn # k
      <4>1. HalfSent(conns'[writer.conn].data, Pending(writer.conn)')
              = HalfSent(conns[writer.conn].data, Pending(writer.conn))
        BY <1>9, <3>0, <3>1, <3>3
      <4> QED BY <1>0, <1>9, <2>2, <3>0, <3>3, <4>1 DEF StreamInv
    <3> QED BY <3>2, <3>3
  <2> QED BY <1>0, <1>7, <1>9, <1>10, <2>1, <2>2 DEF StreamInv, WholeFrames
<1>13. OrderInv'
  <2>1. /\ Given' = Given /\ InCallback' = InCallback /\ InSocket' = InSocket
        /\ InHand' = InHand /\ Queued' = Queued
    BY <1>1, <1>5, <1>9, <1>10 DEF Given, InCallback, InHand, Queued
  <2>2. \A i \in 1 .. Len(conns) : Whole(conns'[i].data) = Whole(conns[i].data)
    BY <1>3, <1>5, <1>9
  <2> QED BY <1>0, <1>9, <1>10, <2>1, <2>2 DEF OrderInv
<1> QED BY <1>9, <1>12, <1>13 DEF EventInv

LEMMA AppendFrame ==
  ASSUME NEW f \in Seq(Frames), NEW n \in Frames
  PROVE  /\ Append(f, n) \in Seq(Frames) /\ Len(Append(f, n)) = Len(f) + 1
         /\ \A i \in 1 .. Len(f) : Append(f, n)[i] = f[i]
         /\ Append(f, n)[Len(f) + 1] = n
OBVIOUS

(* The message is read: it is the oldest one in the socket. *)
LEMMA ReadBodyKeeps ==
  ASSUME EventInv, ReadBody
  PROVE  EventInv'
<1>0. StateOK /\ StreamInv /\ OrderInv /\ WriterInv /\ ConnInv
  BY DEF EventInv
<1> DEFINE k == receiver.conn
           d == Data
           n == receiver.frame[1]
<1>1. receiver.pc = "body" /\ d # <<>> /\ Consume("callback", Append(receiver.frame, Head(d)[1]))
  BY DEF ReadBody
<1>2. k \in 1 .. Len(conns) /\ conns[k].r = "open" /\ d \in Seq(Units)
  <2>1. receiver.conn # 0 /\ receiver.conn \in Nat /\ receiver.conn <= Len(conns)
    BY <1>0, <1>1 DEF ConnInv, StateOK, ReceiverType
  <2>2. conns \in Seq(Conns) /\ Len(conns) \in Nat
    BY <1>0 DEF StateOK
  <2>3. k \in 1 .. Len(conns)
    BY <2>1, <2>2
  <2>4. conns[k] \in Conns
    BY <2>2, <2>3
  <2>5. conns[k].r = "open"
    BY <1>0, <2>3 DEF ConnInv
  <2> QED BY <2>3, <2>4, <2>5 DEF Conns, Data
<1>3. d = conns[k].data /\ Pending(k) = n
  BY <1>1 DEF Data, Pending
<1>4. receiver.frame \in Seq(Frames) /\ Len(receiver.frame) = 1 /\ n \in Frames
  <2>1. receiver.frame \in Seq(Frames) /\ Len(receiver.frame) = 1
    BY <1>0, <1>1 DEF StateOK, ReceiverType, StreamInv
  <2> QED BY <2>1
<1>5. Alternating(d, n)
  BY <1>0, <1>2, <1>3 DEF StreamInv
<1>6. /\ d[1][1] = n /\ d[1][2] = 1
      /\ Alternating(Tail(d), 0)
      /\ HalfSent(Tail(d), 0) = HalfSent(d, n)
      /\ \A m \in Whole(Tail(d)) : n < m
      /\ Whole(d) = Whole(Tail(d)) \cup {n}
  BY <1>1, <1>2, <1>4, <1>5, TailBody, WholeTail
<1>7. Head(d) = d[1]
  BY <1>1, <1>2
<1> HIDE DEF d
<1> DEFINE g == Append(receiver.frame, n)
<1>8. g \in Seq(Frames) /\ Len(g) = 2 /\ g[1] = n /\ g[2] = n
  <2>1. /\ g \in Seq(Frames) /\ Len(g) = Len(receiver.frame) + 1
        /\ \A i \in 1 .. Len(receiver.frame) : g[i] = receiver.frame[i]
        /\ g[Len(receiver.frame) + 1] = n
    BY <1>4, AppendFrame
  <2>2. 1 + 1 = 2 /\ 1 \in 1 .. 1
    OBVIOUS
  <2> HIDE DEF g
  <2> QED BY <1>4, <2>1, <2>2
<1>9. Consume("callback", g)
  BY <1>1, <1>6, <1>7
<1> HIDE DEF n, g
<1>10. /\ StateOK' /\ ChanInv' /\ QueueInv' /\ WriterInv' /\ ConnInv'
       /\ Len(conns') = Len(conns)
       /\ receiver'.pc = "callback" /\ receiver'.conn = k /\ receiver'.frame = g
       /\ conns'[k].data = Tail(d) /\ conns'[k].r = conns[k].r
       /\ \A j \in 1 .. Len(conns) : j # k => conns'[j] = conns[j]
       /\ InSocket = Others(k) \cup Whole(d)
       /\ InSocket' = Others(k) \cup Whole(Tail(d))
  BY <1>1, <1>8, <1>9, ConsumeKeeps DEF d
<1>11. UNCHANGED <<writer, queue, delivered, accepted, lost>>
  BY <1>9 DEF Consume
<1>12. \A i : Pending(i)' = IF i = k THEN 0 ELSE Pending(i)
  BY <1>1, <1>10 DEF Pending
<1>13. StreamInv'
  <2>1. ASSUME NEW i \in 1 .. Len(conns') PROVE Alternating(conns'[i].data, Pending(i)')
    <3>1. CASE i = k
      BY <1>6, <1>10, <1>12, <3>1
    <3>2. CASE i # k
      BY <1>0, <1>10, <1>12, <3>2 DEF StreamInv
    <3> QED BY <3>1, <3>2
  <2>2. ASSUME writer.conn # 0, conns'[writer.conn].r # "closed"
        PROVE  HalfSent(conns'[writer.conn].data, Pending(writer.conn)')
                 = IF writer.pc = "send" /\ writer.units = 1 THEN writer.frame ELSE 0
    <3>0. writer.conn \in 1 .. Len(conns)
      BY <1>0, <1>2, <2>2 DEF WriterInv
    <3>1. Pending(writer.conn)' = IF writer.conn = k THEN 0 ELSE Pending(writer.conn)
      BY <1>1, <1>10, <1>11 DEF Pending
    <3>2. CASE writer.conn = k
      <4>1. HalfSent(conns'[writer.conn].data, Pending(writer.conn)')
              = HalfSent(conns[writer.conn].data, Pending(writer.conn))
        BY <1>3, <1>6, <1>10, <3>1, <3>2
      <4> QED BY <1>0, <1>10, <2>2, <3>2, <4>1 DEF StreamInv
    <3>3. CASE writer.conn # k
      <4>1. HalfSent(conns'[writer.conn].data, Pending(writer.conn)')
              = HalfSent(conns[writer.conn].data, Pending(writer.conn))
        BY <1>10, <3>0, <3>1, <3>3
      <4> QED BY <1>0, <1>10, <2>2, <3>0, <3>3, <4>1 DEF StreamInv
    <3> QED BY <3>2, <3>3
  <2> QED BY <1>0, <1>8, <1>10, <1>11, <2>1, <2>2 DEF StreamInv, WholeFrames
<1>14. \A m \in Others(k) : n < m
  <2> SUFFICES ASSUME NEW m \in Others(k) PROVE n < m
    OBVIOUS
  <2>1. PICK j \in 1 .. Len(conns) : j # k /\ m \in Whole(conns[j].data)
    BY DEF Others
  <2>2. conns[j].data # <<>>
    BY <2>1, WholeEmpty
  <2>3. conns[j].r \in {"backlog", "open", "closed"}
    <3>1. conns[j] \in Conns
      BY <1>0 DEF StateOK
    <3> QED BY <3>1 DEF Conns
  <2>4. conns[j].r = "backlog" /\ conns[k].r # "backlog"
    BY <1>0, <1>2, <2>1, <2>2, <2>3 DEF ConnInv
  <2>5. k < j
    BY <1>0, <1>2, <2>1, <2>4 DEF ConnInv
  <2>6. n \in Whole(conns[k].data)
    BY <1>3, <1>6
  <2> QED BY <1>0, <1>2, <2>1, <2>5, <2>6 DEF OrderInv, Before
<1>15. OrderInv'
  <2>1. Given' = Given /\ InHand' = InHand /\ Queued' = Queued
    BY <1>11 DEF Given, InHand, Queued
  <2>2. InCallback = {} /\ InCallback' = {n}
    BY <1>1, <1>8, <1>10 DEF InCallback
  <2>3. InSocket = InSocket' \cup {n}
    BY <1>6, <1>10
  <2>4. \A m \in InSocket' : n < m
    BY <1>6, <1>10, <1>14
  <2>5. Chain(Given, {n}, InSocket', InHand, Queued, accepted, lost)
    BY <1>0, <2>2, <2>3, <2>4, ChainToCallback DEF OrderInv
  <2>6. \A i \in 1 .. Len(conns) : Whole(conns'[i].data) \subseteq Whole(conns[i].data)
    BY <1>3, <1>6, <1>10
  <2>7. ASSUME NEW i \in 1 .. Len(conns'), NEW j \in 1 .. Len(conns'), i < j
        PROVE  Before(Whole(conns'[i].data), Whole(conns'[j].data))
    BY <1>0, <1>10, <2>6, <2>7 DEF OrderInv, Before
  <2> QED BY <1>11, <2>1, <2>2, <2>5, <2>7 DEF OrderInv
<1> QED BY <1>10, <1>13, <1>15 DEF EventInv

LEMMA CallbackKeeps ==
  ASSUME EventInv, Callback
  PROVE  EventInv'
<1>0. StateOK /\ ChanInv /\ QueueInv /\ WriterInv /\ ConnInv /\ StreamInv /\ OrderInv
  BY DEF EventInv
<1> DEFINE f == receiver.frame
           n == f[1]
<1>1. /\ receiver.pc = "callback" /\ receiver \in ReceiverType
      /\ delivered \in Seq(Frames \X Frames) /\ delivered' = Append(delivered, f)
      /\ receiver' = [receiver EXCEPT !.pc = "header", !.frame = <<>>]
      /\ UNCHANGED <<chan, queue, bytes, writer, conns, accepted, lost, faults, session>>
  BY <1>0 DEF Callback, StateOK
<1>2. f \in Seq(Frames) /\ Len(f) = 2 /\ f[1] = f[2] /\ n \in Frames
  <2>1. f \in Seq(Frames) /\ Len(f) = 2 /\ f[1] = f[2]
    BY <1>0, <1>1 DEF ReceiverType, StreamInv
  <2> QED BY <2>1
<1>3. f = <<n, n>>
  <2>1. /\ <<n, n>> \in Seq(Frames) /\ Len(<<n, n>>) = 2
        /\ <<n, n>>[1] = n /\ <<n, n>>[2] = n
    BY <1>2
  <2>2. \A i \in 1 .. 2 : f[i] = <<n, n>>[i]
    BY <1>2
  <2> QED BY <1>2, <2>1, <2>2
<1>4. <<n, n>> \in Frames \X Frames /\ <<n, n>>[1] = n /\ <<n, n>>[2] = n
  BY <1>2
<1>5. InCallback = {n}
  BY <1>1 DEF InCallback
<1> HIDE DEF n
<1>6. delivered' = Append(delivered, <<n, n>>)
  BY <1>1, <1>3
<1>7. /\ delivered' \in Seq(Frames \X Frames) /\ Len(delivered') = Len(delivered) + 1
      /\ Len(delivered) \in Nat
      /\ \A i \in 1 .. Len(delivered) : delivered'[i] = delivered[i]
      /\ delivered'[Len(delivered) + 1] = <<n, n>>
  BY <1>1, <1>4, <1>6
<1>8. DOMAIN delivered = 1 .. Len(delivered) /\ DOMAIN delivered' = 1 .. Len(delivered) + 1
  BY <1>1, <1>7
<1>9. \A i \in 1 .. Len(delivered) + 1 : i \in 1 .. Len(delivered) \/ i = Len(delivered) + 1
  BY <1>7
<1>10. /\ \A i \in 1 .. Len(delivered) : i \in 1 .. Len(delivered) + 1
       /\ Len(delivered) + 1 \in 1 .. Len(delivered) + 1
  BY <1>7
<1>11. /\ receiver' \in ReceiverType /\ receiver'.pc = "header" /\ receiver'.frame = <<>>
       /\ receiver'.conn = receiver.conn
  <2>1. <<>> \in Seq(Frames)
    OBVIOUS
  <2> QED BY <1>1, <2>1 DEF ReceiverType
<1>12. StateOK' /\ ChanInv' /\ QueueInv' /\ WriterInv' /\ ConnInv'
  BY <1>0, <1>1, <1>7, <1>11 DEF StateOK, ChanInv, QueueInv, WriterInv, ConnInv
<1>13. WholeFrames'
  BY <1>0, <1>4, <1>7, <1>8, <1>9 DEF StreamInv, WholeFrames
<1>14. StreamInv'
  <2>1. \A i : Pending(i) = 0 /\ Pending(i)' = 0
    BY <1>1, <1>11 DEF Pending
  <2>2. Pending(writer.conn)' = Pending(writer.conn)
    BY <1>1, <1>11 DEF Pending
  <2> QED BY <1>0, <1>1, <1>11, <1>13, <2>1, <2>2 DEF StreamInv
<1>15. OrderInv'
  <2>1. InSocket' = InSocket /\ InHand' = InHand /\ Queued' = Queued /\ InCallback' = {}
    BY <1>1, <1>11 DEF InSocket, InHand, Queued, InCallback
  <2>2. Given' = Given \cup {n}
    <3>1. Given' \subseteq Given \cup {n}
      BY <1>4, <1>7, <1>8, <1>9 DEF Given
    <3>2. Given \subseteq Given'
      BY <1>7, <1>8, <1>10 DEF Given
    <3>3. n \in Given'
      BY <1>4, <1>7, <1>8, <1>10 DEF Given
    <3> QED BY <3>1, <3>2, <3>3
  <2>3. Chain(Given \cup {n}, {}, InSocket, InHand, Queued, accepted, lost)
    BY <1>0, <1>5, ChainDelivered DEF OrderInv
  <2> QED BY <1>0, <1>1, <2>1, <2>2, <2>3 DEF OrderInv
<1> QED BY <1>12, <1>14, <1>15 DEF EventInv

LEMMA GiveUpClientKeeps ==
  ASSUME EventInv, GiveUpClient
  PROVE  EventInv'
<1>0. StateOK /\ ChanInv /\ QueueInv /\ WriterInv /\ ConnInv /\ StreamInv /\ OrderInv
  BY DEF EventInv
<1> DEFINE k == receiver.conn
           c == [conns[k] EXCEPT !.r = "closed", !.data = <<>>]
<1>1. /\ receiver.pc \in {"header", "body"} /\ receiver \in ReceiverType /\ conns \in Seq(Conns)
      /\ receiver' = [receiver EXCEPT !.pc = "accept", !.conn = 0, !.frame = <<>>]
      /\ UNCHANGED <<chan, queue, bytes, writer, delivered, accepted, session>>
      /\ faults \in Nat
  BY <1>0 DEF GiveUpClient, StateOK
<1>2. k \in 1 .. Len(conns) /\ k # 0
  <2>1. k \in Nat /\ k # 0 /\ k <= Len(conns) /\ Len(conns) \in Nat
    BY <1>0, <1>1 DEF ConnInv, ReceiverType
  <2> QED BY <2>1
<1>3. conns[k] \in Conns
  BY <1>1, <1>2
<1>4. c \in Conns /\ c.data = <<>> /\ c.r = "closed"
  <2>1. <<>> \in Seq(Units)
    OBVIOUS
  <2> QED BY <1>3, <2>1 DEF Conns
<1>5. conns' = [conns EXCEPT ![k] = c]
  BY DEF GiveUpClient
<1> HIDE DEF c
<1>6. /\ conns' \in Seq(Conns) /\ Len(conns') = Len(conns) /\ conns'[k] = c
      /\ \A j \in 1 .. Len(conns) : j # k => conns'[j] = conns[j]
      /\ InSocket = Others(k) \cup Whole(conns[k].data)
      /\ InSocket' = Others(k) \cup Whole(c.data)
  BY <1>0, <1>2, <1>4, <1>5, OneConn
<1>7. /\ receiver' \in ReceiverType /\ receiver'.pc = "accept" /\ receiver'.conn = 0
      /\ receiver'.frame = <<>>
  <2>1. <<>> \in Seq(Frames)
    OBVIOUS
  <2> QED BY <1>1, <2>1 DEF ReceiverType
<1>8. faults' \in Nat
  BY <1>1 DEF GiveUpClient, Fault
<1>9. StateOK' /\ ChanInv' /\ QueueInv' /\ WriterInv'
  BY <1>0, <1>1, <1>6, <1>7, <1>8 DEF StateOK, ChanInv, QueueInv, WriterInv
<1>10. ConnInv'
  <2>1. ASSUME NEW i \in 1 .. Len(conns)
        PROVE  /\ Len(conns'[i].data) <= Capacity
               /\ conns'[i].r = "closed" => conns'[i].data = <<>>
               /\ conns'[i].r # "open"
               /\ conns'[i].r = "backlog" =>
                    \A j \in i .. Len(conns) : conns'[j].r = "backlog"
    <3>1. CASE i = k
      BY <1>4, <1>6, <3>1, EventAssumption
    <3>2. CASE i # k
      BY <1>0, <1>6, <3>2 DEF ConnInv
    <3> QED BY <3>1, <3>2
  <2>2. Len(conns) \in Nat
    BY <1>1
  <2> QED BY <1>6, <1>7, <2>1, <2>2 DEF ConnInv
<1>11. StreamInv'
  <2>1. \A i : Pending(i)' = 0 /\ (i # k => Pending(i) = 0)
    BY <1>7 DEF Pending
  <2>2. ASSUME NEW i \in 1 .. Len(conns') PROVE Alternating(conns'[i].data, Pending(i)')
    <3>1. CASE i = k
      BY <1>4, <1>6, <3>1, EmptyStream
    <3>2. CASE i # k
      BY <1>0, <1>6, <2>1, <3>2 DEF StreamInv
    <3> QED BY <3>1, <3>2
  <2>3. ASSUME writer.conn # 0, conns'[writer.conn].r # "closed"
        PROVE  HalfSent(conns'[writer.conn].data, Pending(writer.conn)')
                 = IF writer.pc = "send" /\ writer.units = 1 THEN writer.frame ELSE 0
    <3>1. writer.conn # k /\ writer.conn \in 1 .. Len(conns)
      BY <1>0, <1>2, <1>4, <1>6, <2>3 DEF WriterInv
    <3>2. conns'[writer.conn] = conns[writer.conn]
      BY <1>6, <3>1
    <3>3. Pending(writer.conn)' = 0 /\ Pending(writer.conn) = 0
      BY <1>7, <3>1 DEF Pending
    <3> QED BY <1>0, <2>3, <3>2, <3>3 DEF StreamInv
  <2> QED BY <1>0, <1>1, <1>7, <2>2, <2>3 DEF StreamInv, WholeFrames
<1>12. lost' = lost \cup Whole(conns[k].data)
  <2>1. lost' = IF receiver.stop \/ faults' # faults THEN lost \cup Whole(conns[k].data) ELSE lost
    BY UnreadIsWhole DEF GiveUpClient
  <2>2. CASE receiver.stop \/ faults' # faults
    BY <2>1, <2>2
  <2>3. CASE ~ (receiver.stop \/ faults' # faults)
    <3>1. ~ Fault
      BY <1>1, <2>3 DEF Fault
    <3>2. conns[k].data = <<>>
      BY <2>3, <3>1 DEF GiveUpClient, Data
    <3> QED BY <2>1, <2>3, <3>2, WholeEmpty
  <2> QED BY <2>2, <2>3
<1>13. \A m \in Whole(conns[k].data) : m \notin Others(k)
  <2> SUFFICES ASSUME NEW m \in Whole(conns[k].data), m \in Others(k) PROVE FALSE
    OBVIOUS
  <2>1. PICK j \in 1 .. Len(conns) : j # k /\ m \in Whole(conns[j].data)
    BY DEF Others
  <2>2. m \in Nat
    BY FramesAreNumbers DEF Whole
  <2>3. j < k \/ k < j
    BY <1>2, <2>1
  <2>4. m < m
    BY <1>0, <1>2, <2>1, <2>3 DEF OrderInv, Before
  <2> QED BY <2>2, <2>4
<1>14. OrderInv'
  <2>1. /\ Given' = Given /\ InHand' = InHand /\ Queued' = Queued
        /\ InCallback = {} /\ InCallback' = {}
    BY <1>1, <1>7 DEF Given, InHand, Queued, InCallback
  <2>2. InSocket' = Others(k)
    BY <1>4, <1>6, WholeEmpty
  <2>3. Chain(Given, InCallback, Others(k), InHand, Queued, accepted,
              lost \cup Whole(conns[k].data))
    <3> DEFINE X == Whole(conns[k].data)
    <3>1. X \subseteq InSocket \ Others(k) /\ InSocket \ Others(k) \subseteq X
      BY <1>6, <1>13
    <3>2. Others(k) \subseteq InSocket
      BY <1>6
    <3>3. Chain(Given, InCallback, InSocket, InHand, Queued, accepted, lost)
      BY <1>0 DEF OrderInv
    <3>4. InHand \ InHand = {} /\ Queued \ Queued = {}
      OBVIOUS
    <3> HIDE DEF X
    <3>5. Chain(Given, InCallback, Others(k), InHand, Queued, accepted, lost \cup X)
      BY SMTT(30), <3>1, <3>2, <3>3, <3>4, ChainLost
    <3> QED BY <3>5 DEF X
  <2>4. \A i \in 1 .. Len(conns) : Whole(conns'[i].data) \subseteq Whole(conns[i].data)
    BY <1>4, <1>6, WholeEmpty
  <2>5. ASSUME NEW i \in 1 .. Len(conns'), NEW j \in 1 .. Len(conns'), i < j
        PROVE  Before(Whole(conns'[i].data), Whole(conns'[j].data))
    BY <1>0, <1>6, <2>4, <2>5 DEF OrderInv, Before
  <2> QED BY <1>1, <1>12, <2>1, <2>2, <2>3, <2>5 DEF OrderInv
<1> QED BY <1>9, <1>10, <1>11, <1>14 DEF EventInv

LEMMA ReceiverEndsKeeps ==
  ASSUME EventInv, ReceiverEnds
  PROVE  EventInv' /\ lost' = lost \cup InSocket
<1>0. StateOK /\ ChanInv /\ QueueInv /\ WriterInv /\ ConnInv /\ StreamInv /\ OrderInv
  BY DEF EventInv
<1>1. /\ receiver.pc = "accept" /\ receiver \in ReceiverType /\ conns \in Seq(Conns)
      /\ receiver' = [receiver EXCEPT !.pc = "off"]
      /\ UNCHANGED <<chan, queue, bytes, writer, delivered, accepted, faults, session>>
  BY <1>0 DEF ReceiverEnds, StateOK
<1>2. /\ receiver' \in ReceiverType /\ receiver'.pc = "off" /\ receiver'.conn = receiver.conn
      /\ receiver'.frame = receiver.frame /\ receiver.conn = 0
  BY <1>0, <1>1 DEF ReceiverType, ConnInv
<1>3. DOMAIN conns = 1 .. Len(conns) /\ Len(conns) \in Nat
  BY <1>1
<1>4. \A i \in 1 .. Len(conns) : i \notin Backlog => conns[i].r = "closed" /\ conns[i].data = <<>>
  <2> SUFFICES ASSUME NEW i \in 1 .. Len(conns), i \notin Backlog
               PROVE  conns[i].r = "closed" /\ conns[i].data = <<>>
    OBVIOUS
  <2>1. conns[i] \in Conns
    BY <1>1
  <2>2. conns[i].r # "backlog" /\ conns[i].r # "open"
    <3>1. i # 0
      BY <1>3
    <3> QED BY <1>0, <1>2, <1>3, <3>1 DEF Backlog, ConnInv
  <2> QED BY <1>0, <2>1, <2>2 DEF Conns, ConnInv
<1>5. \A i \in 1 .. Len(conns) : [conns[i] EXCEPT !.r = "closed", !.data = <<>>] \in Conns
  <2>1. <<>> \in Seq(Units)
    OBVIOUS
  <2>2. \A i \in 1 .. Len(conns) : conns[i] \in Conns
    BY <1>1
  <2> QED BY <2>1, <2>2 DEF Conns
<1>6. conns' \in Seq(Conns) /\ Len(conns') = Len(conns)
  <2>1. conns' = [i \in 1 .. Len(conns) |->
                    IF i \in Backlog THEN [conns[i] EXCEPT !.r = "closed", !.data = <<>>]
                    ELSE conns[i]]
    BY <1>3 DEF ReceiverEnds
  <2>2. conns' \in [1 .. Len(conns) -> Conns]
    <3>1. \A i \in 1 .. Len(conns) : conns[i] \in Conns
      BY <1>1
    <3> QED BY <1>5, <2>1, <3>1
  <2> QED BY <1>3, <2>2
<1>7. ASSUME NEW i \in 1 .. Len(conns) PROVE conns'[i].r = "closed" /\ conns'[i].data = <<>>
  <2>1. conns'[i] = IF i \in Backlog THEN [conns[i] EXCEPT !.r = "closed", !.data = <<>>]
                    ELSE conns[i]
    BY <1>3 DEF ReceiverEnds
  <2>2. CASE i \in Backlog
    <3>1. conns[i] \in Conns
      BY <1>1
    <3> QED BY <2>1, <2>2, <3>1 DEF Conns
  <2>3. CASE i \notin Backlog
    BY <1>4, <2>1, <2>3
  <2> QED BY <2>2, <2>3
<1>8. StateOK' /\ ChanInv' /\ QueueInv' /\ WriterInv'
  BY <1>0, <1>1, <1>2, <1>6 DEF StateOK, ChanInv, QueueInv, WriterInv
<1>9. ConnInv'
  <2>1. \A i \in 1 .. Len(conns') : i # 0 /\ Len(conns'[i].data) <= Capacity
    BY <1>3, <1>6, <1>7, EventAssumption
  <2> QED BY <1>0, <1>2, <1>6, <1>7, <2>1 DEF ConnInv
<1>10. StreamInv'
  <2>1. \A i \in 1 .. Len(conns') : Alternating(conns'[i].data, Pending(i)')
    BY <1>6, <1>7, EmptyStream
  <2>2. writer.conn # 0 => conns'[writer.conn].r = "closed"
    BY <1>0, <1>3, <1>7 DEF WriterInv
  <2> QED BY <1>0, <1>1, <1>2, <2>1, <2>2 DEF StreamInv, WholeFrames
<1>11. InSocket' = {}
  <2>1. DOMAIN conns' = 1 .. Len(conns)
    BY <1>6
  <2>2. \A i \in 1 .. Len(conns) : Whole(conns'[i].data) = {}
    BY <1>7, WholeEmpty
  <2> QED BY <2>1, <2>2 DEF InSocket
<1>12. lost' = lost \cup InSocket
  <2>1. \A i \in 1 .. Len(conns) : i \notin Backlog => Whole(conns[i].data) = {}
    BY <1>4, WholeEmpty
  <2>2. UNION {Unread(i) : i \in Backlog} = InSocket
    BY <1>3, <2>1, UnreadIsWhole DEF InSocket, Backlog
  <2> QED BY <2>2 DEF ReceiverEnds
<1>13. OrderInv'
  <2>1. /\ Given' = Given /\ InHand' = InHand /\ Queued' = Queued
        /\ InCallback = {} /\ InCallback' = {}
    BY <1>1, <1>2 DEF Given, InHand, Queued, InCallback
  <2>2. Chain(Given, InCallback, {}, InHand, Queued, accepted, lost \cup InSocket)
    BY <1>0, ChainLost DEF OrderInv
  <2>3. ASSUME NEW i \in 1 .. Len(conns'), NEW j \in 1 .. Len(conns'), i < j
        PROVE  Before(Whole(conns'[i].data), Whole(conns'[j].data))
    BY <1>6, <1>7, WholeEmpty DEF Before
  <2> QED BY <1>1, <1>11, <1>12, <2>1, <2>2, <2>3 DEF OrderInv
<1> QED BY <1>8, <1>9, <1>10, <1>12, <1>13 DEF EventInv

LEMMA StopReceiverKeeps ==
  ASSUME EventInv, StopReceiver
  PROVE  EventInv'
<1>0. StateOK /\ ChanInv /\ QueueInv /\ WriterInv /\ ConnInv /\ StreamInv /\ OrderInv
  BY DEF EventInv
<1>1. /\ receiver' \in ReceiverType /\ receiver'.pc = receiver.pc
      /\ receiver'.conn = receiver.conn /\ receiver'.frame = receiver.frame
      /\ UNCHANGED <<chan, queue, bytes, writer, conns, delivered, accepted, lost, faults, session>>
  BY <1>0 DEF StopReceiver, StateOK, ReceiverType
<1>2. StateOK' /\ ChanInv' /\ QueueInv' /\ WriterInv' /\ ConnInv'
  BY <1>0, <1>1 DEF StateOK, ChanInv, QueueInv, WriterInv, ConnInv
<1>3. StreamInv'
  BY <1>0, <1>1 DEF StreamInv, Pending, WholeFrames
<1>4. OrderInv'
  <2>1. /\ Given' = Given /\ InCallback' = InCallback /\ InSocket' = InSocket
        /\ InHand' = InHand /\ Queued' = Queued
    BY <1>1 DEF Given, InCallback, InSocket, InHand, Queued
  <2> QED BY <1>0, <1>1, <2>1 DEF OrderInv
<1> QED BY <1>2, <1>3, <1>4 DEF EventInv

LEMMA StutterKeeps ==
  ASSUME EventInv, UNCHANGED vars
  PROVE  EventInv'
<1>1. /\ UNCHANGED <<queue, bytes, writer, ends, accepted, lost>>
      /\ faults' = faults /\ session' = session /\ chan' = chan
  BY DEF vars, ends
<1>2. faults' \in Nat /\ session' \in Nat /\ chan' \in ChanType /\ ChanInv'
  BY <1>1 DEF EventInv, StateOK, ChanInv
<1> QED BY <1>1, <1>2, ChannelFrame

LEMMA EventStep == EventInv /\ [Next]_vars => EventInv'
<1> SUFFICES ASSUME EventInv, [Next]_vars PROVE EventInv'
  OBVIOUS
<1>1. ASSUME NEW k \in 1 .. 2 * MaxEvents, AccessorySends(k) PROVE EventInv'
  BY <1>1, AccessorySendsKeeps
<1>2. CASE ChannelMoves
  BY <1>2, DecryptKeeps, AnswerKeeps DEF ChannelMoves
<1>3. CASE ChannelCloses
  BY <1>3, ChannelClosesKeeps
<1>4. CASE WriterMoves
  BY <1>4, TakeKeeps, ConnectKeeps, SendUnitKeeps, SendFailsKeeps, SleepKeeps,
     WriterEndsKeeps DEF WriterMoves
<1>5. CASE StopWriter \/ Killed \/ NextSession
  BY <1>5, StopWriterKeeps, KilledKeeps, NextSessionKeeps
<1>6. CASE ReceiverMoves
  BY <1>6, AcceptKeeps, ReadHeaderKeeps, ReadBodyKeeps, CallbackKeeps, GiveUpClientKeeps,
     ReceiverEndsKeeps DEF ReceiverMoves
<1>7. CASE StopReceiver
  BY <1>7, StopReceiverKeeps
<1>8. CASE Finished \/ UNCHANGED vars
  BY <1>8, StutterKeeps DEF Finished
<1> QED BY <1>1, <1>2, <1>3, <1>4, <1>5, <1>6, <1>7, <1>8 DEF Next

-----------------------------------------------------------------------------
(* The inductive invariant holds in every state of a behaviour of the       *)
(* path: every frame taken by send() is at one place of the chain queue,    *)
(* hand, socket, callback, daemon or is given up, the places are in order,  *)
(* and the units in a connection are lengths followed by their messages.    *)
THEOREM EventInvariant == Spec => []EventInv
<1>1. Init => EventInv
  BY InitEvent
<1>2. EventInv /\ [Next]_vars => EventInv'
  BY EventStep
<1> QED BY <1>1, <1>2, PTL DEF Spec

(* The limits of the queue (kMaximumQueuedFrames, kMaximumQueuedBytes) hold *)
(* and queued_bytes_ is the sum of the sizes queued, whatever is sent,      *)
(* taken, requeued and destroyed.                                           *)
THEOREM EventQueueCounted == Spec => []QueueAccounted
<1>1. EventInv => QueueAccounted
  <2> SUFFICES ASSUME EventInv PROVE QueueAccounted
    OBVIOUS
  <2>0. StateOK /\ ChanInv /\ QueueInv /\ WriterInv /\ ConnInv /\ OrderInv
    BY DEF EventInv
  <2>1. bytes \in 0 .. MaxBytes
    <3>1. \E g : IsSum(g, queue) /\ Bytes(queue) = g[Len(queue)]
      BY <2>0, BytesIsSum DEF StateOK
    <3>2. Len(queue) \in 0 .. Len(queue)
      BY <2>0 DEF StateOK
    <3>3. Bytes(queue) \in Nat
      BY <3>1, <3>2 DEF IsSum
    <3> QED BY <2>0, <3>3, EventAssumption DEF QueueInv
  <2>2. DOMAIN conns = 1 .. Len(conns) /\ Len(conns) \in Nat
    BY <2>0 DEF StateOK
  <2>3. writer.conn \in {0} \cup DOMAIN conns
    BY <2>0, <2>2 DEF WriterInv
  <2>4. /\ writer.pc \in {"wait", "connect", "send", "sleep", "off"}
        /\ writer.frame \in {0} \cup Frames /\ writer.units \in {0, 1}
    BY <2>0 DEF StateOK, WriterType
  <2>5. /\ chan.pc \in {"open", "answer", "closed"}
        /\ chan.consumed <= chan.decrypted /\ chan.decrypted <= chan.sent
    BY <2>0 DEF StateOK, ChanType, ChanInv
  <2>6. receiver.pc \in {"accept", "header", "body", "callback", "off"}
    BY <2>0 DEF StateOK, ReceiverType
  <2>7. \A i \in DOMAIN conns : Len(conns[i].data) <= Capacity
    BY <2>0, <2>2 DEF ConnInv
  <2>8. queue \in Seq(Frames) /\ lost \subseteq accepted
    BY <2>0 DEF StateOK, OrderInv, Chain
  <2>9. TypeOK
    BY <2>1, <2>3, <2>4, <2>5, <2>6, <2>7, <2>8 DEF TypeOK
  <2> QED BY <2>0, <2>9 DEF QueueAccounted, QueueInv
<1> QED BY <1>1, EventInvariant, PTL

(* A frame the daemon gets from the socket has the length that was sent     *)
(* with it, and a frame taken by send() is delivered, on its way, or was    *)
(* given up by a thread that had a reason to.                               *)
THEOREM EventFramesIntact == Spec => []FramesIntact
<1>1. EventInv => FramesIntact
  <2> SUFFICES ASSUME EventInv PROVE FramesIntact
    OBVIOUS
  <2>0. StreamInv /\ OrderInv
    BY DEF EventInv
  <2>1. WholeFrames
    BY <2>0 DEF StreamInv
  <2>2. InSocket = UNION {Unread(i) : i \in DOMAIN conns}
    BY UnreadIsWhole DEF InSocket
  <2>3. accepted \subseteq Given \cup InCallback \cup InSocket \cup InHand \cup Queued \cup lost
    BY <2>0 DEF OrderInv, Chain
  <2>4. NoSilentLoss
    BY <2>2, <2>3 DEF NoSilentLoss, Given, InCallback
  <2> QED BY <2>1, <2>4 DEF FramesIntact
<1> QED BY <1>1, EventInvariant, PTL

-----------------------------------------------------------------------------
(* The path is a message channel.                                           *)

given == [i \in DOMAIN delivered |-> delivered[i][1]]

LEMMA GivenIs ==
  ASSUME delivered \in Seq(Frames \X Frames)
  PROVE  given \in Seq(Frames) /\ Len(given) = Len(delivered) /\ Channel!Given = Given
<1>1. DOMAIN delivered = 1 .. Len(delivered) /\ Len(delivered) \in Nat
  OBVIOUS
<1>2. \A i \in 1 .. Len(delivered) : delivered[i][1] \in Frames
  <2>1. \A i \in 1 .. Len(delivered) : delivered[i] \in Frames \X Frames
    OBVIOUS
  <2> QED BY <2>1
<1>3. given \in [1 .. Len(delivered) -> Frames]
  BY <1>1, <1>2 DEF given
<1>4. given \in Seq(Frames) /\ Len(given) = Len(delivered)
  BY <1>1, <1>3
<1>5. Channel!Given = Given
  BY <1>1 DEF Channel!Given, Given
<1> QED BY <1>4, <1>5

LEMMA ChannelInit == Init => Channel!Init
<1> SUFFICES ASSUME Init PROVE Channel!Init
  OBVIOUS
<1>1. delivered = <<>> /\ delivered \in Seq(Frames \X Frames)
  BY DEF Init
<1>2. given \in Seq(Frames) /\ Len(given) = 0
  BY <1>1, GivenIs
<1>3. given = <<>>
  BY <1>2
<1> QED BY <1>3 DEF Init, Channel!Init, given

(* A step that delivers nothing and takes nothing may give up frames. *)
LEMMA ChannelGivesUp ==
  ASSUME EventInv, EventInv', UNCHANGED <<accepted, delivered>>, lost \subseteq lost'
  PROVE  Channel!Next
<1> DEFINE X == lost' \ lost
<1>1. /\ Chain(Given, InCallback, InSocket, InHand, Queued, accepted, lost)'
      /\ delivered \in Seq(Frames \X Frames)
  BY DEF EventInv, OrderInv, StateOK
<1>2. Given' = Given
  BY DEF Given
<1>3. X \subseteq accepted \ Given /\ X \in SUBSET Frames
  BY <1>1, <1>2 DEF Chain
<1>4. lost' = lost \cup X
  OBVIOUS
<1>5. Channel!Given = Given
  BY <1>1, GivenIs
<1> HIDE DEF X
<1>6. Channel!GiveUp(X)
  BY <1>3, <1>4, <1>5 DEF Channel!GiveUp
<1> QED BY <1>3, <1>6 DEF Channel!Next

LEMMA ChannelTakes ==
  ASSUME NEW n \in Frames, \A m \in accepted : m < n, accepted' = accepted \cup {n},
         UNCHANGED <<delivered, lost>>
  PROVE  Channel!Next
<1>1. Channel!Take({n})
  BY DEF Channel!Take
<1>2. {n} \in SUBSET Frames
  OBVIOUS
<1> QED BY <1>1, <1>2 DEF Channel!Next

LEMMA ChannelGives ==
  ASSUME EventInv, Callback
  PROVE  Channel!Next
<1> PICK n : n = receiver.frame[1]
  OBVIOUS
<1>0. /\ Chain(Given, InCallback, InSocket, InHand, Queued, accepted, lost)
      /\ delivered \in Seq(Frames \X Frames)
  BY DEF EventInv, OrderInv, StateOK
<1>1. InCallback = {n} /\ delivered' = Append(delivered, receiver.frame)
      /\ UNCHANGED <<accepted, lost>>
  BY DEF Callback, InCallback
<1>2. Channel!Given = Given
  BY <1>0, GivenIs
<1>3. n \in accepted \ (Given \cup lost) /\ accepted \subseteq Nat /\ n \in Frames
  <2>1. accepted \subseteq Nat /\ n \in accepted \ lost /\ accepted \subseteq Frames
    BY <1>0, <1>1, FramesAreNumbers DEF Chain
  <2>2. \A x \in Given : x < n
    BY <1>0, <1>1 DEF Chain, Before
  <2>3. n \notin Given
    <3>1. n \in Nat
      BY <2>1
    <3>2. \A x \in Nat : ~ (x < x)
      OBVIOUS
    <3> QED BY <2>2, <3>1, <3>2
  <2> QED BY <2>1, <2>3
<1>4. ASSUME NEW m \in accepted, m < n PROVE m \in Given \cup lost
  <2>1. m \notin InCallback \cup InSocket \cup InHand \cup Queued
    <3>1. \A x \in InSocket \cup InHand \cup Queued : n < x
      BY <1>0, <1>1 DEF Chain, Before
    <3>2. m \in Nat /\ n \in Nat /\ m # n /\ ~ (n < m)
      BY <1>3, <1>4
    <3> QED BY <1>1, <3>1, <3>2
  <2> QED BY <1>0, <2>1 DEF Chain
<1>5. given' = Append(given, n)
  <2>1. delivered' \in Seq(Frames \X Frames)
    <3>1. EventInv'
      BY CallbackKeeps
    <3> QED BY <3>1 DEF EventInv, StateOK
  <2>2. given \in Seq(Frames) /\ Len(given) = Len(delivered)
    BY <1>0, GivenIs
  <2>3. DOMAIN delivered = 1 .. Len(delivered) /\ Len(delivered) \in Nat
    BY <1>0
  <2>4. /\ Len(delivered') = Len(delivered) + 1 /\ DOMAIN delivered' = 1 .. Len(delivered) + 1
        /\ \A i \in 1 .. Len(delivered) : delivered'[i] = delivered[i]
        /\ delivered'[Len(delivered) + 1] = receiver.frame
    BY <1>0, <1>1, <2>1
  <2>5. given' = [i \in 1 .. Len(delivered) + 1 |-> delivered'[i][1]]
    BY <2>4 DEF given
  <2>6. \A i \in 1 .. Len(delivered) + 1 :
          delivered'[i][1] = IF i <= Len(given) THEN given[i] ELSE n
    <3>1. \A i \in 1 .. Len(delivered) : given[i] = delivered[i][1]
      BY <2>3 DEF given
    <3> QED BY <2>2, <2>3, <2>4, <3>1
  <2>7. given' \in Seq(Frames) /\ Len(given') = Len(delivered) + 1
    <3>1. \A i \in 1 .. Len(delivered) + 1 : delivered'[i][1] \in Frames
      BY <1>3, <2>2, <2>3, <2>6
    <3>2. given' \in [1 .. Len(delivered) + 1 -> Frames]
      BY <2>5, <3>1
    <3> QED BY <2>3, <3>2
  <2>8. /\ Append(given, n) \in Seq(Frames) /\ Len(Append(given, n)) = Len(given) + 1
        /\ \A i \in 1 .. Len(given) : Append(given, n)[i] = given[i]
        /\ Append(given, n)[Len(given) + 1] = n
    BY <1>3, <2>2, AppendFrame
  <2>9. \A i \in 1 .. Len(delivered) + 1 : given'[i] = Append(given, n)[i]
    BY <2>2, <2>3, <2>5, <2>6, <2>8
  <2> DEFINE e == Append(given, n)
  <2>10. e \in Seq(Frames) /\ Len(e) = Len(given') /\ \A i \in 1 .. Len(e) : given'[i] = e[i]
    BY <2>2, <2>7, <2>8, <2>9
  <2> HIDE DEF e
  <2>11. given' = e
    BY <2>7, <2>10
  <2> QED BY <2>11 DEF e
<1>6. Channel!Give(n)
  BY <1>1, <1>2, <1>3, <1>4, <1>5 DEF Channel!Give, given
<1> QED BY <1>3, <1>6 DEF Channel!Next

LEMMA ChannelStep ==
  ASSUME EventInv, EventInv', [Next]_vars
  PROVE  [Channel!Next]_(Channel!channelVars)
<1>1. CASE Callback
  BY <1>1, ChannelGives
<1>2. CASE Decrypt
  <2> DEFINE n == chan.consumed \div 2 + 1
  <2>1. CASE chan.sent - chan.consumed >= 2 /\ HasRoom(n)
    <3>1. n \in Frames /\ \A m \in accepted : m < n
      BY <1>2, <2>1, NextNumber DEF Decrypt
    <3>2. accepted' = accepted \cup {n} /\ UNCHANGED <<delivered, lost>>
      BY <1>2, <2>1 DEF Decrypt, Send, ends
    <3> HIDE DEF n
    <3> QED BY <3>1, <3>2, ChannelTakes
  <2>2. CASE ~ (chan.sent - chan.consumed >= 2 /\ HasRoom(n))
    <3>1. UNCHANGED <<accepted, delivered, lost>>
      BY <1>2, <2>2 DEF Decrypt, Send, ends
    <3> QED BY <3>1, ChannelGivesUp
  <2> QED BY <2>1, <2>2
<1>3. CASE ~ Callback /\ ~ Decrypt
  <2>1. UNCHANGED <<accepted, delivered>> /\ lost \subseteq lost'
    <3>1. ASSUME NEW k \in 1 .. 2 * MaxEvents, AccessorySends(k)
          PROVE  UNCHANGED <<accepted, delivered>> /\ lost \subseteq lost'
      BY <3>1 DEF AccessorySends, ends
    <3>2. CASE Answer \/ ChannelCloses \/ Finished \/ UNCHANGED vars
      BY <3>2 DEF Answer, ChannelCloses, Finished, vars, ends
    <3>3. CASE WriterMoves
      <4>1. Requeue => lost \subseteq lost'
        BY DEF Requeue
      <4> QED BY <3>3, <4>1 DEF WriterMoves, Take, Connect, SendUnit, SendFails, Sleep,
                 WriterEnds, ends
    <3>4. CASE StopWriter \/ Killed \/ NextSession \/ StopReceiver
      BY <3>4 DEF StopWriter, Killed, NextSession, StopReceiver, ends
    <3>5. CASE Accept \/ ReadHeader \/ ReadBody \/ GiveUpClient \/ ReceiverEnds
      BY <3>5 DEF Accept, ReadHeader, ReadBody, Consume, GiveUpClient, ReceiverEnds
    <3> QED BY <1>3, <3>1, <3>2, <3>3, <3>4, <3>5 DEF Next, ChannelMoves, ReceiverMoves
  <2> QED BY <2>1, ChannelGivesUp
<1> QED BY <1>1, <1>2, <1>3

(* The event path implements MessageChannel: over any number of             *)
(* connections, writers and resent frames the daemon sees each button press *)
(* at most once and in the order of the car (FrameSocketWriter::write and   *)
(* requeue, FrameSocketReceiver::receive), and none that was given up.      *)
THEOREM EventPathIsChannel == Spec => ImplementsChannel
<1>1. Init => Channel!Init
  BY ChannelInit
<1>2. EventInv /\ EventInv' /\ [Next]_vars => [Channel!Next]_(Channel!channelVars)
  BY ChannelStep
<1>3. Spec => Channel!Init /\ [][Channel!Next]_(Channel!channelVars)
  BY <1>1, <1>2, EventInvariant, PTL DEF Spec
<1> QED BY <1>3 DEF ImplementsChannel, Channel!Spec
=============================================================================
