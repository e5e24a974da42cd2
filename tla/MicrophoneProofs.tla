--------------------------- MODULE MicrophoneProofs ---------------------------
(***************************************************************************)
(* That the replay window of the microphone passes no datagram twice, that *)
(* a packet in a queue always has its drain, and that the way of the voice *)
(* to the phone implements MessageChannel, for every width of the window,  *)
(* every limit of the queues and every number of datagrams, lost, repeated *)
(* or reordered.                                                           *)
(*                                                                         *)
(* The first rests on RadioInv, which relates the bits of the window to    *)
(* the nonces it has let in.  The others rest on PathInv: every packet     *)
(* that passed the window is at one place of the line                      *)
(*   heard < wire < pending < ingress < queue < socket                     *)
(* or given up (LineInv), each place is in order (OrderedQueues), a packet *)
(* waits only for an acknowledgement (PendingInv), and io_service holds    *)
(* one drain per flag (DrainInv).                                          *)
(***************************************************************************)
EXTENDS MicrophonePath, FiniteSetTheorems, SequenceTheorems, TLAPS

RadioOK ==
  /\ sent \in Nat
  /\ seen \subseteq Nat
  /\ window \in [have : BOOLEAN, highest : Nat, bits : SUBSET Nat]
  /\ passed \in Seq(Nat)

(* What has been passed on was let in. *)
PassedSeen == \A i \in DOMAIN passed : passed[i] \in seen

RadioInv == RadioOK /\ WindowExact /\ PassedSeen /\ NoReplay

-----------------------------------------------------------------------------
(* The window with n in it is exact for the nonces seen with n. *)
LEMMA AdmitExact ==
  ASSUME RadioInv, NEW n \in Nat, ~Refuses(n),
         window' = Admit(n), seen' = seen \cup {n}
  PROVE  /\ window' \in [have : BOOLEAN, highest : Nat, bits : SUBSET Nat]
         /\ WindowExact'
         /\ n \notin seen
<1> USE MicrophoneAssumption DEF MicrophoneAssumption
<1>0. /\ window \in [have : BOOLEAN, highest : Nat, bits : SUBSET Nat]
      /\ seen \subseteq Nat /\ Width \in Nat \ {0}
  BY DEF RadioInv, RadioOK
<1>1. CASE ~window.have
  <2>1. seen = {}
    BY <1>1 DEF RadioInv, WindowExact
  <2>2. window' = [have |-> TRUE, highest |-> n, bits |-> {0}]
    BY <1>1 DEF Admit
  <2>3. {b \in 0..(Width - 1) : n - b \in {n}} = {0}
    BY <1>0
  <2> QED BY <1>0, <2>1, <2>2, <2>3 DEF WindowExact
<1>2. CASE window.have /\ n > window.highest
  <2> DEFINE bits == {0} \cup {b \in 0..(Width - 1) : b - (n - window.highest) \in window.bits}
  <2>1. window' = [have |-> TRUE, highest |-> n, bits |-> bits]
    BY <1>2 DEF Admit
  <2>2. /\ \A m \in seen : m <= window.highest
        /\ window.highest \in seen
        /\ window.bits = {b \in 0..(Width - 1) : window.highest - b \in seen}
    BY <1>2 DEF RadioInv, WindowExact
  <2>3. bits = {b \in 0..(Width - 1) : n - b \in seen \cup {n}}
    <3>1. ASSUME NEW b \in 0..(Width - 1)
          PROVE  b \in bits <=> n - b \in seen \cup {n}
      <4>1. CASE b = 0
        BY <4>1
      <4>2. CASE b # 0 /\ b - (n - window.highest) < 0
        <5>1. n - b > window.highest
          BY <4>2, <1>0, <1>2
        <5>2. n - b \notin seen
          BY <5>1, <2>2, <1>0
        <5>3. b - (n - window.highest) \notin window.bits
          BY <4>2, <1>0
        <5> QED BY <4>2, <5>2, <5>3, <1>0
      <4>3. CASE b # 0 /\ b - (n - window.highest) >= 0
        <5> DEFINE d == b - (n - window.highest)
        <5>1. d \in 0..(Width - 1) /\ window.highest - d = n - b
          BY <4>3, <1>0, <1>2
        <5>2. d \in window.bits <=> n - b \in seen
          BY <5>1, <2>2
        <5> QED BY <4>3, <5>2, <1>0
      <4> QED BY <4>1, <4>2, <4>3, <1>0
    <3>2. bits \subseteq 0..(Width - 1)
      BY <1>0
    <3> QED BY <3>1, <3>2
  <2>4. n \notin seen
    BY <2>2, <1>2, <1>0
  <2>5. bits \in SUBSET Nat
    BY <1>0
  <2> HIDE DEF bits
  <2>6. window' \in [have : BOOLEAN, highest : Nat, bits : SUBSET Nat]
    BY <2>1, <2>5
  <2>7. \A m \in seen \cup {n} : m <= n
    BY <2>2, <1>2, <1>0
  <2> QED BY <2>1, <2>3, <2>4, <2>6, <2>7 DEF WindowExact
<1>3. CASE window.have /\ ~(n > window.highest)
  <2> DEFINE d == window.highest - n
  <2>0. n <= window.highest /\ d \in Nat
    BY <1>3, <1>0
  <2>1. d < Width /\ d \notin window.bits
    BY <1>3, <2>0, <1>0 DEF Refuses
  <2>2. /\ \A m \in seen : m <= window.highest
        /\ window.highest \in seen
        /\ window.bits = {b \in 0..(Width - 1) : window.highest - b \in seen}
    BY <1>3 DEF RadioInv, WindowExact
  <2>3. n \notin seen
    BY <2>0, <2>1, <2>2, <1>0
  <2>4. window' = [window EXCEPT !.bits = @ \cup {d}]
    BY <1>3 DEF Admit
  <2>5. window.bits \cup {d} = {b \in 0..(Width - 1) : window.highest - b \in seen \cup {n}}
    BY <2>0, <2>1, <2>2, <1>0
  <2> HIDE DEF d
  <2>6. /\ window'.have /\ window'.highest = window.highest
        /\ window'.bits = window.bits \cup {d}
        /\ window' \in [have : BOOLEAN, highest : Nat, bits : SUBSET Nat]
    BY <2>0, <2>4, <1>0, <1>3
  <2> QED BY <2>0, <2>2, <2>3, <2>5, <2>6 DEF WindowExact
<1> QED BY <1>1, <1>2, <1>3

(* Only the child process touches the window; the rest of the path leaves   *)
(* it alone.                                                                *)
LEMMA RadioStep == RadioInv /\ [Next]_vars => RadioInv'
<1> SUFFICES ASSUME RadioInv, [Next]_vars PROVE RadioInv'
  OBVIOUS
<1>1. CASE AccessorySends
  BY <1>1 DEF AccessorySends, RadioInv, RadioOK, WindowExact, PassedSeen, NoReplay
<1>2. ASSUME NEW n \in Audio, ReceivePacket(n) PROVE RadioInv'
  <2>1. n \in Nat /\ ~Refuses(n) /\ window' = Admit(n) /\ seen' = seen \cup {n} /\ sent' = sent
    BY <1>2 DEF ReceivePacket, RadioInv, RadioOK
  <2>2. /\ window' \in [have : BOOLEAN, highest : Nat, bits : SUBSET Nat]
        /\ WindowExact'
        /\ n \notin seen
    BY <2>1, AdmitExact
  <2>3. CASE passed' = passed
    BY <2>1, <2>2, <2>3 DEF RadioInv, RadioOK, PassedSeen, NoReplay
  <2>4. CASE passed' = Append(passed, n)
    <3>1. /\ passed' \in Seq(Nat) /\ Len(passed') = Len(passed) + 1
          /\ DOMAIN passed = 1..Len(passed) /\ DOMAIN passed' = 1..(Len(passed) + 1)
          /\ \A i \in 1..Len(passed) : passed'[i] = passed[i]
          /\ passed'[Len(passed) + 1] = n
          /\ Len(passed) \in Nat
      BY <2>1, <2>4 DEF RadioInv, RadioOK
    <3>2. PassedSeen'
      BY <2>1, <3>1 DEF RadioInv, PassedSeen
    <3>3. NoReplay'
      BY <2>2, <3>1 DEF RadioInv, PassedSeen, NoReplay
    <3> QED BY <2>1, <2>2, <3>1, <3>2, <3>3 DEF RadioInv, RadioOK
  <2> QED BY <1>2, <2>3, <2>4 DEF ReceivePacket
<1>3. ASSUME UNCHANGED radio PROVE RadioInv'
  BY <1>3 DEF radio, RadioInv, RadioOK, WindowExact, PassedSeen, NoReplay
<1>4. CASE SendMicrophoneAudio \/ IpcLoses \/ IoMoves \/ Stop
  BY <1>3, <1>4 DEF SendMicrophoneAudio, IpcLoses, IoMoves, DrainTake, DrainRest,
                    DrainIngress, OnAck, OnOpenRequest, Stop, radio
<1>5. CASE (\E id \in {0, 1} : PhoneRequests(id)) \/ PhoneHears \/ Unplug
  BY <1>3, <1>5 DEF PhoneRequests, PhoneHears, Unplug, radio
<1>6. CASE UNCHANGED vars
  BY <1>3, <1>6 DEF vars, radio
<1> QED BY <1>1, <1>2, <1>4, <1>5, <1>6 DEF Next

(* The window remembers exactly the datagrams of its width, whatever the    *)
(* network does (replay_window of microphone_receiver).                     *)
THEOREM WindowIsExact == Spec => []WindowExact
<1>1. Init => RadioInv
  BY DEF Init, RadioInv, RadioOK, WindowExact, PassedSeen, NoReplay
<1>2. RadioInv => WindowExact
  BY DEF RadioInv
<1> QED BY <1>1, <1>2, RadioStep, PTL DEF Spec

(* No datagram of the microphone is passed on twice, for every width of the *)
(* window (microphone_receiver).                                            *)
THEOREM NothingReplayed == Spec => []NoReplay
<1>1. Init => RadioInv
  BY DEF Init, RadioInv, RadioOK, WindowExact, PassedSeen, NoReplay
<1>2. RadioInv => NoReplay
  BY DEF RadioInv
<1> QED BY <1>1, <1>2, RadioStep, PTL DEF Spec

-----------------------------------------------------------------------------
(* The queues between the window and the phone *)

Tasks == {"hub", "hubRest", "ingress"}

HubType == [queue : Seq(Nat), posted : BOOLEAN, running : BOOLEAN, attached : BOOLEAN]
MicType ==
  [id : {0, 1}, inFlight : BOOLEAN, pending : Nat, ingress : Seq(Nat), posted : BOOLEAN]

PathOK ==
  /\ ipc \in Seq(Nat) /\ wire \in Seq(Nat) /\ heard \in Seq(Nat)
  /\ hub \in HubType /\ mic \in MicType /\ io \in Seq(Tasks)

RangeInv ==
  /\ sent <= MaxPackets /\ seen \subseteq 1..sent
  /\ window.highest \in 0..sent /\ window.bits \subseteq 0..(Width - 1)

(* Of the tasks of one queue there is one if the flag says so, or none. *)
Once(q, tasks, flag) ==
  IF flag THEN \E k \in 1..Len(q) : \A i \in 1..Len(q) : q[i] \in tasks <=> i = k
          ELSE \A i \in 1..Len(q) : q[i] \notin tasks

DrainInv ==
  hub.running =>
    /\ Once(io, {"hub", "hubRest"}, hub.posted) /\ Once(io, {"ingress"}, mic.posted)
    /\ hub.queue # <<>> => hub.posted
    /\ mic.ingress # <<>> => mic.posted

Increasing(q) == \A i, j \in 1..Len(q) : i < j => q[i] < q[j]

OrderedQueues ==
  Increasing(ipc) /\ Increasing(hub.queue) /\ Increasing(mic.ingress) /\ Increasing(wire)

(* A packet waits only for the acknowledgement of another. *)
PendingInv == mic.pending # 0 => mic.inFlight

Before(S, T) == \A n \in S, m \in T : n < m

(* Every packet A is at one of the places heard, wire, pending, ingress,    *)
(* queue and socket, or is gone, and the places are in order.               *)
Line(H, W, P, I, Q, S, A, G) ==
  /\ A \subseteq Nat \ {0} /\ G \subseteq A
  /\ H \cup W \cup P \cup I \cup Q \cup S \subseteq A \ G
  /\ A \subseteq H \cup W \cup P \cup I \cup Q \cup S \cup G
  /\ Before(H, W \cup P \cup I \cup Q \cup S)
  /\ Before(W, P \cup I \cup Q \cup S)
  /\ Before(P, I \cup Q \cup S)
  /\ Before(I, Q \cup S)
  /\ Before(Q, S)

LineInv ==
  Line(Elements(heard), Elements(wire), InPending(mic), Elements(mic.ingress),
       Elements(hub.queue), Elements(ipc), DOMAIN passed, gone)

PathInv ==
  RadioInv /\ RangeInv /\ PathOK /\ DrainInv /\ OrderedQueues /\ PendingInv /\ LineInv

-----------------------------------------------------------------------------
(* Sequences that grow at the end and shrink at the front *)

LEMMA TailParts ==
  ASSUME NEW S, NEW q \in Seq(S), q # <<>>
  PROVE  /\ Tail(q) \in Seq(S) /\ Len(Tail(q)) = Len(q) - 1 /\ Len(q) \in Nat /\ Len(q) > 0
         /\ Head(q) = q[1] /\ Head(q) \in S
         /\ \A i \in 1..(Len(q) - 1) : Tail(q)[i] = q[i + 1]
OBVIOUS

LEMMA AppendParts ==
  ASSUME NEW S, NEW q \in Seq(S), NEW x \in S
  PROVE  /\ Append(q, x) \in Seq(S) /\ Len(Append(q, x)) = Len(q) + 1 /\ Len(q) \in Nat
         /\ \A i \in 1..Len(q) : Append(q, x)[i] = q[i]
         /\ Append(q, x)[Len(q) + 1] = x
OBVIOUS

LEMMA ElementsOfEmpty == Elements(<<>>) = {}
BY DEF Elements

LEMMA ElementsTail ==
  ASSUME NEW q \in Seq(Nat), q # <<>>, Increasing(q)
  PROVE  /\ Tail(q) \in Seq(Nat) /\ Increasing(Tail(q)) /\ Head(q) \in Nat
         /\ Elements(q) = Elements(Tail(q)) \cup {Head(q)}
         /\ \A m \in Elements(Tail(q)) : m \in Nat /\ Head(q) < m
<1> DEFINE t == Tail(q)
<1>1. /\ t \in Seq(Nat) /\ Len(t) = Len(q) - 1 /\ Len(q) \in Nat /\ Len(q) > 0
      /\ Head(q) = q[1] /\ Head(q) \in Nat
      /\ \A i \in 1..(Len(q) - 1) : t[i] = q[i + 1]
  BY TailParts
<1> HIDE DEF t
<1>2. DOMAIN t = 1..(Len(q) - 1) /\ DOMAIN q = 1..Len(q)
  BY <1>1
<1>3. \A i \in 1..(Len(q) - 1) : i + 1 \in 1..Len(q) /\ 1 < i + 1
  BY <1>1
<1>4. 1 \in 1..Len(q)
  BY <1>1
<1>5. ASSUME NEW i \in 1..Len(q), i # 1 PROVE i - 1 \in 1..(Len(q) - 1) /\ t[i - 1] = q[i]
  <2>1. i - 1 \in 1..(Len(q) - 1) /\ (i - 1) + 1 = i
    BY <1>1, <1>5
  <2> QED BY <1>1, <2>1
<1>6. Increasing(t)
  <2> SUFFICES ASSUME NEW i \in 1..Len(t), NEW j \in 1..Len(t), i < j PROVE t[i] < t[j]
    BY DEF Increasing
  <2>1. i + 1 \in 1..Len(q) /\ j + 1 \in 1..Len(q) /\ i + 1 < j + 1
    BY <1>1
  <2> QED BY <1>1, <2>1 DEF Increasing
<1>7. Elements(q) = Elements(t) \cup {Head(q)}
  <2>1. \A i \in 1..Len(q) : q[i] \in {t[k] : k \in 1..(Len(q) - 1)} \cup {q[1]}
    BY <1>5
  <2>2. \A k \in 1..(Len(q) - 1) : t[k] \in {q[i] : i \in 1..Len(q)}
    BY <1>1, <1>3
  <2>3. q[1] \in {q[i] : i \in 1..Len(q)}
    BY <1>4
  <2> QED BY ZenonT(40), <1>1, <1>2, <2>1, <2>2, <2>3 DEF Elements
<1>8. \A m \in Elements(t) : m \in Nat /\ Head(q) < m
  <2> SUFFICES ASSUME NEW i \in 1..(Len(q) - 1) PROVE t[i] \in Nat /\ Head(q) < t[i]
    BY <1>2 DEF Elements
  <2>1. t[i] = q[i + 1] /\ i + 1 \in 1..Len(q) /\ 1 < i + 1
    BY <1>1, <1>3
  <2> QED BY <1>1, <1>4, <2>1 DEF Increasing
<1> QED BY <1>1, <1>6, <1>7, <1>8 DEF t

LEMMA ElementsAppend ==
  ASSUME NEW q \in Seq(Nat), NEW n \in Nat
  PROVE  /\ Append(q, n) \in Seq(Nat)
         /\ Elements(Append(q, n)) = Elements(q) \cup {n}
         /\ Increasing(q) /\ (\A m \in Elements(q) : m < n) => Increasing(Append(q, n))
<1> DEFINE e == Append(q, n)
<1>1. /\ e \in Seq(Nat) /\ Len(e) = Len(q) + 1 /\ Len(q) \in Nat
      /\ \A i \in 1..Len(q) : e[i] = q[i]
      /\ e[Len(q) + 1] = n
  BY AppendParts
<1> HIDE DEF e
<1>2. DOMAIN e = 1..(Len(q) + 1) /\ DOMAIN q = 1..Len(q)
  BY <1>1
<1>3. \A i \in 1..(Len(q) + 1) : i \in 1..Len(q) \/ i = Len(q) + 1
  BY <1>1
<1>4. Len(q) + 1 \in 1..(Len(q) + 1) /\ \A i \in 1..Len(q) : i \in 1..(Len(q) + 1)
  BY <1>1
<1>5. Elements(e) = Elements(q) \cup {n}
  <2>1. \A i \in 1..(Len(q) + 1) : e[i] \in {q[k] : k \in 1..Len(q)} \cup {n}
    BY <1>1, <1>3
  <2>2. \A k \in 1..Len(q) : q[k] \in {e[i] : i \in 1..(Len(q) + 1)}
    BY <1>1, <1>4
  <2>3. n \in {e[i] : i \in 1..(Len(q) + 1)}
    BY <1>1, <1>4
  <2> QED BY <1>2, <2>1, <2>2, <2>3 DEF Elements
<1>6. ASSUME Increasing(q), \A m \in Elements(q) : m < n PROVE Increasing(e)
  <2> SUFFICES ASSUME NEW i \in 1..Len(e), NEW j \in 1..Len(e), i < j PROVE e[i] < e[j]
    BY DEF Increasing
  <2>1. i \in 1..Len(q) /\ e[i] = q[i]
    BY <1>1
  <2>2. CASE j \in 1..Len(q)
    BY <1>1, <1>6, <2>1, <2>2 DEF Increasing
  <2>3. CASE j = Len(q) + 1
    <3>1. q[i] \in Elements(q)
      BY <1>2, <2>1 DEF Elements
    <3> QED BY <1>1, <1>6, <2>1, <2>3, <3>1
  <2> QED BY <1>1, <1>3, <2>2, <2>3
<1> QED BY <1>1, <1>5, <1>6 DEF e

(* A queue with a limit takes the newest packet and drops the oldest. *)
LEMMA ElementsPush ==
  ASSUME NEW q \in Seq(Nat), Increasing(q), NEW n \in Nat, \A m \in Elements(q) : m < n
  PROVE  /\ Push(q, n) \in Seq(Nat) /\ Increasing(Push(q, n)) /\ Push(q, n) # <<>>
         /\ Dropped(q) \subseteq Elements(q)
         /\ Elements(Push(q, n)) = (Elements(q) \ Dropped(q)) \cup {n}
<1>1. CASE Len(q) >= QueueLimit
  <2>1. q # <<>>
    BY <1>1, MicrophoneAssumption
  <2>2. /\ Tail(q) \in Seq(Nat) /\ Increasing(Tail(q)) /\ Head(q) \in Nat
        /\ Elements(q) = Elements(Tail(q)) \cup {Head(q)}
        /\ \A m \in Elements(Tail(q)) : m \in Nat /\ Head(q) < m
    BY <2>1, ElementsTail
  <2>3. Push(q, n) = Append(Tail(q), n) /\ Dropped(q) = {Head(q)}
    BY <1>1 DEF Push, Dropped
  <2>4. Head(q) \notin Elements(Tail(q))
    BY <2>2
  <2>5. Elements(Tail(q)) = Elements(q) \ Dropped(q)
    BY <2>2, <2>3, <2>4
  <2>6. Append(Tail(q), n) # <<>>
    BY <2>2
  <2>7. \A m \in Elements(Tail(q)) : m < n
    BY <2>5
  <2>8. /\ Append(Tail(q), n) \in Seq(Nat) /\ Increasing(Append(Tail(q), n))
        /\ Elements(Append(Tail(q), n)) = Elements(Tail(q)) \cup {n}
    BY <2>2, <2>7, ElementsAppend
  <2> QED BY <2>2, <2>3, <2>5, <2>6, <2>8
<1>2. CASE ~ (Len(q) >= QueueLimit)
  <2>1. Push(q, n) = Append(q, n) /\ Dropped(q) = {}
    BY <1>2 DEF Push, Dropped
  <2>2. Append(q, n) # <<>>
    OBVIOUS
  <2> QED BY <2>1, <2>2, ElementsAppend
<1> QED BY <1>1, <1>2

-----------------------------------------------------------------------------
(* Tasks *)

LEMMA OnceAppend ==
  ASSUME NEW q \in Seq(Tasks), NEW x \in Tasks, NEW T, NEW f \in BOOLEAN, Once(q, T, f),
         x \in T => ~f
  PROVE  Once(Append(q, x), T, f \/ x \in T)
<1> DEFINE e == Append(q, x)
<1>1. /\ e \in Seq(Tasks) /\ Len(e) = Len(q) + 1 /\ Len(q) \in Nat
      /\ \A i \in 1..Len(q) : e[i] = q[i]
      /\ e[Len(q) + 1] = x
  BY AppendParts
<1> HIDE DEF e
<1>2. \A i \in 1..Len(e) : i \in 1..Len(q) \/ i = Len(q) + 1
  BY <1>1
<1>3. Len(q) + 1 \in 1..Len(e) /\ \A i \in 1..Len(q) : i \in 1..Len(e) /\ i # Len(q) + 1
  BY <1>1
<1>4. CASE x \in T
  <2>1. \A i \in 1..Len(e) : e[i] \in T <=> i = Len(q) + 1
    BY <1>1, <1>2, <1>3, <1>4 DEF Once
  <2> QED BY <1>3, <1>4, <2>1 DEF Once, e
<1>5. CASE x \notin T /\ f
  <2>1. PICK k \in 1..Len(q) : \A i \in 1..Len(q) : q[i] \in T <=> i = k
    BY <1>5 DEF Once
  <2>2. \A i \in 1..Len(e) : e[i] \in T <=> i = k
    BY <1>1, <1>2, <1>3, <1>5, <2>1
  <2> QED BY <1>3, <1>5, <2>2 DEF Once, e
<1>6. CASE x \notin T /\ ~f
  <2>1. \A i \in 1..Len(e) : e[i] \notin T
    BY <1>1, <1>2, <1>6 DEF Once
  <2> QED BY <1>6, <2>1 DEF Once, e
<1> QED BY <1>4, <1>5, <1>6

LEMMA OnceTail ==
  ASSUME NEW q \in Seq(Tasks), q # <<>>, NEW T, NEW f \in BOOLEAN, Once(q, T, f)
  PROVE  /\ Head(q) \in T => f
         /\ Once(Tail(q), T, f /\ Head(q) \notin T)
<1> DEFINE t == Tail(q)
<1>1. /\ t \in Seq(Tasks) /\ Len(t) = Len(q) - 1 /\ Len(q) \in Nat /\ Len(q) > 0
      /\ Head(q) = q[1]
      /\ \A i \in 1..(Len(q) - 1) : t[i] = q[i + 1]
  BY TailParts
<1> HIDE DEF t
<1>2. 1 \in 1..Len(q) /\ \A i \in 1..Len(t) : i + 1 \in 1..Len(q) /\ i + 1 # 1 /\ t[i] = q[i + 1]
  BY <1>1
<1>3. Head(q) \in T => f
  BY <1>1, <1>2 DEF Once
<1>4. CASE ~f
  <2>1. \A i \in 1..Len(t) : t[i] \notin T
    BY <1>2, <1>4 DEF Once
  <2> QED BY <1>3, <1>4, <2>1 DEF Once, t
<1>5. CASE f
  <2>1. PICK k \in 1..Len(q) : \A i \in 1..Len(q) : q[i] \in T <=> i = k
    BY <1>5 DEF Once
  <2>2. CASE Head(q) \in T
    <3>1. k = 1
      BY <1>1, <1>2, <2>1, <2>2
    <3>2. \A i \in 1..Len(t) : t[i] \notin T
      BY <1>2, <2>1, <3>1
    <3> QED BY <1>3, <2>2, <3>2 DEF Once, t
  <2>3. CASE Head(q) \notin T
    <3>1. k # 1
      BY <1>1, <1>2, <2>1, <2>3
    <3>2. k - 1 \in 1..Len(t) /\ (k - 1) + 1 = k
      BY <1>1, <2>1, <3>1
    <3>3. \A i \in 1..Len(t) : i + 1 = k <=> i = k - 1
      BY <1>1
    <3>4. \A i \in 1..Len(t) : t[i] \in T <=> i = k - 1
      BY <1>2, <2>1, <3>3
    <3> QED BY <1>3, <1>5, <2>3, <3>2, <3>4 DEF Once, t
  <2> QED BY <2>2, <2>3
<1> QED BY <1>4, <1>5

LEMMA FrontParts ==
  ASSUME NEW q \in Seq(Tasks), NEW x \in Tasks
  PROVE  LET e == <<x>> \o q
         IN  /\ e \in Seq(Tasks) /\ Len(e) = Len(q) + 1 /\ Len(q) \in Nat
             /\ e[1] = x /\ \A i \in 1..Len(q) : e[i + 1] = q[i]
<1>1. <<x>> \in Seq(Tasks) /\ Len(<<x>>) = 1 /\ <<x>>[1] = x
  OBVIOUS
<1> QED BY <1>1

LEMMA OnceFront ==
  ASSUME NEW q \in Seq(Tasks), NEW x \in Tasks, NEW T, NEW f \in BOOLEAN, Once(q, T, f),
         x \in T => ~f
  PROVE  Once(<<x>> \o q, T, f \/ x \in T)
<1> DEFINE e == <<x>> \o q
<1>1. /\ e \in Seq(Tasks) /\ Len(e) = Len(q) + 1 /\ Len(q) \in Nat
      /\ e[1] = x /\ \A i \in 1..Len(q) : e[i + 1] = q[i]
  BY FrontParts
<1> HIDE DEF e
<1>2. ASSUME NEW i \in 1..Len(e), i # 1 PROVE i - 1 \in 1..Len(q) /\ e[i] = q[i - 1]
  <2>1. i - 1 \in 1..Len(q) /\ (i - 1) + 1 = i
    BY <1>1, <1>2
  <2> QED BY <1>1, <2>1
<1>3. 1 \in 1..Len(e) /\ \A i \in 1..Len(q) : i + 1 \in 1..Len(e) /\ i + 1 # 1
  BY <1>1
<1>4. CASE x \in T
  <2>1. \A i \in 1..Len(e) : e[i] \in T <=> i = 1
    BY <1>1, <1>2, <1>4 DEF Once
  <2> QED BY <1>3, <1>4, <2>1 DEF Once, e
<1>5. CASE x \notin T /\ f
  <2>1. PICK k \in 1..Len(q) : \A i \in 1..Len(q) : q[i] \in T <=> i = k
    BY <1>5 DEF Once
  <2>2. ASSUME NEW i \in 1..Len(e) PROVE e[i] \in T <=> i = k + 1
    <3>1. CASE i = 1
      BY <1>1, <1>3, <1>5, <2>1, <3>1
    <3>2. CASE i # 1
      <4>1. i - 1 \in 1..Len(q) /\ e[i] = q[i - 1]
        BY <1>2, <3>2
      <4>2. i - 1 = k <=> i = k + 1
        BY <1>1
      <4> QED BY <2>1, <4>1, <4>2
    <3> QED BY <3>1, <3>2
  <2> QED BY <1>3, <1>5, <2>1, <2>2 DEF Once, e
<1>6. CASE x \notin T /\ ~f
  <2>1. \A i \in 1..Len(e) : e[i] \notin T
    BY <1>1, <1>2, <1>6 DEF Once
  <2> QED BY <1>6, <2>1 DEF Once, e
<1> QED BY <1>4, <1>5, <1>6

-----------------------------------------------------------------------------
(* How packets move along the line *)

LEMMA LineTaken ==
  ASSUME NEW H, NEW W, NEW P, NEW I, NEW Q, NEW S, NEW A, NEW G, Line(H, W, P, I, Q, S, A, G),
         NEW n \in Nat \ {0}, \A m \in A : m < n
  PROVE  Line(H, W, P, I, Q, S \cup {n}, A \cup {n}, G)
<1>1. n \notin A
  OBVIOUS
<1> QED BY ZenonT(40), <1>1 DEF Line, Before

LEMMA LineToQueue ==
  ASSUME NEW H, NEW W, NEW P, NEW I, NEW Q, NEW S, NEW A, NEW G, Line(H, W, P, I, Q, S, A, G),
         NEW n \in S, NEW R, S = R \cup {n}, \A m \in R : n < m
  PROVE  Line(H, W, P, I, Q \cup {n}, R, A, G)
BY DEF Line, Before

LEMMA LineToIngress ==
  ASSUME NEW H, NEW W, NEW P, NEW I, NEW Q, NEW S, NEW A, NEW G, Line(H, W, P, I, Q, S, A, G),
         NEW n \in Q, NEW R, Q = R \cup {n}, \A m \in R : n < m
  PROVE  Line(H, W, P, I \cup {n}, R, S, A, G)
BY DEF Line, Before

LEMMA LineToPending ==
  ASSUME NEW H, NEW W, NEW P, NEW I, NEW Q, NEW S, NEW A, NEW G, Line(H, W, P, I, Q, S, A, G),
         NEW n \in I, NEW R, I = R \cup {n}, \A m \in R : n < m
  PROVE  Line(H, W, P \cup {n}, R, Q, S, A, G)
BY DEF Line, Before

LEMMA LineToWire ==
  ASSUME NEW H, NEW W, NEW P, NEW I, NEW Q, NEW S, NEW A, NEW G, Line(H, W, P, I, Q, S, A, G)
  PROVE  Line(H, W \cup P, {}, I, Q, S, A, G)
BY DEF Line, Before

LEMMA LineToPhone ==
  ASSUME NEW H, NEW W, NEW P, NEW I, NEW Q, NEW S, NEW A, NEW G, Line(H, W, P, I, Q, S, A, G),
         NEW n \in W, NEW R, W = R \cup {n}, \A m \in R : n < m
  PROVE  Line(H \cup {n}, R, P, I, Q, S, A, G)
BY DEF Line, Before

(* What is given up is at one place only. *)
LEMMA LineLost ==
  ASSUME NEW H, NEW W, NEW P, NEW I, NEW Q, NEW S, NEW A, NEW G, Line(H, W, P, I, Q, S, A, G),
         NEW X, NEW W1, NEW P1, NEW I1, NEW Q1, NEW S1,
         W1 = W \ X, P1 = P \ X, I1 = I \ X, Q1 = Q \ X, S1 = S \ X,
         X \subseteq W \cup P \cup I \cup Q \cup S
  PROVE  Line(H, W1, P1, I1, Q1, S1, A, G \cup X)
<1>1. A \subseteq Nat
  BY DEF Line
<1>2. \A n \in Nat : ~ (n < n)
  OBVIOUS
<1>3. \A n \in X : n \notin H
  BY <1>1, <1>2 DEF Line, Before
<1>4. H \cup W1 \cup P1 \cup I1 \cup Q1 \cup S1 \subseteq A \ (G \cup X)
  BY <1>3 DEF Line
<1>5. A \subseteq H \cup W1 \cup P1 \cup I1 \cup Q1 \cup S1 \cup (G \cup X)
  BY DEF Line
<1>6. G \cup X \subseteq A
  BY DEF Line
<1>7. /\ Before(H, W1 \cup P1 \cup I1 \cup Q1 \cup S1) /\ Before(W1, P1 \cup I1 \cup Q1 \cup S1)
      /\ Before(P1, I1 \cup Q1 \cup S1) /\ Before(I1, Q1 \cup S1) /\ Before(Q1, S1)
  BY DEF Line, Before
<1> QED BY <1>4, <1>5, <1>6, <1>7 DEF Line

(* Two places have nothing in common. *)
LEMMA LineApart ==
  ASSUME NEW H, NEW W, NEW P, NEW I, NEW Q, NEW S, NEW A, NEW G, Line(H, W, P, I, Q, S, A, G)
  PROVE  /\ W \cap (P \cup I \cup Q \cup S) = {} /\ P \cap (I \cup Q \cup S) = {}
         /\ I \cap (Q \cup S) = {} /\ Q \cap S = {}
<1>1. A \subseteq Nat /\ H \cup W \cup P \cup I \cup Q \cup S \subseteq A
  BY DEF Line
<1>2. \A n \in Nat : ~ (n < n)
  OBVIOUS
<1>3. W \cap (P \cup I \cup Q \cup S) = {}
  BY <1>1, <1>2 DEF Line, Before
<1>4. P \cap (I \cup Q \cup S) = {}
  BY <1>1, <1>2 DEF Line, Before
<1>5. I \cap (Q \cup S) = {}
  BY <1>1, <1>2 DEF Line, Before
<1>6. Q \cap S = {}
  BY <1>1, <1>2 DEF Line, Before
<1> QED BY <1>3, <1>4, <1>5, <1>6

(* A queue takes the next packet and drops the packets X. *)
LEMMA LineToQueueFull ==
  ASSUME NEW H, NEW W, NEW P, NEW I, NEW Q, NEW S, NEW A, NEW G, Line(H, W, P, I, Q, S, A, G),
         NEW n \in S, NEW R, S = R \cup {n}, \A m \in R : n < m, NEW X, X \subseteq Q
  PROVE  Line(H, W, P, I, (Q \ X) \cup {n}, R, A, G \cup X)
<1> DEFINE Q1 == Q \ X
<1>1. X \cap (W \cup P \cup I \cup S) = {}
  BY LineApart
<1>2. W = W \ X /\ P = P \ X /\ I = I \ X /\ S = S \ X
  BY <1>1
<1>3. Line(H, W, P, I, Q1, S, A, G \cup X)
  BY <1>2, LineLost
<1> HIDE DEF Q1
<1>4. Line(H, W, P, I, Q1 \cup {n}, R, A, G \cup X)
  BY <1>3, LineToQueue
<1> QED BY <1>4 DEF Q1

LEMMA LineToIngressFull ==
  ASSUME NEW H, NEW W, NEW P, NEW I, NEW Q, NEW S, NEW A, NEW G, Line(H, W, P, I, Q, S, A, G),
         NEW n \in Q, NEW R, Q = R \cup {n}, \A m \in R : n < m, NEW X, X \subseteq I
  PROVE  Line(H, W, P, (I \ X) \cup {n}, R, S, A, G \cup X)
<1> DEFINE I1 == I \ X
<1>1. X \cap (W \cup P \cup Q \cup S) = {}
  BY LineApart
<1>2. W = W \ X /\ P = P \ X /\ Q = Q \ X /\ S = S \ X
  BY <1>1
<1>3. Line(H, W, P, I1, Q, S, A, G \cup X)
  BY <1>2, LineLost
<1> HIDE DEF I1
<1>4. Line(H, W, P, I1 \cup {n}, R, S, A, G \cup X)
  BY <1>3, LineToIngress
<1> QED BY <1>4 DEF I1

LEMMA LineSocketLost ==
  ASSUME NEW H, NEW W, NEW P, NEW I, NEW Q, NEW S, NEW A, NEW G, Line(H, W, P, I, Q, S, A, G),
         NEW X, X \subseteq S
  PROVE  Line(H, W, P, I, Q, S \ X, A, G \cup X)
<1>1. X \cap (W \cup P \cup I \cup Q) = {}
  BY LineApart
<1>2. W = W \ X /\ P = P \ X /\ I = I \ X /\ Q = Q \ X
  BY <1>1
<1> QED BY <1>2, LineLost

LEMMA LineQueueLost ==
  ASSUME NEW H, NEW W, NEW P, NEW I, NEW Q, NEW S, NEW A, NEW G, Line(H, W, P, I, Q, S, A, G),
         NEW X, X \subseteq Q
  PROVE  Line(H, W, P, I, Q \ X, S, A, G \cup X)
<1>1. X \cap (W \cup P \cup I \cup S) = {}
  BY LineApart
<1>2. W = W \ X /\ P = P \ X /\ I = I \ X /\ S = S \ X
  BY <1>1
<1> QED BY <1>2, LineLost

LEMMA LinePendingLost ==
  ASSUME NEW H, NEW W, NEW P, NEW I, NEW Q, NEW S, NEW A, NEW G, Line(H, W, P, I, Q, S, A, G),
         NEW X, X \subseteq P
  PROVE  Line(H, W, P \ X, I, Q, S, A, G \cup X)
<1>1. X \cap (W \cup I \cup Q \cup S) = {}
  BY LineApart
<1>2. W = W \ X /\ I = I \ X /\ Q = Q \ X /\ S = S \ X
  BY <1>1
<1> QED BY <1>2, LineLost

LEMMA LineWireLost ==
  ASSUME NEW H, NEW W, NEW P, NEW I, NEW Q, NEW S, NEW A, NEW G, Line(H, W, P, I, Q, S, A, G),
         NEW X, X \subseteq W
  PROVE  Line(H, W \ X, P, I, Q, S, A, G \cup X)
<1>1. X \cap (P \cup I \cup Q \cup S) = {}
  BY LineApart
<1>2. P = P \ X /\ I = I \ X /\ Q = Q \ X /\ S = S \ X
  BY <1>1
<1> QED BY <1>2, LineLost

-----------------------------------------------------------------------------
(* The steps of the radio *)

LEMMA RangeStep ==
  ASSUME RadioInv, RangeInv, [Next]_vars
  PROVE  RangeInv'
<1>0. RadioOK /\ MaxPackets \in Nat /\ Width \in Nat \ {0}
  BY MicrophoneAssumption DEF RadioInv
<1>1. CASE AccessorySends
  BY <1>0, <1>1 DEF AccessorySends, RangeInv, RadioOK
<1>2. ASSUME NEW n \in Audio, ReceivePacket(n) PROVE RangeInv'
  <2>1. n \in 1..sent /\ window' = Admit(n) /\ seen' = seen \cup {n} /\ sent' = sent /\ ~Refuses(n)
    BY <1>2 DEF ReceivePacket
  <2>2. window'.highest \in 0..sent /\ window'.bits \subseteq 0..(Width - 1)
    <3>1. CASE ~window.have
      BY <1>0, <2>1, <3>1 DEF Admit
    <3>2. CASE window.have /\ n > window.highest
      <4> DEFINE bits == {0} \cup {b \in 0..(Width - 1) : b - (n - window.highest) \in window.bits}
      <4>1. window' = [have |-> TRUE, highest |-> n, bits |-> bits]
        BY <2>1, <3>2 DEF Admit
      <4>2. bits \subseteq 0..(Width - 1)
        BY <1>0
      <4> HIDE DEF bits
      <4> QED BY <1>0, <2>1, <4>1, <4>2
    <3>3. CASE window.have /\ ~(n > window.highest)
      <4> DEFINE d == window.highest - n
      <4>1. window' = [window EXCEPT !.bits = @ \cup {d}]
        BY <2>1, <3>3 DEF Admit
      <4>2. d \in 0..(Width - 1)
        BY <1>0, <2>1, <3>3 DEF Refuses, RadioOK
      <4> HIDE DEF d
      <4>3. window'.highest = window.highest /\ window'.bits = window.bits \cup {d}
        BY <1>0, <4>1 DEF RadioOK
      <4> QED BY <4>2, <4>3 DEF RangeInv
    <3> QED BY <3>1, <3>2, <3>3
  <2> QED BY <2>1, <2>2 DEF RangeInv
<1>3. ASSUME UNCHANGED radio PROVE RangeInv'
  BY <1>3 DEF radio, RangeInv
<1>4. CASE SendMicrophoneAudio \/ IpcLoses \/ IoMoves \/ Stop
  BY <1>3, <1>4 DEF SendMicrophoneAudio, IpcLoses, IoMoves, DrainTake, DrainRest,
                    DrainIngress, OnAck, OnOpenRequest, Stop, radio
<1>5. CASE (\E id \in {0, 1} : PhoneRequests(id)) \/ PhoneHears \/ Unplug
  BY <1>3, <1>5 DEF PhoneRequests, PhoneHears, Unplug, radio
<1>6. CASE UNCHANGED vars
  BY <1>3, <1>6 DEF vars, radio
<1> QED BY <1>1, <1>2, <1>4, <1>5, <1>6 DEF Next

(* The invariant of everything behind the window *)
QueuesInv == PathOK /\ DrainInv /\ OrderedQueues /\ PendingInv /\ LineInv

LEMMA QueuesSame ==
  ASSUME QueuesInv, UNCHANGED <<passed, ipc, hub, mic, io, wire, heard, gone>>
  PROVE  QueuesInv'
<1>1. PathOK' /\ DrainInv' /\ OrderedQueues' /\ PendingInv'
  BY DEF QueuesInv, PathOK, DrainInv, OrderedQueues, PendingInv
<1>2. LineInv'
  BY DEF QueuesInv, LineInv
<1> QED BY <1>1, <1>2 DEF QueuesInv

(* A packet gets the next number. *)
LEMMA ReceivePacketKeeps ==
  ASSUME RadioInv, QueuesInv, NEW n \in Audio, ReceivePacket(n)
  PROVE  QueuesInv'
<1>0. PathOK /\ DrainInv /\ OrderedQueues /\ PendingInv /\ LineInv /\ passed \in Seq(Nat)
  BY DEF QueuesInv, RadioInv, RadioOK
<1>1. UNCHANGED <<hub, mic, io, wire, heard, gone>>
  BY DEF ReceivePacket, link
<1>2. CASE n \in Odd
  BY <1>1, <1>2, QueuesSame DEF ReceivePacket
<1>3. CASE n \notin Odd
  <2> DEFINE x == Len(passed) + 1
  <2>1. passed' = Append(passed, n) /\ ipc' = Append(ipc, x)
    BY <1>3 DEF ReceivePacket
  <2>2. n \in Nat
    BY MicrophoneAssumption DEF Audio
  <2>3. DOMAIN passed = 1..Len(passed) /\ Len(passed) \in Nat
    BY <1>0
  <2>4. DOMAIN passed' = 1..x
    BY <1>0, <2>1, <2>2
  <2>5. x \in Nat \ {0} /\ \A m \in DOMAIN passed : m < x
    BY <2>3
  <2>6. DOMAIN passed' = DOMAIN passed \cup {x}
    BY <2>3, <2>4
  <2> HIDE DEF x
  <2>7. Elements(ipc) \subseteq DOMAIN passed
    BY <1>0 DEF LineInv, Line
  <2>8. ipc' \in Seq(Nat) /\ Elements(ipc') = Elements(ipc) \cup {x} /\ Increasing(ipc')
    BY <1>0, <2>1, <2>5, <2>7, ElementsAppend DEF PathOK, OrderedQueues
  <2>9. PathOK' /\ DrainInv' /\ OrderedQueues' /\ PendingInv'
    BY <1>0, <1>1, <2>8 DEF PathOK, DrainInv, OrderedQueues, PendingInv
  <2>10. Line(Elements(heard), Elements(wire), InPending(mic), Elements(mic.ingress),
              Elements(hub.queue), Elements(ipc) \cup {x}, DOMAIN passed \cup {x}, gone)
    BY <1>0, <2>5, LineTaken DEF LineInv
  <2>11. LineInv'
    BY <1>1, <2>6, <2>8, <2>10 DEF LineInv
  <2> QED BY <2>9, <2>11 DEF QueuesInv
<1> QED BY <1>2, <1>3

-----------------------------------------------------------------------------
(* The steps of WiredReceiver::Impl *)

LEMMA IpcLosesKeeps ==
  ASSUME QueuesInv, IpcLoses
  PROVE  QueuesInv'
<1>0. PathOK /\ DrainInv /\ OrderedQueues /\ PendingInv /\ LineInv
  BY DEF QueuesInv
<1> DEFINE n == Head(ipc)
<1>1. /\ ipc # <<>> /\ ipc' = Tail(ipc) /\ gone' = gone \cup {n}
      /\ UNCHANGED <<passed, hub, mic, io, wire, heard>>
  BY DEF IpcLoses, radio, link
<1>2. /\ ipc' \in Seq(Nat) /\ Increasing(ipc') /\ n \in Nat
      /\ Elements(ipc) = Elements(ipc') \cup {n}
      /\ \A m \in Elements(ipc') : m \in Nat /\ n < m
  BY <1>0, <1>1, ElementsTail DEF PathOK, OrderedQueues
<1>3. PathOK' /\ DrainInv' /\ OrderedQueues' /\ PendingInv'
  BY <1>0, <1>1, <1>2 DEF PathOK, DrainInv, OrderedQueues, PendingInv
<1> HIDE DEF n
<1>4. {n} \subseteq Elements(ipc) /\ Elements(ipc') = Elements(ipc) \ {n}
  BY <1>2
<1>5. Line(Elements(heard), Elements(wire), InPending(mic), Elements(mic.ingress),
           Elements(hub.queue), Elements(ipc) \ {n}, DOMAIN passed, gone \cup {n})
  BY <1>0, <1>4, LineSocketLost DEF LineInv
<1>6. LineInv'
  BY <1>1, <1>4, <1>5 DEF LineInv
<1> QED BY <1>3, <1>6 DEF QueuesInv

LEMMA SendMicrophoneAudioKeeps ==
  ASSUME QueuesInv, SendMicrophoneAudio
  PROVE  QueuesInv'
<1>0. PathOK /\ DrainInv /\ OrderedQueues /\ PendingInv /\ LineInv
  BY DEF QueuesInv
<1> DEFINE n == Head(ipc)
           q == hub.queue
<1>1. /\ ipc # <<>> /\ ipc' = Tail(ipc)
      /\ UNCHANGED <<passed, mic, wire, heard>>
  BY DEF SendMicrophoneAudio, radio, link
<1>2. /\ ipc' \in Seq(Nat) /\ Increasing(ipc') /\ n \in Nat
      /\ Elements(ipc) = Elements(ipc') \cup {n}
      /\ \A m \in Elements(ipc') : m \in Nat /\ n < m
  BY <1>0, <1>1, ElementsTail DEF PathOK, OrderedQueues
<1>3. n \in Elements(ipc)
  BY <1>2
<1>4. CASE ~ hub.running
  <2>1. gone' = gone \cup {n} /\ UNCHANGED <<hub, io>>
    BY <1>4 DEF SendMicrophoneAudio
  <2>2. PathOK' /\ DrainInv' /\ OrderedQueues' /\ PendingInv'
    BY <1>0, <1>1, <1>2, <2>1 DEF PathOK, DrainInv, OrderedQueues, PendingInv
  <2> HIDE DEF n
  <2>3. {n} \subseteq Elements(ipc) /\ Elements(ipc') = Elements(ipc) \ {n}
    BY <1>2
  <2>4. Line(Elements(heard), Elements(wire), InPending(mic), Elements(mic.ingress),
             Elements(hub.queue), Elements(ipc) \ {n}, DOMAIN passed, gone \cup {n})
    BY <1>0, <2>3, LineSocketLost DEF LineInv
  <2>5. LineInv'
    BY <1>1, <2>1, <2>3, <2>4 DEF LineInv
  <2> QED BY <2>2, <2>5 DEF QueuesInv
<1>5. CASE hub.running
  <2>1. /\ hub' = [hub EXCEPT !.queue = Push(q, n), !.posted = TRUE]
        /\ gone' = gone \cup Dropped(q)
        /\ IF hub.posted THEN UNCHANGED io ELSE io' = Append(io, "hub")
    BY <1>5 DEF SendMicrophoneAudio, Post
  <2>2. q \in Seq(Nat) /\ Increasing(q) /\ hub \in HubType
    BY <1>0 DEF PathOK, HubType, OrderedQueues
  <2>3. \A m \in Elements(q) : m < n
    BY <1>0, <1>3 DEF LineInv, Line, Before
  <2> HIDE DEF n
  <2>4. /\ Push(q, n) \in Seq(Nat) /\ Increasing(Push(q, n)) /\ Push(q, n) # <<>>
        /\ Dropped(q) \subseteq Elements(q)
        /\ Elements(Push(q, n)) = (Elements(q) \ Dropped(q)) \cup {n}
    BY <1>2, <2>2, <2>3, ElementsPush
  <2>5. /\ hub' \in HubType /\ hub'.queue = Push(q, n) /\ hub'.posted = TRUE
        /\ hub'.running = hub.running
    <3> HIDE DEF q
    <3> QED BY <2>1, <2>2, <2>4 DEF HubType
  <2>6. io \in Seq(Tasks) /\ "hub" \in Tasks
    BY <1>0 DEF PathOK, Tasks
  <2>7. io' \in Seq(Tasks)
    BY <2>1, <2>6
  <2>8. PathOK' /\ OrderedQueues' /\ PendingInv'
    BY <1>0, <1>1, <1>2, <2>4, <2>5, <2>7 DEF PathOK, OrderedQueues, PendingInv
  <2>9. DrainInv'
    <3>1. /\ Once(io, {"hub", "hubRest"}, hub.posted) /\ Once(io, {"ingress"}, mic.posted)
          /\ mic.ingress # <<>> => mic.posted
          /\ hub.posted \in BOOLEAN /\ mic.posted \in BOOLEAN
      BY <1>0, <1>5 DEF DrainInv, PathOK, HubType, MicType
    <3>2. CASE hub.posted
      BY <1>1, <2>1, <2>5, <3>1, <3>2 DEF DrainInv
    <3>3. CASE ~ hub.posted
      <4>1. io' = Append(io, "hub")
        BY <2>1, <3>3
      <4>2. Once(Append(io, "hub"), {"hub", "hubRest"}, hub.posted \/ "hub" \in {"hub", "hubRest"})
        BY <2>6, <3>1, <3>3, OnceAppend
      <4>3. Once(Append(io, "hub"), {"ingress"}, mic.posted \/ "hub" \in {"ingress"})
        BY <2>6, <3>1, OnceAppend
      <4>4. (hub.posted \/ "hub" \in {"hub", "hubRest"}) = TRUE
        BY <3>3
      <4>5. (mic.posted \/ "hub" \in {"ingress"}) = mic.posted
        BY <3>1
      <4> QED BY <1>1, <2>5, <3>1, <4>1, <4>2, <4>3, <4>4, <4>5 DEF DrainInv
    <3> QED BY <3>2, <3>3
  <2>10. Line(Elements(heard), Elements(wire), InPending(mic), Elements(mic.ingress),
              (Elements(q) \ Dropped(q)) \cup {n}, Elements(ipc'), DOMAIN passed,
              gone \cup Dropped(q))
    BY <1>0, <1>2, <1>3, <2>4, LineToQueueFull DEF LineInv
  <2>11. LineInv'
    BY <1>1, <2>1, <2>4, <2>5, <2>10 DEF LineInv
  <2> QED BY <2>8, <2>9, <2>11 DEF QueuesInv
<1> QED BY <1>4, <1>5

LEMMA StopKeeps ==
  ASSUME QueuesInv, Stop
  PROVE  QueuesInv'
<1>0. PathOK /\ DrainInv /\ OrderedQueues /\ PendingInv /\ LineInv
  BY DEF QueuesInv
<1>1. /\ hub' = [hub EXCEPT !.running = FALSE, !.queue = <<>>, !.posted = FALSE]
      /\ gone' = gone \cup Elements(hub.queue) /\ hub \in HubType
      /\ UNCHANGED <<passed, ipc, mic, io, wire, heard>>
  BY <1>0 DEF Stop, radio, link, PathOK
<1>2. hub' \in HubType /\ hub'.queue = <<>> /\ ~ hub'.running
  <2>1. <<>> \in Seq(Nat)
    OBVIOUS
  <2> QED BY <1>1, <2>1 DEF HubType
<1>3. PathOK' /\ DrainInv' /\ OrderedQueues' /\ PendingInv'
  <2>1. Increasing(<<>>)
    BY DEF Increasing
  <2> QED BY <1>0, <1>1, <1>2, <2>1 DEF PathOK, DrainInv, OrderedQueues, PendingInv
<1>4. Line(Elements(heard), Elements(wire), InPending(mic), Elements(mic.ingress),
           Elements(hub.queue) \ Elements(hub.queue), Elements(ipc), DOMAIN passed,
           gone \cup Elements(hub.queue))
  BY <1>0, LineQueueLost DEF LineInv
<1>5. Elements(hub'.queue) = Elements(hub.queue) \ Elements(hub.queue)
  BY <1>2, ElementsOfEmpty
<1>6. LineInv'
  BY <1>1, <1>4, <1>5 DEF LineInv
<1> QED BY <1>3, <1>6 DEF QueuesInv

LEMMA DrainRestKeeps ==
  ASSUME QueuesInv, DrainRest
  PROVE  QueuesInv'
<1>0. PathOK /\ DrainInv /\ OrderedQueues /\ PendingInv /\ LineInv
  BY DEF QueuesInv
<1>1. /\ hub.running /\ io # <<>> /\ Head(io) = "hubRest"
      /\ io \in Seq(Tasks) /\ hub \in HubType /\ mic \in MicType
      /\ UNCHANGED <<passed, ipc, mic, wire, heard, gone>>
  BY <1>0 DEF DrainRest, Runs, radio, link, PathOK
<1>2. /\ Once(io, {"hub", "hubRest"}, hub.posted) /\ Once(io, {"ingress"}, mic.posted)
      /\ mic.ingress # <<>> => mic.posted
      /\ hub.posted \in BOOLEAN /\ mic.posted \in BOOLEAN
  BY <1>0, <1>1 DEF DrainInv, HubType, MicType
<1>3. hub.posted /\ Once(Tail(io), {"hub", "hubRest"}, FALSE)
  <2>1. /\ Head(io) \in {"hub", "hubRest"} => hub.posted
        /\ Once(Tail(io), {"hub", "hubRest"}, hub.posted /\ Head(io) \notin {"hub", "hubRest"})
    BY <1>1, <1>2, OnceTail
  <2>2. Head(io) \in {"hub", "hubRest"}
    BY <1>1
  <2>3. (hub.posted /\ Head(io) \notin {"hub", "hubRest"}) = FALSE
    BY <2>2
  <2> QED BY <2>1, <2>2, <2>3
<1>4. Once(Tail(io), {"ingress"}, mic.posted)
  <2>1. Once(Tail(io), {"ingress"}, mic.posted /\ Head(io) \notin {"ingress"})
    BY <1>1, <1>2, OnceTail
  <2>2. (mic.posted /\ Head(io) \notin {"ingress"}) = mic.posted
    BY <1>1, <1>2
  <2> QED BY <2>1, <2>2
<1>5. Tail(io) \in Seq(Tasks) /\ "hub" \in Tasks
  BY <1>1 DEF Tasks
<1>6. CASE hub.queue = <<>>
  <2>1. hub' = [hub EXCEPT !.posted = FALSE] /\ io' = Tail(io)
    BY <1>6 DEF DrainRest
  <2>2. hub' \in HubType /\ hub'.queue = hub.queue /\ hub'.posted = FALSE
    BY <1>1, <2>1 DEF HubType
  <2>3. PathOK' /\ OrderedQueues' /\ PendingInv' /\ LineInv'
    BY <1>0, <1>1, <1>5, <2>1, <2>2 DEF PathOK, OrderedQueues, PendingInv, LineInv
  <2>4. DrainInv'
    BY <1>1, <1>2, <1>3, <1>4, <1>6, <2>1, <2>2 DEF DrainInv
  <2> QED BY <2>3, <2>4 DEF QueuesInv
<1>7. CASE hub.queue # <<>>
  <2>1. io' = Append(Tail(io), "hub") /\ UNCHANGED hub
    BY <1>7 DEF DrainRest
  <2>2. io' \in Seq(Tasks)
    BY <1>5, <2>1
  <2>3. PathOK' /\ OrderedQueues' /\ PendingInv' /\ LineInv'
    BY <1>0, <1>1, <2>1, <2>2 DEF PathOK, OrderedQueues, PendingInv, LineInv
  <2>4. DrainInv'
    <3>1. Once(Append(Tail(io), "hub"), {"hub", "hubRest"}, FALSE \/ "hub" \in {"hub", "hubRest"})
      BY <1>3, <1>5, OnceAppend
    <3>2. Once(Append(Tail(io), "hub"), {"ingress"}, mic.posted \/ "hub" \in {"ingress"})
      BY ZenonT(40), <1>2, <1>4, <1>5, OnceAppend
    <3>3. (FALSE \/ "hub" \in {"hub", "hubRest"}) = hub.posted
      BY <1>2, <1>3
    <3>4. (mic.posted \/ "hub" \in {"ingress"}) = mic.posted
      BY <1>2
    <3> QED BY <1>1, <1>2, <1>3, <2>1, <3>1, <3>2, <3>3, <3>4 DEF DrainInv
  <2> QED BY <2>3, <2>4 DEF QueuesInv
<1> QED BY <1>6, <1>7

(* The first part of a drain: a packet moves on to the session. *)
LEMMA DrainTakeKeeps ==
  ASSUME QueuesInv, DrainTake
  PROVE  QueuesInv'
<1>0. PathOK /\ DrainInv /\ OrderedQueues /\ PendingInv /\ LineInv
  BY DEF QueuesInv
<1>1. /\ hub.running /\ io # <<>> /\ Head(io) = "hub"
      /\ io \in Seq(Tasks) /\ hub \in HubType /\ mic \in MicType
      /\ UNCHANGED <<passed, ipc, wire, heard>>
  BY <1>0 DEF DrainTake, Runs, radio, link, PathOK
<1>2. /\ Once(io, {"hub", "hubRest"}, hub.posted) /\ Once(io, {"ingress"}, mic.posted)
      /\ mic.ingress # <<>> => mic.posted
      /\ hub.posted \in BOOLEAN /\ mic.posted \in BOOLEAN
  BY <1>0, <1>1 DEF DrainInv, HubType, MicType
<1>3. hub.posted /\ Once(Tail(io), {"hub", "hubRest"}, FALSE)
  <2>1. /\ Head(io) \in {"hub", "hubRest"} => hub.posted
        /\ Once(Tail(io), {"hub", "hubRest"}, hub.posted /\ Head(io) \notin {"hub", "hubRest"})
    BY <1>1, <1>2, OnceTail
  <2>2. Head(io) \in {"hub", "hubRest"}
    BY <1>1
  <2>3. (hub.posted /\ Head(io) \notin {"hub", "hubRest"}) = FALSE
    BY <2>2
  <2> QED BY <2>1, <2>2, <2>3
<1>4. Once(Tail(io), {"ingress"}, mic.posted)
  <2>1. Once(Tail(io), {"ingress"}, mic.posted /\ Head(io) \notin {"ingress"})
    BY <1>1, <1>2, OnceTail
  <2>2. (mic.posted /\ Head(io) \notin {"ingress"}) = mic.posted
    BY <1>1, <1>2
  <2> QED BY <2>1, <2>2
<1>5. Tail(io) \in Seq(Tasks) /\ "hubRest" \in Tasks /\ "ingress" \in Tasks
  BY <1>1 DEF Tasks
<1>6. CASE hub.queue = <<>>
  <2>1. hub' = [hub EXCEPT !.posted = FALSE] /\ io' = Tail(io) /\ UNCHANGED <<mic, gone>>
    BY <1>6 DEF DrainTake
  <2>2. hub' \in HubType /\ hub'.queue = hub.queue /\ hub'.posted = FALSE
    BY <1>1, <2>1 DEF HubType
  <2>3. PathOK' /\ OrderedQueues' /\ PendingInv' /\ LineInv'
    BY <1>0, <1>1, <1>5, <2>1, <2>2 DEF PathOK, OrderedQueues, PendingInv, LineInv
  <2>4. DrainInv'
    BY <1>1, <1>2, <1>3, <1>4, <1>6, <2>1, <2>2 DEF DrainInv
  <2> QED BY <2>3, <2>4 DEF QueuesInv
<1>7. CASE hub.queue # <<>>
  <2> DEFINE n == Head(hub.queue)
             q == Tail(hub.queue)
             r == <<"hubRest">> \o Tail(io)
  <2>1. /\ q \in Seq(Nat) /\ Increasing(q) /\ n \in Nat
        /\ Elements(hub.queue) = Elements(q) \cup {n}
        /\ \A m \in Elements(q) : m \in Nat /\ n < m
    BY <1>0, <1>1, <1>7, ElementsTail DEF HubType, OrderedQueues
  <2>2. hub' = [hub EXCEPT !.queue = q]
    BY <1>7 DEF DrainTake
  <2>3. r \in Seq(Tasks) /\ Once(r, {"hub", "hubRest"}, TRUE) /\ Once(r, {"ingress"}, mic.posted)
    <3>1. r \in Seq(Tasks)
      BY <1>5, FrontParts
    <3>2. Once(r, {"hub", "hubRest"}, FALSE \/ "hubRest" \in {"hub", "hubRest"})
      BY <1>3, <1>5, OnceFront
    <3>3. Once(r, {"ingress"}, mic.posted \/ "hubRest" \in {"ingress"})
      BY <1>2, <1>4, <1>5, OnceFront
    <3>4. (FALSE \/ "hubRest" \in {"hub", "hubRest"}) = TRUE
      OBVIOUS
    <3>5. (mic.posted \/ "hubRest" \in {"ingress"}) = mic.posted
      BY <1>2
    <3> HIDE DEF r
    <3> QED BY <3>1, <3>2, <3>3, <3>4, <3>5
  <2>4. io' = r \o (IF hub.attached /\ ~mic.posted THEN <<"ingress">> ELSE <<>>)
    BY <1>7 DEF DrainTake
  <2>5. n \in Elements(hub.queue)
    BY <2>1
  <2> HIDE DEF r, q
  <2>6. hub' \in HubType /\ hub'.queue = q /\ hub'.posted = hub.posted
    BY <1>1, <2>1, <2>2 DEF HubType
  <2>7. CASE ~ hub.attached
    <3>1. gone' = gone \cup {n} /\ UNCHANGED mic
      BY <1>7, <2>7 DEF DrainTake
    <3>2. io' = r
      BY <2>3, <2>4, <2>7
    <3>3. PathOK' /\ OrderedQueues' /\ PendingInv'
      BY <1>0, <1>1, <2>1, <2>3, <2>6, <3>1, <3>2 DEF PathOK, OrderedQueues, PendingInv
    <3>4. DrainInv'
      BY <1>2, <1>3, <2>3, <2>6, <3>1, <3>2 DEF DrainInv
    <3> HIDE DEF n
    <3>5. {n} \subseteq Elements(hub.queue) /\ Elements(hub'.queue) = Elements(hub.queue) \ {n}
      BY <2>1, <2>6
    <3>6. Line(Elements(heard), Elements(wire), InPending(mic), Elements(mic.ingress),
               Elements(hub.queue) \ {n}, Elements(ipc), DOMAIN passed, gone \cup {n})
      BY <1>0, <3>5, LineQueueLost DEF LineInv
    <3>7. LineInv'
      BY <1>1, <3>1, <3>5, <3>6 DEF LineInv
    <3> QED BY <3>3, <3>4, <3>7 DEF QueuesInv
  <2>8. CASE hub.attached
    <3> DEFINE g == mic.ingress
    <3>1. /\ mic' = [mic EXCEPT !.ingress = Push(g, n), !.posted = TRUE]
          /\ gone' = gone \cup Dropped(g)
      BY <1>7, <2>8 DEF DrainTake
    <3>2. g \in Seq(Nat) /\ Increasing(g)
      BY <1>0, <1>1 DEF MicType, OrderedQueues
    <3>3. \A m \in Elements(g) : m < n
      BY <1>0, <2>5 DEF LineInv, Line, Before
    <3> HIDE DEF n
    <3>4. /\ Push(g, n) \in Seq(Nat) /\ Increasing(Push(g, n)) /\ Push(g, n) # <<>>
          /\ Dropped(g) \subseteq Elements(g)
          /\ Elements(Push(g, n)) = (Elements(g) \ Dropped(g)) \cup {n}
      BY <2>1, <3>2, <3>3, ElementsPush
    <3>5. /\ mic' \in MicType /\ mic'.ingress = Push(g, n) /\ mic'.posted = TRUE
          /\ mic'.pending = mic.pending /\ mic'.inFlight = mic.inFlight
      <4> HIDE DEF g
      <4> QED BY <1>1, <3>1, <3>4 DEF MicType
    <3>6. io' \in Seq(Tasks) /\ Once(io', {"hub", "hubRest"}, TRUE) /\ Once(io', {"ingress"}, TRUE)
      <4>1. CASE mic.posted
        <5>1. io' = r
          BY <2>3, <2>4, <4>1
        <5>2. mic.posted = TRUE
          BY <1>2, <4>1
        <5> QED BY <2>3, <5>1, <5>2
      <4>2. CASE ~ mic.posted
        <5>1. io' = Append(r, "ingress")
          BY <1>5, <2>3, <2>4, <2>8, <4>2, AppendIsConcat
        <5>2. io' \in Seq(Tasks)
          BY <1>5, <2>3, <5>1
        <5>3. Once(Append(r, "ingress"), {"hub", "hubRest"}, TRUE \/ "ingress" \in {"hub", "hubRest"})
          BY <1>5, <2>3, OnceAppend
        <5>4. Once(Append(r, "ingress"), {"ingress"}, mic.posted \/ "ingress" \in {"ingress"})
          BY <1>2, <1>5, <2>3, <4>2, OnceAppend
        <5>5. /\ (TRUE \/ "ingress" \in {"hub", "hubRest"}) = TRUE
              /\ (mic.posted \/ "ingress" \in {"ingress"}) = TRUE
          BY <4>2
        <5> QED BY <5>1, <5>2, <5>3, <5>4, <5>5
      <4> QED BY <4>1, <4>2
    <3>7. PathOK' /\ OrderedQueues' /\ PendingInv'
      BY <1>0, <1>1, <2>1, <2>6, <3>4, <3>5, <3>6 DEF PathOK, OrderedQueues, PendingInv
    <3>8. DrainInv'
      <4>1. hub'.posted = TRUE
        BY <1>2, <1>3, <2>6
      <4> QED BY <3>5, <3>6, <4>1 DEF DrainInv
    <3>9. Line(Elements(heard), Elements(wire), InPending(mic),
               (Elements(g) \ Dropped(g)) \cup {n}, Elements(q), Elements(ipc), DOMAIN passed,
               gone \cup Dropped(g))
      BY <1>0, <2>1, <2>5, <3>4, LineToIngressFull DEF LineInv
    <3>10. LineInv'
      <4>1. InPending(mic)' = InPending(mic)
        BY <3>5 DEF InPending
      <4> QED BY <1>1, <2>6, <3>1, <3>4, <3>5, <3>9, <4>1 DEF LineInv
    <3> QED BY <3>7, <3>8, <3>10 DEF QueuesInv
  <2> QED BY <2>7, <2>8
<1> QED BY <1>6, <1>7

-----------------------------------------------------------------------------
(* The steps of MicrophoneSession *)


(* The packet n, next after the pending one, is sent, waits or is dropped. *)
LEMMA SendAudioLine ==
  ASSUME NEW m, m \in MicType, m.pending # 0 => m.inFlight, NEW n, n \in Nat \ {0},
         NEW H, NEW W, NEW R, NEW Q, NEW S, NEW A, NEW G,
         NEW T, T = InPending(m) \cup {n}, n \notin InPending(m), Line(H, W, T, R, Q, S, A, G),
         NEW a, a = SendAudio(m, n)
  PROVE  /\ a.mic \in MicType
         /\ a.mic.pending # 0 => a.mic.inFlight
         /\ a.mic.ingress = m.ingress /\ a.mic.posted = m.posted
         /\ Line(H, W \cup Elements(a.sends), InPending(a.mic), R, Q, S, A, G \cup a.gone)
<1>0. Elements(<<>>) = {} /\ Elements(<<n>>) = {n}
  <2>1. DOMAIN <<n>> = {1} /\ <<n>>[1] = n
    OBVIOUS
  <2> QED BY <2>1, ElementsOfEmpty DEF Elements
<1> DEFINE P == InPending(m)
<1>p. Line(H, W, P \cup {n}, R, Q, S, A, G) /\ n \notin P
  OBVIOUS
<1>1. CASE m.id = 0
  <2>1. a.mic = m /\ a.sends = <<>> /\ a.gone = {n}
    BY <1>1 DEF SendAudio
  <2> HIDE DEF P
  <2>2. P = (P \cup {n}) \ {n} /\ {n} \subseteq P \cup {n} /\ W \cup {} = W
    BY <1>p
  <2>3. Line(H, W, (P \cup {n}) \ {n}, R, Q, S, A, G \cup {n})
    BY <1>p, <2>2, LinePendingLost
  <2>4. Line(H, W \cup {}, P, R, Q, S, A, G \cup {n})
    BY <2>2, <2>3
  <2>5. InPending(a.mic) = P /\ Elements(a.sends) = {}
    BY <1>0, <2>1 DEF P
  <2>6. Line(H, W \cup Elements(a.sends), InPending(a.mic), R, Q, S, A, G \cup a.gone)
    BY <2>1, <2>4, <2>5
  <2> QED BY <2>1, <2>6
<1>2. CASE m.id # 0 /\ m.inFlight
  <2> DEFINE k == [m EXCEPT !.pending = n]
  <2>1. a.mic = k /\ a.sends = <<>> /\ a.gone = P
    BY <1>2 DEF SendAudio
  <2>2. k \in MicType /\ k.pending = n /\ k.inFlight /\ k.ingress = m.ingress /\ k.posted = m.posted
    BY <1>2 DEF MicType
  <2> HIDE DEF P, k
  <2>3. InPending(a.mic) = {n} /\ Elements(a.sends) = {}
    BY <1>0, <2>1, <2>2 DEF InPending
  <2>4. {n} = (P \cup {n}) \ P /\ P \subseteq P \cup {n} /\ W \cup {} = W
    BY <1>p
  <2>5. Line(H, W, (P \cup {n}) \ P, R, Q, S, A, G \cup P)
    BY <1>p, <2>4, LinePendingLost
  <2>6. Line(H, W \cup {}, {n}, R, Q, S, A, G \cup P)
    BY <2>4, <2>5
  <2>7. Line(H, W \cup Elements(a.sends), InPending(a.mic), R, Q, S, A, G \cup a.gone)
    BY <2>1, <2>3, <2>6
  <2> QED BY <2>1, <2>2, <2>7
<1>3. CASE m.id # 0 /\ ~ m.inFlight
  <2> DEFINE k == [m EXCEPT !.inFlight = TRUE]
  <2>1. a.mic = k /\ a.sends = <<n>> /\ a.gone = {}
    BY <1>3 DEF SendAudio
  <2>2. /\ k \in MicType /\ k.inFlight /\ k.ingress = m.ingress /\ k.posted = m.posted
        /\ k.pending = 0 /\ m.pending = 0
    BY <1>3 DEF MicType
  <2>3. P = {}
    BY <2>2 DEF InPending
  <2> HIDE DEF P, k
  <2>4. InPending(a.mic) = {} /\ Elements(a.sends) = {n}
    BY <1>0, <2>1, <2>2 DEF InPending
  <2>5. P \cup {n} = {n} /\ G \cup {} = G
    BY <2>3
  <2>6. Line(H, W, {n}, R, Q, S, A, G)
    BY <1>p, <2>5
  <2>7. Line(H, W \cup {n}, {}, R, Q, S, A, G)
    BY <2>6, LineToWire
  <2>8. Line(H, W \cup Elements(a.sends), InPending(a.mic), R, Q, S, A, G \cup a.gone)
    BY <2>1, <2>4, <2>5, <2>7
  <2> QED BY <2>1, <2>2, <2>8
<1> QED BY <1>1, <1>2, <1>3

(* What the session sends goes on the wire, or is lost with the phone. *)
LEMMA SendsLine ==
  ASSUME wire \in Seq(Nat), Increasing(wire), NEW n \in Nat \ {0},
         NEW s, s = <<>> \/ s = <<n>>, NEW x,
         NEW P, NEW R, NEW Q, NEW S, NEW A,
         \A k \in Elements(wire) : k < n,
         Line(Elements(heard), Elements(wire) \cup Elements(s), P, R, Q, S, A, gone \cup x),
         NEW w, NEW g,
         IF hub.attached THEN w = wire \o s /\ g = gone \cup x
                         ELSE g = gone \cup x \cup Elements(s) /\ w = wire
  PROVE  /\ w \in Seq(Nat) /\ Increasing(w)
         /\ Line(Elements(heard), Elements(w), P, R, Q, S, A, g)
<1>1. CASE s = <<>>
  <2>1. Elements(s) = {} /\ w = wire
    BY <1>1, ElementsOfEmpty
  <2>2. Elements(wire) \cup {} = Elements(wire) /\ (gone \cup x) \cup {} = gone \cup x
    OBVIOUS
  <2>3. g = gone \cup x
    BY <2>1, <2>2
  <2>4. Line(Elements(heard), Elements(wire), P, R, Q, S, A, g)
    BY <2>1, <2>2, <2>3
  <2> QED BY <2>1, <2>4
<1>2. CASE s = <<n>>
  <2>1. Elements(s) = {n}
    <3>1. DOMAIN <<n>> = {1} /\ <<n>>[1] = n
      OBVIOUS
    <3> QED BY <1>2, <3>1 DEF Elements
  <2>2. CASE hub.attached
    <3>1. w = Append(wire, n)
      BY <1>2, <2>2, AppendIsConcat
    <3>2. w \in Seq(Nat) /\ Increasing(w) /\ Elements(w) = Elements(wire) \cup {n}
      BY <3>1, ElementsAppend
    <3>3. Line(Elements(heard), Elements(w), P, R, Q, S, A, g)
      BY <2>1, <2>2, <3>2
    <3> QED BY <3>2, <3>3
  <2>3. CASE ~ hub.attached
    <3>1. w = wire /\ g = (gone \cup x) \cup {n}
      BY <2>1, <2>3
    <3>2. n \notin Elements(wire)
      OBVIOUS
    <3> DEFINE W == Elements(wire) \cup {n}
    <3>3. Elements(wire) = W \ {n} /\ {n} \subseteq W
      BY <3>2
    <3>4. Line(Elements(heard), W, P, R, Q, S, A, gone \cup x)
      BY <2>1
    <3> HIDE DEF W
    <3>5. Line(Elements(heard), W \ {n}, P, R, Q, S, A, (gone \cup x) \cup {n})
      BY <3>3, <3>4, LineWireLost
    <3>6. Line(Elements(heard), Elements(w), P, R, Q, S, A, g)
      BY <3>1, <3>3, <3>5
    <3> QED BY <3>1, <3>6
  <2> QED BY <2>2, <2>3
<1> QED BY <1>1, <1>2

(* MicrophoneSession::drain_audio takes the head of its queue. *)
LEMMA DrainIngressKeeps ==
  ASSUME QueuesInv, DrainIngress
  PROVE  QueuesInv'
<1>0. PathOK /\ DrainInv /\ OrderedQueues /\ PendingInv /\ LineInv
  BY DEF QueuesInv
<1>1. /\ hub.running /\ io # <<>> /\ Head(io) = "ingress"
      /\ io \in Seq(Tasks) /\ hub \in HubType /\ mic \in MicType
      /\ UNCHANGED <<passed, ipc, hub, heard>>
  BY <1>0 DEF DrainIngress, Runs, radio, PathOK
<1>2. /\ Once(io, {"hub", "hubRest"}, hub.posted) /\ Once(io, {"ingress"}, mic.posted)
      /\ hub.queue # <<>> => hub.posted
      /\ hub.posted \in BOOLEAN /\ mic.posted \in BOOLEAN
  BY <1>0, <1>1 DEF DrainInv, HubType, MicType
<1>3. Once(Tail(io), {"ingress"}, FALSE)
  <2>1. Once(Tail(io), {"ingress"}, mic.posted /\ Head(io) \notin {"ingress"})
    BY <1>1, <1>2, OnceTail
  <2>2. (mic.posted /\ Head(io) \notin {"ingress"}) = FALSE
    BY <1>1
  <2> QED BY <2>1, <2>2
<1>4. Once(Tail(io), {"hub", "hubRest"}, hub.posted)
  <2>1. Once(Tail(io), {"hub", "hubRest"}, hub.posted /\ Head(io) \notin {"hub", "hubRest"})
    BY <1>1, <1>2, OnceTail
  <2>2. (hub.posted /\ Head(io) \notin {"hub", "hubRest"}) = hub.posted
    BY <1>1, <1>2
  <2> QED BY <2>1, <2>2
<1>5. Tail(io) \in Seq(Tasks) /\ "ingress" \in Tasks
  BY <1>1 DEF Tasks
<1>6. CASE mic.ingress = <<>>
  <2>1. mic' = [mic EXCEPT !.posted = FALSE] /\ io' = Tail(io) /\ UNCHANGED <<wire, gone>>
    BY <1>6 DEF DrainIngress
  <2>2. /\ mic' \in MicType /\ mic'.ingress = mic.ingress /\ mic'.posted = FALSE
        /\ mic'.pending = mic.pending /\ mic'.inFlight = mic.inFlight
    BY <1>1, <2>1 DEF MicType
  <2>3. PathOK' /\ OrderedQueues' /\ PendingInv'
    BY <1>0, <1>1, <1>5, <2>1, <2>2 DEF PathOK, OrderedQueues, PendingInv
  <2>4. DrainInv'
    BY <1>1, <1>2, <1>3, <1>4, <1>6, <2>1, <2>2 DEF DrainInv
  <2>5. InPending(mic)' = InPending(mic)
    BY <2>2 DEF InPending
  <2>6. LineInv'
    BY <1>0, <1>1, <2>1, <2>2, <2>5 DEF LineInv
  <2> QED BY <2>3, <2>4, <2>6 DEF QueuesInv
<1>7. CASE mic.ingress # <<>>
  <2> DEFINE n == Head(mic.ingress)
             rest == Tail(mic.ingress)
             m == [mic EXCEPT !.ingress = rest, !.posted = rest # <<>>]
             a == SendAudio(m, n)
  <2>1. /\ mic' = a.mic /\ Sends(a)
        /\ io' = Tail(io) \o (IF rest = <<>> THEN <<>> ELSE <<"ingress">>)
    BY <1>7 DEF DrainIngress
  <2>2. /\ rest \in Seq(Nat) /\ Increasing(rest) /\ n \in Nat
        /\ Elements(mic.ingress) = Elements(rest) \cup {n}
        /\ \A k \in Elements(rest) : k \in Nat /\ n < k
    BY <1>0, <1>1, <1>7, ElementsTail DEF MicType, OrderedQueues
  <2>3. n \in Elements(mic.ingress)
    BY <2>2
  <2>4. /\ n \in Nat \ {0} /\ n \notin InPending(mic)
        /\ \A k \in Elements(wire) : k < n
    <3>1. n # 0
      BY <1>0, <2>3 DEF LineInv, Line
    <3>2. n \notin InPending(mic)
      BY <1>0, <2>3, LineApart DEF LineInv
    <3>3. \A k \in Elements(wire) : k < n
      BY <1>0, <2>3 DEF LineInv, Line, Before
    <3> QED BY <2>2, <3>1, <3>2, <3>3
  <2> HIDE DEF n
  <2>5. Line(Elements(heard), Elements(wire), InPending(mic) \cup {n}, Elements(rest),
             Elements(hub.queue), Elements(ipc), DOMAIN passed, gone)
    BY <1>0, <2>2, <2>3, LineToPending DEF LineInv
  <2>6. /\ m \in MicType /\ m.ingress = rest /\ m.posted = (rest # <<>>)
        /\ m.pending = mic.pending /\ m.inFlight = mic.inFlight
    <3> HIDE DEF rest
    <3> QED BY <1>1, <2>2 DEF MicType
  <2>7. InPending(m) = InPending(mic)
    BY <2>6 DEF InPending
  <2>8. m.pending # 0 => m.inFlight
    BY <1>0, <2>6 DEF PendingInv
  <2> HIDE DEF m, rest
  <2>9. a = SendAudio(m, n)
    OBVIOUS
  <2> HIDE DEF a
  <2>10. /\ a.mic \in MicType
         /\ a.mic.pending # 0 => a.mic.inFlight
         /\ a.mic.ingress = m.ingress /\ a.mic.posted = m.posted
         /\ Line(Elements(heard), Elements(wire) \cup Elements(a.sends), InPending(a.mic),
                 Elements(rest), Elements(hub.queue), Elements(ipc), DOMAIN passed,
                 gone \cup a.gone)
    <3>1. Line(Elements(heard), Elements(wire), InPending(m) \cup {n}, Elements(rest),
               Elements(hub.queue), Elements(ipc), DOMAIN passed, gone)
      BY <2>5, <2>7
    <3>2. n \notin InPending(m)
      BY <2>4, <2>7
    <3> DEFINE T == InPending(m) \cup {n}
    <3>3. Line(Elements(heard), Elements(wire), T, Elements(rest),
               Elements(hub.queue), Elements(ipc), DOMAIN passed, gone)
      BY <3>1
    <3>4. T = InPending(m) \cup {n}
      OBVIOUS
    <3>5. m \in MicType
      BY <2>6
    <3> HIDE DEF T
    <3>6. a.mic \in MicType
      BY <2>4, <2>8, <2>9, <3>2, <3>3, <3>4, <3>5, SendAudioLine
    <3>9. a.mic.ingress = m.ingress /\ a.mic.posted = m.posted
      BY <2>9, <3>5 DEF SendAudio, MicType
    <3>7. a.mic.pending # 0 => a.mic.inFlight
      BY <2>4, <2>8, <2>9, <3>2, <3>3, <3>4, <3>5, SendAudioLine
    <3>8. Line(Elements(heard), Elements(wire) \cup Elements(a.sends), InPending(a.mic),
               Elements(rest), Elements(hub.queue), Elements(ipc), DOMAIN passed,
               gone \cup a.gone)
      BY <2>4, <2>8, <2>9, <3>2, <3>3, <3>4, <3>5, SendAudioLine
    <3> QED BY <3>6, <3>7, <3>8, <3>9
  <2>11. IF hub.attached THEN wire' = wire \o a.sends /\ gone' = gone \cup a.gone
                         ELSE gone' = gone \cup a.gone \cup Elements(a.sends) /\ wire' = wire
    BY <2>1 DEF Sends
  <2>12. wire \in Seq(Nat) /\ Increasing(wire)
    BY <1>0 DEF PathOK, OrderedQueues
  <2>13. /\ wire' \in Seq(Nat) /\ Increasing(wire')
         /\ Line(Elements(heard), Elements(wire'), InPending(a.mic), Elements(rest),
                 Elements(hub.queue), Elements(ipc), DOMAIN passed, gone')
    <3>1. a.sends = <<>> \/ a.sends = <<n>>
      BY <2>9 DEF SendAudio
    <3> QED BY <2>4, <2>10, <2>11, <2>12, <3>1, SendsLine
  <2>14. /\ mic' \in MicType /\ mic'.ingress = rest /\ mic'.posted = (rest # <<>>)
         /\ mic'.pending # 0 => mic'.inFlight
    BY <2>1, <2>6, <2>10
  <2>15. /\ io' \in Seq(Tasks) /\ Once(io', {"hub", "hubRest"}, hub.posted)
         /\ Once(io', {"ingress"}, rest # <<>>)
    <3>1. CASE rest = <<>>
      <4>1. io' = Tail(io)
        BY <1>5, <2>1, <3>1
      <4>2. (rest # <<>>) = FALSE
        BY <3>1
      <4> QED BY <1>3, <1>4, <1>5, <4>1, <4>2
    <3>2. CASE rest # <<>>
      <4>1. io' = Append(Tail(io), "ingress")
        BY <1>5, <2>1, <3>2, AppendIsConcat
      <4>2. io' \in Seq(Tasks)
        BY <1>5, <4>1
      <4>3. Once(Append(Tail(io), "ingress"), {"hub", "hubRest"},
                 hub.posted \/ "ingress" \in {"hub", "hubRest"})
        <5>1. "ingress" \notin {"hub", "hubRest"}
          OBVIOUS
        <5> QED BY <1>2, <1>4, <1>5, <5>1, OnceAppend
      <4>4. Once(Append(Tail(io), "ingress"), {"ingress"}, FALSE \/ "ingress" \in {"ingress"})
        BY <1>3, <1>5, OnceAppend
      <4>5. (hub.posted \/ "ingress" \in {"hub", "hubRest"}) = hub.posted
        BY <1>2
      <4>6. (FALSE \/ "ingress" \in {"ingress"}) = (rest # <<>>)
        BY <3>2
      <4> QED BY <4>1, <4>2, <4>3, <4>4, <4>5, <4>6
    <3> QED BY <3>1, <3>2
  <2>16. PathOK' /\ OrderedQueues' /\ PendingInv'
    BY <1>0, <1>1, <2>2, <2>13, <2>14, <2>15 DEF PathOK, OrderedQueues, PendingInv
  <2>17. DrainInv'
    BY <1>1, <1>2, <2>14, <2>15 DEF DrainInv
  <2>18. InPending(a.mic) = InPending(mic')
    BY <2>1
  <2>19. LineInv'
    BY <1>1, <2>13, <2>14, <2>18 DEF LineInv
  <2> QED BY <2>16, <2>17, <2>19 DEF QueuesInv
<1> QED BY <1>6, <1>7

(* An acknowledgement lets the waiting packet go. *)
LEMMA OnAckKeeps ==
  ASSUME QueuesInv, OnAck
  PROVE  QueuesInv'
<1>0. PathOK /\ DrainInv /\ OrderedQueues /\ PendingInv /\ LineInv
  BY DEF QueuesInv
<1>1. mic \in MicType /\ UNCHANGED <<passed, ipc, hub, io, heard>>
  BY <1>0 DEF OnAck, radio, PathOK
<1> DEFINE free == [mic EXCEPT !.inFlight = FALSE]
<1>2. CASE mic.pending = 0
  <2>1. mic' = free /\ UNCHANGED <<wire, gone>>
    BY <1>2 DEF OnAck
  <2>2. /\ mic' \in MicType /\ mic'.ingress = mic.ingress /\ mic'.posted = mic.posted
        /\ mic'.pending = mic.pending
    BY <1>1, <2>1 DEF MicType
  <2>3. PathOK' /\ OrderedQueues' /\ PendingInv' /\ DrainInv'
    BY <1>0, <1>1, <1>2, <2>1, <2>2 DEF PathOK, OrderedQueues, PendingInv, DrainInv
  <2>4. InPending(mic)' = InPending(mic)
    BY <2>2 DEF InPending
  <2>5. LineInv'
    BY <1>0, <1>1, <2>1, <2>2, <2>4 DEF LineInv
  <2> QED BY <2>3, <2>5 DEF QueuesInv
<1>3. CASE mic.pending # 0
  <2> DEFINE n == mic.pending
             m == [free EXCEPT !.pending = 0]
             a == SendAudio(m, n)
  <2>1. mic' = a.mic /\ Sends(a)
    BY <1>3 DEF OnAck
  <2>2. /\ m \in MicType /\ m.ingress = mic.ingress /\ m.posted = mic.posted
        /\ m.pending = 0
    BY <1>1 DEF MicType
  <2>3. InPending(mic) = {n} /\ InPending(m) = {} /\ n \in Nat \ {0}
    BY <1>1, <1>3, <2>2 DEF InPending, MicType
  <2>4. \A k \in Elements(wire) : k < n
    BY <1>0, <2>3 DEF LineInv, Line, Before
  <2>5. InPending(m) \cup {n} = InPending(mic) /\ n \notin InPending(m)
    BY <2>3
  <2>6. a = SendAudio(m, n)
    OBVIOUS
  <2> HIDE DEF a, m, n
  <2>7. Line(Elements(heard), Elements(wire), InPending(m) \cup {n}, Elements(mic.ingress),
             Elements(hub.queue), Elements(ipc), DOMAIN passed, gone)
    BY <1>0, <2>5 DEF LineInv
  <2>8. /\ a.mic \in MicType
        /\ a.mic.pending # 0 => a.mic.inFlight
        /\ a.mic.ingress = m.ingress /\ a.mic.posted = m.posted
        /\ Line(Elements(heard), Elements(wire) \cup Elements(a.sends), InPending(a.mic),
                Elements(mic.ingress), Elements(hub.queue), Elements(ipc), DOMAIN passed,
                gone \cup a.gone)
    <3> DEFINE T == InPending(m) \cup {n}
    <3>1. Line(Elements(heard), Elements(wire), T, Elements(mic.ingress),
               Elements(hub.queue), Elements(ipc), DOMAIN passed, gone)
      BY <2>7
    <3>2. T = InPending(m) \cup {n}
      OBVIOUS
    <3>3. m.pending # 0 => m.inFlight
      BY <2>2
    <3> HIDE DEF T
    <3> QED BY ZenonT(40), <2>2, <2>3, <2>5, <2>6, <3>1, <3>2, <3>3, SendAudioLine
  <2>9. IF hub.attached THEN wire' = wire \o a.sends /\ gone' = gone \cup a.gone
                        ELSE gone' = gone \cup a.gone \cup Elements(a.sends) /\ wire' = wire
    BY <2>1 DEF Sends
  <2>10. wire \in Seq(Nat) /\ Increasing(wire)
    BY <1>0 DEF PathOK, OrderedQueues
  <2>11. /\ wire' \in Seq(Nat) /\ Increasing(wire')
         /\ Line(Elements(heard), Elements(wire'), InPending(a.mic), Elements(mic.ingress),
                 Elements(hub.queue), Elements(ipc), DOMAIN passed, gone')
    <3>1. a.sends = <<>> \/ a.sends = <<n>>
      BY <2>6 DEF SendAudio
    <3> QED BY <2>3, <2>4, <2>8, <2>9, <2>10, <3>1, SendsLine
  <2>12. /\ mic' \in MicType /\ mic'.ingress = mic.ingress /\ mic'.posted = mic.posted
         /\ mic'.pending # 0 => mic'.inFlight
    BY <2>1, <2>2, <2>8
  <2>13. PathOK' /\ OrderedQueues' /\ PendingInv' /\ DrainInv'
    BY <1>0, <1>1, <2>11, <2>12 DEF PathOK, OrderedQueues, PendingInv, DrainInv
  <2>14. InPending(a.mic) = InPending(mic')
    BY <2>1
  <2>15. LineInv'
    BY <1>1, <2>11, <2>12, <2>14 DEF LineInv
  <2> QED BY <2>13, <2>15 DEF QueuesInv
<1> QED BY <1>2, <1>3

(* A request of the phone gives up what waits in the session. *)
LEMMA OnOpenRequestKeeps ==
  ASSUME QueuesInv, NEW id \in {0, 1}, OnOpenRequest(id)
  PROVE  QueuesInv'
<1>0. PathOK /\ DrainInv /\ OrderedQueues /\ PendingInv /\ LineInv
  BY DEF QueuesInv
<1>1. /\ mic \in MicType /\ mic' = Open(mic, id)
      /\ gone' = gone \cup Elements(mic.ingress) \cup InPending(mic)
      /\ UNCHANGED <<passed, ipc, hub, io, wire, heard>>
  BY <1>0 DEF OnOpenRequest, radio, PathOK
<1>2. /\ mic' \in MicType /\ mic'.ingress = <<>> /\ mic'.posted = mic.posted
      /\ mic'.pending = 0
  <2>1. <<>> \in Seq(Nat)
    OBVIOUS
  <2> QED BY <1>1, <2>1 DEF Open, MicType
<1>3. PathOK' /\ OrderedQueues' /\ PendingInv' /\ DrainInv'
  <2>1. Increasing(<<>>)
    BY DEF Increasing
  <2> QED BY <1>0, <1>1, <1>2, <2>1 DEF PathOK, OrderedQueues, PendingInv, DrainInv
<1> DEFINE X == Elements(mic.ingress) \cup InPending(mic)
           W == Elements(wire)
           Q == Elements(hub.queue)
           S == Elements(ipc)
<1>4. Line(Elements(heard), W, InPending(mic), Elements(mic.ingress), Q, S, DOMAIN passed, gone)
  BY <1>0 DEF LineInv
<1>5. X \cap (W \cup Q \cup S) = {}
  <2> HIDE DEF W, Q, S
  <2> QED BY <1>4, LineApart
<1>6. /\ W = W \ X /\ Q = Q \ X /\ S = S \ X
      /\ {} = InPending(mic) \ X /\ {} = Elements(mic.ingress) \ X
      /\ X \subseteq W \cup InPending(mic) \cup Elements(mic.ingress) \cup Q \cup S
  <2> HIDE DEF W, Q, S
  <2> QED BY <1>5
<1>7. Line(Elements(heard), W, {}, {}, Q, S, DOMAIN passed, gone \cup X)
  <2> HIDE DEF W, Q, S, X
  <2> QED BY <1>4, <1>6, LineLost
<1>8. InPending(mic)' = {} /\ Elements(mic'.ingress) = {} /\ gone' = gone \cup X
  BY <1>1, <1>2, ElementsOfEmpty DEF InPending
<1>9. LineInv'
  BY <1>1, <1>7, <1>8 DEF LineInv
<1> QED BY <1>3, <1>9 DEF QueuesInv

-----------------------------------------------------------------------------
(* The steps of the phone *)

LEMMA PhoneHearsKeeps ==
  ASSUME QueuesInv, PhoneHears
  PROVE  QueuesInv'
<1>0. PathOK /\ DrainInv /\ OrderedQueues /\ PendingInv /\ LineInv
  BY DEF QueuesInv
<1> DEFINE n == Head(wire)
<1>1. /\ wire # <<>> /\ heard' = Append(heard, n) /\ wire' = Tail(wire)
      /\ wire \in Seq(Nat) /\ heard \in Seq(Nat)
      /\ UNCHANGED <<passed, ipc, hub, mic, io, gone>>
  BY <1>0 DEF PhoneHears, radio, PathOK
<1>2. /\ wire' \in Seq(Nat) /\ Increasing(wire') /\ n \in Nat
      /\ Elements(wire) = Elements(wire') \cup {n}
      /\ \A k \in Elements(wire') : k \in Nat /\ n < k
  BY <1>0, <1>1, ElementsTail DEF OrderedQueues
<1> HIDE DEF n
<1>3. heard' \in Seq(Nat) /\ Elements(heard') = Elements(heard) \cup {n}
  BY <1>1, <1>2, ElementsAppend
<1>4. PathOK' /\ OrderedQueues' /\ PendingInv' /\ DrainInv'
  BY <1>0, <1>1, <1>2, <1>3 DEF PathOK, OrderedQueues, PendingInv, DrainInv
<1>5. n \in Elements(wire)
  BY <1>2
<1>6. Line(Elements(heard) \cup {n}, Elements(wire'), InPending(mic), Elements(mic.ingress),
           Elements(hub.queue), Elements(ipc), DOMAIN passed, gone)
  BY <1>0, <1>2, <1>5, LineToPhone DEF LineInv
<1>7. LineInv'
  BY <1>1, <1>3, <1>6 DEF LineInv
<1> QED BY <1>4, <1>7 DEF QueuesInv

LEMMA UnplugKeeps ==
  ASSUME QueuesInv, Unplug
  PROVE  QueuesInv'
<1>0. PathOK /\ DrainInv /\ OrderedQueues /\ PendingInv /\ LineInv
  BY DEF QueuesInv
<1>1. /\ hub' = [hub EXCEPT !.attached = FALSE] /\ hub \in HubType
      /\ gone' = gone \cup Elements(wire) /\ wire' = <<>>
      /\ UNCHANGED <<passed, ipc, mic, io, heard>>
  BY <1>0 DEF Unplug, radio, PathOK
<1>2. /\ hub' \in HubType /\ hub'.queue = hub.queue /\ hub'.posted = hub.posted
      /\ hub'.running = hub.running
  BY <1>1 DEF HubType
<1>3. PathOK' /\ OrderedQueues' /\ PendingInv' /\ DrainInv'
  <2>1. Increasing(<<>>) /\ <<>> \in Seq(Nat)
    BY DEF Increasing
  <2> QED BY <1>0, <1>1, <1>2, <2>1 DEF PathOK, OrderedQueues, PendingInv, DrainInv
<1>4. Line(Elements(heard), Elements(wire) \ Elements(wire), InPending(mic),
           Elements(mic.ingress), Elements(hub.queue), Elements(ipc), DOMAIN passed,
           gone \cup Elements(wire))
  BY <1>0, LineWireLost DEF LineInv
<1>5. Elements(wire') = Elements(wire) \ Elements(wire)
  BY <1>1, ElementsOfEmpty
<1>6. LineInv'
  BY <1>1, <1>2, <1>4, <1>5 DEF LineInv
<1> QED BY <1>3, <1>6 DEF QueuesInv

-----------------------------------------------------------------------------
(* The invariant of the whole path *)

LEMMA PathInit ==
  ASSUME Init
  PROVE  PathInv
<1> USE MicrophoneAssumption
<1>1. RadioInv
  BY DEF Init, RadioInv, RadioOK, WindowExact, PassedSeen, NoReplay
<1>2. RangeInv
  BY DEF Init, RangeInv
<1>3. PathOK
  <2>1. <<>> \in Seq(Nat) /\ <<>> \in Seq(Tasks)
    OBVIOUS
  <2>2. hub \in HubType
    BY <2>1 DEF Init, HubType
  <2>3. mic \in MicType
    BY <2>1 DEF Init, MicType
  <2> QED BY <2>1, <2>2, <2>3 DEF Init, PathOK
<1>4. DrainInv
  <2>1. ~ hub.posted /\ ~ mic.posted /\ Len(io) = 0 /\ hub.queue = <<>> /\ mic.ingress = <<>>
    BY DEF Init
  <2> QED BY <2>1 DEF DrainInv, Once
<1>5. OrderedQueues /\ PendingInv
  <2>1. Increasing(<<>>)
    BY DEF Increasing
  <2> QED BY <2>1 DEF Init, OrderedQueues, PendingInv
<1>6. LineInv
  <2>1. InPending(mic) = {} /\ DOMAIN passed = {} /\ gone = {}
    BY DEF Init, InPending
  <2>2. /\ Elements(heard) = {} /\ Elements(wire) = {} /\ Elements(mic.ingress) = {}
        /\ Elements(hub.queue) = {} /\ Elements(ipc) = {}
    BY ElementsOfEmpty DEF Init
  <2>3. Line({}, {}, {}, {}, {}, {}, {}, {})
    BY DEF Line, Before
  <2> QED BY <2>1, <2>2, <2>3 DEF LineInv
<1> QED BY <1>1, <1>2, <1>3, <1>4, <1>5, <1>6 DEF PathInv

LEMMA PathStep ==
  ASSUME PathInv, [Next]_vars
  PROVE  PathInv'
<1>0. RadioInv /\ RangeInv /\ QueuesInv
  BY DEF PathInv, QueuesInv
<1>1. RadioInv' /\ RangeInv'
  BY <1>0, RadioStep, RangeStep
<1>2. QueuesInv'
  <2>1. CASE AccessorySends \/ UNCHANGED vars \/ \E id \in {0, 1} : PhoneRequests(id)
    <3>1. UNCHANGED <<passed, ipc, hub, mic, io, wire, heard, gone>>
      BY <2>1 DEF AccessorySends, PhoneRequests, radio, link, vars
    <3> QED BY <1>0, <3>1, QueuesSame
  <2>2. CASE \E n \in Audio : ReceivePacket(n)
    BY <1>0, <2>2, ReceivePacketKeeps
  <2>3. CASE SendMicrophoneAudio
    BY <1>0, <2>3, SendMicrophoneAudioKeeps
  <2>4. CASE IpcLoses
    BY <1>0, <2>4, IpcLosesKeeps
  <2>5. CASE Stop
    BY <1>0, <2>5, StopKeeps
  <2>6. CASE IoMoves
    BY <1>0, <2>6, DrainTakeKeeps, DrainRestKeeps, DrainIngressKeeps, OnAckKeeps,
       OnOpenRequestKeeps DEF IoMoves
  <2>7. CASE PhoneHears
    BY <1>0, <2>7, PhoneHearsKeeps
  <2>8. CASE Unplug
    BY <1>0, <2>8, UnplugKeeps
  <2> QED BY <2>1, <2>2, <2>3, <2>4, <2>5, <2>6, <2>7, <2>8 DEF Next
<1> QED BY <1>1, <1>2 DEF PathInv, QueuesInv

(* The inductive invariant: every packet that passed the window is at one   *)
(* place of the path or given up, the places are in order, and every queue  *)
(* with something in it has its drain posted.                               *)
THEOREM PathInvariant == Spec => []PathInv
<1>1. Init => PathInv
  BY PathInit
<1>2. PathInv /\ [Next]_vars => PathInv'
  BY PathStep
<1> QED BY <1>1, <1>2, PTL DEF Spec

-----------------------------------------------------------------------------
(* Drains *)

LEMMA OnceCounts ==
  ASSUME NEW q \in Seq(Tasks), NEW T, NEW f \in BOOLEAN, Once(q, T, f)
  PROVE  Cardinality({i \in DOMAIN q : q[i] \in T}) = IF f THEN 1 ELSE 0
<1>0. DOMAIN q = 1..Len(q)
  OBVIOUS
<1>1. CASE f
  <2>1. PICK k \in 1..Len(q) : \A i \in 1..Len(q) : q[i] \in T <=> i = k
    BY <1>1 DEF Once
  <2>2. {i \in DOMAIN q : q[i] \in T} = {k}
    BY <1>0, <2>1
  <2>3. Cardinality({k}) = 1
    BY FS_Singleton
  <2> QED BY <1>1, <2>2, <2>3
<1>2. CASE ~f
  <2>1. {i \in DOMAIN q : q[i] \in T} = {}
    BY <1>0, <1>2 DEF Once
  <2> QED BY <1>2, <2>1, FS_EmptySet
<1> QED BY <1>1, <1>2

(* The drain of a queue is posted exactly when its flag says so, for every  *)
(* interleaving of the socket's thread with the locked parts of             *)
(* drain_microphone_audio and every limit of the queues: no packet is left  *)
(* behind without a drain, and no two drains run (send_microphone_audio).   *)
THEOREM DrainAlwaysPosted == Spec => []DrainsPosted
<1>1. ASSUME PathInv PROVE DrainsPosted
  <2>0. /\ RadioOK /\ RangeInv /\ PathOK /\ DrainInv /\ LineInv
    BY <1>1 DEF PathInv, RadioInv
  <2>1. TypeOK
    <3>1. sent \in 0..MaxPackets /\ window.have \in BOOLEAN
      BY <2>0, MicrophoneAssumption DEF RadioOK, RangeInv
    <3>2. /\ Elements(ipc) \cup Elements(hub.queue) \cup Elements(mic.ingress) \cup Elements(wire)
               \subseteq DOMAIN passed
          /\ gone \subseteq DOMAIN passed /\ InPending(mic) \subseteq DOMAIN passed
      BY <2>0 DEF LineInv, Line
    <3>3. mic.pending \in {0} \cup DOMAIN passed
      BY <3>2 DEF InPending
    <3>4. mic.id \in {0, 1}
      BY <2>0 DEF PathOK, MicType
    <3> QED BY <2>0, <3>1, <3>2, <3>3, <3>4 DEF TypeOK, RangeInv
  <2>2. ASSUME hub.running
        PROVE  /\ Cardinality({i \in DOMAIN io : io[i] \in {"hub", "hubRest"}})
                    = IF hub.posted THEN 1 ELSE 0
               /\ Cardinality({i \in DOMAIN io : io[i] \in {"ingress"}})
                    = IF mic.posted THEN 1 ELSE 0
               /\ hub.queue # <<>> => hub.posted
               /\ mic.ingress # <<>> => mic.posted
    <3>1. /\ io \in Seq(Tasks) /\ hub.posted \in BOOLEAN /\ mic.posted \in BOOLEAN
      BY <2>0 DEF PathOK, HubType, MicType
    <3>2. /\ Once(io, {"hub", "hubRest"}, hub.posted) /\ Once(io, {"ingress"}, mic.posted)
          /\ hub.queue # <<>> => hub.posted
          /\ mic.ingress # <<>> => mic.posted
      BY <2>0, <2>2 DEF DrainInv
    <3>3. Cardinality({i \in DOMAIN io : io[i] \in {"hub", "hubRest"}})
            = IF hub.posted THEN 1 ELSE 0
      BY <3>1, <3>2, OnceCounts
    <3>4. Cardinality({i \in DOMAIN io : io[i] \in {"ingress"}}) = IF mic.posted THEN 1 ELSE 0
      BY <3>1, <3>2, OnceCounts
    <3> QED BY <3>2, <3>3, <3>4
  <2> QED BY <2>1, <2>2 DEF DrainsPosted
<1>2. PathInv => DrainsPosted
  BY <1>1
<1> QED BY <1>2, PathInvariant, PTL

-----------------------------------------------------------------------------
(* The path is a channel *)

(* No more packets pass the window than the accessory has sent. *)
LEMMA PassedBounded ==
  ASSUME NEW p \in Seq(Nat), NEW S, NEW N \in Nat, S \subseteq 1..N,
         \A i \in DOMAIN p : p[i] \in S,
         \A i, j \in DOMAIN p : p[i] = p[j] => i = j
  PROVE  Len(p) <= N
<1> DEFINE L == Len(p)
<1>1. L \in Nat /\ DOMAIN p = 1..L
  OBVIOUS
<1>2. p \in [1..L -> 1..N]
  <2>1. p = [i \in 1..L |-> p[i]]
    OBVIOUS
  <2>2. \A i \in 1..L : p[i] \in 1..N
    BY <1>1
  <2> QED BY <2>1, <2>2
<1>3. IsFiniteSet(1..L) /\ Cardinality(1..L) = L
  BY SMTT(30), <1>1, FS_Interval
<1>4. IsFiniteSet(1..N) /\ Cardinality(1..N) = N
  BY FS_Interval
<1> HIDE DEF L
<1>5. ASSUME N < L PROVE FALSE
  <2>1. \E x, y \in 1..L : x # y /\ p[x] = p[y]
    <3> DEFINE D == 1..L
               R == 1..N
    <3>1. /\ IsFiniteSet(D) /\ IsFiniteSet(R) /\ p \in [D -> R]
          /\ Cardinality(R) < Cardinality(D)
      BY <1>2, <1>3, <1>4, <1>5
    <3> HIDE DEF D, R
    <3>2. \E x, y \in D : x # y /\ p[x] = p[y]
      BY <3>1, FS_PigeonHole
    <3> QED BY <3>2 DEF D
  <2> QED BY <1>1, <2>1
<1>6. L <= N
  BY <1>1, <1>5
<1> QED BY <1>6 DEF L

LEMMA ChannelGivesUp ==
  ASSUME PathInv, PathInv', UNCHANGED <<passed, heard>>, gone \subseteq gone'
  PROVE  Channel!Next
<1> DEFINE X == gone' \ gone
<1>1. /\ gone' \subseteq DOMAIN passed' /\ Elements(heard') \cap gone' = {}
      /\ passed' \in Seq(Nat) /\ MaxPackets \in Nat
  BY MicrophoneAssumption DEF PathInv, LineInv, Line, RadioInv, RadioOK
<1>2. Len(passed') <= MaxPackets
  <2>1. /\ \A i \in DOMAIN passed' : passed'[i] \in seen'
        /\ \A i, j \in DOMAIN passed' : passed'[i] = passed'[j] => i = j
    BY DEF PathInv, RadioInv, PassedSeen, NoReplay
  <2>2. seen' \subseteq 1..MaxPackets
    BY <1>1 DEF PathInv, RadioInv, RadioOK, RangeInv
  <2> QED BY <1>1, <2>1, <2>2, PassedBounded
<1>3. DOMAIN passed' \subseteq Audio
  BY <1>1, <1>2 DEF Audio
<1>4. Channel!Given = Elements(heard)
  BY DEF Channel!Given, Elements
<1>5. X \subseteq DOMAIN passed \ Elements(heard) /\ X \in SUBSET Audio
  BY <1>1, <1>3
<1>6. gone' = gone \cup X
  OBVIOUS
<1> HIDE DEF X
<1>7. Channel!GiveUp(X)
  BY <1>4, <1>5, <1>6 DEF Channel!GiveUp
<1> QED BY <1>5, <1>7 DEF Channel!Next

LEMMA ChannelTakes ==
  ASSUME PathInv, PathInv', NEW n \in Audio, ReceivePacket(n), n \notin Odd
  PROVE  Channel!Next
<1> DEFINE x == Len(passed) + 1
<1>1. passed' = Append(passed, n) /\ UNCHANGED <<heard, gone>>
  BY DEF ReceivePacket, link
<1>2. /\ passed \in Seq(Nat) /\ passed' \in Seq(Nat) /\ MaxPackets \in Nat /\ n \in Nat
  BY MicrophoneAssumption DEF PathInv, RadioInv, RadioOK, Audio
<1>3. Len(passed') <= MaxPackets
  <2>1. /\ \A i \in DOMAIN passed' : passed'[i] \in seen'
        /\ \A i, j \in DOMAIN passed' : passed'[i] = passed'[j] => i = j
    BY DEF PathInv, RadioInv, PassedSeen, NoReplay
  <2>2. seen' \subseteq 1..MaxPackets
    BY <1>2 DEF PathInv, RadioInv, RadioOK, RangeInv
  <2> QED BY <1>2, <2>1, <2>2, PassedBounded
<1>4. /\ Len(passed') = x /\ DOMAIN passed' = 1..x /\ DOMAIN passed = 1..Len(passed)
      /\ Len(passed) \in Nat
  BY <1>1, <1>2
<1>5. x \in Audio /\ DOMAIN passed' = DOMAIN passed \cup {x} /\ \A m \in DOMAIN passed : m < x
  BY <1>2, <1>3, <1>4 DEF Audio
<1> HIDE DEF x
<1>6. Channel!Take({x})
  BY <1>1, <1>5 DEF Channel!Take
<1>7. {x} \in SUBSET Audio
  BY <1>5
<1> QED BY <1>6, <1>7 DEF Channel!Next

LEMMA ChannelGives ==
  ASSUME PathInv, PhoneHears
  PROVE  Channel!Next
<1> DEFINE n == Head(wire)
<1>1. /\ wire # <<>> /\ heard' = Append(heard, n) /\ UNCHANGED <<passed, gone>>
      /\ wire \in Seq(Nat) /\ Increasing(wire)
      /\ passed \in Seq(Nat) /\ MaxPackets \in Nat
  BY MicrophoneAssumption DEF PhoneHears, radio, PathInv, PathOK, OrderedQueues, RadioInv, RadioOK
<1>2. /\ n \in Elements(wire) /\ n \in Nat
      /\ \A m \in Elements(wire) : m = n \/ n < m
  BY <1>1, ElementsTail
<1> HIDE DEF n
<1>3. Line(Elements(heard), Elements(wire), InPending(mic), Elements(mic.ingress),
           Elements(hub.queue), Elements(ipc), DOMAIN passed, gone)
  BY DEF PathInv, LineInv
<1>4. Channel!Given = Elements(heard)
  BY DEF Channel!Given, Elements
<1>5. n \in DOMAIN passed \ gone /\ DOMAIN passed \subseteq Nat
  BY <1>2, <1>3 DEF Line
<1>6. n \notin Elements(heard)
  <2>1. \A k \in Elements(heard) : k < n
    BY <1>2, <1>3 DEF Line, Before
  <2>2. ~ (n < n)
    BY <1>2
  <2> QED BY <2>1, <2>2
<1>7. ASSUME NEW m \in DOMAIN passed, m < n PROVE m \in Elements(heard) \cup gone
  <2>1. m \in Nat /\ m # n /\ ~ (n < m)
    BY <1>2, <1>5, <1>7
  <2>2. \A k \in InPending(mic) \cup Elements(mic.ingress) \cup Elements(hub.queue)
                 \cup Elements(ipc) : n < k
    BY <1>2, <1>3 DEF Line, Before
  <2> QED BY <1>2, <1>3, <2>1, <2>2 DEF Line
<1>8. Len(passed) <= MaxPackets
  <2>1. /\ \A i \in DOMAIN passed : passed[i] \in seen
        /\ \A i, j \in DOMAIN passed : passed[i] = passed[j] => i = j
    BY DEF PathInv, RadioInv, PassedSeen, NoReplay
  <2>2. seen \subseteq 1..MaxPackets
    BY <1>1 DEF PathInv, RadioInv, RadioOK, RangeInv
  <2> QED BY <1>1, <2>1, <2>2, PassedBounded
<1>9. n \in Audio
  BY <1>1, <1>5, <1>8 DEF Audio
<1>10. Channel!Give(n)
  BY <1>1, <1>4, <1>5, <1>6, <1>7 DEF Channel!Give
<1> QED BY <1>9, <1>10 DEF Channel!Next

LEMMA ChannelStep ==
  ASSUME PathInv, PathInv', [Next]_vars
  PROVE  [Channel!Next]_(Channel!channelVars)
<1>0. ASSUME UNCHANGED <<passed, heard>>, gone \subseteq gone'
      PROVE  Channel!Next
  BY <1>0, ChannelGivesUp
<1>1. ASSUME NEW n \in Audio, ReceivePacket(n) PROVE Channel!Next
  <2>1. CASE n \in Odd
    BY <1>0, <1>1, <2>1 DEF ReceivePacket, link
  <2>2. CASE n \notin Odd
    BY <1>1, <2>2, ChannelTakes
  <2> QED BY <2>1, <2>2
<1>2. CASE PhoneHears
  BY <1>2, ChannelGives
<1>3. CASE AccessorySends \/ UNCHANGED vars \/ \E id \in {0, 1} : PhoneRequests(id)
  <2>1. UNCHANGED <<passed, heard, gone>>
    BY <1>3 DEF AccessorySends, PhoneRequests, radio, link, vars
  <2> QED BY <1>0, <2>1
<1>4. CASE SendMicrophoneAudio \/ IpcLoses \/ Stop \/ Unplug
  BY <1>0, <1>4 DEF SendMicrophoneAudio, IpcLoses, Stop, Unplug, radio, link
<1>5. CASE DrainTake \/ DrainRest
  BY <1>0, <1>5 DEF DrainTake, DrainRest, radio, link
<1>6. CASE DrainIngress \/ OnAck
  <2>1. UNCHANGED <<passed, heard>>
    BY <1>6 DEF DrainIngress, OnAck, radio
  <2>2. ASSUME NEW a, Sends(a) PROVE gone \subseteq gone'
    BY <2>2 DEF Sends
  <2>3. gone \subseteq gone'
    BY <1>6, <2>2 DEF DrainIngress, OnAck
  <2> QED BY <1>0, <2>1, <2>3
<1>7. CASE \E id \in {0, 1} : OnOpenRequest(id)
  BY <1>0, <1>7 DEF OnOpenRequest, radio
<1> QED BY <1>1, <1>2, <1>3, <1>4, <1>5, <1>6, <1>7 DEF Next, IoMoves

(* The way of the voice implements MessageChannel for every limit of the    *)
(* queues: over three queues that drop their oldest packet, a packet that   *)
(* waits for an acknowledgement, reopenings and an unplugged phone, the     *)
(* phone hears every packet at most once, in the order of the window, and   *)
(* none that was given up (send_microphone_audio, MicrophoneSession).       *)
THEOREM MicrophonePathIsChannel == Spec => ImplementsChannel
<1>1. Init => Channel!Init
  BY DEF Init, Channel!Init
<1>2. PathInv /\ PathInv' /\ [Next]_vars => [Channel!Next]_(Channel!channelVars)
  BY ChannelStep
<1>3. Spec => Channel!Init /\ [][Channel!Next]_(Channel!channelVars)
  BY <1>1, <1>2, PathInvariant, PTL DEF Spec
<1> QED BY <1>3 DEF ImplementsChannel, Channel!Spec
===============================================================================
