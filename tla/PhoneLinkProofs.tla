--------------------------- MODULE PhoneLinkProofs ---------------------------
(***************************************************************************)
(* Theorems about the phone side of the iAP2 link layer, for every width   *)
(* of the sequence numbers, every announced LSP and every bound: types,    *)
(* the handshake, the order of the states, the stream of the phone's       *)
(* control messages and that of the accessory's.                           *)
(***************************************************************************)
EXTENDS PhoneLink, SequenceTheorems, FiniteSetTheorems, TLAPS

(* Wrapped numbers are sequence numbers. *)
LEMMA WrapType == \A n \in Int : Wrap(n) \in SeqNum
  BY SeqAssumption DEF Wrap, SeqNum, Half

(* Adopting an announced LSP gives link parameters. *)
LEMMA ClampType == \A l \in Lsps : Clamp(l) \in Lsps
  BY SeqAssumption DEF Clamp, Lsps, Half

LEMMA SidsType == DefaultSid \in Sids /\ OtherSid \in Sids
  BY DEF Sids

LEMMA DefaultLspType == DefaultLsp \in Lsps
  BY LspAssumption, SeqAssumption, SidsType DEF DefaultLsp, Lsps, Half

(* Writing frames to a channel leaves a channel of frames. *)
LEMMA PutType ==
  ASSUME NEW c \in Seq(Frames), NEW fs \in Seq(Frames)
  PROVE  Put(c, fs) \in Seq(Frames)
  <1> DEFINE all == c \o fs
             excess == Len(all) - ChannelCap
  <1>1. all \in Seq(Frames)
    BY ConcatProperties
  <1>2. excess \in Int
    BY <1>1, BoundAssumption, LenProperties
  <1>3. CASE excess > 0
    <2>1. SubSeq(all, excess + 1, Len(all)) \in Seq(Frames)
      BY <1>1, <1>2, <1>3, BoundAssumption, SubSeqProperties, LenProperties
    <2> QED BY <2>1, <1>3 DEF Put
  <1>4. CASE ~ (excess > 0)
    BY <1>1, <1>4 DEF Put
  <1> QED BY <1>3, <1>4

LEMMA NewFramesType ==
  ASSUME TypeOK, NEW n \in Nat, NEW ack \in SeqNum
  PROVE  NewFrames(n, ack) \in Seq(Frames)
  <1>1. \A i \in 1 .. n : Wrap(sentSeq + i) \in SeqNum
    BY WrapType DEF TypeOK, PhoneTypeOK, SeqNum
  <1>2. \A i \in 1 .. n : DataFrame(Wrap(sentSeq + i), ack, sid, sent + i) \in Frames
    BY <1>1 DEF TypeOK, PhoneTypeOK, DataFrame, Frames
  <1> QED BY <1>2, IsASeq DEF NewFrames

LEMMA EnqueueType ==
  ASSUME TypeOK, NEW n \in Nat, NEW ack \in SeqNum, NEW queue,
         DOMAIN queue \subseteq 1 .. sent, queue \in [DOMAIN queue -> PendingMessages]
  PROVE  /\ DOMAIN Enqueue(queue, n, ack) \subseteq 1 .. sent + n
         /\ Enqueue(queue, n, ack)
              \in [DOMAIN Enqueue(queue, n, ack) -> PendingMessages]
  <1> DEFINE D == DOMAIN queue \cup (sent + 1 .. sent + n)
  <1>1. D \subseteq 1 .. sent + n
    BY DEF TypeOK, PhoneTypeOK
  <1>2. \A m \in D : /\ sentSeq + m - sent \in Int
                     /\ m \in Nat
    <2>1. sent \in Nat /\ sentSeq \in Nat
      BY SeqAssumption DEF TypeOK, PhoneTypeOK, SeqNum
    <2> QED BY <2>1, <1>1
  <1>3. \A m \in D : [frame |-> DataFrame(Wrap(sentSeq + m - sent), ack, sid, m),
                      retries |-> 0] \in PendingMessages
    BY <1>2, WrapType DEF TypeOK, PhoneTypeOK, DataFrame, PendingMessages
  <1> QED BY <1>1, <1>3 DEF Enqueue

(* Removing acknowledged messages leaves pending messages. *)
LEMMA UnacknowledgedType ==
  ASSUME TypeOK, NEW f
  PROVE  /\ DOMAIN Unacknowledged(f) \subseteq DOMAIN pending
         /\ DOMAIN Unacknowledged(f) \subseteq 1 .. sent
         /\ Unacknowledged(f) \in [DOMAIN Unacknowledged(f) -> PendingMessages]
  BY DEF TypeOK, PhoneTypeOK, Unacknowledged, PendingMessages

LEMMA NoMessagesType ==
  /\ NoMessages \in [DOMAIN NoMessages -> PendingMessages]
  /\ DOMAIN NoMessages = {}
  BY DEF NoMessages

LEMMA WriteType ==
  ASSUME TypeOK, NEW frame \in Frames, NEW next \in States, Write(frame, next)
  PROVE  toAcc' \in Seq(Frames) /\ state' \in States
  <1>1. <<frame>> \in Seq(Frames)
    OBVIOUS
  <1>2. Put(toAcc, <<frame>>) \in Seq(Frames)
    BY <1>1, PutType DEF TypeOK, PhoneTypeOK
  <1> QED BY <1>2 DEF Write, TypeOK, PhoneTypeOK, States

LEMMA SendSynType ==
  ASSUME TypeOK, NEW kind \in {"SYN", "SYNACK"}, NEW ack \in SeqNum,
         NEW l \in Lsps, SendSyn(kind, ack, l)
  PROVE  /\ toAcc' \in Seq(Frames)
         /\ state' \in States
         /\ sentSeq' \in SeqNum
         /\ synSeq' \in SeqNum
         /\ synOutstanding' \in BOOLEAN
  <1> DEFINE seq == IF synOutstanding THEN synSeq ELSE Wrap(sentSeq + 1)
  <1>1. seq \in SeqNum
    BY WrapType, SeqAssumption DEF TypeOK, PhoneTypeOK, SeqNum
  <1>2. SynFrame(kind, seq, ack, l) \in Frames
    BY <1>1 DEF SynFrame, Frames
  <1>3. Write(SynFrame(kind, seq, ack, l), "Negotiate")
    BY DEF SendSyn
  <1>4. toAcc' \in Seq(Frames) /\ state' \in States
    BY <1>2, <1>3, WriteType DEF States
  <1>5. sentSeq' \in SeqNum /\ synSeq' \in SeqNum /\ synOutstanding' \in BOOLEAN
    BY <1>1 DEF SendSyn, TypeOK, PhoneTypeOK
  <1> QED BY <1>4, <1>5

LEMMA SendControlType ==
  ASSUME TypeOK, NEW n \in Nat, NEW ack \in SeqNum, NEW queue,
         DOMAIN queue \subseteq 1 .. sent,
         queue \in [DOMAIN queue -> PendingMessages],
         NEW trailer \in Seq(Frames), SendControl(queue, n, ack, trailer)
  PROVE  /\ toAcc' \in Seq(Frames)
         /\ state' \in States
         /\ sentSeq' \in SeqNum
         /\ sent' \in Nat
         /\ DOMAIN pending' \subseteq 1 .. sent'
         /\ pending' \in [DOMAIN pending' -> PendingMessages]
  <1>0. sent \in Nat /\ sentSeq \in Nat /\ state \in States /\ toAcc \in Seq(Frames)
    BY SeqAssumption DEF TypeOK, PhoneTypeOK, SeqNum
  <1>1. /\ NewFrames(n, ack) \in Seq(Frames)
        /\ NewFrames(n, ack) \o trailer \in Seq(Frames)
    BY NewFramesType, ConcatProperties
  <1>2. \A k \in 0 .. n : NewFrames(k, ack) \in Seq(Frames)
    BY NewFramesType
  <1>3. /\ DOMAIN Enqueue(queue, n, ack) \subseteq 1 .. sent + n
        /\ Enqueue(queue, n, ack) \in [DOMAIN Enqueue(queue, n, ack) -> PendingMessages]
    BY EnqueueType
  <1>4. \A k \in 0 .. n : Wrap(sentSeq + k) \in SeqNum
    BY <1>0, WrapType
  <1>5. CASE /\ toAcc' = Put(toAcc, NewFrames(n, ack) \o trailer)
             /\ pending' = Enqueue(queue, n, ack)
             /\ sentSeq' = Wrap(sentSeq + n)
             /\ sent' = sent + n
             /\ UNCHANGED state
    <2>1. toAcc' \in Seq(Frames)
      BY <1>0, <1>1, <1>5, PutType
    <2>2. sentSeq' \in SeqNum /\ sent' \in Nat /\ state' \in States
      BY <1>0, <1>4, <1>5
    <2> QED BY <1>3, <1>5, <2>1, <2>2
  <1>6. CASE /\ \E k \in 1 .. n :
                  /\ toAcc' = Put(toAcc, NewFrames(k - 1, ack))
                  /\ sentSeq' = Wrap(sentSeq + k)
                  /\ sent' = sent + k - 1
             /\ pending' = NoMessages
             /\ state' = "Dead"
    <2>1. PICK k \in 1 .. n : /\ toAcc' = Put(toAcc, NewFrames(k - 1, ack))
                              /\ sentSeq' = Wrap(sentSeq + k)
                              /\ sent' = sent + k - 1
      BY <1>6
    <2>2. k - 1 \in 0 .. n /\ k \in 0 .. n
      OBVIOUS
    <2>3. toAcc' \in Seq(Frames) /\ sentSeq' \in SeqNum /\ sent' \in Nat
      BY <1>0, <1>2, <1>4, <2>1, <2>2, PutType
    <2> QED BY <1>6, <2>3, NoMessagesType DEF States
  <1>7. CASE /\ trailer # <<>>
             /\ toAcc' = Put(toAcc, NewFrames(n, ack))
             /\ pending' = Enqueue(queue, n, ack)
             /\ sentSeq' = Wrap(sentSeq + n)
             /\ sent' = sent + n
             /\ state' = "Dead"
    BY <1>0, <1>1, <1>3, <1>4, <1>7, PutType DEF States
  <1> QED BY <1>5, <1>6, <1>7 DEF SendControl

(* What the frame at the head of the accessory's channel is, and what is    *)
(* left behind it.                                                          *)
LEMMA ReceivesType ==
  ASSUME TypeOK, NEW kinds, Receives(kinds)
  PROVE  /\ Head(toPhone) \in Frames
         /\ Head(toPhone).kind \in kinds
         /\ toPhone' \in Seq(Frames)
  BY HeadTailProperties DEF Receives, TypeOK, PeerTypeOK

LEMMA FrameFields ==
  ASSUME NEW f \in Frames
  PROVE  /\ f.kind \in {"SYN", "SYNACK"} => f.seq \in SeqNum /\ f.ack \in SeqNum /\ f.lsp \in Lsps
         /\ f.kind = "ACK" => f.seq \in SeqNum /\ f.ack \in SeqNum
         /\ f.kind = "DATA" => /\ f.seq \in SeqNum /\ f.ack \in SeqNum
                               /\ f.sid \in Sids /\ f.msg \in Nat
  BY DEF Frames

(* A handler that leaves the accessory alone and takes a frame keeps the    *)
(* accessory's types.                                                       *)
LEMMA PeerTypeUnchanged ==
  ASSUME TypeOK, UNCHANGED accVars, toPhone' \in Seq(Frames)
  PROVE  PeerTypeOK'
  BY DEF TypeOK, PeerTypeOK, accVars

LEMMA InitType == Init => TypeOK
  <1> SUFFICES ASSUME Init PROVE TypeOK
    OBVIOUS
  <1>1. 0 \in SeqNum /\ FirstSeq \in SeqNum /\ PeerSyn \in SeqNum
    BY SeqAssumption DEF SeqNum, Half
  <1>2. PhoneTypeOK
    <2>1. /\ DOMAIN pending \subseteq 1 .. sent
          /\ pending \in [DOMAIN pending -> PendingMessages]
      BY NoMessagesType DEF Init
    <2>2. /\ delivered \in Seq(Nat)
          /\ toAcc \in Seq(Frames)
      BY EmptySeq DEF Init
    <2>3. /\ state \in States
          /\ sentSeq \in SeqNum /\ synSeq \in SeqNum /\ lastRx \in SeqNum
          /\ synOutstanding \in BOOLEAN /\ rxValid \in BOOLEAN
          /\ sent \in Nat
      BY <1>1 DEF Init, States
    <2>4. lsp \in Lsps /\ sid \in Sids
      BY DefaultLspType, SidsType DEF Init
    <2> QED BY <2>1, <2>2, <2>3, <2>4 DEF PhoneTypeOK
  <1>3. PeerTypeOK
    <2>1. /\ toPhone \in Seq(Frames)
          /\ accGot \in Seq(Nat)
          /\ accMsgs \in Seq(Sids)
          /\ Len(accMsgs) = 0
      BY EmptySeq DEF Init
    <2>2. /\ accLsp \in PeerLsps
          /\ accPhoneSyn \in BOOLEAN /\ accSynAcked \in BOOLEAN
          /\ accRx \in SeqNum /\ accAcked = 0
      BY <1>1 DEF Init
    <2> QED BY <2>1, <2>2 DEF PeerTypeOK
  <1> QED BY <1>2, <1>3 DEF TypeOK

(* start, tick, send_control *)
LEMMA DriverType ==
  ASSUME TypeOK, Start \/ MarkerFails \/ Tick \/ Submit
  PROVE  TypeOK'
  <1> USE DEF TypeOK
  <1>0. lastRx \in SeqNum /\ lsp \in Lsps
    BY DEF PhoneTypeOK
  <1>1. CASE Start \/ RepeatSyn
    <2>1. SendSyn("SYN", lastRx, lsp)
      BY <1>1 DEF Start, RepeatSyn
    <2>2. UNCHANGED <<lastRx, rxValid, lsp, sid, pending, sent, delivered,
                      toPhone, accVars>>
      BY <1>1 DEF Start, RepeatSyn
    <2>3. PhoneTypeOK'
      BY <1>0, <2>1, <2>2, SendSynType DEF PhoneTypeOK
    <2> QED BY <2>2, <2>3 DEF PeerTypeOK, accVars
  <1>2. CASE MarkerFails
    BY <1>2 DEF MarkerFails, PhoneTypeOK, PeerTypeOK, accVars, States
  <1>3. ASSUME NEW m \in DOMAIN pending, Retransmit(m)
        PROVE  TypeOK'
    <2>1. pending[m] \in PendingMessages
      BY DEF PhoneTypeOK
    <2>2. <<pending[m].frame>> \in Seq(Frames)
      BY <2>1 DEF PendingMessages, Frames
    <2>3. toAcc' \in Seq(Frames)
      BY <1>3, <2>2, PutType DEF Retransmit, PhoneTypeOK
    <2>4. [pending EXCEPT ![m].retries = @ + 1] \in [DOMAIN pending -> PendingMessages]
      <3> DEFINE more == [pending[m] EXCEPT !.retries = @ + 1]
      <3>1. more \in PendingMessages
        BY <2>1 DEF PendingMessages
      <3>2. [pending EXCEPT ![m] = more] \in [DOMAIN pending -> PendingMessages]
        <4> HIDE DEF more
        <4> QED BY <3>1 DEF PhoneTypeOK
      <3> QED BY <3>2
    <2>5. PhoneTypeOK'
      BY <1>3, <2>3, <2>4, NoMessagesType DEF Retransmit, PhoneTypeOK, States
    <2> QED BY <1>3, <2>5 DEF Retransmit, PeerTypeOK, accVars
  <1>4. CASE Submit
    <2>1. SendControl(pending, 1, lastRx, <<>>)
      BY <1>4 DEF Submit
    <2>2. /\ DOMAIN pending \subseteq 1 .. sent
          /\ pending \in [DOMAIN pending -> PendingMessages]
          /\ <<>> \in Seq(Frames)
      BY EmptySeq DEF PhoneTypeOK
    <2>3. /\ toAcc' \in Seq(Frames)
          /\ state' \in States
          /\ sentSeq' \in SeqNum
          /\ sent' \in Nat
          /\ DOMAIN pending' \subseteq 1 .. sent'
          /\ pending' \in [DOMAIN pending' -> PendingMessages]
      <3> HIDE DEF TypeOK
      <3> QED BY <1>0, <2>1, <2>2, SendControlType
    <2>4. PhoneTypeOK'
      BY <1>4, <2>3 DEF Submit, PhoneTypeOK
    <2> QED BY <1>4, <2>4 DEF Submit, PeerTypeOK, accVars
  <1> QED BY <1>1, <1>2, <1>3, <1>4 DEF Tick

(* receive and handle_packet *)
LEMMA HandlePacketType ==
  ASSUME TypeOK, HandlePacket
  PROVE  TypeOK'
  <1> DEFINE f == Head(toPhone)
  <1>0. /\ PhoneTypeOK /\ PeerTypeOK
        /\ sentSeq \in SeqNum /\ lastRx \in SeqNum /\ lsp \in Lsps /\ sid \in Sids
    BY DEF TypeOK, PhoneTypeOK
  <1>u. /\ DOMAIN Unacknowledged(f) \subseteq 1 .. sent
        /\ Unacknowledged(f) \in [DOMAIN Unacknowledged(f) -> PendingMessages]
    BY UnacknowledgedType
  <1>a. AckFrame(sentSeq, lastRx) \in Frames
    BY <1>0 DEF AckFrame, Frames
  <1>1. CASE ReceiveMarker
    <2>1. toPhone' \in Seq(Frames)
      BY <1>1, ReceivesType DEF ReceiveMarker
    <2>2. SendSyn("SYN", lastRx, lsp)
      BY <1>1 DEF ReceiveMarker
    <2>3. PhoneTypeOK'
      BY <1>0, <1>1, <2>2, SendSynType DEF ReceiveMarker, PhoneTypeOK
    <2> QED BY <1>1, <2>1, <2>3, PeerTypeUnchanged DEF ReceiveMarker, TypeOK
  <1>2. CASE ReceiveNoise
    <2>1. toPhone' \in Seq(Frames)
      BY <1>2, ReceivesType DEF ReceiveNoise
    <2>2. PhoneTypeOK'
      BY <1>0, <1>2 DEF ReceiveNoise, PhoneTypeOK, linkVars
    <2> QED BY <1>2, <2>1, <2>2, PeerTypeUnchanged DEF ReceiveNoise, TypeOK
  <1>3. CASE ReceiveLong
    <2>1. toPhone' \in Seq(Frames)
      BY <1>3, ReceivesType DEF ReceiveLong
    <2>2. PhoneTypeOK'
      BY <1>0, <1>3 DEF ReceiveLong, PhoneTypeOK, States
    <2> QED BY <1>3, <2>1, <2>2, PeerTypeUnchanged DEF ReceiveLong, TypeOK
  <1>4. CASE ReceiveReset
    <2>1. toPhone' \in Seq(Frames)
      BY <1>4, ReceivesType DEF ReceiveReset
    <2>2. PhoneTypeOK'
      BY <1>0, <1>4, NoMessagesType DEF ReceiveReset, PhoneTypeOK, States
    <2> QED BY <1>4, <2>1, <2>2, PeerTypeUnchanged DEF ReceiveReset, TypeOK
  <1>5. CASE ReceiveSynAgain \/ ReceiveOutOfOrder
    <2>1. toPhone' \in Seq(Frames)
      BY <1>5, ReceivesType DEF ReceiveSynAgain, ReceiveOutOfOrder
    <2>2. Write(AckFrame(sentSeq, lastRx), "Normal")
      BY <1>5 DEF ReceiveSynAgain, ReceiveOutOfOrder
    <2>3. toAcc' \in Seq(Frames) /\ state' \in States
      BY <1>a, <2>2, WriteType DEF States
    <2>4. PhoneTypeOK'
      BY <1>0, <1>5, <1>u, <2>3
      DEF ReceiveSynAgain, ReceiveOutOfOrder, PhoneTypeOK
    <2> QED BY <1>5, <2>1, <2>4, PeerTypeUnchanged
            DEF ReceiveSynAgain, ReceiveOutOfOrder, TypeOK
  <1>6. CASE ReceiveSyn
    <2>1. toPhone' \in Seq(Frames) /\ f \in Frames /\ f.kind \in {"SYN", "SYNACK"}
      BY <1>6, ReceivesType DEF ReceiveSyn
    <2>2. f.seq \in SeqNum /\ f.lsp \in Lsps
      BY <2>1, FrameFields
    <2>3. Clamp(f.lsp) \in Lsps /\ f.lsp.sid \in Sids
      BY <2>2, ClampType DEF Lsps
    <2>4. /\ pending' = Unacknowledged(f) /\ lsp' = Clamp(f.lsp)
          /\ sid' = IF f.lsp.sid = NoSid THEN sid ELSE f.lsp.sid
          /\ rxValid' = TRUE /\ lastRx' = f.seq
          /\ UNCHANGED <<sent, delivered, accVars>>
      BY <1>6 DEF ReceiveSyn
    <2>5. \/ SendSyn("SYNACK", f.seq, Clamp(f.lsp))
          \/ UNCHANGED <<state, sentSeq, synSeq, synOutstanding, toAcc>>
      BY <1>6 DEF ReceiveSyn
    <2>6. /\ toAcc' \in Seq(Frames) /\ state' \in States /\ sentSeq' \in SeqNum
          /\ synSeq' \in SeqNum /\ synOutstanding' \in BOOLEAN
      BY <1>0, <2>2, <2>3, <2>5, SendSynType DEF PhoneTypeOK
    <2>7. PhoneTypeOK'
      BY <1>0, <1>u, <2>2, <2>3, <2>4, <2>6 DEF PhoneTypeOK
    <2> QED BY <2>1, <2>4, <2>7, PeerTypeUnchanged DEF TypeOK
  <1>7. CASE ReceiveUnreadableSyn \/ ReceiveAck
    <2>1. toPhone' \in Seq(Frames)
      BY <1>7, ReceivesType DEF ReceiveUnreadableSyn, ReceiveAck
    <2>2. PhoneTypeOK'
      BY <1>0, <1>7, <1>u DEF ReceiveUnreadableSyn, ReceiveAck, PhoneTypeOK
    <2> QED BY <1>7, <2>1, <2>2, PeerTypeUnchanged
            DEF ReceiveUnreadableSyn, ReceiveAck, TypeOK
  <1>8. CASE ReceiveSynAck
    <2>1. toPhone' \in Seq(Frames)
      BY <1>8, ReceivesType DEF ReceiveSynAck
    <2>2. state' \in States /\ synOutstanding' \in BOOLEAN
      BY <1>0, <1>8 DEF ReceiveSynAck, PhoneTypeOK, States
    <2>3. PhoneTypeOK'
      BY <1>0, <1>8, <1>u, <2>2 DEF ReceiveSynAck, PhoneTypeOK
    <2> QED BY <1>8, <2>1, <2>3, PeerTypeUnchanged DEF ReceiveSynAck, TypeOK
  <1>9. CASE ReceiveData
    <2>1. toPhone' \in Seq(Frames) /\ f \in Frames /\ f.kind \in {"DATA"}
      BY <1>9, ReceivesType DEF ReceiveData
    <2>2. f.seq \in SeqNum /\ f.msg \in Nat
      BY <2>1, FrameFields
    <2>3. PICK n \in 0 .. MaxReplies :
            SendControl(Unacknowledged(f), n, f.seq,
                        <<AckFrame(Wrap(sentSeq + n), f.seq)>>)
      BY <1>9 DEF ReceiveData
    <2>4. n \in Nat /\ Wrap(sentSeq + n) \in SeqNum
      BY <1>0, BoundAssumption, SeqAssumption, WrapType DEF SeqNum
    <2>5. <<AckFrame(Wrap(sentSeq + n), f.seq)>> \in Seq(Frames)
      BY <2>2, <2>4 DEF AckFrame, Frames
    <2>6. /\ toAcc' \in Seq(Frames) /\ state' \in States /\ sentSeq' \in SeqNum
          /\ sent' \in Nat /\ DOMAIN pending' \subseteq 1 .. sent'
          /\ pending' \in [DOMAIN pending' -> PendingMessages]
      BY <1>u, <2>2, <2>3, <2>4, <2>5, SendControlType
    <2>7. delivered' \in Seq(Nat)
      BY <1>0, <1>9, <2>2, AppendProperties DEF ReceiveData, PhoneTypeOK
    <2>8. PhoneTypeOK'
      BY <1>0, <1>9, <2>2, <2>6, <2>7 DEF ReceiveData, PhoneTypeOK
    <2> QED BY <1>9, <2>1, <2>8, PeerTypeUnchanged DEF ReceiveData, TypeOK
  <1> QED BY <1>1, <1>2, <1>3, <1>4, <1>5, <1>6, <1>7, <1>8, <1>9
          DEF HandlePacket

LEMMA PeerSendsType ==
  ASSUME TypeOK, NEW frame \in Frames, PeerSends(frame)
  PROVE  toPhone' \in Seq(Frames)
  BY AppendProperties DEF PeerSends, TypeOK, PeerTypeOK

LEMMA PeerReceivesType ==
  ASSUME TypeOK, NEW kinds, PeerReceives(kinds)
  PROVE  /\ Head(toAcc) \in Frames
         /\ Head(toAcc).kind \in kinds
         /\ toAcc' \in Seq(Frames)
  BY HeadTailProperties DEF PeerReceives, TypeOK, PhoneTypeOK

(* A step of the accessory leaves the link alone. *)
LEMMA PhoneTypeUnchanged ==
  ASSUME TypeOK, UNCHANGED linkVars, toAcc' \in Seq(Frames)
  PROVE  PhoneTypeOK'
  BY DEF TypeOK, PhoneTypeOK, linkVars

LEMMA PeerSeqType == \A m \in Nat : PeerSeq(m) \in SeqNum
  BY WrapType, SeqAssumption DEF PeerSeq, SeqNum

LEMMA PeerTakesAckType ==
  ASSUME TypeOK, NEW ack, PeerTakesAck(ack)
  PROVE  accSynAcked' \in BOOLEAN /\ accAcked' \in 0 .. Len(accMsgs)
  <1>1. accSynAcked' \in BOOLEAN
    BY DEF PeerTakesAck
  <1>2. PICK n \in accAcked .. Len(accMsgs) : accAcked' = n
    BY DEF PeerTakesAck
  <1>3. accAcked \in 0 .. Len(accMsgs) /\ Len(accMsgs) \in Nat
    BY LenProperties DEF TypeOK, PeerTypeOK
  <1>4. accAcked' \in 0 .. Len(accMsgs)
    BY <1>2, <1>3
  <1> QED BY <1>1, <1>4

LEMMA PeerType ==
  ASSUME TypeOK, Peer \/ LoseFrame
  PROVE  TypeOK'
  <1>0. /\ PhoneTypeOK /\ PeerTypeOK /\ toAcc \in Seq(Frames)
        /\ accRx \in SeqNum /\ PeerSyn \in SeqNum /\ accLsp \in Lsps
        /\ Len(accMsgs) \in Nat
    BY SeqAssumption, LspAssumption, LenProperties DEF TypeOK, PhoneTypeOK, PeerTypeOK
  <1>1. CASE PeerMarker \/ PeerBreaksOff \/ PeerSendSyn
    <2>1. Marker \in Frames /\ PeerSynFrame \in Frames
      BY <1>0 DEF Marker, Frames, PeerSynFrame, SynFrame
    <2>2. \A kind \in {"RST", "LONG"} : [kind |-> kind] \in Frames
      BY DEF Frames
    <2>3. toPhone' \in Seq(Frames)
      BY <1>1, <2>1, <2>2, PeerSendsType DEF PeerMarker, PeerBreaksOff, PeerSendSyn
    <2>4. UNCHANGED <<linkVars, toAcc, accVars>>
      BY <1>1 DEF PeerMarker, PeerBreaksOff, PeerSendSyn
    <2> QED BY <1>0, <2>3, <2>4, PhoneTypeUnchanged, PeerTypeUnchanged DEF TypeOK
  <1>2. CASE PeerSendData
    <2>1. PICK s \in {IF accLsp.sid = NoSid THEN DefaultSid ELSE accLsp.sid, OtherSid} :
            /\ accMsgs' = Append(accMsgs, s)
            /\ PeerSends(DataFrame(PeerSeq(Len(accMsgs) + 1), accRx, s,
                                   Len(accMsgs) + 1))
      BY <1>2 DEF PeerSendData
    <2>2. s \in Sids
      BY <1>0, SidsType DEF Lsps
    <2>3. DataFrame(PeerSeq(Len(accMsgs) + 1), accRx, s, Len(accMsgs) + 1) \in Frames
      BY <1>0, <2>2, PeerSeqType DEF DataFrame, Frames
    <2>4. toPhone' \in Seq(Frames)
      BY <2>1, <2>3, PeerSendsType
    <2>5. accMsgs' \in Seq(Sids) /\ accAcked \in 0 .. Len(accMsgs')
      BY <1>0, <2>1, <2>2, AppendProperties DEF PeerTypeOK
    <2>6. PeerTypeOK'
      BY <1>0, <1>2, <2>4, <2>5 DEF PeerSendData, PeerTypeOK
    <2> QED BY <1>0, <1>2, <2>6, PhoneTypeUnchanged DEF PeerSendData, TypeOK
  <1>3. CASE PeerRepeatData
    <2>1. PICK m \in accAcked + 1 .. Len(accMsgs) : PeerSends(PeerDataFrame(m))
      BY <1>3 DEF PeerRepeatData
    <2>2. m \in 1 .. Len(accMsgs)
      BY <1>0 DEF PeerTypeOK
    <2>3. accMsgs[m] \in Sids
      BY <1>0, <2>2, ElementOfSeq DEF PeerTypeOK
    <2>4. PeerDataFrame(m) \in Frames
      BY <1>0, <2>2, <2>3, PeerSeqType DEF PeerDataFrame, DataFrame, Frames
    <2>5. toPhone' \in Seq(Frames)
      BY <2>1, <2>4, PeerSendsType
    <2> QED BY <1>0, <1>3, <2>5, PhoneTypeUnchanged, PeerTypeUnchanged
            DEF PeerRepeatData, TypeOK
  <1>4. CASE PeerReceiveSyn
    <2> DEFINE f == Head(toAcc)
               reply == IF PeerAcksEarly \/ accSynAcked'
                        THEN AckFrame(PeerSeq(Len(accMsgs)), accRx')
                        ELSE SynFrame("SYNACK", PeerSyn, accRx', accLsp)
    <2>1. toAcc' \in Seq(Frames) /\ f \in Frames /\ f.kind \in {"SYN", "SYNACK"}
      BY <1>4, PeerReceivesType DEF PeerReceiveSyn
    <2>2. accRx' \in SeqNum
      BY <1>0, <1>4, <2>1, FrameFields DEF PeerReceiveSyn
    <2>3. AckFrame(PeerSeq(Len(accMsgs)), accRx') \in Frames
      BY <1>0, <2>2, PeerSeqType DEF AckFrame, Frames
    <2>4. SynFrame("SYNACK", PeerSyn, accRx', accLsp) \in Frames
      BY <1>0, <2>2 DEF SynFrame, Frames
    <2>5. <<reply>> \in Seq(Frames)
      BY <2>3, <2>4
    <2>6. toPhone' \in Seq(Frames)
      BY <1>0, <1>4, <2>5, PutType DEF PeerReceiveSyn, PeerTypeOK
    <2>7. accSynAcked' \in BOOLEAN /\ accPhoneSyn' \in BOOLEAN
      BY <1>4 DEF PeerReceiveSyn
    <2>8. PeerTypeOK'
      BY <1>0, <1>4, <2>2, <2>6, <2>7 DEF PeerReceiveSyn, PeerTypeOK
    <2> QED BY <1>4, <2>1, <2>8, PhoneTypeUnchanged DEF PeerReceiveSyn, TypeOK
  <1>5. CASE PeerReceiveAck
    <2>1. toAcc' \in Seq(Frames)
      BY <1>5, PeerReceivesType DEF PeerReceiveAck
    <2>2. accSynAcked' \in BOOLEAN /\ accAcked' \in 0 .. Len(accMsgs)
      BY <1>5, PeerTakesAckType DEF PeerReceiveAck
    <2>3. PeerTypeOK'
      BY <1>0, <1>5, <2>2 DEF PeerReceiveAck, PeerTypeOK
    <2> QED BY <1>5, <2>1, <2>3, PhoneTypeUnchanged DEF PeerReceiveAck, TypeOK
  <1>6. CASE PeerReceiveData
    <2> DEFINE f == Head(toAcc)
    <2>1. toAcc' \in Seq(Frames) /\ f \in Frames /\ f.kind \in {"DATA"}
      BY <1>6, PeerReceivesType DEF PeerReceiveData
    <2>2. f.seq \in SeqNum /\ f.msg \in Nat
      BY <2>1, FrameFields
    <2>3. accRx' \in SeqNum /\ accGot' \in Seq(Nat)
      <3>1. accGot \in Seq(Nat) /\ Append(accGot, f.msg) \in Seq(Nat)
        BY <1>0, <2>2, AppendProperties DEF PeerTypeOK
      <3>2. \/ accRx' = f.seq /\ accGot' = Append(accGot, f.msg)
            \/ accRx' = accRx /\ accGot' = accGot
        BY <1>6 DEF PeerReceiveData
      <3> QED BY <1>0, <2>2, <3>1, <3>2
    <2>4. accSynAcked' \in BOOLEAN /\ accAcked' \in 0 .. Len(accMsgs)
      BY <1>6, PeerTakesAckType DEF PeerReceiveData
    <2>5. <<AckFrame(PeerSeq(Len(accMsgs)), accRx')>> \in Seq(Frames)
      BY <1>0, <2>3, PeerSeqType DEF AckFrame, Frames
    <2>6. toPhone' \in Seq(Frames)
      BY <1>0, <1>6, <2>5, PutType DEF PeerReceiveData, PeerTypeOK
    <2>7. PeerTypeOK'
      BY <1>0, <1>6, <2>3, <2>4, <2>6 DEF PeerReceiveData, PeerTypeOK
    <2> QED BY <1>6, <2>1, <2>7, PhoneTypeUnchanged DEF PeerReceiveData, TypeOK
  <1>7. CASE LoseFrame
    <2>1. toAcc' \in Seq(Frames) /\ toPhone' \in Seq(Frames)
      BY <1>0, <1>7, HeadTailProperties DEF LoseFrame, PeerTypeOK
    <2> QED BY <1>7, <2>1, PhoneTypeUnchanged, PeerTypeUnchanged
            DEF LoseFrame, TypeOK
  <1> QED BY <1>1, <1>2, <1>3, <1>4, <1>5, <1>6, <1>7 DEF Peer

LEMMA NextType == ASSUME TypeOK, Next PROVE TypeOK'
  BY DriverType, HandlePacketType, PeerType DEF Next

(* Every variable of the link, of the channels and of the accessory keeps   *)
(* its type in every behaviour of the link layer: sequence numbers stay     *)
(* within their width, frames stay well formed, and pending_ only holds     *)
(* messages that were sent.                                                 *)
THEOREM TypeCorrect == Spec => []TypeOK
  <1>1. Init => TypeOK
    BY InitType
  <1>2. TypeOK /\ [Next]_vars => TypeOK'
    <2> SUFFICES ASSUME TypeOK, [Next]_vars PROVE TypeOK'
      OBVIOUS
    <2>1. CASE UNCHANGED vars
      BY <2>1 DEF vars, linkVars, accVars, TypeOK, PhoneTypeOK, PeerTypeOK
    <2>2. CASE Next
      BY <2>2, NextType
    <2> QED BY <2>1, <2>2
  <1> QED BY <1>1, <1>2, PTL DEF Spec

-----------------------------------------------------------------------------
(* The handshake.  NORMAL needs an ACK of the accessory, which it sends     *)
(* once its own SYN is acknowledged, which the phone does once it has       *)
(* adopted the parameters in it.  The invariant follows that chain through  *)
(* the frames in flight.  It holds with an accessory that keeps to this     *)
(* order; what the accessory's stream needs of it is used further down.     *)

(* The phone has read the accessory's SYN and uses its parameters. *)
Adopted == rxValid /\ lsp = Clamp(accLsp)

ToAccFrames ==
  \A i \in 1 .. Len(toAcc) :
    /\ toAcc[i].kind = "SYNACK" => Adopted
    /\ toAcc[i].kind \in {"ACK", "DATA"} => Adopted /\ accPhoneSyn

ToPhoneFrames ==
  \A i \in 1 .. Len(toPhone) :
    /\ toPhone[i].kind \in {"ACK", "DATA"} => Adopted /\ accPhoneSyn
    /\ toPhone[i].kind \in {"SYN", "SYNACK"} => toPhone[i].lsp = accLsp

HandshakeInv ==
  /\ rxValid => Adopted
  /\ state = "Normal" => Adopted /\ accPhoneSyn
  /\ accSynAcked => Adopted
  /\ Len(accMsgs) > 0 => Adopted /\ accPhoneSyn
  /\ ToAccFrames
  /\ ToPhoneFrames

(* A written channel holds frames it held before and frames written to it.  *)
LEMMA PutElements ==
  ASSUME NEW c \in Seq(Frames), NEW fs \in Seq(Frames),
         NEW i \in 1 .. Len(Put(c, fs))
  PROVE  \/ \E j \in 1 .. Len(c) : Put(c, fs)[i] = c[j]
         \/ \E j \in 1 .. Len(fs) : Put(c, fs)[i] = fs[j]
  <1> DEFINE all == c \o fs
             excess == Len(all) - ChannelCap
  <1>1. /\ all \in Seq(Frames)
        /\ Len(all) = Len(c) + Len(fs)
        /\ Len(c) \in Nat /\ Len(fs) \in Nat
    BY ConcatProperties, LenProperties
  <1>2. \A k \in 1 .. Len(all) : \/ \E j \in 1 .. Len(c) : all[k] = c[j]
                                 \/ \E j \in 1 .. Len(fs) : all[k] = fs[j]
    <2> SUFFICES ASSUME NEW k \in 1 .. Len(all)
                 PROVE  \/ \E j \in 1 .. Len(c) : all[k] = c[j]
                        \/ \E j \in 1 .. Len(fs) : all[k] = fs[j]
      OBVIOUS
    <2>1. CASE k <= Len(c)
      <3>1. k \in 1 .. Len(c) /\ all[k] = c[k]
        BY <1>1, <2>1, ConcatProperties
      <3> QED BY <3>1
    <2>2. CASE k > Len(c)
      <3>1. k - Len(c) \in 1 .. Len(fs) /\ all[k] = fs[k - Len(c)]
        BY <1>1, <2>2, ConcatProperties
      <3> QED BY <3>1
    <2> QED BY <1>1, <2>1, <2>2
  <1>3. excess \in Int
    BY <1>1, BoundAssumption
  <1>4. CASE excess > 0
    <2>1. Put(c, fs) = SubSeq(all, excess + 1, Len(all))
      BY <1>4 DEF Put
    <2>2. /\ Len(Put(c, fs)) = Len(all) - excess
          /\ Put(c, fs)[i] = all[excess + i]
      BY <1>1, <1>3, <1>4, <2>1, BoundAssumption, SubSeqProperties
    <2>3. excess + i \in 1 .. Len(all)
      BY <1>1, <1>3, <1>4, <2>2
    <2> QED BY <1>2, <2>2, <2>3
  <1>5. CASE ~ (excess > 0)
    <2>1. Put(c, fs) = all
      BY <1>5 DEF Put
    <2> QED BY <1>2, <2>1
  <1> QED BY <1>4, <1>5
(* What is left of a channel was in it. *)
LEMMA TailElements ==
  ASSUME NEW c \in Seq(Frames), c # <<>>
  PROVE  \A i \in 1 .. Len(Tail(c)) : \E j \in 1 .. Len(c) : Tail(c)[i] = c[j]
  <1>1. Len(c) \in Nat /\ Len(Tail(c)) = Len(c) - 1
    BY HeadTailProperties, LenProperties
  <1>2. \A i \in 1 .. Len(Tail(c)) : i + 1 \in 1 .. Len(c) /\ Tail(c)[i] = c[i + 1]
    BY <1>1, HeadTailProperties
  <1> QED BY <1>2

(* The phone's channel after a write. *)
LEMMA ToAccWritten ==
  ASSUME TypeOK, HandshakeInv, NEW fs \in Seq(Frames), toAcc' = Put(toAcc, fs),
         Adopted => Adopted', accPhoneSyn => accPhoneSyn',
         \A j \in 1 .. Len(fs) :
           /\ fs[j].kind = "SYNACK" => Adopted'
           /\ fs[j].kind \in {"ACK", "DATA"} => Adopted' /\ accPhoneSyn'
  PROVE  ToAccFrames'
  <1>1. toAcc \in Seq(Frames)
    BY DEF TypeOK, PhoneTypeOK
  <1> SUFFICES ASSUME NEW i \in 1 .. Len(toAcc')
               PROVE  /\ toAcc'[i].kind = "SYNACK" => Adopted'
                      /\ toAcc'[i].kind \in {"ACK", "DATA"} => Adopted' /\ accPhoneSyn'
    BY DEF ToAccFrames
  <1>2. \/ \E j \in 1 .. Len(toAcc) : toAcc'[i] = toAcc[j]
        \/ \E j \in 1 .. Len(fs) : toAcc'[i] = fs[j]
    BY <1>1, PutElements
  <1> QED BY <1>2 DEF HandshakeInv, ToAccFrames

(* The phone's channel after a read, or left alone. *)
LEMMA ToAccRead ==
  ASSUME TypeOK, HandshakeInv, (toAcc' = Tail(toAcc) /\ toAcc # <<>>) \/ toAcc' = toAcc,
         Adopted => Adopted', accPhoneSyn => accPhoneSyn'
  PROVE  ToAccFrames'
  <1>1. toAcc \in Seq(Frames) /\ Len(toAcc) \in Nat
    BY LenProperties DEF TypeOK, PhoneTypeOK
  <1>2. \A i \in 1 .. Len(toAcc') : \E j \in 1 .. Len(toAcc) : toAcc'[i] = toAcc[j]
    BY <1>1, TailElements
  <1> QED BY <1>2 DEF HandshakeInv, ToAccFrames

(* The accessory's channel after a write. *)
LEMMA ToPhoneWritten ==
  ASSUME TypeOK, HandshakeInv, NEW fs \in Seq(Frames), toPhone' = Put(toPhone, fs),
         Adopted => Adopted', accPhoneSyn => accPhoneSyn', accLsp' = accLsp,
         \A j \in 1 .. Len(fs) :
           /\ fs[j].kind \in {"ACK", "DATA"} => Adopted' /\ accPhoneSyn'
           /\ fs[j].kind \in {"SYN", "SYNACK"} => fs[j].lsp = accLsp
  PROVE  ToPhoneFrames'
  <1>1. toPhone \in Seq(Frames)
    BY DEF TypeOK, PeerTypeOK
  <1> SUFFICES ASSUME NEW i \in 1 .. Len(toPhone')
               PROVE  /\ toPhone'[i].kind \in {"ACK", "DATA"} => Adopted' /\ accPhoneSyn'
                      /\ toPhone'[i].kind \in {"SYN", "SYNACK"} => toPhone'[i].lsp = accLsp'
    BY DEF ToPhoneFrames
  <1>2. \/ \E j \in 1 .. Len(toPhone) : toPhone'[i] = toPhone[j]
        \/ \E j \in 1 .. Len(fs) : toPhone'[i] = fs[j]
    BY <1>1, PutElements
  <1> QED BY <1>2 DEF HandshakeInv, ToPhoneFrames

(* The accessory's channel after a read, or left alone. *)
LEMMA ToPhoneRead ==
  ASSUME TypeOK, HandshakeInv,
         (toPhone' = Tail(toPhone) /\ toPhone # <<>>) \/ toPhone' = toPhone,
         Adopted => Adopted', accPhoneSyn => accPhoneSyn', accLsp' = accLsp
  PROVE  ToPhoneFrames'
  <1>1. toPhone \in Seq(Frames) /\ Len(toPhone) \in Nat
    BY LenProperties DEF TypeOK, PeerTypeOK
  <1>2. \A i \in 1 .. Len(toPhone') : \E j \in 1 .. Len(toPhone) : toPhone'[i] = toPhone[j]
    BY <1>1, TailElements
  <1> QED BY <1>2 DEF HandshakeInv, ToPhoneFrames

(* The frame at the head of the accessory's channel. *)
LEMMA HeadToPhone ==
  ASSUME TypeOK, HandshakeInv, toPhone # <<>>
  PROVE  /\ Head(toPhone).kind \in {"ACK", "DATA"} => Adopted /\ accPhoneSyn
         /\ Head(toPhone).kind \in {"SYN", "SYNACK"} => Head(toPhone).lsp = accLsp
  <1>1. 1 \in 1 .. Len(toPhone) /\ Head(toPhone) = toPhone[1]
    BY HeadTailProperties, LenProperties, EmptySeq DEF TypeOK, PeerTypeOK
  <1> QED BY <1>1 DEF HandshakeInv, ToPhoneFrames

(* The frame at the head of the phone's channel. *)
LEMMA HeadToAcc ==
  ASSUME TypeOK, HandshakeInv, toAcc # <<>>
  PROVE  /\ Head(toAcc).kind = "SYNACK" => Adopted
         /\ Head(toAcc).kind \in {"ACK", "DATA"} => Adopted /\ accPhoneSyn
  <1>1. 1 \in 1 .. Len(toAcc) /\ Head(toAcc) = toAcc[1]
    BY HeadTailProperties, LenProperties, EmptySeq DEF TypeOK, PhoneTypeOK
  <1> QED BY <1>1 DEF HandshakeInv, ToAccFrames

(* A write of one frame, refused or not. *)
LEMMA WriteHandshake ==
  ASSUME TypeOK, HandshakeInv, NEW frame \in Frames, NEW next, Write(frame, next),
         Adopted => Adopted', accPhoneSyn => accPhoneSyn',
         frame.kind = "SYNACK" => Adopted',
         frame.kind \in {"ACK", "DATA"} => Adopted' /\ accPhoneSyn'
  PROVE  ToAccFrames' /\ state' \in {next, "Dead"}
  <1>1. CASE toAcc' = toAcc /\ state' = "Dead"
    BY <1>1, ToAccRead
  <1>2. CASE toAcc' = Put(toAcc, <<frame>>) /\ state' = next
    <2>1. <<frame>> \in Seq(Frames) /\ Len(<<frame>>) = 1 /\ <<frame>>[1] = frame
      OBVIOUS
    <2>2. \A j \in 1 .. Len(<<frame>>) : <<frame>>[j] = frame
      BY <2>1
    <2>3. ToAccFrames'
      BY <1>2, <2>1, <2>2, ToAccWritten
    <2> QED BY <1>2, <2>3
  <1> QED BY <1>1, <1>2 DEF Write

LEMMA SendSynHandshake ==
  ASSUME TypeOK, HandshakeInv, NEW kind \in {"SYN", "SYNACK"}, NEW ack \in SeqNum,
         NEW l \in Lsps, SendSyn(kind, ack, l),
         Adopted => Adopted', accPhoneSyn => accPhoneSyn',
         kind = "SYNACK" => Adopted'
  PROVE  ToAccFrames' /\ state' \in {"Negotiate", "Dead"}
  <1> DEFINE seq == IF synOutstanding THEN synSeq ELSE Wrap(sentSeq + 1)
  <1>1. seq \in SeqNum
    BY WrapType, SeqAssumption DEF TypeOK, PhoneTypeOK, SeqNum
  <1>2. /\ SynFrame(kind, seq, ack, l) \in Frames
        /\ SynFrame(kind, seq, ack, l).kind = kind
    BY <1>1 DEF SynFrame, Frames
  <1>3. Write(SynFrame(kind, seq, ack, l), "Negotiate")
    BY DEF SendSyn
  <1> QED BY <1>2, <1>3, WriteHandshake

(* On an established link everything may be written. *)
LEMMA SendControlHandshake ==
  ASSUME TypeOK, HandshakeInv, state = "Normal",
         NEW n \in Nat, NEW ack \in SeqNum, NEW queue,
         NEW trailer \in Seq(Frames), SendControl(queue, n, ack, trailer),
         Adopted => Adopted', accPhoneSyn => accPhoneSyn'
  PROVE  ToAccFrames' /\ state' \in {"Normal", "Dead"}
  <1>1. Adopted' /\ accPhoneSyn'
    BY DEF HandshakeInv
  <1>2. /\ NewFrames(n, ack) \in Seq(Frames)
        /\ NewFrames(n, ack) \o trailer \in Seq(Frames)
    BY NewFramesType, ConcatProperties
  <1>3. \A k \in 1 .. n : NewFrames(k - 1, ack) \in Seq(Frames)
    BY NewFramesType
  <1>4. \E fs \in Seq(Frames) : toAcc' = Put(toAcc, fs)
    BY <1>2, <1>3 DEF SendControl
  <1>5. state' \in {"Normal", "Dead"}
    BY DEF SendControl
  <1> QED BY <1>1, <1>4, <1>5, ToAccWritten

(* No step undoes the adoption of the accessory's parameters, or makes the  *)
(* accessory forget the phone.                                              *)
LEMMA HandshakeMonotone ==
  ASSUME TypeOK, HandshakeInv, Next
  PROVE  /\ Adopted => Adopted'
         /\ accPhoneSyn => accPhoneSyn'
         /\ accLsp' = accLsp
         /\ rxValid' => rxValid \/ Adopted' \/ state = "Normal"
  <1>1. CASE ReceiveSyn
    <2>1. Head(toPhone).lsp = accLsp
      BY <1>1, HeadToPhone DEF ReceiveSyn, Receives
    <2> QED BY <1>1, <2>1 DEF ReceiveSyn, Adopted, accVars
  <1>2. CASE Start \/ MarkerFails \/ Tick \/ Submit
    <2>1. UNCHANGED <<rxValid, lsp, accVars>>
      BY <1>2 DEF Start, MarkerFails, Tick, RepeatSyn, Retransmit, Submit
    <2> QED BY <2>1 DEF Adopted, accVars
  <1>3. CASE \/ ReceiveMarker \/ ReceiveNoise \/ ReceiveLong \/ ReceiveReset
             \/ ReceiveSynAgain \/ ReceiveUnreadableSyn \/ ReceiveSynAck
             \/ ReceiveAck \/ ReceiveOutOfOrder
    BY <1>3 DEF ReceiveMarker, ReceiveNoise, ReceiveLong, ReceiveReset,
                ReceiveSynAgain, ReceiveUnreadableSyn, ReceiveSynAck,
                ReceiveAck, ReceiveOutOfOrder, Adopted, linkVars, accVars
  <1>4. CASE Peer \/ LoseFrame
    BY <1>4 DEF Peer, LoseFrame, PeerMarker, PeerSendSyn, PeerBreaksOff,
                PeerSendData, PeerRepeatData, PeerReceiveSyn, PeerReceiveAck,
                PeerReceiveData, Adopted, linkVars, accVars
  <1>5. CASE ReceiveData
    <2>1. UNCHANGED <<lsp, accVars>> /\ rxValid' = TRUE /\ state = "Normal"
      BY <1>5 DEF ReceiveData
    <2> QED BY <2>1 DEF Adopted, accVars
  <1> QED BY <1>1, <1>2, <1>3, <1>4, <1>5 DEF Next, HandlePacket

(* The steps of the phone: only an ACK leads to NORMAL, and an ACK is only  *)
(* received once the parameters are adopted.                                *)
LEMMA PhoneHandshake ==
  ASSUME TypeOK, HandshakeInv,
         Start \/ MarkerFails \/ Tick \/ Submit \/ HandlePacket
  PROVE  HandshakeInv'
  <1> DEFINE f == Head(toPhone)
  <1>0. /\ Adopted => Adopted'
        /\ accPhoneSyn => accPhoneSyn'
        /\ accLsp' = accLsp
        /\ rxValid' => rxValid \/ Adopted' \/ state = "Normal"
    BY HandshakeMonotone DEF Next
  <1>1. UNCHANGED accVars
    BY DEF Start, MarkerFails, Tick, RepeatSyn, Retransmit, Submit, HandlePacket,
           ReceiveMarker, ReceiveNoise, ReceiveLong, ReceiveReset,
           ReceiveSynAgain, ReceiveSyn, ReceiveUnreadableSyn, ReceiveSynAck,
           ReceiveAck, ReceiveOutOfOrder, ReceiveData
  <1>2. (toPhone' = Tail(toPhone) /\ toPhone # <<>>) \/ toPhone' = toPhone
    BY DEF Start, MarkerFails, Tick, RepeatSyn, Retransmit, Submit, HandlePacket,
           ReceiveMarker, ReceiveNoise, ReceiveLong, ReceiveReset,
           ReceiveSynAgain, ReceiveSyn, ReceiveUnreadableSyn, ReceiveSynAck,
           ReceiveAck, ReceiveOutOfOrder, ReceiveData, Receives
  <1>3. ToPhoneFrames'
    BY <1>0, <1>2, ToPhoneRead
  <1>4. /\ rxValid' => Adopted'
        /\ accSynAcked' => Adopted'
        /\ Len(accMsgs') > 0 => Adopted' /\ accPhoneSyn'
    BY <1>0, <1>1 DEF HandshakeInv, accVars
  <1>5. lastRx \in SeqNum /\ sentSeq \in SeqNum /\ lsp \in Lsps
    BY DEF TypeOK, PhoneTypeOK
  <1>6. ASSUME toAcc' = toAcc, state' \in {state, "Dead"}
        PROVE  HandshakeInv'
    <2>1. ToAccFrames'
      BY <1>0, <1>6, ToAccRead
    <2>2. state' = "Normal" => Adopted' /\ accPhoneSyn'
      BY <1>0, <1>6 DEF HandshakeInv
    <2> QED BY <1>3, <1>4, <2>1, <2>2 DEF HandshakeInv
  <1>7. ASSUME ToAccFrames', state' \in {"Negotiate", "Dead"}
                             \/ state = "Normal"
        PROVE  HandshakeInv'
    BY <1>0, <1>3, <1>4, <1>7 DEF HandshakeInv
  <1>8. CASE Start \/ RepeatSyn \/ ReceiveMarker
    <2>1. SendSyn("SYN", lastRx, lsp)
      BY <1>8 DEF Start, RepeatSyn, ReceiveMarker
    <2> QED BY <1>0, <1>5, <1>7, <2>1, SendSynHandshake
  <1>9. CASE MarkerFails \/ ReceiveNoise \/ ReceiveLong \/ ReceiveReset
             \/ ReceiveUnreadableSyn \/ ReceiveAck
    BY <1>6, <1>9 DEF MarkerFails, ReceiveNoise, ReceiveLong, ReceiveReset,
                      ReceiveUnreadableSyn, ReceiveAck, linkVars
  <1>10. ASSUME NEW m \in DOMAIN pending, Retransmit(m)
         PROVE  HandshakeInv'
    <2>1. state = "Normal" /\ Adopted' /\ accPhoneSyn'
      BY <1>0, <1>10 DEF Retransmit, HandshakeInv
    <2>2. <<pending[m].frame>> \in Seq(Frames)
      <3>1. pending[m] \in PendingMessages
        BY DEF TypeOK, PhoneTypeOK
      <3> QED BY <3>1 DEF PendingMessages, Frames
    <2>3. toAcc' = toAcc \/ toAcc' = Put(toAcc, <<pending[m].frame>>)
      BY <1>10 DEF Retransmit
    <2>4. ToAccFrames'
      BY <1>0, <2>1, <2>2, <2>3, ToAccWritten, ToAccRead
    <2> QED BY <1>7, <2>1, <2>4
  <1>11. CASE Submit
    <2>1. SendControl(pending, 1, lastRx, <<>>) /\ state = "Normal"
      BY <1>11 DEF Submit
    <2>2. <<>> \in Seq(Frames)
      BY EmptySeq
    <2>3. ToAccFrames'
      BY <1>0, <1>5, <2>1, <2>2, SendControlHandshake
    <2> QED BY <1>7, <2>1, <2>3
  <1>12. CASE ReceiveSynAgain \/ ReceiveOutOfOrder
    <2>1. Write(AckFrame(sentSeq, lastRx), "Normal") /\ state = "Normal"
      BY <1>12 DEF ReceiveSynAgain, ReceiveOutOfOrder
    <2>2. /\ AckFrame(sentSeq, lastRx) \in Frames
          /\ AckFrame(sentSeq, lastRx).kind = "ACK"
      BY <1>5 DEF AckFrame, Frames
    <2>3. Adopted' /\ accPhoneSyn'
      BY <1>0, <2>1 DEF HandshakeInv
    <2>4. ToAccFrames'
      BY <1>0, <2>1, <2>2, <2>3, WriteHandshake
    <2> QED BY <1>7, <2>1, <2>4
  <1>13. CASE ReceiveSyn
    <2>1. f \in Frames /\ f.kind \in {"SYN", "SYNACK"} /\ toPhone # <<>>
      BY <1>13, ReceivesType DEF ReceiveSyn, Receives
    <2>2. f.lsp = accLsp /\ f.seq \in SeqNum /\ f.lsp \in Lsps
      BY <2>1, HeadToPhone, FrameFields
    <2>3. Clamp(f.lsp) \in Lsps
      BY <2>2, ClampType
    <2>4. Adopted'
      BY <1>0, <1>13, <2>2 DEF ReceiveSyn, Adopted
    <2>5. CASE state = "Negotiate"
      <3>1. SendSyn("SYNACK", f.seq, Clamp(f.lsp))
        BY <1>13, <2>5 DEF ReceiveSyn
      <3> QED BY <1>0, <1>7, <2>2, <2>3, <2>4, <3>1, SendSynHandshake
    <2>6. CASE state # "Negotiate"
      BY <1>6, <1>13, <2>6 DEF ReceiveSyn
    <2> QED BY <2>5, <2>6
  <1>14. CASE ReceiveSynAck
    <2>1. f.kind \in {"ACK", "DATA"} /\ toPhone # <<>>
      BY <1>14 DEF ReceiveSynAck, Receives
    <2>2. Adopted' /\ accPhoneSyn'
      BY <1>0, <2>1, HeadToPhone
    <2>3. toAcc' = toAcc
      BY <1>14 DEF ReceiveSynAck
    <2>4. ToAccFrames'
      BY <1>0, <2>3, ToAccRead
    <2> QED BY <1>3, <1>4, <2>2, <2>4 DEF HandshakeInv
  <1>15. CASE ReceiveData
    <2>1. f \in Frames /\ f.kind \in {"DATA"}
      BY <1>15, ReceivesType DEF ReceiveData
    <2>2. f.seq \in SeqNum
      BY <2>1, FrameFields
    <2>3. PICK n \in 0 .. MaxReplies :
            SendControl(Unacknowledged(f), n, f.seq,
                        <<AckFrame(Wrap(sentSeq + n), f.seq)>>)
      BY <1>15 DEF ReceiveData
    <2>4. n \in Nat /\ Wrap(sentSeq + n) \in SeqNum
      BY <1>5, BoundAssumption, SeqAssumption, WrapType DEF SeqNum
    <2>5. <<AckFrame(Wrap(sentSeq + n), f.seq)>> \in Seq(Frames)
      BY <2>2, <2>4 DEF AckFrame, Frames
    <2>6. state = "Normal"
      BY <1>15 DEF ReceiveData
    <2>7. ToAccFrames'
      BY <1>0, <2>2, <2>3, <2>4, <2>5, <2>6, SendControlHandshake
    <2> QED BY <1>7, <2>6, <2>7
  <1> QED BY <1>8, <1>9, <1>10, <1>11, <1>12, <1>13, <1>14, <1>15
          DEF Tick, HandlePacket

(* The steps of the accessory: it acknowledges the phone's SYN only with    *)
(* its own, until the phone has acknowledged that.                          *)
LEMMA PeerHandshake ==
  ASSUME TypeOK, HandshakeInv, ~ PeerAcksEarly, Peer \/ LoseFrame
  PROVE  HandshakeInv'
  <1>0. /\ Adopted => Adopted'
        /\ accPhoneSyn => accPhoneSyn'
        /\ accLsp' = accLsp
    BY HandshakeMonotone DEF Next
  <1>1. UNCHANGED <<state, rxValid, lsp>>
    BY DEF Peer, LoseFrame, PeerMarker, PeerSendSyn, PeerBreaksOff,
           PeerSendData, PeerRepeatData, PeerReceiveSyn, PeerReceiveAck,
           PeerReceiveData, linkVars
  <1>2. /\ rxValid' => Adopted'
        /\ state' = "Normal" => Adopted' /\ accPhoneSyn'
    BY <1>0, <1>1 DEF HandshakeInv
  <1>3. (toAcc' = Tail(toAcc) /\ toAcc # <<>>) \/ toAcc' = toAcc
    BY DEF Peer, LoseFrame, PeerMarker, PeerSendSyn, PeerBreaksOff,
           PeerSendData, PeerRepeatData, PeerReceiveSyn, PeerReceiveAck,
           PeerReceiveData, PeerReceives
  <1>4. ToAccFrames'
    BY <1>0, <1>3, ToAccRead
  <1>5. /\ accLsp \in Lsps /\ accRx \in SeqNum /\ PeerSyn \in SeqNum
        /\ Len(accMsgs) \in Nat /\ toPhone \in Seq(Frames)
    BY LspAssumption, SeqAssumption, LenProperties DEF TypeOK, PeerTypeOK
  <1>6. ASSUME NEW frame \in Frames, PeerSends(frame),
               frame.kind \in {"ACK", "DATA"} => Adopted' /\ accPhoneSyn',
               frame.kind \in {"SYN", "SYNACK"} => frame.lsp = accLsp
        PROVE  ToPhoneFrames'
    <2>1. toPhone' = Append(toPhone, frame)
      BY <1>6 DEF PeerSends
    <2>2. \A i \in 1 .. Len(toPhone') :
            \/ i \in 1 .. Len(toPhone) /\ toPhone'[i] = toPhone[i]
            \/ toPhone'[i] = frame
      BY <1>5, <2>1, AppendProperties, LenProperties
    <2> QED BY <1>0, <1>6, <2>2 DEF HandshakeInv, ToPhoneFrames
  <1>7. CASE PeerMarker \/ PeerSendSyn \/ PeerBreaksOff \/ PeerRepeatData
    <2>1. UNCHANGED accVars
      BY <1>7 DEF PeerMarker, PeerSendSyn, PeerBreaksOff, PeerRepeatData
    <2>2. /\ accSynAcked' => Adopted'
          /\ Len(accMsgs') > 0 => Adopted' /\ accPhoneSyn'
      BY <1>0, <2>1 DEF HandshakeInv, accVars
    <2>3. ToPhoneFrames'
      <3>1. CASE PeerMarker
        BY <1>6, <3>1 DEF PeerMarker, Marker, Frames
      <3>2. CASE PeerSendSyn
        <4>1. /\ PeerSynFrame \in Frames
              /\ PeerSynFrame.kind \in {"SYN", "SYNACK"}
              /\ PeerSynFrame.lsp = accLsp
          BY <1>5 DEF PeerSynFrame, SynFrame, Frames
        <4> QED BY <1>6, <3>2, <4>1 DEF PeerSendSyn
      <3>3. CASE PeerBreaksOff
        BY <1>6, <3>3 DEF PeerBreaksOff, Frames
      <3>4. CASE PeerRepeatData
        <4>1. PICK m \in accAcked + 1 .. Len(accMsgs) : PeerSends(PeerDataFrame(m))
          BY <3>4 DEF PeerRepeatData
        <4>2. m \in 1 .. Len(accMsgs)
          BY <1>5 DEF TypeOK, PeerTypeOK
        <4>3. accMsgs[m] \in Sids
          BY <4>2, ElementOfSeq DEF TypeOK, PeerTypeOK
        <4>4. PeerDataFrame(m) \in Frames /\ PeerDataFrame(m).kind = "DATA"
          BY <1>5, <4>2, <4>3, PeerSeqType DEF PeerDataFrame, DataFrame, Frames
        <4>5. Adopted' /\ accPhoneSyn'
          BY <1>0, <1>5, <4>2 DEF HandshakeInv
        <4> QED BY <1>6, <4>1, <4>4, <4>5
      <3> QED BY <1>7, <3>1, <3>2, <3>3, <3>4
    <2> QED BY <1>2, <1>4, <2>2, <2>3 DEF HandshakeInv
  <1>8. CASE PeerSendData
    <2>1. PICK s \in {IF accLsp.sid = NoSid THEN DefaultSid ELSE accLsp.sid, OtherSid} :
            PeerSends(DataFrame(PeerSeq(Len(accMsgs) + 1), accRx, s, Len(accMsgs) + 1))
      BY <1>8 DEF PeerSendData
    <2>2. s \in Sids
      BY <1>5, SidsType DEF Lsps
    <2> DEFINE frame == DataFrame(PeerSeq(Len(accMsgs) + 1), accRx, s, Len(accMsgs) + 1)
    <2>3. frame \in Frames /\ frame.kind = "DATA"
      BY <1>5, <2>2, PeerSeqType DEF DataFrame, Frames
    <2>4. Adopted' /\ accPhoneSyn' /\ UNCHANGED accSynAcked
      BY <1>0, <1>8 DEF PeerSendData, HandshakeInv
    <2>5. ToPhoneFrames'
      BY <1>6, <2>1, <2>3, <2>4
    <2> QED BY <1>2, <1>4, <2>4, <2>5 DEF HandshakeInv
  <1>9. CASE PeerReceiveSyn
    <2> DEFINE reply == IF PeerAcksEarly \/ accSynAcked'
                        THEN AckFrame(PeerSeq(Len(accMsgs)), accRx')
                        ELSE SynFrame("SYNACK", PeerSyn, accRx', accLsp)
    <2>1. toAcc # <<>> /\ Head(toAcc) \in Frames /\ Head(toAcc).kind \in {"SYN", "SYNACK"}
      BY <1>9, PeerReceivesType DEF PeerReceiveSyn, PeerReceives
    <2>2. accSynAcked' => Adopted'
      BY <1>0, <1>9, <2>1, HeadToAcc DEF PeerReceiveSyn, HandshakeInv
    <2>3. accPhoneSyn' /\ UNCHANGED accMsgs
      BY <1>9 DEF PeerReceiveSyn
    <2>4. accRx' \in SeqNum
      BY <1>5, <1>9, <2>1, FrameFields DEF PeerReceiveSyn
    <2>5. CASE accSynAcked'
      <3>1. reply = AckFrame(PeerSeq(Len(accMsgs)), accRx')
        BY <2>5
      <3>2. reply \in Frames /\ reply.kind = "ACK"
        BY <1>5, <2>4, <3>1, PeerSeqType DEF AckFrame, Frames
      <3>3. <<reply>> \in Seq(Frames) /\ \A j \in 1 .. Len(<<reply>>) : <<reply>>[j] = reply
        BY <3>2
      <3>4. toPhone' = Put(toPhone, <<reply>>)
        BY <1>9 DEF PeerReceiveSyn
      <3>5. ToPhoneFrames'
        <4> HIDE DEF reply
        <4> QED BY <1>0, <2>2, <2>3, <2>5, <3>2, <3>3, <3>4, ToPhoneWritten
      <3> QED BY <1>0, <1>2, <1>4, <2>2, <2>3, <3>5 DEF HandshakeInv
    <2>6. CASE ~ accSynAcked'
      <3>1. reply = SynFrame("SYNACK", PeerSyn, accRx', accLsp)
        BY <2>6
      <3>2. reply \in Frames /\ reply.kind = "SYNACK" /\ reply.lsp = accLsp
        BY <1>5, <2>4, <3>1 DEF SynFrame, Frames
      <3>3. <<reply>> \in Seq(Frames) /\ \A j \in 1 .. Len(<<reply>>) : <<reply>>[j] = reply
        BY <3>2
      <3>4. toPhone' = Put(toPhone, <<reply>>)
        BY <1>9 DEF PeerReceiveSyn
      <3>5. ToPhoneFrames'
        <4> HIDE DEF reply
        <4> QED BY <1>0, <3>2, <3>3, <3>4, ToPhoneWritten
      <3> QED BY <1>0, <1>2, <1>4, <2>2, <2>3, <3>5 DEF HandshakeInv
    <2> QED BY <2>5, <2>6
  <1>10. CASE PeerReceiveAck \/ PeerReceiveData
    <2>1. toAcc # <<>> /\ Head(toAcc) \in Frames /\ Head(toAcc).kind \in {"ACK", "DATA"}
      BY <1>10, PeerReceivesType DEF PeerReceiveAck, PeerReceiveData, PeerReceives
    <2>2. Adopted' /\ accPhoneSyn'
      BY <1>0, <2>1, HeadToAcc
    <2>3. ToPhoneFrames'
      <3>1. CASE PeerReceiveAck
        BY <1>0, <3>1, ToPhoneRead DEF PeerReceiveAck
      <3>2. CASE PeerReceiveData
        <4> DEFINE reply == AckFrame(PeerSeq(Len(accMsgs)), accRx')
        <4>1. Head(toAcc).seq \in SeqNum
          BY <2>1, <3>2, FrameFields DEF PeerReceiveData, PeerReceives
        <4>2. accRx' \in SeqNum
          BY <1>5, <3>2, <4>1 DEF PeerReceiveData
        <4>3. reply \in Frames /\ reply.kind = "ACK"
          BY <1>5, <4>2, PeerSeqType DEF AckFrame, Frames
        <4>4. <<reply>> \in Seq(Frames) /\ \A j \in 1 .. Len(<<reply>>) : <<reply>>[j] = reply
          BY <4>3
        <4>5. toPhone' = Put(toPhone, <<reply>>)
          BY <3>2 DEF PeerReceiveData
        <4> HIDE DEF reply
        <4> QED BY <1>0, <2>2, <4>3, <4>4, <4>5, ToPhoneWritten
      <3> QED BY <1>10, <3>1, <3>2
    <2> QED BY <1>2, <1>4, <2>2, <2>3 DEF HandshakeInv
  <1>11. CASE LoseFrame
    <2>1. UNCHANGED accVars
      BY <1>11 DEF LoseFrame
    <2>2. ToPhoneFrames'
      BY <1>0, <1>11, ToPhoneRead DEF LoseFrame
    <2> QED BY <1>0, <1>2, <1>4, <2>1, <2>2 DEF HandshakeInv, accVars
  <1> QED BY <1>7, <1>8, <1>9, <1>10, <1>11 DEF Peer

LEMMA InitHandshake == Init => HandshakeInv
  BY DEF Init, HandshakeInv, ToAccFrames, ToPhoneFrames, Adopted

(* With an accessory that acknowledges the phone's SYN no earlier than it   *)
(* sends its own, every step keeps the chain.                               *)
LEMMA NextHandshake ==
  ASSUME TypeOK, HandshakeInv, ~ PeerAcksEarly, [Next]_vars
  PROVE  HandshakeInv'
  <1>1. CASE UNCHANGED vars
    BY <1>1 DEF vars, linkVars, accVars, HandshakeInv, ToAccFrames,
                ToPhoneFrames, Adopted
  <1>2. CASE Next
    BY <1>2, PhoneHandshake, PeerHandshake DEF Next
  <1> QED BY <1>1, <1>2

-----------------------------------------------------------------------------
(* A refused write leaves the link dead, an accepted one where it was told. *)
LEMMA SendSynAdvances ==
  ASSUME NEW kind, NEW ack, NEW l, SendSyn(kind, ack, l)
  PROVE  state' \in {"Negotiate", "Dead"}
  BY DEF SendSyn, Write

(* In every behaviour a link goes from DETECT through NEGOTIATE and NORMAL  *)
(* to DEAD and never back, and no frame, an unexpected SYN included,        *)
(* changes the parameters of an established link.                           *)
THEOREM LinkAdvances == Spec => LinkOnlyAdvances
  <1>1. TypeOK /\ [Next]_vars => [Advances]_vars
    <2> SUFFICES ASSUME TypeOK, Next PROVE Advances
      OBVIOUS
    <2>1. state \in States
      BY DEF TypeOK, PhoneTypeOK
    <2>2. ASSUME state' = state \/ state' = "Dead",
                 state = "Normal" => lsp' = lsp /\ sid' = sid
          PROVE  Advances
      BY <2>1, <2>2 DEF Advances, Rank, States
    <2>3. ASSUME state \in {"Detect", "Negotiate"}, state' \in {"Negotiate", "Normal", "Dead"},
                 state = "Negotiate" \/ state' # "Normal"
          PROVE  Advances
      BY <2>3 DEF Advances, Rank
    <2>4. CASE Start \/ RepeatSyn \/ ReceiveMarker
      <3>1. SendSyn("SYN", lastRx, lsp) /\ state \in {"Detect", "Negotiate"}
        BY <2>4 DEF Start, RepeatSyn, ReceiveMarker
      <3> QED BY <2>3, <3>1, SendSynAdvances
    <2>5. CASE ReceiveSyn
      <3>1. CASE state = "Negotiate"
        <4>1. SendSyn("SYNACK", Head(toPhone).seq, Clamp(Head(toPhone).lsp))
          BY <2>5, <3>1 DEF ReceiveSyn
        <4> QED BY <2>3, <3>1, <4>1, SendSynAdvances
      <3>2. CASE state # "Negotiate"
        BY <2>2, <2>5, <3>2 DEF ReceiveSyn
      <3> QED BY <3>1, <3>2
    <2>6. CASE ReceiveSynAck
      BY <2>2, <2>3, <2>6 DEF ReceiveSynAck
    <2>7. CASE MarkerFails \/ Submit \/ \E m \in DOMAIN pending : Retransmit(m)
      BY <2>2, <2>7 DEF MarkerFails, Submit, SendControl, Retransmit
    <2>8. CASE \/ ReceiveNoise \/ ReceiveLong \/ ReceiveReset
               \/ ReceiveUnreadableSyn \/ ReceiveAck
      BY <2>2, <2>8 DEF ReceiveNoise, ReceiveLong, ReceiveReset,
                        ReceiveUnreadableSyn, ReceiveAck, linkVars
    <2>9. CASE ReceiveSynAgain \/ ReceiveOutOfOrder
      BY <2>2, <2>9 DEF ReceiveSynAgain, ReceiveOutOfOrder, Write
    <2>10. CASE ReceiveData
      <3>1. \E queue, n, ack, trailer : SendControl(queue, n, ack, trailer)
        BY <2>10 DEF ReceiveData
      <3>2. UNCHANGED <<lsp, sid>>
        BY <2>10 DEF ReceiveData
      <3> QED BY <2>2, <3>1, <3>2 DEF SendControl
    <2>11. CASE Peer \/ LoseFrame
      <3>1. UNCHANGED <<state, lsp, sid>>
        BY <2>11 DEF Peer, LoseFrame, PeerMarker, PeerSendSyn, PeerBreaksOff,
             PeerSendData, PeerRepeatData, PeerReceiveSyn, PeerReceiveAck,
             PeerReceiveData, linkVars
      <3> QED BY <2>2, <3>1
    <2> QED BY <2>4, <2>5, <2>6, <2>7, <2>8, <2>9, <2>10, <2>11
            DEF Next, Tick, HandlePacket
  <1> QED BY <1>1, TypeCorrect, PTL DEF Spec, LinkOnlyAdvances

-----------------------------------------------------------------------------
(* Arithmetic of sequence numbers: uint8_t wraps around, and two numbers    *)
(* less than the width apart are equal when they look equal.                *)
LEMMA WidthFacts == SeqMod \in Int /\ Half \in Int /\ Half >= 1 /\ SeqMod = 2 * Half
  BY SeqAssumption

LEMMA WrapRange ==
  ASSUME NEW n \in Int
  PROVE  Wrap(n) \in Int /\ 0 <= Wrap(n) /\ Wrap(n) < SeqMod
<1>1. SeqMod \in Int /\ SeqMod > 0
  BY WidthFacts
<1> QED BY <1>1 DEF Wrap

LEMMA QuotientOf ==
  ASSUME NEW n \in Int, NEW q \in Int, q = n \div SeqMod, NEW r \in Int, r = Wrap(n)
  PROVE  n = SeqMod * q + r
<1>1. SeqMod \in Int /\ SeqMod > 0
  BY WidthFacts
<1> QED BY <1>1 DEF Wrap

LEMMA Quotient ==
  ASSUME NEW n \in Int, NEW r \in Int, r = Wrap(n)
  PROVE  \E q \in Int : n = SeqMod * q + r
<1> DEFINE q == n \div SeqMod
<1>1. q \in Int
  <2>1. SeqMod \in Int /\ SeqMod > 0
    BY WidthFacts
  <2> QED BY <2>1
<1>2. n = SeqMod * q + r
  BY <1>1, QuotientOf
<1> HIDE DEF q
<1> QED BY <1>1, <1>2

LEMMA SmallMultiple ==
  ASSUME NEW q \in Int, NEW d \in Int, d = SeqMod * q, -SeqMod < d, d < SeqMod
  PROVE  q = 0
<1>1. CASE q >= 1
  <2>1. SeqMod * q >= SeqMod * 1
    BY <1>1, WidthFacts
  <2> QED BY <2>1, WidthFacts
<1>2. CASE q <= -1
  <2>1. SeqMod * q <= SeqMod * (-1)
    BY <1>2, WidthFacts
  <2> QED BY <2>1, WidthFacts
<1> QED BY <1>1, <1>2

LEMMA WrapSame ==
  ASSUME NEW a \in Int, NEW b \in Int, Wrap(a) = Wrap(b), a - b < SeqMod, b - a < SeqMod
  PROVE  a = b
<1> DEFINE r == Wrap(a)
<1>1. r \in Int
  BY WrapRange
<1>2. PICK q \in Int : a = SeqMod * q + r
  BY <1>1, Quotient
<1>3. PICK p \in Int : b = SeqMod * p + r
  BY <1>1, Quotient
<1> HIDE DEF r
<1>4. q - p \in Int /\ a - b \in Int /\ a - b = SeqMod * (q - p)
  BY <1>1, <1>2, <1>3, WidthFacts
<1>5. -SeqMod < a - b
  BY WidthFacts
<1>6. q - p = 0
  BY <1>4, <1>5, SmallMultiple
<1>7. q = p
  BY <1>6
<1> QED BY <1>1, <1>2, <1>3, <1>7

(* Numbers a multiple of the width apart look equal. *)
LEMMA WrapShift ==
  ASSUME NEW a \in Int, NEW b \in Int, NEW q \in Int, b = a + SeqMod * q
  PROVE  Wrap(b) = Wrap(a)
<1> DEFINE r == Wrap(a)
           s == Wrap(b)
<1>1. r \in Int /\ 0 <= r /\ r < SeqMod /\ s \in Int /\ 0 <= s /\ s < SeqMod
  BY WrapRange
<1>2. PICK u \in Int : a = SeqMod * u + r
  BY <1>1, Quotient
<1>3. PICK v \in Int : b = SeqMod * v + s
  BY <1>1, Quotient
<1> HIDE DEF r, s
<1>4. s - r \in Int /\ u + q - v \in Int /\ s - r = SeqMod * (u + q - v)
  BY <1>1, <1>2, <1>3, WidthFacts
<1>5. -SeqMod < s - r /\ s - r < SeqMod
  BY <1>1, WidthFacts
<1>6. u + q - v = 0
  BY <1>4, <1>5, SmallMultiple
<1>7. s = r
  BY <1>1, <1>4, <1>6, WidthFacts
<1> QED BY <1>7 DEF r, s

LEMMA WrapAdd ==
  ASSUME NEW a \in Int, NEW k \in Int
  PROVE  Wrap(Wrap(a) + k) = Wrap(a + k)
<1> DEFINE r == Wrap(a)
<1>1. r \in Int
  BY WrapRange
<1>2. PICK q \in Int : a = SeqMod * q + r
  BY <1>1, Quotient
<1> HIDE DEF r
<1>3. a + k = (r + k) + SeqMod * q /\ r + k \in Int /\ a + k \in Int
  BY <1>1, <1>2, WidthFacts
<1>4. Wrap(a + k) = Wrap(r + k)
  BY <1>3, WrapShift
<1> QED BY <1>4 DEF r

LEMMA DistanceWrap ==
  ASSUME NEW a \in Int, NEW b \in Int
  PROVE  Distance(Wrap(a), Wrap(b)) = Wrap(b - a)
<1> DEFINE r == Wrap(a)
           s == Wrap(b)
<1>1. r \in Int /\ s \in Int
  BY WrapRange
<1>2. PICK u \in Int : a = SeqMod * u + r
  BY <1>1, Quotient
<1>3. PICK v \in Int : b = SeqMod * v + s
  BY <1>1, Quotient
<1> HIDE DEF r, s
<1>4. /\ b - a = (s - r) + SeqMod * (v - u) /\ v - u \in Int /\ b - a \in Int /\ s - r \in Int
  BY <1>1, <1>2, <1>3, WidthFacts
<1>5. Wrap(b - a) = Wrap(s - r)
  BY <1>4, WrapShift
<1>6. Distance(r, s) = Wrap(s - r)
  BY DEF Distance, Wrap
<1> QED BY <1>5, <1>6 DEF r, s

(* acknowledged_by compares as the numbers do, up to half the width apart. *)
LEMMA AcknowledgedIff ==
  ASSUME NEW a \in Int, NEW b \in Int, -Half <= b - a, b - a < Half
  PROVE  AcknowledgedBy(Wrap(a), Wrap(b)) <=> a <= b
<1> DEFINE d == b - a
<1>0. d \in Int
  OBVIOUS
<1>1. CASE 0 <= d
  <2>1. Wrap(d) = d
    BY <1>0, <1>1, WidthFacts DEF Wrap
  <2> QED BY <1>1, <2>1, DistanceWrap DEF AcknowledgedBy
<1>2. CASE d < 0
  <2>1. Wrap(d) = d + SeqMod
    <3>1. d + SeqMod \in Int /\ 0 <= d + SeqMod /\ d + SeqMod < SeqMod
      BY <1>0, <1>2, WidthFacts
    <3>2. Wrap(d + SeqMod) = d + SeqMod
      <4> DEFINE e == d + SeqMod
      <4> HIDE DEF e
      <4>1. e \in Int /\ 0 <= e /\ e < SeqMod
        BY <3>1 DEF e
      <4>2. Wrap(e) = e
        BY <4>1, WidthFacts DEF Wrap
      <4> QED BY <4>2 DEF e
    <3>3. d + SeqMod = d + SeqMod * 1
      BY <1>0, WidthFacts
    <3> QED BY <1>0, <3>1, <3>2, <3>3, WrapShift
  <2>2. ~ (d + SeqMod < Half)
    BY <1>0, WidthFacts
  <2> QED BY <1>2, <2>1, <2>2, DistanceWrap DEF AcknowledgedBy
<1> QED BY <1>0, <1>1, <1>2

-----------------------------------------------------------------------------
(* The stream of control messages.  Frames in flight are what makes the     *)
(* numbers ambiguous: a data frame may be a repetition of one the accessory *)
(* has had for long, an acknowledgement may be older than others.  The      *)
(* invariant bounds how far behind any of them can be, by less than the     *)
(* width of a sequence number.                                              *)

(* The sequence number of message m; the SYN has number 0. *)
Num(m) == Wrap(FirstSeq + 1 + m)

(* The acknowledgements on their way to the phone name messages among the   *)
(* accessory's first g, none before p, and never an earlier one later.      *)
AckLine(c, p, g) ==
  /\ \A i \in 1 .. Len(c) : HasAck(c[i]) => \E a \in p .. g : c[i].ack = Num(a)
  /\ \A i, j \in 1 .. Len(c) :
       i < j /\ HasAck(c[i]) /\ HasAck(c[j]) =>
         \A a, b \in p .. g : c[i].ack = Num(a) /\ c[j].ack = Num(b) => a <= b

(* The data on its way to the accessory, which has got g of s messages.     *)
DataLine(c, g, s) ==
  /\ \A i \in 1 .. Len(c) : c[i].kind = "DATA" =>
       /\ c[i].msg \in 1 .. s /\ c[i].seq = Num(c[i].msg) /\ g < c[i].msg + Half
  /\ \A i, j \in 1 .. Len(c) :
       i < j /\ c[i].kind = "DATA" /\ c[j].kind = "DATA" => c[i].msg < c[j].msg + Half

SynLine(c) == \A i \in 1 .. Len(c) : HasSyn(c[i]) => c[i].seq = Num(0)

(* pending_ holds the messages after p, at most half the numbers. *)
Window(queue, p, g, s) ==
  /\ p \in 0 .. g /\ g <= s /\ s - p <= Half
  /\ DOMAIN queue = p + 1 .. s
  /\ \A m \in p + 1 .. s : queue[m].frame.seq = Num(m) /\ queue[m].frame.msg = m

(* What the phases of the link know of the numbers *)
PhaseInv ==
  /\ state = "Detect" => sentSeq = FirstSeq /\ ~ synOutstanding
  /\ state = "Negotiate" => synSeq = Num(0) /\ synOutstanding
  /\ state \in {"Negotiate", "Normal"} => sentSeq = Num(sent)
  /\ state = "Normal" => accPhoneSyn
  /\ state # "Normal" => sent = 0
  /\ lsp.window <= Half
  /\ accPhoneSyn => accRx = Num(Len(accGot))
  /\ ~ accPhoneSyn => accMsgs = <<>>

(* Nothing is acknowledged before the SYN has arrived. *)
NoAckYet(c, known) == known \/ \A i \in 1 .. Len(c) : ~ HasAck(c[i])

GotInv ==
  /\ Len(accGot) <= sent /\ sent <= MaxPhoneMsgs
  /\ \A i \in 1 .. Len(accGot) : accGot[i] = i

Flight(p) ==
  /\ Window(pending, p, Len(accGot), sent)
  /\ AckLine(toPhone, p, Len(accGot))

StreamInv ==
  /\ GotInv
  /\ state # "Dead" =>
       /\ PhaseInv /\ NoAckYet(toPhone, accPhoneSyn) /\ SynLine(toAcc)
       /\ DataLine(toAcc, Len(accGot), sent)
       /\ \E p \in 0 .. Len(accGot) : Flight(p)

-----------------------------------------------------------------------------
(* A channel from which the first k frames have gone *)
Slides(c, d) ==
  \E k \in 0 .. Len(c) : /\ Len(d) = Len(c) - k
                         /\ \A i \in 1 .. Len(d) : d[i] = c[i + k]

LEMMA TailSlides ==
  ASSUME NEW c \in Seq(Frames), c # <<>>
  PROVE  Slides(c, Tail(c))
<1>1. /\ Len(c) \in Nat /\ 1 \in 0 .. Len(c) /\ Len(Tail(c)) = Len(c) - 1
      /\ \A i \in 1 .. Len(Tail(c)) : Tail(c)[i] = c[i + 1]
  BY HeadTailProperties, LenProperties, EmptySeq
<1> QED BY <1>1 DEF Slides

LEMMA PutSlides ==
  ASSUME NEW c \in Seq(Frames), NEW fs \in Seq(Frames)
  PROVE  Slides(c \o fs, Put(c, fs))
<1> DEFINE all == c \o fs
           excess == Len(all) - ChannelCap
<1>1. all \in Seq(Frames) /\ Len(all) \in Nat /\ excess \in Int
  BY ConcatProperties, LenProperties, BoundAssumption
<1>2. CASE excess > 0
  <2>1. Put(c, fs) = SubSeq(all, excess + 1, Len(all))
    BY <1>2 DEF Put
  <2>2. /\ excess \in 0 .. Len(all) /\ Len(Put(c, fs)) = Len(all) - excess
        /\ \A i \in 1 .. Len(Put(c, fs)) : Put(c, fs)[i] = all[excess + i]
    BY <1>1, <1>2, <2>1, BoundAssumption, SubSeqProperties
  <2>3. \A i \in 1 .. Len(Put(c, fs)) : excess + i = i + excess
    BY <1>1, <2>2
  <2> QED BY <2>2, <2>3 DEF Slides
<1>3. CASE ~ (excess > 0)
  <2>1. Put(c, fs) = all
    BY <1>3 DEF Put
  <2>2. 0 \in 0 .. Len(all) /\ Len(all) = Len(all) - 0 /\ \A i \in 1 .. Len(all) : i + 0 = i
    BY <1>1
  <2> QED BY <2>1, <2>2 DEF Slides
<1> QED BY <1>2, <1>3

LEMMA PutOneSlides ==
  ASSUME NEW c \in Seq(Frames), NEW f \in Frames
  PROVE  Slides(Append(c, f), Put(c, <<f>>))
<1>1. <<f>> \in Seq(Frames)
  OBVIOUS
<1>2. c \o <<f>> = Append(c, f)
  OBVIOUS
<1> QED BY <1>1, <1>2, PutSlides

LEMMA SlidesIndex ==
  ASSUME NEW c \in Seq(Frames), NEW d \in Seq(Frames), Slides(c, d)
  PROVE  \E k \in Nat : /\ \A i \in 1 .. Len(d) : i + k \in 1 .. Len(c) /\ d[i] = c[i + k]
                        /\ \A i, j \in 1 .. Len(d) : i < j => i + k < j + k
<1>1. PICK k \in 0 .. Len(c) : /\ Len(d) = Len(c) - k
                               /\ \A i \in 1 .. Len(d) : d[i] = c[i + k]
  BY DEF Slides
<1>2. /\ Len(c) \in Nat /\ k \in Nat
      /\ \A i \in 1 .. Len(d) : i + k \in 1 .. Len(c) /\ d[i] = c[i + k]
      /\ \A i, j \in 1 .. Len(d) : i < j => i + k < j + k
  BY <1>1, LenProperties
<1> QED BY <1>2

LEMMA SlidesAcks ==
  ASSUME NEW c \in Seq(Frames), NEW d \in Seq(Frames), Slides(c, d),
         NEW p \in Nat, NEW g \in Nat, AckLine(c, p, g)
  PROVE  AckLine(d, p, g)
<1>1. PICK k \in Nat : /\ \A i \in 1 .. Len(d) : i + k \in 1 .. Len(c) /\ d[i] = c[i + k]
                       /\ \A i, j \in 1 .. Len(d) : i < j => i + k < j + k
  BY SlidesIndex
<1>2. \A i \in 1 .. Len(d) : HasAck(d[i]) => \E a \in p .. g : d[i].ack = Num(a)
  BY <1>1 DEF AckLine
<1>3. ASSUME NEW i \in 1 .. Len(d), NEW j \in 1 .. Len(d), i < j, HasAck(d[i]), HasAck(d[j]),
             NEW a \in p .. g, NEW b \in p .. g, d[i].ack = Num(a), d[j].ack = Num(b)
      PROVE  a <= b
  <2>1. /\ i + k \in 1 .. Len(c) /\ d[i] = c[i + k] /\ j + k \in 1 .. Len(c)
        /\ d[j] = c[j + k] /\ i + k < j + k
    BY <1>1, <1>3
  <2> QED BY <1>3, <2>1 DEF AckLine
<1> QED BY <1>2, <1>3 DEF AckLine

LEMMA SlidesData ==
  ASSUME NEW c \in Seq(Frames), NEW d \in Seq(Frames), Slides(c, d),
         NEW g, NEW s, DataLine(c, g, s)
  PROVE  DataLine(d, g, s)
<1>1. PICK k \in Nat : /\ \A i \in 1 .. Len(d) : i + k \in 1 .. Len(c) /\ d[i] = c[i + k]
                       /\ \A i, j \in 1 .. Len(d) : i < j => i + k < j + k
  BY SlidesIndex
<1> QED BY <1>1 DEF DataLine

LEMMA SlidesOthers ==
  ASSUME NEW c \in Seq(Frames), NEW d \in Seq(Frames), Slides(c, d), NEW known
  PROVE  (SynLine(c) => SynLine(d)) /\ (NoAckYet(c, known) => NoAckYet(d, known))
<1>1. PICK k \in Nat : \A i \in 1 .. Len(d) : i + k \in 1 .. Len(c) /\ d[i] = c[i + k]
  BY SlidesIndex
<1> QED BY <1>1 DEF SynLine, NoAckYet

LEMMA NumType == \A m \in Int : Num(m) \in SeqNum /\ FirstSeq + 1 + m \in Int
  BY WrapType, SeqAssumption DEF Num, SeqNum

(* Two messages less than the width apart have different numbers. *)
LEMMA NumSame ==
  ASSUME NEW a \in Int, NEW b \in Int, Num(a) = Num(b), a - b < SeqMod, b - a < SeqMod
  PROVE  a = b
<1>1. FirstSeq + 1 + a \in Int /\ FirstSeq + 1 + b \in Int /\ FirstSeq \in Int
  BY SeqAssumption DEF SeqNum
<1>2. FirstSeq + 1 + a = FirstSeq + 1 + b
  <2>1. /\ (FirstSeq + 1 + a) - (FirstSeq + 1 + b) < SeqMod
        /\ (FirstSeq + 1 + b) - (FirstSeq + 1 + a) < SeqMod
    BY <1>1
  <2> QED BY <1>1, <2>1, WrapSame DEF Num
<1> QED BY <1>1, <1>2

LEMMA NumAdd ==
  ASSUME NEW a \in Int, NEW k \in Int
  PROVE  Wrap(Num(a) + k) = Num(a + k)
<1>1. FirstSeq + 1 + a \in Int /\ (FirstSeq + 1 + a) + k = FirstSeq + 1 + (a + k)
  BY SeqAssumption DEF SeqNum
<1> QED BY <1>1, WrapAdd DEF Num

(* acknowledged_by on the numbers of messages up to half the width apart.   *)
LEMMA NumAcknowledged ==
  ASSUME NEW m \in Int, NEW a \in Int, -Half <= a - m, a - m < Half
  PROVE  AcknowledgedBy(Num(m), Num(a)) <=> m <= a
<1> DEFINE x == FirstSeq + 1 + m
           y == FirstSeq + 1 + a
<1>1. x \in Int /\ y \in Int /\ -Half <= y - x /\ y - x < Half /\ (x <= y <=> m <= a)
  BY SeqAssumption, WidthFacts DEF SeqNum
<1>2. AcknowledgedBy(Wrap(x), Wrap(y)) <=> x <= y
  <2> HIDE DEF x, y
  <2> QED BY <1>1, AcknowledgedIff
<1> QED BY <1>1, <1>2 DEF Num

(* The accessory acknowledges what it has now. *)
LEMMA AckAppend ==
  ASSUME NEW c \in Seq(Frames), NEW f \in Frames, NEW p \in Nat, NEW g \in Nat,
         AckLine(c, p, g), p <= g, g - p < SeqMod, HasAck(f) => f.ack = Num(g)
  PROVE  AckLine(Append(c, f), p, g)
<1> DEFINE d == Append(c, f)
<1>1. /\ Len(c) \in Nat /\ Len(d) = Len(c) + 1 /\ d[Len(d)] = f
      /\ \A i \in 1 .. Len(c) : d[i] = c[i]
  BY AppendProperties, LenProperties
<1> HIDE DEF d
<1>2. \A b \in p .. g : Num(b) = Num(g) => b = g
  BY NumSame, WidthFacts
<1>3. \A i \in 1 .. Len(d) : i = Len(d) \/ i \in 1 .. Len(c)
  BY <1>1
<1>4. ASSUME NEW i \in 1 .. Len(d), HasAck(d[i]) PROVE \E a \in p .. g : d[i].ack = Num(a)
  <2>1. CASE i = Len(d)
    <3>1. g \in p .. g
      OBVIOUS
    <3> QED BY <1>1, <1>4, <2>1, <3>1
  <2>2. CASE i \in 1 .. Len(c)
    BY <1>1, <1>4, <2>2 DEF AckLine
  <2> QED BY <1>3, <2>1, <2>2
<1>5. ASSUME NEW i \in 1 .. Len(d), NEW j \in 1 .. Len(d), i < j, HasAck(d[i]), HasAck(d[j]),
             NEW a \in p .. g, NEW b \in p .. g, d[i].ack = Num(a), d[j].ack = Num(b)
      PROVE  a <= b
  <2>1. CASE j = Len(d)
    <3>1. b = g
      BY <1>1, <1>2, <1>5, <2>1
    <3> QED BY <3>1
  <2>2. CASE j \in 1 .. Len(c)
    <3>1. i \in 1 .. Len(c)
      BY <1>1, <1>5, <2>2
    <3> QED BY <1>1, <1>5, <2>2, <3>1 DEF AckLine
  <2> QED BY <1>3, <2>1, <2>2
<1>6. AckLine(d, p, g)
  BY <1>4, <1>5 DEF AckLine
<1> QED BY <1>6 DEF d

(* It gets one more message. *)
LEMMA AckGrows ==
  ASSUME NEW c \in Seq(Frames), NEW p \in Nat, NEW g \in Nat,
         AckLine(c, p, g), p <= g, g + 1 - p < SeqMod
  PROVE  AckLine(c, p, g + 1)
<1>1. \A a \in p .. g : a \in p .. g + 1 /\ Num(a) # Num(g + 1)
  BY NumSame, WidthFacts
<1>2. \A a \in p .. g + 1 : a \in p .. g \/ a = g + 1
  OBVIOUS
<1>3. \A i \in 1 .. Len(c) : HasAck(c[i]) => \E a \in p .. g : c[i].ack = Num(a)
  BY DEF AckLine
<1>4. ASSUME NEW i \in 1 .. Len(c), NEW j \in 1 .. Len(c), i < j, HasAck(c[i]), HasAck(c[j]),
             NEW a \in p .. g + 1, NEW b \in p .. g + 1, c[i].ack = Num(a), c[j].ack = Num(b)
      PROVE  a <= b
  <2>1. a \in p .. g /\ b \in p .. g
    BY <1>1, <1>2, <1>3, <1>4
  <2> QED BY <1>4, <2>1 DEF AckLine
<1> QED BY <1>1, <1>3, <1>4 DEF AckLine

(* The oldest acknowledgement names no later message than the others.       *)
LEMMA AckHead ==
  ASSUME NEW c \in Seq(Frames), c # <<>>, NEW p \in Nat, NEW g \in Nat,
         AckLine(c, p, g), HasAck(Head(c))
  PROVE  \E a \in p .. g : Head(c).ack = Num(a) /\ AckLine(Tail(c), a, g)
<1>1. /\ Len(c) \in Nat /\ 1 \in 1 .. Len(c) /\ Head(c) = c[1] /\ Len(Tail(c)) = Len(c) - 1
      /\ \A i \in 1 .. Len(Tail(c)) : Tail(c)[i] = c[i + 1] /\ i + 1 \in 1 .. Len(c) /\ 1 < i + 1
      /\ \A i, j \in 1 .. Len(Tail(c)) : i < j => i + 1 < j + 1
  BY HeadTailProperties, LenProperties, EmptySeq
<1>2. PICK a \in p .. g : c[1].ack = Num(a)
  BY <1>1 DEF AckLine
<1>3. \A b \in a .. g : b \in p .. g
  OBVIOUS
<1>4. ASSUME NEW i \in 1 .. Len(Tail(c)), HasAck(Tail(c)[i])
      PROVE  \E b \in a .. g : Tail(c)[i].ack = Num(b)
  <2>1. PICK b \in p .. g : c[i + 1].ack = Num(b)
    BY <1>1, <1>4 DEF AckLine
  <2>2. a <= b
    BY <1>1, <1>2, <1>4, <2>1 DEF AckLine
  <2>3. b \in a .. g
    BY <2>2
  <2> QED BY <1>1, <2>1, <2>3
<1>5. ASSUME NEW i \in 1 .. Len(Tail(c)), NEW j \in 1 .. Len(Tail(c)), i < j,
             HasAck(Tail(c)[i]), HasAck(Tail(c)[j]), NEW u \in a .. g, NEW v \in a .. g,
             Tail(c)[i].ack = Num(u), Tail(c)[j].ack = Num(v)
      PROVE  u <= v
  BY <1>1, <1>3, <1>5 DEF AckLine
<1>6. AckLine(Tail(c), a, g)
  BY <1>4, <1>5 DEF AckLine
<1> QED BY <1>1, <1>2, <1>6

(* Data is written behind what is on its way. *)
LEMMA DataPut ==
  ASSUME NEW c \in Seq(Frames), NEW fs \in Seq(Frames), NEW g \in Nat, NEW s \in Nat,
         NEW t \in Nat, s <= t, DataLine(c, g, s),
         \A i \in 1 .. Len(fs) : fs[i].kind = "DATA" =>
           /\ fs[i].msg \in 1 .. t /\ fs[i].seq = Num(fs[i].msg)
           /\ g < fs[i].msg + Half /\ s < fs[i].msg + Half,
         \A i, j \in 1 .. Len(fs) :
           i < j /\ fs[i].kind = "DATA" /\ fs[j].kind = "DATA" => fs[i].msg < fs[j].msg + Half
  PROVE  DataLine(Put(c, fs), g, t)
<1> DEFINE d == c \o fs
<1>1. d \in Seq(Frames) /\ Put(c, fs) \in Seq(Frames)
  BY ConcatProperties, PutType
<1>2. /\ Len(c) \in Nat /\ Len(fs) \in Nat /\ Len(d) = Len(c) + Len(fs)
      /\ \A i \in 1 .. Len(d) : \/ i \in 1 .. Len(c) /\ d[i] = c[i]
                                \/ /\ i > Len(c) /\ i - Len(c) \in 1 .. Len(fs)
                                   /\ d[i] = fs[i - Len(c)]
  BY ConcatProperties, LenProperties
<1> HIDE DEF d
<1>3. ASSUME NEW i \in 1 .. Len(d), d[i].kind = "DATA"
      PROVE  /\ d[i].msg \in 1 .. t /\ d[i].seq = Num(d[i].msg) /\ g < d[i].msg + Half
             /\ i \in 1 .. Len(c) => d[i].msg <= s
             /\ i > Len(c) => s < d[i].msg + Half
  <2>1. CASE i \in 1 .. Len(c) /\ d[i] = c[i]
    <3>1. c[i].msg \in 1 .. s /\ c[i].seq = Num(c[i].msg) /\ g < c[i].msg + Half
      BY <1>3, <2>1 DEF DataLine
    <3> QED BY <1>2, <2>1, <3>1
  <2>2. CASE i > Len(c) /\ i - Len(c) \in 1 .. Len(fs) /\ d[i] = fs[i - Len(c)]
    BY <1>2, <1>3, <2>2
  <2> QED BY <1>2, <2>1, <2>2
<1>4. ASSUME NEW i \in 1 .. Len(d), NEW j \in 1 .. Len(d), i < j,
             d[i].kind = "DATA", d[j].kind = "DATA"
      PROVE  d[i].msg < d[j].msg + Half
  <2>1. CASE j \in 1 .. Len(c)
    <3>1. i \in 1 .. Len(c) /\ d[i] = c[i] /\ d[j] = c[j]
      BY <1>2, <1>4, <2>1
    <3> QED BY <1>4, <2>1, <3>1 DEF DataLine
  <2>2. CASE i \in 1 .. Len(c) /\ j > Len(c)
    <3>1. d[i].msg <= s /\ s < d[j].msg + Half /\ d[i].msg \in Int /\ d[j].msg \in Int
      BY <1>3, <1>4, <2>2
    <3>2. \A x, y \in Int : x <= s /\ s < y + Half => x < y + Half
      BY WidthFacts
    <3> QED BY <3>1, <3>2
  <2>3. CASE i > Len(c)
    <3>1. /\ i - Len(c) \in 1 .. Len(fs) /\ j - Len(c) \in 1 .. Len(fs)
          /\ d[i] = fs[i - Len(c)] /\ d[j] = fs[j - Len(c)] /\ i - Len(c) < j - Len(c)
      BY <1>2, <1>4, <2>3
    <3> QED BY <1>4, <3>1
  <2> QED BY <1>2, <2>1, <2>2, <2>3
<1>5. DataLine(d, g, t)
  BY <1>3, <1>4 DEF DataLine
<1>6. Slides(d, Put(c, fs))
  BY PutSlides DEF d
<1> QED BY <1>1, <1>5, <1>6, SlidesData

LEMMA SynPut ==
  ASSUME NEW c \in Seq(Frames), NEW fs \in Seq(Frames), SynLine(c), SynLine(fs)
  PROVE  SynLine(Put(c, fs))
<1> SUFFICES ASSUME NEW i \in 1 .. Len(Put(c, fs)), HasSyn(Put(c, fs)[i])
             PROVE  Put(c, fs)[i].seq = Num(0)
  BY DEF SynLine
<1>1. \/ \E j \in 1 .. Len(c) : Put(c, fs)[i] = c[j]
      \/ \E j \in 1 .. Len(fs) : Put(c, fs)[i] = fs[j]
  BY PutElements
<1> QED BY <1>1 DEF SynLine

(* The accessory gets one more message: the head of its channel.            *)
LEMMA DataGrows ==
  ASSUME NEW c \in Seq(Frames), c # <<>>, NEW g \in Nat, NEW s \in Nat, DataLine(c, g, s),
         Head(c).kind = "DATA", Head(c).msg = g + 1
  PROVE  DataLine(Tail(c), g + 1, s)
<1>1. /\ Len(c) \in Nat /\ 1 \in 1 .. Len(c) /\ Head(c) = c[1] /\ Len(Tail(c)) = Len(c) - 1
      /\ \A i \in 1 .. Len(Tail(c)) : Tail(c)[i] = c[i + 1] /\ i + 1 \in 1 .. Len(c) /\ 1 < i + 1
      /\ \A i, j \in 1 .. Len(Tail(c)) : i < j => i + 1 < j + 1
  BY HeadTailProperties, LenProperties, EmptySeq
<1>2. \A i \in 1 .. Len(Tail(c)) : Tail(c)[i].kind = "DATA" => Head(c).msg < Tail(c)[i].msg + Half
  BY <1>1 DEF DataLine
<1>3. \A i, j \in 1 .. Len(Tail(c)) :
        i < j /\ Tail(c)[i].kind = "DATA" /\ Tail(c)[j].kind = "DATA" =>
          Tail(c)[i].msg < Tail(c)[j].msg + Half
  BY <1>1 DEF DataLine
<1> QED BY <1>1, <1>2, <1>3 DEF DataLine

-----------------------------------------------------------------------------
(* handle_packet removes from pending_ what the head acknowledges: exactly  *)
(* the messages up to the one it names.                                     *)
LEMMA Acknowledges ==
  ASSUME NEW p \in Nat, NEW g \in Nat, NEW f, HasAck(f), sent \in Nat,
         Window(pending, p, g, sent), NEW a \in p .. g, f.ack = Num(a)
  PROVE  Window(Unacknowledged(f), a, g, sent)
<1> DEFINE D == {k \in DOMAIN pending : ~ AcknowledgedBy(pending[k].frame.seq, f.ack)}
<1>1. p <= a /\ a <= g /\ g <= sent /\ sent - p <= Half /\ a \in Nat /\ a \in 0 .. g
  BY DEF Window
<1>2. \A m \in p + 1 .. sent : AcknowledgedBy(pending[m].frame.seq, f.ack) <=> m <= a
  <2> SUFFICES ASSUME NEW m \in p + 1 .. sent
               PROVE  AcknowledgedBy(pending[m].frame.seq, f.ack) <=> m <= a
    OBVIOUS
  <2>1. m \in Int /\ -Half <= a - m /\ a - m < Half
    BY <1>1, WidthFacts
  <2>2. pending[m].frame.seq = Num(m)
    BY DEF Window
  <2>3. a \in Int
    BY <1>1
  <2> QED BY <2>1, <2>2, <2>3, NumAcknowledged
<1>3. DOMAIN pending = p + 1 .. sent
  BY DEF Window
<1>4. D = a + 1 .. sent
  <2> HIDE DEF AcknowledgedBy
  <2> QED BY <1>1, <1>2, <1>3
<1>5. Unacknowledged(f) = [m \in a + 1 .. sent |-> pending[m]]
  BY <1>4 DEF Unacknowledged
<1>6. /\ DOMAIN Unacknowledged(f) = a + 1 .. sent
      /\ \A m \in a + 1 .. sent : Unacknowledged(f)[m] = pending[m] /\ m \in p + 1 .. sent
  BY <1>1, <1>5
<1>7. \A m \in a + 1 .. sent : /\ Unacknowledged(f)[m].frame.seq = Num(m)
                               /\ Unacknowledged(f)[m].frame.msg = m
  BY <1>6 DEF Window
<1>8. sent - a <= Half
  BY <1>1, WidthFacts
<1> QED BY <1>1, <1>6, <1>7, <1>8 DEF Window

(* What is in flight after the head of the accessory's channel is read.     *)
LEMMA TakesAck ==
  ASSUME TypeOK, toPhone # <<>>, NEW p \in Nat, NEW g \in Nat,
         Window(pending, p, g, sent), AckLine(toPhone, p, g)
  PROVE  \E q \in 0 .. g : /\ Window(Unacknowledged(Head(toPhone)), q, g, sent)
                           /\ AckLine(Tail(toPhone), q, g)
<1>1. toPhone \in Seq(Frames) /\ sent \in Nat
  BY DEF TypeOK, PhoneTypeOK, PeerTypeOK
<1>2. CASE HasAck(Head(toPhone))
  <2>1. PICK a \in p .. g : Head(toPhone).ack = Num(a) /\ AckLine(Tail(toPhone), a, g)
    BY <1>1, <1>2, AckHead
  <2>2. Window(Unacknowledged(Head(toPhone)), a, g, sent)
    BY <1>1, <1>2, <2>1, Acknowledges
  <2>3. a \in 0 .. g
    OBVIOUS
  <2> QED BY <2>1, <2>2, <2>3
<1>3. CASE ~ HasAck(Head(toPhone))
  <2>1. Unacknowledged(Head(toPhone)) = pending
    BY <1>3 DEF Unacknowledged
  <2>2. Slides(toPhone, Tail(toPhone)) /\ Tail(toPhone) \in Seq(Frames)
    BY <1>1, TailSlides, HeadTailProperties
  <2>3. AckLine(Tail(toPhone), p, g)
    BY <1>1, <2>2, SlidesAcks
  <2>4. p \in 0 .. g
    BY DEF Window
  <2> QED BY <2>1, <2>3, <2>4
<1> QED BY <1>2, <1>3

(* A frame other than data leaves the stream as it is. *)
LEMMA PutOther ==
  ASSUME TypeOK, NEW f \in Frames, f.kind # "DATA", HasSyn(f) => f.seq = Num(0),
         NEW g \in Nat, NEW s \in Nat, DataLine(toAcc, g, s), SynLine(toAcc)
  PROVE  DataLine(Put(toAcc, <<f>>), g, s) /\ SynLine(Put(toAcc, <<f>>))
<1>1. toAcc \in Seq(Frames)
  BY DEF TypeOK, PhoneTypeOK
<1> DEFINE fs == <<f>>
<1>2. fs \in Seq(Frames) /\ Len(fs) = 1 /\ \A i \in 1 .. Len(fs) : fs[i] = f
  OBVIOUS
<1> HIDE DEF fs
<1>3. SynLine(fs)
  BY <1>2 DEF SynLine
<1>4. DataLine(Put(toAcc, fs), g, s)
  <2>1. \A i \in 1 .. Len(fs) : fs[i].kind # "DATA"
    BY <1>2
  <2>2. s <= s
    OBVIOUS
  <2> QED BY <1>1, <1>2, <2>1, <2>2, DataPut
<1>5. SynLine(Put(toAcc, fs))
  BY <1>1, <1>2, <1>3, SynPut
<1> QED BY <1>4, <1>5 DEF fs

(* The frames of n new messages *)
LEMMA NewFramesFacts ==
  ASSUME TypeOK, NEW n \in Nat, NEW ack \in SeqNum, sentSeq = Num(sent)
  PROVE  /\ NewFrames(n, ack) \in Seq(Frames) /\ Len(NewFrames(n, ack)) = n
         /\ \A i \in 1 .. n : /\ NewFrames(n, ack)[i].kind = "DATA"
                              /\ NewFrames(n, ack)[i].msg = sent + i
                              /\ NewFrames(n, ack)[i].seq = Num(sent + i)
<1>1. sent \in Nat
  BY DEF TypeOK, PhoneTypeOK
<1>2. \A i \in 1 .. n : Wrap(sentSeq + i) = Num(sent + i)
  BY <1>1, NumAdd
<1>3. Len(NewFrames(n, ack)) = n
  BY DEF NewFrames
<1>4. \A i \in 1 .. n : NewFrames(n, ack)[i] = DataFrame(Wrap(sentSeq + i), ack, sid, sent + i)
  BY DEF NewFrames
<1> QED BY <1>2, <1>3, <1>4, NewFramesType DEF DataFrame

(* New data, and acknowledgements behind it, written to the channel *)
LEMMA PutNew ==
  ASSUME TypeOK, NEW n \in Nat, NEW ack \in SeqNum, sentSeq = Num(sent),
         NEW g \in Nat, g <= sent, DataLine(toAcc, g, sent), SynLine(toAcc),
         NEW trailer \in Seq(Frames), \A i \in 1 .. Len(trailer) : trailer[i].kind = "ACK"
  PROVE  /\ DataLine(Put(toAcc, NewFrames(n, ack) \o trailer), g, sent + n)
         /\ SynLine(Put(toAcc, NewFrames(n, ack) \o trailer))
<1> DEFINE new == NewFrames(n, ack)
           fs == new \o trailer
<1>1. toAcc \in Seq(Frames) /\ sent \in Nat
  BY DEF TypeOK, PhoneTypeOK
<1>2. /\ new \in Seq(Frames) /\ Len(new) = n
      /\ \A i \in 1 .. n : new[i].kind = "DATA" /\ new[i].msg = sent + i /\ new[i].seq = Num(sent + i)
  BY NewFramesFacts
<1> HIDE DEF new
<1>3. fs \in Seq(Frames)
  BY <1>2, ConcatProperties
<1>4. /\ Len(trailer) \in Nat /\ Len(fs) = n + Len(trailer)
      /\ \A i \in 1 .. Len(fs) : \/ i \in 1 .. n /\ fs[i] = new[i]
                                 \/ i - n \in 1 .. Len(trailer) /\ fs[i] = trailer[i - n]
  <2>1. Len(trailer) \in Nat
    BY LenProperties
  <2>2. Len(fs) = Len(new) + Len(trailer)
    BY <1>2, ConcatProperties
  <2>3. \A i \in 1 .. Len(fs) : fs[i] = IF i <= Len(new) THEN new[i] ELSE trailer[i - Len(new)]
    BY <1>2, ConcatProperties
  <2> HIDE DEF fs
  <2> QED BY <1>2, <2>1, <2>2, <2>3
<1> HIDE DEF fs
<1>5. \A i \in 1 .. Len(fs) : \/ /\ i \in 1 .. n /\ fs[i].kind = "DATA" /\ fs[i].msg = sent + i
                                 /\ fs[i].seq = Num(sent + i)
                              \/ fs[i].kind = "ACK"
  BY <1>2, <1>4
<1>6. SynLine(fs)
  BY <1>5 DEF SynLine, HasSyn
<1>7. SynLine(Put(toAcc, fs))
  BY <1>1, <1>3, <1>6, SynPut
<1>8. \A i \in 1 .. Len(fs) : fs[i].kind = "DATA" =>
        /\ fs[i].msg \in 1 .. sent + n /\ fs[i].seq = Num(fs[i].msg)
        /\ g < fs[i].msg + Half /\ sent < fs[i].msg + Half
  BY <1>1, <1>5, WidthFacts
<1>9. \A i, j \in 1 .. Len(fs) :
        i < j /\ fs[i].kind = "DATA" /\ fs[j].kind = "DATA" => fs[i].msg < fs[j].msg + Half
  BY <1>1, <1>5, WidthFacts
<1>10. sent + n \in Nat /\ sent <= sent + n
  BY <1>1
<1>11. DataLine(Put(toAcc, fs), g, sent + n)
  BY <1>1, <1>3, <1>8, <1>9, <1>10, DataPut
<1> QED BY <1>7, <1>11 DEF fs, new

(* The window after n messages that pass the guard of send_control.         *)
LEMMA EnqueueWindow ==
  ASSUME TypeOK, NEW n \in Nat, NEW ack \in SeqNum, NEW queue, sentSeq = Num(sent),
         NEW q \in Nat, NEW g \in Nat, Window(queue, q, g, sent), HasRoom(queue, n),
         lsp.window <= Half
  PROVE  Window(Enqueue(queue, n, ack), q, g, sent + n)
<1>1. sent \in Nat /\ q \in 0 .. g /\ g <= sent /\ DOMAIN queue = q + 1 .. sent /\ lsp.window \in Nat
  BY DEF TypeOK, PhoneTypeOK, Window, Lsps
<1>2. Cardinality(q + 1 .. sent) = sent - q
  <2>1. q + 1 \in Int /\ sent \in Int
    BY <1>1
  <2>2. Cardinality(q + 1 .. sent) = IF q + 1 > sent THEN 0 ELSE sent - (q + 1) + 1
    BY <2>1, FS_Interval
  <2> QED BY <1>1, <2>2
<1>3. sent + n - q <= Half
  <2>1. sent - q + n <= lsp.window
    BY <1>1, <1>2 DEF HasRoom
  <2> QED BY <1>1, <2>1, WidthFacts
<1> DEFINE e == Enqueue(queue, n, ack)
           D == (q + 1 .. sent) \cup (sent + 1 .. sent + n)
<1>4. D = q + 1 .. sent + n
  BY <1>1
<1>5. e = [m \in D |-> IF m \in q + 1 .. sent THEN queue[m]
                       ELSE [frame |-> DataFrame(Wrap(sentSeq + m - sent), ack, sid, m),
                             retries |-> 0]]
  BY <1>1 DEF Enqueue
<1> HIDE DEF e, D
<1>6. DOMAIN e = q + 1 .. sent + n
  BY <1>4, <1>5
<1>7. ASSUME NEW m \in q + 1 .. sent + n
      PROVE  e[m].frame.seq = Num(m) /\ e[m].frame.msg = m
  <2>1. CASE m \in q + 1 .. sent
    <3>1. e[m] = queue[m]
      BY <1>4, <1>5, <2>1
    <3> QED BY <2>1, <3>1 DEF Window
  <2>2. CASE m \notin q + 1 .. sent
    <3>1. e[m] = [frame |-> DataFrame(Wrap(sentSeq + m - sent), ack, sid, m), retries |-> 0]
      BY <1>4, <1>5, <2>2
    <3>2. Wrap(sentSeq + m - sent) = Num(m)
      <4>1. m - sent \in Int /\ sent + (m - sent) = m /\ m \in Int
        BY <1>1
      <4>2. Wrap(Num(sent) + (m - sent)) = Num(m)
        BY <1>1, <4>1, NumAdd
      <4>3. Num(sent) \in Int
        BY <1>1, NumType, SeqAssumption DEF SeqNum
      <4>4. sentSeq + m - sent = Num(sent) + (m - sent)
        BY <1>1, <4>1, <4>3
      <4> QED BY <4>2, <4>4
    <3> QED BY <3>1, <3>2 DEF DataFrame
  <2> QED BY <2>1, <2>2
<1>8. Window(e, q, g, sent + n)
  BY <1>1, <1>3, <1>6, <1>7 DEF Window
<1> QED BY <1>8 DEF e

(* send_control, and the acknowledgement the handler writes behind it       *)
LEMMA SendControlStream ==
  ASSUME TypeOK, NEW n \in Nat, NEW ack \in SeqNum, NEW queue, sentSeq = Num(sent),
         NEW q \in Nat, NEW g \in Nat, Window(queue, q, g, sent), HasRoom(queue, n),
         lsp.window <= Half, DataLine(toAcc, g, sent), SynLine(toAcc),
         NEW trailer \in Seq(Frames), \A i \in 1 .. Len(trailer) : trailer[i].kind = "ACK",
         SendControl(queue, n, ack, trailer)
  PROVE  /\ sent' \in sent .. sent + n
         /\ state' # "Dead" =>
              /\ state' = state /\ sentSeq' = Num(sent') /\ Window(pending', q, g, sent')
              /\ DataLine(toAcc', g, sent') /\ SynLine(toAcc')
<1>1. sent \in Nat /\ g <= sent
  BY DEF TypeOK, PhoneTypeOK, Window
<1>2. CASE /\ toAcc' = Put(toAcc, NewFrames(n, ack) \o trailer)
           /\ pending' = Enqueue(queue, n, ack)
           /\ sentSeq' = Wrap(sentSeq + n)
           /\ sent' = sent + n
           /\ UNCHANGED state
  <2>1. sentSeq' = Num(sent')
    BY <1>1, <1>2, NumAdd
  <2>2. Window(pending', q, g, sent')
    BY <1>2, EnqueueWindow
  <2>3. DataLine(toAcc', g, sent') /\ SynLine(toAcc')
    BY <1>1, <1>2, PutNew
  <2>4. sent' \in sent .. sent + n
    BY <1>1, <1>2
  <2> QED BY <1>2, <2>1, <2>2, <2>3, <2>4
<1>3. CASE state' = "Dead" /\ \E k \in 1 .. n : sent' = sent + k - 1
  BY <1>1, <1>3
<1>4. CASE state' = "Dead" /\ sent' = sent + n
  BY <1>1, <1>4
<1> QED BY <1>2, <1>3, <1>4 DEF SendControl

-----------------------------------------------------------------------------
LEMMA InitStream == Init => StreamInv
<1> SUFFICES ASSUME Init PROVE StreamInv
  OBVIOUS
<1>1. /\ Len(accGot) = 0 /\ Len(toAcc) = 0 /\ Len(toPhone) = 0 /\ DOMAIN pending = {}
      /\ sent = 0 /\ MaxPhoneMsgs \in Nat /\ DefaultWindow <= Half
  BY BoundAssumption, LspAssumption, NoMessagesType, WidthFacts DEF Init
<1>2. GotInv
  BY <1>1 DEF GotInv
<1>3. PhaseInv
  BY <1>1 DEF PhaseInv, Init, DefaultLsp
<1>4. NoAckYet(toPhone, accPhoneSyn) /\ SynLine(toAcc) /\ DataLine(toAcc, Len(accGot), sent)
  BY <1>1 DEF NoAckYet, SynLine, DataLine
<1>5. Flight(0)
  <2>1. 0 \in 0 .. 0 /\ 0 <= 0 /\ 0 - 0 <= Half /\ 0 + 1 .. 0 = {}
    BY WidthFacts
  <2>2. Window(pending, 0, Len(accGot), sent)
    BY <1>1, <2>1 DEF Window
  <2>3. AckLine(toPhone, 0, Len(accGot))
    BY <1>1 DEF AckLine
  <2> QED BY <2>2, <2>3 DEF Flight
<1> QED BY <1>1, <1>2, <1>3, <1>4, <1>5 DEF StreamInv

(* What holds while the link lives *)
LEMMA LiveFacts ==
  ASSUME TypeOK, StreamInv, state # "Dead"
  PROVE  /\ PhaseInv /\ NoAckYet(toPhone, accPhoneSyn) /\ SynLine(toAcc)
         /\ DataLine(toAcc, Len(accGot), sent) /\ GotInv
         /\ \E p \in 0 .. Len(accGot) : Flight(p)
         /\ Len(accGot) \in Nat /\ sent \in Nat /\ toAcc \in Seq(Frames) /\ toPhone \in Seq(Frames)
         /\ Len(accGot) <= sent
<1>1. Len(accGot) \in Nat
  BY LenProperties DEF TypeOK, PeerTypeOK
<1> QED BY <1>1 DEF StreamInv, GotInv, TypeOK, PhoneTypeOK, PeerTypeOK

(* A step of the phone, which leaves the accessory alone *)
LEMMA PhoneStream ==
  ASSUME TypeOK, StreamInv, state # "Dead", UNCHANGED accVars,
         toPhone' = toPhone \/ (toPhone # <<>> /\ toPhone' = Tail(toPhone)),
         sent' \in sent .. MaxPhoneMsgs,
         state' # "Dead" => /\ PhaseInv' /\ SynLine(toAcc')
                            /\ DataLine(toAcc', Len(accGot), sent')
                            /\ \E p \in 0 .. Len(accGot) :
                                 /\ Window(pending', p, Len(accGot), sent')
                                 /\ AckLine(toPhone', p, Len(accGot))
  PROVE  StreamInv'
<1>1. accGot' = accGot /\ accPhoneSyn' = accPhoneSyn
  BY DEF accVars
<1>2. /\ Len(accGot) \in Nat /\ sent \in Nat /\ toPhone \in Seq(Frames) /\ GotInv
      /\ NoAckYet(toPhone, accPhoneSyn)
  BY LiveFacts
<1>3. GotInv'
  <2>1. Len(accGot) <= sent' /\ sent' <= MaxPhoneMsgs
    BY <1>2, BoundAssumption DEF GotInv
  <2> QED BY <1>1, <1>2, <2>1 DEF GotInv
<1>4. NoAckYet(toPhone', accPhoneSyn)
  <2>1. CASE toPhone' = toPhone
    BY <1>2, <2>1
  <2>2. CASE toPhone # <<>> /\ toPhone' = Tail(toPhone)
    <3>1. Slides(toPhone, Tail(toPhone)) /\ Tail(toPhone) \in Seq(Frames)
      BY <1>2, <2>2, TailSlides, HeadTailProperties
    <3> QED BY <1>2, <2>2, <3>1, SlidesOthers
  <2> QED BY <2>1, <2>2
<1> QED BY <1>1, <1>3, <1>4 DEF StreamInv, Flight

(* What is in flight when nothing, or a frame that is skipped, is read. *)
LEMMA FlightKept ==
  ASSUME TypeOK, StreamInv, state # "Dead",
         toPhone' = toPhone \/ (toPhone # <<>> /\ toPhone' = Tail(toPhone))
  PROVE  \E p \in 0 .. Len(accGot) : /\ Window(pending, p, Len(accGot), sent)
                                     /\ AckLine(toPhone', p, Len(accGot))
<1>1. PICK p \in 0 .. Len(accGot) : Flight(p)
  BY LiveFacts
<1>2. p \in Nat /\ Len(accGot) \in Nat /\ toPhone \in Seq(Frames)
  BY LiveFacts
<1>3. CASE toPhone' = toPhone
  BY <1>1, <1>3 DEF Flight
<1>4. CASE toPhone # <<>> /\ toPhone' = Tail(toPhone)
  <2>1. Slides(toPhone, Tail(toPhone)) /\ Tail(toPhone) \in Seq(Frames)
    BY <1>2, <1>4, TailSlides, HeadTailProperties
  <2>2. AckLine(Tail(toPhone), p, Len(accGot))
    BY <1>1, <1>2, <2>1, SlidesAcks DEF Flight
  <2> QED BY <1>1, <1>4, <2>2 DEF Flight
<1> QED BY <1>3, <1>4

(* What is in flight when a frame is handled *)
LEMMA FlightTaken ==
  ASSUME TypeOK, StreamInv, state # "Dead", toPhone # <<>>
  PROVE  \E p \in 0 .. Len(accGot) :
           /\ Window(Unacknowledged(Head(toPhone)), p, Len(accGot), sent)
           /\ AckLine(Tail(toPhone), p, Len(accGot))
<1>1. PICK p \in 0 .. Len(accGot) : Flight(p)
  BY LiveFacts
<1>2. p \in Nat /\ Len(accGot) \in Nat
  BY LiveFacts
<1> QED BY <1>1, <1>2, TakesAck DEF Flight

(* send_syn writes the SYN with the number it always has. *)
LEMMA SendSynStream ==
  ASSUME TypeOK, StreamInv, state \in {"Detect", "Negotiate"}, NEW kind \in {"SYN", "SYNACK"},
         NEW ack \in SeqNum, NEW l \in Lsps, SendSyn(kind, ack, l)
  PROVE  /\ sentSeq' = Num(0) /\ synSeq' = Num(0) /\ synOutstanding' = TRUE
         /\ state' \in {"Negotiate", "Dead"}
         /\ state' # "Dead" => /\ SynLine(toAcc') /\ DataLine(toAcc', Len(accGot), sent)
<1> DEFINE seq == IF synOutstanding THEN synSeq ELSE Wrap(sentSeq + 1)
           f == SynFrame(kind, seq, ack, l)
<1>1. /\ PhaseInv /\ SynLine(toAcc) /\ DataLine(toAcc, Len(accGot), sent)
      /\ Len(accGot) \in Nat /\ sent \in Nat
  BY LiveFacts
<1>2. sent = 0 /\ (synOutstanding => sentSeq = Num(0))
  BY <1>1 DEF PhaseInv
<1>3. seq = Num(0)
  <2>1. CASE state = "Detect"
    <3>1. ~ synOutstanding /\ sentSeq = FirstSeq
      BY <1>1, <2>1 DEF PhaseInv
    <3>2. FirstSeq + 1 = FirstSeq + 1 + 0
      BY SeqAssumption DEF SeqNum
    <3> QED BY <3>1, <3>2 DEF Num
  <2>2. CASE state = "Negotiate"
    BY <1>1, <2>2 DEF PhaseInv
  <2> QED BY <2>1, <2>2
<1>4. f \in Frames /\ f.kind = kind /\ f.seq = Num(0)
  <2>1. Num(0) \in SeqNum
    BY NumType
  <2> QED BY <1>3, <2>1 DEF SynFrame, Frames
<1>5. Write(f, "Negotiate") /\ sentSeq' = Num(0) /\ synSeq' = Num(0) /\ synOutstanding' = TRUE
  BY <1>2, <1>3 DEF SendSyn
<1> HIDE DEF f
<1>6. CASE toAcc' = Put(toAcc, <<f>>) /\ state' = "Negotiate"
  <2>1. DataLine(Put(toAcc, <<f>>), Len(accGot), sent) /\ SynLine(Put(toAcc, <<f>>))
    BY <1>1, <1>4, PutOther
  <2> QED BY <1>5, <1>6, <2>1
<1> QED BY <1>5, <1>6 DEF Write

LEMMA ClampWindow == ASSUME NEW l \in Lsps PROVE Clamp(l).window <= Half
  BY SeqAssumption DEF Clamp, Lsps

(* start, and tick in NEGOTIATE, and the marker that starts the negotiation *)
LEMMA SynStream ==
  ASSUME TypeOK, StreamInv, Start \/ RepeatSyn \/ ReceiveMarker
  PROVE  StreamInv'
<1>1. /\ state \in {"Detect", "Negotiate"} /\ state # "Dead" /\ SendSyn("SYN", lastRx, lsp)
      /\ UNCHANGED <<lsp, pending, sent>> /\ UNCHANGED accVars
      /\ toPhone' = toPhone \/ (toPhone # <<>> /\ toPhone' = Tail(toPhone))
  BY DEF Start, RepeatSyn, ReceiveMarker, Receives
<1>2. lastRx \in SeqNum /\ lsp \in Lsps
  BY DEF TypeOK, PhoneTypeOK
<1>3. /\ sentSeq' = Num(0) /\ synSeq' = Num(0) /\ synOutstanding' = TRUE
      /\ state' \in {"Negotiate", "Dead"}
      /\ state' # "Dead" => /\ SynLine(toAcc') /\ DataLine(toAcc', Len(accGot), sent)
  BY <1>1, <1>2, SendSynStream
<1>4. PhaseInv /\ sent \in Nat /\ GotInv
  BY <1>1, LiveFacts
<1>5. sent = 0
  BY <1>1, <1>4 DEF PhaseInv
<1>6. state' # "Dead" => PhaseInv'
  BY <1>1, <1>3, <1>4, <1>5 DEF PhaseInv, accVars
<1>7. sent' \in sent .. MaxPhoneMsgs
  BY <1>1, <1>4, BoundAssumption DEF GotInv
<1>8. \E p \in 0 .. Len(accGot) : /\ Window(pending', p, Len(accGot), sent')
                                  /\ AckLine(toPhone', p, Len(accGot))
  BY <1>1, FlightKept
<1> QED BY <1>1, <1>3, <1>6, <1>7, <1>8, PhoneStream

(* The link dies. *)
LEMMA DeathStream ==
  ASSUME TypeOK, StreamInv, state' = "Dead", UNCHANGED <<sent, accGot>>
  PROVE  StreamInv'
BY DEF StreamInv, GotInv

(* tick in NORMAL: the frame kept in pending_ is written again. *)
LEMMA RetransmitStream ==
  ASSUME TypeOK, StreamInv, NEW m \in DOMAIN pending, Retransmit(m)
  PROVE  StreamInv'
<1>1. /\ state = "Normal" /\ state # "Dead" /\ UNCHANGED accVars
      /\ UNCHANGED <<sentSeq, synSeq, synOutstanding, lsp, sent, toPhone>>
  BY DEF Retransmit
<1>2. CASE state' = "Dead"
  BY <1>1, <1>2, DeathStream DEF accVars
<1>3. CASE state' # "Dead"
  <2>1. /\ toAcc' = Put(toAcc, <<pending[m].frame>>) /\ state' = state
        /\ pending' = [pending EXCEPT ![m].retries = @ + 1]
    BY <1>3 DEF Retransmit
  <2>2. /\ PhaseInv /\ SynLine(toAcc) /\ DataLine(toAcc, Len(accGot), sent) /\ GotInv
        /\ Len(accGot) \in Nat /\ sent \in Nat /\ toAcc \in Seq(Frames) /\ Len(accGot) <= sent
    BY <1>1, LiveFacts
  <2>3. PICK p \in 0 .. Len(accGot) : /\ Window(pending, p, Len(accGot), sent)
                                      /\ AckLine(toPhone', p, Len(accGot))
    BY <1>1, FlightKept
  <2>4. /\ p \in Nat /\ sent - p <= Half /\ DOMAIN pending = p + 1 .. sent
        /\ \A k \in p + 1 .. sent : pending[k].frame.seq = Num(k) /\ pending[k].frame.msg = k
    BY <2>2, <2>3 DEF Window
  <2>5. pending[m] \in PendingMessages
    BY DEF TypeOK, PhoneTypeOK
  <2>6. Window(pending', p, Len(accGot), sent')
    <3>1. DOMAIN pending' = DOMAIN pending
      BY <2>1
    <3>2. \A k \in DOMAIN pending : pending'[k].frame = pending[k].frame
      BY <2>1, <2>5 DEF PendingMessages
    <3> QED BY <1>1, <2>3, <2>4, <3>1, <3>2 DEF Window
  <2> DEFINE f == pending[m].frame
             fs == <<f>>
  <2>7. /\ f \in Frames /\ f.kind = "DATA" /\ f.msg \in 1 .. sent /\ f.seq = Num(f.msg)
        /\ f.msg \in p + 1 .. sent
    <3>1. f \in Frames /\ f.kind = "DATA"
      BY <2>5 DEF PendingMessages, Frames
    <3>2. f.msg = m /\ m \in p + 1 .. sent /\ f.seq = Num(m)
      BY <2>4
    <3> QED BY <2>4, <3>1, <3>2
  <2> HIDE DEF f
  <2>8. fs \in Seq(Frames) /\ Len(fs) = 1 /\ \A i \in 1 .. Len(fs) : fs[i] = f
    BY <2>7
  <2> HIDE DEF fs
  <2>9. Len(accGot) < f.msg + Half /\ sent < f.msg + Half /\ f.msg < f.msg + Half
    BY <2>2, <2>4, <2>7, WidthFacts
  <2>10. DataLine(Put(toAcc, fs), Len(accGot), sent)
    <3>1. sent <= sent
      BY <2>2
    <3>2. \A i, j \in 1 .. Len(fs) : ~ (i < j)
      BY <2>8
    <3> QED BY <2>2, <2>7, <2>8, <2>9, <3>1, <3>2, DataPut
  <2>11. SynLine(Put(toAcc, fs))
    <3>1. SynLine(fs)
      BY <2>7, <2>8 DEF SynLine, HasSyn
    <3> QED BY <2>2, <2>8, <3>1, SynPut
  <2>12. SynLine(toAcc') /\ DataLine(toAcc', Len(accGot), sent')
    BY <1>1, <2>1, <2>10, <2>11 DEF fs, f
  <2>13. PhaseInv'
    BY <1>1, <2>1, <2>2 DEF PhaseInv, accVars
  <2>14. sent' \in sent .. MaxPhoneMsgs
    BY <1>1, <2>2, BoundAssumption DEF GotInv
  <2> QED BY <1>1, <2>3, <2>6, <2>12, <2>13, <2>14, PhoneStream
<1> QED BY <1>2, <1>3

(* send_control called from outside a callback *)
LEMMA SubmitStream ==
  ASSUME TypeOK, StreamInv, Submit
  PROVE  StreamInv'
<1>1. /\ state = "Normal" /\ state # "Dead" /\ sent < MaxPhoneMsgs /\ HasRoom(pending, 1)
      /\ SendControl(pending, 1, lastRx, <<>>) /\ UNCHANGED accVars
      /\ UNCHANGED <<synSeq, synOutstanding, lsp, toPhone>>
  BY DEF Submit
<1>2. /\ PhaseInv /\ SynLine(toAcc) /\ DataLine(toAcc, Len(accGot), sent)
      /\ Len(accGot) \in Nat /\ sent \in Nat
  BY <1>1, LiveFacts
<1>3. PICK p \in 0 .. Len(accGot) : /\ Window(pending, p, Len(accGot), sent)
                                    /\ AckLine(toPhone', p, Len(accGot))
  BY <1>1, FlightKept
<1>4. /\ lastRx \in SeqNum /\ sentSeq = Num(sent) /\ lsp.window <= Half /\ p \in Nat
  BY <1>1, <1>2 DEF PhaseInv, TypeOK, PhoneTypeOK
<1> DEFINE trailer == <<>>
<1>5. trailer \in Seq(Frames) /\ \A i \in 1 .. Len(trailer) : trailer[i].kind = "ACK"
  BY EmptySeq
<1>6. SendControl(pending, 1, lastRx, trailer)
  BY <1>1
<1> HIDE DEF trailer
<1>7. /\ sent' \in sent .. sent + 1
      /\ state' # "Dead" =>
           /\ state' = state /\ sentSeq' = Num(sent') /\ Window(pending', p, Len(accGot), sent')
           /\ DataLine(toAcc', Len(accGot), sent') /\ SynLine(toAcc')
  BY <1>1, <1>2, <1>3, <1>4, <1>5, <1>6, SendControlStream
<1>8. state' # "Dead" => PhaseInv'
  BY <1>1, <1>2, <1>7 DEF PhaseInv, accVars
<1>9. sent' \in sent .. MaxPhoneMsgs
  BY <1>1, <1>2, <1>7, BoundAssumption
<1> QED BY <1>1, <1>3, <1>7, <1>8, <1>9, PhoneStream

(* The next message in order, and the replies the callback sends *)
LEMMA ReceiveDataStream ==
  ASSUME TypeOK, StreamInv, ReceiveData
  PROVE  StreamInv'
<1> DEFINE f == Head(toPhone)
           queue == Unacknowledged(f)
<1>1. /\ state = "Normal" /\ state # "Dead" /\ UNCHANGED accVars
      /\ UNCHANGED <<synSeq, synOutstanding, lsp>> /\ toPhone # <<>> /\ toPhone' = Tail(toPhone)
  BY DEF ReceiveData, Receives
<1>2. f.seq \in SeqNum
  <2>1. f \in Frames /\ f.kind \in {"DATA"}
    BY ReceivesType DEF ReceiveData
  <2> QED BY <2>1, FrameFields
<1>3. PICK n \in 0 .. MaxReplies :
        /\ HasRoom(queue, n) /\ sent + n <= MaxPhoneMsgs
        /\ SendControl(queue, n, f.seq, <<AckFrame(Wrap(sentSeq + n), f.seq)>>)
  BY DEF ReceiveData
<1>4. /\ PhaseInv /\ SynLine(toAcc) /\ DataLine(toAcc, Len(accGot), sent)
      /\ Len(accGot) \in Nat /\ sent \in Nat
  BY <1>1, LiveFacts
<1>5. PICK p \in 0 .. Len(accGot) : /\ Window(queue, p, Len(accGot), sent)
                                    /\ AckLine(Tail(toPhone), p, Len(accGot))
  BY <1>1, FlightTaken
<1>6. /\ sentSeq = Num(sent) /\ lsp.window <= Half /\ p \in Nat /\ n \in Nat /\ sentSeq \in Nat
  BY <1>1, <1>4, BoundAssumption, SeqAssumption DEF PhaseInv, TypeOK, PhoneTypeOK, SeqNum
<1> DEFINE trailer == <<AckFrame(Wrap(sentSeq + n), f.seq)>>
<1>7. trailer \in Seq(Frames) /\ \A i \in 1 .. Len(trailer) : trailer[i].kind = "ACK"
  <2>1. Wrap(sentSeq + n) \in SeqNum
    BY <1>6, WrapType
  <2> QED BY <1>2, <2>1 DEF AckFrame, Frames
<1>8. SendControl(queue, n, f.seq, trailer)
  BY <1>3
<1> HIDE DEF trailer, queue, f
<1>9. /\ sent' \in sent .. sent + n
      /\ state' # "Dead" =>
           /\ state' = state /\ sentSeq' = Num(sent') /\ Window(pending', p, Len(accGot), sent')
           /\ DataLine(toAcc', Len(accGot), sent') /\ SynLine(toAcc')
  BY <1>2, <1>3, <1>4, <1>5, <1>6, <1>7, <1>8, SendControlStream
<1>10. state' # "Dead" => PhaseInv'
  BY <1>1, <1>4, <1>9 DEF PhaseInv, accVars
<1>11. sent' \in sent .. MaxPhoneMsgs
  BY <1>3, <1>4, <1>6, <1>9, BoundAssumption
<1> QED BY <1>1, <1>5, <1>9, <1>10, <1>11, PhoneStream

(* An acknowledgement written in NORMAL *)
LEMMA AckWrittenStream ==
  ASSUME TypeOK, StreamInv, ReceiveSynAgain \/ ReceiveOutOfOrder
  PROVE  StreamInv'
<1> DEFINE f == AckFrame(sentSeq, lastRx)
<1>1. /\ state = "Normal" /\ state # "Dead" /\ UNCHANGED accVars
      /\ UNCHANGED <<sentSeq, synSeq, synOutstanding, lsp, sent>>
      /\ toPhone # <<>> /\ toPhone' = Tail(toPhone)
      /\ pending' = Unacknowledged(Head(toPhone)) /\ Write(f, "Normal")
  BY DEF ReceiveSynAgain, ReceiveOutOfOrder, Receives
<1>2. /\ PhaseInv /\ SynLine(toAcc) /\ DataLine(toAcc, Len(accGot), sent) /\ GotInv
      /\ Len(accGot) \in Nat /\ sent \in Nat
  BY <1>1, LiveFacts
<1>3. f \in Frames /\ f.kind = "ACK"
  BY DEF TypeOK, PhoneTypeOK, AckFrame, Frames
<1> HIDE DEF f
<1>4. CASE state' = "Dead"
  BY <1>1, <1>4, DeathStream DEF accVars
<1>5. CASE state' # "Dead"
  <2>1. toAcc' = Put(toAcc, <<f>>) /\ state' = "Normal"
    BY <1>1, <1>5 DEF Write
  <2>2. DataLine(toAcc', Len(accGot), sent') /\ SynLine(toAcc')
    BY <1>1, <1>2, <1>3, <2>1, PutOther DEF HasSyn
  <2>3. \E p \in 0 .. Len(accGot) : /\ Window(pending', p, Len(accGot), sent')
                                    /\ AckLine(toPhone', p, Len(accGot))
    BY <1>1, FlightTaken
  <2>4. PhaseInv'
    BY <1>1, <1>2, <2>1 DEF PhaseInv, accVars
  <2>5. sent' \in sent .. MaxPhoneMsgs
    BY <1>1, <1>2, BoundAssumption DEF GotInv
  <2> QED BY <1>1, <2>2, <2>3, <2>4, <2>5, PhoneStream
<1> QED BY <1>4, <1>5

(* A SYN in NEGOTIATE *)
LEMMA ReceiveSynStream ==
  ASSUME TypeOK, StreamInv, ReceiveSyn, state # "Dead"
  PROVE  StreamInv'
<1> DEFINE f == Head(toPhone)
<1>1. /\ state = "Negotiate" /\ UNCHANGED accVars /\ UNCHANGED sent
      /\ toPhone # <<>> /\ toPhone' = Tail(toPhone)
      /\ pending' = Unacknowledged(f) /\ lsp' = Clamp(f.lsp)
      /\ SendSyn("SYNACK", f.seq, Clamp(f.lsp))
  BY DEF ReceiveSyn, Receives
<1>2. f.seq \in SeqNum /\ f.lsp \in Lsps
  <2>1. f \in Frames /\ f.kind \in {"SYN", "SYNACK"}
    BY ReceivesType DEF ReceiveSyn
  <2> QED BY <2>1, FrameFields
<1>3. Clamp(f.lsp) \in Lsps /\ lsp'.window <= Half
  BY <1>1, <1>2, ClampType, ClampWindow
<1>4. /\ sentSeq' = Num(0) /\ synSeq' = Num(0) /\ synOutstanding' = TRUE
      /\ state' \in {"Negotiate", "Dead"}
      /\ state' # "Dead" => /\ SynLine(toAcc') /\ DataLine(toAcc', Len(accGot), sent)
  BY <1>1, <1>2, <1>3, SendSynStream
<1>5. PhaseInv /\ sent \in Nat /\ GotInv
  BY LiveFacts
<1>6. sent = 0
  BY <1>1, <1>5 DEF PhaseInv
<1>7. state' # "Dead" => PhaseInv'
  BY <1>1, <1>3, <1>4, <1>5, <1>6 DEF PhaseInv, accVars
<1>8. sent' \in sent .. MaxPhoneMsgs
  BY <1>1, <1>5, BoundAssumption DEF GotInv
<1>9. \E p \in 0 .. Len(accGot) : /\ Window(pending', p, Len(accGot), sent')
                                  /\ AckLine(toPhone', p, Len(accGot))
  BY <1>1, FlightTaken
<1> QED BY <1>1, <1>4, <1>7, <1>8, <1>9, PhoneStream

(* Handlers that write nothing: only an ACK, which the accessory sends once *)
(* it has the phone's SYN, leads to NORMAL.                                 *)
LEMMA SilentStream ==
  ASSUME TypeOK, StreamInv, state # "Dead",
         ReceiveUnreadableSyn \/ ReceiveSynAck \/ ReceiveAck
  PROVE  StreamInv'
<1>1. /\ UNCHANGED accVars /\ UNCHANGED <<sentSeq, synSeq, lsp, sent, toAcc>>
      /\ toPhone # <<>> /\ toPhone' = Tail(toPhone) /\ pending' = Unacknowledged(Head(toPhone))
  BY DEF ReceiveUnreadableSyn, ReceiveSynAck, ReceiveAck, Receives
<1>2. /\ PhaseInv /\ SynLine(toAcc) /\ DataLine(toAcc, Len(accGot), sent) /\ GotInv
      /\ Len(accGot) \in Nat /\ sent \in Nat /\ toPhone \in Seq(Frames)
      /\ NoAckYet(toPhone, accPhoneSyn)
  BY LiveFacts
<1>3. \/ UNCHANGED <<state, synOutstanding>>
      \/ state = "Negotiate" /\ state' = "Normal" /\ accPhoneSyn
  <2>1. CASE UNCHANGED <<state, synOutstanding>>
    BY <2>1
  <2>2. CASE ReceiveSynAck /\ state' = "Normal" /\ state = "Negotiate"
    <3>1. HasAck(Head(toPhone))
      BY <2>2 DEF ReceiveSynAck, Receives, HasAck
    <3>2. 1 \in 1 .. Len(toPhone) /\ Head(toPhone) = toPhone[1]
      BY <1>1, <1>2, HeadTailProperties, LenProperties, EmptySeq
    <3> QED BY <1>2, <2>2, <3>1, <3>2 DEF NoAckYet
  <2> QED BY <2>1, <2>2 DEF ReceiveUnreadableSyn, ReceiveSynAck, ReceiveAck
<1>4. PhaseInv'
  BY <1>1, <1>2, <1>3 DEF PhaseInv, accVars
<1>5. sent' \in sent .. MaxPhoneMsgs
  BY <1>1, <1>2, BoundAssumption DEF GotInv
<1>6. \E p \in 0 .. Len(accGot) : /\ Window(pending', p, Len(accGot), sent')
                                  /\ AckLine(toPhone', p, Len(accGot))
  BY <1>1, FlightTaken
<1> QED BY <1>1, <1>2, <1>4, <1>5, <1>6, PhoneStream

LEMMA NoiseStream ==
  ASSUME TypeOK, StreamInv, state # "Dead", ReceiveNoise
  PROVE  StreamInv'
<1>1. /\ UNCHANGED accVars /\ UNCHANGED linkVars /\ toAcc' = toAcc
      /\ toPhone # <<>> /\ toPhone' = Tail(toPhone)
  BY DEF ReceiveNoise, Receives
<1>2. /\ PhaseInv /\ SynLine(toAcc) /\ DataLine(toAcc, Len(accGot), sent) /\ GotInv
      /\ sent \in Nat
  BY LiveFacts
<1>3. \E p \in 0 .. Len(accGot) : /\ Window(pending, p, Len(accGot), sent)
                                  /\ AckLine(toPhone', p, Len(accGot))
  BY <1>1, FlightKept
<1>4. PhaseInv' /\ sent' \in sent .. MaxPhoneMsgs /\ sent' = sent /\ pending' = pending
  BY <1>1, <1>2, BoundAssumption DEF PhaseInv, GotInv, accVars, linkVars
<1> QED BY <1>1, <1>2, <1>3, <1>4, PhoneStream

(* On a dead link nothing is sent and nothing arrives. *)
LEMMA DeadStays ==
  ASSUME TypeOK, state = "Dead", Next
  PROVE  state' = "Dead" /\ UNCHANGED <<sent, accGot>>
<1>1. CASE Start \/ MarkerFails \/ Tick \/ Submit
  BY <1>1 DEF Start, MarkerFails, Tick, RepeatSyn, Retransmit, Submit
<1>2. CASE HandlePacket
  BY <1>2 DEF HandlePacket, ReceiveMarker, ReceiveNoise, ReceiveLong, ReceiveReset,
              ReceiveSynAgain, ReceiveSyn, ReceiveUnreadableSyn, ReceiveSynAck, ReceiveAck,
              ReceiveOutOfOrder, ReceiveData, linkVars, accVars
<1>3. CASE Peer \/ LoseFrame
  BY <1>3 DEF Peer, LoseFrame, PeerMarker, PeerSendSyn, PeerBreaksOff, PeerSendData,
              PeerRepeatData, PeerReceiveSyn, PeerReceiveAck, PeerReceiveData,
              PeerSends, PeerReceives
<1> QED BY <1>1, <1>2, <1>3 DEF Next

(* A frame of the accessory: it acknowledges what the accessory has. *)
LEMMA PeerSendsStream ==
  ASSUME TypeOK, StreamInv, NEW frame \in Frames, PeerSends(frame),
         HasAck(frame) => accPhoneSyn /\ frame.ack = accRx,
         UNCHANGED linkVars, UNCHANGED <<toAcc, accPhoneSyn, accRx, accGot>>,
         accMsgs' = accMsgs \/ accPhoneSyn
  PROVE  StreamInv'
<1>1. /\ state # "Dead" /\ toPhone' = Append(toPhone, frame)
      /\ UNCHANGED <<state, sentSeq, synSeq, synOutstanding, lsp, pending, sent>>
  BY DEF PeerSends, linkVars
<1>2. /\ PhaseInv /\ SynLine(toAcc) /\ DataLine(toAcc, Len(accGot), sent) /\ GotInv
      /\ Len(accGot) \in Nat /\ sent \in Nat /\ toPhone \in Seq(Frames)
      /\ NoAckYet(toPhone, accPhoneSyn)
  BY <1>1, LiveFacts
<1>3. PICK p \in 0 .. Len(accGot) : Flight(p)
  BY <1>1, LiveFacts
<1>4. /\ p \in Nat /\ p <= Len(accGot) /\ Len(accGot) - p < SeqMod
      /\ HasAck(frame) => frame.ack = Num(Len(accGot))
  <2>1. sent - p <= Half /\ Len(accGot) <= sent
    BY <1>3 DEF Flight, Window
  <2>2. HasAck(frame) => frame.ack = Num(Len(accGot))
    BY <1>2 DEF PhaseInv
  <2> QED BY <1>2, <2>1, <2>2, WidthFacts
<1>5. AckLine(toPhone', p, Len(accGot))
  BY <1>1, <1>2, <1>3, <1>4, AckAppend DEF Flight
<1>6. Flight(p)'
  BY <1>1, <1>3, <1>5 DEF Flight
<1>7. NoAckYet(toPhone', accPhoneSyn)
  <2>1. CASE accPhoneSyn
    BY <2>1 DEF NoAckYet
  <2>2. CASE ~ accPhoneSyn
    <3>1. \A i \in 1 .. Len(toPhone') : \/ toPhone'[i] = frame
                                        \/ i \in 1 .. Len(toPhone) /\ toPhone'[i] = toPhone[i]
      BY <1>1, <1>2, AppendProperties, LenProperties
    <3> QED BY <1>2, <2>2, <3>1 DEF NoAckYet
  <2> QED BY <2>1, <2>2
<1>8. PhaseInv'
  BY <1>1, <1>2 DEF PhaseInv
<1>9. GotInv'
  BY <1>1, <1>2 DEF GotInv
<1>10. SynLine(toAcc') /\ DataLine(toAcc', Len(accGot'), sent')
  BY <1>1, <1>2
<1> QED BY <1>6, <1>7, <1>8, <1>9, <1>10 DEF StreamInv

LEMMA PeerFramesStream ==
  ASSUME TypeOK, StreamInv,
         PeerMarker \/ PeerSendSyn \/ PeerBreaksOff \/ PeerSendData \/ PeerRepeatData
  PROVE  StreamInv'
<1>0. /\ accRx \in SeqNum /\ accLsp \in Lsps /\ PeerSyn \in SeqNum /\ accMsgs \in Seq(Sids)
      /\ Len(accMsgs) \in Nat
  BY LspAssumption, SeqAssumption, LenProperties DEF TypeOK, PeerTypeOK
<1>1. CASE PeerMarker
  <2>1. Marker \in Frames /\ ~ HasAck(Marker)
    BY DEF Marker, Frames, HasAck
  <2> QED BY <1>1, <2>1, PeerSendsStream DEF PeerMarker, accVars
<1>2. CASE PeerSendSyn
  <2>1. PeerSynFrame \in Frames /\ (HasAck(PeerSynFrame) => accPhoneSyn /\ PeerSynFrame.ack = accRx)
    BY <1>0 DEF PeerSynFrame, SynFrame, Frames, HasAck
  <2> QED BY <1>2, <2>1, PeerSendsStream DEF PeerSendSyn, accVars
<1>3. CASE PeerBreaksOff
  <2>1. PICK kind \in {"RST", "LONG"} : PeerSends([kind |-> kind])
    BY <1>3 DEF PeerBreaksOff
  <2> DEFINE frame == [kind |-> kind]
  <2>2. frame \in Frames /\ ~ HasAck(frame) /\ PeerSends(frame)
    BY <2>1 DEF Frames, HasAck
  <2> HIDE DEF frame
  <2> QED BY <1>3, <2>2, PeerSendsStream DEF PeerBreaksOff, accVars
<1>4. CASE PeerSendData
  <2>1. PICK s \in {IF accLsp.sid = NoSid THEN DefaultSid ELSE accLsp.sid, OtherSid} :
          PeerSends(DataFrame(PeerSeq(Len(accMsgs) + 1), accRx, s, Len(accMsgs) + 1))
    BY <1>4 DEF PeerSendData
  <2> DEFINE frame == DataFrame(PeerSeq(Len(accMsgs) + 1), accRx, s, Len(accMsgs) + 1)
  <2>2. s \in Sids
    BY <1>0, SidsType DEF Lsps
  <2>3. frame \in Frames /\ frame.ack = accRx /\ PeerSends(frame)
    BY <1>0, <2>1, <2>2, PeerSeqType DEF DataFrame, Frames
  <2> HIDE DEF frame
  <2>4. accPhoneSyn /\ UNCHANGED linkVars /\ UNCHANGED <<toAcc, accPhoneSyn, accRx, accGot>>
    BY <1>4 DEF PeerSendData
  <2> QED BY <2>3, <2>4, PeerSendsStream
<1>5. CASE PeerRepeatData
  <2>1. PICK m \in accAcked + 1 .. Len(accMsgs) : PeerSends(PeerDataFrame(m))
    BY <1>5 DEF PeerRepeatData
  <2>2. m \in 1 .. Len(accMsgs)
    BY <1>0 DEF TypeOK, PeerTypeOK
  <2>3. accMsgs[m] \in Sids
    BY <1>0, <2>2, ElementOfSeq
  <2>4. PeerDataFrame(m) \in Frames /\ PeerDataFrame(m).ack = accRx
    BY <1>0, <2>2, <2>3, PeerSeqType DEF PeerDataFrame, DataFrame, Frames
  <2>5. state # "Dead"
    BY <2>1 DEF PeerSends
  <2>6. accPhoneSyn
    <3>1. PhaseInv
      BY <2>5, LiveFacts
    <3>2. accMsgs # <<>>
      BY <1>0, <2>2
    <3> QED BY <3>1, <3>2 DEF PhaseInv
  <2> QED BY <1>5, <2>1, <2>4, <2>6, PeerSendsStream DEF PeerRepeatData, accVars
<1> QED BY <1>1, <1>2, <1>3, <1>4, <1>5

(* The head of the phone's channel *)
LEMMA HeadStream ==
  ASSUME TypeOK, StreamInv, state # "Dead", toAcc # <<>>
  PROVE  /\ Tail(toAcc) \in Seq(Frames) /\ SynLine(Tail(toAcc))
         /\ DataLine(Tail(toAcc), Len(accGot), sent) /\ Head(toAcc) \in Frames
         /\ HasSyn(Head(toAcc)) => Head(toAcc).seq = Num(0)
         /\ Head(toAcc).kind = "DATA" =>
              /\ Head(toAcc).msg \in 1 .. sent /\ Head(toAcc).seq = Num(Head(toAcc).msg)
              /\ Len(accGot) < Head(toAcc).msg + Half
<1>1. /\ SynLine(toAcc) /\ DataLine(toAcc, Len(accGot), sent) /\ toAcc \in Seq(Frames)
  BY LiveFacts
<1>2. /\ 1 \in 1 .. Len(toAcc) /\ Head(toAcc) = toAcc[1] /\ Tail(toAcc) \in Seq(Frames)
      /\ Head(toAcc) \in Frames
  BY <1>1, HeadTailProperties, LenProperties, EmptySeq
<1>3. Slides(toAcc, Tail(toAcc))
  BY <1>1, TailSlides
<1>4. SynLine(Tail(toAcc)) /\ DataLine(Tail(toAcc), Len(accGot), sent)
  BY <1>1, <1>2, <1>3, SlidesOthers, SlidesData
<1>5. HasSyn(Head(toAcc)) => Head(toAcc).seq = Num(0)
  BY <1>1, <1>2 DEF SynLine
<1>6. Head(toAcc).kind = "DATA" =>
              /\ Head(toAcc).msg \in 1 .. sent /\ Head(toAcc).seq = Num(Head(toAcc).msg)
              /\ Len(accGot) < Head(toAcc).msg + Half
  BY <1>1, <1>2 DEF DataLine
<1> QED BY <1>2, <1>4, <1>5, <1>6

(* The answer of the accessory is written behind its other frames.          *)
LEMMA AnswerStream ==
  ASSUME TypeOK, NEW p \in Nat, NEW g \in Nat, p <= g, g - p < SeqMod, AckLine(toPhone, p, g),
         NEW f \in Frames, f.ack = Num(g), toPhone' = Put(toPhone, <<f>>)
  PROVE  AckLine(toPhone', p, g)
<1>1. toPhone \in Seq(Frames) /\ Append(toPhone, f) \in Seq(Frames)
  BY AppendProperties DEF TypeOK, PeerTypeOK
<1>2. AckLine(Append(toPhone, f), p, g)
  BY <1>1, AckAppend
<1>3. Slides(Append(toPhone, f), toPhone')
  BY <1>1, PutOneSlides
<1>4. toPhone' \in Seq(Frames)
  <2>1. <<f>> \in Seq(Frames)
    OBVIOUS
  <2> QED BY <1>1, <2>1, PutType
<1> QED BY <1>1, <1>2, <1>3, <1>4, SlidesAcks

LEMMA PeerSynStream ==
  ASSUME TypeOK, StreamInv, PeerReceiveSyn
  PROVE  StreamInv'
<1> DEFINE reply == IF PeerAcksEarly \/ accSynAcked'
                    THEN AckFrame(PeerSeq(Len(accMsgs)), accRx')
                    ELSE SynFrame("SYNACK", PeerSyn, accRx', accLsp)
<1>1. /\ state # "Dead" /\ toAcc # <<>> /\ toAcc' = Tail(toAcc) /\ accPhoneSyn' = TRUE
      /\ HasSyn(Head(toAcc)) /\ UNCHANGED linkVars /\ UNCHANGED <<accGot, accMsgs>>
      /\ accRx' = (IF accPhoneSyn THEN accRx ELSE Head(toAcc).seq)
      /\ toPhone' = Put(toPhone, <<reply>>)
  BY DEF PeerReceiveSyn, PeerReceives, HasSyn
<1>2. UNCHANGED <<state, sentSeq, synSeq, synOutstanding, lsp, pending, sent>>
  BY <1>1 DEF linkVars
<1>3. /\ PhaseInv /\ GotInv /\ Len(accGot) \in Nat /\ sent \in Nat /\ Len(accGot) <= sent
  BY <1>1, LiveFacts
<1>4. /\ SynLine(toAcc') /\ DataLine(toAcc', Len(accGot'), sent') /\ Head(toAcc).seq = Num(0)
  BY <1>1, <1>2, HeadStream
<1>5. accRx' = Num(Len(accGot))
  <2>1. CASE accPhoneSyn
    BY <1>1, <1>3, <2>1 DEF PhaseInv
  <2>2. CASE ~ accPhoneSyn
    <3>1. sent = 0
      BY <1>1, <1>3, <2>2 DEF PhaseInv
    <3> QED BY <1>1, <1>3, <1>4, <2>2, <3>1
  <2> QED BY <2>1, <2>2
<1>6. PICK p \in 0 .. Len(accGot) : Flight(p)
  BY <1>1, LiveFacts
<1>7. p \in Nat /\ p <= Len(accGot) /\ Len(accGot) - p < SeqMod
  <2>1. sent - p <= Half
    BY <1>6 DEF Flight, Window
  <2> QED BY <1>3, <2>1, WidthFacts
<1>8. reply \in Frames /\ reply.ack = Num(Len(accGot))
  <2>1. Num(Len(accGot)) \in SeqNum /\ PeerSyn \in SeqNum /\ accLsp \in Lsps /\ Len(accMsgs) \in Nat
    BY <1>3, NumType, SeqAssumption, LspAssumption, LenProperties DEF TypeOK, PeerTypeOK
  <2>2. /\ AckFrame(PeerSeq(Len(accMsgs)), accRx') \in Frames
        /\ AckFrame(PeerSeq(Len(accMsgs)), accRx').ack = Num(Len(accGot))
    BY <1>5, <2>1, PeerSeqType DEF AckFrame, Frames
  <2>3. /\ SynFrame("SYNACK", PeerSyn, accRx', accLsp) \in Frames
        /\ SynFrame("SYNACK", PeerSyn, accRx', accLsp).ack = Num(Len(accGot))
    BY <1>5, <2>1 DEF SynFrame, Frames
  <2> QED BY <2>2, <2>3
<1> HIDE DEF reply
<1>9. AckLine(toPhone', p, Len(accGot))
  BY <1>1, <1>3, <1>6, <1>7, <1>8, AnswerStream DEF Flight
<1>10. Flight(p)'
  BY <1>1, <1>2, <1>6, <1>9 DEF Flight
<1>11. PhaseInv' /\ GotInv' /\ NoAckYet(toPhone', accPhoneSyn')
  BY <1>1, <1>2, <1>3, <1>5 DEF PhaseInv, GotInv, NoAckYet
<1> QED BY <1>1, <1>4, <1>6, <1>10, <1>11 DEF StreamInv

LEMMA PeerAckStream ==
  ASSUME TypeOK, StreamInv, PeerReceiveAck \/ LoseFrame
  PROVE  StreamInv'
<1>1. /\ state # "Dead" /\ UNCHANGED linkVars
      /\ UNCHANGED <<accPhoneSyn, accRx, accGot, accMsgs>>
      /\ toAcc' = toAcc \/ (toAcc # <<>> /\ toAcc' = Tail(toAcc))
      /\ toPhone' = toPhone \/ (toPhone # <<>> /\ toPhone' = Tail(toPhone))
  BY DEF PeerReceiveAck, PeerReceives, LoseFrame, accVars
<1>2. UNCHANGED <<state, sentSeq, synSeq, synOutstanding, lsp, pending, sent>>
  BY <1>1 DEF linkVars
<1>3. /\ PhaseInv /\ GotInv /\ Len(accGot) \in Nat /\ sent \in Nat /\ toPhone \in Seq(Frames)
      /\ SynLine(toAcc) /\ DataLine(toAcc, Len(accGot), sent) /\ NoAckYet(toPhone, accPhoneSyn)
  BY <1>1, LiveFacts
<1>4. SynLine(toAcc') /\ DataLine(toAcc', Len(accGot'), sent')
  <2>1. CASE toAcc' = toAcc
    BY <1>1, <1>2, <1>3, <2>1
  <2>2. CASE toAcc # <<>> /\ toAcc' = Tail(toAcc)
    BY <1>1, <1>2, <2>2, HeadStream
  <2> QED BY <1>1, <2>1, <2>2
<1>5. PICK p \in 0 .. Len(accGot) : /\ Window(pending, p, Len(accGot), sent)
                                    /\ AckLine(toPhone', p, Len(accGot))
  BY <1>1, FlightKept
<1>6. Flight(p)'
  BY <1>1, <1>2, <1>5 DEF Flight
<1>7. PhaseInv' /\ GotInv'
  BY <1>1, <1>2, <1>3 DEF PhaseInv, GotInv
<1>8. NoAckYet(toPhone', accPhoneSyn')
  <2>1. CASE toPhone' = toPhone
    BY <1>1, <1>3, <2>1
  <2>2. CASE toPhone # <<>> /\ toPhone' = Tail(toPhone)
    <3>1. Slides(toPhone, Tail(toPhone)) /\ Tail(toPhone) \in Seq(Frames)
      BY <1>3, <2>2, TailSlides, HeadTailProperties
    <3> QED BY <1>1, <1>3, <2>2, <3>1, SlidesOthers
  <2> QED BY <1>1, <2>1, <2>2
<1> QED BY <1>1, <1>4, <1>5, <1>6, <1>7, <1>8 DEF StreamInv

(* The accessory takes data only when it is the message after the last: a   *)
(* repeated or early one has another number.                                *)
LEMMA DataAccepted ==
  ASSUME TypeOK, StreamInv, PeerReceiveData
  PROVE  \/ UNCHANGED <<accRx, accGot>>
         \/ /\ Len(accGot) + 1 <= sent /\ accGot' = Append(accGot, Len(accGot) + 1)
            /\ Head(toAcc).msg = Len(accGot) + 1 /\ accRx' = Num(Len(accGot) + 1)
<1> DEFINE f == Head(toAcc)
           g == Len(accGot)
<1>1. /\ state # "Dead" /\ toAcc # <<>> /\ f.kind = "DATA"
  BY DEF PeerReceiveData, PeerReceives
<1>2. PhaseInv /\ g \in Nat /\ sent \in Nat
  BY <1>1, LiveFacts
<1>3. f.msg \in 1 .. sent /\ f.seq = Num(f.msg) /\ g < f.msg + Half
  BY <1>1, HeadStream
<1>4. accPhoneSyn /\ accRx = Num(g)
  BY <1>1, <1>2, <1>3 DEF PhaseInv
<1>5. PICK p \in 0 .. g : sent - p <= Half
  BY <1>1, LiveFacts DEF Flight, Window
<1>6. CASE f.seq = Wrap(accRx + 1)
  <2>1. f.seq = Num(g + 1)
    BY <1>2, <1>4, <1>6, NumAdd
  <2>2. f.msg \in Int /\ g + 1 \in Int /\ f.msg - (g + 1) < SeqMod /\ (g + 1) - f.msg < SeqMod
    BY <1>2, <1>3, <1>5, WidthFacts
  <2>3. f.msg = g + 1
    BY <1>3, <2>1, <2>2, NumSame
  <2> QED BY <1>3, <1>6, <2>1, <2>3 DEF PeerReceiveData
<1>7. CASE f.seq # Wrap(accRx + 1)
  BY <1>7 DEF PeerReceiveData
<1> QED BY <1>6, <1>7

LEMMA PeerDataStream ==
  ASSUME TypeOK, StreamInv, PeerReceiveData
  PROVE  StreamInv'
<1> DEFINE reply == AckFrame(PeerSeq(Len(accMsgs)), accRx')
           g == Len(accGot)
<1>1. /\ state # "Dead" /\ toAcc # <<>> /\ toAcc' = Tail(toAcc) /\ Head(toAcc).kind = "DATA"
      /\ UNCHANGED linkVars /\ UNCHANGED <<accPhoneSyn, accMsgs>>
      /\ toPhone' = Put(toPhone, <<reply>>)
  BY DEF PeerReceiveData, PeerReceives
<1>2. UNCHANGED <<state, sentSeq, synSeq, synOutstanding, lsp, pending, sent>>
  BY <1>1 DEF linkVars
<1>3. /\ PhaseInv /\ GotInv /\ g \in Nat /\ sent \in Nat /\ toPhone \in Seq(Frames)
      /\ DataLine(toAcc, g, sent) /\ toAcc \in Seq(Frames)
  BY <1>1, LiveFacts
<1>4. /\ SynLine(toAcc') /\ DataLine(toAcc', g, sent)
      /\ Head(toAcc).msg \in 1 .. sent
  BY <1>1, HeadStream
<1>5. accPhoneSyn /\ accRx = Num(g)
  BY <1>1, <1>3, <1>4 DEF PhaseInv
<1>6. PICK p \in 0 .. g : Window(pending, p, g, sent) /\ AckLine(toPhone, p, g)
  BY <1>1, LiveFacts DEF Flight
<1>7. p \in Nat /\ p <= g /\ sent - p <= Half /\ g <= sent
  BY <1>3, <1>6 DEF Window
<1>8. \A n \in Nat : accRx' = Num(n) => reply \in Frames /\ reply.ack = Num(n)
  <2>1. Len(accMsgs) \in Nat
    BY LenProperties DEF TypeOK, PeerTypeOK
  <2> QED BY <2>1, NumType, PeerSeqType DEF AckFrame, Frames
<1> HIDE DEF reply
<1>9. NoAckYet(toPhone', accPhoneSyn')
  BY <1>1, <1>5 DEF NoAckYet
<1>10. CASE UNCHANGED <<accRx, accGot>>
  <2>1. g - p < SeqMod
    BY <1>3, <1>7, WidthFacts
  <2>2. AckLine(toPhone', p, g)
    BY <1>1, <1>3, <1>5, <1>6, <1>7, <1>8, <1>10, <2>1, AnswerStream
  <2>3. Flight(p)'
    BY <1>2, <1>6, <1>10, <2>2 DEF Flight
  <2>4. PhaseInv' /\ GotInv'
    BY <1>1, <1>2, <1>3, <1>10 DEF PhaseInv, GotInv
  <2> QED BY <1>2, <1>4, <1>6, <1>9, <1>10, <2>3, <2>4 DEF StreamInv
<1>11. CASE /\ g + 1 <= sent /\ accGot' = Append(accGot, g + 1)
            /\ Head(toAcc).msg = g + 1 /\ accRx' = Num(g + 1)
  <2>1. /\ Len(accGot') = g + 1 /\ \A i \in 1 .. g + 1 : accGot'[i] = i
    <3>1. accGot \in Seq(Nat) /\ \A i \in 1 .. g : accGot[i] = i
      BY <1>3 DEF TypeOK, PeerTypeOK, GotInv
    <3> QED BY <1>3, <1>11, <3>1
  <2>2. g + 1 - p < SeqMod /\ g + 1 \in Nat /\ p \in 0 .. g + 1 /\ p <= g + 1
    BY <1>3, <1>7, <1>11, WidthFacts
  <2>3. AckLine(toPhone, p, g + 1)
    BY <1>3, <1>6, <1>7, <2>2, AckGrows
  <2>4. AckLine(toPhone', p, g + 1)
    BY <1>1, <1>8, <1>11, <2>2, <2>3, AnswerStream
  <2>5. Window(pending, p, g + 1, sent)
    BY <1>6, <1>11, <2>2 DEF Window
  <2>6. Flight(p)'
    BY <1>2, <2>1, <2>4, <2>5 DEF Flight
  <2>7. DataLine(toAcc', g + 1, sent)
    BY <1>1, <1>3, <1>11, DataGrows
  <2>8. PhaseInv'
    BY <1>1, <1>2, <1>3, <1>11, <2>1 DEF PhaseInv
  <2>9. GotInv'
    BY <1>2, <1>3, <1>11, <2>1 DEF GotInv
  <2> QED BY <1>2, <1>4, <1>9, <2>1, <2>2, <2>6, <2>7, <2>8, <2>9 DEF StreamInv
<1> QED BY <1>10, <1>11, DataAccepted

(* Frames in flight are never so old that their numbers are mistaken.       *)
LEMMA NextStream ==
  ASSUME TypeOK, StreamInv, Next
  PROVE  StreamInv'
<1>1. CASE state = "Dead"
  BY <1>1, DeadStays, DeathStream
<1>2. CASE state # "Dead"
  <2>1. CASE MarkerFails \/ ReceiveLong \/ ReceiveReset
    <3>1. state' = "Dead" /\ UNCHANGED <<sent, accGot>>
      BY <2>1 DEF MarkerFails, ReceiveLong, ReceiveReset, accVars
    <3> QED BY <3>1, DeathStream
  <2>2. CASE Start \/ Tick \/ Submit
    BY <2>2, SynStream, RetransmitStream, SubmitStream DEF Tick
  <2>3. CASE HandlePacket
    BY <1>2, <2>1, <2>3, SynStream, NoiseStream, AckWrittenStream, ReceiveSynStream, SilentStream,
       ReceiveDataStream DEF HandlePacket
  <2>4. CASE Peer \/ LoseFrame
    BY <2>4, PeerFramesStream, PeerSynStream, PeerAckStream, PeerDataStream DEF Peer
  <2> QED BY <2>1, <2>2, <2>3, <2>4 DEF Next
<1> QED BY <1>1, <1>2

(* Every step of send_control, tick, handle_packet and the accessory keeps  *)
(* the invariant of the stream: window, frames and acknowledgements in      *)
(* flight stay within half the width of a sequence number.                  *)
THEOREM StreamInvariant == Spec => [](TypeOK /\ StreamInv)
<1>1. TypeOK /\ StreamInv /\ [Next]_vars => StreamInv'
  <2> SUFFICES ASSUME TypeOK, StreamInv, [Next]_vars PROVE StreamInv'
    OBVIOUS
  <2>1. CASE UNCHANGED vars
    <3>1. /\ UNCHANGED <<state, sentSeq, synSeq, synOutstanding, lsp, pending, sent>>
          /\ UNCHANGED <<toAcc, toPhone, accPhoneSyn, accRx, accGot, accMsgs>>
      BY <2>1 DEF vars, linkVars, accVars
    <3>2. PhaseInv' = PhaseInv /\ GotInv' = GotInv
      BY <3>1 DEF PhaseInv, GotInv
    <3>3. \A p : Flight(p)' = Flight(p)
      BY <3>1 DEF Flight
    <3> QED BY <3>1, <3>2, <3>3 DEF StreamInv
  <2> QED BY <2>1, NextStream
<1> QED BY <1>1, InitStream, TypeCorrect, PTL DEF Spec

-----------------------------------------------------------------------------
(* The parameters of the link, with any accessory.                          *)

SynsAnnounce ==
  \A i \in 1 .. Len(toPhone) : HasSyn(toPhone[i]) => toPhone[i].lsp = accLsp

InUse ==
  \/ accLsp.ok /\ lsp = Clamp(accLsp) /\ sid = AnnouncedSid
  \/ lsp = DefaultLsp /\ sid = DefaultSid

ParametersInv == SynsAnnounce /\ InUse

(* The accessory announces the same parameters in every SYN. *)
LEMMA AnnouncesStep ==
  ASSUME TypeOK, ParametersInv, Next
  PROVE  accLsp' = accLsp /\ SynsAnnounce'
<1>0. toPhone \in Seq(Frames) /\ Len(toPhone) \in Nat
  BY LenProperties DEF TypeOK, PeerTypeOK
<1>1. accLsp' = accLsp
  BY DEF Next, Start, MarkerFails, Tick, RepeatSyn, Retransmit, Submit, HandlePacket,
         ReceiveMarker, ReceiveNoise, ReceiveLong, ReceiveReset, ReceiveSynAgain, ReceiveSyn,
         ReceiveUnreadableSyn, ReceiveSynAck, ReceiveAck, ReceiveOutOfOrder, ReceiveData,
         Peer, LoseFrame, PeerMarker, PeerSendSyn, PeerBreaksOff, PeerSendData,
         PeerRepeatData, PeerReceiveSyn, PeerReceiveAck, PeerReceiveData, accVars
<1> SUFFICES SynsAnnounce'
  BY <1>1
<1>2. ASSUME \A i \in 1 .. Len(toPhone') :
               \/ \E j \in 1 .. Len(toPhone) : toPhone'[i] = toPhone[j]
               \/ HasSyn(toPhone'[i]) => toPhone'[i].lsp = accLsp
      PROVE  SynsAnnounce'
  BY <1>1, <1>2 DEF ParametersInv, SynsAnnounce
<1>3. CASE (toPhone' = Tail(toPhone) /\ toPhone # <<>>) \/ toPhone' = toPhone
  <2>1. CASE toPhone' = toPhone
    BY <1>2, <2>1
  <2>2. CASE toPhone' = Tail(toPhone) /\ toPhone # <<>>
    <3>1. \A i \in 1 .. Len(Tail(toPhone)) :
            \E j \in 1 .. Len(toPhone) : Tail(toPhone)[i] = toPhone[j]
      BY <1>0, <2>2, TailElements
    <3> QED BY <1>2, <2>2, <3>1
  <2> QED BY <1>3, <2>1, <2>2
<1>4. ASSUME NEW frame, PeerSends(frame), HasSyn(frame) => frame.lsp = accLsp
      PROVE  SynsAnnounce'
  <2>1. \A i \in 1 .. Len(toPhone') :
          \/ i \in 1 .. Len(toPhone) /\ toPhone'[i] = toPhone[i]
          \/ toPhone'[i] = frame
    BY <1>0, <1>4 DEF PeerSends
  <2> QED BY <1>2, <1>4, <2>1
<1>5. ASSUME NEW frame \in Frames, toPhone' = Put(toPhone, <<frame>>),
             HasSyn(frame) => frame.lsp = accLsp
      PROVE  SynsAnnounce'
  <2>1. <<frame>> \in Seq(Frames) /\ \A j \in 1 .. Len(<<frame>>) : <<frame>>[j] = frame
    BY <1>5
  <2>2. \A i \in 1 .. Len(Put(toPhone, <<frame>>)) :
          \/ \E j \in 1 .. Len(toPhone) : Put(toPhone, <<frame>>)[i] = toPhone[j]
          \/ Put(toPhone, <<frame>>)[i] = frame
    <3> HIDE <1>5
    <3> SUFFICES ASSUME NEW i \in 1 .. Len(Put(toPhone, <<frame>>))
                 PROVE  \/ \E j \in 1 .. Len(toPhone) : Put(toPhone, <<frame>>)[i] = toPhone[j]
                        \/ Put(toPhone, <<frame>>)[i] = frame
      OBVIOUS
    <3>1. \/ \E j \in 1 .. Len(toPhone) : Put(toPhone, <<frame>>)[i] = toPhone[j]
          \/ \E j \in 1 .. Len(<<frame>>) : Put(toPhone, <<frame>>)[i] = <<frame>>[j]
      BY <1>0, <2>1, PutElements
    <3> QED BY <2>1, <3>1
  <2> QED BY <1>2, <1>5, <2>2
<1>6. CASE PeerMarker \/ PeerSendSyn \/ PeerBreaksOff \/ PeerSendData \/ PeerRepeatData
  <2>1. CASE PeerSendSyn
    <3>1. PeerSynFrame.lsp = accLsp
      BY DEF PeerSynFrame, SynFrame
    <3> QED BY <1>4, <2>1, <3>1 DEF PeerSendSyn
  <2>2. CASE PeerMarker
    <3>1. ~ HasSyn(Marker)
      BY DEF Marker, HasSyn
    <3> QED BY <1>4, <2>2, <3>1 DEF PeerMarker
  <2>3. CASE PeerBreaksOff
    <3>1. PICK kind \in {"RST", "LONG"} : PeerSends([kind |-> kind])
      BY <2>3 DEF PeerBreaksOff
    <3>2. ~ HasSyn([kind |-> kind])
      BY DEF HasSyn
    <3> QED BY <1>4, <3>1, <3>2
  <2>4. CASE PeerSendData \/ PeerRepeatData
    <3>1. PICK seq, ack, s, m : PeerSends(DataFrame(seq, ack, s, m))
      BY <2>4 DEF PeerSendData, PeerRepeatData, PeerDataFrame
    <3>2. ~ HasSyn(DataFrame(seq, ack, s, m))
      BY DEF DataFrame, HasSyn
    <3> QED BY <1>4, <3>1, <3>2
  <2> QED BY <1>6, <2>1, <2>2, <2>3, <2>4
<1>7. CASE PeerReceiveSyn \/ PeerReceiveData
  <2>1. /\ accRx' \in SeqNum /\ accLsp \in Lsps /\ PeerSyn \in SeqNum
        /\ PeerSeq(Len(accMsgs)) \in SeqNum
    BY NextType, PeerSeqType, SeqAssumption, LspAssumption, LenProperties DEF TypeOK, PeerTypeOK
  <2>2. AckFrame(PeerSeq(Len(accMsgs)), accRx') \in Frames
    BY <2>1 DEF AckFrame, Frames
  <2>3. SynFrame("SYNACK", PeerSyn, accRx', accLsp) \in Frames
    BY <2>1 DEF SynFrame, Frames
  <2>4. \/ toPhone' = Put(toPhone, <<AckFrame(PeerSeq(Len(accMsgs)), accRx')>>)
        \/ toPhone' = Put(toPhone, <<SynFrame("SYNACK", PeerSyn, accRx', accLsp)>>)
    BY <1>7 DEF PeerReceiveSyn, PeerReceiveData
  <2>5. /\ ~ HasSyn(AckFrame(PeerSeq(Len(accMsgs)), accRx'))
        /\ SynFrame("SYNACK", PeerSyn, accRx', accLsp).lsp = accLsp
    BY DEF AckFrame, SynFrame, HasSyn
  <2>6. CASE toPhone' = Put(toPhone, <<AckFrame(PeerSeq(Len(accMsgs)), accRx')>>)
    BY <1>5, <2>2, <2>5, <2>6
  <2>7. CASE toPhone' = Put(toPhone, <<SynFrame("SYNACK", PeerSyn, accRx', accLsp)>>)
    BY <1>5, <2>3, <2>5, <2>7
  <2> QED BY <2>4, <2>6, <2>7
<1>8. \/ (toPhone' = Tail(toPhone) /\ toPhone # <<>>) \/ toPhone' = toPhone
      \/ PeerMarker \/ PeerSendSyn \/ PeerBreaksOff \/ PeerSendData \/ PeerRepeatData
      \/ PeerReceiveSyn \/ PeerReceiveData
  BY DEF Next, Start, MarkerFails, Tick, RepeatSyn, Retransmit, Submit, HandlePacket, Receives,
         ReceiveMarker, ReceiveNoise, ReceiveLong, ReceiveReset, ReceiveSynAgain, ReceiveSyn,
         ReceiveUnreadableSyn, ReceiveSynAck, ReceiveAck, ReceiveOutOfOrder, ReceiveData,
         Peer, LoseFrame, PeerReceiveAck
<1> QED BY <1>3, <1>6, <1>7, <1>8

(* Only the accessory's SYN changes the parameters, and then all of them.   *)
LEMMA InUseStep ==
  ASSUME TypeOK, ParametersInv, Next, accLsp' = accLsp
  PROVE  InUse'
<1>1. CASE ReceiveSyn
  <2>1. 1 \in 1 .. Len(toPhone) /\ Head(toPhone) = toPhone[1] /\ HasSyn(Head(toPhone))
    BY <1>1, HeadTailProperties, LenProperties, EmptySeq
       DEF ReceiveSyn, Receives, HasSyn, TypeOK, PeerTypeOK
  <2>2. Head(toPhone).lsp = accLsp
    BY <2>1 DEF ParametersInv, SynsAnnounce
  <2>3. /\ accLsp.ok /\ lsp' = Clamp(accLsp)
        /\ sid' = IF accLsp.sid = NoSid THEN sid ELSE accLsp.sid
    BY <1>1, <2>2 DEF ReceiveSyn
  <2> QED BY <2>3 DEF ParametersInv, InUse, AnnouncedSid
<1>2. CASE UNCHANGED <<lsp, sid>>
  BY <1>2 DEF ParametersInv, InUse, AnnouncedSid
<1>3. ReceiveSyn \/ UNCHANGED <<lsp, sid>>
  BY DEF Next, Start, MarkerFails, Tick, RepeatSyn, Retransmit, Submit, HandlePacket,
         ReceiveMarker, ReceiveNoise, ReceiveLong, ReceiveReset, ReceiveSynAgain,
         ReceiveUnreadableSyn, ReceiveSynAck, ReceiveAck, ReceiveOutOfOrder, ReceiveData,
         Peer, LoseFrame, PeerMarker, PeerSendSyn, PeerBreaksOff, PeerSendData,
         PeerRepeatData, PeerReceiveSyn, PeerReceiveAck, PeerReceiveData, linkVars
<1> QED BY <1>1, <1>2, <1>3

(* handle_packet only goes to NORMAL when the accessory has the phone's     *)
(* SYN, and an established link uses either everything the accessory has    *)
(* announced or nothing of it: for any accessory, one that acknowledges     *)
(* early included, whatever is lost or repeated.                            *)
THEOREM NormalIsKnown == Spec => []EstablishedKnown
<1>1. Init => ParametersInv
  BY DEF Init, ParametersInv, SynsAnnounce, InUse
<1>2. TypeOK /\ ParametersInv /\ [Next]_vars => ParametersInv'
  <2> SUFFICES ASSUME TypeOK, ParametersInv, [Next]_vars PROVE ParametersInv'
    OBVIOUS
  <2>1. CASE UNCHANGED vars
    BY <2>1 DEF vars, linkVars, accVars, ParametersInv, SynsAnnounce, InUse, AnnouncedSid
  <2>2. CASE Next
    BY <2>2, AnnouncesStep, InUseStep DEF ParametersInv
  <2> QED BY <2>1, <2>2
<1>3. StreamInv /\ ParametersInv => EstablishedKnown
  BY DEF StreamInv, PhaseInv, ParametersInv, InUse, EstablishedKnown
<1> QED BY <1>1, <1>2, <1>3, StreamInvariant, PTL DEF Spec

(* A control message that send_control accepted leaves pending_ on a living *)
(* link only when the accessory has it, for every width of the sequence     *)
(* numbers, every window the code adopts and any number of messages:        *)
(* acknowledged_by never takes an old acknowledgement for a later one.      *)
THEOREM PendingUntilReceived == Spec => []NoMessageForgotten
<1>1. TypeOK /\ StreamInv => NoMessageForgotten
  <2> SUFFICES ASSUME TypeOK, StreamInv, state = "Normal", NEW m \in 1 .. sent
               PROVE  m \in DOMAIN pending \/ m <= Len(accGot)
    BY DEF NoMessageForgotten
  <2>1. PICK p \in 0 .. Len(accGot) : Flight(p)
    BY LiveFacts
  <2>2. DOMAIN pending = p + 1 .. sent /\ Len(accGot) \in Nat /\ sent \in Nat
    BY <2>1, LiveFacts DEF Flight, Window
  <2> QED BY <2>2
<1> QED BY <1>1, StreamInvariant, PTL

(* handle_packet and send_control make, with the accessory, a channel that  *)
(* loses nothing, repeats nothing and keeps the order of send_control:      *)
(* every step of the link is a step of MessageChannel or changes nothing    *)
(* the channel sees, however frames are lost and repeated on the way.       *)
THEOREM LinkIsChannel == Spec => ImplementsChannel
<1>1. Init => Channel!Init
  <2> SUFFICES ASSUME Init PROVE Channel!Init
    OBVIOUS
  <2>1. sent = 0 /\ accGot = <<>>
    BY DEF Init
  <2> QED BY <2>1 DEF Channel!Init
<1>2. ASSUME TypeOK, StreamInv, [Next]_vars
      PROVE  [Channel!Next]_(Channel!channelVars)
  <2>0. sent \in Nat /\ MaxPhoneMsgs \in Nat
    BY <1>2, BoundAssumption DEF TypeOK, PhoneTypeOK
  <2>1. ASSUME accGot' = accGot, sent' \in sent .. MaxPhoneMsgs
        PROVE  [Channel!Next]_(Channel!channelVars)
    <3> DEFINE new == sent + 1 .. sent'
    <3>1. new \in SUBSET (1 .. MaxPhoneMsgs) /\ (1 .. sent') = (1 .. sent) \cup new
      BY <2>0, <2>1
    <3>2. \A n \in new, m \in 1 .. sent : m < n
      BY <2>0, <2>1
    <3>3. Channel!Take(new)
      BY <2>1, <3>1, <3>2 DEF Channel!Take
    <3> QED BY <3>1, <3>3 DEF Channel!Next
  <2>2. CASE sent' = sent /\ accGot' = accGot
    BY <2>2 DEF Channel!channelVars
  <2>3. CASE PeerReceiveData
    <3>1. sent' = sent
      BY <2>3 DEF PeerReceiveData, linkVars
    <3> DEFINE g == Len(accGot)
    <3>2. CASE g + 1 <= sent /\ accGot' = Append(accGot, g + 1)
      <4>1. /\ accGot \in Seq(Nat) /\ g \in Nat /\ sent <= MaxPhoneMsgs
            /\ \A i \in 1 .. g : accGot[i] = i
        BY <1>2, LenProperties DEF TypeOK, PeerTypeOK, StreamInv, GotInv
      <4>2. Channel!Given = 1 .. g
        BY <4>1 DEF Channel!Given
      <4>3. /\ g + 1 \in 1 .. MaxPhoneMsgs /\ g + 1 \in (1 .. sent) \ (1 .. g)
            /\ \A m \in 1 .. sent : m < g + 1 => m \in 1 .. g
        BY <2>0, <3>2, <4>1
      <4>4. Channel!Give(g + 1)
        BY <3>1, <3>2, <4>2, <4>3 DEF Channel!Give
      <4> QED BY <4>3, <4>4 DEF Channel!Next
    <3> QED BY <1>2, <2>2, <2>3, <3>1, <3>2, DataAccepted
  <2>4. CASE UNCHANGED vars
    BY <2>2, <2>4 DEF vars, linkVars, accVars
  <2>5. CASE Next /\ ~ PeerReceiveData
    <3>1. accGot' = accGot
      BY <2>5 DEF Next, Start, MarkerFails, Tick, RepeatSyn, Retransmit, Submit, HandlePacket,
           ReceiveMarker, ReceiveNoise, ReceiveLong, ReceiveReset, ReceiveSynAgain, ReceiveSyn,
           ReceiveUnreadableSyn, ReceiveSynAck, ReceiveAck, ReceiveOutOfOrder, ReceiveData,
           Peer, LoseFrame, PeerMarker, PeerSendSyn, PeerBreaksOff, PeerSendData,
           PeerRepeatData, PeerReceiveSyn, PeerReceiveAck, accVars
    <3>2. sent' \in sent .. MaxPhoneMsgs
      <4>1. GotInv'
        BY <1>2, <2>5, NextStream DEF StreamInv
      <4>2. sent' \in Nat /\ sent' >= sent
        <5>1. CASE sent' = sent
          BY <2>0, <5>1
        <5>2. CASE Submit
          BY <2>0, <5>2 DEF Submit, SendControl
        <5>3. CASE ReceiveData
          BY <2>0, <5>3, BoundAssumption DEF ReceiveData, SendControl
        <5> QED
          BY <2>5, <5>1, <5>2, <5>3 DEF Next, Start, MarkerFails, Tick, RepeatSyn, Retransmit,
           HandlePacket, ReceiveMarker, ReceiveNoise, ReceiveLong, ReceiveReset, ReceiveSynAgain,
           ReceiveSyn, ReceiveUnreadableSyn, ReceiveSynAck, ReceiveAck, ReceiveOutOfOrder,
           Peer, LoseFrame, PeerMarker, PeerSendSyn, PeerBreaksOff, PeerSendData,
           PeerRepeatData, PeerReceiveSyn, PeerReceiveAck, PeerReceiveData, linkVars
      <4> QED BY <2>0, <4>1, <4>2 DEF GotInv
    <3> QED BY <2>1, <3>1, <3>2
  <2> QED BY <1>2, <2>3, <2>4, <2>5
<1> QED BY <1>1, <1>2, StreamInvariant, PTL DEF Spec, ImplementsChannel, Channel!Spec

-----------------------------------------------------------------------------
(* The accessory's messages.  The acknowledgement in a frame of pending_ is *)
(* the one of the time it was first sent, and may be arbitrarily old when   *)
(* the frame is sent again: it names the message it means only as long as   *)
(* the accessory has sent fewer messages than there are numbers.            *)

(* The session of control messages *)
ControlSid == IF accLsp.sid = NoSid THEN DefaultSid ELSE accLsp.sid

PeerSide ==
  /\ Len(accMsgs) <= MaxPeerMsgs
  /\ \A m \in 1 .. Len(accMsgs) : accMsgs[m] \in {ControlSid, OtherSid}

(* control_data_ has got the control messages among the first r. *)
Delivered(r) ==
  /\ accAcked <= r
  /\ \A i \in 1 .. Len(delivered) : delivered[i] <= r
  /\ \A i, j \in 1 .. Len(delivered) : i < j => delivered[i] < delivered[j]
  /\ \A m \in 1 .. r :
       accMsgs[m] = OtherSid \/ \E i \in 1 .. Len(delivered) : delivered[i] = m

(* The acknowledgements on their way to the accessory *)
AckedLine(c, r) ==
  \A i \in 1 .. Len(c) : HasAck(c[i]) => \E b \in 0 .. r : c[i].ack = PeerSeq(b)

(* The data and SYNs on their way to the phone *)
PeerLine(c, msgs) ==
  \A i \in 1 .. Len(c) :
    /\ c[i].kind = "DATA" => /\ c[i].msg \in 1 .. Len(msgs) /\ c[i].seq = PeerSeq(c[i].msg)
                             /\ c[i].sid = msgs[c[i].msg]
    /\ HasSyn(c[i]) => c[i].seq = PeerSyn

PendingAcks(queue, r) == \A m \in DOMAIN queue : \E b \in 0 .. r : queue[m].frame.ack = PeerSeq(b)

(* The phone has received the first r. *)
Received(r) ==
  /\ rxValid => lastRx = PeerSeq(r)
  /\ state # "Normal" => r = 0
  /\ sid = IF rxValid THEN ControlSid ELSE DefaultSid
  /\ AckedLine(toAcc, r) /\ PendingAcks(pending, r) /\ PeerLine(toPhone, accMsgs)

PeerInv ==
  /\ PeerSide
  /\ \E r \in 0 .. Len(accMsgs) : Delivered(r) /\ (state # "Dead" => Received(r))

LEMMA PeerSeqSame ==
  ASSUME NEW a \in Int, NEW b \in Int, PeerSeq(a) = PeerSeq(b), a - b < SeqMod, b - a < SeqMod
  PROVE  a = b
<1>1. PeerSyn + a \in Int /\ PeerSyn + b \in Int /\ PeerSyn \in Int
  BY SeqAssumption DEF SeqNum
<1>2. (PeerSyn + a) - (PeerSyn + b) < SeqMod /\ (PeerSyn + b) - (PeerSyn + a) < SeqMod
  BY <1>1
<1>3. PeerSyn + a = PeerSyn + b
  BY <1>1, <1>2, WrapSame DEF PeerSeq
<1> QED BY <1>1, <1>3

LEMMA PeerSeqZero == PeerSeq(0) = PeerSyn
<1>1. PeerSyn \in Int /\ 0 <= PeerSyn /\ PeerSyn < SeqMod /\ PeerSyn + 0 = PeerSyn
  BY SeqAssumption, WidthFacts DEF SeqNum
<1>2. Wrap(PeerSyn) = PeerSyn
  BY <1>1, WidthFacts DEF Wrap
<1> QED BY <1>1, <1>2 DEF PeerSeq

(* A message that is not out of order is the next. *)
LEMMA PeerSeqNext ==
  ASSUME NEW m \in Int, NEW r \in Int, Distance(PeerSeq(r), PeerSeq(m)) = 1,
         m - r - 1 < SeqMod, r + 1 - m < SeqMod
  PROVE  m = r + 1
<1>1. PeerSyn + m \in Int /\ PeerSyn + r \in Int /\ PeerSyn \in Int
  BY SeqAssumption DEF SeqNum
<1>2. (PeerSyn + m) - (PeerSyn + r) = m - r /\ m - r \in Int
  BY <1>1
<1>3. Wrap(m - r) = 1
  BY <1>1, <1>2, DistanceWrap DEF PeerSeq
<1>4. Wrap(1) = 1
  BY WidthFacts DEF Wrap
<1>5. (m - r) - 1 < SeqMod /\ 1 - (m - r) < SeqMod
  BY WidthFacts
<1>6. m - r = 1
  BY <1>2, <1>3, <1>4, <1>5, WrapSame
<1> QED BY <1>6

(* Reading a channel, or losing from it *)
LEMMA ReadLines ==
  ASSUME NEW c \in Seq(Frames), NEW d, d = c \/ (c # <<>> /\ d = Tail(c)), NEW r, NEW msgs
  PROVE  /\ AckedLine(c, r) => AckedLine(d, r)
         /\ PeerLine(c, msgs) => PeerLine(d, msgs)
<1>1. \A i \in 1 .. Len(d) : \E j \in 1 .. Len(c) : d[i] = c[j]
  BY TailElements
<1>2. ASSUME AckedLine(c, r) PROVE AckedLine(d, r)
  BY <1>1, <1>2 DEF AckedLine
<1>3. ASSUME PeerLine(c, msgs) PROVE PeerLine(d, msgs)
  <2> SUFFICES ASSUME NEW i \in 1 .. Len(d)
               PROVE  /\ d[i].kind = "DATA" => /\ d[i].msg \in 1 .. Len(msgs)
                                               /\ d[i].seq = PeerSeq(d[i].msg)
                                               /\ d[i].sid = msgs[d[i].msg]
                      /\ HasSyn(d[i]) => d[i].seq = PeerSyn
    BY DEF PeerLine
  <2>1. PICK j \in 1 .. Len(c) : d[i] = c[j]
    BY <1>1
  <2> QED BY <1>3, <2>1 DEF PeerLine
<1> QED BY <1>2, <1>3

LEMMA AckedPut ==
  ASSUME NEW c \in Seq(Frames), NEW fs \in Seq(Frames), NEW r, AckedLine(c, r), AckedLine(fs, r)
  PROVE  AckedLine(Put(c, fs), r)
<1> SUFFICES ASSUME NEW i \in 1 .. Len(Put(c, fs)), HasAck(Put(c, fs)[i])
             PROVE  \E b \in 0 .. r : Put(c, fs)[i].ack = PeerSeq(b)
  BY DEF AckedLine
<1>1. \/ \E j \in 1 .. Len(c) : Put(c, fs)[i] = c[j]
      \/ \E j \in 1 .. Len(fs) : Put(c, fs)[i] = fs[j]
  BY PutElements
<1> QED BY <1>1 DEF AckedLine

LEMMA AckedPutOne ==
  ASSUME NEW c \in Seq(Frames), NEW f \in Frames, NEW r \in Nat, AckedLine(c, r),
         HasAck(f) => \E b \in 0 .. r : f.ack = PeerSeq(b)
  PROVE  AckedLine(Put(c, <<f>>), r)
<1> DEFINE fs == <<f>>
<1>1. fs \in Seq(Frames) /\ \A i \in 1 .. Len(fs) : fs[i] = f
  OBVIOUS
<1> HIDE DEF fs
<1>2. AckedLine(fs, r)
  BY <1>1 DEF AckedLine
<1>3. AckedLine(Put(c, fs), r)
  BY <1>1, <1>2, AckedPut
<1> QED BY <1>3 DEF fs

LEMMA PeerPutOne ==
  ASSUME NEW c \in Seq(Frames), NEW f \in Frames, NEW msgs, PeerLine(c, msgs),
         f.kind # "DATA", HasSyn(f) => f.seq = PeerSyn
  PROVE  PeerLine(Put(c, <<f>>), msgs)
<1> DEFINE fs == <<f>>
<1>1. fs \in Seq(Frames) /\ \A i \in 1 .. Len(fs) : fs[i] = f
  OBVIOUS
<1> HIDE DEF fs
<1>2. \A i \in 1 .. Len(Put(c, fs)) : Put(c, fs)[i] = f \/ \E j \in 1 .. Len(c) : Put(c, fs)[i] = c[j]
  BY <1>1, PutElements
<1>3. PeerLine(Put(c, fs), msgs)
  BY <1>2 DEF PeerLine
<1> QED BY <1>3 DEF fs

(* More has been received, or nothing. *)
LEMMA AckedMore ==
  ASSUME NEW r \in Nat, NEW q \in Nat, r <= q, NEW c, NEW queue
  PROVE  /\ AckedLine(c, r) => AckedLine(c, q)
         /\ PendingAcks(queue, r) => PendingAcks(queue, q)
<1>1. \A b \in 0 .. r : b \in 0 .. q
  OBVIOUS
<1> QED BY <1>1 DEF AckedLine, PendingAcks

LEMMA InitPeer == Init => PeerInv
<1> SUFFICES ASSUME Init PROVE PeerInv
  OBVIOUS
<1>1. /\ Len(accMsgs) = 0 /\ Len(delivered) = 0 /\ Len(toAcc) = 0 /\ Len(toPhone) = 0
      /\ DOMAIN pending = {} /\ MaxPeerMsgs \in Nat
  BY BoundAssumption, NoMessagesType DEF Init
<1>2. PeerSide
  BY <1>1 DEF PeerSide
<1>3. Delivered(0)
  BY <1>1 DEF Delivered, Init
<1>4. Received(0)
  BY <1>1 DEF Received, AckedLine, PendingAcks, PeerLine, Init
<1> QED BY <1>1, <1>2, <1>3, <1>4 DEF PeerInv

(* A step that takes and delivers no message *)
LEMMA PeerKept ==
  ASSUME TypeOK, PeerSide, NEW r \in 0 .. Len(accMsgs), Delivered(r),
         UNCHANGED <<delivered, accMsgs, accLsp, accAcked>>,
         state' # "Dead" => Received(r)'
  PROVE  PeerInv'
<1>1. PeerSide' /\ Delivered(r)'
  BY DEF PeerSide, Delivered, ControlSid
<1> QED BY <1>1 DEF PeerInv

(* A step of the link that takes no message *)
LEMMA PhonePeer ==
  ASSUME TypeOK, PeerInv, state # "Dead", UNCHANGED accVars, UNCHANGED delivered,
         toPhone' = toPhone \/ (toPhone # <<>> /\ toPhone' = Tail(toPhone)),
         \A r \in 0 .. Len(accMsgs) : Received(r) /\ state' # "Dead" =>
           /\ rxValid' => lastRx' = PeerSeq(r)
           /\ state' # "Normal" => r = 0
           /\ sid' = IF rxValid' THEN ControlSid ELSE DefaultSid
           /\ AckedLine(toAcc', r) /\ PendingAcks(pending', r)
  PROVE  PeerInv'
<1>1. PeerSide
  BY DEF PeerInv
<1>2. PICK r \in 0 .. Len(accMsgs) : Delivered(r) /\ Received(r)
  BY DEF PeerInv
<1>3. UNCHANGED <<accLsp, accMsgs, accAcked>>
  BY DEF accVars
<1>4. PeerLine(toPhone', accMsgs)
  BY <1>2, ReadLines DEF Received, TypeOK, PeerTypeOK
<1>5. ASSUME state' # "Dead" PROVE Received(r)'
  <2>1. /\ rxValid' => lastRx' = PeerSeq(r)
        /\ state' # "Normal" => r = 0
        /\ sid' = IF rxValid' THEN ControlSid ELSE DefaultSid
        /\ AckedLine(toAcc', r) /\ PendingAcks(pending', r)
    BY <1>2, <1>5
  <2>2. ControlSid' = ControlSid
    BY <1>3 DEF ControlSid
  <2> QED BY <1>3, <1>4, <2>1, <2>2 DEF Received
<1> QED BY <1>1, <1>2, <1>3, <1>5, PeerKept

(* What is left in pending_, and what is put there, carries numbers of      *)
(* messages the phone has received.                                         *)
LEMMA PendingAcksKept ==
  ASSUME NEW r, PendingAcks(pending, r), NEW f
  PROVE  PendingAcks(Unacknowledged(f), r)
BY DEF PendingAcks, Unacknowledged

LEMMA EnqueueAcks ==
  ASSUME NEW r \in Nat, NEW queue, NEW n, PendingAcks(queue, r)
  PROVE  PendingAcks(Enqueue(queue, n, PeerSeq(r)), r)
<1> DEFINE D == DOMAIN queue \cup (sent + 1 .. sent + n)
           new(m) == [frame |-> DataFrame(Wrap(sentSeq + m - sent), PeerSeq(r), sid, m), retries |-> 0]
           q == Enqueue(queue, n, PeerSeq(r))
<1>1. DOMAIN q = D /\ \A m \in D : q[m] = IF m \in DOMAIN queue THEN queue[m] ELSE new(m)
  BY DEF Enqueue
<1>2. \A m \in D : new(m).frame.ack = PeerSeq(r)
  BY DEF DataFrame
<1> HIDE DEF q, D, new
<1>3. r \in 0 .. r
  OBVIOUS
<1>4. PendingAcks(q, r)
  BY <1>1, <1>2, <1>3 DEF PendingAcks
<1> QED BY <1>4 DEF q

LEMMA NewFramesAcked ==
  ASSUME TypeOK, NEW r \in Nat, NEW n \in Nat
  PROVE  NewFrames(n, PeerSeq(r)) \in Seq(Frames) /\ AckedLine(NewFrames(n, PeerSeq(r)), r)
<1>1. NewFrames(n, PeerSeq(r)) \in Seq(Frames)
  BY NewFramesType, PeerSeqType
<1>2. Len(NewFrames(n, PeerSeq(r))) = n /\ \A i \in 1 .. n : NewFrames(n, PeerSeq(r))[i].ack = PeerSeq(r)
  BY <1>1, LenProperties DEF NewFrames, DataFrame
<1>3. r \in 0 .. r
  OBVIOUS
<1> QED BY <1>1, <1>2, <1>3 DEF AckedLine

LEMMA SendControlAcked ==
  ASSUME TypeOK, NEW r \in Nat, NEW n \in Nat, NEW queue, PendingAcks(queue, r), AckedLine(toAcc, r),
         NEW trailer \in Seq(Frames), AckedLine(trailer, r),
         SendControl(queue, n, PeerSeq(r), trailer), state' # "Dead"
  PROVE  state' = state /\ AckedLine(toAcc', r) /\ PendingAcks(pending', r)
<1> DEFINE new == NewFrames(n, PeerSeq(r))
<1>1. /\ toAcc' = Put(toAcc, new \o trailer) /\ state' = state
      /\ pending' = Enqueue(queue, n, PeerSeq(r))
  BY DEF SendControl
<1>2. new \in Seq(Frames) /\ AckedLine(new, r)
  BY NewFramesAcked
<1> HIDE DEF new
<1>3. new \o trailer \in Seq(Frames) /\ Len(new \o trailer) = Len(new) + Len(trailer)
  BY <1>2, ConcatProperties
<1>4. \A i \in 1 .. Len(new \o trailer) :
        \/ \E j \in 1 .. Len(new) : (new \o trailer)[i] = new[j]
        \/ \E j \in 1 .. Len(trailer) : (new \o trailer)[i] = trailer[j]
  <2> SUFFICES ASSUME NEW i \in 1 .. Len(new \o trailer)
               PROVE  \/ \E j \in 1 .. Len(new) : (new \o trailer)[i] = new[j]
                      \/ \E j \in 1 .. Len(trailer) : (new \o trailer)[i] = trailer[j]
    OBVIOUS
  <2>1. Len(new) \in Nat /\ Len(trailer) \in Nat
    BY <1>2, LenProperties
  <2>2. CASE i <= Len(new)
    BY <1>2, <1>3, <2>1, <2>2, ConcatProperties
  <2>3. CASE i > Len(new)
    <3>1. i - Len(new) \in 1 .. Len(trailer) /\ (new \o trailer)[i] = trailer[i - Len(new)]
      BY <1>2, <1>3, <2>1, <2>3, ConcatProperties
    <3> QED BY <3>1
  <2> QED BY <2>1, <2>2, <2>3
<1>5. AckedLine(new \o trailer, r)
  <2> DEFINE all == new \o trailer
  <2>1. \A i \in 1 .. Len(all) : \/ \E j \in 1 .. Len(new) : all[i] = new[j]
                                 \/ \E j \in 1 .. Len(trailer) : all[i] = trailer[j]
    BY <1>4
  <2> HIDE DEF all
  <2>2. AckedLine(all, r)
    BY <1>2, <2>1 DEF AckedLine
  <2> QED BY <2>2 DEF all
<1>6. AckedLine(toAcc', r)
  BY <1>1, <1>3, <1>5, AckedPut DEF TypeOK, PhoneTypeOK
<1>7. PendingAcks(pending', r)
  BY <1>1, EnqueueAcks
<1> QED BY <1>1, <1>6, <1>7

(* A SYN or an acknowledgement of the phone *)
LEMMA WriteAcked ==
  ASSUME TypeOK, NEW r \in Nat, AckedLine(toAcc, r), NEW f \in Frames, NEW next,
         HasAck(f) => \E b \in 0 .. r : f.ack = PeerSeq(b), Write(f, next), state' # "Dead"
  PROVE  state' = next /\ AckedLine(toAcc', r)
<1>1. toAcc' = Put(toAcc, <<f>>) /\ state' = next
  BY DEF Write
<1> QED BY <1>1, AckedPutOne DEF TypeOK, PhoneTypeOK

LEMMA SendSynAcked ==
  ASSUME TypeOK, NEW r \in Nat, AckedLine(toAcc, r), NEW kind \in {"SYN", "SYNACK"},
         NEW ack \in SeqNum, NEW l \in Lsps, kind = "SYNACK" => ack = PeerSeq(r),
         SendSyn(kind, ack, l), state' # "Dead"
  PROVE  state' = "Negotiate" /\ AckedLine(toAcc', r)
<1> DEFINE seq == IF synOutstanding THEN synSeq ELSE Wrap(sentSeq + 1)
           f == SynFrame(kind, seq, ack, l)
<1>1. seq \in SeqNum
  BY WrapType, SeqAssumption DEF TypeOK, PhoneTypeOK, SeqNum
<1>2. f \in Frames /\ f.ack = ack /\ (HasAck(f) => kind = "SYNACK")
  BY <1>1 DEF SynFrame, Frames, HasAck
<1>3. Write(f, "Negotiate")
  BY DEF SendSyn
<1> HIDE DEF f
<1>4. HasAck(f) => \E b \in 0 .. r : f.ack = PeerSeq(b)
  BY <1>2
<1> QED BY <1>2, <1>3, <1>4, WriteAcked

LEMMA PeerFacts ==
  ASSUME TypeOK, PeerInv
  PROVE  /\ Len(accMsgs) \in Nat /\ Len(accMsgs) <= MaxPeerMsgs /\ MaxPeerMsgs \in Nat
         /\ accMsgs \in Seq(Sids) /\ toAcc \in Seq(Frames) /\ toPhone \in Seq(Frames)
  BY BoundAssumption, LenProperties DEF TypeOK, PhoneTypeOK, PeerTypeOK, PeerInv, PeerSide

(* start, and tick in NEGOTIATE, and the marker that starts the negotiation *)
LEMMA SynPeer ==
  ASSUME TypeOK, PeerInv, Start \/ RepeatSyn \/ ReceiveMarker
  PROVE  PeerInv'
<1>1. /\ state \in {"Detect", "Negotiate"} /\ SendSyn("SYN", lastRx, lsp)
      /\ UNCHANGED <<lastRx, rxValid, sid, pending, delivered>> /\ UNCHANGED accVars
      /\ toPhone' = toPhone \/ (toPhone # <<>> /\ toPhone' = Tail(toPhone))
  BY DEF Start, RepeatSyn, ReceiveMarker, Receives
<1>2. lastRx \in SeqNum /\ lsp \in Lsps /\ Len(accMsgs) \in Nat
  BY PeerFacts DEF TypeOK, PhoneTypeOK
<1>3. ASSUME NEW r \in 0 .. Len(accMsgs), Received(r), state' # "Dead"
      PROVE  /\ rxValid' => lastRx' = PeerSeq(r)
             /\ state' # "Normal" => r = 0
             /\ sid' = IF rxValid' THEN ControlSid ELSE DefaultSid
             /\ AckedLine(toAcc', r) /\ PendingAcks(pending', r)
  <2>1. r \in Nat /\ AckedLine(toAcc, r) /\ r = 0
    BY <1>1, <1>2, <1>3 DEF Received
  <2>2. AckedLine(toAcc', r)
    BY <1>1, <1>2, <1>3, <2>1, SendSynAcked
  <2> QED BY <1>1, <1>3, <2>1, <2>2 DEF Received
<1> QED BY <1>1, <1>3, PhonePeer

(* The frame at the head of the accessory's channel *)
LEMMA HeadPeer ==
  ASSUME TypeOK, NEW r, Received(r), toPhone # <<>>
  PROVE  /\ Head(toPhone) \in Frames
         /\ HasSyn(Head(toPhone)) => Head(toPhone).seq = PeerSyn
         /\ Head(toPhone).kind = "DATA" => /\ Head(toPhone).msg \in 1 .. Len(accMsgs)
                                           /\ Head(toPhone).seq = PeerSeq(Head(toPhone).msg)
                                           /\ Head(toPhone).sid = accMsgs[Head(toPhone).msg]
<1>1. 1 \in 1 .. Len(toPhone) /\ Head(toPhone) = toPhone[1] /\ Head(toPhone) \in Frames
  BY HeadTailProperties, LenProperties, EmptySeq DEF TypeOK, PeerTypeOK
<1> QED BY <1>1 DEF Received, PeerLine

(* The accessory's SYN: its number is that before the first message.        *)
LEMMA ReceiveSynPeer ==
  ASSUME TypeOK, HandshakeInv, PeerInv, ReceiveSyn, state # "Dead"
  PROVE  PeerInv'
<1> DEFINE f == Head(toPhone)
<1>1. /\ state = "Negotiate" /\ UNCHANGED accVars /\ UNCHANGED delivered
      /\ toPhone # <<>> /\ toPhone' = Tail(toPhone) /\ HasSyn(f)
      /\ pending' = Unacknowledged(f) /\ rxValid' = TRUE /\ lastRx' = f.seq
      /\ sid' = (IF f.lsp.sid = NoSid THEN sid ELSE f.lsp.sid)
      /\ SendSyn("SYNACK", f.seq, Clamp(f.lsp))
  BY DEF ReceiveSyn, Receives, HasSyn
<1>2. f \in Frames /\ f.seq \in SeqNum /\ f.lsp \in Lsps /\ f.lsp = accLsp
  <2>1. f \in Frames /\ f.kind \in {"SYN", "SYNACK"}
    BY <1>1, HeadTailProperties DEF TypeOK, PeerTypeOK, HasSyn
  <2> QED BY <1>1, <2>1, FrameFields, HeadToPhone
<1>3. Clamp(f.lsp) \in Lsps /\ Len(accMsgs) \in Nat
  BY <1>2, ClampType, PeerFacts
<1>4. ASSUME NEW r \in 0 .. Len(accMsgs), Received(r), state' # "Dead"
      PROVE  /\ rxValid' => lastRx' = PeerSeq(r)
             /\ state' # "Normal" => r = 0
             /\ sid' = IF rxValid' THEN ControlSid ELSE DefaultSid
             /\ AckedLine(toAcc', r) /\ PendingAcks(pending', r)
  <2>1. r \in Nat /\ AckedLine(toAcc, r) /\ r = 0 /\ PendingAcks(pending, r)
    BY <1>1, <1>3, <1>4 DEF Received
  <2>2. f.seq = PeerSeq(r)
    BY <1>1, <1>4, <2>1, HeadPeer, PeerSeqZero
  <2>3. AckedLine(toAcc', r)
    BY <1>1, <1>2, <1>3, <1>4, <2>1, <2>2, SendSynAcked
  <2>4. sid' = ControlSid
    BY <1>1, <1>2, <1>4 DEF Received, ControlSid
  <2> QED BY <1>1, <2>1, <2>2, <2>3, <2>4, PendingAcksKept
<1> QED BY <1>1, <1>4, PhonePeer

LEMMA DeathPeer ==
  ASSUME TypeOK, PeerInv, state' = "Dead", UNCHANGED <<delivered, accMsgs, accLsp, accAcked>>
  PROVE  PeerInv'
BY PeerKept DEF PeerInv

(* tick in NORMAL: the frame kept in pending_ is written again. *)
LEMMA RetransmitPeer ==
  ASSUME TypeOK, PeerInv, NEW m \in DOMAIN pending, Retransmit(m)
  PROVE  PeerInv'
<1>1. /\ state = "Normal" /\ UNCHANGED accVars /\ UNCHANGED <<lastRx, rxValid, sid, delivered, toPhone>>
  BY DEF Retransmit
<1>2. CASE state' = "Dead"
  BY <1>1, <1>2, DeathPeer DEF accVars
<1>3. CASE state' # "Dead"
  <2> DEFINE more == [pending EXCEPT ![m].retries = @ + 1]
             frame == pending[m].frame
  <2>1. state' = state /\ toAcc' = Put(toAcc, <<frame>>) /\ pending' = more
    BY <1>3 DEF Retransmit
  <2>2. pending[m] \in PendingMessages /\ toAcc \in Seq(Frames) /\ Len(accMsgs) \in Nat
    BY PeerFacts DEF TypeOK, PhoneTypeOK
  <2>3. frame \in Frames
    BY <2>2 DEF PendingMessages, Frames
  <2>4. DOMAIN more = DOMAIN pending /\ \A k \in DOMAIN pending : more[k].frame = pending[k].frame
    <3>1. pending \in [DOMAIN pending -> PendingMessages]
      BY DEF TypeOK, PhoneTypeOK
    <3> QED BY <2>2, <3>1 DEF PendingMessages
  <2>5. ASSUME NEW r \in 0 .. Len(accMsgs), Received(r)
        PROVE  AckedLine(toAcc', r) /\ PendingAcks(pending', r)
    <3>1. r \in Nat /\ AckedLine(toAcc, r) /\ PendingAcks(pending, r)
      BY <2>2, <2>5 DEF Received
    <3>2. \E b \in 0 .. r : frame.ack = PeerSeq(b)
      BY <3>1 DEF PendingAcks
    <3>3. PendingAcks(more, r)
      <4> HIDE DEF more
      <4> QED BY <2>4, <3>1 DEF PendingAcks
    <3> HIDE DEF frame
    <3> QED BY <2>1, <2>2, <2>3, <3>1, <3>2, <3>3, AckedPutOne
  <2>6. \A r \in 0 .. Len(accMsgs) : Received(r) /\ state' # "Dead" =>
           /\ rxValid' => lastRx' = PeerSeq(r)
           /\ state' # "Normal" => r = 0
           /\ sid' = IF rxValid' THEN ControlSid ELSE DefaultSid
           /\ AckedLine(toAcc', r) /\ PendingAcks(pending', r)
    BY <1>1, <2>1, <2>5 DEF Received
  <2> QED BY <1>1, <2>6, PhonePeer
<1> QED BY <1>2, <1>3

(* An established link has received something: its last number is known.    *)
LEMMA NormalRx ==
  ASSUME TypeOK, HandshakeInv, state = "Normal", NEW r, Received(r)
  PROVE  rxValid /\ lastRx = PeerSeq(r) /\ sid = ControlSid
BY DEF HandshakeInv, Adopted, Received

LEMMA SubmitPeer ==
  ASSUME TypeOK, HandshakeInv, PeerInv, Submit
  PROVE  PeerInv'
<1>1. /\ state = "Normal" /\ UNCHANGED accVars /\ UNCHANGED <<lastRx, rxValid, sid, delivered, toPhone>>
      /\ SendControl(pending, 1, lastRx, <<>>)
  BY DEF Submit
<1>2. Len(accMsgs) \in Nat /\ <<>> \in Seq(Frames) /\ Len(<<>>) = 0
  BY PeerFacts, EmptySeq
<1>3. ASSUME NEW r \in 0 .. Len(accMsgs), Received(r), state' # "Dead"
      PROVE  /\ rxValid' => lastRx' = PeerSeq(r)
             /\ state' # "Normal" => r = 0
             /\ sid' = IF rxValid' THEN ControlSid ELSE DefaultSid
             /\ AckedLine(toAcc', r) /\ PendingAcks(pending', r)
  <2>1. r \in Nat /\ AckedLine(toAcc, r) /\ PendingAcks(pending, r) /\ lastRx = PeerSeq(r)
    BY <1>1, <1>2, <1>3, NormalRx DEF Received
  <2>2. AckedLine(<<>>, r)
    BY <1>2 DEF AckedLine
  <2>3. state' = state /\ AckedLine(toAcc', r) /\ PendingAcks(pending', r)
    BY <1>1, <1>2, <1>3, <2>1, <2>2, SendControlAcked
  <2> QED BY <1>1, <1>3, <2>3 DEF Received
<1> QED BY <1>1, <1>3, PhonePeer

(* A frame that is only acknowledged: the last contiguous number is sent.   *)
LEMMA AckWrittenPeer ==
  ASSUME TypeOK, HandshakeInv, PeerInv, ReceiveSynAgain \/ ReceiveOutOfOrder
  PROVE  PeerInv'
<1> DEFINE f == AckFrame(sentSeq, lastRx)
<1>1. /\ state = "Normal" /\ UNCHANGED accVars /\ UNCHANGED <<lastRx, rxValid, sid, delivered>>
      /\ toPhone # <<>> /\ toPhone' = Tail(toPhone)
      /\ pending' = Unacknowledged(Head(toPhone)) /\ Write(f, "Normal")
  BY DEF ReceiveSynAgain, ReceiveOutOfOrder, Receives
<1>2. f \in Frames /\ f.ack = lastRx /\ Len(accMsgs) \in Nat
  BY PeerFacts DEF TypeOK, PhoneTypeOK, AckFrame, Frames
<1> HIDE DEF f
<1>3. ASSUME NEW r \in 0 .. Len(accMsgs), Received(r), state' # "Dead"
      PROVE  /\ rxValid' => lastRx' = PeerSeq(r)
             /\ state' # "Normal" => r = 0
             /\ sid' = IF rxValid' THEN ControlSid ELSE DefaultSid
             /\ AckedLine(toAcc', r) /\ PendingAcks(pending', r)
  <2>1. r \in Nat /\ AckedLine(toAcc, r) /\ PendingAcks(pending, r) /\ lastRx = PeerSeq(r)
    BY <1>1, <1>2, <1>3, NormalRx DEF Received
  <2>2. \E b \in 0 .. r : f.ack = PeerSeq(b)
    BY <1>2, <2>1
  <2>3. state' = "Normal" /\ AckedLine(toAcc', r)
    BY <1>1, <1>2, <1>3, <2>1, <2>2, WriteAcked
  <2> QED BY <1>1, <1>3, <2>1, <2>3, PendingAcksKept DEF Received
<1> QED BY <1>1, <1>3, PhonePeer

(* Frames that need no answer *)
LEMMA SilentPeer ==
  ASSUME TypeOK, PeerInv, state # "Dead",
         ReceiveUnreadableSyn \/ ReceiveSynAck \/ ReceiveAck \/ ReceiveNoise
  PROVE  PeerInv'
<1>1. /\ UNCHANGED accVars /\ UNCHANGED <<lastRx, rxValid, sid, delivered, toAcc>>
      /\ toPhone # <<>> /\ toPhone' = Tail(toPhone)
      /\ pending' = pending \/ pending' = Unacknowledged(Head(toPhone))
      /\ state' = state \/ state = "Negotiate"
  BY DEF ReceiveUnreadableSyn, ReceiveSynAck, ReceiveAck, ReceiveNoise, Receives, linkVars
<1>2. ASSUME NEW r \in 0 .. Len(accMsgs), Received(r), state' # "Dead"
      PROVE  /\ rxValid' => lastRx' = PeerSeq(r)
             /\ state' # "Normal" => r = 0
             /\ sid' = IF rxValid' THEN ControlSid ELSE DefaultSid
             /\ AckedLine(toAcc', r) /\ PendingAcks(pending', r)
  <2>1. PendingAcks(pending', r)
    BY <1>1, <1>2, PendingAcksKept DEF Received
  <2> QED BY <1>1, <1>2, <2>1 DEF Received
<1> QED BY <1>1, <1>2, PhonePeer

(* The next message in order: the callback gets it before its number is     *)
(* acknowledged.                                                            *)
LEMMA ReceiveDataPeer ==
  ASSUME TypeOK, HandshakeInv, PeerInv, MaxPeerMsgs < SeqMod, ReceiveData
  PROVE  PeerInv'
<1> DEFINE f == Head(toPhone)
           L == Len(accMsgs)
<1>1. /\ state = "Normal" /\ UNCHANGED accVars /\ UNCHANGED sid
      /\ toPhone # <<>> /\ toPhone' = Tail(toPhone) /\ f.kind = "DATA"
      /\ ~ OutOfOrder(f.seq) /\ rxValid' = TRUE /\ lastRx' = f.seq
      /\ delivered' = (IF f.sid = sid THEN Append(delivered, f.msg) ELSE delivered)
  BY DEF ReceiveData, Receives
<1>2. PICK n \in 0 .. MaxReplies :
        SendControl(Unacknowledged(f), n, f.seq, <<AckFrame(Wrap(sentSeq + n), f.seq)>>)
  BY DEF ReceiveData
<1>3. L \in Nat /\ L <= MaxPeerMsgs /\ MaxPeerMsgs \in Nat /\ PeerSide
  BY PeerFacts DEF PeerInv
<1>4. PICK r \in 0 .. L : Delivered(r) /\ Received(r)
  BY <1>1 DEF PeerInv
<1>5. rxValid /\ lastRx = PeerSeq(r) /\ sid = ControlSid
  BY <1>1, <1>4, NormalRx
<1>6. f \in Frames /\ f.msg \in 1 .. L /\ f.seq = PeerSeq(f.msg) /\ f.sid = accMsgs[f.msg]
  BY <1>1, <1>4, HeadPeer
<1>7. f.msg = r + 1
  <2>1. Distance(PeerSeq(r), PeerSeq(f.msg)) = 1
    BY <1>1, <1>5, <1>6 DEF OutOfOrder
  <2>2. f.msg \in Int /\ r \in Int /\ f.msg - r - 1 < SeqMod /\ r + 1 - f.msg < SeqMod
    BY <1>3, <1>6, WidthFacts
  <2> QED BY <2>1, <2>2, PeerSeqNext
<1> DEFINE q == r + 1
<1>8. q \in 0 .. L /\ q \in Nat /\ r \in Nat /\ r <= q /\ f.seq = PeerSeq(q) /\ q \in 1 .. L
  BY <1>3, <1>6, <1>7
<1>9. UNCHANGED <<accLsp, accMsgs, accAcked>> /\ ControlSid' = ControlSid
  BY <1>1 DEF accVars, ControlSid
<1>10. Delivered(q)'
  <2>1. /\ accAcked <= r /\ accAcked \in Nat
        /\ \A i \in 1 .. Len(delivered) : delivered[i] <= r
        /\ \A i, j \in 1 .. Len(delivered) : i < j => delivered[i] < delivered[j]
        /\ \A m \in 1 .. r : accMsgs[m] = OtherSid \/ \E i \in 1 .. Len(delivered) : delivered[i] = m
        /\ delivered \in Seq(Nat) /\ Len(delivered) \in Nat
    BY <1>3, <1>4, LenProperties DEF Delivered, TypeOK, PhoneTypeOK, PeerTypeOK
  <2>2. \A m \in 1 .. q : m \in 1 .. r \/ m = q
    BY <1>8
  <2>3. CASE f.sid = sid
    <3>1. /\ Len(delivered') = Len(delivered) + 1 /\ delivered'[Len(delivered) + 1] = q
          /\ \A i \in 1 .. Len(delivered) : delivered'[i] = delivered[i]
          /\ \A i \in 1 .. Len(delivered') : i \in 1 .. Len(delivered) \/ i = Len(delivered) + 1
      BY <1>1, <1>7, <1>8, <2>1, <2>3, AppendProperties
    <3>2. \A i \in 1 .. Len(delivered') : delivered'[i] <= q
      <4>1. \A i \in 1 .. Len(delivered) : delivered[i] \in Nat /\ delivered[i] <= q
        BY <1>8, <2>1, ElementOfSeq
      <4> QED BY <1>8, <3>1, <4>1
    <3>3. \A i, j \in 1 .. Len(delivered') : i < j => delivered'[i] < delivered'[j]
      <4> SUFFICES ASSUME NEW i \in 1 .. Len(delivered'), NEW j \in 1 .. Len(delivered'), i < j
                   PROVE  delivered'[i] < delivered'[j]
        OBVIOUS
      <4>1. i \in 1 .. Len(delivered)
        BY <2>1, <3>1
      <4>2. delivered[i] \in Nat /\ delivered[i] < q
        BY <1>8, <2>1, <4>1, ElementOfSeq
      <4> QED BY <2>1, <3>1, <4>1, <4>2
    <3>4. \A m \in 1 .. q : accMsgs[m] = OtherSid \/ \E i \in 1 .. Len(delivered') : delivered'[i] = m
      <4>1. Len(delivered) + 1 \in 1 .. Len(delivered') /\ 1 .. Len(delivered) \subseteq 1 .. Len(delivered')
        BY <2>1, <3>1
      <4> QED BY <2>1, <2>2, <3>1, <4>1
    <3> QED BY <1>8, <1>9, <2>1, <3>2, <3>3, <3>4 DEF Delivered
  <2>4. CASE f.sid # sid
    <3>1. accMsgs[q] = OtherSid /\ UNCHANGED delivered
      BY <1>1, <1>3, <1>5, <1>6, <1>7, <1>8, <2>4 DEF PeerSide
    <3>2. \A i \in 1 .. Len(delivered) : delivered[i] <= q
      BY <1>8, <2>1, ElementOfSeq
    <3> QED BY <1>8, <1>9, <2>1, <2>2, <3>1, <3>2 DEF Delivered
  <2> QED BY <2>3, <2>4
<1>11. ASSUME state' # "Dead" PROVE Received(q)'
  <2>1. PendingAcks(pending, r) /\ AckedLine(toAcc, r) /\ PeerLine(toPhone, accMsgs)
    BY <1>4 DEF Received
  <2>2. PendingAcks(Unacknowledged(f), q) /\ AckedLine(toAcc, q)
    BY <1>8, <2>1, AckedMore, PendingAcksKept
  <2> DEFINE ack == AckFrame(Wrap(sentSeq + n), f.seq)
             trailer == <<ack>>
  <2>3. n \in Nat /\ f.seq \in SeqNum /\ Wrap(sentSeq + n) \in SeqNum
    <3>1. n \in Nat /\ sentSeq \in Int
      BY BoundAssumption DEF TypeOK, PhoneTypeOK, SeqNum
    <3>2. sentSeq + n \in Int
      BY <3>1
    <3> QED BY <1>8, <3>1, <3>2, WrapType, PeerSeqType
  <2>4. ack \in Frames /\ ack.ack = PeerSeq(q)
    BY <1>8, <2>3 DEF AckFrame, Frames
  <2> HIDE DEF ack
  <2>5. trailer \in Seq(Frames) /\ \A i \in 1 .. Len(trailer) : trailer[i] = ack
    BY <2>4
  <2> HIDE DEF trailer
  <2>6. AckedLine(trailer, q)
    BY <1>8, <2>4, <2>5 DEF AckedLine
  <2>7. SendControl(Unacknowledged(f), n, PeerSeq(q), trailer)
    BY <1>2, <1>8 DEF trailer, ack
  <2>8. state' = state /\ AckedLine(toAcc', q) /\ PendingAcks(pending', q)
    BY <1>8, <1>11, <2>2, <2>3, <2>5, <2>6, <2>7, SendControlAcked
  <2>9. PeerLine(toPhone', accMsgs)
    BY <1>1, <2>1, ReadLines, PeerFacts
  <2> QED BY <1>1, <1>5, <1>8, <1>9, <2>8, <2>9 DEF Received
<1>12. PeerSide'
  BY <1>3, <1>9 DEF PeerSide
<1> HIDE DEF q
<1> QED BY <1>8, <1>9, <1>10, <1>11, <1>12 DEF PeerInv

-----------------------------------------------------------------------------
(* The accessory *)

(* A frame put on the accessory's channel, without a new message *)
LEMMA PeerWrites ==
  ASSUME TypeOK, PeerInv, state # "Dead", UNCHANGED linkVars, UNCHANGED <<accLsp, accMsgs>>,
         toAcc' = toAcc \/ (toAcc # <<>> /\ toAcc' = Tail(toAcc)),
         PeerLine(toPhone, accMsgs) => PeerLine(toPhone', accMsgs),
         \A r \in 0 .. Len(accMsgs) : accAcked <= r /\ AckedLine(toAcc, r) => accAcked' <= r
  PROVE  PeerInv'
<1>1. PICK r \in 0 .. Len(accMsgs) : Delivered(r) /\ Received(r)
  BY DEF PeerInv
<1>2. /\ UNCHANGED <<state, lastRx, rxValid, sid, pending, delivered>> /\ ControlSid' = ControlSid
  BY DEF linkVars, ControlSid
<1>3. AckedLine(toAcc', r) /\ accAcked' <= r
  BY <1>1, ReadLines, PeerFacts DEF Received, Delivered
<1>4. Delivered(r)'
  BY <1>1, <1>2, <1>3 DEF Delivered
<1>5. Received(r)'
  BY <1>1, <1>2, <1>3 DEF Received
<1>6. PeerSide'
  BY <1>2 DEF PeerInv, PeerSide
<1> QED BY <1>1, <1>4, <1>5, <1>6 DEF PeerInv

LEMMA PeerAppend ==
  ASSUME NEW c \in Seq(Frames), NEW f \in Frames, NEW msgs, PeerLine(c, msgs),
         f.kind = "DATA" => /\ f.msg \in 1 .. Len(msgs) /\ f.seq = PeerSeq(f.msg)
                            /\ f.sid = msgs[f.msg],
         HasSyn(f) => f.seq = PeerSyn
  PROVE  PeerLine(Append(c, f), msgs)
<1> DEFINE d == Append(c, f)
<1>1. \A i \in 1 .. Len(d) : d[i] = f \/ (i \in 1 .. Len(c) /\ d[i] = c[i])
  BY AppendProperties, LenProperties
<1> HIDE DEF d
<1>2. PeerLine(d, msgs)
  BY <1>1 DEF PeerLine
<1> QED BY <1>2 DEF d

(* Frames that carry no new message *)
LEMMA PeerRepeats ==
  ASSUME TypeOK, PeerInv, PeerMarker \/ PeerSendSyn \/ PeerBreaksOff \/ PeerRepeatData
  PROVE  PeerInv'
<1>0. /\ accRx \in SeqNum /\ accLsp \in Lsps /\ PeerSyn \in SeqNum /\ accMsgs \in Seq(Sids)
      /\ Len(accMsgs) \in Nat /\ toPhone \in Seq(Frames)
  BY LspAssumption, SeqAssumption, LenProperties DEF TypeOK, PeerTypeOK
<1>1. UNCHANGED linkVars /\ UNCHANGED <<toAcc, accLsp, accMsgs, accAcked>>
  BY DEF PeerMarker, PeerSendSyn, PeerBreaksOff, PeerRepeatData, accVars
<1>2. ASSUME NEW f \in Frames, PeerSends(f),
             f.kind = "DATA" => /\ f.msg \in 1 .. Len(accMsgs) /\ f.seq = PeerSeq(f.msg)
                                /\ f.sid = accMsgs[f.msg],
             HasSyn(f) => f.seq = PeerSyn
      PROVE  PeerInv'
  <2>1. state # "Dead" /\ toPhone' = Append(toPhone, f)
    BY <1>2 DEF PeerSends
  <2>2. PeerLine(toPhone, accMsgs) => PeerLine(toPhone', accMsgs)
    BY <1>0, <1>2, <2>1, PeerAppend
  <2> QED BY <1>1, <2>1, <2>2, PeerWrites
<1>3. CASE PeerMarker
  <2>1. Marker \in Frames /\ Marker.kind = "MARKER" /\ ~ HasSyn(Marker)
    BY DEF Marker, Frames, HasSyn
  <2> QED BY <1>2, <1>3, <2>1 DEF PeerMarker
<1>4. CASE PeerSendSyn
  <2>1. /\ PeerSynFrame \in Frames /\ PeerSynFrame.kind # "DATA" /\ PeerSynFrame.seq = PeerSyn
    BY <1>0 DEF PeerSynFrame, SynFrame, Frames
  <2> QED BY <1>2, <1>4, <2>1 DEF PeerSendSyn
<1>5. CASE PeerBreaksOff
  <2>1. PICK kind \in {"RST", "LONG"} : PeerSends([kind |-> kind])
    BY <1>5 DEF PeerBreaksOff
  <2> DEFINE frame == [kind |-> kind]
  <2>2. frame \in Frames /\ frame.kind # "DATA" /\ ~ HasSyn(frame) /\ PeerSends(frame)
    BY <2>1 DEF Frames, HasSyn
  <2> HIDE DEF frame
  <2> QED BY <1>2, <2>2
<1>6. CASE PeerRepeatData
  <2>1. PICK m \in accAcked + 1 .. Len(accMsgs) : PeerSends(PeerDataFrame(m))
    BY <1>6 DEF PeerRepeatData
  <2>2. m \in 1 .. Len(accMsgs)
    BY <1>0 DEF TypeOK, PeerTypeOK
  <2>3. accMsgs[m] \in Sids
    BY <1>0, <2>2, ElementOfSeq
  <2> DEFINE frame == PeerDataFrame(m)
  <2>4. /\ frame \in Frames /\ frame.kind = "DATA" /\ frame.msg = m /\ frame.seq = PeerSeq(m)
        /\ frame.sid = accMsgs[m] /\ ~ HasSyn(frame) /\ PeerSends(frame)
    BY <1>0, <2>1, <2>2, <2>3, PeerSeqType DEF PeerDataFrame, DataFrame, Frames, HasSyn
  <2> HIDE DEF frame
  <2> QED BY <1>2, <2>2, <2>4
<1> QED BY <1>3, <1>4, <1>5, <1>6

(* A new message of the accessory *)
LEMMA PeerSendDataPeer ==
  ASSUME TypeOK, PeerInv, PeerSendData
  PROVE  PeerInv'
<1> DEFINE L == Len(accMsgs)
<1>0. /\ accRx \in SeqNum /\ accLsp \in Lsps /\ accMsgs \in Seq(Sids)
      /\ L \in Nat /\ MaxPeerMsgs \in Nat /\ toPhone \in Seq(Frames)
  BY LspAssumption, LenProperties, PeerFacts DEF TypeOK, PeerTypeOK
<1>1. PICK s \in {IF accLsp.sid = NoSid THEN DefaultSid ELSE accLsp.sid, OtherSid} :
        accMsgs' = Append(accMsgs, s) /\ PeerSends(DataFrame(PeerSeq(L + 1), accRx, s, L + 1))
  BY DEF PeerSendData
<1> DEFINE f == DataFrame(PeerSeq(L + 1), accRx, s, L + 1)
<1>2. s \in Sids /\ s \in {ControlSid, OtherSid}
  BY <1>0, SidsType DEF Lsps, ControlSid
<1>3. /\ f \in Frames /\ f.kind = "DATA" /\ f.msg = L + 1 /\ f.seq = PeerSeq(L + 1) /\ f.sid = s
      /\ ~ HasSyn(f) /\ state # "Dead" /\ toPhone' = Append(toPhone, f)
  BY <1>0, <1>1, <1>2, PeerSeqType DEF DataFrame, Frames, HasSyn, PeerSends
<1> HIDE DEF f
<1>4. /\ L < MaxPeerMsgs /\ UNCHANGED linkVars /\ UNCHANGED <<toAcc, accLsp, accAcked>>
  BY DEF PeerSendData
<1>5. /\ Len(accMsgs') = L + 1 /\ accMsgs'[L + 1] = s /\ \A m \in 1 .. L : accMsgs'[m] = accMsgs[m]
      /\ \A m \in 1 .. L + 1 : m \in 1 .. L \/ m = L + 1
  BY <1>0, <1>1, <1>2, AppendProperties
<1>6. PICK r \in 0 .. L : Delivered(r) /\ Received(r)
  BY <1>3 DEF PeerInv
<1>7. /\ UNCHANGED <<state, lastRx, rxValid, sid, pending, delivered>> /\ ControlSid' = ControlSid
  BY <1>4 DEF linkVars, ControlSid
<1>8. PeerSide'
  <2>1. \A m \in 1 .. L : accMsgs[m] \in {ControlSid, OtherSid}
    BY DEF PeerInv, PeerSide
  <2>2. Len(accMsgs') <= MaxPeerMsgs
    BY <1>0, <1>4, <1>5
  <2>3. \A m \in 1 .. Len(accMsgs') : accMsgs'[m] \in {ControlSid, OtherSid}
    BY <1>2, <1>5, <2>1
  <2> QED BY <1>7, <2>2, <2>3 DEF PeerSide
<1>9. Delivered(r)'
  <2>1. \A m \in 1 .. r : accMsgs'[m] = accMsgs[m]
    BY <1>0, <1>5
  <2> QED BY <1>4, <1>6, <1>7, <2>1 DEF Delivered
<1>10. PeerLine(toPhone, accMsgs')
  <2>1. 1 .. L \subseteq 1 .. Len(accMsgs')
    BY <1>0, <1>5
  <2> QED BY <1>5, <1>6, <2>1 DEF Received, PeerLine
<1>11. PeerLine(toPhone', accMsgs')
  <2>1. f.msg \in 1 .. Len(accMsgs')
    BY <1>0, <1>3, <1>5
  <2> QED BY <1>0, <1>3, <1>5, <1>10, <2>1, PeerAppend
<1>12. Received(r)'
  BY <1>4, <1>6, <1>7, <1>11 DEF Received
<1>13. r \in 0 .. Len(accMsgs')
  BY <1>0, <1>5
<1> QED BY <1>8, <1>9, <1>12, <1>13 DEF PeerInv

(* The acknowledgement numbers the accessory takes name messages the phone  *)
(* has received: there are more numbers than messages.                      *)
LEMMA TakesPeerAck ==
  ASSUME TypeOK, PeerInv, MaxPeerMsgs < SeqMod, toAcc # <<>>, HasAck(Head(toAcc)),
         PeerTakesAck(Head(toAcc).ack)
  PROVE  \A r \in 0 .. Len(accMsgs) : accAcked <= r /\ AckedLine(toAcc, r) => accAcked' <= r
<1> DEFINE L == Len(accMsgs)
           ack == Head(toAcc).ack
<1> SUFFICES ASSUME NEW r \in 0 .. L, accAcked <= r, AckedLine(toAcc, r) PROVE accAcked' <= r
  OBVIOUS
<1>1. L \in Nat /\ L <= MaxPeerMsgs /\ MaxPeerMsgs \in Nat /\ accAcked \in 0 .. L
  BY PeerFacts DEF TypeOK, PeerTypeOK
<1>2. 1 \in 1 .. Len(toAcc) /\ Head(toAcc) = toAcc[1]
  BY PeerFacts, HeadTailProperties, LenProperties, EmptySeq
<1>3. PICK b \in 0 .. r : ack = PeerSeq(b)
  BY <1>2 DEF AckedLine
<1>4. PICK n \in accAcked .. L : accAcked' = n /\ (n = accAcked \/ PeerSeq(n) = ack)
  BY DEF PeerTakesAck
<1>5. CASE n = accAcked
  BY <1>4, <1>5
<1>6. CASE PeerSeq(n) = PeerSeq(b)
  <2>1. n \in Int /\ b \in Int /\ n - b < SeqMod /\ b - n < SeqMod
    BY <1>1, WidthFacts
  <2>2. n = b
    BY <1>6, <2>1, PeerSeqSame
  <2> QED BY <1>1, <1>4, <2>2
<1> QED BY <1>3, <1>4, <1>5, <1>6

LEMMA PeerReadsPeer ==
  ASSUME TypeOK, PeerInv, MaxPeerMsgs < SeqMod,
         PeerReceiveSyn \/ PeerReceiveAck \/ PeerReceiveData \/ LoseFrame
  PROVE  PeerInv'
<1>0. /\ accRx \in SeqNum /\ accLsp \in Lsps /\ PeerSyn \in SeqNum /\ Len(accMsgs) \in Nat
      /\ toPhone \in Seq(Frames) /\ PeerSeq(Len(accMsgs)) \in SeqNum
  BY LspAssumption, SeqAssumption, LenProperties, PeerSeqType DEF TypeOK, PeerTypeOK
<1>1. /\ state # "Dead" /\ UNCHANGED linkVars /\ UNCHANGED <<accLsp, accMsgs>>
      /\ toAcc' = toAcc \/ (toAcc # <<>> /\ toAcc' = Tail(toAcc))
  BY DEF PeerReceiveSyn, PeerReceiveAck, PeerReceiveData, PeerReceives, LoseFrame, accVars
<1>2. accRx' \in SeqNum
  BY PeerType DEF TypeOK, PeerTypeOK, Peer
<1>3. AckFrame(PeerSeq(Len(accMsgs)), accRx') \in Frames
  BY <1>0, <1>2 DEF AckFrame, Frames
<1>4. CASE PeerReceiveSyn
  <2> DEFINE reply == IF PeerAcksEarly \/ accSynAcked'
                      THEN AckFrame(PeerSeq(Len(accMsgs)), accRx')
                      ELSE SynFrame("SYNACK", PeerSyn, accRx', accLsp)
  <2>1. reply \in Frames /\ reply.kind # "DATA" /\ (HasSyn(reply) => reply.seq = PeerSyn)
    BY <1>0, <1>2, <1>3 DEF SynFrame, AckFrame, Frames, HasSyn
  <2>2. toPhone' = Put(toPhone, <<reply>>) /\ UNCHANGED accAcked
    BY <1>4 DEF PeerReceiveSyn
  <2> HIDE DEF reply
  <2>3. PeerLine(toPhone, accMsgs) => PeerLine(toPhone', accMsgs)
    BY <1>0, <2>1, <2>2, PeerPutOne
  <2> QED BY <1>1, <2>2, <2>3, PeerWrites
<1>5. CASE PeerReceiveAck \/ PeerReceiveData
  <2> DEFINE reply == AckFrame(PeerSeq(Len(accMsgs)), accRx')
  <2>1. toAcc # <<>> /\ HasAck(Head(toAcc)) /\ PeerTakesAck(Head(toAcc).ack)
    BY <1>5 DEF PeerReceiveAck, PeerReceiveData, PeerReceives, HasAck
  <2>2. \A r \in 0 .. Len(accMsgs) : accAcked <= r /\ AckedLine(toAcc, r) => accAcked' <= r
    BY <2>1, TakesPeerAck
  <2>3. toPhone' = toPhone \/ toPhone' = Put(toPhone, <<reply>>)
    BY <1>5 DEF PeerReceiveAck, PeerReceiveData
  <2>4. reply \in Frames /\ reply.kind # "DATA" /\ ~ HasSyn(reply)
    BY <1>3 DEF AckFrame, HasSyn
  <2> HIDE DEF reply
  <2>5. PeerLine(toPhone, accMsgs) => PeerLine(toPhone', accMsgs)
    BY <1>0, <2>3, <2>4, PeerPutOne
  <2> QED BY <1>1, <2>2, <2>5, PeerWrites
<1>6. CASE LoseFrame
  <2>1. /\ toPhone' = toPhone \/ (toPhone # <<>> /\ toPhone' = Tail(toPhone))
        /\ UNCHANGED accAcked
    BY <1>6 DEF LoseFrame, accVars
  <2>2. PeerLine(toPhone, accMsgs) => PeerLine(toPhone', accMsgs)
    BY <1>0, <2>1, ReadLines
  <2> QED BY <1>1, <2>1, <2>2, PeerWrites
<1> QED BY <1>4, <1>5, <1>6

(* A dead link has delivered what it will, and the accessory is gone.       *)
LEMMA DeadKeepsPeer ==
  ASSUME TypeOK, state = "Dead", Next
  PROVE  state' = "Dead" /\ UNCHANGED <<delivered, accMsgs, accLsp, accAcked>>
<1>1. ~ Tick
  BY DEF Tick, RepeatSyn, Retransmit
<1>2. CASE HandlePacket
  BY <1>2 DEF HandlePacket, ReceiveMarker, ReceiveNoise, ReceiveLong, ReceiveReset,
              ReceiveSynAgain, ReceiveSyn, ReceiveUnreadableSyn, ReceiveSynAck, ReceiveAck,
              ReceiveOutOfOrder, ReceiveData, linkVars, accVars
<1>3. ~ Peer /\ ~ LoseFrame
  BY DEF Peer, LoseFrame, PeerMarker, PeerSendSyn, PeerBreaksOff, PeerSendData, PeerRepeatData,
         PeerReceiveSyn, PeerReceiveAck, PeerReceiveData, PeerSends, PeerReceives
<1> QED BY <1>1, <1>2, <1>3 DEF Next, Start, MarkerFails, Submit

LEMMA NextPeer ==
  ASSUME TypeOK, HandshakeInv, PeerInv, MaxPeerMsgs < SeqMod, Next
  PROVE  PeerInv'
<1>1. CASE state = "Dead"
  BY <1>1, DeadKeepsPeer, DeathPeer
<1>2. CASE MarkerFails \/ ReceiveLong \/ ReceiveReset
  <2>1. state' = "Dead" /\ UNCHANGED <<delivered, accMsgs, accLsp, accAcked>>
    BY <1>2 DEF MarkerFails, ReceiveLong, ReceiveReset, accVars
  <2> QED BY <2>1, DeathPeer
<1>3. CASE \E m \in DOMAIN pending : Retransmit(m)
  BY <1>3, RetransmitPeer
<1> QED BY <1>1, <1>2, <1>3, SynPeer, ReceiveSynPeer, SubmitPeer, AckWrittenPeer, SilentPeer,
           ReceiveDataPeer, PeerRepeats, PeerSendDataPeer, PeerReadsPeer
        DEF Next, Tick, HandlePacket, Peer

(* The accessory's control messages reach control_data_ in order and once,  *)
(* and handle_packet acknowledges none before: for an accessory that        *)
(* acknowledges the phone's SYN no earlier than it sends its own, and for   *)
(* fewer accessory messages than there are sequence numbers.  (A frame of   *)
(* pending_ keeps the acknowledgement of its first sending; after that many *)
(* messages its number may name a newer one.)                               *)
THEOREM AccessoryStreamInOrder ==
  ASSUME ~ PeerAcksEarly, MaxPeerMsgs < SeqMod
  PROVE  Spec => []PeerStreamInOrder
<1>1. Init => HandshakeInv /\ PeerInv
  BY InitHandshake, InitPeer
<1>2. TypeOK /\ HandshakeInv /\ PeerInv /\ [Next]_vars => HandshakeInv' /\ PeerInv'
  <2> SUFFICES ASSUME TypeOK, HandshakeInv, PeerInv, [Next]_vars
               PROVE  HandshakeInv' /\ PeerInv'
    OBVIOUS
  <2>1. HandshakeInv'
    BY NextHandshake
  <2>2. CASE UNCHANGED vars
    <3>1. /\ UNCHANGED <<delivered, accMsgs, accLsp, accAcked>>
          /\ UNCHANGED <<state, lastRx, rxValid, sid, pending, toAcc, toPhone>>
      BY <2>2 DEF vars, linkVars, accVars
    <3>2. \A r : Received(r)' = Received(r)
      BY <3>1 DEF Received, ControlSid, AckedLine, PeerLine, PendingAcks
    <3> QED BY <2>1, <3>1, <3>2, PeerKept DEF PeerInv
  <2>3. CASE Next
    BY <2>1, <2>3, NextPeer
  <2> QED BY <2>1, <2>2, <2>3
<1>3. TypeOK /\ PeerInv => PeerStreamInOrder
  <2> SUFFICES ASSUME TypeOK, PeerInv PROVE PeerStreamInOrder
    OBVIOUS
  <2>1. PICK r \in 0 .. Len(accMsgs) : Delivered(r)
    BY DEF PeerInv
  <2>2. 1 .. accAcked \subseteq 1 .. r
    BY <2>1, PeerFacts DEF Delivered, TypeOK, PeerTypeOK
  <2> QED BY <2>1, <2>2 DEF Delivered, PeerStreamInOrder
<1> QED BY <1>1, <1>2, <1>3, TypeCorrect, PTL DEF Spec
=============================================================================
