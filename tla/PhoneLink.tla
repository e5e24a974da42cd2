------------------------------ MODULE PhoneLink ------------------------------
(***************************************************************************)
(* The phone side of the iAP2 link layer (iap2/link_layer.cpp), talking to *)
(* an accessory (the CarPlay head unit, external) over two FIFO channels   *)
(* that may lose a frame: a frame whose checksum fails is dropped by       *)
(* process_packets.                                                        *)
(*                                                                         *)
(* Sequence numbers have the width of the code's uint8_t, scaled by        *)
(* SeqMod.  A control message is identified by its number in the order of  *)
(* sending, which the code never sees; the wire sees the sequence number.  *)
(* Time is left out: a deadline of tick() may have passed at any moment.   *)
(***************************************************************************)
EXTENDS Integers, Sequences, FiniteSets

CONSTANTS
  SeqMod,         \* number of values of a sequence number (256 in the code)
  FirstSeq,       \* initial sent_sequence_ (99)
  PeerSyn,        \* sequence number of the accessory's SYN
  DefaultWindow,  \* max_outgoing before negotiation (4)
  DefaultSid,     \* kControlSessionId
  NoSid,          \* an announced LSP without a control session
  OtherSid,       \* a session that carries no control messages
  PeerLsps,       \* link parameters the accessory may announce
  PeerAcksEarly,  \* does the accessory ACK a bare SYN before sending its own?
  MaxPhoneMsgs,   \* bound on control messages the phone sends
  MaxPeerMsgs,    \* bound on messages the accessory sends
  PeerWindow,     \* messages the accessory leaves unacknowledged
  MaxReplies,     \* messages one control_data_ callback may send
  ChannelCap      \* frames in flight in one direction; more are lost

Half == SeqMod \div 2

SeqNum == 0 .. SeqMod - 1
Sids == {DefaultSid, OtherSid} \cup {l.sid : l \in PeerLsps}
Lsps == [ok : BOOLEAN, window : Nat, retrans : Nat, sid : Sids]

ASSUME SeqAssumption ==
  /\ Half \in Nat \ {0}
  /\ SeqMod = 2 * Half
  /\ FirstSeq \in SeqNum
  /\ PeerSyn \in SeqNum
ASSUME LspAssumption ==
  /\ DefaultWindow \in 1 .. Half
  /\ PeerLsps \subseteq Lsps
ASSUME BoundAssumption ==
  /\ PeerAcksEarly \in BOOLEAN
  /\ MaxPhoneMsgs \in Nat
  /\ MaxPeerMsgs \in Nat
  /\ PeerWindow \in Nat
  /\ MaxReplies \in Nat
  /\ ChannelCap \in Nat \ {0}

VARIABLES
  state,          \* state_
  sentSeq,        \* sent_sequence_
  synSeq,         \* syn_sequence_
  synOutstanding, \* syn_outstanding_
  lastRx,         \* last_received_sequence_
  rxValid,        \* last_sequence_valid_
  lsp,            \* lsp_
  sid,            \* peer_control_session_id_
  pending,        \* pending_, by message number
  sent,           \* history: control messages send_control accepted
  delivered       \* history: accessory messages given to control_data_

VARIABLES
  toAcc, toPhone, \* the two directions of the transport
  accLsp,         \* the LSP the accessory announces
  accPhoneSyn,    \* the accessory has received the phone's SYN
  accSynAcked,    \* the phone has acknowledged the accessory's SYN
  accRx,          \* sequence number the accessory last received in order
  accGot,         \* phone messages the accessory accepted, in order
  accMsgs,        \* the session of each message the accessory has sent
  accAcked        \* how many of them the phone has acknowledged

linkVars == <<state, sentSeq, synSeq, synOutstanding, lastRx, rxValid, lsp,
              sid, pending, sent, delivered>>
accVars == <<accLsp, accPhoneSyn, accSynAcked, accRx, accGot, accMsgs, accAcked>>
vars == <<linkVars, toAcc, toPhone, accVars>>

-----------------------------------------------------------------------------
(* Wire format.  Only a SYN has an LSP, only data has a payload.            *)

Marker == [kind |-> "MARKER"]
SynFrame(kind, seq, ack, l) == [kind |-> kind, seq |-> seq, ack |-> ack, lsp |-> l]
AckFrame(seq, ack) == [kind |-> "ACK", seq |-> seq, ack |-> ack]
DataFrame(seq, ack, s, m) ==
  [kind |-> "DATA", seq |-> seq, ack |-> ack, sid |-> s, msg |-> m]

HasSyn(f) == f.kind \in {"SYN", "SYNACK"}
HasAck(f) == f.kind \in {"SYNACK", "ACK", "DATA"}

Frames ==
  [kind : {"MARKER", "RST", "LONG"}]
    \cup [kind : {"SYN", "SYNACK"}, seq : SeqNum, ack : SeqNum, lsp : Lsps]
    \cup [kind : {"ACK"}, seq : SeqNum, ack : SeqNum]
    \cup [kind : {"DATA"}, seq : SeqNum, ack : SeqNum, sid : Sids, msg : Nat]

(* Mutation: a counter that does not wrap *)
WrapNever(n) == n

(* uint8_t addition and subtraction *)
Wrap(n) == n % SeqMod
Distance(from, to) == (to - from) % SeqMod

(* Mutation: the most negative difference counts as acknowledged *)
AcknowledgedByInclusive(seq, ack) == Distance(seq, ack) <= Half

(* acknowledged_by: the difference read as int8_t is not negative *)
AcknowledgedBy(seq, ack) == Distance(seq, ack) < Half

(* Mutation: the window has no upper limit *)
ClampBelow(l) ==
  [l EXCEPT !.window = IF @ < 1 THEN 1 ELSE @,
            !.retrans = IF @ < 1 THEN 1 ELSE @]

(* The parameters the code adopts from an announced LSP.  Timeouts are      *)
(* clamped too; they are not modelled.                                      *)
Clamp(l) ==
  [l EXCEPT !.window = IF @ < 1 THEN 1 ELSE IF @ > Half THEN Half ELSE @,
            !.retrans = IF @ < 1 THEN 1 ELSE @]

DefaultLsp ==
  [ok |-> TRUE, window |-> DefaultWindow, retrans |-> 0, sid |-> DefaultSid]

(* An empty pending_ *)
NoMessages == [m \in {} |-> 0]

(* A transport direction: beyond its capacity, the oldest frames are lost.  *)
Put(channel, frames) ==
  LET all == channel \o frames
      excess == Len(all) - ChannelCap
  IN  IF excess > 0 THEN SubSeq(all, excess + 1, Len(all)) ELSE all

-----------------------------------------------------------------------------
Init ==
  /\ state = "Detect"
  /\ sentSeq = FirstSeq
  /\ synSeq = 0
  /\ synOutstanding = FALSE
  /\ lastRx = 0
  /\ rxValid = FALSE
  /\ lsp = DefaultLsp
  /\ sid = DefaultSid
  /\ pending = NoMessages
  /\ sent = 0
  /\ delivered = <<>>
  /\ toAcc = <<>>
  /\ toPhone = <<>>
  /\ accLsp \in PeerLsps
  /\ accPhoneSyn = FALSE
  /\ accSynAcked = FALSE
  /\ accRx = 0
  /\ accGot = <<>>
  /\ accMsgs = <<>>
  /\ accAcked = 0

-----------------------------------------------------------------------------
(* Sending.  Every write may fail, and then the link is dead.               *)

(* write_packet *)
Write(frame, next) ==
  \/ /\ toAcc' = Put(toAcc, <<frame>>)
     /\ state' = next
  \/ /\ state' = "Dead"
     /\ UNCHANGED toAcc

(* send_syn: the SYN keeps its number, not its contents, when repeated      *)
SendSyn(kind, ack, parameters) ==
  LET seq == IF synOutstanding THEN synSeq ELSE Wrap(sentSeq + 1)
  IN  /\ sentSeq' = IF synOutstanding THEN sentSeq ELSE seq
      /\ synSeq' = seq
      /\ synOutstanding' = TRUE
      /\ Write(SynFrame(kind, seq, ack, parameters), "Negotiate")

NewFrames(n, ack) ==
  [i \in 1 .. n |-> DataFrame(Wrap(sentSeq + i), ack, sid, sent + i)]

Enqueue(queue, n, ack) ==
  [m \in DOMAIN queue \cup (sent + 1 .. sent + n) |->
     IF m \in DOMAIN queue
     THEN queue[m]
     ELSE [frame |-> DataFrame(Wrap(sentSeq + m - sent), ack, sid, m),
           retries |-> 0]]

HasRoom(queue, n) == Cardinality(DOMAIN queue) + n <= lsp.window

(* n calls of send_control that pass its guard, followed by the writing of  *)
(* the trailer; queue is pending_ before them, ack the number they carry.   *)
SendControl(queue, n, ack, trailer) ==
  \/ /\ toAcc' = Put(toAcc, NewFrames(n, ack) \o trailer)
     /\ pending' = Enqueue(queue, n, ack)
     /\ sentSeq' = Wrap(sentSeq + n)
     /\ sent' = sent + n
     /\ UNCHANGED state
  \/ /\ \E k \in 1 .. n :  \* the transport refuses the k-th message
          /\ toAcc' = Put(toAcc, NewFrames(k - 1, ack))
          /\ sentSeq' = Wrap(sentSeq + k)
          /\ sent' = sent + k - 1
     /\ pending' = NoMessages
     /\ state' = "Dead"
  \/ /\ trailer # <<>>     \* the transport refuses the trailer
     /\ toAcc' = Put(toAcc, NewFrames(n, ack))
     /\ pending' = Enqueue(queue, n, ack)
     /\ sentSeq' = Wrap(sentSeq + n)
     /\ sent' = sent + n
     /\ state' = "Dead"

-----------------------------------------------------------------------------
(* The operations of PhoneLink.                                             *)

(* start.  The marker it writes first, which tick repeats in DETECT, is not *)
(* modelled: the accessory makes nothing of it.                             *)
Start ==
  /\ state = "Detect"
  /\ SendSyn("SYN", lastRx, lsp)
  /\ UNCHANGED <<lastRx, rxValid, lsp, sid, pending, sent, delivered,
                 toPhone, accVars>>

(* start or tick fails to write the marker *)
MarkerFails ==
  /\ state = "Detect"
  /\ state' = "Dead"
  /\ UNCHANGED <<sentSeq, synSeq, synOutstanding, lastRx, rxValid, lsp, sid,
                 pending, sent, delivered, toAcc, toPhone, accVars>>

(* Mutation: the SYN is not repeated once the accessory's SYN is here *)
RepeatSynUntilSyn ==
  /\ state = "Negotiate"
  /\ ~ rxValid
  /\ SendSyn("SYN", lastRx, lsp)
  /\ UNCHANGED <<lastRx, rxValid, lsp, sid, pending, sent, delivered,
                 toPhone, accVars>>

(* tick in NEGOTIATE, once next_syn_ has passed *)
RepeatSyn ==
  /\ state = "Negotiate"
  /\ SendSyn("SYN", lastRx, lsp)
  /\ UNCHANGED <<lastRx, rxValid, lsp, sid, pending, sent, delivered,
                 toPhone, accVars>>

(* Mutation: repetitions are not counted *)
RetransmitForever(m) ==
  /\ state = "Normal"
  /\ pending[m].retries < lsp.retrans
  /\ toAcc' = Put(toAcc, <<pending[m].frame>>)
  /\ UNCHANGED <<linkVars, toPhone, accVars>>

(* tick, for a message whose deadline has passed.  A tick that finds        *)
(* several such messages is several of these steps.                         *)
Retransmit(m) ==
  /\ state = "Normal"
  /\ \/ /\ pending[m].retries < lsp.retrans
        /\ toAcc' = Put(toAcc, <<pending[m].frame>>)
        /\ pending' = [pending EXCEPT ![m].retries = @ + 1]
        /\ UNCHANGED state
     \/ \* out of retries, or the transport refuses the frame
        /\ pending' = NoMessages
        /\ state' = "Dead"
        /\ UNCHANGED toAcc
  /\ UNCHANGED <<sentSeq, synSeq, synOutstanding, lastRx, rxValid, lsp, sid,
                 sent, delivered, toPhone, accVars>>

(* send_control called from outside a callback *)
Submit ==
  /\ state = "Normal"
  /\ sent < MaxPhoneMsgs
  /\ HasRoom(pending, 1)
  /\ SendControl(pending, 1, lastRx, <<>>)
  /\ UNCHANGED <<synSeq, synOutstanding, lastRx, rxValid, lsp, sid, delivered,
                 toPhone, accVars>>

-----------------------------------------------------------------------------
(* receive and process_packets: the next frame read from the transport.     *)

Receives(kinds) ==
  /\ toPhone # <<>>
  /\ Head(toPhone).kind \in kinds
  /\ toPhone' = Tail(toPhone)

(* handle_packet first removes what the frame acknowledges from pending_.   *)
Unacknowledged(f) ==
  IF HasAck(f)
  THEN [m \in {k \in DOMAIN pending :
                 ~ AcknowledgedBy(pending[k].frame.seq, f.ack)} |-> pending[m]]
  ELSE pending

ReceiveMarker ==
  /\ state = "Detect"
  /\ Receives({"MARKER"})
  /\ SendSyn("SYN", lastRx, lsp)
  /\ UNCHANGED <<lastRx, rxValid, lsp, sid, pending, sent, delivered, accVars>>

(* Bytes before the marker and markers after it are skipped. *)
ReceiveNoise ==
  /\ IF state = "Detect"
     THEN Receives({"RST", "LONG", "SYN", "SYNACK", "ACK", "DATA"})
     ELSE Receives({"MARKER"})
  /\ UNCHANGED <<linkVars, toAcc, accVars>>

(* A header announcing more than max_len bytes, or more bytes than the      *)
(* receive buffer holds                                                     *)
ReceiveLong ==
  /\ state # "Detect"
  /\ Receives({"LONG"})
  /\ state' = "Dead"
  /\ UNCHANGED <<sentSeq, synSeq, synOutstanding, lastRx, rxValid, lsp, sid,
                 pending, sent, delivered, toAcc, accVars>>

ReceiveReset ==
  /\ state # "Detect"
  /\ Receives({"RST"})
  /\ state' = "Dead"
  /\ pending' = NoMessages
  /\ synOutstanding' = FALSE
  /\ UNCHANGED <<sentSeq, synSeq, lastRx, rxValid, lsp, sid, sent, delivered,
                 toAcc, accVars>>

(* A SYN on an established link is acknowledged, its parameters ignored.    *)
ReceiveSynAgain ==
  /\ state = "Normal"
  /\ Receives({"SYN", "SYNACK"})
  /\ pending' = Unacknowledged(Head(toPhone))
  /\ Write(AckFrame(sentSeq, lastRx), "Normal")
  /\ UNCHANGED <<sentSeq, synSeq, synOutstanding, lastRx, rxValid, lsp, sid,
                 sent, delivered, accVars>>

(* Mutation: the accessory's SYN alone establishes the link *)
ReceiveSynEstablishes ==
  /\ state = "Negotiate"
  /\ Receives({"SYN", "SYNACK"})
  /\ lsp' = Clamp(Head(toPhone).lsp)
  /\ rxValid' = TRUE
  /\ lastRx' = Head(toPhone).seq
  /\ Write(AckFrame(sentSeq, lastRx'), "Normal")
  /\ UNCHANGED <<sentSeq, synSeq, synOutstanding, sid, pending, sent,
                 delivered, accVars>>

(* Mutation: a late SYN restarts the negotiation of an established link *)
ReceiveSynRestarts ==
  /\ state \in {"Negotiate", "Normal"}
  /\ Receives({"SYN", "SYNACK"})
  /\ lsp' = Clamp(Head(toPhone).lsp)
  /\ rxValid' = TRUE
  /\ lastRx' = Head(toPhone).seq
  /\ SendSyn("SYNACK", lastRx', lsp')
  /\ UNCHANGED <<sid, pending, sent, delivered, accVars>>

(* Any other SYN with a readable LSP: adopt it and answer with SYN|ACK,     *)
(* which send_syn only does in NEGOTIATE.  The acknowledgement the SYN may  *)
(* carry does not establish the link.                                       *)
ReceiveSyn ==
  /\ state \in {"Negotiate", "Dead"}
  /\ Receives({"SYN", "SYNACK"})
  /\ LET f == Head(toPhone)
     IN  /\ f.lsp.ok
         /\ pending' = Unacknowledged(f)
         /\ lsp' = Clamp(f.lsp)
         /\ sid' = IF f.lsp.sid = NoSid THEN sid ELSE f.lsp.sid
         /\ rxValid' = TRUE
         /\ lastRx' = f.seq
         /\ IF state = "Negotiate"
            THEN SendSyn("SYNACK", f.seq, Clamp(f.lsp))
            ELSE UNCHANGED <<state, sentSeq, synSeq, synOutstanding, toAcc>>
  /\ UNCHANGED <<sent, delivered, accVars>>

ReceiveUnreadableSyn ==
  /\ state \in {"Negotiate", "Dead"}
  /\ Receives({"SYN", "SYNACK"})
  /\ ~ Head(toPhone).lsp.ok
  /\ pending' = Unacknowledged(Head(toPhone))
  /\ UNCHANGED <<state, sentSeq, synSeq, synOutstanding, lastRx, rxValid, lsp,
                 sid, sent, delivered, toAcc, accVars>>

(* In NEGOTIATE an ACK, with or without data, only completes the handshake. *)
ReceiveSynAck ==
  /\ state = "Negotiate"
  /\ Receives({"ACK", "DATA"})
  /\ pending' = Unacknowledged(Head(toPhone))
  /\ IF synOutstanding /\ AcknowledgedBy(synSeq, Head(toPhone).ack)
     THEN /\ synOutstanding' = FALSE
          /\ state' = "Normal"
     ELSE UNCHANGED <<synOutstanding, state>>
  /\ UNCHANGED <<sentSeq, synSeq, lastRx, rxValid, lsp, sid, sent, delivered,
                 toAcc, accVars>>

(* A bare ACK on an established link, or anything acknowledging on a dead   *)
(* one.                                                                     *)
ReceiveAck ==
  /\ \/ state = "Normal" /\ Receives({"ACK"})
     \/ state = "Dead" /\ Receives({"ACK", "DATA"})
  /\ pending' = Unacknowledged(Head(toPhone))
  /\ UNCHANGED <<state, sentSeq, synSeq, synOutstanding, lastRx, rxValid, lsp,
                 sid, sent, delivered, toAcc, accVars>>

(* Mutation: a gap is not noticed *)
OutOfOrderNoGap(seq) ==
  rxValid /\ (seq = lastRx \/ Distance(lastRx, seq) > Half)

(* Old, repeated or early data: acknowledge the last contiguous number.     *)
OutOfOrder(seq) == rxValid /\ Distance(lastRx, seq) # 1

ReceiveOutOfOrder ==
  /\ state = "Normal"
  /\ Receives({"DATA"})
  /\ OutOfOrder(Head(toPhone).seq)
  /\ pending' = Unacknowledged(Head(toPhone))
  /\ Write(AckFrame(sentSeq, lastRx), "Normal")
  /\ UNCHANGED <<sentSeq, synSeq, synOutstanding, lastRx, rxValid, lsp, sid,
                 sent, delivered, accVars>>

(* The next message in order: the callback runs, and may send, before the   *)
(* acknowledgement is written.  (After a refused reply the code still tries *)
(* to write the acknowledgement; the accessory of a dead link is gone.)     *)
ReceiveData ==
  /\ state = "Normal"
  /\ Receives({"DATA"})
  /\ LET f == Head(toPhone)
         queue == Unacknowledged(f)
     IN  /\ ~ OutOfOrder(f.seq)
         /\ rxValid' = TRUE
         /\ lastRx' = f.seq
         /\ delivered' = IF f.sid = sid THEN Append(delivered, f.msg)
                                        ELSE delivered
         /\ \E n \in 0 .. MaxReplies :
              /\ n > 0 => f.sid = sid
              /\ HasRoom(queue, n)
              /\ sent + n <= MaxPhoneMsgs
              /\ SendControl(queue, n, f.seq,
                             <<AckFrame(Wrap(sentSeq + n), f.seq)>>)
  /\ UNCHANGED <<synSeq, synOutstanding, lsp, sid, accVars>>

-----------------------------------------------------------------------------
(* The accessory (external).  It numbers its messages from PeerSyn + 1,     *)
(* repeats what is not acknowledged, accepts in order, acknowledges every   *)
(* frame, and always sends its latest acknowledgement number.  It is gone   *)
(* once the phone's link is dead, when the phone closes the transport.      *)

PeerSeq(m) == Wrap(PeerSyn + m)
PeerSynFrame ==
  SynFrame(IF accPhoneSyn THEN "SYNACK" ELSE "SYN", PeerSyn, accRx, accLsp)
PeerDataFrame(m) == DataFrame(PeerSeq(m), accRx, accMsgs[m], m)

PeerSends(frame) ==
  /\ state # "Dead"
  /\ Len(toPhone) < ChannelCap
  /\ toPhone' = Append(toPhone, frame)

PeerMarker ==
  /\ ~ accPhoneSyn
  /\ PeerSends(Marker)
  /\ UNCHANGED <<linkVars, toAcc, accVars>>

PeerSendSyn ==
  /\ ~ accSynAcked
  /\ PeerSends(PeerSynFrame)
  /\ UNCHANGED <<linkVars, toAcc, accVars>>

(* A reset, or a header with an excessive length *)
PeerBreaksOff ==
  /\ \E kind \in {"RST", "LONG"} : PeerSends([kind |-> kind])
  /\ UNCHANGED <<linkVars, toAcc, accVars>>

PeerSendData ==
  /\ accPhoneSyn /\ accSynAcked
  /\ Len(accMsgs) < MaxPeerMsgs
  /\ Len(accMsgs) - accAcked < PeerWindow
  /\ \E s \in {IF accLsp.sid = NoSid THEN DefaultSid ELSE accLsp.sid, OtherSid} :
       /\ accMsgs' = Append(accMsgs, s)
       /\ PeerSends(DataFrame(PeerSeq(Len(accMsgs) + 1), accRx, s,
                              Len(accMsgs) + 1))
  /\ UNCHANGED <<linkVars, toAcc, accLsp, accPhoneSyn, accSynAcked, accRx,
                 accGot, accAcked>>

PeerRepeatData ==
  /\ \E m \in accAcked + 1 .. Len(accMsgs) : PeerSends(PeerDataFrame(m))
  /\ UNCHANGED <<linkVars, toAcc, accVars>>

PeerReceives(kinds) ==
  /\ state # "Dead"
  /\ toAcc # <<>>
  /\ Head(toAcc).kind \in kinds
  /\ toAcc' = Tail(toAcc)

(* What the acknowledgement number of a frame tells the accessory *)
PeerTakesAck(ack) ==
  /\ accSynAcked' = (accSynAcked \/ ack = PeerSyn)
  /\ \E n \in accAcked .. Len(accMsgs) :
       /\ accAcked' = n
       /\ IF \E m \in accAcked + 1 .. Len(accMsgs) : PeerSeq(m) = ack
          THEN PeerSeq(n) = ack /\ n > accAcked
          ELSE n = accAcked

PeerReceiveSyn ==
  /\ PeerReceives({"SYN", "SYNACK"})
  /\ accPhoneSyn' = TRUE
  /\ accRx' = IF accPhoneSyn THEN accRx ELSE Head(toAcc).seq
  /\ accSynAcked' = (accSynAcked \/ /\ Head(toAcc).kind = "SYNACK"
                                    /\ Head(toAcc).ack = PeerSyn)
  /\ toPhone' = Put(toPhone,
                    <<IF PeerAcksEarly \/ accSynAcked'
                      THEN AckFrame(PeerSeq(Len(accMsgs)), accRx')
                      ELSE SynFrame("SYNACK", PeerSyn, accRx', accLsp)>>)
  /\ UNCHANGED <<linkVars, accLsp, accGot, accMsgs, accAcked>>

PeerReceiveAck ==
  /\ PeerReceives({"ACK"})
  /\ PeerTakesAck(Head(toAcc).ack)
  /\ UNCHANGED <<linkVars, toPhone, accLsp, accPhoneSyn, accRx, accGot, accMsgs>>

PeerReceiveData ==
  /\ PeerReceives({"DATA"})
  /\ PeerTakesAck(Head(toAcc).ack)
  /\ IF Head(toAcc).seq = Wrap(accRx + 1)
     THEN /\ accRx' = Head(toAcc).seq
          /\ accGot' = Append(accGot, Head(toAcc).msg)
     ELSE UNCHANGED <<accRx, accGot>>
  /\ toPhone' = Put(toPhone, <<AckFrame(PeerSeq(Len(accMsgs)), accRx')>>)
  /\ UNCHANGED <<linkVars, accLsp, accPhoneSyn, accMsgs>>

(* A frame damaged on the way fails its checksum (process_packets).         *)
LoseFrame ==
  /\ state # "Dead"
  /\ \/ /\ toAcc # <<>>
        /\ toAcc' = Tail(toAcc)
        /\ UNCHANGED toPhone
     \/ /\ toPhone # <<>>
        /\ toPhone' = Tail(toPhone)
        /\ UNCHANGED toAcc
  /\ UNCHANGED <<linkVars, accVars>>

-----------------------------------------------------------------------------
Tick == RepeatSyn \/ \E m \in DOMAIN pending : Retransmit(m)

HandlePacket ==
  \/ ReceiveMarker \/ ReceiveNoise \/ ReceiveLong \/ ReceiveReset
  \/ ReceiveSynAgain \/ ReceiveSyn \/ ReceiveUnreadableSyn
  \/ ReceiveSynAck \/ ReceiveAck \/ ReceiveOutOfOrder \/ ReceiveData

Peer ==
  \/ PeerMarker \/ PeerSendSyn \/ PeerBreaksOff
  \/ PeerSendData \/ PeerRepeatData
  \/ PeerReceiveSyn \/ PeerReceiveAck \/ PeerReceiveData

Next ==
  \/ Start \/ MarkerFails \/ Tick \/ Submit \/ HandlePacket
  \/ Peer \/ LoseFrame

Spec == Init /\ [][Next]_vars

(* The driver loop polls for 100 ms, reads, and ticks: deadlines that have  *)
(* passed are noticed.  The accessory repeats its SYN.  Frames may be lost, *)
(* but a kind of frame sent again and again arrives again and again.        *)
Fairness ==
  /\ WF_vars(Start)
  /\ WF_vars(Tick)
  /\ SF_vars(PeerSendSyn)
  /\ WF_vars(HandlePacket)
  /\ SF_vars(ReceiveSyn)
  /\ SF_vars(ReceiveSynAck)
  /\ SF_vars(ReceiveReset)
  /\ SF_vars(ReceiveLong)
  /\ \A kind \in {"SYN", "SYNACK"} :
       SF_vars(PeerReceiveSyn /\ Head(toAcc).kind = kind)

FairSpec == Spec /\ Fairness

-----------------------------------------------------------------------------
States == {"Detect", "Negotiate", "Normal", "Dead"}

PendingMessages ==
  [frame : [kind : {"DATA"}, seq : SeqNum, ack : SeqNum, sid : Sids, msg : Nat],
   retries : Nat]

(* The link and the channel it writes; a pending message has been sent.     *)
PhoneTypeOK ==
  /\ state \in States
  /\ sentSeq \in SeqNum
  /\ synSeq \in SeqNum
  /\ synOutstanding \in BOOLEAN
  /\ lastRx \in SeqNum
  /\ rxValid \in BOOLEAN
  /\ lsp \in Lsps
  /\ sid \in Sids
  /\ DOMAIN pending \subseteq 1 .. sent
  /\ pending \in [DOMAIN pending -> PendingMessages]
  /\ sent \in Nat
  /\ delivered \in Seq(Nat)
  /\ toAcc \in Seq(Frames)

(* The accessory and the channel it writes. *)
PeerTypeOK ==
  /\ toPhone \in Seq(Frames)
  /\ accLsp \in PeerLsps
  /\ accPhoneSyn \in BOOLEAN
  /\ accSynAcked \in BOOLEAN
  /\ accRx \in SeqNum
  /\ accGot \in Seq(Nat)
  /\ accMsgs \in Seq(Sids)
  /\ accAcked \in 0 .. Len(accMsgs)

(* Every variable keeps its type: sequence numbers stay within their width, *)
(* link parameters and frames stay well formed.                             *)
TypeOK == PhoneTypeOK /\ PeerTypeOK

(* A control message that send_control accepted leaves pending_ on a living *)
(* link only when the accessory has received it: no acknowledgement number, *)
(* wrapped around or repeated, releases a message still under way.          *)
NoMessageForgotten ==
  state = "Normal" =>
    \A m \in 1 .. sent : m \in DOMAIN pending \/ m <= Len(accGot)

Channel == INSTANCE MessageChannel WITH
             Messages <- 1 .. MaxPhoneMsgs, Lossy <- FALSE,
             taken <- 1 .. sent, given <- accGot, gone <- {}

(* The link is a channel that loses nothing: the accessory gets the phone's *)
(* control messages in the order of send_control, none twice and none       *)
(* skipped, for as long as it gets any.                                     *)
ImplementsChannel == Channel!Spec

(* control_data_ gets the accessory's control messages in order, none       *)
(* twice, and the phone acknowledges none that control_data_ has not got.   *)
PeerStreamInOrder ==
  /\ \A i, j \in 1 .. Len(delivered) : i < j => delivered[i] < delivered[j]
  /\ \A m \in 1 .. accAcked :
       accMsgs[m] = OtherSid \/ \E i \in 1 .. Len(delivered) : delivered[i] = m

(* NORMAL means that each side has the other's SYN: the accessory knows the *)
(* phone's number and the phone uses the accessory's parameters.  So says   *)
(* the comment in handle_packet; the code only keeps it with an accessory   *)
(* that does not acknowledge before it sends its own SYN.                   *)
HandshakeComplete ==
  state = "Normal" =>
    /\ accPhoneSyn
    /\ rxValid
    /\ lsp = Clamp(accLsp)

(* The control session the accessory means by what it announces *)
AnnouncedSid == IF accLsp.sid = NoSid THEN DefaultSid ELSE accLsp.sid

(* In whatever order the accessory's SYN and ACK are read, NORMAL is only   *)
(* reached once the accessory has the phone's SYN, and window, retries and  *)
(* control session are then all the announced ones (a readable LSP, within  *)
(* its limits) or all the phone's own: never some of each.                  *)
EstablishedKnown ==
  state = "Normal" =>
    /\ accPhoneSyn
    /\ \/ accLsp.ok /\ lsp = Clamp(accLsp) /\ sid = AnnouncedSid
       \/ lsp = DefaultLsp /\ sid = DefaultSid

(* The states in the order a link goes through them *)
Rank == [Detect |-> 0, Negotiate |-> 1, Normal |-> 2, Dead |-> 3]
Advances ==
  /\ Rank[state'] >= Rank[state]
  /\ state = "Normal" => lsp' = lsp /\ sid' = sid

(* A link never leaves DEAD, never renegotiates, and an established link    *)
(* keeps the parameters it was established with.                            *)
LinkOnlyAdvances == [][Advances]_vars

(* The handshake ends, whatever frames are lost. *)
HandshakeEnds == (state = "Negotiate") ~> (state \in {"Normal", "Dead"})

(* Nobody waits for ever: the handshake ends, and every accepted message is *)
(* acknowledged or the link is declared dead by the retry limit.            *)
EveryMessageResolved ==
  /\ HandshakeEnds
  /\ \A m \in 1 .. MaxPhoneMsgs :
       (m \in DOMAIN pending) ~> (m \notin DOMAIN pending \/ state = "Dead")
=============================================================================
