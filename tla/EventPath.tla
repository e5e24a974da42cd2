------------------------------ MODULE EventPath ------------------------------
(***************************************************************************)
(* The way of a button press from the car to the daemon: the accessory's   *)
(* event channel (service_event_channel of airplay/session.cpp), the queue *)
(* and the thread of FrameSocketWriter in the child process, the Unix      *)
(* stream socket, and FrameSocketReceiver in the daemon                    *)
(* (bridge/carplay_ipc.cpp).  The microphone takes the same socket.        *)
(*                                                                         *)
(* A request of the accessory is two units of plaintext, cut into          *)
(* encrypted frames anywhere.  A frame of the socket is two units, length  *)
(* and message, so that either side may meet half a frame.  Requests, and  *)
(* the frames they become, are numbered.                                   *)
(***************************************************************************)
EXTENDS Integers, Sequences, FiniteSets

CONSTANTS
  MaxEvents,  \* bound on requests of the accessory
  MaxQueued,  \* kMaximumQueuedFrames
  MaxBytes,   \* kMaximumQueuedBytes
  Capacity,   \* units the socket's buffer holds
  MaxFaults,  \* bound on deadlines and failed calls
  MaxSessions \* bound on writers, one after the other

ASSUME EventAssumption ==
  /\ {MaxEvents, MaxFaults} \subseteq Nat
  /\ {MaxQueued, MaxBytes, Capacity, MaxSessions} \subseteq Nat \ {0}

VARIABLES
  chan,      \* the event channel: accessory and service_event_channel
  queue,     \* frames_
  bytes,     \* queued_bytes_
  writer,    \* thread of FrameSocketWriter::write
  conns,     \* connections of the Unix socket, oldest first
  receiver,  \* thread of FrameSocketReceiver::receive
  delivered, \* history: frames given to callback_, as <<length of, message of>>
  accepted,  \* history: frames send() has taken
  lost,      \* history: frames taken that no thread will pass on
  faults, session

vars == <<chan, queue, bytes, writer, conns, receiver, delivered, accepted,
          lost, faults, session>>
ends == <<conns, receiver, delivered>>

Frames == 1..MaxEvents
Size(n) == 1 + (n % 2)
Bytes(q) == LET sum[i \in 0..Len(q)] == IF i = 0 THEN 0 ELSE sum[i - 1] + Size(q[i])
            IN  sum[Len(q)]

(* The channel of a session: numbers go on from those of the last one.      *)
(* behind is history: requests that came whole in one frame with another,   *)
(* less the frames that have come since and completed none.                 *)
NewChannel(units) ==
  [pc |-> "open", sent |-> units, decrypted |-> units, consumed |-> units, behind |-> 0]

NewWriter == [pc |-> "wait", frame |-> 0, units |-> 0, conn |-> 0, stop |-> FALSE]

Init ==
  /\ chan = NewChannel(0)
  /\ queue = <<>> /\ bytes = 0
  /\ writer = NewWriter
  /\ conns = <<>>
  /\ receiver = [pc |-> "accept", conn |-> 0, frame |-> <<>>, stop |-> FALSE]
  /\ delivered = <<>> /\ accepted = {} /\ lost = {}
  /\ faults = 0 /\ session = 1

Fault == faults < MaxFaults /\ faults' = faults + 1

-----------------------------------------------------------------------------
(* The event channel *)

(* The accessory encrypts the next units of its requests as one frame,      *)
(* which may complete none of them, one or several.  Frames that wait       *)
(* behind this one change nothing for the thread that decrypts them.        *)
AccessorySends(k) ==
  /\ chan.pc # "closed"
  /\ chan.sent = chan.decrypted
  /\ chan.sent + k <= 2 * MaxEvents
  /\ LET whole == chan.behind + (chan.sent + k) \div 2 - chan.sent \div 2
     IN  chan' = [chan EXCEPT !.sent = @ + k,
                              !.behind = IF whole = 0 THEN 0 ELSE whole - 1]
  /\ UNCHANGED <<queue, bytes, writer, ends, accepted, lost, faults, session>>

(* Mutation: the limit is checked without the new frame *)
HasRoomBefore(n) == Len(queue) < MaxQueued /\ bytes <= MaxBytes

(* The limits of the queue *)
HasRoom(n) == Len(queue) < MaxQueued /\ bytes + Size(n) <= MaxBytes

(* Mutation: what follows the request in plaintext is dropped with it *)
EraseAll(c) == [c EXCEPT !.pc = "open", !.consumed = c.decrypted]

(* The answer 200 was sent, the request is taken from plaintext. *)
Erase(c) == [c EXCEPT !.pc = "open", !.consumed = @ + 2]

(* FrameSocketWriter::send, called by event_received: it takes the frame or *)
(* refuses it, and never waits.                                             *)
Send(n) ==
  IF HasRoom(n)
  THEN /\ queue' = Append(queue, n) /\ bytes' = bytes + Size(n)
       /\ accepted' = accepted \cup {n}
  ELSE UNCHANGED <<queue, bytes, accepted>>

(* A frame is decrypted; when the first request in plaintext is complete it *)
(* is passed on.  At most one request is looked at with every frame.        *)
Decrypt ==
  /\ chan.pc = "open" /\ chan.decrypted < chan.sent
  /\ LET complete == chan.sent - chan.consumed >= 2
     IN  /\ chan' = [chan EXCEPT !.decrypted = chan.sent,
                                 !.pc = IF complete THEN "answer" ELSE "open"]
         /\ IF complete THEN Send(chan.consumed \div 2 + 1)
            ELSE UNCHANGED <<queue, bytes, accepted>>
  /\ UNCHANGED <<writer, ends, lost, faults, session>>

Answer ==
  /\ chan.pc = "answer"
  /\ chan' = Erase(chan)
  /\ UNCHANGED <<queue, bytes, writer, ends, accepted, lost, faults, session>>

(* Closed by the accessory, undecryptable, malformed or too long, the       *)
(* answer was not sent; or the session ends and asks the thread to stop.    *)
ChannelCloses ==
  /\ chan.pc # "closed"
  /\ chan' = [chan EXCEPT !.pc = "closed"]
  /\ UNCHANGED <<queue, bytes, writer, ends, accepted, lost, faults, session>>

-----------------------------------------------------------------------------
(* FrameSocketWriter::write *)

Take ==
  /\ writer.pc = "wait" /\ queue # <<>>
  /\ writer' = [writer EXCEPT !.pc = IF writer.conn = 0 THEN "connect" ELSE "send",
                              !.frame = Head(queue), !.units = 0]
  /\ queue' = Tail(queue)
  /\ bytes' = bytes - Size(Head(queue))
  /\ UNCHANGED <<chan, ends, accepted, lost, faults, session>>

(* Mutation: the frame goes to the end of the queue *)
RequeueLast ==
  IF ~writer.stop /\ HasRoom(writer.frame)
  THEN queue' = Append(queue, writer.frame) /\ UNCHANGED lost
       /\ bytes' = bytes + Size(writer.frame)
  ELSE lost' = lost \cup {writer.frame} /\ UNCHANGED <<queue, bytes>>

(* Mutation: the bytes of the frame are not added again *)
RequeueUncounted ==
  IF ~writer.stop /\ HasRoom(writer.frame)
  THEN queue' = <<writer.frame>> \o queue /\ UNCHANGED <<lost, bytes>>
  ELSE lost' = lost \cup {writer.frame} /\ UNCHANGED <<queue, bytes>>

(* Mutation: a frame that failed is forgotten *)
RequeueNothing == UNCHANGED <<queue, bytes, lost>>

(* requeue: back to the front, if there is still room. *)
Requeue ==
  IF ~writer.stop /\ HasRoom(writer.frame)
  THEN queue' = <<writer.frame>> \o queue /\ UNCHANGED lost
       /\ bytes' = bytes + Size(writer.frame)
  ELSE lost' = lost \cup {writer.frame} /\ UNCHANGED <<queue, bytes>>

Backlog == {i \in DOMAIN conns : conns[i].r = "backlog"}
Listening == receiver.pc # "off"
HasPlace == Listening /\ Cardinality(Backlog) < 2

(* connect_unix; the backlog of listen(.., 1) holds two connections. *)
Connect ==
  /\ writer.pc = "connect"
  /\ \/ /\ HasPlace
        /\ conns' = Append(conns, [data |-> <<>>, w |-> TRUE, r |-> "backlog"])
        /\ writer' = [writer EXCEPT !.pc = "send", !.conn = Len(conns) + 1]
        /\ UNCHANGED <<queue, bytes, lost, faults>>
     \/ /\ IF HasPlace THEN Fault ELSE UNCHANGED faults
        /\ writer' = [writer EXCEPT !.pc = "sleep", !.frame = 0]
        /\ Requeue
        /\ UNCHANGED conns
  /\ UNCHANGED <<chan, receiver, delivered, accepted, session>>

(* Mutation: the connection is kept after a frame that was cut off *)
KeepConnection(w) == [w EXCEPT !.pc = "sleep", !.frame = 0]

(* The connection is closed and made anew for the next frame. *)
GiveUpConnection(w) == [w EXCEPT !.pc = "sleep", !.frame = 0, !.conn = 0]

(* send_all puts the next unit into the socket. *)
SendUnit ==
  /\ writer.pc = "send"
  /\ conns[writer.conn].r # "closed"
  /\ Len(conns[writer.conn].data) < Capacity
  /\ conns' = [conns EXCEPT ![writer.conn].data = Append(@, <<writer.frame, writer.units>>)]
  /\ writer' = IF writer.units = 0 THEN [writer EXCEPT !.units = 1]
               ELSE [writer EXCEPT !.pc = "wait", !.frame = 0]
  /\ UNCHANGED <<chan, queue, bytes, receiver, delivered, accepted, lost, faults, session>>

(* send_all fails: closed by the receiver, stopped, or out of time. *)
SendFails ==
  /\ writer.pc = "send"
  /\ IF writer.stop \/ conns[writer.conn].r = "closed" THEN UNCHANGED faults ELSE Fault
  /\ writer' = GiveUpConnection(writer)
  /\ conns' = [conns EXCEPT ![writer.conn].w = (writer'.conn # 0)]
  /\ Requeue
  /\ UNCHANGED <<chan, receiver, delivered, accepted, session>>

Sleep ==
  /\ writer.pc = "sleep"
  /\ writer' = [writer EXCEPT !.pc = "wait"]
  /\ UNCHANGED <<chan, queue, bytes, ends, accepted, lost, faults, session>>

Hangup(cs, i) == IF i = 0 THEN cs ELSE [cs EXCEPT ![i].w = FALSE]
InHand == IF writer.frame = 0 THEN {} ELSE {writer.frame}
Queued == {queue[i] : i \in DOMAIN queue}

(* Mutation: the wait for frames looks at nothing else *)
WriterWaitsOn ==
  /\ writer.pc = "wait" /\ writer.stop /\ queue # <<>>
  /\ writer' = [writer EXCEPT !.pc = "off", !.conn = 0]
  /\ conns' = Hangup(conns, writer.conn)
  /\ lost' = lost \cup Queued
  /\ queue' = <<>> /\ bytes' = 0
  /\ UNCHANGED <<chan, receiver, delivered, accepted, faults, session>>

(* The loop sees the stop: what is queued is destroyed with the writer. *)
WriterEnds ==
  /\ writer.pc = "wait" /\ writer.stop
  /\ writer' = [writer EXCEPT !.pc = "off", !.conn = 0]
  /\ conns' = Hangup(conns, writer.conn)
  /\ lost' = lost \cup Queued
  /\ queue' = <<>> /\ bytes' = 0
  /\ UNCHANGED <<chan, receiver, delivered, accepted, faults, session>>

(* The destructor, when run_session has returned. *)
StopWriter ==
  /\ chan.pc = "closed"
  /\ writer.pc # "off" /\ ~writer.stop
  /\ writer' = [writer EXCEPT !.stop = TRUE]
  /\ UNCHANGED <<chan, queue, bytes, ends, accepted, lost, faults, session>>

(* The child process is killed. *)
Killed ==
  /\ writer.pc # "off"
  /\ writer' = [NewWriter EXCEPT !.pc = "off", !.stop = TRUE]
  /\ chan' = [chan EXCEPT !.pc = "closed"]
  /\ conns' = Hangup(conns, writer.conn)
  /\ lost' = lost \cup Queued \cup InHand
  /\ queue' = <<>> /\ bytes' = 0
  /\ UNCHANGED <<receiver, delivered, accepted, faults, session>>

(* The next session has a writer of its own; the second attempt of one goes *)
(* on with the writer of the first.                                         *)
NextSession ==
  /\ chan.pc = "closed"
  /\ session < MaxSessions
  /\ session' = session + 1
  /\ \/ writer.pc = "off" /\ writer' = NewWriter
     \/ ~writer.stop /\ UNCHANGED writer
  /\ chan' = NewChannel(chan.sent + (chan.sent % 2))
  /\ UNCHANGED <<queue, bytes, ends, accepted, lost, faults>>

WriterMoves == Take \/ Connect \/ SendUnit \/ SendFails \/ Sleep \/ WriterEnds

-----------------------------------------------------------------------------
(* FrameSocketReceiver::receive, one connection after the other *)

Accept ==
  /\ receiver.pc = "accept" /\ ~receiver.stop /\ Backlog # {}
  /\ LET i == CHOOSE i \in Backlog : \A j \in Backlog : i <= j
     IN  /\ conns' = [conns EXCEPT ![i].r = "open"]
         /\ receiver' = [receiver EXCEPT !.pc = "header", !.conn = i]
  /\ UNCHANGED <<chan, queue, bytes, writer, delivered, accepted, lost, faults, session>>

Data == conns[receiver.conn].data
Consume(pc, frame) ==
  /\ receiver' = [receiver EXCEPT !.pc = pc, !.frame = frame]
  /\ conns' = [conns EXCEPT ![receiver.conn].data = Tail(@)]
  /\ UNCHANGED <<chan, queue, bytes, writer, delivered, accepted, lost, faults, session>>

(* receive_all takes what is there even if the writer has hung up. *)
ReadHeader ==
  /\ receiver.pc = "header" /\ Data # <<>>
  /\ Consume("body", <<Head(Data)[1]>>)

ReadBody ==
  /\ receiver.pc = "body" /\ Data # <<>>
  /\ Consume("callback", Append(receiver.frame, Head(Data)[1]))

Callback ==
  /\ receiver.pc = "callback"
  /\ delivered' = Append(delivered, receiver.frame)
  /\ receiver' = [receiver EXCEPT !.pc = "header", !.frame = <<>>]
  /\ UNCHANGED <<chan, queue, bytes, writer, conns, accepted, lost, faults, session>>

(* Frames the writer has finished with, that are still in a connection. *)
Unread(i) == {n \in Frames : \E u \in DOMAIN conns[i].data : conns[i].data[u] = <<n, 1>>}

(* Mutation: the hangup ends the connection whatever can still be read *)
HangupFirst ==
  /\ receiver.pc \in {"header", "body"}
  /\ IF receiver.stop \/ ~conns[receiver.conn].w THEN UNCHANGED faults ELSE Fault
  /\ conns' = [conns EXCEPT ![receiver.conn].r = "closed", ![receiver.conn].data = <<>>]
  /\ lost' = IF receiver.stop \/ faults' # faults THEN lost \cup Unread(receiver.conn) ELSE lost
  /\ receiver' = [receiver EXCEPT !.pc = "accept", !.conn = 0, !.frame = <<>>]
  /\ UNCHANGED <<chan, queue, bytes, writer, delivered, accepted, session>>

(* receive_all fails: hung up with nothing left to read, stopped, or idle   *)
(* for ten seconds, in the last moment of which a frame may have come.      *)
GiveUpClient ==
  /\ receiver.pc \in {"header", "body"}
  /\ IF receiver.stop \/ (Data = <<>> /\ ~conns[receiver.conn].w)
     THEN UNCHANGED faults ELSE Fault
  /\ conns' = [conns EXCEPT ![receiver.conn].r = "closed", ![receiver.conn].data = <<>>]
  /\ lost' = IF receiver.stop \/ faults' # faults THEN lost \cup Unread(receiver.conn) ELSE lost
  /\ receiver' = [receiver EXCEPT !.pc = "accept", !.conn = 0, !.frame = <<>>]
  /\ UNCHANGED <<chan, queue, bytes, writer, delivered, accepted, session>>

(* The thread ends and the listener is closed. *)
ReceiverEnds ==
  /\ receiver.pc = "accept" /\ receiver.stop
  /\ receiver' = [receiver EXCEPT !.pc = "off"]
  /\ conns' = [i \in DOMAIN conns |->
                 IF i \in Backlog THEN [conns[i] EXCEPT !.r = "closed", !.data = <<>>]
                 ELSE conns[i]]
  /\ lost' = lost \cup UNION {Unread(i) : i \in Backlog}
  /\ UNCHANGED <<chan, queue, bytes, writer, delivered, accepted, faults, session>>

(* ~FrameSocketReceiver, when the daemon ends. *)
StopReceiver ==
  /\ ~receiver.stop
  /\ receiver' = [receiver EXCEPT !.stop = TRUE]
  /\ UNCHANGED <<chan, queue, bytes, writer, conns, delivered, accepted, lost, faults, session>>

ReceiverMoves == Accept \/ ReadHeader \/ ReadBody \/ Callback \/ GiveUpClient \/ ReceiverEnds

ChannelMoves == Decrypt \/ Answer

Finished ==
  /\ chan.pc = "closed" /\ writer.pc = "off" /\ session = MaxSessions
  /\ UNCHANGED vars

Next ==
  \/ \E k \in 1..2 * MaxEvents : AccessorySends(k)
  \/ ChannelMoves \/ ChannelCloses
  \/ WriterMoves \/ StopWriter \/ Killed \/ NextSession
  \/ ReceiverMoves \/ StopReceiver
  \/ Finished

Spec == Init /\ [][Next]_vars

(* The three threads run; every wait of theirs is polled.  The accessory,   *)
(* the stops and the kill may never come.                                   *)
FairSpec ==
  /\ Spec
  /\ WF_vars(ChannelMoves) /\ WF_vars(WriterMoves) /\ WF_vars(ReceiverMoves)

-----------------------------------------------------------------------------
TypeOK ==
  /\ chan.pc \in {"open", "answer", "closed"}
  /\ chan.consumed <= chan.decrypted /\ chan.decrypted <= chan.sent
  /\ queue \in Seq(Frames) /\ bytes \in 0..MaxBytes
  /\ writer.pc \in {"wait", "connect", "send", "sleep", "off"}
  /\ writer.frame \in {0} \cup Frames /\ writer.units \in {0, 1}
  /\ writer.conn \in {0} \cup DOMAIN conns
  /\ \A i \in DOMAIN conns : Len(conns[i].data) <= Capacity
  /\ receiver.pc \in {"accept", "header", "body", "callback", "off"}
  /\ lost \subseteq accepted

(* The limits of the queue hold and its count of bytes is right, through    *)
(* takes, failed sends and the way back (send, write, requeue).             *)
QueueAccounted ==
  TypeOK /\ Len(queue) <= MaxQueued /\ bytes = Bytes(queue) /\ bytes <= MaxBytes

(* A frame given to the daemon is one message: no length is applied to the  *)
(* bytes of another, though either side may break off in the middle of a   *)
(* frame and connect again ("Frames are independent messages").             *)
WholeFrames == \A i \in DOMAIN delivered : delivered[i][1] = delivered[i][2]

Channel == INSTANCE MessageChannel WITH
             Messages <- Frames, Lossy <- TRUE, taken <- accepted,
             given <- [i \in DOMAIN delivered |-> delivered[i][1]], gone <- lost

(* Over any number of connections, writers and resent frames, the socket is *)
(* a channel: the daemon sees every button press at most once and in the    *)
(* order of the car, and none that was given up after a later one.          *)
ImplementsChannel == Channel!Spec

(* What send() has taken is on its way, delivered, or was given up for a    *)
(* reason: a stop, a kill, a deadline or a queue that filled up meanwhile.  *)
NoSilentLoss ==
  accepted \subseteq
    Queued \cup InHand \cup (UNION {Unread(i) : i \in DOMAIN conns})
    \cup (IF receiver.pc = "callback" THEN {receiver.frame[1]} ELSE {})
    \cup {delivered[i][1] : i \in DOMAIN delivered} \cup lost

(* A frame is delivered whole, or its loss has a reason. *)
FramesIntact == WholeFrames /\ NoSilentLoss

(* The frames taken reach the daemon or are given up, while the daemon      *)
(* runs: no reconnection waits for ever.                                    *)
EveryFrameResolved ==
  accepted # {} ~> \/ receiver.stop
                   \/ accepted \subseteq lost \cup {delivered[i][1] : i \in DOMAIN delivered}

(* The requests that have arrived whole are answered, or the channel is     *)
(* closed, however requests are cut into frames; except that every frame    *)
(* answers one of them, so that those which came behind another in a frame  *)
(* wait for as many frames to come (service_event_channel).                 *)
EveryRequestAnswered ==
  LET Unanswered == chan.sent \div 2 - chan.consumed \div 2
  IN  Unanswered > chan.behind ~> Unanswered <= chan.behind \/ chan.pc = "closed"

(* Both destructors end: no thread is left in a wait or a reconnection.     *)
DestructorsEnd ==
  /\ writer.stop ~> writer.pc = "off"
  /\ receiver.stop ~> receiver.pc = "off"
=============================================================================
