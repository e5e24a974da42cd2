---------------------------- MODULE MicrophonePath ----------------------------
(***************************************************************************)
(* The way of the driver's voice from the car to the phone: the datagrams  *)
(* of the accessory and their replay window (microphone_receiver of        *)
(* airplay/session.cpp), the queue of WiredReceiver::Impl that the socket  *)
(* between the processes fills, and MicrophoneSession, which keeps one     *)
(* message in flight (aa/wired_receiver.cpp).                              *)
(*                                                                         *)
(* A datagram is its nonce; the network loses, repeats and reorders them.  *)
(* Audio that passed the window is numbered in that order.  Two threads of *)
(* the daemon share the first queue: the socket's receiver fills it, the   *)
(* one thread of io_service drains it, in tasks that run in the order in   *)
(* which they were posted.                                                 *)
(***************************************************************************)
EXTENDS Integers, Sequences, FiniteSets

CONSTANTS
  MaxPackets, \* bound on datagrams of the accessory
  Width,      \* width of replay_window in bits
  Odd,        \* nonces of datagrams with half a sample
  QueueLimit, \* kMaximumMicrophonePackets and kMaximumIngressPackets
  MaxRequests \* bound on requests of the phone to open or close

ASSUME MicrophoneAssumption ==
  /\ {MaxPackets, MaxRequests} \subseteq Nat
  /\ {Width, QueueLimit} \subseteq Nat \ {0}
  /\ Odd \subseteq Nat

VARIABLES
  sent,      \* datagrams the accessory has sent
  window,    \* have_nonce, highest_nonce, replay_window as a set of distances
  seen,      \* history: nonces the window has let in
  passed,    \* history: nonces of the audio given to the callback
  ipc,       \* audio between the two processes
  hub,       \* microphone_audio_, microphone_drain_posted_, running
  mic,       \* MicrophoneSession
  io,        \* tasks of io_service; the first may be half done
  wire,      \* messages to the phone
  phone,     \* messages of the phone, and how many requests it has made
  heard,     \* history: audio the phone has received
  gone       \* history: audio given up on the way

radio == <<sent, window, seen, passed>>
link == <<wire, phone, heard>>
vars == <<sent, window, seen, passed, ipc, hub, mic, io, wire, phone, heard, gone>>

Audio == 1..MaxPackets
Elements(q) == {q[i] : i \in DOMAIN q}

Init ==
  /\ sent = 0 /\ seen = {} /\ passed = <<>> /\ ipc = <<>>
  /\ window = [have |-> FALSE, highest |-> 0, bits |-> {}]
  /\ hub = [queue |-> <<>>, posted |-> FALSE, running |-> TRUE, attached |-> TRUE]
  /\ mic = [id |-> 0, inFlight |-> FALSE, pending |-> 0, ingress |-> <<>>, posted |-> FALSE]
  /\ io = <<>> /\ wire = <<>>
  /\ phone = [out |-> <<>>, requests |-> 0]
  /\ heard = <<>> /\ gone = {}

-----------------------------------------------------------------------------
(* The child process: microphone_receiver. *)

AccessorySends ==
  /\ sent < MaxPackets
  /\ sent' = sent + 1
  /\ UNCHANGED <<window, seen, passed, ipc, hub, mic, io, link, gone>>

(* A window of one bit too many: the oldest bit has left the word. *)
RefusesLate(n) ==
  /\ window.have /\ n <= window.highest
  /\ window.highest - n > Width \/ window.highest - n \in window.bits

(* The window knows the datagram, or it is too old to tell. *)
Refuses(n) ==
  /\ window.have /\ n <= window.highest
  /\ window.highest - n >= Width \/ window.highest - n \in window.bits

(* A window that starts again at every new highest nonce. *)
AdmitForgetting(n) ==
  IF window.have /\ n <= window.highest
  THEN [window EXCEPT !.bits = @ \cup {window.highest - n}]
  ELSE [have |-> TRUE, highest |-> n, bits |-> {0}]

(* The window with n in it: moved on to a new highest nonce, or marked. *)
Admit(n) ==
  IF ~window.have
  THEN [have |-> TRUE, highest |-> n, bits |-> {0}]
  ELSE IF n > window.highest
  THEN [have |-> TRUE, highest |-> n,
        bits |-> {0} \cup {b \in 0..(Width - 1) : b - (n - window.highest) \in window.bits}]
  ELSE [window EXCEPT !.bits = @ \cup {window.highest - n}]

(* Any datagram sent may arrive, at any time and again.  One with half a    *)
(* sample is marked but goes no further.                                    *)
ReceivePacket(n) ==
  /\ n \in 1..sent /\ ~Refuses(n)
  /\ window' = Admit(n)
  /\ seen' = seen \cup {n}
  /\ IF n \in Odd
     THEN UNCHANGED <<passed, ipc>>
     ELSE /\ passed' = Append(passed, n)
          /\ ipc' = Append(ipc, Len(passed) + 1)
  /\ UNCHANGED <<sent, hub, mic, io, link, gone>>

-----------------------------------------------------------------------------
(* WiredReceiver::Impl. *)

Post(task) == io' = Append(io, task)

(* The queue with the newest packet and without the oldest if it was full. *)
Push(q, n) == Append(IF Len(q) >= QueueLimit THEN Tail(q) ELSE q, n)
Dropped(q) == IF Len(q) >= QueueLimit THEN {Head(q)} ELSE {}

(* Impl::send_microphone_audio on the thread of the socket: *)
(* at most one drain is posted.                             *)
SendMicrophoneAudio ==
  /\ ipc # <<>>
  /\ ipc' = Tail(ipc)
  /\ IF hub.running
     THEN /\ hub' = [hub EXCEPT !.queue = Push(@, Head(ipc)), !.posted = TRUE]
          /\ gone' = gone \cup Dropped(hub.queue)
          /\ IF hub.posted THEN UNCHANGED io ELSE Post("hub")
     ELSE /\ gone' = gone \cup {Head(ipc)}
          /\ UNCHANGED <<hub, io>>
  /\ UNCHANGED <<radio, mic, link>>

(* What the socket gives up: a full queue, a broken connection. *)
IpcLoses ==
  /\ ipc # <<>>
  /\ ipc' = Tail(ipc) /\ gone' = gone \cup {Head(ipc)}
  /\ UNCHANGED <<radio, hub, mic, io, link>>

Runs(task) == hub.running /\ io # <<>> /\ Head(io) = task

(* drain_microphone_audio up to the second lock: take a packet and give it  *)
(* to MicrophoneSession::send_audio, which posts its own drain.             *)
DrainTake ==
  /\ Runs("hub")
  /\ IF hub.queue = <<>>
     THEN /\ hub' = [hub EXCEPT !.posted = FALSE]
          /\ io' = Tail(io)
          /\ UNCHANGED <<mic, gone>>
     ELSE LET n == Head(hub.queue)
          IN  /\ hub' = [hub EXCEPT !.queue = Tail(@)]
              /\ IF hub.attached
                 THEN /\ mic' = [mic EXCEPT !.ingress = Push(@, n), !.posted = TRUE]
                      /\ gone' = gone \cup Dropped(mic.ingress)
                 ELSE gone' = gone \cup {n} /\ UNCHANGED mic
              /\ io' = <<"hubRest">> \o Tail(io) \o
                       (IF hub.attached /\ ~mic.posted THEN <<"ingress">> ELSE <<>>)
  /\ UNCHANGED <<radio, ipc, link>>

(* A drain that looks at the queue once. *)
DrainOnce ==
  /\ Runs("hubRest")
  /\ hub' = [hub EXCEPT !.posted = FALSE] /\ io' = Tail(io)
  /\ UNCHANGED <<radio, ipc, mic, link, gone>>

(* Its second locked part: more may have come while the lock was free. *)
DrainRest ==
  /\ Runs("hubRest")
  /\ IF hub.queue = <<>>
     THEN hub' = [hub EXCEPT !.posted = FALSE] /\ io' = Tail(io)
     ELSE io' = Append(Tail(io), "hub") /\ UNCHANGED hub
  /\ UNCHANGED <<radio, ipc, mic, link, gone>>

(* Impl::stop: the queue is cleared and no task runs any more. *)
Stop ==
  /\ hub.running
  /\ hub' = [hub EXCEPT !.running = FALSE, !.queue = <<>>, !.posted = FALSE]
  /\ gone' = gone \cup Elements(hub.queue)
  /\ UNCHANGED <<radio, ipc, mic, io, link>>

-----------------------------------------------------------------------------
(* MicrophoneSession, on its strand. *)

InPending(m) == IF m.pending = 0 THEN {} ELSE {m.pending}

(* send_audio_on_strand: the session and what it sends.  A message on its   *)
(* way makes the packet the pending one, in place of an older one.          *)
SendAudio(m, n) ==
  IF m.id = 0 THEN [mic |-> m, sends |-> <<>>, gone |-> {n}]
  ELSE IF m.inFlight
       THEN [mic |-> [m EXCEPT !.pending = n], sends |-> <<>>, gone |-> InPending(m)]
       ELSE [mic |-> [m EXCEPT !.inFlight = TRUE], sends |-> <<n>>, gone |-> {}]

Sends(after) ==
  IF hub.attached
  THEN wire' = wire \o after.sends /\ gone' = gone \cup after.gone
  ELSE gone' = gone \cup after.gone \cup Elements(after.sends) /\ UNCHANGED wire

(* drain_audio.  Only this thread touches the queue. *)
DrainIngress ==
  /\ Runs("ingress")
  /\ IF mic.ingress = <<>>
     THEN /\ mic' = [mic EXCEPT !.posted = FALSE]
          /\ io' = Tail(io) /\ UNCHANGED <<wire, gone>>
     ELSE LET rest == Tail(mic.ingress)
              after == SendAudio([mic EXCEPT !.ingress = rest, !.posted = rest # <<>>],
                                 Head(mic.ingress))
          IN  /\ mic' = after.mic /\ Sends(after)
              /\ io' = Tail(io) \o (IF rest = <<>> THEN <<>> ELSE <<"ingress">>)
  /\ UNCHANGED <<radio, ipc, hub, phone, heard>>

(* The strand is free for a message of the phone. *)
Hears(kind) ==
  /\ hub.running /\ hub.attached
  /\ ~Runs("hubRest")
  /\ phone.out # <<>> /\ Head(phone.out) = kind
  /\ phone' = [phone EXCEPT !.out = Tail(@)]

(* A reopening that keeps the packet that was waiting. *)
OpenKeeping(m, id) == [m EXCEPT !.id = id, !.inFlight = FALSE, !.ingress = <<>>]

(* The session after a request to open or close. *)
Open(m, id) == [m EXCEPT !.id = id, !.inFlight = FALSE, !.pending = 0, !.ingress = <<>>]

(* onMediaSourceOpenRequest; the response is of no interest here. *)
OnOpenRequest(id) ==
  /\ Hears(id)
  /\ mic' = Open(mic, id)
  /\ gone' = gone \cup Elements(mic.ingress) \cup InPending(mic)
  /\ UNCHANGED <<radio, ipc, hub, io, wire, heard>>

(* An acknowledgement that leaves the waiting packet for the next one. *)
OnAckOnly ==
  /\ Hears(2)
  /\ mic' = [mic EXCEPT !.inFlight = FALSE]
  /\ UNCHANGED <<radio, ipc, hub, io, wire, heard, gone>>

(* onMediaChannelAckIndication: the waiting packet is sent. *)
OnAck ==
  /\ Hears(2)
  /\ LET free == [mic EXCEPT !.inFlight = FALSE]
     IN  IF mic.pending = 0
         THEN mic' = free /\ UNCHANGED <<wire, gone>>
         ELSE LET after == SendAudio([free EXCEPT !.pending = 0], mic.pending)
              IN  mic' = after.mic /\ Sends(after)
  /\ UNCHANGED <<radio, ipc, hub, io, heard>>

-----------------------------------------------------------------------------
(* The phone: asks to open (1) or close (0), acknowledges (2) what it hears. *)
PhoneRequests(id) ==
  /\ hub.attached /\ phone.requests < MaxRequests
  /\ phone' = [out |-> Append(phone.out, id), requests |-> phone.requests + 1]
  /\ UNCHANGED <<radio, ipc, hub, mic, io, wire, heard, gone>>

PhoneHears ==
  /\ hub.attached /\ wire # <<>>
  /\ heard' = Append(heard, Head(wire))
  /\ wire' = Tail(wire)
  /\ phone' = [phone EXCEPT !.out = Append(@, 2)]
  /\ UNCHANGED <<radio, ipc, hub, mic, io, gone>>

(* The phone is unplugged: control_session_ is given up, the messages on    *)
(* the cable are lost.                                                      *)
Unplug ==
  /\ hub.attached /\ ~Runs("hubRest")
  /\ hub' = [hub EXCEPT !.attached = FALSE]
  /\ gone' = gone \cup Elements(wire) /\ wire' = <<>>
  /\ phone' = [phone EXCEPT !.out = <<>>]
  /\ UNCHANGED <<radio, ipc, mic, io, heard>>

IoMoves == DrainTake \/ DrainRest \/ DrainIngress \/ OnAck \/ \E id \in {0, 1} : OnOpenRequest(id)

Next ==
  \/ AccessorySends \/ \E n \in Audio : ReceivePacket(n)
  \/ SendMicrophoneAudio \/ IpcLoses
  \/ IoMoves \/ Stop
  \/ \E id \in {0, 1} : PhoneRequests(id)
  \/ PhoneHears \/ Unplug

Spec == Init /\ [][Next]_vars

(* The socket's receiver, the thread of io_service and a phone that answers *)
(* run.  The accessory and the network promise nothing.                     *)
FairSpec ==
  Spec /\ WF_vars(SendMicrophoneAudio) /\ WF_vars(IoMoves) /\ WF_vars(PhoneHears)

-----------------------------------------------------------------------------
TypeOK ==
  /\ sent \in 0..MaxPackets /\ seen \subseteq 1..sent
  /\ window.have \in BOOLEAN /\ window.highest \in 0..sent
  /\ window.bits \subseteq 0..(Width - 1)
  /\ Elements(ipc) \cup Elements(hub.queue) \cup Elements(mic.ingress) \cup Elements(wire)
       \subseteq DOMAIN passed
  /\ mic.id \in {0, 1} /\ mic.pending \in {0} \cup DOMAIN passed
  /\ gone \subseteq DOMAIN passed

(* No datagram is given to the phone's side twice, however often and in     *)
(* whatever order the network delivers it (replay_window).                  *)
NoReplay == \A i, j \in DOMAIN passed : passed[i] = passed[j] => i = j

(* The window remembers exactly the datagrams of its width: what it has     *)
(* seen it refuses, what it has not seen it lets in.  This is the invariant *)
(* NoReplay rests on.                                                       *)
WindowExact ==
  /\ window.have <=> seen # {}
  /\ \A n \in seen : n <= window.highest
  /\ window.have => /\ window.highest \in seen
                    /\ window.bits = {b \in 0..(Width - 1) : window.highest - b \in seen}

(* The drain of a queue is posted exactly when its flag says so: a packet   *)
(* queued while the drain is between its locks is never left behind, and no *)
(* two drains run at once.                                                  *)
DrainsPosted ==
  /\ TypeOK
  /\ hub.running =>
       LET count(tasks) == Cardinality({i \in DOMAIN io : io[i] \in tasks})
       IN  /\ count({"hub", "hubRest"}) = IF hub.posted THEN 1 ELSE 0
           /\ count({"ingress"}) = IF mic.posted THEN 1 ELSE 0
           /\ hub.queue # <<>> => hub.posted
           /\ mic.ingress # <<>> => mic.posted

Channel == INSTANCE MessageChannel WITH
             Messages <- Audio, Lossy <- TRUE, taken <- DOMAIN passed,
             given <- heard, gone <- gone

(* Three queues that drop their oldest packet, a packet waiting for an      *)
(* acknowledgement and reopenings in between: the phone hears what it hears *)
(* in the order of the window and once.                                     *)
ImplementsChannel == Channel!Spec

(* With a phone that acknowledges, every packet is heard or given up: none  *)
(* waits for an acknowledgement that has come already.                      *)
EveryPacketResolved ==
  passed # <<>> ~> \/ ~hub.running \/ ~hub.attached
                   \/ DOMAIN passed \subseteq gone \cup Elements(heard)
=============================================================================
