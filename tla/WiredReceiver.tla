----------------------------- MODULE WiredReceiver -----------------------------
(***************************************************************************)
(* The wired Android Auto receiver (aa/wired_receiver.cpp): libusb's       *)
(* hotplug events on one thread, the tasks of io_service on another, the   *)
(* control session of each phone with its capability worker on a third.    *)
(* The hub that waits for a phone, the channels and the transport are      *)
(* aasdk's and modelled by how the receiver uses them.                     *)
(*                                                                         *)
(* A phone in accessory mode is an address; every plugging is a new one.   *)
(* A session is an object kept alive by control_session_, by its receives  *)
(* that are outstanding and by tasks posted for it.                        *)
(***************************************************************************)
EXTENDS Integers, Sequences, FiniteSets

CONSTANTS
  MaxPlugs,    \* bound on pluggings
  MaxRequests, \* bound on service discovery requests
  MaxTimeouts  \* bound on waits of the capability workers that time out

ASSUME ReceiverAssumption ==
  MaxPlugs \in Nat \ {0} /\ {MaxRequests, MaxTimeouts} \subseteq Nat

VARIABLES
  impl,     \* running_ and not stopping_, active_, active_address_, control_session_
  hub,      \* a promise of usb_hub_ is outstanding
  bus,      \* the phone plugged in, and how many there were
  hotplug,  \* hotplug events libusb has not delivered yet
  io,       \* tasks posted to io_service, in order
  sess,     \* control sessions, by the address of their phone
  told,     \* phone_disconnected of the daemon: what the events said last
  requests, timeouts \* how many there were

counts == <<requests, timeouts>>
vars == <<impl, hub, bus, hotplug, io, sess, told, counts>>

Phones == 1..MaxPlugs
Task(op, phone) == [op |-> op, phone |-> phone]
Post(op, phone) == io' = Append(io, Task(op, phone))
Event(kind, phone) == [kind |-> kind, phone |-> phone]

NoSession ==
  [object |-> "none", up |-> FALSE, stage |-> "version", recv |-> 0, video |-> FALSE,
   pending |-> FALSE, stop |-> FALSE, failed |-> FALSE, worker |-> "off",
   asked |-> FALSE]

(* The constructor starts the worker, start() the receives. *)
NewSession ==
  [NoSession EXCEPT !.object = "held", !.up = TRUE, !.recv = 1, !.video = TRUE,
                    !.worker = "wait"]

(* After start(): the hub waits, and a phone that was in accessory mode     *)
(* already (find_existing_aoap_device) is on its way to active_.            *)
Init ==
  /\ impl = [up |-> TRUE, active |-> FALSE, address |-> 0, session |-> 0]
  /\ hub = TRUE /\ hotplug = <<>> /\ told = "nothing"
  /\ requests = 0 /\ timeouts = 0
  /\ sess = [s \in Phones |-> NoSession]
  /\ \E there \in {0, 1} :
       /\ bus = [phone |-> there, plugs |-> there]
       /\ io = IF there = 0 THEN <<>> ELSE <<Task("arrival", there)>>

-----------------------------------------------------------------------------
(* The cable, while somebody watches it. *)

PlugIn ==
  /\ impl.up /\ bus.phone = 0 /\ bus.plugs < MaxPlugs
  /\ bus' = [phone |-> bus.plugs + 1, plugs |-> bus.plugs + 1]
  /\ hotplug' = Append(hotplug, Event("arrived", bus.plugs + 1))
  /\ UNCHANGED <<impl, hub, io, sess, told, counts>>

(* Every transfer of the phone's session fails from now on. *)
PullOut ==
  /\ impl.up /\ bus.phone # 0
  /\ bus' = [bus EXCEPT !.phone = 0]
  /\ hotplug' = Append(hotplug, Event("left", bus.phone))
  /\ sess' = [sess EXCEPT ![bus.phone].up = FALSE]
  /\ UNCHANGED <<impl, hub, io, told, counts>>

-----------------------------------------------------------------------------
(* The thread of run_usb_events. *)

NextEvent(kind) ==
  /\ impl.up /\ hotplug # <<>> /\ Head(hotplug).kind = kind
  /\ hotplug' = Tail(hotplug)
  /\ UNCHANGED <<impl, bus, sess, told, counts>>

(* handle_device_arrival posts a task that takes the phone; a hub that      *)
(* waits resolves its promise.  Both must open the device, which fails once *)
(* it has gone.                                                             *)
DeviceArrived ==
  /\ NextEvent("arrived")
  /\ LET phone == Head(hotplug).phone
         opened == bus.phone = phone
     IN  /\ hub' = (hub /\ ~opened)
         /\ io' = io \o (IF opened /\ ~impl.active THEN <<Task("arrival", phone)>> ELSE <<>>)
                     \o (IF opened /\ hub THEN <<Task("ready", phone)>> ELSE <<>>)

(* device_event: only the phone in use counts. *)
DeviceLeft ==
  /\ NextEvent("left")
  /\ IF impl.active /\ impl.address = Head(hotplug).phone
     THEN Post("left", impl.address) ELSE UNCHANGED io
  /\ UNCHANGED hub

UsbMoves == DeviceArrived \/ DeviceLeft

-----------------------------------------------------------------------------
(* The tasks of io_service. *)

Runs(op) == impl.up /\ io # <<>> /\ Head(io).op = op
Phone == Head(io).phone

(* A task that does not look at active_ a second time. *)
TakeArrivalUnchecked ==
  /\ Runs("arrival")
  /\ io' = Tail(io)
  /\ impl' = [impl EXCEPT !.active = TRUE, !.address = Phone]
  /\ UNCHANGED <<hub, bus, hotplug, sess, told, counts>>

(* The task of handle_device_arrival: no session is started. *)
TakeArrival ==
  /\ Runs("arrival")
  /\ io' = Tail(io)
  /\ impl' = IF impl.active THEN impl ELSE [impl EXCEPT !.active = TRUE, !.address = Phone]
  /\ UNCHANGED <<hub, bus, hotplug, sess, told, counts>>

(* fail: the session is reported once, and its end is posted. *)
Failed(s) == [s EXCEPT !.failed = TRUE]
EndPosted(tasks, s, phone) == IF s.failed THEN tasks ELSE Append(tasks, Task("end", phone))

(* The promise of arm_wait_for_phone, and start_control_session.  A device  *)
(* that has gone makes start() fail.                                        *)
PhoneReady ==
  /\ Runs("ready")
  /\ impl' = [impl EXCEPT !.active = TRUE, !.address = Phone, !.session = Phone]
  /\ told' = "connected"
  /\ IF bus.phone = Phone
     THEN sess' = [sess EXCEPT ![Phone] = NewSession] /\ io' = Tail(io)
     ELSE /\ sess' = [sess EXCEPT ![Phone] = Failed([NewSession EXCEPT !.up = FALSE,
                                                       !.recv = 0, !.video = FALSE])]
          /\ io' = Append(Tail(io), Task("end", Phone))
  /\ UNCHANGED <<hub, bus, hotplug, counts>>

(* A phone given up without a new promise of the hub. *)
GiveUpAndIdle ==
  /\ impl' = [impl EXCEPT !.active = FALSE, !.session = 0]
  /\ told' = "disconnected" /\ UNCHANGED hub

(* A phone given up in silence. *)
GiveUpSilently ==
  /\ impl' = [impl EXCEPT !.active = FALSE, !.session = 0]
  /\ hub' = TRUE /\ UNCHANGED told

(* What both ends of a phone do: the session is let go but not stopped, the *)
(* daemon is told, the hub waits again.                                     *)
GiveUp ==
  /\ impl' = [impl EXCEPT !.active = FALSE, !.session = 0]
  /\ told' = "disconnected" /\ hub' = TRUE

(* The task of device_event, whatever has happened since it was posted. *)
PhoneLeft ==
  /\ Runs("left")
  /\ io' = Tail(io) /\ GiveUp
  /\ UNCHANGED <<bus, hotplug, sess, counts>>

(* handle_control_session_end, whichever session has ended. *)
SessionEnd ==
  /\ Runs("end")
  /\ io' = Tail(io)
  /\ IF impl.active THEN GiveUp ELSE UNCHANGED <<impl, hub, told>>
  /\ UNCHANGED <<bus, hotplug, sess, counts>>

(* An answer after which the control channel is not read again. *)
RespondAndRest ==
  /\ Runs("respond")
  /\ sess' = [sess EXCEPT ![Phone].asked = @ /\ ~sess[Phone].up]
  /\ io' = Tail(io)
  /\ UNCHANGED <<impl, hub, bus, hotplug, told, counts>>

(* send_service_discovery_response on the strand: the answer goes out, or   *)
(* fails because the connection is not encrypted yet, and the next message  *)
(* is waited for.                                                           *)
Respond ==
  /\ Runs("respond")
  /\ LET s == sess[Phone]
         listens == [s EXCEPT !.recv = @ + 1]
     IN  \/ /\ s.stop
            /\ io' = Tail(io) /\ UNCHANGED sess
         \/ /\ ~s.stop /\ s.up
            /\ sess' = [sess EXCEPT ![Phone] = [listens EXCEPT !.asked = FALSE]]
            /\ io' = Tail(io)
         \/ /\ ~s.stop /\ (~s.up \/ s.stage # "secure")
            /\ sess' = [sess EXCEPT ![Phone] = Failed(listens)]
            /\ io' = EndPosted(Tail(io), s, Phone)
  /\ UNCHANGED <<impl, hub, bus, hotplug, told, counts>>

Tasks == TakeArrival \/ PhoneReady \/ PhoneLeft \/ SessionEnd \/ Respond

-----------------------------------------------------------------------------
(* The control session's handlers, between the tasks. *)

(* A handler called without a receive. *)
HearsUnasked(p) == impl.up /\ sess[p].object = "held" /\ sess[p].up

Hears(p) == impl.up /\ sess[p].object = "held" /\ sess[p].up /\ sess[p].recv > 0
Becomes(p, s) == sess' = [sess EXCEPT ![p] = s] /\ UNCHANGED <<impl, hub, bus, hotplug>>

Fails(p, s) ==
  /\ Becomes(p, Failed(s))
  /\ io' = EndPosted(io, s, p)
  /\ UNCHANGED <<told, counts>>

(* onVersionResponse and onHandshake, accepted; the receive goes on. *)
Negotiated(p) ==
  /\ Hears(p) /\ sess[p].stage # "secure"
  /\ Becomes(p, [sess[p] EXCEPT !.stage = IF @ = "version" THEN "tls" ELSE "secure"])
  /\ UNCHANGED <<io, told, counts>>

(* A rejected version or a failed handshake: no further receive. *)
Refused(p) ==
  /\ Hears(p) /\ sess[p].stage # "secure"
  /\ Fails(p, [sess[p] EXCEPT !.recv = @ - 1])

(* onServiceDiscoveryRequest: left to the worker; no further receive until  *)
(* an answer has been sent.                                                 *)
DiscoveryRequest(p) ==
  /\ Hears(p) /\ sess[p].stage = "secure" /\ requests < MaxRequests
  /\ Becomes(p, [sess[p] EXCEPT !.recv = @ - 1, !.asked = TRUE,
                                !.pending = @ \/ ~sess[p].stop])
  /\ requests' = requests + 1 /\ UNCHANGED <<io, told, timeouts>>

(* onByeByeRequest: stop() ends worker and transport, the receiver is not   *)
(* told.                                                                    *)
ByeBye(p) ==
  /\ Hears(p) /\ sess[p].stage = "secure"
  /\ Becomes(p, [sess[p] EXCEPT !.recv = @ - 1, !.stop = TRUE, !.up = FALSE])
  /\ told' = "disconnected" /\ UNCHANGED <<io, counts>>

(* A video codec the receiver does not know. *)
BadCodec(p) ==
  /\ impl.up /\ sess[p].up /\ sess[p].video /\ sess[p].stage = "secure"
  /\ Fails(p, [sess[p] EXCEPT !.video = FALSE])

(* The receives of a transport that has ended are rejected (onChannelError). *)
Rejected(p) ==
  /\ impl.up /\ sess[p].object = "held" /\ ~sess[p].up
  /\ sess[p].recv > 0 \/ sess[p].video
  /\ Fails(p, [sess[p] EXCEPT !.recv = 0, !.video = FALSE])

(* Or, after stop(), dropped with the messenger. *)
Dropped(p) ==
  /\ impl.up /\ sess[p].stop
  /\ sess[p].recv > 0 \/ sess[p].video
  /\ Becomes(p, [sess[p] EXCEPT !.recv = 0, !.video = FALSE])
  /\ UNCHANGED <<io, told, counts>>

Referenced(p) ==
  \/ impl.session = p
  \/ sess[p].recv > 0 \/ sess[p].video
  \/ \E i \in DOMAIN io : io[i] = Task("respond", p)

(* A detached worker, which nobody stops. *)
DestroyedDetached(p) ==
  /\ impl.up /\ sess[p].object = "held" /\ ~Referenced(p)
  /\ Becomes(p, [sess[p] EXCEPT !.object = "dead"])
  /\ UNCHANGED <<io, told, counts>>

(* The last reference has gone: the destructor stops and joins the worker. *)
Destroyed(p) ==
  /\ impl.up /\ sess[p].object = "held" /\ ~Referenced(p)
  /\ Becomes(p, [NoSession EXCEPT !.object = "dead", !.worker = "ended"])
  /\ UNCHANGED <<io, told, counts>>

Released(p) == Rejected(p) \/ Dropped(p) \/ Destroyed(p)

-----------------------------------------------------------------------------
(* capability_loop: a request, the end of the session, or 100 ms without    *)
(* either; the first and the last are not told apart.                       *)

WorkerAsks(p) ==
  /\ sess[p].worker = "wait" /\ ~sess[p].stop
  /\ \/ sess[p].pending /\ UNCHANGED timeouts
     \/ ~sess[p].pending /\ timeouts < MaxTimeouts /\ timeouts' = timeouts + 1
  /\ Becomes(p, [sess[p] EXCEPT !.worker = "ask", !.pending = FALSE])
  /\ UNCHANGED <<io, told, requests>>

(* The provider has returned, with a profile or without. *)
WorkerAnswers(p) ==
  /\ sess[p].worker = "ask" /\ ~sess[p].stop /\ Referenced(p)
  /\ Becomes(p, [sess[p] EXCEPT !.worker = "wait"])
  /\ Post("respond", p)
  /\ UNCHANGED <<told, counts>>

WorkerEnds(p) ==
  /\ sess[p].worker \in {"wait", "ask"} /\ sess[p].stop
  /\ Becomes(p, [sess[p] EXCEPT !.worker = "ended"])
  /\ UNCHANGED <<io, told, counts>>

Worker(p) == WorkerAsks(p) \/ WorkerAnswers(p) \/ WorkerEnds(p)

(* Impl::stop and reset_locked: the threads are joined, then the current    *)
(* session is stopped.                                                      *)
Stop ==
  /\ impl.up
  /\ impl' = [up |-> FALSE, active |-> FALSE, address |-> impl.address, session |-> 0]
  /\ hub' = FALSE /\ hotplug' = <<>>
  /\ sess' = [p \in Phones |-> IF p = impl.session
                               THEN [sess[p] EXCEPT !.stop = TRUE, !.up = FALSE]
                               ELSE sess[p]]
  /\ UNCHANGED <<bus, io, told, counts>>

-----------------------------------------------------------------------------
(* Handlers that only answer and receive again (audio focus, ping, video    *)
(* and its acknowledgements) change nothing here.                           *)
PhoneMessage(p) ==
  \/ Negotiated(p) \/ Refused(p) \/ DiscoveryRequest(p) \/ ByeBye(p) \/ BadCodec(p)

Next ==
  \/ PlugIn \/ PullOut \/ UsbMoves \/ Tasks \/ Stop
  \/ \E p \in Phones : PhoneMessage(p) \/ Released(p) \/ Worker(p)

Spec == Init /\ [][Next]_vars

(* The threads run and the provider returns within five seconds.  Phones    *)
(* may say what they like, or nothing.                                      *)
FairSpec ==
  /\ Spec
  /\ WF_vars(UsbMoves) /\ WF_vars(Tasks)
  /\ \A p \in Phones : /\ WF_vars(Released(p))
                       /\ WF_vars(sess[p].pending /\ WorkerAsks(p))
                       /\ WF_vars(WorkerAnswers(p)) /\ WF_vars(WorkerEnds(p))

-----------------------------------------------------------------------------
TypeOK ==
  /\ {impl.up, impl.active, hub} \subseteq BOOLEAN
  /\ {impl.address, impl.session, bus.phone} \subseteq {0} \cup Phones
  /\ told \in {"nothing", "connected", "disconnected"}
  /\ \A p \in Phones :
       /\ sess[p].object \in {"none", "held", "dead"}
       /\ sess[p].worker \in {"off", "wait", "ask", "ended"}
       /\ sess[p].recv \in Nat

(* The session kept is of the phone whose leaving is watched for: arrivals, *)
(* resolved promises and ends interleave, but never leave a session whose   *)
(* phone may be pulled out unnoticed (device_event compares the address).   *)
SessionWatched ==
  TypeOK /\ (impl.session # 0 => impl.active /\ impl.address = impl.session)

(* While no phone is plugged in, the hub waits for the next, whichever of   *)
(* the left event, the failed transfers and a session on its way was first. *)
WaitsForPhone ==
  impl.up /\ bus.phone = 0 ~> hub \/ bus.phone # 0 \/ ~impl.up

(* The daemon stops a CarPlay session for a phone that has gone: it is told *)
(* "disconnected" after a "connected" that is no longer true, unless a      *)
(* phone is plugged in before that.                                         *)
UnplugTold ==
  told = "connected" /\ bus.phone = 0 ~> told = "disconnected" \/ bus.phone # 0 \/ ~impl.up

Over(s) == s.failed \/ s.stop \/ ~s.up

(* A service discovery request is answered, also one that came while the    *)
(* worker computed the answer to another, and the control channel, deaf     *)
(* since the request, is read again; or the session is over.                *)
DiscoveryAnswered ==
  \A p \in Phones :
    sess[p].asked ~> (~sess[p].asked /\ sess[p].recv > 0) \/ Over(sess[p]) \/ ~impl.up

(* A session that was given up without being stopped comes to its end once  *)
(* its phone has gone, and its worker thread with it.                       *)
OrphansEnd ==
  \A p \in Phones :
    (sess[p].object = "held" /\ impl.session # p /\ bus.phone # p)
      ~> sess[p].worker = "ended" \/ ~impl.up

(* The phone is sent a service discovery response for a request of its own: *)
(* the worker answers requests, several with one response ("coalesce        *)
(* duplicate requests while it is busy").                                   *)
OnlyWhenAsked ==
  [][\A p \in Phones : sess[p].object = "held" /\ sess'[p].recv > sess[p].recv
                          => sess[p].asked]_vars
=============================================================================
