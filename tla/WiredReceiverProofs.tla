------------------------- MODULE WiredReceiverProofs -------------------------
(***************************************************************************)
(* That the phone of the control session is the one whose leaving the      *)
(* receiver watches for, for any number of pluggings, requests and         *)
(* timeouts: a theorem about WiredReceiver.                                *)
(***************************************************************************)
EXTENDS WiredReceiver, TLAPS

Session ==
  [object : {"none", "held", "dead"}, up : BOOLEAN, stage : {"version", "tls", "secure"},
   recv : Nat, video : BOOLEAN, pending : BOOLEAN, stop : BOOLEAN, failed : BOOLEAN,
   worker : {"off", "wait", "ask", "ended"}, asked : BOOLEAN]

Ops == {"arrival", "ready", "left", "end", "respond"}
TaskSet == [op : Ops, phone : Phones]
EventSet == [kind : {"arrived", "left"}, phone : Phones]

(* Tasks and events only name phones that have been plugged in, so that     *)
(* active_address_ and control_session_ do.                                 *)
QueuesOK ==
  /\ io \in Seq(TaskSet)
  /\ hotplug \in Seq(EventSet)
  /\ bus \in [phone : {0} \cup Phones, plugs : 0 .. MaxPlugs]

ImplOK ==
  /\ impl \in [up : BOOLEAN, active : BOOLEAN, address : {0} \cup Phones,
               session : {0} \cup Phones]
  /\ hub \in BOOLEAN
  /\ told \in {"nothing", "connected", "disconnected"}
  /\ impl.session # 0 => impl.active /\ impl.address = impl.session

SessionsOK == sess \in [Phones -> Session]

ReceiverInv == QueuesOK /\ ImplOK /\ SessionsOK

-----------------------------------------------------------------------------
LEMMA PhonesFacts == 1 \in Phones /\ 0 \notin Phones /\ Phones \subseteq Nat
BY ReceiverAssumption DEF ReceiverAssumption, Phones

LEMMA SessionFacts ==
  /\ NoSession \in Session /\ NewSession \in Session
  /\ Failed([NewSession EXCEPT !.up = FALSE, !.recv = 0, !.video = FALSE]) \in Session
  /\ [NoSession EXCEPT !.object = "dead", !.worker = "ended"] \in Session
BY DEF NoSession, NewSession, Session, Failed

LEMMA TaskFacts ==
  ASSUME NEW op \in Ops, NEW p \in Phones
  PROVE  Task(op, p) \in TaskSet
BY DEF Task, TaskSet

LEMMA EndPostedFacts ==
  ASSUME NEW q \in Seq(TaskSet), NEW s, NEW p \in Phones
  PROVE  EndPosted(q, s, p) \in Seq(TaskSet)
BY TaskFacts DEF EndPosted, Ops

LEMMA FailedFacts ==
  ASSUME NEW s \in Session
  PROVE  Failed(s) \in Session
BY DEF Failed, Session

LEMMA QueueFacts ==
  ASSUME NEW S, NEW q \in Seq(S), q # <<>>
  PROVE  Head(q) \in S /\ Tail(q) \in Seq(S)
OBVIOUS

LEMMA InitReceiver == Init => ReceiverInv
<1> SUFFICES ASSUME Init PROVE ReceiverInv
  OBVIOUS
<1>1. PICK there \in {0, 1} :
        /\ bus = [phone |-> there, plugs |-> there]
        /\ io = IF there = 0 THEN <<>> ELSE <<Task("arrival", there)>>
  BY DEF Init
<1>2. io \in Seq(TaskSet)
  <2>1. there = 1 => Task("arrival", there) \in TaskSet
    BY PhonesFacts, TaskFacts DEF Ops
  <2> QED BY <1>1, <2>1
<1>3. there \in {0} \cup Phones /\ there \in 0 .. MaxPlugs
  BY PhonesFacts, ReceiverAssumption DEF ReceiverAssumption
<1>4. QueuesOK
  BY <1>1, <1>2, <1>3 DEF Init, QueuesOK
<1>5. ImplOK /\ SessionsOK
  BY SessionFacts DEF Init, ImplOK, SessionsOK
<1> QED BY <1>4, <1>5 DEF ReceiverInv

(* The cable and the thread of run_usb_events *)
LEMMA UsbKeeps ==
  ASSUME ReceiverInv, PlugIn \/ PullOut \/ UsbMoves
  PROVE  ReceiverInv'
<1>0. QueuesOK /\ ImplOK /\ SessionsOK
  BY DEF ReceiverInv
<1>1. CASE PlugIn
  <2>1. bus.plugs + 1 \in Phones /\ bus.plugs + 1 \in 0 .. MaxPlugs
    BY <1>0, <1>1, ReceiverAssumption DEF PlugIn, QueuesOK, ReceiverAssumption, Phones
  <2>2. QueuesOK'
    BY <1>0, <1>1, <2>1 DEF PlugIn, QueuesOK, Event, EventSet
  <2> QED BY <1>0, <1>1, <2>2 DEF PlugIn, ImplOK, SessionsOK, ReceiverInv
<1>2. CASE PullOut
  <2>1. bus.phone \in Phones
    BY <1>0, <1>2 DEF PullOut, QueuesOK
  <2>2. QueuesOK'
    <3>1. Event("left", bus.phone) \in EventSet
      BY <2>1 DEF Event, EventSet
    <3>2. hotplug' \in Seq(EventSet)
      BY <1>0, <1>2, <3>1 DEF PullOut, QueuesOK
    <3>3. bus' \in [phone : {0} \cup Phones, plugs : 0 .. MaxPlugs]
      BY <1>0, <1>2 DEF PullOut, QueuesOK
    <3> QED BY <1>0, <1>2, <3>2, <3>3 DEF PullOut, QueuesOK
  <2>3. SessionsOK'
    <3>0. sess[bus.phone] \in Session
      BY <1>0, <2>1 DEF SessionsOK
    <3>1. [sess[bus.phone] EXCEPT !.up = FALSE] \in Session
      BY <3>0 DEF Session
    <3>2. sess' = [sess EXCEPT ![bus.phone] = [sess[bus.phone] EXCEPT !.up = FALSE]]
      BY <1>2 DEF PullOut
    <3> QED BY <1>0, <2>1, <3>1, <3>2 DEF SessionsOK
  <2> QED BY <1>0, <1>2, <2>2, <2>3 DEF PullOut, ImplOK, ReceiverInv
<1>3. ASSUME NEW kind \in {"arrived", "left"}, NextEvent(kind)
      PROVE  /\ Head(hotplug).phone \in Phones /\ hotplug' \in Seq(EventSet)
             /\ UNCHANGED <<impl, bus, sess, told>>
  <2>1. Head(hotplug) \in EventSet /\ Tail(hotplug) \in Seq(EventSet)
    BY <1>0, <1>3, QueueFacts DEF NextEvent, QueuesOK
  <2> QED BY <1>3, <2>1 DEF NextEvent, EventSet
<1>4. CASE DeviceArrived
  <2> DEFINE phone == Head(hotplug).phone
             first == IF bus.phone = phone /\ ~impl.active
                      THEN <<Task("arrival", phone)>> ELSE <<>>
             second == IF bus.phone = phone /\ hub THEN <<Task("ready", phone)>> ELSE <<>>
  <2>1. /\ phone \in Phones /\ hotplug' \in Seq(EventSet)
        /\ UNCHANGED <<impl, bus, sess, told>>
    BY <1>3, <1>4 DEF DeviceArrived
  <2>2. first \in Seq(TaskSet) /\ second \in Seq(TaskSet)
    BY <2>1, TaskFacts DEF Ops
  <2>3. io' = io \o first \o second /\ hub' \in BOOLEAN
    BY <1>4 DEF DeviceArrived
  <2> HIDE DEF first, second
  <2>4. io' \in Seq(TaskSet)
    BY <1>0, <2>2, <2>3 DEF QueuesOK
  <2> QED BY <1>0, <2>1, <2>3, <2>4 DEF QueuesOK, ImplOK, SessionsOK, ReceiverInv
<1>5. CASE DeviceLeft
  <2>1. /\ Head(hotplug).phone \in Phones /\ hotplug' \in Seq(EventSet)
        /\ UNCHANGED <<impl, bus, sess, told>>
    BY <1>3, <1>5 DEF DeviceLeft
  <2>2. io' \in Seq(TaskSet) /\ UNCHANGED hub
    <3>1. UNCHANGED hub
      BY <1>5 DEF DeviceLeft
    <3>2. CASE impl.active /\ impl.address = Head(hotplug).phone
      <4>1. Task("left", impl.address) \in TaskSet
        BY <2>1, <3>2, TaskFacts DEF Ops
      <4>2. io' = Append(io, Task("left", impl.address))
        BY <1>5, <3>2 DEF DeviceLeft, Post
      <4> QED BY <1>0, <3>1, <4>1, <4>2 DEF QueuesOK
    <3>3. CASE ~ (impl.active /\ impl.address = Head(hotplug).phone)
      BY <1>0, <1>5, <3>1, <3>3 DEF DeviceLeft, QueuesOK
    <3> QED BY <3>2, <3>3
  <2> QED BY <1>0, <2>1, <2>2 DEF QueuesOK, ImplOK, SessionsOK, ReceiverInv
<1> QED BY <1>1, <1>2, <1>4, <1>5 DEF UsbMoves

(* The tasks: a phone is only taken while there is no session, and a        *)
(* session comes with the address of its phone.                             *)
LEMMA TasksKeep ==
  ASSUME ReceiverInv, Tasks
  PROVE  ReceiverInv'
<1>0. QueuesOK /\ ImplOK /\ SessionsOK
  BY DEF ReceiverInv
<1>1. /\ Phone \in Phones /\ Tail(io) \in Seq(TaskSet)
      /\ UNCHANGED <<bus, hotplug>>
  <2>1. io # <<>> /\ UNCHANGED <<bus, hotplug>>
    BY DEF Tasks, TakeArrival, PhoneReady, PhoneLeft, SessionEnd, Respond, Runs
  <2>2. Head(io) \in TaskSet /\ Tail(io) \in Seq(TaskSet)
    BY <1>0, <2>1, QueueFacts DEF QueuesOK
  <2> QED BY <2>1, <2>2 DEF Phone, TaskSet
<1>2. CASE TakeArrival
  <2>1. ImplOK'
    BY <1>0, <1>1, <1>2, PhonesFacts DEF TakeArrival, ImplOK
  <2> QED BY <1>0, <1>1, <1>2, <2>1 DEF TakeArrival, QueuesOK, SessionsOK, ReceiverInv
<1>3. CASE PhoneReady
  <2>1. ImplOK'
    BY <1>0, <1>1, <1>3 DEF PhoneReady, ImplOK
  <2>2. SessionsOK'
    BY <1>0, <1>1, <1>3, SessionFacts DEF PhoneReady, SessionsOK
  <2>3. io' \in Seq(TaskSet)
    BY <1>0, <1>1, <1>3, TaskFacts DEF PhoneReady, Ops
  <2> QED BY <1>0, <1>1, <2>1, <2>2, <2>3 DEF QueuesOK, ReceiverInv
<1>4. CASE PhoneLeft \/ SessionEnd
  <2>1. ImplOK'
    BY <1>0, <1>4 DEF PhoneLeft, SessionEnd, GiveUp, ImplOK
  <2> QED BY <1>0, <1>1, <1>4, <2>1
          DEF PhoneLeft, SessionEnd, QueuesOK, SessionsOK, ReceiverInv
<1>5. CASE Respond
  <2> DEFINE s == sess[Phone]
             listens == [s EXCEPT !.recv = @ + 1]
  <2>1. listens \in Session /\ [listens EXCEPT !.asked = FALSE] \in Session
    <3>1. s \in Session
      BY <1>0, <1>1 DEF SessionsOK
    <3>2. s.recv + 1 \in Nat
      BY <3>1 DEF Session
    <3> HIDE DEF s
    <3>3. listens \in Session
      BY <3>1, <3>2 DEF Session
    <3> QED BY <3>3 DEF Session
  <2>2. Failed(listens) \in Session
    BY <2>1, FailedFacts
  <2>3. SessionsOK'
    BY <1>0, <1>1, <1>5, <2>1, <2>2 DEF Respond, SessionsOK
  <2>4. io' \in Seq(TaskSet)
    BY ZenonT(40), <1>1, <1>5, EndPostedFacts DEF Respond
  <2> QED BY <1>0, <1>1, <1>5, <2>3, <2>4 DEF Respond, QueuesOK, ImplOK, ReceiverInv
<1> QED BY <1>2, <1>3, <1>4, <1>5 DEF Tasks

(* The handlers of a session and its worker change neither address. *)
LEMMA SessionKeeps ==
  ASSUME ReceiverInv, NEW p \in Phones, PhoneMessage(p) \/ Released(p) \/ Worker(p)
  PROVE  ReceiverInv'
<1>0. QueuesOK /\ ImplOK /\ SessionsOK /\ sess[p] \in Session
  BY DEF ReceiverInv, SessionsOK
<1>1. \E t \in Session : Becomes(p, t)
  <2>0. Hears(p) => sess[p].recv - 1 \in Nat
    BY <1>0 DEF Hears, Session
  <2>1. CASE Negotiated(p)
    <3> DEFINE t == [sess[p] EXCEPT !.stage = IF @ = "version" THEN "tls" ELSE "secure"]
    <3>2. t \in Session
      BY <1>0 DEF Session
    <3> QED BY <2>1, <3>2 DEF Negotiated
  <2>2. CASE DiscoveryRequest(p)
    <3> DEFINE t == [sess[p] EXCEPT !.recv = @ - 1, !.asked = TRUE,
                                !.pending = @ \/ ~sess[p].stop]
    <3>1. sess[p].recv - 1 \in Nat
      BY <2>0, <2>2 DEF DiscoveryRequest
    <3>2. t \in Session
      BY <1>0, <3>1 DEF Session
    <3> QED BY <2>2, <3>2 DEF DiscoveryRequest
  <2>3. CASE ByeBye(p)
    <3> DEFINE t == [sess[p] EXCEPT !.recv = @ - 1, !.stop = TRUE, !.up = FALSE]
    <3>1. sess[p].recv - 1 \in Nat
      BY <2>0, <2>3 DEF ByeBye
    <3>2. t \in Session
      BY <1>0, <3>1 DEF Session
    <3> QED BY <2>3, <3>2 DEF ByeBye
  <2>4. CASE Refused(p)
    <3> DEFINE t == [sess[p] EXCEPT !.recv = @ - 1]
    <3>1. sess[p].recv - 1 \in Nat
      BY <2>0, <2>4 DEF Refused
    <3>2. t \in Session
      BY <1>0, <3>1 DEF Session
    <3> HIDE DEF t
    <3>3. Failed(t) \in Session
      BY <3>2, FailedFacts
    <3> QED BY <2>4, <3>3 DEF Refused, Fails, t
  <2>5. CASE BadCodec(p)
    <3> DEFINE t == [sess[p] EXCEPT !.video = FALSE]
    <3>2. t \in Session
      BY <1>0 DEF Session
    <3> HIDE DEF t
    <3>3. Failed(t) \in Session
      BY <3>2, FailedFacts
    <3> QED BY <2>5, <3>3 DEF BadCodec, Fails, t
  <2>6. CASE Rejected(p)
    <3> DEFINE t == [sess[p] EXCEPT !.recv = 0, !.video = FALSE]
    <3>2. t \in Session
      BY <1>0 DEF Session
    <3> HIDE DEF t
    <3>3. Failed(t) \in Session
      BY <3>2, FailedFacts
    <3> QED BY <2>6, <3>3 DEF Rejected, Fails, t
  <2>7. CASE Dropped(p)
    <3> DEFINE t == [sess[p] EXCEPT !.recv = 0, !.video = FALSE]
    <3>2. t \in Session
      BY <1>0 DEF Session
    <3> QED BY <2>7, <3>2 DEF Dropped
  <2>8. CASE WorkerAsks(p)
    <3> DEFINE t == [sess[p] EXCEPT !.worker = "ask", !.pending = FALSE]
    <3>2. t \in Session
      BY <1>0 DEF Session
    <3> QED BY <2>8, <3>2 DEF WorkerAsks
  <2>9. CASE WorkerAnswers(p)
    <3> DEFINE t == [sess[p] EXCEPT !.worker = "wait"]
    <3>2. t \in Session
      BY <1>0 DEF Session
    <3> QED BY <2>9, <3>2 DEF WorkerAnswers
  <2>10. CASE WorkerEnds(p)
    <3> DEFINE t == [sess[p] EXCEPT !.worker = "ended"]
    <3>2. t \in Session
      BY <1>0 DEF Session
    <3> QED BY <2>10, <3>2 DEF WorkerEnds
  <2>11. CASE Destroyed(p)
    BY <2>11, SessionFacts DEF Destroyed
  <2> QED
    BY <2>1, <2>2, <2>3, <2>4, <2>5, <2>6, <2>7, <2>8, <2>9, <2>10, <2>11
    DEF PhoneMessage, Released, Worker
<1>2. io' \in Seq(TaskSet) /\ told' \in {told, "disconnected"}
  <2>1. CASE Refused(p) \/ BadCodec(p) \/ Rejected(p)
    <3>1. PICK t : Fails(p, t)
      BY <2>1 DEF Refused, BadCodec, Rejected
    <3> QED BY <1>0, <3>1, EndPostedFacts DEF Fails, QueuesOK
  <2>2. CASE WorkerAnswers(p)
    <3>1. Task("respond", p) \in TaskSet
      BY TaskFacts DEF Ops
    <3> QED BY <1>0, <2>2, <3>1 DEF WorkerAnswers, Post, QueuesOK
  <2>3. CASE UNCHANGED io /\ told' \in {told, "disconnected"}
    BY <1>0, <2>3 DEF QueuesOK
  <2> QED
    BY <2>1, <2>2, <2>3
    DEF PhoneMessage, Negotiated, DiscoveryRequest, ByeBye, Released, Dropped, Destroyed,
        Worker, WorkerAsks, WorkerEnds
<1>3. QueuesOK' /\ ImplOK'
  BY <1>0, <1>1, <1>2 DEF Becomes, QueuesOK, ImplOK
<1>4. SessionsOK'
  BY <1>0, <1>1 DEF Becomes, SessionsOK
<1> QED BY <1>3, <1>4 DEF ReceiverInv

LEMMA StopKeeps ==
  ASSUME ReceiverInv, Stop
  PROVE  ReceiverInv'
<1>0. QueuesOK /\ ImplOK /\ SessionsOK
  BY DEF ReceiverInv
<1>1. QueuesOK'
  <2>1. <<>> \in Seq(EventSet)
    OBVIOUS
  <2> QED BY <1>0, <2>1 DEF Stop, QueuesOK
<1>2. ImplOK'
  BY <1>0 DEF Stop, ImplOK
<1>3. \A p \in Phones : [sess[p] EXCEPT !.stop = TRUE, !.up = FALSE] \in Session
  <2> SUFFICES ASSUME NEW p \in Phones
               PROVE  [sess[p] EXCEPT !.stop = TRUE, !.up = FALSE] \in Session
    OBVIOUS
  <2>1. sess[p] \in Session
    BY <1>0 DEF SessionsOK
  <2> QED BY <2>1 DEF Session
<1>4. SessionsOK'
  BY <1>0, <1>3 DEF Stop, SessionsOK
<1> QED BY <1>1, <1>2, <1>4 DEF ReceiverInv

(* The inductive invariant holds in every run of the receiver. *)
THEOREM ReceiverInvariant == Spec => []ReceiverInv
<1>1. ReceiverInv /\ [Next]_vars => ReceiverInv'
  <2> SUFFICES ASSUME ReceiverInv, [Next]_vars PROVE ReceiverInv'
    OBVIOUS
  <2>1. CASE UNCHANGED vars
    BY <2>1 DEF vars, ReceiverInv, QueuesOK, ImplOK, SessionsOK
  <2> QED BY <2>1, UsbKeeps, TasksKeep, SessionKeeps, StopKeeps DEF Next
<1> QED BY <1>1, InitReceiver, PTL DEF Spec

(* Arrivals posted by the hotplug thread, resolved promises of the hub and  *)
(* ends of sessions never leave a control session whose phone's address     *)
(* device_event does not compare with.                                      *)
THEOREM PhoneWatched == Spec => []SessionWatched
<1>1. ReceiverInv => SessionWatched
  BY DEF ReceiverInv, QueuesOK, ImplOK, SessionsOK, Session, SessionWatched, TypeOK
<1> QED BY <1>1, ReceiverInvariant, PTL
=============================================================================
