---------------------------- MODULE CarPlaySession ----------------------------
(***************************************************************************)
(* One session of the CarPlay worker, run_bluetooth_worker: pairing, the   *)
(* driver loop of the iAP2 link with the two conversations on it           *)
(* (BootstrapSession, then CarPlayProbe), the change of Wi-Fi network, the *)
(* AirPlay phase with its one retry, and WifiCleanup.                      *)
(*                                                                         *)
(* The link (PhoneLink) is taken for what it promises: it is established   *)
(* or dies, it has a window, and it delivers packets of control messages   *)
(* in order.  The accessory (external) sends any message at any time, or,  *)
(* if it is cooperative, the right answer to every request.                *)
(***************************************************************************)
EXTENDS Integers, Sequences, FiniteSets

CONSTANTS
  UsedModes,   \* what the command line may ask for, some of Modes
  Windows,     \* messages the link may take without acknowledgement
  Environments, \* values of cooperative to consider
  MaxPackets   \* bound on packets the accessory sends

Modes == {"link", "bootstrap", "carplay", "wifi", "join", "bridge"}

ASSUME SessionAssumption ==
  /\ UsedModes \subseteq Modes
  /\ Windows \subseteq Nat \ {0}
  /\ Environments \subseteq BOOLEAN
  /\ MaxPackets \in Nat

VARIABLES
  mode,       \* what the command line asks for
  window,     \* the window of the link, the accessory's choice
  cooperative,\* does everything external work, and in time?
  pc,         \* where run_bluetooth_worker is
  ctl,        \* the link and what its callbacks change
  packets,    \* history: packets received
  late,       \* the deadline has passed
  stop,       \* shutdown_requested()
  attempts,   \* calls of run_session
  leaveFailed,\* history: leave_with_networkmanager failed
  result      \* what the session returned

given == <<mode, window, cooperative>>
vars == <<given, pc, ctl, packets, late, stop, attempts, leaveFailed, result>>

(* Every mode includes what the ones before it in Modes do. *)
Bootstrap == mode # "link"
CarPlay == mode \notin {"link", "bootstrap"}
RequestWifi == mode \in {"wifi", "join", "bridge"}
JoinWifi == mode \in {"join", "bridge"}

(* Control messages, with what matters of their parameters *)
AnswerTo ==
  [StartIdentification |-> "Identification", RequestCertificate |-> "Certificate",
   Challenge |-> "Response", RequestWifi |-> "WifiConfiguration",
   Availability |-> "StartSession"]
Requests == DOMAIN AnswerTo
Outgoing ==
  Requests \cup {"IdentificationAccepted", "AuthenticationSucceeded", "WirelessUpdate"}
Incoming ==
  {AnswerTo[m] : m \in Requests}
    \cup {"IdentificationRejected", "NoCertificate", "AuthenticationFailed",
          "BadResponse", "NoSsid", "StartSessionNoPort"}

Init ==
  /\ mode \in UsedModes
  /\ window \in Windows
  /\ cooperative \in Environments
  /\ pc = "pairing"
  /\ ctl = [link |-> "Negotiate",  \* the state of the link
            pending |-> 0,         \* messages without acknowledgement
            sent |-> {},           \* history: messages the link accepted
            ok |-> TRUE,           \* did it accept the last one?
            stage |-> "Idle",      \* stage_ of BootstrapSession
            verified |-> FALSE,    \* history: the signature was valid
            started |-> FALSE, awaiting |-> FALSE,  \* of CarPlayProbe
            done |-> FALSE, failed |-> FALSE,
            endpoint |-> "none",   \* airplay_host_ and airplay_port_
            joined |-> FALSE,      \* joined_ of WifiCleanup
            abandoned |-> FALSE,   \* history: nmcli gave up on a network
            wifi |-> "hotspot"]    \* what the interface is used for
  /\ packets = 0
  /\ late = FALSE
  /\ stop = FALSE
  /\ attempts = 0
  /\ leaveFailed = FALSE
  /\ result = "none"

-----------------------------------------------------------------------------
(* What a call may do to ctl, as the set of values it may leave there.      *)

Then(outcomes, Op(_)) == UNION {Op(c) : c \in outcomes}

(* Mutation: the window is one too wide *)
SendControlBeyond(c, m) ==
  IF c.link = "Normal" /\ c.pending <= window
  THEN {[c EXCEPT !.pending = @ + 1, !.sent = @ \cup {m}, !.ok = TRUE]}
  ELSE {[c EXCEPT !.ok = FALSE]}

(* PhoneLink::send_control *)
SendControl(c, m) ==
  IF c.link = "Normal" /\ c.pending < window
  THEN {[c EXCEPT !.pending = @ + 1, !.sent = @ \cup {m}, !.ok = TRUE]}
         \cup (IF cooperative THEN {}
               ELSE {[c EXCEPT !.link = "Dead", !.pending = 0, !.ok = FALSE]})
  ELSE {[c EXCEPT !.ok = FALSE]}

(* BootstrapSession::send_empty and the begin and handle that use it.       *)
SendEmpty(c, m) ==
  {IF d.ok THEN d ELSE [d EXCEPT !.stage = "Failed"] : d \in SendControl(c, m)}

BeginBootstrap(c) ==
  SendEmpty([c EXCEPT !.stage = "AwaitIdentification"], "StartIdentification")

(* Mutation: the certificate is not requested *)
IdentifiedOnly(c) ==
  {[d EXCEPT !.stage = "AwaitCertificate"] :
     d \in SendEmpty(c, "IdentificationAccepted")}

(* The stage that follows is set whether or not the messages could be sent. *)
Identified(c) ==
  LET Request(d) == SendEmpty(d, "RequestCertificate")
  IN  {[d EXCEPT !.stage = "AwaitCertificate"] :
         d \in Then(SendEmpty(c, "IdentificationAccepted"), Request)}

HandleBootstrap(c, m) ==
  CASE c.stage = "AwaitIdentification" /\ m = "Identification" -> Identified(c)
    [] c.stage = "AwaitCertificate" /\ m = "Certificate" ->
         {[d EXCEPT !.stage = IF d.ok THEN "AwaitResponse" ELSE "Failed"] :
            d \in SendControl(c, "Challenge")}
    [] c.stage = "AwaitResponse" /\ m = "Response" ->
         {[d EXCEPT !.stage = "Done", !.verified = TRUE] :
            d \in SendEmpty(c, "AuthenticationSucceeded")}
    [] \/ c.stage = "AwaitIdentification" /\ m = "IdentificationRejected"
       \/ c.stage = "AwaitCertificate" /\ m = "NoCertificate"
       \/ c.stage = "AwaitResponse" /\ m \in {"AuthenticationFailed", "BadResponse"}
         -> {[c EXCEPT !.stage = "Failed"]}
    [] OTHER -> {c}

(* CarPlayProbe *)
AskForWifi(c, started) ==
  {IF d.ok THEN [d EXCEPT !.awaiting = TRUE, !.started = @ \/ started]
           ELSE [d EXCEPT !.failed = TRUE] : d \in SendControl(c, "RequestWifi")}

BeginProbe(c) ==
  IF RequestWifi
  THEN AskForWifi(c, TRUE)
  ELSE {IF d.ok THEN [d EXCEPT !.started = TRUE] ELSE [d EXCEPT !.failed = TRUE] :
          d \in SendControl(c, "Availability")}

HandleStartSession(c, endpoint) ==
  LET d == [c EXCEPT !.endpoint = endpoint]
  IN  IF RequestWifi THEN AskForWifi(d, FALSE)
                         ELSE {[d EXCEPT !.done = TRUE]}

(* Mutation: the network is only marked as joined when it has an endpoint *)
JoinMarkedLate(c) ==
  {[c EXCEPT !.wifi = "accessory", !.joined = TRUE, !.endpoint = "joined", !.ok = TRUE]}
    \cup (IF cooperative THEN {}
          ELSE {[c EXCEPT !.ok = FALSE],
                [c EXCEPT !.ok = FALSE, !.wifi = "off"],
                [c EXCEPT !.ok = FALSE, !.wifi = "joining", !.abandoned = TRUE],
                [c EXCEPT !.ok = FALSE, !.wifi = "accessory"]})

(* The join handler: joining may fail before or after the interface has     *)
(* left its network; nmcli may give up after its thirty seconds, which      *)
(* counts as a failure, while NetworkManager still tries; and the           *)
(* accessory's network may have no endpoint.                                *)
Join(c) ==
  {[c EXCEPT !.wifi = "accessory", !.joined = TRUE, !.endpoint = "joined", !.ok = TRUE]}
    \cup (IF cooperative THEN {}
          ELSE {[c EXCEPT !.ok = FALSE],
                [c EXCEPT !.ok = FALSE, !.wifi = "off"],
                [c EXCEPT !.ok = FALSE, !.wifi = "joining", !.abandoned = TRUE],
                [c EXCEPT !.ok = FALSE, !.wifi = "accessory", !.joined = TRUE]})

HandleWifiConfiguration(c) ==
  LET Update(d) == IF d.ok THEN SendControl(d, "WirelessUpdate") ELSE {d}
  IN  IF JoinWifi
      THEN {IF d.ok THEN [d EXCEPT !.done = TRUE] ELSE [d EXCEPT !.failed = TRUE] :
              d \in Then(Join(c), Update)}
      ELSE {[c EXCEPT !.done = TRUE]}

HandleProbe(c, m) ==
  CASE m = "StartSession" -> HandleStartSession(c, "announced")
    [] m = "StartSessionNoPort" -> HandleStartSession(c, "none")
    [] m = "WifiConfiguration" /\ c.awaiting -> HandleWifiConfiguration(c)
    [] m = "NoSsid" /\ c.awaiting -> {[c EXCEPT !.failed = TRUE]}
    [] OTHER -> {c}

(* Mutation: the probe does not wait for the bootstrap to be done *)
ControlDataAtOnce(c, packet) ==
  LET Handle(d, m) == IF CarPlay /\ (c.started \/ c.stage # "AwaitIdentification")
                      THEN HandleProbe(d, m) ELSE HandleBootstrap(d, m)
      Second(d) == IF Len(packet) = 2 THEN Handle(d, packet[2]) ELSE {d}
  IN  Then(Handle(c, packet[1]), Second)

(* The control_data_ callback: a packet is of one or two messages, and goes *)
(* to one conversation, even if its first message ends that one.            *)
ControlData(c, packet) ==
  LET Handle(d, m) == IF CarPlay /\ c.stage = "Done"
                      THEN HandleProbe(d, m) ELSE HandleBootstrap(d, m)
      Second(d) == IF Len(packet) = 2 THEN Handle(d, packet[2]) ELSE {d}
  IN  Then(Handle(c, packet[1]), Second)

-----------------------------------------------------------------------------
(* ensure_bluez_pairing, connect_bluez_iap2 and link.start *)
Connect ==
  /\ pc = "pairing"
  /\ \/ /\ pc' = "loop"
        /\ UNCHANGED result
     \/ /\ ~ cooperative
        /\ pc' = "cleanup"
        /\ result' = "failed"
  /\ UNCHANGED <<given, ctl, packets, late, stop, attempts, leaveFailed>>

(* The condition of the driver loop *)
Goes ==
  /\ ~ late
  /\ ~ stop
  /\ ctl.link # "Dead"
  /\ Bootstrap =>
       IF CarPlay THEN ~ ctl.done /\ ~ ctl.failed
                             ELSE ctl.stage \notin {"Done", "Failed"}
  /\ ~ Bootstrap => ctl.link # "Normal"

LoopTest ==
  /\ pc = "loop"
  /\ pc' = IF Goes THEN "reading" ELSE "closed"
  /\ UNCHANGED <<given, ctl, packets, late, stop, attempts, leaveFailed, result>>

(* The accessory closes the connection. *)
ConnectionClosed ==
  /\ pc = "reading"
  /\ ~ cooperative
  /\ pc' = "closed"
  /\ UNCHANGED <<given, ctl, packets, late, stop, attempts, leaveFailed, result>>

(* link.receive or link.tick changes the state of the link. *)
LinkChanges(state) ==
  /\ pc = "reading"
  /\ \/ ctl.link = "Negotiate" /\ state = "Normal"
     \/ ctl.link # "Dead" /\ state = "Dead" /\ ~ cooperative
  /\ ctl' = [ctl EXCEPT !.link = state, !.pending = 0]
  /\ UNCHANGED <<given, pc, packets, late, stop, attempts, leaveFailed, result>>

(* Packets the accessory may send now *)
Packets ==
  IF cooperative
  THEN {<<AnswerTo[m]>> : m \in Requests \cap ctl.sent}
  ELSE {<<m>> : m \in Incoming} \cup (Incoming \X Incoming)

(* link.receive delivers a packet; it acknowledges some messages, all if it *)
(* is the answer to the last one.  One read may hold several packets.       *)
ReceivePacket ==
  /\ pc = "reading"
  /\ ctl.link = "Normal"
  /\ packets < MaxPackets \/ cooperative
  /\ packets' = IF cooperative THEN packets ELSE packets + 1
  /\ \E packet \in Packets, unacknowledged \in 0 .. ctl.pending :
       /\ cooperative => unacknowledged = 0
       /\ ctl' \in ControlData([ctl EXCEPT !.pending = unacknowledged], packet)
  /\ UNCHANGED <<given, pc, late, stop, attempts, leaveFailed, result>>

(* The rest of the loop's body *)
BeginNext ==
  /\ pc = "reading"
  /\ LET Probe(c) == IF CarPlay /\ c.stage = "Done" /\ ~ c.started
                     THEN BeginProbe(c) ELSE {c}
     IN  ctl' \in Then(IF /\ Bootstrap
                          /\ ctl.link = "Normal"
                          /\ ctl.stage = "Idle"
                       THEN BeginBootstrap(ctl) ELSE {ctl}, Probe)
  /\ pc' = "loop"
  /\ UNCHANGED <<given, packets, late, stop, attempts, leaveFailed, result>>

Achieved ==
  IF CarPlay THEN ctl.done
  ELSE IF Bootstrap THEN ctl.stage = "Done" ELSE ctl.link = "Normal"

Return(value) ==
  /\ pc' = "cleanup"
  /\ result' = value

(* Mutation: the end of the loop is taken for success *)
CloseLinkUnchecked ==
  /\ pc = "closed"
  /\ IF stop THEN Return("stopped") /\ UNCHANGED attempts
     ELSE pc' = "airplay" /\ attempts' = 1 /\ UNCHANGED result
  /\ UNCHANGED <<given, ctl, packets, late, stop, leaveFailed>>

(* After the loop *)
CloseLink ==
  /\ pc = "closed"
  /\ IF stop THEN Return("stopped") /\ UNCHANGED attempts
     ELSE IF mode = "bridge" /\ ctl.done /\ ctl.endpoint # "none"
     THEN pc' = "airplay" /\ attempts' = 1 /\ UNCHANGED result
     ELSE /\ Return(IF Achieved /\ mode # "bridge" THEN "ok" ELSE "failed")
          /\ UNCHANGED attempts
  /\ UNCHANGED <<given, ctl, packets, late, stop, leaveFailed>>

(* run_session ends; a failed first attempt is repeated after a second. *)
AirPlayEnds(ok) ==
  /\ pc = "airplay"
  /\ IF stop THEN Return("stopped")
     ELSE IF ~ ok /\ attempts = 1 THEN pc' = "pause" /\ UNCHANGED result
     ELSE Return(IF ok THEN "ok" ELSE "failed")
  /\ UNCHANGED <<given, ctl, packets, late, stop, attempts, leaveFailed>>

RetryAirPlay ==
  /\ pc = "pause"
  /\ IF stop
     THEN Return("stopped") /\ UNCHANGED attempts
     ELSE pc' = "airplay" /\ attempts' = attempts + 1 /\ UNCHANGED result
  /\ UNCHANGED <<given, ctl, packets, late, stop, leaveFailed>>

(* ~WifiCleanup leaves the accessory's network ...  *)
LeaveWifi ==
  /\ pc = "cleanup"
  /\ pc' = IF ctl.joined THEN "hotspot" ELSE "ended"
  /\ \/ /\ ctl' = IF ctl.joined THEN [ctl EXCEPT !.wifi = "off"] ELSE ctl
        /\ UNCHANGED leaveFailed
     \/ /\ ctl.joined
        /\ leaveFailed' = TRUE
        /\ UNCHANGED ctl
  /\ UNCHANGED <<given, packets, late, stop, attempts, result>>

(* ... and starts the management hotspot again. *)
RestoreHotspot ==
  /\ pc = "hotspot"
  /\ pc' = "ended"
  /\ ctl' \in {ctl, [ctl EXCEPT !.wifi = "hotspot"]}
  /\ UNCHANGED <<given, packets, late, stop, attempts, leaveFailed, result>>

(* NetworkManager (external) ends the activation nmcli has given up on,     *)
(* whether the session is still there or not.                               *)
ActivationEnds ==
  /\ ctl.wifi = "joining"
  /\ ctl' \in {[ctl EXCEPT !.wifi = w] : w \in {"accessory", "off"}}
  /\ UNCHANGED <<given, pc, packets, late, stop, attempts, leaveFailed, result>>

-----------------------------------------------------------------------------
(* Stop and deadline may come at any time; the daemon kills a worker that   *)
(* has not ended ten seconds after a stop.                                  *)
Over == pc \in {"ended", "killed"}

StopRequested ==
  /\ ~ stop /\ ~ Over
  /\ stop' = TRUE
  /\ UNCHANGED <<given, pc, ctl, packets, late, attempts, leaveFailed, result>>

(* The worker waits for the answer to a request it could not send. *)
Unasked == ctl.stage = "AwaitCertificate" /\ "RequestCertificate" \notin ctl.sent

(* A cooperative accessory is in time, if it has been asked. *)
DeadlinePasses ==
  /\ pc \in {"loop", "reading"} /\ ~ late
  /\ cooperative => Unasked
  /\ late' = TRUE
  /\ UNCHANGED <<given, pc, ctl, packets, stop, attempts, leaveFailed, result>>

Killed ==
  /\ stop /\ ~ Over
  /\ pc' = "killed"
  /\ UNCHANGED <<given, ctl, packets, late, stop, attempts, leaveFailed, result>>

Ended == Over /\ UNCHANGED vars

Loop ==
  \/ LoopTest \/ ConnectionClosed \/ BeginNext \/ ReceivePacket
  \/ \E state \in {"Normal", "Dead"} : LinkChanges(state)

AirPlay == \E ok \in BOOLEAN : AirPlayEnds(ok)

Next ==
  \/ Connect \/ Loop \/ CloseLink \/ AirPlay \/ RetryAirPlay
  \/ LeaveWifi \/ RestoreHotspot \/ ActivationEnds
  \/ StopRequested \/ DeadlinePasses \/ Killed \/ Ended

Spec == Init /\ [][Next]_vars

(* The worker's thread goes on and time passes; an accessory that           *)
(* cooperates establishes the link, and the answer that is waited for comes.*)
Fairness ==
  /\ WF_vars(Connect \/ CloseLink \/ RetryAirPlay \/ LeaveWifi \/ RestoreHotspot)
  /\ WF_vars(LoopTest)
  /\ WF_vars(BeginNext)
  /\ WF_vars(DeadlinePasses)
  /\ SF_vars(LinkChanges("Normal"))
  /\ SF_vars(/\ ReceivePacket
             /\ ctl'.stage # ctl.stage \/ ctl'.done # ctl.done)

FairSpec == Spec /\ Fairness

-----------------------------------------------------------------------------
Stages == {"Idle", "AwaitIdentification", "AwaitCertificate", "AwaitResponse",
           "Done", "Failed"}

(* Every variable keeps its type: the link never holds more messages than   *)
(* its window, AirPlay is tried at most twice.                              *)
TypeOK ==
  /\ mode \in Modes
  /\ window \in Nat \ {0}
  /\ cooperative \in BOOLEAN
  /\ pc \in {"pairing", "loop", "reading", "closed", "airplay", "pause",
             "cleanup", "hotspot", "ended", "killed"}
  /\ ctl \in [link : {"Negotiate", "Normal", "Dead"}, pending : 0 .. window,
              sent : SUBSET Outgoing, ok : BOOLEAN, stage : Stages,
              verified : BOOLEAN, started : BOOLEAN, awaiting : BOOLEAN,
              done : BOOLEAN, failed : BOOLEAN,
              endpoint : {"none", "announced", "joined"}, joined : BOOLEAN,
              abandoned : BOOLEAN,
              wifi : {"hotspot", "accessory", "joining", "off"}]
  /\ packets \in 0 .. MaxPackets
  /\ late \in BOOLEAN
  /\ stop \in BOOLEAN
  /\ attempts \in 0 .. 2
  /\ leaveFailed \in BOOLEAN
  /\ result \in {"none", "ok", "failed", "stopped"}

(* The interface joins no network of an accessory that has not proved its   *)
(* identity, in whatever order and packets its messages come; and AirPlay   *)
(* only runs with an authenticated accessory, over its network.             *)
AuthenticatedBeforeWifi ==
  /\ TypeOK
  /\ ctl.wifi # "hotspot" => ctl.verified
  /\ attempts > 0 => ctl.verified /\ ctl.joined /\ ctl.endpoint # "none"

(* However the driver loop or AirPlay ends, a session that has returned     *)
(* does not keep the interface in the accessory's network, unless leaving   *)
(* it failed, or it is there without the session's knowledge: after nmcli   *)
(* has given up, mark_joined is not called and WifiCleanup does nothing,    *)
(* also when the activation succeeds in the end.                            *)
WifiGivenBack ==
  pc = "ended" => \/ ctl.wifi # "accessory"
                  \/ leaveFailed
                  \/ ctl.abandoned /\ ~ ctl.joined

(* If all that is external works, a session gets what it was started for,   *)
(* unless it is asked to stop: no answer comes at a stage that ignores it.  *)
(* A window with room for one message does not take a reply of two: the     *)
(* session then fails, at the latest when its deadline passes, as the stage *)
(* set after the reply overwrites the failure to send it.                   *)
SessionCompletes ==
  cooperative ~> (\/ mode = "bridge" /\ attempts > 0
                  \/ mode # "bridge" /\ result = "ok"
                  \/ window = 1 /\ Bootstrap /\ result = "failed"
                  \/ stop)
=============================================================================
