------------------------- MODULE CarPlaySessionProofs -------------------------
(***************************************************************************)
(* That no session joins the network of an accessory before it has proved  *)
(* its identity, nor keeps the interface there: theorems about             *)
(* CarPlaySession for every window of the link, every number of packets    *)
(* and whatever the accessory sends.                                       *)
(*                                                                         *)
(* The lemmas follow the calls from send_control upwards: each says what a *)
(* call may leave of a well-formed state of the callbacks.                 *)
(***************************************************************************)
EXTENDS CarPlaySession, TLAPS

Ctl ==
  [link : {"Negotiate", "Normal", "Dead"}, pending : 0 .. window,
   sent : SUBSET Outgoing, ok : BOOLEAN, stage : Stages,
   verified : BOOLEAN, started : BOOLEAN, awaiting : BOOLEAN,
   done : BOOLEAN, failed : BOOLEAN,
   endpoint : {"none", "announced", "joined"}, joined : BOOLEAN,
   abandoned : BOOLEAN, wifi : {"hotspot", "accessory", "joining", "off"}]

(* What authentication has to do with the rest: the probe only runs after   *)
(* it, the interface is marked as joined when it is in the accessory's      *)
(* network, unless nmcli has given up on one, and a session that shall join *)
(* is only done when it has.                                                *)
Sound(c) ==
  /\ window \in Nat
  /\ c \in Ctl
  /\ c.stage = "Done" => c.verified
  /\ c.wifi # "hotspot" => c.verified
  /\ c.joined => c.verified
  /\ c.wifi \in {"accessory", "joining"} => c.joined \/ c.abandoned
  /\ c.done /\ JoinWifi => c.joined

(* A call of send_control changes the link only. *)
SameConversation(c, d) ==
  /\ d.stage = c.stage /\ d.verified = c.verified /\ d.started = c.started
  /\ d.awaiting = c.awaiting /\ d.done = c.done /\ d.failed = c.failed
  /\ d.endpoint = c.endpoint /\ d.joined = c.joined
  /\ d.abandoned = c.abandoned /\ d.wifi = c.wifi

(* Where the session is when AirPlay has been tried, and when the interface *)
(* has been left.                                                           *)
PhaseInv ==
  /\ attempts > 0 => /\ ctl.verified /\ ctl.joined /\ ctl.endpoint # "none"
                     /\ pc \notin {"pairing", "loop", "reading", "closed"}
  /\ pc = "airplay" => attempts > 0
  /\ pc = "pause" => attempts = 1
  /\ pc = "hotspot" => ctl.joined /\ (ctl.wifi = "off" \/ leaveFailed)
  /\ pc = "ended" => \/ ctl.wifi \notin {"accessory", "joining"}
                     \/ leaveFailed \/ ~ ctl.joined
  /\ WifiGivenBack

SessionInv == TypeOK /\ Sound(ctl) /\ PhaseInv

-----------------------------------------------------------------------------
LEMMA SendControlKeeps ==
  ASSUME window \in Nat, NEW c \in Ctl, NEW m \in Outgoing, NEW d \in SendControl(c, m)
  PROVE  d \in Ctl /\ SameConversation(c, d)
<1> DEFINE accepted == [c EXCEPT !.pending = @ + 1, !.sent = @ \cup {m}, !.ok = TRUE]
           broken == [c EXCEPT !.link = "Dead", !.pending = 0, !.ok = FALSE]
           refused == [c EXCEPT !.ok = FALSE]
<1>1. CASE d = accepted /\ c.pending < window
  <2>1. c.pending + 1 \in 0 .. window
    BY <1>1 DEF Ctl
  <2>2. accepted \in Ctl
    BY <2>1 DEF Ctl
  <2> QED BY <1>1, <2>2 DEF SameConversation, Ctl
<1>2. CASE d = broken
  <2>1. 0 \in 0 .. window
    OBVIOUS
  <2>2. broken \in Ctl
    BY <2>1 DEF Ctl
  <2> QED BY <1>2, <2>2 DEF SameConversation, Ctl
<1>3. CASE d = refused
  BY <1>3 DEF SameConversation, Ctl
<1> QED BY <1>1, <1>2, <1>3 DEF SendControl

LEMMA SendEmptyKeeps ==
  ASSUME NEW c, Sound(c), NEW m \in Outgoing, NEW d \in SendEmpty(c, m)
  PROVE  /\ Sound(d) /\ (c.verified => d.verified)
         /\ d.stage \in {c.stage, "Failed"}
<1>1. PICK e \in SendControl(c, m) : d = IF e.ok THEN e ELSE [e EXCEPT !.stage = "Failed"]
  BY DEF SendEmpty
<1>2. e \in Ctl /\ SameConversation(c, e)
  BY SendControlKeeps DEF Sound
<1>3. d \in Ctl
  BY <1>1, <1>2 DEF Ctl, Stages
<1> QED BY <1>1, <1>2, <1>3 DEF Sound, SameConversation, Ctl

LEMMA BeginBootstrapKeeps ==
  ASSUME NEW c, Sound(c), NEW d \in BeginBootstrap(c)
  PROVE  Sound(d) /\ (c.verified => d.verified)
<1> DEFINE e == [c EXCEPT !.stage = "AwaitIdentification"]
<1>1. Sound(e) /\ e.verified = c.verified
  BY DEF Sound, Ctl, Stages
<1>2. "StartIdentification" \in Outgoing
  BY DEF Outgoing, Requests, AnswerTo
<1> QED BY <1>1, <1>2, SendEmptyKeeps DEF BeginBootstrap

(* The only way to stage Done is a valid signature. *)
LEMMA HandleBootstrapKeeps ==
  ASSUME NEW c, Sound(c), NEW m, NEW d \in HandleBootstrap(c, m)
  PROVE  Sound(d) /\ (c.verified => d.verified)
<1>0. /\ {"IdentificationAccepted", "RequestCertificate", "Challenge",
          "AuthenticationSucceeded"} \subseteq Outgoing
      /\ c \in Ctl /\ window \in Nat
  BY DEF Outgoing, Requests, AnswerTo, Sound
<1>1. CASE c.stage = "AwaitIdentification" /\ m = "Identification"
  <2>1. d \in Identified(c)
    BY <1>1 DEF HandleBootstrap
  <2>2. PICK e \in SendEmpty(c, "IdentificationAccepted") :
          \E f \in SendEmpty(e, "RequestCertificate") :
            d = [f EXCEPT !.stage = "AwaitCertificate"]
    BY <2>1 DEF Identified, Then
  <2>3. PICK f \in SendEmpty(e, "RequestCertificate") :
          d = [f EXCEPT !.stage = "AwaitCertificate"]
    BY <2>2
  <2>4. Sound(e) /\ (c.verified => e.verified)
    BY <1>0, SendEmptyKeeps
  <2>5. Sound(f) /\ (e.verified => f.verified)
    BY <1>0, <2>4, SendEmptyKeeps
  <2> QED BY <2>3, <2>4, <2>5 DEF Sound, Ctl, Stages
<1>2. CASE c.stage = "AwaitCertificate" /\ m = "Certificate"
  <2>1. PICK e \in SendControl(c, "Challenge") :
          d = [e EXCEPT !.stage = IF e.ok THEN "AwaitResponse" ELSE "Failed"]
    BY <1>2 DEF HandleBootstrap
  <2>2. e \in Ctl /\ SameConversation(c, e)
    BY <1>0, SendControlKeeps
  <2>3. d \in Ctl
    BY <2>1, <2>2 DEF Ctl, Stages
  <2> QED BY <2>1, <2>2, <2>3 DEF Sound, SameConversation, Ctl
<1>3. CASE c.stage = "AwaitResponse" /\ m = "Response"
  <2>1. PICK e \in SendEmpty(c, "AuthenticationSucceeded") :
          d = [e EXCEPT !.stage = "Done", !.verified = TRUE]
    BY <1>3 DEF HandleBootstrap
  <2>2. Sound(e)
    BY <1>0, SendEmptyKeeps
  <2> QED BY <2>1, <2>2 DEF Sound, Ctl, Stages
<1>4. CASE d = [c EXCEPT !.stage = "Failed"]
  BY <1>0, <1>4 DEF Sound, Ctl, Stages
<1>5. CASE d = c
  BY <1>5
<1> QED BY <1>1, <1>2, <1>3, <1>4, <1>5 DEF HandleBootstrap

-----------------------------------------------------------------------------
LEMMA AskForWifiKeeps ==
  ASSUME NEW c, Sound(c), NEW started \in BOOLEAN, NEW d \in AskForWifi(c, started)
  PROVE  Sound(d) /\ (c.verified => d.verified)
<1>1. PICK e \in SendControl(c, "RequestWifi") :
        d = IF e.ok THEN [e EXCEPT !.awaiting = TRUE, !.started = @ \/ started]
                    ELSE [e EXCEPT !.failed = TRUE]
  BY DEF AskForWifi
<1>2. e \in Ctl /\ SameConversation(c, e)
  BY SendControlKeeps DEF Sound, Outgoing, Requests, AnswerTo
<1>3. d \in Ctl
  BY <1>1, <1>2 DEF Ctl
<1>4. /\ d.stage = e.stage /\ d.verified = e.verified /\ d.done = e.done
      /\ d.joined = e.joined /\ d.abandoned = e.abandoned /\ d.wifi = e.wifi
  <2>1. CASE e.ok
    BY <1>1, <1>2, <2>1 DEF Ctl
  <2>2. CASE ~ e.ok
    BY <1>1, <1>2, <2>2 DEF Ctl
  <2> QED BY <2>1, <2>2
<1> QED BY <1>2, <1>3, <1>4 DEF Sound, SameConversation

LEMMA BeginProbeKeeps ==
  ASSUME NEW c, Sound(c), NEW d \in BeginProbe(c)
  PROVE  Sound(d)
<1>1. CASE RequestWifi
  BY <1>1, AskForWifiKeeps DEF BeginProbe
<1>2. CASE ~ RequestWifi
  <2>1. PICK e \in SendControl(c, "Availability") :
          d = IF e.ok THEN [e EXCEPT !.started = TRUE] ELSE [e EXCEPT !.failed = TRUE]
    BY <1>2 DEF BeginProbe
  <2>2. e \in Ctl /\ SameConversation(c, e)
    BY SendControlKeeps DEF Sound, Outgoing, Requests, AnswerTo
  <2>3. d \in Ctl
    BY <2>1, <2>2 DEF Ctl
  <2> QED BY <2>1, <2>2, <2>3 DEF Sound, SameConversation, Ctl
<1> QED BY <1>1, <1>2

(* The join handler marks the interface, or nmcli has given up. *)
LEMMA JoinKeeps ==
  ASSUME NEW c, Sound(c), c.verified, NEW d \in Join(c)
  PROVE  Sound(d) /\ d.verified /\ (d.ok => d.joined)
<1>0. c \in Ctl
  BY DEF Sound
<1>1. CASE d = [c EXCEPT !.wifi = "accessory", !.joined = TRUE, !.endpoint = "joined",
                         !.ok = TRUE]
  BY <1>0, <1>1 DEF Sound, Ctl
<1>2. CASE d = [c EXCEPT !.ok = FALSE]
  BY <1>0, <1>2 DEF Sound, Ctl
<1>3. CASE d = [c EXCEPT !.ok = FALSE, !.wifi = "off"]
  BY <1>0, <1>3 DEF Sound, Ctl
<1>4. CASE d = [c EXCEPT !.ok = FALSE, !.wifi = "accessory", !.joined = TRUE]
  BY <1>0, <1>4 DEF Sound, Ctl
<1>5. CASE d = [c EXCEPT !.ok = FALSE, !.wifi = "joining", !.abandoned = TRUE]
  BY <1>0, <1>5 DEF Sound, Ctl
<1> QED BY <1>1, <1>2, <1>3, <1>4, <1>5 DEF Join

LEMMA HandleProbeKeeps ==
  ASSUME NEW c, Sound(c), c.verified, NEW m, NEW d \in HandleProbe(c, m)
  PROVE  Sound(d) /\ d.verified
<1>0. c \in Ctl
  BY DEF Sound
<1>1. ASSUME NEW endpoint \in {"announced", "none"}, d \in HandleStartSession(c, endpoint)
      PROVE  Sound(d) /\ d.verified
  <2> DEFINE e == [c EXCEPT !.endpoint = endpoint]
  <2>1. Sound(e) /\ e.verified
    BY <1>0 DEF Sound, Ctl
  <2>2. CASE RequestWifi
    BY <1>1, <2>1, <2>2, AskForWifiKeeps DEF HandleStartSession
  <2>3. CASE ~ RequestWifi
    <3>1. d = [e EXCEPT !.done = TRUE] /\ ~ JoinWifi
      BY <1>1, <2>3 DEF HandleStartSession, RequestWifi, JoinWifi
    <3> QED BY <2>1, <3>1 DEF Sound, Ctl
  <2> QED BY <2>2, <2>3
<1>2. ASSUME d \in HandleWifiConfiguration(c)
      PROVE  Sound(d) /\ d.verified
  <2>1. CASE ~ JoinWifi
    <3>1. d = [c EXCEPT !.done = TRUE]
      BY <1>2, <2>1 DEF HandleWifiConfiguration
    <3> QED BY <2>1, <3>1 DEF Sound, Ctl
  <2>2. CASE JoinWifi
    <3>1. PICK e \in Join(c) :
            \E f \in (IF e.ok THEN SendControl(e, "WirelessUpdate") ELSE {e}) :
              d = IF f.ok THEN [f EXCEPT !.done = TRUE] ELSE [f EXCEPT !.failed = TRUE]
      BY <1>2, <2>2 DEF HandleWifiConfiguration, Then
    <3>2. PICK f \in (IF e.ok THEN SendControl(e, "WirelessUpdate") ELSE {e}) :
            d = IF f.ok THEN [f EXCEPT !.done = TRUE] ELSE [f EXCEPT !.failed = TRUE]
      BY <3>1
    <3>3. Sound(e) /\ e.verified /\ (e.ok => e.joined)
      BY JoinKeeps
    <3>4. f \in Ctl /\ SameConversation(e, f) /\ (f.ok => e.joined)
      <4>1. CASE e.ok
        BY <3>2, <3>3, <4>1, SendControlKeeps DEF Sound, Outgoing
      <4>2. CASE ~ e.ok
        BY <3>2, <3>3, <4>2 DEF Sound, SameConversation
      <4> QED BY <4>1, <4>2
    <3>5. d \in Ctl
      BY <3>2, <3>4 DEF Ctl
    <3> QED BY <3>2, <3>3, <3>4, <3>5 DEF Sound, SameConversation, Ctl
  <2> QED BY <2>1, <2>2
<1>3. CASE d = [c EXCEPT !.failed = TRUE]
  BY <1>0, <1>3 DEF Sound, Ctl
<1>4. CASE d = c
  BY <1>4
<1> QED BY <1>1, <1>2, <1>3, <1>4 DEF HandleProbe

(* A packet goes to one conversation, and to the probe only when the        *)
(* accessory is verified; its second message finds it verified still.       *)
LEMMA ControlDataKeeps ==
  ASSUME NEW c, Sound(c), NEW packet, NEW d \in ControlData(c, packet)
  PROVE  Sound(d)
<1>1. CASE CarPlay /\ c.stage = "Done"
  <2>1. PICK e \in HandleProbe(c, packet[1]) :
          d \in (IF Len(packet) = 2 THEN HandleProbe(e, packet[2]) ELSE {e})
    BY <1>1 DEF ControlData, Then
  <2>2. Sound(e) /\ e.verified
    BY <1>1, HandleProbeKeeps DEF Sound
  <2> QED BY <2>1, <2>2, HandleProbeKeeps
<1>2. CASE ~ (CarPlay /\ c.stage = "Done")
  <2>1. PICK e \in HandleBootstrap(c, packet[1]) :
          d \in (IF Len(packet) = 2 THEN HandleBootstrap(e, packet[2]) ELSE {e})
    BY <1>2 DEF ControlData, Then
  <2>2. Sound(e)
    BY HandleBootstrapKeeps
  <2> QED BY <2>1, <2>2, HandleBootstrapKeeps
<1> QED BY <1>1, <1>2

-----------------------------------------------------------------------------
(* The state of the callbacks stays sound in every step. *)
LEMMA InitSound == Init => SessionInv
<1> SUFFICES ASSUME Init PROVE SessionInv
  OBVIOUS
<1>1. ctl \in Ctl /\ window \in Nat \ {0}
  <2>1. window \in Nat \ {0} /\ 0 \in 0 .. window
    BY SessionAssumption DEF SessionAssumption, Init
  <2> QED BY <2>1 DEF Init, Ctl, Stages
<1>2. TypeOK
  <2>1. 0 \in 0 .. MaxPackets /\ 0 \in 0 .. 2
    BY SessionAssumption DEF SessionAssumption
  <2>2. mode \in Modes /\ cooperative \in BOOLEAN
    BY SessionAssumption DEF SessionAssumption, Init
  <2> QED BY <1>1, <2>1, <2>2 DEF Init, TypeOK, Ctl
<1>3. Sound(ctl)
  BY <1>1 DEF Init, Sound
<1>4. PhaseInv
  BY DEF Init, PhaseInv, WifiGivenBack
<1> QED BY <1>2, <1>3, <1>4 DEF SessionInv

(* What a step has to show when the mode is the same *)
LEMMA SoundAfter ==
  ASSUME Sound(ctl'), UNCHANGED <<mode, window>>
  PROVE  Sound(ctl)'
BY DEF Sound, JoinWifi, Ctl, Stages, Outgoing, Requests, AnswerTo

(* The driver loop: AirPlay has not been tried. *)
LEMMA LoopKeeps ==
  ASSUME SessionInv, Loop
  PROVE  SessionInv'
<1>0. /\ TypeOK /\ Sound(ctl) /\ PhaseInv /\ ctl \in Ctl
      /\ pc \in {"loop", "reading"} /\ ~ (attempts > 0)
  BY DEF SessionInv, Sound, PhaseInv, Loop, LoopTest, ConnectionClosed, BeginNext,
         ReceivePacket, LinkChanges
<1>1. /\ UNCHANGED <<mode, window, cooperative, late, stop, attempts, leaveFailed, result>>
      /\ pc' \in {"loop", "reading", "closed"}
  BY <1>0 DEF Loop, LoopTest, ConnectionClosed, BeginNext, ReceivePacket, LinkChanges, given
<1>2. packets' \in 0 .. MaxPackets
  <2>1. CASE UNCHANGED packets
    BY <1>0, <2>1 DEF TypeOK
  <2>2. CASE packets' = packets + 1 /\ packets < MaxPackets
    BY <1>0, <2>2, SessionAssumption DEF TypeOK, SessionAssumption
  <2> QED
    BY <2>1, <2>2
    DEF Loop, LoopTest, ConnectionClosed, BeginNext, ReceivePacket, LinkChanges
<1>3. Sound(ctl')
  <2>1. CASE LoopTest \/ ConnectionClosed
    BY <1>0, <2>1 DEF LoopTest, ConnectionClosed
  <2>2. CASE BeginNext
    <3> DEFINE Probe(c) == IF CarPlay /\ c.stage = "Done" /\ ~ c.started
                           THEN BeginProbe(c) ELSE {c}
    <3>1. PICK c \in (IF Bootstrap /\ ctl.link = "Normal" /\ ctl.stage = "Idle"
                      THEN BeginBootstrap(ctl) ELSE {ctl}) : ctl' \in Probe(c)
      BY <2>2 DEF BeginNext, Then
    <3>2. Sound(c)
      BY <1>0, <3>1, BeginBootstrapKeeps
    <3> QED BY <3>1, <3>2, BeginProbeKeeps
  <2>3. CASE ReceivePacket
    <3>1. PICK packet \in Packets, unacknowledged \in 0 .. ctl.pending :
            ctl' \in ControlData([ctl EXCEPT !.pending = unacknowledged], packet)
      BY <2>3 DEF ReceivePacket
    <3>2. unacknowledged \in 0 .. window
      BY <1>0 DEF Ctl, Sound
    <3>3. Sound([ctl EXCEPT !.pending = unacknowledged])
      BY <1>0, <3>2 DEF Sound, Ctl
    <3> QED BY <3>1, <3>3, ControlDataKeeps
  <2>4. ASSUME NEW state \in {"Normal", "Dead"}, LinkChanges(state)
        PROVE  Sound(ctl')
    <3>1. 0 \in 0 .. window
      BY <1>0 DEF Sound
    <3>2. ctl' = [ctl EXCEPT !.link = state, !.pending = 0]
      BY <2>4 DEF LinkChanges
    <3> QED BY <1>0, <3>1, <3>2 DEF Sound, Ctl
  <2> QED BY <2>1, <2>2, <2>3, <2>4 DEF Loop
<1>4. Sound(ctl)'
  BY <1>1, <1>3, SoundAfter
<1>5. TypeOK'
  BY <1>0, <1>1, <1>2, <1>3 DEF TypeOK, Sound, Ctl, Stages, Outgoing, Requests, AnswerTo
<1>6. PhaseInv'
  BY <1>0, <1>1 DEF PhaseInv, WifiGivenBack
<1> QED BY <1>4, <1>5, <1>6 DEF SessionInv

(* From the end of the loop on, only WifiCleanup changes the interface. *)
LEMMA AfterLoopKeeps ==
  ASSUME SessionInv,
         \/ Connect \/ CloseLink \/ AirPlay \/ RetryAirPlay
         \/ StopRequested \/ DeadlinePasses \/ Killed
  PROVE  SessionInv'
<1>0. TypeOK /\ Sound(ctl) /\ PhaseInv
  BY DEF SessionInv
<1>1. UNCHANGED <<mode, window, cooperative, ctl, packets, leaveFailed>>
  BY DEF Connect, CloseLink, AirPlay, AirPlayEnds, RetryAirPlay, StopRequested,
         DeadlinePasses, Killed, given
<1>2. Sound(ctl)'
  BY <1>0, <1>1, SoundAfter
<1>3. attempts' \in 0 .. 2
  BY <1>0
  DEF Connect, CloseLink, AirPlay, AirPlayEnds, RetryAirPlay, StopRequested,
      DeadlinePasses, Killed, TypeOK, PhaseInv
<1>4. TypeOK'
  <2>1. late' \in BOOLEAN /\ stop' \in BOOLEAN
    BY <1>0
    DEF Connect, CloseLink, AirPlay, AirPlayEnds, RetryAirPlay, StopRequested,
        DeadlinePasses, Killed, TypeOK
  <2>2. result' \in {"none", "ok", "failed", "stopped"}
    BY <1>0
    DEF Connect, CloseLink, AirPlay, AirPlayEnds, RetryAirPlay, StopRequested,
        DeadlinePasses, Killed, TypeOK, Return
  <2>3. pc' \in {"pairing", "loop", "reading", "closed", "airplay", "pause",
                 "cleanup", "hotspot", "ended", "killed"}
    BY <1>0
    DEF Connect, CloseLink, AirPlay, AirPlayEnds, RetryAirPlay, StopRequested,
        DeadlinePasses, Killed, TypeOK, Return
  <2> QED BY <1>0, <1>1, <1>3, <2>1, <2>2, <2>3 DEF TypeOK
<1>5. PhaseInv'
  <2>1. CASE CloseLink
    <3>1. CASE attempts' = 1
      <4>1. mode = "bridge" /\ ctl.done /\ ctl.endpoint # "none" /\ pc' = "airplay"
        BY <1>0, <2>1, <3>1 DEF CloseLink, PhaseInv, TypeOK
      <4>2. ctl.joined /\ ctl.verified
        BY <1>0, <4>1 DEF Sound, JoinWifi
      <4> QED BY <1>1, <3>1, <4>1, <4>2 DEF PhaseInv, WifiGivenBack
    <3>2. CASE UNCHANGED attempts
      BY <1>0, <1>1, <2>1, <3>2 DEF CloseLink, PhaseInv, WifiGivenBack, Return
    <3> QED BY <2>1, <3>1, <3>2 DEF CloseLink
  <2>2. CASE AirPlay
    BY <1>0, <1>1, <2>2 DEF AirPlay, AirPlayEnds, PhaseInv, WifiGivenBack, Return
  <2>3. CASE RetryAirPlay
    BY <1>0, <1>1, <2>3 DEF RetryAirPlay, PhaseInv, WifiGivenBack, Return, TypeOK
  <2>4. CASE Connect \/ StopRequested \/ DeadlinePasses \/ Killed
    BY <1>0, <1>1, <2>4
    DEF Connect, StopRequested, DeadlinePasses, Killed, PhaseInv, WifiGivenBack
  <2> QED BY <2>1, <2>2, <2>3, <2>4
<1> QED BY <1>2, <1>4, <1>5 DEF SessionInv

LEMMA CleanupKeeps ==
  ASSUME SessionInv, LeaveWifi \/ RestoreHotspot
  PROVE  SessionInv'
<1>0. TypeOK /\ Sound(ctl) /\ PhaseInv /\ ctl \in Ctl
  BY DEF SessionInv, Sound
<1>1. /\ UNCHANGED <<mode, window, cooperative, packets, late, stop, attempts, result>>
      /\ pc' \in {"hotspot", "ended"}
  BY DEF LeaveWifi, RestoreHotspot, given
<1>2. \/ ctl' = ctl
      \/ ctl' = [ctl EXCEPT !.wifi = "off"] /\ ctl.joined
      \/ ctl' = [ctl EXCEPT !.wifi = "hotspot"]
  BY DEF LeaveWifi, RestoreHotspot
<1>3. Sound(ctl')
  BY <1>0, <1>2 DEF Sound, Ctl
<1>4. Sound(ctl)'
  BY <1>1, <1>3, SoundAfter
<1>5. TypeOK'
  <2>1. leaveFailed' \in BOOLEAN
    BY <1>0 DEF LeaveWifi, RestoreHotspot, TypeOK
  <2> QED
    BY <1>0, <1>1, <1>3, <2>1 DEF TypeOK, Sound, Ctl, Stages, Outgoing, Requests, AnswerTo
<1>6. ctl'.verified = ctl.verified /\ ctl'.joined = ctl.joined
      /\ ctl'.endpoint = ctl.endpoint
  BY <1>0, <1>2 DEF Ctl
<1>7. /\ pc' = "hotspot" => ctl'.joined /\ (ctl'.wifi = "off" \/ leaveFailed')
      /\ pc' = "ended" => \/ ctl'.wifi \notin {"accessory", "joining"}
                          \/ leaveFailed' \/ ~ ctl'.joined
  <2>1. CASE LeaveWifi
    BY <1>0, <2>1 DEF LeaveWifi, Sound, Ctl
  <2>2. CASE RestoreHotspot
    <3>1. ctl.wifi = "off" \/ leaveFailed
      BY <1>0, <2>2 DEF RestoreHotspot, PhaseInv
    <3> QED BY <1>0, <2>2, <3>1 DEF RestoreHotspot, Ctl
  <2> QED BY <2>1, <2>2
<1>8. PhaseInv'
  BY <1>0, <1>1, <1>3, <1>6, <1>7 DEF PhaseInv, WifiGivenBack, Sound
<1> QED BY <1>4, <1>5, <1>8 DEF SessionInv

(* An activation nmcli has given up on ends: either WifiCleanup has been    *)
(* told of a network, and its leaving failed, or it never will be.          *)
LEMMA ActivationKeeps ==
  ASSUME SessionInv, ActivationEnds
  PROVE  SessionInv'
<1>0. /\ TypeOK /\ Sound(ctl) /\ PhaseInv /\ ctl \in Ctl
      /\ ctl.wifi = "joining" /\ (ctl.joined \/ ctl.abandoned)
  BY DEF SessionInv, Sound, ActivationEnds
<1>1. UNCHANGED <<mode, window, cooperative, pc, packets, late, stop, attempts,
                  leaveFailed, result>>
  BY DEF ActivationEnds, given
<1>2. PICK w \in {"accessory", "off"} : ctl' = [ctl EXCEPT !.wifi = w]
  BY DEF ActivationEnds
<1>3. /\ ctl' \in Ctl /\ ctl'.wifi = w /\ ctl'.verified = ctl.verified
      /\ ctl'.joined = ctl.joined /\ ctl'.abandoned = ctl.abandoned
      /\ ctl'.endpoint = ctl.endpoint
      /\ ctl'.stage = ctl.stage /\ ctl'.done = ctl.done
  BY <1>0, <1>2 DEF Ctl
<1>4. Sound(ctl')
  BY <1>0, <1>3 DEF Sound
<1>5. Sound(ctl)'
  BY <1>1, <1>4, SoundAfter
<1>6. TypeOK'
  BY <1>0, <1>1, <1>3 DEF TypeOK, Ctl, Stages, Outgoing, Requests, AnswerTo
<1>7. PhaseInv'
  BY <1>0, <1>1, <1>3 DEF PhaseInv, WifiGivenBack
<1> QED BY <1>5, <1>6, <1>7 DEF SessionInv

-----------------------------------------------------------------------------
(* The inductive invariant holds in every run of the session. *)
THEOREM SessionInvariant == Spec => []SessionInv
<1>1. SessionInv /\ [Next]_vars => SessionInv'
  <2> SUFFICES ASSUME SessionInv, [Next]_vars PROVE SessionInv'
    OBVIOUS
  <2>1. CASE UNCHANGED vars
    BY <2>1
    DEF vars, given, SessionInv, TypeOK, Sound, PhaseInv, WifiGivenBack, JoinWifi, Ctl
  <2> QED
    BY <2>1, LoopKeeps, AfterLoopKeeps, CleanupKeeps, ActivationKeeps DEF Next, Ended
<1> QED BY <1>1, InitSound, PTL DEF Spec

(* Whatever the accessory sends, in whatever packets, the interface joins   *)
(* its network and AirPlay starts only after its signature was verified.    *)
THEOREM WifiNeedsAuthentication == Spec => []AuthenticatedBeforeWifi
<1>1. SessionInv => AuthenticatedBeforeWifi
  BY DEF SessionInv, Sound, PhaseInv, AuthenticatedBeforeWifi
<1> QED BY <1>1, SessionInvariant, PTL

(* However a session ends, short of being killed, ~WifiCleanup has taken    *)
(* the interface out of every network it was told had been joined, or       *)
(* failed trying; only a network that NetworkManager joins after nmcli has  *)
(* given up is kept.                                                        *)
THEOREM InterfaceGivenBack == Spec => []WifiGivenBack
<1>1. SessionInv => WifiGivenBack
  BY DEF SessionInv, PhaseInv
<1> QED BY <1>1, SessionInvariant, PTL
=============================================================================
