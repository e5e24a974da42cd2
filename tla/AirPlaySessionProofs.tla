------------------------- MODULE AirPlaySessionProofs -------------------------
(***************************************************************************)
(* Theorems about AirPlaySession for any set of accessories, any options   *)
(* and any number of access units: requests only go to the paired          *)
(* accessory, an answer is only taken for the request it answers, every    *)
(* session ends with one TEARDOWN and a true result, and the video stream  *)
(* starts with a keyframe.                                                 *)
(***************************************************************************)
EXTENDS AirPlaySession, SequenceTheorems, TLAPS

Peers == Accessories \cup {None}
Requests == [cseq : Nat, name : Names]
Parts == [cseq : Nat, name : Names, part : {"whole", "first", "second"}, ok : BOOLEAN]

(* The stages of run_session *)
Pairing == {"setup1", "setup3", "setup5", "verify1", "verify3"}
Requesting == {"request", "response", "timing", "event"}
Streaming == {"launch", "source", "blocked", "startup", "data", "first", "live", "file"}
Leaving == {"streams", "senders", "microphone", "channels", "returned"}

MainType ==
  [pc : {"connect"} \cup Pairing \cup Requesting \cup Streaming \cup Leaving,
   result : {-1, 0, 1}, options : Options, todo : Seq(Names), cseq : Nat,
   plain : Seq(Parts), answer : {<<>>} \cup (Names \X Names), pairing : Peers,
   streams : SUBSET (Optional \cup Senders), guarded : BOOLEAN, teardowns : {0, 1},
   recorded : BOOLEAN, halted : BOOLEAN, asked : SUBSET Threads,
   back : {"streams", "channels"}]

AccType ==
  [peer : Peers, open : BOOLEAN, intact : BOOLEAN, requests : Seq(Requests),
   frames : Seq(Seq(Parts))]

VideoType ==
  [next : Nat, config : BOOLEAN, started : BOOLEAN, key : Nat, sent : Seq(Nat),
   keys : SUBSET Nat, early : BOOLEAN]

StateOK ==
  /\ main \in MainType
  /\ acc \in AccType
  /\ record \in Peers
  /\ thread \in [Threads -> {"off", "launched", "blocked", "running", "waiting", "ended"}]
  /\ stop \in BOOLEAN /\ calls \in {1, 2}

(* What is left of the requests up to RECORD. *)
InOrder(q) ==
  /\ Len(q) > 0 /\ q[Len(q)] = "record"
  /\ \A i \in 1 .. Len(q) - 1 : q[i] \in Names \ {"record", "teardown"}

TodoInv ==
  /\ main.pc \in {"connect", "timing", "event"} \cup Pairing => InOrder(main.todo)
  /\ main.pc \in {"request", "response"} =>
       InOrder(main.todo) \/ (main.todo = <<"teardown">> /\ main.teardowns = 1)

(* The guards that are destroyed on the way out *)
EndInv ==
  /\ main.pc \in Streaming => main.recorded
  /\ main.result = 0 => main.recorded
  /\ thread["event"] # "off" => main.guarded
  /\ main.pc \in {"channels", "returned"} /\ main.guarded => main.teardowns = 1

(* The accessory at the other end is the one of the pairing. *)
Paired ==
  /\ main.pairing # None
  /\ acc.peer # None => acc.peer = main.pairing
  /\ PairingStore => record = main.pairing

PairInv ==
  /\ main.pc \in Pairing => acc.peer # None
  /\ main.pc \in {"verify1", "verify3"} =>
       main.pairing # None /\ (PairingStore => record = main.pairing)
  /\ main.pc = "verify3" => acc.peer = main.pairing
  /\ main.pc \in Requesting \cup Streaming => Paired
  /\ main.pc \in {"connect"} \cup Pairing => main.cseq = 5 /\ ~ main.guarded
  /\ main.guarded => Paired
  /\ main.cseq >= 5
  /\ main.cseq > 5 => Paired

(* An answer with the CSeq of the request that is waited for is its answer. *)
Fits(m, r) ==
  /\ r.cseq <= m.cseq
  /\ m.pc = "response" /\ r.cseq = m.cseq => r.name = m.todo[1]

Completes(p, q) == q.part = "second" /\ q.cseq = p.cseq /\ q.name = p.name

CSeqInv ==
  /\ \A i \in 1 .. Len(acc.requests) : Fits(main, acc.requests[i])
  /\ \A i \in 1 .. Len(acc.frames) :
       \A j \in 1 .. Len(acc.frames[i]) : Fits(main, acc.frames[i][j])
  /\ \A i \in 1 .. Len(main.plain) : Fits(main, main.plain[i])
  /\ main.answer # <<>> => main.answer[1] = main.answer[2]
  /\ main.pc = "returned" => acc.requests = <<>> /\ acc.frames = <<>>

(* The first part of an answer is followed by the second. *)
FramesPaired(frames) ==
  \A i \in 1 .. Len(frames) :
    /\ Len(frames[i]) \in {1, 2}
    /\ \A j \in 1 .. Len(frames[i]) :
         frames[i][j].part = "first" =>
           /\ Len(frames[i]) = 1 /\ i < Len(frames) /\ Len(frames[i + 1]) = 1
           /\ Completes(frames[i][j], frames[i + 1][1])

PlainPaired(plain, frames) ==
  \A i \in 1 .. Len(plain) :
    plain[i].part = "first" =>
      IF i < Len(plain) THEN Completes(plain[i], plain[i + 1])
      ELSE /\ Len(frames) > 0 /\ Len(frames[1]) = 1
           /\ Completes(plain[i], frames[1][1])

PartsInv ==
  /\ FramesPaired(acc.frames)
  /\ PlainPaired(main.plain, acc.frames)
  /\ main.pc # "response" => main.plain = <<>>

(* The keyframe kept is the last unit taken when the configuration is       *)
(* early, so that the live stream goes on with the unit after it.           *)
NothingSentYet ==
  \/ main.pc \in {"connect", "timing", "event", "launch"} \cup Pairing
  \/ main.pc \in {"request", "response"} /\ InOrder(main.todo)

VideoInv ==
  /\ NothingSentYet => video = NoVideo
  /\ video \in VideoType
  /\ IF video.started THEN video.key \in video.keys ELSE video.keys = {}
  /\ video.early /\ video.started => video.config /\ video.keys = {video.key}
  /\ main.pc \in {"source", "blocked", "startup", "first", "live"} => main.options.source = "live"
  /\ main.pc = "file" => main.options.source # "live"
  /\ main.pc \in {"source", "blocked", "startup", "data", "first"} =>
       /\ video.sent = <<>>
       /\ video.early /\ video.started => video.next = video.key + 1
  /\ main.pc \in {"data", "first"} /\ main.options.source = "live" => video.started
  /\ main.pc = "live" => video.sent # <<>>
  /\ main.options.source = "live" /\ video.sent # <<>> =>
       /\ video.started /\ video.sent[1] = video.key
       /\ video.early =>
            /\ \A i \in 2 .. Len(video.sent) : video.sent[i] = video.sent[i - 1] + 1
            /\ video.next = video.sent[Len(video.sent)] + 1

AirPlayInv ==
  StateOK /\ TodoInv /\ EndInv /\ PairInv /\ CSeqInv /\ PartsInv /\ VideoInv

-----------------------------------------------------------------------------
(* The requests of a session *)

LEMMA TodoInOrder ==
  ASSUME NEW streams
  PROVE  Todo(streams) \in Seq(Names) /\ InOrder(Todo(streams))
<1> DEFINE S == Names \ {"record", "teardown"}
           Asked(name) == IF name \in streams THEN <<name>> ELSE <<>>
           p == <<"info", "setup">> \o Asked("microphone") \o Asked("media")
                  \o Asked("guidance") \o Asked("system")
<1>1. ASSUME NEW name \in S PROVE Asked(name) \in Seq(S)
  <2>1. <<name>> \in Seq(S) /\ <<>> \in Seq(S)
    OBVIOUS
  <2> QED BY <2>1
<1>0. {"microphone", "media", "guidance", "system", "screen"} \subseteq S
  BY DEF Names, Optional
<1>2. <<"info", "setup">> \in Seq(S)
  BY DEF Names
<1> HIDE DEF Asked
<1>3. p \in Seq(S)
  <2>1. /\ Asked("microphone") \in Seq(S) /\ Asked("media") \in Seq(S)
        /\ Asked("guidance") \in Seq(S) /\ Asked("system") \in Seq(S)
    BY <1>0, <1>1
  <2> HIDE DEF S
  <2> QED BY <1>2, <2>1
<1>4. Todo(streams) = p \o <<"screen", "record">>
  BY DEF Todo, Asked
<1> HIDE DEF p
<1>5. "screen" \in S /\ "record" \in Names
  BY DEF Names
<1> HIDE DEF S
<1>6. /\ Len(p) \in Nat /\ Len(Todo(streams)) = Len(p) + 2
      /\ \A i \in 1 .. Len(p) : Todo(streams)[i] = p[i] /\ p[i] \in S
      /\ Todo(streams)[Len(p) + 1] = "screen" /\ Todo(streams)[Len(p) + 2] = "record"
  BY <1>3, <1>4
<1>7. InOrder(Todo(streams))
  <2>1. \A i \in 1 .. Len(p) + 1 : Todo(streams)[i] \in S
    <3> SUFFICES ASSUME NEW i \in 1 .. Len(p) + 1 PROVE Todo(streams)[i] \in S
      OBVIOUS
    <3>1. i \in 1 .. Len(p) \/ i = Len(p) + 1
      BY <1>6
    <3> QED BY <1>5, <1>6, <3>1
  <2> QED BY <1>6, <2>1 DEF InOrder, S
<1>8. Todo(streams) \in Seq(Names)
  <2>1. p \in Seq(Names)
    BY <1>3 DEF S
  <2>2. <<"screen", "record">> \in Seq(Names)
    BY <1>5 DEF S
  <2> QED BY <1>4, <2>1, <2>2
<1> QED BY <1>7, <1>8

(* A request that is not RECORD has another after it. *)
LEMMA InOrderTail ==
  ASSUME NEW q \in Seq(Names), InOrder(q), Head(q) # "record"
  PROVE  Tail(q) \in Seq(Names) /\ InOrder(Tail(q))
<1>1. Len(q) \in Nat /\ Len(q) > 0 /\ Head(q) = q[1] /\ q # <<>>
  BY DEF InOrder
<1>2. Len(q) > 1
  BY <1>1 DEF InOrder
<1>3. /\ Tail(q) \in Seq(Names) /\ Len(Tail(q)) = Len(q) - 1
      /\ \A i \in 1 .. Len(q) - 1 : Tail(q)[i] = q[i + 1]
  BY <1>1
<1> QED BY <1>1, <1>2, <1>3 DEF InOrder

LEMMA TeardownFacts ==
  /\ <<"teardown">> \in Seq(Names) /\ <<"teardown">> # <<>> /\ Head(<<"teardown">>) = "teardown"
  /\ <<"teardown">>[1] = "teardown" /\ ~ InOrder(<<"teardown">>)
BY DEF Names, InOrder

LEMMA HeadTodo ==
  ASSUME NEW q \in Seq(Names), InOrder(q) \/ q = <<"teardown">>
  PROVE  /\ q # <<>> /\ Head(q) \in Names /\ Head(q) = q[1]
         /\ q = <<"teardown">> => Head(q) = "teardown"
         /\ InOrder(q) => Head(q) # "teardown"
<1>1. CASE q = <<"teardown">>
  BY <1>1, TeardownFacts DEF Names
<1>2. CASE InOrder(q)
  <2>1. Len(q) \in Nat /\ Len(q) > 0 /\ q # <<>> /\ Head(q) = q[1] /\ q[1] \in Names
    BY <1>2 DEF InOrder
  <2>2. q[1] # "teardown"
    <3>1. CASE Len(q) = 1
      BY <1>2, <3>1 DEF InOrder
    <3>2. CASE Len(q) > 1
      BY <1>2, <2>1, <3>2 DEF InOrder
    <3> QED BY <2>1, <3>1, <3>2
  <2> QED BY <2>1, <2>2, TeardownFacts
<1> QED BY <1>1, <1>2

LEMMA FreshFacts ==
  ASSUME NEW options \in Options
  PROVE  FreshMain(options) \in MainType /\ InOrder(FreshMain(options).todo)
<1>1. Todo(options.streams) \in Seq(Names) /\ InOrder(Todo(options.streams))
  BY TodoInOrder
<1>2. <<>> \in Seq(Parts)
  OBVIOUS
<1> QED BY <1>1, <1>2 DEF FreshMain, MainType, Peers, Pairing, Requesting, Streaming, Leaving

LEMMA ReturnFacts ==
  ASSUME main \in MainType, NEW r \in {0, 1}
  PROVE  Return(r) \in MainType
<1>1. <<>> \in Seq(Names)
  OBVIOUS
<1> QED BY <1>1 DEF Return, MainType, Leaving

LEMMA TeardownType ==
  ASSUME NEW m \in MainType, NEW back \in {"streams", "channels"}
  PROVE  Teardown(m, back) \in MainType
<1>1. CASE m.teardowns > 0 \/ ~ m.guarded
  BY <1>1 DEF Teardown, MainType, Leaving
<1>2. CASE ~ (m.teardowns > 0 \/ ~ m.guarded)
  <2>1. Teardown(m, back) = [m EXCEPT !.pc = "request", !.todo = <<"teardown">>,
                                      !.teardowns = @ + 1, !.back = back]
    BY <1>2 DEF Teardown
  <2>2. m.teardowns + 1 \in {0, 1}
    BY <1>2 DEF MainType
  <2> QED BY ZenonT(40), <2>1, <2>2, TeardownFacts DEF MainType, Requesting
<1> QED BY <1>1, <1>2

-----------------------------------------------------------------------------
LEMMA InitAirPlay == Init => AirPlayInv
<1> SUFFICES ASSUME Init PROVE AirPlayInv
  OBVIOUS
<1>1. PICK options \in Options : main = FreshMain(options)
  BY DEF Init
<1>2. /\ main \in MainType /\ InOrder(main.todo) /\ main.pc = "connect" /\ main.result = -1
      /\ main.plain = <<>> /\ main.answer = <<>> /\ main.cseq = 5 /\ main.guarded = FALSE
  BY <1>1, FreshFacts DEF FreshMain
<1>3. StateOK
  <2>1. acc \in AccType
    <3>1. <<>> \in Seq(Requests) /\ <<>> \in Seq(Seq(Parts))
      OBVIOUS
    <3> QED BY <3>1 DEF Init, NoAccessory, AccType, Peers
  <2> QED BY <1>2, <2>1 DEF Init, StateOK, Peers
<1>4. TodoInv /\ EndInv /\ PairInv
  BY <1>2 DEF Init, TodoInv, EndInv, PairInv, Pairing, Requesting, Streaming, Threads
<1>5. CSeqInv /\ PartsInv
  BY <1>2 DEF Init, NoAccessory, CSeqInv, PartsInv, FramesPaired, PlainPaired
<1>6. VideoInv
  <2>1. <<>> \in Seq(Nat)
    OBVIOUS
  <2> QED BY <1>2, <2>1 DEF Init, NoVideo, VideoType, VideoInv
<1> QED BY <1>3, <1>4, <1>5, <1>6 DEF AirPlayInv

-----------------------------------------------------------------------------
(* Steps between requests leave what CSeqInv and PartsInv speak of alone. *)
QuietStep ==
  /\ main.pc # "response" /\ main'.pc \notin {"response", "returned"} /\ UNCHANGED acc
  /\ main'.cseq = main.cseq /\ main'.plain = main.plain /\ main'.answer = main.answer

LEMMA QuietFrame ==
  ASSUME CSeqInv, PartsInv, QuietStep
  PROVE  CSeqInv' /\ PartsInv'
<1>1. CSeqInv'
  BY DEF CSeqInv, QuietStep, Fits
<1>2. PartsInv'
  BY DEF PartsInv, QuietStep
<1> QED BY <1>1, <1>2

(* A return from anywhere *)
LEMMA ReturnKeeps ==
  ASSUME AirPlayInv, NEW r \in {0, 1}, r = 0 => main.recorded, main.pc # "response",
         main' = Return(r), UNCHANGED <<acc, record, thread, stop, video, calls>>
  PROVE  AirPlayInv'
<1>0. StateOK /\ TodoInv /\ EndInv /\ PairInv /\ CSeqInv /\ PartsInv /\ VideoInv
  BY DEF AirPlayInv
<1>1. /\ main'.pc = "streams" /\ main'.result = r /\ main'.options = main.options
      /\ main'.cseq = main.cseq /\ main'.plain = main.plain /\ main'.answer = main.answer
      /\ main'.pairing = main.pairing /\ main'.guarded = main.guarded
      /\ main'.recorded = main.recorded
  BY <1>0 DEF Return, StateOK, MainType
<1>2. StateOK'
  BY <1>0, ReturnFacts DEF StateOK
<1>3. TodoInv' /\ EndInv'
  BY <1>0, <1>1 DEF TodoInv, EndInv, Pairing, Streaming
<1>4. PairInv'
  BY <1>0, <1>1 DEF PairInv, Paired, Pairing, Requesting, Streaming
<1>5. QuietStep
  BY <1>1 DEF QuietStep
<1>6. VideoInv'
  BY <1>0, <1>1 DEF VideoInv, NothingSentYet, Pairing
<1> QED BY <1>0, <1>2, <1>3, <1>4, <1>5, <1>6, QuietFrame DEF AirPlayInv

(* send_teardown *)
LEMMA TeardownKeeps ==
  ASSUME AirPlayInv, NEW m \in {main, [main EXCEPT !.result = 0]},
         m.result = 0 => main.recorded,
         NEW back \in {"streams", "channels"}, main.pc \in Streaming \cup {"microphone"},
         main' = Teardown(m, back), UNCHANGED <<acc, record, stop, video, calls>>,
         thread' \in [Threads -> {"off", "launched", "blocked", "running", "waiting", "ended"}],
         thread'["event"] = thread["event"]
  PROVE  AirPlayInv'
<1>0. StateOK /\ TodoInv /\ EndInv /\ PairInv /\ CSeqInv /\ PartsInv /\ VideoInv
  BY DEF AirPlayInv
<1>1. /\ m \in MainType /\ m.pc = main.pc /\ m.options = main.options
      /\ m.cseq = main.cseq /\ m.plain = main.plain /\ m.answer = main.answer
      /\ m.pairing = main.pairing /\ m.guarded = main.guarded
      /\ m.recorded = main.recorded /\ m.teardowns = main.teardowns
      /\ m.teardowns \in {0, 1}
  BY SMTT(30), <1>0 DEF StateOK, MainType
<1>2. /\ main'.result = m.result /\ main'.options = main.options
      /\ main'.cseq = main.cseq /\ main'.plain = main.plain /\ main'.answer = main.answer
      /\ main'.pairing = main.pairing /\ main'.guarded = main.guarded
      /\ main'.recorded = main.recorded
  BY <1>1 DEF Teardown, MainType
<1>3. \/ main'.pc = back /\ main'.teardowns = main.teardowns
         /\ (main.guarded => main.teardowns = 1)
      \/ main'.pc = "request" /\ main'.todo = <<"teardown">> /\ main'.teardowns = 1
         /\ main.guarded
  BY <1>1 DEF Teardown, MainType
<1>4. StateOK'
  BY <1>0, <1>1, TeardownType DEF StateOK
<1>5. TodoInv' /\ EndInv'
  BY <1>0, <1>2, <1>3 DEF TodoInv, EndInv, Pairing, Streaming
<1>6. PairInv'
  BY <1>0, <1>2, <1>3 DEF PairInv, Paired, Pairing, Requesting, Streaming
<1>7. QuietStep
  BY <1>2, <1>3 DEF QuietStep, Streaming
<1>8. VideoInv'
  BY <1>0, <1>2, <1>3, TeardownFacts DEF VideoInv, NothingSentYet, Pairing
<1> QED BY <1>0, <1>4, <1>5, <1>6, <1>7, <1>8, QuietFrame DEF AirPlayInv

-----------------------------------------------------------------------------
(* Pairing *)

LEMMA PairSetupChallengeKeeps ==
  ASSUME AirPlayInv, PairSetupChallenge
  PROVE  AirPlayInv'
<1>0. StateOK /\ TodoInv /\ EndInv /\ PairInv /\ CSeqInv /\ PartsInv /\ VideoInv
  BY DEF AirPlayInv
<1>1. /\ main'.pc = "setup3" /\ main'.result = main.result
      /\ main'.options = main.options /\ main'.todo = main.todo
      /\ main'.cseq = main.cseq /\ main'.plain = main.plain
      /\ main'.answer = main.answer /\ main'.pairing = main.pairing
      /\ main'.streams = main.streams /\ main'.guarded = main.guarded
      /\ main'.teardowns = main.teardowns /\ main'.recorded = main.recorded
      /\ main'.halted = main.halted /\ main'.asked = main.asked
      /\ main'.back = main.back
  BY <1>0 DEF PairSetupChallenge, StateOK, MainType
<1>2. StateOK'
  BY <1>0 DEF PairSetupChallenge, StateOK, MainType, Pairing, Requesting, Streaming, Leaving
<1>3. TodoInv' /\ EndInv'
  BY <1>0, <1>1 DEF PairSetupChallenge, StateOK, TodoInv, EndInv, Pairing, Streaming
<1>4. PairInv'
  BY <1>0, <1>1 DEF PairSetupChallenge, PairInv, Paired, Pairing, Requesting, Streaming
<1>5. QuietStep
  BY <1>0, <1>1 DEF PairSetupChallenge, QuietStep
<1>6. VideoInv'
  BY <1>0, <1>1 DEF PairSetupChallenge, TodoInv, VideoInv, NothingSentYet, Pairing
<1> QED BY <1>0, <1>2, <1>3, <1>4, <1>5, <1>6, QuietFrame DEF AirPlayInv

LEMMA PairSetupProofKeeps ==
  ASSUME AirPlayInv, PairSetupProof
  PROVE  AirPlayInv'
<1>0. StateOK /\ TodoInv /\ EndInv /\ PairInv /\ CSeqInv /\ PartsInv /\ VideoInv
  BY DEF AirPlayInv
<1>1. /\ main'.pc = "setup5" /\ main'.result = main.result
      /\ main'.options = main.options /\ main'.todo = main.todo
      /\ main'.cseq = main.cseq /\ main'.plain = main.plain
      /\ main'.answer = main.answer /\ main'.pairing = main.pairing
      /\ main'.streams = main.streams /\ main'.guarded = main.guarded
      /\ main'.teardowns = main.teardowns /\ main'.recorded = main.recorded
      /\ main'.halted = main.halted /\ main'.asked = main.asked
      /\ main'.back = main.back
  BY <1>0 DEF PairSetupProof, StateOK, MainType
<1>2. StateOK'
  BY <1>0 DEF PairSetupProof, StateOK, MainType, Pairing, Requesting, Streaming, Leaving
<1>3. TodoInv' /\ EndInv'
  BY <1>0, <1>1 DEF PairSetupProof, StateOK, TodoInv, EndInv, Pairing, Streaming
<1>4. PairInv'
  BY <1>0, <1>1 DEF PairSetupProof, PairInv, Paired, Pairing, Requesting, Streaming
<1>5. QuietStep
  BY <1>0, <1>1 DEF PairSetupProof, QuietStep
<1>6. VideoInv'
  BY <1>0, <1>1 DEF PairSetupProof, TodoInv, VideoInv, NothingSentYet, Pairing
<1> QED BY <1>0, <1>2, <1>3, <1>4, <1>5, <1>6, QuietFrame DEF AirPlayInv

LEMMA PairVerifyAccessoryKeeps ==
  ASSUME AirPlayInv, PairVerifyAccessory
  PROVE  AirPlayInv'
<1>0. StateOK /\ TodoInv /\ EndInv /\ PairInv /\ CSeqInv /\ PartsInv /\ VideoInv
  BY DEF AirPlayInv
<1>1. /\ main'.pc = "verify3" /\ main'.result = main.result
      /\ main'.options = main.options /\ main'.todo = main.todo
      /\ main'.cseq = main.cseq /\ main'.plain = main.plain
      /\ main'.answer = main.answer /\ main'.pairing = main.pairing
      /\ main'.streams = main.streams /\ main'.guarded = main.guarded
      /\ main'.teardowns = main.teardowns /\ main'.recorded = main.recorded
      /\ main'.halted = main.halted /\ main'.asked = main.asked
      /\ main'.back = main.back
  BY <1>0 DEF PairVerifyAccessory, StateOK, MainType
<1>2. StateOK'
  BY <1>0 DEF PairVerifyAccessory, StateOK, MainType, Pairing, Requesting, Streaming, Leaving
<1>3. TodoInv' /\ EndInv'
  BY <1>0, <1>1 DEF PairVerifyAccessory, StateOK, TodoInv, EndInv, Pairing, Streaming
<1>4. PairInv'
  BY <1>0, <1>1 DEF PairVerifyAccessory, PairInv, Paired, Pairing, Requesting, Streaming
<1>5. QuietStep
  BY <1>0, <1>1 DEF PairVerifyAccessory, QuietStep
<1>6. VideoInv'
  BY <1>0, <1>1 DEF PairVerifyAccessory, TodoInv, VideoInv, NothingSentYet, Pairing
<1> QED BY <1>0, <1>2, <1>3, <1>4, <1>5, <1>6, QuietFrame DEF AirPlayInv

LEMMA PairVerifyControllerKeeps ==
  ASSUME AirPlayInv, PairVerifyController
  PROVE  AirPlayInv'
<1>0. StateOK /\ TodoInv /\ EndInv /\ PairInv /\ CSeqInv /\ PartsInv /\ VideoInv
  BY DEF AirPlayInv
<1>1. /\ main'.pc = "request" /\ main'.result = main.result
      /\ main'.options = main.options /\ main'.todo = main.todo
      /\ main'.cseq = main.cseq /\ main'.plain = main.plain
      /\ main'.answer = main.answer /\ main'.pairing = main.pairing
      /\ main'.streams = main.streams /\ main'.guarded = main.guarded
      /\ main'.teardowns = main.teardowns /\ main'.recorded = main.recorded
      /\ main'.halted = main.halted /\ main'.asked = main.asked
      /\ main'.back = main.back
  BY <1>0 DEF PairVerifyController, StateOK, MainType
<1>2. StateOK'
  BY <1>0 DEF PairVerifyController, StateOK, MainType, Pairing, Requesting, Streaming, Leaving
<1>3. TodoInv' /\ EndInv'
  BY <1>0, <1>1 DEF PairVerifyController, StateOK, TodoInv, EndInv, Pairing, Streaming
<1>4. PairInv'
  BY <1>0, <1>1 DEF PairVerifyController, PairInv, Paired, Pairing, Requesting, Streaming
<1>5. QuietStep
  BY <1>0, <1>1 DEF PairVerifyController, QuietStep
<1>6. VideoInv'
  BY <1>0, <1>1 DEF PairVerifyController, TodoInv, VideoInv, NothingSentYet, Pairing
<1> QED BY <1>0, <1>2, <1>3, <1>4, <1>5, <1>6, QuietFrame DEF AirPlayInv

LEMMA PairingFailsKeeps ==
  ASSUME AirPlayInv, PairingFails
  PROVE  AirPlayInv'
<1>1. main.pc # "response"
  BY DEF PairingFails
<1> QED BY <1>1, ReturnKeeps DEF PairingFails

LEMMA ConnectKeeps ==
  ASSUME AirPlayInv, Connect
  PROVE  AirPlayInv'
<1>0. StateOK /\ TodoInv /\ EndInv /\ PairInv /\ CSeqInv /\ PartsInv /\ VideoInv
  BY DEF AirPlayInv
<1>1. CASE main' = Return(1) /\ UNCHANGED acc
  BY <1>1, ReturnKeeps DEF Connect
<1>2. CASE \E peer \in Accessories :
             /\ acc' = [NoAccessory EXCEPT !.peer = peer, !.open = TRUE]
             /\ main' = IF record # None
                        THEN [main EXCEPT !.pc = "verify1", !.pairing = record]
                        ELSE [main EXCEPT !.pc = "setup1"]
  <2>1. PICK peer \in Accessories :
          /\ acc' = [NoAccessory EXCEPT !.peer = peer, !.open = TRUE]
          /\ main' = IF record # None
                     THEN [main EXCEPT !.pc = "verify1", !.pairing = record]
                     ELSE [main EXCEPT !.pc = "setup1"]
    BY <1>2
  <2>2. /\ main.pc = "connect" /\ UNCHANGED <<record, thread, stop, video, calls>>
        /\ main'.result = main.result /\ main'.options = main.options
        /\ main'.todo = main.todo /\ main'.cseq = main.cseq /\ main'.plain = main.plain
        /\ main'.answer = main.answer /\ main'.guarded = main.guarded
        /\ main'.recorded = main.recorded /\ main'.teardowns = main.teardowns
        /\ IF record # None THEN main'.pc = "verify1" /\ main'.pairing = record
           ELSE main'.pc = "setup1" /\ main'.pairing = main.pairing
    BY <1>0, <2>1 DEF Connect, StateOK, MainType
  <2>3. /\ acc'.peer = peer /\ peer # None /\ acc'.requests = <<>> /\ acc'.frames = <<>>
        /\ acc' \in AccType
    <3>1. <<>> \in Seq(Requests) /\ <<>> \in Seq(Seq(Parts))
      OBVIOUS
    <3> QED BY <2>1, <3>1, AirPlayAssumption DEF NoAccessory, AccType, Peers
  <2>4. StateOK'
    BY <1>0, <2>1, <2>2, <2>3 DEF StateOK, MainType, Pairing
  <2>5. TodoInv' /\ EndInv'
    BY <1>0, <2>2 DEF TodoInv, EndInv, Pairing, Streaming
  <2>6. PairInv'
    BY <1>0, <2>2, <2>3 DEF PairInv, Paired, Pairing, Requesting, Streaming
  <2>7. main.plain = <<>> /\ CSeqInv' /\ PartsInv'
    <3>1. main.plain = <<>>
      BY <1>0, <2>2 DEF PartsInv
    <3> QED BY <1>0, <2>2, <2>3, <3>1 DEF CSeqInv, PartsInv, FramesPaired, PlainPaired
  <2>8. VideoInv'
    BY <1>0, <2>2 DEF VideoInv, NothingSentYet, Pairing
  <2> QED BY <2>4, <2>5, <2>6, <2>7, <2>8 DEF AirPlayInv
<1> QED BY <1>1, <1>2 DEF Connect

LEMMA PairSetupIdentityKeeps ==
  ASSUME AirPlayInv, PairSetupIdentity
  PROVE  AirPlayInv'
<1>0. StateOK /\ TodoInv /\ EndInv /\ PairInv /\ CSeqInv /\ PartsInv /\ VideoInv
  BY DEF AirPlayInv
<1>1. CASE main' = Return(1) /\ UNCHANGED record
  BY <1>1, ReturnKeeps DEF PairSetupIdentity
<1>2. CASE /\ main' = [main EXCEPT !.pc = "verify1", !.pairing = acc.peer]
           /\ record' = IF PairingStore THEN acc.peer ELSE record
  <2>1. /\ main.pc = "setup5" /\ main'.pc = "verify1" /\ main'.pairing = acc.peer
        /\ main'.result = main.result /\ main'.options = main.options
        /\ main'.todo = main.todo /\ main'.cseq = main.cseq /\ main'.plain = main.plain
        /\ main'.answer = main.answer /\ main'.guarded = main.guarded
        /\ main'.recorded = main.recorded /\ main'.teardowns = main.teardowns
        /\ UNCHANGED <<acc, thread, stop, video, calls>>
    BY <1>0, <1>2 DEF PairSetupIdentity, StateOK, MainType
  <2>2. StateOK'
    BY <1>0, <1>2, <2>1 DEF StateOK, MainType, AccType, Pairing
  <2>3. TodoInv' /\ EndInv'
    BY <1>0, <2>1 DEF TodoInv, EndInv, Pairing, Streaming
  <2>4. PairInv'
    BY <1>0, <1>2, <2>1 DEF PairInv, Paired, Pairing, Requesting, Streaming
  <2>5. QuietStep
    BY <2>1 DEF QuietStep
  <2>6. VideoInv'
    BY <1>0, <2>1 DEF VideoInv, NothingSentYet, Pairing
  <2> QED BY <1>0, <2>2, <2>3, <2>4, <2>5, <2>6, QuietFrame DEF AirPlayInv
<1> QED BY <1>1, <1>2 DEF PairSetupIdentity

-----------------------------------------------------------------------------
(* The screen stream *)

LEMMA LaunchKeeps ==
  ASSUME AirPlayInv, Launch
  PROVE  AirPlayInv'
<1>0. StateOK /\ TodoInv /\ EndInv /\ PairInv /\ CSeqInv /\ PartsInv /\ VideoInv
  BY DEF AirPlayInv
<1>1. /\ main.pc = "launch" /\ main.recorded
      /\ thread' \in [Threads -> {"off", "launched", "blocked", "running", "waiting", "ended"}]
      /\ thread'["event"] = thread["event"]
      /\ UNCHANGED <<acc, record, stop, video, calls>>
  BY <1>0 DEF Launch, StateOK, EndInv, Streaming, Threads, Senders
<1>2. CASE main.options.source = "none"
  <2>1. main' = Teardown([main EXCEPT !.result = 0], "streams")
    BY <1>2 DEF Launch
  <2> QED BY <1>1, <2>1, TeardownKeeps DEF Streaming
<1>3. CASE main.options.source # "none"
  <2>1. main.options.source \in {"live", "file"}
    BY <1>0, <1>3, AirPlayAssumption DEF StateOK, MainType
  <2>2. main' = [main EXCEPT !.pc = IF main.options.source = "live" THEN "source" ELSE "data"]
    BY <2>1 DEF Launch
  <2>3. /\ main'.pc = IF main.options.source = "live" THEN "source" ELSE "data"
        /\ main'.result = main.result /\ main'.options = main.options
        /\ main'.todo = main.todo /\ main'.cseq = main.cseq /\ main'.plain = main.plain
        /\ main'.answer = main.answer /\ main'.guarded = main.guarded
        /\ main'.pairing = main.pairing
        /\ main'.recorded = main.recorded /\ main'.teardowns = main.teardowns
    BY <1>0, <2>2 DEF StateOK, MainType
  <2>4. StateOK'
    BY ZenonT(40), <1>0, <1>1, <2>2 DEF StateOK, MainType, Streaming
  <2>5. TodoInv' /\ EndInv'
    BY <1>0, <1>1, <2>3 DEF TodoInv, EndInv, Pairing, Streaming
  <2>6. PairInv'
    BY <1>0, <1>1, <2>3 DEF PairInv, Paired, Pairing, Requesting, Streaming
  <2>7. QuietStep
    BY <1>1, <2>3 DEF QuietStep
  <2>8. VideoInv'
    <3>1. video = NoVideo
      BY <1>0, <1>1 DEF VideoInv, NothingSentYet
    <3> QED BY <1>0, <1>1, <2>1, <2>3, <3>1 DEF VideoInv, NoVideo, NothingSentYet, Pairing
  <2> QED BY <1>0, <2>4, <2>5, <2>6, <2>7, <2>8, QuietFrame DEF AirPlayInv
<1> QED BY <1>2, <1>3

LEMMA SourceKeeps ==
  ASSUME AirPlayInv, ConnectSource \/ SourceConnected
  PROVE  AirPlayInv'
<1>0. StateOK /\ TodoInv /\ EndInv /\ PairInv /\ CSeqInv /\ PartsInv /\ VideoInv
  BY DEF AirPlayInv
<1>1. /\ main.pc \in {"source", "blocked"} /\ main.recorded
      /\ UNCHANGED <<acc, record, thread, stop, video, calls>>
  BY <1>0 DEF ConnectSource, SourceConnected, EndInv, Streaming
<1> DEFINE r == IF stop THEN 0 ELSE 1
<1>2. CASE main' = Return(r)
  <2>1. r \in {0, 1}
    OBVIOUS
  <2> HIDE DEF r
  <2> QED BY <1>1, <1>2, <2>1, ReturnKeeps
<1>3. ASSUME NEW pc \in {"startup", "blocked"}, main' = [main EXCEPT !.pc = pc]
      PROVE  AirPlayInv'
  <2>2. /\ main'.pc = pc
        /\ main'.result = main.result /\ main'.options = main.options
        /\ main'.todo = main.todo /\ main'.cseq = main.cseq /\ main'.plain = main.plain
        /\ main'.answer = main.answer /\ main'.guarded = main.guarded
        /\ main'.pairing = main.pairing
        /\ main'.recorded = main.recorded /\ main'.teardowns = main.teardowns
    BY <1>0, <1>3 DEF StateOK, MainType
  <2>4. StateOK'
    BY <1>0, <1>1, <1>3 DEF StateOK, MainType, Streaming
  <2>5. TodoInv' /\ EndInv'
    BY <1>0, <1>1, <1>3, <2>2 DEF TodoInv, EndInv, Pairing, Streaming
  <2>6. PairInv'
    BY <1>0, <1>1, <1>3, <2>2 DEF PairInv, Paired, Pairing, Requesting, Streaming
  <2>7. QuietStep
    BY <1>1, <2>2 DEF QuietStep
  <2>8. VideoInv'
    BY <1>0, <1>1, <1>3, <2>2 DEF VideoInv, NothingSentYet, Pairing
  <2> QED BY <1>0, <2>4, <2>5, <2>6, <2>7, <2>8, QuietFrame DEF AirPlayInv
<1> QED BY <1>2, <1>3 DEF ConnectSource, SourceConnected

LEMMA StartupUnitKeeps ==
  ASSUME AirPlayInv, StartupUnit
  PROVE  AirPlayInv'
<1>0. StateOK /\ TodoInv /\ EndInv /\ PairInv /\ CSeqInv /\ PartsInv /\ VideoInv
  BY DEF AirPlayInv
<1>1. main.pc = "startup" /\ UNCHANGED <<main, acc, record, thread, stop, calls>>
  BY DEF StartupUnit
<1>2. StateOK' /\ TodoInv' /\ EndInv' /\ PairInv'
  BY <1>0, <1>1 DEF StateOK, TodoInv, EndInv, PairInv, Paired
<1>3. QuietStep
  BY <1>1 DEF QuietStep
<1>4. VideoInv'
  <2>0. /\ video.next \in Nat /\ video.key \in Nat /\ video.sent = <<>>
        /\ video.config \in BOOLEAN /\ video.started \in BOOLEAN /\ video.early \in BOOLEAN
        /\ IF video.started THEN video.key \in video.keys ELSE video.keys = {}
        /\ video.early /\ video.started => video.config /\ video.keys = {video.key}
        /\ video.early /\ video.started => video.next = video.key + 1
        /\ main.options.source = "live" /\ ~ (video.config /\ video.started)
    BY <1>0, <1>1 DEF VideoInv, VideoType, StartupUnit
  <2>1. PICK kind \in Kinds :
          /\ kind = "config" => ~ video.config
          /\ video' = [Keep(video, kind) EXCEPT
                         !.config = @ \/ HasConfig(kind),
                         !.next = IF kind = "config" THEN @ ELSE @ + 1,
                         !.keys = IF IsKey(kind) THEN @ \cup {video.next} ELSE @,
                         !.early = @ /\ (IsKey(kind) => video.config \/ HasConfig(kind))]
    BY DEF StartupUnit
  <2>2. /\ video \in VideoType /\ kind \in {"config", "key", "keyconfig", "slice"}
        /\ IsKey(kind) \in BOOLEAN /\ HasConfig(kind) \in BOOLEAN
    BY <1>0, <2>1 DEF VideoInv, Kinds, IsKey, HasConfig
  <2>3. /\ video'.key = (IF IsKey(kind) THEN video.next ELSE video.key)
        /\ video'.started = (video.started \/ IsKey(kind))
        /\ video'.config = (video.config \/ HasConfig(kind))
        /\ video'.next = (IF kind = "config" THEN video.next ELSE video.next + 1)
        /\ video'.keys = (IF IsKey(kind) THEN video.keys \cup {video.next} ELSE video.keys)
        /\ video'.early = (video.early /\ (IsKey(kind) => video.config \/ HasConfig(kind)))
        /\ video'.sent = video.sent
    BY <2>1, <2>2 DEF Keep, VideoType
  <2>4. video' \in VideoType
    <3>1. Keep(video, kind) \in VideoType
      BY <2>2 DEF Keep, VideoType
    <3>2. video'.next \in Nat /\ video'.keys \in SUBSET Nat
      BY <2>2, <2>3 DEF VideoType
    <3> DEFINE k == Keep(video, kind)
    <3>4. k \in VideoType /\ k.config = video.config /\ k.next = video.next
          /\ k.keys = video.keys /\ k.early = video.early
      BY <2>2, <3>1 DEF Keep, VideoType
    <3>5. /\ video' = [k EXCEPT !.config = video'.config, !.next = video'.next,
                              !.keys = video'.keys, !.early = video'.early]
          /\ video'.config \in BOOLEAN /\ video'.early \in BOOLEAN
      BY <2>1, <2>2, <2>3, <3>4 DEF VideoType
    <3> HIDE DEF k
    <3> QED BY <3>2, <3>4, <3>5 DEF VideoType
  <2>5. IF video'.started THEN video'.key \in video'.keys ELSE video'.keys = {}
    BY <2>0, <2>2, <2>3
  <2>6. ASSUME video'.early, video'.started
        PROVE  /\ video'.config /\ video'.keys = {video'.key}
               /\ video'.next = video'.key + 1
    <3>1. video.early /\ ~ video.started
      BY <2>0, <2>2, <2>3, <2>6
    <3>2. IsKey(kind) /\ kind # "config"
      BY <2>2, <2>3, <2>6, <3>1 DEF IsKey
    <3> QED BY <2>0, <2>2, <2>3, <2>6, <3>1, <3>2
  <2>7. ~ NothingSentYet' /\ main'.pc = "startup" /\ main' = main
    BY <1>1 DEF NothingSentYet, Pairing
  <2> QED BY <2>0, <2>3, <2>4, <2>5, <2>6, <2>7 DEF VideoInv
<1> QED BY <1>0, <1>2, <1>3, <1>4, QuietFrame DEF AirPlayInv

LEMMA StartupEndsKeeps ==
  ASSUME AirPlayInv, StartupEnds
  PROVE  AirPlayInv'
<1>0. StateOK /\ TodoInv /\ EndInv /\ PairInv /\ CSeqInv /\ PartsInv /\ VideoInv
  BY DEF AirPlayInv
<1>1. main.pc = "startup" /\ main.recorded
  BY <1>0 DEF StartupEnds, EndInv, Streaming
<1>2. CASE ~ (video.config /\ video.started)
  <2> DEFINE r == IF stop THEN 0 ELSE 1
  <2>1. r \in {0, 1} /\ main' = Return(r)
    BY <1>2 DEF StartupEnds
  <2> HIDE DEF r
  <2> QED BY <1>1, <2>1, ReturnKeeps DEF StartupEnds
<1>3. CASE video.config /\ video.started
  <2>1. /\ main' = [main EXCEPT !.pc = "data"]
        /\ UNCHANGED <<acc, record, thread, stop, video, calls>>
    BY <1>3 DEF StartupEnds
  <2>2. /\ main'.pc = "data"
        /\ main'.result = main.result /\ main'.options = main.options
        /\ main'.todo = main.todo /\ main'.cseq = main.cseq /\ main'.plain = main.plain
        /\ main'.answer = main.answer /\ main'.guarded = main.guarded
        /\ main'.pairing = main.pairing
        /\ main'.recorded = main.recorded /\ main'.teardowns = main.teardowns
    BY <1>0, <1>3, <2>1 DEF StateOK, MainType
  <2>4. StateOK'
    BY <1>0, <1>3, <2>1 DEF StateOK, MainType, Streaming
  <2>5. TodoInv' /\ EndInv'
    BY <1>0, <1>1, <2>1, <2>2 DEF TodoInv, EndInv, Pairing, Streaming
  <2>6. PairInv'
    BY <1>0, <1>1, <2>1, <2>2 DEF PairInv, Paired, Pairing, Requesting, Streaming
  <2>7. QuietStep
    BY <1>1, <2>1, <2>2 DEF QuietStep
  <2>8. VideoInv'
    BY <1>0, <1>1, <1>3, <2>1, <2>2 DEF VideoInv, NothingSentYet, Pairing
  <2> QED BY <1>0, <2>4, <2>5, <2>6, <2>7, <2>8, QuietFrame DEF AirPlayInv
<1> QED BY <1>2, <1>3

LEMMA OpenDataKeeps ==
  ASSUME AirPlayInv, OpenData
  PROVE  AirPlayInv'
<1>0. StateOK /\ TodoInv /\ EndInv /\ PairInv /\ CSeqInv /\ PartsInv /\ VideoInv
  BY DEF AirPlayInv
<1>1. main.pc = "data" /\ main.recorded
  BY <1>0 DEF OpenData, EndInv, Streaming
<1>2. CASE main' = Return(1)
  BY <1>1, <1>2, ReturnKeeps DEF OpenData
<1>3. CASE main' = [main EXCEPT !.pc = IF main.options.source = "live" THEN "first" ELSE "file"]
  <2>1. UNCHANGED <<acc, record, thread, stop, video, calls>>
    BY DEF OpenData
  <2>2. /\ main'.pc = (IF main.options.source = "live" THEN "first" ELSE "file")
        /\ main'.result = main.result /\ main'.options = main.options
        /\ main'.todo = main.todo /\ main'.cseq = main.cseq /\ main'.plain = main.plain
        /\ main'.answer = main.answer /\ main'.guarded = main.guarded
        /\ main'.pairing = main.pairing
        /\ main'.recorded = main.recorded /\ main'.teardowns = main.teardowns
    BY <1>0, <1>3, <2>1 DEF StateOK, MainType
  <2>4. StateOK'
    BY ZenonT(40), <1>0, <1>3, <2>1 DEF StateOK, MainType, Streaming
  <2>5. TodoInv' /\ EndInv'
    BY <1>0, <1>1, <2>1, <2>2 DEF TodoInv, EndInv, Pairing, Streaming
  <2>6. PairInv'
    BY <1>0, <1>1, <2>1, <2>2 DEF PairInv, Paired, Pairing, Requesting, Streaming
  <2>7. QuietStep
    BY <1>1, <2>1, <2>2 DEF QuietStep
  <2>8. VideoInv'
    BY <1>0, <1>1, <2>1, <2>2 DEF VideoInv, NothingSentYet, Pairing
  <2> QED BY <1>0, <2>4, <2>5, <2>6, <2>7, <2>8, QuietFrame DEF AirPlayInv
<1> QED BY <1>2, <1>3 DEF OpenData

LEMMA SendUnitFailsKeeps ==
  ASSUME AirPlayInv, SendUnitFails
  PROVE  AirPlayInv'
<1>1. main.pc # "response"
  BY DEF SendUnitFails
<1> QED BY <1>1, ReturnKeeps DEF SendUnitFails

LEMMA SendFirstKeeps ==
  ASSUME AirPlayInv, SendFirst
  PROVE  AirPlayInv'
<1>0. StateOK /\ TodoInv /\ EndInv /\ PairInv /\ CSeqInv /\ PartsInv /\ VideoInv
  BY DEF AirPlayInv
<1>1. main.pc = "first" /\ main.recorded
  BY <1>0 DEF SendFirst, EndInv, Streaming
<1>3. /\ main' = [main EXCEPT !.pc = "live"]
      /\ video' = [video EXCEPT !.sent = Append(@, video.key)]
  BY DEF SendFirst
<1>4. QED
  <2>1. UNCHANGED <<acc, record, thread, stop, calls>>
    BY DEF SendFirst
  <2>2. /\ main'.pc = "live"
        /\ main'.result = main.result /\ main'.options = main.options
        /\ main'.todo = main.todo /\ main'.cseq = main.cseq /\ main'.plain = main.plain
        /\ main'.answer = main.answer /\ main'.guarded = main.guarded
        /\ main'.pairing = main.pairing
        /\ main'.recorded = main.recorded /\ main'.teardowns = main.teardowns
    BY <1>0, <1>3, <2>1 DEF StateOK, MainType
  <2>4. StateOK'
    BY <1>0, <1>3, <2>1 DEF StateOK, MainType, Streaming
  <2>5. TodoInv' /\ EndInv'
    BY <1>0, <1>1, <2>1, <2>2 DEF TodoInv, EndInv, Pairing, Streaming
  <2>6. PairInv'
    BY <1>0, <1>1, <2>1, <2>2 DEF PairInv, Paired, Pairing, Requesting, Streaming
  <2>7. QuietStep
    BY <1>1, <2>1, <2>2 DEF QuietStep
  <2>8. VideoInv'
    <3>1. /\ video \in VideoType /\ video.sent = <<>> /\ video.started
          /\ main.options.source = "live"
          /\ video.early /\ video.started => video.next = video.key + 1
      BY <1>0, <1>1 DEF VideoInv
    <3>0. /\ Append(<<>>, video.key) = <<video.key>> /\ video.key \in Nat
          /\ <<video.key>> \in Seq(Nat) /\ <<video.key>> # <<>>
          /\ Len(<<video.key>>) = 1 /\ <<video.key>>[1] = video.key
      <4>1. video.key \in Nat
        BY <3>1 DEF VideoType
      <4> QED BY <4>1
    <3>2. /\ video'.sent = <<video.key>> /\ video'.next = video.next
          /\ video'.key = video.key /\ video'.keys = video.keys
          /\ video'.early = video.early /\ video'.started = video.started
          /\ video'.config = video.config
      BY <1>3, <3>0, <3>1 DEF VideoType
    <3>3. /\ video' \in VideoType /\ video'.sent # <<>> /\ Len(video'.sent) = 1
          /\ video'.sent[1] = video.key
      BY <1>3, <3>0, <3>1, <3>2 DEF VideoType
    <3> QED BY <1>0, <2>2, <3>1, <3>2, <3>3 DEF VideoInv, NothingSentYet, Pairing
  <2> QED BY <1>0, <2>4, <2>5, <2>6, <2>7, <2>8, QuietFrame DEF AirPlayInv

LEMMA SendUnitKeeps ==
  ASSUME AirPlayInv, SendUnit
  PROVE  AirPlayInv'
<1>0. StateOK /\ TodoInv /\ EndInv /\ PairInv /\ CSeqInv /\ PartsInv /\ VideoInv
  BY DEF AirPlayInv
<1>1. main.pc \in {"live", "file"} /\ UNCHANGED <<main, acc, record, thread, stop, calls>>
  BY DEF SendUnit
<1>2. StateOK' /\ TodoInv' /\ EndInv' /\ PairInv'
  BY <1>0, <1>1 DEF StateOK, TodoInv, EndInv, PairInv, Paired
<1>3. QuietStep
  BY <1>1 DEF QuietStep
<1>4. VideoInv'
  <2>1. /\ video \in VideoType
        /\ video' = [video EXCEPT !.sent = Append(@, video.next), !.next = @ + 1]
    BY <1>0 DEF VideoInv, SendUnit
  <2>0. video.sent \in Seq(Nat) /\ video.next \in Nat
    BY <2>1 DEF VideoType
  <2>6. Append(video.sent, video.next) \in Seq(Nat) /\ video.next + 1 \in Nat
    BY <2>0
  <2>2. /\ video'.sent = Append(video.sent, video.next) /\ video'.next = video.next + 1
        /\ video'.key = video.key /\ video'.keys = video.keys
        /\ video'.early = video.early /\ video'.started = video.started
        /\ video'.config = video.config /\ video' \in VideoType
    BY <2>1, <2>6 DEF VideoType
  <2>3. /\ Len(video.sent) \in Nat /\ Len(video'.sent) = Len(video.sent) + 1
        /\ \A i \in 1 .. Len(video.sent) : video'.sent[i] = video.sent[i]
        /\ video'.sent[Len(video.sent) + 1] = video.next
        /\ video.sent # <<>> => Len(video.sent) > 0
        /\ video'.sent # <<>>
    BY <2>0, <2>2
  <2>4. ~ NothingSentYet'
    BY <1>1 DEF NothingSentYet, Pairing
  <2>5. ASSUME main.options.source = "live"
        PROVE  /\ video'.started /\ video'.sent[1] = video'.key
               /\ video'.early =>
                    /\ \A i \in 2 .. Len(video'.sent) :
                         video'.sent[i] = video'.sent[i - 1] + 1
                    /\ video'.next = video'.sent[Len(video'.sent)] + 1
    <3>1. /\ video.sent # <<>> /\ video.started /\ video.sent[1] = video.key
          /\ video.early =>
               /\ \A i \in 2 .. Len(video.sent) : video.sent[i] = video.sent[i - 1] + 1
               /\ video.next = video.sent[Len(video.sent)] + 1
      BY <1>0, <1>1, <2>5 DEF VideoInv
    <3>2. video'.started /\ video'.sent[1] = video'.key
      BY <2>2, <2>3, <3>1
    <3>3. ASSUME video.early, NEW i \in 2 .. Len(video'.sent)
          PROVE  video'.sent[i] = video'.sent[i - 1] + 1
      <4>1. CASE i \in 2 .. Len(video.sent)
        <5>1. i \in 1 .. Len(video.sent) /\ i - 1 \in 1 .. Len(video.sent)
          BY <2>3, <4>1
        <5> QED BY <2>3, <3>1, <3>3, <4>1, <5>1
      <4>2. CASE i = Len(video.sent) + 1
        <5>1. i - 1 = Len(video.sent) /\ Len(video.sent) \in 1 .. Len(video.sent)
          BY <2>3, <3>1, <4>2
        <5> QED BY <2>3, <3>1, <3>3, <4>2, <5>1
      <4> QED BY <2>3, <4>1, <4>2
    <3> QED BY <2>2, <2>3, <3>2, <3>3
  <2> QED BY <1>0, <1>1, <2>2, <2>3, <2>4, <2>5 DEF VideoInv
<1> QED BY <1>0, <1>2, <1>3, <1>4, QuietFrame DEF AirPlayInv

LEMMA VideoEndsKeeps ==
  ASSUME AirPlayInv, VideoEnds
  PROVE  AirPlayInv'
<1>0. StateOK /\ EndInv
  BY DEF AirPlayInv
<1>1. main.pc \in {"live", "file"} /\ main.recorded
  BY <1>0 DEF VideoEnds, EndInv, Streaming
<1>2. CASE main.pc = "file" /\ stop
  BY <1>1, <1>2, ReturnKeeps DEF VideoEnds
<1>3. CASE ~ (main.pc = "file" /\ stop)
  <2>1. main' = Teardown([main EXCEPT !.result = 0], "streams")
    BY <1>3 DEF VideoEnds
  <2> QED BY <1>0, <1>1, <2>1, TeardownKeeps DEF VideoEnds, StateOK, Streaming
<1> QED BY <1>2, <1>3

-----------------------------------------------------------------------------
(* The frames of the control connection *)

LEMMA Beyond ==
  ASSUME NEW n \in Nat, NEW k \in Nat, NEW i \in 1 .. (n + k), i > n
  PROVE  i - n \in 1 .. k /\ i = n + (i - n)
OBVIOUS

LEMMA OneOrTwo ==
  ASSUME NEW n \in {1, 2}
  PROVE  n \in Nat /\ n >= 1 /\ 1 \in 1 .. n
OBVIOUS

LEMMA FrameTaken ==
  ASSUME NEW plain \in Seq(Parts), NEW frames \in Seq(Seq(Parts)), frames # <<>>,
         FramesPaired(frames), PlainPaired(plain, frames)
  PROVE  /\ Tail(frames) \in Seq(Seq(Parts)) /\ plain \o Head(frames) \in Seq(Parts)
         /\ FramesPaired(Tail(frames))
         /\ PlainPaired(plain \o Head(frames), Tail(frames))
<1> DEFINE h == Head(frames)
           t == Tail(frames)
           p == plain \o h
<1>1. /\ Len(frames) \in Nat /\ Len(frames) > 0 /\ h = frames[1] /\ h \in Seq(Parts)
      /\ t \in Seq(Seq(Parts)) /\ Len(t) = Len(frames) - 1
      /\ \A i \in 1 .. Len(frames) - 1 : t[i] = frames[i + 1]
  OBVIOUS
<1> HIDE DEF h, t
<1>2. /\ p \in Seq(Parts) /\ Len(p) = Len(plain) + Len(h) /\ Len(plain) \in Nat /\ Len(h) \in Nat
      /\ \A i \in 1 .. Len(plain) : p[i] = plain[i]
      /\ \A i \in 1 .. Len(h) : p[Len(plain) + i] = h[i]
  BY <1>1
<1> HIDE DEF p
<1>3. FramesPaired(t)
  <2> SUFFICES ASSUME NEW i \in 1 .. Len(t)
               PROVE  /\ Len(t[i]) \in {1, 2}
                      /\ \A j \in 1 .. Len(t[i]) :
                           t[i][j].part = "first" =>
                             /\ Len(t[i]) = 1 /\ i < Len(t) /\ Len(t[i + 1]) = 1
                             /\ Completes(t[i][j], t[i + 1][1])
    BY DEF FramesPaired
  <2>1. /\ t[i] = frames[i + 1] /\ i + 1 \in 1 .. Len(frames)
        /\ i + 1 < Len(frames) => i < Len(t) /\ t[i + 1] = frames[i + 1 + 1]
    <3>1. i \in 1 .. Len(frames) - 1 /\ i + 1 \in 1 .. Len(frames)
      BY <1>1
    <3>2. i + 1 < Len(frames) => i + 1 \in 1 .. Len(frames) - 1 /\ i < Len(t)
      BY <1>1
    <3> QED BY <1>1, <3>1, <3>2
  <2> QED BY <2>1 DEF FramesPaired
<1>4. Len(h) \in {1, 2} /\ \A j \in 1 .. Len(h) : h[j].part = "first" =>
        /\ Len(h) = 1 /\ Len(t) > 0 /\ Len(t[1]) = 1 /\ Completes(h[j], t[1][1])
  <2>1. 1 \in 1 .. Len(frames)
    BY <1>1
  <2>2. 1 < Len(frames) => t[1] = frames[1 + 1] /\ Len(t) > 0
    BY <1>1
  <2> QED BY <1>1, <2>1, <2>2 DEF FramesPaired
<1>5. PlainPaired(p, t)
  <2> SUFFICES ASSUME NEW i \in 1 .. Len(p), p[i].part = "first"
               PROVE  IF i < Len(p) THEN Completes(p[i], p[i + 1])
                      ELSE Len(t) > 0 /\ Len(t[1]) = 1 /\ Completes(p[i], t[1][1])
    BY DEF PlainPaired
  <2>1. CASE i < Len(plain)
    <3>1. i \in 1 .. Len(plain) /\ i + 1 \in 1 .. Len(plain) /\ i < Len(p)
      BY <1>2, <2>1
    <3>2. p[i] = plain[i] /\ p[i + 1] = plain[i + 1]
      BY <1>2, <3>1
    <3> QED BY <2>1, <3>1, <3>2 DEF PlainPaired
  <2>2. CASE i = Len(plain)
    <3>1. i \in 1 .. Len(plain) /\ i < Len(p) /\ 1 \in 1 .. Len(h) /\ ~ (i < Len(plain))
      <4>1. Len(h) \in Nat /\ Len(h) >= 1 /\ 1 \in 1 .. Len(h)
        BY <1>4, OneOrTwo
      <4>2. Len(p) = Len(plain) + Len(h) /\ Len(plain) \in Nat /\ i \in Nat /\ i >= 1
        BY <1>2
      <4> QED BY <2>2, <4>1, <4>2
    <3>2. p[i] = plain[i] /\ p[i + 1] = h[1]
      BY <1>2, <2>2, <3>1
    <3> QED BY <1>1, <3>1, <3>2 DEF PlainPaired
  <2>3. CASE i > Len(plain)
    <3>1. i - Len(plain) \in 1 .. Len(h) /\ i = Len(plain) + (i - Len(plain))
      BY <1>2, <2>3, Beyond
    <3>2. p[i] = h[i - Len(plain)]
      BY <1>2, <3>1
    <3>3. Len(h) = 1 /\ Len(t) > 0 /\ Len(t[1]) = 1 /\ Completes(p[i], t[1][1])
      BY <1>4, <3>1, <3>2
    <3>4. ~ (i < Len(p))
      BY <1>2, <2>3, <3>3
    <3> QED BY <3>3, <3>4
  <2> QED BY <1>2, <2>1, <2>2, <2>3
<1> QED BY <1>1, <1>2, <1>3, <1>5 DEF p, h, t

LEMMA AnswerDropped ==
  ASSUME NEW plain \in Seq(Parts), NEW frames, PlainPaired(plain, frames),
         NEW n \in {1, 2}, n <= Len(plain)
  PROVE  LET rest == SubSeq(plain, n + 1, Len(plain))
         IN  /\ rest \in Seq(Parts) /\ PlainPaired(rest, frames)
             /\ \A i \in 1 .. Len(rest) : \E k \in 1 .. Len(plain) : rest[i] = plain[k]
<1> DEFINE rest == SubSeq(plain, n + 1, Len(plain))
<1>1. /\ Len(plain) \in Nat /\ rest \in Seq(Parts) /\ Len(rest) = Len(plain) - n
      /\ \A i \in 1 .. Len(plain) - n : rest[i] = plain[i + n]
  OBVIOUS
<1> HIDE DEF rest
<1>2. PlainPaired(rest, frames)
  <2> SUFFICES ASSUME NEW i \in 1 .. Len(rest), rest[i].part = "first"
               PROVE  IF i < Len(rest) THEN Completes(rest[i], rest[i + 1])
                      ELSE /\ Len(frames) > 0 /\ Len(frames[1]) = 1
                           /\ Completes(rest[i], frames[1][1])
    BY DEF PlainPaired
  <2>1. /\ i + n \in 1 .. Len(plain) /\ rest[i] = plain[i + n]
        /\ (i < Len(rest)) <=> (i + n < Len(plain))
        /\ i < Len(rest) => rest[i + 1] = plain[i + n + 1]
    <3>1. i \in 1 .. Len(plain) - n /\ i + n \in 1 .. Len(plain)
      BY <1>1
    <3>2. (i < Len(rest)) <=> (i + n < Len(plain))
      BY <1>1
    <3>3. i < Len(rest) => i + 1 \in 1 .. Len(plain) - n /\ (i + 1) + n = i + n + 1
      BY <1>1
    <3> QED BY <1>1, <3>1, <3>2, <3>3
  <2> QED BY <2>1 DEF PlainPaired
<1>3. \A i \in 1 .. Len(rest) : i + n \in 1 .. Len(plain) /\ rest[i] = plain[i + n]
  BY <1>1
<1> QED BY <1>1, <1>2, <1>3 DEF rest

(* An answer in one frame, an answer in two, and two answers in one. *)
LEMMA FrameSent ==
  ASSUME NEW frames \in Seq(Seq(Parts)), FramesPaired(frames),
         NEW q \in Seq(Parts), Len(q) \in {1, 2},
         \A j \in 1 .. Len(q) : q[j].part = "whole"
  PROVE  Append(frames, q) \in Seq(Seq(Parts)) /\ FramesPaired(Append(frames, q))
<1> DEFINE f == Append(frames, q)
<1>1. /\ Len(frames) \in Nat /\ f \in Seq(Seq(Parts)) /\ Len(f) = Len(frames) + 1
      /\ \A i \in 1 .. Len(frames) : f[i] = frames[i]
      /\ f[Len(frames) + 1] = q
  OBVIOUS
<1> HIDE DEF f
<1>2. FramesPaired(f)
  <2> SUFFICES ASSUME NEW i \in 1 .. Len(f)
               PROVE  /\ Len(f[i]) \in {1, 2}
                      /\ \A j \in 1 .. Len(f[i]) :
                           f[i][j].part = "first" =>
                             /\ Len(f[i]) = 1 /\ i < Len(f) /\ Len(f[i + 1]) = 1
                             /\ Completes(f[i][j], f[i + 1][1])
    BY DEF FramesPaired
  <2>1. CASE i = Len(frames) + 1
    BY <1>1, <2>1
  <2>2. CASE i \in 1 .. Len(frames)
    <3>1. f[i] = frames[i] /\ i < Len(f)
      BY <1>1, <2>2
    <3>2. i < Len(frames) => f[i + 1] = frames[i + 1]
      <4>1. i < Len(frames) => i + 1 \in 1 .. Len(frames)
        BY <1>1, <2>2
      <4> QED BY <1>1, <4>1
    <3> QED BY <2>2, <3>1, <3>2 DEF FramesPaired
  <2> QED BY <1>1, <2>1, <2>2
<1> QED BY <1>1, <1>2 DEF f

LEMMA TwoFramesSent ==
  ASSUME NEW frames \in Seq(Seq(Parts)), FramesPaired(frames),
         NEW a \in Parts, NEW b \in Parts, Completes(a, b)
  PROVE  LET f == frames \o <<<<a>>, <<b>>>>
         IN  f \in Seq(Seq(Parts)) /\ FramesPaired(f)
<1> DEFINE f == frames \o <<<<a>>, <<b>>>>
           two == <<<<a>>, <<b>>>>
<1>0. two \in Seq(Seq(Parts)) /\ Len(two) = 2 /\ two[1] = <<a>> /\ two[2] = <<b>>
  <2>1. <<a>> \in Seq(Parts) /\ <<b>> \in Seq(Parts)
    OBVIOUS
  <2> QED BY <2>1
<1> HIDE DEF two
<1>1. /\ Len(frames) \in Nat /\ f \in Seq(Seq(Parts)) /\ Len(f) = Len(frames) + 2
      /\ \A i \in 1 .. Len(frames) : f[i] = frames[i]
      /\ f[Len(frames) + 1] = <<a>> /\ f[Len(frames) + 2] = <<b>>
  BY <1>0 DEF two
<1>3. /\ Len(<<a>>) = 1 /\ <<a>>[1] = a /\ Len(<<b>>) = 1 /\ <<b>>[1] = b
      /\ b.part # "first"
  BY DEF Completes
<1> HIDE DEF f
<1>2. FramesPaired(f)
  <2> SUFFICES ASSUME NEW i \in 1 .. Len(f)
               PROVE  /\ Len(f[i]) \in {1, 2}
                      /\ \A j \in 1 .. Len(f[i]) :
                           f[i][j].part = "first" =>
                             /\ Len(f[i]) = 1 /\ i < Len(f) /\ Len(f[i + 1]) = 1
                             /\ Completes(f[i][j], f[i + 1][1])
    BY DEF FramesPaired
  <2>1. CASE i \in 1 .. Len(frames)
    <3>1. f[i] = frames[i] /\ i < Len(f)
      BY <1>1, <2>1
    <3>2. i < Len(frames) => f[i + 1] = frames[i + 1]
      <4>1. i < Len(frames) => i + 1 \in 1 .. Len(frames)
        BY <1>1, <2>1
      <4> QED BY <1>1, <4>1
    <3> QED BY <2>1, <3>1, <3>2 DEF FramesPaired
  <2>2. CASE i = Len(frames) + 1
    <3>1. f[i] = <<a>> /\ f[i + 1] = <<b>> /\ i < Len(f)
      BY <1>1, <2>2
    <3> QED BY <1>3, <3>1
  <2>3. CASE i = Len(frames) + 2
    <3>1. f[i] = <<b>>
      BY <1>1, <2>3
    <3>2. \A j \in 1 .. Len(f[i]) : f[i][j] = b
      BY <1>3, <3>1
    <3> QED BY <1>3, <3>1, <3>2
  <2> QED BY <1>1, <2>1, <2>2, <2>3
<1> QED BY <1>1, <1>2 DEF f

-----------------------------------------------------------------------------
(* The requests *)

LEMMA AfterFacts ==
  ASSUME NEW m \in MainType, InOrder(m.todo) \/ m.todo = <<"teardown">>, NEW ok \in BOOLEAN
  PROVE  LET a == After(m, Head(m.todo), ok)
         IN  /\ a \in MainType /\ a.plain = <<>> /\ a.cseq = m.cseq /\ a.answer = m.answer
             /\ a.options = m.options /\ a.pairing = m.pairing /\ a.guarded = m.guarded
             /\ a.teardowns = m.teardowns
             /\ \/ /\ m.todo = <<"teardown">> /\ a.pc = m.back
                   /\ a.result = m.result /\ a.recorded = m.recorded
                \/ /\ a.pc = "streams" /\ a.result = 1 /\ a.recorded = m.recorded
                \/ /\ InOrder(m.todo) /\ a.pc \in {"request", "timing", "event"}
                   /\ a.todo = Tail(m.todo) /\ InOrder(a.todo)
                   /\ a.result = m.result /\ a.recorded = m.recorded
                \/ /\ InOrder(m.todo) /\ a.pc = "launch" /\ a.recorded
                   /\ a.result = m.result
<1> DEFINE name == Head(m.todo)
           n == [m EXCEPT !.plain = <<>>]
           rest == [n EXCEPT !.pc = "request", !.todo = Tail(@)]
<1>0. /\ m.todo \in Seq(Names) /\ m.todo # <<>> /\ name \in Names
      /\ m.todo = <<"teardown">> => name = "teardown"
      /\ InOrder(m.todo) => name # "teardown"
  BY HeadTodo DEF MainType
<1>1. n \in MainType /\ n.plain = <<>> /\ n.cseq = m.cseq /\ n.answer = m.answer
      /\ n.options = m.options /\ n.pairing = m.pairing /\ n.guarded = m.guarded
      /\ n.teardowns = m.teardowns /\ n.todo = m.todo /\ n.result = m.result
      /\ n.recorded = m.recorded /\ n.back = m.back /\ n.streams = m.streams
  <2>1. <<>> \in Seq(Parts)
    OBVIOUS
  <2> QED BY <2>1 DEF MainType
<1>2. Tail(m.todo) \in Seq(Names)
  BY <1>0
<1>3. rest \in MainType /\ rest.plain = <<>> /\ rest.cseq = m.cseq /\ rest.answer = m.answer
      /\ rest.options = m.options /\ rest.pairing = m.pairing /\ rest.guarded = m.guarded
      /\ rest.teardowns = m.teardowns /\ rest.todo = Tail(m.todo) /\ rest.result = m.result
      /\ rest.recorded = m.recorded /\ rest.pc = "request" /\ rest.streams = m.streams
  <2> HIDE DEF n
  <2> QED BY <1>1, <1>2 DEF MainType, Requesting
<1>4. After(m, name, ok) =
        IF name = "teardown" THEN [n EXCEPT !.pc = n.back]
        ELSE IF ~ok THEN IF name \in Optional THEN rest ELSE Fail(n)
        ELSE CASE name \in Optional \cup {"media"} -> [rest EXCEPT !.streams = @ \cup {name}]
               [] name = "info" -> [rest EXCEPT !.pc = "timing"]
               [] name = "setup" -> [rest EXCEPT !.pc = "event"]
               [] name = "screen" -> rest
               [] name = "record" -> [rest EXCEPT !.pc = "launch", !.recorded = TRUE]
  BY DEF After
<1> DEFINE a == After(m, name, ok)
<1>5. name # "record" /\ name # "teardown" => InOrder(m.todo) /\ InOrder(Tail(m.todo))
  BY <1>0, InOrderTail
<1> HIDE DEF n, rest, name, a
<1>6. CASE name = "teardown"
  <2>1. a = [n EXCEPT !.pc = n.back]
    BY <1>4, <1>6 DEF a
  <2>2. m.todo = <<"teardown">>
    BY <1>0, <1>6
  <2> QED BY <1>1, <2>1, <2>2 DEF MainType, Leaving, a, name
<1>7. CASE name # "teardown" /\ ~ ok /\ name \notin Optional
  <2>1. a = Fail(n)
    BY <1>4, <1>7 DEF a
  <2>2. <<>> \in Seq(Names)
    OBVIOUS
  <2> QED BY ZenonT(40), <1>1, <2>1, <2>2 DEF Fail, MainType, Leaving, a, name
<1>8. CASE ~ ok /\ name \in Optional
  <2>1. name # "teardown" /\ name # "record"
    BY <1>8 DEF Optional
  <2>2. a = rest
    BY <1>4, <1>8, <2>1 DEF a
  <2> QED BY <1>3, <1>5, <2>1, <2>2 DEF a, name
<1>9. CASE ok /\ name \in Optional \cup {"media"}
  <2>1. name # "teardown" /\ name # "record" /\ name \notin {"info", "setup", "screen"}
    BY <1>9 DEF Optional
  <2>2. a = [rest EXCEPT !.streams = @ \cup {name}]
    BY <1>4, <1>9, <2>1 DEF a
  <2>3. rest.streams \cup {name} \in SUBSET (Optional \cup Senders)
    BY <1>3, <1>9 DEF MainType, Senders
  <2>4. a \in MainType
    BY <1>3, <2>2, <2>3 DEF MainType
  <2>5. /\ a.pc = "request" /\ a.todo = Tail(m.todo) /\ a.plain = <<>> /\ a.cseq = m.cseq
        /\ a.answer = m.answer /\ a.options = m.options /\ a.pairing = m.pairing
        /\ a.guarded = m.guarded /\ a.teardowns = m.teardowns /\ a.result = m.result
        /\ a.recorded = m.recorded
    BY <1>3, <2>2 DEF MainType
  <2> QED BY <1>5, <2>1, <2>4, <2>5 DEF a, name
<1>10. CASE ok /\ name \in {"info", "setup", "screen"}
  <2>1. name # "teardown" /\ name # "record" /\ name \notin Optional \cup {"media"}
    BY <1>10 DEF Optional
  <2>2. a = [rest EXCEPT !.pc = IF name = "info" THEN "timing"
                                ELSE IF name = "setup" THEN "event" ELSE "request"]
    BY <1>3, <1>4, <1>10, <2>1 DEF a, MainType
  <2>3. a \in MainType
    BY ZenonT(40), <1>3, <2>2 DEF MainType, Requesting
  <2>4. /\ a.pc \in {"request", "timing", "event"} /\ a.todo = Tail(m.todo)
        /\ a.plain = <<>> /\ a.cseq = m.cseq
        /\ a.answer = m.answer /\ a.options = m.options /\ a.pairing = m.pairing
        /\ a.guarded = m.guarded /\ a.teardowns = m.teardowns /\ a.result = m.result
        /\ a.recorded = m.recorded
    BY <1>3, <2>2 DEF MainType
  <2> QED BY <1>5, <2>1, <2>3, <2>4 DEF a, name
<1>11. CASE ok /\ name = "record"
  <2>1. a = [rest EXCEPT !.pc = "launch", !.recorded = TRUE]
    BY <1>4, <1>11 DEF a, Optional
  <2>2. InOrder(m.todo)
    BY <1>0, <1>11
  <2> QED BY ZenonT(40), <1>3, <2>1, <2>2 DEF MainType, Streaming, a, name
<1> QED BY <1>0, <1>6, <1>7, <1>8, <1>9, <1>10, <1>11 DEF Names

LEMMA AfterKeeps ==
  ASSUME AirPlayInv, main.pc \in {"request", "response"},
         NEW m \in MainType, m.todo = main.todo, m.options = main.options,
         m.pairing = main.pairing, m.guarded = main.guarded,
         m.teardowns = main.teardowns, m.back = main.back, m.result = main.result,
         m.recorded = main.recorded, m.cseq >= main.cseq,
         NEW ok \in BOOLEAN,
         NEW answer \in {<<>>} \cup (Names \X Names),
         answer # <<>> => answer[1] = answer[2],
         main' = [After(m, Head(main.todo), ok) EXCEPT !.answer = answer],
         acc' \in AccType, acc'.peer = acc.peer, acc'.requests = acc.requests,
         FramesPaired(acc'.frames),
         \A i \in 1 .. Len(acc'.frames) :
           \A j \in 1 .. Len(acc'.frames[i]) : acc'.frames[i][j].cseq <= main.cseq,
         thread' \in [Threads -> {"off", "launched", "blocked", "running", "waiting", "ended"}],
         thread'["event"] = thread["event"],
         UNCHANGED <<record, stop, video, calls>>
  PROVE  AirPlayInv'
<1>0. StateOK /\ TodoInv /\ EndInv /\ PairInv /\ CSeqInv /\ PartsInv /\ VideoInv
  BY DEF AirPlayInv
<1>1. InOrder(main.todo) \/ (main.todo = <<"teardown">> /\ main.teardowns = 1)
  BY <1>0 DEF TodoInv
<1> DEFINE a == After(m, Head(m.todo), ok)
<1>2. /\ a \in MainType /\ a.plain = <<>> /\ a.cseq = m.cseq
      /\ a.options = m.options /\ a.pairing = m.pairing /\ a.guarded = m.guarded
      /\ a.teardowns = m.teardowns
      /\ \/ /\ m.todo = <<"teardown">> /\ a.pc = m.back
            /\ a.result = m.result /\ a.recorded = m.recorded
         \/ /\ a.pc = "streams" /\ a.result = 1 /\ a.recorded = m.recorded
         \/ /\ InOrder(m.todo) /\ a.pc \in {"request", "timing", "event"}
            /\ a.todo = Tail(m.todo) /\ InOrder(a.todo)
            /\ a.result = m.result /\ a.recorded = m.recorded
         \/ /\ InOrder(m.todo) /\ a.pc = "launch" /\ a.recorded /\ a.result = m.result
  BY <1>1, AfterFacts
<1>3. main' = [a EXCEPT !.answer = answer]
  OBVIOUS
<1> HIDE DEF a
<1>4. /\ main' \in MainType /\ main'.plain = <<>> /\ main'.cseq = m.cseq
      /\ main'.answer = answer /\ main'.options = main.options
      /\ main'.pairing = main.pairing /\ main'.guarded = main.guarded
      /\ main'.teardowns = main.teardowns /\ main'.pc = a.pc /\ main'.todo = a.todo
      /\ main'.result = a.result /\ main'.recorded = a.recorded
  BY ZenonT(40), <1>2, <1>3 DEF MainType
<1>5. main.back \in {"streams", "channels"} /\ main.cseq \in Nat /\ m.cseq \in Nat
  BY <1>0 DEF StateOK, MainType
<1>6. StateOK'
  BY <1>0, <1>4 DEF StateOK
<1>7. TodoInv' /\ EndInv'
  <2>1. TodoInv'
    BY <1>2, <1>4, <1>5 DEF TodoInv, Pairing
  <2>2. EndInv'
    BY <1>0, <1>1, <1>2, <1>4, <1>5, TeardownFacts DEF EndInv, Streaming
  <2> QED BY <2>1, <2>2
<1>8. PairInv'
  BY <1>0, <1>2, <1>4, <1>5 DEF PairInv, Paired, Pairing, Requesting, Streaming
<1>9. main'.pc \notin {"response", "returned"}
  BY <1>2, <1>4, <1>5
<1>10. CSeqInv'
  <2>1. \A i \in 1 .. Len(acc'.requests) : acc'.requests[i].cseq <= main'.cseq
    <3>1. \A i \in 1 .. Len(acc.requests) : acc.requests[i].cseq \in Nat
      <4>1. acc.requests \in Seq(Requests)
        BY <1>0 DEF StateOK, AccType
      <4>2. \A i \in 1 .. Len(acc.requests) : acc.requests[i] \in Requests
        BY <4>1
      <4> QED BY <4>2 DEF Requests
    <3> QED BY <1>0, <1>4, <1>5, <3>1 DEF CSeqInv, Fits
  <2>2. \A i \in 1 .. Len(acc'.frames) :
          \A j \in 1 .. Len(acc'.frames[i]) : acc'.frames[i][j].cseq <= main'.cseq
    <3> SUFFICES ASSUME NEW i \in 1 .. Len(acc'.frames), NEW j \in 1 .. Len(acc'.frames[i])
                 PROVE  acc'.frames[i][j].cseq <= main'.cseq
      OBVIOUS
    <3>1. acc'.frames[i][j] \in Parts
      <4>1. acc'.frames \in Seq(Seq(Parts))
        BY DEF AccType
      <4>2. acc'.frames[i] \in Seq(Parts)
        BY <4>1
      <4> QED BY <4>2
    <3>2. acc'.frames[i][j].cseq \in Nat /\ acc'.frames[i][j].cseq <= main.cseq
      BY <3>1 DEF Parts
    <3> QED BY <1>4, <1>5, <3>2
  <2>3. \A i \in 1 .. Len(acc'.requests) : Fits(main', acc'.requests[i])
    BY <1>9, <2>1 DEF Fits
  <2>4. \A i \in 1 .. Len(acc'.frames) :
          \A j \in 1 .. Len(acc'.frames[i]) : Fits(main', acc'.frames[i][j])
    BY <1>9, <2>2 DEF Fits
  <2>5. \A i \in 1 .. Len(main'.plain) : Fits(main', main'.plain[i])
    BY <1>4
  <2>6. main'.answer # <<>> => main'.answer[1] = main'.answer[2]
    BY <1>4
  <2> QED BY <1>9, <2>3, <2>4, <2>5, <2>6 DEF CSeqInv
<1>11. PartsInv'
  BY <1>4 DEF PartsInv, PlainPaired
<1>12. VideoInv'
  BY <1>0, <1>1, <1>2, <1>4, <1>5 DEF VideoInv, NothingSentYet, Pairing
<1> QED BY <1>6, <1>7, <1>8, <1>10, <1>11, <1>12 DEF AirPlayInv

LEMMA SendRequestKeeps ==
  ASSUME AirPlayInv, SendRequest
  PROVE  AirPlayInv'
<1>0. StateOK /\ TodoInv /\ EndInv /\ PairInv /\ CSeqInv /\ PartsInv /\ VideoInv
  BY DEF AirPlayInv
<1> DEFINE name == Head(main.todo)
           m == [main EXCEPT !.cseq = @ + 1, !.answer = <<>>]
<1>1. /\ main.pc = "request" /\ main.cseq \in Nat /\ main \in MainType /\ acc \in AccType
      /\ main.plain = <<>> /\ UNCHANGED <<record, stop, video, calls, thread>>
  BY <1>0 DEF SendRequest, StateOK, MainType, PartsInv
<1>2. /\ m \in MainType /\ m.cseq = main.cseq + 1 /\ m.answer = <<>> /\ m.todo = main.todo
      /\ m.options = main.options /\ m.pairing = main.pairing /\ m.guarded = main.guarded
      /\ m.teardowns = main.teardowns /\ m.back = main.back /\ m.result = main.result
      /\ m.recorded = main.recorded /\ m.plain = <<>> /\ m.cseq >= main.cseq
  <2>1. main.cseq + 1 \in Nat /\ main.cseq + 1 >= main.cseq
    BY <1>1
  <2> QED BY <1>1, <2>1 DEF MainType
<1>3. InOrder(main.todo) \/ (main.todo = <<"teardown">> /\ main.teardowns = 1)
  BY <1>0, <1>1 DEF TodoInv
<1>4. /\ acc.requests \in Seq(Requests) /\ acc.frames \in Seq(Seq(Parts))
      /\ FramesPaired(acc.frames)
  BY <1>0, <1>1 DEF AccType, PartsInv
<1>5. \A i \in 1 .. Len(acc.frames) :
        \A j \in 1 .. Len(acc.frames[i]) : acc.frames[i][j].cseq <= main.cseq
  BY <1>0 DEF CSeqInv, Fits
<1>6. CASE /\ main' = After(m, name, FALSE)
           /\ \E cut \in BOOLEAN : acc' = [acc EXCEPT !.intact = @ /\ ~cut]
  <2>1. /\ acc' \in AccType /\ acc'.peer = acc.peer /\ acc'.requests = acc.requests
        /\ acc'.frames = acc.frames
    BY <1>1, <1>6 DEF AccType
  <2>2. main' = [After(m, Head(main.todo), FALSE) EXCEPT !.answer = <<>>]
    <3> HIDE DEF m
    <3>1. main' \in MainType /\ main'.answer = <<>>
      <4>1. InOrder(m.todo) \/ m.todo = <<"teardown">>
        BY <1>2, <1>3
      <4>2. main' = After(m, Head(m.todo), FALSE)
        BY <1>2, <1>6
      <4> QED BY <1>2, <4>1, <4>2, AfterFacts
    <3> HIDE DEF name
    <3> QED BY <1>6, <3>1 DEF MainType, name
  <2>3. thread' \in [Threads -> {"off", "launched", "blocked", "running", "waiting", "ended"}]
    BY <1>0, <1>1 DEF StateOK
  <2> HIDE DEF m
  <2> QED BY <1>1, <1>2, <1>4, <1>5, <2>1, <2>2, <2>3, AfterKeeps
<1>7. CASE /\ main' = [m EXCEPT !.pc = "response"]
           /\ acc' = IF acc.intact
                     THEN [acc EXCEPT !.requests =
                             Append(@, [cseq |-> m.cseq, name |-> name])]
                     ELSE acc
  <2> DEFINE r == [cseq |-> m.cseq, name |-> name]
  <2>1. /\ main' \in MainType /\ main'.pc = "response" /\ main'.cseq = main.cseq + 1
        /\ main'.answer = <<>> /\ main'.todo = main.todo /\ main'.options = main.options
        /\ main'.pairing = main.pairing /\ main'.guarded = main.guarded
        /\ main'.teardowns = main.teardowns /\ main'.result = main.result
        /\ main'.recorded = main.recorded /\ main'.plain = <<>>
    <3> HIDE DEF m
    <3> QED BY <1>2, <1>7 DEF MainType, Requesting
  <2>2. /\ r \in Requests /\ r.cseq = main.cseq + 1 /\ r.name = main.todo[1]
    <3>1. name \in Names /\ name = main.todo[1]
      BY <1>1, <1>3, HeadTodo DEF MainType
    <3> HIDE DEF m, name
    <3> QED BY <1>1, <1>2, <3>1 DEF Requests
  <2> HIDE DEF m, name
  <2>3. /\ acc' \in AccType /\ acc'.peer = acc.peer /\ acc'.frames = acc.frames
        /\ acc'.requests \in {acc.requests, Append(acc.requests, r)}
    <3>1. Append(acc.requests, r) \in Seq(Requests)
      BY <1>4, <2>2
    <3> QED BY <1>1, <1>7, <3>1 DEF AccType
  <2> HIDE DEF r
  <2>4. StateOK'
    BY <1>0, <1>1, <2>1, <2>3 DEF StateOK
  <2>5. TodoInv' /\ EndInv'
    BY <1>0, <1>1, <1>3, <2>1 DEF TodoInv, EndInv, Pairing, Streaming
  <2>6. PairInv'
    BY <1>0, <1>1, <2>1, <2>3 DEF PairInv, Paired, Pairing, Requesting, Streaming
  <2>7. CSeqInv'
    <3>1. ASSUME NEW q, q.cseq \in Nat, q.cseq <= main.cseq PROVE Fits(main', q)
      BY <1>1, <2>1, <3>1 DEF Fits
    <3>2. Fits(main', r)
      BY <1>1, <2>1, <2>2 DEF Fits
    <3>3. \A i \in 1 .. Len(acc.requests) :
            acc.requests[i].cseq \in Nat /\ acc.requests[i].cseq <= main.cseq
      <4>1. \A i \in 1 .. Len(acc.requests) : acc.requests[i] \in Requests
        BY <1>4
      <4> QED BY <1>0, <4>1 DEF CSeqInv, Fits, Requests
    <3>4. ASSUME NEW i \in 1 .. Len(acc'.requests) PROVE Fits(main', acc'.requests[i])
      <4>1. CASE acc'.requests = acc.requests
        BY <3>1, <3>3, <4>1
      <4>2. CASE acc'.requests = Append(acc.requests, r)
        <5>1. /\ Len(acc.requests) \in Nat /\ Len(acc'.requests) = Len(acc.requests) + 1
              /\ \A k \in 1 .. Len(acc.requests) : acc'.requests[k] = acc.requests[k]
              /\ acc'.requests[Len(acc.requests) + 1] = r
          BY <1>4, <4>2
        <5>2. i \in 1 .. Len(acc.requests) \/ i = Len(acc.requests) + 1
          BY <5>1
        <5> QED BY <3>1, <3>2, <3>3, <5>1, <5>2
      <4> QED BY <2>3, <4>1, <4>2
    <3>5. ASSUME NEW i \in 1 .. Len(acc'.frames), NEW j \in 1 .. Len(acc'.frames[i])
          PROVE  Fits(main', acc'.frames[i][j])
      <4>1. acc.frames[i] \in Seq(Parts) /\ j \in 1 .. Len(acc.frames[i])
        BY <1>4, <2>3
      <4>2. acc.frames[i][j] \in Parts
        BY <4>1
      <4> QED BY <1>5, <2>3, <3>1, <4>1, <4>2 DEF Parts
    <3> QED BY <2>1, <3>4, <3>5 DEF CSeqInv
  <2>8. PartsInv'
    BY <1>4, <2>1, <2>3 DEF PartsInv, PlainPaired
  <2>9. VideoInv'
    BY <1>0, <1>1, <2>1 DEF VideoInv, NothingSentYet, Pairing
  <2> QED BY <2>4, <2>5, <2>6, <2>7, <2>8, <2>9 DEF AirPlayInv
<1> QED BY <1>6, <1>7 DEF SendRequest

LEMMA NoAnswerKeeps ==
  ASSUME AirPlayInv, NoAnswer
  PROVE  AirPlayInv'
<1>0. StateOK /\ TodoInv /\ CSeqInv /\ PartsInv
  BY DEF AirPlayInv
<1>1. /\ main.pc = "response" /\ main \in MainType /\ acc \in AccType /\ main.cseq \in Nat
      /\ main.answer \in {<<>>} \cup (Names \X Names)
      /\ UNCHANGED <<acc, record, thread, stop, video, calls>>
      /\ main' = After(main, Head(main.todo), FALSE)
      /\ thread' \in [Threads -> {"off", "launched", "blocked", "running", "waiting", "ended"}]
  BY <1>0 DEF NoAnswer, StateOK, MainType
<1>2. InOrder(main.todo) \/ main.todo = <<"teardown">>
  BY <1>0, <1>1 DEF TodoInv
<1>3. main' = [After(main, Head(main.todo), FALSE) EXCEPT !.answer = main.answer]
  <2>1. main' \in MainType /\ main'.answer = main.answer
    BY <1>1, <1>2, AfterFacts
  <2> QED BY <1>1, <2>1 DEF MainType
<1>4. /\ main.answer # <<>> => main.answer[1] = main.answer[2]
      /\ FramesPaired(acc.frames)
      /\ \A i \in 1 .. Len(acc.frames) :
           \A j \in 1 .. Len(acc.frames[i]) : acc.frames[i][j].cseq <= main.cseq
  BY <1>0 DEF CSeqInv, PartsInv, Fits
<1>5. main.cseq >= main.cseq
  BY <1>1
<1> QED BY <1>1, <1>3, <1>4, <1>5, AfterKeeps

(* The answer that ends the wait is the one to the request waited for. *)
LEMMA AnswerIsExpected ==
  ASSUME NEW plain \in Seq(Parts), NEW frames, PlainPaired(plain, frames),
         Complete(plain), Parses(plain)
  PROVE  LET first == IF plain[1].part = "first" THEN 2 ELSE 1
         IN  /\ first \in {1, 2} /\ first <= Len(plain) /\ plain[first] \in Parts
             /\ plain[first].name = plain[1].name
<1>1. PICK i \in 1 .. Len(plain) : /\ plain[i].part \in {"whole", "second"}
                                   /\ plain[1].part = "second" => i > 1
  BY DEF Complete
<1>2. Len(plain) \in Nat /\ Len(plain) >= 1 /\ 1 \in 1 .. Len(plain)
  BY <1>1
<1>3. CASE plain[1].part # "first"
  BY <1>2, <1>3
<1>4. CASE plain[1].part = "first"
  <2>1. i # 1
    BY <1>1, <1>4
  <2>2. Len(plain) > 1 /\ 2 \in 1 .. Len(plain)
    BY <1>1, <1>2, <2>1
  <2>3. Completes(plain[1], plain[1 + 1])
    BY <1>2, <1>4, <2>2 DEF PlainPaired
  <2> QED BY <1>4, <2>2, <2>3 DEF Completes
<1> QED BY <1>3, <1>4

LEMMA ReceiveFrameKeeps ==
  ASSUME AirPlayInv, ReceiveFrame
  PROVE  AirPlayInv'
<1>0. StateOK /\ TodoInv /\ EndInv /\ PairInv /\ CSeqInv /\ PartsInv /\ VideoInv
  BY DEF AirPlayInv
<1> DEFINE name == Head(main.todo)
           plain == main.plain \o Head(acc.frames)
           first == IF plain[1].part = "first" THEN 2 ELSE 1
           got == plain[first]
           rest == SubSeq(plain, first + 1, Len(plain))
<1>1. /\ main.pc = "response" /\ main \in MainType /\ acc \in AccType /\ main.cseq \in Nat
      /\ main.plain \in Seq(Parts) /\ acc.frames \in Seq(Seq(Parts)) /\ acc.frames # <<>>
      /\ acc' = [acc EXCEPT !.frames = Tail(@)] /\ UNCHANGED <<record, stop, video, calls>>
      /\ main.answer \in {<<>>} \cup (Names \X Names) /\ main.todo \in Seq(Names)
  BY <1>0 DEF ReceiveFrame, StateOK, MainType, AccType
<1>2. /\ Tail(acc.frames) \in Seq(Seq(Parts)) /\ plain \in Seq(Parts)
      /\ FramesPaired(Tail(acc.frames)) /\ PlainPaired(plain, Tail(acc.frames))
  BY <1>0, <1>1, FrameTaken DEF PartsInv
<1>3. /\ acc' \in AccType /\ acc'.frames = Tail(acc.frames) /\ acc'.peer = acc.peer
      /\ acc'.requests = acc.requests
  BY <1>1, <1>2 DEF AccType
<1>4. InOrder(main.todo) \/ (main.todo = <<"teardown">> /\ main.teardowns = 1)
  BY <1>0, <1>1 DEF TodoInv
<1>5. name \in Names /\ name = main.todo[1]
  BY <1>1, <1>4, HeadTodo
<1>6. /\ Len(acc.frames) \in Nat /\ Len(Tail(acc.frames)) = Len(acc.frames) - 1
      /\ Len(acc.frames) >= 1 /\ Head(acc.frames) = acc.frames[1]
      /\ \A i \in 1 .. Len(acc.frames) - 1 : Tail(acc.frames)[i] = acc.frames[i + 1]
  BY <1>1
<1>7. ASSUME NEW i \in 1 .. Len(acc'.frames), NEW j \in 1 .. Len(acc'.frames[i])
      PROVE  Fits(main, acc'.frames[i][j])
  <2>1. i + 1 \in 1 .. Len(acc.frames) /\ acc'.frames[i] = acc.frames[i + 1]
    BY <1>3, <1>6
  <2> QED BY <1>0, <2>1 DEF CSeqInv
<1>8. ASSUME NEW i \in 1 .. Len(plain) PROVE Fits(main, plain[i])
  <2> DEFINE h == Head(acc.frames)
  <2>1. h \in Seq(Parts)
    BY <1>1
  <2>2. \A j \in 1 .. Len(h) : Fits(main, h[j])
    <3>1. 1 \in 1 .. Len(acc.frames)
      BY <1>6
    <3> QED BY <1>0, <1>6, <3>1 DEF CSeqInv
  <2> HIDE DEF h
  <2> DEFINE p == main.plain \o h
  <2>6. /\ Len(main.plain) \in Nat /\ Len(h) \in Nat /\ Len(p) = Len(main.plain) + Len(h)
        /\ \A k \in 1 .. Len(main.plain) : p[k] = main.plain[k]
        /\ \A k \in 1 .. Len(h) : p[Len(main.plain) + k] = h[k]
    BY SMTT(30), <1>1, <2>1
  <2>7. plain = p
    BY DEF h
  <2> HIDE DEF plain, p
  <2>3. /\ Len(main.plain) \in Nat /\ Len(h) \in Nat /\ Len(plain) = Len(main.plain) + Len(h)
        /\ \A k \in 1 .. Len(main.plain) : plain[k] = main.plain[k]
        /\ \A k \in 1 .. Len(h) : plain[Len(main.plain) + k] = h[k]
    BY <2>6, <2>7
  <2>4. CASE i \in 1 .. Len(main.plain)
    BY <1>0, <2>3, <2>4 DEF CSeqInv
  <2>5. CASE i > Len(main.plain)
    <3>1. i - Len(main.plain) \in 1 .. Len(h) /\ i = Len(main.plain) + (i - Len(main.plain))
      BY <2>3, <2>5, Beyond
    <3>2. plain[i] = h[i - Len(main.plain)]
      BY <2>3, <3>1
    <3> QED BY <2>2, <3>1, <3>2
  <2> QED BY <2>3, <2>4, <2>5
<1>9. \A i \in 1 .. Len(acc'.frames) :
        \A j \in 1 .. Len(acc'.frames[i]) : acc'.frames[i][j].cseq <= main.cseq
  BY <1>7 DEF Fits
<1>10. /\ thread \in [Threads -> {"off", "launched", "blocked", "running", "waiting", "ended"}]
       /\ main.answer # <<>> => main.answer[1] = main.answer[2]
       /\ main.cseq >= main.cseq
  BY <1>0, <1>1 DEF StateOK, CSeqInv
(* response_plaintext changes, and the wait goes on. *)
<1>11. ASSUME NEW p \in Seq(Parts), PlainPaired(p, Tail(acc.frames)),
              \A i \in 1 .. Len(p) : Fits(main, p[i]),
              main' = [main EXCEPT !.plain = p], UNCHANGED thread
       PROVE  AirPlayInv'
  <2>1. /\ main' \in MainType /\ main'.plain = p /\ main'.pc = main.pc
        /\ main'.cseq = main.cseq /\ main'.answer = main.answer /\ main'.todo = main.todo
        /\ main'.options = main.options /\ main'.pairing = main.pairing
        /\ main'.guarded = main.guarded /\ main'.teardowns = main.teardowns
        /\ main'.result = main.result /\ main'.recorded = main.recorded
    BY <1>1, <1>11 DEF MainType
  <2>2. StateOK' /\ TodoInv' /\ EndInv'
    BY <1>0, <1>1, <1>3, <1>11, <2>1 DEF StateOK, TodoInv, EndInv
  <2>3. PairInv'
    BY <1>0, <1>1, <1>3, <2>1 DEF PairInv, Paired
  <2>4. CSeqInv'
    <3>1. \A q : Fits(main', q) <=> Fits(main, q)
      BY <2>1 DEF Fits
    <3> QED BY SMTT(30), <1>0, <1>3, <1>7, <1>11, <2>1, <3>1 DEF CSeqInv
  <2>5. PartsInv'
    BY <1>1, <1>2, <1>3, <1>11, <2>1 DEF PartsInv
  <2>6. VideoInv'
    BY <1>0, <1>1, <2>1 DEF VideoInv, NothingSentYet
  <2> QED BY <2>2, <2>3, <2>4, <2>5, <2>6 DEF AirPlayInv
<1>12. CASE /\ ~ Complete(plain) /\ main' = [main EXCEPT !.plain = plain] /\ UNCHANGED thread
  <2> HIDE DEF plain
  <2> QED BY <1>2, <1>8, <1>11, <1>12
<1>13. CASE /\ Complete(plain) /\ ~ Parses(plain) /\ main' = After(main, name, FALSE)
            /\ UNCHANGED thread
  <2>1. main' = [After(main, Head(main.todo), FALSE) EXCEPT !.answer = main.answer]
    <3>1. main' \in MainType /\ main'.answer = main.answer
      BY <1>1, <1>4, <1>13, AfterFacts
    <3> QED BY <1>13, <3>1 DEF MainType
  <2>2. FramesPaired(acc'.frames)
    BY <1>2, <1>3
  <2> QED BY <1>1, <1>3, <1>9, <1>10, <1>13, <2>1, <2>2, AfterKeeps
<1>14. CASE /\ Complete(plain) /\ Parses(plain) /\ ~ Expected(plain, main.cseq)
            /\ main' = [main EXCEPT !.plain = rest] /\ UNCHANGED thread
  <2> HIDE DEF plain
  <2>1. first \in {1, 2} /\ first <= Len(plain)
    BY <1>2, <1>14, AnswerIsExpected
  <2> HIDE DEF first
  <2>2. /\ rest \in Seq(Parts) /\ PlainPaired(rest, Tail(acc.frames))
        /\ \A i \in 1 .. Len(rest) : \E k \in 1 .. Len(plain) : rest[i] = plain[k]
    BY <1>2, <2>1, AnswerDropped
  <2> HIDE DEF rest
  <2>3. \A i \in 1 .. Len(rest) : Fits(main, rest[i])
    BY <1>8, <2>2
  <2> QED BY <1>11, <1>14, <2>2, <2>3
<1>15. CASE /\ Complete(plain) /\ Parses(plain) /\ Expected(plain, main.cseq)
            /\ main' = [After(main, name, got.ok) EXCEPT !.answer = <<name, got.name>>]
            /\ thread' = Started(name, got.ok)
  <2> HIDE DEF plain
  <2>1. got \in Parts /\ got.name = plain[1].name /\ 1 \in 1 .. Len(plain)
    <3>1. first \in {1, 2} /\ first <= Len(plain) /\ got \in Parts /\ got.name = plain[1].name
      BY <1>2, <1>15, AnswerIsExpected
    <3>2. Len(plain) \in Nat
      BY <1>2
    <3> HIDE DEF first, got
    <3> QED BY <3>1, <3>2
  <2>2. got.name = name
    <3>1. Fits(main, plain[1])
      BY <1>8, <2>1
    <3> HIDE DEF got, name
    <3> QED BY <1>1, <1>5, <1>15, <2>1, <3>1 DEF Fits, Expected
  <2> HIDE DEF first, got
  <2>3. got.ok \in BOOLEAN
    BY <2>1 DEF Parts
  <2> DEFINE answer == <<name, got.name>>
  <2>4. /\ answer \in {<<>>} \cup (Names \X Names) /\ answer[1] = answer[2]
    BY <1>5, <2>2
  <2>5. /\ thread' \in [Threads -> {"off", "launched", "blocked", "running", "waiting", "ended"}]
        /\ thread'["event"] = thread["event"]
    BY <1>10, <1>15 DEF Started, Threads
  <2>6. FramesPaired(acc'.frames)
    BY <1>2, <1>3
  <2>7. main' = [After(main, Head(main.todo), got.ok) EXCEPT !.answer = answer]
    BY <1>15
  <2> HIDE DEF answer, name
  <2> QED BY <1>1, <1>3, <1>9, <1>10, <2>3, <2>4, <2>5, <2>6, <2>7, AfterKeeps
<1> QED BY <1>12, <1>13, <1>14, <1>15 DEF ReceiveFrame

LEMMA SkipStreamKeeps ==
  ASSUME AirPlayInv, SkipStream
  PROVE  AirPlayInv'
<1>0. StateOK /\ TodoInv /\ EndInv /\ PairInv /\ CSeqInv /\ PartsInv /\ VideoInv
  BY DEF AirPlayInv
<1>1. /\ main.pc = "request" /\ Head(main.todo) \in Optional \cup {"media"}
      /\ main' = [main EXCEPT !.todo = Tail(@)] /\ main.todo \in Seq(Names)
      /\ UNCHANGED <<acc, record, thread, stop, video, calls>>
  BY <1>0 DEF SkipStream, StateOK, MainType
<1>2. InOrder(main.todo) /\ Head(main.todo) # "record"
  <2>1. Head(main.todo) # "record" /\ Head(main.todo) # "teardown"
    BY <1>1 DEF Optional
  <2> QED BY <1>0, <1>1, <2>1, TeardownFacts DEF TodoInv
<1>3. Tail(main.todo) \in Seq(Names) /\ InOrder(Tail(main.todo))
  BY <1>1, <1>2, InOrderTail
<1>4. /\ main' \in MainType /\ main'.todo = Tail(main.todo) /\ main'.pc = main.pc
      /\ main'.cseq = main.cseq /\ main'.answer = main.answer /\ main'.plain = main.plain
      /\ main'.options = main.options /\ main'.pairing = main.pairing
      /\ main'.guarded = main.guarded /\ main'.teardowns = main.teardowns
      /\ main'.result = main.result /\ main'.recorded = main.recorded
  BY <1>0, <1>1, <1>3 DEF StateOK, MainType
<1>5. StateOK' /\ TodoInv' /\ EndInv'
  BY <1>0, <1>1, <1>3, <1>4 DEF StateOK, TodoInv, EndInv, Pairing
<1>6. PairInv'
  BY <1>0, <1>1, <1>4 DEF PairInv, Paired
<1>7. QuietStep
  BY <1>1, <1>4 DEF QuietStep
<1>8. VideoInv'
  BY <1>0, <1>1, <1>2, <1>4 DEF VideoInv, NothingSentYet
<1> QED BY <1>0, <1>5, <1>6, <1>7, <1>8, QuietFrame DEF AirPlayInv

LEMMA StartTimingKeeps ==
  ASSUME AirPlayInv, StartTiming
  PROVE  AirPlayInv'
<1>0. StateOK /\ TodoInv /\ EndInv /\ PairInv /\ CSeqInv /\ PartsInv /\ VideoInv
  BY DEF AirPlayInv
<1>1. main.pc = "timing" /\ UNCHANGED <<acc, record, stop, video, calls>>
  BY DEF StartTiming
<1>2. CASE main' = Return(1) /\ UNCHANGED thread
  BY <1>1, <1>2, ReturnKeeps
<1>3. CASE /\ main' = [main EXCEPT !.pc = "request"]
           /\ thread' = [thread EXCEPT !["timing"] = "running"]
  <2>1. /\ main'.pc = "request" /\ main'.result = main.result
        /\ main'.options = main.options /\ main'.todo = main.todo
        /\ main'.cseq = main.cseq /\ main'.plain = main.plain
        /\ main'.answer = main.answer /\ main'.pairing = main.pairing
        /\ main'.streams = main.streams /\ main'.guarded = main.guarded
        /\ main'.teardowns = main.teardowns /\ main'.recorded = main.recorded
        /\ main'.halted = main.halted /\ main'.asked = main.asked
        /\ main'.back = main.back
    BY <1>0, <1>3 DEF StateOK, MainType
  <2>2. StateOK'
    BY <1>0, <1>1, <1>3 DEF StateOK, MainType, Requesting
  <2>3. TodoInv' /\ EndInv'
    BY <1>0, <1>1, <1>3, <2>1 DEF StateOK, Threads, TodoInv, EndInv, Pairing, Streaming
  <2>4. PairInv'
    BY <1>0, <1>1, <2>1 DEF PairInv, Paired, Pairing, Requesting, Streaming
  <2>5. QuietStep
    BY <1>1, <2>1 DEF QuietStep
  <2>6. VideoInv'
    BY <1>0, <1>1, <2>1 DEF VideoInv, NothingSentYet, Pairing
  <2> QED BY <1>0, <2>2, <2>3, <2>4, <2>5, <2>6, QuietFrame DEF AirPlayInv
<1> QED BY <1>2, <1>3 DEF StartTiming

LEMMA ConnectEventsKeeps ==
  ASSUME AirPlayInv, ConnectEvents
  PROVE  AirPlayInv'
<1>0. StateOK /\ TodoInv /\ EndInv /\ PairInv /\ CSeqInv /\ PartsInv /\ VideoInv
  BY DEF AirPlayInv
<1>1. main.pc = "event" /\ UNCHANGED <<acc, record, stop, video, calls>>
  BY DEF ConnectEvents
<1>2. CASE main' = Return(1) /\ UNCHANGED thread
  BY <1>1, <1>2, ReturnKeeps
<1>3. CASE /\ main' = [main EXCEPT !.pc = "request", !.guarded = TRUE]
           /\ thread' = [thread EXCEPT !["event"] = "running"]
  <2>1. /\ main'.pc = "request" /\ main'.result = main.result
        /\ main'.options = main.options /\ main'.todo = main.todo
        /\ main'.cseq = main.cseq /\ main'.plain = main.plain
        /\ main'.answer = main.answer /\ main'.pairing = main.pairing
        /\ main'.streams = main.streams /\ main'.guarded = TRUE
        /\ main'.teardowns = main.teardowns /\ main'.recorded = main.recorded
        /\ main'.halted = main.halted /\ main'.asked = main.asked
        /\ main'.back = main.back
    BY <1>0, <1>3 DEF StateOK, MainType
  <2>2. StateOK'
    BY <1>0, <1>1, <1>3 DEF StateOK, MainType, Requesting
  <2>3. TodoInv' /\ EndInv'
    BY <1>0, <1>1, <1>3, <2>1 DEF StateOK, Threads, TodoInv, EndInv, Pairing, Streaming
  <2>4. PairInv'
    BY <1>0, <1>1, <2>1 DEF PairInv, Paired, Pairing, Requesting, Streaming
  <2>5. QuietStep
    BY <1>1, <2>1 DEF QuietStep
  <2>6. VideoInv'
    BY <1>0, <1>1, <2>1 DEF VideoInv, NothingSentYet, Pairing
  <2> QED BY <1>0, <2>2, <2>3, <2>4, <2>5, <2>6, QuietFrame DEF AirPlayInv
<1> QED BY <1>2, <1>3 DEF ConnectEvents

-----------------------------------------------------------------------------
(* The way out, the other threads, and the accessory *)

LEMMA StopStreamsKeeps ==
  ASSUME AirPlayInv, StopStreams
  PROVE  AirPlayInv'
<1>0. StateOK /\ TodoInv /\ EndInv /\ PairInv /\ CSeqInv /\ PartsInv /\ VideoInv
  BY DEF AirPlayInv
<1>1. /\ main'.pc = "senders" /\ main'.result = main.result
      /\ main'.options = main.options /\ main'.todo = main.todo
      /\ main'.cseq = main.cseq /\ main'.plain = main.plain
      /\ main'.answer = main.answer /\ main'.pairing = main.pairing
      /\ main'.streams = main.streams /\ main'.guarded = main.guarded
      /\ main'.teardowns = main.teardowns /\ main'.recorded = main.recorded
      /\ main'.asked = main.asked /\ main'.back = main.back
  BY <1>0 DEF StopStreams, StateOK, MainType
<1>2. StateOK'
  BY ZenonT(40), <1>0 DEF StopStreams, StateOK, MainType, Pairing, Requesting, Streaming, Leaving
<1>3. TodoInv' /\ EndInv'
  BY <1>0, <1>1 DEF StopStreams, StateOK, TodoInv, EndInv, Pairing, Streaming
<1>4. PairInv'
  BY <1>0, <1>1 DEF StopStreams, PairInv, Paired, Pairing, Requesting, Streaming
<1>5. QuietStep
  BY <1>0, <1>1 DEF StopStreams, QuietStep
<1>6. VideoInv'
  BY <1>0, <1>1 DEF StopStreams, TodoInv, VideoInv, NothingSentYet, Pairing
<1> QED BY <1>0, <1>2, <1>3, <1>4, <1>5, <1>6, QuietFrame DEF AirPlayInv

LEMMA JoinSendersKeeps ==
  ASSUME AirPlayInv, JoinSenders
  PROVE  AirPlayInv'
<1>0. StateOK /\ TodoInv /\ EndInv /\ PairInv /\ CSeqInv /\ PartsInv /\ VideoInv
  BY DEF AirPlayInv
<1>1. /\ main'.pc = "microphone" /\ main'.result = main.result
      /\ main'.options = main.options /\ main'.todo = main.todo
      /\ main'.cseq = main.cseq /\ main'.plain = main.plain
      /\ main'.answer = main.answer /\ main'.pairing = main.pairing
      /\ main'.streams = main.streams /\ main'.guarded = main.guarded
      /\ main'.teardowns = main.teardowns /\ main'.recorded = main.recorded
      /\ main'.halted = main.halted /\ main'.back = main.back
  BY <1>0 DEF JoinSenders, Threads, StateOK, MainType
<1>2. StateOK'
  <2>1. main \in MainType /\ main.asked \cup {"microphone"} \in SUBSET Threads
    BY <1>0 DEF StateOK, MainType, Threads
  <2>2. main' \in MainType
    BY <2>1 DEF JoinSenders, MainType, Streaming, Leaving
  <2> QED BY <1>0, <2>2 DEF JoinSenders, StateOK
<1>3. TodoInv' /\ EndInv'
  BY <1>0, <1>1 DEF JoinSenders, Threads, StateOK, TodoInv, EndInv, Pairing, Streaming
<1>4. PairInv'
  BY <1>0, <1>1 DEF JoinSenders, Threads, PairInv, Paired, Pairing, Requesting, Streaming
<1>5. QuietStep
  BY <1>0, <1>1 DEF JoinSenders, Threads, QuietStep
<1>6. VideoInv'
  BY <1>0, <1>1 DEF JoinSenders, Threads, TodoInv, VideoInv, NothingSentYet, Pairing
<1> QED BY <1>0, <1>2, <1>3, <1>4, <1>5, <1>6, QuietFrame DEF AirPlayInv

LEMMA JoinMicrophoneKeeps ==
  ASSUME AirPlayInv, JoinMicrophone
  PROVE  AirPlayInv'
<1>1. StateOK /\ EndInv
  BY DEF AirPlayInv
<1>2. /\ main.pc = "microphone" /\ main' = Teardown(main, "channels")
      /\ UNCHANGED <<acc, record, thread, stop, video, calls>>
      /\ main.result = 0 => main.recorded
      /\ thread' \in [Threads -> {"off", "launched", "blocked", "running", "waiting", "ended"}]
  BY <1>1 DEF JoinMicrophone, EndInv, StateOK
<1> QED BY <1>2, TeardownKeeps

LEMMA JoinChannelsKeeps ==
  ASSUME AirPlayInv, JoinChannels
  PROVE  AirPlayInv'
<1>0. StateOK /\ TodoInv /\ EndInv /\ PairInv /\ CSeqInv /\ PartsInv /\ VideoInv
  BY DEF AirPlayInv
<1>1. /\ main.pc = "channels" /\ main.plain = <<>> /\ acc \in AccType
      /\ UNCHANGED <<record, thread, stop, video, calls>>
  BY <1>0 DEF JoinChannels, PartsInv, StateOK
<1>2. /\ main' \in MainType /\ main'.pc \in {"channels", "returned"}
      /\ main'.todo = main.todo /\ main'.result = main.result
      /\ main'.cseq = main.cseq /\ main'.answer = main.answer /\ main'.plain = main.plain
      /\ main'.options = main.options /\ main'.pairing = main.pairing
      /\ main'.guarded = main.guarded /\ main'.teardowns = main.teardowns
      /\ main'.recorded = main.recorded
  BY <1>0 DEF JoinChannels, StateOK, MainType, Leaving, Threads
<1>3. (main'.pc = "channels" /\ acc' = acc) \/ acc' = NoAccessory
  BY <1>0 DEF JoinChannels, StateOK, MainType
<1>4. NoAccessory \in AccType
  <2>1. <<>> \in Seq(Requests) /\ <<>> \in Seq(Seq(Parts))
    OBVIOUS
  <2> QED BY <2>1 DEF NoAccessory, AccType, Peers
<1>5. StateOK' /\ TodoInv' /\ EndInv'
  BY <1>0, <1>1, <1>2, <1>3, <1>4 DEF StateOK, TodoInv, EndInv, Pairing, Streaming
<1>6. PairInv'
  BY <1>0, <1>1, <1>2, <1>3 DEF PairInv, Paired, NoAccessory, Pairing, Requesting, Streaming
<1>7. CSeqInv' /\ PartsInv'
  <2>1. CASE main'.pc = "channels" /\ acc' = acc
    <3>1. QuietStep
      BY <1>1, <1>2, <2>1 DEF QuietStep
    <3> QED BY <1>0, <3>1, QuietFrame
  <2>2. CASE acc' = NoAccessory
    BY <1>0, <1>1, <1>2, <2>2
       DEF CSeqInv, PartsInv, NoAccessory, FramesPaired, PlainPaired
  <2> QED BY <1>3, <2>1, <2>2
<1>8. VideoInv'
  BY <1>0, <1>1, <1>2 DEF VideoInv, NothingSentYet, Pairing
<1> QED BY <1>5, <1>6, <1>7, <1>8 DEF AirPlayInv

LEMMA RetryKeeps ==
  ASSUME AirPlayInv, Retry
  PROVE  AirPlayInv'
<1>0. StateOK /\ TodoInv /\ EndInv /\ PairInv /\ CSeqInv /\ PartsInv /\ VideoInv
  BY DEF AirPlayInv
<1>1. /\ main.options \in Options /\ main' = FreshMain(main.options)
      /\ main.pc = "returned" /\ thread' = [t \in Threads |-> "off"] /\ video' = NoVideo
      /\ UNCHANGED <<acc, record, stop>> /\ calls' = 2
  BY <1>0 DEF Retry, StateOK, MainType
<1>2. /\ main' \in MainType /\ InOrder(main'.todo) /\ main'.pc = "connect" /\ main'.result = -1
      /\ main'.plain = <<>> /\ main'.answer = <<>> /\ main'.cseq = 5 /\ main'.guarded = FALSE
  BY <1>1, FreshFacts DEF FreshMain
<1>3. StateOK'
  BY <1>0, <1>1, <1>2 DEF StateOK
<1>4. TodoInv' /\ EndInv' /\ PairInv'
  BY <1>1, <1>2 DEF TodoInv, EndInv, PairInv, Pairing, Requesting, Streaming, Threads
<1>5. CSeqInv' /\ PartsInv'
  BY <1>0, <1>1, <1>2 DEF CSeqInv, PartsInv, PlainPaired, Fits
<1>6. VideoInv'
  <2>1. <<>> \in Seq(Nat)
    OBVIOUS
  <2> QED BY <1>1, <1>2, <2>1 DEF NoVideo, VideoType, VideoInv
<1> QED BY <1>3, <1>4, <1>5, <1>6 DEF AirPlayInv

LEMMA ThreadKeeps ==
  ASSUME AirPlayInv, NEW t \in Threads, NEW from \in {"launched", "blocked", "running", "waiting"},
         NEW to \in {"blocked", "running", "waiting", "ended"}, Thread(t, from, to)
  PROVE  AirPlayInv'
<1>0. StateOK /\ TodoInv /\ EndInv /\ PairInv /\ CSeqInv /\ PartsInv /\ VideoInv
  BY DEF AirPlayInv
<1>1. /\ UNCHANGED <<main, acc, record, stop, video, calls>> /\ thread[t] = from
      /\ thread' = [thread EXCEPT ![t] = to]
  BY DEF Thread
<1>2. StateOK'
  BY <1>0, <1>1 DEF StateOK
<1>3. EndInv'
  <2>1. thread'["event"] # "off" => thread["event"] # "off"
    BY <1>0, <1>1 DEF StateOK, Threads
  <2> QED BY <1>0, <1>1, <2>1 DEF EndInv
<1>4. TodoInv' /\ PairInv' /\ CSeqInv' /\ PartsInv' /\ VideoInv'
  BY <1>0, <1>1 DEF TodoInv, PairInv, Paired, CSeqInv, PartsInv, VideoInv, NothingSentYet
<1> QED BY <1>2, <1>3, <1>4 DEF AirPlayInv

LEMMA ThreadsKeep ==
  ASSUME AirPlayInv, NEW t \in Threads,
         SenderConnected(t) \/ SenderPacket(t) \/ ThreadMoves(t) \/ ThreadFails(t)
  PROVE  AirPlayInv'
<1>1. \E from \in {"launched", "blocked", "running", "waiting"},
         to \in {"blocked", "running", "waiting", "ended"} : Thread(t, from, to)
  BY DEF SenderConnects, SenderConnected, SenderPacket, ThreadMoves, SenderWaits,
         SenderStops, ChannelStops, ThreadFails
<1> QED BY <1>1, ThreadKeeps

LEMMA AccessoryAnswersKeeps ==
  ASSUME AirPlayInv, AccessoryAnswers
  PROVE  AirPlayInv'
<1>0. StateOK /\ TodoInv /\ EndInv /\ PairInv /\ CSeqInv /\ PartsInv /\ VideoInv
  BY DEF AirPlayInv
<1>1. /\ acc.requests \in Seq(Requests) /\ acc.frames \in Seq(Seq(Parts)) /\ acc \in AccType
      /\ acc.requests # <<>> /\ UNCHANGED <<main, record, thread, stop, video, calls>>
      /\ FramesPaired(acc.frames) /\ PlainPaired(main.plain, acc.frames)
  BY <1>0 DEF AccessoryAnswers, StateOK, AccType, PartsInv
<1> DEFINE r == Head(acc.requests)
           s == acc.requests[2]
<1>2. /\ Len(acc.requests) \in Nat /\ Len(acc.requests) > 0 /\ r = acc.requests[1]
      /\ \A i \in 1 .. Len(acc.requests) : acc.requests[i] \in Requests
  BY <1>1
<1>3. r \in Requests /\ Fits(main, r)
  BY <1>0, <1>2 DEF CSeqInv
<1>4. ASSUME NEW q \in Requests, NEW part \in {"whole", "first", "second"}, NEW ok \in BOOLEAN
      PROVE  /\ Part(q, part, ok) \in Parts /\ Part(q, part, ok).part = part
             /\ Part(q, part, ok).cseq = q.cseq /\ Part(q, part, ok).name = q.name
             /\ Fits(main, q) => Fits(main, Part(q, part, ok))
  BY DEF Part, Parts, Requests, Fits
<1>5. main.pc # "returned"
  BY <1>0, <1>1 DEF CSeqInv
(* What remains of the requests, and what is added to the frames *)
<1>6. ASSUME NEW requests \in Seq(Requests), NEW added \in Seq(Seq(Parts)), added # <<>>,
             \A i \in 1 .. Len(requests) : Fits(main, requests[i]),
             \A i \in 1 .. Len(added) : \A j \in 1 .. Len(added[i]) : Fits(main, added[i][j]),
             FramesPaired(acc.frames \o added),
             acc' = [acc EXCEPT !.requests = requests, !.frames = acc.frames \o added]
      PROVE  AirPlayInv'
  <2> DEFINE f == acc.frames \o added
  <2>1. /\ Len(acc.frames) \in Nat /\ Len(added) \in Nat /\ Len(f) = Len(acc.frames) + Len(added)
        /\ \A i \in 1 .. Len(acc.frames) : f[i] = acc.frames[i]
        /\ \A i \in 1 .. Len(added) : f[Len(acc.frames) + i] = added[i]
        /\ f \in Seq(Seq(Parts))
    BY SMTT(30), <1>1, <1>6
  <2>2. /\ acc' \in AccType /\ acc'.requests = requests /\ acc'.frames = f
        /\ acc'.peer = acc.peer
    BY <1>1, <1>6, <2>1 DEF AccType
  <2>3. FramesPaired(f)
    BY <1>6
  <2> HIDE DEF f
  <2>4. StateOK' /\ TodoInv' /\ EndInv'
    BY <1>0, <1>1, <2>2 DEF StateOK, TodoInv, EndInv
  <2>5. PairInv' /\ VideoInv'
    BY <1>0, <1>1, <2>2 DEF PairInv, Paired, VideoInv, NothingSentYet
  <2>6. ASSUME NEW i \in 1 .. Len(f), NEW j \in 1 .. Len(f[i]) PROVE Fits(main, f[i][j])
    <3>1. CASE i \in 1 .. Len(acc.frames)
      BY <1>0, <2>1, <3>1 DEF CSeqInv
    <3>2. CASE i > Len(acc.frames)
      <4>1. /\ i - Len(acc.frames) \in 1 .. Len(added)
            /\ i = Len(acc.frames) + (i - Len(acc.frames))
        BY <2>1, <3>2, Beyond
      <4>2. f[i] = added[i - Len(acc.frames)]
        BY <2>1, <4>1
      <4> QED BY <1>6, <4>1, <4>2
    <3> QED BY <2>1, <3>1, <3>2
  <2>7. CSeqInv'
    BY <1>0, <1>1, <1>5, <1>6, <2>2, <2>6 DEF CSeqInv
  <2>8. PlainPaired(main.plain, f)
    <3>1. Len(acc.frames) > 0 => Len(f) > 0 /\ f[1] = acc.frames[1]
      BY <2>1
    <3> QED BY <1>1, <3>1 DEF PlainPaired
  <2>9. PartsInv'
    BY <1>0, <1>1, <2>2, <2>3, <2>8 DEF PartsInv
  <2> QED BY <2>4, <2>5, <2>7, <2>9 DEF AirPlayInv
<1>7. PICK ok \in BOOLEAN :
        \/ acc' = [acc EXCEPT !.requests = Tail(@),
                              !.frames = Append(@, <<Part(r, "whole", ok)>>)]
        \/ acc' = [acc EXCEPT !.requests = Tail(@),
                              !.frames = @ \o <<<<Part(r, "first", ok)>>,
                                                <<Part(r, "second", ok)>>>>]
        \/ /\ Len(acc.requests) > 1
           /\ acc' = [acc EXCEPT !.requests = SubSeq(@, 3, Len(@)),
                                 !.frames = Append(@, <<Part(r, "whole", ok),
                                                        Part(s, "whole", ok)>>)]
  BY <1>1 DEF AccessoryAnswers, AccType
<1>8. /\ Tail(acc.requests) \in Seq(Requests)
      /\ \A i \in 1 .. Len(Tail(acc.requests)) : Fits(main, Tail(acc.requests)[i])
  <2>1. /\ Tail(acc.requests) \in Seq(Requests)
        /\ Len(Tail(acc.requests)) = Len(acc.requests) - 1
        /\ \A i \in 1 .. Len(acc.requests) - 1 : Tail(acc.requests)[i] = acc.requests[i + 1]
    BY <1>1
  <2>2. \A i \in 1 .. Len(acc.requests) - 1 : i + 1 \in 1 .. Len(acc.requests)
    BY <1>2
  <2> QED BY <1>0, <2>1, <2>2 DEF CSeqInv
<1> DEFINE w == Part(r, "whole", ok)
           a == Part(r, "first", ok)
           b == Part(r, "second", ok)
<1>9. /\ w \in Parts /\ w.part = "whole" /\ Fits(main, w)
      /\ a \in Parts /\ b \in Parts /\ Fits(main, a) /\ Fits(main, b) /\ Completes(a, b)
  BY <1>3, <1>4 DEF Completes
<1> HIDE DEF r
<1>10. CASE acc' = [acc EXCEPT !.requests = Tail(@), !.frames = Append(@, <<w>>)]
  <2> HIDE DEF w
  <2>1. /\ <<w>> \in Seq(Parts) /\ Len(<<w>>) = 1 /\ <<w>>[1] = w
        /\ \A j \in 1 .. Len(<<w>>) : <<w>>[j] = w
    BY <1>9
  <2> DEFINE added == <<<<w>>>>
  <2>2. /\ added \in Seq(Seq(Parts)) /\ added # <<>> /\ Len(added) = 1 /\ added[1] = <<w>>
        /\ Append(acc.frames, <<w>>) = acc.frames \o added
    <3>1. Append(acc.frames, <<w>>) = acc.frames \o added
      BY <1>1, <2>1, AppendIsConcat
    <3> QED BY <2>1, <3>1
  <2>3. FramesPaired(Append(acc.frames, <<w>>))
    BY <1>1, <1>9, <2>1, FrameSent
  <2> HIDE DEF added
  <2>4. \A i \in 1 .. Len(added) : \A j \in 1 .. Len(added[i]) : Fits(main, added[i][j])
    BY <1>9, <2>1, <2>2
  <2> QED BY <1>6, <1>8, <1>10, <2>2, <2>3, <2>4
<1>11. CASE acc' = [acc EXCEPT !.requests = Tail(@), !.frames = @ \o <<<<a>>, <<b>>>>]
  <2> HIDE DEF a, b
  <2> DEFINE added == <<<<a>>, <<b>>>>
  <2>1. /\ <<a>> \in Seq(Parts) /\ <<b>> \in Seq(Parts)
        /\ \A j \in 1 .. Len(<<a>>) : <<a>>[j] = a
        /\ \A j \in 1 .. Len(<<b>>) : <<b>>[j] = b
    <3>1. <<a>> \in Seq(Parts) /\ \A j \in 1 .. Len(<<a>>) : <<a>>[j] = a
      BY <1>9
    <3>2. <<b>> \in Seq(Parts) /\ \A j \in 1 .. Len(<<b>>) : <<b>>[j] = b
      BY <1>9
    <3> QED BY <3>1, <3>2
  <2>2. /\ added \in Seq(Seq(Parts)) /\ added # <<>>
        /\ \A i \in 1 .. Len(added) : added[i] = <<a>> \/ added[i] = <<b>>
    BY <2>1
  <2>3. FramesPaired(acc.frames \o added)
    BY <1>1, <1>9, TwoFramesSent
  <2>5. acc' = [acc EXCEPT !.requests = Tail(@), !.frames = @ \o added]
    BY <1>11
  <2> HIDE DEF added
  <2>4. \A i \in 1 .. Len(added) : \A j \in 1 .. Len(added[i]) : Fits(main, added[i][j])
    BY <1>9, <2>1, <2>2
  <2> QED BY <1>6, <1>8, <2>2, <2>3, <2>4, <2>5
<1>12. CASE /\ Len(acc.requests) > 1
            /\ acc' = [acc EXCEPT !.requests = SubSeq(@, 3, Len(@)),
                                  !.frames = Append(@, <<w, Part(s, "whole", ok)>>)]
  <2> DEFINE v == Part(s, "whole", ok)
             q == SubSeq(acc.requests, 3, Len(acc.requests))
  <2>1. v \in Parts /\ v.part = "whole" /\ Fits(main, v)
    <3>1. 2 \in 1 .. Len(acc.requests)
      BY <1>2, <1>12
    <3>2. s \in Requests /\ Fits(main, s)
      BY <1>0, <1>2, <3>1 DEF CSeqInv
    <3> HIDE DEF s
    <3> QED BY <1>4, <3>2
  <2>2. q \in Seq(Requests) /\ \A i \in 1 .. Len(q) : Fits(main, q[i])
    <3>1. /\ q \in Seq(Requests) /\ Len(q) = Len(acc.requests) - 2
          /\ \A i \in 1 .. Len(acc.requests) - 2 : q[i] = acc.requests[i + 2]
      BY <1>1, <1>2, <1>12
    <3>2. \A i \in 1 .. Len(acc.requests) - 2 : i + 2 \in 1 .. Len(acc.requests)
      BY <1>2
    <3> HIDE DEF q
    <3> QED BY <1>0, <3>1, <3>2 DEF CSeqInv
  <2> HIDE DEF w, v, q
  <2> DEFINE two == <<w, v>>
             added == <<two>>
  <2>3. /\ two \in Seq(Parts) /\ Len(two) = 2
        /\ \A j \in 1 .. Len(two) : two[j] = w \/ two[j] = v
    BY <1>9, <2>1
  <2>4. acc' = [acc EXCEPT !.requests = q, !.frames = Append(@, two)]
    BY <1>12 DEF v, q
  <2> HIDE DEF two
  <2>5. /\ added \in Seq(Seq(Parts)) /\ added # <<>> /\ Len(added) = 1 /\ added[1] = two
        /\ Append(acc.frames, two) = acc.frames \o added
    <3>1. Append(acc.frames, two) = acc.frames \o added
      BY <1>1, <2>3, AppendIsConcat
    <3> QED BY <2>3, <3>1
  <2>6. FramesPaired(Append(acc.frames, two))
    BY <1>1, <1>9, <2>1, <2>3, FrameSent
  <2> HIDE DEF added
  <2>7. \A i \in 1 .. Len(added) : \A j \in 1 .. Len(added[i]) : Fits(main, added[i][j])
    BY <1>9, <2>1, <2>3, <2>5
  <2> QED BY <1>6, <2>2, <2>4, <2>5, <2>6, <2>7
<1> QED BY <1>7, <1>10, <1>11, <1>12

LEMMA AccessoryClosesKeeps ==
  ASSUME AirPlayInv, AccessoryCloses
  PROVE  AirPlayInv'
<1>0. StateOK /\ TodoInv /\ EndInv /\ PairInv /\ CSeqInv /\ PartsInv /\ VideoInv
  BY DEF AirPlayInv
<1>1. /\ UNCHANGED <<main, record, thread, stop, video, calls>> /\ acc' \in AccType
      /\ acc'.frames = acc.frames /\ acc'.requests = <<>> /\ acc'.peer = acc.peer
  <2>1. <<>> \in Seq(Requests)
    OBVIOUS
  <2> QED BY <1>0, <2>1 DEF AccessoryCloses, StateOK, AccType
<1>2. StateOK' /\ TodoInv' /\ EndInv' /\ PairInv' /\ VideoInv'
  BY <1>0, <1>1
     DEF StateOK, TodoInv, EndInv, PairInv, Paired, VideoInv, NothingSentYet
<1>3. CSeqInv' /\ PartsInv'
  BY <1>0, <1>1 DEF CSeqInv, PartsInv
<1> QED BY <1>2, <1>3 DEF AirPlayInv

LEMMA UnchangedKeeps ==
  ASSUME AirPlayInv, UNCHANGED <<main, acc, record, thread, video, calls>>, stop' \in BOOLEAN
  PROVE  AirPlayInv'
BY DEF AirPlayInv, StateOK, TodoInv, EndInv, PairInv, Paired, CSeqInv, PartsInv, VideoInv,
       NothingSentYet

-----------------------------------------------------------------------------
LEMMA MainStep ==
  ASSUME AirPlayInv, Main
  PROVE  AirPlayInv'
BY ConnectKeeps, PairSetupChallengeKeeps, PairSetupProofKeeps, PairSetupIdentityKeeps,
   PairVerifyAccessoryKeeps, PairVerifyControllerKeeps, PairingFailsKeeps, SendRequestKeeps,
   SkipStreamKeeps, ReceiveFrameKeeps, NoAnswerKeeps, StartTimingKeeps, ConnectEventsKeeps,
   LaunchKeeps, SourceKeeps, StartupUnitKeeps, StartupEndsKeeps, OpenDataKeeps, SendFirstKeeps,
   SendUnitKeeps, SendUnitFailsKeeps, VideoEndsKeeps, StopStreamsKeeps, JoinSendersKeeps,
   JoinMicrophoneKeeps, JoinChannelsKeeps, RetryKeeps DEF Main

LEMMA AirPlayStep == AirPlayInv /\ [Next]_vars => AirPlayInv'
<1> SUFFICES ASSUME AirPlayInv, [Next]_vars PROVE AirPlayInv'
  OBVIOUS
<1>0. stop \in BOOLEAN
  BY DEF AirPlayInv, StateOK
<1>1. CASE Main \/ SourceConnected
  BY <1>1, MainStep, SourceKeeps
<1>2. CASE \E t \in Senders : SenderConnected(t) \/ SenderPacket(t)
  <2>1. Senders \subseteq Threads
    BY DEF Threads
  <2> QED BY <1>2, <2>1, ThreadsKeep
<1>3. CASE \E t \in Threads : ThreadMoves(t) \/ ThreadFails(t)
  BY <1>3, ThreadsKeep
<1>4. CASE AccessoryAnswers \/ AccessoryCloses
  BY <1>4, AccessoryAnswersKeeps, AccessoryClosesKeeps
<1>5. CASE StopRequested
  BY <1>5, UnchangedKeeps DEF StopRequested
<1>6. CASE Finished \/ UNCHANGED vars
  BY <1>0, <1>6, UnchangedKeeps DEF Finished, vars
<1> QED BY <1>1, <1>2, <1>3, <1>4, <1>5, <1>6 DEF Next

(* The invariant of run_session and its caller holds in every reachable     *)
(* state, for any options and any number of accessories.                    *)
THEOREM AirPlayInvariant == Spec => []AirPlayInv
<1>1. Init => AirPlayInv
  BY InitAirPlay
<1>2. AirPlayInv /\ [Next]_vars => AirPlayInv'
  BY AirPlayStep
<1> QED BY <1>1, <1>2, PTL DEF Spec

-----------------------------------------------------------------------------
(* Encrypted requests only go to the accessory of the pairing record, also  *)
(* when the record is from an earlier run or another head unit has taken    *)
(* the address since (Pair-Verify in run_session).                          *)
THEOREM RequestsToPairedOnly == Spec => []OnlyThePairedAccessory
<1>1. AirPlayInv => OnlyThePairedAccessory
  BY DEF AirPlayInv, PairInv, Paired, OnlyThePairedAccessory
<1> QED BY <1>1, AirPlayInvariant, PTL

(* What send_encrypted returns is the answer to the request it sent,        *)
(* however late, split or packed together the accessory's answers are.      *)
THEOREM AnswersMatch == Spec => []AnswerMatchesRequest
<1>1. AirPlayInv => AnswerMatchesRequest
  BY DEF AirPlayInv, CSeqInv, AnswerMatchesRequest
<1> QED BY <1>1, AirPlayInvariant, PTL

(* Every session whose event channel was up has tried TEARDOWN exactly once *)
(* when run_session returns, and zero is returned only after RECORD.        *)
THEOREM SessionsEndProperly == Spec => []EndsProperly
<1>1. AirPlayInv => EndsProperly
  <2> SUFFICES ASSUME AirPlayInv PROVE EndsProperly
    OBVIOUS
  <2>0. StateOK /\ TodoInv /\ EndInv
    BY DEF AirPlayInv
  <2>1. main.pc \in {"request", "response"} => main.todo # <<>>
    <3>1. ASSUME main.pc \in {"request", "response"} PROVE main.todo # <<>>
      <4>1. main.todo \in Seq(Names)
        BY <2>0 DEF StateOK, MainType
      <4> QED BY <2>0, <3>1, <4>1, HeadTodo DEF TodoInv
    <3> QED BY <3>1
  <2>2. TypeOK
    BY <2>0, <2>1 DEF StateOK, MainType, AccType, Peers, TypeOK, Pairing, Requesting,
                      Streaming, Leaving
  <2>3. TeardownOnce /\ ZeroOnlyAfterRecord
    BY <2>0 DEF EndInv, TeardownOnce, ZeroOnlyAfterRecord
  <2> QED BY <2>2, <2>3 DEF EndsProperly
<1> QED BY <1>1, AirPlayInvariant, PTL

(* The live screen stream starts with a keyframe, and with nothing missing  *)
(* after it when the configuration came before the first keyframe.          *)
THEOREM StreamStartsDecodable == Spec => []StreamDecodable
<1>1. AirPlayInv => StreamDecodable
  <2> SUFFICES ASSUME AirPlayInv PROVE StreamDecodable
    OBVIOUS
  <2>1. VideoInv /\ video \in VideoType
    BY DEF AirPlayInv, VideoInv
  <2>2. video.keys \subseteq Nat /\ video.key \in Nat
    BY <2>1 DEF VideoType
  <2> QED BY <2>1, <2>2 DEF VideoInv, StreamDecodable
<1> QED BY <1>1, AirPlayInvariant, PTL
=============================================================================
