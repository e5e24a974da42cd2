---------------------------- MODULE AirPlaySession ----------------------------
(***************************************************************************)
(* run_session of airplay/session.cpp and the retry of its caller: the     *)
(* connection to the accessory's AirPlay port, Pair-Setup and Pair-Verify, *)
(* the encrypted RTSP requests up to RECORD, the threads of the timing,    *)
(* event, microphone and audio channels, the start of the video stream,    *)
(* and the order in which the guards and threads are destroyed.            *)
(*                                                                         *)
(* The accessory is external: it answers requests in their order, when it  *)
(* likes, accepts or refuses, cuts an answer into two encrypted frames or  *)
(* packs two answers into one, and may close the connection.  Keys are     *)
(* abstracted to the accessory that holds them.                            *)
(***************************************************************************)
EXTENDS Integers, Sequences, FiniteSets

CONSTANTS
  Accessories,  \* head units that may answer at the AirPlay port
  Options,      \* what SessionOptions and the capabilities of /info ask for
  PairingStore, \* is SessionOptions::pairing_store set?
  MaxUnits,     \* bound on video access units
  None

Optional == {"microphone", "guidance", "system"}
Senders == {"media", "guidance", "system"}
Threads == {"timing", "event", "microphone"} \cup Senders

ASSUME AirPlayAssumption ==
  /\ None \notin Accessories
  /\ Options \subseteq [source : {"none", "file", "live"},
                       streams : SUBSET (Optional \cup Senders)]
  /\ PairingStore \in BOOLEAN
  /\ MaxUnits \in Nat

VARIABLES
  main,     \* the thread in run_session and its locals
  acc,      \* the accessory and the control connection to it
  record,   \* the accessory of the pairing record on disk
  thread,   \* state of the other threads
  stop,     \* stop_requested()
  video,    \* the access units of the live stream
  calls     \* calls of run_session in this session

vars == <<main, acc, record, thread, stop, video, calls>>

(* Requests in their order, SETUP of a stream only where it is asked for.   *)
Todo(streams) ==
  LET Asked(name) == IF name \in streams THEN <<name>> ELSE <<>>
  IN  <<"info", "setup">> \o Asked("microphone") \o Asked("media") \o Asked("guidance")
        \o Asked("system") \o <<"screen", "record">>

FreshMain(options) ==
  [pc |-> "connect", result |-> -1,
   options |-> options,
   todo |-> Todo(options.streams),
   cseq |-> 5,            \* CSeq of the last request
   plain |-> <<>>,        \* response_plaintext of send_encrypted
   answer |-> <<>>,       \* history: request sent, request its answer is for
   pairing |-> None,      \* pairing.accessory_public_key
   streams |-> {},        \* streams the accessory has accepted
   guarded |-> FALSE,     \* is TeardownGuard constructed?
   teardowns |-> 0,       \* TEARDOWN requests encrypted
   recorded |-> FALSE,    \* RECORD was accepted; StreamStopGuard exists
   halted |-> FALSE,      \* stop_streams() was called
   asked |-> {},          \* threads whose stop_token was set
   back |-> "streams"]    \* where send_teardown returns to

NoAccessory ==
  [peer |-> None, open |-> FALSE,
   intact |-> TRUE,       \* no request was cut off in the middle
   requests |-> <<>>,     \* requests not yet answered
   frames |-> <<>>]       \* encrypted frames on the way back

NoVideo ==
  [next |-> 1,            \* number of the next access unit
   config |-> FALSE,      \* avcc_config found SPS and PPS
   started |-> FALSE,     \* startup_keyframe
   key |-> 0,             \* the keyframe kept in initial_access_units
   sent |-> <<>>,         \* history: access units sent, by number
   keys |-> {},           \* history: numbers of keyframes
   early |-> TRUE]        \* history: the configuration preceded all keyframes

Init ==
  /\ \E options \in Options : main = FreshMain(options)
  /\ acc = NoAccessory
  /\ record = None
  /\ thread = [t \in Threads |-> "off"]
  /\ stop = FALSE
  /\ video = NoVideo
  /\ calls = 1

-----------------------------------------------------------------------------
(* Leaving run_session *)

(* return 1, or 0, from anywhere: destructors run next. *)
Return(result) == [main EXCEPT !.pc = "streams", !.result = result, !.todo = <<>>]

(* connect_tcp_with_timeout on the AirPlay port; the record is loaded.      *)
Connect ==
  /\ main.pc = "connect"
  /\ \/ \E peer \in Accessories :
          /\ acc' = [NoAccessory EXCEPT !.peer = peer, !.open = TRUE]
          /\ main' = IF record # None
                     THEN [main EXCEPT !.pc = "verify1", !.pairing = record]
                     ELSE [main EXCEPT !.pc = "setup1"]
     \/ main' = Return(1) /\ UNCHANGED acc
  /\ UNCHANGED <<record, thread, stop, video, calls>>

(* An exchange of the pairing failed: not sent, no answer, closed, stopped, *)
(* refused, malformed, wrong state, wrong proof or wrong signature.         *)
PairingFails ==
  /\ main.pc \in {"setup1", "setup3", "setup5", "verify1", "verify3"}
  /\ main' = Return(1)
  /\ UNCHANGED <<acc, record, thread, stop, video, calls>>

(* M1/M2 and M3/M4 of Pair-Setup: the peer proves it knows the code. *)
PairSetupChallenge ==
  /\ main.pc = "setup1" /\ acc.open
  /\ main' = [main EXCEPT !.pc = "setup3"]
  /\ UNCHANGED <<acc, record, thread, stop, video, calls>>

PairSetupProof ==
  /\ main.pc = "setup3" /\ acc.open
  /\ main' = [main EXCEPT !.pc = "setup5"]
  /\ UNCHANGED <<acc, record, thread, stop, video, calls>>

(* M5/M6: the accessory's key, signed, becomes the pairing record.  Saving  *)
(* may fail, after the accessory has stored its side.                       *)
PairSetupIdentity ==
  /\ main.pc = "setup5" /\ acc.open
  /\ \/ /\ main' = [main EXCEPT !.pc = "verify1", !.pairing = acc.peer]
        /\ record' = IF PairingStore THEN acc.peer ELSE record
     \/ /\ PairingStore
        /\ main' = Return(1)
        /\ UNCHANGED record
  /\ UNCHANGED <<acc, thread, stop, video, calls>>

(* Mutation: the signature in M2 is checked against the key the peer sends *)
PairVerifyPresentedKey ==
  /\ main.pc = "verify1" /\ acc.open
  /\ main' = [main EXCEPT !.pc = "verify3"]
  /\ UNCHANGED <<acc, record, thread, stop, video, calls>>

(* Pair-Verify M1/M2: the peer signs with the key of the record. *)
PairVerifyAccessory ==
  /\ main.pc = "verify1" /\ acc.open
  /\ acc.peer = main.pairing
  /\ main' = [main EXCEPT !.pc = "verify3"]
  /\ UNCHANGED <<acc, record, thread, stop, video, calls>>

(* Pair-Verify M3/M4, and the keys of the control channel. *)
PairVerifyController ==
  /\ main.pc = "verify3" /\ acc.open
  /\ main' = [main EXCEPT !.pc = "request"]
  /\ UNCHANGED <<acc, record, thread, stop, video, calls>>

-----------------------------------------------------------------------------
(* send_encrypted *)

(* Mutation: a failed request closes the control connection at once *)
FailAndClose(m) ==
  [m EXCEPT !.pc = "streams", !.result = 1, !.todo = <<>>, !.guarded = FALSE]

(* Mutation: a request cut off by the stop is no failure *)
FailUnlessStopped(m) ==
  [m EXCEPT !.pc = "streams", !.result = IF stop THEN 0 ELSE 1, !.todo = <<>>]

(* A required request failed: return 1, with the connection still open once *)
(* TeardownGuard exists.                                                    *)
Fail(m) == [m EXCEPT !.pc = "streams", !.result = 1, !.todo = <<>>]

(* What run_session does with the answer of a request, or with its failure. *)
After(main0, name, ok) ==
  LET m == [main0 EXCEPT !.plain = <<>>]
      rest == [m EXCEPT !.pc = "request", !.todo = Tail(@)]
  IN  IF name = "teardown" THEN [m EXCEPT !.pc = m.back]
      ELSE IF ~ok THEN IF name \in Optional THEN rest ELSE Fail(m)
      ELSE CASE name \in Optional \cup {"media"} -> [rest EXCEPT !.streams = @ \cup {name}]
             [] name = "info" -> [rest EXCEPT !.pc = "timing"]
             [] name = "setup" -> [rest EXCEPT !.pc = "event"]
             [] name = "screen" -> rest
             [] name = "record" -> [rest EXCEPT !.pc = "launch", !.recorded = TRUE]

(* The microphone's receiver starts when its SETUP is accepted. *)
Started(name, ok) ==
  IF name = "microphone" /\ ok THEN [thread EXCEPT !["microphone"] = "running"]
  ELSE thread

(* encrypt, send_all.  A stop or the deadline may cut the request off: what *)
(* the accessory has read of it makes everything that follows unreadable.   *)
SendRequest ==
  /\ main.pc = "request"
  /\ LET name == Head(main.todo)
         m == [main EXCEPT !.cseq = @ + 1, !.answer = <<>>]
     IN  \/ /\ acc.open /\ (~stop \/ name = "teardown")
            /\ main' = [m EXCEPT !.pc = "response"]
            /\ acc' = IF acc.intact
                      THEN [acc EXCEPT !.requests = Append(@, [cseq |-> m.cseq, name |-> name])]
                      ELSE acc
            /\ UNCHANGED thread
         \/ /\ main' = After(m, name, FALSE)
            /\ \E cut \in BOOLEAN : acc' = [acc EXCEPT !.intact = @ /\ ~cut]
            /\ UNCHANGED thread
  /\ UNCHANGED <<record, stop, video, calls>>

(* No port, or no random identifier, for a stream that can be left out. *)
SkipStream ==
  /\ main.pc = "request" /\ Head(main.todo) \in Optional \cup {"media"}
  /\ main' = [main EXCEPT !.todo = Tail(@)]
  /\ UNCHANGED <<acc, record, thread, stop, video, calls>>

(* complete_response_size and parse_response on response_plaintext, a       *)
(* sequence of whole answers and of first and second parts of them.         *)
Complete(plain) ==
  \E i \in 1..Len(plain) :
    /\ plain[i].part \in {"whole", "second"}
    /\ plain[1].part = "second" => i > 1
Parses(plain) == plain[1].part # "second"

(* Mutation: the first answer read is taken *)
AnyAnswer(plain, cseq) == TRUE

(* The CSeq of the answer is the one expected. *)
Expected(plain, cseq) == plain[1].cseq = cseq

(* One frame decrypted.  An answer to an earlier request, which the wait    *)
(* for it gave up, is discarded; what follows it in response_plaintext is   *)
(* looked at with the next frame.                                           *)
ReceiveFrame ==
  /\ main.pc = "response"
  /\ acc.frames # <<>>
  /\ LET name == Head(main.todo)
         plain == main.plain \o Head(acc.frames)
         first == IF plain[1].part = "first" THEN 2 ELSE 1
         got == plain[first]
     IN  /\ acc' = [acc EXCEPT !.frames = Tail(@)]
         /\ \/ /\ ~Complete(plain)
               /\ main' = [main EXCEPT !.plain = plain]
               /\ UNCHANGED thread
            \/ /\ Complete(plain) /\ ~Parses(plain)
               /\ main' = After(main, name, FALSE)
               /\ UNCHANGED thread
            \/ /\ Complete(plain) /\ Parses(plain) /\ ~Expected(plain, main.cseq)
               /\ main' = [main EXCEPT !.plain = SubSeq(plain, first + 1, Len(plain))]
               /\ UNCHANGED thread
            \/ /\ Complete(plain) /\ Parses(plain) /\ Expected(plain, main.cseq)
               /\ main' = [After(main, name, got.ok) EXCEPT !.answer = <<name, got.name>>]
               /\ thread' = Started(name, got.ok)
  /\ UNCHANGED <<record, stop, video, calls>>

(* Timed out, stopped, closed by the accessory, or not decryptable. *)
NoAnswer ==
  /\ main.pc = "response"
  /\ main' = After(main, Head(main.todo), FALSE)
  /\ UNCHANGED <<acc, record, thread, stop, video, calls>>

(* bind_udp_socket and service_timing_channel *)
StartTiming ==
  /\ main.pc = "timing"
  /\ \/ /\ main' = [main EXCEPT !.pc = "request"]
        /\ thread' = [thread EXCEPT !["timing"] = "running"]
     \/ /\ main' = Return(1)
        /\ UNCHANGED thread
  /\ UNCHANGED <<acc, record, stop, video, calls>>

(* The event connection; without it the session that SETUP has made is      *)
(* left without TEARDOWN, whose guard comes after it.                       *)
ConnectEvents ==
  /\ main.pc = "event"
  /\ \/ /\ main' = [main EXCEPT !.pc = "request", !.guarded = TRUE]
        /\ thread' = [thread EXCEPT !["event"] = "running"]
     \/ /\ main' = Return(1)
        /\ UNCHANGED thread
  /\ UNCHANGED <<acc, record, stop, video, calls>>

(* Mutation: nothing remembers that TEARDOWN was tried *)
TeardownAgain(m, back) ==
  IF ~m.guarded THEN [m EXCEPT !.pc = back]
  ELSE [m EXCEPT !.pc = "request", !.todo = <<"teardown">>,
                 !.teardowns = @ + 1, !.back = back]

(* send_teardown: at most once, and only over an open control socket. *)
Teardown(m, back) ==
  IF m.teardowns > 0 \/ ~m.guarded THEN [m EXCEPT !.pc = back]
  ELSE [m EXCEPT !.pc = "request", !.todo = <<"teardown">>,
                 !.teardowns = @ + 1, !.back = back]

(* A sender for each audio stream that was set up; a session without video  *)
(* ends here.                                                               *)
Launch ==
  /\ main.pc = "launch"
  /\ thread' = [t \in Threads |-> IF t \in Senders \cap main.streams THEN "launched"
                                  ELSE thread[t]]
  /\ main' = CASE main.options.source = "none" -> Teardown([main EXCEPT !.result = 0], "streams")
               [] main.options.source = "live" -> [main EXCEPT !.pc = "source"]
               [] main.options.source = "file" -> [main EXCEPT !.pc = "data"]
  /\ UNCHANGED <<acc, record, stop, video, calls>>

-----------------------------------------------------------------------------
(* The screen stream.  Access units that hold a picture are numbered.       *)

Kinds == {"config", "key", "keyconfig", "slice"}
IsKey(kind) == kind \in {"key", "keyconfig"}
HasConfig(kind) == kind \in {"config", "keyconfig"}

(* Mutation: the loop ends when both are seen, whatever unit was kept *)
KeepFirst(v, kind) ==
  [v EXCEPT !.key = IF @ = 0 /\ kind # "config" THEN v.next ELSE @,
            !.started = @ \/ IsKey(kind)]

(* initial_access_units: the last keyframe before the loop ends. *)
Keep(v, kind) ==
  [v EXCEPT !.key = IF IsKey(kind) THEN v.next ELSE @, !.started = @ \/ IsKey(kind)]

(* The first next_video_frame connects to the forwarder's socket.  With its *)
(* backlog full, connect blocks: it has no deadline and looks at no stop.   *)
ConnectSource ==
  /\ main.pc = "source"
  /\ \/ ~stop /\ main' \in {[main EXCEPT !.pc = pc] : pc \in {"startup", "blocked"}}
     \/ main' = Return(IF stop THEN 0 ELSE 1)
  /\ UNCHANGED <<acc, record, thread, stop, video, calls>>

(* The forwarder (external here) has accepted an earlier reader, which it   *)
(* only does when a frame for the reader it holds cannot be sent.           *)
SourceConnected ==
  /\ main.pc = "blocked"
  /\ main' \in {[main EXCEPT !.pc = "startup"], Return(IF stop THEN 0 ELSE 1)}
  /\ UNCHANGED <<acc, record, thread, stop, video, calls>>

(* Take an access unit from next_video_frame while waiting for SPS, PPS and *)
(* a keyframe.                                                              *)
StartupUnit ==
  /\ main.pc = "startup" /\ ~stop
  /\ ~(video.config /\ video.started)
  /\ \E kind \in Kinds :
       /\ kind # "config" => video.next <= MaxUnits
       /\ kind = "config" => ~video.config
       /\ video' = [Keep(video, kind) EXCEPT
                      !.config = @ \/ HasConfig(kind),
                      !.next = IF kind = "config" THEN @ ELSE @ + 1,
                      !.keys = IF IsKey(kind) THEN @ \cup {video.next} ELSE @,
                      !.early = @ /\ (IsKey(kind) => video.config \/ HasConfig(kind))]
  /\ UNCHANGED <<main, acc, record, thread, stop, calls>>

(* Both are there; or the stream ended, exceeded the limit, or was stopped. *)
StartupEnds ==
  /\ main.pc = "startup"
  /\ IF video.config /\ video.started THEN main' = [main EXCEPT !.pc = "data"]
     ELSE main' = Return(IF stop THEN 0 ELSE 1)
  /\ UNCHANGED <<acc, record, thread, stop, video, calls>>

(* The data connection and, as its first payload, the configuration.  A     *)
(* file may hold none.                                                      *)
OpenData ==
  /\ main.pc = "data"
  /\ \/ main' = [main EXCEPT !.pc = IF main.options.source = "live" THEN "first" ELSE "file"]
     \/ main' = Return(1)
  /\ UNCHANGED <<acc, record, thread, stop, video, calls>>

(* send_access_unit fails: error, deadline or stop. *)
SendUnitFails ==
  /\ main.pc \in {"first", "live", "file"}
  /\ main' = Return(1)
  /\ UNCHANGED <<acc, record, thread, stop, video, calls>>

SendFirst ==
  /\ main.pc = "first"
  /\ video' = [video EXCEPT !.sent = Append(@, video.key)]
  /\ main' = [main EXCEPT !.pc = "live"]
  /\ UNCHANGED <<acc, record, thread, stop, calls>>

(* One unit of the live stream, or of the file, whose units are all there.  *)
SendUnit ==
  /\ main.pc \in {"live", "file"} /\ ~stop
  /\ video.next <= MaxUnits
  /\ video' = [video EXCEPT !.sent = Append(@, video.next), !.next = @ + 1]
  /\ UNCHANGED <<main, acc, record, thread, stop, calls>>

(* The stream has ended, or the session is stopped. *)
VideoEnds ==
  /\ main.pc \in {"live", "file"}
  /\ main' = IF main.pc = "file" /\ stop THEN Return(0)
             ELSE Teardown([main EXCEPT !.result = 0], "streams")
  /\ UNCHANGED <<acc, record, thread, stop, video, calls>>

-----------------------------------------------------------------------------
(* Destructors, in the reverse order of construction *)

Ended(ts) == \A t \in ts : thread[t] \in {"off", "ended"}

(* Mutation: the readers of the audio streams are not interrupted *)
StopNothing ==
  /\ main.pc = "streams"
  /\ main' = [main EXCEPT !.pc = "senders"]
  /\ UNCHANGED <<acc, record, thread, stop, video, calls>>

(* StreamStopGuard *)
StopStreams ==
  /\ main.pc = "streams"
  /\ main' = [main EXCEPT !.pc = "senders", !.halted = @ \/ main.recorded]
  /\ UNCHANGED <<acc, record, thread, stop, video, calls>>

(* The senders look at no stop_token: their destructors only wait. *)
JoinSenders ==
  /\ main.pc = "senders" /\ Ended(Senders)
  /\ main' = [main EXCEPT !.pc = "microphone", !.asked = @ \cup {"microphone"}]
  /\ UNCHANGED <<acc, record, thread, stop, video, calls>>

(* The microphone's receiver, then TeardownGuard. *)
JoinMicrophone ==
  /\ main.pc = "microphone" /\ Ended({"microphone"})
  /\ main' = Teardown(main, "channels")
  /\ UNCHANGED <<acc, record, thread, stop, video, calls>>

(* The event channel, the timing channel, SocketGuard. *)
JoinChannels ==
  /\ main.pc = "channels"
  /\ \/ /\ "event" \notin main.asked
        /\ main' = [main EXCEPT !.asked = @ \cup {"event"}]
        /\ UNCHANGED acc
     \/ /\ "event" \in main.asked /\ Ended({"event"}) /\ "timing" \notin main.asked
        /\ main' = [main EXCEPT !.asked = @ \cup {"timing"}]
        /\ UNCHANGED acc
     \/ /\ "timing" \in main.asked /\ Ended({"timing"})
        /\ main' = [main EXCEPT !.pc = "returned"]
        /\ acc' = NoAccessory
  /\ UNCHANGED <<record, thread, stop, video, calls>>

(* run_bluetooth_worker tries once more after a failure. *)
Retry ==
  /\ main.pc = "returned" /\ main.result # 0
  /\ calls = 1 /\ ~stop
  /\ calls' = 2
  /\ main' = FreshMain(main.options)
  /\ thread' = [t \in Threads |-> "off"]
  /\ video' = NoVideo
  /\ UNCHANGED <<acc, record, stop>>

Main ==
  \/ Connect \/ PairSetupChallenge \/ PairSetupProof \/ PairSetupIdentity
  \/ PairVerifyAccessory \/ PairVerifyController \/ PairingFails
  \/ SendRequest \/ SkipStream \/ ReceiveFrame \/ NoAnswer
  \/ StartTiming \/ ConnectEvents \/ Launch \/ ConnectSource
  \/ StartupUnit \/ StartupEnds \/ OpenData \/ SendFirst \/ SendUnit
  \/ SendUnitFails \/ VideoEnds
  \/ StopStreams \/ JoinSenders \/ JoinMicrophone \/ JoinChannels \/ Retry

-----------------------------------------------------------------------------
(* The other threads *)

Thread(t, from, to) ==
  /\ thread[t] = from
  /\ thread' = [thread EXCEPT ![t] = to]
  /\ UNCHANGED <<main, acc, record, stop, video, calls>>

(* The first next() of a sender connects to the forwarder's socket, like    *)
(* next_video_frame, and may block as that does.                            *)
SenderConnects(t) ==
  ~stop /\ \E to \in {"waiting", "blocked"} : Thread(t, "launched", to)

(* The forwarder, external here, has made room in its backlog. *)
SenderConnected(t) == Thread(t, "blocked", "waiting")

(* A sender enters next(), which waits for a packet of Android Auto. *)
SenderWaits(t) == ~stop /\ Thread(t, "running", "waiting")

(* A packet has come; it is encrypted and sent. *)
SenderPacket(t) == ~stop /\ ~main.halted /\ Thread(t, "waiting", "running")

(* The loop sees the stop, or next() was interrupted by it. *)
SenderStops(t) ==
  \/ stop /\ \E from \in {"launched", "running"} : Thread(t, from, "ended")
  \/ (stop \/ main.halted) /\ Thread(t, "waiting", "ended")

(* The loops of the channels look at their stop_token every 100 ms. *)
ChannelStops(t) == t \in main.asked /\ Thread(t, "running", "ended")

(* No connection, a closed source, or an error on the socket ends a thread; *)
(* the timing channel has no such end.                                      *)
ThreadFails(t) ==
  /\ t # "timing"
  /\ \E from \in {"launched", "blocked", "running", "waiting"} : Thread(t, from, "ended")

ThreadMoves(t) ==
  IF t \in Senders THEN SenderConnects(t) \/ SenderWaits(t) \/ SenderStops(t)
  ELSE ChannelStops(t)

-----------------------------------------------------------------------------
(* The accessory, external, and the daemon *)

Part(r, part, ok) == [cseq |-> r.cseq, name |-> r.name, part |-> part, ok |-> ok]

AccessoryAnswers ==
  /\ acc.open /\ acc.requests # <<>>
  /\ \E ok \in BOOLEAN :
       LET r == Head(acc.requests)
           one == [acc EXCEPT !.requests = Tail(@)]
       IN  \/ acc' = [one EXCEPT !.frames = Append(@, <<Part(r, "whole", ok)>>)]
           \/ acc' = [one EXCEPT !.frames = @ \o <<<<Part(r, "first", ok)>>,
                                                  <<Part(r, "second", ok)>>>>]
           \/ /\ Len(acc.requests) > 1
              /\ acc' = [acc EXCEPT
                   !.requests = SubSeq(@, 3, Len(@)),
                   !.frames = Append(@, <<Part(r, "whole", ok),
                                          Part(acc.requests[2], "whole", ok)>>)]
  /\ UNCHANGED <<main, record, thread, stop, video, calls>>

AccessoryCloses ==
  /\ acc.open
  /\ acc' = [acc EXCEPT !.open = FALSE, !.requests = <<>>]
  /\ UNCHANGED <<main, record, thread, stop, video, calls>>

StopRequested ==
  /\ ~stop
  /\ stop' = TRUE
  /\ UNCHANGED <<main, acc, record, thread, video, calls>>

Finished ==
  /\ main.pc = "returned" /\ (main.result = 0 \/ calls = 2 \/ stop)
  /\ UNCHANGED vars

Next ==
  \/ Main \/ SourceConnected
  \/ \E t \in Senders : SenderConnected(t) \/ SenderPacket(t)
  \/ \E t \in Threads : ThreadMoves(t) \/ ThreadFails(t)
  \/ AccessoryAnswers \/ AccessoryCloses \/ StopRequested \/ Finished

Spec == Init /\ [][Next]_vars

(* The waits of run_session have a deadline or look at stop_requested, and  *)
(* the threads run; packets, answers and the stop itself may never come,    *)
(* nor may the room in a forwarder's backlog that connect_unix waits for.   *)
FairSpec ==
  /\ Spec
  /\ WF_vars(Main)
  /\ \A t \in Threads : WF_vars(ThreadMoves(t))

-----------------------------------------------------------------------------
Names == {"info", "setup", "media", "screen", "record", "teardown"} \cup Optional

TypeOK ==
  /\ main.pc \in {"connect", "setup1", "setup3", "setup5", "verify1", "verify3",
                  "request", "response", "timing", "event", "launch", "source",
                  "blocked", "startup", "data", "first", "live", "file",
                  "streams", "senders", "microphone", "channels", "returned"}
  /\ main.result \in {-1, 0, 1} /\ main.teardowns \in {0, 1}
  /\ main.pc \in {"request", "response"} => main.todo # <<>>
  /\ main.pairing \in Accessories \cup {None} /\ record \in Accessories \cup {None}
  /\ main.streams \subseteq Optional \cup Senders
  /\ acc.peer \in Accessories \cup {None}
  /\ thread \in [Threads -> {"off", "launched", "blocked", "running", "waiting",
                            "ended"}]
  /\ stop \in BOOLEAN /\ calls \in {1, 2}
  /\ main.answer \in {<<>>} \cup (Names \X Names)

(* An answer that comes after the wait for it was given up is never taken   *)
(* for the answer to a later request: what run_session acts on answers the  *)
(* request it sent (send_encrypted).                                        *)
AnswerMatchesRequest == main.answer # <<>> => main.answer[1] = main.answer[2]

(* Encrypted requests only go to the accessory that a pairing, this run's   *)
(* or an earlier one's, has recorded, and it is the one at the other end of *)
(* the connection (Pair-Setup, Pair-Verify).                                *)
OnlyThePairedAccessory ==
  main.cseq > 5 =>
    /\ main.pairing # None
    /\ acc.peer # None => acc.peer = main.pairing
    /\ PairingStore => record = main.pairing

(* However a session ends once its event channel is up, TEARDOWN has been   *)
(* tried exactly once when run_session returns (send_teardown, its guard).  *)
TeardownOnce ==
  main.pc = "returned" /\ thread["event"] # "off" => main.teardowns = 1

(* "Returns zero only after the encrypted RECORD phase": a session that was *)
(* stopped, refused or cut off before it is a failure for the caller.       *)
ZeroOnlyAfterRecord == main.result = 0 => main.recorded

(* Whichever of some thirty ways a session ends, the accessory is told once *)
(* and the caller is told the truth.                                        *)
EndsProperly == TypeOK /\ TeardownOnce /\ ZeroOnlyAfterRecord

(* The first unit of the screen stream is a keyframe; and when the phone's  *)
(* configuration came before its first keyframe nothing is missing from     *)
(* that keyframe on.                                                        *)
StreamDecodable ==
  main.options.source = "live" /\ video.sent # <<>> =>
    /\ video.sent[1] \in video.keys
    /\ video.early => /\ \A k \in video.keys : video.sent[1] <= k
                      /\ \A i \in 2..Len(video.sent) : video.sent[i] = video.sent[i - 1] + 1

Blocked == main.pc = "blocked" \/ \E t \in Senders : thread[t] = "blocked"

(* A stopped session, and one that has decided its result, returns: no      *)
(* destructor waits for ever for a thread that waits for Android Auto.  The *)
(* exception is a reader of Android Auto's media in connect_unix, behind    *)
(* the readers of earlier sessions in the backlog of a forwarder with       *)
(* nothing to send: neither stop_streams nor the stop ends that wait.       *)
SessionReturns == stop \/ main.result # -1 ~> main.pc = "returned" \/ Blocked
=============================================================================
