# A TLA+ model of aa2acp

aa2acp bridges wired Android Auto to wireless CarPlay: an Android phone is
plugged into the bridge, and the bridge appears to the car's head unit (the
*accessory*) as a CarPlay phone. This directory holds TLA+ modules that model
the parts of the program where order, concurrency and failure matter, the TLC
configurations that check them, and proofs checked by TLAPS.

`PROJECT.json` lists components, runs, mutants, hazards, findings, theorems,
and for every definition the lines of the source that it models.

## 1. Inventory

### The parts and their state

| Part | Source | State | Operations |
|---|---|---|---|
| iAP2 link layer | `iap2/link_layer.cpp` | link state, sequence numbers, adopted link parameters, `pending_` | `start`, `tick`, `send_control`, `receive` |
| Bootstrap | `iap2/bootstrap.cpp` | stage, challenge, certificate | `begin`, `handle` |
| CarPlay probe | `iap2/carplay_probe.cpp` | started, awaiting, done, failed, AirPlay endpoint | `begin`, `handle`, join handler |
| Session driver | `iap2_bt_main.cpp` | deadline, link, both conversations, `WifiCleanup`, AirPlay attempts | `run_bluetooth_worker`, confirmation of pairing, stop |
| CarPlay worker | `bridge/carplay_worker.cpp` | the forked child, a sequenced socket, `mutex_`, stop escalation | `run`, the child's command loop, destructor |
| Bridge daemon | `bridge_daemon_main.cpp` | configuration, management state, worker threads, request queue | Android Auto thread, preflight, scan, HTTP handlers, shutdown |
| Media forwarders | `bridge/media_forwarders.cpp` | bounded queue, byte count, keyframe and SPS/PPS, client | `push`, `forward`, `on_client_connected`, destructor |
| Event IPC | `bridge/carplay_ipc.cpp` | bounded queue, connection | `send`, `write`, `receive` |
| Android Auto receiver | `aa/wired_receiver.cpp` | USB hotplug, channels, input and microphone queues, capability worker | channel handlers, `stop` |
| AirPlay session | `airplay/session.cpp`, `rtsp.cpp`, `control_cipher.cpp` | RTSP sequence, streams, nonce counters, event channel | set-up, streaming, teardown |
| Pairing, networks | `iap2/bluez_pairing.cpp`, `iap2/network_manager.cpp` | agent's pending confirmation; none | D-Bus and `nmcli` calls |
| Pure parts | `bplist`, `csm`, `srp`, `crypto`, `h264_normalizer`, `config`, capabilities | none | conversions |

### How they interact

    phone --USB--> Android Auto thread --push--> media forwarders --UNIX socket--+
                        |                                                        |
    browser --HTTP--> handlers --prepare--> preflight thread                     |
                        |        \               |                               v
                        |         confirm        +--run()--> CarPlay worker child (forked)
                        +------------------------+             | session driver
                                                               |   iAP2 link <-> accessory
                                                               |   bootstrap, probe
                                                               |   Wi-Fi join
                                                               |   AirPlay (readers of media)
                                                               +--event IPC--> Android Auto thread

The Android Auto and preflight threads share one child through
`CarPlayWorker::run`, which holds `mutex_` for a whole session. The child reports
prompts and results over a socket; the browser's answers go back through it. One
Wi-Fi interface is either the management hotspot or a client of the accessory.

### What is hard, and what makes each part correct

- *Link*: both ends lose, delay and repeat frames; sequence numbers wrap. Correct
  if both streams arrive in order and once, nothing is taken as acknowledged too
  early, the link is only used when both sides agree on it, and nobody waits for
  ever.
- *Session*: messages come in any order and grouping, and the loop has six ways
  to end. Correct if no network is joined and no AirPlay started before the
  accessory is authenticated, the interface is given back, and an accessory that
  plays its part brings the session to its goal.
- *Worker and daemon*: two callers, a process that may crash or hang, late
  answers, unplugging, and a shutdown order. Correct if results, stops, kills and
  answers belong to the run they are used for, the state on show belongs to work
  in progress, and everything ends.
- *Media*: a producer that never waits, a reader that comes and goes. Correct if
  the reader's stream is in order and decodable, limits hold, destruction ends.
- *Event IPC*: a socket between two processes, either of which breaks off in
  the middle of a frame, is killed or restarted. Correct if a button press is
  handed over whole, once and in order, or given up for a reason.
- *Microphone*: unreliable datagrams, three bounded queues, drains posted from
  another thread. Correct if nothing is played twice or out of order and no
  packet waits in a queue nobody drains.
- *Android Auto receiver*: hotplug events of one thread, tasks of another, a
  worker thread per session, objects alive as long as somebody refers to them.
  Correct if the session kept belongs to the phone that is watched, unplugging is
  reported, the receiver waits for the next phone, and abandoned sessions end.
- *AirPlay*: late, cut and combined answers on one encrypted connection, and six
  threads to be ended in the right order. Correct if an answer is used for its own
  request, only the paired accessory is served, and every end of a session tells
  the accessory and returns.
- *Transactions of the UI*: see the plan.

## 2. Modules

| Module | Models | Lines of code it stands for |
|---|---|---|
| `PhoneLink` | `PhoneLink` (link layer), the two directions of the transport, an accessory | `link_layer.cpp`, `link_layer.hpp` |
| `CarPlaySession` | one call of `run_bluetooth_worker` with `BootstrapSession`, `CarPlayProbe` and `WifiCleanup` | `iap2_bt_main.cpp`, `bootstrap.cpp`, `carplay_probe.cpp` |
| `CarPlayWorker` | the child process, `run`, the daemon's threads, UI handlers that use them, shutdown | `carplay_worker.cpp`, `bridge_daemon_main.cpp`, the confirmation in `iap2_bt_main.cpp` and `bluez_pairing.cpp` |
| `MediaForwarder` | both media forwarders with their worker and reader | `media_forwarders.cpp` |
| `AirPlaySession` | one or two calls of `run_session`, its threads, an accessory | `airplay/session.cpp`, `rtsp.cpp`, the retry in `iap2_bt_main.cpp` |
| `EventPath` | event channel, `FrameSocketWriter`, socket, `FrameSocketReceiver` | `airplay/session.cpp`, `carplay_ipc.cpp` |
| `MicrophonePath` | replay window, the receiver's queue, `MicrophoneSession` | `airplay/session.cpp`, `wired_receiver.cpp` |
| `WiredReceiver` | hotplug, hub, `ControlSession` with its worker, `stop` | `wired_receiver.cpp` |
| `MessageChannel` | abstract: what a transport promises to the part above it | |

For each of them that is checked there is a module `MC...` that gives constants
their values, and a module `...Proofs` with its theorems (`MicrophoneProofs` for
`MicrophonePath`). The exact lines behind every definition are in `PROJECT.json`.

### MessageChannel

A channel takes numbered messages, hands them over in order and at most once,
and, if it is `Lossy`, may give up messages it has not handed over; a message is
handed over only when every earlier one was handed over or given up. Three
modules implement it: `PhoneLink` (not lossy: the control messages of the phone),
`EventPath` (lossy: frames through reconnections) and `MicrophonePath` (lossy:
packets through three queues). Each has `Channel == INSTANCE MessageChannel WITH`
the histories of its own, and checks `ImplementsChannel == Channel!Spec`.

### PhoneLink

Each variable names the field it stands for; histories (`sent`, `delivered`,
`accGot`) number control messages in the order they were sent, which the code
never sees. Actions: `Start`, `MarkerFails`, `Tick` (`RepeatSyn`, `Retransmit`),
`Submit` (`send_control` by its user), and one per branch of `receive` and
`handle_packet`; a packet given to `control_data_` may make it call
`send_control` up to `MaxReplies` times within the action. The accessory is
external: it repeats its SYN, sends, retransmits, breaks off, and acknowledges in
order. Channels are FIFO; a frame whose checksum fails is gone (`LoseFrame`), and
`ChannelCap` bounds frames in flight. Sequence numbers are taken modulo `SeqMod`
(256 in the code), windows are clamped to half of it (128). Time is left out: a
deadline may have passed whenever `tick` looks.

### CarPlaySession

`ctl` is what the callbacks of the link change; a call that may have several
outcomes is an operator that gives the set of the values it may leave. The window
of the link is the accessory's choice. A packet
of one or two messages goes to one conversation, chosen before it is read, as in
the callback. A session that is `cooperative` has everything external work; otherwise the
accessory sends anything, the link may die, joining may fail before or after the
interface has left its network, and `nmcli` may give up after its thirty seconds
while NetworkManager goes on; `ActivationEnds` then says how that ended, before or
after the session is over. A cooperative accessory is never late, except with the
answer to a request that could not be sent (`Unasked`). `Killed` is the daemon's
SIGKILL. The link's own behaviour is `PhoneLink`'s; here it delivers in order.

### CarPlayWorker

`BeginRun`, `TakePrompt`, `TakeResult`, `ConnectionLost`, `SendStop` and `Kill`
are the iterations of the loop in `run`, by the thread that holds the lock. The
child's command loop and its session thread are separate actors that share
`worker_stop_requested` and the pending confirmation. A confirmation from the
browser is two actions (`TakeDecision`, `SendDecision`), because the handler
releases the management lock between them. `Crash` may happen at any time.

### MediaForwarder

A frame is its number, size and whether it is a keyframe. `Push` is the whole of
`push` and `enqueue`; the worker's `Accept`, `OnClientConnected`, `SendConfig`,
`TakeFrame`, `SendFrame`, `Leave`, `Release` are cut where it lets go of the lock
or blocks. The destructor is two steps, `RequestStop` and `ShutdownClient`, and
then waits.

### AirPlaySession

`main` is the thread in `run_session` with its locals; its `pc` names the phase.
Pair-Setup and Pair-Verify are one action per exchange, encrypted requests are
`SendRequest`, `ReceiveFrame` and `NoAnswer` for every entry of `todo`, in which
optional streams appear only if the options ask for them. The accessory answers
when it likes, cuts one answer into two encrypted frames or packs two into one.
Keys are the accessory that holds them, so a key of another head unit is one that
does not fit. The end of a session follows the destruction of the guards:
`StopStreams`, `JoinSenders`, `JoinMicrophone`, `JoinChannels`. The first `next` of
a reader of media connects to its forwarder (`ConnectSource`, `SenderConnects`),
and may block there for as long as the forwarder has a full backlog (`Blocked`).
Property lists, packet layout and pacing are left out.

### EventPath

Requests of the accessory and frames of the socket are two units each, so that a
deadline, a kill or the end of a connection may come in between. An encrypted
frame of the accessory holds any number of units; `chan.behind` counts the whole
requests that came in a frame behind another and for which no frame has come
since. The backlog of `listen(.., 1)` holds two connections. `Take`,
`Connect`, `SendUnit`, `SendFails`, `Sleep` and `WriterEnds` are the writer's
loop; `Accept`, `ReadHeader`, `ReadBody`, `Callback`, `GiveUpClient` and
`ReceiverEnds` the receiver's. `Killed` ends the writing process where it is, and
`NextSession` starts another.

### MicrophonePath

The replay window is the set of distances whose bits are set in the 64-bit word
(`Width` bits here). The callback's thread fills the hub's queue
(`SendMicrophoneAudio`) and posts a drain; the drain takes and leaves its lock
(`DrainTake`, `DrainRest`), so a packet may arrive between. `MicrophoneSession`
keeps one message in flight and one pending.

### WiredReceiver

`io` is the order of tasks posted to `io_service`. A control session lives while
`control_session_`, an outstanding receive or a posted task refers to it
(`Referenced`); `Destroyed` is its destructor, which stops the worker. Hotplug
events reach `device_event` in order, on another thread, and only post. The
worker's wait may end without a request (`WorkerAsks`), as its `wait_for` does.

## 3. Runs

| Run | Shows | Bounds |
|---|---|---|
| `link_safety` | `TypeOK`, `NoMessageForgotten`, `ImplementsChannel`, `PeerStreamInOrder` with every kind of parameters | modulus 4, window up to 2: four and two messages wrap both streams |
| `link_liveness` | `EstablishedKnown`, `LinkOnlyAdvances`; `EveryMessageResolved` (the handshake ends, messages are acknowledged or the link dies), with an accessory that may acknowledge early | two messages |
| `worker` | `OneChildOneSession`, `ResultOfThisRun`, `PromptOfThisRun`; `StopEndsRun`, `RetryPrepares` | two runs: the failed one and its retry; two prompts: one to be late for the other |
| `session` | `AuthenticatedBeforeWifi`, `WifiGivenBack`; `SessionCompletes` in every mode | four packets of up to two arbitrary messages: enough for the whole exchange; windows of one and two, less than and as much as the longest reply |
| `media` | `QueueAccounted`, `StreamInOrder`, `StartsDecodable`, `StopEnds` | queue of two frames or three bytes, four frames of sizes 1 to 3, two readers |
| `airplay` | `AnswerMatchesRequest`, `OnlyThePairedAccessory`, `EndsProperly`, `StreamDecodable`, `SessionReturns` | two head units, so that one may answer in place of the other; three sets of options; two video units; one retry, as in the code |
| `events` | `QueueAccounted`, `FramesIntact`, `ImplementsChannel`, `EveryFrameResolved`, `EveryRequestAnswered`, `DestructorsEnd` | three events of one or two bytes, queue of two frames or three bytes, a socket of three units, one fault, two sessions: a frame put back meets a full queue, half a frame meets a new connection |
| `microphone` | `NoReplay`, `WindowExact`, `DrainsPosted`, `ImplementsChannel`, `EveryPacketResolved` | five packets against a window of three, one of them half a sample; queues of two; three requests of the phone |
| `receiver` | `SessionWatched`, `WaitsForPhone`, `UnplugTold`, `DiscoveryAnswered`, `OrphansEnd` | two pluggings, two requests, one wait that times out |

`OneChildOneSession`, `PromptOfThisRun`, `QueueAccounted`, `EndsProperly` and
`FramesIntact` are conjunctions of parts with comments of their own, and
every detailed module has its type invariant, in one of its conjunctions or alone.

Deadlock is checked in all but the runs of the link, the microphone and the
receiver. A dead link really stops; a receiver without a phone, and a microphone
nobody speaks into, really wait.

Every property has a mutant in `PROJECT.json`, an operator in the module marked
*Mutation* that changes one definition as a plausible bug would, and which makes
the property fail; a conjunction has one for each part.

### Disagreements found

| Run | What the code does |
|---|---|
| `link_early` | An ACK read before the accessory's SYN makes the link NORMAL with default parameters, where a comment says both sides must have acknowledged the other's SYN (`HandshakeComplete`). |
| `worker_shutdown` | Shutdown joins the preflight thread, which waits for a session nobody has asked to stop. |
| `receiver_unasked` | The capability worker's `wait_for` may time out; the worker then goes on as if there had been a request and sends a response nobody asked for, before encryption too. |

Others were met while modelling; the models have the behaviour, no run is devoted
to it, and where it limits a property, the property names it as its exception:

- With a link window of one the bootstrap's second message is refused, the failure
  is overwritten, and the session waits for its deadline (`SessionCompletes`).
- When `nmcli` gives up on a network that NetworkManager joins afterwards,
  `mark_joined` is never called, and the interface stays in the accessory's network
  after the session (`WifiGivenBack`).
- A worker killed after a stop leaves the interface in the accessory's network.
- A decision that cannot be sent because the child has died puts its prompt back
  (`bridge_daemon_main.cpp:1269`), also when the run is over: the prompt then stays
  on show with no run to answer (`PromptDuringRun`).
- A media reader's `connect_unix` has no deadline and looks at no stop. A forwarder
  accepts the next reader only after a frame for the one it holds could not be sent,
  so with nothing to send the readers of ended sessions fill its backlog. The
  next session blocks in `connect`, and neither the stop nor the destructors end
  that; only the daemon's SIGKILL does (`SessionReturns`).
- `service_event_channel` answers one request for each encrypted frame; a request
  that came whole behind another waits until a further frame comes
  (`EveryRequestAnswered`).
- When the event connection fails after its SETUP was accepted, `run_session`
  returns before the guard that sends TEARDOWN exists (`EndsProperly`).
- A preparation with nothing configured leaves the state `discovering`, and the
  prompt of a session for Android Auto leaves it `pairing_prompt`.
- Rebuilding the media queue for a new reader drops frames later ones depend on.
- Repetitions of the phone's SYN differ from the first once the accessory's SYN is
  read (`SendSyn`), where a comment calls them identical.
- A comment in `run_session` (`session.cpp:2119`) speaks of the first keyframe of
  the startup; the code keeps the last (`Keep`).
- The end of an earlier control session, handled when the next phone's session is
  up, gives up that one (`SessionEnd`).
- A frame of `pending_` is sent again with the acknowledgement number of its first
  sending (`link_layer.cpp:230`). When the accessory has meanwhile sent as many
  messages as there are numbers, the old number may name a message the phone has
  not read (`PeerStreamInOrder` fails with `SeqMod = 4` and five messages of the
  accessory). A conversation of iAP2 has tens of messages and there are 256
  numbers; `link_safety` and `AccessoryStreamInOrder` stay below the modulus.

### Fairness

- *Link*: the driver loop polls for 100 ms and ticks (`Start`, `Tick`,
  `HandlePacket` weakly fair); the accessory repeats its SYN; a kind of frame that
  is sent again and again arrives again and again (strong fairness of reading it).
- *Worker*: the daemon's threads go on while they can. A thread that waits for
  `mutex_` gets it if it is free again and again. Nothing is assumed of a session:
  it may hang. Nothing is assumed of the user or the phone. `worker` takes
  `RunSpec`, which assumes this of a run in progress and of the Android Auto thread
  alone; `worker_shutdown` assumes it of all.
- *Session*: the worker's thread goes on, and time passes. A cooperative accessory
  establishes the link, and the awaited answer comes if it may come again and again.
  The run of AirPlay is not required to end.
- *Media*: the worker goes on; all its waits have deadlines. Nothing is assumed
  of the reader.
- *AirPlay*: `run_session` and its threads go on. Each wait for the accessory has
  a deadline, each wait for media looks at the stop. The accessory may say nothing,
  and nothing is assumed of a forwarder that a reader's `connect` waits for.
- *Events*: the channel's thread, the writer and the receiver go on; their waits
  are polls with deadlines. Nothing is assumed of the accessory, of kills or of
  restarts.
- *Microphone*: the socket's receiver and the thread of `io_service` go on, and
  the phone acknowledges what it hears. `EveryPacketResolved` needs the last, since
  the code has no deadline for an acknowledgement.
- *Receiver*: libusb's thread, the tasks of `io_service`, transfers of a phone that
  has gone, and the workers go on; the capability provider returns within its five
  seconds. A phone may say nothing, and no wait is assumed to time out.

## 4. Proofs

`PhoneLinkProofs` proves, for every modulus, window, set of accessory parameters
and bound that meet the named assumptions of `PhoneLink`:

- `TypeCorrect`: `Spec => []TypeOK`. `TypeOK` is inductive as it stands, because
  it says that pending messages have been sent and that acknowledged messages of
  the accessory exist.
- `NormalIsKnown`: `Spec => []EstablishedKnown`, for accessories that acknowledge
  early too. Not inductive: which parameters are in use was decided when a SYN was
  read. `ParametersInv` says that every SYN of the accessory in flight carries what
  it announces (`SynsAnnounce`), and that the phone's parameters are all the
  announced or all its own in every state (`InUse`).
- `LinkAdvances`: `Spec => LinkOnlyAdvances`, per action, from the guards on
  `state`.

- `PendingUntilReceived`: `Spec => []NoMessageForgotten`, and `LinkIsChannel`:
  `Spec => ImplementsChannel`, the refinement of `MessageChannel`. Neither is
  inductive: whether `acknowledged_by` may remove a message depends on how old the
  acknowledgements in flight can be, and whether the accessory takes a frame for
  the next on how old the data frames can be. `StreamInv` bounds both. `pending_`
  is an interval `p + 1 .. sent` of at most half the modulus (`Window`, kept by
  `HasRoom` and the clamped window); acknowledgements in flight name messages from
  `p` on and never an earlier one behind a later one (`AckLine`); a data frame in
  flight is less than half the modulus behind the last message the accessory has
  got and behind those before it in the channel (`DataLine`). The arithmetic is in
  `WrapSame` and `AcknowledgedIff`: numbers less than the modulus apart differ, and
  the signed comparison orders numbers up to half of it apart. In the refinement
  `send_control` takes, `DataAccepted` gives the one after the last, and every
  other step stutters.
- `AccessoryStreamInOrder`: `Spec => []PeerStreamInOrder`, for an accessory that
  does not acknowledge early and fewer messages of the accessory than the modulus.
  `HandshakeInv` follows the handshake through the channels, so that a NORMAL link
  knows the accessory's first number: a SYNACK, ACK or data frame to the accessory
  means the phone has adopted its parameters (`Adopted`), the accessory counts its
  SYN as acknowledged only then, and its ACKs and data frames in flight mean that
  both have happened. `HandshakeMonotone` says that adoption is never undone.
  `PeerInv` names the number `r` of messages the phone has received: `lastRx` is
  the number of `r`, the control messages up to `r` have been delivered, and every
  acknowledgement to the accessory, in flight or kept in `pending_`, is that of a
  message up to `r`.

`AccessoryStreamInOrder` needs both assumptions. Without the first an ACK read in
NEGOTIATE makes the link NORMAL with `rxValid` false, and the first data frame is
taken whatever its number (the behaviour `link_early` exhibits); for the second see
the disagreements. The other theorems of the link need neither.

`MicrophoneProofs` proves, for every width of the window, number of datagrams and
length of queues, with a network that loses, repeats and reorders:

- `WindowIsExact`: `Spec => []WindowExact`, the bits of the window are exactly the
  nonces let in that lie within its width;
- `NothingReplayed`: `Spec => []NoReplay`, no datagram passes twice;
- `DrainAlwaysPosted`: `Spec => []DrainsPosted`;
- `MicrophonePathIsChannel`: `Spec => ImplementsChannel`, the refinement of
  `MessageChannel`.

`NoReplay` is not inductive: a bit lost in a shift would let an old datagram in
again. `RadioInv` adds that the window is exact and that what was passed on was
let in. The heart is `AdmitExact`: shifting by the distance to a higher nonce, and
setting a bit for a lower one, both keep the window exact, and what is not refused
is new. All other actions leave the radio's variables alone (`RadioStep`). For the
rest of the path `PathInv` says where every packet is: at one place of
heard, wire, pending, ingress, queue and socket, or given up, with every packet of
one place before every packet of the next (`LineInv`). The queues are in order,
a packet is pending only while another is in flight, and the tasks of
`io_service` hold exactly one drain for each flag that is set. `Line...` lemmas
say how a packet moves to the next place or is lost; each action is one or two of
them. In the refinement only `ReceivePacket` takes, only `PhoneHears` gives; every
other step gives up what is new in `gone`, which `LineInv` after the step says was
not handed over. That at most `MaxPackets` pass is the pigeon-hole principle.

`CarPlayWorkerProofs`: `WorkerServesOne`, `ResultBelongs`, `PromptBelongs`, for
every number of runs and prompts, from `WorkerInv`. None of the three is
inductive: a result belongs to the run in progress only because a run is at one
place, a request on its way to the child, a session, or a result on its way back
(`PlaceInv`), because a dead child leaves nothing behind (`DeadInv`), and because
a stop that can reach a session was sent by its run (`StopInv`). Prompts are
undecided while they are on show or on their way (`PromptInv`), and an answer on
its way carries the decision on the prompt it names (`AnswerInv`). A prompt on
show without a run is one put back after the child's death, so it is decided.

`CarPlaySessionProofs`: `WifiNeedsAuthentication` and `InterfaceGivenBack`, for
every window of the link, number of packets and content of them. The second says
that every network `WifiCleanup` was told of is left, or leaving it has failed, and
that only a network joined after `nmcli` had given up is kept. `Sound` is an
invariant of the callbacks' state alone, so the lemmas go up the calls, from
`send_control` over both conversations to a packet of several messages; `PhaseInv`
ties it to the phase of the driver.

`WiredReceiverProofs`: `PhoneWatched`, for any number of pluggings, requests and
timeouts. `SessionWatched` becomes inductive with the types of queued tasks and
events (they name phones, never address 0).

`MediaForwarderProofs`: `QueueCounted`, `ReaderInOrder`, `ReaderStartsDecodable`,
for all limits, sizes, and numbers of frames and readers, from `ForwarderInv`: the
queue, the frame in the worker's hand and what the reader has got are in order,
and a reader of video that came when a keyframe was known and has got nothing yet
will get a keyframe next, from the hand or the head of the queue.

`AirPlaySessionProofs`: `RequestsToPairedOnly`, `AnswersMatch`,
`SessionsEndProperly`, `StreamStartsDecodable`, for any accessories, options and
number of units, from `AirPlayInv`. `PairInv` follows the pairing through its
exchanges; `CSeqInv` says that everything of the accessory still on its way has a
CSeq of the past or is for the request that is waited for, and `PartsInv` that the
first half of an answer is followed by its own second half, so that no answer is
put together from two; `TodoInv` and `EndInv` that the requests end with RECORD or
are the one TEARDOWN; `VideoInv` that the keyframe kept is the last unit taken.
The proof had to know that the cases of `After` exclude each other; their guards
say so.

`EventPathProofs`: `EventQueueCounted`, `EventFramesIntact` and the refinement
`EventPathIsChannel`, for all limits and any number of events, sessions, faults and
connections, from `EventInv`. `StreamInv` describes the bytes of every connection:
a length is followed by its own message (`Alternating`), and the writer goes on
where the last unit ends (`HalfSent`), so that no connection mixes two frames.
`OrderInv` says where every frame is: handed over, in the callback, in a socket, in
the writer's hand, queued, or lost, one place before the next, and an older
connection before a newer one. The refinement is argued as for the microphone.

What the proofs assume are the named assumptions of the modules alone: limits and
bounds are natural numbers, limits that the code has as positive constants are
positive. No theorem assumes anything of an environment that its specification
does not say, except `AccessoryStreamInOrder` above.

`Size` and `Bytes`, the sums over a queue, are recursive functions. That they exist,
and grow and shrink with the queue at both ends, is proved by induction over a set
(`SetInduction`: a set of naturals that contains 0 and every successor is `Nat`,
from the least element outside of it), since the induction theorems of the library
take an operator, which the provers cannot instantiate.

Only model-checked: every liveness property (fairness is beyond the prover). Every
safety property and every refinement of the passing runs has a theorem.

## 5. Plan

What is left to model, in this order:

1. `ManagementTransactions`: hotspot password, configuration with rollback,
   clearing of state, request queue and the rebinding of the listener.
2. Connection numbers in `CarPlayWorker`, to tell which plugging a failure
   belongs to.
3. The queue of input reports, drained as the microphone's is.
4. `CsmDecoder`, as a pure algorithm against a reference definition.

Each of them comes with its invariants proved, as the modules above have theirs.

## 6. Not modelled

Cryptography, X.509, D-Bus, SDP, `nmcli`, USB and the Android Auto protocol of
aasdk are external: they appear as outcomes. Property lists, HTML, configuration
files and logs are conversions without interleavings, covered by unit tests.
Command line tools, build, packaging and scripts have no state of their own.
Durations are left out; a deadline may have passed whenever the code looks.

Of the Android Auto receiver, the handlers of the audio, sensor and input channels
only answer and receive again. The moment between the last reference to a
`ControlSession` and the stop of its worker in the destructor is one step in the
model. aasdk's hub, transport and channels are modelled by how the receiver uses
them. The hotspot and configuration transactions of the daemon are in the plan.
