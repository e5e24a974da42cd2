---------------------------- MODULE MediaForwarder ----------------------------
(***************************************************************************)
(* MediaSocketForwarder with its two kinds, VideoSocketForwarder and       *)
(* AudioSocketForwarder: the daemon's Android Auto thread pushes frames    *)
(* into a bounded queue, a worker thread forwards them to the one reader   *)
(* of a UNIX socket, which comes and goes with the CarPlay sessions.       *)
(*                                                                         *)
(* A frame is its number in the order of pushing, its size and, for video, *)
(* whether it is a keyframe.  The H.264 capture and the log are left out.  *)
(***************************************************************************)
EXTENDS Integers, Sequences

CONSTANTS
  Kinds,          \* "video" and "audio", or one of them
  MaxQueued,      \* maximum_queued_frames_
  MaxBytes,       \* kMaximumQueuedBytes
  Sizes,          \* sizes of the frames pushed
  MaxFrames,      \* bound on frames pushed
  MaxConnections  \* bound on readers that connect

ASSUME ForwarderAssumption ==
  /\ Kinds \subseteq {"video", "audio"}
  /\ MaxQueued \in Nat \ {0}
  /\ MaxBytes \in Nat
  /\ Sizes \subseteq 1 .. MaxBytes
  /\ MaxFrames \in Nat
  /\ MaxConnections \in Nat

VARIABLES
  kind,        \* of the forwarder
  frames,      \* frames_
  bytes,       \* queued_bytes_
  keyframe,    \* keyframe_, empty or one frame
  config,      \* are sps_ and pps_ known?
  pushed,      \* history: frames pushed
  worker,      \* where forward is
  inHand,      \* the frame it is sending, or none
  client,      \* the accepted connection: "none", "open" or "closed"
  got,         \* history: the frames sent whole on this connection
  entry,       \* history: did it start with a keyframe known?
  backlog,     \* a reader waits to be accepted
  connections, \* history: readers that have connected
  stop         \* "no", "requested", "joining": how far the destructor is

queueVars == <<frames, bytes, keyframe, config, pushed>>
workerVars == <<worker, inHand, client, got, entry>>
vars == <<kind, queueVars, workerVars, backlog, connections, stop>>

Size(queue) ==
  LET sum[i \in 0 .. Len(queue)] == IF i = 0 THEN 0 ELSE sum[i - 1] + queue[i].size
  IN  sum[Len(queue)]

Init ==
  /\ kind \in Kinds
  /\ frames = <<>>
  /\ bytes = 0
  /\ keyframe = <<>>
  /\ config = FALSE
  /\ pushed = 0
  /\ worker = "accept"
  /\ inHand = <<>>
  /\ client = "none"
  /\ got = <<>>
  /\ entry = FALSE
  /\ backlog = FALSE
  /\ connections = 0
  /\ stop = "no"

-----------------------------------------------------------------------------
(* The Android Auto thread.  A frame that is empty or larger than the whole *)
(* queue is refused at once.                                                *)

NewFrame(key, size) == [id |-> pushed + 1, key |-> key, size |-> size]

(* Mutation: only one frame is dropped to make room *)
EnqueueDropsOne(f) ==
  LET full == Len(frames) >= MaxQueued \/ bytes + f.size > MaxBytes
      kept == IF full /\ frames # <<>> THEN Tail(frames) ELSE frames
  IN  frames' = Append(kept, f) /\ bytes' = Size(kept) + f.size

(* Mutation: a new frame is dropped if the queue is full *)
EnqueueDropsNew(f) ==
  IF Len(frames) < MaxQueued /\ bytes + f.size <= MaxBytes
  THEN frames' = Append(frames, f) /\ bytes' = bytes + f.size
  ELSE UNCHANGED <<frames, bytes>>

(* MediaSocketForwarder::enqueue: the oldest frames make room. *)
Enqueue(f) ==
  LET Fits(n) == /\ Len(frames) - n < MaxQueued
                 /\ Size(SubSeq(frames, n + 1, Len(frames))) + f.size <= MaxBytes
      dropped == CHOOSE n \in 0 .. Len(frames) :
                   /\ Fits(n) \/ n = Len(frames)
                   /\ \A m \in 0 .. n - 1 : ~ Fits(m)
      kept == SubSeq(frames, dropped + 1, Len(frames))
  IN  frames' = Append(kept, f) /\ bytes' = Size(kept) + f.size

PushAudio(size) ==
  /\ kind = "audio"
  /\ Enqueue(NewFrame(FALSE, size))
  /\ UNCHANGED keyframe

(* A frame that depends on others is dropped if the queue is full. *)
PushDependent(size) ==
  /\ kind = "video"
  /\ IF Len(frames) < MaxQueued /\ bytes + size <= MaxBytes
     THEN /\ frames' = Append(frames, NewFrame(FALSE, size))
          /\ bytes' = bytes + size
     ELSE UNCHANGED <<frames, bytes>>
  /\ UNCHANGED keyframe

(* A keyframe makes the queue obsolete. *)
PushKeyframe(size) ==
  /\ kind = "video"
  /\ keyframe' = <<NewFrame(TRUE, size)>>
  /\ frames' = keyframe'
  /\ bytes' = size

(* Any access unit may carry parameter sets. *)
Push(size) ==
  /\ pushed < MaxFrames
  /\ stop = "no"
  /\ PushAudio(size) \/ PushDependent(size) \/ PushKeyframe(size)
  /\ config' \in {config, kind = "video"}
  /\ pushed' = pushed + 1
  /\ UNCHANGED <<kind, workerVars, backlog, connections, stop>>

-----------------------------------------------------------------------------
(* The worker thread, forward.                                              *)

(* accept4; a client accepted while stopping is closed at once. *)
Accept ==
  /\ worker = "accept"
  /\ backlog
  /\ backlog' = FALSE
  /\ got' = <<>>
  /\ IF stop = "no"
     THEN worker' = "connected" /\ client' = "open"
     ELSE UNCHANGED <<worker, client>>
  /\ UNCHANGED <<kind, queueVars, inHand, entry, connections, stop>>

(* Mutation: a queue that does not begin with the keyframe is kept *)
OnClientConnectedKeeps ==
  /\ worker = "connected"
  /\ IF kind = "video" /\ keyframe = <<>>
     THEN frames' = <<>> /\ bytes' = 0
     ELSE UNCHANGED <<frames, bytes>>
  /\ entry' = (keyframe # <<>>)
  /\ worker' = IF kind = "video" /\ config THEN "greeting" ELSE "forward"
  /\ UNCHANGED <<kind, keyframe, config, pushed, inHand, client, got, backlog,
                 connections, stop>>

(* Mutation: the keyframe is put behind the frames in the queue *)
OnClientConnectedAppends ==
  /\ worker = "connected"
  /\ IF kind = "video" /\ (frames = <<>> \/ keyframe = <<>> \/ frames[1] # keyframe[1])
     THEN frames' = frames \o keyframe /\ bytes' = bytes + Size(keyframe)
     ELSE UNCHANGED <<frames, bytes>>
  /\ entry' = (keyframe # <<>>)
  /\ worker' = IF kind = "video" /\ config THEN "greeting" ELSE "forward"
  /\ UNCHANGED <<kind, keyframe, config, pushed, inHand, client, got, backlog,
                 connections, stop>>

(* Mutation: the bytes of the frames that are dropped stay counted *)
OnClientConnectedMiscounts ==
  /\ worker = "connected"
  /\ IF kind = "video" /\ (keyframe = <<>> \/ frames = <<>> \/ frames[1] # keyframe[1])
     THEN frames' = keyframe
     ELSE UNCHANGED frames
  /\ entry' = (keyframe # <<>>)
  /\ worker' = IF kind = "video" /\ config THEN "greeting" ELSE "forward"
  /\ UNCHANGED <<kind, bytes, keyframe, config, pushed, inHand, client, got,
                 backlog, connections, stop>>

(* on_client_connected: a reader of video starts with the latest keyframe,  *)
(* or with nothing that was pushed before it came.                          *)
OnClientConnected ==
  /\ worker = "connected"
  /\ IF kind = "video" /\ (keyframe = <<>> \/ frames = <<>> \/ frames[1] # keyframe[1])
     THEN frames' = keyframe /\ bytes' = Size(keyframe)
     ELSE UNCHANGED <<frames, bytes>>
  /\ entry' = (keyframe # <<>>)
  /\ worker' = IF kind = "video" /\ config THEN "greeting" ELSE "forward"
  /\ UNCHANGED <<kind, keyframe, config, pushed, inHand, client, got, backlog,
                 connections, stop>>

(* The parameter sets are sent first.  A write fails if the reader is gone, *)
(* or does not read for two seconds.                                        *)
SendConfig ==
  /\ worker = "greeting"
  /\ \/ client = "open" /\ worker' = "forward"
     \/ worker' = "release"
  /\ UNCHANGED <<kind, queueVars, inHand, client, got, entry, backlog,
                 connections, stop>>

TakeFrame ==
  /\ worker = "forward"
  /\ frames # <<>>
  /\ inHand' = <<Head(frames)>>
  /\ frames' = Tail(frames)
  /\ bytes' = bytes - Head(frames).size
  /\ worker' = "sending"
  /\ UNCHANGED <<kind, keyframe, config, pushed, client, got, entry, backlog,
                 connections, stop>>

(* A frame that cannot be sent is lost. *)
SendFrame ==
  /\ worker = "sending"
  /\ inHand' = <<>>
  /\ \/ /\ client = "open"
        /\ got' = got \o inHand
        /\ worker' = "forward"
     \/ /\ worker' = "release"
        /\ UNCHANGED got
  /\ UNCHANGED <<kind, queueVars, client, entry, backlog, connections, stop>>

(* Mutation: the wait for a frame goes on when the worker shall stop *)
LeaveAcceptOnly ==
  /\ worker \in {"accept", "forward"}
  /\ stop # "no"
  /\ worker' = IF worker = "accept" THEN "ended" ELSE worker
  /\ UNCHANGED <<kind, queueVars, inHand, client, got, entry, backlog,
                 connections, stop>>

(* Both loops end when the worker shall stop. *)
Leave ==
  /\ worker \in {"accept", "forward"}
  /\ stop # "no"
  /\ worker' = IF worker = "accept" THEN "ended" ELSE "release"
  /\ UNCHANGED <<kind, queueVars, inHand, client, got, entry, backlog,
                 connections, stop>>

Release ==
  /\ worker = "release"
  /\ client' = "none"
  /\ worker' = "accept"
  /\ UNCHANGED <<kind, queueVars, inHand, got, entry, backlog, connections, stop>>

-----------------------------------------------------------------------------
(* The readers, VideoSocketReader and AudioSocketReader of the CarPlay      *)
(* worker: each belongs to one AirPlay session.                             *)

ReaderConnects ==
  /\ ~ backlog
  /\ connections < MaxConnections
  /\ backlog' = TRUE
  /\ connections' = connections + 1
  /\ UNCHANGED <<kind, queueVars, workerVars, stop>>

ReaderCloses ==
  /\ client = "open"
  /\ client' = "closed"
  /\ UNCHANGED <<kind, queueVars, worker, inHand, got, entry, backlog,
                 connections, stop>>

(* The destructor *)
RequestStop ==
  /\ stop = "no"
  /\ stop' = "requested"
  /\ UNCHANGED <<kind, queueVars, workerVars, backlog, connections>>

ShutdownClient ==
  /\ stop = "requested"
  /\ stop' = "joining"
  /\ client' = IF client = "open" THEN "closed" ELSE client
  /\ UNCHANGED <<kind, queueVars, worker, inHand, got, entry, backlog, connections>>

Ended == worker = "ended" /\ UNCHANGED vars

Worker ==
  \/ Accept \/ OnClientConnected \/ SendConfig
  \/ TakeFrame \/ SendFrame \/ Leave \/ Release

Next ==
  \/ \E size \in Sizes : Push(size)
  \/ Worker
  \/ ReaderConnects \/ ReaderCloses
  \/ RequestStop \/ ShutdownClient \/ Ended

Spec == Init /\ [][Next]_vars

(* The worker never waits for longer than a deadline. *)
FairSpec == Spec /\ WF_vars(Worker)

-----------------------------------------------------------------------------
Frame == [id : 1 .. MaxFrames, key : BOOLEAN, size : Sizes]

(* Every variable keeps its type, and the queue its limits. *)
TypeOK ==
  /\ kind \in Kinds
  /\ frames \in Seq(Frame)
  /\ Len(frames) <= MaxQueued
  /\ bytes \in 0 .. MaxBytes
  /\ keyframe = <<>> \/ (Len(keyframe) = 1 /\ keyframe[1] \in Frame)
  /\ config \in BOOLEAN
  /\ pushed \in 0 .. MaxFrames
  /\ worker \in {"accept", "connected", "greeting", "forward", "sending",
                 "release", "ended"}
  /\ inHand = <<>> \/ (Len(inHand) = 1 /\ inHand[1] \in Frame)
  /\ client \in {"none", "open", "closed"}
  /\ got \in Seq(Frame)
  /\ entry \in BOOLEAN
  /\ backlog \in BOOLEAN
  /\ connections \in 0 .. MaxConnections
  /\ stop \in {"no", "requested", "joining"}

(* queued_bytes_ is the size of what is queued, whichever thread changed    *)
(* the queue last: it never runs below zero nor refuses frames for good.    *)
BytesCounted == bytes = Size(frames)

(* One reader gets frames in the order they were pushed, none twice, though *)
(* the queue is rebuilt from the cached keyframe.                           *)
StreamInOrder == \A i, j \in 1 .. Len(got) : i < j => got[i].id < got[j].id

(* A reader of video that comes when a keyframe is known starts with one,   *)
(* whatever is pushed while it is being connected.                          *)
StartsDecodable ==
  (kind = "video" /\ entry /\ got # <<>>) => got[1].key

(* The queue of audio is the latest of what was pushed, without gaps. *)
LatestAudio ==
  kind = "audio" =>
    \A i \in 1 .. Len(frames) : frames[i].id = pushed - Len(frames) + i

(* The queue keeps its limits, its count of bytes and the latest frames,    *)
(* whatever producer and worker do to it in turn.                           *)
QueueAccounted == TypeOK /\ BytesCounted /\ LatestAudio

(* The destructor returns, even with a reader that does not read. *)
StopEnds == (stop = "joining") ~> (worker = "ended")
=============================================================================
