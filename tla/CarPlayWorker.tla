---------------------------- MODULE CarPlayWorker ----------------------------
(***************************************************************************)
(* The CarPlay worker process and the threads of the bridge daemon that    *)
(* use it: the Android Auto thread and the preflight thread both call      *)
(* CarPlayWorker::run, which holds mutex_ for a whole session in a forked  *)
(* child; the management UI starts preflights and answers the child's      *)
(* pairing prompts; main shuts everything down.                            *)
(*                                                                         *)
(* A session itself (pairing, iAP2, AirPlay) is abstracted to what run     *)
(* sees of it: it prompts, it ends, or it hangs.  Deadlines may pass at    *)
(* any moment.  The daemon's log output and the child's output are left    *)
(* out.                                                                    *)
(***************************************************************************)
EXTENDS Integers, Sequences, FiniteSets

CONSTANTS
  MaxRuns,     \* bound on calls of CarPlayWorker::run
  MaxPrompts,  \* bound on pairing prompts
  Configured   \* are a head unit and an interface configured at the start?

ASSUME WorkerAssumption ==
  /\ MaxRuns \in Nat
  /\ MaxPrompts \in Nat
  /\ Configured \in BOOLEAN

VARIABLES \* the child process
  child,         \* "alive", "dead", or "reaped" by waitpid
  stopFlag,      \* worker_stop_requested
  sessions,      \* runs whose session thread is active
  asking,        \* confirmation the pairing agent waits for, 0 for none
  pendingId,     \* pending_pairing_confirmation_id
  pendingResult, \* pending_pairing_confirmation_result
  nextId         \* next_pairing_confirmation_id

VARIABLES \* the daemon
  toChild, toDaemon,  \* the sequenced socket
  owner,         \* holder of mutex_
  stopping,      \* progress of the holder's stop: "no", "sent", "killed"
  pc,            \* where the two threads are
  run,           \* the run each thread is making
  outcome,       \* what run returned to each thread
  runs,          \* history: runs requested so far
  stop,          \* stop tokens of the two threads
  phoneGone,     \* phone_disconnected
  startRequested,\* carplay_start_requested
  configured,    \* head_unit_mac and wifi_interface are set
  preflight,     \* preflight_state
  scanning,      \* bluetooth_scan_running
  prompt,        \* id of snapshot.pairing_confirmation, 0 for none
  answer,        \* a request worker between reading prompt and answering it
  decision,      \* history: the user's decision on each prompt
  main           \* "serving", "joining", "joiningAa", "stopped"

childVars == <<child, stopFlag, sessions, asking, pendingId, pendingResult, nextId>>
socketVars == <<toChild, toDaemon>>
runVars == <<owner, stopping, pc, run, outcome, runs>>
phoneVars == <<phoneGone, startRequested>>
uiVars == <<configured, preflight, scanning, prompt, answer, decision>>
vars == <<childVars, socketVars, runVars, stop, phoneVars, uiVars, main>>

Threads == {"aa", "pf"}
Active == {"discovering", "pairing_prompt", "connecting"}
NoAnswer == [id |-> 0, confirmed |-> FALSE]

Init ==
  /\ child = "alive"
  /\ stopFlag = FALSE
  /\ sessions = {}
  /\ asking = 0
  /\ pendingId = 0
  /\ pendingResult = -1
  /\ nextId = 1
  /\ toChild = <<>>
  /\ toDaemon = <<>>
  /\ owner = "none"
  /\ stopping = "no"
  /\ pc = [aa |-> "config", pf |-> "none"]
  /\ run = [t \in Threads |-> 0]
  /\ outcome = [t \in Threads |-> "none"]
  /\ runs = 0
  /\ stop = [t \in Threads |-> FALSE]
  /\ phoneGone = FALSE
  /\ startRequested = FALSE
  /\ configured = Configured
  /\ preflight = "idle"
  /\ scanning = FALSE
  /\ prompt = 0
  /\ answer = NoAnswer
  /\ decision = [id \in 1 .. MaxPrompts |-> -1]
  /\ main = "serving"

-----------------------------------------------------------------------------
(* CarPlayWorker::run, called by thread t.                                  *)

(* Mutation: mutex_ is not taken *)
BeginRunUnlocked(t) ==
  /\ pc[t] = "lock"
  /\ child = "alive"
  /\ owner' = t
  /\ stopping' = "no"
  /\ pc' = [pc EXCEPT ![t] = "run"]
  /\ toChild' = Append(toChild, [kind |-> "start", run |-> run[t]])
  /\ UNCHANGED <<childVars, toDaemon, run, outcome, runs, stop, phoneVars,
                 uiVars, main>>

(* Mutation: a request that could not be sent is not noticed *)
BeginRunUnchecked(t) ==
  /\ pc[t] = "lock"
  /\ owner = "none"
  /\ owner' = t
  /\ stopping' = "no"
  /\ pc' = [pc EXCEPT ![t] = "run"]
  /\ toChild' = IF child = "alive"
                THEN Append(toChild, [kind |-> "start", run |-> run[t]])
                ELSE toChild
  /\ UNCHANGED <<childVars, toDaemon, run, outcome, runs, stop, phoneVars,
                 uiVars, main>>

(* The lock is free and the request reaches the child. *)
BeginRun(t) ==
  /\ pc[t] = "lock"
  /\ owner = "none"
  /\ child = "alive"
  /\ owner' = t
  /\ stopping' = "no"
  /\ pc' = [pc EXCEPT ![t] = "run"]
  /\ toChild' = Append(toChild, [kind |-> "start", run |-> run[t]])
  /\ UNCHANGED <<childVars, toDaemon, run, outcome, runs, stop, phoneVars,
                 uiVars, main>>

(* The child is gone: sending the request fails. *)
RunRefused(t) ==
  /\ pc[t] = "lock"
  /\ owner = "none"
  /\ child # "alive"
  /\ pc' = [pc EXCEPT ![t] = "after"]
  /\ outcome' = [outcome EXCEPT ![t] = "failed"]
  /\ UNCHANGED <<childVars, socketVars, owner, stopping, run, runs, stop,
                 phoneVars, uiVars, main>>

Running(t) == pc[t] = "run" /\ owner = t

(* run returns and gives up mutex_. *)
EndRun(t, result) ==
  /\ pc' = [pc EXCEPT ![t] = "after"]
  /\ outcome' = [outcome EXCEPT ![t] = result]
  /\ owner' = "none"

(* The child's death closes its descriptors. *)
ConnectionLost(t) ==
  /\ Running(t)
  /\ child # "alive"
  /\ EndRun(t, "failed")
  /\ child' = "reaped"
  /\ prompt' = 0
  /\ UNCHANGED <<stopFlag, sessions, asking, pendingId, pendingResult, nextId,
                 socketVars, stopping, run, runs, stop, phoneVars, configured,
                 preflight, scanning, answer, decision, main>>

TakePrompt(t) ==
  /\ Running(t)
  /\ child = "alive"
  /\ toDaemon # <<>>
  /\ Head(toDaemon).kind = "prompt"
  /\ prompt' = Head(toDaemon).id
  /\ preflight' = "pairing_prompt"
  /\ toDaemon' = Tail(toDaemon)
  /\ UNCHANGED <<childVars, toChild, runVars, stop, phoneVars, configured,
                 scanning, answer, decision, main>>

(* Mutation: on_pairing_reset is forgotten *)
TakeResultKeepsPrompt(t) ==
  /\ Running(t)
  /\ child = "alive"
  /\ toDaemon # <<>>
  /\ Head(toDaemon).kind = "result"
  /\ EndRun(t, Head(toDaemon).value)
  /\ toDaemon' = Tail(toDaemon)
  /\ UNCHANGED <<childVars, toChild, stopping, run, runs, stop, phoneVars,
                 uiVars, main>>

TakeResult(t) ==
  /\ Running(t)
  /\ child = "alive"
  /\ toDaemon # <<>>
  /\ Head(toDaemon).kind = "result"
  /\ EndRun(t, Head(toDaemon).value)
  /\ prompt' = 0
  /\ toDaemon' = Tail(toDaemon)
  /\ UNCHANGED <<childVars, toChild, stopping, run, runs, stop, phoneVars,
                 configured, preflight, scanning, answer, decision, main>>

(* Mutation: run returns at once when it is asked to stop *)
SendStopReturns(t) ==
  /\ Running(t)
  /\ stopping = "no"
  /\ stop[t] \/ (t = "aa" /\ phoneGone)
  /\ toChild' = IF child = "alive" THEN Append(toChild, [kind |-> "stop"])
                                   ELSE toChild
  /\ EndRun(t, "failed")
  /\ UNCHANGED <<childVars, toDaemon, stopping, run, runs, stop, phoneVars,
                 uiVars, main>>

SendStop(t) ==
  /\ Running(t)
  /\ stopping = "no"
  /\ stop[t] \/ (t = "aa" /\ phoneGone)
  /\ toChild' = IF child = "alive" THEN Append(toChild, [kind |-> "stop"])
                                   ELSE toChild
  /\ stopping' = "sent"
  /\ UNCHANGED <<childVars, toDaemon, owner, pc, run, outcome, runs, stop,
                 phoneVars, uiVars, main>>

(* The death of the child: its sessions and what is in the sockets go. *)
Dies ==
  /\ child' = "dead"
  /\ stopFlag' = FALSE
  /\ sessions' = {}
  /\ asking' = 0
  /\ pendingId' = 0
  /\ pendingResult' = -1
  /\ toChild' = <<>>
  /\ toDaemon' = <<>>
  /\ UNCHANGED nextId

(* Mutation: a child that does not stop is left alone *)
KillNobody(t) ==
  /\ Running(t)
  /\ stopping = "sent"
  /\ stopping' = "killed"
  /\ UNCHANGED <<childVars, socketVars, owner, pc, run, outcome, runs, stop,
                 phoneVars, uiVars, main>>

(* Ten seconds after the stop; a child that died by itself is not yet       *)
(* reaped, and to kill it does nothing.                                     *)
Kill(t) ==
  /\ Running(t)
  /\ stopping = "sent"
  /\ IF child = "alive" THEN Dies ELSE UNCHANGED <<childVars, socketVars>>
  /\ stopping' = "killed"
  /\ UNCHANGED <<owner, pc, run, outcome, runs, stop, phoneVars, uiVars, main>>

-----------------------------------------------------------------------------
(* The child: its main thread reads commands, a detached thread per start   *)
(* command runs the session.                                                *)

ChildReads(kind) ==
  /\ child = "alive"
  /\ toChild # <<>>
  /\ Head(toChild).kind = kind
  /\ toChild' = Tail(toChild)

(* Mutation: the stop flag of the last session stays set *)
StartSessionNoReset ==
  /\ ChildReads("start")
  /\ sessions' = sessions \cup {Head(toChild).run}
  /\ UNCHANGED <<child, stopFlag, asking, pendingId, pendingResult, nextId,
                 toDaemon, runVars, stop, phoneVars, uiVars, main>>

StartSession ==
  /\ ChildReads("start")
  /\ stopFlag' = FALSE
  /\ sessions' = sessions \cup {Head(toChild).run}
  /\ UNCHANGED <<child, asking, pendingId, pendingResult, nextId,
                 toDaemon, runVars, stop, phoneVars, uiVars, main>>

StopSession ==
  /\ ChildReads("stop")
  /\ stopFlag' = TRUE
  /\ UNCHANGED <<child, sessions, asking, pendingId, pendingResult, nextId,
                 toDaemon, runVars, stop, phoneVars, uiVars, main>>

(* Mutation: any answer is taken for the pending prompt *)
AnswerAnyConfirmation ==
  /\ ChildReads("answer")
  /\ pendingResult' = IF pendingId # 0
                      THEN (IF Head(toChild).confirmed THEN 1 ELSE 0)
                      ELSE pendingResult
  /\ UNCHANGED <<child, stopFlag, sessions, asking, pendingId, nextId,
                 toDaemon, runVars, stop, phoneVars, uiVars, main>>

(* answer_pairing_confirmation *)
AnswerConfirmation ==
  /\ ChildReads("answer")
  /\ pendingResult' = IF pendingId = Head(toChild).id
                      THEN (IF Head(toChild).confirmed THEN 1 ELSE 0)
                      ELSE pendingResult
  /\ UNCHANGED <<child, stopFlag, sessions, asking, pendingId, nextId,
                 toDaemon, runVars, stop, phoneVars, uiVars, main>>

(* Mutation: every prompt has the same number *)
RequestSameConfirmation ==
  /\ child = "alive"
  /\ sessions # {}
  /\ asking = 0
  /\ pendingId = 0
  /\ nextId <= MaxPrompts
  /\ toDaemon' = Append(toDaemon, [kind |-> "prompt", id |-> nextId])
  /\ asking' = nextId
  /\ pendingId' = nextId
  /\ pendingResult' = -1
  /\ UNCHANGED <<child, stopFlag, sessions, nextId, toChild, runVars, stop,
                 phoneVars, uiVars, main>>

(* request_pairing_confirmation, for BlueZ's RequestConfirmation; without a *)
(* session there is no agent, and a second request is rejected.             *)
RequestConfirmation ==
  /\ child = "alive"
  /\ sessions # {}
  /\ asking = 0
  /\ pendingId = 0
  /\ nextId <= MaxPrompts
  /\ toDaemon' = Append(toDaemon, [kind |-> "prompt", id |-> nextId])
  /\ asking' = nextId
  /\ pendingId' = nextId
  /\ pendingResult' = -1
  /\ nextId' = nextId + 1
  /\ UNCHANGED <<child, stopFlag, sessions, toChild, runVars, stop, phoneVars,
                 uiVars, main>>

(* pairing_confirmation_result, or cancel_pairing_confirmation after 50     *)
(* seconds, on BlueZ's Cancel and at the end of the pairing                 *)
ResolveConfirmation ==
  /\ child = "alive"
  /\ asking # 0
  /\ asking' = 0
  /\ IF pendingId = asking
     THEN pendingId' = 0 /\ pendingResult' = -1
     ELSE UNCHANGED <<pendingId, pendingResult>>
  /\ UNCHANGED <<child, stopFlag, sessions, nextId, socketVars, runVars, stop,
                 phoneVars, uiVars, main>>

(* The end of a session, its pairing over. *)
EndSession(s, value) ==
  /\ child = "alive"
  /\ asking = 0
  /\ value = "stopped" => stopFlag
  /\ sessions' = sessions \ {s}
  /\ toDaemon' = Append(toDaemon,
                        [kind |-> "result", run |-> s, value |-> value])
  /\ UNCHANGED <<child, stopFlag, asking, pendingId, pendingResult, nextId,
                 toChild, runVars, stop, phoneVars, uiVars, main>>

Crash ==
  /\ child = "alive"
  /\ Dies
  /\ UNCHANGED <<runVars, stop, phoneVars, uiVars, main>>

-----------------------------------------------------------------------------
(* The Android Auto thread, and the USB receiver's events.                  *)

PhoneReady ==
  /\ pc["aa"] \notin {"config", "ended"}
  /\ phoneGone' = FALSE
  /\ startRequested' = TRUE
  /\ UNCHANGED <<childVars, socketVars, runVars, stop, uiVars, main>>

PhoneDisconnected ==
  /\ pc["aa"] \notin {"config", "ended"}
  /\ ~ phoneGone
  /\ phoneGone' = TRUE
  /\ UNCHANGED <<childVars, socketVars, runVars, stop, startRequested, uiVars, main>>

AaMoves(to) ==
  /\ pc' = [pc EXCEPT !["aa"] = to]
  /\ UNCHANGED <<childVars, socketVars, owner, stopping, outcome, stop, uiVars, main>>

(* The wait for a usable configuration, and what is set up then: a socket   *)
(* or the USB receiver may not be available.                                *)
AaConfigured ==
  /\ pc["aa"] = "config"
  /\ stop["aa"] \/ configured
  /\ \E next \in {"idle", "ended"} :
       /\ stop["aa"] => next = "ended"
       /\ AaMoves(next)
  /\ UNCHANGED <<run, runs, phoneVars>>

AaPrepares ==
  /\ pc["aa"] = "idle"
  /\ ~ stop["aa"]
  /\ startRequested
  /\ runs < MaxRuns
  /\ startRequested' = FALSE
  /\ runs' = runs + 1
  /\ run' = [run EXCEPT !["aa"] = runs + 1]
  /\ AaMoves("lock")
  /\ UNCHANGED phoneGone

(* What follows the session: a failed one is retried. *)
AaAfter ==
  /\ pc["aa"] = "after"
  /\ AaMoves(IF stop["aa"] THEN "ended"
             ELSE IF ~ phoneGone /\ outcome["aa"] # "ok" THEN "retry"
             ELSE "idle")
  /\ UNCHANGED <<run, runs, phoneVars>>

(* Mutation: the retry is forgotten *)
AaForgetsRetry ==
  /\ pc["aa"] = "retry"
  /\ AaMoves("idle")
  /\ UNCHANGED <<run, runs, phoneVars>>

(* The end of the retry delay, which a disconnect or a stop cuts short. *)
AaRetries ==
  /\ pc["aa"] = "retry"
  /\ startRequested' = (startRequested \/ (~ phoneGone /\ ~ stop["aa"]))
  /\ AaMoves("idle")
  /\ UNCHANGED <<run, runs, phoneGone>>

AaEnds ==
  /\ pc["aa"] = "idle"
  /\ stop["aa"]
  /\ AaMoves("ended")
  /\ UNCHANGED <<run, runs, phoneVars>>

-----------------------------------------------------------------------------
(* The management UI.                                                       *)

SaveConfiguration ==
  /\ main = "serving"
  /\ ~ configured
  /\ configured' = TRUE
  /\ UNCHANGED <<childVars, socketVars, runVars, stop, phoneVars, preflight,
                 scanning, prompt, answer, decision, main>>

(* POST /carplay-prepare: the state changes whether or not a thread can be  *)
(* started; a thread that has ended is joined first.                        *)
Prepare ==
  /\ main = "serving"
  /\ preflight \notin Active
  /\ ~ scanning
  /\ preflight' = "discovering"
  /\ IF configured
     THEN /\ runs < MaxRuns
          /\ pc["pf"] = "none"
          /\ runs' = runs + 1
          /\ run' = [run EXCEPT !["pf"] = runs + 1]
          /\ pc' = [pc EXCEPT !["pf"] = "begin"]
     ELSE UNCHANGED <<runs, run, pc>>
  /\ UNCHANGED <<childVars, socketVars, owner, stopping, outcome, stop,
                 phoneVars, configured, scanning, prompt, answer, decision, main>>

(* run_carplay_preflight up to its call of run *)
PreflightBegins ==
  /\ pc["pf"] = "begin"
  /\ pc' = [pc EXCEPT !["pf"] = "lock"]
  /\ preflight' = "discovering"
  /\ UNCHANGED <<childVars, socketVars, owner, stopping, run, outcome, runs,
                 stop, phoneVars, configured, scanning, prompt, answer,
                 decision, main>>

(* The end of run_carplay_preflight *)
PreflightAfter ==
  /\ pc["pf"] = "after"
  /\ pc' = [pc EXCEPT !["pf"] = "none"]
  /\ preflight' = IF outcome["pf"] = "ok" THEN "succeeded" ELSE "failed"
  /\ UNCHANGED <<childVars, socketVars, owner, stopping, run, outcome, runs,
                 stop, phoneVars, configured, scanning, prompt, answer,
                 decision, main>>

StartScan ==
  /\ main = "serving"
  /\ ~ scanning
  /\ scanning' = TRUE
  /\ UNCHANGED <<childVars, socketVars, runVars, stop, phoneVars, configured,
                 preflight, prompt, answer, decision, main>>

EndScan ==
  /\ scanning
  /\ scanning' = FALSE
  /\ UNCHANGED <<childVars, socketVars, runVars, stop, phoneVars, configured,
                 preflight, prompt, answer, decision, main>>

(* POST /bluetooth-confirm with the id of the prompt on show; any other id  *)
(* is refused.  One request worker at a time is between the two steps.      *)
TakeDecision(confirmed) ==
  /\ main = "serving"
  /\ answer = NoAnswer
  /\ prompt # 0
  /\ answer' = [id |-> prompt, confirmed |-> confirmed]
  /\ decision' = [decision EXCEPT ![prompt] = IF confirmed THEN 1 ELSE 0]
  /\ prompt' = 0
  /\ UNCHANGED <<childVars, socketVars, runVars, stop, phoneVars, configured,
                 preflight, scanning, main>>

(* CarPlayWorker::answer_pairing_confirmation; a prompt that could not be   *)
(* answered is put back unless there is another.                            *)
SendDecision ==
  /\ answer # NoAnswer
  /\ answer' = NoAnswer
  /\ IF child = "alive"
     THEN /\ toChild' = Append(toChild, [kind |-> "answer", id |-> answer.id,
                                         confirmed |-> answer.confirmed])
          /\ UNCHANGED prompt
     ELSE /\ prompt' = IF prompt = 0 THEN answer.id ELSE prompt
          /\ UNCHANGED toChild
  /\ UNCHANGED <<childVars, toDaemon, runVars, stop, phoneVars, configured,
                 preflight, scanning, decision, main>>

-----------------------------------------------------------------------------
(* The end of main: the request workers finish, the preflight thread and    *)
(* the scan are stopped and joined, then the Android Auto thread.           *)

Shutdown ==
  /\ main = "serving"
  /\ answer = NoAnswer
  /\ main' = "joining"
  /\ stop' = [stop EXCEPT !["pf"] = TRUE]
  /\ UNCHANGED <<childVars, socketVars, runVars, phoneVars, uiVars>>

JoinPreflight ==
  /\ main = "joining"
  /\ pc["pf"] = "none"
  /\ ~ scanning
  /\ main' = "joiningAa"
  /\ stop' = [stop EXCEPT !["aa"] = TRUE]
  /\ UNCHANGED <<childVars, socketVars, runVars, phoneVars, uiVars>>

(* The worker's destructor closes the socket, and kills a child that stays. *)
JoinAndroidAuto ==
  /\ main = "joiningAa"
  /\ pc["aa"] = "ended"
  /\ main' = "stopped"
  /\ child' = "reaped"
  /\ stopFlag' = FALSE
  /\ sessions' = {}
  /\ asking' = 0
  /\ pendingId' = 0
  /\ pendingResult' = -1
  /\ toChild' = <<>>
  /\ toDaemon' = <<>>
  /\ UNCHANGED <<nextId, runVars, stop, phoneVars, uiVars>>

Stopped ==
  /\ main = "stopped"
  /\ UNCHANGED vars

-----------------------------------------------------------------------------
RunStep(t) ==
  \/ BeginRun(t) \/ RunRefused(t) \/ ConnectionLost(t)
  \/ TakePrompt(t) \/ TakeResult(t) \/ SendStop(t) \/ Kill(t)

ChildCommand == StartSession \/ StopSession \/ AnswerConfirmation

Session ==
  \/ RequestConfirmation \/ ResolveConfirmation
  \/ \E s \in sessions, value \in {"ok", "failed", "stopped"} :
       EndSession(s, value)

AndroidAuto == AaConfigured \/ AaPrepares \/ AaAfter \/ AaRetries \/ AaEnds

Management ==
  \/ SaveConfiguration \/ Prepare \/ StartScan
  \/ \E confirmed \in BOOLEAN : TakeDecision(confirmed)

MainThread == Shutdown \/ JoinPreflight \/ JoinAndroidAuto

Next ==
  \/ \E t \in Threads : RunStep(t)
  \/ ChildCommand \/ Session \/ Crash
  \/ PhoneReady \/ PhoneDisconnected \/ AndroidAuto
  \/ Management \/ SendDecision \/ PreflightBegins \/ PreflightAfter \/ EndScan
  \/ MainThread \/ Stopped

Spec == Init /\ [][Next]_vars

(* The threads that call run go on while they can: run polls, and the       *)
(* Android Auto thread does not wait for anybody else outside of it.        *)
RunFairness ==
  /\ \A t \in Threads :
       WF_vars(ConnectionLost(t) \/ TakePrompt(t) \/ TakeResult(t)
                 \/ SendStop(t) \/ Kill(t))
  /\ WF_vars(AndroidAuto)

RunSpec == Spec /\ RunFairness

(* Every other thread of the daemon goes on while it can, too; a session    *)
(* need not: it may last as long as the phone stays, or hang.  A thread     *)
(* waiting for mutex_ gets it if it is free again and again.                *)
Fairness ==
  /\ RunFairness
  /\ \A t \in Threads : SF_vars(BeginRun(t) \/ RunRefused(t))
  /\ WF_vars(SendDecision)
  /\ WF_vars(PreflightBegins)
  /\ WF_vars(PreflightAfter)
  /\ WF_vars(EndScan)
  /\ WF_vars(JoinPreflight \/ JoinAndroidAuto)

FairSpec == Spec /\ Fairness

-----------------------------------------------------------------------------
ChildStates == {"alive", "dead", "reaped"}
Values == {"ok", "failed", "stopped"}
Commands ==
  [kind : {"start"}, run : 1 .. MaxRuns] \cup [kind : {"stop"}]
    \cup [kind : {"answer"}, id : 1 .. MaxPrompts, confirmed : BOOLEAN]
Messages ==
  [kind : {"prompt"}, id : 1 .. MaxPrompts]
    \cup [kind : {"result"}, run : 1 .. MaxRuns, value : Values]

ChildTypeOK ==
  /\ child \in ChildStates
  /\ stopFlag \in BOOLEAN
  /\ sessions \subseteq 1 .. runs
  /\ nextId \in 1 .. MaxPrompts + 1
  /\ asking \in 0 .. nextId - 1
  /\ pendingId \in 0 .. nextId - 1
  /\ pendingResult \in -1 .. 1

SocketTypeOK == toChild \in Seq(Commands) /\ toDaemon \in Seq(Messages)

RunTypeOK ==
  /\ owner \in Threads \cup {"none"}
  /\ stopping \in {"no", "sent", "killed"}
  /\ pc \in [aa : {"config", "idle", "lock", "run", "after", "retry", "ended"},
             pf : {"none", "begin", "lock", "run", "after"}]
  /\ run \in [Threads -> 0 .. runs]
  /\ outcome \in [Threads -> Values \cup {"none"}]
  /\ runs \in 0 .. MaxRuns

UiTypeOK ==
  /\ stop \in [Threads -> BOOLEAN]
  /\ phoneGone \in BOOLEAN
  /\ startRequested \in BOOLEAN
  /\ configured \in BOOLEAN
  /\ preflight \in {"idle", "succeeded", "failed"} \cup Active
  /\ scanning \in BOOLEAN
  /\ prompt \in 0 .. nextId - 1
  /\ answer \in [id : 0 .. nextId - 1, confirmed : BOOLEAN]
  /\ decision \in [1 .. MaxPrompts -> -1 .. 1]
  /\ main \in {"serving", "joining", "joiningAa", "stopped"}

(* Every variable keeps its type: commands and messages are well formed,    *)
(* prompts have numbers the child gave out, the threads are at known places.*)
TypeOK == ChildTypeOK /\ SocketTypeOK /\ RunTypeOK /\ UiTypeOK

(* The child never has two sessions at a time, though two threads start     *)
(* them: they would share the stop flag, the head unit and the Wi-Fi.       *)
OneSession == Cardinality(sessions) <= 1

(* A result on its way to run is the result of the run in progress: no run  *)
(* returns what an earlier session, stopped or cut off, still had to say.   *)
(* And a session is only stopped when its own run asked for it: a stop that *)
(* came after the last session had ended is not taken by the next one.      *)
ResultOfThisRun ==
  \A i \in 1 .. Len(toDaemon) :
    toDaemon[i].kind = "result" =>
      /\ owner \in Threads /\ toDaemon[i].run = run[owner]
      /\ toDaemon[i].value = "stopped" => stopping # "no"

(* The pairing agent gets the decision the user made on the very prompt it  *)
(* waits for, however late the answer to an earlier one is.                 *)
DecisionOnThisPrompt ==
  (pendingId # 0 /\ pendingResult # -1) => decision[pendingId] = pendingResult

(* The process that run may kill has not been reaped: its pid has not       *)
(* passed to another process.                                               *)
KillsOwnChild == owner # "none" => child # "reaped"

(* One child, one session: run serves one caller at a time and signals only *)
(* its own child, through crashes, kills and restarts.                      *)
OneChildOneSession == TypeOK /\ OneSession /\ KillsOwnChild

(* A prompt is on show during a run.  The one exception is a prompt that    *)
(* the user has already decided on: if the child died before the decision   *)
(* could be sent, POST /bluetooth-confirm puts the prompt back, and no run  *)
(* is left to take it away.                                                 *)
PromptDuringRun ==
  prompt # 0 => \/ owner # "none"
                \/ child # "alive" /\ decision[prompt] # -1

(* What the user is asked and answers belongs to the run in progress: no    *)
(* undecided prompt outlives its run, whether the run ends with a result or *)
(* with the child, and no answer reaches another prompt.                    *)
PromptOfThisRun == DecisionOnThisPrompt /\ PromptDuringRun

(* A run that was told to stop returns, even if its session hangs (run has  *)
(* one caller at a time, so this is said of whichever thread it is).        *)
StopEndsRun ==
  (\E t \in Threads : pc[t] = "run" /\ stop[t]) ~>
    (\A t \in Threads : pc[t] = "run" => ~ stop[t])

(* A failed CarPlay session is prepared again while the phone is there,     *)
(* unless the daemon stops.                                                 *)
RetryPrepares ==
  (pc["aa"] = "retry") ~>
    (pc["aa"] = "lock" \/ phoneGone \/ stop["aa"] \/ runs = MaxRuns)

(* A shutdown that has begun ends. *)
ShutdownEnds == (main = "joining") ~> (main = "stopped")
=============================================================================
