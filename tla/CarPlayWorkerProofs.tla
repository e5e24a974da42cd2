-------------------------- MODULE CarPlayWorkerProofs --------------------------
(***************************************************************************)
(* That one child process serves two threads without mixing up their runs: *)
(* theorems about CarPlayWorker for every number of runs and prompts.      *)
(*                                                                         *)
(* The inductive invariant follows a run through the socket: its request   *)
(* is on the way to the child, or its session is active, or its result is  *)
(* on the way back, and never two of these.                                *)
(***************************************************************************)
EXTENDS CarPlayWorker, FiniteSetTheorems, TLAPS

(* The thread that holds mutex_ is the one in run, and run has a number.    *)
LockInv ==
  /\ \A t \in Threads : pc[t] = "run" <=> owner = t
  /\ \A t \in Threads : pc[t] \in {"begin", "lock", "run"} => run[t] # 0
  /\ main \in {"joiningAa", "stopped"} => pc["pf"] = "none"
  /\ KillsOwnChild

(* A dead child has no sessions, and nothing is in its sockets.             *)
DeadInv ==
  child # "alive" => /\ sessions = {} /\ pendingId = 0
                     /\ toChild = <<>> /\ toDaemon = <<>>

(* A run in progress is a request, a session or a result.                   *)
PlaceInv ==
  /\ \A i \in 1 .. Len(toChild) : toChild[i].kind = "start" =>
       /\ owner \in Threads /\ toChild[i].run = run[owner]
       /\ sessions = {} /\ toDaemon = <<>>
       /\ \A j \in 1 .. Len(toChild) : toChild[j].kind = "start" => i = j
  /\ \A s \in sessions : owner \in Threads /\ s = run[owner]
  /\ toDaemon # <<>> => owner \in Threads
  /\ \A i \in 1 .. Len(toDaemon) : toDaemon[i].kind = "result" =>
       /\ toDaemon[i].run = run[owner]
       /\ sessions = {} /\ i = Len(toDaemon)

(* A stop that can reach the session of a run was sent by that run.         *)
StopInv ==
  /\ \A i, j \in 1 .. Len(toChild) :
       toChild[i].kind = "start" /\ toChild[j].kind = "stop" /\ i < j
         => stopping # "no"
  /\ sessions # {} => /\ stopFlag => stopping # "no"
                      /\ \A j \in 1 .. Len(toChild) :
                           toChild[j].kind = "stop" => stopping # "no"
  /\ \A i \in 1 .. Len(toDaemon) :
       toDaemon[i].kind = "result" /\ toDaemon[i].value = "stopped"
         => stopping # "no"

Verdict(confirmed) == IF confirmed THEN 1 ELSE 0

(* Prompts are numbered as they are made, and one not yet decided is on     *)
(* show or on its way; on show after its run is only one put back.          *)
PromptInv ==
  /\ \A i \in 1 .. Len(toDaemon) : toDaemon[i].kind = "prompt" =>
       /\ toDaemon[i].id < nextId /\ toDaemon[i].id # prompt
       /\ decision[toDaemon[i].id] = -1
       /\ \A j \in 1 .. Len(toDaemon) :
            toDaemon[j].kind = "prompt" /\ toDaemon[j].id = toDaemon[i].id => i = j
  /\ child = "alive" /\ prompt # 0 => decision[prompt] = -1
  /\ \A id \in 1 .. MaxPrompts : id >= nextId => decision[id] = -1
  /\ PromptDuringRun

(* An answer on its way carries the decision on the prompt it names.        *)
AnswerInv ==
  /\ answer # NoAnswer => /\ answer.id # 0
                          /\ decision[answer.id] = Verdict(answer.confirmed)
  /\ \A i \in 1 .. Len(toChild) : toChild[i].kind = "answer" =>
       decision[toChild[i].id] = Verdict(toChild[i].confirmed)
  /\ DecisionOnThisPrompt

WorkerInv ==
  /\ TypeOK /\ LockInv /\ DeadInv
  /\ PlaceInv /\ StopInv /\ PromptInv /\ AnswerInv

-----------------------------------------------------------------------------
(* What the socket carries is well formed. *)
LEMMA SocketTypeStep == ASSUME WorkerInv, [Next]_vars PROVE SocketTypeOK'
<1> USE WorkerAssumption DEF WorkerAssumption, WorkerInv, TypeOK, SocketTypeOK
<1>1. ASSUME NEW t \in Threads, BeginRun(t) PROVE SocketTypeOK'
  BY <1>1 DEF BeginRun, RunTypeOK, LockInv, Commands, Threads
<1>2. ASSUME NEW t \in Threads, TakePrompt(t) PROVE SocketTypeOK'
  BY <1>2 DEF TakePrompt
<1>3. ASSUME NEW t \in Threads, TakeResult(t) PROVE SocketTypeOK'
  BY <1>3 DEF TakeResult
<1>4. ASSUME NEW t \in Threads, SendStop(t) PROVE SocketTypeOK'
  BY <1>4 DEF SendStop, Commands
<1>5. ASSUME NEW t \in Threads, Kill(t) PROVE SocketTypeOK'
  <2>1. CASE child = "alive"
    BY <1>5, <2>1 DEF Kill, Dies
  <2>2. CASE child # "alive"
    BY <1>5, <2>2 DEF Kill, socketVars
  <2> QED BY <2>1, <2>2
<1>6. CASE StartSession
  BY <1>6 DEF StartSession, ChildReads
<1>7. CASE StopSession
  BY <1>7 DEF StopSession, ChildReads
<1>8. CASE AnswerConfirmation
  BY <1>8 DEF AnswerConfirmation, ChildReads
<1>9. CASE RequestConfirmation
  BY <1>9 DEF RequestConfirmation, ChildTypeOK, Messages
<1>10. ASSUME NEW s \in sessions, NEW value \in Values, EndSession(s, value) PROVE SocketTypeOK'
  BY <1>10 DEF EndSession, ChildTypeOK, RunTypeOK, Messages
<1>11. CASE Crash \/ JoinAndroidAuto
  <2>1. <<>> \in Seq(Commands) /\ <<>> \in Seq(Messages)
    OBVIOUS
  <2> QED BY <1>11, <2>1 DEF Crash, Dies, JoinAndroidAuto
<1>12. CASE SendDecision
  <2>1. [kind |-> "answer", id |-> answer.id, confirmed |-> answer.confirmed] \in Commands
    BY <1>12 DEF SendDecision, AnswerInv, UiTypeOK, ChildTypeOK, Commands
  <2>2. CASE child = "alive"
    BY <1>12, <2>1, <2>2 DEF SendDecision
  <2>3. CASE child # "alive"
    BY <1>12, <2>3 DEF SendDecision
  <2> QED BY <2>2, <2>3
<1>13. CASE UNCHANGED <<toChild, toDaemon>>
  BY <1>13
<1> HIDE DEF SocketTypeOK
<1> QED
  BY <1>1, <1>2, <1>3, <1>4, <1>5, <1>6, <1>7, <1>8, <1>9, <1>10, <1>11, <1>12, <1>13
     DEF Next, RunStep, ChildCommand, Session, AndroidAuto, Management, MainThread, RunRefused,
         ConnectionLost, ResolveConfirmation, PhoneReady, PhoneDisconnected, AaConfigured,
         AaPrepares, AaAfter, AaRetries, AaEnds, AaMoves, SaveConfiguration, Prepare, StartScan,
         TakeDecision, PreflightBegins, PreflightAfter, EndScan, Shutdown, JoinPreflight,
         Stopped, Values, socketVars, vars

(* The child's variables have their types; prompts and sessions have        *)
(* numbers that were given out.                                             *)
LEMMA ChildTypeStep == ASSUME WorkerInv, [Next]_vars PROVE ChildTypeOK'
<1> USE WorkerAssumption DEF WorkerAssumption, WorkerInv, TypeOK, ChildTypeOK, ChildStates
<1>1. ASSUME NEW t \in Threads, ConnectionLost(t) PROVE ChildTypeOK'
  BY <1>1 DEF ConnectionLost
<1>2. CASE Dies /\ UNCHANGED runs
  <2>1. {} \subseteq 1 .. runs /\ 0 \in 0 .. nextId - 1 /\ -1 \in -1 .. 1
    OBVIOUS
  <2> QED BY <1>2, <2>1 DEF Dies
<1>3. ASSUME NEW t \in Threads, Kill(t) PROVE ChildTypeOK'
  <2>1. CASE child = "alive"
    BY <1>2, <1>3, <2>1 DEF Kill
  <2>2. CASE child # "alive"
    BY <1>3, <2>2 DEF Kill, childVars
  <2> QED BY <2>1, <2>2
<1>4. CASE StartSession
  <2> DEFINE s == Head(toChild).run
  <2>1. s = run[owner] /\ owner \in Threads
    BY <1>4 DEF StartSession, ChildReads, SocketTypeOK, PlaceInv
  <2>2. s \in 1 .. runs
    BY <2>1 DEF RunTypeOK, LockInv
  <2> QED BY <1>4, <2>2 DEF StartSession, runVars
<1>5. CASE StopSession
  BY <1>5 DEF StopSession, runVars
<1>6. CASE AnswerConfirmation
  BY <1>6 DEF AnswerConfirmation, runVars
<1>7. CASE RequestConfirmation
  BY <1>7 DEF RequestConfirmation, runVars
<1>8. CASE ResolveConfirmation
  BY <1>8 DEF ResolveConfirmation, runVars
<1>9. ASSUME NEW s \in sessions, NEW value \in Values, EndSession(s, value) PROVE ChildTypeOK'
  BY <1>9 DEF EndSession, runVars
<1>10. CASE Crash
  BY <1>2, <1>10 DEF Crash, runVars
<1>11. CASE JoinAndroidAuto
  <2>1. {} \subseteq 1 .. runs /\ 0 \in 0 .. nextId - 1 /\ -1 \in -1 .. 1
    OBVIOUS
  <2> QED BY <1>11, <2>1 DEF JoinAndroidAuto, runVars
<1>12. CASE AaPrepares
  BY <1>12 DEF AaPrepares, AaMoves, childVars, RunTypeOK
<1>13. CASE Prepare
  BY <1>13 DEF Prepare, childVars, RunTypeOK
<1>14. CASE UNCHANGED <<childVars, runs>>
  BY <1>14 DEF childVars
<1> HIDE DEF ChildTypeOK
<1> QED
  BY <1>1, <1>3, <1>4, <1>5, <1>6, <1>7, <1>8, <1>9, <1>10, <1>11, <1>12, <1>13, <1>14
     DEF Next, RunStep, ChildCommand, Session, AndroidAuto, Management, MainThread, BeginRun,
         RunRefused, TakePrompt, TakeResult, SendStop, PhoneReady, PhoneDisconnected, AaConfigured,
         AaAfter, AaRetries, AaEnds, AaMoves, SaveConfiguration, StartScan, TakeDecision,
         SendDecision, PreflightBegins, PreflightAfter, EndScan, Shutdown, JoinPreflight,
         Stopped, Values, runVars, vars

(* The callers of run are at known places, with runs that were requested.   *)
LEMMA RunTypeStep == ASSUME WorkerInv, [Next]_vars PROVE RunTypeOK'
<1> USE WorkerAssumption DEF WorkerAssumption, WorkerInv, TypeOK, RunTypeOK, Threads
<1>1. ASSUME NEW t \in Threads, BeginRun(t) PROVE RunTypeOK'
  BY <1>1 DEF BeginRun
<1>2. ASSUME NEW t \in Threads, RunRefused(t) PROVE RunTypeOK'
  BY <1>2 DEF RunRefused, Values
<1>3. ASSUME NEW t \in Threads, ConnectionLost(t) PROVE RunTypeOK'
  BY <1>3 DEF ConnectionLost, EndRun, Values
<1>4. ASSUME NEW t \in Threads, TakeResult(t) PROVE RunTypeOK'
  <2>1. Head(toDaemon).value \in Values
    BY <1>4 DEF TakeResult, SocketTypeOK, Messages
  <2> QED BY <1>4, <2>1 DEF TakeResult, EndRun
<1>5. ASSUME NEW t \in Threads, SendStop(t) \/ Kill(t) PROVE RunTypeOK'
  BY <1>5 DEF SendStop, Kill
<1>6. CASE AaConfigured \/ AaAfter \/ AaRetries \/ AaEnds
  BY <1>6 DEF AaConfigured, AaAfter, AaRetries, AaEnds, AaMoves
<1>7. CASE AaPrepares
  BY <1>7 DEF AaPrepares, AaMoves
<1>8. CASE Prepare
  BY <1>8 DEF Prepare
<1>9. CASE PreflightBegins \/ PreflightAfter
  BY <1>9 DEF PreflightBegins, PreflightAfter
<1>10. CASE UNCHANGED runVars
  BY <1>10 DEF runVars
<1> HIDE DEF RunTypeOK
<1> QED
  BY <1>1, <1>2, <1>3, <1>4, <1>5, <1>6, <1>7, <1>8, <1>9, <1>10
     DEF Next, RunStep, ChildCommand, Session, AndroidAuto, Management, MainThread, TakePrompt,
         StartSession, StopSession, AnswerConfirmation, RequestConfirmation, ResolveConfirmation,
         EndSession, Crash, PhoneReady, PhoneDisconnected, SaveConfiguration, StartScan,
         TakeDecision, SendDecision, EndScan, Shutdown, JoinPreflight, JoinAndroidAuto,
         Stopped, vars

(* The prompt on show and the answer to one have numbers the child gave out.*)
LEMMA UiTypeStep == ASSUME WorkerInv, [Next]_vars PROVE UiTypeOK'
<1> USE WorkerAssumption DEF WorkerAssumption, WorkerInv, TypeOK, ChildTypeOK, UiTypeOK, Active
<1>1. ASSUME NEW t \in Threads, TakePrompt(t) PROVE UiTypeOK'
  <2>1. Head(toDaemon) \in Messages /\ Head(toDaemon) = toDaemon[1] /\ 1 \in 1 .. Len(toDaemon)
    BY <1>1 DEF TakePrompt, SocketTypeOK
  <2>2. Head(toDaemon).id \in 1 .. MaxPrompts
    BY <1>1, <2>1 DEF TakePrompt, Messages
  <2>3. Head(toDaemon).id \in 0 .. nextId - 1
    BY <1>1, <2>1, <2>2 DEF TakePrompt, PromptInv
  <2> QED BY <1>1, <2>3 DEF TakePrompt, childVars, phoneVars
<1>2. ASSUME NEW t \in Threads, TakeResult(t) \/ ConnectionLost(t) PROVE UiTypeOK'
  BY <1>2 DEF TakeResult, ConnectionLost, childVars, phoneVars
<1>3. CASE RequestConfirmation
  BY <1>3 DEF RequestConfirmation, phoneVars, uiVars
<1>4. CASE PhoneReady \/ PhoneDisconnected
  BY <1>4 DEF PhoneReady, PhoneDisconnected, childVars, uiVars
<1>5. CASE AaPrepares \/ AaRetries
  <2>1. CASE AaPrepares
    BY <2>1 DEF AaPrepares, AaMoves, childVars, uiVars
  <2>2. CASE AaRetries
    BY <2>2 DEF AaRetries, AaMoves, childVars, uiVars
  <2> QED BY <1>5, <2>1, <2>2
<1>6. CASE SaveConfiguration \/ Prepare \/ StartScan \/ EndScan \/ PreflightBegins \/ PreflightAfter
  BY ZenonT(40), <1>6 DEF SaveConfiguration, Prepare, StartScan, EndScan, PreflightBegins, PreflightAfter,
              childVars, phoneVars
<1>7. ASSUME NEW confirmed \in BOOLEAN, TakeDecision(confirmed) PROVE UiTypeOK'
  BY <1>7 DEF TakeDecision, childVars, phoneVars
<1>8. CASE SendDecision
  BY <1>8 DEF SendDecision, NoAnswer, childVars, phoneVars
<1>9. CASE Shutdown \/ JoinPreflight
  BY <1>9 DEF Shutdown, JoinPreflight, Threads, childVars, phoneVars, uiVars
<1>10. CASE JoinAndroidAuto
  BY <1>10 DEF JoinAndroidAuto, phoneVars, uiVars
<1>11. CASE UNCHANGED <<nextId, stop, phoneVars, uiVars, main>>
  BY <1>11 DEF phoneVars, uiVars
<1> HIDE DEF UiTypeOK
<1> QED
  BY <1>1, <1>2, <1>3, <1>4, <1>5, <1>6, <1>7, <1>8, <1>9, <1>10, <1>11
     DEF Next, RunStep, ChildCommand, Session, AndroidAuto, Management, MainThread, BeginRun,
         RunRefused, SendStop, Kill, Dies, StartSession, StopSession, AnswerConfirmation,
         ResolveConfirmation, EndSession, Crash, AaConfigured, AaAfter, AaEnds, AaMoves,
         Stopped, childVars, vars

-----------------------------------------------------------------------------
(* The lock, and the death of the child. *)
LEMMA LockStep == ASSUME WorkerInv, [Next]_vars PROVE LockInv'
<1> USE DEF WorkerInv, LockInv, KillsOwnChild, TypeOK, RunTypeOK, Threads
<1>1. ASSUME NEW t \in Threads, BeginRun(t) \/ RunRefused(t) PROVE LockInv'
  BY <1>1 DEF BeginRun, RunRefused, childVars
<1>2. ASSUME NEW t \in Threads, ConnectionLost(t) PROVE LockInv'
  BY <1>2 DEF ConnectionLost, EndRun, Running
<1>3. ASSUME NEW t \in Threads, TakeResult(t) PROVE LockInv'
  BY <1>3 DEF TakeResult, EndRun, Running, childVars
<1>4. ASSUME NEW t \in Threads, Kill(t) PROVE LockInv'
  BY <1>4 DEF Kill, Dies, childVars
<1>5. CASE Crash
  BY <1>5 DEF Crash, Dies, runVars
<1>6. CASE AaConfigured \/ AaAfter \/ AaRetries \/ AaEnds
  BY <1>6 DEF AaConfigured, AaAfter, AaRetries, AaEnds, AaMoves, childVars
<1>7. CASE AaPrepares
  BY <1>7 DEF AaPrepares, AaMoves, childVars
<1>8. CASE Prepare
  BY <1>8 DEF Prepare, childVars
<1>9. CASE PreflightBegins \/ PreflightAfter
  BY <1>9 DEF PreflightBegins, PreflightAfter, childVars
<1>10. CASE Shutdown \/ JoinPreflight \/ JoinAndroidAuto
  BY <1>10 DEF Shutdown, JoinPreflight, JoinAndroidAuto, childVars, runVars
<1>11. CASE UNCHANGED <<child, owner, pc, run, main>>
  BY <1>11
<1> HIDE DEF LockInv
<1> QED
  BY <1>1, <1>2, <1>3, <1>4, <1>5, <1>6, <1>7, <1>8, <1>9, <1>10, <1>11
     DEF Next, RunStep, ChildCommand, Session, AndroidAuto, Management, MainThread, TakePrompt,
         SendStop, StartSession, StopSession, AnswerConfirmation, RequestConfirmation,
         ResolveConfirmation, EndSession, PhoneReady, PhoneDisconnected, SaveConfiguration,
         StartScan, TakeDecision, SendDecision, EndScan, Stopped, childVars, runVars, vars

LEMMA DeadStep == ASSUME WorkerInv, [Next]_vars PROVE DeadInv'
<1> USE DEF WorkerInv, DeadInv
<1>1. ASSUME NEW t \in Threads, BeginRun(t) \/ TakePrompt(t) \/ TakeResult(t) \/ SendStop(t)
      PROVE DeadInv'
  BY <1>1 DEF BeginRun, TakePrompt, TakeResult, SendStop, childVars
<1>2. ASSUME NEW t \in Threads, ConnectionLost(t) \/ Kill(t) PROVE DeadInv'
  BY <1>2 DEF ConnectionLost, Kill, Dies, childVars, socketVars
<1>3. CASE ChildCommand
  BY <1>3 DEF ChildCommand, StartSession, StopSession, AnswerConfirmation, ChildReads
<1>4. CASE Session
  BY <1>4 DEF Session, RequestConfirmation, ResolveConfirmation, EndSession
<1>5. CASE Crash \/ JoinAndroidAuto
  BY <1>5 DEF Crash, Dies, JoinAndroidAuto
<1>6. CASE SendDecision
  BY <1>6 DEF SendDecision, childVars
<1>7. CASE UNCHANGED <<childVars, socketVars>>
  BY <1>7 DEF childVars, socketVars
<1> HIDE DEF DeadInv
<1> QED
  BY <1>1, <1>2, <1>3, <1>4, <1>5, <1>6, <1>7
     DEF Next, RunStep, AndroidAuto, Management, MainThread, RunRefused, PhoneReady,
         PhoneDisconnected, AaConfigured, AaPrepares, AaAfter, AaRetries, AaEnds, AaMoves,
         SaveConfiguration, Prepare, StartScan, TakeDecision, PreflightBegins, PreflightAfter,
         EndScan, Shutdown, JoinPreflight, Stopped, vars

-----------------------------------------------------------------------------
(* A run is in one place: what one place loses the next one gets. *)
LEMMA PlaceStep == ASSUME WorkerInv, [Next]_vars PROVE PlaceInv'
<1> USE DEF WorkerInv, PlaceInv
<1>1. ASSUME NEW t \in Threads, BeginRun(t) PROVE PlaceInv'
  BY <1>1 DEF BeginRun, LockInv, TypeOK, RunTypeOK, SocketTypeOK, Threads, childVars
<1>2. ASSUME NEW t \in Threads, ConnectionLost(t) PROVE PlaceInv'
  BY <1>2 DEF ConnectionLost, DeadInv, EndRun, socketVars
<1>3. ASSUME NEW t \in Threads, TakePrompt(t) PROVE PlaceInv'
  BY <1>3 DEF TakePrompt, Running, childVars, runVars, TypeOK, SocketTypeOK
<1>4. ASSUME NEW t \in Threads, TakeResult(t) PROVE PlaceInv'
  BY <1>4 DEF TakeResult, Running, EndRun, childVars, TypeOK, SocketTypeOK, ChildTypeOK
<1>5. ASSUME NEW t \in Threads, SendStop(t) PROVE PlaceInv'
  BY <1>5 DEF SendStop, Running, childVars, TypeOK, SocketTypeOK
<1>6. ASSUME NEW t \in Threads, Kill(t) PROVE PlaceInv'
  BY <1>6 DEF Kill, Dies, Running, childVars, socketVars
<1>7. CASE StartSession
  BY <1>7 DEF StartSession, ChildReads, runVars, TypeOK, SocketTypeOK, Commands
<1>8. CASE StopSession
  BY <1>8 DEF StopSession, ChildReads, runVars, TypeOK, SocketTypeOK
<1>9. CASE AnswerConfirmation
  BY <1>9 DEF AnswerConfirmation, ChildReads, runVars, TypeOK, SocketTypeOK
<1>10. CASE RequestConfirmation
  BY <1>10 DEF RequestConfirmation, runVars, TypeOK, SocketTypeOK
<1>11. ASSUME NEW s \in sessions, NEW value \in Values, EndSession(s, value) PROVE PlaceInv'
  BY <1>11 DEF EndSession, runVars, TypeOK, SocketTypeOK
<1>12. CASE Crash \/ JoinAndroidAuto
  BY <1>12 DEF Crash, Dies, JoinAndroidAuto, runVars
<1>13. CASE AaPrepares \/ Prepare
  BY <1>13 DEF AaPrepares, AaMoves, Prepare, LockInv, TypeOK, RunTypeOK, Threads, childVars, socketVars
<1>14. CASE SendDecision
  <2>1. CASE child = "alive"
    <3>1. \A j \in 1 .. Len(toChild') :
            toChild'[j].kind # "answer" => j \in 1 .. Len(toChild) /\ toChild'[j] = toChild[j]
      BY <1>14, <2>1 DEF SendDecision, TypeOK, SocketTypeOK
    <3> QED BY <1>14, <3>1 DEF SendDecision, childVars, runVars
  <2>2. CASE child # "alive"
    BY <1>14, <2>2 DEF SendDecision, childVars, runVars
  <2> QED BY <2>1, <2>2
<1>15. CASE UNCHANGED <<toChild, toDaemon, sessions, owner, run>>
  BY <1>15
<1> HIDE DEF PlaceInv
<1> QED
  BY <1>1, <1>2, <1>3, <1>4, <1>5, <1>6, <1>7, <1>8, <1>9, <1>10, <1>11, <1>12, <1>13, <1>14, <1>15
     DEF Next, RunStep, ChildCommand, Session, AndroidAuto, Management, MainThread, RunRefused,
         ResolveConfirmation, PhoneReady, PhoneDisconnected, AaConfigured, AaAfter, AaRetries,
         AaEnds, AaMoves, SaveConfiguration, StartScan, TakeDecision, PreflightBegins,
         PreflightAfter, EndScan, Shutdown, JoinPreflight, Stopped, Values,
         childVars, socketVars, runVars, vars

(* A request that follows an old stop in the socket clears the flag, so     *)
(* only stops behind it count.                                              *)
LEMMA StopStep == ASSUME WorkerInv, [Next]_vars PROVE StopInv'
<1> USE DEF WorkerInv, StopInv
<1>1. ASSUME NEW t \in Threads, BeginRun(t) PROVE StopInv'
  BY <1>1 DEF BeginRun, PlaceInv, TypeOK, SocketTypeOK, Threads, childVars
<1>2. ASSUME NEW t \in Threads, ConnectionLost(t) PROVE StopInv'
  BY <1>2 DEF ConnectionLost, socketVars
<1>3. ASSUME NEW t \in Threads, TakePrompt(t) \/ TakeResult(t) PROVE StopInv'
  <2>1. toDaemon # <<>> /\ toDaemon' = Tail(toDaemon)
    BY <1>3 DEF TakePrompt, TakeResult
  <2>2. \A j \in 1 .. Len(toDaemon') : toDaemon'[j] = toDaemon[j + 1] /\ j + 1 \in 1 .. Len(toDaemon)
    BY <2>1 DEF TypeOK, SocketTypeOK
  <2> QED BY <1>3, <2>2 DEF TakePrompt, TakeResult, childVars, runVars
<1>4. ASSUME NEW t \in Threads, SendStop(t) PROVE StopInv'
  BY <1>4 DEF SendStop
<1>5. ASSUME NEW t \in Threads, Kill(t) PROVE StopInv'
  BY <1>5 DEF Kill
<1>6. CASE StartSession
  <2>1. \A j \in 1 .. Len(toChild') : toChild'[j] = toChild[j + 1] /\ j + 1 \in 1 .. Len(toChild)
    BY <1>6 DEF StartSession, ChildReads, TypeOK, SocketTypeOK
  <2>2. 1 \in 1 .. Len(toChild) /\ toChild[1].kind = "start"
    BY <1>6 DEF StartSession, ChildReads, TypeOK, SocketTypeOK
  <2>3. \A j \in 1 .. Len(toChild') : toChild'[j].kind = "stop" => stopping # "no"
    BY <2>1, <2>2
  <2> QED BY <1>6, <2>1, <2>3 DEF StartSession, runVars
<1>7. CASE StopSession
  <2>1. \A j \in 1 .. Len(toChild') : toChild'[j] = toChild[j + 1] /\ j + 1 \in 1 .. Len(toChild)
    BY <1>7 DEF StopSession, ChildReads, TypeOK, SocketTypeOK
  <2>2. 1 \in 1 .. Len(toChild) /\ toChild[1].kind = "stop"
    BY <1>7 DEF StopSession, ChildReads, TypeOK, SocketTypeOK
  <2>3. sessions # {} => stopping # "no"
    BY <2>2
  <2>4. UNCHANGED <<sessions, toDaemon, stopping>>
    BY <1>7 DEF StopSession, runVars
  <2> QED BY <2>1, <2>3, <2>4
<1>8. CASE AnswerConfirmation
  <2>1. \A j \in 1 .. Len(toChild') : toChild'[j] = toChild[j + 1] /\ j + 1 \in 1 .. Len(toChild)
    BY <1>8 DEF AnswerConfirmation, ChildReads, TypeOK, SocketTypeOK
  <2> QED BY <1>8, <2>1 DEF AnswerConfirmation, runVars
<1>9. CASE RequestConfirmation
  BY <1>9 DEF RequestConfirmation, runVars, TypeOK, SocketTypeOK
<1>10. ASSUME NEW s \in sessions, NEW value \in Values, EndSession(s, value) PROVE StopInv'
  BY <1>10 DEF EndSession, runVars, TypeOK, SocketTypeOK
<1>11. CASE Crash \/ JoinAndroidAuto
  BY <1>11 DEF Crash, Dies, JoinAndroidAuto, runVars
<1>12. CASE SendDecision
  <2>1. CASE child = "alive"
    <3>1. \A j \in 1 .. Len(toChild') :
            toChild'[j].kind # "answer" => j \in 1 .. Len(toChild) /\ toChild'[j] = toChild[j]
      BY <1>12, <2>1 DEF SendDecision, TypeOK, SocketTypeOK
    <3> QED BY <1>12, <3>1 DEF SendDecision, childVars, runVars
  <2>2. CASE child # "alive"
    BY <1>12, <2>2 DEF SendDecision, childVars, runVars
  <2> QED BY <2>1, <2>2
<1>13. CASE UNCHANGED <<toChild, toDaemon, sessions, stopFlag, stopping>>
  BY <1>13
<1> HIDE DEF StopInv
<1> QED
  BY <1>1, <1>2, <1>3, <1>4, <1>5, <1>6, <1>7, <1>8, <1>9, <1>10, <1>11, <1>12, <1>13
     DEF Next, RunStep, ChildCommand, Session, AndroidAuto, Management, MainThread, RunRefused,
         ResolveConfirmation, PhoneReady, PhoneDisconnected, AaConfigured, AaPrepares, AaAfter,
         AaRetries, AaEnds, AaMoves, SaveConfiguration, Prepare, StartScan, TakeDecision,
         PreflightBegins, PreflightAfter, EndScan, Shutdown, JoinPreflight, Stopped, Values,
         childVars, socketVars, runVars, vars

-----------------------------------------------------------------------------
(* A prompt is taken off the queue, shown and decided once. *)
LEMMA PromptStep == ASSUME WorkerInv, [Next]_vars PROVE PromptInv'
<1> USE DEF WorkerInv, PromptInv, PromptDuringRun
<1>1. ASSUME NEW t \in Threads, BeginRun(t) PROVE PromptInv'
  BY <1>1 DEF BeginRun, childVars, uiVars, Threads
<1>2. ASSUME NEW t \in Threads, ConnectionLost(t) PROVE PromptInv'
  BY <1>2 DEF ConnectionLost, DeadInv, socketVars
<1>3. ASSUME NEW t \in Threads, TakePrompt(t) PROVE PromptInv'
  <2>1. \A j \in 1 .. Len(toDaemon') : toDaemon'[j] = toDaemon[j + 1] /\ j + 1 \in 1 .. Len(toDaemon)
    BY <1>3 DEF TakePrompt, TypeOK, SocketTypeOK
  <2>2. 1 \in 1 .. Len(toDaemon) /\ toDaemon[1].kind = "prompt" /\ prompt' = toDaemon[1].id
    BY <1>3 DEF TakePrompt, TypeOK, SocketTypeOK
  <2>3. UNCHANGED <<child, owner, nextId, decision>> /\ owner # "none"
    BY <1>3 DEF TakePrompt, Running, Threads, childVars, runVars
  <2>4. decision[prompt'] = -1
    BY <2>2
  <2>5. \A j \in 1 .. Len(toDaemon') : toDaemon'[j].kind = "prompt" => toDaemon'[j].id # prompt'
    <3> SUFFICES ASSUME NEW j \in 1 .. Len(toDaemon'), toDaemon'[j].kind = "prompt",
                        toDaemon'[j].id = prompt'
                 PROVE  FALSE
      OBVIOUS
    <3>1. j + 1 = 1
      BY <2>1, <2>2
    <3> QED BY <3>1
  <2>6. ASSUME NEW i \in 1 .. Len(toDaemon'), toDaemon'[i].kind = "prompt",
               NEW j \in 1 .. Len(toDaemon'), toDaemon'[j].kind = "prompt",
               toDaemon'[j].id = toDaemon'[i].id
        PROVE  i = j
    <3>1. i + 1 = j + 1
      BY SMTT(30), <2>1, <2>6
    <3> QED BY <3>1
  <2>7. \A j \in 1 .. Len(toDaemon') : toDaemon'[j].kind = "prompt" =>
          toDaemon'[j].id < nextId /\ decision[toDaemon'[j].id] = -1
    BY <2>1
  <2> QED BY <2>3, <2>4, <2>5, <2>6, <2>7
<1>4. ASSUME NEW t \in Threads, TakeResult(t) PROVE PromptInv'
  <2>1. toDaemon' = <<>>
    BY <1>4 DEF TakeResult, PlaceInv, TypeOK, SocketTypeOK
  <2>2. UNCHANGED <<nextId, decision>> /\ prompt' = 0
    BY <1>4 DEF TakeResult, childVars
  <2> QED BY <2>1, <2>2
<1>5. CASE RequestConfirmation
  <2>1. nextId \in 1 .. MaxPrompts /\ prompt < nextId /\ nextId' = nextId + 1
    BY <1>5 DEF RequestConfirmation, TypeOK, ChildTypeOK, UiTypeOK
  <2>2. /\ Len(toDaemon') = Len(toDaemon) + 1 /\ Len(toDaemon) \in Nat
        /\ toDaemon'[Len(toDaemon')] = [kind |-> "prompt", id |-> nextId]
        /\ \A j \in 1 .. Len(toDaemon) : toDaemon'[j] = toDaemon[j]
    BY <1>5 DEF RequestConfirmation, TypeOK, SocketTypeOK
  <2>3. \A j \in 1 .. Len(toDaemon) : toDaemon[j].kind = "prompt" => toDaemon[j].id < nextId
    OBVIOUS
  <2>4. UNCHANGED <<child, prompt, decision, owner>>
    BY <1>5 DEF RequestConfirmation, runVars, uiVars
  <2>5. decision[nextId] = -1
    BY <2>1
  <2>6. \A i \in 1 .. Len(toDaemon') : toDaemon'[i].kind = "prompt" =>
          /\ toDaemon'[i].id < nextId' /\ toDaemon'[i].id # prompt
          /\ decision[toDaemon'[i].id] = -1
    <3> SUFFICES ASSUME NEW i \in 1 .. Len(toDaemon'), toDaemon'[i].kind = "prompt"
                 PROVE  /\ toDaemon'[i].id < nextId' /\ toDaemon'[i].id # prompt
                        /\ decision[toDaemon'[i].id] = -1
      OBVIOUS
    <3>1. CASE i = Len(toDaemon')
      BY <2>1, <2>2, <2>5, <3>1 DEF TypeOK, ChildTypeOK, UiTypeOK
    <3>2. CASE i # Len(toDaemon')
      <4>1. i \in 1 .. Len(toDaemon) /\ toDaemon'[i] = toDaemon[i]
        BY <2>2, <3>2
      <4>2. toDaemon[i].id \in Nat
        BY <4>1 DEF TypeOK, SocketTypeOK, Messages
      <4> QED BY <2>1, <2>3, <4>1, <4>2
    <3> QED BY <3>1, <3>2
  <2>7. ASSUME NEW i \in 1 .. Len(toDaemon'), toDaemon'[i].kind = "prompt",
               NEW j \in 1 .. Len(toDaemon'), toDaemon'[j].kind = "prompt",
               toDaemon'[j].id = toDaemon'[i].id
        PROVE  i = j
    BY <2>1, <2>2, <2>3, <2>7
  <2>8. \A id \in 1 .. MaxPrompts : id >= nextId' => decision'[id] = -1
    BY <2>1, <2>4
  <2>9. child' = "alive" /\ prompt' # 0 => decision'[prompt'] = -1
    BY <2>4
  <2>10. PromptDuringRun'
    BY <2>4 DEF PromptDuringRun
  <2> QED BY <2>4, <2>6, <2>7, <2>8, <2>9, <2>10
<1>6. ASSUME NEW s \in sessions, NEW value \in Values, EndSession(s, value) PROVE PromptInv'
  <2>1. /\ Len(toDaemon') = Len(toDaemon) + 1 /\ Len(toDaemon) \in Nat
        /\ toDaemon'[Len(toDaemon')].kind = "result"
        /\ \A j \in 1 .. Len(toDaemon) : toDaemon'[j] = toDaemon[j]
    BY <1>6 DEF EndSession, TypeOK, SocketTypeOK
  <2>2. \A j \in 1 .. Len(toDaemon') : toDaemon'[j].kind = "prompt" => j \in 1 .. Len(toDaemon)
    BY <2>1
  <2> QED BY <1>6, <2>1, <2>2 DEF EndSession, runVars, uiVars
<1>7. ASSUME NEW t \in Threads, Kill(t) PROVE PromptInv'
  BY <1>7 DEF Kill, Dies, childVars, socketVars, uiVars
<1>8. CASE Crash \/ JoinAndroidAuto
  BY <1>8 DEF Crash, Dies, JoinAndroidAuto, runVars, uiVars
<1>9. ASSUME NEW confirmed \in BOOLEAN, TakeDecision(confirmed) PROVE PromptInv'
  <2>1. prompt \in 1 .. MaxPrompts /\ prompt < nextId
    BY <1>9, WorkerAssumption DEF WorkerAssumption, TakeDecision, TypeOK, ChildTypeOK, UiTypeOK
  <2>2. \A id \in 1 .. MaxPrompts : id # prompt => decision'[id] = decision[id]
    BY <1>9, <2>1 DEF TakeDecision, TypeOK, UiTypeOK
  <2>3. \A i \in 1 .. Len(toDaemon) :
          toDaemon[i].kind = "prompt" => toDaemon[i].id \in 1 .. MaxPrompts
    BY DEF TypeOK, SocketTypeOK, Messages
  <2>4. UNCHANGED <<child, toDaemon, nextId>> /\ prompt' = 0
    BY <1>9 DEF TakeDecision, childVars, socketVars
  <2> QED BY <2>1, <2>2, <2>3, <2>4 DEF TypeOK, ChildTypeOK
<1>10. CASE SendDecision
  <2>1. answer.id # 0 /\ decision[answer.id] # -1
    BY <1>10 DEF SendDecision, AnswerInv, Verdict
  <2> QED BY <1>10, <2>1 DEF SendDecision, DeadInv, childVars, runVars
<1>11. CASE UNCHANGED <<child, toDaemon, nextId, prompt, decision, owner>>
  BY <1>11
<1> HIDE DEF PromptInv
<1> QED
  BY <1>1, <1>2, <1>3, <1>4, <1>5, <1>6, <1>7, <1>8, <1>9, <1>10, <1>11
     DEF Next, RunStep, ChildCommand, Session, AndroidAuto, Management, MainThread, RunRefused,
         SendStop, StartSession, StopSession, AnswerConfirmation, ResolveConfirmation, PhoneReady,
         PhoneDisconnected, AaConfigured, AaPrepares, AaAfter, AaRetries, AaEnds, AaMoves,
         SaveConfiguration, Prepare, StartScan, PreflightBegins, PreflightAfter, EndScan,
         Shutdown, JoinPreflight, Stopped, Values, childVars, socketVars, runVars, uiVars, vars

(* The agent of a prompt gets the decision on that prompt. *)
LEMMA AnswerStep == ASSUME WorkerInv, [Next]_vars PROVE AnswerInv'
<1> USE DEF WorkerInv, AnswerInv, DecisionOnThisPrompt
<1>1. ASSUME NEW t \in Threads, BeginRun(t) \/ SendStop(t) PROVE AnswerInv'
  <2>1. \A j \in 1 .. Len(toChild') :
          toChild'[j].kind = "answer" => j \in 1 .. Len(toChild) /\ toChild'[j] = toChild[j]
    <3>1. CASE BeginRun(t)
      BY <3>1 DEF BeginRun, TypeOK, SocketTypeOK
    <3>2. CASE SendStop(t) /\ child = "alive"
      BY <3>2 DEF SendStop, TypeOK, SocketTypeOK
    <3>3. CASE SendStop(t) /\ child # "alive"
      BY <3>3 DEF SendStop
    <3> QED BY <1>1, <3>1, <3>2, <3>3
  <2> QED BY <1>1, <2>1 DEF BeginRun, SendStop, childVars, uiVars
<1>2. ASSUME NEW t \in Threads, ConnectionLost(t) \/ TakePrompt(t) \/ TakeResult(t) PROVE AnswerInv'
  BY <1>2 DEF ConnectionLost, TakePrompt, TakeResult, childVars, socketVars
<1>3. ASSUME NEW t \in Threads, Kill(t) PROVE AnswerInv'
  BY <1>3 DEF Kill, Dies, childVars, socketVars, uiVars
<1>4. ASSUME NEW kind, ChildReads(kind)
      PROVE \A j \in 1 .. Len(toChild') : toChild'[j] = toChild[j + 1] /\ j + 1 \in 1 .. Len(toChild)
  BY <1>4 DEF ChildReads, TypeOK, SocketTypeOK
<1>5. CASE StartSession \/ StopSession
  BY <1>4, <1>5 DEF StartSession, StopSession, uiVars
<1>6. CASE AnswerConfirmation
  <2>1. 1 \in 1 .. Len(toChild) /\ Head(toChild) = toChild[1] /\ toChild[1].kind = "answer"
    BY <1>6 DEF AnswerConfirmation, ChildReads, TypeOK, SocketTypeOK
  <2>2. decision[toChild[1].id] = Verdict(toChild[1].confirmed)
    BY <2>1
  <2>3. pendingResult' = IF pendingId = toChild[1].id THEN Verdict(toChild[1].confirmed)
                                                      ELSE pendingResult
    BY <1>6, <2>1 DEF AnswerConfirmation, Verdict
  <2> QED BY <1>4, <1>6, <2>2, <2>3 DEF AnswerConfirmation, uiVars
<1>7. CASE RequestConfirmation \/ ResolveConfirmation
  BY <1>7 DEF RequestConfirmation, ResolveConfirmation, socketVars, uiVars
<1>8. CASE Crash \/ JoinAndroidAuto
  BY <1>8 DEF Crash, Dies, JoinAndroidAuto, uiVars
<1>9. ASSUME NEW confirmed \in BOOLEAN, TakeDecision(confirmed) PROVE AnswerInv'
  <2>1. prompt \in 1 .. MaxPrompts /\ decision' = [decision EXCEPT ![prompt] = Verdict(confirmed)]
    BY <1>9, WorkerAssumption
       DEF WorkerAssumption, TakeDecision, Verdict, TypeOK, ChildTypeOK, UiTypeOK
  <2>2. child = "alive" => decision[prompt] = -1
    BY <2>1 DEF PromptInv
  <2>3. \A i \in 1 .. Len(toChild) : toChild[i].kind = "answer" => toChild[i].id # prompt
    BY <2>2 DEF Verdict, DeadInv
  <2>4. pendingId # 0 /\ pendingResult # -1 => pendingId # prompt
    BY <2>2 DEF DeadInv
  <2> QED BY <1>9, <2>1, <2>3, <2>4 DEF TakeDecision, TypeOK, UiTypeOK, ChildTypeOK, SocketTypeOK,
                                        Commands, childVars, socketVars
<1>10. CASE SendDecision
  <2>1. CASE child = "alive"
    <3>1. /\ Len(toChild') = Len(toChild) + 1 /\ Len(toChild) \in Nat
          /\ \A j \in 1 .. Len(toChild) : toChild'[j] = toChild[j]
          /\ toChild'[Len(toChild')].id = answer.id
          /\ toChild'[Len(toChild')].confirmed = answer.confirmed
      BY <1>10, <2>1 DEF SendDecision, TypeOK, SocketTypeOK
    <3>2. decision[answer.id] = Verdict(answer.confirmed) /\ answer' = NoAnswer
      BY <1>10 DEF SendDecision
    <3> QED BY <1>10, <3>1, <3>2 DEF SendDecision, childVars
  <2>2. CASE child # "alive"
    BY <1>10, <2>2 DEF SendDecision, childVars
  <2> QED BY <2>1, <2>2
<1>11. CASE UNCHANGED <<toChild, pendingId, pendingResult, answer, decision>>
  BY <1>11
<1> HIDE DEF AnswerInv
<1> QED
  BY <1>1, <1>2, <1>3, <1>5, <1>6, <1>7, <1>8, <1>9, <1>10, <1>11
     DEF Next, RunStep, ChildCommand, Session, AndroidAuto, Management, MainThread, RunRefused,
         EndSession, PhoneReady, PhoneDisconnected, AaConfigured, AaPrepares, AaAfter, AaRetries,
         AaEnds, AaMoves, SaveConfiguration, Prepare, StartScan, PreflightBegins, PreflightAfter,
         EndScan, Shutdown, JoinPreflight, Stopped, childVars, socketVars, uiVars, vars

-----------------------------------------------------------------------------
(* In every state of the worker the invariant holds. *)
THEOREM WorkerInvariant == Spec => []WorkerInv
<1>1. Init => WorkerInv
  <2> SUFFICES ASSUME Init PROVE WorkerInv
    OBVIOUS
  <2> USE WorkerAssumption DEF WorkerAssumption, Init
  <2>1. ChildTypeOK /\ SocketTypeOK /\ RunTypeOK /\ UiTypeOK
    <3>1. 0 \in 0 .. nextId - 1 /\ -1 \in -1 .. 1 /\ 0 \in 0 .. runs /\ 1 \in 1 .. MaxPrompts + 1
      OBVIOUS
    <3>2. ChildTypeOK
      BY <3>1 DEF ChildTypeOK, ChildStates
    <3>3. SocketTypeOK
      BY DEF SocketTypeOK
    <3>4. RunTypeOK
      BY DEF RunTypeOK, Threads, Values
    <3>5. UiTypeOK
      BY <3>1 DEF UiTypeOK, Threads, NoAnswer
    <3> QED BY <3>2, <3>3, <3>4, <3>5
  <2>2. LockInv /\ DeadInv /\ PlaceInv /\ StopInv
    BY DEF LockInv, KillsOwnChild, DeadInv, PlaceInv, StopInv, Threads
  <2>3. PromptInv /\ AnswerInv
    BY DEF PromptInv, AnswerInv, PromptDuringRun, DecisionOnThisPrompt, NoAnswer
  <2> QED BY <2>1, <2>2, <2>3 DEF WorkerInv, TypeOK
<1>2. WorkerInv /\ [Next]_vars => WorkerInv'
  <2> SUFFICES ASSUME WorkerInv, [Next]_vars PROVE WorkerInv'
    OBVIOUS
  <2>1. TypeOK'
    BY ChildTypeStep, SocketTypeStep, RunTypeStep, UiTypeStep DEF TypeOK
  <2> QED BY <2>1, LockStep, DeadStep, PlaceStep, StopStep, PromptStep, AnswerStep DEF WorkerInv
<1> QED BY <1>1, <1>2, PTL DEF Spec

(* One child serves one run at a time: run never starts a session beside    *)
(* another, and never signals a process it has already reaped.              *)
THEOREM WorkerServesOne == Spec => []OneChildOneSession
<1>1. WorkerInv => OneChildOneSession
  <2> SUFFICES ASSUME WorkerInv PROVE OneSession
    BY DEF OneChildOneSession, WorkerInv, LockInv
  <2>1. sessions = {} \/ sessions = {run[owner]}
    BY DEF WorkerInv, PlaceInv
  <2>2. Cardinality({}) = 0 /\ Cardinality({run[owner]}) = 1
    BY FS_EmptySet, FS_Singleton
  <2> QED BY <2>1, <2>2 DEF OneSession
<1> QED BY <1>1, WorkerInvariant, PTL

(* A result that reaches run is that of the run in progress, and says       *)
(* "stopped" only if that run has asked for it.                             *)
THEOREM ResultBelongs == Spec => []ResultOfThisRun
<1>1. WorkerInv => ResultOfThisRun
  BY DEF WorkerInv, PlaceInv, StopInv, ResultOfThisRun
<1> QED BY <1>1, WorkerInvariant, PTL

(* The pairing agent is given the user's decision on its own prompt, and no *)
(* undecided prompt outlives its run.                                       *)
THEOREM PromptBelongs == Spec => []PromptOfThisRun
<1>1. WorkerInv => PromptOfThisRun
  BY DEF WorkerInv, PromptInv, AnswerInv, PromptOfThisRun
<1> QED BY <1>1, WorkerInvariant, PTL
=============================================================================
