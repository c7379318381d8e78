------------------------------ MODULE GuiEngine ------------------------------
(***************************************************************************)
(* The GUI's side of the engine: EngineController (engine.py), the control *)
(* channel (ipc/client.py) and what the main window asks of them.          *)
(*                                                                         *)
(* Two threads make the requests that change the state shown: the GUI      *)
(* thread, which waits for each answer, and the command thread, which      *)
(* takes stop_record and recover from a queue.  A third reads the pipe: it *)
(* hands every answer to the request with its id and lets every event set  *)
(* the state shown.  So three threads write that state.  Answers may be    *)
(* late, the engine may die, and the window may close at any time.         *)
(*                                                                         *)
(* The engine is what EngineService promises: one request at a time, the   *)
(* event of a new state before the answer.  Left out: the heartbeat, the   *)
(* previews, settings and other queries (they set no state), and a full    *)
(* command queue, which the controls' own guards never fill.               *)
(***************************************************************************)
EXTENDS Integers, Sequences, SequencesExt, FiniteSets, FiniteSetsExt

CONSTANTS
  Sidecars,        \* unfinished recordings a scan finds
  MaxCalls,        \* bound: requests
  GuiFaults,       \* bound: requests that time out and engines that die
  MaxEngines,      \* bound: engines started
  MayAbandon       \* the engine is restarted while a recovery is queued

ASSUME GuiAssumption ==
  /\ {Sidecars, MaxCalls, GuiFaults, MaxEngines} \subseteq Nat
  /\ MayAbandon \in BOOLEAN

VARIABLES
  display,   \* EngineController._state, _recovery_queue's length, outcomes on their way,
             \* and history: whether the state was written from an overtaken answer
  leaving,   \* "no", "restart" or "exit", and how far shutdown has come
  calls,     \* per thread: the request it waits for
  commands,  \* _async_queue
  connected, \* _running
  upward, downward,  \* frames in the pipe, to the engine and to the GUI
  answers,   \* _pending
  remote,    \* at, state, rec, and the id of the stop it is at
  tally      \* ids given, timeouts, deaths, engines

guiVars == <<display, leaving, calls, commands, connected, upward, downward, answers,
             remote, tally>>

Threads == {"gui", "command"}
Free    == [cmd |-> "none", id |-> 0]
Waits(t) == calls[t].cmd # "none"
Answer(id, cmd, ok, state) ==
  [kind |-> "answer", id |-> id, cmd |-> cmd, ok |-> ok, state |-> state, overtaken |-> FALSE]
StateEvent(state) ==
  [kind |-> "event", id |-> 0, cmd |-> "none", ok |-> TRUE, state |-> state, overtaken |-> FALSE]
FreshEngine == [at |-> "up", state |-> "idle", rec |-> "none", id |-> 0]

(* EngineController.start has returned. *)
GuiInit ==
  /\ display = [shown |-> "idle", recovering |-> 0, outcomes |-> 0, misled |-> FALSE]
  /\ leaving = [as |-> "no", at |-> "no"]
  /\ calls = [t \in Threads |-> Free]
  /\ commands = <<>> /\ connected = TRUE
  /\ upward = <<>> /\ downward = <<>> /\ answers = {}
  /\ remote = FreshEngine
  /\ tally = [ids |-> 0, timeouts |-> 0, deaths |-> 0, engines |-> 1]

-----------------------------------------------------------------------------
(* IpcClient.request *)

FreshId == tally.ids + 1

MayFail == tally.timeouts + tally.deaths < GuiFaults
MaySend == connected /\ tally.ids < MaxCalls

Send(t, cmd) ==
  /\ calls' = [calls EXCEPT ![t] = [cmd |-> cmd, id |-> FreshId]]
  /\ upward' = Append(upward, [cmd |-> cmd, id |-> FreshId])
  /\ tally' = [tally EXCEPT !.ids = @ + 1]

Done(t) == calls' = [calls EXCEPT ![t] = Free] /\ UNCHANGED <<upward, tally>>

ShowsAsOf(state, overtaken) == display' = [display EXCEPT !.shown = state, !.misled = overtaken]
Shows(state) == ShowsAsOf(state, FALSE)

\* recovery_finished, emitted for every outcome; the window hears of it later.
HasOutcome == display' = [display EXCEPT !.outcomes = @ + 1]
ShowsOutcome(state) ==
  display' = [display EXCEPT !.shown = state, !.misled = FALSE, !.outcomes = @ + 1]

\* What the caller makes of an answer (_command, _command_async,
\* stop_recording_and_wait, _refresh_state).
TakesAnswer(t, answer) ==
  LET cmd == calls[t].cmd IN
  /\ Done(t)
  /\ CASE cmd = "pause"     -> ShowsAsOf("paused", answer.overtaken)
       [] cmd = "resume"    -> ShowsAsOf("recording", answer.overtaken)
       [] cmd = "stop"      -> ShowsAsOf("idle", answer.overtaken)
       [] cmd = "stats"     -> ShowsAsOf(answer.state, answer.overtaken)
       [] cmd = "recover"   -> HasOutcome
       [] OTHER             -> UNCHANGED display

\* Mutant: a refusal is taken to mean that nothing is recorded.
RefusedGuesses(t) ==
  /\ IF calls[t].cmd = "recover" THEN HasOutcome ELSE Shows("idle")
  /\ Done(t)

\* The engine refused and is still there: the state is asked for, not guessed
\* (_refresh_state), unless the pipe has closed since.
Refused(t) ==
  LET recovers == calls[t].cmd = "recover" IN
  IF connected
  THEN Send(t, "stats") /\ IF recovers THEN HasOutcome ELSE UNCHANGED display
  ELSE Done(t) /\ IF recovers THEN ShowsOutcome("offline") ELSE Shows("offline")

\* The engine went away or did not answer in time.
GivesUp(t) ==
  /\ Done(t)
  /\ CASE calls[t].cmd = "shutdown" -> UNCHANGED display
       [] calls[t].cmd = "recover" -> ShowsOutcome("offline")
       [] OTHER -> Shows("offline")

Answered(t) == {a \in answers : a.id = calls[t].id /\ Waits(t)}

GetsAnswer(t) ==
  \E a \in Answered(t) :
    /\ answers' = answers \ {a}
    /\ IF a.ok \/ calls[t].cmd = "shutdown" THEN TakesAnswer(t, a) ELSE Refused(t)
    /\ UNCHANGED <<leaving, commands, connected, downward, remote>>

\* The end of an remote's pipe is seen well within a request's timeout.
TimesOut(t) ==
  /\ Waits(t) /\ Answered(t) = {} /\ connected /\ remote.at # "down"
  /\ MayFail
  /\ LET cmd == calls[t].cmd IN
       /\ calls' = [calls EXCEPT ![t] = Free]
       /\ tally' = [tally EXCEPT !.timeouts = @ + 1]
       /\ CASE cmd = "shutdown" -> UNCHANGED display
            [] cmd = "recover" -> ShowsOutcome("offline")
            [] OTHER -> Shows("offline")
  /\ UNCHANGED <<leaving, commands, connected, upward, downward, answers, remote>>

EngineGone(t) ==
  /\ Waits(t) /\ Answered(t) = {} /\ ~connected
  /\ GivesUp(t)
  /\ UNCHANGED <<leaving, commands, connected, downward, answers, remote>>

-----------------------------------------------------------------------------
(* The user, on the GUI thread.  Each control acts in its states only. *)

Ready == ~Waits("gui") /\ leaving.as = "no"

Presses(cmd, during) ==
  /\ Ready /\ display.shown = during /\ MaySend
  /\ Send("gui", cmd)
  /\ UNCHANGED <<leaving, commands, connected, downward, answers, remote>>

StartPressed  == Presses("start", "idle") /\ Shows("starting")
PausePressed  == Presses("pause", "recording") /\ UNCHANGED display
ResumePressed == Presses("resume", "paused") /\ UNCHANGED display

\* A command pressed after the reader has seen the pipe close.
PressedInVain ==
  /\ Ready /\ ~connected
  /\ display.shown \in {"idle", "recording", "paused"}
  /\ Shows("offline")
  /\ UNCHANGED <<leaving, calls, commands, connected, upward, downward, answers, remote, tally>>

StopPressed ==
  /\ Ready /\ display.shown \in {"recording", "paused"} /\ connected
  /\ Shows("stopping")
  /\ commands' = Append(commands, "stop")
  /\ UNCHANGED <<leaving, calls, connected, upward, downward, answers, remote, tally>>

RecoverPressed ==
  /\ Ready /\ display.recovering = 0 /\ Sidecars > 0 /\ connected
  /\ tally.ids < MaxCalls
  /\ display' = [display EXCEPT !.recovering = Sidecars]
  /\ commands' = Append(commands, "recover")
  /\ UNCHANGED <<leaving, calls, connected, upward, downward, answers, remote, tally>>

\* Mutant: the next one is asked for only when the last was answered.
GivesUpOnTheRest ==
  /\ display' = [display EXCEPT !.outcomes = @ - 1, !.recovering = @ - 1]
  /\ UNCHANGED commands

\* _on_recovery_finished and _recover_next: the rest is abandoned, out loud,
\* when the next one cannot be asked for.
NextRecovery ==
  LET left == display.recovering - 1 IN
  /\ display' = [display EXCEPT !.outcomes = @ - 1,
                   !.recovering = IF connected THEN left ELSE 0,
                   !.shown = IF left > 0 /\ ~connected THEN "offline" ELSE @]
  /\ commands' = IF left > 0 /\ connected THEN Append(commands, "recover") ELSE commands

RecoveryFinished ==
  /\ Ready /\ display.outcomes > 0
  /\ NextRecovery
  /\ UNCHANGED <<leaving, calls, connected, upward, downward, answers, remote, tally>>

\* _async_loop
TakesCommand ==
  /\ ~Waits("command") /\ commands # <<>>
  /\ commands' = Tail(commands)
  /\ IF connected
     THEN Send("command", Head(commands)) /\ UNCHANGED display
     ELSE /\ UNCHANGED <<calls, upward, tally>>
          /\ IF Head(commands) = "recover" THEN ShowsOutcome("offline") ELSE Shows("offline")
  /\ UNCHANGED <<leaving, connected, downward, answers, remote>>

-----------------------------------------------------------------------------
(* Leaving: closeEvent, _restart_engine and EngineController.shutdown *)

\* A window closed on a recording first waits for its stop.
Leaves ==
  /\ Ready
  /\ MayAbandon \/ \A i \in DOMAIN commands : commands[i] # "recover"
  /\ \E as \in {"restart", "exit"} :
       /\ as = "restart" => tally.engines < MaxEngines
       /\ LET stops == as = "exit" /\ display.shown \in {"recording", "paused"} /\ MaySend
          IN /\ leaving' = [as |-> as, at |-> IF stops THEN "stopping" ELSE "asks"]
             /\ IF stops THEN Send("gui", "stop") /\ Shows("stopping")
                ELSE UNCHANGED <<calls, upward, tally, display>>
  /\ UNCHANGED <<commands, connected, downward, answers, remote>>

AsksToShutDown ==
  /\ leaving.at \in {"stopping", "asks"} /\ ~Waits("gui")
  /\ leaving' = [leaving EXCEPT !.at = "closes"]
  /\ IF connected THEN Send("gui", "shutdown") ELSE UNCHANGED <<calls, upward, tally>>
  /\ UNCHANGED <<display, commands, connected, downward, answers, remote>>

\* IpcClient.close: what is queued is abandoned, unless the reader has ended
\* the connection already; then the process is waited for.
ClosesClient ==
  /\ leaving' = [leaving EXCEPT !.at = "reaps"]
  /\ UNCHANGED remote

Closes ==
  /\ leaving.at = "closes" /\ ~Waits("gui")
  /\ ClosesClient
  /\ commands' = IF connected THEN <<>> ELSE commands
  /\ connected' = FALSE /\ downward' = <<>>
  /\ UNCHANGED <<display, calls, upward, answers, tally>>

Reaps ==
  /\ leaving.at = "reaps" /\ remote.at = "down"
  /\ leaving' = [leaving EXCEPT !.at = "gone"]
  /\ Shows("offline")
  /\ UNCHANGED <<calls, commands, connected, upward, downward, answers, remote, tally>>

StartsEngine ==
  /\ leaving = [as |-> "restart", at |-> "gone"]
  /\ commands = <<>> /\ \A t \in Threads : ~Waits(t)
  /\ tally' = [tally EXCEPT !.engines = @ + 1]
  /\ leaving' = [as |-> "no", at |-> "no"]
  /\ connected' = TRUE /\ remote' = FreshEngine
  /\ upward' = <<>> /\ downward' = <<>> /\ answers' = {}
  /\ Shows("idle")
  /\ UNCHANGED <<calls, commands>>

-----------------------------------------------------------------------------
(* The reader thread *)

\* EngineController._on_event and IpcClient._dispatch.  The event overtakes the
\* answers whose threads have been told and have not run yet.
Dispatches1 ==
  LET frame == Head(downward) IN
  IF frame.kind = "event"
  THEN Shows(frame.state) /\ answers' = {[a EXCEPT !.overtaken = TRUE] : a \in answers}
  ELSE answers' = answers \union {frame} /\ UNCHANGED display

ReaderDispatches ==
  /\ connected /\ downward # <<>>
  /\ Dispatches1
  /\ downward' = Tail(downward)
  /\ UNCHANGED <<leaving, calls, commands, connected, upward, remote, tally>>

ReaderEnds ==
  /\ connected /\ downward = <<>> /\ remote.at = "down"
  /\ connected' = FALSE
  /\ UNCHANGED <<display, leaving, calls, commands, upward, downward, answers, remote, tally>>

-----------------------------------------------------------------------------
(* The engine *)

\* A host that has gone reads nothing more.
Writes(frames) == downward' = IF connected THEN downward \o frames ELSE downward
Publishing(state) == IF remote.state = state THEN <<>> ELSE <<StateEvent(state)>>

\* The state and the session after a command, and whether it was refused.
Recording1 == remote.rec = "live"
Effects(cmd) ==
  CASE cmd = "start" -> IF Recording1 THEN {[ok |-> FALSE, state |-> remote.state, rec |-> "live"]}
                        ELSE {[ok |-> TRUE, state |-> "recording", rec |-> "live"],
                              [ok |-> FALSE, state |-> "faulted", rec |-> remote.rec]}
    [] cmd = "pause" /\ Recording1  -> {[ok |-> TRUE, state |-> "paused", rec |-> "live"]}
    [] cmd = "resume" /\ Recording1 -> {[ok |-> TRUE, state |-> "recording", rec |-> "live"]}
    [] cmd = "recover" -> [ok : BOOLEAN, state : {remote.state}, rec : {remote.rec}]
    [] OTHER -> {[ok |-> cmd \in {"stats", "shutdown"}, state |-> remote.state, rec |-> remote.rec]}

EngineAnswers ==
  /\ remote.at = "up" /\ upward # <<>>
  /\ LET ask == Head(upward) IN
       /\ ~(ask.cmd = "stop" /\ Recording1)
       /\ \E e \in Effects(ask.cmd) :
            /\ remote' = [remote EXCEPT !.state = e.state, !.rec = e.rec,
                            !.at = IF ask.cmd = "shutdown" THEN "exiting" ELSE "up"]
            /\ Writes(Publishing(e.state) \o <<Answer(ask.id, ask.cmd, e.ok, e.state)>>)
  /\ upward' = Tail(upward)
  /\ UNCHANGED <<display, leaving, calls, commands, connected, answers, tally>>

EngineStops ==
  /\ remote.at = "up" /\ upward # <<>>
  /\ Head(upward).cmd = "stop" /\ Recording1
  /\ remote' = [remote EXCEPT !.at = "stopping", !.state = "stopping", !.id = Head(upward).id]
  /\ Writes(<<StateEvent("stopping")>>)
  /\ upward' = Tail(upward)
  /\ UNCHANGED <<display, leaving, calls, commands, connected, answers, tally>>

EngineStopped ==
  /\ remote.at = "stopping"
  /\ remote' = [remote EXCEPT !.at = "up", !.state = "idle", !.rec = "final", !.id = 0]
  /\ Writes(<<StateEvent("idle"), Answer(remote.id, "stop", TRUE, "idle")>>)
  /\ UNCHANGED <<display, leaving, calls, commands, connected, upward, answers, tally>>

EngineExits ==
  /\ remote.at = "exiting"
  /\ remote' = [remote EXCEPT !.at = "down", !.rec = IF @ = "live" THEN "final" ELSE @]
  /\ upward' = <<>>
  /\ UNCHANGED <<display, leaving, calls, commands, connected, downward, answers, tally>>

EngineDies ==
  /\ remote.at # "down" /\ MayFail
  /\ remote' = [remote EXCEPT !.at = "down", !.rec = IF @ = "live" THEN "lost" ELSE @]
  /\ tally' = [tally EXCEPT !.deaths = @ + 1]
  /\ upward' = <<>>
  /\ UNCHANGED <<display, leaving, calls, commands, connected, downward, answers>>

-----------------------------------------------------------------------------

GuiNext ==
  \/ StartPressed \/ PausePressed \/ ResumePressed \/ StopPressed \/ PressedInVain
  \/ RecoverPressed \/ RecoveryFinished \/ TakesCommand
  \/ \E t \in Threads : GetsAnswer(t) \/ TimesOut(t) \/ EngineGone(t)
  \/ Leaves \/ AsksToShutDown \/ Closes \/ Reaps \/ StartsEngine
  \/ ReaderDispatches \/ ReaderEnds
  \/ EngineAnswers \/ EngineStops \/ EngineStopped \/ EngineExits \/ EngineDies

GuiSpec == GuiInit /\ [][GuiNext]_guiVars

-----------------------------------------------------------------------------
(* Properties *)

GuiTypeOK ==
  /\ display.shown \in {"idle", "starting", "recording", "paused", "stopping", "faulted", "offline"}
  /\ display.recovering \in 0 .. Sidecars /\ display.outcomes \in 0 .. Sidecars
  /\ leaving.at \in {"no", "stopping", "asks", "closes", "reaps", "gone"}
  /\ commands \in Seq({"stop", "recover"})
  /\ remote.at \in {"up", "stopping", "exiting", "down"}

(* A request is never given the answer of another: an answer that comes after
   its request has timed out is not taken for the answer of a later one
   (client.py:182, "wait for the response carrying the same id"). *)
AnswersReachTheirRequest ==
  \A t \in Threads : \A a \in Answered(t) : a.cmd = calls[t].cmd

(* Once nothing is asked, queued or on its way, the window shows the state the
   engine is in, whichever of three threads wrote it last (engine.py:36,
   "Always the authority for what the UI shows").  It does not in two cases: a
   request has timed out, and it shows the engine as offline; or the last to
   write was a thread that got its answer, was overtaken by a later event, and
   then wrote what its answer says (a stop's "idle" over the "recording" of a
   start pressed between).  Nothing else misleads it, and any later write of
   the state ends it. *)
GuiQuiet ==
  /\ connected /\ remote.at = "up" /\ leaving.as = "no"
  /\ upward = <<>> /\ downward = <<>> /\ commands = <<>>
  /\ \A t \in Threads : ~Waits(t)
QuietWindowShowsTheEngine ==
  GuiQuiet => \/ display.shown = remote.state
              \/ tally.timeouts > 0 /\ display.shown = "offline"
              \/ display.misled

(* A window that closes, or an engine that is restarted, never costs the
   recording under way: the process is gone only after the file is finished,
   unless the engine died by itself (EngineController.shutdown, "in the order
   that keeps the file"; closeEvent, "Never lose a recording to a window
   close"). *)
LeavingKeepsTheRecording ==
  leaving.at = "gone" /\ tally.deaths = 0 => remote.rec \in {"none", "final"}

(* Every unfinished recording in a list that is worked through is heard about,
   whether it was answered, refused, timed out or lost with its engine: the
   list is never left standing with nobody to ask for its next entry, which
   would refuse every later recovery as one that is already running
   (engine.py:62). *)
NoRecoveryIsForgotten ==
  display.recovering > 0 =>
    \/ display.outcomes > 0
    \/ \E i \in DOMAIN commands : commands[i] = "recover"
    \/ calls["command"].cmd = "recover"
    \/ leaving.as = "exit"
=============================================================================
