--------------------------- MODULE EngineService ---------------------------
(***************************************************************************)
(* The engine as its host sees it: the control pipe and the fc-ipc thread  *)
(* that serves it, the service behind it (one recording, one preview, both *)
(* under session_mutex), the heartbeat that watches the host, and the exit *)
(* of the process, which any of four threads may ask for and the main      *)
(* thread carries out.                                                     *)
(*                                                                         *)
(* A recording is seen through RecordingSession's interface: its stop      *)
(* first lets go of the preview writer, then finalizes the file.  Frames   *)
(* towards the host fill the pipe; a write to a full pipe waits.           *)
(***************************************************************************)
EXTENDS Integers, FiniteSets

CONSTANTS
    Commands,        \* what the host may ask for
    PipeRoom,        \* frames the pipe holds towards the host
    Timeout,         \* kHeartbeatTimeout, in ticks
    Hosted,          \* JobMembership::hosted
    MaxRecordings,   \* bound: sessions that record
    MaxRequests,     \* bound: requests the host sends
    MaxConnections   \* bound: times the host connects

ASSUME ServiceAssumption ==
    /\ Commands \subseteq {"query", "startRecord", "stopRecord", "startPreview", "stopPreview",
                           "pauseRecord", "resumeRecord", "shutdown", "garbage"}
    /\ PipeRoom \in Nat \ {0} /\ Timeout \in Nat \ {0}
    /\ Hosted \in BOOLEAN
    /\ MaxRecordings \in Nat /\ MaxRequests \in Nat /\ MaxConnections \in Nat

Recordings == 1 .. MaxRecordings
None == 0
Preview == -1            \* the preview-only session, as the owner of a writer

VARIABLES
    host,            \* "away", "here" or "gone"
    request,         \* sent and not yet read, or "none"
    unread,          \* frames in the pipe that the host has not read
    running,         \* of the pipe server
    ipc,             \* [at, command, holds]: the fc-ipc thread
    locked,          \* fc-ipc holds session_mutex across a write
    suspensions, silence,     \* of the watchdog; silence is -1 before the first message
    heart,           \* place of the fc-heartbeat thread
    session, recording,       \* the session, if any; state of each recording
    previewSession, armed, wanted, ring, writers,
    state,           \* as published
    exitRequested,
    main,            \* [at, round, holds]
    stats,           \* place of the fc-stats thread
    heard,           \* history: ticks since the host was heard or a command was in service
    requests, connections

pipeVars == <<host, request, unread, running>>
heartVars == <<suspensions, silence, heart, heard>>
previewVars == <<previewSession, armed, wanted, ring, writers>>
sessionVars == <<session, recording, previewVars>>
exitVars == <<exitRequested, main, stats>>
bounds == <<requests, connections>>
vars == <<pipeVars, ipc, locked, heartVars, sessionVars, state, exitVars, bounds>>

(* EngineService::start has returned; or, further on, the host has         *)
(* connected and its start_preview has been answered.                      *)
Init == \E previewing \in BOOLEAN :
    /\ host = IF previewing THEN "here" ELSE "away"
    /\ request = "none" /\ unread = 0 /\ running = TRUE
    /\ ipc = [at |-> IF previewing THEN "read" ELSE "await", command |-> "none", holds |-> None]
    /\ locked = FALSE
    /\ suspensions = 0 /\ silence = (IF previewing THEN 0 ELSE -1) /\ heart = "wait" /\ heard = 0
    /\ session = None /\ recording = [r \in Recordings |-> "none"]
    /\ previewSession = previewing /\ armed = previewing /\ ring = previewing
    /\ wanted = FALSE /\ writers = (IF previewing THEN {Preview} ELSE {})
    /\ state = "idle"
    /\ exitRequested = FALSE
    /\ main = [at |-> "waiting", round |-> 1, holds |-> None]
    /\ stats = "sleep"
    /\ requests = 0 /\ connections = (IF previewing THEN 1 ELSE 0)

Alive == main.at \notin {"exited", "killed"}
Connected == host = "here" /\ ipc.at \notin {"await", "drop"}

(* write_frame returns: the frame is in the pipe, or there is nobody to    *)
(* write to.  Not enabled while the pipe is full.                          *)
Writes == 
    /\ Connected => unread < PipeRoom
    /\ unread' = IF Connected THEN unread + 1 ELSE unread

RequestShutdown == exitRequested' = TRUE

-----------------------------------------------------------------------------
(* The host                                                                *)

HostSends(command) ==
    /\ Alive /\ Connected
    /\ request = "none" /\ requests < MaxRequests
    /\ request' = command
    /\ requests' = requests + 1
    /\ UNCHANGED <<host, unread, running, ipc, locked, heartVars, sessionVars, state, exitVars,
                   connections>>

HostReads ==
    /\ host = "here" /\ unread > 0
    /\ unread' = unread - 1
    /\ UNCHANGED <<host, request, running, ipc, locked, heartVars, sessionVars, state, exitVars,
                   bounds>>

HostLeaves ==
    /\ Alive /\ Connected
    /\ host' = "away" /\ unread' = 0
    /\ UNCHANGED <<request, running, ipc, locked, heartVars, sessionVars, state, exitVars, bounds>>

(* The host's handle to the job closes with it: an engine that could not   *)
(* open a handle of its own is killed by KILL_ON_JOB_CLOSE.                *)
HostDies ==
    /\ Alive /\ host # "gone"
    /\ host' = "gone" /\ unread' = 0
    /\ main' = IF Hosted THEN main ELSE [main EXCEPT !.at = "killed"]
    /\ UNCHANGED <<request, running, ipc, locked, heartVars, sessionVars, state, exitRequested,
                   stats, bounds>>

-----------------------------------------------------------------------------
(* fc-ipc: serve_loop and pump_client                                      *)

(* Mutant: the stop event is not among what the thread waits for.          *)
StopUnseen == FALSE
StopSeen == ~running

ClientConnects ==
    /\ Alive
    /\ ipc.at = "await" /\ ~StopSeen
    /\ host = "away" /\ connections < MaxConnections
    /\ host' = "here" /\ unread' = 0
    /\ connections' = connections + 1
    /\ ipc' = [ipc EXCEPT !.at = "read"]
    /\ UNCHANGED <<request, running, locked, heartVars, sessionVars, state, exitVars, requests>>

AwaitEnds ==
    /\ Alive
    /\ ipc.at = "await" /\ StopSeen
    /\ ipc' = [ipc EXCEPT !.at = "ended"]
    /\ UNCHANGED <<pipeVars, locked, heartVars, sessionVars, state, exitVars, bounds>>

(* ConnectNamedPipe or the wait for it fails: the thread serves nobody any *)
(* more, and nobody is told.                                               *)
AwaitFails ==
    /\ Alive
    /\ ipc.at = "await" /\ ~StopSeen
    /\ ipc' = [ipc EXCEPT !.at = "ended"]
    /\ UNCHANGED <<pipeVars, locked, heartVars, sessionVars, state, exitVars, bounds>>

(* A message that parses reaches the handler, whose first act is to record *)
(* it as the host's heartbeat; a malformed one is answered by the pump; a  *)
(* frame that cannot be decoded ends the connection.                       *)
PumpReads ==
    /\ Alive
    /\ ipc.at = "read" /\ request # "none" /\ ~StopSeen
    /\ request' = "none"
    /\ IF request = "garbage"
       THEN /\ \E place \in {"drop", "reply"} : ipc' = [ipc EXCEPT !.at = place]
            /\ UNCHANGED <<silence, heard>>
       ELSE /\ ipc' = [ipc EXCEPT !.at = "heard", !.command = request]
            /\ silence' = 0 /\ heard' = 0
    /\ UNCHANGED <<host, unread, running, locked, suspensions, heart, sessionVars, state, exitVars,
                   bounds>>

PumpEnds ==
    /\ Alive
    /\ ipc.at = "read"
    /\ StopSeen \/ (request = "none" /\ host # "here")
    /\ ipc' = [ipc EXCEPT !.at = "drop"]
    /\ UNCHANGED <<pipeVars, locked, heartVars, sessionVars, state, exitVars, bounds>>

PumpReplies ==
    /\ Alive
    /\ ipc.at = "reply"
    /\ Writes
    /\ ipc' = [ipc EXCEPT !.at = IF Connected THEN "read" ELSE "drop"]
    /\ UNCHANGED <<host, request, running, locked, heartVars, sessionVars, state, exitVars, bounds>>

(* FlushFileBuffers returns when the host has read everything or is gone.  *)
Disconnects ==
    /\ Alive
    /\ ipc.at = "drop"
    /\ unread = 0
    /\ host' = IF host = "here" THEN "away" ELSE host
    /\ request' = "none"
    /\ ipc' = [ipc EXCEPT !.at = "await"]
    /\ UNCHANGED <<unread, running, locked, heartVars, sessionVars, state, exitVars, bounds>>

-----------------------------------------------------------------------------
(* fc-ipc: handle                                                          *)

Suspends ==
    /\ Alive
    /\ ipc.at = "heard"
    /\ suspensions' = suspensions + 1
    /\ ipc' = [ipc EXCEPT !.at = "dispatch"]
    /\ UNCHANGED <<pipeVars, locked, silence, heart, heard, sessionVars, state, exitVars, bounds>>

(* The Suspension ends: the timeout starts afresh before the heartbeat     *)
(* thread may look again.                                                  *)
(* Mutant: the time of the last message is left as it was.                 *)
LeaveSilence == UNCHANGED silence
Rearm == silence' = 0

CommandDone ==
    /\ Alive
    /\ ipc.at = "done"
    /\ Rearm
    /\ heard' = 0
    /\ ipc' = [ipc EXCEPT !.at = "rearmed", !.command = "none"]
    /\ UNCHANGED <<pipeVars, locked, suspensions, heart, sessionVars, state, exitVars, bounds>>

Resumes ==
    /\ Alive
    /\ ipc.at = "rearmed"
    /\ suspensions' = suspensions - 1
    /\ ipc' = [ipc EXCEPT !.at = "reply"]
    /\ UNCHANGED <<pipeVars, locked, silence, heart, heard, sessionVars, state, exitVars, bounds>>

Dispatches(command) == Alive /\ ipc.at = "dispatch" /\ ipc.command = command

(* publish_state: the event is written with the lock still held, unless    *)
(* the state is what it was.                                               *)
Publish(next) ==
    /\ state' = next
    /\ IF state = next
       THEN ipc' = [ipc EXCEPT !.at = "done"] /\ UNCHANGED locked
       ELSE ipc' = [ipc EXCEPT !.at = "publish"] /\ locked' = TRUE

AfterPublish == [publish |-> "done", publishStop |-> "stopping", publishIdle |-> "restore"]

Publishes ==
    /\ Alive
    /\ ipc.at \in DOMAIN AfterPublish
    /\ Writes
    /\ locked' = (ipc.at = "publishIdle")
    /\ ipc' = [ipc EXCEPT !.at = AfterPublish[ipc.at]]
    /\ UNCHANGED <<host, request, running, heartVars, sessionVars, state, exitVars, bounds>>

(* Hello, the enumerations, get_stats, get_health, set_log_level, recover, *)
(* and every command that is refused or finds nothing to do: answered, no  *)
(* more.                                                                   *)
Answers == ipc' = [ipc EXCEPT !.at = "done"] /\ UNCHANGED <<pipeVars, locked, heartVars, sessionVars, state, exitVars, bounds>>
NothingToDo ==
    /\ \/ \E command \in {"query", "startRecord", "pauseRecord", "resumeRecord"} : Dispatches(command)
       \/ Dispatches("stopRecord") /\ session = None
    /\ Answers

(* start_preview_session_locked and stop_preview_session_locked            *)
StartPreviewSession ==
    \/ /\ previewSession' = TRUE /\ writers' = writers \cup {Preview}
    \/ /\ previewSession' = FALSE /\ UNCHANGED writers        \* it could not start
StopPreviewSession == previewSession' = FALSE /\ writers' = writers \ {Preview}

StartPreview ==
    /\ Dispatches("startPreview")
    /\ \/ /\ ~ring                                            \* the section cannot be created
          /\ UNCHANGED <<previewVars>>
       \/ /\ ring' = TRUE /\ armed' = TRUE
          /\ IF session # None
             THEN wanted' = TRUE /\ UNCHANGED <<previewSession, writers>>
             ELSE /\ UNCHANGED wanted
                  /\ IF previewSession THEN UNCHANGED <<previewSession, writers>> ELSE StartPreviewSession
    /\ ipc' = [ipc EXCEPT !.at = "done"]
    /\ UNCHANGED <<pipeVars, locked, heartVars, session, recording, state, exitVars, bounds>>

(* Mutant: the section is closed whatever runs.                            *)
CloseAnyway == ring' = FALSE /\ UNCHANGED wanted
CloseUnlessRecording ==
    IF session # None THEN wanted' = FALSE /\ UNCHANGED ring ELSE ring' = FALSE /\ UNCHANGED wanted

StopPreview ==
    /\ Dispatches("stopPreview")
    /\ armed' = FALSE
    /\ StopPreviewSession
    /\ CloseUnlessRecording
    /\ ipc' = [ipc EXCEPT !.at = "done"]
    /\ UNCHANGED <<pipeVars, locked, heartVars, session, recording, state, exitVars, bounds>>

(* The capture thread opens and closes its writer as it is told.           *)
CaptureFollows ==
    /\ Alive
    /\ session # None
    /\ wanted # (session \in writers)
    /\ writers' = IF wanted /\ ring THEN writers \cup {session} ELSE writers \ {session}
    /\ writers' # writers
    /\ UNCHANGED <<pipeVars, ipc, locked, heartVars, session, recording, previewSession, armed,
                   wanted, ring, state, exitVars, bounds>>

StartRecord(r) ==
    /\ Dispatches("startRecord")
    /\ session = None
    /\ recording[r] = "none" /\ \A earlier \in 1 .. r - 1 : recording[earlier] # "none"
    /\ session' = r
    /\ recording' = [recording EXCEPT ![r] = "live"]
    /\ previewSession' = FALSE
    /\ wanted' = (armed /\ ring)
    /\ writers' = (writers \ {Preview}) \cup (IF armed /\ ring THEN {r} ELSE {})
    /\ UNCHANGED <<armed, ring>>
    /\ Publish("recording")
    /\ UNCHANGED <<pipeVars, heartVars, exitVars, bounds>>

(* The session does not start; a preview that ran is started again.        *)
StartRecordFails ==
    /\ Dispatches("startRecord")
    /\ session = None
    /\ UNCHANGED <<session, recording, armed, wanted, ring>>
    /\ \/ StopPreviewSession
       \/ armed /\ ring /\ previewSession' = TRUE /\ writers' = writers \cup {Preview}
    /\ Publish("faulted")
    /\ UNCHANGED <<pipeVars, heartVars, exitVars, bounds>>

PauseRecord ==
    /\ Dispatches("pauseRecord") /\ session # None
    /\ Publish("paused")
    /\ UNCHANGED <<pipeVars, heartVars, sessionVars, exitVars, bounds>>

ResumeRecord ==
    /\ Dispatches("resumeRecord") /\ session # None
    /\ Publish("recording")
    /\ UNCHANGED <<pipeVars, heartVars, sessionVars, exitVars, bounds>>

(* handle_stop_record: the session is taken out under the lock, stopped    *)
(* without it (SessionStops below), and the state published under it again.*)
StopRecordTakes ==
    /\ Dispatches("stopRecord")
    /\ session # None
    /\ session' = None
    /\ recording' = [recording EXCEPT ![session] = "stopping"]
    /\ state' = "stopping"
    /\ locked' = TRUE
    /\ ipc' = [ipc EXCEPT !.at = "publishStop", !.holds = session]
    /\ UNCHANGED <<pipeVars, heartVars, previewVars, exitVars, bounds>>

StopRecordEnds ==
    /\ Alive
    /\ ipc.at = "stopping" /\ recording[ipc.holds] = "final"
    /\ state' = "idle"
    /\ locked' = TRUE
    /\ ipc' = [ipc EXCEPT !.at = "publishIdle", !.holds = None]
    /\ UNCHANGED <<pipeVars, heartVars, sessionVars, exitVars, bounds>>

(* Idle is told; the preview, or the closing of its section, comes after,  *)
(* under the same lock.                                                    *)
PreviewRestored ==
    /\ Alive
    /\ ipc.at = "restore"
    /\ IF armed
       THEN /\ IF previewSession \/ session # None THEN UNCHANGED <<previewSession, writers>>
               ELSE StartPreviewSession
            /\ UNCHANGED ring
       ELSE /\ ring' = FALSE
            /\ UNCHANGED <<previewSession, writers>>
    /\ locked' = FALSE
    /\ ipc' = [ipc EXCEPT !.at = "announce"]
    /\ UNCHANGED <<pipeVars, heartVars, session, recording, armed, wanted, state, exitVars, bounds>>

(* A file that passed the gate has its last phase told, and any file that  *)
(* has a report its end; a stop that failed is only answered.              *)
Announces ==
    /\ Alive
    /\ ipc.at \in {"announce", "announceEnd"}
    /\ \/ /\ ipc.at = "announce"
          /\ ipc' = [ipc EXCEPT !.at = "done"]
          /\ UNCHANGED unread
       \/ /\ Writes
          /\ \E place \in {"announceEnd", "done"} \ {ipc.at} : ipc' = [ipc EXCEPT !.at = place]
    /\ UNCHANGED <<host, request, running, locked, heartVars, sessionVars, state, exitVars, bounds>>

Shutdown ==
    /\ Dispatches("shutdown")
    /\ RequestShutdown
    /\ ipc' = [ipc EXCEPT !.at = "done"]
    /\ UNCHANGED <<pipeVars, locked, heartVars, sessionVars, state, main, stats, bounds>>

-----------------------------------------------------------------------------
(* RecordingSession::stop, on whichever thread called it                   *)

Stopping(r) == \/ ipc.at = "stopping" /\ ipc.holds = r
               \/ main.at = "stopping" /\ main.holds = r

WriterEnds(r) ==
    /\ Alive
    /\ recording[r] = "stopping" /\ Stopping(r)
    /\ recording' = [recording EXCEPT ![r] = "finalizing"]
    /\ writers' = writers \ {r}
    /\ UNCHANGED <<pipeVars, ipc, locked, heartVars, session, previewSession, armed, wanted, ring,
                   state, exitVars, bounds>>

(* The file is finalized and its progress told.                            *)
FileFinalized(r) ==
    /\ Alive
    /\ recording[r] = "finalizing" /\ Stopping(r)
    /\ Writes
    /\ recording' = [recording EXCEPT ![r] = "final"]
    /\ UNCHANGED <<host, request, running, ipc, locked, heartVars, session, previewVars, state,
                   exitVars, bounds>>

-----------------------------------------------------------------------------
(* fc-heartbeat: watch_loop                                                *)

HeartWakes ==
    /\ Alive
    /\ heart = "wait" /\ main.at # "joinHeart"
    /\ suspensions = 0
    /\ heart' = "look"
    /\ UNCHANGED <<pipeVars, ipc, locked, suspensions, silence, heard, sessionVars, state, exitVars,
                   bounds>>

HeartLooks ==
    /\ Alive
    /\ heart = "look"
    /\ heart' = IF silence >= Timeout THEN "lost" ELSE "wait"
    /\ UNCHANGED <<pipeVars, ipc, locked, suspensions, silence, heard, sessionVars, state, exitVars,
                   bounds>>

HostIsLost ==
    /\ Alive
    /\ heart = "lost"
    /\ RequestShutdown
    /\ heart' = "ended"
    /\ UNCHANGED <<pipeVars, ipc, locked, suspensions, silence, heard, sessionVars, state, main, stats,
                   bounds>>

HeartStops ==
    /\ Alive
    /\ heart = "wait" /\ main.at = "joinHeart"
    /\ heart' = "ended"
    /\ UNCHANGED <<pipeVars, ipc, locked, suspensions, silence, heard, sessionVars, state, exitVars,
                   bounds>>

Serving == suspensions > 0 /\ ipc.at # "rearmed"

(* No tick falls between the heartbeat thread's two loads.                 *)
Tick ==
    /\ Alive /\ heart # "look"
    /\ silence' = IF silence \in 0 .. Timeout - 1 THEN silence + 1 ELSE silence
    /\ heard' = IF Serving \/ heard = Timeout THEN heard ELSE heard + 1
    /\ <<silence, heard>>' # <<silence, heard>>
    /\ UNCHANGED <<pipeVars, ipc, locked, suspensions, heart, sessionVars, state, exitVars, bounds>>

-----------------------------------------------------------------------------
(* fc-stats: stats_loop                                                    *)

StatsBuilds ==
    /\ Alive
    /\ stats = "sleep" /\ main.at # "joinStats" /\ Connected
    /\ ~locked
    /\ stats' = "send"
    /\ UNCHANGED <<pipeVars, ipc, locked, heartVars, sessionVars, state, exitRequested, main, bounds>>

StatsSends ==
    /\ Alive
    /\ stats = "send"
    /\ Writes
    /\ stats' = "sleep"
    /\ UNCHANGED <<host, request, running, ipc, locked, heartVars, sessionVars, state, exitRequested,
                   main, bounds>>

StatsEnds ==
    /\ Alive
    /\ stats = "sleep" /\ main.at = "joinStats"
    /\ stats' = "ended"
    /\ UNCHANGED <<pipeVars, ipc, locked, heartVars, sessionVars, state, exitRequested, main, bounds>>

-----------------------------------------------------------------------------
(* The main thread: run and stop.  finalize_for_exit runs in both.         *)

OsShutdown ==
    /\ Alive
    /\ main.at \notin {"joinPipe", "release"} /\ main.round = 1
    /\ ~exitRequested
    /\ RequestShutdown
    /\ UNCHANGED <<pipeVars, ipc, locked, heartVars, sessionVars, state, main, stats, bounds>>

MainWakes ==
    /\ Alive
    /\ main.at = "waiting" /\ exitRequested
    /\ main' = [main EXCEPT !.at = "take"]
    /\ UNCHANGED <<pipeVars, ipc, locked, heartVars, sessionVars, state, exitRequested, stats, bounds>>

AfterFinalize == IF main.round = 1 THEN "joinStats" ELSE "release"

FinalizeTakes ==
    /\ Alive
    /\ main.at = "take"
    /\ ~locked
    /\ armed' = FALSE
    /\ StopPreviewSession
    /\ IF session = None
       THEN /\ ring' = FALSE
            /\ main' = [main EXCEPT !.at = AfterFinalize]
            /\ UNCHANGED <<session, recording>>
       ELSE /\ session' = None
            /\ recording' = [recording EXCEPT ![session] = "stopping"]
            /\ main' = [main EXCEPT !.at = "stopping", !.holds = session]
            /\ UNCHANGED ring
    /\ UNCHANGED <<pipeVars, ipc, locked, heartVars, wanted, state, exitRequested, stats, bounds>>

FinalizeEnds ==
    /\ Alive
    /\ main.at = "stopping" /\ recording[main.holds] = "final"
    /\ ~locked
    /\ ring' = FALSE
    /\ main' = [main EXCEPT !.at = AfterFinalize, !.holds = None]
    /\ UNCHANGED <<pipeVars, ipc, locked, heartVars, session, recording, previewSession, armed,
                   wanted, writers, state, exitRequested, stats, bounds>>

StatsJoined ==
    /\ Alive
    /\ main.at = "joinStats" /\ stats = "ended"
    /\ main' = [main EXCEPT !.at = "joinHeart"]
    /\ UNCHANGED <<pipeVars, ipc, locked, heartVars, sessionVars, state, exitRequested, stats, bounds>>

(* watchdog.stop and signals.uninstall return; pipe.stop begins.           *)
PipeStops ==
    /\ Alive
    /\ main.at = "joinHeart" /\ heart = "ended"
    /\ running' = FALSE
    /\ main' = [main EXCEPT !.at = "joinPipe"]
    /\ UNCHANGED <<host, request, unread, ipc, locked, heartVars, sessionVars, state, exitRequested,
                   stats, bounds>>

(* Mutant: what the last commands started is not looked for.               *)
GoOnToRelease == [main EXCEPT !.at = "release", !.round = 2]
FinalizeAgain == [main EXCEPT !.at = "take", !.round = 2]

PipeJoined ==
    /\ Alive
    /\ main.at = "joinPipe" /\ ipc.at = "ended"
    /\ main' = FinalizeAgain
    /\ UNCHANGED <<pipeVars, ipc, locked, heartVars, sessionVars, state, exitRequested, stats, bounds>>

(* job.release: the process ends, and a job without a host may take it.    *)
ReleasesJob ==
    /\ Alive
    /\ main.at = "release"
    /\ main' = [main EXCEPT !.at = "exited"]
    /\ UNCHANGED <<pipeVars, ipc, locked, heartVars, sessionVars, state, exitRequested, stats, bounds>>

-----------------------------------------------------------------------------
Host == HostReads \/ HostLeaves \/ HostDies \/ \E command \in Commands : HostSends(command)
Handler ==
    \/ Suspends \/ CommandDone \/ Resumes \/ Publishes \/ NothingToDo
    \/ StartPreview \/ StopPreview
    \/ StartRecordFails \/ \E r \in Recordings : StartRecord(r)
    \/ PauseRecord \/ ResumeRecord
    \/ StopRecordTakes \/ StopRecordEnds \/ PreviewRestored \/ Announces \/ Shutdown
Ipc == ClientConnects \/ AwaitEnds \/ PumpReads \/ PumpEnds \/ PumpReplies \/ Disconnects \/ Handler
SessionStops == \E r \in Recordings : WriterEnds(r) \/ FileFinalized(r)
Heart == HeartWakes \/ HeartLooks \/ HostIsLost \/ HeartStops
Stats == StatsBuilds \/ StatsSends \/ StatsEnds
Main ==
    \/ MainWakes \/ FinalizeTakes \/ FinalizeEnds \/ StatsJoined \/ PipeStops \/ PipeJoined
    \/ ReleasesJob

Next == Host \/ Ipc \/ AwaitFails \/ SessionStops \/ CaptureFollows \/ Heart \/ Tick \/ Stats \/ OsShutdown \/ Main

(* The threads run, time passes, and a host that is there reads.  A thread *)
(* that waits for room in the pipe gets it although fc-stats, which sleeps *)
(* half a second between its frames, writes too.                           *)
Fairness ==
    /\ WF_vars(Ipc) /\ WF_vars(SessionStops) /\ WF_vars(Heart) /\ SF_vars(Tick)
    /\ WF_vars(Stats) /\ WF_vars(Main) /\ WF_vars(HostReads)
    /\ SF_vars(PumpReplies \/ Publishes \/ Announces \/ SessionStops)

Spec == Init /\ [][Next]_vars /\ Fairness

-----------------------------------------------------------------------------
TypeOK ==
    /\ session \in Recordings \cup {None}
    /\ recording \in [Recordings -> {"none", "live", "stopping", "finalizing", "final"}]
    /\ writers \subseteq Recordings \cup {Preview}
    /\ unread \in 0 .. PipeRoom /\ suspensions \in 0 .. 1
    /\ silence \in -1 .. Timeout /\ heard \in 0 .. Timeout
    /\ state \in {"idle", "recording", "paused", "stopping", "faulted"}

(* When the engine lets go of the job nothing is being recorded and every  *)
(* recording that was begun is finalized, whichever of stop_record, the    *)
(* exit and the requests still being served while it runs got there first. *)
EveryRecordingIsFinalized ==
    main.at \in {"release", "exited"} /\ main.round = 2 =>
        /\ session = None /\ ~previewSession
        /\ \A r \in Recordings : recording[r] \in {"none", "final"}

(* The heartbeat gives up on the host only after a whole timeout in which  *)
(* no message came and no command was being served.                        *)
ABusyEngineIsNotALostHost ==
    [][heart # "lost" /\ heart' = "lost" => heard >= Timeout]_vars

(* Nothing unmaps the preview's pages under a writer, until the exit begins.*)
NoWriterOnAClosedRing == main.at = "waiting" => (writers # {} => ring)

(* An engine asked to exit does, and so does one whose host died after it  *)
(* was once heard, whatever is being served at the time.                   *)
EngineExits ==
    (exitRequested \/ (host = "gone" /\ silence >= 0)) ~> ~Alive
=============================================================================
