-------------------------- MODULE RecordingSession --------------------------
(***************************************************************************)
(* pipeline/recording_session.cpp: three threads around one recording.     *)
(* The capture thread owns the capture backend, the device and the         *)
(* pipeline, and rebuilds them; the watch thread decides when; the command *)
(* thread pauses, resumes and stops.  A rebuild either keeps the file or,  *)
(* when the encoder cannot continue it, closes it and opens the next.      *)
(* The pipeline is seen through start, rebuild_device, pause, resume,      *)
(* submit, health and stop.  The preview is left out.                      *)
(***************************************************************************)
EXTENDS DeviceWatcher, Sequences, FiniteSets

CONSTANTS
    Excluded,   \* races assumed not to happen, of RaceNames
    MaxFaults,  \* bound: device losses, dead backends, adapter changes, ladder requests
    MaxPauses   \* bound: pauses

(* The poll between the request's exchange and the store that follows it;  *)
(* an adapter change between a rebuild's discovery and its acknowledgement.*)
RaceNames == {"pollInTheWindow", "changeDuringRebuild"}

ASSUME SessionAssumption ==
    Excluded \subseteq RaceNames /\ MaxFaults \in Nat /\ MaxPauses \in Nat

VARIABLES
    capture,        \* where the capture thread is
    stack,          \* number of the device stack in place
    backend,        \* the capture backend: "none", "up" or "dead"
    observed, alive,\* capture_observed, capture_alive
    watch,          \* [at, report]: where the watch thread is, and its poll's answer
    pending, rebuilding, handled, \* handled: handled_migration_request
    command,        \* where the command thread is
    running, stopRequested, paused,
    pipeline,       \* [file, running, paused, epoch, wants] or NoPipeline
    files,          \* the state of each file opened so far
    currentOutput,  \* current_output, as a file number
    lastReport,     \* last_report, as a file number; 0 when there is none
    answer,         \* the file stop's report is about; 0 for an error
    abandoned,      \* the capture thread's join expired
    lost,           \* the device in place has failed
    late,           \* stacks some thread has yet to report as failed
    selectedFrom,   \* the adapters the encode adapter was chosen from
    evidence,       \* the stack the pending rebuild's cause is about
    faults, pauses

captureVars == <<stack, backend, observed, alive, selectedFrom>>
requestVars == <<pending, rebuilding, handled, evidence>>
commandVars == <<running, paused, answer, abandoned, pauses>>
fileVars == <<pipeline, files, currentOutput, lastReport>>
faultVars == <<lost, late, faults>>
sessionVars == <<capture, captureVars, watch, requestVars, command, commandVars, stopRequested,
                 fileVars, faultVars>>
vars == <<sessionVars, watcherVars>>

NoPipeline == [file |-> 0, running |-> FALSE, paused |-> FALSE, epoch |-> FALSE, wants |-> "nothing"]
Started(k) == [file |-> k, running |-> TRUE, paused |-> FALSE, epoch |-> FALSE, wants |-> "nothing"]

Init ==
    /\ WatcherStarts
    /\ capture = "top" /\ stack = 1 /\ backend = "up"
    /\ observed = FALSE /\ alive = FALSE
    /\ watch = [at |-> "waiting", report |-> NoReport]
    /\ pending = FALSE /\ rebuilding = FALSE /\ handled = FALSE
    /\ command = "idle" /\ running = TRUE /\ stopRequested = FALSE /\ paused = FALSE
    /\ pipeline = Started(1) /\ files = <<"open">> /\ currentOutput = 1 /\ lastReport = 0
    /\ answer = 0 /\ abandoned = FALSE
    /\ lost = FALSE /\ late = {} /\ faults = 0
    /\ selectedFrom = 1 /\ evidence = 0 /\ pauses = 0

-----------------------------------------------------------------------------
(* The capture thread.  One that stop has given up on is taken to be stuck *)
(* for good where it was: inside the finalization of a file.               *)
CaptureAt(from, to) == ~abandoned /\ capture = from /\ capture' = to
CaptureOnly == UNCHANGED <<watch, command, commandVars, faultVars>>

Top ==
    /\ CaptureAt("top", IF stopRequested THEN "ended" ELSE IF pending THEN "taken" ELSE "publish")
    /\ pending' = IF stopRequested THEN pending ELSE FALSE
    /\ CaptureOnly
    /\ UNCHANGED <<captureVars, rebuilding, handled, evidence, stopRequested, fileVars, watcherVars>>

(* capture_alive first: capture_observed makes the watch thread believe it.*)
(* Mutant: only a backend that delivers is asked.                          *)
PublishDelivering == alive' = (alive \/ backend = "up")
PublishRunning == alive' = (backend = "up")

PublishAlive ==
    /\ CaptureAt("publish", "observe")
    /\ PublishRunning
    /\ CaptureOnly
    /\ UNCHANGED <<stack, backend, observed, selectedFrom, requestVars, stopRequested, fileVars, watcherVars>>

PublishObserved ==
    /\ CaptureAt("observe", "acquire")
    /\ observed' = TRUE
    /\ CaptureOnly
    /\ UNCHANGED <<stack, backend, alive, selectedFrom, requestVars, stopRequested, fileVars, watcherVars>>

(* Mutant: paused frames are left to the clock to refuse.                  *)
SubmitAlways == pipeline # NoPipeline
MaySubmit == pipeline # NoPipeline /\ ~paused

AcquireFrame ==
    /\ CaptureAt("acquire", "top")
    /\ \/ UNCHANGED pipeline
       \/ /\ backend = "up" /\ MaySubmit /\ pipeline.running
          /\ pipeline' = [pipeline EXCEPT !.epoch = TRUE]
    /\ CaptureOnly
    /\ UNCHANGED <<captureVars, requestVars, stopRequested, files, currentOutput, lastReport, watcherVars>>

Capturing == Top \/ PublishAlive \/ PublishObserved \/ AcquireFrame

-----------------------------------------------------------------------------
(* rebuild, on the capture thread                                          *)

RebuildFails ==
    /\ CaptureAt(capture, "clear")
    /\ capture \in {"discover", "device", "open", "restart"}
    /\ stopRequested' = TRUE
    /\ CaptureOnly /\ UNCHANGED <<captureVars, requestVars, fileVars, watcherVars>>

RebuildBegins ==
    /\ CaptureAt("taken", "teardown")
    /\ rebuilding' = TRUE
    /\ CaptureOnly
    /\ UNCHANGED <<captureVars, pending, handled, evidence, stopRequested, fileVars, watcherVars>>

Teardown ==
    /\ CaptureAt("teardown", "discover")
    /\ observed' = FALSE /\ alive' = FALSE
    /\ backend' = "none"
    /\ CaptureOnly
    /\ UNCHANGED <<stack, selectedFrom, requestVars, stopRequested, fileVars, watcherVars>>

RefreshAndChoose == selectedFrom' = adapters

Discover ==
    /\ CaptureAt("discover", "device")
    /\ RefreshAndChoose
    /\ CaptureOnly
    /\ UNCHANGED <<stack, backend, observed, alive, requestVars, stopRequested, fileVars, watcherVars>>

CreateDevice ==
    /\ CaptureAt("device", "pipeline")
    /\ stack' = stack + 1
    /\ lost' = FALSE
    /\ DxgiIsUsed
    /\ UNCHANGED <<backend, observed, alive, selectedFrom, watch, command, commandVars, requestVars,
                   stopRequested, fileVars, late, faults>>

RebuildPipeline ==
    /\ \/ CaptureAt("pipeline", "restart") /\ UNCHANGED pipeline
       \/ /\ CaptureAt("pipeline", "rollover")
          /\ pipeline' = [pipeline EXCEPT !.running = FALSE]
    /\ CaptureOnly
    /\ UNCHANGED <<captureVars, requestVars, stopRequested, files, currentOutput, lastReport, watcherVars>>

(* pipeline->stop() answers; the file is final, or left as it is.          *)
(* Mutant: the pipeline is let go without being stopped.                   *)
LetFileGo == UNCHANGED <<files, lastReport>>
FinalizeFile ==
    \/ /\ files' = [files EXCEPT ![pipeline.file] = "final"]
       /\ lastReport' = pipeline.file
    \/ /\ files' = [files EXCEPT ![pipeline.file] = "broken"]
       /\ UNCHANGED lastReport

CloseFile ==
    /\ CaptureAt("rollover", "open")
    /\ command \notin {"pausing", "resuming"}
    /\ FinalizeFile
    /\ pipeline' = NoPipeline
    /\ CaptureOnly
    /\ UNCHANGED <<captureVars, requestVars, stopRequested, currentOutput, watcherVars>>

OpenFile ==
    /\ CaptureAt("open", "restart")
    /\ files' = Append(files, "open")
    /\ pipeline' = Started(Len(files) + 1)
    /\ currentOutput' = Len(files) + 1
    /\ CaptureOnly
    /\ UNCHANGED <<captureVars, requestVars, stopRequested, lastReport, watcherVars>>

RestartCapture ==
    /\ CaptureAt("restart", "acknowledge")
    /\ backend' = "up"
    /\ CaptureOnly
    /\ UNCHANGED <<stack, observed, alive, selectedFrom, requestVars, stopRequested, fileVars, watcherVars>>

AcknowledgeChange ==
    /\ CaptureAt("acknowledge", "clear")
    /\ Acknowledge
    /\ CaptureOnly /\ UNCHANGED <<captureVars, requestVars, stopRequested, fileVars>>

RebuildEnds ==
    /\ CaptureAt("clear", "top")
    /\ rebuilding' = FALSE
    /\ CaptureOnly
    /\ UNCHANGED <<captureVars, pending, handled, evidence, stopRequested, fileVars, watcherVars>>

Rebuild ==
    \/ RebuildBegins
    \/ Teardown
    \/ Discover
    \/ CreateDevice
    \/ RebuildPipeline
    \/ CloseFile
    \/ OpenFile
    \/ RestartCapture
    \/ AcknowledgeChange
    \/ RebuildEnds
    \/ RebuildFails

-----------------------------------------------------------------------------
(* watch_loop                                                              *)
WatchOnly == UNCHANGED <<capture, captureVars, command, commandVars, fileVars, faultVars>>

NothingInProgress == ~pending /\ ~rebuilding /\ ~stopRequested

WatchPolls ==
    /\ watch.at = "waiting"
    /\ running
    /\ NothingInProgress
    /\ "pollInTheWindow" \in Excluded => capture # "taken"
    /\ Poll
    /\ watch' = [at |-> "evaluate", report |-> Polled(stack)]
    /\ WatchOnly /\ UNCHANGED <<requestVars, stopRequested>>

BackendDied == observed /\ ~alive

Request(about) ==
    /\ evidence' = about
    /\ watch' = [watch EXCEPT !.at = "request"]

(* The first of these that applies; rebuild_cause, which only labels the   *)
(* record of the rebuild, is left out.                                     *)
WatchEvaluates ==
    /\ watch.at = "evaluate"
    /\ CASE pipeline.wants = "stop" ->
              /\ stopRequested' = TRUE
              /\ watch' = [watch EXCEPT !.at = "waiting"]
              /\ UNCHANGED requestVars
         [] pipeline.wants # "stop" /\ watch.report.change # "none" ->
              /\ Request(watch.report.stack)
              /\ UNCHANGED <<pending, rebuilding, handled, stopRequested>>
         [] pipeline.wants = "migrate" /\ ~handled /\ watch.report.change = "none" ->
              /\ Request(stack)
              /\ handled' = TRUE
              /\ UNCHANGED <<pending, rebuilding, stopRequested>>
         [] OTHER ->
              /\ IF BackendDied THEN Request(IF backend = "dead" THEN stack ELSE 0)
                 ELSE watch' = [watch EXCEPT !.at = "waiting"] /\ UNCHANGED evidence
              /\ UNCHANGED <<pending, rebuilding, handled, stopRequested>>
    /\ WatchOnly /\ UNCHANGED watcherVars

WatchRequests ==
    /\ watch.at = "request"
    /\ pending' = TRUE
    /\ watch' = [at |-> "waiting", report |-> NoReport]
    /\ WatchOnly /\ UNCHANGED <<rebuilding, handled, evidence, stopRequested, watcherVars>>

WatchEnds ==
    /\ watch.at = "waiting"
    /\ ~running
    /\ watch' = [watch EXCEPT !.at = "ended"]
    /\ WatchOnly /\ UNCHANGED <<requestVars, stopRequested, watcherVars>>

Watch == WatchPolls \/ WatchEvaluates \/ WatchRequests \/ WatchEnds

-----------------------------------------------------------------------------
(* The command thread.  A pause or a resume under way when the capture     *)
(* thread lets the pipeline go would use it after its end: not modelled.   *)
CommandAt(from, to) == command = from /\ command' = to
CommandOnly == UNCHANGED <<capture, captureVars, watch, requestVars, faultVars, watcherVars>>

PauseShutsGate ==
    /\ CommandAt("idle", "pausing")
    /\ running /\ pipeline # NoPipeline /\ ~paused
    /\ pauses < MaxPauses
    /\ paused' = TRUE
    /\ pauses' = pauses + 1
    /\ CommandOnly /\ UNCHANGED <<running, answer, abandoned, stopRequested, fileVars>>

(* A pipeline that is already being stopped refuses, and the gate is       *)
(* opened again.                                                           *)
PausePipeline ==
    /\ CommandAt("pausing", "idle")
    /\ \/ /\ pipeline.running
          /\ pipeline' = [pipeline EXCEPT !.paused = TRUE]
          /\ UNCHANGED paused
       \/ /\ ~pipeline.running
          /\ paused' = FALSE
          /\ UNCHANGED pipeline
    /\ CommandOnly
    /\ UNCHANGED <<running, answer, abandoned, pauses, stopRequested, files, currentOutput, lastReport>>

ResumePipeline ==
    /\ CommandAt("idle", "resuming")
    /\ running /\ pipeline.running /\ paused
    /\ pipeline' = [pipeline EXCEPT !.paused = FALSE]
    /\ CommandOnly
    /\ UNCHANGED <<commandVars, stopRequested, files, currentOutput, lastReport>>

ResumeOpensGate ==
    /\ CommandAt("resuming", "idle")
    /\ paused' = FALSE
    /\ CommandOnly
    /\ UNCHANGED <<running, answer, abandoned, pauses, stopRequested, fileVars>>

StopBegins ==
    /\ CommandAt("idle", "joinWatch")
    /\ running' = FALSE
    /\ stopRequested' = TRUE
    /\ CommandOnly /\ UNCHANGED <<paused, answer, abandoned, pauses, fileVars>>

StopJoinsWatch ==
    /\ CommandAt("joinWatch", "joinCapture")
    /\ watch.at = "ended"
    /\ CommandOnly /\ UNCHANGED <<commandVars, stopRequested, fileVars>>

(* The join expires when a file takes longer to finalize than the deadline.*)
StopJoinsCapture ==
    /\ CommandAt("joinCapture", "finalize")
    /\ \/ capture = "ended" /\ UNCHANGED abandoned
       \/ capture = "rollover" /\ abandoned' = TRUE
    /\ CommandOnly /\ UNCHANGED <<running, paused, answer, pauses, stopRequested, fileVars>>

AbandonedReport == IF lastReport # 0 THEN lastReport ELSE currentOutput

StopAnswers ==
    /\ CommandAt("finalize", "done")
    /\ \/ /\ pipeline.running
          /\ files' = [files EXCEPT ![pipeline.file] = "final"]
          /\ answer' = pipeline.file
       \/ /\ pipeline.running
          /\ files' = [files EXCEPT ![pipeline.file] = "broken"]
          /\ answer' = AbandonedReport
       \/ /\ ~pipeline.running \* no pipeline, or one inside another thread's stop
          /\ answer' = AbandonedReport
          /\ UNCHANGED files
    /\ pipeline' = [pipeline EXCEPT !.running = FALSE]
    /\ CommandOnly
    /\ UNCHANGED <<running, paused, abandoned, pauses, stopRequested, currentOutput, lastReport>>

Command ==
    \/ PauseShutsGate
    \/ PausePipeline
    \/ ResumePipeline
    \/ ResumeOpensGate
    \/ StopBegins
    \/ StopJoinsWatch
    \/ StopJoinsCapture
    \/ StopAnswers

-----------------------------------------------------------------------------
(* What goes wrong around the session.                                     *)
Fault == faults < MaxFaults /\ faults' = faults + 1
NoThreadMoves == UNCHANGED <<capture, captureVars, watch, requestVars, command, commandVars, stopRequested>>

DeviceFails ==
    /\ Fault
    /\ ~lost
    /\ lost' = TRUE
    /\ late' = late \cup {stack}
    /\ NoThreadMoves /\ UNCHANGED <<fileVars, watcherVars>>

(* inject_device_error, the only caller of report_device_error: the session*)
(* discards the error acquire returns it, and no other thread that meets a *)
(* failed device says so.  It may tell of one device any number of times,  *)
(* and of a replaced one late; nobody is obliged to use it.                *)
InjectDeviceError ==
    /\ \E s \in late, change \in {"access", "removed"} : ReportDeviceError(change, s)
    /\ NoThreadMoves /\ UNCHANGED <<fileVars, faultVars>>

(* kReportSettleNs outlasts the latest report about a replaced stack.      *)
ReportsSettle ==
    /\ SettleEnds
    /\ late' = late \cap {stack}
    /\ UNCHANGED <<capture, captureVars, watch, requestVars, command, commandVars, stopRequested,
                   fileVars, lost, faults>>

BackendDies ==
    /\ Fault
    /\ backend = "up"
    /\ backend' = "dead"
    /\ UNCHANGED <<capture, stack, observed, alive, selectedFrom, watch, requestVars, command, commandVars,
                   stopRequested, fileVars, lost, late, watcherVars>>

AdapterComesOrGoes ==
    /\ Fault
    /\ "changeDuringRebuild" \in Excluded =>
          capture \notin {"device", "pipeline", "rollover", "open", "restart", "acknowledge"}
    /\ AdaptersChange
    /\ NoThreadMoves /\ UNCHANGED <<fileVars, lost, late>>

LadderAsks ==
    /\ Fault
    /\ pipeline # NoPipeline
    /\ \E want \in {"migrate", "stop"} : pipeline' = [pipeline EXCEPT !.wants = want]
    /\ NoThreadMoves /\ UNCHANGED <<files, currentOutput, lastReport, lost, late, watcherVars>>

Environment ==
    \/ DeviceFails
    \/ InjectDeviceError
    \/ ReportsSettle
    \/ BackendDies
    \/ AdapterComesOrGoes
    \/ LadderAsks

Next == Capturing \/ Rebuild \/ Watch \/ Command \/ Environment

(* The threads run; a command once begun is carried out; time passes.      *)
(* Nobody has to report a failed device.                                   *)
Fairness ==
    /\ WF_vars(Capturing \/ Rebuild)
    /\ WF_vars(Watch)
    /\ WF_vars(PausePipeline \/ ResumeOpensGate \/ StopJoinsWatch \/ StopJoinsCapture \/ StopAnswers)
    /\ WF_vars(ReportsSettle)

Spec == Init /\ [][Next]_vars /\ Fairness

-----------------------------------------------------------------------------
TypeOK ==
    /\ WatcherTypeOK
    /\ capture \in {"top", "taken", "publish", "observe", "acquire", "teardown", "discover", "device",
                    "pipeline", "rollover", "open", "restart", "acknowledge", "clear", "ended"}
    /\ stack \in Nat /\ backend \in {"none", "up", "dead"} /\ selectedFrom \in Nat
    /\ {observed, alive, pending, rebuilding, handled, running, stopRequested, paused, abandoned, lost}
          \subseteq BOOLEAN
    /\ watch \in [at : {"waiting", "evaluate", "request", "ended"}, report : Report]
    /\ command \in {"idle", "pausing", "resuming", "joinWatch", "joinCapture", "finalize", "done"}
    /\ pipeline \in [file : Nat, running : BOOLEAN, paused : BOOLEAN, epoch : BOOLEAN,
                     wants : {"nothing", "migrate", "stop"}]
    /\ files \in Seq({"open", "final", "broken"})
    /\ currentOutput \in DOMAIN files /\ lastReport \in 0 .. Len(files) /\ answer \in 0 .. Len(files)
    /\ late \subseteq 1 .. stack /\ evidence \in 0 .. stack /\ {faults, pauses} \subseteq Nat

(* One fault, one rebuild: what a rebuild answers happened to the stack    *)
(* that it takes apart, never to the one before or to the rebuild itself.  *)
EveryRebuildHasItsFault == capture = "teardown" => evidence = stack

(* A change of adapters the watcher has taken as its baseline was used to  *)
(* choose the encode adapter, or a rebuild that will is on its way.        *)
AdaptersAreFollowed ==
    \/ baseline = selectedFrom
    \/ watch.at \in {"evaluate", "request"} \/ pending \/ rebuilding \/ capture = "taken"
    \/ stopRequested

(* A pause and its resume mean the same to the gate and to the clock, even *)
(* of a pipeline opened in between: a recording that is not paused is not  *)
(* silenced, and one that is places nothing.                               *)
PauseSurvivesRollover ==
    command = "idle" /\ pipeline.running =>
        /\ pipeline.paused => paused
        /\ paused => pipeline.paused \/ ~pipeline.epoch

(* Every file is closed by whoever let its pipeline go, and at most one is *)
(* open at a time.                                                         *)
EveryFileIsClosed ==
    \A k \in DOMAIN files : files[k] = "open" => k = pipeline.file /\ (command = "done" => abandoned)

(* What can reach the watch thread is answered, unless the recording is    *)
(* told to stop: a backend that died is replaced; an error that was        *)
(* reported of the device in place, with no rebuild under way, replaces    *)
(* the device; and the adapters the encode device is chosen from become    *)
(* those the machine has.                                                  *)
NoRebuild == ~pending /\ ~rebuilding /\ capture # "taken"

FaultsAreAnswered ==
    /\ backend = "dead" ~> backend # "dead" \/ stopRequested
    /\ lost /\ reported.stack = stack /\ NoRebuild ~> ~lost \/ stopRequested
    /\ selectedFrom # adapters ~> selectedFrom = adapters \/ stopRequested

(* recording_session.cpp:654: "Anything that genuinely is device loss      *)
(* reaches the watcher, whose next poll turns it into a rebuild."          *)
LostDevicesAreReplaced == lost ~> ~lost \/ stopRequested
=============================================================================
