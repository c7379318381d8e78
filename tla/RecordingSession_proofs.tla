---------------------- MODULE RecordingSession_proofs -----------------------
(***************************************************************************)
(* What the three threads of a recording keep between them, for any number *)
(* of faults and pauses: which file is open and who closes it, what a      *)
(* pause means across a rollover, and which stack a rebuild is about.      *)
(***************************************************************************)
EXTENDS RecordingSession, TLAPS

InRebuild == {"teardown", "discover", "device", "pipeline", "rollover", "open", "restart",
              "acknowledge", "clear"}
CapturePlaces == {"top", "taken", "publish", "observe", "acquire", "ended"} \cup InRebuild
CommandPlaces == {"idle", "pausing", "resuming", "joinWatch", "joinCapture", "finalize", "done"}
WatchTypes == [at : {"waiting", "evaluate", "request", "ended"}, report : Report]
PipelineTypes == [file : Nat, running : BOOLEAN, paused : BOOLEAN, epoch : BOOLEAN,
                  wants : {"nothing", "migrate", "stop"}]
FileStates == {"open", "final", "broken"}

(* Between the creation of the new device and the acknowledgement: the old *)
(* stack may still be reported, and nobody looks.                          *)
OnTheNewDevice == {"pipeline", "rollover", "open", "restart", "acknowledge"}

PlaceTypes == capture \in CapturePlaces /\ command \in CommandPlaces /\ watch \in WatchTypes
FlagTypes ==
    /\ observed \in BOOLEAN /\ alive \in BOOLEAN /\ pending \in BOOLEAN /\ rebuilding \in BOOLEAN
    /\ handled \in BOOLEAN /\ running \in BOOLEAN /\ stopRequested \in BOOLEAN /\ paused \in BOOLEAN
    /\ abandoned \in BOOLEAN /\ lost \in BOOLEAN /\ settling \in BOOLEAN /\ current \in BOOLEAN
StackTypes ==
    /\ stack \in Nat \ {0} /\ late \subseteq 1 .. stack /\ evidence \in 0 .. stack
    /\ reported \in Report /\ reported.stack <= stack /\ watch.report.stack <= stack
    /\ adapters \in Nat /\ baseline \in Nat /\ baseline <= adapters
FileTypes ==
    /\ pipeline \in PipelineTypes /\ files \in Seq(FileStates)
    /\ currentOutput \in DOMAIN files /\ lastReport \in 0 .. Len(files) /\ answer \in 0 .. Len(files)
    /\ pipeline.file <= Len(files)
RestTypes ==
    /\ backend \in {"none", "up", "dead"} /\ selectedFrom \in Nat /\ faults \in Nat /\ pauses \in Nat

SessionTypes == PlaceTypes /\ FlagTypes /\ StackTypes /\ FileTypes /\ RestTypes

(* There is a pipeline except after one was let go, until the next opens;  *)
(* a failed rebuild leaves none, and ends the recording.  It runs until    *)
(* the capture thread or the stop command lets it go, and neither does so  *)
(* under a pause.                                                          *)
PipelineInv ==
    /\ pipeline.file = 0 <=> pipeline = NoPipeline
    /\ pipeline.file = 0 =>
          capture = "open" \/ (stopRequested /\ capture \in {"clear", "top", "ended"})
    /\ capture = "open" => pipeline.file = 0
    /\ pipeline.file # 0 /\ ~pipeline.running => capture = "rollover" \/ command = "done"
    /\ command \in {"pausing", "resuming"} => pipeline.file # 0

(* The command thread answers for the file only when the capture thread no *)
(* longer can: it has ended, or it was given up where it stands.           *)
AnswerInv ==
    /\ command \in {"finalize", "done"} => capture = "ended" \/ abandoned
    /\ abandoned => command \in {"finalize", "done"}
    /\ command = "done" => ~pipeline.running
    /\ \A k \in DOMAIN files : files[k] = "open" => k = pipeline.file
    /\ command = "done" /\ ~abandoned => \A k \in DOMAIN files : files[k] # "open"

PauseInv ==
    /\ command \in {"pausing", "resuming"} => paused
    /\ command = "resuming" => ~pipeline.paused
    /\ PauseSurvivesRollover

(* What the watch thread makes of the flags: an observed backend that is   *)
(* not alive is dead, and not merely taken down by a rebuild.              *)
BackendInv ==
    /\ rebuilding <=> capture \in InRebuild
    /\ backend = "none" => stopRequested \/ capture \in InRebuild \ {"acknowledge", "clear"}
    /\ capture \in {"publish", "observe", "acquire"} => backend # "none"
    /\ capture \in InRebuild \ {"teardown"} => ~observed
    /\ (observed \/ capture = "observe") /\ ~alive => backend = "dead"

(* One request at a time, and what it is about does not change on its way. *)
RequestInv ==
    /\ watch.at \in {"evaluate", "request"} => ~pending /\ ~rebuilding /\ capture # "taken"
    /\ pending => ~rebuilding /\ capture # "taken"
    /\ watch.at = "evaluate" /\ watch.report.change # "none" => watch.report.stack = stack
    /\ watch.at = "request" \/ pending \/ capture \in {"taken", "teardown"} => evidence = stack

(* What a poll would find is about the stack in place: a factory that is   *)
(* stale only because of the rebuild was acknowledged, and reports of the  *)
(* old stack are dropped while any thread has one to make.                 *)
ReportInv ==
    stopRequested \/ capture \in OnTheNewDevice \/
       /\ current \/ baseline # adapters
       /\ reported.change # "none" => reported.stack = stack
       /\ ~settling => late \subseteq {stack}

FaultInv == BackendInv /\ RequestInv /\ ReportInv

(* The encode adapter was chosen from the adapters the watcher compares    *)
(* with, or another choice is to be made.                                  *)
FollowInv ==
    /\ AdaptersAreFollowed
    /\ capture \in OnTheNewDevice \cup {"device"} => selectedFrom = adapters
    /\ capture = "clear" => baseline = selectedFrom \/ stopRequested
    /\ watch.at = "evaluate" /\ watch.report.change = "none" => baseline = selectedFrom \/ stopRequested

-----------------------------------------------------------------------------
(* Types                                                                   *)

(* A poll's answer is what was reported or the change of adapters, and is  *)
(* about no stack only when nothing but the factory moved.                 *)
LEMMA PolledReport ==
  ASSUME reported \in Report, NEW s \in Nat
  PROVE  /\ Polled(s) \in Report
         /\ Polled(s) \in {reported, TopologyReport(s)}
         /\ Polled(s).change = "none" =>
               reported.change = "none" /\ current /\ baseline = adapters
         /\ current /\ baseline = adapters => Polled(s) = reported
         /\ baseline # adapters => TopologyReport(s).stack = s
         /\ TopologyReport(s).stack \in {0, s} /\ TopologyReport(s).change = "topology"
  <1>1. TopologyReport(s) \in Report /\ TopologyReport(s).change = "topology"
        /\ TopologyReport(s).stack \in {0, s} /\ (baseline # adapters => TopologyReport(s).stack = s)
    BY DEF TopologyReport, Report, Severity
  <1>2. Polled(s) \in {reported, TopologyReport(s)} /\ (current /\ baseline = adapters => Polled(s) = reported)
    BY DEF Polled, MoreSevere
  <1>3. Severity["none"] = 0 /\ Severity["topology"] = 1
    BY DEF Severity
  <1>4. ASSUME Polled(s).change = "none" PROVE reported.change = "none" /\ current /\ baseline = adapters
    <2>1. Polled(s) = reported
      BY <1>1, <1>2, <1>4
    <2>2. CASE ~current \/ baseline # adapters
      BY <1>1, <1>3, <1>4, <2>1, <2>2 DEF Polled, MoreSevere
    <2> QED BY <1>4, <2>1, <2>2
  <1> QED BY <1>1, <1>2, <1>4

(* What an evaluation may come to.                                         *)
LEMMA EvaluateChooses ==
  ASSUME WatchEvaluates
  PROVE  /\ watch.at = "evaluate" /\ WatchOnly /\ UNCHANGED watcherVars
         /\ UNCHANGED <<pending, rebuilding>>
         /\ \/ /\ stopRequested' = TRUE
               /\ watch' = [watch EXCEPT !.at = "waiting"]
               /\ UNCHANGED <<handled, evidence>>
            \/ /\ watch.report.change # "none"
               /\ Request(watch.report.stack)
               /\ UNCHANGED <<handled, stopRequested>>
            \/ /\ watch.report.change = "none"
               /\ Request(stack)
               /\ handled' = TRUE /\ UNCHANGED stopRequested
            \/ /\ watch.report.change = "none"
               /\ BackendDied /\ Request(IF backend = "dead" THEN stack ELSE 0)
               /\ UNCHANGED <<handled, stopRequested>>
            \/ /\ watch.report.change = "none"
               /\ ~BackendDied
               /\ watch' = [watch EXCEPT !.at = "waiting"]
               /\ UNCHANGED <<handled, evidence, stopRequested>>
  <1> USE DEF requestVars
  <1>1. CASE pipeline.wants = "stop"
    BY <1>1 DEF WatchEvaluates
  <1>2. CASE pipeline.wants # "stop" /\ watch.report.change # "none"
    BY <1>2 DEF WatchEvaluates
  <1>3. CASE pipeline.wants = "migrate" /\ ~handled /\ watch.report.change = "none"
    BY <1>3 DEF WatchEvaluates
  <1>4. CASE /\ pipeline.wants # "stop" /\ watch.report.change = "none"
             /\ ~(pipeline.wants = "migrate" /\ ~handled)
    BY <1>4 DEF WatchEvaluates
  <1> QED BY <1>1, <1>2, <1>3, <1>4

LEMMA PlacesHold ==
  ASSUME PlaceTypes, StackTypes, Next
  PROVE  PlaceTypes'
  <1> USE DEF captureVars, requestVars, commandVars, fileVars, faultVars, sessionVars, watcherVars, PlaceTypes, CapturePlaces, InRebuild, CommandPlaces, WatchTypes
  <1>1. CASE Top
    BY <1>1 DEF Top, CaptureAt, CaptureOnly
  <1>2. CASE PublishAlive
    BY <1>2 DEF PublishAlive, CaptureAt, CaptureOnly, PublishRunning
  <1>3. CASE PublishObserved
    BY <1>3 DEF PublishObserved, CaptureAt, CaptureOnly
  <1>4. CASE AcquireFrame
    BY <1>4 DEF AcquireFrame, CaptureAt, CaptureOnly, MaySubmit
  <1>5. CASE RebuildBegins
    BY <1>5 DEF RebuildBegins, CaptureAt, CaptureOnly
  <1>6. CASE Teardown
    BY <1>6 DEF Teardown, CaptureAt, CaptureOnly
  <1>7. CASE Discover
    BY <1>7 DEF Discover, CaptureAt, CaptureOnly, RefreshAndChoose
  <1>8. CASE CreateDevice
    BY <1>8 DEF CreateDevice, CaptureAt, DxgiIsUsed
  <1>9. CASE RebuildPipeline
    BY <1>9 DEF RebuildPipeline, CaptureAt, CaptureOnly
  <1>10. CASE CloseFile
    BY <1>10 DEF CloseFile, CaptureAt, CaptureOnly, FinalizeFile
  <1>11. CASE OpenFile
    BY <1>11 DEF OpenFile, CaptureAt, CaptureOnly
  <1>12. CASE RestartCapture
    BY <1>12 DEF RestartCapture, CaptureAt, CaptureOnly
  <1>13. CASE AcknowledgeChange
    BY <1>13 DEF AcknowledgeChange, CaptureAt, CaptureOnly, Acknowledge
  <1>14. CASE RebuildEnds
    BY <1>14 DEF RebuildEnds, CaptureAt, CaptureOnly
  <1>15. CASE RebuildFails
    BY <1>15 DEF RebuildFails, CaptureAt, CaptureOnly
  <1>16. CASE WatchPolls
    BY <1>16, PolledReport DEF WatchPolls, Poll, WatchOnly, NothingInProgress, StackTypes
  <1>17. CASE WatchEvaluates
    BY <1>17 DEF WatchEvaluates, WatchOnly, Request
  <1>18. CASE WatchRequests
    BY <1>18 DEF WatchRequests, WatchOnly, Report, NoReport, Severity
  <1>19. CASE WatchEnds
    BY <1>19 DEF WatchEnds, WatchOnly
  <1>20. CASE PauseShutsGate
    BY <1>20 DEF PauseShutsGate, CommandAt, CommandOnly
  <1>21. CASE PausePipeline
    BY <1>21 DEF PausePipeline, CommandAt, CommandOnly
  <1>22. CASE ResumePipeline
    BY <1>22 DEF ResumePipeline, CommandAt, CommandOnly
  <1>23. CASE ResumeOpensGate
    BY <1>23 DEF ResumeOpensGate, CommandAt, CommandOnly
  <1>24. CASE StopBegins
    BY <1>24 DEF StopBegins, CommandAt, CommandOnly
  <1>25. CASE StopJoinsWatch
    BY <1>25 DEF StopJoinsWatch, CommandAt, CommandOnly
  <1>26. CASE StopJoinsCapture
    BY <1>26 DEF StopJoinsCapture, CommandAt, CommandOnly
  <1>27. CASE StopAnswers
    BY <1>27 DEF StopAnswers, CommandAt, CommandOnly
  <1>28. CASE DeviceFails
    BY <1>28 DEF DeviceFails, Fault, NoThreadMoves
  <1>29. CASE InjectDeviceError
    BY <1>29 DEF InjectDeviceError, NoThreadMoves, ReportDeviceError
  <1>30. CASE ReportsSettle
    BY <1>30 DEF ReportsSettle, SettleEnds
  <1>31. CASE BackendDies
    BY <1>31 DEF BackendDies, Fault
  <1>32. CASE AdapterComesOrGoes
    BY <1>32 DEF AdapterComesOrGoes, Fault, NoThreadMoves, AdaptersChange
  <1>33. CASE LadderAsks
    BY <1>33 DEF LadderAsks, Fault, NoThreadMoves
  <1> QED BY <1>1, <1>2, <1>3, <1>4, <1>5, <1>6, <1>7, <1>8, <1>9, <1>10, <1>11, <1>12, <1>13, <1>14, <1>15, <1>16, <1>17, <1>18, <1>19, <1>20, <1>21, <1>22, <1>23, <1>24, <1>25, <1>26, <1>27, <1>28, <1>29, <1>30, <1>31, <1>32, <1>33
      DEF Next, Capturing, Rebuild, Watch, Command, Environment

LEMMA FlagsHold ==
  ASSUME FlagTypes, Next
  PROVE  FlagTypes'
  <1> USE DEF captureVars, requestVars, commandVars, fileVars, faultVars, sessionVars, watcherVars, FlagTypes
  <1>1. CASE Top
    BY <1>1 DEF Top, CaptureAt, CaptureOnly
  <1>2. CASE PublishAlive
    BY <1>2 DEF PublishAlive, CaptureAt, CaptureOnly, PublishRunning
  <1>3. CASE PublishObserved
    BY <1>3 DEF PublishObserved, CaptureAt, CaptureOnly
  <1>4. CASE AcquireFrame
    BY <1>4 DEF AcquireFrame, CaptureAt, CaptureOnly, MaySubmit
  <1>5. CASE RebuildBegins
    BY <1>5 DEF RebuildBegins, CaptureAt, CaptureOnly
  <1>6. CASE Teardown
    BY <1>6 DEF Teardown, CaptureAt, CaptureOnly
  <1>7. CASE Discover
    BY <1>7 DEF Discover, CaptureAt, CaptureOnly, RefreshAndChoose
  <1>8. CASE CreateDevice
    BY <1>8 DEF CreateDevice, CaptureAt, DxgiIsUsed
  <1>9. CASE RebuildPipeline
    BY <1>9 DEF RebuildPipeline, CaptureAt, CaptureOnly
  <1>10. CASE CloseFile
    BY <1>10 DEF CloseFile, CaptureAt, CaptureOnly, FinalizeFile
  <1>11. CASE OpenFile
    BY <1>11 DEF OpenFile, CaptureAt, CaptureOnly
  <1>12. CASE RestartCapture
    BY <1>12 DEF RestartCapture, CaptureAt, CaptureOnly
  <1>13. CASE AcknowledgeChange
    BY <1>13 DEF AcknowledgeChange, CaptureAt, CaptureOnly, Acknowledge
  <1>14. CASE RebuildEnds
    BY <1>14 DEF RebuildEnds, CaptureAt, CaptureOnly
  <1>15. CASE RebuildFails
    BY <1>15 DEF RebuildFails, CaptureAt, CaptureOnly
  <1>16. CASE WatchPolls
    BY <1>16 DEF WatchPolls, Poll, WatchOnly, NothingInProgress
  <1>17. CASE WatchEvaluates
    <2>1. /\ WatchOnly /\ UNCHANGED <<pending, rebuilding>> /\ UNCHANGED watcherVars
          /\ handled' = handled \/ handled' = TRUE
          /\ stopRequested' = stopRequested \/ stopRequested' = TRUE
      BY <1>17, EvaluateChooses, Zenon
    <2> QED BY <2>1 DEF WatchOnly
  <1>18. CASE WatchRequests
    BY <1>18 DEF WatchRequests, WatchOnly
  <1>19. CASE WatchEnds
    BY <1>19 DEF WatchEnds, WatchOnly
  <1>20. CASE PauseShutsGate
    BY <1>20 DEF PauseShutsGate, CommandAt, CommandOnly
  <1>21. CASE PausePipeline
    BY <1>21 DEF PausePipeline, CommandAt, CommandOnly
  <1>22. CASE ResumePipeline
    BY <1>22 DEF ResumePipeline, CommandAt, CommandOnly
  <1>23. CASE ResumeOpensGate
    BY <1>23 DEF ResumeOpensGate, CommandAt, CommandOnly
  <1>24. CASE StopBegins
    BY <1>24 DEF StopBegins, CommandAt, CommandOnly
  <1>25. CASE StopJoinsWatch
    BY <1>25 DEF StopJoinsWatch, CommandAt, CommandOnly
  <1>26. CASE StopJoinsCapture
    BY <1>26 DEF StopJoinsCapture, CommandAt, CommandOnly
  <1>27. CASE StopAnswers
    BY <1>27 DEF StopAnswers, CommandAt, CommandOnly
  <1>28. CASE DeviceFails
    BY <1>28 DEF DeviceFails, Fault, NoThreadMoves
  <1>29. CASE InjectDeviceError
    BY <1>29 DEF InjectDeviceError, NoThreadMoves, ReportDeviceError
  <1>30. CASE ReportsSettle
    BY <1>30 DEF ReportsSettle, SettleEnds
  <1>31. CASE BackendDies
    BY <1>31 DEF BackendDies, Fault
  <1>32. CASE AdapterComesOrGoes
    BY <1>32 DEF AdapterComesOrGoes, Fault, NoThreadMoves, AdaptersChange
  <1>33. CASE LadderAsks
    BY <1>33 DEF LadderAsks, Fault, NoThreadMoves
  <1> QED BY <1>1, <1>2, <1>3, <1>4, <1>5, <1>6, <1>7, <1>8, <1>9, <1>10, <1>11, <1>12, <1>13, <1>14, <1>15, <1>16, <1>17, <1>18, <1>19, <1>20, <1>21, <1>22, <1>23, <1>24, <1>25, <1>26, <1>27, <1>28, <1>29, <1>30, <1>31, <1>32, <1>33
      DEF Next, Capturing, Rebuild, Watch, Command, Environment

LEMMA RestHold ==
  ASSUME RestTypes, StackTypes, Next
  PROVE  RestTypes'
  <1> USE DEF captureVars, requestVars, commandVars, fileVars, faultVars, sessionVars, watcherVars, RestTypes, StackTypes
  <1>1. CASE Top
    BY <1>1 DEF Top, CaptureAt, CaptureOnly
  <1>2. CASE PublishAlive
    BY <1>2 DEF PublishAlive, CaptureAt, CaptureOnly, PublishRunning
  <1>3. CASE PublishObserved
    BY <1>3 DEF PublishObserved, CaptureAt, CaptureOnly
  <1>4. CASE AcquireFrame
    BY <1>4 DEF AcquireFrame, CaptureAt, CaptureOnly, MaySubmit
  <1>5. CASE RebuildBegins
    BY <1>5 DEF RebuildBegins, CaptureAt, CaptureOnly
  <1>6. CASE Teardown
    BY <1>6 DEF Teardown, CaptureAt, CaptureOnly
  <1>7. CASE Discover
    BY <1>7 DEF Discover, CaptureAt, CaptureOnly, RefreshAndChoose
  <1>8. CASE CreateDevice
    BY <1>8 DEF CreateDevice, CaptureAt, DxgiIsUsed
  <1>9. CASE RebuildPipeline
    BY <1>9 DEF RebuildPipeline, CaptureAt, CaptureOnly
  <1>10. CASE CloseFile
    BY <1>10 DEF CloseFile, CaptureAt, CaptureOnly, FinalizeFile
  <1>11. CASE OpenFile
    BY <1>11 DEF OpenFile, CaptureAt, CaptureOnly
  <1>12. CASE RestartCapture
    BY <1>12 DEF RestartCapture, CaptureAt, CaptureOnly
  <1>13. CASE AcknowledgeChange
    BY <1>13 DEF AcknowledgeChange, CaptureAt, CaptureOnly, Acknowledge
  <1>14. CASE RebuildEnds
    BY <1>14 DEF RebuildEnds, CaptureAt, CaptureOnly
  <1>15. CASE RebuildFails
    BY <1>15 DEF RebuildFails, CaptureAt, CaptureOnly
  <1>16. CASE WatchPolls
    BY <1>16 DEF WatchPolls, Poll, WatchOnly, NothingInProgress
  <1>17. CASE WatchEvaluates
    BY <1>17 DEF WatchEvaluates, WatchOnly, Request
  <1>18. CASE WatchRequests
    BY <1>18 DEF WatchRequests, WatchOnly
  <1>19. CASE WatchEnds
    BY <1>19 DEF WatchEnds, WatchOnly
  <1>20. CASE PauseShutsGate
    BY <1>20 DEF PauseShutsGate, CommandAt, CommandOnly
  <1>21. CASE PausePipeline
    BY <1>21 DEF PausePipeline, CommandAt, CommandOnly
  <1>22. CASE ResumePipeline
    BY <1>22 DEF ResumePipeline, CommandAt, CommandOnly
  <1>23. CASE ResumeOpensGate
    BY <1>23 DEF ResumeOpensGate, CommandAt, CommandOnly
  <1>24. CASE StopBegins
    BY <1>24 DEF StopBegins, CommandAt, CommandOnly
  <1>25. CASE StopJoinsWatch
    BY <1>25 DEF StopJoinsWatch, CommandAt, CommandOnly
  <1>26. CASE StopJoinsCapture
    BY <1>26 DEF StopJoinsCapture, CommandAt, CommandOnly
  <1>27. CASE StopAnswers
    BY <1>27 DEF StopAnswers, CommandAt, CommandOnly
  <1>28. CASE DeviceFails
    BY <1>28 DEF DeviceFails, Fault, NoThreadMoves
  <1>29. CASE InjectDeviceError
    BY <1>29 DEF InjectDeviceError, NoThreadMoves, ReportDeviceError
  <1>30. CASE ReportsSettle
    BY <1>30 DEF ReportsSettle, SettleEnds
  <1>31. CASE BackendDies
    BY <1>31 DEF BackendDies, Fault
  <1>32. CASE AdapterComesOrGoes
    BY <1>32 DEF AdapterComesOrGoes, Fault, NoThreadMoves, AdaptersChange
  <1>33. CASE LadderAsks
    BY <1>33 DEF LadderAsks, Fault, NoThreadMoves
  <1> QED BY <1>1, <1>2, <1>3, <1>4, <1>5, <1>6, <1>7, <1>8, <1>9, <1>10, <1>11, <1>12, <1>13, <1>14, <1>15, <1>16, <1>17, <1>18, <1>19, <1>20, <1>21, <1>22, <1>23, <1>24, <1>25, <1>26, <1>27, <1>28, <1>29, <1>30, <1>31, <1>32, <1>33
      DEF Next, Capturing, Rebuild, Watch, Command, Environment

LEMMA StackHolds ==
  ASSUME PlaceTypes, StackTypes, Next
  PROVE  StackTypes'
  <1> USE DEF captureVars, requestVars, commandVars, fileVars, faultVars, sessionVars, watcherVars, StackTypes, WatchTypes, Report, NoReport, Severity
  <1>0. /\ watch \in WatchTypes /\ stack \in Nat \ {0} /\ adapters \in Nat /\ baseline \in Nat
        /\ reported \in Report
    BY DEF PlaceTypes, StackTypes
  <1>1. CASE Top
    BY <1>1, <1>0 DEF Top, CaptureAt, CaptureOnly
  <1>2. CASE PublishAlive
    BY <1>2, <1>0 DEF PublishAlive, CaptureAt, CaptureOnly, PublishRunning
  <1>3. CASE PublishObserved
    BY <1>3, <1>0 DEF PublishObserved, CaptureAt, CaptureOnly
  <1>4. CASE AcquireFrame
    BY <1>4, <1>0 DEF AcquireFrame, CaptureAt, CaptureOnly, MaySubmit
  <1>5. CASE RebuildBegins
    BY <1>5, <1>0 DEF RebuildBegins, CaptureAt, CaptureOnly
  <1>6. CASE Teardown
    BY <1>6, <1>0 DEF Teardown, CaptureAt, CaptureOnly
  <1>7. CASE Discover
    BY <1>7, <1>0 DEF Discover, CaptureAt, CaptureOnly, RefreshAndChoose
  <1>8. CASE CreateDevice
    BY <1>8, <1>0 DEF CreateDevice, CaptureAt, DxgiIsUsed
  <1>9. CASE RebuildPipeline
    BY <1>9, <1>0 DEF RebuildPipeline, CaptureAt, CaptureOnly
  <1>10. CASE CloseFile
    BY <1>10, <1>0 DEF CloseFile, CaptureAt, CaptureOnly, FinalizeFile
  <1>11. CASE OpenFile
    BY <1>11, <1>0 DEF OpenFile, CaptureAt, CaptureOnly
  <1>12. CASE RestartCapture
    BY <1>12, <1>0 DEF RestartCapture, CaptureAt, CaptureOnly
  <1>13. CASE AcknowledgeChange
    BY <1>13, <1>0 DEF AcknowledgeChange, CaptureAt, CaptureOnly, Acknowledge
  <1>14. CASE RebuildEnds
    BY <1>14, <1>0 DEF RebuildEnds, CaptureAt, CaptureOnly
  <1>15. CASE RebuildFails
    BY <1>15, <1>0 DEF RebuildFails, CaptureAt, CaptureOnly
  <1>16. CASE WatchPolls
    <2>1. Polled(stack) \in Report /\ Polled(stack).stack <= stack
      <3>1. Polled(stack) \in Report /\ Polled(stack) \in {reported, TopologyReport(stack)}
            /\ TopologyReport(stack).stack \in {0, stack}
        BY <1>0, PolledReport
      <3> QED BY <1>0, <3>1
    <2>2. /\ watch'.report = Polled(stack) /\ reported' = NoReport /\ baseline' = adapters
          /\ UNCHANGED <<stack, late, evidence, adapters>>
      BY <1>16 DEF WatchPolls, Poll, WatchOnly
    <2> QED BY <1>0, <2>1, <2>2
  <1>17. CASE WatchEvaluates
    BY <1>17, <1>0 DEF WatchEvaluates, WatchOnly, Request
  <1>18. CASE WatchRequests
    BY <1>18, <1>0 DEF WatchRequests, WatchOnly
  <1>19. CASE WatchEnds
    BY <1>19, <1>0 DEF WatchEnds, WatchOnly
  <1>20. CASE PauseShutsGate
    BY <1>20, <1>0 DEF PauseShutsGate, CommandAt, CommandOnly
  <1>21. CASE PausePipeline
    BY <1>21, <1>0 DEF PausePipeline, CommandAt, CommandOnly
  <1>22. CASE ResumePipeline
    BY <1>22, <1>0 DEF ResumePipeline, CommandAt, CommandOnly
  <1>23. CASE ResumeOpensGate
    BY <1>23, <1>0 DEF ResumeOpensGate, CommandAt, CommandOnly
  <1>24. CASE StopBegins
    BY <1>24, <1>0 DEF StopBegins, CommandAt, CommandOnly
  <1>25. CASE StopJoinsWatch
    BY <1>25, <1>0 DEF StopJoinsWatch, CommandAt, CommandOnly
  <1>26. CASE StopJoinsCapture
    BY <1>26, <1>0 DEF StopJoinsCapture, CommandAt, CommandOnly
  <1>27. CASE StopAnswers
    BY <1>27, <1>0 DEF StopAnswers, CommandAt, CommandOnly
  <1>28. CASE DeviceFails
    BY <1>28, <1>0 DEF DeviceFails, Fault, NoThreadMoves
  <1>29. CASE InjectDeviceError
    <2>1. PICK s \in late, change \in {"access", "removed"} :
             ReportDeviceError(change, s) /\ late' = late
      BY <1>29 DEF InjectDeviceError, faultVars
    <2>2. /\ reported' = reported \/ reported' = [change |-> change, stack |-> s]
          /\ UNCHANGED <<baseline, adapters>>
      BY <2>1 DEF ReportDeviceError, MoreSevere
    <2>3. reported' \in Report /\ reported'.stack <= stack
      BY <1>0, <2>1, <2>2
    <2>4. UNCHANGED <<stack, watch, evidence>> /\ late' \subseteq late
      BY <1>29, <2>1 DEF InjectDeviceError, NoThreadMoves
    <2> QED BY <1>0, <2>2, <2>3, <2>4
  <1>30. CASE ReportsSettle
    BY <1>30, <1>0 DEF ReportsSettle, SettleEnds
  <1>31. CASE BackendDies
    BY <1>31, <1>0 DEF BackendDies, Fault
  <1>32. CASE AdapterComesOrGoes
    BY <1>32, <1>0 DEF AdapterComesOrGoes, Fault, NoThreadMoves, AdaptersChange
  <1>33. CASE LadderAsks
    BY <1>33, <1>0 DEF LadderAsks, Fault, NoThreadMoves
  <1> QED BY <1>1, <1>2, <1>3, <1>4, <1>5, <1>6, <1>7, <1>8, <1>9, <1>10, <1>11, <1>12, <1>13, <1>14, <1>15, <1>16, <1>17, <1>18, <1>19, <1>20, <1>21, <1>22, <1>23, <1>24, <1>25, <1>26, <1>27, <1>28, <1>29, <1>30, <1>31, <1>32, <1>33
      DEF Next, Capturing, Rebuild, Watch, Command, Environment

(* Closing a file changes its state and nothing else.                      *)
LEMMA FileCloses ==
  ASSUME files \in Seq(FileStates), NEW k \in Nat, NEW state \in FileStates
  PROVE  LET closed == [files EXCEPT ![k] = state]
         IN  /\ closed \in Seq(FileStates) /\ Len(closed) = Len(files)
             /\ DOMAIN closed = DOMAIN files
             /\ k \in DOMAIN files => closed[k] = state
             /\ \A j \in DOMAIN files : j # k => closed[j] = files[j]
  <1> DEFINE closed == [files EXCEPT ![k] = state]
  <1>1. files \in [1 .. Len(files) -> FileStates] /\ Len(files) \in Nat /\ DOMAIN files = 1 .. Len(files)
    OBVIOUS
  <1>2. closed \in [1 .. Len(files) -> FileStates]
    BY <1>1
  <1>3. closed \in Seq(FileStates) /\ Len(closed) = Len(files)
    BY <1>1, <1>2
  <1>4. /\ k \in DOMAIN files => closed[k] = state
        /\ \A n \in DOMAIN files : n # k => closed[n] = files[n]
    BY <1>1
  <1>5. DOMAIN closed = DOMAIN files
    BY <1>1, <1>2
  <1> QED BY <1>3, <1>4, <1>5

LEMMA FileTypesHold ==
  ASSUME PlaceTypes, FileTypes, Next
  PROVE  FileTypes'
  <1> USE DEF captureVars, requestVars, commandVars, fileVars, faultVars, sessionVars, watcherVars, FileTypes, PipelineTypes, FileStates
  <1>1. CASE Top
    BY <1>1 DEF Top, CaptureAt, CaptureOnly
  <1>2. CASE PublishAlive
    BY <1>2 DEF PublishAlive, CaptureAt, CaptureOnly, PublishRunning
  <1>3. CASE PublishObserved
    BY <1>3 DEF PublishObserved, CaptureAt, CaptureOnly
  <1>4. CASE AcquireFrame
    BY <1>4 DEF AcquireFrame, CaptureAt, CaptureOnly, MaySubmit
  <1>5. CASE RebuildBegins
    BY <1>5 DEF RebuildBegins, CaptureAt, CaptureOnly
  <1>6. CASE Teardown
    BY <1>6 DEF Teardown, CaptureAt, CaptureOnly
  <1>7. CASE Discover
    BY <1>7 DEF Discover, CaptureAt, CaptureOnly, RefreshAndChoose
  <1>8. CASE CreateDevice
    BY <1>8 DEF CreateDevice, CaptureAt, DxgiIsUsed
  <1>9. CASE RebuildPipeline
    BY <1>9 DEF RebuildPipeline, CaptureAt, CaptureOnly
  <1>10. CASE CloseFile
    <2>1. \E state \in {"final", "broken"} : files' = [files EXCEPT ![pipeline.file] = state]
      BY <1>10 DEF CloseFile, FinalizeFile
    <2>2. files' \in Seq({"open", "final", "broken"}) /\ Len(files') = Len(files)
      BY <2>1, FileCloses
    <2> QED BY <1>10, <2>2 DEF CloseFile, CaptureOnly, FinalizeFile, NoPipeline
  <1>11. CASE OpenFile
    <2>1. /\ files' \in Seq({"open", "final", "broken"}) /\ Len(files') = Len(files) + 1
          /\ DOMAIN files' = 1 .. Len(files) + 1
      BY <1>11 DEF OpenFile
    <2> QED BY <1>11, <2>1 DEF OpenFile, CaptureOnly, Started
  <1>12. CASE RestartCapture
    BY <1>12 DEF RestartCapture, CaptureAt, CaptureOnly
  <1>13. CASE AcknowledgeChange
    BY <1>13 DEF AcknowledgeChange, CaptureAt, CaptureOnly, Acknowledge
  <1>14. CASE RebuildEnds
    BY <1>14 DEF RebuildEnds, CaptureAt, CaptureOnly
  <1>15. CASE RebuildFails
    BY <1>15 DEF RebuildFails, CaptureAt, CaptureOnly
  <1>16. CASE WatchPolls
    BY <1>16 DEF WatchPolls, Poll, WatchOnly, NothingInProgress
  <1>17. CASE WatchEvaluates
    BY <1>17 DEF WatchEvaluates, WatchOnly, Request
  <1>18. CASE WatchRequests
    BY <1>18 DEF WatchRequests, WatchOnly
  <1>19. CASE WatchEnds
    BY <1>19 DEF WatchEnds, WatchOnly
  <1>20. CASE PauseShutsGate
    BY <1>20 DEF PauseShutsGate, CommandAt, CommandOnly
  <1>21. CASE PausePipeline
    BY <1>21 DEF PausePipeline, CommandAt, CommandOnly
  <1>22. CASE ResumePipeline
    BY <1>22 DEF ResumePipeline, CommandAt, CommandOnly
  <1>23. CASE ResumeOpensGate
    BY <1>23 DEF ResumeOpensGate, CommandAt, CommandOnly
  <1>24. CASE StopBegins
    BY <1>24 DEF StopBegins, CommandAt, CommandOnly
  <1>25. CASE StopJoinsWatch
    BY <1>25 DEF StopJoinsWatch, CommandAt, CommandOnly
  <1>26. CASE StopJoinsCapture
    BY <1>26 DEF StopJoinsCapture, CommandAt, CommandOnly
  <1>27. CASE StopAnswers
    <2>1. AbandonedReport \in 0 .. Len(files)
      BY DEF AbandonedReport
    <2>2. files' = files \/ \E state \in {"final", "broken"} : files' = [files EXCEPT ![pipeline.file] = state]
      BY <1>27 DEF StopAnswers
    <2>3. files' \in Seq({"open", "final", "broken"}) /\ Len(files') = Len(files)
      BY <2>2, FileCloses
    <2>4. answer' \in {pipeline.file, AbandonedReport}
      BY <1>27 DEF StopAnswers
    <2>5. pipeline' \in PipelineTypes /\ pipeline'.file = pipeline.file
          /\ UNCHANGED <<currentOutput, lastReport>>
      BY <1>27 DEF StopAnswers
    <2> QED BY <2>1, <2>3, <2>4, <2>5
  <1>28. CASE DeviceFails
    BY <1>28 DEF DeviceFails, Fault, NoThreadMoves
  <1>29. CASE InjectDeviceError
    BY <1>29 DEF InjectDeviceError, NoThreadMoves, ReportDeviceError
  <1>30. CASE ReportsSettle
    BY <1>30 DEF ReportsSettle, SettleEnds
  <1>31. CASE BackendDies
    BY <1>31 DEF BackendDies, Fault
  <1>32. CASE AdapterComesOrGoes
    BY <1>32 DEF AdapterComesOrGoes, Fault, NoThreadMoves, AdaptersChange
  <1>33. CASE LadderAsks
    BY <1>33 DEF LadderAsks, Fault, NoThreadMoves
  <1> QED BY <1>1, <1>2, <1>3, <1>4, <1>5, <1>6, <1>7, <1>8, <1>9, <1>10, <1>11, <1>12, <1>13, <1>14, <1>15, <1>16, <1>17, <1>18, <1>19, <1>20, <1>21, <1>22, <1>23, <1>24, <1>25, <1>26, <1>27, <1>28, <1>29, <1>30, <1>31, <1>32, <1>33
      DEF Next, Capturing, Rebuild, Watch, Command, Environment

LEMMA SameRecords ==
  ASSUME NEW r \in PipelineTypes, NEW s \in PipelineTypes,
         r.file = s.file, r.running = s.running, r.paused = s.paused, r.epoch = s.epoch, r.wants = s.wants
  PROVE  r = s
  BY DEF PipelineTypes

LEMMA NothingStops == [NoPipeline EXCEPT !.running = FALSE] = NoPipeline
  <1>1. NoPipeline \in PipelineTypes /\ NoPipeline.running = FALSE
    BY DEF NoPipeline, PipelineTypes
  <1>2. ASSUME NEW n \in PipelineTypes, n.running = FALSE
        PROVE  [n EXCEPT !.running = FALSE] = n
    <2>1. [n EXCEPT !.running = FALSE] \in PipelineTypes
      BY DEF PipelineTypes
    <2> QED BY <1>2, <2>1, SameRecords DEF PipelineTypes
  <1> QED BY <1>1, <1>2

LEMMA PipelineHolds ==
  ASSUME SessionTypes, PipelineInv, AnswerInv, Next
  PROVE  PipelineInv'
  <1> USE DEF captureVars, requestVars, commandVars, fileVars, faultVars, sessionVars, watcherVars, PipelineInv, PipelineTypes, NoPipeline, CapturePlaces, InRebuild
  <1>0. pipeline \in PipelineTypes /\ stopRequested \in BOOLEAN /\ capture \in CapturePlaces /\ command \in CommandPlaces
    BY DEF SessionTypes, PlaceTypes, FlagTypes, FileTypes
  <1>1. CASE Top
    BY <1>1, <1>0 DEF Top, CaptureAt, CaptureOnly
  <1>2. CASE PublishAlive
    BY <1>2, <1>0 DEF PublishAlive, CaptureAt, CaptureOnly, PublishRunning
  <1>3. CASE PublishObserved
    BY <1>3, <1>0 DEF PublishObserved, CaptureAt, CaptureOnly
  <1>4. CASE AcquireFrame
    BY <1>4, <1>0 DEF AcquireFrame, CaptureAt, CaptureOnly, MaySubmit
  <1>5. CASE RebuildBegins
    BY <1>5, <1>0 DEF RebuildBegins, CaptureAt, CaptureOnly
  <1>6. CASE Teardown
    BY <1>6, <1>0 DEF Teardown, CaptureAt, CaptureOnly
  <1>7. CASE Discover
    BY <1>7, <1>0 DEF Discover, CaptureAt, CaptureOnly, RefreshAndChoose
  <1>8. CASE CreateDevice
    BY <1>8, <1>0 DEF CreateDevice, CaptureAt, DxgiIsUsed
  <1>9. CASE RebuildPipeline
    BY <1>9, <1>0 DEF RebuildPipeline, CaptureAt, CaptureOnly
  <1>10. CASE CloseFile
    <2>1. /\ pipeline' = NoPipeline /\ pipeline'.file = 0 /\ capture = "rollover" /\ capture' = "open"
          /\ command' = command /\ command \notin {"pausing", "resuming"}
      BY <1>10 DEF CloseFile, CaptureAt, CaptureOnly
    <2>2. command' \notin {"pausing", "resuming"}
      BY <2>1
    <2>3. /\ pipeline'.file = 0 <=> pipeline' = NoPipeline
          /\ capture' = "open" /\ pipeline'.file = 0
      BY <2>1, Zenon
    <2> QED BY <2>1, <2>2, <2>3
  <1>11. CASE OpenFile
    <2>1. /\ pipeline'.file = Len(files) + 1 /\ pipeline'.running /\ ~pipeline.running
          /\ capture = "open" /\ capture' = "restart" /\ UNCHANGED command /\ Len(files) \in Nat
      BY <1>11 DEF OpenFile, CaptureAt, CaptureOnly, Started, SessionTypes, FileTypes
    <2>2. pipeline'.file # 0 /\ pipeline' # NoPipeline
      BY <2>1
    <2>3. command \notin {"pausing", "resuming"}
      BY <2>1
    <2> QED BY <2>1, <2>2, <2>3
  <1>12. CASE RestartCapture
    BY <1>12, <1>0 DEF RestartCapture, CaptureAt, CaptureOnly
  <1>13. CASE AcknowledgeChange
    BY <1>13, <1>0 DEF AcknowledgeChange, CaptureAt, CaptureOnly, Acknowledge
  <1>14. CASE RebuildEnds
    BY <1>14, <1>0 DEF RebuildEnds, CaptureAt, CaptureOnly
  <1>15. CASE RebuildFails
    BY <1>15, <1>0 DEF RebuildFails, CaptureAt, CaptureOnly
  <1>16. CASE WatchPolls
    BY <1>16, <1>0 DEF WatchPolls, Poll, WatchOnly, NothingInProgress
  <1>17. CASE WatchEvaluates
    <2>1. WatchOnly /\ UNCHANGED <<pending, rebuilding>> /\ UNCHANGED watcherVars
          /\ (stopRequested' = stopRequested \/ stopRequested' = TRUE)
      BY <1>17, EvaluateChooses, Zenon
    <2> QED BY <2>1, <1>0 DEF WatchOnly
  <1>18. CASE WatchRequests
    BY <1>18, <1>0 DEF WatchRequests, WatchOnly
  <1>19. CASE WatchEnds
    BY <1>19, <1>0 DEF WatchEnds, WatchOnly
  <1>20. CASE PauseShutsGate
    BY <1>20, <1>0 DEF PauseShutsGate, CommandAt, CommandOnly
  <1>21. CASE PausePipeline
    BY <1>21, <1>0 DEF PausePipeline, CommandAt, CommandOnly
  <1>22. CASE ResumePipeline
    BY <1>22, <1>0 DEF ResumePipeline, CommandAt, CommandOnly
  <1>23. CASE ResumeOpensGate
    BY <1>23, <1>0 DEF ResumeOpensGate, CommandAt, CommandOnly
  <1>24. CASE StopBegins
    BY <1>24, <1>0 DEF StopBegins, CommandAt, CommandOnly
  <1>25. CASE StopJoinsWatch
    BY <1>25, <1>0 DEF StopJoinsWatch, CommandAt, CommandOnly
  <1>26. CASE StopJoinsCapture
    BY <1>26, <1>0 DEF StopJoinsCapture, CommandAt, CommandOnly
  <1>27. CASE StopAnswers
    <2>1. /\ command = "finalize" /\ command' = "done" /\ UNCHANGED <<capture, stopRequested, abandoned>>
          /\ pipeline' = [pipeline EXCEPT !.running = FALSE]
      BY <1>27 DEF StopAnswers, CommandAt, CommandOnly
    <2>2. /\ pipeline'.file = pipeline.file /\ ~pipeline'.running
      BY <1>0, <2>1
    <2>9. pipeline = NoPipeline => pipeline' = NoPipeline
      BY <2>1, NothingStops, Zenon
    <2> QED BY <2>1, <2>2, <2>9
  <1>28. CASE DeviceFails
    BY <1>28, <1>0 DEF DeviceFails, Fault, NoThreadMoves
  <1>29. CASE InjectDeviceError
    BY <1>29, <1>0 DEF InjectDeviceError, NoThreadMoves, ReportDeviceError
  <1>30. CASE ReportsSettle
    BY <1>30, <1>0 DEF ReportsSettle, SettleEnds
  <1>31. CASE BackendDies
    BY <1>31, <1>0 DEF BackendDies, Fault
  <1>32. CASE AdapterComesOrGoes
    BY <1>32, <1>0 DEF AdapterComesOrGoes, Fault, NoThreadMoves, AdaptersChange
  <1>33. CASE LadderAsks
    BY <1>33, <1>0 DEF LadderAsks, Fault, NoThreadMoves
  <1> QED BY <1>1, <1>2, <1>3, <1>4, <1>5, <1>6, <1>7, <1>8, <1>9, <1>10, <1>11, <1>12, <1>13, <1>14, <1>15, <1>16, <1>17, <1>18, <1>19, <1>20, <1>21, <1>22, <1>23, <1>24, <1>25, <1>26, <1>27, <1>28, <1>29, <1>30, <1>31, <1>32, <1>33
      DEF Next, Capturing, Rebuild, Watch, Command, Environment

LEMMA AnswersHold ==
  ASSUME SessionTypes, PipelineInv, AnswerInv, Next
  PROVE  AnswerInv'
  <1> USE DEF captureVars, requestVars, commandVars, fileVars, faultVars, sessionVars, watcherVars, AnswerInv, PipelineTypes, NoPipeline
  <1>0. pipeline \in PipelineTypes /\ files \in Seq(FileStates) /\ capture \in CapturePlaces
        /\ command \in CommandPlaces /\ abandoned \in BOOLEAN
    BY DEF SessionTypes, PlaceTypes, FlagTypes, FileTypes
  <1>1. CASE Top
    BY <1>1, <1>0 DEF Top, CaptureAt, CaptureOnly
  <1>2. CASE PublishAlive
    BY <1>2, <1>0 DEF PublishAlive, CaptureAt, CaptureOnly, PublishRunning
  <1>3. CASE PublishObserved
    BY <1>3, <1>0 DEF PublishObserved, CaptureAt, CaptureOnly
  <1>4. CASE AcquireFrame
    BY <1>4, <1>0 DEF AcquireFrame, CaptureAt, CaptureOnly, MaySubmit
  <1>5. CASE RebuildBegins
    BY <1>5, <1>0 DEF RebuildBegins, CaptureAt, CaptureOnly
  <1>6. CASE Teardown
    BY <1>6, <1>0 DEF Teardown, CaptureAt, CaptureOnly
  <1>7. CASE Discover
    BY <1>7, <1>0 DEF Discover, CaptureAt, CaptureOnly, RefreshAndChoose
  <1>8. CASE CreateDevice
    BY <1>8, <1>0 DEF CreateDevice, CaptureAt, DxgiIsUsed
  <1>9. CASE RebuildPipeline
    BY <1>9, <1>0 DEF RebuildPipeline, CaptureAt, CaptureOnly
  <1>10. CASE CloseFile
    BY <1>10, <1>0 DEF CloseFile, CaptureAt, CaptureOnly, FinalizeFile
  <1>11. CASE OpenFile
    <2>1. /\ pipeline'.file = Len(files) + 1 /\ pipeline'.running /\ files' = Append(files, "open")
          /\ capture = "open" /\ ~abandoned /\ UNCHANGED <<command, abandoned>>
      BY <1>11 DEF OpenFile, CaptureAt, CaptureOnly, Started, commandVars
    <2>2. command \notin {"finalize", "done"}
      BY <2>1
    <2>3. \A k \in DOMAIN files : files[k] # "open"
      BY <1>0, <2>1 DEF PipelineInv
    <2>4. DOMAIN files' = 1 .. Len(files) + 1 /\ DOMAIN files = 1 .. Len(files) /\ Len(files) \in Nat
          /\ \A k \in DOMAIN files : files'[k] = files[k]
      BY <1>0, <2>1
    <2> QED BY <2>1, <2>2, <2>3, <2>4
  <1>12. CASE RestartCapture
    BY <1>12, <1>0 DEF RestartCapture, CaptureAt, CaptureOnly
  <1>13. CASE AcknowledgeChange
    BY <1>13, <1>0 DEF AcknowledgeChange, CaptureAt, CaptureOnly, Acknowledge
  <1>14. CASE RebuildEnds
    BY <1>14, <1>0 DEF RebuildEnds, CaptureAt, CaptureOnly
  <1>15. CASE RebuildFails
    BY <1>15, <1>0 DEF RebuildFails, CaptureAt, CaptureOnly
  <1>16. CASE WatchPolls
    BY <1>16, <1>0 DEF WatchPolls, Poll, WatchOnly, NothingInProgress
  <1>17. CASE WatchEvaluates
    <2>1. WatchOnly /\ UNCHANGED <<pending, rebuilding>> /\ UNCHANGED watcherVars
          /\ (stopRequested' = stopRequested \/ stopRequested' = TRUE)
      BY <1>17, EvaluateChooses, Zenon
    <2> QED BY <2>1, <1>0 DEF WatchOnly
  <1>18. CASE WatchRequests
    BY <1>18, <1>0 DEF WatchRequests, WatchOnly
  <1>19. CASE WatchEnds
    BY <1>19, <1>0 DEF WatchEnds, WatchOnly
  <1>20. CASE PauseShutsGate
    BY <1>20, <1>0 DEF PauseShutsGate, CommandAt, CommandOnly
  <1>21. CASE PausePipeline
    BY <1>21, <1>0 DEF PausePipeline, CommandAt, CommandOnly
  <1>22. CASE ResumePipeline
    BY <1>22, <1>0 DEF ResumePipeline, CommandAt, CommandOnly
  <1>23. CASE ResumeOpensGate
    BY <1>23, <1>0 DEF ResumeOpensGate, CommandAt, CommandOnly
  <1>24. CASE StopBegins
    BY <1>24, <1>0 DEF StopBegins, CommandAt, CommandOnly
  <1>25. CASE StopJoinsWatch
    BY <1>25, <1>0 DEF StopJoinsWatch, CommandAt, CommandOnly
  <1>26. CASE StopJoinsCapture
    BY <1>26, <1>0 DEF StopJoinsCapture, CommandAt, CommandOnly
  <1>27. CASE StopAnswers
    <2>1. /\ command = "finalize" /\ command' = "done" /\ UNCHANGED <<capture, stopRequested, abandoned>>
          /\ pipeline' = [pipeline EXCEPT !.running = FALSE]
      BY <1>27 DEF StopAnswers, CommandAt, CommandOnly
    <2>2. /\ pipeline'.file = pipeline.file /\ ~pipeline'.running
      BY <1>0, <2>1
    <2>9. pipeline = NoPipeline => pipeline' = NoPipeline
      BY <2>1, NothingStops, Zenon
    <2>3. CASE files' = files /\ ~pipeline.running
      <3>1. ~abandoned => \A k \in DOMAIN files : files[k] # "open"
        BY <1>0, <2>1, <2>3 DEF PipelineInv
      <3> QED BY <2>1, <2>2, <2>3, <3>1
    <2>4. ASSUME NEW state \in {"final", "broken"}, files' = [files EXCEPT ![pipeline.file] = state]
          PROVE  AnswerInv'
      <3>1. /\ DOMAIN files' = DOMAIN files
            /\ pipeline.file \in DOMAIN files => files'[pipeline.file] = state
            /\ \A j \in DOMAIN files : j # pipeline.file => files'[j] = files[j]
        BY <1>0, <2>4, FileCloses DEF FileStates
      <3>2. \A k \in DOMAIN files' : files'[k] # "open"
        BY <2>4, <3>1
      <3> QED BY <2>1, <2>2, <3>2
    <2> QED BY <1>27, <2>3, <2>4 DEF StopAnswers
  <1>28. CASE DeviceFails
    BY <1>28, <1>0 DEF DeviceFails, Fault, NoThreadMoves
  <1>29. CASE InjectDeviceError
    BY <1>29, <1>0 DEF InjectDeviceError, NoThreadMoves, ReportDeviceError
  <1>30. CASE ReportsSettle
    BY <1>30, <1>0 DEF ReportsSettle, SettleEnds
  <1>31. CASE BackendDies
    BY <1>31, <1>0 DEF BackendDies, Fault
  <1>32. CASE AdapterComesOrGoes
    BY <1>32, <1>0 DEF AdapterComesOrGoes, Fault, NoThreadMoves, AdaptersChange
  <1>33. CASE LadderAsks
    BY <1>33, <1>0 DEF LadderAsks, Fault, NoThreadMoves
  <1> QED BY <1>1, <1>2, <1>3, <1>4, <1>5, <1>6, <1>7, <1>8, <1>9, <1>10, <1>11, <1>12, <1>13, <1>14, <1>15, <1>16, <1>17, <1>18, <1>19, <1>20, <1>21, <1>22, <1>23, <1>24, <1>25, <1>26, <1>27, <1>28, <1>29, <1>30, <1>31, <1>32, <1>33
      DEF Next, Capturing, Rebuild, Watch, Command, Environment

LEMMA PausesHold ==
  ASSUME SessionTypes, PipelineInv, PauseInv, Next
  PROVE  PauseInv'
  <1> USE DEF captureVars, requestVars, commandVars, fileVars, faultVars, sessionVars, watcherVars, PauseInv, PauseSurvivesRollover, PipelineTypes, NoPipeline, CommandPlaces
  <1>0. pipeline \in PipelineTypes /\ command \in CommandPlaces /\ paused \in BOOLEAN
    BY DEF SessionTypes, PlaceTypes, FlagTypes, FileTypes
  <1>1. CASE Top
    BY <1>1, <1>0 DEF Top, CaptureAt, CaptureOnly
  <1>2. CASE PublishAlive
    BY <1>2, <1>0 DEF PublishAlive, CaptureAt, CaptureOnly, PublishRunning
  <1>3. CASE PublishObserved
    BY <1>3, <1>0 DEF PublishObserved, CaptureAt, CaptureOnly
  <1>4. CASE AcquireFrame
    BY <1>4, <1>0 DEF AcquireFrame, CaptureAt, CaptureOnly, MaySubmit
  <1>5. CASE RebuildBegins
    BY <1>5, <1>0 DEF RebuildBegins, CaptureAt, CaptureOnly
  <1>6. CASE Teardown
    BY <1>6, <1>0 DEF Teardown, CaptureAt, CaptureOnly
  <1>7. CASE Discover
    BY <1>7, <1>0 DEF Discover, CaptureAt, CaptureOnly, RefreshAndChoose
  <1>8. CASE CreateDevice
    BY <1>8, <1>0 DEF CreateDevice, CaptureAt, DxgiIsUsed
  <1>9. CASE RebuildPipeline
    BY <1>9, <1>0 DEF RebuildPipeline, CaptureAt, CaptureOnly
  <1>10. CASE CloseFile
    BY <1>10, <1>0 DEF CloseFile, CaptureAt, CaptureOnly, FinalizeFile
  <1>11. CASE OpenFile
    <2>1. /\ ~pipeline'.paused /\ ~pipeline'.epoch /\ UNCHANGED <<command, paused>>
      BY <1>11 DEF OpenFile, CaptureOnly, Started
    <2> QED BY <1>0, <2>1
  <1>12. CASE RestartCapture
    BY <1>12, <1>0 DEF RestartCapture, CaptureAt, CaptureOnly
  <1>13. CASE AcknowledgeChange
    BY <1>13, <1>0 DEF AcknowledgeChange, CaptureAt, CaptureOnly, Acknowledge
  <1>14. CASE RebuildEnds
    BY <1>14, <1>0 DEF RebuildEnds, CaptureAt, CaptureOnly
  <1>15. CASE RebuildFails
    BY <1>15, <1>0 DEF RebuildFails, CaptureAt, CaptureOnly
  <1>16. CASE WatchPolls
    BY <1>16, <1>0 DEF WatchPolls, Poll, WatchOnly, NothingInProgress
  <1>17. CASE WatchEvaluates
    <2>1. WatchOnly /\ UNCHANGED <<pending, rebuilding>> /\ UNCHANGED watcherVars
          /\ (stopRequested' = stopRequested \/ stopRequested' = TRUE)
      BY <1>17, EvaluateChooses, Zenon
    <2> QED BY <2>1, <1>0 DEF WatchOnly
  <1>18. CASE WatchRequests
    BY <1>18, <1>0 DEF WatchRequests, WatchOnly
  <1>19. CASE WatchEnds
    BY <1>19, <1>0 DEF WatchEnds, WatchOnly
  <1>20. CASE PauseShutsGate
    BY <1>20, <1>0 DEF PauseShutsGate, CommandAt, CommandOnly
  <1>21. CASE PausePipeline
    BY <1>21, <1>0 DEF PausePipeline, CommandAt, CommandOnly
  <1>22. CASE ResumePipeline
    BY <1>22, <1>0 DEF ResumePipeline, CommandAt, CommandOnly
  <1>23. CASE ResumeOpensGate
    BY <1>23, <1>0 DEF ResumeOpensGate, CommandAt, CommandOnly
  <1>24. CASE StopBegins
    BY <1>24, <1>0 DEF StopBegins, CommandAt, CommandOnly
  <1>25. CASE StopJoinsWatch
    BY <1>25, <1>0 DEF StopJoinsWatch, CommandAt, CommandOnly
  <1>26. CASE StopJoinsCapture
    BY <1>26, <1>0 DEF StopJoinsCapture, CommandAt, CommandOnly
  <1>27. CASE StopAnswers
    BY <1>27, <1>0 DEF StopAnswers, CommandAt, CommandOnly
  <1>28. CASE DeviceFails
    BY <1>28, <1>0 DEF DeviceFails, Fault, NoThreadMoves
  <1>29. CASE InjectDeviceError
    BY <1>29, <1>0 DEF InjectDeviceError, NoThreadMoves, ReportDeviceError
  <1>30. CASE ReportsSettle
    BY <1>30, <1>0 DEF ReportsSettle, SettleEnds
  <1>31. CASE BackendDies
    BY <1>31, <1>0 DEF BackendDies, Fault
  <1>32. CASE AdapterComesOrGoes
    BY <1>32, <1>0 DEF AdapterComesOrGoes, Fault, NoThreadMoves, AdaptersChange
  <1>33. CASE LadderAsks
    BY <1>33, <1>0 DEF LadderAsks, Fault, NoThreadMoves
  <1> QED BY <1>1, <1>2, <1>3, <1>4, <1>5, <1>6, <1>7, <1>8, <1>9, <1>10, <1>11, <1>12, <1>13, <1>14, <1>15, <1>16, <1>17, <1>18, <1>19, <1>20, <1>21, <1>22, <1>23, <1>24, <1>25, <1>26, <1>27, <1>28, <1>29, <1>30, <1>31, <1>32, <1>33
      DEF Next, Capturing, Rebuild, Watch, Command, Environment

LEMMA BackendHolds ==
  ASSUME SessionTypes, BackendInv, Next
  PROVE  BackendInv'
  <1> USE DEF captureVars, requestVars, commandVars, fileVars, faultVars, sessionVars, watcherVars, BackendInv, CapturePlaces, InRebuild, FlagTypes
  <1>0. capture \in CapturePlaces /\ FlagTypes /\ backend \in {"none", "up", "dead"}
    BY DEF SessionTypes, PlaceTypes, RestTypes
  <1>1. CASE Top
    BY <1>1, <1>0 DEF Top, CaptureAt, CaptureOnly
  <1>2. CASE PublishAlive
    BY <1>2, <1>0 DEF PublishAlive, CaptureAt, CaptureOnly, PublishRunning
  <1>3. CASE PublishObserved
    BY <1>3, <1>0 DEF PublishObserved, CaptureAt, CaptureOnly
  <1>4. CASE AcquireFrame
    BY <1>4, <1>0 DEF AcquireFrame, CaptureAt, CaptureOnly, MaySubmit
  <1>5. CASE RebuildBegins
    BY <1>5, <1>0 DEF RebuildBegins, CaptureAt, CaptureOnly
  <1>6. CASE Teardown
    BY <1>6, <1>0 DEF Teardown, CaptureAt, CaptureOnly
  <1>7. CASE Discover
    BY <1>7, <1>0 DEF Discover, CaptureAt, CaptureOnly, RefreshAndChoose
  <1>8. CASE CreateDevice
    BY <1>8, <1>0 DEF CreateDevice, CaptureAt, DxgiIsUsed
  <1>9. CASE RebuildPipeline
    BY <1>9, <1>0 DEF RebuildPipeline, CaptureAt, CaptureOnly
  <1>10. CASE CloseFile
    BY <1>10, <1>0 DEF CloseFile, CaptureAt, CaptureOnly, FinalizeFile
  <1>11. CASE OpenFile
    BY <1>11, <1>0 DEF OpenFile, CaptureAt, CaptureOnly
  <1>12. CASE RestartCapture
    BY <1>12, <1>0 DEF RestartCapture, CaptureAt, CaptureOnly
  <1>13. CASE AcknowledgeChange
    BY <1>13, <1>0 DEF AcknowledgeChange, CaptureAt, CaptureOnly, Acknowledge
  <1>14. CASE RebuildEnds
    BY <1>14, <1>0 DEF RebuildEnds, CaptureAt, CaptureOnly
  <1>15. CASE RebuildFails
    BY <1>15, <1>0 DEF RebuildFails, CaptureAt, CaptureOnly
  <1>16. CASE WatchPolls
    BY <1>16, <1>0 DEF WatchPolls, Poll, WatchOnly, NothingInProgress
  <1>17. CASE WatchEvaluates
    <2>1. WatchOnly /\ UNCHANGED <<pending, rebuilding>> /\ UNCHANGED watcherVars
          /\ (stopRequested' = stopRequested \/ stopRequested' = TRUE)
      BY <1>17, EvaluateChooses, Zenon
    <2> QED BY <2>1, <1>0 DEF WatchOnly
  <1>18. CASE WatchRequests
    BY <1>18, <1>0 DEF WatchRequests, WatchOnly
  <1>19. CASE WatchEnds
    BY <1>19, <1>0 DEF WatchEnds, WatchOnly
  <1>20. CASE PauseShutsGate
    BY <1>20, <1>0 DEF PauseShutsGate, CommandAt, CommandOnly
  <1>21. CASE PausePipeline
    BY <1>21, <1>0 DEF PausePipeline, CommandAt, CommandOnly
  <1>22. CASE ResumePipeline
    BY <1>22, <1>0 DEF ResumePipeline, CommandAt, CommandOnly
  <1>23. CASE ResumeOpensGate
    BY <1>23, <1>0 DEF ResumeOpensGate, CommandAt, CommandOnly
  <1>24. CASE StopBegins
    BY <1>24, <1>0 DEF StopBegins, CommandAt, CommandOnly
  <1>25. CASE StopJoinsWatch
    BY <1>25, <1>0 DEF StopJoinsWatch, CommandAt, CommandOnly
  <1>26. CASE StopJoinsCapture
    BY <1>26, <1>0 DEF StopJoinsCapture, CommandAt, CommandOnly
  <1>27. CASE StopAnswers
    BY <1>27, <1>0 DEF StopAnswers, CommandAt, CommandOnly
  <1>28. CASE DeviceFails
    BY <1>28, <1>0 DEF DeviceFails, Fault, NoThreadMoves
  <1>29. CASE InjectDeviceError
    BY <1>29, <1>0 DEF InjectDeviceError, NoThreadMoves, ReportDeviceError
  <1>30. CASE ReportsSettle
    BY <1>30, <1>0 DEF ReportsSettle, SettleEnds
  <1>31. CASE BackendDies
    BY <1>31, <1>0 DEF BackendDies, Fault
  <1>32. CASE AdapterComesOrGoes
    BY <1>32, <1>0 DEF AdapterComesOrGoes, Fault, NoThreadMoves, AdaptersChange
  <1>33. CASE LadderAsks
    BY <1>33, <1>0 DEF LadderAsks, Fault, NoThreadMoves
  <1> QED BY <1>1, <1>2, <1>3, <1>4, <1>5, <1>6, <1>7, <1>8, <1>9, <1>10, <1>11, <1>12, <1>13, <1>14, <1>15, <1>16, <1>17, <1>18, <1>19, <1>20, <1>21, <1>22, <1>23, <1>24, <1>25, <1>26, <1>27, <1>28, <1>29, <1>30, <1>31, <1>32, <1>33
      DEF Next, Capturing, Rebuild, Watch, Command, Environment

LEMMA RequestsHold ==
  ASSUME "pollInTheWindow" \in Excluded, SessionTypes, BackendInv, RequestInv, ReportInv, Next
  PROVE  RequestInv'
  <1> USE DEF captureVars, requestVars, commandVars, fileVars, faultVars, sessionVars, watcherVars, RequestInv, CapturePlaces, InRebuild, FlagTypes, WatchTypes, BackendInv
  <1>0. /\ watch \in WatchTypes /\ stack \in Nat \ {0} /\ capture \in CapturePlaces /\ FlagTypes
        /\ reported \in Report
    BY DEF SessionTypes, PlaceTypes, StackTypes
  <1>1. CASE Top
    BY <1>1, <1>0 DEF Top, CaptureAt, CaptureOnly
  <1>2. CASE PublishAlive
    BY <1>2, <1>0 DEF PublishAlive, CaptureAt, CaptureOnly, PublishRunning
  <1>3. CASE PublishObserved
    BY <1>3, <1>0 DEF PublishObserved, CaptureAt, CaptureOnly
  <1>4. CASE AcquireFrame
    BY <1>4, <1>0 DEF AcquireFrame, CaptureAt, CaptureOnly, MaySubmit
  <1>5. CASE RebuildBegins
    BY <1>5, <1>0 DEF RebuildBegins, CaptureAt, CaptureOnly
  <1>6. CASE Teardown
    BY <1>6, <1>0 DEF Teardown, CaptureAt, CaptureOnly
  <1>7. CASE Discover
    BY <1>7, <1>0 DEF Discover, CaptureAt, CaptureOnly, RefreshAndChoose
  <1>8. CASE CreateDevice
    BY <1>8, <1>0 DEF CreateDevice, CaptureAt, DxgiIsUsed
  <1>9. CASE RebuildPipeline
    BY <1>9, <1>0 DEF RebuildPipeline, CaptureAt, CaptureOnly
  <1>10. CASE CloseFile
    BY <1>10, <1>0 DEF CloseFile, CaptureAt, CaptureOnly, FinalizeFile
  <1>11. CASE OpenFile
    BY <1>11, <1>0 DEF OpenFile, CaptureAt, CaptureOnly
  <1>12. CASE RestartCapture
    BY <1>12, <1>0 DEF RestartCapture, CaptureAt, CaptureOnly
  <1>13. CASE AcknowledgeChange
    BY <1>13, <1>0 DEF AcknowledgeChange, CaptureAt, CaptureOnly, Acknowledge
  <1>14. CASE RebuildEnds
    BY <1>14, <1>0 DEF RebuildEnds, CaptureAt, CaptureOnly
  <1>15. CASE RebuildFails
    BY <1>15, <1>0 DEF RebuildFails, CaptureAt, CaptureOnly
  <1>16. CASE WatchPolls
    <2>1. /\ ~pending /\ ~rebuilding /\ ~stopRequested /\ capture # "taken"
          /\ watch' = [at |-> "evaluate", report |-> Polled(stack)]
          /\ WatchOnly /\ UNCHANGED <<requestVars, stopRequested>>
      BY <1>16 DEF WatchPolls, NothingInProgress
    <2>2. Polled(stack).change # "none" => Polled(stack).stack = stack
      <3>1. /\ current \/ baseline # adapters
            /\ reported.change # "none" => reported.stack = stack
        BY <1>0, <2>1 DEF ReportInv, BackendInv, OnTheNewDevice
      <3>2. CASE current /\ baseline = adapters
        BY <1>0, <3>1, <3>2, PolledReport
      <3>3. CASE baseline # adapters
        BY <1>0, <3>1, <3>3, PolledReport
      <3> QED BY <1>0, <3>1, <3>2, <3>3
    <2>3. UNCHANGED <<capture, pending, rebuilding, evidence, stack>>
      BY <2>1 DEF WatchOnly
    <2> QED BY <2>1, <2>2, <2>3
  <1>17. CASE WatchEvaluates
    <2>1. /\ watch.at = "evaluate" /\ WatchOnly /\ UNCHANGED watcherVars /\ UNCHANGED <<pending, rebuilding>>
          /\ (stopRequested' = stopRequested \/ stopRequested' = TRUE)
      BY <1>17, EvaluateChooses, Zenon
    <2>2. \/ watch'.at = "waiting"
          \/ watch'.at = "request" /\ evidence' = stack
      <3>1. CASE watch.report.change # "none" /\ Request(watch.report.stack)
        BY <1>0, <2>1, <3>1 DEF Request
      <3>2. CASE Request(stack)
        BY <1>0, <3>2 DEF Request
      <3>3. CASE BackendDied /\ Request(IF backend = "dead" THEN stack ELSE 0)
        <4>1. backend = "dead"
          BY <3>3 DEF BackendDied, BackendInv
        <4> QED BY <1>0, <3>3, <4>1 DEF Request
      <3>4. CASE watch' = [watch EXCEPT !.at = "waiting"]
        BY <1>0, <3>4
      <3> QED BY <1>17, EvaluateChooses, <3>1, <3>2, <3>3, <3>4, Zenon
    <2> QED BY <1>0, <2>1, <2>2 DEF WatchOnly
  <1>18. CASE WatchRequests
    BY <1>18, <1>0 DEF WatchRequests, WatchOnly
  <1>19. CASE WatchEnds
    BY <1>19, <1>0 DEF WatchEnds, WatchOnly
  <1>20. CASE PauseShutsGate
    BY <1>20, <1>0 DEF PauseShutsGate, CommandAt, CommandOnly
  <1>21. CASE PausePipeline
    BY <1>21, <1>0 DEF PausePipeline, CommandAt, CommandOnly
  <1>22. CASE ResumePipeline
    BY <1>22, <1>0 DEF ResumePipeline, CommandAt, CommandOnly
  <1>23. CASE ResumeOpensGate
    BY <1>23, <1>0 DEF ResumeOpensGate, CommandAt, CommandOnly
  <1>24. CASE StopBegins
    BY <1>24, <1>0 DEF StopBegins, CommandAt, CommandOnly
  <1>25. CASE StopJoinsWatch
    BY <1>25, <1>0 DEF StopJoinsWatch, CommandAt, CommandOnly
  <1>26. CASE StopJoinsCapture
    BY <1>26, <1>0 DEF StopJoinsCapture, CommandAt, CommandOnly
  <1>27. CASE StopAnswers
    BY <1>27, <1>0 DEF StopAnswers, CommandAt, CommandOnly
  <1>28. CASE DeviceFails
    BY <1>28, <1>0 DEF DeviceFails, Fault, NoThreadMoves
  <1>29. CASE InjectDeviceError
    BY <1>29, <1>0 DEF InjectDeviceError, NoThreadMoves, ReportDeviceError
  <1>30. CASE ReportsSettle
    BY <1>30, <1>0 DEF ReportsSettle, SettleEnds
  <1>31. CASE BackendDies
    BY <1>31, <1>0 DEF BackendDies, Fault
  <1>32. CASE AdapterComesOrGoes
    BY <1>32, <1>0 DEF AdapterComesOrGoes, Fault, NoThreadMoves, AdaptersChange
  <1>33. CASE LadderAsks
    BY <1>33, <1>0 DEF LadderAsks, Fault, NoThreadMoves
  <1> QED BY <1>1, <1>2, <1>3, <1>4, <1>5, <1>6, <1>7, <1>8, <1>9, <1>10, <1>11, <1>12, <1>13, <1>14, <1>15, <1>16, <1>17, <1>18, <1>19, <1>20, <1>21, <1>22, <1>23, <1>24, <1>25, <1>26, <1>27, <1>28, <1>29, <1>30, <1>31, <1>32, <1>33
      DEF Next, Capturing, Rebuild, Watch, Command, Environment

LEMMA ReportsHold ==
  ASSUME SessionTypes, ReportInv, Next
  PROVE  ReportInv'
  <1> USE DEF captureVars, requestVars, commandVars, fileVars, faultVars, sessionVars, watcherVars, ReportInv, OnTheNewDevice, CapturePlaces, InRebuild, FlagTypes, NoReport
  <1>0. /\ stack \in Nat \ {0} /\ capture \in CapturePlaces /\ FlagTypes /\ reported \in Report
        /\ adapters \in Nat /\ baseline \in Nat /\ baseline <= adapters /\ late \subseteq 1 .. stack
    BY DEF SessionTypes, PlaceTypes, StackTypes
  <1>1. CASE Top
    BY <1>1, <1>0 DEF Top, CaptureAt, CaptureOnly
  <1>2. CASE PublishAlive
    BY <1>2, <1>0 DEF PublishAlive, CaptureAt, CaptureOnly, PublishRunning
  <1>3. CASE PublishObserved
    BY <1>3, <1>0 DEF PublishObserved, CaptureAt, CaptureOnly
  <1>4. CASE AcquireFrame
    BY <1>4, <1>0 DEF AcquireFrame, CaptureAt, CaptureOnly, MaySubmit
  <1>5. CASE RebuildBegins
    BY <1>5, <1>0 DEF RebuildBegins, CaptureAt, CaptureOnly
  <1>6. CASE Teardown
    BY <1>6, <1>0 DEF Teardown, CaptureAt, CaptureOnly
  <1>7. CASE Discover
    BY <1>7, <1>0 DEF Discover, CaptureAt, CaptureOnly, RefreshAndChoose
  <1>8. CASE CreateDevice
    BY <1>8, <1>0 DEF CreateDevice, CaptureAt, DxgiIsUsed
  <1>9. CASE RebuildPipeline
    BY <1>9, <1>0 DEF RebuildPipeline, CaptureAt, CaptureOnly
  <1>10. CASE CloseFile
    BY <1>10, <1>0 DEF CloseFile, CaptureAt, CaptureOnly, FinalizeFile
  <1>11. CASE OpenFile
    BY <1>11, <1>0 DEF OpenFile, CaptureAt, CaptureOnly
  <1>12. CASE RestartCapture
    BY <1>12, <1>0 DEF RestartCapture, CaptureAt, CaptureOnly
  <1>13. CASE AcknowledgeChange
    BY <1>13, <1>0 DEF AcknowledgeChange, CaptureAt, CaptureOnly, Acknowledge
  <1>14. CASE RebuildEnds
    BY <1>14, <1>0 DEF RebuildEnds, CaptureAt, CaptureOnly
  <1>15. CASE RebuildFails
    BY <1>15, <1>0 DEF RebuildFails, CaptureAt, CaptureOnly
  <1>16. CASE WatchPolls
    BY <1>16, <1>0 DEF WatchPolls, Poll, WatchOnly, NothingInProgress
  <1>17. CASE WatchEvaluates
    <2>1. /\ watch.at = "evaluate" /\ WatchOnly /\ UNCHANGED watcherVars /\ UNCHANGED <<pending, rebuilding>>
          /\ (stopRequested' = stopRequested \/ stopRequested' = TRUE)
      BY <1>17, EvaluateChooses, Zenon
    <2> QED BY <1>0, <2>1 DEF WatchOnly
  <1>18. CASE WatchRequests
    BY <1>18, <1>0 DEF WatchRequests, WatchOnly
  <1>19. CASE WatchEnds
    BY <1>19, <1>0 DEF WatchEnds, WatchOnly
  <1>20. CASE PauseShutsGate
    BY <1>20, <1>0 DEF PauseShutsGate, CommandAt, CommandOnly
  <1>21. CASE PausePipeline
    BY <1>21, <1>0 DEF PausePipeline, CommandAt, CommandOnly
  <1>22. CASE ResumePipeline
    BY <1>22, <1>0 DEF ResumePipeline, CommandAt, CommandOnly
  <1>23. CASE ResumeOpensGate
    BY <1>23, <1>0 DEF ResumeOpensGate, CommandAt, CommandOnly
  <1>24. CASE StopBegins
    BY <1>24, <1>0 DEF StopBegins, CommandAt, CommandOnly
  <1>25. CASE StopJoinsWatch
    BY <1>25, <1>0 DEF StopJoinsWatch, CommandAt, CommandOnly
  <1>26. CASE StopJoinsCapture
    BY <1>26, <1>0 DEF StopJoinsCapture, CommandAt, CommandOnly
  <1>27. CASE StopAnswers
    BY <1>27, <1>0 DEF StopAnswers, CommandAt, CommandOnly
  <1>28. CASE DeviceFails
    BY <1>28, <1>0 DEF DeviceFails, Fault, NoThreadMoves
  <1>29. CASE InjectDeviceError
    <2>1. PICK s \in late, change \in {"access", "removed"} :
             ReportDeviceError(change, s) /\ late' = late
      BY <1>29 DEF InjectDeviceError, faultVars
    <2>2. /\ reported' = reported \/ (~settling /\ reported' = [change |-> change, stack |-> s])
          /\ UNCHANGED <<settling, current, baseline, adapters>>
      BY <2>1 DEF ReportDeviceError, MoreSevere
    <2>3. UNCHANGED <<stack, capture, stopRequested>> /\ late' \subseteq late
      BY <1>29, <2>1 DEF InjectDeviceError, NoThreadMoves
    <2>4. CASE stopRequested \/ capture \in OnTheNewDevice
      BY <2>3, <2>4
    <2>5. CASE /\ current \/ baseline # adapters
               /\ reported.change # "none" => reported.stack = stack
               /\ ~settling => late \subseteq {stack}
      <3>1. reported'.change # "none" => reported'.stack = stack
        BY <2>1, <2>2, <2>5
      <3> QED BY <2>2, <2>3, <2>5, <3>1
    <2> QED BY <2>4, <2>5
  <1>30. CASE ReportsSettle
    BY <1>30, <1>0 DEF ReportsSettle, SettleEnds
  <1>31. CASE BackendDies
    BY <1>31, <1>0 DEF BackendDies, Fault
  <1>32. CASE AdapterComesOrGoes
    BY <1>32, <1>0 DEF AdapterComesOrGoes, Fault, NoThreadMoves, AdaptersChange
  <1>33. CASE LadderAsks
    BY <1>33, <1>0 DEF LadderAsks, Fault, NoThreadMoves
  <1> QED BY <1>1, <1>2, <1>3, <1>4, <1>5, <1>6, <1>7, <1>8, <1>9, <1>10, <1>11, <1>12, <1>13, <1>14, <1>15, <1>16, <1>17, <1>18, <1>19, <1>20, <1>21, <1>22, <1>23, <1>24, <1>25, <1>26, <1>27, <1>28, <1>29, <1>30, <1>31, <1>32, <1>33
      DEF Next, Capturing, Rebuild, Watch, Command, Environment

LEMMA FollowHolds ==
  ASSUME Excluded = RaceNames, SessionTypes, BackendInv, RequestInv, FollowInv, Next
  PROVE  FollowInv'
  <1> USE DEF captureVars, requestVars, commandVars, fileVars, faultVars, sessionVars, watcherVars, FollowInv, AdaptersAreFollowed, OnTheNewDevice, CapturePlaces, InRebuild, FlagTypes, WatchTypes, RaceNames
  <1>0. /\ watch \in WatchTypes /\ capture \in CapturePlaces /\ FlagTypes /\ reported \in Report
        /\ stack \in Nat
    BY DEF SessionTypes, PlaceTypes, StackTypes
  <1>1. CASE Top
    BY <1>1, <1>0 DEF Top, CaptureAt, CaptureOnly
  <1>2. CASE PublishAlive
    BY <1>2, <1>0 DEF PublishAlive, CaptureAt, CaptureOnly, PublishRunning
  <1>3. CASE PublishObserved
    BY <1>3, <1>0 DEF PublishObserved, CaptureAt, CaptureOnly
  <1>4. CASE AcquireFrame
    BY <1>4, <1>0 DEF AcquireFrame, CaptureAt, CaptureOnly, MaySubmit
  <1>5. CASE RebuildBegins
    BY <1>5, <1>0 DEF RebuildBegins, CaptureAt, CaptureOnly
  <1>6. CASE Teardown
    BY <1>6, <1>0 DEF Teardown, CaptureAt, CaptureOnly
  <1>7. CASE Discover
    BY <1>7, <1>0 DEF BackendInv, RequestInv, Discover, CaptureAt, CaptureOnly, RefreshAndChoose
  <1>8. CASE CreateDevice
    BY <1>8, <1>0 DEF CreateDevice, CaptureAt, DxgiIsUsed
  <1>9. CASE RebuildPipeline
    BY <1>9, <1>0 DEF RebuildPipeline, CaptureAt, CaptureOnly
  <1>10. CASE CloseFile
    BY <1>10, <1>0 DEF CloseFile, CaptureAt, CaptureOnly, FinalizeFile
  <1>11. CASE OpenFile
    BY <1>11, <1>0 DEF OpenFile, CaptureAt, CaptureOnly
  <1>12. CASE RestartCapture
    BY <1>12, <1>0 DEF RestartCapture, CaptureAt, CaptureOnly
  <1>13. CASE AcknowledgeChange
    BY <1>13, <1>0 DEF AcknowledgeChange, CaptureAt, CaptureOnly, Acknowledge
  <1>14. CASE RebuildEnds
    BY <1>14, <1>0 DEF RebuildEnds, CaptureAt, CaptureOnly
  <1>15. CASE RebuildFails
    BY <1>15, <1>0 DEF RebuildFails, CaptureAt, CaptureOnly
  <1>16. CASE WatchPolls
    <2>1. /\ watch.at = "waiting" /\ ~pending /\ ~rebuilding /\ ~stopRequested /\ capture # "taken"
          /\ watch' = [at |-> "evaluate", report |-> Polled(stack)] /\ baseline' = adapters
          /\ UNCHANGED <<capture, selectedFrom, adapters, stopRequested>>
      BY <1>16 DEF WatchPolls, Poll, WatchOnly, NothingInProgress
    <2>2. baseline = selectedFrom /\ capture \notin InRebuild
      BY <2>1 DEF BackendInv
    <2>3. Polled(stack).change = "none" => baseline = adapters
      BY <1>0, PolledReport
    <2> QED BY <2>1, <2>2, <2>3
  <1>17. CASE WatchEvaluates
    BY <1>17, <1>0 DEF WatchEvaluates, WatchOnly, Request
  <1>18. CASE WatchRequests
    BY <1>18, <1>0 DEF WatchRequests, WatchOnly
  <1>19. CASE WatchEnds
    BY <1>19, <1>0 DEF WatchEnds, WatchOnly
  <1>20. CASE PauseShutsGate
    BY <1>20, <1>0 DEF PauseShutsGate, CommandAt, CommandOnly
  <1>21. CASE PausePipeline
    BY <1>21, <1>0 DEF PausePipeline, CommandAt, CommandOnly
  <1>22. CASE ResumePipeline
    BY <1>22, <1>0 DEF ResumePipeline, CommandAt, CommandOnly
  <1>23. CASE ResumeOpensGate
    BY <1>23, <1>0 DEF ResumeOpensGate, CommandAt, CommandOnly
  <1>24. CASE StopBegins
    BY <1>24, <1>0 DEF StopBegins, CommandAt, CommandOnly
  <1>25. CASE StopJoinsWatch
    BY <1>25, <1>0 DEF StopJoinsWatch, CommandAt, CommandOnly
  <1>26. CASE StopJoinsCapture
    BY <1>26, <1>0 DEF StopJoinsCapture, CommandAt, CommandOnly
  <1>27. CASE StopAnswers
    BY <1>27, <1>0 DEF StopAnswers, CommandAt, CommandOnly
  <1>28. CASE DeviceFails
    BY <1>28, <1>0 DEF DeviceFails, Fault, NoThreadMoves
  <1>29. CASE InjectDeviceError
    BY <1>29, <1>0 DEF InjectDeviceError, NoThreadMoves, ReportDeviceError
  <1>30. CASE ReportsSettle
    BY <1>30, <1>0 DEF ReportsSettle, SettleEnds
  <1>31. CASE BackendDies
    BY <1>31, <1>0 DEF BackendDies, Fault
  <1>32. CASE AdapterComesOrGoes
    BY <1>32, <1>0 DEF AdapterComesOrGoes, Fault, NoThreadMoves, AdaptersChange
  <1>33. CASE LadderAsks
    BY <1>33, <1>0 DEF LadderAsks, Fault, NoThreadMoves
  <1> QED BY <1>1, <1>2, <1>3, <1>4, <1>5, <1>6, <1>7, <1>8, <1>9, <1>10, <1>11, <1>12, <1>13, <1>14, <1>15, <1>16, <1>17, <1>18, <1>19, <1>20, <1>21, <1>22, <1>23, <1>24, <1>25, <1>26, <1>27, <1>28, <1>29, <1>30, <1>31, <1>32, <1>33
      DEF Next, Capturing, Rebuild, Watch, Command, Environment

-----------------------------------------------------------------------------
(* The session                                                             *)

SessionInv == SessionTypes /\ PipelineInv /\ AnswerInv /\ PauseInv /\ BackendInv /\ ReportInv

LEMMA SessionStarts ==
  ASSUME Init
  PROVE  SessionInv /\ RequestInv /\ FollowInv
  <1> USE DEF Init, WatcherStarts
  <1>1. SessionTypes
    <2>1. PlaceTypes /\ FlagTypes /\ RestTypes
      BY DEF PlaceTypes, FlagTypes, RestTypes, CapturePlaces, CommandPlaces, WatchTypes, Report, NoReport, Severity
    <2>2. StackTypes
      BY DEF StackTypes, Report, NoReport, Severity
    <2>3. FileTypes
      BY DEF FileTypes, Started, PipelineTypes, FileStates
    <2> QED BY <2>1, <2>2, <2>3 DEF SessionTypes
  <1>2. PipelineInv
    BY DEF PipelineInv, Started, NoPipeline
  <1>3. AnswerInv
    BY DEF AnswerInv, Started
  <1>4. PauseInv
    BY DEF PauseInv, PauseSurvivesRollover, Started
  <1>5. BackendInv /\ ReportInv
    BY DEF BackendInv, ReportInv, InRebuild, NoReport
  <1>6. RequestInv
    BY DEF RequestInv
  <1>7. FollowInv
    BY DEF FollowInv, AdaptersAreFollowed, OnTheNewDevice
  <1> QED BY <1>1, <1>2, <1>3, <1>4, <1>5, <1>6, <1>7 DEF SessionInv

LEMMA SessionStutters ==
  ASSUME SessionInv, UNCHANGED vars
  PROVE  SessionInv' /\ (RequestInv => RequestInv') /\ (FollowInv => FollowInv')
  <1> USE DEF vars, captureVars, requestVars, commandVars, fileVars, faultVars, sessionVars, watcherVars, SessionInv
  <1>1. SessionTypes'
    BY DEF SessionTypes, PlaceTypes, FlagTypes, StackTypes, FileTypes, RestTypes
  <1>2. PipelineInv' /\ AnswerInv' /\ PauseInv'
    BY DEF PipelineInv, AnswerInv, PauseInv, PauseSurvivesRollover
  <1>3. BackendInv' /\ ReportInv'
    BY DEF BackendInv, ReportInv
  <1>4. RequestInv => RequestInv'
    BY DEF RequestInv
  <1>5. FollowInv => FollowInv'
    BY DEF FollowInv, AdaptersAreFollowed
  <1> QED BY <1>1, <1>2, <1>3, <1>4, <1>5

LEMMA SessionHolds == Spec => []SessionInv
  <1>1. Init => SessionInv
    BY SessionStarts
  <1>2. SessionInv /\ [Next]_vars => SessionInv'
    <2> SUFFICES ASSUME SessionInv, [Next]_vars PROVE SessionInv'
      OBVIOUS
    <2>1. CASE UNCHANGED vars
      BY <2>1, SessionStutters
    <2>2. CASE Next
      <3>1. SessionTypes'
        BY <2>2, PlacesHold, FlagsHold, StackHolds, FileTypesHold, RestHold DEF SessionInv, SessionTypes
      <3> QED BY <2>2, <3>1, PipelineHolds, AnswersHold, PausesHold, BackendHolds, ReportsHold DEF SessionInv
    <2> QED BY <2>1, <2>2
  <1> QED BY <1>1, <1>2, PTL DEF Spec

(* The types of the session and of the device watcher, at every point any  *)
(* of the three threads reaches.                                           *)
THEOREM SessionTypeCorrect == Spec => []TypeOK
  <1>1. SessionInv => TypeOK
    <2> SUFFICES ASSUME SessionInv PROVE TypeOK
      OBVIOUS
    <2> USE DEF SessionInv, SessionTypes, PlaceTypes, FlagTypes, StackTypes, FileTypes, RestTypes
    <2>1. WatcherTypeOK
      BY DEF WatcherTypeOK
    <2>2. {observed, alive, pending, rebuilding, handled, running, stopRequested, paused, abandoned, lost}
             \subseteq BOOLEAN
      OBVIOUS
    <2> QED BY <2>1, <2>2
        DEF TypeOK, CapturePlaces, InRebuild, CommandPlaces, WatchTypes, PipelineTypes, FileStates
  <1> QED BY <1>1, SessionHolds, PTL

(* Whoever lets a pipeline go closes its file, exactly one is open at a    *)
(* time, and when stop has answered none is, unless the capture thread was *)
(* given up inside the finalization itself.                                *)
THEOREM FilesAreClosed == Spec => []EveryFileIsClosed
  <1>1. SessionInv => EveryFileIsClosed
    BY DEF SessionInv, AnswerInv, EveryFileIsClosed
  <1> QED BY <1>1, SessionHolds, PTL

(* The gate and the clock agree on every pause, whatever files are opened  *)
(* while it lasts.                                                         *)
THEOREM PausesAgree == Spec => []PauseSurvivesRollover
  <1>1. SessionInv => PauseSurvivesRollover
    BY DEF SessionInv, PauseInv
  <1> QED BY <1>1, SessionHolds, PTL

(* A rebuild takes apart the stack its cause was about, provided no poll   *)
(* falls between the request's exchange and the store that follows it.     *)
THEOREM RebuildsHaveTheirFault ==
  ASSUME "pollInTheWindow" \in Excluded
  PROVE  Spec => []EveryRebuildHasItsFault
  <1>1. Init => RequestInv
    BY SessionStarts
  <1>2. SessionInv /\ RequestInv /\ [Next]_vars => RequestInv'
    BY SessionStutters, RequestsHold DEF SessionInv
  <1>3. RequestInv => EveryRebuildHasItsFault
    BY DEF RequestInv, EveryRebuildHasItsFault
  <1> QED BY <1>1, <1>2, <1>3, SessionHolds, PTL DEF Spec

(* No change of adapters is taken as the baseline and then forgotten,      *)
(* provided neither of the two races happens.                              *)
THEOREM ChangesAreFollowed ==
  ASSUME Excluded = RaceNames
  PROVE  Spec => []AdaptersAreFollowed
  <1>1. Init => RequestInv /\ FollowInv
    BY SessionStarts
  <1>2. SessionInv /\ RequestInv /\ FollowInv /\ [Next]_vars => RequestInv' /\ FollowInv'
    <2>1. "pollInTheWindow" \in Excluded
      BY DEF RaceNames
    <2> QED BY <2>1, SessionStutters, RequestsHold, FollowHolds DEF SessionInv
  <1>3. FollowInv => AdaptersAreFollowed
    BY DEF FollowInv
  <1> QED BY <1>1, <1>2, <1>3, SessionHolds, PTL DEF Spec
=============================================================================
