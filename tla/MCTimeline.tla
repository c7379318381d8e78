----------------------------- MODULE MCTimeline ------------------------------
(***************************************************************************)
(* What decides where a picture or a buffer of sound lands, and in which   *)
(* file: the frame pacer, the venc thread that drives it, the pause clock  *)
(* and the segments; and beside them the GUI's client.  They share no      *)
(* state; a behaviour is one of one of them, chosen at the start, while    *)
(* the others rest in an initial state.  Slots of 3 at the configured rate *)
(* and of 6 at the lowered one.                                            *)
(***************************************************************************)
EXTENDS VideoTimeline, PauseResume, Segments, GuiEngine

VARIABLE part

timeVars == <<part, allVars, pauseVars, segVars, guiVars>>

FullRate == 4
FullAndHalfRate == {2, 4}

TimeInit ==
  /\ part \in {"pacer", "track", "pause", "segments", "gui"}
  /\ TrackInit /\ PauseInit /\ SegInit /\ GuiInit
  /\ part # "segments" => segmented /\ container = "mkv"

Pacing == part = "pacer"
Drawing == part = "track"
Pausing == part = "pause"
Filing == part = "segments"
Showing == part = "gui"

PacingOnly == UNCHANGED <<part, trackVars, pauseVars, segVars, guiVars>>
DrawingOnly == UNCHANGED <<part, pauseVars, segVars, guiVars>>
PausingOnly == UNCHANGED <<part, allVars, segVars, guiVars>>
FilingOnly == UNCHANGED <<part, allVars, pauseVars, guiVars>>
ShowingOnly == UNCHANGED <<part, allVars, pauseVars, segVars>>

TimeNext ==
  \/ Pacing /\ Start /\ PacingOnly
  \/ Pacing /\ DecideBeforeEpoch /\ PacingOnly
  \/ Pacing /\ DecideExcised /\ PacingOnly
  \/ Pacing /\ \E elapsed \in 0 .. MaxElapsed : Decide(elapsed) /\ PacingOnly
  \/ Pacing /\ \E rate \in Rates \cup {0} : Retime(rate) /\ PacingOnly
  \/ Pacing /\ \E n \in 1 .. MaxReserved - reserved : ReserveDiscontinuity(n) /\ PacingOnly
  \/ Drawing /\ EpochResolves /\ DrawingOnly
  \/ Drawing /\ \E rate \in Rates : WatchdogAsks(rate) /\ DrawingOnly
  \/ Drawing /\ \E elapsed \in 0 .. MaxElapsed : VencConverts(elapsed) /\ DrawingOnly
  \/ Drawing /\ \E elapsed \in 0 .. MaxElapsed : ConversionFails(elapsed) /\ DrawingOnly
  \/ Drawing /\ VencDrops /\ DrawingOnly
  \/ Drawing /\ VencDecides /\ DrawingOnly
  \/ Drawing /\ VencSubmits /\ DrawingOnly
  \/ Drawing /\ SubmissionFails /\ DrawingOnly
  \/ Drawing /\ RebuildDevice /\ DrawingOnly
  \/ Pausing /\ ShutGate /\ PausingOnly
  \/ Pausing /\ PauseReadsClock /\ PausingOnly
  \/ Pausing /\ DrainEnds /\ PausingOnly
  \/ Pausing /\ PauseStoresBegin /\ PausingOnly
  \/ Pausing /\ PausePublishes /\ PausingOnly
  \/ Pausing /\ ResumeReadsClock /\ PausingOnly
  \/ Pausing /\ ResumeStoresSpan /\ PausingOnly
  \/ Pausing /\ ResumeStoresBegin /\ PausingOnly
  \/ Pausing /\ ResumeAddsSpan /\ PausingOnly
  \/ Pausing /\ ResumeClearsPaused /\ PausingOnly
  \/ Pausing /\ ResumeAsksForKeyframe /\ PausingOnly
  \/ Pausing /\ OpenGate /\ PausingOnly
  \/ Pausing /\ \E s \in Streams : Acquire(s) /\ PausingOnly
  \/ Pausing /\ \E s \in Streams : ReadGate(s) /\ PausingOnly
  \/ Pausing /\ \E s \in Streams : Submit(s) /\ PausingOnly
  \/ Pausing /\ \E s \in Streams : Pop(s) /\ PausingOnly
  \/ Pausing /\ \E s \in Streams : TakeKeyframeRequest(s) /\ PausingOnly
  \/ Pausing /\ \E s \in Streams : LoadTotal(s) /\ PausingOnly
  \/ Pausing /\ \E s \in Streams : LoadPaused(s) /\ PausingOnly
  \/ Pausing /\ \E s \in Streams : LoadBegin(s) /\ PausingOnly
  \/ Pausing /\ \E s \in Streams : LoadLastBegin(s) /\ PausingOnly
  \/ Pausing /\ \E s \in Streams : LoadLastSpan(s) /\ PausingOnly
  \/ Pausing /\ \E s \in Streams : Place(s) /\ PausingOnly
  \/ Filing /\ WriteRecord /\ FilingOnly
  \/ Filing /\ VideoPacket /\ FilingOnly
  \/ Filing /\ AudioPacket /\ FilingOnly
  \/ Filing /\ MuxPops /\ FilingOnly
  \/ Filing /\ MuxOpensNext /\ FilingOnly
  \/ Filing /\ MuxClosesPrevious /\ FilingOnly
  \/ Filing /\ MuxWrites /\ FilingOnly
  \/ Filing /\ Stop /\ FilingOnly
  \/ Filing /\ Finalize /\ FilingOnly
  \/ Filing /\ Remux /\ FilingOnly
  \/ Filing /\ Validate /\ FilingOnly
  \/ Filing /\ ClearRecord /\ FilingOnly
  \/ Filing /\ Recover /\ FilingOnly
  \/ Filing /\ Crash /\ FilingOnly
  \/ Showing /\ StartPressed /\ ShowingOnly
  \/ Showing /\ PausePressed /\ ShowingOnly
  \/ Showing /\ ResumePressed /\ ShowingOnly
  \/ Showing /\ StopPressed /\ ShowingOnly
  \/ Showing /\ PressedInVain /\ ShowingOnly
  \/ Showing /\ RecoverPressed /\ ShowingOnly
  \/ Showing /\ RecoveryFinished /\ ShowingOnly
  \/ Showing /\ TakesCommand /\ ShowingOnly
  \/ Showing /\ \E t \in Threads : GetsAnswer(t) /\ ShowingOnly
  \/ Showing /\ \E t \in Threads : TimesOut(t) /\ ShowingOnly
  \/ Showing /\ \E t \in Threads : EngineGone(t) /\ ShowingOnly
  \/ Showing /\ Leaves /\ ShowingOnly
  \/ Showing /\ AsksToShutDown /\ ShowingOnly
  \/ Showing /\ Closes /\ ShowingOnly
  \/ Showing /\ Reaps /\ ShowingOnly
  \/ Showing /\ StartsEngine /\ ShowingOnly
  \/ Showing /\ ReaderDispatches /\ ShowingOnly
  \/ Showing /\ ReaderEnds /\ ShowingOnly
  \/ Showing /\ EngineAnswers /\ ShowingOnly
  \/ Showing /\ EngineStops /\ ShowingOnly
  \/ Showing /\ EngineStopped /\ ShowingOnly
  \/ Showing /\ EngineExits /\ ShowingOnly
  \/ Showing /\ EngineDies /\ ShowingOnly

TimeSpec == TimeInit /\ [][TimeNext]_timeVars
=============================================================================
