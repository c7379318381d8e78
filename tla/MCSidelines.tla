----------------------------- MODULE MCSidelines -----------------------------
(***************************************************************************)
(* Components beside the recording path that share no state with each      *)
(* other: the per-application tracks, the preview, the degradation ladder, *)
(* the settings, the container file, the capture backends, the sources of  *)
(* sound, both encoders and the drift control.  A behaviour is one of one  *)
(* of them, chosen at the start, while the others rest in one fixed        *)
(* initial state; so one run checks each of them as a run of its own would.*)
(***************************************************************************)
EXTENDS AppTracks, Preview, Ladder, ConfigStore, MuxFile, Capture, Endpoint,
        H264Encoder, AacTrack, DriftControl, TLC

VARIABLE part

sideVars == <<part, appVars, shown, ladderVars, configVars, muxVars, grabVars,
              sourceVars, encoderVars, aacVars, driftVars>>

\* Packets written before each origin's track ends.
MCMaxPackets == 0 :> 6 @@ 1 :> 4 @@ 2 :> 3

\* Track 1 follows an executable, track 2 is pinned to the id 1.
MCNameOf == 1 :> "game" @@ 2 :> ""
MCPidOf  == 1 :> 0 @@ 2 :> 1

SideInit ==
  /\ part \in {"apps", "preview", "ladder", "config", "mux", "capture", "sound", "encoder",
             "aac", "drift"}
  /\ AppsInit /\ PreviewInit /\ LadderInit /\ ConfigInit /\ MuxInit
  /\ GrabInit /\ EndpointInit /\ EncoderInit /\ AacInit /\ DriftInit
  /\ part # "apps" => Starts = {}
  /\ part # "config" => file = Missing
  /\ part # "sound" => source = "device"
  /\ part # "encoder" => hardware
  /\ part # "drift" => skew = 0

Apps == part = "apps"
Previews == part = "preview"
Watches == part = "ladder"
Settles == part = "config"
Muxes == part = "mux"
Grabs == part = "capture" /\ grabber # "crashed"
Sounds == part = "sound"
Encodes == part = "encoder"
Codes == part = "aac"
Controls == part = "drift"

AppsOnly == UNCHANGED <<part, shown, ladderVars, configVars, muxVars, grabVars,
                        sourceVars, encoderVars, aacVars, driftVars>>
PreviewsOnly == UNCHANGED <<part, appVars, ladderVars, configVars, muxVars, grabVars,
                            sourceVars, encoderVars, aacVars, driftVars>>
WatchesOnly == UNCHANGED <<part, appVars, shown, configVars, muxVars, grabVars,
                           sourceVars, encoderVars, aacVars, driftVars>>
SettlesOnly == UNCHANGED <<part, appVars, shown, ladderVars, muxVars, grabVars,
                           sourceVars, encoderVars, aacVars, driftVars>>
MuxesOnly == UNCHANGED <<part, appVars, shown, ladderVars, configVars, grabVars,
                         sourceVars, encoderVars, aacVars, driftVars>>
GrabsOnly == UNCHANGED <<part, appVars, shown, ladderVars, configVars, muxVars, 
                         sourceVars, encoderVars, aacVars, driftVars>>
SoundsOnly == UNCHANGED <<part, appVars, shown, ladderVars, configVars, muxVars, 
                          grabVars, encoderVars, aacVars, driftVars>>
EncodesOnly == UNCHANGED <<part, appVars, shown, ladderVars, configVars, muxVars, 
                           grabVars, sourceVars, aacVars, driftVars>>
CodesOnly == UNCHANGED <<part, appVars, shown, ladderVars, configVars, muxVars, 
                         grabVars, sourceVars, encoderVars, driftVars>>
ControlsOnly == UNCHANGED <<part, appVars, shown, ladderVars, configVars, muxVars, 
                            grabVars, sourceVars, encoderVars, aacVars>>

AppsPollAlone == Apps /\ AppsPoll /\ AppsOnly
AppsStopAlone == Apps /\ AppsStop /\ AppsOnly
EvaluateAlone == Watches /\ Evaluate /\ WatchesOnly
AppliesAlone  == Watches /\ Applies /\ WatchesOnly
PlaysAlone    == Controls /\ Plays /\ ControlsOnly
MeasuresAlone == Controls /\ Measures /\ ControlsOnly

SideNext ==
  \/ Apps /\ \E pid \in Pids : AppExits(pid) /\ AppsOnly
  \/ Apps /\ \E pid \in Pids, name \in Names : AppStarts(pid, name) /\ AppsOnly
  \/ Apps /\ \E t \in Tracks : CaptureDies(t) /\ AppsOnly
  \/ Apps /\ StartLooks /\ AppsOnly
  \/ Apps /\ PollLooks /\ AppsOnly
  \/ Apps /\ OpensWatch /\ AppsOnly
  \/ Apps /\ Attaches /\ AppsOnly
  \/ Apps /\ ActivationFails /\ AppsOnly
  \/ Apps /\ PollPasses /\ AppsOnly
  \/ Apps /\ PollEnds /\ AppsOnly
  \/ Apps /\ PollThrows /\ AppsOnly
  \/ Apps /\ StopTracks /\ AppsOnly
  \/ Apps /\ JoinsPoll /\ AppsOnly
  \/ Apps /\ StopDetaches /\ AppsOnly
  \/ Previews /\ RingOpens /\ PreviewsOnly
  \/ Previews /\ RingCloses /\ PreviewsOnly
  \/ Previews /\ WriterStarts /\ PreviewsOnly
  \/ Previews /\ WriterStops /\ PreviewsOnly
  \/ Previews /\ WriterJoins /\ PreviewsOnly
  \/ Previews /\ Offer /\ PreviewsOnly
  \/ Previews /\ Dispatches /\ PreviewsOnly
  \/ Previews /\ DispatchFails /\ PreviewsOnly
  \/ Previews /\ HandsOff /\ PreviewsOnly
  \/ Previews /\ ReleasesDisplaced /\ PreviewsOnly
  \/ Previews /\ Takes /\ PreviewsOnly
  \/ Previews /\ PreviewEnds /\ PreviewsOnly
  \/ Previews /\ ReadBackFails /\ PreviewsOnly
  \/ Previews /\ WritesHalf /\ PreviewsOnly
  \/ Previews /\ Publishes /\ PreviewsOnly
  \/ Previews /\ ReleasesSurface /\ PreviewsOnly
  \/ Previews /\ Latest /\ PreviewsOnly
  \/ Previews /\ Rechecks /\ PreviewsOnly
  \/ Previews /\ PaintsHalf /\ PreviewsOnly
  \/ Previews /\ ChannelSet /\ PreviewsOnly
  \/ Watches /\ LoadChanges /\ WatchesOnly
  \/ Watches /\ FramesChange /\ WatchesOnly
  \/ Watches /\ DiskChanges /\ WatchesOnly
  \/ Watches /\ PauseOrResume /\ WatchesOnly
  \/ Watches /\ Evaluate /\ WatchesOnly
  \/ Watches /\ Applies /\ WatchesOnly
  \/ Settles /\ StartsWithDefaults /\ SettlesOnly
  \/ Settles /\ StartsFromFile /\ SettlesOnly
  \/ Settles /\ \E change \in Changes : Configure(change) /\ SettlesOnly
  \/ Settles /\ \E change \in Changes : SaveConfig(change) /\ SettlesOnly
  \/ Settles /\ WritesTemp /\ SettlesOnly
  \/ Settles /\ FlushesTemp /\ SettlesOnly
  \/ Settles /\ Replaces /\ SettlesOnly
  \/ Settles /\ SaveFails /\ SettlesOnly
  \/ Settles /\ EngineEnds /\ SettlesOnly
  \/ Settles /\ PowerCut /\ SettlesOnly
  \/ Muxes /\ MuxOpen /\ MuxesOnly
  \/ Muxes /\ \E t \in AllTracks : MuxWrite(t) /\ MuxesOnly
  \/ Muxes /\ MuxFinalize /\ MuxesOnly
  \/ Muxes /\ TrailerFails /\ MuxesOnly
  \/ Muxes /\ RemuxOnce /\ MuxesOnly
  \/ Muxes /\ RemuxFails /\ MuxesOnly
  \/ Muxes /\ FileIsGood /\ MuxesOnly
  \/ Muxes /\ FileIsBad /\ MuxesOnly
  \/ Muxes /\ Swap /\ MuxesOnly
  \/ Muxes /\ SwapFails /\ MuxesOnly
  \/ Muxes /\ DiesWriting /\ MuxesOnly
  \/ Muxes /\ DiesFinalizing /\ MuxesOnly
  \/ Muxes /\ RecoverFile /\ MuxesOnly
  \/ Grabs /\ StartsCapture /\ GrabsOnly
  \/ Grabs /\ CaptureStarted /\ GrabsOnly
  \/ Grabs /\ CaptureStops /\ GrabsOnly
  \/ Grabs /\ CaptureJoined /\ GrabsOnly
  \/ Grabs /\ AcquiresFrame /\ GrabsOnly
  \/ Grabs /\ ReleasesFrame /\ GrabsOnly
  \/ Grabs /\ WgcOpens /\ GrabsOnly
  \/ Grabs /\ WgcTells /\ GrabsOnly
  \/ Grabs /\ SetsRunning /\ GrabsOnly
  \/ Grabs /\ TargetCloses /\ GrabsOnly
  \/ Grabs /\ NoticesClosed /\ GrabsOnly
  \/ Grabs /\ FrameArrives /\ GrabsOnly
  \/ Grabs /\ FrameIsPushed /\ GrabsOnly
  \/ Grabs /\ WgcCloses /\ GrabsOnly
  \/ Grabs /\ DdaOpens /\ GrabsOnly
  \/ Grabs /\ DdaEmits /\ GrabsOnly
  \/ Grabs /\ AccessLost /\ GrabsOnly
  \/ Grabs /\ ReopensAfterLoss /\ GrabsOnly
  \/ Grabs /\ AcquiresFromNothing /\ GrabsOnly
  \/ Grabs /\ DdaEnds /\ GrabsOnly
  \/ Sounds /\ OpensSource /\ SoundsOnly
  \/ Sounds /\ SourceStarted /\ SoundsOnly
  \/ Sounds /\ SourceRefused /\ SoundsOnly
  \/ Sounds /\ StopsSource /\ SoundsOnly
  \/ Sounds /\ SourceJoined /\ SoundsOnly
  \/ Sounds /\ IssuesActivation /\ SoundsOnly
  \/ Sounds /\ CallbackProceeds /\ SoundsOnly
  \/ Sounds /\ ActivationEnds /\ SoundsOnly
  \/ Sounds /\ ActivationTimesOut /\ SoundsOnly
  \/ Sounds /\ SourceOpens /\ SoundsOnly
  \/ Sounds /\ SourceOpenFails /\ SoundsOnly
  \/ Sounds /\ PacketArrives /\ SoundsOnly
  \/ Sounds /\ PumpWakes /\ SoundsOnly
  \/ Sounds /\ PumpEnds /\ SoundsOnly
  \/ Sounds /\ ObtainsBuffer /\ SoundsOnly
  \/ Sounds /\ DrainEnds /\ SoundsOnly
  \/ Sounds /\ ReleasesBuffer /\ SoundsOnly
  \/ Sounds /\ ReleaseFails /\ SoundsOnly
  \/ Sounds /\ SinkThrows /\ SoundsOnly
  \/ Encodes /\ RequestKeyframe /\ EncodesOnly
  \/ Encodes /\ SubmitPicture /\ EncodesOnly
  \/ Encodes /\ SendFails /\ EncodesOnly
  \/ Encodes /\ SubmitRefused /\ EncodesOnly
  \/ Encodes /\ ReceivePacket /\ EncodesOnly
  \/ Encodes /\ FlushEncoder /\ EncodesOnly
  \/ Codes /\ EmitAudio /\ CodesOnly
  \/ Codes /\ StagesPart /\ CodesOnly
  \/ Codes /\ SendsFrame /\ CodesOnly
  \/ Codes /\ FrameRefused /\ CodesOnly
  \/ Codes /\ FrameFails /\ CodesOnly
  \/ Codes /\ CollectsPacket /\ CodesOnly
  \/ Codes /\ SubmitsOn /\ CodesOnly
  \/ Codes /\ FeedEnds /\ CodesOnly
  \/ Codes /\ Finishes /\ CodesOnly
  \/ Codes /\ FlushesPartial /\ CodesOnly
  \/ Codes /\ MarksEnd /\ CodesOnly
  \/ Codes /\ FlushRefused /\ CodesOnly
  \/ Codes /\ FlushesAgain /\ CodesOnly
  \/ Codes /\ FlushFails /\ CodesOnly
  \/ Codes /\ PathFinished /\ CodesOnly
  \/ Controls /\ Plays /\ ControlsOnly
  \/ Controls /\ LosesPacket /\ ControlsOnly
  \/ Controls /\ RebuildsResampler /\ ControlsOnly
  \/ Controls /\ LeavesIt /\ ControlsOnly
  \/ Controls /\ SoftResync /\ ControlsOnly
  \/ Controls /\ ResyncRefused /\ ControlsOnly

SideSpec == /\ SideInit /\ [][SideNext]_sideVars
            /\ WF_sideVars(AppsPollAlone) /\ WF_sideVars(AppsStopAlone)
            /\ WF_sideVars(EvaluateAlone) /\ WF_sideVars(AppliesAlone)
            /\ WF_sideVars(PlaysAlone) /\ WF_sideVars(MeasuresAlone)
=============================================================================
