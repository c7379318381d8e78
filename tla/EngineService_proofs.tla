------------------------ MODULE EngineService_proofs ------------------------
(***************************************************************************)
(* The engine's promises to its host, for any number of recordings,        *)
(* requests and connections, any room in the pipe and any timeout: what it *)
(* leaves behind when it exits, what its writers write to, and when it     *)
(* gives up on the host.                                                   *)
(***************************************************************************)
EXTENDS EngineService, TLAPS

IpcPlaces == {"await", "read", "heard", "dispatch", "publish", "publishStop", "stopping",
              "publishIdle", "restore", "announce", "announceEnd", "done", "rearmed", "reply", "drop",
              "ended"}
MainPlaces == {"waiting", "take", "stopping", "joinStats", "joinHeart", "joinPipe", "release",
               "exited", "killed"}
Handling == {"dispatch", "publish", "publishStop", "stopping", "publishIdle", "restore", "announce",
             "announceEnd", "done", "rearmed"}

ThreadTypes ==
    /\ ipc \in [at : IpcPlaces, command : Commands \cup {"none"}, holds : Recordings \cup {None}]
    /\ main \in [at : MainPlaces, round : 1 .. 2, holds : Recordings \cup {None}]
    /\ request \in Commands \cup {"none"}
    /\ heart \in {"wait", "look", "lost", "ended"}
ClockTypes ==
    /\ suspensions \in Nat /\ unread \in Nat /\ unread <= PipeRoom
    /\ silence \in Int /\ -1 <= silence /\ silence <= Timeout
    /\ heard \in Nat /\ heard <= Timeout
SessionTypes ==
    /\ session \in Recordings \cup {None}
    /\ recording \in [Recordings -> {"none", "live", "stopping", "finalizing", "final"}]
    /\ writers \subseteq Recordings \cup {Preview}
    /\ {ring, armed, wanted, previewSession} \subseteq BOOLEAN
    /\ state \in {"idle", "recording", "paused", "stopping", "faulted"}

ServiceTypes == ThreadTypes /\ ClockTypes /\ SessionTypes

(* The one session is the one recording that is live.                      *)
SessionIsLive == \A r \in Recordings : recording[r] = "live" <=> session = r

(* A stop that was begun is in the hands of the thread that carries it on. *)
StopsAreCarried ==
    /\ ipc.at \in {"publishStop", "stopping"} =>
          session = None /\ ipc.holds \in Recordings /\ recording[ipc.holds] \notin {"none", "live"}
    /\ ipc.at \in {"publishIdle", "restore"} => session = None
    /\ main.at = "stopping" => main.holds \in Recordings /\ recording[main.holds] \notin {"none", "live"}
    /\ main.at # "killed" =>
          \A r \in Recordings : recording[r] \in {"stopping", "finalizing"} =>
             \/ ipc.at \in {"publishStop", "stopping"} /\ ipc.holds = r
             \/ main.at = "stopping" /\ main.holds = r

(* What the second round of the exit may rely on: nobody serves the host   *)
(* any more, so what it has taken away stays away.                         *)
NobodyServes ==
    /\ main.at \in {"joinStats", "joinHeart", "joinPipe"} => main.round = 1
    /\ main.at \in {"release", "exited"} => main.round = 2
    /\ main.round = 2 => ipc.at = "ended"
    /\ main.round = 2 /\ main.at \in {"stopping", "release", "exited"} =>
          session = None /\ ~previewSession

FilesInv == SessionIsLive /\ StopsAreCarried /\ NobodyServes

(* Who may hold the ring open for writing.                                 *)
WritersAreKnown ==
    /\ Preview \in writers => previewSession /\ armed
    /\ \A r \in Recordings : r \in writers => recording[r] \in {"live", "stopping"}
ArmedMeansOpen == main.at = "waiting" => (armed => ring)

RingInv == WritersAreKnown /\ ArmedMeansOpen /\ NoWriterOnAClosedRing

(* While the heartbeat thread looks, and whenever no command is served,    *)
(* the silence it measures is no longer than the real one.                 *)
HeartInv ==
    /\ suspensions = IF ipc.at \in Handling THEN 1 ELSE 0
    /\ heart = "look" \/ ~Serving => silence <= heard

ServiceInv == ServiceTypes /\ FilesInv /\ RingInv /\ HeartInv

(* The steps, told apart by whose they are.                                *)
HostSteps == HostReads \/ HostLeaves \/ \E command \in Commands : HostSends(command)
ClockSteps == HeartWakes \/ HeartLooks \/ HostIsLost \/ HeartStops \/ Tick
Bystanders == HostSteps \/ StatsBuilds \/ StatsSends \/ StatsEnds \/ OsShutdown
PumpSteps == ClientConnects \/ AwaitEnds \/ AwaitFails \/ PumpReads \/ PumpEnds \/ PumpReplies \/ Disconnects
ServiceSteps == Suspends \/ CommandDone \/ Resumes \/ NothingToDo \/ Announces \/ Shutdown
PreviewSteps == StartPreview \/ StopPreview
StateSteps == StartRecordFails \/ PauseRecord \/ ResumeRecord
ExitSteps == MainWakes \/ StatsJoined \/ PipeStops \/ PipeJoined \/ ReleasesJob

LEMMA EveryStepIsKnown ==
  ASSUME Next
  PROVE  \/ HostDies \/ Bystanders \/ ClockSteps \/ PumpSteps \/ ServiceSteps \/ PreviewSteps \/ StateSteps
         \/ Publishes \/ (\E r \in Recordings : StartRecord(r)) \/ StopRecordTakes \/ StopRecordEnds \/ PreviewRestored
         \/ (\E r \in Recordings : WriterEnds(r) \/ FileFinalized(r)) \/ CaptureFollows
         \/ FinalizeTakes \/ FinalizeEnds \/ ExitSteps
  BY Zenon DEF Next, Host, Ipc, Handler, SessionStops, Heart, Stats, Main, HostSteps, ClockSteps, Bystanders,
     PumpSteps, ServiceSteps, PreviewSteps, StateSteps, ExitSteps

-----------------------------------------------------------------------------
(* Types                                                                   *)

LEMMA ServiceConstants == PipeRoom \in Nat \ {0} /\ Timeout \in Nat \ {0} /\ MaxRecordings \in Nat
                          /\ Preview \notin Recordings /\ None \notin Recordings
                          /\ (\A r \in Recordings : r \in Nat) /\ Preview # None
  BY ServiceAssumption DEF Preview, None, Recordings

LEMMA IpcMoves ==
  ASSUME NEW A, NEW B, NEW C, NEW i \in [at : A, command : B, holds : C], NEW a \in A, NEW h \in C
  PROVE  [i EXCEPT !.at = a, !.holds = h] \in [at : A, command : B, holds : C]
  OBVIOUS

LEMMA MainMoves ==
  ASSUME NEW A, NEW B, NEW C, NEW i \in [at : A, round : B, holds : C], NEW a \in A, NEW h \in C, NEW b \in B
  PROVE  /\ [i EXCEPT !.at = a, !.holds = h] \in [at : A, round : B, holds : C]
         /\ [i EXCEPT !.at = a, !.round = b] \in [at : A, round : B, holds : C]
  OBVIOUS

LEMMA ServiceTypesHold ==
  ASSUME ServiceTypes, HeartInv, SessionIsLive, Next
  PROVE  ServiceTypes'
  <1> USE ServiceConstants DEF ServiceTypes, pipeVars, heartVars, previewVars, sessionVars, exitVars, bounds
  <1>1. CASE HostDies
    BY <1>1 DEF HostDies, ThreadTypes, ClockTypes, SessionTypes, IpcPlaces, MainPlaces
  <1>2. CASE HostReads
    BY <1>2 DEF HostReads, ThreadTypes, ClockTypes, SessionTypes, IpcPlaces, MainPlaces
  <1>3. CASE HostLeaves
    BY <1>3 DEF HostLeaves, ThreadTypes, ClockTypes, SessionTypes, IpcPlaces, MainPlaces
  <1>4. ASSUME NEW command \in Commands, HostSends(command) PROVE ServiceTypes'
    BY <1>4 DEF HostSends, ThreadTypes, ClockTypes, SessionTypes, IpcPlaces, MainPlaces
  <1>5. CASE CaptureFollows
    BY <1>5 DEF CaptureFollows, ThreadTypes, ClockTypes, SessionTypes, IpcPlaces, MainPlaces
  <1>6. CASE HeartWakes
    BY <1>6 DEF HeartWakes, ThreadTypes, ClockTypes, SessionTypes, IpcPlaces, MainPlaces
  <1>7. CASE HeartLooks
    BY <1>7 DEF HeartLooks, ThreadTypes, ClockTypes, SessionTypes, IpcPlaces, MainPlaces
  <1>8. CASE HostIsLost
    BY <1>8 DEF HostIsLost, RequestShutdown, ThreadTypes, ClockTypes, SessionTypes, IpcPlaces, MainPlaces
  <1>9. CASE HeartStops
    BY <1>9 DEF HeartStops, ThreadTypes, ClockTypes, SessionTypes, IpcPlaces, MainPlaces
  <1>10. CASE Tick
    BY <1>10 DEF Tick, Serving, ThreadTypes, ClockTypes, SessionTypes, IpcPlaces, MainPlaces
  <1>11. CASE StatsBuilds
    BY <1>11 DEF StatsBuilds, ThreadTypes, ClockTypes, SessionTypes, IpcPlaces, MainPlaces
  <1>12. CASE StatsSends
    BY <1>12 DEF StatsSends, Writes, ThreadTypes, ClockTypes, SessionTypes, IpcPlaces, MainPlaces
  <1>13. CASE StatsEnds
    BY <1>13 DEF StatsEnds, ThreadTypes, ClockTypes, SessionTypes, IpcPlaces, MainPlaces
  <1>14. CASE OsShutdown
    BY <1>14 DEF OsShutdown, RequestShutdown, ThreadTypes, ClockTypes, SessionTypes, IpcPlaces, MainPlaces
  <1>15. CASE ClientConnects
    BY <1>15 DEF ClientConnects, StopSeen, ThreadTypes, ClockTypes, SessionTypes, IpcPlaces, MainPlaces
  <1>16. CASE AwaitEnds
    BY <1>16 DEF AwaitEnds, StopSeen, ThreadTypes, ClockTypes, SessionTypes, IpcPlaces, MainPlaces
  <1>44. CASE AwaitFails
    BY <1>44 DEF AwaitFails, StopSeen, ThreadTypes, ClockTypes, SessionTypes, IpcPlaces, MainPlaces
  <1>17. CASE PumpReads
    <2>1. ThreadTypes'
      BY <1>17 DEF PumpReads, StopSeen, ThreadTypes, IpcPlaces, MainPlaces
    <2>2. ClockTypes'
      BY <1>17 DEF PumpReads, StopSeen, ClockTypes
    <2>3. SessionTypes'
      BY <1>17 DEF PumpReads, StopSeen, SessionTypes
    <2> QED BY <2>1, <2>2, <2>3
  <1>18. CASE PumpEnds
    BY <1>18 DEF PumpEnds, StopSeen, ThreadTypes, ClockTypes, SessionTypes, IpcPlaces, MainPlaces
  <1>19. CASE PumpReplies
    BY <1>19 DEF PumpReplies, Writes, ThreadTypes, ClockTypes, SessionTypes, IpcPlaces, MainPlaces
  <1>20. CASE Disconnects
    BY <1>20 DEF Disconnects, ThreadTypes, ClockTypes, SessionTypes, IpcPlaces, MainPlaces
  <1>21. CASE Suspends
    BY <1>21 DEF Suspends, ThreadTypes, ClockTypes, SessionTypes, IpcPlaces, MainPlaces
  <1>22. CASE CommandDone
    <2>1. ThreadTypes'
      BY <1>22 DEF CommandDone, Rearm, ThreadTypes, IpcPlaces, MainPlaces
    <2>2. ClockTypes'
      BY <1>22 DEF CommandDone, Rearm, ClockTypes
    <2>3. SessionTypes'
      BY <1>22 DEF CommandDone, Rearm, SessionTypes
    <2> QED BY <2>1, <2>2, <2>3
  <1>23. CASE Resumes
    <2>1. ThreadTypes'
      BY <1>23 DEF Resumes, ThreadTypes, IpcPlaces, MainPlaces
    <2>2. ClockTypes'
      BY <1>23 DEF Resumes, ClockTypes, ThreadTypes, HeartInv, Handling
    <2>3. SessionTypes'
      BY <1>23 DEF Resumes, SessionTypes
    <2> QED BY <2>1, <2>2, <2>3
  <1>24. CASE NothingToDo
    BY <1>24 DEF NothingToDo, Answers, Dispatches, ThreadTypes, ClockTypes, SessionTypes, IpcPlaces, MainPlaces
  <1>25. CASE StartPreview
    <2>1. ThreadTypes'
      BY <1>25 DEF StartPreview, Dispatches, StartPreviewSession, ThreadTypes, IpcPlaces, MainPlaces
    <2>2. ClockTypes'
      BY <1>25 DEF StartPreview, Dispatches, StartPreviewSession, ClockTypes
    <2>3. SessionTypes'
      BY <1>25 DEF StartPreview, Dispatches, StartPreviewSession, SessionTypes
    <2> QED BY <2>1, <2>2, <2>3
  <1>26. CASE StopPreview
    BY <1>26 DEF StopPreview, Dispatches, StopPreviewSession, CloseUnlessRecording, ThreadTypes, ClockTypes, SessionTypes, IpcPlaces, MainPlaces
  <1>27. CASE StartRecordFails
    <2>1. ThreadTypes'
      BY <1>27 DEF StartRecordFails, Dispatches, Publish, StopPreviewSession, ThreadTypes, IpcPlaces, MainPlaces
    <2>2. ClockTypes'
      BY <1>27 DEF StartRecordFails, Dispatches, Publish, StopPreviewSession, ClockTypes
    <2>3. SessionTypes'
      BY <1>27 DEF StartRecordFails, Dispatches, Publish, StopPreviewSession, SessionTypes
    <2> QED BY <2>1, <2>2, <2>3
  <1>28. CASE PauseRecord
    BY <1>28 DEF PauseRecord, Dispatches, Publish, ThreadTypes, ClockTypes, SessionTypes, IpcPlaces, MainPlaces
  <1>29. CASE ResumeRecord
    BY <1>29 DEF ResumeRecord, Dispatches, Publish, ThreadTypes, ClockTypes, SessionTypes, IpcPlaces, MainPlaces
  <1>30. CASE Shutdown
    BY <1>30 DEF Shutdown, Dispatches, RequestShutdown, ThreadTypes, ClockTypes, SessionTypes, IpcPlaces, MainPlaces
  <1>31. CASE Publishes
    BY <1>31 DEF Publishes, AfterPublish, Writes, ThreadTypes, ClockTypes, SessionTypes, IpcPlaces, MainPlaces
  <1>32. ASSUME NEW r \in Recordings, StartRecord(r) PROVE ServiceTypes'
    <2>1. ThreadTypes'
      BY <1>32 DEF StartRecord, Dispatches, Publish, ThreadTypes, IpcPlaces, MainPlaces
    <2>2. ClockTypes'
      BY <1>32 DEF StartRecord, Dispatches, Publish, ClockTypes
    <2>3. SessionTypes'
      BY <1>32 DEF StartRecord, Dispatches, Publish, SessionTypes
    <2> QED BY <2>1, <2>2, <2>3
  <1>33. CASE StopRecordTakes
    <2>1. ThreadTypes'
      <3>1. ipc' \in [at : IpcPlaces, command : Commands \cup {"none"}, holds : Recordings \cup {None}]
        BY <1>33, IpcMoves DEF StopRecordTakes, ThreadTypes, IpcPlaces, SessionTypes
      <3> QED BY <1>33, <3>1 DEF StopRecordTakes, ThreadTypes
    <2>2. ClockTypes'
      BY <1>33 DEF StopRecordTakes, Dispatches, ClockTypes
    <2>3. SessionTypes'
      BY <1>33 DEF StopRecordTakes, Dispatches, SessionTypes
    <2> QED BY <2>1, <2>2, <2>3
  <1>34. CASE StopRecordEnds
    <2>1. ThreadTypes'
      BY <1>34, IpcMoves DEF StopRecordEnds, ThreadTypes, IpcPlaces, MainPlaces
    <2>2. ClockTypes'
      BY <1>34 DEF StopRecordEnds, ClockTypes
    <2>3. SessionTypes'
      BY <1>34 DEF StopRecordEnds, SessionTypes
    <2> QED BY <2>1, <2>2, <2>3
  <1>45. CASE PreviewRestored
    <2>1. ThreadTypes'
      BY <1>45 DEF PreviewRestored, StartPreviewSession, ThreadTypes, IpcPlaces, MainPlaces
    <2>2. ClockTypes'
      BY <1>45 DEF PreviewRestored, StartPreviewSession, ClockTypes
    <2>3. SessionTypes'
      BY <1>45 DEF PreviewRestored, StartPreviewSession, SessionTypes
    <2> QED BY <2>1, <2>2, <2>3
  <1>46. CASE Announces
    <2>1. ThreadTypes'
      BY <1>46 DEF Announces, ThreadTypes, IpcPlaces, MainPlaces
    <2>2. ClockTypes'
      BY <1>46 DEF Announces, Writes, ClockTypes
    <2>3. SessionTypes'
      BY <1>46 DEF Announces, SessionTypes
    <2> QED BY <2>1, <2>2, <2>3
  <1>35. ASSUME NEW r \in Recordings, WriterEnds(r) PROVE ServiceTypes'
    BY <1>35 DEF WriterEnds, Stopping, ThreadTypes, ClockTypes, SessionTypes, IpcPlaces, MainPlaces
  <1>36. ASSUME NEW r \in Recordings, FileFinalized(r) PROVE ServiceTypes'
    BY <1>36 DEF FileFinalized, Writes, ThreadTypes, ClockTypes, SessionTypes, IpcPlaces, MainPlaces
  <1>37. CASE FinalizeTakes
    <2>1. ThreadTypes'
      <3>1. main' \in [at : MainPlaces, round : 1 .. 2, holds : Recordings \cup {None}]
        <4>1. AfterFinalize \in MainPlaces /\ "stopping" \in MainPlaces
          BY DEF AfterFinalize, MainPlaces
        <4>2. main \in [at : MainPlaces, round : 1 .. 2, holds : Recordings \cup {None}]
              /\ session \in Recordings \cup {None}
          BY DEF ThreadTypes, SessionTypes
        <4>3. main' \in {[main EXCEPT !.at = AfterFinalize], [main EXCEPT !.at = "stopping", !.holds = session]}
          BY <1>37 DEF FinalizeTakes
        <4>4. [main EXCEPT !.at = AfterFinalize] \in [at : MainPlaces, round : 1 .. 2, holds : Recordings \cup {None}]
          BY <4>1, <4>2
        <4>5. [main EXCEPT !.at = "stopping", !.holds = session]
                 \in [at : MainPlaces, round : 1 .. 2, holds : Recordings \cup {None}]
          BY <4>1, <4>2, MainMoves
        <4> QED BY <4>3, <4>4, <4>5
      <3> QED BY <1>37, <3>1 DEF FinalizeTakes, ThreadTypes
    <2>2. ClockTypes'
      BY <1>37 DEF FinalizeTakes, StopPreviewSession, AfterFinalize, ClockTypes
    <2>3. SessionTypes'
      BY <1>37 DEF FinalizeTakes, StopPreviewSession, AfterFinalize, SessionTypes
    <2> QED BY <2>1, <2>2, <2>3
  <1>38. CASE FinalizeEnds
    <2>1. ThreadTypes'
      BY <1>38 DEF FinalizeEnds, AfterFinalize, ThreadTypes, IpcPlaces, MainPlaces
    <2>2. ClockTypes'
      BY <1>38 DEF FinalizeEnds, AfterFinalize, ClockTypes
    <2>3. SessionTypes'
      BY <1>38 DEF FinalizeEnds, AfterFinalize, SessionTypes
    <2> QED BY <2>1, <2>2, <2>3
  <1>39. CASE MainWakes
    BY <1>39 DEF MainWakes, ThreadTypes, ClockTypes, SessionTypes, IpcPlaces, MainPlaces
  <1>40. CASE StatsJoined
    BY <1>40 DEF StatsJoined, ThreadTypes, ClockTypes, SessionTypes, IpcPlaces, MainPlaces
  <1>41. CASE PipeStops
    BY <1>41 DEF PipeStops, ThreadTypes, ClockTypes, SessionTypes, IpcPlaces, MainPlaces
  <1>42. CASE PipeJoined
    <2>1. ThreadTypes'
      <3>1. main' \in [at : MainPlaces, round : 1 .. 2, holds : Recordings \cup {None}]
        <4>1. "take" \in MainPlaces /\ 2 \in 1 .. 2
          BY DEF MainPlaces
        <4>2. main \in [at : MainPlaces, round : 1 .. 2, holds : Recordings \cup {None}]
          BY DEF ThreadTypes
        <4> QED BY <1>42, <4>1, <4>2, MainMoves DEF PipeJoined, FinalizeAgain
      <3> QED BY <1>42, <3>1 DEF PipeJoined, ThreadTypes
    <2>2. ClockTypes'
      BY <1>42 DEF PipeJoined, FinalizeAgain, ClockTypes
    <2>3. SessionTypes'
      BY <1>42 DEF PipeJoined, FinalizeAgain, SessionTypes
    <2> QED BY <2>1, <2>2, <2>3
  <1>43. CASE ReleasesJob
    BY <1>43 DEF ReleasesJob, ThreadTypes, ClockTypes, SessionTypes, IpcPlaces, MainPlaces
  <1> QED BY <1>1, <1>2, <1>3, <1>4, <1>5, <1>6, <1>7, <1>8, <1>9, <1>10, <1>11, <1>12, <1>13, <1>14, <1>15, <1>16, <1>17, <1>18, <1>19, <1>20, <1>21, <1>22, <1>23, <1>24, <1>25, <1>26, <1>27, <1>28, <1>29, <1>30, <1>31, <1>32, <1>33, <1>34, <1>35, <1>36, <1>37, <1>38, <1>39, <1>40, <1>41, <1>42, <1>43, <1>44, <1>45, <1>46 DEF Next, Host, Ipc, Handler, SessionStops, Heart, Stats, Main

-----------------------------------------------------------------------------
(* What becomes of the recordings                                          *)

(* The service thread goes from one place to another without a recording   *)
(* in its hands.                                                           *)
LEMMA PlainSteps ==
  ASSUME FilesInv, ipc.at \notin {"publishStop", "stopping", "ended"},
         ipc'.at \notin {"publishStop", "stopping", "publishIdle", "restore"}, UNCHANGED <<session, recording, main>>
  PROVE  FilesInv'
  BY DEF FilesInv, SessionIsLive, StopsAreCarried, NobodyServes

LEMMA FilesUntouched ==
  ASSUME FilesInv, UNCHANGED <<ipc, session, recording, previewSession, main>>
  PROVE  FilesInv'
  BY DEF FilesInv, SessionIsLive, StopsAreCarried, NobodyServes

LEMMA FilesHold ==
  ASSUME ServiceTypes, FilesInv, Next
  PROVE  FilesInv'
  <1> USE DEF pipeVars, heartVars, previewVars, sessionVars, exitVars, bounds
  <1>0. /\ ipc \in [at : IpcPlaces, command : Commands \cup {"none"}, holds : Recordings \cup {None}]
        /\ main \in [at : MainPlaces, round : 1 .. 2, holds : Recordings \cup {None}]
        /\ session \in Recordings \cup {None}
        /\ recording \in [Recordings -> {"none", "live", "stopping", "finalizing", "final"}]
        /\ None \notin Recordings
    BY ServiceConstants DEF ServiceTypes, ThreadTypes, SessionTypes
  <1>1. CASE Bystanders \/ ClockSteps \/ CaptureFollows
    BY <1>1, FilesUntouched
    DEF Bystanders, HostSteps, ClockSteps, CaptureFollows, HostReads, HostLeaves, HostSends, HeartWakes,
        HeartLooks, HostIsLost, HeartStops, Tick, StatsBuilds, StatsSends, StatsEnds, OsShutdown
  <1>2. CASE PumpSteps \/ ServiceSteps
    <2>1. /\ ipc.at \notin {"publishStop", "stopping", "ended"}
          /\ ipc'.at \notin {"publishStop", "stopping", "publishIdle", "restore"}
          /\ UNCHANGED <<session, recording, main>>
      BY <1>0, <1>2
      DEF PumpSteps, ClientConnects, AwaitEnds, AwaitFails, PumpReads, PumpEnds, PumpReplies, Disconnects,
          ServiceSteps, Suspends, CommandDone, Resumes, NothingToDo, Announces, Answers, Dispatches, Shutdown
    <2> QED BY <2>1, PlainSteps
  <1>3. CASE PreviewSteps \/ StateSteps
    <2>1. /\ ipc.at \notin {"publishStop", "stopping", "ended"}
          /\ ipc'.at \notin {"publishStop", "stopping", "publishIdle", "restore"}
          /\ UNCHANGED <<session, recording, main>>
      BY <1>0, <1>3
      DEF PreviewSteps, StartPreview, StopPreview, StateSteps, StartRecordFails, PauseRecord,
          ResumeRecord, Dispatches, Publish
    <2> QED BY <2>1, PlainSteps
  <1>4. CASE HostDies
    <2>1. UNCHANGED <<ipc, session, recording, previewSession>> /\ main' \in {main, [main EXCEPT !.at = "killed"]}
      BY <1>4 DEF HostDies
    <2>2. CASE main' = main
      BY <2>1, <2>2, FilesUntouched
    <2>3. CASE main' = [main EXCEPT !.at = "killed"]
      <3>1. main'.at = "killed" /\ main'.round = main.round
        BY <1>0, <2>3
      <3> QED BY <2>1, <3>1 DEF FilesInv, SessionIsLive, StopsAreCarried, NobodyServes
    <2> QED BY <2>1, <2>2, <2>3
  <1>5. CASE Publishes
    <2>1. /\ UNCHANGED <<session, recording, previewSession, main>> /\ ipc'.holds = ipc.holds
          /\ \/ ipc.at = "publish" /\ ipc'.at = "done"
             \/ ipc.at = "publishStop" /\ ipc'.at = "stopping"
             \/ ipc.at = "publishIdle" /\ ipc'.at = "restore"
      BY <1>0, <1>5 DEF Publishes, AfterPublish
    <2> QED BY <2>1 DEF FilesInv, SessionIsLive, StopsAreCarried, NobodyServes
  <1>6. ASSUME NEW r \in Recordings, StartRecord(r) PROVE FilesInv'
    <2>1. /\ ipc.at = "dispatch" /\ ipc'.at \in {"done", "publish"} /\ session = None /\ session' = r
          /\ recording' = [recording EXCEPT ![r] = "live"] /\ recording[r] = "none" /\ main' = main
      BY <1>0, <1>6 DEF StartRecord, Dispatches, Publish
    <2>2. recording'[r] = "live" /\ \A q \in Recordings : q # r => recording'[q] = recording[q]
      BY <1>0, <2>1
    <2>3. main.at = "stopping" => main.holds # r
      BY <2>1 DEF FilesInv, StopsAreCarried
    <2>4. SessionIsLive' /\ StopsAreCarried' /\ NobodyServes'
      BY <1>0, <2>1, <2>2, <2>3 DEF FilesInv, SessionIsLive, StopsAreCarried, NobodyServes
    <2> QED BY <2>4 DEF FilesInv
  <1>7. CASE StopRecordTakes
    <2>1. /\ ipc.at = "dispatch" /\ ipc'.at = "publishStop" /\ ipc'.holds = session
          /\ session \in Recordings /\ session' = None
          /\ recording' = [recording EXCEPT ![session] = "stopping"]
          /\ main' = main
      BY <1>0, <1>7 DEF StopRecordTakes, Dispatches
    <2>2. recording'[session] = "stopping" /\ \A q \in Recordings : q # session => recording'[q] = recording[q]
      BY <1>0, <2>1
    <2>3. SessionIsLive' /\ NobodyServes'
      BY <1>0, <2>1, <2>2 DEF FilesInv, SessionIsLive, NobodyServes
    <2>4. StopsAreCarried'
      BY <1>0, <2>1, <2>2 DEF FilesInv, StopsAreCarried
    <2> QED BY <2>3, <2>4 DEF FilesInv
  <1>8. CASE StopRecordEnds
    <2>1. /\ ipc.at = "stopping" /\ ipc'.at = "publishIdle" /\ recording[ipc.holds] = "final"
          /\ UNCHANGED <<session, recording, main>>
      BY <1>0, <1>8 DEF StopRecordEnds
    <2> QED BY <1>0, <2>1 DEF FilesInv, SessionIsLive, StopsAreCarried, NobodyServes
  <1>13. CASE PreviewRestored
    <2>1. /\ ipc.at = "restore" /\ ipc'.at = "announce" /\ UNCHANGED <<session, recording, main>>
      BY <1>0, <1>13 DEF PreviewRestored
    <2> QED BY <2>1, PlainSteps
  <1>9. ASSUME NEW r \in Recordings, WriterEnds(r) \/ FileFinalized(r) PROVE FilesInv'
    <2>1. /\ recording[r] \in {"stopping", "finalizing"}
          /\ \/ recording' = [recording EXCEPT ![r] = "finalizing"]
             \/ recording' = [recording EXCEPT ![r] = "final"]
          /\ UNCHANGED <<ipc, session, previewSession, main>>
      BY <1>9 DEF WriterEnds, FileFinalized
    <2>2. /\ recording'[r] \in {"finalizing", "final"}
          /\ \A q \in Recordings : q # r => recording'[q] = recording[q]
      BY <1>0, <2>1
    <2> QED BY <1>0, <2>1, <2>2 DEF FilesInv, SessionIsLive, StopsAreCarried, NobodyServes
  <1>10. CASE FinalizeTakes
    <2>1. /\ main.at = "take" /\ ~previewSession' /\ ipc' = ipc /\ main'.round = main.round
          /\ session' = None
      BY <1>0, <1>10 DEF FinalizeTakes, StopPreviewSession
    <2>2. CASE session = None
      <3>1. /\ main'.at = AfterFinalize /\ recording' = recording
        BY <1>0, <1>10, <2>2 DEF FinalizeTakes
      <3> QED BY <1>0, <2>1, <2>2, <3>1
          DEF FilesInv, SessionIsLive, StopsAreCarried, NobodyServes, AfterFinalize
    <2>3. CASE session # None
      <3>1. /\ main'.at = "stopping" /\ main'.holds = session /\ session \in Recordings
            /\ recording' = [recording EXCEPT ![session] = "stopping"]
        BY <1>0, <1>10, <2>3 DEF FinalizeTakes
      <3>2. recording'[session] = "stopping" /\ \A q \in Recordings : q # session => recording'[q] = recording[q]
        BY <1>0, <3>1
      <3>3. SessionIsLive' /\ NobodyServes'
        BY <1>0, <2>1, <3>1, <3>2 DEF FilesInv, SessionIsLive, NobodyServes
      <3>4. ipc.at \notin {"publishStop", "stopping"}
        BY <2>3 DEF FilesInv, StopsAreCarried
      <3>5. StopsAreCarried'
        BY <1>0, <2>1, <3>1, <3>2, <3>4 DEF FilesInv, StopsAreCarried
      <3> QED BY <3>3, <3>5 DEF FilesInv
    <2> QED BY <2>2, <2>3
  <1>11. CASE FinalizeEnds
    <2>1. /\ main.at = "stopping" /\ recording[main.holds] = "final" /\ main'.at = AfterFinalize
          /\ main'.round = main.round /\ UNCHANGED <<ipc, session, recording, previewSession>>
      BY <1>0, <1>11 DEF FinalizeEnds
    <2> QED BY <1>0, <2>1 DEF FilesInv, SessionIsLive, StopsAreCarried, NobodyServes, AfterFinalize
  <1>12. CASE ExitSteps
    <2>1. /\ UNCHANGED <<ipc, session, recording, previewSession>>
          /\ \/ main.at = "waiting" /\ main'.at = "take" /\ main'.round = main.round
             \/ main.at = "joinStats" /\ main'.at = "joinHeart" /\ main'.round = main.round
             \/ main.at = "joinHeart" /\ main'.at = "joinPipe" /\ main'.round = main.round
             \/ main.at = "joinPipe" /\ ipc.at = "ended" /\ main'.at = "take" /\ main'.round = 2
             \/ main.at = "release" /\ main'.at = "exited" /\ main'.round = main.round
      BY <1>0, <1>12 DEF ExitSteps, MainWakes, StatsJoined, PipeStops, PipeJoined, FinalizeAgain, ReleasesJob
    <2> QED BY <1>0, <2>1 DEF FilesInv, SessionIsLive, StopsAreCarried, NobodyServes
  <1> QED BY <1>1, <1>2, <1>3, <1>4, <1>5, <1>6, <1>7, <1>8, <1>9, <1>10, <1>11, <1>12, <1>13, EveryStepIsKnown

-----------------------------------------------------------------------------
(* What the preview's writers write to                                     *)

LEMMA RingUntouched ==
  ASSUME RingInv, UNCHANGED <<previewSession, armed, writers, recording, ring>>,
         main'.at = "waiting" => main.at = "waiting"
  PROVE  RingInv'
  BY DEF RingInv, WritersAreKnown, ArmedMeansOpen, NoWriterOnAClosedRing

LEMMA RingHolds ==
  ASSUME ServiceTypes, FilesInv, RingInv, Next
  PROVE  RingInv'
  <1> USE DEF pipeVars, heartVars, previewVars, sessionVars, exitVars, bounds
  <1>0. /\ ipc \in [at : IpcPlaces, command : Commands \cup {"none"}, holds : Recordings \cup {None}]
        /\ main \in [at : MainPlaces, round : 1 .. 2, holds : Recordings \cup {None}]
        /\ session \in Recordings \cup {None}
        /\ recording \in [Recordings -> {"none", "live", "stopping", "finalizing", "final"}]
        /\ writers \subseteq Recordings \cup {Preview}
        /\ None \notin Recordings /\ Preview \notin Recordings
    BY ServiceConstants DEF ServiceTypes, ThreadTypes, SessionTypes
  <1>1. CASE Bystanders \/ ClockSteps \/ PumpSteps \/ ServiceSteps
    BY <1>1, RingUntouched
    DEF Bystanders, HostSteps, ClockSteps, HostReads, HostLeaves, HostSends, HeartWakes,
        HeartLooks, HostIsLost, HeartStops, Tick, StatsBuilds, StatsSends, StatsEnds, OsShutdown,
        PumpSteps, ClientConnects, AwaitEnds, AwaitFails, PumpReads, PumpEnds, PumpReplies, Disconnects,
        ServiceSteps, Suspends, CommandDone, Resumes, NothingToDo, Announces, Answers, Shutdown
  <1>2. CASE Publishes \/ PauseRecord \/ ResumeRecord \/ StopRecordEnds
    BY <1>2, RingUntouched DEF Publishes, PauseRecord, ResumeRecord, StopRecordEnds
  <1>3. CASE HostDies \/ ExitSteps \/ FinalizeEnds
    <2>1. /\ UNCHANGED <<previewSession, armed, writers, recording>>
          /\ main'.at = "waiting" => main.at = "waiting" /\ ring' = ring
      BY <1>0, <1>3 DEF HostDies, ExitSteps, MainWakes, StatsJoined, PipeStops, PipeJoined, FinalizeAgain,
                        ReleasesJob, FinalizeEnds, AfterFinalize
    <2> QED BY <2>1 DEF RingInv, WritersAreKnown, ArmedMeansOpen, NoWriterOnAClosedRing
  <1>4. CASE FinalizeTakes
    <2>1. main'.at # "waiting" /\ writers' = writers \ {Preview}
          /\ \/ recording' = recording
             \/ session \in Recordings /\ recording' = [recording EXCEPT ![session] = "stopping"]
      BY <1>0, <1>4 DEF FinalizeTakes, AfterFinalize, StopPreviewSession
    <2>2. \A q \in Recordings : recording[q] \in {"live", "stopping"} => recording'[q] \in {"live", "stopping"}
      BY <1>0, <2>1
    <2> QED BY <1>0, <2>1, <2>2 DEF RingInv, WritersAreKnown, ArmedMeansOpen, NoWriterOnAClosedRing
  <1>5. CASE StartPreview
    <2>1. recording' = recording /\ main' = main
      BY <1>5 DEF StartPreview
    <2>2. CASE UNCHANGED previewVars
      BY <2>1, <2>2, RingUntouched
    <2>3. CASE ~UNCHANGED previewVars
      <3>1. /\ ring' = TRUE /\ armed' = TRUE
            /\ \/ UNCHANGED <<previewSession, writers>>
               \/ previewSession' = TRUE /\ writers' = writers \cup {Preview}
               \/ ~previewSession /\ writers' = writers
        BY <1>5, <2>3 DEF StartPreview, StartPreviewSession
      <3> QED BY <1>0, <2>1, <3>1 DEF RingInv, WritersAreKnown, ArmedMeansOpen, NoWriterOnAClosedRing
    <2> QED BY <2>2, <2>3
  <1>6. CASE StopPreview
    <2>1. /\ recording' = recording /\ main' = main /\ armed' = FALSE /\ writers' = writers \ {Preview}
          /\ ipc.at = "dispatch"
          /\ ring' = ring \/ session = None
      BY <1>6 DEF StopPreview, StopPreviewSession, CloseUnlessRecording, Dispatches
    <2>2. session = None /\ main.at = "waiting" => writers' = {}
      BY <1>0, <2>1 DEF RingInv, WritersAreKnown, FilesInv, SessionIsLive, StopsAreCarried
    <2> QED BY <1>0, <2>1, <2>2 DEF RingInv, WritersAreKnown, ArmedMeansOpen, NoWriterOnAClosedRing
  <1>7. CASE StartRecordFails
    <2>1. /\ UNCHANGED <<recording, main, ring, armed>>
          /\ \/ previewSession' = FALSE /\ writers' = writers \ {Preview}
             \/ armed /\ ring /\ previewSession' = TRUE /\ writers' = writers \cup {Preview}
      BY <1>7 DEF StartRecordFails, StopPreviewSession
    <2> QED BY <1>0, <2>1 DEF RingInv, WritersAreKnown, ArmedMeansOpen, NoWriterOnAClosedRing
  <1>8. ASSUME NEW r \in Recordings, StartRecord(r) PROVE RingInv'
    <2>1. /\ recording' = [recording EXCEPT ![r] = "live"] /\ UNCHANGED <<main, armed, ring>>
          /\ writers' = (writers \ {Preview}) \cup (IF armed /\ ring THEN {r} ELSE {})
      BY <1>8 DEF StartRecord
    <2>2. recording'[r] = "live" /\ \A q \in Recordings : q # r => recording'[q] = recording[q]
      BY <1>0, <2>1
    <2> QED BY <1>0, <2>1, <2>2 DEF RingInv, WritersAreKnown, ArmedMeansOpen, NoWriterOnAClosedRing
  <1>9. CASE StopRecordTakes
    <2>1. /\ recording' = [recording EXCEPT ![session] = "stopping"] /\ session \in Recordings
          /\ UNCHANGED <<main, armed, ring, writers, previewSession>>
      BY <1>0, <1>9 DEF StopRecordTakes
    <2>2. \A q \in Recordings : recording[q] \in {"live", "stopping"} => recording'[q] \in {"live", "stopping"}
      BY <1>0, <2>1
    <2> QED BY <1>0, <2>1, <2>2 DEF RingInv, WritersAreKnown, ArmedMeansOpen, NoWriterOnAClosedRing
  <1>10. CASE PreviewRestored
    <2>1. /\ UNCHANGED <<recording, main, armed>> /\ ipc.at = "restore"
          /\ \/ ~armed /\ UNCHANGED <<previewSession, writers>>
             \/ /\ armed /\ ring' = ring
                /\ \/ UNCHANGED <<previewSession, writers>>
                   \/ previewSession' = TRUE /\ writers' = writers \cup {Preview}
                   \/ ~previewSession /\ writers' = writers
      BY <1>10 DEF PreviewRestored, StartPreviewSession
    <2>2. ~armed /\ main.at = "waiting" => writers = {}
      BY <1>0, <2>1 DEF RingInv, WritersAreKnown, FilesInv, SessionIsLive, StopsAreCarried
    <2> QED BY <1>0, <2>1, <2>2 DEF RingInv, WritersAreKnown, ArmedMeansOpen, NoWriterOnAClosedRing
  <1>11. ASSUME NEW r \in Recordings, WriterEnds(r) \/ FileFinalized(r) PROVE RingInv'
    <2>1. /\ UNCHANGED <<main, armed, ring, previewSession>>
          /\ \/ recording' = [recording EXCEPT ![r] = "finalizing"] /\ writers' = writers \ {r}
             \/ recording' = [recording EXCEPT ![r] = "final"] /\ recording[r] = "finalizing" /\ writers' = writers
      BY <1>11 DEF WriterEnds, FileFinalized
    <2>2. \A q \in Recordings : q # r => recording'[q] = recording[q]
      BY <1>0, <2>1
    <2>3. r \notin writers'
      BY <1>0, <2>1 DEF RingInv, WritersAreKnown
    <2> QED BY <1>0, <2>1, <2>2, <2>3 DEF RingInv, WritersAreKnown, ArmedMeansOpen, NoWriterOnAClosedRing
  <1>12. CASE CaptureFollows
    <2>1. /\ UNCHANGED <<recording, main, armed, ring, previewSession>> /\ session \in Recordings
          /\ \/ ring /\ writers' = writers \cup {session}
             \/ writers' = writers \ {session}
      BY <1>0, <1>12 DEF CaptureFollows
    <2>2. recording[session] = "live"
      BY <2>1 DEF FilesInv, SessionIsLive
    <2> QED BY <1>0, <2>1, <2>2 DEF RingInv, WritersAreKnown, ArmedMeansOpen, NoWriterOnAClosedRing
  <1> QED BY <1>1, <1>2, <1>3, <1>4, <1>5, <1>6, <1>7, <1>8, <1>9, <1>10, <1>11, <1>12, EveryStepIsKnown
             DEF PreviewSteps, StateSteps

-----------------------------------------------------------------------------
(* When the host is given up                                               *)

LEMMA HeartUntouched ==
  ASSUME HeartInv, UNCHANGED <<suspensions, silence, heart, heard>>,
         ipc'.at \in Handling <=> ipc.at \in Handling, ipc'.at = "rearmed" <=> ipc.at = "rearmed"
  PROVE  HeartInv'
  BY DEF HeartInv, Serving

LEMMA HeartHolds ==
  ASSUME ServiceTypes, HeartInv, Next
  PROVE  HeartInv'
  <1> USE DEF pipeVars, heartVars, previewVars, sessionVars, exitVars, bounds
  <1>0. /\ ipc \in [at : IpcPlaces, command : Commands \cup {"none"}, holds : Recordings \cup {None}]
        /\ silence \in Int /\ silence <= Timeout /\ heard \in Nat /\ heard <= Timeout /\ Timeout \in Nat \ {0}
    BY ServiceConstants DEF ServiceTypes, ThreadTypes, ClockTypes
  <1>1. CASE Bystanders \/ HostDies \/ CaptureFollows \/ FinalizeTakes \/ FinalizeEnds \/ ExitSteps
    BY <1>1, HeartUntouched
    DEF Bystanders, HostSteps, HostReads, HostLeaves, HostSends, StatsBuilds, StatsSends, StatsEnds, OsShutdown,
        HostDies, CaptureFollows, FinalizeTakes, FinalizeEnds, ExitSteps, MainWakes, StatsJoined, PipeStops,
        PipeJoined, ReleasesJob
  <1>2. ASSUME NEW r \in Recordings, WriterEnds(r) \/ FileFinalized(r) PROVE HeartInv'
    BY <1>2, HeartUntouched DEF WriterEnds, FileFinalized
  <1>3. CASE PumpSteps
    <2>1. /\ ipc.at \notin Handling /\ ipc'.at \notin Handling /\ UNCHANGED <<suspensions, heart>>
          /\ UNCHANGED <<silence, heard>> \/ (silence' = 0 /\ heard' = 0)
      BY <1>0, <1>3 DEF PumpSteps, ClientConnects, AwaitEnds, AwaitFails, PumpReads, PumpEnds, PumpReplies, Disconnects,
                        Handling
    <2> QED BY <2>1 DEF HeartInv, Serving
  <1>4. CASE Suspends \/ CommandDone \/ Resumes
    <2>1. CASE Suspends
      <3>1. ipc.at = "heard" /\ ipc'.at = "dispatch" /\ suspensions' = suspensions + 1
            /\ UNCHANGED <<silence, heart, heard>>
        BY <1>0, <2>1 DEF Suspends
      <3> QED BY <3>1 DEF HeartInv, Serving, Handling
    <2>2. CASE CommandDone
      <3>1. ipc.at = "done" /\ ipc'.at = "rearmed" /\ silence' = 0 /\ heard' = 0 /\ UNCHANGED <<suspensions, heart>>
        BY <1>0, <2>2 DEF CommandDone, Rearm
      <3> QED BY <3>1 DEF HeartInv, Serving, Handling
    <2>3. CASE Resumes
      <3>1. ipc.at = "rearmed" /\ ipc'.at = "reply" /\ suspensions' = suspensions - 1
            /\ UNCHANGED <<silence, heart, heard>>
        BY <1>0, <2>3 DEF Resumes
      <3> QED BY <3>1 DEF HeartInv, Serving, Handling
    <2> QED BY <1>4, <2>1, <2>2, <2>3
  <1>5. CASE NothingToDo \/ Shutdown \/ PreviewSteps \/ StateSteps
    <2>1. /\ ipc.at = "dispatch"
          /\ ipc'.at \in {"done", "publish", "publishStop"}
          /\ UNCHANGED <<suspensions, silence, heart, heard>>
      BY <1>0, <1>5
      DEF NothingToDo, Answers, Dispatches, Shutdown, PreviewSteps, StartPreview, StopPreview, StateSteps,
          StartRecordFails, PauseRecord, ResumeRecord, Publish
    <2> QED BY <2>1, HeartUntouched DEF Handling
  <1>6. ASSUME NEW r \in Recordings, StartRecord(r) PROVE HeartInv'
    <2>1. /\ ipc.at = "dispatch" /\ ipc'.at \in {"done", "publish", "publishStop"}
          /\ UNCHANGED <<suspensions, silence, heart, heard>>
      BY <1>0, <1>6 DEF Dispatches, StartRecord, Publish
    <2> QED BY <2>1, HeartUntouched DEF Handling
  <1>7. CASE StopRecordTakes \/ StopRecordEnds \/ PreviewRestored \/ Announces \/ Publishes
    <2>1. /\ ipc.at \in Handling \ {"rearmed"} /\ ipc'.at \in Handling \ {"rearmed"}
          /\ UNCHANGED <<suspensions, silence, heart, heard>>
      <3>1. CASE StopRecordTakes
        BY <1>0, <3>1 DEF Dispatches, StopRecordTakes, Handling
      <3>2. CASE StopRecordEnds
        BY <1>0, <3>2 DEF StopRecordEnds, Handling
      <3>3. CASE PreviewRestored
        BY <1>0, <3>3 DEF PreviewRestored, Handling
      <3>4. CASE Announces
        BY <1>0, <3>4 DEF Announces, Handling
      <3>5. CASE Publishes
        BY <1>0, <3>5 DEF Publishes, AfterPublish, Handling
      <3> QED BY <1>7, <3>1, <3>2, <3>3, <3>4, <3>5
    <2> QED BY <2>1, HeartUntouched
  <1>8. CASE ClockSteps
    <2>1. ipc' = ipc /\ suspensions' = suspensions
      BY <1>8 DEF ClockSteps, HeartWakes, HeartLooks, HostIsLost, HeartStops, Tick
    <2>2. CASE HeartWakes
      BY <2>1, <2>2 DEF HeartWakes, HeartInv, Serving
    <2>3. CASE HeartLooks \/ HostIsLost \/ HeartStops
      BY <2>1, <2>3 DEF HeartLooks, HostIsLost, HeartStops, HeartInv, Serving
    <2>4. CASE Tick
      BY <1>0, <2>1, <2>4 DEF Tick, HeartInv, Serving
    <2> QED BY <1>8, <2>2, <2>3, <2>4 DEF ClockSteps
  <1> QED BY <1>1, <1>2, <1>3, <1>4, <1>5, <1>6, <1>7, <1>8, EveryStepIsKnown DEF ServiceSteps

-----------------------------------------------------------------------------
LEMMA ServiceStarts == Init => ServiceInv
  <1> SUFFICES ASSUME Init PROVE ServiceInv
    OBVIOUS
  <1>1. PICK previewing \in BOOLEAN :
          /\ unread = 0 /\ request = "none" /\ suspensions = 0 /\ heart = "wait" /\ heard = 0
          /\ ipc = [at |-> IF previewing THEN "read" ELSE "await", command |-> "none", holds |-> None]
          /\ silence = (IF previewing THEN 0 ELSE -1)
          /\ session = None /\ recording = [r \in Recordings |-> "none"]
          /\ previewSession = previewing /\ armed = previewing /\ ring = previewing
          /\ wanted = FALSE /\ writers = (IF previewing THEN {Preview} ELSE {})
          /\ state = "idle" /\ main = [at |-> "waiting", round |-> 1, holds |-> None]
    BY DEF Init
  <1>2. ThreadTypes
    BY <1>1 DEF ThreadTypes, IpcPlaces, MainPlaces
  <1>3. ClockTypes
    BY <1>1, ServiceConstants DEF ClockTypes
  <1>4. SessionTypes
    BY <1>1 DEF SessionTypes
  <1>5. FilesInv
    BY <1>1, ServiceConstants DEF FilesInv, SessionIsLive, StopsAreCarried, NobodyServes
  <1>6. RingInv
    BY <1>1, ServiceConstants DEF RingInv, WritersAreKnown, ArmedMeansOpen, NoWriterOnAClosedRing
  <1>7. HeartInv
    BY <1>1 DEF HeartInv, Handling, Serving
  <1> QED BY <1>2, <1>3, <1>4, <1>5, <1>6, <1>7 DEF ServiceInv, ServiceTypes

LEMMA ServiceStutters ==
  ASSUME ServiceInv, UNCHANGED vars
  PROVE  ServiceInv'
  <1>1. /\ UNCHANGED <<request, unread, ipc, suspensions, silence, heart, heard, session, recording,
                       previewSession, armed, wanted, ring, writers, state, main>>
    BY DEF vars, pipeVars, heartVars, previewVars, sessionVars, exitVars, bounds
  <1>2. ServiceTypes'
    BY <1>1 DEF ServiceInv, ServiceTypes, ThreadTypes, ClockTypes, SessionTypes
  <1> QED BY <1>1, <1>2, FilesUntouched, RingUntouched, HeartUntouched DEF ServiceInv

LEMMA ServiceInvariance == Spec => []ServiceInv
  <1>1. ServiceInv /\ [Next]_vars => ServiceInv'
    BY ServiceTypesHold, FilesHold, RingHolds, HeartHolds, ServiceStutters DEF ServiceInv, FilesInv
  <1> QED BY ServiceStarts, <1>1, PTL DEF Spec

(* Every variable keeps to its values: no more than one suspension of the  *)
(* watchdog is ever in force, and the pipe never holds more than it can.   *)
THEOREM ServiceTypeCorrect == Spec => []TypeOK
  <1>1. ServiceInv => TypeOK
    BY ServiceConstants DEF ServiceInv, ServiceTypes, ClockTypes, SessionTypes, HeartInv, TypeOK
  <1> QED BY <1>1, ServiceInvariance, PTL

(* When the process lets go of the job, every recording it ever began is   *)
(* final: the second look that PipeStops forces on the exit finds whatever *)
(* the last commands started.                                              *)
THEOREM NothingIsLeftUnfinished == Spec => []EveryRecordingIsFinalized
  <1>1. ServiceInv => EveryRecordingIsFinalized
    <2> SUFFICES ASSUME ServiceInv, main.at \in {"release", "exited"}, main.round = 2
                 PROVE  session = None /\ ~previewSession
                        /\ \A r \in Recordings : recording[r] \in {"none", "final"}
      BY DEF EveryRecordingIsFinalized
    <2>1. session = None /\ ~previewSession /\ ipc.at = "ended"
      BY DEF ServiceInv, FilesInv, NobodyServes
    <2>2. \A r \in Recordings : recording[r] \in {"none", "live", "stopping", "finalizing", "final"}
      BY DEF ServiceInv, ServiceTypes, SessionTypes
    <2>3. \A r \in Recordings : recording[r] # "live"
      BY <2>1, ServiceConstants DEF ServiceInv, FilesInv, SessionIsLive
    <2>4. \A r \in Recordings : recording[r] \notin {"stopping", "finalizing"}
      BY <2>1 DEF ServiceInv, FilesInv, StopsAreCarried
    <2> QED BY <2>1, <2>2, <2>3, <2>4
  <1> QED BY <1>1, ServiceInvariance, PTL

(* Until the exit begins the preview's section is mapped wherever somebody *)
(* writes to it: the preview session, the recording or one that is being   *)
(* stopped, whichever of stop_preview, stop_record and the capture thread  *)
(* comes first.                                                            *)
THEOREM WritersHaveTheirRing == Spec => []NoWriterOnAClosedRing
  BY ServiceInvariance, PTL DEF ServiceInv, RingInv

(* The heartbeat thread gives up on the host only after a whole timeout of *)
(* real silence: a command, however long it is served, never counts.       *)
THEOREM ServingIsNotSilence == Spec => ABusyEngineIsNotALostHost
  <1>1. ServiceInv /\ [Next]_vars => [heart # "lost" /\ heart' = "lost" => heard >= Timeout]_vars
    <2> SUFFICES ASSUME ServiceInv, Next, heart # "lost", heart' = "lost"
                 PROVE  heard >= Timeout
      BY DEF vars, heartVars
    <2>1. HeartLooks
      BY EveryStepIsKnown
      DEF Bystanders, HostSteps, ClockSteps, HostReads, HostLeaves, HostSends, HeartWakes,
          HostIsLost, HeartStops, Tick, StatsBuilds, StatsSends, StatsEnds, OsShutdown, HostDies,
          PumpSteps, ClientConnects, AwaitEnds, AwaitFails, PumpReads, PumpEnds, PumpReplies, Disconnects,
          ServiceSteps, Suspends, CommandDone, Resumes, NothingToDo, Answers, Shutdown, PreviewSteps,
          StartPreview, StopPreview, StateSteps, StartRecordFails, PauseRecord, ResumeRecord, Publishes,
          StartRecord, StopRecordTakes, StopRecordEnds, PreviewRestored, Announces, WriterEnds, FileFinalized, CaptureFollows,
          FinalizeTakes, FinalizeEnds, ExitSteps, MainWakes, StatsJoined, PipeStops, PipeJoined, ReleasesJob,
          heartVars
    <2>2. heart = "look" /\ silence >= Timeout
      BY <2>1 DEF HeartLooks
    <2>3. silence <= heard /\ silence \in Int /\ heard \in Int /\ Timeout \in Int
      BY <2>2, ServiceConstants DEF ServiceInv, HeartInv, ServiceTypes, ClockTypes
    <2> QED BY <2>2, <2>3
  <1> QED BY <1>1, ServiceInvariance, PTL DEF Spec, ABusyEngineIsNotALostHost
=============================================================================
