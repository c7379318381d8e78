------------------------------ MODULE Segments ------------------------------
(***************************************************************************)
(* mux/segment_planner.cpp, the mux thread's rollover, the finalization of *)
(* VideoPipeline::stop and mux/recovery.cpp: how a recording becomes files *)
(* and what is left of it when the process dies at any of these steps.     *)
(* Time is counted in frames and size in packets.  A file is named by its  *)
(* part number; 0 is the recording's own name, under which nothing is      *)
(* written when it is segmented.                                           *)
(***************************************************************************)
EXTENDS Integers, Sequences, SequencesExt

CONSTANTS
    DurationLimit, SizeLimit, \* the two triggers
    MaxVideo, MaxAudio,       \* bounds: packets produced
    MaxRefusals,              \* bound: next files that could not be opened
    MaxCrashes                \* bound: deaths of the process

ASSUME SegmentsAssumption ==
    /\ {DurationLimit, SizeLimit} \subseteq Nat \ {0}
    /\ {MaxVideo, MaxAudio, MaxRefusals, MaxCrashes} \subseteq Nat

VARIABLES
    segmented, container, \* the settings
    phase,     \* where the recording, its stop or its recovery is
    keyframeAsked,
    muxQueue,  \* packets on their way to the mux thread
    mux,       \* [at, packet]: where the mux thread is, and what it holds
    planner,   \* [index, awaiting, haveStart, start, startBytes]
    files,     \* on disk, in part order: [packets, form]
    origin,    \* segment_origin_ns
    completed, \* completed_segments, as [from, to]
    sidecar,   \* the .fcrecover file: "unwritten", "present" or "removed"
    frames, audio, refusals, crashes

settingVars == <<segmented, container>>
producerVars == <<keyframeAsked, frames, audio>>
fileVars == <<planner, files, origin, completed, refusals>>
segVars == <<settingVars, producerVars, fileVars, phase, muxQueue, mux, sidecar, crashes>>

Nothing == [pts |-> -1, key |-> FALSE, audio |-> FALSE]
MuxIdle == [at |-> "pop", packet |-> Nothing]
Opened == [packets |-> <<>>, form |-> "open"]
Fresh == [index |-> 1, awaiting |-> FALSE, haveStart |-> FALSE, start |-> 0, startBytes |-> 0]

Name(k) == IF segmented THEN k ELSE 0
Names == {Name(k) : k \in DOMAIN files}
BytesWritten == Len(Last(files).packets)

(* VideoPipeline::start: the first file is open.                           *)
SegInit ==
    /\ segmented \in BOOLEAN /\ container \in {"mp4", "mkv"}
    /\ phase = "opened" /\ keyframeAsked = FALSE
    /\ muxQueue = <<>> /\ mux = MuxIdle
    /\ planner = Fresh /\ files = <<Opened>> /\ origin = 0 /\ completed = <<>>
    /\ sidecar = "unwritten"
    /\ frames = 0 /\ audio = 0 /\ refusals = 0 /\ crashes = 0

(* Best effort: a recording starts without its record.                     *)
WriteRecord ==
    /\ phase = "opened"
    /\ sidecar' \in {"present", sidecar}
    /\ phase' = "recording"
    /\ UNCHANGED <<settingVars, producerVars, fileVars, muxQueue, mux, crashes>>

-----------------------------------------------------------------------------
(* The encoders.  A keyframe comes when it is asked for, and on its own.   *)
(* The queue's limit is BoundedQueue's matter.                             *)
Emit(packet) ==
    /\ phase = "recording"
    /\ muxQueue' = Append(muxQueue, packet)
    /\ UNCHANGED <<settingVars, fileVars, phase, mux, sidecar, crashes>>

VideoPacket ==
    /\ frames < MaxVideo
    /\ \E natural \in BOOLEAN :
          Emit([pts |-> frames, key |-> natural \/ keyframeAsked \/ frames = 0, audio |-> FALSE])
    /\ frames' = frames + 1
    /\ keyframeAsked' = FALSE
    /\ UNCHANGED audio

AudioPacket ==
    /\ audio < MaxAudio
    /\ Emit([Nothing EXCEPT !.audio = TRUE])
    /\ audio' = audio + 1
    /\ UNCHANGED <<keyframeAsked, frames>>

-----------------------------------------------------------------------------
(* SegmentPlanner::offer                                                   *)
Latched(packet) ==
    IF planner.haveStart THEN planner
    ELSE [planner EXCEPT !.haveStart = TRUE, !.start = packet.pts, !.startBytes = BytesWritten]

Due(packet) ==
    LET from == Latched(packet)
    IN  packet.pts - from.start >= DurationLimit \/ BytesWritten - from.startBytes >= SizeLimit

Offer(packet) ==
    CASE planner.awaiting -> IF packet.key THEN "split" ELSE "continue"
      [] ~planner.awaiting /\ Due(packet) -> IF packet.key THEN "split" ELSE "request"
      [] OTHER -> "continue"

(* note_split: the marks move to the packet that opens the next file.      *)
NoteSplit(packet) ==
    [index |-> planner.index + 1, awaiting |-> FALSE, haveStart |-> TRUE,
     start |-> packet.pts, startBytes |-> 0]

-----------------------------------------------------------------------------
(* The mux thread                                                          *)
MuxPops ==
    /\ phase \in {"recording", "draining"}
    /\ mux.at = "pop" /\ muxQueue # <<>>
    /\ muxQueue' = Tail(muxQueue)
    /\ LET packet == Head(muxQueue)
           offered == segmented /\ ~packet.audio
           action == IF offered THEN Offer(packet) ELSE "continue"
       IN  /\ mux' = [at |-> IF action = "split" THEN "open" ELSE "write", packet |-> packet]
           /\ planner' = IF offered THEN [Latched(packet) EXCEPT !.awaiting = @ \/ action = "request"]
                         ELSE planner
           /\ keyframeAsked' = (keyframeAsked \/ action = "request")
    /\ UNCHANGED <<settingVars, phase, frames, audio, files, origin, completed, refusals, sidecar, crashes>>

(* Mutant: the packet that found no next file has no file at all.          *)
LoseThePacket == mux' = MuxIdle
KeepThePacket == mux' = [mux EXCEPT !.at = "write"]

MuxOpensNext ==
    /\ mux.at = "open"
    /\ \/ /\ files' = Append(files, Opened)
          /\ mux' = [mux EXCEPT !.at = "close"]
          /\ UNCHANGED refusals
       \/ /\ refusals < MaxRefusals
          /\ refusals' = refusals + 1
          /\ KeepThePacket
          /\ UNCHANGED files
    /\ UNCHANGED <<settingVars, producerVars, phase, muxQueue, planner, origin, completed, sidecar, crashes>>

(* The previous file is closed, well or not; the next takes its place.     *)
MuxClosesPrevious ==
    /\ mux.at = "close"
    /\ \E form \in {"trailed", "broken"} : files' = [files EXCEPT ![planner.index].form = form]
    /\ completed' = Append(completed, [from |-> origin, to |-> mux.packet.pts])
    /\ origin' = mux.packet.pts
    /\ planner' = NoteSplit(mux.packet)
    /\ mux' = [mux EXCEPT !.at = "write"]
    /\ UNCHANGED <<settingVars, producerVars, phase, muxQueue, refusals, sidecar, crashes>>

MuxWrites ==
    /\ mux.at = "write"
    /\ files' = [files EXCEPT ![planner.index].packets = Append(@, mux.packet)]
    /\ mux' = MuxIdle
    /\ UNCHANGED <<settingVars, producerVars, phase, muxQueue, planner, origin, completed, refusals, sidecar, crashes>>

-----------------------------------------------------------------------------
(* VideoPipeline::stop, and recovery of what it could not finish           *)
Goes(from, to) ==
    /\ phase = from /\ phase' = to
    /\ UNCHANGED <<settingVars, producerVars, planner, origin, completed, refusals, muxQueue, mux, crashes>>

LastFileIs(form) == files' = [files EXCEPT ![Len(files)].form = form]

Stop == Goes("recording", "draining") /\ UNCHANGED <<files, sidecar>>

Finalize ==
    /\ muxQueue = <<>> /\ mux = MuxIdle
    /\ \/ Goes("draining", "finalize") /\ LastFileIs("trailed")
       \/ Goes("draining", "ended") /\ LastFileIs("broken")
    /\ UNCHANGED sidecar

(* Mutant: a failed validation ends the matter.                            *)
GiveUp == sidecar' = "removed"
KeepTheClaim == UNCHANGED sidecar

(* An MP4 is rewritten beside the recording, validated there and swapped   *)
(* in; a Matroska file is validated where it is.                           *)
Remux ==
    /\ container = "mp4"
    /\ \/ Goes("finalize", "staged") /\ UNCHANGED sidecar
       \/ Goes("finalize", "ended") /\ KeepTheClaim
    /\ UNCHANGED files

Validate ==
    LET at == IF container = "mp4" THEN "staged" ELSE "finalize"
    IN  \/ Goes(at, "valid") /\ LastFileIs("valid") /\ UNCHANGED sidecar
        \/ Goes(at, "ended") /\ UNCHANGED files /\ KeepTheClaim

ClearRecord ==
    /\ Goes("valid", "ended")
    /\ sidecar' = IF sidecar = "present" THEN "removed" ELSE sidecar
    /\ UNCHANGED files

(* The next launch.  recover looks for the file the record names, which is *)
(* the recording's own name.                                               *)
Recover ==
    /\ sidecar = "present"
    /\ \E from \in {"ended", "crashed"} :
          \/ 0 \in Names /\ Goes(from, "finalize") /\ UNCHANGED <<files, sidecar>>
          \/ 0 \notin Names /\ Goes(from, "ended") /\ UNCHANGED files /\ sidecar' = "removed"

(* The process dies: what it held is gone, what is on disk stays.          *)
Crash ==
    /\ crashes < MaxCrashes
    /\ phase \notin {"ended", "crashed"}
    /\ crashes' = crashes + 1
    /\ phase' = "crashed"
    /\ muxQueue' = <<>> /\ mux' = MuxIdle
    /\ UNCHANGED <<settingVars, producerVars, fileVars, sidecar>>

Recording == WriteRecord \/ VideoPacket \/ AudioPacket
Muxing == MuxPops \/ MuxOpensNext \/ MuxClosesPrevious \/ MuxWrites
Finishing == Stop \/ Finalize \/ Remux \/ Validate \/ ClearRecord \/ Recover \/ Crash

SegNext == Recording \/ Muxing \/ Finishing
SegSpec == SegInit /\ [][SegNext]_segVars

-----------------------------------------------------------------------------
SegTypeOK ==
    /\ phase \in {"opened", "recording", "draining", "finalize", "staged", "valid", "ended",
                  "crashed"}
    /\ mux.at \in {"pop", "open", "close", "write"}
    /\ sidecar \in {"unwritten", "present", "removed"}
    /\ Len(files) - planner.index \in 0 .. 1 /\ Len(completed) = planner.index - 1
    /\ \A k \in DOMAIN files : files[k].form \in {"open", "trailed", "broken", "valid"}

IsVideo(k, j) == ~files[k].packets[j].audio
PtsAt(k, j) == files[k].packets[j].pts

(* What a player has shown when it comes to packet j of file k.            *)
Earlier(l, i, k, j) == l < k \/ (l = k /\ i < j)
ShownBefore(k, j) ==
    UNION {{PtsAt(l, i) : i \in {n \in DOMAIN files[l].packets : IsVideo(l, n) /\ Earlier(l, n, k, j)}}
             : l \in DOMAIN files}

(* "Segment rollover must not drop a single frame": read one after the     *)
(* other, the files hold every video packet the mux thread wrote, in order:*)
(* what comes before a frame is exactly the frames before it.              *)
NoFrameIsLostAtASplit ==
    \A k \in DOMAIN files : \A j \in DOMAIN files[k].packets :
        IsVideo(k, j) => ShownBefore(k, j) = 0 .. PtsAt(k, j) - 1

(* A file that is not the first starts with a keyframe, before any audio.  *)
SegmentsStartAtAKeyframe ==
    \A k \in 2 .. Len(files) : files[k].packets # <<>> => Head(files[k].packets).key

(* A trigger measures its own segment: when packet j of file k was offered *)
(* one of them had fired since the first video packet of that file.        *)
Fired(k, j) ==
    LET packets == files[k].packets
        first == SelectInSeq(packets, LAMBDA packet : ~packet.audio)
    IN  packets[j].pts - packets[first].pts >= DurationLimit \/ j - first >= SizeLimit

(* No file ends before its trigger has fired, and none goes on past the    *)
(* first keyframe after it, unless the next could not be opened.           *)
SegmentsFollowTheTriggers ==
    segmented =>
        /\ \A k \in DOMAIN completed :
              LET length == completed[k].to - completed[k].from
              IN  length >= DurationLimit \/ Len(files[k].packets) >= SizeLimit
        /\ refusals = 0 =>
              \A k \in DOMAIN files : \A j \in DOMAIN files[k].packets :
                  files[k].packets[j].key => ~Fired(k, j)

(* The record of an unfinished recording is kept, through deaths at any    *)
(* step of recording, finalization and recovery, until the file has been   *)
(* validated.                                                              *)
UnfinishedStaysClaimed ==
    sidecar = "removed" /\ ~segmented => Last(files).form = "valid"

(* recovery.h:141: "The sidecar is removed only when the recording ends up *)
(* valid".                                                                 *)
RemovedOnlyWhenValid == sidecar = "removed" /\ BytesWritten > 0 => Last(files).form = "valid"
=============================================================================
