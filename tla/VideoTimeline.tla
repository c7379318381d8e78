--------------------------- MODULE VideoTimeline ---------------------------
(***************************************************************************)
(* The video track as the venc thread writes it: each frame is converted,  *)
(* given its slot by the pacer (FramePacer), and submitted to the encoder  *)
(* together with the duplicates that fill the gap before it.  A device     *)
(* rebuild replaces the encoder in mid-track, and the ladder retimes the   *)
(* grid.  The encoder is external: what is known of it is the decode       *)
(* timestamp of its first packet and of the last packet of a flush.        *)
(***************************************************************************)
EXTENDS FramePacer

CONSTANTS
    ReorderDepth,    \* max_b_frames
    MaxRebuilds,     \* bound: device rebuilds
    MaxFaults        \* bound: failed conversions and submissions

ASSUME TimelineAssumption ==
    /\ ReorderDepth \in Nat /\ MaxRebuilds \in Nat /\ MaxFaults \in Nat
    /\ MaxReserved >= ReorderDepth * MaxRebuilds
    /\ \A rate \in Rates : rate <= InitialFps    \* the ladder only lowers the rate

(* health_monitor.cpp:197: the ladder halves the rate, so that every slot  *)
(* of the lowered grid is one of the configured grid's.                    *)
ASSUME GridsAssumption ==
    \A rate \in Rates : TicksPerFrame(rate) % TicksPerFrame(InitialFps) = 0

VARIABLES
    requestedFps,    \* published by the watchdog, 0 before it has spoken
    venc,            \* [at, frame, elapsed, todo]: todo holds the PTS still to submit
    frame,           \* ordinal of the latest frame taken, which is also its content
    converted,       \* content of the converter's output texture
    lastElapsed,     \* when the latest frame was captured
    encoder,         \* [fresh, last]: no packet yet; PTS of the latest submission
    lastDts,         \* decode timestamp of the latest packet the muxer was given
    refusedDts,      \* packets whose decode timestamp went back
    file,            \* sequence of [pts, content]
    rebuilds, faults

trackVars == <<requestedFps, venc, frame, converted, lastElapsed, encoder, lastDts, refusedDts, file,
               rebuilds, faults>>
allVars == <<vars, trackVars>>

Idle == [at |-> "idle", elapsed |-> 0, todo |-> <<>>]

TrackInit ==
    /\ Init
    /\ requestedFps = 0
    /\ venc = Idle
    /\ frame = 0 /\ converted = 0 /\ lastElapsed = 0
    /\ encoder = [fresh |-> TRUE, last |-> -1]
    /\ lastDts = -1 - ReorderDepth * TimebaseDen
    /\ refusedDts = 0
    /\ file = <<>>
    /\ rebuilds = 0 /\ faults = 0

-----------------------------------------------------------------------------
(* resolve_epoch_locked: capture or audio completes the epoch.             *)
EpochResolves == Start /\ UNCHANGED trackVars

WatchdogAsks(rate) ==
    /\ requestedFps' = rate
    /\ UNCHANGED <<vars, venc, frame, converted, lastElapsed, encoder, lastDts, refusedDts, file,
                   rebuilds, faults>>

(* encode_one, first half: the ladder's request is applied and the frame   *)
(* converted.                                                              *)
(* Mutant: a pacer is started anew at the requested rate.                  *)
RestartPacer ==
    IF requestedFps > 0 /\ requestedFps # fps
    THEN /\ fps' = requestedFps /\ lastIndex' = -1 /\ lastPts' = -1 /\ written' = <<>>
         /\ UNCHANGED <<started, counters>>
    ELSE UNCHANGED vars
ApplyLadderRequest ==
    IF requestedFps > 0 /\ requestedFps # fps THEN Retime(requestedFps) ELSE UNCHANGED vars

VencConverts(elapsed) ==
    /\ venc.at = "idle"
    /\ started
    /\ elapsed >= lastElapsed
    /\ Undecided
    /\ ApplyLadderRequest
    /\ venc' = [at |-> "decide", elapsed |-> elapsed, todo |-> <<>>]
    /\ frame' = frame + 1
    /\ converted' = frame + 1
    /\ lastElapsed' = elapsed
    /\ UNCHANGED <<requestedFps, encoder, lastDts, refusedDts, file, rebuilds, faults>>

ConversionFails(elapsed) ==
    /\ venc.at = "idle"
    /\ started
    /\ elapsed >= lastElapsed
    /\ faults < MaxFaults
    /\ ApplyLadderRequest
    /\ lastElapsed' = elapsed
    /\ faults' = faults + 1
    /\ UNCHANGED <<requestedFps, venc, frame, converted, encoder, lastDts, refusedDts, file, rebuilds>>

VencDrops ==
    /\ venc.at = "decide"
    /\ DecideDrops(venc.elapsed)
    /\ venc' = Idle
    /\ UNCHANGED <<requestedFps, frame, converted, lastElapsed, encoder, lastDts, refusedDts, file,
                   rebuilds, faults>>

(* Duplicates first, then the frame itself.                                *)
VencDecides ==
    /\ venc.at = "decide"
    /\ DecideEmits(venc.elapsed)
    /\ venc' = [venc EXCEPT !.at = "submit", !.todo = Batch(venc.elapsed)]
    /\ UNCHANGED <<requestedFps, frame, converted, lastElapsed, encoder, lastDts, refusedDts, file,
                   rebuilds, faults>>

-----------------------------------------------------------------------------
(* A packet reaches the muxer, which refuses one whose DTS does not        *)
(* advance.                                                                *)
Mux(dts) ==
    /\ lastDts' = IF dts > lastDts THEN dts ELSE lastDts
    /\ refusedDts' = refusedDts + (IF dts > lastDts THEN 0 ELSE 1)

(* The first packet of an encoder decodes ReorderDepth frames, of the rate *)
(* it was opened with, before its PTS.  The packets after it advance; an   *)
(* encoder that does not reorder holds nothing back for the flush.         *)
FirstDts(pts) == pts - ReorderDepth * TicksPerFrame(InitialFps)

AfterSubmission == IF Len(venc.todo) = 1 THEN Idle ELSE [venc EXCEPT !.todo = Tail(@)]

VencSubmits ==
    /\ venc.at = "submit"
    /\ LET pts == Head(venc.todo)
       IN  /\ file' = Append(file, [pts |-> pts, content |-> converted])
           /\ encoder' = [fresh |-> FALSE, last |-> pts]
           /\ IF encoder.fresh \/ ReorderDepth = 0 THEN Mux(FirstDts(pts))
              ELSE UNCHANGED <<lastDts, refusedDts>>
    /\ venc' = AfterSubmission
    /\ UNCHANGED <<vars, requestedFps, frame, converted, lastElapsed, rebuilds, faults>>

(* The rest of the batch is abandoned; the pacer has moved on already.     *)
SubmissionFails ==
    /\ venc.at = "submit"
    /\ faults < MaxFaults
    /\ faults' = faults + 1
    /\ venc' = Idle
    /\ UNCHANGED <<vars, requestedFps, frame, converted, lastElapsed, encoder, lastDts, refusedDts,
                   file, rebuilds>>

(* rebuild_device, the venc thread joined: the old encoder is flushed to   *)
(* its last frame, the new one opened, and the pacer told to skip.         *)
(* Mutant: the track goes on without a gap.                                *)
ReserveNothing == UNCHANGED vars
ReserveForReordering == ReserveDiscontinuity(ReorderDepth)

RebuildDevice ==
    /\ venc.at = "idle"
    /\ rebuilds < MaxRebuilds
    /\ IF encoder.fresh \/ ReorderDepth = 0 THEN UNCHANGED <<lastDts, refusedDts>>
       ELSE Mux(encoder.last)
    /\ encoder' = [fresh |-> TRUE, last |-> -1]
    /\ ReserveForReordering
    /\ rebuilds' = rebuilds + 1
    /\ UNCHANGED <<requestedFps, venc, frame, converted, lastElapsed, file, faults>>

TrackNext ==
    \/ EpochResolves
    \/ \E rate \in Rates : WatchdogAsks(rate)
    \/ \E elapsed \in 0 .. MaxElapsed : VencConverts(elapsed)
    \/ \E elapsed \in 0 .. MaxElapsed : ConversionFails(elapsed)
    \/ VencDrops
    \/ VencDecides
    \/ VencSubmits
    \/ SubmissionFails
    \/ RebuildDevice

TrackSpec == TrackInit /\ [][TrackNext]_allVars

-----------------------------------------------------------------------------
TrackTypeOK ==
    /\ TypeOK
    /\ requestedFps \in Rates \cup {0}
    /\ venc.at \in {"idle", "decide", "submit"} /\ (venc.at = "submit") = (venc.todo # <<>>)
    /\ {frame, converted, lastElapsed, refusedDts} \subseteq Nat
    /\ rebuilds \in 0 .. MaxRebuilds /\ faults \in 0 .. MaxFaults

(* The muxer never meets a packet that decodes before one it has written:  *)
(* the slots skipped at a rebuild are enough at any rate the ladder has    *)
(* set before or sets between the rebuild and the next frame.              *)
NoDecodeTimeGoesBack == refusedDts = 0

(* Without a rebuild or a failed submission the track is contiguous: each  *)
(* entry follows the last within a frame of the coarsest grid in use.      *)
TrackIsContiguous ==
    reserved = 0 /\ faults = 0 =>
        \A i \in 2 .. Len(file) :
            /\ file[i].pts > file[i - 1].pts
            /\ \E rate \in Rates : file[i].pts - file[i - 1].pts <= TicksPerFrame(rate)

(* What the encoder is given, the pictures of every encoder of a recording *)
(* in one sequence, has rising timestamps and never an older picture after *)
(* a newer: across submissions that fail in the middle of a batch, after   *)
(* which the pacer has moved on and the track has not, across the ladder's *)
(* rates and across rebuilds.                                              *)
PicturesAdvance ==
    \A i \in 2 .. Len(file) :
        /\ file[i - 1].pts < file[i].pts
        /\ file[i - 1].content <= file[i].content
=============================================================================
