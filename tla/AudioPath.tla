----------------------------- MODULE AudioPath -----------------------------
(***************************************************************************)
(* The system-mix track: LoopbackCapture's thread, the silence thread, the *)
(* bounded queue they share, the aenc thread that places what it pops on   *)
(* the audio timeline, and the thread that starts, migrates and stops the  *)
(* path.  Placement is AudioTimeline's: a packet is put where its stamp    *)
(* says, through the pause clock; a gap is filled; an overlap is trimmed.  *)
(*                                                                         *)
(* Durations are in units of time whatever the endpoint's rate: one unit   *)
(* is one frame.  The track is its length and what the last item put on it.*)
(* The encoder's refusals are AacTrack's, the drift control DriftControl's.*)
(***************************************************************************)
EXTENDS Integers, Sequences

CONSTANTS
    Duration,        \* of a packet
    Period,          \* buffer_period_ns
    Jitter,          \* how late a packet is delivered, and how far into the last one its stamp lies
    Capacity,        \* kAudioQueueCapacity
    Usable,          \* the endpoints, of Endpoints, whose format the resampler takes
    Excluded,        \* races that do not happen
    MayTimeOut,      \* threads whose bounded join may expire
    MaxNow,          \* bound: clock ticks, none of them during the stop
    MaxPackets,      \* bound: packets captured
    MaxPauses,       \* bound: pauses
    MaxMigrations,   \* bound: changes of endpoint
    FramesAt,        \* bound: moments at which the first frame may come
    StopsAt,         \* bound: moments at which the path may be stopped
    FailsAt          \* bound: moments at which a thread may end by an exception

Endpoints == 1 .. MaxMigrations + 1

(* The races: a pause between a new endpoint's opening and its seam; a tick *)
(* of silence stamped after a seam and queued before it; a pause while     *)
(* something from before the last one is still on its way.                 *)
RaceNames == {"pauseInSeam", "tickPastSeam", "pauseTooLate"}

ASSUME AudioAssumption ==
    /\ {Duration, Period, Capacity} \subseteq Nat \ {0}
    /\ {Jitter, MaxNow, MaxPackets, MaxPauses, MaxMigrations} \subseteq Nat
    /\ Jitter < Period
    /\ Usable \subseteq Endpoints /\ MayTimeOut \subseteq {"silence", "aenc"}
    /\ {FramesAt, StopsAt, FailsAt} \subseteq SUBSET Nat /\ Excluded \subseteq RaceNames

None == -1

VARIABLES
    now,             \* QPC
    video, audio,    \* SessionEpoch: stamp of the first frame and of the first packet
    t0,              \* as the encode path knows it
    clock,           \* the pause clock, between its commands
    capture,         \* [at, endpoint, item]: the capture thread
    silence,         \* [at, qpc]: the silence thread
    owner,           \* [at, seam]: the thread that starts, migrates and stops
    opened, stopped, lastOffer, queue, queueOpen,     \* AudioEncodePath
    aenc, held, track,                                \* what the aenc thread owns
    packets, lastEnd, pauses,
    written          \* history: what the last item put on the track

epochVars == <<video, audio, t0>>
pathVars == <<opened, stopped, lastOffer>>
aencVars == <<aenc, held, track, written>>
threads == <<capture, silence, owner>>
bounds == <<packets, lastEnd, pauses>>
vars == <<now, epochVars, clock, threads, pathVars, queue, queueOpen, aencVars, bounds>>

NoItem == [kind |-> "none", qpc |-> 0, endpoint |-> 0]
Packet(qpc, endpoint) == [kind |-> "buffer", qpc |-> qpc, endpoint |-> endpoint]
SilenceTick(qpc) == [kind |-> "tick", qpc |-> qpc, endpoint |-> 0]
MigrateInput(qpc, endpoint) == [kind |-> "migrate", qpc |-> qpc, endpoint |-> endpoint]

(* AudioPath::start has opened the endpoint and not yet the encode path.   *)
Init ==
    /\ now = 0 /\ video = None /\ audio = None /\ t0 = None
    /\ clock = [paused |-> FALSE, begin |-> 0, total |-> 0, lastBegin |-> 0, lastSpan |-> 0]
    /\ capture = [at |-> "idle", endpoint |-> 1, item |-> NoItem]
    /\ silence = [at |-> "none", qpc |-> 0]
    /\ owner = [at |-> "opening", seam |-> 0]
    /\ opened = FALSE /\ stopped = FALSE /\ lastOffer = 0
    /\ queue = <<>> /\ queueOpen = TRUE
    /\ aenc = "none" /\ held = <<>>
    /\ track = [started |-> FALSE, origin |-> 0, base |-> 0, head |-> 0, input |-> 1,
                excised |-> 0, behind |-> 0]
    /\ packets = 0 /\ lastEnd = 0 /\ pauses = 0
    /\ written = <<>>

Stopping == owner.at \in {"joinCapture", "joinSilence", "joinAenc", "done", "timedOut"}

Tick ==
    /\ now < MaxNow /\ ~Stopping
    /\ "tickPastSeam" \in Excluded => owner.at # "seam"
    /\ now' = now + 1
    /\ UNCHANGED <<epochVars, clock, threads, pathVars, queue, queueOpen, aencVars, bounds>>

-----------------------------------------------------------------------------
(* The epoch: the later of the two firsts, and set once.                   *)
Later(a, b) == IF a > b THEN a ELSE b

SetEpoch(frame, packet) ==
    IF frame = None \/ packet = None \/ t0 # None
    THEN UNCHANGED <<t0, lastOffer>>
    ELSE /\ t0' = Later(frame, packet)
         /\ lastOffer' = Later(lastOffer, Later(frame, packet))

NoteVideo ==
    /\ video = None /\ opened /\ now \in FramesAt
    /\ video' = now
    /\ SetEpoch(now, audio)
    /\ UNCHANGED <<now, audio, clock, threads, opened, stopped, queue, queueOpen, aencVars,
                   bounds>>

-----------------------------------------------------------------------------
(* PauseClock.  Pauses and resumes are over before the next item is looked *)
(* up: PauseResume has the interleavings.  One command runs at a time.     *)

NotInTheSeam == owner.at # "migrate" /\ (owner.seam # now \/ owner.seam = 0)

(* The clock can place what is older than the last pause, and nothing that *)
(* is older than the one before: what waits when a pause begins was        *)
(* recorded after the last.                                                *)
LastResumed == clock.lastBegin + clock.lastSpan
Waiting ==
    {queue[i].qpc : i \in DOMAIN queue} \cup {held[i].qpc : i \in DOMAIN held}
    \cup (IF capture.at \in {"noted", "pushing"} THEN {capture.item.qpc} ELSE {})
    \cup (IF silence.at = "pushing" THEN {silence.qpc} ELSE {})
    \cup (IF owner.at = "seam" THEN {owner.seam} ELSE {})
NothingIsOld ==
    pauses > 0 => now - Jitter - Duration >= LastResumed /\ \A qpc \in Waiting : qpc >= LastResumed

Pause ==
    /\ ~clock.paused /\ t0 # None /\ pauses < MaxPauses /\ ~Stopping
    /\ "pauseInSeam" \in Excluded => NotInTheSeam
    /\ "pauseTooLate" \in Excluded => NothingIsOld
    /\ clock' = [clock EXCEPT !.paused = TRUE, !.begin = now]
    /\ pauses' = pauses + 1
    /\ UNCHANGED <<now, epochVars, threads, pathVars, queue, queueOpen, aencVars, packets,
                   lastEnd>>

Resume ==
    /\ clock.paused /\ now > clock.begin /\ ~Stopping
    /\ clock' = [paused |-> FALSE, begin |-> clock.begin, total |-> clock.total + now - clock.begin,
                 lastBegin |-> clock.begin, lastSpan |-> now - clock.begin]
    /\ UNCHANGED <<now, epochVars, threads, pathVars, queue, queueOpen, aencVars, bounds>>

(* What a recording that leaves out the pauses has got to at qpc, counting *)
(* the last of them exactly.                                               *)
TimelineTime(qpc) ==
    LET end == clock.lastBegin + clock.lastSpan
        since == CASE clock.paused /\ qpc >= clock.begin -> clock.begin - qpc
                   [] ~clock.paused /\ qpc < clock.lastBegin -> clock.lastSpan
                   [] ~clock.paused /\ qpc \in clock.lastBegin .. end -> end - qpc
                   [] OTHER -> 0
    IN  qpc - t0 - clock.total + since

DuringAPause(qpc) == qpc >= clock.lastBegin /\ qpc < clock.lastBegin + clock.lastSpan
Excised(qpc) == clock.paused /\ qpc >= clock.begin
Located(qpc, origin) ==
    LET straggler == ~clock.paused /\ qpc < clock.lastBegin
        excised == clock.total - (IF straggler THEN clock.lastSpan ELSE 0)
    IN  Later(qpc - origin - excised, 0)

-----------------------------------------------------------------------------
(* The capture thread.                                                     *)

HasRoom == ~queueOpen \/ Len(queue) < Capacity
Push(item) == queue' = IF queueOpen THEN Append(queue, item) ELSE queue

(* A packet that was recorded from qpc on, by an endpoint open by then, is *)
(* handed to the sink.  Only the first endpoint's tells the session of its *)
(* first packet.                                                           *)
Delivers(qpc) ==
    /\ capture.at = "idle" /\ packets < MaxPackets
    /\ qpc + Duration \in now - Jitter .. now
    /\ qpc >= 0 /\ qpc + Jitter >= lastEnd
    /\ packets' = packets + 1 /\ lastEnd' = Later(lastEnd, qpc + Duration)
    /\ IF audio = None /\ capture.endpoint = 1
       THEN audio' = qpc /\ capture' = [capture EXCEPT !.at = "noted", !.item = Packet(qpc, 1)]
            /\ SetEpoch(video, qpc)
       ELSE /\ capture' = [capture EXCEPT !.at = "noted", !.item = Packet(qpc, capture.endpoint)]
            /\ UNCHANGED <<audio, t0, lastOffer>>
    /\ UNCHANGED <<now, video, clock, silence, owner, opened, stopped, queue, queueOpen, aencVars, pauses>>

Offers ==
    /\ capture.at = "noted"
    /\ IF opened /\ ~stopped
       THEN /\ lastOffer' = capture.item.qpc
            /\ capture' = [capture EXCEPT !.at = "pushing"]
       ELSE /\ capture' = [capture EXCEPT !.at = "idle", !.item = NoItem]
            /\ UNCHANGED lastOffer
    /\ UNCHANGED <<now, epochVars, clock, silence, owner, opened, stopped, queue, queueOpen,
                   aencVars, bounds>>

CapturePushes ==
    /\ capture.at = "pushing" /\ HasRoom
    /\ Push(capture.item)
    /\ capture' = [capture EXCEPT !.at = "idle", !.item = NoItem]
    /\ UNCHANGED <<now, epochVars, clock, silence, owner, pathVars, queueOpen, aencVars,
                   bounds>>

-----------------------------------------------------------------------------
(* The silence thread.                                                     *)

(* Mutant: silence is made up only after a packet has come.                *)
QuietAfterSound == t0 # None /\ ~stopped /\ lastOffer > t0 /\ now - lastOffer > 2 * Period
SilenceDue == t0 # None /\ ~stopped /\ now - lastOffer > 2 * Period

(* A second look at the same moment would find nothing new.                *)
SilenceLooks ==
    /\ silence.at = "waiting" /\ SilenceDue /\ silence.qpc # now
    /\ silence' = [at |-> "pushing", qpc |-> now]
    /\ UNCHANGED <<now, epochVars, clock, capture, owner, pathVars, queue, queueOpen, aencVars,
                   bounds>>

SilencePushes ==
    /\ silence.at = "pushing" /\ HasRoom
    /\ Push(SilenceTick(silence.qpc))
    /\ silence' = [silence EXCEPT !.at = "waiting"]
    /\ UNCHANGED <<now, epochVars, clock, capture, owner, pathVars, queueOpen, aencVars,
                   bounds>>

SilenceFails ==
    /\ silence.at = "waiting" /\ now \in FailsAt
    /\ silence' = [silence EXCEPT !.at = "ended"]
    /\ UNCHANGED <<now, epochVars, clock, capture, owner, pathVars, queue, queueOpen, aencVars, bounds>>

SilenceEnds ==
    /\ silence.at = "waiting" /\ owner.at = "joinSilence"
    /\ silence' = [silence EXCEPT !.at = "ended"]
    /\ UNCHANGED <<now, epochVars, clock, capture, owner, pathVars, queue, queueOpen, aencVars, bounds>>

-----------------------------------------------------------------------------
(* AudioTimeline                                                           *)

Length(tl) == tl.base + tl.head

Missing(tl, qpc) ==
    IF Excised(qpc) THEN 0 ELSE Later(Located(qpc, tl.origin) - tl.head, 0)

(* What accept makes of a packet that lies gap frames beyond the write     *)
(* head: less than a period either way is noise of the stamp; a gap is     *)
(* filled; of an overlap only the frames beyond the head are used.         *)
Gap(tl, qpc) == Located(qpc, tl.origin) - tl.head
(* Mutant: whatever lies between a packet and the write head is noise.     *)
FilledNever(gap) == 0
Filled(gap) == IF gap >= Period THEN gap ELSE 0
Used(gap) == IF gap > -Period THEN Duration ELSE Later(Duration + gap, 0)

-----------------------------------------------------------------------------
(* The aenc thread.  A state of it is [track, written].                    *)

PlaceTick(s, item) ==
    [s EXCEPT !.track.head = @ + Missing(s.track, item.qpc)]

Piece(tl, qpc, gap) ==
    LET first == qpc + Duration - Used(gap)
    IN  [qpc |-> first, at |-> Length(tl) + Filled(gap), due |-> TimelineTime(first),
         paused |-> DuringAPause(first)]

PlaceBuffer(s, item) ==
    LET gap == Gap(s.track, item.qpc)
    IN  IF Excised(item.qpc) \/ Used(gap) = 0 THEN s
        ELSE [s EXCEPT !.track.head = @ + Filled(gap) + Used(gap),
                       !.written = Append(@, Piece(s.track, item.qpc, gap))]

(* The gap up to the seam is filled, then a new timeline starts there.     *)
(* From it, too, locate subtracts every pause, those before the seam with  *)
(* the rest (history: excised, those before the last seam; behind, what    *)
(* that adds up to).                                                       *)
FillToSeam(tl, qpc) == [tl EXCEPT !.head = @ + Missing(tl, qpc)]
PausedBefore(qpc) == qpc - t0 - TimelineTime(qpc)

ApplyMigration(s, item) ==
    LET old == FillToSeam(s.track, item.qpc)
    IN  IF item.endpoint \notin Usable THEN [s EXCEPT !.track = old]
        ELSE [s EXCEPT !.track = [started |-> TRUE, origin |-> item.qpc, base |-> Length(old),
                                  head |-> 0, input |-> item.endpoint,
                                  excised |-> PausedBefore(item.qpc),
                                  behind |-> old.behind + PausedBefore(item.qpc)]]

Place(s, item) ==
    CASE item.kind = "tick" -> PlaceTick(s, item)
      [] item.kind = "buffer" -> PlaceBuffer(s, item)
      [] OTHER -> ApplyMigration(s, item)

(* What came before the epoch is held, the oldest going first.             *)
Hold(item) == held' = Append(IF Len(held) >= Capacity THEN Tail(held) ELSE held, item)

(* One item after the other, the oldest first.                             *)
Replayed(start, items) ==
    LET after[n \in 0 .. Len(items)] ==
            IF n = 0 THEN start ELSE Place(after[n - 1], items[n])
    IN  after[Len(items)]

(* The first item after it starts the timeline and replays what was held.  *)
Placed(item) ==
    IF track.started THEN Place([track |-> track, written |-> <<>>], item)
    ELSE Replayed([track |-> [track EXCEPT !.started = TRUE, !.origin = t0], written |-> <<>>],
                  Append(held, item))

Process(item) ==
    \E result \in {Placed(item)} :
        /\ track' = result.track /\ written' = result.written
        /\ held' = IF track.started THEN held ELSE <<>>

AencPops ==
    /\ aenc = "running" /\ queue # <<>>
    /\ queue' = Tail(queue)
    /\ IF t0 = None
       THEN Hold(Head(queue)) /\ UNCHANGED <<track, written>>
       ELSE Process(Head(queue))
    /\ UNCHANGED <<now, epochVars, clock, threads, pathVars, queueOpen, aenc, bounds>>

(* Mutant: the thread leaves when the path stops, not when the queue does. *)
AencLeavesEarly == owner.at \in {"joinCapture", "joinSilence"}
AencMayEnd == ~queueOpen /\ queue = <<>>

AencEnds ==
    /\ aenc = "running" /\ AencMayEnd
    /\ aenc' = "ended"
    /\ UNCHANGED <<now, epochVars, clock, threads, pathVars, queue, queueOpen, held, track, written,
                   bounds>>

(* An exception ends the thread and nobody closes its queue.               *)
AencFails ==
    /\ aenc = "running" /\ now \in FailsAt
    /\ aenc' = "failed"
    /\ UNCHANGED <<now, epochVars, clock, threads, pathVars, queue, queueOpen, held, track, written,
                   bounds>>

-----------------------------------------------------------------------------
(* The thread that starts, migrates and stops.                             *)

OpenEncode ==
    /\ owner.at = "opening"
    /\ owner' = [owner EXCEPT !.at = "idle"]
    /\ opened' = TRUE
    /\ aenc' = "running"
    /\ silence' = [silence EXCEPT !.at = "waiting"]
    /\ UNCHANGED <<now, epochVars, clock, capture, stopped, lastOffer, queue, queueOpen, held, track,
                   written, bounds>>

OwnerOnly == UNCHANGED <<now, epochVars, clock, silence, pathVars, queue, queueOpen, aencVars, bounds>>

(* migrate_to: LoopbackCapture::stop joins the thread without a deadline.  *)
(* Assumed: the epoch has been settled.                                    *)
MigrateBegins ==
    /\ "pauseInSeam" \in Excluded => ~clock.paused
    /\ owner.at = "idle" /\ t0 # None /\ capture.endpoint <= MaxMigrations
    /\ owner' = [owner EXCEPT !.at = "migrate"]
    /\ UNCHANGED capture /\ OwnerOnly

(* The seam is the moment at which start returns.  An endpoint that would  *)
(* not open leaves the recording in silence.                               *)
MigrateReopens ==
    /\ owner.at = "migrate" /\ capture.at \in {"idle", "off"}
    /\ \/ /\ capture' = [at |-> "idle", endpoint |-> capture.endpoint + 1, item |-> NoItem]
          /\ owner' = [at |-> "seam", seam |-> now]
          /\ lastEnd' = now + Jitter
       \/ /\ capture' = [at |-> "off", endpoint |-> capture.endpoint + 1, item |-> NoItem]
          /\ owner' = [owner EXCEPT !.at = "idle"]
          /\ UNCHANGED lastEnd
    /\ UNCHANGED <<now, epochVars, clock, silence, pathVars, queue, queueOpen, aencVars, packets,
                   pauses>>

MigratePushes ==
    /\ owner.at = "seam" /\ HasRoom
    /\ Push(MigrateInput(owner.seam, capture.endpoint))
    /\ owner' = [owner EXCEPT !.at = "idle"]
    /\ UNCHANGED <<now, epochVars, clock, capture, silence, pathVars, queueOpen, aencVars,
                   bounds>>

StopBegins ==
    /\ owner.at = "idle" /\ now \in StopsAt
    /\ owner' = [owner EXCEPT !.at = "joinCapture"]
    /\ UNCHANGED capture /\ OwnerOnly

StopJoinsCapture ==
    /\ owner.at = "joinCapture" /\ capture.at \in {"idle", "off"}
    /\ capture' = [capture EXCEPT !.at = "off"]
    /\ owner' = [owner EXCEPT !.at = "joinSilence"]
    /\ OwnerOnly

(* A silence thread given up on leaves the queue open and aenc running.    *)
StopJoinsSilence ==
    /\ owner.at = "joinSilence"
    /\ \/ /\ silence.at = "ended"
          /\ owner' = [owner EXCEPT !.at = "joinAenc"]
          /\ stopped' = TRUE /\ queueOpen' = FALSE
       \/ /\ silence.at # "ended" /\ "silence" \in MayTimeOut
          /\ owner' = [owner EXCEPT !.at = "timedOut"]
          /\ UNCHANGED <<stopped, queueOpen>>
    /\ UNCHANGED <<now, epochVars, clock, capture, silence, opened, lastOffer, queue, aencVars, bounds>>

(* finish: what is still held has no timeline to go on.                    *)
StopJoinsAenc ==
    /\ owner.at = "joinAenc"
    /\ \/ /\ aenc \in {"ended", "failed"}
          /\ owner' = [owner EXCEPT !.at = "done"]
          /\ held' = <<>>
       \/ /\ aenc = "running" /\ "aenc" \in MayTimeOut
          /\ owner' = [owner EXCEPT !.at = "timedOut"]
          /\ UNCHANGED held
    /\ UNCHANGED <<now, epochVars, clock, capture, silence, pathVars, queue, queueOpen, aenc, track,
                   written, bounds>>

-----------------------------------------------------------------------------
Capture == Offers \/ CapturePushes \/ \E qpc \in 0 .. MaxNow : Delivers(qpc)
Silence == SilenceLooks \/ SilencePushes \/ SilenceEnds
Aenc == AencPops \/ AencEnds
Owner ==
    \/ MigrateReopens \/ MigratePushes
    \/ StopJoinsCapture \/ StopJoinsSilence \/ StopJoinsAenc

Next ==
    \/ Tick \/ NoteVideo \/ Pause \/ Resume
    \/ Capture \/ Silence \/ SilenceFails \/ Aenc \/ AencFails
    \/ OpenEncode \/ MigrateBegins \/ StopBegins \/ Owner

(* The threads run on; what is begun is carried through.                   *)
Fairness ==
    /\ WF_vars(Offers \/ CapturePushes)
    /\ SF_vars(CapturePushes) /\ SF_vars(SilencePushes)
    /\ WF_vars(SilenceLooks) /\ WF_vars(SilenceEnds) /\ WF_vars(Aenc) /\ WF_vars(Owner)

Spec == Init /\ [][Next]_vars /\ Fairness

-----------------------------------------------------------------------------
TypeOK ==
    /\ now \in 0 .. MaxNow /\ {video, audio, t0} \subseteq {None} \cup 0 .. MaxNow
    /\ capture.at \in {"idle", "noted", "pushing", "off"}
    /\ silence.at \in {"none", "waiting", "pushing", "ended"}
    /\ owner.at \in {"opening", "idle", "migrate", "seam", "joinCapture", "joinSilence",
                     "joinAenc", "done", "timedOut"}
    /\ Len(queue) <= Capacity /\ Len(held) <= Capacity
    /\ aenc \in {"none", "running", "ended", "failed"}
    /\ {track.origin, track.base, track.head, track.excised, track.behind} \subseteq Nat
    /\ {opened, stopped, queueOpen, track.started, clock.paused} \subseteq BOOLEAN

(* The write head may differ from a stamp by less than a period, and by as *)
(* much again for every change of endpoint.  A packet that lies partly     *)
(* before the epoch or in a pause is written whole, and a seam keeps the   *)
(* track that much ahead.                                                  *)
Migrations == track.input - 1
Slack == (Migrations + 1) * (Period - 1)
Ahead == Migrations * Duration

(* Audio stays where its stamp puts it on the shared timeline: within the  *)
(* jitter that is not repaired, however silence, late packets, pauses and  *)
(* changes of endpoint follow one another; but each change of endpoint     *)
(* puts the track behind by the pauses that came before it.  (What was     *)
(* recorded inside a pause but placed after it is out of step by that      *)
(* pause.)                                                                 *)
AudioStaysInStep ==
    \A i \in DOMAIN written :
        LET piece == written[i] IN
        piece.qpc >= t0 /\ ~piece.paused =>
            piece.at \in piece.due - (Period - 1) - track.behind .. piece.due + Slack + Ahead

(* Nothing recorded before the epoch is on the track.  (The comment at the *)
(* trim in accept; locate's floor at zero keeps the trim from happening.)  *)
NothingBeforeTheEpoch == \A i \in DOMAIN written : written[i].qpc >= t0

(* While nothing comes from the endpoint, silence keeps the track within   *)
(* two periods of the recording, and within two of what came before a      *)
(* pause, as long as the aenc and the silence thread run; what a change of *)
(* endpoint put it behind is not made up.                                  *)
Recording ==
    /\ t0 # None /\ owner.at = "idle" /\ ~clock.paused
    /\ aenc = "running" /\ silence.at # "ended"
Behind == (2 * Period) * (IF clock.total > 0 THEN 2 ELSE 1)
TheTrackCatchesUp ==
    <>[]Recording =>
    <>[](Recording => TimelineTime(now) - Length(track) <= Behind + track.behind)

(* A stop that has begun returns: the capture thread is joined without a   *)
(* deadline, and it may be waiting for room in the queue, so the aenc      *)
(* thread must go on until that queue has been closed and emptied.  An     *)
(* exception ends it sooner, and the stop then waits for ever if the       *)
(* capture thread does.                                                    *)
Stranded == aenc = "failed" /\ queueOpen /\ capture.at = "pushing"
StopReturns == owner.at = "joinCapture" ~> owner.at \in {"done", "timedOut"} \/ Stranded
=============================================================================
