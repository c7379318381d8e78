---------------------------- MODULE PauseResume ----------------------------
(***************************************************************************)
(* Pausing a recording: the session's gate on capture, the pipeline's      *)
(* quiesce, timing::PauseClock, and the encode threads that map each frame *)
(* or buffer to the timeline through the clock.  The clock's fields are    *)
(* atomics: every load and store is a step of its own, in program order.   *)
(*                                                                         *)
(* Video and audio reach the clock differently.  Capture asks the session  *)
(* whether it is paused before it queues a frame, and the quiesce drains   *)
(* the frame queue; audio buffers are queued regardless and only the clock *)
(* decides what becomes of them.                                           *)
(***************************************************************************)
EXTENDS Integers, Sequences, FiniteSets

CONSTANTS
    Streams,           \* subset of {"video", "audio"}
    LateStreams,       \* of these an item may still be on its way when a pause ends
    DeadlineMayPass,   \* whether the quiesce may give up
    MaxNow,            \* bound: clock ticks
    MaxItems,          \* bound: items captured, per stream
    MaxPauses          \* bound: pauses

ASSUME PauseAssumption ==
    /\ "video" \in Streams /\ Streams \subseteq {"video", "audio"}
    /\ LateStreams \subseteq Streams
    /\ DeadlineMayPass \in BOOLEAN
    /\ MaxNow \in Nat /\ MaxItems \in Nat /\ MaxPauses \in Nat

VARIABLES
    now,               \* QPC
    gate,              \* RecordingSession::Impl::paused
    paused, pauseBegin, total, lastPauseBegin, lastSpan,   \* PauseClock
    command,           \* [at, stamp]: the thread that serves pause and resume
    capture,           \* [at, qpc], per stream: the thread that queues items
    queue,             \* per stream: stamps waiting for the encode thread
    mapper,           \* [at, qpc, excised, key], per stream
    idrRequested,
    captured,          \* per stream: number of items captured
    spans,             \* history: <<begin, end>> of the completed pauses
    astray,            \* history, per stream: what the lookup under way reads may not agree
    placed,            \* history, per stream: sequence of [qpc, timeline, key, astray]
    thrown             \* history: stamps of the video frames found to be excised

clock == <<paused, pauseBegin, total, lastPauseBegin, lastSpan>>
stages == <<capture, queue, mapper, captured>>
pauseVars == <<now, gate, clock, command, stages, idrRequested, spans, astray, placed, thrown>>

PauseInit ==
    /\ now = 1 /\ gate = FALSE
    /\ paused = FALSE /\ pauseBegin = 0 /\ total = 0
    /\ lastPauseBegin = 0 /\ lastSpan = 0
    /\ command = [at |-> "idle", stamp |-> 0]
    /\ capture = [s \in Streams |-> [at |-> "idle", qpc |-> 0]]
    /\ queue = [s \in Streams |-> <<>>]
    /\ mapper = [s \in Streams |-> [at |-> "idle", qpc |-> 0, excised |-> 0, key |-> FALSE]]
    /\ idrRequested = FALSE
    /\ captured = [s \in Streams |-> 0]
    /\ spans = <<>>
    /\ astray = [s \in Streams |-> FALSE]
    /\ placed = [s \in Streams |-> <<>>]
    /\ thrown = {}

(* Every reading of the clock is later than the one before.                *)
ReadClock == now < MaxNow /\ now' = now + 1

-----------------------------------------------------------------------------
(* Capture: an item is stamped, then (video) the gate is read, then queued.*)
Acquire(s) ==
    /\ capture[s].at = "idle"
    /\ captured[s] < MaxItems
    /\ ReadClock
    /\ capture' = [capture EXCEPT ![s] = [at |-> "acquired", qpc |-> now]]
    /\ captured' = [captured EXCEPT ![s] = @ + 1]
    /\ UNCHANGED <<gate, clock, command, queue, mapper, idrRequested, spans, astray, placed, thrown>>

GateOpen(s) == s = "video" => ~gate

ReadGate(s) ==
    /\ capture[s].at = "acquired"
    /\ capture' = [capture EXCEPT ![s].at = IF GateOpen(s) THEN "submitting" ELSE "idle"]
    /\ UNCHANGED <<now, gate, clock, command, queue, mapper, captured, idrRequested, spans,
                   astray, placed, thrown>>

Submit(s) ==
    /\ capture[s].at = "submitting"
    /\ queue' = [queue EXCEPT ![s] = Append(@, capture[s].qpc)]
    /\ capture' = [capture EXCEPT ![s].at = "idle"]
    /\ UNCHANGED <<now, gate, clock, command, mapper, captured, idrRequested, spans,
                   astray, placed, thrown>>

-----------------------------------------------------------------------------
(* The command thread.  RecordingSession::pause shuts the gate, then       *)
(* VideoPipeline::pause reads the clock, waits for the frame queue to      *)
(* empty or the deadline to pass, and opens the span.                      *)
CommandAt(from, to) == command.at = from /\ command' = [command EXCEPT !.at = to]
Untouched == UNCHANGED <<stages, placed, thrown>>
CommandOnly == Untouched /\ UNCHANGED astray

(* The timing the runs assume of items on their way: of some streams none  *)
(* is left when a pause ends.                                              *)
Unplaced(s) ==
    (IF mapper[s].at = "idle" THEN {} ELSE {mapper[s].qpc})
        \cup {queue[s][i] : i \in DOMAIN queue[s]}
        \cup (IF capture[s].at = "idle" THEN {} ELSE {capture[s].qpc})

CaughtUp == \A s \in Streams \ LateStreams : Unplaced(s) = {}

ShutGate ==
    /\ CommandAt("idle", "readClock")
    /\ ~gate
    /\ Len(spans) < MaxPauses
    /\ gate' = TRUE
    /\ CommandOnly /\ UNCHANGED <<now, clock, idrRequested, spans>>

PauseReadsClock ==
    /\ command.at = "readClock"
    /\ ReadClock
    /\ command' = [at |-> "drain", stamp |-> now]
    /\ CommandOnly /\ UNCHANGED <<gate, clock, idrRequested, spans>>

DrainEnds ==
    /\ CommandAt("drain", "begin")
    /\ DeadlineMayPass \/ queue["video"] = <<>>
    /\ CommandOnly /\ UNCHANGED <<now, gate, clock, idrRequested, spans>>

PauseStoresBegin ==
    /\ CommandAt("begin", "publish")
    /\ pauseBegin' = command.stamp
    /\ CommandOnly
    /\ UNCHANGED <<now, gate, paused, total, lastPauseBegin, lastSpan, idrRequested, spans>>

PausePublishes ==
    /\ CommandAt("publish", "idle")
    /\ paused' = TRUE
    /\ CommandOnly
    /\ UNCHANGED <<now, gate, pauseBegin, total, lastPauseBegin, lastSpan, idrRequested, spans>>

(* Resume: the clock is read, the span closed store by store, the keyframe *)
(* asked for, and only then the gate opened.                               *)
ResumeReadsClock ==
    /\ command.at = "idle"
    /\ gate /\ paused
    /\ CaughtUp
    /\ ReadClock
    /\ command' = [at |-> "span", stamp |-> now]
    /\ CommandOnly /\ UNCHANGED <<gate, clock, idrRequested, spans>>

Duration == IF command.stamp > pauseBegin THEN command.stamp - pauseBegin ELSE 0

(* A lookup that has read the total and not yet the last it will read.     *)
HalfRead == {"loadPaused", "loadBegin", "loadLastBegin", "loadLastSpan"}

ResumeStoresSpan ==
    /\ CommandAt("span", "lastBegin")
    /\ lastSpan' = Duration
    /\ astray' = [s \in Streams |-> astray[s] \/ mapper[s].at \in HalfRead]
    /\ Untouched
    /\ UNCHANGED <<now, gate, paused, pauseBegin, total, lastPauseBegin, idrRequested, spans>>

ResumeStoresBegin ==
    /\ CommandAt("lastBegin", "total")
    /\ lastPauseBegin' = pauseBegin
    /\ CommandOnly
    /\ UNCHANGED <<now, gate, paused, pauseBegin, total, lastSpan, idrRequested, spans>>

(* Mutant: the total is the latest span only.                              *)
LatestSpanOnly == total' = Duration
AddSpan == total' = total + Duration

ResumeAddsSpan ==
    /\ CommandAt("total", "clear")
    /\ AddSpan
    /\ spans' = Append(spans, <<pauseBegin, command.stamp>>)
    /\ CommandOnly
    /\ UNCHANGED <<now, gate, paused, pauseBegin, lastPauseBegin, lastSpan, idrRequested>>

ResumeClearsPaused ==
    /\ CommandAt("clear", "askIdr")
    /\ paused' = FALSE
    /\ CommandOnly
    /\ UNCHANGED <<now, gate, pauseBegin, total, lastPauseBegin, lastSpan, idrRequested, spans>>

(* Mutant: the keyframe is not asked for.                                  *)
NoRequest == UNCHANGED idrRequested
RequestIdr == idrRequested' = TRUE

ResumeAsksForKeyframe ==
    /\ CommandAt("askIdr", "openGate")
    /\ RequestIdr
    /\ CommandOnly /\ UNCHANGED <<now, gate, clock, spans>>

OpenGate ==
    /\ CommandAt("openGate", "idle")
    /\ gate' = FALSE
    /\ CommandOnly /\ UNCHANGED <<now, clock, idrRequested, spans>>

-----------------------------------------------------------------------------
(* An encode thread: takes an item, (video) consumes the request for a     *)
(* keyframe, and reads the clock load by load: PauseClock::locate.         *)
EncoderKeeps == UNCHANGED <<now, gate, clock, command, capture, captured, spans>>

Pop(s) ==
    /\ mapper[s].at = "idle"
    /\ queue[s] # <<>>
    /\ queue' = [queue EXCEPT ![s] = Tail(@)]
    /\ mapper' = [mapper EXCEPT ![s].at = "ladder", ![s].qpc = Head(queue[s])]
    /\ EncoderKeeps /\ UNCHANGED <<idrRequested, astray, placed, thrown>>

(* request_keyframe latches in the encoder until a frame is submitted.     *)
TakeKeyframeRequest(s) ==
    /\ mapper[s].at = "ladder"
    /\ mapper' = [mapper EXCEPT ![s].at = "loadTotal",
                                  ![s].key = @ \/ (s = "video" /\ idrRequested)]
    /\ idrRequested' = (idrRequested /\ s # "video")
    /\ EncoderKeeps /\ UNCHANGED <<queue, astray, placed, thrown>>

(* Between a resume's first store and its last the fields do not agree.    *)
Storing == command.at \in {"lastBegin", "total", "clear"}
Closing == command.at = "span" \/ Storing

LoadTotal(s) ==
    /\ mapper[s].at = "loadTotal"
    /\ mapper' = [mapper EXCEPT ![s].at = "loadPaused", ![s].excised = total]
    /\ astray' = [astray EXCEPT ![s] = Storing]
    /\ EncoderKeeps /\ UNCHANGED <<queue, idrRequested, placed, thrown>>

(* The correction is for one pause: of an item from before the last pause  *)
(* but one, the open one among them, it leaves the others uncorrected.     *)
TwoPausesOld(qpc) == \E k \in DOMAIN spans : qpc < spans[k][1] /\ (paused \/ k < Len(spans))

LoadPaused(s) ==
    /\ mapper[s].at = "loadPaused"
    /\ mapper' = [mapper EXCEPT ![s].at = IF paused THEN "loadBegin" ELSE "loadLastBegin"]
    /\ astray' = [astray EXCEPT ![s] = @ \/ TwoPausesOld(mapper[s].qpc)]
    /\ EncoderKeeps /\ UNCHANGED <<queue, idrRequested, placed, thrown>>

(* Inside the open span: the item is discarded.                            *)
InOpenSpan(qpc) == qpc >= pauseBegin

LoadBegin(s) ==
    /\ mapper[s].at = "loadBegin"
    /\ mapper' = [mapper EXCEPT ![s].at = IF InOpenSpan(mapper[s].qpc) THEN "idle" ELSE "place"]
    /\ thrown' = thrown \cup (IF s = "video" /\ InOpenSpan(mapper[s].qpc) THEN {mapper[s].qpc} ELSE {})
    /\ astray' = [astray EXCEPT ![s] = @ /\ ~InOpenSpan(mapper[s].qpc)]
    /\ EncoderKeeps /\ UNCHANGED <<queue, idrRequested, placed>>

LoadLastBegin(s) ==
    /\ mapper[s].at = "loadLastBegin"
    /\ IF mapper[s].qpc < lastPauseBegin
       THEN mapper' = [mapper EXCEPT ![s].at = "loadLastSpan"]
       ELSE mapper' = [mapper EXCEPT ![s].at = "place"]
    /\ EncoderKeeps /\ UNCHANGED <<queue, idrRequested, astray, placed, thrown>>

LoadLastSpan(s) ==
    /\ mapper[s].at = "loadLastSpan"
    /\ mapper' = [mapper EXCEPT ![s].at = "place", ![s].excised = @ - lastSpan]
    /\ EncoderKeeps /\ UNCHANGED <<queue, idrRequested, astray, placed, thrown>>

Timeline(e) == IF e.qpc > e.excised THEN e.qpc - e.excised ELSE 0

Place(s) ==
    /\ mapper[s].at = "place"
    /\ placed' = [placed EXCEPT ![s] =
                     Append(@, [qpc |-> mapper[s].qpc, timeline |-> Timeline(mapper[s]),
                                key |-> mapper[s].key, astray |-> astray[s]])]
    /\ mapper' = [mapper EXCEPT ![s].at = "idle", ![s].key = FALSE]
    /\ astray' = [astray EXCEPT ![s] = FALSE]
    /\ EncoderKeeps /\ UNCHANGED <<queue, idrRequested, thrown>>

-----------------------------------------------------------------------------
Command ==
    \/ ShutGate
    \/ PauseReadsClock
    \/ DrainEnds
    \/ PauseStoresBegin
    \/ PausePublishes
    \/ ResumeReadsClock
    \/ ResumeStoresSpan
    \/ ResumeStoresBegin
    \/ ResumeAddsSpan
    \/ ResumeClearsPaused
    \/ ResumeAsksForKeyframe
    \/ OpenGate

Capture(s) == Acquire(s) \/ ReadGate(s) \/ Submit(s)

Encode(s) ==
    \/ Pop(s)
    \/ TakeKeyframeRequest(s)
    \/ LoadTotal(s)
    \/ LoadPaused(s)
    \/ LoadBegin(s)
    \/ LoadLastBegin(s)
    \/ LoadLastSpan(s)
    \/ Place(s)

PauseNext ==
    \/ Command
    \/ \E s \in Streams : Capture(s) \/ Encode(s)

PauseSpec == PauseInit /\ [][PauseNext]_pauseVars

-----------------------------------------------------------------------------
Thread == [at : STRING, qpc : 0 .. MaxNow]

PauseTypeOK ==
    /\ now \in 1 .. MaxNow /\ {gate, paused, idrRequested} \subseteq BOOLEAN
    /\ {pauseBegin, total, lastPauseBegin, lastSpan} \subseteq 0 .. MaxNow
    /\ command \in [at : STRING, stamp : 0 .. MaxNow]
    /\ capture \in [Streams -> Thread]
    /\ mapper \in [Streams -> [at : STRING, qpc : 0 .. MaxNow, excised : Int, key : BOOLEAN]]
    /\ \A s \in Streams : \A i \in DOMAIN queue[s] : queue[s][i] \in 1 .. MaxNow
    /\ astray \in [Streams -> BOOLEAN]

Items == UNION {{placed[s][i] : i \in DOMAIN placed[s]} : s \in Streams}

(* What the completed pauses say of a moment.                              *)
InPause(qpc) == \E k \in DOMAIN spans : spans[k][1] <= qpc /\ qpc < spans[k][2]

(* How much of the time before a moment was paused, tick by tick.          *)
PausedBefore(qpc) == {t \in 0 .. qpc - 1 : InPause(t)}
ExcisedBefore(qpc) == Cardinality(PausedBefore(qpc))

Exact(item) == item.timeline = item.qpc - ExcisedBefore(item.qpc)

(* Everything placed lands at its own time less the paused time before it, *)
(* however many pauses there have been and whatever they overtook, unless  *)
(* a resume met the lookup between its first load and its last, or the     *)
(* item is from before the last pause but one.                             *)
ExactUnlessAstray == \A item \in Items : ~InPause(item.qpc) /\ ~item.astray => Exact(item)

(* The pauses a lookup can have read of, the one being stored among them,  *)
(* and of these the last before a moment and all that follow it.           *)
Stored ==
    spans \o (IF command.at \in {"lastBegin", "total"} THEN <<<<pauseBegin, command.stamp>>>> ELSE <<>>)
Around(qpc) == {k \in DOMAIN Stored : \A j \in DOMAIN Stored : j > k => qpc < Stored[j][1]}
PausedAround(qpc) ==
    {t \in 0 .. now : \E k \in Around(qpc) : Stored[k][1] <= t /\ t < Stored[k][2]}

(* And even then it is out by no more than those pauses.                   *)
NeverFurtherThanThePauses ==
    \A item \in Items :
        ~InPause(item.qpc) =>
            LET error == item.timeline - (item.qpc - ExcisedBefore(item.qpc))
                most == Cardinality(PausedAround(item.qpc))
            IN  -most <= error /\ error <= most

(* The excision itself.                                                    *)
PlacedExactly == ExactUnlessAstray /\ NeverFurtherThanThePauses

(* The first frame after each pause is a keyframe, so that nothing in it   *)
(* refers to what was on the screen before.                                *)
SeamIsAKeyframe ==
    \A k \in DOMAIN spans, i \in DOMAIN placed["video"] :
        LET After(j) == placed["video"][j].qpc >= spans[k][2]
        IN  After(i) /\ (\A j \in 1 .. i - 1 : ~After(j)) => placed["video"][i].key

(* A frame is discarded only if it was captured during a pause: none of    *)
(* those that follow a resume is still judged by the pause before it.      *)
NoFrameIsLostAtTheSeam ==
    \A qpc \in thrown :
        \/ InPause(qpc)
        \/ paused /\ pauseBegin <= qpc /\ (Closing => qpc < command.stamp)
=============================================================================
