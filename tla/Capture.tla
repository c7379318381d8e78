------------------------------- MODULE Capture -------------------------------
(***************************************************************************)
(* The screen-capture backends: capture/wgc (Windows.Graphics.Capture) and *)
(* capture/dda (Desktop Duplication), behind IScreenCapture.               *)
(*                                                                         *)
(* One thread of the session starts a backend, acquires and releases       *)
(* frames, and stops it.  The backend's own thread answers `start` and     *)
(* then, for WGC, only keeps the objects alive while the system calls back *)
(* with frames; for DDA it is the loop around AcquireNextFrame.  A bounded *)
(* queue that displaces its oldest frame lies between the two.  Frames     *)
(* carry a counted reference of a texture: a WGC frame its own, every DDA  *)
(* frame the one copy `latest`.                                            *)
(*                                                                         *)
(* Left out: sizes, formats, adapters, the pictures themselves, and the    *)
(* waiting of `acquire` (a timeout changes nothing).                       *)
(***************************************************************************)
EXTENDS Integers, Sequences, FiniteSets

CONSTANTS
  GrabCapacity,  \* kQueueCapacity
  MaxTextures,   \* bound: textures made in one behaviour
  MaxGrabs,      \* bound: frames pushed in one behaviour
  GrabFaults,    \* bound: failures, targets that close, access that is lost
  MaxGrabStarts, \* bound: calls of start()
  ClosesEarly,   \* may the target close before the worker has set `running`?
  LateArrival    \* may a callback outlive the Close of its frame pool?

ASSUME CaptureAssumption ==
  /\ GrabCapacity \in Nat \ {0}
  /\ {MaxTextures, MaxGrabs, GrabFaults, MaxGrabStarts} \subseteq Nat
  /\ {ClosesEarly, LateArrival} \subseteq BOOLEAN

VARIABLES
  backend,   \* the backend create_capture made for this session
  grabber,   \* its thread
  user,      \* the session's thread: idle, starting, capturing, stopping
  halt,      \* Impl::stopping
  live,      \* Impl::running
  answer,    \* start_complete and start_result: "none", "ok" or "failed"
  target,    \* "open", "closed", or "noticed" once the Closed handler ran
  duplicates,\* Impl::duplication is not null (DDA)
  latest,    \* Impl::latest: a texture, 0 when null (DDA)
  arriving,  \* the texture of a FrameArrived callback before its push, or 0 (WGC)
  grabbed,   \* Impl::queue: the textures of the frames, oldest first
  held,      \* the texture of the frame the session has acquired, or 0
  refs,      \* references that have been counted on each texture
  grabTally  \* frames pushed, faults and starts so far

grabVars == <<backend, grabber, user, halt, live, answer, target, duplicates, latest,
              arriving, grabbed, held, refs, grabTally>>

Textures == 1 .. MaxTextures
GrabberAt == {"none", "opening", "opened", "told", "runs", "lost", "ended", "crashed"}

GrabTypeOK ==
  /\ backend \in {"none", "wgc", "dda"}
  /\ grabber \in GrabberAt
  /\ user \in {"idle", "starting", "capturing", "stopping"}
  /\ {halt, live, duplicates} \subseteq BOOLEAN
  /\ answer \in {"none", "ok", "failed"}
  /\ target \in {"open", "closed", "noticed"}
  /\ {latest, arriving, held} \subseteq Textures \union {0}
  /\ grabbed \in Seq(Textures) /\ Len(grabbed) <= GrabCapacity
  /\ refs \in [Textures -> Nat]
  /\ grabTally \in [frames : 0 .. MaxGrabs, faults : 0 .. GrabFaults,
                    starts : 0 .. MaxGrabStarts, made : 0 .. MaxTextures]

GrabInit ==
  /\ backend = "none" /\ grabber = "none" /\ user = "idle"
  /\ halt = FALSE /\ live = FALSE /\ answer = "none" /\ target = "open"
  /\ duplicates = FALSE /\ latest = 0 /\ arriving = 0 /\ held = 0
  /\ grabbed = <<>>
  /\ refs = [x \in Textures |-> 0]
  /\ grabTally = [frames |-> 0, faults |-> 0, starts |-> 0, made |-> 0]

-----------------------------------------------------------------------------
(* Textures, the queue *)

\* The next texture that is created, or handed out by the frame pool.
NewTexture == grabTally.made + 1
CanMake == grabTally.made < MaxTextures
Counted(x, n) == IF x = 0 THEN refs ELSE [refs EXCEPT ![x] = @ + n]

\* push(): the texture x enters the queue; a full queue releases its oldest.
CanGrab == grabTally.frames < MaxGrabs
Shed    == IF Len(grabbed) < GrabCapacity THEN 0 ELSE Head(grabbed)
QueuedBehind(x) == Append(IF Shed = 0 THEN grabbed ELSE Tail(grabbed), x)

\* Mutant: the displaced frame keeps its reference.
ReleasedNothing(counts, x) == counts
ReleasedBy(counts, x) == IF x = 0 THEN counts ELSE [counts EXCEPT ![x] = @ - 1]

Fails == /\ grabTally.faults < GrabFaults
         /\ grabTally' = [grabTally EXCEPT !.faults = @ + 1]

-----------------------------------------------------------------------------
(* The session's thread *)

\* select_backend: a window needs WGC, a preference is honoured or refused,
\* otherwise WGC before DDA.
SelectBackend(preference, window, wgc, dda) ==
  CASE preference # "dda" /\ wgc                          -> "wgc"
    [] preference = "dda" /\ ~window /\ dda              -> "dda"
    [] preference = "auto" /\ ~window /\ ~wgc /\ dda     -> "dda"
    [] OTHER                                             -> "none"

\* create_capture (probe_availability: DDA always) and start() up to its wait.
StartsCapture ==
  /\ user = "idle" /\ grabTally.starts < MaxGrabStarts /\ target = "open"
  /\ \E preference \in {"auto", "wgc", "dda"}, window, wgc \in BOOLEAN :
       backend' = SelectBackend(preference, window, wgc, TRUE)
  /\ backend' # "none"
  /\ user' = "starting" /\ grabber' = "opening"
  /\ halt' = FALSE /\ answer' = "none"
  /\ grabTally' = [grabTally EXCEPT !.starts = @ + 1]
  /\ UNCHANGED <<live, target, duplicates, latest, arriving, grabbed, held, refs>>

CaptureStarted ==
  /\ user = "starting" /\ answer = "ok"
  /\ user' = "capturing"
  /\ UNCHANGED <<backend, grabber, halt, live, answer, target, duplicates, latest,
                 arriving, grabbed, held, refs, grabTally>>

\* stop() up to the join: after a start that failed or took longer than 5 s,
\* or because the session ends or rebuilds.
CaptureStops ==
  /\ \/ user = "starting" /\ answer # "ok"
     \/ user = "capturing" /\ held = 0
  /\ user' = "stopping" /\ halt' = TRUE
  /\ UNCHANGED <<backend, grabber, live, answer, target, duplicates, latest,
                 arriving, grabbed, held, refs, grabTally>>

\* drain() and the resets of stop(): every queued frame and `latest`.
DrainedRefs ==
  [x \in Textures |-> refs[x] - Cardinality({i \in DOMAIN grabbed : grabbed[i] = x})
                              - (IF x = latest THEN 1 ELSE 0)]

CaptureJoined ==
  /\ user = "stopping" /\ grabber = "ended"
  /\ grabbed' = <<>> /\ refs' = DrainedRefs
  /\ duplicates' = FALSE /\ latest' = 0 /\ live' = FALSE
  /\ user' = "idle" /\ grabber' = "none" /\ target' = "open"
  /\ UNCHANGED <<backend, halt, answer, arriving, held, grabTally>>

AcquiresFrame ==
  /\ user = "capturing" /\ held = 0 /\ grabbed # <<>>
  /\ held' = Head(grabbed) /\ grabbed' = Tail(grabbed)
  /\ UNCHANGED <<backend, grabber, user, halt, live, answer, target, duplicates, latest,
                 arriving, refs, grabTally>>

ReleasesFrame ==
  /\ held # 0
  /\ held' = 0 /\ refs' = Counted(held, -1)
  /\ UNCHANGED <<backend, grabber, user, halt, live, answer, target, duplicates, latest,
                 arriving, grabbed, grabTally>>

-----------------------------------------------------------------------------
(* Windows.Graphics.Capture *)

\* The item is created and its Closed event subscribed; or there is no item, no
\* device, or an exception: the failure is told and the thread is over.
WgcOpens ==
  /\ backend = "wgc" /\ grabber = "opening"
  /\ \/ /\ target = "open"
        /\ grabber' = "opened" /\ UNCHANGED <<answer, grabTally>>
     \/ /\ grabber' = "ended" /\ answer' = "failed" /\ Fails
  /\ UNCHANGED <<backend, user, halt, live, target, duplicates, latest,
                 arriving, grabbed, held, refs>>

\* StartCapture, start_result, start_complete.
WgcTells ==
  /\ backend = "wgc" /\ grabber = "opened"
  /\ grabber' = "told" /\ answer' = "ok"
  /\ UNCHANGED <<backend, user, halt, live, target, duplicates, latest,
                 arriving, grabbed, held, refs, grabTally>>

\* running = true, after the answer: both backends.
SetsRunning ==
  /\ grabber = "told"
  /\ grabber' = "runs" /\ live' = TRUE
  /\ UNCHANGED <<backend, user, halt, answer, target, duplicates, latest,
                 arriving, grabbed, held, refs, grabTally>>

\* The window is closed, the monitor unplugged.
TargetCloses ==
  /\ target = "open" /\ Fails
  /\ backend = "wgc"
  /\ grabber = "runs" \/ (ClosesEarly /\ grabber \in {"opened", "told"})
  /\ target' = "closed"
  /\ UNCHANGED <<backend, grabber, user, halt, live, answer, duplicates, latest,
                 arriving, grabbed, held, refs>>

GoesDead == FALSE

\* The Closed handler; the system calls it while the item is subscribed.
NoticesClosed ==
  /\ target = "closed" /\ grabber \in {"opened", "told", "runs"}
  /\ target' = "noticed" /\ live' = GoesDead
  /\ UNCHANGED <<backend, grabber, user, halt, answer, duplicates, latest,
                 arriving, grabbed, held, refs, grabTally>>

\* FrameArrived: the frame's texture, with a reference for the queue.
FrameArrives ==
  /\ backend = "wgc" /\ grabber \in {"told", "runs"} /\ target = "open"
  /\ arriving = 0 /\ CanMake /\ CanGrab
  /\ arriving' = NewTexture
  /\ refs' = Counted(NewTexture, 1)
  /\ grabTally' = [grabTally EXCEPT !.made = @ + 1]
  /\ UNCHANGED <<backend, grabber, user, halt, live, answer, target, duplicates, latest,
                 grabbed, held>>

\* FrameArrived, its push at the end.
FrameIsPushed ==
  /\ arriving # 0
  /\ grabbed' = QueuedBehind(arriving) /\ refs' = ReleasedBy(refs, Shed)
  /\ arriving' = 0
  /\ grabTally' = [grabTally EXCEPT !.frames = @ + 1]
  /\ UNCHANGED <<backend, grabber, user, halt, live, answer, target, duplicates, latest, held>>

\* The thread sees `stopping`, closes session and pool, and ends.
WgcCloses ==
  /\ backend = "wgc" /\ grabber = "runs" /\ halt
  /\ arriving = 0 \/ LateArrival
  /\ grabber' = "ended" /\ live' = FALSE
  /\ UNCHANGED <<backend, user, halt, answer, target, duplicates, latest,
                 arriving, grabbed, held, refs, grabTally>>

-----------------------------------------------------------------------------
(* Desktop Duplication *)

\* open_duplication: the old duplication is given up before the new one is asked
\* for, and `latest` only once there is a new one.  Each of the two may fail.
Reopens == /\ CanMake
           /\ duplicates' = TRUE /\ latest' = NewTexture
           /\ refs' = [ReleasedBy(refs, latest) EXCEPT ![NewTexture] = 1]
           /\ grabTally' = [grabTally EXCEPT !.made = @ + 1]
NotDuplicated == duplicates' = FALSE /\ Fails /\ UNCHANGED <<latest, refs>>
NoCopy        == duplicates' = TRUE /\ latest' = 0 /\ Fails
                 /\ refs' = ReleasedBy(refs, latest)

DdaOpens ==
  /\ backend = "dda" /\ grabber = "opening"
  /\ \/ Reopens /\ grabber' = "told" /\ answer' = "ok"
     \/ (NotDuplicated \/ NoCopy) /\ grabber' = "ended" /\ answer' = "failed"
  /\ UNCHANGED <<backend, user, halt, live, target, arriving, grabbed, held>>

\* AcquireNextFrame and emit(): a new picture is copied into `latest`, a timeout
\* or a moved pointer emits it again.  Nothing is emitted without `latest`.
DdaEmits ==
  /\ backend = "dda" /\ grabber = "runs" /\ ~halt /\ duplicates
  /\ latest # 0 /\ CanGrab
  /\ grabbed' = QueuedBehind(latest)
  /\ refs' = ReleasedBy(Counted(latest, 1), Shed)
  /\ grabTally' = [grabTally EXCEPT !.frames = @ + 1]
  /\ UNCHANGED <<backend, grabber, user, halt, live, answer, target, duplicates, latest,
                 arriving, held>>

\* ACCESS_LOST: the backoff before open_duplication.
AccessLost ==
  /\ backend = "dda" /\ grabber = "runs" /\ ~halt /\ duplicates
  /\ Fails /\ grabber' = "lost"
  /\ UNCHANGED <<backend, user, halt, live, answer, target, duplicates, latest,
                 arriving, grabbed, held, refs>>

\* open_duplication again; the loop goes on whatever it returned.
ReopensAfterLoss ==
  /\ grabber = "lost" /\ grabber' = "runs"
  /\ Reopens \/ NotDuplicated \/ NoCopy
  /\ UNCHANGED <<backend, user, halt, live, answer, target, arriving, grabbed, held>>

\* AcquireNextFrame through a null duplication: the process is gone.
AcquiresFromNothing ==
  /\ backend = "dda" /\ grabber = "runs" /\ ~halt /\ ~duplicates
  /\ grabber' = "crashed"
  /\ UNCHANGED <<backend, user, halt, live, answer, target, duplicates, latest,
                 arriving, grabbed, held, refs, grabTally>>

\* Any other error ends the loop, as `stopping` does.
DdaEnds ==
  /\ backend = "dda" /\ grabber = "runs"
  /\ \/ halt /\ UNCHANGED grabTally
     \/ duplicates /\ Fails
  /\ grabber' = "ended" /\ live' = FALSE
  /\ UNCHANGED <<backend, user, halt, answer, target, duplicates, latest,
                 arriving, grabbed, held, refs>>

-----------------------------------------------------------------------------
\* A process that has crashed takes no further step.
GrabNext ==
  /\ grabber # "crashed"
  /\ \/ StartsCapture \/ CaptureStarted \/ CaptureStops \/ CaptureJoined
     \/ AcquiresFrame \/ ReleasesFrame
     \/ WgcOpens \/ WgcTells \/ SetsRunning \/ TargetCloses \/ NoticesClosed
     \/ FrameArrives \/ FrameIsPushed \/ WgcCloses
     \/ DdaOpens \/ DdaEmits \/ AccessLost \/ ReopensAfterLoss
     \/ AcquiresFromNothing \/ DdaEnds

GrabSpec == GrabInit /\ [][GrabNext]_grabVars

-----------------------------------------------------------------------------
(* Properties *)

HoldersOf(x) == Cardinality({i \in DOMAIN grabbed : grabbed[i] = x})
                + Cardinality({y \in {<<"latest", latest>>, <<"arriving", arriving>>,
                                      <<"held", held>>} : y[2] = x})

\* Every reference of a texture has one holder (a queued frame, the frame in the
\* session's hands, one on its way in, the copy target), through displacement,
\* reopened duplications and failed starts; and a backend that has stopped holds
\* none and is not live.
EveryTextureIsAccountedFor ==
  /\ \A x \in Textures : refs[x] = HoldersOf(x)
  /\ user = "idle" => ~live /\ \A x \in Textures : refs[x] = 0

\* A backend that calls itself running still has what it captures: its target has
\* not been reported closed, and its thread has not ended.  (The session asks
\* nothing else: silence alone is an idle desktop.)
ALiveBackendHasATarget ==
  live => target # "noticed" /\ grabber \in {"runs", "lost", "crashed"}

\* open_duplication "returns an error rather than throwing so the worker can back
\* off and retry": a refused duplication is asked for again, not dereferenced.
ARefusedDuplicationIsRetried == grabber # "crashed"
=============================================================================
