------------------------------- MODULE Ladder -------------------------------
(***************************************************************************)
(* The degradation ladder (health/health_monitor.cpp) as the watchdog      *)
(* drives it four times a second (VideoPipeline::Impl::evaluate_health),   *)
(* and what the encode stage does with its answer (apply_ladder_request).  *)
(*                                                                         *)
(* Every condition has a latch: it engages with its trigger and lets go    *)
(* only after RecoveryHold ticks without it.  Times are in ticks of the    *)
(* watchdog and are kept as ages, so that a behaviour may go on for ever.  *)
(*                                                                         *)
(* The conditions of rungs 4 and 7 are left out: note_device_failure has   *)
(* no caller and nothing sets Sample::capture_failed, so neither can       *)
(* engage.  So are rung 5, which follows the encoder in use, the counters  *)
(* of the report, and the exception that ends the watchdog for good        *)
(* (WatchdogEnds of VideoPipeline): what is stated here is of a watchdog   *)
(* that runs.                                                              *)
(***************************************************************************)
EXTENDS Integers, Sequences, SequencesExt, FiniteSetsExt

CONSTANTS
  RecoveryHold,   \* kRecoveryHoldNs
  QueueHighHold,  \* kQueueHighHoldNs
  Window,         \* kWindowNs
  MinimumFrames,  \* kMinimumFramesForRatio
  FreeSpaceEvery, \* kFreeSpaceEveryNTicks
  MaxChanges      \* bound: changes of the weather, pauses among them

ASSUME LadderAssumption ==
  {RecoveryHold, QueueHighHold, Window, MinimumFrames, FreeSpaceEvery, MaxChanges}
    \subseteq Nat \ {0}

VARIABLES
  weather,  \* what the recording meets: queue, frames, disk, and the pause
  changes,  \* how often it has changed
  latch,    \* per condition: engaged, clearing, and for how long
  highFor,  \* ticks since the queue was last at or below kQueueHigh; -1: no tick yet
  history,  \* what each of the last ticks saw submitted and dropped
  free,     \* last_free_bytes, and the tick modulo FreeSpaceEvery
  plan,     \* rung, diskStop, stalled, and the requested and the applied rate
  clean     \* ticks since each trigger was last seen (of the properties only)

ladderVars == <<weather, changes, latch, highFor, history, free, plan, clean>>

Conditions == {"queueHigh", "queueCritical", "frameDrops", "disk"}
RungOf == [c \in Conditions |-> CASE c = "queueHigh" -> 1 [] c = "queueCritical" -> 2
                                  [] c = "frameDrops" -> 3 [] c = "disk" -> 6]
Weathers == [queue : {"low", "high", "critical"}, frames : {"none", "arrive", "drop"},
             disk : {"fine", "low", "full"}, paused : BOOLEAN]
Latch == [engaged |-> FALSE, clearing |-> FALSE, for |-> 0]

LadderTypeOK ==
  /\ weather \in Weathers /\ changes \in 0 .. MaxChanges
  /\ latch \in [Conditions -> [engaged : BOOLEAN, clearing : BOOLEAN, for : 0 .. RecoveryHold]]
  /\ highFor \in -1 .. QueueHighHold
  /\ Len(history) <= Window
  /\ plan.rung \in 0 .. 7 /\ plan.requested \in {"full", "half"}
  /\ clean \in [Conditions -> 0 .. RecoveryHold + 1]

-----------------------------------------------------------------------------
(* The weather *)

Becomes(next) ==
  /\ changes < MaxChanges /\ next # weather
  /\ weather' = next /\ changes' = changes + 1
  /\ UNCHANGED <<latch, highFor, history, free, plan, clean>>

LoadChanges   == \E q \in {"low", "high", "critical"} : Becomes([weather EXCEPT !.queue = q])
FramesChange  == \E f \in {"none", "arrive", "drop"} : Becomes([weather EXCEPT !.frames = f])
DiskChanges   == \E d \in {"fine", "low", "full"} : Becomes([weather EXCEPT !.disk = d])
PauseOrResume == Becomes([weather EXCEPT !.paused = ~@])

-----------------------------------------------------------------------------
(* One evaluation *)

\* Mutant: every clean look starts the clean period again.
UpdatedAnew(l, triggered) ==
  CASE triggered                -> [engaged |-> TRUE, clearing |-> FALSE, for |-> 0]
    [] ~triggered /\ ~l.engaged -> l
    [] OTHER                    -> [engaged |-> TRUE, clearing |-> TRUE, for |-> 0]

\* Latch::update.  A recurrence starts the clean period from scratch.
Updated(l, triggered) ==
  CASE triggered                  -> [engaged |-> TRUE, clearing |-> FALSE, for |-> 0]
    [] ~triggered /\ ~l.engaged   -> l
    [] ~triggered /\ l.engaged /\ ~l.clearing
                                  -> [l EXCEPT !.clearing = TRUE, !.for = 0]
    [] OTHER                      -> IF l.for + 1 >= RecoveryHold THEN Latch
                                     ELSE [l EXCEPT !.for = @ + 1]

\* For how long the queue has been above the threshold of rung 1: a first
\* sample above it starts the clock instead of counting as for ever.
HighFor == IF highFor = -1 \/ weather.queue = "low" THEN 0 ELSE Min({highFor + 1, QueueHighHold})

\* A paused recording is given no frames; a queue that is full drops them.  One
\* of a tick stands for the frames of a tick, and a tick with drops for more than
\* kFrameDropRatio of them.
Arrivals == IF weather.paused \/ weather.frames = "none" THEN [submitted |-> 0, dropped |-> 0]
            ELSE [submitted |-> 1, dropped |-> IF weather.frames = "drop" THEN 1 ELSE 0]

\* record: the window keeps as many ticks as it is long; the difference to its
\* first observation leaves out what came before the first tick.
Recorded == IF Len(history) < Window THEN Append(history, Arrivals)
            ELSE Append(Tail(history), Arrivals)

InWindow == IF history = <<>> THEN [submitted |-> 0, dropped |-> 0]
            ELSE FoldSeq(LAMBDA a, sum : [submitted |-> sum.submitted + a.submitted,
                                          dropped |-> sum.dropped + a.dropped],
                         [submitted |-> 0, dropped |-> 0],
                         IF Len(history) < Window THEN Tail(Recorded) ELSE Recorded)

Dropping == /\ ~weather.paused
            /\ InWindow.submitted >= MinimumFrames /\ InWindow.dropped > 0

\* Free space is asked for every FreeSpaceEvery-th tick and carried forward.
FreeNow == IF free.tick = 0 THEN weather.disk ELSE free.bytes

Triggered(c) ==
  CASE c = "queueHigh"     -> weather.queue # "low" /\ HighFor >= QueueHighHold
    [] c = "queueCritical" -> weather.queue = "critical"
    [] c = "frameDrops"    -> Dropping
    [] c = "disk"          -> FreeNow # "fine"

Stalled == ~weather.paused /\ Arrivals.submitted = 0

\* The rung shown is the gravest of the conditions engaged.
Gravest(latches, stop) ==
  Max({0} \union {RungOf[c] : c \in {k \in Conditions : latches[k].engaged}}
      \union (IF stop THEN {RungOf["disk"]} ELSE {}))

\* evaluate_health: one observation folded in, the targets published.
Evaluate ==
  /\ \E latches \in {[c \in Conditions |-> Updated(latch[c], Triggered(c))]} :
       LET stop == plan.diskStop \/ FreeNow = "full"
       IN /\ latch' = latches
          /\ plan' = [plan EXCEPT !.diskStop = stop, !.stalled = Stalled,
                                  !.rung = Gravest(latches, stop),
                                  !.requested = IF latches["frameDrops"].engaged
                                                THEN "half" ELSE "full"]
  /\ highFor' = HighFor /\ history' = Recorded
  /\ free' = [bytes |-> FreeNow, tick |-> (free.tick + 1) % FreeSpaceEvery]
  /\ clean' = [c \in Conditions |->
                 IF Triggered(c) THEN 0 ELSE Min({clean[c] + 1, RecoveryHold + 1})]
  /\ UNCHANGED <<weather, changes>>

\* apply_ladder_request: with the next frame the encode stage takes the rate
\* over (pacer.retime, see FramePacer and VideoTimeline).
Applies ==
  /\ ~weather.paused /\ weather.frames # "none"
  /\ plan.applied # plan.requested
  /\ plan' = [plan EXCEPT !.applied = plan.requested]
  /\ UNCHANGED <<weather, changes, latch, highFor, history, free, clean>>

-----------------------------------------------------------------------------
LadderInit ==
  /\ weather = [queue |-> "low", frames |-> "arrive", disk |-> "fine", paused |-> FALSE]
  /\ changes = 0
  /\ latch = [c \in Conditions |-> Latch] /\ highFor = -1 /\ history = <<>>
  /\ free = [bytes |-> "fine", tick |-> 0]
  /\ plan = [rung |-> 0, diskStop |-> FALSE, stalled |-> FALSE,
             requested |-> "full", applied |-> "full"]
  /\ clean = [c \in Conditions |-> 0]

LadderNext == \/ LoadChanges \/ FramesChange \/ DiskChanges \/ PauseOrResume
              \/ Evaluate \/ Applies

LadderSpec == /\ LadderInit /\ [][LadderNext]_ladderVars
              /\ WF_ladderVars(Evaluate) /\ WF_ladderVars(Applies)

-----------------------------------------------------------------------------
(* What the ladder promises *)

\* A condition lets go only after RecoveryHold ticks without its trigger since
\* the last time it was seen ("30 s of clean operation, not 30 s since the last
\* look"), so an action that follows it cannot flap.
LetsGoOnlyWhenClean ==
  [][\A c \in Conditions : latch[c].engaged /\ ~latch'[c].engaged => clean'[c] > RecoveryHold]_ladderVars

\* Once the trouble is over for good the recording is back at its full rate and
\* the ladder at its foot, unless a full disk has ended the recording.
FairWeather == weather.queue = "low" /\ weather.frames = "arrive" /\ weather.disk = "fine"
               /\ ~weather.paused
RecoversWhenClean ==
  <>[](FairWeather /\ ~plan.diskStop) => <>[](plan.rung = 0 /\ plan.applied = "full")
=============================================================================
