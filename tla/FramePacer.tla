---------------------------- MODULE FramePacer ----------------------------
(***************************************************************************)
(* timing::Pacer: capture timestamps quantized to a constant-frame-rate    *)
(* grid.  A frame is given the slot nearest to its time, the slots between *)
(* it and the previous one are filled with duplicates, and a frame whose   *)
(* slot is taken is dropped.  The grid may be retimed (the degradation     *)
(* ladder) and slots may be skipped (a device rebuild) in mid-recording.   *)
(*                                                                         *)
(* Time is counted from the epoch t0 with the paused spans already taken   *)
(* out, in units of which there are `Second' to a second; PTS in ticks of  *)
(* which there are `TimebaseDen'.  One thread calls everything here.       *)
(***************************************************************************)
EXTENDS Integers, Sequences

CONSTANTS
    Second,          \* kNsPerSecond, scaled down
    TimebaseDen,     \* kVideoTimebaseDen, scaled down
    Rates,           \* the frame rates the grid may have
    InitialFps,      \* the configured one
    MaxElapsed,      \* bound: latest moment on the timeline
    MaxFrames,       \* bound: frames decided about
    MaxReserved      \* bound: slots reserved in all

ASSUME PacerAssumption ==
    /\ Second \in Nat \ {0} /\ TimebaseDen \in Nat \ {0}
    /\ Rates \subseteq 1 .. TimebaseDen
    /\ InitialFps \in Rates
    /\ MaxElapsed \in Nat /\ MaxFrames \in Nat /\ MaxReserved \in Nat

VARIABLES
    fps, started,
    lastIndex,       \* slot of the last frame on the present grid, -1 before the first
    lastPts,         \* PTS of the last slot emitted or reserved, -1 before the first
    emitted, duplicated, dropped, excised, reserved,
    written          \* history: the PTS handed out, in order

counters == <<emitted, duplicated, dropped, excised, reserved>>
vars == <<fps, started, lastIndex, lastPts, counters, written>>

Init ==
    /\ fps = InitialFps /\ started = FALSE
    /\ lastIndex = -1 /\ lastPts = -1
    /\ emitted = 0 /\ duplicated = 0 /\ dropped = 0 /\ excised = 0 /\ reserved = 0
    /\ written = <<>>

TicksPerFrame(rate) == TimebaseDen \div rate
Ticks == TicksPerFrame(fps)

(* round(elapsed * fps / Second), the division split so that no product of *)
(* the whole elapsed time is formed.                                       *)
QuantizeIndex(elapsed) ==
    IF elapsed <= 0 THEN 0
    ELSE (elapsed \div Second) * fps
            + ((elapsed % Second) * fps + Second \div 2) \div Second

Start ==
    /\ ~started
    /\ started' = TRUE
    /\ lastIndex' = -1 /\ lastPts' = -1
    /\ UNCHANGED <<fps, counters, written>>

(* What a decision hands out, in order: a PTS for each slot strictly       *)
(* between the last frame's and this one's -- duplicates of a frame that   *)
(* exists, so none before the first frame -- and then the frame's own.     *)
Batch(elapsed) ==
    LET index == QuantizeIndex(elapsed)
        first == IF lastIndex < 0 THEN index ELSE lastIndex + 1
    IN  [k \in 1 .. index - first + 1 |-> (first + k - 1) * Ticks]

Undecided == dropped + excised + (emitted - duplicated) < MaxFrames

Drop ==
    /\ Undecided
    /\ dropped' = dropped + 1
    /\ UNCHANGED <<fps, started, lastIndex, lastPts, emitted, duplicated, excised, reserved, written>>

DecideBeforeEpoch == ~started /\ Drop

(* The pause clock says the frame lies in a paused span.                   *)
DecideExcised ==
    /\ started
    /\ Undecided
    /\ excised' = excised + 1
    /\ UNCHANGED <<fps, started, lastIndex, lastPts, emitted, duplicated, dropped, reserved, written>>

SlotTaken(elapsed) == QuantizeIndex(elapsed) <= lastIndex
DecideDrops(elapsed) == started /\ SlotTaken(elapsed) /\ Drop

DecideEmits(elapsed) ==
    LET index == QuantizeIndex(elapsed)
        gap == IF lastIndex < 0 THEN 0 ELSE index - lastIndex - 1
    IN  /\ started /\ ~SlotTaken(elapsed)
        /\ Undecided
        /\ written' = written \o Batch(elapsed)
        /\ emitted' = emitted + gap + 1
        /\ duplicated' = duplicated + gap
        /\ lastIndex' = index /\ lastPts' = index * Ticks
        /\ UNCHANGED <<fps, started, dropped, excised, reserved>>

Decide(elapsed) == DecideDrops(elapsed) \/ DecideEmits(elapsed)

(* The slot of lastPts on a grid of the given rate.                        *)
(* Mutant: the index of the old grid is kept.                              *)
KeepIndex(rate) == lastIndex
IndexOnGrid(rate) == lastPts \div TicksPerFrame(rate)

UsableRate(rate) == rate > 0

Retime(rate) ==
    /\ UsableRate(rate)
    /\ fps' = rate
    /\ lastIndex' = IF started /\ lastPts >= 0 THEN IndexOnGrid(rate) ELSE lastIndex
    /\ UNCHANGED <<started, lastPts, counters, written>>

(* Skip n slots for ever.                                                  *)
PtsAfterReserving(n) == (lastIndex + n) * Ticks

ReserveDiscontinuity(n) ==
    IF started /\ n > 0
    THEN /\ lastIndex' = lastIndex + n
         /\ lastPts' = PtsAfterReserving(n)
         /\ reserved' = reserved + n
         /\ UNCHANGED <<fps, started, emitted, duplicated, dropped, excised, written>>
    ELSE UNCHANGED vars

Next ==
    \/ Start
    \/ DecideBeforeEpoch
    \/ DecideExcised
    \/ \E elapsed \in 0 .. MaxElapsed : Decide(elapsed)
    \/ \E rate \in Rates \cup {0} : Retime(rate)
    \/ \E n \in 1 .. MaxReserved - reserved : ReserveDiscontinuity(n)

Spec == Init /\ [][Next]_vars

-----------------------------------------------------------------------------
TypeOK ==
    /\ fps \in Rates /\ started \in BOOLEAN
    /\ lastIndex \in Nat \cup {-1} /\ lastPts \in Nat \cup {-1}
    /\ emitted \in Nat /\ duplicated \in Nat /\ dropped \in Nat
    /\ excised \in Nat /\ reserved \in Nat
    /\ written \in Seq(Nat)

(* lastIndex is the slot of lastPts on whatever grid is in force: the two  *)
(* are kept in step through every retiming and reservation.                *)
OnGrid == lastIndex * Ticks <= lastPts /\ lastPts < (lastIndex + 1) * Ticks

HandedOut == DOMAIN written' \ DOMAIN written

(* Every PTS handed out is above each one before it, duplicates and frames *)
(* alike, and above every slot that was reserved before: no timestamp is   *)
(* given twice or goes backwards, whatever the capture timestamps do and   *)
(* across retimings.                                                       *)
PtsStrictlyIncreases ==
    [][\A i \in HandedOut :
          /\ written'[i] > lastPts
          /\ \A j \in 1 .. i - 1 : written'[i] > written'[j]]_vars

(* The timeline continues without a hole: the first PTS of a batch is at   *)
(* most one frame of the present grid after the last slot emitted or       *)
(* reserved, and so is each one after its predecessor.                     *)
TimelineHasNoHole ==
    [][lastIndex >= 0 =>
          \A i \in HandedOut :
              written'[i] <= Ticks + (IF i - 1 \in HandedOut THEN written'[i - 1] ELSE lastPts)]_vars

(* A frame is shown within half a slot of the moment it was captured, at   *)
(* any rate and however the timeline got there.                            *)
ShownNearItsTime ==
    [][\A elapsed \in 0 .. MaxElapsed :
          DecideEmits(elapsed) => LET lag == 2 * (lastIndex' * Second - elapsed * fps)
                                  IN  -Second <= lag /\ lag <= Second]_vars
=============================================================================
