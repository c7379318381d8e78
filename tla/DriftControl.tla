---------------------------- MODULE DriftControl ----------------------------
(***************************************************************************)
(* The drift control of an audio path: once a second of its timeline aenc  *)
(* compares the samples written with the time that has passed, and has the *)
(* resampler stretch or squeeze what follows.  The length of the track is  *)
(* the plant, audio/drift_compensator the controller.                      *)
(*                                                                         *)
(* One step plays a second, the next measures it.  A paused second is      *)
(* neither played nor measured and is no step.  The resampler is external: *)
(* it spreads a compensation evenly over the window it was asked for, a    *)
(* newer one replaces it, and a rebuilt resampler has none.                *)
(***************************************************************************)
EXTENDS Integers

CONSTANTS
  Ignore,       \* kDriftIgnoreNs
  HardLimit,    \* kDriftHardNs
  Spread,       \* kSoftCorrectionWindowNs, in seconds
  SkewPeriod,   \* seconds in which the endpoint's clock gains or loses one unit
  LossSize,     \* what a packet lost behind the timeline takes from the track
  MaxLosses,    \* bound: packets lost so
  MaxRefusals,  \* bound: compensations refused
  MaxRebuilds   \* bound: resamplers rebuilt

\* A clock that gains less in a window than is ignored, and losses that do not
\* leave the band the controller corrects.
ASSUME DriftAssumption ==
  /\ {Ignore, Spread, SkewPeriod, LossSize} \subseteq Nat \ {0}
  /\ {MaxLosses, MaxRefusals, MaxRebuilds} \subseteq Nat
  /\ Spread < Ignore * SkewPeriod
  /\ Ignore + LossSize * MaxLosses < HardLimit

VARIABLES
  turn,        \* "plays", "measures"
  drift,       \* samples written less timeline elapsed, in parts: Spread to a unit
  skew,        \* units the endpoint gains in SkewPeriod seconds
  phase,       \* seconds of SkewPeriod so far
  correction,  \* the resampler's compensation: [samples, left], units and seconds
  action,      \* the latest decision: "none", "soft", "hard"
  driftTally   \* losses, refusals and rebuilds so far

driftVars == <<turn, drift, skew, phase, correction, action, driftTally>>

NoCorrection == [samples |-> 0, left |-> 0]
Reach == 2 * HardLimit * Spread

DriftTypeOK ==
  /\ turn \in {"plays", "measures"}
  /\ drift \in -Reach .. Reach
  /\ skew \in {-1, 0, 1} /\ phase \in 0 .. SkewPeriod - 1
  /\ correction \in [samples : -HardLimit .. HardLimit, left : 0 .. Spread]
  /\ action \in {"none", "soft", "hard"}
  /\ driftTally \in [losses : 0 .. MaxLosses, refusals : 0 .. MaxRefusals,
                     rebuilds : 0 .. MaxRebuilds]

DriftInit ==
  /\ turn = "plays" /\ drift = 0 /\ skew \in {-1, 0, 1} /\ phase = 0
  /\ correction = NoCorrection /\ action = "none"
  /\ driftTally = [losses |-> 0, refusals |-> 0, rebuilds |-> 0]

Magnitude(parts) == IF parts < 0 THEN -parts ELSE parts
\* ns_to_frames rounds towards zero.
Units(parts) == IF parts < 0 THEN -(-parts \div Spread) ELSE parts \div Spread

-----------------------------------------------------------------------------
\* A second of sound: the endpoint's clock is a little fast or slow, and the
\* resampler adds its share of the compensation.
Plays ==
  /\ turn = "plays" /\ turn' = "measures"
  /\ phase' = (phase + 1) % SkewPeriod
  /\ drift' = drift + (IF phase' = 0 THEN skew * Spread ELSE 0)
                    + (IF correction.left > 0 THEN correction.samples ELSE 0)
  /\ correction' = IF correction.left > 1 THEN [correction EXCEPT !.left = @ - 1]
                   ELSE NoCorrection
  /\ UNCHANGED <<skew, action, driftTally>>

\* The timeline has accepted a packet that could not be converted.
LosesPacket ==
  /\ turn = "plays" /\ driftTally.losses < MaxLosses
  /\ driftTally' = [driftTally EXCEPT !.losses = @ + 1]
  /\ drift' = drift - LossSize * Spread
  /\ UNCHANGED <<turn, skew, phase, correction, action>>

\* reconfigure_input builds a resampler without a compensation.
RebuildsResampler ==
  /\ turn = "plays" /\ driftTally.rebuilds < MaxRebuilds
  /\ driftTally' = [driftTally EXCEPT !.rebuilds = @ + 1]
  /\ correction' = NoCorrection
  /\ UNCHANGED <<turn, drift, skew, phase, action>>

\* DriftCompensator::evaluate: the bands.
Decision == IF Magnitude(drift) < Ignore * Spread THEN "none"
            ELSE IF Magnitude(drift) >= HardLimit * Spread THEN "hard" ELSE "soft"

\* Mutant: audio that runs ahead is given more samples.
SameSign == Units(drift)
\* "Audio running ahead needs *fewer* samples, hence the negation."
Compensation == -Units(drift)

\* Nothing is done below the first limit, nor at the second: a compensation under
\* way goes on.
LeavesIt ==
  /\ turn = "measures" /\ turn' = "plays"
  /\ Decision # "soft" /\ action' = Decision
  /\ UNCHANGED <<drift, skew, phase, correction, driftTally>>

SoftResync ==
  /\ turn = "measures" /\ turn' = "plays"
  /\ Decision = "soft" /\ action' = "soft"
  /\ correction' = [samples |-> Compensation, left |-> Spread]
  /\ UNCHANGED <<drift, skew, phase, driftTally>>

\* "drift will be re-measured next second".
ResyncRefused ==
  /\ turn = "measures" /\ turn' = "plays"
  /\ Decision = "soft" /\ action' = "soft"
  /\ driftTally.refusals < MaxRefusals
  /\ driftTally' = [driftTally EXCEPT !.refusals = @ + 1]
  /\ UNCHANGED <<drift, skew, phase, correction>>

-----------------------------------------------------------------------------
Measures == LeavesIt \/ SoftResync \/ ResyncRefused
DriftNext == Plays \/ LosesPacket \/ RebuildsResampler \/ Measures

\* Sound goes on, from the endpoint or as silence, and each second is measured.
DriftSpec == DriftInit /\ [][DriftNext]_driftVars
             /\ WF_driftVars(Plays) /\ WF_driftVars(Measures)

-----------------------------------------------------------------------------
(* Properties *)

\* A drift the controller corrects does not last: whatever was lost, refused or
\* rebuilt on the way, and however the clock runs, the track comes back to within
\* the time that nobody hears.
DriftComesBack == Magnitude(drift) >= Ignore * Spread ~> Magnitude(drift) < Ignore * Spread
=============================================================================
