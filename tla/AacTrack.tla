------------------------------ MODULE AacTrack ------------------------------
(***************************************************************************)
(* The end of an audio path: AudioEncodePath feeds what the resampler made *)
(* to AacEncoder, which stages it until a frame is full, sends the frame   *)
(* to libavcodec and gives the packets back.  One thread at a time: aenc,  *)
(* then the one that finishes the path.                                    *)
(*                                                                         *)
(* The codec is external: it may refuse input while a packet waits to be   *)
(* collected, holds a frame back until its end is marked, and may fail.    *)
(* A sample is its number among those fed.  Left out: formats, layouts,    *)
(* and the priming samples the codec puts before the first.                *)
(***************************************************************************)
EXTENDS Integers, Sequences, Functions

CONSTANTS
  FrameSize,  \* samples the codec takes at a time
  MaxStalls,  \* kMaxEncoderStalls
  MaxChunk,   \* bound: samples of one conversion, and of the resampler's tail
  MaxFed,     \* bound: samples fed before the path is finished
  CodecFaults \* bound: calls of the codec that fail

ASSUME AacAssumption ==
  /\ {FrameSize, MaxStalls, MaxChunk} \subseteq Nat \ {0}
  /\ {MaxFed, CodecFaults} \subseteq Nat

VARIABLES
  feeding,   \* where the thread is: "idle", "submits", "drains", "flushes",
             \* "marksEnd", "drainsToFlush", "drainsLast", "over"
  ending,    \* finish has begun
  canonical, \* canonical_written
  given,     \* the samples of the frame that submit has not consumed
  consumed,  \* what this call of submit has consumed
  stalls,    \* calls that consumed nothing, or attempts to flush
  staging,   \* the samples staged
  nextPts,   \* next_pts
  coding,    \* the frames the codec holds: [pts, samples]
  ended,     \* the codec has its end marker
  coded,     \* the packets handed to the sink: [pts, samples]
  codecTally \* calls of the codec that failed so far

feedVars  == <<ending, canonical, given, consumed, stalls>>
stageVars == <<staging, nextPts>>
codecVars == <<coding, ended, coded>>
aacVars   == <<feeding, feedVars, stageVars, codecVars, codecTally>>

Samples == 0 .. MaxFed + MaxChunk - 1
Frames  == [pts : Samples, samples : Seq(Samples)]

AacTypeOK ==
  /\ feeding \in {"idle", "submits", "drains", "flushes", "marksEnd", "drainsToFlush",
                  "drainsLast", "over"}
  /\ {ending, ended} \subseteq BOOLEAN
  /\ {canonical, nextPts, consumed} \subseteq 0 .. MaxFed + MaxChunk
  /\ stalls \in 0 .. MaxStalls
  /\ given \in Seq(Samples) /\ staging \in Seq(Samples) /\ Len(staging) <= FrameSize
  /\ coding \in Seq(Frames) /\ coded \in Seq(Frames)
  /\ codecTally \in 0 .. CodecFaults

AacInit ==
  /\ feeding = "idle" /\ ending = FALSE /\ canonical = 0 /\ given = <<>>
  /\ consumed = 0 /\ stalls = 0 /\ staging = <<>> /\ nextPts = 0
  /\ coding = <<>> /\ ended = FALSE /\ coded = <<>> /\ codecTally = 0

CodecFails == /\ codecTally < CodecFaults
              /\ codecTally' = codecTally + 1

\* What libavcodec may do: refuse while there is something to collect, and keep
\* the latest frame to itself until it knows that no other follows.
Collectable == IF ended THEN coding # <<>> ELSE Len(coding) > 1
MayRefuse == Collectable

-----------------------------------------------------------------------------
(* AudioEncodePath::feed.  The count of what is written grows before the   *)
(* frame is submitted.                                                     *)
Feed(n) ==
  /\ canonical' = canonical + n
  /\ given' = [i \in 1 .. n |-> canonical + i - 1]
  /\ consumed' = 0 /\ stalls' = 0
  /\ feeding' = "submits"

EmitAudio ==
  /\ feeding = "idle" /\ ~ending
  /\ \E n \in 1 .. MaxChunk : canonical + n <= MaxFed /\ Feed(n)
  /\ UNCHANGED <<ending, stageVars, codecVars, codecTally>>

FeedReturns == IF ending THEN "flushes" ELSE "idle"

\* AacEncoder::submit copies what fits, once around its loop.
Room == FrameSize - Len(staging)
Take == IF Room < Len(given) THEN Room ELSE Len(given)
Staged == staging \o SubSeq(given, 1, Take)
Rest   == SubSeq(given, Take + 1, Len(given))

\* Mutant: samples staged when the codec refuses are not reported as consumed.
RestAgain == given
\* What the caller goes on with when the codec refuses the full frame: "The samples
\* copied so far are safely staged".
RestOnRefusal == Rest

StagesPart ==
  /\ feeding = "submits" /\ Take < Room
  /\ staging' = Staged /\ given' = <<>> /\ consumed' = consumed + Take
  /\ feeding' = "drains"
  /\ UNCHANGED <<ending, canonical, stalls, nextPts, codecVars, codecTally>>

SendsFrame ==
  /\ feeding = "submits" /\ Take = Room
  /\ given' = Rest /\ consumed' = consumed + Take
  /\ coding' = Append(coding, [pts |-> nextPts, samples |-> Staged])
  /\ nextPts' = nextPts + FrameSize /\ staging' = <<>>
  /\ feeding' = IF Rest = <<>> THEN "drains" ELSE "submits"
  /\ UNCHANGED <<ending, canonical, stalls, ended, coded, codecTally>>

FrameRefused ==
  /\ feeding = "submits" /\ Take = Room /\ MayRefuse
  /\ staging' = Staged /\ given' = RestOnRefusal /\ consumed' = consumed + Take
  /\ feeding' = "drains"
  /\ UNCHANGED <<ending, canonical, stalls, nextPts, codecVars, codecTally>>

\* The frame stays staged, the rest of what was given is lost.
FrameFails ==
  /\ feeding = "submits" /\ Take = Room /\ CodecFails
  /\ staging' = Staged /\ given' = <<>>
  /\ feeding' = FeedReturns /\ stalls' = 0
  /\ UNCHANGED <<ending, canonical, consumed, nextPts, codecVars>>

-----------------------------------------------------------------------------
(* drain_packets, after every submit and between the attempts to flush.    *)
Drains == feeding \in {"drains", "drainsToFlush", "drainsLast"}

CollectsPacket ==
  /\ Drains /\ Collectable
  /\ coded' = Append(coded, Head(coding)) /\ coding' = Tail(coding)
  /\ UNCHANGED <<feeding, feedVars, stageVars, ended, codecTally>>

\* Nothing to collect, or a failure, which takes the packet with it.
DrainReturns ==
  \/ ~Collectable /\ UNCHANGED <<coding, codecTally>>
  \/ Collectable /\ CodecFails /\ coding' = Tail(coding)

SubmitsOn ==
  /\ feeding = "drains" /\ DrainReturns
  /\ given # <<>> /\ (consumed > 0 \/ stalls + 1 < MaxStalls)
  /\ stalls' = IF consumed > 0 THEN 0 ELSE stalls + 1
  /\ consumed' = 0 /\ feeding' = "submits"
  /\ UNCHANGED <<ending, canonical, given, stageVars, ended, coded>>

\* All consumed, or "the AAC encoder stayed blocked after draining".
FeedEnds ==
  /\ feeding = "drains" /\ DrainReturns
  /\ given = <<>> \/ (consumed = 0 /\ stalls + 1 >= MaxStalls)
  /\ given' = <<>> /\ stalls' = 0 /\ feeding' = FeedReturns
  /\ UNCHANGED <<ending, canonical, consumed, stageVars, ended, coded>>

-----------------------------------------------------------------------------
(* AudioEncodePath::finish: the resampler's tail is fed, then the encoder  *)
(* is flushed, as often as it asks for room.                               *)
Finishes ==
  /\ feeding = "idle" /\ ~ending
  /\ ending' = TRUE
  /\ \/ \E n \in 1 .. MaxChunk : Feed(n)
     \/ feeding' = "flushes" /\ stalls' = 0 /\ UNCHANGED <<canonical, given, consumed>>
  /\ UNCHANGED <<stageVars, codecVars, codecTally>>

FlushesPartial ==
  /\ feeding = "flushes"
  /\ IF staging = <<>> THEN UNCHANGED <<coding, nextPts>>
     ELSE /\ coding' = Append(coding, [pts |-> nextPts, samples |-> staging])
          /\ nextPts' = nextPts + Len(staging)
  /\ staging' = <<>> /\ feeding' = "marksEnd"
  /\ UNCHANGED <<feedVars, ended, coded, codecTally>>

MarksEnd ==
  /\ feeding = "marksEnd"
  /\ ended' = TRUE /\ feeding' = "drainsLast"
  /\ UNCHANGED <<feedVars, stageVars, coding, coded, codecTally>>

\* The partial frame, or the end marker, is refused: drain and try again.
FlushRefused ==
  /\ \/ feeding = "flushes" /\ staging # <<>>
     \/ feeding = "marksEnd"
  /\ MayRefuse
  /\ feeding' = "drainsToFlush"
  /\ UNCHANGED <<feedVars, stageVars, codecVars, codecTally>>

FlushesAgain ==
  /\ feeding = "drainsToFlush" /\ DrainReturns
  /\ stalls' = stalls + 1
  /\ feeding' = IF stalls' < MaxStalls THEN "flushes" ELSE "drainsLast"
  /\ UNCHANGED <<ending, canonical, given, consumed, stageVars, ended, coded>>

FlushFails ==
  /\ \/ feeding = "flushes" /\ staging # <<>>
     \/ feeding = "marksEnd"
  /\ CodecFails
  /\ feeding' = "drainsLast"
  /\ UNCHANGED <<feedVars, stageVars, codecVars>>

PathFinished ==
  /\ feeding = "drainsLast" /\ DrainReturns
  /\ feeding' = "over"
  /\ UNCHANGED <<feedVars, stageVars, ended, coded>>

-----------------------------------------------------------------------------
AacNext ==
  \/ EmitAudio \/ StagesPart \/ SendsFrame \/ FrameRefused \/ FrameFails
  \/ CollectsPacket \/ SubmitsOn \/ FeedEnds
  \/ Finishes \/ FlushesPartial \/ MarksEnd \/ FlushRefused \/ FlushesAgain
  \/ FlushFails \/ PathFinished

AacSpec == AacInit /\ [][AacNext]_aacVars

-----------------------------------------------------------------------------
(* Properties *)

Rising(piece) == \A m, n \in DOMAIN piece : m < n => piece[m] < piece[n]
Precedes(piece, later) ==
  \A m \in DOMAIN piece, n \in DOMAIN later : piece[m] < later[n]

\* Where the samples are, from the sink back to the caller of submit.
Sent == coded \o coding
Pieces == [i \in DOMAIN Sent |-> Sent[i].samples] \o <<staging, given>>
SamplesIn(pieces) == UNION {Range(pieces[i]) : i \in DOMAIN pieces}

\* Whatever the codec refuses, and wherever in a frame: the samples go into the
\* packets in order and once, "resuming from the returned offset rather than from
\* the start is what stops the already-staged samples from being encoded twice",
\* and unless the codec fails none is missing, each lies at its own time stamp,
\* and a finished path has coded the partial frame too.
EverySampleIsCodedOnce ==
  /\ \A i \in DOMAIN Pieces : Rising(Pieces[i])
  /\ \A i, j \in DOMAIN Pieces : i < j => Precedes(Pieces[i], Pieces[j])
  /\ codecTally = 0 =>
       /\ SamplesIn(Pieces) = 0 .. canonical - 1
       /\ \A i \in DOMAIN coded : coded[i].pts = Head(coded[i].samples)
       /\ feeding = "over" =>
            SamplesIn([i \in DOMAIN coded |-> coded[i].samples]) = 0 .. canonical - 1
=============================================================================
