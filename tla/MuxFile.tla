------------------------------- MODULE MuxFile -------------------------------
(***************************************************************************)
(* One output file (mux/muxer.cpp): opened, written packet by packet,      *)
(* closed, then, when it is an MP4, copied into a progressive file beside  *)
(* it, and validated; and the same again when the engine that died is      *)
(* started anew (mux/recovery.cpp).                                        *)
(*                                                                         *)
(* Track 0 is the pictures, tracks 1 .. n the sound.  A packet arrives     *)
(* with a time in the unit of its producer and is stored with a stamp in   *)
(* the unit the container chose; a file is, for every track, the stamps it *)
(* holds and whether each packet decodes.  libavformat interleaves by      *)
(* time, so what a kill or a read error cuts off is everything from some   *)
(* moment on.  Left out: a packet libavformat refuses (it is in neither,   *)
(* and its track goes on), codec parameters, channel layouts, track names, *)
(* the seek index, progress reports, and the measurement of the disk.      *)
(***************************************************************************)
EXTENDS Integers, Sequences, SequencesExt, FiniteSetsExt

CONSTANTS
  Nano, VideoDen, Rate, MuxDen, \* units of a second: origin, pictures, sound, file
  VideoStep, AudioStep,     \* a picture and a packet of sound, in their units
  Origins,                  \* timeline_origin_ns: where a file may begin
  MaxPackets,               \* [track -> Nat] bound: packets per track
  AudioLimit,               \* kMaxAudioStreams
  KeyEvery,                 \* pictures from a keyframe to the next
  TailProbe,                \* kTailProbeSeconds, in units of the file
  LengthTolerance,          \* kTrackLengthToleranceSeconds, likewise
  Drift,                    \* one per cent of the recording, likewise
  MuxFaults                 \* bound: kills, failures, cuts and damage

ASSUME MuxAssumption ==
  /\ {Nano, VideoDen, Rate, MuxDen, VideoStep, AudioStep, KeyEvery} \subseteq Nat \ {0}
  /\ Origins \subseteq Nat
  /\ {AudioLimit, TailProbe, LengthTolerance, Drift, MuxFaults} \subseteq Nat
  /\ DOMAIN MaxPackets = 0 .. AudioLimit

VARIABLES
  mux,       \* at, container, origin, and the number of sound tracks
  written,   \* per track: the times accepted, in the producer's unit
  output,    \* the file under the recording's name
  staged,    \* `<name>.progressive.tmp`
  fin,       \* finalize_in_place: where it is, what it expects, what it reported
  reached,   \* what the file held when its writing ended (of the properties only)
  muxFaults  \* faults so far

muxVars == <<mux, written, output, staged, fin, reached, muxFaults>>

AllTracks == 0 .. AudioLimit
Streams   == 0 .. mux.audio
NoFile    == [form |-> "none", packets |-> [t \in AllTracks |-> <<>>]]
FileOf(form, content) == [form |-> form, packets |-> content]

MuxInit ==
  /\ mux = [at |-> "closed", container |-> "mkv", origin |-> 0, audio |-> 0]
  /\ written = [t \in AllTracks |-> <<>>]
  /\ output = NoFile /\ staged = NoFile /\ reached = NoFile
  /\ fin = [at |-> "none", expects |-> FALSE, report |-> "none"]
  /\ muxFaults = 0

-----------------------------------------------------------------------------
(* Times *)

\* av_rescale_q: to the nearest, halves away from zero.
Rescaled(time, from, into) ==
  LET rounded(n) == (2 * n * into + from) \div (2 * from)
  IN  IF time >= 0 THEN rounded(time) ELSE -rounded(-time)

\* The units of the producers, recorded when the file is opened: the
\* container changes the stream's own when it writes the header.
SourceUnit(t) == IF t = 0 THEN VideoDen ELSE Rate
StepOf(t)     == IF t = 0 THEN VideoStep ELSE AudioStep

\* Mutant: the source's unit is read back off the stream (BUG-015).
StampReadBack(t, time) == time - Rescaled(mux.origin, Nano, SourceUnit(t))

\* The origin is taken off in the producer's unit, then the rest rescaled.
StampOf(t, time) ==
  Rescaled(time - Rescaled(mux.origin, Nano, SourceUnit(t)), SourceUnit(t), MuxDen)

\* The packet of track t that begins the file: the first at or after its
\* origin, or, for sound, the one under way.
FirstTime(t) == (Rescaled(mux.origin, Nano, SourceUnit(t)) \div StepOf(t)) * StepOf(t)

-----------------------------------------------------------------------------
(* Writing *)

MuxOpen ==
  /\ mux.at = "closed"
  /\ \E container \in {"mkv", "mp4"}, audio \in 0 .. AudioLimit + 1, origin \in Origins :
       /\ audio <= AudioLimit
       /\ audio > 1 => container = "mkv"
       /\ mux' = [at |-> "open", container |-> container, origin |-> origin, audio |-> audio]
  /\ output' = FileOf("fragmented", NoFile.packets)
  /\ UNCHANGED <<written, staged, fin, reached, muxFaults>>

\* Refused on a file that is not open, and for a track it does not have.
MuxWrite(t) ==
  /\ mux.at = "open"
  /\ t \in Streams
  /\ Len(written[t]) < MaxPackets[t]
  /\ LET time == FirstTime(t) + Len(written[t]) * StepOf(t) IN
       /\ written' = [written EXCEPT ![t] = Append(@, time)]
       /\ output' = [output EXCEPT !.packets[t] =
                       Append(@, [stamp |-> StampOf(t, time), decodes |-> TRUE])]
  /\ UNCHANGED <<mux, staged, fin, reached, muxFaults>>

CutAt(content, moment) ==
  [t \in AllTracks |-> SelectSeq(content[t], LAMBDA p : p.stamp < moment)]
Moments(content) == UNION {{p.stamp : p \in ToSet(content[t])} : t \in AllTracks}
Damage(content, t, i) == [content EXCEPT ![t][i].decodes = FALSE]

FaultsLeft == muxFaults < MuxFaults
OneFault   == muxFaults' = muxFaults + 1

\* Muxer::finalize; what follows it in VideoPipeline::stop starts at once.
Begins(expects) ==
  fin' = [at |-> IF mux.container = "mp4" THEN "reserved" ELSE "validate",
          expects |-> expects, report |-> "none"]

MuxFinalize ==
  /\ mux.at = "open" /\ \A t \in Streams : written[t] # <<>>
  /\ mux' = [mux EXCEPT !.at = "finalized"]
  /\ \/ UNCHANGED <<output, muxFaults>>
     \/ /\ FaultsLeft /\ OneFault      \* the disk lies about one packet
        /\ \E t \in Streams : \E i \in DOMAIN output.packets[t] :
             output' = [output EXCEPT !.packets = Damage(@, t, i)]
  /\ Begins(TRUE)
  /\ staged' = NoFile
  /\ reached' = output'
  /\ UNCHANGED written

\* `finalized` is set first, so the file is closed all the same.
TrailerFails ==
  /\ mux.at = "open" /\ FaultsLeft /\ OneFault
  /\ mux' = [mux EXCEPT !.at = "finalized"]
  /\ fin' = [fin EXCEPT !.at = "ended", !.report = "error"]
  /\ reached' = output
  /\ UNCHANGED <<written, output, staged>>

-----------------------------------------------------------------------------
(* The remux *)

Ends(report) == fin' = [fin EXCEPT !.at = "ended", !.report = report]

\* The copy ends where the source cannot be read any further: at its end, or
\* at a read error, which is not told from it.
Copied ==
  \/ staged' = FileOf("progressive", output.packets) /\ UNCHANGED muxFaults
  \/ /\ FaultsLeft /\ OneFault
     /\ \E moment \in Moments(output.packets) :
          staged' = FileOf("progressive", CutAt(output.packets, moment))
  \/ /\ FaultsLeft /\ OneFault
     /\ \E t \in Streams : \E i \in DOMAIN output.packets[t] :
          staged' = FileOf("progressive", Damage(output.packets, t, i))

\* Mutant: the copy is swapped in without having been examined.
RemuxTrusted ==
  /\ fin.at \in {"reserved", "faststart"}
  /\ Copied
  /\ fin' = [fin EXCEPT !.at = "swap"]
  /\ UNCHANGED <<mux, written, output, reached>>

RemuxOnce ==
  /\ fin.at \in {"reserved", "faststart"}
  /\ Copied
  /\ fin' = [fin EXCEPT !.at = "validate"]
  /\ UNCHANGED <<mux, written, output, reached>>

\* With a reserved moov it is tried once more without.
RemuxFails ==
  /\ fin.at \in {"reserved", "faststart"} /\ FaultsLeft /\ OneFault
  /\ staged' = NoFile
  /\ IF fin.at = "reserved" THEN fin' = [fin EXCEPT !.at = "faststart"] ELSE Ends("error")
  /\ UNCHANGED <<mux, written, output, reached>>

-----------------------------------------------------------------------------
(* Validation *)

Last0(stamps) == IF stamps = <<>> THEN 0 ELSE Last(stamps)
InFile(t, n)  == Rescaled(n * StepOf(t), SourceUnit(t), MuxDen)
StampsOf(c, t)  == [i \in DOMAIN c[t] |-> c[t][i].stamp]
Decoding(c, t) == LET sound == SelectSeq(c[t], LAMBDA p : p.decodes)
                  IN  [i \in DOMAIN sound |-> sound[i].stamp]

\* raw->duration: to the end of the longest track.
Duration(c) == Max({0} \union {Last(StampsOf(c, t)) + InFile(t, 1) :
                                 t \in {u \in Streams : c[u] # <<>>}})

\* The head is read until every track has decoded something.
HeadEnd(c) == IF \A t \in Streams : Decoding(c, t) # <<>>
              THEN Max({Head(Decoding(c, t)) : t \in Streams})
              ELSE Duration(c)
Keyframes(c) == {c[0][i].stamp : i \in {j \in DOMAIN c[0] : j % KeyEvery = 1 \/ KeyEvery = 1}}

\* The tail starts at the keyframe before the last TailProbe; a file shorter
\* than that is read to its end from where the head stopped.
TailStart(c) ==
  IF Duration(c) > TailProbe
  THEN Max({0} \union {k \in Keyframes(c) : k <= Duration(c) - TailProbe})
  ELSE HeadEnd(c) + 1

UpTo(stamps, end)   == SelectSeq(stamps, LAMBDA s : s <= end)
From(stamps, start) == SelectSeq(stamps, LAMBDA s : s >= start)
HeadOf(c, t) == UpTo(Decoding(c, t), HeadEnd(c))
TailOf(c, t) == From(Decoding(c, t), TailStart(c))

\* The last step between two pictures, in the order they were decoded.
LastStep(read) ==
  LET ups == {i \in 1 .. Len(read) - 1 : read[i] < read[i + 1]}
  IN  IF ups = {} THEN 0 ELSE read[Max(ups) + 1] - read[Max(ups)]

VideoLength(c) ==
  LET read == HeadOf(c, 0) \o TailOf(c, 0)
  IN  IF read = <<>> \/ Last0(read) <= read[1] THEN 0
      ELSE Last0(read) - read[1] + LastStep(read)
AudioLength(c, t) ==
  LET read == HeadOf(c, t) \o TailOf(c, t)
  IN  IF read = <<>> THEN 0 ELSE Last0(read) + InFile(t, 1) - read[1]

Apart(a, b) == a > 0 /\ b > 0 /\ ~(a - b \in -LengthTolerance .. LengthTolerance)

\* What the pictures written should come to.
ExpectedLength == InFile(0, Len(written[0]))

AsLongAsExpected(c) ==
  LET measured == IF VideoLength(c) > 0 THEN VideoLength(c) ELSE Duration(c)
  IN  fin.expects /\ measured > 0 => measured - ExpectedLength \in -Drift .. Drift

SoundIn(c) == \A t \in Streams \ {0} : HeadOf(c, t) \o TailOf(c, t) # <<>>

Accepted(c) ==
  /\ HeadOf(c, 0) # <<>>
  /\ Duration(c) > TailProbe => TailOf(c, 0) # <<>>
  /\ SoundIn(c)
  /\ \A t \in Streams \ {0, 1} : ~Apart(AudioLength(c, 1), AudioLength(c, t))
  /\ AsLongAsExpected(c)
  /\ mux.audio > 0 => ~Apart(AudioLength(c, 1), VideoLength(c))

Examined == IF mux.container = "mp4" THEN staged.packets ELSE output.packets

FileIsGood ==
  /\ fin.at = "validate"
  /\ Accepted(Examined)
  /\ IF mux.container = "mp4" THEN fin' = [fin EXCEPT !.at = "swap"] ELSE Ends("valid")
  /\ UNCHANGED <<mux, written, output, staged, reached, muxFaults>>

FileIsBad ==
  /\ fin.at = "validate"
  /\ ~Accepted(Examined)
  /\ staged' = NoFile
  /\ Ends("invalid")
  /\ UNCHANGED <<mux, written, output, reached, muxFaults>>

\* MoveFileEx, which takes place or does not.
Swap ==
  /\ fin.at = "swap"
  /\ output' = staged /\ staged' = NoFile
  /\ Ends("valid")
  /\ UNCHANGED <<mux, written, reached, muxFaults>>

SwapFails ==
  /\ fin.at = "swap" /\ FaultsLeft /\ OneFault
  /\ staged' = NoFile
  /\ Ends("error")
  /\ UNCHANGED <<mux, written, output, reached>>

-----------------------------------------------------------------------------
(* Death and recovery *)

\* While the file is written, what libavformat has not written out is lost.
DiesWriting ==
  /\ mux.at = "open" /\ FaultsLeft /\ OneFault
  /\ mux' = [mux EXCEPT !.at = "finalized"]
  /\ \E moment \in Moments(output.packets) \union {Duration(output.packets)} :
       output' = [output EXCEPT !.packets = CutAt(@, moment)]
  /\ reached' = output'
  /\ fin' = [fin EXCEPT !.at = "ended", !.report = "error"]
  /\ UNCHANGED <<written, staged>>

\* Whatever was being staged is left where it is, and half of it only.
DiesFinalizing ==
  /\ fin.at \in {"reserved", "faststart", "validate", "swap"} /\ FaultsLeft /\ OneFault
  /\ Ends("error")
  /\ UNCHANGED <<mux, written, output, staged, reached>>

\* The next engine finds the recovery record.  It cannot know the length.
RecoverFile ==
  /\ fin.at = "ended" /\ fin.report # "valid"
  /\ output.packets # NoFile.packets       \* missing or empty: the claim is dropped
  /\ Begins(FALSE)
  /\ staged' = NoFile
  /\ UNCHANGED <<mux, written, output, reached, muxFaults>>

MuxNext ==
  \/ MuxOpen
  \/ \E t \in AllTracks : MuxWrite(t)
  \/ MuxFinalize \/ TrailerFails
  \/ RemuxOnce \/ RemuxFails
  \/ FileIsGood \/ FileIsBad
  \/ Swap \/ SwapFails
  \/ DiesWriting \/ DiesFinalizing \/ RecoverFile

MuxSpec == MuxInit /\ [][MuxNext]_muxVars

-----------------------------------------------------------------------------
(* Properties *)

MuxTypeOK ==
  /\ mux.at \in {"closed", "open", "finalized"}
  /\ fin.at \in {"none", "reserved", "faststart", "validate", "swap", "ended"}
  /\ fin.report \in {"none", "valid", "invalid", "error"}
  /\ {output.form, staged.form, reached.form} \subseteq {"none", "fragmented", "progressive"}
  /\ muxFaults \in 0 .. MuxFaults

Distance(a, b) == Max({a - b, b - a})

(* A stamp is the instant of its packet, counted from the file's origin, to
   within the two roundings: half a unit of the producer for the origin and
   half a unit of the file for the rest.  It holds for every track, so two
   packets of one instant stay together whatever their units and wherever
   the file begins (Muxer::write, BUG-015 and SPEC.md 7.1 and 11). *)
EveryPacketKeepsItsMoment ==
  mux.at = "open" =>
    \A t \in Streams : \A i \in DOMAIN written[t] :
      LET unit == SourceUnit(t)
          due  == (written[t][i] * Nano - mux.origin * unit) * MuxDen
      IN  2 * Distance(output.packets[t][i].stamp * unit * Nano, due)
            <= unit * Nano + MuxDen * Nano

EndOf(c, t) == IF c[t] = <<>> THEN 0 ELSE Last(StampsOf(c, t)) + InFile(t, 1)
LastHeard(c, t) == IF Decoding(c, t) = <<>> THEN 0 ELSE Last(Decoding(c, t)) + InFile(t, 1)

\* Validation takes the gap before the last picture for its length: a picture
\* in that gap that does not decode can stand in for one missing at the end.
StandIns == InFile(0, Len(output.packets[0]) - Len(Decoding(output.packets, 0)))

(* Until the copy is swapped in, the file is what the writing left, and what
   is swapped in passed the examination (finalize_in_place, Muxer::validate). *)
UntouchedUntilTheSwap ==
  mux.at = "finalized" /\ output.form = "fragmented" => output = reached
ReplacedOnlyByTheExamined == output.form = "progressive" => Accepted(output.packets)

\* Recovery knows no length to hold a copy against: one that a read error ended
\* early (copy_packets takes it for the end) passes as the recording of a
\* shorter session, and is swapped in ("keeping the fragmented recording",
\* muxer.cpp:1214, is said of a copy that does not pass).
CutByRecovery ==
  /\ ~fin.expects /\ output.form = "progressive"
  /\ \E moment \in Moments(reached.packets) : output.packets = CutAt(reached.packets, moment)

(* The file under the recording's name is given up for one that lacks more
   of the recording than validation tolerates only if recovery's copy of it
   was cut by a read error: until the swap the file is what the writing left,
   and after it every track ends within the tolerance of where it ended, or
   the pictures did, however often the engine died, a copy was damaged, the
   copy of a stopped recording was cut short, or an attempt was repeated.
   Even a copy that recovery had cut keeps the sound with the pictures it has
   (finalize_in_place, Muxer::validate). *)
NothingIsGivenUpForAPartialCopy ==
  mux.at = "finalized" =>
    LET pictures == EndOf(IF CutByRecovery THEN output.packets ELSE reached.packets, 0)
    IN  /\ UntouchedUntilTheSwap
        /\ \A t \in Streams :
             EndOf(output.packets, t) >= Min({EndOf(reached.packets, t), pictures})
                                           - StandIns - Drift - (IF t = 0 THEN 1 ELSE 2 * LengthTolerance)

(* A recording that ran to its stop and was reported good plays to its end:
   the pictures decode up to the last one written but for the one per cent,
   and the sound to within its tolerance of them, whether the damage was in
   the file as written or came with the copy (Muxer::validate).  Excepted is
   a file only one picture of which decodes: its length is taken from the
   container, which says nothing of the pictures. *)
AGoodReportPlaysToTheEnd ==
  fin.report = "valid" /\ fin.expects /\ Len(Decoding(output.packets, 0)) > 1 =>
    /\ LastHeard(output.packets, 0) >= StampOf(0, Last(written[0])) + InFile(0, 1) - StandIns - Drift - 1
    /\ \A t \in Streams \ {0} :
         LastHeard(output.packets, t) >= LastHeard(output.packets, 0) - 3 * LengthTolerance
=============================================================================
