----------------------------- MODULE H264Encoder -----------------------------
(***************************************************************************)
(* encode/h264_encoder: the adapter between the encode stage and           *)
(* libavcodec, used by one thread.  The hardware path copies each picture  *)
(* into a slice of a bounded pool; the software path downloads each        *)
(* picture into one frame it uses again and again.  Either way the codec   *)
(* keeps a reference to the buffer until it has made a packet of it.       *)
(*                                                                         *)
(* The codec is external: it takes the pictures in order, reads a buffer   *)
(* at the latest when it emits its packet, and emits when it likes.  Left  *)
(* out: rate control, options, colour, decode times (VideoTimeline), and   *)
(* the keyframes the codec makes by itself.                                *)
(***************************************************************************)
EXTENDS Integers, Sequences

CONSTANTS
  PoolSize,       \* VideoEncoderSettings::pool_size
  MaxSubmissions, \* bound: calls of submit
  MaxRequests,    \* bound: calls of request_keyframe
  EncoderFaults   \* bound: calls that fail

ASSUME EncoderAssumption ==
  /\ PoolSize \in Nat \ {0}
  /\ {MaxSubmissions, MaxRequests, EncoderFaults} \subseteq Nat

VARIABLES
  hardware,  \* hardware_
  own,       \* the buffer frame_ or sw_frame_ refers to, 0 when none
  shows,     \* what each buffer shows: the number of a picture, 0 at first
  codec,     \* the pictures the codec holds: [pts, buffer, forced, due]
  forceIdr,  \* force_idr_next_
  flushed,   \* flushed_
  due,       \* the last request: "no", "yes", or "lost" with a failed submission
  packet,    \* the latest packet: [pts, shows, forced, due]
  encodeTally \* submissions, requests and faults so far

encoderVars == <<hardware, own, shows, codec, forceIdr, flushed, due, packet, encodeTally>>

Submitted == 1 .. MaxSubmissions
\* The slices of the pool, or the frame's buffer and what make_writable replaces
\* it with: as many as the codec can refer to, and one.
Buffers == IF hardware THEN 1 .. PoolSize ELSE 1 .. MaxSubmissions + 1
AllBuffers == 1 .. PoolSize + MaxSubmissions + 1
Owed == {"no", "yes", "lost"}
NoPacket == [pts |-> 0, shows |-> 0, forced |-> FALSE, due |-> "no"]

EncoderTypeOK ==
  /\ {hardware, forceIdr, flushed} \subseteq BOOLEAN
  /\ own \in AllBuffers \union {0}
  /\ shows \in [AllBuffers -> Submitted \union {0}]
  /\ codec \in Seq([pts : Submitted, buffer : AllBuffers, forced : BOOLEAN, due : Owed])
  /\ due \in Owed
  /\ packet \in [pts : Submitted \union {0}, shows : Submitted \union {0},
                 forced : BOOLEAN, due : Owed]
  /\ encodeTally \in [submissions : 0 .. MaxSubmissions, requests : 0 .. MaxRequests,
                      faults : 0 .. EncoderFaults]

EncoderInit ==
  /\ hardware \in BOOLEAN
  /\ own = 0 /\ shows = [b \in AllBuffers |-> 0] /\ codec = <<>>
  /\ forceIdr = FALSE /\ flushed = FALSE /\ due = "no" /\ packet = NoPacket
  /\ encodeTally = [submissions |-> 0, requests |-> 0, faults |-> 0]

EncoderFails == /\ encodeTally.faults < EncoderFaults
                /\ encodeTally' = [encodeTally EXCEPT !.faults = @ + 1, !.submissions = @ + 1]
CanSubmit == encodeTally.submissions < MaxSubmissions
Picture   == encodeTally.submissions + 1

\* Buffers the codec refers to.
Referenced == {codec[i].buffer : i \in DOMAIN codec}
FreeBuffers == Buffers \ Referenced
LeastOf(S) == CHOOSE b \in S : \A c \in S : b <= c

\* Mutant: the software path writes over its frame whoever refers to it.
AnyBuffer == IF ~hardware /\ own # 0 THEN own
             ELSE IF FreeBuffers = {} THEN 0 ELSE LeastOf(FreeBuffers)
\* The buffer the next picture is written to, 0 when there is none: a slice of the
\* pool (frame_ has let go of its own), or the frame's buffer, replaced when the
\* codec refers to it.
WritableBuffer ==
  IF ~hardware /\ own \in FreeBuffers THEN own
  ELSE IF FreeBuffers = {} THEN 0 ELSE LeastOf(FreeBuffers)

-----------------------------------------------------------------------------
RequestKeyframe ==
  /\ encodeTally.requests < MaxRequests /\ ~flushed
  /\ forceIdr' = TRUE /\ due' = "yes"
  /\ encodeTally' = [encodeTally EXCEPT !.requests = @ + 1]
  /\ UNCHANGED <<hardware, own, shows, codec, flushed, packet>>

Consumed == FALSE

WritesThePicture == /\ own' = WritableBuffer
                    /\ shows' = [shows EXCEPT ![WritableBuffer] = Picture]

SubmitPicture ==
  /\ CanSubmit /\ ~flushed /\ WritableBuffer # 0
  /\ WritesThePicture
  /\ codec' = Append(codec, [pts |-> Picture, buffer |-> WritableBuffer,
                             forced |-> forceIdr, due |-> due])
  /\ forceIdr' = Consumed /\ due' = "no"
  /\ encodeTally' = [encodeTally EXCEPT !.submissions = @ + 1]
  /\ UNCHANGED <<hardware, flushed, packet>>

\* avcodec_send_frame refuses the picture, which carried the request.
SendFails ==
  /\ CanSubmit /\ ~flushed /\ WritableBuffer # 0
  /\ EncoderFails
  /\ WritesThePicture
  /\ forceIdr' = Consumed
  /\ due' = IF forceIdr THEN "lost" ELSE due
  /\ UNCHANGED <<hardware, codec, flushed, packet>>

\* QUEUE_FULL: every slice is referenced; or an error before the request is looked
\* at.  The caller drains and tries again, or counts the picture lost.
SubmitRefused ==
  /\ CanSubmit /\ ~flushed
  /\ \/ WritableBuffer = 0 /\ UNCHANGED encodeTally
     \/ EncoderFails
  /\ own' = IF hardware THEN 0 ELSE own
  /\ UNCHANGED <<hardware, shows, codec, forceIdr, flushed, due, packet>>

ReceivePacket ==
  /\ codec # <<>>
  /\ packet' = [pts |-> Head(codec).pts, shows |-> shows[Head(codec).buffer],
                forced |-> Head(codec).forced, due |-> Head(codec).due]
  /\ codec' = Tail(codec)
  /\ UNCHANGED <<hardware, own, shows, forceIdr, flushed, due, encodeTally>>

FlushEncoder ==
  /\ ~flushed
  /\ flushed' = TRUE
  /\ UNCHANGED <<hardware, own, shows, codec, forceIdr, due, packet, encodeTally>>

EncoderNext == RequestKeyframe \/ SubmitPicture \/ SendFails \/ SubmitRefused
               \/ ReceivePacket \/ FlushEncoder

EncoderSpec == EncoderInit /\ [][EncoderNext]_encoderVars

-----------------------------------------------------------------------------
(* Properties *)

\* A packet is made of the picture that was submitted with its time stamp, however
\* long the codec kept the buffer and whatever was submitted since: "overwriting it
\* would corrupt a frame that has not been encoded yet".
PacketsShowTheirPictures == packet.shows = packet.pts

\* A request for a keyframe is coded in the first picture that is accepted after
\* it, and in that one only; unless the submission that carried it failed.
OneRequestOneKeyframe ==
  /\ packet.due = "yes" => packet.forced
  /\ packet.forced => packet.due = "yes"

\* "One request codes one IDR", also when a submission fails on the way: "a dropped
\* IDR request is a smeared seam that survives until the next GOP boundary".
NoRequestIsDropped == packet.due # "no" => packet.forced
=============================================================================
