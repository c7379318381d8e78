------------------------------- MODULE Preview -------------------------------
(***************************************************************************)
(* The preview: pictures of the recording, scaled down and put in shared   *)
(* memory for the GUI (preview/preview_writer.cpp, preview_ring.cpp).      *)
(*                                                                         *)
(* The capture thread offers pictures.  An offer takes a free staging      *)
(* surface, has the GPU fill it, and leaves it in a hand-off of one place, *)
(* displacing and releasing what lay there.  The thread fc-preview takes   *)
(* it, copies it into the next slot of the ring and publishes it by an     *)
(* index.                                                                  *)
(*                                                                         *)
(* The reader is the GUI (preview.py, widgets/panels.py), another process  *)
(* that shares no lock with the writer.  A timer's tick looks up the       *)
(* newest picture, lays an image over its slot, and keeps the image unless *)
(* the writer may have come round to the slot by then.  It is painted      *)
(* later, out of the slot, as often as the window asks for it and without  *)
(* another look at the index.                                              *)
(*                                                                         *)
(* A picture is a number, and it is painted in two halves, so that one     *)
(* painted while its slot is written is seen to be torn.  Left out:        *)
(* scaling, formats, the timestamp beside the index (no production reader  *)
(* takes it), the header's checks, and the rate limiter (an offer it       *)
(* refuses changes nothing).                                               *)
(***************************************************************************)
EXTENDS Integers, Sequences, SequencesExt

CONSTANTS
  Slots,        \* PreviewGeometry::slots
  Staging,      \* kStagingSlots
  MaxPictures,  \* bound: pictures offered
  MaxRings      \* bound: rings created under the name

ASSUME PreviewAssumption ==
  /\ Slots \in Nat /\ Slots >= 2                    \* PreviewGeometry::valid
  /\ {Staging, MaxPictures, MaxRings} \subseteq Nat \ {0}

VARIABLES
  ring,      \* the section: open (the magic), index, and the slots' halves
  rings,     \* how many rings have been created
  surface,   \* [1 .. Staging -> picture]: what a staging surface holds
  freeSlots, \* free_slots, a vector used from its end
  pending,   \* pending_slot: a surface, or 0
  exiting,
  offering,  \* the capture thread: its offer, or its start/stop of the writer
  preview,   \* fc-preview
  offered,   \* the pictures offered so far
  reader     \* the GUI: the image it may take, the one it keeps, what it has painted

shown == <<ring, rings, surface, freeSlots, pending, exiting, offering, preview,
           offered, reader>>

Surfaces == 1 .. Staging
Pictures == 0 .. MaxPictures       \* 0: nothing
Halves   == [first : Pictures, second : Pictures]

PreviewTypeOK ==
  /\ ring.open \in BOOLEAN /\ ring.index \in Nat
  /\ ring.slot \in [0 .. Slots - 1 -> Halves]
  /\ surface \in [Surfaces -> Pictures]
  /\ freeSlots \in Seq(Surfaces) /\ pending \in Surfaces \union {0}
  /\ offering.at \in {"stopped", "idle", "dispatch", "handoff", "release", "join"}
  /\ preview.at \in {"ended", "wait", "first", "second", "index", "release"}
  /\ reader.at \in {"idle", "check", "paint", "painted"}

NoHalves == [first |-> 0, second |-> 0]
NoSlots  == [k \in 0 .. Slots - 1 |-> NoHalves]
NoImage  == [seq |-> 0, ring |-> 0]
Blank    == [at |-> "idle", next |-> NoImage, image |-> NoImage, paint |-> NoHalves]

-----------------------------------------------------------------------------
(* The section *)

\* create: the header is zeroed and stamped, the magic last.  While the reader
\* still maps the section the name denotes the same pages, slots and all.
RingOpens ==
  /\ ~ring.open /\ rings < MaxRings
  /\ rings' = rings + 1
  /\ ring' = [ring EXCEPT !.open = TRUE, !.index = 0]
  /\ UNCHANGED <<surface, freeSlots, pending, exiting, offering, preview, offered, reader>>

\* close, by the engine once the writer has stopped.
RingCloses ==
  /\ ring.open /\ offering.at = "stopped"
  /\ ring' = [ring EXCEPT !.open = FALSE]
  /\ UNCHANGED <<rings, surface, freeSlots, pending, exiting, offering, preview, offered, reader>>

NextSlot == ring.index % Slots
\* Mutant: the slot being written next is taken for one that is safe.
FullCircle  == Slots - 1
\* How many pictures may follow before the slot of one is written again.
LapDistance == Slots - 2

-----------------------------------------------------------------------------
(* The writer's start and stop, on the capture thread *)

WriterStarts ==
  /\ offering.at = "stopped" /\ preview.at = "ended" /\ ring.open
  /\ surface' = [s \in Surfaces |-> 0]
  /\ freeSlots' = [k \in Surfaces |-> k]
  /\ pending' = 0 /\ exiting' = FALSE
  /\ offering' = [offering EXCEPT !.at = "idle"]
  /\ preview' = [at |-> "wait", slot |-> 0]
  /\ UNCHANGED <<ring, rings, offered, reader>>

WriterStops ==
  /\ offering.at = "idle"
  /\ exiting' = TRUE
  /\ offering' = [offering EXCEPT !.at = "join"]
  /\ UNCHANGED <<ring, rings, surface, freeSlots, pending, preview, offered, reader>>

WriterJoins ==
  /\ offering.at = "join" /\ preview.at = "ended"
  /\ offering' = [offering EXCEPT !.at = "stopped"]
  /\ UNCHANGED <<ring, rings, surface, freeSlots, pending, exiting, preview, offered, reader>>

-----------------------------------------------------------------------------
(* offer, on the capture thread *)

Released(slot) == Append(freeSlots, slot)

\* A surface is taken from the free list; without one the picture is dropped.
Offer ==
  /\ offering.at = "idle" /\ offered < MaxPictures
  /\ offered' = offered + 1
  /\ IF freeSlots = <<>> THEN UNCHANGED <<freeSlots, offering>>
     ELSE /\ freeSlots' = Front(freeSlots)
          /\ offering' = [offering EXCEPT !.at = "dispatch", !.slot = Last(freeSlots)]
  /\ UNCHANGED <<ring, rings, surface, pending, exiting, preview, reader>>

\* The scaler runs and its output is copied to the surface.
Dispatches ==
  /\ offering.at = "dispatch"
  /\ surface' = [surface EXCEPT ![offering.slot] = offered]
  /\ offering' = [offering EXCEPT !.at = "handoff"]
  /\ UNCHANGED <<ring, rings, freeSlots, pending, exiting, preview, offered, reader>>

DispatchFails ==
  /\ offering.at = "dispatch"
  /\ freeSlots' = Released(offering.slot)
  /\ offering' = [at |-> "idle", slot |-> 0]
  /\ UNCHANGED <<ring, rings, surface, pending, exiting, preview, offered, reader>>

\* Under the lock: the hand-off takes the new surface, and what was there is
\* released afterwards, under the lock again.
HandsOff ==
  /\ offering.at = "handoff"
  /\ pending' = offering.slot
  /\ offering' = IF pending = 0 THEN [at |-> "idle", slot |-> 0]
                 ELSE [at |-> "release", slot |-> pending]
  /\ UNCHANGED <<ring, rings, surface, freeSlots, exiting, preview, offered, reader>>

ReleasesDisplaced ==
  /\ offering.at = "release"
  /\ freeSlots' = Released(offering.slot)
  /\ offering' = [at |-> "idle", slot |-> 0]
  /\ UNCHANGED <<ring, rings, surface, pending, exiting, preview, offered, reader>>

-----------------------------------------------------------------------------
(* fc-preview *)

Takes ==
  /\ preview.at = "wait" /\ pending # 0
  /\ preview' = [at |-> "first", slot |-> pending]
  /\ pending' = 0
  /\ UNCHANGED <<ring, rings, surface, freeSlots, exiting, offering, offered, reader>>

PreviewEnds ==
  /\ preview.at = "wait" /\ pending = 0 /\ exiting
  /\ preview' = [preview EXCEPT !.at = "ended"]
  /\ UNCHANGED <<ring, rings, surface, freeSlots, pending, exiting, offering, offered, reader>>

\* The GPU is not done within the retries, or the map fails: nothing is written.
ReadBackFails ==
  /\ preview.at = "first"
  /\ preview' = [preview EXCEPT !.at = "release"]
  /\ UNCHANGED <<ring, rings, surface, freeSlots, pending, exiting, offering, offered, reader>>

WritesHalf ==
  /\ preview.at \in {"first", "second"}
  /\ LET picture == surface[preview.slot]
     IN IF preview.at = "first"
        THEN /\ ring' = [ring EXCEPT !.slot[NextSlot].first = picture]
             /\ preview' = [preview EXCEPT !.at = "second"]
        ELSE /\ ring' = [ring EXCEPT !.slot[NextSlot].second = picture]
             /\ preview' = [preview EXCEPT !.at = "index"]
  /\ UNCHANGED <<rings, surface, freeSlots, pending, exiting, offering, offered, reader>>

\* publish: the index makes the slot visible.
Publishes ==
  /\ preview.at = "index"
  /\ ring' = [ring EXCEPT !.index = @ + 1]
  /\ preview' = [preview EXCEPT !.at = "release"]
  /\ UNCHANGED <<rings, surface, freeSlots, pending, exiting, offering, offered, reader>>

ReleasesSurface ==
  /\ preview.at = "release"
  /\ freeSlots' = Released(preview.slot)
  /\ preview' = [at |-> "wait", slot |-> 0]
  /\ UNCHANGED <<ring, rings, surface, pending, exiting, offering, offered, reader>>

-----------------------------------------------------------------------------
(* The reader.  Its steps are callbacks of one thread, the GUI's: between a *)
(* look at the index and the next, or between two halves of a painting, it  *)
(* does nothing else.                                                       *)

\* latest_image: the index; nothing, if it is 0 or that of the image kept.
Latest ==
  /\ reader.at \in {"idle", "painted"} /\ ring.index \notin {0, reader.image.seq}
  /\ reader' = [reader EXCEPT !.at = "check", !.next = [seq |-> ring.index, ring |-> rings],
                              !.paint = NoHalves]
  /\ UNCHANGED <<ring, rings, surface, freeSlots, pending, exiting, offering, preview, offered>>

Lapped(seq) == ring.index - seq > LapDistance

\* With the image laid over the slot, the index again: an image whose slot may be
\* written by now is not taken, and the one before it stays.
Rechecks ==
  /\ reader.at = "check"
  /\ reader' = [reader EXCEPT !.at = "idle", !.next = NoImage,
                              !.image = IF Lapped(reader.next.seq) THEN @ ELSE reader.next]
  /\ UNCHANGED <<ring, rings, surface, freeSlots, pending, exiting, offering, preview, offered>>

\* paintEvent: the pixels are read where they lie.
PaintsHalf ==
  /\ reader.at \in {"idle", "paint", "painted"} /\ reader.image.seq # 0
  /\ LET slot == ring.slot[(reader.image.seq - 1) % Slots]
     IN reader' = IF reader.at = "paint"
                  THEN [reader EXCEPT !.at = "painted", !.paint.second = slot.second]
                  ELSE [reader EXCEPT !.at = "paint", !.paint = [first |-> slot.first, second |-> 0]]
  /\ UNCHANGED <<ring, rings, surface, freeSlots, pending, exiting, offering, preview, offered>>

\* set_channel: the engine went, or the preview was asked for again.
ChannelSet ==
  /\ reader.at \in {"idle", "painted"} /\ reader.image.seq # 0
  /\ reader' = Blank
  /\ UNCHANGED <<ring, rings, surface, freeSlots, pending, exiting, offering, preview, offered>>

-----------------------------------------------------------------------------
PreviewInit ==
  /\ ring = [open |-> FALSE, index |-> 0, slot |-> NoSlots]
  /\ rings = 0 /\ offered = 0
  /\ surface = [s \in Surfaces |-> 0] /\ freeSlots = <<>> /\ pending = 0
  /\ exiting = FALSE
  /\ offering = [at |-> "stopped", slot |-> 0]
  /\ preview = [at |-> "ended", slot |-> 0]
  /\ reader = Blank

OfferSteps   == Dispatches \/ DispatchFails \/ HandsOff \/ ReleasesDisplaced \/ WriterJoins
PreviewSteps == Takes \/ PreviewEnds \/ ReadBackFails \/ WritesHalf \/ Publishes
                \/ ReleasesSurface
ReaderSteps  == Latest \/ Rechecks \/ PaintsHalf \/ ChannelSet

PreviewNext == \/ RingOpens \/ RingCloses \/ WriterStarts \/ WriterStops \/ Offer
               \/ OfferSteps \/ PreviewSteps \/ ReaderSteps

PreviewSpec == PreviewInit /\ [][PreviewNext]_shown

-----------------------------------------------------------------------------
(* What the preview promises *)

\* A painting is one picture from top to bottom as long as the slot it was read
\* from has not been lapped when it ends: whatever the writer did meanwhile, the
\* distance at which the GUI gives an image up is far enough from the slot being
\* written.  A picture on the screen is torn only if its image was kept, or its
\* painting went on, past that distance or past the ring itself.
PaintsWholePictures ==
  reader.at = "painted" /\ reader.image.ring = rings /\ ~Lapped(reader.image.seq)
    => reader.paint.first = reader.paint.second /\ reader.paint.first # 0

\* While the writer runs, every staging surface is in exactly one place: free,
\* in the hand-off, with the offer, or with fc-preview.  None is lost when a
\* picture is dropped on any of the ways it can be, and none is used by two.
Places(s) == Len(SelectSeq(freeSlots, LAMBDA f : f = s))
             + (IF pending = s THEN 1 ELSE 0)
             + (IF offering.slot = s THEN 1 ELSE 0)
             + (IF preview.slot = s THEN 1 ELSE 0)
EverySurfaceHasOnePlace ==
  offering.at \notin {"stopped", "join"} => \A s \in Surfaces : Places(s) = 1
=============================================================================
