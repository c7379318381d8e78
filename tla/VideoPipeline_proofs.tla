------------------------ MODULE VideoPipeline_proofs ------------------------
(***************************************************************************)
(* The way of a frame through the pipeline, for every capacity of the      *)
(* queues, every number of frames, rebuilds, rollovers and faults, and     *)
(* every choice of joins that may expire.                                  *)
(***************************************************************************)
EXTENDS VideoPipeline, FiniteSetTheorems, TLAPS

(* What each thread has in hand, by where it is.                           *)
Holding ==
    /\ capture.slot # NoSlot <=> capture.at = "copied"
    /\ venc.frame.slot # NoSlot <=> venc.at = "convert"
    /\ venc.at \notin {"convert", "encode"} => venc.frame = NoFrame
    /\ \A i \in DOMAIN queue : queue[i].slot # NoSlot
    /\ capture.at \in {"flush", "open"} => venc.at = "ended"

(* Only a queue that nobody reads any more holds frames of a ring that was *)
(* reset: the venc thread has ended, and the rebuild either starts it      *)
(* again with an empty queue or gives up for good.                         *)
QueueIsOfThisRing ==
    \/ \A i \in DOMAIN queue : queue[i].ring = ring
    \/ venc.at = "ended" /\ capture.at \in {"open", "refused", "gone"}

(* TypeOK by the threads and queues that share a part of the state.        *)
CaptureTypeOK ==
    /\ capture \in [at : {"idle", "admitted", "copied", "joinVenc", "flush", "open", "refused",
                         "gone"}, slot : Slots \cup {NoSlot}]
    /\ free \subseteq Slots
    /\ ring \in Nat

QueueTypeOK == queue \in Seq(Item) /\ Len(queue) <= EncodeCapacity

VencTypeOK ==
    /\ venc \in [at : {"pop", "convert", "encode", "drain", "ended"}, frame : Item]
    /\ encoder \in Seq(Nat)

MuxTypeOK ==
    /\ muxQueue \in Seq(Packet) /\ Len(muxQueue) <= MuxCapacity
    /\ mux \in [at : {"pop", "rolling", "write", "ended"}, packet : Packet]
    /\ file \in Seq(Packet)
    /\ refused \subseteq Packet

FlagsTypeOK ==
    /\ encodeOpen \in BOOLEAN /\ detached \in BOOLEAN /\ muxOpen \in BOOLEAN
    /\ running \in BOOLEAN /\ epoch \in BOOLEAN /\ trailer \in BOOLEAN

CountsTypeOK ==
    /\ submitted \in Nat /\ audioMade \in Nat /\ rolls \in Nat
    /\ faults \subseteq MayFail
    /\ awaiting \cup dropped \cup discarded \cup lost \subseteq Nat

StopTypeOK ==
    /\ aenc \in {"run", "ended"}
    /\ watchdog \in {"run", "ended"}
    /\ stopping \subseteq {"watchdog", "audio"}
    /\ owner \in {"away", "joinWatchdog", "joinAenc", "audioTail", "joinVenc", "flush", "joinMux",
                  "finalize", "done", "timedOut"}

Types == /\ CaptureTypeOK /\ QueueTypeOK /\ VencTypeOK /\ MuxTypeOK
         /\ FlagsTypeOK /\ CountsTypeOK /\ StopTypeOK

SlotInv == Types /\ Holding /\ SlotsAreExclusive /\ QueueIsOfThisRing /\ NoSlotOfADeadDevice

-----------------------------------------------------------------------------
(* Sequences                                                               *)

LEMMA TailAt ==
  ASSUME NEW T, NEW s \in Seq(T), s # <<>>
  PROVE  /\ Tail(s) \in Seq(T) /\ Len(Tail(s)) = Len(s) - 1
         /\ DOMAIN s = 1 .. Len(s) /\ 1 \in DOMAIN s /\ Head(s) = s[1] /\ Head(s) \in T
         /\ DOMAIN Tail(s) = 1 .. Len(s) - 1
         /\ \A i \in DOMAIN Tail(s) : i + 1 \in DOMAIN s /\ Tail(s)[i] = s[i + 1]
  OBVIOUS

LEMMA AppendAt ==
  ASSUME NEW T, NEW s \in Seq(T), NEW e \in T
  PROVE  /\ Append(s, e) \in Seq(T) /\ Len(Append(s, e)) = Len(s) + 1
         /\ DOMAIN s = 1 .. Len(s)
         /\ DOMAIN Append(s, e) = 1 .. Len(s) + 1
         /\ \A i \in DOMAIN Append(s, e) :
               IF i \in DOMAIN s THEN Append(s, e)[i] = s[i]
               ELSE i = Len(s) + 1 /\ Append(s, e)[i] = e
  OBVIOUS

(* The two forms of what a queue holds after a pop and after a push.       *)
LEMMA TailFrom ==
  ASSUME NEW T, NEW s \in Seq(T), s # <<>>
  PROVE  \A i \in DOMAIN Tail(s) : \E j \in DOMAIN s : j = i + 1 /\ Tail(s)[i] = s[j]
  BY TailAt

LEMMA TypesAreTypeOK == Types <=> TypeOK
  <1>1. FlagsTypeOK <=> {encodeOpen, detached, muxOpen, running, epoch, trailer} \subseteq BOOLEAN
    BY DEF FlagsTypeOK
  <1>2. CountsTypeOK <=> /\ {submitted, audioMade, rolls} \subseteq Nat
                         /\ faults \subseteq MayFail
                         /\ awaiting \cup dropped \cup discarded \cup lost \subseteq Nat
    BY DEF CountsTypeOK
  <1> QED
    BY <1>1, <1>2, Zenon DEF Types, TypeOK, CaptureTypeOK, QueueTypeOK, VencTypeOK, MuxTypeOK, StopTypeOK

LEMMA PacketsAndFrames ==
  /\ \A n \in Nat : Video(n) \in Packet /\ Audio(n) \in Packet
  /\ Nothing \in Packet /\ NoFrame \in Item /\ NoEncoder \in Seq(Nat) /\ <<>> \in Seq(Nat)
  BY DEF Video, Audio, Packet, Nothing, NoFrame, Item, NoEncoder

LEMMA NoFrameIsAFrame == NoFrame \in Item /\ NoFrame.slot = NoSlot /\ NoFrame.n = 0
  BY DEF NoFrame, Item

LEMMA Bounds ==
  /\ EncodeCapacity \in Nat \ {0} /\ MuxCapacity \in Nat \ {0} /\ Delay \in Nat
  /\ MaxFrames \in Nat /\ MaxAudio \in Nat /\ MaxRebuilds \in Nat
  /\ MaxRolls \in Nat /\ MaxFaults \in Nat
  BY CapacitiesAssumption, BoundsAssumption

(* What the operations several threads share do to the queues.             *)

LEMMA QueueHead ==
  ASSUME QueueTypeOK, queue # <<>>
  PROVE  /\ Head(queue) \in Item /\ Head(queue) = queue[1] /\ 1 \in DOMAIN queue
         /\ Tail(queue) \in Seq(Item) /\ Len(Tail(queue)) = Len(queue) - 1 /\ Len(queue) \in Nat
         /\ \A i \in DOMAIN queue : i = 1 \/ \E j \in DOMAIN Tail(queue) : i = j + 1
         /\ \A i \in DOMAIN Tail(queue) : /\ i + 1 \in DOMAIN queue /\ i + 1 # 1
                                          /\ i \in Nat /\ Tail(queue)[i] = queue[i + 1]
  <1> DEFINE q == queue
  <1>1. q \in Seq(Item) /\ q # <<>>
    BY DEF QueueTypeOK
  <1> HIDE DEF q
  <1>2. /\ Tail(q) \in Seq(Item) /\ Len(Tail(q)) = Len(q) - 1
        /\ DOMAIN q = 1 .. Len(q) /\ 1 \in DOMAIN q /\ Head(q) = q[1] /\ Head(q) \in Item
        /\ DOMAIN Tail(q) = 1 .. Len(q) - 1
        /\ \A i \in DOMAIN Tail(q) : i + 1 \in DOMAIN q /\ Tail(q)[i] = q[i + 1]
    BY <1>1, TailAt
  <1>3. Len(q) \in Nat /\ \A i \in DOMAIN Tail(q) : i \in Nat /\ i + 1 # 1
    BY <1>1, <1>2
  <1>4. ASSUME NEW i \in DOMAIN q, i # 1 PROVE i - 1 \in DOMAIN Tail(q) /\ i = (i - 1) + 1
    BY <1>2, <1>3, <1>4
  <1> QED BY <1>2, <1>3, <1>4 DEF q

LEMMA PushKeepsTypes ==
  ASSUME MuxTypeOK, NEW packet \in Packet, PushPacket(packet)
  PROVE  muxQueue' \in Seq(Packet) /\ Len(muxQueue') <= MuxCapacity /\ refused' \subseteq Packet
  <1>1. CASE muxOpen /\ Len(muxQueue) < MuxCapacity /\ muxQueue' = Append(muxQueue, packet)
             /\ refused' = refused
    <2>1. Append(muxQueue, packet) \in Seq(Packet) /\ Len(Append(muxQueue, packet)) = Len(muxQueue) + 1
          /\ Len(muxQueue) \in Nat
      BY DEF MuxTypeOK
    <2> QED BY <1>1, <2>1, Bounds DEF MuxTypeOK
  <1>2. CASE ~muxOpen /\ refused' = refused \cup {packet} /\ muxQueue' = muxQueue
    BY <1>2 DEF MuxTypeOK
  <1> QED BY <1>1, <1>2 DEF PushPacket

LEMMA DrainKeepsTypes ==
  ASSUME VencTypeOK, MuxTypeOK, NEW kept \in Nat, DrainOne(kept)
  PROVE  /\ muxQueue' \in Seq(Packet) /\ Len(muxQueue') <= MuxCapacity /\ refused' \subseteq Packet
         /\ encoder' \in Seq(Nat) /\ encoder # <<>> /\ Head(encoder) \in Nat
  <1>1. encoder \in Seq(Nat) /\ Len(encoder) > kept
    BY DEF VencTypeOK, DrainOne
  <1>2. encoder # <<>>
    BY <1>1
  <1>3. Tail(encoder) \in Seq(Nat) /\ Head(encoder) \in Nat
    BY <1>1, <1>2, TailAt
  <1>4. Video(Head(encoder)) \in Packet
    BY <1>3, PacketsAndFrames
  <1> QED BY <1>2, <1>3, <1>4, PushKeepsTypes DEF DrainOne

(* The conversion, whatever it returns, leaves the thread without a slot.  *)
LEMMA AfterTheConversion ==
  ASSUME VencTypeOK, Holding, VencConverts
  PROVE  /\ venc.at = "convert" /\ venc.frame.slot \in Slots /\ venc.frame.n \in Nat
         /\ venc' \in [at : {"encode", "pop"}, frame : Item] /\ venc'.frame.slot = NoSlot
         /\ venc'.at = "pop" => venc'.frame = NoFrame
         /\ \/ venc'.at = "encode" /\ venc'.frame.n = venc.frame.n /\ discarded' = discarded
            \/ venc'.at = "pop" /\ discarded' = discarded \cup {venc.frame.n}
  <1> DEFINE f == venc.frame
             g == [f EXCEPT !.slot = NoSlot]
  <1>1. venc.at = "convert" /\ f \in Item /\ f.slot # NoSlot
    BY DEF VencTypeOK, Holding, VencConverts
  <1>2. f.slot \in Slots /\ f.n \in Nat
    BY <1>1 DEF Item
  <1>3. g \in Item /\ g.slot = NoSlot /\ g.n = f.n
    <2> HIDE DEF f
    <2> QED BY <1>1 DEF Item
  <1>5. \/ venc' = [venc EXCEPT !.at = "encode", !.frame.slot = NoSlot] /\ discarded' = discarded
        \/ venc' = [at |-> "pop", frame |-> NoFrame] /\ discarded' = discarded \cup {f.n}
    BY DEF VencConverts
  <1>6. NoFrame \in Item /\ NoFrame.slot = NoSlot
    BY NoFrameIsAFrame
  <1>7. CASE venc' = [venc EXCEPT !.at = "encode", !.frame.slot = NoSlot] /\ discarded' = discarded
    <2>1. venc' = [[venc EXCEPT !.at = "encode"] EXCEPT !.frame = g]
      BY <1>7 DEF VencTypeOK
    <2>2. venc'.at = "encode" /\ venc'.frame = g /\ venc' \in [at : {"encode"}, frame : {g}]
      <3> HIDE DEF g
      <3> QED BY <2>1 DEF VencTypeOK
    <2> HIDE DEF g, f
    <2> QED BY <1>1, <1>2, <1>3, <1>7, <2>2 DEF f
  <1> HIDE DEF g, f
  <1>8. CASE venc' = [at |-> "pop", frame |-> NoFrame] /\ discarded' = discarded \cup {f.n}
    BY <1>1, <1>2, <1>6, <1>8 DEF f
  <1> QED BY <1>5, <1>7, <1>8

(* The frame that is pushed, and the queue it is pushed onto: as it was,   *)
(* or without the frame it displaces.                                      *)
LEMMA CopiedIsNew ==
  ASSUME SlotInv, capture.at = "copied"
  PROVE  /\ Copied \in Item /\ Copied.slot = capture.slot /\ Copied.ring = ring
         /\ capture.slot \in Slots /\ capture.slot # NoSlot /\ capture.slot \notin QueuedSlots
         /\ capture.slot \notin free /\ capture.slot # venc.frame.slot
         /\ \A i \in DOMAIN queue : queue[i].ring = ring
  <1>1. capture.slot \in Slots /\ capture.slot # NoSlot
    BY DEF SlotInv, Types, CaptureTypeOK, Holding
  <1>2. Copied \in Item /\ Copied.slot = capture.slot /\ Copied.ring = ring
    BY <1>1 DEF SlotInv, Types, CaptureTypeOK, CountsTypeOK, Copied, Item
  <1>3. capture.slot \notin free
    BY <1>1 DEF SlotInv, SlotsAreExclusive, SlotsInUse
  <1> QED BY <1>1, <1>2, <1>3 DEF SlotInv, SlotsAreExclusive, QueueIsOfThisRing

LEMMA Pushed ==
  ASSUME SlotInv, capture.at = "copied",
         NEW q, q = queue \/ (queue # <<>> /\ q = Tail(queue)),
         Len(q) < EncodeCapacity, queue' = Append(q, Copied)
  PROVE  /\ queue' \in Seq(Item) /\ Len(queue') <= EncodeCapacity
         /\ \A i \in DOMAIN queue' : queue'[i].slot # NoSlot /\ queue'[i].ring = ring
         /\ \A i, j \in DOMAIN queue' : i # j => queue'[i].slot # queue'[j].slot
         /\ QueuedSlots' \subseteq QueuedSlots \cup {capture.slot}
  <1>1. /\ q \in Seq(Item)
        /\ \A i \in DOMAIN q : /\ q[i].slot \in QueuedSlots /\ q[i].slot # NoSlot
                               /\ q[i].ring = ring
        /\ \A i, j \in DOMAIN q : i # j => q[i].slot # q[j].slot
    <2>1. CASE q = queue
      BY <2>1, CopiedIsNew DEF SlotInv, Types, QueueTypeOK, QueuedSlots, Holding, SlotsAreExclusive
    <2>2. CASE queue # <<>> /\ q = Tail(queue)
      <3>1. q \in Seq(Item) /\ \A i \in DOMAIN q : i \in Nat /\ i + 1 \in DOMAIN queue /\ q[i] = queue[i + 1]
        BY <2>2, QueueHead DEF SlotInv, Types
      <3>2. \A i, j \in DOMAIN q : i # j => q[i].slot # q[j].slot
        <4> TAKE i, j \in DOMAIN q
        <4>1. i # j => i + 1 # j + 1
          BY <3>1
        <4>2. \A a, b \in DOMAIN queue : a # b => queue[a].slot # queue[b].slot
          BY DEF SlotInv, SlotsAreExclusive
        <4> QED BY <3>1, <4>1, <4>2
      <3> QED BY <3>1, <3>2, CopiedIsNew DEF SlotInv, QueuedSlots, Holding
    <2> QED BY <2>1, <2>2
  <1>2. /\ queue' \in Seq(Item) /\ Len(queue') = Len(q) + 1 /\ Len(q) \in Nat
        /\ \A i \in DOMAIN queue' :
              IF i \in DOMAIN q THEN queue'[i] = q[i]
              ELSE i = Len(q) + 1 /\ queue'[i] = Copied
    BY <1>1, CopiedIsNew, AppendAt
  <1>3. Len(queue') <= EncodeCapacity
    BY <1>2, Bounds
  <1>4. \A i \in DOMAIN queue' : queue'[i].slot # NoSlot /\ queue'[i].ring = ring
    BY <1>1, <1>2, CopiedIsNew
  <1>5. \A i, j \in DOMAIN queue' : i # j => queue'[i].slot # queue'[j].slot
    BY <1>1, <1>2, CopiedIsNew
  <1>6. QueuedSlots' \subseteq QueuedSlots \cup {capture.slot}
    BY <1>1, <1>2, CopiedIsNew DEF QueuedSlots
  <1> QED BY <1>2, <1>3, <1>4, <1>5, <1>6

(* What a submit's push may do.                                            *)
LEMMA PushOutcomes ==
  ASSUME SlotInv, SubmitPushes
  PROVE  /\ capture.at = "copied" /\ capture' = [at |-> "idle", slot |-> NoSlot]
         /\ UNCHANGED <<venc, ring>>
         /\ \/ /\ queue' \in Seq(Item) /\ Len(queue') <= EncodeCapacity
               /\ \A i \in DOMAIN queue' : queue'[i].slot # NoSlot /\ queue'[i].ring = ring
               /\ \A i, j \in DOMAIN queue' : i # j => queue'[i].slot # queue'[j].slot
               /\ QueuedSlots' \subseteq QueuedSlots \cup {capture.slot}
               /\ free' = free
            \/ queue' = queue /\ free' = free \cup {capture.slot}
  <1>1. /\ capture.at = "copied" /\ capture' = [at |-> "idle", slot |-> NoSlot]
        /\ UNCHANGED <<venc, ring>>
    BY DEF SubmitPushes, vencVars
  <1>2. CASE PushWithRoom
    BY <1>1, <1>2, Pushed DEF PushWithRoom
  <1>3. CASE PushOntoFullQueue
    <2>1. queue # <<>>
      BY <1>3, Bounds DEF PushOntoFullQueue
    <2>2. Len(Tail(queue)) < EncodeCapacity
      BY <1>3, <2>1, Bounds, QueueHead DEF PushOntoFullQueue, SlotInv, Types
    <2> QED BY <1>1, <1>3, <2>1, <2>2, Pushed DEF PushOntoFullQueue
  <1>4. CASE PushOntoClosedQueue
    BY <1>1, <1>4 DEF PushOntoClosedQueue
  <1> QED BY <1>2, <1>3, <1>4 DEF SubmitPushes

LEMMA SubmitEntersSlots ==
  ASSUME SlotInv, SubmitEnters
  PROVE  SlotInv'
  <1>1. CaptureTypeOK'
    BY DEF SlotInv, SubmitEnters, CaptureTypeOK, Types, captureVars, vencVars, muxVars, fates
  <1>2. QueueTypeOK'
    BY DEF SlotInv, SubmitEnters, QueueTypeOK, Types, captureVars, vencVars, muxVars, fates
  <1>3. VencTypeOK'
    BY DEF SlotInv, SubmitEnters, VencTypeOK, Types, captureVars, vencVars, muxVars, fates
  <1>4. MuxTypeOK'
    BY DEF SlotInv, SubmitEnters, MuxTypeOK, Types, captureVars, vencVars, muxVars, fates
  <1>5. FlagsTypeOK'
    BY DEF SlotInv, SubmitEnters, FlagsTypeOK, Types, captureVars, vencVars, muxVars, fates
  <1>6. CountsTypeOK'
    BY DEF SlotInv, SubmitEnters, CountsTypeOK, Types, captureVars, vencVars, muxVars, fates
  <1>7. StopTypeOK'
    BY DEF SlotInv, SubmitEnters, StopTypeOK, Types, captureVars, vencVars, muxVars, fates
  <1>8. Holding'
    BY Bounds DEF SlotInv, SubmitEnters, Holding, CaptureTypeOK, QueueTypeOK, VencTypeOK,
       QueuedSlots, SlotsInUse, Item, NoFrame, Types, captureVars, vencVars, muxVars, fates
  <1>9. SlotsAreExclusive'
    <2>1. UNCHANGED <<free, venc, queue>> /\ capture'.slot = capture.slot
      BY DEF SlotInv, Types, CaptureTypeOK, SubmitEnters, vencVars
    <2> QED BY <2>1 DEF SlotInv, SlotsAreExclusive, SlotsInUse, QueuedSlots
  <1>10. QueueIsOfThisRing'
    BY DEF SlotInv, SubmitEnters, QueueIsOfThisRing, QueuedSlots, SlotsInUse, Types,
       captureVars, vencVars, muxVars, fates
  <1>11. NoSlotOfADeadDevice'
    BY DEF SlotInv, SubmitEnters, NoSlotOfADeadDevice, QueuedSlots, SlotsInUse, Types,
       captureVars, vencVars, muxVars, fates
  <1> QED BY <1>1, <1>2, <1>3, <1>4, <1>5, <1>6, <1>7, <1>8, <1>9, <1>10, <1>11 DEF SlotInv,
      Types

LEMMA SubmitAcquiresSlots ==
  ASSUME SlotInv, SubmitAcquires
  PROVE  SlotInv'
  <1>1. CaptureTypeOK' /\ QueueTypeOK' /\ VencTypeOK' /\ MuxTypeOK' /\ FlagsTypeOK' /\
         CountsTypeOK' /\ StopTypeOK' /\ SlotsAreExclusive' /\ QueueIsOfThisRing' /\
         NoSlotOfADeadDevice'
    BY DEF SlotInv, SubmitAcquires, CaptureTypeOK, Types, captureVars, vencVars, muxVars,
       fates, QueueTypeOK, VencTypeOK, MuxTypeOK, FlagsTypeOK, CountsTypeOK, StopTypeOK,
       SlotsAreExclusive, QueuedSlots, SlotsInUse, QueueIsOfThisRing, NoSlotOfADeadDevice
  <1>2. Holding'
    BY RingAssumption DEF SlotInv, SubmitAcquires, Holding, CaptureTypeOK, QueueTypeOK,
       VencTypeOK, QueuedSlots, SlotsInUse, Item, NoFrame, Types, captureVars, vencVars,
       muxVars, fates
  <1> QED BY <1>1, <1>2 DEF SlotInv, Types

LEMMA SubmitPushesSlots ==
  ASSUME SlotInv, SubmitPushes
  PROVE  SlotInv'
  <1>1. VencTypeOK' /\ MuxTypeOK' /\ FlagsTypeOK' /\ StopTypeOK'
    BY DEF SlotInv, SubmitPushes, PushWithRoom, PushOntoFullQueue, PushOntoClosedQueue,
       VencTypeOK, Types, captureVars, vencVars, muxVars, fates, MuxTypeOK, FlagsTypeOK,
       StopTypeOK
  <1>2. CaptureTypeOK'
    BY PushOutcomes, CopiedIsNew DEF SlotInv, Types, CaptureTypeOK
  <1>3. QueueTypeOK'
    BY PushOutcomes DEF SlotInv, Types, QueueTypeOK
  <1>4. CountsTypeOK'
    <2>1. UNCHANGED <<submitted, audioMade, rolls, faults, awaiting, discarded>>
      BY DEF SubmitPushes, muxVars
    <2>2. dropped' \subseteq Nat
      <3>1. CASE PushOntoFullQueue
        <4>1. queue # <<>>
          BY <3>1, Bounds DEF PushOntoFullQueue
        <4>2. Head(queue).n \in Nat
          BY <4>1, QueueHead DEF SlotInv, Types, Item
        <4> QED BY <3>1, <4>2 DEF SlotInv, Types, CountsTypeOK, PushOntoFullQueue
      <3>2. CASE PushWithRoom \/ PushOntoClosedQueue
        BY <3>2 DEF SlotInv, Types, CountsTypeOK, PushWithRoom, PushOntoClosedQueue
      <3> QED BY <3>1, <3>2 DEF SubmitPushes
    <2>3. lost' \subseteq Nat
      BY DEF SlotInv, Types, CountsTypeOK, SubmitPushes, PushOntoFullQueue, PushWithRoom, PushOntoClosedQueue
    <2> QED BY <2>1, <2>2, <2>3 DEF SlotInv, Types, CountsTypeOK
  <1>5. Holding'
    BY PushOutcomes DEF SlotInv, Holding
  <1>6. SlotsAreExclusive'
    <2>1. capture.at = "copied" /\ capture'.slot = NoSlot /\ venc' = venc
      BY PushOutcomes
    <2>2. CASE queue' = queue /\ free' = free \cup {capture.slot}
      <3>1. QueuedSlots' = QueuedSlots
        BY <2>2 DEF QueuedSlots
      <3> QED BY <2>1, <2>2, <3>1, CopiedIsNew DEF SlotInv, SlotsAreExclusive, SlotsInUse
    <2>3. CASE /\ \A i, j \in DOMAIN queue' : i # j => queue'[i].slot # queue'[j].slot
               /\ QueuedSlots' \subseteq QueuedSlots \cup {capture.slot}
               /\ free' = free
      BY <2>1, <2>3, CopiedIsNew DEF SlotInv, SlotsAreExclusive, SlotsInUse
    <2> QED BY <2>2, <2>3, PushOutcomes
  <1>7. QueueIsOfThisRing'
    BY PushOutcomes, CopiedIsNew DEF QueueIsOfThisRing
  <1>8. NoSlotOfADeadDevice'
    BY PushOutcomes DEF SlotInv, NoSlotOfADeadDevice
  <1> QED BY <1>1, <1>2, <1>3, <1>4, <1>5, <1>6, <1>7, <1>8 DEF SlotInv, Types

LEMMA AudioCompletesEpochSlots ==
  ASSUME SlotInv, AudioCompletesEpoch
  PROVE  SlotInv'
  <1>1. CaptureTypeOK' /\ QueueTypeOK' /\ VencTypeOK' /\ MuxTypeOK' /\ FlagsTypeOK' /\
         CountsTypeOK' /\ StopTypeOK' /\ Holding' /\ SlotsAreExclusive' /\ QueueIsOfThisRing' /\
         NoSlotOfADeadDevice'
    BY DEF SlotInv, AudioCompletesEpoch, CaptureTypeOK, Types, captureVars, vencVars, muxVars,
       fates, QueueTypeOK, VencTypeOK, MuxTypeOK, FlagsTypeOK, CountsTypeOK, StopTypeOK,
       Holding, QueuedSlots, SlotsInUse, SlotsAreExclusive, QueueIsOfThisRing,
       NoSlotOfADeadDevice
  <1> QED BY <1>1 DEF SlotInv, Types

LEMMA VencPopsSlots ==
  ASSUME SlotInv, VencPops
  PROVE  SlotInv'
  <1>1. CaptureTypeOK' /\ MuxTypeOK' /\ FlagsTypeOK' /\ CountsTypeOK' /\ StopTypeOK'
    BY DEF SlotInv, VencPops, NextFrame, VencMayEnd, CaptureTypeOK, Types, captureVars,
       vencVars, muxVars, fates, MuxTypeOK, FlagsTypeOK, CountsTypeOK, StopTypeOK
  <1>2. QueueTypeOK'
    <2>1. CASE queue # <<>> /\ queue' = Tail(queue)
      BY <2>1, QueueHead, Bounds DEF SlotInv, Types, QueueTypeOK
    <2>2. CASE queue' = queue
      BY <2>2 DEF SlotInv, Types, QueueTypeOK
    <2> QED BY <2>1, <2>2 DEF VencPops
  <1>3. VencTypeOK'
    BY QueueHead, PacketsAndFrames DEF SlotInv, Types, VencTypeOK, QueueTypeOK, VencPops, NextFrame
  <1>4. Holding'
    <2>1. CASE queue # <<>> /\ venc' = [at |-> "convert", frame |-> Head(queue)] /\ queue' = Tail(queue)
      <3>1. Head(queue).slot # NoSlot /\ venc'.frame = Head(queue) /\ venc'.at = "convert"
        BY <2>1, QueueHead DEF SlotInv, Types, Holding
      <3>2. \A i \in DOMAIN queue' : queue'[i].slot # NoSlot
        BY <2>1, QueueHead DEF SlotInv, Types, Holding
      <3> QED BY <3>1, <3>2 DEF SlotInv, Holding, VencPops, captureVars
    <2>2. CASE venc' = [at |-> "ended", frame |-> NoFrame] /\ queue' = queue
      BY <2>2 DEF SlotInv, Holding, VencPops, captureVars, NoFrame
    <2> QED BY <2>1, <2>2 DEF VencPops, NextFrame
  <1>5. SlotsAreExclusive'
    <2>1. CASE queue # <<>> /\ venc' = [at |-> "convert", frame |-> Head(queue)] /\ queue' = Tail(queue)
      <3>1. QueuedSlots = QueuedSlots' \cup {venc'.frame.slot} /\ venc'.frame = queue[1]
        <4> QED BY <2>1, QueueHead DEF SlotInv, Types, QueuedSlots
      <3>2. venc'.frame.slot \notin QueuedSlots'
        BY <2>1, <3>1, QueueHead DEF SlotInv, Types, SlotsAreExclusive, QueuedSlots
      <3>3. \A i, j \in DOMAIN queue' : i # j => queue'[i].slot # queue'[j].slot
        <4> TAKE i, j \in DOMAIN queue'
        <4>1. i \in Nat /\ j \in Nat /\ i + 1 \in DOMAIN queue /\ j + 1 \in DOMAIN queue
              /\ queue'[i] = queue[i + 1] /\ queue'[j] = queue[j + 1]
          BY <2>1, QueueHead DEF SlotInv, Types
        <4> QED BY <4>1 DEF SlotInv, SlotsAreExclusive
      <3>4. SlotsInUse' \subseteq SlotsInUse /\ capture' = capture /\ free' = free
        BY <3>1 DEF SlotsInUse, VencPops, captureVars
      <3> QED BY <3>1, <3>2, <3>3, <3>4 DEF SlotInv, SlotsAreExclusive
    <2>2. CASE venc' = [at |-> "ended", frame |-> NoFrame] /\ queue' = queue
      BY <2>2 DEF SlotInv, SlotsAreExclusive, SlotsInUse, QueuedSlots, VencPops, captureVars, NoFrame
    <2> QED BY <2>1, <2>2 DEF VencPops, NextFrame
  <1>6. QueueIsOfThisRing'
    <2>1. CASE queue # <<>> /\ venc' = [at |-> "convert", frame |-> Head(queue)] /\ queue' = Tail(queue)
      BY <2>1, QueueHead DEF SlotInv, Types, QueueIsOfThisRing, VencPops, captureVars
    <2>2. CASE venc' = [at |-> "ended", frame |-> NoFrame] /\ queue' = queue
      BY <2>2 DEF SlotInv, QueueIsOfThisRing, VencPops, captureVars
    <2> QED BY <2>1, <2>2 DEF VencPops, NextFrame
  <1>7. NoSlotOfADeadDevice'
    <2>1. venc'.at = "convert" => venc'.frame = queue[1] /\ 1 \in DOMAIN queue
      BY QueueHead DEF SlotInv, Types, VencPops, NextFrame
    <2> QED BY <2>1 DEF SlotInv, QueueIsOfThisRing, NoSlotOfADeadDevice, VencPops, captureVars
  <1> QED BY <1>1, <1>2, <1>3, <1>4, <1>5, <1>6, <1>7 DEF SlotInv, Types

LEMMA VencConvertsSlots ==
  ASSUME SlotInv, VencConverts
  PROVE  SlotInv'
  <1>1. QueueTypeOK' /\ MuxTypeOK' /\ FlagsTypeOK' /\ StopTypeOK' /\ QueueIsOfThisRing'
    BY DEF SlotInv, VencConverts, VencReturnsSlot, QueueTypeOK, Types, captureVars, vencVars,
       muxVars, fates, MuxTypeOK, FlagsTypeOK, StopTypeOK, QueueIsOfThisRing, QueuedSlots,
       SlotsInUse
  <1>2. CaptureTypeOK'
    BY AfterTheConversion DEF SlotInv, Types, CaptureTypeOK, VencConverts, VencReturnsSlot
  <1>3. VencTypeOK'
    BY AfterTheConversion DEF SlotInv, Types, VencTypeOK, VencConverts
  <1>4. CountsTypeOK'
    BY AfterTheConversion DEF SlotInv, Types, CountsTypeOK, VencConverts, muxVars
  <1>5. Holding'
    <2>1. venc'.frame.slot = NoSlot /\ venc'.at \in {"encode", "pop"} /\ venc.at = "convert"
          /\ (venc'.at = "pop" => venc'.frame = NoFrame)
      BY AfterTheConversion DEF SlotInv, Types
    <2>2. UNCHANGED <<capture, queue>>
      BY DEF VencConverts
    <2> QED BY <2>1, <2>2 DEF SlotInv, Holding
  <1>6. SlotsAreExclusive'
    <2>1. venc'.frame.slot = NoSlot /\ venc.frame.slot \in Slots /\ free' = free \cup {venc.frame.slot}
      BY AfterTheConversion DEF SlotInv, Types, VencConverts, VencReturnsSlot
    <2>2. UNCHANGED <<capture, queue, QueuedSlots>>
      BY DEF VencConverts, QueuedSlots
    <2>3. venc.frame.slot \notin QueuedSlots /\ venc.frame.slot # capture.slot
      BY <2>1, RingAssumption DEF SlotInv, SlotsAreExclusive
    <2> QED BY <2>1, <2>2, <2>3 DEF SlotInv, SlotsAreExclusive, SlotsInUse
  <1>7. NoSlotOfADeadDevice'
    BY AfterTheConversion DEF SlotInv, Types, NoSlotOfADeadDevice
  <1> QED BY <1>1, <1>2, <1>3, <1>4, <1>5, <1>6, <1>7 DEF SlotInv, Types

LEMMA VencEncodesSlots ==
  ASSUME SlotInv, VencEncodes
  PROVE  SlotInv'
  <1>1. CaptureTypeOK' /\ QueueTypeOK' /\ MuxTypeOK' /\ FlagsTypeOK' /\ StopTypeOK' /\
         QueueIsOfThisRing' /\ NoSlotOfADeadDevice'
    BY DEF SlotInv, VencEncodes, CaptureTypeOK, Types, captureVars, vencVars, muxVars, fates,
       QueueTypeOK, MuxTypeOK, FlagsTypeOK, StopTypeOK, QueueIsOfThisRing, QueuedSlots,
       SlotsInUse, NoSlotOfADeadDevice
  <1>2. VencTypeOK'
    <2>1. venc.frame.n \in Nat
      BY DEF SlotInv, Types, VencTypeOK, Item
    <2>2. Append(encoder, venc.frame.n) \in Seq(Nat)
      BY <2>1 DEF SlotInv, Types, VencTypeOK
    <2>3. CASE encoder' = Append(encoder, venc.frame.n) /\ venc' = [at |-> "drain", frame |-> NoFrame]
      BY <2>2, <2>3, NoFrameIsAFrame DEF VencTypeOK
    <2>4. CASE encoder' = encoder /\ venc' = [at |-> "pop", frame |-> NoFrame]
      BY <2>4, NoFrameIsAFrame DEF SlotInv, Types, VencTypeOK
    <2> QED BY <2>3, <2>4 DEF VencEncodes
  <1>3. CountsTypeOK'
    <2>1. venc.frame.n \in Nat
      BY DEF SlotInv, Types, VencTypeOK, Item
    <2> QED BY <2>1 DEF SlotInv, Types, CountsTypeOK, VencEncodes, muxVars
  <1>4. Holding'
    BY AppendAt, PacketsAndFrames DEF SlotInv, VencEncodes, Holding, CaptureTypeOK,
       QueueTypeOK, VencTypeOK, QueuedSlots, SlotsInUse, Item, NoFrame, Types, captureVars,
       vencVars, muxVars, fates
  <1>5. SlotsAreExclusive'
    BY AppendAt, PacketsAndFrames DEF SlotInv, VencEncodes, SlotsAreExclusive, Holding,
       CaptureTypeOK, QueueTypeOK, VencTypeOK, QueuedSlots, SlotsInUse, Item, NoFrame, Types,
       captureVars, vencVars, muxVars, fates
  <1> QED BY <1>1, <1>2, <1>3, <1>4, <1>5 DEF SlotInv, Types

LEMMA VencDrainsSlots ==
  ASSUME SlotInv, VencDrains
  PROVE  SlotInv'
  <1>1. CaptureTypeOK' /\ QueueTypeOK' /\ FlagsTypeOK' /\ CountsTypeOK' /\ StopTypeOK' /\
         QueueIsOfThisRing'
    BY DEF SlotInv, VencDrains, Fails, DrainOne, PushPacket, Drained, CaptureTypeOK, Types,
       captureVars, vencVars, muxVars, fates, QueueTypeOK, FlagsTypeOK, CountsTypeOK,
       StopTypeOK, QueueIsOfThisRing, QueuedSlots, SlotsInUse
  <1>2. VencTypeOK'
    <2>1. CASE DrainOne(Delay)
      BY <2>1, DrainKeepsTypes, Bounds DEF SlotInv, Types, VencDrains, MuxTypeOK, VencTypeOK, muxVars
    <2>2. CASE ~DrainOne(Delay)
      BY <2>2 DEF SlotInv, Types, VencDrains, MuxTypeOK, VencTypeOK, muxVars
    <2> QED BY <2>1, <2>2
  <1>3. MuxTypeOK'
    <2>1. CASE DrainOne(Delay)
      BY <2>1, DrainKeepsTypes, Bounds DEF SlotInv, Types, VencDrains, MuxTypeOK, VencTypeOK, muxVars
    <2>2. CASE ~DrainOne(Delay)
      BY <2>2 DEF SlotInv, Types, VencDrains, MuxTypeOK, VencTypeOK, muxVars
    <2> QED BY <2>1, <2>2
  <1>4. Holding'
    BY TailAt, AppendAt, PacketsAndFrames DEF SlotInv, VencDrains, DrainOne, PushPacket,
       Drained, Holding, CaptureTypeOK, QueueTypeOK, VencTypeOK, QueuedSlots, SlotsInUse, Item,
       NoFrame, Types, captureVars, vencVars, muxVars, fates
  <1>5. SlotsAreExclusive'
    <2>1. UNCHANGED <<free, capture, queue>> /\ venc'.frame = venc.frame
      BY DEF SlotInv, Types, VencTypeOK, VencDrains, captureVars
    <2> QED BY <2>1 DEF SlotInv, SlotsAreExclusive, SlotsInUse, QueuedSlots
  <1>6. NoSlotOfADeadDevice'
    BY TailAt, AppendAt, PacketsAndFrames DEF SlotInv, VencDrains, DrainOne, PushPacket,
       Drained, NoSlotOfADeadDevice, Holding, CaptureTypeOK, QueueTypeOK, VencTypeOK,
       QueuedSlots, SlotsInUse, Item, NoFrame, Types, captureVars, vencVars, muxVars, fates
  <1> QED BY <1>1, <1>2, <1>3, <1>4, <1>5, <1>6 DEF SlotInv, Types

LEMMA VencThrowsSlots ==
  ASSUME SlotInv, VencThrows
  PROVE  SlotInv'
  <1>1. CaptureTypeOK' /\ QueueTypeOK' /\ MuxTypeOK' /\ FlagsTypeOK' /\ StopTypeOK' /\
         QueueIsOfThisRing' /\ NoSlotOfADeadDevice'
    BY DEF SlotInv, VencThrows, CaptureTypeOK, Types, captureVars, vencVars, muxVars, fates,
       QueueTypeOK, MuxTypeOK, FlagsTypeOK, StopTypeOK, QueueIsOfThisRing, QueuedSlots,
       SlotsInUse, NoSlotOfADeadDevice
  <1>2. VencTypeOK'
    BY Bounds, PacketsAndFrames DEF SlotInv, VencThrows, VencTypeOK, CaptureTypeOK,
       QueueTypeOK, MuxTypeOK, FlagsTypeOK, CountsTypeOK, StopTypeOK, Holding, Types,
       captureVars, vencVars, muxVars, fates
  <1>3. CountsTypeOK'
    <2>1. venc.frame.n \in Nat
      BY DEF SlotInv, Types, VencTypeOK, Item
    <2> QED BY <2>1 DEF SlotInv, Types, CountsTypeOK, VencThrows, Fails, muxVars
  <1>4. Holding'
    BY Bounds, PacketsAndFrames DEF SlotInv, VencThrows, Holding, CaptureTypeOK, QueueTypeOK,
       VencTypeOK, QueuedSlots, SlotsInUse, Item, NoFrame, Types, captureVars, vencVars,
       muxVars, fates
  <1>5. SlotsAreExclusive'
    BY Bounds, PacketsAndFrames DEF SlotInv, VencThrows, SlotsAreExclusive, Holding,
       CaptureTypeOK, QueueTypeOK, VencTypeOK, QueuedSlots, SlotsInUse, Item, NoFrame, Types,
       captureVars, vencVars, muxVars, fates
  <1> QED BY <1>1, <1>2, <1>3, <1>4, <1>5 DEF SlotInv, Types

LEMMA MuxPopsSlots ==
  ASSUME SlotInv, MuxPops
  PROVE  SlotInv'
  <1>1. CaptureTypeOK' /\ QueueTypeOK' /\ VencTypeOK' /\ FlagsTypeOK' /\ CountsTypeOK' /\
         StopTypeOK' /\ Holding' /\ SlotsAreExclusive' /\ QueueIsOfThisRing' /\
         NoSlotOfADeadDevice'
    BY DEF SlotInv, MuxPops, CaptureTypeOK, Types, captureVars, vencVars, muxVars, fates,
       QueueTypeOK, VencTypeOK, FlagsTypeOK, CountsTypeOK, StopTypeOK, Holding, QueuedSlots,
       SlotsInUse, SlotsAreExclusive, QueueIsOfThisRing, NoSlotOfADeadDevice
  <1>2. MuxTypeOK'
    <2>1. CASE muxQueue # <<>>
      <3>1. Head(muxQueue) \in Packet /\ Tail(muxQueue) \in Seq(Packet)
            /\ Len(Tail(muxQueue)) = Len(muxQueue) - 1 /\ Len(muxQueue) \in Nat
        BY <2>1, TailAt DEF SlotInv, Types, MuxTypeOK
      <3>2. mux' = [at |-> "write", packet |-> Head(muxQueue)] \/ mux' = [at |-> "rolling", packet |-> Head(muxQueue)]
        BY <2>1 DEF MuxPops
      <3>3. muxQueue' = Tail(muxQueue) /\ file' = file /\ refused' = refused
        BY <2>1 DEF MuxPops, fates
      <3> QED BY <3>1, <3>2, <3>3, Bounds DEF SlotInv, Types, MuxTypeOK
    <2>2. CASE muxQueue = <<>>
      BY <2>2 DEF SlotInv, Types, MuxTypeOK, MuxPops, fates
    <2> QED BY <2>1, <2>2
  <1> QED BY <1>1, <1>2 DEF SlotInv, Types

LEMMA MuxRolledSlots ==
  ASSUME SlotInv, MuxRolled
  PROVE  SlotInv'
  <1>1. CaptureTypeOK'
    BY DEF SlotInv, MuxRolled, CaptureTypeOK, Types, captureVars, vencVars, muxVars, fates
  <1>2. QueueTypeOK'
    BY DEF SlotInv, MuxRolled, QueueTypeOK, Types, captureVars, vencVars, muxVars, fates
  <1>3. VencTypeOK'
    BY DEF SlotInv, MuxRolled, VencTypeOK, Types, captureVars, vencVars, muxVars, fates
  <1>4. MuxTypeOK'
    BY DEF SlotInv, MuxRolled, MuxTypeOK, Types, captureVars, vencVars, muxVars, fates
  <1>5. FlagsTypeOK'
    BY DEF SlotInv, MuxRolled, FlagsTypeOK, Types, captureVars, vencVars, muxVars, fates
  <1>6. CountsTypeOK'
    BY DEF SlotInv, MuxRolled, CountsTypeOK, Types, captureVars, vencVars, muxVars, fates
  <1>7. StopTypeOK'
    BY DEF SlotInv, MuxRolled, StopTypeOK, Types, captureVars, vencVars, muxVars, fates
  <1>8. Holding'
    BY DEF SlotInv, MuxRolled, Holding, QueuedSlots, SlotsInUse, Types, captureVars, vencVars,
       muxVars, fates
  <1>9. SlotsAreExclusive'
    BY DEF SlotInv, MuxRolled, SlotsAreExclusive, QueuedSlots, SlotsInUse, Types, captureVars,
       vencVars, muxVars, fates
  <1>10. QueueIsOfThisRing'
    BY DEF SlotInv, MuxRolled, QueueIsOfThisRing, QueuedSlots, SlotsInUse, Types, captureVars,
       vencVars, muxVars, fates
  <1>11. NoSlotOfADeadDevice'
    BY DEF SlotInv, MuxRolled, NoSlotOfADeadDevice, QueuedSlots, SlotsInUse, Types,
       captureVars, vencVars, muxVars, fates
  <1> QED BY <1>1, <1>2, <1>3, <1>4, <1>5, <1>6, <1>7, <1>8, <1>9, <1>10, <1>11 DEF SlotInv,
      Types

LEMMA MuxWritesSlots ==
  ASSUME SlotInv, MuxWrites
  PROVE  SlotInv'
  <1>1. CaptureTypeOK' /\ QueueTypeOK' /\ VencTypeOK' /\ FlagsTypeOK' /\
         StopTypeOK' /\ Holding' /\ SlotsAreExclusive' /\ QueueIsOfThisRing' /\
         NoSlotOfADeadDevice'
    BY DEF SlotInv, MuxWrites, CaptureTypeOK, Types, captureVars, vencVars, muxVars, fates,
       QueueTypeOK, VencTypeOK, FlagsTypeOK, StopTypeOK, Holding, QueuedSlots,
       SlotsInUse, SlotsAreExclusive, QueueIsOfThisRing, NoSlotOfADeadDevice
  <1>2. MuxTypeOK'
    <2>1. mux.packet \in Packet /\ file \in Seq(Packet) /\ Nothing \in Packet
      BY PacketsAndFrames DEF SlotInv, Types, MuxTypeOK
    <2>2. file' \in Seq(Packet)
      BY <2>1 DEF MuxWrites
    <2> QED BY <2>1, <2>2 DEF SlotInv, Types, MuxTypeOK, MuxWrites
  <1>3. CountsTypeOK'
    <2>1. FramesIn({mux.packet}) \subseteq Nat
      BY DEF SlotInv, Types, MuxTypeOK, FramesIn, Packet
    <2> QED BY <2>1 DEF SlotInv, Types, CountsTypeOK, MuxWrites, Fails
  <1> QED BY <1>1, <1>2, <1>3 DEF SlotInv, Types

LEMMA MuxThrowsSlots ==
  ASSUME SlotInv, MuxThrows
  PROVE  SlotInv'
  <1>1. CaptureTypeOK' /\ QueueTypeOK' /\ VencTypeOK' /\ FlagsTypeOK' /\
         StopTypeOK' /\ Holding' /\ SlotsAreExclusive' /\ QueueIsOfThisRing' /\
         NoSlotOfADeadDevice'
    BY DEF SlotInv, MuxThrows, CaptureTypeOK, Types, captureVars, vencVars,
       QueueTypeOK, VencTypeOK, FlagsTypeOK, StopTypeOK, Holding, QueuedSlots,
       SlotsInUse, SlotsAreExclusive, QueueIsOfThisRing, NoSlotOfADeadDevice
  <1>2. MuxTypeOK'
    BY PacketsAndFrames DEF SlotInv, MuxThrows, MuxTypeOK, Types
  <1>3. CountsTypeOK'
    <2>1. FramesIn({mux.packet}) \subseteq Nat
      BY DEF SlotInv, Types, MuxTypeOK, FramesIn, Packet
    <2> QED BY <2>1 DEF SlotInv, Types, CountsTypeOK, MuxThrows, Fails
  <1> QED BY <1>1, <1>2, <1>3 DEF SlotInv, Types

LEMMA AencPushesSlots ==
  ASSUME SlotInv, AencPushes
  PROVE  SlotInv'
  <1>1. CaptureTypeOK' /\ QueueTypeOK' /\ VencTypeOK' /\ FlagsTypeOK' /\ CountsTypeOK' /\
         StopTypeOK' /\ Holding' /\ SlotsAreExclusive' /\ QueueIsOfThisRing' /\
         NoSlotOfADeadDevice'
    BY DEF SlotInv, AencPushes, PushPacket, CaptureTypeOK, Types, captureVars, vencVars,
       muxVars, fates, QueueTypeOK, VencTypeOK, FlagsTypeOK, CountsTypeOK, StopTypeOK, Holding,
       QueuedSlots, SlotsInUse, SlotsAreExclusive, QueueIsOfThisRing, NoSlotOfADeadDevice
  <1>2. MuxTypeOK'
    <2>1. Audio(audioMade + 1) \in Packet
      BY PacketsAndFrames DEF SlotInv, Types, CountsTypeOK
    <2> QED BY <2>1, PushKeepsTypes DEF SlotInv, Types, MuxTypeOK, AencPushes
  <1> QED BY <1>1, <1>2 DEF SlotInv, Types

LEMMA AencEndsSlots ==
  ASSUME SlotInv, AencEnds
  PROVE  SlotInv'
  <1>1. CaptureTypeOK' /\ QueueTypeOK' /\ VencTypeOK' /\ MuxTypeOK' /\ FlagsTypeOK' /\
         CountsTypeOK' /\ StopTypeOK' /\ Holding' /\ SlotsAreExclusive' /\ QueueIsOfThisRing' /\
         NoSlotOfADeadDevice'
    BY DEF SlotInv, AencEnds, CaptureTypeOK, Types, captureVars, vencVars, muxVars, fates,
       QueueTypeOK, VencTypeOK, MuxTypeOK, FlagsTypeOK, CountsTypeOK, StopTypeOK, Holding,
       QueuedSlots, SlotsInUse, SlotsAreExclusive, QueueIsOfThisRing, NoSlotOfADeadDevice
  <1> QED BY <1>1 DEF SlotInv, Types

LEMMA WatchdogEndsSlots ==
  ASSUME SlotInv, WatchdogEnds
  PROVE  SlotInv'
  <1>1. CaptureTypeOK' /\ QueueTypeOK' /\ VencTypeOK' /\ MuxTypeOK' /\ FlagsTypeOK' /\
         CountsTypeOK' /\ StopTypeOK' /\ Holding' /\ SlotsAreExclusive' /\ QueueIsOfThisRing' /\
         NoSlotOfADeadDevice'
    BY DEF SlotInv, WatchdogEnds, CaptureTypeOK, Types, captureVars, vencVars, muxVars,
       fates, QueueTypeOK, VencTypeOK, MuxTypeOK, FlagsTypeOK, CountsTypeOK, StopTypeOK,
       Holding, QueuedSlots, SlotsInUse, SlotsAreExclusive, QueueIsOfThisRing,
       NoSlotOfADeadDevice
  <1> QED BY <1>1 DEF SlotInv, Types

LEMMA RebuildClosesSlots ==
  ASSUME SlotInv, RebuildCloses
  PROVE  SlotInv'
  <1>1. CaptureTypeOK'
    BY DEF SlotInv, RebuildCloses, CaptureTypeOK, Types, captureVars, vencVars, muxVars, fates
  <1>2. QueueTypeOK'
    BY DEF SlotInv, RebuildCloses, QueueTypeOK, Types, captureVars, vencVars, muxVars, fates
  <1>3. VencTypeOK'
    BY DEF SlotInv, RebuildCloses, VencTypeOK, Types, captureVars, vencVars, muxVars, fates
  <1>4. MuxTypeOK'
    BY DEF SlotInv, RebuildCloses, MuxTypeOK, Types, captureVars, vencVars, muxVars, fates
  <1>5. FlagsTypeOK'
    BY DEF SlotInv, RebuildCloses, FlagsTypeOK, Types, captureVars, vencVars, muxVars, fates
  <1>6. CountsTypeOK'
    BY DEF SlotInv, RebuildCloses, CountsTypeOK, Types, captureVars, vencVars, muxVars, fates
  <1>7. StopTypeOK'
    BY DEF SlotInv, RebuildCloses, StopTypeOK, Types, captureVars, vencVars, muxVars, fates
  <1>8. Holding'
    BY DEF SlotInv, RebuildCloses, Holding, QueuedSlots, SlotsInUse, Types, captureVars,
       vencVars, muxVars, fates
  <1>9. SlotsAreExclusive'
    BY DEF SlotInv, RebuildCloses, SlotsAreExclusive, QueuedSlots, SlotsInUse, Types,
       captureVars, vencVars, muxVars, fates
  <1>10. QueueIsOfThisRing'
    BY DEF SlotInv, RebuildCloses, QueueIsOfThisRing, QueuedSlots, SlotsInUse, Types,
       captureVars, vencVars, muxVars, fates
  <1>11. NoSlotOfADeadDevice'
    BY DEF SlotInv, RebuildCloses, NoSlotOfADeadDevice, QueuedSlots, SlotsInUse, Types,
       captureVars, vencVars, muxVars, fates
  <1> QED BY <1>1, <1>2, <1>3, <1>4, <1>5, <1>6, <1>7, <1>8, <1>9, <1>10, <1>11 DEF SlotInv,
      Types

LEMMA RebuildJoinsSlots ==
  ASSUME SlotInv, RebuildJoins
  PROVE  SlotInv'
  <1>1. CaptureTypeOK'
    BY DEF SlotInv, RebuildJoins, CaptureTypeOK, Types, captureVars, vencVars, muxVars, fates
  <1>2. QueueTypeOK'
    BY DEF SlotInv, RebuildJoins, QueueTypeOK, Types, captureVars, vencVars, muxVars, fates
  <1>3. VencTypeOK'
    BY DEF SlotInv, RebuildJoins, VencTypeOK, Types, captureVars, vencVars, muxVars, fates
  <1>4. MuxTypeOK'
    BY DEF SlotInv, RebuildJoins, MuxTypeOK, Types, captureVars, vencVars, muxVars, fates
  <1>5. FlagsTypeOK'
    BY DEF SlotInv, RebuildJoins, FlagsTypeOK, Types, captureVars, vencVars, muxVars, fates
  <1>6. CountsTypeOK'
    BY DEF SlotInv, RebuildJoins, CountsTypeOK, Types, captureVars, vencVars, muxVars, fates
  <1>7. StopTypeOK'
    BY DEF SlotInv, RebuildJoins, StopTypeOK, Types, captureVars, vencVars, muxVars, fates
  <1>8. Holding'
    BY DEF SlotInv, RebuildJoins, Holding, CaptureTypeOK, QueueTypeOK, VencTypeOK, QueuedSlots,
       SlotsInUse, Item, NoFrame, Types, captureVars, vencVars, muxVars, fates
  <1>9. SlotsAreExclusive'
    BY DEF SlotInv, RebuildJoins, SlotsAreExclusive, Holding, CaptureTypeOK, QueueTypeOK,
       VencTypeOK, QueuedSlots, SlotsInUse, Item, NoFrame, Types, captureVars, vencVars,
       muxVars, fates
  <1>10. QueueIsOfThisRing'
    BY DEF SlotInv, RebuildJoins, QueueIsOfThisRing, QueuedSlots, SlotsInUse, Types,
       captureVars, vencVars, muxVars, fates
  <1>11. NoSlotOfADeadDevice'
    BY DEF SlotInv, RebuildJoins, NoSlotOfADeadDevice, QueuedSlots, SlotsInUse, Types,
       captureVars, vencVars, muxVars, fates
  <1> QED BY <1>1, <1>2, <1>3, <1>4, <1>5, <1>6, <1>7, <1>8, <1>9, <1>10, <1>11 DEF SlotInv,
      Types

LEMMA FramesAreNumbers ==
  ASSUME SlotInv
  PROVE  InEncoder \subseteq Nat
  BY DEF SlotInv, Types, VencTypeOK, InEncoder, Elements

LEMMA RebuildFlushesSlots ==
  ASSUME SlotInv, RebuildFlushes
  PROVE  SlotInv'
  <1>1. CaptureTypeOK' /\ QueueTypeOK' /\ FlagsTypeOK' /\ StopTypeOK'
    BY DEF SlotInv, RebuildFlushes, CaptureTypeOK, Types, QueueTypeOK, FlagsTypeOK, StopTypeOK
  <1>2. VencTypeOK'
    <2>1. CASE DrainOne(0)
      BY <2>1, DrainKeepsTypes, Bounds DEF SlotInv, Types, RebuildFlushes, MuxTypeOK, VencTypeOK, muxVars
    <2>2. CASE ~DrainOne(0) /\ ~FlushFails
      BY <2>2, PacketsAndFrames DEF SlotInv, Types, RebuildFlushes, MuxTypeOK, VencTypeOK, muxVars
    <2>3. CASE FlushFails
      BY <2>3, PacketsAndFrames DEF SlotInv, Types, RebuildFlushes, FlushFails, MuxTypeOK, VencTypeOK, muxVars
    <2> QED BY <2>1, <2>2, <2>3
  <1>3. MuxTypeOK'
    <2>1. CASE DrainOne(0)
      BY <2>1, DrainKeepsTypes, Bounds DEF SlotInv, Types, RebuildFlushes, MuxTypeOK, VencTypeOK, muxVars
    <2>2. CASE ~DrainOne(0) /\ ~FlushFails
      BY <2>2, PacketsAndFrames DEF SlotInv, Types, RebuildFlushes, MuxTypeOK, VencTypeOK, muxVars
    <2>3. CASE FlushFails
      BY <2>3, PacketsAndFrames DEF SlotInv, Types, RebuildFlushes, FlushFails, MuxTypeOK, VencTypeOK, muxVars
    <2> QED BY <2>1, <2>2, <2>3
  <1>4. /\ UNCHANGED <<queue, venc>>
        /\ \/ UNCHANGED <<capture, ring, free>>
           \/ /\ capture.at = "flush" /\ capture' = [capture EXCEPT !.at = "open"]
              /\ ring' = ring + 1 /\ free' = {}
    BY DEF RebuildFlushes
  <1>5. Holding'
    BY <1>4 DEF SlotInv, Types, Holding, CaptureTypeOK, QueueTypeOK, VencTypeOK
  <1>6. SlotsAreExclusive'
    BY <1>4 DEF SlotInv, Types, SlotsAreExclusive, Holding, QueuedSlots, SlotsInUse, CaptureTypeOK
  <1>7. QueueIsOfThisRing' /\ NoSlotOfADeadDevice'
    BY <1>4 DEF SlotInv, Types, QueueIsOfThisRing, NoSlotOfADeadDevice, Holding, QueuedSlots, SlotsInUse,
       CaptureTypeOK, VencTypeOK, QueueTypeOK
  <1>8. CountsTypeOK'
    BY FramesAreNumbers DEF SlotInv, Types, RebuildFlushes, FlushFails, Fails, CountsTypeOK
  <1> QED BY <1>8, <1>1, <1>2, <1>3, <1>4, <1>5, <1>6, <1>7 DEF SlotInv, Types

LEMMA RebuildReopensSlots ==
  ASSUME SlotInv, RebuildReopens
  PROVE  SlotInv'
  <1>1. CaptureTypeOK'
    BY DEF SlotInv, RebuildReopens, QueueDrained, CaptureTypeOK, Types, captureVars, vencVars,
       muxVars, fates
  <1>2. QueueTypeOK'
    BY DEF SlotInv, RebuildReopens, QueueDrained, QueueTypeOK, Types, captureVars, vencVars,
       muxVars, fates
  <1>3. VencTypeOK'
    <2>1. encoder' \in {NoEncoder, <<>>} /\ (venc' = venc \/ venc' = [at |-> "pop", frame |-> NoFrame])
      BY DEF RebuildReopens
    <2>2. encoder' \in Seq(Nat)
      BY <2>1, PacketsAndFrames
    <2> QED BY <2>1, <2>2, NoFrameIsAFrame DEF SlotInv, Types, VencTypeOK
  <1>4. MuxTypeOK'
    BY DEF SlotInv, RebuildReopens, QueueDrained, MuxTypeOK, Types, captureVars, vencVars,
       muxVars, fates
  <1>5. FlagsTypeOK'
    BY DEF SlotInv, RebuildReopens, QueueDrained, FlagsTypeOK, Types, captureVars, vencVars,
       muxVars, fates
  <1>6. CountsTypeOK'
    BY DEF SlotInv, RebuildReopens, QueueDrained, CountsTypeOK, Types, captureVars, vencVars,
       muxVars, fates
  <1>7. StopTypeOK'
    BY DEF SlotInv, RebuildReopens, QueueDrained, StopTypeOK, Types, captureVars, vencVars,
       muxVars, fates
  <1>8. Holding'
    BY PacketsAndFrames DEF SlotInv, RebuildReopens, QueueDrained, Holding, CaptureTypeOK,
       QueueTypeOK, VencTypeOK, QueuedSlots, SlotsInUse, Item, NoFrame, Types, captureVars,
       vencVars, muxVars, fates
  <1>9. SlotsAreExclusive'
    BY PacketsAndFrames DEF SlotInv, RebuildReopens, QueueDrained, SlotsAreExclusive, Holding,
       CaptureTypeOK, QueueTypeOK, VencTypeOK, QueuedSlots, SlotsInUse, Item, NoFrame, Types,
       captureVars, vencVars, muxVars, fates
  <1>10. QueueIsOfThisRing'
    BY PacketsAndFrames DEF SlotInv, RebuildReopens, QueueDrained, QueueIsOfThisRing, Holding,
       CaptureTypeOK, QueueTypeOK, VencTypeOK, QueuedSlots, SlotsInUse, Item, NoFrame, Types,
       captureVars, vencVars, muxVars, fates
  <1>11. NoSlotOfADeadDevice'
    BY DEF SlotInv, RebuildReopens, QueueDrained, NoSlotOfADeadDevice, QueuedSlots, SlotsInUse,
       Types, captureVars, vencVars, muxVars, fates
  <1> QED BY <1>1, <1>2, <1>3, <1>4, <1>5, <1>6, <1>7, <1>8, <1>9, <1>10, <1>11 DEF SlotInv,
      Types

LEMMA StopBeginsSlots ==
  ASSUME SlotInv, StopBegins
  PROVE  SlotInv'
  <1>1. CaptureTypeOK'
    BY DEF SlotInv, StopBegins, CaptureTypeOK, Types, captureVars, vencVars, muxVars, fates
  <1>2. QueueTypeOK'
    BY DEF SlotInv, StopBegins, QueueTypeOK, Types, captureVars, vencVars, muxVars, fates
  <1>3. VencTypeOK'
    BY DEF SlotInv, StopBegins, VencTypeOK, Types, captureVars, vencVars, muxVars, fates
  <1>4. MuxTypeOK'
    BY DEF SlotInv, StopBegins, MuxTypeOK, Types, captureVars, vencVars, muxVars, fates
  <1>5. FlagsTypeOK'
    BY DEF SlotInv, StopBegins, FlagsTypeOK, Types, captureVars, vencVars, muxVars, fates
  <1>6. CountsTypeOK'
    BY DEF SlotInv, StopBegins, CountsTypeOK, Types, captureVars, vencVars, muxVars, fates
  <1>7. StopTypeOK'
    BY DEF SlotInv, StopBegins, StopTypeOK, Types, captureVars, vencVars, muxVars, fates
  <1>8. Holding'
    BY DEF SlotInv, StopBegins, Holding, CaptureTypeOK, QueueTypeOK, VencTypeOK, QueuedSlots,
       SlotsInUse, Item, NoFrame, Types, captureVars, vencVars, muxVars, fates
  <1>9. SlotsAreExclusive'
    BY DEF SlotInv, StopBegins, SlotsAreExclusive, Holding, CaptureTypeOK, QueueTypeOK,
       VencTypeOK, QueuedSlots, SlotsInUse, Item, NoFrame, Types, captureVars, vencVars,
       muxVars, fates
  <1>10. QueueIsOfThisRing'
    BY DEF SlotInv, StopBegins, QueueIsOfThisRing, Holding, CaptureTypeOK, QueueTypeOK,
       VencTypeOK, QueuedSlots, SlotsInUse, Item, NoFrame, Types, captureVars, vencVars,
       muxVars, fates
  <1>11. NoSlotOfADeadDevice'
    BY DEF SlotInv, StopBegins, NoSlotOfADeadDevice, QueuedSlots, SlotsInUse, Types,
       captureVars, vencVars, muxVars, fates
  <1> QED BY <1>1, <1>2, <1>3, <1>4, <1>5, <1>6, <1>7, <1>8, <1>9, <1>10, <1>11 DEF SlotInv,
      Types

LEMMA StopJoinsWatchdogSlots ==
  ASSUME SlotInv, StopJoinsWatchdog
  PROVE  SlotInv'
  <1>1. CaptureTypeOK' /\ QueueTypeOK' /\ VencTypeOK' /\ MuxTypeOK' /\ FlagsTypeOK' /\
         CountsTypeOK' /\ StopTypeOK' /\ Holding' /\ SlotsAreExclusive' /\ QueueIsOfThisRing' /\
         NoSlotOfADeadDevice'
    BY DEF SlotInv, StopJoinsWatchdog, CaptureTypeOK, Types, captureVars, vencVars, muxVars,
       fates, QueueTypeOK, VencTypeOK, MuxTypeOK, FlagsTypeOK, CountsTypeOK, StopTypeOK,
       Holding, QueuedSlots, SlotsInUse, SlotsAreExclusive, QueueIsOfThisRing,
       NoSlotOfADeadDevice
  <1> QED BY <1>1 DEF SlotInv, Types

LEMMA StopJoinsAudioSlots ==
  ASSUME SlotInv, StopJoinsAudio
  PROVE  SlotInv'
  <1>1. CaptureTypeOK' /\ QueueTypeOK' /\ VencTypeOK' /\ MuxTypeOK' /\ FlagsTypeOK' /\
         CountsTypeOK' /\ StopTypeOK' /\ Holding' /\ SlotsAreExclusive' /\ QueueIsOfThisRing' /\
         NoSlotOfADeadDevice'
    BY DEF SlotInv, StopJoinsAudio, AudioJoined, CaptureTypeOK, Types, captureVars, vencVars,
       muxVars, fates, QueueTypeOK, VencTypeOK, MuxTypeOK, FlagsTypeOK, CountsTypeOK,
       StopTypeOK, Holding, QueuedSlots, SlotsInUse, SlotsAreExclusive, QueueIsOfThisRing,
       NoSlotOfADeadDevice
  <1> QED BY <1>1 DEF SlotInv, Types

LEMMA StopFlushesAudioSlots ==
  ASSUME SlotInv, StopFlushesAudio
  PROVE  SlotInv'
  <1>1. CaptureTypeOK'
    BY DEF SlotInv, StopFlushesAudio, PushPacket, CloseEncodeQueue, CaptureTypeOK, Types,
       captureVars, vencVars, muxVars, fates
  <1>2. QueueTypeOK'
    BY DEF SlotInv, StopFlushesAudio, PushPacket, CloseEncodeQueue, QueueTypeOK, Types,
       captureVars, vencVars, muxVars, fates
  <1>3. VencTypeOK'
    BY DEF SlotInv, StopFlushesAudio, PushPacket, CloseEncodeQueue, VencTypeOK, Types,
       captureVars, vencVars, muxVars, fates
  <1>4. MuxTypeOK'
    <2>1. Audio(audioMade + 1) \in Packet
      BY PacketsAndFrames DEF SlotInv, Types, CountsTypeOK
    <2> QED BY <2>1, PushKeepsTypes DEF SlotInv, Types, MuxTypeOK, StopFlushesAudio
  <1>5. FlagsTypeOK'
    BY DEF SlotInv, StopFlushesAudio, PushPacket, CloseEncodeQueue, FlagsTypeOK, Types,
       captureVars, vencVars, muxVars, fates
  <1>6. CountsTypeOK'
    BY DEF SlotInv, StopFlushesAudio, PushPacket, CloseEncodeQueue, CountsTypeOK, Types,
       captureVars, vencVars, muxVars, fates
  <1>7. StopTypeOK'
    BY DEF SlotInv, StopFlushesAudio, PushPacket, CloseEncodeQueue, StopTypeOK, Types,
       captureVars, vencVars, muxVars, fates
  <1>8. Holding'
    BY DEF SlotInv, StopFlushesAudio, PushPacket, CloseEncodeQueue, Holding, QueuedSlots,
       SlotsInUse, Types, captureVars, vencVars, muxVars, fates
  <1>9. SlotsAreExclusive'
    BY DEF SlotInv, StopFlushesAudio, PushPacket, CloseEncodeQueue, SlotsAreExclusive,
       QueuedSlots, SlotsInUse, Types, captureVars, vencVars, muxVars, fates
  <1>10. QueueIsOfThisRing'
    BY DEF SlotInv, StopFlushesAudio, PushPacket, CloseEncodeQueue, QueueIsOfThisRing,
       QueuedSlots, SlotsInUse, Types, captureVars, vencVars, muxVars, fates
  <1>11. NoSlotOfADeadDevice'
    BY DEF SlotInv, StopFlushesAudio, PushPacket, CloseEncodeQueue, NoSlotOfADeadDevice,
       QueuedSlots, SlotsInUse, Types, captureVars, vencVars, muxVars, fates
  <1> QED BY <1>1, <1>2, <1>3, <1>4, <1>5, <1>6, <1>7, <1>8, <1>9, <1>10, <1>11 DEF SlotInv,
      Types

LEMMA StopJoinsVencSlots ==
  ASSUME SlotInv, StopJoinsVenc
  PROVE  SlotInv'
  <1>1. CaptureTypeOK'
    BY DEF SlotInv, StopJoinsVenc, VencJoined, CaptureTypeOK, Types, captureVars, vencVars,
       muxVars, fates
  <1>2. QueueTypeOK'
    BY DEF SlotInv, StopJoinsVenc, VencJoined, QueueTypeOK, Types, captureVars, vencVars,
       muxVars, fates
  <1>3. VencTypeOK'
    BY DEF SlotInv, StopJoinsVenc, VencJoined, VencTypeOK, Types, captureVars, vencVars,
       muxVars, fates
  <1>4. MuxTypeOK'
    BY DEF SlotInv, StopJoinsVenc, VencJoined, MuxTypeOK, Types, captureVars, vencVars,
       muxVars, fates
  <1>5. FlagsTypeOK'
    BY DEF SlotInv, StopJoinsVenc, VencJoined, FlagsTypeOK, Types, captureVars, vencVars,
       muxVars, fates
  <1>6. CountsTypeOK'
    BY DEF SlotInv, StopJoinsVenc, VencJoined, CountsTypeOK, Types, captureVars, vencVars,
       muxVars, fates
  <1>7. StopTypeOK'
    BY DEF SlotInv, StopJoinsVenc, VencJoined, StopTypeOK, Types, captureVars, vencVars,
       muxVars, fates
  <1>8. Holding'
    BY DEF SlotInv, StopJoinsVenc, VencJoined, Holding, QueuedSlots, SlotsInUse, Types,
       captureVars, vencVars, muxVars, fates
  <1>9. SlotsAreExclusive'
    BY DEF SlotInv, StopJoinsVenc, VencJoined, SlotsAreExclusive, QueuedSlots, SlotsInUse,
       Types, captureVars, vencVars, muxVars, fates
  <1>10. QueueIsOfThisRing'
    BY DEF SlotInv, StopJoinsVenc, VencJoined, QueueIsOfThisRing, QueuedSlots, SlotsInUse,
       Types, captureVars, vencVars, muxVars, fates
  <1>11. NoSlotOfADeadDevice'
    BY DEF SlotInv, StopJoinsVenc, VencJoined, NoSlotOfADeadDevice, QueuedSlots, SlotsInUse,
       Types, captureVars, vencVars, muxVars, fates
  <1> QED BY <1>1, <1>2, <1>3, <1>4, <1>5, <1>6, <1>7, <1>8, <1>9, <1>10, <1>11 DEF SlotInv,
      Types

LEMMA StopFlushesSlots ==
  ASSUME SlotInv, StopFlushes
  PROVE  SlotInv'
  <1>1. CaptureTypeOK'
    BY DEF SlotInv, StopFlushes, DrainOne, PushPacket, Drained, CaptureTypeOK, Types,
       captureVars, vencVars, muxVars, fates
  <1>2. QueueTypeOK'
    BY DEF SlotInv, StopFlushes, DrainOne, PushPacket, Drained, QueueTypeOK, Types,
       captureVars, vencVars, muxVars, fates
  <1>3. VencTypeOK'
    <2>1. CASE DrainOne(0)
      BY <2>1, DrainKeepsTypes, Bounds DEF SlotInv, Types, StopFlushes, MuxTypeOK, VencTypeOK, muxVars
    <2>2. CASE ~DrainOne(0) /\ ~FlushFails
      BY <2>2, PacketsAndFrames DEF SlotInv, Types, StopFlushes, MuxTypeOK, VencTypeOK, muxVars
    <2>3. CASE FlushFails
      BY <2>3, PacketsAndFrames DEF SlotInv, Types, StopFlushes, FlushFails, MuxTypeOK, VencTypeOK, muxVars
    <2> QED BY <2>1, <2>2, <2>3
  <1>4. MuxTypeOK'
    <2>1. CASE DrainOne(0)
      BY <2>1, DrainKeepsTypes, Bounds DEF SlotInv, Types, StopFlushes, MuxTypeOK, VencTypeOK, muxVars
    <2>2. CASE ~DrainOne(0) /\ ~FlushFails
      BY <2>2, PacketsAndFrames DEF SlotInv, Types, StopFlushes, MuxTypeOK, VencTypeOK, muxVars
    <2>3. CASE FlushFails
      BY <2>3, PacketsAndFrames DEF SlotInv, Types, StopFlushes, FlushFails, MuxTypeOK, VencTypeOK, muxVars
    <2> QED BY <2>1, <2>2, <2>3
  <1>5. FlagsTypeOK'
    BY DEF SlotInv, StopFlushes, DrainOne, PushPacket, Drained, FlagsTypeOK, Types,
       captureVars, vencVars, muxVars, fates
  <1>6. CountsTypeOK'
    BY FramesAreNumbers DEF SlotInv, Types, StopFlushes, FlushFails, Fails, CountsTypeOK
  <1>7. StopTypeOK'
    BY DEF SlotInv, StopFlushes, DrainOne, PushPacket, Drained, StopTypeOK, Types, captureVars,
       vencVars, muxVars, fates
  <1>8. Holding'
    BY DEF SlotInv, StopFlushes, DrainOne, PushPacket, Drained, Holding, QueuedSlots,
       SlotsInUse, Types, captureVars, vencVars, muxVars, fates
  <1>9. SlotsAreExclusive'
    BY DEF SlotInv, StopFlushes, DrainOne, PushPacket, Drained, SlotsAreExclusive, QueuedSlots,
       SlotsInUse, Types, captureVars, vencVars, muxVars, fates
  <1>10. QueueIsOfThisRing'
    BY DEF SlotInv, StopFlushes, DrainOne, PushPacket, Drained, QueueIsOfThisRing, QueuedSlots,
       SlotsInUse, Types, captureVars, vencVars, muxVars, fates
  <1>11. NoSlotOfADeadDevice'
    BY DEF SlotInv, StopFlushes, DrainOne, PushPacket, Drained, NoSlotOfADeadDevice,
       QueuedSlots, SlotsInUse, Types, captureVars, vencVars, muxVars, fates
  <1> QED BY <1>1, <1>2, <1>3, <1>4, <1>5, <1>6, <1>7, <1>8, <1>9, <1>10, <1>11 DEF SlotInv,
      Types

LEMMA StopJoinsMuxSlots ==
  ASSUME SlotInv, StopJoinsMux
  PROVE  SlotInv'
  <1>1. CaptureTypeOK' /\ QueueTypeOK' /\ VencTypeOK' /\ MuxTypeOK' /\ FlagsTypeOK' /\
         CountsTypeOK' /\ StopTypeOK' /\ Holding' /\ SlotsAreExclusive' /\ QueueIsOfThisRing' /\
         NoSlotOfADeadDevice'
    BY DEF SlotInv, StopJoinsMux, CaptureTypeOK, Types, captureVars, vencVars, muxVars, fates,
       QueueTypeOK, VencTypeOK, MuxTypeOK, FlagsTypeOK, CountsTypeOK, StopTypeOK, Holding,
       QueuedSlots, SlotsInUse, SlotsAreExclusive, QueueIsOfThisRing, NoSlotOfADeadDevice
  <1> QED BY <1>1 DEF SlotInv, Types

LEMMA StopFinalizesSlots ==
  ASSUME SlotInv, StopFinalizes
  PROVE  SlotInv'
  <1>1. CaptureTypeOK' /\ QueueTypeOK' /\ VencTypeOK' /\ MuxTypeOK' /\ StopTypeOK' /\ Holding'
        /\ SlotsAreExclusive' /\ QueueIsOfThisRing' /\ NoSlotOfADeadDevice'
    BY DEF SlotInv, StopFinalizes, CaptureTypeOK, Types, captureVars, vencVars, fates,
       QueueTypeOK, VencTypeOK, MuxTypeOK, StopTypeOK, Holding,
       QueuedSlots, SlotsInUse, SlotsAreExclusive, QueueIsOfThisRing, NoSlotOfADeadDevice
  <1>2. FlagsTypeOK' /\ CountsTypeOK'
    BY DEF SlotInv, StopFinalizes, Fails, Types, FlagsTypeOK, CountsTypeOK, vencVars, fates
  <1> QED BY <1>1, <1>2 DEF SlotInv, Types

LEMMA StutterSlots ==
  ASSUME SlotInv, UNCHANGED vars
  PROVE  SlotInv'
  <1>1. CaptureTypeOK' /\ QueueTypeOK' /\ VencTypeOK' /\ MuxTypeOK' /\ FlagsTypeOK' /\
         CountsTypeOK' /\ StopTypeOK' /\ Holding' /\ SlotsAreExclusive' /\ QueueIsOfThisRing' /\
         NoSlotOfADeadDevice'
    BY DEF SlotInv, vars, CaptureTypeOK, Types, captureVars, vencVars, muxVars, fates,
       QueueTypeOK, VencTypeOK, MuxTypeOK, FlagsTypeOK, CountsTypeOK, StopTypeOK, Holding,
       QueuedSlots, SlotsInUse, SlotsAreExclusive, QueueIsOfThisRing, NoSlotOfADeadDevice
  <1> QED BY <1>1 DEF SlotInv, Types


LEMMA SlotInit == Init => SlotInv
  <1> SUFFICES ASSUME Init PROVE SlotInv
    OBVIOUS
  <1>1. CaptureTypeOK
    BY DEF Init, CaptureTypeOK
  <1>2. QueueTypeOK
    BY Bounds DEF Init, QueueTypeOK
  <1>3. VencTypeOK
    BY NoFrameIsAFrame DEF Init, VencTypeOK
  <1>4. MuxTypeOK
    <2>1. Nothing \in Packet
      BY PacketsAndFrames
    <2> QED BY <2>1, Bounds DEF Init, MuxTypeOK
  <1>5. FlagsTypeOK /\ CountsTypeOK /\ StopTypeOK
    BY DEF Init, FlagsTypeOK, CountsTypeOK, StopTypeOK
  <1>6. Holding /\ QueueIsOfThisRing /\ NoSlotOfADeadDevice
    BY DEF Init, Holding, QueueIsOfThisRing, NoSlotOfADeadDevice, NoFrame
  <1>7. SlotsAreExclusive
    BY DEF Init, SlotsAreExclusive, SlotsInUse, QueuedSlots, NoFrame
  <1> QED BY <1>1, <1>2, <1>3, <1>4, <1>5, <1>6, <1>7 DEF SlotInv, Types

LEMMA SlotStep ==
  ASSUME SlotInv, [Next]_vars
  PROVE  SlotInv'
  <1>1. CASE Submit \/ AudioCompletesEpoch
    BY <1>1, SubmitEntersSlots, SubmitAcquiresSlots, SubmitPushesSlots, AudioCompletesEpochSlots
    DEF Submit
  <1>2. CASE Venc \/ VencThrows
    BY <1>2, VencPopsSlots, VencConvertsSlots, VencEncodesSlots, VencDrainsSlots, VencThrowsSlots
    DEF Venc
  <1>3. CASE Mux \/ MuxThrows
    BY <1>3, MuxPopsSlots, MuxRolledSlots, MuxWritesSlots, MuxThrowsSlots DEF Mux
  <1>4. CASE AencPushes \/ AencEnds \/ WatchdogEnds
    BY <1>4, AencPushesSlots, AencEndsSlots, WatchdogEndsSlots
  <1>5. CASE Rebuild
    BY <1>5, RebuildClosesSlots, RebuildJoinsSlots, RebuildFlushesSlots, RebuildReopensSlots
    DEF Rebuild
  <1>6. CASE StopBegins \/ StopProceeds
    BY <1>6, StopBeginsSlots, StopJoinsWatchdogSlots, StopJoinsAudioSlots, StopFlushesAudioSlots,
       StopJoinsVencSlots, StopFlushesSlots, StopJoinsMuxSlots, StopFinalizesSlots
    DEF StopProceeds
  <1>7. CASE UNCHANGED vars
    BY <1>7, StutterSlots
  <1> QED BY <1>1, <1>2, <1>3, <1>4, <1>5, <1>6, <1>7 DEF Next

LEMMA SlotInvHolds == Spec => []SlotInv
  BY SlotInit, SlotStep, PTL DEF Spec

(* The pipeline's state has its types, and its queues their capacities.    *)
THEOREM TypeCorrect == Spec => []TypeOK
  <1>1. SlotInv => TypeOK
    BY TypesAreTypeOK DEF SlotInv
  <1> QED BY <1>1, SlotInvHolds, PTL

(* A staging slot is never written while a queue entry or a conversion     *)
(* still reads it, however pushes displace, stages throw, devices are      *)
(* rebuilt and joins expire.                                               *)
THEOREM NoSlotHasTwoHolders == Spec => []SlotsAreExclusive
  BY SlotInvHolds, PTL DEF SlotInv

(* rebuild_device joins the venc thread before it resets the ring, and     *)
(* starts it again only on a drained queue: no conversion reads a texture  *)
(* of the old device.                                                      *)
THEOREM OnlySlotsOfThisDevice == Spec => []NoSlotOfADeadDevice
  BY SlotInvHolds, PTL DEF SlotInv

-----------------------------------------------------------------------------
(* Slots that are lost: neither free nor in anybody's hands.               *)
Leaked == Slots \ (free \cup SlotsInUse)
Submits == {"idle", "admitted", "copied"}
OneLeaks == "venc" \notin faults /\ capture.at \in Submits => \E s \in Slots : Leaked \subseteq {s}

(* A bijection onto a set counts it.                                       *)
LEMMA QueueCountsItsSlots ==
  ASSUME SlotInv
  PROVE  IsFiniteSet(QueuedSlots) /\ Cardinality(QueuedSlots) = Len(queue)
  <1> DEFINE D == 1 .. Len(queue)
             f == [i \in D |-> queue[i].slot]
  <1>1. Len(queue) \in Nat /\ DOMAIN queue = D
    BY DEF SlotInv, Types, QueueTypeOK
  <1>2. IsFiniteSet(D) /\ Cardinality(D) = Len(queue)
    <2> DEFINE n == Len(queue)
    <2>1. n \in Int /\ n >= 0
      BY <1>1
    <2> HIDE DEF n
    <2>2. IsFiniteSet(1 .. n) /\ Cardinality(1 .. n) = IF 1 > n THEN 0 ELSE n - 1 + 1
      BY <2>1, FS_Interval
    <2> QED BY <2>1, <2>2 DEF n
  <1>3. QueuedSlots = {f[i] : i \in D}
    BY <1>1 DEF QueuedSlots
  <1>4. \A i, j \in D : f[i] = f[j] => i = j
    BY <1>1 DEF SlotInv, SlotsAreExclusive
  <1>5. f \in [D -> QueuedSlots]
    BY <1>1 DEF QueuedSlots
  <1> HIDE DEF f, D
  <1>6. f \in Bijection(D, QueuedSlots)
    <2>1. \A t \in QueuedSlots : \E i \in D : f[i] = t
      BY <1>3
    <2> QED BY <1>4, <1>5, <2>1 DEF Bijection, Injection, Surjection, IsInjective
  <1>7. ExistsBijection(D, QueuedSlots)
    BY <1>6 DEF ExistsBijection
  <1> QED BY <1>2, <1>7, FS_Bijection

(* The ring has one slot more than the queue has entries, so when a copy   *)
(* meets a full queue every slot is in the queue or under the copy: none   *)
(* can have been lost before.                                              *)
LEMMA FullQueueHoldsAll ==
  ASSUME SlotInv, capture.at = "copied", Len(queue) = EncodeCapacity
  PROVE  Slots = QueuedSlots \cup {capture.slot}
  <1>1. capture.slot \in Slots /\ capture.slot \notin QueuedSlots
    BY CopiedIsNew
  <1>2. QueuedSlots \subseteq Slots
    <2>1. \A i \in DOMAIN queue : queue[i] \in Item /\ queue[i].slot # NoSlot
      BY DEF SlotInv, Types, QueueTypeOK, Holding
    <2>2. \A i \in DOMAIN queue : queue[i].slot \in Slots
      BY <2>1 DEF Item
    <2> QED BY <2>2 DEF QueuedSlots
  <1> DEFINE T == QueuedSlots \cup {capture.slot}
  <1>3. T \in SUBSET Slots
    BY <1>1, <1>2
  <1>4. IsFiniteSet(T) /\ Cardinality(T) = EncodeCapacity + 1
    BY <1>1, QueueCountsItsSlots, FS_AddElement
  <1>5. IsFiniteSet(Slots) /\ Cardinality(Slots) = EncodeCapacity + 1
    BY RingAssumption
  <1> HIDE DEF T
  <1>6. Slots = T
    BY <1>3, <1>4, <1>5, FS_Subset
  <1> QED BY <1>6 DEF T

(* What keeps every slot accounted for loses none.                         *)
LEMMA NoSlotIsLost ==
  ASSUME OneLeaks, faults \subseteq faults', capture'.at \in Submits => capture.at \in Submits,
         free \cup SlotsInUse \subseteq (free \cup SlotsInUse)'
  PROVE  OneLeaks'
  BY DEF OneLeaks, Leaked

LEMMA NoSlotMoves ==
  ASSUME OneLeaks, faults \subseteq faults', UNCHANGED <<free, queue>>,
         capture'.at \in Submits => capture.at \in Submits,
         capture'.slot = capture.slot, venc'.frame.slot = venc.frame.slot
  PROVE  OneLeaks'
  <1>1. SlotsInUse' = SlotsInUse
    BY DEF SlotsInUse, QueuedSlots
  <1> QED BY <1>1, NoSlotIsLost

(* Taking a slot, and giving one back.                                     *)
LEMMA SubmitAcquiresKeepsSlots ==
  ASSUME SlotInv, OneLeaks, SubmitAcquires
  PROVE  OneLeaks'
  <1>1. /\ capture.at = "admitted" /\ capture.slot = NoSlot
        /\ UNCHANGED <<queue, venc, faults>>
    BY DEF SubmitAcquires, vencVars, SlotInv, Holding
  <1>2. CASE UNCHANGED free /\ capture' = [at |-> "idle", slot |-> NoSlot]
    BY <1>1, <1>2, NoSlotMoves DEF Submits
  <1>3. ASSUME NEW s \in free, free' = free \ {s}, capture' = [at |-> "copied", slot |-> s]
        PROVE  OneLeaks'
    <2>1. s # NoSlot
      BY RingAssumption DEF SlotInv, Types, CaptureTypeOK
    <2>2. capture'.at = "copied" /\ capture'.slot = s
      BY <1>3
    <2>3. SlotsInUse' = SlotsInUse \cup {s}
      BY <1>1, <2>1, <2>2 DEF SlotsInUse, QueuedSlots
    <2> QED BY <1>1, <1>3, <2>3, NoSlotIsLost DEF Submits
  <1> QED BY <1>2, <1>3 DEF SubmitAcquires

LEMMA SubmitPushesKeepsSlots ==
  ASSUME SlotInv, SlotInv', OneLeaks, SubmitPushes
  PROVE  OneLeaks'
  <1>1. /\ capture.at = "copied" /\ capture'.at = "idle" /\ capture'.slot = NoSlot
        /\ UNCHANGED <<venc, faults>>
    BY DEF SubmitPushes, vencVars
  <1>2. CASE PushWithRoom
    <2>1. queue' = Append(queue, Copied) /\ free' = free /\ queue \in Seq(Item) /\ Copied \in Item
          /\ Copied.slot = capture.slot
      BY <1>1, <1>2, CopiedIsNew DEF PushWithRoom, SlotInv, Types, QueueTypeOK
    <2>2. QueuedSlots' = QueuedSlots \cup {capture.slot}
      <3>1. /\ DOMAIN queue' = 1 .. Len(queue) + 1 /\ DOMAIN queue = 1 .. Len(queue) /\ Len(queue) \in Nat
            /\ \A i \in DOMAIN queue' : IF i \in DOMAIN queue THEN queue'[i] = queue[i]
                                        ELSE i = Len(queue) + 1 /\ queue'[i] = Copied
        BY <2>1, AppendAt
      <3>2. \A i \in DOMAIN queue : i \in DOMAIN queue' /\ queue'[i] = queue[i]
        BY <3>1
      <3>3. Len(queue) + 1 \in DOMAIN queue' /\ queue'[Len(queue) + 1] = Copied
        BY <3>1
      <3>4. \A i \in DOMAIN queue' : queue'[i].slot \in QueuedSlots \cup {capture.slot}
        BY <2>1, <3>1 DEF QueuedSlots
      <3>5. QueuedSlots \subseteq QueuedSlots'
        BY <3>2 DEF QueuedSlots
      <3>6. capture.slot \in QueuedSlots'
        BY <2>1, <3>3 DEF QueuedSlots
      <3> QED BY <3>4, <3>5, <3>6 DEF QueuedSlots
    <2>3. SlotsInUse \subseteq SlotsInUse'
      BY <1>1, <2>2 DEF SlotsInUse
    <2> QED BY <1>1, <2>1, <2>3, NoSlotIsLost DEF Submits
  <1>3. CASE PushOntoFullQueue
    <2>1. queue' = Append(Tail(queue), Copied) /\ free' = free /\ Len(queue) = EncodeCapacity
      BY <1>3 DEF PushOntoFullQueue
    <2>2. Slots = QueuedSlots \cup {capture.slot}
      BY <1>1, <2>1, FullQueueHoldsAll
    <2>3. queue # <<>> /\ QueueTypeOK
      BY <2>1, Bounds DEF SlotInv, Types
    <2> DEFINE s == queue[1].slot
               q == Tail(queue)
    <2>4. /\ q \in Seq(Item) /\ Copied \in Item /\ Copied.slot = capture.slot
          /\ \A i \in DOMAIN queue : i = 1 \/ \E j \in DOMAIN q : i = j + 1
          /\ \A j \in DOMAIN q : q[j] = queue[j + 1]
      BY <1>1, <2>3, QueueHead, CopiedIsNew
    <2>5. s \in Slots
      BY <2>3, QueueHead DEF SlotInv, Holding, Item
    <2> HIDE DEF q
    <2>6. /\ DOMAIN queue' = 1 .. Len(q) + 1 /\ DOMAIN q = 1 .. Len(q) /\ Len(q) \in Nat
          /\ \A i \in DOMAIN queue' : IF i \in DOMAIN q THEN queue'[i] = q[i]
                                      ELSE i = Len(q) + 1 /\ queue'[i] = Copied
      BY <2>1, <2>4, AppendAt DEF q
    <2>7. Len(q) + 1 \in DOMAIN queue' /\ queue'[Len(q) + 1] = Copied
      BY <2>6
    <2>8. capture.slot \in QueuedSlots'
      BY <2>4, <2>7 DEF QueuedSlots
    <2>9. \A i \in DOMAIN queue : i = 1 \/ queue[i].slot \in QueuedSlots'
      BY <2>4, <2>6 DEF QueuedSlots
    <2>10. Slots \subseteq QueuedSlots' \cup {s}
      BY <2>2, <2>8, <2>9 DEF QueuedSlots
    <2>11. Leaked' \subseteq {s}
      <3>1. \A x \in Slots : x # NoSlot
        BY RingAssumption
      <3> HIDE DEF s
      <3> QED BY <2>10, <3>1 DEF Leaked, SlotsInUse
    <2> HIDE DEF s
    <2> QED BY <2>5, <2>11 DEF OneLeaks
  <1>4. CASE PushOntoClosedQueue
    <2>1. free' = free \cup {capture.slot} /\ queue' = queue
      BY <1>4 DEF PushOntoClosedQueue
    <2>2. SlotsInUse \subseteq SlotsInUse' \cup {capture.slot}
      BY <1>1, <2>1 DEF SlotsInUse, QueuedSlots
    <2> QED BY <1>1, <2>1, <2>2, NoSlotIsLost DEF Submits
  <1> QED BY <1>2, <1>3, <1>4 DEF SubmitPushes

LEMMA VencPopsKeepsSlots ==
  ASSUME SlotInv, OneLeaks, VencPops
  PROVE  OneLeaks'
  <1>1. venc.at = "pop" /\ venc.frame.slot = NoSlot /\ UNCHANGED <<capture, free, faults>>
    BY NoFrameIsAFrame DEF VencPops, captureVars, SlotInv, Holding
  <1>2. CASE queue # <<>> /\ venc' = [at |-> "convert", frame |-> NextFrame] /\ queue' = Tail(queue)
    <2> DEFINE q == Tail(queue)
    <2>1. /\ NextFrame = queue[1] /\ \A j \in DOMAIN q : q[j] = queue[j + 1]
          /\ \A i \in DOMAIN queue : i = 1 \/ \E j \in DOMAIN q : i = j + 1
      BY <1>2, QueueHead DEF NextFrame, SlotInv, Types
    <2>2. venc'.frame.slot = queue[1].slot /\ queue' = q
      BY <1>2, <2>1
    <2> HIDE DEF q
    <2>3. \A i \in DOMAIN queue : queue[i].slot \in QueuedSlots' \cup {venc'.frame.slot}
      BY <2>1, <2>2 DEF QueuedSlots
    <2>4. QueuedSlots \subseteq QueuedSlots' \cup {venc'.frame.slot}
      BY <2>3 DEF QueuedSlots
    <2>5. SlotsInUse \subseteq SlotsInUse'
      BY <1>1, <2>4 DEF SlotsInUse
    <2> QED BY <1>1, <2>5, NoSlotIsLost
  <1>3. CASE venc' = [at |-> "ended", frame |-> NoFrame] /\ UNCHANGED queue
    BY <1>1, <1>3, NoFrameIsAFrame, NoSlotMoves
  <1> QED BY <1>2, <1>3 DEF VencPops

LEMMA VencConvertsKeepsSlots ==
  ASSUME SlotInv, OneLeaks, VencConverts
  PROVE  OneLeaks'
  <1>1. /\ free' = free \cup {venc.frame.slot} /\ UNCHANGED <<capture, queue, faults>>
        /\ venc'.frame.slot = NoSlot
    BY AfterTheConversion DEF VencConverts, VencReturnsSlot, SlotInv, Types
  <1>2. SlotsInUse \subseteq SlotsInUse' \cup {venc.frame.slot}
    BY <1>1 DEF SlotsInUse, QueuedSlots
  <1> QED BY <1>1, <1>2, NoSlotIsLost

LEMMA VencEncodesKeepsSlots ==
  ASSUME SlotInv, OneLeaks, VencEncodes \/ VencDrains
  PROVE  OneLeaks'
  <1>1. /\ venc.at \in {"encode", "drain"} /\ venc.frame.slot = NoSlot
        /\ UNCHANGED <<capture, free, queue>> /\ faults \subseteq faults'
    BY DEF VencEncodes, VencDrains, Fails, captureVars, SlotInv, Holding
  <1>2. venc'.frame.slot = NoSlot
    BY <1>1, NoFrameIsAFrame DEF VencEncodes, VencDrains, SlotInv, Types, VencTypeOK
  <1> QED BY <1>1, <1>2, NoSlotMoves

(* While the device is rebuilt nobody submits; the ring that comes after   *)
(* it is whole.                                                            *)
LEMMA RebuildKeepsSlots ==
  ASSUME SlotInv, OneLeaks, Rebuild
  PROVE  OneLeaks'
  <1>1. CASE RebuildReopens /\ free' = Slots
    <2>1. Leaked' = {}
      BY <1>1 DEF Leaked
    <2>2. \E s \in Slots : TRUE
      <3>1. Cardinality(Slots) # 0 /\ IsFiniteSet(Slots)
        BY RingAssumption, Bounds
      <3> QED BY <3>1, FS_EmptySet
    <2> QED BY <2>1, <2>2 DEF OneLeaks
  <1>2. CASE ~(RebuildReopens /\ free' = Slots)
    <2>1. capture'.at \in {"joinVenc", "flush", "open", "refused"}
      BY <1>2 DEF Rebuild, RebuildCloses, RebuildJoins, RebuildFlushes, RebuildReopens, SlotInv, Types,
                  CaptureTypeOK
    <2> QED BY <2>1 DEF OneLeaks, Submits
  <1> QED BY <1>1, <1>2

LEMMA OthersKeepSlots ==
  ASSUME SlotInv, OneLeaks,
         \/ SubmitEnters \/ AudioCompletesEpoch \/ Mux \/ MuxThrows \/ AencPushes \/ AencEnds
         \/ WatchdogEnds \/ StopBegins \/ StopProceeds \/ UNCHANGED vars
  PROVE  OneLeaks'
  <1>1. CASE SubmitEnters \/ StopBegins
    <2>1. UNCHANGED <<free, queue, venc, faults>>
      BY <1>1 DEF SubmitEnters, StopBegins, vencVars
    <2>2. capture'.slot = capture.slot /\ (capture'.at \in Submits => capture.at \in Submits)
      BY <1>1 DEF SubmitEnters, StopBegins, SlotInv, Types, CaptureTypeOK, Submits
    <2> QED BY <2>1, <2>2, NoSlotMoves
  <1>2. CASE \/ AudioCompletesEpoch \/ Mux \/ MuxThrows \/ AencPushes \/ AencEnds
             \/ WatchdogEnds \/ StopProceeds \/ UNCHANGED vars
    <2>1. UNCHANGED <<capture, free, queue, venc>> /\ faults \subseteq faults'
      BY <1>2 DEF Fails, FlushFails, fates,
                  AudioCompletesEpoch, Mux, MuxPops, MuxRolled, MuxWrites, MuxThrows, AencPushes, AencEnds,
                  WatchdogEnds, StopProceeds, StopJoinsWatchdog, StopJoinsAudio, StopFlushesAudio,
                  StopJoinsVenc, StopFlushes, StopJoinsMux, StopFinalizes, vars, captureVars, vencVars
    <2> QED BY <2>1, NoSlotMoves
  <1> QED BY <1>1, <1>2

LEMMA OneLeaksHolds == Spec => []OneLeaks
  <1>1. Init => OneLeaks
    <2> SUFFICES ASSUME Init PROVE \E s \in Slots : Leaked \subseteq {s}
      BY DEF OneLeaks
    <2>1. Leaked = {}
      BY DEF Init, Leaked
    <2>2. Cardinality(Slots) # 0 /\ IsFiniteSet(Slots)
      BY RingAssumption, Bounds
    <2> QED BY <2>1, <2>2, FS_EmptySet
  <1>2. SlotInv /\ SlotInv' /\ OneLeaks /\ [Next]_vars => OneLeaks'
    <2> SUFFICES ASSUME SlotInv, SlotInv', OneLeaks, [Next]_vars PROVE OneLeaks'
      OBVIOUS
    <2>1. CASE VencThrows
      <3>1. "venc" \in faults'
        BY <2>1 DEF VencThrows, Fails
      <3> QED BY <3>1 DEF OneLeaks
    <2> QED BY <2>1, SubmitAcquiresKeepsSlots, SubmitPushesKeepsSlots, VencPopsKeepsSlots,
               VencConvertsKeepsSlots, VencEncodesKeepsSlots, RebuildKeepsSlots, OthersKeepSlots
            DEF Next, Submit, Venc
  <1> QED BY <1>1, <1>2, SlotInvHolds, PTL DEF Spec

(* AtMostOneSlotLeaks: a displaced frame takes its slot with it, and that  *)
(* can happen only once in the life of a ring, for every capacity: the     *)
(* ring has one slot more than the queue has entries (SubmitPushes,        *)
(* video_pipeline.cpp:1175), unless the encoding thread has thrown.        *)
THEOREM OneSlotIsLostAtMost == Spec => []AtMostOneSlotLeaks
  <1>1. OneLeaks => AtMostOneSlotLeaks
    <2> SUFFICES ASSUME OneLeaks, "venc" \notin faults, capture.at \in Submits
                 PROVE  Cardinality(Leaked) <= 1
      BY DEF AtMostOneSlotLeaks, Submits, Leaked
    <2>1. PICK s \in Slots : Leaked \subseteq {s}
      BY DEF OneLeaks
    <2>2. Leaked \in SUBSET {s}
      BY <2>1
    <2>3. IsFiniteSet({s}) /\ Cardinality({s}) = 1
      BY FS_Singleton
    <2> QED BY <2>2, <2>3, FS_Subset
  <1> QED BY <1>1, OneLeaksHolds, PTL


-----------------------------------------------------------------------------
(* stop() and the trailer.  A venc thread that a join gave up on makes     *)
(* await_worker answer at once; here no join of venc expires.              *)

(* What an ended thread has left behind.                                   *)
EndedThreads ==
    /\ venc.at = "ended" /\ "venc" \notin faults => queue = <<>> /\ ~encodeOpen
    /\ mux.at \in {"pop", "ended"} => mux.packet = Nothing
    /\ mux.at = "ended" /\ "mux" \notin faults => muxQueue = <<>> /\ ~muxOpen

(* stop() passes a stage only when the one before is done with.            *)
StopStages ==
    /\ ~detached
    /\ owner \in {"audioTail", "joinVenc", "flush", "joinMux", "finalize", "done"} => aenc = "ended"
    /\ owner \in {"flush", "joinMux", "finalize", "done"} => venc.at = "ended"
    /\ owner \in {"finalize", "done"} => mux.at = "ended"
    /\ trailer => owner = "done"

(* The mux queue is closed behind everybody who feeds it.                  *)
ClosedBehindItsFeeders ==
    /\ owner \in {"joinMux", "finalize", "done"} => ~muxOpen
    /\ ~muxOpen => /\ venc.at = "ended" /\ aenc = "ended" /\ InEncoder = {}
                   /\ owner \in {"joinMux", "finalize", "done", "timedOut"}
    /\ refused = {}

(* A rebuild that has not been refused keeps stop() away.                  *)
RebuildsPrecedeStop ==
    /\ capture.at \in {"joinVenc", "flush", "open", "refused"} => owner = "away"
    /\ running <=> owner = "away"
    /\ capture.at = "open" => encoder = NoEncoder

StopParts == EndedThreads /\ StopStages /\ ClosedBehindItsFeeders /\ RebuildsPrecedeStop

StopInv == SlotInv /\ "venc" \notin MayTimeOut /\ StopParts

(* One turn of a flush: what the encoder held was something.               *)
LEMMA DrainsSomething ==
  ASSUME VencTypeOK, NEW kept \in Nat, DrainOne(kept)
  PROVE  InEncoder # {} /\ Len(encoder) > 0
  <1>1. encoder \in Seq(Nat) /\ Len(encoder) > kept /\ encoder # NoEncoder
    BY DEF VencTypeOK, DrainOne
  <1>2. 1 \in DOMAIN encoder /\ Len(encoder) > 0
    BY <1>1
  <1> QED BY <1>1, <1>2 DEF InEncoder, Elements

LEMMA DrainedIsEmpty ==
  ASSUME VencTypeOK, Drained(0)
  PROVE  InEncoder = {}
  <1>1. CASE encoder = NoEncoder
    BY <1>1 DEF InEncoder
  <1>2. CASE encoder # NoEncoder
    <2>1. encoder \in Seq(Nat) /\ Len(encoder) <= 0
      BY <1>2 DEF VencTypeOK, Drained
    <2>2. DOMAIN encoder = {}
      BY <2>1
    <2> QED BY <1>2, <2>2 DEF InEncoder, Elements
  <1> QED BY <1>1, <1>2

LEMMA SubmitEntersStops ==
  ASSUME StopInv, SubmitEnters
  PROVE  StopParts'
  <1>1. EndedThreads'
    BY DEF StopInv, SubmitEnters, EndedThreads, SlotInv, StopParts, captureVars, vencVars,
       muxVars, fates
  <1>2. StopStages'
    BY DEF StopInv, SubmitEnters, StopStages, SlotInv, StopParts, captureVars, vencVars,
       muxVars, fates
  <1>3. ClosedBehindItsFeeders'
    BY DEF StopInv, SubmitEnters, ClosedBehindItsFeeders, SlotInv, StopParts, captureVars,
       vencVars, muxVars, fates, InEncoder
  <1>4. RebuildsPrecedeStop'
    BY DEF StopInv, SubmitEnters, RebuildsPrecedeStop, SlotInv, StopParts, captureVars,
       vencVars, muxVars, fates, Types, VencTypeOK, FlagsTypeOK, StopTypeOK, MuxTypeOK,
       CaptureTypeOK
  <1> QED BY <1>1, <1>2, <1>3, <1>4 DEF StopInv, StopParts

LEMMA SubmitAcquiresStops ==
  ASSUME StopInv, SubmitAcquires
  PROVE  StopParts'
  <1>1. EndedThreads' /\ StopStages' /\ ClosedBehindItsFeeders' /\ RebuildsPrecedeStop'
    BY DEF StopInv, SubmitAcquires, EndedThreads, SlotInv, StopParts, captureVars, vencVars,
       muxVars, fates, StopStages, ClosedBehindItsFeeders, InEncoder, RebuildsPrecedeStop
  <1> QED BY <1>1 DEF StopInv, StopParts

LEMMA SubmitPushesStops ==
  ASSUME StopInv, SubmitPushes
  PROVE  StopParts'
  <1>1. EndedThreads' /\ StopStages' /\ ClosedBehindItsFeeders' /\ RebuildsPrecedeStop'
    BY DEF StopInv, SubmitPushes, PushWithRoom, PushOntoFullQueue, PushOntoClosedQueue,
       EndedThreads, SlotInv, StopParts, captureVars, vencVars, muxVars, fates, StopStages,
       ClosedBehindItsFeeders, InEncoder, RebuildsPrecedeStop
  <1> QED BY <1>1 DEF StopInv, StopParts

LEMMA AudioCompletesEpochStops ==
  ASSUME StopInv, AudioCompletesEpoch
  PROVE  StopParts'
  <1>1. EndedThreads' /\ StopStages' /\ ClosedBehindItsFeeders' /\ RebuildsPrecedeStop'
    BY DEF StopInv, AudioCompletesEpoch, EndedThreads, SlotInv, StopParts, captureVars,
       vencVars, muxVars, fates, StopStages, ClosedBehindItsFeeders, InEncoder,
       RebuildsPrecedeStop
  <1> QED BY <1>1 DEF StopInv, StopParts

LEMMA VencPopsStops ==
  ASSUME StopInv, VencPops
  PROVE  StopParts'
  <1>1. EndedThreads' /\ StopStages' /\ ClosedBehindItsFeeders' /\ RebuildsPrecedeStop'
    BY DEF StopInv, VencPops, NextFrame, VencMayEnd, EndedThreads, SlotInv, StopParts,
       captureVars, vencVars, muxVars, fates, StopStages, ClosedBehindItsFeeders, InEncoder,
       RebuildsPrecedeStop
  <1> QED BY <1>1 DEF StopInv, StopParts

LEMMA VencConvertsStops ==
  ASSUME StopInv, VencConverts
  PROVE  StopParts'
  <1>1. StopStages' /\ ClosedBehindItsFeeders' /\ RebuildsPrecedeStop'
    BY DEF StopInv, VencConverts, VencReturnsSlot, StopStages, SlotInv, StopParts, captureVars,
       vencVars, muxVars, fates, ClosedBehindItsFeeders, InEncoder, RebuildsPrecedeStop
  <1>2. EndedThreads'
    <2>1. venc'.at # "ended"
      BY AfterTheConversion DEF StopInv, SlotInv, Types
    <2> QED BY <2>1 DEF StopInv, StopParts, EndedThreads, VencConverts, muxVars
  <1> QED BY <1>1, <1>2 DEF StopInv, StopParts

LEMMA VencEncodesStops ==
  ASSUME StopInv, VencEncodes
  PROVE  StopParts'
  <1>1. EndedThreads' /\ StopStages' /\ ClosedBehindItsFeeders' /\ RebuildsPrecedeStop'
    BY DEF StopInv, VencEncodes, EndedThreads, SlotInv, StopParts, captureVars, vencVars,
       muxVars, fates, StopStages, ClosedBehindItsFeeders, InEncoder, RebuildsPrecedeStop
  <1> QED BY <1>1 DEF StopInv, StopParts

LEMMA VencDrainsStops ==
  ASSUME StopInv, VencDrains
  PROVE  StopParts'
  <1>1. EndedThreads'
    BY DrainsSomething, Bounds DEF StopInv, VencDrains, Fails, DrainOne, PushPacket, Drained,
       EndedThreads, SlotInv, StopParts, captureVars, vencVars, muxVars, fates, Types,
       VencTypeOK, FlagsTypeOK, StopTypeOK, MuxTypeOK, CaptureTypeOK
  <1>2. StopStages'
    BY DEF StopInv, VencDrains, Fails, DrainOne, PushPacket, Drained, StopStages, SlotInv, StopParts,
       captureVars, vencVars, muxVars, fates
  <1>3. ClosedBehindItsFeeders'
    BY DEF StopInv, VencDrains, Fails, DrainOne, PushPacket, Drained, ClosedBehindItsFeeders, SlotInv,
       StopParts, captureVars, vencVars, muxVars, fates, InEncoder
  <1>4. RebuildsPrecedeStop'
    BY DEF StopInv, VencDrains, Fails, DrainOne, PushPacket, Drained, RebuildsPrecedeStop, SlotInv,
       StopParts, captureVars, vencVars, muxVars, fates
  <1> QED BY <1>1, <1>2, <1>3, <1>4 DEF StopInv, StopParts

LEMMA VencThrowsStops ==
  ASSUME StopInv, VencThrows
  PROVE  StopParts'
  <1>1. StopStages' /\ ClosedBehindItsFeeders' /\ RebuildsPrecedeStop'
    BY DEF StopInv, VencThrows, StopStages, SlotInv, StopParts, captureVars, vencVars, muxVars,
       fates, ClosedBehindItsFeeders, InEncoder, RebuildsPrecedeStop
  <1>2. EndedThreads'
    <2>1. "venc" \in faults'
      BY DEF VencThrows, Fails
    <2> QED BY <2>1 DEF StopInv, StopParts, EndedThreads, VencThrows, Fails, muxVars
  <1> QED BY <1>1, <1>2 DEF StopInv, StopParts

LEMMA MuxPopsStops ==
  ASSUME StopInv, MuxPops
  PROVE  StopParts'
  <1>1. EndedThreads'
    BY DEF StopInv, MuxPops, EndedThreads, SlotInv, StopParts, captureVars, vencVars, muxVars,
       fates, Types, VencTypeOK, FlagsTypeOK, StopTypeOK, MuxTypeOK, CaptureTypeOK
  <1>2. StopStages'
    BY DEF StopInv, MuxPops, StopStages, SlotInv, StopParts, captureVars, vencVars, muxVars,
       fates
  <1>3. ClosedBehindItsFeeders'
    BY DEF StopInv, MuxPops, ClosedBehindItsFeeders, SlotInv, StopParts, captureVars, vencVars,
       muxVars, fates, InEncoder
  <1>4. RebuildsPrecedeStop'
    BY DEF StopInv, MuxPops, RebuildsPrecedeStop, SlotInv, StopParts, captureVars, vencVars,
       muxVars, fates
  <1> QED BY <1>1, <1>2, <1>3, <1>4 DEF StopInv, StopParts

LEMMA MuxRolledStops ==
  ASSUME StopInv, MuxRolled
  PROVE  StopParts'
  <1>1. EndedThreads' /\ StopStages' /\ ClosedBehindItsFeeders' /\ RebuildsPrecedeStop'
    BY DEF StopInv, MuxRolled, EndedThreads, SlotInv, StopParts, captureVars, vencVars,
       muxVars, fates, StopStages, ClosedBehindItsFeeders, InEncoder, RebuildsPrecedeStop
  <1> QED BY <1>1 DEF StopInv, StopParts

LEMMA MuxWritesStops ==
  ASSUME StopInv, MuxWrites
  PROVE  StopParts'
  <1>1. EndedThreads' /\ StopStages' /\ ClosedBehindItsFeeders' /\ RebuildsPrecedeStop'
    BY DEF StopInv, MuxWrites, Fails, EndedThreads, SlotInv, StopParts, captureVars, vencVars,
       muxVars, fates, StopStages, ClosedBehindItsFeeders, InEncoder, RebuildsPrecedeStop
  <1> QED BY <1>1 DEF StopInv, StopParts

LEMMA MuxThrowsStops ==
  ASSUME StopInv, MuxThrows
  PROVE  StopParts'
  <1>1. EndedThreads' /\ StopStages' /\ ClosedBehindItsFeeders' /\ RebuildsPrecedeStop'
    BY DEF StopInv, MuxThrows, Fails, EndedThreads, SlotInv, StopParts, captureVars, vencVars,
       StopStages, ClosedBehindItsFeeders, InEncoder, RebuildsPrecedeStop
  <1> QED BY <1>1 DEF StopInv, StopParts

LEMMA AencPushesStops ==
  ASSUME StopInv, AencPushes
  PROVE  StopParts'
  <1>1. EndedThreads' /\ StopStages' /\ ClosedBehindItsFeeders' /\ RebuildsPrecedeStop'
    BY DEF StopInv, AencPushes, PushPacket, EndedThreads, SlotInv, StopParts, captureVars,
       vencVars, muxVars, fates, StopStages, ClosedBehindItsFeeders, InEncoder,
       RebuildsPrecedeStop
  <1> QED BY <1>1 DEF StopInv, StopParts

LEMMA AencEndsStops ==
  ASSUME StopInv, AencEnds
  PROVE  StopParts'
  <1>1. EndedThreads' /\ StopStages' /\ ClosedBehindItsFeeders' /\ RebuildsPrecedeStop'
    BY DEF StopInv, AencEnds, EndedThreads, SlotInv, StopParts, captureVars, vencVars, muxVars,
       fates, StopStages, ClosedBehindItsFeeders, InEncoder, RebuildsPrecedeStop
  <1> QED BY <1>1 DEF StopInv, StopParts

LEMMA WatchdogEndsStops ==
  ASSUME StopInv, WatchdogEnds
  PROVE  StopParts'
  <1>1. EndedThreads' /\ StopStages' /\ ClosedBehindItsFeeders' /\ RebuildsPrecedeStop'
    BY DEF StopInv, WatchdogEnds, EndedThreads, SlotInv, StopParts, captureVars, vencVars,
       muxVars, fates, StopStages, ClosedBehindItsFeeders, InEncoder, RebuildsPrecedeStop
  <1> QED BY <1>1 DEF StopInv, StopParts

LEMMA RebuildClosesStops ==
  ASSUME StopInv, RebuildCloses
  PROVE  StopParts'
  <1>1. EndedThreads' /\ StopStages' /\ ClosedBehindItsFeeders' /\ RebuildsPrecedeStop'
    BY DEF StopInv, RebuildCloses, EndedThreads, SlotInv, StopParts, captureVars, vencVars,
       muxVars, fates, StopStages, ClosedBehindItsFeeders, InEncoder, RebuildsPrecedeStop
  <1> QED BY <1>1 DEF StopInv, StopParts

LEMMA RebuildJoinsStops ==
  ASSUME StopInv, RebuildJoins
  PROVE  StopParts'
  <1>1. EndedThreads'
    BY DEF StopInv, RebuildJoins, EndedThreads, SlotInv, StopParts, captureVars, vencVars,
       muxVars, fates
  <1>2. StopStages'
    BY DEF StopInv, RebuildJoins, StopStages, SlotInv, StopParts, captureVars, vencVars,
       muxVars, fates
  <1>3. ClosedBehindItsFeeders'
    BY DEF StopInv, RebuildJoins, ClosedBehindItsFeeders, SlotInv, StopParts, captureVars,
       vencVars, muxVars, fates, InEncoder
  <1>4. RebuildsPrecedeStop'
    BY DEF StopInv, RebuildJoins, RebuildsPrecedeStop, SlotInv, StopParts, captureVars,
       vencVars, muxVars, fates, Types, VencTypeOK, FlagsTypeOK, StopTypeOK, MuxTypeOK,
       CaptureTypeOK
  <1> QED BY <1>1, <1>2, <1>3, <1>4 DEF StopInv, StopParts

LEMMA RebuildFlushesStops ==
  ASSUME StopInv, RebuildFlushes
  PROVE  StopParts'
  <1>1. EndedThreads' /\ StopStages' /\ ClosedBehindItsFeeders' /\ RebuildsPrecedeStop'
    BY DEF StopInv, RebuildFlushes, FlushFails, Fails, DrainOne, PushPacket, Drained, EndedThreads, SlotInv,
       StopParts, captureVars, vencVars, muxVars, fates, StopStages, ClosedBehindItsFeeders,
       InEncoder, RebuildsPrecedeStop
  <1> QED BY <1>1 DEF StopInv, StopParts

LEMMA RebuildReopensStops ==
  ASSUME StopInv, RebuildReopens
  PROVE  StopParts'
  <1>1. EndedThreads'
    BY DEF StopInv, RebuildReopens, QueueDrained, EndedThreads, SlotInv, StopParts,
       captureVars, vencVars, muxVars, fates
  <1>2. StopStages'
    BY DEF StopInv, RebuildReopens, QueueDrained, EndedThreads, StopStages,
       ClosedBehindItsFeeders, RebuildsPrecedeStop, SlotInv, StopParts, captureVars, vencVars,
       muxVars, fates, Types, VencTypeOK, FlagsTypeOK, StopTypeOK, MuxTypeOK, CaptureTypeOK,
       InEncoder, NoFrame, Holding, Nothing, Elements
  <1>3. ClosedBehindItsFeeders'
    BY DEF StopInv, RebuildReopens, QueueDrained, EndedThreads, StopStages,
       ClosedBehindItsFeeders, RebuildsPrecedeStop, SlotInv, StopParts, captureVars, vencVars,
       muxVars, fates, Types, VencTypeOK, FlagsTypeOK, StopTypeOK, MuxTypeOK, CaptureTypeOK,
       InEncoder, NoFrame, Holding, Nothing, Elements
  <1>4. RebuildsPrecedeStop'
    BY DEF StopInv, RebuildReopens, QueueDrained, RebuildsPrecedeStop, SlotInv, StopParts,
       captureVars, vencVars, muxVars, fates, Types, VencTypeOK, FlagsTypeOK, StopTypeOK,
       MuxTypeOK, CaptureTypeOK
  <1> QED BY <1>1, <1>2, <1>3, <1>4 DEF StopInv, StopParts

LEMMA StopBeginsStops ==
  ASSUME StopInv, StopBegins
  PROVE  StopParts'
  <1>1. EndedThreads'
    BY DEF StopInv, StopBegins, EndedThreads, SlotInv, StopParts, captureVars, vencVars,
       muxVars, fates
  <1>2. StopStages'
    BY DEF StopInv, StopBegins, StopStages, SlotInv, StopParts, captureVars, vencVars, muxVars,
       fates
  <1>3. ClosedBehindItsFeeders'
    BY DEF StopInv, StopBegins, ClosedBehindItsFeeders, SlotInv, StopParts, captureVars,
       vencVars, muxVars, fates, InEncoder
  <1>4. RebuildsPrecedeStop'
    BY DEF StopInv, StopBegins, RebuildsPrecedeStop, SlotInv, StopParts, captureVars, vencVars,
       muxVars, fates, Types, VencTypeOK, FlagsTypeOK, StopTypeOK, MuxTypeOK, CaptureTypeOK
  <1> QED BY <1>1, <1>2, <1>3, <1>4 DEF StopInv, StopParts

LEMMA StopJoinsWatchdogStops ==
  ASSUME StopInv, StopJoinsWatchdog
  PROVE  StopParts'
  <1>1. EndedThreads' /\ StopStages' /\ ClosedBehindItsFeeders' /\ RebuildsPrecedeStop'
    BY DEF StopInv, StopJoinsWatchdog, EndedThreads, SlotInv, StopParts, captureVars, vencVars,
       muxVars, fates, StopStages, ClosedBehindItsFeeders, InEncoder, RebuildsPrecedeStop
  <1> QED BY <1>1 DEF StopInv, StopParts

LEMMA StopJoinsAudioStops ==
  ASSUME StopInv, StopJoinsAudio
  PROVE  StopParts'
  <1>1. EndedThreads' /\ StopStages' /\ ClosedBehindItsFeeders' /\ RebuildsPrecedeStop'
    BY DEF StopInv, StopJoinsAudio, AudioJoined, EndedThreads, SlotInv, StopParts, captureVars,
       vencVars, muxVars, fates, StopStages, ClosedBehindItsFeeders, InEncoder,
       RebuildsPrecedeStop
  <1> QED BY <1>1 DEF StopInv, StopParts

LEMMA StopFlushesAudioStops ==
  ASSUME StopInv, StopFlushesAudio
  PROVE  StopParts'
  <1>1. EndedThreads' /\ StopStages' /\ ClosedBehindItsFeeders' /\ RebuildsPrecedeStop'
    BY DEF StopInv, StopFlushesAudio, PushPacket, CloseEncodeQueue, EndedThreads, SlotInv,
       StopParts, captureVars, vencVars, muxVars, fates, StopStages, ClosedBehindItsFeeders,
       InEncoder, RebuildsPrecedeStop
  <1> QED BY <1>1 DEF StopInv, StopParts

LEMMA StopJoinsVencStops ==
  ASSUME StopInv, StopJoinsVenc
  PROVE  StopParts'
  <1>1. EndedThreads' /\ StopStages' /\ ClosedBehindItsFeeders' /\ RebuildsPrecedeStop'
    BY DEF StopInv, StopJoinsVenc, VencJoined, EndedThreads, SlotInv, StopParts, captureVars,
       vencVars, muxVars, fates, StopStages, ClosedBehindItsFeeders, InEncoder,
       RebuildsPrecedeStop
  <1> QED BY <1>1 DEF StopInv, StopParts

LEMMA StopFlushesStops ==
  ASSUME StopInv, StopFlushes
  PROVE  StopParts'
  <1>1. EndedThreads'
    BY DEF StopInv, StopFlushes, FlushFails, Fails, DrainOne, PushPacket, Drained, EndedThreads, SlotInv,
       StopParts, captureVars, vencVars, muxVars, fates
  <1>2. StopStages'
    BY DEF StopInv, StopFlushes, FlushFails, Fails, DrainOne, PushPacket, Drained, StopStages, SlotInv, StopParts,
       captureVars, vencVars, muxVars, fates
  <1>3. ClosedBehindItsFeeders'
    BY DrainsSomething, DrainedIsEmpty, Bounds DEF StopInv, StopFlushes, FlushFails, Fails, DrainOne, PushPacket,
       Drained, EndedThreads, StopStages, ClosedBehindItsFeeders, RebuildsPrecedeStop, SlotInv,
       StopParts, captureVars, vencVars, muxVars, fates, Types, VencTypeOK, FlagsTypeOK,
       StopTypeOK, MuxTypeOK, CaptureTypeOK, InEncoder, NoFrame, Holding, Nothing, Elements
  <1>4. RebuildsPrecedeStop'
    BY DEF StopInv, StopFlushes, FlushFails, Fails, DrainOne, PushPacket, Drained, RebuildsPrecedeStop, SlotInv,
       StopParts, captureVars, vencVars, muxVars, fates
  <1> QED BY <1>1, <1>2, <1>3, <1>4 DEF StopInv, StopParts

LEMMA StopJoinsMuxStops ==
  ASSUME StopInv, StopJoinsMux
  PROVE  StopParts'
  <1>1. EndedThreads' /\ StopStages' /\ ClosedBehindItsFeeders' /\ RebuildsPrecedeStop'
    BY DEF StopInv, StopJoinsMux, EndedThreads, SlotInv, StopParts, captureVars, vencVars,
       muxVars, fates, StopStages, ClosedBehindItsFeeders, InEncoder, RebuildsPrecedeStop
  <1> QED BY <1>1 DEF StopInv, StopParts

LEMMA StopFinalizesStops ==
  ASSUME StopInv, StopFinalizes
  PROVE  StopParts'
  <1>1. EndedThreads' /\ StopStages' /\ ClosedBehindItsFeeders' /\ RebuildsPrecedeStop'
    BY DEF StopInv, StopFinalizes, Fails, EndedThreads, SlotInv, StopParts, captureVars, vencVars,
       muxVars, fates, StopStages, ClosedBehindItsFeeders, InEncoder, RebuildsPrecedeStop
  <1> QED BY <1>1 DEF StopInv, StopParts

LEMMA StutterStops ==
  ASSUME StopInv, UNCHANGED vars
  PROVE  StopParts'
  <1>1. EndedThreads' /\ StopStages' /\ ClosedBehindItsFeeders' /\ RebuildsPrecedeStop'
    BY DEF StopInv, vars, EndedThreads, SlotInv, StopParts, captureVars, vencVars, muxVars,
       fates, StopStages, ClosedBehindItsFeeders, InEncoder, RebuildsPrecedeStop
  <1> QED BY <1>1 DEF StopInv, StopParts

LEMMA StopInit == Init => StopParts
  <1> SUFFICES ASSUME Init PROVE StopParts
    OBVIOUS
  <1>1. InEncoder = {}
    BY DEF Init, InEncoder, Elements
  <1> QED BY <1>1 DEF Init, StopParts, EndedThreads, StopStages, ClosedBehindItsFeeders,
                      RebuildsPrecedeStop

LEMMA StopStep ==
  ASSUME StopInv, [Next]_vars
  PROVE  StopInv'
  <1> SUFFICES StopParts'
    BY SlotStep DEF StopInv
  <1>1. CASE Submit \/ AudioCompletesEpoch
    BY <1>1, SubmitEntersStops, SubmitAcquiresStops, SubmitPushesStops, AudioCompletesEpochStops
    DEF Submit
  <1>2. CASE Venc \/ VencThrows
    BY <1>2, VencPopsStops, VencConvertsStops, VencEncodesStops, VencDrainsStops, VencThrowsStops
    DEF Venc
  <1>3. CASE Mux \/ MuxThrows
    BY <1>3, MuxPopsStops, MuxRolledStops, MuxWritesStops, MuxThrowsStops DEF Mux
  <1>4. CASE AencPushes \/ AencEnds \/ WatchdogEnds
    BY <1>4, AencPushesStops, AencEndsStops, WatchdogEndsStops
  <1>5. CASE Rebuild
    BY <1>5, RebuildClosesStops, RebuildJoinsStops, RebuildFlushesStops, RebuildReopensStops
    DEF Rebuild
  <1>6. CASE StopBegins \/ StopProceeds
    BY <1>6, StopBeginsStops, StopJoinsWatchdogStops, StopJoinsAudioStops, StopFlushesAudioStops,
       StopJoinsVencStops, StopFlushesStops, StopJoinsMuxStops, StopFinalizesStops
    DEF StopProceeds
  <1>7. CASE UNCHANGED vars
    BY <1>7, StutterStops
  <1> QED BY <1>1, <1>2, <1>3, <1>4, <1>5, <1>6, <1>7 DEF Next

LEMMA StopInvHolds ==
  ASSUME "venc" \notin MayTimeOut
  PROVE  Spec => []StopInv
  <1>1. Init => StopInv
    BY SlotInit, StopInit DEF StopInv
  <1> QED BY <1>1, StopStep, PTL DEF Spec

(* The trailer is written behind everything that was accepted, whichever   *)
(* of the other joins expire -- the capture thread's, the watchdog's, the  *)
(* audio thread's, the mux thread's -- and whatever rebuilds and rollovers *)
(* came before.  Without the hypothesis it is false: a venc thread that    *)
(* was detached is not waited for.                                         *)
THEOREM TrailerIsLast ==
  ASSUME "venc" \notin MayTimeOut
  PROVE  Spec => []TrailerComesLast
  <1>1. StopInv => TrailerComesLast
    <2> SUFFICES ASSUME StopInv, trailer
                 PROVE  /\ venc.at = "ended" /\ InEncoder = {} /\ aenc = "ended" /\ mux.packet = Nothing
                        /\ queue = <<>> \/ "venc" \in faults
                        /\ muxQueue = <<>> \/ "mux" \in faults
      BY DEF TrailerComesLast
    <2>1. owner = "done" /\ venc.at = "ended" /\ aenc = "ended" /\ mux.at = "ended" /\ ~muxOpen
      BY DEF StopInv, StopParts, StopStages, ClosedBehindItsFeeders
    <2> QED BY <2>1 DEF StopInv, StopParts, EndedThreads, ClosedBehindItsFeeders
  <1> QED BY <1>1, StopInvHolds, PTL

(* The mux queue is closed only behind its feeders: neither a packet the   *)
(* encoder held back nor the end of the audio track is turned away.        *)
THEOREM NoPacketIsTurnedAway ==
  ASSUME "venc" \notin MayTimeOut
  PROVE  Spec => []NoPacketIsRefused
  <1>1. StopInv => NoPacketIsRefused
    BY DEF StopInv, StopParts, ClosedBehindItsFeeders, NoPacketIsRefused
  <1> QED BY <1>1, StopInvHolds, PTL

-----------------------------------------------------------------------------
(* The places of a frame.  A step moves one frame from one place to        *)
(* another; that it leaves nothing behind in the first needs the entries   *)
(* of each queue to be of different frames.                                *)

Distinct(q) == \A i, j \in DOMAIN q : i # j => q[i].n # q[j].n
FramesOf(q) == {q[i].n : i \in DOMAIN q}
VideoDistinct(s) ==
    \A i, j \in DOMAIN s : i # j /\ s[i].track = "video" /\ s[j].track = "video" => s[i].n # s[j].n

EntriesDiffer ==
    /\ Distinct(queue)
    /\ \A i, j \in DOMAIN encoder : i # j => encoder[i] # encoder[j]
    /\ VideoDistinct(muxQueue)

InHand ==
    /\ venc.at \in {"convert", "encode"} => venc.frame.n # 0
    /\ mux.at \in {"pop", "ended"} => mux.packet = Nothing
    /\ capture.at = "open" => encoder = NoEncoder

PlaceParts == EntriesDiffer /\ InHand /\ OnePlaceEach

PlaceInv == SlotInv /\ PlaceParts

Refused == FramesIn(refused)
Copying == IF capture.at \in {"admitted", "copied"} THEN {submitted} ELSE {}
Queued == FramesOf(queue)
AtVenc == {venc.frame.n} \ {0}
OnMuxQueue == FramesIn(Elements(muxQueue))
AtMux == FramesIn({mux.packet})
InFile == FramesIn(Elements(file))

OnePlace(P, n) ==
    /\ UNION {P[k] : k \in 1 .. 12} = 1 .. n
    /\ \A i, j \in 1 .. 12 : i # j => P[i] \cap P[j] = {}

LEMMA PlaceNames ==
  /\ Places = <<awaiting, dropped, discarded, lost, Refused, Copying, Queued, AtVenc, InEncoder,
                OnMuxQueue, AtMux, InFile>>
  /\ DOMAIN Places = 1 .. 12
  BY DEF Places, Refused, Copying, Queued, FramesOf, AtVenc, OnMuxQueue, AtMux, InFile

LEMMA PlaceNamesNext ==
  /\ Places' = <<awaiting', dropped', discarded', lost', Refused', Copying', Queued', AtVenc',
                 InEncoder', OnMuxQueue', AtMux', InFile'>>
  /\ DOMAIN Places' = 1 .. 12
  BY DEF Places, Refused, Copying, Queued, FramesOf, AtVenc, OnMuxQueue, AtMux, InFile

LEMMA Apart ==
  ASSUME NEW P, DOMAIN P = 1 .. 12
  PROVE  (\A i \in DOMAIN P, j \in DOMAIN P : i < j => P[i] \cap P[j] = {})
         <=> (\A i, j \in 1 .. 12 : i # j => P[i] \cap P[j] = {})
  <1>1. ASSUME \A i \in DOMAIN P, j \in DOMAIN P : i < j => P[i] \cap P[j] = {},
               NEW i \in 1 .. 12, NEW j \in 1 .. 12, i # j
        PROVE  P[i] \cap P[j] = {}
    <2>1. i < j \/ j < i
      BY <1>1
    <2> QED BY <1>1, <2>1
  <1> QED BY <1>1

LEMMA PlacesFrom ==
  /\ OnePlaceEach <=> OnePlace(Places, submitted)
  /\ OnePlaceEach' <=> OnePlace(Places', submitted')
  BY PlaceNames, PlaceNamesNext, Apart DEF OnePlaceEach, OnePlace, Elements

(* One frame moves, whatever the places are.                               *)
Moved(P, Q, i, j, f) ==
    /\ f \in P[i] /\ Q[i] = P[i] \ {f} /\ Q[j] = P[j] \cup {f}
    /\ \A k \in 1 .. 12 : k # i /\ k # j => Q[k] = P[k]

LEMMA Shift ==
  ASSUME NEW P, NEW Q, NEW n \in Nat, OnePlace(P, n),
         NEW i \in 1 .. 12, NEW j \in 1 .. 12, i # j, NEW f, Moved(P, Q, i, j, f)
  PROVE  OnePlace(Q, n)
  <1> USE DEF Moved
  <1>1. UNION {Q[k] : k \in 1 .. 12} = UNION {P[k] : k \in 1 .. 12}
    <2>1. ASSUME NEW x \in UNION {Q[k] : k \in 1 .. 12} PROVE x \in UNION {P[k] : k \in 1 .. 12}
      <3>1. PICK k \in 1 .. 12 : x \in Q[k]
        OBVIOUS
      <3>2. x \in P[k] \/ x = f
        BY <3>1
      <3> QED BY <3>2
    <2>2. ASSUME NEW x \in UNION {P[k] : k \in 1 .. 12} PROVE x \in UNION {Q[k] : k \in 1 .. 12}
      <3>1. PICK k \in 1 .. 12 : x \in P[k]
        OBVIOUS
      <3>2. x \in Q[k] \/ x \in Q[j]
        BY <3>1
      <3> QED BY <3>2
    <2> QED BY <2>1, <2>2
  <1>2. ASSUME NEW a \in 1 .. 12, NEW b \in 1 .. 12, a # b PROVE Q[a] \cap Q[b] = {}
    BY <1>2 DEF OnePlace
  <1> QED BY <1>1, <1>2 DEF OnePlace

(* All the frames of one place move.                                       *)
AllMoved(P, Q, i, j) ==
    /\ Q[i] = {} /\ Q[j] = P[j] \cup P[i]
    /\ \A k \in 1 .. 12 : k # i /\ k # j => Q[k] = P[k]

LEMMA ShiftAll ==
  ASSUME NEW P, NEW Q, NEW n \in Nat, OnePlace(P, n),
         NEW i \in 1 .. 12, NEW j \in 1 .. 12, i # j, AllMoved(P, Q, i, j)
  PROVE  OnePlace(Q, n)
  <1> USE DEF AllMoved
  <1>1. UNION {Q[k] : k \in 1 .. 12} = UNION {P[k] : k \in 1 .. 12}
    <2>1. ASSUME NEW x \in UNION {Q[k] : k \in 1 .. 12} PROVE x \in UNION {P[k] : k \in 1 .. 12}
      <3>1. PICK k \in 1 .. 12 : x \in Q[k]
        OBVIOUS
      <3>2. x \in P[k] \/ x \in P[i]
        BY <3>1
      <3> QED BY <3>2
    <2>2. ASSUME NEW x \in UNION {P[k] : k \in 1 .. 12} PROVE x \in UNION {Q[k] : k \in 1 .. 12}
      <3>1. PICK k \in 1 .. 12 : x \in P[k]
        OBVIOUS
      <3>2. x \in Q[k] \/ x \in Q[j]
        BY <3>1
      <3> QED BY <3>2
    <2> QED BY <2>1, <2>2
  <1>2. ASSUME NEW a \in 1 .. 12, NEW b \in 1 .. 12, a # b PROVE Q[a] \cap Q[b] = {}
    BY <1>2 DEF OnePlace
  <1> QED BY <1>1, <1>2 DEF OnePlace

(* The four things a step does to the places.                              *)
LEMMA AllFramesMove ==
  ASSUME PlaceInv, submitted' = submitted,
         NEW i \in 1 .. 12, NEW j \in 1 .. 12, i # j, AllMoved(Places, Places', i, j)
  PROVE  OnePlaceEach'
  <1>1. submitted \in Nat /\ OnePlace(Places, submitted)
    BY PlacesFrom DEF PlaceInv, PlaceParts, SlotInv, Types, CountsTypeOK
  <1>2. OnePlace(Places', submitted)
    BY <1>1, ShiftAll
  <1> QED BY <1>2, PlacesFrom

LEMMA AFrameMoves ==
  ASSUME PlaceInv, submitted' = submitted,
         NEW i \in 1 .. 12, NEW j \in 1 .. 12, i # j, NEW f, Moved(Places, Places', i, j, f)
  PROVE  OnePlaceEach'
  <1>1. submitted \in Nat /\ OnePlace(Places, submitted)
    BY PlacesFrom DEF PlaceInv, PlaceParts, SlotInv, Types, CountsTypeOK
  <1>2. OnePlace(Places', submitted)
    BY <1>1, Shift
  <1> QED BY <1>2, PlacesFrom

LEMMA NoFrameMoves ==
  ASSUME OnePlaceEach, submitted' = submitted,
         UNCHANGED <<awaiting, dropped, discarded, lost, Refused, Copying, Queued, AtVenc,
                     InEncoder, OnMuxQueue, AtMux, InFile>>
  PROVE  OnePlaceEach'
  <1>1. Places' = Places
    BY PlaceNames, PlaceNamesNext
  <1> QED BY <1>1, PlacesFrom

LEMMA AFrameEnters ==
  ASSUME PlaceInv, submitted' = submitted + 1, NEW j \in 1 .. 12,
         Places'[j] = Places[j] \cup {submitted'},
         \A k \in 1 .. 12 : k # j => Places'[k] = Places[k]
  PROVE  OnePlaceEach'
  <1>1. submitted \in Nat /\ OnePlace(Places, submitted)
    BY PlacesFrom DEF PlaceInv, PlaceParts, SlotInv, Types, CountsTypeOK
  <1>2. submitted' \in Nat /\ 1 .. submitted' = (1 .. submitted) \cup {submitted'}
        /\ submitted' \notin 1 .. submitted
    BY <1>1
  <1>3. UNION {Places'[k] : k \in 1 .. 12} = 1 .. submitted'
    <2> DEFINE P == Places
               Q == Places'
               m == submitted'
    <2>1. /\ UNION {P[k] : k \in 1 .. 12} = 1 .. submitted /\ Q[j] = P[j] \cup {m}
          /\ \A k \in 1 .. 12 : k # j => Q[k] = P[k]
      BY <1>1 DEF OnePlace
    <2> HIDE DEF P, Q, m
    <2>2. UNION {Q[k] : k \in 1 .. 12} = (UNION {P[k] : k \in 1 .. 12}) \cup {m}
      <3>1. ASSUME NEW x \in UNION {Q[k] : k \in 1 .. 12}
            PROVE x \in UNION {P[k] : k \in 1 .. 12} \/ x = m
        <4>1. PICK k \in 1 .. 12 : x \in Q[k]
          OBVIOUS
        <4> QED BY <2>1, <4>1
      <3>2. ASSUME NEW x \in UNION {P[k] : k \in 1 .. 12}
            PROVE x \in UNION {Q[k] : k \in 1 .. 12}
        <4>1. PICK k \in 1 .. 12 : x \in P[k]
          OBVIOUS
        <4>2. x \in Q[k]
          BY <2>1, <4>1
        <4> QED BY <4>2
      <3>3. m \in Q[j]
        BY <2>1
      <3> QED BY <3>1, <3>2, <3>3
    <2> QED BY <1>2, <2>1, <2>2 DEF Q, m
  <1>4. ASSUME NEW a \in 1 .. 12, NEW b \in 1 .. 12, a # b
        PROVE  Places'[a] \cap Places'[b] = {}
    <2>1. submitted' \notin Places[a] /\ submitted' \notin Places[b]
      BY <1>1, <1>2, <1>4 DEF OnePlace
    <2> QED BY <1>1, <1>4, <2>1 DEF OnePlace
  <1> QED BY <1>3, <1>4, PlacesFrom DEF OnePlace

(* Frames have the numbers of submissions, and a frame at one place is not *)
(* at another.                                                             *)
LEMMA WhereFramesAre ==
  ASSUME PlaceInv
  PROVE  /\ submitted \in Nat /\ 0 \notin 1 .. submitted
         /\ \A i \in 1 .. 12 : Places[i] \subseteq 1 .. submitted
         /\ \A i, j \in 1 .. 12 : i # j => Places[i] \cap Places[j] = {}
  BY PlacesFrom DEF PlaceInv, PlaceParts, OnePlace, SlotInv, Types, CountsTypeOK

LEMMA FramesArePositive ==
  ASSUME PlaceInv
  PROVE  /\ 0 \notin Queued \cup AtVenc \cup InEncoder \cup OnMuxQueue \cup AtMux
         /\ Copying \cap Queued = {} /\ InEncoder \cap OnMuxQueue = {} /\ AtVenc \cap InEncoder = {}
  BY WhereFramesAre, PlaceNames

(* Taking from a queue, and putting to it.                                 *)
LEMMA Taken ==
  ASSUME NEW q \in Seq(Item), q # <<>>, Distinct(q)
  PROVE  /\ Head(q).n \in FramesOf(q) /\ FramesOf(Tail(q)) = FramesOf(q) \ {Head(q).n}
         /\ Distinct(Tail(q))
  <1>1. /\ DOMAIN q = 1 .. Len(q) /\ 1 \in DOMAIN q /\ Head(q) = q[1]
        /\ DOMAIN Tail(q) = 1 .. Len(q) - 1 /\ Len(q) \in Nat
        /\ \A i \in DOMAIN Tail(q) : i + 1 \in DOMAIN q /\ Tail(q)[i] = q[i + 1]
    BY TailAt
  <1> DEFINE t == Tail(q)
  <1>2. \A i \in DOMAIN t : i \in Nat /\ i + 1 \in DOMAIN q /\ i + 1 # 1 /\ t[i] = q[i + 1]
    BY <1>1
  <1>3. \A i \in DOMAIN q : i # 1 => i - 1 \in DOMAIN t /\ q[i] = t[i - 1]
    BY <1>1
  <1> HIDE DEF t
  <1>4. Distinct(t)
    BY <1>2 DEF Distinct
  <1>5. FramesOf(t) \subseteq FramesOf(q) /\ q[1].n \notin FramesOf(t) /\ q[1].n \in FramesOf(q)
    BY <1>1, <1>2 DEF FramesOf, Distinct
  <1>6. ASSUME NEW i \in DOMAIN q, q[i].n # q[1].n PROVE q[i].n \in FramesOf(t)
    BY <1>3, <1>6 DEF FramesOf
  <1>7. FramesOf(q) \subseteq FramesOf(t) \cup {q[1].n}
    BY <1>6 DEF FramesOf
  <1> QED BY <1>1, <1>4, <1>5, <1>7 DEF t

LEMMA Put ==
  ASSUME NEW q \in Seq(Item), Distinct(q), NEW e \in Item, e.n \notin FramesOf(q)
  PROVE  FramesOf(Append(q, e)) = FramesOf(q) \cup {e.n} /\ Distinct(Append(q, e))
  <1> DEFINE p == Append(q, e)
  <1>1. /\ DOMAIN q = 1 .. Len(q) /\ DOMAIN p = 1 .. Len(q) + 1 /\ Len(q) \in Nat
        /\ \A i \in DOMAIN p : IF i \in DOMAIN q THEN p[i] = q[i] ELSE i = Len(q) + 1 /\ p[i] = e
    BY AppendAt
  <1>2. Len(q) + 1 \in DOMAIN p /\ Len(q) + 1 \notin DOMAIN q /\ DOMAIN q \subseteq DOMAIN p
    BY <1>1
  <1> HIDE DEF p
  <1>3. Distinct(p)
    BY <1>1 DEF Distinct, FramesOf
  <1>4. FramesOf(p) = FramesOf(q) \cup {e.n}
    BY <1>1, <1>2 DEF FramesOf
  <1> QED BY <1>3, <1>4 DEF p

LEMMA FramesInOne ==
  ASSUME NEW p, NEW x
  PROVE  x \in FramesIn({p}) <=> p.track = "video" /\ x = p.n
  BY DEF FramesIn

LEMMA FramesInSeq ==
  ASSUME NEW s, NEW x
  PROVE  x \in FramesIn(Elements(s)) <=> \E i \in DOMAIN s : s[i].track = "video" /\ x = s[i].n
  BY DEF FramesIn, Elements

LEMMA PacketTaken ==
  ASSUME NEW s \in Seq(Packet), s # <<>>, VideoDistinct(s)
  PROVE  /\ VideoDistinct(Tail(s)) /\ Head(s) \in Packet
         /\ FramesIn({Head(s)}) \subseteq FramesIn(Elements(s))
         /\ FramesIn(Elements(Tail(s))) = FramesIn(Elements(s)) \ FramesIn({Head(s)})
  <1>1. /\ DOMAIN s = 1 .. Len(s) /\ 1 \in DOMAIN s /\ Head(s) = s[1] /\ Head(s) \in Packet
        /\ DOMAIN Tail(s) = 1 .. Len(s) - 1 /\ Len(s) \in Nat
        /\ \A i \in DOMAIN Tail(s) : i + 1 \in DOMAIN s /\ Tail(s)[i] = s[i + 1]
    BY TailAt
  <1> DEFINE t == Tail(s)
  <1>2. \A i \in DOMAIN t : i \in Nat /\ i + 1 \in DOMAIN s /\ i + 1 # 1 /\ t[i] = s[i + 1]
    BY <1>1
  <1>3. \A i \in DOMAIN s : i # 1 => i - 1 \in DOMAIN t /\ s[i] = t[i - 1]
    BY <1>1
  <1> HIDE DEF t
  <1>4. VideoDistinct(t)
    BY <1>2 DEF VideoDistinct
  <1>5. \A x : x \in FramesIn(Elements(t)) <=> \E i \in DOMAIN t : t[i].track = "video" /\ x = t[i].n
    BY FramesInSeq
  <1>6. \A x : x \in FramesIn(Elements(s)) <=> \E i \in DOMAIN s : s[i].track = "video" /\ x = s[i].n
    BY FramesInSeq
  <1>7. \A x : x \in FramesIn({s[1]}) <=> s[1].track = "video" /\ x = s[1].n
    BY FramesInOne
  <1>8. FramesIn({s[1]}) \subseteq FramesIn(Elements(s))
    BY <1>1, <1>6, <1>7
  <1>9. ASSUME NEW x \in FramesIn(Elements(t))
        PROVE  x \in FramesIn(Elements(s)) /\ x \notin FramesIn({s[1]})
    <2>1. PICK i \in DOMAIN t : t[i].track = "video" /\ x = t[i].n
      BY <1>5
    <2>2. i + 1 \in DOMAIN s /\ i + 1 # 1 /\ s[i + 1].track = "video" /\ x = s[i + 1].n
      BY <1>2, <2>1
    <2>3. s[1].track = "video" => s[1].n # x
      BY <1>1, <2>2 DEF VideoDistinct
    <2> QED BY <1>6, <1>7, <2>2, <2>3
  <1>10. ASSUME NEW x \in FramesIn(Elements(s)), x \notin FramesIn({s[1]})
         PROVE  x \in FramesIn(Elements(t))
    <2>1. PICK i \in DOMAIN s : s[i].track = "video" /\ x = s[i].n
      BY <1>6
    <2>2. i # 1
      BY <1>7, <1>10, <2>1
    <2> QED BY <1>3, <1>5, <2>1, <2>2
  <1> QED BY <1>1, <1>4, <1>8, <1>9, <1>10 DEF t

LEMMA PacketPut ==
  ASSUME NEW s \in Seq(Packet), NEW p \in Packet
  PROVE  /\ FramesIn(Elements(Append(s, p))) = FramesIn(Elements(s)) \cup FramesIn({p})
         /\ VideoDistinct(s) /\ FramesIn({p}) \cap FramesIn(Elements(s)) = {}
               => VideoDistinct(Append(s, p))
  <1> DEFINE a == Append(s, p)
  <1>1. /\ DOMAIN s = 1 .. Len(s) /\ DOMAIN a = 1 .. Len(s) + 1 /\ Len(s) \in Nat
        /\ \A i \in DOMAIN a : IF i \in DOMAIN s THEN a[i] = s[i] ELSE i = Len(s) + 1 /\ a[i] = p
    BY AppendAt
  <1>2. Len(s) + 1 \in DOMAIN a /\ Len(s) + 1 \notin DOMAIN s /\ DOMAIN s \subseteq DOMAIN a
    BY <1>1
  <1> HIDE DEF a
  <1>3. \A x : x \in FramesIn(Elements(a)) <=> \E i \in DOMAIN a : a[i].track = "video" /\ x = a[i].n
    BY FramesInSeq
  <1>4. \A x : x \in FramesIn(Elements(s)) <=> \E i \in DOMAIN s : s[i].track = "video" /\ x = s[i].n
    BY FramesInSeq
  <1>5. \A x : x \in FramesIn({p}) <=> p.track = "video" /\ x = p.n
    BY FramesInOne
  <1>6. ASSUME NEW x \in FramesIn(Elements(a))
        PROVE  x \in FramesIn(Elements(s)) \cup FramesIn({p})
    <2>1. PICK i \in DOMAIN a : a[i].track = "video" /\ x = a[i].n
      BY <1>3
    <2>2. CASE i \in DOMAIN s
      BY <1>1, <1>4, <2>1, <2>2
    <2>3. CASE i \notin DOMAIN s
      BY <1>1, <1>5, <2>1, <2>3
    <2> QED BY <2>2, <2>3
  <1>7. ASSUME NEW x \in FramesIn(Elements(s)) \cup FramesIn({p})
        PROVE  x \in FramesIn(Elements(a))
    <2>1. CASE x \in FramesIn(Elements(s))
      <3>1. PICK i \in DOMAIN s : s[i].track = "video" /\ x = s[i].n
        BY <1>4, <2>1
      <3>2. i \in DOMAIN a /\ a[i] = s[i]
        BY <1>1, <1>2
      <3> QED BY <1>3, <3>1, <3>2
    <2>2. CASE x \in FramesIn({p})
      BY <1>1, <1>2, <1>3, <1>5, <2>2
    <2> QED BY <2>1, <2>2
  <1>8. VideoDistinct(s) /\ FramesIn({p}) \cap FramesIn(Elements(s)) = {} => VideoDistinct(a)
    <2> SUFFICES ASSUME VideoDistinct(s), FramesIn({p}) \cap FramesIn(Elements(s)) = {},
                        NEW i \in DOMAIN a, NEW j \in DOMAIN a, i # j,
                        a[i].track = "video", a[j].track = "video"
                 PROVE  a[i].n # a[j].n
      BY DEF VideoDistinct
    <2>1. CASE i \in DOMAIN s /\ j \in DOMAIN s
      BY <1>1, <2>1 DEF VideoDistinct
    <2>2. CASE i \in DOMAIN s /\ j \notin DOMAIN s
      <3>1. a[i] = s[i] /\ a[j] = p
        BY <1>1, <2>2
      <3>2. s[i].track = "video" /\ p.track = "video"
        BY <3>1
      <3>3. s[i].n \in FramesIn(Elements(s))
        BY <1>4, <2>2, <3>2
      <3>4. p.n \in FramesIn({p})
        BY <1>5, <3>2
      <3> QED BY <3>1, <3>3, <3>4
    <2>3. CASE i \notin DOMAIN s /\ j \in DOMAIN s
      <3>1. a[j] = s[j] /\ a[i] = p
        BY <1>1, <2>3
      <3>2. s[j].track = "video" /\ p.track = "video"
        BY <3>1
      <3>3. s[j].n \in FramesIn(Elements(s))
        BY <1>4, <2>3, <3>2
      <3>4. p.n \in FramesIn({p})
        BY <1>5, <3>2
      <3> QED BY <3>1, <3>3, <3>4
    <2>4. CASE i \notin DOMAIN s /\ j \notin DOMAIN s
      BY <1>1, <2>4
    <2> QED BY <2>1, <2>2, <2>3, <2>4
  <1> QED BY <1>6, <1>7, <1>8 DEF a

LEMMA FramesOfPackets ==
  ASSUME NEW n \in Nat
  PROVE  FramesIn({Video(n)}) = {n} /\ FramesIn({Audio(n)}) = {} /\ FramesIn({Nothing}) = {}
  <1>1. /\ Video(n).track = "video" /\ Video(n).n = n
        /\ Audio(n).track # "video" /\ Nothing.track # "video"
    BY DEF Video, Audio, Nothing
  <1> QED BY <1>1, FramesInOne

(* What a push on the mux queue does to the places.                        *)
LEMMA APacketIsPushed ==
  ASSUME PlaceInv, NEW p \in Packet, PushPacket(p), FramesIn({p}) \cap OnMuxQueue = {}
  PROVE  /\ VideoDistinct(muxQueue')
         /\ \/ OnMuxQueue' = OnMuxQueue \cup FramesIn({p}) /\ Refused' = Refused
            \/ OnMuxQueue' = OnMuxQueue /\ Refused' = Refused \cup FramesIn({p})
  <1>1. muxQueue \in Seq(Packet) /\ VideoDistinct(muxQueue)
    BY DEF PlaceInv, PlaceParts, EntriesDiffer, SlotInv, Types, MuxTypeOK
  <1>2. CASE muxQueue' = Append(muxQueue, p) /\ refused' = refused
    BY <1>1, <1>2, PacketPut DEF OnMuxQueue, Refused
  <1>3. CASE muxQueue' = muxQueue /\ refused' = refused \cup {p}
    <2>1. Refused' = Refused \cup FramesIn({p})
      BY <1>3 DEF Refused, FramesIn
    <2> QED BY <1>1, <1>3, <2>1 DEF OnMuxQueue
  <1> QED BY <1>2, <1>3 DEF PushPacket

LEMMA AnAudioPacketIsPushed ==
  ASSUME PlaceInv, NEW n \in Nat, PushPacket(Audio(n))
  PROVE  VideoDistinct(muxQueue') /\ OnMuxQueue' = OnMuxQueue /\ Refused' = Refused
  <1>1. Audio(n) \in Packet /\ FramesIn({Audio(n)}) = {}
    BY PacketsAndFrames, FramesOfPackets
  <1> QED BY <1>1, APacketIsPushed

LEMMA AFrameIsDrained ==
  ASSUME PlaceInv, NEW kept \in Nat, DrainOne(kept)
  PROVE  /\ VideoDistinct(muxQueue')
         /\ \A i, j \in DOMAIN encoder' : i # j => encoder'[i] # encoder'[j]
         /\ \E f \in InEncoder :
               /\ InEncoder' = InEncoder \ {f}
               /\ \/ OnMuxQueue' = OnMuxQueue \cup {f} /\ Refused' = Refused
                  \/ OnMuxQueue' = OnMuxQueue /\ Refused' = Refused \cup {f}
  <1> DEFINE e == encoder
             t == Tail(e)
  <1>1. e \in Seq(Nat) /\ e # <<>> /\ e # NoEncoder /\ \A i, j \in DOMAIN e : i # j => e[i] # e[j]
    BY DrainKeepsTypes DEF PlaceInv, PlaceParts, EntriesDiffer, SlotInv, Types, VencTypeOK, DrainOne
  <1>2. PushPacket(Video(Head(e))) /\ encoder' = t
    BY DEF DrainOne
  <1>3. InEncoder = Elements(e)
    BY <1>1 DEF InEncoder
  <1> HIDE DEF e
  <1>4. /\ DOMAIN e = 1 .. Len(e) /\ 1 \in DOMAIN e /\ Head(e) = e[1] /\ Head(e) \in Nat
        /\ DOMAIN t = 1 .. Len(e) - 1 /\ Len(e) \in Nat
        /\ \A i \in DOMAIN t : i + 1 \in DOMAIN e /\ t[i] = e[i + 1]
    BY <1>1, TailAt
  <1>5. \A i \in DOMAIN t : i \in Nat /\ i + 1 \in DOMAIN e /\ i + 1 # 1 /\ t[i] = e[i + 1]
    BY <1>4
  <1>6. \A i \in DOMAIN e : i # 1 => i - 1 \in DOMAIN t /\ e[i] = t[i - 1]
    BY <1>4
  <1>7. Head(e) \in InEncoder
    BY <1>3, <1>4 DEF Elements
  <1> HIDE DEF t
  <1>8. \A i, j \in DOMAIN t : i # j => t[i] # t[j]
    BY <1>1, <1>5
  <1>9. Elements(t) = Elements(e) \ {e[1]}
    <2>1. Elements(t) \subseteq Elements(e) \ {e[1]}
      <3>1. ASSUME NEW i \in DOMAIN t PROVE t[i] \in Elements(e) \ {e[1]}
        <4>1. i + 1 \in DOMAIN e /\ i + 1 # 1 /\ t[i] = e[i + 1]
          BY <1>5
        <4>2. e[i + 1] # e[1]
          BY <1>1, <1>4, <4>1
        <4> QED BY <4>1, <4>2 DEF Elements
      <3> QED BY <3>1 DEF Elements
    <2>2. Elements(e) \ {e[1]} \subseteq Elements(t)
      BY <1>6 DEF Elements
    <2> QED BY <2>1, <2>2
  <1>10. t # NoEncoder
    <2>1. 0 \notin Elements(t)
      BY <1>3, <1>9, FramesArePositive
    <2>2. 1 \in DOMAIN NoEncoder /\ NoEncoder[1] = 0
      BY DEF NoEncoder
    <2> QED BY <2>1, <2>2 DEF Elements
  <1>11. InEncoder' = InEncoder \ {Head(e)}
    BY <1>2, <1>3, <1>4, <1>9, <1>10 DEF InEncoder
  <1>12. Video(Head(e)) \in Packet /\ FramesIn({Video(Head(e))}) = {Head(e)}
    BY <1>4, PacketsAndFrames, FramesOfPackets
  <1>13. Head(e) \notin OnMuxQueue
    BY <1>7, FramesArePositive
  <1>14. /\ VideoDistinct(muxQueue')
         /\ \/ OnMuxQueue' = OnMuxQueue \cup {Head(e)} /\ Refused' = Refused
            \/ OnMuxQueue' = OnMuxQueue /\ Refused' = Refused \cup {Head(e)}
    BY <1>2, <1>12, <1>13, APacketIsPushed
  <1> QED BY <1>2, <1>7, <1>8, <1>11, <1>14

LEMMA FlushIsNoDrain ==
  ASSUME PlaceInv, FlushFails
  PROVE  ~Drained(0)
  <1>1. InEncoder # {}
    BY DEF FlushFails
  <1> QED BY <1>1, DrainedIsEmpty DEF PlaceInv, SlotInv, Types

(* A flush that fails gives up what the encoder holds.                     *)
LEMMA TheEncoderIsGivenUp ==
  ASSUME PlaceInv, FlushFails, submitted' = submitted,
         UNCHANGED <<awaiting, dropped, discarded, Copying, Queued, AtVenc, AtMux, InFile>>
  PROVE  OnePlaceEach'
  <1>1. InEncoder' = {}
    BY DEF FlushFails, InEncoder, Elements, NoEncoder
  <1>2. lost' = lost \cup InEncoder /\ Refused' = Refused /\ OnMuxQueue' = OnMuxQueue
    BY DEF FlushFails, Refused, OnMuxQueue
  <1>3. AllMoved(Places, Places', 9, 4)
    BY <1>1, <1>2, PlaceNames, PlaceNamesNext DEF AllMoved
  <1> QED BY <1>3, AllFramesMove

LEMMA NoEncoderIsOneEntry ==
  \A i, j \in DOMAIN NoEncoder : i = j
  BY DEF NoEncoder

LEMMA AFrameIsEncoded ==
  ASSUME PlaceInv, venc.at = "encode", encoder # NoEncoder,
         encoder' = Append(encoder, venc.frame.n)
  PROVE  /\ \A i, j \in DOMAIN encoder' : i # j => encoder'[i] # encoder'[j]
         /\ venc.frame.n \in AtVenc /\ AtVenc = {venc.frame.n}
         /\ InEncoder' = InEncoder \cup {venc.frame.n}
  <1> DEFINE e == encoder
             n == venc.frame.n
             a == Append(e, n)
  <1>1. /\ e \in Seq(Nat) /\ \A i, j \in DOMAIN e : i # j => e[i] # e[j]
        /\ n \in Nat /\ n # 0
    BY DEF PlaceInv, PlaceParts, EntriesDiffer, InHand, SlotInv, Types, VencTypeOK, Item
  <1>2. AtVenc = {n}
    BY <1>1 DEF AtVenc
  <1>3. InEncoder = Elements(e) /\ n \notin Elements(e)
    BY <1>2, FramesArePositive DEF InEncoder
  <1>4. encoder' = a
    OBVIOUS
  <1> HIDE DEF e, n
  <1>5. /\ DOMAIN e = 1 .. Len(e) /\ DOMAIN a = 1 .. Len(e) + 1 /\ Len(e) \in Nat
        /\ \A i \in DOMAIN a : IF i \in DOMAIN e THEN a[i] = e[i] ELSE i = Len(e) + 1 /\ a[i] = n
    BY <1>1, AppendAt
  <1>6. Len(e) + 1 \in DOMAIN a /\ Len(e) + 1 \notin DOMAIN e /\ DOMAIN e \subseteq DOMAIN a
    BY <1>5
  <1> HIDE DEF a
  <1>7. \A i, j \in DOMAIN a : i # j => a[i] # a[j]
    BY <1>1, <1>3, <1>5 DEF Elements
  <1>8. Elements(a) = Elements(e) \cup {n}
    BY <1>5, <1>6 DEF Elements
  <1>9. a # NoEncoder
    <2>1. 0 \notin Elements(a)
      BY <1>1, <1>3, <1>8, FramesArePositive
    <2>2. 1 \in DOMAIN NoEncoder /\ NoEncoder[1] = 0
      BY DEF NoEncoder
    <2> QED BY <2>1, <2>2 DEF Elements
  <1>10. InEncoder' = Elements(a)
    BY <1>4, <1>9 DEF InEncoder
  <1> QED BY <1>2, <1>3, <1>4, <1>7, <1>8, <1>10 DEF n

(* The two pushes on the encode queue.                                     *)
LEMMA CopiedIsElsewhere ==
  ASSUME PlaceInv, capture.at = "copied"
  PROVE  /\ Copied \in Item /\ Copied.n = submitted /\ submitted \notin FramesOf(queue)
         /\ queue \in Seq(Item) /\ Distinct(queue) /\ Copying = {submitted}
  <1>1. Copied \in Item /\ Copied.n = submitted
    BY CopiedIsNew DEF PlaceInv, Copied
  <1>2. Copying = {submitted}
    BY DEF Copying
  <1> QED BY <1>1, <1>2, FramesArePositive
          DEF PlaceInv, PlaceParts, EntriesDiffer, SlotInv, Types, QueueTypeOK, Queued

LEMMA QueuesCopied ==
  ASSUME PlaceInv, capture.at = "copied", queue' = Append(queue, Copied)
  PROVE  Distinct(queue') /\ Queued' = Queued \cup {submitted}
  BY CopiedIsElsewhere, Put DEF Queued

LEMMA DisplacesForCopied ==
  ASSUME PlaceInv, SubmitPushes, PushOntoFullQueue
  PROVE  Distinct(queue') /\ OnePlaceEach'
  <1> DEFINE h == Head(queue).n
             n == submitted
             P == Places
             M == [P EXCEPT ![7] = @ \ {h}, ![2] = @ \cup {h}]
             Q == Places'
  <1>1. capture.at = "copied" /\ Copying' = {}
    BY DEF SubmitPushes, Copying
  <1>2. queue # <<>>
    BY Bounds DEF PushOntoFullQueue
  <1>3. /\ h \in Queued /\ FramesOf(Tail(queue)) = Queued \ {h} /\ Distinct(Tail(queue))
        /\ Tail(queue) \in Seq(Item)
    BY <1>1, <1>2, CopiedIsElsewhere, Taken, TailAt DEF Queued
  <1>4. Distinct(queue') /\ Queued' = (Queued \ {h}) \cup {n}
    BY <1>1, <1>3, CopiedIsElsewhere, Put DEF PushOntoFullQueue, Queued
  <1>5. /\ n \in Nat /\ submitted' = n /\ OnePlace(P, n) /\ DOMAIN P = 1 .. 12
        /\ P[2] = dropped /\ P[6] = {n} /\ P[7] = Queued
    BY <1>1, PlacesFrom, PlaceNames, CopiedIsElsewhere
    DEF PlaceInv, PlaceParts, SlotInv, Types, CountsTypeOK, SubmitPushes
  <1>6. UNCHANGED <<awaiting, discarded, lost, Refused, AtVenc, InEncoder, OnMuxQueue, AtMux, InFile>>
    BY DEF SubmitPushes, PushOntoFullQueue, vencVars, muxVars, Refused, AtVenc, InEncoder,
           OnMuxQueue, AtMux, InFile
  <1>7. dropped' = dropped \cup {h}
    BY DEF PushOntoFullQueue
  <1>8. /\ Q[2] = dropped \cup {h} /\ Q[6] = {} /\ Q[7] = (Queued \ {h}) \cup {n}
        /\ \A k \in 1 .. 12 : k \notin {2, 6, 7} => Q[k] = P[k]
    BY <1>1, <1>4, <1>6, <1>7, PlaceNames, PlaceNamesNext
  <1> HIDE DEF P, Q, n, h
  <1>9. Moved(P, M, 7, 2, h)
    <2>1. /\ M[7] = P[7] \ {h} /\ M[2] = P[2] \cup {h}
          /\ \A k \in 1 .. 12 : k # 7 /\ k # 2 => M[k] = P[k]
      BY <1>5
    <2> HIDE DEF M
    <2> QED BY <1>3, <1>5, <2>1 DEF Moved
  <1> HIDE DEF M
  <1>10. OnePlace(M, n)
    BY <1>3, <1>5, <1>9, Shift
  <1>11. Moved(M, Q, 6, 7, n)
    BY <1>5, <1>8, <1>9 DEF Moved
  <1>12. OnePlace(Q, n)
    BY <1>5, <1>10, <1>11, Shift
  <1> QED BY <1>4, <1>5, <1>12, PlacesFrom DEF Q

LEMMA SubmitEntersPlaces ==
  ASSUME PlaceInv, SubmitEnters
  PROVE  PlaceParts'
  <1>1. EntriesDiffer'
    BY DEF PlaceInv, SubmitEnters, EntriesDiffer, PlaceInv, PlaceParts, captureVars, vencVars,
       muxVars, fates
  <1>2. InHand'
    BY DEF PlaceInv, SubmitEnters, InHand, PlaceInv, PlaceParts, captureVars, vencVars,
       muxVars, fates, SlotInv, Types, VencTypeOK, MuxTypeOK, CaptureTypeOK
  <1>3. OnePlaceEach'
    <2>1. CASE ~epoch
      <3>1. awaiting' = awaiting \cup {submitted'}
        BY <2>1 DEF SubmitEnters
      <3>2. submitted' = submitted + 1 /\ UNCHANGED <<dropped, discarded, lost, Refused,
            Copying, Queued, AtVenc, InEncoder, OnMuxQueue, AtMux, InFile>>
        BY <2>1 DEF SubmitEnters, captureVars, vencVars, muxVars, fates, AtMux, AtVenc, Copying,
             FramesOf, InEncoder, InFile, OnMuxQueue, Queued, Refused
      <3>3. Places'[1] = Places[1] \cup {submitted'} /\ \A k \in 1 .. 12 : k # 1 => Places'[k] = Places[k]
        BY <3>1, <3>2, PlaceNames, PlaceNamesNext
      <3> QED BY <3>2, <3>3, AFrameEnters
    <2>2. CASE epoch
      <3>1. Copying' = Copying \cup {submitted'}
        BY <2>2 DEF SubmitEnters, Copying, PlaceInv, SlotInv, Types, CaptureTypeOK
      <3>2. submitted' = submitted + 1 /\ UNCHANGED <<awaiting, dropped, discarded, lost,
            Refused, Queued, AtVenc, InEncoder, OnMuxQueue, AtMux, InFile>>
        BY <2>2 DEF SubmitEnters, captureVars, vencVars, muxVars, fates, AtMux, AtVenc, FramesOf,
             InEncoder, InFile, OnMuxQueue, Queued, Refused
      <3>3. Places'[6] = Places[6] \cup {submitted'} /\ \A k \in 1 .. 12 : k # 6 => Places'[k] = Places[k]
        BY <3>1, <3>2, PlaceNames, PlaceNamesNext
      <3> QED BY <3>2, <3>3, AFrameEnters
    <2> QED BY <2>1, <2>2
  <1> QED BY <1>1, <1>2, <1>3 DEF PlaceInv, PlaceParts

LEMMA SubmitAcquiresPlaces ==
  ASSUME PlaceInv, SubmitAcquires
  PROVE  PlaceParts'
  <1>1. EntriesDiffer' /\ InHand'
    BY DEF PlaceInv, SubmitAcquires, EntriesDiffer, PlaceParts, captureVars, vencVars, muxVars,
       fates, InHand
  <1>2. OnePlaceEach'
    <2>1. CASE dropped' = dropped \cup {submitted} /\ capture' = [at |-> "idle", slot |-> NoSlot]
      <3>1. submitted \in Copying /\ Copying' = Copying \ {submitted} /\ dropped' = dropped \cup {submitted}
        BY <2>1 DEF SubmitAcquires, Copying
      <3>2. submitted' = submitted /\ UNCHANGED <<awaiting, discarded, lost, Refused,
            Queued, AtVenc, InEncoder, OnMuxQueue, AtMux, InFile>>
        BY DEF SubmitAcquires, captureVars, vencVars, muxVars, fates, AtMux, AtVenc, FramesOf,
             InEncoder, InFile, OnMuxQueue, Queued, Refused
      <3>3. Moved(Places, Places', 6, 2, submitted)
        BY <3>1, <3>2, PlaceNames, PlaceNamesNext DEF Moved
      <3> QED BY <3>2, <3>3, AFrameMoves
    <2>2. CASE dropped' = dropped /\ capture'.at = "copied"
      <3>1. submitted' = submitted /\ UNCHANGED <<awaiting, discarded, lost, Refused,
            Queued, AtVenc, InEncoder, OnMuxQueue, AtMux, InFile>>
        BY DEF SubmitAcquires, captureVars, vencVars, muxVars, fates, AtMux, AtVenc, FramesOf,
             InEncoder, InFile, OnMuxQueue, Queued, Refused
      <3>2. Copying' = Copying
        BY <2>2 DEF SubmitAcquires, Copying
      <3>3. dropped' = dropped
        BY <2>2
      <3> QED BY <3>1, <3>2, <3>3, NoFrameMoves DEF PlaceInv, PlaceParts
    <2> QED BY <2>1, <2>2 DEF SubmitAcquires
  <1> QED BY <1>1, <1>2 DEF PlaceInv, PlaceParts

LEMMA SubmitPushesPlaces ==
  ASSUME PlaceInv, SubmitPushes
  PROVE  PlaceParts'
  <1>1. EntriesDiffer'
    <2>1. CASE PushWithRoom
      BY <2>1, QueuesCopied DEF SubmitPushes, PushWithRoom, EntriesDiffer, PlaceInv, PlaceParts, vencVars, muxVars
    <2>2. CASE PushOntoFullQueue
      BY <2>2, DisplacesForCopied DEF SubmitPushes, EntriesDiffer, PlaceInv, PlaceParts, vencVars, muxVars
    <2>3. CASE PushOntoClosedQueue
      BY <2>3 DEF SubmitPushes, PushOntoClosedQueue, EntriesDiffer, PlaceInv, PlaceParts, vencVars, muxVars
    <2> QED BY <2>1, <2>2, <2>3 DEF SubmitPushes
  <1>2. InHand'
    BY DEF PlaceInv, SubmitPushes, PushWithRoom, PushOntoFullQueue, PushOntoClosedQueue,
       InHand, PlaceInv, PlaceParts, captureVars, vencVars, muxVars, fates
  <1>3. OnePlaceEach'
    <2>1. CASE PushWithRoom
      <3>1. submitted \in Copying /\ Copying' = Copying \ {submitted} /\ Queued' = Queued \cup {submitted}
        BY <2>1, QueuesCopied DEF SubmitPushes, PushWithRoom, Copying
      <3>2. submitted' = submitted /\ UNCHANGED <<awaiting, dropped, discarded, lost,
            Refused, AtVenc, InEncoder, OnMuxQueue, AtMux, InFile>>
        BY <2>1 DEF SubmitPushes, PushWithRoom, captureVars, vencVars, muxVars, fates, AtMux, AtVenc,
             InEncoder, InFile, OnMuxQueue, Refused
      <3>3. Moved(Places, Places', 6, 7, submitted)
        BY <3>1, <3>2, PlaceNames, PlaceNamesNext DEF Moved
      <3> QED BY <3>2, <3>3, AFrameMoves
    <2>2. CASE PushOntoFullQueue
      BY <2>2, DisplacesForCopied
    <2>3. CASE PushOntoClosedQueue
      <3>1. submitted \in Copying /\ Copying' = Copying \ {submitted} /\ lost' = lost \cup {submitted}
        BY <2>3 DEF SubmitPushes, PushOntoClosedQueue, Copying
      <3>2. submitted' = submitted /\ UNCHANGED <<awaiting, dropped, discarded, Refused,
            Queued, AtVenc, InEncoder, OnMuxQueue, AtMux, InFile>>
        BY <2>3 DEF SubmitPushes, PushOntoClosedQueue, captureVars, vencVars, muxVars, fates, AtMux,
             AtVenc, FramesOf, InEncoder, InFile, OnMuxQueue, Queued, Refused
      <3>3. Moved(Places, Places', 6, 4, submitted)
        BY <3>1, <3>2, PlaceNames, PlaceNamesNext DEF Moved
      <3> QED BY <3>2, <3>3, AFrameMoves
    <2> QED BY <2>1, <2>2, <2>3 DEF SubmitPushes
  <1> QED BY <1>1, <1>2, <1>3 DEF PlaceInv, PlaceParts

LEMMA AudioCompletesEpochPlaces ==
  ASSUME PlaceInv, AudioCompletesEpoch
  PROVE  PlaceParts'
  <1>1. EntriesDiffer' /\ InHand'
    BY DEF PlaceInv, AudioCompletesEpoch, EntriesDiffer, PlaceParts, captureVars, vencVars,
       muxVars, fates, InHand
  <1>2. OnePlaceEach'
    <2>1. submitted' = submitted /\ UNCHANGED <<awaiting, dropped, discarded, lost, Refused, Copying, Queued, AtVenc, InEncoder, OnMuxQueue, AtMux, InFile>>
      BY DEF AudioCompletesEpoch, captureVars, vencVars, muxVars, fates, AtMux, AtVenc, Copying,
             FramesOf, InEncoder, InFile, OnMuxQueue, Queued, Refused
    <2> QED BY <2>1, NoFrameMoves DEF PlaceInv, PlaceParts
  <1> QED BY <1>1, <1>2 DEF PlaceInv, PlaceParts

LEMMA VencPopsPlaces ==
  ASSUME PlaceInv, VencPops
  PROVE  PlaceParts'
  <1>1. EntriesDiffer'
    <2>1. UNCHANGED <<encoder, muxQueue>>
      BY DEF VencPops, muxVars
    <2>2. CASE queue # <<>> /\ queue' = Tail(queue)
      BY <2>1, <2>2, Taken DEF EntriesDiffer, PlaceInv, PlaceParts, SlotInv, Types, QueueTypeOK
    <2>3. CASE queue' = queue
      BY <2>1, <2>3 DEF EntriesDiffer, PlaceInv, PlaceParts
    <2> QED BY <2>2, <2>3 DEF VencPops
  <1>2. InHand'
    <2>1. CASE queue # <<>> /\ venc' = [at |-> "convert", frame |-> Head(queue)]
      <3>1. Head(queue).n # 0
        BY <2>1, Taken, FramesArePositive
        DEF EntriesDiffer, PlaceInv, PlaceParts, SlotInv, Types, QueueTypeOK, Queued
      <3> QED BY <2>1, <3>1 DEF VencPops, InHand, PlaceInv, PlaceParts, captureVars, muxVars
    <2>2. CASE venc' = [at |-> "ended", frame |-> NoFrame]
      BY <2>2 DEF VencPops, InHand, PlaceInv, PlaceParts, captureVars, muxVars
    <2> QED BY <2>1, <2>2 DEF VencPops, NextFrame
  <1>3. OnePlaceEach'
    <2>1. CASE queue # <<>> /\ venc' = [at |-> "convert", frame |-> Head(queue)] /\ queue' = Tail(queue)
      <3>1. Head(queue).n \in Queued /\ Queued' = Queued \ {Head(queue).n} /\ AtVenc' = AtVenc \cup {Head(queue).n}
        <4>1. Head(queue).n \in Queued /\ Queued' = Queued \ {Head(queue).n}
          BY <2>1, Taken DEF EntriesDiffer, PlaceInv, PlaceParts, SlotInv, Types, QueueTypeOK, Queued
        <4>2. Head(queue).n # 0 /\ AtVenc = {}
          BY <4>1, FramesArePositive DEF VencPops, AtVenc, PlaceInv, SlotInv, Holding, NoFrame
        <4> QED BY <2>1, <4>1, <4>2 DEF AtVenc
      <3>2. submitted' = submitted /\ UNCHANGED <<awaiting, dropped, discarded, lost,
            Refused, Copying, InEncoder, OnMuxQueue, AtMux, InFile>>
        BY DEF VencPops, captureVars, vencVars, muxVars, fates, AtMux, Copying, InEncoder, InFile,
             OnMuxQueue, Refused
      <3>3. Moved(Places, Places', 7, 8, Head(queue).n)
        BY <3>1, <3>2, PlaceNames, PlaceNamesNext DEF Moved
      <3> QED BY <3>2, <3>3, AFrameMoves
    <2>2. CASE queue' = queue /\ venc' = [at |-> "ended", frame |-> NoFrame]
      <3>1. submitted' = submitted /\ UNCHANGED <<awaiting, dropped, discarded, lost,
            Refused, Copying, InEncoder, OnMuxQueue, AtMux, InFile>>
        BY DEF VencPops, captureVars, vencVars, muxVars, fates, AtMux, Copying, InEncoder, InFile,
             OnMuxQueue, Refused
      <3>2. AtVenc' = AtVenc
        BY <2>2 DEF VencPops, AtVenc, PlaceInv, SlotInv, Holding, NoFrame
      <3>3. Queued' = Queued
        BY <2>2 DEF Queued, FramesOf
      <3> QED BY <3>1, <3>2, <3>3, NoFrameMoves DEF PlaceInv, PlaceParts
    <2> QED BY <2>1, <2>2 DEF VencPops, NextFrame
  <1> QED BY <1>1, <1>2, <1>3 DEF PlaceInv, PlaceParts

LEMMA VencConvertsPlaces ==
  ASSUME PlaceInv, VencConverts
  PROVE  PlaceParts'
  <1>1. EntriesDiffer'
    BY DEF PlaceInv, VencConverts, VencReturnsSlot, EntriesDiffer, PlaceInv, PlaceParts,
       captureVars, vencVars, muxVars, fates
  <1>2. InHand'
    <2>1. venc.frame.n # 0 /\ (venc'.at = "encode" => venc'.frame.n = venc.frame.n)
          /\ venc'.at \in {"encode", "pop"}
      BY AfterTheConversion DEF PlaceInv, PlaceParts, InHand, SlotInv, Types, VencConverts
    <2> QED BY <2>1 DEF PlaceInv, PlaceParts, InHand, VencConverts, muxVars
  <1>3. OnePlaceEach'
    <2>1. CASE venc'.at = "encode" /\ venc'.frame.n = venc.frame.n /\ discarded' = discarded
      <3>1. submitted' = submitted /\ UNCHANGED <<awaiting, dropped, lost, Refused, Copying,
            Queued, InEncoder, OnMuxQueue, AtMux, InFile>>
        BY DEF VencConverts, captureVars, vencVars, muxVars, fates, AtMux, Copying, FramesOf,
             InEncoder, InFile, OnMuxQueue, Queued, Refused
      <3>2. AtVenc' = AtVenc
        BY <2>1 DEF AtVenc
      <3>3. discarded' = discarded
        BY <2>1
      <3> QED BY <3>1, <3>2, <3>3, NoFrameMoves DEF PlaceInv, PlaceParts
    <2>2. CASE venc'.at = "pop" /\ discarded' = discarded \cup {venc.frame.n}
      <3>1. venc.frame.n \in AtVenc /\ AtVenc' = AtVenc \ {venc.frame.n} /\ discarded' = discarded \cup {venc.frame.n}
        <4>1. venc'.frame = NoFrame /\ venc.frame.n # 0
          BY <2>2, AfterTheConversion DEF PlaceInv, PlaceParts, InHand, SlotInv, Types, VencConverts
        <4> QED BY <2>2, <4>1 DEF AtVenc, NoFrame
      <3>2. submitted' = submitted /\ UNCHANGED <<awaiting, dropped, lost, Refused, Copying,
            Queued, InEncoder, OnMuxQueue, AtMux, InFile>>
        BY DEF VencConverts, captureVars, vencVars, muxVars, fates, AtMux, Copying, FramesOf,
             InEncoder, InFile, OnMuxQueue, Queued, Refused
      <3>3. Moved(Places, Places', 8, 3, venc.frame.n)
        BY <3>1, <3>2, PlaceNames, PlaceNamesNext DEF Moved
      <3> QED BY <3>2, <3>3, AFrameMoves
    <2> QED BY <2>1, <2>2, AfterTheConversion DEF PlaceInv, SlotInv, Types
  <1> QED BY <1>1, <1>2, <1>3 DEF PlaceInv, PlaceParts

LEMMA VencEncodesPlaces ==
  ASSUME PlaceInv, VencEncodes
  PROVE  PlaceParts'
  <1>1. EntriesDiffer'
    <2>1. CASE encoder # NoEncoder /\ encoder' = Append(encoder, venc.frame.n)
      BY <2>1, AFrameIsEncoded DEF VencEncodes, EntriesDiffer, PlaceInv, PlaceParts, muxVars
    <2>2. CASE encoder' = encoder
      BY <2>2 DEF VencEncodes, EntriesDiffer, PlaceInv, PlaceParts, muxVars
    <2> QED BY <2>1, <2>2 DEF VencEncodes
  <1>2. InHand'
    BY DEF PlaceInv, VencEncodes, InHand, PlaceInv, PlaceParts, captureVars, vencVars, muxVars,
       fates
  <1>3. OnePlaceEach'
    <2>1. CASE /\ encoder # NoEncoder /\ encoder' = Append(encoder, venc.frame.n)
                /\ venc' = [at |-> "drain", frame |-> NoFrame] /\ discarded' = discarded
      <3>1. venc.frame.n \in AtVenc /\ AtVenc' = AtVenc \ {venc.frame.n} /\ InEncoder' = InEncoder \cup {venc.frame.n}
        BY <2>1, AFrameIsEncoded DEF VencEncodes, AtVenc, NoFrame
      <3>2. submitted' = submitted /\ UNCHANGED <<awaiting, dropped, discarded, lost,
            Refused, Copying, Queued, OnMuxQueue, AtMux, InFile>>
        BY <2>1 DEF VencEncodes, captureVars, vencVars, muxVars, fates, AtMux, Copying, FramesOf,
             InFile, OnMuxQueue, Queued, Refused
      <3>3. Moved(Places, Places', 8, 9, venc.frame.n)
        BY <3>1, <3>2, PlaceNames, PlaceNamesNext DEF Moved
      <3> QED BY <3>2, <3>3, AFrameMoves
    <2>2. CASE /\ discarded' = discarded \cup {venc.frame.n} /\ encoder' = encoder
                /\ venc' = [at |-> "pop", frame |-> NoFrame]
      <3>1. venc.frame.n \in AtVenc /\ AtVenc' = AtVenc \ {venc.frame.n} /\ discarded' = discarded \cup {venc.frame.n}
        BY <2>2 DEF VencEncodes, AtVenc, NoFrame, PlaceInv, PlaceParts, InHand
      <3>2. submitted' = submitted /\ UNCHANGED <<awaiting, dropped, lost, Refused, Copying,
            Queued, InEncoder, OnMuxQueue, AtMux, InFile>>
        BY <2>2 DEF VencEncodes, captureVars, vencVars, muxVars, fates, AtMux, Copying, FramesOf,
             InEncoder, InFile, OnMuxQueue, Queued, Refused
      <3>3. Moved(Places, Places', 8, 3, venc.frame.n)
        BY <3>1, <3>2, PlaceNames, PlaceNamesNext DEF Moved
      <3> QED BY <3>2, <3>3, AFrameMoves
    <2> QED BY <2>1, <2>2 DEF VencEncodes
  <1> QED BY <1>1, <1>2, <1>3 DEF PlaceInv, PlaceParts

LEMMA VencDrainsPlaces ==
  ASSUME PlaceInv, VencDrains
  PROVE  PlaceParts'
  <1>1. EntriesDiffer'
    <2>1. CASE DrainOne(Delay)
      BY <2>1, AFrameIsDrained, Bounds DEF VencDrains, captureVars, EntriesDiffer, PlaceInv, PlaceParts
    <2>2. CASE ~DrainOne(Delay)
      BY <2>2 DEF VencDrains, captureVars, EntriesDiffer, PlaceInv, PlaceParts, VideoDistinct, NoEncoder
    <2> QED BY <2>1, <2>2
  <1>2. InHand'
    BY DEF PlaceInv, VencDrains, DrainOne, PushPacket, Drained, InHand, PlaceInv, PlaceParts,
       captureVars, vencVars, muxVars, fates, SlotInv, Types, VencTypeOK, MuxTypeOK,
       CaptureTypeOK
  <1>3. OnePlaceEach'
    <2>1. CASE DrainOne(Delay)
      <3>1. PICK f \in InEncoder :
              /\ InEncoder' = InEncoder \ {f}
              /\ \/ OnMuxQueue' = OnMuxQueue \cup {f} /\ Refused' = Refused
                 \/ OnMuxQueue' = OnMuxQueue /\ Refused' = Refused \cup {f}
        BY <2>1, AFrameIsDrained, Bounds
      <3>2. submitted' = submitted /\ UNCHANGED <<awaiting, dropped, discarded, lost, Copying, Queued,
                                                 AtVenc, AtMux, InFile>>
        BY <2>1, Bounds DEF VencDrains, Drained, DrainOne, PlaceInv, SlotInv, Types, VencTypeOK,
           captureVars, vencVars, muxVars, fates, AtMux, AtVenc, Copying, FramesOf, InFile, Queued
      <3>3. CASE OnMuxQueue' = OnMuxQueue \cup {f} /\ Refused' = Refused
        <4>1. Moved(Places, Places', 9, 10, f)
          BY <3>1, <3>2, <3>3, PlaceNames, PlaceNamesNext DEF Moved
        <4> QED BY <3>2, <4>1, AFrameMoves
      <3>4. CASE Refused' = Refused \cup {f} /\ OnMuxQueue' = OnMuxQueue
        <4>1. Moved(Places, Places', 9, 5, f)
          BY <3>1, <3>2, <3>4, PlaceNames, PlaceNamesNext DEF Moved
        <4> QED BY <3>2, <4>1, AFrameMoves
      <3> QED BY <3>1, <3>3, <3>4
    <2>2. CASE ~DrainOne(Delay)
      <3>1. submitted' = submitted /\ UNCHANGED <<awaiting, dropped, discarded, lost,
            Refused, Copying, Queued, InEncoder, OnMuxQueue, AtMux, InFile>>
        BY <2>2 DEF VencDrains, captureVars, vencVars, muxVars, fates, AtMux, Copying, FramesOf,
             InEncoder, InFile, OnMuxQueue, Queued, Refused
      <3>2. AtVenc' = AtVenc
        BY <2>2 DEF VencDrains, AtVenc, PlaceInv, SlotInv, Types, VencTypeOK
      <3> QED BY <3>1, <3>2, NoFrameMoves DEF PlaceInv, PlaceParts
    <2> QED BY <2>1, <2>2
  <1> QED BY <1>1, <1>2, <1>3 DEF PlaceInv, PlaceParts

LEMMA VencThrowsPlaces ==
  ASSUME PlaceInv, VencThrows
  PROVE  PlaceParts'
  <1>1. EntriesDiffer' /\ InHand'
    BY DEF PlaceInv, VencThrows, EntriesDiffer, PlaceParts, captureVars, vencVars, muxVars,
       fates, InHand
  <1>2. OnePlaceEach'
    <2>1. venc.frame.n \in AtVenc /\ AtVenc' = AtVenc \ {venc.frame.n} /\ lost' = lost \cup {venc.frame.n}
      BY DEF VencThrows, AtVenc, NoFrame, PlaceInv, PlaceParts, InHand
    <2>2. submitted' = submitted /\ UNCHANGED <<awaiting, dropped, discarded, Refused,
          Copying, Queued, InEncoder, OnMuxQueue, AtMux, InFile>>
      BY DEF VencThrows, captureVars, vencVars, muxVars, fates, AtMux, Copying, FramesOf, InEncoder,
           InFile, OnMuxQueue, Queued, Refused
    <2>3. Moved(Places, Places', 8, 4, venc.frame.n)
      BY <2>1, <2>2, PlaceNames, PlaceNamesNext DEF Moved
    <2> QED BY <2>2, <2>3, AFrameMoves
  <1> QED BY <1>1, <1>2 DEF PlaceInv, PlaceParts

LEMMA MuxPopsPlaces ==
  ASSUME PlaceInv, MuxPops
  PROVE  PlaceParts'
  <1>1. EntriesDiffer'
    <2>1. CASE muxQueue # <<>> /\ muxQueue' = Tail(muxQueue)
      BY <2>1, PacketTaken DEF MuxPops, EntriesDiffer, PlaceInv, PlaceParts, SlotInv, Types, MuxTypeOK, vencVars
    <2>2. CASE muxQueue' = muxQueue
      BY <2>2 DEF MuxPops, EntriesDiffer, PlaceInv, PlaceParts, vencVars
    <2> QED BY <2>1, <2>2 DEF MuxPops
  <1>2. InHand'
    BY DEF PlaceInv, MuxPops, InHand, PlaceInv, PlaceParts, captureVars, vencVars, muxVars,
       fates, SlotInv, Types, VencTypeOK, MuxTypeOK, CaptureTypeOK
  <1>3. OnePlaceEach'
    <2>1. AtMux = {} /\ mux.at = "pop"
      BY FramesInOne DEF MuxPops, AtMux, Nothing, PlaceInv, PlaceParts, InHand
    <2>2. CASE muxQueue # <<>> /\ muxQueue' = Tail(muxQueue) /\ mux'.packet = Head(muxQueue)
      <3>1. /\ FramesIn({Head(muxQueue)}) \subseteq OnMuxQueue /\ AtMux' = FramesIn({Head(muxQueue)})
            /\ OnMuxQueue' = OnMuxQueue \ FramesIn({Head(muxQueue)})
        BY <2>2, PacketTaken DEF EntriesDiffer, PlaceInv, PlaceParts, SlotInv, Types, MuxTypeOK, OnMuxQueue, AtMux
      <3>2. CASE Head(muxQueue).track = "video"
        <4> DEFINE f == Head(muxQueue).n
        <4>1. FramesIn({Head(muxQueue)}) = {f}
          BY <3>2, FramesInOne
        <4>2. f \in OnMuxQueue /\ OnMuxQueue' = OnMuxQueue \ {f} /\ AtMux' = AtMux \cup {f}
          BY <2>1, <3>1, <4>1
        <4>3. submitted' = submitted /\ UNCHANGED <<awaiting, dropped, discarded, lost,
              Refused, Copying, Queued, AtVenc, InEncoder, InFile>>
          BY DEF MuxPops, captureVars, vencVars, muxVars, fates, AtVenc, Copying, FramesOf, InEncoder,
               InFile, Queued, Refused
        <4>4. Moved(Places, Places', 10, 11, f)
          BY <4>2, <4>3, PlaceNames, PlaceNamesNext DEF Moved
        <4> QED BY <4>3, <4>4, AFrameMoves

      <3>3. CASE Head(muxQueue).track # "video"
        <4>1. FramesIn({Head(muxQueue)}) = {}
          BY <3>3, FramesInOne
        <4>2. submitted' = submitted /\ UNCHANGED <<awaiting, dropped, discarded, lost,
              Refused, Copying, Queued, AtVenc, InEncoder, InFile>>
          BY DEF MuxPops, captureVars, vencVars, muxVars, fates, AtVenc, Copying, FramesOf, InEncoder,
               InFile, Queued, Refused
        <4>3. OnMuxQueue' = OnMuxQueue
          BY <3>1, <4>1
        <4>4. AtMux' = AtMux
          BY <2>1, <3>1, <4>1
        <4> QED BY <4>2, <4>3, <4>4, NoFrameMoves DEF PlaceInv, PlaceParts

      <3> QED BY <3>2, <3>3
    <2>3. CASE muxQueue' = muxQueue /\ mux'.packet = mux.packet
      <3>1. submitted' = submitted /\ UNCHANGED <<awaiting, dropped, discarded, lost,
            Refused, Copying, Queued, AtVenc, InEncoder, InFile>>
        BY DEF MuxPops, captureVars, vencVars, muxVars, fates, AtVenc, Copying, FramesOf, InEncoder,
             InFile, Queued, Refused
      <3>2. OnMuxQueue' = OnMuxQueue
        BY <2>3 DEF OnMuxQueue
      <3>3. AtMux' = AtMux
        BY <2>3 DEF AtMux
      <3> QED BY <3>1, <3>2, <3>3, NoFrameMoves DEF PlaceInv, PlaceParts

    <2> QED BY <2>2, <2>3 DEF MuxPops, PlaceInv, SlotInv, Types, MuxTypeOK
  <1> QED BY <1>1, <1>2, <1>3 DEF PlaceInv, PlaceParts

LEMMA MuxRolledPlaces ==
  ASSUME PlaceInv, MuxRolled
  PROVE  PlaceParts'
  <1>1. EntriesDiffer' /\ InHand'
    BY DEF PlaceInv, MuxRolled, EntriesDiffer, PlaceParts, captureVars, vencVars, muxVars,
       fates, InHand
  <1>2. OnePlaceEach'
    <2>1. submitted' = submitted /\ UNCHANGED <<awaiting, dropped, discarded, lost, Refused, Copying, Queued, AtVenc, InEncoder, OnMuxQueue, AtMux, InFile>>
      BY DEF MuxRolled, captureVars, vencVars, muxVars, fates, AtMux, AtVenc, Copying, FramesOf,
             InEncoder, InFile, OnMuxQueue, Queued, Refused
    <2> QED BY <2>1, NoFrameMoves DEF PlaceInv, PlaceParts
  <1> QED BY <1>1, <1>2 DEF PlaceInv, PlaceParts

(* The mux thread lets go of its packet: into the file, or for good.       *)
LEMMA ThePacketIsWritten ==
  ASSUME PlaceInv, submitted' = submitted, AtMux' = {}, InFile' = InFile \cup AtMux,
         UNCHANGED <<lost, awaiting, dropped, discarded, Refused, Copying, Queued, AtVenc, InEncoder, OnMuxQueue>>
  PROVE  OnePlaceEach'
  <1>1. AllMoved(Places, Places', 11, 12)
    BY PlaceNames, PlaceNamesNext DEF AllMoved
  <1> QED BY <1>1, AllFramesMove

LEMMA ThePacketIsLost ==
  ASSUME PlaceInv, submitted' = submitted, AtMux' = {}, lost' = lost \cup AtMux,
         UNCHANGED <<InFile, awaiting, dropped, discarded, Refused, Copying, Queued, AtVenc, InEncoder, OnMuxQueue>>
  PROVE  OnePlaceEach'
  <1>1. AllMoved(Places, Places', 11, 4)
    BY PlaceNames, PlaceNamesNext DEF AllMoved
  <1> QED BY <1>1, AllFramesMove

LEMMA MuxWritesPlaces ==
  ASSUME PlaceInv, MuxWrites
  PROVE  PlaceParts'
  <1>1. EntriesDiffer' /\ InHand'
    BY DEF PlaceInv, MuxWrites, EntriesDiffer, PlaceParts, captureVars, vencVars, InHand
  <1>2. OnePlaceEach'
    <2>1. submitted' = submitted
          /\ UNCHANGED <<awaiting, dropped, discarded, Refused, Copying, Queued, AtVenc, InEncoder, OnMuxQueue>>
      BY DEF MuxWrites, captureVars, vencVars, AtVenc, Copying, FramesOf, InEncoder, OnMuxQueue,
             Queued, Refused
    <2>2. AtMux' = {}
      BY FramesInOne DEF MuxWrites, AtMux, Nothing
    <2>3. CASE file' = Append(file, mux.packet) /\ lost' = lost
      <3>1. mux.packet \in Packet /\ file \in Seq(Packet)
        BY DEF PlaceInv, SlotInv, Types, MuxTypeOK
      <3>2. InFile' = InFile \cup AtMux
        BY <2>3, <3>1, PacketPut DEF InFile, AtMux
      <3> QED BY <2>1, <2>2, <2>3, <3>2, ThePacketIsWritten
    <2>4. CASE lost' = lost \cup FramesIn({mux.packet}) /\ file' = file
      BY <2>1, <2>2, <2>4, ThePacketIsLost DEF AtMux, InFile
    <2> QED BY <2>3, <2>4 DEF MuxWrites
  <1> QED BY <1>1, <1>2 DEF PlaceInv, PlaceParts

LEMMA MuxThrowsPlaces ==
  ASSUME PlaceInv, MuxThrows
  PROVE  PlaceParts'
  <1>1. EntriesDiffer' /\ InHand'
    BY DEF PlaceInv, MuxThrows, EntriesDiffer, PlaceParts, captureVars, vencVars, InHand
  <1>2. OnePlaceEach'
    <2>1. submitted' = submitted
          /\ UNCHANGED <<InFile, awaiting, dropped, discarded, Refused, Copying, Queued, AtVenc, InEncoder, OnMuxQueue>>
      BY DEF MuxThrows, captureVars, vencVars, AtVenc, Copying, FramesOf, InEncoder, OnMuxQueue,
             Queued, Refused, InFile
    <2>2. AtMux' = {}
      BY FramesInOne DEF MuxThrows, AtMux, Nothing
    <2> QED BY <2>1, <2>2, ThePacketIsLost DEF MuxThrows, AtMux
  <1> QED BY <1>1, <1>2 DEF PlaceInv, PlaceParts

LEMMA AencPushesPlaces ==
  ASSUME PlaceInv, AencPushes
  PROVE  PlaceParts'
  <1>1. EntriesDiffer'
    <2>1. audioMade + 1 \in Nat /\ PushPacket(Audio(audioMade + 1))
      BY DEF AencPushes, PlaceInv, SlotInv, Types, CountsTypeOK
    <2> QED BY <2>1, AnAudioPacketIsPushed DEF AencPushes, EntriesDiffer, PlaceInv, PlaceParts, captureVars, vencVars
  <1>2. InHand'
    BY DEF PlaceInv, AencPushes, PushPacket, InHand, PlaceInv, PlaceParts, captureVars,
       vencVars, muxVars, fates
  <1>3. OnePlaceEach'
    <2>1. submitted' = submitted /\ UNCHANGED <<awaiting, dropped, discarded, lost,
          Copying, Queued, AtVenc, InEncoder, AtMux, InFile>>
      BY DEF AencPushes, captureVars, vencVars, muxVars, fates, AtMux, AtVenc, Copying, FramesOf,
           InEncoder, InFile, Queued
    <2>2. OnMuxQueue' = OnMuxQueue
      <3>1. audioMade + 1 \in Nat /\ PushPacket(Audio(audioMade + 1))
        BY DEF AencPushes, PlaceInv, SlotInv, Types, CountsTypeOK
      <3> QED BY <3>1, AnAudioPacketIsPushed
    <2>3. Refused' = Refused
      <3>1. audioMade + 1 \in Nat /\ PushPacket(Audio(audioMade + 1))
        BY DEF AencPushes, PlaceInv, SlotInv, Types, CountsTypeOK
      <3> QED BY <3>1, AnAudioPacketIsPushed
    <2> QED BY <2>1, <2>2, <2>3, NoFrameMoves DEF PlaceInv, PlaceParts
  <1> QED BY <1>1, <1>2, <1>3 DEF PlaceInv, PlaceParts

LEMMA AencEndsPlaces ==
  ASSUME PlaceInv, AencEnds
  PROVE  PlaceParts'
  <1>1. EntriesDiffer' /\ InHand'
    BY DEF PlaceInv, AencEnds, EntriesDiffer, PlaceParts, captureVars, vencVars, muxVars,
       fates, InHand
  <1>2. OnePlaceEach'
    <2>1. submitted' = submitted /\ UNCHANGED <<awaiting, dropped, discarded, lost, Refused, Copying, Queued, AtVenc, InEncoder, OnMuxQueue, AtMux, InFile>>
      BY DEF AencEnds, captureVars, vencVars, muxVars, fates, AtMux, AtVenc, Copying, FramesOf,
             InEncoder, InFile, OnMuxQueue, Queued, Refused
    <2> QED BY <2>1, NoFrameMoves DEF PlaceInv, PlaceParts
  <1> QED BY <1>1, <1>2 DEF PlaceInv, PlaceParts

LEMMA WatchdogEndsPlaces ==
  ASSUME PlaceInv, WatchdogEnds
  PROVE  PlaceParts'
  <1>1. EntriesDiffer' /\ InHand'
    BY DEF PlaceInv, WatchdogEnds, EntriesDiffer, PlaceParts, captureVars, vencVars,
       muxVars, fates, InHand
  <1>2. OnePlaceEach'
    <2>1. submitted' = submitted /\ UNCHANGED <<awaiting, dropped, discarded, lost, Refused, Copying, Queued, AtVenc, InEncoder, OnMuxQueue, AtMux, InFile>>
      BY DEF WatchdogEnds, captureVars, vencVars, muxVars, fates, AtMux, AtVenc, Copying,
             FramesOf, InEncoder, InFile, OnMuxQueue, Queued, Refused
    <2> QED BY <2>1, NoFrameMoves DEF PlaceInv, PlaceParts
  <1> QED BY <1>1, <1>2 DEF PlaceInv, PlaceParts

LEMMA RebuildClosesPlaces ==
  ASSUME PlaceInv, RebuildCloses
  PROVE  PlaceParts'
  <1>1. EntriesDiffer' /\ InHand'
    BY DEF PlaceInv, RebuildCloses, EntriesDiffer, PlaceParts, captureVars, vencVars, muxVars,
       fates, InHand
  <1>2. OnePlaceEach'
    <2>1. submitted' = submitted /\ UNCHANGED <<awaiting, dropped, discarded, lost,
          Refused, Queued, AtVenc, InEncoder, OnMuxQueue, AtMux, InFile>>
      BY DEF RebuildCloses, captureVars, vencVars, muxVars, fates, AtMux, AtVenc, FramesOf,
           InEncoder, InFile, OnMuxQueue, Queued, Refused
    <2>2. Copying' = Copying
      BY DEF RebuildCloses, Copying, PlaceInv, SlotInv, Types, CaptureTypeOK
    <2> QED BY <2>1, <2>2, NoFrameMoves DEF PlaceInv, PlaceParts
  <1> QED BY <1>1, <1>2 DEF PlaceInv, PlaceParts

LEMMA RebuildJoinsPlaces ==
  ASSUME PlaceInv, RebuildJoins
  PROVE  PlaceParts'
  <1>1. EntriesDiffer'
    BY DEF PlaceInv, RebuildJoins, EntriesDiffer, PlaceInv, PlaceParts, captureVars, vencVars,
       muxVars, fates
  <1>2. InHand'
    BY DEF PlaceInv, RebuildJoins, InHand, PlaceInv, PlaceParts, captureVars, vencVars,
       muxVars, fates, SlotInv, Types, VencTypeOK, MuxTypeOK, CaptureTypeOK
  <1>3. OnePlaceEach'
    <2>1. submitted' = submitted /\ UNCHANGED <<awaiting, dropped, discarded, lost,
          Refused, Queued, AtVenc, InEncoder, OnMuxQueue, AtMux, InFile>>
      BY DEF RebuildJoins, captureVars, vencVars, muxVars, fates, AtMux, AtVenc, FramesOf, InEncoder,
           InFile, OnMuxQueue, Queued, Refused
    <2>2. Copying' = Copying
      BY DEF RebuildJoins, Copying, PlaceInv, SlotInv, Types, CaptureTypeOK
    <2> QED BY <2>1, <2>2, NoFrameMoves DEF PlaceInv, PlaceParts
  <1> QED BY <1>1, <1>2, <1>3 DEF PlaceInv, PlaceParts

LEMMA RebuildFlushesPlaces ==
  ASSUME PlaceInv, RebuildFlushes
  PROVE  PlaceParts'
  <1>1. EntriesDiffer'
    <2>1. CASE DrainOne(0)
      BY <2>1, AFrameIsDrained, Bounds DEF RebuildFlushes, EntriesDiffer, PlaceInv, PlaceParts
    <2>2. CASE ~DrainOne(0) /\ ~FlushFails
      BY <2>2, NoEncoderIsOneEntry DEF RebuildFlushes, EntriesDiffer, PlaceInv, PlaceParts, VideoDistinct, NoEncoder
    <2>3. CASE FlushFails
      BY <2>3 DEF RebuildFlushes, FlushFails, captureVars, EntriesDiffer, PlaceInv, PlaceParts, VideoDistinct
    <2> QED BY <2>1, <2>2, <2>3
  <1>2. InHand'
    BY DEF PlaceInv, RebuildFlushes, FlushFails, DrainOne, PushPacket, Drained, InHand, PlaceInv,
       PlaceParts, captureVars, vencVars, muxVars, fates
  <1>3. OnePlaceEach'
    <2>1. CASE DrainOne(0) /\ ~FlushFails
      <3>1. PICK f \in InEncoder :
              /\ InEncoder' = InEncoder \ {f}
              /\ \/ OnMuxQueue' = OnMuxQueue \cup {f} /\ Refused' = Refused
                 \/ OnMuxQueue' = OnMuxQueue /\ Refused' = Refused \cup {f}
        BY <2>1, AFrameIsDrained, Bounds
      <3>2. submitted' = submitted /\ UNCHANGED <<awaiting, dropped, discarded, lost, Copying, Queued,
                                                 AtVenc, AtMux, InFile>>
        BY <2>1 DEF RebuildFlushes, Drained, DrainOne, captureVars, vencVars, muxVars, fates,
           AtMux, AtVenc, Copying, FramesOf, InFile, Queued
      <3>3. CASE OnMuxQueue' = OnMuxQueue \cup {f} /\ Refused' = Refused
        <4>1. Moved(Places, Places', 9, 10, f)
          BY <3>1, <3>2, <3>3, PlaceNames, PlaceNamesNext DEF Moved
        <4> QED BY <3>2, <4>1, AFrameMoves
      <3>4. CASE Refused' = Refused \cup {f} /\ OnMuxQueue' = OnMuxQueue
        <4>1. Moved(Places, Places', 9, 5, f)
          BY <3>1, <3>2, <3>4, PlaceNames, PlaceNamesNext DEF Moved
        <4> QED BY <3>2, <4>1, AFrameMoves
      <3> QED BY <3>1, <3>3, <3>4
    <2>2. CASE ~DrainOne(0) /\ ~FlushFails
      <3>1. submitted' = submitted /\ UNCHANGED <<awaiting, dropped, discarded, lost,
            Refused, Queued, AtVenc, OnMuxQueue, AtMux, InFile>>
        BY <2>2 DEF RebuildFlushes, captureVars, vencVars, muxVars, fates, AtMux, AtVenc, FramesOf,
             InFile, OnMuxQueue, Queued, Refused
      <3>2. Copying' = Copying
        BY <2>2 DEF RebuildFlushes, Copying, PlaceInv, SlotInv, Types, CaptureTypeOK
      <3>3. InEncoder' = InEncoder
        <4>1. InEncoder = {}
          BY <2>2, DrainedIsEmpty DEF RebuildFlushes, PlaceInv, SlotInv, Types
        <4> QED BY <2>2, <4>1 DEF RebuildFlushes, InEncoder
      <3> QED BY <3>1, <3>2, <3>3, NoFrameMoves DEF PlaceInv, PlaceParts
    <2>3. CASE FlushFails
      <3>1. submitted' = submitted
            /\ UNCHANGED <<awaiting, dropped, discarded, Copying, Queued, AtVenc, AtMux, InFile>>
        BY <2>3, FlushIsNoDrain DEF RebuildFlushes, captureVars, AtMux, AtVenc, Copying, FramesOf, InFile, Queued
      <3> QED BY <2>3, <3>1, TheEncoderIsGivenUp
    <2> QED BY <2>1, <2>2, <2>3
  <1> QED BY <1>1, <1>2, <1>3 DEF PlaceInv, PlaceParts

LEMMA RebuildReopensPlaces ==
  ASSUME PlaceInv, RebuildReopens
  PROVE  PlaceParts'
  <1>1. EntriesDiffer'
    <2>1. UNCHANGED <<queue, muxQueue>> /\ encoder' \in {NoEncoder, <<>>}
      BY DEF RebuildReopens, muxVars
    <2> QED BY <2>1, NoEncoderIsOneEntry DEF EntriesDiffer, PlaceInv, PlaceParts
  <1>2. InHand'
    BY DEF PlaceInv, RebuildReopens, QueueDrained, InHand, PlaceInv, PlaceParts, captureVars,
       vencVars, muxVars, fates, SlotInv, Types, VencTypeOK, MuxTypeOK, CaptureTypeOK
  <1>3. OnePlaceEach'
    <2>1. submitted' = submitted /\ UNCHANGED <<awaiting, dropped, discarded, lost,
          Refused, Queued, OnMuxQueue, AtMux, InFile>>
      BY DEF RebuildReopens, QueueDrained, captureVars, vencVars, muxVars, fates, AtMux, FramesOf,
           InFile, OnMuxQueue, Queued, Refused
    <2>2. Copying' = Copying
      BY DEF RebuildReopens, Copying, PlaceInv, SlotInv, Types, CaptureTypeOK
    <2>3. AtVenc' = AtVenc
      BY DEF RebuildReopens, AtVenc, PlaceInv, SlotInv, Holding, NoFrame
    <2>4. InEncoder' = InEncoder
      <4>1. InEncoder = {} /\ encoder' \in {NoEncoder, <<>>}
        BY DEF RebuildReopens, InEncoder, PlaceInv, PlaceParts, InHand
      <4> QED BY <4>1 DEF InEncoder, Elements
    <2> QED BY <2>1, <2>2, <2>3, <2>4, NoFrameMoves DEF PlaceInv, PlaceParts
  <1> QED BY <1>1, <1>2, <1>3 DEF PlaceInv, PlaceParts

LEMMA StopBeginsPlaces ==
  ASSUME PlaceInv, StopBegins
  PROVE  PlaceParts'
  <1>1. EntriesDiffer'
    BY DEF PlaceInv, StopBegins, EntriesDiffer, PlaceInv, PlaceParts, captureVars, vencVars,
       muxVars, fates
  <1>2. InHand'
    BY DEF PlaceInv, StopBegins, InHand, PlaceInv, PlaceParts, captureVars, vencVars, muxVars,
       fates, SlotInv, Types, VencTypeOK, MuxTypeOK, CaptureTypeOK
  <1>3. OnePlaceEach'
    <2>1. submitted' = submitted /\ UNCHANGED <<awaiting, dropped, discarded, lost,
          Refused, Queued, AtVenc, InEncoder, OnMuxQueue, AtMux, InFile>>
      BY DEF StopBegins, captureVars, vencVars, muxVars, fates, AtMux, AtVenc, FramesOf, InEncoder,
           InFile, OnMuxQueue, Queued, Refused
    <2>2. Copying' = Copying
      BY DEF StopBegins, Copying, PlaceInv, SlotInv, Types, CaptureTypeOK
    <2> QED BY <2>1, <2>2, NoFrameMoves DEF PlaceInv, PlaceParts
  <1> QED BY <1>1, <1>2, <1>3 DEF PlaceInv, PlaceParts

LEMMA StopJoinsWatchdogPlaces ==
  ASSUME PlaceInv, StopJoinsWatchdog
  PROVE  PlaceParts'
  <1>1. EntriesDiffer' /\ InHand'
    BY DEF PlaceInv, StopJoinsWatchdog, EntriesDiffer, PlaceParts, captureVars, vencVars,
       muxVars, fates, InHand
  <1>2. OnePlaceEach'
    <2>1. submitted' = submitted /\ UNCHANGED <<awaiting, dropped, discarded, lost, Refused, Copying, Queued, AtVenc, InEncoder, OnMuxQueue, AtMux, InFile>>
      BY DEF StopJoinsWatchdog, captureVars, vencVars, muxVars, fates, AtMux, AtVenc, Copying,
             FramesOf, InEncoder, InFile, OnMuxQueue, Queued, Refused
    <2> QED BY <2>1, NoFrameMoves DEF PlaceInv, PlaceParts
  <1> QED BY <1>1, <1>2 DEF PlaceInv, PlaceParts

LEMMA StopJoinsAudioPlaces ==
  ASSUME PlaceInv, StopJoinsAudio
  PROVE  PlaceParts'
  <1>1. EntriesDiffer' /\ InHand'
    BY DEF PlaceInv, StopJoinsAudio, AudioJoined, EntriesDiffer, PlaceParts, captureVars,
       vencVars, muxVars, fates, InHand
  <1>2. OnePlaceEach'
    <2>1. submitted' = submitted /\ UNCHANGED <<awaiting, dropped, discarded, lost, Refused, Copying, Queued, AtVenc, InEncoder, OnMuxQueue, AtMux, InFile>>
      BY DEF StopJoinsAudio, AudioJoined, captureVars, vencVars, muxVars, fates, AtMux, AtVenc,
             Copying, FramesOf, InEncoder, InFile, OnMuxQueue, Queued, Refused
    <2> QED BY <2>1, NoFrameMoves DEF PlaceInv, PlaceParts
  <1> QED BY <1>1, <1>2 DEF PlaceInv, PlaceParts

LEMMA StopFlushesAudioPlaces ==
  ASSUME PlaceInv, StopFlushesAudio
  PROVE  PlaceParts'
  <1>1. EntriesDiffer'
    <2>1. audioMade + 1 \in Nat /\ PushPacket(Audio(audioMade + 1))
      BY DEF StopFlushesAudio, PlaceInv, SlotInv, Types, CountsTypeOK
    <2> QED BY <2>1, AnAudioPacketIsPushed DEF StopFlushesAudio, EntriesDiffer, PlaceInv, PlaceParts, captureVars, vencVars
  <1>2. InHand'
    BY DEF PlaceInv, StopFlushesAudio, PushPacket, CloseEncodeQueue, InHand, PlaceInv,
       PlaceParts, captureVars, vencVars, muxVars, fates
  <1>3. OnePlaceEach'
    <2>1. submitted' = submitted /\ UNCHANGED <<awaiting, dropped, discarded, lost,
          Copying, Queued, AtVenc, InEncoder, AtMux, InFile>>
      BY DEF StopFlushesAudio, captureVars, vencVars, muxVars, fates, AtMux, AtVenc, Copying,
           FramesOf, InEncoder, InFile, Queued
    <2>2. OnMuxQueue' = OnMuxQueue
      <3>1. audioMade + 1 \in Nat /\ PushPacket(Audio(audioMade + 1))
        BY DEF StopFlushesAudio, PlaceInv, SlotInv, Types, CountsTypeOK
      <3> QED BY <3>1, AnAudioPacketIsPushed
    <2>3. Refused' = Refused
      <3>1. audioMade + 1 \in Nat /\ PushPacket(Audio(audioMade + 1))
        BY DEF StopFlushesAudio, PlaceInv, SlotInv, Types, CountsTypeOK
      <3> QED BY <3>1, AnAudioPacketIsPushed
    <2> QED BY <2>1, <2>2, <2>3, NoFrameMoves DEF PlaceInv, PlaceParts
  <1> QED BY <1>1, <1>2, <1>3 DEF PlaceInv, PlaceParts

LEMMA StopJoinsVencPlaces ==
  ASSUME PlaceInv, StopJoinsVenc
  PROVE  PlaceParts'
  <1>1. EntriesDiffer' /\ InHand'
    BY DEF PlaceInv, StopJoinsVenc, VencJoined, EntriesDiffer, PlaceParts, captureVars,
       vencVars, muxVars, fates, InHand
  <1>2. OnePlaceEach'
    <2>1. submitted' = submitted /\ UNCHANGED <<awaiting, dropped, discarded, lost, Refused, Copying, Queued, AtVenc, InEncoder, OnMuxQueue, AtMux, InFile>>
      BY DEF StopJoinsVenc, VencJoined, captureVars, vencVars, muxVars, fates, AtMux, AtVenc,
             Copying, FramesOf, InEncoder, InFile, OnMuxQueue, Queued, Refused
    <2> QED BY <2>1, NoFrameMoves DEF PlaceInv, PlaceParts
  <1> QED BY <1>1, <1>2 DEF PlaceInv, PlaceParts

LEMMA StopFlushesPlaces ==
  ASSUME PlaceInv, StopFlushes
  PROVE  PlaceParts'
  <1>1. EntriesDiffer'
    <2>1. CASE DrainOne(0)
      BY <2>1, AFrameIsDrained, Bounds DEF StopFlushes, captureVars, EntriesDiffer, PlaceInv, PlaceParts
    <2>2. CASE ~DrainOne(0) /\ ~FlushFails
      BY <2>2 DEF StopFlushes, captureVars, EntriesDiffer, PlaceInv, PlaceParts, VideoDistinct, NoEncoder
    <2>3. CASE FlushFails
      BY <2>3 DEF StopFlushes, FlushFails, captureVars, EntriesDiffer, PlaceInv, PlaceParts, VideoDistinct
    <2> QED BY <2>1, <2>2, <2>3
  <1>2. InHand'
    BY DEF PlaceInv, StopFlushes, FlushFails, InEncoder, DrainOne, PushPacket, Drained, InHand, PlaceInv, PlaceParts,
       captureVars, vencVars, muxVars, fates
  <1>3. OnePlaceEach'
    <2>1. CASE DrainOne(0) /\ ~FlushFails
      <3>1. PICK f \in InEncoder :
              /\ InEncoder' = InEncoder \ {f}
              /\ \/ OnMuxQueue' = OnMuxQueue \cup {f} /\ Refused' = Refused
                 \/ OnMuxQueue' = OnMuxQueue /\ Refused' = Refused \cup {f}
        BY <2>1, AFrameIsDrained, Bounds
      <3>2. submitted' = submitted /\ UNCHANGED <<awaiting, dropped, discarded, lost, Copying, Queued,
                                                 AtVenc, AtMux, InFile>>
        BY <2>1 DEF StopFlushes, Drained, DrainOne, captureVars, vencVars, muxVars, fates, AtMux,
           AtVenc, Copying, FramesOf, InFile, Queued
      <3>3. CASE OnMuxQueue' = OnMuxQueue \cup {f} /\ Refused' = Refused
        <4>1. Moved(Places, Places', 9, 10, f)
          BY <3>1, <3>2, <3>3, PlaceNames, PlaceNamesNext DEF Moved
        <4> QED BY <3>2, <4>1, AFrameMoves
      <3>4. CASE Refused' = Refused \cup {f} /\ OnMuxQueue' = OnMuxQueue
        <4>1. Moved(Places, Places', 9, 5, f)
          BY <3>1, <3>2, <3>4, PlaceNames, PlaceNamesNext DEF Moved
        <4> QED BY <3>2, <4>1, AFrameMoves
      <3> QED BY <3>1, <3>3, <3>4
    <2>2. CASE ~DrainOne(0) /\ ~FlushFails
      <3>1. submitted' = submitted /\ UNCHANGED <<awaiting, dropped, discarded, lost,
            Refused, Copying, Queued, AtVenc, InEncoder, OnMuxQueue, AtMux, InFile>>
        BY <2>2 DEF StopFlushes, captureVars, vencVars, muxVars, fates, AtMux, AtVenc, Copying,
             FramesOf, InEncoder, InFile, OnMuxQueue, Queued, Refused
      <3> QED BY <3>1, NoFrameMoves DEF PlaceInv, PlaceParts
    <2>3. CASE FlushFails
      <3>1. submitted' = submitted
            /\ UNCHANGED <<awaiting, dropped, discarded, Copying, Queued, AtVenc, AtMux, InFile>>
        BY <2>3, FlushIsNoDrain DEF StopFlushes, captureVars, AtMux, AtVenc, Copying, FramesOf, InFile, Queued
      <3> QED BY <2>3, <3>1, TheEncoderIsGivenUp
    <2> QED BY <2>1, <2>2, <2>3
  <1> QED BY <1>1, <1>2, <1>3 DEF PlaceInv, PlaceParts

LEMMA StopJoinsMuxPlaces ==
  ASSUME PlaceInv, StopJoinsMux
  PROVE  PlaceParts'
  <1>1. EntriesDiffer' /\ InHand'
    BY DEF PlaceInv, StopJoinsMux, EntriesDiffer, PlaceParts, captureVars, vencVars, muxVars,
       fates, InHand
  <1>2. OnePlaceEach'
    <2>1. submitted' = submitted /\ UNCHANGED <<awaiting, dropped, discarded, lost, Refused, Copying, Queued, AtVenc, InEncoder, OnMuxQueue, AtMux, InFile>>
      BY DEF StopJoinsMux, captureVars, vencVars, muxVars, fates, AtMux, AtVenc, Copying, FramesOf,
             InEncoder, InFile, OnMuxQueue, Queued, Refused
    <2> QED BY <2>1, NoFrameMoves DEF PlaceInv, PlaceParts
  <1> QED BY <1>1, <1>2 DEF PlaceInv, PlaceParts

LEMMA StopFinalizesPlaces ==
  ASSUME PlaceInv, StopFinalizes
  PROVE  PlaceParts'
  <1>1. EntriesDiffer' /\ InHand'
    BY DEF PlaceInv, StopFinalizes, EntriesDiffer, PlaceParts, captureVars, vencVars, muxVars,
       fates, InHand
  <1>2. OnePlaceEach'
    <2>1. submitted' = submitted /\ UNCHANGED <<awaiting, dropped, discarded, lost, Refused, Copying, Queued, AtVenc, InEncoder, OnMuxQueue, AtMux, InFile>>
      BY DEF StopFinalizes, captureVars, vencVars, muxVars, fates, AtMux, AtVenc, Copying, FramesOf,
             InEncoder, InFile, OnMuxQueue, Queued, Refused
    <2> QED BY <2>1, NoFrameMoves DEF PlaceInv, PlaceParts
  <1> QED BY <1>1, <1>2 DEF PlaceInv, PlaceParts

LEMMA StutterPlaces ==
  ASSUME PlaceInv, UNCHANGED vars
  PROVE  PlaceParts'
  <1>1. EntriesDiffer' /\ InHand'
    BY DEF PlaceInv, vars, EntriesDiffer, PlaceParts, captureVars, vencVars, muxVars, fates,
       InHand
  <1>2. OnePlaceEach'
    <2>1. submitted' = submitted /\ UNCHANGED <<awaiting, dropped, discarded, lost, Refused, Copying, Queued, AtVenc, InEncoder, OnMuxQueue, AtMux, InFile>>
      BY DEF vars, vars, captureVars, vencVars, muxVars, fates, AtMux, AtVenc, Copying, FramesOf,
             InEncoder, InFile, OnMuxQueue, Queued, Refused
    <2> QED BY <2>1, NoFrameMoves DEF PlaceInv, PlaceParts
  <1> QED BY <1>1, <1>2 DEF PlaceInv, PlaceParts

LEMMA PlaceInit == Init => PlaceParts
  <1> SUFFICES ASSUME Init PROVE PlaceParts
    OBVIOUS
  <1>1. EntriesDiffer
    BY DEF Init, EntriesDiffer, Distinct, VideoDistinct
  <1>2. InHand
    BY DEF Init, InHand
  <1>3. /\ awaiting = {} /\ dropped = {} /\ discarded = {} /\ lost = {} /\ Refused = {}
        /\ Copying = {} /\ Queued = {} /\ AtVenc = {} /\ InEncoder = {} /\ OnMuxQueue = {}
        /\ AtMux = {} /\ InFile = {}
    <2>1. Elements(<<>>) = {}
      BY DEF Elements
    <2>2. Nothing.track # "video" /\ NoFrame.n = 0
      BY DEF Nothing, NoFrame
    <2> QED BY <2>1, <2>2 DEF Init, Refused, Copying, Queued, FramesOf, AtVenc, InEncoder,
                              OnMuxQueue, AtMux, InFile, FramesIn
  <1>4. \A k \in 1 .. 12 : Places[k] = {}
    BY <1>3, PlaceNames
  <1>5. 1 .. submitted = {}
    BY DEF Init
  <1>6. OnePlaceEach
    BY <1>4, <1>5, PlacesFrom DEF OnePlace
  <1> QED BY <1>1, <1>2, <1>6 DEF PlaceParts

LEMMA PlaceStep ==
  ASSUME PlaceInv, [Next]_vars
  PROVE  PlaceInv'
  <1> SUFFICES PlaceParts'
    BY SlotStep DEF PlaceInv
  <1>1. CASE Submit \/ AudioCompletesEpoch
    BY <1>1, SubmitEntersPlaces, SubmitAcquiresPlaces, SubmitPushesPlaces, AudioCompletesEpochPlaces
    DEF Submit
  <1>2. CASE Venc \/ VencThrows
    BY <1>2, VencPopsPlaces, VencConvertsPlaces, VencEncodesPlaces, VencDrainsPlaces, VencThrowsPlaces
    DEF Venc
  <1>3. CASE Mux \/ MuxThrows
    BY <1>3, MuxPopsPlaces, MuxRolledPlaces, MuxWritesPlaces, MuxThrowsPlaces DEF Mux
  <1>4. CASE AencPushes \/ AencEnds \/ WatchdogEnds
    BY <1>4, AencPushesPlaces, AencEndsPlaces, WatchdogEndsPlaces
  <1>5. CASE Rebuild
    BY <1>5, RebuildClosesPlaces, RebuildJoinsPlaces, RebuildFlushesPlaces, RebuildReopensPlaces
    DEF Rebuild
  <1>6. CASE StopBegins \/ StopProceeds
    BY <1>6, StopBeginsPlaces, StopJoinsWatchdogPlaces, StopJoinsAudioPlaces, StopFlushesAudioPlaces,
       StopJoinsVencPlaces, StopFlushesPlaces, StopJoinsMuxPlaces, StopFinalizesPlaces
    DEF StopProceeds
  <1>7. CASE UNCHANGED vars
    BY <1>7, StutterPlaces
  <1> QED BY <1>1, <1>2, <1>3, <1>4, <1>5, <1>6, <1>7 DEF Next

(* What leaves without being counted.  Only stop() closes the encode queue *)
(* under a submit, and only behind a capture thread it has given up.       *)
Losses ==
    /\ ~encodeOpen => capture.at \in {"joinVenc", "flush", "open", "refused"} \/ ~running
    /\ faults = {} => lost \subseteq (IF running THEN {} ELSE {submitted})

LEMMA LossStep ==
  ASSUME StopInv, Losses, [Next]_vars
  PROVE  Losses'
  <1>a. SlotInv /\ (running <=> owner = "away")
    BY DEF StopInv, StopParts, RebuildsPrecedeStop
  <1> USE DEF Losses, Fails, SlotInv, Types, CaptureTypeOK, FlagsTypeOK
  <1>1. CASE SubmitEnters \/ SubmitAcquires
    BY <1>a, <1>1 DEF SubmitEnters, SubmitAcquires
  <1>2. CASE SubmitPushes
    <2>1. lost' = lost \/ (~encodeOpen /\ lost' = lost \cup {submitted})
      BY <1>a, <1>2 DEF SubmitPushes, PushWithRoom, PushOntoFullQueue, PushOntoClosedQueue
    <2>2. /\ UNCHANGED <<encodeOpen, running, submitted, faults>>
          /\ capture.at = "copied" /\ capture'.at = "idle"
      BY <1>a, <1>2 DEF SubmitPushes
    <2>3. ~encodeOpen => ~running
      BY <2>2
    <2> QED BY <1>a, <2>1, <2>2, <2>3
  <1>3. CASE AudioCompletesEpoch \/ Venc
    BY <1>a, <1>3 DEF AudioCompletesEpoch, Venc, VencPops, VencConverts, VencEncodes, VencDrains, captureVars, fates
  <1>4. CASE VencThrows \/ MuxThrows
    <2>1. faults' # {}
      BY <1>a, <1>4 DEF VencThrows, MuxThrows
    <2> QED BY <1>4, <2>1 DEF VencThrows, MuxThrows, captureVars
  <1>5. CASE Mux
    <2>1. UNCHANGED <<capture, encodeOpen, running, submitted>>
      BY <1>a, <1>5 DEF Mux, MuxPops, MuxRolled, MuxWrites, captureVars
    <2>2. (lost' = lost /\ faults' = faults) \/ faults' # {}
      BY <1>a, <1>5 DEF Mux, MuxPops, MuxRolled, MuxWrites, fates
    <2> QED BY <1>a, <2>1, <2>2
  <1>6. CASE AencPushes \/ AencEnds \/ WatchdogEnds
    BY <1>a, <1>6 DEF AencPushes, AencEnds, WatchdogEnds, captureVars, fates
  <1>7. CASE Rebuild
    <2>1. (lost' = lost /\ faults' = faults) \/ faults' # {}
      BY <1>a, <1>7 DEF Rebuild, RebuildCloses, RebuildJoins, RebuildFlushes, RebuildReopens, FlushFails, fates
    <2>2. UNCHANGED <<running, submitted>>
      BY <1>a, <1>7 DEF Rebuild, RebuildCloses, RebuildJoins, RebuildFlushes, RebuildReopens
    <2>3. ~encodeOpen' => capture'.at \in {"joinVenc", "flush", "open", "refused"} \/ ~running'
      BY <1>a, <1>7 DEF Rebuild, RebuildCloses, RebuildJoins, RebuildFlushes, RebuildReopens
    <2> QED BY <1>a, <2>1, <2>2, <2>3
  <1>8. CASE StopBegins
    BY <1>a, <1>8 DEF StopBegins, fates
  <1>9. CASE StopProceeds
    <2>1. (lost' = lost /\ faults' = faults) \/ faults' # {}
      BY <1>a, <1>9 DEF StopProceeds, StopJoinsWatchdog, StopJoinsAudio, StopFlushesAudio, StopJoinsVenc,
                  StopFlushes, StopJoinsMux, StopFinalizes, FlushFails, fates
    <2>2. UNCHANGED <<capture, running, submitted>>
      BY <1>a, <1>9 DEF StopProceeds, StopJoinsWatchdog, StopJoinsAudio, StopFlushesAudio, StopJoinsVenc,
                  StopFlushes, StopJoinsMux, StopFinalizes, captureVars
    <2>3. encodeOpen' = encodeOpen \/ owner = "audioTail"
      BY <1>a, <1>9 DEF StopProceeds, StopJoinsWatchdog, StopJoinsAudio, StopFlushesAudio, StopJoinsVenc,
                  StopFlushes, StopJoinsMux, StopFinalizes
    <2>4. owner # "away"
      BY <1>a, <1>9 DEF StopProceeds, StopJoinsWatchdog, StopJoinsAudio, StopFlushesAudio, StopJoinsVenc,
                  StopFlushes, StopJoinsMux, StopFinalizes
    <2> QED BY <1>a, <2>1, <2>2, <2>3, <2>4
  <1>10. CASE UNCHANGED vars
    BY <1>a, <1>10 DEF vars, captureVars, fates
  <1> QED BY <1>1, <1>2, <1>3, <1>4, <1>5, <1>6, <1>7, <1>8, <1>9, <1>10 DEF Next, Submit

(* Every submitted frame is in exactly one place, and nothing else is in   *)
(* any: no frame is encoded or written twice, across displacements,        *)
(* refused rebuilds and stops that give threads up, and whatever fails.    *)
(* And as long as nothing has failed none is gone without a counter of     *)
(* get_stats reporting it, but for the one a stop overtook.                *)
THEOREM FramesHaveOnePlace ==
  ASSUME "venc" \notin MayTimeOut
  PROVE  Spec => []EveryFrameHasOnePlace
  <1>1. Init => PlaceInv /\ Losses
    BY SlotInit, PlaceInit DEF PlaceInv, Init, Losses
  <1>2. PlaceInv /\ StopInv /\ Losses /\ [Next]_vars => PlaceInv' /\ Losses'
    BY PlaceStep, LossStep DEF PlaceInv
  <1>3. PlaceInv /\ Losses /\ StopInv => EveryFrameHasOnePlace
    <2> SUFFICES ASSUME PlaceInv, Losses, StopInv PROVE EveryFrameHasOnePlace
      OBVIOUS
    <2>1. FramesIn(refused) = {}
      BY DEF StopInv, StopParts, ClosedBehindItsFeeders, FramesIn
    <2> QED BY <2>1 DEF PlaceInv, PlaceParts, Losses, EveryFrameHasOnePlace, Unreported
  <1> QED BY <1>1, <1>2, <1>3, StopInvHolds, PTL DEF Spec

=============================================================================
