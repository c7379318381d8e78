--------------------------- MODULE VideoPipeline ----------------------------
(***************************************************************************)
(* pipeline/video_pipeline.cpp: the life of a frame from `submit' to the   *)
(* file, the threads it passes through, and the two operations that take   *)
(* the pipeline apart under it: rebuild_device and stop.                   *)
(*                                                                         *)
(*   capture --encode_queue--> venc --encoder--> mux_queue --> mux --> file*)
(*                                    aenc ------^                         *)
(*                                                                         *)
(* The queues are the channels of BoundedChannel.  A frame is the number   *)
(* of its submission.  The encoder holds up to Delay frames back until it  *)
(* is flushed.  `owner' is the thread that runs stop(): the control        *)
(* thread, which has joined the capture thread first, or the capture       *)
(* thread itself after a rebuild that was refused.                         *)
(***************************************************************************)
EXTENDS Integers, Sequences, FiniteSets

CONSTANTS
    EncodeCapacity, \* kEncodeQueueCapacity
    MuxCapacity,    \* kMuxQueueCapacity
    Slots,          \* the staging ring's slots
    Delay,          \* frames the encoder keeps before it emits a packet
    MayTimeOut,     \* threads whose bounded join may expire
    MayFail,        \* what may fail: see Fails
    MaxFrames, MaxAudio, MaxRebuilds, MaxRolls, MaxFaults \* bounds

ASSUME CapacitiesAssumption ==
    EncodeCapacity \in Nat \ {0} /\ MuxCapacity \in Nat \ {0} /\ Delay \in Nat
NoSlot == "noSlot"
ASSUME RingAssumption ==
    IsFiniteSet(Slots) /\ Cardinality(Slots) = EncodeCapacity + 1 /\ NoSlot \notin Slots
ASSUME TimeoutAssumption ==
    MayTimeOut \subseteq {"capture", "watchdog", "aenc", "venc", "mux"}
ASSUME FaultsAssumption ==
    MayFail \subseteq {"venc", "mux", "write", "encoder", "finalize"}
ASSUME BoundsAssumption ==
    {MaxFrames, MaxAudio, MaxRebuilds, MaxRolls, MaxFaults} \subseteq Nat

VARIABLES
    capture,    \* where the capture thread is, and the slot and frame it holds
    free,       \* StagingRing::free_
    ring,       \* which device's ring it is: the number of rebuilds so far
    queue,      \* encode_queue
    encodeOpen, \* ~encode_queue.closed()
    venc,       \* where the venc thread is, and the frame it holds
    detached,   \* venc_thread was detached by a join that expired
    encoder,    \* frames inside the encoder, or NoEncoder
    muxQueue, muxOpen,
    mux,        \* where the mux thread is, and the packet it holds
    aenc,       \* where the aenc thread is
    watchdog,   \* where the watchdog thread is
    running,    \* running
    stopping,   \* the helpers asked to stop: watchdog_exit, the audio path's request
    owner,      \* where the thread that runs stop() is
    epoch,      \* both streams are live: the pacer has started
    file,       \* what the muxer has written, in order
    trailer,    \* finalize() has returned
    submitted, audioMade, rolls,
    faults,     \* what has failed so far
    awaiting,   \* frames counted as frames_awaiting_epoch
    dropped,    \* frames counted as frames_queue_dropped
    discarded,  \* frames counted as paced out, or as a conversion or encode failure
    lost,       \* frames that are gone and that no counter reports
    refused     \* packets a closed mux queue did not take, nor any counter

captureVars == <<capture, free, ring>>
vencVars == <<venc, detached, encoder>>
muxVars == <<muxQueue, muxOpen, mux, rolls, file, trailer>>
fates == <<awaiting, dropped, discarded, lost, refused>>
vars == <<captureVars, queue, encodeOpen, vencVars, muxVars, aenc, watchdog, running,
          stopping, owner, epoch, submitted, audioMade, faults, fates>>

NoEncoder == <<0>> \* no frame has the number 0
Nothing == [track |-> "none", n |-> 0]
Video(n) == [track |-> "video", n |-> n]
Audio(n) == [track |-> "audio", n |-> n]
NoFrame == [slot |-> NoSlot, n |-> 0, ring |-> 0]

Init ==
    /\ capture = [at |-> "idle", slot |-> NoSlot]
    /\ free = Slots
    /\ ring = 0
    /\ queue = <<>> /\ encodeOpen = TRUE
    /\ venc = [at |-> "pop", frame |-> NoFrame]
    /\ detached = FALSE
    /\ encoder = <<>>
    /\ muxQueue = <<>> /\ muxOpen = TRUE
    /\ mux = [at |-> "pop", packet |-> Nothing]
    /\ aenc = "run"
    /\ watchdog = "run"
    /\ running = TRUE
    /\ stopping = {}
    /\ owner = "away"
    /\ epoch = FALSE
    /\ file = <<>> /\ trailer = FALSE
    /\ submitted = 0 /\ audioMade = 0 /\ rolls = 0 /\ faults = {}
    /\ awaiting = {} /\ dropped = {} /\ discarded = {} /\ lost = {} /\ refused = {}

-----------------------------------------------------------------------------
(* Something fails that the code logs and goes on from, or that ends a     *)
(* thread through its catch clause: an exception in venc_loop or mux_loop, *)
(* a write, a flush or a receive of the encoder, the finalization.         *)
Fails(what) ==
    /\ what \in MayFail
    /\ what \in faults \/ Cardinality(faults) < MaxFaults
    /\ faults' = faults \cup {what}

FramesIn(packets) == {p.n : p \in {q \in packets : q.track = "video"}}
Elements(seq) == {seq[i] : i \in DOMAIN seq}
InEncoder == IF encoder = NoEncoder THEN {} ELSE Elements(encoder)

-----------------------------------------------------------------------------
(* submit, on the capture thread                                           *)

SubmitEnters ==
    /\ capture.at = "idle"
    /\ running
    /\ submitted < MaxFrames
    /\ submitted' = submitted + 1
    /\ \/ /\ ~epoch
          /\ awaiting' = awaiting \cup {submitted + 1}
          /\ UNCHANGED capture
       \/ /\ epoch
          /\ capture' = [capture EXCEPT !.at = "admitted"]
          /\ UNCHANGED awaiting
    /\ UNCHANGED <<free, ring, queue, encodeOpen, vencVars, muxVars, aenc, watchdog, running,
                   stopping, owner, epoch, audioMade, faults, dropped, discarded, lost, refused>>

SubmitAcquires ==
    /\ capture.at = "admitted"
    /\ \/ /\ free = {}
          /\ dropped' = dropped \cup {submitted}
          /\ capture' = [at |-> "idle", slot |-> NoSlot]
          /\ UNCHANGED free
       \/ \E s \in free :
             /\ free' = free \ {s}
             /\ capture' = [at |-> "copied", slot |-> s]
             /\ UNCHANGED dropped
    /\ UNCHANGED <<ring, queue, encodeOpen, vencVars, muxVars, aenc, watchdog, running,
                   stopping, owner, epoch, submitted, audioMade, faults, awaiting, discarded, lost, refused>>

Copied == [slot |-> capture.slot, n |-> submitted, ring |-> ring]

(* Mutant: the displaced frame is not counted.                             *)
PushOntoFullQueueUncounted ==
    /\ Len(queue) = EncodeCapacity
    /\ queue' = Append(Tail(queue), Copied)
    /\ UNCHANGED <<free, dropped, lost>>

(* The displaced frame's slot is not given back.                           *)
PushOntoFullQueue ==
    /\ Len(queue) = EncodeCapacity
    /\ queue' = Append(Tail(queue), Copied)
    /\ dropped' = dropped \cup {Head(queue).n}
    /\ UNCHANGED <<free, lost>>

(* Mutant: the slot is back on the free list while its frame is queued.    *)
PushAndRelease ==
    /\ Len(queue) < EncodeCapacity
    /\ queue' = Append(queue, Copied)
    /\ free' = free \cup {capture.slot}
    /\ UNCHANGED <<dropped, lost>>

PushWithRoom ==
    /\ Len(queue) < EncodeCapacity
    /\ queue' = Append(queue, Copied)
    /\ UNCHANGED <<free, dropped, lost>>

PushOntoClosedQueue ==
    /\ free' = free \cup {capture.slot}
    /\ lost' = lost \cup {submitted}
    /\ UNCHANGED <<queue, dropped>>

SubmitPushes ==
    /\ capture.at = "copied"
    /\ \/ encodeOpen /\ PushWithRoom
       \/ encodeOpen /\ PushOntoFullQueue
       \/ ~encodeOpen /\ PushOntoClosedQueue
    /\ capture' = [at |-> "idle", slot |-> NoSlot]
    /\ UNCHANGED <<ring, encodeOpen, vencVars, muxVars, aenc, watchdog, running, stopping,
                   owner, epoch, submitted, audioMade, faults, awaiting, discarded, refused>>

(* The first audio buffer completes the epoch and starts the pacer.        *)
AudioCompletesEpoch ==
    /\ ~epoch
    /\ epoch' = TRUE
    /\ UNCHANGED <<captureVars, queue, encodeOpen, vencVars, muxVars, aenc, watchdog, running,
                   stopping, owner, submitted, audioMade, faults, fates>>

-----------------------------------------------------------------------------
(* venc_loop                                                               *)

NextFrame == Head(queue)

VencMayEnd == queue = <<>> /\ ~encodeOpen

VencPops ==
    /\ venc.at = "pop"
    /\ \/ /\ queue # <<>>
          /\ venc' = [at |-> "convert", frame |-> NextFrame]
          /\ queue' = Tail(queue)
       \/ /\ VencMayEnd
          /\ venc' = [at |-> "ended", frame |-> NoFrame]
          /\ UNCHANGED queue
    /\ UNCHANGED <<captureVars, encodeOpen, detached, encoder, muxVars, aenc, watchdog, running,
                   stopping, owner, epoch, submitted, audioMade, faults, fates>>

VencReturnsSlot == free' = free \cup {venc.frame.slot}

(* The conversion; the slot is given back whatever it returned.            *)
VencConverts ==
    /\ venc.at = "convert"
    /\ VencReturnsSlot
    /\ \/ venc' = [venc EXCEPT !.at = "encode", !.frame.slot = NoSlot] /\ UNCHANGED discarded
       \/ /\ venc' = [at |-> "pop", frame |-> NoFrame]
          /\ discarded' = discarded \cup {venc.frame.n}
    /\ UNCHANGED <<capture, ring, queue, encodeOpen, detached, encoder, muxVars, aenc, watchdog,
                   running, stopping, owner, epoch, submitted, audioMade, faults, awaiting,
                   dropped, lost, refused>>

(* decide and submit: the frame enters the encoder, or is paced out or     *)
(* refused and counted.                                                    *)
VencEncodes ==
    /\ venc.at = "encode"
    /\ \/ /\ encoder # NoEncoder
          /\ encoder' = Append(encoder, venc.frame.n)
          /\ venc' = [at |-> "drain", frame |-> NoFrame]
          /\ UNCHANGED discarded
       \/ /\ discarded' = discarded \cup {venc.frame.n}
          /\ venc' = [at |-> "pop", frame |-> NoFrame]
          /\ UNCHANGED encoder
    /\ UNCHANGED <<captureVars, queue, encodeOpen, detached, muxVars, aenc, watchdog, running,
                   stopping, owner, epoch, submitted, audioMade, faults, awaiting, dropped, lost, refused>>

(* push on the Block queue: wait for room, or learn that it is closed.     *)
PushPacket(packet) ==
    \/ /\ muxOpen
       /\ Len(muxQueue) < MuxCapacity
       /\ muxQueue' = Append(muxQueue, packet)
       /\ UNCHANGED refused
    \/ /\ ~muxOpen
       /\ refused' = refused \cup {packet}
       /\ UNCHANGED muxQueue

(* One turn of drain_encoder_packets: a packet leaves the encoder for the  *)
(* mux queue.  `kept' is what the encoder still holds back.                *)
DrainOne(kept) ==
    /\ encoder # NoEncoder
    /\ Len(encoder) > kept
    /\ PushPacket(Video(Head(encoder)))
    /\ encoder' = Tail(encoder)

Drained(kept) == encoder # NoEncoder => Len(encoder) <= kept

(* An error of receive is counted once and breaks the turns off.           *)
VencDrains ==
    /\ venc.at = "drain"
    /\ \/ DrainOne(Delay) /\ UNCHANGED <<venc, faults>>
       \/ /\ (Drained(Delay) /\ UNCHANGED faults) \/ Fails("encoder")
          /\ venc' = [venc EXCEPT !.at = "pop"]
          /\ UNCHANGED <<encoder, muxQueue, refused>>
    /\ UNCHANGED <<captureVars, queue, encodeOpen, detached, muxOpen, mux, rolls, file, trailer,
                   aenc, watchdog, running, stopping, owner, epoch, submitted, audioMade,
                   awaiting, dropped, discarded, lost>>

(* A flush that fails, or breaks off: what the encoder still held never    *)
(* comes out.  Both callers log it and go on.                              *)
FlushFails ==
    /\ InEncoder # {}
    /\ Fails("encoder")
    /\ lost' = lost \cup InEncoder
    /\ encoder' = <<>>
    /\ UNCHANGED <<muxQueue, refused>>

(* The thread's catch clause: an exception ends it with frames in hand.    *)
VencThrows ==
    /\ venc.at \in {"convert", "encode"}
    /\ Fails("venc")
    /\ venc' = [at |-> "ended", frame |-> NoFrame]
    /\ lost' = lost \cup {venc.frame.n}
    /\ UNCHANGED <<captureVars, queue, encodeOpen, detached, encoder, muxVars, aenc, watchdog,
                   running, stopping, owner, epoch, submitted, audioMade, awaiting, dropped,
                   discarded, refused>>

-----------------------------------------------------------------------------
(* mux_loop, with the rollover that reads the encoder's parameters         *)

MuxPops ==
    /\ mux.at = "pop"
    /\ \/ /\ muxQueue # <<>>
          /\ muxQueue' = Tail(muxQueue)
          /\ \/ mux' = [at |-> "write", packet |-> Head(muxQueue)] /\ UNCHANGED rolls
             \/ /\ Head(muxQueue).track = "video"
                /\ rolls < MaxRolls
                /\ rolls' = rolls + 1
                /\ mux' = [at |-> "rolling", packet |-> Head(muxQueue)]
       \/ /\ muxQueue = <<>>
          /\ ~muxOpen
          /\ mux' = [mux EXCEPT !.at = "ended"]
          /\ UNCHANGED <<muxQueue, rolls>>
    /\ UNCHANGED <<captureVars, queue, encodeOpen, vencVars, muxOpen, file, trailer, aenc,
                   watchdog, running, stopping, owner, epoch, submitted, audioMade, faults, fates>>

MuxRolled ==
    /\ mux.at = "rolling"
    /\ mux' = [mux EXCEPT !.at = "write"]
    /\ UNCHANGED <<captureVars, queue, encodeOpen, vencVars, muxQueue, muxOpen, rolls, file,
                   trailer, aenc, watchdog, running, stopping, owner, epoch, submitted,
                   audioMade, faults, fates>>

(* A write that fails is logged, and the packet is gone.                   *)
MuxWrites ==
    /\ mux.at = "write"
    /\ \/ file' = Append(file, mux.packet) /\ UNCHANGED <<lost, faults>>
       \/ /\ Fails("write")
          /\ lost' = lost \cup FramesIn({mux.packet})
          /\ UNCHANGED file
    /\ mux' = [at |-> "pop", packet |-> Nothing]
    /\ UNCHANGED <<captureVars, queue, encodeOpen, vencVars, muxQueue, muxOpen, rolls, trailer,
                   aenc, watchdog, running, stopping, owner, epoch, submitted, audioMade,
                   awaiting, dropped, discarded, refused>>

(* The thread's catch clause.  The queue it leaves is still open, and      *)
(* whoever fills it waits for room that nobody makes.                      *)
MuxThrows ==
    /\ mux.at \in {"rolling", "write"}
    /\ Fails("mux")
    /\ mux' = [at |-> "ended", packet |-> Nothing]
    /\ lost' = lost \cup FramesIn({mux.packet})
    /\ UNCHANGED <<captureVars, queue, encodeOpen, vencVars, muxQueue, muxOpen, rolls, file,
                   trailer, aenc, watchdog, running, stopping, owner, epoch, submitted,
                   audioMade, awaiting, dropped, discarded, refused>>

-----------------------------------------------------------------------------
(* The aenc thread and the watchdog                                        *)

AencPushes ==
    /\ aenc = "run"
    /\ audioMade < MaxAudio
    /\ PushPacket(Audio(audioMade + 1))
    /\ audioMade' = audioMade + 1
    /\ UNCHANGED <<captureVars, queue, encodeOpen, vencVars, muxOpen, mux, rolls, file, trailer,
                   aenc, watchdog, running, stopping, owner, epoch, submitted, faults, awaiting,
                   dropped, discarded, lost>>

AencEnds ==
    /\ aenc = "run"
    /\ "audio" \in stopping
    /\ aenc' = "ended"
    /\ UNCHANGED <<captureVars, queue, encodeOpen, vencVars, muxVars, watchdog, running, stopping,
                   owner, epoch, submitted, audioMade, faults, fates>>

(* A sample it takes reads what the other threads own and changes nothing  *)
(* here; an exception that ends the thread early does not either.          *)
WatchdogEnds ==
    /\ watchdog = "run"
    /\ "watchdog" \in stopping
    /\ watchdog' = "ended"
    /\ UNCHANGED <<captureVars, queue, encodeOpen, vencVars, muxVars, aenc, running, stopping,
                   owner, epoch, submitted, audioMade, faults, fates>>

-----------------------------------------------------------------------------
(* rebuild_device, on the capture thread between two frames                *)

RebuildCloses ==
    /\ capture.at = "idle"
    /\ running
    /\ ring < MaxRebuilds
    /\ encodeOpen' = FALSE
    /\ capture' = [capture EXCEPT !.at = "joinVenc"]
    /\ UNCHANGED <<free, ring, queue, vencVars, muxVars, aenc, watchdog, running, stopping,
                   owner, epoch, submitted, audioMade, faults, fates>>

(* A join that expires detaches the thread and refuses the rebuild.        *)
RebuildJoins ==
    /\ capture.at = "joinVenc"
    /\ \/ /\ venc.at = "ended"
          /\ capture' = [capture EXCEPT !.at = "flush"]
          /\ UNCHANGED detached
       \/ /\ venc.at # "ended"
          /\ "venc" \in MayTimeOut
          /\ detached' = TRUE
          /\ capture' = [capture EXCEPT !.at = "refused"]
    /\ UNCHANGED <<free, ring, queue, encodeOpen, venc, encoder, muxVars, aenc, watchdog, running,
                   stopping, owner, epoch, submitted, audioMade, faults, fates>>

RebuildFlushes ==
    /\ capture.at = "flush"
    /\ \/ DrainOne(0) /\ UNCHANGED <<capture, ring, free, faults, lost>>
       \/ FlushFails /\ UNCHANGED <<capture, ring, free>>
       \/ /\ Drained(0)
          /\ encoder' = NoEncoder \* encoder.reset(), ring.reset()
          /\ ring' = ring + 1
          /\ free' = {}
          /\ capture' = [capture EXCEPT !.at = "open"]
          /\ UNCHANGED <<muxQueue, refused, faults, lost>>
    /\ UNCHANGED <<queue, encodeOpen, venc, detached, muxOpen, mux, rolls, file, trailer, aenc,
                   watchdog, running, stopping, owner, epoch, submitted, audioMade, awaiting,
                   dropped, discarded>>

(* Mutant: the restarted thread is put on whatever the queue still holds.  *)
QueueDrainedAssumed == TRUE
QueueDrained == queue = <<>>

(* The new converter, encoder and parameter sets may each be refused; so   *)
(* is a queue that did not drain.  The ring is created again by the next   *)
(* submit, which nothing can precede.                                      *)
RebuildReopens ==
    /\ capture.at = "open"
    /\ \/ /\ QueueDrained
          /\ encoder' = <<>>
          /\ encodeOpen' = TRUE
          /\ venc' = [at |-> "pop", frame |-> NoFrame]
          /\ free' = Slots
          /\ capture' = [capture EXCEPT !.at = "idle"]
       \/ /\ encoder' \in {NoEncoder, <<>>}
          /\ capture' = [capture EXCEPT !.at = "refused"]
          /\ UNCHANGED <<encodeOpen, venc, free>>
    /\ UNCHANGED <<ring, queue, detached, muxVars, aenc, watchdog, running, stopping, owner, epoch,
                   submitted, audioMade, faults, fates>>

-----------------------------------------------------------------------------
(* stop                                                                    *)

(* The control thread stops after joining the capture thread, or after     *)
(* giving it up; a refused rebuild makes the capture thread stop.          *)
StopBegins ==
    /\ owner = "away"
    /\ running
    /\ \/ capture.at \in {"idle", "refused"} /\ capture' = [capture EXCEPT !.at = "gone"]
       \/ "capture" \in MayTimeOut /\ capture.at \in {"admitted", "copied"} /\ UNCHANGED capture
    /\ running' = FALSE
    /\ stopping' = {"watchdog"}
    /\ owner' = "joinWatchdog"
    /\ UNCHANGED <<free, ring, queue, encodeOpen, vencVars, muxVars, aenc, watchdog, epoch,
                   submitted, audioMade, faults, fates>>

(* An expired watchdog join costs the observer, not the file.              *)
StopJoinsWatchdog ==
    /\ owner = "joinWatchdog"
    /\ watchdog = "ended" \/ "watchdog" \in MayTimeOut
    /\ stopping' = {"watchdog", "audio"}
    /\ owner' = "joinAenc"
    /\ UNCHANGED <<captureVars, queue, encodeOpen, vencVars, muxVars, aenc, watchdog, running,
                   epoch, submitted, audioMade, faults, fates>>

AudioJoined == aenc = "ended"

StopJoinsAudio ==
    /\ owner = "joinAenc"
    /\ \/ AudioJoined /\ owner' = "audioTail"
       \/ ~AudioJoined /\ "aenc" \in MayTimeOut /\ owner' = "timedOut"
    /\ UNCHANGED <<captureVars, queue, encodeOpen, vencVars, muxVars, aenc, watchdog, running,
                   stopping, epoch, submitted, audioMade, faults, fates>>

(* Mutant: the encode queue is not closed.                                 *)
LeaveEncodeQueueOpen == UNCHANGED encodeOpen
CloseEncodeQueue == encodeOpen' = FALSE

(* The end of the audio track, pushed by the thread that stops; then the   *)
(* encode queue is closed.                                                 *)
StopFlushesAudio ==
    /\ owner = "audioTail"
    /\ PushPacket(Audio(audioMade + 1))
    /\ audioMade' = audioMade + 1
    /\ CloseEncodeQueue
    /\ owner' = "joinVenc"
    /\ UNCHANGED <<captureVars, queue, vencVars, muxOpen, mux, rolls, file, trailer, aenc, watchdog,
                   running, stopping, epoch, submitted, faults, awaiting, dropped, discarded, lost>>

(* Mutant: the flush does not wait for the venc thread.                    *)
VencJoinedAtOnce == TRUE
(* await_worker answers true at once for a thread it cannot join.          *)
VencJoined == venc.at = "ended" \/ detached

StopJoinsVenc ==
    /\ owner = "joinVenc"
    /\ \/ VencJoined /\ owner' = "flush" /\ UNCHANGED detached
       \/ ~VencJoined /\ "venc" \in MayTimeOut /\ owner' = "timedOut" /\ detached' = TRUE
    /\ UNCHANGED <<captureVars, queue, encodeOpen, venc, encoder, muxVars, aenc, watchdog, running,
                   stopping, epoch, submitted, audioMade, faults, fates>>

StopFlushes ==
    /\ owner = "flush"
    /\ \/ DrainOne(0) /\ UNCHANGED <<owner, muxOpen, faults, lost>>
       \/ FlushFails /\ UNCHANGED <<owner, muxOpen>>
       \/ /\ Drained(0)
          /\ muxOpen' = FALSE
          /\ owner' = "joinMux"
          /\ UNCHANGED <<encoder, muxQueue, refused, faults, lost>>
    /\ UNCHANGED <<captureVars, queue, encodeOpen, venc, detached, mux, rolls, file, trailer, aenc,
                   watchdog, running, stopping, epoch, submitted, audioMade, awaiting,
                   dropped, discarded>>

StopJoinsMux ==
    /\ owner = "joinMux"
    /\ \/ mux.at = "ended" /\ owner' = "finalize"
       \/ mux.at # "ended" /\ "mux" \in MayTimeOut /\ owner' = "timedOut"
    /\ UNCHANGED <<captureVars, queue, encodeOpen, vencVars, muxVars, aenc, watchdog, running,
                   stopping, epoch, submitted, audioMade, faults, fates>>

(* A finalization that fails is what stop() returns.                       *)
StopFinalizes ==
    /\ owner = "finalize"
    /\ \/ trailer' = TRUE /\ UNCHANGED faults
       \/ Fails("finalize") /\ UNCHANGED trailer
    /\ owner' = "done"
    /\ UNCHANGED <<captureVars, queue, encodeOpen, vencVars, muxQueue, muxOpen, mux, rolls, file,
                   aenc, watchdog, running, stopping, epoch, submitted, audioMade, fates>>

-----------------------------------------------------------------------------
Submit == SubmitEnters \/ SubmitAcquires \/ SubmitPushes
Venc == VencPops \/ VencConverts \/ VencEncodes \/ VencDrains
Mux == MuxPops \/ MuxRolled \/ MuxWrites
Rebuild == RebuildCloses \/ RebuildJoins \/ RebuildFlushes \/ RebuildReopens
StopProceeds ==
    \/ StopJoinsWatchdog
    \/ StopJoinsAudio
    \/ StopFlushesAudio
    \/ StopJoinsVenc
    \/ StopFlushes
    \/ StopJoinsMux
    \/ StopFinalizes

Next ==
    \/ Submit
    \/ AudioCompletesEpoch
    \/ Venc
    \/ VencThrows
    \/ Mux
    \/ MuxThrows
    \/ AencPushes
    \/ AencEnds
    \/ WatchdogEnds
    \/ Rebuild
    \/ StopBegins
    \/ StopProceeds

(* Every thread runs on while it can: the encoder, the disk and the OS     *)
(* scheduler are assumed to make progress.  A call once begun is carried   *)
(* through; nobody is obliged to begin a submit, a rebuild or a stop.      *)
Fairness ==
    /\ WF_vars(SubmitAcquires \/ SubmitPushes)
    /\ WF_vars(Venc)
    /\ WF_vars(Mux)
    /\ WF_vars(AencPushes) /\ WF_vars(AencEnds)
    /\ WF_vars(WatchdogEnds)
    /\ WF_vars(RebuildJoins \/ RebuildFlushes \/ RebuildReopens)
    /\ WF_vars(StopProceeds)
    /\ WF_vars(StopBegins /\ capture.at = "refused")

Spec == Init /\ [][Next]_vars /\ Fairness

-----------------------------------------------------------------------------
Item == [slot : Slots \cup {NoSlot}, n : Nat, ring : Nat]
Packet == [track : {"none", "video", "audio"}, n : Nat]

TypeOK ==
    /\ capture \in [at : {"idle", "admitted", "copied", "joinVenc", "flush", "open", "refused",
                         "gone"}, slot : Slots \cup {NoSlot}]
    /\ free \subseteq Slots
    /\ ring \in Nat
    /\ queue \in Seq(Item) /\ Len(queue) <= EncodeCapacity
    /\ venc \in [at : {"pop", "convert", "encode", "drain", "ended"}, frame : Item]
    /\ {encodeOpen, detached, muxOpen, running, epoch, trailer} \subseteq BOOLEAN
    /\ encoder \in Seq(Nat)
    /\ muxQueue \in Seq(Packet) /\ Len(muxQueue) <= MuxCapacity
    /\ mux \in [at : {"pop", "rolling", "write", "ended"}, packet : Packet]
    /\ aenc \in {"run", "ended"}
    /\ watchdog \in {"run", "ended"}
    /\ stopping \subseteq {"watchdog", "audio"}
    /\ owner \in {"away", "joinWatchdog", "joinAenc", "audioTail", "joinVenc", "flush", "joinMux", 
                  "finalize", "done", "timedOut"}
    /\ file \in Seq(Packet)
    /\ {submitted, audioMade, rolls} \subseteq Nat
    /\ faults \subseteq MayFail
    /\ awaiting \cup dropped \cup discarded \cup lost \subseteq Nat
    /\ refused \subseteq Packet

QueuedSlots == {queue[i].slot : i \in DOMAIN queue}
SlotsInUse == (QueuedSlots \cup {capture.slot, venc.frame.slot}) \ {NoSlot}

(* "a slot can never be overwritten while it is still queued": a staging   *)
(* slot is on the free list or has one holder -- the capture thread that   *)
(* copies into it, one queue entry, or the conversion that reads it.       *)
SlotsAreExclusive ==
    /\ free \cap SlotsInUse = {}
    /\ capture.slot # NoSlot => capture.slot \notin QueuedSlots \cup {venc.frame.slot}
    /\ venc.frame.slot # NoSlot => venc.frame.slot \notin QueuedSlots
    /\ \A i, j \in DOMAIN queue : i # j => queue[i].slot # queue[j].slot

(* A displaced frame takes its slot with it, but the shortage that causes  *)
(* makes displacement impossible: at most one slot of a ring is ever lost, *)
(* however long the encoder stalls.                                        *)
AtMostOneSlotLeaks ==
    "venc" \notin faults /\ capture.at \in {"idle", "admitted", "copied"} =>
        Cardinality(Slots \ (free \cup SlotsInUse)) <= 1

(* The conversion never reads a texture of a device that was replaced.     *)
NoSlotOfADeadDevice == venc.at = "convert" => venc.frame.ring = ring

(* Where a submitted frame is: counted by get_stats as awaiting the epoch, *)
(* dropped or discarded; gone unreported; in a stage; in the file.         *)
Places ==
    << awaiting, dropped, discarded, lost, FramesIn(refused),
       IF capture.at \in {"admitted", "copied"} THEN {submitted} ELSE {},
       {queue[i].n : i \in DOMAIN queue},
       {venc.frame.n} \ {0}, InEncoder, FramesIn(Elements(muxQueue)),
       FramesIn({mux.packet}), FramesIn(Elements(file)) >>

Unreported == lost \cup FramesIn(refused)

OnePlaceEach ==
    LET places == Places
    IN  /\ UNION Elements(places) = 1 .. submitted
        /\ \A i \in DOMAIN places, j \in DOMAIN places :
              i < j => places[i] \cap places[j] = {}

(* No frame is lost or counted twice on its way: each is in a stage, in    *)
(* the file, or in one counter of get_stats.  As long as nothing fails the *)
(* one exception is the last frame of a recording whose capture thread     *)
(* was given up: a submit that stop() overtook finds the queue closed, and *)
(* nobody counts the frame.  What a failure costs is logged, and counted   *)
(* by nobody.                                                              *)
EveryFrameHasOnePlace ==
    /\ OnePlaceEach
    /\ faults = {} => Unreported \subseteq (IF running THEN {} ELSE {submitted})

(* The file receives each track in order, across rebuilds, the flush, and  *)
(* the packets of the other tracks.                                        *)
FileInOrder ==
    \A i, j \in DOMAIN file :
        i < j /\ file[i].track = file[j].track => file[i].n < file[j].n

(* When the trailer is written nothing that was accepted is still on its   *)
(* way: "drain, then write trailer".  Only a thread that an exception      *)
(* ended leaves something in the queue it was to empty.                    *)
TrailerComesLast ==
    trailer =>
        /\ venc.at = "ended" /\ InEncoder = {} /\ aenc = "ended" /\ mux.packet = Nothing
        /\ queue = <<>> \/ "venc" \in faults
        /\ muxQueue = <<>> \/ "mux" \in faults

(* The mux queue is closed only after everyone who feeds it has finished:  *)
(* no packet, and no tail of the audio track, is turned away.              *)
NoPacketIsRefused == refused = {}

(* A stop that is begun gets to the end of the finalization, which writes  *)
(* the trailer unless it fails -- except behind a mux thread that an       *)
(* exception ended: on the way stop() pushes packets of its own onto the   *)
(* mux queue, without a deadline, and once that is full it waits for ever. *)
StopWritesTheTrailer ==
    owner = "joinWatchdog" ~>
        \/ owner = "done" /\ (trailer \/ "finalize" \in faults)
        \/ "mux" \in faults

(* video_pipeline.cpp:1173: "Sized one deeper than the queue so a slot is  *)
(* available for the frame being copied while the queue is completely      *)
(* full".                                                                  *)
SlotAvailableWhileQueueIsFull ==
    capture.at = "admitted" /\ Len(queue) = EncodeCapacity /\ venc.at # "convert" => free # {}
=============================================================================
