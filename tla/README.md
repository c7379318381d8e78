# FrameCapture: a TLA+ model of the recording engine

This directory holds the specifications of FrameCapture: TLA+ modules translated
from the C++ source of the engine (`engine/core`) and from the part of the GUI
that drives it (`gui/framecapture_gui`), TLC configurations that check them on
small instances, and theorems checked by TLAPS. Line numbers refer to the source
at the commit beside which this directory lies; `PROJECT.json` maps every
definition to its lines.

## 1. Inventory

The engine is one process with a fixed set of threads. A recording is made by

    capture ──encode queue──> venc ──encoder──> mux queue ──> mux ──> file
    audio/silence ──audio queue──> aenc ─────────^
    watchdog, session-watch, fc-preview, fc-atracks, fc-ipc, heartbeat, main

and driven by the GUI, another process, over a pipe.

| Component | State it keeps | Operations | Talks to | What is hard |
|---|---|---|---|---|
| Bounded queues (`util/bounded_queue.h`) | ring, head/tail/size, closed, drop counter | push, pop, close, reopen | every stage | lost wake-ups, wrap-around, draining at close, reopen |
| Video pipeline (`pipeline/video_pipeline.cpp`) | staging ring, two queues, encoder, muxer, epoch, ladder requests | submit, venc/mux/watchdog loops, rebuild_device, pause/resume, stop | capture thread, audio path, session | slot ownership, shutdown order, expired joins, rebuild under live threads |
| Timing (`timing/*`, `SessionEpoch`, `PauseClock`, `Pacer`) | t0, paused total, last PTS index | note_video/note_audio, pause/resume/locate, decide/retime/reserve_discontinuity | capture, audio, venc, control | torn reads of three atomics, strict PTS order through retime/pause/rebuild |
| Audio path (`pipeline/audio_path.cpp`, `audio/audio_timeline.cpp`) | timeline, held buffers, drift loop, sample pool | offer, request_silence, migrate_to, place, finish | aenc thread, mux queue | gaps and overlaps, device migration, epoch not yet known |
| Audio encoder and drift control (`encode/aac_encoder.cpp`, `audio/drift_compensator.cpp`) | staged samples, packets' times, compensation | feed, flush, measure | audio path | refusals in the middle of a frame, a loop that must settle |
| Sources of sound (`audio/loopback_capture.cpp`, `process_loopback.cpp`) | client, events, promise | start, pump, stop | audio path, tracks | announcements heard once, an activation that completes on another thread |
| Per-application tracks (`pipeline/app_audio_tracks.cpp`) | one encode path per track, attach state | start, poll_targets, attach/detach, tick, stop | process loopback | reused process ids, a poll that outlives its join |
| Capture backends (`capture/*`) | duplication or frame pool, queue, liveness | start, acquire, release, stop | capture thread | access lost, targets that close, references of textures |
| Video encoder (`encode/h264_encoder.cpp`) | slice pool or one frame, forced IDR | submit, receive, flush | encode stage | buffers the codec still refers to |
| Recording session (`pipeline/recording_session.cpp`) | pipeline, capture backend, flags between three threads | start, stop, pause, resume, rebuild, watch | pipeline, device watcher, IPC | one fault one rebuild, rollover, pause across a rollover |
| Segmentation and recovery (`mux/segment_planner.cpp`, `mux/recovery.cpp`) | current segment, origin, sidecar | offer, note_split, roll_segment, finalize, recover | mux thread, next launch | no frame lost at a split, crash at any moment leaves a recoverable file |
| Muxer (`mux/muxer.cpp`) | streams and their units, origin | open, write, finalize, remux, validate | mux thread, recovery | three units per packet, a copy that ends early |
| Degradation ladder (`health/health_monitor.cpp`) | latches with hysteresis, rung | evaluate | watchdog | flapping, terminal rungs, pause |
| Preview (`preview/*`) | shared ring with sequence locks | begin/publish, reader latest/still_valid | GUI process | torn frames |
| Device watcher (`gpu/device_watcher.cpp`) | pending report, baseline, settle window | report, poll, acknowledge | capture, session watch | lost or repeated reports |
| Adapter selection (`gpu/adapter_selector.cpp`, `gpu_topology.cpp`, `encoder_probe.cpp`) | topology snapshot | select | session | rule precedence |
| IPC (`ipc/pipe_server.cpp`, `ipc/engine_service.cpp`) | connection, session under lock | request/response, events | GUI | requests racing stop and exit, a full pipe |
| Lifecycle (`ipc/lifecycle.cpp`) | exit request, heartbeat, job | exit, suspend, release | main, fc-ipc | exactly-once shutdown, a busy engine is not a lost host |
| Configuration (`config/*`, `util/atomic_write.cpp`) | settings, document, file | load, merge, save | IPC | keys of a newer build, a cut between two steps of a replacement |
| GUI (`gui/framecapture_gui`) | request table, reader thread, state shown, recovery list | request, read loop, restart, close | engine | late answers, three writers of one state, restarts |
| Logging, errors, colour conversion | - | sinks, converters | - | - |

`PROJECT.json` has a row for each component with what is modelled and what is
not, and the list of hazards, each at its line.

### What makes each part correct

- **Queues**: bounded; first in, first out; a displaced value is counted; a
  blocked thread is released by room, a value or the close; nothing of one run
  is seen in the next.
- **Pipeline**: a staging texture has one user at a time; a frame is in the file,
  counted, still on its way, or was lost by a failure; the trailer is written last and always; nothing
  of a lost device is used after the rebuild.
- **Timing**: PTS rise strictly and without holes through retiming and rebuild;
  a pause takes out the same span of video and of audio.
- **Session**: one fault, one rebuild; every file closed; stop always answers
  with a report; a pause outlives a rollover.
- **Files**: a split loses no frame and starts at a keyframe; an unfinished
  recording keeps its record until it has been validated; a packet keeps its
  instant whatever unit the container chose; the file is never given up for a
  copy that lacks something of it.
- **Audio**: the track lies on the shared epoch through silence, a pause and a
  change of endpoint; every sample is coded once; the drift does not last.
- **Sources and tracks**: no sound is left that nothing announces; a track
  records the process it was aimed at, and finds it again when it comes back.
- **Capture and encoder**: every texture has a holder until it is released; a
  packet shows the picture of its time stamp.
- **Ladder**: a rung engages, holds and releases without flapping.
- **Preview**: what is painted from a slot that was left alone is one picture.
- **Service**: every recording is finalized once before the job is released,
  whoever asked for the exit; a busy engine is not mistaken for a lost host.
- **Configuration**: a failed or interrupted save leaves a readable file, with
  the keys this build does not know.
- **GUI**: once all is quiet the window shows the engine's state, and no
  unfinished recording is forgotten.

## 2. Plan

| # | Module | Composes or refines | State |
|---|---|---|---|
| 1 | `BoundedChannel` | the abstract queue | done |
| 2 | `BoundedQueue` | implements `BoundedChannel` | proved, the refinement too: `BoundedQueue_proofs` |
| 3 | `VideoPipeline` | uses its queues as `BoundedChannel` has them | safety proved: `VideoPipeline_proofs` |
| 4 | `FramePacer` | - | proved: `Timeline_proofs` |
| 5 | `VideoTimeline` | extends `FramePacer`, whose operators are part of its actions | safety proved: `Timeline_proofs` |
| 6 | `PauseResume` | - | safety proved, seam and placement: `Timeline_proofs` |
| 7 | `DeviceWatcher`, `RecordingSession` | `RecordingSession` extends `DeviceWatcher` | safety proved: `RecordingSession_proofs` |
| 8 | `Segments` | - | safety proved: `Timeline_proofs` |
| 9 | `MuxFile` | one file, below `Segments` | the stamps proved, and that only an examined copy replaces the file: `Sidelines_proofs` |
| 10 | `AudioPath` | with the clock as `PauseResume` has it at rest | safety proved: `AudioPath_proofs` |
| 11 | `AacTrack`, `DriftControl` | the end of an audio path and its control loop | `AacTrack`'s safety proved: `Sidelines_proofs`; `DriftControl` model-checked |
| 12 | `Endpoint`, `AppTracks` | the sources of sound, and who attaches them | safety proved: `Sidelines_proofs` |
| 13 | `Capture`, `H264Encoder` | the two ends of the video pipeline | safety proved: `Picture_proofs` |
| 14 | `Ladder` | asks what `VideoTimeline` takes | safety proved: `Sidelines_proofs` |
| 15 | `EngineService` | drives the session's commands | safety proved: `EngineService_proofs` |
| 16 | `GuiEngine` | the other end of `EngineService`'s pipe | safety proved: `Timeline_proofs` |
| 17 | `Preview` | - | safety proved: `Picture_proofs` |
| 18 | `ConfigStore` | - | proved: `Sidelines_proofs` |
| 19 | `MCTimeline`, `MCSidelines` | several of the above in one run | done |

Theorems still worth proving: that what `Muxer::validate` accepts is complete (the
second half of `NothingIsGivenUpForAPartialCopy`, and `AGoodReportPlaysToTheEnd`), the
type invariant of `DriftControl`, how far an item looked up during a resume can be out
(`NeverFurtherThanThePauses`), and the other properties that section 5 names at its end
and section 6 does not.

What the model could still be given: `AudioPath`, with two endpoints and the
clock's atomics together (its state space is at the limit of TLC as it is); a
composition of `GuiEngine` with `EngineService`; the resolution of capture
targets.

## 3. The modules

Every action carries the name of the function, or the part of one, that it
models; `PROJECT.json` gives the lines. Parts of a function are separate actions
only where another thread can run between them: at a lock's release, at an
atomic load or store that another thread pairs with, or at a blocking call.
Operators whose comment starts "Mutant" are plausible bugs; nothing uses them,
and `PROJECT.json` says which definition each one replaces to show that a
property can fail.

The modules named `..._proofs` extend the modules they are about and hold the
inductive invariants, lemmas and theorems of section 6. They define no behaviour of
their own, and no run uses them. Each is about the modules whose name it bears, or,
where parts share nothing but a subject, about several: `Timeline_proofs` about
`FramePacer`, `VideoTimeline`, `Segments`, `PauseResume` and `GuiEngine` (the parts of
`MCTimeline`), `Picture_proofs` and `Sidelines_proofs` about parts of `MCSidelines`,
`Capture`, `H264Encoder` and `Preview` in the one, `Endpoint`, `AppTracks`, `AacTrack`,
`MuxFile`, `Ladder` and `ConfigStore` in the other.

### BoundedChannel, BoundedQueue (`util/bounded_queue.h`)

`slots`, `head`, `tail`, `size`, `closed` and `dropped` are the members of the class.
Each critical section is one action. The notification that follows the unlock is
a second action, so a waiting thread can be woken late, or another thread can
take what it was woken for: `pc` says whether a thread is about to notify,
waiting, or woken and about to re-examine its predicate. Values are
numbered in the order of acceptance. `BoundedChannel` is the same queue as a
sequence; `ImplementsChannel` maps the ring to the sequence it holds.

### VideoPipeline (`pipeline/video_pipeline.cpp`, `util/worker.h`)

One variable per thread (`capture`, `venc`, `mux`, `aenc`, `watchdog`, `owner`),
holding where it is and what it carries, and the shared state between them:
`free` and `ring` (the staging ring and which device it belongs to), the two
queues, `encoder` (frames it has not emitted), `muxQueue`, and what the file
holds. Locks of the queues are not repeated here: `BoundedQueue` shows that they
give atomic pushes and pops. `rebuild_device` is the `Rebuild` actions on the
capture thread, `stop` the `Stop` actions on `owner`, in the order of the code:
watchdog, audio, encode queue, venc, flush, mux queue, mux, trailer. Joins are
bounded in the code; a join in `MayTimeOut` may expire, and the thread is then
detached and goes on. `faults` is the set of what has failed, out of `MayFail`: an exception
that ends venc or mux through its catch clause (mux's leaves its queue open), a write, a
flush or a receive of the encoder, the finalization; the watchdog's exception is an end like
any other (`WatchdogEnds`). `rolls` counts the moments the mux thread spends in a rollover.
`EveryFrameHasOnePlace` says of the places a frame can be in (a stage, the file, one
counter of `get_stats`, or gone and reported by none: `lost`, `refused`) that they are
pairwise disjoint and make up `1 .. submitted`, and that as long as nothing fails nothing
is gone but the one frame whose submission a stop overtook.

### FramePacer, VideoTimeline (`timing/frame_pacer.cpp`, `encode_one`)

`FramePacer` is `decide`, `retime` and `reserve_discontinuity` on integers, with
the code's two-part rounding; `written` is the sequence of PTS handed out, in order. `VideoTimeline` is the thread that calls them: the
ladder's request applied before a frame, the frame converted, duplicates and frame
submitted one by one, any of which can fail, and `rebuild_device`'s new encoder; `file` is
what the encoders are given, each PTS with the picture under it.
The encoder is external: its first packet decodes `max_b_frames` slots early, those after
it advance, and the last one, at the flush of a rebuild, decodes no later than its PTS.
`GridsAssumption` says that every slot of the ladder's grid is one of the configured
grid: 30 or 60 frames a second can be configured (`config_schema.cpp:108`) and
the ladder halves them (`health_monitor.cpp:197`). Without it `NoDecodeTimeGoesBack` is false:
a slot the pacer reserves on one grid may begin before one of the other.

### PauseResume (`timing/pause_clock.h`, `pause`/`resume`)

The five fields of `PauseClock` are atomics and each load and store is a step;
the command thread, one capture thread and one encode thread per stream run
between them, with no restriction on when an item comes. `spans`, `placed`, `thrown` and
`astray` are history: an item is `astray` if a resume stored a field between the first and the
last load of its lookup, or if two pauses have followed it, for which `locate` has no field. `locate`'s floor at zero
is kept out of reach: items are captured after the epoch. `PlacedExactly` asks the
reference question tick by tick, how many ticks before the item were paused ones, and
not by the sum of spans that the clock keeps.

### DeviceWatcher, RecordingSession (`gpu/device_watcher.cpp`, `pipeline/recording_session.cpp`)

`DeviceWatcher` is report, poll and acknowledge; each report carries the number
of the device stack it is about, which the code does not have and only the
properties read. `RecordingSession` has the capture thread's loop and rebuild
step by step, the watch thread's poll and decision, the command thread's pause,
resume and stop, and an environment that loses devices, kills the backend,
moves adapters and makes the ladder ask. A lost device is reported by the test seam only
(`InjectDeviceError`), as in the code; the capture thread goes on acquiring in vain. The pipeline is seen through its
interface; `files` gives each file's state.

### Segments, MuxFile (`mux/*`, `roll_segment`, `stop`'s finalization)

`Segments` is which file a packet goes to: the planner's marks, the mux thread's
rollover (open the next, close the previous, write), the steps of finalization,
the sidecar, and recovery at the next launch, with a death of the process possible
between any two steps. Time is counted in frames, size in packets. `MuxFile` is one
of those files from the inside: what is written has a time in its producer's unit
and a stamp in the container's; the copy, its second attempt
without a reserved index, what `validate` measures at both ends (`UpTo` the head's end, `From`
the tail's start), and the swap, each of which can fail or end early.

### AudioPath, AacTrack, DriftControl (`pipeline/audio_path.cpp`, `audio/*`, `encode/aac_encoder.cpp`)

`AudioPath` has the capture, silence, aenc and owner threads around the audio
queue: a packet is offered, waits for room, is held until the epoch, then placed:
the gap before it filled, an overlap trimmed. A migration opens the next endpoint,
takes its seam, and queues an item behind which the timeline is new; `behind` is history, the
pauses that such new timelines count a second time. An exception can end either thread:
aenc's leaves its queue open. What was held
before the epoch is replayed item by item when it comes (`Replayed`). A duration is
counted in time, whatever the rate. `AacTrack` is what becomes of the placed
samples: staged into frames, refused by the codec at any sample, resumed, flushed.
`EverySampleIsCodedOnce` is about the places a sample can be in, coded, in the codec,
staged or still offered, which joined in this order are the samples of the track.
`DriftControl` is the loop around both: the length of the track, measured once a
second, and the compensation the resampler is asked for.

### Endpoint, AppTracks (`audio/loopback_capture.cpp`, `process_loopback.cpp`, `pipeline/app_audio_tracks.cpp`)

`Endpoint` is a source of either kind: the opening (for an application with the
asynchronous activation), the promise that tells the caller, the wait on two
events, the drain with each call that may fail, the stop. `AppTracks` is who
attaches a source to which track: processes that start, exit and have their ids
reused; lookup, handle and attachment as three steps; the poll, the exception that ends it
for good, and the stop.

### Capture, H264Encoder (`capture/*`, `encode/h264_encoder.cpp`)

`Capture` has both backends behind the same interface: one caller, one worker,
callbacks of the system, the queue that displaces its oldest frame, and for each
texture the number of references there are. `H264Encoder` has the pool of slices
and the one software frame, each with the references the codec holds, the keyframe
request, and the submissions, receives and flushes that may fail.

### Ladder (`health/health_monitor.cpp`)

The latches with their ages in ticks, the window of drops, the stall detector, the
choice of the rung, and the venc thread applying what was asked. The weather (queue,
frames, disk, pause) is the environment. Ages stop where they no longer matter,
so that behaviours are infinite and liveness can be checked.

### Preview (`preview/*`)

The offering thread with its staging surfaces and hand-off of one, the writer, and
the GUI in the other process: the index, the image laid over the slot, the second look
at the index, and, later and as often as the window asks, the painting out of the slot. A slot
is two halves, written and painted apart.

### EngineService, GuiEngine (`ipc/*`, `gui/framecapture_gui`)

`EngineService` has the fc-ipc thread's wait for a client, which can fail and end it, its
pump and dispatch, the session under `session_mutex`, stats and state events on the same bounded pipe, the heartbeat, and
the exit from its four sources through the main thread to the release of the job.
The recording is `RecordingSession`'s interface. `GuiEngine` is the other end:
requests by the GUI and the command thread, answers matched by id (a thread may be
overtaken by any number of events before it acts on its answer: `misled`), the reader that
dispatches events, leaving, restarting, and the list of recordings to recover.

### ConfigStore (`config/*`, `util/atomic_write.cpp`, the two handlers)

The file, the engine's document and settings, the requests that change them, and
the replacement of the file in the steps that a kill or a power cut can separate.

### MCBoundedQueue, MCVideoPipeline, MCTimeline, MCSidelines

The first two give constants. `MCTimeline` and `MCSidelines` put parts that share no
state into one specification: `part` chooses one of them at the start, the others
rest in an initial state. The states of such a run are the sum of the parts', and a
property of one part is vacuous in the others' behaviours only.

## 4. The runs

| Run | Asks | Bounds |
|---|---|---|
| `MuxQueue` | Is every blocked producer released, whatever the order of unlock, notify and wait? | three threads on a Block queue of 2, 5 pushes |
| `EncodeQueue` | Is a displacing queue still a FIFO, and an implementation of the channel, also after a reopen? | capacity 3, 8 pushes (the ring wraps twice), 1 reopen |
| `Pipeline` | Do frames keep one place and slots one user through displacement, faults, expired joins and a rebuild, and does every stop end with the trailer, last? | 2 slots, both queues of 1, an encoder that delays by 1, 3 frames, 1 audio packet, 1 rebuild, 1 rollover, one kind of failure out of five; capture and watchdog joins may expire |
| `Timeline`, part pacer, track | Are PTS on the grid and rising, and what the encoder is given in order, through retiming, faults and rebuilds? | 12 units to a second, rates 4 and 2, 3 frames, 4 reserved slots, reorder depth 2, 2 rebuilds |
| `Timeline`, part pause | Is every item placed with exactly the pauses before it taken out? | video and audio, 2 items each, 2 pauses, 8 ticks |
| `Timeline`, part segments | Does a split, or a death at any step, lose something? | 5 frames, 2 audio packets, parts of 2 frames or 3 packets, 1 refused file, 2 deaths |
| `Timeline`, part gui | Does the window end up right, and is each recovery heard about? | 3 requests, 2 unfinished recordings, 1 timeout or death, 2 engines |
| `Session` | Do faults, rebuilds, pauses and stop compose? | 2 faults of any kind, 1 pause |
| `Service` | Does every recording get finalized, and does the engine exit? | 1 connection, 2 requests of any kind, 2 recordings, a pipe of 1 frame, a timeout of 1 tick |
| `Audio` | Does audio stay in step, and does the stop return? | packets of 1, a period of 2, a queue of 1, 6 ticks, 2 packets, 1 pause, 1 migration that may fail, stop and exceptions at 3; silence and aenc joins may expire |
| `Sidelines` | Ten parts, below | below |
| `SegmentsRecovery`, `AudioEpoch`, `CaptureLost`, `ActivationLate` | the findings, section 7 | as the runs above |

| Part of `Sidelines` | Bounds |
|---|---|
| apps | a track by name and one by id, 2 executables, 2 ids, 3 starts, 1 failed activation, a poll that may hang |
| preview | 3 slots, 2 staging surfaces, 4 pictures, 2 rings |
| ladder | holds of 3 and 2 ticks, a window of 2, the disk looked at every 2, 4 changes of the weather |
| config | versions 1 to 3 of which 2 is current, 2 saves, 2 failures, kills or cuts |
| mux | pictures, two tracks of sound, up to 6, 4 and 3 packets; origins 0 and 8; units of 12, 6, 4 and 10 to a second; 2 faults |
| capture | a queue of 2, 6 textures, 5 frames, 2 starts, 2 faults |
| sound | 3 packets, 2 openings, 2 faults, both kinds of source |
| encoder | a pool of 2, 5 submissions, 2 keyframe requests, 1 fault, both paths |
| aac | frames of 2 samples, 7 samples and a tail, 2 stalls, 1 fault of the codec |
| drift | a clock off by 1 in 2 seconds either way or not at all, 2 losses of 2, a compensation over 3 seconds, 1 refusal, 1 rebuilt resampler |

Each bound is a constant of the module (`MaxFrames`, `MaxFaults`, ...) in the
guard of the action it limits. They are chosen so that the interesting case
occurs, and more than once where repetition matters: the encode queue fills and
displaces; the ring wraps; a rebuild happens with frames in every stage; two
pauses follow each other with items before, inside and after; a second fault
comes during the rebuild for the first, or a death during the recovery from a
death; a process exits, its id is taken, and it comes back; a writer laps the
reader; a compensation is replaced while it acts; a frame is refused in its middle
and at the end. Two slots and queues of one make the pipeline's resources run out
in every way that more of them would. Units that do not divide each other make
both roundings of a stamp inexact. Deadlock is not an error in these runs: their
systems stop, or reach the bounds. No run uses symmetry.

**Fairness.** Weak fairness of each thread's own steps: the OS runs every thread and
the codec and the disk return. A call once begun goes on; none has to be made.
No fault is fair. What goes beyond, or is worth a reason:

- queue: a condition variable owes a woken thread one re-examination only; a
  waiter that loses the race waits again, and `BlockedPushReturns` holds because
  consumers go on.
- session: the 500 ms poll comes again and again (`WF_vars(Watch)`), and the settle
  window ends. That anybody reports a failed device is not assumed.
- service: time passes (`SF_vars(Tick)`: it is disabled only between two loads of
  the heartbeat thread); a host that is there reads its pipe; and a thread that waits
  for room in the pipe gets it (strong fairness of the steps that write to it),
  although fc-stats, which sleeps half a second between its frames, writes too.
- audio: a push that waits for room gets it if there is room again and again
  (strong fairness): the queue's lock is not owned by one producer for ever.
- ladder, tracks, drift: the watchdog, the poll and the measurement of each second come again;
  sound or silence goes on, so the drift is measured again.

**Assumptions of the runs.**
- `Timeline`, pause: an audio item may still be on its way when a pause ends
  (`LateStreams`), a video frame is not: in the code the quiesce looks at the queue
  only, and a frame that venc or capture holds is let through (section 7). `PlacedExactly`
  does not need it (TLC finds it to hold with both streams late, up to 6 ticks or one item each),
  `SeamIsAKeyframe` does.
- `Timeline`, gui: the engine is not restarted while a recovery is queued
  (`MayAbandon = FALSE`; section 7 has what happens then). The end of a
  dead engine's pipe is seen well within a request's timeout.
- `Timeline`, segments: writes succeed, and the queue's limit is `BoundedQueue`'s matter.
- `Session`: the two races in `Excluded` do not happen (section 7), pause and
  resume do not overlap the closing of a file (`CloseFile`), and a capture thread that `stop` gave up
  on stays stuck in its finalization.
- `Pipeline`: the joins of venc, mux and the audio worker do not expire, as the
  trailer is asked for. A rebuild that stops on an expired join and the stop
  after it is modelled; the detached thread's use of the encoder at the same
  time is not (section 7).
- `Service`: no tick passes between the heartbeat thread's two loads. The recording's
  own stop, with the joins that bound it, ends (`SessionStops`).
- `Audio`: a migration comes after the epoch has settled; the new endpoint's packets
  are stamped after its opening and the seam is taken when its start returns; the
  silence thread looks once a tick; the races in `Excluded` do not happen: a pause between
  a new endpoint's opening and its seam, a tick of silence stamped after a seam and queued
  before it (section 7), and, of no effect with one pause, a pause begun while something
  from before the last one is on its way. No tick passes during the stop. What was recorded
  inside a pause but placed after it, and what comes before the epoch (run `AudioEpoch`), is
  exempt from `AudioStaysInStep`; after a migration the track may be ahead by a packet,
  and behind by the pauses before it (`behind`, section 7). Six ticks are too few for
  `TheTrackCatchesUp` to be broken after a pause, where its bound is twice as large: it is
  checked before one.
- `Sidelines`: an id found by a lookup is not reused before it is opened
  (`ReusedAtOnce`); fc-preview ends within its join; an existing configuration can be read
  (`ReadMayFail`), nobody edits it meanwhile, and it does not start with the one
  combination that is refused; the target does not close before the worker runs
  (`ClosesEarly`), nor does a callback outlive its pool (`LateArrival`); a late
  completion of an activation is over before the next start. Where an assumption
  is a constant, the other value lets TLC show what it hides (section 7).
- The codecs are external. Both take input in order; that of sound refuses only
  while a packet can be collected and holds one frame back until its end is marked;
  that of video reads a buffer at the latest when it emits its packet. The resampler
  spreads a compensation evenly. `DriftAssumption`: losses stay below the hard limit,
  and the clock gains less in a window than is ignored.

## 5. What the runs show

Passing runs: all states within the bounds satisfy the properties listed in
`PROJECT.json`, which also has for every one of them a mutated definition under
which TLC finds it violated. In words:

- **Queues.** The ring holds the newest accepted values in order
  (`HoldsTheNewestInOrder`), as a channel would (`ImplementsChannel`); no blocked
  producer is forgotten (`BlockedPushReturns`), although `notify_one` is called after
  the unlock and producers and consumers use one condition variable each.
- **Pipeline.** A staging slot has one user (`SlotsAreExclusive`), a frame one
  place, and without a failure one that `get_stats` can tell (`EveryFrameHasOnePlace`); a rebuild hands the new
  device's stage no texture of the old (`NoSlotOfADeadDevice`); a stop ends, and
  everything accepted and not lost to a failure is in front of the trailer
  (`TrailerComesLast`, `StopWritesTheTrailer`).
- **Timing.** No PTS is handed out twice or goes back at any rate (`PtsStrictlyIncreases`);
  what the encoders of a recording are given rises in time and never shows an older picture
  after a newer, though a batch be abandoned in its middle (`PicturesAdvance`); and the slots skipped at a rebuild are
  enough for the new encoder's early decode times (`NoDecodeTimeGoesBack`), also when
  the ladder has lowered the rate before.
- **Pause.** What is placed lands at its own time less the pauses before it, unless a resume
  met its lookup or two pauses have passed it, and is then out by no more than those pauses
  (`PlacedExactly`); the first frame after a pause is a keyframe (`SeamIsAKeyframe`).
- **Session.** A rebuild answers a fault of the stack it takes apart; a pause means
  the same to the gate and to the clock of a pipeline opened during it; every file is
  closed; a dead backend, a reported error of the device and a change of adapters are
  answered (`FaultsAreAnswered`).
- **Files.** No packet is lost at a split, also when the next file cannot be
  opened; the record of an unsegmented recording outlives any two deaths of the
  process until the file has been validated. In one file every stamp is its packet's
  instant, whatever unit the container chose (`EveryPacketKeepsItsMoment`), and a
  copy replaces the original only when it is complete, but for one of recovery's that a
  read error cut (`NothingIsGivenUpForAPartialCopy`).
- **Audio.** What is written lies where its stamp says, within the jitter that is not
  repaired, through silence, overlaps, a pause and a migration, and behind by no more than
  the pauses before the migration (`AudioStaysInStep`); a silent endpoint does not leave the track behind (`TheTrackCatchesUp`); the stop
  returns though a thread without a deadline may wait for room in the queue,
  unless an exception has ended aenc by then (`StopReturns`). A sample is coded once, whatever the codec refuses
  (`EverySampleIsCodedOnce`); the drift comes back below what is ignored
  (`DriftComesBack`).
- **Sources and tracks.** A packet left in the device still has its event
  (`EveryPacketIsAnnounced`). A track records the process whose exit it watches
  (`CapturesWhatItWatches`), and an application that stays is on its track in the end,
  as long as no exception ends the poll (`AReturningTargetIsPickedUp`).
- **Capture and encoder.** Each reference of a texture has one holder, and a stopped
  backend none (`EveryTextureIsAccountedFor`). A packet shows the picture submitted
  with its stamp (`PacketsShowTheirPictures`).
- **Ladder.** When the weather turns fair for good, the ladder lets go of every rung
  and the full rate is back (`RecoversWhenClean`).
- **Preview.** What is painted out of a slot that has not been lapped when the painting
  ends is one picture (`PaintsWholePictures`).
- **Service.** When the job is released every recording is finalized
  (`EveryRecordingIsFinalized`), whichever of a stop, the exit and a request served
  meanwhile came first; the preview is not unmapped under a writer
  (`NoWriterOnAClosedRing`); only silence of a whole timeout with no command served
  counts as a lost host (`ABusyEngineIsNotALostHost`); an engine asked to exit, or
  left by its host, exits (`EngineExits`).
- **Configuration.** Keys this build does not know stay in the file, through failed and
  interrupted saves (`UnknownKeysSurvive`).
- **GUI.** With nothing asked or on its way the window shows the engine's state, unless the
  last to write it was a thread whose answer an event had overtaken
  (`QuietWindowShowsTheEngine`); a list of recoveries is worked through
  (`NoRecoveryIsForgotten`).

**Stated, in no run.** The modules state more than the runs check: a type invariant
each (`TypeOK`, `PauseTypeOK`, `SegTypeOK`, ...), and consequences or weaker relatives of
the above: `EveryValueIsAccountedFor`, `RingShape`, `NothingSurvivesReopen`,
`DrainedBeforeEnd`, `DeliveredInOrder` (`BoundedQueue`); `FileInOrder`,
`NoPacketIsRefused`, `AtMostOneSlotLeaks` (`VideoPipeline`); `UntouchedUntilTheSwap`,
`ReplacedOnlyByTheExamined` (`MuxFile`); `TimelineHasNoHole`,
`ShownNearItsTime`, `TrackIsContiguous`; `NoFrameIsLostAtTheSeam`;
`SegmentsStartAtAKeyframe`, `SegmentsFollowTheTriggers`; `AdaptersAreFollowed`;
`EverySourceIsStopped`, `NoMultitrackInMp4`, `AGoodReportPlaysToTheEnd`,
`EverySurfaceHasOnePlace`, `ALiveBackendHasATarget`,
`StopLeavesNothingBehind`, `OneRequestOneKeyframe`, `LetsGoOnlyWhenClean`,
`AReadableFileStaysReadable`, `AnswersReachTheirRequest`, `LeavingKeepsTheRecording`.
TLC found each of them to hold on the instances of the runs; add its name to the
configuration to see it again. Three that it found violated,
`SlotAvailableWhileQueueIsFull`, `NoRequestIsDropped` and `LostDevicesAreReplaced`, are in
section 7.

## 6. What is proved

`tlapm` checks these for every value of the constants, from the `...Assumption`s of
the modules and, where a theorem has an `ASSUME`, from that hypothesis. Such a
hypothesis is always an exclusion or a bound of the runs as well (section 4); what it hides
is in section 7. A safety theorem has three parts: an invariant that is inductive,
a lemma per kind of step that it is preserved, and that it implies the property.

**`BoundedQueue_proofs`**: `TypeCorrect`, `RingIsFifo`, `NoSilentLoss`,
`BlockIsLossless`, `ConsumersDrain`, `ReopenStartsClean`, `PopsInOrder`. `RingIsFifo` is
the run property `HoldsTheNewestInOrder`; the others are in no run. All follow from
one inductive invariant, `IInv`. The contents of the ring alone are not inductive: a
pop is right only if `tail` follows from `head` and `size` (`RingShape`), a reopen leaves
nothing behind only if what was accepted before it is below the oldest queued value
(`Marks`), and a consumer's end is final only if the queue it leaves is closed and
empty (`DrainedBeforeEnd`). The case that matters is a displacement at the wrap-around.
`ImplementsTheChannel` is the refinement: by `RingIsFifo`'s invariant the ring holds the last `size`
numbers up to the count of accepted values, so that what the refinement mapping reads
from the ring is that sequence, and each critical section appends to it, removes from its head, does
both, empties it, or leaves it alone. It needs one fact more, `CloserTells`: the
closing thread notifies only a closed queue, which the channel's close is.

**`VideoPipeline_proofs`**, for any capacities, slots, delay and bounds:

- `TypeCorrect`, `NoSlotHasTwoHolders`, `OnlySlotsOfThisDevice` from `SlotInv`. That no
  slot of a dead device is converted rests on `QueueIsOfThisRing`: what is queued is of
  the ring in place, except between the end of venc and the new ring of the rebuild.
- `TrailerIsLast`, `NoPacketIsTurnedAway` from `StopInv`, if venc's join does not expire
  (`"venc" \notin MayTimeOut`; the others may), whatever else fails. It says how far `stop` is in terms of what
  is left to do: `StopStages`, what an ended thread leaves behind, that the mux queue
  is closed only behind its feeders, and that a rebuild under way holds `stop` back.
- `FramesHaveOnePlace` from `PlaceInv` and `Losses`, if venc's join does not expire: the
  places stay disjoint and complete whatever fails, and nothing goes unreported before
  something fails, because a queue holds no frame twice (`EntriesDiffer`) and a thread that holds none
  says so (`InHand`).
- `OneSlotIsLostAtMost`, that `AtMostOneSlotLeaks`, by counting. A frame is displaced only from a
  full queue, by a frame that has a slot of its own; a ring has one slot more than the queue has
  entries, so the two use all of it and no slot was lost before. That as many slots are in use as
  the queue is long is a bijection (`QueueCountsItsSlots`).

**`Timeline_proofs`**, about the parts of `MCTimeline`:

- Pacer: `TypeCorrect`, `IndexFollowsPts`, `PtsIncrease` (the run property
  `PtsStrictlyIncreases`), `NoHole`, `FramesAreShownInTheirSlot` (`ShownNearItsTime`). `IInv` adds
  to `OnGrid` that everything handed out is at or below `lastPts` and that nothing is before
  the epoch; within one batch the duplicates and the frame rise slot by slot. The work is in the arithmetic of slots: retiming divides `lastPts` by the new slot
  length, and `SlotOf`, `NextSlot` and `RetimedIndex` say that the quotient is the slot
  `lastPts` lies in; `NearestSlot`, that the division in two parts rounds as one would.
- Track: `TrackPtsIncrease` (the run property `PicturesAdvance`), `TrackShowsPicturesInTime` and
  `DecodeTimesAdvance`. `FileRises` carries the first: what the encoders were given is behind the
  pacer and behind what is still to be submitted, also after a batch is abandoned. The last needs
  `TrackInv`: what is still to be submitted rises and lies between the encoder and the
  pacer (`BatchRises`), the muxer is behind the encoder (`MuxerIsBehind`), and wherever the
  next picture falls after a rebuild, its early decode time is above the
  last one written (`FreshHasRoom`). It uses `GridsAssumption` (section 3).
- Segments: `SplitsLoseNothing`, from `InOrder`: the files hold the frames up to some `w`, the mux
  thread the next, the queue those after it. `RecordOutlivesTheRecording`, from
  `ClaimedUntilValid`: the record of an unsegmented recording goes only when the one
  file it names is valid, through deaths at any step.
- Pause: `SeamsAreKeyframes`, if no video frame is looked up after the pause it was captured
  before (`"video" \notin LateStreams`). `PauseInv` follows a resume through its
  stores: behind the gate nothing moves (`GateHolds`), nothing on its way is older
  than a completed pause (`NoneIsOlder`), and after each pause a keyframe has been
  shown first or is still owed (`KeyframesAreOwed`). `PausesAreCutExactly` (`ExactUnlessAstray`, the
  first half of `PlacedExactly`) and `OnlyThePausedIsThrown` are about the arithmetic of the same
  stores. The first assumes nothing of when items come, the second what `SeamsAreKeyframes` does:
  by `ExactInv` the clock's fields say, store by store, what the completed pauses are
  (`ClockIsRight`, `SpansInOrder`), and what an encode thread has read so far, unless it is astray,
  is what it needs to place its item (`ReadRight`).
- Window: `NoRecoveryForgotten` (`MayAbandon = FALSE`), and `QuietWindowsShowTheEngine`, with
  no hypothesis. Its property speaks only of a quiet window, so its invariant has
  to say what every frame on its way will do to the window: a frame that no later event
  overtakes carries the engine's state (`FramesAreCurrent`), and a window that is wrong
  is owed a correction by an event, a request under way or a queued stop, or was written from an
  answer that an event had overtaken and says so (`WindowIsRight`).
  `AnswersReachTheirAsker` (`AnswersReachTheirRequest`) and `LeavingFinishesTheFile`
  (`LeavingKeepsTheRecording`) need no hypothesis: no id is given twice, so that an answer on its
  way is its request's (`PipeInv`); and a window goes after its engine, and an engine that is down
  has finished its file unless it died (`DepartureInv`).

**`RecordingSession_proofs`**, for any number of faults, pauses and races:
`SessionTypeCorrect`, `FilesAreClosed`, `PausesAgree` from `SessionInv`, which says of
each place of the capture thread what of the stack is there (`PipelineInv`, `BackendInv`,
`ReportInv`) and who may answer for the file (`AnswerInv`). `RebuildsHaveTheirFault` adds
`RequestInv`, one request at a time and about the stack in place; it is false if a
poll may fall between the exchange and the store after it, and assumes that none does
(`"pollInTheWindow" \in Excluded`). `ChangesAreFollowed` (`Excluded = RaceNames`) is
about adapters that change during a rebuild: `FollowInv` carries from which of them
the selection was made.

**`EngineService_proofs`**, for any recordings, timeout and room in the pipe:
`ServiceTypeCorrect`; `NothingIsLeftUnfinished` from `FilesInv` (the session is the one
live recording, a stop begun is in one thread's hands, and in the second round of the exit nobody
serves the host); `WritersHaveTheirRing` from `RingInv`; and the action property
`ServingIsNotSilence` from `HeartInv`: outside a command the silence measured is at most the
real one.

**`Picture_proofs`**: `PacketsAreTheirPictures`, `RequestsAreCodedOnce` from `EncoderInv`
(no buffer the codec refers to is written, and a request travels with its picture);
`TexturesAreAccountedFor` from `GrabInv`, if no callback outlives its pool
(`LateArrival = FALSE`): each reference count is the number of holders, a cardinality
argument per step; `PicturesArePaintedWhole` from `LapInv`, for any number of slots and of rings
under the name: the slots within a lap of the index hold whole pictures (`RecentAreWhole`), the
writer's next slot, modulo their number, is none of those, and what has been painted of an image
that is still among them is what its slot holds (`PaintIsTrue`); `PreviewTypeCorrect`.

**`AudioPath_proofs`**: `AudioTypeCorrect`, and `SoundStaysInStep` (`AudioStaysInStep`) for every
packet, period, jitter, queue and number of pauses and migrations. `AudioInv` follows a packet from its
capture to the track: what is held by a thread, in the queue, or back until the epoch ends no later than
the present and belongs to its endpoint (`OnTheWay`, `QueueInOrder`, `HeldInOrder`); a change of endpoint
comes behind all that was captured before it and ahead of all that was captured after it, outside any
pause, and not before what the track has reached (`Follows`, `SeamsInOrder`); and what has been written for
an endpoint begins in step and goes on in step (`TrackInStep`), so that the track gets ahead by less than
a period and a packet for each endpoint, and behind by what `behind` says. With pauses the invariant
has to say what the clock still makes of a moment: nothing that waits, or may still be captured, is looked up
as though it came before the beginning of its timeline (`Sound`; `Recent` for what is still to come), and a track
has reached a moment when its head is within `Lead` of it (`Reached`). The replay
of what was held is a recursive function over a sequence; `ReplayKeeps` shows what it preserves
without an induction theorem, by taking the least place at which it would fail. Assumed:

- `Duration <= Period`: a packet is no longer than the silence thread's period (10 ms against 20 ms
  in the code). A longer one whose beginning is trimmed may span a pause.
- `RaceNames \subseteq Excluded`: the two races at the seam (section 7), and that no pause begins while
  something from before the last one is on its way (`NothingIsOld`): `locate` knows the last pause only,
  so that a packet or a seam queued before two pauses is looked up by the wrong one.

**`Sidelines_proofs`**, about six parts that share no state:

- Sources and tracks: `PacketsAnnounced`, `NothingIsLeftBehind` from `EndpointInv` (what the
  caller, the thread and the client are doing fits together: `SourceStages`);
  `WatchIsTheSource`, `IdsAreNotReused`, `StoppedTracksStayStopped` from `AppsInv`: a handle
  keeps its id from being given away (`SeekHoldsTheId`, `WatchedIdsAreKept`), so that the
  process that is recorded is the one that is watched, from the lookup on.
- Files: `PacketsKeepTheirMoment`, `MuxTypeCorrect` from `MuxInv`. While a file is open each
  stamp in it is `StampOf` the time accepted (`StampsAreGiven`); that this is the instant is arithmetic:
  one rounding is off by half a unit of what it rounds to (`RescaledIsNear`), and
  `RoundingsAdd` puts the two of them, in different units, together. `RecordingsAreUntouched` and
  `CopiesAreExamined` from `KeptInv`: the file is what its writing left until the swap, and in the
  place of the swap the staged copy is one that was accepted in this very attempt. So the first
  half of `NothingIsGivenUpForAPartialCopy` is proved.
- Coded sound: `AacTypes`, `SamplesAreCodedOnce` from `AacInv`: coded, in the codec, staged and
  given samples, joined, are in order (`InOrder`), and until the codec fails complete (`Complete`);
  it then refuses a frame only while another waits to be collected, so that no
  attempt is given up (`AacFlow`). It assumes `MaxStalls > 1`, the bound
  at which the encoder is given up (`kMaxEncoderStalls`, 64, `audio_path.cpp:35`).
- Ladder: `RungsDoNotFlap`, `LadderTypeCorrect` from `LadderInv`: a latch that is clearing has been
  clean for longer than it has counted (`CountsCleanTicks`). What triggers it is left open.
- Settings: `ReadableFilesStay`, `UnknownKeysStay`, `HalvesExcludeEachOther` from `ConfigInv`: only
  what has been flushed replaces the file (`OnlyFlushedReplaces`), and what is written
  carries the keys of the document (`DocumentKeepsThem`). Keys are lost if the file
  cannot be read at a start, so `UnknownKeysStay` assumes that it can
  (`ReadMayFail = FALSE`); the others do not.

**Model-checked only.**

- Every liveness property: fairness and `ENABLED` are out of the prover's reach.
- Of the safety properties of the runs, the second half of `NothingIsGivenUpForAPartialCopy`: that a
  copy which passes the examination ends where the recording did. It is about selections out
  of two sequences of stamps and about tolerances that are tuned to each other.
- Not attempted: the type invariant of `DriftControl`, and the others of section 5's last
  paragraph that no theorem above names.

No module declares a RECURSIVE operator.

## 7. Where the code and its comments part

Four runs state what a comment says and TLC shows the code doing otherwise:

1. `SegmentsRecovery`: the record of a segmented recording names the base path
   (`video_pipeline.cpp:1114`), under which no file exists; recovery finds it missing and
   removes the record, and the interrupted part is never finalized
   (`recovery.cpp:208`, against `recovery.h:141`).
2. `AudioEpoch`: `locate` floors a position before the start at zero
   (`pause_clock.h:219`), so a packet recorded before the first frame is written whole
   at the epoch and displaces what belongs there, against `audio_timeline.cpp:99`.
3. `CaptureLost`: `open_duplication` gives the old duplication up before it asks for a
   new one (`dda_capture.cpp:270`); when that is refused the next round has none and the
   worker ends, against `dda_capture.cpp:120`, "so the worker can back off and retry".
4. `ActivationLate`: the completion handler of an activation lies on the stack of a
   thread that waits for it with a deadline (`process_loopback.cpp:165`); a callback
   after the deadline runs in a dead frame, against `:88`.

The following came up with TLC while the models were written and have no run of
their own: a property or an assumption named in section 4 excludes each.

*Pipeline, pause, session*

- `submit` does not give back the staging slot of the frame that a full encode queue
  displaces (`video_pipeline.cpp:1225`), so that a full queue leaves no slot for the
  frame being copied, against `:1173` (`SlotAvailableWhileQueueIsFull`). Later frames
  are then refused, and one slot is all that is lost (`AtMostOneSlotLeaks`).
- `stop` after a refused rebuild flushes the encoder under the detached venc thread
  (`:1412`, `:1424`); a rebuild destroys the encoder while the watchdog or the
  rollover reads it (`:1270`, `:499`, `:758`); a join that expires leaves a thread that
  goes on with both (`:1256`).
- Duplicates of the previous frame are submitted from the converter's one
  texture, which already holds the new picture (`:481`, against `frame_pacer.h:62`).
- `locate` loads the total first and the rest after (`pause_clock.h:201`, `:205`, `:218`), and `resume`
  stores the span, the beginning, the total and the flag one by one: a lookup that meets a resume
  between two of its loads, or two of the resume's stores, lands its item out by a pause, against
  `:13`. Only audio can, video being held by the gate. The quiesce lets through a frame that venc or
  capture holds (`video_pipeline.cpp:1723`, against `pause_clock.h:40`); an item looked up
  a whole pause late is placed by the wrong span, and one captured inside a pause is
  refused only while it lasts (`:206`, `:208`, against `:26`).
- A failed `avcodec_send_frame` uses up the forced IDR (`h264_encoder.cpp:505`), so a
  resume's keyframe can be lost, against `h264_encoder.cpp:118`, "one request codes one
  IDR" (`NoRequestIsDropped`).
- Nothing in production calls `DeviceWatcher::report_device_error`: the capture thread discards
  what `acquire` answers (`recording_session.cpp:650`), and `inject_device_error`, which tests use, is the one
  caller (`:1077`). A lost device is noticed by the change of adapters it may come with, or by a
  backend that ends, or not at all (`LostDevicesAreReplaced`, which TLC finds violated when it is added to
  `Session.cfg`), against `:654` and `device_watcher.h:170`.
- An exception in `mux_loop` leaves its queue open (`video_pipeline.cpp:837`), and the flushes of `stop`
  and of the audio path push to it without a deadline: a stop may wait for ever. A failed write (`:828`), a
  failed flush (`:1419`), what a thread that threw had in hand, and a frame that meets the closed queue
  (`:1228`) are in no counter of `get_stats`.
- A pause during a rollover is unknown to the new pipeline until it is told
  (`recording_session.cpp:673`, against `:1014`). Pausing while the capture thread
  lets the pipeline go uses it after its end (`:725`).
- Between `rebuild_pending`'s exchange and the store after it the watch thread can
  poll and ask again (`:616`); an adapter change during a rebuild becomes the baseline
  unseen (`device_watcher.cpp:292`). Drop the entry from `Excluded` in `Session.cfg` to
  see either. After a failed rollover the report `stop` returns can be an earlier
  file's (`recording_session.cpp:265`, against `recording_session.h:262`).

*Sound*

- A pause between a new endpoint's opening and the seam, or a tick of silence stamped
  after the seam and queued before it, leaves the track behind or ahead for good (drop
  the entry from `Excluded` in `Audio.cfg`), against `test_audio_path.cpp`'s "a
  migration must never shorten it". So does every migration after a pause: the fresh timeline
  starts at the seam (`audio_path.cpp:597`), but `locate` goes on subtracting the pauses before it
  (`pause_clock.h:201`, `:218`), so that all that follows is behind by them, against "Chained, not rebased"
  (`audio_path.cpp:595`). `AudioStaysInStep` counts that (`behind`). An exception in `aenc_loop` leaves its
  queue open (`:692`); a capture thread that waits for room is then waited for by `stop` without a
  deadline (`:1183`; `Stranded`). A migration during a pause leaves the gap before
  it unfilled; packets between `capture.start` and `migrate_input` are converted with
  the old format; the new sink does not say when its first packet comes; a failed
  `reconfigure_input` banks its seconds twice. `migrate_to` is called by tests only.
- A failing codec takes the rest of a frame that has already been counted as written:
  the packets' times stay behind and the drift control cannot see it. Beyond the
  second limit a drift is reported and stays, against `drift_compensator.h:17`
  (`audio_path.cpp:395` gives the reason).
- After a failed call of the device, or a sink that throws, `running()` stays true; a
  buffer that could not be released makes every later `GetBuffer` fail, against
  `loopback_capture.cpp:250`. If the opening throws, the promise is never kept and
  `start` waits for ever.
- The poll can wait 5 s for an activation, its join 2 s: it can attach a source after
  `stop` has detached them all, against "so nothing attaches a source while sources
  are being torn down". An exception ends the poll for good (`app_audio_tracks.cpp:410`;
  `PollHasEnded`). An id reused before `OpenProcess` records another application
  (`ReusedAtOnce`). A capture thread that dies leaves its track attached and silent.

*Capture, preview, ladder*

- A target that closes before the worker has set `running` leaves a backend that is
  alive for ever (`ClosesEarly`, `ALiveBackendHasATarget`), against
  `wgc_capture.cpp:231`; `acquire`'s predicate ignores `running`, so nobody finds out
  "now". `start` may return before `running` is set. A callback under way pushes after
  the drain (`LateArrival`). Every queued DDA frame refers to the one copy. A reopened
  duplication whose texture cannot be made is live and never delivers.
- The GUI looks at the index a second time when it lays its image over the slot
  (`preview.py:265`), and paints from the slot later, as often as asked, without another look
  (`panels.py:114`): a picture whose painting goes on past one more publication may be torn,
  against `panels.py:97`, by which a slot stays intact for two and a lapped one is "dropped
  rather than painted torn". A ring replaced under it goes unnoticed; it looks at the
  magic once. After an expired join the staging surfaces are cleared under the thread.
- After a resume a tick before the first frame takes the pause for a stall, against
  `health_monitor.h`'s "must not read as a stall", and a long pause counts as clean
  operation. `note_device_failure` has no caller and nothing sets `capture_failed`:
  rungs 4 and 7 never engage.

*Files, configuration, service, GUI*

- Recovery hands validation no length (`recovery.cpp:215`), so a copy that a read error cut
  (`muxer.cpp:874` takes it for the end) is swapped in (`CutByRecovery`), against
  `muxer.cpp:1207`. A file of which only one picture decodes passes on the
  container's duration; a gap before the last picture is measured as that picture's
  length. The check for first frames that do not decode cannot fail. A failed first
  attempt at a copy restarts a percentage called monotonic (`muxer.h:69`). A report of
  an invalid copy describes the file that was removed. `finalize` after a failed
  trailer returns ok.
- A file of a newer schema is rewritten with this build's version by `save_config`,
  though the warning says that "the file will not be rewritten". A file that cannot be
  read becomes defaults, which the next save writes over it (`ReadMayFail`).
  `configure` reads "encoder" as the GPU override, `save_config` as the encoder,
  against "the two must not diverge". A file with several tracks and MP4, written by
  hand, makes every later request refused; a save that fails leaves its settings in
  force.
- During the exit `finalize_for_exit` closes the preview while the stop under way may
  hold a writer, against "no writer is still holding the pages". A host that is frozen
  with its pipe full stops the exit for ever. `timeline_ms` is per segment
  (`engine_service.cpp:422`, against `video_pipeline.h:181`); segments before the last
  are never remuxed; a second `stop` answers with an error though it is called
  idempotent; `current_output` is that of the start (`:788`, `:834`). A pipe whose wait for a
  client fails ends `serve_loop` (`pipe_server.cpp:230`, `:247`): if no host was heard
  before, the engine stays, with nobody to tell it anything.
- Three threads write the state shown: one that has its answer and is overtaken by a later
  event writes the older state over it, for instance a stop's "idle" over a start's
  "recording" (`misled`), and only the next write of the state ends it; the statistics, twice a
  second, do not write it. A restart while a recovery is queued drops it without an answer, and
  "A recovery is already running" is the answer to every later one until the GUI
  restarts (`MayAbandon`). Late answers stay in `_pending` for ever; `close` notifies
  another condition than the one a request in flight waits on, and returns at once when
  the reader has ended, leaving the pipe open. An engine's death is not shown
  before the next command, against `engine.py:36`. After a failed start nothing offers
  a start before a restart. Leaving waits 30 s and then kills a finalization that
  takes longer.

## 8. Not modelled

Adapter selection is a pure table of rules that the tests cover case by case; what
feeds it asks DXGI and the drivers. (Read, not modelled: rule 2's cost is the largest
of the measured adapters', `measure_transfer_costs` is called by tests only, and the
cache of capabilities keeps a probe that failed in passing.) Colour conversion is
arithmetic on pixels. Logging and error names hold no state of a recording.

Error paths left out: a write that FFmpeg refuses (`muxer.cpp:628`), after which the
packet is missing from the file, is `VideoPipeline`'s failed write and not `MuxFile`'s; the
exception that ends the watchdog is `VideoPipeline`'s and not `Ladder`'s, whose liveness speaks of a
watchdog that goes on.

Of the components modelled in part, what is left out holds no state another part
depends on, or is a pure transformation: formats and their negotiation, the
choice of encoder options, resolving a capture target, the layout of frames and
messages, parsing and the ranges of settings, the preview's scaling and rate, the GUI's
widgets, queries and heartbeat. The resampler's banked seconds and the device clock's
cross-check are left out of `AudioPath` for its size. Windows, the drivers and FFmpeg
appear as what they may answer.
