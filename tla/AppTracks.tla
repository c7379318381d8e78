------------------------------ MODULE AppTracks ------------------------------
(***************************************************************************)
(* The per-application audio tracks (pipeline/app_audio_tracks.cpp): which *)
(* process each track follows, and who may attach or detach its source.    *)
(*                                                                         *)
(* A track names its target by executable or by process id.  `start`       *)
(* resolves every track once and attaches a process-loopback source        *)
(* (audio/process_loopback.cpp); after that the thread fc-atracks polls:   *)
(* an attached track is detached when its process has gone, an unattached  *)
(* one is looked up by name again.  Process ids are reused by the system,  *)
(* except while somebody holds a handle of the process, which is what      *)
(* ProcessWatch is for.  `stop` ends the poll with a bounded join, then    *)
(* detaches every track.                                                   *)
(*                                                                         *)
(* Left out: the tracks' encoders and silence generators (module AudioPath *)
(* is that path), the counters, and what is in the sound.                  *)
(***************************************************************************)
EXTENDS Integers, FiniteSets, FiniteSetsExt

CONSTANTS
  Tracks,        \* 1 .. n: the per-application tracks, in the order of the settings
  Names,         \* executables
  Pids,          \* process ids; 0 is "none"
  NameOf,        \* [Tracks -> Names \union {""}]: config.executable
  PidOf,         \* [Tracks -> Pids \union {0}]: config.pid
  Reattach,      \* settings.reattach
  MaxStarts,     \* bound: processes started in one behaviour
  MaxFailures,   \* bound: activations, captures and passes that fail
  PollMayHang,   \* may the join of fc-atracks expire while an activation waits?
  ReusedAtOnce   \* may an id be reused between the lookup and OpenProcess?

ASSUME AppTracksAssumption ==
  /\ IsFiniteSet(Tracks) /\ Tracks = 1 .. Cardinality(Tracks) /\ Tracks # {}
  /\ Pids \subseteq Nat \ {0}
  /\ NameOf \in [Tracks -> Names \union {""}]
  /\ PidOf \in [Tracks -> Pids \union {0}]
  /\ \A t \in Tracks : NameOf[t] # "" \/ PidOf[t] # 0
  /\ {Reattach, PollMayHang, ReusedAtOnce} \subseteq BOOLEAN
  /\ {MaxStarts, MaxFailures} \subseteq Nat

VARIABLES
  proc,       \* [Pids -> 0 .. MaxStarts]: which process runs under an id (0: none)
  image,      \* the executable of the n-th process started
  failures,   \* activations that have failed so far
  track,      \* per track: its source and watch, and what it knows of its target
  seek,       \* the one writer: `start` before the poll exists, then fc-atracks
  closing     \* stop(): how far it is, and whether the join of the poll expired

appVars == <<proc, image, failures, track, seek, closing>>

NoWatch == [pid |-> 0, process |-> 0]
Starts  == DOMAIN image

AppsTypeOK ==
  /\ proc \in [Pids -> Nat]
  /\ image \in [Starts -> Names] /\ Starts = 1 .. Cardinality(Starts)
  /\ failures \in 0 .. MaxFailures
  /\ track \in [Tracks -> [source : Starts \union {0}, hears : BOOLEAN,
                           watch : [pid : Pids \union {0}, process : Starts \union {0}],
                           exited : BOOLEAN, stopPolling : BOOLEAN]]
  /\ seek.phase \in {"start", "rest", "pass", "ended"}
  /\ closing \in [at : {"no", "join", "detach", "done"}, track : Tracks, expired : BOOLEAN]

-----------------------------------------------------------------------------
(* The system's processes *)

\* Mutant: the handle of an attach is closed again before the activation.
HeldByTracks(pid) == \E t \in Tracks : track[t].watch.pid = pid
\* A handle is held by a track's watch, or by an attach that is under way.
Held(pid) == \/ \E t \in Tracks : track[t].watch.pid = pid
             \/ seek.watch.pid = pid
Sought(pid) == ~ReusedAtOnce /\ seek.step = "open" /\ seek.pid = pid

AppStarts(pid, name) ==
  /\ proc[pid] = 0 /\ Cardinality(Starts) < MaxStarts
  /\ ~Held(pid) /\ ~Sought(pid)
  /\ LET n == Cardinality(Starts) + 1
     IN /\ proc' = [proc EXCEPT ![pid] = n]
        /\ image' = [k \in Starts \union {n} |-> IF k = n THEN name ELSE image[k]]
  /\ UNCHANGED <<failures, track, seek, closing>>

AppExits(pid) ==
  /\ proc[pid] # 0
  /\ proc' = [proc EXCEPT ![pid] = 0]
  /\ UNCHANGED <<image, failures, track, seek, closing>>

\* find_process_by_executable: the lowest id of that name, 0 if there is none.
Running(name) == {p \in Pids : proc[p] # 0 /\ image[proc[p]] = name}
Lookup(name)  == IF Running(name) = {} THEN 0 ELSE Min(Running(name))

\* ProcessWatch(pid): a handle of the process that has the id now, if any.
Opened(pid)   == IF proc[pid] = 0 THEN NoWatch ELSE [pid |-> pid, process |-> proc[pid]]
Alive(watch)  == watch.pid # 0 /\ proc[watch.pid] = watch.process

-----------------------------------------------------------------------------
(* attach and detach *)

Seek(phase, t) == [phase |-> phase, track |-> t, step |-> "look", pid |-> 0, watch |-> NoWatch]
LastTrack(t)   == t = Cardinality(Tracks)
\* After a track: the next one, or the end of this pass (or of start's loop).
Onward == IF LastTrack(seek.track) THEN Seek("rest", 1) ELSE Seek(seek.phase, seek.track + 1)

\* Mutant: an exit ends the search whatever the setting says.
DetachedForGood(t, gone) ==
  [track EXCEPT ![t].source = 0, ![t].hears = FALSE, ![t].watch = NoWatch,
                ![t].exited = @ \/ gone, ![t].stopPolling = @ \/ gone]

Detached(t, gone) ==
  [track EXCEPT ![t].source = 0, ![t].hears = FALSE, ![t].watch = NoWatch,
                ![t].exited = @ \/ gone,
                ![t].stopPolling = IF gone THEN ~Reattach \/ NameOf[t] = "" ELSE @]

\* start: config.pid if it has one, the lookup otherwise.  No other writer yet.
StartLooks ==
  /\ seek.phase = "start" /\ seek.step = "look"
  /\ LET t   == seek.track
         pid == IF PidOf[t] # 0 THEN PidOf[t] ELSE Lookup(NameOf[t])
     IN seek' = IF pid = 0 THEN Onward ELSE [seek EXCEPT !.step = "open", !.pid = pid]
  /\ UNCHANGED <<proc, image, failures, track, closing>>

\* poll_targets for one track: dead target, nothing to look for, or a lookup.
PollLooks ==
  /\ seek.phase = "pass" /\ seek.step = "look"
  /\ LET t     == seek.track
         found == Lookup(NameOf[t])
     IN CASE track[t].stopPolling ->
               seek' = Onward /\ UNCHANGED track
          [] ~track[t].stopPolling /\ track[t].source # 0 ->
               /\ seek' = Onward
               /\ track' = IF Alive(track[t].watch) THEN track ELSE Detached(t, TRUE)
          [] ~track[t].stopPolling /\ track[t].source = 0 /\ NameOf[t] = "" ->
               /\ seek' = Onward
               /\ track' = [track EXCEPT ![t].stopPolling = TRUE]
          [] OTHER ->
               /\ seek' = IF found = 0 THEN Onward
                          ELSE [seek EXCEPT !.step = "open", !.pid = found]
               /\ UNCHANGED track
  /\ UNCHANGED <<proc, image, failures, closing>>

\* attach, first half: the handle, before the activation.
OpensWatch ==
  /\ seek.step = "open"
  /\ LET watch == Opened(seek.pid)
     IN seek' = IF ~Alive(watch) THEN Onward
                ELSE [seek EXCEPT !.step = "activate", !.watch = watch]
  /\ UNCHANGED <<proc, image, failures, track, closing>>

\* What an activation at the id captures: the process that has it, or, when it
\* has exited, nothing more of the process the handle keeps the id for.
Captured == IF proc[seek.pid] # 0 THEN proc[seek.pid] ELSE seek.watch.process

\* attach, second half: the source has started, the track takes it.
Attaches ==
  /\ seek.step = "activate"
  /\ track' = [track EXCEPT ![seek.track].source = Captured, ![seek.track].hears = TRUE,
                            ![seek.track].watch = seek.watch, ![seek.track].exited = FALSE]
  /\ seek' = Onward
  /\ UNCHANGED <<proc, image, failures, closing>>

\* The activation is refused or does not answer in five seconds: the handle is
\* closed again and the track stays silent until the next pass.
ActivationFails ==
  /\ seek.step = "activate" /\ failures < MaxFailures
  /\ failures' = failures + 1
  /\ seek' = Onward
  /\ UNCHANGED <<proc, image, track, closing>>

\* The source's capture thread ends on a failed wait; the track keeps the source.
CaptureDies(t) ==
  /\ track[t].hears /\ failures < MaxFailures
  /\ failures' = failures + 1
  /\ track' = [track EXCEPT ![t].hears = FALSE]
  /\ UNCHANGED <<proc, image, seek, closing>>

-----------------------------------------------------------------------------
(* The poll, and stop *)

PollPasses ==
  /\ seek.phase = "rest" /\ closing.at = "no"
  /\ seek' = Seek("pass", 1)
  /\ UNCHANGED <<proc, image, failures, track, closing>>

\* poll_stop is looked at between two passes only.
PollEnds ==
  /\ seek.phase = "rest" /\ closing.at # "no"
  /\ seek' = Seek("ended", 1)
  /\ UNCHANGED <<proc, image, failures, track, closing>>

\* An exception in a pass ends the thread, and nobody starts it again.  What an
\* attach under way has in its hands goes with it.
PollThrows ==
  /\ seek.phase = "pass" /\ failures < MaxFailures
  /\ failures' = failures + 1
  /\ seek' = Seek("ended", 1)
  /\ UNCHANGED <<proc, image, track, closing>>

\* stop() does nothing before start() has returned.
StopTracks ==
  /\ closing.at = "no" /\ seek.phase # "start"
  /\ closing' = [closing EXCEPT !.at = "join"]
  /\ UNCHANGED <<proc, image, failures, track, seek>>

PollHasEnded == seek.phase = "ended"

JoinsPoll ==
  /\ closing.at = "join"
  /\ PollHasEnded \/ (PollMayHang /\ seek.step = "activate")
  /\ closing' = [closing EXCEPT !.at = "detach", !.expired = ~PollHasEnded]
  /\ UNCHANGED <<proc, image, failures, track, seek>>

StopDetaches ==
  /\ closing.at = "detach"
  /\ track' = Detached(closing.track, FALSE)
  /\ closing' = IF LastTrack(closing.track) THEN [closing EXCEPT !.at = "done"]
                ELSE [closing EXCEPT !.track = @ + 1]
  /\ UNCHANGED <<proc, image, failures, seek>>

-----------------------------------------------------------------------------
AppsInit ==
  /\ image \in {[n \in {} |-> ""]} \union [{1} -> Names]
  /\ proc \in [Pids -> {0} \union Starts]
  /\ Cardinality({p \in Pids : proc[p] # 0}) = Cardinality(Starts)
  /\ failures = 0
  /\ track = [t \in Tracks |-> [source |-> 0, hears |-> FALSE, watch |-> NoWatch,
                                exited |-> FALSE, stopPolling |-> FALSE]]
  /\ seek = Seek("start", 1)
  /\ closing = [at |-> "no", track |-> 1, expired |-> FALSE]

AppsSystem ==
  \/ \E pid \in Pids : AppExits(pid) \/ \E name \in Names : AppStarts(pid, name)
  \/ \E t \in Tracks : CaptureDies(t)
  \/ PollThrows

AppsPoll == \/ StartLooks \/ PollLooks \/ OpensWatch \/ Attaches \/ ActivationFails
            \/ PollPasses \/ PollEnds
AppsStop == JoinsPoll \/ StopDetaches

AppsNext == AppsSystem \/ AppsPoll \/ StopTracks \/ AppsStop

AppsSpec == /\ AppsInit /\ [][AppsNext]_appVars
            /\ WF_appVars(AppsPoll) /\ WF_appVars(AppsStop)

-----------------------------------------------------------------------------
(* What the tracks promise *)

\* A track records the very process its watch keeps alive and reports the exit
\* of: "a window in which the target exits, its id is reused, and the watch then
\* follows a process this track was never aimed at" does not exist.
CapturesWhatItWatches ==
  \A t \in Tracks : track[t].source # 0 => track[t].source = track[t].watch.process

\* After stop() has returned with the poll joined, no source is attached, and
\* none ever will be: the poll is ended before the teardown starts.
EverySourceIsStopped ==
  (closing.at = "done" /\ ~closing.expired) =>
    /\ \A t \in Tracks : track[t].source = 0 /\ track[t].watch = NoWatch
    /\ seek.phase = "ended"

\* With re-attachment on, an application that runs for good is on the track
\* that names it in the end, however often it has been restarted before, unless
\* the recording stops or an exception has ended the poll.
Follows(t) == /\ track[t].source # 0 /\ Alive(track[t].watch)
              /\ image[track[t].source] = NameOf[t]
AReturningTargetIsPickedUp ==
  \A t \in Tracks :
    (Reattach /\ NameOf[t] # "" /\ <>[](Running(NameOf[t]) # {} /\ closing.at = "no" /\ ~PollHasEnded))
      => <>[]Follows(t)
=============================================================================
