-------------------------- MODULE Sidelines_proofs --------------------------
(***************************************************************************)
(* The parts beside the recording itself, for every value of their         *)
(* constants: the sources of sound and the tracks they are attached to,    *)
(* the stamps in a file, the ladder's latches, the settings' file, and the *)
(* samples on their way through the audio encoder.                         *)
(***************************************************************************)
EXTENDS Endpoint, AppTracks, MuxFile, Ladder, ConfigStore, AacTrack, FiniteSetTheorems,
        SequenceTheorems, WellFoundedInduction, TLAPS

(* How far start() has come, from what the thread and the caller hold.  A  *)
(* client that streams has a thread past its opening behind it, and only a *)
(* caller inside start() or stop() has one before.                         *)
SourceStages ==
  /\ pump \in {"opens", "activates", "activated"} => caller = "waiting" /\ opening = "none"
  /\ pump \in {"none", "opens", "activates", "activated"} => ~streaming
  /\ pump \in {"waits", "looks", "sinks"} => caller # "idle"
  /\ caller \in {"started", "joining"} => opening = "ok"
  /\ caller = "idle" => ~streaming
  /\ caller \in {"idle", "joining"} => ~marked
  /\ opening = "failed" => pump = "ended" /\ ~streaming

PacketsOfAStream ==
  /\ ~streaming => packets = 0
  /\ pump = "sinks" => packets > 0
  /\ packets <= sourceTally.arrivals

EndpointInv == EndpointTypeOK /\ SourceStages /\ PacketsOfAStream /\ EveryPacketIsAnnounced

LEMMA EndpointStep ==
  ASSUME EndpointInv, [EndpointNext]_sourceVars
  PROVE  EndpointInv'
  <1>0. MaxArrivals \in Nat /\ MaxOpenings \in Nat /\ SourceFaults \in Nat
    BY EndpointAssumption
  <1>t. /\ packets \in 0 .. MaxArrivals /\ sourceTally.arrivals \in 0 .. MaxArrivals
        /\ sourceTally.openings \in 0 .. MaxOpenings /\ sourceTally.faults \in 0 .. SourceFaults
    BY DEF EndpointInv, EndpointTypeOK
  <1> USE <1>0, <1>t
      DEF EndpointInv, EndpointTypeOK, SourceStages, PacketsOfAStream, EveryPacketIsAnnounced,
          PumpAt
  <1>1. CASE OpensSource
    BY <1>1 DEF OpensSource
  <1>2. CASE SourceStarted
    BY <1>2 DEF SourceStarted
  <1>3. CASE SourceRefused
    BY <1>3 DEF SourceRefused, ThreadIsOver
  <1>4. CASE StopsSource
    BY <1>4 DEF StopsSource
  <1>5. CASE SourceJoined
    <2>1. EndpointTypeOK'
      <3>1. packets' \in 0 .. MaxArrivals
        BY <1>5 DEF SourceJoined, ThreadIsOver
      <3>2. {marked, stopEvent, bufferEvent, streaming, inHand, lapse, handler}' \subseteq BOOLEAN
        BY <1>5 DEF SourceJoined, ThreadIsOver
      <3>3. sourceTally' \in [arrivals : 0 .. MaxArrivals, openings : 0 .. MaxOpenings, faults : 0 .. SourceFaults]
        BY <1>5 DEF SourceJoined, ThreadIsOver
      <3>4. /\ source' \in {"device", "process"}
            /\ caller' \in {"idle", "waiting", "started", "joining"}
            /\ opening' \in {"none", "ok", "failed"}
            /\ pump' \in PumpAt
            /\ callback' \in {"none", "due", "runs", "signalled"}
        BY <1>5 DEF SourceJoined, ThreadIsOver
      <3> QED BY <3>1, <3>2, <3>3, <3>4
    <2>2. SourceStages'
      BY <1>5 DEF SourceJoined, ThreadIsOver
    <2>4. PacketsOfAStream'
      BY <1>5 DEF SourceJoined, ThreadIsOver
    <2>3. EveryPacketIsAnnounced'
      BY <1>5 DEF SourceJoined, ThreadIsOver
    <2> QED BY <2>1, <2>2, <2>3, <2>4
  <1>6. CASE IssuesActivation
    BY <1>6 DEF IssuesActivation
  <1>7. CASE CallbackProceeds
    BY <1>7 DEF CallbackProceeds
  <1>8. CASE ActivationEnds
    BY <1>8 DEF ActivationEnds
  <1>9. CASE ActivationTimesOut
    BY <1>9 DEF ActivationTimesOut
  <1>10. CASE SourceOpens
    <2>1. EndpointTypeOK'
      BY <1>10 DEF SourceOpens, AtTheClient
    <2>2. SourceStages' /\ PacketsOfAStream'
      BY <1>10 DEF SourceOpens, AtTheClient
    <2>3. EveryPacketIsAnnounced'
      BY <1>10 DEF SourceOpens, AtTheClient
    <2> QED BY <2>1, <2>2, <2>3
  <1>11. CASE SourceOpenFails
    BY <1>11 DEF SourceOpenFails, AtTheClient, SourceFails
  <1>12. CASE PacketArrives
    BY <1>12 DEF PacketArrives
  <1>13. CASE PumpWakes
    BY <1>13 DEF PumpWakes
  <1>14. CASE PumpEnds
    BY <1>14 DEF PumpEnds, SourceFails
  <1>15. CASE ObtainsBuffer
    BY <1>15 DEF ObtainsBuffer
  <1>16. CASE DrainEnds
    <2>1. EndpointTypeOK'
      <3>1. packets' \in 0 .. MaxArrivals
        BY <1>16 DEF DrainEnds, SourceFails
      <3>2. {marked, stopEvent, bufferEvent, streaming, inHand, lapse, handler}' \subseteq BOOLEAN
        BY <1>16 DEF DrainEnds, SourceFails
      <3>3. sourceTally' \in [arrivals : 0 .. MaxArrivals, openings : 0 .. MaxOpenings, faults : 0 .. SourceFaults]
        BY <1>16 DEF DrainEnds, SourceFails
      <3>4. /\ source' \in {"device", "process"}
            /\ caller' \in {"idle", "waiting", "started", "joining"}
            /\ opening' \in {"none", "ok", "failed"}
            /\ pump' \in PumpAt
            /\ callback' \in {"none", "due", "runs", "signalled"}
        BY <1>16 DEF DrainEnds, SourceFails
      <3> QED BY <3>1, <3>2, <3>3, <3>4
    <2>2. SourceStages' /\ PacketsOfAStream'
      BY <1>16 DEF DrainEnds, SourceFails
    <2>3. EveryPacketIsAnnounced'
      BY <1>16 DEF DrainEnds, SourceFails
    <2> QED BY <2>1, <2>2, <2>3
  <1>17. CASE ReleasesBuffer
    <2>1. EndpointTypeOK'
      <3>1. packets' \in 0 .. MaxArrivals
        BY <1>17 DEF ReleasesBuffer, BackToTheDrain
      <3>2. {marked, stopEvent, bufferEvent, streaming, inHand, lapse, handler}' \subseteq BOOLEAN
        BY <1>17 DEF ReleasesBuffer, BackToTheDrain
      <3>3. sourceTally' \in [arrivals : 0 .. MaxArrivals, openings : 0 .. MaxOpenings, faults : 0 .. SourceFaults]
        BY <1>17 DEF ReleasesBuffer, BackToTheDrain
      <3>4. /\ source' \in {"device", "process"}
            /\ caller' \in {"idle", "waiting", "started", "joining"}
            /\ opening' \in {"none", "ok", "failed"}
            /\ pump' \in PumpAt
            /\ callback' \in {"none", "due", "runs", "signalled"}
        BY <1>17 DEF ReleasesBuffer, BackToTheDrain
      <3> QED BY <3>1, <3>2, <3>3, <3>4
    <2>2. SourceStages' /\ PacketsOfAStream'
      BY <1>17 DEF ReleasesBuffer, BackToTheDrain
    <2>3. EveryPacketIsAnnounced'
      BY <1>17 DEF ReleasesBuffer, BackToTheDrain
    <2> QED BY <2>1, <2>2, <2>3
  <1>18. CASE ReleaseFails
    BY <1>18 DEF ReleaseFails, SourceFails
  <1>19. CASE SinkThrows
    BY <1>19 DEF SinkThrows, SourceFails
  <1>20. CASE UNCHANGED sourceVars
    BY <1>20 DEF sourceVars
  <1> QED
    BY <1>1, <1>2, <1>3, <1>4, <1>5, <1>6, <1>7, <1>8, <1>9, <1>10, <1>11, <1>12, <1>13, <1>14,
       <1>15, <1>16, <1>17, <1>18, <1>19, <1>20 DEF EndpointNext

LEMMA EndpointInvHolds == EndpointSpec => []EndpointInv
  <1>1. EndpointInit => EndpointInv
    <2> SUFFICES ASSUME EndpointInit PROVE EndpointInv
      OBVIOUS
    <2>1. MaxArrivals \in Nat /\ MaxOpenings \in Nat /\ SourceFaults \in Nat
      BY EndpointAssumption
    <2>2. sourceTally \in [arrivals : 0 .. MaxArrivals, openings : 0 .. MaxOpenings,
                          faults : 0 .. SourceFaults]
      BY <2>1 DEF EndpointInit
    <2>3. EndpointTypeOK
      BY <2>1, <2>2 DEF EndpointInit, EndpointTypeOK, PumpAt
    <2> QED
      BY <2>3 DEF EndpointInit, EndpointInv, SourceStages, PacketsOfAStream,
                  EveryPacketIsAnnounced
  <1> QED BY <1>1, EndpointStep, PTL DEF EndpointSpec

(* capture_loop drains until GetNextPacketSize says 0, and the event is    *)
(* reset by the wait and not by the drain: the thread never sleeps on a    *)
(* packet whose event was consumed, whatever arrived while it drained.     *)
THEOREM PacketsAnnounced == EndpointSpec => []EveryPacketIsAnnounced
  BY EndpointInvHolds, PTL DEF EndpointInv

(* stop() and the failing start() join the thread before they return: no   *)
(* sink is called afterwards, nothing streams, running() is false.         *)
THEOREM NothingIsLeftBehind == EndpointSpec => []StopLeavesNothingBehind
  <1>1. EndpointInv => StopLeavesNothingBehind
    BY DEF EndpointInv, SourceStages, StopLeavesNothingBehind, EndpointTypeOK, PumpAt
  <1> QED BY <1>1, EndpointInvHolds, PTL

-----------------------------------------------------------------------------
(* The per-application tracks, for every number of tracks, ids and names,  *)
(* whatever the poll and the system's processes do.                        *)

StartsAreCounted == \E n \in Nat : Starts = 1 .. n

SeekTypeOK ==
  seek \in [phase : {"start", "rest", "pass", "ended"}, track : Tracks,
           step : {"look", "open", "activate"}, pid : Pids \union {0},
           watch : [pid : Pids \union {0}, process : Starts \union {0}]]

(* What an attach under way has in hand.  The handle in seek.watch keeps   *)
(* the id: it is the process's or nobody's.                                *)
SeekHoldsTheId ==
  /\ seek.step # "look" => seek.pid # 0 /\ seek.phase \in {"start", "pass"}
  /\ seek.step # "activate" => seek.watch = NoWatch
  /\ seek.step = "activate" => /\ seek.watch.pid = seek.pid /\ seek.watch.process # 0
                              /\ proc[seek.pid] \in {0, seek.watch.process}

(* A watched id is its process's or nobody's: it is not used again.        *)
WatchedIdsAreKept ==
  \A t \in Tracks : track[t].watch.pid # 0 =>
     track[t].watch.process # 0 /\ proc[track[t].watch.pid] \in {0, track[t].watch.process}

(* How far stop() is, when the poll was joined in time.                    *)
DetachedSoFar ==
  /\ closing.at \in {"no", "join"} => closing.track = 1
  /\ closing.at \in {"detach", "done"} /\ ~closing.expired => seek.phase = "ended"
  /\ closing.at = "detach" /\ ~closing.expired =>
       \A t \in Tracks : t < closing.track => track[t].source = 0 /\ track[t].watch = NoWatch
  /\ closing.at = "done" /\ ~closing.expired =>
       \A t \in Tracks : track[t].source = 0 /\ track[t].watch = NoWatch

ProcessesAreStarts == \A p \in Pids : proc[p] \in Starts \union {0}

AppsInv == /\ AppsTypeOK /\ StartsAreCounted /\ ProcessesAreStarts /\ SeekTypeOK
           /\ SeekHoldsTheId /\ WatchedIdsAreKept /\ DetachedSoFar /\ CapturesWhatItWatches

LEMMA TracksAreCounted == Cardinality(Tracks) \in Nat \ {0} /\ Tracks = 1 .. Cardinality(Tracks)
  <1>1. Cardinality(Tracks) \in Nat
    BY AppTracksAssumption, FS_CardinalityType
  <1> DEFINE n == Cardinality(Tracks)
  <1>2. n \in Nat /\ Tracks = 1 .. n /\ Tracks # {}
    BY <1>1, AppTracksAssumption
  <1> HIDE DEF n
  <1>3. n # 0
    BY <1>2
  <1> QED BY <1>2, <1>3 DEF n

LEMMA TracksAscend == \A t \in Tracks : t \in Nat /\ 1 <= t /\ t <= Cardinality(Tracks)
  <1> DEFINE n == Cardinality(Tracks)
  <1>1. n \in Nat /\ Tracks = 1 .. n
    BY TracksAreCounted
  <1> HIDE DEF n
  <1>2. \A t \in Tracks : t \in Nat /\ 1 <= t /\ t <= n
    BY <1>1
  <1> QED BY <1>2 DEF n

LEMMA AppsBounds == MaxFailures \in Nat /\ MaxStarts \in Nat /\ Reattach \in BOOLEAN
  BY AppTracksAssumption

(* A set of naturals has a least element: what Min chooses exists.        *)
LEMMA LeastOfNaturals ==
  ASSUME NEW S \in SUBSET Nat, S # {}
  PROVE  \E p \in S : \A q \in S : p <= q
  <1> DEFINE R == {ss \in Nat \X Nat : ss[1] < ss[2]}
  <1>1. IsWellFoundedOn(R, Nat)
    BY NatLessThanWellFounded DEF OpToRel
  <1>2. \E x \in S : \A y \in S : ~(<<y, x>> \in R)
    <2> HIDE DEF R
    <2> QED BY <1>1, WFMin
  <1>3. \A x, y \in Nat : y < x => <<y, x>> \in R
    OBVIOUS
  <1> HIDE DEF R
  <1>4. PICK x \in S : \A y \in S : ~(<<y, x>> \in R)
    BY <1>2
  <1>5. ASSUME NEW y \in S PROVE x <= y
    <2>1. x \in Nat /\ y \in Nat /\ ~(y < x)
      BY <1>3, <1>4
    <2> QED BY <2>1
  <1> QED BY <1>5

(* find_process_by_executable answers an id or none.                       *)
LEMMA LookupIsAnId == ASSUME NEW name PROVE Lookup(name) \in Pids \union {0}
  <1>1. CASE Running(name) = {}
    BY <1>1 DEF Lookup
  <1>2. CASE Running(name) # {}
    <2>1. Running(name) \in SUBSET Nat
      BY AppTracksAssumption DEF Running
    <2>2. \E p \in Running(name) : \A q \in Running(name) : p <= q
      BY <2>1, <1>2, LeastOfNaturals
    <2>3. Min(Running(name)) \in Running(name)
      BY <2>2 DEF Min
    <2> QED BY <2>3, <1>2 DEF Lookup, Running
  <1> QED BY <1>1, <1>2

LEMMA OnwardIsASearch ==
  ASSUME SeekTypeOK
  PROVE  /\ Onward \in [phase : {"start", "rest", "pass", "ended"}, track : Tracks,
                        step : {"look"}, pid : {0}, watch : {NoWatch}]
         /\ Onward.phase \in {"rest", seek.phase}
  BY TracksAreCounted DEF Onward, Seek, SeekTypeOK, LastTrack

LEMMA AppsInitEstablishes == AppsInit => AppsInv
  <1> SUFFICES ASSUME AppsInit PROVE AppsInv
    OBVIOUS
  <1>1. Starts = 1 .. 0 \/ Starts = 1 .. 1
    BY DEF AppsInit, Starts
  <1>2. StartsAreCounted /\ Starts = 1 .. Cardinality(Starts)
    <2>1. Cardinality(1 .. 0) = 0
      BY FS_EmptySet, 1 .. 0 = {}
    <2>2. Cardinality(1 .. 1) = 1
      BY FS_Singleton, 1 .. 1 = {1}
    <2> QED BY <1>1, <2>1, <2>2 DEF StartsAreCounted
  <1>3. ProcessesAreStarts /\ proc \in [Pids -> Nat] /\ image \in [Starts -> Names]
    <2>1. CASE image = [n \in {} |-> ""]
      BY <2>1 DEF AppsInit, ProcessesAreStarts, Starts
    <2>2. CASE image \in [{1} -> Names]
      BY <2>2 DEF AppsInit, ProcessesAreStarts, Starts
    <2> QED BY <2>1, <2>2 DEF AppsInit
  <1>4. SeekTypeOK
    BY TracksAreCounted DEF AppsInit, SeekTypeOK, Seek, NoWatch
  <1>5. AppsTypeOK
    <2>1. /\ failures \in 0 .. MaxFailures /\ seek.phase \in {"start", "rest", "pass", "ended"}
          /\ closing \in [at : {"no", "join", "detach", "done"}, track : Tracks, expired : BOOLEAN]
      BY <1>4, TracksAreCounted, AppsBounds DEF AppsInit, SeekTypeOK
    <2>2. track \in [Tracks -> [source : Starts \union {0}, hears : BOOLEAN,
                               watch : [pid : Pids \union {0}, process : Starts \union {0}],
                               exited : BOOLEAN, stopPolling : BOOLEAN]]
      BY DEF AppsInit, NoWatch
    <2> QED BY <1>2, <1>3, <2>1, <2>2 DEF AppsTypeOK
  <1> QED
    BY <1>2, <1>3, <1>4, <1>5
    DEF AppsInit, AppsInv, SeekHoldsTheId, WatchedIdsAreKept, DetachedSoFar,
        CapturesWhatItWatches, Seek, NoWatch

TrackRecords == [source : Starts \union {0}, hears : BOOLEAN,
                 watch : [pid : Pids \union {0}, process : Starts \union {0}],
                 exited : BOOLEAN, stopPolling : BOOLEAN]

LEMMA DetachedTrack ==
  ASSUME AppsTypeOK, NEW t \in Tracks, NEW gone \in BOOLEAN
  PROVE  /\ Detached(t, gone) \in [Tracks -> TrackRecords]
         /\ Detached(t, gone)[t].source = 0 /\ Detached(t, gone)[t].watch = NoWatch
         /\ \A u \in Tracks \ {t} : Detached(t, gone)[u] = track[u]
  <1>1. track \in [Tracks -> TrackRecords]
    BY DEF AppsTypeOK, TrackRecords
  <1>2. (IF gone THEN ~Reattach \/ NameOf[t] = "" ELSE track[t].stopPolling) \in BOOLEAN
    BY <1>1, AppsBounds DEF TrackRecords
  <1>3. NoWatch \in [pid : Pids \union {0}, process : Starts \union {0}]
    BY DEF NoWatch
  <1> DEFINE stopped == IF gone THEN ~Reattach \/ NameOf[t] = "" ELSE track[t].stopPolling
             exits == track[t].exited \/ gone
             r == [track[t] EXCEPT !.source = 0, !.hears = FALSE, !.watch = NoWatch,
                                   !.exited = exits, !.stopPolling = stopped]
  <1>4. Detached(t, gone) = [track EXCEPT ![t] = r]
    BY <1>1 DEF Detached, TrackRecords
  <1>5. exits \in BOOLEAN /\ stopped \in BOOLEAN
    BY <1>1, <1>2 DEF TrackRecords
  <1>6. r \in TrackRecords /\ r.source = 0 /\ r.watch = NoWatch
    <2> HIDE DEF stopped, exits
    <2> QED BY <1>1, <1>3, <1>5 DEF TrackRecords
  <1> HIDE DEF r
  <1> QED BY <1>1, <1>4, <1>6

(* Detaching a track, by the poll or by stop().                            *)
LEMMA DetachingKeeps ==
  ASSUME AppsInv, NEW t \in Tracks, NEW gone \in BOOLEAN, track' = Detached(t, gone),
         UNCHANGED <<proc, image>>
  PROVE  /\ track' \in [Tracks -> TrackRecords] /\ TrackRecords' = TrackRecords
         /\ WatchedIdsAreKept' /\ CapturesWhatItWatches'
  <1>1. /\ track' \in [Tracks -> TrackRecords]
        /\ track'[t].source = 0 /\ track'[t].watch = NoWatch
        /\ \A u \in Tracks \ {t} : track'[u] = track[u]
    BY DetachedTrack DEF AppsInv
  <1>2. TrackRecords' = TrackRecords
    BY DEF TrackRecords, Starts
  <1>3. WatchedIdsAreKept'
    BY <1>1 DEF AppsInv, WatchedIdsAreKept, NoWatch
  <1>4. CapturesWhatItWatches'
    BY <1>1 DEF AppsInv, CapturesWhatItWatches
  <1> QED BY <1>1, <1>2, <1>3, <1>4

(* What a look of the poll may do to the search and to the track.          *)
LEMMA PollLooksOutcomes ==
  ASSUME AppsInv, PollLooks
  PROVE  /\ \/ seek' = Onward
            \/ \E found \in Pids : seek' = [seek EXCEPT !.step = "open", !.pid = found]
         /\ \/ track' = track
            \/ track' = Detached(seek.track, TRUE)
            \/ track' = [track EXCEPT ![seek.track].stopPolling = TRUE]
         /\ seek.phase = "pass" /\ seek.track \in Tracks /\ seek.watch = NoWatch
  <1> DEFINE t == seek.track
             found == Lookup(NameOf[t])
  <1>1. found \in Pids \union {0} /\ t \in Tracks
    BY LookupIsAnId DEF AppsInv, SeekTypeOK
  <1>2. seek.phase = "pass" /\ seek.watch = NoWatch
    BY DEF AppsInv, PollLooks, SeekHoldsTheId
  <1>3. CASE track[t].stopPolling
    BY <1>1, <1>2, <1>3 DEF PollLooks
  <1>4. CASE ~track[t].stopPolling /\ track[t].source # 0
    BY <1>1, <1>2, <1>4 DEF PollLooks
  <1>5. CASE ~track[t].stopPolling /\ track[t].source = 0 /\ NameOf[t] = ""
    BY <1>1, <1>2, <1>5 DEF PollLooks
  <1>6. CASE ~track[t].stopPolling /\ track[t].source = 0 /\ NameOf[t] # ""
    <2>1. seek' = (IF found = 0 THEN Onward ELSE [seek EXCEPT !.step = "open", !.pid = found])
          /\ track' = track
      BY <1>6 DEF PollLooks
    <2> HIDE DEF found
    <2> QED BY <1>1, <1>2, <2>1
  <1> QED BY <1>3, <1>4, <1>5, <1>6

LEMMA StoppedTrack ==
  ASSUME AppsInv, NEW t \in Tracks, track' = [track EXCEPT ![t].stopPolling = TRUE]
  PROVE  /\ track' \in [Tracks -> TrackRecords]
         /\ \A u \in Tracks : track'[u].source = track[u].source /\ track'[u].watch = track[u].watch
  <1> DEFINE r == [track[t] EXCEPT !.stopPolling = TRUE]
  <1>1. track \in [Tracks -> TrackRecords]
    BY DEF AppsInv, AppsTypeOK, TrackRecords
  <1>2. r \in TrackRecords /\ r.source = track[t].source /\ r.watch = track[t].watch
    BY <1>1 DEF TrackRecords
  <1>3. track' = [track EXCEPT ![t] = r]
    BY <1>1 DEF TrackRecords
  <1> HIDE DEF r
  <1> QED BY <1>1, <1>2, <1>3


LEMMA StartGrows ==
  ASSUME AppsInv, NEW pid \in Pids, NEW name \in Names, AppStarts(pid, name)
  PROVE  /\ \E n \in Nat \ {0} : Starts' = 1 .. n /\ proc'[pid] = n
         /\ Starts \subseteq Starts' /\ Starts' = 1 .. Cardinality(Starts')
         /\ image' \in [Starts' -> Names] /\ proc'[pid] \in Starts' /\ proc'[pid] \in Nat
  <1>1. PICK n \in Nat : Starts = 1 .. n
    BY DEF AppsInv, StartsAreCounted
  <1>2. Cardinality(Starts) = n
    BY <1>1, FS_Interval
  <1>3. Starts \union {n + 1} = 1 .. n + 1
    BY <1>1
  <1>4. Starts' = 1 .. n + 1 /\ image' \in [Starts' -> Names]
    BY <1>2, <1>3 DEF AppsInv, AppsTypeOK, AppStarts, Starts
  <1>5. Cardinality(1 .. n + 1) = n + 1
    BY FS_Interval
  <1>6. proc'[pid] = n + 1
    BY <1>2 DEF AppsInv, AppsTypeOK, AppStarts
  <1> QED BY <1>1, <1>4, <1>5, <1>6

LEMMA AppExitsKeeps ==
  ASSUME AppsInv, NEW pid \in Pids, AppExits(pid)
  PROVE  AppsInv'
  <1>1. SeekHoldsTheId' /\ WatchedIdsAreKept' /\ DetachedSoFar' /\ CapturesWhatItWatches'
    BY DEF AppsInv, AppExits, SeekHoldsTheId, AppsTypeOK, SeekTypeOK, WatchedIdsAreKept,
       DetachedSoFar, CapturesWhatItWatches
  <1>2. AppsTypeOK'
    BY DEF AppsInv, AppExits, AppsTypeOK, SeekTypeOK, Starts, NoWatch
  <1>3. StartsAreCounted'
    BY DEF AppsInv, AppExits, StartsAreCounted, AppsTypeOK, SeekTypeOK, Starts, NoWatch
  <1>4. ProcessesAreStarts'
    BY DEF AppsInv, AppExits, ProcessesAreStarts, AppsTypeOK, SeekTypeOK, Starts, NoWatch
  <1>5. SeekTypeOK'
    BY DEF AppsInv, AppExits, SeekTypeOK, AppsTypeOK, Starts, NoWatch
  <1> QED BY <1>1, <1>2, <1>3, <1>4, <1>5 DEF AppsInv

LEMMA CaptureDiesKeeps ==
  ASSUME AppsInv, NEW t \in Tracks, CaptureDies(t)
  PROVE  AppsInv'
  <1>1. SeekHoldsTheId' /\ WatchedIdsAreKept' /\ DetachedSoFar' /\ CapturesWhatItWatches'
    BY DEF AppsInv, CaptureDies, SeekHoldsTheId, AppsTypeOK, SeekTypeOK, WatchedIdsAreKept,
       DetachedSoFar, CapturesWhatItWatches
  <1>2. AppsTypeOK'
    <2>1. failures' \in 0 .. MaxFailures
      BY AppsBounds DEF AppsInv, AppsTypeOK, CaptureDies
    <2>2. track' \in [Tracks -> TrackRecords]
      BY DEF AppsInv, AppsTypeOK, TrackRecords, CaptureDies
    <2>3. UNCHANGED <<proc, image, Starts, seek, closing>>
      BY DEF CaptureDies, Starts
    <2> QED BY <2>1, <2>2, <2>3 DEF AppsInv, AppsTypeOK, TrackRecords
  <1>3. StartsAreCounted'
    BY DEF AppsInv, CaptureDies, StartsAreCounted, AppsTypeOK, SeekTypeOK, Starts, NoWatch
  <1>4. ProcessesAreStarts'
    BY DEF AppsInv, CaptureDies, ProcessesAreStarts, AppsTypeOK, SeekTypeOK, Starts, NoWatch
  <1>5. SeekTypeOK'
    BY DEF AppsInv, CaptureDies, SeekTypeOK, AppsTypeOK, Starts, NoWatch
  <1> QED BY <1>1, <1>2, <1>3, <1>4, <1>5 DEF AppsInv

LEMMA StartLooksKeeps ==
  ASSUME AppsInv, StartLooks
  PROVE  AppsInv'
  <1>1. WatchedIdsAreKept' /\ DetachedSoFar' /\ CapturesWhatItWatches'
    BY DEF AppsInv, StartLooks, WatchedIdsAreKept, AppsTypeOK, SeekTypeOK, DetachedSoFar,
       CapturesWhatItWatches
  <1>2. AppsTypeOK'
    BY OnwardIsASearch, LookupIsAnId, AppTracksAssumption DEF AppsInv, StartLooks, AppsTypeOK,
       SeekTypeOK, Starts, NoWatch
  <1>3. StartsAreCounted'
    BY OnwardIsASearch, LookupIsAnId, AppTracksAssumption DEF AppsInv, StartLooks,
       StartsAreCounted, AppsTypeOK, SeekTypeOK, Starts, NoWatch
  <1>4. ProcessesAreStarts'
    BY OnwardIsASearch, LookupIsAnId, AppTracksAssumption DEF AppsInv, StartLooks,
       ProcessesAreStarts, AppsTypeOK, SeekTypeOK, Starts, NoWatch
  <1>5. SeekTypeOK'
    <2> DEFINE t == seek.track
               pid == IF PidOf[t] # 0 THEN PidOf[t] ELSE Lookup(NameOf[t])
    <2>1. t \in Tracks /\ pid \in Pids \union {0}
      BY LookupIsAnId, AppTracksAssumption DEF AppsInv, SeekTypeOK
    <2>p. PidOf[t] # 0 => PidOf[t] \in Pids
      BY <2>1, AppTracksAssumption
    <2>2. seek' = IF pid = 0 THEN Onward ELSE [seek EXCEPT !.step = "open", !.pid = pid]
      BY DEF StartLooks
    <2>3. Starts' = Starts
      BY DEF StartLooks, Starts
    <2> HIDE DEF pid
    <2>4. CASE pid = 0
      BY <2>2, <2>3, <2>4, OnwardIsASearch DEF AppsInv, SeekTypeOK, NoWatch
    <2>5. CASE pid # 0
      <3>1. seek' = [seek EXCEPT !.step = "open", !.pid = pid]
        BY <2>2, <2>5
      <3> QED BY <2>1, <2>3, <3>1 DEF AppsInv, SeekTypeOK
    <2> QED BY <2>4, <2>5
  <1>6. SeekHoldsTheId'
    BY OnwardIsASearch, LookupIsAnId, AppTracksAssumption DEF AppsInv, StartLooks,
       SeekHoldsTheId, AppsTypeOK, SeekTypeOK, Starts, NoWatch
  <1> QED BY <1>1, <1>2, <1>3, <1>4, <1>5, <1>6 DEF AppsInv

LEMMA OpensWatchKeeps ==
  ASSUME AppsInv, OpensWatch
  PROVE  AppsInv'
  <1>1. WatchedIdsAreKept' /\ CapturesWhatItWatches'
    BY DEF AppsInv, OpensWatch, Opened, Alive, WatchedIdsAreKept, AppsTypeOK, SeekTypeOK,
       CapturesWhatItWatches
  <1>2. AppsTypeOK'
    BY OnwardIsASearch DEF AppsInv, OpensWatch, Opened, Alive, AppsTypeOK, SeekTypeOK, Starts,
       NoWatch
  <1>3. StartsAreCounted'
    BY OnwardIsASearch DEF AppsInv, OpensWatch, Opened, Alive, StartsAreCounted, AppsTypeOK,
       SeekTypeOK, Starts, NoWatch
  <1>4. ProcessesAreStarts'
    BY OnwardIsASearch DEF AppsInv, OpensWatch, Opened, Alive, ProcessesAreStarts, AppsTypeOK,
       SeekTypeOK, Starts, NoWatch
  <1>5. SeekTypeOK'
    BY OnwardIsASearch DEF AppsInv, OpensWatch, Opened, Alive, AppsTypeOK, StartsAreCounted,
       ProcessesAreStarts, SeekTypeOK, SeekHoldsTheId, WatchedIdsAreKept, DetachedSoFar,
       CapturesWhatItWatches, Starts, NoWatch
  <1>6. SeekHoldsTheId'
    BY OnwardIsASearch DEF AppsInv, OpensWatch, Opened, Alive, SeekHoldsTheId, AppsTypeOK,
       SeekTypeOK, Starts, NoWatch
  <1>7. DetachedSoFar'
    BY OnwardIsASearch DEF AppsInv, OpensWatch, Opened, Alive, AppsTypeOK, StartsAreCounted,
       ProcessesAreStarts, SeekTypeOK, SeekHoldsTheId, WatchedIdsAreKept, DetachedSoFar,
       CapturesWhatItWatches, Starts, NoWatch
  <1> QED BY <1>1, <1>2, <1>3, <1>4, <1>5, <1>6, <1>7 DEF AppsInv


(* What the track takes is the watched process, dead or alive.             *)
LEMMA AttachedTrack ==
  ASSUME AppsInv, Attaches
  PROVE  \E r \in TrackRecords : /\ track' = [track EXCEPT ![seek.track] = r]
                                 /\ r.watch = seek.watch /\ r.source = seek.watch.process
  <1> DEFINE r == [track[seek.track] EXCEPT !.source = Captured, !.hears = TRUE,
                                            !.watch = seek.watch, !.exited = FALSE]
  <1>1. seek.track \in Tracks /\ track \in [Tracks -> TrackRecords]
    BY DEF AppsInv, AppsTypeOK, SeekTypeOK, TrackRecords
  <1>2. /\ Captured = seek.watch.process /\ seek.watch.process \in Starts \union {0}
        /\ seek.watch \in [pid : Pids \union {0}, process : Starts \union {0}]
    BY DEF AppsInv, SeekTypeOK, SeekHoldsTheId, Attaches, Captured
  <1>3. r \in TrackRecords /\ r.watch = seek.watch /\ r.source = seek.watch.process
    <2>1. PICK q \in TrackRecords : q = track[seek.track]
      BY <1>1
    <2>2. PICK w \in [pid : Pids \union {0}, process : Starts \union {0}], n \in Starts \union {0} :
            w = seek.watch /\ n = seek.watch.process /\ n = Captured
      BY <1>2
    <2>3. r = [q EXCEPT !.source = n, !.hears = TRUE, !.watch = w, !.exited = FALSE]
      BY <2>1, <2>2
    <2>4. PICK p : p = [q EXCEPT !.source = n, !.hears = TRUE, !.watch = w, !.exited = FALSE]
      OBVIOUS
    <2>5. p \in TrackRecords /\ p.watch = w /\ p.source = n
      BY <2>1, <2>2, <2>4 DEF TrackRecords
    <2> HIDE DEF r
    <2> QED
      BY <2>2, <2>3, <2>4, <2>5
  <1>4. track' = [track EXCEPT ![seek.track] = r]
    BY <1>1 DEF Attaches, TrackRecords
  <1> QED BY <1>3, <1>4

LEMMA AttachesKeeps ==
  ASSUME AppsInv, Attaches
  PROVE  AppsInv'
  <1>1. AppsTypeOK'
    <2>1. track' \in [Tracks -> TrackRecords]
      BY AttachedTrack DEF AppsInv, AppsTypeOK, TrackRecords
    <2>2. UNCHANGED <<proc, image, failures, closing, Starts>>
      BY DEF Attaches, Starts
    <2>3. seek'.phase \in {"start", "rest", "pass", "ended"}
      BY OnwardIsASearch DEF AppsInv, Attaches
    <2> QED BY <2>1, <2>2, <2>3 DEF AppsInv, AppsTypeOK, TrackRecords
  <1>2. StartsAreCounted'
    BY OnwardIsASearch DEF AppsInv, Attaches, StartsAreCounted, AppsTypeOK, SeekTypeOK, Starts,
       NoWatch
  <1>3. ProcessesAreStarts'
    BY OnwardIsASearch DEF AppsInv, Attaches, ProcessesAreStarts, AppsTypeOK, SeekTypeOK,
       Starts, NoWatch
  <1>4. SeekTypeOK'
    BY OnwardIsASearch DEF AppsInv, Attaches, SeekTypeOK, AppsTypeOK, Starts, NoWatch
  <1>5. SeekHoldsTheId'
    BY OnwardIsASearch DEF AppsInv, Attaches, SeekHoldsTheId, AppsTypeOK, SeekTypeOK, Starts,
       NoWatch
  <1>6. WatchedIdsAreKept'
    <2>1. PICK r \in TrackRecords : /\ track' = [track EXCEPT ![seek.track] = r]
                                    /\ r.watch = seek.watch /\ r.source = seek.watch.process
      BY AttachedTrack
    <2>2. track \in [Tracks -> TrackRecords] /\ proc' = proc /\ seek.step = "activate"
      BY DEF AppsInv, AppsTypeOK, TrackRecords, Attaches
    <2> QED BY <2>1, <2>2 DEF AppsInv, SeekHoldsTheId, WatchedIdsAreKept
  <1>7. DetachedSoFar'
    BY OnwardIsASearch DEF AppsInv, Attaches, AppsTypeOK, StartsAreCounted, ProcessesAreStarts,
       SeekTypeOK, SeekHoldsTheId, WatchedIdsAreKept, DetachedSoFar, CapturesWhatItWatches,
       Starts, NoWatch
  <1>8. CapturesWhatItWatches'
    <2>1. PICK r \in TrackRecords : /\ track' = [track EXCEPT ![seek.track] = r]
                                    /\ r.watch = seek.watch /\ r.source = seek.watch.process
      BY AttachedTrack
    <2>2. track \in [Tracks -> TrackRecords]
      BY DEF AppsInv, AppsTypeOK, TrackRecords
    <2> QED BY <2>1, <2>2 DEF AppsInv, CapturesWhatItWatches
  <1> QED BY <1>1, <1>2, <1>3, <1>4, <1>5, <1>6, <1>7, <1>8 DEF AppsInv

LEMMA ActivationFailsKeeps ==
  ASSUME AppsInv, ActivationFails
  PROVE  AppsInv'
  <1>1. WatchedIdsAreKept' /\ CapturesWhatItWatches'
    BY DEF AppsInv, ActivationFails, WatchedIdsAreKept, AppsTypeOK, SeekTypeOK,
       CapturesWhatItWatches
  <1>2. AppsTypeOK'
    BY OnwardIsASearch, AppsBounds DEF AppsInv, ActivationFails, AppsTypeOK, SeekTypeOK,
       Starts, NoWatch
  <1>3. StartsAreCounted'
    BY OnwardIsASearch, AppsBounds DEF AppsInv, ActivationFails, StartsAreCounted, AppsTypeOK,
       SeekTypeOK, Starts, NoWatch
  <1>4. ProcessesAreStarts'
    BY OnwardIsASearch, AppsBounds DEF AppsInv, ActivationFails, ProcessesAreStarts,
       AppsTypeOK, SeekTypeOK, Starts, NoWatch
  <1>5. SeekTypeOK'
    BY OnwardIsASearch, AppsBounds DEF AppsInv, ActivationFails, SeekTypeOK, AppsTypeOK,
       Starts, NoWatch
  <1>6. SeekHoldsTheId'
    BY OnwardIsASearch, AppsBounds DEF AppsInv, ActivationFails, SeekHoldsTheId, AppsTypeOK,
       SeekTypeOK, Starts, NoWatch
  <1>7. DetachedSoFar'
    BY OnwardIsASearch, AppsBounds DEF AppsInv, ActivationFails, AppsTypeOK, StartsAreCounted,
       ProcessesAreStarts, SeekTypeOK, SeekHoldsTheId, WatchedIdsAreKept, DetachedSoFar,
       CapturesWhatItWatches, Starts, NoWatch
  <1> QED BY <1>1, <1>2, <1>3, <1>4, <1>5, <1>6, <1>7 DEF AppsInv

LEMMA PollPassesKeeps ==
  ASSUME AppsInv, PollPasses
  PROVE  AppsInv'
  <1>1. SeekHoldsTheId' /\ WatchedIdsAreKept' /\ DetachedSoFar' /\ CapturesWhatItWatches'
    BY DEF AppsInv, PollPasses, Seek, SeekHoldsTheId, AppsTypeOK, SeekTypeOK,
       WatchedIdsAreKept, DetachedSoFar, CapturesWhatItWatches
  <1>2. AppsTypeOK'
    BY TracksAreCounted DEF AppsInv, PollPasses, Seek, AppsTypeOK, SeekTypeOK, Starts, NoWatch
  <1>3. StartsAreCounted'
    BY TracksAreCounted DEF AppsInv, PollPasses, Seek, StartsAreCounted, AppsTypeOK,
       SeekTypeOK, Starts, NoWatch
  <1>4. ProcessesAreStarts'
    BY TracksAreCounted DEF AppsInv, PollPasses, Seek, ProcessesAreStarts, AppsTypeOK,
       SeekTypeOK, Starts, NoWatch
  <1>5. SeekTypeOK'
    BY TracksAreCounted DEF AppsInv, PollPasses, Seek, SeekTypeOK, AppsTypeOK, Starts, NoWatch
  <1> QED BY <1>1, <1>2, <1>3, <1>4, <1>5 DEF AppsInv

LEMMA PollEndsKeeps ==
  ASSUME AppsInv, PollEnds
  PROVE  AppsInv'
  <1>1. SeekHoldsTheId' /\ WatchedIdsAreKept' /\ DetachedSoFar' /\ CapturesWhatItWatches'
    BY DEF AppsInv, PollEnds, Seek, SeekHoldsTheId, AppsTypeOK, SeekTypeOK, WatchedIdsAreKept,
       DetachedSoFar, CapturesWhatItWatches
  <1>2. AppsTypeOK'
    BY TracksAreCounted DEF AppsInv, PollEnds, Seek, AppsTypeOK, SeekTypeOK, Starts, NoWatch
  <1>3. StartsAreCounted'
    BY TracksAreCounted DEF AppsInv, PollEnds, Seek, StartsAreCounted, AppsTypeOK, SeekTypeOK,
       Starts, NoWatch
  <1>4. ProcessesAreStarts'
    BY TracksAreCounted DEF AppsInv, PollEnds, Seek, ProcessesAreStarts, AppsTypeOK,
       SeekTypeOK, Starts, NoWatch
  <1>5. SeekTypeOK'
    BY TracksAreCounted DEF AppsInv, PollEnds, Seek, SeekTypeOK, AppsTypeOK, Starts, NoWatch
  <1> QED BY <1>1, <1>2, <1>3, <1>4, <1>5 DEF AppsInv

LEMMA PollThrowsKeeps ==
  ASSUME AppsInv, PollThrows
  PROVE  AppsInv'
  <1>1. SeekHoldsTheId' /\ WatchedIdsAreKept' /\ DetachedSoFar' /\ CapturesWhatItWatches'
    BY DEF AppsInv, PollThrows, Seek, SeekHoldsTheId, AppsTypeOK, SeekTypeOK, WatchedIdsAreKept,
       DetachedSoFar, CapturesWhatItWatches
  <1>2. AppsTypeOK'
    BY TracksAreCounted, AppsBounds DEF AppsInv, PollThrows, Seek, AppsTypeOK, SeekTypeOK, Starts, NoWatch
  <1>3. StartsAreCounted'
    BY TracksAreCounted DEF AppsInv, PollThrows, Seek, StartsAreCounted, AppsTypeOK, SeekTypeOK,
       Starts, NoWatch
  <1>4. ProcessesAreStarts'
    BY TracksAreCounted DEF AppsInv, PollThrows, Seek, ProcessesAreStarts, AppsTypeOK,
       SeekTypeOK, Starts, NoWatch
  <1>5. SeekTypeOK'
    BY TracksAreCounted DEF AppsInv, PollThrows, Seek, SeekTypeOK, AppsTypeOK, Starts, NoWatch
  <1> QED BY <1>1, <1>2, <1>3, <1>4, <1>5 DEF AppsInv

LEMMA StopTracksKeeps ==
  ASSUME AppsInv, StopTracks
  PROVE  AppsInv'
  <1>1. SeekHoldsTheId' /\ WatchedIdsAreKept' /\ DetachedSoFar' /\ CapturesWhatItWatches'
    BY DEF AppsInv, StopTracks, SeekHoldsTheId, AppsTypeOK, SeekTypeOK, WatchedIdsAreKept,
       DetachedSoFar, CapturesWhatItWatches
  <1>2. AppsTypeOK'
    BY TracksAreCounted DEF AppsInv, StopTracks, AppsTypeOK, SeekTypeOK, Starts, NoWatch
  <1>3. StartsAreCounted'
    BY TracksAreCounted DEF AppsInv, StopTracks, StartsAreCounted, AppsTypeOK, SeekTypeOK,
       Starts, NoWatch
  <1>4. ProcessesAreStarts'
    BY TracksAreCounted DEF AppsInv, StopTracks, ProcessesAreStarts, AppsTypeOK, SeekTypeOK,
       Starts, NoWatch
  <1>5. SeekTypeOK'
    BY TracksAreCounted DEF AppsInv, StopTracks, SeekTypeOK, AppsTypeOK, Starts, NoWatch
  <1> QED BY <1>1, <1>2, <1>3, <1>4, <1>5 DEF AppsInv

LEMMA JoinsPollKeeps ==
  ASSUME AppsInv, JoinsPoll
  PROVE  AppsInv'
  <1>1. SeekHoldsTheId' /\ WatchedIdsAreKept' /\ CapturesWhatItWatches'
    BY DEF AppsInv, JoinsPoll, PollHasEnded, SeekHoldsTheId, AppsTypeOK, SeekTypeOK,
       WatchedIdsAreKept, CapturesWhatItWatches
  <1>2. AppsTypeOK'
    BY DEF AppsInv, JoinsPoll, PollHasEnded, AppsTypeOK, SeekTypeOK, Starts, NoWatch
  <1>3. StartsAreCounted'
    BY DEF AppsInv, JoinsPoll, PollHasEnded, StartsAreCounted, AppsTypeOK, SeekTypeOK, Starts,
       NoWatch
  <1>4. ProcessesAreStarts'
    BY DEF AppsInv, JoinsPoll, PollHasEnded, ProcessesAreStarts, AppsTypeOK, SeekTypeOK,
       Starts, NoWatch
  <1>5. SeekTypeOK'
    BY DEF AppsInv, JoinsPoll, PollHasEnded, SeekTypeOK, AppsTypeOK, Starts, NoWatch
  <1>6. DetachedSoFar'
    <2>1. closing'.at = "detach" /\ closing'.track = 1 /\ (~closing'.expired <=> PollHasEnded)
      BY DEF AppsInv, AppsTypeOK, DetachedSoFar, JoinsPoll
    <2>2. \A t \in Tracks : ~(t < 1)
      BY TracksAscend
    <2>3. UNCHANGED <<track, seek>>
      BY DEF JoinsPoll
    <2> QED BY <2>1, <2>2, <2>3 DEF DetachedSoFar, PollHasEnded
  <1> QED BY <1>1, <1>2, <1>3, <1>4, <1>5, <1>6 DEF AppsInv

LEMMA StopDetachesKeeps ==
  ASSUME AppsInv, StopDetaches
  PROVE  AppsInv'
  <1>1. AppsTypeOK'
    <2>1. closing.track \in Tracks /\ track' = Detached(closing.track, FALSE) /\ UNCHANGED <<proc, image>>
      BY DEF AppsInv, AppsTypeOK, StopDetaches
    <2>2. track' \in [Tracks -> TrackRecords]
      BY <2>1, DetachingKeeps
    <2>3. closing' \in [at : {"no", "join", "detach", "done"}, track : Tracks, expired : BOOLEAN]
      <3> DEFINE n == Cardinality(Tracks)
      <3>1. n \in Nat \ {0} /\ Tracks = 1 .. n
        BY TracksAreCounted
      <3>2. closing' = IF closing.track = n THEN [closing EXCEPT !.at = "done"]
                       ELSE [closing EXCEPT !.track = @ + 1]
        BY DEF StopDetaches, LastTrack
      <3>3. closing \in [at : {"no", "join", "detach", "done"}, track : Tracks, expired : BOOLEAN]
        BY DEF AppsInv, AppsTypeOK
      <3> HIDE DEF n
      <3>4. closing.track # n => closing.track + 1 \in Tracks
        BY <3>1, <3>3
      <3> QED BY <3>2, <3>3, <3>4
    <2>4. UNCHANGED <<proc, image, failures, seek, Starts>>
      BY DEF StopDetaches, Starts
    <2> QED BY <2>2, <2>3, <2>4 DEF AppsInv, AppsTypeOK, TrackRecords
  <1>2. StartsAreCounted'
    BY TracksAreCounted DEF AppsInv, StopDetaches, LastTrack, StartsAreCounted, AppsTypeOK,
       SeekTypeOK, Starts, NoWatch
  <1>3. ProcessesAreStarts'
    BY TracksAreCounted DEF AppsInv, StopDetaches, LastTrack, ProcessesAreStarts, AppsTypeOK,
       SeekTypeOK, Starts, NoWatch
  <1>4. SeekTypeOK'
    BY TracksAreCounted DEF AppsInv, StopDetaches, LastTrack, SeekTypeOK, AppsTypeOK, Starts,
       NoWatch
  <1>5. SeekHoldsTheId'
    BY DEF AppsInv, StopDetaches, LastTrack, SeekHoldsTheId, AppsTypeOK, SeekTypeOK
  <1>6. WatchedIdsAreKept'
    BY DetachingKeeps DEF AppsInv, AppsTypeOK, StopDetaches
  <1>7. DetachedSoFar'
    <2> DEFINE t == closing.track
    <2>1. /\ t \in Tracks /\ closing.at = "detach"
          /\ closing \in [at : {"no", "join", "detach", "done"}, track : Tracks, expired : BOOLEAN]
      BY DEF AppsInv, AppsTypeOK, StopDetaches
    <2>2. /\ track'[t].source = 0 /\ track'[t].watch = NoWatch
          /\ \A u \in Tracks \ {t} : track'[u] = track[u]
      BY <2>1, DetachedTrack DEF AppsInv, StopDetaches
    <2>3. closing' = IF t = Cardinality(Tracks) THEN [closing EXCEPT !.at = "done"]
                     ELSE [closing EXCEPT !.track = t + 1]
      BY DEF StopDetaches, LastTrack
    <2>c. Cardinality(Tracks) \in Nat
      BY TracksAreCounted
    <2>4. \A u \in Tracks : u < t \/ u = t \/ (u > t /\ t < Cardinality(Tracks))
      BY <2>1, <2>c, TracksAscend
    <2>5. ~closing.expired => \A u \in Tracks : u < t => track[u].source = 0 /\ track[u].watch = NoWatch
      BY <2>1 DEF AppsInv, DetachedSoFar
    <2>6. ~closing.expired => seek'.phase = "ended"
      BY <2>1 DEF AppsInv, DetachedSoFar, StopDetaches
    <2> HIDE DEF t
    <2>7. CASE t = Cardinality(Tracks)
      BY <2>1, <2>2, <2>3, <2>4, <2>5, <2>6, <2>7, TracksAscend DEF DetachedSoFar
    <2>8. CASE t # Cardinality(Tracks)
      BY <2>1, <2>2, <2>3, <2>4, <2>5, <2>6, <2>8, TracksAscend DEF DetachedSoFar
    <2> QED BY <2>7, <2>8
  <1>8. CapturesWhatItWatches'
    BY DetachingKeeps DEF AppsInv, AppsTypeOK, StopDetaches
  <1> QED BY <1>1, <1>2, <1>3, <1>4, <1>5, <1>6, <1>7, <1>8 DEF AppsInv

LEMMA PollLooksKeeps ==
  ASSUME AppsInv, PollLooks
  PROVE  AppsInv'
  <1>1. AppsTypeOK'
    <2>1. track' \in [Tracks -> TrackRecords]
      <3>1. CASE track' = Detached(seek.track, TRUE)
        BY <3>1, PollLooksOutcomes, DetachedTrack DEF AppsInv
      <3>2. CASE track' = track
        BY <3>2 DEF AppsInv, AppsTypeOK, TrackRecords
      <3>3. CASE track' = [track EXCEPT ![seek.track].stopPolling = TRUE]
        BY <3>3, PollLooksOutcomes, StoppedTrack
      <3> QED BY <3>1, <3>2, <3>3, PollLooksOutcomes
    <2>2. UNCHANGED <<proc, image, failures, closing, Starts>>
      BY DEF PollLooks, Starts
    <2>3. seek'.phase \in {"start", "rest", "pass", "ended"}
      BY PollLooksOutcomes, OnwardIsASearch DEF AppsInv, SeekTypeOK
    <2> QED BY <2>1, <2>2, <2>3 DEF AppsInv, AppsTypeOK, TrackRecords
  <1>2. StartsAreCounted'
    BY PollLooksOutcomes DEF AppsInv, PollLooks, StartsAreCounted, AppsTypeOK, SeekTypeOK,
       Starts, NoWatch
  <1>3. ProcessesAreStarts'
    BY PollLooksOutcomes DEF AppsInv, PollLooks, ProcessesAreStarts, AppsTypeOK, SeekTypeOK,
       Starts, NoWatch
  <1>4. SeekTypeOK'
    <2>1. Starts' = Starts
      BY DEF PollLooks, Starts
    <2>2. CASE seek' = Onward
      BY <2>1, <2>2, OnwardIsASearch DEF AppsInv, SeekTypeOK, NoWatch
    <2>3. CASE \E found \in Pids : seek' = [seek EXCEPT !.step = "open", !.pid = found]
      BY <2>1, <2>3 DEF AppsInv, SeekTypeOK
    <2> QED BY <2>2, <2>3, PollLooksOutcomes
  <1>5. SeekHoldsTheId'
    <2>1. CASE seek' = Onward
      BY <2>1, OnwardIsASearch DEF AppsInv, SeekHoldsTheId
    <2>2. CASE \E found \in Pids : seek' = [seek EXCEPT !.step = "open", !.pid = found]
      BY <2>2, PollLooksOutcomes, AppTracksAssumption DEF AppsInv, SeekHoldsTheId, SeekTypeOK
    <2> QED BY <2>1, <2>2, PollLooksOutcomes
  <1>6. WatchedIdsAreKept'
    <2>1. CASE track' = Detached(seek.track, TRUE)
      BY <2>1, PollLooksOutcomes, DetachingKeeps DEF PollLooks
    <2>2. CASE track' = track
      BY <2>2 DEF AppsInv, WatchedIdsAreKept, PollLooks
    <2>3. CASE track' = [track EXCEPT ![seek.track].stopPolling = TRUE]
      BY <2>3, PollLooksOutcomes, StoppedTrack DEF AppsInv, WatchedIdsAreKept, PollLooks
    <2> QED BY <2>1, <2>2, <2>3, PollLooksOutcomes
  <1>7. DetachedSoFar'
    BY PollLooksOutcomes DEF AppsInv, DetachedSoFar, PollLooks
  <1>8. CapturesWhatItWatches'
    <2>1. CASE track' = Detached(seek.track, TRUE)
      BY <2>1, PollLooksOutcomes, DetachingKeeps DEF PollLooks
    <2>2. CASE track' = track
      BY <2>2 DEF AppsInv, CapturesWhatItWatches, PollLooks
    <2>3. CASE track' = [track EXCEPT ![seek.track].stopPolling = TRUE]
      BY <2>3, PollLooksOutcomes, StoppedTrack DEF AppsInv, CapturesWhatItWatches, PollLooks
    <2> QED BY <2>1, <2>2, <2>3, PollLooksOutcomes
  <1> QED BY <1>1, <1>2, <1>3, <1>4, <1>5, <1>6, <1>7, <1>8 DEF AppsInv

LEMMA AppStartsKeeps ==
  ASSUME AppsInv, NEW pid \in Pids, NEW name \in Names, AppStarts(pid, name)
  PROVE  AppsInv'
  <1>1. SeekHoldsTheId' /\ WatchedIdsAreKept' /\ DetachedSoFar' /\ CapturesWhatItWatches'
    BY DEF AppsInv, AppStarts, Held, Sought, SeekHoldsTheId, AppsTypeOK, SeekTypeOK,
       WatchedIdsAreKept, DetachedSoFar, CapturesWhatItWatches
  <1>2. AppsTypeOK'
    <2>1. image' \in [Starts' -> Names] /\ Starts \subseteq Starts' /\ Starts' = 1 .. Cardinality(Starts')
      BY StartGrows
    <2>2. proc' \in [Pids -> Nat]
      <3>1. proc \in [Pids -> Nat] /\ proc'[pid] \in Nat
        BY StartGrows DEF AppsInv, AppsTypeOK
      <3>2. proc' = [proc EXCEPT ![pid] = Cardinality(Starts) + 1]
        BY DEF AppStarts
      <3> QED BY <3>1, <3>2
    <2>3. [Tracks -> TrackRecords] \subseteq [Tracks -> TrackRecords]'
      BY <2>1 DEF TrackRecords
    <2>4. track' \in [Tracks -> TrackRecords]'
      BY <2>3 DEF AppsInv, AppsTypeOK, TrackRecords, AppStarts
    <2> QED BY <2>1, <2>2, <2>4 DEF AppsInv, AppsTypeOK, TrackRecords, AppStarts
  <1>3. StartsAreCounted'
    BY StartGrows DEF StartsAreCounted
  <1>4. ProcessesAreStarts'
    BY StartGrows DEF AppsInv, AppsTypeOK, ProcessesAreStarts, AppStarts
  <1>5. SeekTypeOK'
    <2>1. seek' = seek /\ Starts \subseteq Starts'
      BY StartGrows DEF AppStarts
    <2>2. [pid : Pids \union {0}, process : Starts \union {0}]
            \subseteq [pid : Pids \union {0}, process : Starts' \union {0}]
      BY <2>1
    <2> QED BY <2>1, <2>2 DEF AppsInv, SeekTypeOK
  <1> QED BY <1>1, <1>2, <1>3, <1>4, <1>5 DEF AppsInv

LEMMA StutteringKeeps ==
  ASSUME AppsInv, UNCHANGED appVars
  PROVE  AppsInv'
  <1>1. SeekHoldsTheId' /\ WatchedIdsAreKept' /\ DetachedSoFar' /\ CapturesWhatItWatches'
    BY DEF AppsInv, appVars, SeekHoldsTheId, AppsTypeOK, SeekTypeOK, WatchedIdsAreKept,
       DetachedSoFar, CapturesWhatItWatches
  <1>2. AppsTypeOK'
    BY DEF AppsInv, appVars, AppsTypeOK, SeekTypeOK, Starts, NoWatch
  <1>3. StartsAreCounted'
    BY DEF AppsInv, appVars, StartsAreCounted, AppsTypeOK, SeekTypeOK, Starts, NoWatch
  <1>4. ProcessesAreStarts'
    BY DEF AppsInv, appVars, ProcessesAreStarts, AppsTypeOK, SeekTypeOK, Starts, NoWatch
  <1>5. SeekTypeOK'
    BY DEF AppsInv, appVars, SeekTypeOK, AppsTypeOK, Starts, NoWatch
  <1> QED BY <1>1, <1>2, <1>3, <1>4, <1>5 DEF AppsInv


LEMMA AppsStep ==
  ASSUME AppsInv, [AppsNext]_appVars
  PROVE  AppsInv'
  BY AppExitsKeeps, AppStartsKeeps, CaptureDiesKeeps, StartLooksKeeps, PollLooksKeeps,
     OpensWatchKeeps, AttachesKeeps, ActivationFailsKeeps, PollPassesKeeps, PollEndsKeeps,
     PollThrowsKeeps, StopTracksKeeps, JoinsPollKeeps, StopDetachesKeeps, StutteringKeeps
  DEF AppsNext, AppsSystem, AppsPoll, AppsStop

LEMMA AppsInvHolds == AppsSpec => []AppsInv
  BY AppsInitEstablishes, AppsStep, PTL DEF AppsSpec

(* attach opens the handle before the activation and looks at it once      *)
(* more; the handle then keeps the id.  So the process whose sound a track *)
(* takes is the one whose exit it waits for, for any order of exits,       *)
(* starts, failures and stop().                                            *)
THEOREM WatchIsTheSource == AppsSpec => []CapturesWhatItWatches
  BY AppsInvHolds, PTL DEF AppsInv

(* An id a track watches is never another process's: poll_targets cannot   *)
(* take a reused id for a living target.                                   *)
THEOREM IdsAreNotReused == AppsSpec => []WatchedIdsAreKept
  BY AppsInvHolds, PTL DEF AppsInv

(* stop() with the poll joined in time leaves no source attached.          *)
THEOREM StoppedTracksStayStopped == AppsSpec => []EverySourceIsStopped
  <1>1. AppsInv => EverySourceIsStopped
    BY DEF AppsInv, DetachedSoFar, EverySourceIsStopped
  <1> QED BY <1>1, AppsInvHolds, PTL

-----------------------------------------------------------------------------
(* The stamps of a file                                                    *)

(* The units, the steps and the origins are what the assumption has them   *)
(* to be.                                                                  *)
LEMMA UnitsAreThere ==
  /\ Nano \in Nat /\ Nano > 0 /\ MuxDen \in Nat /\ MuxDen > 0
  /\ VideoDen \in Nat /\ VideoDen > 0 /\ Rate \in Nat /\ Rate > 0
  /\ VideoStep \in Nat /\ VideoStep > 0 /\ AudioStep \in Nat /\ AudioStep > 0
  /\ Origins \subseteq Nat /\ AudioLimit \in Nat
  BY MuxAssumption

(* Every track has a unit and a step.                                      *)
LEMMA UnitsOfTracks ==
  ASSUME NEW t \in AllTracks
  PROVE  SourceUnit(t) \in Nat \ {0} /\ StepOf(t) \in Nat \ {0}
  BY UnitsAreThere DEF SourceUnit, StepOf

(* Division after half the divisor has been added rounds to the nearest.   *)
LEMMA QuotientsAreNear ==
  ASSUME NEW a \in Nat, NEW from \in Nat \ {0}
  PROVE  LET q == (2 * a + from) \div (2 * from)
         IN  q \in Nat /\ 2 * (q * from) - 2 * a <= from /\ 2 * a - 2 * (q * from) <= from
  <1> DEFINE n == 2 * a + from
             d == 2 * from
             q == n \div d
             r == n % d
  <1>1. n \in Nat /\ d \in Nat /\ d > 0
    OBVIOUS
  <1>2. q \in Nat /\ r \in Nat /\ r < d /\ n = d * q + r
    BY <1>1
  <1>3. d * q = 2 * (q * from)
    BY <1>2
  <1>4. 2 * a + from = 2 * (q * from) + r /\ r < 2 * from /\ r >= 0
    BY <1>2, <1>3
  <1>5. q * from \in Int
    BY <1>2
  <1> HIDE DEF n, d, q, r
  <1>6. 2 * (q * from) - 2 * a <= from /\ 2 * a - 2 * (q * from) <= from
    BY <1>2, <1>4, <1>5
  <1> QED BY <1>2, <1>6 DEF q, n, d

(* av_rescale_q is off by at most half a unit of what it rescales into.    *)
LEMMA RescaledIsNear ==
  ASSUME NEW time \in Int, NEW from \in Nat \ {0}, NEW into \in Nat \ {0}
  PROVE  LET s == Rescaled(time, from, into)
         IN  /\ s \in Int /\ (time >= 0 => s >= 0)
             /\ 2 * (s * from) - 2 * (time * into) <= from
             /\ 2 * (time * into) - 2 * (s * from) <= from
  <1> DEFINE Rounded(n) == (2 * n * into + from) \div (2 * from)
             s == Rescaled(time, from, into)
  <1>1. ASSUME NEW n \in Nat
        PROVE  /\ Rounded(n) \in Nat
               /\ 2 * (Rounded(n) * from) - 2 * (n * into) <= from
               /\ 2 * (n * into) - 2 * (Rounded(n) * from) <= from
    <2>1. n * into \in Nat /\ 2 * n * into = 2 * (n * into)
      OBVIOUS
    <2>2. Rounded(n) = (2 * (n * into) + from) \div (2 * from)
      BY <2>1
    <2> HIDE DEF Rounded
    <2> QED BY <2>1, <2>2, QuotientsAreNear
  <1>2. s = IF time >= 0 THEN Rounded(time) ELSE -Rounded(-time)
    BY DEF Rescaled
  <1> HIDE DEF Rounded, s
  <1>3. CASE time >= 0
    <2>1. s = Rounded(time) /\ time \in Nat
      BY <1>2, <1>3
    <2> QED BY <1>1, <2>1 DEF s
  <1>4. CASE time < 0
    <2>1. s = -Rounded(-time) /\ -time \in Nat
      BY <1>2, <1>4
    <2>2. Rounded(-time) \in Nat
      BY <1>1, <2>1
    <2>3. s * from = -(Rounded(-time) * from) /\ (-time) * into = -(time * into)
      BY <2>1, <2>2
    <2>4. s * from \in Int /\ time * into \in Int
      BY <2>1, <2>2
    <2>5. /\ 2 * (Rounded(-time) * from) - 2 * ((-time) * into) <= from
          /\ 2 * ((-time) * into) - 2 * (Rounded(-time) * from) <= from
      BY <1>1, <2>1
    <2>6. Rounded(-time) * from = -(s * from) /\ s \in Int
      BY <2>1, <2>2, <2>3
    <2> DEFINE x == s * from
               y == time * into
    <2>7. 2 * (-x) - 2 * (-y) <= from /\ 2 * (-y) - 2 * (-x) <= from
      BY <2>3, <2>5, <2>6
    <2>8. x \in Int /\ y \in Int
      BY <2>4
    <2> HIDE DEF x, y
    <2>9. 2 * x - 2 * y <= from /\ 2 * y - 2 * x <= from
      BY <2>7, <2>8
    <2> QED BY <1>4, <2>6, <2>9 DEF x, y, s
  <1> QED BY <1>3, <1>4 DEF s

(* Two roundings, put together.                                            *)
LEMMA RoundingsAdd ==
  ASSUME NEW n \in Nat \ {0}, NEW u \in Nat \ {0}, NEW m \in Nat \ {0},
         NEW time \in Int, NEW origin \in Int, NEW o \in Int, NEW s \in Int,
         2 * (o * n) - 2 * (origin * u) <= n, 2 * (origin * u) - 2 * (o * n) <= n,
         2 * (s * u) - 2 * ((time - o) * m) <= u, 2 * ((time - o) * m) - 2 * (s * u) <= u
  PROVE  LET due == (time * n - origin * u) * m
         IN  /\ 2 * (s * u * n - due) <= u * n + m * n
             /\ 2 * (due - s * u * n) <= u * n + m * n
  <1> DEFINE A == 2 * (s * u) - 2 * ((time - o) * m)
             B == 2 * (o * n) - 2 * (origin * u)
             due == (time * n - origin * u) * m
  <1>1. A \in Int /\ B \in Int /\ due \in Int /\ A <= u /\ -A <= u /\ B <= n /\ -B <= n
    OBVIOUS
  <1>2. 2 * (s * u * n - due) = n * A - m * B
    <2>1. n * A = 2 * (s * u * n) - 2 * (time * m * n) + 2 * (o * m * n)
      OBVIOUS
    <2>2. m * B = 2 * (o * m * n) - 2 * (origin * u * m)
      OBVIOUS
    <2>3. due = time * m * n - origin * u * m
      OBVIOUS
    <2>4. /\ s * u * n \in Int /\ time * m * n \in Int /\ o * m * n \in Int /\ origin * u * m \in Int
          /\ n * A \in Int /\ m * B \in Int
      BY <1>1
    <2> QED BY <1>1, <2>1, <2>2, <2>3, <2>4
  <1> HIDE DEF A, B, due
  <1>3. n * A <= n * u /\ -(n * A) <= n * u /\ m * B <= m * n /\ -(m * B) <= m * n
    <2>1. \A k \in Nat, x \in Int, y \in Int : x <= y => k * x <= k * y
      OBVIOUS
    <2>2. n * A <= n * u /\ n * (-A) <= n * u /\ m * B <= m * n /\ m * (-B) <= m * n
      BY <1>1, <2>1
    <2>3. n * (-A) = -(n * A) /\ m * (-B) = -(m * B)
      BY <1>1
    <2> QED BY <2>2, <2>3
  <1>4. n * A \in Int /\ m * B \in Int /\ n * u \in Int /\ m * n \in Int /\ u * n = n * u /\ s * u * n \in Int
    BY <1>1
  <1>5. 2 * (due - s * u * n) = m * B - n * A
    BY <1>1, <1>2, <1>4
  <1> QED BY <1>1, <1>2, <1>3, <1>4, <1>5 DEF due

(* The files and the finalization, by their shape; that the contents of a  *)
(* copy are packets is not needed.                                         *)
Forms == {"none", "fragmented", "progressive"}
IsFile(f) == f = FileOf(f.form, f.packets) /\ f.form \in Forms

MuxTypes ==
  /\ mux \in [at : {"closed", "open", "finalized"}, container : {"mkv", "mp4"},
              origin : Nat, audio : 0 .. AudioLimit]
  /\ fin \in [at : {"none", "reserved", "faststart", "validate", "swap", "ended"},
              expects : BOOLEAN, report : {"none", "valid", "invalid", "error"}]
  /\ IsFile(output) /\ IsFile(staged) /\ IsFile(reached)
  /\ muxFaults \in 0 .. MuxFaults

(* A packet in a file.                                                     *)
Packets == [stamp : Int, decodes : BOOLEAN]

(* While the file is written nobody else touches it, and each of its       *)
(* packets has the stamp of the time that was accepted.                    *)
StampsAreGiven ==
  /\ written \in [AllTracks -> Seq(Int)] /\ output.packets \in [AllTracks -> Seq(Packets)]
  /\ \A t \in AllTracks :
       /\ Len(written[t]) = Len(output.packets[t])
       /\ \A i \in DOMAIN written[t] : output.packets[t][i].stamp = StampOf(t, written[t][i])

MuxInv ==
  /\ MuxTypes
  /\ mux.at # "finalized" => fin.at = "none"
  /\ mux.at = "closed" => written = NoFile.packets
  /\ mux.at = "open" => StampsAreGiven

(* A file made of a form and contents has both.                            *)
LEMMA FilesAreFiles ==
  ASSUME NEW form \in Forms, NEW content
  PROVE  /\ IsFile(FileOf(form, content)) /\ FileOf(form, content).form = form
         /\ FileOf(form, content).packets = content
  BY DEF IsFile, FileOf

(* So has the file that is not there.                                      *)
LEMMA NoFileIsOne == IsFile(NoFile) /\ NoFile.packets = [t \in AllTracks |-> <<>>]
  BY DEF IsFile, NoFile, FileOf, Forms

(* What replaces its contents keeps the form.                              *)
LEMMA ContentsChange ==
  ASSUME NEW f, IsFile(f), NEW content
  PROVE  [f EXCEPT !.packets = content] = FileOf(f.form, content)
  BY DEF IsFile, FileOf

(* Stamps and times are integers.                                          *)
LEMMA StampsAreIntegers ==
  ASSUME MuxTypes, NEW t \in AllTracks, NEW time \in Int
  PROVE  StampOf(t, time) \in Int
  <1>1. mux.origin \in Int /\ Nano \in Nat \ {0} /\ MuxDen \in Nat \ {0}
    BY UnitsAreThere DEF MuxTypes
  <1>2. SourceUnit(t) \in Nat \ {0}
    BY UnitsOfTracks
  <1>3. Rescaled(mux.origin, Nano, SourceUnit(t)) \in Int
    BY <1>1, <1>2, RescaledIsNear
  <1>4. time - Rescaled(mux.origin, Nano, SourceUnit(t)) \in Int
    BY <1>3
  <1> HIDE DEF SourceUnit
  <1> QED BY <1>1, <1>2, <1>4, RescaledIsNear DEF StampOf

LEMMA TimesAreIntegers ==
  ASSUME MuxTypes, NEW t \in AllTracks, NEW n \in Nat
  PROVE  FirstTime(t) + n * StepOf(t) \in Int
  <1>1. mux.origin \in Int /\ Nano \in Nat \ {0}
    BY UnitsAreThere DEF MuxTypes
  <1>2. SourceUnit(t) \in Nat \ {0} /\ StepOf(t) \in Nat \ {0}
    BY UnitsOfTracks
  <1> DEFINE o == Rescaled(mux.origin, Nano, SourceUnit(t))
             d == StepOf(t)
  <1>3. o \in Int /\ d \in Nat /\ d > 0
    <2>1. Rescaled(mux.origin, Nano, SourceUnit(t)) \in Int
      BY <1>1, <1>2, RescaledIsNear
    <2> QED BY <1>2, <2>1
  <1>4. FirstTime(t) = (o \div d) * d
    BY DEF FirstTime
  <1> HIDE DEF o, d
  <1>5. o \div d \in Int
    BY <1>3
  <1>6. (o \div d) * d \in Int /\ n * d \in Int
    BY <1>3, <1>5
  <1> QED BY <1>4, <1>6 DEF d

(* A packet accepted goes to the ends of both: its time to what was        *)
(* accepted, its stamp to the file.                                        *)
LEMMA WritesKeep ==
  ASSUME MuxInv, NEW t \in AllTracks, MuxWrite(t)
  PROVE  MuxInv'
  <1> DEFINE time == FirstTime(t) + Len(written[t]) * StepOf(t)
             packet == [stamp |-> StampOf(t, time), decodes |-> TRUE]
  <1>1. /\ mux.at = "open" /\ UNCHANGED <<mux, staged, fin, reached, muxFaults>>
        /\ written' = [written EXCEPT ![t] = Append(@, time)]
        /\ output' = [output EXCEPT !.packets[t] = Append(@, packet)]
    BY DEF MuxWrite
  <1>2. MuxTypes /\ StampsAreGiven /\ IsFile(output)
    BY <1>1 DEF MuxInv, MuxTypes
  <1>3. Len(written[t]) \in Nat
    BY <1>2 DEF StampsAreGiven
  <1>4. time \in Int
    BY <1>2, <1>3, TimesAreIntegers
  <1>5. packet \in Packets /\ packet.stamp = StampOf(t, time)
    BY <1>2, <1>4, StampsAreIntegers DEF Packets
  <1>6. output' = FileOf(output.form, [output.packets EXCEPT ![t] = Append(@, packet)])
    <2>1. output' = [output EXCEPT !.packets = [output.packets EXCEPT ![t] = Append(@, packet)]]
      BY <1>1
    <2> HIDE DEF packet
    <2> QED BY <1>2, <2>1, ContentsChange
  <1> HIDE DEF time, packet
  <1>7. output.form \in Forms
    BY <1>2 DEF IsFile
  <1>8. /\ IsFile(output')
        /\ output'.packets = [output.packets EXCEPT ![t] = Append(@, packet)]
    BY <1>6, <1>7, FilesAreFiles
  <1>9. StampsAreGiven'
    <2> DEFINE w == written
               p == output.packets
               ww == written'
               pp == output'.packets
    <2>1. /\ w \in [AllTracks -> Seq(Int)] /\ p \in [AllTracks -> Seq(Packets)]
          /\ ww = [w EXCEPT ![t] = Append(w[t], time)] /\ pp = [p EXCEPT ![t] = Append(p[t], packet)]
      BY <1>1, <1>2, <1>8 DEF StampsAreGiven
    <2>2. ww \in [AllTracks -> Seq(Int)] /\ pp \in [AllTracks -> Seq(Packets)]
      BY <1>4, <1>5, <2>1
    <2>3. ASSUME NEW u \in AllTracks
          PROVE  /\ Len(ww[u]) = Len(pp[u])
                 /\ \A i \in DOMAIN ww[u] : pp[u][i].stamp = StampOf(u, ww[u][i])
      <3>1. Len(w[u]) = Len(p[u]) /\ \A i \in DOMAIN w[u] : p[u][i].stamp = StampOf(u, w[u][i])
        BY <1>2 DEF StampsAreGiven
      <3>2. CASE u # t
        BY <2>1, <3>1, <3>2
      <3>3. CASE u = t
        <4>1. ww[t] = Append(w[t], time) /\ pp[t] = Append(p[t], packet)
          BY <2>1
        <4>2. w[t] \in Seq(Int) /\ p[t] \in Seq(Packets) /\ Len(w[t]) = Len(p[t])
          BY <2>1, <3>1, <3>3
        <4>3. Len(ww[t]) = Len(w[t]) + 1 /\ Len(pp[t]) = Len(p[t]) + 1 /\ DOMAIN ww[t] = 1 .. Len(w[t]) + 1
          BY <1>4, <1>5, <4>1, <4>2
        <4>4. ASSUME NEW i \in DOMAIN ww[t] PROVE pp[t][i].stamp = StampOf(t, ww[t][i])
          <5>1. CASE i = Len(w[t]) + 1
            <6>1. ww[t][i] = time /\ pp[t][i] = packet
              BY <1>4, <1>5, <4>1, <4>2, <5>1
            <6> QED BY <1>5, <6>1
          <5>2. CASE i # Len(w[t]) + 1
            <6>1. i \in DOMAIN w[t] /\ ww[t][i] = w[t][i] /\ pp[t][i] = p[t][i]
              BY <1>4, <1>5, <4>1, <4>2, <4>3, <5>2
            <6> QED BY <3>1, <3>3, <6>1
          <5> QED BY <5>1, <5>2
        <4> QED BY <3>3, <4>2, <4>3, <4>4
      <3> QED BY <3>2, <3>3
    <2>4. \A u \in AllTracks, x \in Int : StampOf(u, x)' = StampOf(u, x)
      BY <1>1 DEF StampOf
    <2>5. ASSUME NEW u \in AllTracks, NEW i \in DOMAIN ww[u] PROVE ww[u][i] \in Int
      BY <2>2
    <2> QED BY <1>1, <2>2, <2>3, <2>5 DEF StampsAreGiven, StampOf
  <1> QED BY <1>1, <1>2, <1>8, <1>9 DEF MuxInv, MuxTypes

(* A file is opened with nothing accepted and nothing in it.               *)
LEMMA OpensWell ==
  ASSUME MuxInv, MuxOpen
  PROVE  MuxInv'
  <1>1. PICK container \in {"mkv", "mp4"}, audio \in 0 .. AudioLimit + 1, origin \in Origins :
          /\ audio <= AudioLimit
          /\ mux' = [at |-> "open", container |-> container, origin |-> origin, audio |-> audio]
    BY DEF MuxOpen
  <1>2. /\ mux.at = "closed" /\ output' = FileOf("fragmented", NoFile.packets)
        /\ UNCHANGED <<written, staged, fin, reached, muxFaults>>
    BY DEF MuxOpen
  <1>3. audio \in 0 .. AudioLimit /\ origin \in Nat
    BY <1>1, UnitsAreThere
  <1>4. IsFile(output') /\ output'.packets = NoFile.packets
    BY <1>2, FilesAreFiles DEF Forms
  <1>5. MuxTypes'
    BY <1>1, <1>2, <1>3, <1>4 DEF MuxInv, MuxTypes
  <1>6. written = [t \in AllTracks |-> <<>>] /\ output'.packets = [t \in AllTracks |-> <<>>]
    BY <1>2, <1>4, NoFileIsOne DEF MuxInv
  <1>7. StampsAreGiven'
    <2>1. written' = [t \in AllTracks |-> <<>>] /\ output'.packets = [t \in AllTracks |-> <<>>]
      BY <1>2, <1>6
    <2>2. written' \in [AllTracks -> Seq(Int)] /\ output'.packets \in [AllTracks -> Seq(Packets)]
      BY <2>1
    <2>3. \A t \in AllTracks : /\ Len(written'[t]) = Len(output'.packets[t])
                               /\ DOMAIN written'[t] = {}
      BY <2>1
    <2> QED BY <2>2, <2>3 DEF StampsAreGiven
  <1> QED BY <1>1, <1>2, <1>5, <1>7 DEF MuxInv

(* What closes the file, and what is done to it when it is closed.         *)
LEMMA ClosedFilesRest ==
  ASSUME MuxInv, MuxTypes', mux'.at = "finalized"
  PROVE  MuxInv'
  BY DEF MuxInv

(* Copying, and the faults.                                                *)
LEMMA CopiesAreFiles ==
  ASSUME MuxTypes, Copied
  PROVE  IsFile(staged') /\ muxFaults' \in 0 .. MuxFaults
  <1>1. \A content : IsFile(FileOf("progressive", content))
    BY FilesAreFiles DEF Forms
  <1>2. \/ /\ FaultsLeft /\ OneFault
        \/ UNCHANGED muxFaults
    BY DEF Copied
  <1>3. muxFaults' \in 0 .. MuxFaults
    BY <1>2, MuxAssumption DEF MuxTypes, FaultsLeft, OneFault
  <1>4. \E content : staged' = FileOf("progressive", content)
    BY DEF Copied
  <1> QED BY <1>1, <1>3, <1>4

LEMMA FaultsAreCounted ==
  ASSUME MuxTypes, FaultsLeft, OneFault
  PROVE  muxFaults' \in 0 .. MuxFaults
  BY MuxAssumption DEF MuxTypes, FaultsLeft, OneFault

(* The finalization goes on to another place.                              *)
FinAt(place) == fin' = [fin EXCEPT !.at = place]

(* Whatever happens to the file from its closing on leaves the invariant,  *)
(* since it says of a closed file only what shape it has.                  *)
LEMMA OthersKeep ==
  ASSUME MuxInv,
         \/ MuxFinalize \/ TrailerFails \/ RemuxOnce \/ RemuxFails \/ FileIsGood \/ FileIsBad
         \/ Swap \/ SwapFails \/ DiesWriting \/ DiesFinalizing \/ RecoverFile
  PROVE  MuxInv'
  <1>0. MuxTypes /\ (mux.at # "finalized" => fin.at = "none")
    BY DEF MuxInv
  <1> DEFINE FinTypes == [at : {"none", "reserved", "faststart", "validate", "swap", "ended"},
                          expects : BOOLEAN, report : {"none", "valid", "invalid", "error"}]
  <1>n. IsFile(NoFile) /\ \A content : IsFile([output EXCEPT !.packets = content])
    <2>1. IsFile(output) /\ output.form \in Forms
      BY <1>0 DEF MuxTypes, IsFile
    <2> QED BY <2>1, NoFileIsOne, ContentsChange, FilesAreFiles
  <1>m. mux' = [mux EXCEPT !.at = "finalized"] \/ (UNCHANGED mux /\ mux.at = "finalized")
    BY <1>0 DEF MuxFinalize, TrailerFails, RemuxOnce, RemuxFails, FileIsGood, FileIsBad, Swap, SwapFails,
                DiesWriting, DiesFinalizing, RecoverFile
  <1>x. mux'.at = "finalized" /\ mux' \in [at : {"closed", "open", "finalized"}, container : {"mkv", "mp4"},
                                          origin : Nat, audio : 0 .. AudioLimit]
    BY <1>0, <1>m DEF MuxTypes
  <1>f. fin' \in FinTypes
    <2>1. \A b \in BOOLEAN : Begins(b) => fin' \in FinTypes
      BY DEF Begins
    <2>2. \A r \in {"none", "valid", "invalid", "error"} : Ends(r) => fin' \in FinTypes
      BY <1>0 DEF Ends, MuxTypes
    <2>3. \/ Begins(TRUE) \/ Begins(FALSE) \/ Ends("error") \/ Ends("valid") \/ Ends("invalid")
          \/ FinAt("validate") \/ FinAt("faststart") \/ FinAt("swap")
      BY DEF MuxFinalize, TrailerFails, RemuxOnce, RemuxFails, FileIsGood, FileIsBad, Swap, SwapFails,
             DiesWriting, DiesFinalizing, RecoverFile, Ends, FinAt
    <2>4. FinAt("validate") \/ FinAt("faststart") \/ FinAt("swap") => fin' \in FinTypes
      BY <1>0 DEF FinAt, MuxTypes
    <2> HIDE DEF FinTypes
    <2> QED BY <2>1, <2>2, <2>3, <2>4
  <1>o. muxFaults' \in 0 .. MuxFaults
    <2>1. (FaultsLeft /\ OneFault) \/ UNCHANGED muxFaults \/ Copied
      BY DEF MuxFinalize, TrailerFails, RemuxOnce, RemuxFails, FileIsGood, FileIsBad, Swap, SwapFails,
             DiesWriting, DiesFinalizing, RecoverFile
    <2>2. muxFaults \in 0 .. MuxFaults
      BY <1>0 DEF MuxTypes
    <2> QED BY <1>0, <2>1, <2>2, FaultsAreCounted, CopiesAreFiles
  <1>p. IsFile(output')
    <2>1. \/ UNCHANGED output \/ output' = staged
          \/ \E content : output' = [output EXCEPT !.packets = content]
      BY DEF MuxFinalize, TrailerFails, RemuxOnce, RemuxFails, FileIsGood, FileIsBad, Swap, SwapFails,
             DiesWriting, DiesFinalizing, RecoverFile
    <2> QED BY <1>0, <1>n, <2>1 DEF MuxTypes
  <1>s. IsFile(staged')
    <2>1. UNCHANGED staged \/ staged' = NoFile \/ Copied
      BY DEF MuxFinalize, TrailerFails, RemuxOnce, RemuxFails, FileIsGood, FileIsBad, Swap, SwapFails,
             DiesWriting, DiesFinalizing, RecoverFile
    <2> QED BY <1>0, <1>n, <2>1, CopiesAreFiles DEF MuxTypes
  <1>r. IsFile(reached')
    <2>1. UNCHANGED reached \/ reached' = output \/ reached' = output'
      BY DEF MuxFinalize, TrailerFails, RemuxOnce, RemuxFails, FileIsGood, FileIsBad, Swap, SwapFails,
             DiesWriting, DiesFinalizing, RecoverFile
    <2> QED BY <1>0, <1>p, <2>1 DEF MuxTypes
  <1>1. MuxTypes'
    BY <1>x, <1>f, <1>o, <1>p, <1>s, <1>r DEF MuxTypes
  <1> QED BY <1>x, <1>1, ClosedFilesRest

(* The invariant of one file.                                              *)
LEMMA MuxHolds == MuxSpec => []MuxInv
  <1>1. MuxInit => MuxInv
    <2> SUFFICES ASSUME MuxInit PROVE MuxInv
      OBVIOUS
    <2>1. 0 \in 0 .. AudioLimit /\ 0 \in 0 .. MuxFaults
      BY MuxAssumption
    <2> QED BY <2>1, NoFileIsOne DEF MuxInit, MuxInv, MuxTypes
  <1>2. MuxInv /\ [MuxNext]_muxVars => MuxInv'
    <2> SUFFICES ASSUME MuxInv, [MuxNext]_muxVars PROVE MuxInv'
      OBVIOUS
    <2>1. CASE UNCHANGED muxVars
      BY <2>1 DEF muxVars, MuxInv, MuxTypes, StampsAreGiven, StampOf, IsFile
    <2> QED BY <2>1, OpensWell, WritesKeep, OthersKeep DEF MuxNext
  <1> QED BY <1>1, <1>2, PTL DEF MuxSpec

(* The maximum of two integers.                                            *)
LEMMA LargerOfTwo ==
  ASSUME NEW a \in Int, NEW b \in Int
  PROVE  Max({a, b}) \in {a, b} /\ Max({a, b}) >= a /\ Max({a, b}) >= b
  <1>1. \E x \in {a, b} : \A y \in {a, b} : x >= y
    <2>1. CASE a >= b
      BY <2>1
    <2>2. CASE b >= a
      BY <2>2
    <2> QED BY <2>1, <2>2
  <1> QED BY <1>1 DEF Max

(* EveryPacketKeepsItsMoment: for any units of the producers and of the    *)
(* container and any origin, the stamp of a packet is its instant, counted *)
(* from the origin of the file, to within half a unit of each of the two   *)
(* roundings (Muxer::write).                                               *)
THEOREM PacketsKeepTheirMoment == MuxSpec => []EveryPacketKeepsItsMoment
  <1>1. MuxInv => EveryPacketKeepsItsMoment
    <2> SUFFICES ASSUME MuxInv, mux.at = "open", NEW t \in Streams, NEW i \in DOMAIN written[t]
                 PROVE  2 * Distance(output.packets[t][i].stamp * SourceUnit(t) * Nano,
                                     (written[t][i] * Nano - mux.origin * SourceUnit(t)) * MuxDen)
                          <= SourceUnit(t) * Nano + MuxDen * Nano
      BY DEF EveryPacketKeepsItsMoment
    <2>1. t \in AllTracks /\ mux.origin \in Int
      BY UnitsAreThere DEF MuxInv, MuxTypes, Streams, AllTracks
    <2>2. written[t][i] \in Int /\ output.packets[t][i].stamp = StampOf(t, written[t][i])
      BY <2>1 DEF MuxInv, StampsAreGiven
    <2> DEFINE u == SourceUnit(t)
               time == written[t][i]
               o == Rescaled(mux.origin, Nano, SourceUnit(t))
               s == StampOf(t, time)
               due == (time * Nano - mux.origin * u) * MuxDen
    <2>3. u \in Nat \ {0} /\ Nano \in Nat \ {0} /\ MuxDen \in Nat \ {0} /\ time \in Int
      BY <2>1, <2>2, UnitsAreThere, UnitsOfTracks
    <2>4. s = Rescaled(time - o, u, MuxDen)
      BY DEF StampOf
    <2>5. o = Rescaled(mux.origin, Nano, u)
      OBVIOUS
    <2>6. output.packets[t][i].stamp = s
      BY <2>2
    <2> HIDE DEF u, time, o, s
    <2>7. o \in Int /\ 2 * (o * Nano) - 2 * (mux.origin * u) <= Nano
          /\ 2 * (mux.origin * u) - 2 * (o * Nano) <= Nano
      BY <2>1, <2>3, <2>5, RescaledIsNear
    <2>8. time - o \in Int
      BY <2>3, <2>7
    <2>9. s \in Int /\ 2 * (s * u) - 2 * ((time - o) * MuxDen) <= u
          /\ 2 * ((time - o) * MuxDen) - 2 * (s * u) <= u
      BY <2>3, <2>4, <2>8, RescaledIsNear
    <2>10. /\ 2 * (s * u * Nano - due) <= u * Nano + MuxDen * Nano
           /\ 2 * (due - s * u * Nano) <= u * Nano + MuxDen * Nano
      BY <2>1, <2>3, <2>7, <2>9, RoundingsAdd
    <2>11. s * u * Nano \in Int /\ due \in Int
      BY <2>1, <2>3, <2>9
    <2> DEFINE x == s * u * Nano
               bound == u * Nano + MuxDen * Nano
    <2>12. x \in Int /\ 2 * (x - due) <= bound /\ 2 * (due - x) <= bound
      BY <2>10, <2>11
    <2>13. output.packets[t][i].stamp * u * Nano = x
      BY <2>6
    <2> HIDE DEF due, x, bound
    <2>14. 2 * Distance(x, due) <= bound
      <3>1. Max({x - due, due - x}) \in {x - due, due - x}
        <4>1. x - due \in Int /\ due - x \in Int
          BY <2>11, <2>12
        <4> QED BY <4>1, LargerOfTwo
      <3> QED BY <2>12, <3>1 DEF Distance
    <2> QED BY <2>13, <2>14 DEF u, time, due, bound
  <1> QED BY <1>1, MuxHolds, PTL

(* The writing of a file, its copy and its recovery keep their types.      *)
THEOREM MuxTypeCorrect == MuxSpec => []MuxTypeOK
  <1>1. MuxInv => MuxTypeOK
    BY DEF MuxInv, MuxTypes, MuxTypeOK, IsFile, Forms
  <1> QED BY <1>1, MuxHolds, PTL

(* From the closing of a file on, it is untouched until the swap; what is  *)
(* about to replace it is a progressive copy that was examined, and once   *)
(* it is replaced nothing more happens to it.                              *)
CopyInHand ==
  /\ mux.container = "mp4" /\ fin.at \in {"validate", "swap"} => staged.form = "progressive"
  /\ fin.at = "swap" => mux.container = "mp4" /\ Accepted(staged.packets)

KeptInv ==
  /\ mux.at = "closed" => output.form = "none"
  /\ mux.at = "open" => output.form = "fragmented"
  /\ mux.at = "finalized" =>
       /\ output.form \in {"fragmented", "progressive"}
       /\ output.form = "fragmented" => output = reached
       /\ output.form = "progressive" =>
            fin.at = "ended" /\ fin.report = "valid" /\ Accepted(output.packets)
       /\ CopyInHand

(* What Accepted looks at besides the contents: the tracks of the file,    *)
(* the pictures written, and whether a length is expected.                 *)
LEMMA VerdictStands ==
  ASSUME NEW c, UNCHANGED <<mux, written>>, fin'.expects = fin.expects
  PROVE  Accepted(c)' = Accepted(c)
  <1>1. Streams' = Streams
    BY DEF Streams
  <1>2. Duration(c)' = Duration(c)
    BY <1>1 DEF Duration
  <1>3. HeadEnd(c)' = HeadEnd(c) /\ TailStart(c)' = TailStart(c)
    <2>1. HeadEnd(c)' = HeadEnd(c)
      BY <1>1, <1>2 DEF HeadEnd
    <2> QED BY <1>2, <2>1 DEF TailStart
  <1>4. \A t : HeadOf(c, t)' = HeadOf(c, t) /\ TailOf(c, t)' = TailOf(c, t)
    BY <1>3 DEF HeadOf, TailOf
  <1>5. VideoLength(c)' = VideoLength(c) /\ \A t : AudioLength(c, t)' = AudioLength(c, t)
    BY <1>4 DEF VideoLength, AudioLength
  <1>6. AsLongAsExpected(c)' = AsLongAsExpected(c)
    BY <1>2, <1>5 DEF AsLongAsExpected, ExpectedLength
  <1>7. SoundIn(c)' = SoundIn(c)
    BY <1>1, <1>4 DEF SoundIn
  <1> QED BY <1>1, <1>2, <1>4, <1>5, <1>6, <1>7 DEF Accepted

(* Opening and writing: the file has its form from the first moment.       *)
LEMMA WritingKeepsTheForm ==
  ASSUME MuxInv, KeptInv, MuxOpen \/ \E t \in AllTracks : MuxWrite(t)
  PROVE  KeptInv'
  <1>1. CASE MuxOpen
    <2>1. mux'.at = "open" /\ output' = FileOf("fragmented", NoFile.packets)
      BY <1>1 DEF MuxOpen
    <2>2. output'.form = "fragmented"
      BY <2>1, FilesAreFiles DEF Forms
    <2> QED BY <2>1, <2>2 DEF KeptInv
  <1>2. CASE \E t \in AllTracks : MuxWrite(t)
    <2>1. mux.at = "open" /\ UNCHANGED mux
      BY <1>2 DEF MuxWrite
    <2>2. \E content : output' = [output EXCEPT !.packets = content]
      BY <1>2 DEF MuxWrite
    <2>3. output.form = "fragmented" /\ IsFile(output) /\ output.form \in Forms
      BY <2>1 DEF KeptInv, MuxInv, MuxTypes, IsFile
    <2>4. output'.form = "fragmented"
      BY <2>2, <2>3, ContentsChange, FilesAreFiles
    <2> QED BY <2>1, <2>4 DEF KeptInv
  <1> QED BY <1>1, <1>2

(* The closing of a file, whichever way: what it holds then is remembered. *)
LEMMA ClosingRemembers ==
  ASSUME MuxInv, KeptInv, MuxFinalize \/ TrailerFails \/ DiesWriting
  PROVE  KeptInv'
  <1>1. mux.at = "open" /\ mux' = [mux EXCEPT !.at = "finalized"] /\ reached' = output'
    BY DEF MuxFinalize, TrailerFails, DiesWriting
  <1>2. output.form = "fragmented" /\ IsFile(output) /\ output.form \in Forms
    BY <1>1 DEF KeptInv, MuxInv, MuxTypes, IsFile
  <1>3. UNCHANGED output \/ \E content : output' = [output EXCEPT !.packets = content]
    BY DEF MuxFinalize, TrailerFails, DiesWriting
  <1>4. output'.form = "fragmented"
    BY <1>2, <1>3, ContentsChange, FilesAreFiles
  <1>5. mux'.at = "finalized" /\ mux'.container = mux.container
    BY <1>1 DEF MuxInv, MuxTypes
  <1>6. fin'.at \notin {"validate", "swap"} \/ (fin'.at = "validate" /\ mux'.container # "mp4")
    <2>1. fin \in [at : {"none", "reserved", "faststart", "validate", "swap", "ended"},
                   expects : BOOLEAN, report : {"none", "valid", "invalid", "error"}]
      BY DEF MuxInv, MuxTypes
    <2>2. CASE Begins(TRUE)
      BY <1>5, <2>2 DEF Begins
    <2>3. CASE fin' = [fin EXCEPT !.at = "ended", !.report = "error"]
      BY <2>1, <2>3
    <2> QED BY <2>2, <2>3 DEF MuxFinalize, TrailerFails, DiesWriting
  <1>7. CopyInHand'
    BY <1>6 DEF CopyInHand
  <1> QED BY <1>1, <1>4, <1>5, <1>7 DEF KeptInv

(* The finalization, before and after the examination: the file itself is  *)
(* not touched.                                                            *)
LEMMA FinalizingTouchesTheCopy ==
  ASSUME MuxInv, KeptInv, RemuxOnce \/ RemuxFails \/ FileIsBad \/ SwapFails \/ DiesFinalizing \/ RecoverFile
  PROVE  KeptInv'
  <1>1. UNCHANGED <<mux, output, reached>> /\ mux.at = "finalized"
    BY DEF RemuxOnce, RemuxFails, FileIsBad, SwapFails, DiesFinalizing, RecoverFile, MuxInv
  <1>2. output.form = "fragmented"
    BY <1>1 DEF RemuxOnce, RemuxFails, FileIsBad, SwapFails, DiesFinalizing, RecoverFile, KeptInv
  <1>3. fin \in [at : {"none", "reserved", "faststart", "validate", "swap", "ended"},
                 expects : BOOLEAN, report : {"none", "valid", "invalid", "error"}]
    BY DEF MuxInv, MuxTypes
  <1>4. CopyInHand'
    <2>1. CASE RemuxOnce
      <3>1. Copied /\ fin'.at = "validate"
        BY <1>3, <2>1 DEF RemuxOnce
      <3>2. \E content : staged' = FileOf("progressive", content)
        BY <3>1 DEF Copied
      <3>3. staged'.form = "progressive"
        BY <3>2, FilesAreFiles DEF Forms
      <3> QED BY <3>1, <3>3 DEF CopyInHand
    <2>2. CASE RemuxFails
      BY <1>3, <2>2 DEF RemuxFails, Ends, CopyInHand
    <2>3. CASE FileIsBad \/ SwapFails \/ DiesFinalizing
      BY <1>3, <2>3 DEF FileIsBad, SwapFails, DiesFinalizing, Ends, CopyInHand
    <2>4. CASE RecoverFile
      BY <1>1, <2>4 DEF RecoverFile, Begins, CopyInHand
    <2> QED BY <2>1, <2>2, <2>3, <2>4
  <1> QED BY <1>1, <1>2, <1>4 DEF KeptInv

(* The verdict and the swap.                                               *)
LEMMA SwapsTheExamined ==
  ASSUME MuxInv, KeptInv, FileIsGood \/ Swap
  PROVE  KeptInv'
  <1>1. UNCHANGED <<mux, reached, written>> /\ mux.at = "finalized"
    BY DEF FileIsGood, Swap, MuxInv
  <1>2. output.form = "fragmented" /\ output = reached /\ CopyInHand
    BY <1>1 DEF FileIsGood, Swap, KeptInv
  <1>3. fin \in [at : {"none", "reserved", "faststart", "validate", "swap", "ended"},
                 expects : BOOLEAN, report : {"none", "valid", "invalid", "error"}]
    BY DEF MuxInv, MuxTypes
  <1>4. fin'.expects = fin.expects
    BY <1>3 DEF FileIsGood, Swap, Ends
  <1>5. \A c : Accepted(c)' = Accepted(c)
    BY <1>1, <1>4, VerdictStands
  <1>6. CASE FileIsGood
    <2>1. UNCHANGED <<output, staged>> /\ fin.at = "validate" /\ Accepted(Examined)
      BY <1>6 DEF FileIsGood
    <2>2. CopyInHand'
      <3>1. CASE mux.container = "mp4"
        <4>1. Accepted(staged.packets) /\ staged.form = "progressive"
          BY <1>2, <2>1, <3>1 DEF Examined, CopyInHand
        <4> DEFINE c == staged.packets
        <4>2. Accepted(c) /\ staged'.packets = c
          BY <2>1, <4>1
        <4> HIDE DEF c
        <4>3. Accepted(staged.packets)'
          BY <1>5, <4>2
        <4> QED BY <1>1, <2>1, <3>1, <4>1, <4>3 DEF CopyInHand
      <3>2. CASE mux.container # "mp4"
        BY <1>1, <1>3, <1>6, <3>2 DEF FileIsGood, Ends, CopyInHand
      <3> QED BY <3>1, <3>2
    <2> QED BY <1>1, <1>2, <2>1, <2>2 DEF KeptInv
  <1>7. CASE Swap
    <2>1. fin.at = "swap" /\ output' = staged /\ fin'.at = "ended" /\ fin'.report = "valid"
      BY <1>3, <1>7 DEF Swap, Ends
    <2>2. Accepted(staged.packets) /\ staged.form = "progressive"
      BY <1>2, <2>1 DEF CopyInHand
    <2> DEFINE c == staged.packets
    <2>3. Accepted(c) /\ output'.packets = c
      BY <2>1, <2>2
    <2> HIDE DEF c
    <2>4. Accepted(output.packets)'
      BY <1>5, <2>3
    <2>5. CopyInHand'
      BY <2>1 DEF CopyInHand
    <2> QED BY <1>1, <2>1, <2>2, <2>4, <2>5 DEF KeptInv
  <1> QED BY <1>6, <1>7

(* Nothing else changes the verdict on a file either.                      *)
LEMMA RestKeepsTheFile ==
  ASSUME MuxInv, KeptInv, UNCHANGED muxVars
  PROVE  KeptInv'
  <1>1. UNCHANGED <<mux, written, output, staged, fin, reached>>
    BY DEF muxVars
  <1>2. \A c : Accepted(c)' = Accepted(c)
    BY <1>1, VerdictStands
  <1> DEFINE c == staged.packets
             d == output.packets
  <1>3. staged'.packets = c /\ output'.packets = d
    BY <1>1
  <1>4. /\ CopyInHand => (fin.at = "swap" => Accepted(c))
        /\ mux.at = "finalized" /\ output.form = "progressive" => Accepted(d)
    BY DEF CopyInHand, KeptInv
  <1> HIDE DEF c, d
  <1>5. /\ Accepted(c) => Accepted(staged.packets)'
        /\ Accepted(d) => Accepted(output.packets)'
    BY <1>2, <1>3
  <1>6. CopyInHand => CopyInHand'
    BY <1>1, <1>4, <1>5 DEF CopyInHand
  <1> QED BY <1>1, <1>4, <1>5, <1>6 DEF KeptInv

LEMMA KeptHolds == MuxSpec => []KeptInv
  <1>1. MuxInit => KeptInv
    BY DEF MuxInit, KeptInv, NoFile, FileOf
  <1>2. MuxInv /\ KeptInv /\ [MuxNext]_muxVars => KeptInv'
    BY WritingKeepsTheForm, ClosingRemembers, FinalizingTouchesTheCopy, SwapsTheExamined,
       RestKeepsTheFile DEF MuxNext
  <1> QED BY <1>1, <1>2, MuxHolds, PTL DEF MuxSpec

(* UntouchedUntilTheSwap: through failures, damage, deaths and any number  *)
(* of recoveries, the file under the recording's name is what the writing  *)
(* left until the copy takes its place (finalize_in_place, recovery.cpp).  *)
(* It is the first half of NothingIsGivenUpForAPartialCopy.                *)
THEOREM RecordingsAreUntouched == MuxSpec => []UntouchedUntilTheSwap
  <1>1. KeptInv => UntouchedUntilTheSwap
    BY DEF KeptInv, UntouchedUntilTheSwap
  <1> QED BY <1>1, KeptHolds, PTL

(* ReplacedOnlyByTheExamined: and what takes its place is a copy that      *)
(* Muxer::validate accepted, both ends and every track of it, in the       *)
(* attempt that replaced the file and not in an earlier one.               *)
THEOREM CopiesAreExamined == MuxSpec => []ReplacedOnlyByTheExamined
  <1>1. MuxInv /\ KeptInv => ReplacedOnlyByTheExamined
    BY DEF MuxInv, MuxTypes, KeptInv, ReplacedOnlyByTheExamined
  <1> QED BY <1>1, MuxHolds, KeptHolds, PTL

-----------------------------------------------------------------------------
(* The ladder's latches                                                    *)

(* The ladder's times are positive.                                        *)
LEMMA HoldsAreTicks ==
  /\ RecoveryHold \in Nat /\ RecoveryHold > 0 /\ QueueHighHold \in Nat /\ QueueHighHold > 0
  /\ Window \in Nat /\ Window > 0 /\ MaxChanges \in Nat
  BY LadderAssumption

Latches == [engaged : BOOLEAN, clearing : BOOLEAN, for : 0 .. RecoveryHold]

LadderTypes ==
  /\ weather \in Weathers /\ changes \in 0 .. MaxChanges
  /\ latch \in [Conditions -> Latches]
  /\ highFor \in -1 .. QueueHighHold
  /\ history \in Seq([submitted : Nat, dropped : Nat]) /\ Len(history) <= Window
  /\ plan \in [rung : 0 .. 7, diskStop : BOOLEAN, stalled : BOOLEAN, requested : {"full", "half"},
               applied : {"full", "half"}]
  /\ clean \in [Conditions -> 0 .. RecoveryHold + 1]

(* A latch that is clearing has been clean for at least as long as it has  *)
(* counted, and the first clean tick.                                      *)
CountsCleanTicks ==
  \A c \in Conditions : latch[c].engaged /\ latch[c].clearing => latch[c].for + 1 <= clean[c]

LadderInv == LadderTypes /\ CountsCleanTicks

(* The minimum of two integers.                                            *)
LEMMA SmallerOfTwo ==
  ASSUME NEW a \in Int, NEW b \in Int
  PROVE  Min({a, b}) = IF a <= b THEN a ELSE b
  <1> DEFINE m == IF a <= b THEN a ELSE b
  <1>1. m \in {a, b} /\ \A y \in {a, b} : m <= y
    OBVIOUS
  <1>2. \A x \in {a, b} : (\A y \in {a, b} : x <= y) => x = m
    OBVIOUS
  <1> HIDE DEF m
  <1>3. Min({a, b}) = m
    BY <1>1, <1>2 DEF Min
  <1> QED BY <1>3 DEF m

(* A condition's trigger is seen or it is not.                             *)
LEMMA TriggersAreSeen ==
  ASSUME NEW c \in Conditions
  PROVE  Triggered(c) \in BOOLEAN
  <1> DEFINE a == weather.queue # "low" /\ HighFor >= QueueHighHold
             b == weather.queue = "critical"
             d == Dropping
             e == FreeNow # "fine"
  <1>1. a \in BOOLEAN /\ b \in BOOLEAN /\ d \in BOOLEAN /\ e \in BOOLEAN
    BY DEF Dropping
  <1>2. Triggered(c) = CASE c = "queueHigh" -> a [] c = "queueCritical" -> b
                         [] c = "frameDrops" -> d [] c = "disk" -> e
    BY DEF Triggered
  <1> HIDE DEF a, b, d, e
  <1> QED BY <1>1, <1>2 DEF Conditions

(* The gravest of some rungs is one of them.                               *)
LEMMA RungsAreFew ==
  ASSUME NEW latches \in [Conditions -> Latches], NEW stop \in BOOLEAN
  PROVE  Gravest(latches, stop) \in 0 .. 7
  <1> DEFINE S == {0} \union {RungOf[c] : c \in {k \in Conditions : latches[k].engaged}}
                  \union (IF stop THEN {RungOf["disk"]} ELSE {})
  <1>1. \A c \in Conditions : RungOf[c] \in {1, 2, 3, 6}
    BY DEF RungOf, Conditions
  <1>2. S \subseteq {0, 1, 2, 3, 6} /\ 0 \in S
    BY <1>1 DEF Conditions
  <1>5. Gravest(latches, stop) = Max(S)
    BY DEF Gravest
  <1> HIDE DEF S
  <1>3. \E x \in S : \A y \in S : x >= y
    <2>1. CASE 6 \in S
      BY <1>2, <2>1
    <2>2. CASE 6 \notin S /\ 3 \in S
      BY <1>2, <2>2
    <2>3. CASE 6 \notin S /\ 3 \notin S /\ 2 \in S
      BY <1>2, <2>3
    <2>4. CASE 6 \notin S /\ 3 \notin S /\ 2 \notin S /\ 1 \in S
      BY <1>2, <2>4
    <2>5. CASE 6 \notin S /\ 3 \notin S /\ 2 \notin S /\ 1 \notin S
      BY <1>2, <2>5
    <2> QED BY <2>1, <2>2, <2>3, <2>4, <2>5
  <1>4. Max(S) \in S
    BY <1>3 DEF Max
  <1>6. Max(S) \in 0 .. 7
    <2>1. \A x \in {0, 1, 2, 3, 6} : x \in 0 .. 7
      OBVIOUS
    <2> QED BY <1>2, <1>4, <2>1, Zenon
  <1> QED BY <1>5, <1>6

(* One update of one latch, beside the count of its clean ticks.           *)
LEMMA LatchCounts ==
  ASSUME NEW l \in Latches, NEW n \in 0 .. RecoveryHold + 1, NEW t \in BOOLEAN,
         l.engaged /\ l.clearing => l.for + 1 <= n
  PROVE  LET m == Updated(l, t)
             k == IF t THEN 0 ELSE Min({n + 1, RecoveryHold + 1})
         IN  /\ m \in Latches /\ k \in 0 .. RecoveryHold + 1
             /\ m.engaged /\ m.clearing => m.for + 1 <= k
             /\ l.engaged /\ ~m.engaged => k > RecoveryHold
  <1> DEFINE m == Updated(l, t)
             k == IF t THEN 0 ELSE Min({n + 1, RecoveryHold + 1})
  <1>1. RecoveryHold \in Nat /\ RecoveryHold > 0
    BY HoldsAreTicks
  <1>2. Min({n + 1, RecoveryHold + 1}) = IF n + 1 <= RecoveryHold + 1 THEN n + 1 ELSE RecoveryHold + 1
    BY <1>1, SmallerOfTwo
  <1>3. k = IF t THEN 0 ELSE IF n + 1 <= RecoveryHold + 1 THEN n + 1 ELSE RecoveryHold + 1
    BY <1>2
  <1>u. m = Updated(l, t)
    OBVIOUS
  <1> HIDE DEF m, k
  <1> DEFINE Goal == /\ m \in Latches /\ k \in 0 .. RecoveryHold + 1
                     /\ m.engaged /\ m.clearing => m.for + 1 <= k
                     /\ l.engaged /\ ~m.engaged => k > RecoveryHold
  <1>l. l.engaged \in BOOLEAN /\ l.clearing \in BOOLEAN /\ l.for \in 0 .. RecoveryHold
    BY DEF Latches
  <1>4. ASSUME t PROVE Goal
    <2>1. m = [engaged |-> TRUE, clearing |-> FALSE, for |-> 0]
      BY <1>4, <1>u DEF Updated
    <2>2. k = 0
      BY <1>3, <1>4
    <2>3. m \in Latches /\ m.engaged = TRUE /\ m.clearing = FALSE
      BY <1>1, <2>1 DEF Latches
    <2> QED BY <1>1, <2>2, <2>3
  <1>5. ASSUME ~t, ~l.engaged PROVE Goal
    <2>1. m = l
      BY <1>5, <1>u DEF Updated
    <2> QED BY <1>1, <1>3, <1>5, <2>1
  <1>6. ASSUME ~t, l.engaged, ~l.clearing PROVE Goal
    <2>1. m = [l EXCEPT !.clearing = TRUE, !.for = 0]
      BY <1>6, <1>u DEF Updated
    <2>4. m = [engaged |-> l.engaged, clearing |-> TRUE, for |-> 0]
      BY <2>1 DEF Latches
    <2>2. m \in Latches /\ m.engaged = l.engaged /\ m.for = 0
      BY <1>1, <1>l, <2>4 DEF Latches
    <2>3. k \in 1 .. RecoveryHold + 1
      BY <1>1, <1>3, <1>6
    <2> QED BY <1>1, <1>6, <2>2, <2>3
  <1>7. ASSUME ~t, l.engaged, l.clearing PROVE Goal
    <2>1. m = IF l.for + 1 >= RecoveryHold THEN Latch ELSE [l EXCEPT !.for = @ + 1]
      BY <1>7, <1>u DEF Updated
    <2>2. l.for + 1 <= n
      BY <1>7
    <2>3. ASSUME l.for + 1 >= RecoveryHold PROVE Goal
      <3>1. m = Latch
        BY <2>1, <2>3
      <3>2. k = RecoveryHold + 1
        BY <1>1, <1>3, <1>7, <1>l, <2>2, <2>3
      <3>3. m \in Latches /\ m.engaged = FALSE
        BY <1>1, <3>1 DEF Latch, Latches
      <3> QED BY <1>1, <3>2, <3>3
    <2>4. ASSUME l.for + 1 < RecoveryHold PROVE Goal
      <3>1. m = [l EXCEPT !.for = l.for + 1]
        BY <2>1, <2>4, <1>1, <1>l
      <3>2. l.for + 1 \in 0 .. RecoveryHold
        BY <1>1, <1>l, <2>4
      <3>3. m \in Latches /\ m.engaged = l.engaged /\ m.for = l.for + 1
        BY <3>1, <3>2 DEF Latches
      <3>4. k \in 0 .. RecoveryHold + 1 /\ l.for + 2 <= k
        BY <1>1, <1>3, <1>7, <1>l, <2>2, <2>4
      <3>5. m.for + 1 <= k
        BY <1>l, <3>3, <3>4
      <3> QED BY <1>7, <3>3, <3>4, <3>5
    <2> QED BY <1>1, <1>l, <2>3, <2>4
  <1>8. Goal
    BY <1>4, <1>5, <1>6, <1>7, <1>l
  <1> QED BY <1>8 DEF m, k

(* One evaluation, over all the latches.                                   *)
LEMMA LatchesCount ==
  ASSUME LadderInv, Evaluate
  PROVE  /\ latch' \in [Conditions -> Latches] /\ clean' \in [Conditions -> 0 .. RecoveryHold + 1]
         /\ CountsCleanTicks'
         /\ \A c \in Conditions : latch[c].engaged /\ ~latch'[c].engaged => clean'[c] > RecoveryHold
  <1>1. /\ latch' = [c \in Conditions |-> Updated(latch[c], Triggered(c))]
        /\ clean' = [c \in Conditions |-> IF Triggered(c) THEN 0
                                          ELSE Min({clean[c] + 1, RecoveryHold + 1})]
    BY DEF Evaluate
  <1>2. ASSUME NEW c \in Conditions
        PROVE  /\ latch'[c] \in Latches /\ clean'[c] \in 0 .. RecoveryHold + 1
               /\ latch'[c].engaged /\ latch'[c].clearing => latch'[c].for + 1 <= clean'[c]
               /\ latch[c].engaged /\ ~latch'[c].engaged => clean'[c] > RecoveryHold
    <2>1. /\ latch[c] \in Latches /\ clean[c] \in 0 .. RecoveryHold + 1
          /\ latch[c].engaged /\ latch[c].clearing => latch[c].for + 1 <= clean[c]
      BY DEF LadderInv, LadderTypes, CountsCleanTicks
    <2>2. /\ latch'[c] = Updated(latch[c], Triggered(c))
          /\ clean'[c] = IF Triggered(c) THEN 0 ELSE Min({clean[c] + 1, RecoveryHold + 1})
      BY <1>1, Zenon
    <2>3. Triggered(c) \in BOOLEAN
      BY TriggersAreSeen
    <2> DEFINE l == latch[c]
               n == clean[c]
               t == Triggered(c)
               m == Updated(l, t)
               k == IF t THEN 0 ELSE Min({n + 1, RecoveryHold + 1})
    <2>4. l \in Latches /\ n \in 0 .. RecoveryHold + 1 /\ t \in BOOLEAN
          /\ (l.engaged /\ l.clearing => l.for + 1 <= n)
      BY <2>1, <2>3
    <2> HIDE DEF l, n, t
    <2>5. /\ m \in Latches /\ k \in 0 .. RecoveryHold + 1
          /\ m.engaged /\ m.clearing => m.for + 1 <= k
          /\ l.engaged /\ ~m.engaged => k > RecoveryHold
      BY <2>4, LatchCounts, Zenon
    <2>6. latch'[c] = m /\ clean'[c] = k
      BY <2>2 DEF l, n, t
    <2> HIDE DEF m, k
    <2> QED BY <2>5, <2>6 DEF l
  <1> QED BY <1>1, <1>2 DEF CountsCleanTicks

(* One evaluation, and the rest of the ladder's state.                     *)
LEMMA EvaluationsKeep ==
  ASSUME LadderInv, Evaluate
  PROVE  LadderInv'
  <1>0. LadderTypes
    BY DEF LadderInv
  <1>1. highFor' \in -1 .. QueueHighHold
    <2>1. highFor' = HighFor /\ highFor \in -1 .. QueueHighHold
      BY <1>0 DEF Evaluate, LadderTypes
    <2>2. Min({highFor + 1, QueueHighHold}) = IF highFor + 1 <= QueueHighHold THEN highFor + 1 ELSE QueueHighHold
      BY <2>1, HoldsAreTicks, SmallerOfTwo
    <2> QED BY <2>1, <2>2, HoldsAreTicks DEF HighFor
  <1>2. history' \in Seq([submitted : Nat, dropped : Nat]) /\ Len(history') <= Window
    <2>1. Arrivals \in [submitted : Nat, dropped : Nat]
      BY DEF Arrivals
    <2>2. history' = IF Len(history) < Window THEN Append(history, Arrivals)
                     ELSE Append(Tail(history), Arrivals)
      BY DEF Evaluate, Recorded
    <2>3. /\ history \in Seq([submitted : Nat, dropped : Nat]) /\ Len(history) \in Nat
          /\ Len(history) <= Window
      BY <1>0 DEF LadderTypes
    <2> HIDE DEF Arrivals
    <2>4. CASE Len(history) < Window
      BY <2>1, <2>2, <2>3, <2>4, HoldsAreTicks
    <2>5. CASE ~(Len(history) < Window)
      <3>1. history # <<>> /\ Len(history) = Window
        BY <2>3, <2>5, HoldsAreTicks
      <3>2. Tail(history) \in Seq([submitted : Nat, dropped : Nat]) /\ Len(Tail(history)) = Window - 1
        BY <2>3, <3>1
      <3> QED BY <2>1, <2>2, <2>5, <3>2, HoldsAreTicks
    <2> QED BY <2>4, <2>5
  <1>3. plan' \in [rung : 0 .. 7, diskStop : BOOLEAN, stalled : BOOLEAN, requested : {"full", "half"},
                   applied : {"full", "half"}]
    <2> DEFINE stop == plan.diskStop \/ FreeNow = "full"
    <2>1. plan' = [plan EXCEPT !.diskStop = stop, !.stalled = Stalled, !.rung = Gravest(latch', stop),
                               !.requested = IF latch'["frameDrops"].engaged THEN "half" ELSE "full"]
      BY DEF Evaluate
    <2>2. stop \in BOOLEAN /\ Stalled \in BOOLEAN
      BY DEF Stalled
    <2>3. Gravest(latch', stop) \in 0 .. 7
      BY <2>2, LatchesCount, RungsAreFew
    <2> HIDE DEF stop
    <2> QED BY <1>0, <2>1, <2>2, <2>3 DEF LadderTypes
  <1>4. UNCHANGED <<weather, changes>>
    BY DEF Evaluate
  <1>5. LadderTypes'
    BY <1>0, <1>1, <1>2, <1>3, <1>4, LatchesCount DEF LadderTypes
  <1> QED BY <1>5, LatchesCount DEF LadderInv

(* A step keeps the invariant, and a latch that lets go has been clean.    *)
LEMMA LadderStep ==
  ASSUME LadderInv, [LadderNext]_ladderVars
  PROVE  /\ LadderInv'
         /\ \A c \in Conditions : latch[c].engaged /\ ~latch'[c].engaged => clean'[c] > RecoveryHold
  <1>0. LadderTypes /\ CountsCleanTicks
    BY DEF LadderInv
  <1>1. CASE LoadChanges \/ FramesChange \/ DiskChanges \/ PauseOrResume
    <2>1. weather' \in Weathers
      BY <1>0, <1>1 DEF LoadChanges, FramesChange, DiskChanges, PauseOrResume, Becomes, LadderTypes, Weathers
    <2>2. changes' = changes + 1 /\ changes < MaxChanges
          /\ UNCHANGED <<latch, highFor, history, free, plan, clean>>
      BY <1>1 DEF LoadChanges, FramesChange, DiskChanges, PauseOrResume, Becomes
    <2>3. changes' \in 0 .. MaxChanges
      BY <1>0, <2>2, HoldsAreTicks DEF LadderTypes
    <2> QED BY <1>0, <2>1, <2>2, <2>3 DEF LadderInv, LadderTypes, CountsCleanTicks
  <1>2. CASE Evaluate
    BY <1>2, EvaluationsKeep, LatchesCount
  <1>3. CASE Applies
    BY <1>0, <1>3 DEF Applies, LadderInv, LadderTypes, CountsCleanTicks
  <1>4. CASE UNCHANGED ladderVars
    BY <1>0, <1>4 DEF ladderVars, LadderInv, LadderTypes, CountsCleanTicks
  <1> QED BY <1>1, <1>2, <1>3, <1>4 DEF LadderNext

(* The invariant of the ladder.                                            *)
LEMMA LadderHolds == LadderSpec => []LadderInv
  <1>1. LadderInit => LadderInv
    <2> SUFFICES ASSUME LadderInit PROVE LadderInv
      OBVIOUS
    <2>1. Latch \in Latches /\ ~Latch.engaged
      BY HoldsAreTicks DEF Latch, Latches
    <2> QED BY <2>1, HoldsAreTicks DEF LadderInit, LadderInv, LadderTypes, CountsCleanTicks, Weathers
  <1> QED BY <1>1, LadderStep, PTL DEF LadderSpec

(* The ladder's latches, window and plan keep their types, the rung among  *)
(* them: the gravest of the conditions engaged is one there is.            *)
THEOREM LadderTypeCorrect == LadderSpec => []LadderTypeOK
  <1>1. LadderInv => LadderTypeOK
    BY DEF LadderInv, LadderTypes, LadderTypeOK, Latches
  <1> QED BY <1>1, LadderHolds, PTL

(* A condition lets go only after RecoveryHold ticks in a row without its  *)
(* trigger, whatever the weather, the disk's looks and the pauses between. *)
THEOREM RungsDoNotFlap == LadderSpec => LetsGoOnlyWhenClean
  <1>1. LadderInv /\ [LadderNext]_ladderVars =>
          [\A c \in Conditions :
             latch[c].engaged /\ ~latch'[c].engaged => clean'[c] > RecoveryHold]_ladderVars
    BY LadderStep
  <1> QED BY <1>1, LadderHolds, PTL DEF LadderSpec, LetsGoOnlyWhenClean

-----------------------------------------------------------------------------
(* The settings file, for every set of versions and values and any number  *)
(* of saves and faults.                                                    *)

FileKinds == {Missing, Torn} \union [kind : {"text"}, text : Text, durable : BOOLEAN]

ConfigTypes ==
  /\ file \in FileKinds /\ temp \in FileKinds /\ backups \subseteq Text
  /\ engine \in [running : BOOLEAN, settings : Settings, unknown : BOOLEAN]
  /\ save \in [at : {"no", "write", "flush", "replace"}, text : Text]
  /\ faults \in [saves : Nat, faults : Nat]

(* What replaces the file has been flushed, and is what was serialized.    *)
OnlyFlushedReplaces ==
  /\ file.kind = "text" => file.durable
  /\ save.at = "flush" => temp = Holds(save.text, FALSE)
  /\ save.at = "replace" => temp = Holds(save.text, TRUE)
  /\ save.at # "no" => engine.running

(* No half of what excludes itself is asked for behind the other's back.   *)
NothingConflicts ==
  /\ NoMultitrackInMp4
  /\ save.at # "no" => ~Conflict(save.text.settings)

(* Keys the file has and this build does not know are in the document, and *)
(* in what is written from it.                                             *)
DocumentKeepsThem ==
  /\ engine.running /\ file.kind = "text" /\ file.text.unknown => engine.unknown
  /\ save.at # "no" => (save.text.unknown <=> engine.unknown)

ConfigInv == ConfigTypes /\ OnlyFlushedReplaces /\ NothingConflicts

(* A file that is there is told from one that is missing or torn, and is   *)
(* given by its text and whether it has been flushed.                      *)
LEMMA FilesAreTold ==
  /\ Missing \in FileKinds /\ Torn \in FileKinds
  /\ Missing.kind = "missing" /\ Torn.kind = "torn"
  /\ \A text \in Text, d \in BOOLEAN :
       /\ Holds(text, d) \in FileKinds /\ Holds(text, d).kind = "text"
       /\ Holds(text, d).text = text /\ Holds(text, d).durable = d
  /\ \A f \in FileKinds : f.kind = "text" =>
       /\ f \in [kind : {"text"}, text : Text, durable : BOOLEAN]
       /\ f = Holds(f.text, f.durable)
  BY DEF FileKinds, Missing, Torn, Holds

(* What the merging of a change, and serializing it, give.                 *)
LEMMA MergesAreSettings ==
  ASSUME ConfigTypes, NEW change \in Changes
  PROVE  /\ Merged(change) \in Settings
         /\ Serialized(Merged(change)) \in Text
         /\ Serialized(Merged(change)).settings = Merged(change)
         /\ Serialized(Merged(change)).unknown = engine.unknown
  <1>1. Merged(change) \in Settings
    BY DEF ConfigTypes, Changes, Merged, Settings
  <1> QED BY <1>1 DEF ConfigTypes, Serialized, Text

(* A power cut leaves what was flushed.                                    *)
LEMMA CutsKeep ==
  ASSUME NEW f \in FileKinds
  PROVE  /\ Kept(f) \in FileKinds
         /\ f.kind = "text" /\ f.durable => Kept(f) = f
         /\ Kept(f).kind = "text" => Kept(f) = f /\ f.durable
  BY FilesAreTold DEF Kept, FileKinds, Missing, Torn

(* A step keeps the invariant, a readable file readable, and its keys in   *)
(* it.                                                                     *)
LEMMA ConfigStep ==
  ASSUME ConfigInv, [ConfigNext]_configVars
  PROVE  /\ ConfigInv'
         /\ file.kind = "text" => file'.kind = "text"
         /\ ReadMayFail = FALSE /\ DocumentKeepsThem =>
              /\ DocumentKeepsThem'
              /\ file.kind = "text" /\ file.text.unknown => file'.kind = "text" /\ file'.text.unknown
  <1> DEFINE Stays ==
         /\ file.kind = "text" => file'.kind = "text"
         /\ ReadMayFail = FALSE /\ DocumentKeepsThem =>
              /\ DocumentKeepsThem'
              /\ file.kind = "text" /\ file.text.unknown => file'.kind = "text" /\ file'.text.unknown
  <1>0. ConfigTypes /\ OnlyFlushedReplaces /\ NothingConflicts
    BY DEF ConfigInv
  <1> USE DEF OnlyFlushedReplaces, NothingConflicts, NoMultitrackInMp4, DocumentKeepsThem
  <1>s. save.text \in Text /\ engine.settings \in Settings /\ engine.unknown \in BOOLEAN
    BY <1>0 DEF ConfigTypes
  <1>1. CASE StartsWithDefaults
    <2>1. Defaults \in Settings /\ ~Conflict(Defaults)
      BY ConfigAssumption DEF Defaults, Settings, Conflict
    <2>2. ConfigTypes'
      BY <1>0, <1>1, <2>1 DEF StartsWithDefaults, ConfigTypes
    <2> QED BY <1>0, <1>1, <2>1, <2>2 DEF StartsWithDefaults, ConfigInv
  <1>2. CASE StartsFromFile
    <2>1. file \in FileKinds /\ file.kind = "text"
      BY <1>0, <1>2 DEF ConfigTypes, StartsFromFile
    <2>2. file.text \in Text
      BY <2>1, FilesAreTold
    <2>3. file.text.settings \in Settings /\ file.text.unknown \in BOOLEAN
      BY <2>2 DEF Text
    <2>4. ConfigTypes'
      BY <1>0, <1>2, <2>2, <2>3 DEF StartsFromFile, ConfigTypes
    <2>5. engine'.settings = file.text.settings /\ engine'.unknown = file.text.unknown
      BY <1>2 DEF StartsFromFile
    <2> QED BY <1>0, <1>2, <2>4, <2>5 DEF StartsFromFile, ConfigInv
  <1>3. ASSUME NEW change \in Changes, Configure(change) PROVE ConfigInv' /\ Stays
    <2>1. Merged(change) \in Settings /\ ~Conflict(Merged(change))
      BY <1>0, <1>3, MergesAreSettings DEF Configure, Accepts
    <2>2. ConfigTypes'
      BY <1>0, <1>3, <2>1 DEF Configure, ConfigTypes
    <2>3. engine'.settings = Merged(change) /\ engine'.unknown = engine.unknown
          /\ engine'.running = engine.running
      BY <1>0, <1>3 DEF Configure, ConfigTypes
    <2> QED BY <1>0, <1>3, <2>1, <2>2, <2>3 DEF Configure, ConfigInv
  <1>4. ASSUME NEW change \in Changes, SaveConfig(change) PROVE ConfigInv' /\ Stays
    <2> DEFINE text == Serialized(Merged(change))
    <2>1. /\ Merged(change) \in Settings /\ ~Conflict(Merged(change))
          /\ text \in Text /\ text.settings = Merged(change) /\ text.unknown = engine.unknown
      BY <1>0, <1>4, MergesAreSettings DEF SaveConfig, Accepts
    <2>2. save' = [at |-> "write", text |-> text]
      BY <1>4 DEF SaveConfig
    <2> HIDE DEF text
    <2>3. ConfigTypes'
      BY <1>0, <1>4, <2>1, <2>2, FilesAreTold DEF SaveConfig, ConfigTypes
    <2>4. engine'.settings = Merged(change) /\ engine'.unknown = engine.unknown
          /\ engine'.running = engine.running
      BY <1>0, <1>4 DEF SaveConfig, ConfigTypes
    <2> QED BY <1>0, <1>4, <2>1, <2>2, <2>3, <2>4 DEF SaveConfig, ConfigInv
  <1>5. CASE WritesTemp
    <2>1. save' = [save EXCEPT !.at = "flush"] /\ save'.at = "flush" /\ save'.text = save.text
      BY <1>0, <1>5 DEF WritesTemp, ConfigTypes
    <2>2. ConfigTypes'
      BY <1>0, <1>5, <1>s, FilesAreTold DEF WritesTemp, ConfigTypes
    <2> QED BY <1>0, <1>5, <2>1, <2>2 DEF WritesTemp, ConfigInv
  <1>6. CASE FlushesTemp
    <2>4. temp = Holds(save.text, FALSE) /\ temp' = [temp EXCEPT !.durable = TRUE]
      BY <1>0, <1>6 DEF FlushesTemp
    <2>5. temp' \in FileKinds /\ temp'.kind = "text" /\ temp'.text = save.text /\ temp'.durable = TRUE
      BY <1>s, <2>4 DEF Holds, FileKinds
    <2>1. temp' = Holds(save.text, TRUE)
      BY <2>5, FilesAreTold
    <2>2. save'.at = "replace" /\ save'.text = save.text
      BY <1>0, <1>6 DEF FlushesTemp, ConfigTypes
    <2>3. ConfigTypes'
      <3>1. UNCHANGED <<file, backups, engine, faults>> /\ save' = [save EXCEPT !.at = "replace"]
        BY <1>6 DEF FlushesTemp
      <3> QED BY <1>0, <2>5, <3>1 DEF ConfigTypes
    <2> QED BY <1>0, <1>6, <2>1, <2>2, <2>3 DEF FlushesTemp, ConfigInv
  <1>7. CASE Replaces
    <2>1. file' = Holds(save.text, TRUE) /\ save'.at = "no"
      BY <1>0, <1>7 DEF Replaces, ConfigTypes
    <2>2. file'.kind = "text" /\ file'.text = save.text /\ file'.durable
      BY <1>s, <2>1, FilesAreTold
    <2>3. ConfigTypes'
      BY <1>0, <1>7, FilesAreTold DEF Replaces, ConfigTypes
    <2> QED BY <1>0, <1>7, <2>1, <2>2, <2>3 DEF Replaces, ConfigInv
  <1>8. CASE SaveFails
    <2>1. save'.at = "no"
      BY <1>0, <1>8 DEF SaveFails, ConfigTypes
    <2>2. ConfigTypes'
      BY <1>0, <1>8 DEF SaveFails, ConfigTypes
    <2> QED BY <1>0, <1>8, <2>1, <2>2 DEF SaveFails, ConfigInv
  <1>9. CASE EngineEnds
    <2>1. save'.at = "no" /\ ~engine'.running /\ engine'.settings = engine.settings
      BY <1>0, <1>9 DEF EngineEnds, ConfigTypes
    <2>2. ConfigTypes'
      <3>1. faults' \in [saves : Nat, faults : Nat]
        BY <1>0, <1>9 DEF EngineEnds, ConfigTypes
      <3>2. /\ engine' = [engine EXCEPT !.running = FALSE] /\ save' = [save EXCEPT !.at = "no"]
            /\ UNCHANGED <<file, temp, backups>>
        BY <1>9 DEF EngineEnds
      <3> QED BY <1>0, <3>1, <3>2 DEF ConfigTypes
    <2> QED BY <1>0, <1>9, <2>1, <2>2 DEF EngineEnds, ConfigInv
  <1>10. CASE PowerCut
    <2>1. save'.at = "no" /\ ~engine'.running /\ engine'.settings = engine.settings
      BY <1>0, <1>10 DEF PowerCut, ConfigTypes
    <2>2. ConfigTypes'
      <3>1. faults' \in [saves : Nat, faults : Nat]
        BY <1>0, <1>10 DEF PowerCut, ConfigTypes
      <3>2. file' \in FileKinds /\ temp' \in FileKinds
        BY <1>0, <1>10, CutsKeep DEF PowerCut, ConfigTypes
      <3>3. /\ engine' = [engine EXCEPT !.running = FALSE] /\ save' = [save EXCEPT !.at = "no"]
            /\ UNCHANGED backups
        BY <1>10 DEF PowerCut
      <3> QED BY <1>0, <3>1, <3>2, <3>3 DEF ConfigTypes
    <2>3. /\ file.kind = "text" => file' = file
          /\ file'.kind = "text" => file' = file /\ file.durable
      BY <1>0, <1>10, CutsKeep DEF PowerCut, ConfigTypes
    <2> QED BY <1>0, <2>1, <2>2, <2>3 DEF ConfigInv
  <1>11. CASE UNCHANGED configVars
    BY <1>0, <1>11 DEF configVars, ConfigTypes, ConfigInv
  <1> QED BY <1>1, <1>2, <1>3, <1>4, <1>5, <1>6, <1>7, <1>8, <1>9, <1>10, <1>11 DEF ConfigNext

(* The start of the first engine.                                          *)
LEMMA ConfigStarts ==
  ASSUME ConfigInit
  PROVE  ConfigInv /\ DocumentKeepsThem
  <1>1. Defaults \in Settings /\ ~Conflict(Defaults)
    BY ConfigAssumption DEF Defaults, Settings, Conflict
  <1>2. Serialized(Defaults) \in Text
    BY <1>1 DEF ConfigInit, Serialized, Text
  <1>3. file \in FileKinds /\ (file.kind = "text" => file.durable /\ ~Conflict(file.text.settings))
    BY FilesAreTold DEF ConfigInit
  <1> QED BY <1>1, <1>2, <1>3, FilesAreTold
      DEF ConfigInit, ConfigInv, ConfigTypes, OnlyFlushedReplaces, NothingConflicts, NoMultitrackInMp4,
          DocumentKeepsThem

(* The invariant of the settings.                                          *)
LEMMA ConfigHolds == ConfigSpec => []ConfigInv
  BY ConfigStarts, ConfigStep, PTL DEF ConfigSpec

(* No failed write, kill or power cut, at whichever step of a save, leaves *)
(* half a file under the name of a readable one.                           *)
THEOREM ReadableFilesStay == ConfigSpec => AReadableFileStaysReadable
  <1>1. ConfigInv /\ [ConfigNext]_configVars
          => [file.kind = "text" => file'.kind = "text"]_configVars
    BY ConfigStep
  <1> QED BY <1>1, ConfigHolds, PTL DEF ConfigSpec, AReadableFileStaysReadable

(* Keys this build does not know are never lost from a readable file,      *)
(* whatever is saved, fails, is killed and is started again, provided the  *)
(* file can be read whenever the engine starts.                            *)
THEOREM UnknownKeysStay ==
  ASSUME ReadMayFail = FALSE
  PROVE  ConfigSpec => UnknownKeysSurvive
  <1>1. ConfigInv /\ DocumentKeepsThem /\ [ConfigNext]_configVars
          => /\ DocumentKeepsThem'
             /\ [(file.kind = "text" /\ file.text.unknown)
                   => (file'.kind = "text" /\ file'.text.unknown)]_configVars
    BY ConfigStep
  <1>2. ConfigInit => DocumentKeepsThem
    BY ConfigStarts
  <1> QED BY <1>1, <1>2, ConfigHolds, PTL DEF ConfigSpec, UnknownKeysSurvive

(* Multi-track audio and MP4 are together neither in force nor in the      *)
(* file, in whatever order their halves are asked for.                     *)
THEOREM HalvesExcludeEachOther == ConfigSpec => []NoMultitrackInMp4
  <1>1. ConfigInv => NoMultitrackInMp4
    BY DEF ConfigInv, NothingConflicts
  <1> QED BY <1>1, ConfigHolds, PTL

-----------------------------------------------------------------------------
(* The end of an audio path: AudioEncodePath and AacEncoder.               *)

(* What is left to feed: the counts of one call of feed, and the stalls.   *)
AacCounts ==
  /\ nextPts + Len(staging) + Len(given) <= canonical
  /\ consumed + Len(given) <= canonical
  /\ ~ending => canonical <= MaxFed
  /\ stalls = MaxStalls => feeding \in {"drainsLast", "over"}
  /\ feeding \notin {"submits", "drains"} => given = <<>>

(* The samples rise from the frames sent over the staged ones to those the *)
(* caller still holds, and none is past what was written.                   *)
InOrder(sent, held, left, total) ==
  /\ \A i \in DOMAIN sent : /\ Rising(sent[i].samples)
                            /\ Precedes(sent[i].samples, held)
                            /\ Precedes(sent[i].samples, left)
  /\ \A i, j \in DOMAIN sent : i < j => Precedes(sent[i].samples, sent[j].samples)
  /\ Rising(held) /\ Rising(left) /\ Precedes(held, left)
  /\ \A i \in DOMAIN sent : \A m \in DOMAIN sent[i].samples : sent[i].samples[m] < total
  /\ \A m \in DOMAIN held : held[m] < total
  /\ \A m \in DOMAIN left : left[m] < total

(* Nothing is missing up to what was written, and a frame starts at its    *)
(* stamp: so it is while the codec has not failed.                         *)
Complete(sent, held, left, pts, total) ==
  /\ total = pts + Len(held) + Len(left)
  /\ \A k \in 0 .. pts - 1 :
       \E i \in DOMAIN sent : \E m \in DOMAIN sent[i].samples : sent[i].samples[m] = k
  /\ \A i \in DOMAIN sent : sent[i].samples # <<>> /\ sent[i].pts = sent[i].samples[1]
  /\ \A m \in DOMAIN held : held[m] = pts + m - 1
  /\ \A m \in DOMAIN left : left[m] = pts + Len(held) + m - 1

(* While it has not failed it refuses a frame only when another waits: the *)
(* call that consumed nothing has drained it, so does the second attempt   *)
(* to mark the end.                                                        *)
AacFlow ==
  /\ ended => feeding \in {"drainsLast", "over"}
  /\ feeding \in {"idle", "flushes"} => Len(coding) <= 1
  /\ feeding = "submits" /\ consumed = 0 /\ Len(staging) = FrameSize => Len(coding) <= 1
  /\ feeding = "drains" => consumed > 0 \/ given = <<>>
  /\ feeding = "flushes" => stalls = 0 \/ (stalls = 1 /\ staging = <<>>)
  /\ feeding = "marksEnd" => staging = <<>> /\ (stalls = 0 \/ (stalls = 1 /\ Len(coding) <= 1))
  /\ feeding = "drainsToFlush" => staging = <<>> /\ stalls = 0
  /\ feeding \in {"drainsLast", "over"} => staging = <<>> /\ ended
  /\ feeding = "over" => coding = <<>>

AacInv ==
  /\ AacTypeOK /\ AacCounts /\ InOrder(Sent, staging, given, canonical)
  /\ codecTally = 0 => Complete(Sent, staging, given, nextPts, canonical) /\ AacFlow

-----------------------------------------------------------------------------
(* What AacEncoder::submit stages and leaves, sample by sample.            *)
LEMMA StagingMoves ==
  ASSUME AacTypeOK
  PROVE  /\ Room \in Nat /\ Take \in Nat /\ Take <= Room /\ Take <= Len(given)
         /\ Take < Room => Take = Len(given)
         /\ Staged \in Seq(Samples) /\ Len(Staged) = Len(staging) + Take
         /\ Rest \in Seq(Samples) /\ Len(Rest) = Len(given) - Take
         /\ \A m \in 1 .. Len(staging) : Staged[m] = staging[m]
         /\ \A m \in Len(staging) + 1 .. Len(staging) + Take :
              m - Len(staging) \in 1 .. Take /\ Staged[m] = given[m - Len(staging)]
         /\ \A m \in 1 .. Len(given) - Take : Rest[m] = given[Take + m]
<1>1. /\ FrameSize \in Nat /\ given \in Seq(Samples) /\ staging \in Seq(Samples)
      /\ Len(staging) \in Nat /\ Len(given) \in Nat /\ Len(staging) <= FrameSize
  BY AacAssumption DEF AacTypeOK
<1>2. /\ Room \in Nat /\ Take \in Nat /\ Take <= Room /\ Take <= Len(given)
      /\ Take < Room => Take = Len(given)
  BY <1>1 DEF Room, Take
<1>3. PICK k \in Nat : k = Take
  BY <1>2
<1>4. k <= Len(given) /\ k + 1 \in Nat /\ \A m \in 1 .. Len(given) : given[m] \in Samples
  BY <1>1, <1>2, <1>3
<1>5. /\ SubSeq(given, 1, k) \in Seq(Samples) /\ Len(SubSeq(given, 1, k)) = k
      /\ \A m \in 1 .. k : SubSeq(given, 1, k)[m] = given[m]
  <2>1. \A m \in 1 .. k : given[m] \in Samples
    BY <1>1, <1>4
  <2>2. /\ SubSeq(given, 1, k) \in Seq(Samples)
        /\ Len(SubSeq(given, 1, k)) = IF 1 <= k THEN k - 1 + 1 ELSE 0
        /\ \A m \in 1 .. k - 1 + 1 : SubSeq(given, 1, k)[m] = given[1 + m - 1]
    BY <1>1, <2>1, SubSeqProperties
  <2> QED
    BY <2>2
<1>6. PICK first \in Seq(Samples) :
        first = SubSeq(given, 1, k) /\ Len(first) = k /\ \A m \in 1 .. k : first[m] = given[m]
  BY <1>5
<1>7. Staged = staging \o first
  BY <1>3, <1>6 DEF Staged
<1>8. /\ Staged \in Seq(Samples) /\ Len(Staged) = Len(staging) + k
      /\ \A m \in 1 .. Len(staging) + k :
           Staged[m] = IF m <= Len(staging) THEN staging[m] ELSE first[m - Len(staging)]
  BY <1>1, <1>6, <1>7, ConcatProperties
<1>9. /\ \A m \in 1 .. Len(staging) : Staged[m] = staging[m]
      /\ \A m \in Len(staging) + 1 .. Len(staging) + k :
           m - Len(staging) \in 1 .. k /\ Staged[m] = given[m - Len(staging)]
  BY <1>1, <1>6, <1>8
<1>10. /\ Rest \in Seq(Samples) /\ Len(Rest) = Len(given) - k
       /\ \A m \in 1 .. Len(given) - k : Rest[m] = given[k + m]
  <2>1. \A m \in k + 1 .. Len(given) : given[m] \in Samples
    BY <1>1, <1>4
  <2>2. /\ SubSeq(given, k + 1, Len(given)) \in Seq(Samples)
        /\ Len(SubSeq(given, k + 1, Len(given)))
             = IF k + 1 <= Len(given) THEN Len(given) - (k + 1) + 1 ELSE 0
        /\ \A m \in 1 .. Len(given) - (k + 1) + 1 :
             SubSeq(given, k + 1, Len(given))[m] = given[k + 1 + m - 1]
    BY <1>1, <2>1, SubSeqProperties
  <2>3. Rest = SubSeq(given, k + 1, Len(given))
    BY <1>3 DEF Rest
  <2> QED
    BY <1>1, <1>4, <2>2, <2>3
<1> QED
  BY <1>2, <1>3, <1>8, <1>9, <1>10

(* The types and the counts go together: a sample's number is below what   *)
(* was written, and no more is written than the bounds allow.              *)
LEMMA AacTypesStep ==
  ASSUME AacTypeOK, AacCounts, [AacNext]_aacVars
  PROVE  AacTypeOK' /\ AacCounts'
<1> DEFINE Bounds == /\ FrameSize \in Nat \ {0} /\ MaxStalls \in Nat \ {0} /\ MaxChunk \in Nat \ {0}
                     /\ MaxFed \in Nat /\ CodecFaults \in Nat
<1>1. Bounds
  BY AacAssumption
<1>2. /\ Len(staging) \in Nat /\ Len(given) \in Nat
      /\ canonical \in Nat /\ nextPts \in Nat /\ consumed \in Nat /\ stalls \in Nat
      /\ codecTally \in Nat
  BY <1>1 DEF AacTypeOK
<1>3. ASSUME NEW n \in 1 .. MaxChunk, Feed(n), ~ending, ending' \in BOOLEAN,
             ending' \/ canonical + n <= MaxFed, feeding = "idle",
             UNCHANGED <<stageVars, codecVars, codecTally>>
      PROVE  AacTypeOK' /\ AacCounts'
  <2>1. n \in Nat /\ canonical + n <= MaxFed + MaxChunk
    BY <1>1, <1>2, <1>3 DEF AacCounts
  <2>2. \A i \in 1 .. n : canonical + i - 1 \in Samples
    BY <1>1, <1>2, <2>1 DEF Samples
  <2>3. given' \in Seq(Samples) /\ Len(given') = n
    BY <1>3, <2>1, <2>2 DEF Feed
  <2>4. given = <<>>
    BY <1>3 DEF AacCounts
  <2>5. AacCounts'
    BY <1>1, <1>2, <1>3, <2>1, <2>3, <2>4 DEF AacCounts, Feed, stageVars
  <2> QED
    BY <1>1, <1>2, <1>3, <2>1, <2>3, <2>5 DEF AacTypeOK, Feed, stageVars, codecVars
<1>4. ASSUME feeding = "submits", staging' = Staged, given' \in {<<>>, Rest},
             consumed' \in {consumed, consumed + Take}, feeding' \in {"drains", "idle", "flushes"},
             feeding' = "drains" \/ given' = <<>>,
             stalls' \in {stalls, 0}, codecTally' \in {codecTally, codecTally + 1},
             codecTally' <= CodecFaults, UNCHANGED <<ending, canonical, nextPts, codecVars>>
      PROVE  AacTypeOK' /\ AacCounts'
  <2>1. /\ staging' \in Seq(Samples) /\ Len(staging') = Len(staging) + Take
        /\ given' \in Seq(Samples) /\ Len(given') <= Len(given) - Take /\ Len(given') \in Nat
        /\ Take \in Nat /\ Take <= Room /\ Take <= Len(given)
    <3>1. <<>> \in Seq(Samples) /\ Len(<<>>) = 0
      OBVIOUS
    <3>2. /\ Staged \in Seq(Samples) /\ Len(Staged) = Len(staging) + Take
          /\ Take \in Nat /\ Take <= Room /\ Take <= Len(given)
          /\ Rest \in Seq(Samples) /\ Len(Rest) = Len(given) - Take
      BY StagingMoves
    <3>3. CASE given' = <<>>
      BY <1>2, <1>4, <3>1, <3>2, <3>3
    <3>4. CASE given' = Rest
      BY <1>2, <1>4, <3>2, <3>4
    <3> QED
      BY <1>4, <3>3, <3>4
  <2>2. AacCounts'
    BY <1>1, <1>2, <1>4, <2>1 DEF AacCounts
  <2>3. /\ consumed' \in 0 .. MaxFed + MaxChunk /\ Len(staging') <= FrameSize
    BY <1>1, <1>2, <1>4, <2>1 DEF AacCounts, AacTypeOK, Room
  <2>4. feeding' \in {"idle", "submits", "drains", "flushes", "marksEnd", "drainsToFlush",
                  "drainsLast", "over"} /\ stalls' \in 0 .. MaxStalls /\ codecTally' \in 0 .. CodecFaults
    BY <1>1, <1>2, <1>4 DEF AacTypeOK
  <2> QED
    BY <1>4, <2>1, <2>2, <2>3, <2>4 DEF AacTypeOK, codecVars
<1>5. ASSUME NEW piece \in Seq(Samples), coding' = Append(coding, [pts |-> nextPts, samples |-> piece]),
             Len(piece) > 0, nextPts' = nextPts + Len(piece),
             nextPts + Len(piece) <= canonical
      PROVE  coding' \in Seq(Frames) /\ nextPts' \in 0 .. MaxFed + MaxChunk
  <2>1. nextPts \in Samples
    BY <1>1, <1>2, <1>5 DEF Samples, AacTypeOK
  <2>2. [pts |-> nextPts, samples |-> piece] \in Frames
    BY <1>5, <2>1 DEF Frames
  <2>3. \A p \in Frames : Append(coding, p) \in Seq(Frames)
    BY DEF AacTypeOK
  <2> QED
    BY <1>1, <1>2, <1>5, <2>2, <2>3 DEF AacTypeOK
<1>6. ASSUME Collectable
      PROVE  /\ Tail(coding) \in Seq(Frames)
             /\ \A p \in {Head(coding)} : Append(coded, p) \in Seq(Frames)
  <2>1. coding \in Seq(Frames) /\ coding # <<>>
    BY <1>6 DEF Collectable, AacTypeOK
  <2>2. Head(coding) \in Frames /\ Tail(coding) \in Seq(Frames)
    BY <2>1
  <2> QED
    BY <2>2 DEF AacTypeOK
<1>7. ASSUME DrainReturns
      PROVE  coding' \in Seq(Frames) /\ codecTally' \in 0 .. CodecFaults
  <2>1. CASE ~Collectable /\ UNCHANGED <<coding, codecTally>>
    BY <2>1 DEF AacTypeOK
  <2>2. CASE Collectable /\ CodecFails /\ coding' = Tail(coding)
    BY <1>1, <1>2, <1>6, <2>2 DEF CodecFails
  <2> QED
    BY <1>7, <2>1, <2>2 DEF DrainReturns
<1>8. CASE EmitAudio
  BY <1>3, <1>8 DEF EmitAudio, AacTypeOK
<1>9. CASE StagesPart
  <2>1. given' = <<>> /\ feeding' = "drains"
    BY <1>9 DEF StagesPart
  <2> QED
    BY <1>2, <1>4, <1>9, <2>1 DEF StagesPart, AacTypeOK
<1>10. CASE SendsFrame
  <2>1. /\ Staged \in Seq(Samples) /\ Len(Staged) = Len(staging) + Take /\ Take = Room
        /\ Rest \in Seq(Samples) /\ Len(Rest) = Len(given) - Take /\ Take \in Nat /\ Take <= Len(given)
    BY <1>10, StagingMoves DEF SendsFrame
  <2>2. Len(Staged) = FrameSize
    BY <1>1, <1>2, <2>1 DEF Room
  <2>3. coding' \in Seq(Frames) /\ nextPts' \in 0 .. MaxFed + MaxChunk
    <3>1. /\ coding' = Append(coding, [pts |-> nextPts, samples |-> Staged])
          /\ nextPts' = nextPts + FrameSize
      BY <1>10 DEF SendsFrame
    <3>2. Len(Staged) > 0 /\ nextPts + Len(Staged) <= canonical
      BY <1>1, <1>2, <2>1, <2>2 DEF AacCounts
    <3> QED
      BY <1>5, <2>1, <2>2, <3>1, <3>2
  <2>4. AacCounts'
    BY <1>1, <1>2, <1>10, <2>1, <2>2 DEF SendsFrame, AacCounts
  <2>5. consumed' \in 0 .. MaxFed + MaxChunk
    BY <1>1, <1>2, <1>10, <2>1 DEF SendsFrame, AacCounts, AacTypeOK
  <2>6. Len(<<>>) = 0 /\ <<>> \in Seq(Samples)
    OBVIOUS
  <2>7. feeding' \in {"drains", "submits"}
    BY <1>10 DEF SendsFrame
  <2> QED
    BY <1>1, <1>10, <2>1, <2>3, <2>4, <2>5, <2>6, <2>7 DEF SendsFrame, AacTypeOK
<1>11. CASE FrameRefused
  BY <1>2, <1>4, <1>11 DEF FrameRefused, RestOnRefusal, AacTypeOK
<1>12. CASE FrameFails
  BY <1>1, <1>2, <1>4, <1>12 DEF FrameFails, AacTypeOK, CodecFails, FeedReturns
<1>13. CASE CollectsPacket
  <2>1. coding' \in Seq(Frames) /\ coded' \in Seq(Frames)
    BY <1>6, <1>13 DEF CollectsPacket
  <2> QED
    BY <1>13, <2>1 DEF CollectsPacket, AacTypeOK, AacCounts, feedVars, stageVars
<1>14. CASE SubmitsOn
  <2>1. coding' \in Seq(Frames) /\ codecTally' \in 0 .. CodecFaults
    BY <1>7, <1>14 DEF SubmitsOn
  <2>2. stalls < MaxStalls
    BY <1>1, <1>2, <1>14 DEF SubmitsOn, AacCounts, AacTypeOK
  <2>3. stalls' \in 0 .. MaxStalls /\ stalls' < MaxStalls
    BY <1>1, <1>2, <1>14, <2>2 DEF SubmitsOn
  <2>4. Len(given) <= canonical
    BY <1>2 DEF AacCounts, AacTypeOK
  <2>5. AacCounts'
    BY <1>1, <1>2, <1>14, <2>3, <2>4 DEF SubmitsOn, AacCounts, stageVars
  <2> QED
    BY <1>1, <1>14, <2>1, <2>3, <2>5 DEF SubmitsOn, AacTypeOK, stageVars
<1>15. CASE FeedEnds
  <2>1. coding' \in Seq(Frames) /\ codecTally' \in 0 .. CodecFaults
    BY <1>7, <1>15 DEF FeedEnds
  <2>2. Len(<<>>) = 0 /\ <<>> \in Seq(Samples)
    OBVIOUS
  <2>3. AacCounts'
    BY <1>1, <1>2, <1>15, <2>2 DEF FeedEnds, AacCounts, stageVars
  <2>4. feeding' \in {"idle", "flushes"}
    BY <1>15 DEF FeedEnds, FeedReturns
  <2> QED
    BY <1>1, <1>15, <2>1, <2>2, <2>3, <2>4 DEF FeedEnds, AacTypeOK, stageVars
<1>16. CASE Finishes
  <2>1. CASE \E n \in 1 .. MaxChunk : Feed(n)
    BY <1>3, <1>16, <2>1 DEF Finishes, AacTypeOK
  <2>2. CASE feeding' = "flushes" /\ stalls' = 0 /\ UNCHANGED <<canonical, given, consumed>>
    BY <1>1, <1>2, <1>16, <2>2 DEF Finishes, AacTypeOK, AacCounts, stageVars, codecVars
  <2> QED
    BY <1>16, <2>1, <2>2 DEF Finishes
<1>17. CASE FlushesPartial
  <2>1. Len(<<>>) = 0 /\ <<>> \in Seq(Samples) /\ given = <<>>
    BY <1>17 DEF FlushesPartial, AacCounts
  <2>2. coding' \in Seq(Frames) /\ nextPts' \in 0 .. MaxFed + MaxChunk
        /\ nextPts' <= canonical
    <3>1. CASE staging = <<>>
      BY <1>2, <1>17, <3>1 DEF FlushesPartial, AacTypeOK, AacCounts
    <3>2. CASE staging # <<>>
      <4>1. Len(staging) > 0 /\ staging \in Seq(Samples)
        BY <3>2 DEF AacTypeOK
      <4>2. /\ coding' = Append(coding, [pts |-> nextPts, samples |-> staging])
            /\ nextPts' = nextPts + Len(staging)
        BY <1>17, <3>2 DEF FlushesPartial
      <4>3. nextPts + Len(staging) <= canonical
        BY <1>2, <2>1 DEF AacCounts
      <4> QED
        BY <1>5, <4>1, <4>2, <4>3
    <3> QED
      BY <3>1, <3>2
  <2>3. AacCounts'
    <3>1. /\ staging' = <<>> /\ given' = <<>> /\ feeding' = "marksEnd" /\ stalls # MaxStalls
          /\ canonical' = canonical /\ consumed' = consumed /\ ending' = ending /\ stalls' = stalls
      BY <1>17, <2>1 DEF FlushesPartial, AacCounts, feedVars
    <3>2. nextPts' + Len(staging') + Len(given') <= canonical' /\ consumed' + Len(given') <= canonical'
      <4>1. nextPts' \in Int /\ consumed + Len(given) <= canonical
        BY <1>1, <2>2 DEF AacCounts
      <4>2. Len(staging') = 0 /\ Len(given') = 0 /\ Len(given) = 0
        BY <2>1, <3>1
      <4>3. consumed <= canonical
        BY <1>2, <4>1, <4>2
      <4>4. nextPts' + Len(staging') + Len(given') <= canonical'
        <5>1. nextPts' <= canonical /\ canonical' = canonical
          BY <2>2, <3>1
        <5>2. PICK p \in Int : p = nextPts'
          BY <4>1
        <5>3. p <= canonical
          BY <5>1, <5>2
        <5>4. p + 0 + 0 <= canonical
          BY <1>2, <5>3
        <5> QED
          BY <4>2, <5>1, <5>2, <5>4
      <4> QED
        BY <1>2, <2>1, <3>1, <4>2, <4>3, <4>4
    <3> QED
      BY <3>1, <3>2 DEF AacCounts
  <2> QED
    BY <1>1, <1>17, <2>1, <2>2, <2>3 DEF FlushesPartial, AacTypeOK, feedVars
<1>18. CASE MarksEnd
  BY <1>18 DEF MarksEnd, AacTypeOK, AacCounts, feedVars, stageVars
<1>19. CASE FlushRefused
  BY <1>18, <1>19 DEF FlushRefused, AacTypeOK, AacCounts, feedVars, stageVars, codecVars
<1>20. CASE FlushesAgain
  <2>1. coding' \in Seq(Frames) /\ codecTally' \in 0 .. CodecFaults
    BY <1>7, <1>20 DEF FlushesAgain
  <2>2. stalls' \in 0 .. MaxStalls /\ given = <<>>
    BY <1>1, <1>2, <1>20 DEF FlushesAgain, AacTypeOK, AacCounts
  <2>3. feeding' \in {"flushes", "drainsLast"} /\ (stalls' = MaxStalls => feeding' = "drainsLast")
    BY <1>1, <1>2, <1>20 DEF FlushesAgain
  <2>4. AacCounts'
    BY <1>20, <2>2, <2>3 DEF FlushesAgain, AacCounts, stageVars
  <2> QED
    BY <1>20, <2>1, <2>2, <2>3, <2>4 DEF FlushesAgain, AacTypeOK, stageVars
<1>21. CASE FlushFails
  BY <1>1, <1>2, <1>21 DEF FlushFails, AacTypeOK, AacCounts, feedVars, stageVars, codecVars, CodecFails
<1>22. CASE PathFinished
  <2>1. coding' \in Seq(Frames) /\ codecTally' \in 0 .. CodecFaults
    BY <1>7, <1>22 DEF PathFinished
  <2> QED
    BY <1>22, <2>1 DEF PathFinished, AacTypeOK, AacCounts, feedVars, stageVars
<1>23. CASE UNCHANGED aacVars
  BY <1>23 DEF aacVars, AacTypeOK, AacCounts, feedVars, stageVars, codecVars
<1> QED
  BY <1>8, <1>9, <1>10, <1>11, <1>12, <1>13, <1>14, <1>15, <1>16, <1>17, <1>18, <1>19, <1>20,
     <1>21, <1>22, <1>23 DEF AacNext

-----------------------------------------------------------------------------
(* What submit does to three pieces of the track, seen apart from the      *)
(* state: the frames sent, what is held and what is left of the call.    *)
MovesOn(held, left, more, rest, k) ==
  /\ Len(more) = Len(held) + k /\ Len(rest) = Len(left) - k
  /\ \A m \in 1 .. Len(held) : more[m] = held[m]
  /\ \A m \in Len(held) + 1 .. Len(held) + k :
       m - Len(held) \in 1 .. k /\ more[m] = left[m - Len(held)]
  /\ \A m \in 1 .. Len(left) - k : rest[m] = left[k + m]

(* A frame that is lost, and what is given up, leave the others in order.  *)
LEMMA OrderOfFewer ==
  ASSUME NEW sent \in Seq(Frames), NEW held \in Seq(Samples), NEW left \in Seq(Samples),
         NEW total \in Nat, InOrder(sent, held, left, total),
         NEW fewer \in Seq(Frames), NEW at \in [DOMAIN fewer -> DOMAIN sent],
         \A i \in DOMAIN fewer : fewer[i] = sent[at[i]],
         \A i, j \in DOMAIN fewer : i < j => at[i] < at[j]
  PROVE  InOrder(fewer, held, left, total)
BY DEF InOrder

LEMMA OrderOfNothingLeft ==
  ASSUME NEW sent \in Seq(Frames), NEW held \in Seq(Samples), NEW left \in Seq(Samples),
         NEW total \in Nat, InOrder(sent, held, left, total)
  PROVE  InOrder(sent, held, <<>>, total)
<1>1. \A m \in DOMAIN <<>> : FALSE
  OBVIOUS
<1> QED
  BY <1>1 DEF InOrder, Rising, Precedes

LEMMA OrderOfStaged ==
  ASSUME NEW sent \in Seq(Frames), NEW held \in Seq(Samples), NEW left \in Seq(Samples),
         NEW total \in Nat, InOrder(sent, held, left, total),
         NEW k \in 0 .. Len(left), NEW more \in Seq(Samples), NEW rest \in Seq(Samples),
         MovesOn(held, left, more, rest, k)
  PROVE  InOrder(sent, more, rest, total)
<1>1. /\ Len(held) \in Nat /\ Len(left) \in Nat /\ k \in Nat /\ k <= Len(left)
      /\ DOMAIN held = 1 .. Len(held) /\ DOMAIN left = 1 .. Len(left)
      /\ DOMAIN more = 1 .. Len(held) + k /\ DOMAIN rest = 1 .. Len(left) - k
  BY DEF MovesOn
<1>2. \A m \in DOMAIN more :
        \/ m \in DOMAIN held /\ more[m] = held[m]
        \/ m > Len(held) /\ m - Len(held) \in DOMAIN left /\ more[m] = left[m - Len(held)]
           /\ m - Len(held) <= k
  <2> SUFFICES ASSUME NEW m \in DOMAIN more
               PROVE  \/ m \in DOMAIN held /\ more[m] = held[m]
                      \/ m > Len(held) /\ m - Len(held) \in DOMAIN left
                         /\ more[m] = left[m - Len(held)] /\ m - Len(held) <= k
    OBVIOUS
  <2>1. m \in 1 .. Len(held) \/ m \in Len(held) + 1 .. Len(held) + k
    BY <1>1
  <2>2. CASE m \in 1 .. Len(held)
    BY <1>1, <2>2 DEF MovesOn
  <2>3. CASE m \in Len(held) + 1 .. Len(held) + k
    <3>1. m - Len(held) \in 1 .. k /\ more[m] = left[m - Len(held)]
      BY <2>3 DEF MovesOn
    <3>2. m > Len(held) /\ m - Len(held) \in DOMAIN left /\ m - Len(held) <= k
      BY <1>1, <2>3, <3>1
    <3> QED
      BY <3>1, <3>2
  <2> QED
    BY <2>1, <2>2, <2>3
<1>3. \A m \in DOMAIN rest : k + m \in DOMAIN left /\ rest[m] = left[k + m]
  BY <1>1 DEF MovesOn
<1>4. Rising(more)
  <2> SUFFICES ASSUME NEW m \in DOMAIN more, NEW n \in DOMAIN more, m < n
               PROVE  more[m] < more[n]
    BY DEF Rising
  <2>1. CASE n \in DOMAIN held /\ more[n] = held[n]
    <3>1. m \in DOMAIN held /\ more[m] = held[m]
      BY <1>1, <1>2, <2>1
    <3> QED
      BY <2>1, <3>1 DEF InOrder, Rising
  <2>2. CASE n > Len(held) /\ n - Len(held) \in DOMAIN left /\ more[n] = left[n - Len(held)]
    <3>1. CASE m \in DOMAIN held /\ more[m] = held[m]
      BY <2>2, <3>1 DEF InOrder, Precedes
    <3>2. CASE m > Len(held) /\ m - Len(held) \in DOMAIN left /\ more[m] = left[m - Len(held)]
      <4>1. m - Len(held) < n - Len(held)
        BY <1>1
      <4> QED
        BY <2>2, <3>2, <4>1 DEF InOrder, Rising
    <3> QED
      BY <1>2, <3>1, <3>2
  <2> QED
    BY <1>2, <2>1, <2>2
<1>5. Rising(rest)
  <2> SUFFICES ASSUME NEW m \in DOMAIN rest, NEW n \in DOMAIN rest, m < n
               PROVE  rest[m] < rest[n]
    BY DEF Rising
  <2>1. k + m < k + n
    BY <1>1
  <2> QED
    BY <1>3, <2>1 DEF InOrder, Rising
<1>6. Precedes(more, rest)
  <2> SUFFICES ASSUME NEW m \in DOMAIN more, NEW n \in DOMAIN rest
               PROVE  more[m] < rest[n]
    BY DEF Precedes
  <2>1. CASE m \in DOMAIN held /\ more[m] = held[m]
    BY <1>3, <2>1 DEF InOrder, Precedes
  <2>2. CASE m > Len(held) /\ m - Len(held) \in DOMAIN left /\ more[m] = left[m - Len(held)]
             /\ m - Len(held) <= k
    <3>1. m - Len(held) < k + n
      BY <1>1, <2>2
    <3> QED
      BY <1>3, <2>2, <3>1 DEF InOrder, Rising
  <2> QED
    BY <1>2, <2>1, <2>2
<1>7. \A i \in DOMAIN sent : Precedes(sent[i].samples, more) /\ Precedes(sent[i].samples, rest)
  <2> SUFFICES ASSUME NEW i \in DOMAIN sent, NEW m \in DOMAIN sent[i].samples
               PROVE  /\ \A n \in DOMAIN more : sent[i].samples[m] < more[n]
                      /\ \A n \in DOMAIN rest : sent[i].samples[m] < rest[n]
    BY DEF Precedes
  <2>1. /\ \A n \in DOMAIN held : sent[i].samples[m] < held[n]
        /\ \A n \in DOMAIN left : sent[i].samples[m] < left[n]
    BY DEF InOrder, Precedes
  <2> QED
    BY <1>2, <1>3, <2>1
<1>8. /\ \A m \in DOMAIN more : more[m] < total
      /\ \A m \in DOMAIN rest : rest[m] < total
  <2>1. /\ \A m \in DOMAIN held : held[m] < total
        /\ \A m \in DOMAIN left : left[m] < total
    BY DEF InOrder
  <2> QED
    BY <1>2, <1>3, <2>1
<1> QED
  BY <1>4, <1>5, <1>6, <1>7, <1>8 DEF InOrder

(* A frame is sent at the end of the track.                                *)
LEMMA OrderOfSent ==
  ASSUME NEW sent \in Seq(Frames), NEW piece \in Seq(Samples), NEW left \in Seq(Samples),
         NEW total \in Nat, InOrder(sent, piece, left, total),
         NEW frame \in Frames, frame.samples = piece
  PROVE  InOrder(Append(sent, frame), <<>>, left, total)
<1>1. PICK longer \in Seq(Frames) :
        /\ longer = Append(sent, frame) /\ Len(longer) = Len(sent) + 1
        /\ \A i \in 1 .. Len(sent) : longer[i] = sent[i]
        /\ longer[Len(sent) + 1] = frame
  BY AppendProperties
<1>2. /\ Len(sent) \in Nat /\ DOMAIN sent = 1 .. Len(sent)
      /\ \A i \in DOMAIN longer : i \in DOMAIN sent \/ i = Len(sent) + 1
  BY <1>1
<1>3. \A i \in DOMAIN longer :
        \/ i \in DOMAIN sent /\ longer[i].samples = sent[i].samples
        \/ i = Len(sent) + 1 /\ longer[i].samples = piece
  BY <1>1, <1>2
<1>4. \A i \in DOMAIN longer : Rising(longer[i].samples) /\ Precedes(longer[i].samples, left)
  BY <1>3 DEF InOrder
<1>5. \A i, j \in DOMAIN longer : i < j => Precedes(longer[i].samples, longer[j].samples)
  <2> SUFFICES ASSUME NEW i \in DOMAIN longer, NEW j \in DOMAIN longer, i < j
               PROVE  Precedes(longer[i].samples, longer[j].samples)
    OBVIOUS
  <2>1. i \in DOMAIN sent /\ longer[i].samples = sent[i].samples
    BY <1>1, <1>2, <1>3
  <2> QED
    BY <1>3, <2>1 DEF InOrder
<1>6. \A i \in DOMAIN longer : \A m \in DOMAIN longer[i].samples : longer[i].samples[m] < total
  BY <1>3 DEF InOrder
<1>7. /\ Rising(<<>>) /\ Precedes(<<>>, left)
      /\ \A i \in DOMAIN longer : Precedes(longer[i].samples, <<>>)
      /\ \A m \in DOMAIN <<>> : <<>>[m] < total
  <2>1. \A m \in DOMAIN <<>> : FALSE
    OBVIOUS
  <2> QED
    BY <2>1 DEF Rising, Precedes
<1>8. Rising(left) /\ \A m \in DOMAIN left : left[m] < total
  BY DEF InOrder
<1> QED
  BY <1>1, <1>4, <1>5, <1>6, <1>7, <1>8 DEF InOrder

(* What is fed lies behind everything fed before.                          *)
LEMMA OrderOfFed ==
  ASSUME NEW sent \in Seq(Frames), NEW held \in Seq(Samples),
         NEW total \in Nat, InOrder(sent, held, <<>>, total),
         NEW n \in Nat, NEW fed, fed = [i \in 1 .. n |-> total + i - 1]
  PROVE  InOrder(sent, held, fed, total + n)
<1>1. DOMAIN fed = 1 .. n /\ \A m \in 1 .. n : fed[m] = total + m - 1
  OBVIOUS
<1>2. \A s \in Seq(Samples) : \A m \in DOMAIN s : s[m] \in Nat
  <2>1. Samples \subseteq Nat
    BY AacAssumption DEF Samples
  <2>2. \A s \in Seq(Samples) : \A m \in DOMAIN s : s[m] \in Samples
    OBVIOUS
  <2> QED
    BY <2>1, <2>2, Zenon
<1>3. \A i \in DOMAIN sent : sent[i].samples \in Seq(Samples)
  <2>1. \A i \in DOMAIN sent : sent[i] \in Frames
    OBVIOUS
  <2> QED
    BY <2>1 DEF Frames
<1>4. \A i \in DOMAIN sent : \A m \in DOMAIN sent[i].samples :
        sent[i].samples[m] \in Nat /\ sent[i].samples[m] < total
  <2> SUFFICES ASSUME NEW i \in DOMAIN sent, NEW m \in DOMAIN sent[i].samples
               PROVE  sent[i].samples[m] \in Nat /\ sent[i].samples[m] < total
    OBVIOUS
  <2>1. sent[i].samples[m] < total
    BY DEF InOrder
  <2> QED
    BY <1>2, <1>3, <2>1
<1>5. \A m \in DOMAIN held : held[m] \in Nat /\ held[m] < total
  BY <1>2 DEF InOrder
<1>6. \A i \in DOMAIN sent : Precedes(sent[i].samples, fed)
  BY <1>1, <1>4 DEF Precedes
<1>7. Precedes(held, fed)
  BY <1>1, <1>5 DEF Precedes
<1>8. Rising(fed) /\ \A m \in DOMAIN fed : fed[m] < total + n
  BY <1>1 DEF Rising
<1>9. \A i \in DOMAIN sent : \A m \in DOMAIN sent[i].samples : sent[i].samples[m] < total + n
  BY <1>4
<1>10. \A m \in DOMAIN held : held[m] < total + n
  BY <1>5
<1> QED
  BY <1>6, <1>7, <1>8, <1>9, <1>10 DEF InOrder

(* While nothing is missing: what is staged continues what was sent, what  *)
(* is left continues what is staged.                                       *)
LEMMA CompleteOfStaged ==
  ASSUME NEW sent, NEW held \in Seq(Samples), NEW left \in Seq(Samples),
         NEW pts \in Nat, NEW total \in Nat, Complete(sent, held, left, pts, total),
         NEW k \in 0 .. Len(left), NEW more \in Seq(Samples), NEW rest \in Seq(Samples),
         MovesOn(held, left, more, rest, k)
  PROVE  Complete(sent, more, rest, pts, total)
<1>1. /\ Len(held) \in Nat /\ Len(left) \in Nat /\ k \in Nat /\ k <= Len(left)
      /\ DOMAIN held = 1 .. Len(held) /\ DOMAIN left = 1 .. Len(left)
      /\ DOMAIN more = 1 .. Len(held) + k /\ DOMAIN rest = 1 .. Len(left) - k
      /\ Len(more) = Len(held) + k /\ Len(rest) = Len(left) - k
  BY DEF MovesOn
<1>2. /\ \A m \in DOMAIN held : held[m] = pts + m - 1
      /\ \A m \in DOMAIN left : left[m] = pts + Len(held) + m - 1
      /\ total = pts + Len(held) + Len(left)
  BY DEF Complete
<1>3. \A m \in DOMAIN more : more[m] = pts + m - 1
  <2> SUFFICES ASSUME NEW m \in DOMAIN more
               PROVE  more[m] = pts + m - 1
    OBVIOUS
  <2>1. m \in 1 .. Len(held) \/ m \in Len(held) + 1 .. Len(held) + k
    BY <1>1
  <2>2. CASE m \in 1 .. Len(held)
    BY <1>1, <1>2, <2>2 DEF MovesOn
  <2>3. CASE m \in Len(held) + 1 .. Len(held) + k
    <3>1. m - Len(held) \in 1 .. k /\ more[m] = left[m - Len(held)]
      BY <2>3 DEF MovesOn
    <3> QED
      BY <1>1, <1>2, <2>3, <3>1
  <2> QED
    BY <2>1, <2>2, <2>3
<1>4. \A m \in DOMAIN rest : rest[m] = pts + Len(more) + m - 1
  <2> SUFFICES ASSUME NEW m \in DOMAIN rest
               PROVE  rest[m] = pts + Len(more) + m - 1
    OBVIOUS
  <2>1. rest[m] = left[k + m] /\ k + m \in DOMAIN left
    BY <1>1 DEF MovesOn
  <2>2. left[k + m] = pts + Len(held) + (k + m) - 1
    BY <1>2, <2>1
  <2>3. m \in Nat
    BY <1>1
  <2> QED
    BY <1>1, <2>1, <2>2, <2>3
<1>5. total = pts + Len(more) + Len(rest)
  BY <1>1, <1>2
<1> QED
  BY <1>3, <1>4, <1>5 DEF Complete

LEMMA CompleteOfSent ==
  ASSUME NEW sent \in Seq(Frames), NEW piece \in Seq(Samples), NEW left \in Seq(Samples),
         NEW pts \in Samples, NEW total \in Nat, Complete(sent, piece, left, pts, total),
         piece # <<>>, NEW frame \in Frames, frame.pts = pts, frame.samples = piece
  PROVE  Complete(Append(sent, frame), <<>>, left, pts + Len(piece), total)
<1>1. PICK longer \in Seq(Frames) :
        /\ longer = Append(sent, frame) /\ Len(longer) = Len(sent) + 1
        /\ \A i \in 1 .. Len(sent) : longer[i] = sent[i]
        /\ longer[Len(sent) + 1] = frame
  BY AppendProperties
<1>2. /\ Len(sent) \in Nat /\ DOMAIN sent = 1 .. Len(sent) /\ DOMAIN longer = 1 .. Len(sent) + 1
      /\ \A i \in DOMAIN longer : i \in DOMAIN sent \/ i = Len(sent) + 1
  BY <1>1
<1>3. pts \in Nat /\ Len(piece) \in Nat /\ Len(piece) > 0 /\ DOMAIN piece = 1 .. Len(piece)
  BY AacAssumption DEF Samples
<1>4. \A m \in 1 .. Len(piece) : piece[m] = pts + m - 1
  BY <1>3 DEF Complete
<1>5. PICK next \in Nat : next = pts + Len(piece)
  BY <1>3
<1>6. \A k \in 0 .. next - 1 :
        \E i \in DOMAIN longer : \E m \in DOMAIN longer[i].samples : longer[i].samples[m] = k
  <2> SUFFICES ASSUME NEW k \in 0 .. next - 1
               PROVE  \E i \in DOMAIN longer : \E m \in DOMAIN longer[i].samples :
                        longer[i].samples[m] = k
    OBVIOUS
  <2>1. CASE k < pts
    <3>1. k \in 0 .. pts - 1
      BY <1>3, <2>1
    <3>2. PICK i \in DOMAIN sent : \E m \in DOMAIN sent[i].samples : sent[i].samples[m] = k
      BY <3>1 DEF Complete
    <3>3. i \in DOMAIN longer /\ longer[i] = sent[i]
      BY <1>1, <1>2
    <3> QED
      BY <3>2, <3>3
  <2>2. CASE k >= pts
    <3>1. k - pts + 1 \in 1 .. Len(piece)
      BY <1>3, <1>5, <2>2
    <3>2. piece[k - pts + 1] = k
      BY <1>3, <1>4, <3>1
    <3>3. Len(sent) + 1 \in DOMAIN longer /\ longer[Len(sent) + 1].samples = piece
      BY <1>1, <1>2
    <3> QED
      BY <1>3, <3>1, <3>2, <3>3
  <2> QED
    BY <1>3, <1>5, <2>1, <2>2
<1>7. \A i \in DOMAIN longer : longer[i].samples # <<>> /\ longer[i].pts = longer[i].samples[1]
  <2> SUFFICES ASSUME NEW i \in DOMAIN longer
               PROVE  longer[i].samples # <<>> /\ longer[i].pts = longer[i].samples[1]
    OBVIOUS
  <2>1. CASE i \in DOMAIN sent
    BY <1>1, <1>2, <2>1 DEF Complete
  <2>2. CASE i = Len(sent) + 1
    <3>1. piece[1] = pts
      BY <1>3, <1>4
    <3> QED
      BY <1>1, <2>2, <3>1
  <2> QED
    BY <1>2, <2>1, <2>2
<1>8. Len(<<>>) = 0 /\ \A m \in DOMAIN <<>> : FALSE
  OBVIOUS
<1>9. /\ total = next + Len(<<>>) + Len(left)
      /\ \A m \in DOMAIN left : left[m] = next + Len(<<>>) + m - 1
  BY <1>3, <1>8, <1>5 DEF Complete
<1>10. \A m \in DOMAIN <<>> : <<>>[m] = next + m - 1
  BY <1>8
<1>11. Complete(longer, <<>>, left, next, total)
  BY <1>6, <1>7, <1>9, <1>10, Zenon DEF Complete
<1> QED
  BY <1>1, <1>5, <1>11

LEMMA CompleteOfFed ==
  ASSUME NEW sent, NEW held \in Seq(Samples), NEW pts \in Nat, NEW total \in Nat,
         Complete(sent, held, <<>>, pts, total),
         NEW n \in Nat, NEW fed, fed = [i \in 1 .. n |-> total + i - 1]
  PROVE  Complete(sent, held, fed, pts, total + n)
<1>1. /\ DOMAIN fed = 1 .. n /\ Len(fed) = n /\ Len(held) \in Nat
      /\ \A m \in 1 .. n : fed[m] = total + m - 1
  OBVIOUS
<1>2. total = pts + Len(held)
  <2>1. Len(<<>>) = 0
    OBVIOUS
  <2> QED
    BY <1>1, <2>1 DEF Complete
<1>3. total + n = pts + Len(held) + Len(fed)
  BY <1>1, <1>2
<1>4. \A m \in DOMAIN fed : fed[m] = pts + Len(held) + m - 1
  BY <1>1, <1>2
<1> QED
  BY <1>3, <1>4 DEF Complete

-----------------------------------------------------------------------------
(* The packets with the sink and the frames with the codec are one track.  *)
LEMMA JoinedFrames ==
  ASSUME NEW s \in Seq(Frames), NEW t \in Seq(Frames)
  PROVE  /\ s \o t \in Seq(Frames)
         /\ \A f \in Frames : s \o Append(t, f) = Append(s \o t, f)
         /\ t # <<>> => Append(s, Head(t)) \o Tail(t) = s \o t
<1>1. s \o t \in Seq(Frames)
  OBVIOUS
<1>2. ASSUME NEW f \in Frames
      PROVE  s \o Append(t, f) = Append(s \o t, f)
  BY <1>2
<1>3. ASSUME t # <<>>
      PROVE  Append(s, Head(t)) \o Tail(t) = s \o t
  BY <1>3
<1> QED
  BY <1>1, <1>2, <1>3

Thinned(all, left) ==
  \E at \in [DOMAIN left -> DOMAIN all] :
    /\ \A i \in DOMAIN left : left[i] = all[at[i]]
    /\ \A i, j \in DOMAIN left : i < j => at[i] < at[j]

LEMMA JoinedFewer ==
  ASSUME NEW s \in Seq(Frames), NEW t \in Seq(Frames), t # <<>>,
         NEW all, all = s \o t, NEW left, left = s \o Tail(t)
  PROVE  /\ left \in Seq(Frames)
         /\ Thinned(all, left)
<1>1. PICK tail \in Seq(Frames) :
        tail = Tail(t) /\ Len(tail) = Len(t) - 1 /\ \A i \in 1 .. Len(tail) : tail[i] = t[i + 1]
  <2>1. Tail(t) \in Seq(Frames) /\ Len(Tail(t)) = Len(t) - 1
    BY HeadTailProperties
  <2>2. \A i \in 1 .. Len(Tail(t)) : Tail(t)[i] = t[i + 1]
    BY <2>1
  <2> QED
    BY <2>1, <2>2
<1>2. PICK fewer \in Seq(Frames) :
        /\ fewer = s \o tail /\ Len(fewer) = Len(s) + Len(tail)
        /\ \A i \in 1 .. Len(s) + Len(tail) :
             fewer[i] = IF i <= Len(s) THEN s[i] ELSE tail[i - Len(s)]
  <2>1. /\ s \o tail \in Seq(Frames) /\ Len(s \o tail) = Len(s) + Len(tail)
        /\ \A i \in 1 .. Len(s) + Len(tail) :
             (s \o tail)[i] = IF i <= Len(s) THEN s[i] ELSE tail[i - Len(s)]
    BY ConcatProperties
  <2> QED
    BY <2>1
<1>3. PICK sent \in Seq(Frames) :
        /\ sent = s \o t /\ Len(sent) = Len(s) + Len(t)
        /\ \A i \in 1 .. Len(s) + Len(t) :
             sent[i] = IF i <= Len(s) THEN s[i] ELSE t[i - Len(s)]
  <2>1. /\ s \o t \in Seq(Frames) /\ Len(s \o t) = Len(s) + Len(t)
        /\ \A i \in 1 .. Len(s) + Len(t) :
             (s \o t)[i] = IF i <= Len(s) THEN s[i] ELSE t[i - Len(s)]
    BY ConcatProperties
  <2> QED
    BY <2>1
<1>4. /\ Len(s) \in Nat /\ Len(t) \in Nat /\ Len(t) > 0
      /\ DOMAIN fewer = 1 .. Len(s) + Len(t) - 1 /\ DOMAIN sent = 1 .. Len(s) + Len(t)
  BY <1>1, <1>2, <1>3
<1> DEFINE at == [i \in DOMAIN fewer |-> IF i <= Len(s) THEN i ELSE i + 1]
<1>5. at \in [DOMAIN fewer -> DOMAIN sent]
  BY <1>4
<1>6. \A i \in DOMAIN fewer : fewer[i] = sent[at[i]]
  <2> SUFFICES ASSUME NEW i \in DOMAIN fewer
               PROVE  fewer[i] = sent[at[i]]
    OBVIOUS
  <2>1. CASE i <= Len(s)
    BY <1>1, <1>2, <1>3, <1>4, <2>1
  <2>2. CASE i > Len(s)
    <3>1. i - Len(s) \in 1 .. Len(tail)
      BY <1>1, <1>4, <2>2
    <3>2. fewer[i] = t[i - Len(s) + 1]
      BY <1>1, <1>2, <1>4, <2>2, <3>1
    <3>3. at[i] = i + 1 /\ i + 1 \in 1 .. Len(s) + Len(t) /\ ~(i + 1 <= Len(s))
      BY <1>4, <2>2
    <3>4. sent[i + 1] = t[i + 1 - Len(s)]
      BY <1>3, <3>3
    <3>5. i + 1 - Len(s) = i - Len(s) + 1
      BY <1>4
    <3> QED
      BY <3>2, <3>3, <3>4, <3>5
  <2> QED
    BY <1>4, <2>1, <2>2
<1>7. \A i, j \in DOMAIN fewer : i < j => at[i] < at[j]
  BY <1>4
<1> HIDE DEF at
<1> QED
  BY <1>1, <1>2, <1>3, <1>5, <1>6, <1>7 DEF Thinned

LEMMA SentTyped ==
  ASSUME AacTypeOK
  PROVE  /\ Sent \in Seq(Frames) /\ staging \in Seq(Samples) /\ given \in Seq(Samples)
         /\ canonical \in Nat /\ nextPts \in Nat /\ coding \in Seq(Frames) /\ coded \in Seq(Frames)
         /\ codecTally \in Nat /\ consumed \in Nat /\ stalls \in Nat
BY AacAssumption DEF AacTypeOK, Sent

(* The codec gives its first frame to the sink, or loses it.               *)
LEMMA CollectedStaysSent ==
  ASSUME AacTypeOK, Collectable
  PROVE  Append(coded, Head(coding)) \o Tail(coding) = Sent
<1>1. coding # <<>>
  BY SentTyped DEF Collectable
<1> QED
  BY <1>1, SentTyped, JoinedFrames DEF Sent

LEMMA DrainKeepsOrder ==
  ASSUME AacTypeOK, InOrder(Sent, staging, given, canonical), DrainReturns, UNCHANGED coded
  PROVE  /\ InOrder(Sent', staging, given, canonical)
         /\ InOrder(Sent', staging, <<>>, canonical)
<1>1. InOrder(Sent', staging, given, canonical) /\ Sent' \in Seq(Frames)
  <2>1. CASE ~Collectable /\ UNCHANGED <<coding, codecTally>>
    BY <2>1, SentTyped DEF Sent
  <2>2. CASE Collectable /\ CodecFails /\ coding' = Tail(coding)
    <3>1. coding # <<>>
      BY <2>2, SentTyped DEF Collectable
    <3>2. Sent' = coded \o Tail(coding)
      BY <2>2 DEF Sent
    <3>3. PICK fewer \in Seq(Frames) : fewer = Sent'
      BY <3>1, <3>2, SentTyped, JoinedFewer
    <3>4. PICK all : all = coded \o coding
      OBVIOUS
    <3>5. Thinned(all, fewer)
      <4>1. fewer = coded \o Tail(coding) /\ coded \in Seq(Frames) /\ coding \in Seq(Frames)
        BY <3>2, <3>3, SentTyped
      <4> QED
        BY <3>1, <3>4, <4>1, JoinedFewer
    <3>6. PICK at \in [DOMAIN fewer -> DOMAIN Sent] :
            /\ \A i \in DOMAIN fewer : fewer[i] = Sent[at[i]]
            /\ \A i, j \in DOMAIN fewer : i < j => at[i] < at[j]
      BY <3>4, <3>5 DEF Thinned, Sent
    <3>7. InOrder(fewer, staging, given, canonical)
      BY <3>6, SentTyped, OrderOfFewer
    <3> QED
      BY <3>3, <3>7
  <2> QED
    BY <2>1, <2>2 DEF DrainReturns
<1>2. InOrder(Sent', staging, <<>>, canonical)
  BY <1>1, SentTyped, OrderOfNothingLeft
<1> QED
  BY <1>1, <1>2

LEMMA StagingMovesOn ==
  ASSUME AacTypeOK
  PROVE  MovesOn(staging, given, Staged, Rest, Take) /\ Take \in 0 .. Len(given)
BY StagingMoves, SentTyped DEF MovesOn

(* Whatever the codec does, the samples stay in order.                     *)
LEMMA AacOrderStep ==
  ASSUME AacTypeOK, AacTypeOK', AacCounts, InOrder(Sent, staging, given, canonical),
         [AacNext]_aacVars
  PROVE  InOrder(Sent', staging', given', canonical')
<1>1. /\ InOrder(Sent, Staged, Rest, canonical) /\ InOrder(Sent, Staged, <<>>, canonical)
      /\ Staged \in Seq(Samples) /\ Rest \in Seq(Samples)
  <2>1. Staged \in Seq(Samples) /\ Rest \in Seq(Samples)
    BY StagingMoves
  <2>2. InOrder(Sent, Staged, Rest, canonical)
    BY <2>1, SentTyped, StagingMovesOn, OrderOfStaged
  <2> QED
    BY <2>1, <2>2, SentTyped, OrderOfNothingLeft
<1>2. ASSUME NEW n \in 1 .. MaxChunk, Feed(n), given = <<>>, UNCHANGED <<stageVars, codecVars>>
      PROVE  InOrder(Sent', staging', given', canonical')
  <2>1. n \in Nat
    BY AacAssumption
  <2>2. PICK fed : fed = [i \in 1 .. n |-> canonical + i - 1]
    OBVIOUS
  <2>3. InOrder(Sent, staging, <<>>, canonical)
    BY <1>2
  <2>4. InOrder(Sent, staging, fed, canonical + n)
    BY <2>1, <2>2, <2>3, SentTyped, OrderOfFed
  <2>5. Sent' = Sent /\ staging' = staging /\ given' = fed /\ canonical' = canonical + n
    BY <1>2, <2>2 DEF Feed, Sent, stageVars, codecVars
  <2> QED
    BY <2>4, <2>5
<1>3. ASSUME NEW piece \in Seq(Samples), NEW left \in Seq(Samples),
             InOrder(Sent, piece, left, canonical), nextPts \in Samples,
             coding' = Append(coding, [pts |-> nextPts, samples |-> piece]), coded' = coded,
             staging' = <<>>, given' = left, canonical' = canonical
      PROVE  InOrder(Sent', staging', given', canonical')
  <2>1. PICK frame \in Frames : frame = [pts |-> nextPts, samples |-> piece] /\ frame.samples = piece
    BY <1>3 DEF Frames
  <2>2. Sent' = Append(Sent, frame)
    BY <1>3, <2>1, SentTyped, JoinedFrames DEF Sent
  <2>3. InOrder(Append(Sent, frame), <<>>, left, canonical)
    BY <1>3, <2>1, SentTyped, OrderOfSent
  <2> QED
    BY <1>3, <2>2, <2>3
<1>4. ASSUME UNCHANGED <<coded, coding, staging, given, canonical>>
      PROVE  InOrder(Sent', staging', given', canonical')
  BY <1>4 DEF Sent
<1>5. ASSUME UNCHANGED <<coded, coding, canonical>>, staging' = Staged, given' \in {Rest, <<>>}
      PROVE  InOrder(Sent', staging', given', canonical')
  <2>1. Sent' = Sent
    BY <1>5 DEF Sent
  <2> QED
    BY <1>1, <1>5, <2>1
<1>6. ASSUME DrainReturns, UNCHANGED <<coded, staging, canonical>>, given' \in {given, <<>>}
      PROVE  InOrder(Sent', staging', given', canonical')
  BY <1>6, DrainKeepsOrder
<1>7. CASE EmitAudio
  BY <1>2, <1>7 DEF EmitAudio, AacCounts
<1>8. CASE StagesPart
  BY <1>5, <1>8 DEF StagesPart, codecVars
<1>9. CASE SendsFrame
  <2>1. nextPts \in Samples
    <3>1. /\ Len(Staged) = FrameSize /\ FrameSize \in Nat \ {0} /\ MaxFed \in Nat /\ MaxChunk \in Nat
      <4>1. FrameSize \in Nat \ {0} /\ MaxFed \in Nat /\ MaxChunk \in Nat
        BY AacAssumption
      <4>2. Take = FrameSize - Len(staging) /\ Len(Staged) = Len(staging) + Take
        BY <1>9, StagingMoves DEF SendsFrame, Room
      <4>3. Len(staging) \in Nat
        BY SentTyped
      <4> QED
        BY <4>1, <4>2, <4>3
    <3>2. nextPts + FrameSize \in 0 .. MaxFed + MaxChunk
      BY <1>9 DEF SendsFrame, AacTypeOK
    <3> QED
      BY <3>1, <3>2, SentTyped DEF Samples
  <2> QED
    BY <1>1, <1>3, <1>9, <2>1 DEF SendsFrame
<1>10. CASE FrameRefused
  BY <1>5, <1>10 DEF FrameRefused, RestOnRefusal, codecVars
<1>11. CASE FrameFails
  BY <1>5, <1>11 DEF FrameFails, codecVars
<1>12. CASE CollectsPacket
  <2>1. Sent' = Sent
    BY <1>12, CollectedStaysSent DEF CollectsPacket, Sent
  <2> QED
    BY <1>12, <2>1 DEF CollectsPacket, feedVars, stageVars
<1>13. CASE SubmitsOn
  BY <1>6, <1>13 DEF SubmitsOn, stageVars
<1>14. CASE FeedEnds
  BY <1>6, <1>14 DEF FeedEnds, stageVars
<1>15. CASE Finishes
  <2>1. CASE \E n \in 1 .. MaxChunk : Feed(n)
    BY <1>2, <1>15, <2>1 DEF Finishes, AacCounts
  <2>2. CASE UNCHANGED <<canonical, given, consumed>>
    BY <1>4, <1>15, <2>2 DEF Finishes, stageVars, codecVars
  <2> QED
    BY <1>15, <2>1, <2>2 DEF Finishes
<1>16. CASE FlushesPartial
  <2>1. CASE staging = <<>>
    BY <1>4, <1>16, <2>1 DEF FlushesPartial, feedVars
  <2>2. CASE staging # <<>>
    <3>1. /\ coding' = Append(coding, [pts |-> nextPts, samples |-> staging])
          /\ nextPts' = nextPts + Len(staging) /\ coded' = coded /\ staging' = <<>>
          /\ given' = given /\ canonical' = canonical
      BY <1>16, <2>2 DEF FlushesPartial, feedVars
    <3>2. Len(staging) \in Nat /\ Len(staging) > 0
      BY <2>2, SentTyped
    <3>3. nextPts + Len(staging) \in 0 .. MaxFed + MaxChunk /\ MaxFed \in Nat /\ MaxChunk \in Nat
      BY <3>1, AacAssumption DEF AacTypeOK
    <3>4. nextPts \in Samples
      BY <3>2, <3>3, SentTyped DEF Samples
    <3> QED
      BY <1>3, <3>1, <3>4, SentTyped
  <2> QED
    BY <2>1, <2>2
<1>17. CASE MarksEnd
  BY <1>4, <1>17 DEF MarksEnd, feedVars, stageVars
<1>18. CASE FlushRefused
  BY <1>4, <1>18 DEF FlushRefused, feedVars, stageVars, codecVars
<1>19. CASE FlushesAgain
  BY <1>6, <1>19 DEF FlushesAgain, stageVars
<1>20. CASE FlushFails
  BY <1>4, <1>20 DEF FlushFails, feedVars, stageVars, codecVars
<1>21. CASE PathFinished
  BY <1>6, <1>21 DEF PathFinished, feedVars, stageVars
<1>22. CASE UNCHANGED aacVars
  BY <1>4, <1>22 DEF aacVars, feedVars, stageVars, codecVars
<1> QED
  BY <1>7, <1>8, <1>9, <1>10, <1>11, <1>12, <1>13, <1>14, <1>15, <1>16, <1>17, <1>18, <1>19,
     <1>20, <1>21, <1>22 DEF AacNext

(* While the codec does not fail nothing is lost: it is never refused      *)
(* without having something to give, so a call that consumed nothing makes *)
(* room, and the second attempt to mark the end succeeds.                  *)
LEMMA DrainedWithoutFault ==
  ASSUME AacTypeOK, DrainReturns, codecTally' = 0
  PROVE  /\ UNCHANGED <<coding, codecTally>>
         /\ ~ended => Len(coding) <= 1
         /\ ended => coding = <<>>
<1>1. ~(Collectable /\ CodecFails)
  BY SentTyped DEF CodecFails
<1>2. UNCHANGED <<coding, codecTally>> /\ ~Collectable
  BY <1>1 DEF DrainReturns
<1>3. Len(coding) \in Nat
  BY SentTyped
<1> QED
  BY <1>2, <1>3 DEF Collectable

LEMMA AacCompleteStep ==
  ASSUME MaxStalls > 1, AacTypeOK, AacTypeOK', AacCounts, [AacNext]_aacVars,
         codecTally = 0 => Complete(Sent, staging, given, nextPts, canonical) /\ AacFlow,
         codecTally' = 0
  PROVE  Complete(Sent', staging', given', nextPts', canonical') /\ AacFlow'
<1> DEFINE Done == Complete(Sent', staging', given', nextPts', canonical')
<1>1. codecTally = 0 /\ ~CodecFails
  <2>1. codecTally' \in {codecTally, codecTally + 1}
    BY DEF AacNext, EmitAudio, StagesPart, SendsFrame, FrameRefused, FrameFails, CodecFails,
           CollectsPacket, SubmitsOn, FeedEnds, DrainReturns, Finishes, FlushesPartial, MarksEnd,
           FlushRefused, FlushesAgain, FlushFails, PathFinished, aacVars
  <2> QED
    BY <2>1, SentTyped DEF CodecFails
<1>2. Complete(Sent, staging, given, nextPts, canonical) /\ AacFlow
  BY <1>1
<1>3. /\ Len(coding) \in Nat /\ Len(given) \in Nat /\ Len(staging) \in Nat /\ consumed \in Nat
      /\ FrameSize \in Nat \ {0} /\ MaxStalls \in Nat \ {0} /\ stalls \in Nat
  BY SentTyped, AacAssumption
<1>4. /\ Complete(Sent, Staged, Rest, nextPts, canonical)
      /\ Staged \in Seq(Samples) /\ Rest \in Seq(Samples)
  <2>1. Staged \in Seq(Samples) /\ Rest \in Seq(Samples)
    BY StagingMoves
  <2> QED
    BY <1>2, <2>1, SentTyped, StagingMovesOn, CompleteOfStaged
<1>5. ASSUME NEW n \in 1 .. MaxChunk, Feed(n), given = <<>>, UNCHANGED <<stageVars, codecVars>>
      PROVE  Done
  <2>1. n \in Nat
    BY AacAssumption
  <2>2. PICK fed : fed = [i \in 1 .. n |-> canonical + i - 1]
    OBVIOUS
  <2>3. Complete(Sent, staging, <<>>, nextPts, canonical)
    BY <1>2, <1>5
  <2>4. Complete(Sent, staging, fed, nextPts, canonical + n)
    BY <2>1, <2>2, <2>3, SentTyped, CompleteOfFed
  <2>5. Sent' = Sent /\ staging' = staging /\ given' = fed /\ canonical' = canonical + n
        /\ nextPts' = nextPts
    BY <1>5, <2>2 DEF Feed, Sent, stageVars, codecVars
  <2> QED
    BY <2>4, <2>5
<1>6. ASSUME NEW piece \in Seq(Samples), NEW left \in Seq(Samples),
             Complete(Sent, piece, left, nextPts, canonical), piece # <<>>,
             coding' = Append(coding, [pts |-> nextPts, samples |-> piece]), coded' = coded,
             staging' = <<>>, given' = left, canonical' = canonical,
             nextPts' = nextPts + Len(piece)
      PROVE  Done
  <2>1. nextPts \in Samples
    <3>1. Len(piece) \in Nat /\ Len(piece) > 0
      BY <1>6
    <3>2. nextPts + Len(piece) \in 0 .. MaxFed + MaxChunk /\ MaxFed \in Nat /\ MaxChunk \in Nat
      BY <1>6, AacAssumption DEF AacTypeOK
    <3> QED
      BY <3>1, <3>2, SentTyped DEF Samples
  <2>2. PICK frame \in Frames :
          /\ frame = [pts |-> nextPts, samples |-> piece]
          /\ frame.samples = piece /\ frame.pts = nextPts
    BY <1>6, <2>1 DEF Frames
  <2>3. Sent' = Append(Sent, frame)
    BY <1>6, <2>2, SentTyped, JoinedFrames DEF Sent
  <2>4. Complete(Append(Sent, frame), <<>>, left, nextPts + Len(piece), canonical)
    BY <1>6, <2>1, <2>2, SentTyped, CompleteOfSent
  <2> QED
    BY <1>6, <2>3, <2>4
<1>7. ASSUME UNCHANGED <<coded, coding, staging, given, canonical, nextPts>>
      PROVE  Done
  BY <1>2, <1>7 DEF Sent
<1>8. ASSUME UNCHANGED <<coded, coding, canonical, nextPts>>, staging' = Staged, given' = Rest
      PROVE  Done
  <2>1. Sent' = Sent
    BY <1>8 DEF Sent
  <2> QED
    BY <1>4, <1>8, <2>1
<1>9. ASSUME DrainReturns, UNCHANGED <<coded, staging, canonical, nextPts, given>>
      PROVE  Done
  BY <1>7, <1>9, DrainedWithoutFault
<1> HIDE DEF Done
<1>10. CASE EmitAudio
  <2>1. PICK n \in 1 .. MaxChunk : Feed(n)
    BY <1>10 DEF EmitAudio
  <2>2. given = <<>>
    BY <1>10 DEF EmitAudio, AacCounts
  <2>3. Done
    BY <1>5, <1>10, <2>1, <2>2 DEF EmitAudio
  <2>4. AacFlow'
    BY <1>2, <1>10, <2>1 DEF EmitAudio, Feed, AacFlow, codecVars
  <2> QED
    BY <2>3, <2>4 DEF Done
<1>11. CASE StagesPart
  <2>1. /\ Take = Len(given) /\ Len(Rest) = 0 /\ Take \in Nat
    BY <1>3, <1>11, StagingMoves DEF StagesPart
  <2>2. Rest = <<>>
    BY <1>4, <2>1
  <2>3. Done
    BY <1>8, <1>11, <2>2 DEF StagesPart, codecVars
  <2>4. AacFlow'
    BY <1>2, <1>11 DEF StagesPart, AacFlow, codecVars
  <2> QED
    BY <2>3, <2>4 DEF Done
<1>12. CASE SendsFrame
  <2>1. Len(Staged) = FrameSize
    <3>1. Take = FrameSize - Len(staging) /\ Len(Staged) = Len(staging) + Take
      BY <1>12, StagingMoves DEF SendsFrame, Room
    <3> QED
      BY <1>3, <3>1
  <2>2. Staged # <<>>
    BY <1>3, <2>1
  <2>3. Done
    BY <1>4, <1>6, <1>12, <2>1, <2>2 DEF SendsFrame
  <2>4. AacFlow'
    <3>1. Len(staging') # FrameSize
      BY <1>3, <1>12 DEF SendsFrame
    <3>2. feeding' \in {"drains", "submits"} /\ ended' = ended /\ feeding = "submits"
          /\ (feeding' = "drains" => given' = <<>>)
      BY <1>12 DEF SendsFrame
    <3> QED
      BY <1>2, <3>1, <3>2 DEF AacFlow
  <2> QED
    BY <2>3, <2>4 DEF Done
<1>13. CASE FrameRefused
  <2>1. Done
    BY <1>8, <1>13 DEF FrameRefused, RestOnRefusal, codecVars
  <2>2. ~ended /\ Len(coding) > 1
    BY <1>2, <1>13 DEF FrameRefused, AacFlow, MayRefuse, Collectable
  <2>3. consumed' > 0
    <3>1. Take = FrameSize - Len(staging) /\ Take \in Nat
      BY <1>13, StagingMoves DEF FrameRefused, Room
    <3>2. consumed > 0 \/ Len(staging) # FrameSize
      BY <1>2, <1>3, <1>13, <2>2 DEF FrameRefused, AacFlow
    <3> QED
      BY <1>3, <1>13, <3>1, <3>2 DEF FrameRefused
  <2>4. AacFlow'
    BY <1>2, <1>13, <2>3 DEF FrameRefused, AacFlow, codecVars
  <2> QED
    BY <2>1, <2>4 DEF Done
<1>14. CASE FrameFails
  BY <1>1, <1>14 DEF FrameFails
<1>15. CASE CollectsPacket
  <2>1. Done
    <3>1. Sent' = Sent
      BY <1>15, CollectedStaysSent DEF CollectsPacket, Sent
    <3> QED
      BY <1>2, <1>15, <3>1 DEF CollectsPacket, feedVars, stageVars, Done
  <2>2. feeding' = feeding /\ feeding \in {"drains", "drainsToFlush", "drainsLast"}
    BY <1>15 DEF CollectsPacket, Drains
  <2>3. AacFlow'
    BY <1>2, <1>15, <2>2 DEF CollectsPacket, AacFlow, feedVars, stageVars
  <2> QED
    BY <2>1, <2>3 DEF Done
<1>16. CASE SubmitsOn
  <2>1. Done
    BY <1>9, <1>16 DEF SubmitsOn, stageVars
  <2>2. UNCHANGED coding /\ ~ended /\ Len(coding) <= 1
    BY <1>2, <1>16, DrainedWithoutFault DEF SubmitsOn, AacFlow
  <2>3. AacFlow'
    BY <1>2, <1>16, <2>2 DEF SubmitsOn, AacFlow, stageVars
  <2> QED
    BY <2>1, <2>3 DEF Done
<1>17. CASE FeedEnds
  <2>1. given = <<>>
    BY <1>2, <1>3, <1>17 DEF FeedEnds, AacFlow
  <2>2. Done
    BY <1>9, <1>17, <2>1 DEF FeedEnds, stageVars
  <2>3. UNCHANGED coding /\ ~ended /\ Len(coding) <= 1
    BY <1>2, <1>17, DrainedWithoutFault DEF FeedEnds, AacFlow
  <2>4. feeding' \in {"idle", "flushes"} /\ stalls' = 0 /\ ended' = ended
    BY <1>17 DEF FeedEnds, FeedReturns
  <2>5. AacFlow'
    BY <2>3, <2>4 DEF AacFlow
  <2> QED
    BY <2>2, <2>5 DEF Done
<1>18. CASE Finishes
  <2>1. feeding = "idle" /\ ~ended /\ Len(coding) <= 1 /\ UNCHANGED <<coding, ended>>
    BY <1>2, <1>18 DEF Finishes, AacFlow, codecVars
  <2>2. CASE \E n \in 1 .. MaxChunk : Feed(n)
    <3>1. PICK n \in 1 .. MaxChunk : Feed(n)
      BY <2>2
    <3>2. given = <<>>
      BY <2>1 DEF AacCounts
    <3>3. Done
      BY <1>5, <1>18, <3>1, <3>2 DEF Finishes
    <3>4. AacFlow'
      BY <2>1, <3>1 DEF Feed, AacFlow
    <3> QED
      BY <3>3, <3>4 DEF Done
  <2>3. CASE feeding' = "flushes" /\ stalls' = 0 /\ UNCHANGED <<canonical, given, consumed>>
    <3>1. Done
      BY <1>7, <1>18, <2>3 DEF Finishes, stageVars, codecVars
    <3>2. AacFlow'
      BY <2>1, <2>3 DEF AacFlow
    <3> QED
      BY <3>1, <3>2 DEF Done
  <2> QED
    BY <1>18, <2>2, <2>3 DEF Finishes
<1>19. CASE FlushesPartial
  <2>1. feeding' = "marksEnd" /\ ~ended' /\ staging' = <<>> /\ stalls' = stalls
        /\ (stalls = 0 \/ (stalls = 1 /\ staging = <<>> /\ Len(coding) <= 1))
    BY <1>2, <1>19 DEF FlushesPartial, AacFlow, feedVars
  <2>2. CASE staging = <<>>
    <3>1. UNCHANGED <<coding, nextPts, staging>>
      BY <1>19, <2>2 DEF FlushesPartial
    <3>2. Done
      BY <1>7, <1>19, <3>1 DEF FlushesPartial, feedVars
    <3>3. AacFlow'
      BY <2>1, <3>1 DEF AacFlow
    <3> QED
      BY <3>2, <3>3 DEF Done
  <2>3. CASE staging # <<>>
    <3>1. /\ coding' = Append(coding, [pts |-> nextPts, samples |-> staging])
          /\ nextPts' = nextPts + Len(staging) /\ coded' = coded
          /\ given' = given /\ canonical' = canonical
      BY <1>19, <2>3 DEF FlushesPartial, feedVars
    <3>2. Done
      BY <1>2, <1>6, <2>1, <2>3, <3>1, SentTyped
    <3>3. AacFlow'
      BY <2>1, <2>3 DEF AacFlow
    <3> QED
      BY <3>2, <3>3 DEF Done
  <2> QED
    BY <2>2, <2>3
<1>20. CASE MarksEnd
  <2>1. Done
    BY <1>7, <1>20 DEF MarksEnd, feedVars, stageVars
  <2>2. AacFlow'
    BY <1>2, <1>20 DEF MarksEnd, AacFlow, feedVars, stageVars
  <2> QED
    BY <2>1, <2>2 DEF Done
<1>21. CASE FlushRefused
  <2>1. ~ended /\ Len(coding) > 1
    BY <1>2, <1>21 DEF FlushRefused, AacFlow, MayRefuse, Collectable
  <2>2. feeding = "marksEnd" /\ staging = <<>> /\ stalls = 0
    BY <1>2, <1>3, <1>21, <2>1 DEF FlushRefused, AacFlow
  <2>3. Done
    BY <1>7, <1>21 DEF FlushRefused, feedVars, stageVars, codecVars
  <2>4. AacFlow'
    BY <1>21, <2>1, <2>2 DEF FlushRefused, AacFlow, feedVars, stageVars, codecVars
  <2> QED
    BY <2>3, <2>4 DEF Done
<1>22. CASE FlushesAgain
  <2>1. Done
    BY <1>9, <1>22 DEF FlushesAgain, stageVars
  <2>2. UNCHANGED coding /\ ~ended /\ Len(coding) <= 1 /\ staging = <<>> /\ stalls = 0
    BY <1>2, <1>22, DrainedWithoutFault DEF FlushesAgain, AacFlow
  <2>3. stalls' = 1 /\ feeding' = "flushes" /\ staging' = <<>> /\ ended' = ended
    BY <1>3, <1>22, <2>2 DEF FlushesAgain, stageVars
  <2>4. AacFlow'
    BY <2>2, <2>3 DEF AacFlow
  <2> QED
    BY <2>1, <2>4 DEF Done
<1>23. CASE FlushFails
  BY <1>1, <1>23 DEF FlushFails
<1>24. CASE PathFinished
  <2>1. Done
    BY <1>9, <1>24 DEF PathFinished, feedVars, stageVars
  <2>2. UNCHANGED coding /\ ended /\ coding = <<>> /\ staging = <<>>
    BY <1>2, <1>24, DrainedWithoutFault DEF PathFinished, AacFlow
  <2>3. AacFlow'
    BY <1>24, <2>2 DEF PathFinished, AacFlow, stageVars
  <2> QED
    BY <2>1, <2>3 DEF Done
<1>25. CASE UNCHANGED aacVars
  <2>1. Done
    BY <1>7, <1>25 DEF aacVars, feedVars, stageVars, codecVars
  <2>2. AacFlow'
    BY <1>2, <1>25 DEF AacFlow, aacVars, feedVars, stageVars, codecVars
  <2> QED
    BY <2>1, <2>2 DEF Done
<1> QED
  BY <1>10, <1>11, <1>12, <1>13, <1>14, <1>15, <1>16, <1>17, <1>18, <1>19, <1>20, <1>21, <1>22,
     <1>23, <1>24, <1>25 DEF AacNext

LEMMA PiecesAre ==
  ASSUME AacTypeOK
  PROVE  /\ Len(Sent) \in Nat /\ DOMAIN Sent = 1 .. Len(Sent)
         /\ DOMAIN Pieces = 1 .. Len(Sent) + 2
         /\ \A i \in DOMAIN Sent : Pieces[i] = Sent[i].samples /\ Pieces[i] \in Seq(Samples)
         /\ Pieces[Len(Sent) + 1] = staging /\ Pieces[Len(Sent) + 2] = given
<1>1. PICK n \in Nat : n = Len(Sent) /\ DOMAIN Sent = 1 .. n
  BY SentTyped
<1>2. PICK frames : frames = [i \in DOMAIN Sent |-> Sent[i].samples]
  OBVIOUS
<1>3. \A i \in DOMAIN Sent : Sent[i].samples \in Seq(Samples)
  <2>1. \A i \in DOMAIN Sent : Sent[i] \in Frames
    BY SentTyped
  <2> QED
    BY <2>1 DEF Frames
<1>4. frames \in Seq(Seq(Samples)) /\ Len(frames) = n
  BY <1>1, <1>2, <1>3
<1>5. PICK rest \in Seq(Seq(Samples)) :
        rest = <<staging, given>> /\ Len(rest) = 2 /\ rest[1] = staging /\ rest[2] = given
  <2>1. \A S : \A a, c \in S : <<a, c>> \in Seq(S)
    OBVIOUS
  <2>2. <<staging, given>> \in Seq(Seq(Samples))
    BY <2>1, SentTyped
  <2> QED
    BY <2>2
<1>6. Pieces = frames \o rest
  BY <1>2, <1>5 DEF Pieces
<1>7. /\ Pieces \in Seq(Seq(Samples)) /\ Len(Pieces) = n + 2
      /\ \A i \in 1 .. n + 2 : Pieces[i] = IF i <= n THEN frames[i] ELSE rest[i - n]
  BY <1>4, <1>5, <1>6, ConcatProperties
<1>8. DOMAIN Pieces = 1 .. n + 2
  BY <1>7
<1>9. \A i \in DOMAIN Sent : Pieces[i] = Sent[i].samples
  BY <1>1, <1>2, <1>7
<1>10. Pieces[n + 1] = staging /\ Pieces[n + 2] = given
  <2>1. /\ n + 1 \in 1 .. n + 2 /\ ~(n + 1 <= n) /\ n + 1 - n = 1
        /\ n + 2 \in 1 .. n + 2 /\ ~(n + 2 <= n) /\ n + 2 - n = 2
    OBVIOUS
  <2> QED
    BY <1>5, <1>7, <2>1
<1> QED
  BY <1>1, <1>3, <1>8, <1>9, <1>10

LEMMA AacInvOrder ==
  ASSUME AacTypeOK, InOrder(Sent, staging, given, canonical)
  PROVE  /\ \A i \in DOMAIN Pieces : Rising(Pieces[i])
         /\ \A i, j \in DOMAIN Pieces : i < j => Precedes(Pieces[i], Pieces[j])
<1>1. PICK n \in Nat : n = Len(Sent)
  BY PiecesAre
<1>2. /\ DOMAIN Pieces = 1 .. n + 2 /\ DOMAIN Sent = 1 .. n
      /\ \A i \in 1 .. n : Pieces[i] = Sent[i].samples
      /\ Pieces[n + 1] = staging /\ Pieces[n + 2] = given
  BY <1>1, PiecesAre
<1>3. \A i \in DOMAIN Pieces : i \in 1 .. n \/ i = n + 1 \/ i = n + 2
  BY <1>2
<1>4. \A i \in DOMAIN Pieces : Rising(Pieces[i])
  BY <1>2, <1>3 DEF InOrder
<1>5. ASSUME NEW i \in DOMAIN Pieces, NEW j \in DOMAIN Pieces, i < j
      PROVE  Precedes(Pieces[i], Pieces[j])
  <2>1. CASE i \in 1 .. n /\ j \in 1 .. n
    BY <1>2, <1>5, <2>1 DEF InOrder
  <2>2. CASE i \in 1 .. n /\ j \in {n + 1, n + 2}
    BY <1>2, <2>2 DEF InOrder
  <2>3. CASE i = n + 1 /\ j = n + 2
    BY <1>2, <2>3 DEF InOrder
  <2>4. \/ i \in 1 .. n /\ j \in 1 .. n
        \/ i \in 1 .. n /\ j \in {n + 1, n + 2}
        \/ i = n + 1 /\ j = n + 2
    BY <1>3, <1>5
  <2> QED
    BY <2>1, <2>2, <2>3, <2>4
<1> QED
  BY <1>4, <1>5

LEMMA AacInvComplete ==
  ASSUME AacTypeOK, InOrder(Sent, staging, given, canonical),
         Complete(Sent, staging, given, nextPts, canonical)
  PROVE  SamplesIn(Pieces) = 0 .. canonical - 1
<1>1. PICK n \in Nat : n = Len(Sent)
  BY PiecesAre
<1>2. /\ DOMAIN Pieces = 1 .. n + 2 /\ DOMAIN Sent = 1 .. n
      /\ \A i \in 1 .. n : Pieces[i] = Sent[i].samples /\ Pieces[i] \in Seq(Samples)
      /\ Pieces[n + 1] = staging /\ Pieces[n + 2] = given
  BY <1>1, PiecesAre
<1>3. \A i \in DOMAIN Pieces : i \in 1 .. n \/ i = n + 1 \/ i = n + 2
  BY <1>2
<1>4. \A k : k \in SamplesIn(Pieces) <=> \E i \in DOMAIN Pieces : \E m \in DOMAIN Pieces[i] : Pieces[i][m] = k
  BY DEF SamplesIn, Range
<1>5. ASSUME NEW i \in DOMAIN Pieces, NEW m \in DOMAIN Pieces[i]
      PROVE  Pieces[i][m] \in 0 .. canonical - 1
  <2>1. Pieces[i] \in Seq(Samples)
    BY <1>2, <1>3, SentTyped
  <2>2. Pieces[i][m] \in Samples
    BY <2>1
  <2>3. Pieces[i][m] \in Nat
    BY <2>2, AacAssumption DEF Samples
  <2>4. Pieces[i][m] < canonical
    BY <1>2, <1>3, <1>5 DEF InOrder
  <2> QED
    BY <2>3, <2>4, SentTyped
<1>6. ASSUME NEW k \in 0 .. canonical - 1
      PROVE  \E i \in DOMAIN Pieces : \E m \in DOMAIN Pieces[i] : Pieces[i][m] = k
  <2>1. /\ k \in Nat /\ canonical \in Nat /\ k < canonical /\ nextPts \in Nat
        /\ Len(staging) \in Nat /\ Len(given) \in Nat
        /\ DOMAIN staging = 1 .. Len(staging) /\ DOMAIN given = 1 .. Len(given)
        /\ canonical = nextPts + Len(staging) + Len(given)
    BY <1>6, SentTyped DEF Complete
  <2>2. CASE k < nextPts
    <3>1. k \in 0 .. nextPts - 1
      BY <2>1, <2>2
    <3>2. PICK i \in DOMAIN Sent : \E m \in DOMAIN Sent[i].samples : Sent[i].samples[m] = k
      BY <3>1 DEF Complete
    <3>3. i \in DOMAIN Pieces /\ Pieces[i] = Sent[i].samples
      BY <1>2
    <3> QED
      BY <3>2, <3>3
  <2>3. CASE nextPts <= k /\ k < nextPts + Len(staging)
    <3>1. k - nextPts + 1 \in DOMAIN staging
      BY <2>1, <2>3
    <3>2. staging[k - nextPts + 1] = nextPts + (k - nextPts + 1) - 1
      BY <3>1 DEF Complete
    <3>3. staging[k - nextPts + 1] = k
      BY <2>1, <3>2
    <3>4. n + 1 \in DOMAIN Pieces
      BY <1>2
    <3> QED
      BY <1>2, <3>1, <3>3, <3>4
  <2>4. CASE nextPts + Len(staging) <= k
    <3>1. k - nextPts - Len(staging) + 1 \in DOMAIN given
      BY <2>1, <2>4
    <3>2. given[k - nextPts - Len(staging) + 1]
            = nextPts + Len(staging) + (k - nextPts - Len(staging) + 1) - 1
      BY <3>1 DEF Complete
    <3>3. given[k - nextPts - Len(staging) + 1] = k
      BY <2>1, <3>2
    <3>4. n + 2 \in DOMAIN Pieces
      BY <1>2
    <3> QED
      BY <1>2, <3>1, <3>3, <3>4
  <2> QED
    BY <2>1, <2>2, <2>3, <2>4
<1> QED
  BY <1>4, <1>5, <1>6

LEMMA AacInvCoded ==
  ASSUME AacTypeOK, InOrder(Sent, staging, given, canonical), AacCounts,
         Complete(Sent, staging, given, nextPts, canonical), AacFlow
  PROVE  /\ \A i \in DOMAIN coded : coded[i].pts = Head(coded[i].samples)
         /\ feeding = "over" =>
              SamplesIn([i \in DOMAIN coded |-> coded[i].samples]) = 0 .. canonical - 1
<1>1. \A i \in DOMAIN coded : i \in DOMAIN Sent /\ Sent[i] = coded[i]
  BY SentTyped DEF Sent
<1>2. \A i \in DOMAIN coded : coded[i] \in Frames
  BY SentTyped
<1>3. \A i \in DOMAIN coded : coded[i].pts = Head(coded[i].samples)
  <2> SUFFICES ASSUME NEW i \in DOMAIN coded
               PROVE  coded[i].pts = Head(coded[i].samples)
    OBVIOUS
  <2>1. coded[i].samples \in Seq(Samples) /\ coded[i].samples # <<>>
        /\ coded[i].pts = coded[i].samples[1]
    BY <1>1, <1>2 DEF Complete, Frames
  <2>2. \A s \in Seq(Samples) : s # <<>> => Head(s) = s[1]
    OBVIOUS
  <2> QED
    BY <2>1, <2>2
<1>4. ASSUME feeding = "over"
      PROVE  SamplesIn([i \in DOMAIN coded |-> coded[i].samples]) = 0 .. canonical - 1
  <2>1. coding = <<>> /\ staging = <<>> /\ given = <<>>
    BY <1>4 DEF AacFlow, AacCounts
  <2>2. Sent = coded
    BY <2>1, SentTyped DEF Sent
  <2>3. PICK pieces : pieces = [i \in DOMAIN coded |-> coded[i].samples]
    OBVIOUS
  <2>4. DOMAIN pieces = DOMAIN coded /\ \A i \in DOMAIN coded : pieces[i] = coded[i].samples
    BY <2>3
  <2>5. nextPts = canonical
    <3>1. Len(<<>>) = 0
      OBVIOUS
    <3> QED
      BY <2>1, <3>1, SentTyped DEF Complete
  <2>6. \A k \in 0 .. canonical - 1 : \E i \in DOMAIN pieces : \E m \in DOMAIN pieces[i] : pieces[i][m] = k
    BY <2>2, <2>4, <2>5 DEF Complete
  <2>7. ASSUME NEW i \in DOMAIN pieces, NEW m \in DOMAIN pieces[i]
        PROVE  pieces[i][m] \in 0 .. canonical - 1
    <3>1. pieces[i] \in Seq(Samples)
      BY <1>2, <2>4 DEF Frames
    <3>2. pieces[i][m] \in Samples
      BY <3>1
    <3>3. pieces[i][m] \in Nat
      BY <3>2, AacAssumption DEF Samples
    <3>4. pieces[i][m] < canonical
      BY <2>2, <2>4 DEF InOrder
    <3> QED
      BY <3>3, <3>4, SentTyped
  <2>8. \A k : k \in SamplesIn(pieces) <=> \E i \in DOMAIN pieces : \E m \in DOMAIN pieces[i] : pieces[i][m] = k
    BY DEF SamplesIn, Range
  <2>9. SamplesIn(pieces) = 0 .. canonical - 1
    BY <2>6, <2>7, <2>8
  <2> QED
    BY <2>3, <2>9
<1> QED
  BY <1>3, <1>4

LEMMA AacInitTypes ==
  ASSUME AacInit
  PROVE  AacTypeOK /\ AacCounts
<1>1. /\ FrameSize \in Nat /\ MaxStalls \in Nat \ {0} /\ MaxFed \in Nat /\ MaxChunk \in Nat
      /\ CodecFaults \in Nat
  BY AacAssumption
<1>2. <<>> \in Seq(Samples) /\ <<>> \in Seq(Frames) /\ Len(<<>>) = 0
  OBVIOUS
<1>3. 0 \in 0 .. MaxFed + MaxChunk /\ 0 \in 0 .. MaxStalls /\ 0 \in 0 .. CodecFaults
      /\ 0 <= FrameSize /\ 0 <= MaxFed /\ 0 # MaxStalls
  BY <1>1
<1>4. AacTypeOK
  BY <1>2, <1>3 DEF AacInit, AacTypeOK
<1>5. AacCounts
  BY <1>2, <1>3 DEF AacInit, AacCounts
<1> QED
  BY <1>4, <1>5

(* The types of the audio encoder's track: no count outgrows what the path *)
(* was fed, and a stalled call gives up at kMaxEncoderStalls.              *)
THEOREM AacTypes == AacSpec => []AacTypeOK
<1>1. AacInit => AacTypeOK /\ AacCounts
  BY AacInitTypes
<1>2. AacTypeOK /\ AacCounts /\ [AacNext]_aacVars => (AacTypeOK /\ AacCounts)'
  BY AacTypesStep
<1> QED
  BY <1>1, <1>2, PTL DEF AacSpec

(* AacEncoder::submit and flush, whatever the codec refuses: the samples   *)
(* reach the packets in order and once; while the codec does not fail none *)
(* is missing and each frame lies at its own time stamp; and a path that   *)
(* is finished has coded the last partial frame too.                       *)
THEOREM SamplesAreCodedOnce ==
  ASSUME MaxStalls > 1
  PROVE  AacSpec => []EverySampleIsCodedOnce
<1>1. AacInit => AacInv
  <2>1. /\ <<>> \in Seq(Samples) /\ <<>> \in Seq(Frames) /\ Len(<<>>) = 0
        /\ <<>> \o <<>> = <<>>
        /\ \A m \in DOMAIN <<>> : FALSE
    OBVIOUS
  <2> SUFFICES ASSUME AacInit PROVE AacInv
    OBVIOUS
  <2>2. AacTypeOK /\ AacCounts
    BY AacInitTypes
  <2>3. Sent = <<>> /\ staging = <<>> /\ given = <<>> /\ canonical = 0 /\ nextPts = 0
    BY <2>1 DEF AacInit, Sent
  <2>4. InOrder(<<>>, <<>>, <<>>, 0)
    BY <2>1 DEF InOrder, Rising, Precedes
  <2>5. Complete(<<>>, <<>>, <<>>, 0, 0)
    BY <2>1 DEF Complete
  <2>6. AacFlow
    BY <2>1 DEF AacInit, AacFlow
  <2> QED
    BY <2>2, <2>3, <2>4, <2>5, <2>6 DEF AacInv
<1>2. AacInv /\ [AacNext]_aacVars => AacInv'
  <2> SUFFICES ASSUME AacInv, [AacNext]_aacVars PROVE AacInv'
    OBVIOUS
  <2>1. AacTypeOK' /\ AacCounts'
    BY AacTypesStep DEF AacInv
  <2>2. InOrder(Sent', staging', given', canonical')
    BY <2>1, AacOrderStep DEF AacInv
  <2>3. ASSUME codecTally' = 0
        PROVE  Complete(Sent', staging', given', nextPts', canonical') /\ AacFlow'
    BY <2>1, <2>3, AacCompleteStep DEF AacInv
  <2> QED
    BY <2>1, <2>2, <2>3 DEF AacInv
<1>3. AacInv => EverySampleIsCodedOnce
  BY AacInvOrder, AacInvComplete, AacInvCoded DEF AacInv, EverySampleIsCodedOnce
<1> QED
  BY <1>1, <1>2, <1>3, PTL DEF AacSpec

=============================================================================
