-------------------------- MODULE AudioPath_proofs --------------------------
(***************************************************************************)
(* The system-mix track for every size of packet, period, jitter and queue *)
(* and any number of packets, pauses and changes of endpoint: that what is *)
(* placed on it lies where its stamp puts it.                              *)
(***************************************************************************)
EXTENDS AudioPath, SequenceTheorems, WellFoundedInduction, TLAPS

(* The values the state is made of.                                        *)
Items == [kind : {"buffer", "tick", "migrate"}, qpc : Nat, endpoint : Nat]
TrackStates == [started : BOOLEAN, origin : Nat, base : Nat, head : Nat, input : Nat,
                excised : Nat, behind : Nat]
Pieces == [qpc : Int, at : Int, due : Int, paused : BOOLEAN]
AencStates == [track : TrackStates, written : Seq(Pieces)]

AudioTypes ==
  /\ now \in Nat /\ {video, audio, t0} \subseteq {None} \cup 0 .. now
  /\ clock \in [paused : BOOLEAN, begin : Nat, total : Nat, lastBegin : Nat, lastSpan : Nat]
  /\ clock.lastSpan <= clock.total
  /\ capture \in [at : {"idle", "noted", "pushing", "off"}, endpoint : Nat \ {0}, item : Items \cup {NoItem}]
  /\ capture.at \in {"noted", "pushing"} => capture.item \in Items
  /\ silence \in [at : {"none", "waiting", "pushing", "ended"}, qpc : Nat]
  /\ owner \in [at : {"opening", "idle", "migrate", "seam", "joinCapture", "joinSilence",
                      "joinAenc", "done", "timedOut"}, seam : Nat]
  /\ queue \in Seq(Items) /\ held \in Seq(Items)
  /\ aenc \in {"none", "running", "ended", "failed"}
  /\ track \in TrackStates /\ written \in Seq(Pieces)
  /\ {opened, stopped, queueOpen} \subseteq BOOLEAN
  /\ {packets, lastEnd, pauses} \subseteq Nat /\ lastOffer \in Int

(* Pauses follow one another, after the epoch.                             *)
AnyPauses ==
  /\ LastResumed <= now
  /\ clock.paused => LastResumed <= clock.begin /\ clock.begin <= now
  /\ pauses = 0 => ~clock.paused /\ clock.total = 0 /\ clock.lastBegin = 0 /\ clock.lastSpan = 0
  /\ pauses # 0 => t0 # None
Outside(qpc) == qpc = 0 \/ ((clock.paused => qpc < clock.begin) /\ ~DuringAPause(qpc))

(* The moment up to which an item speaks.                                  *)
Reach(item) == item.qpc + (IF item.kind = "buffer" THEN Duration ELSE 0)

(* Where a timeline begins, and what the recording has got to there.  What *)
(* lies behind its beginning is not looked up as though before it.         *)
From(tl) == IF tl.started THEN tl.origin ELSE t0
Zero(tl) == IF tl.started THEN tl.origin - t0 - tl.excised ELSE 0
Sound(tl, qpc) == t0 # None /\ From(tl) <= qpc => Zero(tl) <= TimelineTime(qpc)

(* A timeline begins where the one before it was filled to.                *)
Lead == Period - 1 + Duration
Reached(tl, qpc) ==
  /\ tl.started /\ tl.origin <= qpc /\ Zero(tl) <= TimelineTime(qpc)
  /\ tl.head <= TimelineTime(qpc) - Zero(tl) + Lead
BeginsInStep(tl) ==
  /\ tl.started /\ t0 <= tl.origin /\ tl.origin <= now
  /\ tl.input = 1 => tl.origin = t0 /\ tl.base = 0 /\ tl.excised = 0 /\ tl.behind = 0
  /\ tl.base >= tl.origin - t0 - tl.behind
  /\ tl.base <= Zero(tl) + (tl.input - 1) * Lead
InStep(tl, pieces) ==
  \A i \in 1 .. Len(pieces) :
    pieces[i].qpc >= t0 /\ ~pieces[i].paused =>
      pieces[i].at \in pieces[i].due - (Period - 1) - tl.behind
                         .. pieces[i].due + (Period - 1) + (tl.input - 1) * Lead

(* Each item in the queue lies in the past, and after all pauses but the   *)
(* last; a packet behind a change of endpoint belongs to the new one; and  *)
(* a change starts at a moment outside the pauses that the track has not   *)
(* passed.                                                                 *)
ItemFits(item) ==
  /\ Reach(item) <= now
  /\ item.kind # "tick" => Sound(track, item.qpc)
  /\ item.kind = "buffer" /\ track.input > 1 => track.origin <= item.qpc
  /\ item.kind = "migrate" =>
       /\ item.qpc <= owner.seam /\ Outside(item.qpc)
       /\ t0 # None /\ t0 <= item.qpc
       /\ track.input < item.endpoint /\ item.endpoint <= capture.endpoint
       /\ owner.at = "seam" => item.endpoint < capture.endpoint
       /\ track.started => Reached(track, item.qpc)

(* A change of endpoint comes after all that was captured before it.       *)
Follows(item, later) ==
  /\ later.kind = "migrate" => /\ Reach(item) <= later.qpc
                               /\ item.kind = "migrate" => item.endpoint < later.endpoint
  /\ item.kind = "migrate" /\ later.kind = "buffer" => item.qpc <= later.qpc

QueueInOrder ==
  /\ \A i \in 1 .. Len(queue) : ItemFits(queue[i])
  /\ \A i, j \in 1 .. Len(queue) : i < j => Follows(queue[i], queue[j])

HeldInOrder ==
  \A i \in 1 .. Len(held) :
    /\ held[i].kind # "migrate" /\ Reach(held[i]) <= now
    /\ held[i].kind = "buffer" => Sound(track, held[i].qpc)
    /\ \A j \in 1 .. Len(queue) : Follows(held[i], queue[j])

(* A change of endpoint, from its seam on.                                 *)
SeamsInOrder ==
  /\ owner.seam <= now /\ Outside(owner.seam)
  /\ owner.seam = 0 \/ owner.seam + Jitter <= lastEnd
  /\ owner.at \in {"migrate", "seam"} => t0 # None
  /\ owner.at = "migrate" => ~clock.paused
  /\ owner.at = "seam" => owner.seam = now /\ capture.at = "idle" /\ track.input < capture.endpoint
  /\ 1 <= track.input /\ track.input <= capture.endpoint
  /\ track.input > 1 => track.origin <= owner.seam

(* What may still be captured.                                             *)
Recent == {qpc \in Nat : qpc <= now /\ qpc + Duration + Jitter >= now}
OnTheWay ==
  /\ capture.at \in {"noted", "pushing"} =>
       /\ capture.item.kind = "buffer" /\ Reach(capture.item) <= now
       /\ owner.seam <= capture.item.qpc /\ Sound(track, capture.item.qpc)
  /\ silence.qpc <= now
  /\ \A qpc \in Recent : Sound(track, qpc)

TrackInStep ==
  /\ track.started => t0 # None /\ BeginsInStep(track) /\ held = <<>> /\ Reached(track, now)
  /\ ~track.started => /\ track.base = 0 /\ track.head = 0 /\ track.input = 1
                       /\ track.excised = 0 /\ track.behind = 0 /\ written = <<>>
  /\ InStep(track, written)

AudioInv ==
  AudioTypes /\ AnyPauses /\ QueueInOrder /\ HeldInOrder /\ SeamsInOrder /\ OnTheWay /\ TrackInStep

-----------------------------------------------------------------------------
(* Items placed one after the other: the function Replayed builds exists,  *)
(* step by step, and what every step keeps holds of its end.               *)

LEMMA LeastOfNaturals ==
  ASSUME NEW S \in SUBSET Nat, S # {}
  PROVE  \E p \in S : \A q \in S : p <= q
<1> DEFINE R == {ss \in Nat \X Nat : ss[1] < ss[2]}
<1>1. IsWellFoundedOn(R, Nat)
  BY NatLessThanWellFounded DEF OpToRel
<1>2. \E x \in S : \A y \in S : ~(<<y, x>> \in R)
  <2> HIDE DEF R
  <2> QED
    BY <1>1, WFMin
<1>3. \A x, y \in Nat : y < x => <<y, x>> \in R
  OBVIOUS
<1> HIDE DEF R
<1>4. PICK x \in S : \A y \in S : ~(<<y, x>> \in R)
  BY <1>2
<1>5. ASSUME NEW y \in S
      PROVE  x <= y
  <2>1. x \in Nat /\ y \in Nat /\ ~(y < x)
    BY <1>3, <1>4
  <2> QED
    BY <2>1
<1> QED
  BY <1>5

(* A set that holds 0 and the successor of what it holds, as far as n.     *)
LEMMA UpTo ==
  ASSUME NEW n \in Nat, NEW S, 0 \in S, \A m \in 0 .. n - 1 : m \in S => m + 1 \in S
  PROVE  \A m \in 0 .. n : m \in S
<1> DEFINE Missed == {m \in Nat : m <= n /\ m \notin S}
<1> SUFFICES Missed = {}
  OBVIOUS
<1> SUFFICES ASSUME Missed # {}
             PROVE  FALSE
  OBVIOUS
<1>1. PICK p \in Missed : \A q \in Missed : p <= q
  BY LeastOfNaturals
<1>2. p \in Nat /\ p <= n /\ p \notin S /\ p # 0
  OBVIOUS
<1>3. p - 1 \in 0 .. n - 1 /\ p - 1 \in Nat /\ p - 1 <= n /\ ~(p <= p - 1) /\ p - 1 + 1 = p
  BY <1>2
<1>4. p - 1 \notin Missed
  BY <1>1, <1>3
<1>5. p - 1 \in S
  BY <1>3, <1>4
<1> QED
  BY <1>2, <1>3, <1>5

LEMMA ReplayKeeps ==
  ASSUME NEW items, Len(items) \in Nat, NEW start, NEW G, start \in G[0],
         \A n \in 1 .. Len(items) : \A s \in G[n - 1] : Place(s, items[n]) \in G[n]
  PROVE  Replayed(start, items) \in G[Len(items)]
<1> DEFINE L == Len(items)
           Steps(g, m) == g = [n \in 0 .. m |-> IF n = 0 THEN start ELSE Place(g[n - 1], items[n])]
           Built == {m \in Nat : \E g : Steps(g, m)}
           after == CHOOSE g : Steps(g, L)
<1>1. 0 \in Built
  <2>1. Steps([n \in 0 .. 0 |-> start], 0)
    OBVIOUS
  <2> QED
    BY <2>1
<1>2. \A m \in 0 .. L - 1 : m \in Built => m + 1 \in Built
  <2> SUFFICES ASSUME NEW m \in 0 .. L - 1, NEW g, Steps(g, m)
               PROVE  \E h : Steps(h, m + 1)
    OBVIOUS
  <2>1. PICK h : h = [n \in 0 .. m + 1 |-> IF n <= m THEN g[n] ELSE Place(g[m], items[m + 1])]
    OBVIOUS
  <2>2. \A n \in 0 .. m : g[n] = IF n = 0 THEN start ELSE Place(g[n - 1], items[n])
    OBVIOUS
  <2> HIDE DEF Steps
  <2>3. \A n \in 0 .. m + 1 : h[n] = IF n = 0 THEN start ELSE Place(h[n - 1], items[n])
    <3> SUFFICES ASSUME NEW n \in 0 .. m + 1
                 PROVE  h[n] = IF n = 0 THEN start ELSE Place(h[n - 1], items[n])
      OBVIOUS
    <3>1. CASE n = 0
      BY <2>1, <2>2, <3>1
    <3>2. CASE n # 0 /\ n <= m
      <4>1. h[n] = g[n] /\ h[n - 1] = g[n - 1] /\ n \in 0 .. m
        BY <2>1, <3>2
      <4> QED
        BY <2>2, <3>2, <4>1
    <3>3. CASE n = m + 1
      <4>1. h[n] = Place(g[m], items[m + 1]) /\ h[m] = g[m] /\ n - 1 = m /\ n # 0
        BY <2>1, <3>3
      <4> QED
        BY <3>3, <4>1
    <3> QED
      BY <3>1, <3>2, <3>3
  <2>4. h = [n \in 0 .. m + 1 |-> h[n]]
    BY <2>1
  <2>5. h = [n \in 0 .. m + 1 |-> IF n = 0 THEN start ELSE Place(h[n - 1], items[n])]
    BY <2>3, <2>4
  <2> QED
    BY <2>5 DEF Steps
<1>3. \E g : Steps(g, L)
  <2> HIDE DEF Steps
  <2>1. \A m \in 0 .. L : m \in Built
    <3> HIDE DEF Built
    <3> QED
      BY <1>1, <1>2, UpTo
  <2>2. L \in 0 .. L
    OBVIOUS
  <2> QED
    BY <2>1, <2>2
<1>4. Steps(after, L)
  <2> HIDE DEF Steps
  <2> QED
    BY <1>3
<1>5. /\ after[0] = start
      /\ \A n \in 1 .. L : after[n] = Place(after[n - 1], items[n])
  <2> HIDE DEF after
  <2>1. \A n \in 0 .. L : after[n] = IF n = 0 THEN start ELSE Place(after[n - 1], items[n])
    BY <1>4
  <2> QED
    BY <2>1
<1>6. Replayed(start, items) = after[L]
  BY DEF Replayed
<1> HIDE DEF after, Steps
<1> DEFINE Kept == {n \in Nat : after[n] \in G[n]}
<1>7. 0 \in Kept
  BY <1>5
<1>8. \A m \in 0 .. L - 1 : m \in Kept => m + 1 \in Kept
  <2>1. ASSUME NEW m \in 0 .. L - 1, after[m] \in G[m]
        PROVE  after[m + 1] \in G[m + 1] /\ m + 1 \in Nat
    <3>1. m + 1 \in 1 .. L /\ m + 1 - 1 = m
      OBVIOUS
    <3> QED
      BY <1>5, <2>1, <3>1
  <2>2. \A n : n \in Kept <=> n \in Nat /\ after[n] \in G[n]
    OBVIOUS
  <2> HIDE DEF Kept
  <2> QED
    BY <2>1, <2>2
<1>9. \A m \in 0 .. L : m \in Kept
  <2> HIDE DEF Kept
  <2> QED
    BY <1>7, <1>8, UpTo
<1> QED
  BY <1>6, <1>9

-----------------------------------------------------------------------------
-----------------------------------------------------------------------------
(* The clock.                                                              *)

LEMMA ClockFields ==
  ASSUME AudioTypes
  PROVE  /\ now \in Nat /\ clock.paused \in BOOLEAN
         /\ clock.begin \in Nat /\ clock.total \in Nat /\ clock.lastBegin \in Nat /\ clock.lastSpan \in Nat
         /\ clock.lastSpan <= clock.total
BY DEF AudioTypes

LEMMA LocatedIsNatural ==
  ASSUME AudioTypes, NEW q \in Int, NEW o \in Int
  PROVE  Located(q, o) \in Nat
BY ClockFields DEF Located, Later

(* What the recording has got to, before, in and after the last pause.     *)
LEMMA TimelineForm ==
  ASSUME AudioTypes, t0 \in Int, NEW q \in Int
  PROVE  /\ TimelineTime(q) \in Int
         /\ clock.paused /\ q >= clock.begin => TimelineTime(q) = clock.begin - t0 - clock.total
         /\ clock.paused /\ q < clock.begin => TimelineTime(q) = q - t0 - clock.total
         /\ ~clock.paused /\ q < clock.lastBegin =>
              TimelineTime(q) = q - t0 - clock.total + clock.lastSpan
         /\ ~clock.paused /\ q >= clock.lastBegin /\ q < LastResumed =>
              TimelineTime(q) = LastResumed - t0 - clock.total
         /\ ~clock.paused /\ q >= LastResumed => TimelineTime(q) = q - t0 - clock.total
<1>1. PICK pp \in BOOLEAN, b \in Nat, t \in Nat, lb \in Nat, ls \in Nat :
        /\ clock.paused = pp /\ clock.begin = b /\ clock.total = t
        /\ clock.lastBegin = lb /\ clock.lastSpan = ls
  BY ClockFields
<1>2. LastResumed = lb + ls
  BY <1>1 DEF LastResumed
<1>3. TimelineTime(q) = q - t0 - t +
        (CASE pp /\ q >= b -> b - q
           [] ~pp /\ q < lb -> ls
           [] ~pp /\ q \in lb .. lb + ls -> lb + ls - q
           [] OTHER -> 0)
  BY <1>1 DEF TimelineTime
<1>4. CASE pp
  <2>1. TimelineTime(q) = IF q >= b THEN q - t0 - t + (b - q) ELSE q - t0 - t
    BY <1>3, <1>4
  <2> QED
    BY <1>1, <1>4, <2>1
<1>5. CASE ~pp
  <2>1. TimelineTime(q) = IF q < lb THEN q - t0 - t + ls
                          ELSE IF q <= lb + ls THEN q - t0 - t + (lb + ls - q) ELSE q - t0 - t
    BY <1>3, <1>5
  <2> QED
    BY <1>1, <1>2, <1>5, <2>1
<1> QED
  BY <1>4, <1>5

LEMMA TimelineIsInteger ==
  ASSUME AudioTypes, t0 \in Int, NEW q \in Int
  PROVE  TimelineTime(q) \in Int
BY TimelineForm

(* It never goes back, and never ahead of the clock on the wall.           *)
LEMMA TimeRises ==
  ASSUME AudioTypes, t0 \in Int, NEW q \in Int, NEW r \in Int, q <= r
  PROVE  TimelineTime(q) <= TimelineTime(r)
<1>1. LastResumed = clock.lastBegin + clock.lastSpan
  BY DEF LastResumed
<1>2. CASE clock.paused
  BY <1>2, ClockFields, TimelineForm
<1>3. CASE ~clock.paused
  <2>1. PICK n \in Int, t \in Nat, lb \in Nat, ls \in Nat :
          n = t0 /\ t = clock.total /\ lb = clock.lastBegin /\ ls = clock.lastSpan
    BY ClockFields
  <2>2. PICK x \in Int, y \in Int : x = TimelineTime(q) /\ y = TimelineTime(r)
    BY TimelineIsInteger
  <2>3. x = IF q < lb THEN q - n - t + ls ELSE IF q < lb + ls THEN lb + ls - n - t ELSE q - n - t
    BY <1>1, <1>3, <2>1, <2>2, TimelineForm
  <2>4. y = IF r < lb THEN r - n - t + ls ELSE IF r < lb + ls THEN lb + ls - n - t ELSE r - n - t
    BY <1>1, <1>3, <2>1, <2>2, TimelineForm
  <2> QED
    BY <2>1, <2>2, <2>3, <2>4
<1> QED
  BY <1>2, <1>3, ClockFields

LEMMA PausedIsNatural ==
  ASSUME AudioTypes, t0 \in Int, NEW q \in Int
  PROVE  PausedBefore(q) \in Nat /\ PausedBefore(q) = q - t0 - TimelineTime(q)
<1>1. LastResumed = clock.lastBegin + clock.lastSpan
  BY DEF LastResumed
<1>2. PausedBefore(q) = q - t0 - TimelineTime(q)
  BY DEF PausedBefore
<1>3. CASE clock.paused
  BY <1>2, <1>3, ClockFields, TimelineForm
<1>4. CASE ~clock.paused
  BY <1>1, <1>2, <1>4, ClockFields, TimelineForm
<1> QED
  BY <1>3, <1>4

(* What locate makes of a moment, on a timeline that begins at o.          *)
LEMMA LocatedOnTheTimeline ==
  ASSUME AudioTypes, t0 \in Nat, NEW q \in Nat, NEW o \in Nat, ~Excised(q)
  PROVE  /\ Located(q, o) <= Later(TimelineTime(q) + t0 - o, 0)
         /\ ~DuringAPause(q) => Located(q, o) >= TimelineTime(q) + t0 - o
<1>1. LastResumed = clock.lastBegin + clock.lastSpan
  BY DEF LastResumed
<1>2. PICK d \in Int : d = TimelineTime(q)
  BY TimelineIsInteger
<1>3. CASE clock.paused
  <2>1. q < clock.begin
    BY <1>3, ClockFields DEF Excised
  <2>2. d = q - t0 - clock.total
    BY <1>2, <1>3, <2>1, ClockFields, TimelineForm
  <2>3. Located(q, o) = Later(q - o - clock.total, 0)
    BY <1>3, ClockFields DEF Located
  <2> QED
    BY <1>2, <2>2, <2>3, ClockFields DEF Later
<1>4. CASE ~clock.paused /\ q < clock.lastBegin
  <2>1. d = q - t0 - clock.total + clock.lastSpan
    BY <1>2, <1>4, ClockFields, TimelineForm
  <2>2. Located(q, o) = Later(q - o - (clock.total - clock.lastSpan), 0)
    BY <1>4, ClockFields DEF Located
  <2> QED
    BY <1>2, <2>1, <2>2, ClockFields DEF Later
<1>5. CASE ~clock.paused /\ q >= clock.lastBegin
  <2>1. Located(q, o) = Later(q - o - clock.total, 0)
    BY <1>5, ClockFields DEF Located
  <2>2. CASE q < LastResumed
    <3>1. d = LastResumed - t0 - clock.total
      BY <1>2, <1>5, <2>2, ClockFields, TimelineForm
    <3>2. DuringAPause(q)
      BY <1>1, <1>5, <2>2 DEF DuringAPause
    <3> QED
      BY <1>1, <1>2, <2>1, <2>2, <3>1, <3>2, ClockFields DEF Later
  <2>3. CASE ~(q < LastResumed)
    <3>1. d = q - t0 - clock.total
      BY <1>1, <1>2, <1>5, <2>3, ClockFields, TimelineForm
    <3> QED
      BY <1>2, <2>1, <3>1, ClockFields DEF Later
  <2> QED
    BY <2>2, <2>3
<1> QED
  BY <1>3, <1>4, <1>5, ClockFields

-----------------------------------------------------------------------------
(* What placing one item does to the aenc thread's state, field by field.  *)

LEMMA Numbers ==
  /\ Duration \in Nat /\ Duration # 0 /\ Period \in Nat /\ Period # 0 /\ Capacity \in Nat /\ Capacity # 0
  /\ {Jitter, MaxNow, MaxPackets, MaxPauses, MaxMigrations} \subseteq Nat
BY AudioAssumption

LEMMA UsedAndFilled ==
  ASSUME NEW gap \in Int
  PROVE  /\ Used(gap) \in Nat /\ Filled(gap) \in Nat
         /\ Used(gap) <= Duration
         /\ gap <= -Period \/ Used(gap) = Duration
         /\ gap >= 0 => Filled(gap) <= gap
         /\ gap < 0 => Filled(gap) = 0
         /\ Filled(gap) >= gap - (Period - 1)
BY Numbers DEF Used, Filled, Later

LEMMA UsedOrDropped ==
  ASSUME NEW gap \in Int, Duration <= Period, Used(gap) # 0
  PROVE  gap > -Period /\ Used(gap) = Duration
BY Numbers DEF Used, Later

LEMMA MissingFills ==
  ASSUME AudioTypes, NEW tl \in TrackStates, NEW q \in Nat
  PROVE  /\ Missing(tl, q) \in Nat
         /\ ~Excised(q) => tl.head + Missing(tl, q) >= Located(q, tl.origin)
         /\ Excised(q) => Missing(tl, q) = 0
         /\ tl.head + Missing(tl, q) <= Later(tl.head, Located(q, tl.origin))
<1>1. PICK o \in Nat, h \in Nat : tl.origin = o /\ tl.head = h
  BY DEF TrackStates
<1>2. PICK p \in Nat : p = Located(q, tl.origin)
  BY <1>1, LocatedIsNatural
<1>3. Missing(tl, q) = IF Excised(q) THEN 0 ELSE Later(p - h, 0)
  BY <1>1, <1>2 DEF Missing
<1> QED
  BY <1>1, <1>2, <1>3 DEF Later

LEMMA HeadMoves ==
  ASSUME NEW tl \in TrackStates, NEW h \in Nat
  PROVE  /\ [tl EXCEPT !.head = h] \in TrackStates
         /\ [tl EXCEPT !.head = h].started = tl.started
         /\ [tl EXCEPT !.head = h].origin = tl.origin
         /\ [tl EXCEPT !.head = h].base = tl.base
         /\ [tl EXCEPT !.head = h].head = h
         /\ [tl EXCEPT !.head = h].input = tl.input
         /\ [tl EXCEPT !.head = h].excised = tl.excised
         /\ [tl EXCEPT !.head = h].behind = tl.behind
BY DEF TrackStates

LEMMA TickFields ==
  ASSUME AudioTypes, NEW s \in AencStates, NEW item \in Items, item.kind = "tick"
  PROVE  /\ Place(s, item) \in AencStates
         /\ Place(s, item).written = s.written
         /\ Place(s, item).track = [s.track EXCEPT !.head = @ + Missing(s.track, item.qpc)]
<1>1. Place(s, item) = [s EXCEPT !.track.head = @ + Missing(s.track, item.qpc)]
  BY DEF Place, PlaceTick
<1>2. s.track \in TrackStates /\ item.qpc \in Nat
  BY DEF AencStates, Items
<1>3. PICK p \in Nat : p = Missing(s.track, item.qpc)
  BY <1>2, MissingFills
<1>4. Place(s, item) = [track |-> [s.track EXCEPT !.head = @ + p], written |-> s.written]
  BY <1>1, <1>3 DEF AencStates
<1>5. [s.track EXCEPT !.head = @ + p] \in TrackStates
  BY <1>2 DEF TrackStates
<1> QED
  BY <1>3, <1>4, <1>5 DEF AencStates

LEMMA BufferFields ==
  ASSUME AudioTypes, t0 \in Int, NEW s \in AencStates, NEW item \in Items, item.kind = "buffer",
         NEW gap, gap = Gap(s.track, item.qpc)
  PROVE  /\ gap \in Int
         /\ Place(s, item) \in AencStates
         /\ Excised(item.qpc) \/ Used(gap) = 0 => Place(s, item) = s
         /\ ~(Excised(item.qpc) \/ Used(gap) = 0) =>
              /\ Place(s, item).written = Append(s.written, Piece(s.track, item.qpc, gap))
              /\ Place(s, item).track = [s.track EXCEPT !.head = @ + Filled(gap) + Used(gap)]
              /\ Piece(s.track, item.qpc, gap) \in Pieces
<1>1. /\ s.track \in TrackStates /\ item.qpc \in Nat /\ s.written \in Seq(Pieces)
      /\ s.track.origin \in Nat /\ s.track.head \in Nat /\ s.track.base \in Nat
  BY DEF AencStates, Items, TrackStates
<1>2. gap \in Int
  BY <1>1, LocatedIsNatural DEF Gap
<1>3. CASE Excised(item.qpc) \/ Used(gap) = 0
  BY <1>2, <1>3 DEF Place, PlaceBuffer
<1>4. CASE ~(Excised(item.qpc) \/ Used(gap) = 0)
  <2>1. Place(s, item) = [s EXCEPT !.track.head = @ + Filled(gap) + Used(gap),
                                   !.written = Append(@, Piece(s.track, item.qpc, gap))]
    BY <1>4 DEF Place, PlaceBuffer
  <2>2. PICK f \in Nat, u \in Nat : f = Filled(gap) /\ u = Used(gap)
    BY <1>2, UsedAndFilled
  <2>3. item.qpc + Duration - u \in Int
    BY <1>1, Numbers
  <2>4. TimelineTime(item.qpc + Duration - u) \in Int /\ DuringAPause(item.qpc + Duration - u) \in BOOLEAN
    BY <2>3, TimelineIsInteger DEF DuringAPause
  <2>5. Piece(s.track, item.qpc, gap)
          = [qpc |-> item.qpc + Duration - u, at |-> s.track.base + s.track.head + f,
             due |-> TimelineTime(item.qpc + Duration - u),
             paused |-> DuringAPause(item.qpc + Duration - u)]
    BY <2>2 DEF Piece, Length
  <2>6. Piece(s.track, item.qpc, gap) \in Pieces
    BY <1>1, <2>3, <2>4, <2>5 DEF Pieces
  <2>7. PICK pc \in Pieces : pc = Piece(s.track, item.qpc, gap)
    BY <2>6
  <2>8. Place(s, item) = [track |-> [s.track EXCEPT !.head = @ + f + u], written |-> Append(s.written, pc)]
    BY <2>1, <2>2, <2>7 DEF AencStates
  <2>9. [s.track EXCEPT !.head = @ + f + u] \in TrackStates
    <3>1. PICK h \in Nat : h = s.track.head + f + u
      BY <1>1, <2>2
    <3>2. [s.track EXCEPT !.head = h] \in TrackStates
      BY <1>1, HeadMoves
    <3> QED
      BY <3>1, <3>2
  <2>10. Append(s.written, pc) \in Seq(Pieces)
    BY <1>1, AppendProperties
  <2> QED
    BY <1>2, <1>4, <2>2, <2>7, <2>8, <2>9, <2>10 DEF AencStates
<1> QED
  BY <1>2, <1>3, <1>4

LEMMA SeamFields ==
  ASSUME AudioTypes, t0 \in Int, NEW s \in AencStates, NEW item \in Items, item.kind = "migrate"
  PROVE  /\ Place(s, item) \in AencStates
         /\ Place(s, item).written = s.written
         /\ item.endpoint \notin Usable =>
              Place(s, item).track = [s.track EXCEPT !.head = @ + Missing(s.track, item.qpc)]
         /\ item.endpoint \in Usable =>
              Place(s, item).track =
                [started |-> TRUE, origin |-> item.qpc,
                 base |-> s.track.base + s.track.head + Missing(s.track, item.qpc),
                 head |-> 0, input |-> item.endpoint, excised |-> PausedBefore(item.qpc),
                 behind |-> s.track.behind + PausedBefore(item.qpc)]
<1>1. /\ s.track \in TrackStates /\ item.qpc \in Nat /\ item.endpoint \in Nat
      /\ s.track.head \in Nat /\ s.track.base \in Nat /\ s.track.behind \in Nat
  BY DEF AencStates, Items, TrackStates
<1>2. PICK p \in Nat : p = Missing(s.track, item.qpc)
  BY <1>1, MissingFills
<1>3. PICK old \in TrackStates : old = [s.track EXCEPT !.head = @ + p]
  <2>1. PICK h \in Nat : h = s.track.head + p
    BY <1>1, <1>2
  <2>2. [s.track EXCEPT !.head = h] \in TrackStates
    BY <1>1, HeadMoves
  <2> QED
    BY <2>1, <2>2
<1>4. FillToSeam(s.track, item.qpc) = old
  BY <1>2, <1>3 DEF FillToSeam
<1>5. Place(s, item) = ApplyMigration(s, item)
  BY DEF Place
<1>6. CASE item.endpoint \notin Usable
  <2>1. Place(s, item) = [track |-> old, written |-> s.written]
    BY <1>4, <1>5, <1>6 DEF ApplyMigration, AencStates
  <2> QED
    BY <1>2, <1>3, <1>6, <2>1 DEF AencStates
<1>7. CASE item.endpoint \in Usable
  <2>1. Length(old) = s.track.base + s.track.head + p /\ Length(old) \in Nat
    BY <1>1, <1>3 DEF Length, TrackStates
  <2>2. PICK b \in Nat, x \in Nat, y \in Nat :
          /\ b = Length(old) /\ x = PausedBefore(item.qpc)
          /\ y = old.behind + x /\ y = s.track.behind + x
    <3>1. PausedBefore(item.qpc) \in Nat
      BY <1>1, PausedIsNatural
    <3>2. old.behind = s.track.behind
      BY <1>1, <1>3 DEF TrackStates
    <3> QED
      BY <1>1, <2>1, <3>1, <3>2
  <2>3. Place(s, item) = [track |-> [started |-> TRUE, origin |-> item.qpc, base |-> b,
                                     head |-> 0, input |-> item.endpoint, excised |-> x,
                                     behind |-> y],
                          written |-> s.written]
    BY <1>4, <1>5, <1>7, <2>2 DEF ApplyMigration, AencStates
  <2>4. [started |-> TRUE, origin |-> item.qpc, base |-> b, head |-> 0, input |-> item.endpoint,
         excised |-> x, behind |-> y] \in TrackStates
    BY <1>1 DEF TrackStates
  <2>5. /\ Place(s, item).track = [started |-> TRUE, origin |-> item.qpc, base |-> b, head |-> 0,
                                   input |-> item.endpoint, excised |-> x, behind |-> y]
        /\ Place(s, item).written = s.written
    BY <2>3
  <2>6. /\ b = s.track.base + s.track.head + Missing(s.track, item.qpc)
        /\ x = PausedBefore(item.qpc)
        /\ y = s.track.behind + PausedBefore(item.qpc)
    BY <1>2, <2>1, <2>2
  <2>7. Place(s, item) \in AencStates
    BY <2>3, <2>4 DEF AencStates
  <2>8. Place(s, item).track =
          [started |-> TRUE, origin |-> item.qpc,
           base |-> s.track.base + s.track.head + Missing(s.track, item.qpc),
           head |-> 0, input |-> item.endpoint, excised |-> PausedBefore(item.qpc),
           behind |-> s.track.behind + PausedBefore(item.qpc)]
    BY <2>5, <2>6
  <2> QED
    BY <1>7, <2>5, <2>7, <2>8
<1> QED
  BY <1>6, <1>7

LEMMA PlaceTypes ==
  ASSUME AudioTypes, t0 \in Int, NEW s \in AencStates, NEW item \in Items
  PROVE  Place(s, item) \in AencStates
<1>1. item.kind \in {"tick", "buffer", "migrate"}
  BY DEF Items
<1> QED
  BY <1>1, TickFields, BufferFields, SeamFields


-----------------------------------------------------------------------------
(* Placing an item keeps the track in step.                                *)

InGoodStep(s) ==
  s \in AencStates /\ 1 <= s.track.input /\ BeginsInStep(s.track) /\ InStep(s.track, s.written)
SameTimeline(old, new) ==
  /\ new.started = old.started /\ new.origin = old.origin /\ new.base = old.base
  /\ new.input = old.input /\ new.excised = old.excised /\ new.behind = old.behind
Carries(old, new, from) == \A u \in Nat : from <= u /\ Reached(old, u) => Reached(new, u)

LEMMA LeadIsNatural == Lead \in Nat /\ Lead = Period - 1 + Duration
BY Numbers DEF Lead

LEMMA SlackGrows ==
  ASSUME NEW k \in Nat, NEW j \in Nat, k <= j
  PROVE  k * Lead \in Nat /\ j * Lead \in Nat /\ k * Lead <= j * Lead
<1>1. PICK c \in Nat : c = Lead
  BY LeadIsNatural
<1>2. PICK d \in Nat : j = k + d
  <2>1. j - k \in Nat /\ j = k + (j - k)
    OBVIOUS
  <2> QED
    BY <2>1
<1>3. k * c \in Nat /\ d * c \in Nat /\ (k + d) * c = k * c + d * c
  OBVIOUS
<1> QED
  BY <1>1, <1>2, <1>3

LEMMA SlackOfOneMore ==
  ASSUME NEW k \in Nat, 1 <= k
  PROVE  (k - 1) * Lead \in Nat /\ k * Lead = (k - 1) * Lead + Lead
<1>1. PICK c \in Nat : c = Lead
  BY LeadIsNatural
<1>2. PICK d \in Nat : d = k - 1
  OBVIOUS
<1>3. d * c \in Nat /\ (d + 1) * c = d * c + c
  OBVIOUS
<1> QED
  BY <1>1, <1>2, <1>3

LEMMA WiderInterval ==
  ASSUME NEW a \in Int, NEW d \in Int, NEW c \in Nat, NEW k \in Nat, NEW j \in Nat,
         NEW x \in Nat, NEW y \in Nat, k <= j, x <= y, a \in d - c - k .. d + c + x
  PROVE  a \in d - c - j .. d + c + y
OBVIOUS

LEMMA InStepWidens ==
  ASSUME NEW old \in TrackStates, NEW new \in TrackStates, 1 <= old.input,
         old.input <= new.input, old.behind <= new.behind,
         NEW pieces \in Seq(Pieces), InStep(old, pieces)
  PROVE  InStep(new, pieces)
<1> SUFFICES ASSUME NEW i \in 1 .. Len(pieces), pieces[i].qpc >= t0, ~pieces[i].paused
             PROVE  pieces[i].at \in pieces[i].due - (Period - 1) - new.behind
                                       .. pieces[i].due + (Period - 1) + (new.input - 1) * Lead
  BY DEF InStep
<1>1. PICK k \in Nat, j \in Nat : k = old.input - 1 /\ j = new.input - 1 /\ k <= j
  <2>1. old.input \in Nat /\ new.input \in Nat
    BY DEF TrackStates
  <2>2. old.input - 1 \in Nat /\ new.input - 1 \in Nat /\ old.input - 1 <= new.input - 1
    BY <2>1
  <2> QED
    BY <2>2
<1>2. PICK x \in Nat, y \in Nat : x = k * Lead /\ y = j * Lead /\ x <= y
  BY <1>1, SlackGrows
<1>3. PICK a \in Int, d \in Int : a = pieces[i].at /\ d = pieces[i].due
  <2>1. pieces[i] \in Pieces
    OBVIOUS
  <2> QED
    BY <2>1 DEF Pieces
<1>4. PICK v \in Nat, w \in Nat : v = old.behind /\ w = new.behind /\ v <= w
  BY DEF TrackStates
<1>5. PICK c \in Nat : c = Period - 1
  BY Numbers
<1>6. a \in d - c - v .. d + c + x
  BY <1>1, <1>2, <1>3, <1>4, <1>5 DEF InStep
<1>7. a \in d - c - w .. d + c + y
  BY <1>2, <1>4, <1>6, WiderInterval
<1> QED
  BY <1>1, <1>2, <1>3, <1>4, <1>5, <1>7

LEMMA ZeroOfStarted ==
  ASSUME NEW tl \in TrackStates, tl.started, t0 \in Int
  PROVE  Zero(tl) = tl.origin - t0 - tl.excised /\ Zero(tl) \in Int /\ From(tl) = tl.origin
BY DEF Zero, From, TrackStates

LEMMA SameZero ==
  ASSUME NEW old, NEW new, SameTimeline(old, new)
  PROVE  Zero(new) = Zero(old) /\ From(new) = From(old)
BY DEF Zero, From, SameTimeline

(* A tick, and an endpoint that cannot be used, only move the write head.  *)
OnlyTheHead(s, r, h) == r.written = s.written /\ r.track = [s.track EXCEPT !.head = h]

LEMMA HeadMovedKeeps ==
  ASSUME NEW s, InGoodStep(s), NEW h \in Nat,
         NEW r \in AencStates, OnlyTheHead(s, r, h)
  PROVE  InGoodStep(r) /\ SameTimeline(s.track, r.track) /\ r.track.head = h
<1>1. s.track \in TrackStates /\ r.track \in TrackStates /\ s.written \in Seq(Pieces)
  BY DEF InGoodStep, AencStates
<1>2. SameTimeline(s.track, r.track) /\ r.track.head = h
  BY <1>1, HeadMoves DEF SameTimeline, OnlyTheHead
<1>3. BeginsInStep(r.track)
  <2>1. Zero(r.track) = Zero(s.track)
    BY <1>2, SameZero
  <2> QED
    BY <1>2, <2>1 DEF SameTimeline, InGoodStep, BeginsInStep
<1>4. /\ r.track.input = s.track.input /\ r.track.behind = s.track.behind
      /\ 1 <= s.track.input /\ s.track.input \in Nat /\ s.track.behind \in Nat
  BY <1>1, <1>2 DEF SameTimeline, TrackStates, InGoodStep
<1>5. InStep(r.track, r.written)
  <2>1. s.track.input <= r.track.input /\ s.track.behind <= r.track.behind
    BY <1>4
  <2>2. InStep(s.track, s.written) /\ r.written = s.written
    BY DEF InGoodStep, OnlyTheHead
  <2>3. InStep(r.track, s.written)
    BY <1>1, <1>4, <2>1, <2>2, InStepWidens
  <2> QED
    BY <2>2, <2>3
<1> QED
  BY <1>2, <1>3, <1>4, <1>5 DEF InGoodStep

(* What fills the track up to a moment carries it no further than that.    *)
LEMMA FilledHeadKeeps ==
  ASSUME AudioTypes, t0 \in Nat, NEW s, InGoodStep(s), NEW q \in Nat,
         NEW r \in AencStates, r.written = s.written,
         r.track = [s.track EXCEPT !.head = @ + Missing(s.track, q)]
  PROVE  InGoodStep(r) /\ SameTimeline(s.track, r.track) /\ Carries(s.track, r.track, q)
<1>1. s.track \in TrackStates /\ s.track.started
  BY DEF InGoodStep, AencStates, BeginsInStep
<1>2. PICK h \in Nat, o \in Nat, x \in Nat :
        h = s.track.head /\ o = s.track.origin /\ x = s.track.excised
  BY <1>1 DEF TrackStates
<1>3. PICK m \in Nat : m = Missing(s.track, q)
  BY <1>1, MissingFills
<1>4. PICK g \in Nat : g = h + m
  OBVIOUS
<1>5. OnlyTheHead(s, r, g)
  BY <1>2, <1>3, <1>4 DEF OnlyTheHead
<1>6. InGoodStep(r) /\ SameTimeline(s.track, r.track) /\ r.track.head = g
  BY <1>5, HeadMovedKeeps
<1>7. PICK d \in Int : d = TimelineTime(q)
  BY TimelineIsInteger
<1>8. g = h \/ g <= Later(h, Later(d + t0 - o, 0))
  <2>1. CASE Excised(q)
    BY <1>1, <1>3, <1>4, <2>1, MissingFills
  <2>2. CASE ~Excised(q)
    <3>1. PICK l \in Nat : l = Located(q, o) /\ l <= Later(d + t0 - o, 0)
      <4>1. Located(q, o) \in Nat
        BY LocatedIsNatural
      <4> QED
        BY <1>7, <2>2, <4>1, LocatedOnTheTimeline
    <3>2. h + m <= Later(h, l)
      BY <1>1, <1>2, <1>3, <3>1, MissingFills
    <3> QED
      BY <1>4, <3>1, <3>2 DEF Later
  <2> QED
    BY <2>1, <2>2
<1>9. Carries(s.track, r.track, q)
  <2> SUFFICES ASSUME NEW u \in Nat, q <= u, Reached(s.track, u)
               PROVE  Reached(r.track, u)
    BY DEF Carries
  <2>1. PICK e \in Int : e = TimelineTime(u) /\ d <= e
    BY <1>7, TimelineIsInteger, TimeRises
  <2>2. PICK z \in Int : z = Zero(s.track) /\ z = o - t0 - x /\ z = Zero(r.track)
    BY <1>1, <1>2, <1>6, ZeroOfStarted, SameZero
  <2>3. o <= u /\ z <= e /\ h <= e - z + Lead
    BY <1>2, <2>1, <2>2 DEF Reached
  <2>4. g <= e - z + Lead
    BY <1>8, <2>1, <2>2, <2>3, LeadIsNatural DEF Later
  <2>5. r.track.started /\ r.track.origin = o
    BY <1>1, <1>2, <1>6 DEF SameTimeline
  <2> QED
    BY <1>6, <2>1, <2>2, <2>3, <2>4, <2>5 DEF Reached
<1> QED
  BY <1>6, <1>9

LEMMA SameIsCarried ==
  ASSUME NEW tl, NEW q
  PROVE  SameTimeline(tl, tl) /\ Carries(tl, tl, q)
BY DEF SameTimeline, Carries

(* A packet's piece lies where its stamp is due.                           *)
LEMMA PieceIsInStep ==
  ASSUME AudioTypes, t0 \in Nat, NEW tl \in TrackStates, BeginsInStep(tl), 1 <= tl.input,
         NEW q \in Nat, tl.origin <= q, Sound(tl, q),
         NEW gap \in Int, gap = Gap(tl, q), gap > -Period, Used(gap) = Duration,
         ~Excised(q), ~DuringAPause(q)
  PROVE  Piece(tl, q, gap).at \in TimelineTime(q) - (Period - 1) - tl.behind
                                    .. TimelineTime(q) + (Period - 1) + (tl.input - 1) * Lead
<1>1. PICK o \in Nat, h \in Nat, b \in Nat, k \in Nat, x \in Nat, v \in Nat :
        /\ tl.origin = o /\ tl.head = h /\ tl.base = b /\ tl.input = k
        /\ tl.excised = x /\ tl.behind = v /\ tl.started
  BY DEF TrackStates, BeginsInStep
<1>2. PICK d \in Int : d = TimelineTime(q)
  BY TimelineIsInteger
<1>3. PICK l \in Nat : l = Located(q, o) /\ l <= Later(d + t0 - o, 0) /\ l >= d + t0 - o
  <2>1. Located(q, o) \in Nat
    <3>1. q \in Int /\ o \in Int
      OBVIOUS
    <3> QED
      BY <3>1, LocatedIsNatural
  <2>2. /\ Located(q, o) <= Later(TimelineTime(q) + t0 - o, 0)
        /\ Located(q, o) >= TimelineTime(q) + t0 - o
    BY LocatedOnTheTimeline
  <2> QED
    BY <1>2, <2>1, <2>2
<1>4. PICK z \in Int : z = Zero(tl) /\ z = o - t0 - x /\ From(tl) = o
  BY <1>1, ZeroOfStarted
<1>5. z <= d
  BY <1>1, <1>2, <1>4 DEF Sound, None
<1>6. PICK w \in Nat : w = (k - 1) * Lead
  BY <1>1, SlackOfOneMore
<1>7. b >= o - t0 - v /\ b <= z + w
  BY <1>1, <1>4, <1>6 DEF BeginsInStep
<1>8. gap = l - h
  BY <1>1, <1>3 DEF Gap
<1>9. PICK f \in Nat : f = Filled(gap) /\ f = IF gap >= Period THEN gap ELSE 0
  BY Numbers DEF Filled
<1>10. Piece(tl, q, gap).at = b + h + f
  BY <1>1, <1>9 DEF Piece, Length
<1>11. h + f >= l - (Period - 1) /\ h + f <= l + (Period - 1)
  BY <1>8, <1>9, Numbers
<1>12. b + h + f >= d - (Period - 1) - v
  BY <1>3, <1>7, <1>11, Numbers
<1>13. b + h + f <= d + (Period - 1) + w
  BY <1>3, <1>4, <1>5, <1>7, <1>11, Numbers DEF Later
<1>14. b + h + f \in d - (Period - 1) - v .. d + (Period - 1) + w
  BY <1>12, <1>13, Numbers
<1> QED
  BY <1>1, <1>2, <1>6, <1>10, <1>14

LEMMA BufferKeeps ==
  ASSUME AudioTypes, Duration <= Period, t0 \in Nat, NEW s, InGoodStep(s),
         NEW item \in Items, item.kind = "buffer", s.track.input > 1 => s.track.origin <= item.qpc,
         Sound(s.track, item.qpc)
  PROVE  /\ InGoodStep(Place(s, item)) /\ SameTimeline(s.track, Place(s, item).track)
         /\ Carries(s.track, Place(s, item).track, item.qpc + Duration)
<1>1. s \in AencStates /\ s.track \in TrackStates /\ s.written \in Seq(Pieces)
      /\ BeginsInStep(s.track) /\ 1 <= s.track.input /\ InStep(s.track, s.written)
      /\ s.track.started
  BY DEF InGoodStep, AencStates, BeginsInStep
<1>2. PICK q \in Nat : q = item.qpc
  BY DEF Items
<1>3. PICK gap \in Int : gap = Gap(s.track, item.qpc)
  <2>1. item.qpc \in Int /\ s.track.origin \in Int /\ s.track.head \in Int
    BY <1>1, <1>2 DEF TrackStates
  <2>2. Located(item.qpc, s.track.origin) \in Nat
    BY <2>1, LocatedIsNatural
  <2> QED
    BY <2>1, <2>2 DEF Gap
<1>4. /\ Excised(item.qpc) \/ Used(gap) = 0 => Place(s, item) = s
      /\ Place(s, item) \in AencStates
      /\ ~(Excised(item.qpc) \/ Used(gap) = 0) =>
              /\ Place(s, item).written = Append(s.written, Piece(s.track, item.qpc, gap))
              /\ Place(s, item).track = [s.track EXCEPT !.head = @ + Filled(gap) + Used(gap)]
              /\ Piece(s.track, item.qpc, gap) \in Pieces
  <2>1. t0 \in Int
    OBVIOUS
  <2> QED
    BY <1>1, <1>3, <2>1, BufferFields
<1>5. CASE Excised(q) \/ Used(gap) = 0
  <2>1. Place(s, item) = s
    BY <1>4, <1>2, <1>5
  <2> QED
    BY <2>1, SameIsCarried
<1>6. CASE ~(Excised(q) \/ Used(gap) = 0)
  <2>1. PICK r \in AencStates, pc \in Pieces :
          /\ r = Place(s, item) /\ pc = Piece(s.track, q, gap)
          /\ r.written = Append(s.written, pc)
          /\ r.track = [s.track EXCEPT !.head = @ + Filled(gap) + Used(gap)]
    BY <1>4, <1>2, <1>6
  <2>2. gap > -Period /\ Used(gap) = Duration
    BY <1>3, <1>6, UsedOrDropped
  <2>3. PICK o \in Nat, h \in Nat, x \in Nat :
          s.track.origin = o /\ s.track.head = h /\ s.track.excised = x
    BY <1>1 DEF TrackStates
  <2>4. PICK f \in Nat : f = Filled(gap) /\ (gap >= 0 => f <= gap) /\ (gap < 0 => f = 0)
                         /\ (f = 0 \/ f = gap) /\ (f = 0 => gap <= Period - 1)
    BY <1>3, Numbers DEF Filled
  <2>5. PICK g \in Nat : g = h + f + Duration
    BY Numbers
  <2>6. OnlyTheHead([track |-> s.track, written |-> r.written], r, g)
    BY <2>1, <2>2, <2>3, <2>4, <2>5 DEF OnlyTheHead
  <2>7. InGoodStep([track |-> s.track, written |-> r.written])
    <3>1. r.written \in Seq(Pieces)
      BY DEF AencStates
    <3>2. InStep(s.track, r.written)
      <4> SUFFICES ASSUME NEW i \in 1 .. Len(r.written),
                          r.written[i].qpc >= t0, ~r.written[i].paused
                   PROVE  r.written[i].at
                            \in r.written[i].due - (Period - 1) - s.track.behind
                                  .. r.written[i].due + (Period - 1) + (s.track.input - 1) * Lead
        BY DEF InStep
      <4>1. Len(r.written) = Len(s.written) + 1 /\ Len(s.written) \in Nat
            /\ \A n \in 1 .. Len(s.written) : r.written[n] = s.written[n]
            /\ r.written[Len(s.written) + 1] = pc
        BY <1>1, <2>1, AppendProperties
      <4>2. CASE i \in 1 .. Len(s.written)
        <5>1. r.written[i] = s.written[i]
          BY <4>1, <4>2
        <5> QED
          BY <1>1, <4>2, <5>1 DEF InStep
      <4>3. CASE i = Len(s.written) + 1
        <5>1. r.written[i] = Piece(s.track, q, gap)
          BY <2>1, <4>1, <4>3
        <5>2. /\ Piece(s.track, q, gap).qpc = q /\ Piece(s.track, q, gap).due = TimelineTime(q)
              /\ Piece(s.track, q, gap).paused = DuringAPause(q)
          <6>1. q + Duration - Used(gap) = q
            BY <2>2, Numbers
          <6> QED
            BY <6>1 DEF Piece
        <5>3. q >= t0 /\ ~DuringAPause(q) /\ ~Excised(q)
          BY <1>6, <5>1, <5>2
        <5>4. s.track.origin <= q
          <6>1. s.track.input = 1 => s.track.origin = t0
            BY <1>1 DEF BeginsInStep
          <6>2. s.track.input \in Nat
            BY <1>1 DEF TrackStates
          <6> QED
            BY <1>1, <1>2, <2>3, <5>3, <6>1, <6>2
        <5>5. gap = Gap(s.track, q) /\ Sound(s.track, q)
          BY <1>2, <1>3
        <5>6. Piece(s.track, q, gap).at
                \in TimelineTime(q) - (Period - 1) - s.track.behind
                      .. TimelineTime(q) + (Period - 1) + (s.track.input - 1) * Lead
          BY <1>1, <2>2, <5>3, <5>4, <5>5, PieceIsInStep
        <5> QED
          BY <5>1, <5>2, <5>6
      <4> QED
        BY <4>1, <4>2, <4>3
    <3> QED
      BY <1>1, <3>1, <3>2 DEF InGoodStep, AencStates
  <2>8. InGoodStep(r) /\ SameTimeline(s.track, r.track) /\ r.track.head = g
    <3>1. PICK s2 : s2 = [track |-> s.track, written |-> r.written]
      OBVIOUS
    <3>2. InGoodStep(s2) /\ OnlyTheHead(s2, r, g) /\ s2.track = s.track
      BY <2>6, <2>7, <3>1
    <3>3. InGoodStep(r) /\ SameTimeline(s2.track, r.track) /\ r.track.head = g
      BY <3>2, HeadMovedKeeps
    <3> QED
      BY <3>2, <3>3
  <2>9. Carries(s.track, r.track, q + Duration)
    <3> SUFFICES ASSUME NEW u \in Nat, q + Duration <= u, Reached(s.track, u)
                 PROVE  Reached(r.track, u)
      BY DEF Carries
    <3>1. PICK d \in Int, e \in Int : d = TimelineTime(q) /\ e = TimelineTime(u) /\ d <= e
      <4>1. q \in Int /\ u \in Int /\ q <= u
        BY Numbers
      <4> QED
        BY <4>1, TimelineIsInteger, TimeRises
    <3>2. PICK l \in Nat : l = Located(q, o) /\ l <= Later(d + t0 - o, 0)
      <4>1. q \in Int /\ o \in Int
        OBVIOUS
      <4>2. Located(q, o) \in Nat
        BY <4>1, LocatedIsNatural
      <4>3. Located(q, o) <= Later(TimelineTime(q) + t0 - o, 0)
        BY <1>6, LocatedOnTheTimeline
      <4> QED
        BY <3>1, <4>2, <4>3
    <3>3. gap = l - h
      BY <1>2, <1>3, <2>3, <3>2 DEF Gap
    <3>4. PICK z \in Int : z = Zero(s.track) /\ z = o - t0 - x /\ z = Zero(r.track)
      BY <1>1, <2>3, <2>8, ZeroOfStarted, SameZero
    <3>5. o <= u /\ z <= e
      BY <2>3, <3>1, <3>4 DEF Reached
    <3>6. h + f <= l + (Period - 1)
      BY <2>2, <2>4, <3>3, Numbers
    <3>7. l <= e - z
      BY <3>1, <3>2, <3>4, <3>5 DEF Later
    <3>8. g <= e - z + Lead
      BY <2>5, <3>6, <3>7, Numbers, LeadIsNatural
    <3>9. r.track.origin = o /\ r.track.head = g /\ r.track.started
      BY <1>1, <2>3, <2>8 DEF SameTimeline
    <3> QED
      BY <3>1, <3>4, <3>5, <3>8, <3>9 DEF Reached
  <2> QED
    BY <1>2, <2>1, <2>8, <2>9
<1> QED
  BY <1>2, <1>5, <1>6

(* A change of endpoint: the timeline begins where the old one was filled  *)
(* to.  What lies outside the pauses has all of those before it excised.   *)
Begun(old, new, item) ==
  \/ SameTimeline(old, new)
  \/ /\ new.started /\ new.origin = item.qpc /\ new.input = item.endpoint
     /\ Zero(new) = TimelineTime(item.qpc)

LEMMA SeamKeeps ==
  ASSUME AudioTypes, AnyPauses, t0 \in Nat, NEW s, InGoodStep(s),
         NEW item \in Items, item.kind = "migrate", t0 <= item.qpc, item.qpc <= now,
         Outside(item.qpc), s.track.input < item.endpoint, Reached(s.track, item.qpc)
  PROVE  /\ InGoodStep(Place(s, item)) /\ Begun(s.track, Place(s, item).track, item)
         /\ Carries(s.track, Place(s, item).track, item.qpc)
<1>1. s \in AencStates /\ s.track \in TrackStates /\ s.written \in Seq(Pieces)
      /\ BeginsInStep(s.track) /\ 1 <= s.track.input /\ InStep(s.track, s.written)
      /\ s.track.started
  BY DEF InGoodStep, AencStates, BeginsInStep
<1>0. t0 \in Int
  OBVIOUS
<1>2. PICK q \in Nat, e \in Nat : q = item.qpc /\ e = item.endpoint
  BY DEF Items
<1>3. PICK r \in AencStates : r = Place(s, item) /\ r.written = s.written
  BY <1>0, <1>1, SeamFields
<1>4. CASE item.endpoint \notin Usable
  <2>1. r.track = [s.track EXCEPT !.head = @ + Missing(s.track, q)]
    BY <1>0, <1>1, <1>2, <1>3, <1>4, SeamFields
  <2>2. InGoodStep(r) /\ SameTimeline(s.track, r.track) /\ Carries(s.track, r.track, q)
    BY <1>3, <2>1, FilledHeadKeeps
  <2> QED
    BY <1>2, <1>3, <2>2 DEF Begun
<1>5. CASE item.endpoint \in Usable
  <2>1. PICK o \in Nat, h \in Nat, b \in Nat, k \in Nat, x \in Nat, v \in Nat :
          /\ s.track.origin = o /\ s.track.head = h /\ s.track.base = b /\ s.track.input = k
          /\ s.track.excised = x /\ s.track.behind = v
    BY <1>1 DEF TrackStates
  <2>2. PICK m \in Nat : m = Missing(s.track, q)
    BY <1>1, MissingFills
  <2>3. PICK g \in Nat : g = b + h + m
    OBVIOUS
  <2>4. PICK tq \in Int, po \in Nat :
          tq = TimelineTime(q) /\ po = PausedBefore(q) /\ po = q - t0 - tq
    <3>1. q \in Int
      OBVIOUS
    <3> QED
      BY <1>0, <3>1, TimelineIsInteger, PausedIsNatural
  <2>5. PICK vv \in Nat : vv = v + po
    OBVIOUS
  <2>6. r.track = [started |-> TRUE, origin |-> q, base |-> g, head |-> 0, input |-> e,
                   excised |-> po, behind |-> vv]
    <3>1. Place(s, item).track =
            [started |-> TRUE, origin |-> item.qpc,
             base |-> s.track.base + s.track.head + Missing(s.track, item.qpc),
             head |-> 0, input |-> item.endpoint, excised |-> PausedBefore(item.qpc),
             behind |-> s.track.behind + PausedBefore(item.qpc)]
      BY <1>0, <1>1, <1>5, SeamFields
    <3>2. /\ g = s.track.base + s.track.head + Missing(s.track, item.qpc)
          /\ po = PausedBefore(item.qpc) /\ vv = s.track.behind + PausedBefore(item.qpc)
      BY <1>2, <2>1, <2>2, <2>3, <2>4, <2>5
    <3> QED
      BY <1>2, <1>3, <3>1, <3>2
  <2>7. /\ r.track.started /\ r.track.origin = q /\ r.track.base = g /\ r.track.head = 0
        /\ r.track.input = e /\ r.track.excised = po /\ r.track.behind = vv
        /\ r.track \in TrackStates
    <3>1. r.track \in TrackStates
      BY DEF AencStates
    <3> QED
      BY <2>6, <3>1
  <2>8. 1 <= k /\ k < e /\ e > 1 /\ o <= q /\ t0 <= o /\ t0 <= q
    BY <1>1, <1>2, <2>1 DEF BeginsInStep, Reached
  <2>9. PICK z \in Int : z = Zero(s.track) /\ z = o - t0 - x
    BY <1>1, <2>1, ZeroOfStarted
  <2>10. z <= tq /\ h <= tq - z + Lead
    BY <1>2, <2>1, <2>4, <2>9 DEF Reached
  <2>11. h + m <= tq - z + Lead /\ h + m >= tq + t0 - o
    <3>1. CASE q = 0
      <4>1. t0 = 0 /\ o = 0 /\ tq <= 0
        BY <2>4, <2>8, <3>1
      <4>2. h + m <= Later(h, Located(q, o))
        BY <1>1, <2>1, <2>2, MissingFills
      <4>3. Located(q, o) = 0
        <5>1. clock.total - clock.lastSpan >= 0 /\ clock.total \in Nat /\ clock.lastSpan \in Nat
          BY ClockFields
        <5> QED
          BY <3>1, <4>1, <5>1 DEF Located, Later
      <4> QED
        BY <2>9, <2>10, <4>1, <4>2, <4>3, LeadIsNatural DEF Later
    <3>2. CASE q # 0
      <4>1. ~Excised(q) /\ ~DuringAPause(q)
        BY <1>2, <3>2, ClockFields DEF Outside, Excised
      <4>2. PICK l \in Nat : l = Located(q, o) /\ l <= Later(tq + t0 - o, 0) /\ l >= tq + t0 - o
        <5>1. q \in Int /\ o \in Int
          OBVIOUS
        <5>2. Located(q, o) \in Nat
          BY <5>1, LocatedIsNatural
        <5>3. /\ Located(q, o) <= Later(TimelineTime(q) + t0 - o, 0)
              /\ Located(q, o) >= TimelineTime(q) + t0 - o
          BY <4>1, LocatedOnTheTimeline
        <5> QED
          BY <2>4, <5>2, <5>3
      <4>3. h + m <= Later(h, l) /\ h + m >= l
        BY <1>1, <2>1, <2>2, <4>1, <4>2, MissingFills
      <4> QED
        BY <2>9, <2>10, <4>2, <4>3, LeadIsNatural DEF Later
    <3> QED
      BY <3>1, <3>2
  <2>12. PICK w \in Nat : w = (k - 1) * Lead /\ k * Lead = w + Lead
    BY <2>8, SlackOfOneMore
  <2>13. PICK y \in Nat : y = (e - 1) * Lead /\ k * Lead <= y
    <3>1. e - 1 \in Nat /\ k <= e - 1
      BY <2>8
    <3> QED
      BY <3>1, SlackGrows
  <2>14. b >= o - t0 - v /\ b <= z + w
    BY <1>1, <2>1, <2>9, <2>12 DEF BeginsInStep
  <2>15. g >= q - t0 - vv /\ g <= tq + y
    BY <2>3, <2>4, <2>5, <2>11, <2>12, <2>13, <2>14, LeadIsNatural
  <2>16. Zero(r.track) = tq
    BY <2>4, <2>7 DEF Zero
  <2>17. BeginsInStep(r.track)
    <3>1. r.track.input # 1
      BY <2>7, <2>8
    <3>2. t0 <= r.track.origin /\ r.track.origin <= now
      BY <1>2, <2>7, <2>8
    <3>3. r.track.base >= r.track.origin - t0 - r.track.behind
      BY <2>7, <2>15
    <3>4. r.track.base <= Zero(r.track) + (r.track.input - 1) * Lead
      BY <2>7, <2>13, <2>15, <2>16
    <3> QED
      BY <2>7, <3>1, <3>2, <3>3, <3>4 DEF BeginsInStep
  <2>18. InStep(r.track, r.written)
    <3>1. s.track.input <= r.track.input /\ s.track.behind <= r.track.behind
      BY <2>1, <2>5, <2>7, <2>8
    <3>2. InStep(r.track, s.written)
      BY <1>1, <2>7, <3>1, InStepWidens
    <3> QED
      BY <1>3, <3>2
  <2>19. Carries(s.track, r.track, q)
    <3> SUFFICES ASSUME NEW u \in Nat, q <= u
                 PROVE  Reached(r.track, u)
      BY DEF Carries
    <3>1. PICK d \in Int : d = TimelineTime(u) /\ tq <= d
      BY <2>4, TimelineIsInteger, TimeRises
    <3>2. 0 <= d - tq + Lead
      BY <3>1, LeadIsNatural
    <3> QED
      BY <2>7, <2>16, <3>1, <3>2 DEF Reached
  <2>20. 1 <= r.track.input
    BY <2>7, <2>8
  <2> QED
    BY <1>2, <1>3, <2>4, <2>7, <2>16, <2>17, <2>18, <2>19, <2>20 DEF InGoodStep, Begun
<1> QED
  BY <1>4, <1>5

(* One item, whatever it is.                                               *)
Fits(tl, item) ==
  /\ item.kind = "buffer" => Sound(tl, item.qpc) /\ (tl.input > 1 => tl.origin <= item.qpc)
  /\ item.kind = "migrate" =>
       /\ t0 <= item.qpc /\ item.qpc <= now /\ Outside(item.qpc)
       /\ tl.input < item.endpoint /\ Reached(tl, item.qpc)

LEMMA PlaceKeeps ==
  ASSUME AudioTypes, AnyPauses, Duration <= Period, t0 \in Nat, NEW s, InGoodStep(s),
         NEW item \in Items, Fits(s.track, item)
  PROVE  /\ InGoodStep(Place(s, item)) /\ Carries(s.track, Place(s, item).track, Reach(item))
         /\ item.kind # "migrate" => SameTimeline(s.track, Place(s, item).track)
         /\ item.kind = "migrate" => Begun(s.track, Place(s, item).track, item)
<1>1. item.kind \in {"tick", "buffer", "migrate"} /\ item.qpc \in Nat
  BY DEF Items
<1>2. CASE item.kind = "tick"
  <2>1. s \in AencStates /\ Reach(item) = item.qpc
    BY <1>1, <1>2 DEF InGoodStep, Reach
  <2>2. PICK r \in AencStates : r = Place(s, item) /\ r.written = s.written
                                /\ r.track = [s.track EXCEPT !.head = @ + Missing(s.track, item.qpc)]
    BY <1>2, <2>1, TickFields
  <2>3. InGoodStep(r) /\ SameTimeline(s.track, r.track) /\ Carries(s.track, r.track, item.qpc)
    BY <1>1, <2>2, FilledHeadKeeps
  <2> QED
    BY <1>2, <2>1, <2>2, <2>3
<1>3. CASE item.kind = "buffer"
  <2>1. Reach(item) = item.qpc + Duration
    BY <1>3 DEF Reach
  <2>2. Sound(s.track, item.qpc) /\ (s.track.input > 1 => s.track.origin <= item.qpc)
    BY <1>3 DEF Fits
  <2> QED
    BY <1>3, <2>1, <2>2, BufferKeeps
<1>4. CASE item.kind = "migrate"
  <2>1. Reach(item) = item.qpc
    BY <1>1, <1>4 DEF Reach
  <2>2. /\ t0 <= item.qpc /\ item.qpc <= now /\ Outside(item.qpc)
        /\ s.track.input < item.endpoint /\ Reached(s.track, item.qpc)
    BY <1>4 DEF Fits
  <2> QED
    BY <1>4, <2>1, <2>2, SeamKeeps
<1> QED
  BY <1>1, <1>2, <1>3, <1>4

-----------------------------------------------------------------------------
(* Types.                                                                  *)

Started == [track |-> [track EXCEPT !.started = TRUE, !.origin = t0], written |-> <<>>]

LEMMA TrackStarts ==
  ASSUME NEW tl \in TrackStates, NEW o \in Nat
  PROVE  /\ [tl EXCEPT !.started = TRUE, !.origin = o] \in TrackStates
         /\ [tl EXCEPT !.started = TRUE, !.origin = o].started
         /\ [tl EXCEPT !.started = TRUE, !.origin = o].origin = o
         /\ [tl EXCEPT !.started = TRUE, !.origin = o].base = tl.base
         /\ [tl EXCEPT !.started = TRUE, !.origin = o].head = tl.head
         /\ [tl EXCEPT !.started = TRUE, !.origin = o].input = tl.input
         /\ [tl EXCEPT !.started = TRUE, !.origin = o].excised = tl.excised
         /\ [tl EXCEPT !.started = TRUE, !.origin = o].behind = tl.behind
BY DEF TrackStates

LEMMA StartedFields ==
  ASSUME AudioTypes, t0 \in Nat
  PROVE  /\ Started \in AencStates /\ Started.written = <<>>
         /\ Started.track.started /\ Started.track.origin = t0 /\ Started.track.base = track.base
         /\ Started.track.head = track.head /\ Started.track.input = track.input
         /\ Started.track.excised = track.excised /\ Started.track.behind = track.behind
<1>1. track \in TrackStates
  BY DEF AudioTypes
<1>2. PICK tl \in TrackStates : tl = [track EXCEPT !.started = TRUE, !.origin = t0]
                       /\ tl.started /\ tl.origin = t0 /\ tl.base = track.base
                       /\ tl.head = track.head /\ tl.input = track.input
                       /\ tl.excised = track.excised /\ tl.behind = track.behind
  <2>1. [track EXCEPT !.started = TRUE, !.origin = t0] \in TrackStates
    BY <1>1, TrackStarts
  <2> QED
    BY <1>1, <2>1, TrackStarts
<1>3. Started = [track |-> tl, written |-> <<>>]
  BY <1>2 DEF Started
<1>4. <<>> \in Seq(Pieces)
  OBVIOUS
<1> QED
  BY <1>2, <1>3, <1>4 DEF AencStates

LEMMA PlacedTypes ==
  ASSUME AudioTypes, t0 \in Nat, NEW item \in Items
  PROVE  Placed(item) \in AencStates
<1>1. track \in TrackStates /\ held \in Seq(Items) /\ t0 \in Int
  BY DEF AudioTypes
<1>2. CASE track.started
  <2>1. [track |-> track, written |-> <<>>] \in AencStates
    BY <1>1 DEF AencStates
  <2>2. Placed(item) = Place([track |-> track, written |-> <<>>], item)
    BY <1>2 DEF Placed
  <2> QED
    BY <1>1, <2>1, <2>2, PlaceTypes
<1>3. CASE ~track.started
  <2> DEFINE items == Append(held, item)
  <2>1. items \in Seq(Items) /\ Len(items) \in Nat
    BY <1>1, AppendProperties
  <2>2. Placed(item) = Replayed(Started, items)
    BY <1>3 DEF Placed, Started
  <2> HIDE DEF items
  <2>3. PICK G : G = [n \in Nat |-> AencStates]
    OBVIOUS
  <2>4. Started \in G[0]
    BY <2>3, StartedFields
  <2>5. ASSUME NEW n \in 1 .. Len(items), NEW s \in G[n - 1]
        PROVE  Place(s, items[n]) \in G[n]
    <3>1. items[n] \in Items /\ n \in Nat /\ n - 1 \in Nat
      BY <2>1
    <3>2. s \in AencStates
      BY <2>3, <3>1
    <3> QED
      BY <1>1, <2>3, <3>1, <3>2, PlaceTypes
  <2>6. Replayed(Started, items) \in G[Len(items)]
    BY <2>1, <2>4, <2>5, ReplayKeeps
  <2> QED
    BY <2>1, <2>2, <2>3, <2>6
<1> QED
  BY <1>2, <1>3

Bounded == now <= MaxNow /\ Len(queue) <= Capacity /\ Len(held) <= Capacity

LEMMA PopTypes ==
  ASSUME AudioTypes, Bounded, AencPops
  PROVE  AudioTypes' /\ Bounded'
<1>1. /\ queue \in Seq(Items) /\ held \in Seq(Items) /\ queue # <<>> /\ queue' = Tail(queue)
      /\ Capacity \in Nat /\ Capacity # 0 /\ Len(held) <= Capacity /\ Len(queue) <= Capacity
  BY Numbers DEF AudioTypes, AencPops, Bounded
<1>2. Head(queue) \in Items /\ queue' \in Seq(Items) /\ Len(queue') = Len(queue) - 1
      /\ Len(queue) \in Nat
  BY <1>1, HeadTailProperties
<1>3. PICK item \in Items : item = Head(queue)
  BY <1>2
<1>4. held' \in Seq(Items) /\ Len(held') <= Capacity /\ track' \in TrackStates /\ written' \in Seq(Pieces)
  <2>1. CASE t0 = None
    <3>1. held' = Append(IF Len(held) >= Capacity THEN Tail(held) ELSE held, item)
          /\ UNCHANGED <<track, written>>
      BY <1>3, <2>1 DEF AencPops, Hold
    <3>4. track' \in TrackStates /\ written' \in Seq(Pieces)
      BY <3>1 DEF AudioTypes
    <3>2. CASE Len(held) >= Capacity
      <4>1. held # <<>>
        BY <1>1, <3>2, EmptySeq
      <4>2. Tail(held) \in Seq(Items) /\ Len(Tail(held)) = Len(held) - 1
        BY <1>1, <4>1, HeadTailProperties
      <4>3. held' = Append(Tail(held), item)
        BY <3>1, <3>2
      <4>4. held' \in Seq(Items) /\ Len(held') = Len(Tail(held)) + 1
        BY <4>2, <4>3, AppendProperties
      <4>5. Len(held) \in Nat
        BY <1>1
      <4>6. Len(held') = Len(held)
        BY <4>2, <4>4, <4>5
      <4> QED
        BY <1>1, <3>4, <4>4, <4>6
    <3>3. CASE ~(Len(held) >= Capacity)
      <4>1. held' = Append(held, item)
        BY <3>1, <3>3
      <4>2. held' \in Seq(Items) /\ Len(held') = Len(held) + 1 /\ Len(held) \in Nat
        BY <1>1, <4>1, AppendProperties
      <4> QED
        BY <1>1, <3>3, <3>4, <4>2
    <3> QED
      BY <3>2, <3>3
  <2>2. CASE t0 # None
    <3>1. t0 \in Nat
      BY <2>2 DEF AudioTypes, None
    <3>2. PICK r \in AencStates : r = Placed(item)
      BY <3>1, PlacedTypes
    <3>3. track' = r.track /\ written' = r.written /\ held' = IF track.started THEN held ELSE <<>>
      BY <1>3, <2>2, <3>2 DEF AencPops, Process
    <3>4. <<>> \in Seq(Items) /\ Len(<<>>) = 0
      OBVIOUS
    <3>5. r.track \in TrackStates /\ r.written \in Seq(Pieces)
      BY DEF AencStates
    <3>6. held' \in Seq(Items) /\ Len(held') <= Capacity
      BY <1>1, <3>3, <3>4
    <3> QED
      BY <3>3, <3>5, <3>6
  <2> QED
    BY <2>1, <2>2
<1>5. UNCHANGED <<now, epochVars, clock, threads, pathVars, queueOpen, aenc, bounds>>
  BY DEF AencPops
<1> QED
  BY <1>1, <1>2, <1>4, <1>5 DEF AudioTypes, Bounded, epochVars, threads, pathVars, bounds

LEMMA PushTypes ==
  ASSUME AudioTypes, Bounded, NEW item \in Items, HasRoom, Push(item)
  PROVE  queue' \in Seq(Items) /\ Len(queue') <= Capacity
<1>1. queue \in Seq(Items) /\ Len(queue) \in Nat /\ Len(queue) <= Capacity /\ Capacity \in Nat
  BY Numbers DEF AudioTypes, Bounded
<1>2. CASE queueOpen
  <2>1. queue' = Append(queue, item) /\ Len(queue) < Capacity
    BY <1>2 DEF Push, HasRoom
  <2>2. queue' \in Seq(Items) /\ Len(queue') = Len(queue) + 1
    BY <1>1, <2>1, AppendProperties
  <2> QED
    BY <1>1, <2>1, <2>2
<1>3. CASE ~queueOpen
  BY <1>1, <1>3 DEF Push
<1> QED
  BY <1>2, <1>3

LEMMA Clocks ==
  ASSUME AudioTypes
  PROVE  /\ now \in Nat /\ packets \in Nat /\ lastEnd \in Nat /\ pauses \in Nat /\ lastOffer \in Int
         /\ video = None \/ (video \in Nat /\ video <= now)
         /\ audio = None \/ (audio \in Nat /\ audio <= now)
         /\ t0 = None \/ (t0 \in Nat /\ t0 <= now)
BY DEF AudioTypes

LEMMA Threads ==
  ASSUME AudioTypes
  PROVE  /\ capture \in [at : {"idle", "noted", "pushing", "off"}, endpoint : Nat \ {0},
                         item : Items \cup {NoItem}]
         /\ owner \in [at : {"opening", "idle", "migrate", "seam", "joinCapture", "joinSilence",
                             "joinAenc", "done", "timedOut"}, seam : Nat]
BY DEF AudioTypes

LEMMA EpochIsPast ==
  ASSUME NEW n \in Nat, NEW frame, NEW packet,
         frame = None \/ (frame \in Nat /\ frame <= n), packet = None \/ (packet \in Nat /\ packet <= n),
         t0 = None \/ (t0 \in Nat /\ t0 <= n), lastOffer \in Int, SetEpoch(frame, packet)
  PROVE  (t0' = None \/ (t0' \in Nat /\ t0' <= n)) /\ lastOffer' \in Int
BY DEF SetEpoch, Later, None

LEMMA TypesStep ==
  ASSUME AudioTypes, Bounded, [Next]_vars
  PROVE  AudioTypes' /\ Bounded'
<1> USE Numbers DEF None
<1>0. NoItem \in Items \cup {NoItem}
  OBVIOUS
<1>1. CASE Tick
  <2>1. now' = now + 1 /\ now + 1 <= MaxNow /\ now \in Nat
    <3>1. now < MaxNow /\ now' = now + 1
      BY <1>1 DEF Tick
    <3> QED
      BY <3>1, Clocks
  <2>2. PICK p \in Nat : p = now' /\ p = now + 1 /\ p <= MaxNow
    BY <2>1
  <2>3. {video, audio, t0} \subseteq {None} \cup 0 .. p
    BY <2>1, <2>2, Clocks
  <2>4. UNCHANGED <<epochVars, clock, threads, pathVars, queue, queueOpen, aencVars, bounds>>
    BY <1>1 DEF Tick
  <2> QED
    BY <2>2, <2>3, <2>4 DEF AudioTypes, Bounded, epochVars, threads, pathVars, aencVars, bounds
<1>2. CASE NoteVideo
  <2>1. {video', audio', t0'} \subseteq {None} \cup 0 .. now /\ lastOffer' \in Int
    <3>1. video' = now /\ audio' = audio /\ SetEpoch(now, audio)
      BY <1>2 DEF NoteVideo
    <3>2. (t0' = None \/ (t0' \in Nat /\ t0' <= now)) /\ lastOffer' \in Int
      BY <3>1, Clocks, EpochIsPast
    <3> QED
      BY <3>1, <3>2, Clocks
  <2>2. UNCHANGED <<now, audio, clock, threads, opened, stopped, queue, queueOpen, aencVars, bounds>>
    BY <1>2 DEF NoteVideo
  <2> QED
    BY <2>1, <2>2 DEF AudioTypes, Bounded, threads, aencVars, bounds
<1>3. CASE Pause
  <2>1. clock' = [clock EXCEPT !.paused = TRUE, !.begin = now] /\ pauses' = pauses + 1
    BY <1>3 DEF Pause
  <2>2. clock' \in [paused : BOOLEAN, begin : Nat, total : Nat, lastBegin : Nat, lastSpan : Nat]
    BY <2>1 DEF AudioTypes
  <2>5. clock'.lastSpan <= clock'.total
    BY <2>1 DEF AudioTypes
  <2>3. pauses' \in Nat
    BY <2>1, Clocks
  <2>4. UNCHANGED <<now, epochVars, threads, pathVars, queue, queueOpen, aencVars, packets, lastEnd>>
    BY <1>3 DEF Pause
  <2> QED
    BY <2>2, <2>3, <2>4, <2>5 DEF AudioTypes, Bounded, epochVars, threads, pathVars, aencVars
<1>4. CASE Resume
  <2>1. PICK b \in Nat, t \in Nat, n \in Nat :
          clock.begin = b /\ clock.total = t /\ now = n /\ n > b
    BY <1>4 DEF AudioTypes, Resume
  <2>2. PICK x \in Nat, y \in Nat : x = t + n - b /\ y = n - b /\ y <= x
    BY <2>1
  <2>3. clock' = [paused |-> FALSE, begin |-> b, total |-> x, lastBegin |-> b, lastSpan |-> y]
    BY <1>4, <2>1, <2>2 DEF Resume
  <2>4. /\ clock' \in [paused : BOOLEAN, begin : Nat, total : Nat, lastBegin : Nat, lastSpan : Nat]
        /\ clock'.lastSpan <= clock'.total
    BY <2>2, <2>3
  <2>5. UNCHANGED <<now, epochVars, threads, pathVars, queue, queueOpen, aencVars, bounds>>
    BY <1>4 DEF Resume
  <2> QED
    BY <2>4, <2>5 DEF AudioTypes, Bounded, epochVars, threads, pathVars, aencVars, bounds
<1>5. CASE Offers
  <2>1. capture' \in [at : {"idle", "noted", "pushing", "off"}, endpoint : Nat \ {0}, item : Items \cup {NoItem}]
    BY <1>5 DEF AudioTypes, Offers
  <2>2. capture'.at \in {"noted", "pushing"} => capture'.item \in Items
    BY <1>5 DEF AudioTypes, Offers
  <2>3. lastOffer' \in Int
    <3>1. CASE opened /\ ~stopped
      <4>1. capture.item \in Items /\ lastOffer' = capture.item.qpc
        BY <1>5, <3>1 DEF AudioTypes, Offers
      <4> QED
        BY <4>1 DEF Items
    <3>2. CASE ~(opened /\ ~stopped)
      BY <1>5, <3>2 DEF AudioTypes, Offers
    <3> QED
      BY <3>1, <3>2
  <2>4. UNCHANGED <<now, epochVars, clock, silence, owner, opened, stopped, queue, queueOpen, aencVars,
                    bounds>>
    BY <1>5 DEF Offers
  <2> QED
    BY <2>1, <2>2, <2>3, <2>4 DEF AudioTypes, Bounded, epochVars, aencVars, bounds
<1>6. CASE SilenceLooks
  BY <1>6 DEF AudioTypes, Bounded, SilenceLooks, SilenceDue, epochVars, threads, pathVars, aencVars, bounds
<1>7. CASE SilenceEnds
  BY <1>7 DEF AudioTypes, Bounded, SilenceEnds, epochVars, threads, pathVars, aencVars, bounds
<1>8. CASE AencEnds
  BY <1>8 DEF AudioTypes, Bounded, AencEnds, epochVars, threads, pathVars, aencVars, bounds
<1>9. CASE OpenEncode
  BY <1>9 DEF AudioTypes, Bounded, OpenEncode, epochVars, threads, pathVars, aencVars, bounds
<1>10. CASE MigrateBegins
  BY <1>10 DEF AudioTypes, Bounded, MigrateBegins, OwnerOnly, epochVars, threads, pathVars, aencVars, bounds
<1>11. CASE MigrateReopens
  <2>1. capture' \in [at : {"idle", "noted", "pushing", "off"}, endpoint : Nat \ {0}, item : Items \cup {NoItem}]
        /\ capture'.at \notin {"noted", "pushing"}
    BY <1>11, Threads DEF MigrateReopens
  <2>2. owner' \in [at : {"opening", "idle", "migrate", "seam", "joinCapture", "joinSilence",
                       "joinAenc", "done", "timedOut"}, seam : Nat]
    BY <1>11, Threads, Clocks DEF MigrateReopens
  <2>3. lastEnd' \in Nat
    BY <1>11, Clocks DEF MigrateReopens
  <2>4. UNCHANGED <<now, epochVars, clock, silence, pathVars, queue, queueOpen, aencVars, packets, pauses>>
    BY <1>11 DEF MigrateReopens
  <2> QED
    BY <2>1, <2>2, <2>3, <2>4 DEF AudioTypes, Bounded, epochVars, pathVars, aencVars
<1>12. CASE StopBegins
  BY <1>12 DEF AudioTypes, Bounded, StopBegins, OwnerOnly, epochVars, threads, pathVars, aencVars, bounds
<1>13. CASE StopJoinsCapture
  BY <1>13 DEF AudioTypes, Bounded, StopJoinsCapture, OwnerOnly, epochVars, threads, pathVars, aencVars, bounds
<1>14. CASE StopJoinsSilence
  BY <1>14 DEF AudioTypes, Bounded, StopJoinsSilence, epochVars, threads, pathVars, aencVars, bounds
<1>15. CASE StopJoinsAenc
  <2>1. owner' \in [at : {"opening", "idle", "migrate", "seam", "joinCapture", "joinSilence",
                       "joinAenc", "done", "timedOut"}, seam : Nat]
    BY <1>15 DEF AudioTypes, StopJoinsAenc
  <2>2. held' \in Seq(Items) /\ Len(held') <= Capacity
    <3>1. <<>> \in Seq(Items) /\ Len(<<>>) = 0
      OBVIOUS
    <3>2. held' = <<>> \/ held' = held
      BY <1>15 DEF StopJoinsAenc
    <3>3. held \in Seq(Items) /\ Len(held) <= Capacity
      BY DEF AudioTypes, Bounded
    <3>4. CASE held' = <<>>
      <4>1. Len(held') = 0 /\ held' \in Seq(Items)
        BY <3>1, <3>4
      <4> QED
        BY <4>1
    <3>5. CASE held' = held
      BY <3>3, <3>5
    <3> QED
      BY <3>2, <3>4, <3>5
  <2>3. UNCHANGED <<now, epochVars, clock, capture, silence, pathVars, queue, queueOpen, aenc, track,
                    written, bounds>>
    BY <1>15 DEF StopJoinsAenc
  <2> QED
    BY <2>1, <2>2, <2>3 DEF AudioTypes, Bounded, epochVars, pathVars, bounds
<1>16. ASSUME NEW qpc \in 0 .. MaxNow, Delivers(qpc)
       PROVE  AudioTypes' /\ Bounded'
  <2>1. qpc \in Nat /\ now \in Nat /\ qpc <= now
    <3>1. qpc + Duration \in now - Jitter .. now
      BY <1>16 DEF Delivers
    <3> QED
      BY <3>1, Clocks
  <2>2. {audio', t0'} \subseteq {None} \cup 0 .. now /\ lastOffer' \in Int
    <3>1. CASE audio = None /\ capture.endpoint = 1
      <4>1. audio' = qpc /\ SetEpoch(video, qpc)
        BY <1>16, <3>1 DEF Delivers
      <4>2. (t0' = None \/ (t0' \in Nat /\ t0' <= now)) /\ lastOffer' \in Int
        BY <2>1, <4>1, Clocks, EpochIsPast
      <4> QED
        BY <2>1, <4>1, <4>2
    <3>2. CASE ~(audio = None /\ capture.endpoint = 1)
      <4>1. UNCHANGED <<audio, t0, lastOffer>>
        BY <1>16, <3>2 DEF Delivers
      <4> QED
        BY <4>1, Clocks
    <3> QED
      BY <3>1, <3>2
  <2>3. PICK e \in Nat \ {0} : e = capture.endpoint
    BY DEF AudioTypes
  <2>4. Packet(qpc, e) \in Items
    BY <2>1 DEF Packet, Items
  <2>5. PICK item \in Items : item = Packet(qpc, e)
    BY <2>4
  <2>6. capture' = [capture EXCEPT !.at = "noted", !.item = item]
    BY <1>16, <2>3, <2>5 DEF Delivers
  <2>7. capture' \in [at : {"idle", "noted", "pushing", "off"}, endpoint : Nat \ {0}, item : Items \cup {NoItem}]
        /\ (capture'.at \in {"noted", "pushing"} => capture'.item \in Items)
    BY <2>6 DEF AudioTypes
  <2>8. {packets', lastEnd'} \subseteq Nat
    <3>1. packets' = packets + 1 /\ lastEnd' = Later(lastEnd, qpc + Duration)
      BY <1>16 DEF Delivers
    <3> QED
      BY <2>1, <3>1, Clocks DEF Later
  <2>9. UNCHANGED <<now, video, clock, silence, owner, opened, stopped, queue, queueOpen, aencVars, pauses>>
    BY <1>16 DEF Delivers
  <2> QED
    BY <2>2, <2>7, <2>8, <2>9 DEF AudioTypes, Bounded, aencVars
<1>17. CASE CapturePushes
  <2>1. capture.item \in Items
    BY <1>17 DEF AudioTypes, CapturePushes
  <2>2. queue' \in Seq(Items) /\ Len(queue') <= Capacity
    BY <1>17, <2>1, PushTypes DEF CapturePushes
  <2> QED
    BY <1>17, <2>2 DEF AudioTypes, Bounded, CapturePushes, epochVars, pathVars, aencVars, bounds
<1>18. CASE SilencePushes
  <2>1. SilenceTick(silence.qpc) \in Items
    BY DEF AudioTypes, SilenceTick, Items
  <2>2. queue' \in Seq(Items) /\ Len(queue') <= Capacity
    BY <1>18, <2>1, PushTypes DEF SilencePushes
  <2> QED
    BY <1>18, <2>2 DEF AudioTypes, Bounded, SilencePushes, epochVars, pathVars, aencVars, bounds
<1>19. CASE MigratePushes
  <2>1. MigrateInput(owner.seam, capture.endpoint) \in Items
    BY DEF AudioTypes, MigrateInput, Items
  <2>2. queue' \in Seq(Items) /\ Len(queue') <= Capacity
    BY <1>19, <2>1, PushTypes DEF MigratePushes
  <2> QED
    BY <1>19, <2>2 DEF AudioTypes, Bounded, MigratePushes, epochVars, pathVars, aencVars, bounds
<1>20. CASE AencPops
  BY <1>20, PopTypes
<1>22. CASE SilenceFails
  BY <1>22 DEF AudioTypes, Bounded, SilenceFails, epochVars, threads, pathVars, aencVars, bounds
<1>23. CASE AencFails
  BY <1>23 DEF AudioTypes, Bounded, AencFails, epochVars, threads, pathVars, aencVars, bounds
<1>21. CASE UNCHANGED vars
  BY <1>21 DEF AudioTypes, Bounded, vars, epochVars, threads, pathVars, aencVars, bounds
<1> QED
  BY <1>1, <1>2, <1>3, <1>4, <1>5, <1>6, <1>7, <1>8, <1>9, <1>10, <1>11, <1>12, <1>13, <1>14, <1>15,
     <1>16, <1>17, <1>18, <1>19, <1>20, <1>21, <1>22, <1>23 DEF Next, Capture, Silence, Aenc, Owner

LEMMA TypesInitially ==
  Init => AudioTypes /\ Bounded
<1> SUFFICES ASSUME Init
             PROVE  AudioTypes /\ Bounded
  OBVIOUS
<1>1. track \in TrackStates
  BY DEF Init, TrackStates
<1>2. <<>> \in Seq(Items) /\ <<>> \in Seq(Pieces) /\ Len(<<>>) = 0
  OBVIOUS
<1>3. /\ clock \in [paused : BOOLEAN, begin : Nat, total : Nat, lastBegin : Nat, lastSpan : Nat]
      /\ clock.lastSpan <= clock.total
  BY DEF Init
<1>4. Bounded
  BY <1>2, Numbers DEF Init, Bounded
<1>5. /\ capture \in [at : {"idle", "noted", "pushing", "off"}, endpoint : Nat \ {0},
                       item : Items \cup {NoItem}]
      /\ capture.at = "idle"
  BY DEF Init
<1>6. /\ owner \in [at : {"opening", "idle", "migrate", "seam", "joinCapture", "joinSilence",
                          "joinAenc", "done", "timedOut"}, seam : Nat]
      /\ silence \in [at : {"none", "waiting", "pushing", "ended"}, qpc : Nat]
  BY DEF Init
<1>7. /\ now \in Nat /\ {video, audio, t0} \subseteq {None} \cup 0 .. now
      /\ {opened, stopped, queueOpen} \subseteq BOOLEAN
      /\ {packets, lastEnd, pauses} \subseteq Nat /\ lastOffer \in Int
      /\ aenc \in {"none", "running", "ended", "failed"}
  <2>1. now = 0 /\ 0 \in Nat /\ video = None /\ audio = None /\ t0 = None
    BY DEF Init
  <2>2. opened = FALSE /\ stopped = FALSE /\ queueOpen = TRUE /\ aenc = "none"
    BY DEF Init
  <2>3. packets = 0 /\ lastEnd = 0 /\ pauses = 0 /\ lastOffer = 0
    BY DEF Init
  <2>4. now \in Nat /\ {packets, lastEnd, pauses} \subseteq Nat /\ lastOffer \in Int
    BY <2>1, <2>3
  <2>5. {video, audio, t0} \subseteq {None} \cup 0 .. now
    BY <2>1
  <2>6. {opened, stopped, queueOpen} \subseteq BOOLEAN /\ aenc \in {"none", "running", "ended", "failed"}
    BY <2>2
  <2> QED
    BY <2>4, <2>5, <2>6
<1>8. queue \in Seq(Items) /\ held \in Seq(Items) /\ written \in Seq(Pieces)
  BY <1>2 DEF Init
<1> QED
  BY <1>1, <1>3, <1>4, <1>5, <1>6, <1>7, <1>8 DEF AudioTypes

(* The types, and the bounds of the queue and of what is held before the   *)
(* epoch (AudioEncodePath: kAudioQueueCapacity), for every value of the    *)
(* constants.                                                              *)
THEOREM AudioTypeCorrect == Spec => []TypeOK
<1>1. AudioTypes /\ Bounded => TypeOK
  <2> SUFFICES ASSUME AudioTypes, Bounded
               PROVE  TypeOK
    OBVIOUS
  <2>1. now \in 0 .. MaxNow /\ {video, audio, t0} \subseteq {None} \cup 0 .. MaxNow
    <3>1. now <= MaxNow /\ MaxNow \in Nat
      BY Numbers DEF Bounded
    <3> QED
      BY <3>1, Clocks
  <2>2. {track.origin, track.base, track.head, track.excised, track.behind} \subseteq Nat
    BY DEF AudioTypes, TrackStates
  <2>3. {opened, stopped, queueOpen, track.started, clock.paused} \subseteq BOOLEAN
    BY DEF AudioTypes, TrackStates
  <2>4. silence.at \in {"none", "waiting", "pushing", "ended"} /\ aenc \in {"none", "running", "ended", "failed"}
    BY DEF AudioTypes
  <2> QED
    BY <2>1, <2>2, <2>3, <2>4, Threads DEF Bounded, TypeOK
<1>2. (AudioTypes /\ Bounded) /\ [Next]_vars => (AudioTypes /\ Bounded)'
  BY TypesStep
<1> QED
  BY TypesInitially, <1>1, <1>2, PTL DEF Spec

-----------------------------------------------------------------------------
(* The steps that do not pop the queue.                                    *)

Undisturbed == Duration <= Period /\ RaceNames \subseteq Excluded

(* What every step keeps of the clocks.                                    *)
LEMMA TimeGoesOn ==
  ASSUME AudioTypes, [Next]_vars
  PROVE  /\ now' \in Nat /\ now <= now'
         /\ t0 # None => t0' = t0
         /\ now' # now => Tick
         /\ UNCHANGED <<clock, pauses>> \/ Pause \/ Resume
<1> USE Clocks
<1>1. CASE Tick
  <2>1. now' = now + 1 /\ UNCHANGED <<t0, clock, pauses>>
    BY <1>1 DEF Tick, epochVars, bounds
  <2> QED
    BY <1>1, <2>1
<1>2. CASE NoteVideo
  BY <1>2 DEF NoteVideo, SetEpoch, bounds
<1>3. CASE Pause
  BY <1>3 DEF Pause, epochVars
<1>4. CASE Resume
  BY <1>4 DEF Resume, epochVars
<1>5. ASSUME NEW qpc \in 0 .. MaxNow, Delivers(qpc)
      PROVE  now' = now /\ (t0 # None => t0' = t0) /\ UNCHANGED <<clock, pauses>>
  BY <1>5 DEF Delivers, SetEpoch
<1>6. CASE Offers \/ CapturePushes
  BY <1>6 DEF Offers, CapturePushes, epochVars, bounds
<1>7. CASE Silence
  BY <1>7 DEF Silence, SilenceLooks, SilencePushes, SilenceEnds, epochVars, bounds
<1>8. CASE Aenc
  BY <1>8 DEF Aenc, AencPops, AencEnds, epochVars, bounds
<1>9. CASE OpenEncode \/ MigrateBegins \/ StopBegins
  BY <1>9 DEF OpenEncode, MigrateBegins, StopBegins, OwnerOnly, epochVars, bounds
<1>10. CASE Owner
  BY <1>10 DEF Owner, MigrateReopens, MigratePushes, StopJoinsCapture, StopJoinsSilence, StopJoinsAenc,
               OwnerOnly, epochVars, bounds
<1>12. CASE SilenceFails \/ AencFails
  BY <1>12 DEF SilenceFails, AencFails, epochVars, bounds
<1>11. CASE UNCHANGED vars
  BY <1>11 DEF vars, epochVars, bounds
<1> QED
  BY <1>1, <1>2, <1>3, <1>4, <1>5, <1>6, <1>7, <1>8, <1>9, <1>10, <1>11, <1>12 DEF Next, Capture

LEMMA AnyPausesStep ==
  ASSUME AudioTypes, AnyPauses, AudioTypes', [Next]_vars
  PROVE  AnyPauses'
<1>1. /\ now \in Nat /\ now' \in Nat /\ now <= now' /\ (t0 # None => t0' = t0) /\ pauses \in Nat
      /\ clock.begin \in Nat /\ clock.lastBegin \in Nat /\ clock.lastSpan \in Nat
  BY TimeGoesOn, Clocks, ClockFields
<1>2. CASE Pause
  <2>1. /\ t0 # None /\ pauses' = pauses + 1 /\ now' = now
        /\ clock'.paused = TRUE /\ clock'.begin = now
        /\ clock'.lastBegin = clock.lastBegin /\ clock'.lastSpan = clock.lastSpan
    BY <1>2 DEF Pause, AudioTypes
  <2>2. pauses' # 0
    BY <1>1, <2>1
  <2> QED
    BY <1>1, <2>1, <2>2 DEF AnyPauses, LastResumed
<1>3. CASE Resume
  <2>1. /\ clock.paused /\ now > clock.begin /\ pauses' = pauses /\ now' = now
        /\ clock'.paused = FALSE
        /\ clock'.lastBegin = clock.begin /\ clock'.lastSpan = now - clock.begin
    BY <1>3 DEF Resume, bounds
  <2>2. pauses # 0 /\ t0 # None
    BY <2>1 DEF AnyPauses
  <2> QED
    BY <1>1, <2>1, <2>2 DEF AnyPauses, LastResumed
<1>4. CASE UNCHANGED <<clock, pauses>>
  BY <1>1, <1>4 DEF AnyPauses, LastResumed
<1> QED
  BY <1>2, <1>3, <1>4, TimeGoesOn

(* What is on its way when a pause begins was recorded after the last one. *)
LEMMA PausedFresh ==
  ASSUME Undisturbed, AudioTypes, AnyPauses, Pause, NEW q \in Nat, q \in Waiting \/ q \in Recent
  PROVE  LastResumed <= q
<1>1. CASE pauses = 0
  BY <1>1 DEF AnyPauses, LastResumed
<1>2. CASE pauses # 0
  <2>1. NothingIsOld /\ pauses > 0
    BY <1>2, Clocks DEF Pause, Undisturbed, RaceNames
  <2>2. now - Jitter - Duration >= LastResumed /\ \A qpc \in Waiting : qpc >= LastResumed
    BY <2>1 DEF NothingIsOld
  <2>3. LastResumed \in Nat
    BY ClockFields DEF LastResumed
  <2>4. CASE q \in Waiting
    BY <2>2, <2>3, <2>4
  <2>5. CASE q \in Recent
    BY <2>2, <2>3, <2>5, Clocks, Numbers DEF Recent
  <2> QED
    BY <2>4, <2>5
<1> QED
  BY <1>1, <1>2

(* No step moves a moment of the past on the recording's timeline.         *)
LEMMA TimeKept ==
  ASSUME AudioTypes, AudioTypes', AnyPauses, [Next]_vars, t0 \in Nat, NEW q \in Nat,
         q <= now \/ UNCHANGED clock, Pause => LastResumed <= q
  PROVE  TimelineTime(q)' = TimelineTime(q)
<1>1. t0' = t0 /\ now \in Nat
  BY TimeGoesOn, Clocks DEF None
<1>2. PICK n \in Nat, b \in Nat, t \in Nat, lb \in Nat, ls \in Nat, w \in Nat :
        /\ n = t0 /\ clock.begin = b /\ clock.total = t
        /\ clock.lastBegin = lb /\ clock.lastSpan = ls /\ w = now
  BY <1>1, ClockFields
<1>3. LastResumed = lb + ls
  BY <1>2 DEF LastResumed
<1>4. CASE Pause
  <2>1. ~clock.paused /\ q <= w /\ lb + ls <= q
    <3>1. clock'.paused = TRUE /\ ~clock.paused
      BY <1>4 DEF Pause, AudioTypes
    <3> QED
      BY <1>2, <1>3, <1>4, <3>1
  <2>2. TimelineTime(q) = q - n - t
    BY <1>2, <1>3, <2>1, TimelineForm
  <2>3. clock'.paused = TRUE /\ clock'.begin = w /\ clock'.total = t
    BY <1>2, <1>4 DEF Pause, AudioTypes
  <2>4. TimelineTime(q)' = q - n - t + (IF q >= w THEN w - q ELSE 0)
    BY <1>1, <1>2, <2>3 DEF TimelineTime
  <2> QED
    BY <2>1, <2>2, <2>4
<1>5. CASE Resume
  <2>1. clock.paused /\ w > b /\ q <= w /\ lb + ls <= b
    <3>1. clock'.paused = FALSE /\ clock.paused /\ now > clock.begin
      BY <1>5 DEF Resume
    <3> QED
      BY <1>2, <1>3, <3>1 DEF AnyPauses
  <2>2. TimelineTime(q) = IF q >= b THEN b - n - t ELSE q - n - t
    BY <1>2, <2>1, TimelineForm
  <2>3. PICK x \in Nat, y \in Nat : x = t + w - b /\ y = w - b
    BY <2>1
  <2>4. clock'.paused = FALSE /\ clock'.total = x /\ clock'.lastBegin = b /\ clock'.lastSpan = y
    BY <1>2, <1>5, <2>3 DEF Resume
  <2>5. TimelineTime(q)' = q - n - x + (CASE q < b -> y [] q \in b .. b + y -> b + y - q [] OTHER -> 0)
    BY <1>1, <1>2, <2>4 DEF TimelineTime
  <2>6. TimelineTime(q)' = IF q < b THEN q - n - x + y ELSE q - n - x + (b + y - q)
    <3>1. b + y = w
      BY <2>1, <2>3
    <3> QED
      BY <2>1, <2>5, <3>1
  <2> QED
    BY <2>1, <2>2, <2>3, <2>6
<1>6. CASE UNCHANGED <<clock, pauses>>
  BY <1>1, <1>6 DEF TimelineTime
<1> QED
  BY <1>4, <1>5, <1>6, TimeGoesOn

LEMMA SoundStays ==
  ASSUME AudioTypes, AudioTypes', AnyPauses, TrackInStep, [Next]_vars, track' = track,
         NEW q \in Nat, q <= now \/ UNCHANGED clock, Pause => LastResumed <= q, Sound(track, q)
  PROVE  Sound(track, q)'
<1>1. CASE t0 # None
  <2>1. t0 \in Nat /\ t0' = t0
    BY <1>1, TimeGoesOn, Clocks
  <2>2. TimelineTime(q)' = TimelineTime(q)
    BY <2>1, TimeKept
  <2> QED
    BY <2>1, <2>2 DEF Sound, From, Zero
<1>2. CASE t0 = None
  <2>1. ~Pause /\ ~Resume /\ ~track.started
    BY <1>2 DEF AnyPauses, TrackInStep, Pause, Resume
  <2>2. UNCHANGED clock
    BY <2>1, TimeGoesOn
  <2>3. ~clock.paused /\ clock.total = 0 /\ clock.lastBegin = 0 /\ clock.lastSpan = 0
    BY <1>2 DEF AnyPauses
  <2> SUFFICES ASSUME t0' # None, t0' <= q
               PROVE  0 <= TimelineTime(q)'
    BY <2>1 DEF Sound, From, Zero
  <2>4. PICK n \in Nat : n = t0' /\ n <= q
    <3>1. t0' \in {None} \cup 0 .. now' /\ now' \in Nat
      BY DEF AudioTypes
    <3> QED
      BY <3>1
  <2>5. TimelineTime(q)' = q - n - 0 + (CASE q < 0 -> 0 [] q \in 0 .. 0 -> 0 - q [] OTHER -> 0)
    BY <2>2, <2>3, <2>4 DEF TimelineTime
  <2> QED
    BY <2>4, <2>5
<1> QED
  BY <1>1, <1>2

LEMMA ReachedStays ==
  ASSUME AudioTypes, AudioTypes', AnyPauses, [Next]_vars, track' = track, t0 \in Nat,
         NEW q \in Nat, q <= now \/ UNCHANGED clock, Pause => LastResumed <= q, Reached(track, q)
  PROVE  Reached(track, q)'
<1>1. t0' = t0
  BY TimeGoesOn DEF None
<1>2. TimelineTime(q)' = TimelineTime(q)
  BY TimeKept
<1> QED
  BY <1>1, <1>2 DEF Reached, Zero

(* Where neither the clock nor the epoch moves.                            *)
LEMMA NothingMoves ==
  ASSUME UNCHANGED <<clock, t0, track>>, NEW q
  PROVE  /\ Sound(track, q)' = Sound(track, q) /\ Reached(track, q)' = Reached(track, q)
         /\ Outside(q)' = Outside(q)
BY DEF Sound, Reached, From, Zero, TimelineTime, Outside, DuringAPause

(* What lies outside the pauses stays there, unless one begins before it.  *)
LEMMA StaysOutside ==
  ASSUME AudioTypes, [Next]_vars, NEW q \in Nat,
         Outside(q), Pause => q < now \/ q = 0
  PROVE  Outside(q)'
<1>1. CASE Pause
  <2>1. /\ clock'.paused = TRUE /\ clock'.begin = now
        /\ clock'.lastBegin = clock.lastBegin /\ clock'.lastSpan = clock.lastSpan
    BY <1>1 DEF Pause, AudioTypes
  <2> QED
    BY <1>1, <2>1 DEF Outside, DuringAPause
<1>2. CASE Resume
  <2>1. clock.paused /\ clock'.paused = FALSE /\ clock'.lastBegin = clock.begin
    BY <1>2 DEF Resume
  <2>2. q # 0 => ~DuringAPause(q)'
    BY <2>1, ClockFields DEF Outside, DuringAPause
  <2> QED
    BY <2>1, <2>2 DEF Outside, DuringAPause
<1>3. CASE UNCHANGED <<clock, pauses>>
  BY <1>3 DEF Outside, DuringAPause
<1> QED
  BY <1>1, <1>2, <1>3, TimeGoesOn

Elsewhere ==
  /\ track' = track /\ written' = written
  /\ held' = held \/ held' = <<>>
  /\ MigrateReopens \/ (owner'.seam = owner.seam /\ capture'.endpoint = capture.endpoint)
  /\ owner'.at = "seam" => owner.at = "seam" \/ MigrateReopens
  /\ owner'.at = "migrate" => owner.at = "migrate" \/ MigrateBegins
  /\ queue' = queue \/ CapturePushes \/ SilencePushes \/ MigratePushes
  /\ MigrateReopens \/ lastEnd <= lastEnd'
  /\ silence'.qpc = silence.qpc \/ silence'.qpc = now
  /\ \/ capture'.at \in {"noted", "pushing"} /\ capture.at \in {"noted", "pushing"}
          /\ capture'.item = capture.item
     \/ capture'.at \notin {"noted", "pushing"}
     \/ \E qpc \in 0 .. MaxNow : Delivers(qpc)
  /\ owner'.at = "seam" /\ capture.at = "idle" =>
       capture'.at = "idle" \/ \E qpc \in 0 .. MaxNow : Delivers(qpc)

LEMMA NothingElse ==
  ASSUME AudioTypes, [Next]_vars, ~AencPops
  PROVE  Elsewhere
<1>21. /\ capture.at \in {"idle", "noted", "pushing", "off"} /\ lastEnd \in Nat
      /\ capture = [at |-> capture.at, endpoint |-> capture.endpoint, item |-> capture.item]
      /\ owner = [at |-> owner.at, seam |-> owner.seam]
      /\ silence = [at |-> silence.at, qpc |-> silence.qpc]
  BY Clocks, Threads DEF AudioTypes
<1>1. CASE Tick
  BY <1>21, <1>1 DEF Elsewhere, Tick, threads, aencVars, bounds
<1>2. CASE NoteVideo
  BY <1>21, <1>2 DEF Elsewhere, NoteVideo, SetEpoch, threads, aencVars, bounds
<1>3. CASE Pause
  BY <1>21, <1>3 DEF Elsewhere, Pause, threads, aencVars, bounds
<1>4. CASE Resume
  BY <1>21, <1>4 DEF Elsewhere, Resume, threads, aencVars, bounds
<1>5. CASE Offers
  <2>1. UNCHANGED <<owner, silence, queue, track, written, held, lastEnd>>
    BY <1>5 DEF Offers, aencVars, bounds
  <2>2. \/ capture' = [capture EXCEPT !.at = "pushing"]
        \/ capture' = [capture EXCEPT !.at = "idle", !.item = NoItem]
    BY <1>5 DEF Offers
  <2>3. /\ capture'.endpoint = capture.endpoint
        /\ \/ capture'.at = "pushing" /\ capture'.item = capture.item
           \/ capture'.at = "idle"
    BY <1>21, <2>2
  <2>4. capture.at = "noted"
    BY <1>5 DEF Offers
  <2> QED
    BY <1>21, <2>1, <2>3, <2>4 DEF Elsewhere
<1>6. CASE CapturePushes
  BY <1>21, <1>6 DEF Elsewhere, CapturePushes, threads, aencVars, bounds
<1>7. CASE SilenceLooks
  BY <1>21, <1>7 DEF Elsewhere, SilenceLooks, threads, aencVars, bounds
<1>8. CASE SilencePushes
  BY <1>21, <1>8 DEF Elsewhere, SilencePushes, threads, aencVars, bounds
<1>9. CASE SilenceEnds
  BY <1>21, <1>9 DEF Elsewhere, SilenceEnds, threads, aencVars, bounds
<1>10. CASE AencEnds
  BY <1>21, <1>10 DEF Elsewhere, AencEnds, threads, aencVars, bounds
<1>11. CASE OpenEncode
  BY <1>21, <1>11 DEF Elsewhere, OpenEncode, threads, aencVars, bounds
<1>12. CASE MigrateBegins
  BY <1>21, <1>12 DEF Elsewhere, MigrateBegins, OwnerOnly, threads, aencVars, bounds
<1>13. CASE StopBegins
  BY <1>21, <1>13 DEF Elsewhere, StopBegins, OwnerOnly, threads, aencVars, bounds
<1>14. CASE MigrateReopens
  <2>1. UNCHANGED <<silence, queue, track, written, held>>
    BY <1>14 DEF MigrateReopens, aencVars
  <2>2. \/ owner'.at = "seam" /\ capture'.at = "idle"
        \/ owner'.at = "idle" /\ capture'.at \notin {"noted", "pushing"}
    BY <1>21, <1>14 DEF MigrateReopens
  <2> QED
    BY <1>14, <2>1, <2>2 DEF Elsewhere
<1>15. CASE MigratePushes
  BY <1>21, <1>15 DEF Elsewhere, MigratePushes, threads, aencVars, bounds
<1>16. CASE StopJoinsCapture
  BY <1>21, <1>16 DEF Elsewhere, StopJoinsCapture, OwnerOnly, threads, aencVars, bounds
<1>17. CASE StopJoinsSilence
  BY <1>21, <1>17 DEF Elsewhere, StopJoinsSilence, threads, aencVars, bounds
<1>18. CASE StopJoinsAenc
  BY <1>21, <1>18 DEF Elsewhere, StopJoinsAenc, threads, aencVars, bounds
<1>19. ASSUME NEW qpc \in 0 .. MaxNow, Delivers(qpc)
       PROVE  Elsewhere
  <2>1. lastEnd' = Later(lastEnd, qpc + Duration) /\ lastEnd <= lastEnd'
    BY <1>21, <1>19, Numbers DEF Delivers, Later
  <2>2. PICK item : capture' = [capture EXCEPT !.at = "noted", !.item = item]
    BY <1>19 DEF Delivers
  <2>3. capture'.endpoint = capture.endpoint
    BY <1>21, <2>2
  <2>4. UNCHANGED <<owner, silence, queue, track, written, held>>
    BY <1>19 DEF Delivers, aencVars
  <2> QED
    BY <1>19, <2>1, <2>3, <2>4 DEF Elsewhere
<1>22. CASE SilenceFails
  BY <1>21, <1>22 DEF Elsewhere, SilenceFails, threads, aencVars, bounds
<1>23. CASE AencFails
  BY <1>21, <1>23 DEF Elsewhere, AencFails, threads, aencVars, bounds
<1>20. CASE UNCHANGED vars
  BY <1>21, <1>20 DEF Elsewhere, vars, threads, aencVars, bounds
<1> QED
  BY <1>1, <1>2, <1>3, <1>4, <1>5, <1>6, <1>7, <1>8, <1>9, <1>10, <1>11, <1>12, <1>13, <1>14, <1>15,
     <1>16, <1>17, <1>18, <1>19, <1>20, <1>22, <1>23 DEF Next, Capture, Silence, Aenc, Owner

LEMMA Reopened ==
  ASSUME AudioTypes, MigrateReopens
  PROVE  /\ capture'.endpoint = capture.endpoint + 1 /\ capture'.at \in {"idle", "off"}
         /\ \/ owner'.at = "seam" /\ owner'.seam = now /\ lastEnd' = now + Jitter /\ capture'.at = "idle"
            \/ owner'.at = "idle" /\ owner'.seam = owner.seam /\ lastEnd' = lastEnd
         /\ owner.at = "migrate"
         /\ UNCHANGED <<now, t0, clock, pauses, track>>
BY Threads DEF MigrateReopens, epochVars, aencVars

LEMMA SeamsGoOn ==
  ASSUME AudioTypes, SeamsInOrder, Elsewhere
  PROVE  /\ owner.seam \in Nat /\ capture.endpoint \in Nat /\ owner'.seam \in Nat /\ capture'.endpoint \in Nat
         /\ owner.seam <= owner'.seam /\ capture.endpoint <= capture'.endpoint
         /\ owner'.at = "seam" =>
              (owner.at = "seam" /\ capture'.endpoint = capture.endpoint /\ owner'.seam = owner.seam)
                \/ (capture'.endpoint = capture.endpoint + 1 /\ owner'.seam = now /\ MigrateReopens)
<1>1. owner.seam \in Nat /\ capture.endpoint \in Nat /\ now \in Nat /\ owner.seam <= now
  BY Threads, Clocks DEF SeamsInOrder
<1>2. CASE MigrateReopens
  BY <1>1, <1>2, Reopened
<1>3. CASE ~MigrateReopens
  BY <1>1, <1>3 DEF Elsewhere
<1> QED
  BY <1>2, <1>3

LEMMA ItemStillFits ==
  ASSUME Undisturbed, AudioTypes, AudioTypes', AnyPauses, SeamsInOrder, TrackInStep, Elsewhere,
         [Next]_vars, NEW item \in Items, item.qpc \in Waiting, ItemFits(item)
  PROVE  ItemFits(item)'
<1>1. PICK q \in Nat, e \in Nat : q = item.qpc /\ e = item.endpoint
  BY DEF Items
<1>2. /\ now \in Nat /\ now' \in Nat /\ now <= now' /\ (t0 # None => t0' = t0) /\ track' = track
  BY TimeGoesOn, Clocks DEF Elsewhere
<1>3. Reach(item) <= now' /\ q <= now
  <2>1. Reach(item) \in Nat /\ Reach(item) <= now /\ q <= Reach(item)
    BY <1>1, Numbers DEF Reach, ItemFits
  <2> QED
    BY <1>1, <1>2, <2>1
<1>4. Pause => LastResumed <= q
  BY <1>1, PausedFresh
<1>5. item.kind # "tick" => Sound(track, q)'
  <2>1. item.kind # "tick" => Sound(track, q)
    BY <1>1 DEF ItemFits
  <2> QED
    BY <1>2, <1>3, <1>4, <2>1, SoundStays
<1>6. CASE item.kind # "migrate"
  BY <1>1, <1>2, <1>3, <1>5, <1>6 DEF ItemFits, Reach, Sound, From, Zero
<1>7. CASE item.kind = "migrate"
  <2>1. /\ q <= owner.seam /\ Outside(q) /\ t0 # None /\ t0 <= q /\ track.input < e
        /\ e <= capture.endpoint /\ (owner.at = "seam" => e < capture.endpoint)
        /\ (track.started => Reached(track, q))
    BY <1>1, <1>7 DEF ItemFits
  <2>2. q <= owner'.seam /\ e <= capture'.endpoint /\ (owner'.at = "seam" => e < capture'.endpoint)
    BY <1>1, <2>1, SeamsGoOn
  <2>3. Pause => q < now \/ q = 0
    <3>1. owner.seam \in Nat /\ owner.seam <= now
      BY Threads DEF SeamsInOrder
    <3>2. Pause => owner.seam # now \/ owner.seam = 0
      BY DEF Pause, NotInTheSeam, Undisturbed, RaceNames
    <3> QED
      BY <1>2, <2>1, <3>1, <3>2
  <2>4. Outside(q)'
    BY <2>1, <2>3, StaysOutside
  <2>5. track'.started => Reached(track, q)'
    <3>1. t0 \in Nat
      BY <2>1, Clocks
    <3> QED
      BY <1>2, <1>3, <1>4, <2>1, <3>1, ReachedStays
  <2>6. t0' # None /\ t0' <= q /\ track'.input < e
    BY <1>2, <2>1
  <2> QED
    BY <1>1, <1>3, <1>5, <1>7, <2>2, <2>4, <2>5, <2>6
    DEF ItemFits, Reach, Outside, DuringAPause, Reached, Sound, From, Zero
<1> QED
  BY <1>6, <1>7

(* What is pushed fits behind what is there.                               *)
FitsBehind(item) ==
  /\ item \in Items /\ ItemFits(item)'
  /\ \A i \in 1 .. Len(queue) : Follows(queue[i], item)
  /\ \A i \in 1 .. Len(held) : Follows(held[i], item)

LEMMA PacketFits ==
  ASSUME AudioTypes, QueueInOrder, HeldInOrder, SeamsInOrder, OnTheWay, CapturePushes,
         NEW item \in Items, item = capture.item
  PROVE  FitsBehind(item)
<1>1. item = capture.item
  OBVIOUS
<1>2. item.kind = "buffer" /\ item.qpc \in Nat
  BY <1>1 DEF CapturePushes, OnTheWay, Items
<1>3. Reach(item) <= now /\ owner.seam <= item.qpc /\ Sound(track, item.qpc)
  BY <1>1 DEF CapturePushes, OnTheWay
<1>4. UNCHANGED <<now, t0, clock, track>>
  BY DEF CapturePushes, epochVars, aencVars
<1>5. owner.seam \in Nat
  BY Threads
<1>6. track.input > 1 => track.origin <= item.qpc
  <2>1. track.origin \in Nat
    BY DEF AudioTypes, TrackStates
  <2> QED
    BY <1>2, <1>3, <1>5, <2>1 DEF SeamsInOrder
<1>7. ItemFits(item)'
  <2>1. Sound(track, item.qpc)'
    BY <1>3, <1>4, NothingMoves
  <2> QED
    BY <1>2, <1>3, <1>4, <1>6, <2>1 DEF ItemFits, Reach, Sound, From, Zero
<1>8. ASSUME NEW i \in 1 .. Len(queue)
      PROVE  Follows(queue[i], item)
  <2>1. queue[i] \in Items /\ ItemFits(queue[i])
    BY DEF AudioTypes, QueueInOrder
  <2>2. PICK x \in Items : x = queue[i] /\ ItemFits(x)
    BY <2>1
  <2>3. x.kind = "migrate" => x.qpc <= owner.seam
    BY <2>2 DEF ItemFits
  <2>4. x.qpc \in Nat
    BY DEF Items
  <2>5. Follows(x, item)
    BY <1>2, <1>3, <1>5, <2>3, <2>4 DEF Follows
  <2> QED
    BY <2>2, <2>5
<1>9. ASSUME NEW i \in 1 .. Len(held)
      PROVE  Follows(held[i], item)
  BY <1>2 DEF Follows, HeldInOrder
<1> QED
  BY <1>1, <1>7, <1>8, <1>9 DEF FitsBehind

LEMMA SilenceFits ==
  ASSUME AudioTypes, OnTheWay, SilencePushes, NEW item \in Items, item = SilenceTick(silence.qpc)
  PROVE  FitsBehind(item)
<1>1. PICK q \in Nat : q = silence.qpc /\ q <= now
  BY DEF AudioTypes, OnTheWay
<1>2. item = SilenceTick(q)
  BY <1>1
<1>3. item \in Items /\ item.kind = "tick" /\ item.qpc = q
  BY <1>2 DEF SilenceTick, Items
<1>4. now' = now
  BY DEF SilencePushes
<1>5. ItemFits(item)'
  <2>1. Reach(item) = q
    BY <1>3 DEF Reach
  <2> QED
    BY <1>1, <1>3, <1>4, <2>1 DEF ItemFits, Reach
<1>6. \A x : Follows(x, item)
  BY <1>3 DEF Follows
<1> QED
  BY <1>1, <1>2, <1>3, <1>5, <1>6 DEF FitsBehind

LEMMA SeamFits ==
  ASSUME AudioTypes, QueueInOrder, HeldInOrder, SeamsInOrder, OnTheWay, TrackInStep, MigratePushes,
         NEW item \in Items, item = MigrateInput(owner.seam, capture.endpoint)
  PROVE  FitsBehind(item)
<1>1. PICK q \in Nat, e \in Nat : q = owner.seam /\ e = capture.endpoint
  BY Threads
<1>2. item = MigrateInput(q, e)
  BY <1>1
<1>3. item \in Items /\ item.kind = "migrate" /\ item.qpc = q /\ item.endpoint = e
  BY <1>2 DEF MigrateInput, Items
<1>4. owner.at = "seam" /\ q = now /\ track.input < e /\ t0 # None /\ Outside(q)
  BY <1>1 DEF MigratePushes, SeamsInOrder
<1>5. UNCHANGED <<now, t0, track, clock, pauses, capture>> /\ owner'.at = "idle" /\ owner'.seam = owner.seam
  BY Threads DEF MigratePushes, epochVars, aencVars, bounds
<1>6. t0 <= q
  BY <1>4, Clocks
<1>7. track.started => Reached(track, q)
  BY <1>4 DEF TrackInStep
<1>8. Reach(item) = q
  BY <1>3 DEF Reach
<1>9. Outside(q)' /\ Sound(track, q)' /\ (track'.started => Reached(track, q)')
  <2>1. q \in Recent
    BY <1>4, Clocks, Numbers DEF Recent
  <2>2. Sound(track, q)
    BY <2>1 DEF OnTheWay
  <2> QED
    BY <1>4, <1>5, <1>7, <2>2, NothingMoves
<1>10. ItemFits(item)'
  <2>2. q <= owner'.seam /\ q <= now' /\ owner'.at # "seam"
    <3>1. owner'.seam = q /\ now' = q /\ owner'.at = "idle"
      BY <1>1, <1>4, <1>5
    <3> QED
      BY <3>1
  <2>3. e <= capture'.endpoint /\ track'.input < e /\ t0' # None /\ t0' <= q
    BY <1>1, <1>4, <1>5, <1>6
  <2> QED
    BY <1>3, <1>8, <1>9, <2>2, <2>3
    DEF ItemFits, Reach, Outside, DuringAPause, Reached, Sound, From, Zero
<1>11. ASSUME NEW i \in 1 .. Len(queue)
       PROVE  Follows(queue[i], item)
  <2>1. queue[i] \in Items /\ ItemFits(queue[i])
    BY DEF AudioTypes, QueueInOrder
  <2>2. PICK x \in Items : x = queue[i] /\ ItemFits(x)
    BY <2>1
  <2>3. Reach(x) <= q /\ (x.kind = "migrate" => x.endpoint < e)
    BY <1>1, <1>4, <2>2 DEF ItemFits
  <2>4. Follows(x, item)
    BY <1>3, <2>3 DEF Follows
  <2> QED
    BY <2>2, <2>4
<1>12. ASSUME NEW i \in 1 .. Len(held)
       PROVE  Follows(held[i], item)
  <2>1. held[i].kind # "migrate" /\ Reach(held[i]) <= q
    BY <1>4 DEF HeldInOrder
  <2> QED
    BY <1>3, <2>1 DEF Follows
<1> QED
  BY <1>1, <1>2, <1>3, <1>10, <1>11, <1>12 DEF FitsBehind

QueueBehindHeld ==
  \A i \in 1 .. Len(held) : \A j \in 1 .. Len(queue') : Follows(held[i], queue'[j])

LEMMA QueueStays ==
  ASSUME AudioTypes, QueueInOrder, HeldInOrder, queue' = queue,
         \A item \in Items : item.qpc \in Waiting /\ ItemFits(item) => ItemFits(item)'
  PROVE  QueueInOrder' /\ QueueBehindHeld
<1>1. ASSUME NEW i \in 1 .. Len(queue')
      PROVE  ItemFits(queue[i])'
  <2>1. PICK x \in Items : x = queue'[i] /\ ItemFits(x) /\ x.qpc \in Waiting
    <3>1. queue[i] \in Items /\ ItemFits(queue[i]) /\ queue'[i] = queue[i] /\ queue[i].qpc \in Waiting
      BY DEF AudioTypes, QueueInOrder, Waiting
    <3> QED
      BY <3>1
  <2>2. ItemFits(x)'
    BY <2>1
  <2> QED
    BY <2>1, <2>2 DEF ItemFits, Reach, Outside, DuringAPause, Reached, Sound, From, Zero
<1>2. ASSUME NEW i \in 1 .. Len(queue'), NEW j \in 1 .. Len(queue'), i < j
      PROVE  Follows(queue[i], queue[j])'
  BY <1>2 DEF QueueInOrder, Follows, Reach
<1>3. QueueInOrder'
  BY <1>1, <1>2 DEF QueueInOrder
<1> QED
  BY <1>3 DEF HeldInOrder, QueueBehindHeld

LEMMA QueueGrows ==
  ASSUME AudioTypes, QueueInOrder, HeldInOrder, NEW item \in Items, FitsBehind(item), Push(item),
         \A x \in Items : x.qpc \in Waiting /\ ItemFits(x) => ItemFits(x)'
  PROVE  QueueInOrder' /\ QueueBehindHeld
<1>1. CASE ~queueOpen
  <2>1. queue' = queue
    BY <1>1 DEF Push
  <2> QED
    BY <2>1, QueueStays
<1>2. CASE queueOpen
  <2>1. /\ queue' = Append(queue, item) /\ Len(queue) \in Nat /\ Len(queue') = Len(queue) + 1
        /\ \A i \in 1 .. Len(queue) : queue'[i] = queue[i]
        /\ queue'[Len(queue) + 1] = item
    <3>1. queue' = Append(queue, item) /\ queue \in Seq(Items)
      BY <1>2 DEF Push, AudioTypes
    <3> QED
      BY <3>1, AppendProperties
  <2>2. \A i \in 1 .. Len(queue') : i \in 1 .. Len(queue) \/ queue'[i] = item
    BY <2>1
  <2>3. ASSUME NEW i \in 1 .. Len(queue')
        PROVE  ItemFits(queue[i])'
    <3>1. PICK x \in Items : x = queue'[i] /\ ItemFits(x)'
      <4>1. CASE i \in 1 .. Len(queue)
        <5>1. queue[i] \in Items /\ ItemFits(queue[i]) /\ queue'[i] = queue[i]
              /\ queue[i].qpc \in Waiting
          BY <2>1, <4>1 DEF AudioTypes, QueueInOrder, Waiting
        <5>2. PICK y \in Items : y = queue'[i] /\ ItemFits(y) /\ y.qpc \in Waiting
          BY <5>1
        <5> QED
          BY <5>2
      <4>2. CASE queue'[i] = item
        BY <4>2 DEF FitsBehind
      <4> QED
        BY <2>2, <4>1, <4>2
    <3> QED
      BY <3>1 DEF ItemFits, Reach, Outside, DuringAPause, Reached, Sound, From, Zero
  <2>4. ASSUME NEW i \in 1 .. Len(queue'), NEW j \in 1 .. Len(queue'), i < j
        PROVE  Follows(queue'[i], queue'[j])
    <3>1. i \in 1 .. Len(queue) /\ queue'[i] = queue[i]
      BY <2>1, <2>4
    <3>2. CASE j \in 1 .. Len(queue)
      BY <2>1, <2>4, <3>1, <3>2 DEF QueueInOrder
    <3>3. CASE queue'[j] = item
      BY <3>1, <3>3 DEF FitsBehind
    <3> QED
      BY <2>2, <3>2, <3>3
  <2>5. QueueInOrder'
    BY <2>3, <2>4 DEF QueueInOrder, Follows, Reach
  <2>6. QueueBehindHeld
    <3> SUFFICES ASSUME NEW i \in 1 .. Len(held), NEW j \in 1 .. Len(queue')
                 PROVE  Follows(held[i], queue'[j])
      BY DEF QueueBehindHeld
    <3>1. CASE j \in 1 .. Len(queue)
      BY <2>1, <3>1 DEF HeldInOrder
    <3>2. CASE queue'[j] = item
      BY <3>2 DEF FitsBehind
    <3> QED
      BY <2>2, <3>1, <3>2
  <2> QED
    BY <2>5, <2>6
<1> QED
  BY <1>1, <1>2

LEMMA QueueStep ==
  ASSUME Undisturbed, AudioTypes, Bounded, AudioTypes', AnyPauses, QueueInOrder, HeldInOrder,
         SeamsInOrder, OnTheWay, TrackInStep, Elsewhere, [Next]_vars
  PROVE  QueueInOrder' /\ HeldInOrder'
<1>1. queue \in Seq(Items) /\ held \in Seq(Items) /\ Len(queue) \in Nat
  BY DEF AudioTypes
<1>2. ASSUME NEW item \in Items, item.qpc \in Waiting, ItemFits(item)
      PROVE  ItemFits(item)'
  BY <1>2, ItemStillFits
<1>3. ASSUME NEW item \in Items, FitsBehind(item), Push(item)
      PROVE  QueueInOrder' /\ QueueBehindHeld
  BY <1>2, <1>3, QueueGrows
<1>4. ASSUME queue' = queue
      PROVE  QueueInOrder' /\ QueueBehindHeld
  BY <1>2, <1>4, QueueStays
<1>5. ASSUME CapturePushes
      PROVE  QueueInOrder' /\ QueueBehindHeld
  <2>1. PICK item \in Items : item = capture.item
    BY <1>5 DEF CapturePushes, AudioTypes
  <2> QED
    BY <1>3, <1>5, <2>1, PacketFits DEF CapturePushes
<1>6. ASSUME SilencePushes
      PROVE  QueueInOrder' /\ QueueBehindHeld
  <2>1. PICK item \in Items : item = SilenceTick(silence.qpc)
    BY DEF AudioTypes, SilenceTick, Items
  <2> QED
    BY <1>3, <1>6, <2>1, SilenceFits DEF SilencePushes
<1>7. ASSUME MigratePushes
      PROVE  QueueInOrder' /\ QueueBehindHeld
  <2>1. PICK item \in Items : item = MigrateInput(owner.seam, capture.endpoint)
    BY DEF AudioTypes, MigrateInput, Items
  <2> QED
    BY <1>3, <1>7, <2>1, SeamFits DEF MigratePushes
<1>8. QueueInOrder' /\ QueueBehindHeld
  BY <1>4, <1>5, <1>6, <1>7 DEF Elsewhere
<1>9. HeldInOrder'
  <2>1. CASE held' = <<>>
    BY <2>1 DEF HeldInOrder
  <2>2. CASE held' = held
    <3>1. ASSUME NEW i \in 1 .. Len(held)
          PROVE  /\ held[i].kind # "migrate" /\ Reach(held[i]) <= now'
                 /\ held[i].kind = "buffer" =>
                      \E q \in Nat : q = held[i].qpc /\ Sound(track, q)'
                 /\ \A j \in 1 .. Len(queue') : Follows(held[i], queue'[j])
      <4>1. held[i].kind # "migrate" /\ Reach(held[i]) <= now
        BY DEF HeldInOrder
      <4>2. Reach(held[i]) \in Int
        <5>1. held[i] \in Items
          BY <1>1
        <5> QED
          BY <5>1, Numbers DEF Reach, Items
      <4>3. now \in Nat /\ now' \in Nat /\ now <= now'
        BY TimeGoesOn, Clocks
      <4>4. Reach(held[i]) <= now'
        BY <4>1, <4>2, <4>3
      <4>5. ASSUME held[i].kind = "buffer"
            PROVE  \E q \in Nat : q = held[i].qpc /\ Sound(track, q)'
        <5>1. PICK q \in Nat : q = held[i].qpc /\ q <= now /\ q \in Waiting
          <6>1. held[i] \in Items /\ held[i].qpc \in Waiting
            BY <1>1 DEF Waiting
          <6>2. held[i].qpc \in Nat /\ held[i].qpc <= Reach(held[i])
            BY <6>1, Numbers DEF Reach, Items
          <6> QED
            BY <4>1, <4>2, <4>3, <6>1, <6>2
        <5>2. Sound(track, q)
          BY <4>5, <5>1 DEF HeldInOrder
        <5>3. Pause => LastResumed <= q
          BY <5>1, PausedFresh
        <5>4. Sound(track, q)'
          BY <5>1, <5>2, <5>3, SoundStays DEF Elsewhere
        <5> QED
          BY <5>1, <5>4
      <4> QED
        BY <1>8, <4>1, <4>4, <4>5 DEF QueueBehindHeld
    <3>2. ASSUME NEW i \in 1 .. Len(held'), held'[i].kind = "buffer"
          PROVE  Sound(track, held[i].qpc)'
      <4>1. PICK q \in Nat : q = held'[i].qpc /\ Sound(track, q)'
        BY <2>2, <3>1, <3>2
      <4> QED
        BY <4>1 DEF Sound
    <3>3. \A i \in 1 .. Len(held') :
            /\ held'[i].kind # "migrate" /\ Reach(held'[i]) <= now'
            /\ \A j \in 1 .. Len(queue') : Follows(held'[i], queue'[j])
      BY <2>2, <3>1
    <3> QED
      BY <3>2, <3>3 DEF HeldInOrder, Reach, Follows
  <2> QED
    BY <2>1, <2>2 DEF Elsewhere
<1> QED
  BY <1>8, <1>9

LEMMA Delivered ==
  ASSUME AudioTypes, SeamsInOrder, NEW qpc \in 0 .. MaxNow, Delivers(qpc)
  PROVE  /\ owner.at # "seam" /\ owner.seam <= qpc /\ now' = now /\ owner' = owner
         /\ capture'.at = "noted" /\ capture'.item.kind = "buffer" /\ capture'.item.qpc = qpc
         /\ Reach(capture'.item) <= now /\ UNCHANGED silence /\ qpc \in Recent
<1>1. qpc \in Nat /\ now \in Nat /\ lastEnd \in Nat /\ owner.seam \in Nat
  BY Clocks, Threads, Numbers
<1>2. qpc + Duration <= now /\ qpc + Jitter >= lastEnd /\ Duration \in Nat /\ Duration # 0 /\ Jitter \in Nat
  BY <1>1, Numbers DEF Delivers
<1>3. owner.seam <= qpc
  BY <1>1, <1>2 DEF SeamsInOrder
<1>4. owner.at # "seam"
  BY <1>1, <1>2, <1>3 DEF SeamsInOrder
<1>5. \E e : capture' = [capture EXCEPT !.at = "noted", !.item = Packet(qpc, e)]
  BY DEF Delivers
<1>6. capture'.at = "noted" /\ capture'.item.kind = "buffer" /\ capture'.item.qpc = qpc
  BY <1>5, Threads DEF Packet
<1>7. Reach(capture'.item) <= now
  BY <1>2, <1>6 DEF Reach
<1>8. qpc \in Recent
  <2>1. qpc + Duration >= now - Jitter
    BY <1>1, <1>2 DEF Delivers
  <2> QED
    BY <1>1, <1>2, <2>1 DEF Recent
<1> QED
  BY <1>3, <1>4, <1>6, <1>7, <1>8 DEF Delivers

LEMMA OnTheWayStep ==
  ASSUME Undisturbed, AudioTypes, AudioTypes', AnyPauses, SeamsInOrder, OnTheWay, TrackInStep,
         Elsewhere, [Next]_vars
  PROVE  OnTheWay'
<1>1. now \in Nat /\ now' \in Nat /\ now <= now' /\ track' = track
  BY TimeGoesOn, Clocks DEF Elsewhere
<1>2. silence'.qpc <= now'
  <2>1. silence.qpc \in Nat /\ silence.qpc <= now
    BY DEF AudioTypes, OnTheWay
  <2> QED
    BY <1>1, <2>1 DEF Elsewhere
<1>3. ASSUME NEW q \in Nat, q <= now, Sound(track, q), q \in Waiting \/ q \in Recent
      PROVE  Sound(track, q)'
  <2>1. Pause => LastResumed <= q
    BY <1>3, PausedFresh
  <2> QED
    BY <1>1, <1>3, <2>1, SoundStays
<1>4. ASSUME capture'.at \in {"noted", "pushing"}
      PROVE  /\ capture'.item.kind = "buffer" /\ Reach(capture'.item) <= now'
             /\ owner'.seam <= capture'.item.qpc
             /\ \E q \in Nat : q = capture'.item.qpc /\ Sound(track, q)'
  <2>1. CASE capture.at \in {"noted", "pushing"} /\ capture'.item = capture.item
    <3>1. PICK item \in Items : item = capture.item /\ item = capture'.item
      BY <2>1 DEF AudioTypes
    <3>2. item.kind = "buffer" /\ Reach(item) <= now /\ owner.seam <= item.qpc /\ Sound(track, item.qpc)
      BY <2>1, <3>1 DEF OnTheWay
    <3>3. owner'.seam = owner.seam
      BY <1>4, Reopened DEF Elsewhere
    <3>4. Reach(item) <= now' /\ item.qpc <= now /\ item.qpc \in Nat
      <4>1. Reach(item) \in Nat /\ item.qpc \in Nat /\ item.qpc <= Reach(item)
        BY Numbers DEF Reach, Items
      <4> QED
        BY <1>1, <3>2, <4>1
    <3>5. PICK q \in Nat : q = item.qpc /\ q \in Waiting /\ q <= now /\ Sound(track, q)
      BY <2>1, <3>1, <3>2, <3>4 DEF Waiting
    <3>6. Sound(track, q)'
      BY <1>3, <3>5
    <3> QED
      BY <3>1, <3>2, <3>3, <3>4, <3>5, <3>6
  <2>2. ASSUME NEW qpc \in 0 .. MaxNow, Delivers(qpc)
        PROVE  /\ capture'.item.kind = "buffer" /\ Reach(capture'.item) <= now'
               /\ owner'.seam <= capture'.item.qpc
               /\ \E q \in Nat : q = capture'.item.qpc /\ Sound(track, q)'
    <3>1. /\ capture'.item.kind = "buffer" /\ Reach(capture'.item) <= now'
          /\ owner'.seam <= capture'.item.qpc /\ qpc = capture'.item.qpc
      BY <2>2, Delivered
    <3>2. qpc \in Recent /\ qpc \in Nat /\ qpc <= now
      BY <2>2, Delivered DEF Recent
    <3>3. Sound(track, qpc)'
      BY <1>3, <3>2 DEF OnTheWay
    <3> QED
      BY <3>1, <3>2, <3>3
  <2> QED
    BY <1>4, <2>1, <2>2 DEF Elsewhere
<1>5. ASSUME NEW q \in Nat, q <= now', q + Duration + Jitter >= now'
      PROVE  Sound(track, q)'
  <2>1. CASE q <= now
    <3>1. q \in Recent
      BY <1>1, <1>5, <2>1, Numbers DEF Recent
    <3> QED
      BY <1>3, <2>1, <3>1 DEF OnTheWay
  <2>2. CASE ~(q <= now)
    <3>1. Tick /\ UNCHANGED clock
      BY <1>1, <1>5, <2>2, TimeGoesOn DEF Tick
    <3>2. ~Pause
      BY <1>1, <1>5, <2>2 DEF Pause
    <3>3. Sound(track, q)
      <4>1. now \in Recent
        BY <1>1, Numbers DEF Recent
      <4>2. t0 # None => From(track) <= now /\ t0 \in Int
        BY Clocks DEF TrackInStep, BeginsInStep, From
      <4>3. t0 # None => Zero(track) <= TimelineTime(now)
        BY <4>1, <4>2 DEF OnTheWay, Sound
      <4>4. t0 # None => TimelineTime(now) <= TimelineTime(q)
        BY <1>1, <2>2, <4>2, TimeRises
      <4>5. t0 # None => Zero(track) \in Int /\ TimelineTime(now) \in Int /\ TimelineTime(q) \in Int
        <5>1. t0 # None => Zero(track) \in Int
          <6>1. track.origin \in Nat /\ track.excised \in Nat
            BY DEF AudioTypes, TrackStates
          <6> QED
            BY <4>2, <6>1 DEF Zero
        <5> QED
          BY <1>1, <4>2, <5>1, TimelineIsInteger
      <4> QED
        BY <4>3, <4>4, <4>5 DEF Sound
    <3> QED
      BY <1>1, <3>1, <3>2, <3>3, SoundStays
  <2> QED
    BY <2>1, <2>2
<1>6. \A q \in Recent' : Sound(track, q)'
  <2> SUFFICES ASSUME NEW q \in Recent'
               PROVE  Sound(track, q)'
    OBVIOUS
  <2>1. q \in Nat /\ q <= now' /\ q + Duration + Jitter >= now'
    BY DEF Recent
  <2> QED
    BY <1>5, <2>1
<1>7. ASSUME capture'.at \in {"noted", "pushing"}
      PROVE  Sound(track, capture.item.qpc)'
  <2>1. PICK q \in Nat : q = capture'.item.qpc /\ Sound(track, q)'
    BY <1>4, <1>7
  <2> QED
    BY <2>1 DEF Sound
<1> QED
  BY <1>2, <1>4, <1>6, <1>7 DEF OnTheWay, Reach

LEMMA SeamsStep ==
  ASSUME Undisturbed, AudioTypes, AudioTypes', AnyPauses, SeamsInOrder, Elsewhere, [Next]_vars
  PROVE  SeamsInOrder'
<1>1. /\ now \in Nat /\ now' \in Nat /\ now <= now' /\ (t0 # None => t0' = t0) /\ Jitter \in Nat
      /\ lastEnd \in Nat /\ lastEnd' \in Nat
      /\ lastEnd <= lastEnd' \/ MigrateReopens
  BY TimeGoesOn, Clocks, Numbers DEF Elsewhere, AudioTypes
<1>2. owner.seam \in Nat /\ owner.seam <= now /\ Outside(owner.seam)
  BY Threads DEF SeamsInOrder
<1>3. PICK q \in Nat : q = owner'.seam
  BY DEF AudioTypes
<1>4. q = owner.seam \/ (q = now /\ MigrateReopens)
  BY <1>3, Reopened DEF Elsewhere
<1>5. q <= now'
  BY <1>1, <1>2, <1>4
<1>6. Outside(q)'
  <2>1. CASE q = owner.seam
    <3>1. Pause => q < now \/ q = 0
      BY <1>1, <1>2, <2>1 DEF Pause, NotInTheSeam, Undisturbed, RaceNames
    <3> QED
      BY <1>2, <2>1, <3>1, StaysOutside
  <2>2. CASE q = now /\ MigrateReopens
    <3>1. ~clock.paused /\ UNCHANGED clock
      BY <2>2, Reopened DEF SeamsInOrder
    <3>2. clock.lastBegin + clock.lastSpan <= now
      BY DEF AnyPauses, LastResumed
    <3> QED
      BY <1>1, <2>2, <3>1, <3>2, ClockFields DEF Outside, DuringAPause
  <2> QED
    BY <1>4, <2>1, <2>2
<1>7. q = 0 \/ q + Jitter <= lastEnd'
  <2>1. CASE MigrateReopens
    <3>1. owner.seam = 0 \/ owner.seam + Jitter <= lastEnd
      BY DEF SeamsInOrder
    <3>2. (q = now /\ lastEnd' = now + Jitter) \/ (q = owner.seam /\ lastEnd' = lastEnd)
      BY <1>3, <2>1, Reopened
    <3> QED
      BY <1>1, <1>2, <3>1, <3>2
  <2>2. CASE ~MigrateReopens
    <3>1. q = owner.seam /\ lastEnd <= lastEnd'
      BY <1>4, <2>2 DEF Elsewhere
    <3>2. lastEnd \in Nat /\ lastEnd' \in Nat
      BY Clocks DEF AudioTypes
    <3> QED
      BY <1>1, <1>2, <3>1, <3>2 DEF SeamsInOrder
  <2> QED
    BY <2>1, <2>2
<1>8. owner'.at \in {"migrate", "seam"} => t0' # None
  <2>1. owner.at \in {"migrate", "seam"} \/ MigrateBegins \/ MigrateReopens \/ owner'.at \notin {"migrate", "seam"}
    BY DEF Elsewhere
  <2>2. MigrateReopens => owner.at = "migrate"
    BY Reopened
  <2>3. MigrateBegins => t0 # None
    BY DEF MigrateBegins
  <2> QED
    BY <1>1, <2>1, <2>2, <2>3 DEF SeamsInOrder
<1>9. owner'.at = "migrate" => ~clock'.paused
  <2>1. CASE owner.at = "migrate"
    <3>1. ~Pause
      BY <2>1 DEF Pause, NotInTheSeam, Undisturbed, RaceNames
    <3>2. ~clock.paused
      BY <2>1 DEF SeamsInOrder
    <3>3. ~Resume
      BY <3>2 DEF Resume
    <3> QED
      BY <3>1, <3>2, <3>3, TimeGoesOn
  <2>2. CASE MigrateBegins
    BY <2>2 DEF MigrateBegins, OwnerOnly, Undisturbed, RaceNames
  <2> QED
    BY <2>1, <2>2 DEF Elsewhere
<1>10. owner'.at = "seam" => q = now' /\ capture'.at = "idle" /\ track'.input < capture'.endpoint
  <2> SUFFICES ASSUME owner'.at = "seam"
               PROVE  q = now' /\ capture'.at = "idle" /\ track'.input < capture'.endpoint
    OBVIOUS
  <2>1. CASE MigrateReopens
    <3>1. q = now /\ capture'.at = "idle" /\ capture'.endpoint = capture.endpoint + 1 /\ now' = now
          /\ track' = track
      BY <1>3, <2>1, Reopened
    <3>2. track.input \in Nat /\ capture.endpoint \in Nat /\ track.input <= capture.endpoint
      BY Threads DEF AudioTypes, TrackStates, SeamsInOrder
    <3> QED
      BY <3>1, <3>2
  <2>2. CASE ~MigrateReopens
    <3>1. owner.at = "seam" /\ q = owner.seam /\ capture'.endpoint = capture.endpoint /\ track' = track
      BY <1>3, <2>2 DEF Elsewhere
    <3>2. now' = now
      BY <3>1, TimeGoesOn DEF Tick, Undisturbed, RaceNames
    <3>3. owner.seam = now /\ capture.at = "idle" /\ track.input < capture.endpoint
      BY <3>1 DEF SeamsInOrder
    <3>4. capture'.at = "idle"
      BY <3>1, <3>3, Delivered DEF Elsewhere
    <3> QED
      BY <3>1, <3>2, <3>3, <3>4
  <2> QED
    BY <2>1, <2>2
<1>11. 1 <= track'.input /\ track'.input <= capture'.endpoint /\ (track'.input > 1 => track'.origin <= q)
  <2>1. track' = track
    BY DEF Elsewhere
  <2>2. /\ track.input \in Nat /\ track.origin \in Nat /\ 1 <= track.input /\ track.input <= capture.endpoint
        /\ (track.input > 1 => track.origin <= owner.seam)
    BY DEF AudioTypes, TrackStates, SeamsInOrder
  <2>3. capture.endpoint \in Nat /\ capture'.endpoint \in Nat /\ capture.endpoint <= capture'.endpoint
        /\ owner.seam <= q
    BY <1>3, SeamsGoOn
  <2> QED
    BY <1>2, <2>1, <2>2, <2>3
<1> QED
  BY <1>3, <1>5, <1>6, <1>7, <1>8, <1>9, <1>10, <1>11 DEF SeamsInOrder, Outside, DuringAPause

LEMMA ReachedLater ==
  ASSUME AudioTypes, t0 \in Nat, NEW tl \in TrackStates, NEW m \in Nat, NEW n \in Nat, m <= n,
         Reached(tl, m)
  PROVE  Reached(tl, n)
<1>1. PICK o \in Nat, h \in Nat, x \in Nat : o = tl.origin /\ h = tl.head /\ x = tl.excised
  BY DEF TrackStates
<1>2. tl.started
  BY DEF Reached
<1>3. PICK z \in Int : z = Zero(tl)
  BY <1>2, ZeroOfStarted
<1>4. PICK d \in Int, e \in Int : d = TimelineTime(m) /\ e = TimelineTime(n) /\ d <= e
  BY TimelineIsInteger, TimeRises
<1>5. o <= m /\ z <= d /\ h <= d - z + Lead
  BY <1>1, <1>3, <1>4 DEF Reached
<1>6. o <= n /\ z <= e /\ h <= e - z + Lead
  BY <1>4, <1>5, LeadIsNatural
<1> QED
  BY <1>1, <1>2, <1>3, <1>4, <1>6 DEF Reached

LEMMA TrackStep ==
  ASSUME Undisturbed, AudioTypes, AudioTypes', AnyPauses, TrackInStep, Elsewhere, [Next]_vars
  PROVE  TrackInStep'
<1>1. /\ now \in Nat /\ now' \in Nat /\ now <= now' /\ (t0 # None => t0' = t0)
      /\ track' = track /\ written' = written /\ track \in TrackStates
  BY TimeGoesOn, Clocks DEF Elsewhere, AudioTypes
<1>2. ASSUME track.started
      PROVE  t0' # None /\ BeginsInStep(track)' /\ held' = <<>> /\ Reached(track, now)'
  <2>1. t0 # None /\ t0' = t0 /\ held' = <<>> /\ BeginsInStep(track) /\ Reached(track, now)
    BY <1>1, <1>2 DEF TrackInStep, Elsewhere
  <2>2. t0 \in Nat
    BY <2>1, Clocks
  <2>3. Reached(track, now)'
    <3>1. PICK n \in Nat, m \in Nat : n = now' /\ m = now /\ m <= n
      BY <1>1
    <3>2. Reached(track, n)
      BY <1>1, <2>1, <2>2, <3>1, ReachedLater
    <3>3. n <= now \/ UNCHANGED clock
      BY <3>1, TimeGoesOn DEF Tick
    <3>4. Pause => LastResumed <= n
      BY <3>1 DEF AnyPauses, Pause
    <3>5. Reached(track, n)'
      BY <1>1, <2>2, <3>2, <3>3, <3>4, ReachedStays
    <3> QED
      BY <3>1, <3>5 DEF Reached
  <2>4. BeginsInStep(track)'
    <3>1. track.origin \in Nat /\ track.origin <= now'
      BY <1>1, <2>1 DEF TrackStates, BeginsInStep
    <3> QED
      BY <1>1, <2>1, <3>1 DEF BeginsInStep, Zero
  <2> QED
    BY <2>1, <2>3, <2>4
<1>3. InStep(track, written)'
  <2>1. CASE ~track.started
    <3>1. written' = <<>>
      BY <1>1, <2>1 DEF TrackInStep
    <3> QED
      BY <3>1 DEF InStep
  <2>2. CASE track.started
    <3>1. t0' = t0
      BY <1>1, <2>2 DEF TrackInStep
    <3> QED
      BY <1>1, <3>1 DEF TrackInStep, InStep
  <2> QED
    BY <2>1, <2>2
<1>4. ~track.started => /\ track.base = 0 /\ track.head = 0 /\ track.input = 1
                        /\ track.excised = 0 /\ track.behind = 0 /\ written = <<>>
  BY DEF TrackInStep
<1> QED
  BY <1>1, <1>2, <1>3, <1>4 DEF TrackInStep

-----------------------------------------------------------------------------
(* The aenc thread takes an item off the queue.                            *)

LEMMA QueueShifts ==
  ASSUME AudioTypes, AencPops
  PROVE  /\ queue \in Seq(Items) /\ Len(queue) \in Nat /\ 1 <= Len(queue)
         /\ Head(queue) = queue[1] /\ queue[1] \in Items
         /\ Len(queue') = Len(queue) - 1
         /\ \A i \in 1 .. Len(queue') : queue'[i] = queue[i + 1] /\ i + 1 \in 1 .. Len(queue)
<1>1. queue \in Seq(Items) /\ queue # <<>> /\ queue' = Tail(queue)
  BY DEF AudioTypes, AencPops
<1>2. Len(queue) \in Nat /\ Len(queue) # 0
  BY <1>1, EmptySeq
<1>3. /\ Head(queue) = queue[1] /\ Head(queue) \in Items /\ Len(queue') = Len(queue) - 1
      /\ \A i \in 1 .. Len(queue') : queue'[i] = queue[i + 1]
  BY <1>1, HeadTailProperties
<1> QED
  BY <1>1, <1>2, <1>3

(* The rest of the system stands still.                                    *)
LEMMA PopLeaves ==
  ASSUME AencPops
  PROVE  UNCHANGED <<now, t0, clock, capture, silence, owner, pauses, lastEnd>>
BY DEF AencPops, epochVars, threads, bounds

(* Before the epoch.                                                       *)
LEMMA HoldKeeps ==
  ASSUME AudioTypes, Bounded, QueueInOrder, HeldInOrder, AencPops, t0 = None
  PROVE  \A i \in 1 .. Len(held') :
           /\ held'[i].kind # "migrate" /\ Reach(held'[i]) <= now
           /\ \A j \in 1 .. Len(queue') : Follows(held'[i], queue'[j])
<1>1. PICK item \in Items : item = queue[1] /\ item = Head(queue) /\ ItemFits(item)
  BY QueueShifts DEF QueueInOrder
<1>2. held' = Append(IF Len(held) >= Capacity THEN Tail(held) ELSE held, item)
  BY <1>1 DEF AencPops, Hold
<1>3. held \in Seq(Items) /\ Len(held) \in Nat /\ Capacity \in Nat /\ Capacity # 0
  BY Numbers DEF AudioTypes
<1>4. PICK kept \in Seq(Items) :
        /\ held' = Append(kept, item)
        /\ \A i \in 1 .. Len(kept) : \E k \in 1 .. Len(held) : kept[i] = held[k]
  <2>1. CASE Len(held) >= Capacity
    <3>1. held # <<>>
      BY <1>3, <2>1, EmptySeq
    <3>2. /\ Tail(held) \in Seq(Items) /\ Len(Tail(held)) = Len(held) - 1
          /\ \A i \in 1 .. Len(Tail(held)) : Tail(held)[i] = held[i + 1]
      BY <1>3, <3>1, HeadTailProperties
    <3>3. \A i \in 1 .. Len(Tail(held)) : i + 1 \in 1 .. Len(held)
      BY <1>3, <3>2
    <3> QED
      BY <1>2, <2>1, <3>2, <3>3
  <2>2. CASE ~(Len(held) >= Capacity)
    BY <1>2, <1>3, <2>2
  <2> QED
    BY <2>1, <2>2
<1>5. /\ Len(kept) \in Nat /\ Len(held') = Len(kept) + 1 /\ held'[Len(kept) + 1] = item
      /\ \A i \in 1 .. Len(kept) : held'[i] = kept[i]
  BY <1>4, AppendProperties
<1>6. ASSUME NEW k \in 1 .. Len(held)
      PROVE  /\ held[k].kind # "migrate" /\ Reach(held[k]) <= now
             /\ \A j \in 1 .. Len(queue') : Follows(held[k], queue'[j])
  BY QueueShifts DEF HeldInOrder
<1>7. /\ item.kind # "migrate" /\ Reach(item) <= now
      /\ \A j \in 1 .. Len(queue') : Follows(item, queue'[j])
  <2>1. ASSUME NEW j \in 1 .. Len(queue')
        PROVE  Follows(item, queue'[j])
    <3>1. queue'[j] = queue[j + 1] /\ j + 1 \in 1 .. Len(queue) /\ 1 \in 1 .. Len(queue) /\ 1 < j + 1
      BY QueueShifts
    <3> QED
      BY <1>1, <3>1 DEF QueueInOrder
  <2> QED
    BY <1>1, <2>1 DEF ItemFits
<1> SUFFICES ASSUME NEW i \in 1 .. Len(held')
             PROVE  /\ held'[i].kind # "migrate" /\ Reach(held'[i]) <= now
                    /\ \A j \in 1 .. Len(queue') : Follows(held'[i], queue'[j])
  OBVIOUS
<1>8. CASE i \in 1 .. Len(kept)
  <2>1. PICK k \in 1 .. Len(held) : held'[i] = held[k]
    BY <1>4, <1>5, <1>8
  <2> QED
    BY <1>6, <2>1
<1>9. CASE i = Len(kept) + 1
  BY <1>5, <1>7, <1>9
<1> QED
  BY <1>5, <1>8, <1>9

(* After the epoch: what is on the queue's head, and before it whatever    *)
(* was held, is placed.                                                    *)
HeldWithin(u) == \A i \in 1 .. Len(held) : Reach(held[i]) <= u

GoneOn(new, item) ==
  \/ /\ new.input = track.input /\ (track.input > 1 => new.origin = track.origin)
     /\ From(new) = From(track) /\ Zero(new) = Zero(track)
  \/ /\ item.kind = "migrate" /\ new.started
     /\ new.origin = item.qpc /\ new.input = item.endpoint /\ Zero(new) = TimelineTime(item.qpc)

KeptInReach(new, item) ==
  \A u \in Nat : /\ t0 <= u /\ Reach(item) <= u /\ HeldWithin(u) /\ Sound(track, u)
                 /\ track.started => Reached(track, u)
                 => Reached(new, u)

LEMMA SoundPop ==
  ASSUME AudioTypes, t0 \in Nat, NEW item \in Items, NEW new, GoneOn(new, item),
         NEW q \in Nat, Sound(track, q)
  PROVE  Sound(new, q)
<1>1. CASE From(new) = From(track) /\ Zero(new) = Zero(track)
  BY <1>1 DEF Sound
<1>2. CASE new.started /\ new.origin = item.qpc /\ Zero(new) = TimelineTime(item.qpc)
  <2>1. item.qpc \in Int /\ q \in Int /\ From(new) = item.qpc
    BY <1>2 DEF Items, From
  <2>2. item.qpc <= q => TimelineTime(item.qpc) <= TimelineTime(q)
    BY <2>1, TimeRises
  <2> QED
    BY <1>2, <2>1, <2>2 DEF Sound
<1> QED
  BY <1>1, <1>2 DEF GoneOn

LEMMA FitsNow ==
  ASSUME AudioInv, t0 \in Nat, NEW item \in Items, ItemFits(item), track.started
  PROVE  Fits(track, item)
<1>1. owner.seam \in Nat /\ owner.seam <= now /\ now \in Nat /\ item.qpc \in Nat
  BY Threads, Clocks DEF AudioInv, SeamsInOrder, Items
<1>2. item.kind = "migrate" => item.qpc <= now
  BY <1>1 DEF ItemFits
<1> QED
  BY <1>2 DEF ItemFits, Fits

LEMMA PlacedOnTheTrack ==
  ASSUME Undisturbed, AudioInv, t0 \in Nat, track.started, NEW item \in Items, ItemFits(item)
  PROVE  /\ InGoodStep(Placed(item)) /\ GoneOn(Placed(item).track, item)
         /\ KeptInReach(Placed(item).track, item)
<1>1. track \in TrackStates /\ <<>> \in Seq(Pieces) /\ Len(<<>>) = 0
  BY DEF AudioInv, AudioTypes
<1>2. PICK s : s = [track |-> track, written |-> <<>>]
  OBVIOUS
<1>3. s \in AencStates /\ s.track = track /\ s.written = <<>>
  BY <1>1, <1>2 DEF AencStates
<1>4. InGoodStep(s)
  <2>1. BeginsInStep(track) /\ 1 <= track.input
    BY DEF AudioInv, TrackInStep, SeamsInOrder
  <2>2. InStep(track, <<>>)
    BY <1>1 DEF InStep
  <2> QED
    BY <1>3, <2>1, <2>2 DEF InGoodStep
<1>5. Fits(s.track, item)
  BY <1>3, FitsNow
<1>6. Placed(item) = Place(s, item)
  BY <1>2 DEF Placed
<1>7. AudioTypes /\ AnyPauses /\ Duration <= Period
  BY DEF AudioInv, Undisturbed
<1>8. /\ InGoodStep(Place(s, item)) /\ Carries(s.track, Place(s, item).track, Reach(item))
      /\ item.kind # "migrate" => SameTimeline(s.track, Place(s, item).track)
      /\ item.kind = "migrate" => Begun(s.track, Place(s, item).track, item)
  BY <1>4, <1>5, <1>7, PlaceKeeps
<1>9. GoneOn(Placed(item).track, item)
  <2>1. CASE SameTimeline(track, Placed(item).track)
    BY <2>1, SameZero DEF GoneOn, SameTimeline
  <2>2. CASE item.kind = "migrate" /\ ~SameTimeline(track, Placed(item).track)
    BY <1>3, <1>6, <1>8, <2>2 DEF GoneOn, Begun
  <2> QED
    BY <1>3, <1>6, <1>8, <2>1, <2>2
<1>10. KeptInReach(Placed(item).track, item)
  BY <1>3, <1>6, <1>8 DEF KeptInReach, Carries
<1> QED
  BY <1>6, <1>8, <1>9, <1>10

LEMMA StartsInStep ==
  ASSUME Undisturbed, AudioInv, t0 \in Nat, ~track.started
  PROVE  /\ InGoodStep(Started) /\ Started.track.input = 1 /\ Started.track.origin = t0
         /\ From(Started.track) = From(track) /\ Zero(Started.track) = Zero(track)
         /\ From(track) = t0 /\ Zero(track) = 0
         /\ \A u \in Nat : t0 <= u /\ Sound(track, u) => Reached(Started.track, u)
<1>1. track.base = 0 /\ track.head = 0 /\ track.input = 1 /\ track.excised = 0 /\ track.behind = 0
  BY DEF AudioInv, TrackInStep
<1>2. AudioTypes
  BY DEF AudioInv
<1>3. PICK s \in AencStates :
        /\ s = Started /\ s.written = <<>> /\ s.track.started /\ s.track.origin = t0
        /\ s.track.base = 0 /\ s.track.head = 0 /\ s.track.input = 1
        /\ s.track.excised = 0 /\ s.track.behind = 0
  BY <1>1, <1>2, StartedFields
<1>4. From(track) = t0 /\ Zero(track) = 0 /\ From(s.track) = t0 /\ Zero(s.track) = 0
  BY <1>3 DEF From, Zero
<1>5. BeginsInStep(s.track)
  <2>1. t0 <= now
    BY <1>2, Clocks DEF None
  <2>2. (1 - 1) * Lead = 0
    BY LeadIsNatural
  <2>3. s.track.base <= Zero(s.track) + (s.track.input - 1) * Lead
    BY <1>3, <1>4, <2>2
  <2> QED
    BY <1>3, <2>1, <2>3 DEF BeginsInStep
<1>6. InStep(s.track, s.written)
  <2>1. Len(<<>>) = 0
    OBVIOUS
  <2> QED
    BY <1>3, <2>1 DEF InStep
<1>7. ASSUME NEW u \in Nat, t0 <= u, Sound(track, u)
      PROVE  Reached(s.track, u)
  <2>1. PICK d \in Int : d = TimelineTime(u)
    BY <1>2, TimelineIsInteger
  <2>2. 0 <= d
    BY <1>4, <1>7, <2>1 DEF Sound, None
  <2>3. 0 <= d - 0 + Lead
    BY <2>2, LeadIsNatural
  <2> QED
    BY <1>3, <1>4, <1>7, <2>1, <2>2, <2>3 DEF Reached
<1> QED
  BY <1>3, <1>4, <1>5, <1>6, <1>7 DEF InGoodStep

LEMMA PlacedFromTheStart ==
  ASSUME Undisturbed, AudioInv, t0 \in Nat, ~track.started, NEW item \in Items, ItemFits(item),
         \A i \in 1 .. Len(held) : Follows(held[i], item)
  PROVE  /\ InGoodStep(Placed(item)) /\ GoneOn(Placed(item).track, item)
         /\ KeptInReach(Placed(item).track, item)
<1>1. held \in Seq(Items) /\ AudioTypes /\ AnyPauses /\ Duration <= Period
  BY DEF AudioInv, AudioTypes, Undisturbed
<1> DEFINE items == Append(held, item)
           L == Len(held) + 1
<1>2. /\ items \in Seq(Items) /\ Len(items) = L /\ Len(held) \in Nat /\ items[L] = item
      /\ \A i \in 1 .. Len(held) : items[i] = held[i]
  BY <1>1, AppendProperties
<1>3. Placed(item) = Replayed(Started, items)
  BY DEF Placed, Started
<1> HIDE DEF items
<1> DEFINE U == {u \in Nat : t0 <= u /\ Reach(item) <= u /\ HeldWithin(u) /\ Sound(track, u)}
           Good(n, s) == /\ InGoodStep(s) /\ \A u \in U : Reached(s.track, u)
                         /\ \/ SameTimeline(Started.track, s.track)
                            \/ /\ n = L /\ item.kind = "migrate" /\ s.track.started
                               /\ s.track.origin = item.qpc /\ s.track.input = item.endpoint
                               /\ Zero(s.track) = TimelineTime(item.qpc)
<1>4. PICK G : G = [n \in Nat |-> {s \in AencStates : Good(n, s)}]
  OBVIOUS
<1>5. \A u \in U : u \in Nat /\ t0 <= u /\ Reach(item) <= u /\ HeldWithin(u)
                    /\ Sound(track, u)
  OBVIOUS
<1>6. Started \in G[0]
  <2>1. Good(0, Started)
    BY <1>5, StartsInStep, SameIsCarried
  <2> HIDE DEF Good
  <2> QED
    BY <1>1, <1>4, <2>1, StartedFields
<1>7. ASSUME NEW n \in 1 .. L, NEW s \in AencStates, Good(n - 1, s)
      PROVE  Good(n, Place(s, items[n])) /\ Place(s, items[n]) \in AencStates
  <2>1. PICK x \in Items : x = items[n] /\ (x = item \/ (n \in 1 .. Len(held) /\ x = held[n]))
    BY <1>2
  <2>2. SameTimeline(Started.track, s.track) /\ InGoodStep(s) /\ \A u \in U : Reached(s.track, u)
    BY <1>2, <1>7
  <2>11. s.track.input = 1 /\ From(s.track) = From(track) /\ Zero(s.track) = Zero(track)
    <3>1. Zero(s.track) = Zero(Started.track) /\ From(s.track) = From(Started.track)
      BY <2>2, SameZero
    <3> QED
      BY <2>2, <3>1, StartsInStep DEF SameTimeline
  <2>3. x.kind = "migrate" => x = item /\ n = L
    <3>1. \A i \in 1 .. Len(held) : held[i].kind # "migrate"
      BY DEF AudioInv, HeldInOrder
    <3>2. n = L \/ n \in 1 .. Len(held)
      BY <1>2
    <3> QED
      BY <1>2, <2>1, <3>1, <3>2
  <2>4. \A u \in U : Reach(x) <= u
    BY <1>5, <2>1 DEF HeldWithin
  <2>5. item.kind = "migrate" => /\ t0 <= item.qpc /\ item.qpc <= now /\ Outside(item.qpc)
                                 /\ 1 < item.endpoint /\ item.qpc \in U
    <3> SUFFICES ASSUME item.kind = "migrate"
                 PROVE  /\ t0 <= item.qpc /\ item.qpc <= now /\ Outside(item.qpc)
                        /\ 1 < item.endpoint /\ item.qpc \in U
      OBVIOUS
    <3>1. item.qpc \in Nat /\ Reach(item) = item.qpc /\ Reach(item) <= item.qpc
      BY DEF Items, Reach
    <3>2. /\ t0 <= item.qpc /\ Outside(item.qpc) /\ track.input < item.endpoint /\ Reach(item) <= now
          /\ Sound(track, item.qpc)
      BY DEF ItemFits
    <3>3. HeldWithin(item.qpc)
      BY DEF HeldWithin, Follows
    <3>4. track.input = 1
      BY DEF AudioInv, TrackInStep
    <3> QED
      BY <3>1, <3>2, <3>3, <3>4
  <2>6. Fits(s.track, x)
    <3>1. x.kind = "buffer" => Sound(track, x.qpc)
      <4>1. x = item => (x.kind = "buffer" => Sound(track, x.qpc))
        BY DEF ItemFits
      <4>2. \A i \in 1 .. Len(held) : held[i].kind = "buffer" => Sound(track, held[i].qpc)
        BY DEF AudioInv, HeldInOrder
      <4> QED
        BY <2>1, <4>1, <4>2
    <3>2. x.kind = "buffer" => Sound(s.track, x.qpc)
      BY <2>11, <3>1 DEF Sound
    <3> QED
      BY <2>2, <2>3, <2>5, <2>11, <3>2 DEF Fits
  <2>7. /\ InGoodStep(Place(s, x)) /\ Carries(s.track, Place(s, x).track, Reach(x))
        /\ x.kind # "migrate" => SameTimeline(s.track, Place(s, x).track)
        /\ x.kind = "migrate" => Begun(s.track, Place(s, x).track, x)
    BY <1>1, <2>2, <2>6, PlaceKeeps
  <2>8. \A u \in U : Reached(Place(s, x).track, u)
    BY <1>5, <2>2, <2>4, <2>7 DEF Carries
  <2>9. \/ SameTimeline(Started.track, Place(s, x).track)
        \/ /\ n = L /\ item.kind = "migrate" /\ Place(s, x).track.started
           /\ Place(s, x).track.origin = item.qpc /\ Place(s, x).track.input = item.endpoint
           /\ Zero(Place(s, x).track) = TimelineTime(item.qpc)
    BY <2>2, <2>3, <2>7 DEF SameTimeline, Begun
  <2>10. Place(s, x) \in AencStates
    BY <2>7 DEF InGoodStep
  <2> QED
    BY <2>1, <2>7, <2>8, <2>9, <2>10
<1>8. Replayed(Started, items) \in G[L]
  <2> HIDE DEF Good
  <2>1. ASSUME NEW n \in 1 .. Len(items), NEW s \in G[n - 1]
        PROVE  Place(s, items[n]) \in G[n]
    <3>1. n \in Nat /\ n - 1 \in Nat /\ n \in 1 .. L
      BY <1>2
    <3>2. s \in AencStates /\ Good(n - 1, s)
      BY <1>4, <3>1
    <3> QED
      BY <1>4, <1>7, <3>1, <3>2
  <2>2. Len(items) \in Nat
    BY <1>2
  <2>3. Replayed(Started, items) \in G[Len(items)]
    BY <1>6, <2>1, <2>2, ReplayKeeps
  <2> QED
    BY <1>2, <2>3
<1>9. PICK r : r = Placed(item) /\ Good(L, r)
  <2> HIDE DEF Good
  <2>1. L \in Nat
    BY <1>2
  <2> QED
    BY <1>3, <1>4, <1>8, <2>1
<1>10. GoneOn(r.track, item)
  <2>1. track.input = 1
    BY DEF AudioInv, TrackInStep
  <2>2. CASE SameTimeline(Started.track, r.track)
    <3>1. Zero(r.track) = Zero(Started.track) /\ From(r.track) = From(Started.track)
      BY <2>2, SameZero
    <3> QED
      BY <2>1, <2>2, <3>1, StartsInStep DEF GoneOn, SameTimeline
  <2> QED
    BY <1>9, <2>2 DEF GoneOn
<1>11. KeptInReach(r.track, item)
  BY <1>9 DEF KeptInReach
<1> QED
  BY <1>9, <1>10, <1>11

(* Popping moves neither the clock nor the epoch.                          *)
LEMMA PopMoves ==
  ASSUME UNCHANGED <<clock, t0>>, NEW q
  PROVE  /\ Sound(track, q)' = Sound(track', q) /\ Reached(track, q)' = Reached(track', q)
         /\ Outside(q)' = Outside(q)
BY DEF Sound, Reached, From, Zero, TimelineTime, Outside, DuringAPause

LEMMA ItemFitsStill ==
  ASSUME AudioInv, AencPops, t0 \in Nat, NEW item \in Items, item = queue[1],
         GoneOn(track', item), KeptInReach(track', item), BeginsInStep(track'),
         NEW i \in 1 .. Len(queue')
  PROVE  ItemFits(queue[i])'
<1>1. AudioTypes /\ QueueInOrder /\ HeldInOrder
  BY DEF AudioInv
<1>2. queue'[i] = queue[i + 1] /\ i + 1 \in 1 .. Len(queue) /\ 1 \in 1 .. Len(queue) /\ 1 < i + 1
  BY <1>1, QueueShifts
<1>3. PICK x \in Items : x = queue'[i] /\ x = queue[i + 1] /\ ItemFits(x) /\ Follows(item, x)
  <2>1. queue[i + 1] \in Items
    BY <1>1, <1>2 DEF AudioTypes
  <2>2. ItemFits(queue[i + 1]) /\ Follows(item, queue[i + 1])
    BY <1>1, <1>2 DEF QueueInOrder
  <2> QED
    BY <1>2, <2>1, <2>2
<1>4. UNCHANGED <<now, t0, clock, capture, silence, owner, pauses, lastEnd>>
  BY PopLeaves
<1>5. x.kind = "buffer" /\ track'.input > 1 => track'.origin <= x.qpc
  BY <1>3 DEF ItemFits, GoneOn, Follows
<1>8. x.qpc \in Nat /\ (x.kind # "tick" => Sound(track, x.qpc) /\ Sound(track', x.qpc))
  <2>1. x.qpc \in Nat /\ (x.kind # "tick" => Sound(track, x.qpc))
    BY <1>3 DEF ItemFits, Items
  <2> QED
    BY <1>1, <2>1, SoundPop
<1>6. x.kind = "migrate" => /\ track'.input < x.endpoint
                            /\ track'.started => Reached(track', x.qpc)
  <2> SUFFICES ASSUME x.kind = "migrate"
               PROVE  track'.input < x.endpoint /\ Reached(track', x.qpc)
    OBVIOUS
  <2>1. /\ track.input < x.endpoint /\ t0 <= x.qpc /\ (track.started => Reached(track, x.qpc))
        /\ Reach(item) <= x.qpc /\ (item.kind = "migrate" => item.endpoint < x.endpoint)
    BY <1>3 DEF ItemFits, Follows
  <2>2. track'.input < x.endpoint
    BY <2>1 DEF GoneOn
  <2>3. HeldWithin(x.qpc)
    BY <1>1, <1>2, <1>3 DEF HeldWithin, HeldInOrder, Follows
  <2>4. x.qpc \in Nat
    BY DEF Items
  <2> QED
    BY <1>8, <2>1, <2>2, <2>3, <2>4 DEF KeptInReach
<1>7. ItemFits(x)'
  <2>1. /\ x.kind # "tick" => Sound(track, x.qpc)'
        /\ x.kind = "migrate" /\ track'.started => Reached(track, x.qpc)'
        /\ x.kind = "migrate" => Outside(x.qpc)'
    <3>1. x.kind = "migrate" => Outside(x.qpc)
      BY <1>3 DEF ItemFits
    <3> QED
      BY <1>4, <1>6, <1>8, <3>1, PopMoves
  <2>2. x.kind # "migrate" => ItemFits(x)'
    BY <1>3, <1>4, <1>5, <2>1 DEF ItemFits, Reach, Sound, From, Zero
  <2>3. x.kind = "migrate" => ItemFits(x)'
    BY <1>3, <1>4, <1>6, <2>1 DEF ItemFits, Reach, Outside, DuringAPause, Reached, Sound, From, Zero
  <2> QED
    BY <2>2, <2>3
<1> QED
  BY <1>3, <1>7 DEF ItemFits, Reach, Outside, DuringAPause, Reached, Sound, From, Zero

LEMMA PopQueue ==
  ASSUME AudioInv, AencPops, \A i \in 1 .. Len(queue') : ItemFits(queue[i])'
  PROVE  QueueInOrder'
<1>1. AudioTypes /\ QueueInOrder
  BY DEF AudioInv
<1>2. ASSUME NEW i \in 1 .. Len(queue'), NEW j \in 1 .. Len(queue'), i < j
      PROVE  Follows(queue'[i], queue'[j])
  <2>1. /\ queue'[i] = queue[i + 1] /\ i + 1 \in 1 .. Len(queue)
        /\ queue'[j] = queue[j + 1] /\ j + 1 \in 1 .. Len(queue)
    BY <1>1, QueueShifts
  <2>2. i + 1 < j + 1
    BY <1>2
  <2> QED
    BY <1>1, <2>1, <2>2 DEF QueueInOrder
<1> QED
  BY <1>2 DEF QueueInOrder, Follows, Reach

LEMMA PopSeams ==
  ASSUME AudioInv, AencPops, AudioTypes', NEW item \in Items, ItemFits(item), GoneOn(track', item)
  PROVE  SeamsInOrder'
<1>1. SeamsInOrder /\ UNCHANGED <<now, t0, clock, capture, silence, owner, pauses, lastEnd>>
  BY PopLeaves DEF AudioInv
<1>2. /\ track'.input \in Nat /\ track.input \in Nat /\ capture.endpoint \in Nat /\ owner.seam \in Nat
  BY Threads DEF AudioInv, AudioTypes, TrackStates
<1>3. /\ 1 <= track'.input /\ track'.input <= capture.endpoint
      /\ owner.at = "seam" => track'.input < capture.endpoint
      /\ track'.input > 1 => track'.origin <= owner.seam
  <2>1. CASE track'.input = track.input /\ (track.input > 1 => track'.origin = track.origin)
    BY <1>1, <2>1 DEF SeamsInOrder
  <2>2. CASE item.kind = "migrate" /\ track'.origin = item.qpc /\ track'.input = item.endpoint
    <3>1. /\ item.qpc <= owner.seam /\ track.input < item.endpoint /\ item.endpoint <= capture.endpoint
          /\ owner.at = "seam" => item.endpoint < capture.endpoint
      BY <2>2 DEF ItemFits
    <3>2. 1 <= track.input
      BY <1>1 DEF SeamsInOrder
    <3>3. 1 <= track'.input
      BY <1>2, <2>2, <3>1, <3>2
    <3> QED
      BY <2>2, <3>1, <3>3
  <2> QED
    BY <2>1, <2>2 DEF GoneOn
<1> QED
  BY <1>1, <1>3 DEF SeamsInOrder, Outside, DuringAPause

LEMMA PopStep ==
  ASSUME Undisturbed, AudioInv, Bounded, AudioTypes', AencPops
  PROVE  QueueInOrder' /\ HeldInOrder' /\ SeamsInOrder' /\ OnTheWay' /\ TrackInStep'
<1>1. AudioTypes /\ AnyPauses /\ QueueInOrder /\ HeldInOrder /\ SeamsInOrder /\ OnTheWay /\ TrackInStep
  BY DEF AudioInv
<1>2. UNCHANGED <<now, t0, clock, capture, silence, owner, pauses, lastEnd>>
  BY PopLeaves
<1>3. PICK item \in Items : item = queue[1] /\ item = Head(queue) /\ ItemFits(item)
  BY <1>1, QueueShifts DEF QueueInOrder
<1>4. ASSUME \A q \in Nat : Sound(track, q) => Sound(track', q)
      PROVE  OnTheWay'
  <2>1. ASSUME NEW q \in Nat, Sound(track, q)
        PROVE  Sound(track, q)'
    BY <1>2, <1>4, <2>1, PopMoves
  <2>2. ASSUME capture'.at \in {"noted", "pushing"}
        PROVE  Sound(track, capture.item.qpc)'
    <3>1. PICK q \in Nat : q = capture'.item.qpc /\ q = capture.item.qpc /\ Sound(track, q)
      BY <1>1, <1>2, <2>2 DEF OnTheWay, AudioTypes, Items
    <3>2. Sound(track, q)'
      BY <2>1, <3>1
    <3> QED
      BY <3>1, <3>2 DEF Sound
  <2>3. \A q \in Recent' : Sound(track, q)'
    <3> SUFFICES ASSUME NEW q \in Recent'
                 PROVE  Sound(track, q)'
      OBVIOUS
    <3>1. q \in Nat /\ q \in Recent
      BY <1>2 DEF Recent
    <3> QED
      BY <1>1, <2>1, <3>1 DEF OnTheWay
  <2> QED
    BY <1>1, <1>2, <2>2, <2>3 DEF OnTheWay, Reach
<1>5. CASE t0 = None
  <2>1. UNCHANGED <<track, written>>
    BY <1>5 DEF AencPops
  <2>2. ASSUME NEW i \in 1 .. Len(queue')
        PROVE  ItemFits(queue[i])'
    <3>1. queue'[i] = queue[i + 1] /\ ItemFits(queue[i + 1])
      BY <1>1, QueueShifts DEF QueueInOrder
    <3> QED
      BY <1>2, <2>1, <3>1
      DEF ItemFits, Reach, Outside, DuringAPause, Reached, Sound, From, Zero, TimelineTime
  <2>3. QueueInOrder'
    BY <2>2, PopQueue
  <2>4. \A i \in 1 .. Len(held') :
           /\ held'[i].kind # "migrate" /\ Reach(held'[i]) <= now
           /\ \A j \in 1 .. Len(queue') : Follows(held'[i], queue'[j])
    BY <1>1, <1>5, HoldKeeps
  <2>5. HeldInOrder'
    <3>1. \A i \in 1 .. Len(held') : Sound(track, held[i].qpc)'
      BY <1>2, <1>5 DEF Sound
    <3> QED
      BY <1>2, <2>4, <3>1 DEF HeldInOrder, Reach, Follows
  <2>6. GoneOn(track', item)
    BY <2>1 DEF GoneOn
  <2>7. SeamsInOrder'
    BY <1>3, <2>6, PopSeams
  <2>8. ~track.started
    BY <1>1, <1>5 DEF TrackInStep
  <2>9. TrackInStep'
    BY <1>1, <1>2, <2>1, <2>8 DEF TrackInStep, InStep
  <2>10. OnTheWay'
    BY <1>4, <2>1
  <2> QED
    BY <2>10, <2>3, <2>5, <2>7, <2>9
<1>6. CASE t0 # None
  <2>1. t0 \in Nat /\ t0 <= now /\ now \in Nat
    BY <1>1, <1>6, Clocks
  <2>2. \A i \in 1 .. Len(held) : Follows(held[i], item)
    <3>1. 1 \in 1 .. Len(queue)
      BY <1>1, QueueShifts
    <3> QED
      BY <1>1, <1>3, <3>1 DEF HeldInOrder
  <2>3. PICK r : /\ r = Placed(item) /\ InGoodStep(r) /\ GoneOn(r.track, item)
                 /\ KeptInReach(r.track, item)
    BY <1>3, <2>1, <2>2, PlacedOnTheTrack, PlacedFromTheStart
  <2>4. track' = r.track /\ written' = r.written /\ held' = IF track.started THEN held ELSE <<>>
    BY <1>3, <1>6, <2>3 DEF AencPops, Process
  <2>5. held' = <<>>
    BY <1>1, <2>4 DEF TrackInStep
  <2>6. BeginsInStep(track') /\ InStep(track', written') /\ GoneOn(track', item) /\ KeptInReach(track', item)
    BY <2>3, <2>4 DEF InGoodStep
  <2>7. QueueInOrder'
    BY <1>3, <2>1, <2>6, ItemFitsStill, PopQueue
  <2>8. HeldInOrder'
    <3>1. Len(<<>>) = 0
      OBVIOUS
    <3> QED
      BY <2>5, <3>1 DEF HeldInOrder
  <2>9. SeamsInOrder'
    BY <1>3, <2>6, PopSeams
  <2>10. Reached(track', now)
    <3>1. HeldWithin(now)
      BY <1>1 DEF HeldWithin, HeldInOrder
    <3>2. Reach(item) <= now
      BY <1>3 DEF ItemFits
    <3>3. track.started => Reached(track, now)
      BY <1>1 DEF TrackInStep
    <3>4. Sound(track, now)
      <4>1. now \in Recent
        BY <2>1, Numbers DEF Recent
      <4> QED
        BY <1>1, <4>1 DEF OnTheWay
    <3> QED
      BY <2>1, <2>6, <3>1, <3>2, <3>3, <3>4 DEF KeptInReach
  <2>11. BeginsInStep(track)'
    BY <1>2, <2>6 DEF BeginsInStep, Zero
  <2>12. Reached(track, now)'
    <3>1. Reached(track, now)' = Reached(track', now)
      BY <1>2 DEF Reached, Zero, TimelineTime
    <3> QED
      BY <2>10, <3>1
  <2>13. InStep(track, written)'
    BY <1>2, <2>6 DEF InStep
  <2>14. track'.started /\ t0' # None
    BY <1>2, <1>6, <2>6 DEF BeginsInStep
  <2>15. TrackInStep'
    BY <2>5, <2>11, <2>12, <2>13, <2>14 DEF TrackInStep
  <2>16. OnTheWay'
    BY <1>1, <1>3, <1>4, <2>1, <2>6, SoundPop
  <2> QED
    BY <2>7, <2>8, <2>9, <2>15, <2>16
<1> QED
  BY <1>5, <1>6

LEMMA InStepInitially ==
  Init => AudioInv /\ Bounded
<1> SUFFICES ASSUME Init
             PROVE  AudioInv /\ Bounded
  OBVIOUS
<1>1. AudioTypes /\ Bounded
  BY TypesInitially
<1>2. /\ now = 0 /\ pauses = 0 /\ queue = <<>> /\ held = <<>> /\ written = <<>> /\ lastEnd = 0
      /\ Len(<<>>) = 0
  BY DEF Init
<1>3. clock.paused = FALSE /\ clock.total = 0 /\ clock.lastBegin = 0 /\ clock.lastSpan = 0
  BY DEF Init
<1>4. owner.at = "opening" /\ owner.seam = 0 /\ capture.at = "idle" /\ capture.endpoint = 1 /\ silence.qpc = 0
  BY DEF Init
<1>5. /\ track.started = FALSE /\ track.origin = 0 /\ track.base = 0 /\ track.head = 0
      /\ track.input = 1 /\ track.excised = 0 /\ track.behind = 0 /\ t0 = None
  BY DEF Init
<1>6. AnyPauses
  BY <1>2, <1>3 DEF AnyPauses, LastResumed
<1>7. QueueInOrder /\ HeldInOrder
  BY <1>2 DEF QueueInOrder, HeldInOrder
<1>8. SeamsInOrder
  BY <1>2, <1>4, <1>5 DEF SeamsInOrder, Outside
<1>9. OnTheWay
  BY <1>2, <1>4, <1>5 DEF OnTheWay, Sound
<1>10. TrackInStep
  BY <1>2, <1>5 DEF TrackInStep, InStep
<1> QED
  BY <1>1, <1>6, <1>7, <1>8, <1>9, <1>10 DEF AudioInv

(* AudioStaysInStep: wherever a packet's stamp says, there it lies, to     *)
(* within one period and what each change of endpoint adds, through        *)
(* silence, packets late and early, and any number of pauses and changes   *)
(* of endpoint in any order (AudioTimeline::accept and fill_to,            *)
(* AudioEncodePath's aenc thread): it falls behind by no more than the     *)
(* pauses that were over when a change of endpoint restarted its timeline. *)
(* For every size of packet, period, jitter and queue.  Assumed: a packet  *)
(* is no longer than a period (longer ones that are trimmed may span a     *)
(* pause); a pause begins neither between a seam's stamp and its being     *)
(* queued nor while something from before the last one is on its way, and  *)
(* no time passes between that stamp and the queue.                        *)
THEOREM SoundStaysInStep ==
  ASSUME Duration <= Period, RaceNames \subseteq Excluded
  PROVE  Spec => []AudioStaysInStep
<1>1. Undisturbed
  BY DEF Undisturbed
<1>2. (AudioInv /\ Bounded) /\ [Next]_vars => (AudioInv /\ Bounded)'
  <2> SUFFICES ASSUME AudioInv, Bounded, [Next]_vars
               PROVE  AudioInv' /\ Bounded'
    OBVIOUS
  <2>1. AudioTypes /\ AnyPauses /\ QueueInOrder /\ HeldInOrder /\ SeamsInOrder /\ OnTheWay /\ TrackInStep
    BY DEF AudioInv
  <2>2. AudioTypes' /\ Bounded'
    BY <2>1, TypesStep
  <2>3. AnyPauses'
    BY <2>1, <2>2, AnyPausesStep
  <2>4. QueueInOrder' /\ HeldInOrder' /\ SeamsInOrder' /\ OnTheWay' /\ TrackInStep'
    <3>1. CASE AencPops
      BY <1>1, <2>2, <3>1, PopStep
    <3>2. CASE ~AencPops
      <4>1. Elsewhere
        BY <2>1, <3>2, NothingElse
      <4>2. QueueInOrder' /\ HeldInOrder'
        BY <1>1, <2>1, <2>2, <4>1, QueueStep
      <4>3. SeamsInOrder'
        BY <1>1, <2>1, <2>2, <4>1, SeamsStep
      <4>4. OnTheWay'
        BY <1>1, <2>1, <2>2, <4>1, OnTheWayStep
      <4>5. TrackInStep'
        BY <1>1, <2>1, <2>2, <4>1, TrackStep
      <4> QED
        BY <4>2, <4>3, <4>4, <4>5
    <3> QED
      BY <3>1, <3>2
  <2> QED
    BY <2>2, <2>3, <2>4 DEF AudioInv
<1>3. AudioInv => AudioStaysInStep
  <2> SUFFICES ASSUME AudioInv, NEW i \in DOMAIN written,
                      written[i].qpc >= t0, ~written[i].paused
               PROVE  written[i].at \in written[i].due - (Period - 1) - track.behind
                                          .. written[i].due + Slack + Ahead
    BY DEF AudioStaysInStep
  <2>1. InStep(track, written) /\ written \in Seq(Pieces)
    BY DEF AudioInv, TrackInStep, AudioTypes
  <2>2. i \in 1 .. Len(written)
    BY <2>1
  <2>3. PICK j \in Nat : j = track.input - 1
    <3>1. track.input \in Nat /\ 1 <= track.input
      BY DEF AudioInv, AudioTypes, TrackStates, SeamsInOrder
    <3> QED
      BY <3>1
  <2>4. PICK c \in Nat, d \in Nat : c = Period - 1 /\ d = Duration /\ Lead = c + d
    BY Numbers, LeadIsNatural
  <2>5. Slack = (j + 1) * c /\ Ahead = j * d
    BY <2>3, <2>4 DEF Slack, Ahead, Migrations
  <2>6. j * c \in Nat /\ j * d \in Nat /\ (j + 1) * c = j * c + c /\ j * (c + d) = j * c + j * d
    OBVIOUS
  <2>7. PICK x \in Int, y \in Int : x = written[i].at /\ y = written[i].due
    <3>1. written[i] \in Pieces
      BY <2>1, <2>2
    <3> QED
      BY <3>1 DEF Pieces
  <2>8. x \in y - (Period - 1) - track.behind .. y + (Period - 1) + (track.input - 1) * Lead
    BY <2>1, <2>2, <2>7 DEF InStep
  <2>9. y + (Period - 1) + (track.input - 1) * Lead = y + Slack + Ahead
    <3>1. (track.input - 1) * Lead = j * (c + d)
      BY <2>3, <2>4
    <3>2. y + c + (j * c + j * d) = y + (j * c + c) + j * d
      BY <2>6
    <3> QED
      BY <2>4, <2>5, <2>6, <3>1, <3>2
  <2> QED
    BY <2>7, <2>8, <2>9
<1> QED
  BY InStepInitially, <1>2, <1>3, PTL DEF Spec
=============================================================================
