--------------------------- MODULE Timeline_proofs ---------------------------
(***************************************************************************)
(* The pacer, the video track it times, the files that is cut into, the    *)
(* pauses cut out of it and the window that shows it all: what holds for   *)
(* every timebase and set of rates, every reordering depth of the encoder, *)
(* and any number of retimings, rebuilds, splits, pauses, requests,        *)
(* refusals and deaths.                                                    *)
(***************************************************************************)
EXTENDS VideoTimeline, Segments, PauseResume, GuiEngine, FiniteSetTheorems, TLAPS

-----------------------------------------------------------------------------
(* The pacer.                                                              *)

WrittenIsBehind == \A i \in DOMAIN written : written[i] <= lastPts

NothingBeforeStart == ~started => written = <<>> /\ lastIndex = -1 /\ lastPts = -1

(* OnGrid is what makes "the next slot is later" survive a retiming; that  *)
(* the PTS handed out are behind lastPts carries it to all of them.        *)
IInv == TypeOK /\ OnGrid /\ WrittenIsBehind /\ NothingBeforeStart

-----------------------------------------------------------------------------
(* Facts about slots and ticks: products of two variables, each in a lemma *)
(* of its own.                                                             *)

LEMMA TicksArePositive ==
    ASSUME NEW rate \in Rates
    PROVE  TicksPerFrame(rate) \in Nat \ {0}
  BY PacerAssumption DEF TicksPerFrame

LEMMA SlotsAscend ==
    ASSUME NEW i \in Int, NEW j \in Int, NEW t \in Nat, i <= j
    PROVE  i * t <= j * t
  OBVIOUS

LEMMA SlotsAscendStrictly ==
    ASSUME NEW i \in Int, NEW j \in Int, NEW t \in Nat \ {0}, i * t < j * t
    PROVE  i < j
  <1>1. j <= i => j * t <= i * t
    BY SlotsAscend
  <1> QED BY <1>1

LEMMA NextSlot ==
    ASSUME NEW i \in Int, NEW t \in Nat
    PROVE  (i + 1) * t = i * t + t /\ (i - 1) * t = i * t - t /\ i * t \in Int
  OBVIOUS

LEMMA SlotOf ==
    ASSUME NEW p \in Nat, NEW t \in Nat \ {0}
    PROVE  /\ p \div t \in Nat
           /\ (p \div t) * t <= p
           /\ p < (p \div t + 1) * t
  OBVIOUS

LEMMA IndexIsNatural ==
    ASSUME NEW elapsed \in Nat, TypeOK
    PROVE  QuantizeIndex(elapsed) \in Nat
  BY PacerAssumption DEF QuantizeIndex, TypeOK

(* The slot of lastPts on a new grid, in the words of OnGrid.              *)
LEMMA RetimedIndex ==
    ASSUME TypeOK, NEW rate \in Rates, lastPts >= 0
    PROVE  /\ IndexOnGrid(rate) \in Nat
           /\ IndexOnGrid(rate) * TicksPerFrame(rate) <= lastPts
           /\ lastPts < (IndexOnGrid(rate) + 1) * TicksPerFrame(rate)
  <1>1. lastPts \in Nat
    BY DEF TypeOK
  <1> QED BY <1>1, TicksArePositive, SlotOf DEF IndexOnGrid

-----------------------------------------------------------------------------
LEMMA InitEstablishes == Init => IInv
  <1> SUFFICES ASSUME Init PROVE IInv
    OBVIOUS
  <1>0. <<>> \in Seq(Nat)
    OBVIOUS
  <1>1. TypeOK
    BY <1>0, PacerAssumption DEF Init, TypeOK
  <1>2. Ticks \in Nat \ {0}
    BY PacerAssumption, TicksArePositive DEF Init, Ticks
  <1>3. OnGrid
    BY <1>2 DEF Init, OnGrid
  <1> QED BY <1>1, <1>3 DEF Init, IInv, WrittenIsBehind, NothingBeforeStart

(* Every step either hands out nothing, or hands out slots that continue   *)
(* the timeline; the latter is the business of DecideEmits alone.          *)
Continues ==
    \A i \in HandedOut :
        /\ written'[i] > lastPts
        /\ \A j \in 1 .. i - 1 : written'[i] > written'[j]
        /\ lastIndex >= 0 =>
              written'[i] <= Ticks + (IF i - 1 \in HandedOut THEN written'[i - 1] ELSE lastPts)

LEMMA QuietSteps ==
    ASSUME written' = written
    PROVE  Continues
  BY DEF Continues, HandedOut

LEMMA StartPreserves == ASSUME IInv, Start PROVE IInv'
  <1>0. Ticks \in Nat \ {0}
    BY TicksArePositive DEF IInv, TypeOK, Ticks
  <1>1. TypeOK'
    BY DEF IInv, TypeOK, Start, counters
  <1>2. OnGrid'
    BY <1>0 DEF Start, OnGrid, Ticks, TicksPerFrame
  <1>3. WrittenIsBehind' /\ NothingBeforeStart'
    BY DEF IInv, Start, WrittenIsBehind, NothingBeforeStart
  <1> QED BY <1>1, <1>2, <1>3 DEF IInv

(* Frames that are given no slot move a counter and nothing else.          *)
LEMMA RefusalsPreserve ==
    ASSUME IInv, Drop \/ DecideExcised
    PROVE  IInv' /\ written' = written
  <1>1. UNCHANGED <<fps, started, lastIndex, lastPts, written>>
    BY DEF Drop, DecideExcised
  <1>2. emitted' \in Nat /\ duplicated' \in Nat /\ dropped' \in Nat /\ excised' \in Nat /\ reserved' \in Nat
    BY DEF IInv, TypeOK, Drop, DecideExcised
  <1>3. TypeOK'
    BY <1>1, <1>2, Zenon DEF IInv, TypeOK
  <1> QED BY <1>1, <1>3 DEF IInv, OnGrid, Ticks, TicksPerFrame, WrittenIsBehind, NothingBeforeStart

(* A batch: one PTS for each slot from the first that is free to the       *)
(* frame's own, all of them new, none left out.                            *)
LEMMA BatchAscends ==
    ASSUME IInv, NEW elapsed \in Nat, DecideEmits(elapsed)
    PROVE  /\ Batch(elapsed) \in Seq(Nat) /\ Batch(elapsed) # <<>>
           /\ lastPts' \in Nat /\ lastPts < lastPts'
           /\ \A i \in DOMAIN Batch(elapsed) :
                 /\ Batch(elapsed)[i] > lastPts /\ Batch(elapsed)[i] <= lastPts'
                 /\ \E slot \in Nat : Batch(elapsed)[i] = slot * Ticks
                 /\ i # 1 => Batch(elapsed)[i] = Batch(elapsed)[i - 1] + Ticks
           /\ \A i, j \in DOMAIN Batch(elapsed) : i < j => Batch(elapsed)[i] < Batch(elapsed)[j]
           /\ lastIndex >= 0 => Batch(elapsed)[1] <= lastPts + Ticks
  <1> DEFINE index == QuantizeIndex(elapsed)
             first == IF lastIndex < 0 THEN index ELSE lastIndex + 1
             t == Ticks
             n == index - first + 1
             b == Batch(elapsed)
  <1>1. t \in Nat \ {0}
    BY TicksArePositive DEF IInv, TypeOK, Ticks
  <1>2. index \in Nat /\ lastIndex \in Nat \cup {-1} /\ lastPts \in Nat \cup {-1} /\ lastIndex < index
    BY IndexIsNatural DEF IInv, TypeOK, DecideEmits, SlotTaken
  <1>3. first \in Nat /\ first <= index /\ first > lastIndex /\ n \in Nat \ {0}
        /\ (lastIndex >= 0 => first = lastIndex + 1)
    BY <1>2
  <1>4. lastPts' = index * t
    BY DEF DecideEmits
  <1>5. lastPts < (lastIndex + 1) * t /\ lastIndex * t <= lastPts
    BY DEF IInv, OnGrid
  <1>6. b = [k \in 1 .. n |-> (first + k - 1) * t]
    BY DEF Batch
  <1> HIDE DEF index, first, t, n, b
  <1>7. ASSUME NEW k \in 1 .. n
        PROVE  /\ first + k - 1 \in Nat /\ first + k - 1 <= index /\ lastIndex + 1 <= first + k - 1
               /\ b[k] = (first + k - 1) * t
    <2>1. n = index - first + 1
      BY DEF n
    <2> QED BY <1>2, <1>3, <1>6, <2>1
  <1>8. index * t \in Nat
    BY <1>1, <1>2
  <1>9. ASSUME NEW k \in 1 .. n
        PROVE  b[k] \in Nat /\ b[k] > lastPts /\ b[k] <= lastPts'
    <2>1. (lastIndex + 1) * t <= (first + k - 1) * t /\ (first + k - 1) * t <= index * t
      BY <1>1, <1>2, <1>7, <1>9, SlotsAscend
    <2>2. (first + k - 1) * t \in Nat /\ (lastIndex + 1) * t \in Nat
      BY <1>1, <1>2, <1>7, <1>9
    <2> QED BY <1>2, <1>4, <1>5, <1>7, <1>8, <2>1, <2>2
  <1>10. ASSUME NEW i \in 1 .. n, NEW j \in 1 .. n, i < j
         PROVE  b[i] < b[j]
    <2> DEFINE x == first + i - 1
               y == first + j - 1
    <2>1. x \in Nat /\ y \in Nat /\ x + 1 <= y /\ b[i] = x * t /\ b[j] = y * t
      BY <1>3, <1>7, <1>10
    <2> HIDE DEF x, y
    <2>2. (x + 1) * t <= y * t /\ (x + 1) * t = x * t + t
      BY <1>1, <2>1, SlotsAscend, NextSlot
    <2> QED BY <1>1, <2>1, <2>2
  <1>11. ASSUME NEW i \in 1 .. n, i # 1
         PROVE  b[i] = b[i - 1] + t
    <2> DEFINE x == first + i - 1
    <2>1. i - 1 \in 1 .. n /\ x \in Nat /\ first + (i - 1) - 1 = x - 1
      BY <1>3, <1>7, <1>11
    <2>2. b[i] = x * t /\ b[i - 1] = (x - 1) * t
      BY <1>7, <2>1
    <2> HIDE DEF x
    <2>3. (x - 1) * t = x * t - t /\ x * t \in Int
      BY <1>1, <2>1, NextSlot
    <2> QED BY <1>1, <2>2, <2>3
  <1>12. b \in Seq(Nat) /\ b # <<>> /\ DOMAIN b = 1 .. n
    <2>1. b \in [1 .. n -> Nat]
      BY <1>6, <1>9
    <2>2. b \in Seq(Nat) /\ DOMAIN b = 1 .. n /\ Len(b) = n
      BY <1>3, <2>1
    <2> QED BY <1>3, <2>2
  <1>13. 1 \in 1 .. n
    BY <1>3
  <1>14. lastPts < lastPts' /\ lastPts' \in Nat
    <2>1. b[1] \in Nat /\ b[1] > lastPts /\ b[1] <= lastPts'
      BY <1>9, <1>13
    <2> QED BY <1>2, <1>4, <1>8, <2>1
  <1>15. lastIndex >= 0 => b[1] <= lastPts + t
    <2>1. ASSUME lastIndex >= 0 PROVE b[1] <= lastPts + t
      <3>1. b[1] = (lastIndex + 1) * t
        BY <1>2, <1>3, <1>7, <1>13, <2>1
      <3>2. (lastIndex + 1) * t = lastIndex * t + t /\ lastIndex * t \in Int
        BY <1>1, <1>2, NextSlot
      <3> QED BY <1>1, <1>2, <1>5, <3>1, <3>2
    <2> QED BY <2>1
  <1>16. \A i \in 1 .. n : \E slot \in Nat : b[i] = slot * t
    BY <1>7
  <1> QED BY <1>9, <1>10, <1>11, <1>12, <1>14, <1>15, <1>16 DEF b, t

(* What joining a batch to what there was does to either.                  *)
LEMMA Joined ==
    ASSUME NEW s \in Seq(Nat), NEW b \in Seq(Nat)
    PROVE  /\ s \o b \in Seq(Nat)
           /\ \A i \in DOMAIN s : i \in DOMAIN (s \o b) /\ (s \o b)[i] = s[i]
           /\ \A i \in DOMAIN (s \o b) \ DOMAIN s :
                 i - Len(s) \in DOMAIN b /\ (s \o b)[i] = b[i - Len(s)] /\ i \in Nat
           /\ Len(s) \in Nat /\ DOMAIN s = 1 .. Len(s)
           /\ DOMAIN (s \o b) = 1 .. Len(s) + Len(b) /\ Len(b) \in Nat
  <1>1. /\ s \o b \in Seq(Nat) /\ Len(s \o b) = Len(s) + Len(b)
        /\ DOMAIN s = 1 .. Len(s) /\ DOMAIN b = 1 .. Len(b) /\ DOMAIN (s \o b) = 1 .. Len(s) + Len(b)
        /\ Len(s) \in Nat /\ Len(b) \in Nat
    OBVIOUS
  <1>2. \A i \in 1 .. Len(s) + Len(b) : (s \o b)[i] = IF i <= Len(s) THEN s[i] ELSE b[i - Len(s)]
    OBVIOUS
  <1> QED BY <1>1, <1>2

LEMMA EmitPreserves ==
    ASSUME IInv, NEW elapsed \in Nat, DecideEmits(elapsed)
    PROVE  IInv' /\ Continues
  <1> DEFINE index == QuantizeIndex(elapsed)
             b == Batch(elapsed)
             w == written
  <1>t. Ticks \in Nat \ {0} /\ Ticks' = Ticks
    BY TicksArePositive DEF IInv, TypeOK, Ticks, TicksPerFrame, DecideEmits
  <1>i. index \in Nat /\ lastIndex \in Int /\ lastPts \in Int /\ lastIndex + 1 <= index
    BY IndexIsNatural DEF IInv, TypeOK, DecideEmits, SlotTaken
  <1>s. lastIndex' = index /\ lastPts' = index * Ticks /\ fps' = fps /\ started' = started /\ started
    BY DEF DecideEmits
  <1>w. written' = w \o b /\ w \in Seq(Nat)
    BY DEF DecideEmits, IInv, TypeOK
  <1>b. /\ b \in Seq(Nat) /\ b # <<>> /\ lastPts' \in Nat /\ lastPts < lastPts'
        /\ \A i \in DOMAIN b : /\ b[i] \in Nat /\ b[i] > lastPts /\ b[i] <= lastPts'
                               /\ i # 1 => b[i] = b[i - 1] + Ticks
        /\ \A i, j \in DOMAIN b : i < j => b[i] < b[j]
        /\ lastIndex >= 0 => b[1] <= lastPts + Ticks
    BY BatchAscends
  <1>o. \A i \in DOMAIN w : w[i] \in Nat /\ w[i] <= lastPts
    BY <1>w DEF IInv, WrittenIsBehind
  <1>1. TypeOK'
    <2>1. written' \in Seq(Nat)
      BY <1>w, <1>b
    <2>2. emitted' \in Nat /\ duplicated' \in Nat
      BY <1>i DEF IInv, TypeOK, DecideEmits, index
    <2>3. lastIndex' \in Nat /\ lastPts' \in Nat
      BY <1>s, <1>i, <1>b
    <2> QED BY <2>1, <2>2, <2>3, <1>s DEF IInv, TypeOK, DecideEmits
  <1>2. OnGrid'
    <2> HIDE DEF index
    <2> QED BY <1>s, <1>t, <1>i, NextSlot DEF OnGrid
  <1> HIDE DEF index, b, w
  <1>j. /\ \A i \in DOMAIN w : written'[i] = w[i]
        /\ \A i \in HandedOut : i - Len(w) \in DOMAIN b /\ written'[i] = b[i - Len(w)] /\ i \in Nat
        /\ Len(w) \in Nat /\ DOMAIN w = 1 .. Len(w)
        /\ DOMAIN written' = 1 .. Len(w) + Len(b) /\ Len(b) \in Nat /\ DOMAIN b = 1 .. Len(b)
    BY <1>w, <1>b, Joined DEF HandedOut, w
  <1>h. HandedOut = Len(w) + 1 .. Len(w) + Len(b)
    BY <1>j DEF HandedOut, w
  <1>3. WrittenIsBehind' /\ NothingBeforeStart'
    <2>1. ASSUME NEW i \in DOMAIN written' PROVE written'[i] <= lastPts'
      <3>1. CASE i \in DOMAIN w
        BY <3>1, <1>j, <1>o, <1>b, <1>i
      <3>2. CASE i \notin DOMAIN w
        BY <3>2, <2>1, <1>j, <1>b DEF HandedOut, w
      <3> QED BY <3>1, <3>2
    <2> QED BY <2>1, <1>s DEF WrittenIsBehind, NothingBeforeStart
  <1>4. ASSUME NEW i \in HandedOut
        PROVE  /\ written'[i] > lastPts
               /\ \A j \in 1 .. i - 1 : written'[i] > written'[j]
               /\ lastIndex >= 0 =>
                     written'[i] <= Ticks + (IF i - 1 \in HandedOut THEN written'[i - 1] ELSE lastPts)
    <2> DEFINE k == i - Len(w)
    <2>1. k \in DOMAIN b /\ written'[i] = b[k] /\ i \in Nat /\ b[k] > lastPts /\ b[k] \in Nat
      BY <1>4, <1>j, <1>b
    <2>2. ASSUME NEW j \in 1 .. i - 1 PROVE written'[i] > written'[j]
      <3>1. CASE j \in DOMAIN w
        BY <3>1, <2>1, <1>j, <1>o, <1>i
      <3>2. CASE j \notin DOMAIN w
        <4>1. j \in HandedOut /\ j - Len(w) < k
          BY <3>2, <2>2, <1>j, <1>h, <1>4
        <4> QED BY <4>1, <2>1, <1>j, <1>b
      <3> QED BY <3>1, <3>2
    <2>3. CASE i - 1 \in HandedOut
      <3>1. written'[i - 1] = b[(i - 1) - Len(w)] /\ (i - 1) - Len(w) = k - 1 /\ k - 1 \in DOMAIN b
        BY <2>3, <1>j, <1>4
      <3>2. k # 1
        BY <3>1, <1>j
      <3>3. b[k] = b[k - 1] + Ticks /\ b[k - 1] \in Nat
        BY <3>1, <3>2, <2>1, <1>b
      <3> QED BY <2>1, <2>2, <2>3, <3>1, <3>3, <1>t
    <2>4. CASE i - 1 \notin HandedOut
      <3>1. k = 1
        BY <2>4, <1>h, <1>j, <1>4
      <3> QED BY <2>1, <2>2, <2>4, <3>1, <1>b, <1>t, <1>i
    <2> QED BY <2>3, <2>4
  <1> QED BY <1>1, <1>2, <1>3, <1>4 DEF IInv, Continues

LEMMA RetimePreserves ==
    ASSUME IInv, NEW rate \in Rates \cup {0}, Retime(rate)
    PROVE  IInv' /\ written' = written
  <1>1. rate \in Rates /\ fps' = rate /\ Ticks' = TicksPerFrame(rate)
    BY DEF Retime, UsableRate, Ticks, TicksPerFrame
  <1>2. UNCHANGED <<started, lastPts, counters, written>>
    BY DEF Retime
  <1>3. TicksPerFrame(rate) \in Nat \ {0}
    BY <1>1, TicksArePositive
  <1>4. CASE started /\ lastPts >= 0
    <2>1. lastIndex' = IndexOnGrid(rate)
      BY <1>4 DEF Retime
    <2>2. /\ IndexOnGrid(rate) \in Nat
          /\ IndexOnGrid(rate) * TicksPerFrame(rate) <= lastPts
          /\ lastPts < (IndexOnGrid(rate) + 1) * TicksPerFrame(rate)
      BY <1>1, <1>4, RetimedIndex DEF IInv
    <2> QED BY <2>1, <2>2, <1>1, <1>2, <1>4
            DEF IInv, TypeOK, OnGrid, WrittenIsBehind, NothingBeforeStart, counters
  <1>5. CASE ~(started /\ lastPts >= 0)
    (* Nothing is on the grid yet: both marks are still -1.                *)
    <2>0. Ticks \in Nat \ {0}
      BY TicksArePositive DEF IInv, TypeOK, Ticks
    <2>1. lastIndex' = lastIndex /\ lastPts = -1
      BY <1>5 DEF Retime, IInv, TypeOK, NothingBeforeStart
    <2>2. lastIndex = -1
      <3>1. lastIndex >= 0 => 0 <= lastIndex * Ticks
        BY <2>0, SlotsAscend DEF IInv, TypeOK
      <3> QED BY <3>1, <2>1, <2>0 DEF IInv, TypeOK, OnGrid
    <2>3. OnGrid'
      BY <2>1, <2>2, <1>1, <1>2, <1>3 DEF OnGrid
    <2> QED BY <2>1, <2>3, <1>1, <1>2 DEF IInv, TypeOK, WrittenIsBehind, NothingBeforeStart, counters
  <1> QED BY <1>4, <1>5

LEMMA ReservePreserves ==
    ASSUME IInv, NEW n \in Nat, ReserveDiscontinuity(n)
    PROVE  IInv' /\ written' = written
  <1>1. CASE started /\ n > 0
    <2>t. Ticks \in Nat \ {0} /\ Ticks' = Ticks
      BY <1>1, TicksArePositive DEF IInv, TypeOK, Ticks, TicksPerFrame, ReserveDiscontinuity
    <2>s. /\ lastIndex' = lastIndex + n /\ lastPts' = (lastIndex + n) * Ticks /\ reserved' = reserved + n
          /\ UNCHANGED <<fps, started, emitted, duplicated, dropped, excised, written>>
      BY <1>1 DEF ReserveDiscontinuity, PtsAfterReserving
    <2>i. lastIndex \in Int /\ lastPts \in Int /\ lastIndex + n \in Nat /\ lastIndex + 1 <= lastIndex + n
      BY <1>1 DEF IInv, TypeOK
    <2>1. lastPts' \in Nat /\ lastPts < lastPts'
      <3>1. (lastIndex + 1) * Ticks <= (lastIndex + n) * Ticks
        BY <2>i, <2>t, SlotsAscend
      <3>2. (lastIndex + n) * Ticks \in Nat /\ (lastIndex + 1) * Ticks \in Int
        BY <2>i, <2>t
      <3> QED BY <3>1, <3>2, <2>s, <2>i DEF IInv, OnGrid
    <2>2. TypeOK'
      BY <2>1, <2>s, <2>i DEF IInv, TypeOK
    <2>3. OnGrid'
      BY <2>s, <2>t, <2>i, NextSlot DEF OnGrid
    <2>4. WrittenIsBehind'
      BY <2>1, <2>s, <2>i DEF IInv, TypeOK, WrittenIsBehind
    <2> QED BY <2>2, <2>3, <2>4, <2>s, <1>1 DEF IInv, NothingBeforeStart
  <1>2. CASE ~(started /\ n > 0)
    BY <1>2 DEF ReserveDiscontinuity, vars, counters, IInv, TypeOK, OnGrid, Ticks, TicksPerFrame,
                WrittenIsBehind, NothingBeforeStart
  <1> QED BY <1>1, <1>2

LEMMA NextPreserves == IInv /\ [Next]_vars => IInv' /\ Continues
  <1> SUFFICES ASSUME IInv, [Next]_vars PROVE IInv' /\ Continues
    OBVIOUS
  <1>1. CASE Start
    BY <1>1, StartPreserves, QuietSteps DEF Start
  <1>2. CASE DecideBeforeEpoch
    BY <1>2, RefusalsPreserve, QuietSteps DEF DecideBeforeEpoch
  <1>3. CASE DecideExcised
    BY <1>3, RefusalsPreserve, QuietSteps
  <1>4. ASSUME NEW elapsed \in 0 .. MaxElapsed, Decide(elapsed) PROVE IInv' /\ Continues
    <2>0. elapsed \in Nat
      BY PacerAssumption
    <2>1. CASE DecideDrops(elapsed)
      BY <2>1, RefusalsPreserve, QuietSteps DEF DecideDrops
    <2>2. CASE DecideEmits(elapsed)
      BY <2>0, <2>2, EmitPreserves
    <2> QED BY <1>4, <2>1, <2>2 DEF Decide
  <1>5. ASSUME NEW rate \in Rates \cup {0}, Retime(rate) PROVE IInv' /\ Continues
    BY <1>5, RetimePreserves, QuietSteps
  <1>6. ASSUME NEW n \in 1 .. MaxReserved - reserved, ReserveDiscontinuity(n) PROVE IInv' /\ Continues
    BY <1>6, ReservePreserves, QuietSteps, PacerAssumption DEF IInv, TypeOK
  <1>7. CASE UNCHANGED vars
    <2>1. IInv'
      BY <1>7 DEF vars, counters, IInv, TypeOK, OnGrid, Ticks, TicksPerFrame, WrittenIsBehind,
                  NothingBeforeStart
    <2> QED BY <2>1, <1>7, QuietSteps DEF vars
  <1> QED BY <1>1, <1>2, <1>3, <1>4, <1>5, <1>6, <1>7 DEF Next

-----------------------------------------------------------------------------
THEOREM Invariance == Spec => []IInv
  BY InitEstablishes, NextPreserves, PTL DEF Spec

(* Every field of the pacer keeps its type.                                *)
THEOREM TypeCorrect == Spec => []TypeOK
  BY Invariance, PTL DEF IInv

(* The slot index and the PTS it stands for stay in step through every     *)
(* retiming and reservation, on any timebase.                              *)
THEOREM IndexFollowsPts == Spec => []OnGrid
  BY Invariance, PTL DEF IInv

(* Each PTS handed out is above all those before it in the order of        *)
(* handing out, duplicates included, and above every reserved slot.        *)
THEOREM PtsIncrease == Spec => PtsStrictlyIncreases
  <1>1. IInv /\ [Next]_vars
          => [\A i \in HandedOut : /\ written'[i] > lastPts
                                   /\ \A j \in 1 .. i - 1 : written'[i] > written'[j]]_vars
    BY NextPreserves DEF Continues
  <1> QED BY <1>1, Invariance, PTL DEF Spec, PtsStrictlyIncreases

(* Only a reservation ever leaves a hole in the timeline.                  *)
THEOREM NoHole == Spec => TimelineHasNoHole
  <1>1. IInv /\ [Next]_vars
          => [lastIndex >= 0 =>
                 \A i \in HandedOut :
                    written'[i] <= Ticks + (IF i - 1 \in HandedOut THEN written'[i - 1] ELSE lastPts)]_vars
    BY NextPreserves DEF Continues
  <1> QED BY <1>1, Invariance, PTL DEF Spec, TimelineHasNoHole

(* The slot of a moment is the nearest: QuantizeIndex divides in two parts *)
(* and rounds only the second.                                             *)
LEMMA NearestSlot ==
    ASSUME NEW e \in Nat, NEW f \in Nat, NEW s \in Nat \ {0}, NEW index,
           index = (e \div s) * f + ((e % s) * f + s \div 2) \div s
    PROVE  -s <= 2 * (index * s - e * f) /\ 2 * (index * s - e * f) <= s
  <1> DEFINE d == e \div s
             r == e % s
             a == r * f
             b == s \div 2
             q == (a + b) \div s
             m == (a + b) % s
  <1>1. d \in Int /\ r \in Int /\ r >= 0 /\ e = s * d + r
    OBVIOUS
  <1>2. b \in Int /\ s - 1 <= 2 * b /\ 2 * b <= s
    OBVIOUS
  <1>3. index = d * f + q
    OBVIOUS
  <1>4. a \in Int
    BY <1>1
  <1>5. q \in Int /\ m \in Int /\ 0 <= m /\ m < s /\ a + b = s * q + m
    <2>1. \A n \in Int : n \div s \in Int /\ n % s \in Int /\ 0 <= n % s /\ n % s < s
                         /\ n = s * (n \div s) + (n % s)
      OBVIOUS
    <2>2. a + b \in Int
      BY <1>2, <1>4
    <2> HIDE DEF a, b
    <2> QED BY <2>1, <2>2
  <1>6. e * f = s * (d * f) + a
    <2> HIDE DEF d, r
    <2> QED BY <1>1 DEF a
  <1> HIDE DEF q, m, d, r, a, b
  <1>7. d * f \in Int
    BY <1>1
  <1>8. index * s - e * f = b - m
    <2> DEFINE c == d * f
    <2>1. c \in Int /\ index = c + q /\ e * f = s * c + a
      BY <1>3, <1>6, <1>7
    <2> HIDE DEF c
    <2>2. index * s = s * c + s * q
      BY <1>5, <2>1
    <2> QED BY <1>2, <1>4, <1>5, <2>1, <2>2
  <1> QED BY <1>2, <1>5, <1>8

(* ShownNearItsTime: at any rate, after any retiming or reservation, and   *)
(* though the division is split so that nothing overflows, a frame that is *)
(* emitted is given the slot nearest to its moment (Pacer::decide,         *)
(* quantize_index).                                                        *)
THEOREM FramesAreShownInTheirSlot == Spec => ShownNearItsTime
  <1>1. IInv /\ [Next]_vars
          => [\A elapsed \in 0 .. MaxElapsed :
                 DecideEmits(elapsed) => LET lag == 2 * (lastIndex' * Second - elapsed * fps)
                                         IN  -Second <= lag /\ lag <= Second]_vars
    <2> SUFFICES ASSUME IInv, NEW elapsed \in 0 .. MaxElapsed, DecideEmits(elapsed)
                 PROVE  /\ -Second <= 2 * (lastIndex' * Second - elapsed * fps)
                        /\ 2 * (lastIndex' * Second - elapsed * fps) <= Second
      OBVIOUS
    <2>1. fps \in Nat /\ Second \in Nat \ {0} /\ elapsed \in Nat
      BY PacerAssumption DEF IInv, TypeOK
    <2>2. lastIndex' = QuantizeIndex(elapsed)
      BY DEF DecideEmits
    <2>3. CASE elapsed > 0
      <3>1. lastIndex' = (elapsed \div Second) * fps
                           + ((elapsed % Second) * fps + Second \div 2) \div Second
        BY <2>1, <2>2, <2>3 DEF QuantizeIndex
      <3> QED BY <2>1, <3>1, NearestSlot
    <2>4. CASE elapsed = 0
      <3>1. lastIndex' = 0 /\ elapsed * fps = 0
        BY <2>1, <2>2, <2>4 DEF QuantizeIndex
      <3> QED BY <2>1, <3>1
    <2> QED BY <2>1, <2>3, <2>4
  <1> QED BY <1>1, Invariance, PTL DEF Spec, ShownNearItsTime

-----------------------------------------------------------------------------
(* The encode stage's track, paced by it.                                  *)

(* The slots of the configured rate, the finest there is.                  *)
BaseTicks == TicksPerFrame(InitialFps)
OnBaseGrid(p) == \E k \in Nat : p = k * BaseTicks

TrackTypes ==
    /\ requestedFps \in Rates \cup {0}
    /\ venc \in [at : {"idle", "decide", "submit"}, elapsed : 0 .. MaxElapsed, todo : Seq(Nat)]
    /\ venc.at = "submit" <=> venc.todo # <<>>
    /\ encoder \in [fresh : BOOLEAN, last : Int]
    /\ lastElapsed \in Nat /\ lastDts \in Int /\ refusedDts \in Nat
    /\ rebuilds \in Nat /\ rebuilds <= MaxRebuilds

(* A rebuild spends no more of the grid than its share.                    *)
ReservedByRebuilds == reserved <= ReorderDepth * rebuilds

(* What is still to be submitted rises, behind the pacer and ahead of what *)
(* the encoder was given.                                                  *)
BatchRises ==
    /\ lastPts = -1 \/ OnBaseGrid(lastPts)
    /\ \A i \in DOMAIN venc.todo : venc.todo[i] <= lastPts /\ OnBaseGrid(venc.todo[i])
    /\ \A i, j \in DOMAIN venc.todo : i < j => venc.todo[i] < venc.todo[j]
    /\ ~encoder.fresh => \A i \in DOMAIN venc.todo : encoder.last < venc.todo[i]

(* An encoder that has spoken is ahead of the muxer, and behind the pacer. *)
MuxerIsBehind ==
    ~encoder.fresh =>
        /\ 0 <= encoder.last /\ encoder.last <= lastPts
        /\ lastDts <= encoder.last
        /\ ReorderDepth > 0 => lastDts < encoder.last

(* The first packet of a fresh encoder has room to decode before its PTS,  *)
(* whichever slot it is for: one still to be submitted or one to come.     *)
FreshHasRoom ==
    encoder.fresh =>
        /\ \A p \in Nat : OnBaseGrid(p) /\ p > lastPts => FirstDts(p) > lastDts
        /\ \A i \in DOMAIN venc.todo : FirstDts(venc.todo[i]) > lastDts

TrackParts ==
    /\ TrackTypes /\ ReservedByRebuilds /\ BatchRises /\ MuxerIsBehind /\ FreshHasRoom
    /\ NoDecodeTimeGoesBack

TrackInv == IInv /\ TrackParts

------------------------------------------------------------------------------
(* The grids                                                               *)

LEMMA BaseTicksPositive == BaseTicks \in Nat \ {0} /\ BaseTicks <= TimebaseDen
  <1>1. InitialFps \in Nat \ {0} /\ TimebaseDen \in Nat \ {0} /\ InitialFps <= TimebaseDen
    BY PacerAssumption
  <1>2. ASSUME NEW a \in Nat \ {0}, NEW b \in Nat \ {0} PROVE a \div b <= a
    <2>1. a \div b \in Nat /\ (a \div b) * b <= a
      BY <1>2, SlotOf
    <2>2. ASSUME NEW q \in Nat, NEW c \in Nat \ {0} PROVE q <= q * c
      BY <2>2
    <2> QED BY <2>1, <2>2, <1>2
  <1> QED BY <1>1, <1>2, TicksArePositive, PacerAssumption DEF BaseTicks, TicksPerFrame

LEMMA Depths ==
  /\ ReorderDepth \in Nat /\ MaxRebuilds \in Nat /\ MaxFaults \in Nat
  /\ MaxReserved \in Nat /\ MaxReserved >= ReorderDepth * MaxRebuilds
  /\ ReorderDepth * BaseTicks \in Nat
  BY TimelineAssumption, PacerAssumption, BaseTicksPositive

LEMMA Divides ==
  ASSUME NEW t \in Nat, NEW b \in Nat \ {0}, t % b = 0
  PROVE  \E k \in Nat : t = k * b
  <1>1. t \div b \in Nat /\ t = (t \div b) * b
    OBVIOUS
  <1> QED BY <1>1

LEMMA TimesAssociates ==
  ASSUME NEW a \in Nat, NEW b \in Nat, NEW c \in Nat
  PROVE  a * (b * c) = (a * b) * c /\ a * b \in Nat
  OBVIOUS

LEMMA EveryGridIsOnTheBase ==
  ASSUME NEW rate \in Rates, NEW slot \in Nat
  PROVE  /\ OnBaseGrid(slot * TicksPerFrame(rate)) /\ slot * TicksPerFrame(rate) \in Nat
         /\ BaseTicks <= TicksPerFrame(rate)
  <1> DEFINE t == TicksPerFrame(rate)
             b == BaseTicks
  <1>1. t \in Nat \ {0} /\ b \in Nat \ {0}
    BY TicksArePositive, BaseTicksPositive
  <1>2. t % b = 0
    BY GridsAssumption DEF BaseTicks
  <1> HIDE DEF t, b
  <1>3. PICK k \in Nat : t = k * b
    BY <1>1, <1>2, Divides
  <1>4. slot * t = (slot * k) * b /\ slot * k \in Nat
    BY <1>1, <1>3, TimesAssociates
  <1>5. b <= t
    <2>1. k # 0
      BY <1>1, <1>3
    <2>2. b <= k * b
      BY <1>1, <2>1
    <2> QED BY <1>3, <2>2
  <1>6. slot * t \in Nat
    BY <1>1
  <1> QED BY <1>4, <1>5, <1>6 DEF OnBaseGrid, t, b

(* Two slots of the base grid in order are a slot apart.                   *)
LEMMA ASlotApart ==
  ASSUME NEW p \in Nat, NEW q \in Nat, OnBaseGrid(p), OnBaseGrid(q), p < q
  PROVE  p + BaseTicks <= q
  <1> DEFINE b == BaseTicks
  <1>1. PICK i \in Nat : p = i * b
    BY DEF OnBaseGrid
  <1>2. PICK j \in Nat : q = j * b
    BY DEF OnBaseGrid
  <1>3. b \in Nat \ {0}
    BY BaseTicksPositive
  <1> HIDE DEF b
  <1>4. i < j
    BY <1>1, <1>2, <1>3, SlotsAscendStrictly
  <1>5. (i + 1) * b <= j * b
    BY <1>3, <1>4, SlotsAscend
  <1>6. (i + 1) * b = i * b + b
    BY <1>3, NextSlot
  <1> QED BY <1>1, <1>2, <1>5, <1>6 DEF b

------------------------------------------------------------------------------
LEMMA TrackInitEstablishes == TrackInit => TrackInv
  <1> SUFFICES ASSUME TrackInit PROVE TrackInv
    OBVIOUS
  <1>1. IInv
    BY InitEstablishes DEF TrackInit
  <1>2. TrackTypes
    <2>1. ReorderDepth * TimebaseDen \in Nat
      BY Depths, PacerAssumption
    <2>2. Idle \in [at : {"idle", "decide", "submit"}, elapsed : 0 .. MaxElapsed, todo : Seq(Nat)]
          /\ Idle.at = "idle" /\ Idle.todo = <<>>
      BY PacerAssumption DEF Idle
    <2> QED BY <2>1, <2>2, Depths DEF TrackInit, TrackTypes
  <1>3. ReservedByRebuilds
    BY Depths DEF TrackInit, Init, ReservedByRebuilds
  <1>4. DOMAIN venc.todo = {} /\ lastPts = -1 /\ encoder.fresh
    BY DEF TrackInit, Init, Idle
  <1>5. BatchRises /\ MuxerIsBehind
    BY <1>4 DEF BatchRises, MuxerIsBehind
  <1>6. FreshHasRoom
    <2>1. ReorderDepth * BaseTicks <= ReorderDepth * TimebaseDen
      <3>1. ASSUME NEW d \in Nat, NEW x \in Nat, NEW y \in Nat, x <= y PROVE d * x <= d * y
        BY <3>1
      <3> QED BY <3>1, Depths, BaseTicksPositive, PacerAssumption
    <2>2. lastDts = -1 - ReorderDepth * TimebaseDen /\ ReorderDepth * TimebaseDen \in Nat
      BY Depths, PacerAssumption DEF TrackInit
    <2> QED BY <1>4, <2>1, <2>2, Depths DEF FreshHasRoom, FirstDts, BaseTicks
  <1>7. NoDecodeTimeGoesBack
    BY DEF TrackInit, NoDecodeTimeGoesBack
  <1> QED BY <1>1, <1>2, <1>3, <1>5, <1>6, <1>7 DEF TrackInv, TrackParts

------------------------------------------------------------------------------
(* Steps that leave the slots, the encoder and the muxer alone, and at     *)
(* most abandon the batch.                                                 *)
LEMMA QuietTrackSteps ==
  ASSUME TrackInv, TrackTypes',
         UNCHANGED <<lastPts, reserved, encoder, lastDts, refusedDts, rebuilds>>,
         venc'.todo = venc.todo \/ venc'.todo = <<>>
  PROVE  TrackParts'
  <1>1. \A i \in DOMAIN venc'.todo : i \in DOMAIN venc.todo /\ venc'.todo[i] = venc.todo[i]
    OBVIOUS
  <1>2. ReservedByRebuilds' /\ MuxerIsBehind' /\ NoDecodeTimeGoesBack'
    BY DEF TrackInv, TrackParts, ReservedByRebuilds, MuxerIsBehind, NoDecodeTimeGoesBack
  <1>3. BatchRises'
    BY <1>1 DEF TrackInv, TrackParts, BatchRises, OnBaseGrid, BaseTicks, TicksPerFrame
  <1>4. FreshHasRoom'
    BY <1>1 DEF TrackInv, TrackParts, FreshHasRoom, OnBaseGrid, BaseTicks, FirstDts, TicksPerFrame
  <1> QED BY <1>2, <1>3, <1>4 DEF TrackParts

LEMMA IdleIsIdle ==
  Idle \in [at : {"idle", "decide", "submit"}, elapsed : 0 .. MaxElapsed, todo : Seq(Nat)]
  /\ Idle.at = "idle" /\ Idle.todo = <<>>
  BY PacerAssumption DEF Idle

LEMMA EpochStep ==
  ASSUME TrackInv, EpochResolves
  PROVE  [Next]_vars /\ TrackParts'
  <1>1. Next
    BY DEF EpochResolves, Next
  <1>2. UNCHANGED <<lastPts, reserved>>
    BY DEF EpochResolves, Start, TrackInv, IInv, NothingBeforeStart, counters
  <1>3. UNCHANGED <<requestedFps, venc, encoder, lastElapsed, lastDts, refusedDts, rebuilds>>
    BY DEF EpochResolves, trackVars
  <1>4. TrackTypes'
    BY <1>3 DEF TrackInv, TrackParts, TrackTypes
  <1> QED BY <1>1, <1>2, <1>3, <1>4, QuietTrackSteps

LEMMA WatchdogStep ==
  ASSUME TrackInv, NEW rate \in Rates, WatchdogAsks(rate)
  PROVE  [Next]_vars /\ TrackParts'
  <1>1. UNCHANGED vars /\ UNCHANGED <<venc, encoder, lastElapsed, lastDts, refusedDts, rebuilds>>
        /\ requestedFps' = rate
    BY DEF WatchdogAsks
  <1>2. TrackTypes'
    BY <1>1 DEF TrackInv, TrackParts, TrackTypes
  <1> QED BY <1>1, <1>2, QuietTrackSteps DEF vars, counters

(* The ladder's request is one step of the pacer.                          *)
LEMMA LadderStep ==
  ASSUME TrackInv, ApplyLadderRequest
  PROVE  [Next]_vars /\ UNCHANGED <<lastPts, reserved>>
  <1>1. CASE requestedFps > 0 /\ requestedFps # fps
    <2>1. Retime(requestedFps) /\ requestedFps \in Rates \cup {0}
      BY <1>1 DEF ApplyLadderRequest, TrackInv, TrackParts, TrackTypes
    <2> QED BY <2>1 DEF Next, Retime, counters
  <1>2. CASE ~(requestedFps > 0 /\ requestedFps # fps)
    BY <1>2 DEF ApplyLadderRequest, vars, counters
  <1> QED BY <1>1, <1>2

LEMMA ConversionStep ==
  ASSUME TrackInv, NEW elapsed \in 0 .. MaxElapsed,
         VencConverts(elapsed) \/ ConversionFails(elapsed)
  PROVE  [Next]_vars /\ TrackParts'
  <1>1. ApplyLadderRequest
    BY DEF VencConverts, ConversionFails
  <1>2. UNCHANGED <<requestedFps, encoder, lastDts, refusedDts, rebuilds>> /\ lastElapsed' = elapsed
        /\ elapsed \in Nat
    BY PacerAssumption DEF VencConverts, ConversionFails
  <1>3. \/ venc' = [at |-> "decide", elapsed |-> elapsed, todo |-> <<>>]
        \/ venc' = venc
    BY DEF VencConverts, ConversionFails
  <1>4. CASE venc' = [at |-> "decide", elapsed |-> elapsed, todo |-> <<>>]
    <2>1. venc' \in [at : {"idle", "decide", "submit"}, elapsed : 0 .. MaxElapsed, todo : Seq(Nat)]
          /\ venc'.at # "submit" /\ venc'.todo = <<>>
      <3>1. <<>> \in Seq(Nat)
        OBVIOUS
      <3> QED BY <1>4, <3>1
    <2>2. TrackTypes'
      BY <1>2, <2>1 DEF TrackInv, TrackParts, TrackTypes
    <2> QED BY <1>1, <1>2, <2>1, <2>2, LadderStep, QuietTrackSteps
  <1>5. CASE venc' = venc
    <2>1. TrackTypes'
      BY <1>2, <1>5 DEF TrackInv, TrackParts, TrackTypes
    <2> QED BY <1>1, <1>2, <1>5, <2>1, LadderStep, QuietTrackSteps
  <1> QED BY <1>3, <1>4, <1>5

LEMMA DropStep ==
  ASSUME TrackInv, VencDrops
  PROVE  [Next]_vars /\ TrackParts'
  <1>1. venc.elapsed \in 0 .. MaxElapsed /\ DecideDrops(venc.elapsed)
    BY DEF VencDrops, TrackInv, TrackParts, TrackTypes
  <1>2. Next
    BY <1>1 DEF Next, Decide
  <1>3. UNCHANGED <<lastPts, reserved>>
    BY <1>1 DEF DecideDrops, Drop
  <1>4. UNCHANGED <<requestedFps, encoder, lastElapsed, lastDts, refusedDts, rebuilds>> /\ venc' = Idle
    BY DEF VencDrops
  <1>5. TrackTypes'
    BY <1>4, IdleIsIdle DEF TrackInv, TrackParts, TrackTypes
  <1> QED BY <1>2, <1>3, <1>4, <1>5, IdleIsIdle, QuietTrackSteps

LEMMA FailureStep ==
  ASSUME TrackInv, SubmissionFails
  PROVE  [Next]_vars /\ TrackParts'
  <1>1. UNCHANGED vars /\ UNCHANGED <<requestedFps, encoder, lastElapsed, lastDts, refusedDts, rebuilds>>
        /\ venc' = Idle
    BY DEF SubmissionFails
  <1>2. TrackTypes'
    BY <1>1, IdleIsIdle DEF TrackInv, TrackParts, TrackTypes
  <1> QED BY <1>1, <1>2, IdleIsIdle, QuietTrackSteps DEF vars, counters

(* The batch of a frame, on the finest grid.                               *)
LEMMA BatchIsNew ==
  ASSUME TrackInv, NEW elapsed \in Nat, DecideEmits(elapsed)
  PROVE  /\ Batch(elapsed) \in Seq(Nat) /\ Batch(elapsed) # <<>>
         /\ lastPts' \in Nat /\ lastPts < lastPts' /\ OnBaseGrid(lastPts') /\ reserved' = reserved
         /\ \A i \in DOMAIN Batch(elapsed) :
               /\ Batch(elapsed)[i] > lastPts /\ Batch(elapsed)[i] <= lastPts'
               /\ OnBaseGrid(Batch(elapsed)[i])
         /\ \A i, j \in DOMAIN Batch(elapsed) : i < j => Batch(elapsed)[i] < Batch(elapsed)[j]
  <1>1. \A slot \in Nat : OnBaseGrid(slot * Ticks)
    BY EveryGridIsOnTheBase DEF TrackInv, IInv, TypeOK, Ticks
  <1>2. QuantizeIndex(elapsed) \in Nat
    BY IndexIsNatural DEF TrackInv, IInv
  <1>3. OnBaseGrid(lastPts') /\ reserved' = reserved
    BY <1>1, <1>2 DEF DecideEmits
  <1>4. \A i \in DOMAIN Batch(elapsed) : OnBaseGrid(Batch(elapsed)[i])
    BY <1>1, BatchAscends DEF TrackInv
  <1> QED BY <1>3, <1>4, BatchAscends DEF TrackInv

LEMMA DecideStep ==
  ASSUME TrackInv, VencDecides
  PROVE  [Next]_vars /\ TrackParts'
  <1> DEFINE b == Batch(venc.elapsed)
  <1>1. venc.elapsed \in 0 .. MaxElapsed /\ venc.elapsed \in Nat /\ DecideEmits(venc.elapsed)
    BY PacerAssumption DEF VencDecides, TrackInv, TrackParts, TrackTypes
  <1>2. Next
    BY <1>1 DEF Next, Decide
  <1>3. /\ b \in Seq(Nat) /\ b # <<>>
        /\ lastPts' \in Nat /\ lastPts < lastPts' /\ OnBaseGrid(lastPts') /\ reserved' = reserved
        /\ \A i \in DOMAIN b : b[i] > lastPts /\ b[i] <= lastPts' /\ OnBaseGrid(b[i])
        /\ \A i, j \in DOMAIN b : i < j => b[i] < b[j]
    BY <1>1, BatchIsNew
  <1>4. UNCHANGED <<requestedFps, encoder, lastElapsed, lastDts, refusedDts, rebuilds>>
        /\ venc' = [venc EXCEPT !.at = "submit", !.todo = b]
    BY DEF VencDecides
  <1>5. lastPts \in Int
    BY DEF TrackInv, IInv, TypeOK
  <1> HIDE DEF b
  <1>6. TrackTypes' /\ venc'.todo = b
    BY <1>3, <1>4 DEF TrackInv, TrackParts, TrackTypes
  <1>7. ReservedByRebuilds' /\ NoDecodeTimeGoesBack'
    BY <1>3, <1>4 DEF TrackInv, TrackParts, ReservedByRebuilds, NoDecodeTimeGoesBack
  <1>8. \A i \in DOMAIN b : b[i] \in Nat
    BY <1>3
  <1>9. encoder.last \in Int /\ lastDts \in Int
    BY DEF TrackInv, TrackParts, TrackTypes
  <1>10. BatchRises'
    BY <1>3, <1>4, <1>5, <1>6, <1>8, <1>9 DEF TrackInv, TrackParts, BatchRises, MuxerIsBehind,
       OnBaseGrid, BaseTicks, TicksPerFrame
  <1>11. MuxerIsBehind'
    BY <1>3, <1>4, <1>5, <1>9 DEF TrackInv, TrackParts, MuxerIsBehind
  <1>12. FreshHasRoom'
    BY <1>3, <1>4, <1>5, <1>6, <1>8 DEF TrackInv, TrackParts, FreshHasRoom, OnBaseGrid, BaseTicks,
       FirstDts, TicksPerFrame
  <1> QED BY <1>2, <1>6, <1>7, <1>10, <1>11, <1>12 DEF TrackParts

LEMMA TodoSplits ==
  ASSUME NEW s \in Seq(Nat), s # <<>>
  PROVE  /\ Head(s) \in Nat /\ Head(s) = s[1] /\ 1 \in DOMAIN s
         /\ Tail(s) \in Seq(Nat) /\ (Len(s) # 1 => Tail(s) # <<>>)
         /\ \A i \in DOMAIN Tail(s) : i \in Nat /\ i + 1 \in DOMAIN s /\ 1 < i + 1 /\ Tail(s)[i] = s[i + 1]
  <1>1. Len(s) \in Nat /\ DOMAIN s = 1 .. Len(s) /\ Head(s) = s[1]
    OBVIOUS
  <1>2. Tail(s) \in Seq(Nat) /\ Len(Tail(s)) = Len(s) - 1 /\ DOMAIN Tail(s) = 1 .. Len(s) - 1
    OBVIOUS
  <1>3. \A i \in 1 .. Len(s) - 1 : Tail(s)[i] = s[i + 1]
    OBVIOUS
  <1>4. Len(s) # 1 => Tail(s) # <<>>
    <2>1. Len(<<>>) = 0
      OBVIOUS
    <2>2. ASSUME Len(s) # 1, Tail(s) = <<>> PROVE FALSE
      <3>1. Len(Tail(s)) = 0
        BY <2>1, <2>2, Zenon
      <3>2. Len(s) - 1 = 0
        BY <1>2, <3>1, Zenon
      <3>3. ASSUME NEW n \in Nat, n - 1 = 0 PROVE n = 1
        BY <3>3
      <3> QED BY <1>1, <2>2, <3>2, <3>3, Zenon
    <2> QED BY <2>2, Zenon
  <1>5. s[1] \in Nat /\ 1 \in DOMAIN s
    BY <1>1
  <1> QED BY <1>1, <1>2, <1>3, <1>4, <1>5

LEMMA SubmitStep ==
  ASSUME TrackInv, VencSubmits
  PROVE  [Next]_vars /\ TrackParts'
  <1> DEFINE s == venc.todo
             pts == Head(s)
             u == venc'.todo
  <1>1. UNCHANGED vars /\ UNCHANGED <<requestedFps, lastElapsed, rebuilds, lastPts, reserved>>
    BY DEF VencSubmits, vars, counters
  <1>2. venc.at = "submit" /\ s \in Seq(Nat) /\ s # <<>>
    BY DEF VencSubmits, TrackInv, TrackParts, TrackTypes
  <1>3. venc' = IF Len(s) = 1 THEN Idle ELSE [venc EXCEPT !.todo = Tail(s)]
    BY DEF VencSubmits, AfterSubmission
  <1>4. encoder' = [fresh |-> FALSE, last |-> pts]
    BY DEF VencSubmits
  <1>5. /\ pts \in Nat /\ pts = s[1] /\ 1 \in DOMAIN s /\ Tail(s) \in Seq(Nat)
        /\ Len(s) # 1 => Tail(s) # <<>>
        /\ \A i \in DOMAIN Tail(s) : i \in Nat /\ i + 1 \in DOMAIN s /\ 1 < i + 1 /\ Tail(s)[i] = s[i + 1]
    BY <1>2, TodoSplits
  <1>6. u = <<>> \/ (u = Tail(s) /\ Len(s) # 1)
    BY <1>3, IdleIsIdle DEF TrackInv, TrackParts, TrackTypes
  <1>7. \A i \in DOMAIN u : i \in Nat /\ i + 1 \in DOMAIN s /\ 1 < i + 1 /\ u[i] = s[i + 1]
    <2>1. \A i \in DOMAIN <<>> : FALSE
      OBVIOUS
    <2> QED BY <1>5, <1>6, <2>1
  <1>8. /\ venc' \in [at : {"idle", "decide", "submit"}, elapsed : 0 .. MaxElapsed, todo : Seq(Nat)]
        /\ venc'.at = "submit" <=> u # <<>>
    <2>1. CASE Len(s) = 1
      BY <1>3, <2>1, IdleIsIdle
    <2>2. CASE Len(s) # 1
      <3> HIDE DEF s
      <3>1. venc' = [venc EXCEPT !.todo = Tail(s)]
        BY <1>3, <2>2
      <3> QED BY <1>2, <1>5, <2>2, <3>1 DEF TrackInv, TrackParts, TrackTypes
    <2> QED BY <2>1, <2>2
  <1>9. /\ pts <= lastPts /\ lastPts \in Int /\ lastDts \in Int /\ encoder.last \in Int
        /\ \A i \in DOMAIN s : s[i] <= lastPts /\ OnBaseGrid(s[i]) /\ s[i] \in Nat
        /\ \A i, j \in DOMAIN s : i < j => s[i] < s[j]
        /\ ~encoder.fresh => lastDts <= encoder.last /\ encoder.last < pts
                             /\ (ReorderDepth > 0 => lastDts < encoder.last)
        /\ encoder.fresh => FirstDts(pts) > lastDts
    <2>1. TrackTypes /\ BatchRises /\ MuxerIsBehind /\ FreshHasRoom /\ TypeOK
      BY DEF TrackInv, TrackParts, IInv
    <2>2. lastDts \in Int /\ encoder.last \in Int
      BY <2>1 DEF TrackTypes
    <2>3. lastPts \in Int
      BY <2>1 DEF TypeOK
    <2>4. /\ \A i \in DOMAIN s : s[i] <= lastPts /\ OnBaseGrid(s[i])
          /\ \A i, j \in DOMAIN s : i < j => s[i] < s[j]
          /\ ~encoder.fresh => \A i \in DOMAIN s : encoder.last < s[i]
      BY <2>1 DEF BatchRises
    <2>5. \A i \in DOMAIN s : s[i] \in Nat
      BY <1>2
    <2>6. ~encoder.fresh => lastDts <= encoder.last /\ (ReorderDepth > 0 => lastDts < encoder.last)
      BY <2>1 DEF MuxerIsBehind
    <2>7. encoder.fresh => \A i \in DOMAIN s : FirstDts(s[i]) > lastDts
      BY <2>1 DEF FreshHasRoom
    <2> HIDE DEF s, pts
    <2> QED
      BY <1>5, <2>2, <2>3, <2>4, <2>5, <2>6, <2>7
  <1>10. FirstDts(pts) \in Int /\ FirstDts(pts) <= pts
         /\ (ReorderDepth > 0 => FirstDts(pts) < pts) /\ (ReorderDepth = 0 => FirstDts(pts) = pts)
    <2>1. FirstDts(pts) = pts - ReorderDepth * BaseTicks
      BY DEF FirstDts, BaseTicks
    <2>2. ASSUME NEW d \in Nat, NEW t \in Nat \ {0}
          PROVE d * t \in Nat /\ (d > 0 => d * t > 0) /\ (d = 0 => d * t = 0)
      <3>1. d > 0 => 1 * t <= d * t
        BY <2>2, SlotsAscend
      <3> QED BY <2>2, <3>1
    <2>3. ReorderDepth * BaseTicks \in Nat /\ (ReorderDepth > 0 => ReorderDepth * BaseTicks > 0)
          /\ (ReorderDepth = 0 => ReorderDepth * BaseTicks = 0)
      BY <2>2, Depths, BaseTicksPositive
    <2> HIDE DEF pts
    <2> QED BY <1>5, <2>1, <2>3
  <1> HIDE DEF s, pts, u
  <1>11. /\ lastDts' \in Int /\ refusedDts' = refusedDts /\ lastDts' <= pts
         /\ (ReorderDepth > 0 => lastDts' < pts)
    <2>1. CASE encoder.fresh \/ ReorderDepth = 0
      <3>1. Mux(FirstDts(pts))
        BY <2>1 DEF VencSubmits, pts, s
      <3>2. FirstDts(pts) > lastDts
        BY <1>5, <1>9, <1>10, <2>1, Depths
      <3>3. lastDts' = FirstDts(pts) /\ refusedDts' = refusedDts
        BY <3>1, <3>2 DEF Mux, TrackInv, TrackParts, TrackTypes
      <3> QED BY <1>10, <3>3
    <2>2. CASE ~(encoder.fresh \/ ReorderDepth = 0)
      <3>1. lastDts' = lastDts /\ refusedDts' = refusedDts
        BY <2>2 DEF VencSubmits
      <3> QED BY <1>5, <1>9, <2>2, <3>1
    <2> QED BY <2>1, <2>2
  <1>12. TrackTypes'
    BY <1>1, <1>4, <1>5, <1>8, <1>11 DEF TrackInv, TrackParts, TrackTypes, u
  <1>13. ReservedByRebuilds' /\ NoDecodeTimeGoesBack'
    BY <1>1, <1>11 DEF TrackInv, TrackParts, ReservedByRebuilds, NoDecodeTimeGoesBack
  <1>14. BatchRises'
    <2>1. \A i \in DOMAIN u : u[i] <= lastPts /\ OnBaseGrid(u[i]) /\ pts < u[i]
      BY <1>5, <1>7, <1>9
    <2>2. \A i, j \in DOMAIN u : i < j => u[i] < u[j]
      BY <1>7, <1>9
    <2>3. lastPts = -1 \/ OnBaseGrid(lastPts)
      BY DEF TrackInv, TrackParts, BatchRises
    <2> QED BY <1>1, <1>4, <2>1, <2>2, <2>3 DEF BatchRises, OnBaseGrid, BaseTicks, TicksPerFrame, u
  <1>15. MuxerIsBehind'
    <2>1. pts \in Nat /\ pts <= lastPts
      BY <1>5, <1>9
    <2> QED BY <1>1, <1>4, <1>11, <2>1 DEF MuxerIsBehind
  <1>16. FreshHasRoom'
    BY <1>4 DEF FreshHasRoom
  <1> QED BY <1>1, <1>12, <1>13, <1>14, <1>15, <1>16 DEF TrackParts

(* The slots a rebuild skips: room for the decode timestamp of whatever    *)
(* slot of whatever grid comes next.                                       *)
LEMMA SkippedSlots ==
  ASSUME NEW index \in Int, NEW t \in Nat, NEW b \in Nat, NEW d \in Nat \ {0}, b <= t
  PROVE  (index + d) * t - d * b >= (index + 1) * t - b /\ (index + d) * t \in Int
  <1>1. (index + d) * t = (index + 1) * t + (d - 1) * t
    OBVIOUS
  <1>2. d * b = b + (d - 1) * b
    OBVIOUS
  <1>3. (d - 1) * b <= (d - 1) * t
    <2>1. ASSUME NEW e \in Nat, NEW x \in Nat, NEW y \in Nat, x <= y PROVE e * x <= e * y
      BY <2>1
    <2> QED BY <2>1
  <1>4. d * b \in Int /\ (d - 1) * b \in Int /\ (d - 1) * t \in Int /\ (index + 1) * t \in Int
    OBVIOUS
  <1> QED BY <1>1, <1>2, <1>3, <1>4

LEMMA RebuildStep ==
  ASSUME TrackInv, RebuildDevice
  PROVE  [Next]_vars /\ TrackParts'
  <1> DEFINE d == ReorderDepth
             b == BaseTicks
             t == Ticks
  <1>1. /\ d \in Nat /\ b \in Nat \ {0} /\ t \in Nat \ {0} /\ b <= t /\ d * b \in Nat
        /\ lastIndex \in Nat \cup {-1} /\ lastPts \in Nat \cup {-1} /\ reserved \in Nat
        /\ lastPts < (lastIndex + 1) * t
        /\ ~started => lastPts = -1
        /\ rebuilds \in Nat /\ rebuilds < MaxRebuilds /\ MaxRebuilds \in Nat
        /\ lastDts \in Int /\ encoder.last \in Int /\ refusedDts = 0
    BY Depths, BaseTicksPositive, TicksArePositive, EveryGridIsOnTheBase
    DEF TrackInv, TrackParts, TrackTypes, NoDecodeTimeGoesBack, IInv, TypeOK, OnGrid, NothingBeforeStart,
        Ticks, RebuildDevice
  <1>2. ReserveDiscontinuity(d)
    BY DEF RebuildDevice, ReserveForReordering
  <1>3. reserved <= d * rebuilds /\ d * (rebuilds + 1) <= MaxReserved /\ d * (rebuilds + 1) = d * rebuilds + d
        /\ d * rebuilds \in Nat
    <2>1. reserved <= d * rebuilds /\ MaxReserved >= d * MaxRebuilds /\ MaxReserved \in Nat
      BY Depths DEF TrackInv, TrackParts, ReservedByRebuilds
    <2>2. ASSUME NEW e \in Nat, NEW x \in Nat, NEW y \in Nat, x < y
          PROVE e * (x + 1) <= e * y /\ e * (x + 1) = e * x + e /\ e * x \in Nat /\ e * y \in Nat
      BY <2>2
    <2> HIDE DEF d
    <2> QED BY <1>1, <2>1, <2>2
  <1>4. [Next]_vars
    <2>1. CASE d = 0
      BY <1>2, <2>1 DEF ReserveDiscontinuity
    <2>2. CASE d # 0
      <3>1. d \in 1 .. MaxReserved - reserved
        BY <1>1, <1>3, <2>2, Depths
      <3> QED BY <1>2, <3>1 DEF Next
    <2> QED BY <2>1, <2>2
  <1>5. /\ encoder' = [fresh |-> TRUE, last |-> -1] /\ rebuilds' = rebuilds + 1
        /\ UNCHANGED <<requestedFps, venc, lastElapsed>> /\ venc.at = "idle"
    BY DEF RebuildDevice
  <1>6. /\ lastDts' \in Int /\ refusedDts' = 0
        /\ encoder.fresh => lastDts' = lastDts
        /\ ~encoder.fresh => lastDts' <= lastPts
    <2>1. CASE encoder.fresh \/ d = 0
      BY <1>1, <2>1 DEF RebuildDevice, TrackInv, TrackParts, MuxerIsBehind
    <2>2. CASE ~(encoder.fresh \/ d = 0)
      <3>1. Mux(encoder.last)
        BY <2>2 DEF RebuildDevice
      <3>2. lastDts < encoder.last /\ encoder.last <= lastPts
        BY <1>1, <2>2 DEF TrackInv, TrackParts, MuxerIsBehind
      <3> QED BY <1>1, <2>2, <3>1, <3>2 DEF Mux
    <2> QED BY <2>1, <2>2
  <1>7. /\ reserved' <= d * (rebuilds + 1)
        /\ lastPts' \in Nat \cup {-1} /\ lastPts <= lastPts'
        /\ lastPts' = lastPts \/ OnBaseGrid(lastPts')
        /\ lastPts \in Nat /\ d > 0 => OnBaseGrid(lastPts') /\ lastPts < lastPts' + b - d * b
    <2>1. CASE started /\ d > 0
      <3> DEFINE slot == lastIndex + d
      <3>1. slot \in Nat /\ lastPts' = slot * t /\ reserved' = reserved + d
        BY <1>1, <1>2, <2>1 DEF ReserveDiscontinuity, PtsAfterReserving
      <3>2. slot * t - d * b >= (lastIndex + 1) * t - b /\ slot * t \in Int
        BY <1>1, <2>1, SkippedSlots
      <3>3. (lastIndex + 1) * t <= slot * t /\ (lastIndex + 1) * t \in Int
        BY <1>1, <2>1, SlotsAscend
      <3>4. OnBaseGrid(slot * t) /\ slot * t \in Nat
        BY <3>1, EveryGridIsOnTheBase DEF TrackInv, IInv, TypeOK, Ticks
      <3> HIDE DEF slot, t, b, d
      <3> QED BY <1>1, <1>3, <3>1, <3>2, <3>3, <3>4
    <2>2. CASE ~(started /\ d > 0)
      <3>1. lastPts' = lastPts /\ reserved' = reserved
        BY <1>2, <2>2 DEF ReserveDiscontinuity, vars, counters
      <3>2. d = 0 \/ lastPts = -1
        BY <1>1, <2>2
      <3> HIDE DEF t, b, d
      <3> QED BY <1>1, <1>3, <3>1, <3>2
    <2> QED BY <2>1, <2>2
  <1>8. TrackTypes'
    BY <1>1, <1>5, <1>6 DEF TrackInv, TrackParts, TrackTypes
  <1>9. ReservedByRebuilds' /\ MuxerIsBehind' /\ NoDecodeTimeGoesBack'
    BY <1>5, <1>6, <1>7 DEF ReservedByRebuilds, MuxerIsBehind, NoDecodeTimeGoesBack
  <1>10. venc.todo = <<>> /\ DOMAIN venc.todo = {}
    BY <1>5 DEF TrackInv, TrackParts, TrackTypes
  <1>11. BatchRises'
    BY <1>5, <1>7, <1>10 DEF TrackInv, TrackParts, BatchRises, OnBaseGrid, BaseTicks, TicksPerFrame
  <1>12. ASSUME NEW p \in Nat, OnBaseGrid(p), p > lastPts'
         PROVE  p - d * b > lastDts'
    <2>1. CASE encoder.fresh
      <3>1. p > lastPts
        BY <1>1, <1>7, <1>12
      <3>2. FirstDts(p) > lastDts
        BY <2>1, <3>1, <1>12 DEF TrackInv, TrackParts, FreshHasRoom
      <3> QED BY <1>6, <2>1, <3>2 DEF FirstDts, BaseTicks
    <2>2. CASE ~encoder.fresh
      <3>1. lastPts \in Nat /\ lastDts' <= lastPts
        BY <1>1, <1>6, <2>2 DEF TrackInv, TrackParts, MuxerIsBehind
      <3>2. CASE d = 0
        <4>1. d * b = 0
          BY <1>1, <3>2
        <4> HIDE DEF t, b, d
        <4> QED BY <1>1, <1>6, <1>7, <1>12, <3>1, <4>1
      <3>3. CASE d > 0
        <4>1. OnBaseGrid(lastPts') /\ lastPts < lastPts' + b - d * b /\ lastPts' \in Nat
          BY <1>7, <3>1, <3>3
        <4>2. lastPts' + b <= p
          BY <1>12, <4>1, ASlotApart
        <4>3. ASSUME NEW x \in Int, NEW y \in Int, NEW z \in Int, NEW e \in Int,
                     NEW l \in Int, NEW w \in Int,
                     w <= x, x < y + z - e, y + z <= l
              PROVE  l - e > w
          BY <4>3
        <4>4. /\ lastPts \in Int /\ lastPts' \in Int /\ b \in Int /\ d * b \in Int /\ p \in Int
              /\ lastDts' \in Int
          BY <1>1, <1>6, <1>12, <4>1
        <4> HIDE DEF t, b, d
        <4> QED BY <3>1, <4>1, <4>2, <4>3, <4>4
      <3> QED BY <1>1, <3>2, <3>3
    <2> QED BY <2>1, <2>2
  <1>13. FreshHasRoom'
    BY <1>5, <1>10, <1>12 DEF FreshHasRoom, OnBaseGrid, BaseTicks, FirstDts, TicksPerFrame
  <1> QED BY <1>4, <1>8, <1>9, <1>11, <1>13 DEF TrackParts

LEMMA TrackStutter ==
  ASSUME TrackInv, UNCHANGED allVars
  PROVE  [Next]_vars /\ TrackParts'
  <1>1. UNCHANGED vars
        /\ UNCHANGED <<requestedFps, venc, encoder, lastElapsed, lastDts, refusedDts, rebuilds>>
    BY DEF allVars, trackVars
  <1>2. TrackTypes'
    BY <1>1 DEF TrackInv, TrackParts, TrackTypes
  <1> QED BY <1>1, <1>2, QuietTrackSteps DEF vars, counters

LEMMA TrackStep ==
  ASSUME TrackInv, [TrackNext]_allVars
  PROVE  [Next]_vars /\ TrackInv'
  <1>1. [Next]_vars /\ TrackParts'
    BY EpochStep, WatchdogStep, ConversionStep, DropStep, DecideStep, SubmitStep, FailureStep,
       RebuildStep, TrackStutter DEF TrackNext
  <1> QED BY <1>1, NextPreserves DEF TrackInv

LEMMA TrackInvariance == TrackSpec => []TrackInv
  BY TrackInitEstablishes, TrackStep, PTL DEF TrackSpec

(* Each step of the encode stage and of a rebuild is one of the pacer's or *)
(* leaves it alone, and reserves no more than the bound allows.            *)
LEMMA TrackDrivesThePacer == TrackSpec => Spec
  <1>1. TrackInit => Init
    BY DEF TrackInit
  <1>2. TrackInv /\ [TrackNext]_allVars => [Next]_vars
    BY TrackStep
  <1> QED BY <1>1, <1>2, TrackInvariance, PTL DEF TrackSpec, Spec

(* What the encoder has been given rises, behind the pacer and behind what *)
(* is still to be given.                                                   *)
FileRises ==
    /\ file \in Seq([pts : Nat, content : Nat])
    /\ frame \in Nat /\ converted = frame
    /\ \A i \in DOMAIN file : file[i].pts <= lastPts /\ file[i].content <= frame
    /\ \A i \in DOMAIN file, k \in DOMAIN venc.todo : file[i].pts < venc.todo[k]
    /\ \A i, j \in DOMAIN file :
          i < j => file[i].pts < file[j].pts /\ file[i].content <= file[j].content

LEMMA ThePacerGoesOn ==
  ASSUME IInv, [Next]_vars
  PROVE  lastPts \in Int /\ lastPts' \in Int /\ lastPts <= lastPts'
  <1>1. lastPts \in Int /\ lastPts' \in Int
    BY NextPreserves DEF IInv, TypeOK
  <1>2. CASE Start
    BY <1>1, <1>2 DEF Start, IInv, NothingBeforeStart
  <1>3. CASE DecideBeforeEpoch \/ DecideExcised
    BY <1>1, <1>3 DEF DecideBeforeEpoch, DecideExcised, Drop
  <1>4. ASSUME NEW elapsed \in 0 .. MaxElapsed, Decide(elapsed) PROVE lastPts <= lastPts'
    <2>1. elapsed \in Nat
      BY PacerAssumption
    <2>2. CASE DecideDrops(elapsed)
      BY <1>1, <2>2 DEF DecideDrops, Drop
    <2>3. CASE DecideEmits(elapsed)
      BY <1>1, <2>1, <2>3, BatchAscends
    <2> QED BY <1>4, <2>2, <2>3 DEF Decide
  <1>5. ASSUME NEW rate \in Rates \cup {0}, Retime(rate) PROVE lastPts <= lastPts'
    BY <1>1, <1>5 DEF Retime
  <1>6. ASSUME NEW n \in 1 .. MaxReserved - reserved, ReserveDiscontinuity(n) PROVE lastPts <= lastPts'
    <2>1. n \in Nat \ {0} /\ lastIndex \in Int
      BY PacerAssumption DEF IInv, TypeOK
    <2>2. CASE started
      <3>t. Ticks \in Nat
        BY TicksArePositive DEF IInv, TypeOK, Ticks
      <3>1. lastPts' = (lastIndex + n) * Ticks
        <4>1. started /\ n > 0
          BY <2>1, <2>2
        <4> QED BY <1>6, <4>1 DEF ReserveDiscontinuity, PtsAfterReserving
      <3>2. (lastIndex + 1) * Ticks <= (lastIndex + n) * Ticks /\ (lastIndex + 1) * Ticks \in Int
        BY <2>1, <3>t, SlotsAscend
      <3> QED BY <1>1, <3>1, <3>2 DEF IInv, OnGrid
    <2>3. CASE ~started
      BY <1>1, <1>6, <2>3 DEF ReserveDiscontinuity, vars
    <2> QED BY <2>2, <2>3
  <1>7. CASE UNCHANGED vars
    BY <1>1, <1>7 DEF vars
  <1> QED BY <1>1, <1>2, <1>3, <1>4, <1>5, <1>6, <1>7 DEF Next

LEMMA EntriesAreTyped ==
  ASSUME NEW s \in Seq([pts : Nat, content : Nat])
  PROVE  \A i \in DOMAIN s : s[i].pts \in Nat /\ s[i].content \in Nat
  <1>1. ASSUME NEW S, NEW r \in Seq(S) PROVE \A i \in DOMAIN r : r[i] \in S
    OBVIOUS
  <1>2. \A i \in DOMAIN s : s[i] \in [pts : Nat, content : Nat]
    BY <1>1, Zenon
  <1> QED BY <1>2

LEMMA FileStep ==
  ASSUME TrackInv, FileRises, [TrackNext]_allVars
  PROVE  FileRises'
  <1>1. lastPts \in Int /\ lastPts' \in Int /\ lastPts <= lastPts'
    BY TrackStep, ThePacerGoesOn DEF TrackInv
  <1>2. \A i \in DOMAIN file : file[i].pts \in Nat /\ file[i].content \in Nat
    BY EntriesAreTyped DEF FileRises
  <1>3. ASSUME file' = file, frame' \in Nat, frame <= frame', converted' = frame',
               venc'.todo = <<>> \/ venc' = venc
        PROVE  FileRises'
    <2>1. \A k \in DOMAIN <<>> : FALSE
      OBVIOUS
    <2>2. \A i \in DOMAIN file, k \in DOMAIN venc'.todo : file[i].pts < venc'.todo[k]
      BY <1>3, <2>1 DEF FileRises
    <2>3. \A i \in DOMAIN file : file[i].pts <= lastPts' /\ file[i].content <= frame'
      BY <1>1, <1>2, <1>3 DEF FileRises
    <2> QED BY <1>3, <2>2, <2>3 DEF FileRises
  <1>4. CASE EpochResolves \/ (\E rate \in Rates : WatchdogAsks(rate)) \/ RebuildDevice \/ UNCHANGED allVars
             \/ \E elapsed \in 0 .. MaxElapsed : ConversionFails(elapsed)
    BY <1>3, <1>4 DEF EpochResolves, WatchdogAsks, RebuildDevice, ConversionFails, allVars, trackVars,
       FileRises
  <1>5. CASE \E elapsed \in 0 .. MaxElapsed : VencConverts(elapsed)
    BY <1>3, <1>5 DEF VencConverts, FileRises
  <1>6. CASE VencDrops \/ SubmissionFails
    BY <1>3, <1>6, IdleIsIdle DEF VencDrops, SubmissionFails, FileRises
  <1>7. CASE VencDecides
    <2> DEFINE b == Batch(venc.elapsed)
    <2>1. venc.elapsed \in Nat /\ DecideEmits(venc.elapsed)
      BY <1>7, PacerAssumption DEF VencDecides, TrackInv, TrackParts, TrackTypes
    <2>2. b \in Seq(Nat) /\ \A k \in DOMAIN b : b[k] > lastPts
      BY <2>1, BatchAscends DEF TrackInv
    <2>3. venc'.todo = b
      BY <1>7 DEF VencDecides, TrackInv, TrackParts, TrackTypes
    <2>4. UNCHANGED <<file, frame, converted>>
      BY <1>7 DEF VencDecides
    <2> HIDE DEF b
    <2>5. \A k \in DOMAIN b : b[k] \in Nat
      BY <2>2
    <2>6. \A i \in DOMAIN file, k \in DOMAIN b : file[i].pts < b[k]
      BY <1>1, <1>2, <2>2, <2>5 DEF FileRises
    <2>7. \A i \in DOMAIN file : file[i].pts <= lastPts' /\ file[i].content <= frame
      BY <1>1, <1>2 DEF FileRises
    <2> QED BY <2>3, <2>4, <2>6, <2>7 DEF FileRises
  <1>8. CASE VencSubmits
    <2> DEFINE todo == venc.todo
               pts == Head(todo)
               f == file
               new == [pts |-> pts, content |-> converted]
    <2>1. venc.at = "submit" /\ todo \in Seq(Nat) /\ todo # <<>>
      BY <1>8 DEF VencSubmits, TrackInv, TrackParts, TrackTypes
    <2>2. /\ pts \in Nat /\ pts = todo[1] /\ 1 \in DOMAIN todo
          /\ \A i \in DOMAIN Tail(todo) : i \in Nat /\ i + 1 \in DOMAIN todo /\ 1 < i + 1
                                       /\ Tail(todo)[i] = todo[i + 1]
      BY <2>1, TodoSplits
    <2>3. /\ file' = Append(file, new) /\ UNCHANGED <<frame, converted, lastPts>>
          /\ venc' = IF Len(todo) = 1 THEN Idle ELSE [venc EXCEPT !.todo = Tail(todo)]
      BY <1>8 DEF VencSubmits, AfterSubmission, vars
    <2>4. venc'.todo = <<>> \/ venc'.todo = Tail(todo)
      BY <2>3, IdleIsIdle DEF TrackInv, TrackParts, TrackTypes
    <2>5. \A k \in DOMAIN venc'.todo : pts < venc'.todo[k]
      <3>1. \A k \in DOMAIN <<>> : FALSE
        OBVIOUS
      <3>2. \A i, j \in DOMAIN todo : i < j => todo[i] < todo[j]
        BY DEF TrackInv, TrackParts, BatchRises
      <3>3. \A k \in DOMAIN Tail(todo) : pts < Tail(todo)[k]
        BY <2>2, <3>2
      <3> QED BY <2>4, <3>1, <3>3
    <2>6. \A i \in DOMAIN file : file[i].pts < pts
      BY <2>2 DEF FileRises
    <2>7. pts <= lastPts
      BY <2>2 DEF TrackInv, TrackParts, BatchRises
    <2>8. new \in [pts : Nat, content : Nat] /\ new.pts = pts /\ new.content = frame /\ frame \in Nat
      BY <2>2 DEF FileRises
    <2>9. /\ file \in Seq([pts : Nat, content : Nat])
          /\ \A i \in DOMAIN file : file[i].pts <= lastPts /\ file[i].content <= frame
          /\ \A i, j \in DOMAIN file :
                i < j => file[i].pts < file[j].pts /\ file[i].content <= file[j].content
      BY DEF FileRises
    <2> HIDE DEF todo, pts, new, f
    <2>10. /\ file' \in Seq([pts : Nat, content : Nat]) /\ DOMAIN file = 1 .. Len(file)
           /\ DOMAIN file' = 1 .. Len(file) + 1 /\ file'[Len(file) + 1] = new /\ Len(file) \in Nat
           /\ \A i \in DOMAIN file : file'[i] = file[i]
      BY <2>3, <2>8, <2>9
    <2>11. \A i \in DOMAIN file' : file'[i].pts <= lastPts' /\ file'[i].content <= frame'
      BY <2>3, <2>7, <2>8, <2>9, <2>10
    <2>12. \A i \in DOMAIN file' : file'[i].pts <= pts
      BY <1>2, <2>2, <2>6, <2>8, <2>10
    <2>13. \A i \in DOMAIN file', k \in DOMAIN venc'.todo : file'[i].pts < venc'.todo[k]
      <3>1. \A k \in DOMAIN venc'.todo : venc'.todo[k] \in Nat
        <4>1. venc' \in [at : {"idle", "decide", "submit"}, elapsed : 0 .. MaxElapsed, todo : Seq(Nat)]
          BY TrackStep DEF TrackInv, TrackParts, TrackTypes
        <4> QED BY <4>1
      <3>2. \A i \in DOMAIN file' : file'[i].pts \in Nat
        BY <2>10, EntriesAreTyped
      <3> QED BY <2>2, <2>5, <2>12, <3>1, <3>2
    <2>14. \A i, j \in DOMAIN file' :
              i < j => file'[i].pts < file'[j].pts /\ file'[i].content <= file'[j].content
      <3> SUFFICES ASSUME NEW i \in DOMAIN file', NEW j \in DOMAIN file', i < j
                   PROVE  file'[i].pts < file'[j].pts /\ file'[i].content <= file'[j].content
        OBVIOUS
      <3>1. i \in DOMAIN file /\ file'[i] = file[i]
        BY <2>10
      <3>2. CASE j \in DOMAIN file
        BY <2>9, <2>10, <3>1, <3>2
      <3>3. CASE j \notin DOMAIN file
        <4>1. file'[j] = new
          BY <2>10, <3>3
        <4> QED BY <2>6, <2>8, <2>9, <3>1, <4>1
      <3> QED BY <3>2, <3>3
    <2> QED BY <2>3, <2>8, <2>10, <2>11, <2>13, <2>14 DEF FileRises
  <1> QED BY <1>4, <1>5, <1>6, <1>7, <1>8 DEF TrackNext

(* PicturesAdvance: what the encoders of a recording are given has rising  *)
(* timestamps and never an older picture after a newer, whatever fails in  *)
(* the middle of a batch (encode_one), across the ladder's retimings and   *)
(* the rebuilds' gaps.                                                     *)
THEOREM TrackPtsIncrease == TrackSpec => []PicturesAdvance
  <1>1. TrackInit => FileRises
    <2>1. \A i \in DOMAIN <<>> : FALSE
      OBVIOUS
    <2> QED BY <2>1 DEF TrackInit, FileRises
  <1>2. TrackInv /\ FileRises /\ [TrackNext]_allVars => FileRises'
    BY FileStep
  <1>3. FileRises => PicturesAdvance
    <2> SUFFICES ASSUME FileRises, NEW i \in 2 .. Len(file)
                 PROVE  file[i - 1].pts < file[i].pts /\ file[i - 1].content <= file[i].content
      BY DEF PicturesAdvance
    <2>1. i - 1 \in DOMAIN file /\ i \in DOMAIN file /\ i - 1 < i
      BY DEF FileRises
    <2> QED BY <2>1 DEF FileRises
  <1> QED BY <1>1, <1>2, <1>3, TrackInvariance, PTL DEF TrackSpec

(* And a picture of the track is shown in the slot nearest to its moment,  *)
(* before and after the ladder changes the rate and a rebuild leaves a gap.*)
THEOREM TrackShowsPicturesInTime == TrackSpec => ShownNearItsTime
  BY TrackDrivesThePacer, FramesAreShownInTheirSlot, PTL

(* The muxer never meets a packet that decodes before one it was given,    *)
(* whatever the reordering depth, and however the ladder's retimings, the  *)
(* failed submissions and the rebuilds follow one another.  It needs       *)
(* GridsAssumption: with a rate whose slots are not slots of the           *)
(* configured grid it is false.                                            *)
THEOREM DecodeTimesAdvance == TrackSpec => []NoDecodeTimeGoesBack
  BY TrackInvariance, PTL DEF TrackInv, TrackParts

-----------------------------------------------------------------------------
(* Segments: what is held where, while a recording becomes files.          *)
Packet == [pts : Nat \cup {-1}, key : BOOLEAN, audio : BOOLEAN]
File == [packets : Seq(Packet), form : {"open", "trailed", "broken", "valid"}]

SegTypes ==
  /\ segmented \in BOOLEAN /\ container \in {"mp4", "mkv"} /\ keyframeAsked \in BOOLEAN
  /\ phase \in {"opened", "recording", "draining", "finalize", "staged", "valid", "ended", "crashed"}
  /\ muxQueue \in Seq(Packet)
  /\ mux \in [at : {"pop", "open", "close", "write"}, packet : Packet]
  /\ planner \in [index : Nat \ {0}, awaiting : BOOLEAN, haveStart : BOOLEAN,
                  start : Nat \cup {-1}, startBytes : Nat]
  /\ files \in Seq(File) /\ Len(files) \in Nat \ {0}
  /\ sidecar \in {"unwritten", "present", "removed"}
  /\ frames \in Nat

(* The recording still writes packets. *)
Live == phase \in {"opened", "recording", "draining"}

(* The mux thread writes to the last file, but for the moment between the  *)
(* opening of the next and the closing of the previous; a death at that    *)
(* moment leaves the new file empty.                                       *)
WritesToTheLast ==
  /\ ~Live => muxQueue = <<>> /\ mux = MuxIdle
  /\ Live => Len(files) = IF mux.at = "close" THEN planner.index + 1 ELSE planner.index
  /\ mux.at = "close" => files[Len(files)].packets = <<>>

(* An unsegmented recording is one file, under the name its record has.    *)
ClaimedUntilValid ==
  /\ ~segmented => Len(files) = 1 /\ mux.at \in {"pop", "write"}
  /\ phase = "valid" => files[Len(files)].form = "valid"
  /\ sidecar = "removed" /\ ~segmented => phase = "ended" /\ files[Len(files)].form = "valid"

(* The queue holds the frames lo .. hi - 1, in order, among the audio.     *)
Consecutive(q, lo, hi) ==
  /\ \A i \in DOMAIN q : ~q[i].audio => q[i].pts \in lo .. hi - 1
  /\ \A n \in lo .. hi - 1 : \E i \in DOMAIN q : ~q[i].audio /\ q[i].pts = n
  /\ \A i, j \in DOMAIN q : i < j /\ ~q[i].audio /\ ~q[j].audio => q[i].pts < q[j].pts

(* The files hold the frames 0 .. w - 1, in order.                         *)
InFiles(f, w) ==
  /\ \A k \in DOMAIN f : \A j \in DOMAIN f[k].packets :
        ~f[k].packets[j].audio => f[k].packets[j].pts \in 0 .. w - 1
  /\ \A n \in 0 .. w - 1 : \E k \in DOMAIN f : \E j \in DOMAIN f[k].packets :
        ~f[k].packets[j].audio /\ f[k].packets[j].pts = n
  /\ \A k, l \in DOMAIN f : \A j \in DOMAIN f[k].packets : \A i \in DOMAIN f[l].packets :
        Earlier(l, i, k, j) /\ ~f[l].packets[i].audio /\ ~f[k].packets[j].audio =>
            f[l].packets[i].pts < f[k].packets[j].pts

HoldsVideo == mux.at # "pop" /\ ~mux.packet.audio

(* The mux thread holds the next frame, the queue those after it.          *)
NextIsAtHand(w) ==
  Live => /\ w <= frames
          /\ HoldsVideo => mux.packet.pts = w /\ w < frames
          /\ Consecutive(muxQueue, IF HoldsVideo THEN w + 1 ELSE w, frames)

InOrder == \E w \in Nat : InFiles(files, w) /\ NextIsAtHand(w)

SegInv == SegTypes /\ WritesToTheLast /\ ClaimedUntilValid /\ InOrder

-----------------------------------------------------------------------------
LEMMA QueueGrows ==
  ASSUME NEW q \in Seq(Packet), NEW x \in Packet, NEW lo \in Nat, NEW hi \in Nat, lo <= hi,
         Consecutive(q, lo, hi), ~x.audio => x.pts = hi
  PROVE  /\ Append(q, x) \in Seq(Packet)
         /\ Consecutive(Append(q, x), lo, IF x.audio THEN hi ELSE hi + 1)
  <1> DEFINE r == Append(q, x)
  <1>1. /\ r \in Seq(Packet) /\ Len(q) \in Nat /\ DOMAIN q = 1 .. Len(q) /\ DOMAIN r = 1 .. Len(q) + 1
        /\ \A i \in 1 .. Len(q) : r[i] = q[i]
        /\ r[Len(q) + 1] = x
    OBVIOUS
  <1> DEFINE n == Len(q)
  <1>2. n \in Nat /\ DOMAIN q = 1 .. n /\ DOMAIN r = 1 .. n + 1 /\ (\A i \in 1 .. n : r[i] = q[i]) /\ r[n + 1] = x
    BY <1>1
  <1> HIDE DEF r, n
  <1>3. \A i \in DOMAIN r : i = n + 1 \/ i \in DOMAIN q
    BY <1>2
  <1>4. DOMAIN q \subseteq DOMAIN r /\ n + 1 \in DOMAIN r
    BY <1>2
  <1>5. \A i, j \in DOMAIN r : i < j => i \in DOMAIN q
    BY <1>2
  <1>6. CASE x.audio
    BY <1>2, <1>3, <1>4, <1>5, <1>6 DEF Consecutive
  <1>7. CASE ~x.audio
    <2>1. \A i \in DOMAIN r : ~r[i].audio => r[i].pts \in lo .. hi
      BY <1>2, <1>3, <1>7 DEF Consecutive
    <2>2. \A m \in lo .. hi : \E i \in DOMAIN r : ~r[i].audio /\ r[i].pts = m
      BY <1>2, <1>4, <1>7 DEF Consecutive
    <2>3. \A i, j \in DOMAIN r : i < j /\ ~r[i].audio /\ ~r[j].audio => r[i].pts < r[j].pts
      <3> SUFFICES ASSUME NEW i \in DOMAIN r, NEW j \in DOMAIN r, i < j, ~r[i].audio, ~r[j].audio
                   PROVE  r[i].pts < r[j].pts
        OBVIOUS
      <3>1. i \in DOMAIN q /\ r[i] = q[i] /\ q[i].pts \in lo .. hi - 1
        BY <1>2, <1>5 DEF Consecutive
      <3>2. CASE j \in DOMAIN q
        BY <1>2, <3>1, <3>2 DEF Consecutive
      <3>3. CASE j = n + 1
        BY <1>2, <1>7, <3>1, <3>3
      <3> QED BY <1>3, <3>2, <3>3
    <2> QED BY <1>1, <1>7, <2>1, <2>2, <2>3 DEF Consecutive, r
  <1> QED BY <1>1, <1>6, <1>7 DEF r

LEMMA QueueShrinks ==
  ASSUME NEW q \in Seq(Packet), q # <<>>, NEW lo \in Nat, NEW hi \in Nat, lo <= hi,
         Consecutive(q, lo, hi)
  PROVE  /\ Head(q) \in Packet /\ Tail(q) \in Seq(Packet)
         /\ Head(q).audio => Consecutive(Tail(q), lo, hi)
         /\ ~Head(q).audio => Head(q).pts = lo /\ lo < hi /\ Consecutive(Tail(q), lo + 1, hi)
  <1> DEFINE t == Tail(q)
             h == Head(q)
             n == Len(q)
  <1>1. /\ n \in Nat /\ n > 0 /\ DOMAIN q = 1 .. n /\ h = q[1] /\ h \in Packet
    OBVIOUS
  <1>2. t \in Seq(Packet) /\ DOMAIN t = 1 .. n - 1 /\ \A i \in 1 .. n - 1 : t[i] = q[i + 1]
    OBVIOUS
  <1> HIDE DEF t, h, n
  <1>3. \A i \in DOMAIN t : i \in Nat /\ i + 1 \in DOMAIN q /\ 1 < i + 1 /\ t[i] = q[i + 1]
    BY <1>1, <1>2
  <1>4. \A i \in DOMAIN q : i = 1 \/ (i - 1 \in DOMAIN t /\ t[i - 1] = q[i])
    BY <1>1, <1>2
  <1>5. 1 \in DOMAIN q
    BY <1>1
  <1>6. \A i, j \in DOMAIN t : i < j /\ ~t[i].audio /\ ~t[j].audio => t[i].pts < t[j].pts
    <2>1. ASSUME NEW i \in DOMAIN t, NEW j \in DOMAIN t, i < j, ~t[i].audio, ~t[j].audio
          PROVE  t[i].pts < t[j].pts
      <3>1. i + 1 \in DOMAIN q /\ j + 1 \in DOMAIN q /\ i + 1 < j + 1 /\ t[i] = q[i + 1] /\ t[j] = q[j + 1]
        BY <1>3, <2>1
      <3> QED BY <2>1, <3>1 DEF Consecutive
    <2> QED BY <2>1
  <1>7. CASE h.audio
    <2>1. \A i \in DOMAIN t : ~t[i].audio => t[i].pts \in lo .. hi - 1
      BY <1>3 DEF Consecutive
    <2>2. ASSUME NEW m \in lo .. hi - 1
          PROVE  \E i \in DOMAIN t : ~t[i].audio /\ t[i].pts = m
      <3>1. PICK i \in DOMAIN q : ~q[i].audio /\ q[i].pts = m
        BY DEF Consecutive
      <3>2. i # 1
        BY <1>1, <1>7, <3>1
      <3> QED BY <1>4, <3>1, <3>2
    <2> QED BY <1>1, <1>2, <1>6, <1>7, <2>1, <2>2 DEF Consecutive, t, h
  <1>8. CASE ~h.audio
    <2>1. h.pts \in lo .. hi - 1
      BY <1>1, <1>5, <1>8 DEF Consecutive
    <2>2. \A i \in DOMAIN q : i # 1 /\ ~q[i].audio => h.pts < q[i].pts
      BY <1>1, <1>5, <1>8 DEF Consecutive
    <2>3. h.pts = lo
      <3>0. lo \in lo .. hi - 1
        BY <2>1
      <3>1. PICK i \in DOMAIN q : ~q[i].audio /\ q[i].pts = lo
        BY <3>0 DEF Consecutive
      <3>2. i = 1
        BY <2>1, <2>2, <3>1
      <3> QED BY <1>1, <3>1, <3>2
    <2>4. \A i \in DOMAIN t : ~t[i].audio => t[i].pts \in lo + 1 .. hi - 1
      <3> SUFFICES ASSUME NEW i \in DOMAIN t, ~t[i].audio PROVE t[i].pts \in lo + 1 .. hi - 1
        OBVIOUS
      <3>1. i + 1 \in DOMAIN q /\ i + 1 # 1 /\ t[i] = q[i + 1]
        BY <1>3
      <3>2. q[i + 1].pts \in lo .. hi - 1 /\ lo < q[i + 1].pts
        BY <2>2, <2>3, <3>1 DEF Consecutive
      <3> QED BY <3>1, <3>2
    <2>5. ASSUME NEW m \in lo + 1 .. hi - 1
          PROVE  \E i \in DOMAIN t : ~t[i].audio /\ t[i].pts = m
      <3>1. PICK i \in DOMAIN q : ~q[i].audio /\ q[i].pts = m
        BY DEF Consecutive
      <3>2. i # 1
        BY <1>1, <2>3, <3>1
      <3> QED BY <1>4, <3>1, <3>2
    <2>6. Consecutive(t, lo + 1, hi)
      BY <1>6, <2>4, <2>5 DEF Consecutive
    <2>7. lo < hi
      BY <2>1
    <2> QED BY <1>1, <1>2, <1>8, <2>3, <2>6, <2>7 DEF t, h
  <1> QED BY <1>1, <1>2, <1>7, <1>8 DEF t, h

WithPacket(f, p, x) == [f EXCEPT ![p].packets = Append(@, x)]
WithForm(f, p, x) == [f EXCEPT ![p].form = x]

(* g is f with x appended to its last file, p.                             *)
Grows(f, p, x, g) ==
  /\ DOMAIN g = 1 .. p /\ DOMAIN f = 1 .. p /\ p \in Nat \ {0}
  /\ \A k \in 1 .. p : DOMAIN f[k].packets \subseteq DOMAIN g[k].packets
  /\ \A k \in 1 .. p : \A j \in DOMAIN f[k].packets : g[k].packets[j] = f[k].packets[j]
  /\ LET n == Len(f[p].packets)
     IN  /\ n \in Nat /\ DOMAIN f[p].packets = 1 .. n
         /\ n + 1 \in DOMAIN g[p].packets /\ g[p].packets[n + 1] = x
         /\ \A k \in 1 .. p : \A j \in DOMAIN g[k].packets :
              j \in DOMAIN f[k].packets \/ (k = p /\ j = n + 1)

LEMMA FileGrows ==
  ASSUME NEW f \in Seq(File), NEW p, p = Len(f), p \in Nat \ {0}, NEW x \in Packet,
         NEW g, g = WithPacket(f, p, x)
  PROVE  /\ g \in Seq(File) /\ Len(g) = Len(f)
         /\ \A k \in 1 .. p : g[k].form = f[k].form
         /\ Grows(f, p, x, g)
  <1>1. DOMAIN f = 1 .. p /\ p \in 1 .. p /\ \A k \in 1 .. p : f[k] \in File
    OBVIOUS
  <1>2. DOMAIN g = 1 .. p /\ (\A k \in 1 .. p : k # p => g[k] = f[k])
        /\ g[p] = [f[p] EXCEPT !.packets = Append(@, x)]
    BY <1>1 DEF WithPacket
  <1> DEFINE s == f[p].packets
  <1>3. f[p] \in File /\ s \in Seq(Packet)
    BY <1>1 DEF File
  <1>4. g[p].packets = Append(s, x) /\ g[p].form = f[p].form
    BY <1>2, <1>3 DEF File
  <1>5. /\ Append(s, x) \in Seq(Packet) /\ Len(s) \in Nat /\ DOMAIN s = 1 .. Len(s)
        /\ DOMAIN Append(s, x) = 1 .. Len(s) + 1
        /\ \A i \in 1 .. Len(s) : Append(s, x)[i] = s[i]
        /\ Append(s, x)[Len(s) + 1] = x
    BY <1>3
  <1>6. g[p] \in File
    <2>1. ASSUME NEW r \in File, NEW t \in Seq(Packet) PROVE [r EXCEPT !.packets = t] \in File
      BY DEF File
    <2>2. g[p] = [f[p] EXCEPT !.packets = Append(s, x)]
      BY <1>2
    <2> DEFINE t == Append(s, x)
    <2>3. f[p] \in File /\ t \in Seq(Packet) /\ g[p] = [f[p] EXCEPT !.packets = t]
      BY <1>3, <1>5, <2>2
    <2> HIDE DEF t, s
    <2> QED BY <2>1, <2>3
  <1>7. \A k \in 1 .. p : g[k] \in File
    BY <1>1, <1>2, <1>6
  <1>8. g \in [1 .. p -> File]
    <2>1. g = [k \in 1 .. p |-> g[k]]
      BY <1>2, <1>1 DEF WithPacket
    <2> QED BY <1>7, <2>1
  <1>9. g \in Seq(File) /\ Len(g) = p
    BY <1>8
  <1> DEFINE n == Len(s)
  <1>10. n \in Nat /\ DOMAIN s = 1 .. n /\ DOMAIN g[p].packets = 1 .. n + 1 /\ g[p].packets[n + 1] = x
         /\ \A i \in 1 .. n : g[p].packets[i] = s[i]
    BY <1>4, <1>5
  <1> HIDE DEF n, s
  <1>11. \A j \in 1 .. n + 1 : j \in 1 .. n \/ j = n + 1
    BY <1>10
  <1>12. 1 .. n \subseteq 1 .. n + 1 /\ n + 1 \in 1 .. n + 1
    BY <1>10
  <1>13. /\ \A k \in 1 .. p : DOMAIN f[k].packets \subseteq DOMAIN g[k].packets
         /\ \A k \in 1 .. p : \A j \in DOMAIN f[k].packets : g[k].packets[j] = f[k].packets[j]
         /\ \A k \in 1 .. p : \A j \in DOMAIN g[k].packets :
              j \in DOMAIN f[k].packets \/ (k = p /\ j = n + 1)
    BY <1>2, <1>10, <1>11, <1>12 DEF s
  <1>14. Grows(f, p, x, g)
    BY <1>1, <1>2, <1>10, <1>12, <1>13 DEF Grows, n, s
  <1>15. \A k \in 1 .. p : g[k].form = f[k].form
    BY <1>2, <1>4
  <1> QED BY <1>9, <1>14, <1>15

LEMMA FilesGrow ==
  ASSUME NEW f, NEW p, NEW x, NEW g, Grows(f, p, x, g),
         NEW w \in Nat, InFiles(f, w), ~x.audio => x.pts = w
  PROVE  InFiles(g, IF x.audio THEN w ELSE w + 1)
  <1> DEFINE n == Len(f[p].packets)
             v == IF x.audio THEN w ELSE w + 1
  <1>1. /\ DOMAIN g = 1 .. p /\ DOMAIN f = 1 .. p /\ n \in Nat /\ DOMAIN f[p].packets = 1 .. n
        /\ n + 1 \in DOMAIN g[p].packets /\ g[p].packets[n + 1] = x /\ p \in Nat
        /\ p \in 1 .. p
    BY DEF Grows
  <1>2. \A k \in 1 .. p : /\ DOMAIN f[k].packets \subseteq DOMAIN g[k].packets
                          /\ \A j \in DOMAIN f[k].packets : g[k].packets[j] = f[k].packets[j]
    BY DEF Grows
  <1>3. \A k \in 1 .. p : \A j \in DOMAIN g[k].packets :
              j \in DOMAIN f[k].packets \/ (k = p /\ j = n + 1)
    BY DEF Grows
  <1>4. v \in Nat /\ w <= v /\ (~x.audio => v = w + 1)
    OBVIOUS
  <1> HIDE DEF n, v
  <1>5. ASSUME NEW k \in 1 .. p, NEW j \in DOMAIN g[k].packets, ~g[k].packets[j].audio
        PROVE  g[k].packets[j].pts \in 0 .. v - 1
    <2>1. CASE j \in DOMAIN f[k].packets
      <3>1. f[k].packets[j].pts \in 0 .. w - 1
        BY <1>1, <1>2, <1>5, <2>1 DEF InFiles
      <3> QED BY <1>2, <1>4, <2>1, <3>1
    <2>2. CASE k = p /\ j = n + 1
      BY <1>1, <1>4, <1>5, <2>2
    <2> QED BY <1>3, <2>1, <2>2
  <1>6. ASSUME NEW m \in 0 .. v - 1
        PROVE  \E k \in 1 .. p : \E j \in DOMAIN g[k].packets :
                  ~g[k].packets[j].audio /\ g[k].packets[j].pts = m
    <2>1. CASE m \in 0 .. w - 1
      <3>1. PICK k \in 1 .. p : \E j \in DOMAIN f[k].packets : ~f[k].packets[j].audio /\ f[k].packets[j].pts = m
        BY <1>1, <2>1 DEF InFiles
      <3>2. PICK j \in DOMAIN f[k].packets : ~f[k].packets[j].audio /\ f[k].packets[j].pts = m
        BY <3>1
      <3>3. j \in DOMAIN g[k].packets /\ g[k].packets[j] = f[k].packets[j]
        BY <1>2
      <3> QED BY <3>2, <3>3
    <2>2. CASE m \notin 0 .. w - 1
      <3>1. ~x.audio /\ m = w
        BY <2>2 DEF v
      <3> QED BY <1>1, <3>1
    <2> QED BY <2>1, <2>2
  <1>7. ASSUME NEW k \in 1 .. p, NEW l \in 1 .. p,
               NEW j \in DOMAIN g[k].packets, NEW i \in DOMAIN g[l].packets,
               Earlier(l, i, k, j), ~g[l].packets[i].audio, ~g[k].packets[j].audio
        PROVE  g[l].packets[i].pts < g[k].packets[j].pts
    <2>1. i \in DOMAIN f[l].packets
      <3>1. CASE l = p /\ i = n + 1
        <4>1. k = p /\ j > n + 1
          BY <1>7, <3>1 DEF Earlier
        <4>2. j \in 1 .. n \/ j = n + 1
          BY <1>1, <1>3, <4>1
        <4> QED BY <1>1, <4>1, <4>2
      <3> QED BY <1>3, <3>1
    <2>2. g[l].packets[i] = f[l].packets[i] /\ f[l].packets[i].pts \in 0 .. w - 1
      BY <1>1, <1>2, <1>7, <2>1 DEF InFiles
    <2>3. CASE j \in DOMAIN f[k].packets
      <3>1. g[k].packets[j] = f[k].packets[j] /\ ~f[k].packets[j].audio /\ ~f[l].packets[i].audio
        BY <1>2, <1>7, <2>2, <2>3
      <3>2. k \in DOMAIN f /\ l \in DOMAIN f
        BY <1>1
      <3>3. f[l].packets[i].pts < f[k].packets[j].pts
        BY <1>7, <2>1, <2>3, <3>1, <3>2 DEF InFiles
      <3> QED BY <2>2, <3>1, <3>3
    <2>4. CASE k = p /\ j = n + 1
      <3>1. g[k].packets[j] = x /\ ~x.audio /\ x.pts = w
        BY <1>1, <1>7, <2>4
      <3> QED BY <2>2, <3>1
    <2> QED BY <1>3, <2>3, <2>4
  <1>8. InFiles(g, v)
    <2>1. \A k \in DOMAIN g : \A j \in DOMAIN g[k].packets :
            ~g[k].packets[j].audio => g[k].packets[j].pts \in 0 .. v - 1
      BY <1>1, <1>5
    <2>2. \A m \in 0 .. v - 1 : \E k \in DOMAIN g : \E j \in DOMAIN g[k].packets :
            ~g[k].packets[j].audio /\ g[k].packets[j].pts = m
      BY <1>1, <1>6
    <2>3. \A k, l \in DOMAIN g : \A j \in DOMAIN g[k].packets : \A i \in DOMAIN g[l].packets :
            Earlier(l, i, k, j) /\ ~g[l].packets[i].audio /\ ~g[k].packets[j].audio =>
                g[l].packets[i].pts < g[k].packets[j].pts
      BY <1>1, <1>7, Zenon
    <2> QED BY <2>1, <2>2, <2>3 DEF InFiles
  <1> QED BY <1>8 DEF v

(* A file is opened, empty, after the others.                              *)
LEMMA FileOpens ==
  ASSUME NEW f \in Seq(File), NEW w \in Nat, InFiles(f, w)
  PROVE  /\ Append(f, Opened) \in Seq(File) /\ Len(Append(f, Opened)) = Len(f) + 1
         /\ Append(f, Opened)[Len(f) + 1] = Opened /\ Opened.packets = <<>>
         /\ InFiles(Append(f, Opened), w)
  <1> DEFINE g == Append(f, Opened)
             p == Len(f)
  <1>1. Opened \in File /\ Opened.packets = <<>>
    BY DEF Opened, File
  <1>2. /\ g \in Seq(File) /\ Len(g) = Len(f) + 1 /\ p \in Nat /\ DOMAIN f = 1 .. p /\ DOMAIN g = 1 .. p + 1
        /\ g[p + 1] = Opened /\ \A k \in 1 .. p : g[k] = f[k]
    BY <1>1
  <1> HIDE DEF g, p
  <1>3. DOMAIN Opened.packets = {}
    BY <1>1
  <1>4. \A k \in DOMAIN g : (k \in DOMAIN f /\ g[k] = f[k]) \/ DOMAIN g[k].packets = {}
    BY <1>2, <1>3
  <1>5. \A k \in DOMAIN f : k \in DOMAIN g /\ g[k] = f[k]
    BY <1>2
  <1>6. InFiles(g, w)
    <2>1. \A k \in DOMAIN g : \A j \in DOMAIN g[k].packets : k \in DOMAIN f /\ g[k] = f[k] /\ j \in DOMAIN f[k].packets
      BY <1>4
    <2>2. \A m \in 0 .. w - 1 : \E k \in DOMAIN g : \E j \in DOMAIN g[k].packets :
            ~g[k].packets[j].audio /\ g[k].packets[j].pts = m
      <3> SUFFICES ASSUME NEW m \in 0 .. w - 1
                   PROVE  \E k \in DOMAIN g : \E j \in DOMAIN g[k].packets :
                              ~g[k].packets[j].audio /\ g[k].packets[j].pts = m
        OBVIOUS
      <3>1. PICK k \in DOMAIN f : \E j \in DOMAIN f[k].packets :
                  ~f[k].packets[j].audio /\ f[k].packets[j].pts = m
        BY DEF InFiles
      <3> QED BY <1>5, <3>1
    <2>3. \A k \in DOMAIN g : \A j \in DOMAIN g[k].packets :
            ~g[k].packets[j].audio => g[k].packets[j].pts \in 0 .. w - 1
      BY <2>1 DEF InFiles
    <2>4. \A k, l \in DOMAIN g : \A j \in DOMAIN g[k].packets : \A i \in DOMAIN g[l].packets :
            Earlier(l, i, k, j) /\ ~g[l].packets[i].audio /\ ~g[k].packets[j].audio =>
                g[l].packets[i].pts < g[k].packets[j].pts
      BY <2>1 DEF InFiles
    <2> QED BY <2>2, <2>3, <2>4 DEF InFiles
  <1> QED BY <1>1, <1>2, <1>6 DEF g, p

(* Only the form of one file changes, to x.                                *)
Reforms(f, p, x, g) ==
  /\ g \in Seq(File) /\ Len(g) = Len(f) /\ DOMAIN g = DOMAIN f
  /\ g[p].form = x
  /\ \A k \in DOMAIN f : g[k].packets = f[k].packets

LEMMA FormChanges ==
  ASSUME NEW f \in Seq(File), NEW p \in DOMAIN f, NEW x \in {"open", "trailed", "broken", "valid"},
         NEW g, g = WithForm(f, p, x)
  PROVE  Reforms(f, p, x, g)
  <1>1. DOMAIN f = 1 .. Len(f) /\ Len(f) \in Nat /\ \A k \in DOMAIN f : f[k] \in File
    OBVIOUS
  <1>2. DOMAIN g = DOMAIN f /\ (\A k \in DOMAIN f : k # p => g[k] = f[k])
        /\ g[p] = [f[p] EXCEPT !.form = x]
    BY <1>1 DEF WithForm
  <1>3. g[p].form = x /\ g[p].packets = f[p].packets /\ g[p] \in File
    BY <1>1, <1>2 DEF File
  <1>4. \A k \in DOMAIN f : g[k].packets = f[k].packets /\ g[k] \in File
    BY <1>1, <1>2, <1>3
  <1>5. g = [k \in 1 .. Len(f) |-> g[k]]
    BY <1>1, <1>2 DEF WithForm
  <1>6. g \in Seq(File) /\ Len(g) = Len(f)
    BY <1>1, <1>4, <1>5
  <1> QED BY <1>2, <1>3, <1>4, <1>6 DEF Reforms

LEMMA FormsDoNotMatter ==
  ASSUME NEW f, NEW p, NEW x, NEW g, Reforms(f, p, x, g), NEW w, InFiles(f, w)
  PROVE  InFiles(g, w)
  <1>1. DOMAIN g = DOMAIN f /\ \A k \in DOMAIN f : g[k].packets = f[k].packets
    BY DEF Reforms
  <1>2. \A k \in DOMAIN g : \A j \in DOMAIN g[k].packets :
          ~g[k].packets[j].audio => g[k].packets[j].pts \in 0 .. w - 1
    BY <1>1 DEF InFiles
  <1>3. \A n \in 0 .. w - 1 : \E k \in DOMAIN g : \E j \in DOMAIN g[k].packets :
          ~g[k].packets[j].audio /\ g[k].packets[j].pts = n
    <2> SUFFICES ASSUME NEW n \in 0 .. w - 1
                 PROVE  \E k \in DOMAIN g : \E j \in DOMAIN g[k].packets :
                            ~g[k].packets[j].audio /\ g[k].packets[j].pts = n
      OBVIOUS
    <2>1. PICK k \in DOMAIN f : \E j \in DOMAIN f[k].packets :
                ~f[k].packets[j].audio /\ f[k].packets[j].pts = n
      BY DEF InFiles
    <2> QED BY <1>1, <2>1
  <1>4. \A k, l \in DOMAIN g : \A j \in DOMAIN g[k].packets : \A i \in DOMAIN g[l].packets :
          Earlier(l, i, k, j) /\ ~g[l].packets[i].audio /\ ~g[k].packets[j].audio =>
              g[l].packets[i].pts < g[k].packets[j].pts
    BY <1>1 DEF InFiles
  <1> QED BY <1>2, <1>3, <1>4 DEF InFiles

-----------------------------------------------------------------------------
LEMMA SegInitially == SegInit => SegInv
  <1> SUFFICES ASSUME SegInit PROVE SegInv
    OBVIOUS
  <1>1. Opened \in File /\ Nothing \in Packet /\ Fresh \in [index : Nat \ {0}, awaiting : BOOLEAN,
            haveStart : BOOLEAN, start : Nat \cup {-1}, startBytes : Nat]
    BY DEF Opened, File, Nothing, Packet, Fresh
  <1>2. files = <<Opened>> /\ files \in Seq(File) /\ Len(files) = 1 /\ DOMAIN files = {1} /\ files[1] = Opened
    BY <1>1 DEF SegInit
  <1>3. muxQueue = <<>> /\ muxQueue \in Seq(Packet) /\ mux = MuxIdle /\ frames = 0 /\ phase = "opened"
        /\ planner = Fresh /\ sidecar = "unwritten"
    BY DEF SegInit
  <1>4. mux \in [at : {"pop", "open", "close", "write"}, packet : Packet] /\ mux.at = "pop"
    BY <1>1, <1>3 DEF MuxIdle
  <1>5. SegTypes
    <2>1. segmented \in BOOLEAN /\ container \in {"mp4", "mkv"} /\ keyframeAsked \in BOOLEAN
      BY DEF SegInit
    <2>2. planner \in [index : Nat \ {0}, awaiting : BOOLEAN, haveStart : BOOLEAN,
                       start : Nat \cup {-1}, startBytes : Nat]
      BY <1>1, <1>3
    <2>3. Len(files) \in Nat \ {0} /\ frames \in Nat
      BY <1>2, <1>3
    <2> QED BY <1>2, <1>3, <1>4, <2>1, <2>2, <2>3 DEF SegTypes
  <1>6. WritesToTheLast /\ ClaimedUntilValid
    BY <1>2, <1>3, <1>4 DEF WritesToTheLast, ClaimedUntilValid, Live, Fresh
  <1>7. InFiles(files, 0)
    <2>1. \A k \in DOMAIN files : files[k].packets = <<>>
      BY <1>2 DEF Opened
    <2>2. \A j \in DOMAIN <<>> : FALSE
      OBVIOUS
    <2> QED BY <2>1, <2>2 DEF InFiles
  <1>8. Consecutive(muxQueue, 0, 0)
    <2>1. \A j \in DOMAIN <<>> : FALSE
      OBVIOUS
    <2> QED BY <1>3, <2>1 DEF Consecutive
  <1>9. NextIsAtHand(0)
    BY <1>3, <1>4, <1>8 DEF NextIsAtHand, HoldsVideo
  <1> QED BY <1>5, <1>6, <1>7, <1>9 DEF SegInv, InOrder

LEMMA EmitStep ==
  ASSUME SegInv, NEW packet \in Packet, Emit(packet), frames' \in Nat, keyframeAsked' \in BOOLEAN,
         ~packet.audio => packet.pts = frames,
         frames' = IF packet.audio THEN frames ELSE frames + 1
  PROVE  SegInv'
  <1>1. /\ Live /\ phase = "recording" /\ muxQueue' = Append(muxQueue, packet)
        /\ UNCHANGED <<segmented, container, planner, files, phase, mux, sidecar>>
    BY DEF Emit, Live, settingVars, fileVars
  <1>2. muxQueue \in Seq(Packet) /\ muxQueue' \in Seq(Packet) /\ frames \in Nat
    BY <1>1 DEF SegInv, SegTypes
  <1>3. SegTypes'
    BY <1>1, <1>2 DEF SegInv, SegTypes
  <1>4. WritesToTheLast' /\ ClaimedUntilValid'
    BY <1>1 DEF SegInv, WritesToTheLast, ClaimedUntilValid, Live
  <1>5. PICK w \in Nat : InFiles(files, w) /\ NextIsAtHand(w)
    BY DEF SegInv, InOrder
  <1>6. NextIsAtHand(w)'
    <2> DEFINE lo == IF HoldsVideo THEN w + 1 ELSE w
    <2>1. lo \in Nat /\ lo <= frames /\ Consecutive(muxQueue, lo, frames)
          /\ w <= frames /\ (HoldsVideo => mux.packet.pts = w /\ w < frames)
      BY <1>1, <1>2, <1>5 DEF NextIsAtHand
    <2> HIDE DEF lo
    <2>2. Consecutive(muxQueue', lo, frames')
      BY <1>1, <1>2, <2>1, QueueGrows
    <2>3. HoldsVideo' = HoldsVideo /\ frames <= frames'
      BY <1>1, <1>2 DEF HoldsVideo
    <2>4. w <= frames' /\ (HoldsVideo' => mux'.packet.pts = w /\ w < frames')
      BY <1>1, <1>2, <2>1, <2>3
    <2> QED BY <2>2, <2>3, <2>4 DEF NextIsAtHand, lo
  <1> QED BY <1>1, <1>3, <1>4, <1>5, <1>6 DEF SegInv, InOrder

LEMMA VideoStep == SegInv /\ VideoPacket => SegInv'
  <1> SUFFICES ASSUME SegInv, VideoPacket PROVE SegInv'
    OBVIOUS
  <1>1. frames \in Nat /\ keyframeAsked \in BOOLEAN
    BY DEF SegInv, SegTypes
  <1>2. PICK natural \in BOOLEAN :
          Emit([pts |-> frames, key |-> natural \/ keyframeAsked \/ frames = 0, audio |-> FALSE])
    BY DEF VideoPacket
  <1> DEFINE packet == [pts |-> frames, key |-> natural \/ keyframeAsked \/ frames = 0, audio |-> FALSE]
  <1>3. packet \in Packet /\ ~packet.audio /\ packet.pts = frames
    BY <1>1 DEF Packet
  <1>4. frames' = frames + 1 /\ keyframeAsked' = FALSE /\ Emit(packet)
    BY <1>2 DEF VideoPacket
  <1> HIDE DEF packet
  <1>5. frames' \in Nat /\ keyframeAsked' \in BOOLEAN /\ frames' = IF packet.audio THEN frames ELSE frames + 1
    <2>1. frames' \in Nat
      BY <1>1, <1>4
    <2>2. keyframeAsked' \in BOOLEAN
      BY DEF VideoPacket
    <2>3. frames' = IF packet.audio THEN frames ELSE frames + 1
      BY <1>3, <1>4
    <2> QED BY <2>1, <2>2, <2>3
  <1> QED BY <1>3, <1>4, <1>5, EmitStep

LEMMA AudioStep == SegInv /\ AudioPacket => SegInv'
  <1> SUFFICES ASSUME SegInv, AudioPacket PROVE SegInv'
    OBVIOUS
  <1>1. frames \in Nat /\ keyframeAsked \in BOOLEAN
    BY DEF SegInv, SegTypes
  <1> DEFINE packet == [Nothing EXCEPT !.audio = TRUE]
  <1>3. packet \in Packet /\ packet.audio
    BY DEF Packet, Nothing
  <1>4. frames' = frames /\ keyframeAsked' = keyframeAsked /\ Emit(packet)
    BY DEF AudioPacket
  <1> HIDE DEF packet
  <1>5. frames' = IF packet.audio THEN frames ELSE frames + 1
    BY <1>3, <1>4
  <1> QED BY <1>1, <1>3, <1>4, <1>5, EmitStep

LEMMA PopStep == SegInv /\ MuxPops => SegInv'
  <1> SUFFICES ASSUME SegInv, MuxPops PROVE SegInv'
    OBVIOUS
  <1> DEFINE h == Head(muxQueue)
             t == Tail(muxQueue)
             offered == segmented /\ ~h.audio
             action == IF offered THEN Offer(h) ELSE "continue"
  <1>1. /\ Live /\ mux.at = "pop" /\ muxQueue # <<>> /\ muxQueue' = t
        /\ UNCHANGED <<segmented, container, phase, frames, files, sidecar>>
        /\ mux' = [at |-> IF action = "split" THEN "open" ELSE "write", packet |-> h]
        /\ planner' = IF offered THEN [Latched(h) EXCEPT !.awaiting = @ \/ action = "request"]
                      ELSE planner
        /\ keyframeAsked' = (keyframeAsked \/ action = "request")
    BY DEF MuxPops, Live, settingVars
  <1>2. /\ muxQueue \in Seq(Packet) /\ frames \in Nat /\ keyframeAsked \in BOOLEAN
        /\ files \in Seq(File) /\ Len(files) \in Nat \ {0}
        /\ planner \in [index : Nat \ {0}, awaiting : BOOLEAN, haveStart : BOOLEAN,
                        start : Nat \cup {-1}, startBytes : Nat]
    BY DEF SegInv, SegTypes
  <1>3. h \in Packet /\ t \in Seq(Packet)
    BY <1>1, <1>2
  <1>4. BytesWritten \in Nat
    <2>1. files[Len(files)] \in File
      BY <1>2
    <2>2. files[Len(files)].packets \in Seq(Packet)
      BY <2>1 DEF File
    <2> QED BY <2>2 DEF BytesWritten, Last
  <1> HIDE DEF h, t, action
  <1>5. /\ planner' \in [index : Nat \ {0}, awaiting : BOOLEAN, haveStart : BOOLEAN,
                         start : Nat \cup {-1}, startBytes : Nat]
        /\ planner'.index = planner.index
    <2>1. h.pts \in Nat \cup {-1}
      BY <1>3 DEF Packet
    <2> QED BY <1>1, <1>2, <1>4, <2>1 DEF Latched
  <1>6. /\ mux' \in [at : {"pop", "open", "close", "write"}, packet : Packet]
        /\ mux'.packet = h /\ mux'.at \in {"open", "write"}
        /\ ~segmented => mux'.at = "write"
    BY <1>1, <1>3 DEF action
  <1>7. SegTypes'
    BY <1>1, <1>2, <1>3, <1>5, <1>6 DEF SegInv, SegTypes
  <1>8. WritesToTheLast' /\ ClaimedUntilValid'
    BY <1>1, <1>5, <1>6 DEF SegInv, WritesToTheLast, ClaimedUntilValid, Live
  <1>9. PICK w \in Nat : InFiles(files, w) /\ NextIsAtHand(w)
    BY DEF SegInv, InOrder
  <1>10. NextIsAtHand(w)'
    <2>1. w <= frames /\ Consecutive(muxQueue, w, frames)
      BY <1>1, <1>9 DEF NextIsAtHand, HoldsVideo
    <2>2. /\ h.audio => Consecutive(t, w, frames)
          /\ ~h.audio => h.pts = w /\ w < frames /\ Consecutive(t, w + 1, frames)
      BY <1>1, <1>2, <2>1, QueueShrinks DEF h, t
    <2>3. HoldsVideo' = ~h.audio
      BY <1>3, <1>6 DEF HoldsVideo, Packet
    <2> QED BY <1>1, <1>6, <2>1, <2>2, <2>3 DEF NextIsAtHand
  <1> QED BY <1>1, <1>7, <1>8, <1>9, <1>10 DEF SegInv, InOrder

LEMMA OpenStep == SegInv /\ MuxOpensNext => SegInv'
  <1> SUFFICES ASSUME SegInv, MuxOpensNext PROVE SegInv'
    OBVIOUS
  <1>1. /\ mux.at = "open"
        /\ UNCHANGED <<segmented, container, keyframeAsked, frames, phase, muxQueue, planner, sidecar>>
    BY DEF MuxOpensNext, settingVars, producerVars
  <1>2. Live /\ segmented /\ files \in Seq(File)
        /\ mux \in [at : {"pop", "open", "close", "write"}, packet : Packet]
    BY <1>1 DEF SegInv, SegTypes, WritesToTheLast, ClaimedUntilValid, MuxIdle
  <1>3. PICK w \in Nat : InFiles(files, w) /\ NextIsAtHand(w)
    BY DEF SegInv, InOrder
  <1>4. CASE files' = Append(files, Opened) /\ mux' = [mux EXCEPT !.at = "close"]
    <2>1. /\ files' \in Seq(File) /\ Len(files') = Len(files) + 1
          /\ files'[Len(files')].packets = <<>> /\ InFiles(files', w)
      BY <1>2, <1>3, <1>4, FileOpens
    <2>2. /\ mux' \in [at : {"pop", "open", "close", "write"}, packet : Packet]
          /\ mux'.at = "close" /\ mux'.packet = mux.packet
      BY <1>2, <1>4
    <2>3. SegTypes'
      BY <1>1, <2>1, <2>2 DEF SegInv, SegTypes
    <2>4. WritesToTheLast' /\ ClaimedUntilValid'
      BY <1>1, <1>2, <2>1, <2>2 DEF SegInv, SegTypes, WritesToTheLast, ClaimedUntilValid, Live
    <2>5. NextIsAtHand(w)'
      BY <1>1, <1>2, <1>3, <2>2 DEF NextIsAtHand, HoldsVideo, Live
    <2> QED BY <2>1, <2>3, <2>4, <2>5 DEF SegInv, InOrder
  <1>5. CASE files' = files /\ mux' = [mux EXCEPT !.at = "write"]
    <2>2. /\ mux' \in [at : {"pop", "open", "close", "write"}, packet : Packet]
          /\ mux'.at = "write" /\ mux'.packet = mux.packet
      BY <1>2, <1>5
    <2>3. SegTypes'
      BY <1>1, <1>5, <2>2 DEF SegInv, SegTypes
    <2>4. WritesToTheLast' /\ ClaimedUntilValid'
      BY <1>1, <1>2, <1>5, <2>2 DEF SegInv, SegTypes, WritesToTheLast, ClaimedUntilValid, Live
    <2>5. NextIsAtHand(w)'
      BY <1>1, <1>2, <1>3, <2>2 DEF NextIsAtHand, HoldsVideo, Live
    <2> QED BY <1>3, <1>5, <2>3, <2>4, <2>5 DEF SegInv, InOrder
  <1> QED BY <1>4, <1>5 DEF MuxOpensNext, KeepThePacket

LEMMA CloseStep == SegInv /\ MuxClosesPrevious => SegInv'
  <1> SUFFICES ASSUME SegInv, MuxClosesPrevious PROVE SegInv'
    OBVIOUS
  <1>1. /\ mux.at = "close" /\ mux' = [mux EXCEPT !.at = "write"] /\ planner' = NoteSplit(mux.packet)
        /\ UNCHANGED <<segmented, container, keyframeAsked, frames, phase, muxQueue, sidecar>>
    BY DEF MuxClosesPrevious, settingVars, producerVars
  <1>2. PICK form \in {"trailed", "broken"} : files' = WithForm(files, planner.index, form)
    BY DEF MuxClosesPrevious, WithForm
  <1>3. /\ Live /\ segmented /\ files \in Seq(File) /\ Len(files) = planner.index + 1
        /\ mux \in [at : {"pop", "open", "close", "write"}, packet : Packet]
        /\ planner.index \in Nat \ {0} /\ planner.index \in DOMAIN files
    BY <1>1 DEF SegInv, SegTypes, WritesToTheLast, ClaimedUntilValid, MuxIdle
  <1>4. PICK w \in Nat : InFiles(files, w) /\ NextIsAtHand(w)
    BY DEF SegInv, InOrder
  <1>5. files' \in Seq(File) /\ Len(files') = Len(files) /\ InFiles(files', w)
    <2>1. Reforms(files, planner.index, form, files')
      BY <1>2, <1>3, FormChanges
    <2> QED BY <1>4, <2>1, FormsDoNotMatter DEF Reforms
  <1>6. /\ mux' \in [at : {"pop", "open", "close", "write"}, packet : Packet]
        /\ mux'.at = "write" /\ mux'.packet = mux.packet /\ mux.packet.pts \in Nat \cup {-1}
    BY <1>1, <1>3 DEF Packet
  <1>7. /\ planner' \in [index : Nat \ {0}, awaiting : BOOLEAN, haveStart : BOOLEAN,
                         start : Nat \cup {-1}, startBytes : Nat]
        /\ planner'.index = planner.index + 1
    BY <1>1, <1>3, <1>6 DEF NoteSplit
  <1>8. SegTypes'
    BY <1>1, <1>5, <1>6, <1>7 DEF SegInv, SegTypes
  <1>9. WritesToTheLast' /\ ClaimedUntilValid'
    BY <1>1, <1>3, <1>5, <1>6, <1>7 DEF SegInv, WritesToTheLast, ClaimedUntilValid, Live
  <1>10. NextIsAtHand(w)'
    BY <1>1, <1>3, <1>4, <1>6 DEF NextIsAtHand, HoldsVideo, Live
  <1> QED BY <1>5, <1>8, <1>9, <1>10 DEF SegInv, InOrder

LEMMA WriteStep == SegInv /\ MuxWrites => SegInv'
  <1> SUFFICES ASSUME SegInv, MuxWrites PROVE SegInv'
    OBVIOUS
  <1> DEFINE x == mux.packet
             p == planner.index
  <1>1. /\ mux.at = "write" /\ mux' = MuxIdle
        /\ files' = WithPacket(files, p, x)
        /\ UNCHANGED <<segmented, container, keyframeAsked, frames, phase, muxQueue, planner, sidecar>>
    BY DEF MuxWrites, WithPacket, settingVars, producerVars
  <1>2. /\ Live /\ files \in Seq(File) /\ Len(files) = p /\ x \in Packet /\ p \in Nat \ {0}
        /\ mux \in [at : {"pop", "open", "close", "write"}, packet : Packet]
    BY <1>1 DEF SegInv, SegTypes, WritesToTheLast, MuxIdle
  <1> HIDE DEF x, p
  <1>3. /\ files' \in Seq(File) /\ Len(files') = Len(files)
        /\ \A k \in 1 .. p : files'[k].form = files[k].form
        /\ Grows(files, p, x, files')
    BY <1>1, <1>2, FileGrows
  <1>4. MuxIdle \in [at : {"pop", "open", "close", "write"}, packet : Packet] /\ MuxIdle.at = "pop"
    BY DEF MuxIdle, Nothing, Packet
  <1>5. PICK w \in Nat : InFiles(files, w) /\ NextIsAtHand(w)
    BY DEF SegInv, InOrder
  <1>6. ~x.audio <=> HoldsVideo
    BY <1>1 DEF HoldsVideo, x
  <1>7. /\ ~x.audio => x.pts = w /\ w < frames
        /\ Consecutive(muxQueue, IF x.audio THEN w ELSE w + 1, frames)
        /\ w <= frames /\ frames \in Nat
    BY <1>2, <1>5, <1>6 DEF NextIsAtHand, x, SegInv, SegTypes
  <1>0. PICK v \in Nat : v = IF x.audio THEN w ELSE w + 1
    OBVIOUS
  <1>8. InFiles(files', v)
    BY <1>0, <1>3, <1>5, <1>7, FilesGrow
  <1>9. v \in Nat /\ v <= frames
    BY <1>0, <1>7
  <1>10. Consecutive(muxQueue, v, frames)
    BY <1>0, <1>7
  <1>11. ~HoldsVideo'
    BY <1>1, <1>4 DEF HoldsVideo
  <1>12. NextIsAtHand(v)'
    BY <1>1, <1>9, <1>10, <1>11 DEF NextIsAtHand
  <1>13. SegTypes'
    BY <1>1, <1>2, <1>3, <1>4 DEF SegInv, SegTypes
  <1>14. WritesToTheLast' /\ ClaimedUntilValid'
    BY <1>1, <1>2, <1>3, <1>4 DEF SegInv, WritesToTheLast, ClaimedUntilValid, Live, p
  <1> QED BY <1>8, <1>9, <1>12, <1>13, <1>14 DEF SegInv, InOrder

(* A step of the stop or of the recovery: only the phase, the form of the  *)
(* last file and the record change, and nothing is on its way.             *)
LEMMA FinishStep ==
  ASSUME SegInv, NEW from, NEW to, Goes(from, to),
         ~Live' => muxQueue = <<>> /\ mux = MuxIdle, Live' => Live,
         phase' \in {"opened", "recording", "draining", "finalize", "staged", "valid", "ended", "crashed"},
         sidecar' \in {"unwritten", "present", "removed"},
         files' = files \/ \E form \in {"trailed", "broken", "valid"} : LastFileIs(form),
         ClaimedUntilValid'
  PROVE  SegInv'
  <1>1. /\ phase = from /\ phase' = to
        /\ UNCHANGED <<segmented, container, keyframeAsked, frames, planner, muxQueue, mux>>
    BY DEF Goes, settingVars, producerVars
  <1>2. files \in Seq(File) /\ Len(files) \in Nat \ {0} /\ Len(files) \in DOMAIN files
    BY DEF SegInv, SegTypes
  <1>3. PICK w \in Nat : InFiles(files, w) /\ NextIsAtHand(w)
    BY DEF SegInv, InOrder
  <1>4. /\ files' \in Seq(File) /\ Len(files') = Len(files) /\ InFiles(files', w)
        /\ files'[Len(files)].packets = files[Len(files)].packets
    <2>1. CASE files' = files
      BY <1>2, <1>3, <2>1
    <2>2. CASE \E form \in {"trailed", "broken", "valid"} : LastFileIs(form)
      <3>1. PICK form \in {"trailed", "broken", "valid"} : files' = WithForm(files, Len(files), form)
        BY <2>2 DEF LastFileIs, WithForm
      <3>2. Reforms(files, Len(files), form, files')
        BY <1>2, <3>1, FormChanges
      <3> QED BY <1>2, <1>3, <3>2, FormsDoNotMatter DEF Reforms
    <2> QED BY <2>1, <2>2
  <1>5. SegTypes'
    BY <1>1, <1>2, <1>4 DEF SegInv, SegTypes
  <1>6. WritesToTheLast'
    BY <1>1, <1>4 DEF SegInv, WritesToTheLast, Live
  <1>7. NextIsAtHand(w)'
    BY <1>1, <1>3 DEF NextIsAtHand, HoldsVideo, Live
  <1> QED BY <1>4, <1>5, <1>6, <1>7 DEF SegInv, InOrder

LEMMA FinishingSteps ==
  ASSUME SegInv, WriteRecord \/ Stop \/ Finalize \/ Remux \/ Validate \/ ClearRecord \/ Recover
  PROVE  SegInv'
  <1>1. /\ files \in Seq(File) /\ Len(files) \in Nat \ {0} /\ Len(files) \in DOMAIN files
        /\ sidecar \in {"unwritten", "present", "removed"} /\ container \in {"mp4", "mkv"}
        /\ segmented \in BOOLEAN
    BY DEF SegInv, SegTypes
  <1>2. ~Live => muxQueue = <<>> /\ mux = MuxIdle
    BY DEF SegInv, WritesToTheLast
  <1>3. ASSUME NEW form \in {"trailed", "broken", "valid"}, LastFileIs(form)
        PROVE  Len(files') = Len(files) /\ files'[Len(files)].form = form
    <2>1. files' = WithForm(files, Len(files), form)
      BY <1>3 DEF LastFileIs, WithForm
    <2>2. Reforms(files, Len(files), form, files')
      BY <1>1, <2>1, FormChanges
    <2> QED BY <2>2 DEF Reforms
  <1>4. CASE WriteRecord
    <2>1. /\ phase = "opened" /\ phase' = "recording" /\ sidecar' \in {"present", sidecar}
          /\ UNCHANGED <<segmented, container, keyframeAsked, frames, planner, muxQueue, mux, files>>
      BY <1>4 DEF WriteRecord, settingVars, producerVars, fileVars
    <2>2. Goes("opened", "recording")
      BY <1>4 DEF WriteRecord, Goes, fileVars
    <2>3. ClaimedUntilValid'
      BY <2>1 DEF SegInv, ClaimedUntilValid
    <2> QED BY <1>1, <2>1, <2>2, <2>3, FinishStep DEF Live
  <1>5. CASE Stop
    <2>1. /\ Goes("recording", "draining") /\ phase = "recording" /\ phase' = "draining"
          /\ UNCHANGED <<segmented, mux, files, sidecar>>
      BY <1>5 DEF Stop, Goes, settingVars
    <2>2. ClaimedUntilValid'
      BY <2>1 DEF SegInv, ClaimedUntilValid
    <2> QED BY <1>1, <2>1, <2>2, FinishStep DEF Live
  <1>6. CASE Finalize
    <2>1. /\ muxQueue = <<>> /\ mux = MuxIdle /\ sidecar' = sidecar
          /\ (Goes("draining", "finalize") /\ LastFileIs("trailed"))
             \/ (Goes("draining", "ended") /\ LastFileIs("broken"))
      BY <1>6 DEF Finalize
    <2>2. phase = "draining" /\ phase' \in {"finalize", "ended"} /\ UNCHANGED <<segmented, mux>>
          /\ Len(files') = Len(files)
      BY <1>3, <2>1 DEF Goes, settingVars
    <2>3. ClaimedUntilValid'
      BY <2>1, <2>2 DEF SegInv, ClaimedUntilValid
    <2> QED BY <1>1, <2>1, <2>2, <2>3, FinishStep DEF Live
  <1>7. CASE Remux
    <2>1. /\ UNCHANGED <<files, sidecar>>
          /\ Goes("finalize", "staged") \/ Goes("finalize", "ended")
      BY <1>7 DEF Remux, KeepTheClaim
    <2>2. phase = "finalize" /\ phase' \in {"staged", "ended"} /\ UNCHANGED <<segmented, mux>>
      BY <2>1 DEF Goes, settingVars
    <2>3. ClaimedUntilValid'
      BY <2>1, <2>2 DEF SegInv, ClaimedUntilValid
    <2> QED BY <1>1, <1>2, <2>1, <2>2, <2>3, FinishStep DEF Live
  <1>8. CASE Validate
    <2> DEFINE at == IF container = "mp4" THEN "staged" ELSE "finalize"
    <2>1. /\ sidecar' = sidecar
          /\ (Goes(at, "valid") /\ LastFileIs("valid")) \/ (Goes(at, "ended") /\ files' = files)
      BY <1>8 DEF Validate, KeepTheClaim
    <2>2. phase \in {"staged", "finalize"} /\ phase' \in {"valid", "ended"} /\ UNCHANGED <<segmented, mux>>
      BY <2>1 DEF Goes, settingVars
    <2> HIDE DEF at
    <2>3. /\ Len(files') = Len(files)
          /\ phase' = "valid" => files'[Len(files)].form = "valid"
          /\ \E to \in {"valid", "ended"} : Goes(at, to)
          /\ files' = files \/ \E form \in {"trailed", "broken", "valid"} : LastFileIs(form)
      BY <1>3, <2>1 DEF Goes
    <2>4. ClaimedUntilValid'
      BY <2>1, <2>2, <2>3 DEF SegInv, ClaimedUntilValid
    <2> QED BY <1>1, <1>2, <2>1, <2>2, <2>3, <2>4, FinishStep DEF Live
  <1>9. CASE ClearRecord
    <2>1. /\ Goes("valid", "ended") /\ phase = "valid" /\ phase' = "ended"
          /\ sidecar' \in {"removed", sidecar}
          /\ UNCHANGED <<segmented, mux, files>>
      BY <1>9 DEF ClearRecord, Goes, settingVars
    <2>2. ClaimedUntilValid'
      BY <2>1 DEF SegInv, ClaimedUntilValid
    <2> QED BY <1>1, <1>2, <2>1, <2>2, FinishStep DEF Live
  <1>10. CASE Recover
    <2>1. PICK from \in {"ended", "crashed"} :
            \/ 0 \in Names /\ Goes(from, "finalize") /\ UNCHANGED <<files, sidecar>>
            \/ 0 \notin Names /\ Goes(from, "ended") /\ files' = files /\ sidecar' = "removed"
      BY <1>10 DEF Recover
    <2>2. 0 \notin Names => segmented
      BY <1>1 DEF Names, Name
    <2>3. phase = from /\ phase' \in {"finalize", "ended"} /\ UNCHANGED <<segmented, mux, files>>
          /\ sidecar = "present" /\ sidecar' \in {"present", "removed"}
      BY <1>10, <2>1 DEF Goes, settingVars, Recover
    <2>4. ClaimedUntilValid'
      BY <2>1, <2>2, <2>3 DEF SegInv, ClaimedUntilValid
    <2>5. \E to \in {"finalize", "ended"} : Goes(from, to)
      BY <2>1
    <2> QED BY <1>1, <1>2, <2>3, <2>4, <2>5, FinishStep DEF Live
  <1> QED BY <1>4, <1>5, <1>6, <1>7, <1>8, <1>9, <1>10

LEMMA CrashStep == SegInv /\ Crash => SegInv'
  <1> SUFFICES ASSUME SegInv, Crash PROVE SegInv'
    OBVIOUS
  <1>1. /\ phase # "ended" /\ phase' = "crashed" /\ muxQueue' = <<>> /\ mux' = MuxIdle
        /\ UNCHANGED <<segmented, container, keyframeAsked, frames, planner, files, sidecar>>
    BY DEF Crash, settingVars, producerVars, fileVars
  <1>2. MuxIdle \in [at : {"pop", "open", "close", "write"}, packet : Packet] /\ MuxIdle.at = "pop"
    BY DEF MuxIdle, Nothing, Packet
  <1>3. muxQueue' \in Seq(Packet)
    BY <1>1
  <1>4. SegTypes'
    BY <1>1, <1>2, <1>3 DEF SegInv, SegTypes
  <1>5. WritesToTheLast' /\ ClaimedUntilValid'
    BY <1>1, <1>2 DEF SegInv, WritesToTheLast, ClaimedUntilValid, Live
  <1>6. InOrder'
    BY <1>1 DEF SegInv, InOrder, NextIsAtHand, Live
  <1> QED BY <1>4, <1>5, <1>6 DEF SegInv

LEMMA SegStutters == SegInv /\ UNCHANGED segVars => SegInv'
  BY DEF segVars, settingVars, producerVars, fileVars, SegInv, SegTypes, WritesToTheLast,
         ClaimedUntilValid, InOrder, NextIsAtHand, HoldsVideo, Live

LEMMA SegInvariance == SegSpec => []SegInv
  <1>1. SegInv /\ [SegNext]_segVars => SegInv'
    BY VideoStep, AudioStep, PopStep, OpenStep, CloseStep, WriteStep, FinishingSteps, CrashStep,
       SegStutters DEF SegNext, Recording, Muxing, Finishing
  <1> QED BY SegInitially, <1>1, PTL DEF SegSpec

(* No video packet is lost, doubled or moved by a rollover: whenever a     *)
(* frame is in a file, exactly the frames before it are in the files       *)
(* before it and before it in its own, whatever the triggers, the files    *)
(* that could not be opened, and the moment the process dies.              *)
THEOREM SplitsLoseNothing == SegSpec => []NoFrameIsLostAtASplit
  <1>1. SegInv => NoFrameIsLostAtASplit
    <2> SUFFICES ASSUME SegInv, NEW k \in DOMAIN files, NEW j \in DOMAIN files[k].packets, IsVideo(k, j)
                 PROVE  ShownBefore(k, j) = 0 .. PtsAt(k, j) - 1
      BY DEF NoFrameIsLostAtASplit
    <2>1. PICK w \in Nat : InFiles(files, w)
      BY DEF SegInv, InOrder
    <2>2. PtsAt(k, j) \in 0 .. w - 1
      BY <2>1 DEF InFiles, PtsAt, IsVideo
    <2>3. ASSUME NEW m \in ShownBefore(k, j) PROVE m \in 0 .. PtsAt(k, j) - 1
      <3>1. PICK l \in DOMAIN files : m \in {PtsAt(l, i) : i \in {n \in DOMAIN files[l].packets :
                                                IsVideo(l, n) /\ Earlier(l, n, k, j)}}
        BY <2>3 DEF ShownBefore
      <3>2. PICK i \in DOMAIN files[l].packets : IsVideo(l, i) /\ Earlier(l, i, k, j) /\ m = PtsAt(l, i)
        BY <3>1
      <3>3. m \in 0 .. w - 1 /\ m < PtsAt(k, j)
        BY <2>1, <3>2 DEF InFiles, PtsAt, IsVideo
      <3> QED BY <2>2, <3>3
    <2>4. ASSUME NEW m \in 0 .. PtsAt(k, j) - 1 PROVE m \in ShownBefore(k, j)
      <3>1. PICK l \in DOMAIN files : \E i \in DOMAIN files[l].packets : IsVideo(l, i) /\ PtsAt(l, i) = m
        BY <2>1, <2>2 DEF InFiles, PtsAt, IsVideo
      <3>2. PICK i \in DOMAIN files[l].packets : IsVideo(l, i) /\ PtsAt(l, i) = m
        BY <3>1
      <3>3. ~(k = l /\ j = i)
        BY <2>2, <3>2
      <3>4. ~Earlier(k, j, l, i)
        <4>1. ASSUME Earlier(k, j, l, i) PROVE PtsAt(k, j) < m
          BY <2>1, <3>2, <4>1 DEF InFiles, PtsAt, IsVideo
        <4> QED BY <2>2, <4>1
      <3>5. k \in Nat /\ l \in Nat /\ j \in Nat /\ i \in Nat
        <4>1. files \in Seq(File)
          BY DEF SegInv, SegTypes
        <4>2. files[k] \in File /\ files[l] \in File /\ k \in Nat /\ l \in Nat
          BY <4>1
        <4>3. files[k].packets \in Seq(Packet) /\ files[l].packets \in Seq(Packet)
          BY <4>2 DEF File
        <4> QED BY <4>2, <4>3
      <3>6. Earlier(l, i, k, j)
        BY <3>3, <3>4, <3>5 DEF Earlier
      <3> QED BY <3>2, <3>6 DEF ShownBefore
    <2> QED BY <2>3, <2>4
  <1> QED BY <1>1, SegInvariance, PTL

(* The record of an unfinished recording is there until its file has been  *)
(* validated, however often the process dies and recovery is tried.        *)
THEOREM RecordOutlivesTheRecording == SegSpec => []UnfinishedStaysClaimed
  <1>1. SegInv => UnfinishedStaysClaimed
    BY DEF SegInv, ClaimedUntilValid, UnfinishedStaysClaimed, Last
  <1> QED BY <1>1, SegInvariance, PTL

------------------------------------------------------------------------------
(* The pauses                                                              *)

(* The frames between capture and the track, and their stamps.             *)
Grabbing == capture["video"]
Mapping  == mapper["video"]
Waiting  == queue["video"]
Shown    == placed["video"]

GrabPlaces == {"idle", "acquired", "submitting"}
MapPlaces  == {"idle", "ladder", "loadTotal", "loadPaused", "loadBegin", "loadLastBegin", "loadLastSpan", "place"}
CommandPlaces == {"idle", "readClock", "drain", "begin", "publish",
                  "span", "lastBegin", "total", "clear", "askIdr", "openGate"}

Grabs       == [at : GrabPlaces, qpc : Nat]
Maps        == [at : MapPlaces, qpc : Nat, excised : Int, key : BOOLEAN]
Placings    == [qpc : Nat, timeline : Int, key : BOOLEAN, astray : BOOLEAN]
Commandings == [at : CommandPlaces, stamp : Nat]

StampTypes ==
    /\ now \in Nat /\ gate \in BOOLEAN /\ idrRequested \in BOOLEAN
    /\ command \in Commandings /\ pauseBegin \in Nat
    /\ capture \in [Streams -> Grabs] /\ queue \in [Streams -> Seq(Nat)]
    /\ mapper \in [Streams -> Maps] /\ placed \in [Streams -> Seq(Placings)]
    /\ spans \in Seq(Nat \X Nat)
    /\ total \in Int /\ lastSpan \in Int
    /\ astray \in [Streams -> BOOLEAN]

(* Every stamp was read from the clock, which has moved on since.          *)
StampsArePast ==
    /\ command.stamp < now /\ Grabbing.qpc < now /\ Mapping.qpc < now
    /\ \A i \in DOMAIN Waiting : Waiting[i] < now
    /\ \A i \in DOMAIN Shown : Shown[i].qpc < now
    /\ \A k \in DOMAIN spans : spans[k][2] < now

ClosesTheSpan == {"span", "lastBegin", "total"}
Resumes == {"span", "lastBegin", "total", "clear", "askIdr", "openGate"}

(* From the moment resume reads the clock until it opens the gate no frame *)
(* is past the gate, and what is on the track is older than the reading.   *)
GateHolds ==
    /\ command.at \in Resumes =>
          /\ gate /\ Grabbing.at \in {"idle", "acquired"} /\ Waiting = <<>> /\ Mapping.at = "idle"
    /\ command.at \in ClosesTheSpan =>
          /\ Grabbing.at = "acquired" => Grabbing.qpc >= command.stamp
          /\ \A i \in DOMAIN Shown : Shown[i].qpc < command.stamp

(* A request for a keyframe is with the encode thread before the item that *)
(* is not to have it.                                                      *)
RequestIsTaken == Mapping.at \notin {"idle", "ladder"} => ~idrRequested

(* No frame that is still on its way is older than a completed pause.      *)
NoneIsOlder ==
    \A k \in DOMAIN spans :
        /\ Grabbing.at # "idle" => Grabbing.qpc >= spans[k][2]
        /\ \A i \in DOMAIN Waiting : Waiting[i] >= spans[k][2]
        /\ Mapping.at # "idle" => Mapping.qpc >= spans[k][2]

FollowsIt(e, i) == Shown[i].qpc >= e
FirstIsKey(e) ==
    \E i \in DOMAIN Shown : /\ FollowsIt(e, i) /\ Shown[i].key
                            /\ \A j \in 1 .. i - 1 : ~FollowsIt(e, j)
NoneFollows(e) == \A i \in DOMAIN Shown : ~FollowsIt(e, i)
Owed == idrRequested \/ Mapping.key

(* After each pause a keyframe has been shown first, or is owed, or resume *)
(* is about to ask for it.                                                 *)
KeyframesAreOwed ==
    \A k \in DOMAIN spans :
        \/ FirstIsKey(spans[k][2])
        \/ NoneFollows(spans[k][2]) /\ (Owed \/ command.at \in {"clear", "askIdr"})

PauseInv ==
    StampTypes /\ StampsArePast /\ GateHolds /\ RequestIsTaken /\ NoneIsOlder /\ KeyframesAreOwed

LEMMA VideoIsAStream == "video" \in Streams
  BY PauseAssumption

(* What an entry of the functions is, and what replacing it does.          *)
LEMMA EntryMoves ==
  ASSUME NEW T, NEW f \in [Streams -> T], NEW s \in Streams, NEW t \in T
  PROVE  /\ f[s] \in T /\ [f EXCEPT ![s] = t] \in [Streams -> T] /\ [f EXCEPT ![s] = t][s] = t
         /\ \A r \in Streams : r # s => [f EXCEPT ![s] = t][r] = f[r]
  OBVIOUS

LEMMA StampsAreTyped ==
  ASSUME StampTypes
  PROVE  /\ capture \in [Streams -> Grabs] /\ mapper \in [Streams -> Maps] /\ queue \in [Streams -> Seq(Nat)]
         /\ placed \in [Streams -> Seq(Placings)]
         /\ Grabbing \in Grabs /\ Mapping \in Maps /\ Waiting \in Seq(Nat) /\ Shown \in Seq(Placings)
         /\ now \in Nat /\ gate \in BOOLEAN /\ idrRequested \in BOOLEAN /\ command.stamp \in Nat /\ pauseBegin \in Nat
         /\ command \in Commandings /\ spans \in Seq(Nat \X Nat) /\ total \in Int /\ lastSpan \in Int
         /\ astray \in [Streams -> BOOLEAN]
  BY VideoIsAStream DEF StampTypes, Commandings, Grabbing, Mapping, Waiting, Shown

(* What each step makes of the records.                                    *)
LEMMA GrabMoves ==
  ASSUME NEW g \in Grabs, NEW a \in GrabPlaces
  PROVE  LET h == [g EXCEPT !.at = a] IN h \in Grabs /\ h.at = a /\ h.qpc = g.qpc
  BY DEF Grabs

(* What a step of a command does, seen from the video stream: on the way   *)
(* to a pause, and in the six moments of a resume.                         *)
Pausing ==
    /\ command.at \notin Resumes /\ command'.at \notin Resumes
    /\ command'.stamp < now' /\ now <= now' /\ UNCHANGED <<idrRequested, spans>>

ResumeBegins ==
    /\ command.at \notin Resumes /\ command'.at = "span" /\ command'.stamp = now /\ now' = now + 1
    /\ gate' /\ Grabbing.at = "idle" /\ Waiting = <<>> /\ Mapping.at = "idle"
    /\ UNCHANGED <<idrRequested, spans>>

ResumeStores ==
    /\ command.at \in ClosesTheSpan /\ command'.at \in ClosesTheSpan
    /\ UNCHANGED <<now, gate, command.stamp, idrRequested, spans>>

ResumeAdds ==
    /\ command.at = "total" /\ command'.at = "clear" /\ UNCHANGED <<now, gate, command.stamp, idrRequested>>
    /\ spans' = Append(spans, <<pauseBegin, command.stamp>>)

ResumeClears ==
    /\ command.at = "clear" /\ command'.at = "askIdr"
    /\ UNCHANGED <<now, gate, command.stamp, idrRequested, spans>>

ResumeAsks ==
    /\ command.at = "askIdr" /\ command'.at = "openGate" /\ idrRequested'
    /\ UNCHANGED <<now, gate, command.stamp, spans>>

ResumeOpens ==
    /\ command.at = "openGate" /\ command'.at = "idle"
    /\ UNCHANGED <<now, command.stamp, idrRequested, spans>>

CommandSeen ==
    /\ UNCHANGED <<Grabbing, Waiting, Mapping, Shown>>
    /\ \/ Pausing \/ ResumeBegins \/ ResumeStores \/ ResumeAdds \/ ResumeClears \/ ResumeAsks
       \/ ResumeOpens

(* What a step of capture does, seen from the video stream.                *)
CaptureSeen ==
    /\ UNCHANGED <<gate, command, idrRequested, spans, Mapping, Shown>>
    /\ \/ now' \in {now, now + 1} /\ UNCHANGED <<Grabbing, Waiting>>
       \/ /\ Grabbing.at = "idle" /\ now' = now + 1 /\ Waiting' = Waiting
          /\ Grabbing'.at = "acquired" /\ Grabbing'.qpc = now
       \/ /\ Grabbing.at = "acquired" /\ now' = now /\ Waiting' = Waiting
          /\ Grabbing'.at \in {"idle", "submitting"} /\ Grabbing'.qpc = Grabbing.qpc
          /\ gate => Grabbing'.at = "idle"
       \/ /\ Grabbing.at = "submitting" /\ now' = now /\ Waiting' = Append(Waiting, Grabbing.qpc)
          /\ Grabbing'.at = "idle" /\ Grabbing'.qpc = Grabbing.qpc

(* What a step of an encode thread does, seen from the video stream.       *)
EncodeSeen ==
    /\ UNCHANGED <<now, gate, command, spans, Grabbing>>
    /\ \/ UNCHANGED <<idrRequested, Waiting, Mapping, Shown>>
       \/ /\ Waiting # <<>> /\ Waiting' = Tail(Waiting) /\ UNCHANGED <<idrRequested, Shown>>
          /\ Mapping.at = "idle" /\ Mapping'.at = "ladder" /\ Mapping'.qpc = Head(Waiting)
          /\ Mapping'.key = Mapping.key
       \/ /\ Mapping.at = "ladder" /\ Mapping'.at = "loadTotal" /\ Mapping'.qpc = Mapping.qpc
          /\ Mapping'.key = (Mapping.key \/ idrRequested) /\ ~idrRequested' /\ UNCHANGED <<Waiting, Shown>>
       \/ /\ Mapping.at \notin {"idle", "ladder"} /\ Mapping'.at # "ladder" /\ Mapping'.qpc = Mapping.qpc
          /\ Mapping'.key = Mapping.key /\ UNCHANGED <<idrRequested, Waiting, Shown>>
       \/ /\ Mapping.at \notin {"idle", "ladder"} /\ Mapping'.at = "idle" /\ Mapping'.qpc = Mapping.qpc
          /\ UNCHANGED <<idrRequested, Waiting>>
          /\ \E item \in Placings : /\ item.qpc = Mapping.qpc /\ item.key = Mapping.key
                                    /\ Shown' = Append(Shown, item)

LEMMA CaptureIsSeen ==
  ASSUME StampTypes, NEW s \in Streams, Capture(s)
  PROVE  StampTypes' /\ CaptureSeen
  <1>0. /\ capture \in [Streams -> Grabs] /\ mapper \in [Streams -> Maps] /\ queue \in [Streams -> Seq(Nat)]
        /\ placed \in [Streams -> Seq(Placings)] /\ now \in Nat /\ "video" \in Streams
        /\ capture[s] \in Grabs /\ queue[s] \in Seq(Nat)
    BY StampsAreTyped, VideoIsAStream
  <1>1. UNCHANGED <<gate, command, pauseBegin, idrRequested, spans, mapper, placed, total, lastSpan, astray>>
    BY DEF Capture, Acquire, ReadGate, Submit, clock
  <1>2. CASE Acquire(s)
    <2>1. now' = now + 1 /\ queue' = queue /\ capture[s].at = "idle"
          /\ capture' = [capture EXCEPT ![s] = [at |-> "acquired", qpc |-> now]]
      BY <1>2 DEF Acquire, ReadClock
    <2>2. [at |-> "acquired", qpc |-> now] \in Grabs
      BY <1>0 DEF Grabs, GrabPlaces
    <2>3. /\ capture' \in [Streams -> Grabs] /\ capture'[s] = [at |-> "acquired", qpc |-> now]
          /\ (s # "video" => capture'["video"] = capture["video"])
      BY <1>0, <2>1, <2>2, EntryMoves
    <2> QED BY <1>0, <1>1, <2>1, <2>3 DEF StampTypes, CaptureSeen, Grabbing, Waiting, Mapping, Shown
  <1>3. CASE ReadGate(s)
    <2> DEFINE to == IF GateOpen(s) THEN "submitting" ELSE "idle"
    <2>1. now' = now /\ queue' = queue /\ capture[s].at = "acquired"
          /\ capture' = [capture EXCEPT ![s] = [capture[s] EXCEPT !.at = to]]
      BY <1>3 DEF ReadGate
    <2>2. [capture[s] EXCEPT !.at = to] \in Grabs /\ [capture[s] EXCEPT !.at = to].at = to
          /\ [capture[s] EXCEPT !.at = to].qpc = capture[s].qpc
      <3>1. to \in GrabPlaces
        BY DEF GrabPlaces
      <3> QED BY <1>0, <3>1, GrabMoves
    <2>3. /\ capture' \in [Streams -> Grabs] /\ capture'[s].at = to /\ capture'[s].qpc = capture[s].qpc
          /\ (s # "video" => capture'["video"] = capture["video"])
      BY <1>0, <2>1, <2>2, EntryMoves
    <2>4. s = "video" /\ gate => to = "idle"
      BY DEF GateOpen
    <2>5. to \in {"idle", "submitting"}
      OBVIOUS
    <2> HIDE DEF to
    <2> QED BY <1>0, <1>1, <2>1, <2>3, <2>4, <2>5 DEF StampTypes, CaptureSeen, Grabbing, Waiting, Mapping, Shown
  <1>4. CASE Submit(s)
    <2>1. now' = now /\ capture[s].at = "submitting"
          /\ capture' = [capture EXCEPT ![s] = [capture[s] EXCEPT !.at = "idle"]]
          /\ queue' = [queue EXCEPT ![s] = Append(queue[s], capture[s].qpc)]
      BY <1>4 DEF Submit
    <2>2. [capture[s] EXCEPT !.at = "idle"] \in Grabs /\ [capture[s] EXCEPT !.at = "idle"].at = "idle"
          /\ [capture[s] EXCEPT !.at = "idle"].qpc = capture[s].qpc
          /\ capture[s].qpc \in Nat
      <3>1. "idle" \in GrabPlaces /\ capture[s].qpc \in Nat
        BY <1>0 DEF GrabPlaces, Grabs
      <3> QED BY <1>0, <3>1, GrabMoves
    <2>3. Append(queue[s], capture[s].qpc) \in Seq(Nat)
      BY <1>0, <2>2
    <2>4. /\ capture' \in [Streams -> Grabs] /\ capture'[s].at = "idle" /\ capture'[s].qpc = capture[s].qpc
          /\ queue' \in [Streams -> Seq(Nat)] /\ queue'[s] = Append(queue[s], capture[s].qpc)
          /\ (s # "video" => capture'["video"] = capture["video"] /\ queue'["video"] = queue["video"])
      BY <1>0, <2>1, <2>2, <2>3, EntryMoves
    <2> QED BY <1>0, <1>1, <2>1, <2>4 DEF StampTypes, CaptureSeen, Grabbing, Waiting, Mapping, Shown
  <1> QED BY <1>2, <1>3, <1>4 DEF Capture

LEMMA EncodeIsSeen ==
  ASSUME StampTypes, NEW s \in Streams, Encode(s)
  PROVE  StampTypes' /\ EncodeSeen
  <1>0. /\ capture \in [Streams -> Grabs] /\ mapper \in [Streams -> Maps] /\ queue \in [Streams -> Seq(Nat)]
        /\ placed \in [Streams -> Seq(Placings)] /\ now \in Nat /\ "video" \in Streams
        /\ mapper[s] \in Maps /\ queue[s] \in Seq(Nat) /\ placed[s] \in Seq(Placings)
        /\ total \in Int /\ lastSpan \in Int /\ idrRequested \in BOOLEAN
        /\ mapper[s].key \in BOOLEAN /\ mapper[s].excised \in Int /\ mapper[s].qpc \in Nat
    BY StampsAreTyped, VideoIsAStream DEF Maps
  <1>1. UNCHANGED <<now, gate, command, pauseBegin, spans, capture, total, lastSpan>>
    BY DEF Encode, Pop, TakeKeyframeRequest, LoadTotal, LoadPaused, LoadBegin, LoadLastBegin, LoadLastSpan, Place,
       EncoderKeeps, clock
  <1>7. astray' \in [Streams -> BOOLEAN] /\ astray[s] \in BOOLEAN
    <2>1. astray \in [Streams -> BOOLEAN] /\ astray[s] \in BOOLEAN
      BY StampsAreTyped
    <2>2. PICK b \in BOOLEAN : astray' = astray \/ astray' = [astray EXCEPT ![s] = b]
      <3>1. CASE LoadTotal(s)
        <4>1. Storing \in BOOLEAN
          BY DEF Storing
        <4>2. astray' = [astray EXCEPT ![s] = Storing]
          BY <3>1 DEF LoadTotal
        <4> QED BY <4>1, <4>2
      <3>2. CASE LoadPaused(s)
        BY <3>2 DEF LoadPaused
      <3>3. CASE LoadBegin(s)
        BY <3>3 DEF LoadBegin
      <3>4. CASE Place(s)
        BY <3>4 DEF Place
      <3>5. CASE Pop(s) \/ TakeKeyframeRequest(s) \/ LoadLastBegin(s) \/ LoadLastSpan(s)
        BY <3>5 DEF Pop, TakeKeyframeRequest, LoadLastBegin, LoadLastSpan
      <3> QED BY <3>1, <3>2, <3>3, <3>4, <3>5 DEF Encode
    <2> QED BY <2>1, <2>2
  <1> DEFINE m == mapper[s]
  <1>2. ASSUME NEW n \in Maps, mapper' = [mapper EXCEPT ![s] = n]
        PROVE  /\ mapper' \in [Streams -> Maps] /\ mapper'[s] = n
               /\ (s # "video" => mapper'["video"] = mapper["video"])
    BY <1>0, <1>2, EntryMoves
  <1>3. CASE Pop(s)
    <2>1. /\ m.at = "idle" /\ queue[s] # <<>> /\ queue' = [queue EXCEPT ![s] = Tail(queue[s])]
          /\ mapper' = [mapper EXCEPT ![s] = [m EXCEPT !.at = "ladder", !.qpc = Head(queue[s])]]
          /\ UNCHANGED <<idrRequested, placed>>
      BY <1>3 DEF Pop
    <2>2. Head(queue[s]) \in Nat /\ Tail(queue[s]) \in Seq(Nat)
      BY <1>0, <2>1
    <2> DEFINE n == [m EXCEPT !.at = "ladder", !.qpc = Head(queue[s])]
    <2>3. n \in Maps /\ n.at = "ladder" /\ n.qpc = Head(queue[s]) /\ n.key = m.key
      <3>1. m \in Maps
        BY <1>0
      <3> HIDE DEF m
      <3> QED BY <2>2, <3>1 DEF Maps, MapPlaces
    <2>4. mapper' = [mapper EXCEPT ![s] = n]
      BY <2>1
    <2> HIDE DEF n
    <2>5. /\ mapper' \in [Streams -> Maps] /\ mapper'[s] = n
          /\ (s # "video" => mapper'["video"] = mapper["video"])
      BY <1>2, <2>3, <2>4
    <2>6. /\ queue' \in [Streams -> Seq(Nat)] /\ queue'[s] = Tail(queue[s])
          /\ (s # "video" => queue'["video"] = queue["video"])
      BY <1>0, <2>1, <2>2, EntryMoves
    <2>7. CASE s = "video"
      BY <1>7, <1>0, <1>1, <2>1, <2>3, <2>5, <2>6, <2>7 DEF StampTypes, EncodeSeen, Grabbing, Waiting, Mapping, Shown
    <2>8. CASE s # "video"
      BY <1>7, <1>0, <1>1, <2>1, <2>5, <2>6, <2>8 DEF StampTypes, EncodeSeen, Grabbing, Waiting, Mapping, Shown
    <2> QED BY <2>7, <2>8
  <1>4. CASE TakeKeyframeRequest(s)
    <2> DEFINE k == m.key \/ (s = "video" /\ idrRequested)
               n == [m EXCEPT !.at = "loadTotal", !.key = k]
    <2>1. /\ m.at = "ladder" /\ mapper' = [mapper EXCEPT ![s] = n]
          /\ UNCHANGED <<queue, placed>> /\ idrRequested' = (idrRequested /\ s # "video")
      BY <1>4 DEF TakeKeyframeRequest
    <2>2. k \in BOOLEAN /\ idrRequested' \in BOOLEAN
      BY <2>1
    <2>3. n \in Maps /\ n.at = "loadTotal" /\ n.qpc = m.qpc /\ n.key = k
      <3>1. m \in Maps
        BY <1>0
      <3> HIDE DEF m, k
      <3> QED BY <2>2, <3>1 DEF Maps, MapPlaces
    <2> HIDE DEF n
    <2>5. /\ mapper' \in [Streams -> Maps] /\ mapper'[s] = n
          /\ (s # "video" => mapper'["video"] = mapper["video"])
      BY <1>2, <2>1, <2>3
    <2>6. StampTypes'
      BY <1>7, <1>0, <1>1, <2>1, <2>2, <2>5 DEF StampTypes
    <2>7. CASE s = "video"
      <3>1. Mapping.at = "ladder" /\ Mapping'.at = "loadTotal" /\ Mapping'.qpc = Mapping.qpc /\ UNCHANGED <<Waiting, Shown>>
        BY <2>1, <2>3, <2>5, <2>7 DEF Mapping, Waiting, Shown
      <3>2. Mapping'.key = (Mapping.key \/ idrRequested) /\ ~idrRequested'
        BY <2>1, <2>3, <2>5, <2>7, Zenon DEF Mapping
      <3> QED BY <1>1, <2>6, <3>1, <3>2 DEF EncodeSeen, Grabbing
    <2>8. CASE s # "video"
      <3>1. idrRequested' = idrRequested
        BY <1>0, <2>1, <2>8
      <3> QED BY <1>1, <2>1, <2>5, <2>6, <2>8, <3>1 DEF EncodeSeen, Grabbing, Waiting, Mapping, Shown
    <2> QED BY <2>7, <2>8
  <1>5. CASE LoadTotal(s) \/ LoadPaused(s) \/ LoadBegin(s) \/ LoadLastBegin(s) \/ LoadLastSpan(s)
    <2>1. UNCHANGED <<idrRequested, queue, placed>> /\ m.at \notin {"idle", "ladder"}
      BY <1>5 DEF LoadTotal, LoadPaused, LoadBegin, LoadLastBegin, LoadLastSpan
    <2>2. PICK a \in {"loadPaused", "loadBegin", "loadLastBegin", "loadLastSpan", "place", "idle"},
               e \in {m.excised, total, m.excised - lastSpan} :
             mapper' = [mapper EXCEPT ![s] = [m EXCEPT !.at = a, !.excised = e]]
      <3>1. m = [m EXCEPT !.excised = m.excised]
        BY <1>0 DEF Maps
      <3>2. \A a : [m EXCEPT !.at = a] = [m EXCEPT !.at = a, !.excised = m.excised]
        BY <1>0 DEF Maps
      <3>3. CASE LoadTotal(s)
        BY <3>3 DEF LoadTotal
      <3>4. CASE LoadPaused(s)
        BY <3>2, <3>4 DEF LoadPaused
      <3>5. CASE LoadBegin(s)
        BY <3>2, <3>5 DEF LoadBegin
      <3>6. CASE LoadLastBegin(s)
        BY <3>2, <3>6 DEF LoadLastBegin
      <3>7. CASE LoadLastSpan(s)
        BY <3>7 DEF LoadLastSpan
      <3> QED BY <1>5, <3>3, <3>4, <3>5, <3>6, <3>7
    <2> DEFINE n == [m EXCEPT !.at = a, !.excised = e]
    <2>3. n \in Maps /\ n.at # "ladder" /\ n.qpc = m.qpc /\ n.key = m.key
      <3>1. a \in MapPlaces /\ a # "ladder" /\ e \in Int
        BY <1>0, <2>2 DEF MapPlaces
      <3>2. m \in Maps
        BY <1>0
      <3> HIDE DEF m
      <3> QED BY <3>1, <3>2 DEF Maps
    <2>4. mapper' = [mapper EXCEPT ![s] = n]
      BY <2>2
    <2> HIDE DEF n
    <2>5. /\ mapper' \in [Streams -> Maps] /\ mapper'[s] = n
          /\ (s # "video" => mapper'["video"] = mapper["video"])
      BY <1>2, <2>3, <2>4
    <2>6. StampTypes'
      BY <1>7, <1>0, <1>1, <2>1, <2>5 DEF StampTypes
    <2>7. CASE s = "video"
      BY <1>1, <2>1, <2>3, <2>5, <2>6, <2>7 DEF EncodeSeen, Grabbing, Waiting, Mapping, Shown
    <2>8. CASE s # "video"
      BY <1>1, <2>1, <2>5, <2>6, <2>8 DEF EncodeSeen, Grabbing, Waiting, Mapping, Shown
    <2> QED BY <2>7, <2>8
  <1>6. CASE Place(s)
    <2> DEFINE n == [m EXCEPT !.at = "idle", !.key = FALSE]
               item == [qpc |-> m.qpc, timeline |-> Timeline(m), key |-> m.key, astray |-> astray[s]]
    <2>1. /\ m.at = "place" /\ mapper' = [mapper EXCEPT ![s] = n]
          /\ placed' = [placed EXCEPT ![s] = Append(placed[s], item)]
          /\ UNCHANGED <<idrRequested, queue>>
      BY <1>6 DEF Place
    <2>2. Timeline(m) \in Int
      BY <1>0 DEF Timeline
    <2>3. n \in Maps /\ n.at = "idle" /\ n.qpc = m.qpc /\ item \in Placings /\ item.qpc = m.qpc /\ item.key = m.key
      <3>1. m \in Maps
        BY <1>0
      <3> HIDE DEF m
      <3>2. n \in Maps /\ n.at = "idle" /\ n.qpc = m.qpc
        BY <3>1 DEF Maps, MapPlaces
      <3>3. item \in Placings /\ item.qpc = m.qpc /\ item.key = m.key
        BY <1>7, <2>2, <3>1 DEF Maps, Placings
      <3> QED BY <3>2, <3>3
    <2> HIDE DEF n, item
    <2>4. Append(placed[s], item) \in Seq(Placings)
      BY <1>0, <2>3
    <2>5. /\ mapper' \in [Streams -> Maps] /\ mapper'[s] = n
          /\ (s # "video" => mapper'["video"] = mapper["video"])
      BY <1>2, <2>1, <2>3
    <2>6. /\ placed' \in [Streams -> Seq(Placings)] /\ placed'[s] = Append(placed[s], item)
          /\ (s # "video" => placed'["video"] = placed["video"])
      BY <1>0, <2>1, <2>4, EntryMoves
    <2>7. StampTypes'
      BY <1>7, <1>0, <1>1, <2>1, <2>5, <2>6 DEF StampTypes
    <2>8. CASE s = "video"
      BY <1>1, <2>1, <2>3, <2>5, <2>6, <2>7, <2>8 DEF EncodeSeen, Grabbing, Waiting, Mapping, Shown
    <2>9. CASE s # "video"
      BY <1>1, <2>1, <2>5, <2>6, <2>7, <2>9 DEF EncodeSeen, Grabbing, Waiting, Mapping, Shown
    <2> QED BY <2>8, <2>9
  <1> QED BY <1>3, <1>4, <1>5, <1>6 DEF Encode

(* A command moves the thread that serves it and leaves the rest of the    *)
(* stream alone.                                                           *)
LEMMA CommandMoves ==
  ASSUME NEW c \in Commandings, NEW a \in CommandPlaces
  PROVE  LET d == [c EXCEPT !.at = a] IN d \in Commandings /\ d.at = a /\ d.stamp = c.stamp
  BY DEF Commandings

LEMMA CommandIsSeen ==
  ASSUME StampTypes, StampsArePast, "video" \notin LateStreams, Command
  PROVE  StampTypes' /\ CommandSeen
  <1>0. /\ command \in Commandings /\ command.at \in CommandPlaces /\ command.stamp \in Nat /\ now \in Nat
        /\ gate \in BOOLEAN /\ command.stamp < now /\ idrRequested \in BOOLEAN /\ "video" \in Streams
        /\ total \in Int /\ lastSpan \in Int /\ pauseBegin \in Nat /\ spans \in Seq(Nat \X Nat)
    BY StampsAreTyped, VideoIsAStream DEF Commandings, StampsArePast
  <1>1. UNCHANGED <<capture, queue, mapper, placed>>
    BY DEF Command, ShutGate, PauseReadsClock, DrainEnds, PauseStoresBegin, PausePublishes, ResumeReadsClock,
       ResumeStoresSpan, ResumeStoresBegin, ResumeAddsSpan, ResumeClearsPaused, ResumeAsksForKeyframe, OpenGate,
       CommandOnly, Untouched, stages
  <1>16. astray' \in [Streams -> BOOLEAN]
    <2>1. astray \in [Streams -> BOOLEAN]
      BY StampsAreTyped
    <2>2. \A r \in Streams : (astray[r] \/ mapper[r].at \in HalfRead) \in BOOLEAN
      OBVIOUS
    <2>3. astray' = astray \/ astray' = [r \in Streams |-> astray[r] \/ mapper[r].at \in HalfRead]
      BY DEF Command, ShutGate, PauseReadsClock, DrainEnds, PauseStoresBegin, PausePublishes, ResumeReadsClock,
         ResumeStoresSpan, ResumeStoresBegin, ResumeAddsSpan, ResumeClearsPaused, ResumeAsksForKeyframe, OpenGate,
         CommandOnly
    <2> QED BY <2>1, <2>2, <2>3
  <1>2. UNCHANGED <<Grabbing, Waiting, Mapping, Shown>>
    BY <1>1 DEF Grabbing, Waiting, Mapping, Shown
  <1>3. ASSUME NEW from, NEW to \in CommandPlaces, CommandAt(from, to)
        PROVE  command' \in Commandings /\ command.at = from /\ command'.at = to /\ command'.stamp = command.stamp
    BY <1>0, <1>3, CommandMoves DEF CommandAt
  <1>4. {"idle", "readClock", "drain", "begin", "publish", "span", "lastBegin", "total", "clear", "askIdr",
         "openGate"} = CommandPlaces
    BY DEF CommandPlaces
  <1>5. CASE ShutGate
    <2>1. command' \in Commandings /\ command.at = "idle" /\ command'.at = "readClock" /\ command'.stamp = command.stamp
      BY <1>3, <1>4, <1>5 DEF ShutGate
    <2>2. gate' \in BOOLEAN /\ UNCHANGED <<now, idrRequested, pauseBegin, total, lastSpan, spans>>
      BY <1>5 DEF ShutGate, clock
    <2>3. Pausing
      BY <1>0, <2>1, <2>2 DEF Pausing, Resumes
    <2> QED BY <1>16, <1>0, <1>1, <1>2, <2>1, <2>2, <2>3 DEF StampTypes, CommandSeen
  <1>6. CASE PauseReadsClock
    <2>1. /\ command.at = "readClock" /\ command' = [at |-> "drain", stamp |-> now] /\ now' = now + 1
          /\ UNCHANGED <<gate, idrRequested, pauseBegin, total, lastSpan, spans>>
      BY <1>6 DEF PauseReadsClock, ReadClock, clock
    <2>2. command' \in Commandings
      BY <1>0, <2>1 DEF Commandings, CommandPlaces
    <2>3. Pausing
      BY <1>0, <2>1 DEF Pausing, Resumes
    <2> QED BY <1>16, <1>0, <1>1, <1>2, <2>1, <2>2, <2>3 DEF StampTypes, CommandSeen
  <1>7. CASE DrainEnds
    <2>1. command' \in Commandings /\ command.at = "drain" /\ command'.at = "begin" /\ command'.stamp = command.stamp
      BY <1>3, <1>4, <1>7 DEF DrainEnds
    <2>2. UNCHANGED <<now, gate, idrRequested, pauseBegin, total, lastSpan, spans>>
      BY <1>7 DEF DrainEnds, clock
    <2>3. Pausing
      BY <1>0, <2>1, <2>2 DEF Pausing, Resumes
    <2> QED BY <1>16, <1>0, <1>1, <1>2, <2>1, <2>2, <2>3 DEF StampTypes, CommandSeen
  <1>8. CASE PauseStoresBegin
    <2>1. command' \in Commandings /\ command.at = "begin" /\ command'.at = "publish" /\ command'.stamp = command.stamp
      BY <1>3, <1>4, <1>8 DEF PauseStoresBegin
    <2>2. UNCHANGED <<now, gate, idrRequested, total, lastSpan, spans>> /\ pauseBegin' = command.stamp
      BY <1>8 DEF PauseStoresBegin
    <2>3. Pausing
      BY <1>0, <2>1, <2>2 DEF Pausing, Resumes
    <2> QED BY <1>16, <1>0, <1>1, <1>2, <2>1, <2>2, <2>3 DEF StampTypes, CommandSeen
  <1>9. CASE PausePublishes
    <2>1. command' \in Commandings /\ command.at = "publish" /\ command'.at = "idle" /\ command'.stamp = command.stamp
      BY <1>3, <1>4, <1>9 DEF PausePublishes
    <2>2. UNCHANGED <<now, gate, idrRequested, pauseBegin, total, lastSpan, spans>>
      BY <1>9 DEF PausePublishes
    <2>3. Pausing
      BY <1>0, <2>1, <2>2 DEF Pausing, Resumes
    <2> QED BY <1>16, <1>0, <1>1, <1>2, <2>1, <2>2, <2>3 DEF StampTypes, CommandSeen
  <1>10. CASE ResumeReadsClock
    <2>1. /\ command.at = "idle" /\ command' = [at |-> "span", stamp |-> now] /\ now' = now + 1 /\ gate /\ CaughtUp
          /\ UNCHANGED <<gate, idrRequested, pauseBegin, total, lastSpan, spans>>
      BY <1>10 DEF ResumeReadsClock, ReadClock, clock
    <2>2. command' \in Commandings
      BY <1>0, <2>1 DEF Commandings, CommandPlaces
    <2>3. Unplaced("video") = {}
      BY <1>0, <2>1 DEF CaughtUp
    <2>4. Grabbing.at = "idle" /\ Mapping.at = "idle" /\ {Waiting[i] : i \in DOMAIN Waiting} = {}
      BY <2>3 DEF Unplaced, Grabbing, Mapping, Waiting
    <2>5. Waiting = <<>>
      <3>1. Waiting \in Seq(Nat)
        BY StampsAreTyped
      <3>2. \A i \in DOMAIN Waiting : Waiting[i] \in {Waiting[j] : j \in DOMAIN Waiting}
        OBVIOUS
      <3>3. DOMAIN Waiting = {}
        BY <2>4, <3>2
      <3> QED BY <3>1, <3>3
    <2>6. ResumeBegins
      BY <1>0, <2>1, <2>4, <2>5 DEF ResumeBegins, Resumes
    <2> QED BY <1>16, <1>0, <1>1, <1>2, <2>1, <2>2, <2>6 DEF StampTypes, CommandSeen
  <1>11. CASE ResumeStoresSpan \/ ResumeStoresBegin
    <2>1. PICK from \in {"span", "lastBegin"}, to \in {"lastBegin", "total"} : CommandAt(from, to)
      BY <1>11 DEF ResumeStoresSpan, ResumeStoresBegin
    <2>2. command' \in Commandings /\ command.at = from /\ command'.at = to /\ command'.stamp = command.stamp
      BY <1>3, <1>4, <2>1
    <2>3. UNCHANGED <<now, gate, idrRequested, pauseBegin, total, spans>> /\ lastSpan' \in {lastSpan, Duration}
      BY <1>11 DEF ResumeStoresSpan, ResumeStoresBegin
    <2>4. Duration \in Int
      BY <1>0 DEF Duration
    <2>5. ResumeStores
      BY <2>2, <2>3 DEF ResumeStores, ClosesTheSpan
    <2> QED BY <1>16, <1>0, <1>1, <1>2, <2>2, <2>3, <2>4, <2>5 DEF StampTypes, CommandSeen
  <1>12. CASE ResumeAddsSpan
    <2>1. command' \in Commandings /\ command.at = "total" /\ command'.at = "clear" /\ command'.stamp = command.stamp
      BY <1>3, <1>4, <1>12 DEF ResumeAddsSpan
    <2>2. /\ UNCHANGED <<now, gate, idrRequested, pauseBegin, lastSpan>> /\ total' = total + Duration
          /\ spans' = Append(spans, <<pauseBegin, command.stamp>>)
      BY <1>12 DEF ResumeAddsSpan, AddSpan
    <2>3. Duration \in Int
      BY <1>0 DEF Duration
    <2>4. spans' \in Seq(Nat \X Nat)
      BY <1>0, <2>2
    <2>5. ResumeAdds
      BY <2>1, <2>2 DEF ResumeAdds
    <2> QED BY <1>16, <1>0, <1>1, <1>2, <2>1, <2>2, <2>3, <2>4, <2>5 DEF StampTypes, CommandSeen
  <1>13. CASE ResumeClearsPaused
    <2>1. command' \in Commandings /\ command.at = "clear" /\ command'.at = "askIdr" /\ command'.stamp = command.stamp
      BY <1>3, <1>4, <1>13 DEF ResumeClearsPaused
    <2>2. UNCHANGED <<now, gate, idrRequested, pauseBegin, total, lastSpan, spans>>
      BY <1>13 DEF ResumeClearsPaused
    <2>3. ResumeClears
      BY <2>1, <2>2 DEF ResumeClears
    <2> QED BY <1>16, <1>0, <1>1, <1>2, <2>1, <2>2, <2>3 DEF StampTypes, CommandSeen
  <1>14. CASE ResumeAsksForKeyframe
    <2>1. command' \in Commandings /\ command.at = "askIdr" /\ command'.at = "openGate" /\ command'.stamp = command.stamp
      BY <1>3, <1>4, <1>14 DEF ResumeAsksForKeyframe
    <2>2. UNCHANGED <<now, gate, pauseBegin, total, lastSpan, spans>> /\ idrRequested' = TRUE
      BY <1>14 DEF ResumeAsksForKeyframe, RequestIdr, clock
    <2>3. ResumeAsks
      BY <2>1, <2>2 DEF ResumeAsks
    <2> QED BY <1>16, <1>0, <1>1, <1>2, <2>1, <2>2, <2>3 DEF StampTypes, CommandSeen
  <1>15. CASE OpenGate
    <2>1. command' \in Commandings /\ command.at = "openGate" /\ command'.at = "idle" /\ command'.stamp = command.stamp
      BY <1>3, <1>4, <1>15 DEF OpenGate
    <2>2. UNCHANGED <<now, idrRequested, pauseBegin, total, lastSpan, spans>> /\ gate' = FALSE
      BY <1>15 DEF OpenGate, clock
    <2>3. ResumeOpens
      BY <2>1, <2>2 DEF ResumeOpens
    <2> QED BY <1>16, <1>0, <1>1, <1>2, <2>1, <2>2, <2>3 DEF StampTypes, CommandSeen
  <1> QED BY <1>5, <1>6, <1>7, <1>8, <1>9, <1>10, <1>11, <1>12, <1>13, <1>14, <1>15 DEF Command

(* What a frame can do to the list of those shown.                         *)
LEMMA OneMoreIsShown ==
  ASSUME NEW e \in Nat, NEW item \in Placings, Shown \in Seq(Placings), Shown' = Append(Shown, item)
  PROVE  /\ FirstIsKey(e) => FirstIsKey(e)'
         /\ NoneFollows(e) /\ item.qpc >= e /\ item.key => FirstIsKey(e)'
         /\ NoneFollows(e) /\ item.qpc < e => NoneFollows(e)'
  <1>0. PICK n \in Nat : n = Len(Shown)
    OBVIOUS
  <1>1. /\ DOMAIN Shown = 1 .. n /\ DOMAIN Shown' = 1 .. n + 1 /\ Shown'[n + 1] = item
        /\ \A i \in 1 .. n : Shown'[i] = Shown[i]
    BY <1>0
  <1>2. \A i \in 1 .. n : FollowsIt(e, i)' <=> FollowsIt(e, i)
    BY <1>1 DEF FollowsIt
  <1>3. FollowsIt(e, n + 1)' <=> item.qpc >= e
    BY <1>1 DEF FollowsIt
  <1>4. ASSUME FirstIsKey(e) PROVE FirstIsKey(e)'
    <2>1. PICK i \in 1 .. n : FollowsIt(e, i) /\ Shown[i].key /\ \A j \in 1 .. i - 1 : ~FollowsIt(e, j)
      BY <1>1, <1>4 DEF FirstIsKey
    <2>2. i \in DOMAIN Shown' /\ FollowsIt(e, i)' /\ Shown'[i].key
      BY <1>1, <1>2, <2>1
    <2>3. \A j \in 1 .. i - 1 : ~FollowsIt(e, j)'
      BY <1>1, <1>2, <2>1
    <2> QED BY <2>2, <2>3 DEF FirstIsKey
  <1>5. ASSUME NoneFollows(e), item.qpc >= e, item.key PROVE FirstIsKey(e)'
    <2>1. n + 1 \in DOMAIN Shown' /\ FollowsIt(e, n + 1)' /\ Shown'[n + 1].key
      BY <1>1, <1>3, <1>5
    <2>2. \A j \in 1 .. (n + 1) - 1 : ~FollowsIt(e, j)'
      BY <1>1, <1>2, <1>5 DEF NoneFollows
    <2> QED BY <2>1, <2>2 DEF FirstIsKey
  <1>6. ASSUME NoneFollows(e), item.qpc < e PROVE NoneFollows(e)'
    <2>1. item.qpc \in Nat
      BY DEF Placings
    <2>2. \A i \in 1 .. n + 1 : ~FollowsIt(e, i)'
      <3>1. ~FollowsIt(e, n + 1)'
        BY <1>3, <1>6, <2>1
      <3>2. \A i \in 1 .. n : ~FollowsIt(e, i)'
        BY <1>1, <1>2, <1>6 DEF NoneFollows
      <3>3. \A i \in 1 .. n + 1 : i \in 1 .. n \/ i = n + 1
        BY <1>1
      <3> QED BY <3>1, <3>2, <3>3
    <2> QED BY <1>1, <2>2 DEF NoneFollows
  <1> QED BY <1>4, <1>5, <1>6

LEMMA SameIsShown ==
  ASSUME NEW e, Shown' = Shown
  PROVE  FirstIsKey(e)' = FirstIsKey(e) /\ NoneFollows(e)' = NoneFollows(e)
  BY DEF FirstIsKey, NoneFollows, FollowsIt

(* The facts the steps are judged by.                                      *)
LEMMA TheStreamIsTyped ==
  ASSUME StampTypes
  PROVE  /\ now \in Nat /\ command.stamp \in Nat /\ Grabbing.qpc \in Nat /\ Mapping.qpc \in Nat
         /\ Waiting \in Seq(Nat) /\ Shown \in Seq(Placings) /\ Mapping.key \in BOOLEAN
         /\ gate \in BOOLEAN /\ idrRequested \in BOOLEAN
         /\ spans \in Seq(Nat \X Nat) /\ \A k \in DOMAIN spans : spans[k][2] \in Nat
         /\ \A i \in DOMAIN Shown : Shown[i].qpc \in Nat
         /\ \A i \in DOMAIN Waiting : Waiting[i] \in Nat
  <1>1. /\ Grabbing \in Grabs /\ Mapping \in Maps /\ Waiting \in Seq(Nat) /\ Shown \in Seq(Placings)
        /\ now \in Nat /\ gate \in BOOLEAN /\ idrRequested \in BOOLEAN /\ command.stamp \in Nat
        /\ spans \in Seq(Nat \X Nat)
    BY StampsAreTyped DEF Commandings
  <1>2. Grabbing.qpc \in Nat /\ Mapping.qpc \in Nat /\ Mapping.key \in BOOLEAN
    BY <1>1 DEF Grabs, Maps
  <1>3. \A k \in DOMAIN spans : spans[k] \in Nat \X Nat
    BY <1>1
  <1>4. \A i \in DOMAIN Shown : Shown[i] \in Placings
    BY <1>1
  <1> HIDE DEF Shown, Waiting
  <1>5. \A i \in DOMAIN Shown : Shown[i].qpc \in Nat
    BY <1>4 DEF Placings
  <1>6. \A i \in DOMAIN Waiting : Waiting[i] \in Nat
    BY <1>1
  <1> QED BY <1>1, <1>2, <1>3, <1>5, <1>6

(* Every step of capture keeps the invariant: a stamp is read after every  *)
(* pause that is over, and nothing passes the gate while it is shut.       *)
LEMMA CaptureKeeps ==
  ASSUME PauseInv, StampTypes', CaptureSeen
  PROVE  PauseInv'
  <1> USE DEF PauseInv
  <1>1. /\ now \in Nat /\ Grabbing.qpc \in Nat /\ command.stamp \in Nat /\ Waiting \in Seq(Nat)
        /\ \A k \in DOMAIN spans : spans[k][2] \in Nat /\ spans[k][2] < now
        /\ \A i \in DOMAIN Waiting : Waiting[i] < now
        /\ Grabbing.qpc < now /\ command.stamp < now /\ Mapping.qpc < now
        /\ Mapping.qpc \in Nat /\ \A i \in DOMAIN Shown : Shown[i].qpc < now /\ Shown[i].qpc \in Nat
    BY TheStreamIsTyped DEF StampsArePast
  <1>2. UNCHANGED <<gate, command, idrRequested, spans, Mapping, Shown>>
    BY DEF CaptureSeen
  <1>3. RequestIsTaken' /\ KeyframesAreOwed'
    <2>1. RequestIsTaken'
      BY <1>2 DEF RequestIsTaken
    <2>2. \A e : FirstIsKey(e)' = FirstIsKey(e) /\ NoneFollows(e)' = NoneFollows(e)
      BY <1>2, SameIsShown
    <2>3. Owed' = Owed
      BY <1>2 DEF Owed
    <2> QED BY <1>2, <2>1, <2>2, <2>3 DEF KeyframesAreOwed
  <1>4. CASE now' \in {now, now + 1} /\ UNCHANGED <<Grabbing, Waiting>>
    <2>1. StampsArePast'
      BY <1>1, <1>2, <1>4 DEF StampsArePast
    <2>2. GateHolds' /\ NoneIsOlder'
      BY <1>2, <1>4 DEF GateHolds, NoneIsOlder
    <2> QED BY <1>3, <2>1, <2>2
  <1>5. CASE /\ Grabbing.at = "idle" /\ now' = now + 1 /\ Waiting' = Waiting
             /\ Grabbing'.at = "acquired" /\ Grabbing'.qpc = now
    <2>1. StampsArePast'
      BY <1>1, <1>2, <1>5 DEF StampsArePast
    <2>2. GateHolds'
      BY <1>1, <1>2, <1>5 DEF GateHolds
    <2>3. NoneIsOlder'
      BY <1>1, <1>2, <1>5 DEF NoneIsOlder
    <2> QED BY <1>3, <2>1, <2>2, <2>3
  <1>6. CASE /\ Grabbing.at = "acquired" /\ now' = now /\ Waiting' = Waiting
             /\ Grabbing'.at \in {"idle", "submitting"} /\ Grabbing'.qpc = Grabbing.qpc
             /\ gate => Grabbing'.at = "idle"
    <2>1. StampsArePast'
      BY <1>1, <1>2, <1>6 DEF StampsArePast
    <2>2. GateHolds'
      BY <1>1, <1>2, <1>6 DEF GateHolds, ClosesTheSpan, Resumes
    <2>3. NoneIsOlder'
      BY <1>1, <1>2, <1>6 DEF NoneIsOlder
    <2> QED BY <1>3, <2>1, <2>2, <2>3
  <1>7. CASE /\ Grabbing.at = "submitting" /\ now' = now /\ Waiting' = Append(Waiting, Grabbing.qpc)
             /\ Grabbing'.at = "idle" /\ Grabbing'.qpc = Grabbing.qpc
    <2>0. \A i \in DOMAIN Waiting' : \/ i \in DOMAIN Waiting /\ Waiting'[i] = Waiting[i]
                                     \/ Waiting'[i] = Grabbing.qpc
      BY <1>1, <1>7
    <2>1. StampsArePast'
      BY <1>1, <1>2, <1>7, <2>0 DEF StampsArePast
    <2>2. GateHolds'
      BY <1>1, <1>2, <1>7 DEF GateHolds, ClosesTheSpan, Resumes
    <2>3. NoneIsOlder'
      BY <1>1, <1>2, <1>7, <2>0 DEF NoneIsOlder
    <2> QED BY <1>3, <2>1, <2>2, <2>3
  <1> QED BY <1>4, <1>5, <1>6, <1>7 DEF CaptureSeen

(* So does every step of an encode thread: the first frame to follow a     *)
(* pause takes the keyframe that is owed.                                  *)
LEMMA EncodeKeeps ==
  ASSUME PauseInv, StampTypes', EncodeSeen
  PROVE  PauseInv'
  <1> USE DEF PauseInv
  <1>1. /\ now \in Nat /\ Grabbing.qpc \in Nat /\ command.stamp \in Nat /\ Waiting \in Seq(Nat)
        /\ \A k \in DOMAIN spans : spans[k][2] \in Nat /\ spans[k][2] < now
        /\ \A i \in DOMAIN Waiting : Waiting[i] < now
        /\ Grabbing.qpc < now /\ command.stamp < now /\ Mapping.qpc < now
        /\ Mapping.qpc \in Nat /\ \A i \in DOMAIN Shown : Shown[i].qpc < now /\ Shown[i].qpc \in Nat
        /\ Shown \in Seq(Placings)
    BY TheStreamIsTyped DEF StampsArePast
  <1>2. UNCHANGED <<now, gate, command, spans, Grabbing>>
    BY DEF EncodeSeen
  <1>3. CASE UNCHANGED <<idrRequested, Waiting, Mapping, Shown>>
    <2>1. StampsArePast' /\ GateHolds' /\ RequestIsTaken' /\ NoneIsOlder'
      BY <1>2, <1>3 DEF StampsArePast, GateHolds, RequestIsTaken, NoneIsOlder
    <2>2. \A e : FirstIsKey(e)' = FirstIsKey(e) /\ NoneFollows(e)' = NoneFollows(e)
      BY <1>3, SameIsShown
    <2>3. Owed' = Owed
      BY <1>3 DEF Owed
    <2>4. KeyframesAreOwed'
      BY <1>2, <2>2, <2>3 DEF KeyframesAreOwed
    <2> QED BY <2>1, <2>4
  <1>4. CASE /\ Waiting # <<>> /\ Waiting' = Tail(Waiting) /\ UNCHANGED <<idrRequested, Shown>>
             /\ Mapping.at = "idle" /\ Mapping'.at = "ladder" /\ Mapping'.qpc = Head(Waiting)
             /\ Mapping'.key = Mapping.key
    <2>0. /\ 1 \in DOMAIN Waiting /\ Head(Waiting) = Waiting[1]
          /\ \A i \in DOMAIN Waiting' : i + 1 \in DOMAIN Waiting /\ Waiting'[i] = Waiting[i + 1]
      BY <1>1, <1>4
    <2>1. StampsArePast'
      BY <1>1, <1>2, <1>4, <2>0 DEF StampsArePast
    <2>2. GateHolds'
      BY <1>2, <1>4 DEF GateHolds, ClosesTheSpan, Resumes
    <2>3. RequestIsTaken'
      BY <1>4 DEF RequestIsTaken
    <2>4. NoneIsOlder'
      BY <1>2, <1>4, <2>0 DEF NoneIsOlder
    <2>5. \A e : FirstIsKey(e)' = FirstIsKey(e) /\ NoneFollows(e)' = NoneFollows(e)
      BY <1>4, SameIsShown
    <2>6. Owed' = Owed
      BY <1>4 DEF Owed
    <2>7. KeyframesAreOwed'
      BY <1>2, <2>5, <2>6 DEF KeyframesAreOwed
    <2> QED BY <2>1, <2>2, <2>3, <2>4, <2>7
  <1>5. CASE /\ Mapping.at = "ladder" /\ Mapping'.at = "loadTotal" /\ Mapping'.qpc = Mapping.qpc
             /\ Mapping'.key = (Mapping.key \/ idrRequested) /\ ~idrRequested' /\ UNCHANGED <<Waiting, Shown>>
    <2>1. StampsArePast'
      BY <1>1, <1>2, <1>5 DEF StampsArePast
    <2>2. GateHolds'
      BY <1>2, <1>5 DEF GateHolds, ClosesTheSpan, Resumes
    <2>3. RequestIsTaken'
      BY <1>5 DEF RequestIsTaken
    <2>4. NoneIsOlder'
      BY <1>2, <1>5 DEF NoneIsOlder
    <2>5. \A e : FirstIsKey(e)' = FirstIsKey(e) /\ NoneFollows(e)' = NoneFollows(e)
      BY <1>5, SameIsShown
    <2>6. Owed' <=> Owed
      BY <1>5, Zenon DEF Owed
    <2>7. KeyframesAreOwed'
      BY <1>2, <2>5, <2>6 DEF KeyframesAreOwed
    <2> QED BY <2>1, <2>2, <2>3, <2>4, <2>7
  <1>6. CASE /\ Mapping.at \notin {"idle", "ladder"} /\ Mapping'.at # "ladder" /\ Mapping'.qpc = Mapping.qpc
             /\ Mapping'.key = Mapping.key /\ UNCHANGED <<idrRequested, Waiting, Shown>>
    <2>1. StampsArePast'
      BY <1>1, <1>2, <1>6 DEF StampsArePast
    <2>2. GateHolds'
      BY <1>2, <1>6 DEF GateHolds, ClosesTheSpan, Resumes
    <2>3. RequestIsTaken'
      BY <1>6 DEF RequestIsTaken
    <2>4. NoneIsOlder'
      BY <1>2, <1>6 DEF NoneIsOlder
    <2>5. \A e : FirstIsKey(e)' = FirstIsKey(e) /\ NoneFollows(e)' = NoneFollows(e)
      BY <1>6, SameIsShown
    <2>6. Owed' = Owed
      BY <1>6 DEF Owed
    <2>7. KeyframesAreOwed'
      BY <1>2, <2>5, <2>6 DEF KeyframesAreOwed
    <2> QED BY <2>1, <2>2, <2>3, <2>4, <2>7
  <1>7. CASE /\ Mapping.at \notin {"idle", "ladder"} /\ Mapping'.at = "idle" /\ Mapping'.qpc = Mapping.qpc
             /\ UNCHANGED <<idrRequested, Waiting>>
             /\ \E item \in Placings : /\ item.qpc = Mapping.qpc /\ item.key = Mapping.key
                                       /\ Shown' = Append(Shown, item)
    <2>0. PICK item \in Placings :
            item.qpc = Mapping.qpc /\ item.key = Mapping.key /\ Shown' = Append(Shown, item)
      BY <1>7
    <2>1. \A i \in DOMAIN Shown' : \/ i \in DOMAIN Shown /\ Shown'[i] = Shown[i]
                                   \/ Shown'[i] = item
      BY <1>1, <2>0
    <2>2. StampsArePast'
      BY <1>1, <1>2, <1>7, <2>0, <2>1 DEF StampsArePast
    <2>3. command.at \notin Resumes
      BY <1>7 DEF GateHolds
    <2>4. GateHolds'
      BY <1>2, <2>3 DEF GateHolds, ClosesTheSpan, Resumes
    <2>5. RequestIsTaken'
      BY <1>7 DEF RequestIsTaken
    <2>6. NoneIsOlder'
      BY <1>2, <1>7 DEF NoneIsOlder
    <2>7. Owed => item.key
      BY <1>7, <2>0, Zenon DEF Owed, RequestIsTaken
    <2>8. ASSUME NEW k \in DOMAIN spans PROVE FirstIsKey(spans[k][2])'
      <3> DEFINE e == spans[k][2]
      <3>1. PICK c \in Nat : c = e /\ c' = e'
        BY <1>1, <1>2
      <3>2. item.qpc >= c
        BY <1>7, <2>0, <3>1 DEF NoneIsOlder
      <3>3. FirstIsKey(c) => FirstIsKey(c)'
        BY <1>1, <2>0, OneMoreIsShown
      <3>4. NoneFollows(c) /\ item.key => FirstIsKey(c)'
        BY <1>1, <2>0, <3>2, OneMoreIsShown
      <3>5. FirstIsKey(c) \/ (NoneFollows(c) /\ Owed)
        BY <2>3, <3>1 DEF KeyframesAreOwed, Resumes
      <3>6. FirstIsKey(c)'
        BY <2>7, <3>3, <3>4, <3>5
      <3> QED BY <1>2, <3>1, <3>6
    <2>9. KeyframesAreOwed'
      BY <1>2, <2>8 DEF KeyframesAreOwed
    <2> QED BY <2>2, <2>4, <2>5, <2>6, <2>9
  <1> QED BY <1>3, <1>4, <1>5, <1>6, <1>7 DEF EncodeSeen

(* And every step of a command: when resume closes the span, whatever is   *)
(* shown is older than it, and the keyframe is asked for before the gate   *)
(* lets a frame through.                                                   *)
LEMMA CommandKeeps ==
  ASSUME PauseInv, StampTypes', CommandSeen
  PROVE  PauseInv'
  <1> USE DEF PauseInv
  <1>1. /\ now \in Nat /\ command.stamp \in Nat /\ now' \in Nat
        /\ \A k \in DOMAIN spans : spans[k][2] \in Nat /\ spans[k][2] < now
        /\ \A i \in DOMAIN Waiting : Waiting[i] < now /\ Waiting[i] \in Nat
        /\ Grabbing.qpc < now /\ command.stamp < now /\ Mapping.qpc < now
        /\ Grabbing.qpc \in Nat /\ Mapping.qpc \in Nat
        /\ \A i \in DOMAIN Shown : Shown[i].qpc < now /\ Shown[i].qpc \in Nat
        /\ spans \in Seq(Nat \X Nat)
    BY TheStreamIsTyped DEF StampsArePast, StampTypes
  <1>2. UNCHANGED <<Grabbing, Waiting, Mapping, Shown>>
    BY DEF CommandSeen
  <1>3. /\ \A e : FirstIsKey(e)' = FirstIsKey(e) /\ NoneFollows(e)' = NoneFollows(e)
        /\ \A e : FirstIsKey(e)' <=> FirstIsKey(e)
        /\ \A e : NoneFollows(e)' <=> NoneFollows(e)
    BY <1>2, SameIsShown
  <1>4. ASSUME spans' = spans, now <= now', command'.stamp < now' PROVE StampsArePast' /\ NoneIsOlder'
    <2>1. StampsArePast'
      BY <1>1, <1>2, <1>4 DEF StampsArePast
    <2>2. NoneIsOlder'
      BY <1>2, <1>4 DEF NoneIsOlder
    <2> QED BY <2>1, <2>2
  <1>5. idrRequested' = idrRequested => RequestIsTaken' /\ Owed' = Owed
    BY <1>2 DEF RequestIsTaken, Owed
  <1>6. CASE Pausing
    <2>1. /\ command.at \notin Resumes /\ command'.at \notin Resumes
          /\ command'.stamp < now' /\ now <= now' /\ UNCHANGED <<idrRequested, spans>>
      BY <1>6 DEF Pausing
    <2>2. GateHolds'
      BY <2>1 DEF GateHolds, ClosesTheSpan, Resumes
    <2>3. KeyframesAreOwed'
      BY <1>3, <1>5, <2>1 DEF KeyframesAreOwed, Resumes
    <2> QED BY <1>4, <1>5, <2>1, <2>2, <2>3
  <1>7. CASE ResumeBegins
    <2>1. /\ command.at \notin Resumes /\ command'.at = "span" /\ command'.stamp = now /\ now' = now + 1
          /\ gate' /\ Grabbing.at = "idle" /\ Waiting = <<>> /\ Mapping.at = "idle"
          /\ UNCHANGED <<idrRequested, spans>>
      BY <1>7 DEF ResumeBegins
    <2>2. GateHolds'
      BY <1>1, <1>2, <2>1 DEF GateHolds, ClosesTheSpan, Resumes
    <2>3. KeyframesAreOwed'
      BY <1>3, <1>5, <2>1 DEF KeyframesAreOwed, Resumes
    <2> QED BY <1>1, <1>4, <1>5, <2>1, <2>2, <2>3
  <1>8. CASE ResumeStores
    <2>1. /\ command.at \in ClosesTheSpan /\ command'.at \in ClosesTheSpan
          /\ UNCHANGED <<now, gate, command.stamp, idrRequested, spans>>
      BY <1>8 DEF ResumeStores
    <2>2. GateHolds'
      BY <1>2, <2>1 DEF GateHolds, ClosesTheSpan, Resumes
    <2>3. KeyframesAreOwed'
      BY <1>3, <1>5, <2>1 DEF KeyframesAreOwed, ClosesTheSpan
    <2> QED BY <1>1, <1>4, <1>5, <2>1, <2>2, <2>3
  <1>9. CASE ResumeAdds
    <2>1. /\ command.at = "total" /\ command'.at = "clear" /\ UNCHANGED <<now, gate, command.stamp, idrRequested>>
          /\ spans' = Append(spans, <<pauseBegin, command.stamp>>)
      BY <1>9 DEF ResumeAdds
    <2>2. \A k \in DOMAIN spans' : \/ k \in DOMAIN spans /\ spans'[k][2] = spans[k][2]
                                   \/ spans'[k][2] = command.stamp
      BY <1>1, <2>1
    <2>3. /\ gate /\ Grabbing.at \in {"idle", "acquired"} /\ Waiting = <<>> /\ Mapping.at = "idle"
          /\ Grabbing.at = "acquired" => Grabbing.qpc >= command.stamp
          /\ \A i \in DOMAIN Shown : Shown[i].qpc < command.stamp
      BY <2>1 DEF GateHolds, Resumes, ClosesTheSpan
    <2>4. StampsArePast'
      BY <1>1, <1>2, <2>1, <2>2 DEF StampsArePast
    <2>5. GateHolds'
      BY <1>2, <2>1, <2>3 DEF GateHolds, ClosesTheSpan, Resumes
    <2>6. NoneIsOlder'
      <3>1. Waiting' = <<>> /\ Mapping'.at = "idle" /\ Grabbing' = Grabbing
        BY <1>2, <2>3
      <3>2. \A k \in DOMAIN spans' : Grabbing.at # "idle" => Grabbing.qpc >= spans'[k][2]
        BY <2>2, <2>3 DEF NoneIsOlder
      <3> QED BY <3>1, <3>2 DEF NoneIsOlder
    <2>7. ASSUME NEW k \in DOMAIN spans'
          PROVE  (FirstIsKey(spans[k][2]) \/ NoneFollows(spans[k][2]))'
      <3>1. PICK c : c = spans'[k][2] /\ c' = c
        OBVIOUS
      <3>2. FirstIsKey(c) \/ NoneFollows(c)
        <4>1. CASE k \in DOMAIN spans /\ spans'[k][2] = spans[k][2]
          BY <3>1, <4>1 DEF KeyframesAreOwed
        <4>2. CASE spans'[k][2] = command.stamp
          BY <1>1, <2>3, <3>1, <4>2 DEF NoneFollows, FollowsIt
        <4> QED BY <2>2, <4>1, <4>2
      <3>3. FirstIsKey(c)' \/ NoneFollows(c)'
        BY <1>3, <3>2
      <3> QED BY <3>1, <3>3
    <2>8. KeyframesAreOwed'
      BY <2>1, <2>7 DEF KeyframesAreOwed
    <2> QED BY <1>5, <2>1, <2>4, <2>5, <2>6, <2>8
  <1>10. CASE ResumeClears
    <2>1. /\ command.at = "clear" /\ command'.at = "askIdr"
          /\ UNCHANGED <<now, gate, command.stamp, idrRequested, spans>>
      BY <1>10 DEF ResumeClears
    <2>2. GateHolds'
      BY <1>2, <2>1 DEF GateHolds, ClosesTheSpan, Resumes
    <2>3. KeyframesAreOwed'
      BY <1>3, <1>5, <2>1 DEF KeyframesAreOwed
    <2> QED BY <1>1, <1>4, <1>5, <2>1, <2>2, <2>3
  <1>11. CASE ResumeAsks
    <2>1. /\ command.at = "askIdr" /\ command'.at = "openGate" /\ idrRequested'
          /\ UNCHANGED <<now, gate, command.stamp, spans>>
      BY <1>11 DEF ResumeAsks
    <2>2. GateHolds'
      BY <1>2, <2>1 DEF GateHolds, ClosesTheSpan, Resumes
    <2>3. RequestIsTaken'
      BY <1>2, <2>1 DEF GateHolds, Resumes, RequestIsTaken
    <2>4. Owed'
      BY <2>1 DEF Owed
    <2>5. KeyframesAreOwed'
      BY <1>3, <2>1, <2>4 DEF KeyframesAreOwed
    <2> QED BY <1>1, <1>4, <2>1, <2>2, <2>3, <2>5
  <1>12. CASE ResumeOpens
    <2>1. /\ command.at = "openGate" /\ command'.at = "idle"
          /\ UNCHANGED <<now, command.stamp, idrRequested, spans>>
      BY <1>12 DEF ResumeOpens
    <2>2. GateHolds'
      BY <2>1 DEF GateHolds, ClosesTheSpan, Resumes
    <2>3. KeyframesAreOwed'
      BY <1>3, <1>5, <2>1 DEF KeyframesAreOwed
    <2> QED BY <1>1, <1>4, <1>5, <2>1, <2>2, <2>3
  <1> QED BY <1>6, <1>7, <1>8, <1>9, <1>10, <1>11, <1>12 DEF CommandSeen

(* At the start everything has its type.                                   *)
LEMMA PauseStartsTyped ==
  ASSUME PauseInit
  PROVE  StampTypes
  <1>1. [at |-> "idle", qpc |-> 0] \in Grabs /\ [at |-> "idle", stamp |-> 0] \in Commandings
        /\ [at |-> "idle", qpc |-> 0, excised |-> 0, key |-> FALSE] \in Maps
    BY DEF Grabs, GrabPlaces, Maps, MapPlaces, Commandings, CommandPlaces
  <1>2. /\ capture \in [Streams -> Grabs] /\ mapper \in [Streams -> Maps]
        /\ queue \in [Streams -> Seq(Nat)] /\ placed \in [Streams -> Seq(Placings)]
    BY <1>1 DEF PauseInit
  <1>3. /\ now = 1 /\ gate = FALSE /\ idrRequested = FALSE /\ command = [at |-> "idle", stamp |-> 0]
        /\ pauseBegin = 0 /\ spans = <<>> /\ total = 0 /\ lastSpan = 0
    BY DEF PauseInit
  <1>4. gate \in BOOLEAN /\ idrRequested \in BOOLEAN
    BY <1>3, Zenon
  <1>5. command \in Commandings
    BY <1>1, <1>3
  <1>6. ASSUME NEW T PROVE <<>> \in Seq(T)
    OBVIOUS
  <1>7. now \in Nat /\ pauseBegin \in Nat /\ total \in Int /\ lastSpan \in Int
    BY <1>3, SMT
  <1>8. astray \in [Streams -> BOOLEAN]
    BY DEF PauseInit
  <1> QED BY <1>2, <1>3, <1>4, <1>5, <1>6, <1>7, <1>8 DEF StampTypes

(* With no frame on its way when a pause ends, all of it holds always.     *)
LEMMA PauseInvariance ==
  ASSUME "video" \notin LateStreams
  PROVE  PauseSpec => []PauseInv
  <1>1. PauseInit => PauseInv
    <2> SUFFICES ASSUME PauseInit PROVE PauseInv
      OBVIOUS
    <2>0. /\ Grabbing = [at |-> "idle", qpc |-> 0] /\ Waiting = <<>> /\ Shown = <<>> /\ spans = <<>>
          /\ Mapping = [at |-> "idle", qpc |-> 0, excised |-> 0, key |-> FALSE]
          /\ command = [at |-> "idle", stamp |-> 0] /\ now = 1 /\ ~gate /\ idrRequested = FALSE
      BY VideoIsAStream DEF PauseInit, Grabbing, Waiting, Shown, Mapping
    <2>1. StampTypes
      BY PauseStartsTyped
    <2>2. StampsArePast /\ GateHolds /\ RequestIsTaken /\ NoneIsOlder /\ KeyframesAreOwed
      BY <2>0 DEF StampsArePast, GateHolds, Resumes, ClosesTheSpan, RequestIsTaken, NoneIsOlder, KeyframesAreOwed
    <2> QED BY <2>1, <2>2 DEF PauseInv
  <1>2. PauseInv /\ [PauseNext]_pauseVars => PauseInv'
    <2> SUFFICES ASSUME PauseInv, [PauseNext]_pauseVars PROVE PauseInv'
      OBVIOUS
    <2>0. StampTypes /\ StampsArePast
      BY DEF PauseInv
    <2>1. CASE Command
      BY <2>0, <2>1, CommandIsSeen, CommandKeeps
    <2>2. ASSUME NEW s \in Streams, Capture(s) PROVE PauseInv'
      BY <2>0, <2>2, CaptureIsSeen, CaptureKeeps
    <2>3. ASSUME NEW s \in Streams, Encode(s) PROVE PauseInv'
      BY <2>0, <2>3, EncodeIsSeen, EncodeKeeps
    <2>4. CASE UNCHANGED pauseVars
      <3>1. UNCHANGED <<now, gate, command, spans, idrRequested, capture, queue, mapper, placed, pauseBegin, total,
                        lastSpan, astray>>
        BY <2>4 DEF pauseVars, clock, stages
      <3>2. StampTypes' /\ EncodeSeen
        BY <2>0, <3>1 DEF StampTypes, EncodeSeen, Grabbing, Waiting, Mapping, Shown
      <3> QED BY <3>2, EncodeKeeps
    <2> QED BY <2>1, <2>2, <2>3, <2>4 DEF PauseNext
  <1> QED BY <1>1, <1>2, PTL DEF PauseSpec

(* SeamIsAKeyframe: the first frame to be shown after a pause is a         *)
(* keyframe, however capture, the encode thread, the clock's stores and    *)
(* the session's gate interleave (video_pipeline.cpp, VideoPipeline::      *)
(* resume; recording_session.cpp, resume).  That no frame from before the  *)
(* pause is still on its way when it ends is assumed of video.             *)
THEOREM SeamsAreKeyframes ==
  ASSUME "video" \notin LateStreams
  PROVE  PauseSpec => []SeamIsAKeyframe
  <1>1. PauseInv => SeamIsAKeyframe
    <2> SUFFICES ASSUME PauseInv, NEW k \in DOMAIN spans, NEW i \in DOMAIN Shown,
                        FollowsIt(spans[k][2], i), \A j \in 1 .. i - 1 : ~FollowsIt(spans[k][2], j)
                 PROVE  Shown[i].key
      BY DEF SeamIsAKeyframe, Shown, FollowsIt
    <2>1. FirstIsKey(spans[k][2])
      BY DEF PauseInv, KeyframesAreOwed, NoneFollows
    <2>2. PICK j \in DOMAIN Shown : /\ FollowsIt(spans[k][2], j) /\ Shown[j].key
                                    /\ \A h \in 1 .. j - 1 : ~FollowsIt(spans[k][2], h)
      BY <2>1 DEF FirstIsKey
    <2>3. i \in Nat /\ j \in Nat /\ i >= 1 /\ j >= 1
      <3>1. Shown \in Seq(Placings)
        BY TheStreamIsTyped DEF PauseInv
      <3> QED BY <3>1
    <2>4. ~(i < j) /\ ~(j < i)
      BY <2>2, <2>3
    <2> QED BY <2>2, <2>3, <2>4
  <1> QED BY PauseInvariance, <1>1, PTL

------------------------------------------------------------------------------
(* What has been cut out before a moment, counted.                         *)

(* The moments of a pause and of its end, with the gate shut.              *)
Shutting  == {"readClock", "drain", "begin", "publish"}
ClosingAt == {"span", "lastBegin", "total", "clear"}

OverBy(x) == \A k \in DOMAIN spans : spans[k][1] <= spans[k][2] /\ spans[k][2] <= x

(* A stamp that no pause but the latest may follow, and one that none does.*)
AfterAll(q) == \A k \in DOMAIN spans : spans[k][2] <= q
Recent(q) == \A k \in DOMAIN spans : spans[k][2] <= q \/ (k = Len(spans) /\ q < spans[k][1])

ClockTypes == lastPauseBegin \in Nat /\ paused \in BOOLEAN

(* The gate and the clock's flag, by where the command is.                 *)
GateFollows ==
    /\ command.at = "idle" => gate = paused
    /\ command.at \in Shutting => gate /\ ~paused
    /\ command.at \in ClosingAt => gate /\ paused
    /\ command.at \in {"askIdr", "openGate"} => gate /\ ~paused

(* The pauses follow one another, and the present one follows them all.    *)
SpansInOrder ==
    /\ OverBy(now) /\ command.stamp <= now
    /\ command.at \in {"drain", "begin"} => OverBy(command.stamp)
    /\ command.at = "publish" \/ (command.at = "idle" /\ paused) => OverBy(pauseBegin) /\ pauseBegin <= now
    /\ command.at \in ClosesTheSpan => OverBy(pauseBegin) /\ pauseBegin <= command.stamp
    /\ command.at = "clear" => spans # <<>> /\ spans[Len(spans)] = <<pauseBegin, command.stamp>>

(* What the clock's fields say of the completed pauses, store by store.    *)
ClockIsRight ==
    /\ total = ExcisedBefore(now)
    /\ command.at # "total" /\ spans = <<>> => lastPauseBegin = 0
    /\ command.at # "total" /\ spans # <<>> => lastPauseBegin = spans[Len(spans)][1]
    /\ command.at = "total" => lastPauseBegin = pauseBegin
    /\ command.at \notin {"lastBegin", "total"} /\ spans # <<>> =>
          lastSpan = spans[Len(spans)][2] - spans[Len(spans)][1]
    /\ command.at \in {"lastBegin", "total"} => lastSpan = command.stamp - pauseBegin

ClockInv == StampTypes /\ ClockTypes /\ GateFollows /\ SpansInOrder /\ ClockIsRight

(* What an encode thread has read so far of an item stamped q is what it   *)
(* takes to be exact: x is the time it has decided to cut.  While a span   *)
(* is being stored, what was decided is of before its end.                 *)
BeforeItsEnd(q) == command.at \in ClosesTheSpan => q < command.stamp

ReadRight(a, q, x) ==
    \/ InPause(q)
    \/ /\ a \in HalfRead => x = total /\ ~Storing
       /\ a = "loadBegin" => AfterAll(q)
       /\ a \in {"loadLastBegin", "loadLastSpan"} => Recent(q) /\ BeforeItsEnd(q)
       /\ a = "loadLastSpan" => q < lastPauseBegin
       /\ a = "place" => x = ExcisedBefore(q) /\ BeforeItsEnd(q)

IsExact(item) ==
    item.qpc < now /\ (item.astray \/ ReadRight("place", item.qpc, item.qpc - item.timeline))

StreamIsExact(s) ==
    /\ \A q \in Unplaced(s) : q < now
    /\ astray[s] \/ ReadRight(mapper[s].at, mapper[s].qpc, mapper[s].excised)
    /\ \A i \in DOMAIN placed[s] : IsExact(placed[s][i])

ExactInv == ClockInv /\ \A s \in Streams : StreamIsExact(s)

(* What a completed pause is made of.                                      *)
LEMMA SpansAreTyped ==
  ASSUME StampTypes
  PROVE  /\ spans \in Seq(Nat \X Nat) /\ Len(spans) \in Nat /\ DOMAIN spans = 1 .. Len(spans)
         /\ \A k \in DOMAIN spans : k \in Nat /\ spans[k][1] \in Nat /\ spans[k][2] \in Nat
         /\ spans # <<>> => Len(spans) \in DOMAIN spans
  <1>1. spans \in Seq(Nat \X Nat)
    BY StampsAreTyped
  <1>2. \A k \in DOMAIN spans : spans[k] \in Nat \X Nat
    BY <1>1
  <1>3. \A k \in DOMAIN spans : k \in Nat
    BY <1>1
  <1> QED BY <1>1, <1>2, <1>3

(* A set of moments and an interval apart from it, counted together.       *)
LEMMA CountsAdd ==
  ASSUME NEW S, IsFiniteSet(S), NEW b \in Nat, NEW e \in Nat, b <= e, S \cap (b .. e - 1) = {}
  PROVE  Cardinality(S \cup (b .. e - 1)) = Cardinality(S) + (e - b)
  <1>1. e - 1 \in Int /\ b \in Int
    OBVIOUS
  <1>2. IsFiniteSet(b .. e - 1) /\ Cardinality(b .. e - 1) = IF b > e - 1 THEN 0 ELSE e - 1 - b + 1
    BY <1>1, FS_Interval
  <1>3. Cardinality(b .. e - 1) = e - b
    BY <1>2
  <1>4. Cardinality(S) \in Nat
    BY FS_CardinalityType
  <1>5. Cardinality(S \cup (b .. e - 1)) = Cardinality(S) + Cardinality(b .. e - 1) - Cardinality(S \cap (b .. e - 1))
    BY <1>2, FS_Union
  <1>6. Cardinality(S \cap (b .. e - 1)) = 0
    BY FS_EmptySet
  <1> QED BY <1>3, <1>4, <1>5, <1>6

(* What has been cut out before a moment is finite, and no more than there *)
(* was.                                                                    *)
LEMMA PausedIsCounted ==
  ASSUME NEW q \in Nat
  PROVE  /\ PausedBefore(q) \subseteq 0 .. q - 1 /\ IsFiniteSet(PausedBefore(q))
         /\ ExcisedBefore(q) \in Nat /\ ExcisedBefore(q) <= q
  <1>1. PausedBefore(q) \in SUBSET (0 .. q - 1)
    BY DEF PausedBefore
  <1>2. IsFiniteSet(0 .. q - 1) /\ Cardinality(0 .. q - 1) = q
    BY FS_Interval
  <1>3. IsFiniteSet(PausedBefore(q)) /\ Cardinality(PausedBefore(q)) <= q
    BY <1>1, <1>2, FS_Subset
  <1>4. Cardinality(PausedBefore(q)) \in Nat
    BY <1>3, FS_CardinalityType
  <1> QED BY <1>1, <1>3, <1>4 DEF ExcisedBefore

(* Past the end of the last pause nothing is added.                        *)
LEMMA NothingMoreIsCut ==
  ASSUME StampTypes, NEW x \in Nat, NEW y \in Nat, x <= y, \A k \in DOMAIN spans : spans[k][2] <= x
  PROVE  PausedBefore(y) = PausedBefore(x) /\ ExcisedBefore(y) = ExcisedBefore(x)
  <1>1. ASSUME NEW t \in 0 .. y - 1, InPause(t) PROVE t \in 0 .. x - 1
    <2>1. PICK k \in DOMAIN spans : t < spans[k][2]
      BY <1>1 DEF InPause
    <2> QED BY <2>1, SpansAreTyped
  <1>2. PausedBefore(y) = PausedBefore(x)
    BY <1>1 DEF PausedBefore
  <1> QED BY <1>2 DEF ExcisedBefore

(* What the clock's total is for one that no pause follows.                *)
LEMMA TotalIsExact ==
  ASSUME StampTypes, SpansInOrder, ClockIsRight, NEW q \in Nat, q < now,
         \A k \in DOMAIN spans : spans[k][2] <= q
  PROVE  total = ExcisedBefore(q)
  <1>1. now \in Nat
    BY StampsAreTyped
  <1>2. ExcisedBefore(now) = ExcisedBefore(q)
    BY <1>1, NothingMoreIsCut
  <1> QED BY <1>2 DEF ClockIsRight

(* And for one that only the latest pause follows, less that pause.        *)
LEMMA LessTheLatest ==
  ASSUME StampTypes, SpansInOrder, ClockIsRight, ~Storing,
         NEW q \in Nat, q < now, q < lastPauseBegin, Recent(q)
  PROVE  total - lastSpan = ExcisedBefore(q)
  <1>0. now \in Nat /\ spans \in Seq(Nat \X Nat)
    BY StampsAreTyped
  <1> DEFINE n == Len(spans)
             b == spans[n][1]
             e == spans[n][2]
  <1>1. spans # <<>> /\ lastPauseBegin = b /\ lastSpan = e - b
    <2>1. command.at # "total" /\ command.at # "lastBegin"
      BY DEF Storing
    <2>2. spans # <<>>
      BY <2>1 DEF ClockIsRight
    <2> QED BY <2>1, <2>2 DEF ClockIsRight
  <1>2. n \in DOMAIN spans /\ b \in Nat /\ e \in Nat /\ n \in Nat /\ DOMAIN spans = 1 .. n
    BY <1>1, SpansAreTyped
  <1>3. b <= e /\ e <= now
    BY <1>2 DEF SpansInOrder, OverBy
  <1>4. \A k \in DOMAIN spans : k # n => spans[k][2] <= q
    BY DEF Recent
  <1>5. PausedBefore(now) = PausedBefore(q) \cup (b .. e - 1)
    <2>1. ASSUME NEW t \in PausedBefore(now) PROVE t \in PausedBefore(q) \cup (b .. e - 1)
      <3>1. t \in Nat /\ InPause(t)
        BY <1>0 DEF PausedBefore
      <3>2. PICK k \in DOMAIN spans : spans[k][1] <= t /\ t < spans[k][2]
        BY <3>1 DEF InPause
      <3>3. CASE k = n
        BY <1>2, <3>1, <3>2, <3>3
      <3>4. CASE k # n
        <4>1. spans[k][2] <= q /\ spans[k][2] \in Nat
          BY <1>4, <3>4, SpansAreTyped
        <4>2. t \in 0 .. q - 1
          BY <3>1, <3>2, <4>1
        <4> QED BY <3>1, <4>2 DEF PausedBefore
      <3> QED BY <3>3, <3>4
    <2>2. ASSUME NEW t \in PausedBefore(q) PROVE t \in PausedBefore(now)
      BY <1>0, <2>2 DEF PausedBefore
    <2>3. ASSUME NEW t \in b .. e - 1 PROVE t \in PausedBefore(now)
      <3>1. t \in 0 .. now - 1 /\ b <= t /\ t < e
        BY <1>0, <1>2, <1>3, <2>3
      <3> QED BY <1>2, <3>1 DEF PausedBefore, InPause
    <2> QED BY <2>1, <2>2, <2>3
  <1>6. PausedBefore(q) \cap (b .. e - 1) = {}
    <2>1. PausedBefore(q) \subseteq 0 .. q - 1
      BY PausedIsCounted
    <2>2. q < b
      BY <1>1
    <2> QED BY <1>2, <2>1, <2>2
  <1>7. IsFiniteSet(PausedBefore(q)) /\ ExcisedBefore(q) \in Nat
    BY PausedIsCounted
  <1> HIDE DEF b, e, n
  <1>8. Cardinality(PausedBefore(q) \cup (b .. e - 1)) = Cardinality(PausedBefore(q)) + (e - b)
    BY <1>2, <1>3, <1>6, <1>7, CountsAdd
  <1>9. total = ExcisedBefore(q) + (e - b)
    BY <1>5, <1>8 DEF ClockIsRight, ExcisedBefore
  <1> QED BY <1>1, <1>2, <1>7, <1>9

(* What one more pause changes: what is in it, and nothing before it.      *)
LEMMA OneMorePause ==
  ASSUME StampTypes, NEW b \in Nat, NEW e \in Nat, b <= e, OverBy(b), spans' = Append(spans, <<b, e>>)
  PROVE  /\ \A q \in Nat : InPause(q)' <=> InPause(q) \/ (b <= q /\ q < e)
         /\ \A q \in Nat : q <= b => ExcisedBefore(q)' = ExcisedBefore(q)
         /\ \A y \in Nat : e <= y => ExcisedBefore(y)' = ExcisedBefore(b) + (e - b)
  <1> DEFINE n == Len(spans)
  <1>1. /\ n \in Nat /\ DOMAIN spans = 1 .. n /\ DOMAIN spans' = 1 .. n + 1 /\ spans'[n + 1] = <<b, e>>
        /\ \A k \in 1 .. n : spans'[k] = spans[k]
    BY SpansAreTyped
  <1> HIDE DEF n
  <1>2. spans'[n + 1][1] = b /\ spans'[n + 1][2] = e
    BY <1>1
  <1>3. ASSUME NEW q \in Nat PROVE InPause(q)' <=> InPause(q) \/ (b <= q /\ q < e)
    <2>1. ASSUME InPause(q) PROVE InPause(q)'
      <3>1. PICK k \in 1 .. n : spans[k][1] <= q /\ q < spans[k][2]
        BY <1>1, <2>1 DEF InPause
      <3>2. k \in 1 .. n + 1 /\ spans'[k] = spans[k]
        BY <1>1
      <3> QED BY <1>1, <3>1, <3>2 DEF InPause
    <2>2. ASSUME b <= q, q < e PROVE InPause(q)'
      <3>1. n + 1 \in 1 .. n + 1
        BY <1>1
      <3> QED BY <1>1, <1>2, <2>2, <3>1 DEF InPause
    <2>3. ASSUME InPause(q)' PROVE InPause(q) \/ (b <= q /\ q < e)
      <3>1. PICK k \in 1 .. n + 1 : spans'[k][1] <= q /\ q < spans'[k][2]
        BY <1>1, <2>3 DEF InPause
      <3>2. CASE k = n + 1
        BY <1>2, <3>1, <3>2
      <3>3. CASE k # n + 1
        <4>1. k \in 1 .. n
          BY <1>1, <3>3
        <4>2. spans[k][1] <= q /\ q < spans[k][2]
          BY <1>1, <3>1, <4>1
        <4> QED BY <1>1, <4>1, <4>2 DEF InPause
      <3> QED BY <3>2, <3>3
    <2> QED BY <2>1, <2>2, <2>3
  <1>4. ASSUME NEW q \in Nat, q <= b PROVE PausedBefore(q)' = PausedBefore(q)
    <2>1. \A t \in 0 .. q - 1 : InPause(t)' <=> InPause(t)
      <3>1. \A t \in 0 .. q - 1 : t \in Nat /\ ~(b <= t)
        BY <1>4
      <3> QED BY <1>3, <3>1
    <2> QED BY <2>1 DEF PausedBefore
  <1>5. ASSUME NEW y \in Nat, e <= y PROVE ExcisedBefore(y)' = ExcisedBefore(b) + (e - b)
    <2>1. PausedBefore(y)' = PausedBefore(y) \cup (b .. e - 1)
      <3>1. ASSUME NEW t \in 0 .. y - 1 PROVE InPause(t)' <=> InPause(t) \/ t \in b .. e - 1
        <4>1. t \in Nat /\ (t \in b .. e - 1 <=> b <= t /\ t < e)
          BY <1>5
        <4> QED BY <1>3, <4>1
      <3>2. b .. e - 1 \subseteq 0 .. y - 1
        BY <1>5
      <3> QED BY <3>1, <3>2 DEF PausedBefore
    <2>2. PausedBefore(y) = PausedBefore(b)
      BY <1>5, NothingMoreIsCut DEF OverBy
    <2>3. PausedBefore(b) \subseteq 0 .. b - 1 /\ IsFiniteSet(PausedBefore(b)) /\ ExcisedBefore(b) \in Nat
      BY PausedIsCounted
    <2>4. PausedBefore(b) \cap (b .. e - 1) = {}
      BY <2>3
    <2>5. Cardinality(PausedBefore(b) \cup (b .. e - 1)) = Cardinality(PausedBefore(b)) + (e - b)
      BY <2>3, <2>4, CountsAdd
    <2>6. ExcisedBefore(y)' = Cardinality(PausedBefore(y)')
      BY DEF ExcisedBefore
    <2> QED BY <2>1, <2>2, <2>5, <2>6 DEF ExcisedBefore
  <1> QED BY <1>3, <1>4, <1>5 DEF ExcisedBefore

(* What is on its way in a stream, and what an item that was placed holds. *)
LEMMA UnplacedAreStamps ==
  ASSUME StampTypes, NEW s \in Streams
  PROVE  /\ Unplaced(s) \subseteq Nat
         /\ capture[s] \in Grabs /\ mapper[s] \in Maps /\ queue[s] \in Seq(Nat) /\ placed[s] \in Seq(Placings)
         /\ capture[s].qpc \in Nat /\ mapper[s].qpc \in Nat /\ mapper[s].excised \in Int /\ astray[s] \in BOOLEAN
         /\ \A i \in DOMAIN placed[s] : placed[s][i].qpc \in Nat /\ placed[s][i].timeline \in Int
  <1>1. capture[s] \in Grabs /\ mapper[s] \in Maps /\ queue[s] \in Seq(Nat) /\ placed[s] \in Seq(Placings)
        /\ astray[s] \in BOOLEAN
    BY StampsAreTyped
  <1>2. capture[s].qpc \in Nat /\ mapper[s].qpc \in Nat /\ mapper[s].excised \in Int
    BY <1>1 DEF Grabs, Maps
  <1>3. \A i \in DOMAIN queue[s] : queue[s][i] \in Nat
    BY <1>1
  <1>4. \A i \in DOMAIN placed[s] : placed[s][i] \in Placings
    BY <1>1
  <1>5. \A i \in DOMAIN placed[s] : placed[s][i].qpc \in Nat /\ placed[s][i].timeline \in Int
    BY <1>4 DEF Placings
  <1>6. Unplaced(s) \subseteq Nat
    BY <1>2, <1>3 DEF Unplaced
  <1> QED BY <1>1, <1>2, <1>5, <1>6

(* What is said of the pauses stays while none is completed.               *)
LEMMA SpansRest ==
  ASSUME spans' = spans
  PROVE  /\ \A q : InPause(q)' = InPause(q) /\ AfterAll(q)' = AfterAll(q) /\ Recent(q)' = Recent(q)
         /\ \A q : ExcisedBefore(q)' = ExcisedBefore(q)
         /\ \A q : OverBy(q)' = OverBy(q)
  <1>1. \A q : InPause(q)' = InPause(q)
    BY DEF InPause
  <1>2. \A q : AfterAll(q)' = AfterAll(q)
    BY DEF AfterAll
  <1>3. \A q : Recent(q)' = Recent(q)
    BY DEF Recent
  <1>4. \A q : ExcisedBefore(q)' = ExcisedBefore(q)
    BY <1>1 DEF ExcisedBefore, PausedBefore
  <1>5. \A q : OverBy(q)' = OverBy(q)
    BY DEF OverBy
  <1> QED BY <1>1, <1>2, <1>3, <1>4, <1>5

(* What any step makes of the pauses: it leaves them and the end of the    *)
(* one being stored, or reads the clock for that end, or completes it.     *)
ClockSteps ==
    \/ /\ spans' = spans
       /\ command'.at \in ClosesTheSpan =>
             (command.at \in ClosesTheSpan /\ command'.stamp = command.stamp) \/ command'.stamp = now
    \/ /\ command.at = "total" /\ command'.at = "clear"
       /\ spans' = Append(spans, <<pauseBegin, command.stamp>>)

(* What was read right stays so, through the completion of a pause too: of *)
(* an item that is decided, the pause is all before or all after.          *)
LEMMA RightStays ==
  ASSUME StampTypes, SpansInOrder, ClockSteps, NEW a, NEW q \in Nat, NEW x \in Int, q < now, ReadRight(a, q, x),
         a \in HalfRead /\ ~InPause(q) =>
            total' = total /\ lastPauseBegin' = lastPauseBegin /\ spans' = spans /\ (Storing' => Storing)
  PROVE  ReadRight(a, q, x)'
  <1>1. now \in Nat /\ command.stamp \in Nat /\ pauseBegin \in Nat /\ spans \in Seq(Nat \X Nat)
    BY StampsAreTyped
  <1>2. BeforeItsEnd(q) => BeforeItsEnd(q)'
    BY DEF ClockSteps, BeforeItsEnd, ClosesTheSpan
  <1>3. CASE spans' = spans
    <2>1. InPause(q)' = InPause(q) /\ AfterAll(q)' = AfterAll(q) /\ Recent(q)' = Recent(q)
          /\ ExcisedBefore(q)' = ExcisedBefore(q)
      BY <1>3, SpansRest
    <2>2. CASE InPause(q)
      BY <2>1, <2>2 DEF ReadRight
    <2>3. CASE ~InPause(q)
      BY <1>2, <2>1, <2>3 DEF ReadRight, HalfRead
    <2> QED BY <2>2, <2>3
  <1>4. CASE spans' # spans
    <2> DEFINE b == pauseBegin
               e == command.stamp
    <2>1. command.at = "total" /\ spans' = Append(spans, <<b, e>>)
      BY <1>4 DEF ClockSteps
    <2>2. b <= e /\ OverBy(b)
      BY <2>1 DEF SpansInOrder, ClosesTheSpan
    <2> HIDE DEF b, e
    <2>3. /\ InPause(q)' <=> InPause(q) \/ (b <= q /\ q < e)
          /\ q <= b => ExcisedBefore(q)' = ExcisedBefore(q)
      BY <1>1, <2>1, <2>2, OneMorePause DEF b, e
    <2>4. CASE InPause(q)
      BY <2>3, <2>4 DEF ReadRight
    <2>5. CASE ~InPause(q) /\ a = "place"
      <3>1. x = ExcisedBefore(q) /\ q < e
        BY <2>1, <2>5 DEF ReadRight, BeforeItsEnd, ClosesTheSpan, e
      <3>2. BeforeItsEnd(q)'
        BY <1>2, <2>5 DEF ReadRight
      <3>3. CASE b <= q
        BY <2>3, <3>1, <3>3 DEF ReadRight
      <3>4. CASE ~(b <= q)
        <4>1. ExcisedBefore(q)' = ExcisedBefore(q)
          BY <1>1, <2>3, <3>4 DEF b
        <4> QED BY <2>5, <3>1, <3>2, <4>1 DEF ReadRight, HalfRead
      <3> QED BY <3>3, <3>4
    <2>6. CASE ~InPause(q) /\ a # "place"
      <3>1. a \notin HalfRead
        BY <1>4, <2>6
      <3> QED BY <2>6, <3>1 DEF ReadRight, HalfRead
    <2> QED BY <2>4, <2>5, <2>6
  <1> QED BY <1>3, <1>4

(* The same of an item that has been placed.                               *)
LEMMA PlacedStays ==
  ASSUME StampTypes, SpansInOrder, ClockSteps, now' \in {now, now + 1}, NEW p \in Placings, IsExact(p)
  PROVE  IsExact(p)'
  <1>1. p.qpc \in Nat /\ p.timeline \in Int /\ now \in Nat
    BY StampsAreTyped DEF Placings
  <1>2. p.qpc < now /\ p.qpc < now'
    BY <1>1 DEF IsExact
  <1>3. CASE p.astray
    BY <1>2, <1>3 DEF IsExact
  <1>4. CASE ~p.astray
    <2>1. PICK q \in Nat, x \in Int : q = p.qpc /\ x = p.qpc - p.timeline
      BY <1>1
    <2>2. ReadRight("place", q, x)
      BY <1>4, <2>1 DEF IsExact
    <2>3. ReadRight("place", q, x)'
      BY <1>2, <2>1, <2>2, RightStays DEF HalfRead
    <2> QED BY <1>2, <2>1, <2>3 DEF IsExact
  <1> QED BY <1>3, <1>4

(* A stream whose encode thread does not move.                             *)
LEMMA StreamRests ==
  ASSUME StampTypes, SpansInOrder, ClockSteps, NEW s \in Streams, StreamIsExact(s), now' \in {now, now + 1},
         mapper'[s] = mapper[s], placed'[s] = placed[s], astray[s] => astray'[s],
         \A q \in Unplaced(s)' : q \in Unplaced(s) \/ (q = now /\ now' = now + 1),
         mapper[s].at \in HalfRead /\ ~astray'[s] /\ ~InPause(mapper[s].qpc) =>
            total' = total /\ lastPauseBegin' = lastPauseBegin /\ spans' = spans /\ (Storing' => Storing)
  PROVE  StreamIsExact(s)'
  <1>1. now \in Nat /\ Unplaced(s) \subseteq Nat /\ mapper[s].qpc \in Nat /\ mapper[s].excised \in Int
        /\ placed[s] \in Seq(Placings)
    BY StampsAreTyped, UnplacedAreStamps
  <1>2. \A q \in Unplaced(s)' : q < now'
    <2> SUFFICES ASSUME NEW q \in Unplaced(s)' PROVE q < now'
      OBVIOUS
    <2>1. CASE q \in Unplaced(s)
      <3>1. q \in Nat /\ q < now
        BY <1>1, <2>1 DEF StreamIsExact
      <3> QED BY <1>1, <3>1
    <2>2. CASE q = now /\ now' = now + 1
      BY <1>1, <2>2
    <2> QED BY <2>1, <2>2
  <1>3. ASSUME ~astray'[s] PROVE ReadRight(mapper[s].at, mapper[s].qpc, mapper[s].excised)'
    <2>0. PICK a : a = mapper[s].at
      OBVIOUS
    <2>1. PICK q \in Nat, x \in Int : a = mapper[s].at /\ q = mapper[s].qpc /\ x = mapper[s].excised
      BY <1>1, <2>0
    <2>2. ReadRight(a, q, x)
      BY <1>3, <2>1 DEF StreamIsExact
    <2>3. CASE a = "idle"
      BY <2>1, <2>3 DEF ReadRight, HalfRead
    <2>4. CASE a # "idle"
      <3>1. q \in Unplaced(s)
        BY <2>1, <2>4 DEF Unplaced
      <3>2. q < now
        BY <3>1 DEF StreamIsExact
      <3>3. ReadRight(a, q, x)'
        BY <1>3, <2>1, <2>2, <3>2, RightStays
      <3> QED BY <2>1, <3>3 DEF ReadRight, InPause, AfterAll, Recent, BeforeItsEnd, ExcisedBefore, PausedBefore
    <2> QED BY <2>3, <2>4
  <1>4. ASSUME NEW i \in DOMAIN placed'[s] PROVE IsExact(placed[s][i])'
    <2>1. placed[s][i] \in Placings /\ IsExact(placed[s][i]) /\ placed'[s][i] = placed[s][i]
      BY <1>1 DEF StreamIsExact
    <2>2. PICK p \in Placings : p = placed[s][i]
      BY <2>1
    <2>3. IsExact(p)'
      BY <2>1, <2>2, PlacedStays
    <2>4. placed'[s][i] = p
      BY <2>1, <2>2
    <2> QED BY <2>3, <2>4 DEF IsExact, ReadRight, InPause, AfterAll, Recent, BeforeItsEnd, ExcisedBefore, PausedBefore
  <1> QED BY <1>2, <1>3, <1>4 DEF StreamIsExact

(* While the command rests, what is known of the clock stays.              *)
LEMMA ClockRests ==
  ASSUME StampTypes, ClockTypes, GateFollows, SpansInOrder, ClockIsRight,
         now' \in {now, now + 1}, UNCHANGED <<gate, clock, command, spans>>
  PROVE  ClockTypes' /\ GateFollows' /\ SpansInOrder' /\ ClockIsRight'
  <1>1. now \in Nat /\ now' \in Nat /\ now <= now' /\ command.stamp \in Nat /\ pauseBegin \in Nat
    BY StampsAreTyped
  <1>2. UNCHANGED <<paused, pauseBegin, total, lastPauseBegin, lastSpan>>
    BY DEF clock
  <1>3. ClockTypes' /\ GateFollows'
    BY <1>2 DEF ClockTypes, GateFollows
  <1>4. OverBy(now)
    BY DEF SpansInOrder
  <1>5. OverBy(now)'
    BY <1>1, <1>4, SpansAreTyped DEF OverBy
  <1>6. SpansInOrder'
    <2>1. \A q : OverBy(q)' = OverBy(q)
      BY SpansRest
    <2>2. command'.stamp <= now' /\ (pauseBegin <= now => pauseBegin' <= now')
      BY <1>1, <1>2 DEF SpansInOrder
    <2>3. OverBy(command.stamp)' = OverBy(command.stamp) /\ OverBy(pauseBegin)' = OverBy(pauseBegin)
      BY <1>2 DEF OverBy
    <2> QED BY <1>2, <1>5, <2>2, <2>3 DEF SpansInOrder
  <1>7. ExcisedBefore(now)' = ExcisedBefore(now)
    <2>1. ExcisedBefore(now') = ExcisedBefore(now)
      BY <1>1, <1>4, NothingMoreIsCut DEF OverBy
    <2>2. ExcisedBefore(now)' = ExcisedBefore(now')
      BY DEF ExcisedBefore, PausedBefore, InPause
    <2> QED BY <2>1, <2>2
  <1>8. ClockIsRight'
    BY <1>2, <1>7 DEF ClockIsRight
  <1> QED BY <1>3, <1>6, <1>8

(* Every step of a command keeps the types, and leaves the streams alone.  *)
LEMMA CommandIsTyped ==
  ASSUME StampTypes, ClockTypes, Command
  PROVE  StampTypes' /\ ClockTypes' /\ UNCHANGED <<capture, queue, mapper, placed>> /\ command.at \in CommandPlaces
  <1>0. /\ command \in Commandings /\ command.at \in CommandPlaces /\ command.stamp \in Nat /\ now \in Nat
        /\ gate \in BOOLEAN /\ idrRequested \in BOOLEAN
        /\ total \in Int /\ lastSpan \in Int /\ pauseBegin \in Nat /\ spans \in Seq(Nat \X Nat)
    BY StampsAreTyped DEF Commandings
  <1>1. UNCHANGED <<capture, queue, mapper, placed>>
    BY DEF Command, ShutGate, PauseReadsClock, DrainEnds, PauseStoresBegin, PausePublishes, ResumeReadsClock,
       ResumeStoresSpan, ResumeStoresBegin, ResumeAddsSpan, ResumeClearsPaused, ResumeAsksForKeyframe, OpenGate,
       CommandOnly, Untouched, stages
  <1>6. astray' \in [Streams -> BOOLEAN]
    <2>1. astray \in [Streams -> BOOLEAN]
      BY StampsAreTyped
    <2>2. \A r \in Streams : (astray[r] \/ mapper[r].at \in HalfRead) \in BOOLEAN
      OBVIOUS
    <2>3. astray' = astray \/ astray' = [r \in Streams |-> astray[r] \/ mapper[r].at \in HalfRead]
      BY DEF Command, ShutGate, PauseReadsClock, DrainEnds, PauseStoresBegin, PausePublishes, ResumeReadsClock,
         ResumeStoresSpan, ResumeStoresBegin, ResumeAddsSpan, ResumeClearsPaused, ResumeAsksForKeyframe, OpenGate,
         CommandOnly
    <2> QED BY <2>1, <2>2, <2>3
  <1>2. command' \in Commandings
    <2>1. CASE \E from, to \in CommandPlaces : CommandAt(from, to)
      BY <1>0, <2>1, CommandMoves DEF CommandAt
    <2>2. CASE \E to \in CommandPlaces : command' = [at |-> to, stamp |-> now]
      BY <1>0, <2>2 DEF Commandings
    <2>3. {"idle", "readClock", "drain", "begin", "publish", "span", "lastBegin", "total", "clear", "askIdr",
           "openGate"} = CommandPlaces
      BY DEF CommandPlaces
    <2>4. CASE PauseReadsClock \/ ResumeReadsClock
      BY <2>2, <2>3, <2>4 DEF PauseReadsClock, ResumeReadsClock
    <2>5. CASE ShutGate \/ DrainEnds \/ PauseStoresBegin \/ PausePublishes \/ ResumeStoresSpan \/ ResumeStoresBegin
      BY <2>1, <2>3, <2>5 DEF ShutGate, DrainEnds, PauseStoresBegin, PausePublishes, ResumeStoresSpan, ResumeStoresBegin
    <2>6. CASE ResumeAddsSpan \/ ResumeClearsPaused \/ ResumeAsksForKeyframe \/ OpenGate
      BY <2>1, <2>3, <2>6 DEF ResumeAddsSpan, ResumeClearsPaused, ResumeAsksForKeyframe, OpenGate
    <2> QED BY <2>4, <2>5, <2>6 DEF Command
  <1>3. now' \in Nat /\ pauseBegin' \in Nat /\ lastPauseBegin' \in Nat /\ spans' \in Seq(Nat \X Nat)
    <2>1. now' \in {now, now + 1}
      BY DEF Command, ShutGate, PauseReadsClock, DrainEnds, PauseStoresBegin, PausePublishes, ResumeReadsClock,
         ResumeStoresSpan, ResumeStoresBegin, ResumeAddsSpan, ResumeClearsPaused, ResumeAsksForKeyframe, OpenGate, ReadClock
    <2>2. pauseBegin' \in {pauseBegin, command.stamp} /\ lastPauseBegin' \in {lastPauseBegin, pauseBegin}
      BY DEF Command, ShutGate, PauseReadsClock, DrainEnds, PauseStoresBegin, PausePublishes, ResumeReadsClock,
         ResumeStoresSpan, ResumeStoresBegin, ResumeAddsSpan, ResumeClearsPaused, ResumeAsksForKeyframe, OpenGate, clock
    <2>3. spans' = spans \/ spans' = Append(spans, <<pauseBegin, command.stamp>>)
      BY DEF Command, ShutGate, PauseReadsClock, DrainEnds, PauseStoresBegin, PausePublishes, ResumeReadsClock,
         ResumeStoresSpan, ResumeStoresBegin, ResumeAddsSpan, ResumeClearsPaused, ResumeAsksForKeyframe, OpenGate
    <2>4. spans' \in Seq(Nat \X Nat)
      <3>1. <<pauseBegin, command.stamp>> \in Nat \X Nat
        BY <1>0
      <3>2. \A p \in Nat \X Nat : Append(spans, p) \in Seq(Nat \X Nat)
        BY <1>0
      <3> QED BY <1>0, <2>3, <3>1, <3>2
    <2>5. now' \in Nat
      BY <1>0, <2>1
    <2>6. pauseBegin' \in Nat /\ lastPauseBegin' \in Nat
      BY <1>0, <2>2 DEF ClockTypes
    <2> QED BY <2>4, <2>5, <2>6
  <1>4. total' \in Int /\ lastSpan' \in Int
    <2>1. Duration \in Int
      BY <1>0 DEF Duration
    <2> QED BY <1>0, <2>1 DEF Command, ShutGate, PauseReadsClock, DrainEnds, PauseStoresBegin, PausePublishes, ResumeReadsClock,
         ResumeStoresSpan, ResumeStoresBegin, ResumeAddsSpan, AddSpan, ResumeClearsPaused, ResumeAsksForKeyframe, OpenGate, clock
  <1>5. gate' \in BOOLEAN /\ paused' \in BOOLEAN /\ idrRequested' \in BOOLEAN
    <2>1. /\ gate' = gate \/ gate' = TRUE \/ gate' = FALSE
          /\ paused' = paused \/ paused' = TRUE \/ paused' = FALSE
          /\ idrRequested' = idrRequested \/ idrRequested' = TRUE
      BY DEF Command, ShutGate, PauseReadsClock, DrainEnds, PauseStoresBegin, PausePublishes, ResumeReadsClock,
         ResumeStoresSpan, ResumeStoresBegin, ResumeAddsSpan, ResumeClearsPaused, ResumeAsksForKeyframe, RequestIdr,
         OpenGate, clock
    <2> QED BY <1>0, <2>1, Zenon DEF ClockTypes
  <1> QED BY <1>0, <1>1, <1>2, <1>3, <1>4, <1>5, <1>6 DEF StampTypes, ClockTypes

(* And so does what is known of the pauses, whatever the clock reads.      *)
LEMMA PausesRest ==
  ASSUME ClockInv, spans' = spans, now' \in {now, now + 1}
  PROVE  /\ OverBy(now)' /\ ExcisedBefore(now)' = ExcisedBefore(now) /\ total = ExcisedBefore(now)
         /\ now \in Nat /\ now' \in Nat /\ now <= now' /\ command.stamp \in Nat /\ pauseBegin \in Nat
         /\ OverBy(now) /\ command.stamp <= now
         /\ \A q : OverBy(q)' = OverBy(q)
  <1>0. StampTypes /\ SpansInOrder /\ ClockIsRight
    BY DEF ClockInv
  <1>1. now \in Nat /\ now' \in Nat /\ now <= now' /\ command.stamp \in Nat /\ pauseBegin \in Nat
    BY <1>0, StampsAreTyped
  <1>2. OverBy(now) /\ command.stamp <= now
    BY <1>0 DEF SpansInOrder
  <1>3. OverBy(now)'
    BY <1>0, <1>1, <1>2, SpansAreTyped DEF OverBy
  <1>4. ExcisedBefore(now)' = ExcisedBefore(now)
    <2>1. ExcisedBefore(now') = ExcisedBefore(now)
      BY <1>0, <1>1, <1>2, NothingMoreIsCut DEF OverBy
    <2>2. ExcisedBefore(now)' = ExcisedBefore(now')
      BY DEF ExcisedBefore, PausedBefore, InPause
    <2> QED BY <2>1, <2>2
  <1> QED BY <1>0, <1>1, <1>2, <1>3, <1>4, SpansRest DEF ClockIsRight

(* The steps of a command between the reading of the clock and the         *)
(* completion of a pause, and after it.                                    *)
LEMMA PlainCommandsKeepTheClock ==
  ASSUME ClockInv,
         \/ PauseReadsClock \/ DrainEnds \/ PauseStoresBegin \/ PausePublishes
         \/ ResumeStoresSpan \/ ResumeStoresBegin \/ ResumeClearsPaused \/ ResumeAsksForKeyframe \/ OpenGate
  PROVE  ClockInv'
  <1>0. /\ StampTypes /\ ClockTypes /\ GateFollows /\ SpansInOrder /\ ClockIsRight
        /\ command \in Commandings
    BY StampsAreTyped DEF ClockInv
  <1>1. StampTypes' /\ ClockTypes' /\ UNCHANGED <<capture, queue, mapper, placed>>
    BY <1>0, CommandIsTyped DEF Command
  <1>2. spans' = spans /\ total' = total /\ now' \in {now, now + 1}
    BY DEF PauseReadsClock, DrainEnds, PauseStoresBegin, PausePublishes, ResumeStoresSpan, ResumeStoresBegin,
       ResumeClearsPaused, ResumeAsksForKeyframe, OpenGate, ReadClock, clock
  <1>3. /\ OverBy(now)' /\ ExcisedBefore(now)' = ExcisedBefore(now) /\ total = ExcisedBefore(now)
        /\ now \in Nat /\ now' \in Nat /\ now <= now' /\ command.stamp \in Nat /\ pauseBegin \in Nat
        /\ OverBy(now) /\ command.stamp <= now
    BY <1>2, PausesRest
  <1>4. \A q : OverBy(q)' = OverBy(q)
    BY <1>2, PausesRest
  <1>5. ASSUME NEW from, NEW to, CommandAt(from, to)
        PROVE  command.at = from /\ command'.at = to /\ command'.stamp = command.stamp
    BY <1>0, <1>5 DEF CommandAt, Commandings
  <1>6. CASE PauseReadsClock
    <2>1. /\ command.at = "readClock" /\ command'.at = "drain" /\ command'.stamp = now /\ now' = now + 1
          /\ UNCHANGED <<gate, paused, pauseBegin, lastPauseBegin, lastSpan>>
      BY <1>6 DEF PauseReadsClock, ReadClock, clock
    <2>2. GateFollows'
      BY <1>0, <2>1 DEF GateFollows, Shutting, ClosingAt
    <2>3. SpansInOrder'
      <3>1. OverBy(command.stamp)'
        BY <1>3, <1>4, <2>1 DEF OverBy
      <3> QED BY <1>3, <2>1, <3>1 DEF SpansInOrder, ClosesTheSpan
    <2>4. ClockIsRight'
      BY <1>0, <1>2, <1>3, <2>1 DEF ClockIsRight
    <2> QED BY <1>1, <2>2, <2>3, <2>4 DEF ClockInv
  <1>7. CASE DrainEnds
    <2>1. /\ command.at = "drain" /\ command'.at = "begin" /\ command'.stamp = command.stamp /\ now' = now
          /\ UNCHANGED <<gate, paused, pauseBegin, lastPauseBegin, lastSpan>>
      BY <1>5, <1>7 DEF DrainEnds, clock
    <2>2. GateFollows'
      BY <1>0, <2>1 DEF GateFollows, Shutting, ClosingAt
    <2>3. SpansInOrder'
      <3>1. OverBy(command.stamp)' = OverBy(command.stamp)
        BY <1>2, <2>1 DEF OverBy
      <3> QED BY <1>0, <1>3, <2>1, <3>1 DEF SpansInOrder, ClosesTheSpan
    <2>4. ClockIsRight'
      BY <1>0, <1>2, <1>3, <2>1 DEF ClockIsRight
    <2> QED BY <1>1, <2>2, <2>3, <2>4 DEF ClockInv
  <1>8. CASE PauseStoresBegin
    <2>1. /\ command.at = "begin" /\ command'.at = "publish" /\ command'.stamp = command.stamp /\ now' = now
          /\ pauseBegin' = command.stamp /\ UNCHANGED <<gate, paused, lastPauseBegin, lastSpan>>
      BY <1>5, <1>8 DEF PauseStoresBegin
    <2>2. GateFollows'
      BY <1>0, <2>1 DEF GateFollows, Shutting, ClosingAt
    <2>3. SpansInOrder'
      <3>1. OverBy(pauseBegin)' = OverBy(command.stamp)
        BY <1>2, <2>1 DEF OverBy
      <3> QED BY <1>0, <1>3, <2>1, <3>1 DEF SpansInOrder, ClosesTheSpan
    <2>4. ClockIsRight'
      BY <1>0, <1>2, <1>3, <2>1 DEF ClockIsRight
    <2> QED BY <1>1, <2>2, <2>3, <2>4 DEF ClockInv
  <1>9. CASE PausePublishes
    <2>1. /\ command.at = "publish" /\ command'.at = "idle" /\ command'.stamp = command.stamp /\ now' = now
          /\ paused' = TRUE /\ UNCHANGED <<gate, pauseBegin, lastPauseBegin, lastSpan>>
      BY <1>5, <1>9 DEF PausePublishes
    <2>2. GateFollows'
      <3>1. gate = TRUE
        BY <1>0, <2>1 DEF GateFollows, Shutting, StampTypes
      <3> QED BY <2>1, <3>1 DEF GateFollows, Shutting, ClosingAt
    <2>3. SpansInOrder'
      <3>1. OverBy(pauseBegin)' = OverBy(pauseBegin)
        BY <1>2, <2>1 DEF OverBy
      <3> QED BY <1>0, <1>3, <2>1, <3>1 DEF SpansInOrder, ClosesTheSpan
    <2>4. ClockIsRight'
      BY <1>0, <1>2, <1>3, <2>1 DEF ClockIsRight
    <2> QED BY <1>1, <2>2, <2>3, <2>4 DEF ClockInv
  <1>10. CASE ResumeStoresSpan
    <2>1. /\ command.at = "span" /\ command'.at = "lastBegin" /\ command'.stamp = command.stamp /\ now' = now
          /\ lastSpan' = Duration /\ UNCHANGED <<gate, paused, pauseBegin, lastPauseBegin>>
      BY <1>5, <1>10 DEF ResumeStoresSpan
    <2>2. GateFollows'
      BY <1>0, <2>1 DEF GateFollows, Shutting, ClosingAt
    <2>3. SpansInOrder'
      <3>1. OverBy(pauseBegin)' = OverBy(pauseBegin)
        BY <1>2, <2>1 DEF OverBy
      <3> QED BY <1>0, <1>3, <2>1, <3>1 DEF SpansInOrder, ClosesTheSpan
    <2>4. ClockIsRight'
      <3>1. lastSpan' = command.stamp - pauseBegin
        BY <1>0, <1>3, <2>1 DEF Duration, SpansInOrder, ClosesTheSpan
      <3> QED BY <1>0, <1>2, <1>3, <2>1, <3>1 DEF ClockIsRight
    <2> QED BY <1>1, <2>2, <2>3, <2>4 DEF ClockInv
  <1>11. CASE ResumeStoresBegin
    <2>1. /\ command.at = "lastBegin" /\ command'.at = "total" /\ command'.stamp = command.stamp /\ now' = now
          /\ lastPauseBegin' = pauseBegin /\ UNCHANGED <<gate, paused, pauseBegin, lastSpan>>
      BY <1>5, <1>11 DEF ResumeStoresBegin
    <2>2. GateFollows'
      BY <1>0, <2>1 DEF GateFollows, Shutting, ClosingAt
    <2>3. SpansInOrder'
      <3>1. OverBy(pauseBegin)' = OverBy(pauseBegin)
        BY <1>2, <2>1 DEF OverBy
      <3> QED BY <1>0, <1>3, <2>1, <3>1 DEF SpansInOrder, ClosesTheSpan
    <2>4. ClockIsRight'
      BY <1>0, <1>2, <1>3, <2>1 DEF ClockIsRight
    <2> QED BY <1>1, <2>2, <2>3, <2>4 DEF ClockInv
  <1>12. CASE ResumeClearsPaused
    <2>1. /\ command.at = "clear" /\ command'.at = "askIdr" /\ command'.stamp = command.stamp /\ now' = now
          /\ paused' = FALSE /\ UNCHANGED <<gate, pauseBegin, lastPauseBegin, lastSpan>>
      BY <1>5, <1>12 DEF ResumeClearsPaused
    <2>2. GateFollows'
      BY <1>0, <2>1 DEF GateFollows, Shutting, ClosingAt
    <2>3. SpansInOrder'
      BY <1>3, <2>1 DEF SpansInOrder, ClosesTheSpan
    <2>4. ClockIsRight'
      BY <1>0, <1>2, <1>3, <2>1 DEF ClockIsRight
    <2> QED BY <1>1, <2>2, <2>3, <2>4 DEF ClockInv
  <1>13. CASE ResumeAsksForKeyframe
    <2>1. /\ command.at = "askIdr" /\ command'.at = "openGate" /\ command'.stamp = command.stamp /\ now' = now
          /\ UNCHANGED <<gate, paused, pauseBegin, lastPauseBegin, lastSpan>>
      BY <1>5, <1>13 DEF ResumeAsksForKeyframe, clock
    <2>2. GateFollows'
      BY <1>0, <2>1 DEF GateFollows, Shutting, ClosingAt
    <2>3. SpansInOrder'
      BY <1>3, <2>1 DEF SpansInOrder, ClosesTheSpan
    <2>4. ClockIsRight'
      BY <1>0, <1>2, <1>3, <2>1 DEF ClockIsRight
    <2> QED BY <1>1, <2>2, <2>3, <2>4 DEF ClockInv
  <1>14. CASE OpenGate
    <2>1. /\ command.at = "openGate" /\ command'.at = "idle" /\ command'.stamp = command.stamp /\ now' = now
          /\ gate' = FALSE /\ UNCHANGED <<paused, pauseBegin, lastPauseBegin, lastSpan>>
      BY <1>5, <1>14 DEF OpenGate, clock
    <2>2. GateFollows' /\ ~paused'
      <3>1. paused = FALSE
        BY <1>0, <2>1 DEF GateFollows, ClockTypes
      <3> QED BY <2>1, <3>1 DEF GateFollows, Shutting, ClosingAt
    <2>3. SpansInOrder'
      BY <1>3, <2>1, <2>2 DEF SpansInOrder, ClosesTheSpan
    <2>4. ClockIsRight'
      BY <1>0, <1>2, <1>3, <2>1 DEF ClockIsRight
    <2> QED BY <1>1, <2>2, <2>3, <2>4 DEF ClockInv
  <1> QED BY <1>6, <1>7, <1>8, <1>9, <1>10, <1>11, <1>12, <1>13, <1>14

(* The gate is shut.                                                       *)
LEMMA ShutGateKeepsTheClock ==
  ASSUME ClockInv, ShutGate
  PROVE  ClockInv'
  <1>0. /\ StampTypes /\ ClockTypes /\ GateFollows /\ SpansInOrder /\ ClockIsRight /\ command \in Commandings
    BY StampsAreTyped DEF ClockInv
  <1>1. StampTypes' /\ ClockTypes' /\ UNCHANGED <<capture, queue, mapper, placed>>
    BY <1>0, CommandIsTyped DEF Command
  <1>2. /\ command.at = "idle" /\ command'.at = "readClock" /\ command'.stamp = command.stamp /\ now' = now
        /\ ~gate /\ gate' = TRUE /\ spans' = spans
        /\ UNCHANGED <<paused, pauseBegin, total, lastPauseBegin, lastSpan>>
    BY <1>0 DEF ShutGate, CommandAt, Commandings, clock
  <1>3. /\ OverBy(now)' /\ ExcisedBefore(now)' = ExcisedBefore(now) /\ total = ExcisedBefore(now)
        /\ now \in Nat /\ command.stamp <= now
    BY <1>2, PausesRest
  <1>4. GateFollows'
    <2>1. paused = FALSE
      BY <1>0, <1>2 DEF GateFollows, ClockTypes
    <2> QED BY <1>2, <2>1 DEF GateFollows, Shutting, ClosingAt
  <1>5. SpansInOrder'
    BY <1>2, <1>3 DEF SpansInOrder, ClosesTheSpan
  <1>6. ClockIsRight'
    BY <1>0, <1>2, <1>3 DEF ClockIsRight
  <1> QED BY <1>1, <1>4, <1>5, <1>6 DEF ClockInv

(* Resume reads the clock.                                                 *)
LEMMA ResumeKeepsTheClock ==
  ASSUME ClockInv, ResumeReadsClock
  PROVE  ClockInv'
  <1>0. /\ StampTypes /\ ClockTypes /\ GateFollows /\ SpansInOrder /\ ClockIsRight /\ command \in Commandings
    BY StampsAreTyped DEF ClockInv
  <1>1. StampTypes' /\ ClockTypes' /\ UNCHANGED <<capture, queue, mapper, placed>>
    BY <1>0, CommandIsTyped DEF Command
  <1>2. /\ command.at = "idle" /\ command'.at = "span" /\ command'.stamp = now /\ now' = now + 1
        /\ gate /\ paused /\ spans' = spans
        /\ UNCHANGED <<gate, paused, pauseBegin, total, lastPauseBegin, lastSpan>>
    BY <1>0 DEF ResumeReadsClock, ReadClock, clock
  <1>3. /\ OverBy(now)' /\ ExcisedBefore(now)' = ExcisedBefore(now) /\ total = ExcisedBefore(now)
        /\ now \in Nat /\ pauseBegin \in Nat
    BY <1>2, PausesRest
  <1>4. GateFollows'
    BY <1>2 DEF GateFollows, Shutting, ClosingAt
  <1>5. SpansInOrder'
    <2>1. OverBy(pauseBegin)' /\ pauseBegin <= now
      BY <1>0, <1>2 DEF SpansInOrder, OverBy
    <2> QED BY <1>2, <1>3, <2>1 DEF SpansInOrder, ClosesTheSpan
  <1>6. ClockIsRight'
    BY <1>0, <1>2, <1>3 DEF ClockIsRight
  <1> QED BY <1>1, <1>4, <1>5, <1>6 DEF ClockInv

(* The pause is complete: the total grows by what it is long.              *)
LEMMA SpanIsAdded ==
  ASSUME ClockInv, ResumeAddsSpan
  PROVE  ClockInv'
  <1>0. /\ StampTypes /\ ClockTypes /\ GateFollows /\ SpansInOrder /\ ClockIsRight /\ command \in Commandings
    BY StampsAreTyped DEF ClockInv
  <1>1. StampTypes' /\ ClockTypes' /\ UNCHANGED <<capture, queue, mapper, placed>>
    BY <1>0, CommandIsTyped DEF Command
  <1> DEFINE b == pauseBegin
             e == command.stamp
             n == Len(spans)
  <1>2. /\ command.at = "total" /\ command'.at = "clear" /\ command'.stamp = e /\ now' = now
        /\ total' = total + Duration /\ spans' = Append(spans, <<b, e>>)
        /\ UNCHANGED <<gate, paused, pauseBegin, lastPauseBegin, lastSpan>>
    BY <1>0 DEF ResumeAddsSpan, AddSpan, CommandAt, Commandings
  <1>3. /\ b \in Nat /\ e \in Nat /\ now \in Nat /\ b <= e /\ e <= now /\ OverBy(b) /\ OverBy(now)
        /\ total = ExcisedBefore(now) /\ command.at \in ClosesTheSpan /\ command.at \in ClosingAt
    <2>1. command.at \in ClosesTheSpan /\ command.at \in ClosingAt
      BY <1>2 DEF ClosesTheSpan, ClosingAt
    <2> QED BY <1>0, <2>1, StampsAreTyped DEF SpansInOrder, ClockIsRight
  <1>4. /\ n \in Nat /\ DOMAIN spans = 1 .. n /\ DOMAIN spans' = 1 .. n + 1 /\ Len(spans') = n + 1
        /\ spans'[n + 1] = <<b, e>> /\ \A k \in 1 .. n : spans'[k] = spans[k]
    BY <1>0, <1>2, SpansAreTyped
  <1>5. /\ \A q \in Nat : InPause(q)' <=> InPause(q) \/ (b <= q /\ q < e)
        /\ \A q \in Nat : q <= b => ExcisedBefore(q)' = ExcisedBefore(q)
        /\ \A y \in Nat : e <= y => ExcisedBefore(y)' = ExcisedBefore(b) + (e - b)
    BY <1>0, <1>2, <1>3, OneMorePause
  <1>6. \A k \in DOMAIN spans : spans[k][1] \in Nat /\ spans[k][2] \in Nat /\ spans[k][1] <= spans[k][2] /\ spans[k][2] <= b
    BY <1>0, <1>3, SpansAreTyped DEF OverBy
  <1> HIDE DEF n
  <1>7. GateFollows'
    BY <1>0, <1>2 DEF GateFollows, Shutting, ClosingAt
  <1>8. SpansInOrder'
    <2>1. \A k \in 1 .. n + 1 : spans'[k][1] <= spans'[k][2] /\ spans'[k][2] <= e
      <3>1. ASSUME NEW k \in 1 .. n PROVE spans'[k][1] <= spans'[k][2] /\ spans'[k][2] <= e
        BY <1>3, <1>4, <1>6, <3>1
      <3>2. spans'[n + 1][1] = b /\ spans'[n + 1][2] = e
        BY <1>4
      <3>3. \A k \in 1 .. n + 1 : k \in 1 .. n \/ k = n + 1
        BY <1>4
      <3> QED BY <1>3, <3>1, <3>2, <3>3
    <2>2. OverBy(now)'
      <3>1. \A k \in 1 .. n + 1 : spans'[k][2] \in Nat
        <4>1. spans'[n + 1][2] \in Nat
          BY <1>3, <1>4
        <4>2. \A k \in 1 .. n : spans'[k][2] \in Nat
          BY <1>4, <1>6
        <4>3. \A k \in 1 .. n + 1 : k \in 1 .. n \/ k = n + 1
          BY <1>4
        <4> QED BY <4>1, <4>2, <4>3
      <3>2. \A k \in 1 .. n + 1 : spans'[k][2] <= now
        BY <1>3, <2>1, <3>1
      <3> QED BY <1>2, <1>4, <2>1, <3>2 DEF OverBy
    <2>3. spans' # <<>> /\ spans'[Len(spans')] = <<b, e>>
      BY <1>4
    <2> QED BY <1>2, <1>3, <2>2, <2>3 DEF SpansInOrder, ClosesTheSpan
  <1>9. ClockIsRight'
    <2>1. ExcisedBefore(now)' = ExcisedBefore(b) + (e - b)
      <3>1. PICK y \in Nat : y = now
        BY <1>3
      <3>2. ExcisedBefore(now)' = ExcisedBefore(y)'
        BY <1>2, <3>1 DEF ExcisedBefore, PausedBefore, InPause
      <3> QED BY <1>3, <1>5, <3>1, <3>2
    <2>2. ExcisedBefore(now) = ExcisedBefore(b) /\ ExcisedBefore(b) \in Nat
      BY <1>0, <1>3, NothingMoreIsCut, PausedIsCounted DEF OverBy
    <2>3. Duration = e - b
      BY <1>3 DEF Duration
    <2>4. total' = ExcisedBefore(now)'
      BY <1>2, <1>3, <2>1, <2>2, <2>3
    <2>5. lastPauseBegin' = b /\ lastSpan' = e - b
      BY <1>0, <1>2 DEF ClockIsRight
    <2>6. spans' # <<>> /\ spans'[Len(spans')][1] = b /\ spans'[Len(spans')][2] = e
      BY <1>4
    <2> QED BY <1>2, <2>4, <2>5, <2>6 DEF ClockIsRight
  <1> QED BY <1>1, <1>7, <1>8, <1>9 DEF ClockInv

(* What every step of a command is to the clock and to the pauses.         *)
LEMMA CommandsKeepTheClock ==
  ASSUME ClockInv, Command
  PROVE  /\ ClockInv' /\ ClockSteps /\ now' \in {now, now + 1} /\ UNCHANGED <<capture, queue, mapper, placed, thrown>>
         /\ \A s \in Streams : astray[s] => astray'[s]
  <1>0. StampTypes /\ command \in Commandings /\ astray \in [Streams -> BOOLEAN]
    BY StampsAreTyped DEF ClockInv
  <1>1. ClockInv'
    BY PlainCommandsKeepTheClock, ShutGateKeepsTheClock, ResumeKeepsTheClock, SpanIsAdded DEF Command
  <1>2. now' \in {now, now + 1} /\ UNCHANGED <<capture, queue, mapper, placed, thrown>>
    BY DEF Command, ShutGate, PauseReadsClock, DrainEnds, PauseStoresBegin, PausePublishes, ResumeReadsClock,
       ResumeStoresSpan, ResumeStoresBegin, ResumeAddsSpan, ResumeClearsPaused, ResumeAsksForKeyframe, OpenGate,
       CommandOnly, Untouched, stages, ReadClock
  <1>3. \A s \in Streams : astray[s] => astray'[s]
    <2>1. astray' = astray \/ astray' = [s \in Streams |-> astray[s] \/ mapper[s].at \in HalfRead]
      BY DEF Command, ShutGate, PauseReadsClock, DrainEnds, PauseStoresBegin, PausePublishes, ResumeReadsClock,
         ResumeStoresSpan, ResumeStoresBegin, ResumeAddsSpan, ResumeClearsPaused, ResumeAsksForKeyframe, OpenGate,
         CommandOnly
    <2> QED BY <2>1
  <1>4. ClockSteps
    <2>1. ASSUME NEW from, NEW to, CommandAt(from, to)
          PROVE  command.at = from /\ command'.at = to /\ command'.stamp = command.stamp
      BY <1>0, <2>1 DEF CommandAt, Commandings
    <2>2. CASE ResumeAddsSpan
      <3>1. command.at = "total" /\ command'.at = "clear"
        BY <2>1, <2>2 DEF ResumeAddsSpan
      <3>2. spans' = Append(spans, <<pauseBegin, command.stamp>>)
        BY <2>2 DEF ResumeAddsSpan
      <3> QED BY <3>1, <3>2 DEF ClockSteps
    <2>3. CASE PauseReadsClock \/ ResumeReadsClock
      BY <2>3 DEF PauseReadsClock, ResumeReadsClock, ClockSteps
    <2>4. CASE ResumeStoresSpan \/ ResumeStoresBegin
      BY <2>1, <2>4 DEF ResumeStoresSpan, ResumeStoresBegin, ClockSteps, ClosesTheSpan
    <2>5. CASE ShutGate \/ DrainEnds \/ PauseStoresBegin \/ PausePublishes
      BY <2>1, <2>5 DEF ShutGate, DrainEnds, PauseStoresBegin, PausePublishes, ClockSteps, ClosesTheSpan
    <2>6. CASE ResumeClearsPaused \/ ResumeAsksForKeyframe \/ OpenGate
      BY <2>1, <2>6 DEF ResumeClearsPaused, ResumeAsksForKeyframe, OpenGate, ClockSteps, ClosesTheSpan
    <2> QED BY <2>2, <2>3, <2>4, <2>5, <2>6 DEF Command
  <1> QED BY <1>1, <1>2, <1>3, <1>4

(* And to what is on its way: a resume meets no lookup half done, or says  *)
(* that it did.                                                            *)
LEMMA CommandIsExact ==
  ASSUME ExactInv, Command
  PROVE  ExactInv'
  <1>0. ClockInv /\ StampTypes /\ SpansInOrder /\ command \in Commandings /\ \A s \in Streams : StreamIsExact(s)
    BY StampsAreTyped DEF ExactInv, ClockInv
  <1>1. /\ ClockInv' /\ ClockSteps /\ now' \in {now, now + 1} /\ UNCHANGED <<capture, queue, mapper, placed>>
        /\ \A s \in Streams : astray[s] => astray'[s]
    BY <1>0, CommandsKeepTheClock
  <1>2. ASSUME NEW from, NEW to, CommandAt(from, to)
        PROVE  command.at = from /\ command'.at = to
    BY <1>0, <1>2 DEF CommandAt, Commandings
  <1>3. ASSUME NEW s \in Streams, mapper[s].at \in HalfRead, ~astray'[s], ~InPause(mapper[s].qpc)
        PROVE  total' = total /\ lastPauseBegin' = lastPauseBegin /\ spans' = spans /\ (Storing' => Storing)
    <2>1. ~Storing
      BY <1>0, <1>1, <1>3 DEF StreamIsExact, ReadRight
    <2>2. CASE ResumeStoresSpan
      <3>1. astray'[s]
        BY <1>3, <2>2 DEF ResumeStoresSpan
      <3> QED BY <1>3, <3>1
    <2>3. CASE ResumeStoresBegin \/ ResumeAddsSpan \/ ResumeClearsPaused
      <3>1. Storing
        BY <1>2, <2>3 DEF ResumeStoresBegin, ResumeAddsSpan, ResumeClearsPaused, Storing
      <3> QED BY <2>1, <3>1
    <2>4. CASE PauseReadsClock \/ ResumeReadsClock
      BY <2>4 DEF PauseReadsClock, ResumeReadsClock, Storing, clock
    <2>5. CASE ShutGate \/ DrainEnds \/ ResumeAsksForKeyframe \/ OpenGate
      BY <1>2, <2>5 DEF ShutGate, DrainEnds, ResumeAsksForKeyframe, OpenGate, Storing, clock
    <2>6. CASE PauseStoresBegin \/ PausePublishes
      BY <1>2, <2>6 DEF PauseStoresBegin, PausePublishes, Storing
    <2> QED BY <2>2, <2>3, <2>4, <2>5, <2>6 DEF Command
  <1>4. ASSUME NEW s \in Streams PROVE StreamIsExact(s)'
    <2>1. mapper'[s] = mapper[s] /\ placed'[s] = placed[s]
      BY <1>1
    <2>2. \A q \in Unplaced(s)' : q \in Unplaced(s)
      BY <1>1 DEF Unplaced
    <2> QED BY <1>0, <1>1, <1>3, <2>1, <2>2, StreamRests
  <1> QED BY <1>1, <1>4 DEF ExactInv

(* Capture brings what is younger than all there is, or drops it.          *)
LEMMA CaptureIsExact ==
  ASSUME ExactInv, NEW s \in Streams, Capture(s)
  PROVE  ExactInv'
  <1>0. /\ StampTypes /\ ClockTypes /\ GateFollows /\ SpansInOrder /\ ClockIsRight
        /\ \A r \in Streams : StreamIsExact(r)
    BY DEF ExactInv, ClockInv
  <1>1. UNCHANGED <<gate, clock, command, spans, mapper, placed, astray>> /\ now' \in {now, now + 1}
    BY DEF Capture, Acquire, ReadGate, Submit, ReadClock
  <1>2. StampTypes'
    BY <1>0, CaptureIsSeen
  <1>3. ClockInv'
    BY <1>0, <1>1, <1>2, ClockRests DEF ClockInv
  <1>4. ClockSteps
    BY <1>1 DEF ClockSteps
  <1>5. ASSUME NEW r \in Streams, NEW q \in Unplaced(r)' PROVE q \in Unplaced(r) \/ (q = now /\ now' = now + 1)
    <2>1. /\ capture \in [Streams -> Grabs] /\ queue \in [Streams -> Seq(Nat)] /\ capture[s] \in Grabs
          /\ queue[s] \in Seq(Nat) /\ mapper' = mapper
      BY <1>0, <1>1, StampsAreTyped
    <2>2. CASE r # s
      <3>1. capture'[r] = capture[r] /\ queue'[r] = queue[r]
        BY <2>1, <2>2 DEF Capture, Acquire, ReadGate, Submit
      <3> QED BY <2>1, <3>1 DEF Unplaced
    <2>3. CASE r = s /\ Acquire(s)
      <3>1. queue' = queue /\ capture'[s].qpc = now /\ now' = now + 1
        BY <2>1, <2>3 DEF Acquire, ReadClock
      <3> QED BY <2>1, <2>3, <3>1 DEF Unplaced
    <2>4. CASE r = s /\ ReadGate(s)
      <3>1. queue' = queue /\ capture'[s].qpc = capture[s].qpc /\ capture[s].at # "idle"
        BY <2>1, <2>4 DEF ReadGate, Grabs
      <3> QED BY <2>1, <2>4, <3>1 DEF Unplaced
    <2>5. CASE r = s /\ Submit(s)
      <3>1. /\ queue'[s] = Append(queue[s], capture[s].qpc) /\ capture'[s].at = "idle" /\ capture[s].at # "idle"
        BY <2>1, <2>5 DEF Submit, Grabs
      <3>2. \A i \in DOMAIN queue'[s] : (i \in DOMAIN queue[s] /\ queue'[s][i] = queue[s][i])
                                         \/ queue'[s][i] = capture[s].qpc
        <4>1. capture[s].qpc \in Nat
          BY <2>1 DEF Grabs
        <4> QED BY <2>1, <3>1, <4>1
      <3> QED BY <2>1, <2>5, <3>1, <3>2 DEF Unplaced
    <2> QED BY <2>2, <2>3, <2>4, <2>5 DEF Capture
  <1>6. ASSUME NEW r \in Streams PROVE StreamIsExact(r)'
    <2>1. UNCHANGED <<total, lastPauseBegin>> /\ (Storing' => Storing)
      BY <1>1 DEF clock, Storing
    <2>2. mapper'[r] = mapper[r] /\ placed'[r] = placed[r] /\ (astray[r] => astray'[r]) /\ StreamIsExact(r)
      BY <1>0, <1>1
    <2> QED BY <1>0, <1>1, <1>4, <1>5, <2>1, <2>2, StreamRests
  <1> QED BY <1>3, <1>6 DEF ExactInv

(* A stream whose encode thread has moved while the command rested.        *)
LEMMA EntryJudged ==
  ASSUME ClockInv, NEW s \in Streams, StreamIsExact(s), UNCHANGED <<now, clock, command, spans>>,
         Unplaced(s)' \subseteq Unplaced(s),
         NEW a, NEW q \in Nat, NEW x \in Int, mapper'[s].at = a, mapper'[s].qpc = q, mapper'[s].excised = x,
         astray'[s] \/ ReadRight(a, q, x),
         placed'[s] = placed[s] \/ \E item \in Placings : IsExact(item) /\ placed'[s] = Append(placed[s], item)
  PROVE  StreamIsExact(s)'
  <1>1. UNCHANGED <<now, total, lastPauseBegin, command, spans>>
    BY DEF clock
  <1>2. \A b, r, y : ReadRight(b, r, y)' = ReadRight(b, r, y)
    BY <1>1 DEF ReadRight, InPause, AfterAll, Recent, BeforeItsEnd, ExcisedBefore, PausedBefore, Storing
  <1>3. \A r \in Unplaced(s)' : r < now'
    BY <1>1 DEF StreamIsExact
  <1>4. astray'[s] \/ ReadRight(mapper[s].at, mapper[s].qpc, mapper[s].excised)'
    <2>1. ReadRight(mapper[s].at, mapper[s].qpc, mapper[s].excised)' = ReadRight(a, q, x)
      BY <1>1 DEF ReadRight, InPause, AfterAll, Recent, BeforeItsEnd, ExcisedBefore, PausedBefore, Storing
    <2> QED BY <2>1
  <1>5. ASSUME NEW i \in DOMAIN placed'[s] PROVE IsExact(placed[s][i])'
    <2>1. placed[s] \in Seq(Placings)
      BY UnplacedAreStamps DEF ClockInv
    <2>2. PICK item : item = placed'[s][i]
      OBVIOUS
    <2>3. IsExact(item)
      <3>1. CASE placed'[s] = placed[s]
        BY <2>2, <3>1 DEF StreamIsExact
      <3>2. CASE \E new \in Placings : IsExact(new) /\ placed'[s] = Append(placed[s], new)
        <4>1. PICK new \in Placings : IsExact(new) /\ placed'[s] = Append(placed[s], new)
          BY <3>2
        <4>2. item = new \/ (i \in DOMAIN placed[s] /\ item = placed[s][i])
          BY <2>1, <2>2, <4>1
        <4> QED BY <4>1, <4>2 DEF StreamIsExact
      <3> QED BY <3>1, <3>2
    <2>4. IsExact(placed[s][i])' <=> item.qpc < now' /\ (item.astray \/ ReadRight("place", item.qpc, item.qpc - item.timeline)')
      BY <2>2 DEF IsExact, ReadRight, InPause, AfterAll, Recent, BeforeItsEnd, ExcisedBefore, PausedBefore
    <2> QED BY <1>1, <1>2, <2>3, <2>4 DEF IsExact
  <1> QED BY <1>3, <1>4, <1>5 DEF StreamIsExact

(* What a lookup has decided by the flag and the last pause's begin.       *)
LEMMA FlagDecides ==
  ASSUME ClockInv, NEW q \in Nat, ~InPause(q), ~TwoPausesOld(q)
  PROVE  /\ paused => AfterAll(q)
         /\ ~paused => Recent(q) /\ BeforeItsEnd(q)
  <1>1. StampTypes /\ GateFollows
    BY DEF ClockInv
  <1>2. \A k \in DOMAIN spans : q < spans[k][1] \/ spans[k][2] <= q
    BY <1>1, SpansAreTyped DEF InPause
  <1>3. \A k \in DOMAIN spans : q < spans[k][1] => ~paused /\ k = Len(spans)
    BY <1>1, SpansAreTyped DEF TwoPausesOld
  <1>4. ~paused => BeforeItsEnd(q)
    BY <1>1 DEF GateFollows, ClosingAt, BeforeItsEnd, ClosesTheSpan
  <1> QED BY <1>2, <1>3, <1>4 DEF AfterAll, Recent

LEMMA BeginDecides ==
  ASSUME ClockInv, ~Storing, NEW q \in Nat, Recent(q), q >= lastPauseBegin
  PROVE  AfterAll(q)
  <1>1. StampTypes /\ ClockIsRight /\ ClockTypes
    BY DEF ClockInv
  <1>2. ASSUME NEW k \in DOMAIN spans PROVE spans[k][2] <= q
    <2>1. CASE k = Len(spans) /\ q < spans[k][1]
      <3>1. spans # <<>> /\ spans[k][1] \in Nat
        BY SpansAreTyped, <1>1
      <3>2. lastPauseBegin = spans[k][1]
        BY <1>1, <2>1, <3>1 DEF ClockIsRight, Storing
      <3> QED BY <2>1, <3>1, <3>2
    <2> QED BY <2>1 DEF Recent
  <1> QED BY <1>2 DEF AfterAll

(* An encode thread reads the clock right, load by load, or knows that it  *)
(* may not have.                                                           *)
LEMMA EncodeIsExact ==
  ASSUME ExactInv, NEW s \in Streams, Encode(s)
  PROVE  ExactInv'
  <1>0. /\ ClockInv /\ StampTypes /\ ClockTypes /\ GateFollows /\ SpansInOrder /\ ClockIsRight
        /\ \A r \in Streams : StreamIsExact(r)
    BY DEF ExactInv, ClockInv
  <1>1. UNCHANGED <<now, gate, clock, command, capture, spans>>
    BY DEF Encode, Pop, TakeKeyframeRequest, LoadTotal, LoadPaused, LoadBegin, LoadLastBegin, LoadLastSpan, Place,
       EncoderKeeps
  <1>2. StampTypes'
    BY <1>0, EncodeIsSeen
  <1>3. ClockInv'
    BY <1>0, <1>1, <1>2, ClockRests DEF ClockInv
  <1>4. ClockSteps
    BY <1>1 DEF ClockSteps
  <1>5. /\ mapper \in [Streams -> Maps] /\ queue \in [Streams -> Seq(Nat)] /\ placed \in [Streams -> Seq(Placings)]
        /\ astray \in [Streams -> BOOLEAN] /\ now \in Nat /\ total \in Int /\ lastSpan \in Int
        /\ mapper[s] \in Maps /\ queue[s] \in Seq(Nat) /\ mapper[s].qpc \in Nat /\ mapper[s].excised \in Int
        /\ placed[s] \in Seq(Placings) /\ astray[s] \in BOOLEAN /\ mapper[s].key \in BOOLEAN
        /\ pauseBegin \in Nat /\ command.stamp \in Nat
    BY <1>0, StampsAreTyped DEF Maps
  <1>6. ASSUME NEW r \in Streams, r # s PROVE StreamIsExact(r)'
    <2>1. mapper'[r] = mapper[r] /\ placed'[r] = placed[r] /\ queue'[r] = queue[r] /\ astray'[r] = astray[r]
      BY <1>5, <1>6 DEF Encode, Pop, TakeKeyframeRequest, LoadTotal, LoadPaused, LoadBegin, LoadLastBegin, LoadLastSpan,
         Place
    <2>2. Unplaced(r)' = Unplaced(r)
      BY <1>1, <2>1 DEF Unplaced
    <2>3. UNCHANGED <<total, lastPauseBegin>> /\ (Storing' => Storing)
      BY <1>1 DEF clock, Storing
    <2> QED BY <1>0, <1>1, <1>4, <2>1, <2>2, <2>3, StreamRests
  <1> DEFINE q == mapper[s].qpc
             x == mapper[s].excised
  <1>7. StreamIsExact(s)
    BY <1>0
  <1>8. mapper[s].at # "idle" => q < now
    BY <1>7 DEF StreamIsExact, Unplaced
  <1>9. ~astray[s] => ReadRight(mapper[s].at, q, x)
    BY <1>7 DEF StreamIsExact
  <1>10. ASSUME queue' = queue, mapper[s].at # "idle", mapper'[s].qpc = q PROVE Unplaced(s)' \subseteq Unplaced(s)
    BY <1>1, <1>10 DEF Unplaced
  <1> SUFFICES StreamIsExact(s)'
    BY <1>3, <1>6 DEF ExactInv
  <1>11. CASE Pop(s)
    <2>1. /\ queue[s] # <<>> /\ queue'[s] = Tail(queue[s]) /\ placed' = placed /\ astray' = astray
          /\ mapper'[s].at = "ladder" /\ mapper'[s].qpc = Head(queue[s]) /\ mapper'[s].excised = x
      BY <1>5, <1>11 DEF Pop, Maps
    <2>2. /\ Head(queue[s]) \in Nat /\ 1 \in DOMAIN queue[s] /\ Head(queue[s]) = queue[s][1]
          /\ \A i \in DOMAIN queue'[s] : i + 1 \in DOMAIN queue[s] /\ queue'[s][i] = queue[s][i + 1]
      BY <1>5, <2>1
    <2>3. Unplaced(s)' \subseteq Unplaced(s)
      BY <1>1, <2>1, <2>2 DEF Unplaced
    <2>4. ReadRight("ladder", Head(queue[s]), x)
      BY DEF ReadRight, HalfRead
    <2> QED BY <1>0, <1>1, <1>5, <1>7, <2>1, <2>2, <2>3, <2>4, EntryJudged
  <1>12. CASE TakeKeyframeRequest(s)
    <2>1. /\ queue' = queue /\ placed' = placed /\ mapper[s].at # "idle"
          /\ mapper'[s].at = "loadTotal" /\ mapper'[s].qpc = q /\ mapper'[s].excised = x
      BY <1>5, <1>12 DEF TakeKeyframeRequest, Maps
    <2>2. ReadRight("loadTotal", q, x)
      BY DEF ReadRight, HalfRead
    <2> QED BY <1>0, <1>1, <1>5, <1>7, <1>10, <2>1, <2>2, EntryJudged
  <1>13. CASE LoadTotal(s)
    <2>1. /\ queue' = queue /\ placed' = placed /\ mapper[s].at # "idle" /\ astray'[s] = Storing
          /\ mapper'[s].at = "loadPaused" /\ mapper'[s].qpc = q /\ mapper'[s].excised = total
      BY <1>5, <1>13 DEF LoadTotal, Maps
    <2>2. astray'[s] \/ ReadRight("loadPaused", q, total)
      BY <2>1 DEF ReadRight
    <2> QED BY <1>0, <1>1, <1>5, <1>7, <1>10, <2>1, <2>2, EntryJudged
  <1>14. CASE LoadPaused(s)
    <2> DEFINE a == IF paused THEN "loadBegin" ELSE "loadLastBegin"
    <2>1. /\ queue' = queue /\ placed' = placed /\ mapper[s].at = "loadPaused"
          /\ mapper'[s].at = a /\ mapper'[s].qpc = q /\ mapper'[s].excised = x
          /\ astray' = [astray EXCEPT ![s] = astray[s] \/ TwoPausesOld(q)]
      BY <1>5, <1>14 DEF LoadPaused, Maps
    <2>2. astray'[s] <=> astray[s] \/ TwoPausesOld(q)
      BY <1>5, <2>1
    <2>3. ASSUME ~astray[s], ~TwoPausesOld(q), ~InPause(q) PROVE ReadRight(a, q, x)
      <3>1. x = total /\ ~Storing
        BY <1>9, <2>1, <2>3 DEF ReadRight, HalfRead
      <3>2. (paused => AfterAll(q)) /\ (~paused => Recent(q) /\ BeforeItsEnd(q))
        BY <1>0, <1>5, <2>3, FlagDecides
      <3> QED BY <3>1, <3>2 DEF ReadRight
    <2>4. InPause(q) => ReadRight(a, q, x)
      BY DEF ReadRight
    <2>5. astray'[s] \/ ReadRight(a, q, x)
      BY <2>2, <2>3, <2>4
    <2>6. mapper[s].at # "idle"
      BY <2>1
    <2> HIDE DEF a
    <2> QED BY <1>0, <1>1, <1>5, <1>7, <1>10, <2>1, <2>5, <2>6, EntryJudged
  <1>15. CASE LoadBegin(s)
    <2> DEFINE a == IF InOpenSpan(q) THEN "idle" ELSE "place"
    <2>1. /\ queue' = queue /\ placed' = placed /\ mapper[s].at = "loadBegin"
          /\ mapper'[s].at = a /\ mapper'[s].qpc = q /\ mapper'[s].excised = x
          /\ astray' = [astray EXCEPT ![s] = astray[s] /\ ~InOpenSpan(q)]
      BY <1>5, <1>15 DEF LoadBegin, Maps
    <2>2. astray'[s] <=> astray[s] /\ ~InOpenSpan(q)
      BY <1>5, <2>1
    <2>3. ASSUME ~InOpenSpan(q), ~astray[s], ~InPause(q) PROVE ReadRight("place", q, x)
      <3>1. x = total /\ AfterAll(q) /\ q < pauseBegin /\ q < now
        BY <1>5, <1>8, <1>9, <2>1, <2>3 DEF ReadRight, HalfRead, InOpenSpan
      <3>2. x = ExcisedBefore(q)
        BY <1>0, <1>5, <3>1, TotalIsExact DEF AfterAll
      <3>3. BeforeItsEnd(q)
        BY <1>0, <1>5, <3>1 DEF SpansInOrder, BeforeItsEnd
      <3> QED BY <3>2, <3>3 DEF ReadRight, HalfRead
    <2>4. ReadRight("idle", q, x) /\ (InPause(q) => ReadRight("place", q, x))
      BY DEF ReadRight, HalfRead
    <2>5. astray'[s] \/ ReadRight(a, q, x)
      BY <2>2, <2>3, <2>4
    <2>6. mapper[s].at # "idle"
      BY <2>1
    <2> HIDE DEF a
    <2> QED BY <1>0, <1>1, <1>5, <1>7, <1>10, <2>1, <2>5, <2>6, EntryJudged
  <1>16. CASE LoadLastBegin(s)
    <2> DEFINE a == IF q < lastPauseBegin THEN "loadLastSpan" ELSE "place"
    <2>1. /\ queue' = queue /\ placed' = placed /\ mapper[s].at = "loadLastBegin" /\ astray' = astray
          /\ mapper'[s].at = a /\ mapper'[s].qpc = q /\ mapper'[s].excised = x
      BY <1>5, <1>16 DEF LoadLastBegin, Maps
    <2>2. ASSUME ~astray[s], ~InPause(q) PROVE ReadRight(a, q, x)
      <3>1. x = total /\ ~Storing /\ Recent(q) /\ BeforeItsEnd(q) /\ q < now
        BY <1>8, <1>9, <2>1, <2>2 DEF ReadRight, HalfRead
      <3>2. CASE q < lastPauseBegin
        BY <3>1, <3>2 DEF ReadRight
      <3>3. CASE ~(q < lastPauseBegin)
        <4>1. AfterAll(q)
          BY <1>0, <1>5, <3>1, <3>3, BeginDecides DEF ClockTypes
        <4>2. x = ExcisedBefore(q)
          BY <1>0, <1>5, <3>1, <4>1, TotalIsExact DEF AfterAll
        <4> QED BY <3>1, <3>3, <4>2 DEF ReadRight, HalfRead
      <3> QED BY <3>2, <3>3
    <2>3. InPause(q) => ReadRight(a, q, x)
      BY DEF ReadRight
    <2>4. astray'[s] \/ ReadRight(a, q, x)
      BY <2>1, <2>2, <2>3
    <2>5. mapper[s].at # "idle"
      BY <2>1
    <2> HIDE DEF a
    <2> QED BY <1>0, <1>1, <1>5, <1>7, <1>10, <2>1, <2>4, <2>5, EntryJudged
  <1>17. CASE LoadLastSpan(s)
    <2>1. /\ queue' = queue /\ placed' = placed /\ mapper[s].at = "loadLastSpan" /\ astray' = astray
          /\ mapper'[s].at = "place" /\ mapper'[s].qpc = q /\ mapper'[s].excised = x - lastSpan
      BY <1>5, <1>17 DEF LoadLastSpan, Maps
    <2>2. ASSUME ~astray[s], ~InPause(q) PROVE ReadRight("place", q, x - lastSpan)
      <3>1. x = total /\ ~Storing /\ Recent(q) /\ BeforeItsEnd(q) /\ q < now /\ q < lastPauseBegin
        BY <1>8, <1>9, <2>1, <2>2 DEF ReadRight, HalfRead
      <3>2. x - lastSpan = ExcisedBefore(q)
        BY <1>0, <1>5, <3>1, LessTheLatest
      <3> QED BY <3>1, <3>2 DEF ReadRight, HalfRead
    <2>3. InPause(q) => ReadRight("place", q, x - lastSpan)
      BY DEF ReadRight
    <2>4. x - lastSpan \in Int
      BY <1>5
    <2>5. astray'[s] \/ ReadRight("place", q, x - lastSpan)
      BY <2>1, <2>2, <2>3
    <2> QED BY <1>0, <1>1, <1>5, <1>7, <1>10, <2>1, <2>4, <2>5, EntryJudged
  <1>18. CASE Place(s)
    <2> DEFINE item == [qpc |-> q, timeline |-> Timeline(mapper[s]), key |-> mapper[s].key, astray |-> astray[s]]
    <2>1. /\ queue' = queue /\ mapper[s].at = "place" /\ placed'[s] = Append(placed[s], item)
          /\ mapper'[s].at = "idle" /\ mapper'[s].qpc = q /\ mapper'[s].excised = x
      BY <1>5, <1>18 DEF Place, Maps
    <2>2. Timeline(mapper[s]) \in Int
      BY <1>5 DEF Timeline
    <2>3. item \in Placings
      BY <1>5, <2>2 DEF Placings
    <2>4. ASSUME ~astray[s] PROVE ReadRight("place", q, q - Timeline(mapper[s]))
      <3>1. CASE InPause(q)
        BY <3>1 DEF ReadRight
      <3>2. CASE ~InPause(q)
        <4>1. x = ExcisedBefore(q) /\ BeforeItsEnd(q)
          BY <1>9, <2>1, <2>4, <3>2 DEF ReadRight
        <4>2. ExcisedBefore(q) \in Nat /\ ExcisedBefore(q) <= q
          BY <1>5, PausedIsCounted
        <4>3. q - Timeline(mapper[s]) = x
          BY <1>5, <4>1, <4>2 DEF Timeline
        <4> QED BY <4>1, <4>3 DEF ReadRight, HalfRead
      <3> QED BY <3>1, <3>2
    <2>5. item.qpc = q /\ item.timeline = Timeline(mapper[s]) /\ item.astray = astray[s]
      OBVIOUS
    <2>6. IsExact(item)
      <3> HIDE DEF item
      <3> QED BY <1>8, <2>1, <2>4, <2>5 DEF IsExact
    <2>7. ReadRight("idle", q, x)
      BY DEF ReadRight, HalfRead
    <2>8. mapper[s].at # "idle"
      BY <2>1
    <2> HIDE DEF item
    <2>9. \E new \in Placings : IsExact(new) /\ placed'[s] = Append(placed[s], new)
      BY <2>1, <2>3, <2>6
    <2> QED BY <1>0, <1>1, <1>5, <1>7, <1>10, <2>1, <2>7, <2>8, <2>9, EntryJudged
  <1> QED BY <1>11, <1>12, <1>13, <1>14, <1>15, <1>16, <1>17, <1>18 DEF Encode

(* At the start nothing is on its way and nothing was cut out.             *)
LEMMA ExactInitially == PauseInit => ExactInv
  <1> SUFFICES ASSUME PauseInit PROVE ExactInv
    OBVIOUS
  <1>1. StampTypes
    BY PauseStartsTyped
  <1>2. /\ command = [at |-> "idle", stamp |-> 0] /\ now = 1 /\ gate = FALSE /\ paused = FALSE /\ spans = <<>>
        /\ pauseBegin = 0 /\ lastPauseBegin = 0 /\ total = 0
    BY DEF PauseInit
  <1>3. command.at = "idle" /\ command.stamp = 0
    BY <1>2
  <1>4. ClockTypes
    <2>1. paused \in BOOLEAN
      BY <1>2, Zenon
    <2>2. lastPauseBegin \in Nat
      BY <1>2
    <2> QED BY <2>1, <2>2 DEF ClockTypes
  <1>5. GateFollows
    BY <1>2, <1>3 DEF GateFollows, Shutting, ClosingAt
  <1>6. DOMAIN spans = {}
    BY <1>2
  <1>7. OverBy(now)
    BY <1>6 DEF OverBy
  <1>8. SpansInOrder
    BY <1>2, <1>3, <1>7 DEF SpansInOrder, ClosesTheSpan
  <1>9. ClockIsRight
    <2>1. PausedBefore(now) = {}
      BY <1>6 DEF PausedBefore, InPause
    <2>2. ExcisedBefore(now) = 0
      BY <2>1, FS_EmptySet DEF ExcisedBefore
    <2> QED BY <1>2, <1>3, <2>2 DEF ClockIsRight
  <1>10. ASSUME NEW s \in Streams PROVE StreamIsExact(s)
    <2>1. capture[s].at = "idle" /\ queue[s] = <<>> /\ mapper[s].at = "idle" /\ placed[s] = <<>>
      BY DEF PauseInit
    <2>2. Unplaced(s) = {} /\ DOMAIN placed[s] = {}
      BY <2>1 DEF Unplaced
    <2>3. ReadRight(mapper[s].at, mapper[s].qpc, mapper[s].excised)
      BY <2>1 DEF ReadRight, HalfRead
    <2> QED BY <2>2, <2>3 DEF StreamIsExact
  <1> QED BY <1>1, <1>4, <1>5, <1>8, <1>9, <1>10 DEF ExactInv, ClockInv

(* However the threads' loads and stores interleave, what is placed is     *)
(* exact unless it is known that it may not be.                            *)
LEMMA ExactInvariance == PauseSpec => []ExactInv
  <1>1. ExactInv /\ [PauseNext]_pauseVars => ExactInv'
    <2> SUFFICES ASSUME ExactInv, [PauseNext]_pauseVars PROVE ExactInv'
      OBVIOUS
    <2>1. CASE Command
      BY <2>1, CommandIsExact
    <2>2. ASSUME NEW s \in Streams, Capture(s) PROVE ExactInv'
      BY <2>2, CaptureIsExact
    <2>3. ASSUME NEW s \in Streams, Encode(s) PROVE ExactInv'
      BY <2>3, EncodeIsExact
    <2>4. CASE UNCHANGED pauseVars
      <3>1. UNCHANGED <<now, gate, clock, command, spans, idrRequested, capture, queue, mapper, placed, astray>>
        BY <2>4 DEF pauseVars, stages
      <3>2. StampTypes /\ ClockTypes /\ GateFollows /\ SpansInOrder /\ ClockIsRight /\ \A s \in Streams : StreamIsExact(s)
        BY DEF ExactInv, ClockInv
      <3>3. StampTypes'
        BY <3>1, <3>2 DEF StampTypes, clock
      <3>4. ClockTypes' /\ GateFollows' /\ SpansInOrder' /\ ClockIsRight'
        BY <3>1, <3>2, ClockRests
      <3>5. ASSUME NEW s \in Streams PROVE StreamIsExact(s)'
        <4>1. Unplaced(s)' = Unplaced(s)
          BY <3>1 DEF Unplaced
        <4>2. ClockSteps /\ UNCHANGED <<total, lastPauseBegin>> /\ (Storing' => Storing)
          BY <3>1 DEF ClockSteps, clock, Storing
        <4> QED BY <3>1, <3>2, <4>1, <4>2, StreamRests
      <3> QED BY <3>3, <3>4, <3>5 DEF ExactInv, ClockInv
    <2> QED BY <2>1, <2>2, <2>3, <2>4 DEF PauseNext
  <1> QED BY ExactInitially, <1>1, PTL DEF PauseSpec

(* ExactUnlessAstray, the first half of PlacedExactly: whatever is placed  *)
(* lands at its own time less what was paused before it, however many      *)
(* pauses there have been and whatever overtook them, unless a resume met  *)
(* its lookup between the first load and the last, or two pauses had       *)
(* followed it by then (pause_clock.h, PauseClock::locate and resume).     *)
(* Nothing is assumed of when items come.                                  *)
THEOREM PausesAreCutExactly == PauseSpec => []ExactUnlessAstray
  <1>1. ExactInv => ExactUnlessAstray
    <2> SUFFICES ASSUME ExactInv, NEW s \in Streams, NEW i \in DOMAIN placed[s],
                        ~InPause(placed[s][i].qpc), ~placed[s][i].astray
                 PROVE  Exact(placed[s][i])
      BY DEF ExactUnlessAstray, Items
    <2>1. IsExact(placed[s][i]) /\ StampTypes
      BY DEF ExactInv, ClockInv, StreamIsExact
    <2>2. placed[s][i].qpc \in Nat /\ placed[s][i].timeline \in Int
      BY <2>1, UnplacedAreStamps
    <2>3. placed[s][i].qpc - placed[s][i].timeline = ExcisedBefore(placed[s][i].qpc)
      BY <2>1 DEF IsExact, ReadRight
    <2> QED BY <2>2, <2>3 DEF Exact
  <1> QED BY ExactInvariance, <1>1, PTL

(* Between a span's end and the clearing of the flag, what was judged by   *)
(* the span lies in it.                                                    *)
LEMMA JudgedLieInPause ==
  ASSUME ClockInv, command.at = "clear", NEW q \in Nat, pauseBegin <= q, q < command.stamp
  PROVE  InPause(q)
  <1>1. StampTypes /\ spans # <<>> /\ spans[Len(spans)] = <<pauseBegin, command.stamp>>
    BY DEF ClockInv, SpansInOrder
  <1>2. Len(spans) \in DOMAIN spans
    BY <1>1, SpansAreTyped
  <1>3. spans[Len(spans)][1] = pauseBegin /\ spans[Len(spans)][2] = command.stamp
    BY <1>1
  <1> QED BY <1>2, <1>3 DEF InPause

(* What was thrown away, and that a picture is compared with the begin of  *)
(* a pause only while it lasts.                                            *)
ThrownInv ==
    /\ thrown \subseteq Nat /\ \A q \in thrown : q < now
    /\ Mapping.at = "loadBegin" => paused
    /\ NoFrameIsLostAtTheSeam

(* A command makes nothing of what was thrown away untrue.                 *)
LEMMA CommandsThrowNothing ==
  ASSUME ClockInv, PauseInv, ThrownInv, Command
  PROVE  ThrownInv'
  <1>0. StampTypes /\ ClockTypes /\ GateFollows /\ SpansInOrder /\ GateHolds
    BY DEF ClockInv, PauseInv
  <1>1. UNCHANGED <<mapper, thrown>> /\ now' \in {now, now + 1}
    BY DEF Command, ShutGate, PauseReadsClock, DrainEnds, PauseStoresBegin, PausePublishes, ResumeReadsClock,
       ResumeStoresSpan, ResumeStoresBegin, ResumeAddsSpan, ResumeClearsPaused, ResumeAsksForKeyframe, OpenGate,
       CommandOnly, Untouched, stages, ReadClock
  <1>2. now \in Nat /\ command.stamp \in Nat /\ pauseBegin \in Nat /\ command \in Commandings
    BY <1>0, StampsAreTyped
  <1>3. thrown' \subseteq Nat /\ \A q \in thrown' : q < now'
    BY <1>1, <1>2 DEF ThrownInv
  <1>4. ASSUME NEW from, NEW to, CommandAt(from, to)
        PROVE  command.at = from /\ command'.at = to /\ command'.stamp = command.stamp
    BY <1>2, <1>4 DEF CommandAt, Commandings
  <1>5. ASSUME NEW q \in Nat, InPause(q) PROVE InPause(q)'
    <2>1. CASE spans' = spans
      BY <1>5, <2>1 DEF InPause
    <2>2. CASE ResumeAddsSpan
      <3>1. spans' = Append(spans, <<pauseBegin, command.stamp>>)
        BY <2>2 DEF ResumeAddsSpan
      <3>2. \A k \in DOMAIN spans : k \in DOMAIN spans' /\ spans'[k] = spans[k]
        BY <1>0, <3>1, SpansAreTyped
      <3> QED BY <1>5, <3>2 DEF InPause
    <2> QED BY <2>1, <2>2 DEF Command, ShutGate, PauseReadsClock, DrainEnds, PauseStoresBegin, PausePublishes,
         ResumeReadsClock, ResumeStoresSpan, ResumeStoresBegin, ResumeClearsPaused, ResumeAsksForKeyframe, OpenGate
  <1>6. CASE ResumeClearsPaused
    <2>1. command.at = "clear"
      BY <1>4, <1>6 DEF ResumeClearsPaused
    <2>2. ASSUME NEW q \in thrown PROVE InPause(q)
      <3>1. q \in Nat /\ (InPause(q) \/ (pauseBegin <= q /\ q < command.stamp))
        BY <2>1 DEF ThrownInv, NoFrameIsLostAtTheSeam, Closing, Storing
      <3> QED BY <2>1, <3>1, JudgedLieInPause
    <2>4. \A q \in thrown : InPause(q)'
      BY <1>5, <2>2 DEF ThrownInv
    <2>5. Mapping'.at # "loadBegin"
      BY <1>0, <1>1, <2>1 DEF GateHolds, Resumes, Mapping
    <2>6. NoFrameIsLostAtTheSeam'
      BY <1>1, <2>4 DEF NoFrameIsLostAtTheSeam
    <2> QED BY <1>3, <2>5, <2>6 DEF ThrownInv
  <1>7. CASE ~ResumeClearsPaused
    <2>1. paused => paused'
      BY <1>0, <1>7 DEF ClockTypes, Command, ShutGate, PauseReadsClock, DrainEnds, PauseStoresBegin, PausePublishes,
         ResumeReadsClock, ResumeStoresSpan, ResumeStoresBegin, ResumeAddsSpan, ResumeAsksForKeyframe, OpenGate, clock
    <2>2. paused => pauseBegin' = pauseBegin
      <3>1. CASE PauseStoresBegin
        BY <1>0, <1>4, <3>1 DEF PauseStoresBegin, GateFollows, Shutting
      <3> QED BY <1>7, <3>1 DEF Command, ShutGate, PauseReadsClock, DrainEnds, PausePublishes,
         ResumeReadsClock, ResumeStoresSpan, ResumeStoresBegin, ResumeAddsSpan, ResumeAsksForKeyframe, OpenGate, clock
    <2>3. paused /\ Closing' => (Closing /\ command'.stamp = command.stamp) \/ command'.stamp = now
      <3>1. CASE ResumeReadsClock
        BY <3>1 DEF ResumeReadsClock
      <3>2. CASE ResumeStoresSpan \/ ResumeStoresBegin \/ ResumeAddsSpan
        BY <1>4, <3>2 DEF ResumeStoresSpan, ResumeStoresBegin, ResumeAddsSpan, Closing, Storing
      <3>3. CASE ShutGate \/ DrainEnds \/ PauseStoresBegin \/ PausePublishes \/ ResumeAsksForKeyframe \/ OpenGate
        BY <1>4, <3>3 DEF ShutGate, DrainEnds, PauseStoresBegin, PausePublishes, ResumeAsksForKeyframe, OpenGate, Closing, Storing
      <3>4. CASE PauseReadsClock
        BY <3>4 DEF PauseReadsClock, Closing, Storing
      <3> QED BY <1>7, <3>1, <3>2, <3>3, <3>4 DEF Command
    <2>4. ASSUME NEW q \in thrown
          PROVE  InPause(q)' \/ (paused' /\ pauseBegin' <= q /\ (Closing' => q < command'.stamp))
      <3>1. q \in Nat /\ q < now
        BY DEF ThrownInv
      <3>2. InPause(q) \/ (paused /\ pauseBegin <= q /\ (Closing => q < command.stamp))
        BY DEF ThrownInv, NoFrameIsLostAtTheSeam
      <3> QED BY <1>5, <2>1, <2>2, <2>3, <3>1, <3>2
    <2>5. NoFrameIsLostAtTheSeam'
      BY <1>1, <2>4 DEF NoFrameIsLostAtTheSeam
    <2>6. Mapping'.at = "loadBegin" => paused'
      BY <1>1, <2>1 DEF ThrownInv, Mapping
    <2> QED BY <1>3, <2>5, <2>6 DEF ThrownInv
  <1> QED BY <1>6, <1>7

(* And an encode thread throws away what was stamped in the open pause.    *)
LEMMA EncodeThrowsThePaused ==
  ASSUME ClockInv, PauseInv, ThrownInv, NEW s \in Streams, Encode(s)
  PROVE  ThrownInv'
  <1>0. StampTypes /\ GateHolds /\ StampsArePast
    BY DEF PauseInv
  <1>1. UNCHANGED <<now, gate, clock, command, spans>>
    BY DEF Encode, Pop, TakeKeyframeRequest, LoadTotal, LoadPaused, LoadBegin, LoadLastBegin, LoadLastSpan, Place,
       EncoderKeeps
  <1>2. UNCHANGED <<paused, pauseBegin>>
    BY <1>1 DEF clock
  <1>3. /\ mapper \in [Streams -> Maps] /\ mapper[s] \in Maps /\ mapper[s].qpc \in Nat
        /\ now \in Nat /\ pauseBegin \in Nat /\ command.stamp \in Nat
    BY <1>0, StampsAreTyped, UnplacedAreStamps
  <1>4. \A q : InPause(q)' = InPause(q)
    BY <1>1 DEF InPause
  <1>5. s # "video" => mapper'["video"] = mapper["video"]
    BY <1>3, VideoIsAStream DEF Encode, Pop, TakeKeyframeRequest, LoadTotal, LoadPaused, LoadBegin, LoadLastBegin, LoadLastSpan, Place
  <1>6. mapper'[s].at = "loadBegin" => paused
    BY <1>3 DEF Encode, Pop, TakeKeyframeRequest, LoadTotal, LoadPaused, LoadBegin, LoadLastBegin, LoadLastSpan, Place, Maps
  <1>7. Mapping'.at = "loadBegin" => paused'
    BY <1>2, <1>5, <1>6 DEF ThrownInv, Mapping
  <1>8. ASSUME NEW q \in thrown'
        PROVE  q \in Nat /\ q < now /\ (InPause(q) \/ (paused /\ pauseBegin <= q /\ (Closing => q < command.stamp)))
    <2>1. CASE q \in thrown
      BY <2>1 DEF ThrownInv, NoFrameIsLostAtTheSeam
    <2>2. CASE q \notin thrown
      <3>1. s = "video" /\ LoadBegin(s) /\ q = mapper[s].qpc /\ InOpenSpan(q)
        BY <2>2 DEF Encode, Pop, TakeKeyframeRequest, LoadTotal, LoadPaused, LoadBegin, LoadLastBegin, LoadLastSpan, Place
      <3>2. Mapping.at = "loadBegin" /\ q = Mapping.qpc /\ q >= pauseBegin
        BY <3>1 DEF LoadBegin, InOpenSpan, Mapping
      <3>3. q < now /\ paused
        BY <1>0, <3>2 DEF StampsArePast, ThrownInv
      <3>4. ~Closing
        BY <1>0, <3>2 DEF GateHolds, Resumes, Closing, Storing
      <3> QED BY <1>3, <3>1, <3>2, <3>3, <3>4
    <2> QED BY <2>1, <2>2
  <1>9. NoFrameIsLostAtTheSeam'
    BY <1>1, <1>2, <1>4, <1>8 DEF NoFrameIsLostAtTheSeam, Closing, Storing
  <1> QED BY <1>1, <1>7, <1>8, <1>9 DEF ThrownInv

(* NoFrameIsLostAtTheSeam: a frame the encode thread discards was captured *)
(* during a pause, never after the resume that ended it (pause_clock.h,    *)
(* PauseClock::locate). That no frame is still on its way when a pause     *)
(* ends is assumed of video, as above; of audio nothing is.                *)
THEOREM OnlyThePausedIsThrown ==
  ASSUME "video" \notin LateStreams
  PROVE  PauseSpec => []NoFrameIsLostAtTheSeam
  <1>1. PauseInit => ThrownInv
    BY VideoIsAStream DEF PauseInit, ThrownInv, NoFrameIsLostAtTheSeam, Mapping
  <1>2. ExactInv /\ PauseInv /\ ThrownInv /\ [PauseNext]_pauseVars => ThrownInv'
    <2> SUFFICES ASSUME ClockInv, PauseInv, ThrownInv, [PauseNext]_pauseVars PROVE ThrownInv'
      BY DEF ExactInv
    <2>1. CASE Command
      BY <2>1, CommandsThrowNothing
    <2>2. ASSUME UNCHANGED <<mapper, thrown, paused, pauseBegin, command, spans>>, now' \in {now, now + 1} PROVE ThrownInv'
      <3>1. now \in Nat
        BY StampsAreTyped DEF ClockInv
      <3>2. \A q \in thrown : q \in Nat /\ q < now'
        BY <2>2, <3>1 DEF ThrownInv
      <3>3. NoFrameIsLostAtTheSeam'
        BY <2>2 DEF ThrownInv, NoFrameIsLostAtTheSeam, InPause, Closing, Storing
      <3>4. Mapping'.at = "loadBegin" => paused'
        BY <2>2 DEF ThrownInv, Mapping
      <3> QED BY <2>2, <3>2, <3>3, <3>4 DEF ThrownInv
    <2>3. ASSUME NEW s \in Streams, Capture(s) PROVE ThrownInv'
      <3>1. UNCHANGED <<mapper, thrown, paused, pauseBegin, command, spans>> /\ now' \in {now, now + 1}
        BY <2>3 DEF Capture, Acquire, ReadGate, Submit, ReadClock, clock
      <3> QED BY <2>2, <3>1
    <2>4. ASSUME NEW s \in Streams, Encode(s) PROVE ThrownInv'
      BY <2>4, EncodeThrowsThePaused
    <2>5. CASE UNCHANGED pauseVars
      BY <2>2, <2>5 DEF pauseVars, stages, clock
    <2> QED BY <2>1, <2>3, <2>4, <2>5 DEF PauseNext
  <1>3. ThrownInv => NoFrameIsLostAtTheSeam
    BY DEF ThrownInv
  <1> QED BY ExactInvariance, PauseInvariance, <1>1, <1>2, <1>3, PTL DEF PauseSpec


------------------------------------------------------------------------------
(* The unfinished recordings the window works through                      *)

DisplayShape ==
    \E shown, misled : \E recovering \in Int, outcomes \in Nat :
        display = [shown |-> shown, recovering |-> recovering, outcomes |-> outcomes, misled |-> misled]

NotLeaving == [as |-> "no", at |-> "no"]
Leavings   == [as : {"restart", "exit"}, at : {"stopping", "asks", "closes", "reaps", "gone"}]

RecoveryQueued == \E i \in DOMAIN commands : commands[i] = "recover"

(* A restart begins with no recovery queued, and none is queued during it. *)
RecoveryInv ==
    /\ DisplayShape /\ DOMAIN calls = Threads /\ commands \in Seq({"stop", "recover"})
    /\ leaving = NotLeaving \/ leaving \in Leavings
    /\ leaving.as = "restart" => ~RecoveryQueued
    /\ NoRecoveryIsForgotten

(* What a step that replaces part of the display leaves of the rest.       *)
LEMMA DisplayMoves ==
  ASSUME DisplayShape
  PROVE  /\ display.recovering \in Int /\ display.outcomes \in Nat
         /\ display' = display => DisplayShape'
         /\ \A state, m : display' = [display EXCEPT !.shown = state, !.misled = m] =>
              DisplayShape' /\ display'.recovering = display.recovering /\ display'.outcomes = display.outcomes
         /\ \A state :
              (\/ display' = [display EXCEPT !.shown = state, !.misled = FALSE, !.outcomes = @ + 1]
               \/ display' = [display EXCEPT !.outcomes = @ + 1]) =>
              /\ DisplayShape' /\ display'.recovering = display.recovering
              /\ display'.outcomes = display.outcomes + 1
         /\ \A r \in Int : display' = [display EXCEPT !.recovering = r] =>
              DisplayShape' /\ display'.recovering = r /\ display'.outcomes = display.outcomes
         /\ \A r \in Int : \A state :
              display.outcomes > 0 /\ display' = [display EXCEPT !.outcomes = @ - 1, !.recovering = r, !.shown = state]
                => DisplayShape' /\ display'.recovering = r
  <1>0. PICK shown, misled : \E recovering \in Int, outcomes \in Nat :
          display = [shown |-> shown, recovering |-> recovering, outcomes |-> outcomes, misled |-> misled]
    BY DEF DisplayShape
  <1>1. PICK recovering \in Int, outcomes \in Nat :
          display = [shown |-> shown, recovering |-> recovering, outcomes |-> outcomes, misled |-> misled]
    BY <1>0
  <1>2. display.recovering = recovering /\ display.outcomes = outcomes
    BY <1>1
  <1>3. ASSUME NEW s, NEW m, NEW r \in Int, NEW o \in Nat,
               display' = [shown |-> s, recovering |-> r, outcomes |-> o, misled |-> m]
        PROVE  DisplayShape' /\ display'.recovering = r /\ display'.outcomes = o
    BY <1>3 DEF DisplayShape
  <1>4. display' = display => DisplayShape'
    BY <1>1, <1>3
  <1>5. ASSUME NEW state, NEW m, display' = [display EXCEPT !.shown = state, !.misled = m]
        PROVE  DisplayShape' /\ display'.recovering = display.recovering /\ display'.outcomes = display.outcomes
    <2>1. display' = [shown |-> state, recovering |-> recovering, outcomes |-> outcomes, misled |-> m]
      BY <1>1, <1>5
    <2> QED BY <1>2, <1>3, <2>1
  <1>6. ASSUME NEW state,
               \/ display' = [display EXCEPT !.shown = state, !.misled = FALSE, !.outcomes = @ + 1]
               \/ display' = [display EXCEPT !.outcomes = @ + 1]
        PROVE  /\ DisplayShape' /\ display'.recovering = display.recovering
               /\ display'.outcomes = display.outcomes + 1
    <2>1. \/ display' = [shown |-> state, recovering |-> recovering, outcomes |-> outcomes + 1, misled |-> FALSE]
          \/ display' = [shown |-> shown, recovering |-> recovering, outcomes |-> outcomes + 1, misled |-> misled]
      BY <1>1, <1>6
    <2> QED BY <1>2, <1>3, <2>1
  <1>7. ASSUME NEW r \in Int, display' = [display EXCEPT !.recovering = r]
        PROVE  DisplayShape' /\ display'.recovering = r /\ display'.outcomes = display.outcomes
    <2>1. display' = [shown |-> shown, recovering |-> r, outcomes |-> outcomes, misled |-> misled]
      BY <1>1, <1>7
    <2> QED BY <1>2, <1>3, <2>1
  <1>8. ASSUME NEW r \in Int, NEW state, display.outcomes > 0,
               display' = [display EXCEPT !.outcomes = @ - 1, !.recovering = r, !.shown = state]
        PROVE  DisplayShape' /\ display'.recovering = r
    <2>1. display' = [shown |-> state, recovering |-> r, outcomes |-> outcomes - 1, misled |-> misled]
      BY <1>1, <1>8
    <2>2. outcomes - 1 \in Nat
      BY <1>2, <1>8
    <2> QED BY <1>3, <2>1, <2>2
  <1> QED BY <1>2, <1>4, <1>5, <1>6, <1>7, <1>8

LEMMA CallsMove ==
  ASSUME DOMAIN calls = Threads, NEW t \in Threads, NEW c, calls' = [calls EXCEPT ![t] = c]
  PROVE  /\ DOMAIN calls' = Threads /\ calls'[t] = c
         /\ t = "gui" => calls'["command"] = calls["command"]
  BY DEF Threads

LEMMA LeavingMoves ==
  ASSUME leaving \in Leavings, NEW at \in {"stopping", "asks", "closes", "reaps", "gone"},
         leaving' = [leaving EXCEPT !.at = at]
  PROVE  leaving' \in Leavings /\ leaving'.as = leaving.as
  BY DEF Leavings

(* The request a thread waits for ends, or another takes its place.        *)
AnotherCall(t) ==
    /\ DOMAIN calls' = Threads
    /\ t = "gui" => calls'["command"] = calls["command"]

LEMMA CallsEnd ==
  ASSUME DOMAIN calls = Threads, NEW t \in Threads, NEW cmd, Done(t) \/ Send(t, cmd)
  PROVE  AnotherCall(t)
  BY CallsMove DEF Done, Send, AnotherCall

(* What every step does that queues no command: an answer to a recovery    *)
(* adds an outcome, and nothing else ends one.                             *)
ShownAnew  == \E state, m : ShowsAsOf(state, m)
Outcome(t) == IF calls[t].cmd = "recover" THEN HasOutcome \/ \E state : ShowsOutcome(state)
              ELSE ShownAnew \/ UNCHANGED display

LEMMA NoneIsForgotten ==
  ASSUME RecoveryInv, DisplayShape', DOMAIN calls' = Threads, UNCHANGED <<commands, leaving>>,
         display'.recovering = display.recovering,
         \/ display'.outcomes = display.outcomes
            /\ (calls'["command"] = calls["command"] \/ calls["command"].cmd # "recover")
         \/ display'.outcomes = display.outcomes + 1
  PROVE  RecoveryInv'
  <1>1. display.outcomes \in Nat
    BY DisplayMoves DEF RecoveryInv
  <1>2. RecoveryQueued' <=> RecoveryQueued
    BY DEF RecoveryQueued
  <1>3. NoRecoveryIsForgotten'
    BY <1>1, <1>2 DEF RecoveryInv, NoRecoveryIsForgotten, RecoveryQueued
  <1> QED BY <1>2, <1>3 DEF RecoveryInv, NotLeaving, Leavings

LEMMA ShownOnly ==
  ASSUME RecoveryInv, ShownAnew \/ (\E state : Shows(state)) \/ UNCHANGED display
  PROVE  DisplayShape' /\ display'.recovering = display.recovering /\ display'.outcomes = display.outcomes
  BY DisplayMoves DEF Shows, ShowsAsOf, ShownAnew, RecoveryInv

LEMMA AnOutcomeMore ==
  ASSUME RecoveryInv, NEW state, ShowsOutcome(state) \/ HasOutcome
  PROVE  /\ DisplayShape' /\ display'.recovering = display.recovering
         /\ display'.outcomes = display.outcomes + 1
  BY DisplayMoves DEF ShowsOutcome, HasOutcome, RecoveryInv

(* A request that ends, whatever ended it.                                 *)
LEMMA ARequestEnds ==
  ASSUME RecoveryInv, NEW t \in Threads, Outcome(t), AnotherCall(t), UNCHANGED <<commands, leaving>>
  PROVE  RecoveryInv'
  <1>1. CASE calls[t].cmd = "recover"
    <2>1. PICK state : ShowsOutcome(state) \/ HasOutcome
      BY <1>1 DEF Outcome
    <2> QED BY <2>1, AnOutcomeMore, NoneIsForgotten DEF AnotherCall
  <1>2. CASE calls[t].cmd # "recover"
    <2>1. ShownAnew \/ UNCHANGED display
      BY <1>2 DEF Outcome
    <2>2. calls'["command"] = calls["command"] \/ calls["command"].cmd # "recover"
      BY <1>2 DEF AnotherCall, Threads
    <2> QED BY <2>1, <2>2, ShownOnly, NoneIsForgotten DEF AnotherCall
  <1> QED BY <1>1, <1>2

(* What follows from a change of what is shown alone.                      *)
LEMMA ARequestIsMade ==
  ASSUME RecoveryInv, (\E state : Shows(state)) \/ UNCHANGED display, UNCHANGED <<commands, leaving>>,
         calls' = calls \/ (\E cmd : Send("gui", cmd))
  PROVE  RecoveryInv'
  <1>1. DOMAIN calls' = Threads /\ calls'["command"] = calls["command"]
    <2>1. CASE calls' = calls
      BY <2>1 DEF RecoveryInv
    <2>2. ASSUME NEW cmd, Send("gui", cmd) PROVE AnotherCall("gui")
      BY <2>2, CallsEnd DEF RecoveryInv, Threads
    <2> QED BY <2>1, <2>2 DEF AnotherCall
  <1> QED BY <1>1, ShownOnly, NoneIsForgotten

(* The three ways in which a request ends.                                 *)
LEMMA RequestsEnd ==
  ASSUME RecoveryInv, NEW t \in Threads, GetsAnswer(t) \/ TimesOut(t) \/ EngineGone(t)
  PROVE  RecoveryInv'
  <1>0. DOMAIN calls = Threads
    BY DEF RecoveryInv
  <1>1. CASE GetsAnswer(t)
    <2>1. PICK a : IF a.ok \/ calls[t].cmd = "shutdown" THEN TakesAnswer(t, a) ELSE Refused(t)
      BY <1>1 DEF GetsAnswer
    <2>2. CASE TakesAnswer(t, a)
      <3>1. Done(t)
        BY <2>2 DEF TakesAnswer
      <3>2. Outcome(t)
        BY <2>2 DEF TakesAnswer, Outcome, ShownAnew
      <3> QED BY <1>0, <1>1, <3>1, <3>2, CallsEnd, ARequestEnds DEF GetsAnswer
    <2>3. CASE Refused(t)
      <3>1. Done(t) \/ Send(t, "stats")
        BY <2>3 DEF Refused
      <3>2. Outcome(t)
        BY <2>3 DEF Refused, Outcome, ShownAnew, Shows
      <3> QED BY <1>0, <1>1, <3>1, <3>2, CallsEnd, ARequestEnds DEF GetsAnswer
    <2> QED BY <2>1, <2>2, <2>3
  <1>2. CASE TimesOut(t)
    <2>1. AnotherCall(t)
      BY <1>0, <1>2, CallsMove DEF TimesOut, AnotherCall
    <2>2. Outcome(t)
      BY <1>2 DEF TimesOut, Outcome, ShownAnew, Shows
    <2> QED BY <1>2, <2>1, <2>2, ARequestEnds DEF TimesOut
  <1>3. CASE EngineGone(t)
    <2>1. Done(t)
      BY <1>3 DEF EngineGone, GivesUp
    <2>2. Outcome(t)
      BY <1>3 DEF EngineGone, GivesUp, Outcome, ShownAnew, Shows
    <2> QED BY <1>0, <1>3, <2>1, <2>2, CallsEnd, ARequestEnds DEF EngineGone
  <1> QED BY <1>1, <1>2, <1>3

(* The steps that queue a command or take one from the queue.              *)
LEMMA OneMoreIsQueued ==
  ASSUME commands \in Seq({"stop", "recover"}), NEW cmd \in {"stop", "recover"},
         commands' = Append(commands, cmd)
  PROVE  /\ commands' \in Seq({"stop", "recover"})
         /\ RecoveryQueued \/ cmd = "recover" => RecoveryQueued'
  <1>1. PICK n \in Nat : n = Len(commands)
    OBVIOUS
  <1>2. /\ DOMAIN commands = 1 .. n /\ DOMAIN commands' = 1 .. n + 1 /\ commands'[n + 1] = cmd
        /\ \A i \in 1 .. n : commands'[i] = commands[i]
    BY <1>1
  <1>3. RecoveryQueued => RecoveryQueued'
    BY <1>2 DEF RecoveryQueued
  <1>4. cmd = "recover" => RecoveryQueued'
    BY <1>2 DEF RecoveryQueued
  <1> QED BY <1>3, <1>4

LEMMA OneLessIsQueued ==
  ASSUME commands \in Seq({"stop", "recover"}), commands # <<>>, commands' = Tail(commands)
  PROVE  /\ commands' \in Seq({"stop", "recover"})
         /\ RecoveryQueued => Head(commands) = "recover" \/ RecoveryQueued'
         /\ ~RecoveryQueued => ~RecoveryQueued'
  <1>0. PICK n \in Nat : n = Len(commands) /\ n > 0
    OBVIOUS
  <1>1. /\ Head(commands) = commands[1] /\ DOMAIN commands = 1 .. n /\ DOMAIN commands' = 1 .. n - 1
        /\ commands' \in Seq({"stop", "recover"})
        /\ \A i \in 1 .. n - 1 : commands'[i] = commands[i + 1]
    BY <1>0
  <1>2. RecoveryQueued => Head(commands) = "recover" \/ RecoveryQueued'
    <2> SUFFICES ASSUME NEW i \in 1 .. n, commands[i] = "recover", Head(commands) # "recover"
                 PROVE  RecoveryQueued'
      BY <1>1 DEF RecoveryQueued
    <2>1. i - 1 \in 1 .. n - 1 /\ commands'[i - 1] = "recover"
      BY <1>0, <1>1
    <2> QED BY <1>1, <2>1 DEF RecoveryQueued
  <1>3. ~RecoveryQueued => ~RecoveryQueued'
    BY <1>0, <1>1 DEF RecoveryQueued
  <1> QED BY <1>1, <1>2, <1>3

LEMMA ControlsKeep ==
  ASSUME RecoveryInv, StopPressed \/ RecoverPressed
  PROVE  RecoveryInv'
  <1>0. /\ DOMAIN calls = Threads /\ commands \in Seq({"stop", "recover"}) /\ DisplayShape
        /\ UNCHANGED <<leaving, calls>> /\ leaving.as = "no" /\ display.outcomes \in Nat
    BY DisplayMoves DEF RecoveryInv, StopPressed, RecoverPressed, Ready
  <1>1. CASE StopPressed
    <2>1. commands' = Append(commands, "stop") /\ display' = [display EXCEPT !.shown = "stopping", !.misled = FALSE]
      BY <1>1 DEF StopPressed, Shows, ShowsAsOf
    <2>2. commands' \in Seq({"stop", "recover"}) /\ (RecoveryQueued => RecoveryQueued')
      BY <1>0, <2>1, OneMoreIsQueued
    <2>3. DisplayShape' /\ display'.recovering = display.recovering /\ display'.outcomes = display.outcomes
      BY <1>0, <2>1, DisplayMoves
    <2>4. NoRecoveryIsForgotten'
      BY <1>0, <2>2, <2>3 DEF RecoveryInv, NoRecoveryIsForgotten, RecoveryQueued
    <2> QED BY <1>0, <2>2, <2>3, <2>4 DEF RecoveryInv, NotLeaving, Leavings
  <1>2. CASE RecoverPressed
    <2>1. commands' = Append(commands, "recover") /\ display' = [display EXCEPT !.recovering = Sidecars]
      BY <1>2 DEF RecoverPressed
    <2>2. commands' \in Seq({"stop", "recover"}) /\ RecoveryQueued'
      BY <1>0, <2>1, OneMoreIsQueued
    <2>3. DisplayShape'
      <3>1. Sidecars \in Int
        BY GuiAssumption
      <3> QED BY <1>0, <2>1, <3>1, DisplayMoves
    <2>4. NoRecoveryIsForgotten'
      BY <2>2 DEF NoRecoveryIsForgotten, RecoveryQueued
    <2> QED BY <1>0, <2>2, <2>3, <2>4 DEF RecoveryInv, NotLeaving, Leavings
  <1> QED BY <1>1, <1>2

LEMMA OutcomesKeep ==
  ASSUME RecoveryInv, RecoveryFinished
  PROVE  RecoveryInv'
  <1> DEFINE left == display.recovering - 1
  <1>0. /\ DOMAIN calls = Threads /\ commands \in Seq({"stop", "recover"}) /\ DisplayShape
        /\ UNCHANGED <<leaving, calls>> /\ leaving.as = "no" /\ display.outcomes > 0
        /\ display.recovering \in Int
    BY DisplayMoves DEF RecoveryInv, RecoveryFinished, Ready
  <1>1. PICK shown :
          display' = [display EXCEPT !.outcomes = @ - 1, !.recovering = IF connected THEN left ELSE 0,
                                     !.shown = shown]
    BY DEF RecoveryFinished, NextRecovery
  <1>2. commands' = IF left > 0 /\ connected THEN Append(commands, "recover") ELSE commands
    BY DEF RecoveryFinished, NextRecovery
  <1>3. (IF connected THEN left ELSE 0) \in Int
    BY <1>0
  <1>4. DisplayShape' /\ display'.recovering = (IF connected THEN left ELSE 0)
    BY <1>0, <1>1, <1>3, DisplayMoves
  <1>5. commands' \in Seq({"stop", "recover"}) /\ (left > 0 /\ connected => RecoveryQueued')
    BY <1>0, <1>2, OneMoreIsQueued
  <1>6. NoRecoveryIsForgotten'
    BY <1>0, <1>4, <1>5 DEF NoRecoveryIsForgotten, RecoveryQueued
  <1> QED BY <1>0, <1>4, <1>5, <1>6 DEF RecoveryInv, NotLeaving, Leavings

LEMMA QueueKeeps ==
  ASSUME RecoveryInv, TakesCommand
  PROVE  RecoveryInv'
  <1>0. /\ DOMAIN calls = Threads /\ commands \in Seq({"stop", "recover"}) /\ commands # <<>>
        /\ DisplayShape /\ leaving' = leaving /\ commands' = Tail(commands) /\ display.outcomes \in Nat
        /\ calls["command"].cmd = "none"
    BY DisplayMoves DEF RecoveryInv, TakesCommand, Waits
  <1>1. /\ commands' \in Seq({"stop", "recover"})
        /\ RecoveryQueued => Head(commands) = "recover" \/ RecoveryQueued'
        /\ ~RecoveryQueued => ~RecoveryQueued'
    BY <1>0, OneLessIsQueued
  <1>2. CASE connected
    <2>1. Send("command", Head(commands)) /\ display' = display
      BY <1>2 DEF TakesCommand
    <2>2. /\ DOMAIN calls' = Threads
          /\ calls'["command"] = [cmd |-> Head(commands), id |-> FreshId]
      BY <1>0, <2>1, CallsMove DEF Send, Threads
    <2>3. calls'["command"].cmd = Head(commands)
      BY <2>2
    <2>4. DisplayShape'
      BY <1>0, <2>1, DisplayMoves
    <2>5. NoRecoveryIsForgotten'
      BY <1>0, <1>1, <2>1, <2>3 DEF RecoveryInv, NoRecoveryIsForgotten, RecoveryQueued
    <2> QED BY <1>0, <1>1, <2>2, <2>4, <2>5 DEF RecoveryInv, NotLeaving, Leavings
  <1>3. CASE ~connected
    <2>1. UNCHANGED calls /\ IF Head(commands) = "recover" THEN ShowsOutcome("offline") ELSE Shows("offline")
      BY <1>3 DEF TakesCommand
    <2>2. CASE Head(commands) = "recover"
      <3>1. /\ DisplayShape' /\ display'.recovering = display.recovering
            /\ display'.outcomes = display.outcomes + 1
        BY <2>1, <2>2, AnOutcomeMore
      <3>2. NoRecoveryIsForgotten'
        BY <1>0, <3>1 DEF NoRecoveryIsForgotten
      <3> QED BY <1>0, <1>1, <2>1, <3>1, <3>2 DEF RecoveryInv, NotLeaving, Leavings
    <2>3. CASE Head(commands) # "recover"
      <3>1. DisplayShape' /\ display'.recovering = display.recovering /\ display'.outcomes = display.outcomes
        BY <2>1, <2>3, ShownOnly
      <3>2. NoRecoveryIsForgotten'
        BY <1>0, <1>1, <2>1, <2>3, <3>1 DEF RecoveryInv, NoRecoveryIsForgotten, RecoveryQueued
      <3> QED BY <1>0, <1>1, <2>1, <3>1, <3>2 DEF RecoveryInv, NotLeaving, Leavings
    <2> QED BY <2>2, <2>3
  <1> QED BY <1>2, <1>3

(* Leaving: only a window that closes for good drops what is queued.       *)
LEMMA LeavingKeeps ==
  ASSUME RecoveryInv, MayAbandon = FALSE, Leaves \/ AsksToShutDown \/ Closes \/ Reaps \/ StartsEngine
  PROVE  RecoveryInv'
  <1>0. /\ DOMAIN calls = Threads /\ commands \in Seq({"stop", "recover"}) /\ DisplayShape
        /\ leaving = NotLeaving \/ leaving \in Leavings
        /\ display.outcomes \in Nat /\ NoRecoveryIsForgotten
    BY DisplayMoves DEF RecoveryInv
  <1>1. CASE Leaves
    <2>1. PICK as \in {"restart", "exit"}, at \in {"stopping", "asks"} : leaving' = [as |-> as, at |-> at]
      BY <1>1 DEF Leaves
    <2>2. leaving' \in Leavings /\ UNCHANGED commands /\ ~RecoveryQueued /\ leaving.as = "no"
      BY <1>1, <2>1 DEF Leaves, Leavings, RecoveryQueued, Ready
    <2>3. (\E state : Shows(state)) \/ UNCHANGED display
      BY <1>1 DEF Leaves
    <2>4. calls' = calls \/ Send("gui", "stop")
      BY <1>1 DEF Leaves
    <2>5. DOMAIN calls' = Threads /\ calls'["command"] = calls["command"]
      BY <1>0, <2>4, CallsEnd DEF AnotherCall, Threads
    <2>6. DisplayShape' /\ display'.recovering = display.recovering /\ display'.outcomes = display.outcomes
      BY <2>3, ShownOnly
    <2>7. NoRecoveryIsForgotten'
      BY <1>0, <2>2, <2>5, <2>6 DEF NoRecoveryIsForgotten
    <2>8. ~RecoveryQueued'
      BY <2>2 DEF RecoveryQueued
    <2> QED BY <1>0, <2>2, <2>5, <2>6, <2>7, <2>8 DEF RecoveryInv
  <1>2. ASSUME NEW at \in {"closes", "reaps", "gone"}, leaving.at # "no", leaving' = [leaving EXCEPT !.at = at]
        PROVE  leaving' \in Leavings /\ leaving'.as = leaving.as
    <2>1. leaving \in Leavings
      BY <1>0, <1>2 DEF NotLeaving
    <2> QED BY <1>2, <2>1, LeavingMoves
  <1>3. CASE AsksToShutDown
    <2>1. leaving' \in Leavings /\ leaving'.as = leaving.as
      BY <1>2, <1>3 DEF AsksToShutDown
    <2>2. UNCHANGED <<commands, display>> /\ (calls' = calls \/ Send("gui", "shutdown"))
      BY <1>3 DEF AsksToShutDown
    <2>3. DOMAIN calls' = Threads /\ calls'["command"] = calls["command"]
      BY <1>0, <2>2, CallsEnd DEF AnotherCall, Threads
    <2>4. NoRecoveryIsForgotten'
      BY <1>0, <2>1, <2>2, <2>3 DEF NoRecoveryIsForgotten
    <2> QED BY <1>0, <2>1, <2>2, <2>3, <2>4 DEF RecoveryInv, DisplayShape, RecoveryQueued
  <1>4. CASE Closes
    <2>1. leaving' \in Leavings /\ leaving'.as = leaving.as
      BY <1>2, <1>4 DEF Closes, ClosesClient
    <2>2. leaving.as \in {"restart", "exit"}
      BY <1>0, <1>4 DEF Closes, NotLeaving, Leavings
    <2>3. UNCHANGED <<display, calls>> /\ (commands' = <<>> \/ commands' = commands)
      BY <1>4 DEF Closes
    <2>4. commands' \in Seq({"stop", "recover"}) /\ (~RecoveryQueued => ~RecoveryQueued')
      <3>1. <<>> \in Seq({"stop", "recover"}) /\ DOMAIN <<>> = {}
        OBVIOUS
      <3> QED BY <1>0, <2>3, <3>1 DEF RecoveryQueued
    <2>5. NoRecoveryIsForgotten'
      BY <1>0, <2>1, <2>2, <2>3 DEF RecoveryInv, NoRecoveryIsForgotten, RecoveryQueued
    <2> QED BY <1>0, <2>1, <2>3, <2>4, <2>5 DEF RecoveryInv, DisplayShape
  <1>5. CASE Reaps
    <2>1. leaving' \in Leavings /\ leaving'.as = leaving.as
      BY <1>2, <1>5 DEF Reaps
    <2>2. UNCHANGED <<commands, calls>> /\ Shows("offline")
      BY <1>5 DEF Reaps
    <2>3. DisplayShape' /\ display'.recovering = display.recovering /\ display'.outcomes = display.outcomes
      BY <2>2, ShownOnly
    <2>4. NoRecoveryIsForgotten'
      BY <1>0, <2>1, <2>2, <2>3 DEF NoRecoveryIsForgotten
    <2> QED BY <1>0, <2>1, <2>2, <2>3, <2>4 DEF RecoveryInv, RecoveryQueued
  <1>6. CASE StartsEngine
    <2>1. leaving' = NotLeaving /\ leaving.as = "restart" /\ UNCHANGED <<commands, calls>> /\ Shows("idle")
      BY <1>6 DEF StartsEngine, NotLeaving
    <2>2. DisplayShape' /\ display'.recovering = display.recovering /\ display'.outcomes = display.outcomes
      BY <2>1, ShownOnly
    <2>3. NoRecoveryIsForgotten'
      BY <1>0, <2>1, <2>2 DEF NoRecoveryIsForgotten
    <2>4. leaving'.as # "restart"
      BY <2>1 DEF NotLeaving
    <2> QED BY <1>0, <2>1, <2>2, <2>3, <2>4 DEF RecoveryInv
  <1> QED BY <1>1, <1>3, <1>4, <1>5, <1>6

(* NoRecoveryIsForgotten: while the window works through its list of       *)
(* unfinished recordings there is always somebody to ask for the next one: *)
(* a request under way, one queued, or an outcome the window has not heard *)
(* of yet, whatever times out, is refused, or dies (main_window.py,        *)
(* _on_recovery_finished; ipc/client.py, _async_loop).  That an engine is  *)
(* not restarted with a recovery still queued is assumed.                  *)
THEOREM NoRecoveryForgotten ==
  ASSUME MayAbandon = FALSE
  PROVE  GuiSpec => []NoRecoveryIsForgotten
  <1>1. GuiInit => RecoveryInv
    <2> SUFFICES ASSUME GuiInit PROVE RecoveryInv
      OBVIOUS
    <2>1. DisplayShape
      <3>1. display = [shown |-> "idle", recovering |-> 0, outcomes |-> 0, misled |-> FALSE]
        BY DEF GuiInit
      <3>2. \E recovering \in Int, outcomes \in Nat :
              display = [shown |-> "idle", recovering |-> recovering, outcomes |-> outcomes, misled |-> FALSE]
        <4>1. 0 \in Int /\ 0 \in Nat
          OBVIOUS
        <4> QED BY <3>1, <4>1, Zenon
      <3> QED BY <3>2, Zenon DEF DisplayShape
    <2>2. DOMAIN calls = Threads /\ commands \in Seq({"stop", "recover"}) /\ leaving = NotLeaving
      BY DEF GuiInit, NotLeaving
    <2>3. leaving.as # "restart" /\ display.recovering = 0
      BY DEF GuiInit
    <2> QED BY <2>1, <2>2, <2>3 DEF RecoveryInv, NoRecoveryIsForgotten
  <1>2. RecoveryInv /\ [GuiNext]_guiVars => RecoveryInv'
    <2> SUFFICES ASSUME RecoveryInv, [GuiNext]_guiVars PROVE RecoveryInv'
      OBVIOUS
    <2>1. CASE StartPressed \/ PausePressed \/ ResumePressed
      BY <2>1, ARequestIsMade DEF StartPressed, PausePressed, ResumePressed, Presses
    <2>2. CASE StopPressed \/ RecoverPressed
      BY <2>2, ControlsKeep
    <2>3. CASE PressedInVain
      BY <2>3, ARequestIsMade DEF PressedInVain
    <2>4. CASE RecoveryFinished
      BY <2>4, OutcomesKeep
    <2>5. CASE TakesCommand
      BY <2>5, QueueKeeps
    <2>6. ASSUME NEW t \in Threads, GetsAnswer(t) \/ TimesOut(t) \/ EngineGone(t) PROVE RecoveryInv'
      BY <2>6, RequestsEnd
    <2>7. CASE Leaves \/ AsksToShutDown \/ Closes \/ Reaps \/ StartsEngine
      BY <2>7, LeavingKeeps
    <2>8. CASE ReaderDispatches
      BY <2>8, ARequestIsMade DEF ReaderDispatches, Dispatches1
    <2>9. CASE ReaderEnds
      BY <2>9, ARequestIsMade DEF ReaderEnds
    <2>10. CASE EngineAnswers \/ EngineStops \/ EngineStopped \/ EngineExits \/ EngineDies
      BY <2>10, ARequestIsMade DEF EngineAnswers, EngineStops, EngineStopped, EngineExits, EngineDies
    <2>11. CASE UNCHANGED guiVars
      BY <2>11, ARequestIsMade DEF guiVars
    <2> QED BY <2>1, <2>2, <2>3, <2>4, <2>5, <2>6, <2>7, <2>8, <2>9, <2>10, <2>11 DEF GuiNext
  <1>3. RecoveryInv => NoRecoveryIsForgotten
    BY DEF RecoveryInv
  <1> QED BY <1>1, <1>2, <1>3, PTL DEF GuiSpec

------------------------------------------------------------------------------
(* The window and the engine                                               *)

Asks     == {"start", "pause", "resume", "stop", "recover", "stats", "shutdown"}
States   == {"idle", "recording", "paused", "stopping", "faulted"}
Requests == [cmd : Asks, id : Nat]
Frames   == [kind : {"answer", "event"}, id : Nat, cmd : Asks \union {"none"}, ok : BOOLEAN, state : States,
             overtaken : BOOLEAN]
Remotes  == [at : {"up", "stopping", "exiting", "down"}, state : States,
             rec : {"none", "live", "final", "lost"}, id : Nat]
Tallies  == [ids : Nat, timeouts : Nat, deaths : Nat, engines : Nat]

ScreenShaped == {"shown", "misled"} \subseteq DOMAIN display

WindowTypes ==
    /\ ScreenShaped /\ (leaving = NotLeaving \/ leaving \in Leavings)
    /\ calls \in [Threads -> [cmd : Asks \union {"none"}, id : Nat]]
    /\ commands \in Seq({"stop", "recover"}) /\ connected \in BOOLEAN
    /\ upward \in Seq(Requests) /\ downward \in Seq(Frames) /\ answers \subseteq Frames
    /\ remote \in Remotes /\ tally \in Tallies

(* No id is given twice, so that an answer is its request's.               *)
IdsAreGiven ==
    /\ \A t \in Threads : calls[t].id <= tally.ids
    /\ \A i \in DOMAIN upward : upward[i].id <= tally.ids
    /\ \A i \in DOMAIN downward : downward[i].id <= tally.ids
    /\ \A a \in answers : a.id <= tally.ids
    /\ remote.id <= tally.ids

Same(f, t) == f.id = calls[t].id => f.cmd = calls[t].cmd

AnswersMatch ==
    \A t \in Threads : Waits(t) =>
        /\ \A i \in DOMAIN upward : Same(upward[i], t)
        /\ \A i \in DOMAIN downward : downward[i].kind = "answer" => Same(downward[i], t)
        /\ \A a \in answers : Same(a, t)
        /\ remote.at = "stopping" /\ remote.id = calls[t].id => calls[t].cmd = "stop"

(* A recording under way is what the engine's state says.                  *)
LiveAsItSays ==
    remote.at \in {"up", "stopping"} /\ remote.state \in {"recording", "paused", "stopping"} => Recording1

(* What an answer makes the window show is the state it was given in.      *)
Writing == {"pause", "resume", "stop", "stats"}
ShowsItsState(f) ==
    /\ f.cmd = "pause" => f.state = "paused"
    /\ f.cmd = "resume" => f.state = "recording"
    /\ f.cmd = "stop" => f.state = "idle"
AnswersShowStates ==
    /\ \A i \in DOMAIN downward : downward[i].kind = "answer" /\ downward[i].ok => ShowsItsState(downward[i])
    /\ \A a \in answers : a.kind = "answer" /\ (a.ok => ShowsItsState(a))

NoEventAfter(i) == \A j \in i + 1 .. Len(downward) : downward[j].kind # "event"
NoEvent == \A i \in DOMAIN downward : downward[i].kind # "event"

(* A frame that no later event overtakes carries the engine's state, and   *)
(* so does an answer that waits for its thread and was not overtaken.      *)
FramesAreCurrent ==
    /\ \A i \in DOMAIN downward : NoEventAfter(i) => downward[i].state = remote.state
    /\ NoEvent => \A a \in answers : ~a.overtaken => a.state = remote.state

(* A start is owed the window's correction until it is answered.           *)
Granted(t) ==
    \/ \E i \in DOMAIN downward : downward[i].kind = "answer" /\ downward[i].id = calls[t].id /\ downward[i].ok
    \/ \E a \in answers : a.id = calls[t].id /\ a.ok
Corrects(t) == calls[t].cmd \in Writing \/ (calls[t].cmd = "start" /\ ~Granted(t))
StopQueued  == \E i \in DOMAIN commands : commands[i] = "stop"

WindowIsRight ==
    NoEvent => \/ display.shown = remote.state
               \/ tally.timeouts > 0 /\ display.shown = "offline"
               \/ display.misled
               \/ \E t \in Threads : Corrects(t)
               \/ StopQueued

(* What of it is about the pipe alone.                                     *)
PipeInv == WindowTypes /\ IdsAreGiven /\ AnswersMatch /\ LiveAsItSays

WindowInv ==
    /\ WindowTypes /\ IdsAreGiven /\ AnswersMatch /\ LiveAsItSays /\ AnswersShowStates
    /\ leaving.at \in {"reaps", "gone"} => ~connected
    /\ connected => FramesAreCurrent /\ WindowIsRight

(* What a thread's request does to the pipe.                               *)
Sends(t, cmd) ==
    /\ calls'[t] = [cmd |-> cmd, id |-> tally.ids + 1]
    /\ upward' = Append(upward, [cmd |-> cmd, id |-> tally.ids + 1])
    /\ tally'.ids = tally.ids + 1
Ends(t) == calls'[t] = Free /\ UNCHANGED upward /\ tally'.ids = tally.ids

CallStep(t) ==
    /\ \A u \in Threads : u # t => calls'[u] = calls[u]
    /\ Ends(t) \/ \E cmd \in Asks : Sends(t, cmd)
NoCallStep == UNCHANGED <<calls, upward>> /\ tally'.ids = tally.ids

(* What every step of the window does, seen from the pipe.                 *)
WindowSeen ==
    /\ UNCHANGED <<downward, remote, connected>> /\ answers' \subseteq answers
    /\ NoCallStep \/ \E t \in Threads : CallStep(t)

LEMMA TheWindowIsTyped ==
  ASSUME WindowTypes
  PROVE  /\ tally.ids \in Nat /\ tally.timeouts \in Nat /\ remote.id \in Nat
         /\ \A t \in Threads : calls[t].id \in Nat /\ calls[t] \in [cmd : Asks \union {"none"}, id : Nat]
         /\ \A t \in Threads : calls[t].cmd \in Asks \union {"none"}
         /\ \A i \in DOMAIN upward : upward[i] \in Requests /\ upward[i].id \in Nat /\ upward[i].cmd \in Asks
         /\ \A i \in DOMAIN downward : downward[i] \in Frames /\ downward[i].id \in Nat
         /\ \A a \in answers : a \in Frames /\ a.id \in Nat
         /\ upward \in Seq(Requests) /\ downward \in Seq(Frames) /\ commands \in Seq({"stop", "recover"})
         /\ calls \in [Threads -> [cmd : Asks \union {"none"}, id : Nat]]
  <1>1. tally.ids \in Nat /\ tally.timeouts \in Nat /\ remote.id \in Nat
    BY DEF WindowTypes, Tallies, Remotes
  <1>2. \A t \in Threads : calls[t] \in [cmd : Asks \union {"none"}, id : Nat]
    BY DEF WindowTypes
  <1>3. \A c \in [cmd : Asks \union {"none"}, id : Nat] : c.id \in Nat /\ c.cmd \in Asks \union {"none"}
    OBVIOUS
  <1>4. upward \in Seq(Requests) /\ downward \in Seq(Frames) /\ commands \in Seq({"stop", "recover"})
        /\ answers \subseteq Frames
    BY DEF WindowTypes
  <1>5. \A r \in Requests : r.id \in Nat /\ r.cmd \in Asks
    BY DEF Requests
  <1>6. \A f \in Frames : f.id \in Nat
    BY DEF Frames
  <1>7. \A i \in DOMAIN upward : upward[i] \in Requests
    BY <1>4
  <1>8. \A i \in DOMAIN downward : downward[i] \in Frames
    BY <1>4
  <1> QED BY <1>1, <1>2, <1>3, <1>4, <1>5, <1>6, <1>7, <1>8 DEF WindowTypes

(* A fresh id is nobody's yet: the pipe's invariants survive the window.   *)
LEMMA WindowKeepsIds ==
  ASSUME WindowTypes, IdsAreGiven, AnswersMatch, WindowSeen, WindowTypes'
  PROVE  /\ IdsAreGiven' /\ AnswersMatch'
         /\ \A t \in Threads : Answered(t)' \subseteq Answered(t)
  <1>0. /\ tally.ids \in Nat /\ remote' = remote /\ downward' = downward /\ answers' \subseteq answers
        /\ \A t \in Threads : calls[t].id \in Nat /\ calls[t].id <= tally.ids
        /\ \A i \in DOMAIN upward : upward[i].id \in Nat /\ upward[i].id <= tally.ids
        /\ \A i \in DOMAIN downward : downward[i].id \in Nat /\ downward[i].id <= tally.ids
        /\ \A a \in answers : a.id \in Nat /\ a.id <= tally.ids
        /\ remote.id \in Nat /\ remote.id <= tally.ids
    BY TheWindowIsTyped DEF IdsAreGiven, WindowSeen
  <1>1. CASE NoCallStep
    <2>1. calls' = calls /\ upward' = upward /\ tally'.ids = tally.ids
      BY <1>1 DEF NoCallStep
    <2>2. IdsAreGiven'
      BY <1>0, <2>1 DEF IdsAreGiven
    <2>3. AnswersMatch'
      BY <1>0, <2>1 DEF AnswersMatch, Same, Waits
    <2>4. \A t \in Threads : Answered(t)' \subseteq Answered(t)
      BY <1>0, <2>1 DEF Answered, Waits
    <2> QED BY <2>2, <2>3, <2>4
  <1>2. ASSUME NEW t \in Threads, CallStep(t)
        PROVE  /\ IdsAreGiven' /\ AnswersMatch'
               /\ \A u \in Threads : Answered(u)' \subseteq Answered(u)
    <2>0. \A u \in Threads : u # t => calls'[u] = calls[u]
      BY <1>2 DEF CallStep
    <2>1. CASE Ends(t)
      <3>1. calls'[t].cmd = "none" /\ calls'[t].id = 0 /\ upward' = upward /\ tally'.ids = tally.ids
        BY <2>1 DEF Ends, Free
      <3>2. IdsAreGiven'
        BY <1>0, <2>0, <3>1 DEF IdsAreGiven
      <3>3. ASSUME NEW u \in Threads, Waits(u)' PROVE u # t /\ calls'[u] = calls[u] /\ Waits(u)
        BY <2>0, <3>1, <3>3 DEF Waits
      <3>4. AnswersMatch'
        BY <1>0, <3>1, <3>3 DEF AnswersMatch, Same
      <3>5. \A u \in Threads : Answered(u)' \subseteq Answered(u)
        BY <1>0, <3>3 DEF Answered
      <3> QED BY <3>2, <3>4, <3>5
    <2>2. ASSUME NEW cmd \in Asks, Sends(t, cmd)
          PROVE  /\ IdsAreGiven' /\ AnswersMatch'
                 /\ \A u \in Threads : Answered(u)' \subseteq Answered(u)
      <3> DEFINE r == [cmd |-> cmd, id |-> tally.ids + 1]
      <3>1. calls'[t].cmd = cmd /\ calls'[t].id = tally.ids + 1 /\ tally'.ids = tally.ids + 1
        BY <2>2 DEF Sends
      <3>2. r.id = tally.ids + 1 /\ r.cmd = cmd /\ upward' = Append(upward, r) /\ upward \in Seq(Requests)
        BY <2>2, TheWindowIsTyped DEF Sends
      <3> HIDE DEF r
      <3>3. \A i \in DOMAIN upward' : (i \in DOMAIN upward /\ upward'[i] = upward[i]) \/ upward'[i] = r
        BY <3>2
      <3>4. IdsAreGiven'
        BY <1>0, <2>0, <3>1, <3>2, <3>3 DEF IdsAreGiven
      <3>5. AnswersMatch'
        <4> SUFFICES ASSUME NEW u \in Threads, Waits(u)'
                     PROVE  /\ \A i \in DOMAIN upward' : Same(upward[i], u)'
                            /\ \A i \in DOMAIN downward' : (downward[i].kind = "answer" => Same(downward[i], u))'
                            /\ \A a \in answers' : Same(a, u)'
                            /\ (remote.at = "stopping" /\ remote.id = calls[u].id => calls[u].cmd = "stop")'
          BY DEF AnswersMatch
        <4>1. CASE u = t
          BY <1>0, <3>1, <3>2, <3>3, <4>1 DEF Same
        <4>2. CASE u # t
          <5>1. calls'[u] = calls[u] /\ Waits(u)
            BY <2>0, <4>2 DEF Waits
          <5> QED BY <1>0, <3>2, <3>3, <5>1 DEF AnswersMatch, Same
        <4> QED BY <4>1, <4>2
      <3>6. ASSUME NEW u \in Threads PROVE Answered(u)' \subseteq Answered(u)
        <4>1. CASE u = t
          BY <1>0, <3>1, <4>1 DEF Answered
        <4>2. CASE u # t
          BY <1>0, <2>0, <4>2 DEF Answered, Waits
        <4> QED BY <4>1, <4>2
      <3> QED BY <3>4, <3>5, <3>6
    <2> QED BY <1>2, <2>1, <2>2 DEF CallStep
  <1> QED BY <1>1, <1>2 DEF WindowSeen

PipeTypes ==
    /\ calls \in [Threads -> [cmd : Asks \union {"none"}, id : Nat]]
    /\ upward \in Seq(Requests) /\ tally \in Tallies

(* A request that is made, and one that ends.                              *)
LEMMA ARequestIsSent ==
  ASSUME WindowTypes, NEW t \in Threads, NEW cmd \in Asks, Send(t, cmd)
  PROVE  PipeTypes' /\ CallStep(t) /\ Sends(t, cmd) /\ tally'.timeouts = tally.timeouts
  <1>0. /\ calls \in [Threads -> [cmd : Asks \union {"none"}, id : Nat]] /\ upward \in Seq(Requests)
        /\ tally \in Tallies
    BY DEF WindowTypes
  <1>1. tally' \in Tallies /\ tally'.ids = tally.ids + 1 /\ tally'.timeouts = tally.timeouts /\ tally.ids + 1 \in Nat
    BY <1>0 DEF Send, Tallies
  <1> DEFINE r == [cmd |-> cmd, id |-> tally.ids + 1]
  <1>2. calls' = [calls EXCEPT ![t] = r] /\ upward' = Append(upward, r)
    BY DEF Send, FreshId
  <1>3. r \in [cmd : Asks \union {"none"}, id : Nat] /\ r \in Requests
    BY <1>1 DEF Requests
  <1> HIDE DEF r
  <1>4. /\ calls' \in [Threads -> [cmd : Asks \union {"none"}, id : Nat]] /\ calls'[t] = r
        /\ \A u \in Threads : u # t => calls'[u] = calls[u]
    BY <1>0, <1>2, <1>3
  <1>5. upward' \in Seq(Requests)
    BY <1>0, <1>2, <1>3
  <1>6. Sends(t, cmd)
    BY <1>1, <1>2, <1>4 DEF Sends, r
  <1> QED BY <1>1, <1>4, <1>5, <1>6 DEF PipeTypes, CallStep

LEMMA ARequestIsOver ==
  ASSUME WindowTypes, NEW t \in Threads, calls' = [calls EXCEPT ![t] = Free], upward' = upward,
         tally' = tally \/ tally' = [tally EXCEPT !.timeouts = @ + 1]
  PROVE  PipeTypes' /\ CallStep(t)
  <1>0. /\ calls \in [Threads -> [cmd : Asks \union {"none"}, id : Nat]] /\ upward \in Seq(Requests)
        /\ tally \in Tallies
    BY DEF WindowTypes
  <1>1. tally' \in Tallies /\ tally'.ids = tally.ids
    BY <1>0 DEF Tallies
  <1>2. Free \in [cmd : Asks \union {"none"}, id : Nat]
    BY DEF Free
  <1>3. /\ calls' \in [Threads -> [cmd : Asks \union {"none"}, id : Nat]] /\ calls'[t] = Free
        /\ \A u \in Threads : u # t => calls'[u] = calls[u]
    BY <1>0, <1>2
  <1> QED BY <1>0, <1>1, <1>3 DEF PipeTypes, CallStep, Ends

(* What owes the window a correction goes on owing it.                     *)
LEMMA CorrectsStays ==
  ASSUME WindowSeen, NEW u \in Threads, calls'[u] = calls[u], Corrects(u)
  PROVE  Corrects(u)'
  <1>1. downward' = downward /\ answers' \subseteq answers
    BY DEF WindowSeen
  <1>2. Granted(u)' => Granted(u)
    BY <1>1 DEF Granted
  <1> QED BY <1>2 DEF Corrects

LEMMA ARequestCorrects ==
  ASSUME WindowTypes, IdsAreGiven, WindowSeen, NEW t \in Threads, NEW cmd \in Writing \union {"start"},
         Sends(t, cmd)
  PROVE  Corrects(t)'
  <1>1. downward' = downward /\ answers' \subseteq answers /\ calls'[t].cmd = cmd /\ calls'[t].id = tally.ids + 1
    BY DEF WindowSeen, Sends
  <1>2. /\ tally.ids \in Nat
        /\ \A i \in DOMAIN downward : downward[i].id \in Nat /\ downward[i].id <= tally.ids
        /\ \A a \in answers : a.id \in Nat /\ a.id <= tally.ids
    BY TheWindowIsTyped DEF IdsAreGiven
  <1>3. ~Granted(t)'
    BY <1>1, <1>2 DEF Granted
  <1> QED BY <1>1, <1>3 DEF Corrects

LEMMA TheWindowKeeps ==
  ASSUME WindowInv, WindowSeen, WindowTypes', connected => WindowIsRight',
         leaving'.at \in {"reaps", "gone"} => ~connected
  PROVE  WindowInv'
  <1>1. /\ UNCHANGED <<downward, remote, connected>> /\ answers' \subseteq answers
        /\ WindowTypes /\ IdsAreGiven /\ AnswersMatch /\ LiveAsItSays /\ AnswersShowStates
    BY DEF WindowSeen, WindowInv
  <1>2. IdsAreGiven' /\ AnswersMatch' /\ \A t \in Threads : Answered(t)' \subseteq Answered(t)
    BY <1>1, WindowKeepsIds
  <1>3. LiveAsItSays' /\ AnswersShowStates'
    BY <1>1 DEF LiveAsItSays, Recording1, AnswersShowStates, ShowsItsState
  <1>4. FramesAreCurrent => FramesAreCurrent'
    BY <1>1, <1>2 DEF FramesAreCurrent, NoEventAfter, NoEvent
  <1> QED BY <1>1, <1>2, <1>3, <1>4 DEF WindowInv

(* What is shown, when part of the display is replaced.                    *)
LEMMA ShownMoves ==
  ASSUME ScreenShaped
  PROVE  /\ \A s, m : ShowsAsOf(s, m) => ScreenShaped' /\ display'.shown = s /\ display'.misled = m
         /\ \A s : Shows(s) \/ ShowsOutcome(s) => ScreenShaped' /\ display'.shown = s
         /\ display' = display \/ HasOutcome =>
              ScreenShaped' /\ display'.shown = display.shown /\ display'.misled = display.misled
         /\ \A r : display' = [display EXCEPT !.recovering = r] =>
              ScreenShaped' /\ display'.shown = display.shown /\ display'.misled = display.misled
         /\ \A r, s : display' = [display EXCEPT !.outcomes = @ - 1, !.recovering = r, !.shown = s] =>
              ScreenShaped' /\ display'.shown = s /\ display'.misled = display.misled
  BY DEF Shows, ShowsAsOf, ShowsOutcome, HasOutcome, ScreenShaped

(* One who is asked and shows no more than before: who waits, waits on.    *)
LEMMA WhatIsShownStays ==
  ASSUME WindowInv, WindowSeen, connected, display'.shown = display.shown, display'.misled = display.misled,
         tally'.timeouts = tally.timeouts,
         StopQueued => StopQueued',
         \A u \in Threads : calls'[u] = calls[u] \/ ~Corrects(u)
  PROVE  WindowIsRight'
  <1>1. UNCHANGED <<downward, remote>> /\ WindowIsRight
    BY DEF WindowSeen, WindowInv
  <1>2. NoEvent' <=> NoEvent
    BY <1>1 DEF NoEvent
  <1>3. \A u \in Threads : Corrects(u) => Corrects(u)'
    BY CorrectsStays
  <1> QED BY <1>1, <1>2, <1>3 DEF WindowIsRight

(* The controls: what they ask for corrects what they make the window show.*)
LEMMA AControlAsks ==
  ASSUME WindowInv, NEW cmd \in {"start", "pause", "resume", "stop"}, Send("gui", cmd), ScreenShaped',
         UNCHANGED <<leaving, commands, connected, downward, answers, remote>>
  PROVE  WindowSeen /\ WindowTypes' /\ (connected => WindowIsRight')
  <1>0. WindowTypes /\ IdsAreGiven /\ "gui" \in Threads /\ cmd \in Asks /\ cmd \in Writing \union {"start"}
    BY DEF WindowInv, Threads, Asks, Writing
  <1>1. PipeTypes' /\ CallStep("gui") /\ Sends("gui", cmd)
    BY <1>0, ARequestIsSent
  <1>2. WindowSeen
    BY <1>0, <1>1 DEF WindowSeen
  <1>4. WindowTypes'
    BY <1>0, <1>1 DEF WindowTypes, PipeTypes
  <1>5. Corrects("gui")'
    BY <1>0, <1>1, <1>2, ARequestCorrects
  <1> QED BY <1>0, <1>2, <1>4, <1>5 DEF WindowIsRight

LEMMA PressesKeep ==
  ASSUME WindowInv, StartPressed \/ PausePressed \/ ResumePressed \/ PressedInVain
  PROVE  WindowInv'
  <1>0. WindowTypes /\ (leaving'.at \in {"reaps", "gone"} => ~connected)
    BY DEF WindowInv, StartPressed, PausePressed, ResumePressed, PressedInVain, Presses
  <1>1. CASE StartPressed \/ PausePressed \/ ResumePressed
    <2>1. PICK cmd \in {"start", "pause", "resume"} :
            /\ Send("gui", cmd) /\ (display' = display \/ Shows("starting"))
            /\ UNCHANGED <<leaving, commands, connected, downward, answers, remote>>
      BY <1>1 DEF StartPressed, PausePressed, ResumePressed, Presses
    <2>2. ScreenShaped'
      BY <1>0, <2>1, ShownMoves DEF WindowTypes
    <2>3. WindowSeen /\ WindowTypes' /\ (connected => WindowIsRight')
      BY <2>1, <2>2, AControlAsks
    <2> QED BY <1>0, <2>3, TheWindowKeeps
  <1>2. CASE PressedInVain
    <2>1. /\ ~connected /\ Shows("offline")
          /\ UNCHANGED <<leaving, calls, commands, connected, upward, downward, answers, remote, tally>>
      BY <1>2 DEF PressedInVain
    <2>2. WindowSeen
      BY <2>1 DEF WindowSeen, NoCallStep
    <2>3. ScreenShaped'
      BY <1>0, <2>1, ShownMoves DEF WindowTypes
    <2>4. WindowTypes'
      BY <1>0, <2>1, <2>3 DEF WindowTypes
    <2> QED BY <1>0, <2>1, <2>2, <2>4, TheWindowKeeps
  <1> QED BY <1>1, <1>2

(* The queue keeps the stops it holds.                                     *)
LEMMA StopsQueueUp ==
  ASSUME commands \in Seq({"stop", "recover"}), NEW cmd \in {"stop", "recover"},
         commands' = Append(commands, cmd)
  PROVE  /\ commands' \in Seq({"stop", "recover"})
         /\ StopQueued \/ cmd = "stop" => StopQueued'
  <1>1. PICK n \in Nat : n = Len(commands)
    OBVIOUS
  <1>2. /\ DOMAIN commands = 1 .. n /\ DOMAIN commands' = 1 .. n + 1 /\ commands'[n + 1] = cmd
        /\ \A i \in 1 .. n : commands'[i] = commands[i]
    BY <1>1
  <1>3. StopQueued => StopQueued'
    BY <1>2 DEF StopQueued
  <1>4. cmd = "stop" => StopQueued'
    BY <1>2 DEF StopQueued
  <1> QED BY <1>3, <1>4

LEMMA StopsAreTaken ==
  ASSUME commands \in Seq({"stop", "recover"}), commands # <<>>, commands' = Tail(commands)
  PROVE  /\ commands' \in Seq({"stop", "recover"}) /\ Head(commands) \in {"stop", "recover"}
         /\ StopQueued => Head(commands) = "stop" \/ StopQueued'
  <1>0. PICK n \in Nat : n = Len(commands) /\ n > 0
    OBVIOUS
  <1>1. /\ Head(commands) = commands[1] /\ DOMAIN commands = 1 .. n /\ DOMAIN commands' = 1 .. n - 1
        /\ commands' \in Seq({"stop", "recover"}) /\ Head(commands) \in {"stop", "recover"}
        /\ \A i \in 1 .. n - 1 : commands'[i] = commands[i + 1]
    BY <1>0
  <1>2. StopQueued => Head(commands) = "stop" \/ StopQueued'
    <2> SUFFICES ASSUME NEW i \in 1 .. n, commands[i] = "stop", Head(commands) # "stop"
                 PROVE  StopQueued'
      BY <1>1 DEF StopQueued
    <2>1. i - 1 \in 1 .. n - 1 /\ commands'[i - 1] = "stop"
      BY <1>0, <1>1
    <2> QED BY <1>1, <2>1 DEF StopQueued
  <1> QED BY <1>1, <1>2

LEMMA QueueingKeeps ==
  ASSUME WindowInv, StopPressed \/ RecoverPressed \/ RecoveryFinished
  PROVE  WindowInv'
  <1>0. /\ WindowTypes /\ commands \in Seq({"stop", "recover"}) /\ ScreenShaped
        /\ (leaving'.at \in {"reaps", "gone"} => ~connected)
        /\ UNCHANGED <<leaving, calls, connected, upward, downward, answers, remote, tally>>
    BY DEF WindowInv, WindowTypes, StopPressed, RecoverPressed, RecoveryFinished
  <1>1. WindowSeen
    BY <1>0 DEF WindowSeen, NoCallStep
  <1>2. CASE StopPressed
    <2>1. commands' = Append(commands, "stop") /\ Shows("stopping")
      BY <1>2 DEF StopPressed
    <2>2. commands' \in Seq({"stop", "recover"}) /\ StopQueued' /\ ScreenShaped'
      BY <1>0, <2>1, StopsQueueUp, ShownMoves
    <2>3. WindowTypes' /\ WindowIsRight'
      BY <1>0, <2>2 DEF WindowTypes, WindowIsRight
    <2> QED BY <1>0, <1>1, <2>3, TheWindowKeeps
  <1>3. CASE RecoverPressed
    <2>1. connected /\ commands' = Append(commands, "recover") /\ display' = [display EXCEPT !.recovering = Sidecars]
      BY <1>3 DEF RecoverPressed
    <2>2. /\ commands' \in Seq({"stop", "recover"}) /\ (StopQueued => StopQueued')
          /\ ScreenShaped' /\ display'.shown = display.shown /\ display'.misled = display.misled
      BY <1>0, <2>1, StopsQueueUp, ShownMoves
    <2>3. WindowTypes'
      BY <1>0, <2>2 DEF WindowTypes
    <2>4. WindowIsRight'
      BY <1>0, <1>1, <2>1, <2>2, WhatIsShownStays
    <2> QED BY <1>0, <1>1, <2>3, <2>4, TheWindowKeeps
  <1>4. CASE RecoveryFinished
    <2>1. PICK r, shown :
            /\ display' = [display EXCEPT !.outcomes = @ - 1, !.recovering = r, !.shown = shown]
            /\ connected => shown = display.shown
      BY <1>4 DEF RecoveryFinished, NextRecovery
    <2>2. commands' = commands \/ commands' = Append(commands, "recover")
      BY <1>4 DEF RecoveryFinished, NextRecovery
    <2>3. commands' \in Seq({"stop", "recover"}) /\ (StopQueued => StopQueued')
      BY <1>0, <2>2, StopsQueueUp DEF StopQueued
    <2>4. ScreenShaped' /\ display'.shown = shown /\ display'.misled = display.misled
      BY <1>0, <2>1, ShownMoves
    <2>5. WindowTypes'
      BY <1>0, <2>3, <2>4 DEF WindowTypes
    <2>6. connected => WindowIsRight'
      BY <1>0, <1>1, <2>1, <2>3, <2>4, WhatIsShownStays
    <2> QED BY <1>0, <1>1, <2>5, <2>6, TheWindowKeeps
  <1> QED BY <1>2, <1>3, <1>4

LEMMA TakingKeeps ==
  ASSUME WindowInv, TakesCommand
  PROVE  WindowInv'
  <1>0. /\ WindowTypes /\ IdsAreGiven /\ commands \in Seq({"stop", "recover"}) /\ ScreenShaped
        /\ (leaving'.at \in {"reaps", "gone"} => ~connected) /\ "command" \in Threads
        /\ UNCHANGED <<leaving, connected, downward, answers, remote>>
        /\ calls["command"].cmd = "none" /\ commands # <<>> /\ commands' = Tail(commands)
    BY DEF WindowInv, WindowTypes, TakesCommand, Threads, Waits
  <1>1. /\ commands' \in Seq({"stop", "recover"}) /\ Head(commands) \in {"stop", "recover"}
        /\ StopQueued => Head(commands) = "stop" \/ StopQueued'
    BY <1>0, StopsAreTaken
  <1>2. CASE connected
    <2>1. Send("command", Head(commands)) /\ display' = display
      BY <1>2 DEF TakesCommand
    <2>2. Head(commands) \in Asks
      BY <1>1 DEF Asks
    <2>3. PipeTypes' /\ CallStep("command") /\ Sends("command", Head(commands)) /\ tally'.timeouts = tally.timeouts
      BY <1>0, <2>1, <2>2, ARequestIsSent
    <2>4. WindowSeen
      BY <1>0, <2>3 DEF WindowSeen
    <2>5. WindowTypes'
      BY <1>0, <1>1, <2>1, <2>3 DEF ScreenShaped, WindowTypes, PipeTypes
    <2>6. CASE Head(commands) = "stop"
      <3>1. Corrects("command")'
        BY <1>0, <2>3, <2>4, <2>6, ARequestCorrects DEF Writing
      <3> QED BY <1>0, <2>4, <2>5, <3>1, TheWindowKeeps DEF WindowIsRight
    <2>7. CASE Head(commands) # "stop"
      <3>1. \A u \in Threads : calls'[u] = calls[u] \/ ~Corrects(u)
        BY <1>0, <2>3 DEF CallStep, Corrects, Writing
      <3>2. WindowIsRight'
        BY <1>1, <1>2, <2>1, <2>3, <2>4, <2>7, <3>1, WhatIsShownStays
      <3> QED BY <1>0, <2>4, <2>5, <3>2, TheWindowKeeps
    <2> QED BY <2>6, <2>7
  <1>3. CASE ~connected
    <2>1. UNCHANGED <<calls, upward, tally>> /\ (ShowsOutcome("offline") \/ Shows("offline"))
      BY <1>3 DEF TakesCommand
    <2>2. WindowSeen
      BY <1>0, <2>1 DEF WindowSeen, NoCallStep
    <2>3. ScreenShaped'
      BY <1>0, <2>1, ShownMoves
    <2>4. WindowTypes'
      BY <1>0, <1>1, <2>1, <2>3 DEF WindowTypes
    <2> QED BY <1>0, <1>3, <2>2, <2>4, TheWindowKeeps
  <1> QED BY <1>2, <1>3

(* An answer is taken for what it is, and shows the state it was given in. *)
LEMMA AnswersKeep ==
  ASSUME WindowInv, NEW t \in Threads, GetsAnswer(t)
  PROVE  WindowInv'
  <1>0. /\ WindowTypes /\ IdsAreGiven /\ AnswersMatch /\ AnswersShowStates /\ ScreenShaped
        /\ (leaving'.at \in {"reaps", "gone"} => ~connected)
        /\ UNCHANGED <<leaving, commands, connected, downward, remote>>
        /\ connected => FramesAreCurrent
    BY DEF WindowInv, WindowTypes, GetsAnswer
  <1>1. PICK a \in Answered(t) :
          /\ answers' = answers \ {a}
          /\ IF a.ok \/ calls[t].cmd = "shutdown" THEN TakesAnswer(t, a) ELSE Refused(t)
    BY DEF GetsAnswer
  <1>2. a \in answers /\ a.id = calls[t].id /\ Waits(t) /\ a.cmd = calls[t].cmd
    BY <1>0, <1>1 DEF Answered, AnswersMatch, Same
  <1>3. calls[t].cmd \in Asks
    BY <1>0, <1>2, TheWindowIsTyped DEF Waits
  <1>4. ASSUME PipeTypes', CallStep(t), ScreenShaped' PROVE WindowSeen /\ WindowTypes'
    <2>1. WindowSeen
      BY <1>0, <1>1, <1>4 DEF WindowSeen
    <2>2. WindowTypes'
      BY <1>0, <1>1, <1>4 DEF WindowTypes, PipeTypes
    <2> QED BY <2>1, <2>2
  <1>5. CASE a.ok \/ calls[t].cmd = "shutdown"
    <2>1. TakesAnswer(t, a)
      BY <1>1, <1>5
    <2>2. /\ calls' = [calls EXCEPT ![t] = Free] /\ upward' = upward /\ tally' = tally
      BY <2>1 DEF TakesAnswer, Done
    <2>3. PipeTypes' /\ CallStep(t)
      BY <1>0, <2>2, ARequestIsOver
    <2>4. CASE calls[t].cmd \in Writing
      <3>1. /\ calls[t].cmd = "pause" => ShowsAsOf("paused", a.overtaken)
            /\ calls[t].cmd = "resume" => ShowsAsOf("recording", a.overtaken)
            /\ calls[t].cmd = "stop" => ShowsAsOf("idle", a.overtaken)
            /\ calls[t].cmd = "stats" => ShowsAsOf(a.state, a.overtaken)
        BY <2>1 DEF TakesAnswer
      <3>2. a.ok
        BY <1>5, <2>4 DEF Writing
      <3>3. ShowsAsOf(a.state, a.overtaken)
        BY <1>0, <1>2, <2>4, <3>1, <3>2 DEF Writing, AnswersShowStates, ShowsItsState
      <3>4. ScreenShaped' /\ display'.shown = a.state /\ display'.misled = a.overtaken
        BY <1>0, <3>3, ShownMoves
      <3>5. WindowSeen /\ WindowTypes'
        BY <1>4, <2>3, <3>4
      <3>6. ASSUME connected PROVE WindowIsRight'
        <4>1. NoEvent => a.overtaken \/ a.state = remote.state
          BY <1>0, <1>2, <3>6 DEF FramesAreCurrent
        <4>2. NoEvent' => NoEvent
          BY <1>0 DEF NoEvent
        <4> QED BY <1>0, <3>4, <4>1, <4>2 DEF WindowIsRight
      <3> QED BY <1>0, <3>5, <3>6, TheWindowKeeps
    <2>5. CASE calls[t].cmd \notin Writing
      <3>1. HasOutcome \/ UNCHANGED display
        BY <2>1, <2>5 DEF TakesAnswer, Writing
      <3>2. ScreenShaped' /\ display'.shown = display.shown /\ display'.misled = display.misled
        BY <1>0, <3>1, ShownMoves
      <3>3. WindowSeen /\ WindowTypes'
        BY <1>4, <2>3, <3>2
      <3>4. ~Corrects(t)
        BY <1>2, <1>5, <2>5 DEF Corrects, Granted
      <3>5. \A u \in Threads : calls'[u] = calls[u] \/ ~Corrects(u)
        BY <2>3, <3>4 DEF CallStep
      <3>6. StopQueued => StopQueued'
        BY <1>0 DEF StopQueued
      <3>7. connected => WindowIsRight'
        BY <2>2, <3>2, <3>3, <3>5, <3>6, WhatIsShownStays
      <3> QED BY <1>0, <3>3, <3>7, TheWindowKeeps
    <2> QED BY <2>4, <2>5
  <1>6. CASE ~(a.ok \/ calls[t].cmd = "shutdown")
    <2>1. Refused(t)
      BY <1>1, <1>6
    <2>2. ScreenShaped'
      BY <1>0, <2>1, ShownMoves DEF Refused
    <2>3. CASE connected
      <3>1. Send(t, "stats") /\ "stats" \in Asks /\ "stats" \in Writing
        BY <2>1, <2>3 DEF Refused, Asks, Writing
      <3>2. PipeTypes' /\ CallStep(t) /\ Sends(t, "stats")
        BY <1>0, <3>1, ARequestIsSent
      <3>3. WindowSeen /\ WindowTypes'
        BY <1>4, <2>2, <3>2
      <3>4. Corrects(t)'
        BY <1>0, <3>1, <3>2, <3>3, ARequestCorrects
      <3> QED BY <1>0, <3>3, <3>4, TheWindowKeeps DEF WindowIsRight
    <2>4. CASE ~connected
      <3>1. calls' = [calls EXCEPT ![t] = Free] /\ upward' = upward /\ tally' = tally
        BY <2>1, <2>4 DEF Refused, Done
      <3>2. PipeTypes' /\ CallStep(t)
        BY <1>0, <3>1, ARequestIsOver
      <3> QED BY <1>0, <1>4, <2>2, <2>4, <3>2, TheWindowKeeps
    <2> QED BY <2>3, <2>4
  <1> QED BY <1>5, <1>6

LEMMA SilenceKeeps ==
  ASSUME WindowInv, NEW t \in Threads, TimesOut(t) \/ EngineGone(t)
  PROVE  WindowInv'
  <1>0. /\ WindowTypes /\ ScreenShaped /\ (leaving'.at \in {"reaps", "gone"} => ~connected)
        /\ UNCHANGED <<leaving, commands, connected, downward, answers, remote>>
        /\ tally \in Tallies
    BY DEF WindowInv, WindowTypes, TimesOut, EngineGone
  <1>1. calls' = [calls EXCEPT ![t] = Free] /\ upward' = upward
        /\ (tally' = tally \/ tally' = [tally EXCEPT !.timeouts = @ + 1])
    BY DEF TimesOut, EngineGone, GivesUp, Done
  <1>2. PipeTypes' /\ CallStep(t)
    BY <1>0, <1>1, ARequestIsOver
  <1>3. WindowSeen
    BY <1>0, <1>2 DEF WindowSeen
  <1>4. \/ UNCHANGED display /\ calls[t].cmd = "shutdown"
        \/ ShowsOutcome("offline") \/ Shows("offline")
    BY DEF TimesOut, EngineGone, GivesUp
  <1>5. /\ ScreenShaped'
        /\ display'.shown = "offline" \/ (display' = display /\ calls[t].cmd = "shutdown")
    BY <1>0, <1>4, ShownMoves
  <1>6. WindowTypes'
    BY <1>0, <1>2, <1>5 DEF WindowTypes, PipeTypes
  <1>7. CASE TimesOut(t)
    <2>1. tally'.timeouts = tally.timeouts + 1 /\ tally.timeouts \in Nat /\ connected
      BY <1>0, <1>7 DEF TimesOut, Tallies
    <2>2. CASE display'.shown = "offline"
      BY <1>0, <1>3, <1>6, <2>1, <2>2, TheWindowKeeps DEF WindowIsRight
    <2>3. CASE display' = display /\ calls[t].cmd = "shutdown"
      <3>1. WindowIsRight /\ (NoEvent' <=> NoEvent) /\ (StopQueued' <=> StopQueued)
        BY <1>0, <2>1 DEF WindowInv, NoEvent, StopQueued
      <3>2. \A u \in Threads : Corrects(u) => calls'[u] = calls[u]
        BY <1>2, <2>3 DEF CallStep, Corrects, Writing
      <3>3. \A u \in Threads : Corrects(u) => Corrects(u)'
        BY <1>3, <3>2, CorrectsStays
      <3>4. WindowIsRight'
        BY <1>0, <2>1, <2>3, <3>1, <3>3 DEF WindowIsRight
      <3> QED BY <1>0, <1>3, <1>6, <3>4, TheWindowKeeps
    <2> QED BY <1>5, <2>2, <2>3
  <1>8. CASE EngineGone(t)
    <2>1. ~connected
      BY <1>8 DEF EngineGone
    <2> QED BY <1>0, <1>3, <1>6, <2>1, TheWindowKeeps
  <1> QED BY <1>7, <1>8

(* Leaving, and coming back to an engine of its own.                       *)
LEMMA DepartureKeeps ==
  ASSUME WindowInv, Leaves \/ AsksToShutDown \/ Closes \/ Reaps \/ StartsEngine
  PROVE  WindowInv'
  <1>0. /\ WindowTypes /\ IdsAreGiven /\ AnswersMatch /\ LiveAsItSays /\ AnswersShowStates
        /\ ScreenShaped /\ "gui" \in Threads
        /\ leaving = NotLeaving \/ leaving \in Leavings
        /\ leaving.at \in {"reaps", "gone"} => ~connected
    BY DEF WindowInv, WindowTypes, Threads
  <1>1. ASSUME NEW at \in {"closes", "reaps", "gone"}, leaving.at # "no", leaving' = [leaving EXCEPT !.at = at]
        PROVE  leaving' \in Leavings /\ leaving'.at = at
    <2>1. leaving \in Leavings
      BY <1>0, <1>1 DEF NotLeaving
    <2>2. leaving'.at = at
      BY <1>1, <2>1 DEF Leavings
    <2> QED BY <1>1, <2>1, <2>2, LeavingMoves
  <1>2. CASE Leaves
    <2>1. PICK as \in {"restart", "exit"}, at \in {"stopping", "asks"} : leaving' = [as |-> as, at |-> at]
      BY <1>2 DEF Leaves
    <2>2. /\ leaving' \in Leavings /\ leaving'.at \notin {"reaps", "gone"}
          /\ UNCHANGED <<commands, connected, downward, answers, remote>>
      BY <1>2, <2>1 DEF Leaves, Leavings
    <2>3. CASE Send("gui", "stop") /\ Shows("stopping")
      <3>1. PipeTypes' /\ CallStep("gui") /\ Sends("gui", "stop")
        BY <1>0, <2>3, ARequestIsSent DEF Asks
      <3>2. ScreenShaped'
        BY <1>0, <2>3, ShownMoves
      <3>3. WindowSeen
        BY <1>0, <2>2, <3>1 DEF WindowSeen
      <3>4. WindowTypes'
        BY <1>0, <2>2, <3>1, <3>2 DEF WindowTypes, PipeTypes
      <3>5. Corrects("gui")'
        BY <1>0, <3>1, <3>3, ARequestCorrects DEF Writing
      <3> QED BY <1>0, <2>2, <3>3, <3>4, <3>5, TheWindowKeeps DEF WindowIsRight
    <2>4. CASE UNCHANGED <<calls, upward, tally, display>>
      <3>1. WindowSeen
        BY <2>2, <2>4 DEF WindowSeen, NoCallStep
      <3>2. WindowTypes'
        BY <1>0, <2>2, <2>4 DEF ScreenShaped, WindowTypes
      <3>3. connected => WindowIsRight'
        BY <2>2, <2>4, <3>1, WhatIsShownStays DEF StopQueued
      <3> QED BY <2>2, <3>1, <3>2, <3>3, TheWindowKeeps
    <2> QED BY <1>2, <2>3, <2>4 DEF Leaves
  <1>3. CASE AsksToShutDown
    <2>1. /\ leaving' \in Leavings /\ leaving'.at = "closes" /\ calls["gui"].cmd = "none"
          /\ UNCHANGED <<display, commands, connected, downward, answers, remote>>
      BY <1>1, <1>3 DEF AsksToShutDown, Waits
    <2>2. CASE connected
      <3>1. Send("gui", "shutdown")
        BY <1>3, <2>2 DEF AsksToShutDown
      <3>2. PipeTypes' /\ CallStep("gui") /\ tally'.timeouts = tally.timeouts
        BY <1>0, <3>1, ARequestIsSent DEF Asks
      <3>3. WindowSeen
        BY <1>0, <2>1, <3>2 DEF WindowSeen
      <3>4. WindowTypes'
        BY <1>0, <2>1, <3>2 DEF ScreenShaped, WindowTypes, PipeTypes
      <3>5. \A u \in Threads : calls'[u] = calls[u] \/ ~Corrects(u)
        BY <2>1, <3>2 DEF CallStep, Corrects, Writing
      <3>6. WindowIsRight'
        BY <2>1, <2>2, <3>2, <3>3, <3>5, WhatIsShownStays DEF StopQueued
      <3> QED BY <2>1, <3>3, <3>4, <3>6, TheWindowKeeps
    <2>3. CASE ~connected
      <3>1. UNCHANGED <<calls, upward, tally>>
        BY <1>3, <2>3 DEF AsksToShutDown
      <3>2. WindowSeen
        BY <2>1, <3>1 DEF WindowSeen, NoCallStep
      <3>3. WindowTypes'
        BY <1>0, <2>1, <3>1 DEF ScreenShaped, WindowTypes
      <3> QED BY <2>1, <2>3, <3>2, <3>3, TheWindowKeeps
    <2> QED BY <2>2, <2>3
  <1>4. CASE Closes
    <2>1. /\ leaving' \in Leavings /\ connected' = FALSE /\ downward' = <<>>
          /\ (commands' = <<>> \/ commands' = commands)
          /\ UNCHANGED <<display, calls, upward, answers, tally, remote>>
      BY <1>1, <1>4 DEF Closes, ClosesClient
    <2>2. <<>> \in Seq(Frames) /\ <<>> \in Seq({"stop", "recover"}) /\ DOMAIN <<>> = {}
      OBVIOUS
    <2>3. WindowTypes'
      BY <1>0, <2>1, <2>2 DEF ScreenShaped, WindowTypes
    <2>4. IdsAreGiven' /\ AnswersMatch'
      BY <1>0, <2>1, <2>2 DEF IdsAreGiven, AnswersMatch, Same, Waits
    <2>5. LiveAsItSays' /\ AnswersShowStates'
      BY <1>0, <2>1, <2>2 DEF LiveAsItSays, Recording1, AnswersShowStates, ShowsItsState
    <2> QED BY <2>1, <2>3, <2>4, <2>5 DEF WindowInv
  <1>5. CASE Reaps
    <2>1. /\ leaving' \in Leavings /\ ~connected
          /\ UNCHANGED <<calls, commands, connected, upward, downward, answers, remote, tally>> /\ Shows("offline")
      BY <1>0, <1>1, <1>5 DEF Reaps
    <2>2. ScreenShaped'
      BY <1>0, <2>1, ShownMoves
    <2>3. WindowSeen
      BY <2>1 DEF WindowSeen, NoCallStep
    <2>4. WindowTypes'
      BY <1>0, <2>1, <2>2 DEF WindowTypes
    <2> QED BY <2>1, <2>3, <2>4, TheWindowKeeps
  <1>6. CASE StartsEngine
    <2>1. /\ leaving' = NotLeaving /\ connected' = TRUE /\ remote' = FreshEngine
          /\ upward' = <<>> /\ downward' = <<>> /\ answers' = {} /\ Shows("idle") /\ UNCHANGED <<calls, commands>>
          /\ tally' = [tally EXCEPT !.engines = @ + 1] /\ \A t \in Threads : ~Waits(t)
      BY <1>6 DEF StartsEngine, NotLeaving
    <2>2. <<>> \in Seq(Frames) /\ <<>> \in Seq(Requests) /\ DOMAIN <<>> = {}
      OBVIOUS
    <2>3. ScreenShaped' /\ display'.shown = "idle"
      BY <1>0, <2>1, ShownMoves
    <2>4. /\ remote' \in Remotes /\ remote'.at = "up" /\ remote'.state = "idle" /\ remote'.id = 0
      BY <2>1 DEF FreshEngine, Remotes, States
    <2>5. tally' \in Tallies /\ tally'.ids = tally.ids /\ tally.ids \in Nat
      <3>1. tally \in Tallies /\ tally' = [tally EXCEPT !.engines = @ + 1]
        BY <1>0, <2>1 DEF WindowTypes
      <3> QED BY <3>1 DEF Tallies
    <2>6. WindowTypes'
      BY <1>0, <2>1, <2>2, <2>3, <2>4, <2>5 DEF WindowTypes
    <2>7. IdsAreGiven' /\ AnswersMatch'
      BY <1>0, <2>1, <2>2, <2>4, <2>5 DEF IdsAreGiven, AnswersMatch, Waits
    <2>8. LiveAsItSays' /\ AnswersShowStates'
      BY <2>1, <2>2, <2>4 DEF LiveAsItSays, AnswersShowStates
    <2>9. FramesAreCurrent' /\ WindowIsRight'
      BY <2>1, <2>2, <2>3, <2>4 DEF FramesAreCurrent, Answered, WindowIsRight
    <2>10. leaving'.at \notin {"reaps", "gone"}
      BY <2>1 DEF NotLeaving
    <2> QED BY <2>6, <2>7, <2>8, <2>9, <2>10 DEF WindowInv
  <1> QED BY <1>2, <1>3, <1>4, <1>5, <1>6

(* The reader takes the first frame off the pipe.                          *)
LEMMA AFrameIsTaken ==
  ASSUME WindowTypes, downward # <<>>, downward' = Tail(downward)
  PROVE  /\ 1 \in DOMAIN downward /\ Head(downward) = downward[1] /\ downward[1] \in Frames
         /\ downward' \in Seq(Frames)
         /\ \A i \in DOMAIN downward' :
              /\ i + 1 \in DOMAIN downward /\ downward'[i] = downward[i + 1]
              /\ NoEventAfter(i)' => NoEventAfter(i + 1)
         /\ NoEvent' => NoEventAfter(1)
         /\ NoEvent => NoEvent'
         /\ downward[1].kind # "event" /\ NoEvent' => NoEvent
  <1>0. PICK n \in Nat : n = Len(downward) /\ n > 0
    BY DEF WindowTypes
  <1>1. /\ Head(downward) = downward[1] /\ DOMAIN downward = 1 .. n /\ DOMAIN downward' = 1 .. n - 1
        /\ Len(downward) = n /\ Len(downward') = n - 1 /\ 1 \in 1 .. n
        /\ downward' \in Seq(Frames) /\ downward[1] \in Frames
        /\ \A i \in 1 .. n - 1 : downward'[i] = downward[i + 1]
    BY <1>0 DEF WindowTypes
  <1>2. \A j \in 2 .. n : j - 1 \in 1 .. n - 1 /\ downward[j] = downward'[j - 1]
    BY <1>0, <1>1
  <1>3. ASSUME NEW i \in 1 .. n - 1, NoEventAfter(i)' PROVE NoEventAfter(i + 1)
    <2> SUFFICES ASSUME NEW j \in i + 2 .. n PROVE downward[j].kind # "event"
      BY <1>1 DEF NoEventAfter
    <2>1. j - 1 \in i + 1 .. n - 1 /\ downward[j] = downward'[j - 1]
      BY <1>0, <1>2
    <2> QED BY <1>1, <1>3, <2>1 DEF NoEventAfter
  <1>4. ASSUME NoEvent' PROVE NoEventAfter(1)
    <2> SUFFICES ASSUME NEW j \in 2 .. n PROVE downward[j].kind # "event"
      BY <1>1 DEF NoEventAfter
    <2> QED BY <1>1, <1>2, <1>4 DEF NoEvent
  <1>5. NoEvent => NoEvent'
    BY <1>0, <1>1 DEF NoEvent
  <1>6. downward[1].kind # "event" /\ NoEvent' => NoEvent
    <2> SUFFICES ASSUME downward[1].kind # "event", NoEvent', NEW j \in 1 .. n PROVE downward[j].kind # "event"
      BY <1>1 DEF NoEvent
    <2>1. CASE j = 1
      BY <2>1
    <2>2. CASE j \in 2 .. n
      BY <1>1, <1>2, <2>2 DEF NoEvent
    <2> QED BY <1>0, <2>1, <2>2
  <1> QED BY <1>0, <1>1, <1>3, <1>4, <1>5, <1>6

(* An answer that is overtaken is the same answer.                         *)
Overtaken(a) == [a EXCEPT !.overtaken = TRUE]
SameFrame(a, b) == /\ a.kind = b.kind /\ a.id = b.id /\ a.cmd = b.cmd /\ a.ok = b.ok /\ a.state = b.state

LEMMA OvertakenIsTheSame ==
  \A a \in Frames : Overtaken(a) \in Frames /\ Overtaken(a).overtaken /\ SameFrame(Overtaken(a), a)
  BY DEF Frames, Overtaken, SameFrame

LEMMA ReaderKeeps ==
  ASSUME WindowInv, ReaderDispatches \/ ReaderEnds
  PROVE  WindowInv'
  <1>0. /\ WindowTypes /\ IdsAreGiven /\ AnswersMatch /\ LiveAsItSays /\ AnswersShowStates
        /\ ScreenShaped
    BY DEF WindowInv, WindowTypes
  <1>1. CASE ReaderDispatches
    <2>0. /\ connected /\ downward # <<>> /\ downward' = Tail(downward)
          /\ UNCHANGED <<leaving, calls, commands, connected, upward, remote, tally>>
          /\ FramesAreCurrent /\ WindowIsRight
          /\ leaving.at \notin {"reaps", "gone"}
      BY <1>1 DEF ReaderDispatches, WindowInv
    <2> DEFINE f == downward[1]
    <2>1. /\ 1 \in DOMAIN downward /\ Head(downward) = f /\ f \in Frames /\ downward' \in Seq(Frames)
          /\ \A i \in DOMAIN downward' :
               /\ i + 1 \in DOMAIN downward /\ downward'[i] = downward[i + 1]
               /\ NoEventAfter(i)' => NoEventAfter(i + 1)
          /\ NoEvent' => NoEventAfter(1)
          /\ NoEvent => NoEvent'
          /\ f.kind # "event" /\ NoEvent' => NoEvent
      BY <1>0, <2>0, AFrameIsTaken
    <2>2. /\ f.kind = "event" => Shows(f.state) /\ answers' = {Overtaken(a) : a \in answers}
          /\ f.kind # "event" => answers' = answers \union {f} /\ display' = display
      BY <1>1, <2>1 DEF ReaderDispatches, Dispatches1, Overtaken
    <2>3. NoEvent' => f.state = remote.state
      BY <2>0, <2>1 DEF FramesAreCurrent
    <2>4. f.kind \in {"answer", "event"} /\ (f.kind # "event" => f.kind = "answer")
      BY <2>1 DEF Frames
    <2>5. /\ f.id <= tally.ids
          /\ f.kind = "answer" /\ f.ok => ShowsItsState(f)
          /\ \A t \in Threads : Waits(t) /\ f.kind = "answer" => Same(f, t)
      BY <1>0, <2>1 DEF IdsAreGiven, AnswersShowStates, AnswersMatch
    <2> HIDE DEF f
    <2>6. ScreenShaped' /\ answers' \subseteq Frames
      <3>1. answers \subseteq Frames
        BY <1>0 DEF WindowTypes
      <3> QED BY <1>0, <2>1, <2>2, <3>1, ShownMoves, OvertakenIsTheSame
    <2>7. WindowTypes'
      BY <1>0, <2>0, <2>1, <2>6 DEF WindowTypes
    <2>8. \A a \in answers' : (\E b \in answers : SameFrame(a, b)) \/ (a = f /\ f.kind = "answer")
      <3>1. \A a \in answers : a \in Frames /\ SameFrame(a, a)
        BY <1>0 DEF WindowTypes, SameFrame
      <3> QED BY <2>2, <2>4, <3>1, OvertakenIsTheSame
    <2>9. IdsAreGiven'
      BY <1>0, <2>0, <2>1, <2>5, <2>8 DEF IdsAreGiven, SameFrame
    <2>10. AnswersMatch'
      BY <1>0, <2>0, <2>1, <2>5, <2>8 DEF AnswersMatch, Same, Waits, SameFrame
    <2>11. LiveAsItSays'
      BY <1>0, <2>0 DEF LiveAsItSays, Recording1
    <2>12. AnswersShowStates'
      BY <1>0, <2>1, <2>5, <2>8 DEF AnswersShowStates, ShowsItsState, SameFrame
    <2>13. FramesAreCurrent'
      <3>1. ASSUME NEW i \in DOMAIN downward', NoEventAfter(i)' PROVE downward'[i].state = remote'.state
        BY <2>0, <2>1, <3>1 DEF FramesAreCurrent
      <3>2. ASSUME NoEvent', NEW a \in answers', ~a.overtaken PROVE a.state = remote'.state
        <4>1. CASE f.kind = "event"
          <5>1. PICK b \in answers : a = Overtaken(b)
            BY <2>2, <4>1
          <5>2. b \in Frames
            BY <1>0 DEF WindowTypes
          <5> QED BY <3>2, <5>1, <5>2, OvertakenIsTheSame
        <4>2. CASE f.kind # "event"
          BY <2>0, <2>1, <2>2, <2>3, <3>2, <4>2 DEF FramesAreCurrent
        <4> QED BY <4>1, <4>2
      <3> QED BY <3>1, <3>2 DEF FramesAreCurrent
    <2>14. WindowIsRight'
      <3> SUFFICES ASSUME NoEvent' PROVE \/ display'.shown = remote'.state
                                         \/ tally'.timeouts > 0 /\ display'.shown = "offline"
                                         \/ display'.misled
                                         \/ \E t \in Threads : Corrects(t)'
                                         \/ StopQueued'
        BY DEF WindowIsRight
      <3>1. CASE f.kind = "event"
        <4>1. display'.shown = f.state
          BY <1>0, <2>2, <3>1, ShownMoves
        <4> QED BY <2>0, <2>3, <4>1
      <3>2. CASE f.kind # "event"
        <4>1. NoEvent /\ display' = display
          BY <2>1, <2>2, <3>2
        <4>2. ASSUME NEW t \in Threads, Corrects(t) PROVE Corrects(t)'
          <5>1. ASSUME Granted(t)' PROVE Granted(t)
            <6>1. CASE \E i \in DOMAIN downward' :
                         downward'[i].kind = "answer" /\ downward'[i].id = calls'[t].id /\ downward'[i].ok
              BY <2>0, <2>1, <6>1 DEF Granted
            <6>2. CASE \E a \in answers' : a.id = calls'[t].id /\ a.ok
              <7>1. PICK a \in answers' : a.id = calls[t].id /\ a.ok
                BY <2>0, <6>2
              <7>2. CASE \E b \in answers : SameFrame(a, b)
                BY <7>1, <7>2 DEF Granted, SameFrame
              <7>3. CASE a = f /\ f.kind = "answer"
                BY <2>1, <7>1, <7>3 DEF Granted, f
              <7> QED BY <2>8, <7>2, <7>3
            <6> QED BY <5>1, <6>1, <6>2 DEF Granted
          <5> QED BY <2>0, <4>2, <5>1 DEF Corrects
        <4>3. StopQueued => StopQueued'
          BY <2>0 DEF StopQueued
        <4> QED BY <2>0, <4>1, <4>2, <4>3 DEF WindowIsRight
      <3> QED BY <3>1, <3>2
    <2> QED BY <2>0, <2>7, <2>9, <2>10, <2>11, <2>12, <2>13, <2>14 DEF WindowInv
  <1>2. CASE ReaderEnds
    <2>0. /\ connected' = FALSE
          /\ UNCHANGED <<display, leaving, calls, commands, upward, downward, answers, remote, tally>>
      BY <1>2 DEF ReaderEnds
    <2>1. WindowTypes'
      BY <1>0, <2>0 DEF ScreenShaped, WindowTypes
    <2>2. IdsAreGiven' /\ AnswersMatch'
      BY <1>0, <2>0 DEF IdsAreGiven, AnswersMatch, Same, Waits
    <2>3. LiveAsItSays' /\ AnswersShowStates'
      BY <1>0, <2>0 DEF LiveAsItSays, Recording1, AnswersShowStates, ShowsItsState
    <2> QED BY <2>0, <2>1, <2>2, <2>3 DEF WindowInv
  <1> QED BY <1>1, <1>2

(* What the engine does, seen from the window: the frames it writes carry  *)
(* its new state, and a new state is announced.                            *)
EngineSeen(fs) ==
    /\ UNCHANGED <<display, leaving, calls, commands, connected, answers>>
    /\ tally' \in Tallies /\ tally'.ids = tally.ids /\ tally'.timeouts = tally.timeouts
    /\ remote' \in Remotes /\ remote'.id <= tally.ids
    /\ upward' = upward \/ upward' = <<>> \/ (upward # <<>> /\ upward' = Tail(upward))
    /\ downward' = IF connected THEN downward \o fs ELSE downward
    /\ \A i \in DOMAIN fs : fs[i].state = remote'.state
    /\ remote'.state # remote.state => \E i \in DOMAIN fs : fs[i].kind = "event"
    /\ \A i \in DOMAIN fs :
         /\ fs[i].id <= tally.ids
         /\ fs[i].kind = "answer" /\ fs[i].ok => ShowsItsState(fs[i])
         /\ \A t \in Threads : fs[i].kind = "answer" /\ Waits(t) => Same(fs[i], t)
         /\ fs[i].kind = "answer" /\ fs[i].ok /\ fs[i].cmd = "start" => \E j \in DOMAIN fs : fs[j].kind = "event"
    /\ \A t \in Threads : Waits(t) /\ remote'.at = "stopping" /\ remote'.id = calls[t].id => calls[t].cmd = "stop"

LEMMA UpwardShrinks ==
  ASSUME WindowTypes, upward' = upward \/ upward' = <<>> \/ (upward # <<>> /\ upward' = Tail(upward))
  PROVE  /\ upward' \in Seq(Requests)
         /\ \A i \in DOMAIN upward' : \E j \in DOMAIN upward : upward'[i] = upward[j]
  <1>0. upward \in Seq(Requests)
    BY DEF WindowTypes
  <1>1. CASE upward' = upward
    BY <1>0, <1>1
  <1>2. CASE upward' = <<>>
    BY <1>2
  <1>3. CASE upward # <<>> /\ upward' = Tail(upward)
    <2>1. PICK n \in Nat : n = Len(upward) /\ n > 0
      BY <1>0, <1>3
    <2>2. /\ DOMAIN upward = 1 .. n /\ DOMAIN upward' = 1 .. n - 1 /\ upward' \in Seq(Requests)
          /\ \A i \in 1 .. n - 1 : i + 1 \in 1 .. n /\ upward'[i] = upward[i + 1]
      BY <1>0, <1>3, <2>1
    <2> QED BY <2>2
  <1> QED BY <1>1, <1>2, <1>3

(* The frames in the pipe, those the engine has just written included.     *)
LEMMA FramesAreWritten ==
  ASSUME WindowTypes, NEW fs \in Seq(Frames), downward' = IF connected THEN downward \o fs ELSE downward
  PROVE  /\ downward' \in Seq(Frames)
         /\ \A i \in DOMAIN downward' :
              \/ i \in DOMAIN downward /\ downward'[i] = downward[i]
              \/ \E j \in DOMAIN fs : downward'[i] = fs[j]
         /\ connected /\ NoEvent' => NoEvent /\ \A j \in DOMAIN fs : fs[j].kind # "event"
         /\ connected => \A i \in DOMAIN downward : i \in DOMAIN downward' /\ NoEventAfter(i)' =>
              NoEventAfter(i) /\ \A j \in DOMAIN fs : fs[j].kind # "event"
  <1>0. downward \in Seq(Frames)
    BY DEF WindowTypes
  <1>1. CASE ~connected
    BY <1>0, <1>1
  <1>2. CASE connected
    <2>1. PICK n \in Nat, m \in Nat : n = Len(downward) /\ m = Len(fs)
      BY <1>0
    <2>2. /\ DOMAIN downward = 1 .. n /\ DOMAIN fs = 1 .. m /\ DOMAIN downward' = 1 .. n + m
          /\ Len(downward) = n /\ Len(downward') = n + m /\ downward' \in Seq(Frames)
          /\ \A i \in 1 .. n : downward'[i] = downward[i]
          /\ \A j \in 1 .. m : n + j \in 1 .. n + m /\ downward'[n + j] = fs[j]
      BY <1>0, <1>2, <2>1
    <2>3. \A i \in 1 .. n + m : i \in 1 .. n \/ (i - n \in 1 .. m /\ downward'[i] = fs[i - n])
      BY <2>1, <2>2
    <2>4. ASSUME NoEvent' PROVE NoEvent /\ \A j \in DOMAIN fs : fs[j].kind # "event"
      <3>1. \A k \in 1 .. n + m : downward'[k].kind # "event"
        BY <2>2, <2>4 DEF NoEvent
      <3>2. 1 .. n \subseteq 1 .. n + m
        BY <2>1
      <3>3. NoEvent
        BY <2>2, <3>1, <3>2 DEF NoEvent
      <3> QED BY <2>2, <3>1, <3>3
    <2>5. ASSUME NEW i \in 1 .. n, NoEventAfter(i)'
          PROVE  NoEventAfter(i) /\ \A j \in DOMAIN fs : fs[j].kind # "event"
      <3>1. \A k \in i + 1 .. n + m : downward'[k].kind # "event"
        BY <2>2, <2>5 DEF NoEventAfter
      <3>2. \A k \in i + 1 .. n : k \in i + 1 .. n + m /\ k \in 1 .. n
        BY <2>1
      <3>4. NoEventAfter(i)
        BY <2>2, <3>1, <3>2 DEF NoEventAfter
      <3>3. \A j \in 1 .. m : n + j \in i + 1 .. n + m
        BY <2>1
      <3> QED BY <2>2, <3>1, <3>3, <3>4
    <2>6. \A i \in DOMAIN downward' :
              \/ i \in DOMAIN downward /\ downward'[i] = downward[i]
              \/ \E j \in DOMAIN fs : downward'[i] = fs[j]
      BY <2>2, <2>3
    <2> QED BY <2>2, <2>4, <2>5, <2>6
  <1> QED BY <1>1, <1>2

(* The pipe's invariants survive the engine's frames.                      *)
LEMMA EngineKeepsThePipe ==
  ASSUME WindowTypes, IdsAreGiven, AnswersMatch, NEW fs \in Seq(Frames), EngineSeen(fs)
  PROVE  WindowTypes' /\ IdsAreGiven' /\ AnswersMatch'
  <1>0. /\ UNCHANGED <<display, leaving, calls, commands, connected, answers>>
        /\ tally'.ids = tally.ids
        /\ downward' = IF connected THEN downward \o fs ELSE downward
        /\ \A i \in DOMAIN fs :
             /\ fs[i].id <= tally.ids
             /\ \A t \in Threads : fs[i].kind = "answer" /\ Waits(t) => Same(fs[i], t)
    BY DEF EngineSeen
  <1>1. /\ upward' \in Seq(Requests)
        /\ \A i \in DOMAIN upward' : \E j \in DOMAIN upward : upward'[i] = upward[j]
    BY <1>0, UpwardShrinks DEF EngineSeen
  <1>2. /\ downward' \in Seq(Frames)
        /\ \A i \in DOMAIN downward' :
             \/ i \in DOMAIN downward /\ downward'[i] = downward[i]
             \/ \E j \in DOMAIN fs : downward'[i] = fs[j]
    BY <1>0, FramesAreWritten
  <1>3. WindowTypes'
    BY <1>0, <1>1, <1>2 DEF ScreenShaped, WindowTypes, EngineSeen
  <1>4. IdsAreGiven'
    BY <1>0, <1>1, <1>2 DEF IdsAreGiven, EngineSeen
  <1>5. AnswersMatch'
    <2> SUFFICES ASSUME NEW t \in Threads, Waits(t)
                 PROVE  /\ \A i \in DOMAIN upward' : Same(upward[i], t)'
                        /\ \A i \in DOMAIN downward' : (downward[i].kind = "answer" => Same(downward[i], t))'
                        /\ \A a \in answers' : Same(a, t)'
                        /\ (remote.at = "stopping" /\ remote.id = calls[t].id => calls[t].cmd = "stop")'
      BY <1>0 DEF AnswersMatch, Waits
    <2>1. \A i \in DOMAIN upward' : Same(upward[i], t)'
      BY <1>0, <1>1 DEF AnswersMatch, Same
    <2>2. \A i \in DOMAIN downward' : (downward[i].kind = "answer" => Same(downward[i], t))'
      BY <1>0, <1>2 DEF AnswersMatch, Same
    <2>3. \A a \in answers' : Same(a, t)'
      BY <1>0 DEF AnswersMatch, Same
    <2> QED BY <1>0, <2>1, <2>2, <2>3 DEF EngineSeen
  <1> QED BY <1>3, <1>4, <1>5

LEMMA EngineSeenKeeps ==
  ASSUME WindowInv, LiveAsItSays', NEW fs \in Seq(Frames), EngineSeen(fs)
  PROVE  WindowInv'
  <1>0. /\ WindowTypes /\ IdsAreGiven /\ AnswersMatch /\ AnswersShowStates
        /\ leaving.at \in {"reaps", "gone"} => ~connected
        /\ connected => FramesAreCurrent /\ WindowIsRight
        /\ UNCHANGED <<display, leaving, calls, commands, connected, answers>>
        /\ tally'.ids = tally.ids /\ tally'.timeouts = tally.timeouts
        /\ downward' = IF connected THEN downward \o fs ELSE downward
    BY DEF WindowInv, EngineSeen
  <1>1. /\ upward' \in Seq(Requests)
        /\ \A i \in DOMAIN upward' : \E j \in DOMAIN upward : upward'[i] = upward[j]
    BY <1>0, UpwardShrinks DEF EngineSeen
  <1>2. /\ downward' \in Seq(Frames)
        /\ \A i \in DOMAIN downward' :
             \/ i \in DOMAIN downward /\ downward'[i] = downward[i]
             \/ \E j \in DOMAIN fs : downward'[i] = fs[j]
        /\ connected /\ NoEvent' => NoEvent /\ \A j \in DOMAIN fs : fs[j].kind # "event"
        /\ connected => \A i \in DOMAIN downward : i \in DOMAIN downward' /\ NoEventAfter(i)' =>
             NoEventAfter(i) /\ \A j \in DOMAIN fs : fs[j].kind # "event"
    BY <1>0, FramesAreWritten
  <1>3. /\ \A i \in DOMAIN fs : fs[i].state = remote'.state
        /\ remote'.state # remote.state => \E i \in DOMAIN fs : fs[i].kind = "event"
        /\ \A i \in DOMAIN fs :
             /\ fs[i].id <= tally.ids
             /\ fs[i].kind = "answer" /\ fs[i].ok => ShowsItsState(fs[i])
             /\ \A t \in Threads : fs[i].kind = "answer" /\ Waits(t) => Same(fs[i], t)
             /\ fs[i].kind = "answer" /\ fs[i].ok /\ fs[i].cmd = "start" =>
                  \E j \in DOMAIN fs : fs[j].kind = "event"
    BY DEF EngineSeen
  <1>4. WindowTypes' /\ IdsAreGiven' /\ AnswersMatch'
    BY <1>0, EngineKeepsThePipe
  <1>5. AnswersShowStates'
    BY <1>0, <1>2, <1>3 DEF AnswersShowStates, ShowsItsState
  <1>6. ASSUME connected PROVE FramesAreCurrent' /\ WindowIsRight'
    <2>1. NoEvent' => NoEvent /\ remote'.state = remote.state /\ \A j \in DOMAIN fs : fs[j].kind # "event"
      BY <1>2, <1>3, <1>6
    <2>2. ASSUME NEW i \in DOMAIN downward', NoEventAfter(i)' PROVE downward'[i].state = remote'.state
      <3>1. CASE i \in DOMAIN downward /\ downward'[i] = downward[i]
        BY <1>0, <1>2, <1>3, <1>6, <2>2, <3>1 DEF FramesAreCurrent
      <3>2. CASE \E j \in DOMAIN fs : downward'[i] = fs[j]
        BY <1>3, <3>2
      <3> QED BY <1>2, <3>1, <3>2
    <2>4. FramesAreCurrent'
      BY <1>0, <1>6, <2>1, <2>2 DEF FramesAreCurrent
    <2>5. ASSUME NoEvent', NEW t \in Threads, Corrects(t) PROVE Corrects(t)'
      <3>1. ASSUME calls[t].cmd = "start", Granted(t)' PROVE Granted(t)
        <4>0. Waits(t)
          BY <3>1 DEF Waits
        <4>1. CASE \E a \in answers' : a.id = calls'[t].id /\ a.ok
          BY <1>0, <4>1 DEF Granted
        <4>2. CASE \E i \in DOMAIN downward' :
                     downward'[i].kind = "answer" /\ downward'[i].id = calls'[t].id /\ downward'[i].ok
          <5>1. PICK i \in DOMAIN downward' :
                  downward'[i].kind = "answer" /\ downward'[i].id = calls[t].id /\ downward'[i].ok
            BY <1>0, <4>2
          <5>2. CASE i \in DOMAIN downward /\ downward'[i] = downward[i]
            BY <5>1, <5>2 DEF Granted
          <5>3. CASE \E j \in DOMAIN fs : downward'[i] = fs[j]
            <6>1. PICK j \in DOMAIN fs : downward'[i] = fs[j]
              BY <5>3
            <6>2. fs[j].kind = "answer" /\ fs[j].ok /\ fs[j].id = calls[t].id
              BY <5>1, <6>1
            <6>3. fs[j].cmd = "start"
              BY <1>3, <3>1, <4>0, <6>2 DEF Same
            <6> QED BY <1>3, <2>1, <2>5, <6>2, <6>3
          <5> QED BY <1>2, <5>2, <5>3
        <4> QED BY <3>1, <4>1, <4>2 DEF Granted
      <3> QED BY <1>0, <2>5, <3>1 DEF Corrects
    <2>6. StopQueued => StopQueued'
      BY <1>0 DEF StopQueued
    <2>7. WindowIsRight'
      BY <1>0, <1>6, <2>1, <2>5, <2>6 DEF WindowIsRight
    <2> QED BY <2>4, <2>7
  <1> QED BY <1>0, <1>4, <1>5, <1>6 DEF WindowInv

(* What a command does, and what its answer says of it.                    *)
LEMMA EffectsShow ==
  ASSUME remote \in Remotes, remote.at = "up", LiveAsItSays, NEW cmd \in Asks,
         ~(cmd = "stop" /\ Recording1), NEW e \in Effects(cmd)
  PROVE  /\ e.ok \in BOOLEAN /\ e.state \in States /\ e.rec \in {"none", "live", "final", "lost"}
         /\ e.state \in {"recording", "paused", "stopping"} => e.rec = "live"
         /\ e.ok => /\ cmd = "pause" => e.state = "paused"
                    /\ cmd = "resume" => e.state = "recording"
                    /\ cmd # "stop"
                    /\ cmd = "start" => e.state # remote.state
  <1>0. /\ remote.state \in States /\ remote.rec \in {"none", "live", "final", "lost"}
        /\ remote.state \in {"recording", "paused", "stopping"} => remote.rec = "live"
        /\ "recording" \in States /\ "paused" \in States /\ "faulted" \in States
    BY DEF Remotes, LiveAsItSays, Recording1, States
  <1>2. CASE cmd = "start"
    <2>1. CASE Recording1
      <3>1. e = [ok |-> FALSE, state |-> remote.state, rec |-> "live"]
        BY <1>2, <2>1 DEF Effects
      <3>2. e.ok = FALSE /\ e.state = remote.state /\ e.rec = "live"
        BY <3>1
      <3> QED BY <1>0, <1>2, <3>2
    <2>2. CASE ~Recording1
      <3>1. \/ e = [ok |-> TRUE, state |-> "recording", rec |-> "live"]
            \/ e = [ok |-> FALSE, state |-> "faulted", rec |-> remote.rec]
        BY <1>2, <2>2 DEF Effects
      <3>2. \/ e.ok = TRUE /\ e.state = "recording" /\ e.rec = "live"
            \/ e.ok = FALSE /\ e.state = "faulted" /\ e.rec = remote.rec
        BY <3>1
      <3> QED BY <1>0, <1>2, <2>2, <3>2 DEF Recording1
    <2> QED BY <2>1, <2>2
  <1>3. CASE cmd \in {"pause", "resume"} /\ Recording1
    <2>1. \/ cmd = "pause" /\ e = [ok |-> TRUE, state |-> "paused", rec |-> "live"]
          \/ cmd = "resume" /\ e = [ok |-> TRUE, state |-> "recording", rec |-> "live"]
      BY <1>3 DEF Effects
    <2>2. \/ cmd = "pause" /\ e.ok = TRUE /\ e.state = "paused" /\ e.rec = "live"
          \/ cmd = "resume" /\ e.ok = TRUE /\ e.state = "recording" /\ e.rec = "live"
      BY <2>1
    <2> QED BY <1>0, <2>2
  <1>4. CASE cmd \in {"pause", "resume"} /\ ~Recording1
    <2>1. e = [ok |-> cmd \in {"stats", "shutdown"}, state |-> remote.state, rec |-> remote.rec]
      BY <1>4 DEF Effects
    <2>2. cmd \notin {"stats", "shutdown"}
      BY <1>4
    <2>4. e.state = remote.state /\ e.rec = remote.rec
      BY <2>1
    <2>5. e.ok \in BOOLEAN
      BY <2>1
    <2>6. e.ok <=> cmd \in {"stats", "shutdown"}
      BY <2>1
    <2> QED BY <1>0, <2>2, <2>4, <2>5, <2>6
  <1>5. CASE cmd = "recover"
    <2>1. e \in [ok : BOOLEAN, state : {remote.state}, rec : {remote.rec}]
      BY <1>5 DEF Effects
    <2>2. e.ok \in BOOLEAN /\ e.state = remote.state /\ e.rec = remote.rec
      BY <2>1
    <2> QED BY <1>0, <1>5, <2>2
  <1>6. CASE cmd \in {"stats", "shutdown"}
    <2>1. e = [ok |-> cmd \in {"stats", "shutdown"}, state |-> remote.state, rec |-> remote.rec]
      BY <1>6 DEF Effects
    <2>2. e.ok = (cmd \in {"stats", "shutdown"})
      BY <2>1
    <2>3. e.state = remote.state /\ e.rec = remote.rec
      BY <2>1
    <2> QED BY <1>0, <1>6, <2>2, <2>3
  <1>7. CASE cmd = "stop"
    <2>1. e = [ok |-> cmd \in {"stats", "shutdown"}, state |-> remote.state, rec |-> remote.rec]
      BY <1>7 DEF Effects
    <2>2. cmd \notin {"stats", "shutdown"}
      BY <1>7
    <2>4. e.state = remote.state /\ e.rec = remote.rec
      BY <2>1
    <2>5. e.ok \in BOOLEAN
      BY <2>1
    <2>6. e.ok <=> cmd \in {"stats", "shutdown"}
      BY <2>1
    <2> QED BY <1>0, <2>2, <2>4, <2>5, <2>6
  <1> QED BY <1>2, <1>3, <1>4, <1>5, <1>6, <1>7 DEF Asks

LEMMA EngineAnswersAreSeen ==
  ASSUME PipeInv, EngineAnswers
  PROVE  LiveAsItSays' /\ \E fs \in Seq(Frames) : EngineSeen(fs)
  <1>0. /\ WindowTypes /\ LiveAsItSays /\ AnswersMatch /\ IdsAreGiven
        /\ remote \in Remotes /\ tally \in Tallies /\ upward \in Seq(Requests)
        /\ remote.at = "up" /\ upward # <<>> /\ upward' = Tail(upward)
        /\ UNCHANGED <<display, leaving, calls, commands, connected, answers, tally>>
    BY DEF PipeInv, WindowTypes, EngineAnswers
  <1> DEFINE ask == upward[1]
  <1>1. 1 \in DOMAIN upward /\ Head(upward) = ask /\ ask \in Requests
    BY <1>0
  <1>2. /\ ask.id <= tally.ids /\ ask.id \in Nat /\ ask.cmd \in Asks
        /\ \A t \in Threads : Waits(t) => Same(ask, t)
    BY <1>0, <1>1 DEF IdsAreGiven, AnswersMatch, Requests
  <1>3. PICK e \in Effects(ask.cmd) :
          /\ remote' = [remote EXCEPT !.state = e.state, !.rec = e.rec,
                          !.at = IF ask.cmd = "shutdown" THEN "exiting" ELSE "up"]
          /\ Writes(Publishing(e.state) \o <<Answer(ask.id, ask.cmd, e.ok, e.state)>>)
    BY <1>1 DEF EngineAnswers
  <1>4. ~(ask.cmd = "stop" /\ Recording1)
    BY <1>1 DEF EngineAnswers
  <1> HIDE DEF ask
  <1>5. /\ e.ok \in BOOLEAN /\ e.state \in States /\ e.rec \in {"none", "live", "final", "lost"}
        /\ e.state \in {"recording", "paused", "stopping"} => e.rec = "live"
        /\ e.ok => /\ ask.cmd = "pause" => e.state = "paused"
                   /\ ask.cmd = "resume" => e.state = "recording"
                   /\ ask.cmd # "stop"
                   /\ ask.cmd = "start" => e.state # remote.state
    BY <1>0, <1>2, <1>4, EffectsShow
  <1>6. /\ remote' \in Remotes /\ remote'.state = e.state /\ remote'.rec = e.rec
        /\ remote'.id = remote.id /\ remote'.at \in {"up", "exiting"}
    BY <1>0, <1>3, <1>5 DEF Remotes
  <1>7. LiveAsItSays'
    BY <1>5, <1>6 DEF LiveAsItSays, Recording1
  <1> DEFINE a == Answer(ask.id, ask.cmd, e.ok, e.state)
  <1>8. /\ a \in Frames /\ a.kind = "answer" /\ a.id = ask.id /\ a.cmd = ask.cmd
        /\ a.state = e.state /\ (a.ok <=> e.ok)
    BY <1>2, <1>5 DEF Answer, Frames
  <1>9. Writes(Publishing(e.state) \o <<a>>)
    BY <1>3
  <1> HIDE DEF a
  <1>10. PICK fs : fs = Publishing(e.state) \o <<a>>
    OBVIOUS
  <1>12. /\ fs \in Seq(Frames)
         /\ \A i \in DOMAIN fs : fs[i] = StateEvent(e.state) \/ fs[i] = a
         /\ e.state # remote.state => \E i \in DOMAIN fs : fs[i] = StateEvent(e.state)
    <2>1. PICK ev \in Frames : ev = StateEvent(e.state)
      BY <1>5 DEF StateEvent, Frames
    <2>2. <<>> \in Seq(Frames) /\ <<ev>> \in Seq(Frames) /\ <<a>> \in Seq(Frames)
      BY <1>8
    <2>3. PICK p \in Seq(Frames), q \in Seq(Frames) :
            p = (IF remote.state = e.state THEN <<>> ELSE <<ev>>) /\ q = <<a>>
      BY <2>2
    <2>4. fs = p \o q
      BY <1>10, <2>1, <2>3 DEF Publishing
    <2>5. PICK n \in Nat, m \in Nat : n = Len(p) /\ m = Len(q)
      OBVIOUS
    <2>6. m = 1 /\ q[1] = a
      BY <2>3, <2>5
    <2>7. /\ fs \in Seq(Frames) /\ DOMAIN fs = 1 .. n + m
          /\ \A i \in 1 .. n : fs[i] = p[i]
          /\ \A j \in 1 .. m : fs[n + j] = q[j]
      BY <2>4, <2>5
    <2>8. /\ fs \in Seq(Frames) /\ DOMAIN fs = 1 .. n + 1
          /\ \A i \in 1 .. n : fs[i] = p[i]
          /\ fs[n + 1] = a
      BY <2>6, <2>7
    <2>9. CASE remote.state = e.state
      <3>1. n = 0
        BY <2>3, <2>5, <2>9
      <3> QED BY <2>8, <2>9, <3>1
    <2>10. CASE remote.state # e.state
      <3>1. n = 1 /\ p[1] = ev
        BY <2>3, <2>5, <2>10
      <3>2. DOMAIN fs = 1 .. 2 /\ fs[1] = ev /\ fs[2] = a
        BY <2>8, <3>1
      <3>3. \A i \in 1 .. 2 : i = 1 \/ i = 2
        OBVIOUS
      <3>4. \A i \in DOMAIN fs : fs[i] = ev \/ fs[i] = a
        BY <3>2, <3>3
      <3>5. 1 \in DOMAIN fs /\ fs[1] = ev
        BY <3>2
      <3> QED BY <2>1, <2>8, <3>4, <3>5
    <2> QED BY <2>9, <2>10
  <1>13. e.state # remote.state => \E i \in DOMAIN fs : fs[i].kind = "event"
    BY <1>12 DEF StateEvent
  <1>14. /\ StateEvent(e.state).kind = "event" /\ StateEvent(e.state).state = e.state
         /\ StateEvent(e.state).id = 0 /\ tally.ids \in Nat /\ 0 <= tally.ids
    BY <1>0 DEF StateEvent, Tallies
  <1>15. ASSUME NEW i \in DOMAIN fs
         PROVE  /\ fs[i].state = remote'.state /\ fs[i].id <= tally.ids
                /\ fs[i].kind = "answer" /\ fs[i].ok => ShowsItsState(fs[i])
                /\ \A t \in Threads : fs[i].kind = "answer" /\ Waits(t) => Same(fs[i], t)
                /\ fs[i].kind = "answer" /\ fs[i].ok /\ fs[i].cmd = "start" =>
                     \E j \in DOMAIN fs : fs[j].kind = "event"
    <2>1. CASE fs[i] = StateEvent(e.state)
      BY <1>6, <1>14, <2>1
    <2>2. CASE fs[i] = a
      BY <1>2, <1>5, <1>6, <1>8, <1>13, <2>2 DEF ShowsItsState, Same
    <2> QED BY <1>12, <2>1, <2>2
  <1>16. downward' = IF connected THEN downward \o fs ELSE downward
    BY <1>9, <1>10 DEF Writes
  <1>17. remote'.id <= tally.ids
    BY <1>0, <1>6 DEF IdsAreGiven
  <1>11. EngineSeen(fs)
    BY <1>0, <1>6, <1>13, <1>15, <1>16, <1>17 DEF EngineSeen
  <1> QED BY <1>7, <1>11, <1>12

LEMMA EngineMovesAreSeen ==
  ASSUME PipeInv, EngineStops \/ EngineStopped \/ EngineExits \/ EngineDies
  PROVE  LiveAsItSays' /\ \E fs \in Seq(Frames) : EngineSeen(fs)
  <1>0. /\ WindowTypes /\ LiveAsItSays /\ AnswersMatch /\ IdsAreGiven
        /\ remote \in Remotes /\ tally \in Tallies /\ upward \in Seq(Requests) /\ downward \in Seq(Frames)
        /\ UNCHANGED <<display, leaving, calls, commands, connected, answers>>
    BY DEF PipeInv, WindowTypes, EngineStops, EngineStopped, EngineExits, EngineDies
  <1>1. tally.ids \in Nat /\ 0 <= tally.ids /\ remote.id \in Nat /\ remote.id <= tally.ids
    BY <1>0 DEF Tallies, Remotes, IdsAreGiven
  <1>2. ASSUME NEW s \in States
        PROVE  /\ StateEvent(s) \in Frames /\ StateEvent(s).kind = "event" /\ StateEvent(s).state = s
               /\ StateEvent(s).id = 0
    BY DEF StateEvent, Frames
  <1>3. CASE EngineStops
    <2>1. 1 \in DOMAIN upward /\ Head(upward) = upward[1] /\ upward[1] \in Requests
      BY <1>0, <1>3 DEF EngineStops
    <2>2. /\ upward[1].id \in Nat /\ upward[1].id <= tally.ids /\ upward[1].cmd = "stop" /\ Recording1
          /\ \A t \in Threads : Waits(t) => Same(upward[1], t)
      BY <1>0, <1>3, <2>1 DEF IdsAreGiven, AnswersMatch, Requests, EngineStops
    <2>3. remote' = [remote EXCEPT !.at = "stopping", !.state = "stopping", !.id = upward[1].id]
      BY <1>3, <2>1 DEF EngineStops
    <2>4. remote' \in Remotes /\ remote'.state = "stopping" /\ remote'.id = upward[1].id /\ remote'.rec = remote.rec
      BY <1>0, <2>2, <2>3 DEF Remotes, States
    <2>5. LiveAsItSays'
      BY <2>2, <2>4 DEF LiveAsItSays, Recording1
    <2>6. PICK fs : fs = <<StateEvent("stopping")>>
      OBVIOUS
    <2>7. "stopping" \in States
      BY DEF States
    <2>8. fs \in Seq(Frames) /\ DOMAIN fs = {1} /\ fs[1] = StateEvent("stopping")
      BY <1>2, <2>6, <2>7
    <2>9. downward' = IF connected THEN downward \o fs ELSE downward
      BY <1>3, <2>6 DEF EngineStops, Writes
    <2>10. upward # <<>> /\ upward' = Tail(upward) /\ tally' = tally
      BY <1>3 DEF EngineStops
    <2>11. \A t \in Threads : Waits(t) /\ remote'.id = calls[t].id => calls[t].cmd = "stop"
      BY <2>2, <2>4 DEF Same
    <2>12. EngineSeen(fs)
      BY <1>0, <1>1, <1>2, <2>2, <2>4, <2>7, <2>8, <2>9, <2>10, <2>11 DEF EngineSeen
    <2> QED BY <2>5, <2>8, <2>12
  <1>4. CASE EngineStopped
    <2>1. /\ remote.at = "stopping" /\ tally' = tally /\ upward' = upward
          /\ remote' = [remote EXCEPT !.at = "up", !.state = "idle", !.rec = "final", !.id = 0]
      BY <1>4 DEF EngineStopped
    <2>2. remote' \in Remotes /\ remote'.state = "idle" /\ remote'.id = 0 /\ remote'.at = "up"
      BY <1>0, <2>1 DEF Remotes, States
    <2>3. LiveAsItSays'
      BY <2>2 DEF LiveAsItSays
    <2> DEFINE a == Answer(remote.id, "stop", TRUE, "idle")
    <2>4. a \in Frames /\ a.kind = "answer" /\ a.id = remote.id /\ a.cmd = "stop" /\ a.state = "idle"
      BY <1>1 DEF Answer, Frames, Asks, States
    <2>5. PICK fs : fs = <<StateEvent("idle"), a>>
      OBVIOUS
    <2>6. downward' = IF connected THEN downward \o fs ELSE downward
      BY <1>4, <2>5 DEF EngineStopped, Writes
    <2> HIDE DEF a
    <2>7. "idle" \in States
      BY DEF States
    <2>8. fs \in Seq(Frames) /\ DOMAIN fs = {1, 2} /\ fs[1] = StateEvent("idle") /\ fs[2] = a
      <3>1. StateEvent("idle") \in Frames
        BY <1>2, <2>7
      <3> QED BY <2>4, <2>5, <3>1
    <2>9. \A t \in Threads : Waits(t) => Same(a, t)
      BY <1>0, <2>1, <2>4 DEF AnswersMatch, Same
    <2>10. ShowsItsState(a)
      BY <2>4 DEF ShowsItsState
    <2>11. ASSUME NEW i \in DOMAIN fs
           PROVE  /\ fs[i].state = remote'.state /\ fs[i].id <= tally.ids
                  /\ fs[i].kind = "answer" /\ fs[i].ok => ShowsItsState(fs[i])
                  /\ \A t \in Threads : fs[i].kind = "answer" /\ Waits(t) => Same(fs[i], t)
                  /\ fs[i].kind = "answer" /\ fs[i].ok /\ fs[i].cmd = "start" =>
                       \E j \in DOMAIN fs : fs[j].kind = "event"
      <3>1. CASE i = 1
        BY <1>1, <1>2, <2>2, <2>7, <2>8, <3>1
      <3>2. CASE i = 2
        BY <1>1, <2>2, <2>4, <2>8, <2>9, <2>10, <3>2
      <3> QED BY <2>8, <3>1, <3>2
    <2>12. \E i \in DOMAIN fs : fs[i].kind = "event"
      BY <1>2, <2>7, <2>8
    <2>13. EngineSeen(fs)
      BY <1>0, <1>1, <2>1, <2>2, <2>6, <2>11, <2>12 DEF EngineSeen
    <2> QED BY <2>3, <2>8, <2>13
  <1>5. CASE EngineExits \/ EngineDies
    <2>1. PICK rec \in {remote.rec, "final", "lost"} : remote' = [remote EXCEPT !.at = "down", !.rec = rec]
      BY <1>5 DEF EngineExits, EngineDies
    <2>2. /\ upward' = <<>> /\ downward' = downward
          /\ (tally' = tally \/ tally' = [tally EXCEPT !.deaths = @ + 1])
      BY <1>5 DEF EngineExits, EngineDies
    <2>3. tally' \in Tallies /\ tally'.ids = tally.ids /\ tally'.timeouts = tally.timeouts
      BY <1>0, <2>2 DEF Tallies
    <2>4. /\ remote' \in Remotes /\ remote'.state = remote.state /\ remote'.id = remote.id
          /\ remote'.at = "down"
      BY <1>0, <2>1 DEF Remotes
    <2>5. LiveAsItSays'
      BY <2>4 DEF LiveAsItSays
    <2>6. PICK fs : fs = <<>>
      OBVIOUS
    <2>7. fs \in Seq(Frames) /\ DOMAIN fs = {} /\ downward \o fs = downward
      BY <1>0, <2>6
    <2>8. EngineSeen(fs)
      BY <1>0, <1>1, <2>2, <2>3, <2>4, <2>7 DEF EngineSeen
    <2> QED BY <2>5, <2>7, <2>8
  <1> QED BY <1>3, <1>4, <1>5

LEMMA TheWindowBegins ==
  ASSUME GuiInit
  PROVE  WindowInv
  <1>1. /\ ScreenShaped /\ display.shown = "idle"
        /\ leaving = NotLeaving /\ commands = <<>> /\ connected = TRUE
        /\ upward = <<>> /\ downward = <<>> /\ answers = {} /\ remote = FreshEngine
        /\ calls = [t \in Threads |-> Free]
        /\ tally = [ids |-> 0, timeouts |-> 0, deaths |-> 0, engines |-> 1]
    BY DEF GuiInit, NotLeaving, ScreenShaped
  <1>2. /\ remote \in Remotes /\ remote.at = "up" /\ remote.state = "idle" /\ remote.id = 0
        /\ leaving.at = "no"
    BY <1>1 DEF FreshEngine, Remotes, States, NotLeaving
  <1>3. tally \in Tallies /\ tally.ids = 0
    BY <1>1 DEF Tallies
  <1>4. /\ calls \in [Threads -> [cmd : Asks \union {"none"}, id : Nat]]
        /\ \A t \in Threads : calls[t].cmd = "none" /\ calls[t].id = 0
    BY <1>1 DEF Free
  <1>5. /\ <<>> \in Seq(Frames) /\ <<>> \in Seq(Requests) /\ <<>> \in Seq({"stop", "recover"})
        /\ DOMAIN <<>> = {}
    OBVIOUS
  <1>6. WindowTypes
    BY <1>1, <1>2, <1>3, <1>4, <1>5 DEF WindowTypes
  <1>7. IdsAreGiven /\ AnswersMatch
    BY <1>1, <1>2, <1>3, <1>4, <1>5 DEF IdsAreGiven, AnswersMatch, Waits
  <1>8. LiveAsItSays /\ AnswersShowStates
    BY <1>1, <1>2, <1>5 DEF LiveAsItSays, AnswersShowStates
  <1>9. FramesAreCurrent /\ WindowIsRight
    BY <1>1, <1>2, <1>5 DEF FramesAreCurrent, Answered, WindowIsRight
  <1> QED BY <1>2, <1>6, <1>7, <1>8, <1>9 DEF WindowInv

(* When nothing is asked, queued or on its way, the window shows the state *)
(* the engine is in (engine.py:36), whichever of the three threads wrote   *)
(* the state last and in whatever order they ran: unless a request has     *)
(* timed out, or the last to write was a thread whose answer a later event *)
(* had overtaken before it ran.                                            *)
THEOREM QuietWindowsShowTheEngine == GuiSpec => []QuietWindowShowsTheEngine
  <1>1. GuiInit => WindowInv
    BY TheWindowBegins
  <1>2. WindowInv /\ [GuiNext]_guiVars => WindowInv'
    <2> SUFFICES ASSUME WindowInv, [GuiNext]_guiVars PROVE WindowInv'
      OBVIOUS
    <2>1. CASE StartPressed \/ PausePressed \/ ResumePressed \/ PressedInVain
      BY <2>1, PressesKeep
    <2>2. CASE StopPressed \/ RecoverPressed \/ RecoveryFinished
      BY <2>2, QueueingKeeps
    <2>3. CASE TakesCommand
      BY <2>3, TakingKeeps
    <2>4. ASSUME NEW t \in Threads, GetsAnswer(t) \/ TimesOut(t) \/ EngineGone(t) PROVE WindowInv'
      BY <2>4, AnswersKeep, SilenceKeeps
    <2>5. CASE Leaves \/ AsksToShutDown \/ Closes \/ Reaps \/ StartsEngine
      BY <2>5, DepartureKeeps
    <2>6. CASE ReaderDispatches \/ ReaderEnds
      BY <2>6, ReaderKeeps
    <2>7. CASE EngineAnswers
      BY <2>7, EngineAnswersAreSeen, EngineSeenKeeps DEF WindowInv, PipeInv
    <2>8. CASE EngineStops \/ EngineStopped \/ EngineExits \/ EngineDies
      BY <2>8, EngineMovesAreSeen, EngineSeenKeeps DEF WindowInv, PipeInv
    <2>9. CASE UNCHANGED guiVars
      BY <2>9 DEF ScreenShaped, guiVars, WindowInv, WindowTypes, IdsAreGiven, AnswersMatch, Same, Waits, LiveAsItSays,
                  Recording1, AnswersShowStates, ShowsItsState, FramesAreCurrent, NoEventAfter, NoEvent,
                  Answered, WindowIsRight, Corrects, Granted, StopQueued
    <2> QED BY <2>1, <2>2, <2>3, <2>4, <2>5, <2>6, <2>7, <2>8, <2>9 DEF GuiNext
  <1>3. WindowInv => QuietWindowShowsTheEngine
    <2> SUFFICES ASSUME WindowInv, GuiQuiet
                 PROVE  \/ display.shown = remote.state
                        \/ tally.timeouts > 0 /\ display.shown = "offline"
                        \/ display.misled
      BY DEF QuietWindowShowsTheEngine
    <2>1. connected /\ downward = <<>> /\ commands = <<>> /\ WindowIsRight
      BY DEF WindowInv, GuiQuiet
    <2>2. DOMAIN <<>> = {}
      OBVIOUS
    <2>3. NoEvent /\ ~StopQueued
      BY <2>1, <2>2 DEF NoEvent, StopQueued
    <2>4. \A t \in Threads : ~Corrects(t)
      BY DEF GuiQuiet, Waits, Corrects, Writing
    <2> QED BY <2>1, <2>3, <2>4 DEF WindowIsRight
  <1> QED BY <1>1, <1>2, <1>3, PTL DEF GuiSpec

-----------------------------------------------------------------------------
(* The requests and their answers                                          *)

LEMMA ThePipeKeeps ==
  ASSUME PipeInv, UNCHANGED <<downward, remote, connected>>, answers' \subseteq answers,
         UNCHANGED <<calls, upward, tally>> \/ (PipeTypes' /\ \E t \in Threads : CallStep(t)),
         leaving' = leaving \/ leaving' \in Leavings, commands' \in Seq({"stop", "recover"}),
         ScreenShaped'
  PROVE  PipeInv'
  <1>0. WindowTypes /\ IdsAreGiven /\ AnswersMatch /\ LiveAsItSays
    BY DEF PipeInv
  <1>1. WindowSeen
    BY DEF WindowSeen, NoCallStep
  <1>2. WindowTypes'
    BY <1>0 DEF WindowTypes, PipeTypes
  <1>3. IdsAreGiven' /\ AnswersMatch'
    BY <1>0, <1>1, <1>2, WindowKeepsIds
  <1>4. LiveAsItSays'
    BY <1>0 DEF LiveAsItSays, Recording1
  <1> QED BY <1>2, <1>3, <1>4 DEF PipeInv

LEMMA ControlsKeepThePipe ==
  ASSUME PipeInv,
         \/ StartPressed \/ PausePressed \/ ResumePressed \/ PressedInVain
         \/ StopPressed \/ RecoverPressed \/ RecoveryFinished \/ TakesCommand
  PROVE  PipeInv'
  <1>0. /\ WindowTypes /\ commands \in Seq({"stop", "recover"}) /\ ScreenShaped
        /\ {"gui", "command"} \subseteq Threads
        /\ UNCHANGED <<leaving, connected, downward, answers, remote>>
    BY DEF PipeInv, WindowTypes, Threads, StartPressed, PausePressed, ResumePressed, PressedInVain, Presses,
           StopPressed, RecoverPressed, RecoveryFinished, TakesCommand
  <1>1. CASE StartPressed \/ PausePressed \/ ResumePressed
    <2>1. PICK cmd \in Asks :
            Send("gui", cmd) /\ (display' = display \/ Shows("starting")) /\ commands' = commands
      BY <1>1 DEF StartPressed, PausePressed, ResumePressed, Presses, Asks
    <2>2. PipeTypes' /\ CallStep("gui") /\ ScreenShaped'
      BY <1>0, <2>1, ARequestIsSent, ShownMoves
    <2> QED BY <1>0, <2>1, <2>2, ThePipeKeeps
  <1>2. CASE PressedInVain
    <2>1. Shows("offline") /\ UNCHANGED <<calls, commands, upward, tally>>
      BY <1>2 DEF PressedInVain
    <2>2. ScreenShaped'
      BY <1>0, <2>1, ShownMoves
    <2> QED BY <1>0, <2>1, <2>2, ThePipeKeeps
  <1>3. CASE StopPressed \/ RecoverPressed \/ RecoveryFinished
    <2>1. /\ UNCHANGED <<calls, upward, tally>>
          /\ commands' = commands \/ \E cmd \in {"stop", "recover"} : commands' = Append(commands, cmd)
          /\ \/ Shows("stopping") \/ display' = [display EXCEPT !.recovering = Sidecars]
             \/ \E n, shown : display' = [display EXCEPT !.outcomes = @ - 1, !.recovering = n, !.shown = shown]
      BY <1>3 DEF StopPressed, RecoverPressed, RecoveryFinished, NextRecovery
    <2>2. commands' \in Seq({"stop", "recover"})
      BY <1>0, <2>1, StopsQueueUp
    <2>3. ScreenShaped'
      BY <1>0, <2>1, ShownMoves
    <2> QED BY <1>0, <2>1, <2>2, <2>3, ThePipeKeeps
  <1>4. CASE TakesCommand
    <2>1. commands # <<>> /\ commands' = Tail(commands)
      BY <1>4 DEF TakesCommand
    <2>2. commands' \in Seq({"stop", "recover"}) /\ Head(commands) \in Asks
      BY <1>0, <2>1, StopsAreTaken DEF Asks
    <2>3. CASE connected
      <3>1. Send("command", Head(commands)) /\ display' = display
        BY <1>4, <2>3 DEF TakesCommand
      <3>2. PipeTypes' /\ CallStep("command")
        BY <1>0, <2>2, <3>1, ARequestIsSent
      <3> QED BY <1>0, <2>2, <3>1, <3>2, ThePipeKeeps DEF ScreenShaped
    <2>4. CASE ~connected
      <3>1. UNCHANGED <<calls, upward, tally>> /\ (ShowsOutcome("offline") \/ Shows("offline"))
        BY <1>4, <2>4 DEF TakesCommand
      <3>2. ScreenShaped'
        BY <1>0, <3>1, ShownMoves
      <3> QED BY <1>0, <2>2, <3>1, <3>2, ThePipeKeeps
    <2> QED BY <2>3, <2>4
  <1> QED BY <1>1, <1>2, <1>3, <1>4

LEMMA EndsKeepThePipe ==
  ASSUME PipeInv, NEW t \in Threads, GetsAnswer(t) \/ TimesOut(t) \/ EngineGone(t)
  PROVE  PipeInv'
  <1>0. /\ WindowTypes /\ commands \in Seq({"stop", "recover"}) /\ ScreenShaped
        /\ UNCHANGED <<leaving, commands, connected, downward, remote>> /\ answers' \subseteq answers
    BY DEF PipeInv, WindowTypes, GetsAnswer, TimesOut, EngineGone
  <1>1. \/ Send(t, "stats")
        \/ /\ calls' = [calls EXCEPT ![t] = Free] /\ upward' = upward
           /\ tally' = tally \/ tally' = [tally EXCEPT !.timeouts = @ + 1]
    BY DEF GetsAnswer, TakesAnswer, Refused, TimesOut, EngineGone, GivesUp, Done
  <1>2. PipeTypes' /\ CallStep(t)
    BY <1>0, <1>1, ARequestIsSent, ARequestIsOver DEF Asks
  <1>3. UNCHANGED display \/ HasOutcome \/ \E s, m : Shows(s) \/ ShowsAsOf(s, m) \/ ShowsOutcome(s)
    BY DEF GetsAnswer, TakesAnswer, Refused, TimesOut, EngineGone, GivesUp
  <1>4. ScreenShaped'
    BY <1>0, <1>3, ShownMoves
  <1> QED BY <1>0, <1>2, <1>4, ThePipeKeeps

LEMMA DepartureKeepsThePipe ==
  ASSUME PipeInv, Leaves \/ AsksToShutDown \/ Closes \/ Reaps \/ StartsEngine
  PROVE  PipeInv'
  <1>0. /\ WindowTypes /\ IdsAreGiven /\ AnswersMatch /\ LiveAsItSays
        /\ commands \in Seq({"stop", "recover"}) /\ ScreenShaped /\ "gui" \in Threads
        /\ leaving = NotLeaving \/ leaving \in Leavings
    BY DEF PipeInv, WindowTypes, Threads
  <1>1. ASSUME NEW at \in {"closes", "reaps", "gone"}, leaving.at # "no", leaving' = [leaving EXCEPT !.at = at]
        PROVE  leaving' \in Leavings
    <2>1. leaving \in Leavings
      BY <1>0, <1>1 DEF NotLeaving
    <2> QED BY <1>1, <2>1, LeavingMoves
  <1>2. CASE Leaves
    <2>0. PICK as \in {"restart", "exit"}, at \in {"stopping", "asks"} : leaving' = [as |-> as, at |-> at]
      BY <1>2 DEF Leaves
    <2>1. leaving' \in Leavings /\ UNCHANGED <<commands, connected, downward, answers, remote>>
      BY <1>2, <2>0 DEF Leaves, Leavings
    <2>2. \/ Send("gui", "stop") /\ Shows("stopping")
          \/ UNCHANGED <<calls, upward, tally, display>>
      BY <1>2 DEF Leaves
    <2>3. /\ UNCHANGED <<calls, upward, tally>> \/ (PipeTypes' /\ CallStep("gui"))
          /\ ScreenShaped'
      BY <1>0, <2>2, ARequestIsSent, ShownMoves DEF Asks
    <2> QED BY <1>0, <2>1, <2>3, ThePipeKeeps
  <1>3. CASE AsksToShutDown
    <2>1. /\ leaving' \in Leavings /\ UNCHANGED <<display, commands, connected, downward, answers, remote>>
          /\ Send("gui", "shutdown") \/ UNCHANGED <<calls, upward, tally>>
      BY <1>1, <1>3 DEF AsksToShutDown
    <2>2. UNCHANGED <<calls, upward, tally>> \/ (PipeTypes' /\ CallStep("gui"))
      BY <1>0, <2>1, ARequestIsSent DEF Asks
    <2> QED BY <1>0, <2>1, <2>2, ThePipeKeeps DEF ScreenShaped
  <1>4. CASE Closes
    <2>1. /\ leaving' \in Leavings /\ connected' = FALSE /\ downward' = <<>>
          /\ commands' = <<>> \/ commands' = commands
          /\ UNCHANGED <<display, calls, upward, answers, tally, remote>>
      BY <1>1, <1>4 DEF Closes, ClosesClient
    <2>2. <<>> \in Seq(Frames) /\ <<>> \in Seq({"stop", "recover"}) /\ DOMAIN <<>> = {}
      OBVIOUS
    <2>3. WindowTypes'
      BY <1>0, <2>1, <2>2 DEF ScreenShaped, WindowTypes
    <2>4. IdsAreGiven' /\ AnswersMatch'
      BY <1>0, <2>1, <2>2 DEF IdsAreGiven, AnswersMatch, Same, Waits
    <2>5. LiveAsItSays'
      BY <1>0, <2>1 DEF LiveAsItSays, Recording1
    <2> QED BY <2>3, <2>4, <2>5 DEF PipeInv
  <1>5. CASE Reaps
    <2>1. /\ leaving' \in Leavings /\ Shows("offline")
          /\ UNCHANGED <<calls, commands, connected, upward, downward, answers, remote, tally>>
      BY <1>1, <1>5 DEF Reaps
    <2>2. ScreenShaped'
      BY <1>0, <2>1, ShownMoves
    <2> QED BY <1>0, <2>1, <2>2, ThePipeKeeps
  <1>6. CASE StartsEngine
    <2>1. /\ leaving' = NotLeaving /\ connected' = TRUE /\ remote' = FreshEngine
          /\ upward' = <<>> /\ downward' = <<>> /\ answers' = {} /\ Shows("idle") /\ UNCHANGED <<calls, commands>>
          /\ tally' = [tally EXCEPT !.engines = @ + 1] /\ \A t \in Threads : ~Waits(t)
      BY <1>6 DEF StartsEngine, NotLeaving
    <2>2. <<>> \in Seq(Frames) /\ <<>> \in Seq(Requests) /\ DOMAIN <<>> = {}
      OBVIOUS
    <2>3. ScreenShaped'
      BY <1>0, <2>1, ShownMoves
    <2>4. remote' \in Remotes /\ remote'.at = "up" /\ remote'.state = "idle" /\ remote'.id = 0
      BY <2>1 DEF FreshEngine, Remotes, States
    <2>5. tally' \in Tallies /\ tally'.ids = tally.ids /\ tally.ids \in Nat
      <3>1. tally \in Tallies
        BY <1>0 DEF WindowTypes
      <3> QED BY <2>1, <3>1 DEF Tallies
    <2>6. WindowTypes'
      BY <1>0, <2>1, <2>2, <2>3, <2>4, <2>5 DEF WindowTypes
    <2>7. IdsAreGiven' /\ AnswersMatch'
      BY <1>0, <2>1, <2>2, <2>4, <2>5 DEF IdsAreGiven, AnswersMatch, Waits
    <2>8. LiveAsItSays'
      BY <2>4 DEF LiveAsItSays
    <2> QED BY <2>6, <2>7, <2>8 DEF PipeInv
  <1> QED BY <1>2, <1>3, <1>4, <1>5, <1>6

LEMMA ReaderKeepsThePipe ==
  ASSUME PipeInv, ReaderDispatches \/ ReaderEnds
  PROVE  PipeInv'
  <1>0. /\ WindowTypes /\ IdsAreGiven /\ AnswersMatch /\ LiveAsItSays /\ ScreenShaped
        /\ UNCHANGED <<leaving, calls, commands, upward, remote, tally>>
    BY DEF PipeInv, WindowTypes, ReaderDispatches, ReaderEnds
  <1>1. LiveAsItSays'
    BY <1>0 DEF LiveAsItSays, Recording1
  <1>2. CASE ReaderDispatches
    <2>1. downward # <<>> /\ downward' = Tail(downward) /\ connected' = connected
      BY <1>2 DEF ReaderDispatches
    <2> DEFINE f == downward[1]
    <2>2. /\ 1 \in DOMAIN downward /\ Head(downward) = f /\ f \in Frames /\ downward' \in Seq(Frames)
          /\ \A i \in DOMAIN downward' : i + 1 \in DOMAIN downward /\ downward'[i] = downward[i + 1]
      BY <1>0, <2>1, AFrameIsTaken
    <2>3. \/ f.kind = "event" /\ Shows(f.state) /\ answers' = {Overtaken(a) : a \in answers}
          \/ f.kind # "event" /\ answers' = answers \union {f} /\ display' = display
      BY <1>2, <2>2 DEF ReaderDispatches, Dispatches1, Overtaken
    <2>4. f.kind \in {"answer", "event"}
      BY <2>2 DEF Frames
    <2>5. /\ f.id <= tally.ids
          /\ \A t \in Threads : Waits(t) /\ f.kind = "answer" => Same(f, t)
      BY <1>0, <2>2 DEF IdsAreGiven, AnswersMatch
    <2> HIDE DEF f
    <2>6. ScreenShaped'
      BY <1>0, <2>3, ShownMoves
    <2>7. WindowTypes'
      <3>1. answers' \subseteq Frames
        BY <1>0, <2>2, <2>3, OvertakenIsTheSame DEF WindowTypes
      <3> QED BY <1>0, <2>1, <2>2, <2>6, <3>1 DEF WindowTypes
    <2>8. \A a \in answers' : (\E b \in answers : SameFrame(a, b)) \/ (a = f /\ f.kind = "answer")
      <3>1. \A a \in answers : a \in Frames /\ SameFrame(a, a)
        BY <1>0 DEF WindowTypes, SameFrame
      <3> QED BY <2>3, <2>4, <3>1, OvertakenIsTheSame
    <2>9. IdsAreGiven'
      BY <1>0, <2>2, <2>5, <2>8 DEF IdsAreGiven, SameFrame
    <2>10. AnswersMatch'
      BY <1>0, <2>2, <2>5, <2>8 DEF AnswersMatch, Same, Waits, SameFrame
    <2> QED BY <1>1, <2>7, <2>9, <2>10 DEF PipeInv
  <1>3. CASE ReaderEnds
    <2>1. connected' = FALSE /\ UNCHANGED <<display, downward, answers>>
      BY <1>3 DEF ReaderEnds
    <2>2. WindowTypes'
      BY <1>0, <2>1 DEF ScreenShaped, WindowTypes
    <2>3. IdsAreGiven' /\ AnswersMatch'
      BY <1>0, <2>1 DEF IdsAreGiven, AnswersMatch, Same, Waits
    <2> QED BY <1>1, <2>2, <2>3 DEF PipeInv
  <1> QED BY <1>2, <1>3

(* AnswersReachTheirRequest: no id is given twice, so that the answer of a *)
(* request that has timed out is not taken for that of a later one, in     *)
(* whatever order threads and reader run (client.py, request, _dispatch).  *)
THEOREM AnswersReachTheirAsker == GuiSpec => []AnswersReachTheirRequest
  <1>1. GuiInit => PipeInv
    BY TheWindowBegins DEF WindowInv, PipeInv
  <1>2. PipeInv /\ [GuiNext]_guiVars => PipeInv'
    <2> SUFFICES ASSUME PipeInv, [GuiNext]_guiVars PROVE PipeInv'
      OBVIOUS
    <2>1. CASE \/ StartPressed \/ PausePressed \/ ResumePressed \/ PressedInVain
               \/ StopPressed \/ RecoverPressed \/ RecoveryFinished \/ TakesCommand
      BY <2>1, ControlsKeepThePipe
    <2>2. ASSUME NEW t \in Threads, GetsAnswer(t) \/ TimesOut(t) \/ EngineGone(t) PROVE PipeInv'
      BY <2>2, EndsKeepThePipe
    <2>3. CASE Leaves \/ AsksToShutDown \/ Closes \/ Reaps \/ StartsEngine
      BY <2>3, DepartureKeepsThePipe
    <2>4. CASE ReaderDispatches \/ ReaderEnds
      BY <2>4, ReaderKeepsThePipe
    <2>5. CASE EngineAnswers \/ EngineStops \/ EngineStopped \/ EngineExits \/ EngineDies
      BY <2>5, EngineAnswersAreSeen, EngineMovesAreSeen, EngineKeepsThePipe DEF PipeInv
    <2>6. CASE UNCHANGED guiVars
      BY <2>6 DEF ScreenShaped, guiVars, PipeInv, WindowTypes, IdsAreGiven, AnswersMatch, Same, Waits, LiveAsItSays, Recording1
    <2> QED BY <2>1, <2>2, <2>3, <2>4, <2>5, <2>6 DEF GuiNext
  <1>3. PipeInv => AnswersReachTheirRequest
    BY DEF PipeInv, AnswersMatch, Same, Answered, AnswersReachTheirRequest
  <1> QED BY <1>1, <1>2, <1>3, PTL DEF GuiSpec

-----------------------------------------------------------------------------
(* The window that closes and the recording                                *)

(* A process that is gone has no recording under way; one was lost only if *)
(* an engine died; and the window goes after its engine.                   *)
DeparturesShape ==
    /\ remote = [at |-> remote.at, state |-> remote.state, rec |-> remote.rec, id |-> remote.id]
    /\ tally = [ids |-> tally.ids, timeouts |-> tally.timeouts, deaths |-> tally.deaths,
                engines |-> tally.engines]
    /\ leaving = [as |-> leaving.as, at |-> leaving.at]
    /\ remote.rec \in {"none", "live", "final", "lost"} /\ tally.deaths \in Nat

DepartureInv ==
    /\ DeparturesShape
    /\ remote.at = "down" => remote.rec # "live"
    /\ remote.rec = "lost" => tally.deaths > 0
    /\ leaving.at = "gone" => remote.at = "down"

(* A request that is made, ends or fails counts no death.                  *)
LEMMA CallsKillNobody ==
  ASSUME DeparturesShape, NEW t \in Threads, NEW cmd,
         \/ Send(t, cmd) \/ Done(t) \/ UNCHANGED tally
         \/ tally' = [tally EXCEPT !.timeouts = @ + 1]
         \/ tally' = [tally EXCEPT !.engines = @ + 1]
  PROVE  tally'.deaths = tally.deaths
         /\ tally' = [ids |-> tally'.ids, timeouts |-> tally'.timeouts, deaths |-> tally'.deaths,
                      engines |-> tally'.engines]
  BY DEF DeparturesShape, Send, Done

(* The steps of the window that are not about leaving.                     *)
LEMMA TheWindowStays ==
  ASSUME DepartureInv, UNCHANGED <<leaving, remote>>, NEW t \in Threads, NEW cmd,
         \/ Send(t, cmd) \/ Done(t) \/ UNCHANGED tally
         \/ tally' = [tally EXCEPT !.timeouts = @ + 1]
         \/ tally' = [tally EXCEPT !.engines = @ + 1]
  PROVE  DepartureInv'
  <1>1. tally'.deaths = tally.deaths
        /\ tally' = [ids |-> tally'.ids, timeouts |-> tally'.timeouts, deaths |-> tally'.deaths,
                     engines |-> tally'.engines]
    BY CallsKillNobody DEF DepartureInv
  <1> QED BY <1>1 DEF DepartureInv, DeparturesShape

LEMMA LeavingWaits ==
  ASSUME DepartureInv, Leaves \/ AsksToShutDown \/ Closes \/ Reaps \/ StartsEngine
  PROVE  DepartureInv'
  <1>0. DeparturesShape
    BY DEF DepartureInv
  <1>1. "gui" \in Threads
    BY DEF Threads
  <1>2. \/ Send("gui", "stop") \/ Send("gui", "shutdown") \/ UNCHANGED tally
        \/ tally' = [tally EXCEPT !.engines = @ + 1]
    BY DEF Leaves, AsksToShutDown, Closes, Reaps, StartsEngine
  <1>3. tally'.deaths = tally.deaths
        /\ tally' = [ids |-> tally'.ids, timeouts |-> tally'.timeouts, deaths |-> tally'.deaths,
                     engines |-> tally'.engines]
    BY <1>0, <1>1, <1>2, CallsKillNobody
  <1>4. CASE Leaves
    <2>1. leaving'.at \in {"stopping", "asks"} /\ leaving' = [as |-> leaving'.as, at |-> leaving'.at]
          /\ UNCHANGED remote
      BY <1>4 DEF Leaves
    <2> QED BY <1>3, <2>1 DEF DepartureInv, DeparturesShape
  <1>5. CASE AsksToShutDown \/ Closes
    <2>1. leaving'.at \in {"closes", "reaps"} /\ leaving' = [as |-> leaving'.as, at |-> leaving'.at]
          /\ UNCHANGED remote
      BY <1>0, <1>5 DEF AsksToShutDown, Closes, ClosesClient, DeparturesShape
    <2> QED BY <1>3, <2>1 DEF DepartureInv, DeparturesShape
  <1>6. CASE Reaps
    <2>1. leaving' = [as |-> leaving'.as, at |-> leaving'.at] /\ UNCHANGED remote /\ remote.at = "down"
      BY <1>0, <1>6 DEF Reaps, DeparturesShape
    <2> QED BY <1>3, <2>1 DEF DepartureInv, DeparturesShape
  <1>7. CASE StartsEngine
    <2>1. leaving' = [as |-> "no", at |-> "no"]
          /\ remote' = [at |-> "up", state |-> "idle", rec |-> "none", id |-> 0]
      BY <1>7 DEF StartsEngine, FreshEngine
    <2> QED BY <1>3, <2>1 DEF DepartureInv, DeparturesShape
  <1> QED BY <1>4, <1>5, <1>6, <1>7

LEMMA EnginesFinish ==
  ASSUME DepartureInv, EngineAnswers \/ EngineStops \/ EngineStopped \/ EngineExits \/ EngineDies
  PROVE  DepartureInv'
  <1>0. DeparturesShape /\ leaving' = leaving
    BY DEF DepartureInv, EngineAnswers, EngineStops, EngineStopped, EngineExits, EngineDies
  <1>1. CASE EngineAnswers
    <2>1. remote.at = "up" /\ tally' = tally
      BY <1>1 DEF EngineAnswers
    <2>2. PICK e \in Effects(Head(upward).cmd) :
            remote' = [remote EXCEPT !.state = e.state, !.rec = e.rec,
                         !.at = IF Head(upward).cmd = "shutdown" THEN "exiting" ELSE "up"]
      BY <1>1 DEF EngineAnswers
    <2>3. e.rec \in {"live", remote.rec}
      BY <2>2 DEF Effects
    <2>4. /\ remote' = [at |-> remote'.at, state |-> remote'.state, rec |-> remote'.rec, id |-> remote'.id]
          /\ remote'.rec = e.rec /\ remote'.at \in {"exiting", "up"}
      BY <1>0, <2>2 DEF DeparturesShape
    <2> QED BY <1>0, <2>1, <2>3, <2>4 DEF DepartureInv, DeparturesShape
  <1>2. CASE EngineStops \/ EngineStopped
    <2>1. remote.at # "down" /\ tally' = tally
      BY <1>2 DEF EngineStops, EngineStopped
    <2>2. /\ remote' = [at |-> remote'.at, state |-> remote'.state, rec |-> remote'.rec, id |-> remote'.id]
          /\ remote'.rec \in {"final", remote.rec} /\ remote'.at \in {"stopping", "up"}
      BY <1>0, <1>2 DEF DeparturesShape, EngineStops, EngineStopped
    <2> QED BY <1>0, <2>1, <2>2 DEF DepartureInv, DeparturesShape
  <1>3. CASE EngineExits
    <2>1. remote.at = "exiting" /\ tally' = tally
      BY <1>3 DEF EngineExits
    <2>2. /\ remote' = [at |-> remote'.at, state |-> remote'.state, rec |-> remote'.rec, id |-> remote'.id]
          /\ remote'.rec = (IF remote.rec = "live" THEN "final" ELSE remote.rec) /\ remote'.at = "down"
      BY <1>0, <1>3 DEF DeparturesShape, EngineExits
    <2> QED BY <1>0, <2>1, <2>2 DEF DepartureInv, DeparturesShape
  <1>4. CASE EngineDies
    <2>1. /\ tally' = [ids |-> tally'.ids, timeouts |-> tally'.timeouts, deaths |-> tally'.deaths,
                       engines |-> tally'.engines]
          /\ tally'.deaths = tally.deaths + 1
      BY <1>0, <1>4 DEF DeparturesShape, EngineDies
    <2>2. /\ remote' = [at |-> remote'.at, state |-> remote'.state, rec |-> remote'.rec, id |-> remote'.id]
          /\ remote'.rec = (IF remote.rec = "live" THEN "lost" ELSE remote.rec) /\ remote'.at = "down"
      BY <1>0, <1>4 DEF DeparturesShape, EngineDies
    <2>3. tally'.deaths \in Nat /\ tally'.deaths > 0
      BY <1>0, <2>1 DEF DeparturesShape
    <2> QED BY <1>0, <2>1, <2>2, <2>3 DEF DepartureInv, DeparturesShape
  <1> QED BY <1>1, <1>2, <1>3, <1>4

(* LeavingKeepsTheRecording: whichever way the window goes, closed while a *)
(* recording is under way or restarting its engine, the process is gone    *)
(* only when the file is finished, unless an engine died by itself, with   *)
(* any requests on their way, refused or timed out                         *)
(* (EngineController.shutdown, closeEvent).                                *)
THEOREM LeavingFinishesTheFile == GuiSpec => []LeavingKeepsTheRecording
  <1>1. GuiInit => DepartureInv
    BY DEF GuiInit, FreshEngine, DepartureInv, DeparturesShape
  <1>2. DepartureInv /\ [GuiNext]_guiVars => DepartureInv'
    <2> SUFFICES ASSUME DepartureInv, [GuiNext]_guiVars PROVE DepartureInv'
      OBVIOUS
    <2>0. "gui" \in Threads /\ "command" \in Threads
      BY DEF Threads
    <2>1. CASE StartPressed \/ PausePressed \/ ResumePressed
      BY <2>0, <2>1, TheWindowStays DEF StartPressed, PausePressed, ResumePressed, Presses
    <2>2. CASE \/ StopPressed \/ PressedInVain \/ RecoverPressed \/ RecoveryFinished
               \/ ReaderDispatches \/ ReaderEnds \/ UNCHANGED guiVars
      <3>1. UNCHANGED <<leaving, remote, tally>>
        BY <2>2 DEF StopPressed, PressedInVain, RecoverPressed, RecoveryFinished, ReaderDispatches,
                    ReaderEnds, guiVars
      <3> QED BY <2>0, <3>1, TheWindowStays
    <2>3. CASE TakesCommand
      <3>1. UNCHANGED <<leaving, remote>> /\ (Send("command", Head(commands)) \/ UNCHANGED tally)
        BY <2>3 DEF TakesCommand
      <3> QED BY <2>0, <3>1, TheWindowStays
    <2>4. ASSUME NEW t \in Threads, GetsAnswer(t) \/ TimesOut(t) \/ EngineGone(t) PROVE DepartureInv'
      <3>1. UNCHANGED <<leaving, remote>>
        BY <2>4 DEF GetsAnswer, TimesOut, EngineGone
      <3>2. Done(t) \/ Send(t, "stats") \/ tally' = [tally EXCEPT !.timeouts = @ + 1]
        BY <2>4 DEF GetsAnswer, TimesOut, EngineGone, TakesAnswer, Refused, GivesUp
      <3> QED BY <3>1, <3>2, TheWindowStays
    <2>5. CASE Leaves \/ AsksToShutDown \/ Closes \/ Reaps \/ StartsEngine
      BY <2>5, LeavingWaits
    <2>6. CASE EngineAnswers \/ EngineStops \/ EngineStopped \/ EngineExits \/ EngineDies
      BY <2>6, EnginesFinish
    <2> QED BY <2>1, <2>2, <2>3, <2>4, <2>5, <2>6 DEF GuiNext
  <1>3. DepartureInv => LeavingKeepsTheRecording
    BY DEF DepartureInv, DeparturesShape, LeavingKeepsTheRecording
  <1> QED BY <1>1, <1>2, <1>3, PTL DEF GuiSpec
=============================================================================
