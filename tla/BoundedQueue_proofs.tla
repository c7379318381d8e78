------------------------ MODULE BoundedQueue_proofs ------------------------
(***************************************************************************)
(* Safety of BoundedQueue for every set of threads, capacity and policy,   *)
(* and that it implements BoundedChannel.                                  *)
(***************************************************************************)
EXTENDS BoundedQueue, SequenceTheorems, TLAPS

(* The two marks the histories leave behind: nothing handed out, and       *)
(* nothing accepted before the latest reopen, is still in the ring.        *)
Marks ==
    /\ newest <= accepted - size
    /\ reopenedAt <= accepted - size

(* The ring's contents are determined by three counters, so an invariant   *)
(* about values needs the shape of the ring, the contents and the marks    *)
(* together; none of the three is inductive alone.                         *)
IInv ==
    /\ TypeOK
    /\ RingShape
    /\ HoldsTheNewestInOrder
    /\ EveryValueIsAccountedFor
    /\ BlockNeverDrops
    /\ DrainedBeforeEnd
    /\ Marks

(* Stepping an index round the ring: the next slot, or back to slot 0.     *)
LEMMA AdvanceSteps ==
    ASSUME NEW i \in Index
    PROVE  /\ Advance(i) = IF i + 1 = Capacity THEN 0 ELSE i + 1
           /\ Advance(i) \in Index
  <1>1. CASE i + 1 = Capacity
    BY <1>1, CapacityAssumption DEF Advance, Index
  <1>2. CASE i + 1 < Capacity
    BY <1>2, CapacityAssumption DEF Advance, Index
  <1> QED BY <1>1, <1>2, CapacityAssumption DEF Index

(* An empty queue satisfies the invariant.                                 *)
LEMMA InitEstablishes == Init => IInv
  <1> SUFFICES ASSUME Init PROVE IInv
    OBVIOUS
  <1> USE CapacityAssumption DEF Init
  <1>1. TypeOK
    <2>1. slots \in [Index -> Nat] /\ head \in Index /\ tail \in Index /\ size \in 0 .. Capacity
      BY DEF Index, Empty
    <2> QED BY <2>1 DEF TypeOK
  <1>2. RingShape
    BY DEF RingShape
  <1>3. HoldsTheNewestInOrder
    BY DEF HoldsTheNewestInOrder, Offset, Index, Empty
  <1>4. EveryValueIsAccountedFor /\ BlockNeverDrops /\ Marks
    BY DEF EveryValueIsAccountedFor, BlockNeverDrops, Marks
  <1>5. DrainedBeforeEnd
    BY DEF DrainedBeforeEnd, Threads
  <1> QED BY <1>1, <1>2, <1>3, <1>4, <1>5 DEF IInv

(* push, with room: the new value goes behind the newest one.              *)
LEMMA PushAcceptedPreserves ==
    ASSUME IInv, NEW p \in Producers, PushAccepted(p)
    PROVE  IInv'
  <1> USE CapacityAssumption DEF IInv, PushAccepted, EmplaceAtTail
  <1>0. tail \in Index /\ Advance(tail) \in Index
        /\ Advance(tail) = IF tail + 1 = Capacity THEN 0 ELSE tail + 1
    BY AdvanceSteps DEF TypeOK
  <1>1. TypeOK'
    BY <1>0 DEF TypeOK, Index, Threads
  <1>2. RingShape'
    BY <1>0 DEF TypeOK, RingShape, Index
  <1>3. HoldsTheNewestInOrder'
    BY <1>0 DEF TypeOK, RingShape, HoldsTheNewestInOrder, Offset, Index, Empty
  <1>4. EveryValueIsAccountedFor' /\ BlockNeverDrops' /\ Marks'
    BY DEF TypeOK, EveryValueIsAccountedFor, BlockNeverDrops, Marks
  <1>5. DrainedBeforeEnd'
    BY ThreadsAssumption DEF TypeOK, DrainedBeforeEnd, Threads
  <1> QED BY <1>1, <1>2, <1>3, <1>4, <1>5

(* push, full and DropOldest: the head gives up one slot and the tail, the *)
(* same slot, receives the new value.                                      *)
LEMMA PushDisplacesPreserves ==
    ASSUME IInv, NEW p \in Producers, PushDisplacesOldest(p)
    PROVE  IInv'
  <1> USE CapacityAssumption DEF IInv, PushDisplacesOldest, MayDisplace, Displace, EmplaceAtTail
  <1>0. /\ head \in Index /\ tail = head /\ Advance(head) \in Index
        /\ Advance(head) = IF head + 1 = Capacity THEN 0 ELSE head + 1
    <2>1. head \in Index
      BY DEF TypeOK
    <2>2. tail = head
      BY <2>1 DEF TypeOK, RingShape, Index
    <2>3. /\ Advance(head) \in Index
          /\ Advance(head) = IF head + 1 = Capacity THEN 0 ELSE head + 1
      BY ONLY <2>1, AdvanceSteps
    <2> QED BY ONLY <2>1, <2>2, <2>3
  <1>1. TypeOK'
    BY <1>0 DEF TypeOK, Index, Threads
  <1>2. RingShape'
    BY <1>0 DEF TypeOK, RingShape, Index
  <1>3. HoldsTheNewestInOrder'
    <2>1. SUFFICES ASSUME NEW i \in Index
                   PROVE  slots'[i] = IF Offset(i)' < size' THEN accepted' - size' + 1 + Offset(i)'
                                      ELSE Empty
      BY DEF HoldsTheNewestInOrder
    <2>2. CASE i = head
      <3>1. slots'[i] = accepted + 1 /\ Offset(i)' = Capacity - 1
        BY <2>2, <1>0 DEF TypeOK, Offset, Index
      <3> QED BY <3>1 DEF TypeOK
    <2>3. CASE i # head
      <3>1. slots'[i] = slots[i]
        BY <2>3, <1>0 DEF TypeOK
      <3>2. Offset(i)' = Offset(i) - 1 /\ Offset(i) \in Index
        BY <2>3, <1>0 DEF Offset, Index
      <3>3. slots[i] = accepted - size + 1 + Offset(i)
        BY <3>2 DEF HoldsTheNewestInOrder, Index
      <3> QED BY <3>1, <3>2, <3>3 DEF TypeOK, Index
    <2> QED BY <2>2, <2>3
  <1>4. EveryValueIsAccountedFor' /\ BlockNeverDrops' /\ Marks'
    BY DEF TypeOK, EveryValueIsAccountedFor, BlockNeverDrops, Marks
  <1>5. DrainedBeforeEnd'
    BY ThreadsAssumption DEF TypeOK, DrainedBeforeEnd, Threads
  <1> QED BY <1>1, <1>2, <1>3, <1>4, <1>5

(* pop: the oldest value leaves, the others keep their place.              *)
LEMMA PopTakesPreserves ==
    ASSUME IInv, NEW c \in Consumers, PopTakes(c)
    PROVE  IInv' /\ newest' > newest
  <1> USE CapacityAssumption DEF IInv, PopTakes, TakeLocked, Front
  <1>0. /\ head \in Index /\ Advance(head) \in Index
        /\ Advance(head) = IF head + 1 = Capacity THEN 0 ELSE head + 1
    BY AdvanceSteps DEF TypeOK
  <1>h. slots[head] = accepted - size + 1
    BY <1>0 DEF TypeOK, HoldsTheNewestInOrder, Offset, Index
  <1>1. TypeOK'
    BY <1>0, <1>h DEF TypeOK, Index, Empty, Threads
  <1>2. RingShape'
    BY <1>0 DEF TypeOK, RingShape, Index
  <1>3. HoldsTheNewestInOrder'
    <2>1. SUFFICES ASSUME NEW i \in Index
                   PROVE  slots'[i] = IF Offset(i)' < size' THEN accepted' - size' + 1 + Offset(i)'
                                      ELSE Empty
      BY DEF HoldsTheNewestInOrder
    <2>2. CASE i = head
      <3>1. slots'[i] = Empty /\ Offset(i)' = Capacity - 1
        BY <2>2, <1>0 DEF TypeOK, Offset, Index
      <3> QED BY <3>1 DEF TypeOK
    <2>3. CASE i # head
      <3>1. slots'[i] = slots[i]
        BY <2>3 DEF TypeOK
      <3>2. Offset(i)' = Offset(i) - 1 /\ Offset(i) \in Index
        BY <2>3, <1>0 DEF Offset, Index
      <3>3. slots[i] = IF Offset(i) < size THEN accepted - size + 1 + Offset(i) ELSE Empty
        BY DEF HoldsTheNewestInOrder
      <3> QED BY <3>1, <3>2, <3>3 DEF TypeOK, Index
    <2> QED BY <2>2, <2>3
  <1>4. EveryValueIsAccountedFor' /\ BlockNeverDrops' /\ Marks'
    BY <1>h DEF TypeOK, EveryValueIsAccountedFor, BlockNeverDrops, Marks
  <1>5. DrainedBeforeEnd'
    BY DEF TypeOK, DrainedBeforeEnd, Threads
  <1>6. newest' > newest
    BY <1>h DEF TypeOK, Marks
  <1> QED BY <1>1, <1>2, <1>3, <1>4, <1>5, <1>6

(* A step that leaves the ring and the histories alone can disturb the     *)
(* invariant only through the thread states.                               *)
LEMMA WaitingPreserves ==
    ASSUME IInv, UNCHANGED <<queueVars, history>>, TypeOK',
           \A c \in Consumers : pc'[c] = "ended" =>
                                 pc[c] = "ended" \/ (closed /\ size = 0)
    PROVE  IInv'
  <1> USE DEF IInv, queueVars, history
  <1>1. RingShape' /\ EveryValueIsAccountedFor' /\ BlockNeverDrops' /\ Marks'
    BY DEF RingShape, EveryValueIsAccountedFor, BlockNeverDrops, Marks
  <1>2. HoldsTheNewestInOrder'
    BY DEF HoldsTheNewestInOrder, Offset
  <1>3. DrainedBeforeEnd'
    BY DEF DrainedBeforeEnd
  <1> QED BY <1>1, <1>2, <1>3

(* notify_one moves at most one waiter, and ends no consumer.              *)
LEMMA NotifyPreserves ==
    ASSUME IInv, NEW t \in Threads, NEW group, group \in {Producers, Consumers},
           NotifyOne(t, group)
    PROVE  IInv'
  <1> USE DEF IInv
  <1>1. UNCHANGED <<queueVars, closer, history>>
    BY DEF NotifyOne
  <1>2. /\ pc' \in [Threads -> {"idle", "waiting", "woken", "notify", "ended"}]
        /\ \A c \in Threads : pc'[c] = "ended" => pc[c] = "ended"
    <2>1. CASE pc' = [pc EXCEPT ![t] = "idle"]
      BY <2>1 DEF TypeOK
    <2>2. CASE \E w \in Waiting(group) : pc' = [pc EXCEPT ![t] = "idle", ![w] = "woken"]
      <3>1. PICK w \in Waiting(group) : pc' = [pc EXCEPT ![t] = "idle", ![w] = "woken"]
        BY <2>2
      <3>2. w \in Threads
        BY DEF Waiting, Threads
      <3> QED BY <3>1, <3>2 DEF TypeOK
    <2> QED BY <2>1, <2>2 DEF NotifyOne
  <1>3. TypeOK'
    BY <1>1, <1>2 DEF TypeOK, queueVars, history
  <1> QED BY <1>1, <1>2, <1>3, WaitingPreserves DEF Threads

(* A call that only changes where its thread is: a refused or waiting      *)
(* push, a waiting or finishing pop, a spurious wake-up.                   *)
LEMMA ThreadMovePreserves ==
    ASSUME IInv, NEW t \in Threads,
           PushClosed(t) \/ PushWaits(t) \/ PopWaits(t) \/ PopEnds(t) \/ SpuriousWake(t)
    PROVE  IInv'
  <1> USE DEF IInv
  <1>1. UNCHANGED <<queueVars, closer, history>>
    BY DEF PushClosed, PushWaits, PopWaits, PopEnds, SpuriousWake
  <1>2. PICK where \in {"idle", "waiting", "woken", "ended"} :
            /\ pc' = [pc EXCEPT ![t] = where]
            /\ where = "ended" => closed /\ size = 0
    BY DEF PushClosed, PushWaits, PopWaits, PopEnds, Drained, SpuriousWake
  <1>3. TypeOK'
    BY <1>1, <1>2 DEF TypeOK, queueVars, history
  <1>4. \A c \in Consumers : pc'[c] = "ended" => pc[c] = "ended" \/ (closed /\ size = 0)
    BY <1>2 DEF TypeOK, Threads
  <1> QED BY <1>1, <1>3, <1>4, WaitingPreserves

(* The three critical sections of close.                                   *)
LEMMA ClosePreserves ==
    ASSUME IInv, Close
    PROVE  IInv'
  <1> USE DEF IInv
  <1>1. CASE CloseSetsFlag
    <2>1. UNCHANGED <<slots, head, tail, size, dropped, pc, history>> /\ closed' = TRUE
      BY <1>1 DEF CloseSetsFlag
    <2>2. TypeOK'
      BY <1>1 DEF CloseSetsFlag, TypeOK, history
    <2>3. HoldsTheNewestInOrder'
      BY <2>1 DEF HoldsTheNewestInOrder, Offset, history
    <2>4. RingShape' /\ EveryValueIsAccountedFor' /\ BlockNeverDrops' /\ Marks'
      BY <2>1 DEF RingShape, EveryValueIsAccountedFor, BlockNeverDrops, Marks, history
    <2>5. DrainedBeforeEnd'
      BY <2>1 DEF DrainedBeforeEnd
    <2> QED BY <2>2, <2>3, <2>4, <2>5
  <1>2. ASSUME NEW group, group \in {Producers, Consumers}, pc' = WakeAll(group),
               UNCHANGED <<queueVars, history>>,
               closer' \in {"notifyNotFull", "closed"}
        PROVE  IInv'
    <2>1. TypeOK'
      BY <1>2 DEF TypeOK, WakeAll, queueVars, history
    <2>2. \A c \in Consumers : pc'[c] = "ended" => pc[c] = "ended"
      BY <1>2 DEF WakeAll, Threads
    <2> QED BY <1>2, <2>1, <2>2, WaitingPreserves
  <1>3. CASE CloseNotifiesNotEmpty
    BY <1>2, <1>3 DEF CloseNotifiesNotEmpty
  <1>4. CASE CloseNotifiesNotFull
    BY <1>2, <1>4 DEF CloseNotifiesNotFull
  <1> QED BY <1>1, <1>3, <1>4 DEF Close

(* reopen: legal only on an empty queue, which is what keeps the values of *)
(* the previous run out of the next one.                                   *)
LEMMA ReopenPreserves ==
    ASSUME IInv, Reopen
    PROVE  IInv'
  <1> USE DEF IInv, Reopen, Drained
  <1>1. TypeOK'
    <2>1. pc' \in [Threads -> {"idle", "waiting", "woken", "notify", "ended"}]
      BY DEF TypeOK
    <2>2. slots' = slots /\ head' = head /\ tail' = tail /\ size' = size
      OBVIOUS
    <2>3. closed' \in BOOLEAN
      BY Zenon
    <2>4. /\ reopens' \in Nat /\ reopenedAt' \in Nat
          /\ closer' \in {"open", "notifyNotEmpty", "notifyNotFull", "closed"}
      BY DEF TypeOK
    <2> QED BY <2>1, <2>2, <2>3, <2>4 DEF TypeOK
  <1>2. HoldsTheNewestInOrder'
    BY DEF HoldsTheNewestInOrder, Offset
  <1>3. RingShape' /\ EveryValueIsAccountedFor' /\ BlockNeverDrops' /\ Marks'
    BY DEF TypeOK, RingShape, EveryValueIsAccountedFor, BlockNeverDrops, Marks
  <1>4. DrainedBeforeEnd'
    BY DEF DrainedBeforeEnd, Threads
  <1> QED BY <1>1, <1>2, <1>3, <1>4

(* Every step preserves the invariant.                                     *)
LEMMA StepPreserves ==
    ASSUME IInv, [Next]_vars
    PROVE  IInv'
  <1>1. ASSUME NEW p \in Producers, Push(p) \/ NotifyOne(p, Consumers)
        PROVE  IInv'
    <2>1. p \in Threads
      BY DEF Threads
    <2> QED BY <1>1, <2>1, PushAcceptedPreserves, PushDisplacesPreserves,
               ThreadMovePreserves, NotifyPreserves DEF Push
  <1>2. ASSUME NEW c \in Consumers, Pop(c) \/ NotifyOne(c, Producers)
        PROVE  IInv'
    <2>1. c \in Threads
      BY DEF Threads
    <2> QED BY <1>2, <2>1, PopTakesPreserves, ThreadMovePreserves, NotifyPreserves DEF Pop
  <1>3. ASSUME NEW t \in Threads, SpuriousWake(t)
        PROVE  IInv'
    BY <1>3, ThreadMovePreserves
  <1>4. CASE UNCHANGED vars
    BY <1>4 DEF vars, IInv, TypeOK, RingShape, HoldsTheNewestInOrder, Offset,
                EveryValueIsAccountedFor, BlockNeverDrops, DrainedBeforeEnd, Marks
  <1> QED BY <1>1, <1>2, <1>3, <1>4, ClosePreserves, ReopenPreserves DEF Next

(* The invariant holds in every state of every instance.                   *)
THEOREM Invariance == Spec => []IInv
  <1>1. Init => IInv
    BY InitEstablishes
  <1>2. IInv /\ [Next]_vars => IInv'
    BY StepPreserves
  <1> QED BY <1>1, <1>2, PTL DEF Spec

(* Types.                                                                  *)
THEOREM TypeCorrect == Spec => []TypeOK
  <1>1. IInv => TypeOK
    BY DEF IInv
  <1> QED BY <1>1, Invariance, PTL

(* The ring is the newest `size' accepted values in order, whatever the    *)
(* capacity, the policy and the number of threads (push, pop, take_locked, *)
(* emplace_locked, reopen).                                                *)
THEOREM RingIsFifo == Spec => [](RingShape /\ HoldsTheNewestInOrder)
  <1>1. IInv => RingShape /\ HoldsTheNewestInOrder
    BY DEF IInv
  <1> QED BY <1>1, Invariance, PTL

(* No accepted value disappears uncounted (push's dropped_ and pop).       *)
THEOREM NoSilentLoss == Spec => []EveryValueIsAccountedFor
  <1>1. IInv => EveryValueIsAccountedFor
    BY DEF IInv
  <1> QED BY <1>1, Invariance, PTL

(* A Block queue never drops (push's policy test).                         *)
THEOREM BlockIsLossless == Spec => []BlockNeverDrops
  <1>1. IInv => BlockNeverDrops
    BY DEF IInv
  <1> QED BY <1>1, Invariance, PTL

(* A consumer that was told to finish left nothing behind (pop's nullopt). *)
THEOREM ConsumersDrain == Spec => []DrainedBeforeEnd
  <1>1. IInv => DrainedBeforeEnd
    BY DEF IInv
  <1> QED BY <1>1, Invariance, PTL

(* Nothing accepted before a reopen is in the ring after it.               *)
THEOREM ReopenStartsClean == Spec => []NothingSurvivesReopen
  <1>1. IInv => NothingSurvivesReopen
    <2> SUFFICES ASSUME IInv, NEW i \in Index, slots[i] # Empty
                 PROVE  slots[i] > reopenedAt
      BY DEF NothingSurvivesReopen
    <2>1. slots[i] = accepted - size + 1 + Offset(i)
      BY DEF IInv, HoldsTheNewestInOrder
    <2>2. Offset(i) \in Nat
      BY CapacityAssumption DEF IInv, TypeOK, Offset, Index
    <2> QED BY <2>1, <2>2 DEF IInv, TypeOK, Marks
  <1> QED BY <1>1, Invariance, PTL

(* Values are handed out in the order they were accepted (pop).            *)
THEOREM PopsInOrder == Spec => DeliveredInOrder
  <1>1. IInv /\ [Next]_vars => [taken' # taken => newest' > newest]_vars
    <2> SUFFICES ASSUME IInv, Next, taken' # taken
                 PROVE  newest' > newest
      OBVIOUS
    <2>1. \E c \in Consumers : PopTakes(c)
      BY DEF Next, Push, Pop, Close, PushClosed, PushAccepted, PushWaits,
             PushDisplacesOldest, PopWaits, PopEnds, NotifyOne, SpuriousWake,
             CloseSetsFlag, CloseNotifiesNotEmpty, CloseNotifiesNotFull, Reopen, history
    <2> QED BY <2>1, PopTakesPreserves
  <1> QED BY <1>1, Invariance, PTL DEF Spec, DeliveredInOrder

------------------------------------------------------------------------------
(* The ring implements the channel                                         *)

(* What the channel shows of the ring, and the same by its counters.       *)
Queued == [k \in 1 .. size |-> slots[(head + k - 1) % Capacity]]
UpTo(a, n) == [k \in 1 .. n |-> a - n + k]
Ended  == {c \in Consumers : pc[c] = "ended"}

(* Walking k slots round the ring from the head.                           *)
LEMMA RingWalk ==
    ASSUME NEW i \in Index, NEW k \in 1 .. Capacity
    PROVE  (i + k - 1) % Capacity = IF i + k - 1 < Capacity THEN i + k - 1 ELSE i + k - 1 - Capacity
  <1> USE CapacityAssumption DEF Index
  <1>1. CASE i + k - 1 < Capacity
    BY <1>1
  <1>2. CASE i + k - 1 >= Capacity
    <2>1. PICK r \in 0 .. Capacity - 1 : r = i + k - 1 - Capacity
      BY <1>2
    <2>2. (r + 1 * Capacity) % Capacity = r
      BY <2>1
    <2> QED BY <1>2, <2>1, <2>2
  <1> QED BY <1>1, <1>2

LEMMA QueuedAreTheNewest == IInv => Queued = UpTo(accepted, size)
  <1> SUFFICES ASSUME IInv PROVE Queued = UpTo(accepted, size)
    OBVIOUS
  <1>0. /\ head \in Index /\ size \in 0 .. Capacity /\ accepted \in Nat
        /\ HoldsTheNewestInOrder
    BY DEF IInv, TypeOK
  <1>1. ASSUME NEW k \in 1 .. size
        PROVE  slots[(head + k - 1) % Capacity] = accepted - size + k
    <2>1. k \in 1 .. Capacity
      BY <1>0, CapacityAssumption
    <2> DEFINE i == (head + k - 1) % Capacity
    <2>2. i = IF head + k - 1 < Capacity THEN head + k - 1 ELSE head + k - 1 - Capacity
      BY <1>0, <2>1, RingWalk
    <2> HIDE DEF i
    <2>3. i \in Index /\ Offset(i) = k - 1
      BY <1>0, <2>1, <2>2, CapacityAssumption DEF Index, Offset
    <2>4. slots[i] = accepted - size + 1 + Offset(i)
      BY <1>0, <2>3 DEF HoldsTheNewestInOrder
    <2>5. slots[i] = accepted - size + k
      BY <1>0, <2>3, <2>4
    <2> QED BY <2>5 DEF i
  <1> QED BY <1>1 DEF Queued, UpTo

LEMMA TheyStayTheNewest == IInv' => (Queued = UpTo(accepted, size))'
  BY QueuedAreTheNewest, PTL

(* The n values up to the a-th, as a sequence.                             *)
LEMMA UpToIsASequence ==
    ASSUME NEW a \in Nat, NEW n \in 0 .. a
    PROVE  /\ UpTo(a, n) \in Seq(Nat) /\ Len(UpTo(a, n)) = n
           /\ \A k \in 1 .. n : UpTo(a, n)[k] = a - n + k
           /\ UpTo(a, n) = <<>> <=> n = 0
  <1>1. \A k \in 1 .. n : a - n + k \in Nat
    OBVIOUS
  <1>2. UpTo(a, n) \in [1 .. n -> Nat]
    BY <1>1 DEF UpTo
  <1>3. UpTo(a, n) \in Seq(Nat)
    BY <1>2
  <1>4. DOMAIN UpTo(a, n) = 1 .. n /\ \A k \in 1 .. n : UpTo(a, n)[k] = a - n + k
    BY DEF UpTo
  <1>5. Len(UpTo(a, n)) = n
    BY <1>3, <1>4
  <1>6. UpTo(a, n) = <<>> <=> n = 0
    BY <1>3, <1>5, EmptySeq
  <1> QED BY <1>3, <1>4, <1>5, <1>6

LEMMA OneMore ==
    ASSUME NEW a \in Nat, NEW n \in 0 .. a
    PROVE  UpTo(a + 1, n + 1) = Append(UpTo(a, n), a + 1)
  <1>1. PICK s \in Seq(Nat) : s = UpTo(a, n) /\ Len(s) = n /\ \A k \in 1 .. n : s[k] = a - n + k
    BY UpToIsASequence
  <1>2. a + 1 \in Nat /\ n + 1 \in 0 .. a + 1
    OBVIOUS
  <1>3. PICK t \in Seq(Nat) : /\ t = UpTo(a + 1, n + 1) /\ Len(t) = n + 1
                              /\ \A k \in 1 .. n + 1 : t[k] = (a + 1) - (n + 1) + k
    BY <1>2, UpToIsASequence
  <1>4. /\ Append(s, a + 1) \in Seq(Nat) /\ Len(Append(s, a + 1)) = n + 1
        /\ \A k \in 1 .. n + 1 : Append(s, a + 1)[k] = a - n + k
    <2>1. /\ Append(s, a + 1) \in Seq(Nat) /\ Len(Append(s, a + 1)) = n + 1
          /\ \A k \in 1 .. n : Append(s, a + 1)[k] = s[k]
          /\ Append(s, a + 1)[n + 1] = a + 1
      BY <1>1, <1>2
    <2>2. \A k \in 1 .. n + 1 : k \in 1 .. n \/ k = n + 1
      OBVIOUS
    <2>3. \A k \in 1 .. n : Append(s, a + 1)[k] = a - n + k
      BY <1>1, <2>1
    <2>4. Append(s, a + 1)[n + 1] = a - n + (n + 1)
      BY <2>1
    <2> QED BY <2>1, <2>2, <2>3, <2>4
  <1>5. \A k \in 1 .. n + 1 : t[k] = Append(s, a + 1)[k]
    BY <1>3, <1>4
  <1>6. t = Append(s, a + 1)
    BY <1>3, <1>4, <1>5, SeqEqual
  <1> QED BY <1>1, <1>3, <1>6

LEMMA OneLess ==
    ASSUME NEW a \in Nat, NEW n \in 1 .. a
    PROVE  Head(UpTo(a, n)) = a - n + 1 /\ Tail(UpTo(a, n)) = UpTo(a, n - 1)
  <1>1. PICK s \in Seq(Nat) : s = UpTo(a, n) /\ Len(s) = n /\ \A k \in 1 .. n : s[k] = a - n + k
    BY UpToIsASequence
  <1>2. n - 1 \in 0 .. a
    OBVIOUS
  <1>3. PICK t \in Seq(Nat) : /\ t = UpTo(a, n - 1) /\ Len(t) = n - 1
                              /\ \A k \in 1 .. n - 1 : t[k] = a - (n - 1) + k
    BY <1>2, UpToIsASequence
  <1>4. s # <<>> /\ Head(s) = a - n + 1
    BY <1>1
  <1>5. /\ Tail(s) \in Seq(Nat) /\ Len(Tail(s)) = n - 1
        /\ \A k \in 1 .. n - 1 : Tail(s)[k] = a - n + (k + 1)
    BY <1>1, <1>4
  <1>6. \A k \in 1 .. n - 1 : t[k] = Tail(s)[k]
    BY <1>3, <1>5
  <1>7. t = Tail(s)
    BY <1>3, <1>5, <1>6, SeqEqual
  <1> QED BY <1>1, <1>3, <1>4, <1>7

(* A queue that is being closed, and one that is closed, answer that it is.*)
CloserTells == closer # "open" => closed

LEMMA CloserTellsAlways == Spec => []CloserTells
  <1>1. Init => CloserTells
    BY DEF Init, CloserTells
  <1>2. CloserTells /\ [Next]_vars => CloserTells'
    BY DEF CloserTells, Next, Push, Pop, Close, PushClosed, PushAccepted, PushWaits, PushDisplacesOldest,
           PopTakes, PopWaits, PopEnds, NotifyOne, SpuriousWake, CloseSetsFlag, CloseNotifiesNotEmpty,
           CloseNotifiesNotFull, Reopen, queueVars, history, vars
  <1> QED BY <1>1, <1>2, PTL DEF Spec

(* The channel's state changes only with the ring, or when a consumer is   *)
(* told to finish.                                                         *)
LEMMA TheChannelRests ==
    ASSUME UNCHANGED <<queueVars, history>>, Ended' = Ended
    PROVE  UNCHANGED Channel!channelVars
  BY DEF Channel!channelVars, queueVars, history, Ended

(* A thread that goes elsewhere ends no consumer and revives none.         *)
LEMMA NobodyEnds ==
    ASSUME TypeOK, NEW t \in Threads, NEW where, pc' = [pc EXCEPT ![t] = where],
           pc[t] # "ended", where # "ended"
    PROVE  Ended' = Ended
  <1>1. \A c \in Consumers : c \in Threads /\ (pc'[c] = "ended" <=> pc[c] = "ended")
    BY DEF TypeOK, Threads
  <1> QED BY <1>1 DEF Ended

(* push: the new value goes behind the others, the oldest of which makes   *)
(* room in a full DropOldest queue.                                        *)
LEMMA PushImplements ==
    ASSUME IInv, IInv', NEW p \in Producers, Push(p)
    PROVE  [Channel!Next]_(Channel!channelVars)
  <1>0. /\ TypeOK /\ p \in Threads /\ pc[p] # "ended" /\ p \notin Consumers
        /\ accepted \in Nat /\ size \in 0 .. Capacity /\ size <= accepted
        /\ Queued = UpTo(accepted, size) /\ Queued' = UpTo(accepted', size')
        /\ Len(Queued) = size
    <2>1. TypeOK /\ p \in Threads /\ p \notin Consumers /\ accepted \in Nat /\ size \in 0 .. Capacity
      BY ThreadsAssumption DEF IInv, TypeOK, Threads
    <2>2. size <= accepted
      BY <2>1 DEF IInv, TypeOK, Marks
    <2>3. Queued = UpTo(accepted, size) /\ Queued' = UpTo(accepted', size')
      BY QueuedAreTheNewest, TheyStayTheNewest
    <2>4. pc[p] # "ended"
      BY DEF Push, PushClosed, PushAccepted, PushWaits, PushDisplacesOldest, CanPush
    <2>5. Len(Queued) = size
      BY <2>1, <2>2, <2>3, UpToIsASequence
    <2> QED BY <2>1, <2>2, <2>3, <2>4, <2>5
  <1>1. ASSUME NEW where, where # "ended", pc' = [pc EXCEPT ![p] = where] PROVE Ended' = Ended
    BY <1>0, <1>1, NobodyEnds
  <1>2. CASE PushClosed(p) \/ PushWaits(p)
    <2>1. UNCHANGED <<queueVars, history>> /\ Ended' = Ended
      BY <1>1, <1>2 DEF PushClosed, PushWaits
    <2> QED BY <2>1, TheChannelRests
  <1>3. CASE PushAccepted(p)
    <2>1. /\ ~closed /\ size < Capacity /\ accepted' = accepted + 1 /\ size' = size + 1
          /\ UNCHANGED <<dropped, newest, closed>> /\ Ended' = Ended
      BY <1>1, <1>3 DEF PushAccepted, EmplaceAtTail
    <2>2. Queued' = Append(Queued, accepted + 1)
      <3>1. size \in 0 .. accepted
        BY <1>0
      <3> QED BY <1>0, <2>1, <3>1, OneMore
    <2>3. Channel!Accept
      BY <1>0, <2>1, <2>2 DEF Channel!Accept, Queued, Ended
    <2> QED BY <2>3 DEF Channel!Next
  <1>4. CASE PushDisplacesOldest(p)
    <2>1. /\ ~closed /\ size = Capacity /\ Policy = "DropOldest" /\ accepted' = accepted + 1 /\ size' = size
          /\ dropped' = dropped + 1 /\ UNCHANGED <<newest, closed>> /\ Ended' = Ended
      BY <1>1, <1>4 DEF PushDisplacesOldest, EmplaceAtTail, Displace, MayDisplace
    <2>2. size \in 1 .. accepted /\ size - 1 \in 0 .. accepted /\ (size - 1) + 1 = size
      BY <1>0, <2>1, CapacityAssumption
    <2>3. Tail(Queued) = UpTo(accepted, size - 1)
      BY <1>0, <2>2, OneLess
    <2>4. Queued' = Append(Tail(Queued), accepted + 1)
      <3>1. UpTo(accepted + 1, (size - 1) + 1) = Append(UpTo(accepted, size - 1), accepted + 1)
        BY <1>0, <2>2, OneMore
      <3> QED BY <1>0, <2>1, <2>2, <2>3, <3>1
    <2>5. Channel!Accept
      BY <1>0, <2>1, <2>4 DEF Channel!Accept, Queued, Ended
    <2> QED BY <2>5 DEF Channel!Next
  <1> QED BY <1>2, <1>3, <1>4 DEF Push

(* pop: the oldest value leaves; a consumer that is told to finish leaves  *)
(* an empty channel.                                                       *)
LEMMA PopImplements ==
    ASSUME IInv, IInv', NEW c \in Consumers, Pop(c)
    PROVE  [Channel!Next]_(Channel!channelVars)
  <1>0. /\ TypeOK /\ c \in Threads /\ pc[c] # "ended"
        /\ accepted \in Nat /\ size \in 0 .. Capacity /\ size <= accepted
        /\ Queued = UpTo(accepted, size) /\ Queued' = UpTo(accepted', size')
        /\ Queued = <<>> <=> size = 0
    <2>1. TypeOK /\ c \in Threads /\ accepted \in Nat /\ size \in 0 .. Capacity
      BY DEF IInv, TypeOK, Threads
    <2>2. size <= accepted
      BY <2>1 DEF IInv, TypeOK, Marks
    <2>3. Queued = UpTo(accepted, size) /\ Queued' = UpTo(accepted', size')
      BY QueuedAreTheNewest, TheyStayTheNewest
    <2>4. pc[c] # "ended"
      BY DEF Pop, PopTakes, PopWaits, PopEnds
    <2>5. Queued = <<>> <=> size = 0
      BY <2>1, <2>2, <2>3, UpToIsASequence
    <2> QED BY <2>1, <2>2, <2>3, <2>4, <2>5
  <1>1. ASSUME NEW where, where # "ended", pc' = [pc EXCEPT ![c] = where] PROVE Ended' = Ended
    BY <1>0, <1>1, NobodyEnds
  <1>2. CASE PopWaits(c)
    <2>1. UNCHANGED <<queueVars, history>> /\ Ended' = Ended
      BY <1>1, <1>2 DEF PopWaits
    <2> QED BY <2>1, TheChannelRests
  <1>3. CASE PopTakes(c)
    <2>1. /\ size > 0 /\ size' = size - 1 /\ newest' = slots[head]
          /\ UNCHANGED <<accepted, dropped, closed>> /\ Ended' = Ended
      BY <1>1, <1>3 DEF PopTakes, TakeLocked, Front
    <2>2. size \in 1 .. accepted
      BY <1>0, <2>1
    <2>3. slots[head] = accepted - size + 1
      BY <1>0, <2>1, CapacityAssumption DEF IInv, TypeOK, HoldsTheNewestInOrder, Offset, Index
    <2>4. newest' = Head(Queued) /\ Queued' = Tail(Queued)
      BY <1>0, <2>1, <2>2, <2>3, OneLess
    <2>5. Queued # <<>>
      BY <1>0, <2>1
    <2>6. Channel!Take
      BY <2>1, <2>4, <2>5 DEF Channel!Take, Queued, Ended
    <2> QED BY <2>6 DEF Channel!Next
  <1>4. CASE PopEnds(c)
    <2>1. /\ size = 0 /\ closed /\ pc' = [pc EXCEPT ![c] = "ended"] /\ UNCHANGED <<queueVars, history>>
      BY <1>4 DEF PopEnds, Drained
    <2>2. \A d \in Consumers : d \in Threads /\ (pc'[d] = "ended" <=> pc[d] = "ended" \/ d = c)
      BY <1>0, <2>1 DEF TypeOK, Threads
    <2>3. Ended' = Ended \cup {c}
      BY <2>2 DEF Ended
    <2>4. Queued' = Queued
      BY <2>1 DEF Queued, queueVars
    <2>5. Channel!Finish(c)
      BY <1>0, <2>1, <2>3, <2>4 DEF Channel!Finish, Queued, Ended, queueVars, history
    <2> QED BY <2>5 DEF Channel!Next
  <1> QED BY <1>2, <1>3, <1>4 DEF Pop

(* Notifications and wake-ups move waiters only: the channel rests.        *)
LEMMA WakingImplements ==
    ASSUME TypeOK,
           \/ \E t \in Threads, group \in {Producers, Consumers} : NotifyOne(t, group)
           \/ \E t \in Threads : SpuriousWake(t)
           \/ CloseNotifiesNotEmpty \/ CloseNotifiesNotFull
    PROVE  UNCHANGED Channel!channelVars
  <1>1. UNCHANGED <<queueVars, history>>
    BY DEF NotifyOne, SpuriousWake, CloseNotifiesNotEmpty, CloseNotifiesNotFull
  <1>2. \A d \in Consumers : d \in Threads /\ (pc'[d] = "ended" <=> pc[d] = "ended")
    <2>1. ASSUME NEW t \in Threads, NEW group \in {Producers, Consumers}, NotifyOne(t, group)
          PROVE  \A d \in Threads : pc'[d] = "ended" <=> pc[d] = "ended"
      <3>1. CASE pc' = [pc EXCEPT ![t] = "idle"] /\ pc[t] = "notify"
        BY <3>1 DEF TypeOK
      <3>2. CASE \E w \in Waiting(group) : pc' = [pc EXCEPT ![t] = "idle", ![w] = "woken"] /\ pc[t] = "notify"
        <4>1. PICK w \in Waiting(group) : pc' = [pc EXCEPT ![t] = "idle", ![w] = "woken"] /\ pc[t] = "notify"
          BY <3>2
        <4>2. w \in Threads /\ pc[w] = "waiting"
          BY DEF Waiting, Threads
        <4> QED BY <4>1, <4>2 DEF TypeOK
      <3> QED BY <2>1, <3>1, <3>2 DEF NotifyOne
    <2>2. ASSUME NEW t \in Threads, SpuriousWake(t)
          PROVE  \A d \in Threads : pc'[d] = "ended" <=> pc[d] = "ended"
      BY <2>2 DEF SpuriousWake, TypeOK
    <2>3. ASSUME NEW group \in {Producers, Consumers}, pc' = WakeAll(group)
          PROVE  \A d \in Threads : pc'[d] = "ended" <=> pc[d] = "ended"
      BY <2>3 DEF WakeAll, Waiting
    <2> QED BY <2>1, <2>2, <2>3 DEF CloseNotifiesNotEmpty, CloseNotifiesNotFull, Threads
  <1>3. Ended' = Ended
    BY <1>2 DEF Ended
  <1> QED BY <1>1, <1>3, TheChannelRests

LEMMA CloseImplements ==
    ASSUME CloseSetsFlag
    PROVE  Channel!Close
  <1>1. closed' = TRUE /\ UNCHANGED <<slots, head, size, pc, accepted, dropped, newest>>
    BY DEF CloseSetsFlag, history
  <1>2. Queued' = Queued /\ Ended' = Ended
    BY <1>1 DEF Queued, Ended
  <1> QED BY <1>1, <1>2 DEF Channel!Close, Queued, Ended

LEMMA ReopenImplements ==
    ASSUME TypeOK, CloserTells, Queued = UpTo(accepted, size), Reopen
    PROVE  Channel!Reopen
  <1>1. /\ closed /\ size = 0 /\ closed' = FALSE /\ UNCHANGED <<slots, head, size, accepted, dropped, newest>>
        /\ \A c \in Consumers : pc[c] = "ended"
        /\ pc' = [t \in Threads |-> IF t \in Consumers THEN "idle" ELSE pc[t]]
    BY DEF Reopen, CloserTells, Drained
  <1>2. Ended = Consumers /\ Ended' = {}
    <2>1. \A c \in Consumers : c \in Threads /\ pc'[c] = "idle"
      BY <1>1 DEF Threads
    <2> QED BY <1>1, <2>1 DEF Ended
  <1>3. Queued' = Queued /\ Queued = <<>>
    <2>1. accepted \in Nat /\ 0 \in 0 .. accepted
      BY DEF TypeOK
    <2>2. Queued = <<>>
      BY <1>1, <2>1, UpToIsASequence
    <2> QED BY <1>1, <2>2 DEF Queued
  <1> QED BY <1>1, <1>2, <1>3 DEF Channel!Reopen, Queued, Ended

(* The ring, its three words and its threads implement a FIFO channel, for *)
(* every capacity, policy and set of threads: a push is an Accept, a pop   *)
(* that answers a value a Take, one that answers nullopt a Finish, close   *)
(* and reopen their namesakes, and what the mutex and the two condition    *)
(* variables add is invisible.                                             *)
THEOREM ImplementsTheChannel == Spec => ImplementsChannel
  <1>1. Init => Channel!Init
    <2> SUFFICES ASSUME Init PROVE Channel!Init
      OBVIOUS
    <2>1. IInv /\ size = 0 /\ accepted = 0
      BY InitEstablishes DEF Init
    <2>2. Queued = <<>>
      BY <2>1, QueuedAreTheNewest, UpToIsASequence
    <2>3. Ended = {}
      BY DEF Init, Ended, Threads
    <2> QED BY <2>2, <2>3 DEF Init, Channel!Init, Queued, Ended
  <1>2. IInv /\ IInv' /\ CloserTells /\ [Next]_vars => [Channel!Next]_(Channel!channelVars)
    <2> SUFFICES ASSUME IInv, IInv', CloserTells, [Next]_vars
                 PROVE  [Channel!Next]_(Channel!channelVars)
      OBVIOUS
    <2>0. TypeOK
      BY DEF IInv
    <2>1. ASSUME NEW p \in Producers, Push(p) \/ NotifyOne(p, Consumers)
          PROVE  [Channel!Next]_(Channel!channelVars)
      <3>1. CASE Push(p)
        BY <3>1, PushImplements
      <3>2. CASE NotifyOne(p, Consumers)
        BY <2>0, <3>2, WakingImplements DEF Threads
      <3> QED BY <2>1, <3>1, <3>2
    <2>2. ASSUME NEW c \in Consumers, Pop(c) \/ NotifyOne(c, Producers)
          PROVE  [Channel!Next]_(Channel!channelVars)
      <3>1. CASE Pop(c)
        BY <3>1, PopImplements
      <3>2. CASE NotifyOne(c, Producers)
        BY <2>0, <3>2, WakingImplements DEF Threads
      <3> QED BY <2>2, <3>1, <3>2
    <2>3. ASSUME NEW t \in Threads, SpuriousWake(t) PROVE [Channel!Next]_(Channel!channelVars)
      BY <2>0, <2>3, WakingImplements
    <2>4. CASE Close
      <3>1. CASE CloseSetsFlag
        BY <3>1, CloseImplements DEF Channel!Next
      <3>2. CASE CloseNotifiesNotEmpty \/ CloseNotifiesNotFull
        BY <2>0, <3>2, WakingImplements
      <3> QED BY <2>4, <3>1, <3>2 DEF Close
    <2>5. CASE Reopen
      BY <2>0, <2>5, QueuedAreTheNewest, ReopenImplements DEF Channel!Next
    <2>6. CASE UNCHANGED vars
      BY <2>6 DEF vars, Channel!channelVars
    <2> QED BY <2>1, <2>2, <2>3, <2>4, <2>5, <2>6 DEF Next
  <1> QED BY <1>1, <1>2, Invariance, CloserTellsAlways, PTL DEF Spec, ImplementsChannel, Channel!Spec

=============================================================================
