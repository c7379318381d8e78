---------------------------- MODULE BoundedQueue ----------------------------
(***************************************************************************)
(* util/bounded_queue.h: the bounded transport between two stages of the   *)
(* pipeline, at the grain of its critical sections.                        *)
(*                                                                         *)
(* One step is one stretch of code that holds mutex_.  The condition       *)
(* variables are explicit: a thread whose predicate is false joins the     *)
(* wait set, a notification is a later step of the notifying thread (the   *)
(* code unlocks before it notifies), a wake-up is only a permission to     *)
(* re-acquire the lock and test the predicate again, and a wake-up may be  *)
(* spurious.                                                               *)
(*                                                                         *)
(* An entry is the number of its acceptance: the k-th value push took is   *)
(* the number k.  That is all the properties ask of a value, and it makes  *)
(* order and loss visible.                                                 *)
(***************************************************************************)
EXTENDS Integers, FiniteSets, Sequences

CONSTANTS
    Producers,   \* threads that call push
    Consumers,   \* threads that call pop until it answers nullopt
    Capacity,    \* capacity_
    Policy,      \* policy_, "DropOldest" or "Block"
    MaxPushes,   \* bound: pushes that are accepted or still waiting
    MaxReopens   \* bound: calls of reopen that succeed

ASSUME ThreadsAssumption == Producers \cap Consumers = {}
ASSUME CapacityAssumption == Capacity \in Nat \ {0}
ASSUME PolicyAssumption == Policy \in {"DropOldest", "Block"}
ASSUME BoundsAssumption == MaxPushes \in Nat /\ MaxReopens \in Nat

VARIABLES
    slots,     \* slots_: an entry, or Empty for a moved-from slot
    head,      \* head_
    tail,      \* tail_
    size,      \* size_
    dropped,   \* dropped_
    closed,    \* closed_
    pc,        \* where each thread is in push or pop
    closer,    \* where the owner is in close: its two notify_all calls
    accepted,  \* history: values push has taken
    taken,     \* history: values pop has handed out
    newest,    \* history: the largest value handed out
    reopens,   \* history: calls of reopen that succeeded
    reopenedAt \* history: accepted, at the latest of them

queueVars == <<slots, head, tail, size, dropped, closed>>
history == <<accepted, taken, newest, reopens, reopenedAt>>
vars == <<slots, head, tail, size, dropped, closed, pc, closer,
          accepted, taken, newest, reopens, reopenedAt>>

Threads == Producers \cup Consumers
Index == 0 .. Capacity - 1
Empty == 0

(* (i + 1) % capacity_                                                     *)
Advance(i) == (i + 1) % Capacity

Drained == size = 0

MayDisplace == Policy = "DropOldest"

(* How far slot i is behind the head, walking forward round the ring.      *)
Offset(i) == IF i >= head THEN i - head ELSE i - head + Capacity

-----------------------------------------------------------------------------
Init ==
    /\ slots = [i \in Index |-> Empty]
    /\ head = 0
    /\ tail = 0
    /\ size = 0
    /\ dropped = 0
    /\ closed = FALSE
    /\ pc = [t \in Threads |-> "idle"]
    /\ closer = "open"
    /\ accepted = 0
    /\ taken = 0
    /\ newest = 0
    /\ reopens = 0
    /\ reopenedAt = 0

-----------------------------------------------------------------------------
(* push                                                                    *)

Blocked == {p \in Producers : pc[p] \in {"waiting", "woken"}}

(* A thread that may take the lock and run push's body: a new call, while  *)
(* the bound allows one, or a return from not_full_.wait.                  *)
CanPush(p) ==
    \/ pc[p] = "idle" /\ accepted + Cardinality(Blocked) < MaxPushes
    \/ pc[p] = "woken"

EmplaceAtTail ==
    /\ slots' = [slots EXCEPT ![tail] = accepted + 1]
    /\ tail' = Advance(tail)
    /\ accepted' = accepted + 1

(* Mutant: the head stays on the value that is overwritten.                *)
DisplaceInPlace == UNCHANGED head /\ dropped' = dropped + 1
Displace == head' = Advance(head) /\ dropped' = dropped + 1

PushClosed(p) ==
    /\ CanPush(p)
    /\ closed
    /\ pc' = [pc EXCEPT ![p] = "idle"]
    /\ UNCHANGED <<queueVars, closer, history>>

PushAccepted(p) ==
    /\ CanPush(p)
    /\ ~closed
    /\ size < Capacity
    /\ EmplaceAtTail
    /\ size' = size + 1
    /\ pc' = [pc EXCEPT ![p] = "notify"]
    /\ UNCHANGED <<head, dropped, closed, closer, taken, newest, reopens, reopenedAt>>

PushWaits(p) ==
    /\ CanPush(p)
    /\ ~closed
    /\ size = Capacity
    /\ Policy = "Block"
    /\ pc' = [pc EXCEPT ![p] = "waiting"]
    /\ UNCHANGED <<queueVars, closer, history>>

PushDisplacesOldest(p) ==
    /\ CanPush(p)
    /\ ~closed
    /\ size = Capacity
    /\ MayDisplace
    /\ Displace
    /\ EmplaceAtTail
    /\ pc' = [pc EXCEPT ![p] = "notify"]
    /\ UNCHANGED <<size, closed, closer, taken, newest, reopens, reopenedAt>>

-----------------------------------------------------------------------------
(* pop                                                                     *)

(* Mutant: the newest value, where the oldest is due.                      *)
Back == slots[(head + size - 1) % Capacity]
Front == slots[head]

TakeLocked ==
    /\ slots' = [slots EXCEPT ![head] = Empty]
    /\ head' = Advance(head)
    /\ size' = size - 1
    /\ taken' = taken + 1
    /\ newest' = Front

PopTakes(c) ==
    /\ pc[c] \in {"idle", "woken"}
    /\ size > 0
    /\ TakeLocked
    /\ pc' = [pc EXCEPT ![c] = "notify"]
    /\ UNCHANGED <<tail, dropped, closed, closer, accepted, reopens, reopenedAt>>

PopWaits(c) ==
    /\ pc[c] \in {"idle", "woken"}
    /\ size = 0
    /\ ~closed
    /\ pc' = [pc EXCEPT ![c] = "waiting"]
    /\ UNCHANGED <<queueVars, closer, history>>

(* nullopt: closed and drained, the consumer's signal to finish.           *)
PopEnds(c) ==
    /\ pc[c] \in {"idle", "woken"}
    /\ Drained
    /\ closed
    /\ pc' = [pc EXCEPT ![c] = "ended"]
    /\ UNCHANGED <<queueVars, closer, history>>

-----------------------------------------------------------------------------
(* Condition variables                                                     *)

(* Mutant: a notification finds no waiter.                                 *)
WaitingUnseen(group) == {}
Waiting(group) == {t \in group : pc[t] = "waiting"}

(* notify_one of a thread that has left its critical section: one waiter   *)
(* of the other side, if there is one.                                     *)
NotifyOne(t, group) ==
    /\ pc[t] = "notify"
    /\ \/ /\ Waiting(group) = {}
          /\ pc' = [pc EXCEPT ![t] = "idle"]
       \/ \E w \in Waiting(group) :
             pc' = [pc EXCEPT ![t] = "idle", ![w] = "woken"]
    /\ UNCHANGED <<queueVars, closer, history>>

WakeAll(group) == [t \in Threads |-> IF t \in Waiting(group) THEN "woken" ELSE pc[t]]

SpuriousWake(t) ==
    /\ pc[t] = "waiting"
    /\ pc' = [pc EXCEPT ![t] = "woken"]
    /\ UNCHANGED <<queueVars, closer, history>>

-----------------------------------------------------------------------------
(* close, and the reopen of a queue whose consumers have been joined       *)

CloseSetsFlag ==
    /\ closer = "open"
    /\ closed' = TRUE
    /\ closer' = "notifyNotEmpty"
    /\ UNCHANGED <<slots, head, tail, size, dropped, pc, history>>

CloseNotifiesNotEmpty ==
    /\ closer = "notifyNotEmpty"
    /\ pc' = WakeAll(Consumers)
    /\ closer' = "notifyNotFull"
    /\ UNCHANGED <<queueVars, history>>

CloseNotifiesNotFull ==
    /\ closer = "notifyNotFull"
    /\ pc' = WakeAll(Producers)
    /\ closer' = "closed"
    /\ UNCHANGED <<queueVars, history>>

(* reopen refuses unless the queue is drained.  Its caller joins the       *)
(* consumers first and starts them again afterwards.                       *)
Reopen ==
    /\ closer = "closed"
    /\ \A c \in Consumers : pc[c] = "ended"
    /\ reopens < MaxReopens
    /\ Drained
    /\ closed' = FALSE
    /\ closer' = "open"
    /\ pc' = [t \in Threads |-> IF t \in Consumers THEN "idle" ELSE pc[t]]
    /\ reopens' = reopens + 1
    /\ reopenedAt' = accepted
    /\ UNCHANGED <<slots, head, tail, size, dropped, accepted, taken, newest>>

-----------------------------------------------------------------------------
Push(p) ==
    \/ PushClosed(p)
    \/ PushAccepted(p)
    \/ PushWaits(p)
    \/ PushDisplacesOldest(p)

Pop(c) ==
    \/ PopTakes(c)
    \/ PopWaits(c)
    \/ PopEnds(c)

Close ==
    \/ CloseSetsFlag
    \/ CloseNotifiesNotEmpty
    \/ CloseNotifiesNotFull

Next ==
    \/ \E p \in Producers : Push(p) \/ NotifyOne(p, Consumers)
    \/ \E c \in Consumers : Pop(c) \/ NotifyOne(c, Producers)
    \/ \E t \in Threads : SpuriousWake(t)
    \/ Close
    \/ Reopen

(* A thread that has been released runs on: it takes the lock, notifies,   *)
(* and a consumer calls pop again until it is told to finish.  Nobody is   *)
(* obliged to push, to close or to reopen, and no wake-up is owed to a     *)
(* waiter but the one a notification gives it.                             *)
Fairness ==
    /\ \A p \in Producers : /\ WF_vars(Push(p) /\ pc[p] = "woken")
                            /\ WF_vars(NotifyOne(p, Consumers))
    /\ \A c \in Consumers : /\ WF_vars(Pop(c))
                            /\ WF_vars(NotifyOne(c, Producers))
    /\ WF_vars(CloseNotifiesNotEmpty)
    /\ WF_vars(CloseNotifiesNotFull)

Spec == Init /\ [][Next]_vars /\ Fairness

-----------------------------------------------------------------------------
TypeOK ==
    /\ slots \in [Index -> Nat]
    /\ head \in Index
    /\ tail \in Index
    /\ size \in 0 .. Capacity
    /\ dropped \in Nat
    /\ closed \in BOOLEAN
    /\ pc \in [Threads -> {"idle", "waiting", "woken", "notify", "ended"}]
    /\ closer \in {"open", "notifyNotEmpty", "notifyNotFull", "closed"}
    /\ accepted \in Nat
    /\ taken \in Nat
    /\ newest \in Nat
    /\ reopens \in Nat
    /\ reopenedAt \in Nat

(* Head, tail and size, three separately updated words, always describe    *)
(* the same stretch of the ring.                                           *)
RingShape ==
    tail = IF head + size < Capacity THEN head + size ELSE head + size - Capacity

(* The ring holds exactly the newest `size' accepted values, oldest at the *)
(* head: through wrap-around and displacement nothing is reordered,        *)
(* duplicated or lost between two values that are kept.                    *)
HoldsTheNewestInOrder ==
    \A i \in Index :
        slots[i] = IF Offset(i) < size THEN accepted - size + 1 + Offset(i) ELSE Empty

(* Every value push answered Accepted for is handed out, displaced and     *)
(* counted, or still queued: the count behind "every drop is counted".     *)
EveryValueIsAccountedFor == accepted = taken + dropped + size

(* "Audio -- never drops": a Block queue reaches no displacement.          *)
BlockNeverDrops == Policy = "Block" => dropped = 0

(* "a consumer drains before it sees nullopt": once any consumer has       *)
(* finished, no accepted value is or ever will be left behind.             *)
DrainedBeforeEnd ==
    (\E c \in Consumers : pc[c] = "ended") => closed /\ size = 0

(* The restarted consumer is never handed a value of the previous run.     *)
NothingSurvivesReopen ==
    \A i \in Index : slots[i] # Empty => slots[i] > reopenedAt

(* What pop hands out is newer than everything it handed out before.       *)
DeliveredInOrder == [][taken' # taken => newest' > newest]_vars

(* A producer blocked by a full queue returns once the consumer makes room *)
(* or the queue is closed: no notify_one is ever spent on the wrong thread *)
(* or lost between the test of the predicate and the wait.                 *)
BlockedPushReturns ==
    \A p \in Producers : pc[p] = "waiting" ~> pc[p] \in {"idle", "notify"}

(* The ring, its three words and its threads implement a FIFO channel.     *)
Channel == INSTANCE BoundedChannel WITH
    queue <- [k \in 1 .. size |-> slots[(head + k - 1) % Capacity]],
    ended <- {c \in Consumers : pc[c] = "ended"}

(* Every step of the queue is a step of the channel, or changes nothing    *)
(* the channel shows.                                                      *)
ImplementsChannel == Channel!Spec
=============================================================================
