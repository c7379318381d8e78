--------------------------- MODULE BoundedChannel ---------------------------
(***************************************************************************)
(* What util/bounded_queue.h promises, without ring, locks or condition    *)
(* variables: a sequence of at most Capacity values that are taken in the  *)
(* order they were accepted.  A full Block channel accepts nothing; a full *)
(* DropOldest channel gives up its oldest value and counts it.  A consumer *)
(* is told to finish only when the channel is closed and empty.            *)
(***************************************************************************)
EXTENDS Integers, Sequences

CONSTANTS Consumers, Capacity, Policy

VARIABLES
    queue,    \* the values held, oldest first
    accepted, \* how many values have been accepted; the k-th is the number k
    dropped,  \* how many were displaced
    newest,   \* the last value taken
    closed,
    ended     \* the consumers that were told to finish

channelVars == <<queue, accepted, dropped, newest, closed, ended>>

Init ==
    /\ queue = <<>>
    /\ accepted = 0
    /\ dropped = 0
    /\ newest = 0
    /\ closed = FALSE
    /\ ended = {}

Accept ==
    /\ ~closed
    /\ accepted' = accepted + 1
    /\ \/ /\ Len(queue) < Capacity
          /\ queue' = Append(queue, accepted + 1)
          /\ UNCHANGED dropped
       \/ /\ Len(queue) = Capacity
          /\ Policy = "DropOldest"
          /\ queue' = Append(Tail(queue), accepted + 1)
          /\ dropped' = dropped + 1
    /\ UNCHANGED <<newest, closed, ended>>

Take ==
    /\ queue # <<>>
    /\ newest' = Head(queue)
    /\ queue' = Tail(queue)
    /\ UNCHANGED <<accepted, dropped, closed, ended>>

Close ==
    /\ closed' = TRUE
    /\ UNCHANGED <<queue, accepted, dropped, newest, ended>>

Finish(c) ==
    /\ closed
    /\ queue = <<>>
    /\ ended' = ended \cup {c}
    /\ UNCHANGED <<queue, accepted, dropped, newest, closed>>

(* Only an empty channel, all of whose consumers have finished, reopens.   *)
Reopen ==
    /\ closed
    /\ queue = <<>>
    /\ ended = Consumers
    /\ closed' = FALSE
    /\ ended' = {}
    /\ UNCHANGED <<queue, accepted, dropped, newest>>

Next ==
    \/ Accept
    \/ Take
    \/ Close
    \/ \E c \in Consumers : Finish(c)
    \/ Reopen

Spec == Init /\ [][Next]_channelVars
=============================================================================
