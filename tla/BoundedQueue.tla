---------------------------- MODULE BoundedQueue ----------------------------
(***************************************************************************)
(* What the queue of the ipc-queue crate promises its users: a bounded     *)
(* first-in first-out queue.  Values enter at the end of `sent' while      *)
(* fewer than Capacity of them are undelivered, and leave in the order in  *)
(* which they entered, each exactly once.                                  *)
(***************************************************************************)
EXTENDS Integers, Sequences

CONSTANTS
    Capacity,   \* how many undelivered values the queue may hold
    Values      \* what may be put in the queue

VARIABLES
    sent,       \* every value that was ever put in the queue, in order
    delivered   \* every value that was ever taken out of it, in order

Init ==
    /\ sent = <<>>
    /\ delivered = <<>>

Enqueue(v) ==
    /\ Len(sent) - Len(delivered) < Capacity
    /\ sent' = Append(sent, v)
    /\ UNCHANGED delivered

Dequeue ==
    /\ Len(delivered) < Len(sent)
    /\ delivered' = Append(delivered, sent[Len(delivered) + 1])
    /\ UNCHANGED sent

Next == Dequeue \/ \E v \in Values : Enqueue(v)

Spec == Init /\ [][Next]_<<sent, delivered>>
=============================================================================
