-------------------------------- MODULE Fifo --------------------------------
(***************************************************************************)
(* The queue of the ipc-queue crate: a ring of `Slots' slots in memory     *)
(* shared by an enclave and its runner, filled by several senders and      *)
(* emptied by one receiver, with one action per access to shared memory    *)
(* (fifo.rs), under the blocking and non-blocking interfaces built on it   *)
(* (interface_sync.rs, interface_async.rs).                                *)
(*                                                                         *)
(* The packed usize of `offsets' is a record of its two halves: both are   *)
(* loaded and compared as one, and TypeOK says that the signed adjustment  *)
(* of the read half never borrows from the write half.  An & with len - 1  *)
(* or 2 * len - 1 is %, the length being a power of two.                   *)
(***************************************************************************)
EXTENDS Integers, Sequences

CONSTANTS
    Slots,      \* length of the ring
    Senders,    \* the threads that hold a clone of the Sender
    SenderOps,  \* the functions that senders call
    ReceiverOps,\* the functions that the receiver calls
    MaxSends,   \* bound: values each sender may put in the queue
    MaxBatch,   \* bound: values in one call of try_send_multiple
    NoData      \* T::default(), what a slot holds before its first value

ASSUME SlotsAssumption == Slots \in Nat \ {0}
ASSUME BoundsAssumption == MaxSends \in Nat /\ MaxBatch \in Nat
ASSUME OpsAssumption ==
    /\ SenderOps \subseteq {"send", "try_send", "try_send_multiple"}
    /\ ReceiverOps \subseteq {"recv", "try_recv"}
ASSUME NoDataAssumption == NoData \notin Senders

Receiver == "receiver"
Waiters == Senders \union {Receiver}

\* The receiver is a thread of its own.
ASSUME ReceiverNotASender == Receiver \notin Senders

VARIABLES
    \* Shared memory.
    offsets,    \* [write, read], both modulo 2 * Slots
    data,       \* the slots: [id, data]; id = 0 means not yet written
    \* Each sender's call in progress.
    pc,         \* where it is
    op,         \* which function it called
    todo,       \* values of this call not sent yet
    cur,        \* `current': the offsets it loaded
    slot,       \* index of the slot it reserved
    wake,       \* `wake_receiver'
    serial,     \* id of the next value it sends
    \* The receiver's call in progress.
    rpc, rop, rcur, rval,
    \* The synchronizer.
    notified,   \* who has an event that `wait' has not consumed yet
    closed,     \* the event channel is closed
    \* History.
    ticket,     \* position in `sent' of the value that a sender is writing
    sent,       \* values in the order in which their slots were reserved
    delivered   \* values in the order in which they were received

senderVars == <<pc, op, todo, cur, slot, wake, serial, ticket>>
receiverVars == <<rpc, rop, rcur, rval>>
syncVars == <<notified, closed>>
vars == <<offsets, data, senderVars, receiverVars, syncVars, sent, delivered>>

\* Identified<T>: the id is not 0, and the data tells the senders apart.
Values == [id : 1 .. MaxSends, data : Senders]

(***************************************************************************)
(* struct Offsets                                                          *)
(***************************************************************************)
\* What a local variable that is out of scope is set to.
NoOffsets == [write |-> 0, read |-> 0]
NoValue == [id |-> 0, data |-> NoData]

OffsetsType == [write : 0 .. 2 * Slots - 1, read : 0 .. 2 * Slots - 1]

IsEmpty(o) == o.read = o.write

IsFull(o) == o.read # o.write /\ o.read % Slots = o.write % Slots

Increment(n) == (n + 1) % (2 * Slots)

(***************************************************************************)
(* The synchronizer keeps an event for a waiter that is not waiting yet    *)
(* (test_support.rs; QueueSynchronizer in the runner): `wait' returns at   *)
(* once when such an event is pending.                                     *)
(***************************************************************************)
Notify(who) == notified' = notified \union who

(***************************************************************************)
(* FifoBuffer::new, bounded                                                *)
(***************************************************************************)
Init ==
    /\ offsets = NoOffsets
    /\ data = [i \in 0 .. Slots - 1 |-> NoValue]
    /\ pc = [s \in Senders |-> "idle"]
    /\ op = [s \in Senders |-> "none"]
    /\ todo = [s \in Senders |-> 0]
    /\ cur = [s \in Senders |-> NoOffsets]
    /\ slot = [s \in Senders |-> 0]
    /\ wake = [s \in Senders |-> FALSE]
    /\ serial = [s \in Senders |-> 1]
    /\ rpc = "idle"
    /\ rop = "none"
    /\ rcur = NoOffsets
    /\ rval = NoValue
    /\ notified = {}
    /\ closed = FALSE
    /\ ticket = [s \in Senders |-> 0]
    /\ sent = <<>>
    /\ delivered = <<>>

-----------------------------------------------------------------------------
(***************************************************************************)
(* A sender                                                                *)
(***************************************************************************)
SGoto(s, l) == pc' = [pc EXCEPT ![s] = l]

\* The value that s is sending.
Val(s) == [id |-> serial[s], data |-> s]

\* A thread calls send, try_send or try_send_multiple with n values.
CallSend(s, f, n) ==
    /\ pc[s] = "idle"
    /\ serial[s] + n <= MaxSends + 1
    /\ f # "try_send_multiple" => n = 1
    /\ op' = [op EXCEPT ![s] = f]
    /\ todo' = [todo EXCEPT ![s] = n]
    /\ SGoto(s, "load")
    /\ UNCHANGED <<offsets, data, cur, slot, wake, serial, receiverVars, syncVars, ticket, sent, delivered>>

\* Where a call of s goes when it has nothing more to send.
Finish(s) == IF wake[s] THEN "notify" ELSE "idle"

\* Step 1 of try_send_impl, and QueueFull in each of its callers.
LoadOffsets(s) ==
    /\ pc[s] = "load"
    /\ \/ /\ ~IsFull(offsets)
          /\ cur' = [cur EXCEPT ![s] = offsets]
          /\ SGoto(s, "cas")
       \/ /\ IsFull(offsets)
          /\ SGoto(s, IF op[s] = "send" THEN "wait" ELSE Finish(s))
          /\ UNCHANGED cur
    /\ UNCHANGED <<offsets, data, op, todo, slot, wake, serial,
                   receiverVars, syncVars, ticket, sent, delivered>>

\* Mutant: stores the new offsets without comparing them with the loaded ones.
StoreOffsets(s) ==
    /\ pc[s] = "cas"
    /\ LET new == [cur[s] EXCEPT !.write = Increment(cur[s].write)]
       IN  /\ offsets' = new
           /\ slot' = [slot EXCEPT ![s] = new.write % Slots]
    /\ wake' = [wake EXCEPT ![s] = wake[s] \/ IsEmpty(cur[s])]
    /\ ticket' = [ticket EXCEPT ![s] = Len(sent) + 1]
    /\ sent' = Append(sent, Val(s))
    /\ cur' = [cur EXCEPT ![s] = NoOffsets]
    /\ SGoto(s, "data")
    /\ UNCHANGED <<data, op, todo, serial, receiverVars, syncVars, delivered>>
\* Mutant: try_send_multiple keeps only the last value's wake_receiver.
ReserveForgetsWake(s) ==
    /\ pc[s] = "cas"
    /\ offsets = cur[s]
    /\ LET new == [cur[s] EXCEPT !.write = Increment(cur[s].write)]
       IN  /\ offsets' = new
           /\ slot' = [slot EXCEPT ![s] = new.write % Slots]
    /\ wake' = [wake EXCEPT ![s] = IsEmpty(cur[s])]
    /\ ticket' = [ticket EXCEPT ![s] = Len(sent) + 1]
    /\ sent' = Append(sent, Val(s))
    /\ cur' = [cur EXCEPT ![s] = NoOffsets]
    /\ SGoto(s, "data")
    /\ UNCHANGED <<data, op, todo, serial, receiverVars, syncVars, delivered>>
\* Step 3 of try_send_impl: the compare-and-swap succeeds and reserves a slot.
Reserve(s) ==
    /\ pc[s] = "cas"
    /\ offsets = cur[s]
    /\ LET new == [cur[s] EXCEPT !.write = Increment(cur[s].write)]
       IN  /\ offsets' = new
           /\ slot' = [slot EXCEPT ![s] = new.write % Slots]
    /\ wake' = [wake EXCEPT ![s] = wake[s] \/ IsEmpty(cur[s])]
    /\ ticket' = [ticket EXCEPT ![s] = Len(sent) + 1]
    /\ sent' = Append(sent, Val(s))
    /\ cur' = [cur EXCEPT ![s] = NoOffsets]
    /\ SGoto(s, "data")
    /\ UNCHANGED <<data, op, todo, serial, receiverVars, syncVars, delivered>>

\* Step 3 of try_send_impl: the compare-and-swap fails.
Retry(s) ==
    /\ pc[s] = "cas"
    /\ offsets # cur[s]
    /\ cur' = [cur EXCEPT ![s] = NoOffsets]
    /\ SGoto(s, "load")
    /\ UNCHANGED <<offsets, data, op, todo, slot, wake, serial,
                   receiverVars, syncVars, ticket, sent, delivered>>

\* Step 4 of try_send_impl, the data.
WriteData(s) ==
    /\ pc[s] = "data"
    /\ data' = [data EXCEPT ![slot[s]].data = Val(s).data]
    /\ SGoto(s, "id")
    /\ UNCHANGED <<offsets, op, todo, cur, slot, wake, serial,
                   receiverVars, syncVars, ticket, sent, delivered>>

\* Step 4 of try_send_impl, the id; try_send_multiple goes on to its next value.
WriteId(s) ==
    /\ pc[s] = "id"
    /\ data' = [data EXCEPT ![slot[s]].id = Val(s).id]
    /\ serial' = [serial EXCEPT ![s] = serial[s] + 1]
    /\ todo' = [todo EXCEPT ![s] = todo[s] - 1]
    /\ slot' = [slot EXCEPT ![s] = 0]
    /\ ticket' = [ticket EXCEPT ![s] = 0]
    /\ SGoto(s, IF todo[s] > 1 THEN "load" ELSE Finish(s))
    /\ UNCHANGED <<offsets, op, cur, wake, receiverVars, syncVars, sent, delivered>>

\* synchronizer.notify(QueueEvent::NotEmpty)
NotifyNotEmpty(s) ==
    /\ pc[s] = "notify"
    /\ Notify({Receiver})
    /\ wake' = [wake EXCEPT ![s] = FALSE]
    /\ SGoto(s, "idle")
    /\ UNCHANGED <<offsets, data, op, todo, cur, slot, serial,
                   receiverVars, closed, ticket, sent, delivered>>

\* synchronizer.wait(QueueEvent::NotFull): an event lets send try again, a
\* closed channel ends it with SendError::Closed.
WaitNotFull(s) ==
    /\ pc[s] = "wait"
    /\ \/ s \in notified /\ notified' = notified \ {s} /\ SGoto(s, "load")
       \/ closed /\ SGoto(s, "idle") /\ UNCHANGED notified
    /\ UNCHANGED <<offsets, data, op, todo, cur, slot, wake, serial,
                   receiverVars, closed, ticket, sent, delivered>>

SenderStep(s) ==
    \/ LoadOffsets(s) \/ Reserve(s) \/ Retry(s) \/ WriteData(s) \/ WriteId(s)
    \/ NotifyNotEmpty(s) \/ WaitNotFull(s)

-----------------------------------------------------------------------------
(***************************************************************************)
(* The receiver                                                            *)
(***************************************************************************)
\* The thread that owns the Receiver calls recv or try_recv (try_iter is
\* repeated try_recv).
CallRecv(f) ==
    /\ rpc = "idle"
    /\ rop' = f
    /\ rpc' = "load"
    /\ UNCHANGED <<offsets, data, senderVars, rcur, rval, syncVars, sent, delivered>>

\* Step 1 of try_recv_impl, and QueueEmpty in each of its callers.
LoadOffsetsR ==
    /\ rpc = "load"
    /\ \/ /\ ~IsEmpty(offsets)
          /\ rcur' = offsets
          /\ rpc' = "spin"
       \/ /\ IsEmpty(offsets)
          /\ rpc' = IF rop = "recv" THEN "wait" ELSE "idle"
          /\ UNCHANGED rcur
    /\ UNCHANGED <<offsets, data, senderVars, rop, rval, syncVars, sent, delivered>>

\* Index of the slot that the receiver reads.
ReadSlot == Increment(rcur.read) % Slots

\* Mutant: does not wait for the id of a slot that is only reserved.
SpinOnce ==
    /\ rpc = "spin"
    /\ rval' = [rval EXCEPT !.id = data[ReadSlot].id]
    /\ rpc' = "read"
    /\ UNCHANGED <<offsets, data, senderVars, rop, rcur, syncVars, sent, delivered>>
\* Steps 4 and 5 of try_recv_impl: leaves the loop when the id is not 0.
Spin ==
    /\ rpc = "spin"
    /\ data[ReadSlot].id # 0
    /\ rval' = [rval EXCEPT !.id = data[ReadSlot].id]
    /\ rpc' = "read"
    /\ UNCHANGED <<offsets, data, senderVars, rop, rcur, syncVars, sent, delivered>>

\* Step 6 of try_recv_impl, the data.
ReadData ==
    /\ rpc = "read"
    /\ rval' = [rval EXCEPT !.data = data[ReadSlot].data]
    /\ rpc' = "clear"
    /\ UNCHANGED <<offsets, data, senderVars, rop, rcur, syncVars, sent, delivered>>

\* Step 6 of try_recv_impl, the id.
ClearId ==
    /\ rpc = "clear"
    /\ data' = [data EXCEPT ![ReadSlot].id = 0]
    /\ rpc' = "adjust"
    /\ UNCHANGED <<offsets, senderVars, rop, rcur, rval, syncVars, sent, delivered>>

\* Mutant: decides from the offsets loaded in step 1 whether to wake a sender.
AdjustStaleFull ==
    /\ rpc = "adjust"
    /\ offsets' = [offsets EXCEPT !.read = @ + (Increment(rcur.read) - rcur.read)]
    /\ delivered' = Append(delivered, rval)
    /\ rpc' = IF IsFull(rcur) THEN "notify" ELSE "idle"
    /\ rcur' = NoOffsets
    /\ rval' = NoValue
    /\ UNCHANGED <<data, senderVars, rop, syncVars, sent>>
\* Steps 7 and 8 of try_recv_impl: fetch_adjust adds the difference of the
\* read offsets, negative where they wrap, and returns the offsets before it.
AdjustOffsets ==
    /\ rpc = "adjust"
    /\ offsets' = [offsets EXCEPT !.read = @ + (Increment(rcur.read) - rcur.read)]
    /\ delivered' = Append(delivered, rval)
    /\ rpc' = IF IsFull(offsets) THEN "notify" ELSE "idle"
    /\ rcur' = NoOffsets
    /\ rval' = NoValue
    /\ UNCHANGED <<data, senderVars, rop, syncVars, sent>>

\* synchronizer.notify(QueueEvent::NotFull)
NotifyNotFull ==
    /\ rpc = "notify"
    /\ Notify(Senders)
    /\ rpc' = "idle"
    /\ UNCHANGED <<offsets, data, senderVars, rop, rcur, rval, closed, sent, delivered>>

\* synchronizer.wait(QueueEvent::NotEmpty): an event lets recv try again, a
\* closed channel ends it with RecvError::Closed.
WaitNotEmpty ==
    /\ rpc = "wait"
    /\ \/ Receiver \in notified /\ notified' = notified \ {Receiver} /\ rpc' = "load"
       \/ closed /\ rpc' = "idle" /\ UNCHANGED notified
    /\ UNCHANGED <<offsets, data, senderVars, rop, rcur, rval, closed, sent, delivered>>

ReceiverStep ==
    \/ LoadOffsetsR \/ Spin \/ ReadData \/ ClearId \/ AdjustOffsets
    \/ NotifyNotFull \/ WaitNotEmpty

-----------------------------------------------------------------------------
\* The event channel is closed (ChannelClosed from here on).
Close ==
    /\ ~closed
    /\ closed' = TRUE
    /\ UNCHANGED <<offsets, data, senderVars, receiverVars, notified, sent, delivered>>

Next ==
    \/ \E s \in Senders, f \in SenderOps, n \in 1 .. MaxBatch : CallSend(s, f, n)
    \/ \E s \in Senders : SenderStep(s)
    \/ \E f \in ReceiverOps : CallRecv(f)
    \/ ReceiverStep
    \/ Close

Spec == Init /\ [][Next]_vars

\* Threads are scheduled, and the receiver is called again and again; nobody
\* has to call a sender.
Fairness ==
    /\ \A s \in Senders : WF_vars(SenderStep(s))
    /\ WF_vars(ReceiverStep)
    /\ WF_vars(\E f \in ReceiverOps : CallRecv(f))

FairSpec == Spec /\ Fairness

-----------------------------------------------------------------------------
(***************************************************************************)
(* Properties                                                              *)
(***************************************************************************)
SenderPCs == {"idle", "load", "cas", "data", "id", "notify", "wait"}
ReceiverPCs == {"idle", "load", "spin", "read", "clear", "adjust", "notify", "wait"}
SlotType == [id : 0 .. MaxSends, data : Senders \union {NoData}]

\* Every variable has its type; in particular both offsets stay below twice
\* the length, so fetch_adjust never carries into the other half (fifo.rs:210).
TypeOK ==
    /\ offsets \in OffsetsType
    /\ data \in [0 .. Slots - 1 -> SlotType]
    /\ pc \in [Senders -> SenderPCs]
    /\ op \in [Senders -> SenderOps \union {"none"}]
    /\ todo \in [Senders -> Nat]
    /\ cur \in [Senders -> OffsetsType]
    /\ slot \in [Senders -> 0 .. Slots - 1]
    /\ wake \in [Senders -> BOOLEAN]
    /\ serial \in [Senders -> 1 .. MaxSends + 1]
    /\ rpc \in ReceiverPCs
    /\ rop \in ReceiverOps \union {"none"}
    /\ rcur \in OffsetsType
    /\ rval \in SlotType
    /\ notified \in SUBSET Waiters
    /\ closed \in BOOLEAN
    /\ ticket \in [Senders -> Nat]
    /\ sent \in Seq(Values)
    /\ delivered \in Seq(SlotType)

\* A sender owns the slot it has reserved until it has stored the id.
Writing(s) == pc[s] \in {"data", "id"}
\* The receiver accesses the data of its slot.
Reading == rpc \in {"read", "clear"}

\* The unsafe accesses to a slot never overlap: no two senders write the same
\* slot, and nobody writes the slot whose data the receiver is reading
\* (the &mut references made in fifo.rs:173 and fifo.rs:195).
NoDataRace ==
    /\ \A s, t \in Senders : s # t /\ Writing(s) /\ Writing(t) => slot[s] # slot[t]
    /\ Reading => \A s \in Senders : Writing(s) => slot[s] # ReadSlot

\* The queue behaves as a bounded first-in first-out queue: a value enters it
\* when its slot is reserved and leaves it, whole and once, when the read
\* offset is adjusted.
Abstract == INSTANCE BoundedQueue WITH Capacity <- Slots
ImplementsBoundedQueue == Abstract!Spec

\* The four conjuncts that make the refinement inductive.  The k-th value that
\* is ever sent lives in slot k % Slots.

\* The offsets are the numbers of values sent and received modulo 2 * Slots,
\* and the queue never holds more values than it has slots.
CountersInv ==
    /\ offsets.write = Len(sent) % (2 * Slots)
    /\ offsets.read = Len(delivered) % (2 * Slots)
    /\ Len(delivered) <= Len(sent)
    /\ Len(sent) <= Len(delivered) + Slots

\* A sender about to compare-and-swap saw room; one that is writing owns the
\* slot of its own value, which nobody else writes and whose id is still 0.
SendersInv ==
    \A s \in Senders :
        /\ pc[s] = "cas" => ~IsFull(cur[s])
        /\ pc[s] \in {"load", "wait", "cas", "data", "id"} =>
            todo[s] >= 1 /\ serial[s] + todo[s] <= MaxSends + 1
        /\ Writing(s) =>
            /\ ticket[s] \in Len(delivered) + 1 .. Len(sent)
            /\ slot[s] = ticket[s] % Slots
            /\ sent[ticket[s]] = Val(s)
            /\ data[slot[s]].id = 0
            /\ pc[s] = "id" => data[slot[s]].data = s
            /\ \A t \in Senders \ {s} : Writing(t) => ticket[t] # ticket[s]

\* The slot of a value in the queue holds that value, unless its sender is
\* still writing it or the receiver has just cleared it; all others have id 0.
SlotsInv ==
    /\ \A k \in Len(delivered) + 1 .. Len(sent) :
        \/ \E s \in Senders : Writing(s) /\ ticket[s] = k
        \/ data[k % Slots] = sent[k]
        \/ k = Len(delivered) + 1 /\ rpc = "adjust"
    /\ \A k \in Len(sent) + 1 .. Len(delivered) + Slots : data[k % Slots].id = 0

\* Between its load and its adjustment of the offsets the receiver alone moves
\* the read offset, and what it has read is the next value of the queue.
ReceiverInv ==
    /\ rpc \in {"spin", "read", "clear", "adjust"} =>
        /\ Len(delivered) < Len(sent)
        /\ rcur.read = offsets.read
    /\ rpc \in {"read", "clear"} =>
        data[(Len(delivered) + 1) % Slots] = sent[Len(delivered) + 1]
    /\ rpc = "read" => rval.id = sent[Len(delivered) + 1].id
    /\ rpc \in {"clear", "adjust"} => rval = sent[Len(delivered) + 1]
    /\ rpc = "adjust" => data[(Len(delivered) + 1) % Slots].id = 0
    /\ rpc \in {"read", "clear", "adjust"} =>
        \A s \in Senders : Writing(s) => ticket[s] # Len(delivered) + 1

\* The inductive invariant behind NoDataRace and ImplementsBoundedQueue.
RingInv == TypeOK /\ CountersInv /\ SendersInv /\ SlotsInv /\ ReceiverInv

\* A receiver blocked in recv is not forgotten: while the queue holds a value
\* it has an event pending, or a sender is on its way to notify it.
ReceiverNotStranded ==
    rpc = "wait" /\ ~IsEmpty(offsets) /\ Receiver \notin notified =>
        \E s \in Senders : wake[s] /\ pc[s] \notin {"idle", "wait"}

\* A sender blocked in send is not forgotten: while the queue has room it has
\* an event pending, or the receiver is about to notify it.
SendersNotStranded ==
    \A s \in Senders :
        pc[s] = "wait" /\ ~IsFull(offsets) /\ s \notin notified => rpc = "notify"

\* What makes ReceiverNotStranded inductive: a blocking send that has not
\* reserved its slot yet owes nobody a notification, so the sender that does
\* owe one is never the one that blocks or returns.
WakeInv ==
    \A s \in Senders :
        /\ pc[s] = "wait" => op[s] = "send"
        /\ op[s] = "send" => todo[s] <= 1
        /\ op[s] = "send" /\ pc[s] \in {"load", "cas", "wait"} => ~wake[s]
        /\ pc[s] = "idle" => ~wake[s]

Contains(seq, v) == \E k \in 1 .. Len(seq) : seq[k] = v

\* Every value whose slot was reserved is eventually received, and every call
\* of a sender returns, the blocking ones too (fifo.rs:156, 217).
EverybodyServed ==
    /\ \A v \in Values : Contains(sent, v) ~> Contains(delivered, v)
    /\ \A s \in Senders : pc[s] # "idle" ~> pc[s] = "idle"
=============================================================================
