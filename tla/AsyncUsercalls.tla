--------------------------- MODULE AsyncUsercalls ---------------------------
(***************************************************************************)
(* Asynchronous usercalls: the usercall queue and the return queue between *)
(* an enclave and the system call loop of its runner, and the struct       *)
(* QueueSynchronizer with which each side sleeps and wakes the other       *)
(* (enclave-runner, usercalls/mod.rs).                                     *)
(*                                                                         *)
(* The two rings are bounded queues: that they are is what Fifo.tla is     *)
(* about.  The enclave wakes the runner with any synchronous usercall,     *)
(* which the loop passes on through a broadcast channel of capacity one;   *)
(* the runner wakes the enclave with an event on the queue of every        *)
(* thread.  Each side first changes the ring and then wakes the other.     *)
(*                                                                         *)
(* The enclave uses the same queues through send and recv of               *)
(* ipc-queue/src/interface_sync.rs.  The synchronizer that it gives them   *)
(* is not part of the repository: it waits with the usercall wait and      *)
(* notifies with a synchronous usercall.                                   *)
(***************************************************************************)
EXTENDS Integers, Sequences, FiniteSets

CONSTANTS
    Threads,            \* the threads of the enclave
    Reader,             \* the one that takes answers from the return queue
    MaxCalls,           \* bound: asynchronous usercalls that the enclave makes
    UsercallQueueSize,
    ReturnQueueSize,
    MaxPermits          \* permits above which PendingEvents::push does nothing

ASSUME ThreadsAssumption == Reader \in Threads
ASSUME SizesAssumption ==
    UsercallQueueSize \in Nat \ {0} /\ ReturnQueueSize \in Nat \ {0} /\ MaxPermits \in Nat \ {0}
ASSUME CallsAssumption == MaxCalls \in Nat

VARIABLES
    reads,      \* whether the enclave keeps reading its answers at all
    usercallq,  \* the usercall queue
    returnq,    \* the return queue
    thread,     \* what each enclave thread is doing
    permits,    \* permits of the two event sets on the queue of each thread
    receiver,   \* the task that empties the usercall queue
    call,       \* where each asynchronous usercall is
    unread,     \* messages that each subscription has not received: 2 is Lagged
    answers     \* how often the enclave took an answer of each usercall

vars == <<reads, usercallq, returnq, thread, permits, receiver, call, unread, answers>>

\* The asynchronous usercalls, by the number that the enclave gives each.
Calls == 1 .. MaxCalls

Events == {"EV_USERCALLQ_NOT_FULL", "EV_RETURNQ_NOT_EMPTY"}

(***************************************************************************)
(* A thread runs, owes the runner a wakeup ("signal"), has a synchronous   *)
(* usercall on its way to the loop ("sent": a wakeup, or a wait for an     *)
(* event), or is in the wait for an event.                                 *)
(***************************************************************************)
Running == [at |-> "running", ev |-> "none"]
Waits(ev) == [at |-> "waiting", ev |-> ev]
Sent(ev) == [at |-> "sent", ev |-> ev]
Owes == [at |-> "signal", ev |-> "none"]

\* The subscriptions: number 0 is the receiver's, and every usercall gets one
\* with its clone of return_queue_tx, for as long as it needs that.
Subscribers == {0} \union Calls
Subscribed(s) == s = 0 \/ call[s] = "waiting"

Init ==
    /\ reads \in BOOLEAN
    /\ usercallq = <<>>
    /\ returnq = <<>>
    /\ thread = [t \in Threads |-> Running]
    /\ permits = [t \in Threads |-> [e \in Events |-> 0]]
    /\ receiver = "polling"
    /\ call = [c \in Calls |-> "new"]
    /\ unread = [s \in Subscribers |-> 0]
    /\ answers = [c \in Calls |-> 0]

-----------------------------------------------------------------------------
(***************************************************************************)
(* The enclave                                                             *)
(***************************************************************************)
\* Push a usercall; a thread that found the queue empty owes a wakeup, and one
\* that finds it full waits.
Push(t, c) ==
    /\ thread[t] = Running
    /\ call[c] = "new" /\ \A d \in 1 .. c - 1 : call[d] # "new"
    /\ IF Len(usercallq) < UsercallQueueSize
       THEN /\ usercallq' = Append(usercallq, c)
            /\ call' = [call EXCEPT ![c] = "queued"]
            /\ thread' = [thread EXCEPT ![t] = IF usercallq = <<>> THEN Owes ELSE Running]
       ELSE /\ thread' = [thread EXCEPT ![t] = Sent("EV_USERCALLQ_NOT_FULL")]
            /\ UNCHANGED <<usercallq, call>>
    /\ UNCHANGED <<reads, returnq, permits, receiver, unread, answers>>

\* Pop an answer; a reader that found the queue full owes a wakeup, and one
\* that finds it empty waits.
Pop(t) ==
    /\ reads
    /\ t = Reader
    /\ thread[t] = Running
    /\ IF returnq # <<>>
       THEN /\ returnq' = Tail(returnq)
            /\ answers' = [answers EXCEPT ![Head(returnq)] = @ + 1]
            /\ thread' = [thread EXCEPT ![t] =
                            IF Len(returnq) = ReturnQueueSize THEN Owes ELSE Running]
       ELSE /\ thread' = [thread EXCEPT ![t] = Sent("EV_RETURNQ_NOT_EMPTY")]
            /\ UNCHANGED <<returnq, answers>>
    /\ UNCHANGED <<reads, usercallq, permits, receiver, call, unread>>

\* The wakeup that t owes: a synchronous usercall that does nothing else.
Signal(t) ==
    /\ thread[t] = Owes
    /\ thread' = [thread EXCEPT ![t] = Sent("none")]
    /\ UNCHANGED <<reads, usercallq, returnq, permits, receiver, call, unread, answers>>

-----------------------------------------------------------------------------
(***************************************************************************)
(* The system call loop.  Its tasks share one thread, and none of them is  *)
(* interrupted between its access to a ring and the wakeup that follows.   *)
(***************************************************************************)
Interruptible == receiver # "notifying" /\ \A c \in Calls : call[c] # "notifying"

\* Mutant: the clones of return_queue_tx share a subscription, from which one
\* of them takes the message.
BroadcastOnce ==
    [s \in Subscribers |->
        IF s = 0 \/ (Subscribed(s) /\ \A c \in 1 .. s - 1 : ~Subscribed(c))
        THEN IF unread[s] = 0 THEN 1 ELSE 2
        ELSE unread[s]]
\* sync_usercall_tx.send(()): a channel of one slot.  Who misses a message is
\* told that it lagged behind, and then gets the newest one.
Broadcast ==
    [s \in Subscribers |-> IF ~Subscribed(s) THEN unread[s]
                           ELSE IF unread[s] = 0 THEN 1 ELSE 2]

\* The loop takes a synchronous usercall of t from io_queue_receive.
LoopSync(t) ==
    /\ Interruptible
    /\ thread[t].at = "sent"
    /\ unread' = Broadcast
    /\ thread' = [thread EXCEPT ![t] = IF @.ev = "none" THEN Running ELSE Waits(@.ev)]
    /\ UNCHANGED <<reads, usercallq, returnq, permits, receiver, call, answers>>

\* The wait usercall of t ends: an event was pushed for it, now or earlier.
WaitEnds(t) ==
    /\ Interruptible
    /\ thread[t].at = "waiting"
    /\ permits[t][thread[t].ev] > 0
    /\ permits' = [permits EXCEPT ![t][thread[t].ev] = @ - 1]
    /\ thread' = [thread EXCEPT ![t] = Running]
    /\ UNCHANGED <<reads, usercallq, returnq, receiver, call, unread, answers>>

\* Mutant: the event goes to the threads that wait for it at the moment.
NotifyWaiting(ev) ==
    permits' = [t \in Threads |->
        [permits[t] EXCEPT ![ev] = IF thread[t] = Waits(ev) THEN 1 ELSE @]]
\* QueueSynchronizer::notify: the event goes to the queue of every thread.
Notify(ev) ==
    permits' = [t \in Threads |->
        [permits[t] EXCEPT ![ev] = IF @ < MaxPermits THEN @ + 1 ELSE @]]

\* Mutant: a task that lagged behind does not get another message.
AwakeUnlessLagged(s, asleep) ==
    /\ asleep => unread[s] = 1
    /\ unread' = [unread EXCEPT ![s] = IF asleep THEN @ - 1 ELSE @]
\* QueueSynchronizer::wait: the task of subscription s has not begun to wait,
\* or takes a message.  That it lagged is no error.
Awake(s, asleep) ==
    /\ asleep => unread[s] > 0
    /\ unread' = [unread EXCEPT ![s] = IF asleep THEN @ - 1 ELSE @]

\* AsyncReceiver::recv in the task that empties the usercall queue: it waits
\* when the queue is empty, and wakes the enclave when it was full.
Receive ==
    /\ Interruptible
    /\ Awake(0, receiver = "waiting")
    /\ \/ /\ usercallq = <<>>
          /\ receiver' = "waiting"
          /\ UNCHANGED <<usercallq, call>>
       \/ /\ usercallq # <<>>
          /\ usercallq' = Tail(usercallq)
          /\ call' = [call EXCEPT ![Head(usercallq)] = "received"]
          /\ receiver' = IF Len(usercallq) = UsercallQueueSize THEN "notifying" ELSE "polling"
    /\ UNCHANGED <<reads, returnq, thread, permits, answers>>

NotifyNotFull ==
    /\ receiver = "notifying"
    /\ Notify("EV_USERCALLQ_NOT_FULL")
    /\ receiver' = "polling"
    /\ UNCHANGED <<reads, usercallq, returnq, thread, call, unread, answers>>

\* Mutant: a sender that was woken does not look at the queue again.
SendWhenWoken(c) ==
    /\ Interruptible
    /\ call[c] \in {"received", "waiting"}
    /\ \/ /\ call[c] = "received" /\ Len(returnq) = ReturnQueueSize
          /\ call' = [call EXCEPT ![c] = "waiting"]
          /\ UNCHANGED <<returnq, unread>>
       \/ /\ call[c] = "waiting" \/ Len(returnq) < ReturnQueueSize
          /\ Awake(c, call[c] = "waiting")
          /\ returnq' = IF Len(returnq) = ReturnQueueSize THEN Append(Tail(returnq), c)
                        ELSE Append(returnq, c)
          /\ call' = [call EXCEPT ![c] = IF returnq = <<>> THEN "notifying" ELSE "answered"]
    /\ UNCHANGED <<reads, usercallq, thread, permits, receiver, answers>>
\* handle_usercall is done with c: its clone of return_queue_tx gets a
\* subscription that sees later messages only.  AsyncSender::send waits when the
\* queue is full, and wakes the enclave when it was empty.
Send(c) ==
    /\ Interruptible
    /\ call[c] \in {"received", "waiting"}
    /\ \/ /\ Len(returnq) = ReturnQueueSize
          /\ Awake(c, call[c] = "waiting")
          /\ call' = [call EXCEPT ![c] = "waiting"]
          /\ UNCHANGED returnq
       \/ /\ Len(returnq) < ReturnQueueSize
          /\ call[c] = "waiting" => unread[c] > 0
          /\ unread' = [unread EXCEPT ![c] = 0]
          /\ returnq' = Append(returnq, c)
          /\ call' = [call EXCEPT ![c] = IF returnq = <<>> THEN "notifying" ELSE "answered"]
    /\ UNCHANGED <<reads, usercallq, thread, permits, receiver, answers>>

NotifyNotEmpty(c) ==
    /\ call[c] = "notifying"
    /\ Notify("EV_RETURNQ_NOT_EMPTY")
    /\ call' = [call EXCEPT ![c] = "answered"]
    /\ UNCHANGED <<reads, usercallq, returnq, thread, receiver, unread, answers>>

-----------------------------------------------------------------------------
Runner ==
    \/ Receive \/ NotifyNotFull
    \/ \E c \in Calls : Send(c) \/ NotifyNotEmpty(c)
    \/ \E t \in Threads : LoopSync(t) \/ WaitEnds(t)

Next ==
    \/ Runner
    \/ \E t \in Threads : Pop(t) \/ Signal(t) \/ \E c \in Calls : Push(t, c)

Spec == Init /\ [][Next]_vars

\* Tasks of the loop and threads are scheduled.  The enclave need not make any
\* usercall; but it delivers the wakeups that it owes, and reads on if `reads'.
Fairness ==
    /\ WF_vars(Receive) /\ WF_vars(NotifyNotFull)
    /\ \A c \in Calls : WF_vars(Send(c)) /\ WF_vars(NotifyNotEmpty(c))
    /\ \A t \in Threads :
        WF_vars(LoopSync(t)) /\ WF_vars(WaitEnds(t)) /\ WF_vars(Signal(t)) /\ WF_vars(Pop(t))

FairSpec == Spec /\ Fairness

-----------------------------------------------------------------------------
(***************************************************************************)
(* Properties                                                              *)
(***************************************************************************)
\* A wakeup of the runner that is not delivered yet.
WakeupPending == \E t \in Threads : thread[t].at \in {"signal", "sent"}

\* No task of the runner sleeps for good on a queue that it could use: while
\* the receiver sleeps on a queue with usercalls, or the sender of an answer on
\* a queue with room, a wakeup is on its way, although the broadcast channel
\* keeps one message only (mod.rs:1676-1682, mod.rs:890-893).
RunnerNotStranded ==
    /\ (receiver = "waiting" /\ unread[0] = 0 /\ usercallq # <<>>) => WakeupPending
    /\ \A c \in Calls :
        (call[c] = "waiting" /\ unread[c] = 0 /\ Len(returnq) < ReturnQueueSize) => WakeupPending

\* No thread of the enclave sleeps for good on a queue that it could use, even
\* if several threads wait and every one of them is woken for one free slot or
\* one answer (mod.rs:1686-1699).
EnclaveNotStranded ==
    \A t \in Threads :
        (thread[t].at = "waiting" /\ permits[t][thread[t].ev] = 0) =>
            IF thread[t].ev = "EV_USERCALLQ_NOT_FULL"
            THEN Len(usercallq) = UsercallQueueSize \/ receiver = "notifying"
            ELSE returnq = <<>> \/ \E c \in Calls : call[c] = "notifying"

\* Every usercall is in one place, and is answered at most once: an answer is
\* neither overwritten in a full return queue nor sent twice by a sender that
\* was woken twice (interface_async.rs:22-39).
AnsweredOnce ==
    \A c \in Calls :
        Cardinality({i \in 1 .. Len(returnq) : returnq[i] = c}) + answers[c] =
            (IF call[c] \in {"notifying", "answered"} THEN 1 ELSE 0)

\* The runner takes every usercall from the queue even if the enclave never
\* reads an answer and the return queue stays full (mod.rs:890-893); and if it
\* does read, it gets the answer of every usercall.
EveryCallAnswered ==
    \A c \in Calls :
        /\ call[c] = "queued" ~> call[c] # "queued"
        /\ (reads /\ call[c] = "queued") ~> answers[c] = 1
=============================================================================
