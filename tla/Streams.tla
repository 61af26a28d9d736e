------------------------------ MODULE Streams -------------------------------
(***************************************************************************)
(* The file descriptors of an enclave in the enclave runner, and the       *)
(* adapters that let several usercalls wait for the same stream or         *)
(* listener (AsyncStreamAdapter, AsyncListenerAdapter and their containers *)
(* in usercalls/mod.rs).                                                   *)
(*                                                                         *)
(* A socket keeps only the waker of the task that polled it last, so the   *)
(* adapter keeps the wakers of all tasks and wakes the others when one of  *)
(* them is done.  A task is a usercall; data are counted and not looked    *)
(* at.  All usercalls of one system call loop are polled by one thread, so *)
(* a poll is one step here.                                                *)
(***************************************************************************)
EXTENDS Integers, FiniteSets

CONSTANTS
    Tasks,        \* the usercalls on file descriptors that run concurrently
    Ops,          \* the operations that wait for a stream or a listener
    MaxObjects,   \* bound: streams and listeners, the standard ones included
    MaxArrivals,  \* bound: data, room for data or connections that arrive
    None

ASSUME StreamOpsAssumption == Ops \subseteq {"read", "write", "flush", "accept"}
ASSUME StreamBoundsAssumption == MaxObjects \in Nat \ {0} /\ MaxArrivals \in Nat
ASSUME StreamNoneAssumption == None \notin Tasks /\ None \notin Nat

Objects == 1 .. MaxObjects
Kinds == {"stdin", "stream", "listener"}

VARIABLES
    \* EnclaveState
    fds,       \* the table: an object, or None, for each file descriptor
    last_fd,   \* the last file descriptor that was allocated
    \* The objects, which an Arc keeps alive beyond their entry in the table.
    kinds,     \* what each is, None before it is made
    queue,     \* wakers in the adapter's read_queue, write_queue, ...
    \* The sockets below the adapters.
    waker,     \* the waker of the task that polled last
    ready,     \* how much can be read, written or accepted at once
    failed,    \* "no", "pending" until an operation has met the error, "yes"
    arrivals,
    \* The usercalls.
    pc, op, obj, fd

objectVars == <<kinds, queue, waker, ready, failed>>
taskVars == <<pc, op, obj, fd>>
vars == <<fds, last_fd, objectVars, arrivals, taskVars>>

Fds == 0 .. MaxObjects - 1

\* EnclaveState::new; the two standard streams that are written never wait.
Init ==
    /\ fds = [f \in Fds |-> IF f = 0 THEN 1 ELSE None]
    /\ last_fd = 0
    /\ kinds = [o \in Objects |-> IF o = 1 THEN "stdin" ELSE None]
    /\ queue = [o \in Objects |-> [d \in Ops |-> {}]]
    /\ waker = [o \in Objects |-> [d \in Ops |-> None]]
    /\ ready = [o \in Objects |-> [d \in Ops |-> 0]]
    /\ failed = [o \in Objects |-> "no"]
    /\ arrivals = 0
    /\ pc = [t \in Tasks |-> "idle"]
    /\ op = [t \in Tasks |-> None]
    /\ obj = [t \in Tasks |-> None]
    /\ fd = [t \in Tasks |-> None]

\* The tasks in ts are woken, those of them that sleep are polled again.
WokenTasks(ts) == [u \in Tasks |-> IF u \in ts /\ pc[u] = "sleep" THEN "poll" ELSE pc[u]]

\* A usercall ends.  Every usercall is a task of its own, so wakers of it that
\* are still around wake nobody, and are left out of queue and waker.
Returns(t, pcs) ==
    /\ pc' = [pcs EXCEPT ![t] = "idle"]
    /\ op' = [op EXCEPT ![t] = None]
    /\ obj' = [obj EXCEPT ![t] = None]

-----------------------------------------------------------------------------
(***************************************************************************)
(* The table of file descriptors                                           *)
(***************************************************************************)
\* Within the bound, there is room for another file descriptor.
Room == last_fd + Cardinality({u \in Tasks : pc[u] = "alloc"}) < MaxObjects - 1

\* bind_stream or connect_stream has succeeded, which makes a k.
Open(t, k) ==
    /\ pc[t] = "idle"
    /\ Room
    /\ pc' = [pc EXCEPT ![t] = "alloc"]
    /\ op' = [op EXCEPT ![t] = k]
    /\ UNCHANGED <<fds, last_fd, objectVars, arrivals, obj, fd>>

\* Mutant: the counter is read, and not advanced in the same step.
AllocFdLoad(t) ==
    /\ pc[t] = "alloc"
    /\ last_fd < MaxObjects - 1
    /\ fd' = [fd EXCEPT ![t] = last_fd + 1]
    /\ pc' = [pc EXCEPT ![t] = "insert"]
    /\ UNCHANGED <<fds, last_fd, objectVars, arrivals, op, obj>>
\* alloc_fd up to its await.
AllocFd(t) ==
    /\ pc[t] = "alloc"
    /\ last_fd < MaxObjects - 1
    /\ last_fd' = last_fd + 1
    /\ fd' = [fd EXCEPT ![t] = last_fd + 1]
    /\ pc' = [pc EXCEPT ![t] = "insert"]
    /\ UNCHANGED <<fds, objectVars, arrivals, op, obj>>

\* The rest of alloc_fd, and the end of the usercall.
InsertFd(t) ==
    /\ pc[t] = "insert"
    /\ \E o \in Objects :
        /\ kinds[o] = None
        /\ \A p \in Objects : kinds[p] = None => o <= p
        /\ kinds' = [kinds EXCEPT ![o] = op[t]]
        /\ fds' = [fds EXCEPT ![fd[t]] = o]
    /\ fd' = [fd EXCEPT ![t] = None]
    /\ Returns(t, pc)
    /\ UNCHANGED <<last_fd, queue, waker, ready, failed, arrivals>>

Close(t, f) ==
    /\ pc[t] = "idle"
    /\ fds[f] # None
    /\ fds' = [fds EXCEPT ![f] = None]
    /\ UNCHANGED <<last_fd, objectVars, arrivals, taskVars>>

-----------------------------------------------------------------------------
(***************************************************************************)
(* Operations that wait                                                    *)
(***************************************************************************)
\* as_stream, as_listener
Allows(k, d) == IF k = "listener" THEN d = "accept" ELSE d # "accept"

\* lookup_fd; the task keeps the Arc.
Call(t, d, f) ==
    /\ pc[t] = "idle"
    /\ fds[f] # None
    /\ Allows(kinds[fds[f]], d)
    /\ pc' = [pc EXCEPT ![t] = "poll"]
    /\ op' = [op EXCEPT ![t] = d]
    /\ obj' = [obj EXCEPT ![t] = fds[f]]
    /\ UNCHANGED <<fds, last_fd, objectVars, arrivals, fd>>

\* Whether a poll of the socket fails.  Standard input is read only.
Fails(o, d) == failed[o] = "pending" \/ (kinds[o] = "stdin" /\ d # "read")

\* Whether a poll of the socket succeeds.  A stream that has failed is at its end.
Succeeds(o, d) == ~Fails(o, d) /\ (failed[o] # "no" \/ ready[o][d] > 0)

\* The task t polls its object o, for the operation d.
Polls(t, o, d) ==
    /\ pc[t] = "poll"
    /\ obj[t] = o
    /\ op[t] = d
    /\ UNCHANGED <<fds, last_fd, kinds, arrivals, fd>>

\* Mutant: the adapter relies on the waker that the socket keeps.
PollPendingForgets(t, o, d) ==
    /\ Polls(t, o, d)
    /\ ~Fails(o, d) /\ ~Succeeds(o, d)
    /\ waker' = [waker EXCEPT ![o][d] = t]
    /\ pc' = [pc EXCEPT ![t] = "sleep"]
    /\ UNCHANGED <<queue, ready, failed, op, obj>>
\* Poll::Pending
PollPending(t, o, d) ==
    /\ Polls(t, o, d)
    /\ ~Fails(o, d) /\ ~Succeeds(o, d)
    /\ waker' = [waker EXCEPT ![o][d] = t]
    /\ queue' = [queue EXCEPT ![o][d] = @ \union {t}]
    /\ pc' = [pc EXCEPT ![t] = "sleep"]
    /\ UNCHANGED <<ready, failed, op, obj>>

\* The operation d of t on o is done, which wakes the tasks in wakes.
\* accept_stream goes on to allocate a file descriptor.
Done(t, o, d, wakes) ==
    /\ waker' = [waker EXCEPT ![o][d] = IF @ = t THEN None ELSE @]
    /\ IF d = "accept"
       THEN /\ pc' = [WokenTasks(wakes) EXCEPT ![t] = "alloc"]
            /\ op' = [op EXCEPT ![t] = "stream"]
            /\ obj' = [obj EXCEPT ![t] = None]
       ELSE Returns(t, WokenTasks(wakes))

\* Mutant: the wakers of the others are dropped.
PollReadyWakesNobody(t, o, d) ==
    /\ Polls(t, o, d)
    /\ Succeeds(o, d)
    /\ ready' = [ready EXCEPT ![o][d] = IF @ > 0 THEN @ - 1 ELSE 0]
    /\ queue' = [queue EXCEPT ![o][d] = {}]
    /\ Done(t, o, d, {})
    /\ UNCHANGED failed
\* Poll::Ready(Ok), with notify_other_tasks.
PollReady(t, o, d) ==
    /\ Polls(t, o, d)
    /\ Succeeds(o, d)
    /\ ready' = [ready EXCEPT ![o][d] = IF @ > 0 THEN @ - 1 ELSE 0]
    /\ queue' = [queue EXCEPT ![o][d] = {}]
    /\ Done(t, o, d, queue[o][d] \ {t})
    /\ UNCHANGED failed

\* Poll::Ready(Err): nobody else is woken.
PollError(t, o, d) ==
    /\ Polls(t, o, d)
    /\ Fails(o, d)
    /\ failed' = [failed EXCEPT ![o] = IF @ = "pending" THEN "yes" ELSE @]
    /\ waker' = [waker EXCEPT ![o][d] = IF @ = t THEN None ELSE @]
    /\ queue' = [queue EXCEPT ![o][d] = @ \ {t}]
    /\ Returns(t, pc)
    /\ UNCHANGED ready

Poll(t) ==
    \E o \in Objects, d \in Ops : PollPending(t, o, d) \/ PollReady(t, o, d) \/ PollError(t, o, d)

-----------------------------------------------------------------------------
(***************************************************************************)
(* The sockets                                                             *)
(***************************************************************************)
\* Data, room for data, or a connection arrives, and the waker is used up.
Arrive(o, d) ==
    /\ kinds[o] # None /\ Allows(kinds[o], d) /\ (kinds[o] = "stdin" => d = "read")
    /\ failed[o] = "no"
    /\ arrivals < MaxArrivals
    /\ arrivals' = arrivals + 1
    /\ ready' = [ready EXCEPT ![o][d] = @ + 1]
    /\ waker' = [waker EXCEPT ![o][d] = None]
    /\ pc' = WokenTasks({waker[o][d]})
    /\ UNCHANGED <<fds, last_fd, kinds, queue, failed, op, obj, fd>>

\* A connection breaks, which wakes readers and writers.
Break(o) ==
    /\ kinds[o] = "stream"
    /\ failed[o] = "no"
    /\ failed' = [failed EXCEPT ![o] = "pending"]
    /\ waker' = [waker EXCEPT ![o] = [d \in Ops |-> None]]
    /\ pc' = WokenTasks({waker[o][d] : d \in Ops})
    /\ UNCHANGED <<fds, last_fd, kinds, queue, ready, arrivals, op, obj, fd>>

UsercallStarts(t) ==
    \/ \E k \in {"stream", "listener"} : Open(t, k)
    \/ \E f \in Fds : Close(t, f)
    \/ \E d \in Ops, f \in Fds : Call(t, d, f)

TaskStep(t) == AllocFd(t) \/ InsertFd(t) \/ Poll(t)

SocketStep == \E o \in Objects : Break(o) \/ \E d \in Ops : Arrive(o, d)

Next == (\E t \in Tasks : UsercallStarts(t) \/ TaskStep(t)) \/ SocketStep

Spec == Init /\ [][Next]_vars

\* The runtime polls tasks that are ready to run.
FairSpec == Spec /\ \A t \in Tasks : WF_vars(TaskStep(t))

-----------------------------------------------------------------------------
(***************************************************************************)
(* Properties                                                              *)
(***************************************************************************)
\* An open file descriptor keeps naming the same stream until it is closed:
\* alloc_fd never gives a number out twice, whatever calls overlap
\* (debug_assert!(prev.is_none()), mod.rs:1311).
FdsKept == [][\A f \in Fds : fds[f] # None => fds'[f] \in {fds[f], None}]_vars

\* The tasks in the middle of an operation on o.
Users(o, d) == {t \in Tasks : obj[t] = o /\ op[t] = d}

\* Nobody is left asleep who could go on: as long as tasks sleep on a stream
\* that has not failed, each is in the adapter's queue and either another task
\* is being polled, which will wake them all, or nothing has arrived and the
\* socket has the waker of one of them (mod.rs:213-253).
SleepersKnown ==
    \A o \in Objects, d \in Ops :
        LET asleep == {t \in Users(o, d) : pc[t] = "sleep"}
        IN  asleep # {} /\ failed[o] = "no" =>
                /\ asleep \subseteq queue[o][d]
                /\ \/ asleep # Users(o, d)
                   \/ ready[o][d] = 0 /\ waker[o][d] \in asleep

\* "When a stream is read from by multiple threads simultaneously, ... every
\* single byte in the stream will be read" (fortanix-sgx-abi/src/lib.rs:287-290):
\* what is there is taken, as long as somebody is waiting for it.
AllTaken ==
    \A o \in Objects, d \in Ops :
        (ready[o][d] > 0 /\ Users(o, d) # {})
            ~> (ready[o][d] = 0 \/ Users(o, d) = {} \/ failed[o] # "no")
=============================================================================
