--------------------------- MODULE EnclaveRunner ----------------------------
(***************************************************************************)
(* The life of a loaded enclave in the enclave runner (EnclaveState in     *)
(* usercalls/mod.rs): worker threads that enter TCSs, the system call loop *)
(* that handles their usercalls and decides when a run ends and why, the   *)
(* pool of stopped TCSs, and the entry points main_entry (executables, one *)
(* run) and library_entry (libraries, one run per call, runs concurrent).  *)
(*                                                                         *)
(* The tasks of a loop run on one thread: a handler is atomic up to its    *)
(* next await that can really suspend it.  Two awaits are: the body of a   *)
(* usercall (any delay before the Handle actions), and the process-wide    *)
(* lock around the debugger trap.  Channels whose order nothing depends on *)
(* are sets; the return channel is a sequence.                             *)
(***************************************************************************)
EXTENDS Integers, Sequences, FiniteSets

CONSTANTS
    Tcs,            \* TCSs
    Main,           \* the first TCS of an enclave, which runs main in an executable
    Enclaves,       \* the enclaves that may be loaded
    Runs,           \* calls of `run': one for a Command, any for a Library
    Workers,        \* worker threads of a run
    Usercalls,      \* the usercalls that the enclave makes
    MaxAsync,       \* bound: asynchronous usercalls
    MaxReturns,     \* bound: results in the return channel
    None

\* The kind, the TCSs and forward_panics of an EnclaveState, and whether another
\* enclave of the process may hold the lock of the debugger trap.
EnclaveConfigs ==
    [kind : {"Command", "Library"}, tcss : SUBSET Tcs, forward_panics : BOOLEAN,
     contended : BOOLEAN]

ASSUME EnclavesAssumption ==
    Enclaves \subseteq EnclaveConfigs /\ \A e \in Enclaves : Main \in e.tcss
ASSUME RunsAssumption == Runs # {}
ASSUME UsercallsAssumption == Usercalls \subseteq
    {"other", "launch_thread", "exit", "panic", "wait_never", "invalid", "malformed",
     "async_queues"}
ASSUME BoundsAssumption == Workers \in Nat /\ MaxAsync \in Nat /\ MaxReturns \in Nat

\* What a handler gives to return_future: Ok, or one of EnclaveAbort, with the
\* two cases of exit apart.
Results ==
    {"Ok", "Exit", "Panic", "Secondary", "IndefiniteWait", "InvalidUsercall", "MainReturned"}
\* ReturnSource
Sources == {"ExecutableMain", "ExecutableNonMain", "Library", "AsyncUsercall"}

ASSUME NoneAssumption == None \notin Runs /\ None \notin Results

VARIABLES
    \* EnclaveState
    enclave,    \* what was loaded, one of Enclaves
    exiting,    \* `exiting', and the abort semaphores of all event queues
    pool,       \* `threads_queue'
    queues,     \* run whose queues are in fifo_guards and return_queue_tx
    asked,      \* `async_queues_called' of the fifo_guards
    primary,    \* `primary_panic_reason'
    others,     \* `other_reasons'
    \* Each run.
    loop,       \* "idle", "starting", "running", "joining" or "done"
    work,       \* TCSs in the channel to the workers
    inside,     \* TCSs that a worker has entered
    tasks,      \* usercalls and returns on their way to the loop or handled
    trapping,   \* TCSs whose panic waits for the trap lock
    returns,    \* the return channel
    result,     \* what syscall_loop returned
    outcome,    \* what main_entry or library_entry returned
    \* The enclave and history.
    shared,     \* runs whose queues the enclave knows
    asyncs,     \* number of asynchronous usercalls made
    quit,       \* TCSs that did not get back to the enclave by their own doing
    first       \* per run, the first abort or return that has to end it

enclaveVars == <<enclave, exiting, pool, queues, asked, primary, others>>
runVars == <<loop, work, inside, tasks, trapping, returns, result, outcome>>
historyVars == <<shared, asyncs, quit, first>>
vars == <<enclaveVars, runVars, historyVars>>

\* RunningTcs.mode
Mode(t) ==
    IF enclave.kind = "Library" THEN "Library"
    ELSE IF t = Main THEN "ExecutableMain" ELSE "ExecutableNonMain"

\* EnclaveState::new, called from main_entry or library
Init ==
    /\ enclave \in Enclaves
    /\ exiting = FALSE
    /\ pool = IF enclave.kind = "Command" THEN enclave.tcss \ {Main} ELSE enclave.tcss
    /\ queues = None
    /\ asked = FALSE
    /\ primary = None
    /\ others = {}
    /\ loop = [c \in Runs |-> "idle"]
    /\ work = [c \in Runs |-> {}]
    /\ inside = [c \in Runs |-> {}]
    /\ tasks = [c \in Runs |-> {}]
    /\ trapping = [c \in Runs |-> {}]
    /\ returns = [c \in Runs |-> <<>>]
    /\ result = [c \in Runs |-> None]
    /\ outcome = [c \in Runs |-> None]
    /\ shared = {}
    /\ asyncs = 0
    /\ quit = {}
    /\ first = [c \in Runs |-> None]

-----------------------------------------------------------------------------
(***************************************************************************)
(* Entry points                                                            *)
(***************************************************************************)
\* run: the first Work is sent and the workers are started.
Run(c, t) ==
    /\ loop' = [loop EXCEPT ![c] = "starting"]
    /\ work' = [work EXCEPT ![c] = {t}]

\* main_entry up to the system call loop; Command::run consumes the Command, so
\* that it runs once.
MainRun == CHOOSE c \in Runs : TRUE
MainEntry(c) ==
    /\ enclave.kind = "Command"
    /\ c = MainRun
    /\ loop[c] = "idle"
    /\ Run(c, Main)
    /\ UNCHANGED <<enclaveVars, inside, tasks, trapping, returns, result, outcome, historyVars>>

\* library_entry up to the system call loop; it panics when no TCS is free.
LibraryEntry(c) ==
    /\ enclave.kind = "Library"
    /\ loop[c] = "idle"
    /\ \/ /\ pool = {}
          /\ outcome' = [outcome EXCEPT ![c] = "panicked"]
          /\ loop' = [loop EXCEPT ![c] = "done"]
          /\ UNCHANGED <<pool, work>>
       \/ \E t \in pool :
          /\ pool' = pool \ {t}
          /\ Run(c, t)
          /\ UNCHANGED outcome
    /\ UNCHANGED <<enclave, exiting, queues, asked, primary, others,
                   inside, tasks, trapping, returns, result, historyVars>>

\* The first poll of io_future makes new queues.
StartLoop(c) ==
    /\ loop[c] = "starting"
    /\ loop' = [loop EXCEPT ![c] = "running"]
    /\ queues' = c
    /\ asked' = FALSE
    /\ UNCHANGED <<enclave, exiting, pool, primary, others, work, inside, tasks, trapping,
                   returns, result, outcome, historyVars>>

-----------------------------------------------------------------------------
(***************************************************************************)
(* Worker threads                                                          *)
(***************************************************************************)
\* A worker takes a Work from the channel and enters the TCS.
Enter(c, t) ==
    /\ t \in work[c]
    /\ Cardinality(inside[c]) < Workers
    /\ work' = [work EXCEPT ![c] = @ \ {t}]
    /\ inside' = [inside EXCEPT ![c] = @ \union {t}]
    /\ UNCHANGED <<enclaveVars, loop, tasks, trapping, returns, result, outcome, historyVars>>

\* coenter returns with a usercall or because the entry point returned, and
\* do_work hands it to the loop; when that has ended, the TCS is dropped.  An
\* exception in the enclave is turned into the usercall exit(true).
Leave(c, t, u) ==
    /\ t \in inside[c]
    /\ inside' = [inside EXCEPT ![c] = @ \ {t}]
    /\ tasks' = IF loop[c] \in {"starting", "running"}
                THEN [tasks EXCEPT ![c] = @ \union {[tcs |-> t, call |-> u]}]
                ELSE tasks
    /\ UNCHANGED <<enclaveVars, loop, work, trapping, returns, result, outcome, historyVars>>

-----------------------------------------------------------------------------
(***************************************************************************)
(* The system call loop                                                    *)
(***************************************************************************)
\* The loop of c runs a task; the bound keeps it from running far ahead of
\* return_future.
Runnable(c) == loop[c] = "running" /\ Len(returns[c]) < MaxReturns

\* The loop handles the usercall u of t, or its return.
Handles(c, t, u) ==
    /\ Runnable(c)
    /\ [tcs |-> t, call |-> u] \in tasks[c]
    /\ tasks' = [tasks EXCEPT ![c] = @ \ {[tcs |-> t, call |-> u]}]

\* Mutant: only what the main thread or a library call does ends the loop.
EndsForMainOnly(res, src) ==
    res # "Secondary" /\ src \in {"Library", "ExecutableMain"}
\* Whether return_future ends the loop for this result.
Ends(res, src) ==
    /\ res # "Secondary"
    /\ \/ src \in {"Library", "ExecutableMain"}
       \/ res \in {"Exit", "Panic", "InvalidUsercall"}

\* The result of a handler is decided, and sent to return_future.
Decide(c, res, src) ==
    first' = [first EXCEPT ![c] = IF @ = None /\ Ends(res, src) THEN res ELSE @]
Post(c, res, src) ==
    returns' = [returns EXCEPT ![c] = Append(@, [res |-> res, src |-> src])]

\* dispatch and handle_usercall, for a handler that succeeded.
Answer(c, t) ==
    \/ /\ ~exiting
       /\ work' = [work EXCEPT ![c] = @ \union {t}]
       /\ UNCHANGED returns
    \/ /\ exiting
       /\ Post(c, "Secondary", Mode(t))
       /\ UNCHANGED work

\* Any usercall that leaves EnclaveState alone and returns to the enclave:
\* files, sockets, memory, time, and waits, which an abort ends.
HandleOther(c, t) ==
    /\ Handles(c, t, "other")
    /\ Answer(c, t)
    /\ UNCHANGED <<enclaveVars, loop, inside, trapping, result, outcome, historyVars>>

\* launch_thread, called synchronously.  Sending to the workers cannot fail
\* here: they are joined only after the tasks of the loop are gone.
HandleLaunchThread(c, t) ==
    /\ Handles(c, t, "launch_thread")
    /\ \/ /\ enclave.kind = "Library" \/ pool = {}
          /\ Answer(c, t)
          /\ UNCHANGED pool
       \/ /\ enclave.kind = "Command"
          /\ \E n \in pool :
                /\ pool' = pool \ {n}
                /\ \/ /\ ~exiting
                      /\ work' = [work EXCEPT ![c] = @ \union {n, t}]
                      /\ UNCHANGED returns
                   \/ /\ exiting
                      /\ work' = [work EXCEPT ![c] = @ \union {n}]
                      /\ Post(c, "Secondary", Mode(t))
    /\ UNCHANGED <<enclave, exiting, queues, asked, primary, others, loop, inside, trapping,
                   result, outcome, historyVars>>

\* abort_all_threads: also posts to the abort semaphore of every TCS, which ends
\* the waits among the "other" usercalls.
AbortAllThreads == exiting' = TRUE

\* exit(false)
HandleExit(c, t) ==
    /\ Handles(c, t, "exit")
    /\ AbortAllThreads
    /\ Decide(c, "Exit", Mode(t))
    /\ Post(c, "Exit", Mode(t))
    /\ quit' = quit \union {t}
    /\ UNCHANGED <<enclave, pool, queues, asked, primary, others, loop, work, inside, trapping,
                   result, outcome, shared, asyncs>>

\* What is left of handle_usercall after the trap: with forward_panics the
\* task panics, which ends the task and nothing else.
PostPanic(c, src) == IF enclave.forward_panics THEN UNCHANGED returns ELSE Post(c, "Panic", src)

\* exit(true): the debugger trap comes before the result is sent.
Panic(c, t) ==
    /\ AbortAllThreads
    /\ Decide(c, "Panic", Mode(t))
    /\ quit' = quit \union {t}
    /\ \/ /\ PostPanic(c, Mode(t))
          /\ UNCHANGED trapping
       \/ /\ enclave.contended
          /\ trapping' = [trapping EXCEPT ![c] = @ \union {t}]
          /\ UNCHANGED returns

HandlePanic(c, t) ==
    /\ Handles(c, t, "panic")
    /\ Panic(c, t)
    /\ UNCHANGED <<enclave, pool, queues, asked, primary, others, loop, work, inside,
                   result, outcome, shared, asyncs>>

Trapped(c, t) ==
    /\ Runnable(c)
    /\ t \in trapping[c]
    /\ trapping' = [trapping EXCEPT ![c] = @ \ {t}]
    /\ PostPanic(c, Mode(t))
    /\ UNCHANGED <<enclaveVars, loop, work, inside, tasks, result, outcome, historyVars>>

\* wait without events or timeout, and usercalls that do not exist.
HandleAbort(c, t, u, res) ==
    /\ Handles(c, t, u)
    /\ Decide(c, res, Mode(t))
    /\ Post(c, res, Mode(t))
    /\ quit' = quit \union {t}
    /\ UNCHANGED <<enclaveVars, loop, work, inside, trapping, result, outcome, shared, asyncs>>

\* async_queues: the second call since the queues were made is a panic.
HandleAsyncQueues(c, t) ==
    /\ Handles(c, t, "async_queues")
    /\ \/ /\ ~asked
          /\ asked' = TRUE
          /\ shared' = shared \union {queues}
          /\ Answer(c, t)
          /\ UNCHANGED <<exiting, trapping, quit, first>>
       \/ /\ asked
          /\ Panic(c, t)
          /\ UNCHANGED <<asked, shared, work>>
    /\ UNCHANGED <<enclave, pool, queues, primary, others, loop, inside, result, outcome, asyncs>>

\* Mutant: a thread that returned is dropped.
ReturnDropsTcs(c, t) ==
    /\ Handles(c, t, "return")
    /\ UNCHANGED <<enclaveVars, loop, work, inside, trapping, returns, result, outcome,
                   historyVars>>
\* CoResult::Return: what the three entry points do.
HandleReturn(c, t) ==
    /\ Handles(c, t, "return")
    /\ LET res == IF Mode(t) = "ExecutableMain" THEN "MainReturned" ELSE "Ok"
       IN  Decide(c, res, Mode(t)) /\ Post(c, res, Mode(t))
    /\ IF \/ Mode(t) = "Library"
          \/ Mode(t) = "ExecutableNonMain" /\ ~exiting
       THEN pool' = pool \union {t} /\ UNCHANGED quit
       ELSE quit' = quit \union {t} /\ UNCHANGED pool
    /\ UNCHANGED <<enclave, exiting, queues, asked, primary, others, loop, work, inside, trapping,
                   result, outcome, shared, asyncs>>

\* An assertion on what the enclave passes fails.  The panic ends the task,
\* which nobody joins, and the TCS with it.
TaskPanics(c, t, u) ==
    /\ Handles(c, t, u)
    /\ quit' = quit \union {t}
    /\ UNCHANGED <<enclaveVars, loop, work, inside, trapping, returns, result, outcome,
                   shared, asyncs, first>>

\* dispatch: an argument that the usercall does not use is not 0.
HandleMalformed(c, t) == TaskPanics(c, t, "malformed")

\* The entry point of a thread that is not main does not return zero.
HandleNonzeroReturn(c, t) == TaskPanics(c, t, "return_nonzero")

\* A usercall from the queue of run c: one that answers on the return queue,
\* launches a thread, or aborts.  Whoever called it is not there to be resumed.
AsyncUsercall(c, u) ==
    /\ Runnable(c)
    /\ c \in shared
    /\ asyncs < MaxAsync
    /\ asyncs' = asyncs + 1
    /\ \/ /\ u \in {"other", "launch_thread"}
          /\ IF u = "launch_thread" /\ enclave.kind = "Command" /\ pool # {}
             THEN \E n \in pool :
                    pool' = pool \ {n} /\ work' = [work EXCEPT ![c] = @ \union {n}]
             ELSE UNCHANGED <<pool, work>>
          /\ IF exiting THEN Post(c, "Secondary", "AsyncUsercall") ELSE UNCHANGED returns
          /\ UNCHANGED <<exiting, first>>
       \/ /\ u \in {"exit", "panic"}
          /\ AbortAllThreads
          /\ LET res == IF u = "exit" THEN "Exit" ELSE "Panic"
             IN  /\ Decide(c, res, "AsyncUsercall")
                 /\ IF u = "exit" THEN Post(c, res, "AsyncUsercall")
                                  ELSE PostPanic(c, "AsyncUsercall")
          /\ UNCHANGED <<pool, work>>
       \/ /\ u \in {"wait_never", "invalid"}
          /\ LET res == IF u = "invalid" THEN "InvalidUsercall" ELSE "IndefiniteWait"
             IN  Decide(c, res, "AsyncUsercall") /\ Post(c, res, "AsyncUsercall")
          /\ UNCHANGED <<exiting, pool, work>>
    /\ UNCHANGED <<enclave, queues, asked, primary, others, loop, inside, tasks, trapping,
                   result, outcome, shared, quit>>

\* syscall_loop returns: its tasks are dropped, with the TCSs they hold.
EndLoop(c) ==
    /\ tasks' = [tasks EXCEPT ![c] = {}]
    /\ trapping' = [trapping EXCEPT ![c] = {}]
    /\ returns' = [returns EXCEPT ![c] = <<>>]

\* return_future ends the loop: with the result r itself, or, for the panic
\* of a thread that is not main, with Secondary and a reason to look up.
\* Only a Command has a place for that reason: elsewhere the unwrap panics.
FinishLoop(c, r) ==
    \/ /\ r.src \in {"Library", "ExecutableMain"} \/ r.res = "Exit"
       /\ result' = [result EXCEPT ![c] = r.res]
       /\ loop' = [loop EXCEPT ![c] = "joining"]
       /\ EndLoop(c)
       /\ UNCHANGED <<primary, outcome>>
    \/ /\ r.src \in {"ExecutableNonMain", "AsyncUsercall"} /\ r.res # "Exit"
       /\ enclave.kind = "Command"
       /\ primary' = IF primary = None THEN r.res ELSE primary
       /\ result' = [result EXCEPT ![c] = "Secondary"]
       /\ loop' = [loop EXCEPT ![c] = "joining"]
       /\ EndLoop(c)
       /\ UNCHANGED outcome
    \/ /\ r.src \in {"ExecutableNonMain", "AsyncUsercall"} /\ r.res # "Exit"
       /\ enclave.kind = "Library"
       /\ outcome' = [outcome EXCEPT ![c] = "panicked"]
       /\ loop' = [loop EXCEPT ![c] = "done"]
       /\ EndLoop(c)
       /\ UNCHANGED <<primary, result>>

\* return_future takes a result from its channel.
ReturnFuture(c) ==
    /\ loop[c] = "running"
    /\ returns[c] # <<>>
    /\ LET r == Head(returns[c])
       IN  \/ /\ Ends(r.res, r.src)
              /\ FinishLoop(c, r)
              /\ UNCHANGED others
           \/ /\ r.res = "IndefiniteWait" /\ ~Ends(r.res, r.src)
              /\ enclave.kind = "Command"
              /\ others' = others \union {r.res}
              /\ returns' = [returns EXCEPT ![c] = Tail(@)]
              /\ UNCHANGED <<primary, loop, tasks, trapping, result, outcome>>
           \/ /\ r.res = "IndefiniteWait" /\ ~Ends(r.res, r.src)
              /\ enclave.kind = "Library"
              /\ FinishLoop(c, r)
              /\ UNCHANGED others
           \/ /\ r.res \in {"Secondary", "Ok"} /\ ~Ends(r.res, r.src)
              /\ returns' = [returns EXCEPT ![c] = Tail(@)]
              /\ UNCHANGED <<primary, others, loop, tasks, trapping, result, outcome>>
    /\ UNCHANGED <<enclave, exiting, pool, queues, asked, work, inside, historyVars>>

-----------------------------------------------------------------------------
(***************************************************************************)
(* The end of a run: the workers have finished what was in their channel.  *)
(***************************************************************************)
\* Mutant: the reason left by another thread is not looked up.
IgnorePrimary(res) == IF res = "Secondary" THEN "unreachable" ELSE res
\* The error that main_entry makes of the result of the loop.
ExitReason(res) ==
    LET main_panicking == res \in {"MainReturned", "InvalidUsercall", "Exit", "Panic"}
        reason == IF ~main_panicking /\ primary # None THEN primary ELSE res
    IN  IF reason = "Secondary" THEN "unreachable" ELSE reason

\* What library_entry makes of it.
LibraryResult(res) == IF res = "MainReturned" THEN "unreachable" ELSE res

Join(c) ==
    /\ loop[c] = "joining"
    /\ work[c] = {} /\ inside[c] = {}
    /\ loop' = [loop EXCEPT ![c] = "done"]
    /\ \/ /\ enclave.kind = "Command"
          /\ AbortAllThreads
          /\ pool' = {}
          /\ primary' = None
          /\ outcome' = [outcome EXCEPT ![c] = ExitReason(result[c])]
       \/ /\ enclave.kind = "Library"
          /\ outcome' = [outcome EXCEPT ![c] = LibraryResult(result[c])]
          /\ UNCHANGED <<exiting, pool, primary>>
    /\ UNCHANGED <<enclave, queues, asked, others, work, inside, tasks, trapping, returns, result,
                   historyVars>>

-----------------------------------------------------------------------------
\* What an enclave thread may leave the enclave with.
Exits(t) ==
    Usercalls \union {"return"} \union
        (IF Mode(t) = "ExecutableNonMain" THEN {"return_nonzero"} ELSE {})

\* A task of the loop that handles what t left the enclave with.
Handle(c, t) ==
    \/ HandleOther(c, t) \/ HandleLaunchThread(c, t) \/ HandleExit(c, t) \/ HandlePanic(c, t)
    \/ HandleAbort(c, t, "wait_never", "IndefiniteWait")
    \/ HandleAbort(c, t, "invalid", "InvalidUsercall")
    \/ HandleAsyncQueues(c, t)
    \/ HandleReturn(c, t)
    \/ HandleMalformed(c, t) \/ HandleNonzeroReturn(c, t)

Next ==
    \E c \in Runs :
        \/ MainEntry(c) \/ LibraryEntry(c) \/ StartLoop(c) \/ ReturnFuture(c) \/ Join(c)
        \/ \E u \in Usercalls : AsyncUsercall(c, u)
        \/ \E t \in Tcs :
            \/ Enter(c, t) \/ Handle(c, t) \/ Trapped(c, t)
            \/ \E u \in Exits(t) : Leave(c, t, u)

Spec == Init /\ [][Next]_vars

\* Worker threads and tasks are scheduled, and usercalls complete.  An enclave
\* thread that was entered leaves the enclave at some time: the runner has no
\* means to make it.
Fairness ==
    \A c \in Runs :
        /\ WF_vars(StartLoop(c)) /\ WF_vars(ReturnFuture(c)) /\ WF_vars(Join(c))
        /\ \A t \in Tcs :
            /\ WF_vars(Enter(c, t)) /\ WF_vars(Handle(c, t)) /\ WF_vars(Trapped(c, t))
            /\ WF_vars(\E u \in Exits(t) : Leave(c, t, u))

FairSpec == Spec /\ Fairness

-----------------------------------------------------------------------------
(***************************************************************************)
(* Properties                                                              *)
(***************************************************************************)
\* Where the TCSs of a run are.
TasksOf(c) == {k.tcs : k \in tasks[c]}
Held(c) == work[c] \union inside[c] \union TasksOf(c) \union trapping[c]

\* A TCS is in one place at a time: in the pool, waiting for a worker, entered
\* by one worker, or in one task, of one run.  In particular no TCS is entered
\* by two threads, and none that is in use can be handed out by launch_thread
\* or library_entry (mod.rs:1447, mod.rs:1107, mod.rs:916-930).
TcsUnique ==
    /\ \A c \in Runs :
        /\ pool \intersect Held(c) = {}
        /\ work[c] \intersect inside[c] = {}
        /\ (work[c] \union inside[c]) \intersect (TasksOf(c) \union trapping[c]) = {}
        /\ TasksOf(c) \intersect trapping[c] = {}
        /\ \A k, l \in tasks[c] : k.tcs = l.tcs => k = l
    /\ \A c, d \in Runs : c # d => Held(c) \intersect Held(d) = {}

\* And none gets lost while the enclave lives: unless it was aborted by what it
\* did itself, a TCS is in the pool or in a run, as long as no run has ended
\* otherwise than by returning from the enclave.
TcsConserved ==
    /\ TcsUnique
    /\ /\ ~exiting
       /\ enclave.kind = "Command" => loop[MainRun] # "idle"
       /\ \A c \in Runs : loop[c] \in {"joining", "done"} => first[c] = "Ok"
       => enclave.tcss \ quit \subseteq pool \union UNION {Held(c) : c \in Runs}

\* What main_entry and library_entry return is the first abort or return that
\* had to end the run, whichever of the threads and asynchronous usercalls
\* aborted after it; unless the loop panicked.  In particular no run ends in an
\* unreachable!(): one that ends because another thread aborted finds the reason
\* (mod.rs:1079-1080).  It is not so for panics that are forwarded, or that wait
\* for the debugger trap of another enclave.
FirstAbortWins ==
    ~enclave.forward_panics /\ ~enclave.contended =>
        \A c \in Runs : outcome[c] \in {None, "panicked", first[c]}

\* A run of an executable ends once a thread has called exit or panicked; unless
\* panics are forwarded, which end a task and nothing else.
ExitEndsRun ==
    (enclave.kind = "Command" /\ ~enclave.forward_panics /\ exiting) ~> loop[MainRun] = "done"
=============================================================================
