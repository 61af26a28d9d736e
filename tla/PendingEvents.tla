--------------------------- MODULE PendingEvents ----------------------------
(***************************************************************************)
(* The TCS event queues of the enclave runner: struct PendingEvents with   *)
(* one tokio semaphore per event set, and the usercalls `wait' and `send'  *)
(* on top of it (enclave-runner, usercalls/mod.rs and interface.rs).       *)
(*                                                                         *)
(* An event set is a non-empty set of bits.  A semaphore hands a permit to *)
(* a queued Acquire future before it makes it available; `granted' holds   *)
(* the event sets whose permit a blocked wait_for has been handed and has  *)
(* not been polled for yet.  Every TCS has at most one wait_for: a TCS     *)
(* waits inside a synchronous usercall.                                    *)
(***************************************************************************)
EXTENDS Integers

CONSTANTS
    Tcs,         \* the threads of the enclave
    Bits,        \* the event bits, as numbers: UNPARK, RETURNQ_NOT_EMPTY, ...
    EvAbort,     \* the bit EV_ABORT, which the enclave may not use
    MaxPermits   \* permits above which push drops an event

ASSUME BitsAssumption == Bits \subseteq Nat /\ EvAbort \notin Bits
ASSUME PermitsAssumption == MaxPermits \in Nat

VARIABLES
    counts,      \* counts[t][e]: available permits of e on the queue of t
    granted,     \* event sets whose permit was handed to the wait of t
    aborted,     \* the abort semaphores have permits
    phase,       \* "running", "waiting" in wait_for, "expired" when the timeout
                 \* of wait_for was found to be over, or "stopped"
    mask,        \* event_mask of the wait in progress
    timed,       \* whether the wait in progress has a timeout
    owed         \* history: pushes accepted minus events delivered

pendingVars == <<counts, granted, aborted, phase, mask, timed, owed>>

Events == (SUBSET Bits) \ {{}}
EventSets == SUBSET (Bits \union {EvAbort})

\* The events that a wait with event mask m acts on.
Matching(m) == {e \in Events : e \intersect m # {}}

\* e is a larger number than f.
Above(e, f) == \E b \in e \ f : \A c \in f \ e : c < b

PendingInit ==
    /\ counts = [t \in Tcs |-> [e \in Events |-> 0]]
    /\ granted = [t \in Tcs |-> {}]
    /\ aborted = FALSE
    /\ phase = [t \in Tcs |-> "running"]
    /\ mask = [t \in Tcs |-> {}]
    /\ timed = [t \in Tcs |-> FALSE]
    /\ owed = [t \in Tcs |-> [e \in Events |-> 0]]

\* check_event_set
CheckEventSet(set) == set \subseteq Bits

\* A usercall of t ends.  After an abort t does not get back to the enclave.
Return(t, abort) ==
    /\ phase' = [phase EXCEPT ![t] = IF abort THEN "stopped" ELSE "running"]
    /\ mask' = [mask EXCEPT ![t] = {}]
    /\ timed' = [timed EXCEPT ![t] = FALSE]

\* A wait of t consumes the event e, a permit of which is available.
Consume(t, e) ==
    /\ counts' = [counts EXCEPT ![t][e] = @ - 1]
    /\ owed' = [owed EXCEPT ![t][e] = @ - 1]

(***************************************************************************)
(* The usercall `wait'                                                     *)
(***************************************************************************)
\* An event mask with unknown bits: InvalidInput.
WaitInvalid(t, m) ==
    /\ phase[t] = "running"
    /\ ~CheckEventSet(m)
    /\ UNCHANGED pendingVars

\* An empty mask and no timeout: EnclaveAbort::IndefiniteWait (interface.rs).
WaitForNothing(t) ==
    /\ phase[t] = "running"
    /\ Return(t, TRUE)
    /\ UNCHANGED <<counts, granted, aborted, owed>>

\* WAIT_NO: take, which looks at the larger event sets first.
Take(t, m) ==
    /\ phase[t] = "running"
    /\ CheckEventSet(m)
    /\ LET ready == {e \in Matching(m) : counts[t][e] > 0}
       IN  \/ /\ aborted
              /\ Return(t, TRUE)
              /\ UNCHANGED <<counts, owed>>
           \/ /\ ~aborted
              /\ ready = {}
              /\ Return(t, FALSE)
              /\ UNCHANGED <<counts, owed>>
           \/ /\ ~aborted
              /\ \E e \in ready :
                    /\ \A f \in ready \ {e} : Above(e, f)
                    /\ Consume(t, e)
                    /\ Return(t, FALSE)
    /\ UNCHANGED <<granted, aborted>>

\* WAIT_INDEFINITE, or a timeout: the first poll of wait_for.  select_all polls
\* the smaller event sets first, and blocks when none is ready.
WaitFor(t, m, to) ==
    /\ phase[t] = "running"
    /\ CheckEventSet(m)
    /\ m # {} \/ to
    /\ LET ready == {e \in Matching(m) : counts[t][e] > 0}
       IN  \/ /\ aborted
              /\ Return(t, TRUE)
              /\ UNCHANGED <<counts, owed>>
           \/ /\ ~aborted
              /\ ready = {}
              /\ phase' = [phase EXCEPT ![t] = "waiting"]
              /\ mask' = [mask EXCEPT ![t] = m]
              /\ timed' = [timed EXCEPT ![t] = to]
              /\ UNCHANGED <<counts, owed>>
           \/ /\ ~aborted
              /\ \E e \in ready :
                    /\ \A f \in ready \ {e} : Above(f, e)
                    /\ Consume(t, e)
                    /\ Return(t, FALSE)
    /\ UNCHANGED <<granted, aborted>>

\* Dropping the Acquire futures of t gives back the permits in `set'.
GiveBack(t, set) ==
    counts' = [counts EXCEPT ![t] = [e \in Events |-> @[e] + IF e \in set THEN 1 ELSE 0]]

\* Mutant: forgets every permit it was handed, not only the one it returns.
WokenForgetsAll(t) ==
    /\ phase[t] = "waiting"
    /\ \E e \in granted[t] :
        /\ \A f \in granted[t] \ {e} : Above(f, e)
        /\ UNCHANGED counts
        /\ owed' = [owed EXCEPT ![t][e] = @ - 1]
        /\ Return(t, FALSE)
    /\ ~aborted
    /\ granted' = [granted EXCEPT ![t] = {}]
    /\ UNCHANGED aborted
\* Mutant: returns the selected event without looking at the abort semaphore.
WokenIgnoresAbort(t) ==
    /\ phase[t] = "waiting"
    /\ \E e \in granted[t] :
        /\ \A f \in granted[t] \ {e} : Above(f, e)
        /\ GiveBack(t, granted[t] \ {e})
        /\ owed' = [owed EXCEPT ![t][e] = @ - 1]
        /\ Return(t, FALSE)
    /\ granted' = [granted EXCEPT ![t] = {}]
    /\ UNCHANGED aborted
\* Mutant: selects among the event semaphores only.
WokenByEventsOnly(t) ==
    /\ phase[t] = "waiting"
    /\ \E e \in granted[t] :
        /\ \A f \in granted[t] \ {e} : Above(f, e)
        /\ IF aborted
           THEN /\ GiveBack(t, granted[t])
                /\ Return(t, TRUE)
                /\ UNCHANGED owed
           ELSE /\ GiveBack(t, granted[t] \ {e})
                /\ owed' = [owed EXCEPT ![t][e] = @ - 1]
                /\ Return(t, FALSE)
    /\ granted' = [granted EXCEPT ![t] = {}]
    /\ UNCHANGED aborted
\* A blocked wait_for is polled after one of its permits was handed to it.
\* Abort takes precedence, and every permit that is not forgotten goes back.
Woken(t) ==
    /\ phase[t] = "waiting"
    /\ \/ /\ aborted
          /\ GiveBack(t, granted[t])
          /\ Return(t, TRUE)
          /\ UNCHANGED owed
       \/ /\ ~aborted
          /\ \E e \in granted[t] :
                /\ \A f \in granted[t] \ {e} : Above(f, e)
                /\ GiveBack(t, granted[t] \ {e})
                /\ owed' = [owed EXCEPT ![t][e] = @ - 1]
                /\ Return(t, FALSE)
    /\ granted' = [granted EXCEPT ![t] = {}]
    /\ UNCHANGED aborted

\* The timeout of a wait is over.  tokio polls wait_for, which has nothing, and
\* then the timer.
TimedOut(t) ==
    /\ phase[t] = "waiting"
    /\ timed[t]
    /\ ~aborted
    /\ granted[t] = {}
    /\ phase' = [phase EXCEPT ![t] = "expired"]
    /\ UNCHANGED <<counts, granted, aborted, mask, timed, owed>>

\* The futures of the wait are dropped, and TimedOut is returned.  The loop of
\* another thread may have handed them permits in between, or aborted.
DropWait(t) ==
    /\ phase[t] = "expired"
    /\ GiveBack(t, granted[t])
    /\ granted' = [granted EXCEPT ![t] = {}]
    /\ Return(t, FALSE)
    /\ UNCHANGED <<aborted, owed>>

(***************************************************************************)
(* The usercall `send'                                                     *)
(***************************************************************************)
\* Whether t has a wait_for, and whether that has a future for e without a permit.
Blocked(t) == phase[t] \in {"waiting", "expired"}
Queued(t, e) == Blocked(t) /\ e \in Matching(mask[t]) \ granted[t]

\* Mutant: pushing makes a permit available without serving the waiter.
PushToCount(ts, e) ==
    /\ counts' = [t \in Tcs |-> [counts[t] EXCEPT
                    ![e] = IF t \in ts /\ @ < MaxPermits THEN @ + 1 ELSE @]]
    /\ owed' = [t \in Tcs |-> [owed[t] EXCEPT
                    ![e] = IF t \in ts /\ counts[t][e] < MaxPermits THEN @ + 1 ELSE @]]
    /\ UNCHANGED granted
\* push on the queues of ts: a queued future gets the permit, otherwise it
\* becomes available.
Push(ts, e) ==
    LET Accepted(t) == t \in ts /\ counts[t][e] < MaxPermits
    IN  /\ counts' = [t \in Tcs |-> [counts[t] EXCEPT
                        ![e] = IF Accepted(t) /\ ~Queued(t, e) THEN @ + 1 ELSE @]]
        /\ granted' = [t \in Tcs |->
                        IF Accepted(t) /\ Queued(t, e) THEN granted[t] \union {e}
                                                       ELSE granted[t]]
        /\ owed' = [t \in Tcs |-> [owed[t] EXCEPT ![e] = IF Accepted(t) THEN @ + 1 ELSE @]]

\* `target' is {} for an address that is no TCS, Tcs for None.
Send(s, set, target) ==
    /\ phase[s] = "running"
    /\ CheckEventSet(set) /\ set # {} /\ target # {}
    /\ Push(target, set)
    /\ UNCHANGED <<aborted, phase, mask, timed>>

SendInvalid(s, set, target) ==
    /\ phase[s] = "running"
    /\ ~CheckEventSet(set) \/ set = {} \/ target = {}
    /\ UNCHANGED pendingVars

\* A thread exits: abort_all_threads.
Abort(s) ==
    /\ phase[s] = "running"
    /\ aborted' = TRUE
    /\ Return(s, TRUE)
    /\ UNCHANGED <<counts, granted, owed>>

-----------------------------------------------------------------------------
Targets == {{}, Tcs} \union {{t} : t \in Tcs}

PendingNext ==
    \/ \E t \in Tcs :
        \/ \E m \in EventSets : WaitInvalid(t, m)
        \/ WaitForNothing(t)
        \/ \E m \in EventSets : Take(t, m)
        \/ \E m \in EventSets, to \in BOOLEAN : WaitFor(t, m, to)
        \/ Woken(t)
        \/ TimedOut(t)
        \/ DropWait(t)
        \/ \E set \in EventSets, target \in Targets :
            Send(t, set, target) \/ SendInvalid(t, set, target)
        \/ Abort(t)

PendingSpec == PendingInit /\ [][PendingNext]_pendingVars

\* The runtime polls a task that was woken, and a poll comes to its end.
FairPendingSpec == PendingSpec /\ \A t \in Tcs : WF_pendingVars(Woken(t) \/ DropWait(t))

-----------------------------------------------------------------------------
\* Every variable has its type; in particular no semaphore gives out more
\* permits than it was given (mod.rs:536-593).
TypeOK ==
    /\ counts \in [Tcs -> [Events -> Nat]]
    /\ granted \in [Tcs -> SUBSET Events]
    /\ aborted \in BOOLEAN
    /\ phase \in [Tcs -> {"running", "waiting", "expired", "stopped"}]
    /\ mask \in [Tcs -> SUBSET Bits]
    /\ timed \in [Tcs -> BOOLEAN]
    /\ owed \in [Tcs -> [Events -> Nat]]

\* No event is lost or delivered twice: what was accepted by push and not yet
\* delivered is exactly what the semaphore holds or has handed to the wait of
\* the TCS, whatever waits were woken, timed out or aborted in between, also if
\* the permit came when the timeout was already found to be over
\* (mod.rs:536-593, 1518-1522).
EventsConserved ==
    \A t \in Tcs, e \in Events :
        owed[t][e] = counts[t][e] + (IF e \in granted[t] THEN 1 ELSE 0)

\* A blocked wait is never left sleeping on a pending event: if a matching
\* event is available, the wait has been handed one already (mod.rs:562-566).
NoMissedEvent ==
    \A t \in Tcs :
        /\ ~Blocked(t) => granted[t] = {}
        /\ Blocked(t) =>
            \A e \in Matching(mask[t]) : counts[t][e] > 0 => e \in granted[t]

\* Once the enclave is aborting, no wait consumes an event any more: abort
\* takes precedence over events that happen concurrently (mod.rs:570-574).
NoEventAfterAbort ==
    [][aborted => \A t \in Tcs, e \in Events : owed[t][e]' >= owed[t][e]]_pendingVars

\* An abort ends every wait that is blocked, and so does a pending event that
\* matches its mask (mod.rs:562-574).
BlockedWaitsEnd ==
    \A t \in Tcs :
        (Blocked(t) /\ (aborted \/ \E e \in Matching(mask[t]) : owed[t][e] > 0)) ~> ~Blocked(t)
=============================================================================
