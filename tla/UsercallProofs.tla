--------------------------- MODULE UsercallProofs ---------------------------
(***************************************************************************)
(* Proofs about the usercalls that wait, for any number of threads,        *)
(* usercalls and objects.  PendingEvents: the event queues neither lose    *)
(* nor duplicate an event and never leave a wait sleeping on one.          *)
(* Streams: an open file descriptor keeps its meaning, and no usercall     *)
(* sleeps on a stream without somebody who is going to wake it.            *)
(***************************************************************************)
EXTENDS PendingEvents, Streams, TLAPS

-----------------------------------------------------------------------------
(***************************************************************************)
(* PendingEvents                                                           *)
(***************************************************************************)
\* The inductive invariant: the two properties hold each other up, since a
\* wait may only be handed a permit that is then accounted for.
QueueInv == TypeOK /\ EventsConserved /\ NoMissedEvent

\* PendingEvents::new satisfies the invariant.
LEMMA InitQueueInv == PendingInit => QueueInv
<1> SUFFICES ASSUME PendingInit PROVE QueueInv
  OBVIOUS
<1>1. TypeOK
  BY DEF PendingInit, TypeOK
<1>2. EventsConserved
  BY DEF PendingInit, EventsConserved
<1>3. NoMissedEvent
  BY DEF PendingInit, NoMissedEvent, Blocked
<1> QED
  BY <1>1, <1>2, <1>3 DEF QueueInv

\* The events that a mask matches are events.
LEMMA MatchingEvents == \A m : Matching(m) \subseteq Events
BY DEF Matching

\* Consuming an available event on a thread that is not blocked.
LEMMA ConsumeInv ==
    ASSUME QueueInv, NEW t \in Tcs, phase[t] = "running", NEW e \in Events, counts[t][e] > 0,
           Consume(t, e), Return(t, FALSE), UNCHANGED <<granted, aborted>>,
           mask' = [mask EXCEPT ![t] = {}]
    PROVE  QueueInv'
<1> USE DEF QueueInv
<1>1. granted[t] = {} /\ granted' = granted
  BY DEF NoMissedEvent, Blocked
<1>2. owed[t][e] = counts[t][e]
  BY <1>1 DEF EventsConserved, TypeOK
<1>3. counts' = [counts EXCEPT ![t][e] = @ - 1] /\ owed' = [owed EXCEPT ![t][e] = @ - 1]
  BY DEF Consume
<1>4. counts[t][e] - 1 \in Nat /\ counts[t] \in [Events -> Nat] /\ owed[t] \in [Events -> Nat]
  BY DEF TypeOK
<1>5. counts' \in [Tcs -> [Events -> Nat]] /\ owed' \in [Tcs -> [Events -> Nat]]
  BY <1>2, <1>3, <1>4 DEF TypeOK
<1>6. TypeOK'
  BY <1>5 DEF TypeOK, Return
<1>7. /\ counts'[t][e] = counts[t][e] - 1 /\ owed'[t][e] = owed[t][e] - 1
      /\ \A u \in Tcs, f \in Events : u # t \/ f # e =>
            counts'[u][f] = counts[u][f] /\ owed'[u][f] = owed[u][f]
  BY <1>3 DEF TypeOK
<1>8. EventsConserved'
  <2> SUFFICES ASSUME NEW u \in Tcs, NEW f \in Events
               PROVE  owed'[u][f] = counts'[u][f] + (IF f \in granted[u] THEN 1 ELSE 0)
    BY <1>1 DEF EventsConserved
  <2>1. CASE u = t /\ f = e
    BY <1>1, <1>2, <1>4, <1>7, <2>1
  <2>2. CASE u # t \/ f # e
    BY <1>7, <2>2 DEF EventsConserved
  <2> QED
    BY <2>1, <2>2
<1>9. NoMissedEvent'
  <2> SUFFICES ASSUME NEW u \in Tcs
               PROVE  /\ ~Blocked(u)' => granted[u] = {}
                      /\ Blocked(u)' =>
                          \A f \in Matching(mask[u]') : counts'[u][f] > 0 => f \in granted[u]
    BY <1>1 DEF NoMissedEvent
  <2>1. CASE u = t
    BY <1>1, <2>1 DEF Return, TypeOK, Blocked
  <2>2. CASE u # t
    <3>1. phase[u]' = phase[u] /\ mask[u]' = mask[u]
      BY <2>2 DEF Return, TypeOK
    <3>2. \A f \in Matching(mask[u]) : counts'[u][f] = counts[u][f]
      BY <1>7, <2>2, MatchingEvents
    <3> QED
      BY <3>1, <3>2 DEF NoMissedEvent, Blocked
  <2> QED
    BY <2>1, <2>2
<1> QED
  BY <1>6, <1>8, <1>9

\* A thread that has no permits returns, or waits for events none of which is
\* available.
LEMMA QuietInv ==
    ASSUME QueueInv, NEW t \in Tcs, granted[t] = {}, UNCHANGED <<counts, granted, owed>>,
           aborted' \in BOOLEAN,
           NEW p \in {"running", "waiting", "expired", "stopped"}, phase' = [phase EXCEPT ![t] = p],
           NEW m \in SUBSET Bits, mask' = [mask EXCEPT ![t] = m],
           NEW to \in BOOLEAN, timed' = [timed EXCEPT ![t] = to],
           p \in {"waiting", "expired"} => \A e \in Matching(m) : ~(counts[t][e] > 0)
    PROVE  QueueInv'
<1> USE DEF QueueInv
<1>1. TypeOK'
  BY DEF TypeOK
<1>2. EventsConserved'
  BY DEF EventsConserved
<1>3. NoMissedEvent'
  BY DEF NoMissedEvent, TypeOK, Blocked
<1> QED
  BY <1>1, <1>2, <1>3

\* A wait that does not block (take) preserves the invariant.
LEMMA TakeInv ==
    ASSUME QueueInv, NEW t \in Tcs, NEW m \in EventSets, Take(t, m)
    PROVE  QueueInv'
<1>1. m \in SUBSET Bits /\ phase[t] = "running"
  BY DEF Take, CheckEventSet
<1>2. granted[t] = {}
  BY <1>1 DEF QueueInv, NoMissedEvent, Blocked
<1>3. CASE \E e \in Matching(m) : counts[t][e] > 0 /\ Consume(t, e) /\ Return(t, FALSE)
  BY <1>1, <1>3, MatchingEvents, ConsumeInv DEF Take, Return
<1>4. CASE \E a \in BOOLEAN : Return(t, a) /\ UNCHANGED <<counts, owed>>
  <2>1. PICK a \in BOOLEAN : Return(t, a) /\ UNCHANGED <<counts, owed>>
    BY <1>4
  <2> DEFINE p == IF a THEN "stopped" ELSE "running"
  <2>2. phase' = [phase EXCEPT ![t] = p] /\ p \in {"running", "stopped"}
    BY <2>1 DEF Return
  <2>3. timed' = [timed EXCEPT ![t] = FALSE] /\ FALSE \in BOOLEAN
    BY <2>1 DEF Return
  <2>4. mask' = [mask EXCEPT ![t] = {}] /\ aborted' = aborted /\ granted' = granted
    BY <2>1 DEF Take, Return
  <2>5. aborted' \in BOOLEAN
    BY <2>4 DEF QueueInv, TypeOK
  <2> HIDE DEF p
  <2> QED
    BY <1>1, <1>2, <2>1, <2>2, <2>3, <2>4, <2>5, QuietInv
<1> QED
  BY <1>3, <1>4 DEF Take

\* The first poll of wait_for preserves the invariant: it blocks only when nothing matches.
LEMMA WaitForInv ==
    ASSUME QueueInv, NEW t \in Tcs, NEW m \in EventSets, NEW to \in BOOLEAN, WaitFor(t, m, to)
    PROVE  QueueInv'
<1>1. m \in SUBSET Bits /\ phase[t] = "running"
  BY DEF WaitFor, CheckEventSet
<1>2. granted[t] = {}
  BY <1>1 DEF QueueInv, NoMissedEvent, Blocked
<1>3. aborted' = aborted /\ granted' = granted
  BY DEF WaitFor
<1>4. aborted' \in BOOLEAN
  BY <1>3 DEF QueueInv, TypeOK
<1>5. CASE \E e \in Matching(m) : counts[t][e] > 0 /\ Consume(t, e) /\ Return(t, FALSE)
  BY <1>1, <1>3, <1>5, MatchingEvents, ConsumeInv DEF Return
<1>6. CASE Return(t, TRUE) /\ UNCHANGED <<counts, owed>>
  <2>1. /\ phase' = [phase EXCEPT ![t] = "stopped"] /\ timed' = [timed EXCEPT ![t] = FALSE]
        /\ mask' = [mask EXCEPT ![t] = {}]
    BY <1>6 DEF Return
  <2> QED
    BY <1>1, <1>2, <1>3, <1>4, <1>6, <2>1, QuietInv
<1>7. CASE /\ {e \in Matching(m) : counts[t][e] > 0} = {}
           /\ phase' = [phase EXCEPT ![t] = "waiting"]
           /\ mask' = [mask EXCEPT ![t] = m]
           /\ timed' = [timed EXCEPT ![t] = to]
           /\ UNCHANGED <<counts, owed>>
  <2>1. \A e \in Matching(m) : ~(counts[t][e] > 0)
    BY <1>7
  <2> QED
    BY <1>1, <1>2, <1>3, <1>4, <1>7, <2>1, QuietInv
<1> QED
  BY <1>5, <1>6, <1>7 DEF WaitFor

\* A blocked wait ends: of the permits it was handed, those in `back' return to
\* the semaphore and the others were delivered.
LEMMA UnblockInv ==
    ASSUME QueueInv, NEW t \in Tcs, NEW back \in SUBSET Events, back \subseteq granted[t],
           GiveBack(t, back), granted' = [granted EXCEPT ![t] = {}],
           owed' = [owed EXCEPT ![t] =
                      [e \in Events |-> @[e] - IF e \in granted[t] \ back THEN 1 ELSE 0]],
           UNCHANGED aborted, NEW a \in BOOLEAN, Return(t, a)
    PROVE  QueueInv'
<1> USE DEF QueueInv
<1>1. /\ counts[t] \in [Events -> Nat] /\ owed[t] \in [Events -> Nat]
      /\ \A e \in Events : owed[t][e] = counts[t][e] + (IF e \in granted[t] THEN 1 ELSE 0)
  BY DEF TypeOK, EventsConserved
<1>2. /\ counts'[t] = [e \in Events |-> counts[t][e] + IF e \in back THEN 1 ELSE 0]
      /\ owed'[t] = [e \in Events |-> owed[t][e] - IF e \in granted[t] \ back THEN 1 ELSE 0]
      /\ granted'[t] = {}
      /\ \A u \in Tcs \ {t} : counts'[u] = counts[u] /\ owed'[u] = owed[u] /\ granted'[u] = granted[u]
  BY DEF GiveBack, TypeOK
<1>3. ASSUME NEW e \in Events
      PROVE  /\ counts'[t][e] = counts[t][e] + IF e \in back THEN 1 ELSE 0
             /\ owed'[t][e] = counts'[t][e]
             /\ counts'[t][e] \in Nat
  BY <1>1, <1>2
<1>4. counts' \in [Tcs -> [Events -> Nat]] /\ owed' \in [Tcs -> [Events -> Nat]]
  <2>1. counts'[t] \in [Events -> Nat] /\ owed'[t] \in [Events -> Nat]
    BY <1>2, <1>3
  <2> QED
    BY <2>1 DEF GiveBack, TypeOK
<1>5. granted' \in [Tcs -> SUBSET Events]
  BY DEF TypeOK
<1>6. TypeOK'
  BY <1>4, <1>5 DEF TypeOK, Return
<1>7. EventsConserved'
  <2> SUFFICES ASSUME NEW u \in Tcs, NEW e \in Events
               PROVE  owed'[u][e] = counts'[u][e] + (IF e \in granted'[u] THEN 1 ELSE 0)
    BY DEF EventsConserved
  <2>1. CASE u = t
    BY <1>2, <1>3, <2>1
  <2>2. CASE u # t
    BY <1>2, <2>2 DEF EventsConserved
  <2> QED
    BY <2>1, <2>2
<1>8. NoMissedEvent'
  <2>1. /\ phase[t]' \notin {"waiting", "expired"}
        /\ \A u \in Tcs \ {t} : phase[u]' = phase[u] /\ mask[u]' = mask[u]
    BY DEF Return, TypeOK
  <2> QED
    BY <1>2, <2>1 DEF NoMissedEvent, Blocked
<1> QED
  BY <1>6, <1>7, <1>8

\* A wait that delivers nothing gives back all it was handed.
LEMMA AllBackInv ==
    ASSUME QueueInv, NEW t \in Tcs, GiveBack(t, granted[t]),
           granted' = [granted EXCEPT ![t] = {}], UNCHANGED <<aborted, owed>>,
           NEW a \in BOOLEAN, Return(t, a)
    PROVE  QueueInv'
<1>1. granted[t] \in SUBSET Events /\ owed[t] \in [Events -> Nat] /\ owed \in [Tcs -> [Events -> Nat]]
  BY DEF QueueInv, TypeOK
<1>2. [e \in Events |-> owed[t][e] - IF e \in granted[t] \ granted[t] THEN 1 ELSE 0] = owed[t]
  BY <1>1
<1>3. owed' = [owed EXCEPT ![t] =
                [e \in Events |-> @[e] - IF e \in granted[t] \ granted[t] THEN 1 ELSE 0]]
  BY <1>1, <1>2
<1> QED
  BY <1>1, <1>3, UnblockInv

\* A woken wait_for consumes one permit and gives the others back.
LEMMA WokenInv ==
    ASSUME QueueInv, NEW t \in Tcs, Woken(t)
    PROVE  QueueInv'
<1>1. granted[t] \in SUBSET Events /\ owed[t] \in [Events -> Nat] /\ owed \in [Tcs -> [Events -> Nat]]
  BY DEF QueueInv, TypeOK
<1>2. granted' = [granted EXCEPT ![t] = {}] /\ UNCHANGED aborted
  BY DEF Woken
<1>3. CASE GiveBack(t, granted[t]) /\ Return(t, TRUE) /\ UNCHANGED owed
  BY <1>2, <1>3, AllBackInv
<1>4. ASSUME NEW e \in granted[t], GiveBack(t, granted[t] \ {e}),
             owed' = [owed EXCEPT ![t][e] = @ - 1], Return(t, FALSE)
      PROVE  QueueInv'
  <2>1. granted[t] \ (granted[t] \ {e}) = {e}
    BY <1>4
  <2>2. [f \in Events |-> owed[t][f] - IF f \in {e} THEN 1 ELSE 0]
          = [owed[t] EXCEPT ![e] = owed[t][e] - 1]
    <3>1. \A f \in Events : owed[t][f] - 0 = owed[t][f]
      BY <1>1
    <3>2. \A f \in Events : owed[t][f] - (IF f \in {e} THEN 1 ELSE 0)
                            = IF f = e THEN owed[t][e] - 1 ELSE owed[t][f]
      BY <3>1
    <3> QED
      BY <1>1, <3>2
  <2>3. owed' = [owed EXCEPT ![t] = [owed[t] EXCEPT ![e] = owed[t][e] - 1]]
    BY <1>1, <1>4
  <2>4. owed' = [owed EXCEPT ![t] = [f \in Events |->
                   @[f] - IF f \in granted[t] \ (granted[t] \ {e}) THEN 1 ELSE 0]]
    BY <1>1, <2>1, <2>2, <2>3
  <2>5. granted[t] \ {e} \in SUBSET Events /\ granted[t] \ {e} \subseteq granted[t] /\ FALSE \in BOOLEAN
    BY <1>1
  <2> QED
    BY <1>2, <1>4, <2>4, <2>5, UnblockInv
<1> QED
  BY <1>3, <1>4 DEF Woken

\* Handing a permit to a queued future or making it available.
LEMMA PushInv ==
    ASSUME QueueInv, NEW ts \in SUBSET Tcs, NEW e \in Events, Push(ts, e),
           UNCHANGED <<aborted, phase, mask, timed>>
    PROVE  QueueInv'
<1> USE DEF QueueInv
<1> DEFINE Accepted(t) == t \in ts /\ counts[t][e] < MaxPermits
<1>1. /\ counts' = [t \in Tcs |-> [counts[t] EXCEPT
                      ![e] = IF Accepted(t) /\ ~Queued(t, e) THEN counts[t][e] + 1 ELSE counts[t][e]]]
      /\ granted' = [t \in Tcs |-> IF Accepted(t) /\ Queued(t, e) THEN granted[t] \union {e}
                                                                ELSE granted[t]]
      /\ owed' = [t \in Tcs |-> [owed[t] EXCEPT
                      ![e] = IF Accepted(t) THEN owed[t][e] + 1 ELSE owed[t][e]]]
  BY DEF Push
<1>2. \A t \in Tcs : counts[t] \in [Events -> Nat] /\ owed[t] \in [Events -> Nat]
                     /\ granted[t] \in SUBSET Events
  BY DEF TypeOK
<1>3. ASSUME NEW t \in Tcs
      PROVE  /\ counts'[t][e] = IF Accepted(t) /\ ~Queued(t, e) THEN counts[t][e] + 1 ELSE counts[t][e]
             /\ owed'[t][e] = IF Accepted(t) THEN owed[t][e] + 1 ELSE owed[t][e]
             /\ granted'[t] = IF Accepted(t) /\ Queued(t, e) THEN granted[t] \union {e} ELSE granted[t]
             /\ \A f \in Events \ {e} : counts'[t][f] = counts[t][f] /\ owed'[t][f] = owed[t][f]
             /\ counts'[t] \in [Events -> Nat] /\ owed'[t] \in [Events -> Nat]
             /\ granted'[t] \in SUBSET Events
  <2> HIDE DEF Accepted
  <2> QED
    BY <1>1, <1>2
<1> HIDE DEF Accepted
<1>4. TypeOK'
  <2>1. counts' \in [Tcs -> [Events -> Nat]] /\ owed' \in [Tcs -> [Events -> Nat]]
        /\ granted' \in [Tcs -> SUBSET Events]
    BY <1>1, <1>3
  <2> QED
    BY <2>1 DEF TypeOK
<1>5. EventsConserved'
  <2> SUFFICES ASSUME NEW t \in Tcs, NEW f \in Events
               PROVE  owed'[t][f] = counts'[t][f] + (IF f \in granted'[t] THEN 1 ELSE 0)
    BY DEF EventsConserved
  <2>1. owed[t][f] = counts[t][f] + (IF f \in granted[t] THEN 1 ELSE 0)
    BY DEF EventsConserved
  <2>2. CASE f = e
    <3>1. Queued(t, e) => e \notin granted[t]
      BY DEF Queued
    <3>2. owed[t][e] \in Nat /\ counts[t][e] \in Nat
      BY <1>2
    <3>3. CASE Accepted(t) /\ Queued(t, e)
      <4>1. /\ counts'[t][e] = counts[t][e] /\ owed'[t][e] = owed[t][e] + 1 /\ e \in granted'[t]
            /\ owed[t][e] = counts[t][e] + 0
        BY <1>3, <2>1, <2>2, <3>1, <3>3
      <4> QED
        BY <2>2, <3>2, <4>1
    <3>4. CASE Accepted(t) /\ ~Queued(t, e)
      <4>1. /\ counts'[t][e] = counts[t][e] + 1 /\ owed'[t][e] = owed[t][e] + 1
            /\ granted'[t] = granted[t]
        BY <1>3, <3>4
      <4> QED
        BY <2>1, <2>2, <3>2, <4>1
    <3>5. CASE ~Accepted(t)
      <4>1. /\ counts'[t][e] = counts[t][e] /\ owed'[t][e] = owed[t][e]
            /\ granted'[t] = granted[t]
        BY <1>3, <3>5
      <4> QED
        BY <2>1, <2>2, <4>1
    <3> QED
      BY <3>3, <3>4, <3>5
  <2>3. CASE f # e
    <3>1. counts'[t][f] = counts[t][f] /\ owed'[t][f] = owed[t][f]
      BY <1>3, <2>3
    <3>2. granted'[t] = granted[t] \/ granted'[t] = granted[t] \union {e}
      BY <1>3
    <3>3. f \in granted'[t] <=> f \in granted[t]
      BY <2>3, <3>2, Zenon
    <3> QED
      BY <2>1, <3>1, <3>3
  <2> QED
    BY <2>2, <2>3
<1>6. NoMissedEvent'
  <2> SUFFICES ASSUME NEW t \in Tcs
               PROVE  /\ ~Blocked(t) => granted'[t] = {}
                      /\ Blocked(t) =>
                          \A f \in Matching(mask[t]) : counts'[t][f] > 0 => f \in granted'[t]
    BY DEF NoMissedEvent, Blocked
  <2>1. ~Blocked(t) => granted'[t] = {}
    BY <1>3 DEF NoMissedEvent, Queued
  <2>2. ASSUME Blocked(t), NEW f \in Matching(mask[t]), counts'[t][f] > 0
        PROVE  f \in granted'[t]
    <3>1. counts[t][f] > 0 => f \in granted'[t]
      BY <1>3, <2>2 DEF NoMissedEvent
    <3>2. CASE f = e /\ Accepted(t) /\ ~Queued(t, e)
      BY <1>3, <2>2, <3>2 DEF Queued
    <3>3. CASE ~(f = e /\ Accepted(t) /\ ~Queued(t, e))
      <4>1. counts'[t][f] = counts[t][f]
        BY <1>3, <2>2, <3>3, MatchingEvents
      <4> QED
        BY <2>2, <3>1, <4>1
    <3> QED
      BY <3>2, <3>3
  <2> QED
    BY <2>1, <2>2
<1> QED
  BY <1>4, <1>5, <1>6

\* Every step preserves the invariant.
LEMMA StepQueueInv == QueueInv /\ [PendingNext]_pendingVars => QueueInv'
<1> SUFFICES ASSUME QueueInv, [PendingNext]_pendingVars PROVE QueueInv'
  OBVIOUS
<1>1. CASE UNCHANGED pendingVars
  BY <1>1 DEF pendingVars, QueueInv, TypeOK, EventsConserved, NoMissedEvent, Blocked
<1>2. ASSUME NEW t \in Tcs, WaitForNothing(t) PROVE QueueInv'
  <2>1. /\ phase' = [phase EXCEPT ![t] = "stopped"] /\ timed' = [timed EXCEPT ![t] = FALSE]
        /\ mask' = [mask EXCEPT ![t] = {}]
        /\ UNCHANGED <<counts, granted, aborted, owed>>
    BY <1>2 DEF WaitForNothing, Return
  <2>2. granted[t] = {} /\ aborted' \in BOOLEAN
    BY <1>2, <2>1 DEF WaitForNothing, QueueInv, NoMissedEvent, Blocked, TypeOK
  <2> QED
    BY <2>1, <2>2, QuietInv
<1>3. ASSUME NEW t \in Tcs, TimedOut(t) PROVE QueueInv'
  <2>1. /\ phase' = [phase EXCEPT ![t] = "expired"] /\ phase[t] = "waiting"
        /\ granted[t] = {} /\ UNCHANGED <<counts, granted, aborted, mask, timed, owed>>
    BY <1>3 DEF TimedOut
  <2>2. mask' = [mask EXCEPT ![t] = mask[t]] /\ mask[t] \in SUBSET Bits /\ aborted' \in BOOLEAN
    BY <2>1 DEF QueueInv, TypeOK
  <2>3. timed' = [timed EXCEPT ![t] = timed[t]] /\ timed[t] \in BOOLEAN
    BY <2>1 DEF QueueInv, TypeOK
  <2>4. \A e \in Matching(mask[t]) : ~(counts[t][e] > 0)
    BY <2>1 DEF QueueInv, NoMissedEvent, Blocked
  <2> QED
    BY <2>1, <2>2, <2>3, <2>4, QuietInv
<1>4. ASSUME NEW t \in Tcs, DropWait(t) PROVE QueueInv'
  BY <1>4, AllBackInv DEF DropWait
<1>5. ASSUME NEW t \in Tcs, Abort(t) PROVE QueueInv'
  <2>1. /\ phase' = [phase EXCEPT ![t] = "stopped"] /\ timed' = [timed EXCEPT ![t] = FALSE]
        /\ mask' = [mask EXCEPT ![t] = {}]
        /\ UNCHANGED <<counts, granted, owed>> /\ aborted' \in BOOLEAN
    BY <1>5 DEF Abort, Return
  <2>2. granted[t] = {}
    BY <1>5 DEF Abort, QueueInv, NoMissedEvent, Blocked
  <2> QED
    BY <2>1, <2>2, QuietInv
<1>6. ASSUME NEW t \in Tcs, NEW set \in EventSets, NEW target \in Targets, Send(t, set, target)
      PROVE  QueueInv'
  <2>1. target \in SUBSET Tcs /\ set \in Events
    <3>1. set \subseteq Bits /\ set # {}
      BY <1>6 DEF Send, CheckEventSet
    <3>2. set \in Events
      BY <3>1 DEF Events
    <3>3. target \in SUBSET Tcs
      BY DEF Targets
    <3> QED
      BY <3>2, <3>3
  <2> QED
    BY <1>6, <2>1, PushInv DEF Send
<1> QED
  BY <1>1, <1>2, <1>3, <1>4, <1>5, <1>6, TakeInv, WaitForInv, WokenInv
  DEF PendingNext, WaitInvalid, SendInvalid

\* The type of the queues and of the waits.
THEOREM PendingTypeCorrectness == PendingSpec => []TypeOK
<1>1. QueueInv => TypeOK
  BY DEF QueueInv
<1> QED
  BY <1>1, InitQueueInv, StepQueueInv, PTL DEF PendingSpec

\* No event is lost or delivered twice, for any threads, bits and limit.
THEOREM Conservation == PendingSpec => []EventsConserved
<1>1. QueueInv => EventsConserved
  BY DEF QueueInv
<1> QED
  BY <1>1, InitQueueInv, StepQueueInv, PTL DEF PendingSpec

\* A blocked wait has been handed every kind of matching event there is.
THEOREM NoSleepOnEvent == PendingSpec => []NoMissedEvent
<1>1. QueueInv => NoMissedEvent
  BY DEF QueueInv
<1> QED
  BY <1>1, InitQueueInv, StepQueueInv, PTL DEF PendingSpec

\* Once the enclave is aborting, no step delivers an event.
THEOREM AbortPrecedence == PendingSpec => NoEventAfterAbort
<1>1. QueueInv /\ [PendingNext]_pendingVars =>
        [aborted => \A t \in Tcs, e \in Events : owed[t][e]' >= owed[t][e]]_pendingVars
  <2> SUFFICES ASSUME QueueInv, PendingNext, aborted, NEW t \in Tcs, NEW e \in Events
               PROVE  owed[t][e]' >= owed[t][e]
    OBVIOUS
  <2>1. owed \in [Tcs -> [Events -> Nat]]
    BY DEF QueueInv, TypeOK
  <2>2. ASSUME UNCHANGED owed PROVE owed[t][e]' >= owed[t][e]
    BY <2>1, <2>2
  <2>3. ASSUME NEW s \in Tcs, NEW set \in EventSets, NEW target \in Targets, Send(s, set, target)
        PROVE  owed[t][e]' >= owed[t][e]
    BY <2>1, <2>3 DEF Send, Push
  <2> QED
    BY <2>2, <2>3 DEF PendingNext, WaitInvalid, SendInvalid, WaitForNothing, Take, WaitFor, Woken,
       TimedOut, DropWait, Abort, pendingVars
<1> QED
  BY <1>1, InitQueueInv, StepQueueInv, PTL DEF PendingSpec, NoEventAfterAbort

-----------------------------------------------------------------------------
(***************************************************************************)
(* Streams                                                                 *)
(***************************************************************************)
Waiting == {"poll", "sleep"}
Opening == {"alloc", "insert"}

StreamsTypeOK ==
    /\ fds \in [Fds -> Objects \union {None}]
    /\ last_fd \in Fds
    /\ kinds \in [Objects -> Kinds \union {None}]
    /\ queue \in [Objects -> [Ops -> SUBSET Tasks]]
    /\ waker \in [Objects -> [Ops -> Tasks \union {None}]]
    /\ ready \in [Objects -> [Ops -> Nat]]
    /\ failed \in [Objects -> {"no", "pending", "yes"}]
    /\ arrivals \in Nat
    /\ pc \in [Tasks -> Waiting \union Opening \union {"idle"}]
    /\ op \in [Tasks -> Ops \union Kinds \union {None}]
    /\ obj \in [Tasks -> Objects \union {None}]
    /\ fd \in [Tasks -> Fds \union {None}]

-----------------------------------------------------------------------------
(***************************************************************************)
(* Invariants                                                              *)
(***************************************************************************)
\* What the locals of a usercall are at each of its awaits.
LocalsInv ==
    \A t \in Tasks :
        /\ pc[t] \in Waiting => obj[t] \in Objects /\ op[t] \in Ops
        /\ pc[t] \notin Waiting => obj[t] = None
        /\ pc[t] \in Opening => op[t] \in {"stream", "listener"}

\* FdsKept needs that the numbers between the two halves of alloc_fd are unused,
\* belong to one usercall each, and are behind the counter, as all numbers in
\* the table are.
NumbersInv ==
    /\ \A f \in Fds : f > last_fd => fds[f] = None
    /\ \A t \in Tasks : pc[t] = "insert" =>
        /\ fd[t] \in Fds
        /\ fd[t] <= last_fd
        /\ fds[fd[t]] = None
    /\ \A t, u \in Tasks : pc[t] = "insert" /\ pc[u] = "insert" /\ fd[t] = fd[u] => t = u

FdInv == StreamsTypeOK /\ LocalsInv /\ NumbersInv

\* SleepersKnown, one task at a time.
Asleep(t, o, d) == pc[t] = "sleep" /\ obj[t] = o /\ op[t] = d
Polling(t, o, d) == pc[t] = "poll" /\ obj[t] = o /\ op[t] = d

Sleeps(t, o, d) == failed[o] = "no" /\ Asleep(t, o, d)

WaitsInQueue(o, d) == \A t \in Tasks : Sleeps(t, o, d) => t \in queue[o][d]

\* The waker in the socket is one of the sleepers, unless somebody is about to
\* poll: a socket keeps one waker only.
Rescued(o, d) ==
    \A t \in Tasks : Sleeps(t, o, d) =>
        \/ \E u \in Tasks : Polling(u, o, d)
        \/ ready[o][d] = 0 /\ \E u \in Tasks : waker[o][d] = u /\ Asleep(u, o, d)

\* An operation that standard input does not have fails without waiting.  This
\* matters since an operation that fails wakes nobody.
Waitable(o, d) == \A t \in Tasks : Sleeps(t, o, d) => ~(kinds[o] = "stdin" /\ d # "read")

WaitInv(o, d) == WaitsInQueue(o, d) /\ Rescued(o, d) /\ Waitable(o, d)

SleepInv == FdInv /\ \A o \in Objects, d \in Ops : WaitInv(o, d)

-----------------------------------------------------------------------------
(***************************************************************************)
(* Lemmas                                                                  *)
(***************************************************************************)
\* Waking tasks changes only that sleepers are polled.
LEMMA WokenFacts ==
    ASSUME StreamsTypeOK, NEW ts
    PROVE  /\ WokenTasks(ts) \in [Tasks -> Waiting \union Opening \union {"idle"}]
           /\ \A u \in Tasks : pc[u] # "sleep" => WokenTasks(ts)[u] = pc[u]
           /\ \A u \in Tasks : pc[u] = "sleep" =>
                WokenTasks(ts)[u] = IF u \in ts THEN "poll" ELSE "sleep"
BY DEF WokenTasks, StreamsTypeOK, Waiting

\* Of the other tasks, an operation that is done wakes exactly those that it
\* should, and the task itself has left the object.
LEMMA DoneWakes ==
    ASSUME StreamsTypeOK, NEW t \in Tasks, NEW o \in Objects, NEW d \in Ops, NEW ts,
           Done(t, o, d, ts)
    PROVE  /\ \A u \in Tasks : u # t =>
                pc'[u] = IF u \in ts /\ pc[u] = "sleep" THEN "poll" ELSE pc[u]
           /\ pc'[t] \in {"idle", "alloc"}
<1>1. \/ pc' = [WokenTasks(ts) EXCEPT ![t] = "alloc"]
      \/ pc' = [WokenTasks(ts) EXCEPT ![t] = "idle"]
    BY DEF Done, Returns
<1> QED
    BY <1>1 DEF WokenTasks

\* The types of what AllocFd and Init need of the bound.
LEMMA FdRange ==
    /\ 0 \in Fds
    /\ 1 \in Objects
    /\ None \notin Objects
    /\ \A f \in Fds : f \in Nat /\ (f < MaxObjects - 1 => f + 1 \in Fds)
BY StreamBoundsAssumption, StreamNoneAssumption DEF Fds, Objects

LEMMA InitSleepInv == Init => SleepInv
<1> SUFFICES ASSUME Init PROVE SleepInv
    OBVIOUS
<1>1. StreamsTypeOK
    BY FdRange DEF Init, StreamsTypeOK, Waiting, Opening, Kinds
<1>2. LocalsInv
    BY DEF Init, LocalsInv, Waiting, Opening
<1>3. NumbersInv
    BY FdRange DEF Init, NumbersInv
<1>4. \A o \in Objects, d \in Ops : WaitInv(o, d)
    BY DEF Init, WaitInv, WaitsInQueue, Rescued, Waitable, Sleeps, Asleep
<1> QED
    BY <1>1, <1>2, <1>3, <1>4 DEF SleepInv, FdInv

-----------------------------------------------------------------------------
(***************************************************************************)
(* Types, locals and numbers                                               *)
(***************************************************************************)
LEMMA TypeStep == StreamsTypeOK /\ LocalsInv /\ [Next]_vars => StreamsTypeOK'
<1> SUFFICES ASSUME StreamsTypeOK, LocalsInv, [Next]_vars PROVE StreamsTypeOK'
    OBVIOUS
<1> USE DEF Waiting, Opening, Kinds
<1>1. ASSUME NEW t \in Tasks, NEW k \in {"stream", "listener"}, Open(t, k)
      PROVE  StreamsTypeOK'
    BY <1>1 DEF Open, StreamsTypeOK, objectVars
<1>2. ASSUME NEW t \in Tasks, NEW f \in Fds, Close(t, f) PROVE StreamsTypeOK'
    BY <1>2 DEF Close, StreamsTypeOK, objectVars, taskVars
<1>3. ASSUME NEW t \in Tasks, NEW d \in Ops, NEW f \in Fds, Call(t, d, f)
      PROVE  StreamsTypeOK'
    BY <1>3 DEF Call, StreamsTypeOK, objectVars
<1>4. ASSUME NEW t \in Tasks, AllocFd(t) PROVE StreamsTypeOK'
    BY <1>4, FdRange DEF AllocFd, StreamsTypeOK, objectVars
<1>5. ASSUME NEW t \in Tasks, InsertFd(t) PROVE StreamsTypeOK'
    <2>1. PICK o \in Objects : /\ kinds' = [kinds EXCEPT ![o] = op[t]]
                               /\ fds' = [fds EXCEPT ![fd[t]] = o]
        BY <1>5 DEF InsertFd
    <2>2. op[t] \in Kinds
        BY <1>5 DEF InsertFd, LocalsInv
    <2>3. /\ kinds' \in [Objects -> Kinds \union {None}]
          /\ fds' \in [Fds -> Objects \union {None}]
        BY <2>1, <2>2 DEF StreamsTypeOK
    <2> QED
        BY <1>5, <2>3 DEF InsertFd, Returns, StreamsTypeOK
<1>6. ASSUME NEW t \in Tasks, NEW o \in Objects, NEW d \in Ops, PollPending(t, o, d)
      PROVE  StreamsTypeOK'
    BY <1>6 DEF PollPending, Polls, StreamsTypeOK
<1>7. ASSUME NEW t \in Tasks, NEW o \in Objects, NEW d \in Ops, PollReady(t, o, d)
      PROVE  StreamsTypeOK'
    <2>1. pc' \in [Tasks -> Waiting \union Opening \union {"idle"}]
        BY <1>7, WokenFacts DEF PollReady, Done, Returns
    <2>2. /\ op' \in [Tasks -> Ops \union Kinds \union {None}]
          /\ obj' \in [Tasks -> Objects \union {None}]
        BY <1>7 DEF PollReady, Done, Returns, StreamsTypeOK
    <2>3. waker' \in [Objects -> [Ops -> Tasks \union {None}]]
        BY <1>7 DEF PollReady, Done, StreamsTypeOK
    <2>4. ready' \in [Objects -> [Ops -> Nat]]
        <3>1. ready[o][d] \in Nat
            BY DEF StreamsTypeOK
        <3>2. (IF ready[o][d] > 0 THEN ready[o][d] - 1 ELSE 0) \in Nat
            BY <3>1
        <3> QED
            BY <1>7, <3>2 DEF PollReady, StreamsTypeOK
    <2>5. queue' \in [Objects -> [Ops -> SUBSET Tasks]]
        BY <1>7 DEF PollReady, StreamsTypeOK
    <2> QED
        BY <1>7, <2>1, <2>2, <2>3, <2>4, <2>5 DEF PollReady, Polls, StreamsTypeOK
<1>8. ASSUME NEW t \in Tasks, NEW o \in Objects, NEW d \in Ops, PollError(t, o, d)
      PROVE  StreamsTypeOK'
    BY <1>8 DEF PollError, Polls, Returns, StreamsTypeOK
<1>9. ASSUME NEW o \in Objects, NEW d \in Ops, Arrive(o, d) PROVE StreamsTypeOK'
    <2>1. pc' \in [Tasks -> Waiting \union Opening \union {"idle"}]
        BY <1>9, WokenFacts DEF Arrive
    <2>2. ready' \in [Objects -> [Ops -> Nat]]
        <3>1. ready[o][d] + 1 \in Nat
            BY DEF StreamsTypeOK
        <3> QED
            BY <1>9, <3>1 DEF Arrive, StreamsTypeOK
    <2>3. arrivals' \in Nat
        BY <1>9 DEF Arrive, StreamsTypeOK
    <2> QED
        BY <1>9, <2>1, <2>2, <2>3 DEF Arrive, StreamsTypeOK
<1>10. ASSUME NEW o \in Objects, Break(o) PROVE StreamsTypeOK'
    <2>1. pc' \in [Tasks -> Waiting \union Opening \union {"idle"}]
        BY <1>10, WokenFacts DEF Break
    <2> QED
        BY <1>10, <2>1 DEF Break, StreamsTypeOK
<1>11. CASE UNCHANGED vars
    BY <1>11 DEF vars, objectVars, taskVars, StreamsTypeOK
<1> QED
    BY <1>1, <1>2, <1>3, <1>4, <1>5, <1>6, <1>7, <1>8, <1>9, <1>10, <1>11
    DEF Next, UsercallStarts, TaskStep, Poll, SocketStep

LEMMA FdStep == FdInv /\ [Next]_vars => LocalsInv' /\ NumbersInv'
<1> SUFFICES ASSUME FdInv, [Next]_vars PROVE LocalsInv' /\ NumbersInv'
    OBVIOUS
<1>0. StreamsTypeOK /\ LocalsInv /\ NumbersInv
    BY DEF FdInv
<1> USE <1>0 DEF Waiting, Opening
<1>1. ASSUME NEW t \in Tasks, NEW k \in {"stream", "listener"}, Open(t, k)
      PROVE  LocalsInv' /\ NumbersInv'
    BY <1>1 DEF Open, StreamsTypeOK, LocalsInv, NumbersInv
<1>2. ASSUME NEW t \in Tasks, NEW f \in Fds, Close(t, f)
      PROVE  LocalsInv' /\ NumbersInv'
    BY <1>2 DEF Close, StreamsTypeOK, LocalsInv, NumbersInv, taskVars
<1>3. ASSUME NEW t \in Tasks, NEW d \in Ops, NEW f \in Fds, Call(t, d, f)
      PROVE  LocalsInv' /\ NumbersInv'
    BY <1>3 DEF Call, StreamsTypeOK, LocalsInv, NumbersInv
<1>4. ASSUME NEW t \in Tasks, AllocFd(t) PROVE LocalsInv' /\ NumbersInv'
    <2>1. LocalsInv'
        BY <1>4 DEF AllocFd, StreamsTypeOK, LocalsInv
    <2>2. /\ last_fd + 1 \in Fds
          /\ fds[last_fd + 1] = None
          /\ last_fd \in Nat
        BY <1>4, FdRange DEF AllocFd, StreamsTypeOK, NumbersInv
    <2>3. /\ fds' = fds /\ last_fd' = last_fd + 1
          /\ fd'[t] = last_fd + 1
          /\ \A u \in Tasks : u # t => fd'[u] = fd[u] /\ pc'[u] = pc[u]
        BY <1>4 DEF AllocFd, StreamsTypeOK
    <2>4. \A f \in Fds : f > last_fd' => fds'[f] = None
        BY <2>2, <2>3, FdRange DEF NumbersInv
    <2>5. \A u \in Tasks : u # t /\ pc'[u] = "insert" =>
            fd[u] \in Fds /\ fd[u] <= last_fd /\ fds[fd[u]] = None
        BY <2>3 DEF NumbersInv
    <2>6. \A u \in Tasks : pc'[u] = "insert" =>
            fd'[u] \in Fds /\ fd'[u] <= last_fd' /\ fds'[fd'[u]] = None
        BY <2>2, <2>3, <2>5, FdRange
    <2>7. \A u \in Tasks : u # t /\ pc'[u] = "insert" => fd'[u] # fd'[t]
        BY <2>2, <2>3, <2>5, FdRange
    <2>8. NumbersInv'
        BY <2>3, <2>4, <2>6, <2>7 DEF NumbersInv
    <2> QED
        BY <2>1, <2>8
<1>5. ASSUME NEW t \in Tasks, InsertFd(t) PROVE LocalsInv' /\ NumbersInv'
    <2>1. LocalsInv'
        BY <1>5 DEF InsertFd, Returns, StreamsTypeOK, LocalsInv
    <2>2. PICK o \in Objects : fds' = [fds EXCEPT ![fd[t]] = o]
        BY <1>5 DEF InsertFd
    <2>3. /\ pc' = [pc EXCEPT ![t] = "idle"]
          /\ fd' = [fd EXCEPT ![t] = None]
          /\ last_fd' = last_fd
          /\ pc[t] = "insert"
        BY <1>5 DEF InsertFd, Returns
    <2>4. /\ fd[t] \in Fds /\ fd[t] <= last_fd
          /\ \A f \in Fds : f # fd[t] => fds'[f] = fds[f]
          /\ \A u \in Tasks : u # t => fd'[u] = fd[u] /\ pc'[u] = pc[u]
          /\ pc'[t] = "idle"
        BY <2>2, <2>3 DEF StreamsTypeOK, NumbersInv
    <2>5. \A f \in Fds : f > last_fd' => fds'[f] = None
        <3> SUFFICES ASSUME NEW f \in Fds, f > last_fd PROVE fds'[f] = None
            BY <2>3
        <3>1. f \in Nat /\ last_fd \in Nat /\ fd[t] \in Nat
            BY <2>4, FdRange DEF StreamsTypeOK
        <3>2. f # fd[t]
            BY <2>4, <3>1
        <3> QED
            BY <2>4, <3>2 DEF NumbersInv
    <2>6. \A u \in Tasks : pc'[u] = "insert" => u # t /\ fd[u] # fd[t]
        BY <2>3, <2>4 DEF NumbersInv
    <2>7. \A u \in Tasks : pc'[u] = "insert" =>
            fd'[u] \in Fds /\ fd'[u] <= last_fd' /\ fds'[fd'[u]] = None
        BY <2>3, <2>4, <2>6 DEF NumbersInv
    <2>8. \A u, v \in Tasks : pc'[u] = "insert" /\ pc'[v] = "insert" /\ fd'[u] = fd'[v] => u = v
        BY <2>4, <2>6 DEF NumbersInv
    <2> QED
        BY <2>1, <2>5, <2>7, <2>8 DEF NumbersInv
<1>6. ASSUME NEW t \in Tasks, NEW o \in Objects, NEW d \in Ops, PollPending(t, o, d)
      PROVE  LocalsInv' /\ NumbersInv'
    BY <1>6 DEF PollPending, Polls, StreamsTypeOK, LocalsInv, NumbersInv
<1>7. ASSUME NEW t \in Tasks, NEW o \in Objects, NEW d \in Ops, PollReady(t, o, d)
      PROVE  LocalsInv' /\ NumbersInv'
    <2>1. \A u \in Tasks : u # t => obj'[u] = obj[u] /\ op'[u] = op[u]
        BY <1>7 DEF PollReady, Done, Returns, StreamsTypeOK
    <2>2. /\ obj'[t] = None
          /\ pc'[t] \in {"idle", "alloc"}
          /\ pc'[t] = "alloc" => op'[t] = "stream"
        BY <1>7, WokenFacts DEF PollReady, Done, Returns, StreamsTypeOK
    <2>3. \A u \in Tasks : u # t => \/ pc'[u] = pc[u]
                                    \/ pc[u] = "sleep" /\ pc'[u] = "poll"
        BY <1>7, DoneWakes DEF PollReady
    <2>4. LocalsInv'
        BY <2>1, <2>2, <2>3 DEF LocalsInv
    <2>5. \A u \in Tasks : pc'[u] = "insert" => pc[u] = "insert"
        BY <2>2, <2>3
    <2>6. NumbersInv'
        BY <1>7, <2>5 DEF PollReady, Polls, NumbersInv
    <2> QED
        BY <2>4, <2>6
<1>8. ASSUME NEW t \in Tasks, NEW o \in Objects, NEW d \in Ops, PollError(t, o, d)
      PROVE  LocalsInv' /\ NumbersInv'
    BY <1>8 DEF PollError, Polls, Returns, StreamsTypeOK, LocalsInv, NumbersInv
<1>9. ASSUME NEW ts, pc' = WokenTasks(ts), UNCHANGED <<fds, last_fd, op, obj, fd>>
      PROVE  LocalsInv' /\ NumbersInv'
    <2>1. \A u \in Tasks : /\ pc'[u] \in Waiting <=> pc[u] \in Waiting
                           /\ pc'[u] \in Opening <=> pc[u] \in Opening
                           /\ pc'[u] = "insert" <=> pc[u] = "insert"
        BY <1>9, WokenFacts
    <2> QED
        BY <1>9, <2>1 DEF LocalsInv, NumbersInv
<1>10. ASSUME NEW o \in Objects, Break(o) \/ \E d \in Ops : Arrive(o, d)
       PROVE  LocalsInv' /\ NumbersInv'
    BY <1>9, <1>10 DEF Break, Arrive
<1>11. CASE UNCHANGED vars
    BY <1>11 DEF vars, taskVars, LocalsInv, NumbersInv
<1> QED
    BY <1>1, <1>2, <1>3, <1>4, <1>5, <1>6, <1>7, <1>8, <1>10, <1>11
    DEF Next, UsercallStarts, TaskStep, Poll, SocketStep

\* Every state has the right types, and the numbers of file descriptors that
\* alloc_fd has handed out are used by one usercall each.
THEOREM StreamsTypeCorrectness == Spec => [](StreamsTypeOK /\ NumbersInv)
<1>1. Init => FdInv
    BY InitSleepInv DEF SleepInv
<1>2. FdInv /\ [Next]_vars => FdInv'
    BY TypeStep, FdStep DEF FdInv
<1>3. FdInv => StreamsTypeOK /\ NumbersInv
    BY DEF FdInv
<1> QED
    BY <1>1, <1>2, <1>3, PTL DEF Spec

-----------------------------------------------------------------------------
(***************************************************************************)
(* The action property                                                     *)
(***************************************************************************)
\* An open file descriptor keeps naming the same stream until it is closed,
\* whatever usercalls allocate at the same time (alloc_fd): the number that is
\* inserted is not in the table.
THEOREM DescriptorsKept == Spec => FdsKept
<1>1. Init => FdInv
    BY InitSleepInv DEF SleepInv
<1>2. FdInv /\ [Next]_vars => FdInv'
    BY TypeStep, FdStep DEF FdInv
<1>3. FdInv /\ [Next]_vars => [\A f \in Fds : fds[f] # None => fds'[f] \in {fds[f], None}]_vars
    <2> SUFFICES ASSUME FdInv, Next, NEW f \in Fds, fds[f] # None
                 PROVE  fds'[f] \in {fds[f], None}
        OBVIOUS
    <2>1. ASSUME NEW t \in Tasks, InsertFd(t) PROVE fds'[f] = fds[f]
        <3>1. f # fd[t]
            BY <2>1 DEF InsertFd, FdInv, NumbersInv
        <3> QED
            BY <2>1, <3>1 DEF InsertFd, FdInv, StreamsTypeOK
    <2>2. ASSUME NEW t \in Tasks, NEW g \in Fds, Close(t, g)
          PROVE  fds'[f] \in {fds[f], None}
        BY <2>2 DEF Close, FdInv, StreamsTypeOK
    <2>3. fds' = fds \/ (\E t \in Tasks : InsertFd(t)) \/ \E t \in Tasks, g \in Fds : Close(t, g)
        <3>1. ASSUME NEW t \in Tasks, Poll(t) PROVE fds' = fds
            BY <3>1 DEF Poll, PollPending, PollReady, PollError, Polls
        <3>2. ASSUME SocketStep PROVE fds' = fds
            BY <3>2 DEF SocketStep, Break, Arrive
        <3>3. ASSUME NEW t \in Tasks, UsercallStarts(t)
              PROVE  fds' = fds \/ \E g \in Fds : Close(t, g)
            BY <3>3 DEF UsercallStarts, Open, Call
        <3>4. ASSUME NEW t \in Tasks, AllocFd(t) PROVE fds' = fds
            BY <3>4 DEF AllocFd
        <3> QED
            BY <3>1, <3>2, <3>3, <3>4 DEF Next, TaskStep
    <2> QED
        BY <2>1, <2>2, <2>3
<1> QED
    BY <1>1, <1>2, <1>3, PTL DEF Spec, FdsKept

-----------------------------------------------------------------------------
(***************************************************************************)
(* Sleepers                                                                *)
(***************************************************************************)
\* When tasks are only woken, or leave, and no poller leaves, nobody is stranded.
LEMMA StillRescued ==
    ASSUME NEW o \in Objects, NEW d \in Ops, WaitInv(o, d),
           failed'[o] = "no" => failed[o] = "no",
           queue'[o][d] = queue[o][d],
           kinds'[o] = kinds[o] \/ kinds'[o] # "stdin",
           \A u \in Tasks : Asleep(u, o, d)' => Asleep(u, o, d),
           \A u \in Tasks : Polling(u, o, d) => Polling(u, o, d)',
           \A u \in Tasks : Asleep(u, o, d) => Asleep(u, o, d)' \/ Polling(u, o, d)',
           \/ ready'[o][d] = ready[o][d] /\ waker'[o][d] = waker[o][d]
           \/ \A u \in Tasks : waker[o][d] = u /\ Asleep(u, o, d) => Polling(u, o, d)'
    PROVE  WaitInv(o, d)'
<1>1. WaitsInQueue(o, d)'
    BY DEF WaitInv, WaitsInQueue, Sleeps
<1>2. Waitable(o, d)'
    BY DEF WaitInv, Waitable, Sleeps
<1>3. Rescued(o, d)'
    <2> SUFFICES ASSUME NEW t \in Tasks, Sleeps(t, o, d)'
                 PROVE  \/ \E u \in Tasks : Polling(u, o, d)'
                        \/ ready'[o][d] = 0 /\ \E u \in Tasks : waker'[o][d] = u /\ Asleep(u, o, d)'
        BY DEF Rescued
    <2>1. Sleeps(t, o, d)
        BY DEF Sleeps
    <2>2. CASE \E u \in Tasks : Polling(u, o, d)
        BY <2>2
    <2>3. CASE ready[o][d] = 0 /\ \E u \in Tasks : waker[o][d] = u /\ Asleep(u, o, d)
        BY <2>3
    <2> QED
        BY <2>1, <2>2, <2>3 DEF WaitInv, Rescued
<1> QED
    BY <1>1, <1>2, <1>3 DEF WaitInv

\* A step that keeps the objects, and where every other task stays where it is,
\* while t is not waiting before or not sleeping after it.
LEMMA OthersRescued ==
    ASSUME NEW o \in Objects, NEW d \in Ops, WaitInv(o, d), NEW t \in Tasks,
           failed'[o] = failed[o], queue'[o][d] = queue[o][d],
           ready'[o][d] = ready[o][d], waker'[o][d] = waker[o][d],
           kinds'[o] = kinds[o] \/ kinds'[o] # "stdin",
           \A u \in Tasks : u # t => pc'[u] = pc[u] /\ obj'[u] = obj[u] /\ op'[u] = op[u],
           pc[t] # "sleep", pc'[t] # "sleep",
           ~Polling(t, o, d)
    PROVE  WaitInv(o, d)'
<1>1. \A u \in Tasks : /\ Asleep(u, o, d)' = Asleep(u, o, d)
                       /\ Polling(u, o, d) => Polling(u, o, d)'
    BY DEF Asleep, Polling
<1> QED
    BY <1>1, StillRescued

\* The steps of a usercall that does not wait for an object.
LEMMA AwayStep ==
    ASSUME SleepInv, NEW t \in Tasks, NEW o \in Objects, NEW d \in Ops,
           \/ UsercallStarts(t) \/ AllocFd(t) \/ InsertFd(t)
    PROVE  WaitInv(o, d)'
<1>0. StreamsTypeOK /\ LocalsInv /\ WaitInv(o, d)
    BY DEF SleepInv, FdInv
<1>1. ASSUME NEW k \in {"stream", "listener"}, Open(t, k) PROVE WaitInv(o, d)'
    <2>1. /\ pc[t] = "idle" /\ pc' = [pc EXCEPT ![t] = "alloc"]
          /\ op' = [op EXCEPT ![t] = k] /\ obj' = obj
          /\ UNCHANGED <<kinds, queue, waker, ready, failed>>
        BY <1>1 DEF Open, objectVars
    <2> QED
        BY <1>0, <2>1, OthersRescued DEF StreamsTypeOK, Polling
<1>2. CASE \E f \in Fds : Close(t, f)
    BY <1>0, <1>2, OthersRescued DEF Close, objectVars, taskVars, StreamsTypeOK, Polling
<1>3. ASSUME NEW e \in Ops, NEW f \in Fds, Call(t, e, f) PROVE WaitInv(o, d)'
    <2>1. /\ pc[t] = "idle" /\ pc' = [pc EXCEPT ![t] = "poll"]
          /\ op' = [op EXCEPT ![t] = e] /\ obj' = [obj EXCEPT ![t] = fds[f]]
          /\ UNCHANGED <<kinds, queue, waker, ready, failed>>
        BY <1>3 DEF Call, objectVars
    <2> QED
        BY <1>0, <2>1, OthersRescued DEF StreamsTypeOK, Polling
<1>4. CASE AllocFd(t)
    BY <1>0, <1>4, OthersRescued DEF AllocFd, objectVars, StreamsTypeOK, Polling
<1>5. CASE InsertFd(t)
    <2>1. kinds'[o] = kinds[o] \/ kinds'[o] # "stdin"
        BY <1>0, <1>5 DEF InsertFd, StreamsTypeOK, LocalsInv, Opening
    <2> QED
        BY <1>0, <1>5, <2>1, OthersRescued DEF InsertFd, Returns, StreamsTypeOK, Polling
<1> QED
    BY <1>1, <1>2, <1>3, <1>4, <1>5 DEF UsercallStarts

\* Poll::Pending: the socket keeps the waker of the task that has just polled,
\* and nothing has arrived.
LEMMA PendingStep ==
    ASSUME SleepInv, NEW t \in Tasks, NEW p \in Objects, NEW e \in Ops, PollPending(t, p, e),
           NEW o \in Objects, NEW d \in Ops
    PROVE  WaitInv(o, d)'
<1>0. StreamsTypeOK /\ WaitInv(o, d)
    BY DEF SleepInv, FdInv
<1>1. /\ \A u \in Tasks : u # t => pc'[u] = pc[u]
      /\ pc[t] = "poll" /\ pc'[t] = "sleep"
      /\ obj' = obj /\ op' = op /\ kinds' = kinds /\ failed' = failed /\ ready' = ready
      /\ obj[t] = p /\ op[t] = e
    BY <1>0 DEF PollPending, Polls, StreamsTypeOK
<1>2. CASE o = p /\ d = e
    <2>1. queue'[o][d] = queue[o][d] \union {t} /\ waker'[o][d] = t
        BY <1>0, <1>2 DEF PollPending, StreamsTypeOK
    <2>2. Asleep(t, o, d)'
        BY <1>1, <1>2 DEF Asleep
    <2>3. failed[o] = "no" => ready[o][d] = 0
        BY <1>0, <1>2 DEF PollPending, Succeeds, StreamsTypeOK
    <2>4. ~(kinds[o] = "stdin" /\ d # "read")
        BY <1>2 DEF PollPending, Fails
    <2>5. WaitsInQueue(o, d)'
        BY <1>0, <1>1, <2>1 DEF WaitInv, WaitsInQueue, Sleeps, Asleep
    <2>6. Rescued(o, d)'
        BY <1>1, <2>1, <2>2, <2>3 DEF Rescued, Sleeps
    <2>7. Waitable(o, d)'
        BY <1>1, <2>4 DEF Waitable
    <2> QED
        BY <2>5, <2>6, <2>7 DEF WaitInv
<1>3. CASE ~(o = p /\ d = e)
    <2>1. queue'[o][d] = queue[o][d] /\ waker'[o][d] = waker[o][d]
        BY <1>0, <1>3 DEF PollPending, StreamsTypeOK
    <2>2. \A u \in Tasks : /\ Asleep(u, o, d)' <=> Asleep(u, o, d)
                           /\ Polling(u, o, d)' <=> Polling(u, o, d)
        BY <1>1, <1>3 DEF Asleep, Polling
    <2> QED
        BY <1>0, <1>1, <2>1, <2>2, StillRescued
<1> QED
    BY <1>2, <1>3

\* Poll::Ready(Ok): every other task that waits for the same is woken, so that
\* none of them is left asleep.
LEMMA ReadyStep ==
    ASSUME SleepInv, NEW t \in Tasks, NEW p \in Objects, NEW e \in Ops, PollReady(t, p, e),
           NEW o \in Objects, NEW d \in Ops
    PROVE  WaitInv(o, d)'
<1>0. StreamsTypeOK /\ WaitInv(o, d)
    BY DEF SleepInv, FdInv
<1>1. /\ \A u \in Tasks : u # t =>
            /\ pc'[u] = IF u \in queue[p][e] \ {t} /\ pc[u] = "sleep" THEN "poll" ELSE pc[u]
            /\ obj'[u] = obj[u] /\ op'[u] = op[u]
      /\ pc[t] = "poll" /\ pc'[t] \in {"idle", "alloc"}
      /\ kinds' = kinds /\ failed' = failed
      /\ obj[t] = p /\ op[t] = e
    <2>1. Done(t, p, e, queue[p][e] \ {t})
        BY DEF PollReady
    <2>2. \A u \in Tasks : u # t => obj'[u] = obj[u] /\ op'[u] = op[u]
        BY <1>0, <2>1 DEF Done, Returns, StreamsTypeOK
    <2> QED
        BY <1>0, <2>1, <2>2, DoneWakes DEF PollReady, Polls
<1>2. CASE o = p /\ d = e
    <2>1. \A u \in Tasks : ~Sleeps(u, o, d)'
        BY <1>0, <1>1, <1>2 DEF WaitInv, WaitsInQueue, Sleeps, Asleep
    <2> QED
        BY <2>1 DEF WaitInv, WaitsInQueue, Rescued, Waitable
<1>3. CASE ~(o = p /\ d = e)
    <2>1. queue'[o][d] = queue[o][d] /\ ready'[o][d] = ready[o][d] /\ waker'[o][d] = waker[o][d]
        BY <1>0, <1>3 DEF PollReady, Done, StreamsTypeOK
    <2>2. \A u \in Tasks : /\ Asleep(u, o, d)' => Asleep(u, o, d)
                           /\ Polling(u, o, d) => Polling(u, o, d)'
                           /\ Asleep(u, o, d) => Asleep(u, o, d)' \/ Polling(u, o, d)'
        BY <1>1, <1>3 DEF Asleep, Polling
    <2> QED
        BY <1>0, <1>1, <2>1, <2>2, StillRescued
<1> QED
    BY <1>2, <1>3

\* Poll::Ready(Err): the task that leaves was not the one the others relied on,
\* since nobody waits for what standard input does not have.
LEMMA ErrorStep ==
    ASSUME SleepInv, NEW t \in Tasks, NEW p \in Objects, NEW e \in Ops, PollError(t, p, e),
           NEW o \in Objects, NEW d \in Ops
    PROVE  WaitInv(o, d)'
<1>0. StreamsTypeOK /\ WaitInv(o, d)
    BY DEF SleepInv, FdInv
<1>1. /\ \A u \in Tasks : u # t => pc'[u] = pc[u] /\ obj'[u] = obj[u] /\ op'[u] = op[u]
      /\ pc[t] = "poll" /\ pc'[t] = "idle"
      /\ kinds' = kinds /\ ready' = ready
      /\ obj[t] = p /\ op[t] = e
    BY <1>0 DEF PollError, Polls, Returns, StreamsTypeOK
<1>2. CASE o = p /\ d = e
    <2>1. failed'[o] = "no" => failed[o] = "no" /\ kinds[o] = "stdin" /\ d # "read"
        BY <1>0, <1>2 DEF PollError, Fails, StreamsTypeOK
    <2>2. \A u \in Tasks : Asleep(u, o, d)' => Asleep(u, o, d)
        BY <1>1 DEF Asleep
    <2>3. \A u \in Tasks : ~Sleeps(u, o, d)'
        BY <1>0, <2>1, <2>2 DEF WaitInv, Waitable, Sleeps
    <2> QED
        BY <2>3 DEF WaitInv, WaitsInQueue, Rescued, Waitable
<1>3. CASE ~(o = p /\ d = e)
    <2>1. /\ queue'[o][d] = queue[o][d] /\ waker'[o][d] = waker[o][d]
          /\ failed'[o] = "no" => failed[o] = "no"
        BY <1>0, <1>3 DEF PollError, StreamsTypeOK
    <2>2. \A u \in Tasks : /\ Asleep(u, o, d)' <=> Asleep(u, o, d)
                           /\ Polling(u, o, d) => Polling(u, o, d)'
        BY <1>1, <1>3 DEF Asleep, Polling
    <2> QED
        BY <1>0, <1>1, <2>1, <2>2, StillRescued
<1> QED
    BY <1>2, <1>3

\* What a socket does: the waker that is used up was that of a sleeper, which
\* polls now, or somebody was going to poll anyway.
LEMMA SocketWakes ==
    ASSUME SleepInv, SocketStep, NEW o \in Objects, NEW d \in Ops
    PROVE  WaitInv(o, d)'
<1>0. StreamsTypeOK /\ WaitInv(o, d)
    BY DEF SleepInv, FdInv
<1>1. ASSUME NEW ts, pc' = WokenTasks(ts), UNCHANGED <<op, obj>>
      PROVE  \A u \in Tasks : /\ Asleep(u, o, d)' => Asleep(u, o, d)
                              /\ Polling(u, o, d) => Polling(u, o, d)'
                              /\ Asleep(u, o, d) => Asleep(u, o, d)' \/ Polling(u, o, d)'
                              /\ Asleep(u, o, d) /\ u \in ts => Polling(u, o, d)'
    BY <1>0, <1>1, WokenFacts DEF Asleep, Polling
<1>2. ASSUME NEW p \in Objects, NEW e \in Ops, Arrive(p, e) PROVE WaitInv(o, d)'
    <2>1. /\ pc' = WokenTasks({waker[p][e]}) /\ UNCHANGED <<op, obj>>
          /\ queue' = queue /\ failed' = failed /\ kinds' = kinds
        BY <1>2 DEF Arrive
    <2>2. CASE o = p /\ d = e
        <3>1. \A u \in Tasks : waker[o][d] = u /\ Asleep(u, o, d) => Polling(u, o, d)'
            BY <1>1, <2>1, <2>2
        <3> QED
            BY <1>0, <1>1, <2>1, <3>1, StillRescued
    <2>3. CASE ~(o = p /\ d = e)
        <3>1. ready'[o][d] = ready[o][d] /\ waker'[o][d] = waker[o][d]
            BY <1>0, <1>2, <2>3 DEF Arrive, StreamsTypeOK
        <3> QED
            BY <1>0, <1>1, <2>1, <3>1, StillRescued
    <2> QED
        BY <2>2, <2>3
<1>3. ASSUME NEW p \in Objects, Break(p) PROVE WaitInv(o, d)'
    <2>1. /\ pc' = WokenTasks({waker[p][e] : e \in Ops}) /\ UNCHANGED <<op, obj>>
          /\ queue' = queue /\ kinds' = kinds /\ ready' = ready
        BY <1>3 DEF Break
    <2>2. CASE o = p
        <3>1. failed'[o] # "no"
            BY <1>0, <1>3, <2>2 DEF Break, StreamsTypeOK
        <3> QED
            BY <3>1 DEF WaitInv, WaitsInQueue, Rescued, Waitable, Sleeps
    <2>3. CASE o # p
        <3>1. waker'[o][d] = waker[o][d] /\ failed'[o] = failed[o]
            BY <1>0, <1>3, <2>3 DEF Break, StreamsTypeOK
        <3> QED
            BY <1>0, <1>1, <2>1, <3>1, StillRescued
    <2> QED
        BY <2>2, <2>3
<1> QED
    BY <1>2, <1>3 DEF SocketStep

LEMMA SleepStep == SleepInv /\ [Next]_vars => SleepInv'
<1> SUFFICES ASSUME SleepInv, [Next]_vars PROVE SleepInv'
    OBVIOUS
<1>1. FdInv'
    BY TypeStep, FdStep DEF SleepInv, FdInv
<1>2. ASSUME NEW o \in Objects, NEW d \in Ops PROVE WaitInv(o, d)'
    <2>1. ASSUME NEW t \in Tasks, UsercallStarts(t) \/ TaskStep(t) PROVE WaitInv(o, d)'
        BY <2>1, AwayStep, PendingStep, ReadyStep, ErrorStep DEF TaskStep, Poll
    <2>2. CASE SocketStep
        BY <2>2, SocketWakes
    <2>3. CASE UNCHANGED vars
        BY <2>3 DEF vars, objectVars, taskVars, SleepInv, WaitInv, WaitsInQueue, Rescued,
                    Waitable, Sleeps, Asleep, Polling
    <2> QED
        BY <2>1, <2>2, <2>3 DEF Next
<1> QED
    BY <1>1, <1>2 DEF SleepInv

\* No usercall sleeps on a stream or listener that has not failed without being
\* in the adapter's list, and without a poller or the socket's waker to wake it
\* (AsyncStreamAdapter, AsyncListenerAdapter).
THEOREM NoForgottenSleeper == Spec => []SleepersKnown
<1>1. SleepInv => SleepersKnown
    <2> SUFFICES ASSUME SleepInv, NEW o \in Objects, NEW d \in Ops,
                        NEW t \in Users(o, d), pc[t] = "sleep", failed[o] = "no"
                 PROVE  /\ {u \in Users(o, d) : pc[u] = "sleep"} \subseteq queue[o][d]
                        /\ \/ {u \in Users(o, d) : pc[u] = "sleep"} # Users(o, d)
                           \/ /\ ready[o][d] = 0
                              /\ waker[o][d] \in {u \in Users(o, d) : pc[u] = "sleep"}
        BY DEF SleepersKnown
    <2>1. WaitInv(o, d) /\ t \in Tasks /\ Sleeps(t, o, d)
        BY DEF SleepInv, Users, Sleeps, Asleep
    <2>2. {u \in Users(o, d) : pc[u] = "sleep"} \subseteq queue[o][d]
        BY <2>1 DEF WaitInv, WaitsInQueue, Sleeps, Asleep, Users
    <2>3. CASE \E u \in Tasks : Polling(u, o, d)
        BY <2>2, <2>3 DEF Polling, Users
    <2>4. CASE ready[o][d] = 0 /\ \E u \in Tasks : waker[o][d] = u /\ Asleep(u, o, d)
        BY <2>2, <2>4 DEF Asleep, Users
    <2> QED
        BY <2>1, <2>3, <2>4 DEF WaitInv, Rescued
<1> QED
    BY <1>1, InitSleepInv, SleepStep, PTL DEF Spec
=============================================================================
