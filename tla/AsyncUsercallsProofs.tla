------------------------ MODULE AsyncUsercallsProofs ------------------------
(***************************************************************************)
(* Proofs about AsyncUsercalls, for any number of enclave threads and      *)
(* usercalls and any size of the two queues: neither side sleeps for good  *)
(* on a queue that it could use, and no usercall is answered twice.        *)
(***************************************************************************)
EXTENDS AsyncUsercalls, FiniteSetTheorems, TLAPS

ThreadStates ==
    [at : {"running", "signal"}, ev : {"none"}] \union [at : {"sent"}, ev : Events \union {"none"}]
    \union [at : {"waiting"}, ev : Events]

CallStates == {"new", "queued", "received", "waiting", "notifying", "answered"}

AsyncTypeOK ==
    /\ reads \in BOOLEAN
    /\ usercallq \in Seq(Calls)
    /\ returnq \in Seq(Calls)
    /\ thread \in [Threads -> ThreadStates]
    /\ permits \in [Threads -> [Events -> Nat]]
    /\ receiver \in {"polling", "waiting", "notifying"}
    /\ call \in [Calls -> CallStates]
    /\ unread \in [Subscribers -> 0 .. 2]
    /\ answers \in [Calls -> Nat]

\* EnclaveNotStranded speaks of threads in the wait.  It is not inductive: a
\* thread decides to wait when it looks at the queue, and until its usercall
\* has arrived the runner may change the queue and push the event.
WaitsInVain(t, ev) == thread[t] \in {Sent(ev), Waits(ev)} /\ permits[t][ev] = 0
EnclaveInv ==
    \A t \in Threads :
        /\ WaitsInVain(t, "EV_USERCALLQ_NOT_FULL") =>
            Len(usercallq) = UsercallQueueSize \/ receiver = "notifying"
        /\ WaitsInVain(t, "EV_RETURNQ_NOT_EMPTY") =>
            returnq = <<>> \/ \E c \in Calls : call[c] = "notifying"

BoundInv == Len(usercallq) <= UsercallQueueSize /\ Len(returnq) <= ReturnQueueSize

\* A usercall in the queue is there once and nowhere else.
QueuedInv ==
    /\ \A i \in 1 .. Len(usercallq) : call[usercallq[i]] = "queued"
    /\ \A i, j \in 1 .. Len(usercallq) : usercallq[i] = usercallq[j] => i = j

Occurrences(q, c) == {i \in 1 .. Len(q) : q[i] = c}

WakeInv == AsyncTypeOK /\ BoundInv /\ RunnerNotStranded /\ EnclaveInv
AnswerInv == AsyncTypeOK /\ QueuedInv /\ AnsweredOnce

-----------------------------------------------------------------------------
(***************************************************************************)
(* Sequences                                                               *)
(***************************************************************************)
\* Tail and Append, element by element.
LEMMA TailFacts ==
    ASSUME NEW S, NEW q \in Seq(S), q # <<>>
    PROVE  /\ Head(q) \in S /\ Head(q) = q[1]
           /\ Tail(q) \in Seq(S) /\ Len(Tail(q)) = Len(q) - 1 /\ Len(q) \in Nat \ {0}
           /\ \A i \in 1 .. Len(q) - 1 : Tail(q)[i] = q[i + 1]
  OBVIOUS

LEMMA AppendFacts ==
    ASSUME NEW S, NEW q \in Seq(S), NEW x \in S
    PROVE  /\ Append(q, x) \in Seq(S) /\ Len(Append(q, x)) = Len(q) + 1 /\ Len(q) \in Nat
           /\ \A i \in 1 .. Len(q) : Append(q, x)[i] = q[i]
           /\ Append(q, x)[Len(q) + 1] = x
  OBVIOUS

LEMMA OccurrencesFinite ==
    ASSUME NEW S, NEW q \in Seq(S), NEW c
    PROVE  IsFiniteSet(Occurrences(q, c)) /\ Cardinality(Occurrences(q, c)) \in Nat
  <1>1. IsFiniteSet(1 .. Len(q))
    BY FS_Interval
  <1>2. Occurrences(q, c) \subseteq 1 .. Len(q)
    BY DEF Occurrences
  <1> QED BY <1>1, <1>2, FS_Subset, FS_CardinalityType

\* Append adds one occurrence of its element and none of any other.
LEMMA OccurrencesAppend ==
    ASSUME NEW S, NEW q \in Seq(S), NEW x \in S, NEW c \in S
    PROVE  Cardinality(Occurrences(Append(q, x), c)) =
            Cardinality(Occurrences(q, c)) + (IF c = x THEN 1 ELSE 0)
  <1>1. CASE c # x
    <2>1. Occurrences(Append(q, x), c) = Occurrences(q, c)
      BY <1>1, AppendFacts DEF Occurrences
    <2> QED BY <1>1, <2>1, OccurrencesFinite
  <1>2. CASE c = x
    <2>1. Occurrences(Append(q, x), c) = Occurrences(q, c) \union {Len(q) + 1}
      BY <1>2, AppendFacts DEF Occurrences
    <2>2. Len(q) + 1 \notin Occurrences(q, c)
      BY DEF Occurrences
    <2> QED BY <1>2, <2>1, <2>2, OccurrencesFinite, FS_AddElement
  <1> QED BY <1>1, <1>2

\* Tail removes one occurrence of the head and none of any other element.
LEMMA OccurrencesTail ==
    ASSUME NEW S, NEW q \in Seq(S), q # <<>>, NEW c \in S
    PROVE  Cardinality(Occurrences(q, c)) =
            Cardinality(Occurrences(Tail(q), c)) + (IF c = Head(q) THEN 1 ELSE 0)
  <1> DEFINE T == Occurrences(Tail(q), c)
             R == Occurrences(q, c) \ {1}
             f == [i \in T |-> i + 1]
  <1>1. Tail(q) \in Seq(S)
    BY TailFacts
  <1>2. IsFiniteSet(T) /\ Cardinality(T) \in Nat
    BY <1>1, OccurrencesFinite
  <1>3. ExistsBijection(T, R)
    <2>1. T \subseteq Nat
      BY DEF Occurrences
    <2>2. \A i \in T : i + 1 \in R
      BY TailFacts DEF Occurrences
    <2>3. \A j \in R : j - 1 \in T /\ j = f[j - 1]
      BY TailFacts DEF Occurrences
    <2>4. f \in [T -> R] /\ \A i \in T : f[i] = i + 1
      BY <2>2
    <2>5. \A i, j \in T : f[i] = f[j] => i = j
      BY <2>1, <2>4
    <2>6. f \in Injection(T, R)
      BY <2>4, <2>5, Zenon DEF Injection, IsInjective
    <2>7. f \in Surjection(T, R)
      BY <2>3, <2>4, Zenon DEF Surjection
    <2> QED BY <2>6, <2>7, Zenon DEF ExistsBijection, Bijection
  <1>4. IsFiniteSet(R) /\ Cardinality(R) = Cardinality(T)
    BY <1>2, <1>3, FS_Bijection
  <1>5. CASE c = Head(q)
    <2>1. Occurrences(q, c) = R \union {1} /\ 1 \notin R
      BY <1>5, TailFacts DEF Occurrences
    <2>2. Cardinality(R \union {1}) = Cardinality(R) + 1
      BY <1>4, <2>1, FS_AddElement
    <2>3. Cardinality(Occurrences(q, c)) = Cardinality(T) + 1
      <3> HIDE DEF T, R
      <3> QED BY <1>4, <2>1, <2>2, Zenon
    <2> QED BY <1>5, <2>3
  <1>6. CASE c # Head(q)
    <2>1. Occurrences(q, c) = R
      BY <1>6, TailFacts DEF Occurrences
    <2>2. Cardinality(Occurrences(q, c)) = Cardinality(T)
      <3> HIDE DEF T, R
      <3> QED BY <1>4, <2>1, Zenon
    <2> QED BY <1>2, <1>6, <2>2
  <1> QED BY <1>5, <1>6

-----------------------------------------------------------------------------
(***************************************************************************)
(* Types                                                                   *)
(***************************************************************************)
\* The states in which the actions leave a thread.
LEMMA ThreadTypes ==
    /\ Running \in ThreadStates /\ Owes \in ThreadStates /\ Sent("none") \in ThreadStates
    /\ \A ev \in Events : Sent(ev) \in ThreadStates /\ Waits(ev) \in ThreadStates
  BY DEF ThreadStates, Running, Owes, Sent, Waits, Events

LEMMA ThreadEvents ==
    ASSUME NEW s \in ThreadStates
    PROVE  /\ s.at = "waiting" => s.ev \in Events /\ s = Waits(s.ev)
           /\ s.at = "sent" => s.ev \in Events \union {"none"} /\ s = Sent(s.ev)
  BY DEF ThreadStates, Waits, Sent

LEMMA NotifyTypes ==
    ASSUME AsyncTypeOK, NEW ev \in Events, Notify(ev)
    PROVE  /\ permits' \in [Threads -> [Events -> Nat]]
           /\ \A t \in Threads : permits'[t][ev] > 0
           /\ \A t \in Threads, e \in Events \ {ev} : permits'[t][e] = permits[t][e]
  BY SizesAssumption DEF AsyncTypeOK, Notify

LEMMA AwakeTypes ==
    ASSUME AsyncTypeOK, NEW s \in Subscribers, NEW asleep \in BOOLEAN, Awake(s, asleep)
    PROVE  unread' \in [Subscribers -> 0 .. 2]
  BY DEF AsyncTypeOK, Awake

\* After a message every subscription has one to receive.
LEMMA BroadcastTypes ==
    ASSUME AsyncTypeOK
    PROVE  /\ Broadcast \in [Subscribers -> 0 .. 2]
           /\ \A s \in Subscribers : Subscribed(s) => Broadcast[s] > 0
           /\ \A s \in Subscribers : ~Subscribed(s) => Broadcast[s] = unread[s]
  BY DEF AsyncTypeOK, Broadcast

LEMMA TypeInit == Init => AsyncTypeOK
  <1> SUFFICES ASSUME Init PROVE AsyncTypeOK
    OBVIOUS
  <1>1. permits \in [Threads -> [Events -> Nat]]
    BY DEF Init
  <1>2. unread \in [Subscribers -> 0 .. 2] /\ answers \in [Calls -> Nat]
    BY DEF Init
  <1>3. thread \in [Threads -> ThreadStates] /\ call \in [Calls -> CallStates]
    BY ThreadTypes DEF Init, CallStates
  <1> QED BY <1>1, <1>2, <1>3 DEF Init, AsyncTypeOK

LEMMA TypeStep == AsyncTypeOK /\ [Next]_vars => AsyncTypeOK'
  <1> SUFFICES ASSUME AsyncTypeOK, [Next]_vars PROVE AsyncTypeOK'
    OBVIOUS
  <1> USE DEF AsyncTypeOK
  <1>1. ASSUME NEW t \in Threads, NEW c \in Calls, Push(t, c) PROVE AsyncTypeOK'
    <2>1. thread' \in [Threads -> ThreadStates]
      BY <1>1, ThreadTypes DEF Push, Events
    <2>2. call' \in [Calls -> CallStates]
      BY <1>1 DEF Push, CallStates
    <2>3. usercallq' \in Seq(Calls)
      <3>1. Append(usercallq, c) \in Seq(Calls)
        BY AppendFacts
      <3> QED BY <1>1, <3>1, Zenon DEF Push
    <2> QED BY <1>1, <2>1, <2>2, <2>3 DEF Push
  <1>2. ASSUME NEW t \in Threads, Pop(t) PROVE AsyncTypeOK'
    <2>1. thread' \in [Threads -> ThreadStates]
      BY <1>2, ThreadTypes DEF Pop, Events
    <2>2. returnq' \in Seq(Calls)
      <3>1. returnq # <<>> => Tail(returnq) \in Seq(Calls)
        BY TailFacts
      <3> QED BY <1>2, <3>1, Zenon DEF Pop
    <2>3. answers' \in [Calls -> Nat]
      BY <1>2 DEF Pop
    <2> QED BY <1>2, <2>1, <2>2, <2>3 DEF Pop
  <1>3. ASSUME NEW t \in Threads, Signal(t) PROVE AsyncTypeOK'
    BY <1>3, ThreadTypes DEF Signal
  <1>4. ASSUME NEW t \in Threads, LoopSync(t) PROVE AsyncTypeOK'
    <2>1. thread' \in [Threads -> ThreadStates]
      BY <1>4, ThreadTypes, ThreadEvents DEF LoopSync
    <2> QED BY <1>4, <2>1, BroadcastTypes DEF LoopSync
  <1>5. ASSUME NEW t \in Threads, WaitEnds(t) PROVE AsyncTypeOK'
    <2>1. thread[t].ev \in Events
      BY <1>5, ThreadEvents DEF WaitEnds
    <2>2. permits' \in [Threads -> [Events -> Nat]]
      BY <1>5, <2>1 DEF WaitEnds
    <2> QED BY <1>5, <2>2, ThreadTypes DEF WaitEnds
  <1>6. ASSUME Receive PROVE AsyncTypeOK'
    <2>1. unread' \in [Subscribers -> 0 .. 2]
      BY <1>6, AwakeTypes DEF Receive, Subscribers
    <2>2. usercallq' \in Seq(Calls)
      <3>1. usercallq # <<>> => Tail(usercallq) \in Seq(Calls)
        BY TailFacts
      <3> QED BY <1>6, <3>1, Zenon DEF Receive
    <2>3. call' \in [Calls -> CallStates]
      BY <1>6 DEF Receive, CallStates
    <2>4. receiver' \in {"polling", "waiting", "notifying"}
      BY <1>6 DEF Receive
    <2> QED BY <1>6, <2>1, <2>2, <2>3, <2>4 DEF Receive
  <1>7. ASSUME NotifyNotFull PROVE AsyncTypeOK'
    BY <1>7, NotifyTypes DEF NotifyNotFull, Events
  <1>8. ASSUME NEW c \in Calls, Send(c) PROVE AsyncTypeOK'
    <2>1. c \in Subscribers
      BY DEF Subscribers
    <2>2. unread' \in [Subscribers -> 0 .. 2]
      <3>1. CASE Awake(c, call[c] = "waiting")
        BY <2>1, <3>1, AwakeTypes
      <3>2. CASE unread' = [unread EXCEPT ![c] = 0]
        BY <2>1, <3>2
      <3> QED BY <1>8, <3>1, <3>2 DEF Send
    <2>3. returnq' \in Seq(Calls)
      <3>1. Append(returnq, c) \in Seq(Calls)
        BY AppendFacts
      <3> QED BY <1>8, <3>1, Zenon DEF Send
    <2>4. call' \in [Calls -> CallStates]
      BY <1>8 DEF Send, CallStates
    <2> QED BY <1>8, <2>2, <2>3, <2>4 DEF Send
  <1>9. ASSUME NEW c \in Calls, NotifyNotEmpty(c) PROVE AsyncTypeOK'
    <2>1. call' \in [Calls -> CallStates]
      BY <1>9 DEF NotifyNotEmpty, CallStates
    <2> QED BY <1>9, <2>1, NotifyTypes DEF NotifyNotEmpty, Events
  <1>10. CASE UNCHANGED vars
    BY <1>10 DEF vars
  <1> QED BY <1>1, <1>2, <1>3, <1>4, <1>5, <1>6, <1>7, <1>8, <1>9, <1>10 DEF Next, Runner

-----------------------------------------------------------------------------
(***************************************************************************)
(* Wakeups                                                                 *)
(***************************************************************************)
\* A thread that owes a wakeup or has one on the way is not disturbed by what
\* the others do.
LEMMA PendingKept ==
    ASSUME AsyncTypeOK, NEW t \in Threads, NEW s, thread' = [thread EXCEPT ![t] = s],
           thread[t].at \notin {"signal", "sent"}, WakeupPending
    PROVE  WakeupPending'
  BY DEF AsyncTypeOK, WakeupPending

LEMMA PendingMade ==
    ASSUME AsyncTypeOK, NEW t \in Threads, NEW s, thread' = [thread EXCEPT ![t] = s],
           s.at \in {"signal", "sent"}
    PROVE  WakeupPending'
  BY DEF AsyncTypeOK, WakeupPending

LEMMA BoundStep == AsyncTypeOK /\ BoundInv /\ [Next]_vars => BoundInv'
  <1> SUFFICES ASSUME AsyncTypeOK, BoundInv, [Next]_vars PROVE BoundInv'
    OBVIOUS
  <1> USE SizesAssumption DEF AsyncTypeOK, BoundInv
  <1>1. ASSUME NEW t \in Threads, NEW c \in Calls, Push(t, c) PROVE BoundInv'
    <2>1. Len(Append(usercallq, c)) = Len(usercallq) + 1 /\ Len(usercallq) \in Nat
      BY AppendFacts
    <2> QED BY <1>1, <2>1 DEF Push
  <1>2. ASSUME NEW t \in Threads, Pop(t) PROVE BoundInv'
    <2>1. returnq # <<>> => Len(Tail(returnq)) = Len(returnq) - 1 /\ Len(returnq) \in Nat
      BY TailFacts
    <2> QED BY <1>2, <2>1 DEF Pop
  <1>3. ASSUME Receive PROVE BoundInv'
    <2>1. usercallq # <<>> => Len(Tail(usercallq)) = Len(usercallq) - 1 /\ Len(usercallq) \in Nat
      BY TailFacts
    <2> QED BY <1>3, <2>1 DEF Receive
  <1>4. ASSUME NEW c \in Calls, Send(c) PROVE BoundInv'
    <2>1. Len(Append(returnq, c)) = Len(returnq) + 1 /\ Len(returnq) \in Nat
      BY AppendFacts
    <2> QED BY <1>4, <2>1 DEF Send
  <1>5. CASE UNCHANGED <<usercallq, returnq>>
    BY <1>5
  <1> QED BY <1>1, <1>2, <1>3, <1>4, <1>5
          DEF Next, Runner, vars, Signal, LoopSync, WaitEnds, NotifyNotFull, NotifyNotEmpty

\* A queue from which an element was taken had one, and one to which an element
\* was added had room.
LEMMA RunnerStep == WakeInv /\ [Next]_vars => RunnerNotStranded'
  <1> SUFFICES ASSUME WakeInv, [Next]_vars PROVE RunnerNotStranded'
    OBVIOUS
  <1> DEFINE ReceiverPart ==
                (receiver = "waiting" /\ unread[0] = 0 /\ usercallq # <<>>) => WakeupPending
             SenderPart(c) ==
                (call[c] = "waiting" /\ unread[c] = 0 /\ Len(returnq) < ReturnQueueSize)
                    => WakeupPending
  <1>0. AsyncTypeOK /\ BoundInv /\ ReceiverPart /\ \A c \in Calls : SenderPart(c)
    BY DEF WakeInv, RunnerNotStranded
  <1>a. Len(usercallq) \in Nat /\ Len(returnq) \in Nat
    BY <1>0 DEF AsyncTypeOK
  <1>b. 0 \in Subscribers /\ \A c \in Calls : c \in Subscribers /\ c # 0
    BY DEF Subscribers, Calls
  <1> SUFFICES ReceiverPart' /\ \A c \in Calls : SenderPart(c)'
    BY DEF RunnerNotStranded
  <1>1. ASSUME NEW t \in Threads, NEW d \in Calls, Push(t, d)
        PROVE  ReceiverPart' /\ \A c \in Calls : SenderPart(c)'
    <2>1. PICK s : /\ thread' = [thread EXCEPT ![t] = s]
                   /\ usercallq = <<>> => s.at \in {"signal", "sent"}
      <3>1. CASE Len(usercallq) < UsercallQueueSize
        <4> WITNESS IF usercallq = <<>> THEN Owes ELSE Running
        <4> QED BY <1>1, <3>1 DEF Push, Owes, Running
      <3>2. CASE ~(Len(usercallq) < UsercallQueueSize)
        <4> WITNESS Sent("EV_USERCALLQ_NOT_FULL")
        <4> QED BY <1>1, <3>2 DEF Push, Sent
      <3> QED BY <3>1, <3>2
    <2>2. thread[t].at \notin {"signal", "sent"}
      BY <1>1 DEF Push, Running
    <2>3. WakeupPending => WakeupPending'
      BY <1>0, <2>1, <2>2, PendingKept
    <2>4. usercallq = <<>> => WakeupPending'
      BY <1>0, <2>1, PendingMade
    <2>5. receiver' = receiver /\ unread' = unread /\ returnq' = returnq
      BY <1>1 DEF Push
    <2>6. \A c \in Calls : call'[c] = "waiting" => call[c] = "waiting"
      BY <1>0, <1>1 DEF Push, AsyncTypeOK
    <2>7. ReceiverPart'
      BY <1>0, <2>3, <2>4, <2>5
    <2>8. ASSUME NEW c \in Calls PROVE SenderPart(c)'
      BY <1>0, <2>3, <2>5, <2>6
    <2> QED BY <2>7, <2>8
  <1>2. ASSUME NEW t \in Threads, Pop(t)
        PROVE  ReceiverPart' /\ \A c \in Calls : SenderPart(c)'
    <2>1. PICK s : /\ thread' = [thread EXCEPT ![t] = s]
                   /\ (returnq # <<>> /\ Len(returnq) = ReturnQueueSize) => s.at = "signal"
      <3>1. CASE returnq # <<>>
        <4> WITNESS IF Len(returnq) = ReturnQueueSize THEN Owes ELSE Running
        <4> QED BY <1>2, <3>1 DEF Pop, Owes, Running
      <3>2. CASE returnq = <<>>
        <4> WITNESS Sent("EV_RETURNQ_NOT_EMPTY")
        <4> QED BY <1>2, <3>2 DEF Pop, Sent
      <3> QED BY <3>1, <3>2
    <2>2. thread[t].at \notin {"signal", "sent"}
      BY <1>2 DEF Pop, Running
    <2>3. WakeupPending => WakeupPending'
      BY <1>0, <2>1, <2>2, PendingKept
    <2>4. (returnq # <<>> /\ Len(returnq) = ReturnQueueSize) => WakeupPending'
      BY <1>0, <2>1, PendingMade
    <2>5. receiver' = receiver /\ unread' = unread /\ usercallq' = usercallq /\ call' = call
      BY <1>2 DEF Pop
    <2>6. returnq = <<>> => returnq' = returnq
      BY <1>2 DEF Pop
    <2>7. ReceiverPart'
      BY <1>0, <2>3, <2>5
    <2>8. ASSUME NEW c \in Calls PROVE SenderPart(c)'
      <3>1. CASE Len(returnq) < ReturnQueueSize
        BY <1>0, <2>3, <2>5, <3>1
      <3>2. CASE Len(returnq) = ReturnQueueSize /\ returnq # <<>>
        BY <2>4, <3>2
      <3>3. CASE returnq = <<>> /\ Len(returnq) = ReturnQueueSize
        BY <2>6, <3>3, SizesAssumption
      <3> QED BY <1>0, <1>a, <3>1, <3>2, <3>3, SizesAssumption DEF BoundInv
    <2> QED BY <2>7, <2>8
  <1>3. ASSUME NEW t \in Threads, Signal(t)
        PROVE  ReceiverPart' /\ \A c \in Calls : SenderPart(c)'
    <2>1. WakeupPending'
      BY <1>0, <1>3, PendingMade DEF Signal, Sent
    <2> QED BY <2>1
  <1>4. ASSUME NEW t \in Threads, LoopSync(t)
        PROVE  ReceiverPart' /\ \A c \in Calls : SenderPart(c)'
    <2>1. unread'[0] > 0
      BY <1>0, <1>4, <1>b, BroadcastTypes DEF LoopSync, Subscribed
    <2>2. \A c \in Calls : call[c] = "waiting" => unread'[c] > 0
      BY <1>0, <1>4, <1>b, BroadcastTypes DEF LoopSync, Subscribed
    <2>3. call' = call
      BY <1>4 DEF LoopSync
    <2> QED BY <2>1, <2>2, <2>3
  <1>5. ASSUME NEW t \in Threads, WaitEnds(t)
        PROVE  ReceiverPart' /\ \A c \in Calls : SenderPart(c)'
    <2>1. WakeupPending => WakeupPending'
      BY <1>0, <1>5, PendingKept DEF WaitEnds
    <2> QED BY <1>0, <1>5, <2>1 DEF WaitEnds
  <1>6. ASSUME Receive
        PROVE  ReceiverPart' /\ \A c \in Calls : SenderPart(c)'
    <2>1. WakeupPending' = WakeupPending
      BY <1>6 DEF Receive, WakeupPending
    <2>2. receiver' = "waiting" => usercallq' = <<>>
      BY <1>6 DEF Receive
    <2>3. \A c \in Calls : unread'[c] = unread[c]
      BY <1>0, <1>6, <1>b DEF Receive, Awake, AsyncTypeOK
    <2>4. \A c \in Calls : call'[c] = "waiting" => call[c] = "waiting"
      BY <1>0, <1>6 DEF Receive, AsyncTypeOK
    <2>5. returnq' = returnq
      BY <1>6 DEF Receive
    <2> QED BY <1>0, <2>1, <2>2, <2>3, <2>4, <2>5
  <1>7. ASSUME NotifyNotFull
        PROVE  ReceiverPart' /\ \A c \in Calls : SenderPart(c)'
    BY <1>0, <1>7 DEF NotifyNotFull, WakeupPending
  <1>8. ASSUME NEW d \in Calls, Send(d)
        PROVE  ReceiverPart' /\ \A c \in Calls : SenderPart(c)'
    <2>1. WakeupPending' = WakeupPending /\ receiver' = receiver /\ usercallq' = usercallq
      BY <1>8 DEF Send, WakeupPending
    <2>2. unread'[0] = unread[0] /\ \A c \in Calls \ {d} : unread'[c] = unread[c]
      BY <1>0, <1>8, <1>b DEF Send, Awake, AsyncTypeOK
    <2>3. \A c \in Calls \ {d} : call'[c] = call[c]
      BY <1>0, <1>8 DEF Send, AsyncTypeOK
    <2>4. call'[d] = "waiting" => Len(returnq') = ReturnQueueSize
      BY <1>0, <1>8 DEF Send, AsyncTypeOK
    <2>5. Len(returnq) <= Len(returnq')
      <3>1. Len(Append(returnq, d)) = Len(returnq) + 1
        BY <1>0, AppendFacts DEF AsyncTypeOK
      <3> QED BY <1>8, <1>a, <3>1 DEF Send
    <2>6. ReceiverPart'
      BY <1>0, <2>1, <2>2
    <2>7. ASSUME NEW c \in Calls PROVE SenderPart(c)'
      <3>1. CASE c = d
        BY <2>4, <3>1, SizesAssumption
      <3>2. CASE c # d
        <4>1. Len(returnq') \in Nat
          BY <1>0, TypeStep DEF AsyncTypeOK
        <4>2. Len(returnq') < ReturnQueueSize => Len(returnq) < ReturnQueueSize
          BY <1>a, <2>5, <4>1, SizesAssumption
        <4> QED BY <1>0, <2>1, <2>2, <2>3, <3>2, <4>2
      <3> QED BY <3>1, <3>2
    <2> QED BY <2>6, <2>7
  <1>9. ASSUME NEW d \in Calls, NotifyNotEmpty(d)
        PROVE  ReceiverPart' /\ \A c \in Calls : SenderPart(c)'
    <2>1. \A c \in Calls : call'[c] = "waiting" => call[c] = "waiting"
      BY <1>0, <1>9 DEF NotifyNotEmpty, AsyncTypeOK
    <2> QED BY <1>0, <1>9, <2>1 DEF NotifyNotEmpty, WakeupPending
  <1>10. CASE UNCHANGED vars
    BY <1>0, <1>10 DEF vars, WakeupPending
  <1> QED BY <1>1, <1>2, <1>3, <1>4, <1>5, <1>6, <1>7, <1>8, <1>9, <1>10 DEF Next, Runner

\* Which thread waits in vain depends on its state and its permits.
LEMMA VainKept ==
    ASSUME NEW t \in Threads, NEW ev \in Events,
           thread'[t] = thread[t], permits'[t][ev] = permits[t][ev]
    PROVE  WaitsInVain(t, ev)' => WaitsInVain(t, ev)
  BY DEF WaitsInVain

LEMMA EnclaveStep == WakeInv /\ [Next]_vars => EnclaveInv'
  <1> SUFFICES ASSUME WakeInv, [Next]_vars PROVE EnclaveInv'
    OBVIOUS
  <1> DEFINE NotFull == "EV_USERCALLQ_NOT_FULL"
             NotEmpty == "EV_RETURNQ_NOT_EMPTY"
             Excuse1 == Len(usercallq) = UsercallQueueSize \/ receiver = "notifying"
             Excuse2 == returnq = <<>> \/ \E c \in Calls : call[c] = "notifying"
             Part(t) == /\ WaitsInVain(t, NotFull) => Excuse1
                        /\ WaitsInVain(t, NotEmpty) => Excuse2
  <1>0. AsyncTypeOK /\ BoundInv /\ \A t \in Threads : Part(t)
    BY DEF WakeInv, EnclaveInv
  <1>a. Len(usercallq) \in Nat /\ Len(returnq) \in Nat
    BY <1>0 DEF AsyncTypeOK
  <1>b. NotFull \in Events /\ NotEmpty \in Events /\ NotFull # NotEmpty
    BY DEF Events
  <1> SUFFICES \A u \in Threads : Part(u)'
    BY DEF EnclaveInv
  <1>1. ASSUME NEW t \in Threads, NEW d \in Calls, Push(t, d) PROVE \A u \in Threads : Part(u)'
    <2> SUFFICES ASSUME NEW u \in Threads PROVE Part(u)'
      OBVIOUS
    <2>1. permits' = permits /\ returnq' = returnq /\ receiver' = receiver
      BY <1>1 DEF Push
    <2>2. \A c \in Calls : call[c] = "notifying" => call'[c] = "notifying"
      BY <1>0, <1>1 DEF Push, AsyncTypeOK
    <2>3. Excuse2 => Excuse2'
      BY <2>1, <2>2
    <2>4. Excuse1 => Excuse1'
      BY <1>1, <2>1 DEF Push
    <2>5. CASE u # t
      <3>1. thread'[u] = thread[u]
        BY <1>0, <1>1, <2>5 DEF Push, AsyncTypeOK
      <3>2. Part(u)
        BY <1>0
      <3> QED BY <1>b, <2>1, <2>3, <2>4, <3>1, <3>2, VainKept
    <2>6. CASE u = t
      <3>1. ~WaitsInVain(t, NotEmpty)'
        BY <1>0, <1>1 DEF Push, AsyncTypeOK, WaitsInVain, Sent, Waits, Owes, Running
      <3>2. WaitsInVain(t, NotFull)' => Len(usercallq') = UsercallQueueSize
        <4>1. CASE Len(usercallq) < UsercallQueueSize
          BY <1>0, <1>1, <4>1 DEF Push, AsyncTypeOK, WaitsInVain, Sent, Waits, Owes, Running
        <4>2. CASE ~(Len(usercallq) < UsercallQueueSize)
          BY <1>0, <1>1, <1>a, <4>2, SizesAssumption DEF Push, BoundInv
        <4> QED BY <4>1, <4>2
      <3> QED BY <2>6, <3>1, <3>2
    <2> QED BY <2>5, <2>6
  <1>2. ASSUME NEW t \in Threads, Pop(t) PROVE \A u \in Threads : Part(u)'
    <2> SUFFICES ASSUME NEW u \in Threads PROVE Part(u)'
      OBVIOUS
    <2>1. permits' = permits /\ usercallq' = usercallq /\ receiver' = receiver /\ call' = call
      BY <1>2 DEF Pop
    <2>2. Excuse1 => Excuse1'
      BY <2>1
    <2>3. Excuse2 => Excuse2'
      BY <1>2, <2>1 DEF Pop
    <2>4. CASE u # t
      <3>1. thread'[u] = thread[u]
        BY <1>0, <1>2, <2>4 DEF Pop, AsyncTypeOK
      <3>2. Part(u)
        BY <1>0
      <3> QED BY <1>b, <2>1, <2>2, <2>3, <3>1, <3>2, VainKept
    <2>5. CASE u = t
      <3>1. ~WaitsInVain(t, NotFull)'
        BY <1>0, <1>2 DEF Pop, AsyncTypeOK, WaitsInVain, Sent, Waits, Owes, Running
      <3>2. WaitsInVain(t, NotEmpty)' => returnq' = <<>>
        BY <1>0, <1>2 DEF Pop, AsyncTypeOK, WaitsInVain, Sent, Waits, Owes, Running
      <3> QED BY <2>5, <3>1, <3>2
    <2> QED BY <2>4, <2>5
  <1>3. ASSUME NEW t \in Threads, Signal(t) \/ LoopSync(t) PROVE \A u \in Threads : Part(u)'
    <2> SUFFICES ASSUME NEW u \in Threads PROVE Part(u)'
      OBVIOUS
    <2>1. UNCHANGED <<permits, usercallq, returnq, receiver, call>>
      BY <1>3 DEF Signal, LoopSync
    <2>2. CASE u # t
      <3>1. thread'[u] = thread[u]
        BY <1>0, <1>3, <2>2 DEF Signal, LoopSync, AsyncTypeOK
      <3>2. Part(u)
        BY <1>0
      <3> QED BY <1>b, <2>1, <3>1, <3>2, VainKept
    <2>3. CASE u = t /\ Signal(t)
      BY <1>0, <2>3 DEF Signal, AsyncTypeOK, WaitsInVain, Sent, Waits
    <2>4. CASE u = t /\ LoopSync(t)
      <3>1. thread[t].ev \in Events \union {"none"} /\ thread[t] = Sent(thread[t].ev)
        BY <1>0, <2>4, ThreadEvents DEF LoopSync, AsyncTypeOK
      <3>2. thread'[t] = IF thread[t].ev = "none" THEN Running ELSE Waits(thread[t].ev)
        BY <1>0, <2>4 DEF LoopSync, AsyncTypeOK
      <3>3. \A ev \in Events : thread'[t] \in {Sent(ev), Waits(ev)} => thread[t] = Sent(ev)
        BY <3>1, <3>2 DEF Sent, Waits, Running
      <3>4. \A ev \in Events : WaitsInVain(t, ev)' => WaitsInVain(t, ev)
        BY <2>1, <3>3 DEF WaitsInVain
      <3>5. Part(t)
        BY <1>0
      <3> QED BY <1>b, <2>1, <2>4, <3>4, <3>5
    <2> QED BY <1>3, <2>2, <2>3, <2>4
  <1>4. ASSUME NEW t \in Threads, WaitEnds(t) PROVE \A u \in Threads : Part(u)'
    <2> SUFFICES ASSUME NEW u \in Threads PROVE Part(u)'
      OBVIOUS
    <2>1. UNCHANGED <<usercallq, returnq, receiver, call>>
      BY <1>4 DEF WaitEnds
    <2>2. CASE u # t
      <3>1. thread'[u] = thread[u] /\ permits'[u] = permits[u]
        BY <1>0, <1>4, <2>2 DEF WaitEnds, AsyncTypeOK
      <3>2. Part(u)
        BY <1>0
      <3> QED BY <1>b, <2>1, <3>1, <3>2, VainKept
    <2>3. CASE u = t
      BY <1>0, <1>4, <2>3 DEF WaitEnds, AsyncTypeOK, WaitsInVain, Sent, Waits, Running
    <2> QED BY <2>2, <2>3
  <1>5. ASSUME Receive PROVE \A u \in Threads : Part(u)'
    <2> SUFFICES ASSUME NEW u \in Threads PROVE Part(u)'
      OBVIOUS
    <2>1. UNCHANGED <<thread, permits, returnq>>
      BY <1>5 DEF Receive
    <2>2. Excuse1 => Excuse1'
      <3>1. receiver # "notifying"
        BY <1>5 DEF Receive, Interruptible
      <3> QED BY <1>5, <3>1 DEF Receive
    <2>3. Excuse2 => Excuse2'
      <3>1. ~ \E c \in Calls : call[c] = "notifying"
        BY <1>5 DEF Receive, Interruptible
      <3> QED BY <2>1, <3>1
    <2>4. Part(u)
      BY <1>0
    <2> QED BY <1>b, <2>1, <2>2, <2>3, <2>4, VainKept
  <1>6. ASSUME NotifyNotFull PROVE \A u \in Threads : Part(u)'
    <2> SUFFICES ASSUME NEW u \in Threads PROVE Part(u)'
      OBVIOUS
    <2>1. permits'[u][NotFull] > 0 /\ permits'[u][NotEmpty] = permits[u][NotEmpty]
      BY <1>0, <1>6, <1>b, NotifyTypes DEF NotifyNotFull
    <2>2. ~WaitsInVain(u, NotFull)'
      BY <2>1 DEF WaitsInVain
    <2>3. WaitsInVain(u, NotEmpty)' => WaitsInVain(u, NotEmpty)
      BY <1>6, <1>b, <2>1, VainKept DEF NotifyNotFull
    <2>4. Part(u) /\ UNCHANGED <<returnq, call>>
      BY <1>0, <1>6 DEF NotifyNotFull
    <2> QED BY <2>2, <2>3, <2>4
  <1>7. ASSUME NEW d \in Calls, Send(d) PROVE \A u \in Threads : Part(u)'
    <2> SUFFICES ASSUME NEW u \in Threads PROVE Part(u)'
      OBVIOUS
    <2>1. UNCHANGED <<thread, permits, usercallq, receiver>>
      BY <1>7 DEF Send
    <2>2. Excuse2 => Excuse2'
      <3>1. ~ \E c \in Calls : call[c] = "notifying"
        BY <1>7 DEF Send, Interruptible
      <3>2. CASE Len(returnq) = ReturnQueueSize
        <4>1. returnq' = returnq
          BY <1>0, <1>7, <1>a, <3>2, SizesAssumption DEF Send
        <4> QED BY <3>1, <4>1
      <3>3. CASE Len(returnq) < ReturnQueueSize /\ returnq = <<>>
        <4>1. call'[d] = "notifying"
          BY <1>0, <1>7, <1>a, <3>3, SizesAssumption DEF Send, AsyncTypeOK
        <4> QED BY <4>1
      <3>4. CASE returnq # <<>>
        BY <3>1, <3>4
      <3> QED BY <1>7, <3>2, <3>3, <3>4 DEF Send
    <2>3. Part(u)
      BY <1>0
    <2> QED BY <1>b, <2>1, <2>2, <2>3, VainKept
  <1>8. ASSUME NEW d \in Calls, NotifyNotEmpty(d) PROVE \A u \in Threads : Part(u)'
    <2> SUFFICES ASSUME NEW u \in Threads PROVE Part(u)'
      OBVIOUS
    <2>1. permits'[u][NotEmpty] > 0 /\ permits'[u][NotFull] = permits[u][NotFull]
      BY <1>0, <1>8, <1>b, NotifyTypes DEF NotifyNotEmpty
    <2>2. ~WaitsInVain(u, NotEmpty)'
      BY <2>1 DEF WaitsInVain
    <2>3. WaitsInVain(u, NotFull)' => WaitsInVain(u, NotFull)
      BY <1>8, <1>b, <2>1, VainKept DEF NotifyNotEmpty
    <2>4. Part(u) /\ UNCHANGED <<usercallq, receiver>>
      BY <1>0, <1>8 DEF NotifyNotEmpty
    <2> QED BY <2>2, <2>3, <2>4
  <1>9. CASE UNCHANGED vars
    BY <1>0, <1>9 DEF vars, WaitsInVain
  <1> QED BY <1>1, <1>2, <1>3, <1>4, <1>5, <1>6, <1>7, <1>8, <1>9 DEF Next, Runner

LEMMA WakeInit == Init => WakeInv
  <1> SUFFICES ASSUME Init PROVE WakeInv
    OBVIOUS
  <1>1. AsyncTypeOK
    BY TypeInit
  <1>2. BoundInv
    BY SizesAssumption DEF Init, BoundInv
  <1>3. RunnerNotStranded
    BY DEF Init, RunnerNotStranded
  <1>4. EnclaveInv
    BY DEF Init, EnclaveInv, WaitsInVain, Running, Sent, Waits
  <1> QED BY <1>1, <1>2, <1>3, <1>4 DEF WakeInv

LEMMA WakeStep == WakeInv /\ [Next]_vars => WakeInv'
  <1> SUFFICES ASSUME WakeInv, [Next]_vars PROVE WakeInv'
    OBVIOUS
  <1>1. AsyncTypeOK'
    BY TypeStep DEF WakeInv
  <1>2. BoundInv'
    BY BoundStep DEF WakeInv
  <1> QED BY <1>1, <1>2, RunnerStep, EnclaveStep DEF WakeInv

LEMMA WakeImplies == WakeInv => EnclaveNotStranded
  <1> SUFFICES ASSUME WakeInv, NEW t \in Threads, thread[t].at = "waiting",
                      permits[t][thread[t].ev] = 0
               PROVE  IF thread[t].ev = "EV_USERCALLQ_NOT_FULL"
                      THEN Len(usercallq) = UsercallQueueSize \/ receiver = "notifying"
                      ELSE returnq = <<>> \/ \E c \in Calls : call[c] = "notifying"
    BY DEF EnclaveNotStranded
  <1>1. thread[t].ev \in Events /\ thread[t] = Waits(thread[t].ev)
    BY ThreadEvents DEF WakeInv, AsyncTypeOK
  <1>2. WaitsInVain(t, thread[t].ev)
    BY <1>1 DEF WaitsInVain
  <1> QED BY <1>1, <1>2 DEF WakeInv, EnclaveInv, Events

\* No task of the runner sleeps for good on a queue that it could use, although
\* the broadcast channel holds one message only (mod.rs:1676-1682): for every
\* number of threads and usercalls, and every size of the queues.
THEOREM RunnerWakeup == Spec => []RunnerNotStranded
  <1>1. WakeInv => RunnerNotStranded
    BY DEF WakeInv
  <1> QED BY <1>1, WakeInit, WakeStep, PTL DEF Spec

\* No thread of the enclave sleeps for good on a queue that it could use
\* (mod.rs:1686-1699).
THEOREM EnclaveWakeup == Spec => []EnclaveNotStranded
  <1> QED BY WakeInit, WakeStep, WakeImplies, PTL DEF Spec

-----------------------------------------------------------------------------
(***************************************************************************)
(* Answers                                                                 *)
(***************************************************************************)
\* A usercall that was not in the queue of usercalls is added to it once, and
\* the one that is taken from it was there once.
LEMMA QueuedStep == AsyncTypeOK /\ QueuedInv /\ [Next]_vars => QueuedInv'
  <1> SUFFICES ASSUME AsyncTypeOK, QueuedInv, [Next]_vars PROVE QueuedInv'
    OBVIOUS
  <1>0. \A i \in 1 .. Len(usercallq) : usercallq[i] \in Calls
    BY DEF AsyncTypeOK
  <1>1. ASSUME NEW t \in Threads, NEW c \in Calls, Push(t, c) PROVE QueuedInv'
    <2>1. CASE Len(usercallq) < UsercallQueueSize
      <3>1. usercallq' = Append(usercallq, c) /\ call' = [call EXCEPT ![c] = "queued"]
        BY <1>1, <2>1 DEF Push
      <3>2. call[c] = "new"
        BY <1>1 DEF Push
      <3>3. \A i \in 1 .. Len(usercallq) : usercallq[i] # c
        BY <3>2 DEF QueuedInv
      <3>4. /\ Len(usercallq') = Len(usercallq) + 1 /\ Len(usercallq) \in Nat
            /\ \A i \in 1 .. Len(usercallq) : usercallq'[i] = usercallq[i]
            /\ usercallq'[Len(usercallq) + 1] = c
        BY <3>1, AppendFacts DEF AsyncTypeOK
      <3>5. \A d \in Calls : call'[d] = IF d = c THEN "queued" ELSE call[d]
        BY <3>1 DEF AsyncTypeOK
      <3>6. \A i \in 1 .. Len(usercallq') : call'[usercallq'[i]] = "queued"
        BY <1>0, <3>4, <3>5 DEF QueuedInv
      <3>7. \A i, j \in 1 .. Len(usercallq') : usercallq'[i] = usercallq'[j] => i = j
        BY <3>3, <3>4 DEF QueuedInv
      <3> QED BY <3>6, <3>7 DEF QueuedInv
    <2>2. CASE ~(Len(usercallq) < UsercallQueueSize)
      BY <1>1, <2>2 DEF Push, QueuedInv
    <2> QED BY <2>1, <2>2
  <1>2. ASSUME Receive PROVE QueuedInv'
    <2>1. CASE usercallq = <<>>
      BY <1>2, <2>1 DEF Receive, QueuedInv
    <2>2. CASE usercallq # <<>>
      <3>1. usercallq' = Tail(usercallq) /\ call' = [call EXCEPT ![usercallq[1]] = "received"]
        BY <1>2, <2>2, TailFacts DEF Receive, AsyncTypeOK
      <3>2. /\ Len(usercallq') = Len(usercallq) - 1 /\ Len(usercallq) \in Nat \ {0}
            /\ \A i \in 1 .. Len(usercallq) - 1 : usercallq'[i] = usercallq[i + 1]
        BY <2>2, <3>1, TailFacts DEF AsyncTypeOK
      <3>3. \A d \in Calls : d # usercallq[1] => call'[d] = call[d]
        BY <3>1 DEF AsyncTypeOK
      <3>4. ASSUME NEW i \in 1 .. Len(usercallq') PROVE call'[usercallq'[i]] = "queued"
        <4>1. i + 1 \in 1 .. Len(usercallq) /\ 1 \in 1 .. Len(usercallq) /\ i + 1 # 1
          BY <3>2
        <4>2. usercallq[i + 1] # usercallq[1] /\ call[usercallq[i + 1]] = "queued"
          BY <4>1 DEF QueuedInv
        <4> QED BY <1>0, <3>2, <3>3, <4>1, <4>2
      <3>5. \A i, j \in 1 .. Len(usercallq') : usercallq'[i] = usercallq'[j] => i = j
        BY <3>2 DEF QueuedInv
      <3> QED BY <3>4, <3>5 DEF QueuedInv
    <2> QED BY <2>1, <2>2
  <1>3. ASSUME NEW c \in Calls, Send(c) \/ NotifyNotEmpty(c) PROVE QueuedInv'
    <2>1. usercallq' = usercallq /\ call[c] # "queued"
      BY <1>3 DEF Send, NotifyNotEmpty
    <2>2. \A d \in Calls : call[d] = "queued" => call'[d] = "queued"
      BY <1>3, <2>1 DEF Send, NotifyNotEmpty, AsyncTypeOK
    <2> QED BY <1>0, <2>1, <2>2 DEF QueuedInv
  <1>4. CASE UNCHANGED <<usercallq, call>>
    BY <1>4 DEF QueuedInv
  <1> QED BY <1>1, <1>2, <1>3, <1>4
          DEF Next, Runner, vars, Pop, Signal, LoopSync, WaitEnds, NotifyNotFull

LEMMA AnsweredStep == AnswerInv /\ [Next]_vars => AnsweredOnce'
  <1> SUFFICES ASSUME AnswerInv, [Next]_vars PROVE AnsweredOnce'
    OBVIOUS
  <1> DEFINE Count(d) == Cardinality(Occurrences(returnq, d))
             Sum(d) == IF call[d] \in {"notifying", "answered"} THEN 1 ELSE 0
  <1>0. AsyncTypeOK /\ QueuedInv /\ \A d \in Calls : Count(d) + answers[d] = Sum(d)
    BY DEF AnswerInv, AnsweredOnce, Occurrences
  <1>a. \A d \in Calls : Count(d) \in Nat /\ answers[d] \in Nat
    BY <1>0, OccurrencesFinite DEF AsyncTypeOK
  <1> SUFFICES ASSUME NEW d \in Calls PROVE (Count(d) + answers[d] = Sum(d))'
    BY DEF AnsweredOnce, Occurrences
  <1>1. ASSUME NEW t \in Threads, NEW c \in Calls, Push(t, c)
        PROVE  (Count(d) + answers[d] = Sum(d))'
    <2>1. Sum(d)' = Sum(d)
      BY <1>0, <1>1 DEF Push, AsyncTypeOK
    <2>2. returnq' = returnq /\ answers' = answers
      BY <1>1 DEF Push
    <2> QED BY <1>0, <2>1, <2>2
  <1>2. ASSUME NEW t \in Threads, Pop(t) PROVE (Count(d) + answers[d] = Sum(d))'
    <2>1. Sum(d)' = Sum(d)
      BY <1>2 DEF Pop
    <2>2. CASE returnq = <<>>
      <3>1. returnq' = returnq /\ answers' = answers
        BY <1>2, <2>2 DEF Pop
      <3> QED BY <1>0, <2>1, <3>1
    <2>3. CASE returnq # <<>>
      <3>1. returnq' = Tail(returnq)
        BY <1>2, <2>3 DEF Pop
      <3>2. answers'[d] = answers[d] + (IF d = Head(returnq) THEN 1 ELSE 0)
        BY <1>0, <1>2, <1>a, <2>3 DEF Pop, AsyncTypeOK
      <3>3. Count(d) = Cardinality(Occurrences(Tail(returnq), d))
                        + (IF d = Head(returnq) THEN 1 ELSE 0)
        BY <1>0, <2>3, OccurrencesTail DEF AsyncTypeOK
      <3>4. Cardinality(Occurrences(Tail(returnq), d)) \in Nat
        BY <1>0, <2>3, TailFacts, OccurrencesFinite DEF AsyncTypeOK
      <3>5. Cardinality(Occurrences(Tail(returnq), d)) + answers'[d] = Count(d) + answers[d]
        <4> HIDE DEF Count
        <4> QED BY <1>a, <3>2, <3>3, <3>4
      <3> QED BY <1>0, <2>1, <3>1, <3>5
    <2> QED BY <2>2, <2>3
  <1>3. ASSUME Receive PROVE (Count(d) + answers[d] = Sum(d))'
    <2>1. returnq' = returnq /\ answers' = answers
      BY <1>3 DEF Receive
    <2>2. Sum(d)' = Sum(d)
      <3>1. CASE usercallq = <<>>
        BY <1>3, <3>1 DEF Receive
      <3>2. CASE usercallq # <<>>
        <4>1. Head(usercallq) \in Calls /\ call[Head(usercallq)] = "queued"
          BY <1>0, <3>2, TailFacts DEF AsyncTypeOK, QueuedInv
        <4>2. call' = [call EXCEPT ![Head(usercallq)] = "received"]
          BY <1>3, <3>2 DEF Receive
        <4> QED BY <1>0, <4>1, <4>2 DEF AsyncTypeOK
      <3> QED BY <3>1, <3>2
    <2> QED BY <1>0, <2>1, <2>2
  <1>4. ASSUME NEW c \in Calls, Send(c) PROVE (Count(d) + answers[d] = Sum(d))'
    <2>1. answers' = answers /\ call[c] \in {"received", "waiting"}
      BY <1>4 DEF Send
    <2>2. CASE returnq' = returnq /\ call' = [call EXCEPT ![c] = "waiting"]
      <3>1. Sum(d)' = Sum(d)
        BY <1>0, <2>1, <2>2 DEF AsyncTypeOK
      <3> QED BY <1>0, <2>1, <2>2, <3>1
    <2>3. CASE /\ returnq' = Append(returnq, c)
               /\ call' = [call EXCEPT ![c] = IF returnq = <<>> THEN "notifying" ELSE "answered"]
      <3>1. Sum(d)' = Sum(d) + (IF d = c THEN 1 ELSE 0)
        BY <1>0, <2>1, <2>3 DEF AsyncTypeOK
      <3>2. Cardinality(Occurrences(Append(returnq, c), d)) = Count(d) + (IF d = c THEN 1 ELSE 0)
        BY <1>0, OccurrencesAppend DEF AsyncTypeOK
      <3>3. Cardinality(Occurrences(Append(returnq, c), d)) + answers[d]
                = (Count(d) + answers[d]) + (IF d = c THEN 1 ELSE 0)
        <4> HIDE DEF Count
        <4> QED BY <1>a, <3>2
      <3> QED BY <1>0, <2>1, <2>3, <3>1, <3>3
    <2> QED BY <1>4, <2>2, <2>3 DEF Send
  <1>5. ASSUME NEW c \in Calls, NotifyNotEmpty(c) PROVE (Count(d) + answers[d] = Sum(d))'
    <2>1. returnq' = returnq /\ answers' = answers
      BY <1>5 DEF NotifyNotEmpty
    <2>2. Sum(d)' = Sum(d)
      BY <1>0, <1>5 DEF NotifyNotEmpty, AsyncTypeOK
    <2> QED BY <1>0, <2>1, <2>2
  <1>6. CASE UNCHANGED <<returnq, call, answers>>
    BY <1>0, <1>6
  <1> QED BY <1>1, <1>2, <1>3, <1>4, <1>5, <1>6
          DEF Next, Runner, vars, Signal, LoopSync, WaitEnds, NotifyNotFull

LEMMA AnswerInit == Init => AnswerInv
  <1> SUFFICES ASSUME Init PROVE AnswerInv
    OBVIOUS
  <1>1. AsyncTypeOK /\ QueuedInv
    BY TypeInit DEF Init, QueuedInv
  <1>2. ASSUME NEW c \in Calls
        PROVE  Cardinality({i \in 1 .. Len(returnq) : returnq[i] = c}) = 0
    <2>1. {i \in 1 .. Len(returnq) : returnq[i] = c} = {}
      BY DEF Init
    <2> QED BY <2>1, FS_EmptySet
  <1>3. AnsweredOnce
    BY <1>2 DEF Init, AnsweredOnce
  <1> QED BY <1>1, <1>3 DEF AnswerInv

\* An asynchronous usercall is answered at most once, and no answer is lost: one
\* that was sent is in the return queue or was read (interface_async.rs:22-39).
THEOREM AnswersConserved == Spec => []AnsweredOnce
  <1>1. AnswerInv /\ [Next]_vars => AnswerInv'
    BY TypeStep, QueuedStep, AnsweredStep DEF AnswerInv
  <1>2. AnswerInv => AnsweredOnce
    BY DEF AnswerInv
  <1> QED BY <1>1, <1>2, AnswerInit, PTL DEF Spec
=============================================================================
