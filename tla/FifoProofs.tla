----------------------------- MODULE FifoProofs -----------------------------
(***************************************************************************)
(* The ring of ipc-queue is a bounded first-in first-out queue, for every  *)
(* length, any set of senders and any number of values: RingInv is         *)
(* inductive, and from it no two accesses to a slot overlap and every step *)
(* of the ring is a step of BoundedQueue or leaves the queue as it was.    *)
(***************************************************************************)
EXTENDS Fifo, TLAPS

-----------------------------------------------------------------------------
(***************************************************************************)
(* Facts about %.  The offsets of the ring are counters modulo twice its   *)
(* length, and slots are counters modulo its length; the solvers know      *)
(* neither for an arbitrary length.                                        *)
(***************************************************************************)
\* A multiple of n that lies strictly between -n and n is zero.
LEMMA MulBound ==
    ASSUME NEW n \in Nat \ {0}, NEW q \in Int, n * q < n, -n < n * q
    PROVE  q = 0
<1>1. ASSUME q >= 1 PROVE n * q >= n
  BY <1>1, SMT
<1>2. ASSUME q <= -1 PROVE n * q <= -n
  BY <1>2, SMT
<1>3. QED BY <1>1, <1>2, SMT

\* Division with remainder.
LEMMA DivMod ==
    ASSUME NEW n \in Nat \ {0}, NEW x \in Nat
    PROVE  /\ x \div n \in Nat
           /\ x % n \in 0 .. n - 1
           /\ x = n * (x \div n) + (x % n)
BY SMT

\* The remainder is the only residue that completes a multiple of n.
LEMMA DivModUnique ==
    ASSUME NEW n \in Nat \ {0}, NEW q \in Int, NEW r \in 0 .. n - 1,
           n * q + r \in Nat
    PROVE  (n * q + r) % n = r
<1> DEFINE x == n * q + r
<1>1. /\ x \div n \in Nat /\ x % n \in 0 .. n - 1 /\ x = n * (x \div n) + (x % n)
  BY DivMod
<1> HIDE DEF x
<1>2. x = n * q + r BY DEF x
<1> DEFINE d == (x \div n) - q
<1>3. d \in Int BY <1>1
<1>4. n * d = n * (x \div n) - n * q BY <1>1, SMT
<1>4a. n * q \in Int /\ n * (x \div n) \in Int BY <1>1, SMT
<1>5. n * d = r - (x % n) BY <1>1, <1>2, <1>4, <1>4a, SMT
<1>6. d = 0 
  <2> HIDE DEF d
  <2>1. n * d < n /\ -n < n * d BY <1>1, <1>5, SMT
  <2> QED BY <2>1, <1>3, MulBound
<1>7. n * d = 0 BY <1>6, SMT
<1> HIDE DEF d
<1>8. x % n = r
  <2> DEFINE m == x % n
  <2>1. m \in Int BY <1>1
  <2>2. r - m = 0 BY <1>5, <1>7
  <2> HIDE DEF m
  <2>3. m = r BY <2>1, <2>2, SMT
  <2> QED BY <2>3 DEF m
<1> QED BY <1>8 DEF x

\* A remainder is a residue.
LEMMA ModRange ==
    ASSUME NEW n \in Nat \ {0}, NEW x \in Nat
    PROVE  x % n \in 0 .. n - 1
BY DivMod

\* A residue is its own remainder.
LEMMA ModSmall ==
    ASSUME NEW n \in Nat \ {0}, NEW x \in 0 .. n - 1
    PROVE  x % n = x
<1>1. n * 0 + x = x
  BY SMT
<1>2. n * 0 + x \in Nat
  BY SMT
<1> QED
  BY <1>1, <1>2, DivModUnique

\* Numbers less than n apart with the same remainder are equal: why equal
\* offsets mean an empty queue.
LEMMA ModCongruent ==
    ASSUME NEW n \in Nat \ {0}, NEW a \in Nat, NEW b \in Nat,
           a <= b, b - a < n, a % n = b % n
    PROVE  a = b
<1>1. /\ a \div n \in Nat /\ a % n \in 0 .. n - 1 /\ a = n * (a \div n) + (a % n)
      /\ b \div n \in Nat /\ b % n \in 0 .. n - 1 /\ b = n * (b \div n) + (b % n)
  BY DivMod
<1> DEFINE d == (b \div n) - (a \div n)
<1>2. d \in Int BY <1>1
<1>3. n * d = n * (b \div n) - n * (a \div n) BY <1>1, SMT
<1>4. n * (b \div n) \in Int /\ n * (a \div n) \in Int BY <1>1, SMT
<1>5. n * d = b - a BY <1>1, <1>3, <1>4, SMT
<1>6. n * d < n /\ -n < n * d BY <1>5, SMT
<1>7. d = 0 BY <1>2, <1>6, MulBound
<1>8. n * d = 0 BY <1>7, SMT
<1> QED BY <1>5, <1>8, SMT

\* Adding n keeps the remainder: a slot is used again one turn later.
LEMMA ModAdd ==
    ASSUME NEW n \in Nat \ {0}, NEW x \in Nat
    PROVE  (x + n) % n = x % n
<1>1. /\ x \div n \in Nat /\ x % n \in 0 .. n - 1 /\ x = n * (x \div n) + (x % n)
  BY DivMod
<1>2. n * ((x \div n) + 1) = n * (x \div n) + n BY <1>1, SMT
<1>3. n * (x \div n) \in Nat BY <1>1, SMT
<1>4. x + n = n * ((x \div n) + 1) + (x % n) BY <1>1, <1>2, <1>3, SMT
<1>5. (n * ((x \div n) + 1) + (x % n)) % n = x % n
  <2>1. (x \div n) + 1 \in Int /\ n * ((x \div n) + 1) + (x % n) \in Nat BY <1>1, <1>4, SMT
  <2> QED BY <2>1, <1>1, DivModUnique
<1> QED BY <1>4, <1>5

\* The successor modulo n, computed from the residue.
LEMMA ModSucc ==
    ASSUME NEW n \in Nat \ {0}, NEW x \in Nat
    PROVE  /\ ((x % n) + 1) % n = (x + 1) % n
           /\ (x + 1) % n = IF (x % n) + 1 = n THEN 0 ELSE (x % n) + 1
<1>1. /\ x \div n \in Nat /\ x % n \in 0 .. n - 1 /\ x = n * (x \div n) + (x % n)
  BY DivMod
<1>2. n * (x \div n) \in Nat BY <1>1, SMT
<1>3. CASE (x % n) + 1 = n
  <2>1. n * ((x \div n) + 1) = n * (x \div n) + n BY <1>1, SMT
  <2>2. x + 1 = n * ((x \div n) + 1) + 0 BY <1>1, <1>2, <1>3, <2>1, SMT
  <2>3. (x \div n) + 1 \in Int /\ n * ((x \div n) + 1) + 0 \in Nat BY <1>1, <2>2, SMT
  <2>4. (n * ((x \div n) + 1) + 0) % n = 0 BY <2>3, DivModUnique
  <2>5. (x + 1) % n = 0 BY <2>2, <2>4
  <2>6. n * 1 + 0 = n BY SMT
  <2>7. (n * 1 + 0) % n = 0 BY <2>6, DivModUnique
  <2> QED BY <1>3, <2>5, <2>6, <2>7
<1>4. CASE (x % n) + 1 # n
  <2>1. (x % n) + 1 \in 0 .. n - 1 BY <1>1, <1>4, SMT
  <2>2. x + 1 = n * (x \div n) + ((x % n) + 1) BY <1>1, <1>2, SMT
  <2>3. (n * (x \div n) + ((x % n) + 1)) % n = (x % n) + 1
    <3>1. x \div n \in Int /\ n * (x \div n) + ((x % n) + 1) \in Nat BY <1>1, <2>2, SMT
    <3> QED BY <2>1, <3>1, DivModUnique
  <2>4. (x + 1) % n = (x % n) + 1 BY <2>2, <2>3
  <2>5. n * 0 + ((x % n) + 1) = (x % n) + 1 BY <1>1, SMT
  <2>6. (n * 0 + ((x % n) + 1)) % n = (x % n) + 1
    <3>1. n * 0 + ((x % n) + 1) \in Nat BY <1>1, <2>5, SMT
    <3> QED BY <2>1, <3>1, DivModUnique
  <2> QED BY <1>4, <2>4, <2>5, <2>6
<1> QED BY <1>3, <1>4

\* The slot index does not depend on the bit that tells full from empty.
LEMMA ModTwice ==
    ASSUME NEW n \in Nat \ {0}, NEW x \in Nat
    PROVE  (x % (2 * n)) % n = x % n
<1> DEFINE m == 2 * n
<1>0. m \in Nat \ {0} BY SMT
<1> DEFINE q == x \div m
           r == x % m
           e == IF r >= n THEN 1 ELSE 0
<1>1. /\ q \in Nat /\ r \in 0 .. m - 1 /\ x = m * q + r BY <1>0, DivMod
<1> HIDE DEF q, r
<1>2. r - n * e \in 0 .. n - 1 BY <1>1, SMT
<1>3. m * q = n * (2 * q) BY <1>1, SMT
<1>4. n * (2 * q + e) = n * (2 * q) + n * e BY <1>1, SMT
<1>5. n * (2 * q) \in Nat /\ n * e \in Nat BY <1>1, SMT
<1>6. x = n * (2 * q + e) + (r - n * e) BY <1>1, <1>3, <1>4, <1>5, SMT
<1>7. r = n * e + (r - n * e) BY <1>1, <1>5, SMT
<1>8. (n * (2 * q + e) + (r - n * e)) % n = r - n * e
  <2>1. 2 * q + e \in Int /\ n * (2 * q + e) + (r - n * e) \in Nat BY <1>1, <1>6, SMT
  <2> HIDE DEF e
  <2> QED BY <2>1, <1>2, DivModUnique
<1>9. (n * e + (r - n * e)) % n = r - n * e
  <2>1. e \in Int /\ n * e + (r - n * e) \in Nat BY <1>1, <1>7, SMT
  <2> HIDE DEF e
  <2> QED BY <2>1, <1>2, DivModUnique
<1> HIDE DEF e, m
<1>10. x % n = r % n BY <1>6, <1>7, <1>8, <1>9
<1> QED BY <1>10 DEF r, m

-----------------------------------------------------------------------------
(***************************************************************************)
(* The ring                                                                *)
(***************************************************************************)
\* What the offsets say about the counters they are the remainders of.
LEMMA EmptyIffEqual ==
    ASSUME TypeOK, CountersInv
    PROVE  IsEmpty(offsets) <=> Len(sent) = Len(delivered)
<1>1. Len(sent) \in Nat /\ Len(delivered) \in Nat
  BY DEF TypeOK
<1>2. 2 * Slots \in Nat \ {0} /\ Len(sent) - Len(delivered) < 2 * Slots
  BY <1>1, SlotsAssumption DEF CountersInv
<1>3. Len(sent) % (2 * Slots) = Len(delivered) % (2 * Slots) => Len(delivered) = Len(sent)
  BY <1>1, <1>2, ModCongruent DEF CountersInv
<1> QED
  BY <1>3 DEF IsEmpty, CountersInv

\* is_full says that the counters are a whole turn apart.
LEMMA FullIffSlotsApart ==
    ASSUME TypeOK, CountersInv
    PROVE  IsFull(offsets) <=> Len(sent) = Len(delivered) + Slots
<1>1. Len(sent) \in Nat /\ Len(delivered) \in Nat /\ Slots \in Nat \ {0}
  BY SlotsAssumption DEF TypeOK
<1>2. /\ offsets.write % Slots = Len(sent) % Slots
      /\ offsets.read % Slots = Len(delivered) % Slots
  BY <1>1, ModTwice DEF CountersInv
<1>3. ASSUME IsFull(offsets) PROVE Len(sent) = Len(delivered) + Slots
  <2>1. Len(sent) # Len(delivered)
    BY <1>3, EmptyIffEqual DEF IsFull, IsEmpty
  <2>2. Len(sent) - Len(delivered) < Slots => Len(delivered) = Len(sent)
    BY <1>1, <1>2, <1>3, ModCongruent DEF IsFull, CountersInv
  <2> QED
    BY <1>1, <2>1, <2>2 DEF CountersInv
<1>4. ASSUME Len(sent) = Len(delivered) + Slots PROVE IsFull(offsets)
  <2>1. offsets.read # offsets.write
    BY <1>1, <1>4, EmptyIffEqual DEF IsEmpty
  <2>2. (Len(delivered) + Slots) % Slots = Len(delivered) % Slots
    BY <1>1, ModAdd
  <2> QED
    BY <1>2, <1>4, <2>1, <2>2 DEF IsFull
<1> QED
  BY <1>3, <1>4

\* Values that are in the queue together, or about to enter it, live in
\* different slots.
LEMMA SlotInjective ==
    ASSUME NEW r \in Nat, NEW j \in r + 1 .. r + Slots, NEW k \in r + 1 .. r + Slots,
           j % Slots = k % Slots
    PROVE  j = k
<1>1. j \in Nat /\ k \in Nat /\ Slots \in Nat \ {0} /\ j - k < Slots /\ k - j < Slots
  BY SlotsAssumption
<1>2. j <= k => j = k
  BY <1>1, ModCongruent
<1>3. k <= j => k = j
  BY <1>1, ModCongruent
<1> QED
  BY <1>1, <1>2, <1>3

\* A remainder modulo the length is the index of a slot.
LEMMA SlotIndex ==
    ASSUME NEW k \in Nat
    PROVE  k % Slots \in 0 .. Slots - 1
BY SlotsAssumption, ModRange

\* The receiver looks at the slot of the next value to be delivered.
LEMMA ReadSlotIsNext ==
    ASSUME TypeOK, CountersInv, rcur.read = offsets.read
    PROVE  /\ ReadSlot = (Len(delivered) + 1) % Slots
           /\ Increment(rcur.read) = (Len(delivered) + 1) % (2 * Slots)
<1>1. /\ Len(delivered) \in Nat /\ Len(delivered) + 1 \in Nat
      /\ Slots \in Nat \ {0} /\ 2 * Slots \in Nat \ {0}
  BY SlotsAssumption DEF TypeOK
<1>2. Increment(rcur.read) = (Len(delivered) + 1) % (2 * Slots)
  <2>1. ((Len(delivered) % (2 * Slots)) + 1) % (2 * Slots) = (Len(delivered) + 1) % (2 * Slots)
    BY <1>1, ModSucc
  <2> QED
    BY <2>1 DEF Increment, CountersInv
<1>3. ((Len(delivered) + 1) % (2 * Slots)) % Slots = (Len(delivered) + 1) % Slots
  BY <1>1, ModTwice
<1> QED
  BY <1>2, <1>3 DEF ReadSlot

\* The queue that bounded() returns satisfies the invariant of the ring.
LEMMA InitRingInv == Init => RingInv
<1> SUFFICES ASSUME Init PROVE RingInv
  OBVIOUS
<1>1. TypeOK
  <2>1. NoOffsets \in OffsetsType /\ NoValue \in SlotType
    BY SlotsAssumption, BoundsAssumption DEF NoOffsets, NoValue, OffsetsType, SlotType
  <2>2. 0 \in 0 .. Slots - 1 /\ 1 \in 1 .. MaxSends + 1
    BY SlotsAssumption, BoundsAssumption
  <2>3. /\ offsets \in OffsetsType /\ rcur \in OffsetsType /\ rval \in SlotType
        /\ cur \in [Senders -> OffsetsType]
        /\ data \in [0 .. Slots - 1 -> SlotType]
    BY <2>1 DEF Init
  <2>4. /\ pc \in [Senders -> SenderPCs]
        /\ op \in [Senders -> SenderOps \union {"none"}]
        /\ rpc \in ReceiverPCs
        /\ rop \in ReceiverOps \union {"none"}
    BY DEF Init, SenderPCs, ReceiverPCs
  <2>5. /\ slot \in [Senders -> 0 .. Slots - 1]
        /\ todo \in [Senders -> Nat]
        /\ serial \in [Senders -> 1 .. MaxSends + 1]
        /\ ticket \in [Senders -> Nat]
    BY <2>2 DEF Init
  <2>6. /\ wake \in [Senders -> BOOLEAN]
        /\ notified \in SUBSET Waiters
        /\ closed \in BOOLEAN
    BY DEF Init
  <2>7. sent \in Seq(Values) /\ delivered \in Seq(SlotType)
    BY DEF Init
  <2> QED
    BY <2>3, <2>4, <2>5, <2>6, <2>7 DEF TypeOK
<1>2. CountersInv
  <2>1. 0 % (2 * Slots) = 0
    <3>1. 2 * Slots \in Nat \ {0} /\ 0 \in 0 .. 2 * Slots - 1
      BY SlotsAssumption
    <3> QED
      BY <3>1, ModSmall
  <2> QED
    BY <2>1, SlotsAssumption DEF Init, CountersInv, NoOffsets
<1>3. SendersInv
  BY DEF Init, SendersInv, Writing
<1>4. SlotsInv
  <2>1. \A k \in 1 .. Slots : k % Slots \in 0 .. Slots - 1
    BY SlotIndex, SlotsAssumption
  <2> QED
    BY <2>1, SlotsAssumption DEF Init, SlotsInv, NoValue
<1>5. ReceiverInv
  BY DEF Init, ReceiverInv
<1> QED
  BY <1>1, <1>2, <1>3, <1>4, <1>5 DEF RingInv

-----------------------------------------------------------------------------
(***************************************************************************)
(* Steps of a sender that leave the ring alone                             *)
(***************************************************************************)

\* Such a step moves one sender between program counters at which it does not
\* write; it concerns only the type and the bookkeeping of that sender.
LEMMA QuietSenderStep ==
    ASSUME RingInv, TypeOK', NEW s \in Senders,
           UNCHANGED <<offsets, data, slot, serial, receiverVars, ticket, sent, delivered>>,
           ~Writing(s), NEW l, pc' = [pc EXCEPT ![s] = l], l \notin {"data", "id"},
           l = "cas" => ~IsFull(cur[s]'),
           \A t \in Senders \ {s} : cur[t]' = cur[t] /\ todo[t]' = todo[t],
           l \in {"load", "wait", "cas"} => todo[s]' >= 1 /\ serial[s] + todo[s]' <= MaxSends + 1
    PROVE  RingInv'
<1> USE DEF RingInv
<1>1. pc[s]' = l /\ \A t \in Senders \ {s} : pc[t]' = pc[t]
  BY DEF TypeOK
<1>2. \A t \in Senders : Writing(t)' <=> Writing(t)
  BY <1>1 DEF Writing
<1>3. CountersInv'
  BY DEF CountersInv
<1>4. SendersInv'
  <2> SUFFICES ASSUME NEW t \in Senders
               PROVE  /\ pc[t]' = "cas" => ~IsFull(cur[t]')
                      /\ pc[t]' \in {"load", "wait", "cas", "data", "id"} =>
                           todo[t]' >= 1 /\ serial[t]' + todo[t]' <= MaxSends + 1
                      /\ Writing(t)' => Writing(t)
    BY <1>2 DEF SendersInv, Val, Writing
  <2> QED
    BY <1>1, <1>2 DEF SendersInv
<1>5. SlotsInv'
  BY <1>2 DEF SlotsInv, receiverVars
<1>6. ReceiverInv'
  BY <1>2 DEF ReceiverInv, receiverVars
<1> QED
  BY <1>3, <1>4, <1>5, <1>6

\* A call of a send operation only moves the sender.
LEMMA CallSendInv ==
    ASSUME RingInv, NEW s \in Senders, NEW f \in SenderOps, NEW n \in 1 .. MaxBatch,
           CallSend(s, f, n)
    PROVE  RingInv'
<1> USE DEF RingInv, CallSend, SGoto
<1>1. TypeOK'
  BY BoundsAssumption DEF TypeOK, SenderPCs, receiverVars, syncVars
<1>2. todo[s]' = n /\ \A t \in Senders \ {s} : todo[t]' = todo[t]
  BY DEF TypeOK
<1>3. ~Writing(s)
  BY DEF Writing
<1>4. todo[s]' >= 1 /\ serial[s] + todo[s]' <= MaxSends + 1
  BY <1>2
<1>5. UNCHANGED <<offsets, data, cur, slot, serial, receiverVars, ticket, sent, delivered>>
  OBVIOUS
<1>6. pc' = [pc EXCEPT ![s] = "load"]
  OBVIOUS
<1> QED
  BY <1>1, <1>2, <1>3, <1>4, <1>5, <1>6, QuietSenderStep

\* The first load of try_send_impl remembers offsets no newer than the shared ones.
LEMMA LoadOffsetsInv ==
    ASSUME RingInv, NEW s \in Senders, LoadOffsets(s)
    PROVE  RingInv'
<1> USE DEF RingInv, LoadOffsets, SGoto
<1>1. TypeOK'
  BY DEF TypeOK, SenderPCs, Finish, receiverVars, syncVars
<1>2. ~Writing(s)
  BY DEF Writing
<1>3. todo[s] >= 1 /\ serial[s] + todo[s] <= MaxSends + 1
  BY DEF SendersInv
<1>4. CASE ~IsFull(offsets)
  <2>1. cur[s]' = offsets /\ \A t \in Senders \ {s} : cur[t]' = cur[t]
    BY <1>4 DEF TypeOK
  <2>2. pc' = [pc EXCEPT ![s] = "cas"]
    BY <1>4
  <2> QED
    BY <1>1, <1>2, <1>3, <1>4, <2>1, <2>2, QuietSenderStep
<1>5. CASE IsFull(offsets)
  <2> DEFINE l == IF op[s] = "send" THEN "wait" ELSE Finish(s)
  <2>1. pc' = [pc EXCEPT ![s] = l] /\ cur' = cur
    BY <1>5
  <2>2. l \in {"wait", "notify", "idle"}
    BY DEF Finish
  <2> HIDE DEF l
  <2> QED
    BY <1>1, <1>2, <1>3, <2>1, <2>2, QuietSenderStep
<1> QED
  BY <1>4, <1>5

\* A lost compare-exchange leaves the ring alone.
LEMMA RetryInv ==
    ASSUME RingInv, NEW s \in Senders, Retry(s)
    PROVE  RingInv'
<1> USE DEF RingInv, Retry, SGoto
<1>1. TypeOK'
  <2>1. NoOffsets \in OffsetsType
    BY SlotsAssumption DEF NoOffsets, OffsetsType
  <2> QED
    BY <2>1 DEF TypeOK, SenderPCs, receiverVars, syncVars
<1>2. ~Writing(s)
  BY DEF Writing
<1>3. todo[s] >= 1 /\ serial[s] + todo[s] <= MaxSends + 1
  BY DEF SendersInv
<1>4. \A t \in Senders \ {s} : cur[t]' = cur[t]
  BY DEF TypeOK
<1> QED
  BY <1>1, <1>2, <1>3, <1>4, QuietSenderStep

\* Notifying the receiver leaves the ring alone.
LEMMA NotifyNotEmptyInv ==
    ASSUME RingInv, NEW s \in Senders, NotifyNotEmpty(s)
    PROVE  RingInv'
<1> USE DEF RingInv, NotifyNotEmpty, SGoto
<1>1. TypeOK'
  BY DEF TypeOK, SenderPCs, Notify, Waiters, receiverVars
<1>2. ~Writing(s)
  BY DEF Writing
<1> QED
  BY <1>1, <1>2, QuietSenderStep

\* Waiting for room leaves the ring alone.
LEMMA WaitNotFullInv ==
    ASSUME RingInv, NEW s \in Senders, WaitNotFull(s)
    PROVE  RingInv'
<1> USE DEF RingInv, WaitNotFull, SGoto
<1>1. TypeOK'
  BY DEF TypeOK, SenderPCs, receiverVars
<1>2. ~Writing(s)
  BY DEF Writing
<1>3. todo[s] >= 1 /\ serial[s] + todo[s] <= MaxSends + 1
  BY DEF SendersInv
<1>4. pc' = [pc EXCEPT ![s] = "load"] \/ pc' = [pc EXCEPT ![s] = "idle"]
  OBVIOUS
<1> QED
  BY <1>1, <1>2, <1>3, <1>4, QuietSenderStep

-----------------------------------------------------------------------------
(***************************************************************************)
(* Steps of a sender on the ring                                           *)
(***************************************************************************)

\* Two senders that are writing have different slots, and neither is the slot
\* of another value in the queue nor a free one.
LEMMA WritersApart ==
    ASSUME RingInv, NEW s \in Senders, Writing(s)
    PROVE  /\ ticket[s] \in Len(delivered) + 1 .. Len(sent)
           /\ \A t \in Senders \ {s} : Writing(t) => slot[t] # slot[s]
           /\ \A k \in Len(delivered) + 1 .. Len(delivered) + Slots :
                k # ticket[s] => k % Slots # slot[s]
<1> USE DEF RingInv
<1>1. Len(sent) \in Nat /\ Len(delivered) \in Nat /\ Slots \in Nat \ {0}
  BY SlotsAssumption DEF TypeOK
<1>2. /\ ticket[s] \in Len(delivered) + 1 .. Len(sent)
      /\ slot[s] = ticket[s] % Slots
      /\ \A t \in Senders \ {s} : Writing(t) => ticket[t] # ticket[s]
  BY DEF SendersInv
<1>3. Len(sent) <= Len(delivered) + Slots
  BY DEF CountersInv
<1>4. ASSUME NEW k \in Len(delivered) + 1 .. Len(delivered) + Slots, k # ticket[s]
      PROVE  k % Slots # slot[s]
  <2>1. ticket[s] \in Len(delivered) + 1 .. Len(delivered) + Slots
    BY <1>1, <1>2, <1>3
  <2> QED
    BY <1>1, <1>2, <1>4, <2>1, SlotInjective
<1>5. ASSUME NEW t \in Senders \ {s}, Writing(t) PROVE slot[t] # slot[s]
  <2>1. ticket[t] \in Len(delivered) + 1 .. Len(sent) /\ slot[t] = ticket[t] % Slots
    BY <1>5 DEF SendersInv
  <2>2. ticket[t] \in Len(delivered) + 1 .. Len(delivered) + Slots
    BY <1>1, <1>3, <2>1
  <2> QED
    BY <1>2, <1>4, <1>5, <2>1, <2>2
<1> QED
  BY <1>2, <1>4, <1>5

\* A successful compare-exchange gives the sender a slot that nobody else uses.
LEMMA ReserveInv ==
    ASSUME RingInv, NEW s \in Senders, Reserve(s)
    PROVE  RingInv' /\ Len(sent) < Len(delivered) + Slots /\ Val(s) \in Values
<1> USE DEF RingInv
<1> DEFINE W == Len(sent)
           R == Len(delivered)
<1>1. W \in Nat /\ R \in Nat /\ Slots \in Nat \ {0} /\ 2 * Slots \in Nat \ {0} /\ W + 1 \in Nat
  BY SlotsAssumption DEF TypeOK
<1>2. W < R + Slots
  <2>1. ~IsFull(offsets)
    BY DEF Reserve, SendersInv
  <2> QED
    BY <1>1, <2>1, FullIffSlotsApart DEF CountersInv
<1>3. /\ offsets' = [offsets EXCEPT !.write = (W + 1) % (2 * Slots)]
      /\ slot' = [slot EXCEPT ![s] = (W + 1) % Slots]
  <2>1. ((W % (2 * Slots)) + 1) % (2 * Slots) = (W + 1) % (2 * Slots)
    BY <1>1, ModSucc
  <2>2. Increment(offsets.write) = (W + 1) % (2 * Slots)
    BY <2>1 DEF Increment, CountersInv
  <2>3. ((W + 1) % (2 * Slots)) % Slots = (W + 1) % Slots
    BY <1>1, ModTwice
  <2>4. [offsets EXCEPT !.write = (W + 1) % (2 * Slots)].write = (W + 1) % (2 * Slots)
    BY DEF TypeOK, OffsetsType
  <2> QED
    BY <2>2, <2>3, <2>4 DEF Reserve
<1>4. (W + 1) % (2 * Slots) \in 0 .. 2 * Slots - 1 /\ (W + 1) % Slots \in 0 .. Slots - 1
  BY <1>1, ModRange
<1>5. Val(s) \in Values
  BY BoundsAssumption DEF Reserve, SendersInv, Val, Values, TypeOK
<1>6. /\ sent' \in Seq(Values) /\ Len(sent') = W + 1 /\ sent'[W + 1] = Val(s)
      /\ \A k \in 1 .. W : sent'[k] = sent[k]
  BY <1>5 DEF Reserve, TypeOK
<1>7. /\ pc' = [pc EXCEPT ![s] = "data"] /\ ticket' = [ticket EXCEPT ![s] = W + 1]
      /\ wake' = [wake EXCEPT ![s] = wake[s] \/ IsEmpty(cur[s])]
      /\ cur' = [cur EXCEPT ![s] = NoOffsets]
      /\ UNCHANGED <<data, op, todo, serial, receiverVars, syncVars, delivered>>
  BY DEF Reserve, SGoto
<1>8. /\ pc[s]' = "data" /\ ticket[s]' = W + 1 /\ slot[s]' = (W + 1) % Slots
      /\ \A t \in Senders \ {s} : pc[t]' = pc[t] /\ ticket[t]' = ticket[t]
                                  /\ slot[t]' = slot[t] /\ cur[t]' = cur[t]
  BY <1>3, <1>7 DEF TypeOK
<1>9. TypeOK'
  <2>1. offsets' \in OffsetsType
    BY <1>3, <1>4 DEF TypeOK, OffsetsType
  <2>2. NoOffsets \in OffsetsType
    BY SlotsAssumption DEF NoOffsets, OffsetsType
  <2>3. wake' \in [Senders -> BOOLEAN]
    BY <1>7 DEF TypeOK
  <2>4. pc' \in [Senders -> SenderPCs] /\ ticket' \in [Senders -> Nat]
        /\ cur' \in [Senders -> OffsetsType] /\ slot' \in [Senders -> 0 .. Slots - 1]
    BY <1>1, <1>3, <1>4, <1>7, <2>2 DEF TypeOK, SenderPCs
  <2> QED
    BY <1>6, <1>7, <2>1, <2>3, <2>4 DEF TypeOK, receiverVars, syncVars
<1>10. CountersInv'
  <2>1. offsets'.write = (W + 1) % (2 * Slots) /\ offsets'.read = offsets.read
    BY <1>3 DEF TypeOK, OffsetsType
  <2>2. W + 1 <= R + Slots /\ R <= W + 1
    BY <1>1, <1>2 DEF CountersInv
  <2>3. Len(sent)' = W + 1 /\ Len(delivered)' = R /\ offsets.read = R % (2 * Slots)
    BY <1>6, <1>7 DEF CountersInv
  <2> HIDE DEF W, R
  <2> QED
    BY <2>1, <2>2, <2>3 DEF CountersInv
<1>11. SendersInv'
  <2>1. data[(W + 1) % Slots].id = 0
    BY <1>1, <1>2 DEF SlotsInv
  <2>2. \A t \in Senders \ {s} : Writing(t) => ticket[t] \in R + 1 .. W
    BY DEF SendersInv
  <2> SUFFICES ASSUME NEW t \in Senders
               PROVE  /\ pc[t]' = "cas" => ~IsFull(cur[t]')
                      /\ pc[t]' \in {"load", "wait", "cas", "data", "id"} =>
                           todo[t]' >= 1 /\ serial[t]' + todo[t]' <= MaxSends + 1
                      /\ Writing(t)' =>
                          /\ ticket[t]' \in Len(delivered') + 1 .. Len(sent')
                          /\ slot[t]' = ticket[t]' % Slots
                          /\ sent'[ticket[t]'] = Val(t)'
                          /\ data'[slot[t]'].id = 0
                          /\ pc[t]' = "id" => data'[slot[t]'].data = t
                          /\ \A u \in Senders \ {t} : Writing(u)' => ticket[u]' # ticket[t]'
    BY DEF SendersInv
  <2>3. CASE t = s
    <3>1. todo[s] >= 1 /\ serial[s] + todo[s] <= MaxSends + 1
      BY DEF SendersInv, Reserve
    <3>2. \A u \in Senders \ {s} : Writing(u)' => ticket[u]' # W + 1
      BY <1>1, <1>8, <2>2 DEF Writing
    <3> QED
      BY <1>1, <1>2, <1>6, <1>7, <1>8, <2>1, <2>3, <3>1, <3>2 DEF Val, CountersInv
  <2>4. CASE t # s
    <3>1. Writing(t)' <=> Writing(t)
      BY <1>8, <2>4 DEF Writing
    <3>2. ASSUME Writing(t)
          PROVE  \A u \in Senders \ {t} : Writing(u)' => ticket[u]' # ticket[t]'
      BY <1>1, <1>8, <2>2, <2>4, <3>2 DEF Writing, SendersInv
    <3>3. Writing(t) => ticket[t] \in 1 .. W /\ ticket[t] \in R + 1 .. W + 1
      BY <1>1, <2>2, <2>4
    <3> QED
      BY <1>6, <1>7, <1>8, <2>4, <3>1, <3>2, <3>3 DEF Val, SendersInv
  <2> QED
    BY <2>3, <2>4
<1>12. SlotsInv'
  <2>1. ASSUME NEW k \in R + 1 .. W + 1
        PROVE  \/ \E t \in Senders : Writing(t)' /\ ticket[t]' = k
               \/ data'[k % Slots] = sent'[k]
               \/ k = R + 1 /\ rpc' = "adjust"
    <3>1. CASE k = W + 1
      BY <1>8, <3>1 DEF Writing
    <3>2. CASE k # W + 1
      <4>1. k \in R + 1 .. W /\ k \in 1 .. W
        BY <1>1, <3>2
      <4>2. CASE \E t \in Senders : Writing(t) /\ ticket[t] = k
        <5>1. PICK t \in Senders : Writing(t) /\ ticket[t] = k
          BY <4>2
        <5>2. t # s
          BY <5>1 DEF Writing, Reserve
        <5> QED
          BY <1>8, <5>1, <5>2 DEF Writing
      <4> QED
        BY <1>6, <1>7, <4>1, <4>2 DEF SlotsInv, receiverVars
    <3> QED
      BY <3>1, <3>2
  <2>2. \A k \in W + 2 .. R + Slots : data[k % Slots].id = 0
    BY <1>1 DEF SlotsInv
  <2>3. Len(sent') + 1 = W + 2
    BY <1>1, <1>6
  <2> QED
    BY <1>6, <1>7, <2>1, <2>2, <2>3 DEF SlotsInv
<1>13. ReceiverInv'
  <2>1. offsets'.read = offsets.read
    BY <1>3 DEF TypeOK, OffsetsType
  <2>2. rpc \in {"spin", "read", "clear", "adjust"} => sent'[R + 1] = sent[R + 1] /\ R < W
    BY <1>1, <1>6 DEF ReceiverInv
  <2>3. \A t \in Senders : Writing(t)' => t = s \/ (Writing(t) /\ ticket[t]' = ticket[t])
    BY <1>8 DEF Writing
  <2> QED
    BY <1>1, <1>6, <1>7, <1>8, <2>1, <2>2, <2>3 DEF ReceiverInv, receiverVars
<1> QED
  BY <1>2, <1>5, <1>9, <1>10, <1>11, <1>12, <1>13

\* Writing the data of a reserved slot disturbs no other slot.
LEMMA WriteDataInv ==
    ASSUME RingInv, NEW s \in Senders, WriteData(s)
    PROVE  RingInv'
<1> USE DEF RingInv
<1>1. Writing(s) /\ pc' = [pc EXCEPT ![s] = "id"]
  BY DEF WriteData, SGoto, Writing
<1>2. slot[s] \in 0 .. Slots - 1
  BY DEF TypeOK
<1>3. /\ data' = [data EXCEPT ![slot[s]].data = s]
      /\ UNCHANGED <<offsets, op, todo, cur, slot, wake, serial, receiverVars, syncVars,
                     ticket, sent, delivered>>
  BY DEF WriteData, Val
<1>4. /\ data'[slot[s]].id = data[slot[s]].id /\ data'[slot[s]].data = s
      /\ \A i \in 0 .. Slots - 1 : i # slot[s] => data'[i] = data[i]
      /\ data' \in [0 .. Slots - 1 -> SlotType]
  BY <1>2, <1>3 DEF TypeOK, SlotType
<1>5. /\ pc[s]' = "id" /\ \A t \in Senders \ {s} : pc[t]' = pc[t]
      /\ \A t \in Senders : Writing(t)' <=> Writing(t)
  BY <1>1 DEF TypeOK, Writing
<1>6. Len(sent) \in Nat /\ Len(delivered) \in Nat /\ Slots \in Nat \ {0}
  BY SlotsAssumption DEF TypeOK
<1>7. /\ \A t \in Senders \ {s} : Writing(t) => slot[t] # slot[s]
      /\ \A k \in Len(delivered) + 1 .. Len(delivered) + Slots :
           k # ticket[s] => k % Slots # slot[s]
      /\ ticket[s] \in Len(delivered) + 1 .. Len(sent)
  BY <1>1, WritersApart
<1>8. \A k \in Len(delivered) + 1 .. Len(delivered) + Slots :
        k # ticket[s] => data'[k % Slots] = data[k % Slots]
  <2> TAKE k \in Len(delivered) + 1 .. Len(delivered) + Slots
  <2>1. k \in Nat
    BY <1>6
  <2>2. k % Slots \in 0 .. Slots - 1
    BY <2>1, SlotIndex
  <2> QED
    BY <1>4, <1>7, <2>2
<1>9. TypeOK'
  BY <1>1, <1>3, <1>4 DEF TypeOK, SenderPCs, receiverVars, syncVars
<1>10. CountersInv'
  BY <1>3 DEF CountersInv
<1>11. SendersInv'
  <2>1. \A t \in Senders \ {s} : Writing(t) => data'[slot[t]] = data[slot[t]]
    BY <1>4, <1>7 DEF TypeOK
  <2>2. data'[slot[s]].id = 0 /\ data'[slot[s]].data = s
    BY <1>1, <1>4 DEF SendersInv
  <2>3. todo[s] >= 1 /\ serial[s] + todo[s] <= MaxSends + 1
    BY <1>1 DEF SendersInv, Writing
  <2>4. \A t \in Senders : Val(t)' = Val(t)
    BY <1>3 DEF Val
  <2>5. /\ cur' = cur /\ todo' = todo /\ serial' = serial /\ slot' = slot
        /\ ticket' = ticket /\ sent' = sent /\ delivered' = delivered
    BY <1>3
  <2>6. \A t \in Senders : Writing(t) => data'[slot[t]].id = 0
    BY <2>1, <2>2 DEF SendersInv
  <2>7. \A t \in Senders : pc[t]' = "id" => data'[slot[t]].data = t
    BY <1>5, <2>1, <2>2 DEF SendersInv, Writing
  <2> QED
    BY <1>5, <2>3, <2>4, <2>5, <2>6, <2>7 DEF SendersInv
<1>12. SlotsInv'
  <2>1. Len(sent) <= Len(delivered) + Slots /\ Len(delivered) <= Len(sent)
    BY DEF CountersInv
  <2>2. ASSUME NEW k \in Len(delivered) + 1 .. Len(sent)
        PROVE  \/ \E t \in Senders : Writing(t)' /\ ticket[t]' = k
               \/ data'[k % Slots] = sent[k]
               \/ k = Len(delivered) + 1 /\ rpc = "adjust"
    <3>1. CASE k = ticket[s]
      BY <1>1, <1>3, <1>5, <3>1
    <3>2. CASE k # ticket[s]
      <4>1. k \in Len(delivered) + 1 .. Len(delivered) + Slots
        BY <1>6, <2>1
      <4> QED
        BY <1>3, <1>5, <1>8, <3>2, <4>1 DEF SlotsInv
    <3> QED
      BY <3>1, <3>2
  <2>3. ASSUME NEW k \in Len(sent) + 1 .. Len(delivered) + Slots
        PROVE  data'[k % Slots].id = 0
    <3>1. k \in Len(delivered) + 1 .. Len(delivered) + Slots /\ k # ticket[s]
      BY <1>6, <1>7, <2>1
    <3> QED
      BY <1>8, <3>1 DEF SlotsInv
  <2> QED
    BY <1>3, <2>2, <2>3 DEF SlotsInv, receiverVars
<1>13. ReceiverInv'
  <2>1. Len(delivered) + 1 \in Len(delivered) + 1 .. Len(delivered) + Slots
    BY <1>6
  <2>2. rpc \in {"read", "clear", "adjust"} =>
          data'[(Len(delivered) + 1) % Slots] = data[(Len(delivered) + 1) % Slots]
    BY <1>1, <1>8, <2>1 DEF ReceiverInv
  <2> QED
    BY <1>3, <1>5, <2>2 DEF ReceiverInv, receiverVars
<1> QED
  BY <1>9, <1>10, <1>11, <1>12, <1>13

\* Publishing the id hands the slot over to the receiver.
LEMMA WriteIdInv ==
    ASSUME RingInv, NEW s \in Senders, WriteId(s)
    PROVE  RingInv'
<1> USE DEF RingInv
<1> DEFINE l == IF todo[s] > 1 THEN "load" ELSE Finish(s)
<1>1. Writing(s) /\ pc[s] = "id" /\ pc' = [pc EXCEPT ![s] = l]
  BY DEF WriteId, SGoto, Writing
<1>2. slot[s] \in 0 .. Slots - 1 /\ serial[s] \in Nat /\ todo[s] \in Nat
  BY BoundsAssumption DEF TypeOK
<1>3. /\ data' = [data EXCEPT ![slot[s]].id = serial[s]]
      /\ serial' = [serial EXCEPT ![s] = serial[s] + 1]
      /\ todo' = [todo EXCEPT ![s] = todo[s] - 1]
      /\ slot' = [slot EXCEPT ![s] = 0]
      /\ ticket' = [ticket EXCEPT ![s] = 0]
      /\ UNCHANGED <<offsets, op, cur, wake, receiverVars, syncVars, sent, delivered>>
  BY DEF WriteId, Val
<1>4. todo[s] >= 1 /\ serial[s] + todo[s] <= MaxSends + 1
  BY <1>1 DEF SendersInv
<1>5. l \in {"load", "notify", "idle"} /\ (l = "load" => todo[s] > 1)
  BY DEF Finish
<1> HIDE DEF l
<1>6. /\ data'[slot[s]].id = serial[s] /\ data'[slot[s]].data = data[slot[s]].data
      /\ \A i \in 0 .. Slots - 1 : i # slot[s] => data'[i] = data[i]
      /\ data'[slot[s]] \in SlotType
      /\ data' \in [0 .. Slots - 1 -> SlotType]
  <2>1. serial[s] \in 0 .. MaxSends
    BY <1>2, <1>4, BoundsAssumption
  <2> QED
    BY <1>2, <1>3, <2>1 DEF TypeOK, SlotType
<1>7. /\ pc[s]' = l /\ todo[s]' = todo[s] - 1 /\ serial[s]' = serial[s] + 1
      /\ \A t \in Senders \ {s} : /\ pc[t]' = pc[t] /\ todo[t]' = todo[t]
                                   /\ serial[t]' = serial[t] /\ slot[t]' = slot[t]
                                   /\ ticket[t]' = ticket[t]
  BY <1>1, <1>3 DEF TypeOK
<1>8. ~Writing(s)' /\ \A t \in Senders \ {s} : Writing(t)' <=> Writing(t)
  BY <1>5, <1>7 DEF Writing
<1>9. Len(sent) \in Nat /\ Len(delivered) \in Nat /\ Slots \in Nat \ {0}
  BY SlotsAssumption DEF TypeOK
<1>10. /\ \A t \in Senders \ {s} : Writing(t) => slot[t] # slot[s]
       /\ \A k \in Len(delivered) + 1 .. Len(delivered) + Slots :
            k # ticket[s] => k % Slots # slot[s]
       /\ ticket[s] \in Len(delivered) + 1 .. Len(sent)
  BY <1>1, WritersApart
<1>11. \A k \in Len(delivered) + 1 .. Len(delivered) + Slots :
         k # ticket[s] => data'[k % Slots] = data[k % Slots]
  <2> TAKE k \in Len(delivered) + 1 .. Len(delivered) + Slots
  <2>1. k \in Nat
    BY <1>9
  <2>2. k % Slots \in 0 .. Slots - 1
    BY <2>1, SlotIndex
  <2> QED
    BY <1>6, <1>10, <2>2
<1>12. data'[ticket[s] % Slots] = sent[ticket[s]]
  <2>1. /\ slot[s] = ticket[s] % Slots /\ sent[ticket[s]] = Val(s)
        /\ data[slot[s]].data = s
    BY <1>1 DEF SendersInv
  <2>2. data'[slot[s]] = [id |-> serial[s], data |-> s]
    BY <1>6, <2>1 DEF SlotType
  <2> QED
    BY <2>1, <2>2 DEF Val
<1>13. TypeOK'
  <2>1. serial' \in [Senders -> 1 .. MaxSends + 1] /\ todo' \in [Senders -> Nat]
    BY <1>2, <1>3, <1>4, BoundsAssumption DEF TypeOK
  <2>2. slot' \in [Senders -> 0 .. Slots - 1] /\ ticket' \in [Senders -> Nat]
    BY <1>3, <1>9 DEF TypeOK
  <2>3. pc' \in [Senders -> SenderPCs]
    BY <1>1, <1>5 DEF TypeOK, SenderPCs
  <2> QED
    BY <1>3, <1>6, <2>1, <2>2, <2>3 DEF TypeOK, receiverVars, syncVars
<1>14. CountersInv'
  BY <1>3 DEF CountersInv
<1>15. SendersInv'
  <2>1. \A t \in Senders \ {s} : Writing(t) => data'[slot[t]] = data[slot[t]]
    BY <1>6, <1>10 DEF TypeOK
  <2>2. l = "load" => todo[s]' >= 1 /\ serial[s]' + todo[s]' <= MaxSends + 1
    BY <1>2, <1>4, <1>5, <1>7, BoundsAssumption
  <2>3. \A t \in Senders \ {s} : Val(t)' = Val(t)
    BY <1>7 DEF Val
  <2>4. cur' = cur /\ sent' = sent /\ delivered' = delivered
    BY <1>3
  <2>5. ASSUME NEW t \in Senders \ {s}, Writing(t)
        PROVE  \A u \in Senders \ {t} : Writing(u)' => ticket[u]' # ticket[t]'
    BY <1>7, <1>8, <2>5 DEF SendersInv
  <2> QED
    BY <1>5, <1>7, <1>8, <2>1, <2>2, <2>3, <2>4, <2>5 DEF SendersInv
<1>16. SlotsInv'
  <2>1. Len(sent) <= Len(delivered) + Slots /\ Len(delivered) <= Len(sent)
    BY DEF CountersInv
  <2>2. ASSUME NEW k \in Len(delivered) + 1 .. Len(sent)
        PROVE  \/ \E t \in Senders : Writing(t)' /\ ticket[t]' = k
               \/ data'[k % Slots] = sent[k]
               \/ k = Len(delivered) + 1 /\ rpc = "adjust"
    <3>1. CASE k = ticket[s]
      BY <1>12, <3>1
    <3>2. CASE k # ticket[s]
      <4>1. k \in Len(delivered) + 1 .. Len(delivered) + Slots
        BY <1>9, <2>1
      <4> QED
        BY <1>7, <1>8, <1>11, <3>2, <4>1 DEF SlotsInv
    <3> QED
      BY <3>1, <3>2
  <2>3. ASSUME NEW k \in Len(sent) + 1 .. Len(delivered) + Slots
        PROVE  data'[k % Slots].id = 0
    <3>1. k \in Len(delivered) + 1 .. Len(delivered) + Slots /\ k # ticket[s]
      BY <1>9, <1>10, <2>1
    <3> QED
      BY <1>11, <3>1 DEF SlotsInv
  <2> QED
    BY <1>3, <2>2, <2>3 DEF SlotsInv, receiverVars
<1>17. ReceiverInv'
  <2>1. Len(delivered) + 1 \in Len(delivered) + 1 .. Len(delivered) + Slots
    BY <1>9
  <2>2. rpc \in {"read", "clear", "adjust"} =>
          data'[(Len(delivered) + 1) % Slots] = data[(Len(delivered) + 1) % Slots]
    BY <1>1, <1>11, <2>1 DEF ReceiverInv
  <2> QED
    BY <1>3, <1>7, <1>8, <2>2 DEF ReceiverInv, receiverVars
<1> QED
  BY <1>13, <1>14, <1>15, <1>16, <1>17

-----------------------------------------------------------------------------
(***************************************************************************)
(* Steps of the receiver                                                   *)
(***************************************************************************)

\* A step of the receiver that leaves the ring alone: CountersInv, SendersInv
\* and SlotsInv hold as before, unless the receiver was at "adjust".
LEMMA QuietReceiverStep ==
    ASSUME RingInv, UNCHANGED <<offsets, data, senderVars, sent, delivered>>,
           rpc # "adjust"
    PROVE  /\ CountersInv' /\ SendersInv' /\ SlotsInv'
           /\ \A s \in Senders : Writing(s)' <=> Writing(s)
<1> USE DEF RingInv, senderVars
<1>1. CountersInv'
  BY DEF CountersInv
<1>2. SendersInv'
  BY DEF SendersInv, Writing, Val
<1>3. SlotsInv'
  BY DEF SlotsInv, Writing
<1> QED
  BY <1>1, <1>2, <1>3 DEF Writing

\* A call of a receive operation only moves the receiver.
LEMMA CallRecvInv ==
    ASSUME RingInv, NEW f \in ReceiverOps, CallRecv(f)
    PROVE  RingInv'
<1> USE DEF RingInv, CallRecv
<1>1. TypeOK'
  BY DEF TypeOK, ReceiverPCs, senderVars, syncVars
<1>2. CountersInv' /\ SendersInv' /\ SlotsInv'
  BY QuietReceiverStep
<1>3. ReceiverInv'
  BY DEF ReceiverInv
<1> QED
  BY <1>1, <1>2, <1>3

\* Finding the queue non-empty, the receiver turns to the next value.
LEMMA LoadOffsetsRInv ==
    ASSUME RingInv, LoadOffsetsR
    PROVE  RingInv'
<1> USE DEF RingInv, LoadOffsetsR
<1>1. TypeOK'
  BY DEF TypeOK, ReceiverPCs, senderVars, syncVars
<1>2. CountersInv' /\ SendersInv' /\ SlotsInv'
  BY QuietReceiverStep
<1>3. ReceiverInv'
  <2>1. CASE IsEmpty(offsets)
    BY <2>1 DEF ReceiverInv
  <2>2. CASE ~IsEmpty(offsets)
    <3>1. Len(delivered) < Len(sent)
      <4>1. Len(sent) \in Nat /\ Len(delivered) \in Nat
        BY DEF TypeOK
      <4> QED
        BY <2>2, <4>1, EmptyIffEqual DEF CountersInv
    <3> QED
      BY <2>2, <3>1 DEF ReceiverInv
  <2> QED
    BY <2>1, <2>2
<1> QED
  BY <1>1, <1>2, <1>3

\* The slot that the receiver finds with an id that is not 0 holds the next
\* value, and nobody is writing it any more.
LEMMA SpinInv ==
    ASSUME RingInv, Spin
    PROVE  RingInv'
<1> USE DEF RingInv, Spin
<1> DEFINE R == Len(delivered)
<1>1. Len(sent) \in Nat /\ R \in Nat /\ Slots \in Nat \ {0}
  BY SlotsAssumption DEF TypeOK
<1>2. R < Len(sent) /\ rcur.read = offsets.read
  BY DEF ReceiverInv
<1>3. ReadSlot = (R + 1) % Slots /\ (R + 1) % Slots \in 0 .. Slots - 1
  <2>1. R + 1 \in Nat
    BY <1>1
  <2> QED
    BY <1>2, <2>1, ReadSlotIsNext, SlotIndex
<1>4. \A s \in Senders : Writing(s) => ticket[s] # R + 1
  BY <1>3 DEF SendersInv
<1>5. data[(R + 1) % Slots] = sent[R + 1]
  <2>1. R + 1 \in R + 1 .. Len(sent)
    BY <1>1, <1>2
  <2> QED
    BY <1>4, <2>1 DEF SlotsInv
<1>6. TypeOK'
  <2>1. data[ReadSlot] \in SlotType
    BY <1>3 DEF TypeOK
  <2>2. rval' \in SlotType
    BY <2>1 DEF TypeOK, SlotType
  <2> QED
    BY <2>2 DEF TypeOK, ReceiverPCs, senderVars, syncVars
<1>7. CountersInv' /\ SendersInv' /\ SlotsInv' /\ \A s \in Senders : Writing(s)' <=> Writing(s)
  BY QuietReceiverStep
<1>8. ReceiverInv'
  <2>1. rval'.id = sent[R + 1].id
    BY <1>3, <1>5 DEF TypeOK, SlotType
  <2> QED
    BY <1>2, <1>4, <1>5, <1>7, <2>1 DEF ReceiverInv, senderVars
<1> QED
  BY <1>6, <1>7, <1>8

\* The receiver reads the data of the next value and of no other.
LEMMA ReadDataInv ==
    ASSUME RingInv, ReadData
    PROVE  RingInv'
<1> USE DEF RingInv, ReadData
<1> DEFINE R == Len(delivered)
<1>1. Len(sent) \in Nat /\ R \in Nat /\ R + 1 \in Nat /\ Slots \in Nat \ {0}
  BY SlotsAssumption DEF TypeOK
<1>2. R < Len(sent) /\ rcur.read = offsets.read
  BY DEF ReceiverInv
<1>3. ReadSlot = (R + 1) % Slots /\ (R + 1) % Slots \in 0 .. Slots - 1
  BY <1>1, <1>2, ReadSlotIsNext, SlotIndex
<1>4. data[ReadSlot] = sent[R + 1] /\ rval.id = sent[R + 1].id
  BY <1>3 DEF ReceiverInv
<1>5. data[ReadSlot] \in SlotType
  BY <1>3 DEF TypeOK
<1>6. rval' = sent[R + 1] /\ rval' \in SlotType
  BY <1>4, <1>5 DEF TypeOK, SlotType
<1>7. TypeOK'
  BY <1>6 DEF TypeOK, ReceiverPCs, senderVars, syncVars
<1>8. CountersInv' /\ SendersInv' /\ SlotsInv' /\ \A s \in Senders : Writing(s)' <=> Writing(s)
  BY QuietReceiverStep
<1>9. ReceiverInv'
  BY <1>2, <1>6, <1>8 DEF ReceiverInv, senderVars
<1> QED
  BY <1>7, <1>8, <1>9

\* Clearing the id frees the slot that was read, before the offset moves past it.
LEMMA ClearIdInv ==
    ASSUME RingInv, ClearId
    PROVE  RingInv'
<1> USE DEF RingInv
<1> DEFINE R == Len(delivered)
<1>0. /\ rpc = "clear" /\ rpc' = "adjust" /\ data' = [data EXCEPT ![ReadSlot].id = 0]
      /\ UNCHANGED <<offsets, senderVars, rop, rcur, rval, syncVars, sent, delivered>>
  BY DEF ClearId
<1>1. Len(sent) \in Nat /\ R \in Nat /\ R + 1 \in Nat /\ Slots \in Nat \ {0}
  BY SlotsAssumption DEF TypeOK
<1>2. R < Len(sent) /\ rcur.read = offsets.read
  BY <1>0 DEF ReceiverInv
<1>3. ReadSlot = (R + 1) % Slots /\ (R + 1) % Slots \in 0 .. Slots - 1
  BY <1>1, <1>2, ReadSlotIsNext, SlotIndex
<1>4. /\ data' \in [0 .. Slots - 1 -> SlotType]
      /\ data'[(R + 1) % Slots].id = 0
      /\ \A i \in 0 .. Slots - 1 : i # (R + 1) % Slots => data'[i] = data[i]
  <2> DEFINE i == (R + 1) % Slots
  <2>1. i \in 0 .. Slots - 1 /\ data' = [data EXCEPT ![i].id = 0]
    BY <1>0, <1>3
  <2> HIDE DEF i
  <2>2. /\ data' \in [0 .. Slots - 1 -> SlotType]
        /\ data'[i].id = 0
        /\ \A j \in 0 .. Slots - 1 : j # i => data'[j] = data[j]
    <3>1. data \in [0 .. Slots - 1 -> SlotType] /\ 0 \in 0 .. MaxSends
      BY BoundsAssumption DEF TypeOK
    <3> HIDE DEF RingInv
    <3> QED
      BY <2>1, <3>1 DEF SlotType
  <2> QED
    BY <2>2 DEF i
<1>5. \A k \in R + 1 .. R + Slots : k # R + 1 => data'[k % Slots] = data[k % Slots]
  <2> TAKE k \in R + 1 .. R + Slots
  <2> HAVE k # R + 1
  <2>1. k \in Nat /\ R + 1 \in R + 1 .. R + Slots
    BY <1>1
  <2>2. k % Slots # (R + 1) % Slots
    BY <1>1, <2>1, SlotInjective
  <2>3. k % Slots \in 0 .. Slots - 1
    BY <2>1, SlotIndex
  <2> QED
    BY <1>4, <2>2, <2>3
<1>6. \A s \in Senders : Writing(s)' <=> Writing(s)
  BY <1>0 DEF Writing, senderVars
<1>7. \A s \in Senders : Writing(s) => slot[s] # (R + 1) % Slots /\ ticket[s] # R + 1
  <2> SUFFICES ASSUME NEW s \in Senders, Writing(s)
               PROVE  slot[s] # (R + 1) % Slots /\ ticket[s] # R + 1
    OBVIOUS
  <2>1. ticket[s] # R + 1
    BY <1>0 DEF ReceiverInv
  <2>2. R + 1 \in R + 1 .. R + Slots
    BY <1>1
  <2> QED
    BY <2>1, <2>2, WritersApart
<1>8. TypeOK'
  BY <1>0, <1>4 DEF TypeOK, ReceiverPCs, senderVars, syncVars
<1>9. CountersInv'
  BY <1>0 DEF CountersInv
<1>10. SendersInv'
  <2>1. \A s \in Senders : Writing(s) => data'[slot[s]] = data[slot[s]]
    BY <1>4, <1>7 DEF TypeOK
  <2>2. \A s \in Senders : Val(s)' = Val(s)
    BY <1>0 DEF Val, senderVars
  <2>3. \A s \in Senders : pc[s] = "id" => Writing(s)
    BY DEF Writing
  <2>4. UNCHANGED <<pc, cur, todo, serial, slot, ticket, sent, delivered>>
    BY <1>0 DEF senderVars
  <2> QED
    BY <1>6, <2>1, <2>2, <2>3, <2>4 DEF SendersInv
<1>11. SlotsInv'
  <2>1. Len(sent) <= R + Slots
    BY DEF CountersInv
  <2>2. UNCHANGED <<ticket, sent, delivered>>
    BY <1>0 DEF senderVars
  <2>3. ASSUME NEW k \in R + 1 .. Len(sent)
        PROVE  \/ \E t \in Senders : Writing(t) /\ ticket[t] = k
               \/ data'[k % Slots] = sent[k]
               \/ k = R + 1
    <3>1. CASE k # R + 1
      <4>1. k \in R + 1 .. R + Slots
        BY <1>1, <2>1
      <4> QED
        BY <1>5, <3>1, <4>1 DEF SlotsInv
    <3> QED
      BY <3>1
  <2>4. ASSUME NEW k \in Len(sent) + 1 .. R + Slots
        PROVE  data'[k % Slots].id = 0
    <3>1. k \in R + 1 .. R + Slots /\ k # R + 1
      BY <1>1, <1>2
    <3> QED
      BY <1>5, <3>1 DEF SlotsInv
  <2> QED
    BY <1>0, <1>6, <2>2, <2>3, <2>4 DEF SlotsInv
<1>12. ReceiverInv'
  BY <1>0, <1>2, <1>4, <1>6, <1>7 DEF ReceiverInv, senderVars
<1> QED
  BY <1>8, <1>9, <1>10, <1>11, <1>12

\* Moving the read offset makes the freed slot available for a reservation.
LEMMA AdjustOffsetsInv ==
    ASSUME RingInv, AdjustOffsets
    PROVE  /\ RingInv'
           /\ Len(delivered) < Len(sent)
           /\ delivered' = Append(delivered, sent[Len(delivered) + 1])
<1> USE DEF RingInv
<1> DEFINE R == Len(delivered)
           W == Len(sent)
<1>0. /\ rpc = "adjust" /\ rpc' \in {"notify", "idle"}
      /\ offsets' = [offsets EXCEPT !.read = @ + (Increment(rcur.read) - rcur.read)]
      /\ delivered' = Append(delivered, rval)
      /\ rcur' = NoOffsets /\ rval' = NoValue
      /\ UNCHANGED <<data, senderVars, rop, syncVars, sent>>
  BY DEF AdjustOffsets
<1>1. /\ W \in Nat /\ R \in Nat /\ R + 1 \in Nat
      /\ Slots \in Nat \ {0} /\ 2 * Slots \in Nat \ {0}
  BY SlotsAssumption DEF TypeOK
<1>2. /\ R < W /\ rcur.read = offsets.read /\ rval = sent[R + 1]
      /\ data[(R + 1) % Slots].id = 0
      /\ \A s \in Senders : Writing(s) => ticket[s] # R + 1
  BY <1>0 DEF ReceiverInv
<1>3. /\ delivered' \in Seq(SlotType) /\ Len(delivered)' = R + 1
      /\ delivered' = Append(delivered, sent[R + 1])
  BY <1>0, <1>2 DEF TypeOK
<1>4. /\ offsets'.read = (R + 1) % (2 * Slots) /\ offsets'.write = offsets.write
      /\ offsets' \in OffsetsType
  <2>1. Increment(rcur.read) = (R + 1) % (2 * Slots)
    BY <1>2, ReadSlotIsNext
  <2>2. (R + 1) % (2 * Slots) \in 0 .. 2 * Slots - 1
    BY <1>1, ModRange
  <2> DEFINE n == (R + 1) % (2 * Slots)
  <2> HIDE DEF n
  <2>3. n \in 0 .. 2 * Slots - 1 /\ Increment(rcur.read) = n
    BY <2>1, <2>2 DEF n
  <2>4. offsets.read + (n - offsets.read) = n
    BY <2>3 DEF TypeOK, OffsetsType
  <2>5. offsets' = [offsets EXCEPT !.read = n]
    BY <1>0, <1>2, <2>3, <2>4
  <2> QED
    BY <2>3, <2>5 DEF TypeOK, OffsetsType, n
<1>5. \A s \in Senders : (Writing(s)' <=> Writing(s)) /\ Val(s)' = Val(s)
  BY <1>0 DEF Writing, Val, senderVars
<1>6. TypeOK'
  <2>1. NoOffsets \in OffsetsType /\ NoValue \in SlotType
    BY SlotsAssumption, BoundsAssumption DEF NoOffsets, OffsetsType, NoValue, SlotType
  <2> QED
    BY <1>0, <1>3, <1>4, <2>1 DEF TypeOK, ReceiverPCs, senderVars, syncVars
<1>7. CountersInv'
  <2>1. R + 1 <= W /\ W <= R + 1 + Slots
    BY <1>1, <1>2 DEF CountersInv
  <2>2. sent' = sent
    BY <1>0
  <2> HIDE DEF R
  <2> QED
    BY <1>3, <1>4, <2>1, <2>2 DEF CountersInv
<1>8. SendersInv'
  <2>1. \A s \in Senders : Writing(s) => ticket[s] \in R + 2 .. W
    BY <1>1, <1>2 DEF SendersInv
  <2>2. UNCHANGED <<pc, cur, todo, serial, slot, ticket, data, sent>>
    BY <1>0 DEF senderVars
  <2>3. Len(delivered)' + 1 = R + 2
    BY <1>1, <1>3
  <2> QED
    BY <1>5, <2>1, <2>2, <2>3 DEF SendersInv
<1>9. SlotsInv'
  <2>1. UNCHANGED <<ticket, data, sent>>
    BY <1>0 DEF senderVars
  <2>2. Len(delivered)' + 1 = R + 2 /\ Len(delivered)' + Slots = R + 1 + Slots
    BY <1>1, <1>3
  <2>3. ASSUME NEW k \in R + 2 .. W
        PROVE  (\E t \in Senders : Writing(t) /\ ticket[t] = k) \/ data[k % Slots] = sent[k]
    <3>1. k \in R + 1 .. W /\ k # R + 1
      BY <1>1
    <3> QED
      BY <3>1 DEF SlotsInv
  <2>4. ASSUME NEW k \in W + 1 .. R + 1 + Slots
        PROVE  data[k % Slots].id = 0
    <3>1. CASE k = R + 1 + Slots
      <4>1. (R + 1 + Slots) % Slots = (R + 1) % Slots
        BY <1>1, ModAdd
      <4> QED
        BY <1>2, <3>1, <4>1
    <3>2. CASE k # R + 1 + Slots
      <4>1. k \in W + 1 .. R + Slots
        BY <1>1, <3>2
      <4> QED
        BY <4>1 DEF SlotsInv
    <3> QED
      BY <3>1, <3>2
  <2> QED
    BY <1>5, <2>1, <2>2, <2>3, <2>4 DEF SlotsInv
<1>10. ReceiverInv'
  BY <1>0 DEF ReceiverInv
<1> QED
  BY <1>2, <1>3, <1>6, <1>7, <1>8, <1>9, <1>10

\* Notifying the senders leaves the ring alone.
LEMMA NotifyNotFullInv ==
    ASSUME RingInv, NotifyNotFull
    PROVE  RingInv'
<1> USE DEF RingInv, NotifyNotFull
<1>1. TypeOK'
  BY DEF TypeOK, ReceiverPCs, senderVars, Notify, Waiters
<1>2. CountersInv' /\ SendersInv' /\ SlotsInv'
  BY QuietReceiverStep
<1>3. ReceiverInv'
  BY DEF ReceiverInv
<1> QED
  BY <1>1, <1>2, <1>3

\* Waiting for a value leaves the ring alone.
LEMMA WaitNotEmptyInv ==
    ASSUME RingInv, WaitNotEmpty
    PROVE  RingInv'
<1> USE DEF RingInv, WaitNotEmpty
<1>1. TypeOK'
  BY DEF TypeOK, ReceiverPCs, senderVars
<1>2. CountersInv' /\ SendersInv' /\ SlotsInv'
  BY QuietReceiverStep
<1>3. ReceiverInv'
  BY DEF ReceiverInv
<1> QED
  BY <1>1, <1>2, <1>3

\* Neither closing the event channel nor a stuttering step concerns the ring.
LEMMA CloseOrStutterInv ==
    ASSUME RingInv, Close \/ UNCHANGED vars
    PROVE  RingInv' /\ UNCHANGED <<sent, delivered>>
<1> USE DEF RingInv, Close, vars, senderVars, receiverVars, syncVars
<1>1. TypeOK'
  BY DEF TypeOK
<1>2. CountersInv'
  BY DEF CountersInv
<1>3. SendersInv'
  BY DEF SendersInv, Writing, Val
<1>4. SlotsInv'
  BY DEF SlotsInv, Writing
<1>5. ReceiverInv'
  BY DEF ReceiverInv, Writing
<1> QED
  BY <1>1, <1>2, <1>3, <1>4, <1>5

-----------------------------------------------------------------------------
(***************************************************************************)
(* Theorems                                                                *)
(***************************************************************************)

\* Every step keeps the invariant, and is a step of the abstract queue or
\* leaves what was sent and delivered alone.
LEMMA StepInv ==
    ASSUME RingInv, [Next]_vars
    PROVE  RingInv' /\ [Abstract!Next]_<<sent, delivered>>
<1>1. ASSUME NEW s \in Senders, NEW f \in SenderOps, NEW n \in 1 .. MaxBatch, CallSend(s, f, n)
      PROVE  RingInv' /\ UNCHANGED <<sent, delivered>>
  BY <1>1, CallSendInv DEF CallSend
<1>2. ASSUME NEW s \in Senders, SenderStep(s)
      PROVE  RingInv' /\ [Abstract!Next]_<<sent, delivered>>
  <2>1. CASE LoadOffsets(s)
    BY <2>1, LoadOffsetsInv DEF LoadOffsets
  <2>2. CASE Reserve(s)
    <3>1. RingInv' /\ Len(sent) < Len(delivered) + Slots /\ Val(s) \in Values
      BY <2>2, ReserveInv
    <3>2. Len(sent) - Len(delivered) < Slots
      BY <3>1, SlotsAssumption DEF RingInv, TypeOK
    <3>3. Abstract!Enqueue(Val(s))
      BY <2>2, <3>2 DEF Abstract!Enqueue, Reserve
    <3> QED
      BY <3>1, <3>3 DEF Abstract!Next
  <2>3. CASE Retry(s)
    BY <2>3, RetryInv DEF Retry
  <2>4. CASE WriteData(s)
    BY <2>4, WriteDataInv DEF WriteData
  <2>5. CASE WriteId(s)
    BY <2>5, WriteIdInv DEF WriteId
  <2>6. CASE NotifyNotEmpty(s)
    BY <2>6, NotifyNotEmptyInv DEF NotifyNotEmpty
  <2>7. CASE WaitNotFull(s)
    BY <2>7, WaitNotFullInv DEF WaitNotFull
  <2> QED
    BY <1>2, <2>1, <2>2, <2>3, <2>4, <2>5, <2>6, <2>7 DEF SenderStep
<1>3. ASSUME NEW f \in ReceiverOps, CallRecv(f)
      PROVE  RingInv' /\ UNCHANGED <<sent, delivered>>
  BY <1>3, CallRecvInv DEF CallRecv
<1>4. ASSUME ReceiverStep
      PROVE  RingInv' /\ [Abstract!Next]_<<sent, delivered>>
  <2>1. CASE LoadOffsetsR
    BY <2>1, LoadOffsetsRInv DEF LoadOffsetsR
  <2>2. CASE Spin
    BY <2>2, SpinInv DEF Spin
  <2>3. CASE ReadData
    BY <2>3, ReadDataInv DEF ReadData
  <2>4. CASE ClearId
    BY <2>4, ClearIdInv DEF ClearId
  <2>5. CASE AdjustOffsets
    <3>1. sent' = sent
      BY <2>5 DEF AdjustOffsets
    <3>2. RingInv' /\ Abstract!Dequeue
      BY <2>5, <3>1, AdjustOffsetsInv DEF Abstract!Dequeue
    <3> QED
      BY <3>2 DEF Abstract!Next
  <2>6. CASE NotifyNotFull
    BY <2>6, NotifyNotFullInv DEF NotifyNotFull
  <2>7. CASE WaitNotEmpty
    BY <2>7, WaitNotEmptyInv DEF WaitNotEmpty
  <2> QED
    BY <1>4, <2>1, <2>2, <2>3, <2>4, <2>5, <2>6, <2>7 DEF ReceiverStep
<1>5. ASSUME Close \/ UNCHANGED vars
      PROVE  RingInv' /\ UNCHANGED <<sent, delivered>>
  BY <1>5, CloseOrStutterInv
<1> QED
  BY <1>1, <1>2, <1>3, <1>4, <1>5 DEF Next

\* The invariant of the ring of try_send_impl and try_recv_impl holds for
\* every length of the ring, any senders and any number of values.
THEOREM RingInvariance == Spec => []RingInv
<1>1. Init => RingInv
  BY InitRingInv
<1>2. RingInv /\ [Next]_vars => RingInv'
  BY StepInv
<1> QED
  BY <1>1, <1>2, PTL DEF Spec

\* Type correctness; in particular fetch_adjust never borrows from the write
\* offset.
THEOREM TypeCorrectness == Spec => []TypeOK
<1>1. RingInv => TypeOK
  BY DEF RingInv
<1> QED
  BY <1>1, RingInvariance, PTL

\* The unsafe accesses to the slots of fifo.rs never overlap.
THEOREM DataRaceFreedom == Spec => []NoDataRace
<1>1. RingInv => NoDataRace
  <2> SUFFICES ASSUME RingInv PROVE NoDataRace
    OBVIOUS
  <2>1. ASSUME NEW s \in Senders, NEW t \in Senders, s # t, Writing(s), Writing(t)
        PROVE  slot[s] # slot[t]
    BY <2>1, WritersApart
  <2>2. ASSUME Reading, NEW s \in Senders, Writing(s)
        PROVE  slot[s] # ReadSlot
    <3>1. Len(delivered) \in Nat /\ Slots \in Nat \ {0}
      BY SlotsAssumption DEF RingInv, TypeOK
    <3>2. ReadSlot = (Len(delivered) + 1) % Slots /\ ticket[s] # Len(delivered) + 1
      BY <2>2, ReadSlotIsNext DEF Reading, RingInv, ReceiverInv
    <3>3. Len(delivered) + 1 \in Len(delivered) + 1 .. Len(delivered) + Slots
      BY <3>1
    <3> QED
      BY <2>2, <3>2, <3>3, WritersApart
  <2> QED
    BY <2>1, <2>2 DEF NoDataRace
<1> QED
  BY <1>1, RingInvariance, PTL

\* The ring implements the bounded first-in first-out queue.
THEOREM Refinement == Spec => ImplementsBoundedQueue
<1>1. Init => Abstract!Init
  BY DEF Init, Abstract!Init
<1>2. RingInv /\ [Next]_vars => [Abstract!Next]_<<sent, delivered>>
  BY StepInv
<1> QED
  BY <1>1, <1>2, RingInvariance, PTL DEF Spec, ImplementsBoundedQueue, Abstract!Spec

-----------------------------------------------------------------------------
(***************************************************************************)
(* Wake-ups                                                                *)
(***************************************************************************)

\* What a sender's step may do to the state that WakeInv is about.
LEMMA WakeInvStep ==
    ASSUME RingInv, WakeInv, [Next]_vars
    PROVE  WakeInv'
<1> USE DEF RingInv
<1>1. ASSUME NEW s \in Senders, NEW f \in SenderOps, NEW n \in 1 .. MaxBatch, CallSend(s, f, n)
      PROVE  WakeInv'
  BY <1>1 DEF WakeInv, CallSend, SGoto, TypeOK
<1>2. ASSUME NEW s \in Senders, SenderStep(s)
      PROVE  WakeInv'
  <2>1. CASE LoadOffsets(s)
    BY <2>1 DEF WakeInv, LoadOffsets, SGoto, Finish, TypeOK
  <2>2. CASE Reserve(s)
    BY <2>2 DEF WakeInv, Reserve, SGoto, TypeOK
  <2>3. CASE Retry(s)
    BY <2>3 DEF WakeInv, Retry, SGoto, TypeOK
  <2>4. CASE WriteData(s)
    BY <2>4 DEF WakeInv, WriteData, SGoto, TypeOK
  <2>5. CASE WriteId(s)
    BY <2>5 DEF WakeInv, WriteId, SGoto, Finish, TypeOK
  <2>6. CASE NotifyNotEmpty(s)
    BY <2>6 DEF WakeInv, NotifyNotEmpty, SGoto, TypeOK
  <2>7. CASE WaitNotFull(s)
    BY <2>7 DEF WakeInv, WaitNotFull, SGoto, TypeOK
  <2> QED
    BY <1>2, <2>1, <2>2, <2>3, <2>4, <2>5, <2>6, <2>7 DEF SenderStep
<1>3. ASSUME UNCHANGED senderVars PROVE WakeInv'
  BY <1>3 DEF WakeInv, senderVars
<1> QED
  BY <1>1, <1>2, <1>3 DEF Next, CallRecv, ReceiverStep, LoadOffsetsR, Spin, ReadData, ClearId,
     AdjustOffsets, NotifyNotFull, WaitNotEmpty, Close, vars

\* A blocked receiver is not forgotten (interface_sync.rs:127-144): the sender
\* that filled the empty queue keeps its promise to notify.
THEOREM ReceiverWakeup == Spec => []ReceiverNotStranded
<1> DEFINE Owes(s) == wake[s] /\ pc[s] \notin {"idle", "wait"}
<1>1. Init => ReceiverNotStranded /\ WakeInv
  BY DEF Init, ReceiverNotStranded, WakeInv
<1>2. RingInv /\ WakeInv /\ ReceiverNotStranded /\ [Next]_vars => ReceiverNotStranded'
  <2> SUFFICES ASSUME RingInv, WakeInv, ReceiverNotStranded, [Next]_vars,
                      rpc' = "wait", ~IsEmpty(offsets)', Receiver \notin notified'
               PROVE  \E s \in Senders : Owes(s)'
    BY DEF ReceiverNotStranded
  <2>1. TypeOK
    BY DEF RingInv
  <2>2. ASSUME NEW s \in Senders, NEW f \in SenderOps, NEW n \in 1 .. MaxBatch, CallSend(s, f, n)
        PROVE  \E t \in Senders : Owes(t)'
    <3>1. PICK t \in Senders : Owes(t)
      BY <2>2 DEF ReceiverNotStranded, CallSend, receiverVars, syncVars
    <3>2. t # s
      BY <2>2, <3>1 DEF CallSend
    <3> QED
      BY <2>1, <2>2, <3>1, <3>2 DEF CallSend, SGoto, TypeOK
  <2>3. ASSUME NEW s \in Senders, SenderStep(s)
        PROVE  \E t \in Senders : Owes(t)'
    <3>1. CASE Reserve(s)
      <4>1. CASE IsEmpty(offsets)
        BY <2>1, <3>1, <4>1 DEF Reserve, SGoto, TypeOK
      <4>2. CASE ~IsEmpty(offsets)
        <5>1. PICK t \in Senders : Owes(t)
          BY <3>1, <4>2 DEF ReceiverNotStranded, Reserve, receiverVars, syncVars
        <5> QED
          BY <2>1, <3>1, <5>1 DEF Reserve, SGoto, TypeOK
      <4> QED
        BY <4>1, <4>2
    <3>2. CASE NotifyNotEmpty(s)
      BY <3>2 DEF NotifyNotEmpty, Notify
    <3>3. CASE ~Reserve(s) /\ ~NotifyNotEmpty(s)
      <4>1. offsets' = offsets /\ rpc' = rpc /\ wake' = wake
        BY <2>3, <3>3 DEF SenderStep, LoadOffsets, Retry, WriteData, WriteId, WaitNotFull,
           receiverVars
      <4>2. Receiver \notin notified
        BY <2>3, <3>3, ReceiverNotASender DEF SenderStep, LoadOffsets, Retry, WriteData,
           WriteId, WaitNotFull, syncVars
      <4>3. PICK t \in Senders : Owes(t)
        BY <4>1, <4>2 DEF ReceiverNotStranded
      <4>4. CASE LoadOffsets(s)
        BY <2>1, <4>1, <4>3, <4>4 DEF LoadOffsets, SGoto, Finish, WakeInv, TypeOK
      <4>5. CASE Retry(s)
        BY <2>1, <4>1, <4>3, <4>5 DEF Retry, SGoto, TypeOK
      <4>6. CASE WriteData(s)
        BY <2>1, <4>1, <4>3, <4>6 DEF WriteData, SGoto, TypeOK
      <4>7. CASE WriteId(s)
        BY <2>1, <4>1, <4>3, <4>7 DEF WriteId, SGoto, Finish, TypeOK
      <4>8. CASE WaitNotFull(s)
        BY <2>1, <4>1, <4>3, <4>8 DEF WaitNotFull, SGoto, TypeOK
      <4> QED
        BY <2>3, <3>3, <4>4, <4>5, <4>6, <4>7, <4>8 DEF SenderStep
    <3> QED
      BY <3>1, <3>2, <3>3
  <2>4. ASSUME UNCHANGED senderVars, UNCHANGED offsets, rpc = "wait", Receiver \notin notified
        PROVE  \E t \in Senders : Owes(t)'
    BY <2>4 DEF ReceiverNotStranded, senderVars
  <2>5. CASE ReceiverStep
    <3>1. CASE LoadOffsetsR
      BY <3>1 DEF LoadOffsetsR
    <3>2. CASE ~LoadOffsetsR
      BY <2>5, <3>2 DEF ReceiverStep, Spin, ReadData, ClearId, AdjustOffsets, NotifyNotFull,
         WaitNotEmpty
    <3> QED
      BY <3>1, <3>2
  <2>6. CASE \E f \in ReceiverOps : CallRecv(f)
    BY <2>6 DEF CallRecv
  <2>7. CASE Close \/ UNCHANGED vars
    BY <2>4, <2>7 DEF Close, vars, receiverVars, syncVars
  <2> QED
    BY <2>2, <2>3, <2>5, <2>6, <2>7 DEF Next
<1>3. RingInv /\ WakeInv /\ [Next]_vars => WakeInv'
  BY WakeInvStep
<1> QED
  BY <1>1, <1>2, <1>3, RingInvariance, PTL DEF Spec

\* A blocked sender is not forgotten (interface_sync.rs:76-93): the receiver
\* that made room in the full queue is about to notify.
THEOREM SenderWakeup == Spec => []SendersNotStranded
<1>1. Init => SendersNotStranded
  BY DEF Init, SendersNotStranded
<1>2. RingInv /\ SendersNotStranded /\ [Next]_vars => SendersNotStranded'
  <2> SUFFICES ASSUME RingInv, SendersNotStranded, [Next]_vars, NEW s \in Senders,
                      pc[s]' = "wait", ~IsFull(offsets)', s \notin notified'
               PROVE  rpc' = "notify"
    BY DEF SendersNotStranded
  <2>1. TypeOK
    BY DEF RingInv
  <2>2. ASSUME pc[s] = "wait", ~IsFull(offsets), s \notin notified, rpc' = rpc
        PROVE  rpc' = "notify"
    BY <2>2 DEF SendersNotStranded
  <2>3. ASSUME NEW t \in Senders, NEW f \in SenderOps, NEW n \in 1 .. MaxBatch, CallSend(t, f, n)
        PROVE  rpc' = "notify"
    BY <2>1, <2>2, <2>3 DEF CallSend, SGoto, TypeOK, receiverVars, syncVars
  <2>4. ASSUME NEW t \in Senders, SenderStep(t)
        PROVE  rpc' = "notify"
    <3>1. CASE LoadOffsets(t)
      BY <2>1, <2>2, <3>1 DEF LoadOffsets, SGoto, TypeOK, receiverVars, syncVars
    <3>2. CASE Reserve(t)
      <4>1. ~IsFull(offsets)
        BY <3>2 DEF Reserve, RingInv, SendersInv
      <4> QED
        BY <2>1, <2>2, <3>2, <4>1 DEF Reserve, SGoto, TypeOK, receiverVars, syncVars
    <3>3. CASE Retry(t)
      BY <2>1, <2>2, <3>3 DEF Retry, SGoto, TypeOK, receiverVars, syncVars
    <3>4. CASE WriteData(t)
      BY <2>1, <2>2, <3>4 DEF WriteData, SGoto, TypeOK, receiverVars, syncVars
    <3>5. CASE WriteId(t)
      BY <2>1, <2>2, <3>5 DEF WriteId, SGoto, Finish, TypeOK, receiverVars, syncVars
    <3>6. CASE NotifyNotEmpty(t)
      BY <2>1, <2>2, <3>6 DEF NotifyNotEmpty, Notify, SGoto, TypeOK, receiverVars
    <3>7. CASE WaitNotFull(t)
      BY <2>1, <2>2, <3>7 DEF WaitNotFull, SGoto, TypeOK, receiverVars
    <3> QED
      BY <2>4, <3>1, <3>2, <3>3, <3>4, <3>5, <3>6, <3>7 DEF SenderStep
  <2>5. CASE ReceiverStep
    <3>1. CASE AdjustOffsets
      BY <2>2, <3>1 DEF AdjustOffsets, SendersNotStranded, senderVars, syncVars
    <3>2. CASE NotifyNotFull
      BY <3>2 DEF NotifyNotFull, Notify
    <3>3. CASE ~AdjustOffsets /\ ~NotifyNotFull
      <4>1. /\ offsets' = offsets /\ pc' = pc /\ rpc # "notify"
            /\ notified' = notified \/ notified' = notified \ {Receiver}
        BY <2>5, <3>3 DEF ReceiverStep, LoadOffsetsR, Spin, ReadData, ClearId, WaitNotEmpty,
           senderVars, syncVars
      <4>2. CASE s \notin notified
        BY <4>1, <4>2 DEF SendersNotStranded
      <4>3. CASE s \in notified
        BY <4>1, <4>3, ReceiverNotASender
      <4> QED
        BY <4>2, <4>3
    <3> QED
      BY <3>1, <3>2, <3>3
  <2>6. CASE \E f \in ReceiverOps : CallRecv(f)
    BY <2>6 DEF CallRecv, SendersNotStranded, senderVars, syncVars
  <2>7. CASE Close \/ UNCHANGED vars
    BY <2>2, <2>7 DEF Close, vars, senderVars, receiverVars, syncVars
  <2> QED
    BY <2>3, <2>4, <2>5, <2>6, <2>7 DEF Next
<1> QED
  BY <1>1, <1>2, RingInvariance, PTL DEF Spec
=============================================================================
