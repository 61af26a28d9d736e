----------------------------- MODULE SgxsProofs -----------------------------
(***************************************************************************)
(* Proofs about SgxsReader and SgxsRoundTrip, for streams, pages and       *)
(* chunks of any size: what the readers let through is canonical, every    *)
(* page comes out as its blobs describe it, and what the writer writes     *)
(* comes back as it was written.  The last part is about SgxDetect, for    *)
(* any system that is detected: whatever the order of the visits, the      *)
(* report is true and helps.                                               *)
(***************************************************************************)
EXTENDS SgxsRoundTrip, SgxDetect, FiniteSetTheorems, WellFoundedInduction, TLAPS

-----------------------------------------------------------------------------
(***************************************************************************)
(* Arithmetic                                                              *)
(***************************************************************************)
\* Quotient and remainder.
LEMMA DivMod ==
    ASSUME NEW n \in Nat \ {0}, NEW x \in Nat
    PROVE  /\ x \div n \in Nat
           /\ x % n \in 0 .. n - 1
           /\ x = n * (x \div n) + (x % n)
BY SMT

\* They are unique.
LEMMA DivModUnique ==
    ASSUME NEW n \in Nat \ {0}, NEW q \in Nat, NEW r \in 0 .. n - 1
    PROVE  /\ (n * q + r) % n = r
           /\ (n * q + r) \div n = q
<1> DEFINE x == n * q + r
<1>1. x \in Nat BY SMT
<1>2. PICK d \in Nat, e \in 0 .. n - 1 :
        d = x \div n /\ e = x % n /\ x = n * d + e
  BY <1>1, DivMod
<1>3. n * q + r = n * d + e BY <1>2
<1>4. q = d
  <2>1. CASE q < d
    <3>1. n * (q + 1) <= n * d BY <2>1, SMT
    <3>2. n * (q + 1) = n * q + n BY SMT
    <3> QED BY <1>3, <3>1, <3>2
  <2>2. CASE d < q
    <3>1. n * (d + 1) <= n * q BY <2>2, SMT
    <3>2. n * (d + 1) = n * d + n BY SMT
    <3> QED BY <1>3, <3>1, <3>2
  <2> QED BY <2>1, <2>2
<1> HIDE DEF x
<1>5. r = e BY <1>3, <1>4
<1>6. x % n = r /\ x \div n = q BY <1>2, <1>4, <1>5
<1> QED BY <1>6 DEF x

LEMMA Sizes ==
    /\ PageSize \in Nat \ {0}
    /\ \A c \in Chunks : c \in Nat /\ c * ChunkSize \in Nat /\ c * ChunkSize + ChunkSize <= PageSize
<1>1. PageChunks \in Nat \ {0} /\ ChunkSize \in Nat \ {0} BY SizesAssumption
<1>2. PageSize \in Nat \ {0} BY <1>1, SMT DEF PageSize
<1>3. ASSUME NEW c \in Chunks
      PROVE c \in Nat /\ c * ChunkSize \in Nat /\ c * ChunkSize + ChunkSize <= PageSize
  <2>1. c \in Nat /\ c + 1 <= PageChunks BY <1>1 DEF Chunks
  <2>2. (c + 1) * ChunkSize <= PageChunks * ChunkSize BY <1>1, <2>1, SMT
  <2>3. (c + 1) * ChunkSize = c * ChunkSize + ChunkSize BY <1>1, <2>1, SMT
  <2>4. c * ChunkSize \in Nat BY <1>1, <2>1, SMT
  <2> QED BY <2>1, <2>2, <2>3, <2>4 DEF PageSize
<1> QED BY <1>2, <1>3

\* An offset that is ahead of the start of a page by less than a page.
LEMMA InPage ==
    ASSUME NEW base \in Nat, base % PageSize = 0, NEW d \in 0 .. PageSize - 1
    PROVE  /\ (base + d) % PageSize = d
           /\ (base + d) \div PageSize = base \div PageSize
<1>1. PageSize \in Nat \ {0} BY Sizes
<1>2. PICK q \in Nat : q = base \div PageSize /\ base = PageSize * q + 0
  BY <1>1, DivMod
<1>3. base + d = PageSize * q + d BY <1>1, <1>2
<1>4. (PageSize * q + d) % PageSize = d /\ (PageSize * q + d) \div PageSize = q
  BY <1>1, DivModUnique
<1> QED BY <1>2, <1>3, <1>4

\* The chunk that check_chunk_offset computes is the one of the page.
LEMMA ChunkInPage ==
    ASSUME NEW base \in Nat, base % PageSize = 0, NEW offset \in Nat, offset >= base,
           (offset - base) \div ChunkSize < PageChunks
    PROVE  /\ (offset % PageSize) \div ChunkSize = (offset - base) \div ChunkSize
           /\ (offset - base) \div ChunkSize \in Chunks
           /\ offset \div PageSize = base \div PageSize
<1>1. PageChunks \in Nat \ {0} /\ ChunkSize \in Nat \ {0} BY SizesAssumption
<1> DEFINE d == offset - base
<1>2. d \in Nat OBVIOUS
<1>10. offset = base + d /\ d \div ChunkSize < PageChunks OBVIOUS
<1> HIDE DEF d
<1> DEFINE q == d \div ChunkSize
           r == d % ChunkSize
<1>3. q \in Nat /\ r \in 0 .. ChunkSize - 1 /\ d = ChunkSize * q + r
  BY <1>1, <1>2, DivMod
<1>4. q \in Chunks BY <1>1, <1>3, <1>10 DEF Chunks
<1> HIDE DEF q, r
<1>5. q * ChunkSize + ChunkSize <= PageSize BY <1>4, Sizes
<1>6. ChunkSize * q = q * ChunkSize BY <1>1, <1>3, SMT
<1>7. PageSize \in Nat BY Sizes
<1>8. ChunkSize * q \in Nat BY <1>1, <1>3, SMT
<1>9. d \in 0 .. PageSize - 1 BY <1>1, <1>2, <1>3, <1>5, <1>6, <1>7, <1>8
<1>11. offset % PageSize = d /\ offset \div PageSize = base \div PageSize
  BY <1>9, <1>10, InPage
<1> QED BY <1>4, <1>11 DEF d, q

\* The chunk that an offset made from a chunk belongs to.
LEMMA ChunkOfOffset ==
    ASSUME NEW base \in Nat, base % PageSize = 0, NEW c \in Chunks
    PROVE  /\ ((base + c * ChunkSize) % PageSize) \div ChunkSize = c
           /\ (base + c * ChunkSize) % ChunkSize = 0
           /\ ((base + c * ChunkSize) - base) \div ChunkSize = c
           /\ base + c * ChunkSize \in Nat
           /\ base + c * ChunkSize >= base
<1>1. PageChunks \in Nat \ {0} /\ ChunkSize \in Nat \ {0} /\ PageSize \in Nat \ {0}
  BY SizesAssumption, Sizes
<1>2. c \in Nat /\ c * ChunkSize \in 0 .. PageSize - 1
  BY <1>1, Sizes
<1>3. (base + c * ChunkSize) % PageSize = c * ChunkSize BY <1>2, InPage
<1>4. c * ChunkSize = ChunkSize * c + 0 BY <1>1, <1>2, SMT
<1>5. (c * ChunkSize) \div ChunkSize = c BY <1>1, <1>2, <1>4, DivModUnique
<1>6. PICK q \in Nat : base = PageSize * q + 0 BY <1>1, DivMod
<1>7. base + c * ChunkSize = ChunkSize * (PageChunks * q + c) + 0
  <2>1. PageSize * q = ChunkSize * (PageChunks * q) BY <1>1, SMT DEF PageSize
  <2>2. ChunkSize * (PageChunks * q + c) = ChunkSize * (PageChunks * q) + ChunkSize * c
    BY <1>1, <1>2, SMT
  <2>3. PageSize * q \in Nat /\ ChunkSize * c \in Nat BY <1>1, <1>2, SMT
  <2> DEFINE u == PageSize * q
             v == ChunkSize * c
             w == c * ChunkSize
  <2>4. base = u + 0 /\ w = v + 0 /\ u \in Nat /\ v \in Nat
    BY <1>4, <1>6, <2>3
  <2>5. ChunkSize * (PageChunks * q + c) = u + v BY <2>1, <2>2
  <2> HIDE DEF u, v, w
  <2>6. base + w = (u + v) + 0 BY <2>4
  <2> QED BY <2>5, <2>6 DEF w
<1>8. PageChunks * q + c \in Nat BY <1>1, <1>2, SMT
<1>9. (base + c * ChunkSize) % ChunkSize = 0
  <2> DEFINE z == PageChunks * q + c
  <2> HIDE DEF z
  <2>1. z \in Nat BY <1>8 DEF z
  <2>2. (ChunkSize * z + 0) % ChunkSize = 0 BY <1>1, <2>1, DivModUnique
  <2> QED BY <1>7, <2>2 DEF z
<1>10. (base + c * ChunkSize) - base = c * ChunkSize BY <1>2
<1> QED BY <1>2, <1>3, <1>5, <1>9, <1>10
-----------------------------------------------------------------------------
(***************************************************************************)
(* Sets of positions                                                       *)
(***************************************************************************)
LEMMA MinExists ==
    ASSUME NEW S \in SUBSET Nat, S # {}
    PROVE  \E m \in S : \A j \in S : m <= j
<1> DEFINE R == OpToRel(<, Nat)
<1>1. IsWellFoundedOn(R, Nat) BY NatLessThanWellFounded
<1>2. \E x \in S : \A y \in S : ~ (<<y, x>> \in R) BY <1>1, WFMin, Zenon
<1>3. \A x, y \in Nat : y < x => <<y, x>> \in R BY Zenon DEF OpToRel
<1> HIDE DEF R
<1>4. PICK x \in S : \A y \in S : ~ (<<y, x>> \in R) BY <1>2
<1>5. ASSUME NEW j \in S PROVE x <= j
  <2>1. ~(j < x) BY <1>3, <1>4, <1>5, Zenon
  <2> QED BY <2>1
<1> QED BY <1>5

LEMMA MaxExists ==
    ASSUME NEW S, NEW b \in Nat, S \subseteq 1 .. b, S # {}
    PROVE  \E m \in S : \A j \in S : j <= m
<1> DEFINE T == {b - j : j \in S}
<1>1. T \in SUBSET Nat
  OBVIOUS
<1>2. T # {} OBVIOUS
<1> HIDE DEF T
<1>3. PICK m \in T : \A j \in T : m <= j BY <1>1, <1>2, MinExists
<1>4. PICK k \in S : m = b - k BY DEF T
<1>5. ASSUME NEW j \in S PROVE j <= k
  <2>1. b - j \in T BY DEF T
  <2>2. b - k <= b - j BY <1>3, <1>4, <2>1
  <2> QED BY <2>2
<1> QED BY <1>5

\* The largest element, as PageAt chooses it.
Largest(S) == CHOOSE j \in S : \A k \in S : k <= j

LEMMA LargestIs ==
    ASSUME NEW S \in SUBSET Nat, NEW m \in S, \A k \in S : k <= m
    PROVE  Largest(S) = m
<1>1. Largest(S) \in S /\ \A k \in S : k <= Largest(S) BY DEF Largest
<1>2. m <= Largest(S) /\ Largest(S) <= m BY <1>1
<1>3. m \in Nat /\ Largest(S) \in Nat BY <1>1
<1> QED BY <1>2, <1>3

LEMMA LargestIn ==
    ASSUME NEW S, NEW b \in Nat, S \subseteq 1 .. b, S # {}
    PROVE  Largest(S) \in S
BY MaxExists DEF Largest

-----------------------------------------------------------------------------
(***************************************************************************)
(* What the blobs of a stream s at a set S of positions describe.          *)
(***************************************************************************)
Slot(s, j) == (s[j].offset % PageSize) \div ChunkSize
ChunksIn(s, i, p) == {j \in i + 1 .. p : s[j] \in ChunkBlobs}
At(s, S, c) == {j \in S : Slot(s, j) = c}
MeasuredIn(s, S) == {Slot(s, j) : j \in {k \in S : s[k].tag = "EEXTEND"}}
SlotsIn(s, S) == {Slot(s, j) : j \in S}
ContentOf(s, S) ==
    [c \in Chunks |-> IF At(s, S, c) = {} THEN 0 ELSE s[Largest(At(s, S, c))].data]
PageFrom(s, i, S) == [eadd |-> s[i], measured |-> MeasuredIn(s, S), data |-> ContentOf(s, S)]

\* Only those blobs matter.
LEMMA SameBlobs ==
    ASSUME NEW s, NEW t, NEW S, \E b \in Nat : S \subseteq 1 .. b, \A j \in S : s[j] = t[j]
    PROVE  /\ MeasuredIn(s, S) = MeasuredIn(t, S)
           /\ SlotsIn(s, S) = SlotsIn(t, S)
           /\ ContentOf(s, S) = ContentOf(t, S)
<1>1. \A j \in S : Slot(s, j) = Slot(t, j) BY DEF Slot
<1>2. MeasuredIn(s, S) = MeasuredIn(t, S) BY <1>1 DEF MeasuredIn
<1>3. SlotsIn(s, S) = SlotsIn(t, S) BY <1>1 DEF SlotsIn
<1>4. ASSUME NEW c \in Chunks
      PROVE (IF At(s, S, c) = {} THEN 0 ELSE s[Largest(At(s, S, c))].data)
            = (IF At(t, S, c) = {} THEN 0 ELSE t[Largest(At(t, S, c))].data)
  <2>1. At(s, S, c) = At(t, S, c) BY <1>1 DEF At
  <2>2. CASE At(s, S, c) = {} BY <2>1, <2>2
  <2>3. CASE At(s, S, c) # {}
    <3>0. PICK b \in Nat : S \subseteq 1 .. b OBVIOUS
    <3>1. At(s, S, c) \subseteq 1 .. b BY <3>0 DEF At
    <3>2. Largest(At(s, S, c)) \in S BY <2>3, <3>1, LargestIn DEF At
    <3> QED BY <2>1, <2>3, <3>2
  <2> QED BY <2>2, <2>3
<1>5. ContentOf(s, S) = ContentOf(t, S) BY <1>4, Zenon DEF ContentOf
<1> QED BY <1>2, <1>3, <1>5

LEMMA NoBlobs ==
    ASSUME NEW s
    PROVE  MeasuredIn(s, {}) = {} /\ SlotsIn(s, {}) = {} /\ ContentOf(s, {}) = EmptyPage
BY DEF MeasuredIn, SlotsIn, ContentOf, EmptyPage, At

\* One more blob, behind the others.
LEMMA OneMore ==
    ASSUME NEW s, NEW S, NEW p \in Nat, NEW T, T = S \union {p},
           \A j \in S : j \in Nat /\ j < p, Slot(s, p) \in Chunks
    PROVE  /\ SlotsIn(s, T) = SlotsIn(s, S) \union {Slot(s, p)}
           /\ MeasuredIn(s, T) = IF s[p].tag = "EEXTEND" THEN MeasuredIn(s, S) \union {Slot(s, p)}
                                 ELSE MeasuredIn(s, S)
           /\ ContentOf(s, T) = [ContentOf(s, S) EXCEPT ![Slot(s, p)] = s[p].data]
<1>1. SlotsIn(s, T) = SlotsIn(s, S) \union {Slot(s, p)} BY DEF SlotsIn
<1>2. MeasuredIn(s, T) = IF s[p].tag = "EEXTEND" THEN MeasuredIn(s, S) \union {Slot(s, p)}
                         ELSE MeasuredIn(s, S)
  BY DEF MeasuredIn
<1>3. ASSUME NEW c \in Chunks, c # Slot(s, p) PROVE At(s, T, c) = At(s, S, c)
  BY <1>3 DEF At
<1>4. Largest(At(s, T, Slot(s, p))) = p /\ At(s, T, Slot(s, p)) # {}
  <2>0. T \subseteq Nat OBVIOUS
  <2>1. p \in At(s, T, Slot(s, p)) /\ At(s, T, Slot(s, p)) \in SUBSET Nat BY <2>0 DEF At
  <2>2. \A k \in At(s, T, Slot(s, p)) : k <= p BY DEF At
  <2>3. Largest(At(s, T, Slot(s, p))) = p BY <2>1, <2>2, LargestIs
  <2> QED BY <2>1, <2>3
<1>5. ContentOf(s, T) = [ContentOf(s, S) EXCEPT ![Slot(s, p)] = s[p].data]
  <2> DEFINE f == ContentOf(s, T)
             g == [ContentOf(s, S) EXCEPT ![Slot(s, p)] = s[p].data]
  <2>1. f = [c \in Chunks |-> f[c]] /\ g = [c \in Chunks |-> g[c]] BY DEF ContentOf
  <2>2. ASSUME NEW c \in Chunks PROVE f[c] = g[c]
    <3>1. CASE c = Slot(s, p) BY <1>4, <3>1 DEF ContentOf
    <3>2. CASE c # Slot(s, p)
      <4>1. g[c] = ContentOf(s, S)[c] BY <3>2 DEF ContentOf
      <4> QED BY <1>3, <3>2, <4>1 DEF ContentOf
    <3> QED BY <3>1, <3>2
  <2> HIDE DEF f, g
  <2>3. f = g BY <2>1, <2>2, Zenon
  <2> QED BY <2>3 DEF f, g
<1> QED BY <1>1, <1>2, <1>5

-----------------------------------------------------------------------------
(***************************************************************************)
(* The invariant.  st lists the positions of the EADD blobs of the stream, *)
(* read or not, in their order.                                            *)
(***************************************************************************)
Enumerates(st) ==
    /\ st \in Seq(Nat)
    /\ \A n \in 1 .. Len(st) : st[n] \in 1 .. Len(stream) /\ stream[st[n]] \in AddBlobs
    /\ \A m, n \in 1 .. Len(st) : m < n => st[m] < st[n]
    /\ \A i \in 1 .. Len(stream) : stream[i] \in AddBlobs => \E n \in 1 .. Len(st) : st[n] = i

\* The last blob of the n-th page.
EndOf(st, n) == IF n < Len(st) THEN st[n + 1] - 1 ELSE Len(stream)

\* Pages that the reader has come to: those it returned, and the one it collects.
Met == Len(pages) + (IF last_eadd = None THEN 0 ELSE 1)

PageSet == [eadd : AddBlobs, measured : SUBSET Chunks, data : [Chunks -> Data]]

ReaderTypeOK ==
    /\ stream \in Seq(Blobs)
    /\ ended \in BOOLEAN
    /\ pos \in 0 .. Len(stream)
    /\ got_ecreate \in BOOLEAN
    /\ last_offset \in 0 .. MaxBlobOffset \union {None}
    /\ chunks_measured \subseteq Chunks
    /\ chunks_seen \subseteq Chunks
    /\ last_eadd \in AddBlobs \union {None}
    /\ page \in [Chunks -> Data]
    /\ pages \in Seq(PageSet)
    /\ status \in {"new", "reading", "error", "end"}

\* What was let through.
LetThrough ==
    /\ pos = 0 <=> ~got_ecreate
    /\ status = "new" => pos = 0
    /\ status \in {"reading", "end"} => pos > 0
    /\ pos > 0 => stream[1] \in CreateBlobs
    /\ \A i \in 2 .. pos : stream[i] \in AddBlobs \union ChunkBlobs

\* The EADD blobs among it.
MetPages(st) ==
    /\ Met <= Len(st)
    /\ \A n \in 1 .. Len(st) : st[n] <= pos <=> n <= Met
    /\ last_offset = IF Met = 0 THEN None ELSE stream[st[Met]].offset
    /\ \A n \in 1 .. Met : /\ stream[st[n]].offset % PageSize = 0
                           /\ stream[st[n]].secinfo # "tcs_rwx"
    /\ \A m, n \in 1 .. Met : m < n => stream[st[m]].offset < stream[st[n]].offset

\* The chunks: each belongs to a page that the reader has come to.
MetChunks(st) ==
    \A j \in 1 .. pos : stream[j] \in ChunkBlobs =>
        /\ stream[j].offset % ChunkSize = 0
        /\ \E n \in 1 .. Met : /\ st[n] < j /\ j <= EndOf(st, n)
                               /\ stream[j].offset \div PageSize = stream[st[n]].offset \div PageSize

\* The page that is being collected.
Collected(st) ==
    /\ last_eadd # None =>
        LET S == ChunksIn(stream, st[Met], pos)
        IN  /\ last_eadd = stream[st[Met]]
            /\ chunks_measured = MeasuredIn(stream, S)
            /\ chunks_seen = SlotsIn(stream, S)
            /\ page = ContentOf(stream, S)
    /\ last_eadd = None => page = EmptyPage /\ (Met > 0 => ended /\ pos = Len(stream))

\* The pages that were returned.
Returned(st) ==
    /\ \A n \in 1 .. Len(pages) :
        pages[n] = PageFrom(stream, st[n], ChunksIn(stream, st[n], EndOf(st, n)))
    /\ status = "end" => last_eadd = None /\ ended /\ pos = Len(stream)

ReadInv(st) ==
    Enumerates(st) /\ MetPages(st) /\ MetChunks(st) /\ Collected(st) /\ Returned(st)
(***************************************************************************)
(* The writer's part: the n-th page is in the stream, as it was asked for, *)
(* up to chunk c, its chunks in ascending order.                           *)
(***************************************************************************)
InStream(st, n, c) ==
    LET S == st[n] + 1 .. EndOf(st, n)
        w == written[n]
    IN  /\ \A j \in S :
            /\ stream[j] \in ChunkBlobs
            /\ Slot(stream, j) \in Chunks /\ Slot(stream, j) < c
            /\ stream[j].offset = w.eadd.offset + Slot(stream, j) * ChunkSize
            /\ stream[j].data = w.data[Slot(stream, j)]
            /\ stream[j].tag = "EEXTEND" <=> Slot(stream, j) \in w.measured
        /\ \A i, j \in S : i < j => Slot(stream, i) < Slot(stream, j)
        /\ \A x \in Chunks : x < c =>
            \/ \E j \in S : Slot(stream, j) = x
            \/ x \notin w.measured /\ w.data[x] = 0

CallTypeOK ==
    /\ writing \in BOOLEAN
    /\ next_offset \in Nat
    /\ call \in [n : Nat, page : Nat, next : -1 .. PageChunks - 1, secinfo : {"reg", "tcs"},
                 chunk : [Chunks -> PageChunk], data : [Chunks -> Data]]
    /\ written \in Seq(PageSet)

CallInv ==
    /\ call.page <= call.n
    /\ Idle => call.next = -1 /\ call.page = 0
    /\ ~Idle => next_offset + call.n * PageSize <= MaxBlobOffset + 1
    /\ ~writing \/ ended => Idle
    /\ next_offset % PageSize = 0

\* How much of the n-th page was written.
Progress(n) == IF n < Len(written) \/ call.next = -1 THEN PageChunks ELSE call.next

\* The reader starts when the writer has finished.
AfterWriting == ~ended => pages = <<>> /\ status = "new"

WrittenInv(st) ==
    /\ Len(stream) >= 1 /\ stream[1] \in CreateBlobs
    /\ Len(stream) >= 2 => Len(st) >= 1 /\ st[1] = 2
    /\ Len(written) = Len(st)
    /\ \A n \in 1 .. Len(st) :
        /\ stream[st[n]] = written[n].eadd
        /\ written[n].eadd.secinfo # "tcs_rwx"
        /\ written[n].eadd.offset % PageSize = 0
        /\ InStream(st, n, Progress(n))
    /\ \A m, n \in 1 .. Len(st) : m < n => written[m].eadd.offset < written[n].eadd.offset
    /\ call.next = -1 => \A n \in 1 .. Len(st) : written[n].eadd.offset < PageOffset
    /\ call.next # -1 =>
        /\ Len(st) >= 1
        /\ written[Len(st)] = Written(PageOffset, call.secinfo, call.chunk, call.data)
    /\ status # "error"
    /\ AfterWriting

RoundTripInv ==
    /\ ReaderTypeOK /\ LetThrough /\ CallTypeOK /\ CallInv
    /\ \E st \in Seq(Nat) : ReadInv(st) /\ (writing => WrittenInv(st))

-----------------------------------------------------------------------------
\* What the enumeration says about the sets in the properties.
LEMMA EnumFacts ==
    ASSUME NEW st, ReaderTypeOK, ReadInv(st)
    PROVE  /\ Len(st) \in Nat /\ Len(stream) \in Nat /\ pos \in Nat /\ Met \in 0 .. Len(st)
           /\ \A n \in 1 .. Len(st) : st[n] \in Nat /\ st[n] >= 1
           /\ Adds = {st[n] : n \in 1 .. Met}
           /\ Adds \subseteq 1 .. pos
<1>1. Len(st) \in Nat /\ Len(stream) \in Nat /\ pos \in Nat BY DEF ReaderTypeOK, ReadInv, Enumerates
<1>2. Met \in 0 .. Len(st)
  <2>1. Len(pages) \in Nat BY DEF ReaderTypeOK
  <2> QED BY <1>1, <2>1 DEF ReadInv, MetPages, Met
<1>3. \A n \in 1 .. Len(st) : st[n] \in Nat /\ st[n] >= 1 BY <1>1 DEF ReadInv, Enumerates
<1>4. Adds \subseteq {st[n] : n \in 1 .. Met}
  <2> SUFFICES ASSUME NEW i \in 1 .. pos, stream[i] \in AddBlobs
               PROVE  \E n \in 1 .. Met : i = st[n]
    BY DEF Adds
  <2>1. i \in 1 .. Len(stream) BY <1>1 DEF ReaderTypeOK
  <2>2. PICK n \in 1 .. Len(st) : st[n] = i BY <2>1 DEF ReadInv, Enumerates
  <2>3. n <= Met BY <2>2 DEF ReadInv, MetPages
  <2> QED BY <1>1, <1>2, <2>2, <2>3
<1>5. ASSUME NEW n \in 1 .. Met PROVE st[n] \in Adds
  <2>1. n \in 1 .. Len(st) BY <1>1, <1>2
  <2>2. st[n] <= pos BY <1>2, <2>1 DEF ReadInv, MetPages
  <2> QED BY <1>1, <1>3, <2>1, <2>2 DEF Adds, ReadInv, Enumerates
<1>6. Adds \subseteq 1 .. pos BY DEF Adds
<1> QED BY <1>1, <1>2, <1>3, <1>4, <1>5, <1>6

\* Counting: the set of the first k EADD blobs has k elements.
LEMMA CountAdds ==
    ASSUME NEW st, ReaderTypeOK, ReadInv(st), NEW k \in 0 .. Met
    PROVE  Cardinality({st[n] : n \in 1 .. k}) = k
<1> DEFINE T == {st[n] : n \in 1 .. k}
           f == [n \in 1 .. k |-> st[n]]
<1>1. Len(st) \in Nat /\ Met \in 0 .. Len(st) /\ \A n \in 1 .. Len(st) : st[n] \in Nat
  BY EnumFacts
<1>2. k \in Nat /\ \A n \in 1 .. k : n \in 1 .. Len(st) BY <1>1
<1>3. \A m, n \in 1 .. k : m < n => st[m] < st[n] BY <1>2 DEF ReadInv, Enumerates
<1>4. \A m, n \in 1 .. k : m # n => f[m] # f[n]
  <2> SUFFICES ASSUME NEW m \in 1 .. k, NEW n \in 1 .. k, m # n PROVE st[m] # st[n]
    OBVIOUS
  <2>1. m < n \/ n < m BY <1>2
  <2>2. st[m] < st[n] \/ st[n] < st[m] BY <1>3, <2>1
  <2> QED BY <1>1, <1>2, <2>2
<1>5. f \in [1 .. k -> T] /\ \A y \in T : \E n \in 1 .. k : f[n] = y OBVIOUS
<1> HIDE DEF f, T
<1>6. f \in Bijection(1 .. k, T)
  <2>1. \A m, n \in 1 .. k : f[m] = f[n] => m = n BY <1>4
  <2> QED BY <1>5, <2>1 DEF Bijection, Injection, Surjection, IsInjective
<1>7. ExistsBijection(1 .. k, T) BY <1>6 DEF ExistsBijection
<1>8. IsFiniteSet(1 .. k) /\ Cardinality(1 .. k) = k BY <1>2, FS_Interval
<1>9. Cardinality(T) = k BY <1>7, <1>8, FS_Bijection
<1> QED BY <1>9 DEF T

\* The n-th of them is st[n].
LEMMA AddIs ==
    ASSUME NEW st, ReaderTypeOK, ReadInv(st), NEW n \in 1 .. Met
    PROVE  Add(n) = st[n] /\ st[n] \in Adds
<1>1. /\ Len(st) \in Nat /\ Met \in 0 .. Len(st)
      /\ \A m \in 1 .. Len(st) : st[m] \in Nat
      /\ Adds = {st[m] : m \in 1 .. Met}
  BY EnumFacts
<1>2. ASSUME NEW k \in 1 .. Met PROVE Cardinality({j \in Adds : j <= st[k]}) = k
  <2>1. \A m \in 1 .. Met : st[m] <= st[k] <=> m <= k
    <3> SUFFICES ASSUME NEW m \in 1 .. Met PROVE st[m] <= st[k] <=> m <= k
      OBVIOUS
    <3>1. m \in 1 .. Len(st) /\ k \in 1 .. Len(st) BY <1>1
    <3>2. m < k => st[m] < st[k] BY <3>1 DEF ReadInv, Enumerates
    <3>3. k < m => st[k] < st[m] BY <3>1 DEF ReadInv, Enumerates
    <3>4. st[m] \in Nat /\ st[k] \in Nat BY <1>1, <3>1
    <3> QED BY <3>1, <3>2, <3>3, <3>4
  <2>2. {j \in Adds : j <= st[k]} = {st[m] : m \in 1 .. k}
    <3>1. \A m \in 1 .. k : m \in 1 .. Met /\ m <= k BY <1>1
    <3>2. {st[m] : m \in 1 .. k} \subseteq {j \in Adds : j <= st[k]} BY <1>1, <2>1, <3>1
    <3>3. ASSUME NEW j \in Adds, j <= st[k] PROVE j \in {st[m] : m \in 1 .. k}
      <4>1. PICK m \in 1 .. Met : j = st[m] BY <1>1
      <4>2. m <= k BY <2>1, <3>3, <4>1
      <4>3. m \in 1 .. k BY <1>1, <4>2
      <4> QED BY <4>1, <4>3
    <3> QED BY <3>2, <3>3
  <2>3. k \in 0 .. Met BY <1>1
  <2> QED BY <2>2, <2>3, CountAdds
<1>3. st[n] \in Adds BY <1>1
<1>4. Add(n) \in Adds /\ Cardinality({j \in Adds : j <= Add(n)}) = n
  BY <1>2, <1>3 DEF Add
<1>5. PICK k \in 1 .. Met : Add(n) = st[k] BY <1>1, <1>4
<1>6. k = n BY <1>2, <1>4, <1>5
<1> QED BY <1>3, <1>5, <1>6

\* The chunks of a page: up to the next page, or as far as was read.
LEMMA ChunksOfIs ==
    ASSUME NEW st, ReaderTypeOK, ReadInv(st), NEW n \in 1 .. Met
    PROVE  ChunksOf(st[n]) = {j \in ChunksIn(stream, st[n], EndOf(st, n)) : j <= pos}
<1>1. /\ Len(st) \in Nat /\ Len(stream) \in Nat /\ pos \in Nat /\ Met \in 0 .. Len(st)
      /\ \A m \in 1 .. Len(st) : st[m] \in Nat
      /\ Adds = {st[m] : m \in 1 .. Met}
  BY EnumFacts
<1>2. n \in 1 .. Len(st) /\ pos <= Len(stream) BY <1>1 DEF ReaderTypeOK
<1>3. ASSUME NEW j \in ChunksOf(st[n])
      PROVE  j \in ChunksIn(stream, st[n], EndOf(st, n)) /\ j <= pos
  <2>1. j \in st[n] + 1 .. pos /\ stream[j] \in ChunkBlobs /\ \A k \in Adds : st[n] < k => j < k
    BY DEF ChunksOf
  <2>2. j <= EndOf(st, n)
    <3>1. CASE n < Len(st) /\ n + 1 <= Met
      <4>1. n + 1 \in 1 .. Met /\ n + 1 \in 1 .. Len(st) BY <1>1, <3>1
      <4>2. st[n + 1] \in Adds /\ st[n] < st[n + 1]
        BY <1>1, <1>2, <4>1 DEF ReadInv, Enumerates
      <4>3. j < st[n + 1] /\ st[n + 1] \in Nat BY <1>1, <2>1, <4>1, <4>2
      <4> QED BY <1>1, <1>2, <2>1, <3>1, <4>3 DEF EndOf
    <3>2. CASE n < Len(st) /\ ~(n + 1 <= Met)
      <4>1. n + 1 \in 1 .. Len(st) BY <1>1, <3>2
      <4>2. ~(st[n + 1] <= pos) /\ st[n + 1] \in Nat
        BY <1>1, <3>2, <4>1 DEF ReadInv, MetPages
      <4> QED BY <1>1, <1>2, <2>1, <3>2, <4>2 DEF EndOf
    <3>3. CASE ~(n < Len(st)) BY <1>1, <1>2, <2>1, <3>3 DEF EndOf
    <3> QED BY <3>1, <3>2, <3>3
  <2>3. EndOf(st, n) \in Int
    <3>1. CASE n < Len(st)
      <4>1. n + 1 \in 1 .. Len(st) BY <1>1, <3>1
      <4>2. st[n + 1] \in Nat BY <1>1, <4>1
      <4> QED BY <3>1, <4>2 DEF EndOf
    <3>2. CASE ~(n < Len(st)) BY <1>1, <3>2 DEF EndOf
    <3> QED BY <3>1, <3>2
  <2>4. st[n] \in Nat BY <1>1, <1>2
  <2> QED BY <1>1, <2>1, <2>2, <2>3, <2>4 DEF ChunksIn
<1>4. ASSUME NEW j \in ChunksIn(stream, st[n], EndOf(st, n)), j <= pos
      PROVE  j \in ChunksOf(st[n])
  <2>1. j \in st[n] + 1 .. EndOf(st, n) /\ stream[j] \in ChunkBlobs BY DEF ChunksIn
  <2>2. st[n] \in Nat BY <1>1, <1>2
  <2>3. ASSUME NEW m \in 1 .. Met, st[n] < st[m] PROVE j < st[m]
    <3>1. m \in 1 .. Len(st) /\ st[m] \in Nat BY <1>1
    <3>2. ~(m < n) /\ m # n BY <1>1, <1>2, <2>2, <2>3, <3>1 DEF ReadInv, Enumerates
    <3>3. n < Len(st) /\ n + 1 <= m /\ n + 1 \in 1 .. Len(st) BY <1>1, <1>2, <3>1, <3>2
    <3>4. st[n + 1] <= st[m]
      <4>1. CASE m = n + 1 BY <3>1, <4>1
      <4>2. CASE n + 1 < m
        <5>1. st[n + 1] < st[m] BY <3>1, <3>3, <4>2 DEF ReadInv, Enumerates
        <5> QED BY <1>1, <3>1, <3>3, <5>1
      <4> QED BY <3>1, <3>3, <4>1, <4>2
    <3>5. j <= st[n + 1] - 1 /\ st[n + 1] \in Nat BY <1>1, <2>1, <3>3 DEF EndOf
    <3> QED BY <2>1, <2>2, <3>1, <3>4, <3>5
  <2>4. \A k \in Adds : st[n] < k => j < k BY <1>1, <2>3
  <2>5. j \in st[n] + 1 .. pos BY <1>1, <1>4, <2>1, <2>2
  <2> QED BY <2>1, <2>4, <2>5 DEF ChunksOf
<1>5. ChunksOf(st[n]) \subseteq {j \in ChunksIn(stream, st[n], EndOf(st, n)) : j <= pos}
  BY <1>3
<1>6. {j \in ChunksIn(stream, st[n], EndOf(st, n)) : j <= pos} \subseteq ChunksOf(st[n])
  BY <1>4
<1> QED BY <1>5, <1>6

-----------------------------------------------------------------------------
(***************************************************************************)
(* The properties follow from the invariant.                               *)
(***************************************************************************)
LEMMA BlobKinds ==
    /\ \A b \in CreateBlobs : b \notin AddBlobs /\ b \notin ChunkBlobs
    /\ \A b \in AddBlobs : b \notin CreateBlobs /\ b \notin ChunkBlobs
    /\ \A b \in ChunkBlobs : b \notin CreateBlobs /\ b \notin AddBlobs
    /\ \A b \in AddBlobs : b \in Blobs /\ b.offset \in Nat /\ b.offset <= MaxBlobOffset
    /\ \A b \in ChunkBlobs : b \in Blobs /\ b.offset \in Nat /\ b.data \in Data
BY BlobBoundsAssumption DEF CreateBlobs, AddBlobs, ChunkBlobs, Blobs

LEMMA CanonicalFollows ==
    ASSUME NEW st, ReaderTypeOK, LetThrough, ReadInv(st)
    PROVE  Canonical
<1>1. /\ Len(st) \in Nat /\ Len(stream) \in Nat /\ pos \in Nat /\ Met \in 0 .. Len(st)
      /\ \A n \in 1 .. Len(st) : st[n] \in Nat /\ st[n] >= 1
      /\ Adds = {st[n] : n \in 1 .. Met}
      /\ Adds \subseteq 1 .. pos
  BY EnumFacts
<1>2. \A i \in 1 .. pos : stream[i] \in CreateBlobs <=> i = 1
  <2> SUFFICES ASSUME NEW i \in 1 .. pos PROVE stream[i] \in CreateBlobs <=> i = 1
    OBVIOUS
  <2>1. CASE i = 1
    <3>1. pos > 0 BY <1>1
    <3> QED BY <2>1, <3>1 DEF LetThrough
  <2>2. CASE i # 1
    <3>1. i \in 2 .. pos BY <1>1, <2>2
    <3>2. stream[i] \in AddBlobs \union ChunkBlobs BY <3>1 DEF LetThrough
    <3> QED BY <2>2, <3>2, BlobKinds
  <2> QED BY <2>1, <2>2
<1>3. \A i \in Adds : stream[i].offset % PageSize = 0 /\ stream[i].secinfo # "tcs_rwx"
  BY <1>1 DEF ReadInv, MetPages
<1>4. \A i, j \in Adds : i < j => stream[i].offset < stream[j].offset
  <2> SUFFICES ASSUME NEW i \in Adds, NEW j \in Adds, i < j
               PROVE  stream[i].offset < stream[j].offset
    OBVIOUS
  <2>1. PICK m \in 1 .. Met : i = st[m] BY <1>1
  <2>2. PICK n \in 1 .. Met : j = st[n] BY <1>1
  <2>3. m \in 1 .. Len(st) /\ n \in 1 .. Len(st) /\ st[m] \in Nat /\ st[n] \in Nat BY <1>1
  <2>4. ~(n < m) /\ n # m BY <2>1, <2>2, <2>3 DEF ReadInv, Enumerates
  <2>5. m < n BY <2>3, <2>4
  <2> QED BY <2>1, <2>2, <2>5 DEF ReadInv, MetPages
<1>5. ASSUME NEW j \in 1 .. pos, stream[j] \in ChunkBlobs
      PROVE  /\ stream[j].offset % ChunkSize = 0
             /\ \E i \in Adds : /\ j \in ChunksOf(i)
                                /\ stream[j].offset \div PageSize = stream[i].offset \div PageSize
  <2>1. PICK n \in 1 .. Met : /\ st[n] < j /\ j <= EndOf(st, n)
                              /\ stream[j].offset \div PageSize = stream[st[n]].offset \div PageSize
    BY <1>5 DEF ReadInv, MetChunks
  <2>2. stream[j].offset % ChunkSize = 0 BY <1>5 DEF ReadInv, MetChunks
  <2>3. n \in 1 .. Len(st) /\ st[n] \in Nat BY <1>1
  <2>4. EndOf(st, n) \in Int
    <3>1. CASE n < Len(st)
      <4>1. n + 1 \in 1 .. Len(st) BY <1>1, <2>3, <3>1
      <4> QED BY <1>1, <3>1, <4>1 DEF EndOf
    <3>2. CASE ~(n < Len(st)) BY <1>1, <3>2 DEF EndOf
    <3> QED BY <3>1, <3>2
  <2>5. j \in ChunksIn(stream, st[n], EndOf(st, n)) /\ j <= pos
    BY <1>1, <1>5, <2>1, <2>3, <2>4 DEF ChunksIn
  <2>6. j \in ChunksOf(st[n]) BY <2>5, ChunksOfIs
  <2>7. st[n] \in Adds BY <1>1
  <2> QED BY <2>1, <2>2, <2>6, <2>7
<1> QED BY <1>2, <1>3, <1>4, <1>5 DEF Canonical

\* A page that was returned has all its chunks behind it.
LEMMA ReturnedChunks ==
    ASSUME NEW st, ReaderTypeOK, ReadInv(st), NEW n \in 1 .. Len(pages)
    PROVE  /\ n \in 1 .. Met
           /\ ChunksOf(st[n]) = ChunksIn(stream, st[n], EndOf(st, n))
<1>1. /\ Len(st) \in Nat /\ Len(stream) \in Nat /\ pos \in Nat /\ Met \in 0 .. Len(st)
      /\ \A m \in 1 .. Len(st) : st[m] \in Nat
  BY EnumFacts
<1>2. Len(pages) \in Nat BY DEF ReaderTypeOK
<1>3. n \in 1 .. Met /\ n \in 1 .. Len(st) BY <1>1, <1>2 DEF Met
<1>4. EndOf(st, n) <= pos
  <2>1. CASE n < Met
    <3>1. n + 1 \in 1 .. Len(st) /\ n + 1 <= Met BY <1>1, <1>3, <2>1
    <3>2. st[n + 1] <= pos /\ st[n + 1] \in Nat BY <1>1, <3>1 DEF ReadInv, MetPages
    <3> QED BY <1>1, <1>3, <3>1, <3>2 DEF EndOf
  <2>2. CASE ~(n < Met)
    <3>1. last_eadd = None /\ Met > 0 BY <1>1, <1>2, <1>3, <2>2 DEF Met
    <3>2. pos = Len(stream) BY <3>1 DEF ReadInv, Collected
    <3>3. CASE n < Len(st)
      <4>1. n + 1 \in 1 .. Len(st) BY <1>1, <1>3, <3>3
      <4>2. st[n + 1] \in 1 .. Len(stream) BY <4>1 DEF ReadInv, Enumerates
      <4> QED BY <1>1, <3>2, <3>3, <4>2 DEF EndOf
    <3>4. CASE ~(n < Len(st)) BY <1>1, <3>2, <3>4 DEF EndOf
    <3> QED BY <3>3, <3>4
  <2> QED BY <2>1, <2>2
<1>5. EndOf(st, n) \in Int
  <2>1. CASE n < Len(st)
    <3>1. n + 1 \in 1 .. Len(st) BY <1>1, <1>3, <2>1
    <3> QED BY <1>1, <2>1, <3>1 DEF EndOf
  <2>2. CASE ~(n < Len(st)) BY <1>1, <2>2 DEF EndOf
  <2> QED BY <2>1, <2>2
<1>6. \A j \in ChunksIn(stream, st[n], EndOf(st, n)) : j <= pos
  <2>1. \A j \in ChunksIn(stream, st[n], EndOf(st, n)) : j \in Int /\ j <= EndOf(st, n)
    BY <1>1, <1>3, <1>5 DEF ChunksIn
  <2> QED BY <1>1, <1>4, <1>5, <2>1
<1>7. ChunksOf(st[n]) = {j \in ChunksIn(stream, st[n], EndOf(st, n)) : j <= pos}
  BY <1>3, ChunksOfIs
<1> QED BY <1>3, <1>6, <1>7

LEMMA PageAtIs ==
    ASSUME NEW i
    PROVE  PageAt(i) = PageFrom(stream, i, ChunksOf(i))
<1>1. {ChunkIn(j) : j \in {k \in ChunksOf(i) : stream[k].tag = "EEXTEND"}}
      = MeasuredIn(stream, ChunksOf(i))
  BY Zenon DEF ChunkIn, MeasuredIn, Slot
<1>2. [c \in Chunks |->
        LET js == {j \in ChunksOf(i) : ChunkIn(j) = c}
        IN  IF js = {} THEN 0 ELSE stream[CHOOSE j \in js : \A k \in js : k <= j].data]
      = ContentOf(stream, ChunksOf(i))
  BY Zenon DEF ContentOf, At, Largest, ChunkIn, Slot
<1> QED BY <1>1, <1>2, Zenon DEF PageAt, PageFrom

LEMMA PagesCompleteFollows ==
    ASSUME NEW st, ReaderTypeOK, ReadInv(st)
    PROVE  PagesComplete
<1>1. ASSUME NEW n \in 1 .. Len(pages) PROVE pages[n] = PageAt(Add(n))
  <2>1. n \in 1 .. Met /\ ChunksOf(st[n]) = ChunksIn(stream, st[n], EndOf(st, n))
    BY ReturnedChunks
  <2>2. Add(n) = st[n] BY <2>1, AddIs
  <2>3. pages[n] = PageFrom(stream, st[n], ChunksOf(st[n])) BY <2>1 DEF ReadInv, Returned
  <2> QED BY <2>2, <2>3, PageAtIs
<1>2. ASSUME status = "end" PROVE Len(pages) = Cardinality(Adds)
  <2>1. last_eadd = None BY <1>2 DEF ReadInv, Returned
  <2>2. Len(pages) \in Nat BY DEF ReaderTypeOK
  <2>3. Len(pages) = Met BY <2>1, <2>2 DEF Met
  <2>4. Met \in 0 .. Met /\ Adds = {st[n] : n \in 1 .. Met} BY <2>2, <2>3, EnumFacts
  <2> QED BY <2>3, <2>4, CountAdds
<1> QED BY <1>1, <1>2 DEF PagesComplete

LEMMA EndOfType ==
    ASSUME NEW st, ReaderTypeOK, Enumerates(st), NEW n \in 1 .. Len(st)
    PROVE  /\ st[n] \in 1 .. Len(stream)
           /\ EndOf(st, n) \in st[n] .. Len(stream)
           /\ n < Len(st) => EndOf(st, n) < st[n + 1] /\ st[n + 1] \in 1 .. Len(stream)
<1>1. Len(st) \in Nat /\ Len(stream) \in Nat BY DEF ReaderTypeOK, Enumerates
<1>2. st[n] \in 1 .. Len(stream) BY DEF Enumerates
<1>3. CASE n < Len(st)
  <2>1. n + 1 \in 1 .. Len(st) BY <1>1, <1>3
  <2>2. st[n + 1] \in 1 .. Len(stream) /\ st[n] < st[n + 1] BY <1>1, <2>1 DEF Enumerates
  <2> QED BY <1>1, <1>2, <1>3, <2>2 DEF EndOf
<1>4. CASE ~(n < Len(st)) BY <1>1, <1>2, <1>4 DEF EndOf
<1> QED BY <1>3, <1>4

\* The blobs of a page that is complete in the stream describe it.
LEMMA WrittenPage ==
    ASSUME NEW st, ReaderTypeOK, ReadInv(st), CallTypeOK, WrittenInv(st),
           NEW n \in 1 .. Len(st), InStream(st, n, PageChunks)
    PROVE  PageFrom(stream, st[n], ChunksIn(stream, st[n], EndOf(st, n))) = written[n]
<1> DEFINE S == st[n] + 1 .. EndOf(st, n)
           w == written[n]
<1>1. /\ \A j \in S : /\ stream[j] \in ChunkBlobs
                      /\ Slot(stream, j) \in Chunks
                      /\ stream[j].data = w.data[Slot(stream, j)]
                      /\ stream[j].tag = "EEXTEND" <=> Slot(stream, j) \in w.measured
      /\ \A x \in Chunks : x < PageChunks =>
            (\E j \in S : Slot(stream, j) = x) \/ (x \notin w.measured /\ w.data[x] = 0)
  BY DEF InStream
<1>2. \A x \in Chunks : (\E j \in S : Slot(stream, j) = x) \/ (x \notin w.measured /\ w.data[x] = 0)
  <2>1. \A x \in Chunks : x < PageChunks BY SizesAssumption DEF Chunks
  <2> QED BY <1>1, <2>1
<1>3. ChunksIn(stream, st[n], EndOf(st, n)) = S BY <1>1 DEF ChunksIn
<1>4. Len(stream) \in Nat /\ S \subseteq 1 .. Len(stream)
  <2>1. st[n] \in 1 .. Len(stream) /\ EndOf(st, n) \in st[n] .. Len(stream)
    BY EndOfType DEF ReadInv
  <2>2. Len(stream) \in Nat BY DEF ReaderTypeOK
  <2> QED BY <2>1, <2>2
<1>5. w \in PageSet /\ stream[st[n]] = w.eadd BY DEF CallTypeOK, WrittenInv
<1>6. w = [eadd |-> w.eadd, measured |-> w.measured, data |-> w.data]
      /\ w.measured \subseteq Chunks /\ w.data \in [Chunks -> Data]
  BY <1>5 DEF PageSet
<1> HIDE DEF S, w
<1>7. MeasuredIn(stream, S) = w.measured
  <2>1. MeasuredIn(stream, S) \subseteq w.measured BY <1>1 DEF MeasuredIn
  <2>2. ASSUME NEW x \in w.measured PROVE x \in MeasuredIn(stream, S)
    <3>1. PICK j \in S : Slot(stream, j) = x BY <1>2, <1>6
    <3>2. stream[j].tag = "EEXTEND" BY <1>1, <3>1
    <3> QED BY <3>1, <3>2 DEF MeasuredIn
  <2> QED BY <2>1, <2>2
<1>8. ContentOf(stream, S) = w.data
  <2>1. ASSUME NEW c \in Chunks
        PROVE  (IF At(stream, S, c) = {} THEN 0 ELSE stream[Largest(At(stream, S, c))].data) = w.data[c]
    <3>1. CASE At(stream, S, c) = {}
      <4>1. ~\E j \in S : Slot(stream, j) = c BY <3>1 DEF At
      <4> QED BY <1>2, <3>1, <4>1
    <3>2. CASE At(stream, S, c) # {}
      <4>1. At(stream, S, c) \subseteq 1 .. Len(stream) BY <1>4 DEF At
      <4>2. Largest(At(stream, S, c)) \in At(stream, S, c) BY <1>4, <3>2, <4>1, LargestIn
      <4>3. PICK j \in S : j = Largest(At(stream, S, c)) /\ Slot(stream, j) = c BY <4>2 DEF At
      <4> QED BY <1>1, <3>2, <4>3
    <3> QED BY <3>1, <3>2
  <2>2. w.data = [c \in Chunks |-> w.data[c]] BY <1>6
  <2> QED BY <2>1, <2>2, Zenon DEF ContentOf
<1> QED BY <1>3, <1>5, <1>6, <1>7, <1>8, Zenon DEF PageFrom, w

LEMMA RoundTripFollows ==
    ASSUME NEW st, ReaderTypeOK, ReadInv(st), CallTypeOK, CallInv, WrittenInv(st)
    PROVE  /\ status # "error"
           /\ pages = SubSeq(written, 1, Len(pages))
           /\ status = "end" => pages = written
<1>1. /\ Len(st) \in Nat /\ Len(stream) \in Nat /\ pos \in Nat /\ Met \in 0 .. Len(st)
      /\ \A m \in 1 .. Len(st) : st[m] \in Nat
  BY EnumFacts
<1>2. Len(pages) \in Nat /\ pages \in Seq(PageSet) BY DEF ReaderTypeOK
<1>3. Len(written) = Len(st) /\ status # "error" /\ written \in Seq(PageSet)
  BY DEF WrittenInv, CallTypeOK
<1>4. Len(pages) <= Len(written)
  <2>1. Len(pages) <= Met BY <1>2 DEF Met
  <2> QED BY <1>1, <1>2, <1>3, <2>1
<1>5. ASSUME NEW n \in 1 .. Len(pages) PROVE pages[n] = written[n]
  <2>1. n \in 1 .. Len(st) BY <1>1, <1>2, <1>3, <1>4
  <2>2. ended BY <1>2, <1>5 DEF WrittenInv, AfterWriting
  <2>3. call.next = -1 BY <2>2 DEF CallInv
  <2>4. InStream(st, n, PageChunks) BY <2>1, <2>3 DEF WrittenInv, Progress
  <2> QED BY <2>1, <2>4, WrittenPage DEF ReadInv, Returned
<1>6. pages = SubSeq(written, 1, Len(pages)) BY <1>2, <1>3, <1>4, <1>5
<1>7. ASSUME status = "end" PROVE pages = written
  <2>1. last_eadd = None /\ pos = Len(stream) BY <1>7 DEF ReadInv, Returned
  <2>2. Met = Len(pages) BY <1>2, <2>1 DEF Met
  <2>3. Len(st) <= Met
    <3>1. CASE Len(st) = 0 BY <1>1, <3>1
    <3>2. CASE Len(st) # 0
      <4>1. Len(st) \in 1 .. Len(st) BY <1>1, <3>2
      <4>2. st[Len(st)] <= pos BY <1>1, <2>1, <4>1 DEF ReadInv, Enumerates
      <4> QED BY <4>1, <4>2 DEF ReadInv, MetPages
    <3> QED BY <3>1, <3>2
  <2>4. Len(pages) = Len(written) BY <1>1, <1>3, <2>2, <2>3
  <2> QED BY <1>2, <1>3, <1>5, <2>4
<1> QED BY <1>3, <1>6, <1>7

LEMMA MeasurementFollows ==
    ASSUME NEW st, ReaderTypeOK, ReadInv(st), CallTypeOK, CallInv, WrittenInv(st),
           NEW n \in 1 .. Len(pages)
    PROVE  LET records == {j \in ChunksOf(Add(n)) : stream[j].tag = "EEXTEND"}
           IN  /\ {ChunkIn(j) : j \in records} = pages[n].measured
               /\ \A j \in records : stream[j].data = pages[n].data[ChunkIn(j)]
               /\ \A j, k \in records : j < k => ChunkIn(j) < ChunkIn(k)
<1> DEFINE records == {j \in ChunksOf(Add(n)) : stream[j].tag = "EEXTEND"}
<1>1. n \in 1 .. Met /\ ChunksOf(st[n]) = ChunksIn(stream, st[n], EndOf(st, n))
  BY ReturnedChunks
<1>2. Add(n) = st[n] BY <1>1, AddIs
<1>3. Met \in 0 .. Len(st) /\ Len(st) \in Nat BY EnumFacts
<1>4. n \in 1 .. Len(st) BY <1>1, <1>3
<1>5. ended
  <2>1. pages # <<>> BY DEF ReaderTypeOK
  <2> QED BY <2>1 DEF WrittenInv, AfterWriting
<1>6. call.next = -1 BY <1>5 DEF CallInv
<1>7. InStream(st, n, PageChunks) BY <1>4, <1>6 DEF WrittenInv, Progress
<1>8. pages[n] = PageFrom(stream, st[n], ChunksIn(stream, st[n], EndOf(st, n)))
  BY DEF ReadInv, Returned
<1>9. pages[n] = written[n] BY <1>4, <1>7, <1>8, WrittenPage
<1>10. records = {j \in ChunksIn(stream, st[n], EndOf(st, n)) : stream[j].tag = "EEXTEND"}
  BY <1>1, <1>2
<1>11. \A j : ChunkIn(j) = Slot(stream, j) BY DEF ChunkIn, Slot
<1> HIDE DEF records
<1>12. {ChunkIn(j) : j \in records} = pages[n].measured
  <2>1. pages[n].measured = MeasuredIn(stream, ChunksIn(stream, st[n], EndOf(st, n)))
    BY <1>8 DEF PageFrom
  <2> QED BY <1>10, <1>11, <2>1 DEF MeasuredIn
<1>13. \A j \in records : j \in st[n] + 1 .. EndOf(st, n) BY <1>10 DEF ChunksIn
<1>14. \A j \in records : stream[j].data = pages[n].data[ChunkIn(j)]
  BY <1>7, <1>9, <1>11, <1>13 DEF InStream
<1>15. \A j, k \in records : j < k => ChunkIn(j) < ChunkIn(k)
  BY <1>7, <1>11, <1>13 DEF InStream
<1> QED BY <1>12, <1>14, <1>15 DEF records

-----------------------------------------------------------------------------
(***************************************************************************)
(* The steps of the readers keep the invariant.                            *)
(***************************************************************************)
LEMMA RefuseKeeps ==
    ASSUME NEW st, ReaderTypeOK, LetThrough, ReadInv(st), GiveUp
    PROVE  ReaderTypeOK' /\ LetThrough' /\ ReadInv(st)'
<1>1. /\ status' = "error"
      /\ stream' = stream /\ ended' = ended /\ pos' = pos /\ got_ecreate' = got_ecreate
      /\ last_offset' = last_offset /\ chunks_measured' = chunks_measured
      /\ chunks_seen' = chunks_seen /\ last_eadd' = last_eadd /\ page' = page /\ pages' = pages
  BY DEF GiveUp, canonicalVars
<1>2. ReaderTypeOK' BY <1>1 DEF ReaderTypeOK
<1>3. LetThrough' BY <1>1 DEF LetThrough
<1>4. Enumerates(st)' BY <1>1 DEF ReadInv, Enumerates
<1>5. MetPages(st)' BY <1>1 DEF ReadInv, MetPages, Met
<1>6. MetChunks(st)' BY <1>1 DEF ReadInv, MetChunks, Met, EndOf
<1>7. Collected(st)' BY <1>1 DEF ReadInv, Collected, Met
<1>8. Returned(st)' BY <1>1 DEF ReadInv, Returned, EndOf
<1> QED BY <1>2, <1>3, <1>4, <1>5, <1>6, <1>7, <1>8 DEF ReadInv

LEMMA NewReaderKeeps ==
    ASSUME NEW st, ReaderTypeOK, LetThrough, ReadInv(st), NewReader
    PROVE  ReaderTypeOK' /\ LetThrough' /\ ReadInv(st)'
<1>1. CASE ~(stream # <<>> /\ NextBlob \in CreateBlobs)
  BY <1>1, RefuseKeeps DEF NewReader
<1>2. CASE stream # <<>> /\ NextBlob \in CreateBlobs
  <2>1. /\ status' = "reading" /\ pos' = 1 /\ got_ecreate' = TRUE
        /\ stream' = stream /\ ended' = ended
        /\ last_offset' = last_offset /\ chunks_measured' = chunks_measured
        /\ chunks_seen' = chunks_seen /\ last_eadd' = last_eadd /\ page' = page /\ pages' = pages
    BY <1>2 DEF NewReader
  <2>2. /\ Len(st) \in Nat /\ Len(stream) \in Nat /\ Met \in 0 .. Len(st)
        /\ \A n \in 1 .. Len(st) : st[n] \in Nat /\ st[n] >= 1
    BY EnumFacts
  <2>3. status = "new" /\ pos = 0 /\ stream[1] \in CreateBlobs
    BY <1>2 DEF NewReader, LetThrough, NextBlob
  <2>4. Met = 0
    <3>1. SUFFICES ASSUME Met >= 1 PROVE FALSE BY <2>2
    <3>2. 1 \in 1 .. Len(st) BY <2>2, <3>1
    <3>3. st[1] <= pos BY <3>1, <3>2 DEF ReadInv, MetPages
    <3> QED BY <2>2, <2>3, <3>2, <3>3
  <2>5. Len(pages) = 0 /\ last_eadd = None
    <3>1. Len(pages) \in Nat BY DEF ReaderTypeOK
    <3> QED BY <2>4, <3>1 DEF Met
  <2>6. Met' = 0 BY <2>1, <2>4 DEF Met
  <2>7. Len(stream) >= 1 BY <1>2 DEF ReaderTypeOK
  <2>8. ReaderTypeOK' BY <2>1, <2>2, <2>7 DEF ReaderTypeOK
  <2>9. LetThrough' BY <2>1, <2>3 DEF LetThrough
  <2>10. Enumerates(st)' BY <2>1 DEF ReadInv, Enumerates
  <2>11. MetPages(st)'
    <3>1. ASSUME NEW n \in 1 .. Len(st) PROVE ~(st[n] <= 1)
      <4>1. stream[st[n]] \in AddBlobs BY DEF ReadInv, Enumerates
      <4>2. st[n] # 1 BY <2>3, <4>1, BlobKinds
      <4> QED BY <2>2, <4>2
    <3>2. last_offset' = None BY <2>1, <2>4 DEF ReadInv, MetPages
    <3>3. \A n \in 1 .. Len(st) : st[n] <= pos' <=> n <= Met' BY <2>1, <2>6, <3>1
    <3> QED BY <2>1, <2>2, <2>6, <3>2, <3>3 DEF MetPages
  <2>12. MetChunks(st)'
    <3>1. \A j \in 1 .. pos' : j = 1 BY <2>1
    <3> QED BY <2>1, <2>3, <3>1, BlobKinds DEF MetChunks
  <2>13. Collected(st)' BY <2>1, <2>5, <2>6 DEF ReadInv, Collected
  <2>14. Returned(st)' BY <2>1, <2>5 DEF Returned
  <2> QED BY <2>8, <2>9, <2>10, <2>11, <2>12, <2>13, <2>14 DEF ReadInv
<1> QED BY <1>1, <1>2

\* Facts about the blob that is read.
LEMMA NextFacts ==
    ASSUME NEW st, ReaderTypeOK, LetThrough, ReadInv(st),
           status = "reading", pos < Len(stream)
    PROVE  /\ pos \in Nat /\ pos + 1 \in 1 .. Len(stream) /\ pos >= 1
           /\ Met > 0 <=> last_eadd # None
           /\ Met > 0 => st[Met] \in 1 .. pos /\ Met \in 1 .. Len(st)
           /\ NextBlob \in AddBlobs => Met + 1 \in 1 .. Len(st) /\ st[Met + 1] = pos + 1
           /\ NextBlob \notin AddBlobs => \A n \in 1 .. Len(st) : st[n] # pos + 1
           /\ Met + 1 \in 1 .. Len(st) => st[Met + 1] > pos
<1>1. /\ Len(st) \in Nat /\ Len(stream) \in Nat /\ pos \in Nat /\ Met \in 0 .. Len(st)
      /\ \A n \in 1 .. Len(st) : st[n] \in Nat /\ st[n] >= 1
  BY EnumFacts
<1>2. pos + 1 \in 1 .. Len(stream) /\ pos >= 1 BY <1>1 DEF LetThrough
<1>3. Met > 0 <=> last_eadd # None
  <2>1. Len(pages) \in Nat BY DEF ReaderTypeOK
  <2>2. last_eadd # None => Met > 0 BY <2>1 DEF Met
  <2>3. last_eadd = None /\ Met > 0 => pos = Len(stream) BY DEF ReadInv, Collected
  <2> QED BY <1>1, <2>2, <2>3
<1>4. Met > 0 => st[Met] \in 1 .. pos /\ Met \in 1 .. Len(st)
  <2>1. Met > 0 => Met \in 1 .. Len(st) BY <1>1
  <2> QED BY <1>1, <2>1 DEF ReadInv, MetPages
<1>5. Met + 1 \in 1 .. Len(st) => st[Met + 1] > pos
  <2>1. Met + 1 \in 1 .. Len(st) => ~(st[Met + 1] <= pos) BY <1>1 DEF ReadInv, MetPages
  <2> QED BY <1>1, <2>1
<1>6. ASSUME NextBlob \in AddBlobs PROVE Met + 1 \in 1 .. Len(st) /\ st[Met + 1] = pos + 1
  <2>1. PICK q \in 1 .. Len(st) : st[q] = pos + 1
    BY <1>2, <1>6 DEF NextBlob, ReadInv, Enumerates
  <2>2. ~(q <= Met) BY <1>1, <2>1 DEF ReadInv, MetPages
  <2>3. Met + 1 \in 1 .. Len(st) /\ Met + 1 <= q BY <1>1, <2>2
  <2>4. ~(Met + 1 < q)
    <3>1. Met + 1 < q => st[Met + 1] < st[q] BY <2>3 DEF ReadInv, Enumerates
    <3> QED BY <1>1, <1>5, <2>1, <2>3, <3>1
  <2>5. q = Met + 1 BY <1>1, <2>3, <2>4
  <2> QED BY <2>1, <2>3, <2>5
<1>7. NextBlob \notin AddBlobs => \A n \in 1 .. Len(st) : st[n] # pos + 1
  BY DEF NextBlob, ReadInv, Enumerates
<1> QED BY <1>1, <1>2, <1>3, <1>4, <1>5, <1>6, <1>7

\* A page that is returned: its type, and what it is.
LEMMA ReturnPageFacts ==
    ASSUME ReaderTypeOK, last_eadd # None, ReturnPage
    PROVE  /\ pages' \in Seq(PageSet)
           /\ Len(pages') = Len(pages) + 1
           /\ \A n \in 1 .. Len(pages) : pages'[n] = pages[n]
           /\ pages'[Len(pages) + 1] =
                [eadd |-> last_eadd, measured |-> chunks_measured, data |-> page]
           /\ page' = EmptyPage /\ page' \in [Chunks -> Data]
<1> DEFINE e == [eadd |-> last_eadd, measured |-> chunks_measured, data |-> page]
<1>1. e \in PageSet BY DEF ReaderTypeOK, PageSet
<1>2. pages' = Append(pages, e) /\ page' = EmptyPage BY DEF ReturnPage
<1>3. EmptyPage \in [Chunks -> Data] BY DataAssumption DEF EmptyPage
<1>4. pages \in Seq(PageSet) BY DEF ReaderTypeOK
<1> HIDE DEF e
<1>5. /\ pages' \in Seq(PageSet) /\ Len(pages') = Len(pages) + 1
      /\ \A n \in 1 .. Len(pages) : pages'[n] = pages[n]
      /\ pages'[Len(pages) + 1] = e
  BY <1>1, <1>2, <1>4
<1> QED BY <1>2, <1>3, <1>5 DEF e

LEMMA ReadEAddKeeps ==
    ASSUME NEW st, ReaderTypeOK, LetThrough, ReadInv(st), ReadEAdd
    PROVE  ReaderTypeOK' /\ LetThrough' /\ ReadInv(st)'
<1>1. /\ status = "reading" /\ pos < Len(stream) /\ NextBlob \in AddBlobs
      /\ pos' = pos + 1 /\ last_offset' = NextBlob.offset
      /\ chunks_measured' = {} /\ chunks_seen' = {} /\ last_eadd' = NextBlob
      /\ stream' = stream /\ ended' = ended /\ got_ecreate' = got_ecreate /\ status' = status
  BY DEF ReadEAdd
<1>2. /\ NextBlob.offset % PageSize = 0 /\ NextBlob.secinfo # "tcs_rwx"
      /\ last_offset # None => NextBlob.offset > last_offset
  BY <1>1, BlobKinds DEF ReadEAdd, Accepts
<1>3. \/ last_eadd # None /\ ReturnPage
      \/ last_eadd = None /\ page' = page /\ pages' = pages
  BY DEF ReadEAdd
<1>4. /\ Len(st) \in Nat /\ Len(stream) \in Nat /\ pos \in Nat /\ Met \in 0 .. Len(st)
      /\ \A n \in 1 .. Len(st) : st[n] \in Nat /\ st[n] >= 1
  BY EnumFacts
<1>5. /\ pos + 1 \in 1 .. Len(stream) /\ pos >= 1
      /\ Met > 0 <=> last_eadd # None
      /\ Met > 0 => st[Met] \in 1 .. pos /\ Met \in 1 .. Len(st)
      /\ Met + 1 \in 1 .. Len(st) /\ st[Met + 1] = pos + 1
  BY <1>1, NextFacts
<1>6. stream[st[Met + 1]] = NextBlob BY <1>5 DEF NextBlob
<1>7. last_eadd' # None BY <1>1, NoneAssumption
<1>8. Len(pages) \in Nat BY DEF ReaderTypeOK
<1>9. Met' = Met + 1
  <2>1. CASE last_eadd # None /\ ReturnPage
    <3>1. Len(pages') = Len(pages) + 1 BY <2>1, ReturnPageFacts
    <3>2. Met = Len(pages) + 1 BY <2>1 DEF Met
    <3> QED BY <1>7, <1>8, <3>1, <3>2 DEF Met
  <2>2. CASE last_eadd = None /\ page' = page /\ pages' = pages
    BY <1>7, <1>8, <2>2 DEF Met
  <2> QED BY <1>3, <2>1, <2>2
<1>10. ReaderTypeOK'
  <2>1. pages' \in Seq(PageSet) /\ page' \in [Chunks -> Data]
    BY <1>3, ReturnPageFacts DEF ReaderTypeOK
  <2>2. last_offset' \in 0 .. MaxBlobOffset BY <1>1, BlobBoundsAssumption, BlobKinds
  <2>3. pos' \in 0 .. Len(stream') BY <1>1, <1>4, <1>5
  <2> QED BY <1>1, <2>1, <2>2, <2>3 DEF ReaderTypeOK
<1>11. LetThrough'
  <2>1. \A i \in 2 .. pos' : i = pos + 1 \/ i \in 2 .. pos BY <1>1, <1>4
  <2>2. stream[pos + 1] \in AddBlobs BY <1>1 DEF NextBlob
  <2>3. \A i \in 2 .. pos' : stream'[i] \in AddBlobs \union ChunkBlobs
    BY <1>1, <2>1, <2>2 DEF LetThrough
  <2>4. pos' > 0 /\ pos' # 0 /\ pos > 0 BY <1>1, <1>4, <1>5
  <2> QED BY <1>1, <1>4, <2>3, <2>4 DEF LetThrough
<1>12. Enumerates(st)' BY <1>1 DEF ReadInv, Enumerates
<1>13. MetPages(st)'
  <2>1. Met' <= Len(st) BY <1>4, <1>5, <1>9
  <2>2. ASSUME NEW n \in 1 .. Len(st) PROVE st[n] <= pos + 1 <=> n <= Met + 1
    <3>1. st[n] <= pos <=> n <= Met BY DEF ReadInv, MetPages
    <3>2. Met + 1 < n => st[Met + 1] < st[n] BY <1>5 DEF ReadInv, Enumerates
    <3> QED BY <1>4, <1>5, <3>1, <3>2
  <2>3. last_offset' = stream[st[Met + 1]].offset /\ Met' # 0 BY <1>1, <1>4, <1>6, <1>9
  <2>4. \A n \in 1 .. Met + 1 : n = Met + 1 \/ n \in 1 .. Met BY <1>4
  <2>5. \A n \in 1 .. Met + 1 : stream[st[n]].offset % PageSize = 0
                                /\ stream[st[n]].secinfo # "tcs_rwx"
    BY <1>2, <1>6, <2>4 DEF ReadInv, MetPages
  <2>6. ASSUME NEW m \in 1 .. Met + 1, NEW n \in 1 .. Met + 1, m < n
        PROVE  stream[st[m]].offset < stream[st[n]].offset
    <3>1. CASE n \in 1 .. Met
      <4>1. m \in 1 .. Met BY <1>4, <2>6, <3>1
      <4> QED BY <2>6, <3>1, <4>1 DEF ReadInv, MetPages
    <3>2. CASE n = Met + 1
      <4>1. m \in 1 .. Met /\ Met > 0 /\ Met \in 1 .. Met /\ Met \in 1 .. Len(st) /\ m \in 1 .. Len(st)
        BY <1>4, <2>6, <3>2
      <4>2. last_offset = stream[st[Met]].offset BY <4>1 DEF ReadInv, MetPages
      <4>3. stream[st[Met]] \in AddBlobs /\ stream[st[m]] \in AddBlobs /\ NextBlob \in AddBlobs
        BY <1>1, <4>1 DEF ReadInv, Enumerates
      <4>4. /\ stream[st[Met]].offset \in Nat /\ stream[st[m]].offset \in Nat
            /\ NextBlob.offset \in Nat
        BY <4>3, BlobKinds
      <4>5. stream[st[Met]].offset < NextBlob.offset
        BY <1>2, <4>2, <4>4, NoneAssumption
      <4>6. stream[st[m]].offset <= stream[st[Met]].offset
        <5>1. CASE m = Met BY <4>4, <5>1
        <5>2. CASE m < Met
          <6>1. stream[st[m]].offset < stream[st[Met]].offset BY <4>1, <5>2 DEF ReadInv, MetPages
          <6> QED BY <4>4, <6>1
        <5> QED BY <4>1, <5>1, <5>2
      <4> QED BY <1>6, <3>2, <4>4, <4>5, <4>6
    <3> QED BY <2>4, <3>1, <3>2
  <2> QED BY <1>1, <1>9, <2>1, <2>2, <2>3, <2>5, <2>6 DEF MetPages
<1>14. MetChunks(st)'
  <2> SUFFICES ASSUME NEW j \in 1 .. pos + 1, stream[j] \in ChunkBlobs
               PROVE  /\ stream[j].offset % ChunkSize = 0
                      /\ \E n \in 1 .. Met + 1 :
                            /\ st[n] < j /\ j <= EndOf(st, n)
                            /\ stream[j].offset \div PageSize = stream[st[n]].offset \div PageSize
    BY <1>1, <1>9 DEF MetChunks, EndOf
  <2>1. j # pos + 1 BY <1>1, BlobKinds DEF NextBlob
  <2>2. j \in 1 .. pos BY <1>4, <2>1
  <2>3. PICK n \in 1 .. Met : /\ st[n] < j /\ j <= EndOf(st, n)
                              /\ stream[j].offset \div PageSize = stream[st[n]].offset \div PageSize
    BY <2>2 DEF ReadInv, MetChunks
  <2>4. stream[j].offset % ChunkSize = 0 BY <2>2 DEF ReadInv, MetChunks
  <2>5. n \in 1 .. Met + 1 BY <1>4
  <2> QED BY <2>3, <2>4, <2>5
<1>15. Collected(st)'
  <2>1. ChunksIn(stream, st[Met + 1], pos + 1) = {} BY <1>4, <1>5 DEF ChunksIn
  <2>2. page' = EmptyPage
    <3>1. CASE last_eadd # None /\ ReturnPage BY <3>1, ReturnPageFacts
    <3>2. CASE last_eadd = None /\ page' = page /\ pages' = pages
      BY <3>2 DEF ReadInv, Collected
    <3> QED BY <1>3, <3>1, <3>2
  <2>3. ChunksIn(stream', st[Met'], pos') = {} BY <1>1, <1>9, <2>1
  <2>4. last_eadd' = stream'[st[Met']] BY <1>1, <1>6, <1>9
  <2> QED BY <1>1, <1>7, <2>2, <2>3, <2>4, NoBlobs DEF Collected
<1>16. Returned(st)'
  <2>1. status' # "end" BY <1>1
  <2>2. ASSUME NEW n \in 1 .. Len(pages')
        PROVE  pages'[n] = PageFrom(stream, st[n], ChunksIn(stream, st[n], EndOf(st, n)))
    <3>1. CASE last_eadd # None /\ ReturnPage
      <4>1. /\ Len(pages') = Len(pages) + 1
            /\ \A m \in 1 .. Len(pages) : pages'[m] = pages[m]
            /\ pages'[Len(pages) + 1] =
                [eadd |-> last_eadd, measured |-> chunks_measured, data |-> page]
        BY <3>1, ReturnPageFacts
      <4>2. CASE n \in 1 .. Len(pages) BY <4>1, <4>2 DEF ReadInv, Returned
      <4>3. CASE n = Len(pages) + 1
        <5>1. n = Met BY <3>1, <4>3 DEF Met
        <5>2. EndOf(st, n) = pos BY <1>4, <1>5, <5>1 DEF EndOf
        <5>3. [eadd |-> last_eadd, measured |-> chunks_measured, data |-> page]
              = PageFrom(stream, st[n], ChunksIn(stream, st[n], pos))
          BY <3>1, <5>1, Zenon DEF ReadInv, Collected, PageFrom
        <5> QED BY <4>1, <4>3, <5>2, <5>3
      <4> QED BY <1>8, <4>1, <4>2, <4>3
    <3>2. CASE last_eadd = None /\ page' = page /\ pages' = pages
      BY <3>2 DEF ReadInv, Returned
    <3> QED BY <1>3, <3>1, <3>2
  <2> QED BY <1>1, <2>1, <2>2 DEF Returned, EndOf
<1> QED BY <1>10, <1>11, <1>12, <1>13, <1>14, <1>15, <1>16 DEF ReadInv

LEMMA ReadChunkKeeps ==
    ASSUME NEW st, ReaderTypeOK, LetThrough, ReadInv(st), ReadChunk
    PROVE  ReaderTypeOK' /\ LetThrough' /\ ReadInv(st)'
<1> DEFINE b == NextBlob
           p == pos + 1
           S == ChunksIn(stream, st[Met], pos)
<1>1. /\ status = "reading" /\ pos < Len(stream) /\ b \in ChunkBlobs
      /\ pos' = pos + 1
      /\ chunks_seen' = chunks_seen \union {Chunk(b.offset)}
      /\ chunks_measured' = IF b.tag = "EEXTEND" THEN chunks_measured \union {Chunk(b.offset)}
                            ELSE chunks_measured
      /\ page' = [page EXCEPT ![(b.offset % PageSize) \div ChunkSize] = b.data]
      /\ stream' = stream /\ ended' = ended /\ got_ecreate' = got_ecreate /\ status' = status
      /\ last_offset' = last_offset /\ last_eadd' = last_eadd /\ pages' = pages
  BY DEF ReadChunk
<1>2. /\ b.offset % ChunkSize = 0 /\ last_offset # None /\ b.offset >= last_offset
      /\ Chunk(b.offset) < PageChunks
  BY <1>1, BlobKinds DEF ReadChunk, Accepts, CheckChunkOffset
<1>3. /\ Len(st) \in Nat /\ Len(stream) \in Nat /\ pos \in Nat /\ Met \in 0 .. Len(st)
      /\ \A n \in 1 .. Len(st) : st[n] \in Nat /\ st[n] >= 1
  BY EnumFacts
<1>4. Met > 0 BY <1>2, <1>3 DEF ReadInv, MetPages
<1>5. b \notin AddBlobs BY <1>1, BlobKinds
<1>6. /\ pos + 1 \in 1 .. Len(stream) /\ pos >= 1
      /\ last_eadd # None
      /\ st[Met] \in 1 .. pos /\ Met \in 1 .. Len(st)
      /\ \A n \in 1 .. Len(st) : st[n] # pos + 1
      /\ Met + 1 \in 1 .. Len(st) => st[Met + 1] > pos
  BY <1>1, <1>4, <1>5, NextFacts
<1>7. Met' = Met BY <1>1 DEF Met
<1>8. /\ last_offset = stream[st[Met]].offset /\ last_offset \in Nat
      /\ last_offset % PageSize = 0
  <2>1. last_offset = stream[st[Met]].offset BY <1>4 DEF ReadInv, MetPages
  <2>2. stream[st[Met]] \in AddBlobs BY <1>6 DEF ReadInv, Enumerates
  <2>3. Met \in 1 .. Met BY <1>3, <1>4
  <2> QED BY <2>1, <2>2, <2>3, BlobKinds DEF ReadInv, MetPages
<1>9. b.offset \in Nat /\ b.data \in Data BY <1>1, BlobKinds
<1>10. /\ (b.offset % PageSize) \div ChunkSize = Chunk(b.offset)
       /\ Chunk(b.offset) \in Chunks
       /\ b.offset \div PageSize = last_offset \div PageSize
  BY <1>2, <1>8, <1>9, ChunkInPage DEF Chunk
<1>11. Slot(stream, p) = Chunk(b.offset) /\ stream[p] = b BY <1>10 DEF Slot, NextBlob
<1>12. ReaderTypeOK'
  <2>1. page' \in [Chunks -> Data] BY <1>1, <1>9, <1>10 DEF ReaderTypeOK
  <2>2. chunks_seen' \subseteq Chunks /\ chunks_measured' \subseteq Chunks
    BY <1>1, <1>10 DEF ReaderTypeOK
  <2>3. pos' \in 0 .. Len(stream') BY <1>1, <1>3, <1>6
  <2> QED BY <1>1, <2>1, <2>2, <2>3 DEF ReaderTypeOK
<1>13. LetThrough'
  <2>1. \A i \in 2 .. pos' : i = pos + 1 \/ i \in 2 .. pos BY <1>1, <1>3
  <2>3. \A i \in 2 .. pos' : stream'[i] \in AddBlobs \union ChunkBlobs
    BY <1>1, <1>11, <2>1 DEF LetThrough
  <2>4. pos' > 0 /\ pos' # 0 /\ pos > 0 BY <1>1, <1>3, <1>6
  <2> QED BY <1>1, <1>3, <2>3, <2>4 DEF LetThrough
<1>14. Enumerates(st)' BY <1>1 DEF ReadInv, Enumerates
<1>15. MetPages(st)'
  <2>1. ASSUME NEW n \in 1 .. Len(st) PROVE st[n] <= pos + 1 <=> n <= Met
    <3>1. st[n] <= pos <=> n <= Met BY DEF ReadInv, MetPages
    <3> QED BY <1>3, <1>6, <3>1
  <2> QED BY <1>1, <1>7, <2>1 DEF ReadInv, MetPages
<1>16. MetChunks(st)'
  <2>1. p <= EndOf(st, Met)
    <3>1. CASE Met < Len(st)
      <4>1. Met + 1 \in 1 .. Len(st) BY <1>3, <3>1
      <4>2. st[Met + 1] > pos /\ st[Met + 1] # pos + 1 /\ st[Met + 1] \in Nat BY <1>3, <1>6, <4>1
      <4> QED BY <1>3, <3>1, <4>2 DEF EndOf
    <3>2. CASE ~(Met < Len(st)) BY <1>3, <1>6, <3>2 DEF EndOf
    <3> QED BY <3>1, <3>2
  <2>2. Met \in 1 .. Met /\ st[Met] < p BY <1>3, <1>4, <1>6
  <2>3. stream[p].offset \div PageSize = stream[st[Met]].offset \div PageSize
    BY <1>8, <1>10, <1>11
  <2>4. \A j \in 1 .. pos + 1 : j = p \/ j \in 1 .. pos BY <1>3
  <2> QED BY <1>1, <1>2, <1>7, <1>11, <2>1, <2>2, <2>3, <2>4 DEF ReadInv, MetChunks, EndOf
<1>17. Collected(st)'
  <2> DEFINE T == ChunksIn(stream, st[Met], p)
  <2>1. T = S \union {p}
    <3>1. \A j \in st[Met] + 1 .. p : j = p \/ j \in st[Met] + 1 .. pos BY <1>3, <1>6
    <3>2. p \in st[Met] + 1 .. p /\ \A j \in st[Met] + 1 .. pos : j \in st[Met] + 1 .. p
      BY <1>3, <1>6
    <3> QED BY <1>1, <1>11, <3>1, <3>2 DEF ChunksIn
  <2>2. p \in Nat /\ \A j \in S : j \in Nat /\ j < p BY <1>3, <1>6 DEF ChunksIn
  <2>3. /\ chunks_measured = MeasuredIn(stream, S) /\ chunks_seen = SlotsIn(stream, S)
        /\ page = ContentOf(stream, S) /\ last_eadd = stream[st[Met]]
    BY <1>6 DEF ReadInv, Collected
  <2>9. Slot(stream, p) \in Chunks BY <1>10, <1>11
  <2>8. pos' = p BY <1>1 DEF p
  <2> HIDE DEF S, T, p, b
  <2>4. /\ SlotsIn(stream, T) = SlotsIn(stream, S) \union {Slot(stream, p)}
        /\ MeasuredIn(stream, T) =
            IF stream[p].tag = "EEXTEND" THEN MeasuredIn(stream, S) \union {Slot(stream, p)}
            ELSE MeasuredIn(stream, S)
        /\ ContentOf(stream, T) =
            [ContentOf(stream, S) EXCEPT ![Slot(stream, p)] = stream[p].data]
    BY <2>1, <2>2, <2>9, OneMore
  <2>5. chunks_seen' = SlotsIn(stream, T)
    BY <1>1, <1>11, <2>3, <2>4
  <2>6. chunks_measured' = MeasuredIn(stream, T)
    BY <1>1, <1>11, <2>3, <2>4
  <2>7. page' = ContentOf(stream, T)
    BY <1>1, <1>10, <1>11, <2>3, <2>4
  <2> QED BY <1>1, <1>6, <1>7, <2>3, <2>5, <2>6, <2>7, <2>8 DEF Collected, T
<1>18. Returned(st)' BY <1>1 DEF ReadInv, Returned, EndOf
<1> QED BY <1>12, <1>13, <1>14, <1>15, <1>16, <1>17, <1>18 DEF ReadInv

LEMMA ReadEndKeeps ==
    ASSUME NEW st, ReaderTypeOK, LetThrough, ReadInv(st), ReadEnd
    PROVE  ReaderTypeOK' /\ LetThrough' /\ ReadInv(st)'
<1>1. /\ status = "reading" /\ ended /\ pos = Len(stream) /\ last_eadd' = None
      /\ stream' = stream /\ ended' = ended /\ pos' = pos /\ got_ecreate' = got_ecreate
      /\ last_offset' = last_offset /\ chunks_measured' = chunks_measured
      /\ chunks_seen' = chunks_seen
  BY DEF ReadEnd, canonicalVars
<1>2. \/ last_eadd # None /\ ReturnPage /\ status' = status
      \/ last_eadd = None /\ status' = "end" /\ page' = page /\ pages' = pages
  BY DEF ReadEnd
<1>3. /\ Len(st) \in Nat /\ Len(stream) \in Nat /\ pos \in Nat /\ Met \in 0 .. Len(st)
      /\ \A n \in 1 .. Len(st) : st[n] \in Nat /\ st[n] >= 1
  BY EnumFacts
<1>4. Len(pages) \in Nat BY DEF ReaderTypeOK
<1>5. Met' = Met
  <2>1. CASE last_eadd # None /\ ReturnPage /\ status' = status
    <3>1. Len(pages') = Len(pages) + 1 BY <2>1, ReturnPageFacts
    <3> QED BY <1>1, <1>4, <2>1, <3>1 DEF Met
  <2>2. CASE last_eadd = None /\ pages' = pages BY <1>1, <2>2 DEF Met
  <2> QED BY <1>2, <2>1, <2>2
<1>6. page' = EmptyPage
  <2>1. CASE last_eadd # None /\ ReturnPage /\ status' = status BY <2>1, ReturnPageFacts
  <2>2. CASE last_eadd = None /\ page' = page BY <2>2 DEF ReadInv, Collected
  <2> QED BY <1>2, <2>1, <2>2
<1>7. ReaderTypeOK'
  <2>1. pages' \in Seq(PageSet) /\ page' \in [Chunks -> Data]
    BY <1>2, ReturnPageFacts DEF ReaderTypeOK
  <2>2. status' \in {"reading", "end"} BY <1>1, <1>2
  <2> QED BY <1>1, <2>1, <2>2 DEF ReaderTypeOK
<1>8. LetThrough'
  <2>1. status' \in {"reading", "end"} BY <1>1, <1>2
  <2> QED BY <1>1, <2>1 DEF LetThrough
<1>9. Enumerates(st)' BY <1>1 DEF ReadInv, Enumerates
<1>10. MetPages(st)' BY <1>1, <1>5 DEF ReadInv, MetPages
<1>11. MetChunks(st)' BY <1>1, <1>5 DEF ReadInv, MetChunks, EndOf
<1>12. Collected(st)' BY <1>1, <1>6 DEF Collected
<1>13. Returned(st)'
  <2>1. ASSUME NEW n \in 1 .. Len(pages')
        PROVE  pages'[n] = PageFrom(stream, st[n], ChunksIn(stream, st[n], EndOf(st, n)))
    <3>1. CASE last_eadd # None /\ ReturnPage
      <4>1. /\ Len(pages') = Len(pages) + 1
            /\ \A m \in 1 .. Len(pages) : pages'[m] = pages[m]
            /\ pages'[Len(pages) + 1] =
                [eadd |-> last_eadd, measured |-> chunks_measured, data |-> page]
        BY <3>1, ReturnPageFacts
      <4>2. CASE n \in 1 .. Len(pages) BY <4>1, <4>2 DEF ReadInv, Returned
      <4>3. CASE n = Len(pages) + 1
        <5>1. n = Met BY <3>1, <4>3 DEF Met
        <5>2. EndOf(st, n) = pos
          <6>1. ~(n < Len(st))
            <7> SUFFICES ASSUME n < Len(st) PROVE FALSE OBVIOUS
            <7>1. n + 1 \in 1 .. Len(st) BY <1>3, <5>1
            <7>2. st[n + 1] <= pos BY <1>1, <7>1 DEF ReadInv, Enumerates
            <7>3. n + 1 <= Met BY <7>1, <7>2 DEF ReadInv, MetPages
            <7> QED BY <1>3, <5>1, <7>3
          <6> QED BY <1>1, <6>1 DEF EndOf
        <5>3. [eadd |-> last_eadd, measured |-> chunks_measured, data |-> page]
              = PageFrom(stream, st[n], ChunksIn(stream, st[n], pos))
          BY <3>1, <5>1, Zenon DEF ReadInv, Collected, PageFrom
        <5> QED BY <4>1, <4>3, <5>2, <5>3
      <4> QED BY <1>4, <4>1, <4>2, <4>3
    <3>2. CASE last_eadd = None /\ pages' = pages BY <3>2 DEF ReadInv, Returned
    <3> QED BY <1>2, <3>1, <3>2
  <2> QED BY <1>1, <2>1 DEF Returned, EndOf
<1> QED BY <1>7, <1>8, <1>9, <1>10, <1>11, <1>12, <1>13 DEF ReadInv

LEMMA ReaderKeeps ==
    ASSUME NEW st, ReaderTypeOK, LetThrough, ReadInv(st), ReaderNext
    PROVE  ReaderTypeOK' /\ LetThrough' /\ ReadInv(st)'
<1>1. CASE NewReader BY <1>1, NewReaderKeeps
<1>2. CASE RefuseBlob BY <1>2, RefuseKeeps DEF RefuseBlob
<1>3. CASE ReadEAdd BY <1>3, ReadEAddKeeps
<1>4. CASE ReadChunk BY <1>4, ReadChunkKeeps
<1>5. CASE ReadEnd BY <1>5, ReadEndKeeps
<1> QED BY <1>1, <1>2, <1>3, <1>4, <1>5 DEF ReaderNext

-----------------------------------------------------------------------------
(***************************************************************************)
(* A blob that is added to the stream.                                     *)
(***************************************************************************)
Extended(st, b) == IF b \in AddBlobs THEN Append(st, Len(stream) + 1) ELSE st

Grows(b) ==
    /\ ~ended
    /\ stream' = Append(stream, b)
    /\ UNCHANGED <<ended, readerVars>>

LEMMA ExtendedFacts ==
    ASSUME NEW st, NEW b \in Blobs, ReaderTypeOK, Enumerates(st), Grows(b)
    PROVE  /\ Len(stream') = Len(stream) + 1 /\ Len(stream) \in Nat
           /\ \A j \in 1 .. Len(stream) : stream'[j] = stream[j]
           /\ stream'[Len(stream) + 1] = b
           /\ stream' \in Seq(Blobs)
           /\ Extended(st, b) \in Seq(Nat) /\ Len(st) \in Nat
           /\ \A n \in 1 .. Len(st) : Extended(st, b)[n] = st[n]
           /\ b \in AddBlobs => /\ Len(Extended(st, b)) = Len(st) + 1
                                /\ Extended(st, b)[Len(st) + 1] = Len(stream) + 1
           /\ b \notin AddBlobs => Len(Extended(st, b)) = Len(st)
<1>1. stream \in Seq(Blobs) /\ Len(stream) \in Nat BY DEF ReaderTypeOK
<1>2. stream' = Append(stream, b) BY DEF Grows
<1>3. /\ Len(stream') = Len(stream) + 1
      /\ \A j \in 1 .. Len(stream) : stream'[j] = stream[j]
      /\ stream'[Len(stream) + 1] = b
      /\ stream' \in Seq(Blobs)
  BY <1>1, <1>2
<1>4. st \in Seq(Nat) /\ Len(st) \in Nat /\ Len(stream) + 1 \in Nat BY <1>1 DEF Enumerates
<1>5. CASE b \in AddBlobs
  <2>1. Extended(st, b) = Append(st, Len(stream) + 1) BY <1>5 DEF Extended
  <2>2. /\ Append(st, Len(stream) + 1) \in Seq(Nat)
        /\ Len(Append(st, Len(stream) + 1)) = Len(st) + 1
        /\ \A n \in 1 .. Len(st) : Append(st, Len(stream) + 1)[n] = st[n]
        /\ Append(st, Len(stream) + 1)[Len(st) + 1] = Len(stream) + 1
    BY <1>4
  <2> QED BY <1>1, <1>3, <1>4, <1>5, <2>1, <2>2
<1>6. CASE b \notin AddBlobs
  <2>1. Extended(st, b) = st BY <1>6 DEF Extended
  <2> QED BY <1>1, <1>3, <1>4, <1>6, <2>1
<1> QED BY <1>5, <1>6

LEMMA EnumeratesExtended ==
    ASSUME NEW st, NEW b \in Blobs, ReaderTypeOK, Enumerates(st), Grows(b),
           NEW t, t = Extended(st, b)
    PROVE  Enumerates(t)'
<1>1. /\ Len(stream') = Len(stream) + 1 /\ Len(stream) \in Nat
      /\ \A j \in 1 .. Len(stream) : stream'[j] = stream[j]
      /\ stream'[Len(stream) + 1] = b
      /\ t \in Seq(Nat) /\ Len(st) \in Nat
      /\ \A n \in 1 .. Len(st) : t[n] = st[n]
      /\ b \in AddBlobs => Len(t) = Len(st) + 1 /\ t[Len(st) + 1] = Len(stream) + 1
      /\ b \notin AddBlobs => Len(t) = Len(st)
  BY ExtendedFacts
<1>2. \A n \in 1 .. Len(st) : st[n] \in 1 .. Len(stream) /\ stream[st[n]] \in AddBlobs
  BY DEF Enumerates
<1>3. \A n \in 1 .. Len(t) : n \in 1 .. Len(st) \/ (b \in AddBlobs /\ n = Len(st) + 1)
  BY <1>1
<1>4. ASSUME NEW n \in 1 .. Len(t)
      PROVE  t[n] \in 1 .. Len(stream') /\ stream'[t[n]] \in AddBlobs
  <2>1. CASE n \in 1 .. Len(st)
    <3>1. t[n] = st[n] BY <1>1, <2>1
    <3>2. st[n] \in 1 .. Len(stream) /\ stream[st[n]] \in AddBlobs BY <1>2, <2>1
    <3>3. stream'[st[n]] = stream[st[n]] BY <1>1, <3>2
    <3>4. st[n] \in 1 .. Len(stream') BY <1>1, <3>2
    <3> QED BY <3>1, <3>2, <3>3, <3>4
  <2>2. CASE b \in AddBlobs /\ n = Len(st) + 1 BY <1>1, <2>2
  <2> QED BY <1>3, <2>1, <2>2
<1>5. ASSUME NEW m \in 1 .. Len(t), NEW n \in 1 .. Len(t), m < n PROVE t[m] < t[n]
  <2>1. m \in 1 .. Len(st) BY <1>1, <1>3, <1>5
  <2>2. CASE n \in 1 .. Len(st) BY <1>1, <1>5, <2>1, <2>2 DEF Enumerates
  <2>3. CASE b \in AddBlobs /\ n = Len(st) + 1 BY <1>1, <1>2, <2>1, <2>3
  <2> QED BY <1>3, <2>2, <2>3
<1>6. ASSUME NEW i \in 1 .. Len(stream'), stream'[i] \in AddBlobs
      PROVE  \E n \in 1 .. Len(t) : t[n] = i
  <2>1. CASE i \in 1 .. Len(stream)
    <3>1. stream[i] \in AddBlobs BY <1>1, <1>6, <2>1
    <3>2. PICK n \in 1 .. Len(st) : st[n] = i BY <2>1, <3>1 DEF Enumerates
    <3>3. n \in 1 .. Len(t) BY <1>1
    <3> QED BY <1>1, <3>2, <3>3
  <2>2. CASE i = Len(stream) + 1
    <3>1. b \in AddBlobs BY <1>1, <1>6, <2>2
    <3>2. Len(st) + 1 \in 1 .. Len(t) BY <1>1, <3>1
    <3> QED BY <1>1, <2>2, <3>1, <3>2
  <2> QED BY <1>1, <2>1, <2>2
<1> QED BY <1>1, <1>4, <1>5, <1>6 DEF Enumerates

\* Where pages end does not change, but for the last page.
LEMMA EndOfExtended ==
    ASSUME NEW st, NEW b \in Blobs, ReaderTypeOK, Enumerates(st), Grows(b),
           NEW t, t = Extended(st, b), NEW n \in 1 .. Len(st)
    PROVE  /\ n \in 1 .. Len(t) /\ t[n] = st[n]
           /\ n < Len(st) \/ b \in AddBlobs => EndOf(t, n)' = EndOf(st, n)
           /\ n = Len(st) /\ b \notin AddBlobs => EndOf(t, n)' = EndOf(st, n) + 1
           /\ n < Len(st) \/ EndOf(st, n) = Len(stream)
<1>1. /\ Len(stream') = Len(stream) + 1 /\ Len(stream) \in Nat
      /\ Len(st) \in Nat
      /\ \A m \in 1 .. Len(st) : t[m] = st[m]
      /\ b \in AddBlobs => Len(t) = Len(st) + 1 /\ t[Len(st) + 1] = Len(stream) + 1
      /\ b \notin AddBlobs => Len(t) = Len(st)
  BY ExtendedFacts
<1>2. n \in 1 .. Len(t) /\ t[n] = st[n] BY <1>1
<1>3. CASE n < Len(st)
  <2>1. n + 1 \in 1 .. Len(st) /\ n < Len(t) BY <1>1, <1>3
  <2>2. t[n + 1] = st[n + 1] BY <1>1, <2>1
  <2>3. EndOf(t, n)' = t[n + 1] - 1 BY <2>1 DEF EndOf
  <2> QED BY <1>1, <1>2, <1>3, <2>2, <2>3 DEF EndOf
<1>4. CASE n = Len(st) /\ b \in AddBlobs
  <2>1. n < Len(t) /\ t[n + 1] = Len(stream) + 1 BY <1>1, <1>4
  <2>2. EndOf(t, n)' = Len(stream) BY <1>1, <2>1 DEF EndOf
  <2> QED BY <1>1, <1>2, <1>4, <2>2 DEF EndOf
<1>5. CASE n = Len(st) /\ b \notin AddBlobs
  <2>1. ~(n < Len(t)) BY <1>1, <1>5
  <2>2. EndOf(t, n)' = Len(stream) + 1 BY <1>1, <2>1 DEF EndOf
  <2> QED BY <1>1, <1>2, <1>5, <2>2 DEF EndOf
<1> QED BY <1>1, <1>3, <1>4, <1>5

LEMMA GrowKeeps ==
    ASSUME NEW st, ReaderTypeOK, LetThrough, ReadInv(st), NEW b \in Blobs, Grows(b),
           NEW t, t = Extended(st, b)
    PROVE  ReaderTypeOK' /\ LetThrough' /\ ReadInv(t)'
<1>1. /\ ~ended /\ ended' = ended /\ pos' = pos /\ got_ecreate' = got_ecreate
      /\ last_offset' = last_offset /\ chunks_measured' = chunks_measured
      /\ chunks_seen' = chunks_seen /\ last_eadd' = last_eadd /\ page' = page /\ pages' = pages
      /\ status' = status
  BY DEF Grows, readerVars, canonicalVars, pageVars
<1>2. Enumerates(st) BY DEF ReadInv
<1>3. /\ Len(stream') = Len(stream) + 1 /\ Len(stream) \in Nat
      /\ \A j \in 1 .. Len(stream) : stream'[j] = stream[j]
      /\ stream' \in Seq(Blobs)
      /\ t \in Seq(Nat) /\ Len(st) \in Nat
      /\ \A n \in 1 .. Len(st) : t[n] = st[n]
      /\ b \in AddBlobs => Len(t) = Len(st) + 1 /\ t[Len(st) + 1] = Len(stream) + 1
      /\ b \notin AddBlobs => Len(t) = Len(st)
  BY <1>2, ExtendedFacts
<1>4. /\ pos \in Nat /\ pos <= Len(stream) /\ Met \in 0 .. Len(st) /\ Met' = Met
      /\ \A n \in 1 .. Len(st) : st[n] \in Nat
  <2>1. pos \in Nat /\ Met \in 0 .. Len(st) /\ \A n \in 1 .. Len(st) : st[n] \in Nat BY EnumFacts
  <2> QED BY <1>1, <2>1 DEF ReaderTypeOK, Met
<1>5. \A i \in 1 .. pos : i \in 1 .. Len(stream) /\ stream'[i] = stream[i] BY <1>3, <1>4
<1>6. \A n \in 1 .. Met : n \in 1 .. Len(st) /\ t[n] = st[n] /\ stream'[t[n]] = stream[st[n]]
  <2> TAKE n \in 1 .. Met
  <2>1. n \in 1 .. Len(st) BY <1>3, <1>4
  <2>2. t[n] = st[n] BY <1>3, <2>1
  <2>3. st[n] \in 1 .. Len(stream) BY <1>2, <2>1 DEF Enumerates
  <2> QED BY <1>3, <2>1, <2>2, <2>3
<1>7. ReaderTypeOK'
  <2>1. pos' \in 0 .. Len(stream') BY <1>1, <1>3, <1>4
  <2> QED BY <1>1, <1>3, <2>1 DEF ReaderTypeOK
<1>8. LetThrough'
  <2>1. \A i \in 2 .. pos : stream'[i] = stream[i] BY <1>4, <1>5
  <2>2. pos > 0 => stream'[1] = stream[1] BY <1>4, <1>5
  <2> QED BY <1>1, <2>1, <2>2 DEF LetThrough
<1>9. Enumerates(t)' BY <1>2, EnumeratesExtended
<1>10. MetPages(t)'
  <2>1. Met' <= Len(t) BY <1>3, <1>4
  <2>2. ASSUME NEW n \in 1 .. Len(t) PROVE t[n] <= pos <=> n <= Met
    <3>1. CASE n \in 1 .. Len(st) BY <1>3, <3>1 DEF ReadInv, MetPages
    <3>2. CASE b \in AddBlobs /\ n = Len(st) + 1 BY <1>3, <1>4, <3>2
    <3> QED BY <1>3, <3>1, <3>2
  <2>3. last_offset' = IF Met' = 0 THEN None ELSE stream'[t[Met']].offset
    <3>1. Met # 0 => stream'[t[Met]] = stream[st[Met]] BY <1>4, <1>6
    <3> QED BY <1>1, <1>4, <3>1 DEF ReadInv, MetPages
  <2> QED BY <1>1, <1>4, <1>6, <2>1, <2>2, <2>3 DEF ReadInv, MetPages
<1>11. MetChunks(t)'
  <2> SUFFICES ASSUME NEW j \in 1 .. pos, stream'[j] \in ChunkBlobs
               PROVE  /\ stream'[j].offset % ChunkSize = 0
                      /\ \E n \in 1 .. Met :
                           /\ t[n] < j /\ j <= EndOf(t, n)'
                           /\ stream'[j].offset \div PageSize = stream'[t[n]].offset \div PageSize
    BY <1>1, <1>4 DEF MetChunks
  <2>1. stream'[j] = stream[j] BY <1>5
  <2>2. PICK n \in 1 .. Met : /\ st[n] < j /\ j <= EndOf(st, n)
                              /\ stream[j].offset \div PageSize = stream[st[n]].offset \div PageSize
    BY <2>1 DEF ReadInv, MetChunks
  <2>3. EndOf(st, n) \in Int /\ n \in 1 .. Len(st)
    BY <1>2, <1>3, <1>4, <1>6, EndOfType
  <2>4. j <= EndOf(t, n)' BY <1>2, <1>3, <1>4, <2>2, <2>3, EndOfExtended
  <2> QED BY <1>6, <2>1, <2>2, <2>4 DEF ReadInv, MetChunks
\* What the blobs up to one that was there describe.
<1>12. ASSUME NEW i \in Nat, NEW p \in Nat, p <= Len(stream)
       PROVE  /\ ChunksIn(stream', i, p) = ChunksIn(stream, i, p)
              /\ MeasuredIn(stream', ChunksIn(stream, i, p)) = MeasuredIn(stream, ChunksIn(stream, i, p))
              /\ SlotsIn(stream', ChunksIn(stream, i, p)) = SlotsIn(stream, ChunksIn(stream, i, p))
              /\ ContentOf(stream', ChunksIn(stream, i, p)) = ContentOf(stream, ChunksIn(stream, i, p))
  <2>1. \A j \in i + 1 .. p : j \in 1 .. Len(stream) /\ stream'[j] = stream[j] BY <1>3, <1>12
  <2>2. ChunksIn(stream', i, p) = ChunksIn(stream, i, p) BY <2>1 DEF ChunksIn
  <2> DEFINE S == ChunksIn(stream, i, p)
  <2>3. S \subseteq 1 .. Len(stream) /\ \A j \in S : stream'[j] = stream[j] BY <2>1 DEF ChunksIn
  <2> HIDE DEF S
  <2>4. /\ MeasuredIn(stream', S) = MeasuredIn(stream, S)
        /\ SlotsIn(stream', S) = SlotsIn(stream, S)
        /\ ContentOf(stream', S) = ContentOf(stream, S)
    BY <1>3, <2>3, SameBlobs
  <2> QED BY <2>2, <2>4 DEF S
<1>13. Collected(t)'
  <2>1. CASE last_eadd # None
    <3>1. Met \in 1 .. Met
      <4>1. Met > 0 BY <2>1 DEF Met, ReaderTypeOK
      <4> QED BY <1>4, <4>1
    <3>2. t[Met] = st[Met] /\ st[Met] \in Nat /\ stream'[t[Met]] = stream[st[Met]]
      BY <1>4, <1>6, <3>1
    <3> DEFINE S == ChunksIn(stream, st[Met], pos)
    <3>3. /\ ChunksIn(stream', st[Met], pos) = S
          /\ MeasuredIn(stream', S) = MeasuredIn(stream, S)
          /\ SlotsIn(stream', S) = SlotsIn(stream, S)
          /\ ContentOf(stream', S) = ContentOf(stream, S)
      BY <1>4, <1>12, <3>2
    <3>4. /\ last_eadd = stream[st[Met]] /\ chunks_measured = MeasuredIn(stream, S)
          /\ chunks_seen = SlotsIn(stream, S) /\ page = ContentOf(stream, S)
      BY <2>1 DEF ReadInv, Collected
    <3> HIDE DEF S
    <3> QED BY <1>1, <1>4, <2>1, <3>2, <3>3, <3>4 DEF Collected
  <2>2. CASE last_eadd = None BY <1>1, <1>4, <2>2 DEF ReadInv, Collected
  <2> QED BY <2>1, <2>2
<1>14. Returned(t)'
  <2>1. ASSUME NEW n \in 1 .. Len(pages)
        PROVE  pages[n] = PageFrom(stream', t[n], ChunksIn(stream', t[n], EndOf(t, n)'))
    <3>1. n \in 1 .. Met BY ReturnedChunks
    <3>2. last_eadd # None BY <1>1, <1>4, <3>1 DEF ReadInv, Collected
    <3>3. n < Met BY <3>2 DEF Met, ReaderTypeOK
    <3>4. n < Len(st) /\ n \in 1 .. Len(st) BY <1>4, <3>1, <3>3
    <3>5. EndOf(t, n)' = EndOf(st, n) /\ t[n] = st[n] BY <1>2, <3>4, EndOfExtended
    <3>6. EndOf(st, n) \in Nat /\ EndOf(st, n) <= Len(stream) /\ st[n] \in Nat
      <4>1. st[n] \in 1 .. Len(stream) /\ EndOf(st, n) \in st[n] .. Len(stream)
        BY <1>2, <3>4, EndOfType
      <4>2. Len(stream) \in Nat BY DEF ReaderTypeOK
      <4> QED BY <4>1, <4>2
    <3> DEFINE S == ChunksIn(stream, st[n], EndOf(st, n))
    <3>7. /\ ChunksIn(stream', st[n], EndOf(st, n)) = S
          /\ MeasuredIn(stream', S) = MeasuredIn(stream, S)
          /\ ContentOf(stream', S) = ContentOf(stream, S)
      BY <1>12, <3>6
    <3>8. pages[n] = PageFrom(stream, st[n], S) BY DEF ReadInv, Returned
    <3>9. stream'[st[n]] = stream[st[n]] BY <1>6, <3>1, <3>5
    <3> HIDE DEF S
    <3> QED BY <3>5, <3>7, <3>8, <3>9 DEF PageFrom
  <2>2. status # "end" BY <1>1 DEF ReadInv, Returned
  <2> QED BY <1>1, <2>1, <2>2 DEF Returned
<1> QED BY <1>7, <1>8, <1>9, <1>10, <1>11, <1>13, <1>14 DEF ReadInv

\* The stream is ended.
LEMMA EndKeeps ==
    ASSUME NEW st, ReaderTypeOK, LetThrough, ReadInv(st), EndStream
    PROVE  ReaderTypeOK' /\ LetThrough' /\ ReadInv(st)'
<1>1. /\ ended' = TRUE /\ stream' = stream /\ pos' = pos /\ got_ecreate' = got_ecreate
      /\ last_offset' = last_offset /\ chunks_measured' = chunks_measured
      /\ chunks_seen' = chunks_seen /\ last_eadd' = last_eadd /\ page' = page /\ pages' = pages
      /\ status' = status
  BY DEF EndStream, readerVars, canonicalVars, pageVars
<1>2. ReaderTypeOK' BY <1>1 DEF ReaderTypeOK
<1>3. LetThrough' BY <1>1 DEF LetThrough
<1>4. Enumerates(st)' BY <1>1 DEF ReadInv, Enumerates
<1>5. MetPages(st)' BY <1>1 DEF ReadInv, MetPages, Met
<1>6. MetChunks(st)' BY <1>1 DEF ReadInv, MetChunks, Met, EndOf
<1>7. Collected(st)' BY <1>1 DEF ReadInv, Collected, Met
<1>8. Returned(st)' BY <1>1 DEF ReadInv, Returned, EndOf
<1> QED BY <1>2, <1>3, <1>4, <1>5, <1>6, <1>7, <1>8 DEF ReadInv

-----------------------------------------------------------------------------
(***************************************************************************)
(* The writer                                                              *)
(***************************************************************************)
LEMMA PageOffsetFacts ==
    ASSUME CallTypeOK, CallInv
    PROVE  /\ PageOffset \in Nat
           /\ PageOffset % PageSize = 0
           /\ call.page = 0 => PageOffset = next_offset
           /\ ~Idle => PageOffset + PageSize <= MaxBlobOffset + 1
<1>1. PageSize \in Nat \ {0} BY Sizes
<1>2. next_offset \in Nat /\ call.page \in Nat /\ call.n \in Nat /\ next_offset % PageSize = 0
  BY DEF CallTypeOK, CallInv
<1> DEFINE k == call.page
<1>3. PICK q \in Nat : next_offset = PageSize * q + 0 BY <1>1, <1>2, DivMod
<1>4. k * PageSize \in Nat BY <1>1, <1>2, SMT
<1>5. PageOffset = PageSize * (q + k) + 0
  <2>1. PageSize * (q + k) = PageSize * q + k * PageSize BY <1>1, <1>2, SMT
  <2>2. PageSize * q \in Nat BY <1>1, SMT
  <2> QED BY <1>3, <1>4, <2>1, <2>2 DEF PageOffset
<1>6. PageOffset \in Nat BY <1>2, <1>4 DEF PageOffset
<1>7. PageOffset % PageSize = 0
  <2>1. q + k \in Nat BY <1>2
  <2> QED BY <1>1, <1>5, <2>1, DivModUnique
<1>8. call.page = 0 => PageOffset = next_offset BY <1>1, <1>2 DEF PageOffset
<1>9. ASSUME ~Idle PROVE PageOffset + PageSize <= MaxBlobOffset + 1
  <2>1. k + 1 <= call.n BY <1>2, <1>9 DEF Idle, CallInv
  <2>2. (k + 1) * PageSize <= call.n * PageSize BY <1>1, <1>2, <2>1, SMT
  <2>3. (k + 1) * PageSize = k * PageSize + PageSize BY <1>1, <1>2, SMT
  <2>4. next_offset + call.n * PageSize <= MaxBlobOffset + 1 BY <1>9 DEF CallInv
  <2>5. call.n * PageSize \in Nat BY <1>1, <1>2, SMT
  <2> QED BY <1>1, <1>2, <1>4, <2>2, <2>3, <2>4, <2>5, BlobBoundsAssumption DEF PageOffset
<1> QED BY <1>6, <1>7, <1>8, <1>9

\* Aligned offsets stay aligned.
LEMMA AlignedSum ==
    ASSUME NEW x \in Nat, x % PageSize = 0, NEW k \in Nat
    PROVE  x + k * PageSize \in Nat /\ (x + k * PageSize) % PageSize = 0
           /\ x + k * PageSize >= x
<1>1. PageSize \in Nat \ {0} BY Sizes
<1>3. PICK q \in Nat : x = PageSize * q + 0 BY <1>1, DivMod
<1>4. k * PageSize \in Nat BY <1>1, SMT
<1>5. x + k * PageSize = PageSize * (q + k) + 0
  <2>1. PageSize * (q + k) = PageSize * q + k * PageSize BY <1>1, SMT
  <2>2. PageSize * q \in Nat BY <1>1, SMT
  <2> QED BY <1>3, <1>4, <2>1, <2>2
<1>7. (x + k * PageSize) % PageSize = 0
  <2> DEFINE y == x + k * PageSize
             z == q + k
  <2>1. z \in Nat /\ y = PageSize * z + 0 BY <1>5
  <2> HIDE DEF y, z
  <2>2. y % PageSize = 0 BY <1>1, <2>1, DivModUnique
  <2> QED BY <2>2 DEF y
<1> QED BY <1>4, <1>7

\* A page whose blobs do not change.
LEMMA InStreamSame ==
    ASSUME NEW st, NEW t, NEW n, NEW c, t[n] = st[n], EndOf(t, n)' = EndOf(st, n),
           written'[n] = written[n], \A j \in st[n] + 1 .. EndOf(st, n) : stream'[j] = stream[j],
           InStream(st, n, c)
    PROVE  InStream(t, n, c)'
<1> DEFINE S == st[n] + 1 .. EndOf(st, n)
<1>1. \A j \in S : stream'[j] = stream[j] /\ Slot(stream', j) = Slot(stream, j) BY DEF Slot
<1>2. S = t[n] + 1 .. EndOf(t, n)' OBVIOUS
<1> HIDE DEF S
<1>3. /\ \A j \in S :
            /\ stream'[j] \in ChunkBlobs
            /\ Slot(stream', j) \in Chunks /\ Slot(stream', j) < c
            /\ stream'[j].offset = written'[n].eadd.offset + Slot(stream', j) * ChunkSize
            /\ stream'[j].data = written'[n].data[Slot(stream', j)]
            /\ stream'[j].tag = "EEXTEND" <=> Slot(stream', j) \in written'[n].measured
      /\ \A i, j \in S : i < j => Slot(stream', i) < Slot(stream', j)
      /\ \A x \in Chunks : x < c =>
            \/ \E j \in S : Slot(stream', j) = x
            \/ x \notin written'[n].measured /\ written'[n].data[x] = 0
  BY <1>1 DEF InStream, S
<1> QED BY <1>2, <1>3 DEF InStream

\* Nothing is written, and the next page comes no earlier.
LEMMA QuietKeeps ==
    ASSUME NEW st, WrittenInv(st), CallTypeOK, CallInv, UNCHANGED <<streamVars, written>>,
           call.next = -1, call'.next = -1, PageOffset' \in Nat, PageOffset <= PageOffset',
           ReaderTypeOK, ReadInv(st)
    PROVE  WrittenInv(st)'
<1>1. /\ stream' = stream /\ ended' = ended /\ pages' = pages /\ status' = status
      /\ written' = written
  BY DEF streamVars, readerVars, pageVars
<1>2. Len(written) = Len(st) /\ Len(st) \in Nat BY EnumFacts DEF WrittenInv
<1>3. \A n \in 1 .. Len(st) : Progress(n)' = Progress(n) BY <1>1 DEF Progress
<1>4. ASSUME NEW n \in 1 .. Len(st) PROVE InStream(st, n, Progress(n))'
  <2>1. InStream(st, n, PageChunks) BY DEF WrittenInv, Progress
  <2>2. EndOf(st, n)' = EndOf(st, n) BY <1>1 DEF EndOf
  <2>3. InStream(st, n, PageChunks)' BY <1>1, <2>1, <2>2, InStreamSame
  <2> QED BY <2>3 DEF Progress
<1>5. ASSUME NEW n \in 1 .. Len(st) PROVE written'[n].eadd.offset < PageOffset'
  <2>1. written[n].eadd.offset < PageOffset BY DEF WrittenInv
  <2>2. written[n] \in PageSet BY <1>2 DEF CallTypeOK
  <2>3. written[n].eadd.offset \in Nat BY <2>2, BlobKinds DEF PageSet
  <2> QED BY <1>1, <2>1, <2>3, PageOffsetFacts
<1>6. Len(stream') >= 1 /\ stream'[1] \in CreateBlobs BY <1>1 DEF WrittenInv
<1>7. Len(stream') >= 2 => Len(st) >= 1 /\ st[1] = 2 BY <1>1 DEF WrittenInv
<1>8. status' # "error" /\ AfterWriting' BY <1>1 DEF WrittenInv, AfterWriting
<1>9. \A n \in 1 .. Len(st) :
        /\ stream'[st[n]] = written'[n].eadd
        /\ written'[n].eadd.secinfo # "tcs_rwx"
        /\ written'[n].eadd.offset % PageSize = 0
  BY <1>1 DEF WrittenInv
<1>10. \A m, n \in 1 .. Len(st) : m < n => written'[m].eadd.offset < written'[n].eadd.offset
  BY <1>1 DEF WrittenInv
<1> QED BY <1>1, <1>2, <1>4, <1>5, <1>6, <1>7, <1>8, <1>9, <1>10 DEF WrittenInv

LEMMA WriteKeeps ==
    ASSUME NEW st, ReaderTypeOK, LetThrough, ReadInv(st), CallTypeOK, CallInv, WrittenInv(st),
           NEW n \in Nat, NEW offset \in 0 .. MaxBlobOffset \union {None},
           NEW secinfo \in {"reg", "tcs"}, NEW chunk \in [Chunks -> PageChunk],
           Write(n, offset, secinfo, chunk)
    PROVE  CallTypeOK' /\ CallInv' /\ WrittenInv(st)'
<1>1. /\ writing /\ ~ended /\ Idle /\ CheckOffset(offset)
      /\ next_offset' = Start(offset)
      /\ call' = [NoCall EXCEPT !.n = n, !.secinfo = secinfo, !.chunk = chunk]
      /\ UNCHANGED streamVars /\ writing' = writing /\ written' = written /\ ended' = ended
  BY DEF Write, streamVars
<1>2. /\ call'.n = n /\ call'.page = 0 /\ call'.next = -1 /\ call'.secinfo = secinfo
      /\ call'.chunk = chunk /\ call'.data = EmptyPage
      /\ call' = [n |-> n, page |-> 0, next |-> -1, secinfo |-> secinfo, chunk |-> chunk,
                  data |-> EmptyPage]
  BY <1>1 DEF NoCall
<1>3. /\ Start(offset) \in Nat /\ Start(offset) % PageSize = 0 /\ next_offset <= Start(offset)
  <2>1. next_offset \in Nat /\ next_offset % PageSize = 0 BY DEF CallTypeOK, CallInv
  <2>2. CASE offset = None BY <2>1, <2>2 DEF Start
  <2>3. CASE offset # None
    <3>1. offset \in Nat BY <2>3
    <3> QED BY <1>1, <2>1, <2>3, <3>1 DEF Start, CheckOffset
  <2> QED BY <2>2, <2>3
<1>4. CallTypeOK'
  <2>1. EmptyPage \in [Chunks -> Data] BY DataAssumption DEF EmptyPage
  <2>2. -1 \in -1 .. PageChunks - 1 BY SizesAssumption
  <2>3. call' \in [n : Nat, page : Nat, next : -1 .. PageChunks - 1, secinfo : {"reg", "tcs"},
                   chunk : [Chunks -> PageChunk], data : [Chunks -> Data]]
    BY <1>2, <2>1, <2>2
  <2> QED BY <1>1, <1>3, <2>3 DEF CallTypeOK
<1>5. CallInv'
  <2>1. next_offset' + call'.n * PageSize <= MaxBlobOffset + 1 BY <1>1, <1>2 DEF Write, Fits
  <2>2. call'.page <= call'.n BY <1>2
  <2> QED BY <1>1, <1>2, <1>3, <2>1, <2>2 DEF CallInv, Idle
<1>6. PageOffset' = next_offset'
  <2>1. PageSize \in Nat BY Sizes
  <2> QED BY <1>1, <1>2, <1>3, <2>1 DEF PageOffset
<1>7. PageOffset = next_offset /\ call.next = -1 BY <1>1, PageOffsetFacts DEF CallInv
<1>8. WrittenInv(st)' BY <1>1, <1>2, <1>3, <1>6, <1>7, QuietKeeps
<1> QED BY <1>4, <1>5, <1>8

LEMMA SkipKeeps ==
    ASSUME NEW st, ReaderTypeOK, LetThrough, ReadInv(st), CallTypeOK, CallInv, WrittenInv(st),
           NEW n \in Nat, SkipPages(n)
    PROVE  CallTypeOK' /\ CallInv' /\ WrittenInv(st)'
<1>1. /\ writing /\ ~ended /\ Idle
      /\ next_offset' = next_offset + n * PageSize
      /\ UNCHANGED streamVars /\ writing' = writing /\ written' = written /\ ended' = ended
      /\ call' = call
  BY DEF SkipPages, streamVars
<1>2. next_offset \in Nat /\ next_offset % PageSize = 0 BY DEF CallTypeOK, CallInv
<1>3. next_offset' \in Nat /\ next_offset' % PageSize = 0 /\ next_offset' >= next_offset
  BY <1>1, <1>2, AlignedSum
<1>4. CallTypeOK' BY <1>1, <1>3 DEF CallTypeOK
<1>5. CallInv' BY <1>1, <1>3 DEF CallInv, Idle
<1>6. PageOffset = next_offset /\ call.next = -1 /\ call.page = 0
  BY <1>1, PageOffsetFacts DEF CallInv
<1>7. PageOffset' = next_offset'
  <2>1. PageSize \in Nat BY Sizes
  <2> QED BY <1>1, <1>3, <1>6, <2>1 DEF PageOffset
<1>8. WrittenInv(st)' BY <1>1, <1>2, <1>3, <1>6, <1>7, QuietKeeps
<1> QED BY <1>4, <1>5, <1>8

LEMMA WriteEAddKeeps ==
    ASSUME NEW st, ReaderTypeOK, LetThrough, ReadInv(st), CallTypeOK, CallInv, WrittenInv(st),
           writing, NEW d \in [Chunks -> Data], WriteEAdd(d)
    PROVE  /\ ReaderTypeOK' /\ LetThrough' /\ CallTypeOK' /\ CallInv'
           /\ \E t \in Seq(Nat) : ReadInv(t)' /\ WrittenInv(t)'
<1>1. /\ ~Idle /\ call.next = -1
      /\ stream' = Append(stream, EAdd(PageOffset, call.secinfo))
      /\ written' = Append(written, Written(PageOffset, call.secinfo, call.chunk, d))
      /\ call' = [call EXCEPT !.next = 0, !.data = d]
      /\ UNCHANGED <<ended, readerVars, writing, next_offset>>
  BY DEF WriteEAdd
<1>2. ~ended BY <1>1 DEF CallInv
<1>3. PICK b : b = EAdd(PageOffset, call.secinfo) OBVIOUS
<1>4. PICK w : w = Written(PageOffset, call.secinfo, call.chunk, d) OBVIOUS
<1>5. /\ PageOffset \in 0 .. MaxBlobOffset /\ PageOffset % PageSize = 0
  BY <1>1, PageOffsetFacts, Sizes, BlobBoundsAssumption
<1>6. call.secinfo \in {"reg", "tcs"} /\ call.chunk \in [Chunks -> PageChunk] BY DEF CallTypeOK
<1>7. b \in AddBlobs /\ b.offset = PageOffset /\ b.secinfo # "tcs_rwx" /\ b \in Blobs
  BY <1>3, <1>5, <1>6 DEF EAdd, AddBlobs, Blobs
<1>8. w \in PageSet /\ w.eadd = b
  <2>1. \A c \in Chunks : (IF call.chunk[c] = "Skipped" THEN 0 ELSE d[c]) \in Data
    BY DataAssumption
  <2> QED BY <1>3, <1>4, <1>7, <2>1 DEF Written, PageSet
<1>9. PICK t : t = Extended(st, b) OBVIOUS
<1>10. Grows(b) BY <1>1, <1>2, <1>3 DEF Grows
<1>11. ReaderTypeOK' /\ LetThrough' /\ ReadInv(t)' BY <1>7, <1>9, <1>10, GrowKeeps
<1>12. Enumerates(st) BY DEF ReadInv
<1>13. /\ Len(stream') = Len(stream) + 1 /\ Len(stream) \in Nat
       /\ \A j \in 1 .. Len(stream) : stream'[j] = stream[j]
       /\ stream'[Len(stream) + 1] = b
       /\ t \in Seq(Nat) /\ Len(st) \in Nat
       /\ \A n \in 1 .. Len(st) : t[n] = st[n]
       /\ Len(t) = Len(st) + 1 /\ t[Len(st) + 1] = Len(stream) + 1
  BY <1>7, <1>9, <1>10, <1>12, ExtendedFacts
<1>14. /\ Len(written) = Len(st) /\ Len(written') = Len(st) + 1
       /\ \A n \in 1 .. Len(st) : written'[n] = written[n]
       /\ written'[Len(st) + 1] = w
       /\ written' \in Seq(PageSet)
  <2>1. written \in Seq(PageSet) /\ Len(written) = Len(st) BY DEF CallTypeOK, WrittenInv
  <2> QED BY <1>1, <1>4, <1>8, <2>1
<1>15. /\ call'.n = call.n /\ call'.page = call.page /\ call'.next = 0
       /\ call'.secinfo = call.secinfo /\ call'.chunk = call.chunk /\ call'.data = d
       /\ call' \in [n : Nat, page : Nat, next : -1 .. PageChunks - 1, secinfo : {"reg", "tcs"},
                     chunk : [Chunks -> PageChunk], data : [Chunks -> Data]]
  <2>1. 0 \in -1 .. PageChunks - 1 BY SizesAssumption
  <2>2. call \in [n : Nat, page : Nat, next : -1 .. PageChunks - 1, secinfo : {"reg", "tcs"},
                  chunk : [Chunks -> PageChunk], data : [Chunks -> Data]]
    BY DEF CallTypeOK
  <2> QED BY <1>1, <2>1, <2>2
<1>16. writing' = writing /\ next_offset' = next_offset /\ PageOffset' = PageOffset /\ ended' = ended
  BY <1>1, <1>15 DEF PageOffset
<1>17. CallTypeOK' BY <1>14, <1>15, <1>16 DEF CallTypeOK
<1>18. CallInv'
  <2>1. ~Idle' /\ call'.page <= call'.n BY <1>1, <1>15 DEF Idle, CallInv
  <2>2. next_offset' + call'.n * PageSize <= MaxBlobOffset + 1 BY <1>1, <1>15, <1>16 DEF CallInv
  <2>3. writing' /\ ~ended' BY <1>2, <1>16
  <2> QED BY <1>16, <2>1, <2>2, <2>3 DEF CallInv
<1>19. \A n \in 1 .. Len(t) : n \in 1 .. Len(st) \/ n = Len(st) + 1 BY <1>13
<1>20. ASSUME NEW n \in 1 .. Len(st)
       PROVE  /\ stream'[t[n]] = written'[n].eadd
              /\ written'[n].eadd.secinfo # "tcs_rwx"
              /\ written'[n].eadd.offset % PageSize = 0
              /\ written'[n].eadd.offset < PageOffset'
              /\ InStream(t, n, PageChunks)'
  <2>1. st[n] \in 1 .. Len(stream) /\ EndOf(st, n) \in st[n] .. Len(stream)
    BY <1>12, EndOfType
  <2>2. stream'[t[n]] = stream[st[n]] BY <1>13, <2>1
  <2>3. EndOf(t, n)' = EndOf(st, n) BY <1>7, <1>9, <1>10, <1>12, EndOfExtended
  <2>4. InStream(st, n, PageChunks) BY <1>1 DEF WrittenInv, Progress
  <2>5. \A j \in st[n] + 1 .. EndOf(st, n) : stream'[j] = stream[j]
    <3>1. \A j \in st[n] + 1 .. EndOf(st, n) : j \in 1 .. Len(stream) BY <2>1
    <3> QED BY <1>13, <3>1
  <2>6. t[n] = st[n] /\ written'[n] = written[n] BY <1>13, <1>14
  <2>7. InStream(t, n, PageChunks)' BY <2>3, <2>4, <2>5, <2>6, InStreamSame
  <2> QED BY <1>1, <1>16, <2>2, <2>6, <2>7 DEF WrittenInv
<1>21. /\ stream'[t[Len(t)]] = written'[Len(t)].eadd
       /\ written'[Len(t)].eadd.secinfo # "tcs_rwx"
       /\ written'[Len(t)].eadd.offset = PageOffset
       /\ written'[Len(t)].eadd.offset % PageSize = 0
       /\ InStream(t, Len(t), 0)'
  <2>1. EndOf(t, Len(t))' = Len(stream) + 1 BY <1>13 DEF EndOf
  <2>2. t[Len(t)] + 1 .. EndOf(t, Len(t))' = {} BY <1>13, <2>1
  <2>3. \A x \in Chunks : ~(x < 0) BY Sizes
  <2>4. InStream(t, Len(t), 0)' BY <2>2, <2>3 DEF InStream
  <2> QED BY <1>5, <1>7, <1>8, <1>13, <1>14, <2>4
<1>22. \A n \in 1 .. Len(t) : InStream(t, n, Progress(n))'
  <2> TAKE n \in 1 .. Len(t)
  <2>1. CASE n \in 1 .. Len(st)
    <3>1. Progress(n)' = PageChunks BY <1>14, <2>1 DEF Progress
    <3> QED BY <1>20, <2>1, <3>1
  <2>2. CASE n = Len(st) + 1
    <3>1. n = Len(t) /\ ~(n < Len(written')) BY <1>13, <1>14, <2>2
    <3>2. Progress(n)' = 0 BY <1>15, <3>1 DEF Progress
    <3> QED BY <1>21, <3>1, <3>2
  <2> QED BY <1>19, <2>1, <2>2
<1>23. Len(stream') >= 1 /\ stream'[1] \in CreateBlobs
  <2>1. Len(stream) >= 1 /\ stream[1] \in CreateBlobs BY DEF WrittenInv
  <2> QED BY <1>13, <2>1
<1>24. Len(t) >= 1 /\ t[1] = 2
  <2>1. CASE Len(stream) >= 2
    <3>1. Len(st) >= 1 /\ st[1] = 2 BY <2>1 DEF WrittenInv
    <3> QED BY <1>13, <3>1
  <2>2. CASE Len(stream) = 1
    <3>1. Len(st) = 0
      <4> SUFFICES ASSUME Len(st) >= 1 PROVE FALSE BY <1>13
      <4>1. st[1] \in 1 .. Len(stream) /\ stream[st[1]] \in AddBlobs BY <1>13 DEF ReadInv, Enumerates
      <4>2. st[1] = 1 BY <2>2, <4>1
      <4> QED BY <4>1, <4>2, BlobKinds DEF WrittenInv
    <3> QED BY <1>13, <2>2, <3>1
  <2>3. Len(stream) >= 1 /\ Len(stream) \in Nat
    <3>1. Len(stream) >= 1 BY DEF WrittenInv
    <3>2. Len(stream) \in Nat BY <1>13
    <3> QED BY <3>1, <3>2
  <2>4. Len(stream) >= 2 \/ Len(stream) = 1
    <3>1. PICK l \in Nat : l = Len(stream) BY <2>3
    <3>2. l >= 1 BY <2>3, <3>1
    <3>3. l >= 2 \/ l = 1 BY <3>2
    <3> QED BY <3>1, <3>3
  <2> QED BY <2>1, <2>2, <2>4
<1>25. ASSUME NEW m \in 1 .. Len(t), NEW n \in 1 .. Len(t), m < n
       PROVE  written'[m].eadd.offset < written'[n].eadd.offset
  <2>1. m \in 1 .. Len(st) BY <1>13, <1>25
  <2>2. CASE n \in 1 .. Len(st) BY <1>14, <1>25, <2>1, <2>2 DEF WrittenInv
  <2>3. CASE n = Len(st) + 1
    <3>1. n = Len(t) BY <1>13, <2>3
    <3>2. written'[m].eadd.offset < PageOffset' BY <1>20, <2>1
    <3>3. written'[n].eadd.offset = PageOffset BY <1>21, <3>1
    <3> QED BY <1>16, <3>2, <3>3
  <2> QED BY <1>19, <2>2, <2>3
<1>26. call'.next # -1 /\ written'[Len(t)] = Written(PageOffset, call.secinfo, call.chunk, call.data)'
  <2>1. Written(PageOffset, call.secinfo, call.chunk, call.data)' = w
    BY <1>4, <1>15, <1>16 DEF Written, EAdd
  <2> QED BY <1>13, <1>14, <1>15, <2>1
<1>27. status' # "error" /\ AfterWriting'
  BY <1>1 DEF WrittenInv, AfterWriting, readerVars, pageVars
<1>28. \A n \in 1 .. Len(t) :
        /\ stream'[t[n]] = written'[n].eadd
        /\ written'[n].eadd.secinfo # "tcs_rwx"
        /\ written'[n].eadd.offset % PageSize = 0
  BY <1>13, <1>19, <1>20, <1>21
<1>29. WrittenInv(t)'
  BY <1>13, <1>14, <1>22, <1>23, <1>24, <1>25, <1>26, <1>27, <1>28 DEF WrittenInv
<1> QED BY <1>11, <1>13, <1>17, <1>18, <1>29

\* A chunk that is skipped: the page is there up to the next one.
LEMMA SkippedChunk ==
    ASSUME NEW st, NEW n, NEW c \in Chunks, stream' = stream, written' = written,
           InStream(st, n, c), c \notin written[n].measured, written[n].data[c] = 0
    PROVE  InStream(st, n, c + 1)'
<1>1. \A x \in Chunks : x \in Int /\ (x < c + 1 <=> x < c \/ x = c) BY Sizes
<1>2. EndOf(st, n)' = EndOf(st, n) BY DEF EndOf
<1>3. InStream(st, n, c)' BY <1>2, InStreamSame
<1> QED BY <1>1, <1>3 DEF InStream

\* A chunk that is written.
LEMMA WrittenChunk ==
    ASSUME NEW st, NEW n, NEW c \in Chunks, NEW e \in Nat, NEW b \in ChunkBlobs,
           st[n] \in Nat, EndOf(st, n) = e, EndOf(st, n)' = e + 1, st[n] <= e,
           \A j \in 1 .. e : stream'[j] = stream[j], stream'[e + 1] = b, written' = written,
           InStream(st, n, c),
           Slot(stream', e + 1) = c,
           b.offset = written[n].eadd.offset + c * ChunkSize,
           b.data = written[n].data[c],
           b.tag = "EEXTEND" <=> c \in written[n].measured
    PROVE  InStream(st, n, c + 1)'
<1> DEFINE S == st[n] + 1 .. e
           T == st[n] + 1 .. e + 1
<1>1. \A x \in Chunks : x \in Int /\ (x < c + 1 <=> x < c \/ x = c) BY Sizes
<1>2. \A j \in S : j \in 1 .. e BY SMT
<1>3. \A j \in S : stream'[j] = stream[j] /\ Slot(stream', j) = Slot(stream, j)
  BY <1>2 DEF Slot
<1>4. /\ \A j \in T : j \in S \/ j = e + 1
      /\ \A j \in S : j \in T /\ j < e + 1
      /\ e + 1 \in T
  OBVIOUS
<1>11. \A j \in T : j \in Int OBVIOUS
<1>5. /\ S = st[n] + 1 .. EndOf(st, n)
      /\ T = st[n] + 1 .. EndOf(st, n)'
  OBVIOUS
<1> HIDE DEF S, T
<1>6. /\ \A j \in S :
            /\ stream[j] \in ChunkBlobs
            /\ Slot(stream, j) \in Chunks /\ Slot(stream, j) < c
            /\ stream[j].offset = written[n].eadd.offset + Slot(stream, j) * ChunkSize
            /\ stream[j].data = written[n].data[Slot(stream, j)]
            /\ stream[j].tag = "EEXTEND" <=> Slot(stream, j) \in written[n].measured
      /\ \A i, j \in S : i < j => Slot(stream, i) < Slot(stream, j)
      /\ \A x \in Chunks : x < c =>
            \/ \E j \in S : Slot(stream, j) = x
            \/ x \notin written[n].measured /\ written[n].data[x] = 0
  BY <1>5 DEF InStream
<1>7. ASSUME NEW j \in T
      PROVE  /\ stream'[j] \in ChunkBlobs
             /\ Slot(stream', j) \in Chunks /\ Slot(stream', j) < c + 1
             /\ stream'[j].offset = written[n].eadd.offset + Slot(stream', j) * ChunkSize
             /\ stream'[j].data = written[n].data[Slot(stream', j)]
             /\ stream'[j].tag = "EEXTEND" <=> Slot(stream', j) \in written[n].measured
  <2>1. CASE j \in S
    <3>1. Slot(stream', j) = Slot(stream, j) /\ stream'[j] = stream[j] BY <1>3, <2>1
    <3>2. Slot(stream, j) \in Chunks /\ Slot(stream, j) < c BY <1>6, <2>1
    <3>3. Slot(stream, j) < c + 1 BY <1>1, <3>2
    <3> QED BY <1>6, <2>1, <3>1, <3>2, <3>3
  <2>2. CASE j = e + 1 BY <1>1, <2>2
  <2> QED BY <1>4, <2>1, <2>2
<1>8. ASSUME NEW i \in T, NEW j \in T, i < j PROVE Slot(stream', i) < Slot(stream', j)
  <2>1. i \in S
    <3>1. i # e + 1 \/ j # e + 1 BY <1>8, <1>11
    <3> QED BY <1>4, <1>8, <1>11, <3>1
  <2>2. CASE j \in S BY <1>3, <1>6, <1>8, <2>1, <2>2
  <2>3. CASE j = e + 1
    <3>1. Slot(stream, i) < c BY <1>6, <2>1
    <3> QED BY <1>3, <2>1, <2>3, <3>1
  <2> QED BY <1>4, <2>2, <2>3
<1>9. ASSUME NEW x \in Chunks, x < c + 1
      PROVE  \/ \E j \in T : Slot(stream', j) = x
             \/ x \notin written[n].measured /\ written[n].data[x] = 0
  <2>1. CASE x < c BY <1>3, <1>4, <1>6, <2>1
  <2>2. CASE x = c BY <1>4, <2>2
  <2> QED BY <1>1, <1>9, <2>1, <2>2
<1>10. /\ \A j \in T :
            /\ stream'[j] \in ChunkBlobs
            /\ Slot(stream', j) \in Chunks /\ Slot(stream', j) < c + 1
            /\ stream'[j].offset = written'[n].eadd.offset + Slot(stream', j) * ChunkSize
            /\ stream'[j].data = written'[n].data[Slot(stream', j)]
            /\ stream'[j].tag = "EEXTEND" <=> Slot(stream', j) \in written'[n].measured
       /\ \A i, j \in T : i < j => Slot(stream', i) < Slot(stream', j)
       /\ \A x \in Chunks : x < c + 1 =>
            \/ \E j \in T : Slot(stream', j) = x
            \/ x \notin written'[n].measured /\ written'[n].data[x] = 0
  BY <1>7, <1>8, <1>9
<1> QED BY <1>5, <1>10 DEF InStream

LEMMA WriteChunkKeeps ==
    ASSUME NEW st, ReaderTypeOK, LetThrough, ReadInv(st), CallTypeOK, CallInv, WrittenInv(st),
           writing, WriteChunk
    PROVE  /\ ReaderTypeOK' /\ LetThrough' /\ CallTypeOK' /\ CallInv'
           /\ ReadInv(st)' /\ WrittenInv(st)'
<1>1. PICK c : c = call.next OBVIOUS
<1>2. /\ ~Idle /\ c # -1
      /\ stream' = IF call.chunk[c] = "Skipped" THEN stream ELSE Append(stream, ChunkBlob(c))
      /\ UNCHANGED <<ended, readerVars, writing, written>>
      /\ \/ /\ c < PageChunks - 1
            /\ call' = [call EXCEPT !.next = c + 1]
            /\ next_offset' = next_offset
         \/ /\ c = PageChunks - 1 /\ call.page + 1 < call.n
            /\ call' = [call EXCEPT !.page = call.page + 1, !.next = -1]
            /\ next_offset' = next_offset
         \/ /\ c = PageChunks - 1 /\ call.page + 1 = call.n
            /\ call' = NoCall
            /\ next_offset' = next_offset + call.n * PageSize
  BY <1>1 DEF WriteChunk, WriteChunkAt
<1>3. ~ended BY <1>2 DEF CallInv
<1>4. /\ call \in [n : Nat, page : Nat, next : -1 .. PageChunks - 1, secinfo : {"reg", "tcs"},
                   chunk : [Chunks -> PageChunk], data : [Chunks -> Data]]
      /\ next_offset \in Nat /\ written \in Seq(PageSet)
  BY DEF CallTypeOK
<1>5. c \in Chunks /\ c \in Nat BY <1>1, <1>2, <1>4, SizesAssumption DEF Chunks
<1>6. PICK N \in Nat : N = Len(st) /\ N = Len(written) /\ N >= 1
  <2>1. Len(st) \in Nat BY EnumFacts
  <2> QED BY <1>1, <1>2, <2>1 DEF WrittenInv
<1>7. written[N] = Written(PageOffset, call.secinfo, call.chunk, call.data)
  BY <1>1, <1>2, <1>6 DEF WrittenInv
<1>8. /\ PageOffset \in Nat /\ PageOffset % PageSize = 0
      /\ PageOffset + PageSize <= MaxBlobOffset + 1
  BY <1>2, PageOffsetFacts
<1>9. /\ written[N].eadd.offset = PageOffset
      /\ c \in written[N].measured <=> call.chunk[c] = "IncludedMeasured"
      /\ written[N].data[c] = IF call.chunk[c] = "Skipped" THEN 0 ELSE call.data[c]
  BY <1>5, <1>7 DEF Written, EAdd
<1>10. Enumerates(st) /\ N \in 1 .. Len(st) /\ Len(stream) \in Nat
  BY <1>6 DEF ReadInv, ReaderTypeOK
<1>11. /\ \A n \in 1 .. Len(st) : /\ st[n] \in 1 .. Len(stream)
                                  /\ EndOf(st, n) \in st[n] .. Len(stream)
       /\ EndOf(st, N) = Len(stream)
  <2>1. \A n \in 1 .. Len(st) : /\ st[n] \in 1 .. Len(stream)
                                /\ EndOf(st, n) \in st[n] .. Len(stream)
    BY <1>10, EndOfType
  <2>2. EndOf(st, N) = Len(stream) BY <1>6 DEF EndOf
  <2> QED BY <2>1, <2>2
<1>12. /\ InStream(st, N, c)
       /\ \A n \in 1 .. Len(st) : n < N => InStream(st, n, PageChunks)
  <2>1. Progress(N) = c BY <1>1, <1>2, <1>6 DEF Progress
  <2>2. \A n \in 1 .. Len(st) : n < N => Progress(n) = PageChunks BY <1>6 DEF Progress
  <2> QED BY <1>10, <2>1, <2>2 DEF WrittenInv
<1>13. /\ written' = written /\ ended' = ended /\ writing' = writing
       /\ pages' = pages /\ status' = status
  BY <1>2 DEF readerVars, pageVars
\* What happens to the stream.
<1>14. /\ ReaderTypeOK' /\ LetThrough' /\ ReadInv(st)'
       /\ InStream(st, N, c + 1)'
       /\ Len(stream') >= Len(stream) /\ Len(stream') \in Nat
       /\ \A j \in 1 .. Len(stream) : stream'[j] = stream[j]
       /\ \A n \in 1 .. Len(st) : n < N => EndOf(st, n)' = EndOf(st, n)
  <2>1. CASE call.chunk[c] = "Skipped"
    <3>1. stream' = stream BY <1>2, <2>1
    <3>2. UNCHANGED <<stream, ended, readerVars>> BY <1>2, <3>1
    <3>3. ReaderTypeOK' BY <3>2 DEF ReaderTypeOK, readerVars, canonicalVars, pageVars
    <3>4. LetThrough' BY <3>2 DEF LetThrough, readerVars, canonicalVars, pageVars
    <3>5. ReadInv(st)'
      BY <3>2 DEF ReadInv, Enumerates, MetPages, MetChunks, Collected, Returned, Met, EndOf,
                  readerVars, canonicalVars, pageVars
    <3>6. InStream(st, N, c + 1)' BY <1>5, <1>9, <1>12, <1>13, <2>1, <3>1, SkippedChunk
    <3>7. \A n \in 1 .. Len(st) : EndOf(st, n)' = EndOf(st, n) BY <3>1 DEF EndOf
    <3> QED BY <1>10, <3>1, <3>3, <3>4, <3>5, <3>6, <3>7
  <2>2. CASE call.chunk[c] # "Skipped"
    <3>1. PICK b : b = ChunkBlob(c) OBVIOUS
    <3>2. /\ b.tag = (IF call.chunk[c] = "IncludedMeasured" THEN "EEXTEND" ELSE "UNMEASRD")
          /\ b.offset = PageOffset + c * ChunkSize /\ b.data = call.data[c]
      BY <3>1 DEF ChunkBlob
    <3>3. PageOffset + c * ChunkSize \in 0 .. MaxBlobOffset
      <4>1. /\ c * ChunkSize \in Nat /\ c * ChunkSize + ChunkSize <= PageSize
            /\ PageSize \in Nat /\ ChunkSize \in Nat \ {0}
        BY <1>5, Sizes, SizesAssumption
      <4> QED BY <1>8, <4>1, BlobBoundsAssumption
    <3>4. call.data[c] \in Data BY <1>4, <1>5
    <3>5. b \in ChunkBlobs BY <3>1, <3>3, <3>4 DEF ChunkBlob, ChunkBlobs
    <3>6. b \in Blobs /\ b \notin AddBlobs BY <3>5, BlobKinds
    <3>7. Grows(b) BY <1>2, <1>3, <2>2, <3>1 DEF Grows
    <3>8. st = Extended(st, b) BY <3>6 DEF Extended
    <3>9. ReaderTypeOK' /\ LetThrough' /\ ReadInv(st)' BY <3>6, <3>7, <3>8, GrowKeeps
    <3>10. /\ Len(stream') = Len(stream) + 1
           /\ \A j \in 1 .. Len(stream) : stream'[j] = stream[j]
           /\ stream'[Len(stream) + 1] = b
      BY <1>10, <3>6, <3>7, ExtendedFacts
    <3>11. PICK e \in Nat : e = Len(stream) BY <1>10
    <3>12. EndOf(st, N)' = e + 1 BY <1>6, <3>10, <3>11 DEF EndOf
    <3>13. Slot(stream', e + 1) = c
      <4>1. stream'[e + 1].offset = PageOffset + c * ChunkSize BY <3>2, <3>10, <3>11
      <4>2. ((PageOffset + c * ChunkSize) % PageSize) \div ChunkSize = c
        BY <1>5, <1>8, ChunkOfOffset
      <4> QED BY <4>1, <4>2 DEF Slot
    <3>14. st[N] \in Nat /\ st[N] <= e /\ EndOf(st, N) = e BY <1>10, <1>11, <3>11
    <3>15. b.tag = "EEXTEND" <=> c \in written[N].measured BY <1>9, <3>2
    <3>16. b.offset = written[N].eadd.offset + c * ChunkSize /\ b.data = written[N].data[c]
      BY <1>9, <2>2, <3>2
    <3>17. stream'[e + 1] = b /\ \A j \in 1 .. e : stream'[j] = stream[j] BY <3>10, <3>11
    <3>18. InStream(st, N, c + 1)'
      BY <1>5, <1>12, <1>13, <3>5, <3>12, <3>13, <3>14, <3>15, <3>16, <3>17, WrittenChunk
    <3>19. \A n \in 1 .. Len(st) : n < N => EndOf(st, n)' = EndOf(st, n) BY <1>6 DEF EndOf
    <3> QED BY <1>10, <3>9, <3>10, <3>18, <3>19
  <2> QED BY <2>1, <2>2
<1>15. ASSUME NEW n \in 1 .. Len(st)
       PROVE  stream'[st[n]] = stream[st[n]] /\ (n < N => InStream(st, n, PageChunks)')
  <2>1. st[n] \in 1 .. Len(stream) /\ EndOf(st, n) \in st[n] .. Len(stream) BY <1>11
  <2>2. stream'[st[n]] = stream[st[n]] BY <1>14, <2>1
  <2>3. ASSUME n < N PROVE InStream(st, n, PageChunks)'
    <3>1. \A j \in st[n] + 1 .. EndOf(st, n) : j \in 1 .. Len(stream) BY <1>10, <2>1
    <3>2. \A j \in st[n] + 1 .. EndOf(st, n) : stream'[j] = stream[j] BY <1>14, <3>1
    <3>3. EndOf(st, n)' = EndOf(st, n) /\ InStream(st, n, PageChunks) BY <1>12, <1>14, <2>3
    <3> QED BY <1>13, <3>2, <3>3, InStreamSame
  <2> QED BY <2>2, <2>3
\* What happens to the call.
<1>16. /\ CallTypeOK' /\ CallInv'
       /\ \/ /\ call'.next = c + 1 /\ PageOffset' = PageOffset
             /\ call'.secinfo = call.secinfo /\ call'.chunk = call.chunk /\ call'.data = call.data
          \/ call'.next = -1 /\ c + 1 = PageChunks /\ PageOffset' = PageOffset + PageSize
  <2>0. /\ PageSize \in Nat \ {0} /\ call.page \in Nat /\ call.n \in Nat
        /\ next_offset % PageSize = 0 /\ call.page <= call.n
        /\ next_offset + call.n * PageSize <= MaxBlobOffset + 1
    BY <1>2, <1>4, Sizes DEF CallInv
  <2>1. CASE c < PageChunks - 1 /\ call' = [call EXCEPT !.next = c + 1] /\ next_offset' = next_offset
    <3>1. /\ call'.n = call.n /\ call'.page = call.page /\ call'.next = c + 1
          /\ call'.secinfo = call.secinfo /\ call'.chunk = call.chunk /\ call'.data = call.data
      BY <1>4, <2>1
    <3>2. c + 1 \in -1 .. PageChunks - 1 BY <1>5, <2>1, SizesAssumption
    <3>3. CallTypeOK' BY <1>4, <1>13, <2>1, <3>2 DEF CallTypeOK
    <3>4. CallInv' BY <1>2, <1>3, <1>13, <2>0, <2>1, <3>1 DEF CallInv, Idle
    <3>5. PageOffset' = PageOffset BY <2>1, <3>1 DEF PageOffset
    <3> QED BY <3>1, <3>3, <3>4, <3>5
  <2>2. CASE /\ c = PageChunks - 1 /\ call.page + 1 < call.n
             /\ call' = [call EXCEPT !.page = call.page + 1, !.next = -1]
             /\ next_offset' = next_offset
    <3>1. call'.n = call.n /\ call'.page = call.page + 1 /\ call'.next = -1
      BY <1>4, <2>2
    <3>2. -1 \in -1 .. PageChunks - 1 /\ call.page + 1 \in Nat BY <2>0, SizesAssumption
    <3>3. CallTypeOK' BY <1>4, <1>13, <2>2, <3>2 DEF CallTypeOK
    <3>4. ~Idle' /\ call'.page <= call'.n BY <2>0, <2>2, <3>1 DEF Idle
    <3>5. CallInv' BY <1>3, <1>13, <2>0, <2>2, <3>1, <3>4 DEF CallInv
    <3>6. (call.page + 1) * PageSize = call.page * PageSize + PageSize
          /\ call.page * PageSize \in Nat
      BY <2>0, SMT
    <3>7. PageOffset' = PageOffset + PageSize
      BY <1>4, <2>0, <2>2, <3>1, <3>6 DEF PageOffset
    <3>8. c + 1 = PageChunks BY <2>2, SizesAssumption
    <3> QED BY <3>1, <3>3, <3>5, <3>7, <3>8
  <2>3. CASE /\ c = PageChunks - 1 /\ call.page + 1 = call.n
             /\ call' = NoCall
             /\ next_offset' = next_offset + call.n * PageSize
    <3>1. call'.n = 0 /\ call'.page = 0 /\ call'.next = -1 BY <2>3 DEF NoCall
    <3>2. -1 \in -1 .. PageChunks - 1 /\ EmptyPage \in [Chunks -> Data]
      BY SizesAssumption, DataAssumption DEF EmptyPage
    <3>3. next_offset' \in Nat /\ next_offset' % PageSize = 0
      BY <1>4, <2>0, <2>3, AlignedSum
    <3>4. NoCall \in [n : Nat, page : Nat, next : -1 .. PageChunks - 1, secinfo : {"reg", "tcs"},
                      chunk : [Chunks -> PageChunk], data : [Chunks -> Data]]
      BY <3>2 DEF NoCall, PageChunk
    <3>5. CallTypeOK' BY <1>4, <1>13, <2>3, <3>3, <3>4 DEF CallTypeOK
    <3>6. CallInv' BY <3>1, <3>3 DEF CallInv, Idle
    <3>7. (call.page + 1) * PageSize = call.page * PageSize + PageSize
          /\ call.page * PageSize \in Nat
      BY <2>0, SMT
    <3>8. next_offset' = PageOffset + PageSize
      BY <1>4, <2>0, <2>3, <3>7 DEF PageOffset
    <3>9. PageOffset' = next_offset'
      <4>1. PageOffset' = next_offset' + 0 * PageSize BY <3>1 DEF PageOffset
      <4>2. 0 * PageSize = 0 BY <2>0
      <4> QED BY <3>3, <4>1, <4>2
    <3>10. c + 1 = PageChunks BY <2>3, SizesAssumption
    <3> QED BY <3>1, <3>5, <3>6, <3>8, <3>9, <3>10
  <2> QED BY <1>2, <2>1, <2>2, <2>3
<1>17. ASSUME NEW n \in 1 .. Len(st) PROVE InStream(st, n, Progress(n))'
  <2>1. CASE n < N
    <3>1. Progress(n)' = PageChunks BY <1>6, <1>13, <2>1 DEF Progress
    <3> QED BY <1>15, <2>1, <3>1
  <2>2. CASE n = N
    <3>1. ~(n < Len(written')) BY <1>6, <1>13, <2>2
    <3>2. Progress(n)' = c + 1
      <4>1. CASE call'.next = c + 1
        <5>1. call'.next # -1 BY <1>5, <4>1
        <5> QED BY <3>1, <4>1, <5>1 DEF Progress
      <4>2. CASE call'.next = -1 /\ c + 1 = PageChunks BY <4>2 DEF Progress
      <4> QED BY <1>16, <4>1, <4>2
    <3> QED BY <1>14, <2>2, <3>2
  <2>3. n < N \/ n = N BY <1>6
  <2> QED BY <2>1, <2>2, <2>3
<1>18. ASSUME NEW n \in 1 .. Len(st) PROVE written[n].eadd.offset < PageOffset + PageSize
  <2>1. written[n] \in PageSet BY <1>4, <1>6
  <2>2. written[n].eadd.offset \in Nat BY <2>1, BlobKinds DEF PageSet
  <2>3. PageSize \in Nat \ {0} BY Sizes
  <2>4. CASE n < N
    <3>1. written[n].eadd.offset < written[N].eadd.offset BY <1>10, <2>4 DEF WrittenInv
    <3> QED BY <1>8, <1>9, <2>2, <2>3, <3>1
  <2>5. CASE n = N BY <1>8, <1>9, <2>3, <2>5
  <2>6. n < N \/ n = N BY <1>6
  <2> QED BY <2>4, <2>5, <2>6
<1>19. call'.next = -1 => \A n \in 1 .. Len(st) : written'[n].eadd.offset < PageOffset'
  <2>1. call'.next = -1 => PageOffset' = PageOffset + PageSize BY <1>5, <1>16
  <2> QED BY <1>13, <1>18, <2>1
<1>20. call'.next # -1 =>
        /\ Len(st) >= 1
        /\ written'[Len(st)] = Written(PageOffset, call.secinfo, call.chunk, call.data)'
  BY <1>6, <1>7, <1>13, <1>16 DEF Written, EAdd
<1>21. Len(stream') >= 1 /\ stream'[1] \in CreateBlobs
  <2>1. Len(stream) >= 1 /\ stream[1] \in CreateBlobs BY DEF WrittenInv
  <2> QED BY <1>10, <1>14, <2>1
<1>22. Len(st) >= 1 /\ st[1] = 2
  <2>1. st[N] # 1 /\ st[N] \in 1 .. Len(stream)
    <3>1. stream[st[N]] \in AddBlobs BY <1>10 DEF Enumerates
    <3> QED BY <1>10, <1>11, <3>1, BlobKinds DEF WrittenInv
  <2>2. Len(stream) >= 2 BY <1>10, <2>1
  <2> QED BY <2>2 DEF WrittenInv
<1>23. status' # "error" /\ AfterWriting' BY <1>13 DEF WrittenInv, AfterWriting
<1>24. \A n \in 1 .. Len(st) :
        /\ stream'[st[n]] = written'[n].eadd
        /\ written'[n].eadd.secinfo # "tcs_rwx"
        /\ written'[n].eadd.offset % PageSize = 0
  BY <1>13, <1>15 DEF WrittenInv
<1>25. \A m, n \in 1 .. Len(st) : m < n => written'[m].eadd.offset < written'[n].eadd.offset
  BY <1>13 DEF WrittenInv
<1>26. WrittenInv(st)'
  BY <1>6, <1>13, <1>17, <1>19, <1>20, <1>21, <1>22, <1>23, <1>24, <1>25 DEF WrittenInv
<1> QED BY <1>14, <1>16, <1>26

-----------------------------------------------------------------------------
(***************************************************************************)
(* The readers do not refuse what was written.                             *)
(***************************************************************************)
LEMMA WrittenAccepted ==
    ASSUME NEW st, ReaderTypeOK, LetThrough, ReadInv(st), CallTypeOK, CallInv, WrittenInv(st),
           status = "reading", pos < Len(stream)
    PROVE  Accepts(NextBlob)
<1>1. /\ pos \in Nat /\ pos + 1 \in 1 .. Len(stream) /\ pos >= 1
      /\ Met > 0 <=> last_eadd # None
      /\ Met > 0 => st[Met] \in 1 .. pos /\ Met \in 1 .. Len(st)
      /\ Met + 1 \in 1 .. Len(st) => st[Met + 1] > pos
  BY NextFacts
<1>2. /\ Len(st) \in Nat /\ Len(stream) \in Nat /\ Met \in 0 .. Len(st)
      /\ \A n \in 1 .. Len(st) : st[n] \in Nat /\ st[n] >= 1
  BY EnumFacts
<1>3. got_ecreate
  <2>1. pos # 0 BY <1>1
  <2> QED BY <2>1, Zenon DEF LetThrough
<1>4. /\ Len(stream) >= 2 => Len(st) >= 1 /\ st[1] = 2
      /\ \A n \in 1 .. Len(st) :
            /\ stream[st[n]] = written[n].eadd
            /\ written[n].eadd.secinfo # "tcs_rwx"
            /\ written[n].eadd.offset % PageSize = 0
            /\ InStream(st, n, Progress(n))
      /\ \A m, n \in 1 .. Len(st) : m < n => written[m].eadd.offset < written[n].eadd.offset
  BY DEF WrittenInv
<1>5. \/ Met + 1 \in 1 .. Len(st) /\ st[Met + 1] = pos + 1
      \/ Met > 0 /\ pos + 1 \in st[Met] + 1 .. EndOf(st, Met)
  <2>1. CASE Met = 0
    <3>1. Len(stream) >= 2 BY <1>1, <1>2
    <3>2. Len(st) >= 1 /\ st[1] = 2 BY <1>4, <3>1
    <3>3. Met + 1 = 1 /\ 1 \in 1 .. Len(st) BY <1>2, <2>1, <3>2
    <3>4. 2 > pos BY <1>1, <3>2, <3>3
    <3>5. pos + 1 = 2 BY <1>1, <3>4
    <3> QED BY <3>2, <3>3, <3>5
  <2>2. CASE Met > 0 /\ Met < Len(st)
    <3>1. Met + 1 \in 1 .. Len(st) BY <1>2, <2>2
    <3>2. st[Met + 1] > pos /\ st[Met + 1] \in Nat /\ st[Met] \in 1 .. pos BY <1>1, <1>2, <2>2, <3>1
    <3>3. EndOf(st, Met) = st[Met + 1] - 1 BY <2>2 DEF EndOf
    <3> QED BY <1>1, <2>2, <3>1, <3>2, <3>3
  <2>3. CASE Met > 0 /\ Met = Len(st)
    <3>1. EndOf(st, Met) = Len(stream) /\ st[Met] \in 1 .. pos BY <1>1, <1>2, <2>3 DEF EndOf
    <3> QED BY <1>1, <1>2, <2>3, <3>1
  <2> QED BY <1>2, <2>1, <2>2, <2>3
<1>6. CASE Met + 1 \in 1 .. Len(st) /\ st[Met + 1] = pos + 1
  <2>1. NextBlob = written[Met + 1].eadd BY <1>4, <1>6 DEF NextBlob
  <2>2. NextBlob \in AddBlobs BY <1>6 DEF NextBlob, ReadInv, Enumerates
  <2>3. last_offset # None => NextBlob.offset > last_offset
    <3> SUFFICES ASSUME last_offset # None PROVE NextBlob.offset > last_offset OBVIOUS
    <3>1. Met # 0 /\ last_offset = stream[st[Met]].offset BY DEF ReadInv, MetPages
    <3>2. Met \in 1 .. Len(st) /\ Met < Met + 1 BY <1>2, <3>1
    <3>3. written[Met].eadd.offset < written[Met + 1].eadd.offset BY <1>4, <1>6, <3>2
    <3>4. stream[st[Met]] = written[Met].eadd BY <1>4, <3>2
    <3>5. stream[st[Met]] \in AddBlobs BY <3>2 DEF ReadInv, Enumerates
    <3>6. last_offset \in Nat /\ NextBlob.offset \in Nat BY <2>2, <3>1, <3>5, BlobKinds
    <3>7. last_offset < NextBlob.offset BY <2>1, <3>1, <3>3, <3>4
    <3> QED BY <3>6, <3>7
  <2>4. NextBlob.offset % PageSize = 0 /\ NextBlob.secinfo # "tcs_rwx" BY <1>4, <1>6, <2>1
  <2> QED BY <1>3, <2>2, <2>3, <2>4 DEF Accepts
<1>7. CASE Met > 0 /\ pos + 1 \in st[Met] + 1 .. EndOf(st, Met)
  <2> DEFINE x == Slot(stream, pos + 1)
             w == written[Met]
             S == st[Met] + 1 .. EndOf(st, Met)
  <2>1. Met \in 1 .. Len(st) /\ last_eadd # None /\ st[Met] \in 1 .. pos BY <1>1, <1>7
  <2>2. /\ \A j \in S : /\ stream[j] \in ChunkBlobs /\ Slot(stream, j) \in Chunks
                        /\ stream[j].offset = w.eadd.offset + Slot(stream, j) * ChunkSize
        /\ \A i, j \in S : i < j => Slot(stream, i) < Slot(stream, j)
    BY <1>4, <2>1 DEF InStream
  <2>3. stream[pos + 1] \in ChunkBlobs /\ x \in Chunks
        /\ stream[pos + 1].offset = w.eadd.offset + x * ChunkSize
    BY <1>7, <2>2
  <2>4. last_offset = w.eadd.offset /\ w.eadd.offset \in Nat /\ w.eadd.offset % PageSize = 0
    <3>1. Met # 0 BY <1>2, <1>7
    <3>2. last_offset = stream[st[Met]].offset BY <3>1 DEF ReadInv, MetPages
    <3>3. stream[st[Met]] = w.eadd /\ w.eadd.offset % PageSize = 0 BY <1>4, <2>1
    <3>4. stream[st[Met]] \in AddBlobs BY <2>1 DEF ReadInv, Enumerates
    <3> QED BY <3>2, <3>3, <3>4, BlobKinds
  <2>5. EndOf(st, Met) \in Int
    BY <2>1, EndOfType DEF ReadInv
  <2>6. ~(x = 0 /\ 0 \in chunks_seen)
    <3> SUFFICES ASSUME x = 0, 0 \in chunks_seen PROVE FALSE OBVIOUS
    <3>1. chunks_seen = SlotsIn(stream, ChunksIn(stream, st[Met], pos))
      BY <2>1 DEF ReadInv, Collected
    <3>2. PICK j \in ChunksIn(stream, st[Met], pos) : Slot(stream, j) = 0
      BY <3>1 DEF SlotsIn
    <3>3. j \in S /\ pos + 1 \in S /\ j < pos + 1
      BY <1>1, <1>7, <2>1, <2>5 DEF ChunksIn
    <3>4. Slot(stream, j) < x BY <2>2, <3>3
    <3> QED BY <3>2, <3>4
  <2> HIDE DEF x, w, S
  <2>7. PICK base \in Nat : base = last_offset /\ base % PageSize = 0
                            /\ NextBlob.offset = base + x * ChunkSize
    BY <2>3, <2>4 DEF NextBlob
  <2>8. /\ (base + x * ChunkSize) % ChunkSize = 0
        /\ ((base + x * ChunkSize) - base) \div ChunkSize = x
        /\ base + x * ChunkSize >= base
    BY <2>3, <2>7, ChunkOfOffset
  <2>9. NextBlob.offset % ChunkSize = 0 /\ Chunk(NextBlob.offset) = x /\ NextBlob.offset >= last_offset
    <3> DEFINE y == base + x * ChunkSize
    <3>1. y % ChunkSize = 0 BY <2>8, Zenon
    <3>2. (y - base) \div ChunkSize = x BY <2>8
    <3>3. y >= base BY <2>8, Zenon
    <3>4. NextBlob.offset = y /\ last_offset = base BY <2>7, Zenon
    <3> HIDE DEF y
    <3> QED BY <3>1, <3>2, <3>3, <3>4 DEF Chunk
  <2>10. x < PageChunks BY <2>3, SizesAssumption DEF Chunks
  <2>11. last_offset # None BY <2>7, NoneAssumption
  <2>12. NextBlob \in ChunkBlobs BY <2>3 DEF NextBlob
  <2> QED BY <1>3, <2>6, <2>9, <2>10, <2>11, <2>12 DEF Accepts, CheckChunkOffset
<1> QED BY <1>5, <1>6, <1>7

\* Steps that neither write nor go wrong.
LEMMA SameWriter ==
    ASSUME NEW st, WrittenInv(st), stream' = stream, UNCHANGED writerVars,
           status' # "error", AfterWriting'
    PROVE  WrittenInv(st)'
<1>3. /\ writing' = writing /\ next_offset' = next_offset /\ call' = call /\ written' = written
  BY DEF writerVars
<1>4. PageOffset' = PageOffset BY <1>3 DEF PageOffset
<1>5. ASSUME NEW n \in 1 .. Len(st) PROVE InStream(st, n, Progress(n))'
  BY <1>3 DEF WrittenInv, InStream, Progress, EndOf
<1>7. call'.next # -1 =>
        /\ Len(st) >= 1
        /\ written'[Len(st)] = Written(PageOffset, call.secinfo, call.chunk, call.data)'
  BY <1>3, <1>4 DEF WrittenInv, Written, EAdd
<1>8. call'.next = -1 => \A n \in 1 .. Len(st) : written'[n].eadd.offset < PageOffset'
  BY <1>3, <1>4 DEF WrittenInv
<1> QED BY <1>3, <1>5, <1>7, <1>8 DEF WrittenInv

LEMMA ReaderKeepsWritten ==
    ASSUME NEW st, ReaderTypeOK, LetThrough, ReadInv(st), CallTypeOK, CallInv, WrittenInv(st),
           ended, ReaderNext, UNCHANGED writerVars
    PROVE  WrittenInv(st)'
<1>1. status # "error" /\ Len(stream) >= 1 /\ stream[1] \in CreateBlobs BY DEF WrittenInv
<1>2. stream' = stream /\ ended' = ended /\ status' # "error"
  <2>1. CASE NewReader
    <3>1. pos = 0 BY <2>1 DEF NewReader, LetThrough
    <3>2. NextBlob = stream[1] /\ stream # <<>> BY <1>1, <3>1 DEF NextBlob
    <3> QED BY <1>1, <2>1, <3>2 DEF NewReader
  <2>2. CASE RefuseBlob BY <2>2, WrittenAccepted DEF RefuseBlob
  <2>3. CASE ReadEAdd BY <1>1, <2>3 DEF ReadEAdd
  <2>4. CASE ReadChunk BY <1>1, <2>4 DEF ReadChunk
  <2>5. CASE ReadEnd BY <1>1, <2>5 DEF ReadEnd
  <2> QED BY <2>1, <2>2, <2>3, <2>4, <2>5 DEF ReaderNext
<1>3. AfterWriting' BY <1>2 DEF AfterWriting
<1> QED BY <1>2, <1>3, SameWriter

-----------------------------------------------------------------------------
(***************************************************************************)
(* The invariant, and what follows from it                                 *)
(***************************************************************************)
LEMMA RoundTripInvInit == RoundTripInit => RoundTripInv
<1> SUFFICES ASSUME RoundTripInit PROVE RoundTripInv OBVIOUS
<1>1. /\ writing \in BOOLEAN /\ next_offset = 0 /\ call = NoCall /\ written = <<>> /\ ended = FALSE
      /\ pos = 0 /\ got_ecreate = FALSE /\ last_offset = None /\ chunks_measured = {}
      /\ chunks_seen = {} /\ last_eadd = None /\ page = EmptyPage /\ pages = <<>>
      /\ status = "new"
  BY DEF RoundTripInit, ReaderInit
<1>2. \/ ~writing /\ stream = <<>>
      \/ \E b \in CreateBlobs : stream = <<b>>
  BY DEF RoundTripInit, WriterInit, CreateBlobs
<1>3. EmptyPage \in [Chunks -> Data] BY DataAssumption DEF EmptyPage
<1>4. /\ stream \in Seq(Blobs) /\ Len(stream) \in {0, 1}
      /\ writing => Len(stream) = 1 /\ stream[1] \in CreateBlobs
      /\ \A i \in 1 .. Len(stream) : stream[i] \notin AddBlobs
  <2>1. CASE ~writing /\ stream = <<>> BY <2>1
  <2>2. ASSUME NEW b \in CreateBlobs, stream = <<b>>
        PROVE  /\ stream \in Seq(Blobs) /\ Len(stream) \in {0, 1}
               /\ writing => Len(stream) = 1 /\ stream[1] \in CreateBlobs
               /\ \A i \in 1 .. Len(stream) : stream[i] \notin AddBlobs
    <3>1. b \in Blobs /\ b \notin AddBlobs BY BlobKinds DEF Blobs
    <3>2. stream \in Seq(Blobs) /\ Len(stream) = 1 /\ stream[1] = b BY <2>2, <3>1
    <3>3. \A i \in 1 .. Len(stream) : stream[i] = b BY <3>2
    <3> QED BY <3>1, <3>2, <3>3
  <2> QED BY <1>2, <2>1, <2>2
<1>5. ReaderTypeOK
  <2>1. pos \in 0 .. Len(stream) BY <1>1, <1>4
  <2>2. pages \in Seq(PageSet) BY <1>1
  <2> QED BY <1>1, <1>3, <1>4, <2>1, <2>2 DEF ReaderTypeOK
<1>6. LetThrough
  <2>1. 2 .. pos = {} BY <1>1
  <2> QED BY <1>1, <2>1 DEF LetThrough
<1>7. CallTypeOK /\ CallInv
  <2>1. PageSize \in Nat \ {0} BY Sizes
  <2>2. -1 \in -1 .. PageChunks - 1 BY SizesAssumption
  <2>3. 0 % PageSize = 0
    <3>1. PageSize * 0 + 0 = 0 BY <2>1
    <3>2. 0 \in 0 .. PageSize - 1 BY <2>1
    <3>3. (PageSize * 0 + 0) % PageSize = 0 BY <2>1, <3>2, DivModUnique
    <3> QED BY <3>1, <3>3
  <2>4. call \in [n : Nat, page : Nat, next : -1 .. PageChunks - 1, secinfo : {"reg", "tcs"},
                  chunk : [Chunks -> PageChunk], data : [Chunks -> Data]]
    BY <1>1, <1>3, <2>2 DEF NoCall, PageChunk
  <2>5. written \in Seq(PageSet) BY <1>1
  <2>6. CallTypeOK BY <1>1, <2>4, <2>5 DEF CallTypeOK
  <2>7. call.page = 0 /\ call.n = 0 /\ call.next = -1 BY <1>1 DEF NoCall
  <2> QED BY <1>1, <2>3, <2>6, <2>7 DEF CallInv, Idle
<1>8. PICK st : st = <<>> OBVIOUS
<1>9. st \in Seq(Nat) /\ Len(st) = 0 /\ \A n \in 1 .. Len(st) : FALSE BY <1>8
<1>10. Len(pages) = 0 /\ \A n \in 1 .. Len(pages) : FALSE BY <1>1
<1>11. Met = 0 BY <1>1, <1>10 DEF Met
<1>12. Enumerates(st) BY <1>4, <1>9 DEF Enumerates
<1>13. MetPages(st)
  <2>1. \A n \in 1 .. Met : FALSE BY <1>11
  <2> QED BY <1>1, <1>9, <1>11, <2>1 DEF MetPages
<1>14. MetChunks(st)
  <2>1. \A j \in 1 .. pos : FALSE BY <1>1
  <2> QED BY <2>1 DEF MetChunks
<1>15. Collected(st) /\ Returned(st) BY <1>1, <1>10, <1>11 DEF Collected, Returned
<1>16. ReadInv(st) BY <1>12, <1>13, <1>14, <1>15 DEF ReadInv
<1>17. writing => WrittenInv(st)
  <2> SUFFICES ASSUME writing PROVE WrittenInv(st) OBVIOUS
  <2>1. Len(stream) = 1 /\ stream[1] \in CreateBlobs BY <1>4
  <2>2. Len(written) = Len(st) /\ call.next = -1 BY <1>1, <1>9 DEF NoCall
  <2>3. AfterWriting BY <1>1 DEF AfterWriting
  <2> QED BY <1>1, <1>9, <2>1, <2>2, <2>3 DEF WrittenInv
<1> QED BY <1>5, <1>6, <1>7, <1>9, <1>16, <1>17 DEF RoundTripInv

LEMMA RoundTripInvNext == RoundTripInv /\ [RoundTripNext]_roundTripVars => RoundTripInv'
<1> SUFFICES ASSUME RoundTripInv, [RoundTripNext]_roundTripVars PROVE RoundTripInv' OBVIOUS
<1>1. ReaderTypeOK /\ LetThrough /\ CallTypeOK /\ CallInv BY DEF RoundTripInv
<1>2. PICK st \in Seq(Nat) : ReadInv(st) /\ (writing => WrittenInv(st)) BY DEF RoundTripInv
<1> USE <1>1
\* Steps that leave the stream and the readers alone.
<1>3. ASSUME UNCHANGED streamVars, CallTypeOK', CallInv', writing' = writing,
             writing => WrittenInv(st)'
      PROVE  RoundTripInv'
  <2>1. ReaderTypeOK' BY <1>3 DEF ReaderTypeOK, streamVars, readerVars, canonicalVars, pageVars
  <2>2. LetThrough' BY <1>3 DEF LetThrough, streamVars, readerVars, canonicalVars, pageVars
  <2>3. ReadInv(st)'
    BY <1>2, <1>3 DEF ReadInv, Enumerates, MetPages, MetChunks, Collected, Returned, Met, EndOf,
                      streamVars, readerVars, canonicalVars, pageVars
  <2> QED BY <1>3, <2>1, <2>2, <2>3 DEF RoundTripInv
<1>4. ASSUME NEW n \in Nat, NEW offset \in 0 .. MaxBlobOffset \union {None},
             NEW secinfo \in {"reg", "tcs"}, NEW chunk \in [Chunks -> PageChunk],
             Write(n, offset, secinfo, chunk)
      PROVE  RoundTripInv'
  <2>1. writing /\ UNCHANGED streamVars /\ writing' = writing BY <1>4 DEF Write
  <2>2. CallTypeOK' /\ CallInv' /\ WrittenInv(st)' BY <1>2, <1>4, <2>1, WriteKeeps
  <2> QED BY <1>3, <2>1, <2>2
<1>5. ASSUME NEW d \in [Chunks -> Data], WriteEAdd(d) PROVE RoundTripInv'
  <2>1. writing BY <1>5 DEF WriteEAdd, CallInv
  <2>2. /\ ReaderTypeOK' /\ LetThrough' /\ CallTypeOK' /\ CallInv'
        /\ \E t \in Seq(Nat) : ReadInv(t)' /\ WrittenInv(t)'
    BY <1>2, <1>5, <2>1, WriteEAddKeeps
  <2> QED BY <2>2 DEF RoundTripInv
<1>6. CASE WriteChunk
  <2>1. writing BY <1>6 DEF WriteChunk, WriteChunkAt, CallInv
  <2>2. /\ ReaderTypeOK' /\ LetThrough' /\ CallTypeOK' /\ CallInv'
        /\ ReadInv(st)' /\ WrittenInv(st)'
    BY <1>2, <1>6, <2>1, WriteChunkKeeps
  <2> QED BY <2>2 DEF RoundTripInv
<1>7. ASSUME NEW n \in Nat, SkipPages(n) PROVE RoundTripInv'
  <2>1. writing /\ UNCHANGED streamVars /\ writing' = writing BY <1>7 DEF SkipPages
  <2>2. CallTypeOK' /\ CallInv' /\ WrittenInv(st)' BY <1>2, <1>7, <2>1, SkipKeeps
  <2> QED BY <1>3, <2>1, <2>2
<1>8. ASSUME ~writing, NEW b \in Blobs, AppendBlob(b), UNCHANGED writerVars PROVE RoundTripInv'
  <2>1. Grows(b) BY <1>8 DEF AppendBlob, Grows
  <2>2. PICK t : t = Extended(st, b) OBVIOUS
  <2>3. ReaderTypeOK' /\ LetThrough' /\ ReadInv(t)' BY <1>2, <2>1, <2>2, GrowKeeps
  <2>4. t \in Seq(Nat)
    <3>1. Enumerates(st) BY <1>2 DEF ReadInv
    <3> QED BY <2>1, <2>2, <3>1, ExtendedFacts
  <2>5. CallTypeOK' /\ CallInv' /\ ~writing'
    BY <1>8 DEF CallTypeOK, CallInv, Idle, writerVars
  <2> QED BY <2>3, <2>4, <2>5 DEF RoundTripInv
<1>9. CASE Finish
  <2>1. /\ Idle /\ EndStream /\ writing' = writing /\ next_offset' = next_offset
        /\ call' = call /\ written' = written /\ ended' = TRUE
        /\ stream' = stream /\ pages' = pages /\ status' = status
    BY <1>9 DEF Finish, writerVars, EndStream, readerVars, pageVars
  <2>2. ReaderTypeOK' /\ LetThrough' /\ ReadInv(st)' BY <1>2, <2>1, EndKeeps
  <2>3. CallTypeOK' BY <2>1 DEF CallTypeOK
  <2>4. CallInv' BY <2>1 DEF CallInv, Idle
  <2>5. ASSUME writing PROVE WrittenInv(st)'
    <3>1. AfterWriting' BY <2>1 DEF AfterWriting
    <3>2. status' # "error" BY <1>2, <2>1, <2>5 DEF WrittenInv
    <3>3. UNCHANGED writerVars BY <1>9 DEF Finish
    <3> QED BY <1>2, <2>1, <2>5, <3>1, <3>2, <3>3, SameWriter
  <2> QED BY <2>1, <2>2, <2>3, <2>4, <2>5 DEF RoundTripInv
<1>10. ASSUME writing => ended, ReaderNext, UNCHANGED writerVars PROVE RoundTripInv'
  <2>1. ReaderTypeOK' /\ LetThrough' /\ ReadInv(st)' BY <1>2, <1>10, ReaderKeeps
  <2>2. writing => WrittenInv(st)' BY <1>2, <1>10, ReaderKeepsWritten
  <2>3. ended' = ended
    BY <1>10 DEF ReaderNext, NewReader, RefuseBlob, ReadEAdd, ReadChunk, ReadEnd, GiveUp
  <2>4. CallTypeOK' /\ CallInv' /\ writing' = writing
    BY <1>10, <2>3 DEF CallTypeOK, CallInv, Idle, writerVars
  <2> QED BY <2>1, <2>2, <2>4 DEF RoundTripInv
<1>11. CASE UNCHANGED roundTripVars
  <2>1. UNCHANGED streamVars /\ UNCHANGED writerVars BY <1>11 DEF roundTripVars
  <2>2. CallTypeOK' /\ CallInv' /\ writing' = writing
    BY <2>1 DEF CallTypeOK, CallInv, Idle, writerVars, streamVars
  <2>3. ASSUME writing PROVE WrittenInv(st)'
    <3>1. stream' = stream /\ ended' = ended /\ pages' = pages /\ status' = status
      BY <2>1 DEF streamVars, readerVars, pageVars
    <3>2. AfterWriting' /\ status' # "error" BY <1>2, <2>3, <3>1 DEF AfterWriting, WrittenInv
    <3> QED BY <1>2, <2>1, <2>3, <3>1, <3>2, SameWriter
  <2> QED BY <1>3, <2>1, <2>2, <2>3
<1>12. CASE RoundTripNext
  <2>1. ASSUME NEW offset \in 0 .. MaxBlobOffset \union {None}, NEW secinfo \in {"reg", "tcs"},
               NEW chunk \in [Chunks -> PageChunk], WritePage(offset, secinfo, chunk)
        PROVE  RoundTripInv'
    BY <1>4, <2>1 DEF WritePage
  <2>2. ASSUME NEW offset \in 0 .. MaxBlobOffset \union {None}, NEW secinfo \in {"reg", "tcs"},
               NEW n \in 0 .. MaxPages, NEW some \in BOOLEAN, WritePages(n, offset, secinfo, some)
        PROVE  RoundTripInv'
    <3>1. n \in Nat BY MaxPagesAssumption
    <3>2. PICK chunk : chunk = [c \in Chunks |-> IF some THEN "IncludedMeasured" ELSE "Skipped"]
      OBVIOUS
    <3>3. chunk \in [Chunks -> PageChunk] BY <3>2 DEF PageChunk
    <3>4. Write(n, offset, secinfo, chunk) BY <2>2, <3>2 DEF WritePages
    <3> QED BY <1>4, <3>1, <3>3, <3>4
  <2>3. ASSUME NEW n \in 1 .. MaxPages, SkipPages(n) PROVE RoundTripInv'
    <3>1. n \in Nat BY MaxPagesAssumption
    <3> QED BY <1>7, <2>3, <3>1
  <2> QED BY <1>5, <1>6, <1>8, <1>9, <1>10, <1>12, <2>1, <2>2, <2>3 DEF RoundTripNext
<1> QED BY <1>11, <1>12

\* Whatever the stream: the readers' state is well formed, the page that is
\* being collected is what its blobs say so far, and a call of the writer has
\* put into the stream what it was asked for up to the chunk it has come to.
THEOREM RoundTripInvariance == RoundTripSpec => []RoundTripInv
BY RoundTripInvInit, RoundTripInvNext, PTL DEF RoundTripSpec

\* The CanonicalSgxsReader lets no stream through that is not canonical
\* (sgxs.rs:204-319), for streams of any length and pages of any size.
THEOREM ReadersCanonical == RoundTripSpec => []Canonical
<1>1. RoundTripInv => Canonical BY CanonicalFollows DEF RoundTripInv
<1> QED BY <1>1, RoundTripInvariance, PTL

\* The PageReader returns every page once, in order and with its own chunks
\* (sgxs.rs:331-358), for streams of any length and pages of any size.
THEOREM ReadersComplete == RoundTripSpec => []PagesComplete
<1>1. RoundTripInv => PagesComplete BY PagesCompleteFollows DEF RoundTripInv
<1> QED BY <1>1, RoundTripInvariance, PTL

\* The readers accept what the CanonicalSgxsWriter writes and return the pages
\* that were written (sgxs.rs:413-566), however many there are.
THEOREM WrittenIsRead == RoundTripSpec => []RoundTrip
<1>1. RoundTripInv => RoundTrip BY RoundTripFollows DEF RoundTripInv, RoundTrip
<1> QED BY <1>1, RoundTripInvariance, PTL

\* The pages that come back measure as the stream does: the records of the
\* measured chunks are in the order in which the drivers extend them.
THEOREM MeasurementKept == RoundTripSpec => []MeasurementPreserved
<1>1. RoundTripInv => MeasurementPreserved
  BY MeasurementFollows DEF RoundTripInv, MeasurementPreserved
<1> QED BY <1>1, RoundTripInvariance, PTL

-----------------------------------------------------------------------------
(***************************************************************************)
(* sgx-detect                                                              *)
(***************************************************************************)
\* The items that have a status, and the statuses of all but Flc's.
Tested ==
    {"Isa", "Flc", "Psw", "RunEnclave", "DataShield", "EnclaveOS", "AnyLoader", "AnyTokenProvider",
     "EnvTypeNotGeneric", "SgxCpuSupport", "SgxCpuConfiguration", "EnclaveAttributes",
     "EnclavePageCache", "SgxFeatures", "FlcCpuSupport", "FlcCpuConfiguration",
     "RunEnclaveProdWrap", "AesmService", "DeviceLoader", "EncllibLoader", "GrapheneDevice",
     "EnclaveManager", "PermDaemon"} \union Launchers
Required == {"Supported", "Fatal", "Unknown"}

\* Items that depend on none, and what they are updated with.
Leaves == {"SgxCpuSupport", "AesmService", "DeviceLoader", "GrapheneDevice", "PermDaemon",
           "EnclaveManager"}

LEMMA EdgeFacts ==
    /\ \A e \in Edges : e.from # e.to /\ e.to \notin Leaves
    /\ \A e \in VisibilityEdges : e \in Edges /\ e.from \in Tested /\ e.from # "Flc"
<1>1. \A e \in VisibilityEdges : e.from # e.to /\ e.to \notin Leaves
                                 /\ e.from \in Tested /\ e.from # "Flc"
  BY DEF VisibilityEdges, Edge, Leaves, Tested, Launchers
<1>2. ASSUME NEW p \in DOMAIN Children, NEW c \in Children[p]
      PROVE  c # p /\ p \notin Leaves
  BY DEF Children, Leaves, Launchers
<1>3. \A e \in OtherEdges : e.from # e.to /\ e.to \notin Leaves
  <2> SUFFICES ASSUME NEW e \in OtherEdges PROVE e.from # e.to /\ e.to \notin Leaves OBVIOUS
  <2>1. CASE \E p \in DOMAIN Children : \E c \in Children[p] : e = Edge(c, p)
    BY <1>2, <2>1 DEF Edge
  <2>2. CASE \E f \in {"SgxCpuConfiguration", "AnyLoader", "AnyTokenProvider"}, t \in Launchers :
                e = Edge(f, t)
    BY <2>2 DEF Edge, Launchers, Leaves
  <2>3. CASE e \in {Edge("EnclaveAttributes", "SgxFeatures"), Edge("SgxCpuSupport", "FlcCpuSupport"),
            Edge("SgxCpuConfiguration", "FlcCpuConfiguration"),
            Edge("RunEnclaveProd", "RunEnclaveProdWrap"), Edge("Flc", "Psw"),
            Edge("DeviceLoader", "AnyLoader"), Edge("EncllibLoader", "AnyLoader"),
            Edge("FlcCpuConfiguration", "AnyTokenProvider"), Edge("AesmService", "AnyTokenProvider")}
    BY <2>3 DEF Edge, Leaves
  <2> QED BY <2>1, <2>2, <2>3 DEF OtherEdges
<1> QED BY <1>1, <1>3 DEF Edges

LEMMA DepsIs ==
    \A m, d : (d \in Deps(m) <=> Edge(d, m) \in Edges) /\ (m \in Dependents(d) <=> Edge(d, m) \in Edges)
<1>1. \A e \in Edges : e = Edge(e.from, e.to)
  <2>1. \A e \in VisibilityEdges : e = Edge(e.from, e.to) BY DEF VisibilityEdges, Edge
  <2>2. \A e \in OtherEdges : e = Edge(e.from, e.to) BY DEF OtherEdges, Edge
  <2> QED BY <2>1, <2>2 DEF Edges
<1>2. \A d, m : Edge(d, m).from = d /\ Edge(d, m).to = m BY DEF Edge
<1> QED BY <1>1, <1>2 DEF Deps, Dependents

\* An item keeps copies of dependencies only, and these have a status.
LEMMA CopiesFacts ==
    ASSUME NEW m \in DOMAIN Copies
    PROVE  Copies[m] \subseteq Deps(m) /\ Copies[m] \subseteq Tested
<1>1. ASSUME NEW d \in Copies[m] PROVE Edge(d, m) \in Edges /\ d \in Tested
  <2>1. m \in {"Isa", "Flc", "Psw", "RunEnclave", "DataShield", "EnclaveOS", "RunEnclaveProdWrap",
               "AnyLoader", "AnyTokenProvider", "RunEnclaveDebug", "RunEnclaveProdWl",
               "RunEnclaveProd"}
    BY DEF Copies
  <2>2. d \in Tested BY <2>1 DEF Copies, Children, Tested, Launchers
  <2>3. CASE m \in {"Isa", "Flc", "RunEnclave", "DataShield", "EnclaveOS"}
    <3>1. m \in DOMAIN Children /\ d \in Children[m] BY <2>3 DEF Copies, Children
    <3> QED BY <3>1, <2>2 DEF Edges, OtherEdges
  <2>4. CASE m = "Psw"
    <3>1. d = "Flc" \/ d \in Children["Psw"] BY <2>4 DEF Copies
    <3>2. "Psw" \in DOMAIN Children BY DEF Children
    <3> QED BY <2>4, <3>1, <3>2, <2>2 DEF Edges, OtherEdges
  <2>5. CASE m \in {"RunEnclaveProdWrap", "AnyLoader", "AnyTokenProvider"}
    BY <2>5, <2>2 DEF Copies, Edges, OtherEdges
  <2>6. CASE m \in Launchers
    <3>1. d \in {"SgxCpuConfiguration", "AnyLoader", "AnyTokenProvider"}
      BY <2>6 DEF Copies, Launchers
    <3> QED BY <2>6, <3>1, <2>2 DEF Edges, OtherEdges
  <2> QED BY <2>1, <2>3, <2>4, <2>5, <2>6 DEF Launchers
<1> QED BY <1>1, DepsIs

-----------------------------------------------------------------------------
LEMMA AndOr ==
    /\ \A a, b : a \in Required /\ b \in Required =>
        /\ And(a, b) \in Required
        /\ And(a, b) = "Supported" <=> a = "Supported" /\ b = "Supported"
    /\ \A a, b : /\ Or(a, b) \in Required
                 /\ Or(a, b) = "Supported" <=> a = "Supported" \/ b = "Supported"
<1>1. ASSUME NEW a \in Required, NEW b \in Required
      PROVE  /\ And(a, b) \in Required
             /\ And(a, b) = "Supported" <=> a = "Supported" /\ b = "Supported"
  BY DEF And, Required
<1>2. ASSUME NEW a, NEW b
      PROVE  /\ Or(a, b) \in Required
             /\ Or(a, b) = "Supported" <=> a = "Supported" \/ b = "Supported"
  BY DEF Or, Required
<1> QED BY <1>1, <1>2

\* The copies are statuses; those of the items that load enclaves are None at first.
CopiesInv ==
    \A m \in DOMAIN Copies :
        /\ seen[m] \in [Copies[m] -> Required \union {"None", "Unsupported"}]
        /\ m \notin Launchers => \A x \in Copies[m] \ {"Flc"} : seen[m][x] \in Required

\* A status depends only on what the item has.
LEMMA StatusSame ==
    ASSUME NEW n \in Tested, NEW i, n \in DOMAIN Copies => seen'[n] = seen[n],
           n \in Launchers => success'[n] = success[n]
    PROVE  StatusWith(n, i)' = StatusWith(n, i)
<1>1. /\ n = "Isa" => IsaStatus' = IsaStatus
      /\ n = "Flc" => FlcStatus' = FlcStatus
      /\ n = "Psw" => PswStatus' = PswStatus
      /\ n = "RunEnclave" => RunEnclave' = RunEnclave
      /\ n = "DataShield" => DataShieldStatus' = DataShieldStatus
      /\ n = "EnclaveOS" => EnclaveOSStatus' = EnclaveOSStatus
      /\ n = "AnyLoader" => AnyLoaderStatus' = AnyLoaderStatus
      /\ n = "AnyTokenProvider" => AnyTokenProviderStatus' = AnyTokenProviderStatus
      /\ n = "RunEnclaveProdWrap" => RunEnclaveProdWrapStatus' = RunEnclaveProdWrapStatus
  <2>1. n \in {"Isa", "Flc", "Psw", "RunEnclave", "DataShield", "EnclaveOS", "AnyLoader",
               "AnyTokenProvider", "RunEnclaveProdWrap"} => seen'[n] = seen[n]
    BY DEF Copies
  <2> QED
    BY <2>1 DEF IsaStatus, FlcStatus, PswStatus, RunEnclave, DataShieldStatus, EnclaveOSStatus,
                AnyLoaderStatus, AnyTokenProviderStatus, RunEnclaveProdWrapStatus, Saw
<1>2. n \in Launchers => LauncherStatus(n)' = LauncherStatus(n) BY DEF LauncherStatus
<1> QED BY <1>1, <1>2 DEF StatusWith, Tested, Launchers

\* StatusWith item by item.
LEMMA StatusIs ==
    ASSUME NEW i
    PROVE  /\ StatusWith("Isa", i) = IsaStatus
           /\ StatusWith("Flc", i) = FlcStatus
           /\ StatusWith("Psw", i) = PswStatus
           /\ StatusWith("RunEnclave", i) = RunEnclave
           /\ StatusWith("DataShield", i) = DataShieldStatus
           /\ StatusWith("EnclaveOS", i) = EnclaveOSStatus
           /\ StatusWith("AnyLoader", i) = AnyLoaderStatus
           /\ StatusWith("AnyTokenProvider", i) = AnyTokenProviderStatus
           /\ StatusWith("EnvTypeNotGeneric", i) = EnvTypeNotGenericStatus(i)
           /\ StatusWith("SgxCpuSupport", i) = SgxCpuSupportStatus(i)
           /\ StatusWith("SgxCpuConfiguration", i) = SgxCpuConfigurationStatus(i)
           /\ StatusWith("EnclaveAttributes", i) = EnclaveAttributesStatus(i)
           /\ StatusWith("EnclavePageCache", i) = EnclavePageCacheStatus(i)
           /\ StatusWith("SgxFeatures", i) = SgxFeaturesStatus(i)
           /\ StatusWith("FlcCpuSupport", i) = FlcCpuSupportStatus(i)
           /\ StatusWith("FlcCpuConfiguration", i) = FlcCpuConfigurationStatus(i)
           /\ StatusWith("RunEnclaveProdWrap", i) = RunEnclaveProdWrapStatus
           /\ StatusWith("AesmService", i) = AesmServiceStatus(i)
           /\ StatusWith("DeviceLoader", i) = DeviceLoaderStatus(i)
           /\ StatusWith("EncllibLoader", i) = EncllibLoaderStatus(i)
           /\ StatusWith("GrapheneDevice", i) = GrapheneDeviceStatus(i)
           /\ StatusWith("EnclaveManager", i) = EnclaveManagerStatus(i)
           /\ StatusWith("PermDaemon", i) = PermDaemonStatus(i)
           /\ \A n \in Launchers : StatusWith(n, i) = LauncherStatus(n)
  BY DEF StatusWith, Launchers

LEMMA StatusRequired ==
    ASSUME NEW n \in Tested, NEW i, CopiesInv
    PROVE  /\ n # "Flc" => StatusWith(n, i) \in Required
           /\ StatusWith(n, i) \in Required \union {"Unsupported"}
<1>1. \A b : AsReq(b) \in Required BY DEF AsReq, Required
<1>2. ASSUME NEW j, NEW good PROVE MapReq(j, good) \in Required
  <2>1. AsReq(j \in good) \in Required BY DEF AsReq, Required
  <2> QED BY <2>1 DEF MapReq, Required
<1>3. \A m \in DOMAIN Copies \ Launchers : \A x \in Copies[m] \ {"Flc"} : Saw(m, x) \in Required
  BY DEF CopiesInv, Saw
<1>4. CASE n = "Isa"
  <2>1. /\ Saw("Isa", "SgxCpuSupport") \in Required /\ Saw("Isa", "SgxCpuConfiguration") \in Required
        /\ Saw("Isa", "EnclaveAttributes") \in Required /\ Saw("Isa", "EnclavePageCache") \in Required
    BY <1>3 DEF Copies, Children, Launchers
  <2>2. IsaStatus \in Required BY <2>1, AndOr DEF IsaStatus
  <2> QED BY <1>4, <2>2, StatusIs
<1>5. CASE n = "Flc"
  <2>1. /\ Saw("Flc", "FlcCpuSupport") \in Required /\ Saw("Flc", "FlcCpuConfiguration") \in Required
        /\ Saw("Flc", "RunEnclaveProdWrap") \in Required
    BY <1>3 DEF Copies, Children, Launchers
  <2>2. FlcStatus \in Required \union {"Unsupported"}
    BY <2>1, AndOr DEF FlcStatus, DowngradeFatal, Required
  <2> QED BY <1>5, <2>2, StatusIs
<1>6. CASE n = "Psw"
  <2>1. Saw("Psw", "RunEnclave") \in Required
    BY <1>3 DEF Copies, Children, Launchers
  <2>2. PswStatus \in Required BY <2>1, AndOr DEF PswStatus
  <2> QED BY <1>6, <2>2, StatusIs
<1>7. CASE n = "RunEnclave"
  <2>1. Saw("RunEnclave", "RunEnclaveDebug") \in Required
    BY <1>3 DEF Copies, Children, Launchers
  <2>2. RunEnclave \in Required BY <2>1, AndOr DEF RunEnclave
  <2> QED BY <1>7, <2>2, StatusIs
<1>8. CASE n \in {"DataShield", "EnclaveOS", "RunEnclaveProdWrap"}
  <2>1. /\ Saw("DataShield", "EnclaveOS") \in Required /\ Saw("DataShield", "EnclaveManager") \in Required
        /\ Saw("EnclaveOS", "GrapheneDevice") \in Required /\ Saw("EnclaveOS", "PermDaemon") \in Required
        /\ Saw("RunEnclaveProdWrap", "RunEnclaveProd") \in Required
    BY <1>3 DEF Copies, Children, Launchers
  <2>2. /\ DataShieldStatus \in Required /\ EnclaveOSStatus \in Required
        /\ RunEnclaveProdWrapStatus \in Required
    BY <2>1, AndOr DEF DataShieldStatus, EnclaveOSStatus, RunEnclaveProdWrapStatus
  <2> QED BY <1>8, <2>2, StatusIs
<1>9. CASE n \in {"AnyLoader", "AnyTokenProvider"}
  <2>1. AnyLoaderStatus \in Required /\ AnyTokenProviderStatus \in Required
    BY AndOr DEF AnyLoaderStatus, AnyTokenProviderStatus
  <2> QED BY <1>9, <2>1, StatusIs
<1>10. CASE n \in {"EnvTypeNotGeneric", "SgxCpuSupport", "SgxCpuConfiguration", "EnclaveAttributes",
                   "EnclavePageCache", "SgxFeatures", "FlcCpuSupport", "FlcCpuConfiguration",
                   "AesmService", "DeviceLoader", "EncllibLoader", "GrapheneDevice",
                   "EnclaveManager", "PermDaemon"}
  <2>1. /\ EnvTypeNotGenericStatus(i) \in Required /\ SgxCpuSupportStatus(i) \in Required
        /\ SgxCpuConfigurationStatus(i) \in Required /\ EnclaveAttributesStatus(i) \in Required
        /\ SgxFeaturesStatus(i) \in Required /\ FlcCpuSupportStatus(i) \in Required
        /\ AesmServiceStatus(i) \in Required /\ DeviceLoaderStatus(i) \in Required
        /\ EncllibLoaderStatus(i) \in Required /\ GrapheneDeviceStatus(i) \in Required
        /\ EnclaveManagerStatus(i) \in Required /\ PermDaemonStatus(i) \in Required
    BY <1>1, <1>2 DEF EnvTypeNotGenericStatus, SgxCpuSupportStatus, SgxCpuConfigurationStatus,
        EnclaveAttributesStatus, SgxFeaturesStatus, FlcCpuSupportStatus, AesmServiceStatus,
        DeviceLoaderStatus, EncllibLoaderStatus, GrapheneDeviceStatus, EnclaveManagerStatus,
        PermDaemonStatus
  <2>2. EnclavePageCacheStatus(i) \in Required /\ FlcCpuConfigurationStatus(i) \in Required
    BY DEF EnclavePageCacheStatus, FlcCpuConfigurationStatus, Required
  <2> QED BY <1>10, <2>1, <2>2, StatusIs
<1>11. CASE n \in Launchers
  <2>1. LauncherStatus(n) \in Required BY <1>1 DEF LauncherStatus, Required
  <2> QED BY <1>11, <2>1, StatusIs
<1> QED BY <1>4, <1>5, <1>6, <1>7, <1>8, <1>9, <1>10, <1>11 DEF Tested
-----------------------------------------------------------------------------
(***************************************************************************)
(* The inductive invariant.  With an item its dependencies are visited, so *)
(* that no later visit updates it; hidden holds exactly the edges of the   *)
(* visited items that are Fatal; and the items that the report is about    *)
(* have what was found.                                                    *)
(***************************************************************************)
VisitedInv == visited \subseteq Items /\ \A n \in visited : Deps(n) \subseteq visited

Hiding == {e \in VisibilityEdges : e.from \in visited /\ Supported(e.from) = "Fatal"}

\* SgxCpuSupport updates these; the others that depend on it leave them alone.
SgxItems == {"SgxCpuConfiguration", "EnclaveAttributes", "EnclavePageCache"}

FoundInv ==
    /\ \A n \in Leaves \intersect visited : inner[n] = Update(n)
    /\ "SgxCpuSupport" \in visited =>
        \A m \in SgxItems : inner[m] = UpdateDependency(m, "SgxCpuSupport")

DetectInv ==
    /\ support \in Supports
    /\ VisitedInv
    /\ CopiesInv
    /\ NothingStale
    /\ hidden = Hiding
    /\ FoundInv
    /\ report.printed => visited = Items

LEMMA DetectInitInv == DetectInit => DetectInv
<1> SUFFICES ASSUME DetectInit PROVE DetectInv OBVIOUS
<1>1. CopiesInv
  <2> SUFFICES ASSUME NEW m \in DOMAIN Copies
               PROVE  /\ seen[m] \in [Copies[m] -> Required \union {"None", "Unsupported"}]
                      /\ m \notin Launchers => \A x \in Copies[m] \ {"Flc"} : seen[m][x] \in Required
    BY DEF CopiesInv
  <2>1. seen[m] = [d \in Copies[m] |-> IF m \in Launchers THEN "None" ELSE "Unknown"]
    BY DEF DetectInit
  <2> QED BY <2>1 DEF Required
<1> QED BY <1>1 DEF DetectInit, DetectInv, VisitedInv, NothingStale, Hiding, FoundInv

\* What a visit does: the item gets a value and a status, which its dependents see;
\* an item that does not depend on it keeps what it has.
LEMMA VisitStep ==
    ASSUME DetectInv, NEW n \in Items, Visit(n)
    PROVE  /\ n \notin visited /\ Deps(n) \subseteq visited /\ visited' = visited \union {n}
           /\ support' = support /\ report' = report
           /\ \E i :
                /\ i = IF Deps(n) = {} THEN Update(n) ELSE inner[n]
                /\ inner'[n] = i
                /\ \A m \in Items : m # n =>
                      inner'[m] = IF Edge(n, m) \in Edges THEN UpdateDependency(m, n) ELSE inner[m]
                /\ \A m \in DOMAIN Copies :
                      seen'[m] = [x \in Copies[m] |-> IF x = n THEN StatusWith(n, i) ELSE seen[m][x]]
                /\ \A l \in Launchers : n \notin Deps(l) => success'[l] = success[l]
                /\ hidden' = hidden \union
                      IF StatusWith(n, i) = "Fatal" THEN {e \in VisibilityEdges : e.from = n} ELSE {}
<1> DEFINE i == IF Deps(n) = {} THEN Update(n) ELSE inner[n]
<1>1. /\ MayVisit(n) /\ visited' = visited \union {n} /\ UNCHANGED <<support, report>>
      /\ inner' = [m \in Items |-> IF m = n THEN i
                                    ELSE IF m \in Dependents(n) THEN UpdateDependency(m, n)
                                    ELSE inner[m]]
      /\ seen' = [m \in DOMAIN Copies |-> SeenAfter(m, n, StatusWith(n, i))]
      /\ \E x \in Launch("RunEnclaveDebug", n, StatusWith(n, i), timedout) :
         \E y \in Launch("RunEnclaveProdWl", n, StatusWith(n, i), x.timedout) :
         \E z \in Launch("RunEnclaveProd", n, StatusWith(n, i), y.timedout) :
              success' = [RunEnclaveDebug |-> x.ok, RunEnclaveProdWl |-> y.ok,
                          RunEnclaveProd |-> z.ok]
      /\ hidden' = hidden \union
              IF Hides(StatusWith(n, i)) THEN {e \in VisibilityEdges : e.from = n} ELSE {}
  BY DEF Visit
<1> HIDE DEF i
<1>2. \A m : m \in Dependents(n) <=> Edge(n, m) \in Edges BY DepsIs
<1>3. \A m \in DOMAIN Copies :
        seen'[m] = [x \in Copies[m] |-> IF x = n THEN StatusWith(n, i) ELSE seen[m][x]]
  <2> SUFFICES ASSUME NEW m \in DOMAIN Copies
               PROVE  seen'[m] = [x \in Copies[m] |-> IF x = n THEN StatusWith(n, i) ELSE seen[m][x]]
    OBVIOUS
  <2>1. DOMAIN seen[m] = Copies[m] BY DEF DetectInv, CopiesInv
  <2> QED BY <1>1, <2>1 DEF SeenAfter
<1>4. ASSUME NEW l \in Launchers, n \notin Deps(l) PROVE success'[l] = success[l]
  <2>1. \A s, a : Launch(l, n, s, a) = {[ok |-> success[l], timedout |-> a]} BY <1>4 DEF Launch
  <2>2. l \in {"RunEnclaveDebug", "RunEnclaveProdWl", "RunEnclaveProd"} BY DEF Launchers
  <2> QED BY <1>1, <2>1, <2>2
<1>5. /\ i = IF Deps(n) = {} THEN Update(n) ELSE inner[n]
      /\ inner'[n] = i
      /\ \A m \in Items : m # n =>
            inner'[m] = IF Edge(n, m) \in Edges THEN UpdateDependency(m, n) ELSE inner[m]
  BY <1>1, <1>2 DEF i
<1>6. hidden' = hidden \union
            IF StatusWith(n, i) = "Fatal" THEN {e \in VisibilityEdges : e.from = n} ELSE {}
  BY <1>1 DEF Hides
<1> QED BY <1>1, <1>3, <1>4, <1>5, <1>6 DEF MayVisit

\* No later visit changes the status of an item.
LEMMA VisitInv ==
    ASSUME DetectInv, NEW n \in Items, Visit(n)
    PROVE  DetectInv'
<1>1. /\ n \notin visited /\ Deps(n) \subseteq visited /\ visited' = visited \union {n}
      /\ support' = support /\ report' = report
  BY VisitStep
<1>2. PICK i :
        /\ i = IF Deps(n) = {} THEN Update(n) ELSE inner[n]
        /\ inner'[n] = i
        /\ \A m \in Items : m # n =>
              inner'[m] = IF Edge(n, m) \in Edges THEN UpdateDependency(m, n) ELSE inner[m]
        /\ \A m \in DOMAIN Copies :
              seen'[m] = [x \in Copies[m] |-> IF x = n THEN StatusWith(n, i) ELSE seen[m][x]]
        /\ \A l \in Launchers : n \notin Deps(l) => success'[l] = success[l]
        /\ hidden' = hidden \union
              IF StatusWith(n, i) = "Fatal" THEN {e \in VisibilityEdges : e.from = n} ELSE {}
  BY VisitStep
<1> DEFINE found == StatusWith(n, i)
<1>3. ASSUME NEW d, n \notin Deps(d)
      PROVE  /\ d \in DOMAIN Copies => seen'[d] = seen[d]
             /\ d \in Launchers => success'[d] = success[d]
  <2>1. ASSUME d \in DOMAIN Copies PROVE seen'[d] = seen[d]
    <3>1. n \notin Copies[d] BY <1>3, <2>1, CopiesFacts
    <3>2. seen[d] = [x \in Copies[d] |-> seen[d][x]] BY <2>1 DEF DetectInv, CopiesInv
    <3>3. seen'[d] = [x \in Copies[d] |-> IF x = n THEN StatusWith(n, i) ELSE seen[d][x]]
      BY <1>2, <2>1
    <3> QED BY <3>1, <3>2, <3>3
  <2> QED BY <2>1, <1>2, <1>3
<1>4. ASSUME NEW d \in visited \intersect Tested PROVE Supported(d)' = Supported(d)
  <2>1. d \in Items /\ d # n /\ n \notin Deps(d) BY <1>1 DEF DetectInv, VisitedInv
  <2>2. inner'[d] = inner[d] BY <2>1, <1>2, DepsIs
  <2>3. \A j : StatusWith(d, j)' = StatusWith(d, j) BY <2>1, <1>3, StatusSame
  <2> QED BY <2>2, <2>3 DEF Supported
<1>5. n \in Tested => Supported(n)' = found
  <2>1. n \notin Deps(n) BY <1>1
  <2>2. n \in Tested => \A j : StatusWith(n, j)' = StatusWith(n, j) BY <2>1, <1>3, StatusSame
  <2> QED BY <2>2, <1>2 DEF Supported
<1>6. n \in Tested => (n # "Flc" => found \in Required) /\ found \in Required \union {"Unsupported"}
  BY StatusRequired DEF DetectInv
<1> HIDE DEF found
<1>7. \A m \in DOMAIN Copies : seen'[m] = [x \in Copies[m] |-> IF x = n THEN found ELSE seen[m][x]]
  BY <1>2 DEF found
<1>8. VisitedInv' BY <1>1 DEF DetectInv, VisitedInv, Deps
<1>9. CopiesInv'
  <2> SUFFICES ASSUME NEW m \in DOMAIN Copies
               PROVE  /\ seen'[m] \in [Copies[m] -> Required \union {"None", "Unsupported"}]
                      /\ m \notin Launchers => \A x \in Copies[m] \ {"Flc"} : seen'[m][x] \in Required
    BY DEF CopiesInv
  <2>1. Copies[m] \subseteq Tested BY CopiesFacts
  <2>2. /\ seen[m] \in [Copies[m] -> Required \union {"None", "Unsupported"}]
        /\ m \notin Launchers => \A x \in Copies[m] \ {"Flc"} : seen[m][x] \in Required
    BY DEF DetectInv, CopiesInv
  <2> QED BY <1>6, <1>7, <2>1, <2>2
<1>10. NothingStale'
  <2> SUFFICES ASSUME NEW m \in DOMAIN Copies, NEW d \in Copies[m] \intersect visited'
               PROVE  seen'[m][d] = Supported(d)'
    BY DEF NothingStale
  <2>1. d \in Tested BY CopiesFacts
  <2>2. CASE d = n BY <2>1, <2>2, <1>5, <1>7
  <2>3. CASE d # n
    <3>1. d \in visited BY <2>3, <1>1
    <3>2. seen[m][d] = Supported(d) BY <3>1 DEF DetectInv, NothingStale
    <3> QED BY <2>1, <2>3, <3>1, <3>2, <1>4, <1>7
  <2> QED BY <2>2, <2>3
<1>11. hidden' = Hiding'
  <2>1. \A e \in VisibilityEdges : e.from \in Tested BY EdgeFacts
  <2>2. hidden' = hidden \union IF found = "Fatal" THEN {e \in VisibilityEdges : e.from = n} ELSE {}
    BY <1>2 DEF found
  <2>3. hidden = {e \in VisibilityEdges : e.from \in visited /\ Supported(e.from) = "Fatal"}
    BY DEF DetectInv, Hiding
  <2>4. Hiding' = {e \in VisibilityEdges : e.from \in visited' /\ Supported(e.from)' = "Fatal"}
    BY DEF Hiding
  <2>5. ASSUME NEW e \in VisibilityEdges
        PROVE  e.from \in visited' /\ Supported(e.from)' = "Fatal" <=>
               \/ e.from \in visited /\ Supported(e.from) = "Fatal"
               \/ found = "Fatal" /\ e.from = n
    BY <2>1, <1>1, <1>4, <1>5
  <2> QED BY <2>2, <2>3, <2>4, <2>5
<1>12. FoundInv'
  <2>1. \A m : Update(m)' = Update(m) /\ Sgx7' = Sgx7 BY <1>1 DEF Update, Sgx7
  <2>2. \A m \in Leaves : Deps(m) = {} BY EdgeFacts DEF Deps
  <2>3. ASSUME NEW m \in Leaves \intersect visited' PROVE inner'[m] = Update(m)
    <3>1. CASE m = n BY <3>1, <2>2, <1>2
    <3>2. CASE m # n
      <4>1. m \in visited /\ m \in Items BY <3>2, <1>1 DEF DetectInv, VisitedInv
      <4>2. inner[m] = Update(m) BY <4>1 DEF DetectInv, FoundInv
      <4> QED BY <4>1, <4>2, <3>2, <2>2, <1>2, DepsIs
    <3> QED BY <3>1, <3>2
  <2>4. \A m \in SgxItems : Edge("SgxCpuSupport", m) \in Edges /\ m \in Items /\ m # "SgxCpuSupport"
    <3>1. ASSUME NEW m \in SgxItems PROVE Edge("SgxCpuSupport", m) \in VisibilityEdges
      BY DEF SgxItems, VisibilityEdges
    <3>2. \A d, m : Edge(d, m).to = m BY DEF Edge
    <3> QED BY <3>1, <3>2 DEF Edges, Items, SgxItems
  <2>5. /\ UpdateDependency("SgxCpuConfiguration", "SgxCpuSupport") = SgxCpuConfigurationUpdate
        /\ UpdateDependency("EnclaveAttributes", "SgxCpuSupport") = EnclaveAttributesUpdate
        /\ UpdateDependency("EnclavePageCache", "SgxCpuSupport") = EnclavePageCacheUpdate
    BY DEF UpdateDependency
  <2>6. \A m \in SgxItems : UpdateDependency(m, "SgxCpuSupport")' = UpdateDependency(m, "SgxCpuSupport")
    <3>1. /\ UpdateDependency("SgxCpuConfiguration", "SgxCpuSupport")' = SgxCpuConfigurationUpdate'
          /\ UpdateDependency("EnclaveAttributes", "SgxCpuSupport")' = EnclaveAttributesUpdate'
          /\ UpdateDependency("EnclavePageCache", "SgxCpuSupport")' = EnclavePageCacheUpdate'
      BY DEF UpdateDependency
    <3>2. /\ SgxCpuConfigurationUpdate' = SgxCpuConfigurationUpdate
          /\ EnclaveAttributesUpdate' = EnclaveAttributesUpdate
          /\ EnclavePageCacheUpdate' = EnclavePageCacheUpdate
      BY <1>1, <2>1 DEF SgxCpuConfigurationUpdate, EnclaveAttributesUpdate, EnclavePageCacheUpdate
    <3> QED BY <2>5, <3>1, <3>2 DEF SgxItems
  <2>7. ASSUME NEW m \in SgxItems, "SgxCpuSupport" \in visited'
        PROVE  inner'[m] = UpdateDependency(m, "SgxCpuSupport")
    <3>1. CASE n = "SgxCpuSupport" BY <3>1, <2>4, <1>2
    <3>2. CASE n # "SgxCpuSupport"
      <4>1. inner[m] = UpdateDependency(m, "SgxCpuSupport")
        BY <3>2, <2>7, <1>1 DEF DetectInv, FoundInv
      <4>2. UpdateDependency(m, n) = inner[m] BY <3>2 DEF SgxItems, UpdateDependency
      <4>3. Deps(m) # {} BY <2>4, DepsIs
      <4> QED BY <4>1, <4>2, <4>3, <2>4, <1>2
    <3> QED BY <3>1, <3>2
  <2> QED BY <2>1, <2>3, <2>6, <2>7 DEF FoundInv
<1>13. (report.printed => visited = Items)' BY <1>1 DEF DetectInv
<1> QED BY <1>1, <1>8, <1>9, <1>10, <1>11, <1>12, <1>13 DEF DetectInv
-----------------------------------------------------------------------------
(***************************************************************************)
(* The report                                                              *)
(***************************************************************************)
IsaTests == {"SgxCpuSupport"} \union SgxItems
PswTests == {"DeviceLoader", "AesmService"}

\* The way from Root to the tests that help is about.
LEMMA PathIs ==
    /\ \A n : n \in Path(n)
    /\ \A n \in IsaTests : Path(n) = {n, "Isa", "Root"}
    /\ \A n \in PswTests : Path(n) = {n, "Psw", "Root"}
    /\ \A n \in Launchers : Path(n) = {n, "RunEnclave", "Psw", "Root"}
<1>1. \A p \in DOMAIN Children :
        /\ \A n \in IsaTests : n \in Children[p] <=> p = "Isa"
        /\ \A n \in PswTests : n \in Children[p] <=> p = "Psw"
        /\ \A n \in Launchers : n \in Children[p] <=> p = "RunEnclave"
        /\ "RunEnclave" \in Children[p] <=> p = "Psw"
        /\ "Isa" \in Children[p] <=> p = "Root"
        /\ "Psw" \in Children[p] <=> p = "Root"
        /\ "Root" \notin Children[p]
  BY DEF Children, IsaTests, SgxItems, PswTests, Launchers
<1>2. {"Isa", "Psw", "RunEnclave", "Root"} \subseteq DOMAIN Children BY DEF Children
<1>3. \A S : WithParents(S) = S \union {p \in DOMAIN Children : \E n \in S : n \in Children[p]}
  BY DEF WithParents
<1>4. ASSUME NEW n \in IsaTests PROVE Path(n) = {n, "Isa", "Root"}
  <2>1. WithParents({n}) = {n, "Isa"} BY <1>1, <1>2, <1>3
  <2>2. WithParents({n, "Isa"}) = {n, "Isa", "Root"} BY <1>1, <1>2, <1>3
  <2>3. WithParents({n, "Isa", "Root"}) = {n, "Isa", "Root"} BY <1>1, <1>2, <1>3
  <2> QED BY <2>1, <2>2, <2>3 DEF Path
<1>5. ASSUME NEW n \in PswTests PROVE Path(n) = {n, "Psw", "Root"}
  <2>1. WithParents({n}) = {n, "Psw"} BY <1>1, <1>2, <1>3
  <2>2. WithParents({n, "Psw"}) = {n, "Psw", "Root"} BY <1>1, <1>2, <1>3
  <2>3. WithParents({n, "Psw", "Root"}) = {n, "Psw", "Root"} BY <1>1, <1>2, <1>3
  <2> QED BY <2>1, <2>2, <2>3 DEF Path
<1>6. ASSUME NEW n \in Launchers PROVE Path(n) = {n, "RunEnclave", "Psw", "Root"}
  <2>1. WithParents({n}) = {n, "RunEnclave"} BY <1>1, <1>2, <1>3
  <2>2. WithParents({n, "RunEnclave"}) = {n, "RunEnclave", "Psw"} BY <1>1, <1>2, <1>3
  <2>3. WithParents({n, "RunEnclave", "Psw"}) = {n, "RunEnclave", "Psw", "Root"} BY <1>1, <1>2, <1>3
  <2> QED BY <2>1, <2>2, <2>3 DEF Path
<1>7. \A n : n \in Path(n) BY DEF Path, WithParents
<1> QED BY <1>4, <1>5, <1>6, <1>7

\* What can hide them.
LEMMA HiderIs ==
    ASSUME NEW e \in VisibilityEdges
    PROVE  /\ e.to \notin {"Root", "Isa", "Psw", "SgxCpuSupport", "DeviceLoader", "AesmService",
                           "RunEnclaveDebug"}
           /\ e.to = "SgxCpuConfiguration" => e.from = "SgxCpuSupport"
           /\ e.to \in {"EnclaveAttributes", "EnclavePageCache"} =>
                e.from \in {"SgxCpuSupport", "SgxCpuConfiguration"}
           /\ e.to = "RunEnclave" => e.from \in {"AnyLoader", "AnyTokenProvider"}
           /\ e.to = "RunEnclaveProdWl" => e.from = "RunEnclaveDebug"
  BY DEF VisibilityEdges, Edge

LEMMA AllItems == Tested \subseteq Items
<1>1. ASSUME NEW p \in DOMAIN Children, NEW c \in Children[p] PROVE c \in Items
  <2>1. Edge(c, p) \in Edges BY DEF Edges, OtherEdges
  <2> QED BY <2>1 DEF Items, Edge
<1>2. /\ Edge("AnyLoader", "RunEnclave") \in Edges /\ Edge("AnyTokenProvider", "RunEnclave") \in Edges
      /\ Edge("EnvTypeNotGeneric", "DataShield") \in Edges
  BY DEF Edges, VisibilityEdges
<1>3. "AnyLoader" \in Items /\ "AnyTokenProvider" \in Items /\ "EnvTypeNotGeneric" \in Items
  BY <1>2 DEF Items, Edge
<1>4. \A n \in Tested \ {"AnyLoader", "AnyTokenProvider", "EnvTypeNotGeneric"} :
        \E p \in DOMAIN Children : n \in Children[p]
  <2>1. \A p \in {"Root", "Isa", "SgxFeaturesCat", "Flc", "Psw", "RunEnclave", "DataShield",
                  "EnclaveOS"} : p \in DOMAIN Children
    BY DEF Children
  <2>2. \A n \in Tested \ {"AnyLoader", "AnyTokenProvider", "EnvTypeNotGeneric"} :
            \/ n \in Children["Root"] \/ n \in Children["Isa"] \/ n \in Children["SgxFeaturesCat"]
            \/ n \in Children["Flc"] \/ n \in Children["Psw"] \/ n \in Children["RunEnclave"]
            \/ n \in Children["DataShield"] \/ n \in Children["EnclaveOS"]
    BY DEF Children, Tested, Launchers
  <2> QED BY <2>1, <2>2
<1> QED BY <1>1, <1>3, <1>4

\* When all items were visited: what the statuses of the categories come from.
LEMMA StatusesAre ==
    ASSUME DetectInv, visited = Items
    PROVE  /\ Supported("Isa") \in Required /\ Supported("Psw") \in Required
           /\ Supported("Isa") = "Supported" <=> \A n \in IsaTests : Supported(n) = "Supported"
           /\ Supported("Psw") = "Supported" <=>
                /\ Supported("Flc") = "Supported" \/ Supported("AesmService") = "Supported"
                /\ Supported("DeviceLoader") = "Supported" \/ Supported("EncllibLoader") = "Supported"
                /\ Supported("RunEnclave") = "Supported"
           /\ Supported("RunEnclave") = "Supported" <=>
                /\ Supported("RunEnclaveDebug") = "Supported"
                /\ \/ Supported("RunEnclaveProd") = "Supported"
                   \/ Supported("RunEnclaveProdWl") = "Supported"
           /\ Supported("DataShield") = "Supported" <=>
                Supported("EnclaveOS") = "Supported" /\ Supported("EnclaveManager") = "Supported"
           /\ Supported("EnclaveOS") = "Supported" <=>
                Supported("GrapheneDevice") = "Supported" /\ Supported("PermDaemon") = "Supported"
           /\ Supported("AnyLoader") = "Supported" <=>
                Supported("DeviceLoader") = "Supported" \/ Supported("EncllibLoader") = "Supported"
           /\ Supported("AnyTokenProvider") = "Supported" <=>
                \/ Supported("FlcCpuConfiguration") = "Supported"
                \/ Supported("AesmService") = "Supported"
<1>1. \A m \in DOMAIN Copies : \A d \in Copies[m] : Saw(m, d) = Supported(d)
  BY CopiesFacts, AllItems DEF DetectInv, NothingStale, Saw
<1>2. \A d \in Tested \ {"Flc"} : Supported(d) \in Required
  BY StatusRequired DEF DetectInv, Supported
<1>3. /\ Saw("Isa", "SgxCpuSupport") = Supported("SgxCpuSupport")
      /\ Saw("Isa", "SgxCpuConfiguration") = Supported("SgxCpuConfiguration")
      /\ Saw("Isa", "EnclaveAttributes") = Supported("EnclaveAttributes")
      /\ Saw("Isa", "EnclavePageCache") = Supported("EnclavePageCache")
      /\ Saw("Psw", "Flc") = Supported("Flc") /\ Saw("Psw", "AesmService") = Supported("AesmService")
      /\ Saw("Psw", "DeviceLoader") = Supported("DeviceLoader")
      /\ Saw("Psw", "EncllibLoader") = Supported("EncllibLoader")
      /\ Saw("Psw", "RunEnclave") = Supported("RunEnclave")
  BY <1>1 DEF Copies, Children
<1>4. /\ Saw("RunEnclave", "RunEnclaveDebug") = Supported("RunEnclaveDebug")
      /\ Saw("RunEnclave", "RunEnclaveProd") = Supported("RunEnclaveProd")
      /\ Saw("RunEnclave", "RunEnclaveProdWl") = Supported("RunEnclaveProdWl")
      /\ Saw("DataShield", "EnclaveOS") = Supported("EnclaveOS")
      /\ Saw("DataShield", "EnclaveManager") = Supported("EnclaveManager")
      /\ Saw("EnclaveOS", "GrapheneDevice") = Supported("GrapheneDevice")
      /\ Saw("EnclaveOS", "PermDaemon") = Supported("PermDaemon")
      /\ Saw("AnyLoader", "DeviceLoader") = Supported("DeviceLoader")
      /\ Saw("AnyLoader", "EncllibLoader") = Supported("EncllibLoader")
      /\ Saw("AnyTokenProvider", "FlcCpuConfiguration") = Supported("FlcCpuConfiguration")
      /\ Saw("AnyTokenProvider", "AesmService") = Supported("AesmService")
  BY <1>1 DEF Copies, Children, Launchers
<1>5. /\ {"Isa", "Psw", "RunEnclave", "RunEnclaveDebug", "SgxCpuSupport", "SgxCpuConfiguration",
          "EnclaveAttributes", "EnclavePageCache", "EnclaveOS", "EnclaveManager",
          "GrapheneDevice", "PermDaemon"} \subseteq Tested \ {"Flc"}
  BY DEF Tested, Launchers
<1>6. /\ Supported("Isa") = IsaStatus /\ Supported("Psw") = PswStatus
      /\ Supported("RunEnclave") = RunEnclave /\ Supported("DataShield") = DataShieldStatus
      /\ Supported("EnclaveOS") = EnclaveOSStatus /\ Supported("AnyLoader") = AnyLoaderStatus
      /\ Supported("AnyTokenProvider") = AnyTokenProviderStatus
  BY StatusIs DEF Supported
<1>7. Supported("Isa") = "Supported" <=> \A n \in IsaTests : Supported(n) = "Supported"
  BY <1>2, <1>3, <1>5, <1>6, AndOr DEF IsaStatus, IsaTests, SgxItems
<1>8. Supported("Psw") = "Supported" <=>
                /\ Supported("Flc") = "Supported" \/ Supported("AesmService") = "Supported"
                /\ Supported("DeviceLoader") = "Supported" \/ Supported("EncllibLoader") = "Supported"
                /\ Supported("RunEnclave") = "Supported"
  BY <1>2, <1>3, <1>5, <1>6, AndOr DEF PswStatus
<1>9. Supported("RunEnclave") = "Supported" <=>
                /\ Supported("RunEnclaveDebug") = "Supported"
                /\ \/ Supported("RunEnclaveProd") = "Supported"
                   \/ Supported("RunEnclaveProdWl") = "Supported"
  BY <1>2, <1>4, <1>5, <1>6, AndOr DEF RunEnclave
<1>10. /\ Supported("DataShield") = "Supported" <=>
                Supported("EnclaveOS") = "Supported" /\ Supported("EnclaveManager") = "Supported"
       /\ Supported("EnclaveOS") = "Supported" <=>
                Supported("GrapheneDevice") = "Supported" /\ Supported("PermDaemon") = "Supported"
  BY <1>2, <1>4, <1>5, <1>6, AndOr DEF DataShieldStatus, EnclaveOSStatus
<1>11. /\ Supported("AnyLoader") = "Supported" <=>
                Supported("DeviceLoader") = "Supported" \/ Supported("EncllibLoader") = "Supported"
       /\ Supported("AnyTokenProvider") = "Supported" <=>
                \/ Supported("FlcCpuConfiguration") = "Supported"
                \/ Supported("AesmService") = "Supported"
  BY <1>4, <1>6, AndOr DEF AnyLoaderStatus, AnyTokenProviderStatus
<1> QED BY <1>2, <1>5, <1>7, <1>8, <1>9, <1>10, <1>11

\* What a test that is supported found.
LEMMA SupportedFound ==
    ASSUME DetectInv, visited = Items
    PROVE  /\ inner["SgxCpuSupport"] = Sgx7 /\ inner["SgxCpuConfiguration"] = SgxCpuConfigurationUpdate
           /\ inner["EnclaveAttributes"] = EnclaveAttributesUpdate
           /\ inner["EnclavePageCache"] = EnclavePageCacheUpdate
           /\ inner["AesmService"] = support.aesm /\ inner["DeviceLoader"] = support.dev
           /\ Supported("SgxCpuSupport") = "Supported" <=> Sgx7 = "sgx"
           /\ Supported("SgxCpuSupport") # "Supported" => Supported("SgxCpuSupport") = "Fatal"
           /\ Supported("SgxCpuConfiguration") = "Supported" => SgxCpuConfigurationUpdate = "ok"
           /\ Supported("EnclaveAttributes") = "Supported" => EnclaveAttributesUpdate = "ok"
           /\ Supported("EnclavePageCache") = "Supported" => EnclavePageCacheUpdate = "ok"
           /\ Supported("AesmService") = "Supported" <=> support.aesm = "ok"
           /\ Supported("DeviceLoader") = "Supported" <=> support.dev = "ok"
           /\ Supported("GrapheneDevice") = "Supported" => support.graphene = "ok"
           /\ Supported("PermDaemon") = "Supported" => support.perm = "ok"
           /\ Supported("EnclaveManager") = "Supported" => support.agent = "ok"
           /\ \A l \in Launchers : Supported(l) = "Supported" => success[l] = "ok"
<1>1. Leaves \subseteq visited
  <2>1. Leaves \subseteq Tested BY DEF Leaves, Tested
  <2> QED BY <2>1, AllItems
<1>2. \A n \in Leaves : inner[n] = Update(n) BY <1>1 DEF DetectInv, FoundInv
<1>3. /\ inner["SgxCpuSupport"] = Sgx7 /\ inner["AesmService"] = support.aesm
      /\ inner["DeviceLoader"] = support.dev /\ inner["GrapheneDevice"] = support.graphene
      /\ inner["PermDaemon"] = support.perm /\ inner["EnclaveManager"] = support.agent
  BY <1>2 DEF Leaves, Update
<1>4. \A m \in SgxItems : inner[m] = UpdateDependency(m, "SgxCpuSupport")
  BY <1>1 DEF Leaves, DetectInv, FoundInv
<1>5. /\ inner["SgxCpuConfiguration"] = SgxCpuConfigurationUpdate
      /\ inner["EnclaveAttributes"] = EnclaveAttributesUpdate
      /\ inner["EnclavePageCache"] = EnclavePageCacheUpdate
  BY <1>4 DEF SgxItems, UpdateDependency
<1>7. \A j : MapReq(j, {"ok"}) = "Supported" <=> j = "ok"
  <2> SUFFICES ASSUME NEW j PROVE MapReq(j, {"ok"}) = "Supported" <=> j = "ok" OBVIOUS
  <2>1. CASE j = "ok" BY <2>1 DEF MapReq, AsReq
  <2>2. CASE j # "ok" BY <2>2 DEF MapReq, AsReq
  <2> QED BY <2>1, <2>2
<1>8. /\ Supported("SgxCpuSupport") = "Supported" <=> Sgx7 = "sgx"
      /\ Supported("SgxCpuSupport") # "Supported" => Supported("SgxCpuSupport") = "Fatal"
  <2>1. Supported("SgxCpuSupport") = AsReq(Sgx7 = "sgx")
    BY <1>3, StatusIs DEF Supported, SgxCpuSupportStatus
  <2> QED BY <2>1 DEF AsReq
<1>9. /\ Supported("SgxCpuConfiguration") = MapReq(SgxCpuConfigurationUpdate, {"ok"})
      /\ Supported("EnclaveAttributes") = MapReq(EnclaveAttributesUpdate, {"ok"})
      /\ Supported("AesmService") = MapReq(support.aesm, {"ok"})
      /\ Supported("DeviceLoader") = MapReq(support.dev, {"ok"})
      /\ Supported("GrapheneDevice") = MapReq(support.graphene, {"ok"})
      /\ Supported("PermDaemon") = MapReq(support.perm, {"ok"})
      /\ Supported("EnclaveManager") = MapReq(support.agent, {"ok"})
  BY <1>3, <1>5, StatusIs DEF Supported, SgxCpuConfigurationStatus, EnclaveAttributesStatus,
     AesmServiceStatus, DeviceLoaderStatus, GrapheneDeviceStatus, PermDaemonStatus,
     EnclaveManagerStatus
<1>10. Supported("EnclavePageCache") = "Supported" => EnclavePageCacheUpdate = "ok"
  <2>1. Supported("EnclavePageCache") = EnclavePageCacheStatus(EnclavePageCacheUpdate)
    BY <1>5, StatusIs DEF Supported
  <2> QED BY <2>1 DEF EnclavePageCacheStatus
<1>11. ASSUME NEW l \in Launchers, Supported(l) = "Supported" PROVE success[l] = "ok"
  <2>1. Supported(l) = LauncherStatus(l) BY StatusIs DEF Supported
  <2> QED BY <2>1, <1>11 DEF LauncherStatus, AsReq
<1> QED BY <1>3, <1>5, <1>7, <1>8, <1>9, <1>10, <1>11
\* A test is shown unless one that is Fatal hides it or its category.
LEMMA ShownIf ==
    ASSUME DetectInv, NEW n, "Root" \in Path(n),
           \A e \in VisibilityEdges : e.to \in Path(n) => Supported(e.from) # "Fatal"
    PROVE  Shown(n)
  BY DEF Shown, DetectInv, Hiding

\* Of the tests that are not supported, the first has help.
LEMMA SomeHelp ==
    ASSUME DetectInv, visited = Items, support.dev # "test",
           Supported("Isa") # "Supported" \/ Supported("Psw") # "Supported"
    PROVE  \E n \in Helped : Debug(n) = "says"
<1>1. support \in Supports BY DEF DetectInv
<1>2. /\ "None" \notin {support.cpuid12, support.attr, support.epc, support.aesm, support.dev}
      /\ support.aesm # "test"
  BY <1>1, SupportsAssumption
<1>3. \A n \in IsaTests \union PswTests \union Launchers :
        /\ n \in Items /\ "Root" \in Path(n)
        /\ Supported(n) # "None"
  <2>1. IsaTests \union PswTests \union Launchers \subseteq Tested \ {"Flc"}
    BY DEF IsaTests, SgxItems, PswTests, Tested, Launchers
  <2>2. \A n \in Tested \ {"Flc"} : Supported(n) \in Required
    BY StatusRequired DEF DetectInv, Supported
  <2> QED BY <2>1, <2>2, AllItems, PathIs DEF Required
<1>4. ASSUME NEW n \in IsaTests \union PswTests \union Launchers, Supported(n) # "Supported",
             \A e \in VisibilityEdges : e.to \in Path(n) => Supported(e.from) # "Fatal",
             Debug(n) = "says"
      PROVE  \E m \in Helped : Debug(m) = "says"
  BY <1>3, <1>4, ShownIf DEF Helped
<1>5. CASE Supported("SgxCpuSupport") # "Supported"
  <2>1. Debug("SgxCpuSupport") = "says" BY DEF Debug, DebugSgxCpuSupport, Launchers
  <2>2. Path("SgxCpuSupport") = {"SgxCpuSupport", "Isa", "Root"} BY PathIs DEF IsaTests
  <2> QED BY <1>4, <1>5, <2>1, <2>2, HiderIs DEF IsaTests
<1>6. CASE Supported("SgxCpuSupport") = "Supported" /\ Supported("SgxCpuConfiguration") # "Supported"
  <2>1. Sgx7 = "sgx" BY <1>6, SupportedFound
  <2>2. inner["SgxCpuConfiguration"] # "None"
    BY <2>1, <1>2, SupportedFound DEF SgxCpuConfigurationUpdate
  <2>3. Debug("SgxCpuConfiguration") = "says"
    BY <2>2 DEF Debug, DebugSgxCpuConfiguration, Launchers
  <2>4. Path("SgxCpuConfiguration") = {"SgxCpuConfiguration", "Isa", "Root"}
    BY PathIs DEF IsaTests, SgxItems
  <2> QED BY <1>4, <1>6, <2>3, <2>4, HiderIs DEF IsaTests, SgxItems
<1>7. ASSUME Supported("SgxCpuSupport") = "Supported", Supported("SgxCpuConfiguration") = "Supported",
             NEW n \in {"EnclaveAttributes", "EnclavePageCache"}, Supported(n) # "Supported"
      PROVE  \E m \in Helped : Debug(m) = "says"
  <2>1. Sgx7 = "sgx" BY <1>7, SupportedFound
  <2>2. inner["EnclaveAttributes"] # "None" /\ inner["EnclavePageCache"] # "None"
    BY <2>1, <1>2, SupportedFound DEF EnclaveAttributesUpdate, EnclavePageCacheUpdate
  <2>3. Debug(n) = "says"
    BY <2>2 DEF Debug, DebugEnclaveAttributes, DebugEnclavePageCache, Launchers
  <2>4. n \in IsaTests /\ Path(n) = {n, "Isa", "Root"} BY PathIs DEF IsaTests, SgxItems
  <2> QED BY <1>4, <1>7, <2>3, <2>4, HiderIs
<1>8. ASSUME \A n \in IsaTests : Supported(n) = "Supported"
      PROVE  \E m \in Helped : Debug(m) = "says"
  <2>1. Supported("Psw") # "Supported" BY <1>8, StatusesAre
  <2>2. CASE Supported("DeviceLoader") # "Supported"
    <3>1. inner["DeviceLoader"] \notin {"None", "ok", "test"} BY <2>2, <1>2, SupportedFound
    <3>2. Debug("DeviceLoader") = "says" BY <3>1 DEF Debug, DebugDeviceLoader, Launchers
    <3>3. Path("DeviceLoader") = {"DeviceLoader", "Psw", "Root"} BY PathIs DEF PswTests
    <3> QED BY <1>4, <2>2, <3>2, <3>3, HiderIs DEF PswTests
  <2>3. CASE Supported("AesmService") # "Supported"
    <3>1. inner["AesmService"] \notin {"None", "ok", "test"} BY <2>3, <1>2, SupportedFound
    <3>2. Debug("AesmService") = "says" BY <3>1 DEF Debug, DebugAesmService, Launchers
    <3>3. Path("AesmService") = {"AesmService", "Psw", "Root"} BY PathIs DEF PswTests
    <3> QED BY <1>4, <2>3, <3>2, <3>3, HiderIs DEF PswTests
  <2>4. CASE Supported("DeviceLoader") = "Supported" /\ Supported("AesmService") = "Supported"
    <3>1. /\ Supported("RunEnclave") # "Supported" /\ Supported("AnyLoader") = "Supported"
          /\ Supported("AnyTokenProvider") = "Supported"
      BY <2>1, <2>4, StatusesAre
    <3>2. \A n \in Launchers : Debug(n) = "says" /\ Path(n) = {n, "RunEnclave", "Psw", "Root"}
      BY PathIs DEF Debug, DebugLauncher, Launchers
    <3>3. "RunEnclaveDebug" \in Launchers /\ "RunEnclaveProdWl" \in Launchers BY DEF Launchers
    <3>4. CASE Supported("RunEnclaveDebug") # "Supported"
      BY <1>4, <3>1, <3>2, <3>3, <3>4, HiderIs
    <3>5. CASE Supported("RunEnclaveDebug") = "Supported"
      <4>1. Supported("RunEnclaveProdWl") # "Supported" BY <3>1, <3>5, StatusesAre
      <4> QED BY <1>4, <3>1, <3>2, <3>3, <3>5, <4>1, HiderIs
    <3> QED BY <3>4, <3>5
  <2> QED BY <2>2, <2>3, <2>4
<1>9. CASE Supported("SgxCpuSupport") = "Supported" /\ Supported("SgxCpuConfiguration") = "Supported"
  <2>1. CASE Supported("EnclaveAttributes") = "Supported" /\ Supported("EnclavePageCache") = "Supported"
    BY <1>8, <1>9, <2>1 DEF IsaTests, SgxItems
  <2>2. CASE \E n \in {"EnclaveAttributes", "EnclavePageCache"} : Supported(n) # "Supported"
    BY <1>7, <1>9, <2>2
  <2> QED BY <2>1, <2>2
<1> QED BY <1>5, <1>6, <1>9

\* An item that has no value to explain is hidden.
LEMMA NoPanic ==
    ASSUME DetectInv, visited = Items, NEW n \in Helped
    PROVE  Debug(n) # "panics"
<1>1. support \in Supports BY DEF DetectInv
<1>2. "None" \notin {support.cpuid12, support.attr, support.epc, support.aesm, support.dev}
  BY <1>1, SupportsAssumption
<1>3. Supported(n) # "Supported" /\ Shown(n) BY DEF Helped
<1>4. CASE n = "SgxCpuConfiguration"
  <2>1. Edge("SgxCpuSupport", n) \in VisibilityEdges BY <1>4 DEF VisibilityEdges
  <2>2. Edge("SgxCpuSupport", n).to \in Path(n) BY PathIs DEF Edge
  <2>3. "SgxCpuSupport" \in Items /\ Edge("SgxCpuSupport", n).from = "SgxCpuSupport"
    BY AllItems DEF Tested, Edge
  <2>4. Supported("SgxCpuSupport") # "Fatal"
    BY <1>3, <2>1, <2>2, <2>3 DEF Shown, DetectInv, Hiding
  <2>5. Sgx7 = "sgx" BY <2>4, SupportedFound
  <2>6. inner["SgxCpuConfiguration"] # "None"
    BY <2>5, <1>2, SupportedFound DEF SgxCpuConfigurationUpdate
  <2> QED BY <1>4, <2>6 DEF Debug, DebugSgxCpuConfiguration, Launchers
<1>5. CASE n \in {"EnclaveAttributes", "EnclavePageCache"}
  <2>1. inner["EnclaveAttributes"] # "None" /\ inner["EnclavePageCache"] # "None"
    BY <1>2, SupportedFound DEF EnclaveAttributesUpdate, EnclavePageCacheUpdate
  <2> QED BY <1>5, <2>1 DEF Debug, DebugEnclaveAttributes, DebugEnclavePageCache, Launchers
<1>6. CASE n \in {"DeviceLoader", "AesmService"}
  <2>1. inner[n] \notin {"None", "ok"} BY <1>2, <1>3, <1>6, SupportedFound
  <2> QED BY <1>6, <2>1 DEF Debug, DebugDeviceLoader, DebugAesmService, Launchers
<1>7. CASE n \notin {"SgxCpuConfiguration", "EnclaveAttributes", "EnclavePageCache", "DeviceLoader",
                     "AesmService"}
  BY <1>7 DEF Debug, DebugSgxCpuSupport, DebugFlcCpuConfiguration, DebugLauncher, Launchers
<1> QED BY <1>4, <1>5, <1>6, <1>7

LEMMA ReportHelps == DetectInv /\ PrintReport => HelpSound'
<1> SUFFICES ASSUME DetectInv, PrintReport PROVE HelpSound' OBVIOUS
<1> DEFINE ready == And(Supported("Isa"), Supported("Psw"))
<1>1. /\ visited = Items /\ support' = support
      /\ report'.panics = {n \in Helped : Debug(n) = "panics"}
      /\ report'.help = {n \in Helped : Debug(n) = "says"}
      /\ report'.allSet <=> ready = "Supported"
  BY DEF PrintReport
<1>2. ready # "Supported" => Supported("Isa") # "Supported" \/ Supported("Psw") # "Supported"
  BY <1>1, StatusesAre, AndOr
<1> HIDE DEF ready
<1>3. report'.panics = {} BY <1>1, NoPanic
<1>4. ASSUME ~report'.allSet, support.dev # "test" PROVE report'.help # {}
  BY <1>1, <1>2, <1>4, SomeHelp
<1> QED BY <1>1, <1>3, <1>4 DEF HelpSound

LEMMA ReportTrue == DetectInv /\ PrintReport => AllSetMeansLaunched'
<1> SUFFICES ASSUME DetectInv, PrintReport, report'.allSet
             PROVE  /\ support.cpuid7 \in {"sgx", "lc"} /\ support.cpuid12 = "ok"
                    /\ support.attr = "ok" /\ support.epc = "ok"
                    /\ success["RunEnclaveDebug"] = "ok"
                    /\ "ok" \in {success["RunEnclaveProd"], success["RunEnclaveProdWl"]}
                    /\ report'.exit = 0 /\ support.env = "DataShield" =>
                            {support.graphene, support.perm, support.agent} = {"ok"}
  BY DEF PrintReport, AllSetMeansLaunched
<1> DEFINE ready == And(Supported("Isa"), Supported("Psw"))
<1>1. visited = Items /\ ready = "Supported" BY DEF PrintReport
<1>2. Supported("Isa") = "Supported" /\ Supported("Psw") = "Supported"
  BY <1>1, StatusesAre, AndOr
<1>3. \A n \in IsaTests : Supported(n) = "Supported" BY <1>1, <1>2, StatusesAre
<1>4. /\ Sgx7 = "sgx" /\ SgxCpuConfigurationUpdate = "ok" /\ EnclaveAttributesUpdate = "ok"
      /\ EnclavePageCacheUpdate = "ok"
  BY <1>1, <1>3, SupportedFound DEF IsaTests, SgxItems
<1>5. /\ support.cpuid7 \in {"sgx", "lc"} /\ support.cpuid12 = "ok"
      /\ support.attr = "ok" /\ support.epc = "ok"
  BY <1>4 DEF Sgx7, SgxCpuConfigurationUpdate, EnclaveAttributesUpdate, EnclavePageCacheUpdate
<1>6. /\ Supported("RunEnclaveDebug") = "Supported"
      /\ Supported("RunEnclaveProd") = "Supported" \/ Supported("RunEnclaveProdWl") = "Supported"
  BY <1>1, <1>2, StatusesAre
<1>7. /\ success["RunEnclaveDebug"] = "ok"
      /\ "ok" \in {success["RunEnclaveProd"], success["RunEnclaveProdWl"]}
  BY <1>1, <1>6, SupportedFound DEF Launchers
<1>8. ASSUME report'.exit = 0, support.env = "DataShield"
      PROVE  {support.graphene, support.perm, support.agent} = {"ok"}
  <2>1. And(ready, ForType) = "Supported" BY <1>8 DEF PrintReport
  <2>2. ForType = Supported("DataShield") BY <1>8 DEF ForType
  <2>3. Supported("DataShield") \in Required
    BY StatusRequired DEF DetectInv, Supported, Tested
  <2>4. ready \in Required BY <1>1 DEF Required
  <2>5. Supported("DataShield") = "Supported" BY <2>1, <2>2, <2>3, <2>4, AndOr
  <2>6. /\ Supported("GrapheneDevice") = "Supported" /\ Supported("PermDaemon") = "Supported"
        /\ Supported("EnclaveManager") = "Supported"
    BY <1>1, <2>5, StatusesAre
  <2> QED BY <1>1, <2>6, SupportedFound
<1> QED BY <1>5, <1>7, <1>8

-----------------------------------------------------------------------------
LEMMA DetectStutters ==
    UNCHANGED detectVars =>
        /\ DetectInv => DetectInv'
        /\ HelpSound => HelpSound'
        /\ AllSetMeansLaunched => AllSetMeansLaunched'
<1> SUFFICES ASSUME UNCHANGED detectVars
             PROVE  /\ DetectInv => DetectInv'
                    /\ HelpSound => HelpSound'
                    /\ AllSetMeansLaunched => AllSetMeansLaunched'
  OBVIOUS
<1> USE DEF detectVars
<1>1. \A n \in Tested : Supported(n)' = Supported(n) BY StatusSame DEF Supported
<1>2. NothingStale => NothingStale' BY <1>1, CopiesFacts DEF NothingStale
<1>3. Hiding' = Hiding BY <1>1, EdgeFacts DEF Hiding
<1>4. \A n : Update(n)' = Update(n) BY DEF Update, Sgx7
<1>5. \A m \in SgxItems : UpdateDependency(m, "SgxCpuSupport")' = UpdateDependency(m, "SgxCpuSupport")
  BY DEF SgxItems, UpdateDependency, SgxCpuConfigurationUpdate, EnclaveAttributesUpdate,
         EnclavePageCacheUpdate, Sgx7
<1>6. FoundInv => FoundInv' BY <1>4, <1>5 DEF FoundInv
<1>7. DetectInv => DetectInv' BY <1>2, <1>3, <1>6 DEF DetectInv, VisitedInv, CopiesInv
<1> QED BY <1>7 DEF HelpSound, AllSetMeansLaunched

\* What a report says is about the state that it was printed in, which is the last.
LEMMA DetectStep ==
    DetectInv /\ HelpSound /\ AllSetMeansLaunched /\ [DetectNext]_detectVars =>
        (DetectInv /\ HelpSound /\ AllSetMeansLaunched)'
<1> SUFFICES ASSUME DetectInv, HelpSound, AllSetMeansLaunched, [DetectNext]_detectVars
             PROVE  (DetectInv /\ HelpSound /\ AllSetMeansLaunched)'
  OBVIOUS
<1>1. ASSUME NEW n \in Items, Visit(n) PROVE (DetectInv /\ HelpSound /\ AllSetMeansLaunched)'
  <2>1. DetectInv' BY <1>1, VisitInv
  <2>2. n \notin visited /\ report' = report BY <1>1, VisitStep
  <2>3. ~report'.printed BY <2>2 DEF DetectInv
  <2> QED BY <2>1, <2>3 DEF HelpSound, AllSetMeansLaunched
<1>2. CASE PrintReport
  <2>1. HelpSound' /\ AllSetMeansLaunched' BY <1>2, ReportHelps, ReportTrue
  <2>2. /\ UNCHANGED <<support, inner, seen, success, timedout, visited, hidden>>
        /\ visited = Items
    BY <1>2 DEF PrintReport
  <2>3. \A n \in Tested : Supported(n)' = Supported(n) BY <2>2, StatusSame DEF Supported
  <2>4. NothingStale' BY <2>2, <2>3, CopiesFacts DEF DetectInv, NothingStale
  <2>5. Hiding' = Hiding BY <2>2, <2>3, EdgeFacts DEF Hiding
  <2>6. \A n : Update(n)' = Update(n) BY <2>2 DEF Update, Sgx7
  <2>7. \A m \in SgxItems :
          UpdateDependency(m, "SgxCpuSupport")' = UpdateDependency(m, "SgxCpuSupport")
    BY <2>2 DEF SgxItems, UpdateDependency, SgxCpuConfigurationUpdate, EnclaveAttributesUpdate,
                EnclavePageCacheUpdate, Sgx7
  <2>8. FoundInv' BY <2>2, <2>6, <2>7 DEF DetectInv, FoundInv
  <2>9. DetectInv' BY <2>2, <2>4, <2>5, <2>8 DEF DetectInv, VisitedInv, CopiesInv
  <2> QED BY <2>1, <2>9
<1>3. CASE UNCHANGED detectVars BY <1>3, DetectStutters
<1> QED BY <1>1, <1>2, <1>3 DEF DetectNext

LEMMA DetectStart == DetectInit => DetectInv /\ HelpSound /\ AllSetMeansLaunched
  BY DetectInitInv DEF DetectInit, HelpSound, AllSetMeansLaunched

\* Whatever a system has and in whatever order the items are visited: an item keeps
\* copies of statuses that are true, hidden are the dependents of the items that are
\* Fatal, and the items have what was found (Tests::check_support).
THEOREM DetectInvariance == DetectSpec => []DetectInv
  BY DetectStart, DetectStep, PTL DEF DetectSpec

\* The status that an item copied from a dependency that was visited is its status
\* (tests/mod.rs, update_dependency): the report is about one state of the system.
THEOREM NothingIsStale == DetectSpec => []NothingStale
<1>1. DetectInv => NothingStale BY DEF DetectInv
<1> QED BY <1>1, DetectInvariance, PTL

\* The help of no item that is printed panics, and a user who is not told that all
\* is set is told what to do about some item (Tests::print, debug.rs).
THEOREM HelpIsSound == DetectSpec => []HelpSound
  BY DetectStart, DetectStep, PTL DEF DetectSpec

\* "You're all set" means that the processor is in order and enclaves were launched
\* (Tests::print).
THEOREM AllSetIsTrue == DetectSpec => []AllSetMeansLaunched
  BY DetectStart, DetectStep, PTL DEF DetectSpec
=============================================================================
