------------------------- MODULE EnclaveLoadProofs --------------------------
(***************************************************************************)
(* Proofs about EnclaveLoad, for any number of loads and any size of the   *)
(* enclaves: address ranges are neither leaked nor taken away, what is     *)
(* returned was initialized and is mapped as its pages say, and a stale    *)
(* token does not fail a load.                                             *)
(***************************************************************************)
EXTENDS EnclaveLoad, TLAPS

Drivers == {"Montgomery", "Augusta", "common", "enclaveapi"}
Tokens == {"none", "stale", "good"}
Phases == {"idle", "token", "aesm", "create", "pages", "init", "retry", "loaded"}
Results == {"none", "ok", "error", "panicked", "no_signature", "no_token", "bad_token"}
Perms == {"R", "W", "X"}
Holders == 0 .. MaxOffset + 1
EnclaveSet ==
    [range : BOOLEAN, pages : Seq([page : Pages, offset : Offsets]),
     mapped : [Offsets -> SUBSET (Perms \union {"reserved"})], init : BOOLEAN,
     tcss : SUBSET Offsets, held : SUBSET Holders]

LoadTypeOK ==
    /\ driver \in Drivers
    /\ provider \in {"none", "aesm", "caching"}
    /\ cache \in Tokens
    /\ phase \in Phases
    /\ token \in Tokens
    /\ noToken \in BOOLEAN
    /\ enclaves \in Seq(EnclaveSet)
    /\ pending \in [prot : SUBSET Perms, start : Nat, end : Nat]
    /\ result \in Results
    /\ calls \in Nat

-----------------------------------------------------------------------------
(***************************************************************************)
(* Invariants                                                              *)
(***************************************************************************)
Busy == {"pages", "init", "retry"}

\* The mappings m are those that the pages ask for, and no others.
MapsAs(m, pages) ==
    /\ \A i \in 1 .. Len(pages) : m[pages[i].offset] = Prot(pages[i].page)
    /\ \A o \in Offsets :
        (\A i \in 1 .. Len(pages) : pages[i].offset # o) => m[o] = {"reserved"}

\* While an enclave is being loaded only the load holds it, so that the load
\* alone decides about its range.
BusyInv == phase \in Busy => Cur \in Nat \ {0} /\ Mapping.range /\ Mapping.held = {HeldByLoad}

\* What is mapped lags behind the pages by what is pending, which ends with the
\* last page that was added.
PendingInv ==
    /\ phase = "pages" /\ driver = "Augusta" =>
        /\ MapsAs(Map(Mapping.mapped, pending), Mapping.pages)
        /\ pending.start <= pending.end
        /\ \A i \in 1 .. Len(Mapping.pages) : Mapping.pages[i].offset < pending.end
    /\ phase # "pages" => pending = NoPending
MappedInv ==
    phase \in {"init", "retry"} /\ driver = "Augusta" => MapsAs(Mapping.mapped, Mapping.pages)

\* phase is "loaded" only between Device::load and the rest of EnclaveBuilder.
LoadedInv == phase = "loaded" => Cur \in Nat \ {0}

Returned(x) == x.held # {} /\ HeldByLoad \notin x.held
Ready(x) ==
    Returned(x) =>
        /\ x.init \/ driver = "enclaveapi"
        /\ driver = "Augusta" => MapsAs(x.mapped, x.pages)
ReadyInv == \A e \in 1 .. Cur : Ready(enclaves[e])

LoadInv ==
    /\ LoadTypeOK /\ BusyInv /\ PendingInv /\ MappedInv /\ LoadedInv
    /\ RangeHeld /\ ReadyInv /\ StaleTokenReplaced

-----------------------------------------------------------------------------
(***************************************************************************)
(* Lemmas about the operators                                              *)
(***************************************************************************)
LEMMA HolderFacts ==
    /\ HeldByLoad \in Holders /\ HeldByInfo \in Holders /\ HeldByLoad # HeldByInfo
    /\ \A o \in Offsets : o \in Nat /\ o \in Holders /\ o # HeldByLoad /\ o # HeldByInfo
BY LoadBounds DEF HeldByLoad, HeldByInfo, Holders, Offsets

LEMMA PageFacts == \A p \in Pages : p.type \in {"Reg", "Tcs", "Trim"} /\ Prot(p) \subseteq Perms
BY DEF Pages, Page, Prot, Perms

LEMMA GoneFacts ==
    /\ Gone \in EnclaveSet /\ NewEnclave \in EnclaveSet
    /\ Gone.held = {} /\ Gone.range = FALSE
    /\ NewEnclave.held = {HeldByLoad} /\ NewEnclave.range = TRUE
    /\ NewEnclave.pages = <<>> /\ NewEnclave.mapped = Unmapped
<1>1. Unmapped \in [Offsets -> SUBSET (Perms \union {"reserved"})]
    BY DEF Unmapped
<1>2. <<>> \in Seq([page : Pages, offset : Offsets])
    OBVIOUS
<1>3. NewEnclave \in EnclaveSet
    BY <1>1, <1>2, HolderFacts DEF NewEnclave, EnclaveSet
<1> QED
    BY <1>3 DEF NewEnclave, Gone, EnclaveSet

\* A step that gives one enclave a new value.
LEMMA OneChanged ==
    ASSUME enclaves \in Seq(EnclaveSet), NEW e \in 1 .. Cur, NEW x \in EnclaveSet,
           enclaves' = [enclaves EXCEPT ![e] = x]
    PROVE  /\ enclaves' \in Seq(EnclaveSet)
           /\ Cur' = Cur
           /\ enclaves'[e] = x
           /\ \A f \in 1 .. Cur : f # e => enclaves'[f] = enclaves[f]
BY DEF Cur

LEMMA OneAdded ==
    ASSUME enclaves \in Seq(EnclaveSet), NEW x \in EnclaveSet, enclaves' = Append(enclaves, x)
    PROVE  /\ enclaves' \in Seq(EnclaveSet)
           /\ Cur \in Nat /\ Cur' = Cur + 1
           /\ enclaves'[Cur + 1] = x
           /\ \A f \in 1 .. Cur : enclaves'[f] = enclaves[f]
BY DEF Cur

LEMMA AppendFacts ==
    ASSUME NEW S, NEW q \in Seq(S), NEW x \in S
    PROVE  /\ Append(q, x) \in Seq(S)
           /\ Len(q) \in Nat /\ Len(Append(q, x)) = Len(q) + 1
           /\ Append(q, x)[Len(q) + 1] = x
           /\ \A i \in 1 .. Len(q) : Append(q, x)[i] = q[i] /\ q[i] \in S
OBVIOUS

\* What Release leaves: nothing, or the other holders.
LEMMA ReleaseFacts ==
    ASSUME LoadTypeOK, NEW e \in 1 .. Cur, NEW w \in Holders, Release(e, {w})
    PROVE  \E x \in EnclaveSet :
            /\ enclaves' = [enclaves EXCEPT ![e] = x]
            /\ \/ enclaves[e].held = {w} /\ x = Gone
               \/ /\ enclaves[e].held # {w}
                  /\ x.held = enclaves[e].held \ {w}
                  /\ x.range = enclaves[e].range /\ x.init = enclaves[e].init
                  /\ x.mapped = enclaves[e].mapped /\ x.pages = enclaves[e].pages
<1> DEFINE y == [enclaves[e] EXCEPT !.held = enclaves[e].held \ {w}]
           x == IF enclaves[e].held = {w} THEN Gone ELSE y
<1>1. enclaves[e] \in EnclaveSet
    BY DEF LoadTypeOK, Cur
<1>2. /\ y \in EnclaveSet
      /\ y.held = enclaves[e].held \ {w}
      /\ y.range = enclaves[e].range /\ y.init = enclaves[e].init
      /\ y.mapped = enclaves[e].mapped /\ y.pages = enclaves[e].pages
    BY <1>1 DEF EnclaveSet
<1>3. enclaves' = [enclaves EXCEPT ![e] = x]
    BY DEF Release
<1> HIDE DEF y
<1> QED
    BY <1>2, <1>3, GoneFacts

\* The range stays as long as somebody else holds it, and whoever has a
\* reference of an enclave finds it as it was.
LEMMA ReleaseKeeps ==
    ASSUME LoadTypeOK, RangeHeld, ReadyInv, NEW e \in 1 .. Cur, NEW w \in Holders,
           Release(e, {w}), w = HeldByLoad => enclaves[e].held = {w}, driver' = driver
    PROVE  /\ enclaves' \in Seq(EnclaveSet) /\ Cur' = Cur
           /\ RangeHeld' /\ ReadyInv'
           /\ \A f \in 1 .. Cur : f # e => enclaves'[f] = enclaves[f]
<1>1. PICK x \in EnclaveSet :
            /\ enclaves' = [enclaves EXCEPT ![e] = x]
            /\ \/ enclaves[e].held = {w} /\ x = Gone
               \/ /\ enclaves[e].held # {w}
                  /\ x.held = enclaves[e].held \ {w}
                  /\ x.range = enclaves[e].range /\ x.init = enclaves[e].init
                  /\ x.mapped = enclaves[e].mapped /\ x.pages = enclaves[e].pages
    BY ReleaseFacts
<1>2. /\ enclaves' \in Seq(EnclaveSet) /\ Cur' = Cur /\ enclaves'[e] = x
      /\ \A f \in 1 .. Cur : f # e => enclaves'[f] = enclaves[f]
    BY <1>1, OneChanged DEF LoadTypeOK
<1>3. x.range <=> x.held # {}
    BY <1>1, GoneFacts DEF RangeHeld
<1>4. RangeHeld'
    BY <1>2, <1>3 DEF RangeHeld
<1>5. Ready(x)
    BY <1>1, GoneFacts DEF ReadyInv, Ready, Returned
<1>6. ReadyInv'
    BY <1>2, <1>5 DEF ReadyInv, Ready
<1> QED
    BY <1>2, <1>4, <1>6

\* A load that fails gives the range back, whatever it had done.
LEMMA FailStep ==
    ASSUME LoadInv, NEW res \in Results, Fail(res), UNCHANGED <<driver, provider, calls>>,
           token' \in Tokens, cache' \in Tokens, noToken' \in BOOLEAN,
           res = "bad_token" /\ provider = "caching" /\ driver # "common" => token' = "good"
    PROVE  LoadInv'
<1>1. phase' = "idle" /\ result' = res /\ pending' = NoPending
    BY DEF Fail
<1>2. enclaves' \in Seq(EnclaveSet) /\ RangeHeld' /\ ReadyInv'
    <2>1. CASE phase \in Busy
        <3>1. Cur \in 1 .. Cur /\ Mapping.held = {HeldByLoad} /\ Release(Cur, {HeldByLoad})
            BY <2>1 DEF LoadInv, BusyInv, Busy, Fail
        <3> QED
            BY <3>1, ReleaseKeeps, HolderFacts DEF LoadInv, Mapping
    <2>2. CASE phase \notin Busy
        BY <2>2 DEF LoadInv, LoadTypeOK, Fail, Busy, RangeHeld, ReadyInv, Ready, Cur
    <2> QED
        BY <2>1, <2>2
<1>3. LoadTypeOK'
    BY <1>1, <1>2 DEF LoadInv, LoadTypeOK, NoPending, Phases
<1> QED
    BY <1>1, <1>2, <1>3 DEF LoadInv, BusyInv, Busy, PendingInv, MappedInv, LoadedInv,
                            StaleTokenReplaced

\* A step that is about tokens only.
LEMMA TokenStep ==
    ASSUME LoadInv, UNCHANGED <<driver, provider, enclaves, pending, result>>,
           token' \in Tokens, cache' \in Tokens, noToken' \in BOOLEAN, calls' \in Nat,
           \/ phase # "pages" /\ phase' \in {"token", "aesm", "create"}
           \/ phase' = phase /\ token' = token
    PROVE  LoadInv'
<1>1. LoadTypeOK'
    BY DEF LoadInv, LoadTypeOK, Phases
<1>2. RangeHeld' /\ ReadyInv'
    BY DEF LoadInv, RangeHeld, ReadyInv, Ready, Cur
<1>3. BusyInv' /\ PendingInv' /\ MappedInv' /\ LoadedInv' /\ StaleTokenReplaced'
    BY DEF LoadInv, BusyInv, Busy, PendingInv, MappedInv, LoadedInv, Mapping, Cur,
           StaleTokenReplaced
<1> QED
    BY <1>1, <1>2, <1>3 DEF LoadInv

LEMMA LoadInit == Init => LoadInv
<1> SUFFICES ASSUME Init PROVE LoadInv
    OBVIOUS
<1>1. LoadTypeOK
    <2>1. driver \in Drivers /\ cache \in Tokens
        BY DEF Init, Drivers, Tokens
    <2>2. enclaves \in Seq(EnclaveSet) /\ pending \in [prot : SUBSET Perms, start : Nat, end : Nat]
        BY DEF Init, NoPending
    <2> QED
        BY <2>1, <2>2 DEF Init, LoadTypeOK, Tokens, Phases, Results
<1>2. Cur = 0
    BY DEF Init, Cur
<1> QED
    BY <1>1, <1>2 DEF Init, LoadInv, BusyInv, Busy, PendingInv, MappedInv, LoadedInv,
                      RangeHeld, ReadyInv, StaleTokenReplaced

-----------------------------------------------------------------------------
(***************************************************************************)
(* The steps                                                               *)
(***************************************************************************)
LEMMA BuildStep ==
    ASSUME LoadInv, NEW args \in BOOLEAN, NEW library \in BOOLEAN, NEW signed \in BOOLEAN,
           Build(args, library, signed)
    PROVE  LoadInv'
<1>1. /\ token' \in Tokens /\ cache' \in Tokens /\ noToken' \in BOOLEAN
      /\ UNCHANGED <<driver, provider, calls>>
    BY DEF Build, confVars, LoadInv, LoadTypeOK, Tokens
<1>2. ASSUME NEW res \in {"panicked", "no_signature"}, Fail(res) PROVE LoadInv'
    BY <1>1, <1>2, FailStep DEF Results
<1>3. CASE phase' = "token" /\ result' = "none" /\ UNCHANGED <<enclaves, pending>>
    <2>1. LoadTypeOK'
        BY <1>1, <1>3 DEF LoadInv, LoadTypeOK, Phases, Results
    <2>2. RangeHeld' /\ ReadyInv'
        BY <1>1, <1>3 DEF LoadInv, RangeHeld, ReadyInv, Ready, Cur
    <2>3. pending' = NoPending
        BY <1>3 DEF Build, LoadInv, PendingInv
    <2> QED
        BY <1>3, <2>1, <2>2, <2>3 DEF LoadInv, BusyInv, Busy, PendingInv, MappedInv, LoadedInv,
                                StaleTokenReplaced
<1> QED
    BY <1>2, <1>3 DEF Build

LEMMA GetTokenStep == LoadInv /\ (GetToken \/ TokenFromAesm) => LoadInv'
<1> SUFFICES ASSUME LoadInv, GetToken \/ TokenFromAesm PROVE LoadInv'
    OBVIOUS
<1>1. CASE GetToken
    <2>1. /\ UNCHANGED <<driver, provider, enclaves, pending, result, calls>>
          /\ phase = "token" /\ phase' \in {"aesm", "create"}
        BY <1>1 DEF GetToken, confVars
    <2>2. token' \in Tokens /\ cache' \in Tokens /\ noToken' \in BOOLEAN
        BY <1>1 DEF GetToken, LoadInv, LoadTypeOK, Tokens
    <2> QED
        BY <2>1, <2>2, TokenStep DEF LoadInv, LoadTypeOK
<1>2. CASE TokenFromAesm
    <2>1. /\ UNCHANGED <<driver, provider, cache, enclaves, pending, result, calls>>
          /\ phase = "aesm" /\ phase' = "create"
        BY <1>2 DEF TokenFromAesm, confVars
    <2>2. token' \in Tokens /\ noToken' \in BOOLEAN
        BY <1>2 DEF TokenFromAesm, Tokens
    <2> QED
        BY <2>1, <2>2, TokenStep DEF LoadInv, LoadTypeOK
<1> QED
    BY <1>1, <1>2

LEMMA CreateFailsStep == LoadInv /\ (CreateFails \/ ReadFails) => LoadInv'
<1> SUFFICES ASSUME LoadInv, CreateFails \/ ReadFails PROVE LoadInv'
    OBVIOUS
<1>1. PICK res \in {"error", "panicked"} : Fail(res)
    BY DEF CreateFails, ReadFails
<1>2. UNCHANGED <<driver, provider, cache, token, noToken, calls>>
    BY DEF CreateFails, ReadFails, confVars
<1> QED
    BY <1>1, <1>2, FailStep DEF LoadInv, LoadTypeOK, Results

LEMMA CreateStep == ASSUME LoadInv, NEW ok \in BOOLEAN, Create(ok) PROVE LoadInv'
<1>1. UNCHANGED <<driver, provider, cache, token, noToken, pending, calls>> /\ phase = "create"
    BY DEF Create, confVars
<1>2. PICK x \in {NewEnclave, Gone} : enclaves' = Append(enclaves, x)
    BY DEF Create
<1>3. /\ enclaves' \in Seq(EnclaveSet)
      /\ Cur \in Nat /\ Cur' = Cur + 1
      /\ enclaves'[Cur + 1] = x
      /\ \A f \in 1 .. Cur : enclaves'[f] = enclaves[f]
    BY <1>2, OneAdded, GoneFacts DEF LoadInv, LoadTypeOK
<1>4. (x.range <=> x.held # {}) /\ ~Returned(x)
    BY <1>2, GoneFacts DEF Returned
<1>5. \A f \in 1 .. Cur' : f = Cur + 1 \/ f \in 1 .. Cur
    BY <1>3
<1>6. RangeHeld'
    BY <1>3, <1>4, <1>5 DEF LoadInv, RangeHeld
<1>7. ReadyInv'
    BY <1>1, <1>3, <1>4, <1>5 DEF LoadInv, ReadyInv, Ready
<1>8. CASE ok
    <2>1. phase' = "pages" /\ result' = result /\ enclaves' = Append(enclaves, NewEnclave)
        BY <1>8 DEF Create
    <2>2. Mapping' = NewEnclave
        BY <1>3, <2>1, OneAdded, GoneFacts DEF Mapping, LoadInv, LoadTypeOK
    <2>3. LoadTypeOK'
        BY <1>1, <1>3, <2>1 DEF LoadInv, LoadTypeOK, Phases
    <2>4. BusyInv'
        BY <1>3, <2>2, GoneFacts DEF BusyInv
    <2>5. PendingInv'
        <3>1. pending' = NoPending
            BY <1>1 DEF LoadInv, PendingInv
        <3>2. Map(Unmapped, NoPending) = Unmapped
            BY HolderFacts DEF Map, Unmapped, NoPending
        <3>3. MapsAs(Unmapped, <<>>)
            BY DEF MapsAs, Unmapped
        <3> QED
            BY <2>1, <2>2, <3>1, <3>2, <3>3, GoneFacts DEF PendingInv, NoPending
    <2> QED
        BY <1>6, <1>7, <2>1, <2>3, <2>4, <2>5 DEF LoadInv, MappedInv, LoadedInv, StaleTokenReplaced
<1>9. CASE ~ok
    <2>1. phase' = "idle" /\ result' = "error"
        BY <1>9 DEF Create
    <2>2. LoadTypeOK'
        BY <1>1, <1>3, <2>1 DEF LoadInv, LoadTypeOK, Phases, Results
    <2>3. pending' = NoPending
        BY <1>1 DEF LoadInv, PendingInv
    <2> QED
        BY <1>6, <1>7, <2>1, <2>2, <2>3 DEF LoadInv, BusyInv, Busy, PendingInv, MappedInv, LoadedInv,
                                      StaleTokenReplaced
<1> QED
    BY <1>8, <1>9

\* A step that gives the enclave being loaded a new value, which is not in
\* anybody else's hands before and after.
LEMMA CurChanged ==
    ASSUME LoadInv, phase \in Busy, NEW x \in EnclaveSet,
           enclaves' = [enclaves EXCEPT ![Cur] = x], driver' = driver,
           x.range, x.held # {}, Ready(x)
    PROVE  /\ enclaves' \in Seq(EnclaveSet) /\ Cur' = Cur /\ Mapping' = x
           /\ Cur' \in Nat \ {0}
           /\ RangeHeld' /\ ReadyInv'
<1>1. Cur \in 1 .. Cur /\ Cur \in Nat \ {0}
    BY DEF LoadInv, BusyInv
<1>2. /\ enclaves' \in Seq(EnclaveSet) /\ Cur' = Cur /\ enclaves'[Cur] = x
      /\ \A f \in 1 .. Cur : f # Cur => enclaves'[f] = enclaves[f]
    BY <1>1, OneChanged DEF LoadInv, LoadTypeOK
<1>3. RangeHeld'
    BY <1>2 DEF LoadInv, RangeHeld
<1>4. ReadyInv'
    BY <1>2 DEF LoadInv, ReadyInv, Ready
<1> QED
    BY <1>1, <1>2, <1>3, <1>4 DEF Mapping

\* The page after the others grows the pending mapping, if it has the same
\* protection and is next to it ...
LEMMA GrownMaps ==
    ASSUME NEW m \in [Offsets -> SUBSET (Perms \union {"reserved"})],
           NEW q \in [prot : SUBSET Perms, start : Nat, end : Nat],
           NEW pages \in Seq([page : Pages, offset : Offsets]),
           NEW p \in Pages, NEW o \in Offsets,
           \A i \in 1 .. Len(pages) : pages[i].offset < o,
           q.start <= q.end, q.end = o, q.prot = Prot(p),
           MapsAs(Map(m, q), pages)
    PROVE  MapsAs(Map(m, [q EXCEPT !.end = o + 1]), Append(pages, [page |-> p, offset |-> o]))
<1> DEFINE n == Map(m, q)
           k == Map(m, [q EXCEPT !.end = o + 1])
           new == Append(pages, [page |-> p, offset |-> o])
<1>0. o \in Nat /\ q.start \in Nat /\ q.end \in Nat
    BY HolderFacts
<1>1. k[o] = Prot(p)
    BY <1>0 DEF Map
<1>2. ASSUME NEW a \in Offsets, a # o PROVE k[a] = n[a]
    BY <1>0, <1>2, HolderFacts DEF Map
<1>3. Len(new) = Len(pages) + 1 /\ Len(pages) \in Nat
    OBVIOUS
<1>4. new[Len(pages) + 1] = [page |-> p, offset |-> o]
    OBVIOUS
<1>5. \A i \in 1 .. Len(pages) :
            new[i] = pages[i] /\ pages[i].offset \in Offsets /\ pages[i].offset # o
    <2> SUFFICES ASSUME NEW i \in 1 .. Len(pages)
                 PROVE  new[i] = pages[i] /\ pages[i].offset \in Offsets /\ pages[i].offset # o
        OBVIOUS
    <2>1. new[i] = pages[i] /\ pages[i] \in [page : Pages, offset : Offsets]
        <3> DEFINE S == [page : Pages, offset : Offsets]
        <3>1. pages \in Seq(S) /\ [page |-> p, offset |-> o] \in S
            OBVIOUS
        <3> HIDE DEF S
        <3>2. new[i] = pages[i] /\ pages[i] \in S
            BY <3>1, AppendFacts
        <3> QED
            BY <3>2 DEF S
    <2>2. pages[i].offset < o /\ pages[i].offset \in Nat
        BY <2>1, HolderFacts
    <2> QED
        BY <1>0, <2>1, <2>2
<1> HIDE DEF n, k, new
<1>6. \A i \in 1 .. Len(new) : k[new[i].offset] = Prot(new[i].page)
    <2> SUFFICES ASSUME NEW i \in 1 .. Len(new) PROVE k[new[i].offset] = Prot(new[i].page)
        OBVIOUS
    <2>1. CASE i = Len(pages) + 1
        BY <1>1, <1>4, <2>1
    <2>2. CASE i \in 1 .. Len(pages)
        BY <1>2, <1>5, <2>2 DEF MapsAs, n
    <2> QED
        BY <1>3, <2>1, <2>2
<1>7. ASSUME NEW a \in Offsets, \A i \in 1 .. Len(new) : new[i].offset # a
      PROVE  k[a] = {"reserved"}
    <2>1. a # o
        BY <1>3, <1>4, <1>7
    <2>2. \A i \in 1 .. Len(pages) : pages[i].offset # a
        BY <1>3, <1>5, <1>7
    <2> QED
        BY <1>2, <2>1, <2>2 DEF MapsAs, n
<1> QED
    BY <1>6, <1>7 DEF MapsAs, k, new

\* ... and otherwise begins another one after the pending one was mapped.
LEMMA NewMaps ==
    ASSUME NEW m \in [Offsets -> SUBSET (Perms \union {"reserved"})],
           NEW pages \in Seq([page : Pages, offset : Offsets]),
           NEW p \in Pages, NEW o \in Offsets,
           \A i \in 1 .. Len(pages) : pages[i].offset < o,
           MapsAs(m, pages)
    PROVE  MapsAs(Map(m, [prot |-> Prot(p), start |-> o, end |-> o + 1]),
                  Append(pages, [page |-> p, offset |-> o]))
<1> DEFINE q == [prot |-> Prot(p), start |-> o, end |-> o]
<1>1. q \in [prot : SUBSET Perms, start : Nat, end : Nat]
    BY HolderFacts, PageFacts
<1>2. Map(m, q) = m
    BY HolderFacts DEF Map
<1>3. [q EXCEPT !.end = o + 1] = [prot |-> Prot(p), start |-> o, end |-> o + 1]
    OBVIOUS
<1>4. q.start <= q.end /\ q.end = o /\ q.prot = Prot(p)
    BY HolderFacts
<1> HIDE DEF q
<1> QED
    BY <1>1, <1>2, <1>3, <1>4, GrownMaps

LEMMA AddPageStep ==
    ASSUME LoadInv, NEW p \in Pages, NEW o \in Offsets, phase = "pages",
           \A i \in 1 .. Len(Mapping.pages) : Mapping.pages[i].offset < o, AddPage(p, o),
           UNCHANGED <<driver, provider, cache, token, noToken, phase, result, calls>>
    PROVE  LoadInv'
<1> DEFINE added == [Mapping EXCEPT !.pages = Append(Mapping.pages, [page |-> p, offset |-> o]),
                                    !.tcss = Mapping.tcss \union IF p.type = "Tcs" THEN {o} ELSE {}]
           flushed == [added EXCEPT !.mapped = Map(Mapping.mapped, pending)]
           x == IF driver # "Augusta" \/ Appends(pending, p, o) THEN added ELSE flushed
<1>1. /\ Mapping \in EnclaveSet /\ Mapping.range /\ Mapping.held = {HeldByLoad}
      /\ pending \in [prot : SUBSET Perms, start : Nat, end : Nat]
    BY DEF LoadInv, LoadTypeOK, BusyInv, Busy, Mapping, Cur
<1>2. /\ Mapping.mapped \in [Offsets -> SUBSET (Perms \union {"reserved"})]
      /\ Mapping.pages \in Seq([page : Pages, offset : Offsets])
      /\ Mapping.tcss \in SUBSET Offsets
    BY <1>1 DEF EnclaveSet
<1>3. Map(Mapping.mapped, pending) \in [Offsets -> SUBSET (Perms \union {"reserved"})]
    BY <1>1, <1>2 DEF Map
<1>4. Append(Mapping.pages, [page |-> p, offset |-> o]) \in Seq([page : Pages, offset : Offsets])
    BY <1>2
<1>5. /\ added \in EnclaveSet /\ added.range /\ added.held = {HeldByLoad}
      /\ added.mapped = Mapping.mapped
      /\ added.pages = Append(Mapping.pages, [page |-> p, offset |-> o])
    BY <1>1, <1>2, <1>4 DEF EnclaveSet
<1>6. enclaves' = [enclaves EXCEPT ![Cur] = x]
    BY DEF AddPage
<1> HIDE DEF added
<1>7. /\ flushed \in EnclaveSet /\ flushed.range /\ flushed.held = {HeldByLoad}
      /\ flushed.mapped = Map(Mapping.mapped, pending)
      /\ flushed.pages = Append(Mapping.pages, [page |-> p, offset |-> o])
    BY <1>3, <1>5 DEF EnclaveSet
<1> HIDE DEF flushed
<1>8. /\ x \in EnclaveSet /\ x.range /\ x.held = {HeldByLoad}
      /\ x.pages = Append(Mapping.pages, [page |-> p, offset |-> o])
    BY <1>5, <1>7
<1>9. /\ enclaves' \in Seq(EnclaveSet) /\ Cur' = Cur /\ Mapping' = x
      /\ Cur' \in Nat \ {0} /\ RangeHeld' /\ ReadyInv'
    BY <1>6, <1>8, CurChanged DEF Busy, Ready, Returned
<1>10. pending' \in [prot : SUBSET Perms, start : Nat, end : Nat]
    <2>1. o + 1 \in Nat /\ o \in Nat /\ Prot(p) \in SUBSET Perms
        BY HolderFacts, PageFacts
    <2> QED
        BY <1>1, <2>1 DEF AddPage
<1>11. ASSUME driver = "Augusta"
       PROVE  /\ MapsAs(Map(x.mapped, pending'), x.pages)
              /\ pending'.start <= pending'.end
              /\ \A i \in 1 .. Len(x.pages) : x.pages[i].offset < pending'.end
    <2>0. /\ MapsAs(Map(Mapping.mapped, pending), Mapping.pages)
          /\ pending.start <= pending.end /\ o \in Nat
          /\ pending.start \in Nat /\ pending.end \in Nat
        BY <1>1, <1>11, HolderFacts DEF LoadInv, PendingInv
    <2>1. pending'.end = o + 1
        BY <1>1, <1>11 DEF AddPage
    <2>2. \A i \in 1 .. Len(x.pages) : x.pages[i].offset < o + 1
        <3> SUFFICES ASSUME NEW i \in 1 .. Len(x.pages) PROVE x.pages[i].offset < o + 1
            OBVIOUS
        <3>1. CASE i \in 1 .. Len(Mapping.pages)
            <4>1. /\ x.pages[i] = Mapping.pages[i]
                  /\ Mapping.pages[i] \in [page : Pages, offset : Offsets]
                <5> DEFINE S == [page : Pages, offset : Offsets]
                <5>1. Mapping.pages \in Seq(S) /\ [page |-> p, offset |-> o] \in S
                    BY <1>2
                <5> HIDE DEF S, x
                <5>2. x.pages[i] = Mapping.pages[i] /\ Mapping.pages[i] \in S
                    BY <1>8, <3>1, <5>1, AppendFacts
                <5> QED
                    BY <5>2 DEF S
            <4>2. Mapping.pages[i].offset < o /\ Mapping.pages[i].offset \in Nat
                BY <3>1, <4>1, HolderFacts
            <4> QED
                BY <2>0, <4>1, <4>2
        <3>2. CASE i = Len(Mapping.pages) + 1
            <4>1. x.pages[i].offset = o
                BY <1>2, <1>8, <3>2
            <4> QED
                BY <2>0, <4>1
        <3> QED
            BY <1>2, <1>8, <3>1, <3>2
    <2>3. CASE Appends(pending, p, o)
        <3>1. x = added /\ pending' = [pending EXCEPT !.end = o + 1]
            BY <1>11, <2>3 DEF AddPage
        <3>2. pending'.start = pending.start /\ pending.end = o /\ pending.prot = Prot(p)
            BY <1>1, <2>3, <3>1 DEF Appends
        <3>3. MapsAs(Map(Mapping.mapped, [pending EXCEPT !.end = o + 1]),
                     Append(Mapping.pages, [page |-> p, offset |-> o]))
            BY <1>1, <1>2, <2>0, <3>2, GrownMaps
        <3>4. MapsAs(Map(x.mapped, pending'), x.pages)
            <4>1. x.mapped = Mapping.mapped
                BY <1>5, <3>1
            <4> HIDE DEF x
            <4> QED
                BY <1>8, <3>1, <3>3, <4>1
        <3> QED
            BY <2>0, <2>1, <2>2, <3>2, <3>4
    <2>4. CASE ~Appends(pending, p, o)
        <3>1. x = flushed /\ pending' = [prot |-> Prot(p), start |-> o, end |-> o + 1]
            BY <1>11, <2>4 DEF AddPage
        <3>2. MapsAs(Map(Map(Mapping.mapped, pending), pending'),
                     Append(Mapping.pages, [page |-> p, offset |-> o]))
            BY <1>2, <1>3, <2>0, <3>1, NewMaps
        <3>3. MapsAs(Map(x.mapped, pending'), x.pages)
            <4>1. x.mapped = Map(Mapping.mapped, pending)
                BY <1>7, <3>1
            <4> HIDE DEF x
            <4> QED
                BY <1>8, <3>2, <4>1
        <3> QED
            BY <2>0, <2>1, <2>2, <3>1, <3>3
    <2> QED
        BY <2>3, <2>4
<1> HIDE DEF x
<1>12. LoadTypeOK'
    BY <1>9, <1>10 DEF LoadInv, LoadTypeOK
<1>13. PendingInv'
    BY <1>9, <1>11 DEF PendingInv
<1> QED
    BY <1>8, <1>9, <1>12, <1>13 DEF LoadInv, BusyInv, MappedInv, LoadedInv, StaleTokenReplaced

LEMMA NextPageStep ==
    ASSUME LoadInv, NEW p \in Pages, NEW o \in Offsets, NextPage(p, o)
    PROVE  LoadInv'
<1>1. UNCHANGED <<driver, provider, cache, token, noToken, calls>>
    BY DEF NextPage, confVars
<1>2. ASSUME NEW res \in {"error", "panicked"}, Fail(res) PROVE LoadInv'
    BY <1>1, <1>2, FailStep DEF LoadInv, LoadTypeOK, Results
<1>3. CASE AddPage(p, o) /\ UNCHANGED <<phase, result>>
    BY <1>1, <1>3, AddPageStep DEF NextPage
<1> QED
    BY <1>2, <1>3 DEF NextPage

LEMMA EndOfStreamStep == LoadInv /\ EndOfStream => LoadInv'
<1> SUFFICES ASSUME LoadInv, EndOfStream PROVE LoadInv'
    OBVIOUS
<1> DEFINE x == [Mapping EXCEPT !.mapped = Map(Mapping.mapped, pending)]
<1>1. /\ phase = "pages" /\ phase' = "init" /\ pending' = NoPending
      /\ UNCHANGED <<driver, provider, cache, token, noToken, result, calls>>
    BY DEF EndOfStream, Flush, confVars
<1>2. /\ Mapping \in EnclaveSet /\ Mapping.range /\ Mapping.held = {HeldByLoad}
      /\ pending \in [prot : SUBSET Perms, start : Nat, end : Nat]
      /\ Cur \in 1 .. Cur
    BY <1>1 DEF LoadInv, LoadTypeOK, BusyInv, Busy, Mapping, Cur
<1>3. Map(Mapping.mapped, pending) \in [Offsets -> SUBSET (Perms \union {"reserved"})]
    BY <1>2 DEF Map, EnclaveSet
<1>4. /\ x \in EnclaveSet /\ x.range /\ x.held = {HeldByLoad}
      /\ x.mapped = Map(Mapping.mapped, pending) /\ x.pages = Mapping.pages
    BY <1>2, <1>3 DEF EnclaveSet
<1>5. enclaves' = [enclaves EXCEPT ![Cur] = x]
    BY DEF EndOfStream, Flush, Mapping
<1> HIDE DEF x
<1>6. /\ enclaves' \in Seq(EnclaveSet) /\ Cur' = Cur /\ Mapping' = x
      /\ Cur' \in Nat \ {0} /\ RangeHeld' /\ ReadyInv'
    BY <1>1, <1>4, <1>5, CurChanged DEF Busy, Ready, Returned
<1>7. LoadTypeOK'
    BY <1>1, <1>6 DEF LoadInv, LoadTypeOK, NoPending, Phases
<1>8. MappedInv'
    BY <1>1, <1>4, <1>6 DEF LoadInv, PendingInv, MappedInv
<1> QED
    BY <1>1, <1>4, <1>6, <1>7, <1>8 DEF LoadInv, BusyInv, PendingInv, LoadedInv, StaleTokenReplaced

\* Only enclaveapi reports success without an EINIT that succeeded.
LEMMA InitSound ==
    ASSUME LoadTypeOK, NEW tok, NEW r \in DriverInit(tok)
    PROVE  /\ r.init \in BOOLEAN
           /\ r.res = "ok" => r.init \/ driver = "enclaveapi"
<1>0. ASSUME NEW a, NEW b \in BOOLEAN, r = Inits(a, b) PROVE r.res = a /\ r.init = b
    BY <1>0 DEF Inits
<1>1. CASE driver \in {"Montgomery", "Augusta"}
    <2>1. r \in IsgxInit(tok)
        BY <1>1 DEF DriverInit
    <2>2. PICK k : r = Inits(k, k = "ok")
        BY <2>1, Zenon DEF IsgxInit
    <2> QED
        BY <1>0, <2>2
<1>2. CASE driver = "common"
    <2>1. r \in CommonInit(tok)
        BY <1>2 DEF DriverInit
    <2>2. CASE r \in {Inits(IF k = "no_code" THEN "other" ELSE k, k = "ok") :
                        k \in Kernel("token", tok)}
        <3>1. PICK k : r = Inits(IF k = "no_code" THEN "other" ELSE k, k = "ok")
            BY <2>2, Zenon
        <3>2. r.res = (IF k = "no_code" THEN "other" ELSE k) /\ r.init = (k = "ok")
            BY <1>0, <3>1, Zenon
        <3>3. r.res = "ok" => k = "ok"
            BY <3>2
        <3> QED
            BY <3>2, <3>3, Zenon
    <2>3. CASE r = Inits("other", "ok" \in Kernel("token", tok))
        <3>1. CASE "ok" \in Kernel("token", tok)
            <4>1. r = Inits("other", TRUE)
                BY <2>3, <3>1
            <4> QED
                BY <1>0, <4>1
        <3>2. CASE "ok" \notin Kernel("token", tok)
            <4>1. ("ok" \in Kernel("token", tok)) = FALSE
                BY <3>2, SMT
            <4>2. r = Inits("other", FALSE)
                BY <2>3, <4>1, Zenon
            <4>3. r.res = "other" /\ r.init = FALSE
                BY <1>0, <4>2, Zenon
            <4>4. r.res # "ok"
                BY <4>3
            <4> QED
                BY <4>3, <4>4, Zenon
        <3> QED
            BY <3>1, <3>2
    <2> QED
        BY <2>1, <2>2, <2>3 DEF CommonInit
<1>3. CASE driver = "enclaveapi"
    <2>1. r \in EnclaveApiInit(tok)
        BY <1>3 DEF DriverInit
    <2>2. PICK k : r = Inits(IF k = "no_code" THEN "ok" ELSE k, k = "ok")
        BY <2>1, Zenon DEF EnclaveApiInit
    <2> QED
        BY <1>0, <1>3, <2>2
<1> QED
    BY <1>1, <1>2, <1>3 DEF LoadTypeOK, Drivers

\* A load that succeeds gives its references to the TCSs and the MappingInfo.
LEMMA LoadedStep ==
    ASSUME LoadInv, phase \in {"init", "retry"}, NEW init \in BOOLEAN, Loaded(init),
           init \/ driver = "enclaveapi", UNCHANGED <<driver, provider, calls>>,
           token' \in Tokens, cache' \in Tokens, noToken' \in BOOLEAN
    PROVE  LoadInv'
<1> DEFINE x == [Mapping EXCEPT !.init = init, !.held = {HeldByInfo} \union Mapping.tcss]
<1>1. phase' = "loaded" /\ result' = "ok" /\ pending' = pending
    BY DEF Loaded
<1>2. Mapping \in EnclaveSet /\ Mapping.range /\ Cur \in 1 .. Cur
    BY DEF LoadInv, LoadTypeOK, BusyInv, Busy, Mapping, Cur
<1>3. Mapping.tcss \in SUBSET Holders /\ HeldByLoad \notin Mapping.tcss
    BY <1>2, HolderFacts DEF EnclaveSet
<1>4. /\ x \in EnclaveSet /\ x.range /\ x.init = init /\ x.held = {HeldByInfo} \union Mapping.tcss
      /\ x.mapped = Mapping.mapped /\ x.pages = Mapping.pages
    BY <1>2, <1>3, HolderFacts DEF EnclaveSet
<1>5. enclaves' = [enclaves EXCEPT ![Cur] = x]
    BY <1>2 DEF Loaded, Mapping, LoadInv, LoadTypeOK
<1> HIDE DEF x
<1>6. Ready(x)
    BY <1>4 DEF Ready, LoadInv, MappedInv
<1>7. /\ enclaves' \in Seq(EnclaveSet) /\ Cur' = Cur /\ Mapping' = x
      /\ Cur' \in Nat \ {0} /\ RangeHeld' /\ ReadyInv'
    BY <1>4, <1>5, <1>6, CurChanged DEF Busy
<1>8. LoadTypeOK'
    BY <1>1, <1>7 DEF LoadInv, LoadTypeOK, Phases, Results
<1> QED
    BY <1>1, <1>7, <1>8 DEF LoadInv, BusyInv, Busy, PendingInv, MappedInv, LoadedInv,
                            StaleTokenReplaced

LEMMA InitFirstStep == LoadInv /\ InitFirst => LoadInv'
<1> SUFFICES ASSUME LoadInv, InitFirst PROVE LoadInv'
    OBVIOUS
<1>1. /\ phase = "init" /\ UNCHANGED <<driver, provider, cache, token, noToken, calls>>
      /\ token' \in Tokens /\ cache' \in Tokens /\ noToken' \in BOOLEAN
    BY DEF InitFirst, confVars, LoadInv, LoadTypeOK
<1>2. PICK r \in DriverInit(token) :
        \/ r.res = "ok" /\ Loaded(r.init)
        \/ IsEinittokenError(r.res) /\ noToken /\ Fail("no_token")
        \/ /\ IsEinittokenError(r.res) /\ ~noToken /\ provider = "caching"
           /\ phase' = "retry"
           /\ UNCHANGED <<enclaves, pending, result>>
        \/ /\ r.res # "ok" /\ ~(IsEinittokenError(r.res) /\ (noToken \/ provider = "caching"))
           /\ Failed(r.res)
    BY DEF InitFirst
<1>3. CASE r.res = "ok" /\ Loaded(r.init)
    BY <1>1, <1>3, InitSound, LoadedStep DEF LoadInv
<1>4. CASE Fail("no_token")
    BY <1>1, <1>4, FailStep DEF Results
<1>5. CASE phase' = "retry" /\ UNCHANGED <<enclaves, pending, result>>
    <2>1. LoadTypeOK'
        BY <1>1, <1>5 DEF LoadInv, LoadTypeOK, Phases
    <2>2. RangeHeld' /\ ReadyInv'
        BY <1>1, <1>5 DEF LoadInv, RangeHeld, ReadyInv, Ready, Cur
    <2>3. BusyInv' /\ PendingInv' /\ MappedInv' /\ LoadedInv' /\ StaleTokenReplaced'
        BY <1>1, <1>5 DEF LoadInv, BusyInv, Busy, PendingInv, MappedInv, LoadedInv, Mapping, Cur,
                          StaleTokenReplaced
    <2> QED
        BY <2>1, <2>2, <2>3 DEF LoadInv
<1>6. CASE ~(IsEinittokenError(r.res) /\ (noToken \/ provider = "caching")) /\ Failed(r.res)
    <2>1. PICK res \in {"panicked", "bad_token", "error"} :
                Fail(res) /\ (res = "bad_token" => r.res = "bad_token")
        BY <1>6 DEF Failed
    <2>2. ~(res = "bad_token" /\ provider = "caching" /\ driver # "common")
        BY <1>6, <2>1 DEF IsEinittokenError
    <2> QED
        BY <1>1, <2>1, <2>2, FailStep DEF Results
<1> QED
    BY <1>2, <1>3, <1>4, <1>5, <1>6

LEMMA InitRetryStep == LoadInv /\ InitRetry => LoadInv'
<1> SUFFICES ASSUME LoadInv, InitRetry PROVE LoadInv'
    OBVIOUS
<1>1. /\ phase = "retry" /\ UNCHANGED <<driver, provider, calls>>
      /\ token' \in Tokens /\ cache' \in Tokens /\ noToken' \in BOOLEAN
    BY DEF InitRetry, confVars, LoadInv, LoadTypeOK, Tokens
<1>2. CASE Fail("no_token")
    BY <1>1, <1>2, FailStep DEF Results
<1>3. ASSUME token' = "good", NEW r \in DriverInit("good"),
             IF r.res = "ok" THEN Loaded(r.init) ELSE Failed(r.res)
      PROVE  LoadInv'
    <2>1. CASE r.res = "ok" /\ Loaded(r.init)
        BY <1>1, <2>1, InitSound, LoadedStep DEF LoadInv
    <2>2. CASE Failed(r.res)
        BY <1>1, <1>3, <2>2, FailStep DEF Failed, Results
    <2> QED
        BY <1>3, <2>1, <2>2
<1> QED
    BY <1>2, <1>3 DEF InitRetry

LEMMA BuilderDoneStep == LoadInv /\ BuilderDone => LoadInv'
<1> SUFFICES ASSUME LoadInv, BuilderDone PROVE LoadInv'
    OBVIOUS
<1>1. /\ phase = "loaded" /\ phase' = "idle" /\ result' \in {"panicked", "ok"}
      /\ UNCHANGED <<driver, provider, cache, token, noToken, pending, calls>>
    BY DEF BuilderDone, confVars
<1>2. Cur \in 1 .. Cur /\ Release(Cur, {HeldByInfo})
    BY <1>1 DEF BuilderDone, LoadInv, LoadedInv
<1>3. enclaves' \in Seq(EnclaveSet) /\ RangeHeld' /\ ReadyInv'
    BY <1>1, <1>2, ReleaseKeeps, HolderFacts DEF LoadInv
<1>4. LoadTypeOK'
    BY <1>1, <1>3 DEF LoadInv, LoadTypeOK, Phases, Results
<1> QED
    BY <1>1, <1>3, <1>4 DEF LoadInv, BusyInv, Busy, PendingInv, MappedInv, LoadedInv,
                            StaleTokenReplaced

LEMMA DropStep ==
    ASSUME LoadInv, NEW e \in 1 .. Cur, NEW tcs \in Offsets, Drop(e, tcs)
    PROVE  LoadInv'
<1>1. /\ UNCHANGED <<driver, provider, cache, phase, token, noToken, pending, result, calls>>
      /\ Release(e, {tcs}) /\ (e = Cur => phase = "idle")
    BY DEF Drop, confVars
<1>2. /\ enclaves' \in Seq(EnclaveSet) /\ Cur' = Cur /\ RangeHeld' /\ ReadyInv'
      /\ \A f \in 1 .. Cur : f # e => enclaves'[f] = enclaves[f]
    BY <1>1, ReleaseKeeps, HolderFacts DEF LoadInv
<1>3. LoadTypeOK'
    BY <1>1, <1>2 DEF LoadInv, LoadTypeOK
<1>4. phase \in Busy => Cur \in 1 .. Cur /\ Mapping' = Mapping
    BY <1>1, <1>2 DEF LoadInv, BusyInv, Busy, Mapping
<1>5. BusyInv' /\ LoadedInv' /\ StaleTokenReplaced'
    BY <1>1, <1>2, <1>4 DEF LoadInv, BusyInv, LoadedInv, StaleTokenReplaced
<1>6. PendingInv' /\ MappedInv'
    BY <1>1, <1>4 DEF LoadInv, PendingInv, MappedInv, Busy
<1> QED
    BY <1>2, <1>3, <1>5, <1>6 DEF LoadInv

LEMMA LoadInvStep == LoadInv /\ [Next]_vars => LoadInv'
<1> SUFFICES ASSUME LoadInv, [Next]_vars PROVE LoadInv'
    OBVIOUS
<1>1. CASE LoadStep
    BY <1>1, GetTokenStep, CreateFailsStep, CreateStep, NextPageStep, EndOfStreamStep,
       InitFirstStep, InitRetryStep, BuilderDoneStep DEF LoadStep
<1>2. CASE UNCHANGED loadVars
    BY <1>2, TokenStep DEF loadVars, LoadInv, LoadTypeOK
<1>3. ASSUME NEW o \in Ops, OtherCall(o) PROVE LoadInv'
    BY <1>3, TokenStep DEF OtherCall, confVars, LoadInv, LoadTypeOK
<1>4. CASE \E e \in 1 .. Cur, tcs \in Offsets : Drop(e, tcs)
    BY <1>4, DropStep
<1>5. CASE \E args, library, signed \in BOOLEAN : Build(args, library, signed)
    BY <1>5, BuildStep
<1> QED
    BY <1>1, <1>2, <1>3, <1>4, <1>5 DEF Next, vars

-----------------------------------------------------------------------------
(***************************************************************************)
(* Theorems                                                                *)
(***************************************************************************)
LEMMA LoadInvariance == Spec => []LoadInv
BY LoadInit, LoadInvStep, PTL DEF Spec

\* The address range of an enclave is reserved exactly as long as the load, a
\* Tcs or the MappingInfo needs it, after whatever failures and drops
\* (Mapping::drop, generic.rs).
THEOREM RangesHeld == Spec => []RangeHeld
<1>1. LoadInv => RangeHeld
    BY DEF LoadInv
<1> QED
    BY <1>1, LoadInvariance, PTL

\* What a load has returned was initialized, but for enclaveapi, and with the
\* Augusta driver is mapped exactly as its pages ask for, however the mmaps
\* were merged (PendingMmap in isgx).
THEOREM LoadedIsReady == Spec => []ReadyToRun
<1>1. LoadInv => ReadyToRun
    <2> SUFFICES ASSUME LoadInv, NEW e \in 1 .. Cur, enclaves[e].held # {},
                        HeldByLoad \notin enclaves[e].held
                 PROVE  /\ enclaves[e].init \/ driver = "enclaveapi"
                        /\ driver = "Augusta" =>
                            \A o \in Offsets :
                                LET at == {i \in 1 .. Len(enclaves[e].pages) :
                                            enclaves[e].pages[i].offset = o}
                                IN  enclaves[e].mapped[o] =
                                        IF at = {} THEN {"reserved"}
                                        ELSE Prot(enclaves[e].pages[CHOOSE i \in at : TRUE].page)
        BY DEF ReadyToRun
    <2>1. /\ enclaves[e].init \/ driver = "enclaveapi"
          /\ driver = "Augusta" => MapsAs(enclaves[e].mapped, enclaves[e].pages)
        BY DEF LoadInv, ReadyInv, Ready, Returned
    <2>2. ASSUME driver = "Augusta", NEW o \in Offsets
          PROVE  LET at == {i \in 1 .. Len(enclaves[e].pages) : enclaves[e].pages[i].offset = o}
                 IN  enclaves[e].mapped[o] =
                        IF at = {} THEN {"reserved"}
                        ELSE Prot(enclaves[e].pages[CHOOSE i \in at : TRUE].page)
        <3> DEFINE at == {i \in 1 .. Len(enclaves[e].pages) : enclaves[e].pages[i].offset = o}
        <3>1. CASE at = {}
            BY <2>1, <2>2, <3>1 DEF MapsAs
        <3>2. CASE at # {}
            <4>1. (CHOOSE i \in at : TRUE) \in at
                BY <3>2
            <4> QED
                BY <2>1, <2>2, <3>2, <4>1 DEF MapsAs
        <3> QED
            BY <3>1, <3>2
    <2> QED
        BY <2>1, <2>2
<1> QED
    BY <1>1, LoadInvariance, PTL

\* A load that has a caching provider does not fail for a token of the cache,
\* but for sgx_enclave_common (Device::load asks the provider again).
THEOREM StaleTokens == Spec => []StaleTokenReplaced
<1>1. LoadInv => StaleTokenReplaced
    BY DEF LoadInv
<1> QED
    BY <1>1, LoadInvariance, PTL
=============================================================================
