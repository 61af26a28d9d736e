------------------------- MODULE DcapProviderProofs -------------------------
(***************************************************************************)
(* Proofs about DcapProvider, for any number of threads, quotes, platforms *)
(* and arguments, any quotes of the QL and any depth of queries: a call    *)
(* inside a query never queries, and a Config is of the platform that was  *)
(* asked for and is freed as it was allocated.                             *)
(***************************************************************************)
EXTENDS DcapProvider, TLAPS

\* Where a call has ENTERED_ONCE.
Entered == {"querying", "quoted"}

\* ReentryRefused is not inductive: a re-entered call is refused because the one
\* that queries holds the lock as long as a frame is nested in it.
EntryInv ==
    /\ \A f \in Frames : held["ENTERED_ONCE"] = f <=> pc[f] \in Entered
    /\ \A f \in Frames : f[2] < MaxDepth /\ ql[Nested(f)] # "idle" => pc[f] = "querying"
    /\ \A f \in Frames : ql[f] = "idle" <=> pc[f] = "idle"
    /\ ReentryRefused

\* ConfigSound needs both caches to be right, and the certification data of a
\* call to be those that it asked for, wherever they came from.
CachesInv ==
    /\ \A p \in Platforms : certdata_cache[p] \in {None, p}
    /\ \A p \in Platforms : cert_cache[p] # None => cert_cache[p].platform = p
CallInv(f) ==
    /\ pc[f] # "idle" => id[f] \in PckCertIds
    /\ pc[f] \in {"enter", "querying", "quoted"} => ByQeId(id[f])
    /\ pc[f] \in {"quoted", "certify", "download"} =>
        certdata[f] \in Platforms /\ certdata[f] = Asked(id[f])
ConfigInv(f) ==
    config[f] # None =>
        /\ Returned(f)
        /\ config[f].platform = Asked(id[f])
        /\ FreedLen(config[f]) = config[f].allocated

ProviderInv ==
    /\ ProviderTypeOK
    /\ EntryInv
    /\ CachesInv
    /\ \A f \in Frames : CallInv(f) /\ ConfigInv(f)

-----------------------------------------------------------------------------
(***************************************************************************)
(* Frames and arguments                                                    *)
(***************************************************************************)
LEMMA NestedFrame ==
    ASSUME NEW f \in Frames
    PROVE  /\ f[2] < MaxDepth => Nested(f) \in Frames /\ Nested(f)[2] > 0
           /\ Nested(f) # f
           /\ ~(f[2] < MaxDepth) => Nested(f) \notin Frames
           /\ \A g \in Frames : Nested(f) = Nested(g) => f = g
           /\ \A t \in Threads : Nested(f) # <<t, 0>>
  BY FramesAssumption DEF Frames, Nested

LEMMA OuterFrame ==
    ASSUME NEW f \in Frames, f[2] > 0
    PROVE  \E g \in Frames : g[2] < MaxDepth /\ Nested(g) = f
  <1> DEFINE g == <<f[1], f[2] - 1>>
  <1>1. g \in Frames /\ g[2] < MaxDepth /\ Nested(g) = f
    BY FramesAssumption DEF Frames, Nested
  <1> QED BY <1>1

LEMMA ThreadFrame ==
    ASSUME NEW t \in Threads
    PROVE  <<t, 0>> \in Frames /\ ~(<<t, 0>>[2] > 0)
  BY FramesAssumption DEF Frames

LEMMA Arguments ==
    ASSUME NEW i \in PckCertIds
    PROVE  /\ i # None
           /\ i.encrypted_ppid \in Platforms \union {None, "invalid"}
           /\ i.qe3_id \in Platforms \union {None}
           /\ ByQeId(i) => i.qe3_id \in Platforms /\ Asked(i) = i.qe3_id
           /\ i.encrypted_ppid \in Platforms => Asked(i) = i.encrypted_ppid
  BY IdsAssumption, PlatformsAssumption DEF CertIds, ByQeId, Asked

-----------------------------------------------------------------------------
(***************************************************************************)
(* Who queries                                                             *)
(***************************************************************************)
LEMMA EntryTypes ==
    ASSUME ProviderTypeOK
    PROVE  /\ held \in [Mutexes -> Frames \union {None}]
           /\ ql \in [Frames -> {"idle", "size", "quote"}]
           /\ pc = [f \in Frames |-> pc[f]]
  BY DEF ProviderTypeOK

\* A call goes on outside of its query.
LEMMA LocalEntry ==
    ASSUME ProviderTypeOK, EntryInv, NEW f \in Frames, NEW l,
           pc' = [pc EXCEPT ![f] = l], ql' = ql,
           held'["ENTERED_ONCE"] = held["ENTERED_ONCE"],
           pc[f] \notin Entered \union {"idle"}, l \notin Entered \union {"idle"}
    PROVE  EntryInv'
  BY EntryTypes, NestedFrame DEF EntryInv, Entered, ReentryRefused

\* It enters a query: it is not inside of one.
LEMMA EnterEntry ==
    ASSUME ProviderTypeOK, EntryInv, NEW f \in Frames, pc[f] = "enter",
           held["ENTERED_ONCE"] = None,
           pc' = [pc EXCEPT ![f] = "querying"], ql' = ql,
           held' = [held EXCEPT !["ENTERED_ONCE"] = f]
    PROVE  EntryInv'
  <1>1. ~(f[2] > 0)
    <2> SUFFICES ASSUME f[2] > 0 PROVE FALSE
      OBVIOUS
    <2>1. PICK g \in Frames : g[2] < MaxDepth /\ Nested(g) = f
      BY OuterFrame
    <2>2. ql[f] # "idle"
      BY DEF EntryInv
    <2>3. held["ENTERED_ONCE"] = g
      BY <2>1, <2>2 DEF EntryInv, Entered
    <2> QED BY <2>3, FramesAssumption
  <1>2. \A g \in Frames : g # f => pc[g] \notin Entered
    BY FramesAssumption DEF EntryInv
  <1> QED
    BY <1>1, <1>2, EntryTypes, FramesAssumption
       DEF EntryInv, Entered, ReentryRefused, Mutexes

LEMMA Resumed ==
    ASSUME NEW p, NEW f \in Frames, NEW l, NEW n, p = [g \in Frames |-> p[g]]
    PROVE  LET q == [p EXCEPT ![f] = l, ![n] = "idle"]
           IN  /\ q = [g \in Frames |-> q[g]]
               /\ \A g \in Frames :
                     q[g] = IF g = n THEN "idle" ELSE IF g = f THEN l ELSE p[g]
  <1> DEFINE r == [p EXCEPT ![f] = l]
             q == [r EXCEPT ![n] = "idle"]
  <1>1. r = [g \in Frames |-> r[g]] /\ \A g \in Frames : r[g] = IF g = f THEN l ELSE p[g]
    OBVIOUS
  <1> HIDE DEF r
  <1>2. q = [g \in Frames |-> q[g]] /\ \A g \in Frames : q[g] = IF g = n THEN "idle" ELSE r[g]
    BY <1>1
  <1> HIDE DEF q
  <1>3. \A g \in Frames : q[g] = IF g = n THEN "idle" ELSE IF g = f THEN l ELSE p[g]
    BY <1>1, <1>2
  <1> QED BY <1>2, <1>3 DEF q, r

\* It leaves the query, and nothing is nested in it any more.
LEMMA LeaveEntry ==
    ASSUME ProviderTypeOK, EntryInv, NEW f \in Frames, pc[f] \in Entered, NEW l,
           l \notin Entered \union {"idle"},
           \A g \in Frames :
               pc'[g] = IF g = Nested(f) THEN "idle" ELSE IF g = f THEN l ELSE pc[g],
           f[2] < MaxDepth => ql'[Nested(f)] = "idle",
           \A g \in Frames : g # Nested(f) => ql'[g] = ql[g],
           f[2] < MaxDepth => Nested(f) # f /\ pc[Nested(f)] \notin Entered,
           ql' \in [Frames -> {"idle", "size", "quote"}],
           held' = [held EXCEPT !["ENTERED_ONCE"] = None]
    PROVE  EntryInv'
  <1>1. \A g \in Frames : g # f => pc[g] \notin Entered
    BY FramesAssumption DEF EntryInv
  <1>2. \A g \in Frames :
            pc'[g] = IF g = Nested(f) THEN "idle" ELSE IF g = f THEN l ELSE pc[g]
    OBVIOUS
  <1>3. \A g \in Frames : pc'[g] \notin Entered
    BY <1>1, <1>2 DEF Entered
  <1>4. \A g \in Frames : held'["ENTERED_ONCE"] # g
    BY EntryTypes, FramesAssumption DEF Mutexes
  <1>5. \A g \in Frames : g[2] < MaxDepth => ql'[Nested(g)] = "idle"
    <2> SUFFICES ASSUME NEW g \in Frames, g[2] < MaxDepth PROVE ql'[Nested(g)] = "idle"
      OBVIOUS
    <2>1. CASE g = f
      BY <2>1
    <2>2. CASE g # f
      <3>1. Nested(g) \in Frames /\ Nested(g) # Nested(f)
        BY <2>2, NestedFrame
      <3>2. pc[g] # "querying"
        BY <1>1, <2>2 DEF Entered
      <3> QED BY <3>1, <3>2 DEF EntryInv
    <2> QED BY <2>1, <2>2
  <1>6. \A g \in Frames : ql'[g] = "idle" <=> pc'[g] = "idle"
    <2> SUFFICES ASSUME NEW g \in Frames PROVE ql'[g] = "idle" <=> pc'[g] = "idle"
      OBVIOUS
    <2>1. CASE g = Nested(f)
      BY <1>2, <2>1, NestedFrame
    <2>2. CASE g = f
      <3>1. g # Nested(f) /\ pc'[g] = l /\ ql'[g] = ql[g]
        BY <1>2, <2>2, NestedFrame
      <3>2. ql[f] # "idle"
        BY DEF EntryInv, Entered
      <3> QED BY <2>2, <3>1, <3>2
    <2>3. CASE g # f /\ g # Nested(f)
      BY <1>2, <2>3 DEF EntryInv
    <2> QED BY <2>1, <2>2, <2>3
  <1> QED BY <1>3, <1>4, <1>5, <1>6 DEF EntryInv, ReentryRefused, Entered

-----------------------------------------------------------------------------
(***************************************************************************)
(* What the calls find                                                     *)
(***************************************************************************)
\* Only the calls that a step changes have to be looked at.
Same(g) ==
    /\ pc'[g] = pc[g] /\ id'[g] = id[g]
    /\ certdata'[g] = certdata[g] /\ config'[g] = config[g]
Sound(g) == CallInv(g) /\ ConfigInv(g)

LEMMA OthersSound ==
    ASSUME ProviderInv, \A g \in Frames : Same(g) \/ Sound(g)'
    PROVE  \A g \in Frames : CallInv(g)' /\ ConfigInv(g)'
  BY DEF ProviderInv, Same, Sound, CallInv, ConfigInv, Returned

\* A config that is given out with the certificate of the platform asked for.
LEMMA SizeFits ==
    ASSUME NEW n \in ChainLens, ~(n > U32Max)
    PROVE  n % (U32Max + 1) = n
  <1> DEFINE m == U32Max + 1
  <1>1. n \in Nat /\ n < m /\ m \in Nat \ {0}
    BY ChainsAssumption
  <1> HIDE DEF m
  <1>2. PICK q \in Nat, r \in 0 .. m - 1 : n = m * q + r /\ r = n % m
    <2>1. n \div m \in Nat /\ n % m \in 0 .. m - 1 /\ n = m * (n \div m) + (n % m)
      BY <1>1, SMT
    <2> QED BY <2>1
  <1>3. q >= 1 => m * q >= m
    BY <1>1, SMT
  <1>4. m * q \in Nat /\ (q = 0 => m * q = 0)
    BY <1>1, SMT
  <1>5. q = 0
    BY <1>1, <1>2, <1>3, <1>4
  <1>6. r = n
    BY <1>1, <1>2, <1>4, <1>5
  <1> QED BY <1>2, <1>6 DEF m

LEMMA InterpretStep ==
    ASSUME ProviderInv, NEW f \in Frames, Interpret(f)
    PROVE  ProviderInv'
  <1> USE DEF ProviderInv
  <1>1. PICK l \in {"NoPlatformCertData", "InvalidParameter", "certify"} :
            pc' = [pc EXCEPT ![f] = l]
    BY DEF Interpret, Return, Goto
  <1>2. ProviderTypeOK'
    BY <1>1, Arguments DEF Interpret, ProviderTypeOK, Return, Goto, CallInv, Errors
  <1>3. EntryInv'
    BY <1>1, LocalEntry DEF Interpret, Entered
  <1>4. CachesInv'
    BY DEF Interpret, CachesInv
  <1>5. \A g \in Frames : g # f => Same(g)
    BY DEF Interpret, Return, Goto, Same, ProviderTypeOK
  <1>6. Sound(f)'
    BY Arguments DEF Interpret, Return, Goto, Sound, CallInv, ConfigInv, ProviderTypeOK, Returned,
                     Errors
  <1> QED BY <1>2, <1>3, <1>4, <1>5, <1>6, OthersSound DEF Sound

LEMMA LookupStep ==
    ASSUME ProviderInv, NEW f \in Frames, Lookup(f)
    PROVE  ProviderInv'
  <1> USE DEF ProviderInv
  <1>1. PICK l \in {"certify", "enter"} : pc' = [pc EXCEPT ![f] = l]
    BY DEF Lookup, Found, Goto
  <1>2. /\ id[f] \in PckCertIds /\ ByQeId(id[f]) /\ id[f].qe3_id \in Platforms
        /\ Asked(id[f]) = id[f].qe3_id
    BY Arguments DEF Lookup, LooksUp, CallInv
  <1>3. ProviderTypeOK'
    BY <1>1, <1>2 DEF Lookup, Found, ProviderTypeOK
  <1>4. EntryInv'
    BY <1>1, LocalEntry DEF Lookup, LooksUp, Entered
  <1>5. CachesInv'
    BY DEF Lookup, CachesInv
  <1>6. \A g \in Frames : g # f => Same(g)
    BY DEF Lookup, Found, Goto, Same, ProviderTypeOK
  <1>7. Sound(f)'
    BY <1>2, PlatformsAssumption
       DEF Lookup, LooksUp, Found, Goto, Sound, CallInv, ConfigInv, ProviderTypeOK, Returned, Errors,
           CachesInv
  <1> QED BY <1>3, <1>4, <1>5, <1>6, <1>7, OthersSound DEF Sound

LEMMA TryEnterStep ==
    ASSUME ProviderInv, NEW f \in Frames, TryEnter(f)
    PROVE  ProviderInv'
  <1> USE DEF ProviderInv
  <1>1. ProviderTypeOK'
    BY DEF TryEnter, Return, Goto, ProviderTypeOK, Errors, Mutexes
  <1>2. EntryInv'
    <2>1. CASE held["ENTERED_ONCE"] = None
      BY <2>1, EnterEntry DEF TryEnter, Goto
    <2>2. CASE held["ENTERED_ONCE"] # None
      BY <2>2, LocalEntry DEF TryEnter, Return, Goto, Entered
    <2> QED BY <2>1, <2>2
  <1>3. CachesInv'
    BY DEF TryEnter, CachesInv
  <1>4. \A g \in Frames : g # f => Same(g)
    BY DEF TryEnter, Return, Goto, Same, ProviderTypeOK
  <1>5. Sound(f)'
    BY DEF TryEnter, Return, Goto, Sound, CallInv, ConfigInv, ProviderTypeOK, Returned, Errors
  <1> QED BY <1>1, <1>2, <1>3, <1>4, <1>5, OthersSound DEF Sound

LEMMA FreeStep ==
    ASSUME ProviderInv, NEW f \in Frames, Free(f)
    PROVE  ProviderInv'
  <1> USE DEF ProviderInv
  <1>1. ProviderTypeOK'
    BY DEF Free, ProviderTypeOK
  <1>2. EntryInv'
    BY DEF Free, EntryInv, ReentryRefused
  <1>3. CachesInv'
    BY DEF Free, CachesInv
  <1>4. \A g \in Frames : g # f => Same(g)
    BY DEF Free, Same, ProviderTypeOK
  <1>5. Sound(f)'
    BY DEF Free, Sound, CallInv, ConfigInv, ProviderTypeOK
  <1> QED BY <1>1, <1>2, <1>3, <1>4, <1>5, OthersSound DEF Sound

\* sgx_ql_get_quote_config has its certificate.
LEMMA AnswerStep ==
    ASSUME ProviderInv, NEW f \in Frames, NEW cert \in Certs,
           pc[f] \in {"certify", "download"}, cert.platform = certdata[f], Answer(f, cert),
           ql' = ql, id' = id, made' = made, certdata_cache' = certdata_cache,
           held' \in [Mutexes -> Frames \union {None}],
           held'["ENTERED_ONCE"] = held["ENTERED_ONCE"],
           cert_cache' \in [Platforms -> Certs \union {None}], CachesInv'
    PROVE  ProviderInv'
  <1> USE DEF ProviderInv
  <1>1. PICK l \in {"NoPlatformCertData", "Success"} :
            pc' = [pc EXCEPT ![f] = l] /\ certdata' = [certdata EXCEPT ![f] = None]
    BY DEF Answer, Return, Goto
  <1>2. \/ config' = config
        \/ /\ ~(cert.len > U32Max)
           /\ config' = [config EXCEPT ![f] =
                [platform |-> cert.platform, cert_data_size |-> cert.len,
                 allocated |-> 34 + cert.len]]
    BY SizeFits DEF Answer, Certs
  <1>3. cert.platform \in Platforms /\ cert.len \in Nat
    BY ChainsAssumption DEF Certs
  <1>4. config' \in [Frames -> Configs \union {None}]
    BY <1>2, <1>3, ChainsAssumption DEF ProviderTypeOK, Configs
  <1>5. ProviderTypeOK'
    BY <1>1, <1>4 DEF ProviderTypeOK, Errors
  <1>6. EntryInv'
    BY <1>1, LocalEntry DEF Entered
  <1>7. \A g \in Frames : g # f => Same(g)
    BY <1>1, <1>2 DEF Same, ProviderTypeOK
  <1>8. Sound(f)'
    <2>1. config[f] = None /\ certdata[f] = Asked(id[f])
      BY DEF ConfigInv, CallInv, Returned, Errors
    <2>2. CallInv(f)'
      BY <1>1 DEF CallInv, ProviderTypeOK
    <2>3. Returned(f)'
      BY <1>1 DEF Returned, Errors, ProviderTypeOK
    <2>4. ConfigInv(f)'
      BY <1>2, <1>3, <2>1, <2>3 DEF ConfigInv, FreedLen, ProviderTypeOK
    <2> QED BY <2>2, <2>4 DEF Sound
  <1> QED BY <1>5, <1>6, <1>7, <1>8, OthersSound DEF Sound

LEMMA CertifyStep ==
    ASSUME ProviderInv, NEW f \in Frames, Certify(f)
    PROVE  ProviderInv'
  <1> USE DEF ProviderInv
  <1>1. certdata[f] \in Platforms /\ CachesInv'
    BY DEF Certify, CallInv, CachesInv
  <1>2. CASE cert_cache[certdata[f]] # None
    <2> DEFINE cert == cert_cache[certdata[f]]
    <2>1. cert \in Certs /\ cert.platform = certdata[f]
      BY <1>1, <1>2 DEF ProviderTypeOK, CachesInv
    <2>2. /\ Answer(f, cert) /\ pc[f] = "certify" /\ held' = held
          /\ ql' = ql /\ id' = id /\ made' = made
          /\ certdata_cache' = certdata_cache /\ cert_cache' = cert_cache
      BY <1>2 DEF Certify
    <2> HIDE DEF cert
    <2>3. held' \in [Mutexes -> Frames \union {None}]
          /\ cert_cache' \in [Platforms -> Certs \union {None}]
      BY <2>2 DEF ProviderTypeOK
    <2> QED BY <1>1, <2>1, <2>2, <2>3, AnswerStep
  <1>3. CASE cert_cache[certdata[f]] = None
    <2>1. /\ pc' = [pc EXCEPT ![f] = "download"] /\ held' = [held EXCEPT !["CERT_CACHE"] = f]
          /\ UNCHANGED <<certdata, config, certdata_cache, cert_cache, made, ql, id>>
      BY <1>3 DEF Certify, Goto
    <2>2. ProviderTypeOK'
      BY <2>1 DEF ProviderTypeOK, Mutexes
    <2>3. held'["ENTERED_ONCE"] = held["ENTERED_ONCE"]
      BY <2>1 DEF ProviderTypeOK, Mutexes
    <2>4. EntryInv'
      BY <2>1, <2>3, LocalEntry DEF Certify, Entered
    <2>5. \A g \in Frames : g # f => Same(g)
      BY <2>1 DEF Same, ProviderTypeOK
    <2>6. Sound(f)'
      BY <2>1 DEF Certify, Sound, CallInv, ConfigInv, ProviderTypeOK, Returned, Errors
    <2> QED BY <1>1, <2>2, <2>4, <2>5, <2>6, OthersSound DEF Sound
  <1> QED BY <1>2, <1>3

LEMMA DownloadStep ==
    ASSUME ProviderInv, NEW f \in Frames, Download(f)
    PROVE  ProviderInv'
  <1> USE DEF ProviderInv
  <1>1. certdata[f] \in Platforms /\ pc[f] = "download"
    BY DEF Download, CallInv
  <1>2. /\ held' \in [Mutexes -> Frames \union {None}]
        /\ held'["ENTERED_ONCE"] = held["ENTERED_ONCE"]
        /\ UNCHANGED <<certdata_cache, made, ql, id>>
    BY DEF Download, Unlock, ProviderTypeOK, Mutexes
  <1>3. ASSUME NEW l \in {"PlatformLibUnavailable", "NoPlatformCertData"}, Return(f, l),
               UNCHANGED <<cert_cache, config>>
        PROVE  ProviderInv'
    <2>1. ProviderTypeOK'
      BY <1>2, <1>3 DEF ProviderTypeOK, Return, Goto, Errors
    <2>2. EntryInv'
      BY <1>1, <1>2, <1>3, LocalEntry DEF Return, Goto, Entered
    <2>3. CachesInv'
      BY <1>2, <1>3 DEF CachesInv
    <2>4. \A g \in Frames : g # f => Same(g)
      BY <1>2, <1>3 DEF Same, ProviderTypeOK, Return, Goto
    <2>5. Sound(f)'
      BY <1>1, <1>2, <1>3
         DEF Sound, CallInv, ConfigInv, ProviderTypeOK, Returned, Errors, Return, Goto
    <2> QED BY <2>1, <2>2, <2>3, <2>4, <2>5, OthersSound DEF Sound
  <1>4. ASSUME NEW n \in ChainLens, NEW cert, cert = [platform |-> certdata[f], len |-> n],
               cert_cache' = [cert_cache EXCEPT ![certdata[f]] = cert], Answer(f, cert)
        PROVE  ProviderInv'
    <2>1. cert \in Certs /\ cert.platform = certdata[f]
      BY <1>1, <1>4 DEF Certs
    <2>2. cert_cache' \in [Platforms -> Certs \union {None}]
      BY <1>4, <2>1 DEF ProviderTypeOK
    <2>3. CachesInv'
      BY <1>1, <1>2, <1>4, <2>1 DEF CachesInv, ProviderTypeOK
    <2> QED BY <1>1, <1>2, <1>4, <2>1, <2>2, <2>3, AnswerStep
  <1> QED BY <1>3, <1>4 DEF Download

LEMMA RememberStep ==
    ASSUME ProviderInv, NEW f \in Frames, Remember(f)
    PROVE  ProviderInv'
  <1> USE DEF ProviderInv
  <1>1. /\ pc[f] = "quoted" /\ certdata[f] \in Platforms /\ id[f].qe3_id \in Platforms
        /\ certdata[f] = id[f].qe3_id
    BY Arguments DEF Remember, CallInv
  <1>2. ProviderTypeOK'
    BY <1>1 DEF Remember, Unlock, Goto, ProviderTypeOK, Mutexes
  <1>3. f[2] < MaxDepth => ql[Nested(f)] = "idle" /\ pc[Nested(f)] = "idle"
    BY <1>1, NestedFrame DEF EntryInv
  <1>4. \A g \in Frames :
            pc'[g] = IF g = Nested(f) THEN "idle" ELSE IF g = f THEN "certify" ELSE pc[g]
    BY <1>3, NestedFrame DEF Remember, Goto, ProviderTypeOK
  <1>5. EntryInv'
    <2>1. held' = [held EXCEPT !["ENTERED_ONCE"] = None] /\ ql' = ql
      BY DEF Remember, Unlock
    <2>2. /\ f[2] < MaxDepth => ql'[Nested(f)] = "idle"
          /\ f[2] < MaxDepth => Nested(f) # f /\ pc[Nested(f)] \notin Entered
          /\ ql' \in [Frames -> {"idle", "size", "quote"}]
          /\ pc[f] \in Entered
          /\ "certify" \notin Entered \union {"idle"}
      BY <1>1, <1>3, <2>1, NestedFrame DEF Entered, ProviderTypeOK
    <2> QED BY <1>4, <2>1, <2>2, LeaveEntry
  <1>6. CachesInv'
    BY <1>1 DEF Remember, CachesInv, ProviderTypeOK
  <1>7. \A g \in Frames : g # f => Same(g)
    BY DEF Remember, Goto, Same, ProviderTypeOK
  <1>8. Sound(f)'
    BY <1>1 DEF Remember, Goto, Sound, CallInv, ConfigInv, ProviderTypeOK, Returned, Errors
  <1> QED BY <1>2, <1>5, <1>6, <1>7, <1>8, OthersSound DEF Sound

\* A call of the provider begins in frame f.
LEMMA CallSound ==
    ASSUME ProviderInv, NEW f \in Frames, CallsProvider(f), config[f] = None,
           UNCHANGED <<certdata, config>>
    PROVE  /\ pc' = [pc EXCEPT ![f] = "called"]
           /\ pc' \in [Frames -> {"idle", "called", "enter", "querying", "quoted", "certify",
                                  "download", "Success"} \union Errors]
           /\ id' \in [Frames -> PckCertIds \union {None}]
           /\ \A g \in Frames : CallInv(g)' /\ ConfigInv(g)'
  <1> USE DEF ProviderInv
  <1>1. PICK i \in PckCertIds : pc' = [pc EXCEPT ![f] = "called"] /\ id' = [id EXCEPT ![f] = i]
    BY DEF CallsProvider
  <1>2. \A g \in Frames : g # f => Same(g)
    BY <1>1 DEF Same, ProviderTypeOK
  <1>3. Sound(f)'
    BY <1>1 DEF Sound, CallInv, ConfigInv, ProviderTypeOK
  <1>4. \A g \in Frames : CallInv(g)' /\ ConfigInv(g)'
    BY <1>2, <1>3, OthersSound DEF Sound
  <1> QED BY <1>1, <1>4 DEF ProviderTypeOK

LEMMA QueryStep ==
    ASSUME ProviderInv, NEW f \in Frames, Query(f)
    PROVE  ProviderInv'
  <1> USE DEF ProviderInv
  <1> DEFINE n == Nested(f)
  <1>1. n \in Frames /\ n # f /\ pc[f] = "querying" /\ ql[n] = "idle" /\ f[2] < MaxDepth
    BY NestedFrame DEF Query
  <1>2. pc[n] = "idle" /\ config[n] = None
    BY <1>1 DEF EntryInv, ConfigInv, Returned, Errors
  <1>3. /\ ql' = [ql EXCEPT ![n] = "size"] /\ CallsProvider(n)
        /\ UNCHANGED <<held, certdata_cache, cert_cache, made, certdata, config>>
    BY DEF Query
  <1>4. \A g \in Frames : Nested(g) = n => g = f
    BY NestedFrame
  <1> HIDE DEF n
  <1>5. /\ pc' = [pc EXCEPT ![n] = "called"]
        /\ pc' \in [Frames -> {"idle", "called", "enter", "querying", "quoted", "certify",
                               "download", "Success"} \union Errors]
        /\ id' \in [Frames -> PckCertIds \union {None}]
        /\ \A g \in Frames : CallInv(g)' /\ ConfigInv(g)'
    BY <1>1, <1>2, <1>3, CallSound
  <1>6. ProviderTypeOK'
    BY <1>1, <1>3, <1>5 DEF ProviderTypeOK
  <1>7. EntryInv'
    BY <1>1, <1>2, <1>3, <1>4, <1>5 DEF EntryInv, ProviderTypeOK, Entered, ReentryRefused
  <1>8. CachesInv'
    BY <1>3 DEF CachesInv
  <1> QED BY <1>5, <1>6, <1>7, <1>8

\* The query of f ends: f goes on with l, and its nested frame, if there was one,
\* is idle again.
LEMMA ResumeStep ==
    ASSUME ProviderInv, NEW f \in Frames, pc[f] = "querying",
           NEW l \in {"NoPlatformCertData", "quoted"}, Resume(f, l),
           held' = IF l = "quoted" THEN held ELSE [held EXCEPT !["ENTERED_ONCE"] = None],
           l = "quoted" => certdata' = [certdata EXCEPT ![f] = id[f].qe3_id],
           l # "quoted" => certdata' = certdata,
           f[2] < MaxDepth => config[Nested(f)] = None /\ ql'[Nested(f)] = "idle",
           \A g \in Frames : g # Nested(f) => ql'[g] = ql[g] /\ id'[g] = id[g],
           ql' \in [Frames -> {"idle", "size", "quote"}],
           id' \in [Frames -> PckCertIds \union {None}],
           UNCHANGED <<certdata_cache, cert_cache, made, config>>
    PROVE  ProviderInv'
  <1> USE DEF ProviderInv
  <1>1. /\ pc' = [g \in Frames |-> pc'[g]]
        /\ \A g \in Frames :
              pc'[g] = IF g = Nested(f) THEN "idle" ELSE IF g = f THEN l ELSE pc[g]
    <2>1. pc = [g \in Frames |-> pc[g]]
      BY DEF ProviderTypeOK
    <2>2. LET q == [pc EXCEPT ![f] = l, ![Nested(f)] = "idle"]
          IN  /\ q = [g \in Frames |-> q[g]]
              /\ \A g \in Frames :
                    q[g] = IF g = Nested(f) THEN "idle" ELSE IF g = f THEN l ELSE pc[g]
      BY <2>1, Resumed
    <2>3. pc' = [pc EXCEPT ![f] = l, ![Nested(f)] = "idle"]
      BY DEF Resume
    <2> QED BY <2>2, <2>3
  <1>2. Nested(f) # f
    BY NestedFrame
  <1>3. id[f] \in PckCertIds /\ id[f].qe3_id \in Platforms /\ Asked(id[f]) = id[f].qe3_id
        /\ ByQeId(id[f])
    BY Arguments DEF CallInv
  <1>4. ProviderTypeOK'
    <2>1. pc' \in [Frames -> {"idle", "called", "enter", "querying", "quoted", "certify",
                              "download", "Success"} \union Errors]
      BY <1>1 DEF ProviderTypeOK, Errors
    <2>2. certdata' \in [Frames -> Platforms \union {None}]
      BY <1>3 DEF ProviderTypeOK
    <2>3. held' \in [Mutexes -> Frames \union {None}]
      BY DEF ProviderTypeOK
    <2> QED BY <2>1, <2>2, <2>3 DEF ProviderTypeOK
  <1>5. f[2] < MaxDepth => Nested(f) \in Frames /\ pc[Nested(f)] \notin Entered
    BY NestedFrame DEF EntryInv, ReentryRefused, Entered
  <1>6. EntryInv'
    <2>1. CASE l # "quoted"
      <3>1. held' = [held EXCEPT !["ENTERED_ONCE"] = None]
        BY <2>1
      <3>2. pc[f] \in Entered /\ l \notin Entered \union {"idle"}
        BY <2>1 DEF Entered
      <3>3. f[2] < MaxDepth => ql'[Nested(f)] = "idle"
        OBVIOUS
      <3>4. f[2] < MaxDepth => Nested(f) # f /\ pc[Nested(f)] \notin Entered
        BY <1>2, <1>5
      <3> QED BY <1>1, <3>1, <3>2, <3>3, <3>4, LeaveEntry
    <2>2. CASE l = "quoted"
      <3>1. held' = held
        BY <2>2
      <3>2. \A g \in Frames : pc'[g] \in Entered <=> pc[g] \in Entered
        BY <1>1, <1>2, <1>5, <2>2, NestedFrame DEF Entered
      <3>3. \A g \in Frames : g[2] < MaxDepth => ql'[Nested(g)] = "idle"
        <4> SUFFICES ASSUME NEW g \in Frames, g[2] < MaxDepth PROVE ql'[Nested(g)] = "idle"
          OBVIOUS
        <4>1. CASE g = f
          BY <4>1
        <4>2. CASE g # f
          <5>1. Nested(g) \in Frames /\ Nested(g) # Nested(f)
            BY <4>2, NestedFrame
          <5>2. pc[g] # "querying"
            BY <4>2 DEF EntryInv, Entered
          <5> QED BY <5>1, <5>2 DEF EntryInv
        <4> QED BY <4>1, <4>2
      <3>4. \A g \in Frames : ql'[g] = "idle" <=> pc'[g] = "idle"
        <4> SUFFICES ASSUME NEW g \in Frames PROVE ql'[g] = "idle" <=> pc'[g] = "idle"
          OBVIOUS
        <4>1. CASE g = Nested(f)
          BY <1>1, <4>1, NestedFrame
        <4>2. CASE g = f
          <5>1. pc'[g] = "quoted" /\ ql'[g] = ql[g]
            BY <1>1, <1>2, <2>2, <4>2
          <5>2. ql[f] # "idle"
            BY DEF EntryInv
          <5> QED BY <4>2, <5>1, <5>2
        <4>3. CASE g # f /\ g # Nested(f)
          BY <1>1, <4>3 DEF EntryInv
        <4> QED BY <4>1, <4>2, <4>3
      <3>5. ReentryRefused'
        BY <3>2 DEF EntryInv, ReentryRefused, Entered
      <3> QED BY <3>1, <3>2, <3>3, <3>4, <3>5 DEF EntryInv
    <2> QED BY <2>1, <2>2
  <1>7. CachesInv'
    BY DEF CachesInv
  <1>8. \A g \in Frames : g # f /\ g # Nested(f) => Same(g)
    BY <1>1 DEF Same, ProviderTypeOK
  <1>9. Nested(f) \in Frames => Sound(Nested(f))'
    <2> SUFFICES ASSUME Nested(f) \in Frames PROVE Sound(Nested(f))'
      OBVIOUS
    <2>1. pc'[Nested(f)] = "idle" /\ config'[Nested(f)] = None
      BY <1>1, NestedFrame
    <2> QED BY <2>1 DEF Sound, CallInv, ConfigInv
  <1>10. Sound(f)'
    <2>1. pc'[f] = l /\ id'[f] = id[f] /\ config'[f] = None
      BY <1>1, <1>2 DEF ConfigInv, Returned, Errors
    <2>2. l = "quoted" => certdata'[f] = id[f].qe3_id
      BY DEF ProviderTypeOK
    <2> QED BY <1>3, <2>1, <2>2 DEF Sound, CallInv, ConfigInv
  <1>11. \A g \in Frames : Same(g) \/ Sound(g)'
    BY <1>8, <1>9, <1>10
  <1> QED BY <1>4, <1>6, <1>7, <1>11, OthersSound

LEMMA PrepareStep ==
    ASSUME ProviderInv, NEW f \in Frames, PrepareFails(f)
    PROVE  ProviderInv'
  <1>1. /\ pc[f] = "querying" /\ Resume(f, "NoPlatformCertData")
        /\ held' = [held EXCEPT !["ENTERED_ONCE"] = None] /\ certdata' = certdata
        /\ UNCHANGED <<certdata_cache, cert_cache, made, config>> /\ ql' = ql /\ id' = id
    BY DEF PrepareFails, QueryFails, Unlock
  <1>2. f[2] < MaxDepth => config[Nested(f)] = None /\ ql'[Nested(f)] = "idle"
    BY NestedFrame DEF PrepareFails, ProviderInv, ConfigInv, EntryInv, Returned, Errors
  <1>3. /\ ql' \in [Frames -> {"idle", "size", "quote"}]
        /\ id' \in [Frames -> PckCertIds \union {None}]
        /\ \A g \in Frames : g # Nested(f) => ql'[g] = ql[g] /\ id'[g] = id[g]
    BY <1>1 DEF ProviderInv, ProviderTypeOK
  <1> QED BY <1>1, <1>2, <1>3, ResumeStep

LEMMA QueryEndsStep ==
    ASSUME ProviderInv, NEW f \in Frames, QueryEnds(f)
    PROVE  ProviderInv'
  <1>1. /\ Nested(f) \in Frames /\ ql[Nested(f)] # "idle" /\ config[Nested(f)] = None
        /\ ql' = [ql EXCEPT ![Nested(f)] = "idle"] /\ id' = [id EXCEPT ![Nested(f)] = None]
        /\ UNCHANGED <<certdata_cache, cert_cache, made, config>>
    BY NestedFrame DEF QueryEnds, EndsFrame
  <1>2. pc[f] = "querying"
    BY <1>1 DEF QueryEnds, ProviderInv, EntryInv
  <1>3. /\ ql' \in [Frames -> {"idle", "size", "quote"}]
        /\ id' \in [Frames -> PckCertIds \union {None}]
        /\ ql'[Nested(f)] = "idle"
        /\ \A g \in Frames : g # Nested(f) => ql'[g] = ql[g] /\ id'[g] = id[g]
    BY <1>1 DEF ProviderInv, ProviderTypeOK
  <1>4. CASE QueryFails(f)
    <2>1. /\ Resume(f, "NoPlatformCertData") /\ certdata' = certdata
          /\ held' = [held EXCEPT !["ENTERED_ONCE"] = None]
      BY <1>4 DEF QueryFails, Unlock
    <2> QED BY <1>1, <1>2, <1>3, <2>1, ResumeStep
  <1>5. CASE ~QueryFails(f)
    <2>1. PICK q \in QlQuotes(Nested(f)) : Quoted(f, q)
      BY <1>5 DEF QueryEnds
    <2>2. /\ Resume(f, "quoted") /\ held' = held /\ q.user_data = <<id[f].qe3_id, 0>>
          /\ certdata' = [certdata EXCEPT ![f] = q.user_data[1]]
      BY <1>5, <2>1 DEF Quoted, ParseCertdata
    <2>3. certdata' = [certdata EXCEPT ![f] = id[f].qe3_id]
      BY <2>2
    <2>4. Resume(f, "quoted") /\ held' = held
      BY <2>2
    <2> QED BY <1>1, <1>2, <1>3, <2>3, <2>4, ResumeStep
  <1> QED BY <1>4, <1>5

\* The QL calls the provider for a quote of a thread, or again for the quote itself.
LEMMA QlCallStep ==
    ASSUME ProviderInv, NEW f \in Frames, NEW k \in {"size", "quote"},
           ql' = [ql EXCEPT ![f] = k], CallsProvider(f), config[f] = None,
           pc[f] \notin Entered,
           f[2] > 0 => pc[f] # "idle",
           made' \in [Threads -> 0 .. MaxQuotes],
           UNCHANGED <<held, certdata_cache, cert_cache, certdata, config>>
    PROVE  ProviderInv'
  <1> USE DEF ProviderInv
  <1>1. /\ pc' = [pc EXCEPT ![f] = "called"]
        /\ pc' \in [Frames -> {"idle", "called", "enter", "querying", "quoted", "certify",
                               "download", "Success"} \union Errors]
        /\ id' \in [Frames -> PckCertIds \union {None}]
        /\ \A g \in Frames : CallInv(g)' /\ ConfigInv(g)'
    BY CallSound
  <1>2. ProviderTypeOK'
    BY <1>1 DEF ProviderTypeOK
  <1>3. \A g \in Frames : g[2] < MaxDepth /\ Nested(g) = f => ql[f] # "idle"
    BY NestedFrame DEF EntryInv
  <1>4. \A g \in Frames : g[2] < MaxDepth => Nested(g) \in Frames
    BY NestedFrame
  <1>5. \A g \in Frames : g[2] < MaxDepth /\ ql'[Nested(g)] # "idle" => pc[g] = "querying"
    BY <1>3, <1>4 DEF EntryInv, ProviderTypeOK
  <1>6. \A g \in Frames : pc'[g] = IF g = f THEN "called" ELSE pc[g]
    BY <1>1 DEF ProviderTypeOK
  <1>7. EntryInv'
    BY <1>5, <1>6 DEF EntryInv, ProviderTypeOK, Entered, ReentryRefused
  <1>8. CachesInv'
    BY DEF CachesInv
  <1> QED BY <1>1, <1>2, <1>7, <1>8

LEMMA GetQuoteSizeStep ==
    ASSUME ProviderInv, NEW t \in Threads, GetQuoteSize(t)
    PROVE  ProviderInv'
  <1> DEFINE f == <<t, 0>>
  <1>1. f \in Frames /\ ~(f[2] > 0)
    BY ThreadFrame
  <1>2. /\ ql' = [ql EXCEPT ![f] = "size"] /\ CallsProvider(f) /\ ql[f] = "idle"
        /\ UNCHANGED <<held, certdata_cache, cert_cache, certdata, config>>
    BY DEF GetQuoteSize
  <1>3. made' \in [Threads -> 0 .. MaxQuotes]
    BY FramesAssumption DEF GetQuoteSize, ProviderInv, ProviderTypeOK
  <1> HIDE DEF f
  <1>4. config[f] = None /\ pc[f] \notin Entered
    BY <1>1, <1>2 DEF ProviderInv, EntryInv, ConfigInv, Returned, Errors, Entered
  <1> QED BY <1>1, <1>2, <1>3, <1>4, QlCallStep

LEMMA GetQuoteStep ==
    ASSUME ProviderInv, NEW f \in Frames, GetQuote(f)
    PROVE  ProviderInv'
  <1>1. /\ ql' = [ql EXCEPT ![f] = "quote"] /\ CallsProvider(f) /\ config[f] = None
        /\ UNCHANGED <<held, certdata_cache, cert_cache, certdata, config>>
    BY DEF GetQuote
  <1>2. pc[f] \notin Entered /\ pc[f] # "idle"
    BY DEF GetQuote, Returned, Errors, Entered
  <1>3. made' \in [Threads -> 0 .. MaxQuotes]
    BY DEF GetQuote, ProviderInv, ProviderTypeOK
  <1> QED BY <1>1, <1>2, <1>3, QlCallStep

LEMMA QlReturnsStep ==
    ASSUME ProviderInv, NEW t \in Threads, QlReturns(t)
    PROVE  ProviderInv'
  <1> USE DEF ProviderInv
  <1> DEFINE f == <<t, 0>>
  <1>1. f \in Frames /\ \A g \in Frames : Nested(g) # f
    BY ThreadFrame, NestedFrame
  <1>2. /\ ql' = [ql EXCEPT ![f] = "idle"] /\ id' = [id EXCEPT ![f] = None]
        /\ pc' = [pc EXCEPT ![f] = "idle"] /\ config[f] = None /\ Returned(f)
        /\ UNCHANGED <<held, certdata_cache, cert_cache, made, certdata, config>>
    BY DEF QlReturns, EndsFrame, Goto
  <1> HIDE DEF f
  <1>3. ProviderTypeOK'
    BY <1>1, <1>2 DEF ProviderTypeOK
  <1>4. EntryInv'
    BY <1>1, <1>2 DEF EntryInv, ProviderTypeOK, Entered, ReentryRefused, Returned, Errors
  <1>5. CachesInv'
    BY <1>2 DEF CachesInv
  <1>6. \A g \in Frames : g # f => Same(g)
    BY <1>2 DEF Same, ProviderTypeOK
  <1>7. Sound(f)'
    BY <1>1, <1>2 DEF Sound, CallInv, ConfigInv, ProviderTypeOK
  <1> QED BY <1>3, <1>4, <1>5, <1>6, <1>7, OthersSound DEF Sound

-----------------------------------------------------------------------------
(***************************************************************************)
(* The theorems                                                            *)
(***************************************************************************)
LEMMA ProviderInitial == Init => ProviderInv
  <1> SUFFICES ASSUME Init PROVE ProviderInv
    OBVIOUS
  <1>1. ProviderTypeOK
    BY FramesAssumption DEF Init, ProviderTypeOK
  <1>2. EntryInv
    BY FramesAssumption, NestedFrame DEF Init, EntryInv, ReentryRefused, Entered, Mutexes
  <1>3. CachesInv
    BY DEF Init, CachesInv
  <1>4. \A f \in Frames : CallInv(f) /\ ConfigInv(f)
    BY DEF Init, CallInv, ConfigInv
  <1> QED BY <1>1, <1>2, <1>3, <1>4 DEF ProviderInv

LEMMA ProviderNext == ProviderInv /\ [Next]_vars => ProviderInv'
  <1> SUFFICES ASSUME ProviderInv, [Next]_vars PROVE ProviderInv'
    OBVIOUS
  <1>1. CASE UNCHANGED vars
    BY <1>1 DEF vars, frameVars, ProviderInv, ProviderTypeOK, EntryInv, ReentryRefused, CachesInv,
                CallInv, ConfigInv, Returned
  <1>2. ASSUME NEW t \in Threads, GetQuoteSize(t) \/ QlReturns(t) PROVE ProviderInv'
    BY <1>2, GetQuoteSizeStep, QlReturnsStep
  <1>3. ASSUME NEW f \in Frames, ProviderStep(f) PROVE ProviderInv'
    BY <1>3, InterpretStep, LookupStep, TryEnterStep, PrepareStep, QueryStep, RememberStep,
       CertifyStep, DownloadStep
       DEF ProviderStep
  <1>4. ASSUME NEW f \in Frames, \/ Free(f) \/ GetQuote(f) \/ QueryEnds(f) PROVE ProviderInv'
    BY <1>4, FreeStep, GetQuoteStep, QueryEndsStep
  <1> QED BY <1>1, <1>2, <1>3, <1>4 DEF Next

LEMMA ProviderInvariance == Spec => []ProviderInv
  BY ProviderInitial, ProviderNext, PTL DEF Spec

\* The variables of the provider keep their types: in particular a size that is
\* given out fits its 32 bits.
THEOREM TypeCorrectness == Spec => []ProviderTypeOK
  <1>1. ProviderInv => ProviderTypeOK
    BY DEF ProviderInv
  <1> QED BY <1>1, ProviderInvariance, PTL

\* A call made by the query of another one never queries itself, at any depth
\* and with any number of threads.
THEOREM NoRecursion == Spec => []ReentryRefused
  <1>1. ProviderInv => ReentryRefused
    BY DEF ProviderInv, EntryInv
  <1> QED BY <1>1, ProviderInvariance, PTL

\* A Config is of the platform that was asked for, and is freed as it was
\* allocated.
THEOREM ConfigsSound == Spec => []ConfigSound
  <1>1. ProviderInv => ConfigSound
    BY DEF ProviderInv, ConfigInv, ConfigSound
  <1> QED BY <1>1, ProviderInvariance, PTL
=============================================================================
