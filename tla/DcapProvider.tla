---------------------------- MODULE DcapProvider ----------------------------
(***************************************************************************)
(* The quote provider library (dcap-provider), which the quoting library   *)
(* (QL) calls for the certificate of the platform, and which calls the QL  *)
(* itself to learn the platform's PPID (dcap-ql, quote): it is re-entered  *)
(* by its own query.                                                       *)
(*                                                                         *)
(* A frame is a quote being made, by a thread (depth 0) or for the query   *)
(* of another frame of the thread; the QL asks the provider twice for each *)
(* quote, in get_quote_size and in get_quote.  The QL and the web service  *)
(* with the certificates are external.  A platform stands for its QE ID    *)
(* and for its PPID.                                                       *)
(***************************************************************************)
EXTENDS DcapQuote

CONSTANTS
    Threads,        \* threads that ask for quotes
    MaxDepth,       \* bound: queries inside queries
    MaxQuotes,      \* bound: quotes of each thread
    Platforms,
    Host,           \* the platform that the QL runs on
    PckCertIds,     \* what the QL passes to the provider
    OddQuotes,      \* quotes of the QL that are not as they should be
    ChainLens,      \* lengths of the certificate chains of the web service
    U32Max,         \* u32::max_value()
    None

\* struct PckCertId: the crypto suite, the encrypted PPID (None for a null
\* pointer and length 0, "invalid" for another null pointer or length), the QE
\* ID (None for a null pointer or a length other than 16), and whether there
\* are pointers to both SVNs.
CertIds ==
    [crypto_suite : {"PCE_ALG_RSA_OAEP_3072", "other"},
     encrypted_ppid : Platforms \union {None, "invalid"},
     qe3_id : Platforms \union {None}, svns : BOOLEAN]

\* The quotes that the QL makes: with the encrypted PPID, with the certificate
\* chain that the provider gave it, or others (OddQuotes); each with the data of
\* the platform that its user data name.
RawQuote == WellFormed(Host, PpidEncryptedRsa3072, PpidDataLen(PpidEncryptedRsa3072))
ChainQuote == WellFormed(Host, PckCertificateChain, 1000)

Mutexes == {"CERTDATA_CACHE", "CERT_CACHE", "ENTERED_ONCE"}
Frames == Threads \X (0 .. MaxDepth)
Nested(f) == <<f[1], f[2] + 1>>
Errors == {"PlatformLibUnavailable", "NoPlatformCertData", "InvalidParameter"}

ASSUME PlatformsAssumption == Host \in Platforms /\ None \notin Platforms
                              /\ "invalid" \notin Platforms
ASSUME FramesAssumption == MaxDepth \in Nat /\ MaxQuotes \in Nat /\ None \notin Frames
ASSUME IdsAssumption == PckCertIds \subseteq CertIds /\ None \notin PckCertIds
ASSUME ChainsAssumption == ChainLens \subseteq Nat \ {0} /\ U32Max \in Nat

VARIABLES
    held,           \* who holds a Mutex
    certdata_cache, \* CERTDATA_CACHE
    cert_cache,     \* CERT_CACHE
    made,           \* quotes that a thread has asked for
    \* Each frame.
    ql,             \* what the QL does: "idle", "size" or "quote"
    pc,             \* where the call of sgx_ql_get_quote_config is, or what it returned
    id,             \* its cert_id
    certdata,       \* its certdata
    config          \* what it gave to the QL

frameVars == <<ql, pc, id, certdata, config>>
vars == <<held, certdata_cache, cert_cache, made, frameVars>>

\* PckCertInfo, and the Config with the buffer that it is in.
Certs == [platform : Platforms, len : ChainLens]
Configs == [platform : Platforms, cert_data_size : 0 .. U32Max, allocated : Nat]

Init ==
    /\ held = [m \in Mutexes |-> None]
    /\ certdata_cache = [p \in Platforms |-> None]
    /\ cert_cache = [p \in Platforms |-> None]
    /\ made = [t \in Threads |-> 0]
    /\ ql = [f \in Frames |-> "idle"]
    /\ pc = [f \in Frames |-> "idle"]
    /\ id = [f \in Frames |-> None]
    /\ certdata = [f \in Frames |-> None]
    /\ config = [f \in Frames |-> None]

-----------------------------------------------------------------------------
(***************************************************************************)
(* sgx_ql_get_quote_config                                                 *)
(***************************************************************************)
Goto(f, l) == pc' = [pc EXCEPT ![f] = l]
Return(f, s) == Goto(f, s) /\ certdata' = [certdata EXCEPT ![f] = None]
Returned(f) == pc[f] \in Errors \union {"Success"}
Unlock(m) == held' = [held EXCEPT ![m] = None]

\* The certificate is asked for by QE ID alone.
ByQeId(i) == i.encrypted_ppid = None /\ i.qe3_id # None

\* Input that needs no query: it is refused, or has the certification data.
Interpret(f) ==
    LET i == id[f] IN
    /\ pc[f] = "called"
    /\ \/ /\ i.crypto_suite = "other"
          /\ Return(f, "NoPlatformCertData")
       \/ /\ i.crypto_suite # "other" /\ ~ByQeId(i)
          /\ i.encrypted_ppid \in {None, "invalid"} \/ ~i.svns
          /\ Return(f, "InvalidParameter")
       \/ /\ i.crypto_suite # "other" /\ i.encrypted_ppid \in Platforms /\ i.svns
          /\ certdata' = [certdata EXCEPT ![f] = i.encrypted_ppid]
          /\ Goto(f, "certify")
    /\ UNCHANGED <<held, certdata_cache, cert_cache, made, ql, id, config>>

\* The mapping of QE ID to PPID is looked up.
LooksUp(f) ==
    /\ pc[f] = "called"
    /\ id[f].crypto_suite # "other" /\ ByQeId(id[f])
    /\ held["CERTDATA_CACHE"] = None
Found(f) ==
    LET cached == certdata_cache[id[f].qe3_id]
    IN  IF cached # None
        THEN Goto(f, "certify") /\ certdata' = [certdata EXCEPT ![f] = cached]
        ELSE Goto(f, "enter") /\ UNCHANGED certdata

\* Mutant: CERTDATA_CACHE stays locked during the query.
LookupKeepsLock(f) ==
    /\ LooksUp(f)
    /\ Found(f)
    /\ held' = IF certdata_cache[id[f].qe3_id] = None
               THEN [held EXCEPT !["CERTDATA_CACHE"] = f] ELSE held
    /\ UNCHANGED <<certdata_cache, cert_cache, made, ql, id, config>>
Lookup(f) ==
    /\ LooksUp(f)
    /\ Found(f)
    /\ UNCHANGED <<held, certdata_cache, cert_cache, made, ql, id, config>>

\* Mutant: the guard is dropped at once.
TryEnterDropsGuard(f) ==
    /\ pc[f] = "enter"
    /\ IF held["ENTERED_ONCE"] = None
       THEN Goto(f, "querying") /\ UNCHANGED certdata
       ELSE Return(f, "PlatformLibUnavailable")
    /\ UNCHANGED <<held, certdata_cache, cert_cache, made, ql, id, config>>
\* ENTERED_ONCE.try_lock(): this call queries, unless it is made by a query.
TryEnter(f) ==
    /\ pc[f] = "enter"
    /\ \/ /\ held["ENTERED_ONCE"] = None
          /\ held' = [held EXCEPT !["ENTERED_ONCE"] = f]
          /\ Goto(f, "querying")
          /\ UNCHANGED certdata
       \/ /\ held["ENTERED_ONCE"] # None
          /\ Return(f, "PlatformLibUnavailable")
          /\ UNCHANGED held
    /\ UNCHANGED <<certdata_cache, cert_cache, made, ql, id, config>>

\* f goes on after its query, whose frame is no more.
Resume(f, l) == pc' = [pc EXCEPT ![f] = l, ![Nested(f)] = "idle"]

\* A query that fails: every error of get_quote_with_raw_tcb and parse_certdata.
QueryFails(f) ==
    /\ Resume(f, "NoPlatformCertData")
    /\ Unlock("ENTERED_ONCE")
    /\ UNCHANGED certdata

\* The target info of the QE, the loader, and the report of an enclave made for
\* it; any of them may fail, also because there is no QL.
PrepareFails(f) ==
    /\ pc[f] = "querying"
    /\ f[2] < MaxDepth => ql[Nested(f)] = "idle"
    /\ QueryFails(f)
    /\ UNCHANGED <<certdata_cache, cert_cache, made, ql, id, config>>

\* dcap_ql::quote: get_quote_size calls the provider again.
CallsProvider(f) ==
    \E i \in PckCertIds :
        /\ pc' = [pc EXCEPT ![f] = "called"]
        /\ id' = [id EXCEPT ![f] = i]
Query(f) ==
    /\ pc[f] = "querying"
    /\ f[2] < MaxDepth
    /\ ql[Nested(f)] = "idle"
    /\ ql' = [ql EXCEPT ![Nested(f)] = "size"]
    /\ CallsProvider(Nested(f))
    /\ UNCHANGED <<held, certdata_cache, cert_cache, made, certdata, config>>

\* Mutant: the quote may be of another platform.
ParsesAnyPlatform(qe_id, q) ==
    /\ QuoteParses(q) /\ q.vendor = "Intel"
    /\ SignatureParses(q) /\ CertDataPpidParses(q)
    /\ q.certification_data_type = PpidEncryptedRsa3072
\* parse_certdata
ParseCertdata(qe_id, q) ==
    /\ QuoteParses(q) /\ q.vendor = "Intel"
    /\ q.user_data = <<qe_id, 0>>
    /\ SignatureParses(q) /\ CertDataPpidParses(q)
    /\ q.certification_data_type = PpidEncryptedRsa3072

\* The query of f gets the quote q: its data are those of the platform it is of.
Quoted(f, q) ==
    IF ParseCertdata(id[f].qe3_id, q)
    THEN /\ certdata' = [certdata EXCEPT ![f] = q.user_data[1]]
         /\ Resume(f, "quoted")
         /\ UNCHANGED held
    ELSE QueryFails(f)

\* The certification data are kept, and ENTERED_ONCE is released.
Remember(f) ==
    /\ pc[f] = "quoted"
    /\ held["CERTDATA_CACHE"] = None
    /\ certdata_cache' = [certdata_cache EXCEPT ![id[f].qe3_id] = certdata[f]]
    /\ Unlock("ENTERED_ONCE")
    /\ Goto(f, "certify")
    /\ UNCHANGED <<cert_cache, made, ql, id, certdata, config>>

\* The answer: a Config in one buffer with the chain, whose size is a u32.
Answer(f, cert) ==
    IF cert.len > U32Max
    THEN Return(f, "NoPlatformCertData") /\ UNCHANGED config
    ELSE /\ config' = [config EXCEPT ![f] =
              [platform |-> cert.platform, cert_data_size |-> cert.len % (U32Max + 1),
               allocated |-> 34 + cert.len]]
         /\ Return(f, "Success")

\* CERT_CACHE is locked for the rest of the call, the download included.
Certify(f) ==
    /\ pc[f] = "certify"
    /\ held["CERT_CACHE"] = None
    /\ \/ /\ cert_cache[certdata[f]] # None
          /\ Answer(f, cert_cache[certdata[f]])
          /\ UNCHANGED held
       \/ /\ cert_cache[certdata[f]] = None
          /\ held' = [held EXCEPT !["CERT_CACHE"] = f]
          /\ Goto(f, "download")
          /\ UNCHANGED <<certdata, config>>
    /\ UNCHANGED <<certdata_cache, cert_cache, made, ql, id>>

\* get_pckcert: there is no API key, the request or the response is no good, or
\* there is a certificate, of this platform, with a chain of at least one byte.
Download(f) ==
    /\ pc[f] = "download"
    /\ Unlock("CERT_CACHE")
    /\ \/ /\ \E s \in {"PlatformLibUnavailable", "NoPlatformCertData"} : Return(f, s)
          /\ UNCHANGED <<cert_cache, config>>
       \/ \E n \in ChainLens :
            LET cert == [platform |-> certdata[f], len |-> n]
            IN  /\ cert_cache' = [cert_cache EXCEPT ![certdata[f]] = cert]
                /\ Answer(f, cert)
    /\ UNCHANGED <<certdata_cache, made, ql, id>>

\* sgx_ql_free_quote_config frees as many bytes as it thinks there are.
FreedLen(c) == c.cert_data_size + 34
Free(f) ==
    /\ Returned(f)
    /\ config[f] # None
    /\ config' = [config EXCEPT ![f] = None]
    /\ UNCHANGED <<held, certdata_cache, cert_cache, made, ql, pc, id, certdata>>

-----------------------------------------------------------------------------
(***************************************************************************)
(* The quoting library                                                     *)
(***************************************************************************)
\* A thread asks for a quote.
GetQuoteSize(t) ==
    /\ ql[<<t, 0>>] = "idle"
    /\ made[t] < MaxQuotes
    /\ made' = [made EXCEPT ![t] = @ + 1]
    /\ ql' = [ql EXCEPT ![<<t, 0>>] = "size"]
    /\ CallsProvider(<<t, 0>>)
    /\ UNCHANGED <<held, certdata_cache, cert_cache, certdata, config>>

\* The size is known, and the provider called for the quote itself.
GetQuote(f) ==
    /\ ql[f] = "size" /\ Returned(f) /\ config[f] = None
    /\ ql' = [ql EXCEPT ![f] = "quote"]
    /\ CallsProvider(f)
    /\ UNCHANGED <<held, certdata_cache, cert_cache, made, certdata, config>>

\* What the QL returns: with the certificate, or, when there is none, with the
\* PPID; or something else.
QlQuotes(f) ==
    OddQuotes \union IF pc[f] = "Success" THEN {ChainQuote} ELSE {RawQuote}

\* The QL is done with frame f: it failed in one of its two calls or has a quote.
EndsFrame(f) ==
    /\ ql[f] # "idle" /\ Returned(f) /\ config[f] = None
    /\ ql' = [ql EXCEPT ![f] = "idle"]
    /\ id' = [id EXCEPT ![f] = None]
QlReturns(t) ==
    /\ EndsFrame(<<t, 0>>)
    /\ Goto(<<t, 0>>, "idle")
    /\ UNCHANGED <<held, certdata_cache, cert_cache, made, certdata, config>>

\* It returns to the query that it was called by.
QueryEnds(f) ==
    /\ f[2] < MaxDepth
    /\ EndsFrame(Nested(f))
    /\ \/ QueryFails(f)
       \/ /\ ql[Nested(f)] = "quote"
          /\ \E q \in QlQuotes(Nested(f)) : Quoted(f, q)
    /\ UNCHANGED <<certdata_cache, cert_cache, made, config>>

-----------------------------------------------------------------------------
\* The steps of the provider itself.
ProviderStep(f) ==
    \/ Interpret(f) \/ Lookup(f) \/ TryEnter(f) \/ PrepareFails(f) \/ Query(f) \/ Remember(f)
    \/ Certify(f) \/ Download(f)

Next ==
    \/ \E t \in Threads : GetQuoteSize(t) \/ QlReturns(t)
    \/ \E f \in Frames : ProviderStep(f) \/ Free(f) \/ GetQuote(f) \/ QueryEnds(f)

Spec == Init /\ [][Next]_vars

\* Threads are scheduled, a download ends, and the QL goes on with what it got.
Fairness ==
    /\ \A t \in Threads : WF_vars(QlReturns(t))
    /\ \A f \in Frames :
        WF_vars(ProviderStep(f)) /\ WF_vars(Free(f)) /\ WF_vars(GetQuote(f) \/ QueryEnds(f))

FairSpec == Spec /\ Fairness

-----------------------------------------------------------------------------
(***************************************************************************)
(* Properties                                                              *)
(***************************************************************************)
ProviderTypeOK ==
    /\ held \in [Mutexes -> Frames \union {None}]
    /\ certdata_cache \in [Platforms -> Platforms \union {None}]
    /\ cert_cache \in [Platforms -> Certs \union {None}]
    /\ made \in [Threads -> 0 .. MaxQuotes]
    /\ ql \in [Frames -> {"idle", "size", "quote"}]
    /\ pc \in [Frames -> {"idle", "called", "enter", "querying", "quoted", "certify",
                          "download", "Success"} \union Errors]
    /\ id \in [Frames -> PckCertIds \union {None}]
    /\ certdata \in [Frames -> Platforms \union {None}]
    /\ config \in [Frames -> Configs \union {None}]

\* The platform whose certificate is asked for.
Asked(i) == IF ByQeId(i) THEN i.qe3_id ELSE i.encrypted_ppid

\* A Config that the QL gets is of the platform that it asked for, although both
\* caches are filled by other calls, from quotes that come from the QL itself
\* (lib.rs:112-117, 254-278, 312-323); and sgx_ql_free_quote_config, which knows
\* only the size in the Config, frees the buffer that was allocated (lib.rs:325-331,
\* 366-371).
ConfigSound ==
    \A f \in Frames : config[f] # None =>
        /\ config[f].platform = Asked(id[f])
        /\ FreedLen(config[f]) = config[f].allocated

\* A call that is made by the query of another one never queries itself, however
\* calls of other threads fill the cache or take and release ENTERED_ONCE: the
\* QL calls the provider and the provider the QL at most once (lib.rs:61-66,
\* 266-270).
ReentryRefused ==
    \A f \in Frames : f[2] > 0 => pc[f] \notin {"querying", "quoted"}

\* Every call of the provider returns: no lock is held while the QL may call it
\* again (lib.rs:272), and a call inside a query does not query in turn.
EveryCallReturns ==
    \A f \in Frames : pc[f] = "called" ~> Returned(f)
=============================================================================
