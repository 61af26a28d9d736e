---------------------------- MODULE EnclaveLoad -----------------------------
(***************************************************************************)
(* Loading an enclave: EnclaveBuilder (enclave-runner/src/loader.rs), the  *)
(* generic Device::load (sgxs-loaders/src/generic.rs) and its drivers: the *)
(* two families of Linux drivers (isgx), Intel's sgx_enclave_common, and   *)
(* Windows' enclaveapi.  The token that EINIT may need comes from a        *)
(* provider, which is the AESM client or one with a cache.                 *)
(*                                                                         *)
(* The kernel is external.  Every call of it may fail.  What it keeps for  *)
(* an enclave: the reserved address range, the pages added and how they    *)
(* are mapped, and whether EINIT was done.                                 *)
(* Device::load has `&mut self': loads follow each other, but enclaves     *)
(* that were loaded stay while a Tcs or the MappingInfo is held.           *)
(***************************************************************************)
EXTENDS AesmClient, FiniteSets

CONSTANTS
    MaxLoads,   \* bound: loads
    MaxOffset,  \* bound: pages in the address range of an enclave
    MaxCalls    \* bound: AESM calls other than for launch tokens

ASSUME LoadBounds == MaxLoads \in Nat /\ MaxOffset \in Nat /\ MaxCalls \in Nat

VARIABLES
    driver,     \* "Montgomery", "Augusta", "common" or "enclaveapi"
    supports,   \* the EINIT calls that the driver knows: "token", "plain"
    provider,   \* einittoken_provider: "none", "aesm" or "caching"
    cache,      \* the token in the cache of a caching provider
    phase,      \* where Device::load is
    token,      \* `einittoken': "none", "stale" or "good"
    noToken,    \* tokprov_err is Some
    enclaves,   \* what the kernel keeps for each enclave
    pending,    \* pending_mmap
    result,     \* what the last load returned
    calls       \* AESM calls made so far

loadVars == <<driver, supports, provider, cache, phase, token, noToken, enclaves,
              pending, result, calls>>
confVars == <<driver, supports, provider>>
vars == <<aesmVars, loadVars>>

(***************************************************************************)
(* Pages as PageReader returns them: type, permissions, and how much of    *)
(* the page is measured.  "Trim" stands for the types that are no page of  *)
(* a stream, flags for PENDING, MODIFIED and PR.                           *)
(***************************************************************************)
Page(type, perm, chunks, flags) ==
    [type |-> type, perm |-> perm, chunks |-> chunks, flags |-> flags]
Pages == {Page("Reg", {"R", "X"}, "all", FALSE), Page("Reg", {"R", "W"}, "none", FALSE),
          Page("Reg", {"W"}, "all", FALSE), Page("Reg", {"R", "W"}, "part", FALSE),
          Page("Tcs", {}, "all", FALSE), Page("Trim", {}, "all", FALSE),
          Page("Reg", {"R", "W"}, "all", TRUE)}

Offsets == 0 .. MaxOffset - 1
\* Who has a reference of the Mapping: the Tcs at an offset, or one of these.
HeldByInfo == MaxOffset
HeldByLoad == MaxOffset + 1
Unmapped == [o \in Offsets |-> {"reserved"}]
NoPending == [prot |-> {}, start |-> 0, end |-> 0]

NewEnclave ==
    [range |-> TRUE, pages |-> <<>>, mapped |-> Unmapped, init |-> FALSE,
     tcss |-> {}, held |-> {HeldByLoad}]
\* After destroy: the kernel has nothing any more.
Gone == [NewEnclave EXCEPT !.range = FALSE, !.held = {}]

Init ==
    /\ AesmInit
    /\ driver \in IF windows THEN {"enclaveapi", "common"} ELSE {"Montgomery", "Augusta", "common"}
    /\ supports \in IF driver = "Montgomery" THEN {{"token"}, {"plain"}, {"token", "plain"}}
                    ELSE IF driver = "Augusta" THEN {{"plain"}} ELSE {{"token", "plain"}}
    /\ provider \in {"none", "aesm", "caching"}
    /\ cache \in IF provider = "caching" THEN {"none", "stale"} ELSE {"none"}
    /\ phase = "idle"
    /\ token = "none"
    /\ noToken = FALSE
    /\ enclaves = <<>>
    /\ pending = NoPending
    /\ result = "none"
    /\ calls = 0

\* The enclave that is being loaded, or was loaded last.
Cur == Len(enclaves)
Mapping == enclaves[Cur]

-----------------------------------------------------------------------------
(***************************************************************************)
(* Giving back an enclave: Mapping::drop calls destroy when the load and   *)
(* the values that it returned have dropped their references.              *)
(***************************************************************************)
\* Mutant: only the references that were returned are counted.
ReleaseReturned(e, who) ==
    enclaves' = [enclaves EXCEPT ![e] =
                    IF who # {HeldByLoad} /\ @.held = who
                    THEN Gone ELSE [enclaves[e] EXCEPT !.held = enclaves[e].held \ who]]
Release(e, who) ==
    enclaves' = [enclaves EXCEPT ![e] =
                    IF @.held = who
                    THEN Gone ELSE [enclaves[e] EXCEPT !.held = enclaves[e].held \ who]]

\* Device::load returns an error or panics, after the mapping was made or not.
Fail(res) ==
    /\ phase' = "idle"
    /\ result' = res
    /\ pending' = NoPending
    /\ IF phase \in {"pages", "init", "retry"}
       THEN Release(Cur, {HeldByLoad}) ELSE UNCHANGED enclaves

-----------------------------------------------------------------------------
(***************************************************************************)
(* EnclaveBuilder                                                          *)
(***************************************************************************)
\* build and build_library: command line arguments are only for the former.  A
\* builder without a signature makes a dummy one, for which it has to read the
\* enclave and to have been given a signer.
Build(args, library, signed) ==
    /\ phase = "idle" /\ op = "none" /\ Cur < MaxLoads
    /\ token' = "none" /\ noToken' = FALSE
    /\ IF args /\ library THEN Fail("panicked")
       ELSE \/ ~signed /\ Fail("no_signature")
            \/ phase' = "token" /\ result' = "none" /\ UNCHANGED <<enclaves, pending>>
    /\ UNCHANGED <<aesmVars, confVars, cache, calls>>

-----------------------------------------------------------------------------
(***************************************************************************)
(* Device::load                                                            *)
(***************************************************************************)
\* The token is asked for before the stream is read.  An error is kept: EINIT
\* may do without.
GetToken ==
    /\ phase = "token"
    /\ \/ /\ provider = "none"
          /\ token' = "none" /\ noToken' = FALSE
          /\ phase' = "create"
          /\ UNCHANGED <<aesmVars, cache>>
       \/ /\ provider = "caching"
          /\ \/ token' = (IF cache = "none" THEN "good" ELSE cache) /\ noToken' = FALSE
             \/ token' = "none" /\ noToken' = TRUE
          /\ cache' = IF noToken' THEN cache ELSE token'
          /\ phase' = "create"
          /\ UNCHANGED aesmVars
       \/ /\ provider = "aesm"
          /\ Call("get_launch_token")
          /\ phase' = "aesm"
          /\ UNCHANGED <<cache, token, noToken>>
    /\ UNCHANGED <<confVars, enclaves, pending, result, calls>>

\* The AESM client has answered; try_copy_from rejects a token of another size.
TokenFromAesm ==
    /\ phase = "aesm" /\ op = "none"
    /\ token' = IF outcome = "ok" THEN "good" ELSE "none"
    /\ noToken' = (outcome # "ok")
    /\ phase' = "create"
    /\ UNCHANGED <<aesmVars, confVars, cache, enclaves, pending, result, calls>>

\* PageReader::new fails, or the stream has no size, or the range cannot be
\* reserved; for Augusta the device is opened again, or the clone panics.
CreateFails ==
    /\ phase = "create"
    /\ Fail("error") \/ (driver = "Augusta" /\ Fail("panicked"))
    /\ UNCHANGED <<aesmVars, confVars, cache, token, noToken, calls>>

\* EnclaveLoad::new reserves the range; the Mapping exists before ECREATE is
\* tried, so an error gives the range back.
Create(ok) ==
    /\ phase = "create"
    /\ IF ok
       THEN /\ enclaves' = Append(enclaves, NewEnclave)
            /\ phase' = "pages"
            /\ UNCHANGED result
       ELSE /\ enclaves' = Append(enclaves, Gone)
            /\ phase' = "idle"
            /\ result' = "error"
    /\ UNCHANGED <<aesmVars, confVars, cache, token, noToken, pending, calls>>

\* The pages that the library and Windows are not asked to add.
CommonRejects(p) == p.flags \/ p.type = "Trim" \/ p.chunks = "part"
EnclaveApiRejects(p) == CommonRejects(p) \/ p.perm \in {{"W"}, {"W", "X"}}

\* What the driver itself rejects before it calls the kernel.
Rejected(p) ==
    \/ driver = "Augusta" /\ p.chunks = "part"
    \/ driver = "common" /\ CommonRejects(p)
    \/ driver = "enclaveapi" /\ EnclaveApiRejects(p)

\* The protection of a page in the page tables.
Prot(p) == IF p.type = "Tcs" THEN {"R", "W"} ELSE p.perm

\* PendingMmap::map
Map(mapped, m) ==
    [o \in Offsets |-> IF o \in m.start .. m.end - 1 THEN m.prot ELSE mapped[o]]

\* PendingMmap::append
Appends(m, p, o) == m.prot = Prot(p) /\ m.end = o

\* The page is added; with Augusta, the range that is waiting to be mapped grows
\* or is mapped, and the page begins a new one.
AddPage(p, o) ==
    LET added == [Mapping EXCEPT !.pages = Append(@, [page |-> p, offset |-> o]),
                                 !.tcss = @ \union IF p.type = "Tcs" THEN {o} ELSE {}]
        flushed == [added EXCEPT !.mapped = Map(Mapping.mapped, pending)]
    IN  IF driver # "Augusta" \/ Appends(pending, p, o)
        THEN /\ enclaves' = [enclaves EXCEPT ![Cur] = added]
             /\ pending' = IF driver = "Augusta" THEN [pending EXCEPT !.end = o + 1] ELSE pending
        ELSE /\ enclaves' = [enclaves EXCEPT ![Cur] = flushed]
             /\ pending' = [prot |-> Prot(p), start |-> o, end |-> o + 1]

\* The next page of the stream, at a higher offset than the last.  EADD and mmap
\* may fail; a page type that is none panics after EADD.
NextPage(p, o) ==
    /\ phase = "pages"
    /\ \A i \in 1 .. Len(Mapping.pages) : Mapping.pages[i].offset < o
    /\ IF Rejected(p) THEN Fail("error")
       ELSE \/ Fail("error")
            \/ driver = "Augusta" /\ p.type = "Trim" /\ Fail("panicked")
            \/ /\ ~(driver = "Augusta" /\ p.type = "Trim")
               /\ AddPage(p, o)
               /\ UNCHANGED <<phase, result>>
    /\ UNCHANGED <<aesmVars, confVars, cache, token, noToken, calls>>

\* read_page fails, or ends the stream.
ReadFails ==
    /\ phase = "pages"
    /\ Fail("error")
    /\ UNCHANGED <<aesmVars, confVars, cache, token, noToken, calls>>

\* Mutant: what is pending is not mapped at the end of the stream.
FlushNothing ==
    /\ pending' = NoPending
    /\ UNCHANGED enclaves
Flush ==
    /\ enclaves' = [enclaves EXCEPT ![Cur].mapped = Map(@, pending)]
    /\ pending' = NoPending

EndOfStream ==
    /\ phase = "pages"
    /\ phase' = "init"
    /\ Flush
    /\ UNCHANGED <<aesmVars, confVars, cache, token, noToken, result, calls>>

-----------------------------------------------------------------------------
(***************************************************************************)
(* EINIT.  What the kernel may answer: "ok", "bad_token" (InvalidEinit-    *)
(* Token, InvalidCpusvn), "bad_enclave" (InvalidAttribute, Invalid-        *)
(* Measurement), any other error, a value that is no error code, or that   *)
(* it does not have the call.                                              *)
(***************************************************************************)
Kernel(call, tok) ==
    IF call \notin supports THEN {"enotty"}
    ELSE {"bad_token", "bad_enclave", "other", "no_code"}
            \union (IF call = "token" /\ tok = "stale" THEN {} ELSE {"ok"})

\* EnclaveLoad::init returns res, and the enclave is initialized or not.
Inits(res, init) == [res |-> res, init |-> init]

\* isgx: one EINIT ioctl, or the other one when the first is not there.
IsgxInit(tok) ==
    LET first == Kernel(IF tok = "none" THEN "plain" ELSE "token", tok)
        second == IF tok = "none" THEN Kernel("token", "zero") ELSE Kernel("plain", tok)
    IN  {Inits(r, r = "ok") : r \in IF first = {"enotty"} THEN second ELSE first}

\* sgx_enclave_common: enclave_set_information or enclave_initialize may fail,
\* and mprotect after EINIT.
CommonInit(tok) ==
    {Inits(IF r = "no_code" THEN "other" ELSE r, r = "ok") : r \in Kernel("token", tok)}
        \union {Inits("other", "ok" \in Kernel("token", tok))}

\* enclaveapi: an error other than ERROR_ENCLAVE_FAILURE, or with an unknown
\* code, is not reported.
EnclaveApiInit(tok) ==
    {Inits(IF r = "no_code" THEN "ok" ELSE r, r = "ok") : r \in Kernel("token", tok)}

DriverInit(tok) ==
    CASE driver \in {"Montgomery", "Augusta"} -> IsgxInit(tok)
      [] driver = "common" -> CommonInit(tok)
      [] driver = "enclaveapi" -> EnclaveApiInit(tok)

\* The library reports a bad token as ENCLAVE_UNEXPECTED, which becomes
\* LibraryError::Unexpected, and no Other(ENCLAVE_UNEXPECTED).
CommonTokenError(r) == r = "bad_enclave"
IsEinittokenError(r) ==
    IF driver = "common" THEN CommonTokenError(r) ELSE r \in {"bad_token", "bad_enclave"}

\* The load succeeded: it returns the MappingInfo and the TCSs.
Loaded(init) ==
    /\ phase' = "loaded"
    /\ result' = "ok"
    /\ enclaves' = [enclaves EXCEPT ![Cur].init = init,
                        ![Cur].held = {HeldByInfo} \union enclaves[Cur].tcss]
    /\ UNCHANGED pending

Failed(r) ==
    Fail(CASE r = "no_code" -> "panicked" [] r = "bad_token" -> "bad_token" [] OTHER -> "error")

\* Mutant: a token error is reported without asking for another token.
InitNoRetry ==
    /\ phase = "init"
    /\ \E r \in DriverInit(token) :
        IF r.res = "ok" THEN Loaded(r.init) ELSE Failed(r.res)
    /\ UNCHANGED <<aesmVars, confVars, cache, token, noToken, calls>>
\* The first EINIT, and what is done about its error: the provider's error is
\* the reason if there was one; a provider that can retry is asked again.
InitFirst ==
    /\ phase = "init"
    /\ \E r \in DriverInit(token) :
        \/ r.res = "ok" /\ Loaded(r.init)
        \/ IsEinittokenError(r.res) /\ noToken /\ Fail("no_token")
        \/ /\ IsEinittokenError(r.res) /\ ~noToken /\ provider = "caching"
           /\ phase' = "retry"
           /\ UNCHANGED <<enclaves, pending, result>>
        \/ /\ r.res # "ok" /\ ~(IsEinittokenError(r.res) /\ (noToken \/ provider = "caching"))
           /\ Failed(r.res)
    /\ UNCHANGED <<aesmVars, confVars, cache, token, noToken, calls>>

\* The second EINIT, with a token that does not come from a cache.
InitRetry ==
    /\ phase = "retry"
    /\ \/ Fail("no_token") /\ UNCHANGED <<cache, token>>
       \/ /\ cache' = "good" /\ token' = "good"
          /\ \E r \in DriverInit("good") :
                IF r.res = "ok" THEN Loaded(r.init) ELSE Failed(r.res)
    /\ UNCHANGED <<aesmVars, confVars, noToken, calls>>

\* EnclaveBuilder::load keeps the TCSs and drops the MappingInfo; without a TCS
\* it panics.
BuilderDone ==
    /\ phase = "loaded"
    /\ phase' = "idle"
    /\ result' = IF Mapping.tcss = {} THEN "panicked" ELSE "ok"
    /\ Release(Cur, {HeldByInfo})
    /\ UNCHANGED <<aesmVars, confVars, cache, token, noToken, pending, calls>>

-----------------------------------------------------------------------------
\* A Tcs of a loaded enclave is dropped.
Drop(e, tcs) ==
    /\ tcs \in enclaves[e].held
    /\ e = Cur => phase = "idle"
    /\ Release(e, {tcs})
    /\ UNCHANGED <<aesmVars, confVars, cache, phase, token, noToken, pending, result, calls>>

\* Another call of the AESM client.
OtherCall(o) ==
    /\ phase = "idle"
    /\ calls < MaxCalls
    /\ Call(o)
    /\ calls' = calls + 1
    /\ UNCHANGED <<confVars, cache, phase, token, noToken, enclaves, pending, result>>

LoadStep ==
    \/ GetToken \/ TokenFromAesm \/ CreateFails \/ Create(TRUE) \/ Create(FALSE)
    \/ \E p \in Pages, o \in Offsets : NextPage(p, o)
    \/ ReadFails \/ EndOfStream \/ InitFirst \/ InitRetry \/ BuilderDone

Next ==
    \/ LoadStep
    \/ AesmStep /\ UNCHANGED loadVars
    \/ \E args, library, signed \in BOOLEAN : Build(args, library, signed)
    \/ \E e \in 1 .. Cur, tcs \in Offsets : Drop(e, tcs)
    \/ \E o \in Ops : OtherCall(o)

Spec == Init /\ [][Next]_vars

\* The thread that loads is scheduled, and the kernel returns.
Fairness == WF_vars(LoadStep) /\ WF_vars((Send \/ Timeout) /\ UNCHANGED loadVars)
            /\ WF_vars((\E answer \in {"code", "ok"} : LibraryCall(answer)) /\ UNCHANGED loadVars)

FairSpec == Spec /\ Fairness

-----------------------------------------------------------------------------
(***************************************************************************)
(* Properties                                                              *)
(***************************************************************************)
\* The address range of an enclave is reserved exactly as long as somebody
\* needs it: the load in progress, a Tcs or the MappingInfo.  No failure and no
\* order of drops leaks it, or takes it from under a Tcs (generic.rs:55-59).
RangeHeld == \A e \in 1 .. Cur : enclaves[e].range <=> enclaves[e].held # {}

\* A Tcs that a load returned is the address of a TCS page of an enclave whose
\* EINIT succeeded; with enclaveapi, whose errors are not all reported, this
\* holds when init reported them.  With the Augusta driver every page
\* of it is mapped with the permissions of its SECINFO and nothing else is,
\* however the mmaps were merged and postponed (isgx/mod.rs:281-295, 359-361).
ReadyToRun ==
    \A e \in 1 .. Cur :
        (enclaves[e].held # {} /\ HeldByLoad \notin enclaves[e].held) =>
            /\ enclaves[e].init \/ driver = "enclaveapi"
            /\ driver = "Augusta" =>
                \A o \in Offsets :
                    LET at == {i \in 1 .. Len(enclaves[e].pages) : enclaves[e].pages[i].offset = o}
                    IN  enclaves[e].mapped[o] =
                            IF at = {} THEN {"reserved"}
                            ELSE Prot(enclaves[e].pages[CHOOSE i \in at : TRUE].page)

\* No load fails for the token that a cache had kept: a provider that can retry
\* is asked for another one (generic.rs:139-147).  But for sgx_enclave_common,
\* whose error for a bad token is not taken for one.
StaleTokenReplaced ==
    (result = "bad_token" /\ provider = "caching" /\ phase = "idle" /\ driver # "common")
        => token = "good"

\* A load ends, even if the AESM daemon never answers (aesm_protobuf/mod.rs:19-30).
LoadEnds == phase # "idle" ~> phase = "idle"
=============================================================================
