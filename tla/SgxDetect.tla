----------------------------- MODULE SgxDetect ------------------------------
(***************************************************************************)
(* sgx-detect (sgxs-tools/src/sgx_detect): finds out what a system can do  *)
(* and prints it as a tree, with help for what is missing.                 *)
(*                                                                         *)
(* The items of the tree depend on each other.  Tests::check_support goes  *)
(* through them in a topological order; an item that is visited updates    *)
(* itself or its dependents, which keep copies of what they saw.  The      *)
(* order comes from the names of the types (a BTreeMap in the procedural   *)
(* macro): here it is any topological order.  Some items load enclaves,    *)
(* again at each update, with launch tokens of AESM.                       *)
(***************************************************************************)
EXTENDS Integers

CONSTANT Supports   \* what SgxSupport::detect may find

\* A result is never None; neither AESM nor the device is there if the input is a
\* file of the tests.
ASSUME SupportsAssumption ==
    \A s \in Supports :
        /\ "None" \notin {s.cpuid12, s.attr, s.epc, s.aesm, s.dev}
        /\ s.aesm = "test" => s.dev = "test"

VARIABLES
    support,    \* SgxSupport, with what is read from it interpreted
    inner,      \* of an item: None, or what it was last updated with
    seen,       \* of an item: the statuses it copied from its dependencies
    success,    \* of the items that load enclaves
    timedout,   \* of TimeoutHardError, which all loads share
    visited,    \* the items that topovisit returned
    hidden,     \* DependencyInfo::hidden of the edges
    report      \* what print prints, and how it ends

detectVars == <<support, inner, seen, success, timedout, visited, hidden, report>>

-----------------------------------------------------------------------------
(***************************************************************************)
(* Status                                                                  *)
(***************************************************************************)
And(a, b) ==
    CASE "Fatal" \in {a, b} -> "Fatal"
      [] "Fatal" \notin {a, b} /\ "Unknown" \in {a, b} -> "Unknown"
      [] {a, b} \subseteq {"Supported", "Unsupported"} /\ "Supported" \in {a, b} -> "Supported"
      [] OTHER -> "Unsupported"
Or(a, b) ==
    CASE "Supported" \in {a, b} -> "Supported"
      [] "Supported" \notin {a, b} /\ "Unknown" \in {a, b} -> "Unknown"
      [] OTHER -> "Fatal"
AsReq(b) == IF b THEN "Supported" ELSE "Fatal"
DowngradeFatal(a) == IF a = "Fatal" THEN "Unsupported" ELSE a

-----------------------------------------------------------------------------
(***************************************************************************)
(* The items, and the tree in which they are printed.                      *)
(***************************************************************************)
Launchers == {"RunEnclaveDebug", "RunEnclaveProdWl", "RunEnclaveProd"}

\* Of a category, its tests.
Children ==
    [Root |-> {"Isa", "Flc", "Psw", "DataShield"},
     Isa |-> {"SgxCpuSupport", "SgxCpuConfiguration", "EnclaveAttributes", "EnclavePageCache",
              "SgxFeaturesCat"},
     SgxFeaturesCat |-> {"SgxFeatures", "EpcSize"},
     Flc |-> {"FlcCpuSupport", "FlcCpuConfiguration", "RunEnclaveProdWrap"},
     Psw |-> {"DeviceLoader", "EncllibLoader", "AesmService", "RunEnclave"},
     RunEnclave |-> Launchers,
     DataShield |-> {"EnclaveOS", "EnclaveManager"},
     EnclaveOS |-> {"GrapheneDevice", "PermDaemon"}]

Edge(from, to) == [from |-> from, to |-> to]
\* The dependencies that control visibility, and the others.
VisibilityEdges ==
    {Edge("SgxCpuSupport", t) : t \in {"SgxCpuConfiguration", "EnclaveAttributes",
                                       "EnclavePageCache", "Flc", "RunEnclaveProdWrap"}}
    \union {Edge("SgxCpuConfiguration", t) : t \in {"EnclaveAttributes", "EnclavePageCache",
                                                    "SgxFeatures"}}
    \union {Edge(f, "RunEnclaveProdWrap") : f \in {"FlcCpuSupport", "FlcCpuConfiguration"}}
    \union {Edge(f, "RunEnclave") : f \in {"AnyLoader", "AnyTokenProvider"}}
    \union {Edge("EnclavePageCache", "EpcSize"), Edge("FlcCpuSupport", "FlcCpuConfiguration"),
            Edge("RunEnclaveDebug", "RunEnclaveProdWl"), Edge("FlcCpuSupport", "RunEnclaveProd"),
            Edge("RunEnclaveProdWl", "RunEnclaveProd"), Edge("EnvTypeNotGeneric", "DataShield"),
            Edge("SgxFeatures", "SgxFeaturesCat")}
OtherEdges ==
    {Edge(f, t) : f \in {"SgxCpuConfiguration", "AnyLoader", "AnyTokenProvider"}, t \in Launchers}
    \union {Edge("EnclaveAttributes", "SgxFeatures"), Edge("SgxCpuSupport", "FlcCpuSupport"),
            Edge("SgxCpuConfiguration", "FlcCpuConfiguration"),
            Edge("RunEnclaveProd", "RunEnclaveProdWrap"), Edge("Flc", "Psw"),
            Edge("DeviceLoader", "AnyLoader"), Edge("EncllibLoader", "AnyLoader"),
            Edge("FlcCpuConfiguration", "AnyTokenProvider"), Edge("AesmService", "AnyTokenProvider")}
    \union UNION {{Edge(c, p) : c \in Children[p]} : p \in DOMAIN Children}
Edges == VisibilityEdges \union OtherEdges
Items == {e.from : e \in Edges} \union {e.to : e \in Edges}

Deps(n) == {e.from : e \in {e \in Edges : e.to = n}}
Dependents(n) == {e.to : e \in {e \in Edges : e.from = n}}

\* Items that keep a copy of the status of each of these dependencies.
Copies ==
    [Isa |-> Children["Isa"] \ {"SgxFeaturesCat"}, Flc |-> Children["Flc"],
     Psw |-> Children["Psw"] \union {"Flc"}, RunEnclave |-> Launchers,
     DataShield |-> Children["DataShield"], EnclaveOS |-> Children["EnclaveOS"],
     RunEnclaveProdWrap |-> {"RunEnclaveProd"},
     AnyLoader |-> {"DeviceLoader", "EncllibLoader"},
     AnyTokenProvider |-> {"FlcCpuConfiguration", "AesmService"},
     RunEnclaveDebug |-> {"SgxCpuConfiguration", "AnyLoader", "AnyTokenProvider"},
     RunEnclaveProdWl |-> {"SgxCpuConfiguration", "AnyLoader", "AnyTokenProvider"},
     RunEnclaveProd |-> {"SgxCpuConfiguration", "AnyLoader", "AnyTokenProvider"}]

-----------------------------------------------------------------------------
(***************************************************************************)
(* Print::supported of each item.                                          *)
(***************************************************************************)
MapReq(i, good) == IF i = "None" THEN "Unknown" ELSE AsReq(i \in good)
Saw(n, d) == seen[n][d]

\* Mutant: an enclave that can be launched in debug mode is enough.
RunEnclaveAny == Or(Saw("RunEnclave", "RunEnclaveDebug"), Or(Saw("RunEnclave", "RunEnclaveProd"),
                    Saw("RunEnclave", "RunEnclaveProdWl")))
RunEnclave == And(Saw("RunEnclave", "RunEnclaveDebug"),
                  Or(Saw("RunEnclave", "RunEnclaveProd"), Saw("RunEnclave", "RunEnclaveProdWl")))

\* Of the categories.
IsaStatus ==
    And(And(And(Saw("Isa", "SgxCpuSupport"), Saw("Isa", "SgxCpuConfiguration")),
            Saw("Isa", "EnclaveAttributes")), Saw("Isa", "EnclavePageCache"))

FlcStatus ==
    LET cfg == Saw("Flc", "FlcCpuConfiguration")
        run == Saw("Flc", "RunEnclaveProdWrap")
        works == IF cfg = "Unknown" THEN run ELSE And(cfg, run)
    IN  DowngradeFatal(And(Saw("Flc", "FlcCpuSupport"), works))

PswStatus ==
    LET provider == Or(Saw("Psw", "Flc"), Saw("Psw", "AesmService"))
        loader == Or(Saw("Psw", "DeviceLoader"), Saw("Psw", "EncllibLoader"))
    IN  And(And(provider, loader), Saw("Psw", "RunEnclave"))

DataShieldStatus == And(Saw("DataShield", "EnclaveOS"), Saw("DataShield", "EnclaveManager"))
EnclaveOSStatus == And(Saw("EnclaveOS", "GrapheneDevice"), Saw("EnclaveOS", "PermDaemon"))

\* Of what the tests depend on, and is not printed.
AnyLoaderStatus == Or(Saw("AnyLoader", "DeviceLoader"), Saw("AnyLoader", "EncllibLoader"))
AnyTokenProviderStatus ==
    Or(Saw("AnyTokenProvider", "FlcCpuConfiguration"), Saw("AnyTokenProvider", "AesmService"))
EnvTypeNotGenericStatus(i) == AsReq(i # "Generic")

\* Of the tests that were updated with i.
SgxCpuSupportStatus(i) == AsReq(i = "sgx")
SgxCpuConfigurationStatus(i) == MapReq(i, {"ok"})
EnclaveAttributesStatus(i) == MapReq(i, {"ok"})
EnclavePageCacheStatus(i) ==
    CASE i = "ok" -> "Supported" [] i = "none" -> "Fatal" [] OTHER -> "Unknown"
SgxFeaturesStatus(i) == MapReq(i, {"ok", "small"})
FlcCpuSupportStatus(i) == MapReq(i, {"lc"})
FlcCpuConfigurationStatus(i) ==
    CASE i = "err" -> "Unknown" [] i = "lc" -> "Supported" [] OTHER -> "Fatal"
RunEnclaveProdWrapStatus == Saw("RunEnclaveProdWrap", "RunEnclaveProd")
AesmServiceStatus(i) == MapReq(i, {"ok"})
DeviceLoaderStatus(i) == MapReq(i, {"ok"})
EncllibLoaderStatus(i) == MapReq(i, {"ok"})
GrapheneDeviceStatus(i) == MapReq(i, {"ok"})
EnclaveManagerStatus(i) == MapReq(i, {"ok"})
PermDaemonStatus(i) == MapReq(i, {"ok"})
LauncherStatus(n) == IF success[n] = "None" THEN "Unknown" ELSE AsReq(success[n] = "ok")

\* The status of an item that was updated with i; "None" is none at all.
StatusWith(n, i) ==
    CASE n \in {"Root", "SgxFeaturesCat", "EpcSize"} -> "None"
      [] n = "Isa" -> IsaStatus
      [] n = "Flc" -> FlcStatus
      [] n = "Psw" -> PswStatus
      [] n = "RunEnclave" -> RunEnclave
      [] n = "DataShield" -> DataShieldStatus
      [] n = "EnclaveOS" -> EnclaveOSStatus
      [] n = "AnyLoader" -> AnyLoaderStatus
      [] n = "AnyTokenProvider" -> AnyTokenProviderStatus
      [] n = "EnvTypeNotGeneric" -> EnvTypeNotGenericStatus(i)
      [] n = "SgxCpuSupport" -> SgxCpuSupportStatus(i)
      [] n = "SgxCpuConfiguration" -> SgxCpuConfigurationStatus(i)
      [] n = "EnclaveAttributes" -> EnclaveAttributesStatus(i)
      [] n = "EnclavePageCache" -> EnclavePageCacheStatus(i)
      [] n = "SgxFeatures" -> SgxFeaturesStatus(i)
      [] n = "FlcCpuSupport" -> FlcCpuSupportStatus(i)
      [] n = "FlcCpuConfiguration" -> FlcCpuConfigurationStatus(i)
      [] n = "RunEnclaveProdWrap" -> RunEnclaveProdWrapStatus
      [] n = "AesmService" -> AesmServiceStatus(i)
      [] n = "DeviceLoader" -> DeviceLoaderStatus(i)
      [] n = "EncllibLoader" -> EncllibLoaderStatus(i)
      [] n = "GrapheneDevice" -> GrapheneDeviceStatus(i)
      [] n = "EnclaveManager" -> EnclaveManagerStatus(i)
      [] n = "PermDaemon" -> PermDaemonStatus(i)
      [] n \in Launchers -> LauncherStatus(n)

Supported(n) == StatusWith(n, inner[n])

-----------------------------------------------------------------------------
(***************************************************************************)
(* Update::update of an item without dependencies, and update_dependency:  *)
(* what an item has after its dependency `d' was visited.                  *)
(***************************************************************************)
Sgx7 == IF support.cpuid7 = "lc" THEN "sgx" ELSE support.cpuid7

Update(n) ==
    CASE n = "SgxCpuSupport" -> Sgx7
      [] n = "AesmService" -> support.aesm
      [] n = "DeviceLoader" -> support.dev
      [] n = "EncllibLoader" -> support.enc
      [] n = "GrapheneDevice" -> support.graphene
      [] n = "PermDaemon" -> support.perm
      [] n = "EnclaveManager" -> support.agent
      [] n = "EnvTypeNotGeneric" -> support.env

\* Of the items that SgxCpuSupport updates.
SgxCpuConfigurationUpdate ==
    CASE Sgx7 = "err" -> "None" [] Sgx7 = "none" -> "no_sgx1" [] OTHER -> support.cpuid12
EnclaveAttributesUpdate == IF Sgx7 = "sgx" THEN support.attr ELSE "bad"
EnclavePageCacheUpdate == IF Sgx7 = "sgx" THEN support.epc ELSE "err"
FlcCpuSupportUpdate == IF Sgx7 = "sgx" THEN support.cpuid7 ELSE "None"

\* Of those that others update.
FlcCpuConfigurationUpdate == IF inner["FlcCpuSupport"] = "lc" THEN support.msr ELSE "None"
SgxFeaturesUpdate == inner["SgxCpuConfiguration"]

UpdateDependency(n, d) ==
    CASE d = "SgxCpuSupport" /\ n = "SgxCpuConfiguration" -> SgxCpuConfigurationUpdate
      [] d = "SgxCpuSupport" /\ n = "EnclaveAttributes" -> EnclaveAttributesUpdate
      [] d = "SgxCpuSupport" /\ n = "EnclavePageCache" -> EnclavePageCacheUpdate
      [] d = "SgxCpuSupport" /\ n = "FlcCpuSupport" -> FlcCpuSupportUpdate
      [] d = "FlcCpuSupport" /\ n = "FlcCpuConfiguration" -> FlcCpuConfigurationUpdate
      [] d = "SgxCpuConfiguration" /\ n = "SgxFeatures" -> SgxFeaturesUpdate
      [] OTHER -> inner[n]

(***************************************************************************)
(* try_loader: the load asks AESM for a token if it was there, unless it   *)
(* has timed out before.  Without a token no processor starts an enclave   *)
(* that has no launch control; for the rest a load may succeed or fail.    *)
(***************************************************************************)
Load(a) ==
    LET without == IF support.cpuid7 = "lc" THEN {"ok", "err"} ELSE {"err"}
    IN  [ok : without, timedout : {a}] \union
        IF support.aesm = "ok" /\ ~a
        THEN [ok : {"ok", "err"}, timedout : {FALSE}] \union [ok : without, timedout : {TRUE}]
        ELSE {}

\* Whether an item that loads enclaves has what it needs.
CanTry(copy) ==
    /\ copy["SgxCpuConfiguration"] = "Supported"
    /\ copy["AnyLoader"] = "Supported"
    /\ copy["AnyTokenProvider"] # "Fatal"

\* The device is tried, and the library if that failed.  An error of the library
\* does not replace what is there.
Tries(old, a) ==
    LET first == IF support.dev = "ok" THEN Load(a) ELSE {[ok |-> old, timedout |-> a]}
        second(r) == {[l EXCEPT !.ok = IF l.ok = "ok" \/ r.ok = "None" THEN l.ok ELSE r.ok] :
                        l \in Load(r.timedout)}
    IN  UNION {IF (support.dev = "ok" /\ r.ok = "ok") \/ support.enc # "ok"
               THEN {IF r.ok = "None" THEN [r EXCEPT !.ok = "err"] ELSE r}
               ELSE second(r) : r \in first}

\* What an item has copied after its dependency d was visited.
SeenAfter(n, d, status) ==
    [x \in DOMAIN seen[n] |-> IF x = d THEN status ELSE seen[n][x]]

\* Update::update of an item that loads enclaves, after its dependency d.
Launch(n, d, status, a) ==
    IF d \notin Deps(n) THEN {[ok |-> success[n], timedout |-> a]}
    ELSE IF CanTry(SeenAfter(n, d, status)) THEN Tries(success[n], a)
    ELSE {[ok |-> "None", timedout |-> a]}

-----------------------------------------------------------------------------
DetectInit ==
    /\ support \in Supports
    /\ inner = [n \in Items |-> "None"]
    /\ seen = [n \in DOMAIN Copies |->
                [d \in Copies[n] |-> IF n \in Launchers THEN "None" ELSE "Unknown"]]
    /\ success = [n \in Launchers |-> "None"]
    /\ timedout = FALSE
    /\ visited = {}
    /\ hidden = {}
    /\ report = [printed |-> FALSE]

\* Mutant: the items are visited in any order.
MayVisitAny(n) == n \notin visited
\* Topo::next
MayVisit(n) == n \notin visited /\ Deps(n) \subseteq visited

\* The items of DataShield, which only Root shares, are visited last.
Last == {"EnvTypeNotGeneric", "DataShield", "EnclaveManager", "EnclaveOS", "GrapheneDevice",
         "PermDaemon", "Root"}

\* Mutant: an item hides its dependents if it is not known to be supported.
HidesUnknown(status) == status = "Unknown"
\* update: whether an edge that controls visibility hides the dependent.
Hides(status) == status = "Fatal"

(***************************************************************************)
(* One iteration of check_support: the item is updated if it depends on    *)
(* none, and then every dependent is updated; hidden says of each edge     *)
(* whether it hides the dependent.                                         *)
(***************************************************************************)
Visit(n) ==
    LET i == IF Deps(n) = {} THEN Update(n) ELSE inner[n]
        status == StatusWith(n, i)
    IN  /\ MayVisit(n)
        /\ n \in Last => Items \ Last \subseteq visited
        /\ visited' = visited \union {n}
        /\ inner' = [m \in Items |-> IF m = n THEN i
                                    ELSE IF m \in Dependents(n) THEN UpdateDependency(m, n)
                                    ELSE inner[m]]
        /\ seen' = [m \in DOMAIN Copies |-> SeenAfter(m, n, status)]
        /\ \E x \in Launch("RunEnclaveDebug", n, status, timedout) :
           \E y \in Launch("RunEnclaveProdWl", n, status, x.timedout) :
           \E z \in Launch("RunEnclaveProd", n, status, y.timedout) :
                /\ success' = [RunEnclaveDebug |-> x.ok, RunEnclaveProdWl |-> y.ok,
                               RunEnclaveProd |-> z.ok]
                /\ timedout' = z.timedout
        /\ hidden' = hidden \union
                IF Hides(status) THEN {e \in VisibilityEdges : e.from = n} ELSE {}
        /\ UNCHANGED <<support, report>>

-----------------------------------------------------------------------------
(***************************************************************************)
(* Tests::print                                                            *)
(***************************************************************************)
\* print_recurse comes to an item if it is not hidden, and it came to its parent.
WithParents(S) == S \union {p \in DOMAIN Children : Children[p] \intersect S # {}}
Path(n) == WithParents(WithParents(WithParents({n})))
Shown(n) ==
    /\ "Root" \in Path(n)
    /\ \A e \in hidden : e.to \notin Path(n)

Helped == {n \in Items : Shown(n) /\ Supported(n) \notin {"None", "Supported"}}

\* DebugSupport::debug: it panics, says something, or is silent.
DebugSgxCpuSupport == "says"
DebugSgxCpuConfiguration ==
    IF inner["SgxCpuConfiguration"] = "None" THEN "panics" ELSE "says"
DebugEnclaveAttributes ==
    IF inner["EnclaveAttributes"] = "None" THEN "panics" ELSE "says"
DebugEnclavePageCache ==
    IF inner["EnclavePageCache"] = "None" THEN "panics" ELSE "says"
DebugFlcCpuConfiguration ==
    IF \/ Supported("Isa") # "Supported"
       \/ inner["FlcCpuConfiguration"] = "err" /\ Supported("RunEnclaveProdWrap") = "Supported"
    THEN "silent" ELSE "says"
DebugDeviceLoader ==
    CASE inner["DeviceLoader"] \in {"None", "ok"} -> "panics"
      [] inner["DeviceLoader"] = "test" -> "silent"
      [] OTHER -> "says"
DebugAesmService ==
    CASE inner["AesmService"] \in {"None", "ok"} -> "panics"
      [] inner["AesmService"] = "test" -> "silent"
      [] OTHER -> "says"
DebugLauncher == "says"

Debug(n) ==
    CASE n = "SgxCpuSupport" -> DebugSgxCpuSupport
      [] n = "SgxCpuConfiguration" -> DebugSgxCpuConfiguration
      [] n = "EnclaveAttributes" -> DebugEnclaveAttributes
      [] n = "EnclavePageCache" -> DebugEnclavePageCache
      [] n = "FlcCpuConfiguration" -> DebugFlcCpuConfiguration
      [] n = "DeviceLoader" -> DebugDeviceLoader
      [] n = "AesmService" -> DebugAesmService
      [] n \in Launchers -> DebugLauncher
      [] OTHER -> "silent"

ForType ==
    CASE support.env = "EnclaveOS" -> Supported("EnclaveOS")
      [] support.env = "EnclaveManager" -> Supported("EnclaveManager")
      [] support.env = "DataShield" -> Supported("DataShield")
      [] OTHER -> "Supported"

PrintReport ==
    /\ visited = Items
    /\ ~report.printed
    /\ LET ready == And(Supported("Isa"), Supported("Psw"))
       IN  report' = [printed |-> TRUE,
                      panics |-> {n \in Helped : Debug(n) = "panics"},
                      help |-> {n \in Helped : Debug(n) = "says"}, allSet |-> ready = "Supported",
                      exit |-> IF support.env # "Generic" /\ And(ready, ForType) # "Supported"
                               THEN 10 ELSE 0]
    /\ UNCHANGED <<support, inner, seen, success, timedout, visited, hidden>>

DetectNext == (\E n \in Items : Visit(n)) \/ PrintReport

DetectSpec == DetectInit /\ [][DetectNext]_detectVars

-----------------------------------------------------------------------------
(***************************************************************************)
(* Properties                                                              *)
(***************************************************************************)
\* Whatever the order of the visits, what is printed is what was found: when an
\* item was visited, its status does not change any more, so that the copies
\* that other items have of it are true (tests/mod.rs:1024-1062).
NothingStale ==
    \A n \in DOMAIN Copies : \A d \in Copies[n] \intersect visited : seen[n][d] = Supported(d)

\* "May panic if `supported` returns `Status::Supported`" (scaffold.rs:61): the
\* help does not panic for any other item that is printed, because an item that
\* could not be updated is hidden by the one that it depends on; and hiding
\* never hides all the reasons: a user who is not told that all is set gets
\* help about some item, unless the input is a file (debug.rs).
HelpSound ==
    report.printed =>
        /\ report.panics = {}
        /\ ~report.allSet /\ support.dev # "test" => report.help # {}

\* "You're all set" is printed, and a product reported as configured, only if
\* the processor is in order, and an enclave was really launched in debug mode
\* and one in production mode.
AllSetMeansLaunched ==
    report.printed /\ report.allSet =>
        /\ support.cpuid7 \in {"sgx", "lc"} /\ support.cpuid12 = "ok"
        /\ support.attr = "ok" /\ support.epc = "ok"
        /\ success["RunEnclaveDebug"] = "ok"
        /\ "ok" \in {success["RunEnclaveProd"], success["RunEnclaveProdWl"]}
        /\ report.exit = 0 /\ support.env = "DataShield" =>
                {support.graphene, support.perm, support.agent} = {"ok"}
=============================================================================
