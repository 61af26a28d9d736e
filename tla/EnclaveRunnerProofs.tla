------------------------- MODULE EnclaveRunnerProofs ------------------------
(***************************************************************************)
(* Proofs about EnclaveRunner, for any set of TCSs, enclaves, runs and     *)
(* usercalls: every TCS is in one place and none gets lost, and a run      *)
(* reports the first abort that had to end it.                             *)
(***************************************************************************)
EXTENDS EnclaveRunner, TLAPS

LoopStates == {"idle", "starting", "running", "joining", "done"}
CallsOut == Usercalls \union {"return", "return_nonzero"}
TaskSet == [tcs : Tcs, call : CallsOut]
ReturnSet == [res : Results, src : Sources]

RunnerTypeOK ==
    /\ enclave \in Enclaves
    /\ exiting \in BOOLEAN
    /\ pool \subseteq Tcs
    /\ queues \in Runs \union {None}
    /\ asked \in BOOLEAN
    /\ primary \in Results \union {None}
    /\ others \subseteq Results
    /\ loop \in [Runs -> LoopStates]
    /\ work \in [Runs -> SUBSET Tcs]
    /\ inside \in [Runs -> SUBSET Tcs]
    /\ tasks \in [Runs -> SUBSET TaskSet]
    /\ trapping \in [Runs -> SUBSET Tcs]
    /\ returns \in [Runs -> Seq(ReturnSet)]
    /\ result \in [Runs -> Results \union {None}]
    /\ outcome \in [Runs -> Results \union {None, "panicked", "unreachable"}]
    /\ shared \subseteq Runs \union {None}
    /\ asyncs \in Nat
    /\ quit \subseteq Tcs
    /\ first \in [Runs -> Results \union {None}]

-----------------------------------------------------------------------------
(***************************************************************************)
(* Invariants                                                              *)
(***************************************************************************)
\* TcsUnique is not inductive: MainEntry hands out Main, which has to be out of
\* reach of launch_thread before that and not in any run.
IdleInv == \A c \in Runs : loop[c] = "idle" => Held(c) = {}
MainInv ==
    enclave.kind = "Command" =>
        /\ Main \notin pool
        /\ \A c \in Runs : c # MainRun => loop[c] = "idle"
UniqueInv == RunnerTypeOK /\ TcsUnique /\ IdleInv /\ MainInv

\* A run that ends by itself, because the entry point returned, leaves no TCS
\* behind: only libraries have such runs, and they have one TCS each.
SingleInv == enclave.kind = "Library" => \A c \in Runs : \A s, t \in Held(c) : s = t
OkInv == \A c \in Runs : first[c] = "Ok" => enclave.kind = "Library" /\ Held(c) = {}

EndedWell == ~exiting /\ \A c \in Runs : loop[c] \in {"joining", "done"} => first[c] = "Ok"
Somewhere(t) ==
    \/ t \in pool
    \/ \E c \in Runs : t \in Held(c)
    \/ enclave.kind = "Command" /\ t = Main /\ loop[MainRun] = "idle"
AccountInv == EndedWell => \A t \in enclave.tcss \ quit : Somewhere(t)
\* A TCS whose panic waits for the trap has quit.
TrapInv == \A c \in Runs : trapping[c] \subseteq quit
NotStartedInv == \A c \in Runs : loop[c] = "idle" => first[c] # "Ok"
ConserveInv == UniqueInv /\ SingleInv /\ OkInv /\ NotStartedInv /\ TrapInv /\ AccountInv

\* The results in the return channel of a run, and how far it is decided.
EndsRun(r) == Ends(r.res, r.src)
Undecided(q) == \A i \in 1 .. Len(q) : ~EndsRun(q[i])
DecidedAs(q, res) ==
    \E i \in 1 .. Len(q) :
        EndsRun(q[i]) /\ q[i].res = res /\ \A j \in 1 .. i - 1 : ~EndsRun(q[j])
\* main_entry is the only one that gives MainReturned, and no library has it.
FromMain(r) ==
    /\ r.res = "MainReturned" => r.src = "ExecutableMain"
    /\ enclave.kind = "Library" => r.src # "ExecutableMain"

\* A result that ends the run is in the channel while it is the first one, and
\* its reason is where main_entry looks for it when the loop has ended.
FirstInv(c) ==
    /\ loop[c] \in {"idle", "starting"} => returns[c] = <<>> /\ first[c] = None
    /\ loop[c] = "running" =>
        /\ first[c] = None => Undecided(returns[c])
        /\ first[c] # None => DecidedAs(returns[c], first[c])
    /\ loop[c] = "joining" =>
        /\ enclave.kind = "Library" => first[c] # "MainReturned"
        /\ first[c] \in Results \ {"Secondary"}
        /\ \/ result[c] = first[c] /\ primary = None
           \/ result[c] = "Secondary" /\ primary = first[c] /\ enclave.kind = "Command"
OutcomeInv(c) ==
    /\ trapping[c] = {}
    /\ loop[c] # "done" => outcome[c] = None
    /\ outcome[c] \in {None, "panicked", first[c]}
    /\ \A i \in 1 .. Len(returns[c]) : FromMain(returns[c][i])
PrimaryInv == primary # None => enclave.kind = "Command" /\ loop[MainRun] = "joining"
Waitless == ~enclave.forward_panics /\ ~enclave.contended
ReasonInv ==
    Waitless => PrimaryInv /\ \A c \in Runs : FirstInv(c) /\ OutcomeInv(c)
AbortInv == ConserveInv /\ ReasonInv

-----------------------------------------------------------------------------
(***************************************************************************)
(* Types                                                                   *)
(***************************************************************************)
LEMMA EnclaveFields ==
    ASSUME RunnerTypeOK
    PROVE  /\ enclave.kind \in {"Command", "Library"} /\ enclave.tcss \subseteq Tcs
           /\ Main \in enclave.tcss /\ Main \in Tcs
           /\ enclave.forward_panics \in BOOLEAN /\ enclave.contended \in BOOLEAN
  BY EnclavesAssumption DEF RunnerTypeOK, EnclaveConfigs

LEMMA ModeType == \A t : Mode(t) \in Sources
  BY DEF Mode, Sources

LEMMA MainRunType == MainRun \in Runs
  BY RunsAssumption DEF MainRun

\* Post and Decide, for any result and source.
LEMMA PostType ==
    ASSUME RunnerTypeOK, NEW c \in Runs, NEW res \in Results, NEW src \in Sources,
           Post(c, res, src)
    PROVE  returns' \in [Runs -> Seq(ReturnSet)]
  <1>1. [res |-> res, src |-> src] \in ReturnSet
    BY DEF ReturnSet
  <1>2. returns[c] \in Seq(ReturnSet)
    BY DEF RunnerTypeOK
  <1>3. Append(returns[c], [res |-> res, src |-> src]) \in Seq(ReturnSet)
    BY <1>1, <1>2
  <1> QED BY <1>3 DEF RunnerTypeOK, Post

LEMMA DecideType ==
    ASSUME RunnerTypeOK, NEW c \in Runs, NEW res \in Results, NEW src, Decide(c, res, src)
    PROVE  first' \in [Runs -> Results \union {None}]
  BY DEF RunnerTypeOK, Decide

LEMMA AnswerType ==
    ASSUME RunnerTypeOK, NEW c \in Runs, NEW t \in Tcs, Answer(c, t)
    PROVE  work' \in [Runs -> SUBSET Tcs] /\ returns' \in [Runs -> Seq(ReturnSet)]
  <1>1. CASE exiting /\ Post(c, "Secondary", Mode(t)) /\ UNCHANGED work
    BY <1>1, PostType, ModeType DEF RunnerTypeOK, Results
  <1>2. CASE ~exiting /\ work' = [work EXCEPT ![c] = @ \union {t}] /\ UNCHANGED returns
    BY <1>2 DEF RunnerTypeOK
  <1> QED BY <1>1, <1>2 DEF Answer

LEMMA HandlesType ==
    ASSUME RunnerTypeOK, NEW c \in Runs, NEW t, NEW u, Handles(c, t, u)
    PROVE  tasks' \in [Runs -> SUBSET TaskSet] /\ t \in Tcs
  BY DEF RunnerTypeOK, Handles, TaskSet

LEMMA PanicType ==
    ASSUME RunnerTypeOK, NEW c \in Runs, NEW t \in Tcs, Panic(c, t)
    PROVE  /\ exiting' \in BOOLEAN /\ first' \in [Runs -> Results \union {None}]
           /\ quit' \subseteq Tcs /\ trapping' \in [Runs -> SUBSET Tcs]
           /\ returns' \in [Runs -> Seq(ReturnSet)]
  <1>1. Decide(c, "Panic", Mode(t)) /\ "Panic" \in Results
    BY DEF Panic, Results
  <1>2. returns' \in [Runs -> Seq(ReturnSet)]
    <2>1. CASE UNCHANGED returns
      BY <2>1 DEF RunnerTypeOK
    <2>2. CASE Post(c, "Panic", Mode(t))
      BY <1>1, <2>2, PostType, ModeType
    <2> QED BY <2>1, <2>2 DEF Panic, PostPanic
  <1>3. trapping' \in [Runs -> SUBSET Tcs] /\ quit' \subseteq Tcs /\ exiting' \in BOOLEAN
    BY DEF Panic, AbortAllThreads, RunnerTypeOK
  <1> QED BY <1>1, <1>2, <1>3, DecideType

LEMMA EndLoopType ==
    ASSUME RunnerTypeOK, NEW c \in Runs, EndLoop(c)
    PROVE  /\ tasks' \in [Runs -> SUBSET TaskSet] /\ trapping' \in [Runs -> SUBSET Tcs]
           /\ returns' \in [Runs -> Seq(ReturnSet)]
  <1>1. <<>> \in Seq(ReturnSet)
    OBVIOUS
  <1> QED BY <1>1 DEF RunnerTypeOK, EndLoop

LEMMA TypeInit == Init => RunnerTypeOK
  <1> SUFFICES ASSUME Init PROVE RunnerTypeOK
    OBVIOUS
  <1>1. pool \subseteq Tcs
    BY EnclavesAssumption DEF Init, EnclaveConfigs
  <1>2. returns \in [Runs -> Seq(ReturnSet)]
    BY DEF Init
  <1>3. loop \in [Runs -> LoopStates]
    BY DEF Init, LoopStates
  <1> QED BY <1>1, <1>2, <1>3 DEF Init, RunnerTypeOK

LEMMA TypeStep == RunnerTypeOK /\ [Next]_vars => RunnerTypeOK'
  <1> SUFFICES ASSUME RunnerTypeOK, [Next]_vars PROVE RunnerTypeOK'
    OBVIOUS
  <1> USE DEF enclaveVars, runVars, historyVars
  <1>0. CASE UNCHANGED vars
    BY <1>0 DEF vars, RunnerTypeOK
  <1>1. ASSUME NEW c \in Runs, MainEntry(c) PROVE RunnerTypeOK'
    BY <1>1, EnclaveFields DEF MainEntry, Run, RunnerTypeOK, LoopStates
  <1>2. ASSUME NEW c \in Runs, LibraryEntry(c) PROVE RunnerTypeOK'
    <2>1. CASE pool = {} /\ UNCHANGED <<pool, work>>
      BY <1>2, <2>1 DEF LibraryEntry, Run, RunnerTypeOK, LoopStates
    <2>2. ASSUME NEW t \in pool, pool' = pool \ {t}, Run(c, t), UNCHANGED outcome
          PROVE  RunnerTypeOK'
      BY <1>2, <2>2 DEF LibraryEntry, Run, RunnerTypeOK, LoopStates
    <2> QED BY <1>2, <2>1, <2>2 DEF LibraryEntry
  <1>3. ASSUME NEW c \in Runs, StartLoop(c) PROVE RunnerTypeOK'
    BY <1>3 DEF StartLoop, RunnerTypeOK, LoopStates
  <1>4. ASSUME NEW c \in Runs, ReturnFuture(c) PROVE RunnerTypeOK'
    <2> DEFINE r == Head(returns[c])
    <2>1. r \in ReturnSet /\ Tail(returns[c]) \in Seq(ReturnSet)
      BY <1>4 DEF ReturnFuture, RunnerTypeOK
    <2>2. ASSUME FinishLoop(c, r)
          PROVE  /\ tasks' \in [Runs -> SUBSET TaskSet] /\ trapping' \in [Runs -> SUBSET Tcs]
                 /\ returns' \in [Runs -> Seq(ReturnSet)]
                 /\ primary' \in Results \union {None} /\ loop' \in [Runs -> LoopStates]
                 /\ result' \in [Runs -> Results \union {None}]
                 /\ outcome' \in [Runs -> Results \union {None, "panicked", "unreachable"}]
      <3>1. EndLoop(c)
        BY <2>2 DEF FinishLoop
      <3>2. r.res \in Results /\ "Secondary" \in Results
        BY <2>1 DEF ReturnSet, Results
      <3> HIDE DEF r
      <3>3. primary' \in Results \union {None} /\ loop' \in [Runs -> LoopStates]
        BY <2>2, <3>2 DEF FinishLoop, RunnerTypeOK, LoopStates
      <3>4. result' \in [Runs -> Results \union {None}]
        BY <2>2, <3>2 DEF FinishLoop, RunnerTypeOK
      <3>5. outcome' \in [Runs -> Results \union {None, "panicked", "unreachable"}]
        BY <2>2 DEF FinishLoop, RunnerTypeOK
      <3> QED BY <3>1, <3>3, <3>4, <3>5, EndLoopType
    <2>3. CASE FinishLoop(c, r) /\ UNCHANGED others
      <3> HIDE DEF r
      <3> QED BY <1>4, <2>2, <2>3 DEF ReturnFuture, RunnerTypeOK
    <2>4. CASE /\ others' = others \union {r.res} \/ UNCHANGED others
               /\ returns' = [returns EXCEPT ![c] = Tail(@)]
               /\ UNCHANGED <<primary, loop, tasks, trapping, result, outcome>>
      <3>1. r.res \in Results
        BY <2>1 DEF ReturnSet
      <3>2. returns' \in [Runs -> Seq(ReturnSet)]
        BY <2>1, <2>4 DEF RunnerTypeOK
      <3> HIDE DEF r
      <3> QED BY <1>4, <2>4, <3>1, <3>2 DEF ReturnFuture, RunnerTypeOK
    <2> QED BY <1>4, <2>3, <2>4 DEF ReturnFuture
  <1>5. ASSUME NEW c \in Runs, Join(c) PROVE RunnerTypeOK'
    <2>1. outcome' \in [Runs -> Results \union {None, "panicked", "unreachable"}]
      <3>1. /\ ExitReason(result[c]) \in Results \union {None, "unreachable"}
            /\ LibraryResult(result[c]) \in Results \union {None, "unreachable"}
        BY DEF ExitReason, LibraryResult, RunnerTypeOK
      <3> QED BY <1>5, <3>1 DEF Join, RunnerTypeOK
    <2> QED BY <1>5, <2>1 DEF Join, AbortAllThreads, RunnerTypeOK, LoopStates
  <1>6. ASSUME NEW c \in Runs, NEW u \in Usercalls, AsyncUsercall(c, u) PROVE RunnerTypeOK'
    <2>1. returns' \in [Runs -> Seq(ReturnSet)]
      <3>1. CASE UNCHANGED returns
        BY <3>1 DEF RunnerTypeOK
      <3>2. ASSUME NEW res \in Results, Post(c, res, "AsyncUsercall")
            PROVE  returns' \in [Runs -> Seq(ReturnSet)]
        BY <3>2, PostType DEF Sources
      <3> QED BY <1>6, <3>1, <3>2 DEF AsyncUsercall, PostPanic, Results
    <2>2. first' \in [Runs -> Results \union {None}]
      <3>1. CASE UNCHANGED first
        BY <3>1 DEF RunnerTypeOK
      <3>2. ASSUME NEW res \in Results, Decide(c, res, "AsyncUsercall")
            PROVE  first' \in [Runs -> Results \union {None}]
        BY <3>2, DecideType
      <3> QED BY <1>6, <3>1, <3>2 DEF AsyncUsercall, Results
    <2>3. work' \in [Runs -> SUBSET Tcs] /\ pool' \subseteq Tcs
      <3>1. CASE UNCHANGED <<pool, work>>
        BY <3>1 DEF RunnerTypeOK
      <3>2. ASSUME NEW n \in pool, pool' = pool \ {n},
                   work' = [work EXCEPT ![c] = @ \union {n}]
            PROVE  work' \in [Runs -> SUBSET Tcs] /\ pool' \subseteq Tcs
        BY <3>2 DEF RunnerTypeOK
      <3> QED BY <1>6, <3>1, <3>2 DEF AsyncUsercall
    <2>4. exiting' \in BOOLEAN
      <3>1. CASE UNCHANGED exiting
        BY <3>1 DEF RunnerTypeOK
      <3>2. CASE AbortAllThreads
        BY <3>2 DEF AbortAllThreads
      <3> QED BY <1>6, <3>1, <3>2 DEF AsyncUsercall
    <2>5. asyncs' \in Nat
      BY <1>6 DEF AsyncUsercall, RunnerTypeOK
    <2> QED BY <1>6, <2>1, <2>2, <2>3, <2>4, <2>5 DEF AsyncUsercall, RunnerTypeOK
  <1>7. ASSUME NEW c \in Runs, NEW t \in Tcs, Enter(c, t) PROVE RunnerTypeOK'
    BY <1>7 DEF Enter, RunnerTypeOK
  <1>8. ASSUME NEW c \in Runs, NEW t \in Tcs, NEW u \in Exits(t), Leave(c, t, u)
        PROVE  RunnerTypeOK'
    <2>1. [tcs |-> t, call |-> u] \in TaskSet
      BY DEF Exits, TaskSet, CallsOut
    <2> QED BY <1>8, <2>1 DEF Leave, RunnerTypeOK
  <1>9. ASSUME NEW c \in Runs, NEW t \in Tcs, Handle(c, t) PROVE RunnerTypeOK'
    <2>1. CASE HandleOther(c, t)
      BY <2>1, HandlesType, AnswerType DEF HandleOther, RunnerTypeOK
    <2>2. CASE HandleLaunchThread(c, t)
      <3>1. work' \in [Runs -> SUBSET Tcs] /\ returns' \in [Runs -> Seq(ReturnSet)]
        <4>1. CASE Answer(c, t)
          BY <4>1, AnswerType
        <4>2. ASSUME NEW n \in pool, work' = [work EXCEPT ![c] = @ \union {n, t}],
                     UNCHANGED returns
              PROVE  work' \in [Runs -> SUBSET Tcs] /\ returns' \in [Runs -> Seq(ReturnSet)]
          BY <4>2 DEF RunnerTypeOK
        <4>3. ASSUME NEW n \in pool, work' = [work EXCEPT ![c] = @ \union {n}],
                     Post(c, "Secondary", Mode(t))
              PROVE  work' \in [Runs -> SUBSET Tcs] /\ returns' \in [Runs -> Seq(ReturnSet)]
          BY <4>3, PostType, ModeType DEF RunnerTypeOK, Results
        <4> QED BY <2>2, <4>1, <4>2, <4>3 DEF HandleLaunchThread
      <3> QED BY <2>2, <3>1, HandlesType DEF HandleLaunchThread, RunnerTypeOK
    <2>3. CASE HandleExit(c, t)
      <3>1. "Exit" \in Results
        BY DEF Results
      <3> QED BY <2>3, <3>1, HandlesType, DecideType, PostType, ModeType
              DEF HandleExit, AbortAllThreads, RunnerTypeOK
    <2>4. CASE HandlePanic(c, t)
      BY <2>4, HandlesType, PanicType DEF HandlePanic, RunnerTypeOK
    <2>5. ASSUME NEW u, NEW res \in Results, HandleAbort(c, t, u, res) PROVE RunnerTypeOK'
      BY <2>5, HandlesType, DecideType, PostType, ModeType DEF HandleAbort, RunnerTypeOK
    <2>6. CASE HandleAsyncQueues(c, t)
      <3>1. CASE Answer(c, t) /\ UNCHANGED <<exiting, trapping, quit, first>>
        BY <2>6, <3>1, HandlesType, AnswerType DEF HandleAsyncQueues, RunnerTypeOK
      <3>2. CASE Panic(c, t) /\ UNCHANGED <<asked, shared, work>>
        BY <2>6, <3>2, HandlesType, PanicType DEF HandleAsyncQueues, RunnerTypeOK
      <3> QED BY <2>6, <3>1, <3>2 DEF HandleAsyncQueues
    <2>7. CASE HandleReturn(c, t)
      <3>1. PICK res \in Results : Decide(c, res, Mode(t)) /\ Post(c, res, Mode(t))
        BY <2>7 DEF HandleReturn, Results
      <3> QED BY <2>7, <3>1, HandlesType, DecideType, PostType, ModeType
              DEF HandleReturn, RunnerTypeOK
    <2>8. ASSUME NEW u, TaskPanics(c, t, u) PROVE RunnerTypeOK'
      BY <2>8, HandlesType DEF TaskPanics, RunnerTypeOK
    <2> QED BY <1>9, <2>1, <2>2, <2>3, <2>4, <2>5, <2>6, <2>7, <2>8
            DEF Handle, HandleMalformed, HandleNonzeroReturn, Results
  <1>10. ASSUME NEW c \in Runs, NEW t \in Tcs, Trapped(c, t) PROVE RunnerTypeOK'
    <2>1. "Panic" \in Results
      BY DEF Results
    <2>2. returns' \in [Runs -> Seq(ReturnSet)]
      <3>1. CASE UNCHANGED returns
        BY <3>1 DEF RunnerTypeOK
      <3>2. CASE Post(c, "Panic", Mode(t))
        BY <2>1, <3>2, PostType, ModeType
      <3> QED BY <1>10, <3>1, <3>2 DEF Trapped, PostPanic
    <2> QED BY <1>10, <2>2 DEF Trapped, RunnerTypeOK
  <1> QED BY <1>0, <1>1, <1>2, <1>3, <1>4, <1>5, <1>6, <1>7, <1>8, <1>9, <1>10 DEF Next

\* Every variable keeps its type: in particular only results of handlers arrive
\* at return_future, and only TCSs of an enclave in its channels.
THEOREM TypeCorrectness == Spec => []RunnerTypeOK
  BY TypeInit, TypeStep, PTL DEF Spec

-----------------------------------------------------------------------------
(***************************************************************************)
(* Every TCS is in one place                                               *)
(***************************************************************************)
\* The part of TcsUnique about the places of one run.
Local(c) ==
    /\ work[c] \intersect inside[c] = {}
    /\ (work[c] \union inside[c]) \intersect (TasksOf(c) \union trapping[c]) = {}
    /\ TasksOf(c) \intersect trapping[c] = {}
    /\ \A k, l \in tasks[c] : k.tcs = l.tcs => k = l

\* What a step of run c does to the TCSs: it may move them within the run, drop
\* them, take them from the pool and put them back, and leaves other runs alone.
Same(d) ==
    /\ work'[d] = work[d] /\ inside'[d] = inside[d]
    /\ tasks'[d] = tasks[d] /\ trapping'[d] = trapping[d]
HoldStep(c) ==
    /\ Local(c)'
    /\ Held(c)' \subseteq Held(c) \union (pool \ pool')
    /\ pool' \subseteq pool \union (Held(c) \ Held(c)')
    /\ \A d \in Runs \ {c} : Same(d)
\* Its run has been started, and is the only one of a Command, whose main thread
\* never gets into the pool.
LoopStep(c) ==
    /\ enclave' = enclave
    /\ loop'[c] # "idle"
    /\ \A d \in Runs \ {c} : loop'[d] = loop[d]
    /\ enclave.kind = "Command" => c = MainRun /\ Main \notin pool'

LEMMA SameHeld ==
    ASSUME NEW d, Same(d)
    PROVE  Held(d)' = Held(d) /\ (Local(d) => Local(d)')
  BY DEF Same, Held, Local, TasksOf

LEMMA HoldStepUnique ==
    ASSUME UniqueInv, NEW c \in Runs, HoldStep(c), LoopStep(c), RunnerTypeOK'
    PROVE  UniqueInv'
  <1>1. \A d \in Runs \ {c} : Held(d)' = Held(d) /\ Local(d)'
    BY SameHeld DEF HoldStep, UniqueInv, TcsUnique, Local
  <1>2. \A d \in Runs : Local(d)'
    BY <1>1 DEF HoldStep
  <1>3. \A d \in Runs : pool' \intersect Held(d)' = {}
    BY <1>1 DEF HoldStep, UniqueInv, TcsUnique
  <1>4. \A d, e \in Runs : d # e => Held(d)' \intersect Held(e)' = {}
    BY <1>1 DEF HoldStep, UniqueInv, TcsUnique
  <1>5. TcsUnique'
    BY <1>2, <1>3, <1>4 DEF TcsUnique, Local
  <1>6. IdleInv' /\ MainInv'
    BY <1>1 DEF LoopStep, UniqueInv, IdleInv, MainInv
  <1> QED BY <1>5, <1>6 DEF UniqueInv

\* A run that holds a TCS, or whose loop runs, has been started.
LEMMA Started ==
    ASSUME UniqueInv, NEW c \in Runs, Held(c) # {} \/ loop[c] # "idle"
    PROVE  loop[c] # "idle" /\ (enclave.kind = "Command" => c = MainRun /\ Main \notin pool)
  BY DEF UniqueInv, IdleInv, MainInv

LEMMA TakeTask ==
    ASSUME UniqueInv, NEW c \in Runs, NEW t, NEW u, Handles(c, t, u)
    PROVE  /\ t \in Held(c) /\ t \notin work[c] \union inside[c] \union trapping[c]
           /\ TasksOf(c)' = TasksOf(c) \ {t}
           /\ \A k, l \in tasks'[c] : k.tcs = l.tcs => k = l
           /\ \A d \in Runs \ {c} : tasks'[d] = tasks[d]
  <1>1. [tcs |-> t, call |-> u] \in tasks[c] /\ tasks'[c] = tasks[c] \ {[tcs |-> t, call |-> u]}
    BY DEF Handles, UniqueInv, RunnerTypeOK
  <1>2. t \in TasksOf(c)
    BY <1>1 DEF TasksOf
  <1>3. \A k, l \in tasks[c] : k.tcs = l.tcs => k = l
    BY DEF UniqueInv, TcsUnique
  <1>4. TasksOf(c)' = TasksOf(c) \ {t}
    <2>1. \A s : s \in TasksOf(c)' => s \in TasksOf(c) \ {t}
      BY <1>1, <1>3 DEF TasksOf
    <2>2. \A s \in TasksOf(c) \ {t} : s \in TasksOf(c)'
      BY <1>1 DEF TasksOf
    <2> QED BY <2>1, <2>2
  <1>5. t \in Held(c) /\ t \notin work[c] \union inside[c] \union trapping[c]
    BY <1>2 DEF Held, UniqueInv, TcsUnique
  <1>6. \A d \in Runs \ {c} : tasks'[d] = tasks[d]
    BY DEF Handles, UniqueInv, RunnerTypeOK
  <1> QED BY <1>1, <1>3, <1>4, <1>5, <1>6

\* A task that handles what t left the enclave with sends A to the workers and
\* leaves B to wait for the trap: t itself, or a TCS from the pool.
Sends(c, A, B) ==
    /\ work'[c] = work[c] \union A /\ inside'[c] = inside[c]
    /\ trapping'[c] = trapping[c] \union B
    /\ \A d \in Runs \ {c} :
        work'[d] = work[d] /\ inside'[d] = inside[d] /\ trapping'[d] = trapping[d]

LEMMA HandleEffect ==
    ASSUME UniqueInv, NEW c \in Runs, NEW t, NEW u, Handles(c, t, u), NEW A, NEW B,
           Sends(c, A, B),
           A \union B \subseteq {t} \union (pool \ pool'), A \intersect B = {},
           pool' \subseteq pool \union ({t} \ (A \union B))
    PROVE  /\ HoldStep(c) /\ Held(c)' = (Held(c) \ {t}) \union A \union B /\ t \in Held(c)
  <1>1. /\ work'[c] = work[c] \union A /\ trapping'[c] = trapping[c] \union B
        /\ inside'[c] = inside[c]
        /\ \A d \in Runs \ {c} : work'[d] = work[d] /\ trapping'[d] = trapping[d] /\ inside'[d] = inside[d]
    BY DEF Sends
  <1>2. /\ t \in Held(c) /\ t \notin work[c] \union inside[c] \union trapping[c]
        /\ TasksOf(c)' = TasksOf(c) \ {t}
        /\ \A k, l \in tasks'[c] : k.tcs = l.tcs => k = l
        /\ \A d \in Runs \ {c} : tasks'[d] = tasks[d]
    BY TakeTask
  <1>3. Held(c)' = (Held(c) \ {t}) \union A \union B
    BY <1>1, <1>2 DEF Held
  <1>4. pool \intersect Held(c) = {} /\ Local(c)
    BY DEF UniqueInv, TcsUnique, Local
  <1>5. Local(c)'
    <2>1. (A \union B) \intersect (Held(c) \ {t}) = {}
      BY <1>4
    <2>2. (A \union B) \intersect (work[c] \union inside[c] \union trapping[c]) = {}
      BY <1>2, <2>1 DEF Held
    <2>3. (A \union B) \intersect (TasksOf(c) \ {t}) = {}
      BY <2>1 DEF Held
    <2> QED BY <1>1, <1>2, <1>4, <2>2, <2>3 DEF Local
  <1>6. Held(c)' \subseteq Held(c) \union (pool \ pool') /\ pool' \subseteq pool \union (Held(c) \ Held(c)')
    BY <1>2, <1>3, <1>4
  <1>7. \A d \in Runs \ {c} : Same(d)
    BY <1>1, <1>2 DEF Same
  <1> QED BY <1>2, <1>3, <1>5, <1>6, <1>7 DEF HoldStep

-----------------------------------------------------------------------------
(***************************************************************************)
(* No TCS gets lost                                                        *)
(***************************************************************************)
\* What a step of run c may do to the account of the TCSs: what disappears has
\* quit, or the enclave is ending.
Ended == {"joining", "done"}
KeepStep(c) ==
    /\ quit \subseteq quit' /\ (exiting' = exiting \/ exiting' = TRUE)
    /\ \A d \in Runs \ {c} : first'[d] = first[d]
    /\ loop[c] # "idle"
    /\ loop[c] \in Ended => loop'[c] \in Ended /\ first'[c] = first[c]
    /\ enclave.kind = "Library" => Held(c)' \subseteq Held(c)
    /\ first'[c] = "Ok" => first[c] = "Ok" \/ (enclave.kind = "Library" /\ Held(c)' = {})
    /\ trapping'[c] \subseteq trapping[c] \union quit'
    /\ EndedWell' => (Held(c) \union pool) \ quit' \subseteq Held(c)' \union pool'

LEMMA KeepStepConserve ==
    ASSUME ConserveInv, NEW c \in Runs, HoldStep(c), LoopStep(c), KeepStep(c), RunnerTypeOK'
    PROVE  ConserveInv'
  <1>1. UniqueInv'
    BY HoldStepUnique DEF ConserveInv
  <1>2. \A d \in Runs \ {c} : Held(d)' = Held(d) /\ first'[d] = first[d] /\ loop'[d] = loop[d]
    BY SameHeld DEF HoldStep, KeepStep, LoopStep
  <1>3. enclave' = enclave
    BY DEF LoopStep
  <1>4. SingleInv'
    BY <1>2, <1>3 DEF ConserveInv, SingleInv, KeepStep
  <1>5. OkInv'
    BY <1>2, <1>3 DEF ConserveInv, OkInv, KeepStep
  <1>6. AccountInv'
    <2> SUFFICES ASSUME EndedWell', NEW t \in enclave.tcss \ quit' PROVE Somewhere(t)'
      BY <1>3 DEF AccountInv
    <2>1. EndedWell
      BY <1>2 DEF EndedWell, KeepStep, Ended
    <2>2. Somewhere(t)
      BY <2>1 DEF ConserveInv, AccountInv, KeepStep
    <2>3. CASE t \in pool \/ t \in Held(c)
      <3>1. t \in Held(c)' \union pool'
        BY <2>3 DEF KeepStep
      <3> QED BY <3>1 DEF Somewhere
    <2>4. ASSUME NEW d \in Runs \ {c}, t \in Held(d) PROVE Somewhere(t)'
      BY <1>2, <2>4 DEF Somewhere
    <2>5. CASE enclave.kind = "Command" /\ t = Main /\ loop[MainRun] = "idle"
      BY <2>5, MainRunType DEF LoopStep, KeepStep
    <2> QED BY <2>2, <2>3, <2>4, <2>5 DEF Somewhere
  <1>7. TrapInv'
    BY <1>2 DEF ConserveInv, TrapInv, KeepStep, HoldStep, Same
  <1>8. NotStartedInv'
    BY <1>2 DEF ConserveInv, NotStartedInv, LoopStep
  <1> QED BY <1>1, <1>4, <1>5, <1>6, <1>7, <1>8 DEF ConserveInv

\* Only the return of a library call decides that a run ends well.
LEMMA DecideEffect ==
    ASSUME RunnerTypeOK, NEW c \in Runs, NEW res, NEW src, Decide(c, res, src)
    PROVE  /\ \A d \in Runs \ {c} : first'[d] = first[d]
           /\ first'[c] = "Ok" => first[c] = "Ok" \/ (res = "Ok" /\ src \in {"Library", "ExecutableMain"})
  <1>1. first'[c] = first[c] \/ (first'[c] = res /\ Ends(res, src))
    BY DEF RunnerTypeOK, Decide
  <1>2. \A d \in Runs \ {c} : first'[d] = first[d]
    BY DEF RunnerTypeOK, Decide
  <1>3. res = "Ok" /\ Ends(res, src) => src \in {"Library", "ExecutableMain"}
    BY DEF Ends
  <1> QED BY <1>1, <1>2, <1>3

Step(c) == HoldStep(c) /\ LoopStep(c) /\ KeepStep(c)

LEMMA EnterStep ==
    ASSUME ConserveInv, NEW c \in Runs, NEW t \in Tcs, Enter(c, t)
    PROVE  Step(c)
  <1> USE DEF enclaveVars, historyVars
  <1>1. /\ t \in work[c] /\ work'[c] = work[c] \ {t} /\ inside'[c] = inside[c] \union {t}
        /\ tasks'[c] = tasks[c] /\ trapping'[c] = trapping[c] /\ TasksOf(c)' = TasksOf(c)
        /\ \A d \in Runs \ {c} : Same(d)
    BY DEF Enter, Same, TasksOf, ConserveInv, UniqueInv, RunnerTypeOK
  <1>2. Held(c)' = Held(c) /\ t \in Held(c)
    BY <1>1 DEF Held
  <1>3. Local(c)'
    BY <1>1 DEF Local, ConserveInv, UniqueInv, TcsUnique
  <1>4. loop[c] # "idle" /\ (enclave.kind = "Command" => c = MainRun /\ Main \notin pool)
    BY <1>2, Started DEF ConserveInv
  <1>5. HoldStep(c) /\ LoopStep(c)
    BY <1>1, <1>2, <1>3, <1>4 DEF HoldStep, LoopStep, Enter
  <1>6. KeepStep(c)
    BY <1>2, <1>4 DEF KeepStep, Enter
  <1> QED BY <1>5, <1>6 DEF Step

LEMMA LeaveStep ==
    ASSUME ConserveInv, NEW c \in Runs, NEW t \in Tcs, NEW u, Leave(c, t, u)
    PROVE  Step(c)
  <1> USE DEF enclaveVars, historyVars
  <1>1. /\ t \in inside[c] /\ inside'[c] = inside[c] \ {t} /\ work'[c] = work[c]
        /\ trapping'[c] = trapping[c]
        /\ tasks'[c] = IF loop[c] \in {"starting", "running"}
                       THEN tasks[c] \union {[tcs |-> t, call |-> u]} ELSE tasks[c]
        /\ \A d \in Runs \ {c} : Same(d)
    BY DEF Leave, Same, ConserveInv, UniqueInv, RunnerTypeOK
  <1>2. t \in Held(c) /\ Local(c)
    BY <1>1 DEF Held, Local, ConserveInv, UniqueInv, TcsUnique
  <1>3. t \notin TasksOf(c) \union work[c] \union trapping[c]
    BY <1>1, <1>2 DEF Local
  <1>4. loop[c] # "idle" /\ (enclave.kind = "Command" => c = MainRun /\ Main \notin pool)
    BY <1>2, Started DEF ConserveInv
  <1>5. LoopStep(c)
    BY <1>4 DEF LoopStep, Leave
  <1>6. CASE loop[c] \in {"starting", "running"}
    <2>1. TasksOf(c)' = TasksOf(c) \union {t}
      <3>1. tasks'[c] = tasks[c] \union {[tcs |-> t, call |-> u]}
        BY <1>1, <1>6
      <3>2. \A s : s \in TasksOf(c)' => s \in TasksOf(c) \union {t}
        BY <3>1 DEF TasksOf
      <3>3. \A s \in TasksOf(c) : s \in TasksOf(c)'
        BY <3>1 DEF TasksOf
      <3>4. t \in TasksOf(c)'
        BY <3>1 DEF TasksOf
      <3> QED BY <3>2, <3>3, <3>4
    <2>2. \A k \in tasks[c] : k.tcs # t
      BY <1>3 DEF TasksOf
    <2>3. Local(c)'
      BY <1>1, <1>2, <1>3, <1>6, <2>1, <2>2 DEF Local
    <2>4. Held(c)' = Held(c)
      BY <1>1, <2>1 DEF Held
    <2> QED BY <1>1, <1>4, <1>5, <2>3, <2>4 DEF Step, HoldStep, KeepStep, Leave
  <1>7. CASE loop[c] \notin {"starting", "running"}
    <2>1. loop[c] \in Ended
      BY <1>4, <1>7 DEF Ended, LoopStates, ConserveInv, UniqueInv, RunnerTypeOK
    <2>2. TasksOf(c)' = TasksOf(c)
      BY <1>1, <1>7 DEF TasksOf
    <2>3. Local(c)' /\ Held(c)' = Held(c) \ {t}
      BY <1>1, <1>2, <1>3, <1>7, <2>2 DEF Local, Held
    <2>4. ~EndedWell'
      BY <1>2, <2>1 DEF EndedWell, Ended, ConserveInv, OkInv, Leave
    <2> QED BY <1>1, <1>4, <1>5, <2>3, <2>4 DEF Step, HoldStep, KeepStep, Leave
  <1> QED BY <1>6, <1>7

\* The conditions under which such a task keeps the account.
Kept(t, A, B) ==
    /\ A \union B \subseteq {t} \union (pool \ pool') /\ A \intersect B = {}
    /\ pool' \subseteq pool \union ({t} \ (A \union B))
    /\ enclave.kind = "Command" => Main \notin pool'
    /\ enclave.kind = "Library" => A \union B \subseteq {t}
    /\ quit \subseteq quit' /\ B \subseteq quit' /\ (exiting' = exiting \/ exiting' = TRUE)
    /\ exiting' = TRUE \/ ({t} \union pool) \ quit' \subseteq A \union B \union pool'
LEMMA HandleKeep ==
    ASSUME ConserveInv, NEW c \in Runs, NEW t, NEW u, Handles(c, t, u), NEW A, NEW B,
           Sends(c, A, B), Kept(t, A, B), UNCHANGED <<enclave, loop>>,
           \A d \in Runs \ {c} : first'[d] = first[d],
           first'[c] = "Ok" =>
                first[c] = "Ok" \/ (enclave.kind = "Library" /\ A \union B = {})
    PROVE  Step(c)
  <1> USE DEF Kept
  <1>1. HoldStep(c) /\ Held(c)' = (Held(c) \ {t}) \union A \union B /\ t \in Held(c)
    BY HandleEffect DEF ConserveInv
  <1>2. loop[c] = "running"
    BY DEF Handles, Runnable
  <1>3. LoopStep(c)
    BY <1>2, Started DEF LoopStep, ConserveInv
  <1>4. enclave.kind = "Library" => Held(c)' \subseteq Held(c)
    BY <1>1
  <1>5. enclave.kind = "Library" /\ A \union B = {} => Held(c)' = {}
    BY <1>1 DEF ConserveInv, SingleInv
  <1>6. EndedWell' => (Held(c) \union pool) \ quit' \subseteq Held(c)' \union pool'
    <2>1. exiting' = TRUE => ~EndedWell'
      BY DEF EndedWell
    <2> QED BY <1>1, <2>1
  <1>7. KeepStep(c)
    BY <1>2, <1>4, <1>5, <1>6 DEF KeepStep, Ended, Sends
  <1> QED BY <1>1, <1>3, <1>7 DEF Step

LEMMA AnswerSends ==
    ASSUME RunnerTypeOK, NEW c \in Runs, NEW t, Answer(c, t), UNCHANGED <<inside, trapping>>
    PROVE  Sends(c, {t}, {}) \/ (exiting /\ Sends(c, {}, {}))
  BY DEF Answer, Sends, RunnerTypeOK

\* Every task of a loop.
LEMMA HandleStep ==
    ASSUME ConserveInv, NEW c \in Runs, NEW t \in Tcs, Handle(c, t)
    PROVE  Step(c)
  <1> USE DEF enclaveVars, historyVars
  <1>0. /\ RunnerTypeOK /\ exiting \in BOOLEAN
        /\ loop[c] # "idle" => (enclave.kind = "Command" => c = MainRun /\ Main \notin pool)
    BY Started DEF ConserveInv, UniqueInv, RunnerTypeOK
  <1>1. CASE HandleOther(c, t)
    <2>1. Handles(c, t, "other") /\ loop[c] = "running"
      BY <1>1 DEF HandleOther, Handles, Runnable
    <2>2. Sends(c, {t}, {}) \/ (exiting /\ Sends(c, {}, {}))
      BY <1>0, <1>1, AnswerSends DEF HandleOther
    <2>3. CASE Sends(c, {t}, {})
      <3>1. Kept(t, {t}, {})
        BY <1>0, <1>1, <2>1, <2>3 DEF HandleOther, Kept
      <3> QED BY <1>0, <1>1, <2>1, <2>3, <3>1, HandleKeep DEF HandleOther
    <2>4. CASE exiting /\ Sends(c, {}, {})
      <3>1. Kept(t, {}, {})
        BY <1>0, <1>1, <2>1, <2>4 DEF HandleOther, Kept
      <3> QED BY <1>0, <1>1, <2>1, <2>4, <3>1, HandleKeep DEF HandleOther
    <2> QED BY <2>2, <2>3, <2>4
  <1>2. CASE HandleLaunchThread(c, t)
    <2>1. /\ Handles(c, t, "launch_thread") /\ loop[c] = "running"
          /\ UNCHANGED <<enclave, exiting, loop, inside, trapping, quit, first>>
      BY <1>2 DEF HandleLaunchThread, Handles, Runnable
    <2>2. CASE Answer(c, t) /\ UNCHANGED pool
      <3>1. Sends(c, {t}, {}) \/ (exiting /\ Sends(c, {}, {}))
        BY <1>0, <2>1, <2>2, AnswerSends
      <3>2. CASE Sends(c, {t}, {})
        <4>1. Kept(t, {t}, {})
          BY <1>0, <2>1, <2>2, <3>2 DEF Kept
        <4> QED BY <1>0, <2>1, <2>2, <3>2, <4>1, HandleKeep
      <3>3. CASE exiting /\ Sends(c, {}, {})
        <4>1. Kept(t, {}, {})
          BY <1>0, <2>1, <2>2, <3>3 DEF Kept
        <4> QED BY <1>0, <2>1, <2>2, <3>3, <4>1, HandleKeep
      <3> QED BY <3>1, <3>2, <3>3
    <2>3. ASSUME enclave.kind = "Command", NEW n \in pool, pool' = pool \ {n},
                 \/ ~exiting /\ work' = [work EXCEPT ![c] = @ \union {n, t}]
                 \/ exiting /\ work' = [work EXCEPT ![c] = @ \union {n}]
          PROVE  Step(c)
      <3>1. CASE ~exiting /\ work' = [work EXCEPT ![c] = @ \union {n, t}]
        <4>1. Sends(c, {n, t}, {})
          BY <1>0, <2>1, <3>1 DEF Sends, RunnerTypeOK
        <4>2. Kept(t, {n, t}, {})
          BY <1>0, <2>1, <2>3 DEF Kept
        <4> QED BY <1>0, <2>1, <2>3, <4>1, <4>2, HandleKeep
      <3>2. CASE exiting /\ work' = [work EXCEPT ![c] = @ \union {n}]
        <4>1. Sends(c, {n}, {})
          BY <1>0, <2>1, <3>2 DEF Sends, RunnerTypeOK
        <4>2. exiting' = TRUE
          BY <1>0, <2>1, <3>2
        <4>3. n # t
          BY <2>1, TakeTask DEF ConserveInv, UniqueInv, TcsUnique
        <4>4. Kept(t, {n}, {})
          BY <1>0, <2>1, <2>3, <4>2, <4>3 DEF Kept
        <4> QED BY <1>0, <2>1, <2>3, <4>1, <4>4, HandleKeep
      <3> QED BY <2>3, <3>1, <3>2
    <2> QED BY <1>2, <2>2, <2>3 DEF HandleLaunchThread
  <1>3. ASSUME NEW u, NEW res, res # "Ok", Handles(c, t, u), Decide(c, res, Mode(t)),
               quit' = quit \union {t}, UNCHANGED <<enclave, pool, loop, work, inside>>,
               \/ UNCHANGED <<exiting, trapping>>
               \/ exiting' = TRUE /\ UNCHANGED trapping
               \/ exiting' = TRUE /\ trapping' = [trapping EXCEPT ![c] = @ \union {t}]
        PROVE  Step(c)
    <2>1. loop[c] = "running"
      BY <1>3 DEF Handles, Runnable
    <2>2. /\ \A d \in Runs \ {c} : first'[d] = first[d]
          /\ first'[c] = "Ok" => first[c] = "Ok"
      BY <1>0, <1>3, DecideEffect
    <2>3. Sends(c, {}, {}) \/ (exiting' = TRUE /\ Sends(c, {}, {t}))
      BY <1>0, <1>3 DEF Sends, RunnerTypeOK
    <2>4. CASE Sends(c, {}, {})
      <3>1. Kept(t, {}, {})
        BY <1>0, <1>3, <2>1, <2>2, <2>4 DEF Kept
      <3> QED BY <1>0, <1>3, <2>1, <2>2, <2>4, <3>1, HandleKeep
    <2>5. CASE exiting' = TRUE /\ Sends(c, {}, {t})
      <3>1. Kept(t, {}, {t})
        BY <1>0, <1>3, <2>1, <2>2, <2>5 DEF Kept
      <3> QED BY <1>0, <1>3, <2>1, <2>2, <2>5, <3>1, HandleKeep
    <2> QED BY <2>3, <2>4, <2>5
  <1>4. CASE HandleExit(c, t)
    BY <1>3, <1>4 DEF HandleExit, AbortAllThreads
  <1>5. CASE HandlePanic(c, t)
    BY <1>3, <1>5 DEF HandlePanic, Panic, AbortAllThreads
  <1>6. ASSUME NEW u, NEW res, res # "Ok", HandleAbort(c, t, u, res) PROVE Step(c)
    BY <1>3, <1>6 DEF HandleAbort
  <1>7. CASE HandleAsyncQueues(c, t)
    <2>1. Handles(c, t, "async_queues") /\ loop[c] = "running" /\ UNCHANGED <<enclave, pool, loop, inside>>
      BY <1>7 DEF HandleAsyncQueues, Handles, Runnable
    <2>2. CASE Answer(c, t) /\ UNCHANGED <<exiting, trapping, quit, first>>
      <3>1. Sends(c, {t}, {}) \/ (exiting /\ Sends(c, {}, {}))
        BY <1>0, <2>1, <2>2, AnswerSends
      <3>2. CASE Sends(c, {t}, {})
        <4>1. Kept(t, {t}, {})
          BY <1>0, <2>1, <2>2, <3>2 DEF Kept
        <4> QED BY <1>0, <2>1, <2>2, <3>2, <4>1, HandleKeep
      <3>3. CASE exiting /\ Sends(c, {}, {})
        <4>1. Kept(t, {}, {})
          BY <1>0, <2>1, <2>2, <3>3 DEF Kept
        <4> QED BY <1>0, <2>1, <2>2, <3>3, <4>1, HandleKeep
      <3> QED BY <3>1, <3>2, <3>3
    <2>3. CASE Panic(c, t) /\ UNCHANGED work
      BY <1>3, <2>1, <2>3 DEF Panic, AbortAllThreads
    <2> QED BY <1>7, <2>2, <2>3 DEF HandleAsyncQueues
  <1>8. CASE HandleReturn(c, t)
    <2>1. Handles(c, t, "return") /\ loop[c] = "running" /\ UNCHANGED <<enclave, exiting, loop, work, inside, trapping>>
      BY <1>8 DEF HandleReturn, Handles, Runnable
    <2>2. Sends(c, {}, {})
      BY <2>1 DEF Sends
    <2>3. PICK res : Decide(c, res, Mode(t)) /\ (Mode(t) = "ExecutableMain" => res # "Ok")
      BY <1>8 DEF HandleReturn
    <2>4. /\ \A d \in Runs \ {c} : first'[d] = first[d]
          /\ first'[c] = "Ok" => first[c] = "Ok" \/ Mode(t) = "Library"
      BY <1>0, <2>3, DecideEffect
    <2>5. /\ Mode(t) = "Library" => enclave.kind = "Library"
          /\ enclave.kind = "Command" /\ Mode(t) # "ExecutableMain" => t # Main
          /\ enclave.kind = "Command" \/ enclave.kind = "Library"
          /\ enclave.kind = "Library" => Mode(t) = "Library"
      BY <1>0, EnclaveFields DEF Mode
    <2>6. CASE pool' = pool \union {t} /\ UNCHANGED quit /\ Mode(t) # "ExecutableMain"
      <3>1. Kept(t, {}, {})
        BY <1>0, <2>1, <2>2, <2>4, <2>5, <2>6 DEF Kept
      <3> QED BY <1>0, <2>1, <2>2, <2>4, <2>5, <2>6, <3>1, HandleKeep
    <2>7. CASE quit' = quit \union {t} /\ UNCHANGED pool
      <3>1. Kept(t, {}, {})
        BY <1>0, <2>1, <2>2, <2>4, <2>5, <2>7 DEF Kept
      <3> QED BY <1>0, <2>1, <2>2, <2>4, <2>5, <2>7, <3>1, HandleKeep
    <2> QED BY <1>8, <2>6, <2>7 DEF HandleReturn
  <1>9. ASSUME NEW u, TaskPanics(c, t, u) PROVE Step(c)
    <2>1. Handles(c, t, u) /\ loop[c] = "running" /\ Sends(c, {}, {})
      BY <1>9 DEF TaskPanics, Handles, Runnable, Sends
    <2>2. Kept(t, {}, {})
      BY <1>0, <1>9, <2>1 DEF TaskPanics, Kept
    <2> QED BY <1>0, <1>9, <2>1, <2>2, HandleKeep DEF TaskPanics
  <1> QED BY <1>1, <1>2, <1>4, <1>5, <1>6, <1>7, <1>8, <1>9
          DEF Handle, HandleMalformed, HandleNonzeroReturn

LEMMA TrappedStep ==
    ASSUME ConserveInv, NEW c \in Runs, NEW t \in Tcs, Trapped(c, t)
    PROVE  Step(c)
  <1> USE DEF enclaveVars, historyVars
  <1>1. /\ t \in trapping[c] /\ trapping'[c] = trapping[c] \ {t} /\ work'[c] = work[c]
        /\ inside'[c] = inside[c] /\ tasks'[c] = tasks[c] /\ TasksOf(c)' = TasksOf(c)
        /\ \A d \in Runs \ {c} : Same(d)
        /\ loop[c] = "running"
    BY DEF Trapped, Runnable, Same, TasksOf, ConserveInv, UniqueInv, RunnerTypeOK
  <1>2. Local(c)
    BY DEF Local, ConserveInv, UniqueInv, TcsUnique
  <1>3. Local(c)' /\ Held(c)' = Held(c) \ {t} /\ t \in quit
    BY <1>1, <1>2 DEF Local, Held, ConserveInv, TrapInv
  <1>4. LoopStep(c)
    BY <1>1, Started DEF LoopStep, Trapped, ConserveInv
  <1> QED BY <1>1, <1>3, <1>4 DEF Step, HoldStep, KeepStep, Trapped, Ended

LEMMA AsyncStep ==
    ASSUME ConserveInv, NEW c \in Runs, NEW u \in Usercalls, AsyncUsercall(c, u)
    PROVE  Step(c)
  <1>1. /\ UNCHANGED <<enclave, loop, inside, tasks, trapping, quit>>
        /\ loop[c] = "running"
    BY DEF AsyncUsercall, Runnable
  <1>2. LoopStep(c) \/ (enclave.kind = "Command" /\ Main \in pool')
    BY <1>1, Started DEF LoopStep, ConserveInv
  <1>3. exiting' = exiting \/ exiting' = TRUE
    BY DEF AsyncUsercall, AbortAllThreads
  <1>4. /\ \A d \in Runs \ {c} : first'[d] = first[d]
        /\ first'[c] = "Ok" => first[c] = "Ok"
    <2>1. CASE UNCHANGED first
      BY <2>1
    <2>2. ASSUME NEW res, Decide(c, res, "AsyncUsercall")
          PROVE  /\ \A d \in Runs \ {c} : first'[d] = first[d]
                 /\ first'[c] = "Ok" => first[c] = "Ok"
      BY <2>2, DecideEffect DEF ConserveInv, UniqueInv
    <2> QED BY <2>1, <2>2 DEF AsyncUsercall
  <1>5. CASE UNCHANGED <<pool, work>>
    <2>1. Held(c)' = Held(c) /\ Local(c)' /\ \A d \in Runs \ {c} : Same(d)
      BY <1>1, <1>5 DEF Held, Local, TasksOf, Same, ConserveInv, UniqueInv, TcsUnique
    <2>2. LoopStep(c)
      BY <1>1, <1>2, <1>5, Started DEF ConserveInv
    <2> QED BY <1>1, <1>3, <1>4, <1>5, <2>1, <2>2 DEF Step, HoldStep, KeepStep, Ended
  <1>6. ASSUME enclave.kind = "Command", NEW n \in pool, pool' = pool \ {n},
               work' = [work EXCEPT ![c] = @ \union {n}]
        PROVE  Step(c)
    <2>1. /\ work'[c] = work[c] \union {n} /\ TasksOf(c)' = TasksOf(c)
          /\ \A d \in Runs \ {c} : Same(d)
      BY <1>1, <1>6 DEF TasksOf, Same, ConserveInv, UniqueInv, RunnerTypeOK
    <2>2. n \notin Held(c) /\ Local(c)
      BY <1>6 DEF Local, ConserveInv, UniqueInv, TcsUnique
    <2>3. Held(c)' = Held(c) \union {n}
      BY <1>1, <2>1 DEF Held
    <2>4. Local(c)'
      <3>1. n \notin inside[c] \union TasksOf(c) \union trapping[c]
        BY <2>2 DEF Held
      <3> QED BY <1>1, <2>1, <2>2, <3>1 DEF Local
    <2>5. LoopStep(c)
      BY <1>1, <1>2, <1>6, Started DEF ConserveInv
    <2> QED BY <1>1, <1>3, <1>4, <1>6, <2>1, <2>3, <2>4, <2>5 DEF Step, HoldStep, KeepStep, Ended
  <1> QED BY <1>5, <1>6 DEF AsyncUsercall

\* StartLoop, ReturnFuture and Join: a run goes on to its next phase.
LEMMA LifeStep ==
    ASSUME ConserveInv, NEW c \in Runs, StartLoop(c) \/ ReturnFuture(c) \/ Join(c)
    PROVE  Step(c)
  <1> USE DEF enclaveVars, historyVars
  <1>0. loop \in [Runs -> LoopStates] /\ exiting \in BOOLEAN /\ RunnerTypeOK /\ UniqueInv
    BY DEF ConserveInv, UniqueInv, RunnerTypeOK
  <1>1. UNCHANGED <<enclave, quit, first, work, inside>>
    BY DEF StartLoop, ReturnFuture, Join
  <1>2. CASE StartLoop(c)
    <2>1. Held(c)' = Held(c) /\ Local(c)' /\ \A d \in Runs \ {c} : Same(d)
      BY <1>2 DEF StartLoop, Held, Local, TasksOf, Same, ConserveInv, UniqueInv, TcsUnique
    <2>2. loop[c] = "starting" /\ loop' = [loop EXCEPT ![c] = "running"]
      BY <1>2 DEF StartLoop
    <2>3. LoopStep(c)
      BY <1>0, <1>2, <2>2, Started DEF LoopStep, StartLoop
    <2> QED BY <1>2, <2>1, <2>2, <2>3 DEF Step, HoldStep, KeepStep, Ended, StartLoop
  <1>3. ASSUME loop[c] = "running", UNCHANGED <<exiting, pool>>, EndLoop(c),
               \/ loop' = [loop EXCEPT ![c] = "joining"]
               \/ loop' = [loop EXCEPT ![c] = "done"]
        PROVE  Step(c)
    <2>1. /\ tasks'[c] = {} /\ trapping'[c] = {} /\ \A d \in Runs \ {c} : Same(d)
      BY <1>0, <1>1, <1>3 DEF EndLoop, Same, RunnerTypeOK
    <2>2. Held(c)' = work[c] \union inside[c] /\ Local(c)'
      BY <1>1, <2>1 DEF Held, Local, TasksOf, ConserveInv, UniqueInv, TcsUnique
    <2>3. Held(c)' \subseteq Held(c)
      BY <2>2 DEF Held
    <2>4. loop'[c] \in Ended /\ \A d \in Runs \ {c} : loop'[d] = loop[d]
      BY <1>0, <1>3 DEF Ended
    <2>5. EndedWell' => Held(c) = {}
      BY <1>1, <2>4 DEF EndedWell, Ended, ConserveInv, OkInv
    <2>6. LoopStep(c)
      BY <1>0, <1>1, <1>3, <2>4, Started DEF LoopStep, Ended
    <2> QED BY <1>1, <1>3, <2>1, <2>2, <2>3, <2>4, <2>5, <2>6 DEF Step, HoldStep, KeepStep, Ended
  <1>4. CASE ReturnFuture(c)
    <2>1. loop[c] = "running" /\ UNCHANGED <<exiting, pool>>
      BY <1>4 DEF ReturnFuture
    <2>2. CASE UNCHANGED <<loop, tasks, trapping>>
      <3>1. Held(c)' = Held(c) /\ Local(c)' /\ \A d \in Runs \ {c} : Same(d)
        BY <1>1, <2>2 DEF Held, Local, TasksOf, Same, ConserveInv, UniqueInv, TcsUnique
      <3>2. LoopStep(c)
        BY <1>0, <1>1, <2>1, <2>2, Started DEF LoopStep
      <3> QED BY <1>1, <2>1, <2>2, <3>1, <3>2 DEF Step, HoldStep, KeepStep, Ended
    <2>3. ASSUME NEW r, FinishLoop(c, r) PROVE Step(c)
      BY <1>3, <2>1, <2>3 DEF FinishLoop
    <2> QED BY <1>4, <2>2, <2>3 DEF ReturnFuture
  <1>5. CASE Join(c)
    <2>1. Held(c)' = Held(c) /\ Local(c)' /\ \A d \in Runs \ {c} : Same(d)
      BY <1>5 DEF Join, Held, Local, TasksOf, Same, ConserveInv, UniqueInv, TcsUnique
    <2>2. loop[c] = "joining" /\ loop' = [loop EXCEPT ![c] = "done"]
      BY <1>5 DEF Join
    <2>3. \/ exiting' = TRUE /\ pool' = {}
          \/ UNCHANGED <<exiting, pool>>
      BY <1>5 DEF Join, AbortAllThreads
    <2>4. exiting' = TRUE => ~EndedWell'
      BY DEF EndedWell
    <2>5. LoopStep(c)
      BY <1>0, <1>1, <2>2, <2>3, Started DEF LoopStep
    <2>6. trapping' = trapping
      BY <1>5 DEF Join
    <2>7. CASE exiting' = TRUE /\ pool' = {}
      BY <1>0, <1>1, <2>1, <2>2, <2>4, <2>5, <2>6, <2>7 DEF Step, HoldStep, KeepStep, Ended
    <2>8. CASE UNCHANGED <<exiting, pool>>
      BY <1>0, <1>1, <2>1, <2>2, <2>5, <2>6, <2>8 DEF Step, HoldStep, KeepStep, Ended
    <2> QED BY <2>3, <2>7, <2>8
  <1> QED BY <1>2, <1>4, <1>5

\* The two entry points start a run that holds nothing.
LEMMA EntryHeld ==
    ASSUME ConserveInv, NEW c \in Runs, loop[c] = "idle", NEW t, Run(c, t),
           UNCHANGED <<inside, tasks, trapping>>
    PROVE  /\ Held(c) = {} /\ Held(c)' = {t} /\ Local(c)' /\ trapping[c] = {}
           /\ \A d \in Runs \ {c} : Same(d) /\ Held(d)' = Held(d) /\ loop'[d] = loop[d]
           /\ loop'[c] = "starting"
  <1>1. Held(c) = {}
    BY DEF ConserveInv, UniqueInv, IdleInv
  <1>2. /\ work'[c] = {t} /\ loop'[c] = "starting"
        /\ \A d \in Runs \ {c} : work'[d] = work[d] /\ loop'[d] = loop[d]
    BY DEF Run, ConserveInv, UniqueInv, RunnerTypeOK
  <1>3. TasksOf(c)' = {} /\ inside'[c] = {} /\ trapping'[c] = {} /\ tasks'[c] = {}
    <2>1. TasksOf(c) = {} /\ inside[c] = {} /\ trapping[c] = {}
      BY <1>1 DEF Held
    <2>2. tasks[c] = {}
      BY <2>1 DEF TasksOf
    <2> QED BY <2>1, <2>2 DEF TasksOf
  <1>4. Held(c)' = {t} /\ Local(c)'
    BY <1>2, <1>3 DEF Held, Local
  <1>5. \A d \in Runs \ {c} : Same(d)
    BY <1>2 DEF Same
  <1> QED BY <1>1, <1>2, <1>3, <1>4, <1>5, SameHeld

LEMMA MainEntryConserve ==
    ASSUME ConserveInv, NEW c \in Runs, MainEntry(c), RunnerTypeOK'
    PROVE  ConserveInv'
  <1> USE DEF enclaveVars, historyVars
  <1>1. /\ enclave.kind = "Command" /\ c = MainRun /\ loop[c] = "idle" /\ Run(c, Main)
        /\ UNCHANGED <<enclave, exiting, pool, inside, tasks, trapping, quit, first>>
    BY DEF MainEntry
  <1>2. /\ Held(c) = {} /\ Held(c)' = {Main} /\ Local(c)' /\ trapping[c] = {}
        /\ \A d \in Runs \ {c} : Same(d) /\ Held(d)' = Held(d) /\ loop'[d] = loop[d]
        /\ loop'[c] = "starting"
    BY <1>1, EntryHeld
  <1>3. /\ Main \notin pool
        /\ \A d \in Runs \ {c} : loop[d] = "idle" /\ Held(d) = {}
    BY <1>1 DEF ConserveInv, UniqueInv, MainInv, IdleInv
  <1>4. TcsUnique'
    <2>1. \A d \in Runs : Local(d)'
      BY <1>2, SameHeld DEF ConserveInv, UniqueInv, TcsUnique, Local
    <2>2. \A d \in Runs : pool' \intersect Held(d)' = {}
      BY <1>1, <1>2, <1>3
    <2>3. \A d, e \in Runs : d # e => Held(d)' \intersect Held(e)' = {}
      BY <1>2, <1>3
    <2> QED BY <2>1, <2>2, <2>3 DEF TcsUnique, Local
  <1>5. IdleInv' /\ MainInv' /\ SingleInv' /\ TrapInv'
    BY <1>1, <1>2, <1>3 DEF ConserveInv, IdleInv, MainInv, SingleInv, TrapInv
  <1>6. OkInv' /\ NotStartedInv'
    BY <1>1, <1>2 DEF ConserveInv, OkInv, NotStartedInv
  <1>7. AccountInv'
    <2> SUFFICES ASSUME EndedWell', NEW t \in enclave.tcss \ quit PROVE Somewhere(t)'
      BY <1>1 DEF AccountInv
    <2>1. EndedWell
      BY <1>1, <1>2 DEF EndedWell
    <2>2. Somewhere(t)
      BY <2>1 DEF ConserveInv, AccountInv
    <2> QED BY <1>1, <1>2, <2>2 DEF Somewhere
  <1> QED BY <1>4, <1>5, <1>6, <1>7 DEF ConserveInv, UniqueInv

LEMMA LibraryEntryConserve ==
    ASSUME ConserveInv, NEW c \in Runs, LibraryEntry(c), RunnerTypeOK'
    PROVE  ConserveInv'
  <1> USE DEF enclaveVars, historyVars
  <1>1. /\ enclave.kind = "Library" /\ loop[c] = "idle"
        /\ UNCHANGED <<enclave, exiting, inside, tasks, trapping, quit, first>>
    BY DEF LibraryEntry
  <1>2. ASSUME NEW t \in pool, pool' = pool \ {t}, Run(c, t) PROVE ConserveInv'
    <2>1. /\ Held(c) = {} /\ Held(c)' = {t} /\ Local(c)' /\ trapping[c] = {}
          /\ \A d \in Runs \ {c} : Same(d) /\ Held(d)' = Held(d) /\ loop'[d] = loop[d]
          /\ loop'[c] = "starting"
      BY <1>1, <1>2, EntryHeld
    <2>2. UniqueInv'
      <3>1. HoldStep(c)
        BY <1>2, <2>1 DEF HoldStep
      <3>2. LoopStep(c)
        BY <1>1, <2>1 DEF LoopStep
      <3> QED BY <3>1, <3>2, HoldStepUnique DEF ConserveInv
    <2>3. SingleInv' /\ TrapInv'
      BY <1>1, <2>1 DEF ConserveInv, SingleInv, TrapInv
    <2>4. OkInv' /\ NotStartedInv'
      <3>1. first[c] # "Ok"
        BY <1>1 DEF ConserveInv, NotStartedInv
      <3> QED BY <1>1, <2>1, <3>1 DEF ConserveInv, OkInv, NotStartedInv
    <2>5. AccountInv'
      <3> SUFFICES ASSUME EndedWell', NEW s \in enclave.tcss \ quit PROVE Somewhere(s)'
        BY <1>1 DEF AccountInv
      <3>1. EndedWell
        BY <1>1, <2>1 DEF EndedWell
      <3>2. Somewhere(s)
        BY <3>1 DEF ConserveInv, AccountInv
      <3> QED BY <1>1, <1>2, <2>1, <3>2 DEF Somewhere
    <2> QED BY <2>2, <2>3, <2>4, <2>5 DEF ConserveInv
  <1>3. CASE /\ UNCHANGED <<pool, work>>
             /\ loop' = [loop EXCEPT ![c] = "done"]
    <2>1. \A d \in Runs : Held(d)' = Held(d) /\ Same(d)
      BY <1>1, <1>3 DEF Same, Held, TasksOf
    <2>2. loop'[c] = "done" /\ \A d \in Runs \ {c} : loop'[d] = loop[d]
      BY <1>3 DEF ConserveInv, UniqueInv, RunnerTypeOK
    <2>3. UniqueInv'
      <3>1. HoldStep(c)
        BY <1>3, <2>1, SameHeld DEF HoldStep, ConserveInv, UniqueInv, TcsUnique, Local
      <3>2. LoopStep(c)
        BY <1>1, <2>2 DEF LoopStep
      <3> QED BY <3>1, <3>2, HoldStepUnique DEF ConserveInv
    <2>4. SingleInv' /\ TrapInv' /\ OkInv' /\ NotStartedInv'
      BY <1>1, <2>1, <2>2 DEF ConserveInv, SingleInv, TrapInv, OkInv, NotStartedInv
    <2>5. first[c] # "Ok"
      BY <1>1 DEF ConserveInv, NotStartedInv
    <2>6. ~EndedWell'
      BY <1>1, <2>2, <2>5 DEF EndedWell
    <2> QED BY <2>3, <2>4, <2>6 DEF ConserveInv, AccountInv
  <1> QED BY <1>2, <1>3 DEF LibraryEntry

LEMMA ConserveInit == Init => ConserveInv
  <1> SUFFICES ASSUME Init PROVE ConserveInv
    OBVIOUS
  <1>1. RunnerTypeOK
    BY TypeInit
  <1>2. \A c \in Runs : work[c] = {} /\ inside[c] = {} /\ tasks[c] = {} /\ trapping[c] = {}
    BY DEF Init
  <1>3. \A c \in Runs : Held(c) = {}
    BY <1>2 DEF Held, TasksOf
  <1>4. TcsUnique
    BY <1>2, <1>3 DEF TcsUnique, TasksOf
  <1>5. IdleInv /\ MainInv /\ SingleInv /\ TrapInv
    BY <1>2, <1>3 DEF IdleInv, MainInv, SingleInv, TrapInv, Init
  <1>6. OkInv /\ NotStartedInv
    BY NoneAssumption DEF OkInv, NotStartedInv, Init, Results
  <1>7. AccountInv
    BY <1>1, EnclaveFields, MainRunType DEF AccountInv, Somewhere, Init
  <1> QED BY <1>1, <1>4, <1>5, <1>6, <1>7 DEF ConserveInv, UniqueInv

LEMMA ConserveStep == ConserveInv /\ [Next]_vars => ConserveInv'
  <1> SUFFICES ASSUME ConserveInv, [Next]_vars PROVE ConserveInv'
    OBVIOUS
  <1>1. RunnerTypeOK'
    BY TypeStep DEF ConserveInv, UniqueInv
  <1>2. CASE UNCHANGED vars
    <2>1. UNCHANGED <<enclave, exiting, pool, loop, work, inside, tasks, trapping, quit, first>>
      BY <1>2 DEF vars, enclaveVars, runVars, historyVars
    <2>2. \A c \in Runs : Held(c)' = Held(c) /\ TasksOf(c)' = TasksOf(c)
      BY <2>1 DEF Held, TasksOf
    <2>3. TcsUnique'
      BY <2>1, <2>2 DEF ConserveInv, UniqueInv, TcsUnique
    <2>4. IdleInv' /\ MainInv' /\ SingleInv' /\ OkInv' /\ NotStartedInv' /\ TrapInv'
      BY <2>1, <2>2 DEF ConserveInv, UniqueInv, IdleInv, MainInv, SingleInv, OkInv,
                        NotStartedInv, TrapInv
    <2>5. AccountInv'
      BY <2>1, <2>2 DEF ConserveInv, AccountInv, EndedWell, Somewhere
    <2> QED BY <1>1, <2>3, <2>4, <2>5 DEF ConserveInv, UniqueInv
  <1>3. ASSUME NEW c \in Runs, Step(c) PROVE ConserveInv'
    BY <1>1, <1>3, KeepStepConserve DEF Step
  <1> QED BY <1>1, <1>2, <1>3, MainEntryConserve, LibraryEntryConserve, EnterStep, LeaveStep,
             HandleStep, TrappedStep, AsyncStep, LifeStep DEF Next

\* Every TCS is in one place, and none gets lost while the enclave lives.
THEOREM TcsConservation == Spec => []TcsConserved
  <1>1. ConserveInv => TcsConserved
    <2> SUFFICES ASSUME ConserveInv, ~exiting, enclave.kind = "Command" => loop[MainRun] # "idle",
                        \A c \in Runs : loop[c] \in {"joining", "done"} => first[c] = "Ok",
                        NEW t \in enclave.tcss \ quit
                 PROVE  t \in pool \union UNION {Held(c) : c \in Runs}
      BY DEF TcsConserved, ConserveInv, UniqueInv
    <2>1. Somewhere(t)
      BY DEF ConserveInv, AccountInv, EndedWell
    <2> QED BY <2>1 DEF Somewhere
  <1> QED BY <1>1, ConserveInit, ConserveStep, PTL DEF Spec

-----------------------------------------------------------------------------
(***************************************************************************)
(* The first abort wins                                                    *)
(***************************************************************************)
LEMMA AppendDecided ==
    ASSUME NEW q \in Seq(ReturnSet), NEW x \in ReturnSet
    PROVE  /\ Undecided(q) /\ ~EndsRun(x) => Undecided(Append(q, x))
           /\ Undecided(q) /\ EndsRun(x) => DecidedAs(Append(q, x), x.res)
           /\ \A f : DecidedAs(q, f) => DecidedAs(Append(q, x), f)
  <1>1. /\ Len(Append(q, x)) = Len(q) + 1 /\ Len(q) \in Nat
        /\ \A i \in 1 .. Len(q) : Append(q, x)[i] = q[i]
        /\ Append(q, x)[Len(q) + 1] = x
    OBVIOUS
  <1>2. Undecided(q) /\ ~EndsRun(x) => Undecided(Append(q, x))
    BY <1>1 DEF Undecided
  <1>3. Undecided(q) /\ EndsRun(x) => DecidedAs(Append(q, x), x.res)
    <2> SUFFICES ASSUME Undecided(q), EndsRun(x) PROVE DecidedAs(Append(q, x), x.res)
      OBVIOUS
    <2>1. \A j \in 1 .. Len(q) + 1 - 1 : ~EndsRun(Append(q, x)[j])
      BY <1>1 DEF Undecided
    <2>2. Len(q) + 1 \in 1 .. Len(Append(q, x))
      BY <1>1
    <2> QED BY <1>1, <2>1, <2>2 DEF DecidedAs
  <1>4. ASSUME NEW f, DecidedAs(q, f) PROVE DecidedAs(Append(q, x), f)
    <2>1. PICK i \in 1 .. Len(q) :
            EndsRun(q[i]) /\ q[i].res = f /\ \A j \in 1 .. i - 1 : ~EndsRun(q[j])
      BY <1>4 DEF DecidedAs
    <2>2. i \in 1 .. Len(Append(q, x)) /\ Append(q, x)[i] = q[i]
      BY <1>1
    <2>3. \A j \in 1 .. i - 1 : Append(q, x)[j] = q[j]
      BY <1>1
    <2> QED BY <2>1, <2>2, <2>3 DEF DecidedAs
  <1> QED BY <1>2, <1>3, <1>4

LEMMA TailDecided ==
    ASSUME NEW q \in Seq(ReturnSet), q # <<>>
    PROVE  /\ ~EndsRun(Head(q)) /\ Undecided(q) => Undecided(Tail(q))
           /\ ~EndsRun(Head(q)) => \A f : DecidedAs(q, f) => DecidedAs(Tail(q), f)
           /\ EndsRun(Head(q)) => ~Undecided(q)
           /\ EndsRun(Head(q)) => \A f : DecidedAs(q, f) => f = Head(q).res
  <1>1. /\ Head(q) = q[1] /\ Len(q) \in Nat \ {0} /\ Len(Tail(q)) = Len(q) - 1
        /\ \A i \in 1 .. Len(q) - 1 : Tail(q)[i] = q[i + 1]
    OBVIOUS
  <1>2. ~EndsRun(Head(q)) /\ Undecided(q) => Undecided(Tail(q))
    BY <1>1 DEF Undecided
  <1>3. ASSUME ~EndsRun(Head(q)), NEW f, DecidedAs(q, f) PROVE DecidedAs(Tail(q), f)
    <2>1. PICK i \in 1 .. Len(q) :
            EndsRun(q[i]) /\ q[i].res = f /\ \A j \in 1 .. i - 1 : ~EndsRun(q[j])
      BY <1>3 DEF DecidedAs
    <2>2. i # 1
      BY <1>1, <1>3, <2>1
    <2>3. i - 1 \in 1 .. Len(Tail(q)) /\ Tail(q)[i - 1] = q[i]
      BY <1>1, <2>2
    <2>4. \A j \in 1 .. (i - 1) - 1 : ~EndsRun(Tail(q)[j])
      BY <1>1, <2>1
    <2> QED BY <2>1, <2>3, <2>4 DEF DecidedAs
  <1>4. EndsRun(Head(q)) => ~Undecided(q)
    BY <1>1 DEF Undecided
  <1>5. ASSUME EndsRun(Head(q)), NEW f, DecidedAs(q, f) PROVE f = Head(q).res
    <2>1. PICK i \in 1 .. Len(q) :
            EndsRun(q[i]) /\ q[i].res = f /\ \A j \in 1 .. i - 1 : ~EndsRun(q[j])
      BY <1>5 DEF DecidedAs
    <2>2. i = 1
      BY <1>1, <1>5, <2>1
    <2> QED BY <1>1, <2>1, <2>2
  <1> QED BY <1>2, <1>3, <1>4, <1>5

\* A step of run c concerns run c only: what main_entry looks up is of no other.
Apart(c) ==
    /\ enclave' = enclave
    /\ \A d \in Runs \ {c} :
        /\ loop'[d] = loop[d] /\ returns'[d] = returns[d] /\ first'[d] = first[d]
        /\ result'[d] = result[d] /\ outcome'[d] = outcome[d] /\ trapping'[d] = trapping[d]
    /\ primary' = primary \/ (enclave.kind = "Command" /\ c = MainRun)

LEMMA ApartStep ==
    ASSUME AbortInv, Waitless, NEW c \in Runs, Apart(c), PrimaryInv',
           FirstInv(c)', OutcomeInv(c)'
    PROVE  ReasonInv'
  <1>1. PrimaryInv /\ \A d \in Runs : FirstInv(d) /\ OutcomeInv(d)
    BY DEF AbortInv, ReasonInv
  <1>2. ASSUME NEW d \in Runs, d # c PROVE FirstInv(d)' /\ OutcomeInv(d)'
    <2>1. primary' = primary \/ loop[d] = "idle"
      BY <1>2 DEF Apart, AbortInv, ConserveInv, UniqueInv, MainInv
    <2>2. OutcomeInv(d)'
      BY <1>1, <1>2 DEF Apart, OutcomeInv, FromMain
    <2>3. FirstInv(d)'
      BY <1>1, <1>2, <2>1 DEF Apart, FirstInv
    <2> QED BY <2>2, <2>3
  <1> QED BY <1>2 DEF ReasonInv

\* A handler that decides and posts its result, or posts Secondary.
LEMMA PostStep ==
    ASSUME AbortInv, Waitless, NEW c \in Runs, NEW res \in Results, NEW src \in Sources,
           loop[c] = "running", UNCHANGED <<enclave, loop, primary, result, outcome, trapping>>,
           FromMain([res |-> res, src |-> src]), Post(c, res, src),
           \/ Decide(c, res, src)
           \/ res = "Secondary" /\ UNCHANGED first
    PROVE  ReasonInv'
  <1> DEFINE x == [res |-> res, src |-> src]
  <1>1. PrimaryInv /\ FirstInv(c) /\ OutcomeInv(c)
    BY DEF AbortInv, ReasonInv
  <1>2. x \in ReturnSet /\ (EndsRun(x) <=> Ends(res, src)) /\ x.res = res
    BY DEF ReturnSet, EndsRun
  <1>3. /\ returns[c] \in Seq(ReturnSet) /\ returns'[c] = Append(returns[c], x)
        /\ first[c] \in Results \union {None}
        /\ \A d \in Runs \ {c} : returns'[d] = returns[d] /\ first'[d] = first[d]
    BY DEF AbortInv, ConserveInv, UniqueInv, RunnerTypeOK, Post, Decide
  <1>4. \/ first[c] = None /\ EndsRun(x) /\ first'[c] = res
        \/ (first[c] # None \/ ~EndsRun(x)) /\ first'[c] = first[c]
    BY <1>2 DEF AbortInv, ConserveInv, UniqueInv, RunnerTypeOK, Decide, Ends
  <1>5. Apart(c)
    BY <1>3 DEF Apart
  <1>6. OutcomeInv(c)'
    <2>1. \A i \in 1 .. Len(returns'[c]) : FromMain(returns'[c][i])
      <3>1. /\ Len(returns'[c]) = Len(returns[c]) + 1 /\ Len(returns[c]) \in Nat
            /\ \A i \in 1 .. Len(returns[c]) : returns'[c][i] = returns[c][i]
            /\ returns'[c][Len(returns[c]) + 1] = x
        BY <1>2, <1>3
      <3> HIDE DEF x
      <3>2. FromMain(x)
        BY DEF x
      <3> QED BY <1>1, <3>1, <3>2 DEF OutcomeInv
    <2>2. outcome'[c] = None
      BY <1>1 DEF OutcomeInv
    <2>3. \A r : FromMain(r)' <=> FromMain(r)
      BY DEF FromMain
    <2> QED BY <1>1, <2>1, <2>2, <2>3 DEF OutcomeInv
  <1>7. FirstInv(c)'
    <2>1. res # None
      BY NoneAssumption
    <2>2. CASE first[c] = None
      <3>1. Undecided(returns[c])
        BY <1>1, <2>2 DEF FirstInv
      <3> HIDE DEF x
      <3> QED BY <1>2, <1>3, <1>4, <2>1, <2>2, <3>1, AppendDecided DEF FirstInv
    <2>3. CASE first[c] # None
      <3>1. DecidedAs(returns[c], first[c])
        BY <1>1, <2>3 DEF FirstInv
      <3> HIDE DEF x
      <3> QED BY <1>2, <1>3, <1>4, <2>3, <3>1, AppendDecided DEF FirstInv
    <2> QED BY <2>2, <2>3
  <1> QED BY <1>1, <1>5, <1>6, <1>7, ApartStep DEF PrimaryInv

LEMMA QuietStep ==
    ASSUME AbortInv, UNCHANGED <<enclave, loop, primary, result, outcome, trapping, returns, first>>
    PROVE  ReasonInv'
  BY DEF AbortInv, ReasonInv, Waitless, PrimaryInv, FirstInv, OutcomeInv, FromMain

LEMMA ModeFromMain ==
    ASSUME RunnerTypeOK, NEW t, NEW res,
           res = "MainReturned" => Mode(t) = "ExecutableMain"
    PROVE  /\ FromMain([res |-> res, src |-> Mode(t)])
           /\ res # "MainReturned" => FromMain([res |-> res, src |-> "AsyncUsercall"])
  BY EnclaveFields DEF FromMain, Mode

LEMMA AnswerReason ==
    ASSUME AbortInv, Waitless, NEW c \in Runs, NEW t, loop[c] = "running", Answer(c, t),
           UNCHANGED <<enclave, loop, primary, result, outcome, trapping, first>>
    PROVE  ReasonInv'
  <1>1. CASE UNCHANGED returns
    BY <1>1, QuietStep
  <1>2. CASE Post(c, "Secondary", Mode(t))
    <2>1. FromMain([res |-> "Secondary", src |-> Mode(t)]) /\ "Secondary" \in Results
      BY ModeFromMain DEF AbortInv, ConserveInv, UniqueInv, Results
    <2> QED BY <1>2, <2>1, PostStep, ModeType
  <1> QED BY <1>1, <1>2 DEF Answer

LEMMA HandleReason ==
    ASSUME AbortInv, Waitless, NEW c \in Runs, NEW t \in Tcs, Handle(c, t)
    PROVE  ReasonInv'
  <1> USE DEF enclaveVars, historyVars
  <1>0. RunnerTypeOK /\ \A u : Handles(c, t, u) => loop[c] = "running"
    BY DEF AbortInv, ConserveInv, UniqueInv, Handles, Runnable
  <1>1. CASE HandleOther(c, t)
    BY <1>0, <1>1, AnswerReason DEF HandleOther
  <1>2. CASE HandleLaunchThread(c, t)
    <2>1. /\ loop[c] = "running"
          /\ UNCHANGED <<enclave, loop, primary, result, outcome, trapping, first>>
      BY <1>0, <1>2 DEF HandleLaunchThread
    <2>2. CASE Answer(c, t)
      BY <2>1, <2>2, AnswerReason
    <2>3. CASE UNCHANGED returns
      BY <2>1, <2>3, QuietStep
    <2>4. CASE Post(c, "Secondary", Mode(t))
      <3>1. FromMain([res |-> "Secondary", src |-> Mode(t)]) /\ "Secondary" \in Results
        BY <1>0, ModeFromMain DEF Results
      <3> QED BY <2>1, <2>4, <3>1, PostStep, ModeType
    <2> QED BY <1>2, <2>2, <2>3, <2>4 DEF HandleLaunchThread
  <1>3. ASSUME NEW u, NEW res \in Results, Handles(c, t, u),
               Decide(c, res, Mode(t)), Post(c, res, Mode(t)),
               res = "MainReturned" => Mode(t) = "ExecutableMain",
               UNCHANGED <<enclave, loop, primary, result, outcome, trapping>>
        PROVE  ReasonInv'
    <2>1. FromMain([res |-> res, src |-> Mode(t)])
      BY <1>0, <1>3, ModeFromMain
    <2> QED BY <1>0, <1>3, <2>1, PostStep, ModeType
  <1>4. ASSUME NEW u, Handles(c, t, u), Panic(c, t),
               UNCHANGED <<enclave, loop, primary, result, outcome>>
        PROVE  ReasonInv'
    <2>1. Decide(c, "Panic", Mode(t)) /\ Post(c, "Panic", Mode(t)) /\ UNCHANGED trapping
      BY <1>4 DEF Panic, PostPanic, Waitless
    <2> QED BY <1>3, <1>4, <2>1 DEF Results
  <1>5. CASE HandleExit(c, t)
    BY <1>3, <1>5 DEF HandleExit, Results
  <1>6. CASE HandlePanic(c, t)
    BY <1>4, <1>6 DEF HandlePanic
  <1>7. ASSUME NEW u, NEW res \in Results, res # "MainReturned", HandleAbort(c, t, u, res)
        PROVE  ReasonInv'
    BY <1>3, <1>7 DEF HandleAbort
  <1>8. CASE HandleAsyncQueues(c, t)
    <2>1. CASE Answer(c, t) /\ UNCHANGED <<exiting, trapping, quit, first>>
      BY <1>0, <1>8, <2>1, AnswerReason DEF HandleAsyncQueues
    <2>2. CASE Panic(c, t)
      BY <1>4, <1>8, <2>2 DEF HandleAsyncQueues
    <2> QED BY <1>8, <2>1, <2>2 DEF HandleAsyncQueues
  <1>9. CASE HandleReturn(c, t)
    <2>1. CASE Mode(t) = "ExecutableMain"
      <3>1. Decide(c, "MainReturned", Mode(t)) /\ Post(c, "MainReturned", Mode(t))
        BY <1>9, <2>1 DEF HandleReturn
      <3> QED BY <1>3, <1>9, <2>1, <3>1 DEF HandleReturn, Results
    <2>2. CASE Mode(t) # "ExecutableMain"
      <3>1. Decide(c, "Ok", Mode(t)) /\ Post(c, "Ok", Mode(t))
        BY <1>9, <2>2 DEF HandleReturn
      <3> QED BY <1>3, <1>9, <3>1 DEF HandleReturn, Results
    <2> QED BY <2>1, <2>2
  <1>10. ASSUME NEW u, TaskPanics(c, t, u) PROVE ReasonInv'
    BY <1>10, QuietStep DEF TaskPanics
  <1> QED BY <1>1, <1>2, <1>5, <1>6, <1>7, <1>8, <1>9, <1>10
          DEF Handle, HandleMalformed, HandleNonzeroReturn, Results

LEMMA AsyncReason ==
    ASSUME AbortInv, Waitless, NEW c \in Runs, NEW u \in Usercalls, AsyncUsercall(c, u)
    PROVE  ReasonInv'
  <1>0. /\ RunnerTypeOK /\ loop[c] = "running"
        /\ UNCHANGED <<enclave, loop, primary, result, outcome, trapping>>
    BY DEF AbortInv, ConserveInv, UniqueInv, AsyncUsercall, Runnable
  <1>1. ASSUME NEW res \in Results, res # "MainReturned", Post(c, res, "AsyncUsercall"),
               \/ Decide(c, res, "AsyncUsercall")
               \/ res = "Secondary" /\ UNCHANGED first
        PROVE  ReasonInv'
    <2>1. FromMain([res |-> res, src |-> "AsyncUsercall"])
      BY <1>1 DEF FromMain
    <2>2. "AsyncUsercall" \in Sources
      BY DEF Sources
    <2> QED BY <1>0, <1>1, <2>1, <2>2, PostStep
  <1>2. CASE UNCHANGED <<returns, first>>
    BY <1>0, <1>2, QuietStep
  <1>3. CASE u \in {"other", "launch_thread"}
    BY <1>1, <1>2, <1>3 DEF AsyncUsercall, Results
  <1>4. CASE u = "exit"
    BY <1>1, <1>4 DEF AsyncUsercall, Results
  <1>5. CASE u = "panic"
    <2>1. Decide(c, "Panic", "AsyncUsercall") /\ Post(c, "Panic", "AsyncUsercall")
      BY <1>5 DEF AsyncUsercall, PostPanic, Waitless
    <2> QED BY <1>1, <2>1 DEF Results
  <1>6. CASE u = "wait_never"
    BY <1>1, <1>6 DEF AsyncUsercall, Results
  <1>7. CASE u = "invalid"
    BY <1>1, <1>7 DEF AsyncUsercall, Results
  <1> QED BY <1>3, <1>4, <1>5, <1>6, <1>7 DEF AsyncUsercall

\* A run that is entered or whose loop starts has decided nothing yet.
LEMMA EntryReason ==
    ASSUME AbortInv, Waitless, NEW c \in Runs,
           MainEntry(c) \/ LibraryEntry(c) \/ StartLoop(c)
    PROVE  ReasonInv'
  <1> USE DEF enclaveVars, historyVars
  <1>0. /\ PrimaryInv /\ FirstInv(c) /\ OutcomeInv(c)
        /\ loop \in [Runs -> LoopStates] /\ outcome \in [Runs -> Results \union {None, "panicked", "unreachable"}]
    BY DEF AbortInv, ReasonInv, ConserveInv, UniqueInv, RunnerTypeOK
  <1>1. UNCHANGED <<enclave, primary, result, trapping, returns, first>>
    BY DEF MainEntry, LibraryEntry, StartLoop
  <1>2. loop[c] \in {"idle", "starting"}
    BY DEF MainEntry, LibraryEntry, StartLoop
  <1>3. \/ loop' = [loop EXCEPT ![c] = "starting"] /\ UNCHANGED outcome
        \/ loop' = [loop EXCEPT ![c] = "running"] /\ UNCHANGED outcome
        \/ loop' = [loop EXCEPT ![c] = "done"] /\ outcome' = [outcome EXCEPT ![c] = "panicked"]
    BY DEF MainEntry, LibraryEntry, StartLoop, Run
  <1>4. Apart(c)
    BY <1>0, <1>1, <1>3 DEF Apart
  <1>5. FirstInv(c)'
    <2>1. returns'[c] = <<>> /\ first'[c] = None
      BY <1>0, <1>1, <1>2 DEF FirstInv
    <2>2. Undecided(<<>>)
      BY DEF Undecided
    <2> QED BY <1>0, <1>3, <2>1, <2>2 DEF FirstInv
  <1>6. OutcomeInv(c)'
    <2>1. outcome[c] = None
      BY <1>0, <1>2 DEF OutcomeInv
    <2>2. \A r : FromMain(r)' <=> FromMain(r)
      BY <1>1 DEF FromMain
    <2> QED BY <1>0, <1>1, <1>3, <2>1, <2>2 DEF OutcomeInv
  <1>7. PrimaryInv'
    <2>1. CASE primary = None
      BY <1>1, <2>1 DEF PrimaryInv
    <2>2. CASE primary # None
      <3>1. loop[MainRun] = "joining"
        BY <1>0, <2>2 DEF PrimaryInv
      <3>2. c # MainRun
        BY <1>2, <3>1
      <3> QED BY <1>0, <1>1, <1>3, <3>1, <3>2, MainRunType DEF PrimaryInv
    <2> QED BY <2>1, <2>2
  <1> QED BY <1>4, <1>5, <1>6, <1>7, ApartStep

LEMMA ReturnReason ==
    ASSUME AbortInv, Waitless, NEW c \in Runs, ReturnFuture(c)
    PROVE  ReasonInv'
  <1> USE DEF enclaveVars, historyVars
  <1> DEFINE r == Head(returns[c])
  <1>0. /\ RunnerTypeOK /\ PrimaryInv /\ FirstInv(c) /\ OutcomeInv(c)
        /\ loop[c] = "running" /\ UNCHANGED <<enclave, first>>
        /\ returns[c] \in Seq(ReturnSet) /\ returns[c] # <<>>
        /\ enclave.kind = "Command" => c = MainRun
    BY Started DEF AbortInv, ReasonInv, ConserveInv, UniqueInv, RunnerTypeOK, ReturnFuture
  <1>1. /\ r \in ReturnSet /\ r = returns[c][1] /\ Len(returns[c]) \in Nat \ {0}
        /\ Len(Tail(returns[c])) = Len(returns[c]) - 1
        /\ \A i \in 1 .. Len(returns[c]) - 1 : Tail(returns[c])[i] = returns[c][i + 1]
    BY <1>0
  <1>2. FromMain(r) /\ \A x : FromMain(x)' <=> FromMain(x)
    BY <1>0, <1>1 DEF OutcomeInv, FromMain
  <1>3. /\ primary = None /\ outcome[c] = None /\ trapping[c] = {}
    BY <1>0 DEF PrimaryInv, OutcomeInv, AbortInv
  <1> HIDE DEF r
  <1>4. ASSUME returns' = [returns EXCEPT ![c] = Tail(@)], ~Ends(r.res, r.src),
               UNCHANGED <<primary, loop, trapping, result, outcome>>
        PROVE  ReasonInv'
    <2>1. returns'[c] = Tail(returns[c]) /\ \A d \in Runs \ {c} : returns'[d] = returns[d]
      BY <1>0, <1>4 DEF RunnerTypeOK
    <2>2. Apart(c)
      BY <1>0, <1>4, <2>1 DEF Apart
    <2>3. OutcomeInv(c)'
      BY <1>0, <1>1, <1>2, <1>3, <1>4, <2>1 DEF OutcomeInv
    <2>4. ~EndsRun(Head(returns[c]))
      BY <1>4 DEF EndsRun, r
    <2>5. FirstInv(c)'
      BY <1>0, <1>4, <2>1, <2>4, TailDecided DEF FirstInv
    <2> QED BY <1>0, <1>3, <1>4, <2>2, <2>3, <2>5, ApartStep DEF PrimaryInv
  <1>5. ASSUME FinishLoop(c, r), Ends(r.res, r.src) \/ ~(r.src \in {"Library", "ExecutableMain"} \/ r.res = "Exit"),
               Ends(r.res, r.src) \/ enclave.kind = "Library"
        PROVE  ReasonInv'
    <2>1. /\ returns'[c] = <<>> /\ trapping'[c] = {}
          /\ \A d \in Runs \ {c} : returns'[d] = returns[d] /\ trapping'[d] = trapping[d]
      BY <1>0, <1>5 DEF FinishLoop, EndLoop, RunnerTypeOK
    <2>2. Ends(r.res, r.src) => first[c] = r.res
      <3>1. ASSUME Ends(r.res, r.src) PROVE first[c] = r.res
        <4>1. EndsRun(Head(returns[c]))
          BY <3>1 DEF EndsRun, r
        <4>2. first[c] # None /\ DecidedAs(returns[c], first[c])
          BY <1>0, <4>1, TailDecided DEF FirstInv
        <4> QED BY <1>0, <4>1, <4>2, TailDecided DEF r
      <3> QED BY <3>1
    <2>3. r.res \in Results /\ (Ends(r.res, r.src) => r.res # "Secondary")
      BY <1>1 DEF ReturnSet, Ends
    <2>4. CASE /\ r.src \in {"Library", "ExecutableMain"} \/ r.res = "Exit"
               /\ result' = [result EXCEPT ![c] = r.res]
               /\ loop' = [loop EXCEPT ![c] = "joining"]
               /\ UNCHANGED <<primary, outcome>>
      <3>1. Apart(c) /\ loop'[c] = "joining" /\ result'[c] = r.res
        BY <1>0, <2>1, <2>4 DEF Apart, RunnerTypeOK
      <3>2. first[c] = r.res
        BY <1>5, <2>2, <2>4
      <3>3. enclave.kind = "Library" => r.res # "MainReturned"
        BY <1>2 DEF FromMain
      <3>4. FirstInv(c)'
        BY <1>0, <1>3, <2>2, <2>3, <2>4, <3>1, <3>2, <3>3, <1>5 DEF FirstInv
      <3>5. OutcomeInv(c)'
        BY <1>3, <2>1, <2>4 DEF OutcomeInv
      <3> QED BY <1>3, <2>4, <3>1, <3>4, <3>5, ApartStep DEF PrimaryInv
    <2>5. CASE /\ enclave.kind = "Command"
               /\ primary' = IF primary = None THEN r.res ELSE primary
               /\ result' = [result EXCEPT ![c] = "Secondary"]
               /\ loop' = [loop EXCEPT ![c] = "joining"]
               /\ UNCHANGED outcome
      <3>1. Apart(c) /\ loop'[c] = "joining" /\ result'[c] = "Secondary" /\ primary' = r.res
        BY <1>0, <1>3, <2>1, <2>5 DEF Apart, RunnerTypeOK
      <3>2. first[c] = r.res /\ r.res # "Secondary"
        BY <1>5, <2>2, <2>3, <2>5
      <3>3. FirstInv(c)'
        BY <1>0, <2>3, <2>5, <3>1, <3>2 DEF FirstInv
      <3>4. OutcomeInv(c)'
        BY <1>3, <2>1, <2>5 DEF OutcomeInv
      <3>5. PrimaryInv'
        BY <1>0, <2>5, <3>1 DEF PrimaryInv
      <3> QED BY <3>1, <3>3, <3>4, <3>5, ApartStep
    <2>6. CASE /\ outcome' = [outcome EXCEPT ![c] = "panicked"]
               /\ loop' = [loop EXCEPT ![c] = "done"]
               /\ UNCHANGED <<primary, result>>
      <3>1. Apart(c) /\ loop'[c] = "done" /\ outcome'[c] = "panicked"
        BY <1>0, <2>1, <2>6 DEF Apart, RunnerTypeOK
      <3>2. FirstInv(c)' /\ OutcomeInv(c)'
        BY <2>1, <3>1 DEF FirstInv, OutcomeInv
      <3> QED BY <1>3, <2>6, <3>1, <3>2, ApartStep DEF PrimaryInv
    <2> QED BY <1>5, <2>4, <2>5, <2>6 DEF FinishLoop
  <1>6. r.res = "IndefiniteWait" /\ ~Ends(r.res, r.src)
            => ~(r.src \in {"Library", "ExecutableMain"} \/ r.res = "Exit")
    BY DEF Ends
  <1> QED BY <1>4, <1>5, <1>6 DEF ReturnFuture, r

LEMMA JoinReason ==
    ASSUME AbortInv, Waitless, NEW c \in Runs, Join(c)
    PROVE  ReasonInv'
  <1> USE DEF enclaveVars, historyVars
  <1>0. /\ RunnerTypeOK /\ PrimaryInv /\ FirstInv(c) /\ OutcomeInv(c)
        /\ loop[c] = "joining" /\ UNCHANGED <<enclave, first, returns, trapping, result>>
        /\ loop' = [loop EXCEPT ![c] = "done"]
        /\ enclave.kind = "Command" => c = MainRun
    BY Started DEF AbortInv, ReasonInv, ConserveInv, UniqueInv, Join
  <1>1. /\ first[c] \in Results \ {"Secondary"} /\ first[c] # None
        /\ enclave.kind = "Library" => first[c] # "MainReturned"
        /\ \/ result[c] = first[c] /\ primary = None
           \/ result[c] = "Secondary" /\ primary = first[c] /\ enclave.kind = "Command"
    BY <1>0, NoneAssumption DEF FirstInv
  <1>2. outcome'[c] = first[c] /\ \A d \in Runs \ {c} : outcome'[d] = outcome[d]
    <2>1. CASE enclave.kind = "Command"
      <3>1. ExitReason(result[c]) = first[c]
        BY <1>1 DEF ExitReason
      <3>2. outcome' = [outcome EXCEPT ![c] = ExitReason(result[c])]
        BY <2>1 DEF Join
      <3> QED BY <1>0, <3>1, <3>2 DEF RunnerTypeOK
    <2>2. CASE enclave.kind = "Library"
      <3>1. LibraryResult(result[c]) = first[c]
        BY <1>1, <2>2 DEF LibraryResult
      <3>2. outcome' = [outcome EXCEPT ![c] = LibraryResult(result[c])]
        BY <2>2 DEF Join
      <3> QED BY <1>0, <3>1, <3>2 DEF RunnerTypeOK
    <2> QED BY <1>0, <2>1, <2>2, EnclaveFields
  <1>3. primary' = None
    BY <1>0, <1>1 DEF Join
  <1>4. primary' = primary \/ (enclave.kind = "Command" /\ c = MainRun)
    BY <1>0 DEF Join
  <1>5. loop'[c] = "done" /\ \A d \in Runs \ {c} : loop'[d] = loop[d]
    BY <1>0 DEF RunnerTypeOK
  <1>6. Apart(c)
    BY <1>0, <1>2, <1>4, <1>5 DEF Apart
  <1>7. FirstInv(c)'
    BY <1>5 DEF FirstInv
  <1>8. OutcomeInv(c)'
    <2>1. \A x : FromMain(x)' <=> FromMain(x)
      BY <1>0 DEF FromMain
    <2> QED BY <1>0, <1>2, <1>5, <2>1 DEF OutcomeInv
  <1> QED BY <1>3, <1>6, <1>7, <1>8, ApartStep DEF PrimaryInv

LEMMA ReasonInit == Init => ReasonInv
  <1> SUFFICES ASSUME Init PROVE ReasonInv
    OBVIOUS
  <1>1. PrimaryInv
    BY DEF Init, PrimaryInv
  <1>2. ASSUME NEW c \in Runs PROVE FirstInv(c) /\ OutcomeInv(c)
    BY DEF Init, FirstInv, OutcomeInv
  <1> QED BY <1>1, <1>2 DEF ReasonInv

LEMMA AbortStep == AbortInv /\ [Next]_vars => ReasonInv'
  <1> SUFFICES ASSUME AbortInv, [Next]_vars PROVE ReasonInv'
    OBVIOUS
  <1> USE DEF enclaveVars, runVars, historyVars
  <1>1. enclave' = enclave
    BY DEF Next, vars, MainEntry, LibraryEntry, StartLoop, ReturnFuture, Join, AsyncUsercall, Enter,
           Leave, Trapped, Handle, HandleOther, HandleLaunchThread, HandleExit, HandlePanic,
           HandleAbort, HandleAsyncQueues, HandleReturn, HandleMalformed, HandleNonzeroReturn,
           TaskPanics
  <1>2. CASE ~Waitless
    BY <1>1, <1>2 DEF ReasonInv, Waitless
  <1>3. CASE Waitless
    <2>1. CASE UNCHANGED vars
      BY <2>1, QuietStep DEF vars
    <2>2. ASSUME NEW c \in Runs, NEW t \in Tcs, Enter(c, t) PROVE ReasonInv'
      BY <2>2, QuietStep DEF Enter
    <2>3. ASSUME NEW c \in Runs, NEW t \in Tcs, NEW u, Leave(c, t, u) PROVE ReasonInv'
      BY <2>3, QuietStep DEF Leave
    <2>4. ASSUME NEW c \in Runs, NEW t \in Tcs, Trapped(c, t) PROVE ReasonInv'
      BY <1>3, <2>4 DEF Trapped, AbortInv, ReasonInv, OutcomeInv
    <2> QED BY <1>3, <2>1, <2>2, <2>3, <2>4, EntryReason, ReturnReason, JoinReason, AsyncReason,
               HandleReason DEF Next
  <1> QED BY <1>2, <1>3

\* The result of main_entry or library_entry is the first abort or return that
\* had to end the run; in particular no run ends in an unreachable!().
THEOREM FirstAbort == Spec => []FirstAbortWins
  <1>1. AbortInv => FirstAbortWins
    BY DEF AbortInv, ReasonInv, Waitless, OutcomeInv, FirstAbortWins
  <1>2. Init => AbortInv
    BY ConserveInit, ReasonInit DEF AbortInv
  <1>3. AbortInv /\ [Next]_vars => AbortInv'
    BY ConserveStep, AbortStep DEF AbortInv
  <1> QED BY <1>1, <1>2, <1>3, PTL DEF Spec

=============================================================================
