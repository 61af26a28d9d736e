SPECIFICATION FairSpec
CONSTANTS
    Threads = {t1, t2}
    Reader = t1
    MaxCalls = 3
    UsercallQueueSize = 1
    ReturnQueueSize = 1
    MaxPermits = 1
INVARIANTS RunnerNotStranded EnclaveNotStranded AnsweredOnce
PROPERTIES EveryCallAnswered
CHECK_DEADLOCK FALSE
