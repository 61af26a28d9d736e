SPECIFICATION FairSpec
CONSTANTS
    T1 = t1
    T2 = t2
    Tcs = {m, t1, t2}
    Main = m
    Enclaves <- MCEnclaves
    Runs = {r1, r2}
    Workers = 2
    Usercalls = {"other", "launch_thread", "exit", "panic", "wait_never", "invalid", "malformed", "async_queues"}
    MaxAsync = 1
    MaxReturns = 3
    None = None
INVARIANTS TcsConserved FirstAbortWins
PROPERTIES ExitEndsRun
CHECK_DEADLOCK FALSE
