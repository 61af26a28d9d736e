SPECIFICATION FairPendingSpec
CONSTANTS
    Tcs = {t1, t2}
    Bits = {1, 2}
    EvAbort = 8
    MaxPermits = 2
INVARIANTS EventsConserved NoMissedEvent
PROPERTIES NoEventAfterAbort BlockedWaitsEnd
CHECK_DEADLOCK FALSE
