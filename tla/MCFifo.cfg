SPECIFICATION FairSpec
CONSTANTS
    Slots = 2
    Senders = {s1, s2}
    SenderOps = {"send", "try_send_multiple"}
    ReceiverOps = {"recv"}
    MaxSends = 2
    MaxBatch = 2
    NoData = NoData
INVARIANTS NoDataRace ReceiverNotStranded SendersNotStranded
PROPERTIES ImplementsBoundedQueue EverybodyServed
CHECK_DEADLOCK FALSE
