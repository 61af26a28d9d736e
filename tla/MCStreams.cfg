SPECIFICATION FairSpec
CONSTANTS
    Tasks = {a, b}
    Ops = {"read", "accept"}
    MaxObjects = 3
    MaxArrivals = 2
    None = None
INVARIANTS SleepersKnown
PROPERTIES FdsKept AllTaken
CHECK_DEADLOCK FALSE
