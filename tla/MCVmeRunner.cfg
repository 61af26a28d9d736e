SPECIFICATION FairSpec
CONSTANTS
    Handlers = {h1, h2}
    Ports = {p1}
    Addrs = {a1, a2}
    Keys = {k1}
    MaxData = 1
    NoListener = NoListener
INVARIANTS ConnectionsExact NothingCutOff
PROPERTIES NotBlocked ConnectionEnds
