\* Two ports or one, a limit of 1, one processor or several.
SPECIFICATION FairSpec
CONSTANTS
    Ports = {p1, p2}
    Conn = {c1, c2, c3, c4}
    Threads = {th1, th2}
    MaxCon = 1
    Setups <- AllSetups
    MaxAccepts = 5
INVARIANTS
    CounterExact
    LimitHolds
PROPERTIES
    AcceptsAgainIfCounted
