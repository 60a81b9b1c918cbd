\* Two calls of one instance, settings that change at any time, four windows, calls of any length.
CONSTANTS
    None = None
    Closed = Closed
    Off = Off
    NoAddress = NoAddress
    c1 = c1
    c2 = c2
    i1 = i1
    Calls = {c1, c2}
    InstanceOf <- TwoCalls
    Instances = {i1}
    Servers = {s1, s2}
    Choices = {s1, s2, NoAddress, Off}
    Limit = 1
    Window = 1
    Breaker = 2
    MaxTime = 3
SPECIFICATION FairSpec
INVARIANTS TypeOK RedisWindowHolds RightCounter NoLeak
PROPERTIES ClosedByOthers CallsAreAnswered
CHECK_DEADLOCK FALSE
