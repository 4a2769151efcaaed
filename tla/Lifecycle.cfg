\* Two clients; a loop being stopped and its successor; delays 0 and 1.
SPECIFICATION Spec
CONSTANTS
    Sups = {s1, s2}
    Clients = {c1, c2}
    Offered = {"on-failure", "always"}
    NoOne = NoOne
    MaxRestarts = 1
    BackoffFirst = 1
    BackoffMax = 1
    StableAfter = 1
INVARIANTS OneCopy StaysStopped
PROPERTIES StopIsWhole Answered ComesBack
CHECK_DEADLOCK FALSE
