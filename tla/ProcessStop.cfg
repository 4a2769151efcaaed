\* A leader, what it may start, and two callers; a deadline after the hangup.
SPECIFICATION Spec
CONSTANTS
    Leader = leader
    Kids = {k1, k2}
    Stoppers = {c1, c2}
    NoOne = NoOne
    Grace = 2
    HangupAfter = 1
    DrainGrace = 1
    DrainAbandon = 1
PROPERTIES KeepsPromise StopReturns
