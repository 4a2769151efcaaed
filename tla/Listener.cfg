\* One daemon under systemd and one started by hand, one client.  The daemons may end up
\* serving quietly, which is not a deadlock.
CONSTANTS
    Daemons = {unit, hand}
    Managed = {unit}
    Clients = {c1}
    Socks = {s1, s2, s3, s4}
    None = None
    MaxDeaths = 1
    MaxStops = 2
    MaxUpgrades = 1
SPECIFICATION Spec
INVARIANTS LiveIsReachable KeepsItsPlace NothingAfterClose
PROPERTY StopEnds
CHECK_DEADLOCK FALSE
