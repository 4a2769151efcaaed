\* Two names, three processes, one crash.
SPECIFICATION Spec
CONSTANTS
    Names = {a, b}
    Pids = {p1, p2, p3}
    Sups = {s1, s2}
    None = None
    MaxCrashes = 1
    MaxUpgrades = 0
    MaxRenames = 0
PROPERTY EndedIsEnded
CHECK_DEADLOCK FALSE
