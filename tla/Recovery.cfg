\* Two names, three processes, two crashes, one upgrade, two renames.
SPECIFICATION Spec
CONSTANTS
    Names = {a, b}
    Pids = {p1, p2, p3}
    Sups = {s1, s2}
    None = None
    MaxCrashes = 2
    MaxUpgrades = 1
    MaxRenames = 2
INVARIANTS OneCopy NoneLost
PROPERTIES KeepsTerminal
SYMMETRY Alike
CONSTRAINT NothingOdd
CHECK_DEADLOCK FALSE
