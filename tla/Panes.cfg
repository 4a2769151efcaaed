CONSTANTS
    Names = {a, b, c}
    PaneIds = {p1, p2, p3}
    Conns = {c1, c2, c3, c4}
    None = None
    Typed = {a}
    Modes = {mouse}
    Sizes <- PaneSizes
    MaxSessions = 2
    MaxKeys = 2
    MaxRefused = 1
    MaxEvents = 1
SPECIFICATION Spec
SYMMETRY Alike
INVARIANTS OneReader PaneNamed LayoutKept PanesFit KeyboardModes
CHECK_DEADLOCK FALSE
