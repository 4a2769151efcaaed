CONSTANTS
    Sizes <- GridSizes
    DefaultScrollback = 2
    Limits = {0, 2}
    MaxText = 2
    MaxOps = 3
    MaxResizes = 2
SPECIFICATION Spec
INVARIANTS InRange HistoryIsTail
PROPERTIES ReflowKeepsText CursorKeepsPlace AltGivesBack
CHECK_DEADLOCK FALSE
