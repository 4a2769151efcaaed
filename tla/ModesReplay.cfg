\* Three items; a ring of six bytes.
SPECIFICATION Spec
CONSTANTS
    Items <- MCItems
    Numbers <- MCNumbers
    Tracked <- MCTracked
    Shown <- MCShown
    MaxCarry = 8
    Capacity = 6
    MaxItems = 3
INVARIANTS CutAnyhow TerminalFollows
CHECK_DEADLOCK FALSE
