SPECIFICATION Spec
CONSTANTS
    work = work
    shell = shell
    new = new
    Service = {work, shell, new}
    Started <- TwoTabs
    ClosesOnExit = {shell}
    NoName = NoName
    Commands = {"detach", "next", "tab", "move", "list", "rename", "revive", "create", "remove", "redraw"}
    DataCap = 2
    MaxKeys = 1
    MaxCommands = 2
    MaxEvents = 1
INVARIANTS KeysGoWhereTyped
PROPERTIES ScreenIsTheServices Heard
CHECK_DEADLOCK FALSE
