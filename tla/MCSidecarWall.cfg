SPECIFICATION SidecarSpec
CONSTANTS
    MaxQuickRestarts = 2
    Children = {e1, e2}
    First = e1
    NoChild = NoChild
PROPERTY NoRestartIntoTheWall
CHECK_DEADLOCK FALSE
