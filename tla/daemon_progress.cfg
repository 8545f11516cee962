SPECIFICATION FairSpec
CONSTANTS
    Id = {a, b}
    Command = {"agent"}
    Cwd = {home}
    Text = {empty, screen}
    Empty = empty
    QueueMax = 1
    Fallible = FALSE
    Gone = Gone
PROPERTIES
    QuietPaneTurnsIdle
    ClosedPaneLeaves
    HookReturns
