SPECIFICATION Spec
CONSTANTS
    Id = {a, b}
    Command = {"agent", "program"}
    Cwd = {home}
    Text = {empty, screen}
    Empty = empty
    QueueMax = 1
    Fallible = TRUE
    Gone = Gone
SYMMETRY Panes
INVARIANTS
    TypeOK
    RosterIsExact
    NoNotificationLost
PROPERTIES
    FollowerSpec
