SPECIFICATION Spec
CONSTANTS
    Call = {c1}
    Session = {s1}
    Command = {"git status"}
    MaxActions = 1
    Stamp = {t1}
    File = {1, 2, 3}
    Writer <- MCWriter
    Home <- MCHome
    Cwd = {"/a-b", "/a/b"}
    Slug <- MCSlug
    ValidLimit = 2
    PhysicalLimit = 2
    InferLimit = 2
    MaxLines = 3
    Nothing = Nothing
    Unknown = Unknown
INVARIANTS
    UserTurnIsGenuine
