SPECIFICATION Spec
CONSTANTS
    Call = {c1, c2}
    Session = {s1}
    Command = {"cargo test", "git status", "git commit"}
    MaxActions = 1
    Stamp = {t1}
    File = {1, 2, 3}
    Writer <- MCWriter
    Home <- MCHome
    Cwd = {"/a-b", "/a/b"}
    Slug <- MCSlug
    ValidLimit = 2
    PhysicalLimit = 2
    InferLimit = 2
    MaxLines = 3
    Nothing = Nothing
    Unknown = Unknown
CONSTRAINT TurnsBesideCalls
SYMMETRY Calls
INVARIANTS
    TypeOK
    UserTurnIsRead
    QuestionIsOpen
PROPERTIES
    EvidenceSpec
    OwnerIsSettled
