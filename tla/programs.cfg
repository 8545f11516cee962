SPECIFICATION ProgramSpec
CONSTANTS
    Daemon = {d1, d2}
    Absent = Absent
    Foreign = Foreign
    Attempts = 3
    Model = {m1}
    Standard = Standard
    Keys = 2
    Nothing = Nothing
    MaxSessions = 2
INVARIANTS
    TypesOK
    RunningOwnsPath
    AnswerFitsLine
    CallFitsRequest
    FirstSuccessAnswers
    NothingLeftBehind
PROPERTIES
    RefusedForCause
    StartEnds
    LineIsHandled
