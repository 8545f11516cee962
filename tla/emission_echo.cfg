SPECIFICATION Spec
CONSTANTS
    Prose = {p1, p2}
    Question = question
    Nothing = Nothing
    Unasked = Unasked
    Signals = {"commit_ready", "dirty_check_missing"}
    MaxActivity = 1
    MaxInput = 2
    Clients <- StdioClient
SYMMETRY Answers
INVARIANTS
    TypeOK
    ViewAgrees
    RestMatchesThoughtState
PROPERTIES
    TranscriptFactsShown
    NoFactsBeforeInput
    FactsFreshlyStamped
