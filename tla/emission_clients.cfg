SPECIFICATION FairSpec
CONSTANTS
    Prose = {p1}
    Question = question
    Nothing = Nothing
    Unasked = Unasked
    Signals = {"commit_ready"}
    MaxActivity = 2
    MaxInput = 0
    Clients <- TmuxOrLossyClient
PROPERTIES
    NoRedundantUpdate
    WaitingIsShown
    ClearReachesConsumer
