SPECIFICATION Spec
CONSTANTS
    Hot = 1
    Warm = 2
    Cold = 3
    Multiplier = 1
    MaxTime = 5
    Interruptions = {"disabled", "carry", "revived"}
    Never = Never
INVARIANTS
    ProseReportsLiveRun
