SPECIFICATION Spec
CONSTANTS
    Hot = 1
    Warm = 2
    Cold = 3
    Multiplier = 2
    MaxTime = 7
    Interruptions = {"restart"}
    Never = Never
INVARIANTS
    TypeOK
    RunMatchesSleep
PROPERTIES
    ElapsedFrozen
    EligibleIsLowerBound
