SPECIFICATION TreeSpec
CONSTANTS
    Names <- MCNames
    Bounds <- MCBounds
    Predicates <- MCPredicates
    Rewriters <- MCRewriters
    Levels = 3
    MaxCalls = 3
INVARIANTS
    MeaningKept
    WellShaped
\* Calls stop at MaxCalls.
CHECK_DEADLOCK FALSE
