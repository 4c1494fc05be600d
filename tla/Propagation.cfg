SPECIFICATION Spec
CONSTANTS
    Services <- MCServices
    Stack    <- MCStack
    Roots    <- MCRoots
    Presets  <- MCPresets
    MaxCalls = 1
    MaxRuns = 3
    MaxEvents = 1
CHECK_DEADLOCK FALSE
INVARIANTS
    CorrelationFollows
    CallerIsOriginal
    CallerCarried
    OncePerKey
