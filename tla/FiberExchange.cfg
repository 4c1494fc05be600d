SPECIFICATION ServedSpec
CONSTANTS
    Chains <- MCChains
    ErrorHandlers <- MCErrorHandlers
    Paths <- MCPaths
    HeaderSets <- MCHeaderSets
    Errors <- MCErrors
    MaxChunks = 1
    MaxRequests = 2
    MaxTasks = 1
INVARIANTS
    Transparent
    LinesTell
    Stamped
    ContextHolds
PROPERTIES
    StreamsThrough
