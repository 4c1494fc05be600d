SPECIFICATION Spec
CONSTANTS
    Chains  <- MCChains
    Codes   <- MCCodes
    Lengths <- MCLengths
    Chunks  <- MCChunks
    EnvelopeSize = 2
    BodyLimit = 3
    MaxOps = 3
INVARIANTS
    TypeOK
    CommitTracking
    SingleAuthor
    PanicAnswered
    PanicFate
    LinesPaired
    StatusFaithful
    BodyFaithful
    EchoedOnResponse
PROPERTY OwnershipSpec
