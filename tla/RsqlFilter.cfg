SPECIFICATION FilterSpec
CONSTANTS
    Schema <- MCSchema
    Spellings <- MCSpellings
    Parsed <- MCParsed
    Rank <- MCRank
    Stored <- MCStored
    Levels = 3
    Keyboards <- MCKeyboards
INVARIANTS
    GrammarKept
    WithinLimits
    CanonicalStable
    MongoAgrees
\* Typing stops at the keyboard's bound.
CHECK_DEADLOCK FALSE
