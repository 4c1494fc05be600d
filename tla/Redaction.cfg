SPECIFICATION RedactionSpec
CONSTANTS
    Names <- MCNames
    Listed <- MCListed
    Forms <- MCForms
    ExactKeys <- MCExactKeys
    Docs <- MCDocs
    Words <- MCWords
    SkipRules <- MCSkipRules
    Methods <- MCMethods
    Levels = 3
    MaxPieces = 3
INVARIANTS
    ListedNeverLogged
    RestKept
    HeldBack
\* A request is complete at any time.
CHECK_DEADLOCK FALSE
