SPECIFICATION Spec
CONSTANTS
    Raw <- MCRaw
    Literals <- MCLiterals
INVARIANTS
    Verbatim
    OrdinaryReadable
