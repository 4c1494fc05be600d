SPECIFICATION Spec
CONSTANTS
    Raw <- MCRaw
    Literals <- MCLiterals
INVARIANTS
    EveryValueReadable
