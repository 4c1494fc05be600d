SPECIFICATION Spec
CONSTANTS
    Addresses <- MCAddresses
    Spellings <- MCSpellings
    MaxForged = 2
    MaxProxies = 2
INVARIANTS
    NearestUntrusted
    FiberClient
