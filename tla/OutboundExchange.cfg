SPECIFICATION Spec
CONSTANTS
    Stacks <- MCStacks
    Payloads <- MCPayloads
    Resends <- MCResends
    Limit = 2
    MaxAttempts = 3
INVARIANTS
    WireAsGiven
    AttemptLogged
