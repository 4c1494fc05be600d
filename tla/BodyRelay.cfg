SPECIFICATION ServedSpec
CONSTANTS
    Pipelines   <- MCPipelines
    Lengths     <- MCLengths
    DuplexPeers <- MCAnyPeer
    MaxSent = 5
INVARIANTS
    NothingLost
    CapHolds
    LogIsWhole
PROPERTIES
    StreamSpec
    StartsEarly
    ReadsToTheEnd
