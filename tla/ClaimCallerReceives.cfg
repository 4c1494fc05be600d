SPECIFICATION TalkingSpec
CONSTANTS
    Pipelines   <- MCLogOnly
    Lengths     <- MCChunked
    DuplexPeers <- MCDuplex
    MaxSent = 5
PROPERTY CallerReceives
