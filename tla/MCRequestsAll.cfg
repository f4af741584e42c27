CONSTANTS
    BitArea <- Areas1
    WordArea <- Areas16
    Size <- Sizes
    WordMax = 2
    MaxBits = 4
    MaxReadWords = 4
    MaxWriteWords = 3
    MaxLength = 12
    MaxFrame = 2048
    Addresses = 8
    NameBytes = 4
    PointAddresses = 8
    Client <- Both
    Quitters <- JustAmy
    Server <- AllServers
    Sends <- Everything
    Own <- OwnCells
    Shared <- SharedBlock
SPECIFICATION FairSpec
INVARIANTS InStep OwnWritesHold ReadsOwnWrites BlocksWhole
PROPERTIES Answered
