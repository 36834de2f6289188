SPECIFICATION FairSpec
CONSTANTS
    Streams <- MCStreams
    MaxChunks = 2
    MaxRetained = 1
    Capacity = 1
INVARIANTS
    TypeOK
    PublishedInOrder
    ReceivedInOrder
    NothingElseIsLost
    CloseIsFinal
PROPERTY
    EveryConsumerEnds
CHECK_DEADLOCK FALSE
