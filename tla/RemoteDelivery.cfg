SPECIFICATION FairSpec
CONSTANTS
    s1 = s1
    s2 = s2
    Streams = {s1, s2}
    Capacity = 2
    MaxSegments = 2
    MaxMessages = 3
    MaxBreaks = 2
INVARIANTS TypeOK NothingUnreceivedIsForgotten NoGaps BufferIsBounded
PROPERTY ImplementsOrderedDelivery
CHECK_DEADLOCK FALSE
