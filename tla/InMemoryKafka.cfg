SPECIFICATION FairSpec
CONSTANTS
    Topic = {"orders", "returns"}
    s1 = s1
    s2 = s2
    Subscriber <- TwoSubscribers
    Capacity = 1
    MaxMessages = 2
    MaxBatch = 2
    None = None
INVARIANTS
    TypeOK
    HandledInOrder
    OffsetIsIndex
    EveryMessageAccounted
    NothingSkippedWithRoom
PROPERTIES
    PublishReturns
    QueuedIsHandled
