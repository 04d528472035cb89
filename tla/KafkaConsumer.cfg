SPECIFICATION FairSpec
CONSTANTS
    Process <- OneProcess
    Topic <- OneTopic
    Partition <- SinglePartition
    TopicOf <- SingleTopicOf
    MaxOffset = 2
    MaxLosses = 2
    None = None
INVARIANTS
    TypeOK
    PassedWasAttempted
    AckedAgainNeedsStray
    OncePerGeneration
PROPERTIES
    CloseEndsLoop
    
    CancelEndsAll
