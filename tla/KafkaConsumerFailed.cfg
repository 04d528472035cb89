SPECIFICATION Spec
CONSTANTS
    Process <- TwoProcesses
    Topic <- OneTopic
    Partition <- SinglePartition
    TopicOf <- SingleTopicOf
    MaxOffset = 2
    MaxLosses = 0
    None = None
INVARIANTS
    FailedNotCommitted
