SPECIFICATION Spec
CONSTANTS
    Configs <- EightConfigs
    Batches <- TwoBatches
    ForeignHeaders <- SomeHeaders
    val = val
    junk = junk
    Words <- TwoWords
    Empty = Empty
    NotYet = NotYet
    Refused = Refused
    MaxSpans = 4
    MaxLog = 3
    MaxCalls = 2
CHECK_DEADLOCK FALSE
INVARIANTS
    HandlerSeesHeaders
    ConsumeFollowsProduce
    SpansEnd
    ConnectAlike
