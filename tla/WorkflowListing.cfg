SPECIFICATION FairSpec
CONSTANTS
    w1 = w1
    w2 = w2
    w3 = w3
    Workflows <- ThreeWorkflows
    Outcomes = {"completed", "continuedAsNew"}
    PageSize = 2
    MaxTime = 5
    None = None
CHECK_DEADLOCK FALSE
INVARIANTS
    NoneMissed
    TwiceOnlyIfClosed
    ClosedIsFinal
PROPERTIES
    ListingEnds
