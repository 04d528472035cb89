SPECIFICATION Spec
SYMMETRY Symmetry
CONSTANTS
    Requests = {r1, r2}
    Codes = {103, 400}
    Incoming <- OneTrace
    EncoreIds <- Ids
    Width = 2
    Invalid = Invalid
    MaxSpans = 3
    MaxWrites = 2
CHECK_DEADLOCK FALSE
INVARIANTS
    SpansEndInside
    OneTracePerRequest
    EncoreCorrelates
    SpanTellsOutcome
