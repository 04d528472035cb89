SPECIFICATION FairSpec
CONSTANTS
    Caller = {c1, c2}
    Service = {s1, s2}
    MaxCalls = 2
    Nil = Nil
    Absent = Absent
    NoAnswer = NoAnswer
    Error = Error
INVARIANTS
    TypeOK
    AnswerIsCached
    NoLeak
    LoserShutsOnlyItsOwn
PROPERTIES
    ImplementsRegistry
    GetReturns
