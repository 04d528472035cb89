SPECIFICATION Spec
CONSTANTS
    Caller = {c1, c2}
    Service = {s1}
    MaxCalls = 2
    Nil = Nil
    Absent = Absent
    NoAnswer = NoAnswer
    Error = Error
SYMMETRY Symmetry
INVARIANTS
    GlobalNotDiscarded
