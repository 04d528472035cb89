SPECIFICATION Spec
CONSTANTS
    number = number
    field = field
    error = error
    SpanNames = {"a", "b"}
    Strings <- SomeStrings
    Fields <- TheFields
    Errors <- TheErrors
    Others <- TheOthers
    Text <- SomeText
    Label <- SomeLabel
    Calls <- SomeCalls
    MaxSpans = 3
    MaxEntries = 2
INVARIANTS
    FindAnswersRight
    EntriesAreWritten
