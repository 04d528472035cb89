----------------------------- MODULE TestDoubles -----------------------------
(***************************************************************************)
(* What the recording test doubles show a test while the application runs: *)
(* SpanRecorder of the middleware, BufferLogger of the logger.  Each       *)
(* appends to a list behind a mutex and hands out copies; the lists are    *)
(* cleared by the test.                                                    *)
(*                                                                         *)
(* An argument of a log call is a string, a zap.Field, an error or another *)
(* value.  Text is what fmt's %v makes of it, Label the key under which    *)
(* zap writes a field or an error that is not the value of a key.  Left    *)
(* out are the values that zap writes as more or less than one pair        *)
(* (Namespace, Inline and Skip fields, an error's ...Verbose text).        *)
(***************************************************************************)
EXTENDS Integers, Sequences, FiniteSets

CONSTANTS
    SpanNames,
    Strings, Fields, Errors, Others,    \* what a log call is given
    Text, Label,
    Calls,          \* argument lists of log calls
    MaxSpans, MaxEntries

Lone == Fields \cup Errors
Argument == Strings \cup Lone \cup Others

ASSUME BoundsAssumption == MaxSpans \in Nat /\ MaxEntries \in Nat
ASSUME CallsAssumption == Calls \subseteq Seq(Argument)
ASSUME ArgumentsAssumption ==
    /\ Lone \cap Strings = {}
    /\ Text \in [Argument -> Strings] /\ \A s \in Strings : Text[s] = s
    /\ Label \in [Lone -> Strings]

Pair == [key : Strings, value : Argument]
FieldMap == UNION {[D -> Argument] : D \in SUBSET Strings}
LogCall == [with : Seq(Argument), keyvals : Seq(Argument)]
Answer == SpanNames \cup {""}
FindCall == [pc : {"idle", "name", "answer", "answered", "panicked"}, name : Answer,
             n : 0..MaxSpans, i : 0..MaxSpans, result : Answer, held : BOOLEAN,
             emptied : BOOLEAN]
NoFind == [pc |-> "idle", name |-> "", n |-> 0, i |-> 0, result |-> "", held |-> FALSE,
           emptied |-> FALSE]

VARIABLES
    exported,   \* the names of the spans in the exporter
    ends,       \* how many spans have ended
    shut,       \* the recorder was shut down
    find,       \* a FindSpanByName call
    entries,    \* BufferLogger's entries
    context,    \* the key-value pairs given to With
    written,    \* what a ZapLogger writes for the same calls
    adapted,    \* what Temporal's ZapLoggerAdapter writes for them
    said        \* history: the calls, each with the pairs of its With

vars == <<exported, ends, shut, find, entries, context, written, adapted, said>>
spanVars    == <<exported, ends, shut, find>>
logVars     == <<entries, context, written, adapted, said>>

TypeOK ==
    /\ exported \in Seq(SpanNames)
    /\ ends \in 0..MaxSpans
    /\ shut \in BOOLEAN
    /\ find \in FindCall
    /\ find.i <= find.n
    /\ entries \in Seq(FieldMap)
    /\ Len(entries) <= MaxEntries
    /\ context \in Seq(Argument)
    /\ {written, adapted} \subseteq Seq(Seq(Pair))
    /\ said \in Seq(LogCall)

Init ==
    /\ exported = <<>>
    /\ ends = 0
    /\ shut = FALSE
    /\ find = NoFind
    /\ entries = <<>>
    /\ context = <<>>
    /\ written = <<>>
    /\ adapted = <<>>
    /\ said = <<>>

----------------------------------------------------------------------------
(* The application ends a span; the exporter is synchronous, and gets none  *)
(* from a provider that was shut down.                                      *)
EndSpan(name) ==
    /\ ends < MaxSpans
    /\ ends' = ends + 1
    /\ exported' = IF shut THEN exported ELSE Append(exported, name)
    /\ UNCHANGED <<shut, find, logVars>>

(* FindSpanByName asks the recorder anew for the number of spans, for each  *)
(* name and for the answer.                                                 *)
FindSpanByName(name) ==
    /\ find.pc \notin {"name", "answer"}
    /\ find' = [NoFind EXCEPT !.pc = "name", !.name = name, !.n = Len(exported),
                              !.held = \E i \in DOMAIN exported : exported[i] = name]
    /\ UNCHANGED <<exported, ends, shut, logVars>>

Answered(result) == [find EXCEPT !.pc = "answered", !.result = result]

(* Mutant: the index runs one too far.                                      *)
FindNextPastEnd ==
    /\ find.pc = "name"
    /\ IF find.i > find.n
         THEN find' = Answered("")
         ELSE IF find.i + 1 \notin DOMAIN exported
           THEN find' = [find EXCEPT !.pc = "panicked"]
           ELSE find' = IF exported[find.i + 1] = find.name
                          THEN [find EXCEPT !.pc = "answer"] ELSE [find EXCEPT !.i = @ + 1]
    /\ UNCHANGED <<exported, ends, shut, logVars>>

FindNext ==
    /\ find.pc = "name"
    /\ IF find.i = find.n
         THEN find' = Answered("")
         ELSE IF find.i + 1 \notin DOMAIN exported
           THEN find' = [find EXCEPT !.pc = "panicked"]
           ELSE find' = IF exported[find.i + 1] = find.name
                          THEN [find EXCEPT !.pc = "answer"] ELSE [find EXCEPT !.i = @ + 1]
    /\ UNCHANGED <<exported, ends, shut, logVars>>

FindAnswer ==
    /\ find.pc = "answer"
    /\ find' = IF find.i + 1 \in DOMAIN exported
                 THEN Answered(exported[find.i + 1]) ELSE [find EXCEPT !.pc = "panicked"]
    /\ UNCHANGED <<exported, ends, shut, logVars>>

Empty == exported' = <<>> /\ find' = [find EXCEPT !.emptied = TRUE]

ResetSpans ==
    /\ Empty
    /\ UNCHANGED <<ends, shut, logVars>>

(* Shutdown of the provider shuts its exporter down, which empties it.      *)
ShutdownSpans ==
    /\ ~shut
    /\ shut' = TRUE
    /\ Empty
    /\ UNCHANGED <<ends, logVars>>

----------------------------------------------------------------------------
(* Of a list of pairs a reader sees the last value of each key.             *)
Filled(pairs) ==
    [k \in {pairs[i].key : i \in DOMAIN pairs} |->
        pairs[CHOOSE i \in DOMAIN pairs :
                  /\ pairs[i].key = k
                  /\ \A j \in DOMAIN pairs : pairs[j].key = k => j <= i].value]

(* Keys stand at the odd places and are formatted, a last one without a     *)
(* value is dropped.                                                        *)
toZapFields(keyvals) == [i \in 1..Len(keyvals) \div 2 |->
                            [key |-> Text[keyvals[2 * i - 1]], value |-> keyvals[2 * i]]]

(* zap's sugared logger takes the arguments from the left.  A field or an   *)
(* error stands for itself, anything else takes the next one as its value,  *)
(* whatever that is.  Opens are the arguments that are nobody's value.      *)
Opens(keyvals) ==
    CHOOSE places \in SUBSET DOMAIN keyvals :
        \A i \in DOMAIN keyvals : i \in places <=> (i - 1 \in places => keyvals[i - 1] \in Lone)

(* It keeps the fields, the first error, and the keys that are strings and  *)
(* have a value.  What it complains of in lines of its own is left out.     *)
Kept(keyvals) ==
    {i \in Opens(keyvals) :
        \/ keyvals[i] \in Fields
        \/ keyvals[i] \in Errors /\ \A j \in Opens(keyvals) : keyvals[j] \in Errors => i <= j
        \/ keyvals[i] \in Strings /\ i < Len(keyvals)}

PairAt(keyvals, i) ==
    IF keyvals[i] \in Lone THEN [key |-> Label[keyvals[i]], value |-> keyvals[i]]
                           ELSE [key |-> keyvals[i], value |-> keyvals[i + 1]]

Place(i, places) == Cardinality({j \in places : j < i})
InOrder(places) ==
    [n \in 1..Cardinality(places) |-> CHOOSE i \in places : Place(i, places) = n - 1]

Sweetened(keyvals) ==
    LET order == InOrder(Kept(keyvals))
    IN  [n \in DOMAIN order |-> PairAt(keyvals, order[n])]

(* Mutant: the step of the loop is one.                                     *)
KeyPlacesByOne(keyvals) == 1..Len(keyvals) - 1

(* BufferLogger.log has a loop of its own over every other argument but the *)
(* last one, and fills a map: of keys with one text the last value stays.   *)
KeyPlaces(keyvals) == {2 * n - 1 : n \in 1..Len(keyvals) \div 2}

LastPlace(keyvals, k) ==
    CHOOSE i \in KeyPlaces(keyvals) :
        /\ Text[keyvals[i]] = k
        /\ \A j \in KeyPlaces(keyvals) : Text[keyvals[j]] = k => j <= i

toFields(keyvals) ==
    [k \in {Text[keyvals[i]] : i \in KeyPlaces(keyvals)} |-> keyvals[LastPlace(keyvals, k) + 1]]

(* BufferLogger.With returns the logger itself; the With of the others adds *)
(* the pairs to those they have.                                            *)
With(keyvals) ==
    /\ context = <<>>
    /\ context' = keyvals
    /\ UNCHANGED <<entries, written, adapted, said, spanVars>>

(* What a call comes to in a ZapLogger, and in Temporal's adapter: its own   *)
(* pairs behind those of With.                                              *)
ZapLogger(keyvals) == Sweetened(context) \o Sweetened(keyvals)
ZapLoggerAdapter(keyvals) == toZapFields(context) \o toZapFields(keyvals)

(* One call on each logger, at a level that all of them write.              *)
Log(keyvals) ==
    /\ Len(entries) < MaxEntries
    /\ entries' = Append(entries, toFields(keyvals))
    /\ written' = Append(written, ZapLogger(keyvals))
    /\ adapted' = Append(adapted, ZapLoggerAdapter(keyvals))
    /\ said' = Append(said, [with |-> context, keyvals |-> keyvals])
    /\ UNCHANGED <<context, spanVars>>

ClearEntries ==
    /\ entries' = <<>>
    /\ written' = <<>>
    /\ adapted' = <<>>
    /\ said' = <<>>
    /\ UNCHANGED <<context, spanVars>>

----------------------------------------------------------------------------
Next ==
    \/ \E name \in SpanNames : EndSpan(name) \/ FindSpanByName(name)
    \/ FindNext \/ FindAnswer \/ ResetSpans \/ ShutdownSpans
    \/ \E keyvals \in Calls : With(keyvals) \/ Log(keyvals)
    \/ ClearEntries

Spec == Init /\ [][Next]_vars

----------------------------------------------------------------------------
(* FindSpanByName answers a span of the name if one was finished when it    *)
(* was called, and none if there was none, while further spans end.  Only a *)
(* Reset or a Shutdown in its middle, which empty the exporter, makes it    *)
(* answer another span or run out of its index.                             *)
FindAnswersRight ==
    /\ find.pc = "panicked" => find.emptied
    /\ find.pc = "answered" /\ ~find.emptied =>
         find.result = IF find.held THEN find.name ELSE ""

(* A test that asserts on BufferLogger's entries sees what production logs: *)
(* a line reads like the entry, laid over the pairs of With, which entries  *)
(* lack.  Of the adapter this holds of every call.  Of ZapLogger it holds   *)
(* of calls with a string at every odd place: one with a field, an error or *)
(* another key there is paired differently by zap, or loses pairs.          *)
Plain(keyvals) == \A n \in 1..(Len(keyvals) + 1) \div 2 : keyvals[2 * n - 1] \in Strings
Over(f, g) == [k \in DOMAIN f \cup DOMAIN g |-> IF k \in DOMAIN f THEN f[k] ELSE g[k]]
EntriesAreWritten ==
    \A i \in DOMAIN entries :
        /\ Filled(adapted[i]) = Over(entries[i], Filled(toZapFields(said[i].with)))
        /\ Plain(said[i].keyvals) =>
             Filled(written[i]) = Over(entries[i], Filled(Sweetened(said[i].with)))
==============================================================================
