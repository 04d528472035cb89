---------------------------- MODULE MCTestDoubles ----------------------------
(* Instance of TestDoubles for TLC: log calls with pairs, with a key without *)
(* a value, with keys of one text of which one is a number, with a field     *)
(* before the pairs, and with errors as a value and by itself.               *)
EXTENDS TestDoubles

CONSTANTS number, field, error
TheFields == {field}
TheErrors == {error}
TheOthers == {number}
SomeStrings == {"key", "1", "error"}
SomeText == [a \in SomeStrings \cup {number, field, error} |->
                IF a \in SomeStrings THEN a ELSE IF a = number THEN "1" ELSE "key"]
SomeLabel == [a \in {field, error} |-> IF a = field THEN "key" ELSE "error"]
SomeCalls == {<<"key", "1", "key">>, <<"key", number, "1", error>>,
              <<number, "key", "1", number>>, <<field, "key", number>>,
              <<"key", error, error, error, "1", "key">>}
=============================================================================
