--------------------------- MODULE RequestTracing ---------------------------
(***************************************************************************)
(* The spans of requests: the HTTP and Echo middleware around a handler,   *)
(* Encore's entry, and the span helpers of BaseService inside the handler. *)
(*                                                                         *)
(* A handler is any sequence of writes and service calls that returns, with*)
(* an error or without, or panics.  The open spans of a request are a      *)
(* stack of frames: each is a function whose deferred calls are to run.    *)
(***************************************************************************)
EXTENDS Integers, Sequences, FiniteSets

CONSTANTS
    Requests,
    Codes,          \* the statuses handlers write
    Incoming,       \* the trace identifiers request headers name
    EncoreIds,      \* Encore's trace identifiers, decoded or Invalid
    Width,          \* bytes of a trace identifier (16 in OpenTelemetry)
    Invalid,        \* an identifier that is empty or does not decode
    MaxSpans, MaxWrites

(* MaxWrites bounds the WriteHeader calls of all requests together.         *)
ASSUME BoundsAssumption ==
    /\ MaxSpans \in Nat /\ MaxWrites \in Nat /\ IsFiniteSet(Requests)
    /\ Width \in Nat \ {0}
ASSUME CodesAssumption == Codes \subseteq 100..599

Byte == 0..1
Bytes == UNION {[1..n -> Byte] : n \in 0..Width + 1}
NoTrace == [i \in 1..Width |-> 0]
ASSUME IncomingAssumption == Incoming \subseteq [1..Width -> Byte] \ {NoTrace}
ASSUME InvalidAssumption == Invalid \notin Bytes
ASSUME EncoreIdsAssumption == EncoreIds \subseteq Bytes \cup {Invalid}

Middleware == {"http", "echo"}
Service == {"Trace", "WithSpan"}
Form == Middleware \cup Service \cup {"encore"}
Names == {"server", "service"}

VARIABLES
    req,        \* the requests
    stack,      \* their frames, the innermost last
    spans       \* every span started

vars == <<req, stack, spans>>

NoRequest == [stage |-> "idle", kind |-> "http", server |-> 0, recorded |-> 0,
              wire |-> 0, writes |-> 0, extra |-> FALSE, err |-> FALSE, encore |-> Invalid,
              below |-> FALSE]

TypeOK ==
    /\ req \in [Requests ->
         [stage : {"idle", "running", "panicking", "done", "aborted"},
          kind : Middleware \cup {"encore"},
          server : 0..Len(spans),       \* the middleware's span, 0 if skipped
          recorded : Codes \cup {0, 200, 500}, \* what the middleware will see
          wire : Codes \cup {0, 200, 500},     \* what the client got
          writes : 0..MaxWrites,
          extra : BOOLEAN,              \* a superfluous WriteHeader was made
          err : BOOLEAN,
          encore : Bytes \cup {Invalid},       \* Encore's identifier
          below : BOOLEAN]]             \* the server span's parent is a span of Encore's
    /\ stack \in [Requests -> Seq([form : Form, span : 1..MaxSpans])]
    /\ spans \in Seq([parent : 0..MaxSpans, name : Names,
                      trace : [new : 0..MaxSpans, id : [1..Width -> Byte]], owner : Requests,
                      status : Codes \cup {0, 200, 500}, error : BOOLEAN, ended : BOOLEAN])
    /\ Len(spans) <= MaxSpans

Init ==
    /\ req = [r \in Requests |-> NoRequest]
    /\ stack = [r \in Requests |-> <<>>]
    /\ spans = <<>>

----------------------------------------------------------------------------
(* The SDK: a span continues the trace identifier of its context if there   *)
(* is one, even if no span goes with it.                                    *)
Start(r, name, parent, id) ==
    LET new == Len(spans) + 1 IN
    spans' = Append(spans,
        [parent |-> parent, name |-> name, owner |-> r,
         trace |-> IF parent # 0 THEN spans[parent].trace
                   ELSE IF id # NoTrace THEN [new |-> 0, id |-> id]
                   ELSE [new |-> new, id |-> NoTrace],
         status |-> 0, error |-> FALSE, ended |-> FALSE])

(* Ending hands the span to the exporter.                                   *)
End(s, status, error) ==
    spans' = [spans EXCEPT ![s] = [@ EXCEPT !.status = status, !.error = error, !.ended = TRUE]]

Top(r) == stack[r][Len(stack[r])]
Push(r, form) == stack' = [stack EXCEPT ![r] = Append(@, [form |-> form, span |-> Len(spans) + 1])]
Pop(r) == stack' = [stack EXCEPT ![r] = SubSeq(@, 1, Len(@) - 1)]

(* Mutant: Echo's handler is called with the request as it came.            *)
ContextSpanOfHandler(r) ==
    IF stack[r] = <<>> \/ Top(r).form = "echo" THEN 0 ELSE Top(r).span
(* The span in the context a handler or service function is given.          *)
ContextSpan(r) == IF stack[r] = <<>> THEN 0 ELSE Top(r).span

----------------------------------------------------------------------------
(* The status of a responseWriter nobody has written to.                    *)
statusCode == 200

(* A request arrives.  A path in skipPaths goes straight to the handler; any*)
(* other gets a span, in the trace its headers name.  Echo's Response       *)
(* starts with 200.                                                         *)
Arrive(r, kind, skip, id) ==
    /\ req[r].stage = "idle"
    /\ req' = [req EXCEPT ![r] = [NoRequest EXCEPT !.stage = "running", !.kind = kind,
                                    !.recorded = IF kind = "http" THEN statusCode ELSE 200,
                                    !.server = IF skip THEN 0 ELSE Len(spans) + 1]]
    /\ IF skip
         THEN UNCHANGED <<stack, spans>>
         ELSE /\ Len(spans) < MaxSpans
              /\ Push(r, kind)
              /\ Start(r, "server", 0, id)

Arrival == {NoTrace} \cup Incoming
HTTPTracing == \E r \in Requests, skip \in BOOLEAN, id \in Arrival : Arrive(r, "http", skip, id)
EchoTracing == \E r \in Requests, skip \in BOOLEAN, id \in Arrival : Arrive(r, "echo", skip, id)

(* Mutant: an identifier is taken to be as short as a span's.               *)
ConvertTraceIDHalf(id) ==
    IF id = Invalid THEN NoTrace
    ELSE [i \in 1..Width |-> IF i <= Len(id) /\ 2 * i <= Width THEN id[i] ELSE 0]
(* What decodes is cut or padded to the width; what does not is zero.       *)
ConvertTraceID(id) ==
    IF id = Invalid THEN NoTrace
    ELSE [i \in 1..Width |-> IF i <= Len(id) THEN id[i] ELSE 0]

(* A span's identifier, by the same code, is half as wide.                  *)
SpanWidth == Width \div 2
NoSpan == [i \in 1..SpanWidth |-> 0]
ConvertSpanID(id) ==
    IF id = Invalid THEN NoSpan
    ELSE [i \in 1..SpanWidth |-> IF i <= Len(id) THEN id[i] ELSE 0]

(* A span is started in a context with what the identifiers convert to.  The*)
(* SDK keeps a parent it is given also if the trace is none, and then begins*)
(* a trace of its own.  The caller ends the span.                           *)
StartEncore(r, id, below) ==
    /\ req[r].stage = "idle"
    /\ Len(spans) < MaxSpans
    /\ req' = [req EXCEPT ![r] = [NoRequest EXCEPT !.stage = "running", !.kind = "encore",
                                    !.server = Len(spans) + 1, !.encore = id, !.below = below]]
    /\ Push(r, "encore")
    /\ Start(r, "server", 0, ConvertTraceID(id))

(* StartSpan makes a root span, StartSpanWithParent one below Encore's span.*)
StartSpan(r, id) == StartEncore(r, id, FALSE)
StartSpanWithParent(r, id, span) == StartEncore(r, id, ConvertSpanID(span) # NoSpan)
EncoreStart ==
    \E r \in Requests, id, span \in EncoreIds :
        StartSpan(r, id) \/ StartSpanWithParent(r, id, span)

----------------------------------------------------------------------------
(* The handler.  net/http sends the first final status and drops the        *)
(* others; responseWriter records every one.  Echo's Response ignores the   *)
(* ones after the first.  Echo handlers do not send informational statuses. *)
WriteHeader(r, code) ==
    /\ req[r].stage = "running"
    /\ req[r].kind \in Middleware
    /\ Cardinality({w \in Requests \X (1..MaxWrites) : w[2] <= req[w[1]].writes}) < MaxWrites
    /\ req[r].kind = "echo" => code >= 200
    /\ req' = [req EXCEPT ![r] =
         [@ EXCEPT !.writes = req[r].writes + 1,
                   !.recorded = IF req[r].kind = "echo" /\ req[r].wire # 0
                                THEN req[r].recorded ELSE code,
                   !.extra = req[r].extra \/ (req[r].kind = "http" /\ (req[r].wire # 0 \/ code < 200)),
                   !.wire = IF req[r].wire = 0 /\ code >= 200 THEN code ELSE req[r].wire]]
    /\ UNCHANGED <<stack, spans>>

(* Write sends 200 if no status was sent.                                   *)
Write(r) ==
    /\ req[r].stage = "running"
    /\ req[r].kind \in Middleware
    /\ req[r].wire = 0
    /\ req' = [req EXCEPT ![r].wire = 200]
    /\ UNCHANGED <<stack, spans>>

(* BaseService.Trace, WithSpan and WithSpanResult.                          *)
Enter(r, form) ==
    /\ req[r].stage = "running"
    /\ Len(spans) < MaxSpans
    /\ Push(r, form)
    /\ Start(r, "service", ContextSpan(r), NoTrace)
    /\ UNCHANGED req
Trace(r) == Enter(r, "Trace")
WithSpan(r) == Enter(r, "WithSpan")
WithSpanResult(r) == Enter(r, "WithSpan")   \* with a value besides the error

(* The function returns: its error marks the span, then the span ends.      *)
Leave(r, err) ==
    /\ req[r].stage = "running"
    /\ stack[r] # <<>>
    /\ Top(r).form \in Service \cup {"encore"}
    /\ End(Top(r).span, 0, err /\ Top(r).form # "encore")
    /\ Pop(r)
    /\ req' = [req EXCEPT ![r].stage = IF Top(r).form = "encore" THEN "done" ELSE @]

(* The handler returns to the middleware, which notes the status and marks  *)
(* failures.  Only then does the server complete the answer: Echo's error   *)
(* handler for an error, an implicit 200 for nothing.                       *)
AtMiddleware(r) == \A i \in DOMAIN stack[r] : stack[r][i].form \in Middleware
Answer(r, err) ==
    IF req[r].wire # 0 THEN req[r].wire
    ELSE IF err THEN 500 ELSE 200

(* Mutant: only statuses above 400 are failures.                            *)
FailureAbove(r, err) == err \/ req[r].recorded > 400
Failure(r, err) == err \/ req[r].recorded >= 400

Return(r, err) ==
    /\ req[r].stage = "running"
    /\ req[r].kind \in Middleware
    /\ AtMiddleware(r)
    /\ err => req[r].kind = "echo"
    /\ req' = [req EXCEPT ![r].stage = "done", ![r].err = err, ![r].wire = Answer(r, err)]
    /\ IF stack[r] = <<>>
         THEN UNCHANGED <<stack, spans>>
         ELSE /\ End(Top(r).span, req[r].recorded, Failure(r, err))
              /\ Pop(r)

(* A panic runs the deferred calls of the frames: every span ends, without  *)
(* status and without error, and the server closes the connection.          *)
Panic(r) ==
    /\ req[r].stage = "running"
    /\ req' = [req EXCEPT ![r].stage = "panicking"]
    /\ UNCHANGED <<stack, spans>>

(* Mutant: WithSpan ends its span behind the call instead of deferring it.  *)
UnwindUndeferred(r) ==
    /\ req[r].stage = "panicking"
    /\ IF stack[r] = <<>>
         THEN /\ req' = [req EXCEPT ![r].stage = "aborted"]
              /\ UNCHANGED <<stack, spans>>
         ELSE /\ IF Top(r).form = "WithSpan" THEN UNCHANGED spans
                                             ELSE End(Top(r).span, 0, FALSE)
              /\ Pop(r)
              /\ UNCHANGED req

Unwind(r) ==
    /\ req[r].stage = "panicking"
    /\ IF stack[r] = <<>>
         THEN /\ req' = [req EXCEPT ![r].stage = "aborted"]
              /\ UNCHANGED <<stack, spans>>
         ELSE /\ End(Top(r).span, 0, FALSE)
              /\ Pop(r)
              /\ UNCHANGED req

----------------------------------------------------------------------------
HandlerStep(r) ==
    \/ \E code \in Codes : WriteHeader(r, code)
    \/ Write(r)
    \/ Trace(r) \/ WithSpan(r) \/ WithSpanResult(r)
    \/ \E err \in BOOLEAN : Leave(r, err) \/ Return(r, err)
    \/ Panic(r) \/ Unwind(r)

Next ==
    \/ HTTPTracing \/ EchoTracing \/ EncoreStart
    \/ \E r \in Requests : HandlerStep(r)

Spec == Init /\ [][Next]_vars

----------------------------------------------------------------------------
(* No span outlives its request, however the handler ends, and a span ends  *)
(* after the spans below it: no child of a finished span is still running.  *)
SpansEndInside ==
    \A s \in DOMAIN spans :
        /\ req[spans[s].owner].stage \in {"done", "aborted"} => spans[s].ended
        /\ \A t \in DOMAIN spans :
              spans[t].parent = s /\ spans[s].ended => spans[t].ended

(* The work of a traced request is below its server span and in the trace   *)
(* of that span, whichever framework handed the context on and however      *)
(* requests overlap.                                                        *)
OneTracePerRequest ==
    \A s \in DOMAIN spans :
        LET server == req[spans[s].owner].server IN
        spans[s].name = "service" /\ server # 0 =>
            /\ spans[s].parent # 0
            /\ spans[s].trace = spans[server].trace

(* Encore's requests are in one trace exactly as their identifiers say: all *)
(* spans of a request are together, with a full identifier in the trace     *)
(* Encore has it in (encore/tracing.go:53), and two requests meet only if   *)
(* their identifiers agree as far as ours reach, one cut or padded with     *)
(* zeros.  Requests whose identifiers are none never meet, and only such a  *)
(* one can have a span below Encore's that is not in Encore's trace.        *)
Digit(id, i) == IF i \in DOMAIN id THEN id[i] ELSE 0
NoIdentifier(id) == id = Invalid \/ \A i \in 1..Width : Digit(id, i) = 0
Meet(a, b) ==
    ~NoIdentifier(a) /\ ~NoIdentifier(b) /\ \A i \in 1..Width : Digit(a, i) = Digit(b, i)
EncoreCorrelates ==
    \A s, t \in DOMAIN spans :
        LET r == spans[s].owner
            q == spans[t].owner
            id == req[r].encore
        IN  req[r].kind = "encore" /\ req[q].kind = "encore" =>
              /\ spans[s].trace = spans[t].trace <=> r = q \/ Meet(id, req[q].encore)
              /\ ~NoIdentifier(id) /\ Len(id) = Width => spans[s].trace = [new |-> 0, id |-> id]
              /\ req[r].below /\ spans[s].trace.new # 0 => NoIdentifier(id)

(* A traced request the handler brought to an end, under net/http without   *)
(* superfluous or informational WriteHeader.                                *)
Completed(r) == req[r].stage = "done" /\ ~req[r].extra /\ req[r].server # 0
                  /\ req[r].kind \in Middleware

(* The server span tells what became of the request.  Its status is the one *)
(* the client got, and it is marked as failed exactly when the client saw a *)
(* failure or the handler returned an error.  The exception is an Echo      *)
(* handler that returns its error before anything was written: the span has *)
(* 200 and the error, the client gets the error handler's status.           *)
SpanTellsOutcome ==
    \A r \in Requests : Completed(r) =>
        LET span == spans[req[r].server] IN
        /\ span.status = req[r].wire \/ (req[r].err /\ span.error)
        /\ span.error <=> req[r].wire >= 400 \/ req[r].err
=============================================================================
