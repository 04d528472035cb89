------------------------------ MODULE KafkaWire ------------------------------
(***************************************************************************)
(* What travels with a Kafka message: headers, trace context and the       *)
(* settings of the connection.  One application publishes batches, retries *)
(* them, consumes the topic and forwards what it consumed; other producers *)
(* write to the topic as well.                                             *)
(*                                                                         *)
(* A header list is a sequence of pairs, as on the wire; a header map is a *)
(* function.  A span is its position in spans, Remote is one of another    *)
(* process; a trace header's value is the span it names, or a word that    *)
(* does not parse.                                                         *)
(***************************************************************************)
EXTENDS Integers, Sequences, FiniteSets

CONSTANTS
    Configs,        \* the Kafka configurations of the application
    Batches,        \* the batches it publishes: sequences of header maps
    ForeignHeaders, \* the header lists other producers write
    Words,          \* header values that name no span
    Empty,          \* the empty string Get answers for a missing header
    NotYet,         \* not made yet
    Refused,        \* the constructor returned an error
    MaxSpans, MaxLog, MaxCalls      \* bounds

ASSUME BoundsAssumption == MaxSpans \in Nat /\ MaxLog \in Nat /\ MaxCalls \in Nat

TraceKey == "traceparent"
Key == {TraceKey, "k"}
Remote == MaxSpans + 1
Span == 1..Remote
Value == Words \cup Span
HeaderMap == UNION {[D -> Value] : D \in SUBSET Key}
Header == [key : Key, value : Value]

Connection == [tls : BOOLEAN, sasl : {"none", "PLAIN", "SCRAM-SHA-256", "SCRAM-SHA-512"}]

ASSUME WordsAssumption == (Words \cup {Empty}) \cap Nat = {}
ASSUME OutcomesAssumption == NotYet # Refused /\ {NotYet, Refused} \cap Connection = {}
ASSUME BatchesAssumption == Batches \subseteq Seq(HeaderMap) \ {<<>>}
ASSUME ForeignAssumption == ForeignHeaders \subseteq Seq(Header)

(* tracing is a pointer in StandardConfig; certificate, key and CA decode   *)
(* or do not; user is the SASL user name and password, which SCRAM prepares *)
(* and may refuse.                                                          *)
Material == {"none", "good", "bad"}
Config == [tls : BOOLEAN, cert : Material, key : Material, ca : Material,
           sasl : BOOLEAN, mechanism : {"", "PLAIN", "SCRAM-SHA-256", "SCRAM-SHA-512", "GSSAPI"},
           user : {"good", "bad"},
           tracing : {"nil", "true", "false"},
           sdk : BOOLEAN]       \* FALSE: the tracer is the no-op one
ASSUME ConfigsAssumption == Configs \subseteq Config


VARIABLES
    cfg,
    fx,         \* the Kafka module makes producer and consumer, or they are made by hand
    producer,   \* NotYet, Refused or the producer's connection
    reader,     \* NotYet or the reader's
    propagator, \* whether the process has a global text map propagator
    spans,      \* the spans started: [parent, ended]; parent 0 is none
    call,       \* the PublishBatch call in progress
    calls,      \* how many were made
    result,     \* what the last one returned
    handed,     \* the messages the writers have been handed: sent, span and own are
                \* for the properties
    log,        \* the topic, of such messages
    next,       \* the reader's position in it
    delivery    \* the message with the handler: [at, headers, span]

vars == <<cfg, fx, producer, reader, propagator, spans, call, calls, result,
          handed, log, next, delivery>>
linkVars == <<cfg, fx, producer, reader>>

Idle == [stage |-> "idle", batch |-> <<>>, ctx |-> 0, span |-> 0]
NoDelivery == [at |-> 0, headers |-> <<>>, span |-> 0]

(* A message on its way: its list, its map, the span that was injected (0:  *)
(* none) and whether the application published it.                          *)
Wired == [headers : Seq(Header), sent : HeaderMap, span : {0} \cup Span, own : BOOLEAN]

TypeOK ==
    /\ cfg \in Configs
    /\ fx \in BOOLEAN
    /\ producer \in Connection \cup {NotYet, Refused}
    /\ reader \in Connection \cup {NotYet}
    /\ propagator \in BOOLEAN
    /\ spans \in Seq([parent : {0} \cup Span, ended : BOOLEAN])
    /\ Len(spans) <= MaxSpans
    /\ call \in [stage : {"idle", "begun", "ready"}, batch : Seq(HeaderMap),
                 ctx : {0} \cup Span, span : {0} \cup Span]
    /\ calls \in 0..MaxCalls
    /\ result \in {"none", "ok", "error"}
    /\ handed \subseteq Wired
    /\ log \in Seq(Wired)
    /\ next \in 1..Len(log) + 1
    /\ delivery \in [at : 0..Len(log), headers : HeaderMap, span : {0} \cup Span]

Init ==
    /\ cfg \in Configs
    /\ fx \in BOOLEAN
    /\ producer = NotYet
    /\ reader = NotYet
    /\ propagator = FALSE
    /\ spans = <<>>
    /\ call = Idle
    /\ calls = 0
    /\ result = "none"
    /\ handed = {}
    /\ log = <<>>
    /\ next = 1
    /\ delivery = NoDelivery

----------------------------------------------------------------------------
(* Configuration.                                                           *)

GetEnableTracing == cfg.tracing # "false"
GetSASLMechanism == IF cfg.mechanism = "" THEN "PLAIN" ELSE cfg.mechanism

(* A certificate is used only with its key; either alone is ignored.        *)
buildTLSConfig ==
    IF \/ "none" \notin {cfg.cert, cfg.key} /\ "bad" \in {cfg.cert, cfg.key}
       \/ cfg.ca = "bad"
      THEN "error" ELSE "config"

(* PLAIN takes any user; SCRAM refuses one it cannot prepare.               *)
buildSASLMechanism ==
    IF \/ GetSASLMechanism \notin {"PLAIN", "SCRAM-SHA-256", "SCRAM-SHA-512"}
       \/ GetSASLMechanism # "PLAIN" /\ cfg.user = "bad"
      THEN "error" ELSE GetSASLMechanism

(* Mutant: the producer goes on without what it could not set up, as the    *)
(* reader does.                                                             *)
NewProducerLogs ==
    /\ producer = NotYet
    /\ producer' = [tls  |-> cfg.tls /\ buildTLSConfig # "error",
                    sasl |-> IF cfg.sasl /\ buildSASLMechanism # "error"
                               THEN buildSASLMechanism ELSE "none"]
    /\ UNCHANGED <<cfg, fx, reader, propagator, spans, call, calls, result, handed, log,
                   next, delivery>>

(* NewProducer returns the first error of its settings.                     *)
NewProducer ==
    /\ producer = NotYet
    /\ producer' = IF \/ cfg.tls /\ buildTLSConfig = "error"
                      \/ cfg.sasl /\ buildSASLMechanism = "error"
                     THEN Refused
                     ELSE [tls |-> cfg.tls, sasl |-> IF cfg.sasl THEN buildSASLMechanism ELSE "none"]
    /\ UNCHANGED <<cfg, fx, reader, propagator, spans, call, calls, result, handed, log,
                   next, delivery>>

(* createReader begins with a bare dialer, adds what can be set up and logs *)
(* the rest.  In an application of the Kafka module a producer was made     *)
(* before.                                                                  *)
ReaderTLS  == IF cfg.tls THEN buildTLSConfig ELSE "none"
ReaderSASL == IF cfg.sasl THEN buildSASLMechanism ELSE "none"
createReader ==
    /\ reader = NotYet
    /\ fx => producer \in Connection
    /\ reader' = [tls  |-> ReaderTLS = "config",
                  sasl |-> IF ReaderSASL = "error" THEN "none" ELSE ReaderSASL]
    /\ UNCHANGED <<cfg, fx, producer, propagator, spans, call, calls, result, handed, log,
                   next, delivery>>

(* Nothing in the library sets the global propagator; the application may,  *)
(* at any time.                                                             *)
SetPropagator ==
    /\ ~propagator
    /\ propagator' = TRUE
    /\ UNCHANGED <<linkVars, spans, call, calls, result, handed, log, next, delivery>>

----------------------------------------------------------------------------
(* The header carrier.                                                      *)

Positions(headers, key) == {i \in 1..Len(headers) : headers[i].key = key}
First(at) == CHOOSE i \in at : \A j \in at : i <= j
Last(at)  == CHOOSE i \in at : \A j \in at : j <= i

(* Get returns the first value of a key.                                    *)
Get(headers, key) ==
    LET at == Positions(headers, key)
    IN  IF at = {} THEN Empty ELSE headers[First(at)].value

(* Mutant: a value is added to those there are.                             *)
SetAppends(headers, key, value) == Append(headers, [key |-> key, value |-> value])
(* Set replaces the first value of a key or appends one.                    *)
Set(headers, key, value) ==
    LET at == Positions(headers, key)
    IN  IF at = {} THEN Append(headers, [key |-> key, value |-> value])
        ELSE [headers EXCEPT ![First(at)] = [key |-> key, value |-> value]]

(* A propagator writes the span it finds in the context, if any.            *)
injectTraceContext(headers, span) ==
    IF propagator /\ span # 0 THEN Set(headers, TraceKey, span) ELSE headers

(* ... and reads back what parses.                                          *)
extractTraceContext(headers) ==
    LET value == Get(headers, TraceKey)
    IN  IF propagator /\ value \in Span THEN value ELSE 0

(* Ranging over a map yields its entries in any order.                      *)
Orders(keys) == {order \in [1..Cardinality(keys) -> keys] :
                   \A i, j \in DOMAIN order : order[i] = order[j] => i = j}
Listed(map, order) == [i \in DOMAIN order |-> [key |-> order[i], value |-> map[order[i]]]]
Lists(map) == {Listed(map, order) : order \in Orders(DOMAIN map)}

(* processMessage's map: the last value of a key wins.                      *)
ToMap(headers) ==
    [k \in {headers[i].key : i \in DOMAIN headers} |-> headers[Last(Positions(headers, k))].value]

(* The SDK starts a child of the span of the context; the no-op tracer      *)
(* hands the context's span on.                                             *)
StartSpan(parent) ==
    IF cfg.sdk THEN Append(spans, [parent |-> parent, ended |-> FALSE]) ELSE spans
Started(parent) == IF cfg.sdk THEN Len(spans) + 1 ELSE parent
Ended(span) == IF cfg.sdk /\ span # 0 THEN [spans EXCEPT ![span] = [@ EXCEPT !.ended = TRUE]] ELSE spans

----------------------------------------------------------------------------
(* PublishBatch: the span, the messages, the write.                         *)
Publish(batch, ctx) ==
    /\ producer \in Connection
    /\ call.stage = "idle"
    /\ calls < MaxCalls
    /\ Len(spans) < MaxSpans
    /\ calls' = calls + 1
    /\ result' = "none"
    /\ spans' = IF GetEnableTracing THEN StartSpan(ctx) ELSE spans
    /\ call' = [stage |-> "begun", batch |-> batch, ctx |-> ctx,
                span |-> IF GetEnableTracing THEN Started(ctx) ELSE 0]
    /\ UNCHANGED <<linkVars, propagator, handed, log, next, delivery>>

(* A message of the batch with a list of its headers.                       *)
Message(map, list) ==
    [headers |-> IF GetEnableTracing THEN injectTraceContext(list, call.span) ELSE list,
     sent |-> map,
     span |-> IF propagator /\ GetEnableTracing THEN call.span ELSE 0,
     own |-> TRUE]

(* Mutant: the header list is allocated once and grows from message to      *)
(* message.                                                                 *)
ConvertShares ==
    /\ call.stage = "begun"
    /\ \E first \in Lists(call.batch[1]) :
         handed' = handed \cup {Message(call.batch[i], first) : i \in DOMAIN call.batch}
    /\ call' = [call EXCEPT !.stage = "ready"]
    /\ UNCHANGED <<linkVars, propagator, spans, calls, result, log, next, delivery>>

(* The messages are made and handed to a writer of their own.               *)
Convert ==
    /\ call.stage = "begun"
    /\ \E list \in [DOMAIN call.batch -> UNION {Lists(call.batch[i]) : i \in DOMAIN call.batch}] :
         /\ \A i \in DOMAIN call.batch : list[i] \in Lists(call.batch[i])
         /\ handed' = handed \cup {Message(call.batch[i], list[i]) : i \in DOMAIN call.batch}
    /\ call' = [call EXCEPT !.stage = "ready"]
    /\ UNCHANGED <<linkVars, propagator, spans, calls, result, log, next, delivery>>

(* Mutant: the span is ended only behind the error return.                  *)
WriteMessagesEndsLate ==
    /\ call.stage = "ready"
    /\ result' \in {"ok", "error"}
    /\ spans' = IF result' = "ok" /\ GetEnableTracing THEN Ended(call.span) ELSE spans
    /\ call' = [call EXCEPT !.stage = "idle"]
    /\ UNCHANGED <<linkVars, propagator, calls, handed, log, next, delivery>>

(* WriteMessages returns and the span ends.  The writer asks for no         *)
(* acknowledgement, so nil says nothing of the topic; and an error may come *)
(* of a context that ended while the broker had taken it all.               *)
WriteMessages ==
    /\ call.stage = "ready"
    /\ result' \in {"ok", "error"}
    /\ spans' = IF GetEnableTracing THEN Ended(call.span) ELSE spans
    /\ call' = [call EXCEPT !.stage = "idle"]
    /\ UNCHANGED <<linkVars, propagator, calls, handed, log, next, delivery>>

(* The broker appends what a writer was handed: before the call returns or  *)
(* after, in any order, any part of it, and again when the writer tries     *)
(* again.                                                                   *)
Arrives ==
    /\ Len(log) < MaxLog
    /\ \E m \in handed : log' = Append(log, m)
    /\ UNCHANGED <<linkVars, propagator, spans, call, calls, result, handed, next, delivery>>

(* The application's own calls: a new batch under a context without a span, *)
(* a retry, or the handler forwarding what it was given.                    *)
PublishNew == \E batch \in Batches : Publish(batch, 0)
Retry      == result = "error" /\ Publish(call.batch, call.ctx)
Forward    == delivery.at # 0 /\ Publish(<<delivery.headers>>, delivery.span)

(* Another producer.  Nothing keeps a list from naming a key twice.         *)
ProduceForeign ==
    /\ Len(log) < MaxLog
    /\ \E headers \in ForeignHeaders :
         log' = Append(log, [headers |-> headers, sent |-> ToMap(headers),
                             span |-> 0, own |-> FALSE])
    /\ UNCHANGED <<linkVars, propagator, spans, call, calls, result, handed, next, delivery>>

----------------------------------------------------------------------------
(* processMessage up to the handler.                                        *)
processMessage ==
    /\ reader # NotYet
    /\ delivery.at = 0
    /\ next <= Len(log)
    /\ Len(spans) < MaxSpans
    /\ LET headers == log[next].headers
           ctx == IF GetEnableTracing THEN extractTraceContext(headers) ELSE 0
       IN  /\ spans' = IF GetEnableTracing THEN StartSpan(ctx) ELSE spans
           /\ delivery' = [at |-> next, headers |-> ToMap(headers),
                           span |-> IF GetEnableTracing THEN Started(ctx) ELSE 0]
    /\ next' = next + 1
    /\ UNCHANGED <<linkVars, propagator, call, calls, result, handed, log>>

(* The handler returns, with an error or without: the span ends.  A call it *)
(* made has returned before.                                                *)
HandlerReturns ==
    /\ delivery.at # 0
    /\ call.stage = "idle"
    /\ spans' = IF GetEnableTracing THEN Ended(delivery.span) ELSE spans
    /\ delivery' = NoDelivery
    /\ UNCHANGED <<linkVars, propagator, call, calls, result, handed, log, next>>

Next ==
    \/ NewProducer \/ createReader \/ SetPropagator
    \/ PublishNew \/ Retry \/ Forward \/ Convert \/ WriteMessages \/ Arrives
    \/ ProduceForeign \/ processMessage \/ HandlerReturns

Spec == Init /\ [][Next]_vars

----------------------------------------------------------------------------
Delivered == log[delivery.at]
Own(m) == m.own

(* The handler of a message is given the map its producer passed, with the  *)
(* trace header of the call where one was injected, once and whatever the   *)
(* order of the map, also when the map was that of a consumed message.      *)
HandlerSeesHeaders ==
    delivery.at # 0 /\ Own(Delivered) =>
        LET m == Delivered
            injected == IF m.span = 0 THEN {} ELSE {TraceKey}
        IN  delivery.headers =
              [k \in DOMAIN m.sent \cup injected |->
                  IF k \in injected THEN m.span ELSE m.sent[k]]

(* The span of a consumed message is the child of the call that wrote it,   *)
(* not of an earlier hop whose header it still carried.                     *)
ConsumeFollowsProduce ==
    delivery.at # 0 /\ Delivered.span # 0 =>
        (IF cfg.sdk THEN spans[delivery.span].parent ELSE delivery.span) = Delivered.span

(* Spans are open exactly as long as their call or their handler runs,      *)
(* whatever fails.                                                          *)
SpansEnd ==
    {s \in DOMAIN spans : ~spans[s].ended} =
        {s \in DOMAIN spans : \/ call.stage # "idle" /\ s = call.span
                              \/ delivery.at # 0 /\ s = delivery.span}

(* Producer and reader of one configuration connect alike, and in an        *)
(* application of the Kafka module never with less than it asks for,        *)
(* although createReader goes on without what it could not set up.          *)
ConnectAlike ==
    reader # NotYet =>
        /\ producer \in Connection => reader = producer
        /\ fx => reader.tls = cfg.tls /\ (cfg.sasl <=> reader.sasl # "none")

----------------------------------------------------------------------------
(* What the documentation says and the code does not do by itself.          *)

(* kafka/doc.go:3: "It exports Producer and Consumer through dependency     *)
(* injection with OpenTelemetry tracing for message propagation": the span  *)
(* of a message continues its producer's trace.                             *)
TracePropagates ==
    delivery.at # 0 /\ Own(Delivered) /\ cfg.sdk /\ GetEnableTracing =>
        spans[delivery.span].parent # 0
=============================================================================
