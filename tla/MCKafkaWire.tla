----------------------------- MODULE MCKafkaWire -----------------------------
(* Instance of KafkaWire for TLC.  The configurations: all defaults, TLS and *)
(* SASL set up (PLAIN takes any user), a certificate without its key, three  *)
(* that cannot be set up, tracing off, and a tracer that does nothing.       *)
EXTENDS KafkaWire

CONSTANTS val, junk
TwoWords == {val, junk}

Plain == [tls |-> FALSE, cert |-> "none", key |-> "none", ca |-> "none",
          sasl |-> FALSE, mechanism |-> "", user |-> "good", tracing |-> "nil", sdk |-> TRUE]
EightConfigs ==
    {Plain,
     [Plain EXCEPT !.tls = TRUE, !.ca = "good", !.sasl = TRUE, !.user = "bad"],
     [Plain EXCEPT !.tls = TRUE, !.cert = "bad", !.tracing = "true"],
     [Plain EXCEPT !.tls = TRUE, !.ca = "bad"],
     [Plain EXCEPT !.sasl = TRUE, !.mechanism = "GSSAPI"],
     [Plain EXCEPT !.sasl = TRUE, !.mechanism = "SCRAM-SHA-512", !.user = "bad"],
     [Plain EXCEPT !.tracing = "false"],
     [Plain EXCEPT !.sdk = FALSE]}

Of(k, v) == [key |-> k, value |-> v]
TwoBatches == {<<[k \in {"k"} |-> val], [k \in {} |-> val]>>,
               <<[k \in {TraceKey, "k"} |-> IF k = TraceKey THEN Remote ELSE val]>>}
(* A list that names its keys twice, the second trace header not parsing.   *)
SomeHeaders == {<<Of(TraceKey, Remote), Of("k", val), Of(TraceKey, junk)>>}
=============================================================================
