--------------------------- MODULE KafkaWireProofs ---------------------------
(* Proofs about KafkaWire that hold of any configurations, batches and       *)
(* foreign header lists, and of any number of spans, messages and calls.     *)
EXTENDS KafkaWire, FiniteSetTheorems, SequenceTheorems, WellFoundedInduction, TLAPS

(* Sequences and finite sets of numbers.                                     *)
LEMMA Appended ==
    ASSUME NEW S, NEW seq \in Seq(S), NEW e \in S, NEW new, new = Append(seq, e)
    PROVE  /\ new \in Seq(S) /\ Len(seq) \in Nat /\ Len(new) = Len(seq) + 1
           /\ DOMAIN seq = 1..Len(seq) /\ DOMAIN new = 1..(Len(seq) + 1)
           /\ \A i \in 1..Len(seq) : new[i] = seq[i]
           /\ new[Len(seq) + 1] = e
  OBVIOUS

LEMMA Updated ==
    ASSUME NEW S, NEW seq \in Seq(S), NEW t \in DOMAIN seq, NEW e \in S,
           NEW new, new = [seq EXCEPT ![t] = e]
    PROVE  /\ new \in Seq(S) /\ DOMAIN new = DOMAIN seq /\ Len(new) = Len(seq)
           /\ new[t] = e /\ \A s \in DOMAIN seq : s # t => new[s] = seq[s]
  OBVIOUS

LEMMA Least ==
    ASSUME NEW T \in SUBSET Nat, T # {}
    PROVE  \E n \in T : \A m \in T : n <= m
  <1> DEFINE R == {p \in Nat \X Nat : p[1] < p[2]}
  <1>1. IsWellFoundedOn(R, Nat)
    BY NatLessThanWellFounded DEF OpToRel
  <1>2. PICK n \in T : \A m \in T : ~(<<m, n>> \in R)
    <2> HIDE DEF R
    <2> QED
      BY <1>1, WFMin
  <1>3. \A m \in T : ~(m < n)
    BY <1>2
  <1> QED
    BY <1>3

LEMMA Greatest ==
    ASSUME NEW n \in Nat, NEW T \in SUBSET (1..n), T # {}
    PROVE  \E m \in T : \A k \in T : k <= m
  <1> DEFINE U == {n - m : m \in T}
  <1>1. \A m \in T : m \in Nat /\ n - m \in U /\ n - m \in Nat
    OBVIOUS
  <1>2. U \in SUBSET Nat /\ U # {}
    BY <1>1
  <1>3. PICK u \in U : \A v \in U : u <= v
    BY <1>2, Least
  <1>4. PICK m \in T : u = n - m
    OBVIOUS
  <1> HIDE DEF U
  <1>5. \A k \in T : u <= n - k
    BY <1>1, <1>3
  <1> QED
    BY <1>1, <1>4, <1>5

LEMMA FirstIsMember ==
    ASSUME NEW T \in SUBSET Nat, T # {}
    PROVE  First(T) \in T
  BY Least DEF First

LEMMA LastIsMember ==
    ASSUME NEW n \in Nat, NEW T \in SUBSET (1..n), T # {}
    PROVE  Last(T) \in T
  BY Greatest DEF Last

----------------------------------------------------------------------------
(* The invariant.  A producer that was made had no error in its settings and *)
(* has all of them; a reader has what could be set up.                       *)
TLSFails  == cfg.tls /\ buildTLSConfig = "error"
SASLFails == cfg.sasl /\ buildSASLMechanism = "error"
Asked     == [tls |-> cfg.tls, sasl |-> IF cfg.sasl THEN buildSASLMechanism ELSE "none"]
Reached   == [tls  |-> ReaderTLS = "config",
              sasl |-> IF ReaderSASL = "error" THEN "none" ELSE ReaderSASL]
LinkInv ==
    /\ producer \in Connection => producer = Asked /\ ~TLSFails /\ ~SASLFails
    /\ reader # NotYet => reader = Reached /\ (fx => producer \in Connection)

(* A header list that has the entries of a map, each once.                   *)
Says(headers, map) ==
    /\ headers \in Seq(Header)
    /\ \A i, j \in DOMAIN headers : headers[i].key = headers[j].key => i = j
    /\ {headers[i].key : i \in DOMAIN headers} = DOMAIN map
    /\ \A i \in DOMAIN headers : headers[i].value = map[headers[i].key]

(* A message carries what its producer's map said and, if a span was         *)
(* injected, that span as its trace header.                                  *)
Injected(m) == IF m.span = 0 THEN {} ELSE {TraceKey}
Carried(m) == [k \in DOMAIN m.sent \cup Injected(m) |->
                  IF k \in Injected(m) THEN m.span ELSE m.sent[k]]
Faithful(m) == Says(m.headers, Carried(m)) /\ (m.span # 0 => propagator /\ GetEnableTracing)

HandedInv == \A m \in handed : Own(m) /\ Faithful(m)
LogInv == \A n \in DOMAIN log :
    /\ Own(log[n]) => Faithful(log[n])
    /\ ~Own(log[n]) => log[n].span = 0

(* The spans of the call and of the handler are two, and there are no others.*)
SpanInv ==
    /\ ~cfg.sdk => spans = <<>>
    /\ cfg.sdk /\ call.stage # "idle" =>
          IF GetEnableTracing THEN call.span \in DOMAIN spans ELSE call.span = 0
    /\ cfg.sdk /\ delivery.at # 0 =>
          IF GetEnableTracing THEN delivery.span \in DOMAIN spans ELSE delivery.span = 0
    /\ cfg.sdk /\ GetEnableTracing /\ call.stage # "idle" /\ delivery.at # 0 =>
          call.span # delivery.span
    /\ SpansEnd

DeliveryInv ==
    /\ delivery.at # 0 => delivery.headers = ToMap(Delivered.headers)
    /\ ConsumeFollowsProduce

IInv == LinkInv /\ HandedInv /\ LogInv /\ SpanInv /\ DeliveryInv
----------------------------------------------------------------------------
(* Types.                                                                    *)
OptSpan == {0} \cup Span
SpanRecord == [parent : OptSpan, ended : BOOLEAN]
CallStage == {"idle", "begun", "ready"}
CallRecord == [stage : CallStage, batch : Seq(HeaderMap), ctx : OptSpan, span : OptSpan]
DeliveryRecord(n) == [at : 0..n, headers : HeaderMap, span : OptSpan]

LEMMA TypesOf ==
    ASSUME TypeOK
    PROVE  /\ cfg \in Configs /\ cfg \in Config
           /\ spans \in Seq(SpanRecord) /\ Len(spans) \in Nat /\ Len(spans) <= MaxSpans
           /\ call \in CallRecord
           /\ log \in Seq(Wired) /\ Len(log) \in Nat /\ DOMAIN log = 1..Len(log)
           /\ delivery \in DeliveryRecord(Len(log))
           /\ handed \subseteq Wired
  BY ConfigsAssumption, BoundsAssumption
  DEF TypeOK, OptSpan, SpanRecord, CallStage, CallRecord, DeliveryRecord

LEMMA SpanTypes ==
    /\ MaxSpans \in Nat /\ OptSpan = 0..Remote /\ Remote \in Nat /\ 0 \notin Span
    /\ \A s \in 1..MaxSpans : s \in Span
    /\ Span \subseteq Nat /\ Span \subseteq Value /\ TraceKey \in Key
  BY BoundsAssumption DEF OptSpan, Span, Remote, Value, Key

(* What a connection has when nothing in its settings is in error: the       *)
(* reader's is the producer's, set up another way.                           *)
LEMMA SettingsAsked ==
    ASSUME cfg \in Configs
    PROVE  /\ Reached \in Connection
           /\ ~TLSFails /\ ~SASLFails =>
                 /\ Asked \in Connection /\ Reached = Asked
                 /\ Asked.tls = cfg.tls /\ (cfg.sasl <=> Asked.sasl # "none")
  <1> DEFINE Mechanisms == {"PLAIN", "SCRAM-SHA-256", "SCRAM-SHA-512"}
  <1>1. cfg.tls \in BOOLEAN /\ cfg.sasl \in BOOLEAN
    BY ConfigsAssumption DEF Config
  <1>2. buildSASLMechanism \in Mechanisms \cup {"error"}
    BY DEF buildSASLMechanism
  <1>3. buildTLSConfig \in {"config", "error"}
    BY DEF buildTLSConfig
  <1> DEFINE tls == ReaderTLS = "config"
             sasl == IF ReaderSASL = "error" THEN "none" ELSE ReaderSASL
             asked == IF cfg.sasl THEN buildSASLMechanism ELSE "none"
  <1>4. tls \in BOOLEAN
    <2>1. CASE ReaderTLS = "config"
      BY <2>1
    <2>2. CASE ReaderTLS # "config"
      BY <2>2
    <2> QED
      BY <2>1, <2>2
  <1>5. sasl \in {"none"} \cup Mechanisms
    BY <1>2 DEF ReaderSASL
  <1>6. ~TLSFails => tls = cfg.tls
    BY <1>1, <1>3 DEF TLSFails, ReaderTLS
  <1>7. ~SASLFails => sasl = asked /\ (cfg.sasl <=> asked # "none")
    BY <1>1, <1>2 DEF SASLFails, ReaderSASL
  <1>8. Reached = [tls |-> tls, sasl |-> sasl] /\ Asked = [tls |-> cfg.tls, sasl |-> asked]
    BY DEF Reached, Asked
  <1> HIDE DEF tls, sasl, asked
  <1> QED
    BY <1>1, <1>4, <1>5, <1>6, <1>7, <1>8 DEF Connection

(* What starting and ending a span does, span by span.                       *)
Traces == cfg.sdk /\ GetEnableTracing
SpanOpens(parent, s) ==
    IF Traces
      THEN /\ DOMAIN spans' = DOMAIN spans \cup {s} /\ s \notin DOMAIN spans /\ s # 0
           /\ spans'[s].parent = parent /\ ~spans'[s].ended
           /\ \A t \in DOMAIN spans : spans'[t] = spans[t]
      ELSE spans' = spans /\ s = IF GetEnableTracing THEN parent ELSE 0
SpanCloses(s) ==
    IF Traces
      THEN /\ DOMAIN spans' = DOMAIN spans /\ spans'[s].ended
           /\ \A t \in DOMAIN spans : /\ spans'[t].parent = spans[t].parent
                                      /\ t # s => spans'[t] = spans[t]
      ELSE spans' = spans

LEMMA Opening ==
    ASSUME TypeOK, Len(spans) < MaxSpans, NEW parent \in OptSpan, NEW s,
           spans' = IF GetEnableTracing THEN StartSpan(parent) ELSE spans,
           s = IF GetEnableTracing THEN Started(parent) ELSE 0
    PROVE  /\ spans' \in Seq(SpanRecord) /\ Len(spans') <= MaxSpans /\ s \in OptSpan
           /\ SpanOpens(parent, s)
  <1>1. spans \in Seq(SpanRecord) /\ Len(spans) \in Nat /\ Len(spans) <= MaxSpans
    BY TypesOf
  <1>2. CASE Traces
    <2> DEFINE e == [parent |-> parent, ended |-> FALSE]
    <2>1. e \in SpanRecord /\ e.parent = parent /\ ~e.ended
      BY DEF SpanRecord
    <2>2. spans' = Append(spans, e) /\ s = Len(spans) + 1
      BY <1>2 DEF Traces, StartSpan, Started
    <2> HIDE DEF e
    <2>3. /\ spans' \in Seq(SpanRecord) /\ Len(spans') = Len(spans) + 1
          /\ DOMAIN spans = 1..Len(spans) /\ DOMAIN spans' = 1..(Len(spans) + 1)
          /\ \A i \in 1..Len(spans) : spans'[i] = spans[i]
          /\ spans'[Len(spans) + 1] = e
      BY <1>1, <2>1, <2>2, Appended
    <2>4. Len(spans) + 1 \in 1..MaxSpans
      BY <1>1, SpanTypes
    <2>5. s \in OptSpan /\ Len(spans') <= MaxSpans
      BY <2>2, <2>3, <2>4, SpanTypes DEF OptSpan
    <2>6. DOMAIN spans' = DOMAIN spans \cup {s} /\ s \notin DOMAIN spans /\ s # 0
      BY <1>1, <2>2, <2>3
    <2> QED
      BY <1>2, <2>1, <2>2, <2>3, <2>5, <2>6 DEF SpanOpens
  <1>3. CASE ~Traces
    BY <1>1, <1>3 DEF Traces, SpanOpens, StartSpan, Started, OptSpan
  <1> QED
    BY <1>2, <1>3

LEMMA Closing ==
    ASSUME TypeOK, NEW s \in OptSpan, Traces => s \in DOMAIN spans,
           spans' = IF GetEnableTracing THEN Ended(s) ELSE spans
    PROVE  /\ spans' \in Seq(SpanRecord) /\ Len(spans') <= MaxSpans
           /\ SpanCloses(s)
  <1>1. spans \in Seq(SpanRecord) /\ Len(spans) \in Nat /\ Len(spans) <= MaxSpans
    BY TypesOf
  <1>2. CASE Traces
    <2> DEFINE old == spans[s]
               e == [old EXCEPT !.ended = TRUE]
    <2>1. s \in DOMAIN spans /\ s # 0 /\ old \in SpanRecord
      BY <1>1, <1>2
    <2>2. spans' = [spans EXCEPT ![s] = e]
      BY <1>2, <2>1 DEF Traces, Ended
    <2>3. e \in SpanRecord /\ e.parent = old.parent /\ e.ended = TRUE
      <3> HIDE DEF old
      <3> QED
        BY <2>1 DEF SpanRecord
    <2> HIDE DEF e
    <2>4. /\ spans' \in Seq(SpanRecord) /\ DOMAIN spans' = DOMAIN spans
          /\ Len(spans') = Len(spans)
          /\ spans'[s] = e /\ \A t \in DOMAIN spans : t # s => spans'[t] = spans[t]
      BY <1>1, <2>1, <2>2, <2>3, Updated
    <2> QED
      BY <1>1, <1>2, <2>1, <2>3, <2>4 DEF SpanCloses
  <1>3. CASE ~Traces
    BY <1>1, <1>3 DEF Traces, SpanCloses, Ended
  <1> QED
    BY <1>2, <1>3

(* What a map and a list of headers are converted to.                        *)
LEMMA ToMapTyped ==
    ASSUME NEW headers \in Seq(Header)
    PROVE  ToMap(headers) \in HeaderMap
  <1> DEFINE D == {headers[i].key : i \in DOMAIN headers}
  <1>1. Len(headers) \in Nat /\ DOMAIN headers = 1..Len(headers)
    OBVIOUS
  <1>2. \A i \in DOMAIN headers : headers[i] \in Header
    OBVIOUS
  <1>3. D \in SUBSET Key
    BY <1>2 DEF Header
  <1>4. ASSUME NEW k \in D PROVE headers[Last(Positions(headers, k))].value \in Value
    <2>1. Positions(headers, k) # {} /\ Positions(headers, k) \subseteq 1..Len(headers)
      BY <1>1 DEF Positions
    <2>2. Last(Positions(headers, k)) \in DOMAIN headers
      BY <1>1, <2>1, LastIsMember
    <2> QED
      BY <1>2, <2>2 DEF Header
  <1>5. ToMap(headers) = [k \in D |-> headers[Last(Positions(headers, k))].value]
    BY DEF ToMap
  <1> HIDE DEF D
  <1>6. ToMap(headers) \in [D -> Value]
    BY <1>4, <1>5
  <1> QED
    BY <1>3, <1>6 DEF HeaderMap

(* The map ranged over in any order makes such a list.                       *)
LEMMA ListedSays ==
    ASSUME NEW map \in HeaderMap, NEW headers \in Lists(map)
    PROVE  Says(headers, map)
  <1> DEFINE D == DOMAIN map
             n == Cardinality(D)
  <1>1. D \subseteq Key /\ map \in [D -> Value]
    BY DEF HeaderMap
  <1>2. IsFiniteSet(D)
    <2>1. IsFiniteSet({TraceKey}) /\ IsFiniteSet({"k"})
      BY FS_Singleton
    <2>2. Key = {TraceKey} \cup {"k"}
      BY DEF Key
    <2>3. IsFiniteSet(Key)
      BY <2>1, <2>2, FS_Union
    <2> QED
      BY <1>1, <2>3, FS_Subset
  <1>3. n \in Nat
    BY <1>2, FS_CardinalityType
  <1>4. PICK order \in Orders(D) : headers = Listed(map, order)
    BY DEF Lists
  <1> HIDE DEF D
  <1>5. order \in [1..n -> D] /\ order \in Injection(1..n, D)
    BY <1>4 DEF Orders, Injection, IsInjective
  <1>6. IsFiniteSet(1..n) /\ Cardinality(1..n) = n
    BY <1>3, FS_Interval
  <1>7. order \in Surjection(1..n, D)
    BY <1>2, <1>5, <1>6, FS_Injection
  <1> HIDE DEF n
  <1>8. \A k \in D : \E i \in 1..n : order[i] = k
    BY <1>7 DEF Surjection
  <1>9. /\ DOMAIN headers = 1..n
        /\ \A i \in 1..n : headers[i] = [key |-> order[i], value |-> map[order[i]]]
    BY <1>4, <1>5 DEF Listed
  <1>10. \A i \in 1..n : headers[i].key = order[i] /\ headers[i].value = map[order[i]]
    BY <1>9
  <1>11. headers \in Seq(Header)
    <2>1. \A i \in 1..n : headers[i] \in Header
      BY <1>1, <1>5, <1>9 DEF Header
    <2>2. headers \in [1..n -> Header]
      BY <1>4, <1>5, <1>9, <2>1 DEF Listed
    <2> QED
      BY <1>3, <2>2
  <1>12. {headers[i].key : i \in DOMAIN headers} = D
    BY <1>5, <1>8, <1>9, <1>10
  <1>13. \A i, j \in DOMAIN headers : headers[i].key = headers[j].key => i = j
    BY <1>5, <1>9, <1>10 DEF Injection, IsInjective
  <1> QED
    BY <1>9, <1>10, <1>11, <1>12, <1>13 DEF Says, D

(* A span is injected into a list where its key is, or else behind it.       *)
LEMMA InjectedSays ==
    ASSUME NEW map \in HeaderMap, NEW headers, Says(headers, map), NEW span \in Span
    PROVE  Says(Set(headers, TraceKey, span),
                [k \in DOMAIN map \cup {TraceKey} |-> IF k = TraceKey THEN span ELSE map[k]])
  <1> DEFINE new == Set(headers, TraceKey, span)
             e == [key |-> TraceKey, value |-> span]
             at == Positions(headers, TraceKey)
             res == [k \in DOMAIN map \cup {TraceKey} |-> IF k = TraceKey THEN span ELSE map[k]]
  <1>1. e \in Header /\ e.key = TraceKey /\ e.value = span
    BY SpanTypes DEF Header
  <1>2. headers \in Seq(Header) /\ DOMAIN headers = 1..Len(headers) /\ Len(headers) \in Nat
    BY DEF Says
  <1>3. at \subseteq DOMAIN headers /\ \A i \in DOMAIN headers : i \in at <=> headers[i].key = TraceKey
    BY <1>2 DEF Positions
  <1>4. /\ DOMAIN res = DOMAIN map \cup {TraceKey} /\ res[TraceKey] = span
        /\ \A k \in DOMAIN map : k # TraceKey => res[k] = map[k]
    OBVIOUS
  <1> HIDE DEF res, at, e
  <1>5. CASE at = {}
    <2>1. new = Append(headers, e)
      BY <1>5 DEF Set, at, e
    <2> DEFINE m == Len(headers) + 1
    <2> HIDE DEF new
    <2>2. /\ new \in Seq(Header) /\ DOMAIN new = DOMAIN headers \cup {m} /\ m \notin DOMAIN headers
          /\ \A i \in DOMAIN headers : new[i] = headers[i]
          /\ new[m] = e
      <3>1. /\ new \in Seq(Header) /\ DOMAIN new = 1..m
            /\ \A i \in 1..Len(headers) : new[i] = headers[i] /\ new[m] = e
            /\ new[m] = e
        BY <1>1, <1>2, <2>1, Appended
      <3> QED
        BY <1>2, <3>1
    <2> HIDE DEF m
    <2>3. \A i \in DOMAIN headers : headers[i].key # TraceKey /\ new[i].key = headers[i].key
      BY <1>3, <1>5, <2>2
    <2>4. \A i, j \in DOMAIN new : new[i].key = new[j].key => i = j
      BY <1>1, <2>2, <2>3 DEF Says
    <2>5. {new[i].key : i \in DOMAIN new} = DOMAIN res
      BY <1>1, <1>4, <2>2, <2>3 DEF Says
    <2>6. \A i \in DOMAIN new : new[i].value = res[new[i].key]
      BY <1>1, <1>4, <2>2, <2>3 DEF Says
    <2> QED
      BY <2>2, <2>4, <2>5, <2>6 DEF Says, new, res
  <1>6. CASE at # {}
    <2> DEFINE f == First(at)
    <2>1. f \in at
      BY <1>2, <1>3, <1>6, FirstIsMember
    <2>2. f \in DOMAIN headers /\ headers[f].key = TraceKey
      BY <1>3, <2>1
    <2>3. new = [headers EXCEPT ![f] = e]
      BY <1>6 DEF Set, at, e
    <2> HIDE DEF new, f
    <2>4. /\ new \in Seq(Header) /\ DOMAIN new = DOMAIN headers
          /\ new[f] = e /\ \A s \in DOMAIN headers : s # f => new[s] = headers[s]
      BY <1>1, <1>2, <2>2, <2>3, Updated
    <2>5. \A i \in DOMAIN headers : new[i].key = headers[i].key
      BY <1>1, <2>2, <2>4
    <2>6. {new[i].key : i \in DOMAIN new} = DOMAIN res
      BY <1>4, <2>2, <2>4, <2>5 DEF Says
    <2>7. \A i \in DOMAIN new : new[i].value = res[new[i].key]
      <3> SUFFICES ASSUME NEW i \in DOMAIN headers PROVE new[i].value = res[new[i].key]
        BY <2>4
      <3>1. CASE i = f
        BY <1>1, <1>4, <2>4, <3>1
      <3>2. CASE i # f
        BY <1>4, <2>2, <2>4, <2>5, <3>2 DEF Says
      <3> QED
        BY <3>1, <3>2
    <2>8. \A i, j \in DOMAIN new : new[i].key = new[j].key => i = j
      BY <2>4, <2>5 DEF Says
    <2> QED
      BY <2>4, <2>6, <2>7, <2>8 DEF Says, new, res
  <1> QED
    BY <1>5, <1>6

(* Such a list is converted back to the map, and its trace header is found.  *)
LEMMA ToMapOfSaid ==
    ASSUME NEW map, DOMAIN map \subseteq Key, map = [k \in DOMAIN map |-> map[k]],
           NEW headers, Says(headers, map)
    PROVE  /\ ToMap(headers) = map
           /\ TraceKey \in DOMAIN map => Get(headers, TraceKey) = map[TraceKey]
  <1>1. headers \in Seq(Header) /\ DOMAIN headers = 1..Len(headers) /\ Len(headers) \in Nat
    BY DEF Says
  <1>2. ASSUME NEW k \in DOMAIN map
        PROVE  /\ Positions(headers, k) # {}
               /\ First(Positions(headers, k)) \in DOMAIN headers
               /\ headers[First(Positions(headers, k))].value = map[k]
               /\ headers[Last(Positions(headers, k))].value = map[k]
    <2> DEFINE at == Positions(headers, k)
    <2>1. /\ at \subseteq 1..Len(headers) /\ at \subseteq Nat
          /\ \A i \in at : headers[i].key = k /\ i \in DOMAIN headers
      BY <1>1 DEF Positions
    <2>2. at # {}
      BY <1>1 DEF Says, Positions
    <2> HIDE DEF at
    <2>3. First(at) \in at /\ Last(at) \in at
      BY <1>1, <2>1, <2>2, FirstIsMember, LastIsMember
    <2>4. \A i \in at : headers[i].value = map[k]
      BY <2>1 DEF Says
    <2> QED
      BY <2>1, <2>2, <2>3, <2>4 DEF at
  <1>3. ToMap(headers) = [k \in DOMAIN map |-> headers[Last(Positions(headers, k))].value]
    BY DEF ToMap, Says
  <1>4. ToMap(headers) = [k \in DOMAIN map |-> map[k]]
    BY <1>2, <1>3
  <1> QED
    BY <1>2, <1>4 DEF Get

(* What Convert makes of a message.                                          *)
LEMMA ConvertedIsFaithful ==
    ASSUME TypeOK, NEW map \in HeaderMap, NEW list \in Lists(map), NEW m,
           m.sent = map,
           m.headers = IF GetEnableTracing THEN injectTraceContext(list, call.span) ELSE list,
           m.span = IF propagator /\ GetEnableTracing THEN call.span ELSE 0
    PROVE  Faithful(m) /\ m.headers \in Seq(Header) /\ m.span \in OptSpan
  <1>1. call.span \in OptSpan
    BY TypesOf DEF CallRecord
  <1>2. m.span \in OptSpan
    BY <1>1 DEF OptSpan
  <1>3. map = [k \in DOMAIN map |-> map[k]]
    BY DEF HeaderMap
  <1>4. Says(list, map)
    BY ListedSays
  <1>5. CASE m.span = 0
    <2>1. m.headers = list
      BY <1>5 DEF injectTraceContext
    <2>2. Carried(m) = map
      BY <1>3, <1>5 DEF Carried, Injected
    <2>3. m.headers \in Seq(Header)
      BY <1>4, <2>1 DEF Says
    <2> QED
      BY <1>2, <1>4, <1>5, <2>1, <2>2, <2>3 DEF Faithful
  <1>6. CASE m.span # 0
    <2>1. propagator /\ GetEnableTracing /\ m.span = call.span /\ m.span \in Span
      BY <1>1, <1>6 DEF OptSpan
    <2>2. m.headers = Set(list, TraceKey, m.span)
      BY <1>6, <2>1 DEF injectTraceContext
    <2>3. Carried(m) = [k \in DOMAIN map \cup {TraceKey} |-> IF k = TraceKey THEN m.span ELSE map[k]]
      BY <1>6 DEF Carried, Injected
    <2>4. Says(m.headers, Carried(m))
      BY <1>4, <2>1, <2>2, <2>3, InjectedSays
    <2>5. m.headers \in Seq(Header)
      BY <2>4 DEF Says
    <2> QED
      BY <1>2, <2>1, <2>4, <2>5 DEF Faithful
  <1> QED
    BY <1>5, <1>6

----------------------------------------------------------------------------
(* The connections.                                                          *)
LEMMA LinkStays ==
    ASSUME LinkInv, UNCHANGED linkVars
    PROVE  LinkInv'
  BY DEF LinkInv, linkVars, Asked, Reached, TLSFails, SASLFails, ReaderTLS, ReaderSASL,
         buildTLSConfig, buildSASLMechanism, GetSASLMechanism

LEMMA LinkStep ==
    ASSUME TypeOK, LinkInv, NewProducer \/ createReader
    PROVE  LinkInv' /\ producer' \in Connection \cup {NotYet, Refused}
           /\ reader' \in Connection \cup {NotYet}
  <1>1. /\ producer \in Connection \cup {NotYet, Refused} /\ reader \in Connection \cup {NotYet}
        /\ Reached \in Connection /\ (~TLSFails /\ ~SASLFails => Asked \in Connection)
    BY TypesOf, SettingsAsked DEF TypeOK
  <1>2. cfg' = cfg /\ fx' = fx
    BY DEF NewProducer, createReader
  <1>3. Asked' = Asked /\ Reached' = Reached /\ TLSFails' = TLSFails /\ SASLFails' = SASLFails
    BY <1>2 DEF Asked, Reached, TLSFails, SASLFails, ReaderTLS, ReaderSASL, buildTLSConfig,
                buildSASLMechanism, GetSASLMechanism
  <1>4. Refused \notin Connection /\ NotYet \notin Connection
    BY OutcomesAssumption
  <1>5. CASE NewProducer
    <2>1. /\ producer = NotYet /\ reader' = reader
          /\ producer' = IF TLSFails \/ SASLFails THEN Refused ELSE Asked
      BY <1>5 DEF NewProducer, TLSFails, SASLFails, Asked
    <2> QED
      BY <1>1, <1>2, <1>3, <1>4, <2>1 DEF LinkInv
  <1>6. CASE createReader
    <2>1. producer' = producer /\ reader' = Reached /\ (fx => producer \in Connection)
      BY <1>6 DEF createReader, Reached
    <2> QED
      BY <1>1, <1>2, <1>3, <1>4, <2>1 DEF LinkInv
  <1> QED
    BY <1>5, <1>6

(* What a step leaves alone that changes neither a message nor a span.       *)
LEMMA RestStays ==
    ASSUME TypeOK, HandedInv, LogInv, SpanInv, DeliveryInv,
           UNCHANGED <<cfg, spans, call, calls, result, handed, log, next, delivery>>,
           propagator => propagator', propagator' \in BOOLEAN, fx' = fx,
           producer' \in Connection \cup {NotYet, Refused}, reader' \in Connection \cup {NotYet}
    PROVE  TypeOK' /\ HandedInv' /\ LogInv' /\ SpanInv' /\ DeliveryInv'
  <1>1. TypeOK'
    BY DEF TypeOK
  <1>2. GetEnableTracing' = GetEnableTracing
    BY DEF GetEnableTracing
  <1>3. \A m : Faithful(m) =>
          Says(m.headers, Carried(m)) /\ (m.span # 0 => propagator' /\ GetEnableTracing')
    BY <1>2 DEF Faithful
  <1>4. HandedInv'
    BY <1>3 DEF HandedInv, Faithful, Own
  <1>5. LogInv'
    BY <1>3 DEF LogInv, Faithful, Own
  <1>7. SpanInv'
    BY <1>2 DEF SpanInv, SpansEnd
  <1>8. DeliveryInv'
    BY DEF DeliveryInv, ConsumeFollowsProduce, Delivered
  <1> QED
    BY <1>1, <1>4, <1>5, <1>7, <1>8

LEMMA LinkActions ==
    ASSUME TypeOK, IInv, NewProducer \/ createReader \/ SetPropagator \/ UNCHANGED vars
    PROVE  TypeOK' /\ IInv'
  <1>1. CASE NewProducer \/ createReader
    <2>1. UNCHANGED <<cfg, spans, call, calls, result, handed, log, next, delivery>>
          /\ propagator' = propagator /\ fx' = fx /\ propagator \in BOOLEAN
      BY <1>1 DEF NewProducer, createReader, TypeOK
    <2> QED
      BY <1>1, <2>1, LinkStep, RestStays DEF IInv
  <1>2. CASE SetPropagator \/ UNCHANGED vars
    <2>1. UNCHANGED <<cfg, spans, call, calls, result, handed, log, next, delivery>>
          /\ propagator' \in BOOLEAN /\ (propagator => propagator') /\ UNCHANGED linkVars
      BY <1>2 DEF SetPropagator, vars, linkVars, TypeOK
    <2>2. /\ fx' = fx /\ producer' \in Connection \cup {NotYet, Refused}
          /\ reader' \in Connection \cup {NotYet}
      BY <2>1 DEF linkVars, TypeOK
    <2> QED
      BY <2>1, <2>2, LinkStays, RestStays DEF IInv
  <1> QED
    BY <1>1, <1>2

----------------------------------------------------------------------------
(* The messages handed and of the log, through a step.                       *)
LEMMA FaithfulStays ==
    ASSUME cfg' = cfg, propagator' = propagator
    PROVE  \A m : Faithful(m) =>
             Says(m.headers, Carried(m)) /\ (m.span # 0 => propagator' /\ GetEnableTracing')
  BY DEF Faithful, GetEnableTracing

LEMMA LogStays ==
    ASSUME LogInv, UNCHANGED <<cfg, propagator, log>>
    PROVE  LogInv'
  BY FaithfulStays DEF LogInv, Faithful, Own

LEMMA HandedStays ==
    ASSUME HandedInv, UNCHANGED <<cfg, propagator, handed>>
    PROVE  HandedInv'
  BY FaithfulStays DEF HandedInv, Faithful, Own

(* A call begins.                                                            *)
LEMMA PublishStep ==
    ASSUME TypeOK, IInv, NEW batch \in Seq(HeaderMap), NEW ctx \in OptSpan, Publish(batch, ctx)
    PROVE  TypeOK' /\ IInv'
  <1> DEFINE s == IF GetEnableTracing THEN Started(ctx) ELSE 0
             e == [stage |-> "begun", batch |-> batch, ctx |-> ctx, span |-> s]
  <1>1. /\ call.stage = "idle" /\ calls < MaxCalls /\ Len(spans) < MaxSpans
        /\ calls' = calls + 1 /\ result' = "none"
        /\ spans' = IF GetEnableTracing THEN StartSpan(ctx) ELSE spans
        /\ call' = e
        /\ UNCHANGED <<linkVars, propagator, handed, log, next, delivery>>
    BY DEF Publish
  <1>2. UNCHANGED <<cfg, fx, producer, reader, propagator, handed, log, next, delivery>>
    BY <1>1 DEF linkVars
  <1>3. /\ spans' \in Seq(SpanRecord) /\ Len(spans') <= MaxSpans /\ s \in OptSpan
        /\ SpanOpens(ctx, s)
    BY <1>1, Opening
  <1> HIDE DEF s
  <1>4. "begun" \in CallStage
    BY DEF CallStage
  <1>5. /\ call' \in CallRecord /\ call'.stage = "begun" /\ call'.span = s
        /\ call'.batch = batch
    BY <1>1, <1>3, <1>4 DEF CallRecord
  <1>6. calls' \in 0..MaxCalls
    BY <1>1, BoundsAssumption DEF TypeOK
  <1>7. TypeOK'
    BY <1>1, <1>2, <1>3, <1>5, <1>6
    DEF TypeOK, CallRecord, CallStage, OptSpan, SpanRecord
  <1>8. LinkInv'
    BY <1>1, LinkStays DEF IInv
  <1>9. LogInv'
    BY <1>2, LogStays DEF IInv
  <1>10. HandedInv'
    BY <1>2, HandedStays DEF IInv
  <1>12. GetEnableTracing' = GetEnableTracing /\ Traces' = Traces /\ cfg.sdk \in BOOLEAN
    BY <1>2, TypesOf DEF GetEnableTracing, Traces, Config
  <1>13. SpanInv'
    <2>1. CASE Traces
      <3>1. cfg.sdk /\ GetEnableTracing
        BY <2>1 DEF Traces
      <3>2. /\ DOMAIN spans' = DOMAIN spans \cup {s} /\ s \notin DOMAIN spans
            /\ ~spans'[s].ended /\ \A t \in DOMAIN spans : spans'[t] = spans[t]
        BY <1>3, <2>1 DEF SpanOpens
      <3>3. delivery.at # 0 => delivery.span \in DOMAIN spans
        BY <3>1 DEF IInv, SpanInv
      <3>4. SpansEnd'
        BY <1>1, <1>2, <1>5, <3>2, <3>3 DEF IInv, SpanInv, SpansEnd
      <3> QED
        BY <1>2, <1>5, <1>12, <3>1, <3>2, <3>3, <3>4 DEF SpanInv
    <2>2. CASE ~Traces
      <3>1. spans' = spans /\ (~GetEnableTracing => s = 0)
        BY <1>3, <2>2 DEF SpanOpens
      <3>2. ~cfg.sdk => DOMAIN spans = {}
        BY DEF IInv, SpanInv
      <3>3. cfg.sdk => ~GetEnableTracing
        BY <2>2 DEF Traces
      <3>4. 0 \notin DOMAIN spans
        BY TypesOf
      <3>5. SpansEnd'
        BY <1>1, <1>2, <1>5, <3>1, <3>2, <3>3, <3>4 DEF IInv, SpanInv, SpansEnd
      <3> QED
        BY <1>2, <1>5, <1>12, <3>1, <3>3, <3>5 DEF IInv, SpanInv
    <2> QED
      BY <2>1, <2>2
  <1>14. DeliveryInv'
    <2>1. delivery.at # 0 /\ cfg.sdk /\ GetEnableTracing => spans'[delivery.span] = spans[delivery.span]
      BY <1>3 DEF SpanOpens, Traces, IInv, SpanInv
    <2>2. ~(cfg.sdk /\ GetEnableTracing) => spans' = spans
      BY <1>3 DEF SpanOpens, Traces
    <2> QED
      BY <1>2, <2>1, <2>2 DEF IInv, DeliveryInv, ConsumeFollowsProduce, Delivered
  <1> QED
    BY <1>7, <1>8, <1>9, <1>10, <1>13, <1>14 DEF IInv

(* The messages are made ready.                                              *)
LEMMA ConvertStep ==
    ASSUME TypeOK, IInv, Convert
    PROVE  TypeOK' /\ IInv'
  <1> DEFINE D == DOMAIN call.batch
  <1>1. PICK list \in [D -> UNION {Lists(call.batch[i]) : i \in D}] :
          /\ \A i \in D : list[i] \in Lists(call.batch[i])
          /\ handed' = handed \cup {Message(call.batch[i], list[i]) : i \in D}
    BY DEF Convert
  <1>2. /\ call.stage = "begun" /\ call' = [call EXCEPT !.stage = "ready"]
        /\ UNCHANGED <<linkVars, propagator, spans, calls, result, log, next, delivery>>
        /\ UNCHANGED <<cfg, fx, producer, reader>>
    BY DEF Convert, linkVars
  <1>3. call \in CallRecord /\ call.batch \in Seq(HeaderMap) /\ handed \subseteq Wired
    BY TypesOf DEF CallRecord
  <1>4. ASSUME NEW i \in D, NEW m, m = Message(call.batch[i], list[i])
        PROVE  m \in Wired /\ Own(m) /\ Faithful(m)
    <2>1. call.batch[i] \in HeaderMap
      BY <1>3
    <2>2. m = [headers |-> IF GetEnableTracing THEN injectTraceContext(list[i], call.span)
                                               ELSE list[i],
               sent |-> call.batch[i],
               span |-> IF propagator /\ GetEnableTracing THEN call.span ELSE 0,
               own |-> TRUE]
      BY <1>4 DEF Message
    <2>3. /\ m.sent = call.batch[i] /\ m.own = TRUE
          /\ m.headers = IF GetEnableTracing THEN injectTraceContext(list[i], call.span)
                                             ELSE list[i]
          /\ m.span = IF propagator /\ GetEnableTracing THEN call.span ELSE 0
      BY <2>2
    <2>4. Faithful(m) /\ m.headers \in Seq(Header) /\ m.span \in OptSpan
      BY <1>1, <2>1, <2>3, ConvertedIsFaithful
    <2>5. m = [headers |-> m.headers, sent |-> m.sent, span |-> m.span, own |-> m.own]
      BY <2>2, <2>3
    <2>6. m \in Wired
      BY <2>1, <2>3, <2>4, <2>5 DEF Wired, OptSpan
    <2> QED
      BY <2>3, <2>4, <2>6 DEF Own
  <1>5. \A m \in handed' : m \in handed \/ (m \in Wired /\ Own(m) /\ Faithful(m))
    BY <1>1, <1>4
  <1>6. handed' \subseteq Wired
    BY <1>3, <1>5
  <1>7. /\ call' \in CallRecord /\ call'.stage = "ready"
        /\ call'.batch = call.batch /\ call'.span = call.span
    <2>1. "ready" \in CallStage
      BY DEF CallStage
    <2> QED
      BY <1>2, <1>3, <2>1 DEF CallRecord
  <1>8. TypeOK'
    BY <1>2, <1>6, <1>7 DEF TypeOK, CallRecord, CallStage, OptSpan
  <1>9. LinkInv' /\ LogInv'
    BY <1>2, LinkStays, LogStays DEF IInv
  <1>10. HandedInv'
    <2>1. \A m \in handed' : Own(m) /\ Faithful(m)
      BY <1>5 DEF IInv, HandedInv
    <2> QED
      BY <1>2, <2>1, FaithfulStays DEF HandedInv, Faithful, Own
  <1>11. SpanInv'
    <2>1. GetEnableTracing' = GetEnableTracing
      BY <1>2 DEF GetEnableTracing
    <2> QED
      BY <1>2, <1>7, <2>1 DEF IInv, SpanInv, SpansEnd
  <1>12. DeliveryInv'
    BY <1>2 DEF IInv, DeliveryInv, ConsumeFollowsProduce, Delivered
  <1> QED
    BY <1>8, <1>9, <1>10, <1>11, <1>12 DEF IInv

(* A message that carries what it says joins the log.                        *)
LEMMA LogGrows ==
    ASSUME TypeOK, IInv, NEW e \in Wired, log' = Append(log, e),
           (Own(e) => Faithful(e)) /\ (~Own(e) => e.span = 0),
           UNCHANGED <<linkVars, propagator, spans, call, calls, result, handed, next, delivery>>
    PROVE  TypeOK' /\ IInv'
  <1>1. UNCHANGED <<cfg, fx, producer, reader>>
    BY DEF linkVars
  <1>2. /\ log \in Seq(Wired) /\ DOMAIN log = 1..Len(log) /\ next \in 1..Len(log) + 1
        /\ delivery \in DeliveryRecord(Len(log)) /\ Len(log) \in Nat
    BY TypesOf DEF TypeOK
  <1>3. /\ log' \in Seq(Wired) /\ Len(log') = Len(log) + 1
        /\ DOMAIN log' = 1..(Len(log) + 1)
        /\ \A i \in 1..Len(log) : log'[i] = log[i]
        /\ log'[Len(log) + 1] = e
    BY <1>2, Appended
  <1>4. delivery' \in DeliveryRecord(Len(log'))
    <2>1. 0..Len(log) \subseteq 0..Len(log')
      BY <1>2, <1>3
    <2> QED
      BY <1>2, <2>1 DEF DeliveryRecord
  <1>5. next' \in 1..Len(log') + 1
    BY <1>2, <1>3
  <1>6. TypeOK'
    BY <1>1, <1>3, <1>4, <1>5 DEF TypeOK, DeliveryRecord, OptSpan
  <1>7. LinkInv' /\ HandedInv'
    BY <1>1, LinkStays, HandedStays DEF IInv
  <1>8. LogInv'
    <2> SUFFICES ASSUME NEW n \in DOMAIN log'
                 PROVE  IF Own(log'[n])
                          THEN /\ Says(log'[n].headers, Carried(log'[n]))
                               /\ log'[n].span # 0 => propagator' /\ GetEnableTracing'
                          ELSE log'[n].span = 0
      BY DEF LogInv, Own, Faithful
    <2>1. CASE n \in 1..Len(log)
      BY <1>1, <1>2, <1>3, <2>1, FaithfulStays DEF IInv, LogInv
    <2>2. CASE n = Len(log) + 1
      BY <1>1, <1>3, <2>2, FaithfulStays
    <2> QED
      BY <1>2, <1>3, <2>1, <2>2
  <1>9. SpanInv'
    BY <1>1 DEF IInv, SpanInv, SpansEnd, GetEnableTracing
  <1>10. DeliveryInv'
    <2>1. delivery.at # 0 => log'[delivery.at] = log[delivery.at]
      <3>1. delivery.at \in 0..Len(log)
        BY <1>2 DEF DeliveryRecord
      <3> QED
        BY <1>2, <1>3, <3>1
    <2> QED
      BY <1>1, <2>1 DEF IInv, DeliveryInv, ConsumeFollowsProduce, Delivered
  <1> QED
    BY <1>6, <1>7, <1>8, <1>9, <1>10 DEF IInv

(* What a writer was handed arrives.                                         *)
LEMMA ArrivesStep ==
    ASSUME TypeOK, IInv, Arrives
    PROVE  TypeOK' /\ IInv'
  <1>1. PICK m \in handed : log' = Append(log, m)
    BY DEF Arrives
  <1>2. m \in Wired /\ Own(m) /\ Faithful(m)
    BY TypesOf DEF IInv, HandedInv
  <1>3. UNCHANGED <<linkVars, propagator, spans, call, calls, result, handed, next, delivery>>
    BY DEF Arrives
  <1> QED
    BY <1>1, <1>2, <1>3, LogGrows

(* Another producer's message is not the application's.                      *)
LEMMA ForeignStep ==
    ASSUME TypeOK, IInv, ProduceForeign
    PROVE  TypeOK' /\ IInv'
  <1>1. PICK headers \in ForeignHeaders :
          log' = Append(log, [headers |-> headers, sent |-> ToMap(headers),
                              span |-> 0, own |-> FALSE])
    BY DEF ProduceForeign
  <1> DEFINE e == [headers |-> headers, sent |-> ToMap(headers), span |-> 0, own |-> FALSE]
  <1>2. UNCHANGED <<linkVars, propagator, spans, call, calls, result, handed, next, delivery>>
    BY DEF ProduceForeign
  <1>3. headers \in Seq(Header) /\ ToMap(headers) \in HeaderMap
    BY ForeignAssumption, ToMapTyped
  <1>4. e \in Wired /\ ~Own(e) /\ e.span = 0
    BY <1>3 DEF Wired, Own
  <1>5. log' = Append(log, e)
    BY <1>1
  <1> HIDE DEF e
  <1> QED
    BY <1>2, <1>4, <1>5, LogGrows

(* The call returns and its span ends.                                       *)
LEMMA WriteStep ==
    ASSUME TypeOK, IInv, WriteMessages
    PROVE  TypeOK' /\ IInv'
  <1>1. /\ call.stage = "ready" /\ result' \in {"ok", "error"}
        /\ spans' = IF GetEnableTracing THEN Ended(call.span) ELSE spans
        /\ call' = [call EXCEPT !.stage = "idle"]
        /\ UNCHANGED <<linkVars, propagator, calls, handed, log, next, delivery>>
        /\ UNCHANGED <<cfg, fx, producer, reader>>
    BY DEF WriteMessages, linkVars
  <1>2. call \in CallRecord /\ call.span \in OptSpan
    BY TypesOf DEF CallRecord
  <1>3. Traces => call.span \in DOMAIN spans
    BY <1>1 DEF IInv, SpanInv, Traces
  <1>4. /\ spans' \in Seq(SpanRecord) /\ Len(spans') <= MaxSpans /\ SpanCloses(call.span)
    BY <1>1, <1>2, <1>3, Closing
  <1>5. /\ call' \in CallRecord /\ call'.stage = "idle" /\ call'.batch = call.batch
    <2>1. "idle" \in CallStage
      BY DEF CallStage
    <2> QED
      BY <1>1, <1>2, <2>1 DEF CallRecord
  <1>6. Traces /\ delivery.at # 0 => delivery.span \in DOMAIN spans
    BY DEF Traces, IInv, SpanInv
  <1>7. TypeOK'
    BY <1>1, <1>4, <1>5 DEF TypeOK, CallRecord, CallStage, OptSpan, SpanRecord
  <1>8. LinkInv' /\ HandedInv' /\ LogInv'
    BY <1>1, LinkStays, HandedStays, LogStays DEF IInv
  <1>9. SpanInv'
    <2>1. GetEnableTracing' = GetEnableTracing /\ cfg.sdk \in BOOLEAN
      BY <1>1, TypesOf DEF GetEnableTracing, Config
    <2>2. CASE Traces
      <3>1. cfg.sdk /\ GetEnableTracing
        BY <2>2 DEF Traces
      <3>2. /\ DOMAIN spans' = DOMAIN spans /\ spans'[call.span].ended
            /\ \A t \in DOMAIN spans : t # call.span => spans'[t] = spans[t]
        BY <1>4, <2>2 DEF SpanCloses
      <3>3. delivery.at # 0 => delivery.span \in DOMAIN spans /\ delivery.span # call.span
        BY <1>1, <3>1 DEF IInv, SpanInv
      <3>4. SpansEnd'
        BY <1>1, <1>5, <3>2, <3>3 DEF IInv, SpanInv, SpansEnd
      <3> QED
        BY <1>1, <1>5, <2>1, <3>1, <3>2, <3>3, <3>4 DEF SpanInv
    <2>3. CASE ~Traces
      <3>1. spans' = spans
        BY <1>4, <2>3 DEF SpanCloses
      <3>2. call.span \notin DOMAIN spans
        <4>1. ~cfg.sdk => DOMAIN spans = {}
          BY DEF IInv, SpanInv
        <4>2. 0 \notin DOMAIN spans
          BY TypesOf
        <4> QED
          BY <1>1, <2>3, <4>1, <4>2 DEF Traces, IInv, SpanInv
      <3>3. SpansEnd'
        BY <1>1, <1>5, <3>1, <3>2 DEF IInv, SpanInv, SpansEnd
      <3> QED
        BY <1>1, <1>5, <2>1, <3>1, <3>3 DEF IInv, SpanInv
    <2> QED
      BY <2>2, <2>3
  <1>10. DeliveryInv'
    <2>1. /\ Traces /\ delivery.at # 0 => spans'[delivery.span].parent = spans[delivery.span].parent
          /\ ~Traces => spans' = spans
      BY <1>4, <1>6 DEF SpanCloses
    <2>2. ASSUME delivery.at # 0, Delivered.span # 0
          PROVE  (IF cfg.sdk THEN spans'[delivery.span].parent ELSE delivery.span) = Delivered.span
      <3>1. (IF cfg.sdk THEN spans[delivery.span].parent ELSE delivery.span) = Delivered.span
        BY <2>2 DEF IInv, DeliveryInv, ConsumeFollowsProduce
      <3> QED
        BY <2>1, <2>2, <3>1 DEF Traces
    <2> QED
      BY <1>1, <2>2 DEF IInv, DeliveryInv, ConsumeFollowsProduce, Delivered
  <1> QED
    BY <1>7, <1>8, <1>9, <1>10 DEF IInv

(* The next message is delivered, under a span of its own.                   *)
LEMMA ProcessStep ==
    ASSUME TypeOK, IInv, processMessage
    PROVE  TypeOK' /\ IInv'
  <1> DEFINE headers == log[next].headers
             ctx == IF GetEnableTracing THEN extractTraceContext(headers) ELSE 0
             s == IF GetEnableTracing THEN Started(ctx) ELSE 0
             map == ToMap(headers)
  <1>1. /\ delivery.at = 0 /\ next <= Len(log) /\ Len(spans) < MaxSpans
        /\ spans' = IF GetEnableTracing THEN StartSpan(ctx) ELSE spans
        /\ delivery' = [at |-> next, headers |-> map, span |-> s]
        /\ next' = next + 1
        /\ UNCHANGED <<linkVars, propagator, call, calls, result, handed, log>>
        /\ UNCHANGED <<cfg, fx, producer, reader>>
    BY DEF processMessage, linkVars
  <1>2. /\ next \in DOMAIN log /\ next \in 0..Len(log) /\ next + 1 \in 1..Len(log) + 1 /\ next # 0
        /\ log \in Seq(Wired)
    BY <1>1, TypesOf DEF TypeOK
  <1>3. headers \in Seq(Header) /\ map \in HeaderMap
    <2>1. log[next] \in Wired
      BY <1>2
    <2> QED
      BY <2>1, ToMapTyped DEF Wired
  <1>4. ctx \in OptSpan
    BY DEF extractTraceContext, OptSpan
  <1> HIDE DEF ctx
  <1>5. /\ spans' \in Seq(SpanRecord) /\ Len(spans') <= MaxSpans /\ s \in OptSpan
        /\ SpanOpens(ctx, s)
    BY <1>1, <1>4, Opening
  <1> HIDE DEF s, map, headers
  <1>6. /\ delivery' \in DeliveryRecord(Len(log))
        /\ delivery'.at = next /\ delivery'.headers = map /\ delivery'.span = s
    BY <1>1, <1>2, <1>3, <1>5 DEF DeliveryRecord
  <1>7. TypeOK'
    BY <1>1, <1>2, <1>5, <1>6 DEF TypeOK, DeliveryRecord, OptSpan, SpanRecord
  <1>8. LinkInv' /\ HandedInv' /\ LogInv'
    BY <1>1, LinkStays, HandedStays, LogStays DEF IInv
  <1>10. GetEnableTracing' = GetEnableTracing /\ cfg.sdk \in BOOLEAN
    BY <1>1, TypesOf DEF GetEnableTracing, Config
  <1>11. SpanInv'
    <2>1. CASE Traces
      <3>1. cfg.sdk /\ GetEnableTracing
        BY <2>1 DEF Traces
      <3>2. /\ DOMAIN spans' = DOMAIN spans \cup {s} /\ s \notin DOMAIN spans
            /\ ~spans'[s].ended /\ \A t \in DOMAIN spans : spans'[t] = spans[t]
        BY <1>5, <2>1 DEF SpanOpens
      <3>3. call.stage # "idle" => call.span \in DOMAIN spans
        BY <3>1 DEF IInv, SpanInv
      <3>4. SpansEnd'
        BY <1>1, <1>2, <1>6, <3>2, <3>3 DEF IInv, SpanInv, SpansEnd
      <3> QED
        BY <1>1, <1>6, <1>10, <3>1, <3>2, <3>3, <3>4 DEF SpanInv
    <2>2. CASE ~Traces
      <3>1. spans' = spans /\ (~GetEnableTracing => s = 0)
        BY <1>5, <2>2 DEF SpanOpens
      <3>2. ~cfg.sdk => DOMAIN spans = {}
        BY DEF IInv, SpanInv
      <3>3. cfg.sdk => ~GetEnableTracing
        BY <2>2 DEF Traces
      <3>4. 0 \notin DOMAIN spans
        BY TypesOf
      <3>5. SpansEnd'
        BY <1>1, <1>6, <3>1, <3>2, <3>3, <3>4 DEF IInv, SpanInv, SpansEnd
      <3> QED
        BY <1>1, <1>6, <1>10, <3>1, <3>3, <3>5 DEF IInv, SpanInv
    <2> QED
      BY <2>1, <2>2
  <1>12. DeliveryInv'
    <2> DEFINE m == log[next]
    <2>1. ASSUME m.span # 0
          PROVE  (IF cfg.sdk THEN spans'[s].parent ELSE s) = m.span
      <3>1. m \in Wired /\ m.span \in Span
        <4>1. m \in Wired
          BY <1>2
        <4> QED
          BY <2>1, <4>1 DEF Wired
      <3>3. CASE Own(m)
        <4>1. Faithful(m)
          BY <1>2, <3>3 DEF IInv, LogInv
        <4>2. /\ Says(m.headers, Carried(m)) /\ TraceKey \in DOMAIN Carried(m)
              /\ Carried(m)[TraceKey] = m.span /\ propagator /\ GetEnableTracing
          BY <2>1, <4>1 DEF Faithful, Carried, Injected
        <4>3. /\ DOMAIN Carried(m) \subseteq Key
              /\ Carried(m) = [k \in DOMAIN Carried(m) |-> Carried(m)[k]]
          BY <3>1 DEF Carried, Injected, Wired, HeaderMap, Key
        <4>4. Get(m.headers, TraceKey) = m.span
          BY <4>2, <4>3, ToMapOfSaid
        <4>5. ctx = m.span
          BY <3>1, <4>2, <4>4 DEF ctx, headers, extractTraceContext
        <4>6. cfg.sdk => spans'[s].parent = ctx
          BY <1>5, <4>2 DEF SpanOpens, Traces
        <4>7. ~cfg.sdk => s = ctx
          BY <4>2 DEF s, Started
        <4> QED
          BY <4>5, <4>6, <4>7
      <3>4. CASE ~Own(m)
        BY <2>1, <3>4, <1>2 DEF IInv, LogInv
      <3> QED
        BY <3>3, <3>4
    <2> QED
      BY <1>1, <1>6, <2>1 DEF DeliveryInv, ConsumeFollowsProduce, Delivered, map, headers
  <1> QED
    BY <1>7, <1>8, <1>11, <1>12 DEF IInv

(* The handler returns and its span ends.                                    *)
LEMMA ReturnStep ==
    ASSUME TypeOK, IInv, HandlerReturns
    PROVE  TypeOK' /\ IInv'
  <1>1. /\ delivery.at # 0 /\ call.stage = "idle"
        /\ spans' = IF GetEnableTracing THEN Ended(delivery.span) ELSE spans
        /\ delivery' = NoDelivery
        /\ UNCHANGED <<linkVars, propagator, call, calls, result, handed, log, next>>
        /\ UNCHANGED <<cfg, fx, producer, reader>>
    BY DEF HandlerReturns, linkVars
  <1>2. delivery.span \in OptSpan
    BY TypesOf DEF DeliveryRecord
  <1>3. Traces => delivery.span \in DOMAIN spans
    BY <1>1 DEF IInv, SpanInv, Traces
  <1>4. /\ spans' \in Seq(SpanRecord) /\ Len(spans') <= MaxSpans /\ SpanCloses(delivery.span)
    BY <1>1, <1>2, <1>3, Closing
  <1>5. delivery' \in DeliveryRecord(Len(log)) /\ delivery'.at = 0
    <2>1. [k \in {} |-> 0] \in HeaderMap /\ <<>> = [k \in {} |-> 0]
      <3>1. [k \in {} |-> 0] \in [{} -> Value]
        OBVIOUS
      <3>2. {} \in SUBSET Key
        OBVIOUS
      <3>3. <<>> = [k \in {} |-> 0]
        OBVIOUS
      <3> QED
        BY <3>1, <3>2, <3>3 DEF HeaderMap
    <2>2. 0 \in 0..Len(log) /\ 0 \in OptSpan
      BY TypesOf DEF OptSpan
    <2> QED
      BY <1>1, <2>1, <2>2 DEF NoDelivery, DeliveryRecord
  <1>6. TypeOK'
    BY <1>1, <1>4, <1>5 DEF TypeOK, DeliveryRecord, OptSpan, SpanRecord
  <1>7. LinkInv' /\ HandedInv' /\ LogInv'
    BY <1>1, LinkStays, HandedStays, LogStays DEF IInv
  <1>9. SpanInv'
    <2>1. CASE Traces
      <3>1. cfg.sdk /\ GetEnableTracing
        BY <2>1 DEF Traces
      <3>2. /\ DOMAIN spans' = DOMAIN spans /\ spans'[delivery.span].ended
            /\ \A t \in DOMAIN spans : t # delivery.span => spans'[t] = spans[t]
        BY <1>4, <2>1 DEF SpanCloses
      <3>3. SpansEnd'
        BY <1>1, <1>5, <3>2 DEF IInv, SpanInv, SpansEnd
      <3> QED
        BY <1>1, <1>5, <3>1, <3>3 DEF SpanInv
    <2>2. CASE ~Traces
      <3>1. spans' = spans
        BY <1>4, <2>2 DEF SpanCloses
      <3>2. delivery.span \notin DOMAIN spans
        <4>1. ~cfg.sdk => DOMAIN spans = {}
          BY DEF IInv, SpanInv
        <4>2. 0 \notin DOMAIN spans
          BY TypesOf
        <4> QED
          BY <1>1, <2>2, <4>1, <4>2 DEF Traces, IInv, SpanInv
      <3>3. SpansEnd'
        BY <1>1, <1>5, <3>1, <3>2 DEF IInv, SpanInv, SpansEnd
      <3> QED
        BY <1>1, <1>5, <3>1, <3>3 DEF IInv, SpanInv
    <2> QED
      BY <2>1, <2>2
  <1>10. DeliveryInv'
    BY <1>5 DEF DeliveryInv, ConsumeFollowsProduce
  <1> QED
    BY <1>6, <1>7, <1>9, <1>10 DEF IInv

LEMMA StepPreserves == TypeOK /\ IInv /\ [Next]_vars => TypeOK' /\ IInv'
  <1> SUFFICES ASSUME TypeOK, IInv, [Next]_vars PROVE TypeOK' /\ IInv'
    OBVIOUS
  <1>1. CASE PublishNew \/ Retry \/ Forward
    <2>1. PICK batch, ctx : batch \in Seq(HeaderMap) /\ ctx \in OptSpan /\ Publish(batch, ctx)
      <3>1. CASE PublishNew
        BY <3>1, BatchesAssumption DEF PublishNew, OptSpan
      <3>2. CASE Retry
        BY <3>2, TypesOf DEF Retry, CallRecord
      <3>3. CASE Forward
        <4>1. delivery.headers \in HeaderMap /\ delivery.span \in OptSpan
          BY TypesOf DEF DeliveryRecord
        <4>2. <<delivery.headers>> \in Seq(HeaderMap)
          BY <4>1
        <4> QED
          BY <3>3, <4>1, <4>2 DEF Forward
      <3> QED
        BY <1>1, <3>1, <3>2, <3>3
    <2> QED
      BY <2>1, PublishStep
  <1>2. CASE NewProducer \/ createReader \/ SetPropagator \/ UNCHANGED vars
    BY <1>2, LinkActions
  <1>3. CASE Convert \/ WriteMessages \/ Arrives \/ ProduceForeign
    BY <1>3, ConvertStep, WriteStep, ArrivesStep, ForeignStep
  <1>4. CASE processMessage \/ HandlerReturns
    BY <1>4, ProcessStep, ReturnStep
  <1> QED
    BY <1>1, <1>2, <1>3, <1>4 DEF Next

LEMMA Established == Init => TypeOK /\ IInv
  <1> SUFFICES ASSUME Init PROVE TypeOK /\ IInv
    OBVIOUS
  <1>1. TypeOK
    <2>1. /\ <<>> \in Seq([parent : {0} \cup Span, ended : BOOLEAN]) /\ Len(spans) = 0
          /\ <<>> \in Seq(HeaderMap) /\ <<>> \in Seq(Wired) /\ Len(log) = 0
      BY DEF Init
    <2>2. <<>> \in HeaderMap
      <3>1. [k \in {} |-> 0] \in [{} -> Value] /\ {} \in SUBSET Key
        OBVIOUS
      <3>2. <<>> = [k \in {} |-> 0]
        OBVIOUS
      <3> QED
        BY <3>1, <3>2 DEF HeaderMap
    <2>3. call \in [stage : {"idle", "begun", "ready"}, batch : Seq(HeaderMap),
                    ctx : {0} \cup Span, span : {0} \cup Span]
      BY <2>1 DEF Init, Idle
    <2>4. delivery \in [at : 0..Len(log), headers : HeaderMap, span : {0} \cup Span]
      BY <2>1, <2>2 DEF Init, NoDelivery
    <2>5. /\ next \in 1..Len(log) + 1 /\ calls \in 0..MaxCalls /\ Len(spans) <= MaxSpans
      BY <2>1, BoundsAssumption DEF Init
    <2>6. spans \in Seq([parent : {0} \cup Span, ended : BOOLEAN]) /\ log \in Seq(Wired)
      BY <2>1 DEF Init
    <2>7. /\ cfg \in Configs /\ fx \in BOOLEAN /\ producer = NotYet /\ reader = NotYet
          /\ propagator = FALSE /\ result = "none" /\ handed = {}
      BY DEF Init
    <2> QED
      BY <2>3, <2>4, <2>5, <2>6, <2>7 DEF TypeOK
  <1>2. LinkInv
    BY OutcomesAssumption DEF Init, LinkInv
  <1>3. HandedInv /\ LogInv /\ SpanInv /\ DeliveryInv
    BY DEF Init, Idle, NoDelivery, HandedInv, LogInv, SpanInv, SpansEnd, DeliveryInv, ConsumeFollowsProduce
  <1> QED
    BY <1>1, <1>2, <1>3 DEF IInv

LEMMA Invariants == Spec => [](TypeOK /\ IInv)
  BY Established, StepPreserves, PTL DEF Spec

----------------------------------------------------------------------------
(* The variables keep their types: what travels are header lists, and the    *)
(* spans they name can be named.                                             *)
THEOREM TypeCorrect == Spec => []TypeOK
  BY Invariants, PTL

(* What a handler is given is the map the producer passed with the trace     *)
(* header of the call, through a list in any order and Set in it.            *)
THEOREM HeadersArrive == Spec => []HandlerSeesHeaders
  <1>1. TypeOK /\ IInv => HandlerSeesHeaders
    <2> SUFFICES ASSUME TypeOK, IInv, delivery.at # 0, Own(Delivered)
                 PROVE  delivery.headers = Carried(Delivered)
      BY DEF HandlerSeesHeaders, Carried, Injected
    <2>1. delivery.at \in DOMAIN log /\ Delivered \in Wired
      <3>1. delivery.at \in 0..Len(log) /\ log \in Seq(Wired) /\ DOMAIN log = 1..Len(log)
        BY TypesOf DEF DeliveryRecord
      <3> QED
        BY <3>1 DEF Delivered
    <2>2. Says(Delivered.headers, Carried(Delivered))
      BY <2>1 DEF IInv, LogInv, Faithful, Delivered
    <2>3. /\ DOMAIN Carried(Delivered) \subseteq Key
          /\ Carried(Delivered) = [k \in DOMAIN Carried(Delivered) |-> Carried(Delivered)[k]]
      BY <2>1 DEF Carried, Injected, Wired, HeaderMap, Key
    <2>4. ToMap(Delivered.headers) = Carried(Delivered)
      BY <2>2, <2>3, ToMapOfSaid
    <2> QED
      BY <2>4 DEF IInv, DeliveryInv
  <1> QED
    BY <1>1, Invariants, PTL

(* The span of a consumed message is the child of the call that wrote it.    *)
THEOREM ConsumersFollow == Spec => []ConsumeFollowsProduce
  <1>1. IInv => ConsumeFollowsProduce
    BY DEF IInv, DeliveryInv
  <1> QED
    BY <1>1, Invariants, PTL

(* Exactly the spans of the call and of the handler in progress are open,    *)
(* whatever the writer reports and the handler returns.                      *)
THEOREM SpansAreEnded == Spec => []SpansEnd
  <1>1. IInv => SpansEnd
    BY DEF IInv, SpanInv
  <1> QED
    BY <1>1, Invariants, PTL

(* Producer and reader connect alike, and in an application of the Kafka     *)
(* module with all its configuration asks for.                               *)
THEOREM SettingsHonoured == Spec => []ConnectAlike
  <1>1. TypeOK /\ IInv => ConnectAlike
    BY TypesOf, SettingsAsked DEF IInv, LinkInv, ConnectAlike
  <1> QED
    BY <1>1, Invariants, PTL
=============================================================================
