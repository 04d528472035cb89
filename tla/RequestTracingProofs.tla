------------------------ MODULE RequestTracingProofs ------------------------
(* Proofs about RequestTracing that hold of any requests, statuses and       *)
(* identifiers, any width of these and any number of spans.                  *)
EXTENDS RequestTracing, FiniteSetTheorems, SequenceTheorems, TLAPS

SpanNumber == 0..MaxSpans
TraceOf == [new : SpanNumber, id : [1..Width -> Byte]]
Outcome == Codes \cup {0, 200, 500}
SpanRecord == [parent : SpanNumber, name : Names, trace : TraceOf, owner : Requests,
               status : Outcome, error : BOOLEAN, ended : BOOLEAN]
Frame == [form : Form, span : 1..MaxSpans]

(* Sequences, by what the proofs need of them.                               *)
LEMMA Appended ==
    ASSUME NEW S, NEW seq \in Seq(S), NEW e \in S, NEW new, new = Append(seq, e)
    PROVE  /\ new \in Seq(S) /\ new # <<>>
           /\ Len(seq) \in Nat /\ Len(new) = Len(seq) + 1
           /\ DOMAIN seq = 1..Len(seq) /\ DOMAIN new = 1..(Len(seq) + 1)
           /\ \A i \in 1..Len(seq) : new[i] = seq[i]
           /\ new[Len(seq) + 1] = e
  OBVIOUS

LEMMA Updated ==
    ASSUME NEW S, NEW seq \in Seq(S), NEW t \in DOMAIN seq, NEW e \in S,
           NEW new, new = [seq EXCEPT ![t] = e]
    PROVE  /\ new \in Seq(S) /\ DOMAIN new = DOMAIN seq /\ Len(new) = Len(seq)
           /\ new[t] = e /\ \A s \in DOMAIN seq : s # t => new[s] = seq[s]
  OBVIOUS

LEMMA Shortened ==
    ASSUME NEW S, NEW seq \in Seq(S), seq # <<>>
    PROVE  LET n == Len(seq) - 1
               new == SubSeq(seq, 1, n)
           IN  /\ Len(seq) \in Nat \ {0} /\ DOMAIN seq = 1..Len(seq)
               /\ new \in Seq(S) /\ DOMAIN new = 1..n
               /\ \A i \in 1..n : new[i] = seq[i]
               /\ Len(seq) = 1 => new = <<>>
               /\ Len(seq) # 1 => new # <<>>
  <1> DEFINE n == Len(seq) - 1
             new == SubSeq(seq, 1, n)
  <1>1. Len(seq) \in Nat \ {0} /\ DOMAIN seq = 1..Len(seq)
    OBVIOUS
  <1>2. n \in Nat /\ n < Len(seq)
    BY <1>1
  <1>3. \A i \in 1..n : seq[i] \in S
    BY <1>1, <1>2
  <1>4. /\ new \in Seq(S) /\ Len(new) = n
        /\ \A i \in 1..n : new[i] = seq[i]
    <2> HIDE DEF n
    <2> QED
      BY <1>2, <1>3, SubSeqProperties
  <1> HIDE DEF new
  <1>5. DOMAIN new = 1..n
    BY <1>4
  <1>6. Len(seq) = 1 => new = <<>>
    BY <1>4
  <1>7. Len(seq) # 1 => new # <<>>
    <2>1. Len(seq) # 1 => 1 \in DOMAIN new
      BY <1>1, <1>5
    <2> QED
      BY <2>1
  <1> QED
    BY <1>1, <1>4, <1>5, <1>6, <1>7 DEF new

----------------------------------------------------------------------------
(* What opening a span does, element by element.                             *)
StartChanges(r, form, name, parent, id) ==
    /\ spans' \in Seq(SpanRecord) /\ Len(spans') = Len(spans) + 1 /\ Len(spans) \in Nat
    /\ DOMAIN spans = 1..Len(spans) /\ DOMAIN spans' = 1..(Len(spans) + 1)
    /\ \A s \in 1..Len(spans) : spans'[s] = spans[s]
    /\ LET new == spans'[Len(spans) + 1] IN
         /\ new.parent = parent /\ new.name = name /\ new.owner = r /\ ~new.ended
         /\ new.trace = IF parent # 0 THEN spans[parent].trace
                        ELSE IF id # NoTrace THEN [new |-> 0, id |-> id]
                        ELSE [new |-> Len(spans) + 1, id |-> NoTrace]
    /\ stack' \in [Requests -> Seq(Frame)]
    /\ \A q \in Requests : q # r => stack'[q] = stack[q]
    /\ Len(stack[r]) \in Nat /\ stack'[r] # <<>>
    /\ DOMAIN stack[r] = 1..Len(stack[r]) /\ DOMAIN stack'[r] = 1..(Len(stack[r]) + 1)
    /\ \A i \in 1..Len(stack[r]) : stack'[r][i] = stack[r][i]
    /\ stack'[r][Len(stack[r]) + 1] = [form |-> form, span |-> Len(spans) + 1]

LEMMA Starting ==
    ASSUME TypeOK, NEW r \in Requests, NEW form \in Form, NEW name \in Names,
           NEW parent \in {0} \cup DOMAIN spans, NEW id \in [1..Width -> Byte],
           Len(spans) < MaxSpans, Push(r, form), Start(r, name, parent, id)
    PROVE  StartChanges(r, form, name, parent, id)
  <1>1. /\ spans \in Seq(SpanRecord) /\ stack \in [Requests -> Seq(Frame)]
    BY DEF TypeOK, SpanRecord, SpanNumber, TraceOf, Outcome, Frame
  <1>2. Len(spans) \in Nat /\ DOMAIN spans = 1..Len(spans)
    BY <1>1
  <1>3. Len(spans) + 1 \in 1..MaxSpans /\ Len(spans) + 1 \in SpanNumber /\ parent \in SpanNumber
    BY <1>2, BoundsAssumption DEF SpanNumber
  <1> DEFINE trace == IF parent # 0 THEN spans[parent].trace
                      ELSE IF id # NoTrace THEN [new |-> 0, id |-> id]
                      ELSE [new |-> Len(spans) + 1, id |-> NoTrace]
             e == [parent |-> parent, name |-> name, owner |-> r, trace |-> trace,
                   status |-> 0, error |-> FALSE, ended |-> FALSE]
             f == [form |-> form, span |-> Len(spans) + 1]
  <1>4. trace \in TraceOf
    <2>1. CASE parent # 0
      <3>1. spans[parent] \in SpanRecord
        BY <1>1, <1>2, <2>1
      <3> QED
        BY <2>1, <3>1 DEF SpanRecord
    <2>2. CASE parent = 0
      <3>1. NoTrace \in [1..Width -> Byte]
        BY DEF NoTrace, Byte
      <3> QED
        BY <1>3, <2>2, <3>1, BoundsAssumption DEF TraceOf, SpanNumber
    <2> QED
      BY <2>1, <2>2
  <1> HIDE DEF trace
  <1>5. e \in SpanRecord
    BY <1>3, <1>4 DEF SpanRecord, Outcome
  <1>6. spans' = Append(spans, e)
    BY DEF Start, trace
  <1>7. /\ e.parent = parent /\ e.name = name /\ e.owner = r /\ ~e.ended /\ e.trace = trace
    OBVIOUS
  <1>8. f \in Frame
    BY <1>3 DEF Frame
  <1>9. stack' = [stack EXCEPT ![r] = Append(@, f)]
    BY DEF Push
  <1> HIDE DEF e, f
  <1>10. /\ spans' \in Seq(SpanRecord) /\ Len(spans') = Len(spans) + 1
         /\ DOMAIN spans' = 1..(Len(spans) + 1)
         /\ \A s \in 1..Len(spans) : spans'[s] = spans[s]
         /\ spans'[Len(spans) + 1] = e
    BY <1>1, <1>5, <1>6, Appended
  <1>11. stack'[r] = Append(stack[r], f) /\ stack[r] \in Seq(Frame)
    BY <1>1, <1>9
  <1>12. /\ stack'[r] \in Seq(Frame) /\ stack'[r] # <<>>
         /\ Len(stack[r]) \in Nat
         /\ DOMAIN stack[r] = 1..Len(stack[r]) /\ DOMAIN stack'[r] = 1..(Len(stack[r]) + 1)
         /\ \A i \in 1..Len(stack[r]) : stack'[r][i] = stack[r][i]
         /\ stack'[r][Len(stack[r]) + 1] = f
    BY <1>8, <1>11, Appended
  <1>13. stack' \in [Requests -> Seq(Frame)] /\ \A q \in Requests : q # r => stack'[q] = stack[q]
    BY <1>1, <1>9, <1>12
  <1> QED
    BY <1>2, <1>7, <1>10, <1>12, <1>13 DEF StartChanges, trace, f

(* What closing the innermost span of a request does.                        *)
EndChanges(r, status, error) ==
    /\ Len(stack[r]) \in Nat \ {0}
    /\ DOMAIN stack[r] = 1..Len(stack[r]) /\ DOMAIN stack'[r] = 1..(Len(stack[r]) - 1)
    /\ stack' \in [Requests -> Seq(Frame)]
    /\ \A q \in Requests : q # r => stack'[q] = stack[q]
    /\ \A i \in 1..(Len(stack[r]) - 1) : stack'[r][i] = stack[r][i]
    /\ Len(stack[r]) = 1 => stack'[r] = <<>>
    /\ Len(stack[r]) # 1 => stack'[r] # <<>>
    /\ spans' \in Seq(SpanRecord) /\ Len(spans') = Len(spans)
    /\ DOMAIN spans' = DOMAIN spans
    /\ \A s \in DOMAIN spans :
         /\ spans'[s].parent = spans[s].parent /\ spans'[s].name = spans[s].name
         /\ spans'[s].trace = spans[s].trace /\ spans'[s].owner = spans[s].owner
         /\ s # Top(r).span => spans'[s] = spans[s]
         /\ s = Top(r).span => /\ spans'[s].status = status /\ spans'[s].error = error
                               /\ spans'[s].ended

LEMMA Ending ==
    ASSUME TypeOK, NEW r \in Requests, NEW status \in Codes \cup {0, 200, 500},
           NEW error \in BOOLEAN, stack[r] # <<>>, Top(r).span \in DOMAIN spans,
           End(Top(r).span, status, error), Pop(r)
    PROVE  EndChanges(r, status, error)
  <1>1. spans \in Seq(SpanRecord) /\ stack \in [Requests -> Seq(Frame)]
    BY DEF TypeOK, SpanRecord, SpanNumber, TraceOf, Outcome, Frame
  <1>2. stack'[r] = SubSeq(stack[r], 1, Len(stack[r]) - 1) /\ stack[r] \in Seq(Frame)
    BY <1>1 DEF Pop
  <1>3. /\ stack'[r] \in Seq(Frame)
        /\ Len(stack[r]) \in Nat \ {0}
        /\ DOMAIN stack[r] = 1..Len(stack[r]) /\ DOMAIN stack'[r] = 1..(Len(stack[r]) - 1)
        /\ \A i \in 1..(Len(stack[r]) - 1) : stack'[r][i] = stack[r][i]
        /\ Len(stack[r]) = 1 => stack'[r] = <<>>
        /\ Len(stack[r]) # 1 => stack'[r] # <<>>
    BY <1>2, Shortened
  <1>4. /\ stack' \in [Requests -> Seq(Frame)]
        /\ \A q \in Requests : q # r => stack'[q] = stack[q]
    BY <1>1, <1>3 DEF Pop
  <1> DEFINE t == Top(r).span
             old == spans[t]
             new == [old EXCEPT !.status = status, !.error = error, !.ended = TRUE]
  <1>5. old \in SpanRecord
    BY <1>1
  <1>6. spans' = [spans EXCEPT ![t] = new]
    BY DEF End
  <1> HIDE DEF t, old
  <1>7. status \in Outcome
    BY DEF Outcome
  <1>8. new \in SpanRecord
    BY <1>5, <1>7 DEF SpanRecord
  <1>9. /\ new.parent = old.parent /\ new.name = old.name
        /\ new.trace = old.trace /\ new.owner = old.owner
        /\ new.status = status /\ new.error = error /\ new.ended = TRUE
    BY <1>5 DEF SpanRecord
  <1> HIDE DEF new
  <1>10. /\ spans' \in Seq(SpanRecord) /\ DOMAIN spans' = DOMAIN spans /\ Len(spans') = Len(spans)
         /\ spans'[t] = new /\ \A s \in DOMAIN spans : s # t => spans'[s] = spans[s]
    BY <1>1, <1>6, <1>8, Updated DEF t
  <1>11. \A s \in DOMAIN spans :
           /\ spans'[s].parent = spans[s].parent /\ spans'[s].name = spans[s].name
           /\ spans'[s].trace = spans[s].trace /\ spans'[s].owner = spans[s].owner
           /\ s # t => spans'[s] = spans[s]
           /\ s = t => spans'[s].status = status /\ spans'[s].error = error /\ spans'[s].ended
    BY <1>9, <1>10 DEF old
  <1> QED
    BY <1>3, <1>4, <1>10, <1>11 DEF EndChanges, t

----------------------------------------------------------------------------
(* The invariant.  The frames of a request are its server span, if it has    *)
(* one, and service functions above it; there are some as long as it runs.   *)
Framed ==
    \A r \in Requests :
        /\ req[r].stage \in {"idle", "done", "aborted"} => stack[r] = <<>>
        /\ req[r].stage = "running" /\ req[r].server # 0 => stack[r] # <<>>
        /\ \A i \in DOMAIN stack[r] :
              IF i = 1 /\ req[r].server # 0
                THEN stack[r][i].form = req[r].kind /\ stack[r][i].span = req[r].server
                ELSE stack[r][i].form \in Service

(* Frames hold open spans of their request, later ones further in; and every *)
(* open span is in a frame, to be ended when its function returns.           *)
FramesAreOpen ==
    \A r \in Requests : \A i \in DOMAIN stack[r] :
        LET s == stack[r][i].span
        IN  s \in DOMAIN spans /\ spans[s].owner = r /\ ~spans[s].ended
FramesGrow ==
    \A r \in Requests : \A i, j \in DOMAIN stack[r] :
        i < j => stack[r][i].span < stack[r][j].span
OpenIsFramed ==
    \A s \in DOMAIN spans : ~spans[s].ended =>
        \E i \in DOMAIN stack[spans[s].owner] : stack[spans[s].owner][i].span = s

(* Spans belong to requests that have arrived, and the server span of a      *)
(* request to that request; a parent is an earlier span of the same request, *)
(* open at least as long.                                                    *)
OwnersArrived == \A s \in DOMAIN spans : req[spans[s].owner].stage # "idle"
ServerIsOwn ==
    \A r \in Requests : req[r].server # 0 =>
        req[r].server \in DOMAIN spans /\ spans[req[r].server].owner = r
ParentIsOwn ==
    \A t \in DOMAIN spans :
        LET s == spans[t].parent IN
        s # 0 => /\ s \in DOMAIN spans /\ s < t
                 /\ spans[s].owner = spans[t].owner
                 /\ spans[s].ended => spans[t].ended

(* All spans of a traced request are in the trace of its server span, and    *)
(* that one is in the trace Encore named, or in its own if Encore named none.*)
InServerTrace ==
    \A s \in DOMAIN spans :
        LET server == req[spans[s].owner].server IN
        server # 0 => /\ spans[s].trace = spans[server].trace
                      /\ spans[s].name = "service" => spans[s].parent # 0
TraceAt(server, id) ==
    IF id # NoTrace THEN [new |-> 0, id |-> id] ELSE [new |-> server, id |-> NoTrace]
EncoreTrace(server, encore) == TraceAt(server, ConvertTraceID(encore))
InEncoreTrace ==
    \A r \in Requests : req[r].kind = "encore" =>
        /\ req[r].server # 0
        /\ spans[req[r].server].trace = EncoreTrace(req[r].server, req[r].encore)

(* What the middleware will see is what the client got, or will get.         *)
RecordedIsWire ==
    \A r \in Requests : req[r].stage = "running" =>
        /\ ~req[r].err
        /\ req[r].kind \in Middleware /\ ~req[r].extra =>
             req[r].recorded = IF req[r].wire = 0 THEN 200 ELSE req[r].wire

IInv ==
    /\ Framed /\ FramesAreOpen /\ FramesGrow /\ OpenIsFramed
    /\ OwnersArrived /\ ServerIsOwn /\ ParentIsOwn
    /\ InServerTrace /\ InEncoreTrace
    /\ RecordedIsWire /\ SpanTellsOutcome

LEMMA Established == Init => IInv
  BY DEF Init, NoRequest, IInv, Framed, FramesAreOpen, FramesGrow, OpenIsFramed,
         OwnersArrived, ServerIsOwn, ParentIsOwn, InServerTrace, InEncoreTrace,
         RecordedIsWire, SpanTellsOutcome, Completed

----------------------------------------------------------------------------
(* Steps that change the request r alone.                                    *)
Others(r) == \A q \in Requests : q # r => req'[q] = req[q]

(* What the typing of sequences gives the steps below.                       *)
LEMMA SpanFacts ==
    ASSUME TypeOK
    PROVE  /\ Len(spans) \in Nat /\ DOMAIN spans = 1..Len(spans)
           /\ \A s \in DOMAIN spans : spans[s].owner \in Requests /\ spans[s].parent \in Nat
           /\ \A r \in Requests : /\ req[r].server \in Nat
                                  /\ req[r].kind \in Middleware \cup {"encore"}
                                  /\ Len(stack[r]) \in Nat /\ DOMAIN stack[r] = 1..Len(stack[r])
  <1>1. spans \in Seq(SpanRecord) /\ stack \in [Requests -> Seq(Frame)]
    BY DEF TypeOK, SpanRecord, SpanNumber, TraceOf, Outcome, Frame
  <1>2. \A s \in DOMAIN spans : spans[s].owner \in Requests /\ spans[s].parent \in Nat
    <2>1. \A s \in DOMAIN spans : spans[s] \in SpanRecord
      BY <1>1
    <2> QED
      BY <2>1, BoundsAssumption DEF SpanRecord, SpanNumber
  <1>3. \A r \in Requests : req[r].server \in Nat /\ req[r].kind \in Middleware \cup {"encore"}
    BY <1>1 DEF TypeOK
  <1> QED
    BY <1>1, <1>2, <1>3

(* A request arrives and gets its span.                                      *)
LEMMA ArrivingPreserves ==
    ASSUME TypeOK, IInv, NEW r \in Requests, NEW form, form \in Middleware \cup {"encore"}, NEW id,
           req[r].stage = "idle", Others(r), req'[r].stage = "running", req'[r].kind = form,
           req'[r].server = Len(spans) + 1, ~req'[r].err, ~req'[r].extra,
           form \in Middleware => req'[r].recorded = 200 /\ req'[r].wire = 0,
           form = "encore" => id = ConvertTraceID(req'[r].encore),
           StartChanges(r, form, "server", 0, id)
    PROVE  IInv'
  <1> DEFINE n == Len(spans) + 1
  <1>1. /\ DOMAIN spans' = DOMAIN spans \cup {n} /\ n \notin DOMAIN spans /\ n # 0
        /\ \A s \in DOMAIN spans : s < n /\ spans'[s] = spans[s] /\ spans[s].owner \in Requests
    BY SpanFacts DEF StartChanges
  <1>2. /\ spans'[n].parent = 0 /\ spans'[n].owner = r /\ ~spans'[n].ended
        /\ spans'[n].name = "server"
        /\ spans'[n].trace = TraceAt(n, id)
    BY DEF StartChanges, TraceAt
  <1>3. \A q \in Requests : q # r => stack'[q] = stack[q] /\ req'[q] = req[q]
    BY DEF StartChanges, Others
  <1>4. Len(stack[r]) = 0
    BY DEF IInv, Framed
  <1>5. /\ DOMAIN stack'[r] = {1} /\ stack'[r] # <<>>
        /\ stack'[r][1].form = form /\ stack'[r][1].span = n
    BY <1>4 DEF StartChanges
  <1>6. \A s \in DOMAIN spans : spans[s].owner # r
    BY <1>1 DEF IInv, OwnersArrived
  <1>7. req'[r].server = n
    OBVIOUS
  <1> HIDE DEF n
  <1>8. Framed'
    BY <1>1, <1>3, <1>5, <1>7 DEF IInv, Framed
  <1>9. FramesAreOpen'
    <2> SUFFICES ASSUME NEW q \in Requests, NEW i \in DOMAIN stack'[q]
                 PROVE  LET s == stack'[q][i].span
                        IN  s \in DOMAIN spans' /\ spans'[s].owner = q /\ ~spans'[s].ended
      BY DEF FramesAreOpen
    <2>1. CASE q = r
      BY <1>1, <1>2, <1>5, <2>1
    <2>2. CASE q # r
      BY <1>1, <1>3, <2>2 DEF IInv, FramesAreOpen
    <2> QED
      BY <2>1, <2>2
  <1>10. FramesGrow'
    BY <1>3, <1>5 DEF IInv, FramesGrow
  <1>11. OpenIsFramed'
    <2> SUFFICES ASSUME NEW s \in DOMAIN spans', ~spans'[s].ended
                 PROVE  \E i \in DOMAIN stack'[spans'[s].owner] :
                          stack'[spans'[s].owner][i].span = s
      BY DEF OpenIsFramed
    <2>1. CASE s = n
      BY <1>2, <1>5, <2>1
    <2>2. CASE s \in DOMAIN spans
      BY <1>1, <1>3, <1>6, <2>2 DEF IInv, OpenIsFramed
    <2> QED
      BY <1>1, <2>1, <2>2
  <1>12. OwnersArrived'
    BY <1>1, <1>2, <1>3, <1>6 DEF IInv, OwnersArrived
  <1>13. ServerIsOwn'
    BY <1>1, <1>2, <1>3, <1>7 DEF IInv, ServerIsOwn
  <1>14. ParentIsOwn'
    BY <1>1, <1>2 DEF IInv, ParentIsOwn
  <1>15. InServerTrace'
    BY <1>1, <1>2, <1>3, <1>6, <1>7 DEF IInv, InServerTrace, ServerIsOwn
  <1>16. InEncoreTrace'
    <2> SUFFICES ASSUME NEW q \in Requests, req'[q].kind = "encore"
                 PROVE  /\ req'[q].server # 0
                        /\ spans'[req'[q].server].trace
                             = EncoreTrace(req'[q].server, req'[q].encore)
      BY DEF InEncoreTrace, EncoreTrace, TraceAt, ConvertTraceID, NoTrace
    <2>1. CASE q = r
      BY <1>1, <1>2, <1>7, <2>1 DEF EncoreTrace
    <2>2. CASE q # r
      BY <1>1, <1>3, <2>2 DEF IInv, InEncoreTrace, ServerIsOwn
    <2> QED
      BY <2>1, <2>2
  <1>17. RecordedIsWire'
    BY <1>3 DEF IInv, RecordedIsWire
  <1>18. SpanTellsOutcome'
    BY <1>1, <1>3 DEF IInv, SpanTellsOutcome, Completed, ServerIsOwn
  <1> QED
    BY <1>8, <1>9, <1>10, <1>11, <1>12, <1>13, <1>14, <1>15, <1>16, <1>17, <1>18 DEF IInv

(* A service function opens a span below the innermost one.                  *)
LEMMA EnteringPreserves ==
    ASSUME TypeOK, IInv, NEW r \in Requests, NEW form \in Service,
           req[r].stage = "running", UNCHANGED req,
           StartChanges(r, form, "service", ContextSpan(r), NoTrace)
    PROVE  IInv'
  <1> DEFINE n == Len(spans) + 1
             m == Len(stack[r]) + 1
             p == ContextSpan(r)
  <1>1. /\ DOMAIN spans' = DOMAIN spans \cup {n} /\ n \notin DOMAIN spans /\ n # 0
        /\ \A s \in DOMAIN spans : s < n /\ spans'[s] = spans[s] /\ spans[s].owner \in Requests
    BY SpanFacts DEF StartChanges
  <1>2. /\ spans'[n].parent = p /\ spans'[n].owner = r /\ ~spans'[n].ended
        /\ p # 0 => spans'[n].trace = spans[p].trace
    BY DEF StartChanges
  <1>3. \A q \in Requests : q # r => stack'[q] = stack[q]
    BY DEF StartChanges
  <1>4. /\ DOMAIN stack'[r] = DOMAIN stack[r] \cup {m} /\ m \notin DOMAIN stack[r]
        /\ \A i \in DOMAIN stack[r] : stack'[r][i] = stack[r][i] /\ i < m
        /\ stack'[r] # <<>> /\ stack'[r][m].form = form /\ stack'[r][m].span = n
    <2>1. /\ Len(stack[r]) \in Nat /\ DOMAIN stack[r] = 1..Len(stack[r])
          /\ DOMAIN stack'[r] = 1..m
      BY DEF StartChanges
    <2>2. /\ DOMAIN stack'[r] = DOMAIN stack[r] \cup {m} /\ m \notin DOMAIN stack[r]
          /\ \A i \in DOMAIN stack[r] : i < m
      BY <2>1
    <2>3. stack'[r][m] = [form |-> form, span |-> n]
      BY DEF StartChanges
    <2>4. /\ \A i \in DOMAIN stack[r] : stack'[r][i] = stack[r][i]
          /\ stack'[r] # <<>>
      BY DEF StartChanges
    <2> QED
      BY <2>2, <2>3, <2>4
  <1>5. req[r].server # 0 => m # 1
    BY SpanFacts DEF IInv, Framed
  <1>6. IF stack[r] = <<>> THEN p = 0
        ELSE p \in DOMAIN spans /\ spans[p].owner = r /\ ~spans[p].ended
    BY SpanFacts DEF ContextSpan, Top, IInv, FramesAreOpen
  <1> HIDE DEF n, m, p
  <1>7. Framed'
    <2> SUFFICES ASSUME NEW q \in Requests
                 PROVE  /\ req[q].stage \in {"idle", "done", "aborted"} => stack'[q] = <<>>
                        /\ req[q].stage = "running" /\ req[q].server # 0 => stack'[q] # <<>>
                        /\ \A i \in DOMAIN stack'[q] :
                              IF i = 1 /\ req[q].server # 0
                                THEN /\ stack'[q][i].form = req[q].kind
                                     /\ stack'[q][i].span = req[q].server
                                ELSE stack'[q][i].form \in Service
      BY DEF Framed
    <2>1. CASE q = r
      BY <1>4, <1>5, <2>1 DEF IInv, Framed
    <2>2. CASE q # r
      BY <1>3, <2>2 DEF IInv, Framed
    <2> QED
      BY <2>1, <2>2
  <1>8. FramesAreOpen'
    <2> SUFFICES ASSUME NEW q \in Requests, NEW i \in DOMAIN stack'[q]
                 PROVE  LET s == stack'[q][i].span
                        IN  s \in DOMAIN spans' /\ spans'[s].owner = q /\ ~spans'[s].ended
      BY DEF FramesAreOpen
    <2>1. CASE q = r /\ i = m
      BY <1>1, <1>2, <1>4, <2>1
    <2>2. CASE i \in DOMAIN stack[q] /\ stack'[q][i] = stack[q][i]
      BY <1>1, <2>2 DEF IInv, FramesAreOpen
    <2> QED
      BY <1>3, <1>4, <2>1, <2>2
  <1>9. FramesGrow'
    <2> SUFFICES ASSUME NEW q \in Requests, NEW i \in DOMAIN stack'[q], NEW j \in DOMAIN stack'[q],
                        i < j
                 PROVE  stack'[q][i].span < stack'[q][j].span
      BY DEF FramesGrow
    <2>1. CASE q # r
      BY <1>3, <2>1 DEF IInv, FramesGrow
    <2>2. CASE q = r /\ j = m
      <3>1. i \in DOMAIN stack[r] /\ stack'[r][i] = stack[r][i]
        BY <1>4, <2>2, SpanFacts DEF m
      <3>2. stack[r][i].span \in DOMAIN spans
        BY <3>1 DEF IInv, FramesAreOpen
      <3> QED
        BY <1>1, <1>4, <2>2, <3>1, <3>2
    <2>3. CASE q = r /\ j # m
      <3>1. j \in DOMAIN stack[r] /\ i \in DOMAIN stack[r]
        BY <1>4, <2>3, SpanFacts DEF m
      <3> QED
        BY <1>4, <2>3, <3>1 DEF IInv, FramesGrow
    <2> QED
      BY <2>1, <2>2, <2>3
  <1>10. OpenIsFramed'
    <2> SUFFICES ASSUME NEW s \in DOMAIN spans', ~spans'[s].ended
                 PROVE  \E i \in DOMAIN stack'[spans'[s].owner] :
                          stack'[spans'[s].owner][i].span = s
      BY DEF OpenIsFramed
    <2>1. CASE s = n
      BY <1>2, <1>4, <2>1
    <2>2. CASE s \in DOMAIN spans
      <3>1. PICK i \in DOMAIN stack[spans[s].owner] : stack[spans[s].owner][i].span = s
        BY <1>1, <2>2 DEF IInv, OpenIsFramed
      <3> QED
        BY <1>1, <1>3, <1>4, <2>2, <3>1
    <2> QED
      BY <1>1, <2>1, <2>2
  <1>11. OwnersArrived'
    BY <1>1, <1>2 DEF IInv, OwnersArrived
  <1>12. ServerIsOwn'
    BY <1>1 DEF IInv, ServerIsOwn
  <1>13. ParentIsOwn'
    BY <1>1, <1>2, <1>6 DEF IInv, ParentIsOwn
  <1>14. req[r].server # 0 => p # 0 /\ spans[p].trace = spans[req[r].server].trace
    BY <1>6, SpanFacts DEF IInv, Framed, InServerTrace
  <1>15. InServerTrace'
    BY <1>1, <1>2, <1>14 DEF IInv, InServerTrace, ServerIsOwn
  <1>16. InEncoreTrace'
    BY <1>1 DEF IInv, InEncoreTrace, ServerIsOwn, EncoreTrace, TraceAt, ConvertTraceID, NoTrace
  <1>17. RecordedIsWire'
    BY DEF IInv, RecordedIsWire
  <1>18. SpanTellsOutcome'
    BY <1>1 DEF IInv, SpanTellsOutcome, Completed, ServerIsOwn
  <1> QED
    BY <1>7, <1>8, <1>9, <1>10, <1>11, <1>12, <1>13, <1>15, <1>16, <1>17, <1>18 DEF IInv

(* The innermost function returns and its span ends.                         *)
LEMMA ClosingPreserves ==
    ASSUME TypeOK, IInv, NEW r \in Requests, NEW status, NEW error,
           req[r].stage \in {"running", "panicking"}, stack[r] # <<>>, Others(r),
           req'[r].server = req[r].server, req'[r].kind = req[r].kind,
           req'[r].encore = req[r].encore,
           EndChanges(r, status, error),
           \/ /\ req'[r].stage = "running" /\ req' = req
              /\ Top(r).form \in Service
           \/ req'[r].stage = "panicking"
           \/ /\ req'[r].stage = "done" /\ Top(r).form \notin Service
              /\ req[r].kind \in Middleware /\ ~req'[r].extra =>
                   /\ status = req'[r].wire \/ (req'[r].err /\ error)
                   /\ error <=> req'[r].wire >= 400 \/ req'[r].err
    PROVE  IInv'
  <1> DEFINE m == Len(stack[r])
             t == Top(r).span
  <1>1. /\ DOMAIN spans' = DOMAIN spans
        /\ \A s \in DOMAIN spans :
              /\ spans'[s].parent = spans[s].parent /\ spans'[s].name = spans[s].name
              /\ spans'[s].trace = spans[s].trace /\ spans'[s].owner = spans[s].owner
              /\ s # t => spans'[s] = spans[s]
              /\ s = t => spans'[s].status = status /\ spans'[s].error = error /\ spans'[s].ended
              /\ spans[s].owner \in Requests
    BY SpanFacts DEF EndChanges
  <1>2. \A q \in Requests : q # r => stack'[q] = stack[q] /\ req'[q] = req[q]
    BY DEF EndChanges, Others
  <1>3. /\ m \in DOMAIN stack[r] /\ DOMAIN stack'[r] = DOMAIN stack[r] \ {m}
        /\ \A i \in DOMAIN stack'[r] : stack'[r][i] = stack[r][i]
        /\ \A i \in DOMAIN stack[r] : i \in Nat /\ i <= m /\ 1 <= i
    <2>1. /\ m \in Nat \ {0} /\ DOMAIN stack[r] = 1..m
          /\ DOMAIN stack'[r] = 1..(m - 1)
      BY DEF EndChanges
    <2>2. \A i \in 1..(m - 1) : stack'[r][i] = stack[r][i]
      BY DEF EndChanges
    <2> QED
      BY <2>1, <2>2
  <1>4. m \in Nat /\ (m = 1 => stack'[r] = <<>>) /\ (m # 1 => stack'[r] # <<>>)
    BY DEF EndChanges
  <1>5. t = stack[r][m].span /\ Top(r) = stack[r][m]
    BY DEF Top
  <1>6. t \in DOMAIN spans /\ spans[t].owner = r /\ ~spans[t].ended
    BY <1>3, <1>5 DEF IInv, FramesAreOpen
  <1>7. Top(r).form \notin Service => m = 1 /\ req[r].server # 0 /\ t = req[r].server
    BY <1>3, <1>5 DEF IInv, Framed
  <1>8. \A i \in DOMAIN stack'[r] : i \in DOMAIN stack[r] /\ stack[r][i].span < t
    BY <1>3, <1>5 DEF IInv, FramesGrow
  <1> HIDE DEF m, t
  <1>9. Framed'
    <2> SUFFICES ASSUME NEW q \in Requests
                 PROVE  /\ req'[q].stage \in {"idle", "done", "aborted"} => stack'[q] = <<>>
                        /\ req'[q].stage = "running" /\ req'[q].server # 0 => stack'[q] # <<>>
                        /\ \A i \in DOMAIN stack'[q] :
                              IF i = 1 /\ req'[q].server # 0
                                THEN /\ stack'[q][i].form = req'[q].kind
                                     /\ stack'[q][i].span = req'[q].server
                                ELSE stack'[q][i].form \in Service
      BY DEF Framed
    <2>1. CASE q # r
      BY <1>2, <2>1 DEF IInv, Framed
    <2>2. CASE q = r
      <3>1. \A i \in DOMAIN stack'[r] :
              IF i = 1 /\ req'[r].server # 0
                THEN stack'[r][i].form = req'[r].kind /\ stack'[r][i].span = req'[r].server
                ELSE stack'[r][i].form \in Service
        BY <1>3 DEF IInv, Framed
      <3>2. req'[r].stage \in {"idle", "done", "aborted"} => stack'[r] = <<>>
        BY <1>4, <1>7
      <3>3. req'[r].stage = "running" /\ req'[r].server # 0 => stack'[r] # <<>>
        <4> SUFFICES ASSUME req'[r].stage = "running", req[r].server # 0 PROVE m # 1
          BY <1>4
        <4>1. stack[r][m].form \in Service
          BY <1>5
        <4>2. m = 1 => stack[r][m].form = req[r].kind
          BY <1>3 DEF IInv, Framed
        <4>3. req[r].kind \notin Service
          BY SpanFacts DEF Middleware, Service
        <4> QED
          BY <4>1, <4>2, <4>3
      <3> QED
        BY <2>2, <3>1, <3>2, <3>3
    <2> QED
      BY <2>1, <2>2
  <1>10. FramesAreOpen'
    <2> SUFFICES ASSUME NEW q \in Requests, NEW i \in DOMAIN stack'[q]
                 PROVE  LET s == stack'[q][i].span
                        IN  s \in DOMAIN spans' /\ spans'[s].owner = q /\ ~spans'[s].ended
      BY DEF FramesAreOpen
    <2> DEFINE s == stack'[q][i].span
    <2>1. i \in DOMAIN stack[q] /\ stack'[q][i] = stack[q][i]
      BY <1>2, <1>3
    <2>2. s \in DOMAIN spans /\ spans[s].owner = q /\ ~spans[s].ended
      BY <2>1 DEF IInv, FramesAreOpen
    <2>3. s # t
      <3>1. CASE q = r
        BY <1>1, <1>6, <1>8, <2>1, <2>2, <3>1, SpanFacts
      <3>2. CASE q # r
        BY <1>6, <2>2, <3>2
      <3> QED
        BY <3>1, <3>2
    <2> QED
      BY <1>1, <2>2, <2>3
  <1>11. FramesGrow'
    BY <1>2, <1>3, <1>8 DEF IInv, FramesGrow
  <1>12. OpenIsFramed'
    <2> SUFFICES ASSUME NEW s \in DOMAIN spans', ~spans'[s].ended
                 PROVE  \E i \in DOMAIN stack'[spans'[s].owner] :
                          stack'[spans'[s].owner][i].span = s
      BY DEF OpenIsFramed
    <2>1. s \in DOMAIN spans /\ s # t /\ ~spans[s].ended /\ spans'[s].owner = spans[s].owner
          /\ spans[s].owner \in Requests
      BY <1>1
    <2>2. PICK i \in DOMAIN stack[spans[s].owner] : stack[spans[s].owner][i].span = s
      BY <2>1 DEF IInv, OpenIsFramed
    <2> QED
      BY <1>2, <1>3, <1>5, <2>1, <2>2
  <1>13. OwnersArrived'
    BY <1>1, <1>2 DEF IInv, OwnersArrived
  <1>14. ServerIsOwn'
    BY <1>1, <1>2 DEF IInv, ServerIsOwn
  <1>15. ParentIsOwn'
    <2> SUFFICES ASSUME NEW u \in DOMAIN spans, spans[u].parent # 0
                 PROVE  LET s == spans[u].parent
                        IN  /\ s \in DOMAIN spans /\ s < u
                            /\ spans'[s].owner = spans'[u].owner
                            /\ spans'[s].ended => spans'[u].ended
      BY <1>1 DEF ParentIsOwn
    <2> DEFINE s == spans[u].parent
    <2>1. s \in DOMAIN spans /\ s < u /\ spans[s].owner = spans[u].owner
          /\ (spans[s].ended => spans[u].ended)
      BY DEF IInv, ParentIsOwn
    <2>2. spans'[s].owner = spans'[u].owner
      BY <1>1, <2>1
    <2>3. CASE s = t
      <3>1. CASE spans[u].ended
        BY <1>1, <1>6, <2>1, <2>2, <3>1
      <3>2. CASE ~spans[u].ended
        <4>1. PICK i \in DOMAIN stack[r] : stack[r][i].span = u
          BY <1>6, <2>1, <2>3, <3>2 DEF IInv, OpenIsFramed
        <4>2. u = t \/ u < t
          BY <1>3, <1>5, <1>8, <4>1
        <4> QED
          BY <2>1, <2>3, <4>2, SpanFacts
      <3> QED
        BY <3>1, <3>2
    <2>4. CASE s # t
      BY <1>1, <2>1, <2>2, <2>4
    <2> QED
      BY <2>3, <2>4
  <1>16. InServerTrace'
    <2>1. \A q \in Requests : req'[q].server = req[q].server
      BY <1>2
    <2> SUFFICES ASSUME NEW s \in DOMAIN spans, NEW server,
                        server = req'[spans'[s].owner].server, server # 0
                 PROVE  /\ spans'[s].trace = spans'[server].trace
                        /\ spans'[s].name = "service" => spans'[s].parent # 0
      BY <1>1 DEF InServerTrace
    <2>2. server = req[spans[s].owner].server /\ server \in DOMAIN spans
      BY <1>1, <2>1 DEF IInv, ServerIsOwn
    <2>3. /\ spans[s].trace = spans[server].trace
          /\ spans[s].name = "service" => spans[s].parent # 0
      BY <2>2 DEF IInv, InServerTrace
    <2>4. spans'[server].trace = spans[server].trace
      BY <1>1, <2>2
    <2>5. /\ spans'[s].trace = spans[s].trace /\ spans'[s].name = spans[s].name
          /\ spans'[s].parent = spans[s].parent
      BY <1>1
    <2> QED
      BY <2>2, <2>3, <2>4, <2>5
  <1>17. InEncoreTrace'
    <2> SUFFICES ASSUME NEW q \in Requests, req'[q].kind = "encore"
                 PROVE  /\ req'[q].server # 0
                        /\ spans'[req'[q].server].trace
                             = EncoreTrace(req'[q].server, req'[q].encore)
      BY DEF InEncoreTrace, EncoreTrace, TraceAt, ConvertTraceID, NoTrace
    <2>1. /\ req'[q].encore = req[q].encore /\ req'[q].server = req[q].server
          /\ req'[q].kind = req[q].kind
      BY <1>2
    <2>2. spans'[req[q].server].trace = spans[req[q].server].trace
      BY <1>1, <2>1 DEF IInv, InEncoreTrace, ServerIsOwn
    <2> QED
      BY <2>1, <2>2 DEF IInv, InEncoreTrace
  <1>18. RecordedIsWire'
    BY <1>2 DEF IInv, RecordedIsWire
  <1>19. SpanTellsOutcome'
    <2> SUFFICES ASSUME NEW q \in Requests, Completed(q)'
                 PROVE  LET span == spans'[req'[q].server] IN
                        /\ span.status = req'[q].wire \/ (req'[q].err /\ span.error)
                        /\ span.error <=> req'[q].wire >= 400 \/ req'[q].err
      BY DEF SpanTellsOutcome
    <2>1. CASE q = r
      BY <1>1, <1>6, <1>7, <2>1 DEF Completed
    <2>2. CASE q # r
      <3>1. Completed(q) /\ req'[q].server # t /\ req'[q].server \in DOMAIN spans
        BY <1>2, <1>6, <2>2 DEF Completed, IInv, ServerIsOwn
      <3> QED
        BY <1>1, <1>2, <2>2, <3>1 DEF IInv, SpanTellsOutcome
    <2> QED
      BY <2>1, <2>2
  <1> QED
    BY <1>9, <1>10, <1>11, <1>12, <1>13, <1>14, <1>15, <1>16, <1>17, <1>18, <1>19 DEF IInv

(* A step that opens and closes no span.                                     *)
LEMMA QuietPreserves ==
    ASSUME TypeOK, IInv, NEW r \in Requests, Others(r), UNCHANGED <<stack, spans>>,
           \/ /\ req'[r].server = req[r].server /\ req'[r].encore = req[r].encore
              /\ req'[r].kind = req[r].kind /\ req[r].stage # "idle"
           \/ /\ req'[r].server = 0 /\ req'[r].kind # "encore"
              /\ req[r].stage = "idle" /\ req'[r].stage # "idle",
           req'[r].stage # "idle",
           req'[r].stage = "running" =>
             /\ req[r].stage \in {"idle", "running"} /\ ~req'[r].err
             /\ req'[r].kind \in Middleware /\ ~req'[r].extra =>
                  req'[r].recorded = IF req'[r].wire = 0 THEN 200 ELSE req'[r].wire,
           req'[r].stage \in {"done", "aborted"} => stack[r] = <<>>,
           req'[r].stage = "done" => req'[r].server = 0
    PROVE  IInv'
  <1>1. \A q \in Requests : q # r => req'[q] = req[q]
    BY DEF Others
  <1>2. req[r].stage = "idle" => stack[r] = <<>> /\ DOMAIN stack[r] = {}
    BY SpanFacts DEF IInv, Framed
  <1>3. req[r].stage = "idle" => \A s \in DOMAIN spans : spans[s].owner # r
    BY DEF IInv, OwnersArrived
  <1>4. Framed'
    BY <1>1, <1>2 DEF IInv, Framed
  <1>5. FramesAreOpen' /\ FramesGrow' /\ OpenIsFramed' /\ ParentIsOwn'
    BY DEF IInv, FramesAreOpen, FramesGrow, OpenIsFramed, ParentIsOwn
  <1>6. OwnersArrived' /\ ServerIsOwn'
    BY <1>1, SpanFacts DEF IInv, OwnersArrived, ServerIsOwn
  <1>7. InServerTrace'
    BY <1>1, <1>3, SpanFacts DEF IInv, InServerTrace
  <1>8. InEncoreTrace'
    <2> SUFFICES ASSUME NEW q \in Requests, req'[q].kind = "encore"
                 PROVE  /\ req'[q].server # 0
                        /\ spans'[req'[q].server].trace
                             = EncoreTrace(req'[q].server, req'[q].encore)
      BY DEF InEncoreTrace, EncoreTrace, TraceAt, ConvertTraceID, NoTrace
    <2>1. /\ req'[q].encore = req[q].encore /\ req'[q].server = req[q].server
          /\ req'[q].kind = req[q].kind
      BY <1>1
    <2> QED
      BY <2>1 DEF IInv, InEncoreTrace
  <1>9. RecordedIsWire' /\ SpanTellsOutcome'
    BY <1>1 DEF IInv, RecordedIsWire, SpanTellsOutcome, Completed
  <1> QED
    BY <1>4, <1>5, <1>6, <1>7, <1>8, <1>9 DEF IInv
----------------------------------------------------------------------------
(* Types.                                                                    *)
Stage == {"idle", "running", "panicking", "done", "aborted"}
Kind == Middleware \cup {"encore"}
Server(n) == 0..n
Writes == 0..MaxWrites
Identifier == Bytes \cup {Invalid}
RequestRecord(n) ==
    [stage : Stage, kind : Kind, server : Server(n), recorded : Outcome, wire : Outcome,
     writes : Writes, extra : BOOLEAN, err : BOOLEAN, encore : Identifier, below : BOOLEAN]

LEMMA TypesOf ==
    TypeOK <=> /\ req \in [Requests -> RequestRecord(Len(spans))]
               /\ stack \in [Requests -> Seq(Frame)]
               /\ spans \in Seq(SpanRecord) /\ Len(spans) <= MaxSpans
  BY DEF TypeOK, RequestRecord, Stage, Kind, Server, Writes, Identifier, SpanRecord, SpanNumber, TraceOf,
         Outcome, Frame

LEMMA TypesOfNext ==
    TypeOK' <=> /\ req' \in [Requests -> RequestRecord(Len(spans'))]
                /\ stack' \in [Requests -> Seq(Frame)]
                /\ spans' \in Seq(SpanRecord) /\ Len(spans') <= MaxSpans
  BY DEF TypeOK, RequestRecord, Stage, Kind, Server, Writes, Identifier, SpanRecord, SpanNumber, TraceOf,
         Outcome, Frame

LEMMA RecordsWiden ==
    ASSUME NEW n \in Nat, NEW m \in Nat, n <= m
    PROVE  RequestRecord(n) \subseteq RequestRecord(m)
  BY DEF RequestRecord, Server

LEMMA RequestUpdated ==
    ASSUME NEW S, NEW T, S \subseteq T, NEW f \in [Requests -> S], NEW r \in Requests, NEW e \in T,
           NEW g, g = [f EXCEPT ![r] = e]
    PROVE  /\ g \in [Requests -> T] /\ g[r] = e
           /\ \A q \in Requests : q # r => g[q] = f[q]
  OBVIOUS

(* The calls of WriteHeader are counted together, so none counts too far.    *)
LEMMA WritesBounded ==
    ASSUME TypeOK, NEW r \in Requests,
           Cardinality({w \in Requests \X (1..MaxWrites) : w[2] <= req[w[1]].writes}) < MaxWrites
    PROVE  req[r].writes \in Nat /\ req[r].writes + 1 \in 0..MaxWrites
  <1> DEFINE W == {w \in Requests \X (1..MaxWrites) : w[2] <= req[w[1]].writes}
             D == {r} \X (1..MaxWrites)
  <1>1. req[r].writes \in 0..MaxWrites /\ MaxWrites \in Nat
    BY BoundsAssumption DEF TypeOK
  <1>2. IsFiniteSet(1..MaxWrites) /\ Cardinality(1..MaxWrites) = MaxWrites
    BY <1>1, FS_Interval
  <1>3. IsFiniteSet(Requests \X (1..MaxWrites))
    BY <1>2, FS_Product, BoundsAssumption
  <1>4. IsFiniteSet(W)
    BY <1>3, FS_Subset
  <1>5. IsFiniteSet({r}) /\ Cardinality({r}) = 1
    BY FS_Singleton
  <1>6. Cardinality(D) = MaxWrites
    <2>1. Cardinality(D) = Cardinality({r}) * Cardinality(1..MaxWrites)
      BY <1>2, <1>5, FS_Product
    <2>2. 1 * MaxWrites = MaxWrites
      BY <1>1
    <2> QED
      BY <1>2, <1>5, <2>1, <2>2
  <1>7. ASSUME req[r].writes = MaxWrites PROVE FALSE
    <2>1. D \subseteq W
      <3> SUFFICES ASSUME NEW w \in D PROVE w \in W
        OBVIOUS
      <3>1. w[1] = r /\ w[2] \in 1..MaxWrites
        OBVIOUS
      <3> QED
        BY <1>1, <1>7, <3>1
    <2>2. Cardinality(D) <= Cardinality(W)
      BY <1>4, <2>1, FS_Subset
    <2>3. Cardinality(W) \in Nat
      BY <1>4, FS_CardinalityType
    <2> QED
      BY <1>1, <1>6, <2>2, <2>3
  <1> QED
    BY <1>1, <1>7
----------------------------------------------------------------------------
(* The steps.                                                                *)
LEMMA NoRequestTyped ==
    ASSUME NEW n \in Nat
    PROVE  /\ NoRequest \in RequestRecord(n)
           /\ ~NoRequest.extra /\ ~NoRequest.err /\ NoRequest.wire = 0
  BY BoundsAssumption
  DEF NoRequest, RequestRecord, Stage, Kind, Server, Writes, Identifier, Outcome, Middleware

LEMMA ArriveStep ==
    ASSUME TypeOK, IInv, NEW r \in Requests, NEW kind \in Middleware, NEW skip \in BOOLEAN,
           NEW id \in Arrival, Arrive(r, kind, skip, id)
    PROVE  TypeOK' /\ IInv'
  <1> DEFINE n == Len(spans)
             e == [NoRequest EXCEPT !.stage = "running", !.kind = kind,
                                    !.recorded = IF kind = "http" THEN statusCode ELSE 200,
                                    !.server = IF skip THEN 0 ELSE n + 1]
  <1>1. /\ req \in [Requests -> RequestRecord(n)] /\ stack \in [Requests -> Seq(Frame)]
        /\ spans \in Seq(SpanRecord) /\ n <= MaxSpans /\ n \in Nat
    BY TypesOf, SpanFacts
  <1>2. req' = [req EXCEPT ![r] = e] /\ req[r].stage = "idle"
    BY DEF Arrive
  <1>3. NoRequest \in RequestRecord(n + 1) /\ NoRequest \in RequestRecord(n)
    BY <1>1, NoRequestTyped
  <1>4. /\ e \in RequestRecord(n + 1) /\ (skip => e \in RequestRecord(n))
        /\ e.stage = "running" /\ e.kind = kind /\ e.recorded = 200
        /\ e.server = IF skip THEN 0 ELSE n + 1
        /\ e.extra = NoRequest.extra /\ e.err = NoRequest.err /\ e.wire = NoRequest.wire
    <2> DEFINE recorded == IF kind = "http" THEN statusCode ELSE 200
               server == IF skip THEN 0 ELSE n + 1
    <2>1. /\ "running" \in Stage /\ kind \in Kind /\ recorded \in Outcome /\ recorded = 200
          /\ server \in Server(n + 1) /\ (skip => server \in Server(n))
      BY <1>1 DEF Stage, Kind, Outcome, Server, statusCode
    <2> HIDE DEF recorded, server
    <2>2. e = [NoRequest EXCEPT !.stage = "running", !.kind = kind, !.recorded = recorded,
                                !.server = server]
      BY DEF recorded, server
    <2> HIDE DEF e, n
    <2> DEFINE base == NoRequest
    <2> HIDE DEF base
    <2>3. e = [base EXCEPT !.stage = "running", !.kind = kind, !.recorded = recorded,
                           !.server = server]
      BY <2>2 DEF base
    <2>4. ASSUME NEW N, base \in RequestRecord(N), server \in Server(N)
          PROVE  e \in RequestRecord(N)
      BY <2>1, <2>3, <2>4 DEF RequestRecord
    <2>5. ASSUME NEW N, base \in RequestRecord(N)
          PROVE  /\ e.stage = "running" /\ e.kind = kind /\ e.recorded = recorded
                 /\ e.server = server
                 /\ e.extra = base.extra /\ e.err = base.err
                 /\ e.wire = base.wire
      BY <2>3, <2>5 DEF RequestRecord
    <2>6. base \in RequestRecord(n + 1) /\ base \in RequestRecord(n)
      BY <1>3 DEF base
    <2> QED
      BY <2>1, <2>4, <2>5, <2>6 DEF server, base
  <1> HIDE DEF e
  <1>5. RequestRecord(n) \subseteq RequestRecord(n + 1)
    BY <1>1, RecordsWiden
  <1>6. /\ req' \in [Requests -> RequestRecord(n + 1)] /\ req'[r] = e
        /\ \A q \in Requests : q # r => req'[q] = req[q]
    BY <1>1, <1>2, <1>4, <1>5, RequestUpdated
  <1>7. Others(r)
    BY <1>6 DEF Others
  <1>8. CASE skip
    <2>1. UNCHANGED <<stack, spans>>
      BY <1>8 DEF Arrive
    <2>2. e \in RequestRecord(n)
      BY <1>4, <1>8
    <2>3. req' \in [Requests -> RequestRecord(n)]
      BY <1>1, <1>2, <2>2, RequestUpdated
    <2>4. TypeOK'
      BY <1>1, <2>1, <2>3, TypesOfNext
    <2>5. /\ req'[r].stage = "running" /\ req'[r].server = 0 /\ req'[r].kind = kind
          /\ ~req'[r].err /\ req'[r].recorded = 200 /\ req'[r].wire = 0
      BY <1>1, <1>4, <1>6, <1>8, NoRequestTyped
    <2>6. kind # "encore"
      BY DEF Middleware
    <2>7. IInv'
      BY <1>2, <1>7, <2>1, <2>5, <2>6, QuietPreserves
    <2> QED
      BY <2>4, <2>7
  <1>9. CASE ~skip
    <2>1. n < MaxSpans /\ Push(r, kind) /\ Start(r, "server", 0, id)
      BY <1>9 DEF Arrive
    <2>2. id \in [1..Width -> Byte]
      BY IncomingAssumption DEF Arrival, NoTrace, Byte
    <2>3. kind \in Form /\ "server" \in Names
      BY DEF Form, Names
    <2>4. StartChanges(r, kind, "server", 0, id)
      BY <2>1, <2>2, <2>3, Starting
    <2>5. /\ stack' \in [Requests -> Seq(Frame)] /\ spans' \in Seq(SpanRecord)
          /\ Len(spans') = n + 1
      BY <2>4 DEF StartChanges
    <2>6. n + 1 <= MaxSpans
      BY <1>1, <2>1, BoundsAssumption
    <2>7. TypeOK'
      BY <1>6, <2>5, <2>6, TypesOfNext
    <2>8. /\ req'[r].stage = "running" /\ req'[r].server = n + 1
          /\ req'[r].kind = kind /\ ~req'[r].err /\ ~req'[r].extra
          /\ req'[r].recorded = 200 /\ req'[r].wire = 0
      BY <1>1, <1>4, <1>6, <1>9, NoRequestTyped
    <2>9. kind # "encore"
      BY DEF Middleware
    <2>10. IInv'
      BY <1>2, <1>7, <2>4, <2>8, <2>9, ArrivingPreserves
    <2> QED
      BY <2>7, <2>10
  <1> QED
    BY <1>8, <1>9

LEMMA ConvertedIsTrace ==
    ASSUME NEW id \in Bytes \cup {Invalid}
    PROVE  ConvertTraceID(id) \in [1..Width -> Byte]
  <1>1. CASE id = Invalid
    BY <1>1 DEF ConvertTraceID, NoTrace, Byte
  <1>2. CASE id # Invalid
    <2>1. PICK n \in 0..Width + 1 : id \in [1..n -> Byte]
      BY <1>2 DEF Bytes
    <2>2. n \in Nat
      BY <2>1, BoundsAssumption
    <2>3. Len(id) = n
      BY <2>1, <2>2
    <2>4. \A i \in 1..Width : i <= Len(id) => id[i] \in Byte
      BY <2>1, <2>2, <2>3, BoundsAssumption
    <2> QED
      BY <1>2, <2>4 DEF ConvertTraceID, Byte
  <1> QED
    BY <1>1, <1>2

LEMMA EncoreStep ==
    ASSUME TypeOK, IInv, NEW r \in Requests, NEW id \in EncoreIds, NEW below \in BOOLEAN,
           StartEncore(r, id, below)
    PROVE  TypeOK' /\ IInv'
  <1> DEFINE n == Len(spans)
             e == [NoRequest EXCEPT !.stage = "running", !.kind = "encore",
                                    !.server = n + 1, !.encore = id, !.below = below]
             trace == ConvertTraceID(id)
  <1>1. /\ req \in [Requests -> RequestRecord(n)] /\ n <= MaxSpans /\ n \in Nat
    BY TypesOf, SpanFacts
  <1>2. /\ req' = [req EXCEPT ![r] = e] /\ req[r].stage = "idle"
        /\ n < MaxSpans /\ Push(r, "encore") /\ Start(r, "server", 0, trace)
    BY DEF StartEncore
  <1>3. NoRequest \in RequestRecord(n + 1)
    BY <1>1, NoRequestTyped
  <1>4. id \in Bytes \cup {Invalid}
    BY EncoreIdsAssumption
  <1>5. trace \in [1..Width -> Byte]
    BY <1>4, ConvertedIsTrace
  <1>6. /\ e \in RequestRecord(n + 1)
        /\ e.stage = "running" /\ e.kind = "encore" /\ e.server = n + 1
        /\ e.encore = id /\ e.extra = NoRequest.extra /\ e.err = NoRequest.err
    <2> HIDE DEF trace
    <2>1. "running" \in Stage /\ "encore" \in Kind /\ n + 1 \in Server(n + 1) /\ id \in Identifier
      BY <1>1, <1>4 DEF Stage, Kind, Server, Identifier
    <2> QED
      BY <1>3, <2>1 DEF RequestRecord
  <1> HIDE DEF e
  <1>7. RequestRecord(n) \subseteq RequestRecord(n + 1)
    BY <1>1, RecordsWiden
  <1>8. /\ req' \in [Requests -> RequestRecord(n + 1)] /\ req'[r] = e
        /\ \A q \in Requests : q # r => req'[q] = req[q]
    BY <1>1, <1>2, <1>6, <1>7, RequestUpdated
  <1>9. Others(r)
    BY <1>8 DEF Others
  <1>10. "encore" \in Form /\ "server" \in Names
    BY DEF Form, Names
  <1>11. /\ req'[r].stage = "running" /\ req'[r].server = n + 1 /\ req'[r].encore = id
         /\ req'[r].kind = "encore" /\ ~req'[r].err /\ ~req'[r].extra
    BY <1>1, <1>6, <1>8, NoRequestTyped
  <1>12. "encore" \notin Middleware
    BY DEF Middleware
  <1> HIDE DEF trace
  <1>13. StartChanges(r, "encore", "server", 0, trace)
    BY <1>2, <1>5, <1>10, Starting
  <1>14. /\ stack' \in [Requests -> Seq(Frame)] /\ spans' \in Seq(SpanRecord)
         /\ Len(spans') = n + 1
    BY <1>13 DEF StartChanges
  <1>15. TypeOK'
    BY <1>1, <1>2, <1>8, <1>14, BoundsAssumption, TypesOfNext
  <1>16. trace = ConvertTraceID(req'[r].encore)
    BY <1>11 DEF trace
  <1>17. IInv'
    BY <1>2, <1>9, <1>11, <1>12, <1>13, <1>16, ArrivingPreserves
  <1> QED
    BY <1>15, <1>17

LEMMA EnterStep ==
    ASSUME TypeOK, IInv, NEW r \in Requests, NEW form \in Service, Enter(r, form)
    PROVE  TypeOK' /\ IInv'
  <1> DEFINE n == Len(spans)
             p == ContextSpan(r)
  <1>1. /\ req \in [Requests -> RequestRecord(n)] /\ n <= MaxSpans /\ n \in Nat
    BY TypesOf, SpanFacts
  <1>2. /\ req[r].stage = "running" /\ n < MaxSpans /\ Push(r, form)
        /\ Start(r, "service", p, NoTrace) /\ UNCHANGED req
    BY DEF Enter
  <1>3. p \in {0} \cup DOMAIN spans
    BY SpanFacts DEF ContextSpan, Top, IInv, FramesAreOpen
  <1>4. form \in Form /\ "service" \in Names
    BY DEF Form, Names
  <1>5. NoTrace \in [1..Width -> Byte]
    BY DEF NoTrace, Byte
  <1> HIDE DEF p
  <1>6. StartChanges(r, form, "service", p, NoTrace)
    BY <1>2, <1>3, <1>4, <1>5, Starting
  <1>7. /\ stack' \in [Requests -> Seq(Frame)] /\ spans' \in Seq(SpanRecord)
        /\ Len(spans') = n + 1
    BY <1>6 DEF StartChanges
  <1>8. req' \in [Requests -> RequestRecord(n + 1)]
    BY <1>1, <1>2, RecordsWiden
  <1>9. TypeOK'
    BY <1>1, <1>2, <1>7, <1>8, BoundsAssumption, TypesOfNext
  <1>10. IInv'
    BY <1>2, <1>6, EnteringPreserves DEF p
  <1> QED
    BY <1>9, <1>10
(* The steps below leave the spans as long as they are.                      *)
LEMMA ClosingTyped ==
    ASSUME TypeOK, NEW r \in Requests, NEW e \in RequestRecord(Len(spans)),
           req' = [req EXCEPT ![r] = e],
           stack' \in [Requests -> Seq(Frame)], spans' \in Seq(SpanRecord),
           Len(spans') = Len(spans)
    PROVE  TypeOK' /\ req'[r] = e /\ Others(r)
  <1>1. /\ req \in [Requests -> RequestRecord(Len(spans))] /\ Len(spans) <= MaxSpans
    BY TypesOf
  <1>2. /\ req' \in [Requests -> RequestRecord(Len(spans))] /\ req'[r] = e
        /\ \A q \in Requests : q # r => req'[q] = req[q]
    BY <1>1, RequestUpdated
  <1>3. TypeOK'
    BY <1>1, <1>2, TypesOfNext
  <1> QED
    BY <1>2, <1>3 DEF Others

LEMMA WriteHeaderStep ==
    ASSUME TypeOK, IInv, NEW r \in Requests, NEW code \in Codes, WriteHeader(r, code)
    PROVE  TypeOK' /\ IInv'
  <1> DEFINE old == req[r]
             recorded == IF old.kind = "echo" /\ old.wire # 0 THEN old.recorded ELSE code
             wire == IF old.wire = 0 /\ code >= 200 THEN code ELSE old.wire
             extra == old.extra \/ (old.kind = "http" /\ (old.wire # 0 \/ code < 200))
             writes == old.writes + 1
             e == [old EXCEPT !.writes = writes, !.recorded = recorded, !.extra = extra,
                              !.wire = wire]
  <1>1. /\ old.stage = "running" /\ old.kind \in Middleware
        /\ old.kind = "echo" => code >= 200
        /\ Cardinality({w \in Requests \X (1..MaxWrites) : w[2] <= req[w[1]].writes}) < MaxWrites
        /\ req' = [req EXCEPT ![r] = e] /\ UNCHANGED <<stack, spans>>
    BY Zenon DEF WriteHeader
  <1>2. old \in RequestRecord(Len(spans))
    BY TypesOf
  <1>3. writes \in Writes
    BY <1>1, WritesBounded DEF Writes
  <1>4. old.recorded \in Outcome /\ old.wire \in Outcome /\ old.extra \in BOOLEAN
    BY <1>2 DEF RequestRecord
  <1>5. code \in Outcome /\ code \in 100..599
    BY CodesAssumption DEF Outcome
  <1>6. recorded \in Outcome /\ wire \in Outcome /\ extra \in BOOLEAN
    BY <1>4, <1>5
  <1>7. /\ ~old.err
        /\ ~old.extra => old.recorded = IF old.wire = 0 THEN 200 ELSE old.wire
    BY <1>1 DEF IInv, RecordedIsWire
  <1>8. old.kind \in {"http", "echo"}
    BY <1>1 DEF Middleware
  <1>9. ~extra => recorded = IF wire = 0 THEN 200 ELSE wire
    BY <1>1, <1>5, <1>7, <1>8
  <1> HIDE DEF old, recorded, wire, extra, writes
  <1>10. e \in RequestRecord(Len(spans))
    BY <1>2, <1>3, <1>6 DEF RequestRecord
  <1>11. /\ e.recorded = recorded /\ e.wire = wire /\ e.extra = extra
    BY <1>2 DEF RequestRecord
  <1>12. /\ e.stage = old.stage /\ e.kind = old.kind /\ e.server = old.server
         /\ e.err = old.err /\ e.encore = old.encore
    BY <1>2 DEF RequestRecord
  <1> HIDE DEF e
  <1>13. stack' \in [Requests -> Seq(Frame)] /\ spans' \in Seq(SpanRecord) /\ Len(spans') = Len(spans)
    BY <1>1, TypesOf
  <1>14. TypeOK' /\ req'[r] = e /\ Others(r)
    BY <1>1, <1>10, <1>13, ClosingTyped
  <1>15. /\ req'[r].server = req[r].server /\ req'[r].encore = req[r].encore
         /\ req'[r].kind = req[r].kind /\ req'[r].stage = "running" /\ ~req'[r].err
         /\ ~req'[r].extra => req'[r].recorded = IF req'[r].wire = 0 THEN 200 ELSE req'[r].wire
    BY <1>1, <1>7, <1>9, <1>11, <1>12, <1>14 DEF old
  <1>16. IInv'
    BY <1>1, <1>14, <1>15, QuietPreserves DEF old
  <1> QED
    BY <1>14, <1>16

LEMMA WriteStep ==
    ASSUME TypeOK, IInv, NEW r \in Requests, Write(r)
    PROVE  TypeOK' /\ IInv'
  <1> DEFINE old == req[r]
             e == [old EXCEPT !.wire = 200]
  <1>1. /\ old.stage = "running" /\ old.kind \in Middleware /\ old.wire = 0
        /\ req' = [req EXCEPT ![r] = e] /\ UNCHANGED <<stack, spans>>
    BY DEF Write
  <1>2. old \in RequestRecord(Len(spans))
    BY TypesOf
  <1>3. ~old.err /\ (~old.extra => old.recorded = 200)
    BY <1>1 DEF IInv, RecordedIsWire
  <1>4. 200 \in Outcome
    BY DEF Outcome
  <1> HIDE DEF old
  <1>5. e \in RequestRecord(Len(spans)) /\ e.wire = 200
    BY <1>2, <1>4 DEF RequestRecord
  <1>6. /\ e.stage = old.stage /\ e.kind = old.kind /\ e.server = old.server
        /\ e.err = old.err /\ e.encore = old.encore /\ e.extra = old.extra
        /\ e.recorded = old.recorded
    BY <1>2 DEF RequestRecord
  <1> HIDE DEF e
  <1>7. stack' \in [Requests -> Seq(Frame)] /\ spans' \in Seq(SpanRecord) /\ Len(spans') = Len(spans)
    BY <1>1, TypesOf
  <1>8. TypeOK' /\ req'[r] = e /\ Others(r)
    BY <1>1, <1>5, <1>7, ClosingTyped
  <1>9. /\ req'[r].server = req[r].server /\ req'[r].encore = req[r].encore
        /\ req'[r].kind = req[r].kind /\ req'[r].stage = "running" /\ ~req'[r].err
        /\ ~req'[r].extra => req'[r].recorded = IF req'[r].wire = 0 THEN 200 ELSE req'[r].wire
    BY <1>1, <1>3, <1>5, <1>6, <1>8 DEF old
  <1>10. IInv'
    BY <1>1, <1>8, <1>9, QuietPreserves DEF old
  <1> QED
    BY <1>8, <1>10

(* A step of r that changes no more than its stage.                          *)
LEMMA Staged ==
    ASSUME TypeOK, NEW r \in Requests, NEW stage \in Stage,
           req' = [req EXCEPT ![r].stage = stage],
           stack' \in [Requests -> Seq(Frame)], spans' \in Seq(SpanRecord),
           Len(spans') = Len(spans)
    PROVE  /\ TypeOK' /\ Others(r)
           /\ req'[r].stage = stage /\ req'[r].kind = req[r].kind
           /\ req'[r].server = req[r].server /\ req'[r].encore = req[r].encore
  <1> DEFINE old == req[r]
             e == [old EXCEPT !.stage = stage]
  <1>1. old \in RequestRecord(Len(spans)) /\ req' = [req EXCEPT ![r] = e]
    BY TypesOf
  <1> HIDE DEF old
  <1>2. /\ e \in RequestRecord(Len(spans)) /\ e.stage = stage
        /\ e.kind = old.kind /\ e.server = old.server /\ e.encore = old.encore
    BY <1>1 DEF RequestRecord
  <1> HIDE DEF e
  <1>3. TypeOK' /\ req'[r] = e /\ Others(r)
    BY <1>1, <1>2, ClosingTyped
  <1> QED
    BY <1>2, <1>3 DEF old

(* The innermost frame of a request.                                         *)
LEMMA TopFacts ==
    ASSUME TypeOK, IInv, NEW r \in Requests, stack[r] # <<>>
    PROVE  /\ Top(r).span \in DOMAIN spans
           /\ req[r].stage \in {"running", "panicking"}
           /\ IF Len(stack[r]) = 1 /\ req[r].server # 0
                THEN Top(r).form = req[r].kind ELSE Top(r).form \in Service
  <1>1. Len(stack[r]) \in Nat /\ DOMAIN stack[r] = 1..Len(stack[r])
    BY SpanFacts
  <1>2. Len(stack[r]) \in DOMAIN stack[r]
    <2>1. stack[r] \in Seq(Frame)
      BY TypesOf
    <2>2. Len(stack[r]) # 0
      BY <2>1
    <2> QED
      BY <1>1, <2>2
  <1>3. Top(r).span \in DOMAIN spans
    BY <1>2 DEF Top, IInv, FramesAreOpen
  <1>4. IF Len(stack[r]) = 1 /\ req[r].server # 0
          THEN Top(r).form = req[r].kind ELSE Top(r).form \in Service
    BY <1>2 DEF Top, IInv, Framed
  <1>5. req[r].stage \in Stage
    BY TypesOf DEF RequestRecord
  <1>6. req[r].stage \in {"running", "panicking"}
    BY <1>5 DEF Stage, IInv, Framed
  <1> QED
    BY <1>3, <1>4, <1>6

LEMMA LeaveStep ==
    ASSUME TypeOK, IInv, NEW r \in Requests, NEW err \in BOOLEAN, Leave(r, err)
    PROVE  TypeOK' /\ IInv'
  <1> DEFINE error == err /\ Top(r).form # "encore"
             stage == IF Top(r).form = "encore" THEN "done" ELSE req[r].stage
  <1>1. /\ req[r].stage = "running" /\ stack[r] # <<>> /\ Top(r).form \in Service \cup {"encore"}
        /\ End(Top(r).span, 0, error) /\ Pop(r)
        /\ req' = [req EXCEPT ![r].stage = stage]
    BY DEF Leave
  <1>2. error \in BOOLEAN /\ 0 \in Codes \cup {0, 200, 500} /\ stage \in Stage
    BY <1>1 DEF Stage
  <1>3. Top(r).span \in DOMAIN spans
    BY <1>1, TopFacts
  <1> HIDE DEF error, stage
  <1>4. EndChanges(r, 0, error)
    BY <1>1, <1>2, <1>3, Ending
  <1>5. stack' \in [Requests -> Seq(Frame)] /\ spans' \in Seq(SpanRecord) /\ Len(spans') = Len(spans)
    BY <1>4 DEF EndChanges
  <1>6. /\ TypeOK' /\ Others(r)
        /\ req'[r].stage = stage /\ req'[r].kind = req[r].kind
        /\ req'[r].server = req[r].server /\ req'[r].encore = req[r].encore
    BY <1>1, <1>2, <1>5, Staged
  <1>7. CASE Top(r).form = "encore"
    <2>1. req'[r].stage = "done"
      BY <1>6, <1>7 DEF stage
    <2>2. Top(r).form \notin Service
      BY <1>7 DEF Service
    <2>3. req[r].kind \notin Middleware
      BY <1>1, <1>7, <2>2, TopFacts DEF Middleware
    <2> QED
      BY <1>1, <1>4, <1>6, <2>1, <2>2, <2>3, ClosingPreserves
  <1>8. CASE Top(r).form # "encore"
    <2>1. req' = req
      <3>1. req' = [req EXCEPT ![r].stage = req[r].stage]
        BY <1>1, <1>8 DEF stage
      <3>2. req \in [Requests -> RequestRecord(Len(spans))]
        BY TypesOf
      <3>3. req[r] = [req[r] EXCEPT !.stage = req[r].stage]
        BY <3>2 DEF RequestRecord
      <3> QED
        BY <3>1, <3>2, <3>3
    <2>2. Top(r).form \in Service
      BY <1>1, <1>8
    <2>4. req'[r].stage = "running"
      BY <1>1, <2>1
    <2>3. IInv'
      BY <1>1, <1>4, <1>6, <2>1, <2>2, <2>4, ClosingPreserves
    <2> QED
      BY <1>6, <2>3
  <1> QED
    BY <1>7, <1>8
LEMMA ReturnStep ==
    ASSUME TypeOK, IInv, NEW r \in Requests, NEW err \in BOOLEAN, Return(r, err)
    PROVE  TypeOK' /\ IInv'
  <1> DEFINE old == req[r]
             wire == Answer(r, err)
             error == Failure(r, err)
             e == [old EXCEPT !.stage = "done", !.err = err, !.wire = wire]
  <1>1. /\ old.stage = "running" /\ old.kind \in Middleware /\ AtMiddleware(r)
        /\ IF stack[r] = <<>> THEN UNCHANGED <<stack, spans>>
                              ELSE End(Top(r).span, old.recorded, error) /\ Pop(r)
    BY DEF Return
  <1>2. old \in RequestRecord(Len(spans)) /\ req' = [req EXCEPT ![r] = e]
    BY TypesOf DEF Return
  <1>3. /\ old.recorded \in Outcome /\ old.wire \in Outcome
        /\ ~old.extra => old.recorded = IF old.wire = 0 THEN 200 ELSE old.wire
    BY <1>1, <1>2 DEF IInv, RecordedIsWire, RequestRecord
  <1>4. /\ wire = IF old.wire # 0 THEN old.wire ELSE IF err THEN 500 ELSE 200
        /\ error = (err \/ old.recorded >= 400)
    BY DEF Answer, Failure
  <1>5. wire \in Outcome /\ error \in BOOLEAN /\ "done" \in Stage
    BY <1>3, <1>4 DEF Outcome, Stage
  <1>6. ~old.extra => /\ old.recorded = wire \/ (err /\ error)
                      /\ error <=> wire >= 400 \/ err
    BY <1>3, <1>4
  <1> HIDE DEF old, wire, error
  <1>7. /\ e \in RequestRecord(Len(spans))
        /\ e.stage = "done" /\ e.err = err /\ e.wire = wire
    BY <1>2, <1>5 DEF RequestRecord
  <1>8. /\ e.kind = old.kind /\ e.server = old.server /\ e.encore = old.encore
        /\ e.extra = old.extra
    BY <1>2 DEF RequestRecord
  <1> HIDE DEF e
  <1>9. CASE stack[r] = <<>>
    <2>1. UNCHANGED <<stack, spans>>
      BY <1>1, <1>9
    <2>2. stack' \in [Requests -> Seq(Frame)] /\ spans' \in Seq(SpanRecord) /\ Len(spans') = Len(spans)
      BY <2>1, TypesOf
    <2>3. TypeOK' /\ req'[r] = e /\ Others(r)
      BY <1>2, <1>7, <2>2, ClosingTyped
    <2>4. old.server = 0
      BY <1>1, <1>9 DEF IInv, Framed, old
    <2>5. /\ req'[r].server = req[r].server /\ req'[r].encore = req[r].encore
          /\ req'[r].kind = req[r].kind /\ req'[r].stage = "done" /\ req'[r].server = 0
          /\ req[r].stage # "idle"
      BY <1>1, <1>7, <1>8, <2>3, <2>4 DEF old
    <2>6. IInv'
      BY <1>9, <2>1, <2>3, <2>5, QuietPreserves
    <2> QED
      BY <2>3, <2>6
  <1>10. CASE stack[r] # <<>>
    <2>1. End(Top(r).span, old.recorded, error) /\ Pop(r)
      BY <1>1, <1>10
    <2>2. Top(r).span \in DOMAIN spans
      BY <1>10, TopFacts
    <2>3. Top(r).form \notin Service
      <3>1. Len(stack[r]) \in DOMAIN stack[r]
        <4>1. stack[r] \in Seq(Frame)
          BY TypesOf
        <4> QED
          BY <1>10, <4>1
      <3>2. Top(r).form \in Middleware
        BY <1>1, <3>1 DEF AtMiddleware, Top
      <3> QED
        BY <3>2 DEF Middleware, Service
    <2>4. EndChanges(r, old.recorded, error)
      <3>1. old.recorded \in Codes \cup {0, 200, 500} /\ error \in BOOLEAN
        BY <1>3, <1>5 DEF Outcome
      <3>2. PICK status \in Codes \cup {0, 200, 500} : status = old.recorded
        BY <3>1
      <3>3. End(Top(r).span, status, error)
        BY <2>1, <3>2
      <3>4. EndChanges(r, status, error)
        BY <1>10, <2>1, <2>2, <3>1, <3>3, Ending
      <3> QED
        BY <3>2, <3>4
    <2>5. stack' \in [Requests -> Seq(Frame)] /\ spans' \in Seq(SpanRecord) /\ Len(spans') = Len(spans)
      BY <2>4 DEF EndChanges
    <2>6. TypeOK' /\ req'[r] = e /\ Others(r)
      BY <1>2, <1>7, <2>5, ClosingTyped
    <2>7. /\ req'[r].server = req[r].server /\ req'[r].encore = req[r].encore
          /\ req'[r].kind = req[r].kind /\ req'[r].stage = "done" /\ req[r].stage = "running"
          /\ ~req'[r].extra => /\ old.recorded = req'[r].wire \/ (req'[r].err /\ error)
                               /\ error <=> req'[r].wire >= 400 \/ req'[r].err
      BY <1>1, <1>6, <1>7, <1>8, <2>6 DEF old
    <2>8. IInv'
      BY <1>10, <2>3, <2>4, <2>6, <2>7, ClosingPreserves
    <2> QED
      BY <2>6, <2>8
  <1> QED
    BY <1>9, <1>10

LEMMA PanicStep ==
    ASSUME TypeOK, IInv, NEW r \in Requests, Panic(r)
    PROVE  TypeOK' /\ IInv'
  <1>1. /\ req[r].stage = "running" /\ req' = [req EXCEPT ![r].stage = "panicking"]
        /\ UNCHANGED <<stack, spans>> /\ "panicking" \in Stage
    BY DEF Panic, Stage
  <1>2. stack' \in [Requests -> Seq(Frame)] /\ spans' \in Seq(SpanRecord) /\ Len(spans') = Len(spans)
    BY <1>1, TypesOf
  <1>3. /\ TypeOK' /\ Others(r)
        /\ req'[r].stage = "panicking" /\ req'[r].kind = req[r].kind
        /\ req'[r].server = req[r].server /\ req'[r].encore = req[r].encore
    BY <1>1, <1>2, Staged
  <1>4. IInv'
    BY <1>1, <1>3, QuietPreserves
  <1> QED
    BY <1>3, <1>4

LEMMA UnwindStep ==
    ASSUME TypeOK, IInv, NEW r \in Requests, Unwind(r)
    PROVE  TypeOK' /\ IInv'
  <1>1. req[r].stage = "panicking"
    BY DEF Unwind
  <1>2. CASE stack[r] = <<>>
    <2>1. /\ req' = [req EXCEPT ![r].stage = "aborted"] /\ UNCHANGED <<stack, spans>>
          /\ "aborted" \in Stage
      BY <1>2 DEF Unwind, Stage
    <2>2. stack' \in [Requests -> Seq(Frame)] /\ spans' \in Seq(SpanRecord) /\ Len(spans') = Len(spans)
      BY <2>1, TypesOf
    <2>3. /\ TypeOK' /\ Others(r)
          /\ req'[r].stage = "aborted" /\ req'[r].kind = req[r].kind
          /\ req'[r].server = req[r].server /\ req'[r].encore = req[r].encore
      BY <2>1, <2>2, Staged
    <2>4. IInv'
      BY <1>1, <1>2, <2>1, <2>3, QuietPreserves
    <2> QED
      BY <2>3, <2>4
  <1>3. CASE stack[r] # <<>>
    <2> DEFINE error == FALSE
    <2>1. End(Top(r).span, 0, error) /\ Pop(r) /\ UNCHANGED req /\ error \in BOOLEAN
      BY <1>3 DEF Unwind
    <2> HIDE DEF error
    <2>2. Top(r).span \in DOMAIN spans
      BY <1>3, TopFacts
    <2>3. EndChanges(r, 0, error)
      BY <1>3, <2>1, <2>2, Ending
    <2>4. stack' \in [Requests -> Seq(Frame)] /\ spans' \in Seq(SpanRecord) /\ Len(spans') = Len(spans)
      BY <2>3 DEF EndChanges
    <2>5. TypeOK'
      BY <2>1, <2>4, TypesOf, TypesOfNext
    <2>6. Others(r) /\ req'[r].stage = "panicking"
      BY <1>1, <2>1 DEF Others
    <2>7. /\ req'[r].server = req[r].server /\ req'[r].encore = req[r].encore
          /\ req'[r].kind = req[r].kind
      BY <2>1
    <2>8. IInv'
      BY <1>1, <1>3, <2>3, <2>6, <2>7, ClosingPreserves
    <2> QED
      BY <2>5, <2>8
  <1> QED
    BY <1>2, <1>3

LEMMA StepPreserves == TypeOK /\ IInv /\ [Next]_vars => TypeOK' /\ IInv'
  <1> SUFFICES ASSUME TypeOK, IInv, [Next]_vars PROVE TypeOK' /\ IInv'
    OBVIOUS
  <1>1. CASE HTTPTracing \/ EchoTracing
    <2>1. "http" \in Middleware /\ "echo" \in Middleware
      BY DEF Middleware
    <2> QED
      BY <1>1, <2>1, ArriveStep DEF HTTPTracing, EchoTracing
  <1>2. CASE EncoreStart
    <2>1. ASSUME NEW r \in Requests, NEW id \in EncoreIds, NEW span \in EncoreIds,
                 StartSpan(r, id) \/ StartSpanWithParent(r, id, span)
          PROVE  TypeOK' /\ IInv'
      <3>1. CASE StartSpan(r, id)
        BY <3>1, EncoreStep DEF StartSpan
      <3>2. CASE StartSpanWithParent(r, id, span)
        <4>1. PICK below \in BOOLEAN : StartEncore(r, id, below)
          BY <3>2, Zenon DEF StartSpanWithParent
        <4> QED
          BY <4>1, EncoreStep
      <3> QED
        BY <2>1, <3>1, <3>2
    <2> QED
      BY <1>2, <2>1 DEF EncoreStart
  <1>3. ASSUME NEW r \in Requests, HandlerStep(r) PROVE TypeOK' /\ IInv'
    <2>1. CASE \E code \in Codes : WriteHeader(r, code)
      BY <2>1, WriteHeaderStep
    <2>2. CASE Write(r)
      BY <2>2, WriteStep
    <2>3. CASE Trace(r) \/ WithSpan(r) \/ WithSpanResult(r)
      <3>1. "Trace" \in Service /\ "WithSpan" \in Service
        BY DEF Service
      <3> QED
        BY <2>3, <3>1, EnterStep DEF Trace, WithSpan, WithSpanResult
    <2>4. CASE \E err \in BOOLEAN : Leave(r, err) \/ Return(r, err)
      BY <2>4, LeaveStep, ReturnStep
    <2>5. CASE Panic(r) \/ Unwind(r)
      BY <2>5, PanicStep, UnwindStep
    <2> QED
      BY <1>3, <2>1, <2>2, <2>3, <2>4, <2>5 DEF HandlerStep
  <1>4. CASE UNCHANGED vars
    <2>1. UNCHANGED <<req, stack, spans>>
      BY <1>4 DEF vars
    <2>2. TypeOK'
      BY <2>1, TypesOf, TypesOfNext
    <2>3. IInv'
      BY <2>1 DEF IInv, Framed, FramesAreOpen, FramesGrow, OpenIsFramed,
             OwnersArrived, ServerIsOwn, ParentIsOwn, InServerTrace, InEncoreTrace,
             RecordedIsWire, SpanTellsOutcome, Completed, EncoreTrace, TraceAt, ConvertTraceID,
             NoTrace
    <2> QED
      BY <2>2, <2>3
  <1> QED
    BY <1>1, <1>2, <1>3, <1>4 DEF Next

LEMMA Invariants == Spec => [](TypeOK /\ IInv)
  <1>1. Init => TypeOK
    <2> SUFFICES ASSUME Init PROVE TypeOK
      OBVIOUS
    <2>1. spans = <<>> /\ Len(spans) = 0 /\ stack = [r \in Requests |-> <<>>]
          /\ req = [r \in Requests |-> NoRequest]
      BY DEF Init
    <2>2. NoRequest \in RequestRecord(0)
      BY NoRequestTyped
    <2> QED
      BY <2>1, <2>2, BoundsAssumption, TypesOf
  <1> QED
    BY <1>1, Established, StepPreserves, PTL DEF Spec

----------------------------------------------------------------------------
(* The variables keep their types: no frame names a span that was not        *)
(* started, and what the middleware recorded is a status somebody sent.      *)
THEOREM TypeCorrect == Spec => []TypeOK
  BY Invariants, PTL

(* No span outlives its request, whether the handler returned or panicked,   *)
(* and none ends before the spans below it.                                  *)
THEOREM SpansNested == Spec => []SpansEndInside
  <1>1. TypeOK /\ IInv => SpansEndInside
    <2> SUFFICES ASSUME TypeOK, IInv, NEW s \in DOMAIN spans
                 PROVE  /\ req[spans[s].owner].stage \in {"done", "aborted"} => spans[s].ended
                        /\ \A t \in DOMAIN spans :
                              spans[t].parent = s /\ spans[s].ended => spans[t].ended
      BY DEF SpansEndInside
    <2>1. req[spans[s].owner].stage \in {"done", "aborted"} => spans[s].ended
      <3>1. req[spans[s].owner].stage \in {"done", "aborted"} =>
              stack[spans[s].owner] = <<>> /\ DOMAIN stack[spans[s].owner] = {}
        BY SpanFacts DEF IInv, Framed
      <3> QED
        BY <3>1 DEF IInv, OpenIsFramed
    <2>2. s # 0
      BY SpanFacts
    <2>3. \A t \in DOMAIN spans : spans[t].parent = s /\ spans[s].ended => spans[t].ended
      BY <2>2 DEF IInv, ParentIsOwn
    <2> QED
      BY <2>1, <2>3
  <1> QED
    BY <1>1, Invariants, PTL

(* All work of a traced request is below its server span and in its trace,   *)
(* whichever requests run beside it.                                         *)
THEOREM TracesUnbroken == Spec => []OneTracePerRequest
  <1>1. IInv => OneTracePerRequest
    BY DEF IInv, InServerTrace, OneTracePerRequest
  <1> QED
    BY <1>1, Invariants, PTL

(* What an identifier converts to, digit by digit: two that are not Invalid  *)
(* convert to the same trace if they agree as far as ours reach, and one     *)
(* converts to no trace if it is none.                                       *)
LEMMA Converted ==
    ASSUME NEW id \in Bytes
    PROVE  /\ id # Invalid /\ ConvertTraceID(id) = [i \in 1..Width |-> Digit(id, i)]
           /\ Len(id) = Width => ConvertTraceID(id) = id
  <1>1. PICK n \in 0..Width + 1 : id \in [1..n -> Byte]
    BY DEF Bytes
  <1>2. n \in Nat /\ Len(id) = n /\ DOMAIN id = 1..n
    BY <1>1, BoundsAssumption
  <1>3. id # Invalid
    BY InvalidAssumption
  <1>4. \A i \in 1..Width : i <= Len(id) <=> i \in DOMAIN id
    BY <1>2, BoundsAssumption
  <1>5. ConvertTraceID(id) = [i \in 1..Width |-> Digit(id, i)]
    BY <1>3, <1>4 DEF ConvertTraceID, Digit
  <1>6. Len(id) = Width => ConvertTraceID(id) = id
    <2>1. Len(id) = Width => \A i \in 1..Width : i \in DOMAIN id
      BY <1>2
    <2>2. Len(id) = Width => DOMAIN id = 1..Width
      BY <1>2
    <2> QED
      BY <1>1, <1>2, <1>5, <2>1, <2>2 DEF Digit
  <1> QED
    BY <1>3, <1>5, <1>6

LEMMA ConvertedIsNone ==
    ASSUME NEW id \in Bytes \cup {Invalid}
    PROVE  NoIdentifier(id) <=> ConvertTraceID(id) = NoTrace
  <1>1. CASE id = Invalid
    BY <1>1 DEF NoIdentifier, ConvertTraceID
  <1>2. CASE id \in Bytes
    BY <1>2, Converted DEF NoIdentifier, NoTrace
  <1> QED
    BY <1>1, <1>2

LEMMA ConvertedMeet ==
    ASSUME NEW a \in Bytes \cup {Invalid}, NEW b \in Bytes \cup {Invalid}
    PROVE  Meet(a, b) <=> /\ ConvertTraceID(a) # NoTrace
                          /\ ConvertTraceID(a) = ConvertTraceID(b)
  <1>1. CASE NoIdentifier(a) \/ NoIdentifier(b)
    BY <1>1, ConvertedIsNone DEF Meet
  <1>2. CASE ~NoIdentifier(a) /\ ~NoIdentifier(b)
    <2>1. a \in Bytes /\ b \in Bytes
      BY <1>2 DEF NoIdentifier
    <2>2. /\ ConvertTraceID(a) = [i \in 1..Width |-> Digit(a, i)]
          /\ ConvertTraceID(b) = [i \in 1..Width |-> Digit(b, i)]
      BY <2>1, Converted
    <2>3. ConvertTraceID(a) = ConvertTraceID(b) <=> \A i \in 1..Width : Digit(a, i) = Digit(b, i)
      BY <2>2
    <2> QED
      BY <1>2, <2>3, ConvertedIsNone DEF Meet
  <1> QED
    BY <1>1, <1>2

(* Spans of requests through Encore share a trace exactly if the requests    *)
(* are one or their identifiers agree as far as ours reach, and a full one   *)
(* is the trace Encore has the request in.                                   *)
THEOREM EncoreTracesMeet == Spec => []EncoreCorrelates
  <1>1. TypeOK /\ IInv => EncoreCorrelates
    <2> SUFFICES ASSUME TypeOK, IInv, NEW s \in DOMAIN spans, NEW t \in DOMAIN spans,
                        NEW r, r = spans[s].owner, NEW q, q = spans[t].owner,
                        NEW id, id = req[r].encore, req[r].kind = "encore", req[q].kind = "encore"
                 PROVE  /\ spans[s].trace = spans[t].trace <=> r = q \/ Meet(id, req[q].encore)
                        /\ ~NoIdentifier(id) /\ Len(id) = Width =>
                             spans[s].trace = [new |-> 0, id |-> id]
                        /\ req[r].below /\ spans[s].trace.new # 0 => NoIdentifier(id)
      BY DEF EncoreCorrelates
    <2> DEFINE id2 == req[q].encore
               own == req[r].server
               own2 == req[q].server
    <2>1. r \in Requests /\ q \in Requests
      BY SpanFacts
    <2>2. id \in Bytes \cup {Invalid} /\ id2 \in Bytes \cup {Invalid}
      BY <2>1, TypesOf DEF RequestRecord, Identifier
    <2>3. own # 0 /\ own2 # 0
      BY <2>1 DEF IInv, InEncoreTrace
    <2>4. r # q => own # own2
      BY <2>1, <2>3 DEF IInv, ServerIsOwn
    <2>5. spans[s].trace = TraceAt(own, ConvertTraceID(id))
      BY <2>1, <2>3 DEF IInv, InServerTrace, InEncoreTrace, EncoreTrace
    <2>6. spans[t].trace = TraceAt(own2, ConvertTraceID(id2))
      BY <2>1, <2>3 DEF IInv, InServerTrace, InEncoreTrace, EncoreTrace
    <2>7. r = q => id = id2 /\ own = own2
      OBVIOUS
    <2>8. Meet(id, id2) <=> /\ ConvertTraceID(id) # NoTrace
                            /\ ConvertTraceID(id) = ConvertTraceID(id2)
      BY <2>2, ConvertedMeet
    <2> HIDE DEF own, own2, id2
    <2>9. spans[s].trace = spans[t].trace <=> r = q \/ Meet(id, id2)
      BY <2>3, <2>4, <2>5, <2>6, <2>7, <2>8 DEF TraceAt
    <2>10. ~NoIdentifier(id) /\ Len(id) = Width => spans[s].trace = [new |-> 0, id |-> id]
      <3> SUFFICES ASSUME ~NoIdentifier(id), Len(id) = Width
                   PROVE  spans[s].trace = [new |-> 0, id |-> id]
        OBVIOUS
      <3>1. id \in Bytes
        BY <2>2 DEF NoIdentifier
      <3>2. ConvertTraceID(id) = id /\ ConvertTraceID(id) # NoTrace
        BY <2>2, <3>1, Converted, ConvertedIsNone
      <3> QED
        BY <2>5, <3>2 DEF TraceAt
    <2>11. spans[s].trace.new # 0 => NoIdentifier(id)
      BY <2>2, <2>5, ConvertedIsNone DEF TraceAt
    <2> QED
      BY <2>9, <2>10, <2>11 DEF id2
  <1> QED
    BY <1>1, Invariants, PTL

(* The server span of a completed request has the status the client got and  *)
(* is marked as failed exactly when the request failed.                      *)
THEOREM OutcomesTold == Spec => []SpanTellsOutcome
  <1>1. IInv => SpanTellsOutcome
    BY DEF IInv
  <1> QED
    BY <1>1, Invariants, PTL
=============================================================================
