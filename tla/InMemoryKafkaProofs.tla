------------------------ MODULE InMemoryKafkaProofs ------------------------
(***************************************************************************)
(* Proofs about InMemoryKafka, for any topics, subscribers, capacity and   *)
(* batches.  The properties speak of channels and handlers; IInv adds how  *)
(* far the running PublishBatch has got with each of them.                 *)
(***************************************************************************)
EXTENDS InMemoryKafka, SequenceTheorems, FiniteSetTheorems, TLAPS

(* The running batch is the end of what was published and of its topic, and *)
(* its two loops are within their bounds.                                   *)
BatchShape ==
    pub # None =>
        /\ pub.sub \in 1..Len(subscribers[pub.topic])
        /\ pub.i < pub.size
        /\ pub.first + pub.size = Len(published) + 1
        /\ pub.size <= Len(topics[pub.topic])
        /\ \A j \in 0..(pub.size - 1) :
             topics[pub.topic][Len(topics[pub.topic]) - pub.size + j + 1]
               = pub.first + j

StoreWithinBound == \A t \in Topic : Len(topics[t]) <= Len(published)

(* A Subscribe call registers its channel once per topic.                   *)
RegisteredOnce ==
    \A t \in Topic : \A j, k \in 1..Len(subscribers[t]) :
        /\ pc[subscribers[t][j]] # "idle"
        /\ subscribers[t][j] = subscribers[t][k] => j = k

HandlerHasMessage == \A s \in Subscriber : pc[s] = "handle" => msg[s] # None

(* A channel holds increasing messages, all later than what has left it.    *)
QueueIncreasing ==
    \A s \in Subscriber : \A k \in 1..Len(chan[s]) :
        /\ \A j \in 1..Len(chan[s]) : j < k => chan[s][j].id < chan[s][k].id
        /\ pc[s] = "handle" => msg[s].id < chan[s][k].id
        /\ \A m \in seen[s] : m < chan[s][k].id

(* Nothing that reached subscriber s is as late as b.                       *)
AllBelow(s, b) ==
    /\ \A k \in 1..Len(chan[s]) : chan[s][k].id < b
    /\ pc[s] = "handle" => msg[s].id < b
    /\ \A m \in seen[s] : m < b

(* Nothing is sent before it is published or out of turn.                   *)
SentInTurn ==
    /\ \A s \in Subscriber : AllBelow(s, Len(published) + 1)
    /\ pub # None =>
         \A k \in 1..Len(subscribers[pub.topic]) :
             /\ k > pub.sub =>
                  AllBelow(subscribers[pub.topic][k], pub.first)
             /\ k = pub.sub =>
                  AllBelow(subscribers[pub.topic][k], pub.first + pub.i)

IInv ==
    /\ TypeOK
    /\ BatchShape
    /\ StoreWithinBound
    /\ RegisteredOnce
    /\ HandlerHasMessage
    /\ QueueIncreasing
    /\ SentInTurn
    /\ HandledInOrder
    /\ OffsetIsIndex

----------------------------------------------------------------------------
(* The second part of a concatenation follows the first.                    *)
LEMMA ConcatSecond ==
    ASSUME NEW S, NEW p \in Seq(S), NEW q \in Seq(S), NEW k \in 1..Len(q)
    PROVE  (p \o q)[Len(p) + k] = q[k]
<1>1. Len(p) \in Nat /\ Len(q) \in Nat /\ k \in Nat \ {0}
  OBVIOUS
<1>2. PICK n \in Nat : n = Len(p) + k
  BY <1>1
<1>3. n \in 1..(Len(p) + Len(q)) /\ ~ (n <= Len(p)) /\ n - Len(p) = k
  BY <1>1, <1>2
<1>4. (p \o q)[n] = q[k]
  BY <1>3, ConcatProperties
<1> QED  BY <1>2, <1>4

(* The messages and topics of a batch are sequences of its length.          *)
LEMMA BatchSequences ==
    ASSUME TypeOK, NEW t \in Topic, NEW n \in 1..MaxBatch,
           MaxBatch \in Nat,
           Len(published) + n <= MaxMessages
    PROVE  /\ [j \in 1..n |-> Len(published) + j] \in Seq(Message)
           /\ Len([j \in 1..n |-> Len(published) + j]) = n
           /\ [j \in 1..n |-> t] \in Seq(Topic)
           /\ Len([j \in 1..n |-> t]) = n
<1>1. n \in Nat /\ Len(published) \in Nat /\ MaxMessages \in Nat
  BY BoundsAssumption DEF TypeOK
<1>2. \A j \in 1..n : Len(published) + j \in Message
  BY <1>1 DEF Message
<1>3. [j \in 1..n |-> Len(published) + j] \in [1..n -> Message]
  BY <1>2
<1>4. [j \in 1..n |-> t] \in [1..n -> Topic]
  OBVIOUS
<1>5. \A S : [1..n -> S] \subseteq Seq(S)
  BY <1>1, SeqDef
<1> QED  BY <1>1, <1>3, <1>4, <1>5, LenProperties

(* Where the loops of a PublishBatch go after a send.                       *)
LEMMA AdvanceCases ==
    ASSUME IInv, pub # None
    PROVE  \/ Advance = None
           \/ /\ Advance = [pub EXCEPT !.i = @ + 1]
              /\ Advance \in Batch
              /\ pub.i + 1 < pub.size
           \/ /\ Advance = [pub EXCEPT !.sub = @ + 1, !.i = 0]
              /\ Advance \in Batch
              /\ pub.sub < Len(subscribers[pub.topic])
<1>1. pub \in Batch
  BY DEF IInv, TypeOK
<1>2. pub.i + 1 \in Nat /\ pub.sub + 1 \in Nat
  BY <1>1 DEF Batch
<1>3. [pub EXCEPT !.i = @ + 1] \in Batch
  BY <1>1, <1>2 DEF Batch
<1>4. [pub EXCEPT !.sub = @ + 1, !.i = 0] \in Batch
  BY <1>1, <1>2 DEF Batch
<1> QED  BY <1>3, <1>4 DEF Advance, NextSubscriber

(* The message on its way and the channel it goes to.                       *)
LEMMA OutgoingShape ==
    ASSUME IInv, pub # None
    PROVE  /\ Target \in Subscriber
           /\ Outgoing \in Entry
           /\ Outgoing.id = pub.first + pub.i
           /\ Outgoing.id <= Len(published)
           /\ Outgoing.offset < Len(topics[Outgoing.topic])
           /\ topics[Outgoing.topic][Outgoing.offset + 1] = Outgoing.id
<1>1. /\ pub \in Batch /\ pub.topic \in Topic /\ pub.first \in Nat \ {0}
      /\ pub.size \in Nat \ {0} /\ pub.sub \in Nat /\ pub.i \in Nat
  <2>1. pub \in Batch
    BY DEF IInv, TypeOK
  <2> QED  BY <2>1 DEF Batch, Message
<1>2. /\ Len(published) \in Nat /\ Len(published) <= MaxMessages
      /\ Len(topics[pub.topic]) \in Nat
      /\ Len(topics[pub.topic]) <= Len(published)
      /\ topics[pub.topic] \in Seq(Message)
      /\ subscribers[pub.topic] \in Seq(Subscriber)
  BY <1>1 DEF IInv, TypeOK, StoreWithinBound
<1>3. /\ pub.i < pub.size
      /\ pub.first + pub.size = Len(published) + 1
      /\ pub.size <= Len(topics[pub.topic])
      /\ pub.sub \in 1..Len(subscribers[pub.topic])
  BY DEF IInv, BatchShape
<1>8. topics[pub.topic][Len(topics[pub.topic]) - pub.size + pub.i + 1]
        = pub.first + pub.i
  <2>1. pub.i \in 0..(pub.size - 1)
    BY <1>1, <1>3
  <2> QED  BY <2>1 DEF IInv, BatchShape
<1>4. Target \in Subscriber
  BY <1>2, <1>3 DEF Target
<1>5. pub.first + pub.i \in Message
  <2>1. MaxMessages \in Nat
    BY BoundsAssumption
  <2>2. pub.first + pub.i \in Nat /\ 1 <= pub.first + pub.i
    BY <1>1
  <2>3. pub.first + pub.i <= MaxMessages
    BY <1>1, <1>2, <1>3, <2>1
  <2> QED  BY <2>1, <2>2, <2>3 DEF Message
<1>6. /\ Len(topics[pub.topic]) - pub.size + pub.i \in 0..MaxMessages
      /\ Len(topics[pub.topic]) - pub.size + pub.i < Len(topics[pub.topic])
  <2>1. PICK L \in Nat : L = Len(topics[pub.topic])
    BY <1>2
  <2>2. L <= MaxMessages /\ MaxMessages \in Nat
    BY <1>2, <2>1, BoundsAssumption
  <2>3. L - pub.size + pub.i \in 0..MaxMessages /\ L - pub.size + pub.i < L
    BY <1>1, <1>3, <2>1, <2>2
  <2> QED  BY <2>1, <2>3
<1>7. Outgoing \in Entry
  BY <1>1, <1>5, <1>6 DEF Outgoing, Entry
<1>9. /\ Outgoing.topic = pub.topic
      /\ Outgoing.offset = Len(topics[pub.topic]) - pub.size + pub.i
      /\ Outgoing.id = pub.first + pub.i
  BY DEF Outgoing
<1>10. pub.first + pub.i <= Len(published)
  BY <1>1, <1>2, <1>3
<1> QED  BY <1>1, <1>4, <1>6, <1>7, <1>8, <1>9, <1>10

----------------------------------------------------------------------------
LEMMA InitInv == Init => IInv
<1> SUFFICES ASSUME Init PROVE IInv
  OBVIOUS
<1> USE DEF Init
<1>1. TypeOK
  <2>1. MaxMessages \in Nat /\ <<>> \in Seq(Topic) /\ Len(<<>>) = 0
    BY BoundsAssumption
  <2>2. /\ [t \in Topic |-> <<>>] \in [Topic -> Seq(Message)]
        /\ [t \in Topic |-> <<>>] \in [Topic -> Seq(Subscriber)]
        /\ [s \in Subscriber |-> <<>>] \in [Subscriber -> Seq(Entry)]
    BY EmptySeq
  <2>3. 1 \in 1..(MaxMessages + 1) /\ 0 \in 0..MaxMessages
    BY <2>1
  <2>4. /\ topics \in [Topic -> Seq(Message)]
        /\ subscribers \in [Topic -> Seq(Subscriber)]
        /\ chan \in [Subscriber -> Seq(Entry)]
    BY <2>2
  <2>5. published \in Seq(Topic) /\ Len(published) <= MaxMessages
    BY <2>1
  <2>6. /\ pub \in Batch \cup {None}
        /\ pc \in [Subscriber -> {"idle", "select", "handle", "returned"}]
        /\ msg \in [Subscriber -> Entry \cup {None}]
        /\ cancelled \in [Subscriber -> BOOLEAN]
    OBVIOUS
  <2>7. /\ since \in [Subscriber -> 1..(MaxMessages + 1)]
        /\ cleared \in 0..MaxMessages
    BY <2>3
  <2>8. /\ seen \in [Subscriber -> SUBSET Message]
        /\ skipped \in [Subscriber -> SUBSET Message]
    OBVIOUS
  <2> HIDE DEF Init
  <2> QED  BY <2>4, <2>5, <2>6, <2>7, <2>8 DEF TypeOK
<1>2. BatchShape
  BY DEF BatchShape
<1>3. StoreWithinBound /\ RegisteredOnce /\ HandlerHasMessage
  BY DEF StoreWithinBound, RegisteredOnce, HandlerHasMessage
<1>4. QueueIncreasing
  BY DEF QueueIncreasing
<1>5. SentInTurn
  BY DEF SentInTurn, AllBelow
<1>6. HandledInOrder /\ OffsetIsIndex
  BY DEF HandledInOrder, OffsetIsIndex
<1> QED  BY <1>1, <1>2, <1>3, <1>4, <1>5, <1>6 DEF IInv

----------------------------------------------------------------------------
(* Steps that touch neither messages nor channels.                          *)
Quiet == \E s \in Subscriber : Leave(s) \/ Cancel(s)

LEMMA QuietFrame ==
    ASSUME TypeOK, Quiet
    PROVE  /\ UNCHANGED <<storeVars, chan, msg, published, since, seen,
                          skipped, cleared>>
           /\ \A s \in Subscriber :
                \/ pc'[s] = pc[s]
                \/ pc[s] = "select" /\ pc'[s] = "returned"
           /\ TypeOK'
<1>1. CASE \E s \in Subscriber : Leave(s)
  <2>1. PICK s \in Subscriber : Leave(s)
    BY <1>1
  <2> USE DEF Leave, storeVars, historyVars
  <2>2. pc' \in [Subscriber -> {"idle", "select", "handle", "returned"}]
    BY <2>1 DEF TypeOK
  <2> QED  BY <2>1, <2>2 DEF TypeOK
<1>2. CASE \E s \in Subscriber : Cancel(s)
  <2>1. PICK s \in Subscriber : Cancel(s)
    BY <1>2
  <2> QED  BY <2>1 DEF Cancel, TypeOK, storeVars, historyVars
<1> QED  BY <1>1, <1>2 DEF Quiet

(* A subscriber's turn is not over because it takes what it was sent.       *)
LEMMA TurnKept ==
    ASSUME IInv, UNCHANGED <<storeVars, published>>,
           \A s \in Subscriber, b \in Int : AllBelow(s, b) => AllBelow(s, b)'
    PROVE  SentInTurn'
<1>1. Len(published) + 1 \in Int
  BY DEF IInv, TypeOK
<1>2. ASSUME pub # None, NEW k \in 1..Len(subscribers[pub.topic])
      PROVE  /\ subscribers[pub.topic][k] \in Subscriber
             /\ pub.first \in Int /\ pub.first + pub.i \in Int
  BY <1>2 DEF IInv, TypeOK, Batch, Message
<1>3. ASSUME NEW s \in Subscriber
      PROVE  AllBelow(s, Len(published) + 1)'
  BY <1>1 DEF IInv, SentInTurn
<1>4. ASSUME pub # None, NEW k \in 1..Len(subscribers[pub.topic])
      PROVE  /\ k > pub.sub =>
                  AllBelow(subscribers[pub.topic][k], pub.first)'
             /\ k = pub.sub =>
                  AllBelow(subscribers[pub.topic][k], pub.first + pub.i)'
  BY <1>2, <1>4 DEF IInv, SentInTurn, storeVars
<1> QED  BY <1>3, <1>4 DEF SentInTurn, storeVars

LEMMA QuietInv == ASSUME IInv, Quiet PROVE IInv'
<1>1. /\ UNCHANGED <<topics, subscribers, pub, chan, msg, published, seen,
                      cleared>>
      /\ \A s \in Subscriber :
           \/ pc'[s] = pc[s]
           \/ pc[s] = "select" /\ pc'[s] = "returned"
      /\ TypeOK'
  BY QuietFrame DEF IInv, storeVars
<1>2. BatchShape' /\ StoreWithinBound'
  BY <1>1 DEF IInv, BatchShape, StoreWithinBound
<1>3. RegisteredOnce'
  <2>1. \A t \in Topic : \A j \in 1..Len(subscribers[t]) :
          subscribers[t][j] \in Subscriber
    BY DEF IInv, TypeOK
  <2> QED  BY <1>1, <2>1 DEF IInv, RegisteredOnce
<1>4. HandlerHasMessage' /\ HandledInOrder'
  BY <1>1 DEF IInv, HandlerHasMessage, HandledInOrder
<1>5. QueueIncreasing'
  BY <1>1 DEF IInv, QueueIncreasing
<1>6. SentInTurn'
  <2>1. \A s \in Subscriber, b \in Int : AllBelow(s, b) => AllBelow(s, b)'
    BY <1>1 DEF AllBelow
  <2> QED  BY <1>1, <2>1, TurnKept DEF storeVars
<1>7. OffsetIsIndex'
  BY <1>1 DEF IInv, OffsetIsIndex
<1> QED  BY <1>1, <1>2, <1>3, <1>4, <1>5, <1>6, <1>7 DEF IInv

LEMMA HandleInv == ASSUME IInv, NEW s \in Subscriber, Handle(s) PROVE IInv'
<1>1. /\ UNCHANGED <<topics, subscribers, pub, chan, published, cleared>>
      /\ pc[s] = "handle" /\ msg[s] # None /\ msg[s].id \in Message
      /\ \A r \in Subscriber :
           /\ r # s => pc'[r] = pc[r] /\ msg'[r] = msg[r] /\ seen'[r] = seen[r]
           /\ r = s => pc'[r] = "select"
                       /\ seen'[r] = seen[r] \cup {msg[r].id}
  BY DEF Handle, IInv, TypeOK, HandlerHasMessage, storeVars, Entry
<1>2. TypeOK'
  <2>1. seen' \in [Subscriber -> SUBSET Message]
    BY <1>1 DEF IInv, TypeOK, Handle
  <2>2. /\ msg' \in [Subscriber -> Entry \cup {None}]
        /\ pc' \in [Subscriber -> {"idle", "select", "handle", "returned"}]
    BY DEF IInv, TypeOK, Handle
  <2> QED  BY <2>1, <2>2 DEF IInv, TypeOK, Handle, storeVars
<1>3. BatchShape' /\ StoreWithinBound'
  BY <1>1 DEF IInv, BatchShape, StoreWithinBound
<1>4. RegisteredOnce'
  <2>1. \A t \in Topic : \A j \in 1..Len(subscribers[t]) :
          subscribers[t][j] \in Subscriber
    BY DEF IInv, TypeOK
  <2> QED  BY <1>1, <2>1 DEF IInv, RegisteredOnce
<1>5. HandlerHasMessage' /\ HandledInOrder'
  BY <1>1 DEF IInv, HandlerHasMessage, HandledInOrder
<1>6. QueueIncreasing'
  BY <1>1 DEF IInv, QueueIncreasing
<1>7. SentInTurn'
  <2>1. \A r \in Subscriber, b \in Int : AllBelow(r, b) => AllBelow(r, b)'
    BY <1>1 DEF AllBelow
  <2> QED  BY <1>1, <2>1, TurnKept DEF storeVars
<1>8. OffsetIsIndex'
  BY <1>1 DEF IInv, OffsetIsIndex
<1> QED  BY <1>2, <1>3, <1>4, <1>5, <1>6, <1>7, <1>8 DEF IInv

LEMMA ReceiveInv == ASSUME IInv, NEW s \in Subscriber, Receive(s) PROVE IInv'
<1>1. /\ UNCHANGED <<topics, subscribers, pub, published, cleared, seen>>
      /\ pc[s] = "select" /\ chan[s] # <<>> /\ chan[s] \in Seq(Entry)
      /\ \A r \in Subscriber :
           /\ r # s => pc'[r] = pc[r] /\ msg'[r] = msg[r] /\ chan'[r] = chan[r]
           /\ r = s => /\ pc'[r] = "handle"
                       /\ msg'[r] = Head(chan[r])
                       /\ chan'[r] = Tail(chan[r])
  BY DEF Receive, IInv, TypeOK, storeVars, historyVars
<1>2. /\ Head(chan[s]) = chan[s][1] /\ chan[s][1] \in Entry
      /\ Len(chan[s]) \in Nat \ {0}
      /\ Tail(chan[s]) \in Seq(Entry)
      /\ Len(Tail(chan[s])) = Len(chan[s]) - 1
      /\ \A k \in 1..Len(Tail(chan[s])) : Tail(chan[s])[k] = chan[s][k + 1]
  BY <1>1, HeadTailProperties
<1>3. TypeOK'
  <2>1. chan' \in [Subscriber -> Seq(Entry)]
    BY <1>1, <1>2 DEF IInv, TypeOK, Receive
  <2>2. /\ msg' \in [Subscriber -> Entry \cup {None}]
        /\ pc' \in [Subscriber -> {"idle", "select", "handle", "returned"}]
    BY <1>2 DEF IInv, TypeOK, Receive
  <2> QED  BY <2>1, <2>2 DEF IInv, TypeOK, Receive, storeVars, historyVars
<1>4. BatchShape' /\ StoreWithinBound'
  BY <1>1 DEF IInv, BatchShape, StoreWithinBound
<1>5. RegisteredOnce'
  <2>1. \A t \in Topic : \A j \in 1..Len(subscribers[t]) :
          subscribers[t][j] \in Subscriber
    BY DEF IInv, TypeOK
  <2> QED  BY <1>1, <2>1 DEF IInv, RegisteredOnce
<1>6. HandlerHasMessage'
  BY <1>1, <1>2, NoneAssumption DEF IInv, HandlerHasMessage
<1>7. /\ \A m \in seen[s] : m < chan[s][1].id
      /\ \A k \in 2..Len(chan[s]) : chan[s][1].id < chan[s][k].id
  BY <1>2 DEF IInv, QueueIncreasing
<1>8. HandledInOrder'
  BY <1>1, <1>2, <1>7 DEF IInv, HandledInOrder
<1>9. QueueIncreasing'
  <2>1. ASSUME NEW k \in 1..Len(Tail(chan[s]))
        PROVE  /\ \A j \in 1..Len(Tail(chan[s])) :
                    j < k => Tail(chan[s])[j].id < Tail(chan[s])[k].id
               /\ chan[s][1].id < Tail(chan[s])[k].id
               /\ \A m \in seen[s] : m < Tail(chan[s])[k].id
    <3>1. k + 1 \in 2..Len(chan[s]) /\ Tail(chan[s])[k] = chan[s][k + 1]
      BY <1>2
    <3>2. ASSUME NEW j \in 1..Len(Tail(chan[s])), j < k
          PROVE  Tail(chan[s])[j].id < Tail(chan[s])[k].id
      <4>1. j + 1 \in 1..Len(chan[s]) /\ Tail(chan[s])[j] = chan[s][j + 1]
            /\ j + 1 < k + 1
        BY <1>2, <3>2
      <4> QED  BY <3>1, <4>1 DEF IInv, QueueIncreasing
    <3>3. chan[s][1].id < chan[s][k + 1].id
      BY <3>1, <1>7
    <3>4. \A m \in seen[s] : m < chan[s][k + 1].id
      BY <3>1, <1>2 DEF IInv, QueueIncreasing
    <3> QED  BY <3>1, <3>2, <3>3, <3>4
  <2>2. ASSUME NEW r \in Subscriber, r # s, NEW k \in 1..Len(chan[r])
        PROVE  /\ \A j \in 1..Len(chan[r]) :
                    j < k => chan[r][j].id < chan[r][k].id
               /\ pc'[r] = "handle" => msg'[r].id < chan[r][k].id
               /\ \A m \in seen[r] : m < chan[r][k].id
    BY <1>1, <2>2 DEF IInv, QueueIncreasing
  <2>3. ASSUME NEW r \in Subscriber, NEW k \in 1..Len(chan'[r])
        PROVE  /\ \A j \in 1..Len(chan'[r]) :
                    j < k => chan'[r][j].id < chan'[r][k].id
               /\ pc'[r] = "handle" => msg'[r].id < chan'[r][k].id
               /\ \A m \in seen'[r] : m < chan'[r][k].id
    <3>1. CASE r = s
      <4>1. chan'[r] = Tail(chan[s]) /\ msg'[r] = chan[s][1] /\ seen'[r] = seen[s]
        BY <1>1, <1>2, <3>1
      <4> QED  BY <2>1, <2>3, <4>1
    <3>2. CASE r # s
      <4>1. chan'[r] = chan[r] /\ seen'[r] = seen[r]
        BY <1>1, <3>2
      <4> QED  BY <2>2, <2>3, <3>2, <4>1
    <3> QED  BY <3>1, <3>2
  <2> QED  BY <2>3 DEF QueueIncreasing
<1>10. SentInTurn'
  <2>1. ASSUME NEW r \in Subscriber, NEW b \in Int, AllBelow(r, b)
        PROVE  AllBelow(r, b)'
    <3>1. CASE r # s
      BY <1>1, <2>1, <3>1 DEF AllBelow
    <3>2. CASE r = s
      <4>1. \A k \in 1..Len(Tail(chan[s])) :
              k + 1 \in 1..Len(chan[s]) /\ Tail(chan[s])[k] = chan[s][k + 1]
        BY <1>2
      <4>2. chan[s][1].id < b
        BY <1>2, <2>1, <3>2 DEF AllBelow
      <4>3. \A k \in 1..Len(Tail(chan[s])) : Tail(chan[s])[k].id < b
        BY <2>1, <3>2, <4>1 DEF AllBelow
      <4>4. \A m \in seen[s] : m < b
        BY <2>1, <3>2 DEF AllBelow
      <4> QED  BY <1>1, <1>2, <3>2, <4>2, <4>3, <4>4 DEF AllBelow
    <3> QED  BY <3>1, <3>2
  <2> QED  BY <1>1, <2>1, TurnKept DEF storeVars
<1>11. OffsetIsIndex'
  <2>1. \A r \in Subscriber : \A k \in 1..Len(chan'[r]) :
          \E j \in 1..Len(chan[r]) : chan'[r][k] = chan[r][j]
    <3>1. \A k \in 1..Len(Tail(chan[s])) :
            k + 1 \in 1..Len(chan[s]) /\ Tail(chan[s])[k] = chan[s][k + 1]
      BY <1>2
    <3>2. ASSUME NEW r \in Subscriber, NEW k \in 1..Len(chan'[r])
          PROVE  \E j \in 1..Len(chan[r]) : chan'[r][k] = chan[r][j]
      <4>1. CASE r = s
        BY <1>1, <3>1, <3>2, <4>1
      <4>2. CASE r # s
        BY <1>1, <3>2, <4>2
      <4> QED  BY <4>1, <4>2
    <3> QED  BY <3>2
  <2>2. ASSUME NEW r \in Subscriber, NEW k \in 1..Len(chan'[r]),
               chan'[r][k].id > cleared
        PROVE  /\ chan'[r][k].offset < Len(topics[chan'[r][k].topic])
               /\ topics[chan'[r][k].topic][chan'[r][k].offset + 1]
                    = chan'[r][k].id
    <3>1. PICK j \in 1..Len(chan[r]) : chan'[r][k] = chan[r][j]
      BY <2>1
    <3> QED  BY <2>2, <3>1 DEF IInv, OffsetIsIndex
  <2> QED  BY <1>1, <2>2 DEF OffsetIsIndex
<1> QED  BY <1>3, <1>4, <1>5, <1>6, <1>8, <1>9, <1>10, <1>11 DEF IInv

LEMMA SubscribeInv ==
    ASSUME IInv, NEW s \in Subscriber, NEW wanted \in SUBSET Topic,
           Subscribe(s, wanted)
    PROVE  IInv'
<1>1. /\ UNCHANGED <<topics, pub, chan, msg, published, cleared, seen>>
      /\ pub = None /\ pc[s] = "idle"
      /\ \A r \in Subscriber : r # s => pc'[r] = pc[r]
      /\ pc'[s] = "select"
      /\ Len(published) \in Nat
      /\ \A t \in Topic :
           \/ subscribers'[t] = subscribers[t]
           \/ subscribers'[t] = Append(subscribers[t], s)
  BY DEF Subscribe, IInv, TypeOK
<1>2. \A t \in Topic :
        /\ subscribers[t] \in Seq(Subscriber)
        /\ Len(subscribers[t]) \in Nat
        /\ Append(subscribers[t], s) \in Seq(Subscriber)
        /\ Len(Append(subscribers[t], s)) = Len(subscribers[t]) + 1
        /\ Append(subscribers[t], s)[Len(subscribers[t]) + 1] = s
        /\ \A k \in 1..Len(subscribers[t]) :
             /\ Append(subscribers[t], s)[k] = subscribers[t][k]
             /\ subscribers[t][k] \in Subscriber
  BY DEF IInv, TypeOK
<1>3. TypeOK'
  <2>1. subscribers' \in [Topic -> Seq(Subscriber)]
    BY <1>2 DEF Subscribe
  <2>2. pc' \in [Subscriber -> {"idle", "select", "handle", "returned"}]
    BY DEF IInv, TypeOK, Subscribe
  <2>3. since' \in [Subscriber -> 1..(MaxMessages + 1)]
    <3>1. Len(published) + 1 \in 1..(MaxMessages + 1)
      BY <1>1, BoundsAssumption DEF IInv, TypeOK
    <3> QED  BY <3>1 DEF IInv, TypeOK, Subscribe
  <2> QED  BY <2>1, <2>2, <2>3 DEF IInv, TypeOK, Subscribe
<1>4. BatchShape' /\ StoreWithinBound'
  BY <1>1 DEF IInv, BatchShape, StoreWithinBound
<1>5. RegisteredOnce'
  <2>1. \A t \in Topic : \A k \in 1..Len(subscribers[t]) :
          subscribers[t][k] # s
    BY <1>1 DEF IInv, RegisteredOnce
  <2>2. ASSUME NEW t \in Topic, NEW j \in 1..Len(subscribers'[t]),
               NEW k \in 1..Len(subscribers'[t])
        PROVE  /\ pc'[subscribers'[t][j]] # "idle"
               /\ subscribers'[t][j] = subscribers'[t][k] => j = k
    <3>1. CASE subscribers'[t] = subscribers[t]
      BY <1>1, <1>2, <2>1, <2>2, <3>1 DEF IInv, RegisteredOnce
    <3>2. CASE subscribers'[t] = Append(subscribers[t], s)
      <4>1. \A i \in 1..Len(subscribers'[t]) :
              \/ /\ i \in 1..Len(subscribers[t])
                 /\ subscribers'[t][i] = subscribers[t][i]
              \/ i = Len(subscribers[t]) + 1 /\ subscribers'[t][i] = s
        BY <1>2, <3>2
      <4>2. pc'[subscribers'[t][j]] # "idle"
        <5>1. CASE /\ j \in 1..Len(subscribers[t])
                   /\ subscribers'[t][j] = subscribers[t][j]
          <6>1. pc[subscribers[t][j]] # "idle"
            BY <5>1 DEF IInv, RegisteredOnce
          <6>2. subscribers[t][j] \in Subscriber /\ subscribers[t][j] # s
            BY <1>2, <2>1, <5>1
          <6>3. pc'[subscribers[t][j]] = pc[subscribers[t][j]]
            BY <1>1, <6>2
          <6> QED  BY <5>1, <6>1, <6>3
        <5>2. CASE subscribers'[t][j] = s
          BY <1>1, <5>2
        <5> QED  BY <2>2, <4>1, <5>1, <5>2
      <4>3. subscribers'[t][j] = subscribers'[t][k] => j = k
        BY <2>1, <2>2, <4>1 DEF IInv, RegisteredOnce
      <4> QED  BY <4>2, <4>3
    <3> QED  BY <1>1, <3>1, <3>2
  <2> QED  BY <2>2 DEF RegisteredOnce
<1>6. HandlerHasMessage' /\ HandledInOrder'
  BY <1>1 DEF IInv, HandlerHasMessage, HandledInOrder
<1>7. QueueIncreasing'
  BY <1>1 DEF IInv, QueueIncreasing
<1>8. SentInTurn'
  BY <1>1 DEF IInv, SentInTurn, AllBelow
<1>9. OffsetIsIndex'
  BY <1>1 DEF IInv, OffsetIsIndex
<1> QED  BY <1>3, <1>4, <1>5, <1>6, <1>7, <1>8, <1>9 DEF IInv

LEMMA ClearInv == ASSUME IInv, Clear PROVE IInv'
<1>1. /\ UNCHANGED <<subscribers, pub, chan, pc, msg, published, seen>>
      /\ pub = None /\ cleared' = Len(published)
      /\ topics' = [t \in Topic |-> <<>>]
      /\ Len(published) \in Nat
  BY DEF Clear, IInv, TypeOK, callVars
<1>2. TypeOK'
  <2>1. topics' \in [Topic -> Seq(Message)]
    BY <1>1, EmptySeq
  <2>2. cleared' \in 0..MaxMessages
    BY <1>1, BoundsAssumption DEF IInv, TypeOK
  <2> QED  BY <2>1, <2>2 DEF IInv, TypeOK, Clear, callVars
<1>3. BatchShape' /\ StoreWithinBound'
  BY <1>1 DEF BatchShape, StoreWithinBound
<1>4. RegisteredOnce' /\ HandlerHasMessage' /\ HandledInOrder'
  BY <1>1 DEF IInv, RegisteredOnce, HandlerHasMessage, HandledInOrder
<1>5. QueueIncreasing'
  BY <1>1 DEF IInv, QueueIncreasing
<1>6. SentInTurn'
  BY <1>1 DEF IInv, SentInTurn, AllBelow
<1>7. OffsetIsIndex'
  <2>1. ASSUME NEW s \in Subscriber, NEW k \in 1..Len(chan[s])
        PROVE  ~ (chan[s][k].id > Len(published))
    <3>1. chan[s][k].id < Len(published) + 1
      BY DEF IInv, SentInTurn, AllBelow
    <3>2. chan[s][k].id \in Nat
      <4>1. chan[s] \in Seq(Entry)
        BY DEF IInv, TypeOK
      <4>2. chan[s][k] \in Entry
        BY <4>1, ElementOfSeq
      <4> QED  BY <4>2 DEF Entry, Message
    <3> QED  BY <1>1, <3>1, <3>2
  <2> QED  BY <1>1, <2>1 DEF OffsetIsIndex
<1> QED  BY <1>2, <1>3, <1>4, <1>5, <1>6, <1>7 DEF IInv

(* What is below a bound is below a larger one.                             *)
LEMMA WeakerBound ==
    ASSUME IInv, NEW s \in Subscriber, NEW a \in Int, NEW b \in Int,
           a <= b, AllBelow(s, a)
    PROVE  AllBelow(s, b)
<1>1. chan[s] \in Seq(Entry) /\ seen[s] \subseteq Message
      /\ msg[s] \in Entry \cup {None}
  BY DEF IInv, TypeOK
<1>2. \A k \in 1..Len(chan[s]) : chan[s][k] \in Entry
  BY <1>1, ElementOfSeq
<1>3. pc[s] = "handle" => msg[s] \in Entry
  BY <1>1 DEF IInv, HandlerHasMessage
<1>4. \A e \in Entry : e.id \in Nat
  BY DEF Entry, Message
<1> QED  BY <1>1, <1>2, <1>3, <1>4 DEF AllBelow, Message

LEMMA PublishInv ==
    ASSUME IInv, NEW t \in Topic, NEW n \in 1..MaxBatch, Publish(t, n)
    PROVE  IInv'
<1> DEFINE L == Len(published)
           q == [j \in 1..n |-> L + j]
<1>1. /\ n \in Nat \ {0} /\ L \in Nat /\ MaxMessages \in Nat
      /\ L + n <= MaxMessages
      /\ pub = None
      /\ UNCHANGED <<subscribers, chan, pc, msg, cleared, seen>>
  BY BoundsAssumption DEF Publish, IInv, TypeOK, callVars
<1>2. /\ q \in Seq(Message) /\ Len(q) = n
      /\ [j \in 1..n |-> t] \in Seq(Topic) /\ Len([j \in 1..n |-> t]) = n
  BY <1>1, BatchSequences, BoundsAssumption DEF IInv
<1>3. /\ published' \in Seq(Topic) /\ Len(published') = L + n
  <2>1. published' = published \o [j \in 1..n |-> t] /\ published \in Seq(Topic)
    BY DEF Publish, IInv, TypeOK
  <2> QED  BY <1>2, <2>1, ConcatProperties
<1>4. \A u \in Topic :
        /\ topics[u] \in Seq(Message) /\ Len(topics[u]) \in Nat
        /\ u # t => topics'[u] = topics[u]
        /\ u = t => topics'[u] = topics[u] \o q
  <2>1. topics \in [Topic -> Seq(Message)]
        /\ topics' = [topics EXCEPT ![t] = topics[t] \o q]
    BY DEF Publish, IInv, TypeOK
  <2> HIDE DEF q
  <2> QED  BY <2>1
<1>5. /\ topics[t] \o q \in Seq(Message)
      /\ Len(topics[t] \o q) = Len(topics[t]) + n
      /\ \A k \in 1..(Len(topics[t]) + n) :
           (topics[t] \o q)[k] = IF k <= Len(topics[t])
                                   THEN topics[t][k]
                                   ELSE q[k - Len(topics[t])]
  BY <1>2, <1>4, ConcatProperties
<1>6. \/ pub' = None
      \/ /\ pub' = [topic |-> t, first |-> L + 1, size |-> n, sub |-> 1,
                    i |-> 0]
         /\ subscribers[t] # <<>>
  BY DEF Publish
<1>7. TypeOK'
  <2>1. topics' \in [Topic -> Seq(Message)]
    BY <1>5 DEF Publish, IInv, TypeOK
  <2>2. pub' \in Batch \cup {None}
    BY <1>1, <1>6 DEF Batch, Message
  <2> QED  BY <1>1, <1>3, <2>1, <2>2 DEF Publish, IInv, TypeOK, callVars
<1>8. StoreWithinBound'
  <2>1. ASSUME NEW u \in Topic
        PROVE  Len(topics'[u]) <= Len(published')
    <3>1. Len(topics[u]) \in Nat /\ Len(topics[u]) <= L
      BY <1>4 DEF IInv, StoreWithinBound
    <3>2. Len(topics'[u]) = Len(topics[u])
            \/ Len(topics'[u]) = Len(topics[u]) + n
      BY <1>4, <1>5
    <3> HIDE DEF L, q
    <3> QED  BY <1>1, <1>3, <3>1, <3>2
  <2> QED  BY <2>1 DEF StoreWithinBound
<1>9. BatchShape'
  <2>1. CASE pub' = None
    BY <2>1 DEF BatchShape
  <2>2. CASE pub' # None
    <3>1. /\ pub'.topic = t /\ pub'.first = L + 1 /\ pub'.size = n
          /\ pub'.sub = 1 /\ pub'.i = 0 /\ subscribers[t] # <<>>
      BY <1>6, <2>2
    <3>2. 1 \in 1..Len(subscribers'[t])
      <4>1. subscribers[t] \in Seq(Subscriber)
        BY DEF IInv, TypeOK
      <4> QED  BY <1>1, <3>1, <4>1, EmptySeq
    <3>3. Len(topics'[t]) = Len(topics[t]) + n
      BY <1>4, <1>5
    <3>4. PICK T \in Nat : T = Len(topics[t])
      BY <1>4
    <3>5. ASSUME NEW i \in 0..(n - 1)
          PROVE  topics'[t][T + n - n + i + 1] = L + 1 + i
      <4>1. /\ T + n - n + i + 1 = T + (i + 1)
            /\ T + (i + 1) \in 1..(T + n)
            /\ ~ (T + (i + 1) <= T)
            /\ T + (i + 1) - T = i + 1
            /\ i + 1 \in 1..n
        BY <1>1 DEF q
      <4>2. q[i + 1] = L + (i + 1)
        BY <4>1
      <4>3. L + (i + 1) = L + 1 + i
        BY <1>1, <4>1
      <4> HIDE DEF q, L
      <4>4. topics'[t] = topics[t] \o q
        BY <1>4
      <4>5. (topics[t] \o q)[T + (i + 1)] = q[i + 1]
        <5>1. q \in Seq(Message) /\ topics[t] \in Seq(Message)
          BY <1>2, <1>4
        <5>2. PICK k \in 1..Len(q) : k = i + 1
          BY <1>2, <4>1
        <5>3. \A u, r \in Seq(Message) : \A m \in 1..Len(r) :
                (u \o r)[Len(u) + m] = r[m]
          BY ConcatSecond
        <5>4. (topics[t] \o q)[Len(topics[t]) + k] = q[k]
          BY <5>1, <5>2, <5>3
        <5> QED  BY <3>4, <5>2, <5>4
      <4> QED  BY <4>1, <4>2, <4>3, <4>4, <4>5
    <3> HIDE DEF q
    <3>6. Len(topics'[t]) = T + n
      BY <3>3, <3>4
    <3>7. /\ pub'.i < pub'.size
          /\ pub'.first + pub'.size = Len(published') + 1
          /\ pub'.size <= Len(topics'[pub'.topic])
          /\ pub'.sub \in 1..Len(subscribers'[pub'.topic])
      BY <1>1, <1>3, <3>1, <3>2, <3>4, <3>6
    <3>8. \A i \in 0..(pub'.size - 1) :
            topics'[pub'.topic][Len(topics'[pub'.topic]) - pub'.size + i + 1]
              = pub'.first + i
      <4> SUFFICES ASSUME NEW i \in 0..(n - 1)
                   PROVE  topics'[t][Len(topics'[t]) - n + i + 1] = L + 1 + i
        BY <3>1
      <4> QED  BY <3>5, <3>6
    <3> QED  BY <3>7, <3>8 DEF BatchShape
  <2> QED  BY <2>1, <2>2
<1>10. RegisteredOnce' /\ HandlerHasMessage' /\ HandledInOrder'
  BY <1>1 DEF IInv, RegisteredOnce, HandlerHasMessage, HandledInOrder
<1>11. QueueIncreasing'
  BY <1>1 DEF IInv, QueueIncreasing
<1>12. SentInTurn'
  <2>1. PICK low \in Nat, high \in Nat : low = L + 1 /\ high = L + n + 1
    BY <1>1
  <2>2. ASSUME NEW s \in Subscriber
        PROVE  AllBelow(s, low)' /\ AllBelow(s, high)'
    <3>1. AllBelow(s, low)
      BY <2>1 DEF IInv, SentInTurn
    <3>2. low <= high
      BY <1>1, <2>1
    <3>3. AllBelow(s, high)
      BY <3>1, <3>2, WeakerBound
    <3> QED  BY <1>1, <3>1, <3>3 DEF AllBelow
  <2>3. (Len(published) + 1)' = high
    BY <1>1, <1>3, <2>1
  <2>4. \A s \in Subscriber : AllBelow(s, Len(published) + 1)'
    BY <2>2, <2>3 DEF AllBelow
  <2>5. ASSUME pub' # None, NEW k \in 1..Len(subscribers[t])
        PROVE  /\ AllBelow(subscribers[t][k], pub.first)'
               /\ AllBelow(subscribers[t][k], pub.first + pub.i)'
    <3>1. pub'.first = low /\ pub'.first + pub'.i = low
      BY <1>1, <1>6, <2>1, <2>5
    <3>2. subscribers[t][k] \in Subscriber /\ subscribers' = subscribers
      BY <1>1 DEF IInv, TypeOK
    <3>3. AllBelow(subscribers[t][k], low)'
      BY <2>2, <3>2 DEF AllBelow
    <3> QED  BY <3>1, <3>3 DEF AllBelow
  <2>6. pub' # None => pub'.topic = t
    BY <1>6
  <2> QED  BY <1>1, <2>4, <2>5, <2>6 DEF SentInTurn
<1>13. OffsetIsIndex'
  <2>1. ASSUME NEW s \in Subscriber, NEW k \in 1..Len(chan[s]),
               chan[s][k].id > cleared
        PROVE  /\ chan[s][k].offset < Len(topics'[chan[s][k].topic])
               /\ topics'[chan[s][k].topic][chan[s][k].offset + 1]
                    = chan[s][k].id
    <3> DEFINE e == chan[s][k]
    <3>1. e \in Entry /\ e.topic \in Topic /\ e.offset \in Nat
      <4>1. chan[s] \in Seq(Entry)
        BY DEF IInv, TypeOK
      <4>2. e \in Entry
        BY <4>1, ElementOfSeq
      <4> QED  BY <4>2 DEF Entry
    <3>2. /\ e.offset < Len(topics[e.topic])
          /\ topics[e.topic][e.offset + 1] = e.id
      BY <2>1 DEF IInv, OffsetIsIndex
    <3> HIDE DEF q
    <3>3. CASE e.topic # t
      BY <1>4, <3>1, <3>2, <3>3
    <3>4. CASE e.topic = t
      <4>1. e.offset + 1 \in 1..(Len(topics[t]) + n)
            /\ e.offset + 1 <= Len(topics[t])
        <5>1. PICK T \in Nat : T = Len(topics[t])
          BY <1>4
        <5>2. PICK i \in Nat : i = e.offset
          BY <3>1
        <5>3. i < T
          BY <3>2, <3>4, <5>1, <5>2
        <5>4. i + 1 \in 1..(T + n) /\ i + 1 <= T
          BY <1>1, <5>3
        <5> QED  BY <5>1, <5>2, <5>4
      <4>2. (topics[t] \o q)[e.offset + 1] = topics[t][e.offset + 1]
        BY <1>5, <4>1
      <4>3. e.offset < Len(topics[t]) + n
        BY <1>1, <1>4, <3>1, <3>2, <3>4
      <4>4. topics'[t] = topics[t] \o q
        BY <1>4
      <4> QED  BY <1>5, <3>2, <3>4, <4>2, <4>3, <4>4
    <3> QED  BY <3>3, <3>4
  <2> QED  BY <1>1, <2>1 DEF OffsetIsIndex
<1> QED  BY <1>7, <1>8, <1>9, <1>10, <1>11, <1>12, <1>13 DEF IInv

(* A send or a skip moves the loops on.  The subscriber r they were at has  *)
(* nothing as late as the next message; the others have what they had.      *)
LEMMA LoopAdvances ==
    ASSUME IInv, pub # None, pub' = Advance,
           UNCHANGED <<topics, subscribers, published>>,
           NEW r \in Subscriber, r = Target,
           \A s \in Subscriber, b \in Int :
               s # r /\ AllBelow(s, b) => AllBelow(s, b)',
           \A b \in Int :
               b = pub.first + pub.i + 1 => AllBelow(r, b)',
           \A s \in Subscriber : AllBelow(s, Len(published) + 1)'
    PROVE  BatchShape' /\ SentInTurn'
<1>1. /\ pub \in Batch /\ pub.topic \in Topic
      /\ pub.first \in Nat /\ pub.i \in Nat /\ pub.sub \in Nat
      /\ pub.size \in Nat
  <2>1. pub \in Batch
    BY DEF IInv, TypeOK
  <2> QED  BY <2>1 DEF Batch, Message
<1>2. /\ Len(subscribers[pub.topic]) \in Nat
      /\ \A k \in 1..Len(subscribers[pub.topic]) :
           subscribers[pub.topic][k] \in Subscriber
  BY <1>1 DEF IInv, TypeOK
<1>3. PICK low \in Int, next \in Int :
        low = pub.first /\ next = pub.first + pub.i + 1
  BY <1>1
<1>4. ASSUME NEW k \in 1..Len(subscribers[pub.topic]), k > pub.sub,
             NEW s \in Subscriber, s = subscribers[pub.topic][k]
      PROVE  AllBelow(s, low)'
  <2>1. s # r
    BY <1>1, <1>2, <1>4 DEF IInv, RegisteredOnce, BatchShape, Target
  <2>2. AllBelow(s, low)
    BY <1>3, <1>4 DEF IInv, SentInTurn
  <2> QED  BY <2>1, <2>2
<1>5. AllBelow(r, next)'
  BY <1>3
<1>6. /\ pub.sub \in 1..Len(subscribers[pub.topic])
      /\ pub.i < pub.size
      /\ pub.first + pub.size = Len(published) + 1
      /\ pub.size <= Len(topics[pub.topic])
      /\ \A j \in 0..(pub.size - 1) :
           topics[pub.topic][Len(topics[pub.topic]) - pub.size + j + 1]
             = pub.first + j
  BY DEF IInv, BatchShape
<1>7. CASE Advance = None
  BY <1>7 DEF BatchShape, SentInTurn
<1>8. CASE /\ Advance = [pub EXCEPT !.i = @ + 1]
           /\ pub.i + 1 < pub.size
  <2>1. /\ pub'.topic = pub.topic /\ pub'.first = low
        /\ pub'.size = pub.size /\ pub'.sub = pub.sub
        /\ pub'.i = pub.i + 1 /\ pub'.first + pub'.i = next
    BY <1>1, <1>3, <1>8 DEF Batch
  <2>2. BatchShape'
    BY <1>3, <1>6, <1>8, <2>1 DEF BatchShape
  <2>3. ASSUME NEW k \in 1..Len(subscribers[pub.topic])
        PROVE  /\ k > pub'.sub =>
                    AllBelow(subscribers[pub.topic][k], pub.first)'
               /\ k = pub'.sub =>
                    AllBelow(subscribers[pub.topic][k], pub.first + pub.i)'
    <3>1. PICK s \in Subscriber : s = subscribers[pub.topic][k]
      BY <1>2
    <3>2. k > pub.sub => AllBelow(s, low)'
      BY <1>4, <3>1
    <3>3. k = pub.sub => AllBelow(s, next)'
      BY <1>5, <3>1 DEF Target
    <3>4. subscribers'[pub'.topic][k] = s
      BY <2>1, <3>1
    <3> QED  BY <2>1, <3>2, <3>3, <3>4 DEF AllBelow
  <2> QED  BY <2>1, <2>2, <2>3 DEF SentInTurn
<1>9. CASE /\ Advance = [pub EXCEPT !.sub = @ + 1, !.i = 0]
           /\ pub.sub < Len(subscribers[pub.topic])
  <2>1. /\ pub'.topic = pub.topic /\ pub'.first = low
        /\ pub'.size = pub.size /\ pub'.sub = pub.sub + 1
        /\ pub'.i = 0 /\ pub'.first + pub'.i = low
    BY <1>1, <1>3, <1>9 DEF Batch
  <2>2. BatchShape'
    BY <1>1, <1>2, <1>3, <1>6, <1>9, <2>1 DEF BatchShape
  <2>3. ASSUME NEW k \in 1..Len(subscribers[pub.topic])
        PROVE  k >= pub'.sub =>
                 /\ AllBelow(subscribers[pub.topic][k], pub.first)'
                 /\ AllBelow(subscribers[pub.topic][k], pub.first + pub.i)'
    <3>1. PICK s \in Subscriber : s = subscribers[pub.topic][k]
      BY <1>2
    <3>2. k >= pub.sub + 1 => AllBelow(s, low)'
      BY <1>1, <1>4, <3>1
    <3>3. subscribers'[pub'.topic][k] = s
      BY <2>1, <3>1
    <3> QED  BY <2>1, <3>2, <3>3 DEF AllBelow
  <2> QED  BY <1>1, <2>1, <2>2, <2>3 DEF SentInTurn
<1> QED  BY <1>7, <1>8, <1>9, AdvanceCases

LEMMA SkipInv == ASSUME IInv, Skip PROVE IInv'
<1>1. /\ UNCHANGED <<topics, subscribers, chan, pc, msg, published, cleared,
                      seen>>
      /\ pub # None /\ pub' = Advance
  BY DEF Skip, callVars
<1>2. PICK r \in Subscriber : r = Target
  BY <1>1, OutgoingShape
<1>3. Outgoing.id \in Message
  BY <1>1, OutgoingShape DEF Entry
<1>4. TypeOK'
  <2>1. skipped' \in [Subscriber -> SUBSET Message]
    BY <1>2, <1>3 DEF Skip, IInv, TypeOK
  <2>2. pub' \in Batch \cup {None}
    BY <1>1, AdvanceCases
  <2> QED  BY <2>1, <2>2 DEF Skip, IInv, TypeOK, callVars
<1>5. BatchShape' /\ SentInTurn'
  <2>1. \A s \in Subscriber, b \in Int : AllBelow(s, b) => AllBelow(s, b)'
    BY <1>1 DEF AllBelow
  <2>2. AllBelow(r, pub.first + pub.i)
    BY <1>1, <1>2 DEF IInv, SentInTurn, BatchShape, Target
  <2>3. pub.first + pub.i \in Int
    BY <1>1 DEF IInv, TypeOK, Batch, Message
  <2>4. ASSUME NEW b \in Int, b = pub.first + pub.i + 1
        PROVE  AllBelow(r, b)'
    <3>1. AllBelow(r, b)
      BY <2>2, <2>3, <2>4, WeakerBound
    <3> QED  BY <2>1, <3>1
  <2>5. \A s \in Subscriber : AllBelow(s, Len(published) + 1)'
    BY <1>1 DEF IInv, SentInTurn, AllBelow
  <2> QED  BY <1>1, <1>2, <2>1, <2>4, <2>5, LoopAdvances
<1>6. StoreWithinBound' /\ RegisteredOnce' /\ HandlerHasMessage'
  BY <1>1 DEF IInv, StoreWithinBound, RegisteredOnce, HandlerHasMessage
<1>7. HandledInOrder' /\ QueueIncreasing'
  BY <1>1 DEF IInv, HandledInOrder, QueueIncreasing
<1>8. OffsetIsIndex'
  BY <1>1 DEF IInv, OffsetIsIndex
<1> QED  BY <1>4, <1>5, <1>6, <1>7, <1>8 DEF IInv

LEMMA SendInv == ASSUME IInv, Send PROVE IInv'
<1>1. /\ UNCHANGED <<topics, subscribers, pc, msg, published, cleared, seen>>
      /\ pub # None /\ pub' = Advance
  BY DEF Send, historyVars
<1>2. PICK r \in Subscriber : r = Target
  BY <1>1, OutgoingShape
<1>3. PICK o \in Entry :
        /\ o = Outgoing
        /\ o.id = pub.first + pub.i
        /\ o.id <= Len(published)
        /\ o.offset < Len(topics[o.topic])
        /\ topics[o.topic][o.offset + 1] = o.id
  BY <1>1, OutgoingShape
<1>4. /\ chan \in [Subscriber -> Seq(Entry)]
      /\ chan' = [chan EXCEPT ![r] = Append(@, o)]
      /\ o.id \in Nat /\ Len(published) \in Nat
  <2>1. chan' = [chan EXCEPT ![Target] = Append(@, Outgoing)]
    BY DEF Send
  <2>2. o.id \in Nat
    BY DEF Entry, Message
  <2>3. chan \in [Subscriber -> Seq(Entry)] /\ Len(published) \in Nat
    BY DEF IInv, TypeOK
  <2> QED  BY <1>2, <1>3, <2>1, <2>2, <2>3
<1>5. /\ \A s \in Subscriber : s # r => chan'[s] = chan[s]
      /\ Len(chan[r]) \in Nat
      /\ Len(chan'[r]) = Len(chan[r]) + 1
      /\ chan'[r][Len(chan[r]) + 1] = o
      /\ \A k \in 1..Len(chan[r]) : chan'[r][k] = chan[r][k]
  BY <1>4
<1>6. \A k \in 1..Len(chan'[r]) :
        k \in 1..Len(chan[r]) \/ k = Len(chan[r]) + 1
  BY <1>5
<1>7. AllBelow(r, o.id)
  BY <1>1, <1>2, <1>3 DEF IInv, SentInTurn, BatchShape, Target
<1>8. TypeOK'
  <2>1. chan' \in [Subscriber -> Seq(Entry)]
    BY <1>4
  <2>2. pub' \in Batch \cup {None}
    BY <1>1, AdvanceCases
  <2> QED  BY <2>1, <2>2 DEF Send, IInv, TypeOK, historyVars
<1>9. ASSUME NEW b \in Int, o.id < b PROVE AllBelow(r, b)'
  <2>1. o.id \in Int /\ o.id <= b
    BY <1>4, <1>9
  <2>2. AllBelow(r, b)
    BY <1>7, <2>1, WeakerBound
  <2> QED  BY <1>1, <1>5, <1>6, <1>9, <2>2 DEF AllBelow
<1>10. \A s \in Subscriber, b \in Int :
         s # r /\ AllBelow(s, b) => AllBelow(s, b)'
  BY <1>1, <1>5 DEF AllBelow
<1>11. BatchShape' /\ SentInTurn'
  <2>1. PICK next \in Int : next = Len(published) + 1
    BY <1>4
  <2>2. ASSUME NEW s \in Subscriber PROVE AllBelow(s, Len(published) + 1)'
    <3>1. AllBelow(s, next)
      BY <2>1 DEF IInv, SentInTurn
    <3>2. AllBelow(s, next)'
      BY <1>3, <1>4, <1>9, <1>10, <2>1, <3>1
    <3> QED  BY <1>1, <2>1, <3>2 DEF AllBelow
  <2>3. \A b \in Int : b = pub.first + pub.i + 1 => AllBelow(r, b)'
    BY <1>3, <1>4, <1>9
  <2> QED  BY <1>1, <1>2, <1>10, <2>2, <2>3, LoopAdvances
<1>12. StoreWithinBound' /\ RegisteredOnce' /\ HandlerHasMessage'
  BY <1>1 DEF IInv, StoreWithinBound, RegisteredOnce, HandlerHasMessage
<1>13. HandledInOrder'
  BY <1>1 DEF IInv, HandledInOrder
<1>14. QueueIncreasing'
  <2>1. ASSUME NEW k \in 1..Len(chan'[r])
        PROVE  /\ \A j \in 1..Len(chan'[r]) :
                    j < k => chan'[r][j].id < chan'[r][k].id
               /\ pc[r] = "handle" => msg[r].id < chan'[r][k].id
               /\ \A m \in seen[r] : m < chan'[r][k].id
    <3>1. CASE k \in 1..Len(chan[r])
      <4>1. \A j \in 1..Len(chan'[r]) : j < k => j \in 1..Len(chan[r])
        BY <1>5, <1>6, <3>1
      <4> QED  BY <1>5, <3>1, <4>1 DEF IInv, QueueIncreasing
    <3>2. CASE k = Len(chan[r]) + 1
      <4>1. \A j \in 1..Len(chan'[r]) : j < k => j \in 1..Len(chan[r])
        BY <1>5, <1>6, <3>2
      <4> QED  BY <1>5, <1>7, <3>2, <4>1 DEF AllBelow
    <3> QED  BY <1>6, <3>1, <3>2
  <2>2. ASSUME NEW s \in Subscriber, s # r, NEW k \in 1..Len(chan[s])
        PROVE  /\ \A j \in 1..Len(chan[s]) :
                    j < k => chan[s][j].id < chan[s][k].id
               /\ pc[s] = "handle" => msg[s].id < chan[s][k].id
               /\ \A m \in seen[s] : m < chan[s][k].id
    BY <2>2 DEF IInv, QueueIncreasing
  <2> QED  BY <1>1, <1>5, <2>1, <2>2 DEF QueueIncreasing
<1>15. OffsetIsIndex'
  <2>1. ASSUME NEW s \in Subscriber, NEW k \in 1..Len(chan'[s])
        PROVE  \/ chan'[s][k] = o
               \/ \E j \in 1..Len(chan[s]) : chan'[s][k] = chan[s][j]
    <3>1. CASE s = r
      BY <1>5, <1>6, <3>1
    <3>2. CASE s # r
      BY <1>5, <3>2
    <3> QED  BY <3>1, <3>2
  <2> QED  BY <1>1, <1>3, <2>1 DEF IInv, OffsetIsIndex
<1> QED  BY <1>8, <1>11, <1>12, <1>13, <1>14, <1>15 DEF IInv

----------------------------------------------------------------------------
LEMMA StutterInv == ASSUME IInv, UNCHANGED vars PROVE IInv'
<1> USE DEF vars, storeVars, callVars, historyVars, IInv
<1>1. TypeOK'
  BY DEF TypeOK
<1>2. BatchShape' /\ StoreWithinBound'
  BY DEF BatchShape, StoreWithinBound
<1>3. RegisteredOnce' /\ HandlerHasMessage' /\ HandledInOrder'
  BY DEF RegisteredOnce, HandlerHasMessage, HandledInOrder
<1>4. QueueIncreasing'
  BY DEF QueueIncreasing
<1>5. SentInTurn'
  BY DEF SentInTurn, AllBelow
<1>6. OffsetIsIndex'
  BY DEF OffsetIsIndex
<1> QED  BY <1>1, <1>2, <1>3, <1>4, <1>5, <1>6

LEMMA NextInv == IInv /\ [Next]_vars => IInv'
<1> SUFFICES ASSUME IInv, [Next]_vars PROVE IInv'
  OBVIOUS
<1>1. CASE UNCHANGED vars
  BY <1>1, StutterInv
<1>2. CASE \E t \in Topic, n \in 1..MaxBatch : Publish(t, n)
  BY <1>2, PublishInv
<1>3. CASE Send
  BY <1>3, SendInv
<1>4. CASE Skip
  BY <1>4, SkipInv
<1>5. CASE \E s \in Subscriber : \E wanted \in SUBSET Topic :
             Subscribe(s, wanted)
  BY <1>5, SubscribeInv
<1>6. CASE \E s \in Subscriber : Receive(s)
  BY <1>6, ReceiveInv
<1>7. CASE \E s \in Subscriber : Handle(s)
  BY <1>7, HandleInv
<1>8. CASE Clear
  BY <1>8, ClearInv
<1>9. CASE Quiet
  BY <1>9, QuietInv
<1> QED
  BY Zenon, <1>1, <1>2, <1>3, <1>4, <1>5, <1>6, <1>7, <1>8, <1>9
  DEF Next, PublishStep, SubscriberStep, Quiet

(* The inductive invariant holds in every reachable state.                  *)
THEOREM InvariantHolds == Spec => []IInv
  BY InitInv, NextInv, PTL DEF Spec

(* Every variable keeps its type: no PublishBatch computes an offset        *)
(* outside of the topic.                                                    *)
THEOREM TypeCorrect == Spec => []TypeOK
<1>1. IInv => TypeOK
  BY DEF IInv
<1> QED  BY <1>1, InvariantHolds, PTL

(* Handlers see messages in the order of their publication and once each,   *)
(* for any number of topics, publishers and subscribers.                    *)
THEOREM HandlersSeeOrder == Spec => []HandledInOrder
<1>1. IInv => HandledInOrder
  BY DEF IInv
<1> QED  BY <1>1, InvariantHolds, PTL

(* A delivered offset is the message's index in its topic until Clear.      *)
THEOREM OffsetsAreIndices == Spec => []OffsetIsIndex
<1>1. IInv => OffsetIsIndex
  BY DEF IInv
<1> QED  BY <1>1, InvariantHolds, PTL

----------------------------------------------------------------------------
(* The second invariant: no message goes astray.  It is about one message   *)
(* and one subscriber at a time.                                            *)
Waits(s, m) == \E k \in 1..Len(chan[s]) : chan[s][k].id = m

Whereabouts(s, m) ==
    \/ m \in seen[s]
    \/ pc[s] = "handle" /\ msg[s].id = m
    \/ Waits(s, m)
    \/ m \in skipped[s]
    \/ m \in ToBeSent(s)

Accounted == \A s \in Subscriber, m \in Message :
                m \in Due(s) <=> Whereabouts(s, m)

SinceInPast == \A s \in Subscriber : since[s] <= Len(published) + 1

AInv == IInv /\ SinceInPast /\ Accounted

LEMMA AccountedForm == IInv /\ Accounted => EveryMessageAccounted
<1> SUFFICES ASSUME IInv, Accounted, NEW s \in Subscriber
             PROVE  Due(s) = seen[s] \cup InHand(s) \cup Queued(s)
                               \cup skipped[s] \cup ToBeSent(s)
  BY DEF EveryMessageAccounted
<1>1. /\ chan[s] \in Seq(Entry) /\ seen[s] \subseteq Message
      /\ skipped[s] \subseteq Message
      /\ msg[s] \in Entry \cup {None}
      /\ Len(published) \in Nat /\ Len(published) <= MaxMessages
  BY DEF IInv, TypeOK
<1>2. \A e \in Entry : e.id \in Message
  BY DEF Entry
<1>3. Queued(s) \subseteq Message
  BY <1>1, <1>2, ElementOfSeq DEF Queued
<1>4. InHand(s) \subseteq Message
  BY <1>1, <1>2 DEF InHand, IInv, HandlerHasMessage
<1>5. Due(s) \subseteq Message /\ ToBeSent(s) \subseteq Message
  BY <1>1, BoundsAssumption DEF Due, ToBeSent, Message
<1>6. \A m \in Message :
        /\ Waits(s, m) <=> m \in Queued(s)
        /\ m \in InHand(s) <=> (pc[s] = "handle" /\ msg[s].id = m)
  BY DEF Waits, Queued, InHand
<1>7. \A m \in Message :
        m \in Due(s) <=> m \in seen[s] \cup InHand(s) \cup Queued(s)
                               \cup skipped[s] \cup ToBeSent(s)
  BY <1>6 DEF Accounted, Whereabouts
<1> QED  BY <1>1, <1>3, <1>4, <1>5, <1>7

(* Nothing is due to a subscriber, or anywhere near it, at the start.       *)
LEMMA InitAccounted == Init => AInv
<1> SUFFICES ASSUME Init PROVE SinceInPast /\ Accounted
  BY InitInv DEF AInv
<1>1. SinceInPast
  BY DEF Init, SinceInPast
<1>2. Accounted
  BY DEF Init, Accounted, Whereabouts, Due, ToBeSent, Waits
<1> QED  BY <1>1, <1>2

(* A step that neither publishes nor registers changes nothing that is due. *)
LEMMA DueKept ==
    ASSUME UNCHANGED <<published, subscribers, since>>
    PROVE  /\ \A s \in Subscriber : Due(s)' = Due(s)
           /\ SinceInPast => SinceInPast'
  BY DEF Due, Registered, SinceInPast

LEMMA QuietAccounted == ASSUME AInv, Quiet PROVE Accounted' /\ SinceInPast'
<1>1. /\ UNCHANGED <<topics, subscribers, pub, chan, msg, published, since,
                      seen, skipped>>
      /\ \A s \in Subscriber : pc[s] = "handle" <=> pc'[s] = "handle"
  BY QuietFrame DEF AInv, IInv, storeVars
<1>2. \A s \in Subscriber : Due(s)' = Due(s) /\ ToBeSent(s)' = ToBeSent(s)
  BY <1>1, DueKept DEF ToBeSent
<1>3. \A s \in Subscriber, m \in Message :
        Whereabouts(s, m)' <=> Whereabouts(s, m)
  BY <1>1, <1>2 DEF Whereabouts, Waits
<1> QED  BY <1>1, <1>2, <1>3, DueKept DEF AInv, Accounted

LEMMA ClearAccounted == ASSUME AInv, Clear PROVE Accounted' /\ SinceInPast'
<1>1. UNCHANGED <<subscribers, pub, chan, pc, msg, published, since, seen,
                  skipped>>
  BY DEF Clear, callVars
<1>2. \A s \in Subscriber : Due(s)' = Due(s) /\ ToBeSent(s)' = ToBeSent(s)
  BY <1>1, DueKept DEF ToBeSent
<1>3. \A s \in Subscriber, m \in Message :
        Whereabouts(s, m)' <=> Whereabouts(s, m)
  BY <1>1, <1>2 DEF Whereabouts, Waits
<1> QED  BY <1>1, <1>2, <1>3, DueKept DEF AInv, Accounted

LEMMA HandleAccounted ==
    ASSUME AInv, NEW r \in Subscriber, Handle(r)
    PROVE  Accounted' /\ SinceInPast'
<1>1. /\ UNCHANGED <<subscribers, pub, chan, published, since, skipped>>
      /\ pc[r] = "handle" /\ pc'[r] = "select"
      /\ seen'[r] = seen[r] \cup {msg[r].id}
      /\ \A s \in Subscriber :
           s # r => pc'[s] = pc[s] /\ msg'[s] = msg[s] /\ seen'[s] = seen[s]
  BY DEF Handle, storeVars, AInv, IInv, TypeOK
<1>2. \A s \in Subscriber : Due(s)' = Due(s) /\ ToBeSent(s)' = ToBeSent(s)
  BY <1>1, DueKept DEF ToBeSent
<1>3. \A s \in Subscriber, m \in Message :
        Whereabouts(s, m)' <=> Whereabouts(s, m)
  BY <1>1, <1>2 DEF Whereabouts, Waits
<1> QED  BY <1>1, <1>2, <1>3, DueKept DEF AInv, Accounted

LEMMA ReceiveAccounted ==
    ASSUME AInv, NEW r \in Subscriber, Receive(r)
    PROVE  Accounted' /\ SinceInPast'
<1>1. /\ UNCHANGED <<subscribers, pub, published, since, seen, skipped>>
      /\ pc[r] = "select" /\ pc'[r] = "handle"
      /\ chan[r] # <<>> /\ chan[r] \in Seq(Entry)
      /\ msg'[r] = Head(chan[r]) /\ chan'[r] = Tail(chan[r])
      /\ \A s \in Subscriber :
           s # r => pc'[s] = pc[s] /\ msg'[s] = msg[s] /\ chan'[s] = chan[s]
  BY DEF Receive, storeVars, historyVars, AInv, IInv, TypeOK
<1>2. \A s \in Subscriber : Due(s)' = Due(s) /\ ToBeSent(s)' = ToBeSent(s)
  BY <1>1, DueKept DEF ToBeSent
<1>3. ASSUME NEW m \in Message
      PROVE  Waits(r, m) <=> Waits(r, m)' \/ msg'[r].id = m
  <2>1. /\ Len(chan[r]) \in Nat \ {0} /\ Head(chan[r]) = chan[r][1]
        /\ Len(Tail(chan[r])) = Len(chan[r]) - 1
        /\ \A k \in 1..Len(Tail(chan[r])) : Tail(chan[r])[k] = chan[r][k + 1]
    BY <1>1, HeadTailProperties
  <2>2. ASSUME NEW k \in 1..Len(chan[r]), chan[r][k].id = m
        PROVE  Waits(r, m)' \/ msg'[r].id = m
    <3>1. CASE k = 1
      BY <1>1, <2>1, <2>2, <3>1
    <3>2. CASE k # 1
      <4>1. PICK j \in 1..Len(Tail(chan[r])) : k = j + 1
        <5>1. k - 1 \in 1..Len(Tail(chan[r])) /\ k = (k - 1) + 1
          BY <2>1, <3>2
        <5> QED  BY <5>1
      <4>2. Tail(chan[r])[j].id = m
        BY <2>1, <2>2, <4>1
      <4> QED  BY <1>1, <4>2 DEF Waits
    <3> QED  BY <3>1, <3>2
  <2>3. ASSUME NEW k \in 1..Len(Tail(chan[r])), Tail(chan[r])[k].id = m
        PROVE  Waits(r, m)
    <3>1. k + 1 \in 1..Len(chan[r]) /\ chan[r][k + 1].id = m
      BY <2>1, <2>3
    <3> QED  BY <3>1 DEF Waits
  <2>4. 1 \in 1..Len(chan[r])
    BY <2>1
  <2> QED  BY <1>1, <2>1, <2>2, <2>3, <2>4 DEF Waits
<1>4. \A s \in Subscriber, m \in Message : s # r => (Waits(s, m)' <=> Waits(s, m))
  BY <1>1 DEF Waits
<1>5. \A s \in Subscriber, m \in Message :
        Whereabouts(s, m)' <=> Whereabouts(s, m)
  BY <1>1, <1>2, <1>3, <1>4 DEF Whereabouts
<1> QED  BY <1>1, <1>2, <1>5, DueKept DEF AInv, Accounted

(* A new registration is owed nothing; the older ones keep what is due.     *)
LEMMA SubscribeAccounted ==
    ASSUME AInv, NEW r \in Subscriber, NEW wanted \in SUBSET Topic,
           Subscribe(r, wanted)
    PROVE  Accounted' /\ SinceInPast'
<1>1. /\ UNCHANGED <<pub, chan, msg, published, seen, skipped>>
      /\ pub = None /\ pc[r] = "idle" /\ pc'[r] = "select"
      /\ since'[r] = Len(published) + 1 /\ Len(published) \in Nat
      /\ \A s \in Subscriber : s # r => pc'[s] = pc[s] /\ since'[s] = since[s]
      /\ \A t \in Topic :
           \/ subscribers'[t] = subscribers[t]
           \/ subscribers'[t] = Append(subscribers[t], r)
      /\ published \in Seq(Topic)
      /\ \A t \in Topic : subscribers[t] \in Seq(Subscriber)
  BY DEF Subscribe, AInv, IInv, TypeOK
<1>2. \A m \in Message : ~ Whereabouts(r, m)
  <2>1. \A t \in Topic : ~ Registered(r, t)
    BY <1>1 DEF AInv, IInv, RegisteredOnce, Registered
  <2>2. \A m \in Message : m \notin Due(r)
    BY <1>1, <2>1, ElementOfSeq DEF Due
  <2> QED  BY <2>2 DEF AInv, Accounted
<1>3. \A s \in Subscriber, m \in Message :
        Whereabouts(s, m)' <=> Whereabouts(s, m)
  <2>1. \A s \in Subscriber : ToBeSent(s)' = {} /\ ToBeSent(s) = {}
    BY <1>1 DEF ToBeSent
  <2> QED  BY <1>1, <2>1 DEF Whereabouts, Waits
<1>4. \A m \in Message : m \notin Due(r)'
  BY <1>1 DEF Due, Message
<1>5. ASSUME NEW s \in Subscriber, s # r PROVE Due(s)' = Due(s)
  <2>1. ASSUME NEW t \in Topic PROVE Registered(s, t)' <=> Registered(s, t)
    <3>1. CASE subscribers'[t] = subscribers[t]
      BY <3>1 DEF Registered
    <3>2. CASE subscribers'[t] = Append(subscribers[t], r)
      <4>1. /\ Len(subscribers[t]) \in Nat
            /\ Len(subscribers'[t]) = Len(subscribers[t]) + 1
            /\ subscribers'[t][Len(subscribers[t]) + 1] = r
            /\ \A k \in 1..Len(subscribers[t]) :
                 subscribers'[t][k] = subscribers[t][k]
        BY <1>1, <3>2
      <4>2. \A k \in 1..Len(subscribers'[t]) :
              k \in 1..Len(subscribers[t]) \/ k = Len(subscribers[t]) + 1
        BY <4>1
      <4>3. \A k \in 1..Len(subscribers[t]) : k \in 1..Len(subscribers'[t])
        BY <4>1
      <4> QED  BY <1>5, <4>1, <4>2, <4>3 DEF Registered
    <3> QED  BY <1>1, <3>1, <3>2
  <2>2. \A m \in 1..Len(published) : published[m] \in Topic
    BY <1>1, ElementOfSeq
  <2> QED  BY <1>1, <1>5, <2>1, <2>2 DEF Due
<1>6. SinceInPast'
  BY <1>1 DEF AInv, SinceInPast
<1> QED  BY <1>2, <1>3, <1>4, <1>5, <1>6 DEF AInv, Accounted

(* What a step of PublishBatch's loops takes off the list.                  *)
LEMMA OneLessToSend ==
    ASSUME IInv, pub # None, pub' = Advance, UNCHANGED subscribers,
           NEW r \in Subscriber, r = Target,
           NEW s \in Subscriber, NEW m \in Message
    PROVE  m \in ToBeSent(s)
             <=> m \in ToBeSent(s)' \/ (s = r /\ m = pub.first + pub.i)
<1>1. /\ pub \in Batch /\ pub.topic \in Topic
      /\ pub.first \in Nat /\ pub.i \in Nat /\ pub.sub \in Nat
      /\ pub.size \in Nat /\ m \in Nat
  <2>1. pub \in Batch
    BY DEF IInv, TypeOK
  <2> QED  BY <2>1 DEF Batch, Message
<1> DEFINE regs == subscribers[pub.topic]
<1>2. /\ pub.sub \in 1..Len(regs) /\ Len(regs) \in Nat /\ pub.i < pub.size
      /\ regs[pub.sub] = r
      /\ \A k \in 1..Len(regs) : regs[k] = r => k = pub.sub
  <2>1. pub.sub \in 1..Len(regs) /\ Len(regs) \in Nat /\ pub.i < pub.size
    BY <1>1 DEF IInv, TypeOK, BatchShape
  <2>2. \A j, k \in 1..Len(regs) : regs[j] = regs[k] => j = k
    BY <1>1 DEF IInv, RegisteredOnce
  <2>3. regs[pub.sub] = r
    BY DEF Target
  <2> QED  BY <2>1, <2>2, <2>3
<1>3. m \in ToBeSent(s) <=>
        /\ m < pub.first + pub.size
        /\ \E k \in 1..Len(regs) :
             /\ regs[k] = s
             /\ \/ k > pub.sub /\ m >= pub.first
                \/ k = pub.sub /\ m >= pub.first + pub.i
  BY DEF ToBeSent
<1> HIDE DEF regs
<1>4. CASE /\ Advance = [pub EXCEPT !.i = @ + 1]
           /\ pub.i + 1 < pub.size
  <2>1. /\ pub' # None /\ pub'.topic = pub.topic /\ pub'.first = pub.first
        /\ pub'.size = pub.size /\ pub'.sub = pub.sub /\ pub'.i = pub.i + 1
    <3>1. pub' \in Batch
      BY <1>1, <1>4, AdvanceCases, NoneAssumption DEF Batch
    <3> QED  BY <1>1, <1>4, <3>1, NoneAssumption DEF Batch
  <2>2. m \in ToBeSent(s)' <=>
          /\ m < pub.first + pub.size
          /\ \E k \in 1..Len(regs) :
               /\ regs[k] = s
               /\ \/ k > pub.sub /\ m >= pub.first
                  \/ k = pub.sub /\ m >= pub.first + (pub.i + 1)
    BY <2>1 DEF ToBeSent, regs
  <2>3. (m >= pub.first + pub.i)
          <=> (m >= pub.first + (pub.i + 1) \/ m = pub.first + pub.i)
    BY <1>1
  <2>4. m = pub.first + pub.i => m < pub.first + pub.size
    <3>1. pub.i < pub.size
      BY <1>2
    <3> QED  BY <1>1, <3>1
  <2> QED  BY <1>2, <1>3, <2>2, <2>3, <2>4
<1>5. CASE /\ Advance = [pub EXCEPT !.sub = @ + 1, !.i = 0]
           /\ pub.sub < Len(regs) /\ pub.i + 1 = pub.size
  <2>1. /\ pub' # None /\ pub'.topic = pub.topic /\ pub'.first = pub.first
        /\ pub'.size = pub.size /\ pub'.sub = pub.sub + 1 /\ pub'.i = 0
    <3>1. pub' \in Batch
      <4>1. pub.sub + 1 \in Nat /\ 0 \in Nat
        BY <1>1
      <4> QED  BY <1>1, <1>5, <4>1 DEF Batch
    <3> QED  BY <1>1, <1>5, <3>1, NoneAssumption DEF Batch
  <2>2. m \in ToBeSent(s)' <=>
          /\ m < pub.first + pub.size
          /\ \E k \in 1..Len(regs) :
               /\ regs[k] = s
               /\ \/ k > pub.sub + 1 /\ m >= pub.first
                  \/ k = pub.sub + 1 /\ m >= pub.first + 0
    BY <2>1 DEF ToBeSent, regs
  <2>3. \A k \in 1..Len(regs) :
          k > pub.sub <=> k > pub.sub + 1 \/ k = pub.sub + 1
    BY <1>2
  <2>4. m < pub.first + pub.size /\ m >= pub.first + pub.i
          <=> m = pub.first + pub.i
    BY <1>1, <1>5
  <2>5. pub.first + 0 = pub.first /\ m = pub.first + pub.i => m >= pub.first
    BY <1>1
  <2> QED  BY <1>1, <1>2, <1>3, <2>2, <2>3, <2>4, <2>5
<1>6. CASE Advance = None /\ pub.sub = Len(regs) /\ pub.i + 1 = pub.size
  <2>1. m \notin ToBeSent(s)'
    BY <1>6 DEF ToBeSent
  <2>2. \A k \in 1..Len(regs) : ~ (k > pub.sub)
    BY <1>2, <1>6
  <2>3. m < pub.first + pub.size /\ m >= pub.first + pub.i
          <=> m = pub.first + pub.i
    BY <1>1, <1>6
  <2> QED  BY <1>2, <1>3, <2>1, <2>2, <2>3
<1> QED
  <2>1. pub.i + 1 < pub.size \/ pub.i + 1 = pub.size
    BY <1>1, <1>2
  <2>2. pub.sub < Len(regs) \/ pub.sub = Len(regs)
    BY <1>2
  <2> QED
    BY <1>1, <1>2, <1>4, <1>5, <1>6, <2>1, <2>2 DEF Advance, NextSubscriber, regs

LEMMA SendAccounted == ASSUME AInv, Send PROVE Accounted' /\ SinceInPast'
<1>1. /\ UNCHANGED <<topics, subscribers, pc, msg, published, since, seen,
                      skipped>>
      /\ pub # None /\ pub' = Advance
  BY DEF Send, historyVars
<1>2. PICK r \in Subscriber : r = Target
  BY <1>1, OutgoingShape DEF AInv
<1>3. PICK o \in Entry : o = Outgoing /\ o.id = pub.first + pub.i
  BY <1>1, OutgoingShape DEF AInv
<1>4. /\ \A s \in Subscriber : s # r => chan'[s] = chan[s]
      /\ Len(chan[r]) \in Nat
      /\ Len(chan'[r]) = Len(chan[r]) + 1
      /\ chan'[r][Len(chan[r]) + 1] = o
      /\ \A k \in 1..Len(chan[r]) : chan'[r][k] = chan[r][k]
  <2>1. chan \in [Subscriber -> Seq(Entry)]
    BY DEF AInv, IInv, TypeOK
  <2>2. chan' = [chan EXCEPT ![r] = Append(@, o)]
    BY <1>2, <1>3 DEF Send
  <2> QED  BY <2>1, <2>2
<1>5. ASSUME NEW m \in Message
      PROVE  Waits(r, m)' <=> Waits(r, m) \/ m = o.id
  <2>1. \A k \in 1..Len(chan'[r]) :
          k \in 1..Len(chan[r]) \/ k = Len(chan[r]) + 1
    BY <1>4
  <2>2. /\ \A k \in 1..Len(chan[r]) : k \in 1..Len(chan'[r])
        /\ Len(chan[r]) + 1 \in 1..Len(chan'[r])
    BY <1>4
  <2> QED  BY <1>4, <2>1, <2>2 DEF Waits
<1>6. \A s \in Subscriber, m \in Message :
        s # r => (Waits(s, m)' <=> Waits(s, m))
  BY <1>4 DEF Waits
<1>7. \A s \in Subscriber, m \in Message :
        m \in ToBeSent(s)
          <=> m \in ToBeSent(s)' \/ (s = r /\ m = pub.first + pub.i)
  BY <1>1, <1>2, OneLessToSend DEF AInv
<1>8. \A s \in Subscriber, m \in Message :
        Whereabouts(s, m)' <=> Whereabouts(s, m)
  BY <1>1, <1>3, <1>5, <1>6, <1>7 DEF Whereabouts
<1> QED  BY <1>1, <1>8, DueKept DEF AInv, Accounted

LEMMA SkipAccounted == ASSUME AInv, Skip PROVE Accounted' /\ SinceInPast'
<1>1. /\ UNCHANGED <<topics, subscribers, chan, pc, msg, published, since,
                      seen>>
      /\ pub # None /\ pub' = Advance
  BY DEF Skip, callVars
<1>2. PICK r \in Subscriber : r = Target
  BY <1>1, OutgoingShape DEF AInv
<1>3. \A s \in Subscriber, m \in Message :
        m \in skipped'[s]
          <=> m \in skipped[s] \/ (s = r /\ m = pub.first + pub.i)
  <2>1. skipped \in [Subscriber -> SUBSET Message]
    BY DEF AInv, IInv, TypeOK
  <2>2. skipped' = [skipped EXCEPT ![r] = @ \cup {pub.first + pub.i}]
    BY <1>2 DEF Skip, Outgoing
  <2> QED  BY <2>1, <2>2
<1>4. \A s \in Subscriber, m \in Message :
        m \in ToBeSent(s)
          <=> m \in ToBeSent(s)' \/ (s = r /\ m = pub.first + pub.i)
  BY <1>1, <1>2, OneLessToSend DEF AInv
<1>5. \A s \in Subscriber, m \in Message :
        Whereabouts(s, m)' <=> Whereabouts(s, m)
  BY <1>1, <1>3, <1>4 DEF Whereabouts, Waits
<1> QED  BY <1>1, <1>5, DueKept DEF AInv, Accounted

(* What a PublishBatch adds to what is due is what it is about to send.     *)
LEMMA PublishAccounted ==
    ASSUME AInv, NEW t \in Topic, NEW n \in 1..MaxBatch, Publish(t, n)
    PROVE  Accounted' /\ SinceInPast'
<1> DEFINE L == Len(published)
<1>1. /\ n \in Nat \ {0} /\ L \in Nat /\ pub = None
      /\ UNCHANGED <<subscribers, chan, pc, msg, since, seen, skipped>>
      /\ published \in Seq(Topic)
      /\ subscribers[t] \in Seq(Subscriber)
      /\ since \in [Subscriber -> 1..(MaxMessages + 1)]
      /\ MaxMessages \in Nat /\ L + n <= MaxMessages
  BY BoundsAssumption DEF Publish, AInv, IInv, TypeOK, callVars
<1>2. /\ Len(published') = L + n
      /\ \A m \in 1..L : published'[m] = published[m]
      /\ \A m \in (L + 1)..(L + n) : published'[m] = t
  <2>1. /\ [j \in 1..n |-> t] \in Seq(Topic)
        /\ Len([j \in 1..n |-> t]) = n
    BY <1>1, BatchSequences, BoundsAssumption DEF Publish, AInv, IInv
  <2>2. /\ published' = published \o [j \in 1..n |-> t]
    BY DEF Publish
  <2>3. /\ Len(published') = L + n
        /\ \A m \in 1..(L + n) :
             published'[m] = IF m <= L THEN published[m]
                                       ELSE [j \in 1..n |-> t][m - L]
    BY <1>1, <2>1, <2>2, ConcatProperties
  <2>4. \A m \in 1..L : m \in 1..(L + n) /\ m <= L
    BY <1>1
  <2>5. \A m \in (L + 1)..(L + n) :
          m \in 1..(L + n) /\ ~ (m <= L) /\ m - L \in 1..n
    BY <1>1
  <2> QED  BY <2>3, <2>4, <2>5
<1>3. \A s \in Subscriber, u \in Topic :
        Registered(s, u)' <=> Registered(s, u)
  BY <1>1 DEF Registered
<1>4. ASSUME NEW s \in Subscriber, NEW m \in Message
      PROVE  m \in Due(s)' <=>
               \/ m \in Due(s)
               \/ m \in (L + 1)..(L + n) /\ Registered(s, t)
  <2>1. m \in 1..(L + n) <=> m \in 1..L \/ m \in (L + 1)..(L + n)
    BY <1>1 DEF Message
  <2>2. ~ (m \in 1..L /\ m \in (L + 1)..(L + n))
    BY <1>1 DEF Message
  <2>3. m \in (L + 1)..(L + n) => m >= since[s]
    BY <1>1 DEF AInv, SinceInPast
  <2>4. m \in 1..L => published[m] \in Topic
    BY <1>1, ElementOfSeq
  <2> HIDE DEF L
  <2>5. m \in Due(s)' <=>
          m \in 1..(L + n) /\ m >= since[s] /\ Registered(s, published[m])'
    BY <1>1, <1>2 DEF Due
  <2>6. m \in 1..L =>
          (Registered(s, published[m])' <=> Registered(s, published[m]))
    BY <1>1, <1>2, <2>4 DEF Registered
  <2>7. m \in (L + 1)..(L + n) =>
          (Registered(s, published[m])' <=> Registered(s, t))
    BY <1>1, <1>2 DEF Registered
  <2>8. m \in Due(s) <=>
          m \in 1..L /\ m >= since[s] /\ Registered(s, published[m])
    BY DEF Due, L
  <2> QED  BY <2>1, <2>2, <2>3, <2>5, <2>6, <2>7, <2>8
<1>5. ASSUME NEW s \in Subscriber, NEW m \in Message
      PROVE  /\ m \notin ToBeSent(s)
             /\ m \in ToBeSent(s)' <=>
                  m \in (L + 1)..(L + n) /\ Registered(s, t)
  <2>1. m \notin ToBeSent(s)
    BY <1>1 DEF ToBeSent
  <2>2. CASE subscribers[t] = <<>>
    <3>1. pub' = None /\ ~ Registered(s, t)
      BY <2>2 DEF Publish, Registered
    <3> QED  BY <2>1, <3>1 DEF ToBeSent
  <2>3. CASE subscribers[t] # <<>>
    <3>1. pub' = [topic |-> t, first |-> L + 1, size |-> n, sub |-> 1,
                  i |-> 0]
      BY <2>3 DEF Publish
    <3>2. pub' # None
      <4>1. pub' \in Batch
        BY <1>1, <3>1 DEF Batch, Message
      <4> QED  BY <4>1, NoneAssumption
    <3>3. /\ pub'.topic = t /\ pub'.first = L + 1 /\ pub'.size = n
          /\ pub'.sub = 1 /\ pub'.i = 0
      BY <3>1
    <3> HIDE DEF L
    <3>4. m \in ToBeSent(s)' <=>
            /\ m < L + 1 + n
            /\ \E k \in 1..Len(subscribers[t]) :
                 /\ subscribers[t][k] = s
                 /\ \/ k > 1 /\ m >= L + 1
                    \/ k = 1 /\ m >= L + 1 + 0
      BY <1>1, <3>2, <3>3 DEF ToBeSent
    <3>5. \A k \in 1..Len(subscribers[t]) : k > 1 \/ k = 1
      BY <1>1
    <3>6. L + 1 + 0 = L + 1
      BY <1>1
    <3>7. m \in (L + 1)..(L + n) <=> m < L + 1 + n /\ m >= L + 1
      BY <1>1 DEF Message
    <3> QED  BY <2>1, <3>4, <3>5, <3>6, <3>7 DEF Registered
  <2> QED  BY <2>2, <2>3
<1>6. ASSUME NEW s \in Subscriber, NEW m \in Message
      PROVE  Whereabouts(s, m)' <=> Whereabouts(s, m) \/ m \in ToBeSent(s)'
  BY <1>1, <1>5 DEF Whereabouts, Waits
<1>7. Accounted'
  BY <1>4, <1>5, <1>6 DEF AInv, Accounted
<1>8. SinceInPast'
  BY <1>1, <1>2 DEF AInv, SinceInPast
<1> QED  BY <1>7, <1>8

LEMMA NextAccounted == AInv /\ [Next]_vars => AInv'
<1> SUFFICES ASSUME AInv, [Next]_vars PROVE Accounted' /\ SinceInPast'
  BY NextInv DEF AInv
<1>1. CASE UNCHANGED vars
  <2>1. /\ UNCHANGED <<subscribers, pub, chan, pc, msg, published, since,
                        seen, skipped>>
    BY <1>1 DEF vars, storeVars, callVars, historyVars
  <2>2. \A s \in Subscriber : Due(s)' = Due(s) /\ ToBeSent(s)' = ToBeSent(s)
    BY <2>1, DueKept DEF ToBeSent
  <2> QED  BY <2>1, <2>2, DueKept DEF AInv, Accounted, Whereabouts, Waits
<1>2. CASE \E t \in Topic, n \in 1..MaxBatch : Publish(t, n)
  BY <1>2, PublishAccounted
<1>3. CASE Send
  BY <1>3, SendAccounted
<1>4. CASE Skip
  BY <1>4, SkipAccounted
<1>5. CASE \E s \in Subscriber : \E wanted \in SUBSET Topic :
             Subscribe(s, wanted)
  BY <1>5, SubscribeAccounted
<1>6. CASE \E s \in Subscriber : Receive(s)
  BY <1>6, ReceiveAccounted
<1>7. CASE \E s \in Subscriber : Handle(s)
  BY <1>7, HandleAccounted
<1>8. CASE Clear
  BY <1>8, ClearAccounted
<1>9. CASE Quiet
  BY <1>9, QuietAccounted
<1> QED
  BY Zenon, <1>1, <1>2, <1>3, <1>4, <1>5, <1>6, <1>7, <1>8, <1>9
  DEF Next, PublishStep, SubscriberStep, Quiet

(* Every message published after a registration is handled, in hand,        *)
(* queued, still on its way or met a full channel: none disappears.         *)
THEOREM NoMessageAstray == Spec => []EveryMessageAccounted
<1>1. AInv => EveryMessageAccounted
  BY AccountedForm DEF AInv
<1>2. Spec => []AInv
  BY InitAccounted, NextAccounted, PTL DEF Spec
<1> QED  BY <1>1, <1>2, PTL

----------------------------------------------------------------------------
(* What is due to a subscriber can be counted.                              *)
LEMMA DueFinite ==
    ASSUME IInv, NEW s \in Subscriber
    PROVE  IsFiniteSet(Due(s)) /\ Cardinality(Due(s)) \in Nat
<1>1. Len(published) \in Nat
  BY DEF IInv, TypeOK
<1>2. IsFiniteSet(1..Len(published))
  BY <1>1, FS_Interval
<1>3. Due(s) \in SUBSET (1..Len(published))
  BY DEF Due
<1>4. IsFiniteSet(Due(s))
  BY <1>2, <1>3, FS_Subset
<1> QED  BY <1>4, FS_CardinalityType

(* A message that is due stays due.                                         *)
LEMMA DueGrows ==
    ASSUME AInv, [Next]_vars, NEW s \in Subscriber
    PROVE  Due(s) \subseteq Due(s)'
<1>1. CASE UNCHANGED <<published, subscribers, since>>
  BY <1>1, DueKept
<1>2. CASE \E t \in Topic, n \in 1..MaxBatch : Publish(t, n)
  <2>1. PICK t \in Topic, n \in 1..MaxBatch : Publish(t, n)
    BY <1>2
  <2>2. /\ n \in Nat \ {0} /\ Len(published) \in Nat
        /\ UNCHANGED <<subscribers, since>>
        /\ published \in Seq(Topic)
    BY <2>1, BoundsAssumption DEF Publish, AInv, IInv, TypeOK
  <2>3. /\ [j \in 1..n |-> t] \in Seq(Topic)
        /\ Len([j \in 1..n |-> t]) = n
    BY <2>1, BatchSequences, BoundsAssumption DEF Publish, AInv, IInv
  <2>4. /\ Len(published') = Len(published) + n
        /\ \A m \in 1..(Len(published) + n) :
             published'[m] = IF m <= Len(published)
                               THEN published[m]
                               ELSE [j \in 1..n |-> t][m - Len(published)]
    BY <2>1, <2>2, <2>3, ConcatProperties DEF Publish
  <2>5. \A m \in 1..Len(published) :
          m \in 1..Len(published') /\ published'[m] = published[m]
    BY <2>2, <2>4
  <2>6. \A u : Registered(s, u)' <=> Registered(s, u)
    BY <2>2 DEF Registered
  <2>7. ASSUME NEW m \in Due(s) PROVE m \in Due(s)'
    <3>1. /\ m \in 1..Len(published) /\ m >= since[s]
          /\ Registered(s, published[m])
      BY DEF Due
    <3>2. Registered(s, published[m])'
      BY <2>2, <2>5, <3>1 DEF Registered
    <3> QED  BY <2>2, <2>5, <3>1, <3>2 DEF Due
  <2> QED  BY <2>7
<1>3. CASE \E r \in Subscriber : \E wanted \in SUBSET Topic :
             Subscribe(r, wanted)
  <2>1. PICK r \in Subscriber, wanted \in SUBSET Topic : Subscribe(r, wanted)
    BY <1>3
  <2>2. /\ pc[r] = "idle" /\ published' = published
        /\ \A q \in Subscriber : q # r => since'[q] = since[q]
        /\ \A t \in Topic :
             \/ subscribers'[t] = subscribers[t]
             \/ subscribers'[t] = Append(subscribers[t], r)
        /\ published \in Seq(Topic)
        /\ \A t \in Topic : subscribers[t] \in Seq(Subscriber)
    BY <2>1 DEF Subscribe, AInv, IInv, TypeOK
  <2>3. \A m \in 1..Len(published) : published[m] \in Topic
    BY <2>2, ElementOfSeq
  <2>4. CASE s = r
    <3>1. \A t \in Topic : ~ Registered(r, t)
      BY <2>2 DEF AInv, IInv, RegisteredOnce, Registered
    <3> QED  BY <2>3, <2>4, <3>1 DEF Due
  <2>5. CASE s # r
    <3>1. ASSUME NEW t \in Topic, Registered(s, t) PROVE Registered(s, t)'
      <4>1. PICK k \in 1..Len(subscribers[t]) : subscribers[t][k] = s
        BY <3>1 DEF Registered
      <4>2. k \in 1..Len(subscribers'[t]) /\ subscribers'[t][k] = s
        BY <2>2, <4>1
      <4> QED  BY <4>2 DEF Registered
    <3> QED  BY <2>2, <2>3, <2>5, <3>1 DEF Due
  <2> QED  BY <2>4, <2>5
<1> QED
  <2>1. \/ UNCHANGED <<published, subscribers, since>>
        \/ \E t \in Topic, n \in 1..MaxBatch : Publish(t, n)
        \/ \E r \in Subscriber : \E wanted \in SUBSET Topic :
             Subscribe(r, wanted)
    BY DEF Next, PublishStep, SubscriberStep, Send, Skip, Receive, Handle,
           Leave, Cancel, Clear, vars, storeVars, historyVars, callVars
  <2> QED  BY <1>1, <1>2, <1>3, <2>1

(* A full channel holds nothing but messages that are due to its            *)
(* subscriber, and the one that does not fit is due as well.                *)
LEMMA SkippedMeansFull ==
    ASSUME AInv, Skip
    PROVE  Cardinality(Due(Target)) > Capacity
<1>1. /\ pub # None /\ Len(chan[Target]) = Capacity
      /\ Capacity \in Nat \ {0}
  BY BoundsAssumption DEF Skip
<1>2. PICK r \in Subscriber : r = Target
  BY <1>1, OutgoingShape DEF AInv
<1>3. PICK o \in Message : o = Outgoing.id /\ o = pub.first + pub.i
  BY <1>1, OutgoingShape DEF AInv, Entry
<1>4. chan[r] \in Seq(Entry) /\ Len(chan[r]) = Capacity
  BY <1>1, <1>2 DEF AInv, IInv, TypeOK
<1>5. /\ pub \in Batch /\ pub.topic \in Topic
      /\ pub.first \in Nat /\ pub.i \in Nat /\ pub.size \in Nat
  <2>1. pub \in Batch
    BY <1>1 DEF AInv, IInv, TypeOK
  <2> QED  BY <2>1 DEF Batch, Message
<1>6. /\ pub.sub \in 1..Len(subscribers[pub.topic]) /\ pub.i < pub.size
      /\ subscribers[pub.topic][pub.sub] = r
  BY <1>1, <1>2 DEF AInv, IInv, BatchShape, Target
<1>7. o \in Due(r)
  <2>1. o \in ToBeSent(r)
    <3>1. o < pub.first + pub.size /\ o >= pub.first + pub.i
      BY <1>3, <1>5, <1>6
    <3> QED  BY <1>1, <1>6, <3>1 DEF ToBeSent
  <2> QED  BY <2>1 DEF AInv, Accounted, Whereabouts
<1>8. ASSUME NEW k \in 1..Capacity PROVE chan[r][k].id \in Due(r)
  <2>1. chan[r][k] \in Entry
    BY <1>4, ElementOfSeq
  <2>2. chan[r][k].id \in Message
    BY <2>1 DEF Entry
  <2>3. Waits(r, chan[r][k].id)
    BY <1>4 DEF Waits
  <2> QED  BY <2>2, <2>3 DEF AInv, Accounted, Whereabouts
<1>9. \A k \in 1..Capacity : chan[r][k].id < o
  BY <1>1, <1>3, <1>4, <1>6 DEF AInv, IInv, SentInTurn, AllBelow
<1>10. \A j, k \in 1..Capacity : j < k => chan[r][j].id < chan[r][k].id
  BY <1>4 DEF AInv, IInv, QueueIncreasing
<1>11. \A m \in Due(r) : m \in Nat
  BY DEF Due
<1> DEFINE f == [k \in 1..(Capacity + 1) |->
                   IF k <= Capacity THEN chan[r][k].id ELSE o]
<1>12. f \in Injection(1..(Capacity + 1), Due(r))
  <2>1. \A k \in 1..(Capacity + 1) :
          \/ k \in 1..Capacity /\ f[k] = chan[r][k].id
          \/ k = Capacity + 1 /\ f[k] = o
    BY <1>1
  <2>2. \A k \in 1..(Capacity + 1) : f[k] \in Due(r)
    BY <1>7, <1>8, <2>1
  <2>3. f \in [1..(Capacity + 1) -> Due(r)]
    BY <2>2
  <2>4. \A j, k \in 1..(Capacity + 1) : j < k => f[j] < f[k]
    <3> SUFFICES ASSUME NEW j \in 1..(Capacity + 1),
                        NEW k \in 1..(Capacity + 1), j < k
                 PROVE  f[j] < f[k]
      OBVIOUS
    <3>1. j \in 1..Capacity /\ f[j] = chan[r][j].id
      BY <1>1
    <3> HIDE DEF f
    <3> QED  BY <1>9, <1>10, <2>1, <3>1
  <2> HIDE DEF f
  <2>5. ASSUME NEW j \in 1..(Capacity + 1), NEW k \in 1..(Capacity + 1),
               f[j] = f[k]
        PROVE  j = k
    <3>1. f[j] \in Nat /\ f[k] \in Nat
      BY <1>11, <2>2
    <3>2. ~ (f[j] < f[k]) /\ ~ (f[k] < f[j])
      BY <2>5, <3>1
    <3>3. ~ (j < k) /\ ~ (k < j)
      BY <2>4, <3>2
    <3> QED  BY <1>1, <3>3
  <2> QED  BY <2>3, <2>5 DEF Injection, IsInjective
<1>13. IsFiniteSet(Due(r)) /\ Cardinality(Due(r)) \in Nat
  BY DueFinite DEF AInv
<1>14. Cardinality(1..(Capacity + 1)) <= Cardinality(Due(r))
  BY <1>12, <1>13, FS_Injection
<1>15. Cardinality(1..(Capacity + 1)) = Capacity + 1
  <2>1. 1 \in Int /\ Capacity + 1 \in Int /\ ~ (1 > Capacity + 1)
        /\ (Capacity + 1) - 1 + 1 = Capacity + 1
    BY <1>1
  <2> QED  BY <2>1, FS_Interval
<1> QED  BY <1>1, <1>2, <1>13, <1>14, <1>15

(* Only a subscriber whose channel is full misses a message, and it has     *)
(* been due more than that ever since.                                      *)
LEMMA RoomKept ==
    AInv /\ NothingSkippedWithRoom /\ [Next]_vars => NothingSkippedWithRoom'
<1> SUFFICES ASSUME AInv, NothingSkippedWithRoom, [Next]_vars,
                    NEW s \in Subscriber, skipped'[s] # {}
             PROVE  ~ (Cardinality(Due(s)') <= Capacity)
  BY BoundsAssumption DEF NothingSkippedWithRoom
<1>1. IInv /\ IInv'
  BY NextInv DEF AInv
<1>2. IsFiniteSet(Due(s)) /\ Cardinality(Due(s)) \in Nat
  BY <1>1, DueFinite
<1>3. IsFiniteSet(Due(s)') /\ Cardinality(Due(s)') \in Nat
  <2>1. Len(published') \in Nat
    BY <1>1 DEF IInv, TypeOK
  <2>2. IsFiniteSet(1..Len(published'))
    BY <2>1, FS_Interval
  <2>3. Due(s)' \in SUBSET (1..Len(published'))
    BY DEF Due
  <2>4. IsFiniteSet(Due(s)')
    BY <2>2, <2>3, FS_Subset
  <2> QED  BY <2>4, FS_CardinalityType
<1>4. Cardinality(Due(s)) <= Cardinality(Due(s)')
  BY <1>3, DueGrows, FS_Subset
<1>5. Capacity \in Nat
  BY BoundsAssumption
<1>6. Cardinality(Due(s)) > Capacity
  <2>1. CASE skipped'[s] = skipped[s]
    BY <1>2, <1>5, <2>1 DEF NothingSkippedWithRoom
  <2>2. CASE skipped'[s] # skipped[s]
    <3>1. Skip
      BY <2>2 DEF Next, PublishStep, SubscriberStep, Publish, Send, Subscribe,
                  Receive, Handle, Leave, Cancel, Clear, vars, historyVars
    <3>2. s = Target
      BY <2>2, <3>1 DEF Skip, AInv, IInv, TypeOK
    <3> QED  BY <3>1, <3>2, SkippedMeansFull
  <2> QED  BY <2>1, <2>2
<1> QED  BY <1>2, <1>3, <1>4, <1>5, <1>6

(* A test that publishes no more than a channel holds misses nothing: the   *)
(* default branch of PublishBatch's send drops a message only when more     *)
(* than Capacity messages are due to that subscriber.                       *)
THEOREM RoomForAll == Spec => []NothingSkippedWithRoom
<1>1. Init => NothingSkippedWithRoom
  BY DEF Init, NothingSkippedWithRoom
<1>2. Spec => []AInv
  BY InitAccounted, NextAccounted, PTL DEF Spec
<1> QED  BY <1>1, <1>2, RoomKept, PTL DEF Spec
=============================================================================
