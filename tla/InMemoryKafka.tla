--------------------------- MODULE InMemoryKafka ---------------------------
(***************************************************************************)
(* The in-memory producer and consumer that package kafka/testutil gives   *)
(* to tests: stored messages per topic, and one buffered channel for every *)
(* Subscribe call.  PublishBatch holds the mutex from the first to the     *)
(* last send, but the subscribers receive without it, so a send is a step  *)
(* of its own.                                                             *)
(*                                                                         *)
(* A message is the number of its publication.                             *)
(***************************************************************************)
EXTENDS Integers, Sequences, FiniteSets

CONSTANTS
    Topic,
    Subscriber,   \* the Subscribe calls of the test
    Capacity,     \* of a subscriber's channel, 100 in the code
    MaxMessages,  \* bound on the messages published (the code has none)
    MaxBatch,     \* bound on the messages of one PublishBatch (none either)
    None          \* no PublishBatch is running, no message is handled

ASSUME BoundsAssumption ==
    /\ Capacity \in Nat \ {0}
    /\ MaxMessages \in Nat
    /\ MaxBatch \in Nat

Message == 1..MaxMessages

(* A kafka.ConsumerMessage, and the loop state of a PublishBatch: messages  *)
(* first to first + size - 1 on their way, the i-th to subscriber sub.      *)
Entry == [topic : Topic, offset : 0..MaxMessages, id : Message]
Batch == [topic : Topic, first : Message, size : 1..MaxBatch,
          sub : Nat, i : Nat]

ASSUME NoneAssumption == None \notin Entry \cup Batch

VARIABLES
    topics,       \* p.topics: the messages of every topic
    subscribers,  \* p.subscribers: the channels of every topic
    pub,          \* the PublishBatch that holds p.mu, or None
    chan,         \* the channel of every Subscribe call
    pc,           \* where every Subscribe call stands
    msg,          \* the message its handler has
    cancelled,    \* whether its context is done

    published,    \* history: the topic of every message
    since,        \* history: the first message after the registration
    seen,         \* history: what the handler was given
    skipped,      \* history: what a full channel did not take
    cleared       \* history: the last message before the last Clear

storeVars   == <<topics, subscribers, pub>>
callVars    == <<chan, pc, msg, cancelled>>
historyVars == <<published, since, seen, skipped, cleared>>
vars == <<storeVars, callVars, historyVars>>

TypeOK ==
    /\ topics \in [Topic -> Seq(Message)]
    /\ subscribers \in [Topic -> Seq(Subscriber)]
    /\ pub \in Batch \cup {None}
    /\ chan \in [Subscriber -> Seq(Entry)]
    /\ pc \in [Subscriber -> {"idle", "select", "handle", "returned"}]
    /\ msg \in [Subscriber -> Entry \cup {None}]
    /\ cancelled \in [Subscriber -> BOOLEAN]
    /\ published \in Seq(Topic) /\ Len(published) <= MaxMessages
    /\ since \in [Subscriber -> 1..(MaxMessages + 1)]
    /\ seen \in [Subscriber -> SUBSET Message]
    /\ skipped \in [Subscriber -> SUBSET Message]
    /\ cleared \in 0..MaxMessages

Init ==
    /\ topics = [t \in Topic |-> <<>>]
    /\ subscribers = [t \in Topic |-> <<>>]
    /\ pub = None
    /\ chan = [s \in Subscriber |-> <<>>]
    /\ pc = [s \in Subscriber |-> "idle"]
    /\ msg = [s \in Subscriber |-> None]
    /\ cancelled = [s \in Subscriber |-> FALSE]
    /\ published = <<>>
    /\ since = [s \in Subscriber |-> 1]
    /\ seen = [s \in Subscriber |-> {}]
    /\ skipped = [s \in Subscriber |-> {}]
    /\ cleared = 0

----------------------------------------------------------------------------
(* PublishBatch takes the mutex and stores the messages.  Without           *)
(* subscribers there is nothing else to do.                                 *)
Publish(t, n) ==
    /\ pub = None
    /\ Len(published) + n <= MaxMessages
    /\ topics' = [topics EXCEPT
                    ![t] = @ \o [j \in 1..n |-> Len(published) + j]]
    /\ published' = published \o [j \in 1..n |-> t]
    /\ pub' = IF subscribers[t] = <<>>
                THEN None
                ELSE [topic |-> t, first |-> Len(published) + 1, size |-> n,
                      sub |-> 1, i |-> 0]
    /\ UNCHANGED <<subscribers, callVars, since, seen, skipped, cleared>>

(* Mutant: the position in the batch is left out of the offset.             *)
OutgoingWithoutIndex ==
    [topic |-> pub.topic,
     offset |-> Len(topics[pub.topic]) - pub.size,
     id |-> pub.first + pub.i]

(* The two nested loops of PublishBatch: the channel it is at, the message  *)
(* it has for it, and where it goes next.                                   *)
Target == subscribers[pub.topic][pub.sub]

(* Mutant: the index is subtracted.                                         *)
OutgoingWrongSign ==
    [topic |-> pub.topic,
     offset |-> Len(topics[pub.topic]) - pub.size - pub.i,
     id |-> pub.first + pub.i]

Outgoing ==
    [topic |-> pub.topic,
     offset |-> Len(topics[pub.topic]) - pub.size + pub.i,
     id |-> pub.first + pub.i]

(* Mutant: the second loop goes on from the first one's index.              *)
NextSubscriberKeepsIndex ==
    IF pub.sub < Len(subscribers[pub.topic])
      THEN [pub EXCEPT !.sub = @ + 1]
      ELSE None

NextSubscriber ==
    IF pub.sub < Len(subscribers[pub.topic])
      THEN [pub EXCEPT !.sub = @ + 1, !.i = 0]
      ELSE None

Advance ==
    IF pub.i + 1 < pub.size THEN [pub EXCEPT !.i = @ + 1] ELSE NextSubscriber

Send ==
    /\ pub # None
    /\ Len(chan[Target]) < Capacity
    /\ chan' = [chan EXCEPT ![Target] = Append(@, Outgoing)]
    /\ pub' = Advance
    /\ UNCHANGED <<topics, subscribers, pc, msg, cancelled, historyVars>>

(* Mutant: the channel holds one message less.                              *)
SkipEarly ==
    /\ pub # None
    /\ Len(chan[Target]) >= Capacity - 1
    /\ skipped' = [skipped EXCEPT ![Target] = @ \cup {Outgoing.id}]
    /\ pub' = Advance
    /\ UNCHANGED <<topics, subscribers, callVars, published, since, seen,
                   cleared>>

(* Mutant: the send has no default branch.                                  *)
SkipNever == FALSE /\ UNCHANGED vars

(* The default branch: a full channel does not get the message.             *)
Skip ==
    /\ pub # None
    /\ Len(chan[Target]) = Capacity
    /\ skipped' = [skipped EXCEPT ![Target] = @ \cup {Outgoing.id}]
    /\ pub' = Advance
    /\ UNCHANGED <<topics, subscribers, callVars, published, since, seen,
                   cleared>>

----------------------------------------------------------------------------
(* Subscribe makes its channel and registers it under the mutex.  It never  *)
(* takes it out again.                                                      *)
Subscribe(s, wanted) ==
    /\ pc[s] = "idle"
    /\ pub = None
    /\ subscribers' = [t \in Topic |->
                         IF t \in wanted THEN Append(subscribers[t], s)
                                         ELSE subscribers[t]]
    /\ pc' = [pc EXCEPT ![s] = "select"]
    /\ since' = [since EXCEPT ![s] = Len(published) + 1]
    /\ UNCHANGED <<topics, pub, chan, msg, cancelled, published, seen,
                   skipped, cleared>>

Receive(s) ==
    /\ pc[s] = "select"
    /\ chan[s] # <<>>
    /\ msg' = [msg EXCEPT ![s] = Head(chan[s])]
    /\ chan' = [chan EXCEPT ![s] = Tail(@)]
    /\ pc' = [pc EXCEPT ![s] = "handle"]
    /\ UNCHANGED <<storeVars, cancelled, historyVars>>

(* Mutant: a message whose handler fails is queued again.                   *)
HandleRequeues(s) ==
    /\ pc[s] = "handle"
    /\ \/ UNCHANGED chan
       \/ /\ Len(chan[s]) < Capacity
          /\ chan' = [chan EXCEPT ![s] = Append(@, msg[s])]
    /\ seen' = [seen EXCEPT ![s] = @ \cup {msg[s].id}]
    /\ msg' = [msg EXCEPT ![s] = None]
    /\ pc' = [pc EXCEPT ![s] = "select"]
    /\ UNCHANGED <<storeVars, cancelled, published, since, skipped,
                   cleared>>

(* Mutant: a handler that fails ends the subscription.                      *)
HandleMayReturn(s) ==
    /\ pc[s] = "handle"
    /\ seen' = [seen EXCEPT ![s] = @ \cup {msg[s].id}]
    /\ msg' = [msg EXCEPT ![s] = None]
    /\ \E next \in {"select", "returned"} : pc' = [pc EXCEPT ![s] = next]
    /\ UNCHANGED <<storeVars, chan, cancelled, published, since, skipped,
                   cleared>>

(* The handler returns; an error changes nothing.                           *)
Handle(s) ==
    /\ pc[s] = "handle"
    /\ seen' = [seen EXCEPT ![s] = @ \cup {msg[s].id}]
    /\ msg' = [msg EXCEPT ![s] = None]
    /\ pc' = [pc EXCEPT ![s] = "select"]
    /\ UNCHANGED <<storeVars, chan, cancelled, published, since, skipped,
                   cleared>>

(* The context's branch of the select.                                      *)
Leave(s) ==
    /\ pc[s] = "select"
    /\ cancelled[s]
    /\ pc' = [pc EXCEPT ![s] = "returned"]
    /\ UNCHANGED <<storeVars, chan, msg, cancelled, historyVars>>

Cancel(s) ==
    /\ ~cancelled[s]
    /\ cancelled' = [cancelled EXCEPT ![s] = TRUE]
    /\ UNCHANGED <<storeVars, chan, pc, msg, historyVars>>

(* Clear replaces the stored messages and nothing else.                     *)
Clear ==
    /\ pub = None
    /\ topics' = [t \in Topic |-> <<>>]
    /\ cleared' = Len(published)
    /\ UNCHANGED <<subscribers, pub, callVars, published, since, seen,
                   skipped>>

PublishStep == Send \/ Skip
SubscriberStep(s) == Receive(s) \/ Handle(s) \/ Leave(s)

Next ==
    \/ \E t \in Topic, n \in 1..MaxBatch : Publish(t, n)
    \/ PublishStep
    \/ \E s \in Subscriber :
         \/ \E wanted \in SUBSET Topic : Subscribe(s, wanted)
         \/ SubscriberStep(s)
         \/ Cancel(s)
    \/ Clear

(* Goroutines are scheduled and handlers return.  Nobody is obliged to      *)
(* publish, subscribe, cancel or clear.                                     *)
Fairness ==
    /\ WF_vars(PublishStep)
    /\ \A s \in Subscriber : WF_vars(SubscriberStep(s))

Spec == Init /\ [][Next]_vars
FairSpec == Spec /\ Fairness

----------------------------------------------------------------------------
Queued(s) == {chan[s][k].id : k \in 1..Len(chan[s])}

(* What subscriber s still has to be offered of the running batch.          *)
ToBeSent(s) ==
    {m \in Message :
        /\ pub # None
        /\ m < pub.first + pub.size
        /\ \E k \in 1..Len(subscribers[pub.topic]) :
             /\ subscribers[pub.topic][k] = s
             /\ \/ k > pub.sub /\ m >= pub.first
                \/ k = pub.sub /\ m >= pub.first + pub.i}

Registered(s, t) == \E k \in 1..Len(subscribers[t]) : subscribers[t][k] = s

(* The messages published on a subscriber's topics since its registration.  *)
Due(s) ==
    {m \in 1..Len(published) : m >= since[s] /\ Registered(s, published[m])}

InHand(s) == IF pc[s] = "handle" THEN {msg[s].id} ELSE {}

(* A handler is given the messages of all its topics in the order of their  *)
(* publication and none of them twice (the mutex is what orders the sends   *)
(* of PublishBatch calls on different topics to one channel).               *)
HandledInOrder ==
    \A s \in Subscriber :
        pc[s] = "handle" => \A m \in seen[s] : m < msg[s].id

(* No message goes astray between a publisher and a subscriber: what was    *)
(* published since the registration is exactly what was handled, is in      *)
(* hand, is queued, is on its way or met a full channel.                    *)
EveryMessageAccounted ==
    \A s \in Subscriber :
        Due(s) = seen[s] \cup InHand(s) \cup Queued(s) \cup skipped[s]
                   \cup ToBeSent(s)

(* A test that publishes no more than a channel holds misses nothing,       *)
(* however slow its subscribers are.                                        *)
NothingSkippedWithRoom ==
    \A s \in Subscriber :
        Cardinality(Due(s)) <= Capacity => skipped[s] = {}

(* The offset of a queued message is the index under which GetMessages      *)
(* returns it, unless Clear was called since it was published.              *)
OffsetIsIndex ==
    \A s \in Subscriber : \A k \in 1..Len(chan[s]) :
        LET e == chan[s][k] IN
        e.id > cleared => /\ e.offset < Len(topics[e.topic])
                          /\ topics[e.topic][e.offset + 1] = e.id

(* PublishBatch returns, although it holds the mutex while it sends to      *)
(* channels that nobody may be reading any more.                            *)
PublishReturns == pub # None ~> pub = None

(* A queued message reaches the handler unless the context is cancelled.    *)
QueuedIsHandled ==
    \A s \in Subscriber, m \in Message :
        m \in Queued(s) ~> m \in seen[s] \/ cancelled[s]

============================================================================
