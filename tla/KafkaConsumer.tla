--------------------------- MODULE KafkaConsumer ---------------------------
(***************************************************************************)
(* kafka/consumer.go: Subscribe opens one reader per topic and runs        *)
(* consumeTopic on each in a goroutine of its own: fetch, handle, commit.  *)
(*                                                                         *)
(* createReader gives every reader the same GroupID, so that the readers   *)
(* of all topics and of all processes are members of one consumer group,   *)
(* and each that comes or goes starts a new generation for all of them.    *)
(* The broker, the group and kafka-go's Reader are external and modelled   *)
(* as far as the code relies on them:                                      *)
(*   - a partition is a log with the group's committed offset;             *)
(*   - a generation gives each partition to one member that reads its      *)
(*     topic.  A member that has resumed in it starts at the committed     *)
(*     offset and goes on in memory, whether or not messages are committed;*)
(*     until then it hands out what it has from before;                    *)
(*   - a commit is taken from a member that has resumed, whatever          *)
(*     generation the message was fetched in, and sets the group's offset  *)
(*     to one past the message, also when that is further back.            *)
(* A process may crash and be restarted at any time.                       *)
(***************************************************************************)
EXTENDS Integers, FiniteSets

CONSTANTS
    Process,    \* the processes that consume under the group's name
    Topic,      \* the topics each passes to Subscribe
    Partition,  \* all their partitions
    TopicOf,    \* the topic of a partition
    MaxOffset,  \* bound on the messages produced to a partition
    MaxLosses,  \* bound on the rebalances that nobody joining or leaving asks for
    None        \* "no message", "no reader"

ASSUME TopicOfAssumption == TopicOf \in [Partition -> Topic]
ASSUME BoundsAssumption == MaxOffset \in Nat /\ MaxLosses \in Nat

Message == [partition : Partition, offset : 0..MaxOffset]
Reader == Process \X Topic
ASSUME NoneAssumption == None \notin Message /\ None \notin Reader

VARIABLES
    \* the broker
    log,        \* messages produced to each partition so far
    committed,  \* the group's offset: where a reader resumes
    group,      \* the members of the current generation that are still there
    owner,      \* the reader it gave each partition to
    behind,     \* the members that have not resumed in it
    losses,     \* rebalances without need so far

    \* each process
    subscribe,  \* where the Subscribe call stands
    cancelled,  \* whether the context of Subscribe is done
    toClose,    \* the readers a Close call still has to close

    \* each reader with its goroutine
    loop,       \* where consumeTopic stands; "off" before the reader is made
    closed,     \* whether the reader is closed
    assigned,   \* the partitions the reader last resumed with
    position,   \* the next offset of each the reader will hand out
    msg,        \* msg, the message in hand
    late,       \* commits whose caller has gone, still to be taken or lost

    \* history
    stale,      \* readers whose message in hand is not of this generation
    strays,     \* partitions with a late commit or one of a stale message
    attempted,  \* offsets the handler has returned for
    succeeded,  \* offsets the handler has returned nil for
    acked,      \* offsets CommitMessages has returned nil for
    last        \* the last offset handled of this generation's messages

brokerVars  == <<log, committed>>
groupVars   == <<group, owner, behind, losses>>
processVars == <<subscribe, cancelled, toClose>>
fetchVars   == <<assigned, position>>
handVars    == <<loop, msg, stale>>
commitVars  == <<late, strays>>
handledVars == <<attempted, succeeded, last>>
vars == <<brokerVars, groupVars, processVars, closed, fetchVars, handVars,
          commitVars, handledVars, acked>>

ProcessOf(r) == r[1]
Reads(r, p) == TopicOf[p] = r[2]

(* c.readers: a reader is appended to it together with its goroutine.       *)
Readers(x) == {r \in Reader : ProcessOf(r) = x /\ loop[r] # "off"}

InHand(r) == loop[r] \in {"handle", "commit"}

(* The readers that belong in the group, and those that have resumed.       *)
Running == {r \in Reader : loop[r] # "off" /\ ~closed[r]}
Current(r) == r \in group \ behind

TypeOK ==
    /\ log \in [Partition -> 0..MaxOffset]
    /\ committed \in [Partition -> 0..MaxOffset]
    /\ group \subseteq Reader
    /\ owner \in [Partition -> Reader \cup {None}]
    /\ behind \subseteq Reader
    /\ losses \in 0..MaxLosses
    /\ subscribe \in [Process -> {"none", "starting", "blocked", "returned"}]
    /\ cancelled \in [Process -> BOOLEAN]
    /\ toClose \subseteq Reader
    /\ loop \in [Reader -> {"off", "select", "fetch", "handle", "commit", "done"}]
    /\ closed \in [Reader -> BOOLEAN]
    /\ assigned \in [Reader -> SUBSET Partition]
    /\ position \in [Reader -> [Partition -> 0..MaxOffset]]
    /\ msg \in [Reader -> Message \cup {None}]
    /\ late \in [Reader -> SUBSET Message]
    /\ stale \subseteq Reader
    /\ strays \subseteq Partition
    /\ attempted \in [Partition -> SUBSET (0..MaxOffset)]
    /\ succeeded \in [Partition -> SUBSET (0..MaxOffset)]
    /\ acked \in [Partition -> SUBSET (0..MaxOffset)]
    /\ last \in [Partition -> -1..MaxOffset]

Init ==
    /\ log = [p \in Partition |-> 0]
    /\ committed = [p \in Partition |-> 0]
    /\ group = {}
    /\ owner = [p \in Partition |-> None]
    /\ behind = {}
    /\ losses = 0
    /\ subscribe = [x \in Process |-> "none"]
    /\ cancelled = [x \in Process |-> FALSE]
    /\ toClose = {}
    /\ loop = [r \in Reader |-> "off"]
    /\ closed = [r \in Reader |-> FALSE]
    /\ assigned = [r \in Reader |-> {}]
    /\ position = [r \in Reader |-> [p \in Partition |-> 0]]
    /\ msg = [r \in Reader |-> None]
    /\ late = [r \in Reader |-> {}]
    /\ stale = {}
    /\ strays = {}
    /\ attempted = [p \in Partition |-> {}]
    /\ succeeded = [p \in Partition |-> {}]
    /\ acked = [p \in Partition |-> {}]
    /\ last = [p \in Partition |-> -1]

----------------------------------------------------------------------------
(* Somebody produces a message.                                             *)
Produce(p) ==
    /\ log[p] < MaxOffset
    /\ log' = [log EXCEPT ![p] = @ + 1]
    /\ UNCHANGED <<committed, groupVars, processVars, closed, fetchVars, handVars,
                   commitVars, handledVars, acked>>

(* A process dies, and everything it has not committed with it; a new one   *)
(* takes its place, as NewConsumer leaves it.  The group has lost the       *)
(* members, and gives their partitions away at the next rebalance only.     *)
Crash(x) ==
    LET fresh(f, v) == [r \in Reader |-> IF ProcessOf(r) = x THEN v ELSE f[r]]
        others(S) == {r \in S : ProcessOf(r) # x}
    IN /\ subscribe' = [subscribe EXCEPT ![x] = "none"]
       /\ cancelled' = [cancelled EXCEPT ![x] = FALSE]
       /\ loop' = fresh(loop, "off")
       /\ closed' = fresh(closed, FALSE)
       /\ assigned' = fresh(assigned, {})
       /\ position' = fresh(position, [p \in Partition |-> 0])
       /\ msg' = fresh(msg, None)
       /\ late' = fresh(late, {})
       /\ toClose' = others(toClose)
       /\ stale' = others(stale)
       /\ group' = others(group)
       /\ behind' = others(behind)
       /\ UNCHANGED <<brokerVars, owner, losses, strays, handledVars, acked>>

(* The application cancels the context it gave to Subscribe.                *)
Cancel(x) ==
    /\ subscribe[x] # "none"
    /\ ~cancelled[x]
    /\ cancelled' = [cancelled EXCEPT ![x] = TRUE]
    /\ UNCHANGED <<brokerVars, groupVars, subscribe, toClose, closed,
                   fetchVars, handVars, commitVars, handledVars, acked>>

----------------------------------------------------------------------------
(* A new generation of these members: each partition goes to one that reads *)
(* its topic.  A message in hand is none of this generation's.              *)
Rebalance(members) ==
    /\ members \subseteq Running
    /\ owner' \in [Partition -> members \cup {None}]
    /\ \A p \in Partition :
          IF \E r \in members : Reads(r, p)
          THEN owner'[p] # None /\ Reads(owner'[p], p)
          ELSE owner'[p] = None
    /\ group' = members
    /\ behind' = members
    /\ stale' = {r \in Reader : InHand(r)}
    /\ last' = [p \in Partition |-> -1]
    /\ UNCHANGED <<brokerVars, processVars, closed, fetchVars, loop, msg,
                   commitVars, attempted, succeeded, acked>>

(* The group settles on the readers there are: one has been made, has been  *)
(* closed, has died or was dropped.                                         *)
Settle ==
    /\ group # Running
    /\ Rebalance(Running)
    /\ UNCHANGED losses

(* A rebalance without such need, which may drop members: a session is      *)
(* lost, or the broker moves the group.                                     *)
LoseSession ==
    /\ losses < MaxLosses
    /\ losses' = losses + 1
    /\ \E members \in SUBSET Running : Rebalance(members)

(* A member learns of the generation and starts at the committed offsets.   *)
Resume(r) ==
    /\ r \in group \cap behind
    /\ ~closed[r]
    /\ behind' = behind \ {r}
    /\ assigned' = [assigned EXCEPT ![r] = {p \in Partition : owner[p] = r}]
    /\ position' = [position EXCEPT ![r] =
                      [p \in Partition |->
                         IF owner[p] = r THEN committed[p] ELSE 0]]
    /\ UNCHANGED <<brokerVars, group, owner, losses, processVars, closed,
                   handVars, commitVars, handledVars, acked>>

----------------------------------------------------------------------------
Subscribe(x) ==
    /\ subscribe[x] = "none"
    /\ subscribe' = [subscribe EXCEPT ![x] = "starting"]
    /\ UNCHANGED <<brokerVars, groupVars, cancelled, toClose, closed,
                   fetchVars, handVars, commitVars, handledVars, acked>>

(* One turn of Subscribe's loop: create the topic's reader, remember it for *)
(* Close and start its goroutine.  Whether Close was called does not matter.*)
(* The reader has no partition until the group settles with it.             *)
StartReader(r) ==
    /\ subscribe[ProcessOf(r)] = "starting"
    /\ loop[r] = "off"
    /\ loop' = [loop EXCEPT ![r] = "select"]
    /\ UNCHANGED <<brokerVars, groupVars, processVars, closed, fetchVars, msg,
                   stale, commitVars, handledVars, acked>>

(* All topics are started: wait for the context, and for nothing else.      *)
Block(x) ==
    /\ subscribe[x] = "starting"
    /\ Readers(x) = {x} \X Topic
    /\ subscribe' = [subscribe EXCEPT ![x] = "blocked"]
    /\ UNCHANGED <<brokerVars, groupVars, cancelled, toClose, closed,
                   fetchVars, handVars, commitVars, handledVars, acked>>

SubscribeReturns(x) ==
    /\ subscribe[x] = "blocked"
    /\ cancelled[x]
    /\ subscribe' = [subscribe EXCEPT ![x] = "returned"]
    /\ UNCHANGED <<brokerVars, groupVars, cancelled, toClose, closed,
                   fetchVars, handVars, commitVars, handledVars, acked>>

----------------------------------------------------------------------------
(* A turn of consumeTopic that only moves the goroutine.                    *)
Goto(r, place) ==
    /\ loop' = [loop EXCEPT ![r] = place]
    /\ UNCHANGED <<brokerVars, groupVars, processVars, closed, fetchVars, msg,
                   stale, commitVars, handledVars, acked>>

(* Mutant: a break leaves the select, not the loop around it.               *)
StopBreaksSelect(r) ==
    /\ loop[r] = "select"
    /\ cancelled[ProcessOf(r)]
    /\ UNCHANGED vars

(* The select at the head of consumeTopic's loop.                           *)
StopOnDone(r) == loop[r] = "select" /\ cancelled[ProcessOf(r)] /\ Goto(r, "done")
Continue(r) == loop[r] = "select" /\ ~cancelled[ProcessOf(r)] /\ Goto(r, "fetch")

(* Mutant: ReadMessage, which commits what it returns, for FetchMessage.    *)
FetchCommits(r, p) ==
    /\ loop[r] = "fetch"
    /\ p \in assigned[r]
    /\ position[r][p] < log[p]
    /\ msg' = [msg EXCEPT ![r] = [partition |-> p, offset |-> position[r][p]]]
    /\ position' = [position EXCEPT ![r][p] = @ + 1]
    /\ committed' = [committed EXCEPT ![p] = position[r][p] + 1]
    /\ stale' = IF Current(r) THEN stale ELSE stale \cup {r}
    /\ loop' = [loop EXCEPT ![r] = "handle"]
    /\ UNCHANGED <<log, groupVars, processVars, closed, assigned, commitVars,
                   handledVars, acked>>

(* FetchMessage returns the next message of one of the reader's partitions. *)
(* A reader may do so although its context is done or it has been closed:   *)
(* Go's select picks any ready case, and closing leaves the buffer.  It may *)
(* also do so when the group has moved on and it has not resumed.           *)
Fetch(r, p) ==
    /\ loop[r] = "fetch"
    /\ p \in assigned[r]
    /\ position[r][p] < log[p]
    /\ msg' = [msg EXCEPT ![r] = [partition |-> p, offset |-> position[r][p]]]
    /\ position' = [position EXCEPT ![r][p] = @ + 1]
    /\ stale' = IF Current(r) THEN stale ELSE stale \cup {r}
    /\ loop' = [loop EXCEPT ![r] = "handle"]
    /\ UNCHANGED <<brokerVars, groupVars, processVars, closed, assigned,
                   commitVars, handledVars, acked>>

(* Mutant: io.EOF is retried like any other error.                          *)
FetchEndsRetries(r) ==
    /\ loop[r] = "fetch"
    /\ closed[r] \/ cancelled[ProcessOf(r)]
    /\ Goto(r, "select")

(* FetchMessage fails for good: io.EOF of a closed reader, or the context.  *)
FetchEnds(r) ==
    /\ loop[r] = "fetch"
    /\ closed[r] \/ cancelled[ProcessOf(r)]
    /\ Goto(r, "done")

(* Mutant: a failed fetch reopens the partitions at their first offset.     *)
FetchFailsReopens(r) ==
    /\ loop[r] = "fetch"
    /\ ~cancelled[ProcessOf(r)]
    /\ loop' = [loop EXCEPT ![r] = "select"]
    /\ position' = [position EXCEPT ![r] = [p \in Partition |-> 0]]
    /\ UNCHANGED <<brokerVars, groupVars, processVars, closed, assigned, msg,
                   stale, commitVars, handledVars, acked>>

(* Mutant: any failed fetch ends the goroutine.                             *)
FetchFailsReturns(r) == loop[r] = "fetch" /\ Goto(r, "done")

(* FetchMessage fails otherwise: logged, and tried again at once.           *)
FetchFails(r) ==
    /\ loop[r] = "fetch"
    /\ ~cancelled[ProcessOf(r)]
    /\ Goto(r, "select")

(* The handler has returned for the message in hand.                        *)
Handled(r) ==
    LET m == msg[r] IN
      /\ attempted' = [attempted EXCEPT ![m.partition] = @ \cup {m.offset}]
      /\ last' = IF r \in stale THEN last
                 ELSE [last EXCEPT ![m.partition] = m.offset]

(* The message in hand is done with, and the goroutine goes on.             *)
LetGo(r) ==
    /\ msg' = [msg EXCEPT ![r] = None]
    /\ stale' = stale \ {r}
    /\ loop' = [loop EXCEPT ![r] = "select"]

(* The handler returns nil.                                                 *)
HandleOk(r) ==
    /\ loop[r] = "handle"
    /\ Handled(r)
    /\ LET m == msg[r] IN
         succeeded' = [succeeded EXCEPT ![m.partition] = @ \cup {m.offset}]
    /\ loop' = [loop EXCEPT ![r] = "commit"]
    /\ UNCHANGED <<brokerVars, groupVars, processVars, closed, fetchVars, msg,
                   stale, commitVars, acked>>

(* The handler returns an error: logged, not committed, and on to the next  *)
(* message.                                                                 *)
HandleFails(r) ==
    /\ loop[r] = "handle"
    /\ Handled(r)
    /\ LetGo(r)
    /\ UNCHANGED <<brokerVars, groupVars, processVars, closed, fetchVars,
                   commitVars, succeeded, acked>>

(* The broker takes a commit, from a member of the current generation only. *)
(* The generation a message was fetched in is no part of its commit.        *)
Taken(r, m, stray) ==
    /\ Current(r)
    /\ ~closed[r]
    /\ committed' = [committed EXCEPT ![m.partition] = m.offset + 1]
    /\ strays' = IF stray THEN strays \cup {m.partition} ELSE strays

(* Mutant: the offset to commit is computed as one past the message, and    *)
(* kafka-go adds one again.                                                 *)
CommitOkNext(r) ==
    /\ loop[r] = "commit"
    /\ Taken(r, [msg[r] EXCEPT !.offset = @ + 1], r \in stale)
    /\ LET m == msg[r] IN acked' = [acked EXCEPT ![m.partition] = @ \cup {m.offset}]
    /\ LetGo(r)
    /\ UNCHANGED <<log, groupVars, processVars, closed, fetchVars, late,
                   handledVars>>

(* CommitMessages returns nil, which a closed reader's never does.          *)
CommitOk(r) ==
    /\ loop[r] = "commit"
    /\ Taken(r, msg[r], r \in stale)
    /\ LET m == msg[r] IN acked' = [acked EXCEPT ![m.partition] = @ \cup {m.offset}]
    /\ LetGo(r)
    /\ UNCHANGED <<log, groupVars, processVars, closed, fetchVars, late,
                   handledVars>>

(* CommitMessages returns an error, which is only logged.  The broker may   *)
(* have taken the offset all the same, or may still do so: the call ends    *)
(* with its context and leaves the request in the reader's queue, or on its *)
(* way.                                                                     *)
CommitFails(r) ==
    /\ loop[r] = "commit"
    /\ \/ UNCHANGED <<committed, strays, late>>
       \/ Taken(r, msg[r], r \in stale) /\ UNCHANGED late
       \/ /\ ~closed[r]
          /\ late' = [late EXCEPT ![r] = @ \cup {msg[r]}]
          /\ UNCHANGED <<committed, strays>>
    /\ LetGo(r)
    /\ UNCHANGED <<log, groupVars, processVars, closed, fetchVars, handledVars,
                   acked>>

(* A request left behind is taken after all.                                *)
TakeLate(r, m) ==
    /\ m \in late[r]
    /\ Taken(r, m, TRUE)
    /\ late' = [late EXCEPT ![r] = @ \ {m}]
    /\ UNCHANGED <<log, groupVars, processVars, closed, fetchVars, handVars,
                   handledVars, acked>>

----------------------------------------------------------------------------
(* Close ranges over the readers that are there when it is called.          *)
Close(x) ==
    /\ toClose' = toClose \cup {r \in Readers(x) : ~closed[r]}
    /\ UNCHANGED <<brokerVars, groupVars, subscribe, cancelled, closed, fetchVars,
                   handVars, commitVars, handledVars, acked>>

CloseReader(r) ==
    /\ r \in toClose
    /\ closed' = [closed EXCEPT ![r] = TRUE]
    /\ toClose' = toClose \ {r}
    /\ late' = [late EXCEPT ![r] = {}]
    /\ UNCHANGED <<brokerVars, groupVars, subscribe, cancelled, fetchVars,
                   handVars, strays, handledVars, acked>>

----------------------------------------------------------------------------
Fetches(r) == \E p \in Partition : Fetch(r, p)

(* What consumeTopic does of its own accord.                                *)
LoopStep(r) ==
    \/ StopOnDone(r)
    \/ Continue(r)
    \/ Fetches(r)
    \/ FetchEnds(r)
    \/ FetchFails(r)
    \/ HandleOk(r)
    \/ HandleFails(r)
    \/ CommitOk(r)
    \/ CommitFails(r)

(* What Subscribe and Close of a process do.                                *)
SubscribeStep(x) ==
    \/ \E r \in Reader : ProcessOf(r) = x /\ StartReader(r)
    \/ Block(x)
    \/ SubscribeReturns(x)
CloseStep(x) == \E r \in Reader : ProcessOf(r) = x /\ CloseReader(r)

ProcessStep(x) ==
    \/ Crash(x)
    \/ Cancel(x)
    \/ Subscribe(x)
    \/ SubscribeStep(x)
    \/ Close(x)
    \/ CloseStep(x)

ReaderStep(r) ==
    \/ LoopStep(r)
    \/ Resume(r)
    \/ \E m \in late[r] : TakeLate(r, m)

Next ==
    \/ \E p \in Partition : Produce(p)
    \/ Settle
    \/ LoseSession
    \/ \E x \in Process : ProcessStep(x)
    \/ \E r \in Reader : ReaderStep(r)

(* Goroutines are scheduled, and handlers and the reader's calls return.    *)
(* The group settles and its members learn of it.  A fetch that keeps       *)
(* failing is retried until it is served, every partition in its turn, and  *)
(* a closed reader runs out of other errors to report.  Nobody is obliged   *)
(* to produce, cancel or close, or to take a commit that was left behind.   *)
Fairness ==
    /\ WF_vars(Settle)
    /\ \A x \in Process : WF_vars(SubscribeStep(x)) /\ WF_vars(CloseStep(x))
    /\ \A r \in Reader :
          WF_vars(LoopStep(r)) /\ SF_vars(FetchEnds(r)) /\ WF_vars(Resume(r))
    /\ \A r \in Reader, p \in Partition : SF_vars(Fetch(r, p))

Spec == Init /\ [][Next]_vars
FairSpec == Spec /\ Fairness

----------------------------------------------------------------------------
(* No message is lost unseen: whatever the group's offset has passed was    *)
(* given to a handler that returned, crashes, rebalances and late commits   *)
(* included.                                                                *)
PassedWasAttempted ==
    \A p \in Partition, o \in 0..MaxOffset :
        o < committed[p] => o \in attempted[p]

(* consumer.go:137 "Don't commit failed messages": the offset is only ever  *)
(* moved to right behind a message whose handler returned nil.              *)
CommitFollowsSuccess ==
    \A p \in Partition : committed[p] > 0 => committed[p] - 1 \in succeeded[p]

(* An acknowledged message is handed out again only by a member that has    *)
(* not learned of the new generation yet, or after a stray commit: one that *)
(* was left behind by its caller or outlived its message's generation, and  *)
(* which nothing in consumer.go holds back.                                 *)
AckedAgainNeedsStray ==
    \A r \in Reader :
        loop[r] = "handle" /\ r \notin stale /\ msg[r].partition \notin strays
            => msg[r].offset \notin acked[msg[r].partition]

(* The group's offset moves back by a stray commit only.                    *)
RetreatNeedsStray ==
    [][\A p \in Partition : committed'[p] < committed[p] => p \in strays']_vars

(* A redelivery needs a rebalance or a restart: the messages the group's    *)
(* current members are given in one generation go to their handlers in      *)
(* increasing order, each at most once, whoever of them it is.              *)
OncePerGeneration ==
    \A r \in Reader :
        loop[r] = "handle" /\ r \notin stale
            => last[msg[r].partition] < msg[r].offset

(* Cancelling the context ends every goroutine and the Subscribe call.      *)
CancelEndsAll ==
    \A x \in Process :
        cancelled[x] ~> \/ ~cancelled[x]
                        \/ /\ subscribe[x] = "returned"
                           /\ \A t \in Topic : loop[<<x, t>>] = "done"

(* Closing a reader ends its goroutine.                                     *)
CloseEndsLoop == \A r \in Reader : closed[r] ~> ~closed[r] \/ loop[r] = "done"

(* A message is eventually handed to a handler, as long as some reader of   *)
(* the topic is there and none is that has been cancelled and not closed:   *)
(* such a reader keeps its partitions without reading them.                 *)
Served(p) ==
    /\ \E r \in Running : Reads(r, p)
    /\ \A r \in Running : Reads(r, p) => ~cancelled[ProcessOf(r)]
EveryMessageAttempted ==
    \A p \in Partition, o \in 0..MaxOffset - 1 :
        o < log[p] /\ Served(p) ~> o \in attempted[p] \/ ~Served(p)

----------------------------------------------------------------------------
(* What the source says and the code does not do.                           *)

(* consumer.go:27 "Return an error to indicate processing failure (message  *)
(* will not be committed)": the group's offset does not pass a message no   *)
(* handler has accepted.                                                    *)
FailedNotCommitted ==
    \A p \in Partition, o \in 0..MaxOffset :
        o < committed[p] => o \in succeeded[p]
============================================================================
