------------------------ MODULE KafkaConsumerProofs ------------------------
(***************************************************************************)
(* Proofs about KafkaConsumer, for any processes, topics, partitions, logs *)
(* and rebalances.  The properties only speak of the broker and the        *)
(* handlers; IInv adds how a reader's position, the message in hand and    *)
(* the requests left behind relate to them.  Its first half says that      *)
(* nothing is passed over and needs nothing of the group; its second half  *)
(* is about the members that have resumed in the current generation.       *)
(***************************************************************************)
EXTENDS KafkaConsumer, TLAPS

(* A goroutine has a message from the fetch to the end of the turn.         *)
HandShape ==
    \A r \in Reader :
        /\ msg[r] # None <=> InHand(r)
        /\ r \in stale => InHand(r)

(* Offsets, positions, messages and requests are within the log.            *)
WithinLog ==
    /\ \A p \in Partition : committed[p] <= log[p]
    /\ \A r \in Reader, p \in Partition : position[r][p] <= log[p]
    /\ \A r \in Reader : InHand(r) => msg[r].offset < log[msg[r].partition]
    /\ \A r \in Reader : \A m \in late[r] : m.offset < log[m.partition]

(* Whatever a reader has handed out, or resumed behind, was given to a      *)
(* handler or is about to be.                                               *)
HandedOutWasAttempted ==
    \A r \in Reader, p \in Partition, o \in 0..MaxOffset :
        o < position[r][p] =>
            \/ o \in attempted[p]
            \/ loop[r] = "handle" /\ msg[r] = [partition |-> p, offset |-> o]

BelowHandWasAttempted ==
    \A r \in Reader : InHand(r) =>
        \A o \in 0..MaxOffset :
            o < msg[r].offset => o \in attempted[msg[r].partition]

(* A message up for commit was accepted, and nothing below it was skipped.  *)
Committable(m) ==
    /\ m.offset \in succeeded[m.partition]
    /\ \A o \in 0..MaxOffset : o <= m.offset => o \in attempted[m.partition]

RequestsAreCommittable ==
    \A r \in Reader :
        /\ loop[r] = "commit" => Committable(msg[r])
        /\ \A m \in late[r] : Committable(m)

(* A member that has resumed reads what the generation gave it.             *)
GroupShape ==
    /\ behind \subseteq group
    /\ group \subseteq Reader
    /\ \A r \in Reader :
          Current(r) => assigned[r] = {p \in Partition : owner[p] = r}

(* A message of the current generation is the last its owner has handed out.*)
FreshIsLatest ==
    \A r \in Reader : InHand(r) /\ r \notin stale =>
        /\ Current(r)
        /\ msg[r].partition \in assigned[r]
        /\ position[r][msg[r].partition] = msg[r].offset + 1

(* Without a stray commit the group's offset is behind the owner.           *)
OffsetBehindReader ==
    /\ \A r \in Reader, p \in Partition :
          Current(r) /\ p \in assigned[r] /\ p \notin strays
              => committed[p] <= position[r][p]
    /\ \A r \in Reader :
          InHand(r) /\ r \notin stale /\ msg[r].partition \notin strays
              => committed[msg[r].partition] <= msg[r].offset

(* Without a stray commit, what was acknowledged lies behind the offset.    *)
AckedWasPassed ==
    \A p \in Partition : p \notin strays => \A o \in acked[p] : o < committed[p]

(* What was handled in this generation lies behind the owner, which has     *)
(* handled nothing before it resumed.                                       *)
LastBehindReader ==
    /\ \A p \in Partition : owner[p] \in behind => last[p] = -1
    /\ \A r \in Reader, p \in Partition :
          Current(r) /\ p \in assigned[r] => last[p] < position[r][p]

IInv ==
    /\ TypeOK
    /\ HandShape
    /\ WithinLog
    /\ HandedOutWasAttempted
    /\ BelowHandWasAttempted
    /\ RequestsAreCommittable
    /\ PassedWasAttempted
    /\ CommitFollowsSuccess
    /\ GroupShape
    /\ FreshIsLatest
    /\ OffsetBehindReader
    /\ AckedWasPassed
    /\ LastBehindReader
    /\ OncePerGeneration

----------------------------------------------------------------------------
(* Every step of the specification is one of these.  The quiet ones leave   *)
(* offsets, messages and goroutines alone.                                  *)
QuietStep ==
    \E x \in Process : Cancel(x) \/ Subscribe(x) \/ Block(x)
                       \/ SubscribeReturns(x) \/ Close(x)

(* A goroutine moves on without a message: it starts, or makes a turn.      *)
Move(r) ==
    \/ StartReader(r) \/ StopOnDone(r) \/ Continue(r)
    \/ FetchEnds(r) \/ FetchFails(r)

CountLosses == UNCHANGED losses \/ (losses < MaxLosses /\ losses' = losses + 1)
NewGeneration ==
    \E members \in SUBSET Running : Rebalance(members) /\ CountLosses

LEMMA StepCases ==
    ASSUME [Next]_vars
    PROVE  \/ UNCHANGED vars
           \/ QuietStep
           \/ \E r \in Reader : CloseReader(r)
           \/ \E r \in Reader : Move(r)
           \/ \E p \in Partition : Produce(p)
           \/ \E x \in Process : Crash(x)
           \/ NewGeneration
           \/ \E r \in Reader : Resume(r)
           \/ \E r \in Reader : \E p \in Partition : Fetch(r, p)
           \/ \E r \in Reader : HandleOk(r)
           \/ \E r \in Reader : HandleFails(r)
           \/ \E r \in Reader : CommitOk(r)
           \/ \E r \in Reader : CommitFails(r)
           \/ \E r \in Reader : \E m \in late[r] : TakeLate(r, m)
<1>1. Settle \/ LoseSession => NewGeneration
  <2>1. Settle => NewGeneration
    BY DEF Settle, NewGeneration, CountLosses
  <2>2. LoseSession => NewGeneration
    BY Zenon DEF LoseSession, NewGeneration, CountLosses
  <2>3. QED
    BY <2>1, <2>2
<1>2. ASSUME NEW x \in Process, ProcessStep(x)
      PROVE  \/ QuietStep
             \/ \E r \in Reader : CloseReader(r)
             \/ \E r \in Reader : Move(r)
             \/ \E y \in Process : Crash(y)
  BY <1>2, Zenon DEF ProcessStep, SubscribeStep, CloseStep, QuietStep, Move
<1>3. QED
  BY <1>1, <1>2, Zenon DEF Next, ReaderStep, LoopStep, Fetches, Move

(* What the steps leave alone.                                              *)
LEMMA QuietFrame ==
    ASSUME QuietStep
    PROVE  UNCHANGED <<log, committed, group, owner, behind, losses, closed,
                       assigned, position, loop, msg, stale, late, strays,
                       attempted, succeeded, last, acked>>
  BY DEF QuietStep, Cancel, Subscribe, Block, SubscribeReturns, Close,
     brokerVars, groupVars, fetchVars, handVars, commitVars, handledVars

LEMMA StutterFrame ==
    ASSUME UNCHANGED vars
    PROVE  UNCHANGED <<log, committed, group, owner, behind, losses, closed,
                       assigned, position, loop, msg, stale, late, strays,
                       attempted, succeeded, last, acked>>
  BY DEF vars, brokerVars, groupVars, fetchVars, handVars, commitVars,
     handledVars

LEMMA MoveFrame ==
    ASSUME NEW r \in Reader, Move(r)
    PROVE  /\ UNCHANGED <<log, committed, group, owner, behind, losses, closed,
                          assigned, position, msg, stale, late, strays,
                          attempted, succeeded, last, acked>>
           /\ UNCHANGED processVars
           /\ loop[r] \in {"off", "select", "fetch"}
           /\ \E place \in {"select", "fetch", "done"} :
                 loop' = [loop EXCEPT ![r] = place]
  BY DEF Move, StartReader, StopOnDone, Continue, FetchEnds, FetchFails, Goto,
     brokerVars, groupVars, fetchVars, commitVars, handledVars

LEMMA HandTyped ==
    ASSUME TypeOK, HandShape, NEW r \in Reader, InHand(r)
    PROVE  /\ msg[r] \in Message
           /\ msg[r].partition \in Partition
           /\ msg[r].offset \in 0..MaxOffset
<1>1. msg[r] \in Message
  BY DEF TypeOK, HandShape
<1>2. QED
  BY <1>1 DEF Message

LEMMA MoveKeepsHands ==
    ASSUME TypeOK, NEW r \in Reader, Move(r)
    PROVE  \A s \in Reader :
             /\ loop'[s] = "handle" <=> loop[s] = "handle"
             /\ loop'[s] = "commit" <=> loop[s] = "commit"
  BY MoveFrame DEF TypeOK

(* What a commit that is taken does.                                        *)
LEMMA AfterCommit ==
    ASSUME TypeOK, NEW r \in Reader, NEW m \in Message, NEW stray \in BOOLEAN,
           Taken(r, m, stray)
    PROVE  /\ m.partition \in Partition /\ m.offset \in 0..MaxOffset
           /\ committed'[m.partition] = m.offset + 1
           /\ \A p \in Partition :
                p # m.partition => committed'[p] = committed[p]
           /\ committed' \in [Partition -> Nat]
  BY BoundsAssumption DEF TypeOK, Message, Taken

(* What becomes of the group's offset when a message in hand or a request   *)
(* left behind is committed: CommitOk, CommitFails and TakeLate.            *)
CommitStep(r) == CommitOk(r) \/ CommitFails(r) \/ \E m \in late[r] : TakeLate(r, m)

LEMMA CommitCases ==
    ASSUME IInv, NEW r \in Reader, CommitStep(r)
    PROVE  /\ UNCHANGED <<log, attempted, succeeded>>
           /\ \/ UNCHANGED <<committed, strays>>
              \/ \E m \in Message, stray \in BOOLEAN :
                   /\ Taken(r, m, stray)
                   /\ Committable(m)
                   /\ m.offset < log[m.partition]
                   /\ \/ stray
                      \/ InHand(r) /\ r \notin stale /\ m = msg[r]
<1>1. UNCHANGED <<log, attempted, succeeded>>
  BY DEF CommitStep, CommitOk, CommitFails, TakeLate, handledVars
<1>2. CASE loop[r] = "commit" /\ Taken(r, msg[r], r \in stale)
  <2>1. InHand(r)
    BY <1>2 DEF InHand
  <2>2. /\ msg[r] \in Message
        /\ Committable(msg[r])
        /\ msg[r].offset < log[msg[r].partition]
    <3>1. msg[r] \in Message
      BY <2>1, HandTyped DEF IInv
    <3>2. Committable(msg[r])
      BY <1>2 DEF IInv, RequestsAreCommittable
    <3>3. msg[r].offset < log[msg[r].partition]
      BY <2>1 DEF IInv, WithinLog
    <3>4. QED
      BY <3>1, <3>2, <3>3
  <2>3. CASE r \in stale
    <3>1. Taken(r, msg[r], TRUE)
      BY <1>2, <2>3 DEF Taken
    <3>2. QED
      BY <1>1, <2>2, <3>1
  <2>4. CASE r \notin stale
    <3>1. Taken(r, msg[r], FALSE)
      BY <1>2, <2>4 DEF Taken
    <3>2. QED
      BY <1>1, <2>1, <2>2, <2>4, <3>1
  <2>5. QED
    BY <2>3, <2>4
<1>3. ASSUME NEW m \in late[r], Taken(r, m, TRUE)
      PROVE  \E n \in Message, stray \in BOOLEAN :
                   /\ Taken(r, n, stray)
                   /\ Committable(n)
                   /\ n.offset < log[n.partition]
                   /\ stray
  <2>1. m \in Message
    BY DEF IInv, TypeOK
  <2>2. Committable(m) /\ m.offset < log[m.partition]
    BY DEF IInv, RequestsAreCommittable, WithinLog
  <2>3. QED
    BY <1>3, <2>1, <2>2
<1>4. CASE CommitOk(r)
  BY <1>2, <1>4 DEF CommitOk
<1>5. CASE CommitFails(r)
  BY <1>1, <1>2, <1>5 DEF CommitFails
<1>6. CASE \E m \in late[r] : TakeLate(r, m)
  BY <1>1, <1>3, <1>6 DEF TakeLate
<1>7. QED
  BY <1>4, <1>5, <1>6 DEF CommitStep

(* A commit keeps the offset within the log, behind what was attempted and  *)
(* right behind what was accepted.                                          *)
LEMMA CommitKeepsOffset ==
    ASSUME IInv, NEW r \in Reader, CommitStep(r)
    PROVE  /\ \A p \in Partition : committed'[p] <= log'[p]
           /\ PassedWasAttempted'
           /\ CommitFollowsSuccess'
<1>1. CASE UNCHANGED committed
  BY <1>1, CommitCases DEF IInv, WithinLog, PassedWasAttempted,
     CommitFollowsSuccess
<1>2. ASSUME NEW m \in Message, NEW stray \in BOOLEAN, Taken(r, m, stray),
             Committable(m), m.offset < log[m.partition]
      PROVE  /\ \A p \in Partition : committed'[p] <= log'[p]
             /\ PassedWasAttempted'
             /\ CommitFollowsSuccess'
  <2> DEFINE q == m.partition
  <2>1. /\ q \in Partition /\ m.offset \in 0..MaxOffset
        /\ committed'[q] = m.offset + 1
        /\ \A p \in Partition : p # q => committed'[p] = committed[p]
    BY <1>2, AfterCommit DEF IInv
  <2>2. UNCHANGED <<log, attempted, succeeded>>
    BY CommitCases
  <2>3. ASSUME NEW p \in Partition
        PROVE  committed'[p] <= log[p]
    <3>1. CASE p = q
      BY <1>2, <2>1, <3>1, BoundsAssumption DEF IInv, TypeOK
    <3>2. CASE p # q
      BY <2>1, <3>2 DEF IInv, WithinLog
    <3>3. QED
      BY <3>1, <3>2
  <2>4. ASSUME NEW p \in Partition, NEW o \in 0..MaxOffset, o < committed'[p]
        PROVE  o \in attempted[p]
    <3>1. CASE p = q
      BY <1>2, <2>1, <2>4, <3>1, BoundsAssumption DEF Committable
    <3>2. CASE p # q
      BY <2>1, <2>4, <3>2 DEF IInv, PassedWasAttempted
    <3>3. QED
      BY <3>1, <3>2
  <2>5. ASSUME NEW p \in Partition, committed'[p] > 0
        PROVE  committed'[p] - 1 \in succeeded[p]
    <3>1. CASE p = q
      BY <1>2, <2>1, <3>1, BoundsAssumption DEF Committable
    <3>2. CASE p # q
      BY <2>1, <2>5, <3>2 DEF IInv, CommitFollowsSuccess
    <3>3. QED
      BY <3>1, <3>2
  <2> HIDE DEF q
  <2>6. QED
    BY <2>2, <2>3, <2>4, <2>5 DEF PassedWasAttempted, CommitFollowsSuccess
<1>3. QED
  BY <1>1, <1>2, CommitCases

(* A message is taken in hand and let go together with the goroutine's place.*)
LEMMA HandShapeStep ==
    ASSUME IInv, [Next]_vars
    PROVE  HandShape'
<1> USE BoundsAssumption, NoneAssumption DEF IInv, TypeOK, HandShape,
        InHand, Message, brokerVars, groupVars, processVars, fetchVars,
        handVars, commitVars, handledVars
<1>1. CASE UNCHANGED vars
  BY <1>1, StutterFrame
<1>2. CASE QuietStep
  BY <1>2, QuietFrame
<1>3. ASSUME NEW r \in Reader, CloseReader(r)
      PROVE  HandShape'
  BY <1>3 DEF CloseReader
<1>4. ASSUME NEW r \in Reader, Move(r)
      PROVE  HandShape'
  BY <1>4, MoveFrame, MoveKeepsHands
<1>5. ASSUME NEW p \in Partition, Produce(p)
      PROVE  HandShape'
  BY <1>5 DEF Produce
<1>6. ASSUME NEW x \in Process, Crash(x)
      PROVE  HandShape'
  BY <1>6 DEF Crash
<1>7. ASSUME NEW members \in SUBSET Running, Rebalance(members), CountLosses
      PROVE  HandShape'
  BY <1>7 DEF Rebalance
<1>8. ASSUME NEW r \in Reader, Resume(r)
      PROVE  HandShape'
  BY <1>8 DEF Resume
<1>9. ASSUME NEW r \in Reader, NEW p \in Partition, Fetch(r, p)
      PROVE  HandShape'
  BY <1>9 DEF Fetch
<1>10. ASSUME NEW r \in Reader, HandleOk(r)
      PROVE  HandShape'
  BY <1>10 DEF HandleOk, Handled
<1>11. ASSUME NEW r \in Reader, HandleFails(r)
      PROVE  HandShape'
  BY <1>11 DEF HandleFails, Handled, LetGo
<1>12. ASSUME NEW r \in Reader, CommitOk(r)
      PROVE  HandShape'
  BY <1>12 DEF CommitOk, Taken, LetGo
<1>13. ASSUME NEW r \in Reader, CommitFails(r)
      PROVE  HandShape'
  BY <1>13 DEF CommitFails, Taken, LetGo
<1>14. ASSUME NEW r \in Reader, NEW m \in late[r], TakeLate(r, m)
      PROVE  HandShape'
  BY <1>14 DEF TakeLate, Taken
<1> HIDE DEF HandShape
<1>15. QED
  BY <1>1, <1>2, <1>3, <1>4, <1>5, <1>6, <1>7, <1>8, <1>9, <1>10, <1>11,
     <1>12, <1>13, <1>14, StepCases, Zenon DEF NewGeneration

(* Positions and offsets move within the log, which only grows.             *)
LEMMA WithinLogStep ==
    ASSUME IInv, [Next]_vars
    PROVE  WithinLog'
<1> USE BoundsAssumption, NoneAssumption DEF IInv, TypeOK, HandShape,
        WithinLog, InHand, Message, brokerVars, groupVars, processVars,
        fetchVars, handVars, commitVars, handledVars
<1>1. CASE UNCHANGED vars
  BY <1>1, StutterFrame
<1>2. CASE QuietStep
  BY <1>2, QuietFrame
<1>3. ASSUME NEW r \in Reader, CloseReader(r)
      PROVE  WithinLog'
  BY <1>3 DEF CloseReader
<1>4. ASSUME NEW r \in Reader, Move(r)
      PROVE  WithinLog'
  BY <1>4, MoveFrame
<1>5. ASSUME NEW p \in Partition, Produce(p)
      PROVE  WithinLog'
  BY <1>5 DEF Produce
<1>6. ASSUME NEW x \in Process, Crash(x)
      PROVE  WithinLog'
  BY <1>6 DEF Crash
<1>7. ASSUME NEW members \in SUBSET Running, Rebalance(members), CountLosses
      PROVE  WithinLog'
  BY <1>7 DEF Rebalance
<1>8. ASSUME NEW r \in Reader, Resume(r)
      PROVE  WithinLog'
  BY <1>8 DEF Resume
<1>9. ASSUME NEW r \in Reader, NEW p \in Partition, Fetch(r, p)
      PROVE  WithinLog'
  BY <1>9 DEF Fetch
<1>10. ASSUME NEW r \in Reader, HandleOk(r)
      PROVE  WithinLog'
  BY <1>10 DEF HandleOk, Handled
<1>11. ASSUME NEW r \in Reader, HandleFails(r)
      PROVE  WithinLog'
  BY <1>11 DEF HandleFails, Handled, LetGo
<1>12. ASSUME NEW r \in Reader, CommitOk(r)
      PROVE  WithinLog'
  BY <1>12 DEF CommitOk, Taken, LetGo
<1>13. ASSUME NEW r \in Reader, CommitFails(r)
      PROVE  WithinLog'
  <2>1. \A p \in Partition : committed'[p] <= log'[p]
    BY <1>13, CommitKeepsOffset DEF CommitStep
  <2>2. \A s \in Reader : InHand(s)' => InHand(s) /\ msg'[s] = msg[s]
    BY <1>13 DEF CommitFails, LetGo
  <2>3. /\ UNCHANGED <<log, position>>
        /\ \A s \in Reader : \A m \in late'[s] :
              m \in late[s] \/ (InHand(s) /\ m = msg[s])
    BY <1>13 DEF CommitFails
  <2>4. QED
    BY <2>1, <2>2, <2>3
<1>14. ASSUME NEW r \in Reader, NEW m \in late[r], TakeLate(r, m)
      PROVE  WithinLog'
  BY <1>14 DEF TakeLate, Taken
<1> HIDE DEF WithinLog
<1>15. QED
  BY <1>1, <1>2, <1>3, <1>4, <1>5, <1>6, <1>7, <1>8, <1>9, <1>10, <1>11,
     <1>12, <1>13, <1>14, StepCases, Zenon DEF NewGeneration

(* The handler returns before the next fetch, and what a reader resumes     *)
(* behind was attempted.                                                    *)
LEMMA HandedOutWasAttemptedStep ==
    ASSUME IInv, [Next]_vars
    PROVE  HandedOutWasAttempted'
<1> USE BoundsAssumption, NoneAssumption DEF IInv, TypeOK, HandShape,
        HandedOutWasAttempted, PassedWasAttempted, InHand, Message,
        brokerVars, groupVars, processVars, fetchVars, handVars, commitVars,
        handledVars
<1>1. CASE UNCHANGED vars
  BY <1>1, StutterFrame
<1>2. CASE QuietStep
  BY <1>2, QuietFrame
<1>3. ASSUME NEW r \in Reader, CloseReader(r)
      PROVE  HandedOutWasAttempted'
  BY <1>3 DEF CloseReader
<1>4. ASSUME NEW r \in Reader, Move(r)
      PROVE  HandedOutWasAttempted'
  BY <1>4, MoveFrame, MoveKeepsHands
<1>5. ASSUME NEW p \in Partition, Produce(p)
      PROVE  HandedOutWasAttempted'
  BY <1>5 DEF Produce
<1>6. ASSUME NEW x \in Process, Crash(x)
      PROVE  HandedOutWasAttempted'
  BY <1>6 DEF Crash
<1>7. ASSUME NEW members \in SUBSET Running, Rebalance(members), CountLosses
      PROVE  HandedOutWasAttempted'
  BY <1>7 DEF Rebalance
<1>8. ASSUME NEW r \in Reader, Resume(r)
      PROVE  HandedOutWasAttempted'
  BY <1>8 DEF Resume
<1>9. ASSUME NEW r \in Reader, NEW p \in Partition, Fetch(r, p)
      PROVE  HandedOutWasAttempted'
  <2> SUFFICES ASSUME NEW s \in Reader, NEW q \in Partition,
                      NEW o \in 0..MaxOffset, o < position'[s][q]
               PROVE  \/ o \in attempted[q]
                      \/ /\ loop'[s] = "handle"
                         /\ msg'[s] = [partition |-> q, offset |-> o]
    BY <1>9 DEF Fetch
  <2>1. /\ loop[r] = "fetch"
        /\ loop' = [loop EXCEPT ![r] = "handle"]
        /\ msg' = [msg EXCEPT ![r] =
                     [partition |-> p, offset |-> position[r][p]]]
    BY <1>9 DEF Fetch
  <2>2. position'[s][q] =
          IF s = r /\ q = p THEN position[s][q] + 1 ELSE position[s][q]
    BY <1>9 DEF Fetch
  <2>3. CASE o < position[s][q]
    BY <2>1, <2>3
  <2>4. CASE s = r /\ q = p /\ o = position[s][q]
    BY <2>1, <2>4
  <2>5. position[s][q] \in Nat /\ o \in Nat
    OBVIOUS
  <2> HIDE DEF IInv, TypeOK, HandedOutWasAttempted, PassedWasAttempted, HandShape
  <2>6. QED
    BY <2>2, <2>3, <2>4, <2>5
<1>10. ASSUME NEW r \in Reader, HandleOk(r)
      PROVE  HandedOutWasAttempted'
  BY <1>10 DEF HandleOk, Handled
<1>11. ASSUME NEW r \in Reader, HandleFails(r)
      PROVE  HandedOutWasAttempted'
  BY <1>11 DEF HandleFails, Handled, LetGo
<1>12. ASSUME NEW r \in Reader, CommitOk(r)
      PROVE  HandedOutWasAttempted'
  BY <1>12 DEF CommitOk, Taken, LetGo
<1>13. ASSUME NEW r \in Reader, CommitFails(r)
      PROVE  HandedOutWasAttempted'
  BY <1>13 DEF CommitFails, Taken, LetGo
<1>14. ASSUME NEW r \in Reader, NEW m \in late[r], TakeLate(r, m)
      PROVE  HandedOutWasAttempted'
  BY <1>14 DEF TakeLate, Taken
<1> HIDE DEF HandedOutWasAttempted
<1>15. QED
  BY <1>1, <1>2, <1>3, <1>4, <1>5, <1>6, <1>7, <1>8, <1>9, <1>10, <1>11,
     <1>12, <1>13, <1>14, StepCases, Zenon DEF NewGeneration

(* A fetched message is the first the reader has not handed out.            *)
LEMMA BelowHandWasAttemptedStep ==
    ASSUME IInv, [Next]_vars
    PROVE  BelowHandWasAttempted'
<1> USE BoundsAssumption, NoneAssumption DEF IInv, TypeOK, HandShape,
        HandedOutWasAttempted, BelowHandWasAttempted, InHand, Message,
        brokerVars, groupVars, processVars, fetchVars, handVars, commitVars,
        handledVars
<1>1. CASE UNCHANGED vars
  BY <1>1, StutterFrame
<1>2. CASE QuietStep
  BY <1>2, QuietFrame
<1>3. ASSUME NEW r \in Reader, CloseReader(r)
      PROVE  BelowHandWasAttempted'
  BY <1>3 DEF CloseReader
<1>4. ASSUME NEW r \in Reader, Move(r)
      PROVE  BelowHandWasAttempted'
  BY <1>4, MoveFrame, MoveKeepsHands
<1>5. ASSUME NEW p \in Partition, Produce(p)
      PROVE  BelowHandWasAttempted'
  BY <1>5 DEF Produce
<1>6. ASSUME NEW x \in Process, Crash(x)
      PROVE  BelowHandWasAttempted'
  BY <1>6 DEF Crash
<1>7. ASSUME NEW members \in SUBSET Running, Rebalance(members), CountLosses
      PROVE  BelowHandWasAttempted'
  BY <1>7 DEF Rebalance
<1>8. ASSUME NEW r \in Reader, Resume(r)
      PROVE  BelowHandWasAttempted'
  BY <1>8 DEF Resume
<1>9. ASSUME NEW r \in Reader, NEW p \in Partition, Fetch(r, p)
      PROVE  BelowHandWasAttempted'
  BY <1>9 DEF Fetch
<1>10. ASSUME NEW r \in Reader, HandleOk(r)
      PROVE  BelowHandWasAttempted'
  BY <1>10 DEF HandleOk, Handled
<1>11. ASSUME NEW r \in Reader, HandleFails(r)
      PROVE  BelowHandWasAttempted'
  BY <1>11 DEF HandleFails, Handled, LetGo
<1>12. ASSUME NEW r \in Reader, CommitOk(r)
      PROVE  BelowHandWasAttempted'
  BY <1>12 DEF CommitOk, Taken, LetGo
<1>13. ASSUME NEW r \in Reader, CommitFails(r)
      PROVE  BelowHandWasAttempted'
  BY <1>13 DEF CommitFails, Taken, LetGo
<1>14. ASSUME NEW r \in Reader, NEW m \in late[r], TakeLate(r, m)
      PROVE  BelowHandWasAttempted'
  BY <1>14 DEF TakeLate, Taken
<1> HIDE DEF BelowHandWasAttempted
<1>15. QED
  BY <1>1, <1>2, <1>3, <1>4, <1>5, <1>6, <1>7, <1>8, <1>9, <1>10, <1>11,
     <1>12, <1>13, <1>14, StepCases, Zenon DEF NewGeneration

(* Only HandleOk leads to a commit.                                         *)
LEMMA RequestsAreCommittableStep ==
    ASSUME IInv, [Next]_vars
    PROVE  RequestsAreCommittable'
<1> USE BoundsAssumption, NoneAssumption DEF IInv, TypeOK, HandShape,
        BelowHandWasAttempted, RequestsAreCommittable, Committable, InHand,
        Message, brokerVars, groupVars, processVars, fetchVars, handVars,
        commitVars, handledVars
<1>1. CASE UNCHANGED vars
  BY <1>1, StutterFrame
<1>2. CASE QuietStep
  BY <1>2, QuietFrame
<1>3. ASSUME NEW r \in Reader, CloseReader(r)
      PROVE  RequestsAreCommittable'
  BY <1>3 DEF CloseReader
<1>4. ASSUME NEW r \in Reader, Move(r)
      PROVE  RequestsAreCommittable'
  BY <1>4, MoveFrame, MoveKeepsHands
<1>5. ASSUME NEW p \in Partition, Produce(p)
      PROVE  RequestsAreCommittable'
  BY <1>5 DEF Produce
<1>6. ASSUME NEW x \in Process, Crash(x)
      PROVE  RequestsAreCommittable'
  BY <1>6 DEF Crash
<1>7. ASSUME NEW members \in SUBSET Running, Rebalance(members), CountLosses
      PROVE  RequestsAreCommittable'
  BY <1>7 DEF Rebalance
<1>8. ASSUME NEW r \in Reader, Resume(r)
      PROVE  RequestsAreCommittable'
  BY <1>8 DEF Resume
<1>9. ASSUME NEW r \in Reader, NEW p \in Partition, Fetch(r, p)
      PROVE  RequestsAreCommittable'
  BY <1>9 DEF Fetch
<1>10. ASSUME NEW r \in Reader, HandleOk(r)
      PROVE  RequestsAreCommittable'
  <2>1. /\ loop' = [loop EXCEPT ![r] = "commit"]
        /\ UNCHANGED <<msg, late>>
        /\ \A p \in Partition :
             attempted[p] \subseteq attempted'[p] /\ succeeded[p] \subseteq succeeded'[p]
    BY <1>10 DEF HandleOk, Handled
  <2>2. /\ msg[r].partition \in Partition /\ msg[r].offset \in 0..MaxOffset
        /\ \A o \in 0..MaxOffset :
              o < msg[r].offset => o \in attempted[msg[r].partition]
    BY <1>10, HandTyped DEF HandleOk
  <2>3. /\ msg[r].offset \in attempted'[msg[r].partition]
        /\ msg[r].offset \in succeeded'[msg[r].partition]
    BY <1>10, <2>2 DEF HandleOk, Handled
  <2>4. Committable(msg[r])'
    <3> SUFFICES ASSUME NEW o \in 0..MaxOffset, o <= msg[r].offset
                 PROVE  o \in attempted'[msg[r].partition]
      BY <2>1, <2>3
    <3>1. CASE o = msg[r].offset
      BY <2>3, <3>1
    <3>2. CASE o < msg[r].offset
      BY <2>1, <2>2, <3>2
    <3>3. o = msg[r].offset \/ o < msg[r].offset
      <4> HIDE DEF IInv, TypeOK, HandShape, RequestsAreCommittable
      <4>1. QED
        BY <2>2
    <3>4. QED
      BY <3>1, <3>2, <3>3
  <2>5. ASSUME NEW s \in Reader, loop'[s] = "commit"
        PROVE  Committable(msg[s])'
    <3>1. CASE s = r
      BY <2>4, <3>1
    <3>2. CASE s # r
      <4>1. loop[s] = "commit"
        BY <2>1, <2>5, <3>2
      <4>2. Committable(msg[s]) /\ msg[s].partition \in Partition
        BY <4>1, HandTyped
      <4>3. QED
        BY <2>1, <4>2
    <3>3. QED
      BY <3>1, <3>2
  <2>6. ASSUME NEW s \in Reader, NEW m \in late[s]
        PROVE  Committable(m)'
    <3>1. Committable(m) /\ m.partition \in Partition
      OBVIOUS
    <3>2. QED
      BY <2>1, <3>1
  <2> HIDE DEF Committable
  <2>7. QED
    BY <2>1, <2>5, <2>6
<1>11. ASSUME NEW r \in Reader, HandleFails(r)
      PROVE  RequestsAreCommittable'
  BY <1>11 DEF HandleFails, Handled, LetGo
<1>12. ASSUME NEW r \in Reader, CommitOk(r)
      PROVE  RequestsAreCommittable'
  BY <1>12 DEF CommitOk, Taken, LetGo
<1>13. ASSUME NEW r \in Reader, CommitFails(r)
      PROVE  RequestsAreCommittable'
  BY <1>13 DEF CommitFails, Taken, LetGo
<1>14. ASSUME NEW r \in Reader, NEW m \in late[r], TakeLate(r, m)
      PROVE  RequestsAreCommittable'
  BY <1>14 DEF TakeLate, Taken
<1> HIDE DEF RequestsAreCommittable
<1>15. QED
  BY <1>1, <1>2, <1>3, <1>4, <1>5, <1>6, <1>7, <1>8, <1>9, <1>10, <1>11,
     <1>12, <1>13, <1>14, StepCases, Zenon DEF NewGeneration

(* Only what is committable is committed.                                   *)
LEMMA PassedWasAttemptedStep ==
    ASSUME IInv, [Next]_vars
    PROVE  PassedWasAttempted'
<1> USE BoundsAssumption, NoneAssumption DEF IInv, TypeOK, HandShape,
        PassedWasAttempted, InHand, Message, brokerVars, groupVars,
        processVars, fetchVars, handVars, commitVars, handledVars
<1>1. CASE UNCHANGED vars
  BY <1>1, StutterFrame
<1>2. CASE QuietStep
  BY <1>2, QuietFrame
<1>3. ASSUME NEW r \in Reader, CloseReader(r)
      PROVE  PassedWasAttempted'
  BY <1>3 DEF CloseReader
<1>4. ASSUME NEW r \in Reader, Move(r)
      PROVE  PassedWasAttempted'
  BY <1>4, MoveFrame
<1>5. ASSUME NEW p \in Partition, Produce(p)
      PROVE  PassedWasAttempted'
  BY <1>5 DEF Produce
<1>6. ASSUME NEW x \in Process, Crash(x)
      PROVE  PassedWasAttempted'
  BY <1>6 DEF Crash
<1>7. ASSUME NEW members \in SUBSET Running, Rebalance(members), CountLosses
      PROVE  PassedWasAttempted'
  BY <1>7 DEF Rebalance
<1>8. ASSUME NEW r \in Reader, Resume(r)
      PROVE  PassedWasAttempted'
  BY <1>8 DEF Resume
<1>9. ASSUME NEW r \in Reader, NEW p \in Partition, Fetch(r, p)
      PROVE  PassedWasAttempted'
  BY <1>9 DEF Fetch
<1>10. ASSUME NEW r \in Reader, HandleOk(r)
      PROVE  PassedWasAttempted'
  BY <1>10 DEF HandleOk, Handled
<1>11. ASSUME NEW r \in Reader, HandleFails(r)
      PROVE  PassedWasAttempted'
  BY <1>11 DEF HandleFails, Handled, LetGo
<1>12. ASSUME NEW r \in Reader, CommitOk(r)
      PROVE  PassedWasAttempted'
  BY <1>12, CommitKeepsOffset DEF CommitStep
<1>13. ASSUME NEW r \in Reader, CommitFails(r)
      PROVE  PassedWasAttempted'
  BY <1>13, CommitKeepsOffset DEF CommitStep
<1>14. ASSUME NEW r \in Reader, NEW m \in late[r], TakeLate(r, m)
      PROVE  PassedWasAttempted'
  BY <1>14, CommitKeepsOffset DEF CommitStep
<1> HIDE DEF PassedWasAttempted
<1>15. QED
  BY <1>1, <1>2, <1>3, <1>4, <1>5, <1>6, <1>7, <1>8, <1>9, <1>10, <1>11,
     <1>12, <1>13, <1>14, StepCases, Zenon DEF NewGeneration

(* The offset moves to right behind what is committed.                      *)
LEMMA CommitFollowsSuccessStep ==
    ASSUME IInv, [Next]_vars
    PROVE  CommitFollowsSuccess'
<1> USE BoundsAssumption, NoneAssumption DEF IInv, TypeOK, HandShape,
        CommitFollowsSuccess, InHand, Message, brokerVars, groupVars,
        processVars, fetchVars, handVars, commitVars, handledVars
<1>1. CASE UNCHANGED vars
  BY <1>1, StutterFrame
<1>2. CASE QuietStep
  BY <1>2, QuietFrame
<1>3. ASSUME NEW r \in Reader, CloseReader(r)
      PROVE  CommitFollowsSuccess'
  BY <1>3 DEF CloseReader
<1>4. ASSUME NEW r \in Reader, Move(r)
      PROVE  CommitFollowsSuccess'
  BY <1>4, MoveFrame
<1>5. ASSUME NEW p \in Partition, Produce(p)
      PROVE  CommitFollowsSuccess'
  BY <1>5 DEF Produce
<1>6. ASSUME NEW x \in Process, Crash(x)
      PROVE  CommitFollowsSuccess'
  BY <1>6 DEF Crash
<1>7. ASSUME NEW members \in SUBSET Running, Rebalance(members), CountLosses
      PROVE  CommitFollowsSuccess'
  BY <1>7 DEF Rebalance
<1>8. ASSUME NEW r \in Reader, Resume(r)
      PROVE  CommitFollowsSuccess'
  BY <1>8 DEF Resume
<1>9. ASSUME NEW r \in Reader, NEW p \in Partition, Fetch(r, p)
      PROVE  CommitFollowsSuccess'
  BY <1>9 DEF Fetch
<1>10. ASSUME NEW r \in Reader, HandleOk(r)
      PROVE  CommitFollowsSuccess'
  BY <1>10 DEF HandleOk, Handled
<1>11. ASSUME NEW r \in Reader, HandleFails(r)
      PROVE  CommitFollowsSuccess'
  BY <1>11 DEF HandleFails, Handled, LetGo
<1>12. ASSUME NEW r \in Reader, CommitOk(r)
      PROVE  CommitFollowsSuccess'
  BY <1>12, CommitKeepsOffset DEF CommitStep
<1>13. ASSUME NEW r \in Reader, CommitFails(r)
      PROVE  CommitFollowsSuccess'
  BY <1>13, CommitKeepsOffset DEF CommitStep
<1>14. ASSUME NEW r \in Reader, NEW m \in late[r], TakeLate(r, m)
      PROVE  CommitFollowsSuccess'
  BY <1>14, CommitKeepsOffset DEF CommitStep
<1> HIDE DEF CommitFollowsSuccess
<1>15. QED
  BY <1>1, <1>2, <1>3, <1>4, <1>5, <1>6, <1>7, <1>8, <1>9, <1>10, <1>11,
     <1>12, <1>13, <1>14, StepCases, Zenon DEF NewGeneration

(* Every variable keeps its type; the offsets stay within the bound because *)
(* they stay within the log.                                                *)
LEMMA TypeOKStep ==
    ASSUME IInv, [Next]_vars
    PROVE  TypeOK'
<1> USE TopicOfAssumption, BoundsAssumption, NoneAssumption DEF IInv,
        TypeOK, HandShape, WithinLog, InHand, Message, brokerVars,
        groupVars, processVars, fetchVars, handVars, commitVars, handledVars
<1>1. CASE UNCHANGED vars
  BY <1>1 DEF vars
<1>2. CASE QuietStep
  BY <1>2, QuietFrame DEF QuietStep, Cancel, Subscribe, Block,
     SubscribeReturns, Close, Readers
<1>3. ASSUME NEW r \in Reader, CloseReader(r)
      PROVE  TypeOK'
  BY <1>3 DEF CloseReader
<1>4. ASSUME NEW r \in Reader, Move(r)
      PROVE  TypeOK'
  BY <1>4, MoveFrame
<1>5. ASSUME NEW p \in Partition, Produce(p)
      PROVE  TypeOK'
  BY <1>5 DEF Produce
<1>6. ASSUME NEW x \in Process, Crash(x)
      PROVE  TypeOK'
  <2>1. /\ UNCHANGED <<log, committed, owner, losses, strays, attempted,
                       succeeded, last, acked>>
        /\ toClose' \subseteq toClose /\ stale' \subseteq stale
        /\ group' \subseteq group /\ behind' \subseteq behind
    BY <1>6 DEF Crash
  <2>2. /\ subscribe' = [subscribe EXCEPT ![x] = "none"]
        /\ cancelled' = [cancelled EXCEPT ![x] = FALSE]
    BY <1>6 DEF Crash
  <2>3. /\ loop' \in
             [Reader -> {"off", "select", "fetch", "handle", "commit", "done"}]
        /\ closed' \in [Reader -> BOOLEAN]
        /\ assigned' \in [Reader -> SUBSET Partition]
    BY <1>6 DEF Crash
  <2>4. position' \in [Reader -> [Partition -> 0..MaxOffset]]
    <3>1. [p \in Partition |-> 0] \in [Partition -> 0..MaxOffset]
      BY BoundsAssumption
    <3> DEFINE zero == [p \in Partition |-> 0]
    <3>2. position' = [r \in Reader |->
                         IF ProcessOf(r) = x THEN zero ELSE position[r]]
      BY <1>6 DEF Crash
    <3> HIDE DEF zero
    <3>3. QED
      BY <3>1, <3>2 DEF zero
  <2>5. /\ msg' \in [Reader -> Message \cup {None}]
        /\ late' \in [Reader -> SUBSET Message]
    BY <1>6 DEF Crash
  <2>6. QED
    BY <2>1, <2>2, <2>3, <2>4, <2>5
<1>7. ASSUME NEW members \in SUBSET Running, Rebalance(members), CountLosses
      PROVE  TypeOK'
  <2>1. /\ UNCHANGED <<log, committed, processVars, closed, fetchVars, loop, msg,
                       commitVars, attempted, succeeded, acked>>
        /\ group' = members /\ behind' = members
        /\ stale' \subseteq Reader
    BY <1>7 DEF Rebalance
  <2>2. members \subseteq Reader
    BY DEF Running
  <2>3. owner' \in [Partition -> Reader \cup {None}]
    BY <1>7, <2>2 DEF Rebalance
  <2>4. last' \in [Partition -> -1..MaxOffset]
    BY <1>7 DEF Rebalance
  <2>5. losses' \in 0..MaxLosses
    BY <1>7 DEF CountLosses
  <2>6. QED
    BY <2>1, <2>2, <2>3, <2>4, <2>5
<1>8. ASSUME NEW r \in Reader, Resume(r)
      PROVE  TypeOK'
  BY <1>8 DEF Resume
<1>9. ASSUME NEW r \in Reader, NEW p \in Partition, Fetch(r, p)
      PROVE  TypeOK'
  BY <1>9 DEF Fetch
<1>10. ASSUME NEW r \in Reader, HandleOk(r)
      PROVE  TypeOK'
  BY <1>10 DEF HandleOk, Handled
<1>11. ASSUME NEW r \in Reader, HandleFails(r)
      PROVE  TypeOK'
  BY <1>11 DEF HandleFails, Handled, LetGo
<1>12. ASSUME NEW r \in Reader, CommitOk(r)
      PROVE  TypeOK'
  BY <1>12 DEF CommitOk, Taken, LetGo
<1>13. ASSUME NEW r \in Reader, CommitFails(r)
      PROVE  TypeOK'
  <2>1. committed' \in [Partition -> 0..MaxOffset]
    <3>1. CASE UNCHANGED committed
      BY <3>1
    <3>2. CASE Taken(r, msg[r], r \in stale)
      BY <1>13, <3>2 DEF CommitFails, Taken
    <3>3. QED
      BY <1>13, <3>1, <3>2 DEF CommitFails
  <2>2. /\ UNCHANGED <<log, groupVars, processVars, closed, fetchVars, handledVars,
                       acked>>
        /\ msg' = [msg EXCEPT ![r] = None]
        /\ loop' = [loop EXCEPT ![r] = "select"]
        /\ stale' \subseteq stale
    BY <1>13 DEF CommitFails, LetGo
  <2>3. strays' \in SUBSET Partition
    BY <1>13 DEF CommitFails, Taken
  <2>4. late' \in [Reader -> SUBSET Message]
    BY <1>13 DEF CommitFails
  <2>5. QED
    BY <2>1, <2>2, <2>3, <2>4
<1>14. ASSUME NEW r \in Reader, NEW m \in late[r], TakeLate(r, m)
      PROVE  TypeOK'
  BY <1>14 DEF TakeLate, Taken
<1> HIDE DEF TypeOK
<1>15. QED
  BY <1>1, <1>2, <1>3, <1>4, <1>5, <1>6, <1>7, <1>8, <1>9, <1>10, <1>11,
     <1>12, <1>13, <1>14, StepCases, Zenon DEF NewGeneration

(* A member that resumes takes what the generation gave it, and none of a   *)
(* new generation has resumed.                                              *)
LEMMA GroupShapeStep ==
    ASSUME IInv, [Next]_vars
    PROVE  GroupShape'
<1> USE BoundsAssumption, NoneAssumption DEF IInv, TypeOK, HandShape,
        GroupShape, Current, Running, InHand, Message, brokerVars,
        groupVars, processVars, fetchVars, handVars, commitVars, handledVars
<1>1. CASE UNCHANGED vars
  BY <1>1, StutterFrame
<1>2. CASE QuietStep
  BY <1>2, QuietFrame
<1>3. ASSUME NEW r \in Reader, CloseReader(r)
      PROVE  GroupShape'
  BY <1>3 DEF CloseReader
<1>4. ASSUME NEW r \in Reader, Move(r)
      PROVE  GroupShape'
  BY <1>4, MoveFrame, MoveKeepsHands
<1>5. ASSUME NEW p \in Partition, Produce(p)
      PROVE  GroupShape'
  BY <1>5 DEF Produce
<1>6. ASSUME NEW x \in Process, Crash(x)
      PROVE  GroupShape'
  BY <1>6 DEF Crash
<1>7. ASSUME NEW members \in SUBSET Running, Rebalance(members), CountLosses
      PROVE  GroupShape'
  BY <1>7 DEF Rebalance
<1>8. ASSUME NEW r \in Reader, Resume(r)
      PROVE  GroupShape'
  BY <1>8 DEF Resume
<1>9. ASSUME NEW r \in Reader, NEW p \in Partition, Fetch(r, p)
      PROVE  GroupShape'
  BY <1>9 DEF Fetch
<1>10. ASSUME NEW r \in Reader, HandleOk(r)
      PROVE  GroupShape'
  BY <1>10 DEF HandleOk, Handled
<1>11. ASSUME NEW r \in Reader, HandleFails(r)
      PROVE  GroupShape'
  BY <1>11 DEF HandleFails, Handled, LetGo
<1>12. ASSUME NEW r \in Reader, CommitOk(r)
      PROVE  GroupShape'
  BY <1>12 DEF CommitOk, Taken, LetGo
<1>13. ASSUME NEW r \in Reader, CommitFails(r)
      PROVE  GroupShape'
  BY <1>13 DEF CommitFails, Taken, LetGo
<1>14. ASSUME NEW r \in Reader, NEW m \in late[r], TakeLate(r, m)
      PROVE  GroupShape'
  BY <1>14 DEF TakeLate, Taken
<1> HIDE DEF GroupShape
<1>15. QED
  BY <1>1, <1>2, <1>3, <1>4, <1>5, <1>6, <1>7, <1>8, <1>9, <1>10, <1>11,
     <1>12, <1>13, <1>14, StepCases, Zenon DEF NewGeneration

(* A rebalance makes every message in hand stale, and only a fetch by a     *)
(* member that has resumed makes a fresh one.                               *)
LEMMA FreshIsLatestStep ==
    ASSUME IInv, [Next]_vars
    PROVE  FreshIsLatest'
<1> USE BoundsAssumption, NoneAssumption DEF IInv, TypeOK, HandShape,
        GroupShape, Current, FreshIsLatest, InHand, Message, brokerVars,
        groupVars, processVars, fetchVars, handVars, commitVars, handledVars
<1>1. CASE UNCHANGED vars
  BY <1>1, StutterFrame
<1>2. CASE QuietStep
  BY <1>2, QuietFrame
<1>3. ASSUME NEW r \in Reader, CloseReader(r)
      PROVE  FreshIsLatest'
  BY <1>3 DEF CloseReader
<1>4. ASSUME NEW r \in Reader, Move(r)
      PROVE  FreshIsLatest'
  BY <1>4, MoveFrame, MoveKeepsHands
<1>5. ASSUME NEW p \in Partition, Produce(p)
      PROVE  FreshIsLatest'
  BY <1>5 DEF Produce
<1>6. ASSUME NEW x \in Process, Crash(x)
      PROVE  FreshIsLatest'
  BY <1>6 DEF Crash
<1>7. ASSUME NEW members \in SUBSET Running, Rebalance(members), CountLosses
      PROVE  FreshIsLatest'
  BY <1>7 DEF Rebalance
<1>8. ASSUME NEW r \in Reader, Resume(r)
      PROVE  FreshIsLatest'
  BY <1>8 DEF Resume
<1>9. ASSUME NEW r \in Reader, NEW p \in Partition, Fetch(r, p)
      PROVE  FreshIsLatest'
  BY <1>9 DEF Fetch
<1>10. ASSUME NEW r \in Reader, HandleOk(r)
      PROVE  FreshIsLatest'
  BY <1>10 DEF HandleOk, Handled
<1>11. ASSUME NEW r \in Reader, HandleFails(r)
      PROVE  FreshIsLatest'
  BY <1>11 DEF HandleFails, Handled, LetGo
<1>12. ASSUME NEW r \in Reader, CommitOk(r)
      PROVE  FreshIsLatest'
  BY <1>12 DEF CommitOk, Taken, LetGo
<1>13. ASSUME NEW r \in Reader, CommitFails(r)
      PROVE  FreshIsLatest'
  BY <1>13 DEF CommitFails, Taken, LetGo
<1>14. ASSUME NEW r \in Reader, NEW m \in late[r], TakeLate(r, m)
      PROVE  FreshIsLatest'
  BY <1>14 DEF TakeLate, Taken
<1> HIDE DEF FreshIsLatest
<1>15. QED
  BY <1>1, <1>2, <1>3, <1>4, <1>5, <1>6, <1>7, <1>8, <1>9, <1>10, <1>11,
     <1>12, <1>13, <1>14, StepCases, Zenon DEF NewGeneration

(* A fresh commit is made by the one member that reads the partition.       *)
LEMMA OffsetBehindReaderStep ==
    ASSUME IInv, [Next]_vars
    PROVE  OffsetBehindReader'
<1> USE BoundsAssumption, NoneAssumption DEF IInv, TypeOK, HandShape,
        GroupShape, Current, FreshIsLatest, OffsetBehindReader, InHand,
        Message, brokerVars, groupVars, processVars, fetchVars, handVars,
        commitVars, handledVars
<1>1. CASE UNCHANGED vars
  BY <1>1, StutterFrame
<1>2. CASE QuietStep
  BY <1>2, QuietFrame
<1>3. ASSUME NEW r \in Reader, CloseReader(r)
      PROVE  OffsetBehindReader'
  BY <1>3 DEF CloseReader
<1>4. ASSUME NEW r \in Reader, Move(r)
      PROVE  OffsetBehindReader'
  BY <1>4, MoveFrame, MoveKeepsHands
<1>5. ASSUME NEW p \in Partition, Produce(p)
      PROVE  OffsetBehindReader'
  BY <1>5 DEF Produce
<1>6. ASSUME NEW x \in Process, Crash(x)
      PROVE  OffsetBehindReader'
  BY <1>6 DEF Crash
<1>7. ASSUME NEW members \in SUBSET Running, Rebalance(members), CountLosses
      PROVE  OffsetBehindReader'
  BY <1>7 DEF Rebalance
<1>8. ASSUME NEW r \in Reader, Resume(r)
      PROVE  OffsetBehindReader'
  BY <1>8 DEF Resume
<1>9. ASSUME NEW r \in Reader, NEW p \in Partition, Fetch(r, p)
      PROVE  OffsetBehindReader'
  BY <1>9 DEF Fetch
<1>10. ASSUME NEW r \in Reader, HandleOk(r)
      PROVE  OffsetBehindReader'
  BY <1>10 DEF HandleOk, Handled
<1>11. ASSUME NEW r \in Reader, HandleFails(r)
      PROVE  OffsetBehindReader'
  BY <1>11 DEF HandleFails, Handled, LetGo
<1>12. ASSUME NEW r \in Reader, CommitOk(r)
      PROVE  OffsetBehindReader'
  BY <1>12 DEF CommitOk, Taken, LetGo
<1>13. ASSUME NEW r \in Reader, CommitFails(r)
      PROVE  OffsetBehindReader'
  <2>1. CASE UNCHANGED <<committed, strays>>
    BY <1>13, <2>1 DEF CommitFails, LetGo
  <2>2. CASE Taken(r, msg[r], r \in stale)
    BY <1>13, <2>2 DEF CommitFails, Taken, LetGo
  <2>3. QED
    BY <1>13, <2>1, <2>2 DEF CommitFails
<1>14. ASSUME NEW r \in Reader, NEW m \in late[r], TakeLate(r, m)
      PROVE  OffsetBehindReader'
  BY <1>14 DEF TakeLate, Taken
<1> HIDE DEF OffsetBehindReader
<1>15. QED
  BY <1>1, <1>2, <1>3, <1>4, <1>5, <1>6, <1>7, <1>8, <1>9, <1>10, <1>11,
     <1>12, <1>13, <1>14, StepCases, Zenon DEF NewGeneration

(* An acknowledged commit has moved the offset, and only a stray one moves  *)
(* it back.                                                                 *)
LEMMA AckedWasPassedStep ==
    ASSUME IInv, [Next]_vars
    PROVE  AckedWasPassed'
<1> USE BoundsAssumption, NoneAssumption DEF IInv, TypeOK, HandShape,
        GroupShape, Current, FreshIsLatest, OffsetBehindReader,
        AckedWasPassed, InHand, Message, brokerVars, groupVars, processVars,
        fetchVars, handVars, commitVars, handledVars
<1>1. CASE UNCHANGED vars
  BY <1>1, StutterFrame
<1>2. CASE QuietStep
  BY <1>2, QuietFrame
<1>3. ASSUME NEW r \in Reader, CloseReader(r)
      PROVE  AckedWasPassed'
  BY <1>3 DEF CloseReader
<1>4. ASSUME NEW r \in Reader, Move(r)
      PROVE  AckedWasPassed'
  BY <1>4, MoveFrame, MoveKeepsHands
<1>5. ASSUME NEW p \in Partition, Produce(p)
      PROVE  AckedWasPassed'
  BY <1>5 DEF Produce
<1>6. ASSUME NEW x \in Process, Crash(x)
      PROVE  AckedWasPassed'
  BY <1>6 DEF Crash
<1>7. ASSUME NEW members \in SUBSET Running, Rebalance(members), CountLosses
      PROVE  AckedWasPassed'
  BY <1>7 DEF Rebalance
<1>8. ASSUME NEW r \in Reader, Resume(r)
      PROVE  AckedWasPassed'
  BY <1>8 DEF Resume
<1>9. ASSUME NEW r \in Reader, NEW p \in Partition, Fetch(r, p)
      PROVE  AckedWasPassed'
  BY <1>9 DEF Fetch
<1>10. ASSUME NEW r \in Reader, HandleOk(r)
      PROVE  AckedWasPassed'
  BY <1>10 DEF HandleOk, Handled
<1>11. ASSUME NEW r \in Reader, HandleFails(r)
      PROVE  AckedWasPassed'
  BY <1>11 DEF HandleFails, Handled, LetGo
<1>12. ASSUME NEW r \in Reader, CommitOk(r)
      PROVE  AckedWasPassed'
  BY <1>12 DEF CommitOk, Taken, LetGo
<1>13. ASSUME NEW r \in Reader, CommitFails(r)
      PROVE  AckedWasPassed'
  BY <1>13 DEF CommitFails, Taken, LetGo
<1>14. ASSUME NEW r \in Reader, NEW m \in late[r], TakeLate(r, m)
      PROVE  AckedWasPassed'
  BY <1>14 DEF TakeLate, Taken
<1> HIDE DEF AckedWasPassed
<1>15. QED
  BY <1>1, <1>2, <1>3, <1>4, <1>5, <1>6, <1>7, <1>8, <1>9, <1>10, <1>11,
     <1>12, <1>13, <1>14, StepCases, Zenon DEF NewGeneration

(* The owner of a partition resumes once in a generation.                   *)
LEMMA LastBehindReaderStep ==
    ASSUME IInv, [Next]_vars
    PROVE  LastBehindReader'
<1> USE BoundsAssumption, NoneAssumption DEF IInv, TypeOK, HandShape,
        GroupShape, Current, FreshIsLatest, LastBehindReader, InHand,
        Message, brokerVars, groupVars, processVars, fetchVars, handVars,
        commitVars, handledVars
<1>1. CASE UNCHANGED vars
  BY <1>1, StutterFrame
<1>2. CASE QuietStep
  BY <1>2, QuietFrame
<1>3. ASSUME NEW r \in Reader, CloseReader(r)
      PROVE  LastBehindReader'
  BY <1>3 DEF CloseReader
<1>4. ASSUME NEW r \in Reader, Move(r)
      PROVE  LastBehindReader'
  BY <1>4, MoveFrame, MoveKeepsHands
<1>5. ASSUME NEW p \in Partition, Produce(p)
      PROVE  LastBehindReader'
  BY <1>5 DEF Produce
<1>6. ASSUME NEW x \in Process, Crash(x)
      PROVE  LastBehindReader'
  BY <1>6 DEF Crash
<1>7. ASSUME NEW members \in SUBSET Running, Rebalance(members), CountLosses
      PROVE  LastBehindReader'
  BY <1>7 DEF Rebalance
<1>8. ASSUME NEW r \in Reader, Resume(r)
      PROVE  LastBehindReader'
  BY <1>8 DEF Resume
<1>9. ASSUME NEW r \in Reader, NEW p \in Partition, Fetch(r, p)
      PROVE  LastBehindReader'
  BY <1>9 DEF Fetch
<1>10. ASSUME NEW r \in Reader, HandleOk(r)
      PROVE  LastBehindReader'
  BY <1>10 DEF HandleOk, Handled
<1>11. ASSUME NEW r \in Reader, HandleFails(r)
      PROVE  LastBehindReader'
  BY <1>11 DEF HandleFails, Handled, LetGo
<1>12. ASSUME NEW r \in Reader, CommitOk(r)
      PROVE  LastBehindReader'
  BY <1>12 DEF CommitOk, Taken, LetGo
<1>13. ASSUME NEW r \in Reader, CommitFails(r)
      PROVE  LastBehindReader'
  BY <1>13 DEF CommitFails, Taken, LetGo
<1>14. ASSUME NEW r \in Reader, NEW m \in late[r], TakeLate(r, m)
      PROVE  LastBehindReader'
  BY <1>14 DEF TakeLate, Taken
<1> HIDE DEF LastBehindReader
<1>15. QED
  BY <1>1, <1>2, <1>3, <1>4, <1>5, <1>6, <1>7, <1>8, <1>9, <1>10, <1>11,
     <1>12, <1>13, <1>14, StepCases, Zenon DEF NewGeneration

(* A fresh message is ahead of everything handled in its generation.        *)
LEMMA OncePerGenerationStep ==
    ASSUME IInv, [Next]_vars
    PROVE  OncePerGeneration'
<1> USE BoundsAssumption, NoneAssumption DEF IInv, TypeOK, HandShape,
        GroupShape, Current, FreshIsLatest, LastBehindReader,
        OncePerGeneration, InHand, Message, brokerVars, groupVars,
        processVars, fetchVars, handVars, commitVars, handledVars
<1>1. CASE UNCHANGED vars
  BY <1>1, StutterFrame
<1>2. CASE QuietStep
  BY <1>2, QuietFrame
<1>3. ASSUME NEW r \in Reader, CloseReader(r)
      PROVE  OncePerGeneration'
  BY <1>3 DEF CloseReader
<1>4. ASSUME NEW r \in Reader, Move(r)
      PROVE  OncePerGeneration'
  BY <1>4, MoveFrame, MoveKeepsHands
<1>5. ASSUME NEW p \in Partition, Produce(p)
      PROVE  OncePerGeneration'
  BY <1>5 DEF Produce
<1>6. ASSUME NEW x \in Process, Crash(x)
      PROVE  OncePerGeneration'
  BY <1>6 DEF Crash
<1>7. ASSUME NEW members \in SUBSET Running, Rebalance(members), CountLosses
      PROVE  OncePerGeneration'
  BY <1>7 DEF Rebalance
<1>8. ASSUME NEW r \in Reader, Resume(r)
      PROVE  OncePerGeneration'
  BY <1>8 DEF Resume
<1>9. ASSUME NEW r \in Reader, NEW p \in Partition, Fetch(r, p)
      PROVE  OncePerGeneration'
  BY <1>9 DEF Fetch
<1>10. ASSUME NEW r \in Reader, HandleOk(r)
      PROVE  OncePerGeneration'
  BY <1>10 DEF HandleOk, Handled
<1>11. ASSUME NEW r \in Reader, HandleFails(r)
      PROVE  OncePerGeneration'
  BY <1>11 DEF HandleFails, Handled, LetGo
<1>12. ASSUME NEW r \in Reader, CommitOk(r)
      PROVE  OncePerGeneration'
  BY <1>12 DEF CommitOk, Taken, LetGo
<1>13. ASSUME NEW r \in Reader, CommitFails(r)
      PROVE  OncePerGeneration'
  BY <1>13 DEF CommitFails, Taken, LetGo
<1>14. ASSUME NEW r \in Reader, NEW m \in late[r], TakeLate(r, m)
      PROVE  OncePerGeneration'
  BY <1>14 DEF TakeLate, Taken
<1> HIDE DEF OncePerGeneration
<1>15. QED
  BY <1>1, <1>2, <1>3, <1>4, <1>5, <1>6, <1>7, <1>8, <1>9, <1>10, <1>11,
     <1>12, <1>13, <1>14, StepCases, Zenon DEF NewGeneration

(* The invariant, for any processes, topics, partitions and bounds, under   *)
(* any crashes, rebalances and late commits.                                *)
THEOREM InvariantHolds == Spec => []IInv
<1>1. Init => IInv
  <2> SUFFICES ASSUME Init
               PROVE  IInv
    OBVIOUS
  <2> USE BoundsAssumption DEF Init, InHand, Current
  <2>1. TypeOK
    BY DEF TypeOK
  <2>2. HandShape /\ WithinLog /\ HandedOutWasAttempted
    BY DEF HandShape, WithinLog, HandedOutWasAttempted
  <2>3. BelowHandWasAttempted /\ RequestsAreCommittable
    BY DEF BelowHandWasAttempted, RequestsAreCommittable
  <2>4. PassedWasAttempted /\ CommitFollowsSuccess
    BY DEF PassedWasAttempted, CommitFollowsSuccess
  <2>5. GroupShape /\ FreshIsLatest /\ OffsetBehindReader /\ AckedWasPassed
    BY DEF GroupShape, FreshIsLatest, OffsetBehindReader, AckedWasPassed
  <2>6. LastBehindReader /\ OncePerGeneration
    BY DEF LastBehindReader, OncePerGeneration
  <2>7. QED
    BY <2>1, <2>2, <2>3, <2>4, <2>5, <2>6 DEF IInv
<1>2. IInv /\ [Next]_vars => IInv'
  <2> SUFFICES ASSUME IInv, [Next]_vars
               PROVE  IInv'
    OBVIOUS
  <2>1. TypeOK' /\ HandShape' /\ WithinLog' /\ HandedOutWasAttempted'
    BY TypeOKStep, HandShapeStep, WithinLogStep, HandedOutWasAttemptedStep
  <2>2. BelowHandWasAttempted' /\ RequestsAreCommittable'
    BY BelowHandWasAttemptedStep, RequestsAreCommittableStep
  <2>3. PassedWasAttempted' /\ CommitFollowsSuccess'
    BY PassedWasAttemptedStep, CommitFollowsSuccessStep
  <2>4. GroupShape' /\ FreshIsLatest' /\ OffsetBehindReader' /\ AckedWasPassed'
    BY GroupShapeStep, FreshIsLatestStep, OffsetBehindReaderStep,
       AckedWasPassedStep
  <2>5. LastBehindReader' /\ OncePerGeneration'
    BY LastBehindReaderStep, OncePerGenerationStep
  <2>6. QED
    BY <2>1, <2>2, <2>3, <2>4, <2>5 DEF IInv
<1>3. QED
  BY <1>1, <1>2, PTL DEF Spec

----------------------------------------------------------------------------
(* Every variable keeps its type, in every reachable state.                 *)
THEOREM TypeCorrect == Spec => []TypeOK
  BY InvariantHolds, PTL DEF IInv

(* No message is passed over without a handler having seen it, however many *)
(* processes share the group and however often it rebalances.               *)
THEOREM NothingIsSkipped == Spec => []PassedWasAttempted
  BY InvariantHolds, PTL DEF IInv

(* The group's offset always lies right behind a message that was accepted. *)
THEOREM OffsetsEndInSuccess == Spec => []CommitFollowsSuccess
  BY InvariantHolds, PTL DEF IInv

(* Within one generation the group's current members hand a message to      *)
(* their handlers at most once, and in order.                               *)
THEOREM HandledOncePerGeneration == Spec => []OncePerGeneration
  BY InvariantHolds, PTL DEF IInv

(* An acknowledged message reaches a member that has resumed only after a   *)
(* stray commit.                                                            *)
THEOREM AckedComesBackByStrays == Spec => []AckedAgainNeedsStray
<1>1. IInv => AckedAgainNeedsStray
  <2> SUFFICES ASSUME IInv, NEW r \in Reader, loop[r] = "handle",
                      r \notin stale, msg[r].partition \notin strays
               PROVE  msg[r].offset \notin acked[msg[r].partition]
    BY DEF AckedAgainNeedsStray
  <2>1. InHand(r)
    BY DEF InHand
  <2>2. msg[r].partition \in Partition /\ msg[r].offset \in 0..MaxOffset
    BY <2>1, HandTyped DEF IInv
  <2>3. committed[msg[r].partition] <= msg[r].offset
    BY <2>1 DEF IInv, OffsetBehindReader
  <2>4. \A o \in acked[msg[r].partition] : o < committed[msg[r].partition]
    BY <2>2 DEF IInv, AckedWasPassed
  <2>5. committed[msg[r].partition] \in Nat
    BY <2>2, BoundsAssumption DEF IInv, TypeOK
  <2>6. QED
    BY <2>2, <2>3, <2>4, <2>5
<1>2. QED
  BY <1>1, InvariantHolds, PTL

(* The group's offset moves back by a stray commit only.                    *)
THEOREM RetreatsAreStray == Spec => RetreatNeedsStray
<1>1. ASSUME IInv, [Next]_vars
      PROVE  \A p \in Partition : committed'[p] < committed[p] => p \in strays'
  <2>1. CASE UNCHANGED committed
    BY <1>1, <2>1, BoundsAssumption DEF IInv, TypeOK
  <2>2. ASSUME NEW r \in Reader, CommitStep(r),
               NEW p \in Partition, committed'[p] < committed[p]
        PROVE  p \in strays'
    <3>1. CASE UNCHANGED committed
      BY <1>1, <2>2, <3>1, BoundsAssumption DEF IInv, TypeOK
    <3>2. ASSUME NEW m \in Message, NEW stray \in BOOLEAN, Taken(r, m, stray),
                 stray \/ (InHand(r) /\ r \notin stale /\ m = msg[r])
          PROVE  p \in strays'
      <4>1. p = m.partition /\ committed'[p] = m.offset + 1
        BY <1>1, <2>2, <3>2, AfterCommit, BoundsAssumption DEF IInv, TypeOK
      <4>2. CASE stray
        BY <3>2, <4>1, <4>2 DEF Taken
      <4>3. CASE ~stray
        <5>1. p \in strays \/ committed[p] <= m.offset
          BY <1>1, <3>2, <4>1, <4>3 DEF IInv, OffsetBehindReader
        <5>2. committed[p] \in Nat /\ m.offset \in Nat
          BY <1>1, BoundsAssumption DEF IInv, TypeOK, Message
        <5>3. p \in strays
          BY <2>2, <4>1, <5>1, <5>2
        <5>4. QED
          BY <3>2, <5>3 DEF Taken
      <4>4. QED
        BY <4>2, <4>3
    <3>3. QED
      BY <1>1, <2>2, <3>1, <3>2, CommitCases
  <2>3. CASE \E r \in Reader : CommitStep(r)
    BY <2>2, <2>3
  <2>4. QED
    BY <1>1, <2>1, <2>3, StepCases, StutterFrame, QuietFrame, MoveFrame
       DEF CloseReader, Produce, Crash, NewGeneration, Rebalance, Resume, Fetch,
           HandleOk, HandleFails, CommitStep, brokerVars
<1>2. QED
  BY <1>1, InvariantHolds, PTL DEF Spec, RetreatNeedsStray

============================================================================
