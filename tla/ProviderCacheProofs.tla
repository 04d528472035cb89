------------------------ MODULE ProviderCacheProofs ------------------------
(***************************************************************************)
(* Proofs about ProviderCache, for any number of goroutines, services and  *)
(* calls.  IInv is the inductive invariant: it adds to the properties what *)
(* a call knows about the provider it has built and not yet published.     *)
(***************************************************************************)
EXTENDS ProviderCache, TLAPS

(* Reachable by somebody else than the call that built it.                  *)
Published(p) ==
    \/ \E s \in Service : cache[s] = p
    \/ p \in orphans
    \/ \E c \in Caller : held[c] = p

(* A call that has not created its provider yet finds the name unused, and  *)
(* so will every later call.                                                *)
NameUnused ==
    \A c \in Caller, n \in 1..MaxCalls :
        (n > calls[c] \/ (n = calls[c] /\ pc[c] \in {"lookup", "create"}))
            => status[<<c, n>>] = "none"

(* A call that is past the first check is one of the counted calls.         *)
CallCounted == \A c \in Caller : pc[c] # "idle" => calls[c] \in 1..MaxCalls

(* The provider in a call's hands runs, and nobody else knows it.           *)
OwnIsPrivate ==
    \A c \in Caller : own[c] # Nil =>
        /\ pc[c] \in {"publish", "discard"}
        /\ own[c] = <<c, calls[c]>>
        /\ status[own[c]] = "running"
        /\ ~Published(own[c])

(* A loser holds a provider, and the answer it will give is the entry.      *)
LoserKnowsEntry ==
    \A c \in Caller : pc[c] = "discard" =>
        /\ own[c] # Nil
        /\ cache[svc[c]] # Absent
        /\ existing[c] = cache[svc[c]]

IInv ==
    /\ TypeOK
    /\ LockDiscipline
    /\ CallCounted
    /\ NameUnused
    /\ OwnIsPrivate
    /\ LoserKnowsEntry
    /\ LoserShutsOnlyItsOwn
    /\ OneServicePerProvider
    /\ NoLeak
    /\ AnswerIsCached

----------------------------------------------------------------------------
(* Every step of the specification is one of the twelve actions.            *)
LEMMA StepCases ==
    ASSUME [Next]_vars
    PROVE  \/ UNCHANGED vars
           \/ Clear
           \/ \E c \in Caller : \E s \in Service, e \in BOOLEAN : Call(c, s, e)
           \/ \E c \in Caller : Hit(c)
           \/ \E c \in Caller : Miss(c)
           \/ \E c \in Caller : CreateNil(c)
           \/ \E c \in Caller : Create(c)
           \/ \E c \in Caller : CreateFails(c)
           \/ \E c \in Caller : Publish(c)
           \/ \E c \in Caller : AdoptExisting(c)
           \/ \E c \in Caller : Lose(c)
           \/ \E c \in Caller : Discard(c)
           \/ \E c \in Caller : Shutdown(c)
  BY Zenon DEF Next, Locked, Unlocked

(* The provider a counted call names exists.                                *)
LEMMA NamedProvider ==
    ASSUME NEW c \in Caller, NEW n \in 1..MaxCalls
    PROVE  /\ <<c, n>> \in Provider
           /\ <<c, n>> \notin {Nil, Absent, NoAnswer, Error}
  BY SpecialValuesAssumption DEF Provider

(* Type correctness needs CallCounted: the provider a call names exists     *)
(* only because the call was counted.                                       *)
TypeInv == TypeOK /\ CallCounted

LEMMA TypeInvStep ==
    ASSUME TypeInv, [Next]_vars
    PROVE  TypeInv'
<1> USE DEF TypeInv, TypeOK, CallCounted, sharedVars, callVars, historyVars
<1>1. CASE UNCHANGED vars
  BY <1>1 DEF vars
<1>2. CASE Clear
  BY <1>2 DEF Clear
<1>3. ASSUME NEW c \in Caller, NEW s \in Service, NEW e \in BOOLEAN, Call(c, s, e)
      PROVE  TypeInv'
  BY <1>3, MaxCallsAssumption DEF Call
<1>4. ASSUME NEW c \in Caller, Hit(c)
      PROVE  TypeInv'
  BY <1>4, SpecialValuesAssumption DEF Hit, Return
<1>5. ASSUME NEW c \in Caller, Miss(c)
      PROVE  TypeInv'
  BY <1>5 DEF Miss
<1>6. ASSUME NEW c \in Caller, CreateNil(c)
      PROVE  TypeInv'
  BY <1>6 DEF CreateNil
<1>7. ASSUME NEW c \in Caller, Create(c)
      PROVE  TypeInv'
  BY <1>7, NamedProvider DEF Create
<1>8. ASSUME NEW c \in Caller, CreateFails(c)
      PROVE  TypeInv'
  BY <1>8 DEF CreateFails, Return
<1>9. ASSUME NEW c \in Caller, Publish(c)
      PROVE  TypeInv'
  BY <1>9, SpecialValuesAssumption DEF Publish, Return
<1>10. ASSUME NEW c \in Caller, AdoptExisting(c)
      PROVE  TypeInv'
  BY <1>10, SpecialValuesAssumption DEF AdoptExisting, Return
<1>11. ASSUME NEW c \in Caller, Lose(c)
      PROVE  TypeInv'
  BY <1>11, SpecialValuesAssumption DEF Lose
<1>12. ASSUME NEW c \in Caller, Discard(c)
      PROVE  TypeInv'
  BY <1>12 DEF Discard, Return, Shut
<1>13. ASSUME NEW c \in Caller, Shutdown(c)
      PROVE  TypeInv'
  BY <1>13 DEF Shutdown, Shut
<1>14. QED
  BY <1>1, <1>2, <1>3, <1>4, <1>5, <1>6, <1>7, <1>8, <1>9, <1>10, <1>11, <1>12, <1>13, StepCases

(* Every variable keeps its type, in every reachable state.                 *)
THEOREM TypeCorrect == Spec => []TypeOK
<1>1. Init => TypeInv
  BY MaxCallsAssumption DEF Init, TypeInv, TypeOK, CallCounted
<1>2. TypeInv /\ [Next]_vars => TypeInv'
  BY TypeInvStep
<1>3. TypeInv => TypeOK
  BY DEF TypeInv
<1>4. QED
  BY <1>1, <1>2, <1>3, PTL DEF Spec

(* Only Lose takes the mutex across a step and only Discard gives it back.  *)
LEMMA LockDisciplineStep ==
    ASSUME IInv, [Next]_vars
    PROVE  LockDiscipline'
<1> USE FreeAssumption DEF IInv, TypeOK, LockDiscipline, sharedVars, callVars,
        historyVars
<1>1. CASE UNCHANGED vars
  BY <1>1 DEF vars
<1>2. CASE Clear
  BY <1>2 DEF Clear
<1>3. ASSUME NEW c \in Caller, NEW s \in Service, NEW e \in BOOLEAN, Call(c, s, e)
      PROVE  LockDiscipline'
  BY <1>3 DEF Call
<1>4. ASSUME NEW c \in Caller,
                Hit(c)
             \/ Miss(c)
             \/ CreateNil(c)
             \/ Create(c)
             \/ CreateFails(c)
             \/ Publish(c)
             \/ AdoptExisting(c)
             \/ Shutdown(c)
      PROVE  LockDiscipline'
  BY <1>4 DEF Hit, Miss, CreateNil, Create, CreateFails, Publish, AdoptExisting,
         Shutdown, Return
<1>5. ASSUME NEW c \in Caller, Lose(c)
      PROVE  LockDiscipline'
  BY <1>5 DEF Lose
<1>6. ASSUME NEW c \in Caller, Discard(c)
      PROVE  LockDiscipline'
  BY <1>6 DEF Discard, Return
<1>7. QED
  BY <1>1, <1>2, <1>3, <1>4, <1>5, <1>6, StepCases

(* Only Create uses a name up, the one its call was counted for.            *)
LEMMA NameUnusedStep ==
    ASSUME IInv, [Next]_vars
    PROVE  NameUnused'
<1> USE MaxCallsAssumption, SpecialValuesAssumption DEF IInv, TypeOK, LoserKnowsEntry, CallCounted, NameUnused,
        Provider, OwnIsPrivate, LoserShutsOnlyItsOwn, Shut, sharedVars,
        callVars, historyVars
<1>1. CASE UNCHANGED vars
  BY <1>1 DEF vars
<1>2. CASE Clear
  BY <1>2 DEF Clear
<1>3. ASSUME NEW c \in Caller, NEW s \in Service, NEW e \in BOOLEAN, Call(c, s, e)
      PROVE  NameUnused'
  BY <1>3 DEF Call
<1>4. ASSUME NEW c \in Caller,
                Hit(c)
             \/ Miss(c)
             \/ CreateNil(c)
             \/ CreateFails(c)
             \/ Publish(c)
             \/ AdoptExisting(c)
             \/ Lose(c)
      PROVE  NameUnused'
  BY <1>4 DEF Hit, Miss, CreateNil, CreateFails, Publish, AdoptExisting, Lose,
         Return
<1>5. ASSUME NEW c \in Caller, Create(c)
      PROVE  NameUnused'
  BY <1>5, NamedProvider DEF Create
<1>6. ASSUME NEW c \in Caller, Discard(c)
      PROVE  NameUnused'
  BY <1>6 DEF Discard, Return
<1>7. ASSUME NEW c \in Caller, Shutdown(c)
      PROVE  NameUnused'
  <2> SUFFICES ASSUME NEW d \in Caller, NEW n \in 1..MaxCalls,
                      n > calls'[d] \/ (n = calls'[d] /\ pc'[d] \in {"lookup", "create"})
               PROVE  status'[<<d, n>>] = "none"
    OBVIOUS
  <2>1. /\ status[<<d, n>>] = "none"
        /\ <<d, n>> \in Provider
    BY <1>7 DEF Shutdown
  <2>2. held[c] # <<d, n>>
    BY <2>1
  <2>3. QED
    BY <1>7, <2>1, <2>2 DEF Shutdown
<1>8. QED
  BY <1>1, <1>2, <1>3, <1>4, <1>5, <1>6, <1>7, StepCases

(* Create hands its call a name nobody has seen; publishing it or losing    *)
(* ends the privacy.                                                        *)
LEMMA OwnIsPrivateStep ==
    ASSUME IInv, [Next]_vars
    PROVE  OwnIsPrivate'
<1> USE SpecialValuesAssumption DEF IInv, TypeOK, CallCounted, OwnIsPrivate,
        LoserShutsOnlyItsOwn, Published, LoserKnowsEntry, Provider, Shut,
        sharedVars, callVars, historyVars
<1>1. CASE UNCHANGED vars
  BY <1>1 DEF vars
<1>2. CASE Clear
  BY <1>2 DEF Clear
<1>3. ASSUME NEW c \in Caller, NEW s \in Service, NEW e \in BOOLEAN, Call(c, s, e)
      PROVE  OwnIsPrivate'
  BY <1>3 DEF Call
<1>4. ASSUME NEW c \in Caller,
                Miss(c)
             \/ CreateNil(c)
             \/ CreateFails(c)
             \/ Lose(c)
      PROVE  OwnIsPrivate'
  BY <1>4 DEF Miss, CreateNil, CreateFails, Lose, Return
<1>5. ASSUME NEW c \in Caller, Hit(c)
      PROVE  OwnIsPrivate'
  BY <1>5 DEF Hit, Return
<1>6. ASSUME NEW c \in Caller, Create(c)
      PROVE  OwnIsPrivate'
  <2> DEFINE p == <<c, calls[c]>>
  <2>1. p \in Provider /\ status[p] = "none" /\ p # Nil
    BY <1>6, NamedProvider DEF Create, NameUnused
  <2>2. ~Published(p)
    BY <2>1
  <2>3. \A d \in Caller : d # c => own[d] # p
    BY <2>1
  <2>4. own'[c] = p /\ status'[p] = "running" /\ pc'[c] = "publish"
    BY <1>6, <2>1 DEF Create
  <2>5. ASSUME NEW d \in Caller, d # c, own[d] # Nil
        PROVE  /\ own'[d] = own[d] /\ pc'[d] = pc[d] /\ calls'[d] = calls[d]
               /\ status'[own[d]] = "running"
               /\ ~Published(own[d])'
    BY <1>6, <2>3, <2>5 DEF Create
  <2>6. ~Published(p)'
    BY <1>6, <2>2 DEF Create
  <2>7. calls' = calls
    BY <1>6 DEF Create
  <2>8. \A d \in Caller : d # c /\ own[d] = Nil => own'[d] = Nil
    BY <1>6 DEF Create
  <2>9. ASSUME NEW d \in Caller, own'[d] # Nil
        PROVE  /\ pc'[d] \in {"publish", "discard"}
               /\ own'[d] = <<d, calls'[d]>>
               /\ status'[own'[d]] = "running"
               /\ ~Published(own[d])'
    <3>1. CASE d = c
      <4>1. own'[d] = p /\ pc'[d] = "publish" /\ calls'[d] = calls[c]
        BY <2>4, <2>7, <3>1
      <4>2. status'[own'[d]] = "running"
        BY <2>4, <4>1
      <4>3. ~Published(own[d])'
        BY <2>6, <2>7, <4>1
      <4>4. QED
        BY <3>1, <4>1, <4>2, <4>3
    <3>2. CASE d # c
      BY <2>5, <2>7, <2>8, <2>9, <3>2
    <3>3. QED
      BY <3>1, <3>2
  <2>10. QED
    BY <2>9
<1>7. ASSUME NEW c \in Caller, Publish(c)
      PROVE  OwnIsPrivate'
  BY <1>7 DEF Publish, Return
<1>8. ASSUME NEW c \in Caller, AdoptExisting(c)
      PROVE  OwnIsPrivate'
  BY <1>8 DEF AdoptExisting, Return
<1>9. ASSUME NEW c \in Caller, Discard(c)
      PROVE  OwnIsPrivate'
  BY <1>9 DEF Discard, Return
<1>10. ASSUME NEW c \in Caller, Shutdown(c)
      PROVE  OwnIsPrivate'
  BY <1>10 DEF Shutdown
<1>11. QED
  BY <1>1, <1>2, <1>3, <1>4, <1>5, <1>6, <1>7, <1>8, <1>9, <1>10, StepCases

(* While a loser holds the mutex no step changes the cache.                 *)
LEMMA LoserKnowsEntryStep ==
    ASSUME IInv, [Next]_vars
    PROVE  LoserKnowsEntry'
<1> USE FreeAssumption DEF IInv, TypeOK, LoserKnowsEntry, LockDiscipline, CallCounted,
        sharedVars, callVars, historyVars
<1>1. CASE UNCHANGED vars
  BY <1>1 DEF vars
<1>2. CASE Clear
  BY <1>2 DEF Clear
<1>3. ASSUME NEW c \in Caller, NEW s \in Service, NEW e \in BOOLEAN, Call(c, s, e)
      PROVE  LoserKnowsEntry'
  BY <1>3 DEF Call
<1>4. ASSUME NEW c \in Caller,
                Hit(c)
             \/ Miss(c)
             \/ CreateNil(c)
             \/ Create(c)
             \/ CreateFails(c)
             \/ AdoptExisting(c)
             \/ Discard(c)
             \/ Shutdown(c)
      PROVE  LoserKnowsEntry'
  BY <1>4 DEF Hit, Miss, CreateNil, Create, CreateFails, AdoptExisting, Discard,
         Shutdown, Return
<1>5. ASSUME NEW c \in Caller, Publish(c)
      PROVE  LoserKnowsEntry'
  BY <1>5 DEF Publish, Return
<1>6. ASSUME NEW c \in Caller, Lose(c)
      PROVE  LoserKnowsEntry'
  BY <1>6 DEF Lose
<1>7. QED
  BY <1>1, <1>2, <1>3, <1>4, <1>5, <1>6, StepCases

(* A discarded provider is private, and a published one runs.               *)
LEMMA LoserShutsOnlyItsOwnStep ==
    ASSUME IInv, [Next]_vars
    PROVE  LoserShutsOnlyItsOwn'
<1> USE SpecialValuesAssumption DEF IInv, TypeOK, LoserShutsOnlyItsOwn,
        OwnIsPrivate, LoserKnowsEntry, Published, Shut, sharedVars, callVars,
        historyVars
<1>1. CASE UNCHANGED vars
  BY <1>1 DEF vars
<1>2. CASE Clear
  BY <1>2 DEF Clear
<1>3. ASSUME NEW c \in Caller, NEW s \in Service, NEW e \in BOOLEAN, Call(c, s, e)
      PROVE  LoserShutsOnlyItsOwn'
  BY <1>3 DEF Call
<1>4. ASSUME NEW c \in Caller,
                Miss(c)
             \/ CreateNil(c)
             \/ CreateFails(c)
             \/ Lose(c)
      PROVE  LoserShutsOnlyItsOwn'
  BY <1>4 DEF Miss, CreateNil, CreateFails, Lose, Return
<1>5. ASSUME NEW c \in Caller, Hit(c)
      PROVE  LoserShutsOnlyItsOwn'
  BY <1>5 DEF Hit, Return
<1>6. ASSUME NEW c \in Caller, Create(c)
      PROVE  LoserShutsOnlyItsOwn'
  BY <1>6, NamedProvider DEF Create
<1>7. ASSUME NEW c \in Caller, Publish(c)
      PROVE  LoserShutsOnlyItsOwn'
  BY <1>7 DEF Publish, Return
<1>8. ASSUME NEW c \in Caller, AdoptExisting(c)
      PROVE  LoserShutsOnlyItsOwn'
  BY <1>8 DEF AdoptExisting, Return
<1>9. ASSUME NEW c \in Caller, Discard(c)
      PROVE  LoserShutsOnlyItsOwn'
  BY <1>9 DEF Discard, Return
<1>10. ASSUME NEW c \in Caller, Shutdown(c)
      PROVE  LoserShutsOnlyItsOwn'
  BY <1>10 DEF Shutdown
<1>11. QED
  BY <1>1, <1>2, <1>3, <1>4, <1>5, <1>6, <1>7, <1>8, <1>9, <1>10, StepCases

(* What Publish caches was private.                                         *)
LEMMA OneServicePerProviderStep ==
    ASSUME IInv, [Next]_vars
    PROVE  OneServicePerProvider'
<1> USE SpecialValuesAssumption DEF IInv, TypeOK, OneServicePerProvider, OwnIsPrivate, Published,
        sharedVars, callVars, historyVars
<1>1. CASE UNCHANGED vars
  BY <1>1 DEF vars
<1>2. CASE Clear
  BY <1>2 DEF Clear
<1>3. ASSUME NEW c \in Caller, NEW s \in Service, NEW e \in BOOLEAN, Call(c, s, e)
      PROVE  OneServicePerProvider'
  BY <1>3 DEF Call
<1>4. ASSUME NEW c \in Caller,
                Hit(c)
             \/ Miss(c)
             \/ CreateNil(c)
             \/ Create(c)
             \/ CreateFails(c)
             \/ AdoptExisting(c)
             \/ Lose(c)
             \/ Discard(c)
             \/ Shutdown(c)
      PROVE  OneServicePerProvider'
  BY <1>4 DEF Hit, Miss, CreateNil, Create, CreateFails, AdoptExisting, Lose,
         Discard, Shutdown, Return
<1>5. ASSUME NEW c \in Caller, Publish(c)
      PROVE  OneServicePerProvider'
  BY <1>5 DEF Publish, Return
<1>6. QED
  BY <1>1, <1>2, <1>3, <1>4, <1>5, StepCases

(* A running provider moves from its call to the cache or is shut down.     *)
LEMMA NoLeakStep ==
    ASSUME IInv, [Next]_vars
    PROVE  NoLeak'
<1> USE SpecialValuesAssumption DEF IInv, TypeOK, NoLeak, OwnIsPrivate,
        Provider, Shut, sharedVars, callVars, historyVars
<1>1. CASE UNCHANGED vars
  BY <1>1 DEF vars
<1>2. CASE Clear
  BY <1>2 DEF Clear
<1>3. ASSUME NEW c \in Caller, NEW s \in Service, NEW e \in BOOLEAN, Call(c, s, e)
      PROVE  NoLeak'
  BY <1>3 DEF Call
<1>4. ASSUME NEW c \in Caller,
                Hit(c)
             \/ Miss(c)
             \/ CreateNil(c)
             \/ CreateFails(c)
             \/ AdoptExisting(c)
             \/ Lose(c)
             \/ Shutdown(c)
      PROVE  NoLeak'
  BY <1>4 DEF Hit, Miss, CreateNil, CreateFails, AdoptExisting, Lose, Shutdown,
         Return
<1>5. ASSUME NEW c \in Caller, Create(c)
      PROVE  NoLeak'
  <2>1. /\ UNCHANGED <<cache, orphans>>
        /\ own' = [own EXCEPT ![c] = <<c, calls[c]>>]
        /\ pc[c] = "create" /\ pc' = [pc EXCEPT ![c] = "publish"]
        /\ \A p \in Provider : p # <<c, calls[c]>> => status'[p] = status[p]
    BY <1>5 DEF Create
  <2>2. ASSUME NEW d \in Caller, pc[d] \in {"publish", "discard"}
        PROVE  pc'[d] = pc[d] /\ own'[d] = own[d]
    BY <2>1, <2>2
  <2>3. pc'[c] = "publish" /\ own'[c] = <<c, calls[c]>>
    BY <2>1
  <2>4. QED
    BY <2>1, <2>2, <2>3
<1>6. ASSUME NEW c \in Caller, Publish(c)
      PROVE  NoLeak'
  BY <1>6 DEF Publish, Return
<1>7. ASSUME NEW c \in Caller, Discard(c)
      PROVE  NoLeak'
  BY <1>7 DEF Discard, Return
<1> HIDE DEF NoLeak
<1>8. QED
  BY <1>1, <1>2, <1>3, <1>4, <1>5, <1>6, <1>7, StepCases

(* An answer is read from the cache, or written to it, in the step that     *)
(* gives it.                                                                *)
LEMMA AnswerIsCachedStep ==
    ASSUME IInv, [Next]_vars
    PROVE  AnswerIsCached'
<1> USE SpecialValuesAssumption DEF IInv, TypeOK, AnswerIsCached, LoserKnowsEntry, sharedVars,
        callVars, historyVars
<1>1. CASE UNCHANGED vars
  BY <1>1 DEF vars
<1>2. CASE Clear
  BY <1>2 DEF Clear
<1>3. ASSUME NEW c \in Caller, NEW s \in Service, NEW e \in BOOLEAN, Call(c, s, e)
      PROVE  AnswerIsCached'
  BY <1>3 DEF Call
<1>4. ASSUME NEW c \in Caller,
                Miss(c)
             \/ CreateNil(c)
             \/ Create(c)
             \/ CreateFails(c)
             \/ Lose(c)
             \/ Shutdown(c)
      PROVE  AnswerIsCached'
  BY <1>4 DEF Miss, CreateNil, Create, CreateFails, Lose, Shutdown, Return
<1>5. ASSUME NEW c \in Caller, Hit(c)
      PROVE  AnswerIsCached'
  BY <1>5 DEF Hit, Return
<1>6. ASSUME NEW c \in Caller, Publish(c)
      PROVE  AnswerIsCached'
  BY <1>6 DEF Publish, Return
<1>7. ASSUME NEW c \in Caller, AdoptExisting(c)
      PROVE  AnswerIsCached'
  BY <1>7 DEF AdoptExisting, Return
<1>8. ASSUME NEW c \in Caller, Discard(c)
      PROVE  AnswerIsCached'
  BY <1>8 DEF Discard, Return
<1>9. QED
  BY <1>1, <1>2, <1>3, <1>4, <1>5, <1>6, <1>7, <1>8, StepCases

(* The invariant, for any number of goroutines, services and calls.         *)
THEOREM InvariantHolds == Spec => []IInv
<1>1. Init => IInv
  <2>1. Init => TypeInv
    BY MaxCallsAssumption DEF Init, TypeInv, TypeOK, CallCounted
  <2>2. Init => NameUnused /\ OwnIsPrivate /\ LoserKnowsEntry /\ LockDiscipline
    BY FreeAssumption DEF Init, NameUnused, OwnIsPrivate, LoserKnowsEntry,
       LockDiscipline, Provider
  <2>3. Init => LoserShutsOnlyItsOwn /\ OneServicePerProvider
    BY SpecialValuesAssumption DEF Init, LoserShutsOnlyItsOwn, OneServicePerProvider
  <2>4. Init => NoLeak /\ AnswerIsCached
    BY SpecialValuesAssumption DEF Init, NoLeak, AnswerIsCached
  <2>5. QED
    BY <2>1, <2>2, <2>3, <2>4 DEF IInv, TypeInv
<1>2. IInv /\ [Next]_vars => IInv'
  <2> SUFFICES ASSUME IInv, [Next]_vars
               PROVE  IInv'
    OBVIOUS
  <2>1. TypeInv'
    BY TypeInvStep DEF IInv, TypeInv
  <2>2. QED
    BY <2>1, LockDisciplineStep, NameUnusedStep, OwnIsPrivateStep,
       LoserKnowsEntryStep, LoserShutsOnlyItsOwnStep,
       OneServicePerProviderStep, NoLeakStep, AnswerIsCachedStep
       DEF IInv, TypeInv
<1>3. QED
  BY <1>1, <1>2, PTL DEF Spec
----------------------------------------------------------------------------
(* Two callers that ask for the same service are given the same provider,   *)
(* whatever the interleaving of their calls.                                *)
THEOREM AnswersAgree == Spec => []AnswerIsCached
  BY InvariantHolds, PTL DEF IInv

(* A provider that runs can still be reached by whoever must shut it down.  *)
THEOREM ProvidersDoNotLeak == Spec => []NoLeak
  BY InvariantHolds, PTL DEF IInv

(* A loser never shuts down a provider that was given to a caller.          *)
THEOREM UsersAreSafeFromLosers == Spec => []LoserShutsOnlyItsOwn
  BY InvariantHolds, PTL DEF IInv

(* No return path leaves the mutex locked.                                  *)
THEOREM LockIsReleased == Spec => []LockDiscipline
  BY InvariantHolds, PTL DEF IInv

(* One provider is never cached under two service names.                    *)
THEOREM ServicesDoNotShare == Spec => []OneServicePerProvider
  BY InvariantHolds, PTL DEF IInv

(* The entry of a service is never replaced by another provider.            *)
THEOREM EntryStays == Spec => FirstProviderStays
<1>1. ASSUME TypeOK, [Next]_vars
      PROVE  \/ \A s \in Service : cache[s] # Absent => cache'[s] = cache[s]
             \/ \A s \in Service : cache'[s] = Absent
  <2> USE DEF TypeOK, sharedVars
  <2>1. CASE Clear
    BY <2>1 DEF Clear
  <2>2. ASSUME NEW c \in Caller, Publish(c)
        PROVE  \A s \in Service : cache[s] # Absent => cache'[s] = cache[s]
    BY <2>2 DEF Publish
  <2>3. CASE UNCHANGED cache
    BY <2>3
  <2>4. QED
    BY <1>1, <2>1, <2>2, <2>3, StepCases
       DEF vars, Call, Hit, Miss, CreateNil, Create, CreateFails,
           AdoptExisting, Lose, Discard, Shutdown
<1>2. QED
  BY <1>1, TypeCorrect, PTL DEF Spec, FirstProviderStays

----------------------------------------------------------------------------
LEMMA WaitingEnds ==
    ASSUME TypeOK, NEW c \in Caller, pc[c] # "idle",
           pc' = [pc EXCEPT ![c] = "idle"], svc' = svc
    PROVE  /\ waiting[c] = svc[c]
           /\ waiting[c] # "none"
           /\ waiting' = [waiting EXCEPT ![c] = "none"]
<1>1. waiting[c] = svc[c] /\ svc[c] \in Service
  BY DEF TypeOK, waiting
<1>2. waiting[c] # "none"
  BY <1>1, FreeAssumption
<1>3. waiting' = [waiting EXCEPT ![c] = "none"]
  BY DEF TypeOK, waiting
<1>4. QED
  BY <1>1, <1>2, <1>3

LEMMA WaitingGoesOn ==
    ASSUME TypeOK, NEW c \in Caller, NEW l, l # "idle", pc[c] # "idle",
           pc' = [pc EXCEPT ![c] = l], svc' = svc
    PROVE  waiting' = waiting
  BY DEF TypeOK, waiting

(* Every step of the cache is a step of the registry or changes nothing     *)
(* there: entering a call asks, the two checks and the failed creation      *)
(* answer, everything between them is invisible.                            *)
LEMMA RefinementStep ==
    ASSUME IInv, [Next]_vars
    PROVE  [Registry!Next]_(Registry!registryVars)
<1> USE DEF IInv, sharedVars, callVars, historyVars, Registry!registryVars,
        Registry!NotWaiting
<1>1. CASE UNCHANGED vars
  BY <1>1 DEF vars, waiting
<1>2. CASE Clear
  BY <1>2 DEF Clear, waiting, Registry!Next, Registry!Forget
<1>3. ASSUME NEW c \in Caller, NEW s \in Service, NEW e \in BOOLEAN, Call(c, s, e)
      PROVE  Registry!Next
  <2>1. Registry!Ask(c, s)
    BY <1>3 DEF Call, TypeOK, waiting, Registry!Ask
  <2>2. QED
    BY <2>1 DEF Registry!Next
<1>4. ASSUME NEW c \in Caller, Miss(c) \/ CreateNil(c) \/ Create(c) \/ Lose(c)
      PROVE  UNCHANGED Registry!registryVars
  BY <1>4, WaitingGoesOn DEF Miss, CreateNil, Create, Lose
<1>5. ASSUME NEW c \in Caller,
             Hit(c) \/ AdoptExisting(c) \/ Discard(c)
      PROVE  Registry!GetOrCreate(c)
  <2>1. /\ pc[c] # "idle"
        /\ pc' = [pc EXCEPT ![c] = "idle"]
        /\ cache' = cache /\ svc' = svc
        /\ cache[svc[c]] # Absent
        /\ held' = [held EXCEPT ![c] = cache[svc[c]]]
    BY <1>5 DEF Hit, AdoptExisting, Discard, Return, LoserKnowsEntry
  <2>2. QED
    BY <2>1, WaitingEnds DEF Registry!GetOrCreate
<1>6. ASSUME NEW c \in Caller, CreateFails(c)
      PROVE  Registry!Fail(c)
  BY <1>6, WaitingEnds DEF CreateFails, Return, Registry!Fail
<1>7. ASSUME NEW c \in Caller, Publish(c)
      PROVE  Registry!GetOrCreate(c)
  <2>1. own[c] \in Provider => Registry!Fresh(own[c])
    BY SpecialValuesAssumption DEF OwnIsPrivate, Published, Registry!Fresh
  <2>2. /\ pc[c] = "publish"
        /\ pc' = [pc EXCEPT ![c] = "idle"]
        /\ svc' = svc
        /\ cache[svc[c]] = Absent
        /\ cache' = [cache EXCEPT ![svc[c]] = own[c]]
        /\ held' = [held EXCEPT ![c] = own[c]]
    BY <1>7 DEF Publish, Return
  <2>3. cache'[svc[c]] = own[c] /\ own[c] \in Provider \cup {Nil}
    BY <2>2 DEF TypeOK
  <2>4. QED
    BY <2>1, <2>2, <2>3, WaitingEnds DEF Registry!GetOrCreate
<1>8. ASSUME NEW c \in Caller, Shutdown(c)
      PROVE  Registry!Release(c)
  BY <1>8 DEF Shutdown, TypeOK, waiting, Registry!Release
<1>9. QED
  BY <1>1, <1>2, <1>3, <1>4, <1>5, <1>6, <1>7, <1>8, StepCases
     DEF Registry!Next

(* GetTracerProvider implements an atomic get-or-create.                    *)
THEOREM CacheIsLinearizable == Spec => ImplementsRegistry
<1>1. Init => Registry!Init
  BY DEF Init, waiting, Registry!Init, Registry!NotWaiting
<1>2. IInv /\ [Next]_vars => [Registry!Next]_(Registry!registryVars)
  BY RefinementStep
<1>3. QED
  BY <1>1, <1>2, InvariantHolds, PTL DEF Spec, ImplementsRegistry, Registry!Spec

============================================================================
