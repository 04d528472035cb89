--------------------------- MODULE ProviderCache ---------------------------
(***************************************************************************)
(* The provider cache of package tracing.  tracer.go, metrics.go and       *)
(* logging.go each hold one: a map from service name to an OpenTelemetry   *)
(* provider, guarded by a mutex, filled by a double-checked get-or-create  *)
(* that runs the (slow, fallible) creation outside the lock.  The three    *)
(* copies are line for line the same; the definitions here are mapped to   *)
(* the tracer's.                                                           *)
(*                                                                         *)
(* A step is what one goroutine does between two points at which another   *)
(* goroutine can be observed: the critical sections of tracerProvidersMu,  *)
(* the creation that ends in otel.SetTracerProvider, and the shutdown of a *)
(* losing provider, which happens while the mutex is still held.           *)
(***************************************************************************)
EXTENDS Integers

CONSTANTS
    Caller,     \* goroutines that call GetTracerProvider
    Service,    \* service names, the keys of the map
    MaxCalls,   \* bound on the calls of one goroutine (the code has none)
    Nil,        \* the nil provider: tracing is off
    Absent,     \* "the map has no such key"
    NoAnswer,   \* the goroutine holds no result
    Error       \* the call returned an error

(* The provider a call builds is named after the call, so that no two       *)
(* calls build the same one.                                                *)
Provider == Caller \X (1..MaxCalls)

ASSUME MaxCallsAssumption == MaxCalls \in Nat

ASSUME SpecialValuesAssumption ==
    /\ {Nil, Absent, NoAnswer, Error} \cap Provider = {}
    /\ Nil \notin {Absent, NoAnswer, Error}
    /\ Absent \notin {NoAnswer, Error}
    /\ NoAnswer # Error

Free == "free"
ASSUME FreeAssumption == Free \notin Caller /\ "none" \notin Service

VARIABLES
    mu,         \* who holds tracerProvidersMu across a step, or Free
    cache,      \* tracerProviders
    global,     \* otel's global provider; Nil is the initial delegate
    status,     \* what became of every provider

    pc,         \* where each call stands
    calls,      \* calls made so far
    svc,        \* cfg.GetServiceName() of the call
    endpoint,   \* whether cfg.GetOTLPEndpoint() is set
    own,        \* tp, the provider the call created
    existing,   \* existingTP, what the second check found
    held,       \* what the last call returned to its caller

    orphans,    \* history: providers a ClearTracerProviderCache forgot
    outdated    \* history: callers answered before the last Clear

vars == <<mu, cache, global, status, pc, calls, svc, endpoint, own, existing,
          held, orphans, outdated>>

sharedVars  == <<mu, cache, global, status>>
callVars    == <<calls, svc, endpoint>>
historyVars == <<orphans, outdated>>

Shut == {"discarded", "stopped"}

TypeOK ==
    /\ mu \in Caller \cup {Free}
    /\ cache \in [Service -> Provider \cup {Nil, Absent}]
    /\ global \in Provider \cup {Nil}
    /\ status \in [Provider -> {"none", "running"} \cup Shut]
    /\ pc \in [Caller -> {"idle", "lookup", "create", "publish", "discard"}]
    /\ calls \in [Caller -> 0..MaxCalls]
    /\ svc \in [Caller -> Service]
    /\ endpoint \in [Caller -> BOOLEAN]
    /\ own \in [Caller -> Provider \cup {Nil}]
    /\ existing \in [Caller -> Provider \cup {Nil}]
    /\ held \in [Caller -> Provider \cup {Nil, NoAnswer, Error}]
    /\ orphans \subseteq Provider
    /\ outdated \subseteq Caller

Init ==
    /\ mu = Free
    /\ cache = [s \in Service |-> Absent]
    /\ global = Nil
    /\ status = [p \in Provider |-> "none"]
    /\ pc = [c \in Caller |-> "idle"]
    /\ calls = [c \in Caller |-> 0]
    /\ svc \in [Caller -> Service]
    /\ endpoint = [c \in Caller |-> FALSE]
    /\ own = [c \in Caller |-> Nil]
    /\ existing = [c \in Caller |-> Nil]
    /\ held = [c \in Caller |-> NoAnswer]
    /\ orphans = {}
    /\ outdated = {}

----------------------------------------------------------------------------
(* The answer a call returns, and the locals it leaves behind.              *)
Return(c, answer) ==
    /\ pc' = [pc EXCEPT ![c] = "idle"]
    /\ held' = [held EXCEPT ![c] = answer]
    /\ own' = [own EXCEPT ![c] = Nil]
    /\ existing' = [existing EXCEPT ![c] = Nil]

(* GetTracerProvider is entered with a configuration.                       *)
Call(c, s, e) ==
    /\ pc[c] = "idle"
    /\ calls[c] < MaxCalls
    /\ calls' = [calls EXCEPT ![c] = @ + 1]
    /\ svc' = [svc EXCEPT ![c] = s]
    /\ endpoint' = [endpoint EXCEPT ![c] = e]
    /\ pc' = [pc EXCEPT ![c] = "lookup"]
    /\ held' = [held EXCEPT ![c] = NoAnswer]
    /\ outdated' = outdated \ {c}
    /\ UNCHANGED <<sharedVars, own, existing, orphans>>

(* Mutant: the lookup ignores whether the key was there.                    *)
HitWithoutOk(c) ==
    /\ pc[c] = "lookup"
    /\ mu = Free
    /\ Return(c, cache[svc[c]])
    /\ UNCHANGED <<sharedVars, callVars, historyVars>>

(* First critical section: a key that is there is the answer, whatever is   *)
(* stored under it.                                                         *)
Hit(c) ==
    /\ pc[c] = "lookup"
    /\ mu = Free
    /\ cache[svc[c]] # Absent
    /\ Return(c, cache[svc[c]])
    /\ UNCHANGED <<sharedVars, callVars, historyVars>>

Miss(c) ==
    /\ pc[c] = "lookup"
    /\ mu = Free
    /\ cache[svc[c]] = Absent
    /\ pc' = [pc EXCEPT ![c] = "create"]
    /\ UNCHANGED <<sharedVars, callVars, own, existing, held, historyVars>>

(* createTracerProvider without an endpoint: no provider and no error.      *)
CreateNil(c) ==
    /\ pc[c] = "create"
    /\ ~endpoint[c]
    /\ own' = [own EXCEPT ![c] = Nil]
    /\ pc' = [pc EXCEPT ![c] = "publish"]
    /\ UNCHANGED <<sharedVars, callVars, existing, held, historyVars>>

(* createTracerProvider with an endpoint: the new provider is installed as  *)
(* otel's global one before the second check.                               *)
Create(c) ==
    /\ pc[c] = "create"
    /\ endpoint[c]
    /\ LET p == <<c, calls[c]>> IN
         /\ own' = [own EXCEPT ![c] = p]
         /\ status' = [status EXCEPT ![p] = "running"]
         /\ global' = p
    /\ pc' = [pc EXCEPT ![c] = "publish"]
    /\ UNCHANGED <<mu, cache, callVars, existing, held, historyVars>>

(* createTracerProvider fails (resource, TLS files or exporter): nothing    *)
(* was created and nothing is cached.                                       *)
CreateFails(c) ==
    /\ pc[c] = "create"
    /\ endpoint[c]
    /\ Return(c, Error)
    /\ UNCHANGED <<sharedVars, callVars, historyVars>>

(* Mutant: no second check, the last call to finish wins.                   *)
PublishUnchecked(c) ==
    /\ pc[c] = "publish"
    /\ mu = Free
    /\ cache' = [cache EXCEPT ![svc[c]] = own[c]]
    /\ Return(c, own[c])
    /\ UNCHANGED <<mu, global, status, callVars, historyVars>>

(* Second critical section, nobody was faster: cache what was created, nil  *)
(* included.                                                                *)
Publish(c) ==
    /\ pc[c] = "publish"
    /\ mu = Free
    /\ cache[svc[c]] = Absent
    /\ cache' = [cache EXCEPT ![svc[c]] = own[c]]
    /\ Return(c, own[c])
    /\ UNCHANGED <<mu, global, status, callVars, historyVars>>

(* Second critical section, somebody was faster and there is nothing to     *)
(* shut down.                                                               *)
AdoptExisting(c) ==
    /\ pc[c] = "publish"
    /\ mu = Free
    /\ cache[svc[c]] # Absent
    /\ own[c] = Nil
    /\ Return(c, cache[svc[c]])
    /\ UNCHANGED <<sharedVars, callVars, historyVars>>

(* Second critical section, somebody was faster: keep the mutex and shut    *)
(* our own provider down.                                                   *)
Lose(c) ==
    /\ pc[c] = "publish"
    /\ mu = Free
    /\ cache[svc[c]] # Absent
    /\ own[c] # Nil
    /\ mu' = c
    /\ existing' = [existing EXCEPT ![c] = cache[svc[c]]]
    /\ pc' = [pc EXCEPT ![c] = "discard"]
    /\ UNCHANGED <<cache, global, status, callVars, own, held, historyVars>>

(* Mutant: the loser answers with the provider it shut down.                *)
DiscardReturnsOwn(c) ==
    /\ pc[c] = "discard"
    /\ status' = [status EXCEPT ![own[c]] = "discarded"]
    /\ mu' = Free
    /\ Return(c, own[c])
    /\ UNCHANGED <<cache, global, callVars, historyVars>>

(* Mutant: the loser forgets to shut its provider down.                     *)
DiscardKeepsRunning(c) ==
    /\ pc[c] = "discard"
    /\ mu' = Free
    /\ Return(c, existing[c])
    /\ UNCHANGED <<cache, global, status, callVars, historyVars>>

(* Mutant: the loser shuts down the winner's provider.                      *)
DiscardShutsExisting(c) ==
    /\ pc[c] = "discard"
    /\ status' = [p \in Provider |->
                    IF p = existing[c] THEN "discarded" ELSE status[p]]
    /\ mu' = Free
    /\ Return(c, existing[c])
    /\ UNCHANGED <<cache, global, callVars, historyVars>>

(* Mutant: the loser's return path misses the Unlock.                       *)
DiscardKeepsLock(c) ==
    /\ pc[c] = "discard"
    /\ status' = [status EXCEPT ![own[c]] = "discarded"]
    /\ Return(c, existing[c])
    /\ UNCHANGED <<mu, cache, global, callVars, historyVars>>

(* tp.Shutdown returns (its error is dropped) and the deferred Unlock runs. *)
Discard(c) ==
    /\ pc[c] = "discard"
    /\ status' = [status EXCEPT ![own[c]] = "discarded"]
    /\ mu' = Free
    /\ Return(c, existing[c])
    /\ UNCHANGED <<cache, global, callVars, historyVars>>

(* The caller passes its answer to ShutdownTracerProvider, as the OnStop    *)
(* hook does.  A nil provider is left alone, a second shutdown of the same  *)
(* provider changes nothing, and neither the cache nor the global is told.  *)
Shutdown(c) ==
    /\ pc[c] = "idle"
    /\ held[c] \in Provider \cup {Nil}
    /\ status' = IF held[c] = Nil
                   THEN status
                   ELSE [status EXCEPT ![held[c]] = "stopped"]
    /\ held' = [held EXCEPT ![c] = NoAnswer]
    /\ outdated' = outdated \ {c}
    /\ UNCHANGED <<mu, cache, global, pc, callVars, own, existing, orphans>>

(* ClearTracerProviderCache forgets the providers without shutting them     *)
(* down.                                                                    *)
Clear ==
    /\ mu = Free
    /\ cache' = [s \in Service |-> Absent]
    /\ orphans' = orphans \cup {p \in Provider : \E s \in Service : cache[s] = p}
    /\ outdated' = {c \in Caller : held[c] \in Provider \cup {Nil}}
    /\ UNCHANGED <<mu, global, status, pc, callVars, own, existing, held>>

----------------------------------------------------------------------------
(* What a call does once it is entered.                                     *)
Locked(c) == Hit(c) \/ Miss(c) \/ Publish(c) \/ AdoptExisting(c) \/ Lose(c)
Unlocked(c) == CreateNil(c) \/ Create(c) \/ CreateFails(c) \/ Discard(c)

Next ==
    \/ \E c \in Caller :
         \/ \E s \in Service, e \in BOOLEAN : Call(c, s, e)
         \/ Locked(c)
         \/ Unlocked(c)
         \/ Shutdown(c)
    \/ Clear

(* A goroutine that is inside a call keeps running, and one that waits for  *)
(* the mutex gets it however often others take it in between: sync.Mutex    *)
(* hands itself to a waiter that has waited too long.                       *)
Fairness == \A c \in Caller : WF_vars(Unlocked(c)) /\ SF_vars(Locked(c))

Spec == Init /\ [][Next]_vars
FairSpec == Spec /\ Fairness

----------------------------------------------------------------------------
(* tracer.go:22 "It caches providers by service name to avoid creating      *)
(* duplicates": since the last Clear, every caller that was given an answer *)
(* for a service was given the one the cache holds, however its call raced  *)
(* with others.                                                             *)
AnswerIsCached ==
    \A c \in Caller :
        held[c] \in Provider \cup {Nil} /\ c \notin outdated
            => held[c] = cache[svc[c]]

(* No provider leaks: a running exporter is in the cache, or still in the   *)
(* hands of the call that built it, or was forgotten by an explicit Clear.  *)
NoLeak ==
    \A p \in Provider :
        status[p] = "running" =>
            \/ \E s \in Service : cache[s] = p
            \/ \E c \in Caller : pc[c] \in {"publish", "discard"} /\ own[c] = p
            \/ p \in orphans

(* The loser's clean-up never reaches a provider somebody uses: what is     *)
(* cached, was cached, or is in a caller's hands can only have been shut    *)
(* down by a caller that was given it.                                      *)
LoserShutsOnlyItsOwn ==
    \A p \in Provider :
        \/ \E s \in Service : cache[s] = p
        \/ p \in orphans
        \/ \E c \in Caller : held[c] = p
        => status[p] \in {"running", "stopped"}

(* The mutex is held across a step only by a call that is shutting its      *)
(* provider down, and every such call holds it: no return path of           *)
(* GetTracerProvider leaves it locked.                                      *)
LockDiscipline == \A c \in Caller : pc[c] = "discard" <=> mu = c

(* One provider serves one service name.                                    *)
OneServicePerProvider ==
    \A s, t \in Service : cache[s] \in Provider /\ cache[s] = cache[t] => s = t

(* The first provider cached for a service stays until Clear empties the    *)
(* whole map: no later call replaces it.                                    *)
FirstProviderStays ==
    [][\/ \A s \in Service : cache[s] # Absent => cache'[s] = cache[s]
       \/ \A s \in Service : cache'[s] = Absent]_vars

(* Every GetTracerProvider returns, although losers hold the mutex while    *)
(* they flush and shut down.                                                *)
GetReturns == \A c \in Caller : pc[c] # "idle" ~> pc[c] = "idle"

(* A caller waits from the moment it enters the call until it is answered.  *)
waiting == [c \in Caller |-> IF pc[c] = "idle" THEN "none" ELSE svc[c]]

Registry == INSTANCE ProviderRegistry WITH asked <- waiting

(* GetTracerProvider is linearizable: racing calls behave as if each one    *)
(* were an atomic get-or-create on the map.                                 *)
ImplementsRegistry == Registry!Spec

----------------------------------------------------------------------------
(* What the source says and the code does not do.                           *)

(* tracer.go:51 "Double-check locking to avoid race" and 128 "Register as   *)
(* global provider": once no call is in flight and the cache holds a        *)
(* provider that works, the global provider is not one a call threw away.   *)
GlobalNotDiscarded ==
    /\ \A c \in Caller : pc[c] = "idle"
    /\ \E s \in Service : cache[s] \in Provider /\ status[cache[s]] = "running"
    /\ global \in Provider
    => status[global] # "discarded"

(* tracer.go:21 "returns a TracerProvider": one that still accepts spans    *)
(* when the call returns, also after an earlier application of the same     *)
(* process was stopped.                                                     *)
AnswerAcceptsSpans ==
    [][\A c \in Caller :
         pc[c] # "idle" /\ held'[c] \in Provider
             => status'[held'[c]] = "running"]_vars
============================================================================
