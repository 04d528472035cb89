-------------------------- MODULE ProviderRegistry --------------------------
(***************************************************************************)
(* What GetTracerProvider promises its callers, without locks, races or    *)
(* providers that are built and thrown away: an atomic get-or-create on a  *)
(* map from service name to provider.  ProviderCache implements it.        *)
(***************************************************************************)
CONSTANTS Caller, Service, Provider, Nil, Absent, NoAnswer, Error

VARIABLES
    cache,  \* the provider of every service, Nil, or Absent
    asked,  \* the services callers are waiting for an answer about
    held    \* the answer every caller has, or NoAnswer, or Error

registryVars == <<cache, asked, held>>

NotWaiting == "none"

Init ==
    /\ cache = [s \in Service |-> Absent]
    /\ asked = [c \in Caller |-> NotWaiting]
    /\ held = [c \in Caller |-> NoAnswer]

Ask(c, s) ==
    /\ asked[c] = NotWaiting
    /\ asked' = [asked EXCEPT ![c] = s]
    /\ held' = [held EXCEPT ![c] = NoAnswer]
    /\ UNCHANGED cache

(* A provider that enters the map has never been given to anybody.          *)
Fresh(p) ==
    /\ \A s \in Service : cache[s] # p
    /\ \A c \in Caller : held[c] # p

(* The one atomic step of a call: the entry is made if it is missing, and   *)
(* the entry is the answer.                                                 *)
GetOrCreate(c) ==
    /\ asked[c] # NotWaiting
    /\ IF cache[asked[c]] = Absent
         THEN \E p \in Provider \cup {Nil} :
                /\ p \in Provider => Fresh(p)
                /\ cache' = [cache EXCEPT ![asked[c]] = p]
         ELSE UNCHANGED cache
    /\ held' = [held EXCEPT ![c] = cache'[asked[c]]]
    /\ asked' = [asked EXCEPT ![c] = NotWaiting]

Fail(c) ==
    /\ asked[c] # NotWaiting
    /\ held' = [held EXCEPT ![c] = Error]
    /\ asked' = [asked EXCEPT ![c] = NotWaiting]
    /\ UNCHANGED cache

Release(c) ==
    /\ asked[c] = NotWaiting
    /\ held' = [held EXCEPT ![c] = NoAnswer]
    /\ UNCHANGED <<cache, asked>>

Forget ==
    /\ cache' = [s \in Service |-> Absent]
    /\ UNCHANGED <<asked, held>>

Next ==
    \/ \E c \in Caller :
         \/ \E s \in Service : Ask(c, s)
         \/ GetOrCreate(c)
         \/ Fail(c)
         \/ Release(c)
    \/ Forget

Spec == Init /\ [][Next]_registryVars
=============================================================================
