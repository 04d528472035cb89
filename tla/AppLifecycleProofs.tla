------------------------- MODULE AppLifecycleProofs -------------------------
(* Proofs about AppLifecycle that hold of any listings, any configurations   *)
(* and any number of applications.                                           *)
EXTENDS AppLifecycle, TLAPS

(* Only an application that exists makes providers, and it names them after  *)
(* itself.                                                                   *)
ProcessTyped ==
    /\ apps \in 0..MaxApps
    /\ phase # "none" => apps \in App
    /\ cache \in [Signal -> App \cup {Nil, Absent}]
    /\ alive \in [Signal -> SUBSET App]

IInv == ProcessTyped /\ SurvivorIsCached

(* What leaves caches, providers and the running number alone leaves the     *)
(* invariant alone, as long as no application appears from nowhere.          *)
LEMMA ProcessUnchanged ==
    ASSUME IInv, UNCHANGED <<apps, cache, alive>>, phase' # "none" => phase # "none"
    PROVE  IInv'
  BY DEF IInv, ProcessTyped, SurvivorIsCached

(* What is not in the cache does not run, so that a provider may enter it.   *)
LEMMA AbsentIsDead ==
    ASSUME IInv, NEW s \in Signal, cache[s] = Absent
    PROVE  alive[s] = {}
  <1>1. \A p \in alive[s] : p = Absent
    BY DEF IInv, SurvivorIsCached
  <1>2. alive[s] \subseteq App /\ App \subseteq Nat
    BY DEF IInv, ProcessTyped, App
  <1> QED
    BY <1>1, <1>2, SpecialValuesAssumption

(* Keeping an answer of the caches preserves the invariant: it is the entry, *)
(* or nothing was cached and what is new is the application's own.           *)
LEMMA KeepPreserves ==
    ASSUME IInv, phase # "none",
           NEW D \in SUBSET Signal, NEW p, DOMAIN p = D, Keep(p),
           \A s \in D : p[s] = cache[s] \/ (cache[s] = Absent /\ p[s] \in {Nil, apps}),
           UNCHANGED apps
    PROVE  IInv'
  <1>1. apps \in App
    BY DEF IInv, ProcessTyped
  <1>2. ASSUME NEW s \in Signal
        PROVE  /\ cache'[s] \in App \cup {Nil, Absent}
               /\ alive'[s] \subseteq App
               /\ \A q \in alive'[s] : cache'[s] = q
    <2>1. /\ cache[s] \in App \cup {Nil, Absent}
          /\ alive[s] \subseteq App
          /\ \A q \in alive[s] : cache[s] = q
      BY DEF IInv, ProcessTyped, SurvivorIsCached
    <2>2. cache'[s] = IF s \in D THEN p[s] ELSE cache[s]
      BY DEF Keep
    <2>3. alive'[s] = IF s \in D /\ p[s] \in App /\ cache[s] = Absent
                        THEN alive[s] \cup {p[s]} ELSE alive[s]
      BY DEF Keep
    <2>4. CASE s \in D /\ cache[s] = Absent
      <3>1. alive[s] = {}
        BY <2>4, AbsentIsDead
      <3>2. p[s] \in {Nil, Absent, apps}
        BY <2>4
      <3> QED
        BY <1>1, <2>2, <2>3, <2>4, <3>1, <3>2
    <2>5. CASE s \in D /\ cache[s] # Absent
      BY <2>1, <2>2, <2>3, <2>5
    <2>6. CASE s \notin D
      BY <2>1, <2>2, <2>3, <2>6
    <2> QED
      BY <2>4, <2>5, <2>6
  <1>3. /\ cache' = [s \in Signal |-> cache'[s]]
        /\ alive' = [s \in Signal |-> alive'[s]]
    BY DEF Keep
  <1> QED
    BY <1>1, <1>2, <1>3 DEF IInv, ProcessTyped, SurvivorIsCached

(* Shutting something down only makes fewer providers run.                   *)
LEMMA ShutdownPreserves ==
    ASSUME IInv, UNCHANGED <<apps, cache>>, phase' # "none" => phase # "none",
           alive' \in [Signal -> SUBSET App],
           \A s \in Signal : alive'[s] \subseteq alive[s]
    PROVE  IInv'
  BY DEF IInv, ProcessTyped, SurvivorIsCached

(* What a cache answers without an error is its entry or a new provider.     *)
LEMMA AnswersOfCaches ==
    /\ \A a \in GetTracerProvider \ {Error} :
          a = cache["tracer"] \/ (cache["tracer"] = Absent /\ a \in {Nil, apps})
    /\ \A a \in GetMeterProvider \ {Error} :
          a = cache["meter"] \/ (cache["meter"] = Absent /\ a \in {Nil, apps})
    /\ \A a \in GetLoggerProvider \ {Error} :
          a = cache["logs"] \/ (cache["logs"] = Absent /\ a \in {Nil, apps})
  BY DEF GetTracerProvider, GetMeterProvider, GetLoggerProvider, createTracerProvider,
         createMeterProvider, createLoggerProvider

LEMMA InitEstablishes == Init => IInv
  BY BoundsAssumption DEF Init, IInv, ProcessTyped, SurvivorIsCached, Signal

LEMMA NewTracingPreserves == IInv /\ newTracingModule => IInv'
  <1> SUFFICES ASSUME IInv, newTracingModule PROVE IInv'
    OBVIOUS
  <1>1. phase # "none" /\ UNCHANGED apps
    BY DEF newTracingModule, Wanted, wiringVars
  <1>2. PICK tp \in GetTracerProvider, mp \in GetMeterProvider :
          IF Error \in {tp, mp}
            THEN Keep(IF tp = Error THEN <<>> ELSE [tracer |-> tp])
            ELSE Keep([tracer |-> tp, meter |-> mp])
    BY DEF newTracingModule
  <1>3. CASE tp = Error
    <2>1. Keep(<<>>)
      BY <1>2, <1>3
    <2>2. DOMAIN <<>> = {}
      OBVIOUS
    <2> QED
      BY <1>1, <2>1, <2>2, KeepPreserves
  <1>4. CASE tp # Error /\ mp = Error
    <2> DEFINE p == [tracer |-> tp]
    <2>1. Keep(p)
      BY <1>2, <1>4
    <2>2. DOMAIN p = {"tracer"} /\ p["tracer"] = tp /\ {"tracer"} \in SUBSET Signal
      BY DEF Signal
    <2>3. \A s \in {"tracer"} :
             p[s] = cache[s] \/ (cache[s] = Absent /\ p[s] \in {Nil, apps})
      BY <1>4, <2>2, AnswersOfCaches
    <2> HIDE DEF p
    <2> QED
      BY <1>1, <2>1, <2>2, <2>3, KeepPreserves
  <1>5. CASE tp # Error /\ mp # Error
    <2> DEFINE p == [tracer |-> tp, meter |-> mp]
    <2>1. Keep(p)
      BY <1>2, <1>5
    <2>2. /\ DOMAIN p = {"tracer", "meter"}
          /\ p["tracer"] = tp /\ p["meter"] = mp
          /\ {"tracer", "meter"} \in SUBSET Signal
      BY DEF Signal
    <2>3. \A s \in {"tracer", "meter"} :
             p[s] = cache[s] \/ (cache[s] = Absent /\ p[s] \in {Nil, apps})
      BY <1>5, <2>2, AnswersOfCaches
    <2> HIDE DEF p
    <2> QED
      BY <1>1, <2>1, <2>2, <2>3, KeepPreserves
  <1> QED
    BY <1>3, <1>4, <1>5

LEMMA ExportLogsPreserves == IInv /\ ExportLogs => IInv'
  <1> SUFFICES ASSUME IInv, ExportLogs PROVE IInv'
    OBVIOUS
  <1>1. phase # "none" /\ UNCHANGED apps
    BY DEF ExportLogs, wiringVars
  <1>2. PICK lp \in GetLoggerProvider :
          Keep(IF lp = Error THEN <<>> ELSE [logs |-> lp])
    BY DEF ExportLogs
  <1>3. CASE lp = Error
    <2>1. Keep(<<>>)
      BY <1>2, <1>3
    <2>2. DOMAIN <<>> = {}
      OBVIOUS
    <2> QED
      BY <1>1, <2>1, <2>2, KeepPreserves
  <1>4. CASE lp # Error
    <2> DEFINE p == [logs |-> lp]
    <2>1. Keep(p)
      BY <1>2, <1>4
    <2>2. DOMAIN p = {"logs"} /\ p["logs"] = lp /\ {"logs"} \in SUBSET Signal
      BY DEF Signal
    <2>3. \A s \in {"logs"} :
             p[s] = cache[s] \/ (cache[s] = Absent /\ p[s] \in {Nil, apps})
      BY <1>4, <2>2, AnswersOfCaches
    <2> HIDE DEF p
    <2> QED
      BY <1>1, <2>1, <2>2, <2>3, KeepPreserves
  <1> QED
    BY <1>3, <1>4

LEMMA StopHookPreserves == IInv /\ StopHook => IInv'
  <1> SUFFICES ASSUME IInv, StopHook PROVE IInv'
    OBVIOUS
  <1>1. UNCHANGED <<apps, cache>> /\ phase # "none"
    BY DEF StopHook, wiringVars, Stopping
  <1>2. alive \in [Signal -> SUBSET App]
    BY DEF IInv, ProcessTyped
  <1>3. alive' = alive \/ alive' = ShutdownMeterProvider(ShutdownTracerProvider(alive))
    BY DEF StopHook, OnStopHook
  <1>4. /\ alive' \in [Signal -> SUBSET App]
        /\ \A s \in Signal : alive'[s] \subseteq alive[s]
    BY <1>2, <1>3 DEF ShutdownMeterProvider, ShutdownTracerProvider
  <1> QED
    BY <1>1, <1>4, ShutdownPreserves

LEMMA StopLogsPreserves == IInv /\ StopLogs => IInv'
  <1> SUFFICES ASSUME IInv, StopLogs PROVE IInv'
    OBVIOUS
  <1>1. UNCHANGED <<apps, cache>> /\ phase # "none"
    BY DEF StopLogs, wiringVars
  <1>2. /\ alive' \in [Signal -> SUBSET App]
        /\ \A s \in Signal : alive'[s] \subseteq alive[s]
    BY DEF StopLogs, ShutdownLoggerProvider, IInv, ProcessTyped
  <1> QED
    BY <1>1, <1>2, ShutdownPreserves

LEMMA NewPreserves ==
    ASSUME NEW l \in Listings, NEW c \in Configs, IInv, New(l, c)
    PROVE  IInv'
  <1>1. /\ apps \in 0..MaxApps /\ apps < MaxApps /\ apps' = apps + 1
        /\ UNCHANGED <<cache, alive>>
    BY DEF New, IInv, ProcessTyped
  <1>2. apps' \in App
    BY <1>1, BoundsAssumption DEF App
  <1>3. apps' \in 0..MaxApps
    BY <1>2 DEF App
  <1> QED
    BY <1>1, <1>2, <1>3 DEF IInv, ProcessTyped, SurvivorIsCached

(* A process that exits makes no further application.                        *)
LEMMA MigrationPreserves == IInv /\ MigrationFails => IInv'
  <1> SUFFICES ASSUME IInv, MigrationFails PROVE IInv'
    OBVIOUS
  <1>1. apps \in App /\ apps' = MaxApps /\ UNCHANGED <<cache, alive>>
    BY DEF MigrationFails, IInv, ProcessTyped
  <1>2. apps' \in App /\ apps' \in 0..MaxApps
    BY <1>1, BoundsAssumption DEF App
  <1> QED
    BY <1>1, <1>2 DEF IInv, ProcessTyped, SurvivorIsCached

(* The actions that touch neither caches nor providers.                      *)
LEMMA OthersPreserve ==
    ASSUME IInv,
           \/ \E m \in DOMAIN Module : Constructed(m)
           \/ \E m \in DOMAIN Module, left \in SUBSET Resource : ConstructorFails(m, left)
           \/ AppendHook \/ StartHook \/ StartHookFails \/ StartTimesOut
           \/ Stop \/ Drain \/ StopTimesOut
           \/ Listen \/ Request \/ Respond \/ Subscribe \/ Consume
    PROVE  IInv'
  <1>1. UNCHANGED <<apps, cache, alive>>
    BY DEF Constructed, ConstructorFails, AppendHook, StartHook, StartHookFails,
           StartTimesOut, Stop, Drain, StopTimesOut, Listen, Request, Respond, Subscribe,
           Consume, wiringVars
  <1>2. phase' # "none" => phase # "none"
    BY DEF Constructed, ConstructorFails, Wanted, AppendHook, StartHook, StartHookFails,
           StartTimesOut, Stop, Drain, StopTimesOut, Listen, Request, Respond, Subscribe,
           Consume, Stopping
  <1> QED
    BY <1>1, <1>2, ProcessUnchanged

LEMMA ConstructPreserves == IInv /\ Construct => IInv'
  <1> SUFFICES ASSUME IInv, Construct PROVE IInv'
    OBVIOUS
  <1>1. DOMAIN Module = {"tracing", "logger", "temporal", "kafka", "gormfx", "worker",
                         "routes", "jobOnStop", "jobOnStart", "jobOnStartStop"}
    BY DEF Module
  <1>2. CASE newTracingModule
    BY <1>2, NewTracingPreserves
  <1>3. CASE NewLogger \/ NewClient \/ NewProducer \/ NewDB
    BY <1>1, <1>3, OthersPreserve DEF NewLogger, NewClient, NewProducer, NewDB, Resource
  <1>4. CASE Parameters
    BY <1>1, <1>4, OthersPreserve DEF Parameters
  <1>5. CASE AppendHook
    BY <1>5, OthersPreserve
  <1> QED
    BY <1>2, <1>3, <1>4, <1>5 DEF Construct

LEMMA StepPreserves == IInv /\ [Next]_vars => IInv'
  <1> SUFFICES ASSUME IInv, [Next]_vars PROVE IInv'
    OBVIOUS
  <1>1. CASE \E l \in Listings, c \in Configs : New(l, c)
    BY <1>1, NewPreserves
  <1>2. CASE Construct
    BY <1>2, ConstructPreserves
  <1>3. CASE MigrationFails
    BY <1>3, MigrationPreserves
  <1>4. CASE \/ StartHook \/ StartHookFails \/ StartTimesOut \/ Stop \/ Drain \/ StopTimesOut
             \/ Listen \/ Request \/ Respond \/ Subscribe \/ Consume
    BY <1>4, OthersPreserve
  <1>5. CASE StopHook
    BY <1>5, StopHookPreserves
  <1>6. CASE ExportLogs
    BY <1>6, ExportLogsPreserves
  <1>7. CASE StopLogs
    BY <1>7, StopLogsPreserves
  <1>8. CASE UNCHANGED vars
    BY <1>8, ProcessUnchanged DEF vars
  <1> QED
    BY <1>1, <1>2, <1>3, <1>4, <1>5, <1>6, <1>7, <1>8 DEF Next

(* No provider is lost: one that runs, whatever became of its application    *)
(* and of the constructor that made it, is the cache's entry.                *)
THEOREM SurvivorsAreCached == Spec => []SurvivorIsCached
  <1>1. IInv => SurvivorIsCached
    BY DEF IInv
  <1> QED
    BY <1>1, InitEstablishes, StepPreserves, PTL DEF Spec

----------------------------------------------------------------------------
(* The records of the modules, by what the proofs need of them.              *)
LEMMA ModuleFacts ==
    ASSUME NEW m \in DOMAIN Module
    PROVE  /\ Module[m].needs \subseteq DOMAIN Module
           /\ Module[m].opens \cup Module[m].starts \subseteq Resource
           /\ Module[m].opens \subseteq Module[m].closes \ {"server", "worker"}
           /\ m # "jobOnStart" => Module[m].starts \subseteq Module[m].closes
           /\ m = "jobOnStart" => Module[m].starts = {"job"}
           /\ "server" \in Module[m].starts => m = "routes"
           /\ "worker" \in Module[m].starts => m = "worker"
           /\ "reader" \notin Module[m].opens \cup Module[m].starts
           /\ m \in Invoked => Module[m].closes \subseteq {"server", "worker", "reader"}
           /\ m \in MayFail => Module[m].opens = {}
           /\ "tracing" \in Module[m].closes => m = "tracing"
  <1>1. m \in {"tracing", "logger", "temporal", "kafka", "gormfx", "worker", "routes",
               "jobOnStop", "jobOnStart", "jobOnStartStop"}
    BY DEF Module
  <1>2. CASE m \in {"tracing", "logger", "temporal", "kafka", "gormfx"}
    BY <1>2 DEF Module, TracingModule, LoggerModule, TemporalModule, KafkaModule,
                GormModule, Resource, Invoked, MayFail
  <1>3. CASE m \in {"worker", "routes", "jobOnStop", "jobOnStart", "jobOnStartStop"}
    BY <1>3 DEF Module, registerWorker, registerRoutes, SimpleOnStop, SimpleOnStart,
                OnStop, OnStart, OnStartStop, Resource, Invoked, MayFail
  <1> QED
    BY <1>1, <1>2, <1>3

LEMMA RoutesFacts ==
    /\ {"routes", "worker", "tracing", "gormfx", "jobOnStart"} \subseteq DOMAIN Module
    /\ {"tracing", "gormfx"} \subseteq Module["routes"].needs
    /\ Module["tracing"].opens = {"tracing"}
    /\ Module["gormfx"].opens = {"db"}
    /\ Module["routes"].closes = {"server"}
    /\ "worker" \in Module["worker"].closes
  BY DEF Module, registerRoutes, registerWorker, TracingModule, GormModule, SimpleOnStart

----------------------------------------------------------------------------
(* Type correctness.                                                         *)
AppTyped ==
    /\ mods \in Listings \cup {<<>>}
    /\ cfg \in Configs
    /\ phase \in Phase
    /\ end \in {"none", "clean", "rolledBack", "failed", "timeout", "exit"}
    /\ built \subseteq DOMAIN Module
    /\ hooks \in 0..Len(mods)
    /\ started \in 0..hooks
    /\ startCtx \in BOOLEAN
    /\ open \subseteq Resource
    /\ listener \in {"none", "listening", "closed"}
    /\ requests \in 0..MaxRequests
    /\ loop \in {"none", "spawned", "consuming", "handling", "ended"}
    /\ late \in BOOLEAN
    /\ used \in [{"tracer", "meter"} -> App \cup {Nil}]

LEMMA ListIsSequence ==
    ASSUME AppTyped
    PROVE  /\ mods \in Seq(DOMAIN Module)
           /\ Len(mods) \in Nat
           /\ \A i \in 1..Len(mods) : mods[i] \in DOMAIN Module
  <1> DEFINE M == DOMAIN Module
  <1>1. /\ mods \in Listings \/ mods = <<>>
        /\ \A l \in Listings : l \in Seq(M)
    BY ListingsAssumption DEF AppTyped
  <1> HIDE DEF M
  <1>2. mods \in Seq(M)
    <2>1. CASE mods \in Listings
      BY <1>1, <2>1
    <2>2. CASE mods = <<>>
      BY <2>2
    <2> QED
      BY <1>1, <2>1, <2>2
  <1>3. Len(mods) \in Nat /\ \A i \in 1..Len(mods) : mods[i] \in M
    BY <1>2
  <1> QED
    BY <1>2, <1>3 DEF M

LEMMA TypedInit == Init => AppTyped
  <1>1. Len(<<>>) = 0
    OBVIOUS
  <1> SUFFICES ASSUME Init PROVE AppTyped
    OBVIOUS
  <1>2. mods \in Listings \cup {<<>>} /\ hooks \in 0..Len(mods) /\ started \in 0..hooks
    BY <1>1 DEF Init
  <1>3. requests \in 0..MaxRequests
    BY BoundsAssumption DEF Init
  <1>4. used \in [{"tracer", "meter"} -> App \cup {Nil}]
    BY DEF Init
  <1> QED
    BY <1>2, <1>3, <1>4 DEF Init, AppTyped, Phase

LEMMA TypedNew ==
    ASSUME AppTyped, NEW l \in Listings, NEW c \in Configs, New(l, c)
    PROVE  AppTyped'
  <1>1. Len(l) \in Nat
    BY ListingsAssumption
  <1>2. mods' = l /\ hooks' \in 0..Len(mods') /\ started' \in 0..hooks'
    BY <1>1 DEF New
  <1>3. requests' \in 0..MaxRequests /\ used' \in [{"tracer", "meter"} -> App \cup {Nil}]
    BY DEF New, AppTyped
  <1> QED
    BY <1>2, <1>3 DEF New, AppTyped, Phase

(* The actions that only construct.                                          *)
LEMMA TypedConstruct == IInv /\ AppTyped /\ Construct => AppTyped'
  <1> SUFFICES ASSUME IInv, AppTyped, Construct PROVE AppTyped'
    OBVIOUS
  <1>0. DOMAIN Module = {"tracing", "logger", "temporal", "kafka", "gormfx", "worker",
                         "routes", "jobOnStop", "jobOnStart", "jobOnStartStop"}
    BY DEF Module
  <1>1. ASSUME NEW m \in DOMAIN Module, Constructed(m) PROVE AppTyped'
    <2>1. open' \subseteq Resource
      BY <1>1, ModuleFacts DEF Constructed, AppTyped
    <2> QED
      BY <1>1, <2>1 DEF Constructed, AppTyped, wiringVars, runtimeVars
  <1>2. ASSUME NEW m \in DOMAIN Module, NEW left \in SUBSET Resource,
               ConstructorFails(m, left)
        PROVE  AppTyped'
    BY <1>2 DEF ConstructorFails, NewFails, AppTyped, Phase, wiringVars, runtimeVars
  <1>3. CASE newTracingModule
    <2>1. /\ phase' \in Phase
          /\ end' \in {"none", "clean", "rolledBack", "failed", "timeout", "exit"}
      BY <1>3 DEF newTracingModule, NewFails, AppTyped, Phase
    <2>2. used' \in [{"tracer", "meter"} -> App \cup {Nil}]
      <3>1. apps \in App
        BY <1>3 DEF newTracingModule, Wanted, IInv, ProcessTyped
      <3>2. cache["tracer"] \in App \cup {Nil, Absent} /\ cache["meter"] \in App \cup {Nil, Absent}
        BY DEF IInv, ProcessTyped, Signal
      <3>3. /\ GetTracerProvider \subseteq App \cup {Nil, Error}
            /\ GetMeterProvider \subseteq App \cup {Nil, Error}
        BY <3>1, <3>2 DEF GetTracerProvider, GetMeterProvider, createTracerProvider,
                          createMeterProvider
      <3>4. PICK tp \in GetTracerProvider, mp \in GetMeterProvider :
              IF Error \in {tp, mp} THEN UNCHANGED used
                                    ELSE used' = [tracer |-> tp, meter |-> mp]
        BY <1>3 DEF newTracingModule
      <3>5. CASE Error \in {tp, mp}
        BY <3>4, <3>5 DEF AppTyped
      <3>6. CASE Error \notin {tp, mp}
        BY <3>3, <3>4, <3>6
      <3> QED
        BY <3>5, <3>6
    <2>3. built' \subseteq DOMAIN Module /\ open' \subseteq Resource
      BY <1>0, <1>3 DEF newTracingModule, TracingModule, AppTyped, Resource
    <2>4. UNCHANGED <<mods, cfg, hooks, started, startCtx, listener, requests, loop, late>>
      BY <1>3 DEF newTracingModule, wiringVars, runtimeVars
    <2> QED
      BY <2>1, <2>2, <2>3, <2>4 DEF AppTyped
  <1>4. CASE NewLogger \/ NewClient \/ NewProducer \/ NewDB
    BY <1>0, <1>1, <1>2, <1>4 DEF NewLogger, NewClient, NewProducer, NewDB, Resource
  <1>5. CASE Parameters
    BY <1>0, <1>1, <1>5 DEF Parameters
  <1>6. CASE AppendHook
    <2>1. hooks' \in 0..Len(mods) /\ started \in 0..hooks'
      BY <1>6, ListIsSequence DEF AppendHook, AppTyped
    <2> QED
      BY <1>6, <2>1 DEF AppendHook, AppTyped, Phase, wiringVars, runtimeVars
  <1> QED
    BY <1>3, <1>4, <1>5, <1>6 DEF Construct

LEMMA TypedHooks ==
    ASSUME AppTyped,
           MigrationFails \/ StartHook \/ StartHookFails \/ StartTimesOut \/ Stop
             \/ Drain \/ StopHook \/ StopTimesOut
    PROVE  AppTyped'
  <1>1. CASE StartHook
    <2>1. started' \in 1..hooks /\ started' \in 0..hooks /\ started' \in 1..Len(mods)
      BY <1>1, ListIsSequence DEF StartHook, AppTyped
    <2>2. mods[started'] \in DOMAIN Module
      BY <2>1, ListIsSequence
    <2>3. open' \subseteq Resource
      BY <1>1, <2>2, ModuleFacts DEF StartHook, AppTyped
    <2> QED
      BY <1>1, <2>1, <2>3 DEF StartHook, AppTyped, Phase, wiringVars
  <1>2. CASE StopHook
    <2>1. started' \in 0..hooks
      BY <1>2, ListIsSequence DEF StopHook, AppTyped
    <2>2. open' \subseteq Resource
      BY <1>2 DEF StopHook, OnStopHook, AppTyped
    <2>3. /\ phase' \in Phase
          /\ end' \in {"none", "clean", "rolledBack", "failed", "timeout", "exit"}
      BY <1>2 DEF StopHook, Ended, AppTyped, Phase
    <2> QED
      BY <1>2, <2>1, <2>2, <2>3 DEF StopHook, AppTyped, wiringVars, runtimeVars
  <1>3. CASE MigrationFails \/ StartHookFails \/ StartTimesOut
    BY <1>3 DEF MigrationFails, StartHookFails, StartTimesOut, AppTyped, Phase, wiringVars,
                runtimeVars
  <1>4. CASE Stop \/ Drain \/ StopTimesOut
    BY <1>4 DEF Stop, Drain, StopTimesOut, AppTyped, Phase, wiringVars, runtimeVars
  <1> QED
    BY <1>1, <1>2, <1>3, <1>4

LEMMA TypedRuntime ==
    ASSUME AppTyped,
           Listen \/ Request \/ Respond \/ Subscribe \/ Consume \/ ExportLogs \/ StopLogs
    PROVE  AppTyped'
  <1>1. CASE Request \/ Respond
    <2>1. requests' \in 0..MaxRequests
      BY <1>1, BoundsAssumption DEF Request, Respond, AppTyped
    <2> QED
      BY <1>1, <2>1 DEF Request, Respond, AppTyped, wiringVars
  <1>2. CASE Listen \/ Subscribe \/ Consume
    BY <1>2 DEF Listen, Subscribe, Consume, AppTyped, wiringVars, Resource
  <1>3. CASE ExportLogs \/ StopLogs
    BY <1>3 DEF ExportLogs, StopLogs, AppTyped, wiringVars, runtimeVars
  <1> QED
    BY <1>1, <1>2, <1>3

LEMMA TypedStep == IInv /\ AppTyped /\ [Next]_vars => AppTyped'
  <1> SUFFICES ASSUME IInv, AppTyped, [Next]_vars PROVE AppTyped'
    OBVIOUS
  <1>1. CASE \E l \in Listings, c \in Configs : New(l, c)
    BY <1>1, TypedNew
  <1>2. CASE Construct
    BY <1>2, TypedConstruct
  <1>3. CASE \/ MigrationFails \/ StartHook \/ StartHookFails \/ StartTimesOut \/ Stop
             \/ Drain \/ StopHook \/ StopTimesOut
    BY <1>3, TypedHooks
  <1>4. CASE Listen \/ Request \/ Respond \/ Subscribe \/ Consume \/ ExportLogs \/ StopLogs
    BY <1>4, TypedRuntime
  <1>5. CASE UNCHANGED vars
    BY <1>5 DEF vars, AppTyped
  <1> QED
    BY <1>1, <1>2, <1>3, <1>4, <1>5 DEF Next

(* Every variable keeps its type; in particular the caches hold providers of *)
(* applications that exist, nil or nothing, never an error.                  *)
THEOREM TypeCorrect == Spec => []TypeOK
  <1>1. IInv /\ AppTyped => TypeOK
    BY DEF IInv, ProcessTyped, AppTyped, TypeOK
  <1> QED
    BY <1>1, InitEstablishes, StepPreserves, TypedInit, TypedStep, PTL DEF Spec

----------------------------------------------------------------------------
(* Construction, hooks and what is open.                                     *)
Listed(m) == \E j \in 1..Len(mods) : mods[j] = m
Starts(m) == \E r \in 1..started : mods[r] = m

(* What CleanEnd leaves open, named.                                         *)
Lasting ==
    (IF late THEN {"reader"} ELSE {})
      \cup (IF "jobOnStart" \in {mods[i] : i \in 1..Len(mods)} THEN {"job"} ELSE {})
Behind == {j \in 1..Len(mods) : \E i \in 1..(j - 1) : mods[i] \in MayFail}

BuiltWithNeeds == \A m \in built : Listed(m) /\ Module[m].needs \subseteq built
HooksAreBuilt == \A i \in 1..hooks : mods[i] \in built
ConstructedIsOpen ==
    phase \in {"building", "starting"} => \A m \in built : Module[m].opens \subseteq open

(* The users of other resources are up only while their hook is a started    *)
(* one, and what routes needs stays open for as long.                        *)
ServerIsStarted == "server" \in open \/ listener = "listening" \/ requests > 0 => Starts("routes")
WorkerIsStarted == "worker" \in open => Starts("worker")
RoutesAreServed == Starts("routes") => {"db", "tracing"} \subseteq open

RunningIsStarted == phase = "running" => started = Len(mods)
(* A reader that is open has a Close ahead, unless it came when all were     *)
(* over.                                                                     *)
ReaderIsClosed == phase # "over" /\ "reader" \in open => late \/ CloseAhead
EndIsOver == end \in {"clean", "rolledBack"} => phase = "over" /\ started = 0

(* Whatever is open was opened by a constructor or a started hook, and has a *)
(* started hook to close it once the stop or the rollback has begun.         *)
OpenedBySome ==
    phase \in {"building", "starting", "running"} =>
        \A x \in open : \/ x = "reader"
                        \/ \E j \in 1..Len(mods) : x \in Module[mods[j]].opens
                        \/ \E i \in 1..started : x \in Module[mods[i]].starts
ToBeClosed(x) == x \in Lasting \/ \E i \in 1..started : x \in Module[mods[i]].closes
StopClosesAll == phase = "stopping" => \A x \in open : ToBeClosed(x)
RollbackClosesStarted ==
    phase = "rollback" =>
        \A x \in open : ToBeClosed(x) \/ \E j \in Behind : x \in Module[mods[j]].opens

WInv ==
    /\ BuiltWithNeeds /\ HooksAreBuilt /\ ConstructedIsOpen
    /\ ServerIsStarted /\ WorkerIsStarted /\ RoutesAreServed
    /\ RunningIsStarted /\ EndIsOver /\ ReaderIsClosed
    /\ OpenedBySome /\ StopClosesAll /\ RollbackClosesStarted /\ CleanEnd

LEMMA CleanEndNamed ==
    CleanEnd <=> /\ end = "clean" => open \subseteq Lasting
                 /\ end = "rolledBack" =>
                      open \subseteq Lasting \cup UNION {Module[mods[j]].opens : j \in Behind}
  BY DEF CleanEnd, Lasting, Behind

LEMMA CleanEndNamedNext ==
    CleanEnd' <=> /\ end' = "clean" => open' \subseteq Lasting'
                  /\ end' = "rolledBack" =>
                       open' \subseteq Lasting'
                                      \cup UNION {Module[mods'[j]].opens : j \in Behind'}
  BY DEF CleanEnd, Lasting, Behind

(* Functions the application invokes are listed, hence started, last.        *)
LEMMA InvokedLast ==
    ASSUME AppTyped, NEW i \in 1..Len(mods), NEW j \in 1..Len(mods),
           mods[i] \in Invoked, i < j
    PROVE  mods[j] \in Invoked
  <1>1. mods # <<>> /\ Len(mods) \in Nat
    BY ListIsSequence
  <1>2. mods \in Listings
    BY <1>1 DEF AppTyped
  <1>3. mods[j] \notin Invoked => j < i
    BY <1>2, ListingsAssumption
  <1> QED
    BY <1>1, <1>3

LEMMA NeedsAreListed ==
    ASSUME AppTyped, NEW i \in 1..Len(mods), NEW m \in Module[mods[i]].needs
    PROVE  Listed(m)
  <1>1. mods # <<>>
    OBVIOUS
  <1>2. mods \in Listings
    BY <1>1 DEF AppTyped
  <1> QED
    BY <1>2, ListingsAssumption DEF Listed

LEMMA WiringInit == Init => WInv
  <1> SUFFICES ASSUME Init PROVE WInv
    OBVIOUS
  <1>1. ~Starts("routes") /\ ~Starts("worker")
    BY DEF Init, Starts
  <1> QED
    BY <1>1, CleanEndNamed
       DEF Init, WInv, BuiltWithNeeds, HooksAreBuilt, ConstructedIsOpen, ServerIsStarted,
           WorkerIsStarted, RoutesAreServed, RunningIsStarted, EndIsOver, ReaderIsClosed, CloseAhead, OpenedBySome,
           StopClosesAll, RollbackClosesStarted

(* What only depends on the list and on the number of started hooks.         *)
LEMMA SameList ==
    ASSUME UNCHANGED <<mods, started, late>>
    PROVE  /\ Lasting' = Lasting /\ Behind' = Behind /\ (CloseAhead' <=> CloseAhead)
           /\ \A m : Listed(m)' <=> Listed(m)
           /\ \A m : Starts(m)' <=> Starts(m)
           /\ \A x : ToBeClosed(x)' <=> ToBeClosed(x)
  BY DEF CloseAhead, Lasting, Behind, Listed, Starts, ToBeClosed

(* Steps of the running application: they open readers at most, those that   *)
(* come too late marked so, and begin to serve only where the server is up.  *)
LEMMA RuntimePreserves ==
    ASSUME WInv, UNCHANGED <<mods, phase, end, built, hooks, started>>,
           open \subseteq open', open' \subseteq open \cup {"reader"},
           \/ open' = open /\ late' = late
           \/ "reader" \in open' /\ late' \in BOOLEAN /\ (late' <=> ~CloseAhead),
           listener' = "listening" \/ requests' > 0
             => "server" \in open \/ listener = "listening" \/ requests > 0
    PROVE  WInv'
  <1>1. /\ BuiltWithNeeds' /\ HooksAreBuilt' /\ ConstructedIsOpen'
        /\ RunningIsStarted' /\ EndIsOver'
    BY DEF WInv, BuiltWithNeeds, HooksAreBuilt, ConstructedIsOpen, RunningIsStarted,
           EndIsOver, Listed
  <1>2. ServerIsStarted' /\ WorkerIsStarted' /\ RoutesAreServed'
    BY DEF WInv, ServerIsStarted, WorkerIsStarted, RoutesAreServed, Starts
  <1>3. OpenedBySome'
    BY DEF WInv, OpenedBySome
  <1>4. ReaderIsClosed'
    BY DEF WInv, ReaderIsClosed, CloseAhead
  <1>5. CASE open' = open /\ late' = late
    <2>1. StopClosesAll' /\ RollbackClosesStarted' /\ CleanEnd'
      BY <1>5, SameList, CleanEndNamed, CleanEndNamedNext
         DEF WInv, StopClosesAll, RollbackClosesStarted
    <2> QED
      BY <1>1, <1>2, <1>3, <1>4, <2>1 DEF WInv
  <1>6. CASE "reader" \in open' /\ late' \in BOOLEAN /\ (late' <=> ~CloseAhead)
    <2>1. Behind' = Behind /\ Lasting \ {"reader"} \subseteq Lasting'
      BY DEF Behind, Lasting
    <2>2. ToBeClosed("reader")'
      BY <1>6 DEF ToBeClosed, Lasting, CloseAhead
    <2>3. \A x : x # "reader" /\ ToBeClosed(x) => ToBeClosed(x)'
      BY <2>1 DEF ToBeClosed
    <2>4. StopClosesAll' /\ RollbackClosesStarted'
      BY <2>1, <2>2, <2>3 DEF WInv, StopClosesAll, RollbackClosesStarted
    <2>5. ASSUME end \in {"clean", "rolledBack"} PROVE "reader" \in Lasting'
      <3>1. started = 0
        BY <2>5 DEF WInv, EndIsOver
      <3> QED
        BY <1>6, <3>1 DEF CloseAhead, Lasting
    <2>6. CleanEnd'
      BY <2>1, <2>5, CleanEndNamed, CleanEndNamedNext DEF WInv
    <2> QED
      BY <1>1, <1>2, <1>3, <1>4, <2>4, <2>6 DEF WInv
  <1> QED
    BY <1>5, <1>6

(* Steps that give up: nothing more is promised than that what serves keeps  *)
(* what it needs.                                                            *)
LEMMA GivingUpPreserves ==
    ASSUME WInv, phase' = "over", end' \notin {"clean", "rolledBack"},
           UNCHANGED <<mods, built, hooks, started, listener, requests, late>>,
           open \subseteq open', open' \subseteq open \cup {"db"}
    PROVE  WInv'
  <1>1. /\ BuiltWithNeeds' /\ HooksAreBuilt' /\ ConstructedIsOpen'
        /\ RunningIsStarted' /\ EndIsOver' /\ ReaderIsClosed'
    BY DEF WInv, BuiltWithNeeds, HooksAreBuilt, ConstructedIsOpen, RunningIsStarted,
           EndIsOver, ReaderIsClosed, CloseAhead, Listed
  <1>2. ServerIsStarted' /\ WorkerIsStarted' /\ RoutesAreServed'
    BY SameList DEF WInv, ServerIsStarted, WorkerIsStarted, RoutesAreServed
  <1>3. OpenedBySome' /\ StopClosesAll' /\ RollbackClosesStarted'
    BY DEF OpenedBySome, StopClosesAll, RollbackClosesStarted
  <1>4. CleanEnd'
    BY CleanEndNamedNext
  <1> QED
    BY <1>1, <1>2, <1>3, <1>4 DEF WInv

(* A constructor that succeeds.                                              *)
LEMMA ConstructingPreserves ==
    ASSUME AppTyped, WInv, NEW m \in DOMAIN Module, Wanted(m),
           built' = built \cup {m}, open' = open \cup Module[m].opens,
           UNCHANGED <<mods, phase, end, hooks, started, listener, requests, late>>
    PROVE  WInv'
  <1>1. phase = "building" /\ Module[m].needs \subseteq built
    BY DEF Wanted
  <1>2. Listed(m)
    <2>1. hooks + 1 \in 1..Len(mods)
      BY ListIsSequence DEF Wanted, AppTyped
    <2> DEFINE next == mods[hooks + 1]
    <2>2. \/ m = next
          \/ m \in Module[next].needs
          \/ \E n \in {next} \cup Module[next].needs : m \in Module[n].needs
      BY DEF Wanted
    <2>3. CASE m = next
      BY <2>1, <2>3 DEF Listed
    <2>4. CASE m \in Module[next].needs
      BY <2>1, <2>4, NeedsAreListed
    <2>5. CASE \E n \in Module[next].needs : m \in Module[n].needs
      <3>1. PICK n \in Module[next].needs : m \in Module[n].needs
        BY <2>5
      <3>2. PICK j \in 1..Len(mods) : mods[j] = n
        BY <2>1, <3>1, NeedsAreListed DEF Listed
      <3> QED
        BY <3>1, <3>2, NeedsAreListed
    <2> QED
      BY <2>2, <2>3, <2>4, <2>5
  <1>3. /\ Module[m].opens \subseteq Resource
        /\ {"server", "worker"} \cap Module[m].opens = {}
    BY ModuleFacts
  <1>4. BuiltWithNeeds'
    BY <1>1, <1>2, SameList DEF WInv, BuiltWithNeeds
  <1>5. HooksAreBuilt' /\ ConstructedIsOpen' /\ RunningIsStarted' /\ EndIsOver'
    BY DEF WInv, HooksAreBuilt, ConstructedIsOpen, RunningIsStarted, EndIsOver
  <1>10. ReaderIsClosed'
    <2>1. "reader" \notin Module[m].opens
      BY ModuleFacts
    <2> QED
      BY <1>1, <2>1, SameList DEF WInv, ReaderIsClosed
  <1>6. ServerIsStarted' /\ WorkerIsStarted' /\ RoutesAreServed'
    BY <1>3, SameList DEF WInv, ServerIsStarted, WorkerIsStarted, RoutesAreServed
  <1>7. OpenedBySome'
    BY <1>2 DEF WInv, OpenedBySome, Listed
  <1>8. StopClosesAll' /\ RollbackClosesStarted'
    BY <1>1 DEF StopClosesAll, RollbackClosesStarted
  <1>9. CleanEnd'
    BY <1>1, CleanEndNamedNext DEF WInv, EndIsOver
  <1> QED
    BY <1>4, <1>5, <1>6, <1>7, <1>8, <1>9, <1>10 DEF WInv

LEMMA WiringConstruct == IInv /\ AppTyped /\ WInv /\ Construct => WInv'
  <1> SUFFICES ASSUME IInv, AppTyped, WInv, Construct PROVE WInv'
    OBVIOUS
  <1>0. DOMAIN Module = {"tracing", "logger", "temporal", "kafka", "gormfx", "worker",
                         "routes", "jobOnStop", "jobOnStart", "jobOnStartStop"}
    BY DEF Module
  <1>1. ASSUME NEW m \in DOMAIN Module, Constructed(m) PROVE WInv'
    BY <1>1, ConstructingPreserves DEF Constructed, wiringVars, runtimeVars
  <1>2. ASSUME NEW m \in DOMAIN Module, NEW left \in SUBSET {"db"}, ConstructorFails(m, left)
        PROVE  WInv'
    <2>1. /\ phase' = "over" /\ end' = "failed" /\ open' = open \cup left
          /\ UNCHANGED <<mods, built, hooks, started, listener, requests, late>>
      BY <1>2 DEF ConstructorFails, NewFails, wiringVars, runtimeVars
    <2> QED
      BY <2>1, GivingUpPreserves
  <1>3. CASE newTracingModule
    <2>1. Wanted("tracing") /\ UNCHANGED <<mods, hooks, started, listener, requests, late>>
      BY <1>3 DEF newTracingModule, wiringVars, runtimeVars
    <2>2. \/ phase' = "over" /\ end' = "failed" /\ UNCHANGED <<built, open>>
          \/ /\ built' = built \cup {"tracing"}
             /\ open' = open \cup Module["tracing"].opens
             /\ UNCHANGED <<phase, end>>
      BY <1>3 DEF newTracingModule, NewFails, Module
    <2>3. CASE phase' = "over" /\ end' = "failed" /\ UNCHANGED <<built, open>>
      BY <2>1, <2>3, GivingUpPreserves
    <2>4. CASE /\ built' = built \cup {"tracing"}
               /\ open' = open \cup Module["tracing"].opens
               /\ UNCHANGED <<phase, end>>
      BY <1>0, <2>1, <2>4, ConstructingPreserves
    <2> QED
      BY <2>2, <2>3, <2>4
  <1>4. CASE NewLogger \/ NewClient \/ NewProducer \/ NewDB
    BY <1>0, <1>1, <1>2, <1>4 DEF NewLogger, NewClient, NewProducer, NewDB
  <1>5. CASE Parameters
    BY <1>0, <1>1, <1>5 DEF Parameters
  <1>6. CASE AppendHook
    <2>1. /\ phase = "building" /\ phase' \in {"building", "starting"}
          /\ hooks' = hooks + 1 /\ mods[hooks'] \in built
          /\ UNCHANGED <<mods, end, built, started, open, listener, requests, late>>
      BY <1>6 DEF AppendHook, wiringVars, runtimeVars
    <2>2. HooksAreBuilt'
      <3>1. hooks \in Nat
        BY ListIsSequence DEF AppTyped
      <3>2. \A i \in 1..hooks' : i \in 1..hooks \/ i = hooks'
        BY <2>1, <3>1
      <3> QED
        BY <2>1, <3>2 DEF WInv, HooksAreBuilt
    <2>3. BuiltWithNeeds' /\ ConstructedIsOpen' /\ RunningIsStarted' /\ EndIsOver' /\ ReaderIsClosed'
      BY <2>1, SameList
         DEF WInv, BuiltWithNeeds, ConstructedIsOpen, RunningIsStarted, EndIsOver, ReaderIsClosed, CloseAhead
    <2>4. ServerIsStarted' /\ WorkerIsStarted' /\ RoutesAreServed'
      BY <2>1, SameList DEF WInv, ServerIsStarted, WorkerIsStarted, RoutesAreServed
    <2>5. OpenedBySome' /\ StopClosesAll' /\ RollbackClosesStarted'
      BY <2>1 DEF WInv, OpenedBySome, StopClosesAll, RollbackClosesStarted
    <2>6. CleanEnd'
      BY <2>1, CleanEndNamedNext DEF WInv, EndIsOver
    <2> QED
      BY <2>2, <2>3, <2>4, <2>5, <2>6 DEF WInv
  <1> QED
    BY <1>3, <1>4, <1>5, <1>6 DEF Construct

LEMMA WiringNew ==
    ASSUME NEW l \in Listings, NEW c \in Configs, New(l, c)
    PROVE  WInv'
  <1>1. /\ phase' = "building" /\ end' = "none" /\ built' = {} /\ hooks' = 0
        /\ started' = 0 /\ open' = {} /\ listener' = "none" /\ requests' = 0
    BY DEF New
  <1>2. ~Starts("routes")' /\ ~Starts("worker")'
    BY <1>1 DEF Starts
  <1>3. HooksAreBuilt'
    BY <1>1 DEF HooksAreBuilt
  <1>4. CleanEnd'
    BY <1>1, CleanEndNamedNext
  <1> QED
    BY <1>1, <1>2, <1>3, <1>4
       DEF WInv, BuiltWithNeeds, ConstructedIsOpen, ServerIsStarted,
           WorkerIsStarted, RoutesAreServed, RunningIsStarted, EndIsOver, ReaderIsClosed, CloseAhead, OpenedBySome,
           StopClosesAll, RollbackClosesStarted

(* The next start hook: it was appended, so its module is built and what it  *)
(* needs is open.                                                            *)
LEMMA WiringStartHook == AppTyped /\ WInv /\ StartHook => WInv'
  <1> SUFFICES ASSUME AppTyped, WInv, StartHook PROVE WInv'
    OBVIOUS
  <1> DEFINE m == mods[started + 1]
  <1>1. /\ phase = "starting" /\ phase' \in {"starting", "running"}
        /\ phase' = "running" => started' = Len(mods)
        /\ started' = started + 1 /\ open' = open \cup Module[m].starts
        /\ UNCHANGED <<mods, end, built, hooks, listener, requests, late>>
    BY DEF StartHook, wiringVars
  <1>2. /\ started \in Nat /\ started + 1 \in 1..hooks /\ started + 1 \in 1..Len(mods)
    BY ListIsSequence DEF StartHook, AppTyped
  <1>3. m \in built /\ m \in DOMAIN Module
    BY <1>2, ListIsSequence DEF WInv, HooksAreBuilt
  <1>4. \A i \in 1..started' : i \in 1..started \/ i = started + 1
    BY <1>1, <1>2
  <1>5. 1..started \subseteq 1..started' /\ started + 1 \in 1..started'
    BY <1>1, <1>2
  <1>6. \A n : Starts(n)' <=> Starts(n) \/ n = m
    BY <1>1, <1>4, <1>5 DEF Starts
  <1>7. BuiltWithNeeds' /\ HooksAreBuilt' /\ ConstructedIsOpen' /\ RunningIsStarted' /\ EndIsOver'
    BY <1>1 DEF WInv, BuiltWithNeeds, HooksAreBuilt, ConstructedIsOpen, RunningIsStarted,
                EndIsOver, Listed
  <1>13. ReaderIsClosed'
    <2>1. "reader" \in open' => "reader" \in open
      BY <1>1, <1>3, ModuleFacts
    <2>2. CloseAhead => CloseAhead'
      BY <1>1, <1>5 DEF CloseAhead
    <2> QED
      BY <1>1, <2>1, <2>2 DEF WInv, ReaderIsClosed
  <1>8. ServerIsStarted' /\ WorkerIsStarted'
    BY <1>1, <1>3, <1>6, ModuleFacts DEF WInv, ServerIsStarted, WorkerIsStarted
  <1>9. RoutesAreServed'
    <2>1. CASE m = "routes"
      <3>1. {"tracing", "gormfx"} \subseteq built
        BY <1>3, <2>1, RoutesFacts DEF WInv, BuiltWithNeeds
      <3>2. {"db", "tracing"} \subseteq open
        BY <1>1, <3>1, RoutesFacts DEF WInv, ConstructedIsOpen
      <3> QED
        BY <1>1, <3>2 DEF RoutesAreServed
    <2>2. CASE m # "routes"
      BY <1>1, <1>6, <2>2 DEF WInv, RoutesAreServed
    <2> QED
      BY <2>1, <2>2
  <1>10. OpenedBySome'
    <2> SUFFICES ASSUME NEW x \in open'
                 PROVE  \/ x = "reader"
                        \/ \E j \in 1..Len(mods) : x \in Module[mods[j]].opens
                        \/ \E i \in 1..started' : x \in Module[mods[i]].starts
      BY <1>1 DEF OpenedBySome
    <2>1. CASE x \in open
      BY <1>1, <1>5, <2>1 DEF WInv, OpenedBySome
    <2>2. CASE x \in Module[m].starts
      BY <1>5, <2>2
    <2> QED
      BY <1>1, <2>1, <2>2
  <1>11. StopClosesAll' /\ RollbackClosesStarted'
    BY <1>1 DEF StopClosesAll, RollbackClosesStarted
  <1>12. CleanEnd'
    BY <1>1, CleanEndNamedNext DEF WInv, EndIsOver
  <1> QED
    BY <1>7, <1>8, <1>9, <1>10, <1>11, <1>12, <1>13 DEF WInv

(* A resource some hook has started, or that belongs to a module whose hook  *)
(* has been started, is one that a stop hook closes, or lasts.               *)
LEMMA StartedIsClosed ==
    ASSUME AppTyped, NEW i \in 1..started, NEW x,
           x \in Module[mods[i]].opens \cup Module[mods[i]].starts
    PROVE  ToBeClosed(x)
  <1>1. i \in 1..Len(mods) /\ mods[i] \in DOMAIN Module
    BY ListIsSequence DEF AppTyped
  <1>2. CASE x \in Module[mods[i]].closes
    BY <1>2 DEF ToBeClosed
  <1>3. CASE x \notin Module[mods[i]].closes
    <2>1. mods[i] = "jobOnStart" /\ x = "job"
      BY <1>1, <1>3, ModuleFacts
    <2> QED
      BY <1>1, <2>1 DEF ToBeClosed, Lasting
  <1> QED
    BY <1>2, <1>3

(* The stop of an application all of whose hooks have been started.          *)
LEMMA WiringStop == AppTyped /\ WInv /\ Stop => WInv'
  <1> SUFFICES ASSUME AppTyped, WInv, Stop PROVE WInv'
    OBVIOUS
  <1>1. /\ phase = "running" /\ phase' = "stopping"
        /\ UNCHANGED <<mods, end, built, hooks, started, open, listener, requests, late>>
    BY DEF Stop, wiringVars, runtimeVars
  <1>2. started = Len(mods)
    BY <1>1 DEF WInv, RunningIsStarted
  <1>3. \A x \in open : ToBeClosed(x)
    <2> SUFFICES ASSUME NEW x \in open PROVE ToBeClosed(x)
      OBVIOUS
    <2>1. CASE x = "reader"
      BY <1>1, <2>1 DEF WInv, ReaderIsClosed, CloseAhead, ToBeClosed, Lasting
    <2>2. CASE x # "reader"
      BY <1>1, <1>2, <2>2, StartedIsClosed DEF WInv, OpenedBySome
    <2> QED
      BY <2>1, <2>2
  <1>4. StopClosesAll'
    BY <1>1, <1>3, SameList DEF StopClosesAll
  <1>5. /\ BuiltWithNeeds' /\ HooksAreBuilt' /\ ConstructedIsOpen'
        /\ RunningIsStarted' /\ EndIsOver' /\ ReaderIsClosed'
    BY <1>1 DEF WInv, BuiltWithNeeds, HooksAreBuilt, ConstructedIsOpen, RunningIsStarted,
                EndIsOver, ReaderIsClosed, CloseAhead, Listed
  <1>6. ServerIsStarted' /\ WorkerIsStarted' /\ RoutesAreServed'
    BY <1>1, SameList DEF WInv, ServerIsStarted, WorkerIsStarted, RoutesAreServed
  <1>7. OpenedBySome' /\ RollbackClosesStarted'
    BY <1>1 DEF OpenedBySome, RollbackClosesStarted
  <1>8. CleanEnd'
    BY <1>1, CleanEndNamedNext DEF WInv, EndIsOver
  <1> QED
    BY <1>4, <1>5, <1>6, <1>7, <1>8 DEF WInv

(* A start function fails: a constructor that opened something belongs to a  *)
(* started hook, or is behind the module that failed.                        *)
LEMMA WiringStartHookFails == AppTyped /\ WInv /\ StartHookFails => WInv'
  <1> SUFFICES ASSUME AppTyped, WInv, StartHookFails PROVE WInv'
    OBVIOUS
  <1>1. /\ phase = "starting"
        /\ \/ started = 0 /\ phase' = "over" /\ end' = "rolledBack"
           \/ phase' = "rollback" /\ end' = end
        /\ mods[started + 1] \in MayFail
        /\ UNCHANGED <<mods, built, hooks, started, open, listener, requests, late>>
    BY DEF StartHookFails, wiringVars, runtimeVars
  <1>2. started \in Nat /\ started + 1 \in 1..Len(mods)
    BY ListIsSequence DEF StartHookFails, AppTyped
  <1>3. \A x \in open : ToBeClosed(x) \/ \E j \in Behind : x \in Module[mods[j]].opens
    <2> SUFFICES ASSUME NEW x \in open
                 PROVE  ToBeClosed(x) \/ \E j \in Behind : x \in Module[mods[j]].opens
      OBVIOUS
    <2>1. CASE x = "reader"
      BY <1>1, <2>1 DEF WInv, ReaderIsClosed, CloseAhead, ToBeClosed, Lasting
    <2>2. CASE \E i \in 1..started : x \in Module[mods[i]].starts
      BY <2>2, StartedIsClosed
    <2>3. CASE \E j \in 1..Len(mods) : x \in Module[mods[j]].opens
      <3>1. PICK j \in 1..Len(mods) : x \in Module[mods[j]].opens
        BY <2>3
      <3>2. CASE j \in 1..started
        BY <3>1, <3>2, StartedIsClosed
      <3>3. j # started + 1
        BY <1>1, <3>1, ListIsSequence, ModuleFacts
      <3>4. CASE j \notin 1..started
        <4>1. started + 1 \in 1..(j - 1)
          BY <1>2, <3>3, <3>4
        <4>2. j \in Behind
          BY <1>1, <4>1 DEF Behind
        <4> QED
          BY <3>1, <4>2
      <3> QED
        BY <3>2, <3>4
    <2> QED
      BY <1>1, <2>1, <2>2, <2>3 DEF WInv, OpenedBySome
  <1>4. RollbackClosesStarted'
    BY <1>1, <1>3, SameList DEF RollbackClosesStarted
  <1>5. CleanEnd'
    <2>1. CASE started = 0 /\ end' = "rolledBack"
      <3>1. \A x : ToBeClosed(x) => x \in Lasting
        BY <2>1 DEF ToBeClosed
      <3> QED
        BY <1>1, <1>3, <2>1, <3>1, SameList, CleanEndNamedNext
    <2>2. CASE end' = end
      BY <1>1, <2>2, CleanEndNamedNext DEF WInv, EndIsOver
    <2> QED
      BY <1>1, <2>1, <2>2
  <1>6. /\ BuiltWithNeeds' /\ HooksAreBuilt' /\ ConstructedIsOpen'
        /\ RunningIsStarted' /\ EndIsOver' /\ ReaderIsClosed'
    BY <1>1 DEF WInv, BuiltWithNeeds, HooksAreBuilt, ConstructedIsOpen, RunningIsStarted,
                EndIsOver, ReaderIsClosed, CloseAhead, Listed
  <1>7. ServerIsStarted' /\ WorkerIsStarted' /\ RoutesAreServed'
    BY <1>1, SameList DEF WInv, ServerIsStarted, WorkerIsStarted, RoutesAreServed
  <1>8. OpenedBySome' /\ StopClosesAll'
    BY <1>1 DEF OpenedBySome, StopClosesAll
  <1> QED
    BY <1>4, <1>5, <1>6, <1>7, <1>8 DEF WInv

(* The stop hook that runs while the server is up is that of another invoked *)
(* function, and none of these closes what the server needs; likewise for    *)
(* the worker.                                                               *)
LEMMA HookOfInvoked ==
    ASSUME AppTyped, StopHook, NEW n \in Invoked, NEW r \in 1..(started - 1), mods[r] = n
    PROVE  open \ {"server", "worker", "reader"} \subseteq open'
  <1>1. /\ started \in 1..Len(mods) /\ r \in 1..Len(mods) /\ r < started
    BY ListIsSequence DEF StopHook, AppTyped
  <1>2. mods[started] \in Invoked /\ mods[started] \in DOMAIN Module
    BY <1>1, InvokedLast, ListIsSequence
  <1>3. Module[mods[started]].closes \subseteq {"server", "worker", "reader"}
    BY <1>2, ModuleFacts
  <1>4. open' = open \ Module[mods[started]].closes
    BY DEF StopHook, OnStopHook
  <1> QED
    BY <1>3, <1>4

LEMMA WiringStopHook == AppTyped /\ WInv /\ StopHook => WInv'
  <1> SUFFICES ASSUME AppTyped, WInv, StopHook PROVE WInv'
    OBVIOUS
  <1> DEFINE m == mods[started]
  <1>1. /\ phase \in {"stopping", "rollback"}
        /\ \/ /\ started' = 0 /\ phase' = "over"
              /\ end' = IF phase = "rollback" THEN "rolledBack" ELSE "clean"
           \/ started' # 0 /\ phase' = phase /\ end' = end
        /\ started' = started - 1
        /\ UNCHANGED <<mods, built, hooks, listener, requests, late>>
    BY DEF StopHook, Stopping, Ended, wiringVars, runtimeVars
  <1>2. open' = open \ Module[m].closes
    BY DEF StopHook, OnStopHook
  <1>3. m = "routes" => listener = "closed" /\ requests = 0
    BY DEF StopHook
  <1>4. started \in Nat /\ started \in 1..Len(mods) /\ m \in DOMAIN Module
    BY ListIsSequence DEF StopHook, AppTyped
  <1>5. \A i \in 1..started : i = started \/ i \in 1..started'
    BY <1>1, <1>4
  <1>6. 1..started' \subseteq 1..started /\ started \notin 1..started'
    BY <1>1, <1>4
  <1>7. \A n : Starts(n)' => Starts(n)
    BY <1>1, <1>6 DEF Starts
  <1>8. \A n : Starts(n) /\ n # m => Starts(n)'
    BY <1>1, <1>5 DEF Starts
  <1>9. Lasting' = Lasting /\ Behind' = Behind
    BY <1>1 DEF Lasting, Behind
  <1>10. \A x : ToBeClosed(x) /\ x \notin Module[m].closes => ToBeClosed(x)'
    BY <1>1, <1>5, <1>9 DEF ToBeClosed
  <1>11. /\ BuiltWithNeeds' /\ HooksAreBuilt' /\ ConstructedIsOpen'
         /\ RunningIsStarted' /\ EndIsOver'
    BY <1>1 DEF WInv, BuiltWithNeeds, HooksAreBuilt, ConstructedIsOpen, RunningIsStarted,
                EndIsOver, Listed
  <1>19. ReaderIsClosed'
    <2>1. CloseAhead /\ "reader" \notin Module[m].closes => CloseAhead'
      BY <1>1, <1>5 DEF CloseAhead
    <2> QED
      BY <1>1, <1>2, <2>1 DEF WInv, ReaderIsClosed
  <1>12. ServerIsStarted'
    BY <1>1, <1>2, <1>3, <1>8, RoutesFacts DEF WInv, ServerIsStarted
  <1>13. WorkerIsStarted'
    BY <1>1, <1>2, <1>8, RoutesFacts DEF WInv, WorkerIsStarted
  <1>14. RoutesAreServed'
    <2> SUFFICES ASSUME Starts("routes")' PROVE {"db", "tracing"} \subseteq open'
      BY DEF RoutesAreServed
    <2>1. PICK r \in 1..(started - 1) : mods[r] = "routes"
      BY <1>1 DEF Starts
    <2>2. open \ {"server", "worker", "reader"} \subseteq open'
      BY <2>1, HookOfInvoked DEF Invoked
    <2>3. {"db", "tracing"} \subseteq open
      BY <1>7 DEF WInv, RoutesAreServed
    <2> QED
      BY <2>2, <2>3
  <1>15. OpenedBySome'
    BY <1>1 DEF OpenedBySome
  <1>16. StopClosesAll'
    BY <1>1, <1>2, <1>10 DEF WInv, StopClosesAll
  <1>17. RollbackClosesStarted'
    BY <1>1, <1>2, <1>9, <1>10 DEF WInv, RollbackClosesStarted
  <1>18. CleanEnd'
    <2>1. CASE started' = 0 /\ end' = IF phase = "rollback" THEN "rolledBack" ELSE "clean"
      <3>1. \A x : ToBeClosed(x)' => x \in Lasting
        BY <1>9, <2>1 DEF ToBeClosed
      <3>2. phase = "stopping" => open' \subseteq Lasting
        BY <1>2, <1>10, <3>1 DEF WInv, StopClosesAll
      <3>3. phase = "rollback" =>
              open' \subseteq Lasting \cup UNION {Module[mods[j]].opens : j \in Behind}
        BY <1>2, <1>10, <3>1 DEF WInv, RollbackClosesStarted
      <3> QED
        BY <1>1, <1>9, <2>1, <3>2, <3>3, CleanEndNamedNext
    <2>2. CASE end' = end
      BY <1>1, <2>2, CleanEndNamedNext DEF WInv, EndIsOver
    <2> QED
      BY <1>1, <2>1, <2>2
  <1> QED
    BY <1>11, <1>12, <1>13, <1>14, <1>15, <1>16, <1>17, <1>18, <1>19 DEF WInv

LEMMA WiringGivingUp ==
    ASSUME WInv, MigrationFails \/ StartTimesOut \/ StopTimesOut
    PROVE  WInv'
  <1>1. CASE MigrationFails \/ StopTimesOut
    <2>1. /\ phase' = "over" /\ end' \in {"exit", "timeout"}
          /\ UNCHANGED <<mods, built, hooks, started, open, listener, requests, late>>
      BY <1>1 DEF MigrationFails, StopTimesOut, wiringVars, runtimeVars
    <2> QED
      BY <2>1, GivingUpPreserves
  <1>2. CASE StartTimesOut
    <2>1. /\ \/ phase' = "over" /\ end' = "timeout"
             \/ UNCHANGED <<phase, end>>
          /\ UNCHANGED <<mods, built, hooks, started, open, listener, requests, late>>
      BY <1>2 DEF StartTimesOut, wiringVars, runtimeVars
    <2> QED
      BY <2>1, GivingUpPreserves, RuntimePreserves
  <1> QED
    BY <1>1, <1>2

LEMMA WiringRuntime ==
    ASSUME AppTyped, WInv,
           \/ Drain \/ Listen \/ Request \/ Respond \/ Subscribe \/ Consume
           \/ ExportLogs \/ StopLogs
    PROVE  WInv'
  <1>1. UNCHANGED <<mods, phase, end, built, hooks, started>>
    BY DEF Drain, Listen, Request, Respond, Subscribe, Consume, ExportLogs, StopLogs, wiringVars
  <1>2. open' = open \/ open' = open \cup {"reader"}
    BY DEF Drain, Listen, Request, Respond, Subscribe, Consume, ExportLogs, StopLogs
  <1>3. listener' = "listening" \/ requests' > 0
          => "server" \in open \/ listener = "listening" \/ requests > 0
    BY DEF Drain, Listen, Request, Respond, Subscribe, Consume, ExportLogs, StopLogs,
           runtimeVars, AppTyped
  <1>4. \/ open' = open /\ late' = late
        \/ "reader" \in open' /\ late' \in BOOLEAN /\ (late' <=> ~CloseAhead)
    BY DEF Drain, Listen, Request, Respond, Subscribe, Consume, ExportLogs, StopLogs,
           runtimeVars, CloseAhead
  <1> QED
    BY <1>1, <1>2, <1>3, <1>4, RuntimePreserves

LEMMA WiringStep == IInv /\ AppTyped /\ WInv /\ [Next]_vars => WInv'
  <1> SUFFICES ASSUME IInv, AppTyped, WInv, [Next]_vars PROVE WInv'
    OBVIOUS
  <1>1. CASE \E l \in Listings, c \in Configs : New(l, c)
    BY <1>1, WiringNew
  <1>2. CASE Construct
    BY <1>2, WiringConstruct
  <1>3. CASE StartHook
    BY <1>3, WiringStartHook
  <1>4. CASE StartHookFails
    BY <1>4, WiringStartHookFails
  <1>5. CASE Stop
    BY <1>5, WiringStop
  <1>6. CASE StopHook
    BY <1>6, WiringStopHook
  <1>7. CASE MigrationFails \/ StartTimesOut \/ StopTimesOut
    BY <1>7, WiringGivingUp
  <1>8. CASE \/ Drain \/ Listen \/ Request \/ Respond \/ Subscribe \/ Consume
             \/ ExportLogs \/ StopLogs
    BY <1>8, WiringRuntime
  <1>9. CASE UNCHANGED vars
    BY <1>9, RuntimePreserves DEF vars
  <1> QED
    BY <1>1, <1>2, <1>3, <1>4, <1>5, <1>6, <1>7, <1>8, <1>9 DEF Next

LEMMA Invariants == Spec => [](IInv /\ AppTyped /\ WInv)
  BY InitEstablishes, StepPreserves, TypedInit, TypedStep, WiringInit, WiringStep, PTL DEF Spec

(* A request in flight never meets a closed database or a stopped tracer:    *)
(* its server's hook is among the started ones, and stops before theirs.     *)
THEOREM RequestsAlwaysServed == Spec => []RequestsAreServed
  <1>1. WInv => RequestsAreServed
    BY DEF WInv, ServerIsStarted, RoutesAreServed, RequestsAreServed
  <1> QED
    BY <1>1, Invariants, PTL

(* An application that was stopped, or whose failed start was rolled back,   *)
(* leaves open only what fxutil.OnStart alone started, what was constructed  *)
(* for hooks that never were, and a reader that came after every Close.      *)
THEOREM StopsLeaveNothingOpen == Spec => []CleanEnd
  <1>1. WInv => CleanEnd
    BY DEF WInv
  <1> QED
    BY <1>1, Invariants, PTL

(* No step takes a resource away from a worker or a server that stays up,    *)
(* nor tracing from a client whose module is listed behind it.               *)
LEMMA DependentsStep ==
    ASSUME AppTyped, WInv, [Next]_vars, phase # "over",
           NEW u \in DOMAIN Uses, u \in open', StopsBeforeTracing(u)
    PROVE  Uses[u] \cap open \subseteq open'
  <1>1. /\ u \in {"worker", "server", "temporal", "db"}
        /\ u \in {"worker", "server"} => Uses[u] \subseteq {"temporal", "tracing", "db"}
        /\ u \in {"temporal", "db"} => Uses[u] = {"tracing"} /\ u \in DOMAIN Owner
    BY DEF Uses, Owner
  <1>2. CASE StopHook
    <2> DEFINE n == IF u = "worker" THEN "worker" ELSE "routes"
    <2>1. open' = open \ Module[mods[started]].closes
      BY <1>2 DEF StopHook, OnStopHook
    <2>2. CASE u \in {"worker", "server"}
      <3>1. Starts(n) /\ mods[started] # n
        BY <2>1, <2>2, RoutesFacts DEF WInv, ServerIsStarted, WorkerIsStarted
      <3>2. PICK r \in 1..started : mods[r] = n
        BY <3>1 DEF Starts
      <3>3. r \in 1..(started - 1) /\ n \in Invoked
        BY <1>2, <3>1, <3>2, ListIsSequence DEF AppTyped, Invoked
      <3>4. open \ {"server", "worker", "reader"} \subseteq open'
        BY <1>2, <3>2, <3>3, HookOfInvoked
      <3> QED
        BY <1>1, <2>2, <3>4
    <2>3. CASE u \in {"temporal", "db"}
      <3>1. PICK i \in 1..started, j \in 1..started : i < j /\ mods[i] = "tracing"
        BY <1>1, <2>3 DEF StopsBeforeTracing
      <3>2. /\ mods \in Listings /\ started \in 1..Len(mods) /\ i \in 1..Len(mods)
            /\ i # started
        <4>1. started \in Nat /\ started \in 1..Len(mods) /\ i < started
          BY <1>2, <3>1, ListIsSequence DEF AppTyped
        <4>2. mods # <<>>
          BY <4>1
        <4> QED
          BY <3>1, <4>1, <4>2 DEF AppTyped
      <3>3. mods[started] # "tracing"
        BY <3>1, <3>2, ListingsAssumption
      <3>4. mods[started] \in DOMAIN Module
        BY <3>2, ListIsSequence
      <3>5. "tracing" \notin Module[mods[started]].closes
        BY <3>3, <3>4, ModuleFacts
      <3> QED
        BY <1>1, <2>1, <2>3, <3>5
    <2> QED
      BY <1>1, <2>2, <2>3
  <1>3. CASE \E l \in Listings, c \in Configs : New(l, c)
    BY <1>3 DEF New
  <1>4. CASE Construct
    BY <1>4 DEF Construct, newTracingModule, NewLogger, NewClient, NewProducer, NewDB,
                Parameters, Constructed, ConstructorFails, AppendHook
  <1>5. CASE \/ MigrationFails \/ StartHook \/ StartHookFails \/ StartTimesOut
             \/ Stop \/ Drain \/ StopTimesOut
    BY <1>5 DEF MigrationFails, StartHook, StartHookFails, StartTimesOut, Stop, Drain,
                StopTimesOut
  <1>6. CASE Listen \/ Request \/ Respond \/ Subscribe \/ Consume \/ ExportLogs \/ StopLogs
    BY <1>6 DEF Listen, Request, Respond, Subscribe, Consume, ExportLogs, StopLogs
  <1>7. CASE UNCHANGED vars
    BY <1>7 DEF vars
  <1> QED
    BY <1>2, <1>3, <1>4, <1>5, <1>6, <1>7 DEF Next

(* Nothing is closed while a component that uses it is up: functions the     *)
(* application invokes are listed last, so their hooks stop first; and a     *)
(* client listed behind tracing is closed before it.                         *)
THEOREM DependentsOutlived == Spec => DependentsCloseFirst
  <1>1. AppTyped /\ WInv /\ [Next]_vars
          => [phase # "over" =>
                \A u \in DOMAIN Uses :
                   u \in open' /\ StopsBeforeTracing(u)
                     => Uses[u] \cap open \subseteq open']_vars
    BY DependentsStep
  <1> QED
    BY <1>1, Invariants, PTL DEF DependentsCloseFirst, Spec
=============================================================================
