---------------------------- MODULE AppLifecycle ----------------------------
(***************************************************************************)
(* An application made of the library's fx modules, from fx.New to the end *)
(* of its stop hooks, and the next application of the same process.        *)
(*                                                                         *)
(* fx itself is external: it constructs what an invoked function needs,    *)
(* runs start hooks in the order they were appended and stop hooks of the  *)
(* started ones backwards, goes on after a stop hook that fails, and gives *)
(* up when the context of the phase is done.  What a module constructs and *)
(* what its hooks start and close is a record, one per module.             *)
(***************************************************************************)
EXTENDS Integers, Sequences, FiniteSets

CONSTANTS
    Listings,       \* the module lists applications are built from
    Configs,        \* the tracing configurations they are given
    MaxApps,        \* bound on the applications of one process
    MaxRequests,    \* bound on the HTTP requests in flight
    Nil,            \* no provider: tracing is off
    Absent,         \* "the map has no such key"
    Error           \* a constructor returned an error

ASSUME BoundsAssumption == MaxApps \in Nat /\ MaxRequests \in Nat
ASSUME SpecialValuesAssumption ==
    /\ {Nil, Absent, Error} \cap Nat = {}
    /\ Nil # Absent /\ Nil # Error /\ Absent # Error

(* needs: what fx constructs first; opens: what construction leaves open;   *)
(* starts, closes: what OnStart opens and OnStop closes.                    *)
TracingModule  == [needs |-> {}, opens |-> {"tracing"},
                   starts |-> {}, closes |-> {"tracing"}]
LoggerModule   == [needs |-> {}, opens |-> {}, starts |-> {}, closes |-> {}]
TemporalModule == [needs |-> {"logger", "tracing"}, opens |-> {"temporal"},
                   starts |-> {}, closes |-> {"temporal"}]
KafkaModule    == [needs |-> {"logger", "tracing"}, opens |-> {},
                   starts |-> {}, closes |-> {"reader"}]
GormModule     == [needs |-> {"tracing"}, opens |-> {"db"},
                   starts |-> {}, closes |-> {"db"}]
registerWorker == [needs |-> {"logger", "temporal", "kafka"}, opens |-> {},
                   starts |-> {"worker"}, closes |-> {"worker", "reader"}]
registerRoutes == [needs |-> {"tracing", "logger", "gormfx"}, opens |-> {},
                   starts |-> {"server"}, closes |-> {"server"}]

(* A component the application adds with one of the helpers of fxutil:      *)
(* opened by its constructor or by its start function.                      *)
OnStop      == [needs |-> {}, opens |-> {"job"}, starts |-> {}, closes |-> {"job"}]
OnStart     == [needs |-> {}, opens |-> {}, starts |-> {"job"}, closes |-> {}]
OnStartStop == [needs |-> {}, opens |-> {}, starts |-> {"job"}, closes |-> {"job"}]
SimpleOnStop  == OnStop
SimpleOnStart == OnStart

Module == [tracing |-> TracingModule, logger |-> LoggerModule,
           temporal |-> TemporalModule, kafka |-> KafkaModule,
           gormfx |-> GormModule, worker |-> registerWorker,
           routes |-> registerRoutes, jobOnStop |-> SimpleOnStop,
           jobOnStart |-> SimpleOnStart, jobOnStartStop |-> OnStartStop]

(* The applications of examples/.                                           *)
WorkerService == <<"tracing", "logger", "temporal", "kafka", "worker">>
ApiService    == <<"tracing", "logger", "gormfx", "routes">>

Resource == {"tracing", "temporal", "db", "reader", "worker", "server", "job"}

(* Library modules are listed before the functions the application invokes  *)
(* itself, each once, with everything these functions need.                 *)
Invoked == {"worker", "routes"}
ASSUME ListingsAssumption ==
    \A l \in Listings :
        /\ l \in Seq(DOMAIN Module)
        /\ \A i, j \in 1..Len(l) :
              /\ l[i] = l[j] => i = j
              /\ l[i] \in Invoked /\ l[j] \notin Invoked => j < i
        /\ \A i \in 1..Len(l) : \A m \in Module[l[i]].needs :
              \E j \in 1..Len(l) : l[j] = m

(* The configuration of the tracing module: whether there is an endpoint,   *)
(* and its TLS material, each part of which decodes and parses or does not. *)
Material == {"none", "good", "bad"}
Config == [endpoint : BOOLEAN, cert : Material, key : Material, ca : Material]
ASSUME ConfigsAssumption == Configs \subseteq Config

Signal == {"tracer", "meter", "logs"}
App == 1..MaxApps

VARIABLES
    \* the application
    mods,       \* the modules it lists
    cfg,        \* its tracing configuration
    phase,      \* where fx stands
    end,        \* how it ended
    built,      \* what has been constructed
    hooks,      \* how many modules of the list have appended their hook
    started,    \* fx's numStarted
    startCtx,   \* whether the start context is still live
    open,       \* resources that are open
    listener,   \* the listener of the HTTP server
    requests,   \* requests in flight
    loop,       \* the goroutine of consumer.Subscribe
    late,       \* it came to run when every hook that closes readers was over
    used,       \* the providers of the application's TracingModule

    \* the process; a provider is named after the application that made it
    apps,       \* applications built so far
    cache,      \* tracerProviders, meterProviders, loggerProviders
    alive       \* providers that have not been shut down

vars == <<mods, cfg, phase, end, built, hooks, started, startCtx, open,
          listener, requests, loop, late, used, apps, cache, alive>>
processVars == <<apps, cache, alive>>
runtimeVars == <<listener, requests, loop, late>>
wiringVars  == <<mods, cfg, apps>>

Phase == {"none", "building", "starting", "running", "rollback", "stopping", "over"}

TypeOK ==
    /\ mods \in Listings \cup {<<>>}
    /\ cfg \in Configs
    /\ phase \in Phase
    /\ end \in {"none", "clean", "rolledBack", "failed", "timeout", "exit"}
    /\ built \subseteq DOMAIN Module
    /\ hooks \in 0..Len(mods)
    /\ started \in 0..hooks
    /\ startCtx \in BOOLEAN
    /\ open \subseteq Resource
    /\ listener \in {"none", "listening", "closed"}
    /\ requests \in 0..MaxRequests
    /\ loop \in {"none", "spawned", "consuming", "handling", "ended"}
    /\ late \in BOOLEAN
    /\ used \in [{"tracer", "meter"} -> App \cup {Nil}]
    /\ apps \in 0..MaxApps
    /\ cache \in [Signal -> App \cup {Nil, Absent}]
    /\ alive \in [Signal -> SUBSET App]

Init ==
    /\ mods = <<>>
    /\ cfg \in Configs
    /\ phase = "none"
    /\ end = "none"
    /\ built = {}
    /\ hooks = 0
    /\ started = 0
    /\ startCtx = FALSE
    /\ open = {}
    /\ listener = "none"
    /\ requests = 0
    /\ loop = "none"
    /\ late = FALSE
    /\ used = [s \in {"tracer", "meter"} |-> Nil]
    /\ apps = 0
    /\ cache = [s \in Signal |-> Absent]
    /\ alive = [s \in Signal |-> {}]

----------------------------------------------------------------------------
(* The provider caches, by what ProviderRegistry says of each.              *)

(* A client certificate counts only together with its key.                  *)
GetTLSConfig ==
    IF cfg.cert = "none" /\ cfg.key = "none" /\ cfg.ca = "none" THEN "nil"
    ELSE IF \/ cfg.ca = "bad"
            \/ /\ "none" \notin {cfg.cert, cfg.key}
               /\ "bad" \in {cfg.cert, cfg.key}
      THEN "error"
      ELSE "config"

(* What creating a provider may come to.  TLS material that is in error     *)
(* always fails, the resource and the exporter may.                         *)
createTracerProvider ==
    IF ~cfg.endpoint THEN {Nil}
    ELSE IF GetTLSConfig = "error" THEN {Error} ELSE {apps, Error}
createMeterProvider ==
    IF ~cfg.endpoint THEN {Nil}
    ELSE IF GetTLSConfig = "error" THEN {Error} ELSE {apps, Error}
createLoggerProvider ==
    IF ~cfg.endpoint THEN {Nil}
    ELSE IF GetTLSConfig = "error" THEN {Error} ELSE {apps, Error}

GetTracerProvider ==
    IF cache["tracer"] # Absent THEN {cache["tracer"]} ELSE createTracerProvider
GetMeterProvider ==
    IF cache["meter"] # Absent THEN {cache["meter"]} ELSE createMeterProvider
GetLoggerProvider ==
    IF cache["logs"] # Absent THEN {cache["logs"]} ELSE createLoggerProvider

(* Providers that come from the cache leave it as it is; new ones enter it  *)
(* and run.  A signal that is not in the domain of p was not asked for.     *)
Keep(p) ==
    /\ cache' = [s \in Signal |->
                   IF s \in DOMAIN p THEN p[s] ELSE cache[s]]
    /\ alive' = [s \in Signal |->
                   IF s \in DOMAIN p /\ p[s] \in App /\ cache[s] = Absent
                     THEN alive[s] \cup {p[s]} ELSE alive[s]]

----------------------------------------------------------------------------
(* fx.New with one of the listings, once the application before it and its  *)
(* goroutines are gone.                                                     *)
New(l, c) ==
    /\ phase \in {"none", "over"}
    /\ apps < MaxApps
    /\ requests = 0
    /\ loop \in {"none", "ended"}
    /\ apps' = apps + 1
    /\ mods' = l
    /\ cfg' = c
    /\ phase' = "building"
    /\ end' = "none"
    /\ built' = {}
    /\ hooks' = 0
    /\ started' = 0
    /\ startCtx' = TRUE
    /\ open' = {}
    /\ listener' = "none"
    /\ loop' = "none"
    /\ late' = FALSE
    /\ used' = [s \in {"tracer", "meter"} |-> Nil]
    /\ UNCHANGED <<requests, cache, alive>>

(* fx constructs what the next invoked function needs and what that needs.  *)
Wanted(m) ==
    /\ phase = "building"
    /\ hooks < Len(mods)
    /\ m \notin built
    /\ LET next == mods[hooks + 1]
           needed == {next} \cup Module[next].needs
       IN  m \in needed \cup UNION {Module[n].needs : n \in needed}
    /\ Module[m].needs \subseteq built

(* An error of a constructor ends fx.New.  No hook has been started, so     *)
(* nothing that was constructed before is closed.                           *)
NewFails ==
    /\ phase' = "over"
    /\ end' = "failed"

(* Mutant: the module makes its providers without asking the caches.        *)
NewTracingUncached ==
    /\ Wanted("tracing")
    /\ \E tp \in createTracerProvider, mp \in createMeterProvider :
         /\ tp # Error /\ mp # Error
         /\ used' = [tracer |-> tp, meter |-> mp]
         /\ alive' = [alive EXCEPT !["tracer"] = @ \cup ({tp} \cap App),
                                   !["meter"] = @ \cup ({mp} \cap App)]
    /\ built' = built \cup {"tracing"}
    /\ open' = open \cup TracingModule.opens
    /\ UNCHANGED <<wiringVars, phase, end, hooks, started, startCtx, runtimeVars, cache>>

(* newTracingModule: the tracer provider, then the meter provider.  When    *)
(* the second fails the first stays cached, global and running.             *)
newTracingModule ==
    /\ Wanted("tracing")
    /\ \E tp \in GetTracerProvider, mp \in GetMeterProvider :
         IF Error \in {tp, mp}
           THEN /\ Keep(IF tp = Error THEN <<>> ELSE [tracer |-> tp])
                /\ NewFails
                /\ UNCHANGED <<built, open, used>>
           ELSE /\ Keep([tracer |-> tp, meter |-> mp])
                /\ used' = [tracer |-> tp, meter |-> mp]
                /\ built' = built \cup {"tracing"}
                /\ open' = open \cup TracingModule.opens
                /\ UNCHANGED <<phase, end>>
    /\ UNCHANGED <<wiringVars, hooks, started, startCtx, runtimeVars>>

(* Any other constructor: it succeeds, or it fails and leaves some resource *)
(* open that was opened for it.                                             *)
Constructed(m) ==
    /\ Wanted(m)
    /\ built' = built \cup {m}
    /\ open' = open \cup Module[m].opens
    /\ UNCHANGED <<wiringVars, phase, end, hooks, started, startCtx, runtimeVars,
                   used, cache, alive>>
ConstructorFails(m, left) ==
    /\ Wanted(m)
    /\ NewFails
    /\ open' = open \cup left
    /\ UNCHANGED <<wiringVars, built, hooks, started, startCtx, runtimeVars, used,
                   cache, alive>>

(* zap's Build.                                                             *)
NewLogger == Constructed("logger") \/ ConstructorFails("logger", {})
(* Key pair, interceptor, dialling the server.                              *)
NewClient == Constructed("temporal") \/ ConstructorFails("temporal", {})
(* TLS and SASL settings; NewConsumer cannot fail.                          *)
NewProducer == Constructed("kafka") \/ ConstructorFails("kafka", {})
(* The sql.DB was opened for the configuration before gorm looks at it.     *)
NewDB == Constructed("gormfx") \/ ConstructorFails("gormfx", {"db"})
(* What only stands for a function of the application.                      *)
Parameters == \E m \in {"worker", "routes", "jobOnStop", "jobOnStart", "jobOnStartStop"} :
                Constructed(m)

(* registerLifecycleHooks of the next module, or the application's own      *)
(* function.                                                                *)
AppendHook ==
    /\ phase = "building"
    /\ hooks < Len(mods)
    /\ mods[hooks + 1] \in built
    /\ hooks' = hooks + 1
    /\ phase' = IF hooks' = Len(mods) THEN "starting" ELSE "building"
    /\ UNCHANGED <<wiringVars, end, built, started, startCtx, open, runtimeVars,
                   used, cache, alive>>

(* registerRoutes exits the process when the schema cannot be migrated.     *)
MigrationFails ==
    /\ phase = "building"
    /\ hooks < Len(mods)
    /\ mods[hooks + 1] = "routes"
    /\ registerRoutes.needs \subseteq built
    /\ phase' = "over"
    /\ end' = "exit"
    /\ apps' = MaxApps
    /\ UNCHANGED <<mods, cfg, built, hooks, started, startCtx, open, runtimeVars,
                   used, cache, alive>>

----------------------------------------------------------------------------
(* The next start hook.  registerWorker's starts the Temporal worker and a  *)
(* goroutine for the consumer, and so the consumer's context is the one of  *)
(* the start.                                                               *)
StartHook ==
    /\ phase = "starting"
    /\ startCtx
    /\ started < hooks
    /\ started' = started + 1
    /\ open' = open \cup Module[mods[started']].starts
    /\ loop' = IF mods[started'] = "worker" THEN "spawned" ELSE loop
    /\ phase' = IF started' = Len(mods) THEN "running" ELSE "starting"
    /\ UNCHANGED <<wiringVars, end, built, hooks, startCtx, listener, requests,
                   late, used, cache, alive>>

MayFail == {"worker", "jobOnStart", "jobOnStartStop"}

(* A start function fails; fx stops the hooks it has started, this one not  *)
(* among them.                                                              *)
StartHookFails ==
    /\ phase = "starting"
    /\ startCtx
    /\ started < hooks
    /\ mods[started + 1] \in MayFail
    /\ IF started = 0
         THEN phase' = "over" /\ end' = "rolledBack"
         ELSE phase' = "rollback" /\ UNCHANGED end
    /\ UNCHANGED <<wiringVars, built, hooks, started, startCtx, open,
                   runtimeVars, used, cache, alive>>

(* The start timeout passes, at the latest fifteen seconds after the start  *)
(* began, also of an application that has long been running.                *)
StartTimesOut ==
    /\ phase \notin {"none", "building"}
    /\ startCtx
    /\ startCtx' = FALSE
    /\ IF phase \in {"starting", "rollback"}
         THEN phase' = "over" /\ end' = "timeout"
         ELSE UNCHANGED <<phase, end>>
    /\ UNCHANGED <<wiringVars, built, hooks, started, open, runtimeVars, used,
                   cache, alive>>

----------------------------------------------------------------------------
(* The application is told to stop.                                         *)
Stop ==
    /\ phase = "running"
    /\ phase' = "stopping"
    /\ UNCHANGED <<wiringVars, end, built, hooks, started, startCtx, open,
                   runtimeVars, used, cache, alive>>

Stopping == phase \in {"stopping", "rollback"}

(* e.Shutdown closes the listener first.                                    *)
Drain ==
    /\ Stopping
    /\ started > 0
    /\ mods[started] = "routes"
    /\ listener # "closed"
    /\ listener' = "closed"
    /\ UNCHANGED <<wiringVars, phase, end, built, hooks, started, startCtx, open,
                   requests, loop, late, used, cache, alive>>

(* The provider a hook shuts down; its cache and the others are not told.   *)
ShutdownMeterProvider(a)  == [a EXCEPT !["meter"]  = @ \ {used["meter"]}]
ShutdownTracerProvider(a) == [a EXCEPT !["tracer"] = @ \ {used["tracer"]}]
ShutdownLoggerProvider(a) == [a EXCEPT !["logs"]   = @ \ {cache["logs"]}]

(* Mutant: a hook returns after the first thing it closes, as it would if   *)
(* closing the reader failed before the worker was stopped.                 *)
StopHookFirstOnly(m) ==
    LET closed == IF Cardinality(Module[m].closes) > 1
                    THEN {"reader"} ELSE Module[m].closes IN
    /\ open' = open \ closed
    /\ alive' = IF m = "tracing"
                  THEN ShutdownMeterProvider(ShutdownTracerProvider(alive))
                  ELSE alive

(* Mutant: Close leaves the readers open.                                   *)
StopHookKeepsReaders(m) ==
    /\ open' = open \ (Module[m].closes \ {"reader"})
    /\ alive' = IF m = "tracing"
                  THEN ShutdownMeterProvider(ShutdownTracerProvider(alive))
                  ELSE alive

(* The stop hook of m.  tracing's shuts both providers down, whatever the   *)
(* first shutdown returned.  An error does not keep fx from the next hook.  *)
OnStopHook(m) ==
    /\ open' = open \ Module[m].closes
    /\ alive' = IF m = "tracing"
                  THEN ShutdownMeterProvider(ShutdownTracerProvider(alive))
                  ELSE alive

(* What the hooks come to in the end.                                       *)
Ended == IF phase = "rollback" THEN "rolledBack" ELSE "clean"

(* Mutant: the server is closed under its requests when they take long.     *)
StopHookImpatient ==
    /\ Stopping
    /\ started > 0
    /\ mods[started] = "routes" => listener = "closed"
    /\ OnStopHook(mods[started])
    /\ started' = started - 1
    /\ IF started' = 0
         THEN phase' = "over" /\ end' = Ended
         ELSE UNCHANGED <<phase, end>>
    /\ UNCHANGED <<wiringVars, built, hooks, startCtx, runtimeVars, used, cache>>

StopHook ==
    /\ Stopping
    /\ started > 0
    /\ mods[started] = "routes" => listener = "closed" /\ requests = 0
    /\ OnStopHook(mods[started])
    /\ started' = started - 1
    /\ IF started' = 0
         THEN phase' = "over" /\ end' = Ended
         ELSE UNCHANGED <<phase, end>>
    /\ UNCHANGED <<wiringVars, built, hooks, startCtx, runtimeVars, used, cache>>

(* Mutant: the server's shutdown does not watch its context.                *)
StopTimesOutWhenIdle ==
    /\ phase = "stopping"
    /\ requests = 0
    /\ phase' = "over"
    /\ end' = "timeout"
    /\ UNCHANGED <<wiringVars, built, hooks, started, startCtx, open, runtimeVars,
                   used, cache, alive>>

(* The stop timeout passes: e.Shutdown returns with its requests still      *)
(* running, and fx runs no further hook.                                    *)
StopTimesOut ==
    /\ phase = "stopping"
    /\ phase' = "over"
    /\ end' = "timeout"
    /\ UNCHANGED <<wiringVars, built, hooks, started, startCtx, open, runtimeVars,
                   used, cache, alive>>

----------------------------------------------------------------------------
(* The goroutines of the hooks.  e.Start may come to listen at any time     *)
(* before the shutdown, or never: an error is only logged.                  *)
Listen ==
    /\ "server" \in open
    /\ listener = "none"
    /\ listener' = "listening"
    /\ UNCHANGED <<wiringVars, phase, end, built, hooks, started, startCtx, open,
                   requests, loop, late, used, cache, alive>>

Request ==
    /\ listener = "listening"
    /\ requests < MaxRequests
    /\ requests' = requests + 1
    /\ UNCHANGED <<wiringVars, phase, end, built, hooks, started, startCtx, open,
                   listener, loop, late, used, cache, alive>>

Respond ==
    /\ requests > 0
    /\ requests' = requests - 1
    /\ UNCHANGED <<wiringVars, phase, end, built, hooks, started, startCtx, open,
                   listener, loop, late, used, cache, alive>>

(* Subscribe opens its reader whenever the goroutine gets to run, also when *)
(* no Close is left to run.                                                 *)
CloseAhead == \E i \in 1..started : "reader" \in Module[mods[i]].closes
Subscribe ==
    /\ loop = "spawned"
    /\ late' = ~CloseAhead
    /\ loop' = "consuming"
    /\ open' = open \cup {"reader"}
    /\ UNCHANGED <<wiringVars, phase, end, built, hooks, started, startCtx,
                   listener, requests, used, cache, alive>>

(* consumeTopic: take a message, handle it, and end when the context is     *)
(* done or the reader closed.                                               *)
Consume ==
    /\ \/ loop = "consuming" /\ startCtx /\ loop' = "handling"
       \/ loop = "handling" /\ loop' = "consuming"
       \/ loop = "consuming" /\ (~startCtx \/ "reader" \notin open) /\ loop' = "ended"
    /\ UNCHANGED <<wiringVars, phase, end, built, hooks, started, startCtx, open,
                   listener, requests, late, used, cache, alive>>

(* The application exports its logs as well: no module does it for it, and  *)
(* no hook shuts the provider down.                                         *)
ExportLogs ==
    /\ phase = "running"
    /\ \E lp \in GetLoggerProvider :
         Keep(IF lp = Error THEN <<>> ELSE [logs |-> lp])
    /\ UNCHANGED <<wiringVars, phase, end, built, hooks, started, startCtx, open,
                   runtimeVars, used>>

StopLogs ==
    /\ phase \in {"running", "stopping"}
    /\ alive' = ShutdownLoggerProvider(alive)
    /\ UNCHANGED <<wiringVars, phase, end, built, hooks, started, startCtx, open,
                   runtimeVars, used, cache>>

----------------------------------------------------------------------------
Construct == newTracingModule \/ NewLogger \/ NewClient \/ NewProducer \/ NewDB
             \/ Parameters \/ AppendHook
Advance == Construct \/ StartHook \/ Drain \/ StopHook

Next ==
    \/ \E l \in Listings, c \in Configs : New(l, c)
    \/ Construct \/ MigrationFails
    \/ StartHook \/ StartHookFails \/ StartTimesOut
    \/ Stop \/ Drain \/ StopHook \/ StopTimesOut
    \/ Listen \/ Request \/ Respond
    \/ Subscribe \/ Consume
    \/ ExportLogs \/ StopLogs

(* fx goes on with what it has begun, and its timeouts pass.  Requests need *)
(* not end, handlers need not return, nobody has to stop an application.    *)
Fairness == WF_vars(Advance) /\ WF_vars(StartTimesOut) /\ WF_vars(StopTimesOut)

Spec == Init /\ [][Next]_vars
FairSpec == Spec /\ Fairness

----------------------------------------------------------------------------
(* A request never meets a closed database or a tracer its own application  *)
(* has stopped, also when the stop times out while requests are running.    *)
RequestsAreServed == requests > 0 => {"db", "tracing"} \subseteq open

(* Who uses what for as long as it is up.                                   *)
Uses == [worker |-> {"temporal", "tracing"}, server |-> {"db", "tracing"},
         temporal |-> {"tracing"}, db |-> {"tracing"}]

(* The hooks of these run before tracing's: always those of the functions   *)
(* the application invokes, and those of the library's own clients where    *)
(* they are listed behind tracing and have been started.                    *)
Owner == [temporal |-> "temporal", db |-> "gormfx"]
StopsBeforeTracing(u) ==
    u \in DOMAIN Owner =>
        \E i, j \in 1..started : i < j /\ mods[i] = "tracing" /\ mods[j] = Owner[u]

(* Nothing is closed while a component that uses it is up, after a start    *)
(* that failed half-way too: of a worker and a server in whatever order the *)
(* library's modules are listed, of a Temporal client and a database if     *)
(* tracing is listed before them.  The consumer's goroutine has no such     *)
(* promise: no hook waits for the message it handles.                       *)
DependentsCloseFirst ==
    [][phase # "over" =>
         \A u \in DOMAIN Uses :
            u \in open' /\ StopsBeforeTracing(u) => Uses[u] \cap open \subseteq open']_vars

(* An application that was stopped has closed everything, but for what      *)
(* fxutil.OnStart alone started and the reader of a Subscribe that came to  *)
(* run when every Close was over.  One whose start failed may besides have  *)
(* left open what was constructed for modules listed behind the one that    *)
(* failed: their hooks were not started and so are not stopped.             *)
CleanEnd ==
    LET list == {mods[i] : i \in 1..Len(mods)}
        lasting == (IF late THEN {"reader"} ELSE {})
                     \cup (IF "jobOnStart" \in list THEN {"job"} ELSE {})
        behind == {j \in 1..Len(mods) : \E i \in 1..(j - 1) : mods[i] \in MayFail}
    IN  /\ end = "clean" => open \subseteq lasting
        /\ end = "rolledBack" =>
             open \subseteq lasting \cup UNION {Module[mods[j]].opens : j \in behind}

(* A tracer that was created before the meter failed (module.go:61), or     *)
(* that its application did not stop, is not lost: it is the entry the next *)
(* application of the process takes over.  No signal has two live providers.*)
SurvivorIsCached == \A s \in Signal : \A p \in alive[s] : cache[s] = p

(* fx.New, a start and a stop come to a result, with requests that hang and *)
(* modules listed before what they need.                                    *)
PhasesEnd ==
    phase \in {"building", "starting"} \/ Stopping ~> phase \in {"running", "over"}
=============================================================================
