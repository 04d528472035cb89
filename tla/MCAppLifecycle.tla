--------------------------- MODULE MCAppLifecycle ---------------------------
(* Instances of AppLifecycle for TLC: the applications of examples/, the     *)
(* worker with its modules listed in another order, and three that register *)
(* components of their own with fxutil.                                      *)
EXTENDS AppLifecycle

WorkerReordered == <<"kafka", "temporal", "logger", "tracing", "worker">>
JobService == <<"jobOnStop", "logger", "jobOnStart">>
JobWithStop == <<"tracing", "jobOnStartStop">>
JobFirst == <<"tracing", "jobOnStartStop", "gormfx">>
AllListings == {WorkerService, WorkerReordered, ApiService, JobService, JobWithStop,
                JobFirst}

(* No tracing, plain HTTP, a certificate without its key, a broken pair.    *)
Otlp(e, c, k) == [endpoint |-> e, cert |-> c, key |-> k, ca |-> "none"]
FourConfigs == {Otlp(FALSE, "none", "none"), Otlp(TRUE, "none", "none"),
                Otlp(TRUE, "bad", "none"), Otlp(TRUE, "good", "bad")}
=============================================================================
