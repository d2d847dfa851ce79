------------------------------ MODULE Startup ------------------------------
(***************************************************************************)
(* How the stack comes up: the classifier API with or without its model,   *)
(* the orchestrator on Postgres or, when Postgres does not answer, on the  *)
(* in-memory registry and checkpointer, and what a sequence of restarts,   *)
(* some with Postgres and some without, leaves in the two homes of a       *)
(* ticket.  A ticket's life in the service (TicketService) is one step     *)
(* here: its record is finished and its thread stored.                     *)
(***************************************************************************)
EXTENDS Naturals

CONSTANTS
    Tickets,
    Persist,        \* ESTC_PERSIST_POSTGRES
    MaxEvents       \* bound: outages, repairs and stops of a behaviour

ASSUME PersistAssumption == Persist \in BOOLEAN
ASSUME EventsAssumption == MaxEvents \in Nat

VARIABLES
    db,             \* TRUE: Postgres answers
    readable,       \* TRUE: the model's files can be loaded
    classifier,     \* the classifier API's process
    model,          \* TRUE: get_classifier holds a model
    healthy,        \* TRUE: the last healthcheck of the classifier got a 200
    boot,           \* the orchestrator's process
    store,          \* where _store keeps the records
    saver,          \* where _active_graph keeps the threads
    pool,           \* _pg_pool
    records,        \* home -> tickets with a finished record in it
    threads,        \* home -> tickets with a thread in it
    events          \* events so far

classifierVars == <<readable, classifier, model, healthy>>
orchestratorVars == <<boot, store, saver, pool, records, threads>>
vars == <<db, classifierVars, orchestratorVars, events>>

Homes == {"memory", "postgres"}
Booting == {"connect", "saver_setup", "store_setup", "swap"}

\* Module globals: an orchestrator starts on the in-memory pair.
OnMemory == store' = "memory" /\ saver' = "memory" /\ pool' = "none"

Init == /\ db \in BOOLEAN /\ readable \in BOOLEAN
        /\ classifier = "down" /\ model = FALSE /\ healthy = FALSE
        /\ boot = "down" /\ store = "memory" /\ saver = "memory" /\ pool = "none"
        /\ records = [h \in Homes |-> {}] /\ threads = [h \in Homes |-> {}]
        /\ events = 0

Event == events < MaxEvents /\ events' = events + 1

-----------------------------------------------------------------------------
(* Classifier API *)

\* lifespan: a load that fails is logged, the service comes up without a model.
ClassifierBoots ==
    /\ classifier = "down"
    /\ classifier' = "up"
    /\ model' = readable
    /\ UNCHANGED <<db, readable, healthy, orchestratorVars, events>>

\* A mutation of Probe: the outcome of the first load is final.
ProbeOnce ==
    /\ classifier = "up"
    /\ healthy' = TRUE
    /\ UNCHANGED <<db, readable, classifier, model, orchestratorVars, events>>

\* GET /healthz calls get_classifier: lru_cache keeps a model, not an exception,
\* so a missing one is loaded now.  Either way the status is 200.
Probe ==
    /\ classifier = "up"
    /\ model' = (model \/ readable)
    /\ healthy' = TRUE
    /\ UNCHANGED <<db, readable, classifier, orchestratorVars, events>>

-----------------------------------------------------------------------------
(* Orchestrator *)

\* Compose starts it when the classifier and Postgres are healthy.
OrchestratorStarts ==
    /\ boot = "down"
    /\ healthy /\ db
    /\ boot' = IF Persist THEN "connect" ELSE "serving"
    /\ OnMemory
    /\ UNCHANGED <<db, classifierVars, records, threads, events>>

\* pool.open() does not wait for a connection.
Connect ==
    /\ boot = "connect"
    /\ boot' = "saver_setup"
    /\ UNCHANGED <<db, classifierVars, store, saver, pool, records, threads, events>>

\* saver.setup() and store.setup() create the tables.
SaverSetup ==
    /\ boot = "saver_setup" /\ db
    /\ boot' = "store_setup"
    /\ UNCHANGED <<db, classifierVars, store, saver, pool, records, threads, events>>

\* A mutation of StoreSetup: the registry goes into service as it is set up.
StoreSetupSwaps ==
    /\ boot = "store_setup"
    /\ boot' = IF db THEN "swap" ELSE "serving"
    /\ store' = "postgres"
    /\ UNCHANGED <<db, classifierVars, saver, pool, records, threads, events>>

StoreSetup ==
    /\ boot = "store_setup" /\ db
    /\ boot' = "swap"
    /\ UNCHANGED <<db, classifierVars, store, saver, pool, records, threads, events>>

\* A mutation of SetupFails: the exception leaves the lifespan.
SetupFailsBoot ==
    /\ boot \in {"saver_setup", "store_setup"}
    /\ boot' = "down"
    /\ UNCHANGED <<db, classifierVars, store, saver, pool, records, threads, events>>

\* Postgres raises in either of them: the service boots on what it has.
SetupFails ==
    /\ boot \in {"saver_setup", "store_setup"}
    /\ boot' = "serving"
    /\ UNCHANGED <<db, classifierVars, store, saver, pool, records, threads, events>>

\* A mutation of Swap: the pool is not handed on to the lifespan.
SwapNoPool ==
    /\ boot = "swap"
    /\ boot' = "serving"
    /\ store' = "postgres" /\ saver' = "postgres"
    /\ UNCHANGED <<db, classifierVars, pool, records, threads, events>>

\* _pg_pool, _store and _active_graph are replaced with no await in between.
\* build_graph only compiles what was compiled at import, and is taken not to
\* raise: one step.
Swap ==
    /\ boot = "swap"
    /\ boot' = "serving"
    /\ store' = "postgres" /\ saver' = "postgres" /\ pool' = "open"
    /\ UNCHANGED <<db, classifierVars, records, threads, events>>

\* A ticket is created, streamed and finished: the graph stores its thread in
\* saver, the registry its record in store.
Finish(t) ==
    /\ boot = "serving"
    /\ "postgres" \in {store, saver} => db
    /\ threads' = [threads EXCEPT ![saver] = @ \cup {t}]
    /\ records' = [records EXCEPT ![store] = @ \cup {t}]
    /\ UNCHANGED <<db, classifierVars, boot, store, saver, pool, events>>

\* The process ends, its memory with it, and the lifespan closes _pg_pool.
OrchestratorStops ==
    /\ boot = "serving"
    /\ Event
    /\ boot' = "down"
    /\ OnMemory
    /\ records' = [records EXCEPT !["memory"] = {}]
    /\ threads' = [threads EXCEPT !["memory"] = {}]
    /\ UNCHANGED <<db, classifierVars>>

-----------------------------------------------------------------------------
(* What happens around them *)

PostgresChanges ==
    /\ Event
    /\ db' = ~db
    /\ UNCHANGED <<classifierVars, orchestratorVars>>

FilesChange ==
    /\ Event
    /\ readable' = ~readable
    /\ UNCHANGED <<db, classifier, model, healthy, orchestratorVars>>

ClassifierStops ==
    /\ classifier = "up"
    /\ Event
    /\ classifier' = "down"
    /\ model' = FALSE /\ healthy' = FALSE
    /\ UNCHANGED <<db, readable, orchestratorVars>>

-----------------------------------------------------------------------------
BootStep == Connect \/ SaverSetup \/ StoreSetup \/ SetupFails \/ Swap

Next == \/ ClassifierBoots \/ Probe \/ ClassifierStops
        \/ OrchestratorStarts \/ BootStep \/ OrchestratorStops
        \/ \E t \in Tickets : Finish(t)
        \/ PostgresChanges \/ FilesChange

\* A process that was started goes on starting; compose probes every 10 s.
Fairness == WF_vars(BootStep) /\ WF_vars(Probe)

Spec == Init /\ [][Next]_vars /\ Fairness
-----------------------------------------------------------------------------
(* Properties *)

\* The type of every variable; the pool is held for the lifespan to close it
\* exactly while the stores on it are in use.
TypeOK ==
    /\ {db, readable, model, healthy} \subseteq BOOLEAN
    /\ classifier \in {"down", "up"}
    /\ boot \in {"down", "serving"} \cup Booting
    /\ store \in Homes /\ saver \in Homes /\ pool \in {"none", "open"}
    /\ pool = "open" <=> saver = "postgres"
    /\ records \in [Homes -> SUBSET Tickets] /\ threads \in [Homes -> SUBSET Tickets]
    /\ events \in 0 .. MaxEvents

\* Wherever a finished ticket's record is kept, its thread is kept in the same
\* place, after any sequence of starts with and without Postgres: a start that
\* falls back at whichever step leaves both globals in memory (main.py:79-84), and
\* a durable record never points at a thread that died with the process.
RecordsHaveThreads ==
    \A h \in Homes : records[h] \subseteq threads[h]

\* Whatever Postgres does during start-up, "the service still boots" (main.py:72).
Boots == boot \in Booting ~> boot = "serving"

\* A model that could not be loaded at start-up is served once it can be: no
\* failure is cached (model_loader.py:71).
ModelRecovers ==
    <>[](classifier = "up" /\ readable) => <>[]model

\* "so ... the healthcheck reflects a genuinely ready model" (classifier_api's
\* main.py:29-30): a healthy classifier has a model.
HealthyMeansReady == healthy => model
=============================================================================
