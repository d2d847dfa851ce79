--------------------------- MODULE StartupProofs ---------------------------
(***************************************************************************)
(* Startup for any number of tickets and any sequence of restarts, with or *)
(* without Postgres: the two globals a ticket's homes hang on are on the   *)
(* same side, so a finished record always has its thread beside it.        *)
(***************************************************************************)
EXTENDS Startup, TLAPS

\* The registry and the graph are on Postgres together or in memory together.
Paired == store = saver

\* Nothing of an earlier process is in the memory of one that is down or booting.
FreshMemory ==
    boot # "serving" => /\ store = "memory" /\ saver = "memory"
                        /\ records["memory"] = {} /\ threads["memory"] = {}

StartInvariant == TypeOK /\ Paired /\ FreshMemory /\ RecordsHaveThreads

LEMMA EventCounts ==
    ASSUME TypeOK, Event
    PROVE  events' \in 0 .. MaxEvents
BY EventsAssumption DEF TypeOK, Event

LEMMA InitStart == Init => StartInvariant
<1> SUFFICES ASSUME Init PROVE StartInvariant
  OBVIOUS
<1>1. TypeOK
  <2>1. 0 \in 0 .. MaxEvents
    BY EventsAssumption
  <2>2. /\ records \in [Homes -> SUBSET Tickets] /\ threads \in [Homes -> SUBSET Tickets]
        /\ store \in Homes /\ saver \in Homes
    BY DEF Init, Homes
  <2> QED
    BY <2>1, <2>2 DEF Init, TypeOK, Homes
<1>2. Paired /\ FreshMemory /\ RecordsHaveThreads
  BY DEF Init, Paired, FreshMemory, RecordsHaveThreads, Homes
<1> QED
  BY <1>1, <1>2 DEF StartInvariant

\* Steps of the classifier and of what surrounds the orchestrator.
LEMMA AroundStep ==
    ASSUME StartInvariant,
           \/ ClassifierBoots \/ Probe \/ ClassifierStops
           \/ PostgresChanges \/ FilesChange
    PROVE  StartInvariant'
<1>1. UNCHANGED orchestratorVars
  BY DEF ClassifierBoots, Probe, ClassifierStops, PostgresChanges, FilesChange
<1>2. events' \in 0 .. MaxEvents
  BY EventCounts DEF StartInvariant, TypeOK, ClassifierBoots, Probe, ClassifierStops,
                     PostgresChanges, FilesChange
<1>3. {db, readable, model, healthy}' \subseteq BOOLEAN /\ classifier' \in {"down", "up"}
  BY DEF StartInvariant, TypeOK, ClassifierBoots, Probe, ClassifierStops,
         PostgresChanges, FilesChange, classifierVars
<1> QED
  BY <1>1, <1>2, <1>3
     DEF orchestratorVars, StartInvariant, TypeOK, Paired, FreshMemory, RecordsHaveThreads

\* Until the swap nothing is visible of a boot on Postgres.
LEMMA BootKeepsPair ==
    ASSUME StartInvariant,
           OrchestratorStarts \/ Connect \/ SaverSetup \/ StoreSetup \/ SetupFails \/ Swap
    PROVE  StartInvariant'
<1>1. /\ boot \in {"down", "connect", "saver_setup", "store_setup", "swap"}
      /\ boot' \in {"connect", "saver_setup", "store_setup", "swap", "serving"}
      /\ UNCHANGED <<db, readable, classifier, model, healthy, records, threads, events>>
  BY DEF OrchestratorStarts, Connect, SaverSetup, StoreSetup, SetupFails, Swap, classifierVars
<1>2. store = "memory" /\ saver = "memory" /\ pool = "none"
  BY <1>1 DEF StartInvariant, FreshMemory, TypeOK
<1>3. \/ UNCHANGED <<store, saver, pool>>
      \/ Swap /\ store' = "postgres" /\ saver' = "postgres" /\ pool' = "open"
  BY <1>2 DEF OrchestratorStarts, OnMemory, Connect, SaverSetup, StoreSetup, SetupFails, Swap
<1>4. Swap => boot' = "serving"
  BY DEF Swap
<1>5. TypeOK'
  BY <1>1, <1>2, <1>3 DEF StartInvariant, TypeOK, Homes, Booting
<1>6. Paired' /\ FreshMemory' /\ RecordsHaveThreads'
  BY <1>1, <1>2, <1>3, <1>4 DEF StartInvariant, Paired, FreshMemory, RecordsHaveThreads
<1> QED
  BY <1>5, <1>6 DEF StartInvariant

LEMMA FinishKeepsPair ==
    ASSUME StartInvariant, NEW t \in Tickets, Finish(t)
    PROVE  StartInvariant'
<1>1. PICK h \in Homes : h = store /\ h = saver
  BY DEF StartInvariant, Paired, TypeOK
<1>2. /\ records' = [records EXCEPT ![h] = @ \cup {t}]
      /\ threads' = [threads EXCEPT ![h] = @ \cup {t}]
      /\ UNCHANGED <<db, readable, classifier, model, healthy, boot, store, saver, pool, events>>
  BY <1>1 DEF Finish, classifierVars
<1>3. TypeOK'
  BY <1>2 DEF StartInvariant, TypeOK
<1>4. RecordsHaveThreads'
  BY <1>2 DEF StartInvariant, TypeOK, RecordsHaveThreads
<1>5. Paired' /\ FreshMemory'
  BY <1>2 DEF Finish, StartInvariant, Paired, FreshMemory
<1> QED
  BY <1>3, <1>4, <1>5 DEF StartInvariant

LEMMA StopKeepsPair ==
    ASSUME StartInvariant, OrchestratorStops
    PROVE  StartInvariant'
<1>1. /\ records' = [records EXCEPT !["memory"] = {}]
      /\ threads' = [threads EXCEPT !["memory"] = {}]
      /\ boot' = "down" /\ store' = "memory" /\ saver' = "memory" /\ pool' = "none"
      /\ UNCHANGED <<db, readable, classifier, model, healthy>>
  BY DEF OrchestratorStops, OnMemory, classifierVars
<1>2. events' \in 0 .. MaxEvents
  BY EventCounts DEF StartInvariant, OrchestratorStops
<1>3. TypeOK'
  BY <1>1, <1>2 DEF StartInvariant, TypeOK, Homes
<1>4. Paired' /\ FreshMemory' /\ RecordsHaveThreads'
  BY <1>1 DEF StartInvariant, TypeOK, Homes, Paired, FreshMemory, RecordsHaveThreads
<1> QED
  BY <1>3, <1>4 DEF StartInvariant

LEMMA StartStep == StartInvariant /\ [Next]_vars => StartInvariant'
<1> SUFFICES ASSUME StartInvariant, [Next]_vars PROVE StartInvariant'
  OBVIOUS
<1>1. CASE UNCHANGED vars
  BY <1>1 DEF vars, classifierVars, orchestratorVars, StartInvariant, TypeOK, Paired,
              FreshMemory, RecordsHaveThreads
<1>2. CASE Next
  BY <1>2, AroundStep, BootKeepsPair, FinishKeepsPair, StopKeepsPair DEF Next, BootStep
<1> QED
  BY <1>1, <1>2

\* The two globals are replaced together: the strengthened invariant.
THEOREM StartInvariance == Spec => []StartInvariant
<1>1. Init => StartInvariant
  BY InitStart
<1> QED
  BY <1>1, StartStep, PTL DEF Spec

\* Every variable keeps its type, and the pool is held for the lifespan to close
\* exactly while the checkpointer on it is in use.
THEOREM StartTypes == Spec => []TypeOK
<1>1. StartInvariant => TypeOK
  BY DEF StartInvariant
<1> QED
  BY <1>1, StartInvariance, PTL

\* No sequence of restarts leaves a finished record in a home where its thread
\* is not.
THEOREM RecordsKeepTheirThreads == Spec => []RecordsHaveThreads
<1>1. StartInvariant => RecordsHaveThreads
  BY DEF StartInvariant
<1> QED
  BY <1>1, StartInvariance, PTL

=============================================================================
