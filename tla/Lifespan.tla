------------------------------ MODULE Lifespan ------------------------------
(***************************************************************************)
(* The life of the whole service: the missions file is turned into         *)
(* missions one by one, missions with the same DSN share one store, all    *)
(* are started, and on shutdown all are stopped before the stores close.   *)
(*                                                                         *)
(* Of a mission this module keeps how far its start or stop has come and   *)
(* whether its storage worker awaits an insert; the rest is                *)
(* MissionPipeline's.                                                      *)
(***************************************************************************)
EXTENDS Naturals, Sequences, Functions

CONSTANTS
    Ids,           \* mission ids
    Dsns,          \* database URLs
    NoDsn,         \* stands for the empty URL: no store
    Deployments    \* the missions files explored

ASSUME DeploymentAssumption ==
    /\ NoDsn \notin Dsns
    /\ Deployments \subseteq Seq([id : Ids, dsn : Dsns \cup {NoDsn}])
    /\ <<>> \notin Deployments

VARIABLES
    entries,      \* mission_configs: id and database URL of each mission
    stage,        \* how far lifespan has come
    loaded,       \* entries the start-up loop has done
    stores,       \* the keys of _stores, in order
    registered,   \* the registry: the entry registered under each id
    mission,      \* each entry's runtime
    insert,       \* entries whose storage worker awaits an insert
    pools         \* ghost: open connection pools per DSN

vars == <<entries, stage, loaded, stores, registered, mission, insert, pools>>

Missions == DOMAIN entries

Init ==
    /\ entries \in Deployments
    /\ stage = "loading"
    /\ loaded = 0
    /\ stores = <<>>
    /\ registered = <<>>
    /\ mission = [m \in DOMAIN entries |-> "idle"]
    /\ insert = {}
    /\ pools = [d \in Dsns |-> 0]

Registered == Range(registered)

\* Variant: a second mission of the same id takes the first one's place.
Register_Replaces(m) ==
    /\ registered' = Append(SelectSeq(registered, LAMBDA n : entries[n].id # entries[m].id), m)
    /\ loaded' = m
    /\ stage' = IF m = Len(entries) THEN "starting" ELSE "loading"

\* register(): a taken id raises and ends the start-up.
Register(m) ==
    IF \E n \in Registered : entries[n].id = entries[m].id
    THEN /\ stage' = "aborted"
         /\ UNCHANGED <<registered, loaded>>
    ELSE /\ registered' = Append(registered, m)
         /\ loaded' = m
         /\ stage' = IF m = Len(entries) THEN "starting" ELSE "loading"

\* Variant: the stores are listed once per mission.
LoadKnown_ListsAgain ==
    /\ stage = "loading"
    /\ LET m == loaded + 1
       IN  /\ entries[m].dsn \in {NoDsn} \cup Range(stores)
           /\ Register(m)
           /\ stores' = IF entries[m].dsn = NoDsn THEN stores ELSE Append(stores, entries[m].dsn)
    /\ UNCHANGED <<entries, mission, insert, pools>>

\* The loop's next entry needs no new store: it has no DSN or one known already.
LoadKnown ==
    /\ stage = "loading"
    /\ LET m == loaded + 1
       IN  /\ entries[m].dsn \in {NoDsn} \cup Range(stores)
           /\ Register(m)
    /\ UNCHANGED <<entries, stores, mission, insert, pools>>

\* The next entry's store is to be connected: the loop suspends.
Connect ==
    /\ stage = "loading"
    /\ entries[loaded + 1].dsn \notin {NoDsn} \cup Range(stores)
    /\ stage' = "connecting"
    /\ pools' = [pools EXCEPT ![entries[loaded + 1].dsn] = @ + 1]
    /\ UNCHANGED <<entries, loaded, stores, registered, mission, insert>>

\* Variant: the new store is handed to its mission and not remembered.
Connected_Forgets ==
    /\ stage = "connecting"
    /\ stores' = stores
    /\ Register(loaded + 1)
    /\ UNCHANGED <<entries, mission, insert, pools>>

\* The schema is applied: the store is kept under its DSN.
Connected ==
    /\ stage = "connecting"
    /\ stores' = Append(stores, entries[loaded + 1].dsn)
    /\ Register(loaded + 1)
    /\ UNCHANGED <<entries, mission, insert, pools>>

\* The database refuses or the start-up is cancelled: the new pool is closed, the
\* exception ends the start-up.
ConnectFails ==
    /\ stage = "connecting"
    /\ stage' = "aborted"
    /\ pools' = [pools EXCEPT ![entries[loaded + 1].dsn] = @ - 1]
    /\ UNCHANGED <<entries, loaded, stores, registered, mission, insert>>

\* start_all: every registered mission starts in a task of its own.
Start(m) ==
    /\ stage = "starting"
    /\ m \in Registered
    /\ mission[m] = "idle"
    /\ mission' = [mission EXCEPT ![m] = "running"]
    /\ UNCHANGED <<entries, stage, loaded, stores, registered, insert, pools>>

Serve ==
    /\ stage = "starting"
    /\ \A m \in Registered : mission[m] # "idle"
    /\ stage' = "serving"
    /\ UNCHANGED <<entries, loaded, stores, registered, mission, insert, pools>>

\* A storage worker hands an envelope to its store; its drain task lives until
\* it is cancelled.
InsertBegins(m) ==
    /\ mission[m] \in {"running", "halting"}
    /\ entries[m].dsn # NoDsn
    /\ m \notin insert
    /\ insert' = insert \cup {m}
    /\ UNCHANGED <<entries, stage, loaded, stores, registered, mission, pools>>

InsertEnds(m) ==
    /\ m \in insert
    /\ mission[m] \in {"running", "halting"}
    /\ insert' = insert \ {m}
    /\ UNCHANGED <<entries, stage, loaded, stores, registered, mission, pools>>

\* A cancelled insert ends, committed or rolled back.
InsertUnwinds(m) ==
    /\ m \in insert
    /\ mission[m] = "draining"
    /\ insert' = insert \ {m}
    /\ UNCHANGED <<entries, stage, loaded, stores, registered, mission, pools>>

Shutdown ==
    /\ stage = "serving"
    /\ stage' = "stopping"
    /\ UNCHANGED <<entries, loaded, stores, registered, mission, insert, pools>>

\* stop(), up to its gather: the run task is cancelled.
Halt(m) ==
    /\ stage = "stopping"
    /\ mission[m] = "running"
    /\ mission' = [mission EXCEPT ![m] = "halting"]
    /\ UNCHANGED <<entries, stage, loaded, stores, registered, insert, pools>>

\* Variant: the drain tasks get to finish what they are at.
CancelDrains_Waits(m) ==
    /\ stage = "stopping"
    /\ mission[m] = "halting"
    /\ m \notin insert
    /\ mission' = [mission EXCEPT ![m] = "draining"]
    /\ UNCHANGED <<entries, stage, loaded, stores, registered, insert, pools>>

\* pipeline.stop() cancels the drain tasks.
CancelDrains(m) ==
    /\ stage = "stopping"
    /\ mission[m] = "halting"
    /\ mission' = [mission EXCEPT ![m] = "draining"]
    /\ UNCHANGED <<entries, stage, loaded, stores, registered, insert, pools>>

\* Variant: the cancelled drain tasks are not awaited.
Stopped_NoGather(m) ==
    /\ stage = "stopping"
    /\ mission[m] = "draining"
    /\ mission' = [mission EXCEPT ![m] = "stopped"]
    /\ UNCHANGED <<entries, stage, loaded, stores, registered, insert, pools>>

\* The gather in pipeline.stop() returns when the drain tasks have ended.
Stopped(m) ==
    /\ stage = "stopping"
    /\ mission[m] = "draining"
    /\ m \notin insert
    /\ mission' = [mission EXCEPT ![m] = "stopped"]
    /\ UNCHANGED <<entries, stage, loaded, stores, registered, insert, pools>>

\* stop_all returns when every mission has stopped.
AllStopped ==
    /\ stage = "stopping"
    /\ \A m \in Registered : mission[m] = "stopped"
    /\ stage' = "closing"
    /\ UNCHANGED <<entries, loaded, stores, registered, mission, insert, pools>>

\* The stores are closed in the order they were opened.
CloseStore ==
    /\ stage = "closing"
    /\ stores # <<>>
    /\ stores' = Tail(stores)
    /\ pools' = [pools EXCEPT ![Head(stores)] = @ - 1]
    /\ UNCHANGED <<entries, stage, loaded, registered, mission, insert>>

\* close() raises: the stores after this one stay open.
CloseRaises ==
    /\ stage = "closing"
    /\ stores # <<>>
    /\ stage' = "aborted"
    /\ UNCHANGED <<entries, loaded, stores, registered, mission, insert, pools>>

Down ==
    /\ stage = "closing"
    /\ stores = <<>>
    /\ stage' = "down"
    /\ UNCHANGED <<entries, loaded, stores, registered, mission, insert, pools>>

Next ==
    \/ LoadKnown
    \/ Connect
    \/ Connected
    \/ ConnectFails
    \/ Serve
    \/ Shutdown
    \/ AllStopped
    \/ CloseStore
    \/ CloseRaises
    \/ Down
    \/ \E m \in Missions :
          \/ Start(m)
          \/ InsertBegins(m)
          \/ InsertEnds(m)
          \/ InsertUnwinds(m)
          \/ Halt(m)
          \/ CancelDrains(m)
          \/ Stopped(m)

Spec == Init /\ [][Next]_vars

\* Shutdown goes on, and a cancelled insert ends.  An insert that is not cancelled
\* may take for ever.
Fairness ==
    /\ WF_vars(AllStopped \/ CloseStore \/ CloseRaises \/ Down)
    /\ WF_vars(\E m \in Missions :
                    Halt(m) \/ CancelDrains(m) \/ Stopped(m) \/ InsertUnwinds(m))

FairSpec == Spec /\ Fairness
-----------------------------------------------------------------------------
\* The start-up loop, the registry, the runtimes and the pools have their types.
TypeOK ==
    /\ entries \in Deployments
    /\ stage \in {"loading", "connecting", "starting", "serving",
                  "stopping", "closing", "down", "aborted"}
    /\ loaded \in 0..Len(entries)
    /\ stores \in Seq(Dsns)
    /\ registered \in Seq(Missions)
    /\ mission \in [Missions -> {"idle", "running", "halting", "draining", "stopped"}]
    /\ insert \subseteq Missions
    /\ pools \in [Dsns -> Nat]

\* A store outlives its use: as long as any mission's storage worker awaits an insert,
\* the pool behind its store is open, although missions share stores and stop at
\* their own pace.
InsertsHavePool == \A m \in insert : pools[entries[m].dsn] = 1

\* Missions with the same DSN share one pool, and an orderly shutdown closes each.
PoolsAreShared ==
    /\ \A d \in Dsns : pools[d] <= 1
    /\ stage = "down" => \A d \in Dsns : pools[d] = 0

\* The service takes requests only when every mission of the file runs, under an id
\* of its own, with the store its DSN asks for.
ServesAllMissions ==
    stage = "serving" =>
        /\ \A m \in Missions :
              /\ mission[m] = "running"
              /\ entries[m].dsn # NoDsn => pools[entries[m].dsn] = 1
        /\ \A m, n \in Missions : entries[m].id = entries[n].id => m = n

\* Shutdown ends, whatever the storage workers are at: a hanging insert is cancelled.
ShutdownEnds == (stage = "stopping") ~> (stage \in {"down", "aborted"})
=============================================================================
