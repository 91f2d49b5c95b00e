--------------------------- MODULE LifespanProofs ---------------------------
(***************************************************************************)
(* Theorems about Lifespan for every missions file: the pools are shared   *)
(* and closed once, none closes under an insert, and the service starts to *)
(* serve only with every mission running.                                  *)
(***************************************************************************)
EXTENDS Lifespan, SequenceTheorems, TLAPS

Distinct(s) == \A i, j \in 1..Len(s) : s[i] = s[j] => i = j

\* Missions with a live task.
Busy == {m \in Missions : mission[m] \in {"running", "halting", "draining"}}

\* The loop stands at the entry after the loaded ones, which are the registered ones.
LoopInv ==
    /\ Registered = 1..loaded
    /\ \A m, n \in Registered : entries[m].id = entries[n].id => m = n
    /\ stage \in {"loading", "connecting"} => loaded < Len(entries)
    /\ stage \in {"starting", "serving", "stopping"} => loaded = Len(entries)
    /\ stage = "connecting" => entries[loaded + 1].dsn \notin {NoDsn} \cup Range(stores)

\* A pool is open exactly for the stores kept and the one being connected.
PoolInv ==
    /\ Distinct(stores)
    /\ \A d \in Dsns :
          pools[d] = IF \/ d \in Range(stores)
                        \/ stage = "connecting" /\ entries[loaded + 1].dsn = d
                     THEN 1 ELSE 0
    /\ stage = "down" => stores = <<>>
    /\ stage \in {"loading", "connecting", "starting", "serving", "stopping"} =>
          \A m \in Registered : entries[m].dsn \in {NoDsn} \cup Range(stores)

\* Tasks live only between start_all and the return of stop_all.
TaskInv ==
    /\ \A m \in Missions : mission[m] # "idle" => m \in Registered
    /\ Busy # {} => stage \in {"starting", "serving", "stopping"}
    /\ stage \in {"loading", "connecting"} => \A m \in Missions : mission[m] = "idle"
    /\ stage = "serving" => \A m \in Registered : mission[m] = "running"
    /\ stage = "starting" => \A m \in Registered : mission[m] \in {"idle", "running"}
    /\ insert \subseteq Busy
    /\ \A m \in insert : entries[m].dsn # NoDsn

IInv == TypeOK /\ LoopInv /\ PoolInv /\ TaskInv
-----------------------------------------------------------------------------
\* An element of a sequence, and the range of a sequence that grows or shrinks.
LEMMA SeqFacts ==
    ASSUME NEW S, NEW s \in Seq(S)
    PROVE  /\ Range(s) \subseteq S
           /\ Range(s) = {s[i] : i \in 1..Len(s)}
           /\ \A x \in S : /\ Append(s, x) \in Seq(S)
                           /\ Range(Append(s, x)) = Range(s) \cup {x}
                           /\ Distinct(s) /\ x \notin Range(s) => Distinct(Append(s, x))
           /\ s # <<>> => /\ Head(s) \in S /\ Head(s) \in Range(s)
                          /\ Tail(s) \in Seq(S)
                          /\ Distinct(s) => /\ Distinct(Tail(s))
                                            /\ Range(Tail(s)) = Range(s) \ {Head(s)}
  <1>1. Range(s) = {s[i] : i \in 1..Len(s)} /\ Range(s) \subseteq S
    BY ElementOfSeq, LenProperties DEF Range
  <1>2. ASSUME NEW x \in S
        PROVE  /\ Append(s, x) \in Seq(S)
               /\ Range(Append(s, x)) = Range(s) \cup {x}
               /\ Distinct(s) /\ x \notin Range(s) => Distinct(Append(s, x))
    <2>1. /\ Append(s, x) \in Seq(S) /\ Len(Append(s, x)) = Len(s) + 1
          /\ \A i \in 1..Len(s) : Append(s, x)[i] = s[i]
          /\ Append(s, x)[Len(s) + 1] = x
          /\ Len(s) \in Nat
      BY AppendProperties, LenProperties
    <2>2. Range(Append(s, x)) = {Append(s, x)[i] : i \in 1..(Len(s) + 1)}
      BY <2>1, LenProperties DEF Range
    <2>3. 1..(Len(s) + 1) = 1..Len(s) \cup {Len(s) + 1}
      BY <2>1
    <2>4. Range(Append(s, x)) = Range(s) \cup {x}
      BY <1>1, <2>1, <2>2, <2>3
    <2> QED BY <1>1, <2>1, <2>3, <2>4 DEF Distinct
  <1>3. ASSUME s # <<>>
        PROVE  /\ Head(s) \in S /\ Head(s) \in Range(s)
               /\ Tail(s) \in Seq(S)
               /\ Distinct(s) => /\ Distinct(Tail(s))
                                 /\ Range(Tail(s)) = Range(s) \ {Head(s)}
    <2>1. /\ Head(s) \in S /\ Head(s) = s[1]
          /\ Tail(s) \in Seq(S) /\ Len(Tail(s)) = Len(s) - 1
          /\ \A i \in 1..Len(Tail(s)) : Tail(s)[i] = s[i + 1]
          /\ Len(s) \in Nat /\ Len(s) >= 1
      BY <1>3, HeadTailProperties, EmptySeq, LenProperties
    <2>2. Range(Tail(s)) = {Tail(s)[i] : i \in 1..(Len(s) - 1)}
      BY <2>1, LenProperties DEF Range
    <2>3. Head(s) \in Range(s)
      BY <1>1, <2>1
    <2>4. ASSUME Distinct(s)
          PROVE  Distinct(Tail(s)) /\ Range(Tail(s)) = Range(s) \ {Head(s)}
      <3>1. Distinct(Tail(s))
        BY <2>1, <2>4 DEF Distinct
      <3>2. \A y \in Range(Tail(s)) : y \in Range(s) \ {Head(s)}
        BY <1>1, <2>1, <2>2, <2>4 DEF Distinct
      <3>3. ASSUME NEW y \in Range(s) \ {Head(s)} PROVE y \in Range(Tail(s))
        <4>1. PICK i \in 1..Len(s) : y = s[i]
          BY <1>1, <3>3
        <4>2. i # 1 /\ i - 1 \in 1..(Len(s) - 1) /\ (i - 1) + 1 = i
          BY <2>1, <3>3, <4>1
        <4>3. Tail(s)[i - 1] = y
          BY <2>1, <4>1, <4>2
        <4> QED BY <2>2, <4>2, <4>3
      <3> QED BY <3>1, <3>2, <3>3
    <2> QED BY <2>1, <2>3, <2>4
  <1> QED BY <1>1, <1>2, <1>3

\* Every entry of a missions file is an id and a DSN, or none.
LEMMA EntryFacts ==
    ASSUME TypeOK
    PROVE  /\ Missions = 1..Len(entries) /\ Len(entries) \in Nat \ {0}
           /\ \A m \in Missions : entries[m].dsn \in Dsns \cup {NoDsn}
  <1>1. entries \in Seq([id : Ids, dsn : Dsns \cup {NoDsn}]) /\ entries # <<>>
    BY DeploymentAssumption DEF TypeOK
  <1>2. /\ Missions = 1..Len(entries) /\ Len(entries) \in Nat
        /\ \A m \in 1..Len(entries) : entries[m] \in [id : Ids, dsn : Dsns \cup {NoDsn}]
    BY <1>1, LenProperties, ElementOfSeq DEF Missions
  <1>3. Len(entries) # 0
    BY <1>1, EmptySeq
  <1> QED BY <1>2, <1>3

\* What a successful or refused registration does to the registry.
LEMMA RegisterFacts ==
    ASSUME IInv, stage \in {"loading", "connecting"}, Register(loaded + 1)
    PROVE  \/ stage' = "aborted" /\ registered' = registered /\ loaded' = loaded
           \/ /\ loaded' = loaded + 1
              /\ loaded + 1 \in Missions
              /\ stage' = IF loaded + 1 = Len(entries) THEN "starting" ELSE "loading"
              /\ registered' \in Seq(Missions)
              /\ Range(registered') = Registered \cup {loaded + 1}
              /\ \A n \in Registered : entries[n].id # entries[loaded + 1].id
  <1>1. loaded \in 0..Len(entries) /\ loaded < Len(entries) /\ Len(entries) \in Nat
    BY EntryFacts DEF IInv, TypeOK, LoopInv
  <1>2. loaded + 1 \in Missions
    BY <1>1, EntryFacts DEF IInv
  <1>3. registered \in Seq(Missions)
    BY DEF IInv, TypeOK
  <1>4. /\ Append(registered, loaded + 1) \in Seq(Missions)
        /\ Range(Append(registered, loaded + 1)) = Registered \cup {loaded + 1}
    BY <1>2, <1>3, SeqFacts DEF Registered
  <1>5. CASE \E n \in Registered : entries[n].id = entries[loaded + 1].id
    BY <1>5 DEF Register
  <1>6. CASE ~ \E n \in Registered : entries[n].id = entries[loaded + 1].id
    BY <1>2, <1>4, <1>6 DEF Register
  <1> QED BY <1>5, <1>6

\* The strengthened invariant holds initially.
LEMMA InitInv == Init => IInv
  <1> SUFFICES ASSUME Init PROVE IInv
    OBVIOUS
  <1>1. TypeOK
    BY EmptySeq, DeploymentAssumption, LenProperties DEF Init, TypeOK, Missions
  <1>2. Registered = {} /\ Range(stores) = {}
    BY DEF Init, Registered, Range
  <1>3. LoopInv
    BY <1>1, <1>2, EntryFacts DEF Init, LoopInv
  <1>4. PoolInv
    BY <1>2 DEF Init, PoolInv, Distinct
  <1>5. TaskInv
    BY DEF Init, TaskInv, Busy, Missions
  <1> QED BY <1>1, <1>3, <1>4, <1>5 DEF IInv

\* Every step keeps the types.
LEMMA TypeStep == IInv /\ [Next]_vars => TypeOK'
  <1> SUFFICES ASSUME IInv, [Next]_vars PROVE TypeOK'
    OBVIOUS
  <1> USE DEF IInv, TypeOK, Missions
  <1>1. CASE LoadKnown
    BY <1>1, RegisterFacts, EntryFacts DEF LoadKnown
  <1>2. CASE Connect
    BY <1>2, EntryFacts DEF Connect, LoopInv
  <1>3. CASE Connected
    BY <1>3, RegisterFacts, EntryFacts, SeqFacts DEF Connected, LoopInv
  <1>4. CASE ConnectFails
    BY <1>4, EntryFacts DEF ConnectFails, LoopInv, PoolInv
  <1>5. CASE CloseStore
    BY <1>5, SeqFacts DEF CloseStore, PoolInv
  <1>6. CASE \/ Serve \/ Shutdown \/ AllStopped \/ CloseRaises \/ Down \/ UNCHANGED vars
    BY <1>6 DEF Serve, Shutdown, AllStopped, CloseRaises, Down, vars
  <1>7. ASSUME NEW m \in Missions,
               Start(m) \/ InsertBegins(m) \/ InsertEnds(m) \/ InsertUnwinds(m)
                 \/ Halt(m) \/ CancelDrains(m) \/ Stopped(m)
        PROVE  TypeOK'
    BY <1>7 DEF Start, InsertBegins, InsertEnds, InsertUnwinds, Halt, CancelDrains, Stopped
  <1> QED BY <1>1, <1>2, <1>3, <1>4, <1>5, <1>6, <1>7 DEF Next

\* Every step keeps the registered entries those before the loop's place, under distinct ids.
LEMMA LoopStep == IInv /\ [Next]_vars => LoopInv'
  <1> SUFFICES ASSUME IInv, [Next]_vars PROVE LoopInv'
    OBVIOUS
  <1> USE DEF LoopInv
  <1>0. loaded \in 0..Len(entries) /\ Len(entries) \in Nat
    BY EntryFacts DEF IInv, TypeOK
  <1>1. ASSUME stage \in {"loading", "connecting"}, Register(loaded + 1), entries' = entries
        PROVE  LoopInv'
    <2>1. CASE stage' = "aborted" /\ registered' = registered /\ loaded' = loaded
      BY <1>1, <2>1 DEF IInv, Registered
    <2>2. CASE /\ loaded' = loaded + 1
               /\ stage' = IF loaded + 1 = Len(entries) THEN "starting" ELSE "loading"
               /\ Range(registered') = Registered \cup {loaded + 1}
               /\ \A n \in Registered : entries[n].id # entries[loaded + 1].id
      <3>1. Registered' = 1..loaded'
        BY <1>0, <2>2 DEF IInv, Registered
      <3>2. \A m, n \in Registered' : entries'[m].id = entries'[n].id => m = n
        BY <1>1, <2>2 DEF IInv, Registered
      <3>3. /\ stage' \in {"loading", "connecting"} => loaded' < Len(entries')
            /\ stage' \in {"starting", "serving", "stopping"} => loaded' = Len(entries')
        BY <1>0, <1>1, <2>2 DEF IInv
      <3> QED BY <2>2, <3>1, <3>2, <3>3
    <2> QED BY <1>1, <2>1, <2>2, RegisterFacts
  <1>2. CASE LoadKnown
    BY <1>1, <1>2 DEF LoadKnown
  <1>3. CASE Connected
    BY <1>1, <1>3 DEF Connected
  <1>4. CASE Connect \/ ConnectFails \/ CloseStore
    BY <1>4 DEF IInv, Connect, ConnectFails, CloseStore, Registered
  <1>5. CASE \/ Serve \/ Shutdown \/ AllStopped \/ CloseRaises \/ Down \/ UNCHANGED vars
    BY <1>5 DEF IInv, Serve, Shutdown, AllStopped, CloseRaises, Down, vars, Registered
  <1>6. ASSUME NEW m \in Missions,
               Start(m) \/ InsertBegins(m) \/ InsertEnds(m) \/ InsertUnwinds(m)
                 \/ Halt(m) \/ CancelDrains(m) \/ Stopped(m)
        PROVE  LoopInv'
    BY <1>6 DEF IInv, Registered,
                Start, InsertBegins, InsertEnds, InsertUnwinds, Halt, CancelDrains, Stopped
  <1> QED BY <1>2, <1>3, <1>4, <1>5, <1>6 DEF Next

\* Every step keeps one open pool per store.
LEMMA PoolStep == IInv /\ [Next]_vars => PoolInv'
  <1> SUFFICES ASSUME IInv, [Next]_vars PROVE PoolInv'
    OBVIOUS
  <1> USE DEF PoolInv
  <1>0. /\ stores \in Seq(Dsns) /\ pools \in [Dsns -> Nat]
        /\ loaded + 1 \in Missions \/ stage \notin {"loading", "connecting"}
        /\ \A m \in Missions : entries[m].dsn \in Dsns \cup {NoDsn}
    BY EntryFacts DEF IInv, TypeOK, LoopInv
  <1>1. CASE LoadKnown
    <2>1. /\ stage = "loading" /\ stores' = stores /\ pools' = pools /\ entries' = entries
          /\ entries[loaded + 1].dsn \in {NoDsn} \cup Range(stores)
          /\ Register(loaded + 1)
      BY <1>1 DEF LoadKnown
    <2>2. \/ stage' = "aborted"
          \/ /\ stage' \in {"loading", "starting"}
             /\ Registered' = Registered \cup {loaded + 1}
      BY <2>1, RegisterFacts DEF Registered
    <2> QED BY <2>1, <2>2 DEF IInv
  <1>2. CASE Connect
    <2> DEFINE d == entries[loaded + 1].dsn
    <2>1. /\ stage = "loading" /\ stage' = "connecting"
          /\ stores' = stores /\ entries' = entries /\ loaded' = loaded
          /\ registered' = registered
          /\ d \in Dsns /\ d \notin Range(stores)
          /\ pools' = [pools EXCEPT ![d] = pools[d] + 1]
      BY <1>0, <1>2 DEF Connect
    <2>2. pools[d] = 0
      BY <2>1 DEF IInv
    <2> QED BY <1>0, <2>1, <2>2 DEF IInv, Registered
  <1>3. CASE Connected
    <2> DEFINE d == entries[loaded + 1].dsn
    <2>1. /\ stage = "connecting" /\ stores' = Append(stores, d) /\ pools' = pools
          /\ entries' = entries /\ Register(loaded + 1)
      BY <1>3 DEF Connected
    <2>2. d \in Dsns /\ d \notin Range(stores)
      BY <1>0, <2>1 DEF IInv, LoopInv
    <2>3. Range(stores') = Range(stores) \cup {d} /\ Distinct(stores')
      BY <1>0, <2>1, <2>2, SeqFacts DEF IInv
    <2>4. \/ stage' = "aborted"
          \/ /\ stage' \in {"loading", "starting"}
             /\ Registered' = Registered \cup {loaded + 1}
      BY <2>1, RegisterFacts DEF Registered
    <2> QED BY <2>1, <2>2, <2>3, <2>4 DEF IInv
  <1>4. CASE ConnectFails
    <2> DEFINE d == entries[loaded + 1].dsn
    <2>1. /\ stage = "connecting" /\ stage' = "aborted" /\ stores' = stores
          /\ pools' = [pools EXCEPT ![d] = pools[d] - 1]
      BY <1>4 DEF ConnectFails
    <2>2. d \in Dsns /\ d \notin Range(stores) /\ pools[d] = 1
      BY <1>0, <2>1 DEF IInv, LoopInv
    <2> QED BY <1>0, <2>1, <2>2 DEF IInv
  <1>5. CASE CloseStore
    <2>1. /\ stage = "closing" /\ stage' = "closing" /\ stores # <<>>
          /\ stores' = Tail(stores)
          /\ pools' = [pools EXCEPT ![Head(stores)] = pools[Head(stores)] - 1]
      BY <1>5 DEF CloseStore
    <2>2. /\ Head(stores) \in Dsns /\ Head(stores) \in Range(stores)
          /\ Distinct(stores') /\ Range(stores') = Range(stores) \ {Head(stores)}
      BY <1>0, <2>1, SeqFacts DEF IInv
    <2>3. pools[Head(stores)] = 1
      BY <2>2 DEF IInv
    <2> QED BY <1>0, <2>1, <2>2, <2>3 DEF IInv
  <1>6. CASE \/ Serve \/ Shutdown \/ AllStopped \/ CloseRaises \/ Down \/ UNCHANGED vars
    BY <1>6 DEF IInv, Serve, Shutdown, AllStopped, CloseRaises, Down, vars, Registered
  <1>7. ASSUME NEW m \in Missions,
               Start(m) \/ InsertBegins(m) \/ InsertEnds(m) \/ InsertUnwinds(m)
                 \/ Halt(m) \/ CancelDrains(m) \/ Stopped(m)
        PROVE  PoolInv'
    BY <1>7 DEF IInv, Registered,
                Start, InsertBegins, InsertEnds, InsertUnwinds, Halt, CancelDrains, Stopped
  <1> QED BY <1>1, <1>2, <1>3, <1>4, <1>5, <1>6, <1>7 DEF Next

\* Every step keeps live tasks between start and stop.
LEMMA TaskStep == IInv /\ [Next]_vars => TaskInv'
  <1> SUFFICES ASSUME IInv, [Next]_vars PROVE TaskInv'
    OBVIOUS
  <1> USE DEF TaskInv, Busy
  <1>0. mission \in [Missions -> {"idle", "running", "halting", "draining", "stopped"}]
    BY DEF IInv, TypeOK
  <1>1. CASE LoadKnown \/ Connected
    <2>1. /\ stage \in {"loading", "connecting"} /\ Register(loaded + 1)
          /\ entries' = entries /\ mission' = mission /\ insert' = insert
      BY <1>1 DEF LoadKnown, Connected
    <2>2. Registered \subseteq Registered' /\ stage' \in {"aborted", "loading", "starting"}
      BY <2>1, RegisterFacts DEF Registered
    <2>3. \A m \in Missions : mission[m] = "idle"
      BY <2>1 DEF IInv
    <2>4. CASE stage' = "aborted" \/ stage' = "loading"
      BY <2>1, <2>2, <2>3, <2>4 DEF IInv, Missions
    <2>5. CASE stage' = "starting"
      <3>1. registered' \in Seq(Missions)
        BY <2>1, <2>5, RegisterFacts
      <3>2. Registered' \subseteq Missions
        BY <3>1, SeqFacts DEF Registered
      <3> QED BY <2>1, <2>2, <2>3, <2>5, <3>2 DEF IInv, Missions
    <2> QED BY <2>2, <2>4, <2>5
  <1>2. CASE Connect \/ ConnectFails
    BY <1>2 DEF IInv, Connect, ConnectFails, Registered, Missions
  <1>3. CASE \/ Serve \/ Shutdown \/ AllStopped \/ CloseStore \/ CloseRaises \/ Down
             \/ UNCHANGED vars
    BY <1>0, <1>3 DEF IInv, Serve, Shutdown, AllStopped, CloseStore, CloseRaises, Down, vars,
                      Registered, Missions
  <1>4. ASSUME NEW m \in Missions, Start(m) \/ Halt(m) \/ CancelDrains(m) \/ Stopped(m)
        PROVE  TaskInv'
    <2>1. /\ m \in Registered /\ stage' = stage /\ stage \in {"starting", "stopping"}
          /\ entries' = entries /\ insert' = insert /\ Registered' = Registered
          /\ Missions' = Missions
      BY <1>4 DEF IInv, Start, Halt, CancelDrains, Stopped, Registered, Missions
    <2>2. PICK s \in {"running", "halting", "draining", "stopped"} :
             /\ mission' = [mission EXCEPT ![m] = s]
             /\ stage = "starting" => s = "running"
             /\ s = "stopped" => m \notin insert
      BY <1>4 DEF Start, Halt, CancelDrains, Stopped
    <2>3. mission'[m] = s /\ \A n \in Missions \ {m} : mission'[n] = mission[n]
      BY <1>0, <2>2
    <2> QED BY <2>1, <2>2, <2>3 DEF IInv
  <1>5. ASSUME NEW m \in Missions, InsertBegins(m) \/ InsertEnds(m) \/ InsertUnwinds(m)
        PROVE  TaskInv'
    BY <1>0, <1>5 DEF IInv, InsertBegins, InsertEnds, InsertUnwinds, Registered, Missions
  <1> QED BY <1>1, <1>2, <1>3, <1>4, <1>5 DEF Next

\* The strengthened invariant holds in every reachable state.
LEMMA Invariance == Spec => []IInv
  <1>1. IInv /\ [Next]_vars => IInv'
    BY TypeStep, LoopStep, PoolStep, TaskStep DEF IInv
  <1> QED BY InitInv, <1>1, PTL DEF Spec

-----------------------------------------------------------------------------
\* Types, and with them: no pool is closed twice.
THEOREM TypeCorrect == Spec => []TypeOK
  <1>1. IInv => TypeOK
    BY DEF IInv
  <1> QED BY Invariance, <1>1, PTL

\* No pool closes while any of the missions that share it awaits an insert, however
\* many missions and databases a deployment has.
THEOREM NoInsertIntoClosedPool == Spec => []InsertsHavePool
  <1>1. IInv => InsertsHavePool
    <2> SUFFICES ASSUME IInv, NEW m \in insert PROVE pools[entries[m].dsn] = 1
      BY DEF InsertsHavePool
    <2>1. m \in Missions /\ m \in Busy /\ entries[m].dsn \in Dsns /\ m \in Registered
      BY EntryFacts DEF IInv, TaskInv, Busy
    <2>2. entries[m].dsn \in Range(stores)
      BY <2>1, DeploymentAssumption DEF IInv, TaskInv, PoolInv
    <2> QED BY <2>1, <2>2 DEF IInv, PoolInv
  <1> QED BY Invariance, <1>1, PTL

\* At most one pool per DSN, and none left after an orderly shutdown.
THEOREM OnePoolPerDatabase == Spec => []PoolsAreShared
  <1>1. IInv => PoolsAreShared
    <2> SUFFICES ASSUME IInv PROVE PoolsAreShared
      OBVIOUS
    <2>1. \A d \in Dsns : pools[d] \in {0, 1}
      BY DEF IInv, PoolInv
    <2>2. ASSUME stage = "down", NEW d \in Dsns PROVE pools[d] = 0
      <3>1. Range(stores) = {}
        BY <2>2 DEF IInv, PoolInv, Range
      <3> QED BY <2>2, <3>1 DEF IInv, PoolInv
    <2> QED BY <2>1, <2>2 DEF PoolsAreShared
  <1> QED BY Invariance, <1>1, PTL

\* The service takes requests only with every mission of the file running, under
\* distinct ids and with open stores.
THEOREM ServingIsComplete == Spec => []ServesAllMissions
  <1>1. IInv => ServesAllMissions
    <2> SUFFICES ASSUME IInv, stage = "serving" PROVE ServesAllMissions
      BY DEF ServesAllMissions
    <2>1. Registered = Missions
      BY EntryFacts DEF IInv, LoopInv
    <2>2. \A m \in Missions : entries[m].dsn # NoDsn => pools[entries[m].dsn] = 1
      BY <2>1, EntryFacts DEF IInv, PoolInv
    <2> QED BY <2>1, <2>2 DEF IInv, LoopInv, TaskInv, ServesAllMissions
  <1> QED BY Invariance, <1>1, PTL
=============================================================================
