------------------------- MODULE LinkMonitorProofs -------------------------
(***************************************************************************)
(* Theorems about LinkMonitor for every timeout, check interval and delay  *)
(* of the timeout task.                                                    *)
(*                                                                         *)
(* The invariants bound the age of what the state says by the time of the  *)
(* last check; the guard of Tick bounds the age of that check.             *)
(***************************************************************************)
EXTENDS LinkMonitor, TLAPS

\* When the timeout task checked last; before its first check, a moment that would
\* have made that check due at the start.
LastCheck == check_due - Interval

\* The time of the next check is not missed by more than the lag.
CheckIsNear == now <= check_due + MaxLag

\* NOMINAL was not yet stale at the last check.
FreshAtCheck ==
    sm.state = "NOMINAL" =>
        sm.last_packet_time # NoTime /\ LastCheck - sm.last_packet_time <= LostTimeout

\* A link found deserted by the last check is LOST until a packet or a client comes.
LostAtCheck ==
    /\ sm.disconnected_since # NoTime
    /\ LastCheck - sm.disconnected_since > LostTimeout
    /\ sm.last_packet_time = NoTime \/ sm.last_packet_time < LastCheck
    => sm.state = "LOST"

IInv ==
    /\ TypeOK
    /\ CheckIsNear
    /\ FreshAtCheck
    /\ LostAtCheck
    /\ LostIsJustified
    /\ TimerMeansNobody
-----------------------------------------------------------------------------
Time(n) == 0..n \cup {NoTime}

Machines(n) == [state : States, last_packet_time : Time(n),
                disconnected_since : Time(n), client_count : Nat]

\* The state machine's methods, field by field.
LEMMA ConnectedFacts ==
    ASSUME NEW n \in Nat, NEW m \in Machines(n), NEW c, c = ClientConnected(m)
    PROVE  /\ c \in Machines(n)
           /\ c.state = IF m.state \in {"BOOT", "LOST"} THEN "CONNECTING" ELSE m.state
           /\ c.last_packet_time = m.last_packet_time
           /\ c.disconnected_since = NoTime
           /\ c.client_count = m.client_count + 1
  <1>1. /\ m.state \in States /\ m.last_packet_time \in Time(n)
        /\ m.disconnected_since \in Time(n) /\ m.client_count \in Nat
    BY DEF Machines
  <1>2. NoTime \in Time(n) /\ n \in Time(n)
    BY DEF Time
  <1>3. c = [state |-> IF m.state \in {"BOOT", "LOST"} THEN "CONNECTING" ELSE m.state,
             last_packet_time |-> m.last_packet_time,
             disconnected_since |-> NoTime, client_count |-> m.client_count + 1]
    BY DEF ClientConnected, Machines
  <1> QED BY <1>1, <1>2, <1>3 DEF Machines, States

\* The timer for missing clients is armed, kept or left off; the rest is the count.
LEMMA DisconnectedFacts ==
    ASSUME NEW n \in Nat, NEW m \in Machines(n), NEW total \in Nat,
           NEW d, d = ClientDisconnected(m, total, n)
    PROVE  /\ d \in Machines(n)
           /\ d.state = m.state
           /\ d.last_packet_time = m.last_packet_time
           /\ d.disconnected_since = IF total = 0 /\ m.disconnected_since = NoTime
                                     THEN n ELSE m.disconnected_since
           /\ d.client_count = total
  <1>1. /\ m.state \in States /\ m.last_packet_time \in Time(n)
        /\ m.disconnected_since \in Time(n) /\ m.client_count \in Nat
    BY DEF Machines
  <1>2. NoTime \in Time(n) /\ n \in Time(n)
    BY DEF Time
  <1>3. d = [state |-> m.state, last_packet_time |-> m.last_packet_time,
             disconnected_since |-> IF total = 0 /\ m.disconnected_since = NoTime
                                    THEN n ELSE m.disconnected_since,
             client_count |-> total]
    BY DEF ClientDisconnected, Machines
  <1> QED BY <1>1, <1>2, <1>3 DEF Machines

\* A packet makes the state NOMINAL and its time the last one.
LEMMA PacketFacts ==
    ASSUME NEW n \in Nat, NEW m \in Machines(n), NEW p, p = PacketReceived(m, n)
    PROVE  /\ p \in Machines(n)
           /\ p.state = "NOMINAL"
           /\ p.last_packet_time = n
           /\ p.disconnected_since = m.disconnected_since
           /\ p.client_count = m.client_count
  <1>1. /\ m.state \in States /\ m.last_packet_time \in Time(n)
        /\ m.disconnected_since \in Time(n) /\ m.client_count \in Nat
    BY DEF Machines
  <1>2. NoTime \in Time(n) /\ n \in Time(n)
    BY DEF Time
  <1>3. p = [state |-> "NOMINAL", last_packet_time |-> n,
             disconnected_since |-> m.disconnected_since, client_count |-> m.client_count]
    BY DEF PacketReceived, Machines
  <1> QED BY <1>1, <1>2, <1>3 DEF Machines, States

\* A check touches the state only.
LEMMA TimeoutFacts ==
    ASSUME NEW n \in Nat, NEW m \in Machines(n), NEW t, t = TimeoutChecked(m, n)
    PROVE  /\ t \in Machines(n)
           /\ t.state = IF Expired(m.disconnected_since, n) \/ Expired(m.last_packet_time, n)
                        THEN "LOST" ELSE m.state
           /\ t.last_packet_time = m.last_packet_time
           /\ t.disconnected_since = m.disconnected_since
           /\ t.client_count = m.client_count
  BY DEF Machines, Time, States, TimeoutChecked

\* The strengthened invariant holds initially.
LEMMA InitInv == Init => IInv
  BY TimeAssumption
  DEF Init, IInv, TypeOK, CheckIsNear, FreshAtCheck, LostAtCheck, LostIsJustified,
      TimerMeansNobody, Fresh, States, NoTime, LastCheck

\* Every step keeps the strengthened invariant.
LEMMA InvStep == IInv /\ [Next]_vars => IInv'
  <1> SUFFICES ASSUME IInv, [Next]_vars PROVE IInv'
    OBVIOUS
  <1> USE TimeAssumption
  <1>0. /\ now \in Nat /\ check_due \in 0..(now + Interval)
        /\ sm \in Machines(now)
        /\ handlers \in 0..MaxDisplays /\ displays \in 0..MaxDisplays
        /\ reported \in States \cup {"None"}
    BY DEF IInv, TypeOK, Machines, Time
  <1>1. /\ sm.state \in States
        /\ sm.last_packet_time \in Time(now) /\ sm.disconnected_since \in Time(now)
        /\ sm.client_count \in Nat
        /\ \A t \in Time(now) : t = NoTime \/ t \in 0..now
    BY <1>0 DEF Machines, Time
  <1>2. displays <= handlers
    BY <1>0, <1>1 DEF IInv, TimerMeansNobody
  <1>3. ASSUME UNCHANGED vars PROVE IInv'
    BY <1>3 DEF vars, IInv, TypeOK, CheckIsNear, FreshAtCheck, LostAtCheck, LostIsJustified,
                TimerMeansNobody, LastCheck
  <1>4. CASE Tick
    BY <1>0, <1>4
    DEF Tick, IInv, TypeOK, Machines, Time, CheckIsNear, FreshAtCheck, LostAtCheck,
        LostIsJustified, TimerMeansNobody, LastCheck, Expired, NoTime
  <1>5. CASE Check
    <2>1. /\ now >= check_due /\ check_due' = now + Interval /\ now' = now
          /\ handlers' = handlers /\ displays' = displays /\ reported' = reported
          /\ sm' = TimeoutChecked(sm, now)
      BY <1>5 DEF Check
    <2>2. /\ sm' \in Machines(now)
          /\ sm'.state = IF \/ Expired(sm.disconnected_since, now)
                            \/ Expired(sm.last_packet_time, now)
                         THEN "LOST" ELSE sm.state
          /\ sm'.last_packet_time = sm.last_packet_time
          /\ sm'.disconnected_since = sm.disconnected_since
          /\ sm'.client_count = sm.client_count
      BY <1>0, <2>1, TimeoutFacts
    <2>3. TypeOK'
      BY <1>0, <2>1, <2>2 DEF TypeOK, Machines, Time
    <2>4. CheckIsNear' /\ FreshAtCheck' /\ LostAtCheck'
      BY <1>0, <1>1, <2>1, <2>2
      DEF IInv, CheckIsNear, FreshAtCheck, LostAtCheck, LastCheck, Expired, NoTime
    <2>5. LostIsJustified'
      BY <1>0, <1>1, <2>1, <2>2 DEF IInv, LostIsJustified, Expired, NoTime
    <2>6. TimerMeansNobody'
      BY <1>0, <1>1, <2>1, <2>2 DEF IInv, TimerMeansNobody, NoTime
    <2> QED BY <2>3, <2>4, <2>5, <2>6 DEF IInv
  <1>6. CASE Packet
    <2>1. /\ check_due' = check_due /\ now' = now
          /\ handlers' = handlers /\ displays' = displays /\ reported' = sm'.state
          /\ sm' = PacketReceived(sm, now)
      BY <1>6 DEF Packet
    <2>2. /\ sm' \in Machines(now)
          /\ sm'.state = "NOMINAL"
          /\ sm'.last_packet_time = now
          /\ sm'.disconnected_since = sm.disconnected_since
          /\ sm'.client_count = sm.client_count
      BY <1>0, <2>1, PacketFacts
    <2>3. TypeOK'
      BY <1>0, <2>1, <2>2 DEF TypeOK, Machines, Time
    <2>4. CheckIsNear' /\ FreshAtCheck' /\ LostAtCheck'
      BY <1>0, <1>1, <2>1, <2>2
      DEF IInv, CheckIsNear, FreshAtCheck, LostAtCheck, LastCheck, Expired, NoTime
    <2>5. LostIsJustified'
      BY <1>0, <1>1, <2>1, <2>2 DEF IInv, LostIsJustified, Expired, NoTime
    <2>6. TimerMeansNobody'
      BY <1>0, <1>1, <2>1, <2>2 DEF IInv, TimerMeansNobody, NoTime
    <2> QED BY <2>3, <2>4, <2>5, <2>6 DEF IInv
  <1>7. CASE ClientConnects
    <2>1. /\ check_due' = check_due /\ now' = now /\ reported' = reported
          /\ handlers < MaxDisplays
          /\ handlers' = handlers + 1 /\ displays' = displays + 1
          /\ sm' = ClientConnected(sm)
      BY <1>7 DEF ClientConnects
    <2>2. /\ sm' \in Machines(now)
          /\ sm'.state = IF sm.state \in {"BOOT", "LOST"} THEN "CONNECTING" ELSE sm.state
          /\ sm'.last_packet_time = sm.last_packet_time
          /\ sm'.disconnected_since = NoTime
          /\ sm'.client_count = sm.client_count + 1
      BY <1>0, <2>1, ConnectedFacts
    <2>3. TypeOK'
      BY <1>0, <1>2, <2>1, <2>2 DEF TypeOK, Machines, Time
    <2>4. CheckIsNear' /\ FreshAtCheck' /\ LostAtCheck'
      BY <1>0, <1>1, <2>1, <2>2
      DEF IInv, CheckIsNear, FreshAtCheck, LostAtCheck, LastCheck, Expired, NoTime
    <2>5. LostIsJustified'
      BY <1>0, <1>1, <2>1, <2>2 DEF IInv, LostIsJustified, Expired, NoTime
    <2>6. TimerMeansNobody'
      BY <1>0, <1>1, <2>1, <2>2 DEF IInv, TimerMeansNobody, NoTime
    <2> QED BY <2>3, <2>4, <2>5, <2>6 DEF IInv
  <1>8. CASE Prune
    BY <1>0, <1>8
    DEF Prune, IInv, TypeOK, CheckIsNear, FreshAtCheck, LostAtCheck,
        LostIsJustified, TimerMeansNobody, LastCheck
  <1>9. CASE ClientLeaves
    <2>1. /\ check_due' = check_due /\ now' = now /\ reported' = reported
          /\ handlers > 0 /\ handlers' = handlers - 1
          /\ displays' \in {displays - 1, displays} \cap 0..handlers'
          /\ sm' = ClientDisconnected(sm, displays', now)
      BY <1>9 DEF ClientLeaves
    <2>2. /\ displays' \in Nat /\ displays' <= handlers'
          /\ sm' \in Machines(now)
          /\ sm'.state = sm.state
          /\ sm'.last_packet_time = sm.last_packet_time
          /\ sm'.disconnected_since = IF displays' = 0 /\ sm.disconnected_since = NoTime
                                      THEN now ELSE sm.disconnected_since
          /\ sm'.client_count = displays'
      BY <1>0, <2>1, DisconnectedFacts
    <2>3. TypeOK'
      BY <1>0, <2>1, <2>2 DEF TypeOK, Machines, Time
    <2>4. CheckIsNear' /\ FreshAtCheck' /\ LostAtCheck'
      BY <1>0, <1>1, <2>1, <2>2
      DEF IInv, CheckIsNear, FreshAtCheck, LostAtCheck, LastCheck, Expired, NoTime
    <2>5. LostIsJustified'
      BY <1>0, <1>1, <2>1, <2>2 DEF IInv, LostIsJustified, Expired, NoTime
    <2>6. TimerMeansNobody'
      BY <1>0, <1>1, <2>1, <2>2 DEF IInv, TimerMeansNobody, NoTime
    <2> QED BY <2>3, <2>4, <2>5, <2>6 DEF IInv
  <1> QED BY <1>3, <1>4, <1>5, <1>6, <1>7, <1>8, <1>9 DEF Next

\* The strengthened invariant holds in every reachable state.
LEMMA Invariance == Spec => []IInv
  BY InitInv, InvStep, PTL DEF Spec

-----------------------------------------------------------------------------
\* Types of the state machine's fields; in particular no noted time lies in the future.
THEOREM TypeCorrect == Spec => []TypeOK
  <1>1. IInv => TypeOK
    BY DEF IInv
  <1> QED BY Invariance, <1>1, PTL

\* NOMINAL is given up at most one check after the timeout, for every timeout, interval
\* and delay of the timeout task.
THEOREM NominalNeverStale == Spec => []NominalIsFresh
  <1>1. IInv => NominalIsFresh
    BY TimeAssumption
    DEF IInv, TypeOK, CheckIsNear, FreshAtCheck, LastCheck, NominalIsFresh, CheckGap, NoTime
  <1> QED BY Invariance, <1>1, PTL

\* LOST is reported only while there has been no client or no packet for the timeout.
THEOREM LostNeverUnjustified == Spec => []LostIsJustified
  <1>1. IInv => LostIsJustified
    BY DEF IInv
  <1> QED BY Invariance, <1>1, PTL

\* A link without clients and data is LOST one check after the timeout.
THEOREM DesertedBecomesLost == Spec => []DesertedIsLost
  <1>1. IInv => DesertedIsLost
    BY TimeAssumption
    DEF IInv, TypeOK, CheckIsNear, LostAtCheck, LastCheck, DesertedIsLost, CheckGap, NoTime
  <1> QED BY Invariance, <1>1, PTL

\* The state machine's count and timer agree with the clients served and the handlers
\* alive, though it is not told of pruned clients.
THEOREM TimerTracksDisplays == Spec => []TimerMeansNobody
  <1>1. IInv => TimerMeansNobody
    BY DEF IInv
  <1> QED BY Invariance, <1>1, PTL
=============================================================================
