------------------------ MODULE GroundDisplaysProofs ------------------------
(***************************************************************************)
(* Theorems about GroundDisplays for every finite set of sessions: the     *)
(* list of clients has no dead or double entries, pruning is exact without *)
(* churn, and handlers, list and state machine implement the display side  *)
(* of LinkMonitor.                                                         *)
(***************************************************************************)
EXTENDS GroundDisplays, FiniteSetTheorems, SequenceTheorems, TLAPS

NoDoubles(s) == \A i, j \in 1..Len(s) : s[i] = s[j] => i = j

\* While a broadcast waits for its sends, the list keeps the targets in front as long as
\* nobody left; as long as nobody joined, it is the targets or shorter.
SendingInv ==
    sending =>
        /\ ~left => /\ Len(targets) <= Len(active)
                    /\ \A i \in 1..Len(targets) : active[i] = targets[i]
        /\ ~joined => active = targets \/ Len(active) < Len(targets)

IInv == TypeOK /\ ListedHaveHandlers /\ SendingInv
-----------------------------------------------------------------------------
\* The elements of a finite set of numbers are ranked without repetition from 1 on.
LEMMA RankFacts ==
    ASSUME NEW K, IsFiniteSet(K), K \subseteq Nat
    PROVE  /\ Cardinality(K) \in Nat
           /\ \A i \in K : Rank(i, K) \in 1..Cardinality(K)
           /\ \A i, j \in K : i < j => Rank(i, K) < Rank(j, K)
           /\ \A i, j \in K : Rank(i, K) = Rank(j, K) => i = j
           /\ \A k \in 1..Cardinality(K) : \E i \in K : Rank(i, K) = k
  <1> DEFINE Low(i) == {j \in K : j <= i}
             n == Cardinality(K)
             r == [i \in K |-> Rank(i, K)]
  <1>0. \A i \in K : i \in Nat
    OBVIOUS
  <1>1. n \in Nat
    BY FS_CardinalityType
  <1>2. ASSUME NEW i \in K
        PROVE  IsFiniteSet(Low(i)) /\ Cardinality(Low(i)) \in Nat /\ Rank(i, K) \in 1..n
    <2>1. Low(i) \subseteq K /\ i \in Low(i)
      OBVIOUS
    <2>2. IsFiniteSet(Low(i)) /\ Cardinality(Low(i)) <= n
      BY <2>1, FS_Subset
    <2>3. Cardinality(Low(i)) \in Nat /\ Cardinality(Low(i)) # 0
      BY <2>1, <2>2, FS_CardinalityType, FS_EmptySet
    <2> QED BY <1>1, <2>2, <2>3 DEF Rank
  <1>3. ASSUME NEW i \in K, NEW j \in K, i < j PROVE Rank(i, K) < Rank(j, K)
    <2>1. Low(i) \subseteq Low(j) /\ j \in Low(j) /\ j \notin Low(i)
      <3>1. i \in Nat /\ j \in Nat /\ \A k \in K : k \in Nat
        BY <1>0
      <3>2. \A k \in K : k <= i => k <= j
        BY <1>3, <3>1
      <3>3. j <= j /\ ~(j <= i)
        BY <1>3, <3>1
      <3>4. Low(i) \subseteq Low(j)
        BY <3>2
      <3>5. j \in Low(j) /\ j \notin Low(i)
        BY <3>3
      <3> QED BY <3>4, <3>5
    <2>2. IsFiniteSet(Low(j)) /\ Low(i) \in SUBSET Low(j) /\ Low(j) # Low(i)
      BY <1>2, <2>1
    <2>3. Cardinality(Low(i)) <= Cardinality(Low(j)) /\ Cardinality(Low(j)) # Cardinality(Low(i))
      BY <2>2, FS_Subset
    <2> QED BY <1>2, <2>3 DEF Rank
  <1>4. ASSUME NEW i \in K, NEW j \in K, Rank(i, K) = Rank(j, K) PROVE i = j
    <2> HIDE DEF n
    <2>3. i \in Nat /\ j \in Nat /\ Rank(i, K) \in 1..n /\ Rank(j, K) \in 1..n
      BY <1>0, <1>2
    <2>0. i \in Nat /\ j \in Nat /\ Rank(i, K) \in Nat /\ Rank(j, K) \in Nat
      BY <1>1, <2>3
    <2>1. ~(i < j)
      BY <1>3, <1>4, <2>0
    <2>2. ~(j < i)
      BY <1>3, <1>4, <2>0
    <2> QED BY <2>0, <2>1, <2>2
  <1>5. r \in Injection(K, 1..n)
    BY <1>2, <1>4 DEF Injection, IsInjective
  <1>6. IsFiniteSet(1..n) /\ Cardinality(1..n) = n
    BY <1>1, FS_Interval
  <1>7. r \in Surjection(K, 1..n)
    BY <1>5, <1>6, FS_Injection
  <1>8. \A k \in 1..n : \E i \in K : r[i] = k
    BY <1>7 DEF Surjection
  <1> QED BY <1>1, <1>2, <1>3, <1>4, <1>8

\* Taking clients off a list: which remain, how many, and that the order and the
\* absence of double entries survive.
LEMMA WithoutFacts ==
    ASSUME NEW S, NEW s \in Seq(S), NEW gone
    PROVE  /\ Without(s, gone) \in Seq(S)
           /\ Len(Without(s, gone)) \in 0..Len(s)
           /\ Range(Without(s, gone)) = Range(s) \ gone
           /\ NoDoubles(s) => NoDoubles(Without(s, gone))
           /\ Range(s) \cap gone = {} => Without(s, gone) = s
           /\ Range(s) \cap gone # {} => Len(Without(s, gone)) < Len(s)
           /\ \A c : gone = {c} /\ NoDoubles(s) => Len(Without(s, gone)) \in {Len(s) - 1, Len(s)}
  <1> DEFINE K == Kept(s, gone)
             n == Cardinality(K)
             At(k) == CHOOSE i \in K : Rank(i, K) = k
             t == Without(s, gone)
  <1>1. /\ Len(s) \in Nat /\ DOMAIN s = 1..Len(s) /\ \A i \in 1..Len(s) : s[i] \in S
    BY ElementOfSeq, LenProperties
  <1>2. /\ IsFiniteSet(1..Len(s)) /\ Cardinality(1..Len(s)) = Len(s)
        /\ K \subseteq 1..Len(s)
    <2>1. K \subseteq 1..Len(s)
      BY <1>1 DEF Kept
    <2>2. 1 \in Int /\ Len(s) \in Int /\ (IF 1 > Len(s) THEN 0 ELSE Len(s) - 1 + 1) = Len(s)
      BY <1>1
    <2> HIDE DEF K, n
    <2> QED BY <2>1, <2>2, FS_Interval
  <1>3. /\ IsFiniteSet(K) /\ n \in Nat /\ n <= Len(s) /\ K \subseteq Nat
        /\ n = Len(s) => K = 1..Len(s)
    BY <1>1, <1>2, FS_Subset, FS_CardinalityType
  <1>3a. n \in Nat /\ n <= Len(s) /\ Len(s) \in Nat
    BY <1>1, <1>3
  <1>4. \A k \in 1..n : At(k) \in K /\ Rank(At(k), K) = k
    BY <1>3, RankFacts
  <1>5. \A i \in K : Rank(i, K) \in 1..n /\ At(Rank(i, K)) = i
    <2> SUFFICES ASSUME NEW i \in K PROVE Rank(i, K) \in 1..n /\ At(Rank(i, K)) = i
      OBVIOUS
    <2>1. Rank(i, K) \in 1..n
      BY <1>3, RankFacts
    <2>2. At(Rank(i, K)) \in K /\ Rank(At(Rank(i, K)), K) = Rank(i, K)
      BY <1>4, <2>1
    <2> QED BY <1>3, <2>1, <2>2, RankFacts
  <1>6. t = [k \in 1..n |-> s[At(k)]]
    BY DEF Without
  <1>7. \A i \in K : i \in 1..Len(s) /\ s[i] \notin gone
    BY <1>1 DEF Kept
  <1>8. \A i \in 1..Len(s) : s[i] \notin gone => i \in K
    BY <1>1 DEF Kept
  <1> HIDE DEF K, n, At, t
  <1>9. t \in Seq(S) /\ Len(t) = n /\ DOMAIN t = 1..n
    <2>1. \A k \in 1..n : s[At(k)] \in S
      BY <1>1, <1>4, <1>7
    <2>2. t \in [1..n -> S]
      BY <1>6, <2>1
    <2> QED BY <1>3, <2>2, SeqDef, LenProperties
  <1>10. Range(t) = Range(s) \ gone
    <2>1. ASSUME NEW k \in 1..n PROVE t[k] \in Range(s) \ gone
      BY <1>1, <1>4, <1>6, <1>7 DEF Range
    <2>2. ASSUME NEW i \in 1..Len(s), s[i] \notin gone PROVE s[i] \in Range(t)
      <3>1. i \in K /\ Rank(i, K) \in 1..n /\ t[Rank(i, K)] = s[i]
        BY <1>5, <1>6, <1>8, <2>2
      <3> QED BY <1>9, <3>1 DEF Range
    <2> QED BY <1>1, <1>9, <2>1, <2>2 DEF Range
  <1>11. ASSUME NoDoubles(s) PROVE NoDoubles(t)
    <2> SUFFICES ASSUME NEW k \in 1..n, NEW l \in 1..n, t[k] = t[l] PROVE k = l
      BY <1>9 DEF NoDoubles
    <2>1. At(k) \in 1..Len(s) /\ At(l) \in 1..Len(s) /\ s[At(k)] = s[At(l)]
      BY <1>4, <1>6, <1>7
    <2>2. At(k) = At(l)
      BY <1>11, <2>1 DEF NoDoubles
    <2> QED BY <1>4, <2>2
  <1>12. ASSUME Range(s) \cap gone = {} PROVE t = s
    <2>1. K = 1..Len(s)
      BY <1>1, <1>2, <1>8, <1>12 DEF Range, K
    <2>2. n = Len(s)
      BY <1>2, <2>1 DEF n
    <2>3. ASSUME NEW k \in 1..n PROVE At(k) = k
      <3>1. {j \in K : j <= At(k)} = 1..At(k) /\ At(k) \in 1..Len(s)
        BY <1>1, <1>4, <2>1, <2>3
      <3>2. Cardinality(1..At(k)) = At(k)
        BY <3>1, FS_Interval
      <3> QED BY <1>4, <3>1, <3>2 DEF Rank
    <2> QED BY <1>1, <1>6, <1>9, <2>2, <2>3, SeqEqual
  <1>13. ASSUME Range(s) \cap gone # {} PROVE Len(t) < Len(s)
    <2>1. PICK i \in 1..Len(s) : s[i] \in gone
      BY <1>1, <1>13 DEF Range
    <2>2. i \notin K
      BY <1>7, <2>1
    <2>3. n # Len(s)
      BY <1>3, <2>2
    <2>4. n < Len(s)
      BY <1>3a, <2>3
    <2> QED BY <1>9, <2>4
  <1>14. ASSUME NEW c, gone = {c}, NoDoubles(s) PROVE Len(t) \in {Len(s) - 1, Len(s)}
    <2>1. CASE c \notin Range(s)
      BY <1>12, <1>14, <2>1
    <2>2. CASE c \in Range(s)
      <3>1. PICK i \in 1..Len(s) : s[i] = c
        BY <1>1, <2>2 DEF Range
      <3>2. \A j \in 1..Len(s) : j # i => s[j] \notin gone
        BY <1>14, <3>1 DEF NoDoubles
      <3>3. K = (1..Len(s)) \ {i}
        BY <1>2, <1>7, <1>8, <1>14, <3>1, <3>2 DEF K
      <3>4. n = Len(s) - 1
        BY <1>2, <3>3, FS_RemoveElement DEF n
      <3> QED BY <1>9, <3>4
    <2> QED BY <2>1, <2>2
  <1>15. Len(t) \in 0..Len(s)
    <2>1. n \in 0..Len(s)
      BY <1>3a
    <2> QED BY <1>9, <2>1
  <1> QED BY <1>9, <1>10, <1>11, <1>12, <1>13, <1>14, <1>15, Zenon DEF t
-----------------------------------------------------------------------------
Since == {NoTime, 0}

Machines == [state : States, last_packet_time : Int,
             disconnected_since : Since, client_count : Nat]

\* What arrivals and departures make of the state machine.
LEMMA MachineFacts ==
    ASSUME NEW m \in Machines, NEW total \in Nat,
           NEW c, c = ClientConnected(m), NEW d, d = ClientDisconnected(m, total, 0)
    PROVE  c \in Machines /\ d \in Machines
  <1>1. /\ m.state \in States /\ m.last_packet_time \in Int
        /\ m.disconnected_since \in Since /\ m.client_count \in Nat
    BY DEF Machines
  <1>2. NoTime \in Since /\ 0 \in Since
    BY DEF Since
  <1>3. c = [state |-> IF m.state \in {"BOOT", "LOST"} THEN "CONNECTING" ELSE m.state,
             last_packet_time |-> m.last_packet_time, disconnected_since |-> NoTime,
             client_count |-> m.client_count + 1]
    BY DEF ClientConnected, Machines
  <1>4. d = [state |-> m.state, last_packet_time |-> m.last_packet_time,
             disconnected_since |-> IF total = 0 /\ m.disconnected_since = NoTime
                                    THEN 0 ELSE m.disconnected_since,
             client_count |-> total]
    BY DEF ClientDisconnected, Machines
  <1>5. c \in Machines
    BY <1>1, <1>2, <1>3 DEF Machines, States
  <1> QED BY <1>1, <1>2, <1>4, <1>5 DEF Machines

\* A client that is appended and was not on the list leaves no double entry.
LEMMA AppendFacts ==
    ASSUME NEW S, NEW s \in Seq(S), NEW c \in S
    PROVE  /\ Append(s, c) \in Seq(S) /\ Len(Append(s, c)) = Len(s) + 1 /\ Len(s) \in Nat
           /\ \A i \in 1..Len(s) : Append(s, c)[i] = s[i]
           /\ Range(Append(s, c)) = Range(s) \cup {c}
           /\ NoDoubles(s) /\ c \notin Range(s) => NoDoubles(Append(s, c))
  <1>1. /\ Append(s, c) \in Seq(S) /\ Len(Append(s, c)) = Len(s) + 1 /\ Len(s) \in Nat
        /\ \A i \in 1..Len(s) : Append(s, c)[i] = s[i]
        /\ Append(s, c)[Len(s) + 1] = c
    BY AppendProperties, LenProperties
  <1>2. 1..Len(Append(s, c)) = 1..Len(s) \cup {Len(s) + 1}
    BY <1>1
  <1>3. DOMAIN s = 1..Len(s) /\ DOMAIN Append(s, c) = 1..Len(s) \cup {Len(s) + 1}
    BY <1>1, <1>2, LenProperties
  <1>4. Range(Append(s, c)) = Range(s) \cup {c}
    BY <1>1, <1>3 DEF Range
  <1>5. ASSUME NoDoubles(s), c \notin Range(s) PROVE NoDoubles(Append(s, c))
    <2>1. \A i \in 1..Len(s) : s[i] # c
      BY <1>3, <1>5 DEF Range
    <2> QED BY <1>1, <1>2, <1>5, <2>1 DEF NoDoubles
  <1> QED BY <1>1, <1>4, <1>5

\* At the start nobody is connected and nothing is sent.
LEMMA InitIInv == Init => IInv
  <1> SUFFICES ASSUME Init PROVE IInv
    OBVIOUS
  <1>1. active = <<>> /\ active \in Seq(Clients) /\ targets \in Seq(Clients) /\ Len(active) = 0
    BY EmptySeq DEF Init
  <1>2. sm \in Machines
    BY DEF Init, Fresh, Machines, Since, States, NoTime
  <1>3. TypeOK
    BY <1>1, <1>2 DEF Init, TypeOK, Machines, Since
  <1>4. ListedHaveHandlers
    BY <1>1 DEF ListedHaveHandlers, Range
  <1> QED BY <1>3, <1>4 DEF Init, IInv, SendingInv

\* A step that leaves the list, the broadcast and open handlers alone keeps the invariant.
LEMMA AsideStep ==
    ASSUME IInv, TypeOK',
           active' = active, targets' = targets, sending' = sending,
           joined' = joined, left' = left, Open' = Open
    PROVE  IInv'
  BY DEF IInv, ListedHaveHandlers, SendingInv

\* A client that connects is new to the list.
LEMMA ConnectStep == ASSUME IInv, NEW c \in Clients, Connect(c) PROVE IInv'
  <1>0. /\ active \in Seq(Clients) /\ NoDoubles(active) /\ Range(active) \subseteq Open
        /\ sm \in Machines /\ TypeOK /\ handler[c] = "accepting"
    BY DEF IInv, TypeOK, ListedHaveHandlers, NoDoubles, Machines, Since, Connect
  <1>1. /\ active' = Append(active, c) /\ handler' = [handler EXCEPT ![c] = "open"]
        /\ sm' = ClientConnected(sm) /\ joined' = TRUE
        /\ UNCHANGED <<link, sending, targets, result, left>>
    BY DEF Connect
  <1>2. Open' = Open \cup {c} /\ c \notin Open
    BY <1>0, <1>1 DEF Open, TypeOK
  <1>3. /\ active' \in Seq(Clients) /\ Len(active') = Len(active) + 1 /\ Len(active) \in Nat
        /\ \A i \in 1..Len(active) : active'[i] = active[i]
        /\ Range(active') = Range(active) \cup {c} /\ NoDoubles(active')
    BY <1>0, <1>1, <1>2, AppendFacts
  <1>4. sm' \in Machines
    BY <1>0, <1>1, MachineFacts
  <1>5. TypeOK'
    BY <1>0, <1>1, <1>3, <1>4 DEF TypeOK, Machines, Since
  <1>6. ListedHaveHandlers'
    BY <1>0, <1>2, <1>3 DEF ListedHaveHandlers, NoDoubles
  <1>7. SendingInv'
    <2> SUFFICES ASSUME sending, ~left
                 PROVE  /\ Len(targets) <= Len(active')
                        /\ \A i \in 1..Len(targets) : active'[i] = targets[i]
      BY <1>1 DEF SendingInv
    <2>1. /\ Len(targets) \in Nat /\ Len(targets) <= Len(active)
          /\ \A i \in 1..Len(targets) : active[i] = targets[i]
      BY <1>0, LenProperties DEF IInv, SendingInv, TypeOK
    <2> QED BY <1>3, <2>1
  <1> QED BY <1>5, <1>6, <1>7 DEF IInv

\* A handler that ends takes its client off the list, if pruning has not done so.
LEMMA ExitStep == ASSUME IInv, NEW c \in Clients, HandlerExits(c) PROVE IInv'
  <1>0. /\ active \in Seq(Clients) /\ NoDoubles(active) /\ Range(active) \subseteq Open
        /\ sm \in Machines /\ TypeOK
    BY DEF IInv, TypeOK, ListedHaveHandlers, NoDoubles, Machines, Since
  <1>1. /\ active' = Without(active, {c}) /\ handler' = [handler EXCEPT ![c] = "done"]
        /\ sm' = ClientDisconnected(sm, Len(active'), 0) /\ left' = TRUE
        /\ link' = [link EXCEPT ![c] = "down"]
        /\ UNCHANGED <<sending, targets, result, joined>>
    BY DEF HandlerExits
  <1>2. Open' = Open \ {c}
    BY <1>0, <1>1 DEF Open, TypeOK
  <1>3. /\ active' \in Seq(Clients) /\ Len(active') \in 0..Len(active)
        /\ Range(active') = Range(active) \ {c} /\ NoDoubles(active')
        /\ active' = active \/ Len(active') < Len(active)
        /\ Len(active) \in Nat /\ Len(active') \in Nat
    BY <1>0, <1>1, WithoutFacts, LenProperties
  <1>4. sm' \in Machines
    BY <1>0, <1>1, <1>3, MachineFacts
  <1>5. TypeOK'
    BY <1>0, <1>1, <1>3, <1>4 DEF TypeOK, Machines, Since
  <1>6. ListedHaveHandlers'
    BY <1>0, <1>2, <1>3 DEF ListedHaveHandlers, NoDoubles
  <1>7. SendingInv'
    <2> SUFFICES ASSUME sending, ~joined
                 PROVE  active' = targets \/ Len(active') < Len(targets)
      BY <1>1 DEF SendingInv
    <2>1. active = targets \/ Len(active) < Len(targets)
      BY DEF IInv, SendingInv
    <2>2. Len(targets) \in Nat
      BY <1>0, LenProperties DEF TypeOK
    <2> QED BY <1>3, <2>1, <2>2
  <1> QED BY <1>5, <1>6, <1>7 DEF IInv

\* A broadcast ends: its list is shorter at most.
LEMMA EndStep == IInv /\ BroadcastEnd => IInv'
  <1> SUFFICES ASSUME IInv, BroadcastEnd PROVE IInv'
    OBVIOUS
  <1>0. /\ active \in Seq(Clients) /\ NoDoubles(active) /\ Range(active) \subseteq Open /\ TypeOK
    BY DEF IInv, TypeOK, ListedHaveHandlers, NoDoubles
  <1>1. /\ active' = Without(active, Unreached) \/ active' = active
        /\ sending' = FALSE
        /\ UNCHANGED <<handler, link, sm, targets, result, joined, left>>
    BY DEF BroadcastEnd
  <1>2. /\ active' \in Seq(Clients) /\ Range(active') \subseteq Range(active) /\ NoDoubles(active')
    BY <1>0, <1>1, WithoutFacts
  <1>3. TypeOK'
    BY <1>0, <1>1, <1>2 DEF TypeOK
  <1>4. ListedHaveHandlers'
    BY <1>0, <1>1, <1>2 DEF ListedHaveHandlers, NoDoubles, Open
  <1>5. SendingInv'
    BY <1>1 DEF SendingInv
  <1> QED BY <1>3, <1>4, <1>5 DEF IInv

\* Every step keeps the invariant.
LEMMA StepIInv == IInv /\ [Next]_vars => IInv'
  <1> SUFFICES ASSUME IInv, [Next]_vars PROVE IInv'
    OBVIOUS
  <1>0. TypeOK
    BY DEF IInv
  <1>1. ASSUME NEW c \in Clients, Handshake(c) \/ AcceptFails(c) PROVE IInv'
    <2>1. TypeOK'
      BY <1>0, <1>1 DEF Handshake, AcceptFails, TypeOK
    <2>2. Open' = Open
      BY <1>0, <1>1 DEF Handshake, AcceptFails, TypeOK, Open
    <2> QED BY <1>1, <2>1, <2>2, AsideStep DEF Handshake, AcceptFails
  <1>2. ASSUME NEW c \in Clients, Drop(c) \/ SendOk(c) \/ SendFails(c) PROVE IInv'
    <2>1. TypeOK'
      BY <1>0, <1>2 DEF Drop, SendOk, SendFails, TypeOK
    <2>2. Open' = Open
      BY <1>2 DEF Drop, SendOk, SendFails, Open
    <2> QED BY <1>2, <2>1, <2>2, AsideStep DEF Drop, SendOk, SendFails
  <1>3. CASE BroadcastStart
    <2>1. TypeOK'
      BY <1>0, <1>3 DEF BroadcastStart, TypeOK
    <2>2. active' = active /\ targets' = active /\ handler' = handler
      BY <1>3 DEF BroadcastStart
    <2>3. ListedHaveHandlers'
      BY <2>2 DEF IInv, ListedHaveHandlers, Open
    <2>4. SendingInv'
      BY <1>0, <2>2, LenProperties DEF SendingInv, TypeOK
    <2> QED BY <2>1, <2>3, <2>4 DEF IInv
  <1>4. CASE UNCHANGED vars
    <2>1. TypeOK'
      BY <1>0, <1>4 DEF vars, TypeOK
    <2> QED BY <1>4, <2>1, AsideStep DEF vars, Open
  <1> QED BY <1>1, <1>2, <1>3, <1>4, ConnectStep, ExitStep, EndStep DEF Next

\* The strengthened invariant holds in every reachable state.
LEMMA IInvHolds == Spec => []IInv
  BY InitIInv, StepIInv, PTL DEF Spec
-----------------------------------------------------------------------------
\* The types, for every finite set of sessions; the client count is never negative.
THEOREM TypeCorrect == Spec => []TypeOK
  <1>1. IInv => TypeOK
    BY DEF IInv
  <1> QED BY <1>1, IInvHolds, PTL

\* Whatever handshakes fail, handlers end and broadcasts prune, every client on the list is
\* there once and has an open handler.
THEOREM NoDeadEntries == Spec => []ListedHaveHandlers
  <1>1. IInv => ListedHaveHandlers
    BY DEF IInv
  <1> QED BY <1>1, IInvHolds, PTL

\* However many clients there are: a broadcast during which nobody comes or goes takes off the
\* list exactly the clients its sends failed for, and one during which not both happen takes
\* off no other.  The results, matched by position, belong to the clients they are charged to.
THEOREM PruningIsExact == Spec => PruneIsExactWithoutChurn
  <1>1. IInv /\ [Next]_vars =>
            [sending /\ ~sending' =>
                /\ ~joined /\ ~left => Pruned = Failed
                /\ ~(joined /\ left) => Pruned \subseteq Failed]_vars
    <2> SUFFICES ASSUME IInv, Next, sending, ~sending'
                 PROVE  /\ ~joined /\ ~left => Pruned = Failed
                        /\ ~(joined /\ left) => Pruned \subseteq Failed
      BY DEF vars
    <2>1. BroadcastEnd
      BY DEF Next, Handshake, AcceptFails, Connect, Drop, HandlerExits, SendOk, SendFails,
             BroadcastStart
    <2>2. /\ active \in Seq(Clients) /\ targets \in Seq(Clients)
          /\ active' = IF LengthsMatch THEN Without(active, Unreached) ELSE active
          /\ Len(active) \in Nat /\ Len(targets) \in Nat
          /\ DOMAIN active = 1..Len(active) /\ DOMAIN targets = 1..Len(targets)
      BY <2>1, LenProperties DEF BroadcastEnd, IInv, TypeOK
    <2>3. ASSUME ~left PROVE Len(targets) <= Len(active) /\ \A i \in 1..Len(targets) : active[i] = targets[i]
      BY <2>3 DEF IInv, SendingInv
    <2>4. ASSUME ~joined PROVE active = targets \/ Len(active) < Len(targets)
      BY <2>4 DEF IInv, SendingInv
    <2>5. ASSUME active = targets PROVE Pruned = Failed
      <3>1. Unreached = Failed
        BY <2>2, <2>5 DEF Unreached, Failed, Range
      <3>2. Range(active') = Range(active) \ Failed
        BY <2>2, <2>5, <3>1, WithoutFacts DEF LengthsMatch
      <3>3. Failed \subseteq Range(active)
        BY DEF Failed
      <3> QED BY <3>2, <3>3 DEF Pruned
    <2>6. ASSUME ~joined, ~left PROVE Pruned = Failed
      BY <2>2, <2>3, <2>4, <2>5, <2>6
    <2>7. ASSUME ~(joined /\ left) PROVE Pruned \subseteq Failed
      <3>1. CASE ~LengthsMatch
        BY <2>2, <3>1 DEF Pruned
      <3>2. CASE LengthsMatch /\ ~left
        <4>1. active = targets
          BY <2>2, <2>3, <3>2, SeqEqual DEF LengthsMatch
        <4> QED BY <2>5, <4>1
      <3>3. CASE LengthsMatch /\ ~joined
        <4>1. active = targets
          BY <2>2, <2>4, <3>3 DEF LengthsMatch
        <4> QED BY <2>5, <4>1
      <3> QED BY <2>7, <3>1, <3>2, <3>3
    <2> QED BY <2>6, <2>7
  <1> QED BY <1>1, IInvHolds, PTL DEF Spec, PruneIsExactWithoutChurn
-----------------------------------------------------------------------------
\* The list is never longer than there are open handlers.
LEMMA ListFitsHandlers ==
    ASSUME IInv
    PROVE  /\ IsFiniteSet(Open) /\ Cardinality(Open) \in Nat /\ Len(active) \in Nat
           /\ Len(active) <= Cardinality(Open)
  <1>1. /\ active \in Seq(Clients) /\ NoDoubles(active) /\ Range(active) \subseteq Open
        /\ Open \subseteq Clients
    BY DEF IInv, TypeOK, ListedHaveHandlers, NoDoubles, Open
  <1>2. IsFiniteSet(Open) /\ Cardinality(Open) \in Nat
    BY <1>1, ClientsAssumption, FS_Subset, FS_CardinalityType
  <1>3. Len(active) \in Nat /\ DOMAIN active = 1..Len(active)
    BY <1>1, LenProperties
  <1>4. active \in [1..Len(active) -> Open]
    BY <1>1, <1>3, LenProperties DEF Range
  <1>5. active \in Injection(1..Len(active), Open)
    BY <1>1, <1>3, <1>4 DEF NoDoubles, Injection, IsInjective
  <1>6. Cardinality(1..Len(active)) <= Cardinality(Open)
    BY <1>2, <1>5, FS_Injection
  <1>7. Cardinality(1..Len(active)) = Len(active)
    <2>1. 1 \in Int /\ Len(active) \in Int
          /\ (IF 1 > Len(active) THEN 0 ELSE Len(active) - 1 + 1) = Len(active)
      BY <1>3
    <2> QED BY <2>1, FS_Interval
  <1> QED BY <1>2, <1>3, <1>6, <1>7

\* The same after a step.
LEMMA ListStillFits == IInv' => (Len(active) <= Cardinality(Open))'
  <1>1. IInv => Len(active) <= Cardinality(Open)
    BY ListFitsHandlers
  <1> QED BY <1>1, PTL

\* The handlers, the list and the broadcasts implement the display side of the link
\* monitor: an arrival or a departure changes count, list and state machine as it assumes,
\* pruning shortens the list and nothing else, and all other steps are stutters.
THEOREM DisplaysImplementLink == Spec => ImplementsLink
  <1>1. Init => Link!Init
    <2> SUFFICES ASSUME Init PROVE Link!Init
      OBVIOUS
    <2>1. Open = {} /\ Len(active) = 0
      BY EmptySeq DEF Init, Open
    <2>2. sm = Fresh
      BY DEF Init
    <2> QED BY <2>1, <2>2, FS_EmptySet DEF Link!Init, Link!Fresh, Fresh, Link!NoTime, NoTime
  <1>2. IInv /\ IInv' /\ [Next]_vars => [Link!Next]_(Link!vars)
    <2> SUFFICES ASSUME IInv, IInv', [Next]_vars PROVE [Link!Next]_(Link!vars)
      OBVIOUS
    <2>0. /\ IsFiniteSet(Open) /\ Cardinality(Open) \in Nat /\ Len(active) \in Nat
          /\ Len(active) <= Cardinality(Open) /\ TypeOK /\ TypeOK'
          /\ active \in Seq(Clients) /\ NoDoubles(active)
      BY ListFitsHandlers DEF IInv, TypeOK, ListedHaveHandlers, NoDoubles
    <2>1. ASSUME sm' = sm, active' = active, Open' = Open PROVE UNCHANGED Link!vars
      BY <2>1 DEF Link!vars
    <2>2. ASSUME NEW c \in Clients, Connect(c) PROVE Link!Next
      <3>1. /\ handler[c] = "accepting" /\ handler' = [handler EXCEPT ![c] = "open"]
            /\ active' = Append(active, c) /\ sm' = ClientConnected(sm)
        BY <2>2 DEF Connect
      <3>2. Open' = Open \cup {c} /\ c \notin Open /\ Open' \subseteq Clients
        BY <2>0, <3>1 DEF Open, TypeOK
      <3>3. /\ Cardinality(Open') = Cardinality(Open) + 1
            /\ Cardinality(Open') <= Cardinality(Clients) /\ Cardinality(Clients) \in Nat
        BY <2>0, <3>2, ClientsAssumption, FS_AddElement, FS_Subset, FS_CardinalityType
      <3>4. Len(active') = Len(active) + 1
        BY <2>0, <3>1, AppendFacts
      <3>5. Cardinality(Open) < Cardinality(Clients)
        BY <2>0, <3>3
      <3>6. Link!ClientConnected(sm) = ClientConnected(sm)
        BY DEF Link!ClientConnected, ClientConnected, Link!NoTime, NoTime
      <3>7. Link!ClientConnects
        BY <3>1, <3>3, <3>4, <3>5, <3>6 DEF Link!ClientConnects
      <3> QED BY <3>7 DEF Link!Next
    <2>3. ASSUME NEW c \in Clients, HandlerExits(c) PROVE Link!Next
      <3>1. /\ handler[c] = "open" /\ handler' = [handler EXCEPT ![c] = "done"]
            /\ active' = Without(active, {c}) /\ sm' = ClientDisconnected(sm, Len(active'), 0)
        BY <2>3 DEF HandlerExits
      <3>2. Open' = Open \ {c} /\ c \in Open
        BY <2>0, <3>1 DEF Open, TypeOK
      <3>3. Cardinality(Open') = Cardinality(Open) - 1
        BY <2>0, <3>2, FS_RemoveElement
      <3>4. Len(active') \in {Len(active) - 1, Len(active)} /\ Len(active') \in 0..Len(active)
        BY <2>0, <3>1, WithoutFacts
      <3>5. Len(active') <= Cardinality(Open')
        BY ListStillFits
      <3>6. Link!ClientDisconnected(sm, Len(active'), 0) = ClientDisconnected(sm, Len(active'), 0)
        BY DEF Link!ClientDisconnected, ClientDisconnected, Link!NoTime, NoTime
      <3>7. Cardinality(Open) > 0 /\ Len(active') \in 0..Cardinality(Open')
        BY <2>0, <3>3, <3>4, <3>5
      <3>8. Link!ClientLeaves
        BY <3>1, <3>3, <3>4, <3>6, <3>7 DEF Link!ClientLeaves
      <3> QED BY <3>8 DEF Link!Next
    <2>4. CASE BroadcastEnd
      <3>1. /\ active' = Without(active, Unreached) \/ active' = active
            /\ sm' = sm /\ Open' = Open
        BY <2>4 DEF BroadcastEnd, Open
      <3>2. active' = active \/ Len(active') \in 0..(Len(active) - 1)
        BY <2>0, <3>1, WithoutFacts
      <3>3. CASE Len(active') \in 0..(Len(active) - 1)
        BY <3>1, <3>3 DEF Link!Next, Link!Prune
      <3> QED BY <2>1, <3>1, <3>2, <3>3
    <2>5. ASSUME NEW c \in Clients, Handshake(c) \/ AcceptFails(c)
          PROVE  sm' = sm /\ active' = active /\ Open' = Open
      BY <2>0, <2>5 DEF Handshake, AcceptFails, Open, TypeOK
    <2>6. ASSUME NEW c \in Clients, Drop(c) \/ SendOk(c) \/ SendFails(c)
          PROVE  sm' = sm /\ active' = active /\ Open' = Open
      BY <2>6 DEF Drop, SendOk, SendFails, Open
    <2>7. CASE BroadcastStart
      BY <2>1, <2>7 DEF BroadcastStart, Open
    <2>8. CASE UNCHANGED vars
      BY <2>1, <2>8 DEF vars, Open
    <2> QED BY <2>1, <2>2, <2>3, <2>4, <2>5, <2>6, <2>7, <2>8 DEF Next
  <1> QED BY <1>1, <1>2, IInvHolds, PTL DEF Spec, ImplementsLink, Link!Spec
=============================================================================
