------------------------ MODULE SequenceTrackingProofs ------------------------
(***************************************************************************)
(* Theorems about SequenceTracking for every width of the counter, every   *)
(* queue length and any number of frames: what the monitor infers from the *)
(* numbers is never more than the truth but for packets that overtake      *)
(* others, and exact while frames come in order and short of HALF missing. *)
(*                                                                         *)
(* The invariant looks at all queued frames at once, because a loss before *)
(* a frame is counted only when the frame is observed.  It bounds what is  *)
(* yet to be overcounted by a rising sequence of numbers c, one per queued *)
(* frame: a sum over the queue without a recursive definition.             *)
(***************************************************************************)
EXTENDS SequenceTracking, SequenceTheorems, FiniteSetTheorems, TLAPS

Monitors == [expected_seq : SeqNums \cup {NoSeq}, lost_packets : Nat, received_packets : Nat]
Frames   == [source : Sources, seq : SeqNums, gone : Nat]

\* What observe adds to lost_packets for number n when e is expected.
Missing(e, n) ==
    LET gap == (n - e) % SeqSpace IN IF 0 < gap /\ gap < HALF THEN gap ELSE 0

\* The number the monitor will expect before the i-th queued frame.
Expected(i) ==
    IF i = 1 THEN monitor.expected_seq ELSE (queue[i - 1].seq + 1) % SeqSpace

\* Number n comes when e is expected: g numbers are gone before it and x too many will be
\* counted; or it is one that a repetition or an overtaking packet brings late.
Follows(e, n, g, x) ==
    e # NoSeq => \/ n = (e + g + x) % SeqSpace
                 \/ g = 0 /\ n \in {(e - 1) % SeqSpace, (e - 2) % SeqSpace}

\* After i more frames at most c[i] losses are counted in excess, and d by the frame that
\* is sent next.
Chain(c, d) ==
    /\ monitor.lost_packets <= lost + c[0]
    /\ swaps = 0 /\ longest < HALF => monitor.lost_packets = lost
    /\ \A i \in 1..Len(queue) :
          /\ c[i - 1] <= c[i]
          /\ Follows(Expected(i), queue[i].seq, queue[i].gone, c[i] - c[i - 1])
    /\ Expected(Len(queue) + 1) # NoSeq =>
          \A s \in used : next[s] = (Expected(Len(queue) + 1) + gone + d) % SeqSpace
    /\ \A i \in 0..Len(queue) : c[i] + d <= 2 * swaps

Counted == \E c \in [0..Len(queue) -> Nat], d \in Nat : Chain(c, d)

\* Before any number is drawn nothing is queued or expected.
Fresh == used = {} => queue = <<>> /\ monitor.expected_seq = NoSeq

IInv == TypeOK /\ Fresh /\ (OneSource => Counted)
-----------------------------------------------------------------------------
\* Arithmetic modulo the width of the counter.
LEMMA Residues ==
    ASSUME NEW a \in Int
    PROVE  /\ a % SeqSpace \in SeqNums
           /\ a \in SeqNums => a % SeqSpace = a
           /\ a \in Nat => a % SeqSpace <= a
           /\ (a + SeqSpace) % SeqSpace = a % SeqSpace
           /\ \A b \in Int : ((a % SeqSpace) + b) % SeqSpace = (a + b) % SeqSpace
           /\ \A b \in Int : (b - (a % SeqSpace)) % SeqSpace = (b - a) % SeqSpace
  <1> DEFINE N == SeqSpace
  <1>0. N \in Nat /\ N > 2 /\ SeqNums = 0..(N - 1)
    BY SequenceAssumption DEF SeqNums
  <1>1. /\ a % N \in 0..(N - 1)
        /\ a \in 0..(N - 1) => a % N = a
        /\ a \in Nat => a % N <= a
    BY <1>0
  <1>2. \A k \in Int, r \in 0..(N - 1) : (N * k + r) % N = r
    BY <1>0
  <1>3. \A c \in Int : /\ c \div N \in Int /\ c % N \in 0..(N - 1)
                       /\ c = N * (c \div N) + (c % N)
    BY <1>0
  <1>4. \A j, k \in Int : N * (j + k) = N * j + N * k /\ N * k \in Int /\ N * 1 = N
    BY <1>0
  <1>5. ASSUME NEW c \in Int, NEW k \in Int PROVE (c + N * k) % N = c % N
    <2>1. PICK q \in Int : c = N * q + (c % N)
      BY <1>3
    <2>2. /\ c % N \in 0..(N - 1) /\ N * k \in Int /\ N * q \in Int
          /\ N * (q + k) = N * q + N * k
      BY <1>3, <1>4
    <2>3. c + N * k = N * (q + k) + (c % N) /\ q + k \in Int
      BY <2>1, <2>2
    <2> QED BY <2>2, <2>3, <1>2
  <1>6. ASSUME NEW b \in Int
        PROVE  ((a % N) + b) % N = (a + b) % N /\ (b - (a % N)) % N = (b - a) % N
    <2>1. PICK q \in Int : a = N * q + (a % N)
      BY <1>3
    <2>3. PICK r \in Int : r = a % N
      BY <1>1
    <2>4. PICK p \in Int : p = N * q
      BY <1>4
    <2>5. a + b = (r + b) + p /\ b - r = (b - a) + p /\ r + b \in Int /\ b - a \in Int
      BY <2>1, <2>3, <2>4
    <2> QED BY <2>3, <2>4, <2>5, <1>5
  <1>7. (a + N) % N = a % N
    BY <1>4, <1>5
  <1> QED BY <1>0, <1>1, <1>6, <1>7

\* The number before the one after n is n.
LEMMA LateByOne ==
    ASSUME NEW n \in SeqNums
    PROVE  (((n + 1) % SeqSpace) - 1) % SeqSpace = n
  <1>1. n + 1 \in Int /\ -1 \in Int /\ (n + 1) + (-1) = n /\ n \in Int
    BY SequenceAssumption DEF SeqNums
  <1>2. (((n + 1) % SeqSpace) + (-1)) % SeqSpace = ((n + 1) + (-1)) % SeqSpace
    BY <1>1, Residues
  <1>3. PICK r \in Int : r = (n + 1) % SeqSpace
    BY <1>1, Residues, SequenceAssumption DEF SeqNums
  <1>4. r - 1 = r + (-1)
    OBVIOUS
  <1>5. n % SeqSpace = n
    BY <1>1, Residues
  <1> QED BY <1>1, <1>2, <1>3, <1>4, <1>5

\* The number two before the second one after n is n.
LEMMA LateByTwo ==
    ASSUME NEW n \in SeqNums
    PROVE  (((((n + 1) % SeqSpace) + 1) % SeqSpace) - 2) % SeqSpace = n
  <1>1. n + 1 \in Int /\ n + 2 \in Int /\ -2 \in Int /\ (n + 2) + (-2) = n /\ (n + 1) + 1 = n + 2
    BY SequenceAssumption DEF SeqNums
  <1>2. (((n + 1) % SeqSpace) + 1) % SeqSpace = (n + 2) % SeqSpace
    BY <1>1, Residues
  <1>3. (((n + 2) % SeqSpace) + (-2)) % SeqSpace = ((n + 2) + (-2)) % SeqSpace
    BY <1>1, Residues
  <1>4. PICK r \in Int : r = (n + 2) % SeqSpace
    BY <1>1, Residues, SequenceAssumption DEF SeqNums
  <1>5. r - 2 = r + (-2)
    OBVIOUS
  <1>6. n % SeqSpace = n
    BY <1>1, Residues
  <1> QED BY <1>1, <1>2, <1>3, <1>4, <1>5, <1>6

\* HALF lies below every gap that a late packet leaves.
LEMMA HalfFacts == /\ SeqSpace \in Nat /\ SeqSpace > 2
                   /\ HALF \in Nat /\ HALF >= 1 /\ HALF <= SeqSpace - 2
  BY SequenceAssumption DEF HALF

\* The loss counted for a frame is at most what is gone and the excess, and exact without
\* excess and for fewer than HALF gone.
LEMMA MissingBound ==
    ASSUME NEW e \in SeqNums, NEW n \in SeqNums, NEW g \in Nat, NEW x \in Nat,
           Follows(e, n, g, x)
    PROVE  /\ Missing(e, n) \in Nat
           /\ Missing(e, n) <= g + x
           /\ x = 0 /\ g < HALF => Missing(e, n) = g
  <1> DEFINE gap == (n - e) % SeqSpace
  <1>0. /\ SeqSpace \in Nat /\ SeqSpace > 2
        /\ HALF \in Nat /\ HALF >= 1 /\ HALF <= SeqSpace - 2
        /\ e \in 0..(SeqSpace - 1) /\ n \in 0..(SeqSpace - 1) /\ e # NoSeq
    BY HalfFacts DEF SeqNums, NoSeq
  <1>1. gap \in 0..(SeqSpace - 1)
    BY <1>0, Residues DEF SeqNums
  <1>2. CASE n = (e + g + x) % SeqSpace
    <2>1. gap = (g + x) % SeqSpace
      <3>1. e + g + x \in Int /\ 0 - e \in Int
        BY <1>0
      <3>2. (((e + g + x) % SeqSpace) + (0 - e)) % SeqSpace = ((e + g + x) + (0 - e)) % SeqSpace
        BY <3>1, Residues
      <3>3. (e + g + x) + (0 - e) = g + x /\ n + (0 - e) = n - e
        BY <1>0
      <3> QED BY <1>2, <3>2, <3>3
    <2>2. /\ gap <= g + x
          /\ g + x \in SeqNums => gap = g + x
      <3>1. g + x \in Nat /\ g + x \in Int
        OBVIOUS
      <3> QED BY <2>1, <3>1, Residues
    <2> HIDE DEF gap
    <2>3. x = 0 /\ g < HALF => gap = g
      BY <1>0, <2>2 DEF SeqNums
    <2>4. Missing(e, n) = IF 0 < gap /\ gap < HALF THEN gap ELSE 0
      BY DEF Missing, gap
    <2> QED BY <1>0, <1>1, <2>2, <2>3, <2>4
  <1>3. ASSUME NEW k \in {1, 2}, n = (e - k) % SeqSpace, g = 0
        PROVE  Missing(e, n) = 0
    <2>1. gap = (0 - k) % SeqSpace
      <3>1. e - k \in Int /\ 0 - e \in Int
        BY <1>0
      <3>2. (((e - k) % SeqSpace) + (0 - e)) % SeqSpace = ((e - k) + (0 - e)) % SeqSpace
        BY <3>1, Residues
      <3>3. (e - k) + (0 - e) = 0 - k /\ n + (0 - e) = n - e
        BY <1>0
      <3> QED BY <1>3, <3>2, <3>3
    <2>2. (0 - k) % SeqSpace = SeqSpace - k
      <3>1. 0 - k \in Int /\ (0 - k) + SeqSpace = SeqSpace - k /\ SeqSpace - k \in SeqNums
            /\ SeqSpace - k \in Int
        BY <1>0 DEF SeqNums
      <3>2. ((0 - k) + SeqSpace) % SeqSpace = (0 - k) % SeqSpace
        BY <3>1, Residues
      <3>3. (SeqSpace - k) % SeqSpace = SeqSpace - k
        BY <3>1, Residues
      <3> QED BY <3>1, <3>2, <3>3
    <2>3. ~(gap < HALF)
      BY <1>0, <2>1, <2>2
    <2> QED BY <2>3 DEF Missing
  <1>4. g = 0 /\ n \in {(e - 1) % SeqSpace, (e - 2) % SeqSpace} => Missing(e, n) = 0
    BY <1>3
  <1>5. CASE g = 0 /\ n \in {(e - 1) % SeqSpace, (e - 2) % SeqSpace}
    BY <1>4, <1>5
  <1> QED BY <1>0, <1>2, <1>5 DEF Follows

\* SequenceMonitor.observe in terms of Missing.
LEMMA ObserveFacts ==
    ASSUME NEW m \in Monitors, NEW n \in SeqNums
    PROVE  /\ Observe(m, n) \in Monitors
           /\ Observe(m, n).expected_seq = (n + 1) % SeqSpace
           /\ Observe(m, n).expected_seq \in SeqNums
           /\ Observe(m, n).lost_packets =
                m.lost_packets + IF m.expected_seq = NoSeq THEN 0 ELSE Missing(m.expected_seq, n)
  <1> DEFINE gap == (n - m.expected_seq) % SeqSpace
             missing == IF m.expected_seq # NoSeq /\ 0 < gap /\ gap < HALF THEN gap ELSE 0
  <1>0. /\ n \in Int /\ m.expected_seq \in Int /\ NoSeq = -1
        /\ m.lost_packets \in Nat /\ m.received_packets \in Nat
    BY HalfFacts DEF Monitors, SeqNums, NoSeq
  <1>1. (n + 1) % SeqSpace \in SeqNums /\ gap \in SeqNums
    <2>1. n + 1 \in Int /\ n - m.expected_seq \in Int
      BY <1>0
    <2> QED BY <2>1, Residues
  <1>2. missing \in Nat
    BY <1>1, HalfFacts DEF SeqNums
  <1>3. missing = IF m.expected_seq = NoSeq THEN 0 ELSE Missing(m.expected_seq, n)
    BY DEF Missing
  <1>4. Observe(m, n) = [expected_seq |-> (n + 1) % SeqSpace,
                         lost_packets |-> m.lost_packets + missing,
                         received_packets |-> m.received_packets + 1]
    BY DEF Observe
  <1> HIDE DEF missing
  <1>5. /\ m.lost_packets + missing \in Nat /\ m.received_packets + 1 \in Nat
        /\ (n + 1) % SeqSpace \in SeqNums \cup {NoSeq}
    BY <1>0, <1>1, <1>2
  <1>6. Observe(m, n) \in Monitors
    BY <1>4, <1>5 DEF Monitors
  <1> QED BY <1>1, <1>3, <1>4, <1>6

\* With one source, or none yet, all numbers drawn are its own.
LEMMA Singles ==
    ASSUME NEW u \in SUBSET Sources, Cardinality(u) <= 1
    PROVE  /\ \A s, t \in u : s = t
           /\ \A v \in SUBSET u : Cardinality(v) <= 1
  <1>1. IsFiniteSet(Sources)
    <2>1. IsFiniteSet({"json"})
      BY FS_Singleton
    <2>2. IsFiniteSet({"json"} \cup {"ccsds"})
      BY <2>1, FS_AddElement
    <2>3. {"json"} \cup {"ccsds"} = Sources
      BY DEF Sources
    <2> QED BY <2>2, <2>3
  <1>2. IsFiniteSet(u) /\ Cardinality(u) \in Nat
    BY <1>1, FS_Subset, FS_CardinalityType
  <1>3. \A v \in SUBSET u : Cardinality(v) \in Nat /\ Cardinality(v) <= Cardinality(u)
    BY <1>2, FS_Subset, FS_CardinalityType
  <1>4. ASSUME NEW s \in u, NEW t \in u, s # t PROVE FALSE
    <2>1. IsFiniteSet({s}) /\ Cardinality({s}) = 1
      BY FS_Singleton
    <2>2. Cardinality({s} \cup {t}) = 2
      BY <1>4, <2>1, FS_AddElement
    <2>3. {s} \cup {t} \in SUBSET u
      OBVIOUS
    <2> QED BY <1>2, <1>3, <2>2, <2>3
  <1> QED BY <1>2, <1>3, <1>4

\* Two frames put behind a queue at once, one after the other.
LEMMA AppendTwo ==
    ASSUME NEW S, NEW q \in Seq(S), NEW a \in S, NEW b \in S
    PROVE  /\ q \o <<a, b>> \in Seq(S)
           /\ Len(q \o <<a, b>>) = Len(q) + 2
           /\ \A i \in 1..Len(q) : (q \o <<a, b>>)[i] = q[i]
           /\ (q \o <<a, b>>)[Len(q) + 1] = a
           /\ (q \o <<a, b>>)[Len(q) + 2] = b
  <1>1. /\ <<a, b>> \in Seq(S) /\ Len(<<a, b>>) = 2
        /\ <<a, b>>[1] = a /\ <<a, b>>[2] = b
    OBVIOUS
  <1>2. Len(q) \in Nat
    BY LenProperties
  <1>3. /\ q \o <<a, b>> \in Seq(S)
        /\ Len(q \o <<a, b>>) = Len(q) + Len(<<a, b>>)
        /\ \A i \in 1..(Len(q) + Len(<<a, b>>)) :
              (q \o <<a, b>>)[i] = IF i <= Len(q) THEN q[i] ELSE <<a, b>>[i - Len(q)]
    BY <1>1, ConcatProperties
  <1>4. (Len(q) + 1) - Len(q) = 1 /\ (Len(q) + 2) - Len(q) = 2
    BY <1>2
  <1> QED BY <1>1, <1>2, <1>3, <1>4
-----------------------------------------------------------------------------
\* Every step keeps the types: numbers wrap around, and queueing heeds the bound.
LEMMA TypeStep == TypeOK /\ [Next]_vars => TypeOK'
  <1> SUFFICES ASSUME TypeOK, [Next]_vars PROVE TypeOK'
    OBVIOUS
  <1>0. /\ next \in [Sources -> SeqNums] /\ queue \in Seq(Frames) /\ Len(queue) \in Nat
        /\ Len(queue) <= IngestMax /\ IngestMax \in Nat /\ monitor \in Monitors
        /\ gone \in Nat /\ drawn \in 0..MaxDrawn /\ MaxDrawn \in Nat /\ lost \in Nat
        /\ longest \in Nat /\ used \subseteq Sources /\ swaps \in Nat
    BY SequenceAssumption, LenProperties DEF TypeOK, Frames, Monitors
  <1>1. \A n \in SeqNums : (n + 1) % SeqSpace \in SeqNums
    <2> SUFFICES ASSUME NEW n \in SeqNums PROVE (n + 1) % SeqSpace \in SeqNums
      OBVIOUS
    <2>1. n + 1 \in Int
      BY HalfFacts DEF SeqNums
    <2> QED BY <2>1, Residues
  <1>2. ASSUME NEW s \in Sources, Draw(s)
        PROVE  next' \in [Sources -> SeqNums] /\ drawn' \in 0..MaxDrawn /\ used' \subseteq Sources
    BY <1>0, <1>1, <1>2 DEF Draw
  <1>3. ASSUME NEW s \in Sources, Arrive(s) PROVE TypeOK'
    <2>1. CASE Len(queue) >= IngestMax
      BY <1>0, <1>2, <1>3, <2>1 DEF Arrive, TypeOK, Frames, Monitors
    <2>2. CASE ~(Len(queue) >= IngestMax)
      <3>1. Frame(s, next[s], gone) \in Frames
        BY <1>0 DEF Frame, Frames
      <3>2. queue' = Append(queue, Frame(s, next[s], gone)) /\ gone' = 0
        BY <1>3, <2>2 DEF Arrive
      <3>3. queue' \in Seq(Frames) /\ Len(queue') = Len(queue) + 1
        BY <1>0, <3>1, <3>2, AppendProperties
      <3>4. Len(queue') <= IngestMax
        BY <1>0, <2>2, <3>3
      <3> QED BY <1>0, <1>2, <1>3, <3>2, <3>3, <3>4 DEF Arrive, TypeOK, Frames, Monitors
    <2> QED BY <2>1, <2>2
  <1>4. ASSUME LostOnTheWay \/ Refused PROVE TypeOK'
    <2>1. "ccsds" \in Sources /\ "json" \in Sources
      BY DEF Sources
    <2> QED BY <1>0, <1>2, <1>4, <2>1 DEF LostOnTheWay, Refused, TypeOK, Frames, Monitors
  <1>5. ASSUME Repeated PROVE TypeOK'
    <2> DEFINE f == Frame("ccsds", LastSeq, 0)
    <2>1. LastIsPacket /\ Len(queue) < IngestMax /\ drawn < MaxDrawn /\ drawn' = drawn + 1
          /\ queue' = Append(queue, f)
          /\ UNCHANGED <<next, monitor, gone, lost, longest, used, swaps>>
      BY <1>5 DEF Repeated
    <2>2. LastSeq \in SeqNums
      <3>1. CASE queue # <<>>
        <4>1. queue[Len(queue)] \in Frames
          BY <1>0, <3>1, EmptySeq, ElementOfSeq
        <4> QED BY <3>1, <4>1 DEF LastSeq, Frames
      <3>2. CASE queue = <<>>
        <4>1. monitor.expected_seq \in SeqNums
          BY <2>1, <3>2 DEF TypeOK, LastIsPacket
        <4>2. monitor.expected_seq - 1 \in Int
          BY <4>1, SequenceAssumption DEF SeqNums
        <4> QED BY <3>2, <4>2, Residues DEF LastSeq
      <3> QED BY <3>1, <3>2
    <2>3. f \in Frames
      BY <2>2 DEF Frame, Frames, Sources
    <2> HIDE DEF f
    <2>4. queue' \in Seq(Frames) /\ Len(queue') = Len(queue) + 1
      BY <1>0, <2>1, <2>3, AppendProperties
    <2>5. Len(queue') <= IngestMax /\ drawn' \in 0..MaxDrawn
      BY <1>0, <2>1, <2>4
    <2> QED BY <1>0, <2>1, <2>4, <2>5 DEF TypeOK, Frames, Monitors
  <1>6. ASSUME Overtakes PROVE TypeOK'
    <2> DEFINE n == next["ccsds"]
               m == (n + 1) % SeqSpace
               f == Frame("ccsds", m, gone)
               g == Frame("ccsds", n, 0)
    <2>1. /\ Len(queue) + 2 <= IngestMax /\ drawn + 2 <= MaxDrawn /\ drawn' = drawn + 2
          /\ next' = [next EXCEPT !["ccsds"] = (m + 1) % SeqSpace]
          /\ queue' = queue \o <<f, g>> /\ used' = used \cup {"ccsds"}
          /\ gone' = 0 /\ swaps' = swaps + 1 /\ UNCHANGED <<monitor, lost, longest>>
      BY <1>6 DEF Overtakes
    <2>2. n \in SeqNums /\ m \in SeqNums /\ (m + 1) % SeqSpace \in SeqNums
      BY <1>0, <1>1 DEF Sources
    <2>3. f \in Frames /\ g \in Frames
      BY <1>0, <2>2 DEF Frame, Frames, Sources
    <2> HIDE DEF n, m, f, g
    <2>4. queue' \in Seq(Frames) /\ Len(queue') = Len(queue) + 2
      BY <1>0, <2>1, <2>3, AppendTwo
    <2>5. next' \in [Sources -> SeqNums] /\ used' \subseteq Sources
      BY <1>0, <2>1, <2>2 DEF Sources
    <2>6. Len(queue') <= IngestMax /\ drawn' \in 0..MaxDrawn /\ swaps' \in Nat
      BY <1>0, <2>1, <2>4
    <2> QED BY <1>0, <2>1, <2>4, <2>5, <2>6 DEF TypeOK, Frames, Monitors
  <1>7. ASSUME Process PROVE TypeOK'
    <2> DEFINE f == Head(queue)
               g == IF monitor.expected_seq = NoSeq THEN 0 ELSE f.gone
    <2>1. /\ queue # <<>> /\ queue' = Tail(queue)
          /\ monitor' = Observe(monitor, f.seq) /\ lost' = lost + g
          /\ longest' = IF g > longest THEN g ELSE longest
          /\ UNCHANGED <<next, gone, drawn, used, swaps>>
      BY <1>7 DEF Process
    <2>2. f \in Frames /\ queue' \in Seq(Frames) /\ Len(queue') = Len(queue) - 1
      BY <1>0, <2>1, HeadTailProperties
    <2>3. f.seq \in SeqNums /\ g \in Nat
      BY <2>2 DEF Frames
    <2>4. monitor' \in Monitors
      BY <1>0, <2>1, <2>3, ObserveFacts
    <2> HIDE DEF f, g
    <2>5. Len(queue') <= IngestMax /\ lost' \in Nat /\ longest' \in Nat
      BY <1>0, <2>1, <2>2, <2>3
    <2> QED BY <1>0, <2>1, <2>2, <2>4, <2>5 DEF TypeOK, Frames, Monitors
  <1>8. CASE UNCHANGED vars
    BY <1>8 DEF vars, TypeOK
  <1> QED BY <1>3, <1>4, <1>5, <1>6, <1>7, <1>8 DEF Next

\* The initial state has the types.
LEMMA TypeInit == Init => TypeOK
  <1>1. 0 \in SeqNums /\ NoSeq \in SeqNums \cup {NoSeq} /\ MaxDrawn \in Nat /\ IngestMax \in Nat
    BY SequenceAssumption DEF SeqNums
  <1> QED BY <1>1 DEF Init, TypeOK

\* The counter's numbers, the queue's bound and the monitor's counts keep their types, for
\* every width and every bound.
THEOREM TypeCorrect == Spec => []TypeOK
  BY TypeInit, TypeStep, PTL DEF Spec
-----------------------------------------------------------------------------
\* What a draw means for the source that makes it, if it is the only one: the number it
\* takes is the one the chain ends with.
LEMMA DrawFacts ==
    ASSUME IInv, TypeOK', NEW s \in Sources, used' = used \cup {s}, OneSource'
    PROVE  /\ used' = {s}
           /\ Counted
           /\ used = {} => queue = <<>> /\ monitor.expected_seq = NoSeq
           /\ used # {} => s \in used
  <1>1. used' \in SUBSET Sources /\ Cardinality(used') <= 1 /\ used \in SUBSET used'
    BY DEF TypeOK, OneSource
  <1>2. \A t \in used' : t = s
    BY <1>1, Singles
  <1>3. OneSource
    BY <1>1, Singles DEF OneSource
  <1> QED BY <1>2, <1>3 DEF IInv, Fresh

\* Numbers that the counter and the expectation take on.
LEMMA ChainTypes ==
    ASSUME TypeOK
    PROVE  /\ Len(queue) \in Nat /\ queue \in Seq(Frames) /\ monitor \in Monitors
           /\ \A i \in 1..Len(queue) : queue[i].seq \in SeqNums /\ queue[i].gone \in Nat
           /\ \A i \in 1..(Len(queue) + 1) :
                 Expected(i) \in SeqNums \/ (i = 1 /\ Expected(i) = NoSeq)
           /\ next \in [Sources -> SeqNums] /\ gone \in Nat /\ swaps \in Nat /\ lost \in Nat
           /\ longest \in Nat /\ used \subseteq Sources /\ NoSeq = -1
           /\ \A n \in SeqNums : n \in Nat /\ n # NoSeq /\ (n + 1) % SeqSpace \in SeqNums
  <1>1. /\ queue \in Seq(Frames) /\ monitor \in Monitors /\ Len(queue) \in Nat
    BY LenProperties DEF TypeOK, Frames, Monitors
  <1>2. \A i \in 1..Len(queue) : queue[i] \in Frames
    BY <1>1, ElementOfSeq
  <1>3. \A n \in SeqNums : n \in Nat /\ n # NoSeq /\ (n + 1) % SeqSpace \in SeqNums
    <2> SUFFICES ASSUME NEW n \in SeqNums
                 PROVE  n \in Nat /\ n # NoSeq /\ (n + 1) % SeqSpace \in SeqNums
      OBVIOUS
    <2>1. n \in Nat /\ n # NoSeq /\ n + 1 \in Int
      BY HalfFacts DEF SeqNums, NoSeq
    <2> QED BY <2>1, Residues
  <1>4. ASSUME NEW i \in 1..(Len(queue) + 1)
        PROVE  Expected(i) \in SeqNums \/ (i = 1 /\ Expected(i) = NoSeq)
    <2>1. CASE i = 1
      BY <1>1, <2>1 DEF Expected, Monitors
    <2>2. CASE i # 1
      <3>1. i - 1 \in 1..Len(queue)
        BY <1>1, <2>2
      <3>2. queue[i - 1].seq \in SeqNums
        BY <1>2, <3>1 DEF Frames
      <3> QED BY <1>3, <2>2, <3>2 DEF Expected
    <2> QED BY <2>1, <2>2
  <1> QED BY <1>1, <1>2, <1>3, <1>4 DEF TypeOK, Frames, NoSeq

\* A number that goes with its frame prolongs the gap that the next one will leave.
LEMMA GoneStep ==
    ASSUME IInv, TypeOK', NEW s \in Sources, Draw(s), gone' = gone + 1,
           UNCHANGED <<queue, monitor, lost, longest, swaps>>
    PROVE  IInv'
  <1>1. /\ used' = used \cup {s} /\ next' = [next EXCEPT ![s] = (next[s] + 1) % SeqSpace]
    BY DEF Draw
  <1>2. Fresh'
    BY <1>1 DEF Fresh
  <1>3. ASSUME OneSource' PROVE Counted'
    <2>0. /\ used' = {s} /\ Counted
          /\ used = {} => queue = <<>> /\ monitor.expected_seq = NoSeq
          /\ used # {} => s \in used
      BY <1>1, <1>3, DrawFacts
    <2>1. PICK c \in [0..Len(queue) -> Nat], d \in Nat : Chain(c, d)
      BY <2>0 DEF Counted
    <2> DEFINE E == Expected(Len(queue) + 1)
    <2>2. \A i \in Nat : Expected(i)' = Expected(i)
      BY DEF Expected
    <2>3. ASSUME E # NoSeq PROVE next'[s] = (E + gone' + d) % SeqSpace
      <3>1. used # {}
        BY <2>0, <2>3 DEF Expected
      <3>2. next[s] = (E + gone + d) % SeqSpace
        BY <2>0, <2>1, <2>3, <3>1 DEF Chain
      <3>3. E \in SeqNums /\ E \in Nat /\ gone \in Nat /\ next \in [Sources -> SeqNums]
        <4>1. Len(queue) + 1 \in 1..(Len(queue) + 1)
          BY ChainTypes DEF IInv
        <4> QED BY <2>3, <4>1, ChainTypes DEF IInv
      <3> HIDE DEF E
      <3>4. E + gone + d \in Int /\ (E + gone + d) + 1 = E + (gone + 1) + d
        BY <3>3
      <3>5. (((E + gone + d) % SeqSpace) + 1) % SeqSpace = ((E + gone + d) + 1) % SeqSpace
        BY <3>4, Residues
      <3> QED BY <1>1, <3>2, <3>3, <3>4, <3>5
    <2>4. Chain(c, d)'
      <3>1. Len(queue) \in Nat
        BY ChainTypes DEF IInv
      <3>2. \A t \in used' : t = s
        BY <2>0
      <3> QED BY <2>1, <2>2, <2>3, <3>1, <3>2 DEF Chain, Follows
    <2> QED BY <2>4 DEF Counted
  <1> QED BY <1>2, <1>3 DEF IInv

\* A frame put behind the queue leaves what is expected before it, and is what decides
\* the number expected after it.
LEMMA BehindQueue ==
    ASSUME TypeOK, NEW f \in Frames, queue' = Append(queue, f), monitor' = monitor,
           NEW n \in Nat, n = Len(queue)
    PROVE  /\ queue' # <<>> /\ Len(queue') = n + 1
           /\ \A i \in 1..n : queue'[i] = queue[i]
           /\ queue'[n + 1] = f
           /\ \A i \in 1..(n + 1) : Expected(i)' = Expected(i)
           /\ Expected(n + 2)' = (f.seq + 1) % SeqSpace
  <1>1. queue \in Seq(Frames)
    BY ChainTypes
  <1>2. /\ Len(queue') = n + 1
        /\ \A i \in 1..n : queue'[i] = queue[i]
        /\ queue'[n + 1] = f
        /\ queue' \in Seq(Frames)
    BY <1>1, AppendProperties
  <1>3. queue' # <<>>
    BY <1>1, <1>2, EmptySeq
  <1>4. \A i \in 1..(n + 1) : Expected(i)' = Expected(i)
    BY <1>2 DEF Expected
  <1>5. n + 2 # 1 /\ (n + 2) - 1 = n + 1
    OBVIOUS
  <1>6. Expected(n + 2)' = (f.seq + 1) % SeqSpace
    BY <1>2, <1>5 DEF Expected
  <1> QED BY <1>2, <1>3, <1>4, <1>6

\* The step queues k frames behind the n that chain c is for, and C goes on from c with
\* them.
Extends(n, k, c, C, d, e) ==
    /\ UNCHANGED <<monitor, lost, longest>>
    /\ swaps' = 0 => swaps = 0
    /\ Len(queue') = n + k
    /\ \A i \in 1..n : queue'[i] = queue[i] /\ Expected(i)' = Expected(i)
    /\ \A i \in 0..n : C[i] = c[i]
    /\ \A i \in (n + 1)..(n + k) :
          /\ C[i - 1] <= C[i]
          /\ Follows(Expected(i)', queue'[i].seq, queue'[i].gone, C[i] - C[i - 1])
    /\ \A i \in 0..(n + k) : C[i] + e <= 2 * swaps'
    /\ \A s \in used' : next'[s] = (Expected(n + k + 1)' + gone' + e) % SeqSpace

\* A chain goes on with the frames queued behind those it was for: what it said of these
\* stays, and the new ones have to follow.
LEMMA ChainExtends ==
    ASSUME TypeOK, NEW n \in Nat, n = Len(queue), NEW k \in Nat, NEW c \in [0..n -> Nat],
           NEW C \in [0..(n + k) -> Nat], NEW d \in Nat, NEW e \in Nat,
           Chain(c, d), Extends(n, k, c, C, d, e)
    PROVE  Counted'
  <1> USE DEF Extends
  <1>1. (monitor.lost_packets)' <= lost' + C[0]
    <2>1. 0 \in 0..n
      OBVIOUS
    <2> QED BY <2>1 DEF Chain
  <1>2. swaps' = 0 /\ longest' < HALF => (monitor.lost_packets)' = lost'
    BY DEF Chain
  <1>3. ASSUME NEW i \in 1..(n + k)
        PROVE  /\ C[i - 1] <= C[i]
               /\ Follows(Expected(i)', queue'[i].seq, queue'[i].gone, C[i] - C[i - 1])
    <2>1. CASE i \in 1..n
      <3>1. i - 1 \in 0..n /\ i \in 0..n
        BY <2>1
      <3>2. C[i] = c[i] /\ C[i - 1] = c[i - 1]
        BY <3>1
      <3>3. /\ c[i - 1] <= c[i]
            /\ Follows(Expected(i), queue[i].seq, queue[i].gone, c[i] - c[i - 1])
        BY <2>1 DEF Chain
      <3>4. queue'[i] = queue[i] /\ Expected(i)' = Expected(i)
        BY <2>1
      <3> QED BY <3>2, <3>3, <3>4
    <2>2. i \in 1..n \/ i \in (n + 1)..(n + k)
      OBVIOUS
    <2> QED BY <2>1, <2>2
  <1>4. C \in [0..Len(queue') -> Nat]
    OBVIOUS
  <1>5. Chain(C, e)'
    BY <1>1, <1>2, <1>3 DEF Chain, Follows
  <1> QED BY <1>4, <1>5 DEF Counted

\* One frame more that follows the number expected last.
LEMMA ChainGrows ==
    ASSUME TypeOK, NEW c \in [0..Len(queue) -> Nat], NEW d \in Nat, Chain(c, d),
           NEW f \in Frames, queue' = Append(queue, f),
           UNCHANGED <<monitor, lost, longest, swaps>>,
           NEW x \in Nat, Follows(Expected(Len(queue) + 1), f.seq, f.gone, x),
           NEW e \in Nat, x + e = d,
           \A s \in used' : next'[s] = (((f.seq + 1) % SeqSpace) + gone' + e) % SeqSpace
    PROVE  Counted'
  <1>a. PICK n \in Nat : n = Len(queue)
    BY ChainTypes
  <1>0. /\ swaps \in Nat /\ Len(queue') = n + 1
        /\ \A i \in 1..n : queue'[i] = queue[i]
        /\ queue'[n + 1] = f
        /\ \A i \in 1..(n + 1) : Expected(i)' = Expected(i)
        /\ Expected(n + 2)' = (f.seq + 1) % SeqSpace
    BY <1>a, ChainTypes, BehindQueue
  <1>b. /\ n \in 0..n /\ n + 1 \in 0..(n + 1) /\ ~(n + 1 <= n) /\ (n + 1) + 1 = n + 2
        /\ (n + 1) - 1 = n
        /\ \A i \in 0..n : i \in 0..(n + 1) /\ i <= n
        /\ \A i \in 0..(n + 1) : i \in 0..n \/ i = n + 1
        /\ \A i \in 1..n : i \in 1..(n + 1)
        /\ \A i \in (n + 1)..(n + 1) : i = n + 1
    OBVIOUS
  <1>c. \A i \in 0..n : c[i] \in Nat
    BY <1>a
  <1>d. c[n] + x \in Nat
    BY <1>b, <1>c
  <1> DEFINE C == [i \in 0..(n + 1) |-> IF i <= n THEN c[i] ELSE c[n] + x]
  <1>1. C \in [0..(n + 1) -> Nat]
    <2>1. \A i \in 0..(n + 1) : (IF i <= n THEN c[i] ELSE c[n] + x) \in Nat
      BY <1>b, <1>c, <1>d
    <2> QED BY <2>1
  <1>2. (\A i \in 0..n : C[i] = c[i]) /\ C[n + 1] = c[n] + x
    BY <1>b
  <1> HIDE DEF C
  <1>3. C[n] = c[n] /\ C[n] <= C[n + 1] /\ C[n + 1] - C[n] = x
    <2>1. C[n] = c[n] /\ C[n] \in Nat
      BY <1>2, <1>b, <1>c
    <2> QED BY <1>2, <2>1
  <1>4. \A i \in (n + 1)..(n + 1) :
           /\ C[i - 1] <= C[i]
           /\ Follows(Expected(i)', queue'[i].seq, queue'[i].gone, C[i] - C[i - 1])
    <2>1. Expected(n + 1)' = Expected(n + 1)
      BY <1>0
    <2> QED BY <1>a, <1>b, <1>0, <1>3, <2>1
  <1>5. ASSUME NEW i \in 0..(n + 1) PROVE C[i] + e <= 2 * swaps'
    <2>1. \A j \in 0..n : c[j] + d <= 2 * swaps
      BY <1>a DEF Chain
    <2>2. CASE i \in 0..n
      <3>1. C[i] + d <= 2 * swaps /\ C[i] \in Nat
        BY <1>2, <1>c, <2>1, <2>2
      <3> QED BY <1>0, <3>1
    <2>3. CASE i = n + 1
      <3>1. c[n] + d <= 2 * swaps /\ c[n] \in Nat /\ C[i] = c[n] + x
        BY <1>b, <1>c, <1>2, <2>1, <2>3
      <3> QED BY <1>0, <3>1
    <2> QED BY <1>b, <2>2, <2>3
  <1>6. \A s \in used' : next'[s] = (Expected(n + 1 + 1)' + gone' + e) % SeqSpace
    BY <1>0, <1>b
  <1>7. /\ \A i \in 1..n : queue'[i] = queue[i] /\ Expected(i)' = Expected(i)
        /\ swaps' = 0 => swaps = 0
    BY <1>0, <1>b
  <1>8. Extends(n, 1, c, C, d, e)
    BY <1>0, <1>2, <1>4, <1>5, <1>6, <1>7 DEF Extends
  <1>9. c \in [0..n -> Nat] /\ 1 \in Nat
    BY <1>a
  <1> QED BY <1>a, <1>1, <1>8, <1>9, ChainExtends

\* A frame that is queued continues the chain; what was excess of the next number becomes
\* its own.
LEMMA QueuedStep ==
    ASSUME IInv, TypeOK', NEW s \in Sources, Arrive(s), ~(Len(queue) >= IngestMax)
    PROVE  IInv'
  <1> DEFINE f == Frame(s, next[s], gone)
             E == Expected(Len(queue) + 1)
  <1>1. /\ used' = used \cup {s} /\ next' = [next EXCEPT ![s] = (next[s] + 1) % SeqSpace]
        /\ queue' = Append(queue, f) /\ gone' = 0
        /\ UNCHANGED <<monitor, lost, longest, swaps>>
    BY DEF Arrive, Draw
  <1>2. /\ next \in [Sources -> SeqNums] /\ gone \in Nat /\ swaps \in Nat /\ TypeOK
        /\ next[s] \in SeqNums /\ (next[s] + 1) % SeqSpace \in SeqNums
    BY ChainTypes DEF IInv
  <1>3. f \in Frames /\ f.seq = next[s] /\ f.gone = gone
    BY <1>2 DEF Frame, Frames
  <1>4. Fresh'
    BY <1>1 DEF Fresh
  <1>5. ASSUME OneSource' PROVE Counted'
    <2>0. /\ used' = {s} /\ Counted
          /\ used = {} => queue = <<>> /\ monitor.expected_seq = NoSeq
          /\ used # {} => s \in used
      BY <1>1, <1>5, DrawFacts
    <2>1. PICK c \in [0..Len(queue) -> Nat], d \in Nat : Chain(c, d)
      BY <2>0 DEF Counted
    <2>2. Follows(E, next[s], gone, d)
      <3>1. CASE used = {}
        <4>1. E = NoSeq
          BY <2>0, <3>1 DEF Expected
        <4> QED BY <4>1 DEF Follows
      <3>2. CASE used # {}
        BY <2>0, <2>1, <3>2 DEF Follows, Chain
      <3> QED BY <3>1, <3>2
    <2>3. \A t \in used' : next'[t] = (((f.seq + 1) % SeqSpace) + gone' + 0) % SeqSpace
      <3>1. next'[s] = (next[s] + 1) % SeqSpace
        BY <1>1, <1>2
      <3>2. ((next[s] + 1) % SeqSpace) % SeqSpace = (next[s] + 1) % SeqSpace
        BY <1>2, Residues DEF SeqNums
      <3>3. ((next[s] + 1) % SeqSpace) + 0 + 0 = (next[s] + 1) % SeqSpace
        BY <1>2 DEF SeqNums
      <3> QED BY <1>1, <1>3, <2>0, <3>1, <3>2, <3>3
    <2>4. 0 \in Nat /\ d + 0 = d
      OBVIOUS
    <2>5. UNCHANGED <<monitor, lost, longest, swaps>>
      BY <1>1
    <2> HIDE DEF f
    <2> QED BY <1>1, <1>2, <1>3, <2>1, <2>2, <2>3, <2>4, <2>5, ChainGrows
  <1> QED BY <1>4, <1>5 DEF IInv

\* A repeated packet comes one behind what is expected and changes no expectation.
LEMMA RepeatedStep ==
    ASSUME IInv, TypeOK', Repeated
    PROVE  IInv'
  <1> DEFINE n == LastSeq
             f == Frame("ccsds", n, 0)
             E == Expected(Len(queue) + 1)
  <1>1. /\ LastIsPacket /\ queue' = Append(queue, f)
        /\ UNCHANGED <<next, monitor, gone, lost, longest, used, swaps>>
    BY DEF Repeated
  <1>2. TypeOK /\ Len(queue) \in Nat /\ swaps \in Nat /\ gone \in Nat
    <2>1. Len(queue) \in Nat /\ queue \in Seq(Frames) /\ swaps \in Nat /\ gone \in Nat
      BY ChainTypes DEF IInv
    <2> QED BY <2>1 DEF IInv
  <1>3. n \in SeqNums /\ E = (n + 1) % SeqSpace /\ E # NoSeq /\ n = (E - 1) % SeqSpace
    <2>1. CASE queue # <<>>
      <3>1. Len(queue) \in 1..Len(queue) /\ Len(queue) + 1 # 1 /\ (Len(queue) + 1) - 1 = Len(queue)
        BY <1>2, <2>1, EmptySeq, ChainTypes DEF IInv
      <3>2. n = queue[Len(queue)].seq
        BY <2>1 DEF LastSeq
      <3>3. n \in SeqNums
        BY <1>2, <3>1, <3>2, ChainTypes
      <3>4. (n + 1) % SeqSpace # NoSeq
        BY <1>2, <3>3, ChainTypes
      <3>5. E = (n + 1) % SeqSpace
        BY <3>1, <3>2 DEF Expected
      <3> QED BY <3>3, <3>4, <3>5, LateByOne
    <2>2. CASE queue = <<>>
      <3>1. E = monitor.expected_seq /\ E # NoSeq /\ E \in SeqNums
        BY <1>1, <2>2, ChainTypes DEF IInv, LastIsPacket, Expected, Monitors
      <3>2. n = (E - 1) % SeqSpace
        BY <2>2, <3>1 DEF LastSeq
      <3> HIDE DEF E, n
      <3>3. E \in Int /\ E - 1 \in Int /\ (E - 1) + 1 = E
        BY <3>1, SequenceAssumption DEF SeqNums
      <3>4. n \in SeqNums /\ (((E - 1) % SeqSpace) + 1) % SeqSpace = ((E - 1) + 1) % SeqSpace
        BY <3>2, <3>3, Residues
      <3>5. E % SeqSpace = E
        BY <3>1, <3>3, Residues
      <3> QED BY <3>1, <3>2, <3>3, <3>4, <3>5
    <2> QED BY <2>1, <2>2
  <1>4. f \in Frames /\ f.seq = n /\ f.gone = 0
    BY <1>3 DEF Frame, Frames, Sources
  <1>7. Fresh'
    BY <1>1 DEF IInv, Fresh, LastIsPacket
  <1>8. ASSUME OneSource' PROVE Counted'
    <2>0. Counted
      BY <1>1, <1>8 DEF IInv, OneSource
    <2>1. PICK c \in [0..Len(queue) -> Nat], d \in Nat : Chain(c, d)
      BY <2>0 DEF Counted
    <2>2. Follows(E, f.seq, f.gone, 0)
      BY <1>3, <1>4 DEF Follows
    <2>3. \A t \in used' : next'[t] = (((f.seq + 1) % SeqSpace) + gone' + d) % SeqSpace
      BY <1>1, <1>3, <1>4, <2>1 DEF Chain
    <2>4. 0 \in Nat /\ 0 + d = d /\ UNCHANGED <<monitor, lost, longest, swaps>>
      BY <1>1
    <2> HIDE DEF f
    <2> QED BY <1>1, <1>2, <1>4, <2>1, <2>2, <2>3, <2>4, ChainGrows
  <1> QED BY <1>7, <1>8 DEF IInv

\* A packet that overtakes the one before it is one number early, which the monitor counts as
\* a loss; the late one is counted for nothing, and makes the next number look one early again.
LEMMA OvertakesStep ==
    ASSUME IInv, TypeOK', Overtakes
    PROVE  IInv'
  <1> DEFINE l == next["ccsds"]
             m == (l + 1) % SeqSpace
             f == Frame("ccsds", m, gone)
             g == Frame("ccsds", l, 0)
  <1>1. /\ queue' = queue \o <<f, g>> /\ next' = [next EXCEPT !["ccsds"] = (m + 1) % SeqSpace]
        /\ used' = used \cup {"ccsds"} /\ gone' = 0 /\ swaps' = swaps + 1
        /\ UNCHANGED <<monitor, lost, longest>>
    BY DEF Overtakes
  <1>2. /\ next \in [Sources -> SeqNums] /\ gone \in Nat /\ swaps \in Nat /\ TypeOK
        /\ queue \in Seq(Frames) /\ "ccsds" \in Sources /\ l \in SeqNums /\ m \in SeqNums
        /\ (m + 1) % SeqSpace \in SeqNums
    <2>1. /\ next \in [Sources -> SeqNums] /\ gone \in Nat /\ swaps \in Nat /\ TypeOK
          /\ queue \in Seq(Frames) /\ \A i \in SeqNums : (i + 1) % SeqSpace \in SeqNums
      BY ChainTypes DEF IInv
    <2> QED BY <2>1 DEF Sources
  <1>3. f \in Frames /\ f.seq = m /\ f.gone = gone /\ g \in Frames /\ g.seq = l /\ g.gone = 0
    BY <1>2 DEF Frame, Frames
  <1>l. l = next["ccsds"] /\ m = (l + 1) % SeqSpace
    OBVIOUS
  <1> HIDE DEF f, g, m, l
  <1>a. PICK n \in Nat : n = Len(queue)
    BY <1>2, LenProperties
  <1>b. /\ n \in 0..n /\ n + 1 \in 0..(n + 2) /\ n + 2 \in 0..(n + 2) /\ ~(n + 1 <= n)
        /\ ~(n + 2 <= n) /\ (n + 1) - 1 = n /\ (n + 2) - 1 = n + 1 /\ (n + 3) - 1 = n + 2
        /\ n + 2 + 1 = n + 3 /\ n + 2 # 1 /\ n + 3 # 1
        /\ \A i \in 0..n : i \in 0..(n + 2) /\ i <= n
        /\ \A i \in 0..(n + 2) : i \in 0..n \/ i = n + 1 \/ i = n + 2
        /\ \A i \in 1..(n + 1) : i = 1 \/ i - 1 \in 1..n
        /\ \A i \in 1..n : i \in 1..(n + 1)
        /\ \A i \in (n + 1)..(n + 2) : i = n + 1 \/ i = n + 2
    OBVIOUS
  <1>4. /\ Len(queue') = n + 2 /\ queue' \in Seq(Frames)
        /\ \A i \in 1..n : queue'[i] = queue[i]
        /\ queue'[n + 1] = f /\ queue'[n + 2] = g
    BY <1>1, <1>2, <1>3, <1>a, AppendTwo
  <1>5. /\ \A i \in 1..(n + 1) : Expected(i)' = Expected(i)
        /\ Expected(n + 2)' = (m + 1) % SeqSpace
        /\ Expected(n + 3)' = m
    BY <1>1, <1>3, <1>4, <1>b, <1>l DEF Expected
  <1>6. Fresh'
    BY <1>1 DEF Fresh
  <1>7. ASSUME OneSource' PROVE Counted'
    <2>0. /\ used' = {"ccsds"} /\ Counted
          /\ used = {} => queue = <<>> /\ monitor.expected_seq = NoSeq
          /\ used # {} => "ccsds" \in used
      BY <1>1, <1>2, <1>7, DrawFacts
    <2>1. PICK c \in [0..n -> Nat], d \in Nat : Chain(c, d)
      BY <2>0, <1>a DEF Counted
    <2> DEFINE C == [i \in 0..(n + 2) |-> IF i <= n THEN c[i] ELSE c[n] + d + 1]
    <2>2. (\A i \in 0..n : c[i] \in Nat) /\ c[n] + d + 1 \in Nat
      <3>1. c[n] \in Nat
        BY <1>b, <2>1
      <3> QED BY <2>1, <3>1
    <2>3. C \in [0..(n + 2) -> Nat]
      <3>1. \A i \in 0..(n + 2) : (IF i <= n THEN c[i] ELSE c[n] + d + 1) \in Nat
        BY <1>b, <2>2
      <3> QED BY <3>1
    <2>4. (\A i \in 0..n : C[i] = c[i]) /\ C[n + 1] = c[n] + d + 1 /\ C[n + 2] = c[n] + d + 1
      BY <1>b
    <2> HIDE DEF C
    <2>5. /\ C[n] <= C[n + 1] /\ C[n + 1] - C[n] = d + 1
          /\ C[n + 1] <= C[n + 2] /\ C[n + 2] - C[n + 1] = 0
      <3>1. C[n] = c[n] /\ c[n] \in Nat
        BY <1>b, <2>2, <2>4
      <3> QED BY <2>4, <3>1
    <2>6. Follows(Expected(n + 1), m, gone, d + 1)
      <3> DEFINE E == Expected(n + 1)
      <3>1. SUFFICES ASSUME E # NoSeq PROVE m = (E + gone + (d + 1)) % SeqSpace
        BY DEF Follows
      <3>2. used # {}
        <4>1. used = {} => n = 0
          BY <2>0, <1>a
        <4> QED BY <3>1, <2>0, <4>1 DEF Expected
      <3>3. l = (E + gone + d) % SeqSpace
        BY <1>a, <1>l, <2>0, <2>1, <3>1, <3>2 DEF Chain
      <3>4. E \in SeqNums /\ E \in Nat
        <4>1. n + 1 \in 1..(n + 1)
          OBVIOUS
        <4> QED BY <1>a, <1>2, <3>1, <4>1, ChainTypes
      <3> HIDE DEF E
      <3>5. E + gone + d \in Int /\ (E + gone + d) + 1 = E + gone + (d + 1)
        BY <1>2, <3>4
      <3>6. (((E + gone + d) % SeqSpace) + 1) % SeqSpace = ((E + gone + d) + 1) % SeqSpace
        BY <3>5, Residues
      <3> QED BY <1>l, <3>3, <3>5, <3>6
    <2>7. Follows((m + 1) % SeqSpace, l, 0, 0)
      BY <1>l, <1>2, LateByTwo DEF Follows
    <2>8. ASSUME NEW i \in (n + 1)..(n + 2)
          PROVE  /\ C[i - 1] <= C[i]
                 /\ Follows(Expected(i)', queue'[i].seq, queue'[i].gone, C[i] - C[i - 1])
      <3>1. CASE i = n + 1
        <4>1. Expected(n + 1)' = Expected(n + 1)
          BY <1>5
        <4> QED BY <1>3, <1>4, <1>b, <2>5, <2>6, <3>1, <4>1
      <3>2. CASE i = n + 2
        BY <1>3, <1>4, <1>5, <1>b, <2>5, <2>7, <3>2
      <3> QED BY <1>b, <3>1, <3>2
    <2>9. ASSUME NEW i \in 0..(n + 2) PROVE C[i] + 1 <= 2 * swaps'
      <3>1. \A j \in 0..n : c[j] + d <= 2 * swaps
        BY <1>a, <2>1 DEF Chain
      <3>2. PICK j \in 0..n : C[i] = c[j] \/ C[i] = c[j] + d + 1
        BY <1>b, <2>4
      <3>3. c[j] + d <= 2 * swaps /\ c[j] \in Nat
        BY <2>2, <3>1
      <3>4. 2 * swaps' = 2 * swaps + 2
        BY <1>1, <1>2
      <3> QED BY <1>2, <3>2, <3>3, <3>4
    <2>10. \A s \in used' : next'[s] = (Expected(n + 2 + 1)' + gone' + 1) % SeqSpace
      <3>1. next'["ccsds"] = (m + 1) % SeqSpace
        BY <1>1, <1>2
      <3>2. m + 0 + 1 = m + 1
        BY <1>2, ChainTypes
      <3> QED BY <1>1, <1>5, <1>b, <2>0, <3>1, <3>2
    <2>11. /\ swaps' = 0 => swaps = 0
           /\ \A i \in 1..n : queue'[i] = queue[i] /\ Expected(i)' = Expected(i)
      BY <1>1, <1>2, <1>4, <1>5, <1>b
    <2>12. Extends(n, 2, c, C, d, 1)
      BY <1>1, <1>4, <2>4, <2>8, <2>9, <2>10, <2>11 DEF Extends
    <2>13. 1 \in Nat /\ 2 \in Nat
      OBVIOUS
    <2> QED BY <1>2, <1>a, <2>1, <2>3, <2>12, <2>13, ChainExtends
  <1> QED BY <1>6, <1>7 DEF IInv

\* Observing the first frame counts for it at most what is gone and the excess that the
\* chain has for it, and exactly what is gone where nothing overtakes and gaps are short.
LEMMA ProcessStep ==
    ASSUME IInv, TypeOK', Process
    PROVE  IInv'
  <1> DEFINE f == queue[1]
             g == IF monitor.expected_seq = NoSeq THEN 0 ELSE f.gone
             miss == IF monitor.expected_seq = NoSeq THEN 0
                     ELSE Missing(monitor.expected_seq, f.seq)
  <1>a. PICK n \in Nat : n = Len(queue)
    BY ChainTypes DEF IInv
  <1>1. /\ queue # <<>> /\ queue' = Tail(queue)
        /\ monitor' = Observe(monitor, f.seq) /\ lost' = lost + g
        /\ longest' = IF g > longest THEN g ELSE longest
        /\ UNCHANGED <<next, gone, used, swaps>>
    BY DEF Process
  <1>2. /\ TypeOK /\ queue \in Seq(Frames) /\ monitor \in Monitors /\ swaps \in Nat
        /\ lost \in Nat /\ longest \in Nat /\ monitor.lost_packets \in Nat
        /\ \A i \in 1..n : queue[i].seq \in SeqNums /\ queue[i].gone \in Nat
        /\ \A i \in 1..(n + 1) : Expected(i) \in SeqNums \/ (i = 1 /\ Expected(i) = NoSeq)
    BY <1>a, ChainTypes DEF IInv, Monitors
  <1>3. n >= 1 /\ Len(queue') = n - 1 /\ \A i \in 1..(n - 1) : queue'[i] = queue[i + 1]
    BY <1>a, <1>1, <1>2, EmptySeq, HeadTailProperties
  <1>4. f.seq \in SeqNums /\ g \in Nat /\ Expected(1) = monitor.expected_seq
    BY <1>2, <1>3 DEF Expected
  <1>5. /\ monitor'.expected_seq = (f.seq + 1) % SeqSpace
        /\ monitor'.lost_packets = monitor.lost_packets + miss
    BY <1>1, <1>2, <1>4, ObserveFacts
  <1>6. \A i \in 1..n : Expected(i)' = Expected(i + 1)
    <2> SUFFICES ASSUME NEW i \in 1..n PROVE Expected(i)' = Expected(i + 1)
      OBVIOUS
    <2>1. CASE i = 1
      <3>1. i + 1 # 1 /\ (i + 1) - 1 = 1
        BY <2>1
      <3> QED BY <1>5, <2>1, <3>1 DEF Expected
    <2>2. CASE i # 1
      <3>1. i - 1 \in 1..(n - 1) /\ (i - 1) + 1 = i /\ (i + 1) - 1 = i /\ i + 1 # 1
        BY <2>2
      <3> QED BY <1>3, <2>2, <3>1 DEF Expected
    <2> QED BY <2>1, <2>2
  <1>7. Fresh'
    <2>1. used # {}
      BY <1>1 DEF IInv, Fresh
    <2> QED BY <1>1, <2>1 DEF Fresh
  <1>8. ASSUME OneSource' PROVE Counted'
    <2>0. Counted
      BY <1>1, <1>8 DEF IInv, OneSource
    <2>1. PICK c \in [0..n -> Nat], d \in Nat : Chain(c, d)
      BY <2>0, <1>a DEF Counted
    <2>2. PICK p \in Nat : p = n - 1
      BY <1>3
    <2>b. /\ n = p + 1 /\ 0 \in 0..p /\ 0 \in 0..n /\ 1 \in 0..n /\ 1 \in 1..n /\ 0 + 1 = 1
          /\ 1 - 1 = 0
          /\ \A i \in 0..p : i + 1 \in 0..n
          /\ \A i \in 1..p : /\ i \in 0..p /\ i - 1 \in 0..p /\ i + 1 \in 1..n /\ i \in 1..n
                             /\ (i - 1) + 1 = (i + 1) - 1 /\ i \in 1..(n - 1)
      BY <1>3, <2>2
    <2> DEFINE C == [i \in 0..p |-> c[i + 1]]
    <2>3. C \in [0..p -> Nat]
      <3>1. \A i \in 0..p : c[i + 1] \in Nat
        BY <2>1, <2>b
      <3> QED BY <3>1
    <2>4. \A i \in 0..p : C[i] = c[i + 1]
      OBVIOUS
    <2> HIDE DEF C
    <2>5. /\ c[0] \in Nat /\ c[1] \in Nat /\ c[0] <= c[1] /\ c[1] - c[0] \in Nat
          /\ Follows(monitor.expected_seq, f.seq, f.gone, c[1] - c[0])
          /\ monitor.lost_packets <= lost + c[0] /\ C[0] = c[1]
          /\ swaps = 0 /\ longest < HALF => monitor.lost_packets = lost
          /\ swaps = 0 => c[1] = 0 /\ c[0] = 0
      <3>1. c[0] \in Nat /\ c[1] \in Nat
        BY <2>1, <2>b
      <3>2. c[0] <= c[1] /\ Follows(monitor.expected_seq, f.seq, f.gone, c[1] - c[0])
        BY <1>a, <1>4, <2>1, <2>b DEF Chain
      <3>3. c[0] + d <= 2 * swaps /\ c[1] + d <= 2 * swaps
        BY <1>a, <2>1, <2>b DEF Chain
      <3>4. /\ monitor.lost_packets <= lost + c[0] /\ C[0] = c[1]
            /\ swaps = 0 /\ longest < HALF => monitor.lost_packets = lost
        BY <2>1, <2>4, <2>b DEF Chain
      <3>5. swaps = 0 => c[1] = 0 /\ c[0] = 0
        BY <1>2, <2>1, <3>1, <3>3
      <3>6. c[1] - c[0] \in Nat
        BY <3>1, <3>2
      <3> QED BY <3>1, <3>2, <3>4, <3>5, <3>6
    <2>6. /\ miss \in Nat /\ miss <= g + (c[1] - c[0])
          /\ c[1] - c[0] = 0 /\ g < HALF => miss = g
      <3>1. CASE monitor.expected_seq = NoSeq
        BY <2>5, <3>1
      <3>2. CASE monitor.expected_seq # NoSeq
        <4>1. monitor.expected_seq \in SeqNums /\ f.gone \in Nat
          BY <1>2, <1>4, <2>b, <3>2
        <4> QED BY <1>4, <2>5, <3>2, <4>1, MissingBound
      <3> QED BY <3>1, <3>2
    <2> HIDE DEF g, miss
    <2>7. monitor'.lost_packets <= lost' + C[0]
      <3>1. \A a, b, x, y, m, h \in Nat :
               a <= b + x /\ m <= h + (y - x) => a + m <= (b + h) + y
        OBVIOUS
      <3>2. monitor.lost_packets + miss <= (lost + g) + c[1]
        BY <1>2, <1>4, <2>5, <2>6, <3>1
      <3> QED BY <1>1, <1>5, <2>5, <3>2
    <2>8. swaps' = 0 /\ longest' < HALF => monitor'.lost_packets = lost'
      <3>1. longest' < HALF => longest < HALF /\ g < HALF
        BY <1>1, <1>2, <1>4, HalfFacts
      <3>2. swaps' = swaps
        BY <1>1
      <3>3. swaps = 0 => c[1] - c[0] = 0
        BY <2>5
      <3> QED BY <1>1, <1>5, <2>5, <2>6, <3>1, <3>2, <3>3
    <2>9. ASSUME NEW i \in 1..p
          PROVE  /\ C[i - 1] <= C[i]
                 /\ Follows(Expected(i)', queue'[i].seq, queue'[i].gone, C[i] - C[i - 1])
      <3>1. /\ c[(i + 1) - 1] <= c[i + 1]
            /\ Follows(Expected(i + 1), queue[i + 1].seq, queue[i + 1].gone,
                       c[i + 1] - c[(i + 1) - 1])
        BY <1>a, <2>1, <2>b DEF Chain
      <3>2. C[i] = c[i + 1] /\ C[i - 1] = c[(i + 1) - 1]
        BY <2>4, <2>b
      <3>3. Expected(i)' = Expected(i + 1) /\ queue'[i] = queue[i + 1]
        BY <1>3, <1>6, <2>b
      <3> QED BY <3>1, <3>2, <3>3
    <2>10. Expected(p + 1)' = Expected(n + 1)
      <3>1. n \in 1..n
        BY <1>3
      <3> QED BY <1>6, <2>b, <3>1
    <2>11. /\ Expected(p + 1)' # NoSeq =>
                 \A s \in used' : next'[s] = (Expected(p + 1)' + gone' + d) % SeqSpace
           /\ \A i \in 0..p : C[i] + d <= 2 * swaps'
      BY <1>1, <1>a, <2>1, <2>4, <2>b, <2>10 DEF Chain
    <2>12. Len(queue') = p
      BY <1>3, <2>2
    <2>13. Chain(C, d)'
      BY <2>7, <2>8, <2>9, <2>11, <2>12 DEF Chain, Follows
    <2> QED BY <2>1, <2>3, <2>12, <2>13 DEF Counted
  <1> QED BY <1>7, <1>8 DEF IInv

\* Initially nothing is queued, counted or in excess.
LEMMA InitCounted == Init => IInv
  <1> SUFFICES ASSUME Init PROVE IInv
    OBVIOUS
  <1>1. /\ queue = <<>> /\ monitor.expected_seq = NoSeq /\ monitor.lost_packets = 0
        /\ lost = 0 /\ swaps = 0 /\ used = {}
    BY DEF Init
  <1>2. Len(queue) = 0
    BY <1>1
  <1>3. PICK c \in [0..0 -> Nat] : c = [i \in 0..0 |-> 0]
    OBVIOUS
  <1>4. c[0] = 0 /\ \A i \in 0..0 : i = 0
    BY <1>3
  <1>5. Chain(c, 0)
    <2>1. \A i \in 1..0 : FALSE
      OBVIOUS
    <2>2. Expected(0 + 1) = NoSeq
      BY <1>1 DEF Expected
    <2> QED BY <1>1, <1>2, <1>4, <2>1, <2>2 DEF Chain
  <1>6. Counted
    BY <1>2, <1>5 DEF Counted
  <1> QED BY <1>1, <1>6, TypeInit DEF IInv, Fresh

\* The invariant holds throughout.
LEMMA CountedHolds == Spec => []IInv
  <1>1. IInv /\ [Next]_vars => IInv'
    <2> SUFFICES ASSUME IInv, [Next]_vars PROVE IInv'
      OBVIOUS
    <2>0. TypeOK'
      BY TypeStep DEF IInv
    <2>1. ASSUME NEW s \in Sources, Arrive(s) PROVE IInv'
      <3>1. CASE Len(queue) >= IngestMax
        <4>1. /\ Draw(s) /\ gone' = gone + 1
              /\ UNCHANGED <<queue, monitor, lost, longest, swaps>>
          BY <2>1, <3>1 DEF Arrive
        <4> QED BY <2>0, <4>1, GoneStep
      <3>2. CASE ~(Len(queue) >= IngestMax)
        BY <2>0, <2>1, <3>2, QueuedStep
      <3> QED BY <3>1, <3>2
    <2>2. CASE LostOnTheWay \/ Refused
      <3>1. PICK s \in Sources : Draw(s)
        BY <2>2 DEF LostOnTheWay, Refused, Sources
      <3>2. gone' = gone + 1 /\ UNCHANGED <<queue, monitor, lost, longest, swaps>>
        BY <2>2 DEF LostOnTheWay, Refused
      <3> QED BY <2>0, <3>1, <3>2, GoneStep
    <2>3. CASE Repeated
      BY <2>0, <2>3, RepeatedStep
    <2>4. CASE Overtakes
      BY <2>0, <2>4, OvertakesStep
    <2>5. CASE Process
      BY <2>0, <2>5, ProcessStep
    <2>6. CASE UNCHANGED vars
      BY <2>0, <2>6
         DEF vars, IInv, Fresh, OneSource, Counted, Chain, Follows, Expected
    <2> QED BY <2>1, <2>2, <2>3, <2>4, <2>5, <2>6 DEF Next
  <1> QED BY <1>1, InitCounted, PTL DEF Spec

\* For any width of the counter, any queue bound and any number of frames: with one source,
\* SequenceMonitor.observe counts more than what was really lost only for packets that
\* overtook others, and at most two for each.
THEOREM OvercountsOnlyOvertaking == Spec => []NeverOvercounts
  <1>1. IInv => NeverOvercounts
    <2> SUFFICES ASSUME IInv, OneSource
                 PROVE  monitor.lost_packets <= lost + 2 * swaps
      BY DEF NeverOvercounts
    <2>1. PICK c \in [0..Len(queue) -> Nat], d \in Nat : Chain(c, d)
      BY DEF IInv, Counted
    <2>2. Len(queue) \in Nat /\ swaps \in Nat /\ lost \in Nat /\ monitor.lost_packets \in Nat
      BY ChainTypes DEF IInv, Monitors
    <2>3. 0 \in 0..Len(queue)
      BY <2>2
    <2>4. c[0] \in Nat /\ c[0] + d <= 2 * swaps /\ monitor.lost_packets <= lost + c[0]
      BY <2>1, <2>3 DEF Chain
    <2> QED BY <2>1, <2>2, <2>4
  <1> QED BY <1>1, CountedHolds, PTL

\* For any width, bound and number of frames: with one source, frames in order and fewer than
\* HALF missing in a row, lost_packets is exactly the number of frames lost between two
\* observed ones, wherever they were lost and however often the counter wrapped around.
THEOREM ExactInOrder == Spec => []CountsExactly
  <1>1. IInv => CountsExactly
    BY DEF IInv, Counted, Chain, CountsExactly
  <1> QED BY <1>1, CountedHolds, PTL
===============================================================================
