----------------------- MODULE MissionPipelineProofs -----------------------
(***************************************************************************)
(* Theorems about MissionPipeline for every set of workers, every queue    *)
(* bound (bounded or not) and every history length.                        *)
(*                                                                         *)
(* The order of the frames is kept piecewise: InOrder speaks of the        *)
(* concatenation of what a worker has handled, holds and has queued, and   *)
(* Sorted says the same of the three pieces, each step touching one or two *)
(* of them.                                                                *)
(***************************************************************************)
EXTENDS MissionPipeline, SequenceTheorems, TLAPS

Below(s, t) == \A i \in 1..Len(s), j \in 1..Len(t) : s[i] < t[j]
Upto(s, n)  == \A i \in 1..Len(s) : s[i] <= n

\* The frames worker w has are in order, piece by piece, and none is newer than latest.
Sorted(w) ==
    /\ Increasing(out[w]) /\ Increasing(wq[w])
    /\ Below(out[w], inflight[w]) /\ Below(out[w], wq[w]) /\ Below(inflight[w], wq[w])
    /\ Upto(out[w], latest) /\ Upto(inflight[w], latest) /\ Upto(wq[w], latest)

\* The frames in the ingest queue are in order and newer than every processed one.
IngestSorted ==
    /\ Increasing(ingest)
    /\ \A i \in 1..Len(ingest) : latest < ingest[i] /\ ingest[i] <= pushed
    /\ latest <= pushed

\* A burst goes on only while there are frames.
BurstHasFrames == run = "processing" => ingest # <<>>

\* While a burst is processed, the queue of a worker that was idle when it began has
\* room for the rest of it.
RoomForBurst ==
    run = "processing" /\ BurstFits /\ WorkerMax > 0 =>
        \A w \in Workers : idle[w] => Len(wq[w]) + Len(ingest) <= IngestMax

IInv ==
    /\ TypeOK
    /\ BurstHasFrames
    /\ IngestSorted
    /\ \A w \in Workers : Sorted(w)
    /\ RoomForBurst

-----------------------------------------------------------------------------
\* What Append does to a sequence of frames.
LEMMA AppendFacts ==
    ASSUME NEW s \in Seq(Nat), NEW n \in Nat
    PROVE  /\ Append(s, n) \in Seq(Nat)
           /\ Len(Append(s, n)) = Len(s) + 1
           /\ \A i \in 1..Len(s) : Append(s, n)[i] = s[i]
           /\ Append(s, n)[Len(s) + 1] = n
  BY AppendProperties

\* What Head and Tail do to a non-empty sequence of frames.
LEMMA TailFacts ==
    ASSUME NEW s \in Seq(Nat), s # <<>>
    PROVE  /\ Head(s) \in Nat /\ Head(s) = s[1]
           /\ Len(s) \in Nat \ {0}
           /\ Tail(s) \in Seq(Nat)
           /\ Len(Tail(s)) = Len(s) - 1
           /\ \A i \in 1..Len(Tail(s)) : Tail(s)[i] = s[i + 1]
  BY HeadTailProperties, EmptySeq

\* Appending a frame newer than all keeps a sequence increasing.
LEMMA AppendIncreasing ==
    ASSUME NEW s \in Seq(Nat), NEW n \in Nat, Increasing(s), \A i \in 1..Len(s) : s[i] < n
    PROVE  Increasing(Append(s, n))
  BY AppendFacts DEF Increasing

\* Losing its oldest frame keeps a sequence increasing.
LEMMA TailIncreasing ==
    ASSUME NEW s \in Seq(Nat), s # <<>>, Increasing(s)
    PROVE  /\ Increasing(Tail(s))
           /\ \A i \in 1..Len(Tail(s)) : Head(s) < Tail(s)[i]
  BY TailFacts DEF Increasing

\* Two increasing sequences, one below the other, are increasing together.
LEMMA ConcatIncreasing ==
    ASSUME NEW s \in Seq(Nat), NEW t \in Seq(Nat), Increasing(s), Increasing(t), Below(s, t)
    PROVE  /\ s \o t \in Seq(Nat)
           /\ Increasing(s \o t)
           /\ \A n \in Nat : Upto(s, n) /\ Upto(t, n) => Upto(s \o t, n)
           /\ \A r \in Seq(Nat) : Below(s, r) /\ Below(t, r) => Below(s \o t, r)
           /\ \A r \in Seq(Nat) : Below(r, s) /\ Below(r, t) => Below(r, s \o t)
  <1>1. /\ s \o t \in Seq(Nat)
        /\ Len(s \o t) = Len(s) + Len(t)
        /\ \A i \in 1..Len(s) + Len(t) :
              (s \o t)[i] = IF i <= Len(s) THEN s[i] ELSE t[i - Len(s)]
    BY ConcatProperties
  <1>2. /\ Len(s) \in Nat /\ Len(t) \in Nat
        /\ \A i \in 1..Len(s) : s[i] \in Nat
        /\ \A i \in 1..Len(t) : t[i] \in Nat
    BY LenProperties, ElementOfSeq
  <1>3. \A i \in 1..Len(s \o t) :
            \/ i \in 1..Len(s) /\ (s \o t)[i] = s[i]
            \/ i - Len(s) \in 1..Len(t) /\ (s \o t)[i] = t[i - Len(s)]
    BY <1>1, <1>2
  <1>4. Increasing(s \o t)
    <2> SUFFICES ASSUME NEW i \in 1..Len(s \o t), NEW j \in 1..Len(s \o t), i < j
                 PROVE  (s \o t)[i] < (s \o t)[j]
      BY DEF Increasing
    <2>0. i \in Int /\ j \in Int /\ Len(s) \in Int
      BY <1>1, <1>2
    <2>1. CASE j <= Len(s)
      BY <1>1, <1>2, <2>1 DEF Increasing
    <2>2. CASE i <= Len(s) /\ Len(s) < j
      <3>1. i \in 1..Len(s) /\ j - Len(s) \in 1..Len(t)
        BY <1>1, <1>2, <2>2
      <3>2. (s \o t)[i] = s[i] /\ (s \o t)[j] = t[j - Len(s)]
        BY <1>1, <1>2, <2>2
      <3> QED BY <3>1, <3>2 DEF Below
    <2>3. CASE Len(s) < i
      <3>1. /\ i - Len(s) \in 1..Len(t) /\ j - Len(s) \in 1..Len(t)
            /\ i - Len(s) < j - Len(s)
        BY <1>1, <1>2, <2>3
      <3>2. (s \o t)[i] = t[i - Len(s)] /\ (s \o t)[j] = t[j - Len(s)]
        BY <1>1, <1>2, <2>3
      <3> QED BY <3>1, <3>2 DEF Increasing
    <2>4. j <= Len(s) \/ (i <= Len(s) /\ Len(s) < j) \/ Len(s) < i
      BY <2>0
    <2> QED BY <2>1, <2>2, <2>3, <2>4
  <1>5. \A n \in Nat : Upto(s, n) /\ Upto(t, n) => Upto(s \o t, n)
    BY <1>3 DEF Upto
  <1>6. \A r \in Seq(Nat) : Below(s, r) /\ Below(t, r) => Below(s \o t, r)
    BY <1>3 DEF Below
  <1>7. \A r \in Seq(Nat) : Below(r, s) /\ Below(r, t) => Below(r, s \o t)
    BY <1>3 DEF Below
  <1> QED BY <1>1, <1>4, <1>5, <1>6, <1>7

\* A sequence of at most one frame is increasing.
LEMMA ShortIncreasing ==
    ASSUME NEW s \in Seq(Nat), Len(s) <= 1
    PROVE  Increasing(s)
  BY LenProperties DEF Increasing

\* What is not newer than one frame is older than a newer one, and stays so when that
\* one is appended.
LEMMA UptoBelow ==
    ASSUME NEW s \in Seq(Nat), NEW m \in Nat, NEW n \in Nat, Upto(s, m), m < n
    PROVE  /\ \A i \in 1..Len(s) : s[i] \in Nat /\ s[i] < n
           /\ Upto(s, n)
           /\ Upto(Append(s, n), n)
  <1>1. \A i \in 1..Len(s) : s[i] \in Nat
    BY ElementOfSeq
  <1>2. \A i \in 1..Len(s) : s[i] < n
    BY <1>1 DEF Upto
  <1>3. Upto(s, n)
    BY <1>1, <1>2 DEF Upto
  <1>4. \A i \in 1..Len(Append(s, n)) : Append(s, n)[i] <= n
    <2> TAKE i \in 1..Len(Append(s, n))
    <2>1. CASE i \in 1..Len(s)
      BY <1>1, <1>2, <2>1, AppendFacts
    <2>2. CASE i = Len(s) + 1
      BY <2>2, AppendFacts
    <2> QED BY <2>1, <2>2, AppendFacts, LenProperties
  <1> QED BY <1>1, <1>2, <1>3, <1>4 DEF Upto

\* The history never grows beyond its limit.
LEMMA RememberFacts ==
    ASSUME NEW h \in Seq(Nat), NEW f \in Nat, Len(h) <= HistoryMax
    PROVE  Remember(h, f) \in Seq(Nat) /\ Len(Remember(h, f)) <= HistoryMax
  <1>1. /\ Append(h, f) \in Seq(Nat) /\ Len(Append(h, f)) = Len(h) + 1
        /\ Append(h, f) # <<>> /\ Len(h) \in Nat
    BY AppendFacts, LenProperties
  <1>2. Tail(Append(h, f)) \in Seq(Nat) /\ Len(Tail(Append(h, f))) = Len(h)
    BY <1>1, TailFacts
  <1> QED BY <1>1, <1>2, QueueAssumption DEF Remember

\* What get() in worker w's drain task does to its queue and its hands, and that it
\* touches nobody else's.
LEMMA GetFacts ==
    ASSUME NEW w \in Workers, TypeOK, Get(w)
    PROVE  /\ wq' \in [Workers -> Seq(Nat)]
           /\ inflight' \in [Workers -> Seq(Nat)]
           /\ \A v \in Workers : Len(inflight'[v]) <= 1 /\ WithinBound(wq'[v], WorkerMax)
           /\ \A v \in Workers \ {w} : wq'[v] = wq[v] /\ inflight'[v] = inflight[v]
           /\ \/ inflight'[w] = <<>> /\ wq'[w] = wq[w] /\ wq[w] = <<>>
              \/ /\ wq[w] # <<>>
                 /\ inflight'[w] = <<Head(wq[w])>>
                 /\ wq'[w] = Tail(wq[w])
  <1>1. CASE wq[w] = <<>>
    <2>1. wq' = wq /\ inflight' = [inflight EXCEPT ![w] = <<>>]
      BY <1>1 DEF Get
    <2>2. <<>> \in Seq(Nat) /\ Len(<<>>) = 0
      BY EmptySeq
    <2>3. /\ inflight' \in [Workers -> Seq(Nat)]
          /\ inflight'[w] = <<>>
          /\ \A v \in Workers \ {w} : inflight'[v] = inflight[v]
      BY <2>1, <2>2 DEF TypeOK
    <2> QED BY <1>1, <2>1, <2>2, <2>3 DEF TypeOK
  <1>2. CASE wq[w] # <<>>
    <2>1. /\ wq' = [wq EXCEPT ![w] = Tail(wq[w])]
          /\ inflight' = [inflight EXCEPT ![w] = <<Head(wq[w])>>]
      BY <1>2 DEF Get
    <2>2. /\ Head(wq[w]) \in Nat /\ Tail(wq[w]) \in Seq(Nat)
          /\ Len(wq[w]) \in Nat /\ Len(Tail(wq[w])) = Len(wq[w]) - 1
      BY <1>2, TailFacts DEF TypeOK
    <2>3. <<Head(wq[w])>> \in Seq(Nat) /\ Len(<<Head(wq[w])>>) = 1
      BY <2>2
    <2>4. WithinBound(Tail(wq[w]), WorkerMax)
      BY <2>2, QueueAssumption DEF WithinBound, TypeOK
    <2> QED BY <1>2, <2>1, <2>2, <2>3, <2>4 DEF TypeOK
  <1> QED BY <1>1, <1>2

\* get() keeps a worker's frames in order.
LEMMA GetSorted ==
    ASSUME NEW w \in Workers, TypeOK, Get(w), Sorted(w)
    PROVE  /\ Increasing(wq'[w])
           /\ Below(inflight'[w], wq'[w])
           /\ Upto(inflight'[w], latest) /\ Upto(wq'[w], latest)
           /\ \A s \in Seq(Nat) : Below(s, wq[w]) =>
                    Below(s, inflight'[w]) /\ Below(s, wq'[w])
  <1>1. CASE inflight'[w] = <<>> /\ wq'[w] = wq[w] /\ wq[w] = <<>>
    BY <1>1, EmptySeq DEF Sorted, Below, Upto
  <1>2. CASE wq[w] # <<>> /\ inflight'[w] = <<Head(wq[w])>> /\ wq'[w] = Tail(wq[w])
    <2>1. wq[w] \in Seq(Nat)
      BY DEF TypeOK
    <2>2. /\ Head(wq[w]) \in Nat /\ Head(wq[w]) = wq[w][1]
          /\ Len(wq[w]) \in Nat \ {0}
          /\ Len(Tail(wq[w])) = Len(wq[w]) - 1
          /\ \A i \in 1..Len(Tail(wq[w])) : Tail(wq[w])[i] = wq[w][i + 1]
      BY <1>2, <2>1, TailFacts
    <2>3. /\ Increasing(Tail(wq[w]))
          /\ \A i \in 1..Len(Tail(wq[w])) : Head(wq[w]) < Tail(wq[w])[i]
      BY <1>2, <2>1, TailIncreasing DEF Sorted
    <2>4. Len(inflight'[w]) = 1 /\ inflight'[w][1] = Head(wq[w])
      BY <1>2
    <2>5. Below(inflight'[w], wq'[w])
      BY <1>2, <2>3, <2>4 DEF Below
    <2>6. Upto(inflight'[w], latest) /\ Upto(wq'[w], latest)
      BY <1>2, <2>2, <2>4 DEF Upto, Sorted
    <2>7. ASSUME NEW s \in Seq(Nat), Below(s, wq[w])
          PROVE  Below(s, inflight'[w]) /\ Below(s, wq'[w])
      <3>1. Below(s, inflight'[w])
        BY <2>2, <2>4, <2>7 DEF Below
      <3>2. Below(s, wq'[w])
        BY <1>2, <2>2, <2>7 DEF Below
      <3> QED BY <3>1, <3>2
    <2> QED BY <1>2, <2>3, <2>5, <2>6, <2>7
  <1> QED BY <1>1, <1>2, GetFacts

-----------------------------------------------------------------------------
\* The first state satisfies the invariant.
LEMMA InitInv == Init => IInv
  <1> SUFFICES ASSUME Init PROVE IInv
    OBVIOUS
  <1>1. TypeOK
    BY EmptySeq, QueueAssumption DEF Init, TypeOK, WithinBound
  <1>2. BurstHasFrames /\ IngestSorted /\ RoomForBurst
    BY EmptySeq DEF Init, BurstHasFrames, IngestSorted, RoomForBurst, Increasing
  <1>3. \A w \in Workers : Sorted(w)
    BY EmptySeq DEF Init, Sorted, Increasing, Below, Upto
  <1> QED BY <1>1, <1>2, <1>3 DEF IInv

\* Every step keeps the types and the bounds.
LEMMA TypeStep == TypeOK /\ BurstHasFrames /\ [Next]_vars => TypeOK' /\ BurstHasFrames'
  <1> SUFFICES ASSUME TypeOK, BurstHasFrames, [Next]_vars
               PROVE  TypeOK' /\ BurstHasFrames'
    OBVIOUS
  <1> USE QueueAssumption
  <1>1. CASE Start
    BY <1>1 DEF Start, TypeOK, BurstHasFrames
  <1>2. CASE Push
    <2>1. pushed + 1 \in 0..MaxFrames /\ pushed' = pushed + 1
      BY <1>2 DEF Push, TypeOK
    <2>2. /\ Append(ingest, pushed + 1) \in Seq(Nat)
          /\ Len(Append(ingest, pushed + 1)) = Len(ingest) + 1 /\ Len(ingest) \in Nat
      BY <2>1, AppendFacts, LenProperties DEF TypeOK
    <2>3. ingest' \in Seq(Nat) /\ WithinBound(ingest', IngestMax)
      BY <1>2, <2>2 DEF Push, TypeOK, WithinBound, Full
    <2>4. BurstHasFrames'
      BY <1>2 DEF Push, LoopFree, BurstHasFrames
    <2> QED BY <1>2, <2>1, <2>3, <2>4 DEF Push, TypeOK
  <1>3. CASE RunWake
    BY <1>3 DEF RunWake, TypeOK, BurstHasFrames
  <1>4. CASE RunFrame
    <2> DEFINE f == Head(ingest)
    <2>1. /\ f \in Nat /\ Tail(ingest) \in Seq(Nat)
          /\ Len(ingest) \in Nat \ {0} /\ Len(Tail(ingest)) = Len(ingest) - 1
      BY <1>4, TailFacts DEF RunFrame, TypeOK, BurstHasFrames
    <2>2. latest' \in Nat /\ ingest' \in Seq(Nat) /\ WithinBound(ingest', IngestMax)
      BY <1>4, <2>1 DEF RunFrame, TypeOK, WithinBound
    <2>3. history' \in Seq(Nat) /\ Len(history') <= HistoryMax
      BY <1>4, <2>1, RememberFacts DEF RunFrame, TypeOK
    <2>4. Publish(f)
      BY <1>4 DEF RunFrame
    <2>5. ASSUME NEW w \in Workers
          PROVE  /\ Append(wq[w], f) \in Seq(Nat)
                 /\ Len(Append(wq[w], f)) = Len(wq[w]) + 1 /\ Len(wq[w]) \in Nat
      BY <2>1, AppendFacts, LenProperties DEF TypeOK
    <2>6. wq' \in [Workers -> Seq(Nat)]
      BY <2>4, <2>5 DEF Publish, TypeOK
    <2>7. ASSUME NEW w \in Workers PROVE WithinBound(wq'[w], WorkerMax)
      BY <2>4, <2>5 DEF Publish, TypeOK, WithinBound, Full
    <2>8. dropped' \in [Workers -> SUBSET Nat]
      BY <2>1, <2>4 DEF Publish, TypeOK
    <2>9. /\ run' \in {"waiting", "processing", "dead", "cancelled"}
          /\ run' = "processing" => Len(ingest) # 1
      BY <1>4 DEF RunFrame
    <2>10. BurstHasFrames'
      <3>1. Len(ingest) # 1 => Len(Tail(ingest)) # 0
        BY <2>1
      <3>2. Tail(ingest) = <<>> => Len(Tail(ingest)) = 0
        BY EmptySeq
      <3> QED BY <1>4, <2>9, <3>1, <3>2 DEF RunFrame, BurstHasFrames
    <2> QED BY <1>4, <2>2, <2>3, <2>6, <2>7, <2>8, <2>9, <2>10 DEF RunFrame, TypeOK
  <1>5. CASE RunRaises
    <2>1. /\ Tail(ingest) \in Seq(Nat) /\ Len(Tail(ingest)) = Len(ingest) - 1
          /\ Len(ingest) \in Nat
      BY <1>5, TailFacts DEF RunRaises, TypeOK, BurstHasFrames
    <2> QED BY <1>5, <2>1 DEF RunRaises, TypeOK, WithinBound, BurstHasFrames
  <1>6. ASSUME NEW w \in Workers, Take(w) PROVE TypeOK' /\ BurstHasFrames'
    <2>1. Get(w)
      BY <1>6 DEF Take
    <2> QED BY <1>6, <2>1, GetFacts DEF Take, TypeOK, BurstHasFrames
  <1>7. ASSUME NEW w \in Workers, Handled(w) PROVE TypeOK' /\ BurstHasFrames'
    <2>1. Get(w) /\ inflight[w] \in Seq(Nat) /\ inflight[w] # <<>>
      BY <1>7 DEF Handled, TypeOK
    <2>2. Append(out[w], Head(inflight[w])) \in Seq(Nat)
      BY <2>1, TailFacts, AppendFacts DEF TypeOK
    <2>3. out' \in [Workers -> Seq(Nat)]
      BY <1>7, <2>2 DEF Handled, TypeOK
    <2> QED BY <1>7, <2>1, <2>3, GetFacts DEF Handled, TypeOK, BurstHasFrames
  <1>8. ASSUME NEW w \in Workers, Failed(w) PROVE TypeOK' /\ BurstHasFrames'
    <2>1. Get(w) /\ inflight[w] \in Seq(Nat) /\ inflight[w] # <<>>
      BY <1>8 DEF Failed, TypeOK
    <2>2. failed' \in [Workers -> SUBSET Nat]
      BY <1>8, <2>1, TailFacts DEF Failed, TypeOK
    <2> QED BY <1>8, <2>1, <2>2, GetFacts DEF Failed, TypeOK, BurstHasFrames
  <1>9. CASE CancelRun
    BY <1>9 DEF CancelRun, TypeOK, BurstHasFrames
  <1>10. CASE StopPipeline
    <2>1. PICK reached \in SUBSET {w \in Workers : inflight[w] # <<>>} :
              out' = [w \in Workers |->
                        IF w \in reached THEN out[w] \o inflight[w] ELSE out[w]]
      BY <1>10 DEF StopPipeline
    <2>2. \A w \in Workers : out[w] \o inflight[w] \in Seq(Nat)
      BY ConcatProperties DEF TypeOK
    <2>3. out' \in [Workers -> Seq(Nat)]
      BY <2>1, <2>2 DEF TypeOK
    <2>4. /\ inflight' \in [Workers -> Seq(Nat)]
          /\ \A w \in Workers : Len(inflight'[w]) <= 1
      BY <1>10, EmptySeq DEF StopPipeline
    <2> QED BY <1>10, <2>3, <2>4 DEF StopPipeline, TypeOK, BurstHasFrames
  <1>11. CASE UNCHANGED vars
    BY <1>11 DEF vars, TypeOK, BurstHasFrames
  <1> QED
    BY <1>1, <1>2, <1>3, <1>4, <1>5, <1>6, <1>7, <1>8, <1>9, <1>10, <1>11 DEF Next

\* Every step keeps the ingest queue in order and ahead of latest.
LEMMA IngestStep ==
    TypeOK /\ BurstHasFrames /\ IngestSorted /\ [Next]_vars => IngestSorted'
  <1> SUFFICES ASSUME TypeOK, BurstHasFrames, IngestSorted, [Next]_vars
               PROVE  IngestSorted'
    OBVIOUS
  <1>1. ASSUME UNCHANGED <<ingest, latest, pushed>> PROVE IngestSorted'
    BY <1>1 DEF IngestSorted, Increasing
  <1>2. CASE Push
    <2>1. /\ pushed' = pushed + 1 /\ latest' = latest
          /\ ingest' = ingest \/ ingest' = Append(ingest, pushed + 1)
          /\ pushed \in Nat /\ latest \in Nat /\ ingest \in Seq(Nat)
      BY <1>2 DEF Push, TypeOK
    <2>2. \A i \in 1..Len(ingest) : ingest[i] \in Nat
      BY <2>1, ElementOfSeq
    <2>3. CASE ingest' = ingest
      BY <2>1, <2>2, <2>3 DEF IngestSorted, Increasing
    <2>4. CASE ingest' = Append(ingest, pushed + 1)
      <3>1. /\ Len(ingest') = Len(ingest) + 1 /\ Len(ingest) \in Nat
            /\ \A i \in 1..Len(ingest) : ingest'[i] = ingest[i]
            /\ ingest'[Len(ingest) + 1] = pushed + 1
        BY <2>1, <2>4, AppendFacts, LenProperties
      <3>2. Increasing(ingest)'
        <4>1. pushed + 1 \in Nat /\ \A i \in 1..Len(ingest) : ingest[i] < pushed + 1
          BY <2>1, <2>2 DEF IngestSorted
        <4>2. Increasing(Append(ingest, pushed + 1))
          BY <2>1, <4>1, AppendIncreasing DEF IngestSorted
        <4> QED BY <2>4, <4>2 DEF Increasing
      <3>3. \A i \in 1..Len(ingest') : latest' < ingest'[i] /\ ingest'[i] <= pushed'
        BY <2>1, <2>2, <3>1 DEF IngestSorted
      <3> QED BY <2>1, <3>2, <3>3 DEF IngestSorted
    <2> QED BY <2>1, <2>3, <2>4
  <1>3. ASSUME ingest # <<>>, ingest' = Tail(ingest), pushed' = pushed,
               latest' = latest \/ latest' = Head(ingest)
        PROVE  IngestSorted'
    <2>1. /\ Head(ingest) \in Nat /\ Head(ingest) = ingest[1]
          /\ Len(ingest) \in Nat \ {0}
          /\ Len(ingest') = Len(ingest) - 1
          /\ \A i \in 1..Len(ingest') : ingest'[i] = ingest[i + 1]
          /\ \A i \in 1..Len(ingest) : ingest[i] \in Nat
          /\ latest \in Nat /\ pushed \in Nat
      BY <1>3, TailFacts, ElementOfSeq DEF TypeOK
    <2>2. /\ Increasing(ingest')
          /\ \A i \in 1..Len(ingest') : Head(ingest) < ingest'[i]
      BY <1>3, TailIncreasing DEF TypeOK, IngestSorted
    <2>3. \A i \in 1..Len(ingest') : latest' < ingest'[i] /\ ingest'[i] <= pushed'
      BY <1>3, <2>1, <2>2 DEF IngestSorted
    <2>4. latest' <= pushed'
      BY <1>3, <2>1 DEF IngestSorted
    <2> QED BY <2>2, <2>3, <2>4 DEF IngestSorted, Increasing
  <1>4. CASE RunFrame
    BY <1>3, <1>4 DEF RunFrame, BurstHasFrames
  <1>5. CASE RunRaises
    BY <1>3, <1>5 DEF RunRaises, BurstHasFrames
  <1> QED
    BY <1>1, <1>2, <1>4, <1>5
    DEF Next, Start, RunWake, Take, Handled, Failed, CancelRun, StopPipeline, vars

\* Every step keeps each worker's frames in order.
LEMMA SortedStep ==
    ASSUME TypeOK, TypeOK', BurstHasFrames, IngestSorted,
           \A w \in Workers : Sorted(w), [Next]_vars, NEW u \in Workers
    PROVE  Sorted(u)'
  <1>1. ASSUME out'[u] = out[u], inflight'[u] = inflight[u], wq'[u] = wq[u], latest' = latest
        PROVE  Sorted(u)'
    BY <1>1 DEF Sorted, Increasing, Below, Upto
  <1>2. CASE RunFrame
    <2> DEFINE f == Head(ingest)
    <2>1. /\ f \in Nat /\ latest < f /\ latest \in Nat
      BY <1>2, TailFacts DEF RunFrame, BurstHasFrames, IngestSorted, TypeOK
    <2>2. /\ latest' = f /\ out' = out /\ inflight' = inflight
          /\ wq'[u] = wq[u] \/ wq'[u] = Append(wq[u], f)
      BY <1>2 DEF RunFrame, Publish
    <2>3. /\ out[u] \in Seq(Nat) /\ inflight[u] \in Seq(Nat) /\ wq[u] \in Seq(Nat)
      BY DEF TypeOK
    <2>4. /\ \A i \in 1..Len(out[u]) : out[u][i] \in Nat /\ out[u][i] < f
          /\ \A i \in 1..Len(inflight[u]) : inflight[u][i] \in Nat /\ inflight[u][i] < f
          /\ \A i \in 1..Len(wq[u]) : wq[u][i] \in Nat /\ wq[u][i] < f
      BY <2>1, <2>3, UptoBelow DEF Sorted
    <2> HIDE DEF f
    <2>5. Upto(out[u], f) /\ Upto(inflight[u], f) /\ Upto(wq[u], f) /\ Upto(Append(wq[u], f), f)
      BY <2>1, <2>3, UptoBelow DEF Sorted
    <2>6. CASE wq'[u] = wq[u]
      BY <2>2, <2>5, <2>6 DEF Sorted, Increasing, Below, Upto
    <2>7. CASE wq'[u] = Append(wq[u], f)
      <3>1. /\ Len(wq'[u]) = Len(wq[u]) + 1 /\ Len(wq[u]) \in Nat
            /\ \A i \in 1..Len(wq[u]) : wq'[u][i] = wq[u][i]
            /\ wq'[u][Len(wq[u]) + 1] = f
        BY <2>1, <2>3, <2>7, AppendFacts, LenProperties
      <3>2. Increasing(wq'[u])
        BY <2>1, <2>3, <2>4, <2>7, AppendIncreasing DEF Sorted
      <3>3. \A i \in 1..Len(wq'[u]) : i \in 1..Len(wq[u]) \/ wq'[u][i] = f
        BY <3>1
      <3>4. Below(out[u], wq'[u]) /\ Below(inflight[u], wq'[u])
        BY <2>4, <3>1, <3>3 DEF Sorted, Below
      <3> QED BY <2>2, <2>5, <2>7, <3>2, <3>4 DEF Sorted, Increasing, Below, Upto
    <2> QED BY <2>2, <2>6, <2>7
  <1>3. ASSUME NEW w \in Workers, Take(w) PROVE Sorted(u)'
    <2>1. CASE u # w
      BY <1>1, <1>3, <2>1, GetFacts DEF Take
    <2>2. CASE u = w
      <3>1. Get(u) /\ out' = out /\ latest' = latest /\ out[u] \in Seq(Nat) /\ Sorted(u)
        BY <1>3, <2>2 DEF Take, TypeOK
      <3>2. /\ Increasing(wq'[u]) /\ Below(inflight'[u], wq'[u])
            /\ Upto(inflight'[u], latest) /\ Upto(wq'[u], latest)
            /\ Below(out[u], inflight'[u]) /\ Below(out[u], wq'[u])
        BY <3>1, GetSorted DEF Sorted
      <3> QED BY <3>1, <3>2 DEF Sorted, Increasing, Below, Upto
    <2> QED BY <2>1, <2>2
  <1>4. ASSUME NEW w \in Workers, Handled(w) PROVE Sorted(u)'
    <2>1. CASE u # w
      BY <1>1, <1>4, <2>1, GetFacts DEF Handled, TypeOK
    <2>2. CASE u = w
      <3> DEFINE f == Head(inflight[u])
      <3>1. /\ Get(u) /\ latest' = latest /\ Sorted(u)
            /\ inflight[u] # <<>> /\ out' = [out EXCEPT ![u] = Append(out[u], f)]
            /\ out[u] \in Seq(Nat) /\ inflight[u] \in Seq(Nat) /\ wq[u] \in Seq(Nat)
        BY <1>4, <2>2 DEF Handled, TypeOK
      <3>2. f \in Nat /\ f = inflight[u][1] /\ Len(inflight[u]) \in Nat \ {0}
        BY <3>1, TailFacts
      <3>3. /\ \A i \in 1..Len(out[u]) : out[u][i] < f
            /\ \A i \in 1..Len(wq[u]) : f < wq[u][i]
            /\ f <= latest
        BY <3>1, <3>2 DEF Sorted, Below, Upto
      <3>4. /\ out'[u] = Append(out[u], f) /\ out'[u] \in Seq(Nat)
            /\ Len(out'[u]) = Len(out[u]) + 1 /\ Len(out[u]) \in Nat
            /\ \A i \in 1..Len(out[u]) : out'[u][i] = out[u][i]
            /\ out'[u][Len(out[u]) + 1] = f
        BY <3>1, <3>2, AppendFacts, LenProperties DEF TypeOK
      <3>5. Increasing(out'[u])
        BY <3>1, <3>2, <3>3, <3>4, AppendIncreasing DEF Sorted
      <3>6. \A i \in 1..Len(out'[u]) : i \in 1..Len(out[u]) \/ out'[u][i] = f
        BY <3>4
      <3>7. Below(out'[u], wq[u]) /\ Upto(out'[u], latest)
        BY <3>1, <3>3, <3>4, <3>6 DEF Sorted, Below, Upto
      <3>8. /\ Increasing(wq'[u]) /\ Below(inflight'[u], wq'[u])
            /\ Upto(inflight'[u], latest) /\ Upto(wq'[u], latest)
            /\ Below(out'[u], inflight'[u]) /\ Below(out'[u], wq'[u])
        BY <3>1, <3>4, <3>7, GetSorted
      <3> QED BY <3>1, <3>5, <3>7, <3>8 DEF Sorted, Increasing, Below, Upto
    <2> QED BY <2>1, <2>2
  <1>5. ASSUME NEW w \in Workers, Failed(w) PROVE Sorted(u)'
    <2>1. CASE u # w
      BY <1>1, <1>5, <2>1, GetFacts DEF Failed
    <2>2. CASE u = w
      <3>1. Get(u) /\ out' = out /\ latest' = latest /\ out[u] \in Seq(Nat) /\ Sorted(u)
        BY <1>5, <2>2 DEF Failed, TypeOK
      <3>2. /\ Increasing(wq'[u]) /\ Below(inflight'[u], wq'[u])
            /\ Upto(inflight'[u], latest) /\ Upto(wq'[u], latest)
            /\ Below(out[u], inflight'[u]) /\ Below(out[u], wq'[u])
        BY <3>1, GetSorted DEF Sorted
      <3> QED BY <3>1, <3>2 DEF Sorted, Increasing, Below, Upto
    <2> QED BY <2>1, <2>2
  <1>6. CASE StopPipeline
    <2>1. /\ out'[u] = out[u] \/ out'[u] = out[u] \o inflight[u]
          /\ inflight'[u] = <<>> /\ wq' = wq /\ latest' = latest
      BY <1>6 DEF StopPipeline
    <2>2. /\ out[u] \in Seq(Nat) /\ inflight[u] \in Seq(Nat) /\ wq[u] \in Seq(Nat)
          /\ Len(inflight[u]) <= 1 /\ latest \in Nat
      BY DEF TypeOK
    <2>3. /\ Increasing(out[u] \o inflight[u])
          /\ Below(out[u] \o inflight[u], wq[u]) /\ Upto(out[u] \o inflight[u], latest)
      BY <2>2, ConcatIncreasing, ShortIncreasing DEF Sorted
    <2>4. /\ Increasing(out'[u]) /\ Below(out'[u], wq[u]) /\ Upto(out'[u], latest)
      BY <2>1, <2>3 DEF Sorted
    <2>5. \A s : Below(s, <<>>) /\ Below(<<>>, s) /\ Upto(<<>>, latest)
      BY EmptySeq DEF Below, Upto
    <2> QED BY <2>1, <2>4, <2>5 DEF Sorted, Increasing, Below, Upto
  <1> QED
    BY <1>1, <1>2, <1>3, <1>4, <1>5, <1>6
    DEF Next, Start, Push, RunWake, RunRaises, CancelRun, vars

\* Every step keeps room for the rest of the burst in the queues of idle workers: the
\* burst is at most the ingest queue, and each frame published takes one place.
LEMMA RoomStep ==
    TypeOK /\ BurstHasFrames /\ RoomForBurst /\ [Next]_vars => RoomForBurst'
  <1> SUFFICES ASSUME TypeOK, BurstHasFrames, RoomForBurst, [Next]_vars,
                      (run = "processing")', BurstFits, WorkerMax > 0,
                      NEW w \in Workers, idle'[w]
               PROVE  Len(wq'[w]) + Len(ingest') <= IngestMax
    BY DEF RoomForBurst, BurstFits
  <1> USE QueueAssumption
  <1>1. CASE RunWake
    <2>1. idle'[w] = (wq[w] = <<>>) /\ wq' = wq /\ ingest' = ingest
      BY <1>1 DEF RunWake
    <2>2. Len(wq'[w]) = 0
      BY <2>1, EmptySeq
    <2>3. Len(ingest) <= IngestMax /\ Len(ingest) \in Nat
      BY LenProperties DEF TypeOK, WithinBound, BurstFits
    <2> QED BY <2>1, <2>2, <2>3
  <1>2. CASE RunFrame
    <2>1. /\ run = "processing" /\ idle' = idle
          /\ wq'[w] = wq[w] \/ wq'[w] = Append(wq[w], Head(ingest))
          /\ ingest' = Tail(ingest) /\ ingest # <<>>
      BY <1>2 DEF RunFrame, Publish, BurstHasFrames
    <2>2. /\ Len(ingest') = Len(ingest) - 1 /\ Len(ingest) \in Nat
          /\ Head(ingest) \in Nat
      BY <2>1, TailFacts DEF TypeOK
    <2>3. Len(wq[w]) \in Nat /\ Len(wq'[w]) <= Len(wq[w]) + 1
      BY <2>1, <2>2, AppendFacts, LenProperties DEF TypeOK
    <2>4. Len(wq[w]) + Len(ingest) <= IngestMax
      BY <2>1 DEF RoomForBurst
    <2>5. Len(wq'[w]) \in Nat
      BY <2>1, <2>2, <2>3, AppendFacts, LenProperties DEF TypeOK
    <2> QED BY <2>2, <2>3, <2>4, <2>5
  <1>3. CASE UNCHANGED <<run, wq, ingest, idle>>
    BY <1>3 DEF RoomForBurst
  <1> QED
    BY <1>1, <1>2, <1>3
    DEF Next, Start, Push, RunRaises, Take, Handled, Failed, Draining, LoopFree,
        CancelRun, StopPipeline, vars

\* Every step keeps the whole invariant.
LEMMA InvStep == IInv /\ [Next]_vars => IInv'
  <1> SUFFICES ASSUME IInv, [Next]_vars PROVE IInv'
    OBVIOUS
  <1>1. TypeOK' /\ BurstHasFrames'
    BY TypeStep DEF IInv
  <1>2. IngestSorted' /\ RoomForBurst'
    BY IngestStep, RoomStep DEF IInv
  <1>3. \A w \in Workers : Sorted(w)'
    BY <1>1, SortedStep DEF IInv
  <1> QED BY <1>1, <1>2, <1>3 DEF IInv

\* The strengthened invariant holds in every reachable state.
LEMMA Invariance == Spec => []IInv
  BY InitInv, InvStep, PTL DEF Spec

-----------------------------------------------------------------------------
\* Types and bounds of every queue, for every configuration of the mission.
THEOREM TypeCorrect == Spec => []TypeOK
  <1>1. IInv => TypeOK
    BY DEF IInv
  <1> QED BY Invariance, <1>1, PTL

\* The pieces of a worker's frames are in order, so is the whole.
LEMMA PiecesInOrder ==
    ASSUME TypeOK, NEW w \in Workers, Sorted(w)
    PROVE  Increasing(Fed(w)) /\ \A f \in Range(Fed(w)) : f <= latest
  <1>1. /\ out[w] \in Seq(Nat) /\ inflight[w] \in Seq(Nat) /\ wq[w] \in Seq(Nat)
        /\ Len(inflight[w]) <= 1 /\ latest \in Nat
    BY DEF TypeOK
  <1> DEFINE front == out[w] \o inflight[w]
  <1>2. /\ front \in Seq(Nat) /\ Increasing(front)
        /\ Upto(front, latest) /\ Below(front, wq[w])
    BY <1>1, ShortIncreasing, ConcatIncreasing DEF Sorted
  <1>3. /\ front \o wq[w] \in Seq(Nat) /\ Increasing(front \o wq[w])
        /\ Upto(front \o wq[w], latest)
    <2> HIDE DEF front
    <2> QED BY <1>1, <1>2, ConcatIncreasing DEF Sorted
  <1>4. Fed(w) = front \o wq[w]
    BY DEF Fed
  <1>5. \A f \in Range(Fed(w)) : f <= latest
    BY <1>3, <1>4, LenProperties DEF Range, Upto
  <1> QED BY <1>3, <1>4, <1>5

\* Whatever is dropped, fails or is cut short by stop(), each worker handles frames in
\* the order of the POSTs and none twice, and never one newer than latest_envelope.
THEOREM FramesInOrder == Spec => []InOrder
  <1>1. IInv => InOrder
    BY PiecesInOrder DEF IInv, InOrder
  <1> QED BY Invariance, <1>1, PTL

\* With worker queues no shorter than the ingest queue, a worker that had caught up
\* when a burst began loses none of it.
THEOREM IdleNeverDrops == Spec => IdleWorkerNeverDrops
  <1>1. IInv /\ [Next]_vars =>
            [BurstFits => \A w \in Workers : idle[w] => dropped'[w] = dropped[w]]_vars
    <2> SUFFICES ASSUME IInv, Next, BurstFits, NEW w \in Workers, idle[w]
                 PROVE  dropped'[w] = dropped[w]
      BY DEF vars
    <2>1. CASE RunFrame
      <3>1. run = "processing" /\ ingest # <<>> /\ Publish(Head(ingest))
        BY <2>1 DEF RunFrame, IInv, BurstHasFrames
      <3>2. Len(ingest) \in Nat \ {0} /\ Len(wq[w]) \in Nat
        BY <3>1, TailFacts, LenProperties DEF IInv, TypeOK
      <3>3. WorkerMax > 0 => Len(wq[w]) + Len(ingest) <= IngestMax
        BY <3>1 DEF IInv, RoomForBurst
      <3>4. ~Full(wq[w], WorkerMax)
        BY <3>2, <3>3, QueueAssumption DEF Full, BurstFits
      <3> QED BY <3>1, <3>4 DEF Publish
    <2> QED
      BY <2>1 DEF Next, Start, Push, RunWake, RunRaises, Take, Handled, Failed,
                  CancelRun, StopPipeline
  <1> QED BY Invariance, <1>1, PTL DEF Spec, IdleWorkerNeverDrops

-----------------------------------------------------------------------------
Seen == [w \in Workers |-> Newest(out[w])]

\* The newest of a worker's handled frames is one of them, or 0.
LEMMA NewestFacts ==
    ASSUME NEW s \in Seq(Nat)
    PROVE  /\ Newest(s) \in Nat
           /\ \A n \in Nat : Upto(s, n) => Newest(s) <= n
           /\ \A n \in Nat : Newest(Append(s, n)) = n
           /\ \A n \in Nat, t \in Seq(Nat) :
                 Len(t) >= 1 /\ t[1] = n /\ Below(s, t) => Newest(s) <= n
  <1>1. CASE s = <<>>
    <2>1. \A n \in Nat : Newest(Append(s, n)) = n
      BY <1>1, AppendFacts, EmptySeq DEF Newest
    <2> QED BY <1>1, <2>1 DEF Newest
  <1>2. CASE s # <<>>
    <2>1. Len(s) \in 1..Len(s) /\ Newest(s) = s[Len(s)] /\ s[Len(s)] \in Nat
      BY <1>2, TailFacts, ElementOfSeq DEF Newest
    <2>2. \A n \in Nat : Newest(Append(s, n)) = n
      BY AppendFacts, LenProperties, EmptySeq DEF Newest
    <2>3. \A n \in Nat : Upto(s, n) => Newest(s) <= n
      BY <2>1 DEF Upto
    <2>4. ASSUME NEW n \in Nat, NEW t \in Seq(Nat), Len(t) >= 1, t[1] = n, Below(s, t)
          PROVE  Newest(s) <= n
      <3>1. 1 \in 1..Len(t)
        BY <2>4, LenProperties
      <3>2. s[Len(s)] < t[1]
        BY <2>1, <2>4, <3>1 DEF Below
      <3> QED BY <2>1, <2>4, <3>2
    <2> QED BY <2>1, <2>2, <2>3, <2>4
  <1> QED BY <1>1, <1>2

\* A worker's progress in one step: nothing new, or the frame it held.
LEMMA ProgressFacts ==
    ASSUME IInv, NEW w \in Workers,
           out'[w] = out[w] \/ (inflight[w] # <<>> /\ out'[w] = Append(out[w], Head(inflight[w])))
    PROVE  /\ Newest(out'[w]) \in Nat
           /\ Newest(out'[w]) >= Newest(out[w])
           /\ Newest(out'[w]) <= latest
  <1>1. /\ out[w] \in Seq(Nat) /\ inflight[w] \in Seq(Nat) /\ latest \in Nat
        /\ Sorted(w)
    BY DEF IInv, TypeOK
  <1>2. Newest(out[w]) \in Nat /\ Newest(out[w]) <= latest
    BY <1>1, NewestFacts DEF Sorted
  <1>3. CASE out'[w] = out[w]
    BY <1>2, <1>3
  <1>4. CASE inflight[w] # <<>> /\ out'[w] = Append(out[w], Head(inflight[w]))
    <2> DEFINE f == Head(inflight[w])
    <2>1. /\ f \in Nat /\ Len(inflight[w]) >= 1 /\ inflight[w][1] = f
          /\ 1 \in 1..Len(inflight[w])
      BY <1>1, <1>4, TailFacts
    <2>2. f <= latest
      BY <1>1, <2>1 DEF Sorted, Upto
    <2>3. Newest(out[w]) <= f
      BY <1>1, <2>1, NewestFacts DEF Sorted
    <2>4. Newest(out'[w]) = f
      BY <1>1, <1>4, <2>1, NewestFacts
    <2> QED BY <2>1, <2>2, <2>3, <2>4
  <1> QED BY <1>3, <1>4

\* A frame in flight, appended by stop() as a sequence, is appended as a frame.
LEMMA InflightAppended ==
    ASSUME NEW s \in Seq(Nat), NEW t \in Seq(Nat), Len(t) = 1, t # <<>>
    PROVE  s \o t = Append(s, Head(t))
  <1>0. Head(t) = t[1] /\ Head(t) \in Nat
    BY TailFacts
  <1>1. Len(s) \in Nat
    BY LenProperties
  <1>2. /\ s \o t \in Seq(Nat) /\ Len(s \o t) = Len(s) + 1
        /\ \A i \in 1..Len(s) + 1 :
              (s \o t)[i] = IF i <= Len(s) THEN s[i] ELSE t[i - Len(s)]
    BY ConcatProperties
  <1>3. /\ Append(s, Head(t)) \in Seq(Nat) /\ Len(Append(s, Head(t))) = Len(s) + 1
        /\ \A i \in 1..Len(s) : Append(s, Head(t))[i] = s[i]
        /\ Append(s, Head(t))[Len(s) + 1] = Head(t)
    BY <1>0, <1>1, AppendFacts
  <1>4. ASSUME NEW i \in 1..Len(s) + 1
        PROVE  (s \o t)[i] = Append(s, Head(t))[i]
    <2>1. CASE i \in 1..Len(s)
      BY <1>1, <1>2, <1>3, <2>1
    <2>2. CASE i = Len(s) + 1
      <3>1. i - Len(s) = 1 /\ ~(i <= Len(s))
        BY <1>1, <2>2
      <3>2. (s \o t)[i] = t[1]
        BY <1>2, <3>1
      <3> QED BY <1>0, <1>1, <1>3, <2>2, <3>2
    <2> QED BY <1>1, <2>1, <2>2
  <1> QED BY <1>0, <1>2, <1>3, <1>4, SeqEqual

\* The pipeline implements the lossy feed: every step offers a newer frame, lets some
\* workers advance to a frame already offered, or changes nothing the feed shows.
THEOREM PipelineIsLossyFeed == Spec => ImplementsFeed
  <1>1. Init => Feed!Init
    BY DEF Init, Feed!Init, Newest
  <1>2. IInv /\ [Next]_vars => [Feed!Next]_(Feed!feedVars)
    <2> SUFFICES ASSUME IInv, [Next]_vars
                 PROVE  [Feed!Next]_(Feed!feedVars)
      OBVIOUS
    <2>1. ASSUME UNCHANGED <<latest, out>> PROVE UNCHANGED Feed!feedVars
      BY <2>1 DEF Feed!feedVars
    <2>2. CASE RunFrame
      <3>1. /\ latest' = Head(ingest) /\ out' = out
            /\ ingest \in Seq(Nat) /\ ingest # <<>> /\ latest \in Nat
        BY <2>2 DEF RunFrame, IInv, TypeOK, BurstHasFrames
      <3>2. latest' \in Nat /\ latest' > latest
        BY <3>1, TailFacts DEF IInv, IngestSorted
      <3>3. Seen' = Seen
        BY <3>1 DEF Seen
      <3> QED BY <3>2, <3>3 DEF Seen, Feed!Next, Feed!Offer
    <2>3. ASSUME latest' = latest,
                 \A w \in Workers :
                    \/ out'[w] = out[w]
                    \/ inflight[w] # <<>> /\ out'[w] = Append(out[w], Head(inflight[w]))
          PROVE  Feed!Next
      <3>1. \A w \in Workers : /\ Newest(out'[w]) \in Nat
                               /\ Newest(out'[w]) >= Newest(out[w])
                               /\ Newest(out'[w]) <= latest
        BY <2>3, ProgressFacts
      <3>2. [w \in Workers |-> Newest(out'[w])] \in [Workers -> Nat]
        BY <3>1
      <3> QED BY <2>3, <3>1, <3>2 DEF Feed!Next, Feed!Deliver
    <2>4. ASSUME NEW w \in Workers, Handled(w) PROVE Feed!Next
      <3>1. /\ latest' = latest /\ inflight[w] # <<>>
            /\ out' = [out EXCEPT ![w] = Append(out[w], Head(inflight[w]))]
        BY <2>4 DEF Handled
      <3>2. \A v \in Workers :
                \/ out'[v] = out[v]
                \/ inflight[v] # <<>> /\ out'[v] = Append(out[v], Head(inflight[v]))
        BY <3>1 DEF IInv, TypeOK
      <3> QED BY <2>3, <3>1, <3>2
    <2>5. CASE StopPipeline
      <3>1. PICK reached \in SUBSET {w \in Workers : inflight[w] # <<>>} :
                out' = [w \in Workers |->
                          IF w \in reached THEN out[w] \o inflight[w] ELSE out[w]]
        BY <2>5 DEF StopPipeline
      <3>2. \A w \in reached : out[w] \o inflight[w] = Append(out[w], Head(inflight[w]))
        <4> SUFFICES ASSUME NEW w \in reached
                     PROVE  out[w] \o inflight[w] = Append(out[w], Head(inflight[w]))
          OBVIOUS
        <4>1. /\ out[w] \in Seq(Nat) /\ inflight[w] \in Seq(Nat)
              /\ Len(inflight[w]) <= 1 /\ inflight[w] # <<>>
          BY DEF IInv, TypeOK
        <4>2. Len(inflight[w]) \in Nat /\ Len(inflight[w]) # 0
          BY <4>1, TailFacts
        <4>3. \A n \in Nat : n <= 1 /\ n # 0 => n = 1
          OBVIOUS
        <4>4. Len(inflight[w]) = 1
          BY <4>1, <4>2, <4>3
        <4> QED BY <4>1, <4>4, InflightAppended
      <3>3. latest' = latest
        BY <2>5 DEF StopPipeline
      <3> QED BY <2>3, <3>1, <3>2, <3>3
    <2> QED
      BY <2>1, <2>2, <2>4, <2>5
      DEF Next, Start, Push, RunWake, RunRaises, Take, Failed, CancelRun, vars
  <1> QED BY Invariance, <1>1, <1>2, PTL DEF Spec, ImplementsFeed, Feed!Spec
=============================================================================
