------------------------ MODULE MissionHistoryProofs ------------------------
(***************************************************************************)
(* More theorems about MissionPipeline, for every set of workers and every *)
(* bound: all workers account for the same frames, each frame once, and    *)
(* the history is the unbroken tail of what was published.                 *)
(*                                                                         *)
(* Both speak of sets of frames, so what a worker has is taken apart into  *)
(* the sets of its three sequences (Held); a step other than RunFrame      *)
(* moves a frame between sets, RunFrame adds one newer than all.           *)
(***************************************************************************)
EXTENDS MissionPipelineProofs, FiniteSetTheorems

Held(w) == Range(out[w]) \cup Range(inflight[w]) \cup Range(wq[w])

\* Nothing a worker accounts for is newer than what was processed last.
Known(w) == \A f \in Published(w) : f <= latest

\* What the history is, seen from one worker.
TailOf(w) ==
    /\ Increasing(history)
    /\ IsFiniteSet(Published(w))
    /\ Range(history) \subseteq Published(w)
    /\ Len(history) = IF Cardinality(Published(w)) <= HistoryMax
                      THEN Cardinality(Published(w)) ELSE HistoryMax
    /\ \A f \in Published(w) \ Range(history) : \A g \in Range(history) : f < g

HInv ==
    phase # "stopped" =>
        /\ SameFramesOffered
        /\ \A w \in Workers : Known(w) /\ TailOf(w)
-----------------------------------------------------------------------------
\* The frames of a sequence as it grows, shrinks and is joined with another.
LEMMA RangeFacts ==
    ASSUME NEW s \in Seq(Nat)
    PROVE  /\ Range(s) \subseteq Nat
           /\ \A n \in Nat : Range(Append(s, n)) = Range(s) \cup {n}
           /\ \A t \in Seq(Nat) : Range(s \o t) = Range(s) \cup Range(t)
           /\ s # <<>> => Head(s) \in Range(s) /\ Range(s) = {Head(s)} \cup Range(Tail(s))
           /\ s = <<>> => Range(s) = {}
           /\ Len(s) <= 1 /\ s # <<>> => Range(s) = {Head(s)}
  <1>1. /\ Len(s) \in Nat /\ DOMAIN s = 1..Len(s)
        /\ \A i \in 1..Len(s) : s[i] \in Nat
    BY ElementOfSeq, LenProperties
  <1>2. ASSUME NEW n \in Nat PROVE Range(Append(s, n)) = Range(s) \cup {n}
    <2>1. /\ DOMAIN Append(s, n) = 1..(Len(s) + 1)
          /\ \A i \in 1..Len(s) : Append(s, n)[i] = s[i]
          /\ Append(s, n)[Len(s) + 1] = n
      BY AppendFacts, LenProperties
    <2>2. 1..(Len(s) + 1) = 1..Len(s) \cup {Len(s) + 1}
      BY <1>1
    <2> QED BY <1>1, <2>1, <2>2 DEF Range
  <1>3. ASSUME NEW t \in Seq(Nat) PROVE Range(s \o t) = Range(s) \cup Range(t)
    <2>1. /\ Len(t) \in Nat /\ DOMAIN t = 1..Len(t) /\ DOMAIN (s \o t) = 1..(Len(s) + Len(t))
          /\ \A i \in 1..(Len(s) + Len(t)) :
                (s \o t)[i] = IF i <= Len(s) THEN s[i] ELSE t[i - Len(s)]
      BY ConcatProperties, LenProperties
    <2>2. ASSUME NEW i \in 1..(Len(s) + Len(t)) PROVE (s \o t)[i] \in Range(s) \cup Range(t)
      <3>1. CASE i <= Len(s)
        BY <1>1, <2>1, <3>1 DEF Range
      <3>2. CASE ~(i <= Len(s))
        <4>1. i - Len(s) \in DOMAIN t /\ (s \o t)[i] = t[i - Len(s)]
          BY <1>1, <2>1, <3>2
        <4> QED BY <4>1 DEF Range
      <3> QED BY <3>1, <3>2
    <2>3. ASSUME NEW i \in 1..Len(s) PROVE s[i] \in Range(s \o t)
      <3>1. i \in DOMAIN (s \o t) /\ (s \o t)[i] = s[i]
        BY <1>1, <2>1
      <3> QED BY <3>1 DEF Range
    <2>4. ASSUME NEW i \in 1..Len(t) PROVE t[i] \in Range(s \o t)
      <3>1. i + Len(s) \in 1..(Len(s) + Len(t)) /\ ~(i + Len(s) <= Len(s))
            /\ (i + Len(s)) - Len(s) = i
        BY <1>1, <2>1
      <3>2. i + Len(s) \in DOMAIN (s \o t) /\ (s \o t)[i + Len(s)] = t[i]
        BY <2>1, <3>1
      <3> QED BY <3>2 DEF Range
    <2>5. Range(s \o t) \subseteq Range(s) \cup Range(t)
      BY <2>1, <2>2 DEF Range
    <2>6. Range(s) \subseteq Range(s \o t)
      BY <1>1, <2>3 DEF Range
    <2>7. Range(t) \subseteq Range(s \o t)
      BY <2>1, <2>4 DEF Range
    <2> QED BY <2>5, <2>6, <2>7
  <1>4. ASSUME s # <<>>
        PROVE  Head(s) \in Range(s) /\ Range(s) = {Head(s)} \cup Range(Tail(s))
    <2>1. /\ Head(s) = s[1] /\ 1 \in DOMAIN s /\ Len(Tail(s)) = Len(s) - 1
          /\ DOMAIN Tail(s) = 1..(Len(s) - 1)
          /\ \A i \in 1..(Len(s) - 1) : Tail(s)[i] = s[i + 1] /\ i + 1 \in 1..Len(s)
      BY <1>1, <1>4, TailFacts, LenProperties
    <2>2. \A i \in 1..Len(s) : i = 1 \/ (i - 1 \in 1..(Len(s) - 1) /\ s[i] = Tail(s)[i - 1])
      BY <1>1, <2>1
    <2>3. ASSUME NEW i \in DOMAIN s PROVE s[i] \in {Head(s)} \cup Range(Tail(s))
      <3>1. i = 1 \/ (i - 1 \in DOMAIN Tail(s) /\ s[i] = Tail(s)[i - 1])
        BY <1>1, <2>1, <2>2
      <3> QED BY <2>1, <3>1 DEF Range
    <2>6. Range(s) \subseteq {Head(s)} \cup Range(Tail(s))
      BY <2>3 DEF Range
    <2>5. \A i \in DOMAIN Tail(s) : i + 1 \in DOMAIN s /\ Tail(s)[i] = s[i + 1]
      BY <1>1, <2>1
    <2>4. {Head(s)} \cup Range(Tail(s)) \subseteq Range(s)
      BY <2>1, <2>5 DEF Range
    <2> QED BY <2>4, <2>6
  <1>5. s = <<>> => Range(s) = {}
    BY <1>1, EmptySeq DEF Range
  <1>6. ASSUME Len(s) <= 1, s # <<>> PROVE Range(s) = {Head(s)}
    <2>1. Tail(s) = <<>> /\ Tail(s) \in Seq(Nat)
      BY <1>1, <1>6, TailFacts, EmptySeq
    <2>2. Range(Tail(s)) = {}
      BY <2>1, EmptySeq DEF Range
    <2> QED BY <1>4, <1>6, <2>2
  <1>7. Range(s) \subseteq Nat
    BY <1>1 DEF Range
  <1> QED BY <1>2, <1>3, <1>4, <1>5, <1>6, <1>7

\* A worker's frames are those of its three sequences.
LEMMA FedIsHeld ==
    ASSUME TypeOK, NEW w \in Workers
    PROVE  Range(Fed(w)) = Held(w) /\ Published(w) = Held(w) \cup dropped[w] \cup failed[w]
  <1>1. out[w] \in Seq(Nat) /\ inflight[w] \in Seq(Nat) /\ wq[w] \in Seq(Nat)
    BY DEF TypeOK
  <1>2. out[w] \o inflight[w] \in Seq(Nat)
    BY <1>1, ConcatProperties
  <1>3. Range((out[w] \o inflight[w]) \o wq[w]) = Held(w)
    <2>1. Range(out[w] \o inflight[w]) = Range(out[w]) \cup Range(inflight[w])
      BY <1>1, RangeFacts
    <2>2. Range((out[w] \o inflight[w]) \o wq[w]) = Range(out[w] \o inflight[w]) \cup Range(wq[w])
      BY <1>1, <1>2, RangeFacts
    <2> QED BY <2>1, <2>2 DEF Held
  <1> QED BY <1>3 DEF Fed, Published

\* get() passes the head of a queue to the drain task's hands, where nothing was.
LEMMA GetMoves ==
    ASSUME TypeOK, NEW w \in Workers, Get(w)
    PROVE  /\ Range(inflight'[w]) \cup Range(wq'[w]) = Range(wq[w])
           /\ \A v \in Workers \ {w} : wq'[v] = wq[v] /\ inflight'[v] = inflight[v]
  <1>1. wq[w] \in Seq(Nat)
    BY DEF TypeOK
  <1>2. CASE inflight'[w] = <<>> /\ wq'[w] = wq[w] /\ wq[w] = <<>>
    <2>1. Range(<<>>) = {}
      BY RangeFacts, EmptySeq
    <2> QED BY <1>2, <2>1, GetFacts
  <1>3. CASE wq[w] # <<>> /\ inflight'[w] = <<Head(wq[w])>> /\ wq'[w] = Tail(wq[w])
    <2>1. Head(wq[w]) \in Nat
      BY <1>1, <1>3, TailFacts
    <2>2. Range(<<Head(wq[w])>>) = {Head(wq[w])}
      BY <2>1 DEF Range
    <2>3. Range(wq[w]) = {Head(wq[w])} \cup Range(Tail(wq[w]))
      BY <1>1, <1>3, RangeFacts
    <2>4. \A v \in Workers \ {w} : wq'[v] = wq[v] /\ inflight'[v] = inflight[v]
      BY GetFacts
    <2> QED BY <1>3, <2>2, <2>3, <2>4
  <1> QED BY <1>2, <1>3, GetFacts

\* What each worker accounts for, by its sequences.
Parts ==
    \A w \in Workers :
        /\ Range(Fed(w)) = Held(w)
        /\ Published(w) = Held(w) \cup dropped[w] \cup failed[w]

\* The same of every worker, before and after a step.
LEMMA AllHeld == (TypeOK => Parts) /\ (TypeOK' => Parts')
  <1>1. TypeOK => Parts
    BY FedIsHeld DEF Parts
  <1> QED BY <1>1, PTL

\* Publishing a frame: it is newer than all before it, and every worker either holds it
\* or has it among the dropped ones.
LEMMA FrameStep ==
    ASSUME IInv, RunFrame, NEW w \in Workers
    PROVE  LET f == Head(ingest)
           IN  /\ f \in Nat /\ latest \in Nat /\ latest < f
               /\ latest' = f /\ history' = Remember(history, f) /\ failed' = failed
               /\ \/ Held(w)' = Held(w) \cup {f} /\ dropped'[w] = dropped[w]
                  \/ Held(w)' = Held(w) /\ dropped'[w] = dropped[w] \cup {f}
  <1> DEFINE f == Head(ingest)
  <1>1. /\ run = "processing" /\ ingest # <<>> /\ ingest \in Seq(Nat) /\ latest \in Nat
        /\ latest' = f /\ history' = Remember(history, f) /\ failed' = failed
        /\ out' = out /\ inflight' = inflight /\ Publish(f)
        /\ wq[w] \in Seq(Nat)
    BY DEF RunFrame, IInv, TypeOK, BurstHasFrames
  <1>2. f \in Nat /\ f = ingest[1] /\ 1 \in 1..Len(ingest)
    BY <1>1, TailFacts
  <1>3. latest < f
    BY <1>2 DEF IInv, IngestSorted
  <1>4. \/ wq'[w] = wq[w] /\ dropped'[w] = dropped[w] \cup {f}
        \/ wq'[w] = Append(wq[w], f) /\ dropped'[w] = dropped[w]
    BY <1>1 DEF Publish
  <1>5. Range(Append(wq[w], f)) = Range(wq[w]) \cup {f}
    BY <1>1, <1>2, RangeFacts
  <1>6. \/ Held(w)' = Held(w) \cup {f} /\ dropped'[w] = dropped[w]
        \/ Held(w)' = Held(w) /\ dropped'[w] = dropped[w] \cup {f}
    BY <1>1, <1>4, <1>5 DEF Held
  <1> QED BY <1>1, <1>2, <1>3, <1>6

\* The frame in a drain task's hands is in neither the handled nor the queued ones.
LEMMA InHands ==
    ASSUME IInv, NEW w \in Workers, inflight[w] # <<>>
    PROVE  /\ Head(inflight[w]) \in Nat
           /\ Range(inflight[w]) = {Head(inflight[w])}
           /\ Head(inflight[w]) \notin Range(out[w]) \cup Range(wq[w])
  <1>1. /\ inflight[w] \in Seq(Nat) /\ Len(inflight[w]) <= 1 /\ Sorted(w)
        /\ out[w] \in Seq(Nat) /\ wq[w] \in Seq(Nat)
    BY DEF IInv, TypeOK
  <1>2. /\ Head(inflight[w]) \in Nat /\ Head(inflight[w]) = inflight[w][1]
        /\ 1 \in 1..Len(inflight[w])
    BY <1>1, TailFacts
  <1>3. /\ DOMAIN out[w] = 1..Len(out[w]) /\ DOMAIN wq[w] = 1..Len(wq[w])
        /\ \A i \in 1..Len(out[w]) : out[w][i] \in Nat
        /\ \A i \in 1..Len(wq[w]) : wq[w][i] \in Nat
    BY <1>1, LenProperties, ElementOfSeq
  <1>4. /\ \A i \in 1..Len(out[w]) : out[w][i] < Head(inflight[w])
        /\ \A i \in 1..Len(wq[w]) : Head(inflight[w]) < wq[w][i]
    BY <1>1, <1>2 DEF Sorted, Below
  <1>5. Head(inflight[w]) \notin Range(out[w]) \cup Range(wq[w])
    BY <1>2, <1>3, <1>4 DEF Range
  <1> QED BY <1>1, <1>2, <1>5, RangeFacts

\* A drain task's step keeps its worker's frames, or moves the one that failed.
LEMMA DrainStep ==
    ASSUME IInv, NEW v \in Workers, Take(v) \/ Handled(v) \/ Failed(v), NEW w \in Workers
    PROVE  \/ Held(w)' = Held(w) /\ failed'[w] = failed[w]
           \/ \E f \in Held(w) : Held(w)' = Held(w) \ {f} /\ failed'[w] = failed[w] \cup {f}
  <1>1. /\ out \in [Workers -> Seq(Nat)] /\ failed \in [Workers -> SUBSET Nat]
        /\ out[v] \in Seq(Nat) /\ inflight[v] \in Seq(Nat) /\ TypeOK
    BY DEF IInv, TypeOK
  <1>2. Get(v)
    BY DEF Take, Handled, Failed
  <1>3. /\ Range(inflight'[v]) \cup Range(wq'[v]) = Range(wq[v])
        /\ \A u \in Workers \ {v} : wq'[u] = wq[u] /\ inflight'[u] = inflight[u]
    BY <1>1, <1>2, GetMoves
  <1>4. /\ \A u \in Workers \ {v} : out'[u] = out[u] /\ failed'[u] = failed[u]
    BY <1>1 DEF Take, Handled, Failed
  <1>5. CASE w # v
    BY <1>3, <1>4, <1>5 DEF Held
  <1>6. CASE w = v /\ Take(v)
    <2>1. out' = out /\ failed' = failed /\ inflight[v] = <<>>
      BY <1>6 DEF Take
    <2>2. Range(inflight[v]) = {}
      BY <1>1, <2>1, RangeFacts
    <2>3. Held(v)' = Range(out[v]) \cup (Range(inflight'[v]) \cup Range(wq'[v]))
      BY <2>1 DEF Held
    <2>4. Held(v)' = Held(v)
      BY <1>3, <2>2, <2>3 DEF Held
    <2> QED BY <1>6, <2>1, <2>4
  <1>7. CASE w = v /\ Handled(v)
    <2> DEFINE f == Head(inflight[v])
    <2>1. out'[v] = Append(out[v], f) /\ failed' = failed /\ inflight[v] # <<>>
      BY <1>1, <1>7 DEF Handled
    <2>2. f \in Nat /\ Range(inflight[v]) = {f}
      BY <2>1, InHands
    <2>3. Range(out'[v]) = Range(out[v]) \cup {f}
      BY <1>1, <2>1, <2>2, RangeFacts
    <2>4. Held(v)' = Range(out'[v]) \cup (Range(inflight'[v]) \cup Range(wq'[v]))
      BY DEF Held
    <2>5. Held(v)' = Held(v)
      BY <1>3, <2>2, <2>3, <2>4 DEF Held
    <2> QED BY <1>7, <2>1, <2>5
  <1>8. CASE w = v /\ Failed(v)
    <2> DEFINE f == Head(inflight[v])
    <2>1. out' = out /\ failed'[v] = failed[v] \cup {f} /\ inflight[v] # <<>>
      BY <1>1, <1>8 DEF Failed
    <2>2. f \in Nat /\ Range(inflight[v]) = {f} /\ f \notin Range(out[v]) \cup Range(wq[v])
      BY <2>1, InHands
    <2>3. Held(v)' = Range(out[v]) \cup (Range(inflight'[v]) \cup Range(wq'[v]))
      BY <2>1 DEF Held
    <2>4. f \in Held(v) /\ Held(v)' = Held(v) \ {f}
      BY <1>3, <2>2, <2>3 DEF Held
    <2> QED BY <1>8, <2>1, <2>4
  <1> QED BY <1>5, <1>6, <1>7, <1>8

\* Every step but RunFrame and stop() leaves all that is published where it was, or
\* moves one frame from those a worker holds to those that failed.
LEMMA QuietStep ==
    ASSUME IInv, Next, ~RunFrame, phase' # "stopped"
    PROVE  /\ phase # "stopped" /\ latest' = latest /\ history' = history /\ dropped' = dropped
           /\ \A w \in Workers :
                \/ Held(w)' = Held(w) /\ failed'[w] = failed[w]
                \/ \E f \in Held(w) : Held(w)' = Held(w) \ {f} /\ failed'[w] = failed[w] \cup {f}
  <1>1. CASE Start \/ Push \/ RunWake \/ RunRaises \/ CancelRun
    BY <1>1 DEF Start, Push, RunWake, RunRaises, CancelRun, Held
  <1>2. ASSUME NEW v \in Workers, Take(v) \/ Handled(v) \/ Failed(v)
        PROVE  /\ phase # "stopped" /\ latest' = latest /\ history' = history
               /\ dropped' = dropped
    BY <1>2 DEF Take, Handled, Failed, Draining
  <1>3. ~StopPipeline
    BY DEF StopPipeline
  <1> QED BY <1>1, <1>2, <1>3, DrainStep DEF Next
-----------------------------------------------------------------------------
\* Appending to the history the frame that was published last keeps it the unbroken tail.
LEMMA RememberTail ==
    ASSUME NEW h \in Seq(Nat), NEW P \in SUBSET Nat, NEW f \in Nat, NEW m \in Nat, m < f,
           IsFiniteSet(P), \A g \in P : g <= m, Range(h) \subseteq P, Increasing(h),
           Len(h) = IF Cardinality(P) <= HistoryMax THEN Cardinality(P) ELSE HistoryMax,
           \A g \in P \ Range(h) : \A k \in Range(h) : g < k,
           NEW r, r = Remember(h, f), NEW Q, Q = P \cup {f}
    PROVE  /\ IsFiniteSet(Q) /\ Range(r) \subseteq Q /\ Increasing(r)
           /\ Len(r) = IF Cardinality(Q) <= HistoryMax THEN Cardinality(Q) ELSE HistoryMax
           /\ \A g \in Q \ Range(r) : \A k \in Range(r) : g < k
  <1> DEFINE longer == Append(h, f)
  <1>1. /\ f \notin P /\ IsFiniteSet(Q) /\ Cardinality(Q) = Cardinality(P) + 1
        /\ Cardinality(P) \in Nat /\ Len(h) \in Nat
    BY FS_AddElement, FS_CardinalityType, LenProperties
  <1>2. \A i \in 1..Len(h) : h[i] \in P
    BY LenProperties DEF Range
  <1>3. /\ longer \in Seq(Nat) /\ Len(longer) = Len(h) + 1 /\ longer # <<>>
        /\ Increasing(longer) /\ Range(longer) = Range(h) \cup {f}
    <2>1. \A i \in 1..Len(h) : h[i] < f
      BY <1>2
    <2>2. longer \in Seq(Nat) /\ Len(longer) = Len(h) + 1
      BY AppendFacts
    <2>3. Increasing(longer)
      BY <2>1, AppendIncreasing
    <2>4. Range(longer) = Range(h) \cup {f}
      BY RangeFacts
    <2> HIDE DEF longer
    <2>5. longer # <<>>
      BY <1>1, <2>2, EmptySeq
    <2> QED BY <2>2, <2>3, <2>4, <2>5
  <1>4. \A g \in Q \ Range(longer) : \A k \in Range(longer) : g < k
    BY <1>3
  <1> HIDE DEF longer
  <1>5. CASE Cardinality(P) < HistoryMax
    <2>1. Len(longer) = Cardinality(Q) /\ Cardinality(Q) <= HistoryMax
      BY <1>1, <1>3, <1>5, QueueAssumption
    <2>2. r = longer
      BY <1>1, <2>1, QueueAssumption DEF Remember, longer
    <2>3. Range(r) \subseteq Q
      BY <1>3, <2>2
    <2>4. Len(r) = IF Cardinality(Q) <= HistoryMax THEN Cardinality(Q) ELSE HistoryMax
      BY <2>1, <2>2
    <2> QED BY <1>1, <1>3, <1>4, <2>2, <2>3, <2>4
  <1>6. CASE ~(Cardinality(P) < HistoryMax)
    <2>1. Len(longer) = HistoryMax + 1 /\ ~(Cardinality(Q) <= HistoryMax)
      BY <1>1, <1>3, <1>6, QueueAssumption
    <2>2. r = Tail(longer)
      BY <2>1, QueueAssumption DEF Remember, longer
    <2>3. /\ r \in Seq(Nat) /\ Len(r) = HistoryMax /\ Increasing(r)
          /\ \A i \in 1..Len(r) : Head(longer) < r[i]
      <3>1. r \in Seq(Nat) /\ Len(r) = Len(longer) - 1
        BY <1>3, <2>2, TailFacts
      <3>2. Increasing(r) /\ \A i \in 1..Len(r) : Head(longer) < r[i]
        BY <1>3, <2>2, TailIncreasing
      <3>3. Len(r) = HistoryMax
        BY <2>1, <3>1, QueueAssumption
      <3> QED BY <3>1, <3>2, <3>3
    <2>4. Head(longer) \in Range(longer) /\ Range(longer) = {Head(longer)} \cup Range(r)
      BY <1>3, <2>2, RangeFacts
    <2>5. \A k \in Range(r) : Head(longer) < k
      BY <2>3, LenProperties DEF Range
    <2>6. ASSUME NEW g \in Q \ Range(r), NEW k \in Range(r) PROVE g < k
      <3>1. k \in Range(longer) /\ (g = Head(longer) \/ g \notin Range(longer))
        BY <2>4
      <3> QED BY <1>4, <2>5, <3>1
    <2>7. Range(r) \subseteq Q
      BY <1>3, <2>4
    <2>8. Len(r) = IF Cardinality(Q) <= HistoryMax THEN Cardinality(Q) ELSE HistoryMax
      BY <2>1, <2>3
    <2> QED BY <1>1, <2>3, <2>6, <2>7, <2>8
  <1> QED BY <1>5, <1>6
-----------------------------------------------------------------------------
\* Before anything is published there is nothing to account for.
LEMMA InitHInv == Init => HInv
  <1> SUFFICES ASSUME Init PROVE HInv
    OBVIOUS
  <1>1. TypeOK /\ \A w \in Workers : out[w] = <<>> /\ inflight[w] = <<>> /\ wq[w] = <<>>
                                    /\ dropped[w] = {} /\ failed[w] = {}
    BY InitInv DEF Init, IInv
  <1>2. Range(<<>>) = {} /\ Len(<<>>) = 0 /\ history = <<>>
    BY RangeFacts, EmptySeq DEF Init
  <1>3. \A w \in Workers : Range(Fed(w)) = {} /\ Published(w) = {}
    BY <1>1, <1>2, FedIsHeld DEF Held
  <1>4. SameFramesOffered
    BY <1>1, <1>3 DEF SameFramesOffered
  <1>5. Increasing(history)
    BY <1>2 DEF Increasing
  <1>6. \A w \in Workers : Known(w) /\ TailOf(w)
    BY <1>2, <1>3, <1>5, FS_EmptySet, QueueAssumption DEF Known, TailOf
  <1> QED BY <1>4, <1>6 DEF HInv

\* Publishing a frame keeps the accounts and the history; it is new to both.
LEMMA FrameHInv == IInv /\ TypeOK' /\ HInv /\ phase # "stopped" /\ RunFrame => HInv'
  <1> SUFFICES ASSUME IInv, TypeOK', HInv, phase # "stopped", RunFrame PROVE HInv'
    OBVIOUS
  <1> DEFINE f == Head(ingest)
  <1>0. Parts /\ Parts' /\ TypeOK
    BY AllHeld DEF IInv
  <1>1. SameFramesOffered /\ \A w \in Workers : Known(w) /\ TailOf(w)
    BY DEF HInv
  <1>2. ASSUME NEW w \in Workers
        PROVE  /\ f \in Nat /\ latest \in Nat /\ latest < f
               /\ latest' = f /\ history' = Remember(history, f) /\ failed' = failed
               /\ \/ Held(w)' = Held(w) \cup {f} /\ dropped'[w] = dropped[w]
                  \/ Held(w)' = Held(w) /\ dropped'[w] = dropped[w] \cup {f}
    BY <1>2, FrameStep
  <1>3. ASSUME NEW w \in Workers
        PROVE  /\ Published(w) \in SUBSET Nat /\ f \notin Published(w)
               /\ Published(w)' = Published(w) \cup {f}
    <2>1. Held(w) \subseteq Nat
      BY <1>0, RangeFacts DEF Held, TypeOK
    <2>2. Published(w) \subseteq Nat
      BY <1>0, <2>1 DEF Parts, TypeOK
    <2>3. f \notin Published(w)
      BY <1>1, <1>2, <2>2 DEF Known
    <2>4. Published(w)' = Held(w)' \cup dropped'[w] \cup failed'[w]
      BY <1>0 DEF Parts
    <2>5. Published(w) = Held(w) \cup dropped[w] \cup failed[w]
      BY <1>0 DEF Parts
    <2> QED BY <1>2, <2>2, <2>3, <2>4, <2>5
  <1>4. SameFramesOffered'
    <2>1. ASSUME NEW w \in Workers
          PROVE  /\ dropped'[w] \cap (failed'[w] \cup Range(Fed(w))') = {}
                 /\ failed'[w] \cap Range(Fed(w))' = {}
      <3>1. /\ Range(Fed(w)) = Held(w) /\ Range(Fed(w))' = Held(w)'
            /\ Published(w) = Held(w) \cup dropped[w] \cup failed[w]
        BY <1>0 DEF Parts
      <3>2. /\ dropped[w] \cap (failed[w] \cup Held(w)) = {}
            /\ failed[w] \cap Held(w) = {}
        BY <1>1, <3>1 DEF SameFramesOffered
      <3> QED BY <1>2, <1>3, <3>1, <3>2
    <2>2. \A v, w \in Workers : Published(v)' = Published(w)'
      BY <1>1, <1>3 DEF SameFramesOffered
    <2> QED BY <2>1, <2>2 DEF SameFramesOffered
  <1>5. history \in Seq(Nat) /\ history' = Remember(history, f)
    BY <1>0 DEF TypeOK, RunFrame
  <1>6. ASSUME NEW w \in Workers PROVE Known(w)' /\ TailOf(w)'
    <2>1. /\ Increasing(history)
          /\ IsFiniteSet(Published(w)) /\ Range(history) \subseteq Published(w)
          /\ Len(history) = IF Cardinality(Published(w)) <= HistoryMax
                            THEN Cardinality(Published(w)) ELSE HistoryMax
          /\ \A g \in Published(w) \ Range(history) : \A k \in Range(history) : g < k
          /\ \A g \in Published(w) : g <= latest
      BY <1>1 DEF TailOf, Known
    <2>2. /\ IsFiniteSet(Published(w)') /\ Range(history') \subseteq Published(w)'
          /\ Increasing(history')
          /\ Len(history') = IF Cardinality(Published(w)') <= HistoryMax
                             THEN Cardinality(Published(w)') ELSE HistoryMax
          /\ \A g \in Published(w)' \ Range(history') : \A k \in Range(history') : g < k
      <3>1. /\ f \in Nat /\ latest \in Nat /\ latest < f /\ Published(w) \in SUBSET Nat
            /\ Published(w)' = Published(w) \cup {f}
        BY <1>2, <1>3
      <3> HIDE DEF f
      <3> QED BY <1>5, <2>1, <3>1, RememberTail
    <2>3. Known(w)'
      <3>1. \A g \in Published(w)' : g <= latest'
        BY <1>2, <1>3, <2>1
      <3> QED BY <3>1 DEF Known
    <2> QED BY <2>2, <2>3 DEF TailOf
  <1> QED BY <1>4, <1>6 DEF HInv

\* A step that publishes nothing keeps what is published, the history and the accounts.
LEMMA QuietHInv ==
    IInv /\ TypeOK' /\ HInv /\ Next /\ ~RunFrame /\ phase' # "stopped" => HInv'
  <1> SUFFICES ASSUME IInv, TypeOK', HInv, Next, ~RunFrame, phase' # "stopped" PROVE HInv'
    OBVIOUS
  <1>0. Parts /\ Parts'
    BY AllHeld DEF IInv
  <1>1. /\ phase # "stopped" /\ latest' = latest /\ history' = history /\ dropped' = dropped
        /\ \A w \in Workers :
              \/ Held(w)' = Held(w) /\ failed'[w] = failed[w]
              \/ \E f \in Held(w) : Held(w)' = Held(w) \ {f} /\ failed'[w] = failed[w] \cup {f}
    BY QuietStep
  <1>2. SameFramesOffered /\ \A w \in Workers : Known(w) /\ TailOf(w)
    BY <1>1 DEF HInv
  <1>3. ASSUME NEW w \in Workers
        PROVE  /\ Published(w)' = Published(w)
               /\ dropped'[w] \cap (failed'[w] \cup Range(Fed(w))') = {}
               /\ failed'[w] \cap Range(Fed(w))' = {}
    <2>1. /\ Range(Fed(w)) = Held(w) /\ Range(Fed(w))' = Held(w)'
          /\ Published(w) = Held(w) \cup dropped[w] \cup failed[w]
          /\ Published(w)' = Held(w)' \cup dropped'[w] \cup failed'[w]
      BY <1>0 DEF Parts
    <2>2. /\ dropped[w] \cap (failed[w] \cup Held(w)) = {}
          /\ failed[w] \cap Held(w) = {}
      BY <1>1, <1>2, <2>1 DEF SameFramesOffered
    <2>3. dropped'[w] = dropped[w]
      BY <1>1
    <2>4. CASE Held(w)' = Held(w) /\ failed'[w] = failed[w]
      BY <2>1, <2>2, <2>3, <2>4
    <2>5. ASSUME NEW f \in Held(w), Held(w)' = Held(w) \ {f}, failed'[w] = failed[w] \cup {f}
          PROVE  /\ Published(w)' = Published(w)
                 /\ dropped'[w] \cap (failed'[w] \cup Held(w)') = {}
                 /\ failed'[w] \cap Held(w)' = {}
      BY <2>1, <2>2, <2>3, <2>5
    <2> QED BY <1>1, <2>1, <2>4, <2>5
  <1>4. SameFramesOffered'
    BY <1>1, <1>2, <1>3 DEF SameFramesOffered
  <1>5. \A w \in Workers : Known(w)' = Known(w) /\ TailOf(w)' = TailOf(w)
    BY <1>1, <1>3 DEF Known, TailOf
  <1> QED BY <1>2, <1>4, <1>5 DEF HInv

\* A stuttering step keeps the accounts.
LEMMA StutterHInv == HInv /\ UNCHANGED vars => HInv'
  <1> SUFFICES ASSUME HInv, UNCHANGED vars PROVE HInv'
    OBVIOUS
  <1>1. /\ out' = out /\ inflight' = inflight /\ wq' = wq /\ phase' = phase
        /\ dropped' = dropped /\ failed' = failed /\ history' = history /\ latest' = latest
    BY DEF vars
  <1>2. \A w \in Workers : Fed(w)' = Fed(w) /\ Published(w)' = Published(w)
    BY <1>1 DEF Fed, Published
  <1>3. SameFramesOffered' = SameFramesOffered
    BY <1>1, <1>2 DEF SameFramesOffered
  <1>4. \A w \in Workers : Known(w)' = Known(w) /\ TailOf(w)' = TailOf(w)
    BY <1>1, <1>2 DEF Known, TailOf
  <1> QED BY <1>1, <1>3, <1>4 DEF HInv

\* The accounts of frames and the history are kept by every step.
LEMMA HInvHolds == Spec => []HInv
  <1>1. IInv /\ TypeOK' /\ HInv /\ [Next]_vars => HInv'
    <2>1. CASE phase' = "stopped"
      BY <2>1 DEF HInv
    <2>2. CASE RunFrame
      <3>1. phase' = phase
        BY <2>2 DEF RunFrame
      <3> QED BY <2>1, <2>2, <3>1, FrameHInv
    <2> QED BY <2>1, <2>2, QuietHInv, StutterHInv
  <1> QED BY <1>1, InitHInv, Invariance, TypeCorrect, PTL DEF Spec

\* Workers account for the same frames, each frame once, whatever is dropped or fails at
\* one of them.
THEOREM FramesAccounted == Spec => []SameFramesOffered
  <1>1. HInv => SameFramesOffered
    <2>1. CASE phase = "stopped"
      BY <2>1 DEF SameFramesOffered
    <2> QED BY <2>1 DEF HInv
  <1> QED BY <1>1, HInvHolds, PTL

\* The history holds the last frames published, as many as its limit allows, without a gap.
THEOREM HistoryIsUnbroken == Spec => []HistoryIsTail
  <1>1. HInv => HistoryIsTail
    BY DEF HInv, TailOf, HistoryIsTail
  <1> QED BY <1>1, HInvHolds, PTL
=============================================================================
