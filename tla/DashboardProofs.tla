--------------------------- MODULE DashboardProofs ---------------------------
(***************************************************************************)
(* Theorems about Dashboard for all channels, frames, ranges and bounds:   *)
(* history and live feed leave no gap in a view whose connection holds but *)
(* those that Excused names, whatever the order of publishing, archiving,  *)
(* asking, answering and delivering; and the live feed is in order.        *)
(***************************************************************************)
EXTENDS Dashboard, SequenceTheorems, FiniteSetTheorems, TLAPS

\* A frame that a view of c is to show.
Wanted(c, n) == c \in frames[n].channels /\ frames[n].readable

\* From the moment a view subscribes the live feed has every frame for it.
LiveComplete ==
    \A c \in Channels : view[c] # "closed" /\ steady[c] =>
        \A n \in Numbers : n > asked[c] /\ Wanted(c, n) =>
            n \in shown[c] \cup Range(bq) \cup Range(wire) \cup dropped

\* History has every frame up to that moment that the view asks for, on its way or shown, or
\* did not hold it, or its limit cuts it.
PastComplete ==
    \A c \in Channels : \A n \in Numbers :
        n <= asked[c] /\ Wanted(c, n) /\ Within(n, span[c]) =>
            /\ view[c] = "answered" => n \in answer[c] \cup missing[c] \/ BeyondLimit(n, span[c])
            /\ view[c] = "shown" => n \in shown[c] \cup missing[c] \/ BeyondLimit(n, span[c])

\* A steady view's page is listed, and before the schema is loaded nothing is known.
PageInv ==
    /\ \A c \in Channels : steady[c] => listed
    /\ ~ready => channels = {}

IInv == TypeOK /\ LiveComplete /\ PastComplete /\ PageInv
-----------------------------------------------------------------------------
\* What a queue is made of, as it grows and shrinks.
LEMMA QueueFacts ==
    ASSUME NEW S, NEW q \in Seq(S)
    PROVE  /\ \A T : S \subseteq T => q \in Seq(T)
           /\ \A x \in S : Append(q, x) \in Seq(S) /\ Range(Append(q, x)) = Range(q) \cup {x}
           /\ q # <<>> => /\ Head(q) \in S /\ Tail(q) \in Seq(S)
                          /\ Range(q) = {Head(q)} \cup Range(Tail(q))
  <1>1. /\ Len(q) \in Nat /\ DOMAIN q = 1..Len(q)
        /\ \A i \in 1..Len(q) : q[i] \in S
    BY ElementOfSeq, LenProperties
  <1>2. ASSUME NEW T, S \subseteq T PROVE q \in Seq(T)
    BY <1>2, SeqDef
  <1>3. ASSUME NEW x \in S
        PROVE  Append(q, x) \in Seq(S) /\ Range(Append(q, x)) = Range(q) \cup {x}
    <2>1. /\ Append(q, x) \in Seq(S) /\ Len(Append(q, x)) = Len(q) + 1
          /\ DOMAIN Append(q, x) = 1..(Len(q) + 1)
          /\ \A i \in 1..Len(q) : Append(q, x)[i] = q[i]
          /\ Append(q, x)[Len(q) + 1] = x
      BY AppendProperties, LenProperties
    <2>2. 1..(Len(q) + 1) = 1..Len(q) \cup {Len(q) + 1}
      BY <1>1
    <2> QED BY <1>1, <2>1, <2>2 DEF Range
  <1>4. ASSUME q # <<>>
        PROVE  /\ Head(q) \in S /\ Tail(q) \in Seq(S)
               /\ Range(q) = {Head(q)} \cup Range(Tail(q))
    <2>1. /\ Head(q) \in S /\ Head(q) = q[1] /\ Len(q) >= 1
          /\ Tail(q) \in Seq(S) /\ Len(Tail(q)) = Len(q) - 1
          /\ \A i \in 1..(Len(q) - 1) : Tail(q)[i] = q[i + 1]
      BY <1>1, <1>4, HeadTailProperties, EmptySeq
    <2>2. DOMAIN Tail(q) = 1..(Len(q) - 1)
      BY <2>1, LenProperties
    <2>3. \A i \in 1..Len(q) : i = 1 \/ (i - 1 \in 1..(Len(q) - 1) /\ q[i] = Tail(q)[i - 1])
      BY <1>1, <2>1
    <2>4. ASSUME NEW y \in Range(q) PROVE y \in {Head(q)} \cup Range(Tail(q))
      <3>1. PICK i \in 1..Len(q) : y = q[i]
        BY <1>1 DEF Range
      <3>2. CASE i = 1
        BY <2>1, <3>1, <3>2
      <3>3. CASE i # 1
        <4>1. i - 1 \in DOMAIN Tail(q) /\ y = Tail(q)[i - 1]
          BY <2>2, <2>3, <3>1, <3>3
        <4> QED BY <4>1 DEF Range
      <3> QED BY <3>2, <3>3
    <2>5. \A i \in 1..(Len(q) - 1) : i + 1 \in 1..Len(q)
      BY <1>1
    <2>6. {Head(q)} \cup Range(Tail(q)) \subseteq Range(q)
      BY <1>1, <2>1, <2>2, <2>5 DEF Range
    <2> QED BY <2>1, <2>4, <2>6
  <1> QED BY <1>2, <1>3, <1>4

\* What publishing a frame does to the frames and the numbers.
LEMMA PublishFacts ==
    ASSUME TypeOK, NEW f \in Kinds, frames' = Append(frames, f)
    PROVE  /\ Len(frames) \in Nat /\ Len(frames') = Len(frames) + 1
           /\ frames' \in Seq(Kinds)
           /\ Numbers \subseteq Numbers' /\ Numbers' = Numbers \cup {Len(frames) + 1}
           /\ \A n \in Numbers : frames'[n] = frames[n]
           /\ bq \in Seq(Numbers') /\ sq \in Seq(Numbers') /\ wire \in Seq(Numbers')
  <1>1. /\ Len(frames) \in Nat /\ Len(frames') = Len(frames) + 1
        /\ frames' \in Seq(Kinds)
        /\ \A n \in 1..Len(frames) : frames'[n] = frames[n]
    BY AppendProperties, LenProperties DEF TypeOK
  <1>2. Numbers \subseteq Numbers' /\ Numbers' = Numbers \cup {Len(frames) + 1}
    BY <1>1 DEF Numbers
  <1>3. bq \in Seq(Numbers') /\ sq \in Seq(Numbers') /\ wire \in Seq(Numbers')
    BY <1>2, QueueFacts DEF TypeOK
  <1> QED BY <1>1, <1>2, <1>3 DEF Numbers

\* A set of frames is finite.
LEMMA FiniteNumbers ==
    ASSUME TypeOK, NEW K, K \subseteq Numbers
    PROVE  IsFiniteSet(K) /\ Cardinality(K) \in Nat
  <1>1. Len(frames) \in Nat
    BY LenProperties DEF TypeOK
  <1>2. IsFiniteSet(Numbers)
    BY <1>1, FS_Interval DEF Numbers
  <1> QED BY <1>2, FS_Subset, FS_CardinalityType

\* A frame beyond the limit stays there: the archive only grows and frames do not change.
LEMMA LimitStays ==
    ASSUME TypeOK, TypeOK', has_store' = has_store, stored \subseteq stored',
           \A n \in Numbers : frames'[n] = frames[n]
    PROVE  \A n \in Numbers, r \in Ranges : BeyondLimit(n, r) => BeyondLimit(n, r)'
  <1> SUFFICES ASSUME NEW n \in Numbers, NEW r \in Ranges, BeyondLimit(n, r)
               PROVE  BeyondLimit(n, r)'
    OBVIOUS
  <1> DEFINE K == {k \in stored \ {n} : Within(k, r) /\ frames[k].epoch_ms <= frames[n].epoch_ms}
             L == {k \in stored' \ {n} : Within(k, r)' /\ frames'[k].epoch_ms <= frames'[n].epoch_ms}
  <1>1. stored \subseteq Numbers /\ stored' \subseteq Numbers'
    BY DEF TypeOK
  <1>2. K \subseteq L
    BY <1>1 DEF Within
  <1>3. K \subseteq Numbers /\ L \subseteq Numbers'
    BY <1>1
  <1>4. IsFiniteSet(K) /\ Cardinality(K) \in Nat
    BY <1>3, FiniteNumbers
  <1>5. IsFiniteSet(L) /\ Cardinality(L) \in Nat
    <2>1. Len(frames') \in Nat
      BY LenProperties DEF TypeOK
    <2>2. IsFiniteSet(Numbers')
      BY <2>1, FS_Interval DEF Numbers
    <2> QED BY <1>3, <2>2, FS_Subset, FS_CardinalityType
  <1>6. Cardinality(K) <= Cardinality(L)
    BY <1>2, <1>5, FS_Subset
  <1>7. Cardinality(K) >= QueryMax /\ has_store /\ QueryMax \in Nat
    BY DashboardAssumption DEF BeyondLimit
  <1>8. Cardinality(L) >= QueryMax
    BY <1>4, <1>5, <1>6, <1>7
  <1> QED BY <1>7, <1>8 DEF BeyondLimit

\* What a query leaves out of the rows in its range is beyond its limit: the rows it returns
\* are as many as the limit, and none of them is younger.
LEMMA LeftOut ==
    ASSUME TypeOK, has_store, NEW r \in Ranges,
           NEW A, A \subseteq {n \in stored : Within(n, r)},
           Returned(A, {n \in stored : Within(n, r)}),
           NEW n \in stored, Within(n, r), n \notin A
    PROVE  BeyondLimit(n, r)
  <1> DEFINE R == {k \in stored : Within(k, r)}
             K == {k \in stored \ {n} : Within(k, r) /\ frames[k].epoch_ms <= frames[n].epoch_ms}
  <1>1. n \in R /\ A # R
    OBVIOUS
  <1>2. Cardinality(A) = QueryMax
    BY <1>1 DEF Returned
  <1>3. A \subseteq K
    <2> SUFFICES ASSUME NEW k \in A PROVE k \in K
      OBVIOUS
    <2>1. k \in stored /\ Within(k, r) /\ k # n
      OBVIOUS
    <2>2. frames[k].epoch_ms <= frames[n].epoch_ms
      BY <1>1 DEF Returned
    <2> QED BY <2>1, <2>2
  <1>4. K \subseteq Numbers
    BY DEF TypeOK
  <1>5. IsFiniteSet(K) /\ Cardinality(K) \in Nat /\ Cardinality(A) <= Cardinality(K)
    BY <1>3, <1>4, FiniteNumbers, FS_Subset
  <1>6. Cardinality(K) >= QueryMax
    BY <1>2, <1>5, DashboardAssumption
  <1> QED BY <1>6 DEF BeyondLimit

\* At the start nothing is published, shown or on its way.
LEMMA InitIInv == Init => IInv
  <1> SUFFICES ASSUME Init PROVE IInv
    OBVIOUS
  <1>1. Numbers = {} /\ Len(frames) = 0 /\ frames \in Seq(Kinds) /\ Len(bq) = 0
    BY EmptySeq DEF Init, Numbers
  <1>2. bq \in Seq(Numbers) /\ sq \in Seq(Numbers) /\ wire \in Seq(Numbers)
    BY EmptySeq DEF Init
  <1>3. /\ stored \subseteq Numbers /\ dropped \subseteq Numbers
        /\ asked \in [Channels -> 0..Len(frames)]
        /\ answer \in [Channels -> SUBSET Numbers]
        /\ shown \in [Channels -> SUBSET Numbers]
        /\ missing \in [Channels -> SUBSET Numbers]
        /\ newest \in 0..Len(frames) /\ Len(bq) <= WorkerMax
    BY <1>1, DashboardAssumption DEF Init
  <1>4. span \in [Channels -> Ranges]
    BY DashboardAssumption DEF Init
  <1>5. /\ view \in [Channels -> {"closed", "asked", "answered", "shown"}]
        /\ \A c \in Channels : view[c] # "closed" => c \in channels
    BY DEF Init
  <1>6. TypeOK
    BY <1>1, <1>2, <1>3, <1>4, <1>5 DEF Init, TypeOK
  <1>7. LiveComplete /\ PastComplete /\ PageInv
    BY <1>1 DEF Init, LiveComplete, PastComplete, PageInv
  <1> QED BY <1>6, <1>7 DEF IInv

\* A new frame is later than what any view has asked for: it is live, or dropped.
LEMMA PublishStep == ASSUME IInv, NEW f \in Kinds, Publish(f) PROVE IInv'
  <1> DEFINE n == Len(frames) + 1
  <1>1. /\ n \in Numbers' /\ n \notin Numbers /\ Len(frames) \in Nat /\ Len(frames') = n
        /\ frames' \in Seq(Kinds)
        /\ Numbers \subseteq Numbers' /\ Numbers' = Numbers \cup {n}
        /\ \A k \in Numbers : frames'[k] = frames[k]
        /\ bq \in Seq(Numbers') /\ sq \in Seq(Numbers') /\ wire \in Seq(Numbers')
    <2>1. frames' = Append(frames, f) /\ TypeOK
      BY DEF IInv, Publish
    <2>2. n \notin 1..Len(frames)
      BY LenProperties, <2>1 DEF TypeOK
    <2> QED BY <2>1, <2>2, PublishFacts DEF Numbers
  <1>2. /\ bq' \in Seq(Numbers') /\ sq' \in Seq(Numbers') /\ Len(bq') <= WorkerMax
        /\ Range(bq') \cup dropped' = Range(bq) \cup dropped \cup {n}
    <2>1. \A q \in Seq(Numbers') : /\ Append(q, n) \in Seq(Numbers')
                                   /\ Range(Append(q, n)) = Range(q) \cup {n}
                                   /\ Len(Append(q, n)) = Len(q) + 1 /\ Len(q) \in Nat
      BY <1>1, QueueFacts, AppendProperties, LenProperties
    <2>2. Len(bq) <= WorkerMax /\ WorkerMax \in Nat
      BY DashboardAssumption DEF IInv, TypeOK
    <2>3. CASE Len(bq) < WorkerMax
      <3>1. bq' = Append(bq, n) /\ dropped' = dropped
        BY <2>3 DEF Publish
      <3>2. sq' \in Seq(Numbers')
        BY <1>1, <2>1 DEF Publish
      <3>3. /\ bq' \in Seq(Numbers') /\ Range(bq') = Range(bq) \cup {n}
            /\ Len(bq') = Len(bq) + 1 /\ Len(bq) \in Nat
        BY <1>1, <2>1, <3>1
      <3>4. Len(bq') <= WorkerMax
        BY <2>2, <2>3, <3>3
      <3> QED BY <3>1, <3>2, <3>3, <3>4
    <2>4. CASE ~(Len(bq) < WorkerMax)
      <3>1. bq' = bq /\ dropped' = dropped \cup {n}
        BY <2>4 DEF Publish
      <3>2. sq' \in Seq(Numbers')
        BY <1>1, <2>1 DEF Publish
      <3> QED BY <1>1, <2>2, <3>1, <3>2
    <2> QED BY <2>3, <2>4
  <1>3. TypeOK'
    <2>1. stored' \subseteq Numbers' /\ dropped' \subseteq Numbers'
      BY <1>1 DEF IInv, TypeOK, Publish
    <2>2. asked' \in [Channels -> 0..Len(frames')] /\ newest' \in 0..Len(frames')
      BY <1>1 DEF IInv, TypeOK, Publish, views, page
    <2>3. /\ answer' \in [Channels -> SUBSET Numbers']
          /\ shown' \in [Channels -> SUBSET Numbers']
          /\ missing' \in [Channels -> SUBSET Numbers']
      BY <1>1 DEF IInv, TypeOK, Publish, views
    <2>4. wire' \in Seq(Numbers')
      BY <1>1 DEF Publish, page
    <2> QED BY <1>1, <1>2, <2>1, <2>2, <2>3, <2>4 DEF IInv, TypeOK, Publish, views, page
  <1>4. \A k \in Numbers, r \in Ranges : BeyondLimit(k, r) => BeyondLimit(k, r)'
    BY <1>1, <1>3, LimitStays DEF IInv, Publish
  <1>5. LiveComplete'
    <2> SUFFICES ASSUME NEW c \in Channels, view'[c] # "closed", steady'[c],
                        NEW k \in Numbers', k > asked'[c], Wanted(c, k)'
                 PROVE  k \in shown'[c] \cup Range(bq') \cup Range(wire') \cup dropped'
      BY DEF LiveComplete
    <2>1. CASE k = n
      BY <1>2, <2>1
    <2>2. CASE k \in Numbers
      <3>1. Wanted(c, k)
        BY <1>1, <2>2 DEF Wanted
      <3> QED BY <1>2, <2>2, <3>1 DEF IInv, LiveComplete, Publish, views, page
    <2> QED BY <1>1, <2>1, <2>2
  <1>6. PastComplete'
    <2> SUFFICES ASSUME NEW c \in Channels, NEW k \in Numbers', k <= asked'[c],
                        Wanted(c, k)', Within(k, span[c])'
                 PROVE  /\ view'[c] = "answered" =>
                              k \in answer'[c] \cup missing'[c] \/ BeyondLimit(k, span[c])'
                        /\ view'[c] = "shown" =>
                              k \in shown'[c] \cup missing'[c] \/ BeyondLimit(k, span[c])'
      BY DEF PastComplete
    <2>1. /\ asked'[c] = asked[c] /\ asked[c] <= Len(frames) /\ asked[c] \in Nat
          /\ span' = span /\ span[c] \in Ranges
      BY <1>1 DEF IInv, TypeOK, Publish, views
    <2>2. k \in Numbers
      BY <1>1, <2>1
    <2>3. Wanted(c, k) /\ Within(k, span[c])
      BY <1>1, <2>1, <2>2 DEF Wanted, Within
    <2>4. /\ view[c] = "answered" => k \in answer[c] \cup missing[c] \/ BeyondLimit(k, span[c])
          /\ view[c] = "shown" => k \in shown[c] \cup missing[c] \/ BeyondLimit(k, span[c])
      BY <2>1, <2>2, <2>3 DEF IInv, PastComplete
    <2>5. BeyondLimit(k, span[c]) => BeyondLimit(k, span[c])'
      <3>1. PICK r \in Ranges : r = span[c] /\ r = span'[c]
        BY <2>1
      <3>2. BeyondLimit(k, r) => BeyondLimit(k, r)'
        BY <1>4, <2>2
      <3> QED BY <3>1, <3>2, <2>1 DEF BeyondLimit, Within
    <2> QED BY <2>4, <2>5 DEF Publish, views
  <1>7. PageInv'
    BY DEF IInv, PageInv, Publish, page, views
  <1> QED BY <1>3, <1>5, <1>6, <1>7 DEF IInv

\* The past stays complete while views only come to show more.
LEMMA PastStays ==
    ASSUME IInv, TypeOK', frames' = frames, has_store' = has_store, stored \subseteq stored',
           UNCHANGED <<view, span, asked, answer, missing>>,
           \A c \in Channels : shown[c] \subseteq shown'[c]
    PROVE  PastComplete'
  <1>1. \A n \in Numbers, r \in Ranges : BeyondLimit(n, r) => BeyondLimit(n, r)'
    BY LimitStays DEF IInv
  <1> SUFFICES ASSUME NEW c \in Channels, NEW n \in Numbers, n <= asked[c], Wanted(c, n),
                      Within(n, span[c])
               PROVE  /\ view[c] = "answered" =>
                            n \in answer[c] \cup missing[c] \/ BeyondLimit(n, span[c])'
                      /\ view[c] = "shown" =>
                            n \in shown'[c] \cup missing[c] \/ BeyondLimit(n, span[c])'
    BY DEF PastComplete, Numbers, Wanted, Within
  <1>2. /\ view[c] = "answered" => n \in answer[c] \cup missing[c] \/ BeyondLimit(n, span[c])
        /\ view[c] = "shown" => n \in shown[c] \cup missing[c] \/ BeyondLimit(n, span[c])
    BY DEF IInv, PastComplete
  <1>3. BeyondLimit(n, span[c]) => BeyondLimit(n, span[c])'
    <2>1. PICK r \in Ranges : r = span[c] /\ r = span'[c]
      BY DEF IInv, TypeOK
    <2>2. BeyondLimit(n, r) => BeyondLimit(n, r)'
      BY <1>1
    <2> QED BY <2>1, <2>2 DEF BeyondLimit, Within
  <1> QED BY <1>2, <1>3

\* The live feed stays complete while queue, wire and what is shown stay the same.
LEMMA LiveStays ==
    ASSUME LiveComplete, UNCHANGED <<frames, view, asked, shown, bq, wire, dropped>>,
           \A c \in Channels : steady'[c] => steady[c]
    PROVE  LiveComplete'
  BY DEF LiveComplete, Numbers, Wanted

\* A frame goes from the queue to the wire, on which every steady view's page is listed.
LEMMA BeginsStep == IInv /\ BroadcastBegins => IInv'
  <1> SUFFICES ASSUME IInv, BroadcastBegins PROVE IInv'
    OBVIOUS
  <1>1. /\ frames' = frames /\ Numbers' = Numbers /\ has_store' = has_store
        /\ Head(bq) \in Numbers /\ bq' \in Seq(Numbers)
        /\ Range(bq) = {Head(bq)} \cup Range(bq')
    BY QueueFacts DEF IInv, TypeOK, BroadcastBegins, Numbers
  <1>2. /\ wire' \in Seq(Numbers)
        /\ Range(wire') = IF listed THEN Range(wire) \cup {Head(bq)} ELSE Range(wire)
    BY <1>1, QueueFacts DEF IInv, TypeOK, BroadcastBegins
  <1>3. Len(bq') <= WorkerMax
    <2>1. Len(bq') = Len(bq) - 1 /\ Len(bq) \in Nat
      BY HeadTailProperties, EmptySeq, LenProperties DEF IInv, TypeOK, BroadcastBegins
    <2> QED BY <2>1, DashboardAssumption DEF IInv, TypeOK
  <1>4. TypeOK'
    BY <1>1, <1>2, <1>3 DEF IInv, TypeOK, BroadcastBegins, views
  <1>5. PageInv'
    BY DEF IInv, PageInv, BroadcastBegins, views
  <1>6. PastComplete'
    BY <1>1, <1>4, PastStays DEF BroadcastBegins, views
  <1>7. LiveComplete'
    <2> SUFFICES ASSUME NEW c \in Channels, view[c] # "closed", steady[c],
                        NEW n \in Numbers, n > asked[c], Wanted(c, n)
                 PROVE  n \in shown[c] \cup Range(bq') \cup Range(wire') \cup dropped
      BY <1>1 DEF LiveComplete, BroadcastBegins, views, Wanted
    <2>1. n \in shown[c] \cup Range(bq) \cup Range(wire) \cup dropped
      BY DEF IInv, LiveComplete
    <2>2. listed
      BY DEF IInv, PageInv
    <2> QED BY <1>1, <1>2, <2>1, <2>2
  <1> QED BY <1>4, <1>5, <1>6, <1>7 DEF IInv

\* A display that hangs changes nothing that is claimed of views.
LEMMA HangStep == IInv /\ Hang => IInv'
  <1> SUFFICES ASSUME IInv, Hang PROVE IInv'
    OBVIOUS
  <1>1. UNCHANGED <<frames, has_store, stored, bq, sq, dropped, sending, page, views>> /\ stuck' = TRUE
    BY DEF Hang
  <1>2. TypeOK'
    BY <1>1 DEF IInv, TypeOK, page, views, Numbers
  <1>3. PageInv'
    BY <1>1 DEF IInv, PageInv, page, views
  <1>4. PastComplete'
    BY <1>1, <1>2, PastStays DEF views
  <1>5. LiveComplete'
    BY <1>1, LiveStays DEF IInv, views, page
  <1> QED BY <1>2, <1>3, <1>4, <1>5 DEF IInv

\* A page that is taken off the list has no steady view.
LEMMA EndsStep == ASSUME IInv, NEW kept \in BOOLEAN, BroadcastEnds(kept) PROVE IInv'
  <1>1. /\ UNCHANGED <<frames, has_store, stored, bq, sq, dropped, stuck, wire, newest, channels,
                       ready, socket, view, span, asked, answer, shown, missing>>
        /\ sending' = FALSE /\ listed' = (listed /\ kept)
        /\ steady' = [c \in Channels |-> steady[c] /\ kept]
    BY DEF BroadcastEnds
  <1>2. listed' \in BOOLEAN /\ steady' \in [Channels -> BOOLEAN]
    BY <1>1
  <1>3. TypeOK'
    BY <1>1, <1>2 DEF IInv, TypeOK, Numbers
  <1>4. PageInv'
    BY <1>1 DEF IInv, PageInv
  <1>5. PastComplete'
    BY <1>1, <1>3, PastStays
  <1>6. LiveComplete'
    BY <1>1, LiveStays DEF IInv
  <1> QED BY <1>3, <1>4, <1>5, <1>6 DEF IInv

\* The archive grows by a frame, or loses one.
LEMMA StoreStep == ASSUME IInv, NEW ok \in BOOLEAN, Store(ok) PROVE IInv'
  <1>1. /\ frames' = frames /\ Numbers' = Numbers /\ has_store' = has_store
        /\ Head(sq) \in Numbers /\ sq' \in Seq(Numbers)
        /\ stored' = IF ok THEN stored \cup {Head(sq)} ELSE stored
        /\ UNCHANGED <<bq, sending, stuck, dropped, page, views>>
    BY QueueFacts DEF IInv, TypeOK, Store, Numbers
  <1>2. TypeOK'
    BY <1>1 DEF IInv, TypeOK, page, views
  <1>3. PageInv'
    BY <1>1 DEF IInv, PageInv, page, views
  <1>4. PastComplete'
    BY <1>1, <1>2, PastStays DEF views
  <1>5. LiveComplete'
    BY <1>1, LiveStays DEF IInv, views, page
  <1> QED BY <1>2, <1>3, <1>4, <1>5 DEF IInv

\* An opened connection changes nothing that is claimed of views.
LEMMA ConnectStep == IInv /\ Connect => IInv'
  <1> SUFFICES ASSUME IInv, Connect PROVE IInv'
    OBVIOUS
  <1>1. /\ UNCHANGED <<frames, has_store, stored, bq, sq, dropped, sending, stuck, wire, newest,
                       channels, ready, views>>
        /\ socket' = "open" /\ listed' = TRUE
    BY DEF Connect, server
  <1>2. TypeOK'
    BY <1>1 DEF IInv, TypeOK, views, Numbers
  <1>3. PageInv'
    BY <1>1 DEF IInv, PageInv, views
  <1>4. PastComplete'
    BY <1>1, <1>2, PastStays DEF views
  <1>5. LiveComplete'
    BY <1>1, LiveStays DEF IInv, views
  <1> QED BY <1>2, <1>3, <1>4, <1>5 DEF IInv

\* A broken connection leaves no view steady.
LEMMA BreakStep == IInv /\ Break => IInv'
  <1> SUFFICES ASSUME IInv, Break PROVE IInv'
    OBVIOUS
  <1>1. /\ UNCHANGED <<frames, has_store, stored, bq, sq, dropped, sending, stuck, newest,
                       channels, ready, view, span, asked, answer, shown, missing>>
        /\ socket' = "closed" /\ listed' = FALSE /\ wire' = <<>>
        /\ steady' = [c \in Channels |-> FALSE]
    BY DEF Break, server
  <1>2. wire' \in Seq(Numbers)
    BY <1>1, EmptySeq
  <1>3. TypeOK'
    BY <1>1, <1>2 DEF IInv, TypeOK, Numbers
  <1>4. PageInv' /\ LiveComplete'
    BY <1>1 DEF IInv, PageInv, LiveComplete
  <1>5. PastComplete'
    BY <1>1, <1>3, PastStays
  <1> QED BY <1>3, <1>4, <1>5 DEF IInv

\* The schema is loaded while no view is open.
LEMMA LoadSchemaStep == ASSUME IInv, NEW ok \in BOOLEAN, LoadSchema(ok) PROVE IInv'
  <1>1. /\ UNCHANGED <<frames, has_store, stored, bq, sq, dropped, sending, stuck, newest, wire,
                       socket, listed, views>>
        /\ ~ready /\ ready' = TRUE
    BY DEF LoadSchema, server
  <1>2. channels' \subseteq Channels
    <2>1. ASSUME frames # <<>> PROVE frames[Len(frames)].channels \subseteq Channels
      <3>1. frames[Len(frames)] \in Kinds
        BY <2>1, EmptySeq, ElementOfSeq DEF IInv, TypeOK
      <3> QED BY <3>1, DashboardAssumption
    <2> QED BY <2>1 DEF LoadSchema
  <1>3. \A c \in Channels : view'[c] # "closed" => c \in channels'
    BY <1>1 DEF IInv, TypeOK, PageInv, views
  <1>4. TypeOK'
    BY <1>1, <1>2, <1>3 DEF IInv, TypeOK, views, Numbers
  <1>5. PageInv'
    BY <1>1 DEF IInv, PageInv, views
  <1>6. PastComplete'
    BY <1>1, <1>4, PastStays DEF views
  <1>7. LiveComplete'
    BY <1>1, LiveStays DEF IInv, views
  <1> QED BY <1>4, <1>5, <1>6, <1>7 DEF IInv

\* A view that opens has seen no frame later than the last one yet.
LEMMA OpenViewStep ==
    ASSUME IInv, NEW c \in Channels, NEW r \in Ranges, OpenView(c, r)
    PROVE  IInv'
  <1>1. /\ UNCHANGED <<frames, has_store, stored, bq, sq, dropped, sending, stuck, page, answer,
                       shown, missing>>
        /\ view' = [view EXCEPT ![c] = "asked"] /\ span' = [span EXCEPT ![c] = r]
        /\ asked' = [asked EXCEPT ![c] = Len(frames)] /\ steady' = [steady EXCEPT ![c] = listed]
        /\ c \in channels
    BY DEF OpenView, server, Supported
  <1>2. Len(frames) \in Nat /\ Numbers' = Numbers
    BY <1>1, LenProperties DEF IInv, TypeOK, Numbers
  <1>3. TypeOK'
    BY <1>1, <1>2 DEF IInv, TypeOK, page
  <1>4. PageInv'
    BY <1>1 DEF IInv, TypeOK, PageInv, page
  <1>5. PastComplete'
    <2>1. \A n \in Numbers, s \in Ranges : BeyondLimit(n, s) => BeyondLimit(n, s)'
      BY <1>1, <1>3, LimitStays DEF IInv
    <2> SUFFICES ASSUME NEW d \in Channels, NEW n \in Numbers, n <= asked'[d], Wanted(d, n),
                        Within(n, span'[d]), view'[d] \in {"answered", "shown"}
                 PROVE  /\ view'[d] = "answered" =>
                              n \in answer[d] \cup missing[d] \/ BeyondLimit(n, span[d])'
                        /\ view'[d] = "shown" =>
                              n \in shown[d] \cup missing[d] \/ BeyondLimit(n, span[d])'
      BY <1>1, <1>2 DEF PastComplete, Wanted, Within
    <2>2. d # c
      BY <1>1 DEF IInv, TypeOK
    <2>3. PICK s \in Ranges : s = span[d] /\ s = span'[d]
      BY <1>1, <2>2 DEF IInv, TypeOK
    <2>4. /\ view[d] = "answered" => n \in answer[d] \cup missing[d] \/ BeyondLimit(n, s)
          /\ view[d] = "shown" => n \in shown[d] \cup missing[d] \/ BeyondLimit(n, s)
      BY <1>1, <2>2, <2>3 DEF IInv, TypeOK, PastComplete
    <2>5. BeyondLimit(n, s) => BeyondLimit(n, s)'
      BY <2>1
    <2>6. BeyondLimit(n, s)' <=> BeyondLimit(n, span[d])'
      BY <2>3 DEF BeyondLimit, Within
    <2> QED BY <1>1, <2>2, <2>4, <2>5, <2>6 DEF IInv, TypeOK
  <1>6. LiveComplete'
    BY <1>1, <1>2 DEF IInv, TypeOK, LiveComplete, Wanted, page, Numbers
  <1> QED BY <1>3, <1>4, <1>5, <1>6 DEF IInv

\* A delivered frame leaves the wire and is shown in the subscribed views of its channels.
LEMMA DeliverStep == IInv /\ Deliver => IInv'
  <1> SUFFICES ASSUME IInv, Deliver PROVE IInv'
    OBVIOUS
  <1>1. /\ UNCHANGED <<frames, has_store, stored, bq, sq, dropped, sending, stuck, socket, listed,
                       channels, ready, view, span, asked, answer, missing, steady>>
        /\ Numbers' = Numbers /\ newest' = Head(wire)
        /\ Head(wire) \in Numbers /\ wire' \in Seq(Numbers)
        /\ Range(wire) = {Head(wire)} \cup Range(wire')
    BY QueueFacts DEF IInv, TypeOK, Deliver, Received, server, Numbers
  <1>2. \A c \in Channels :
            shown'[c] = IF view[c] # "closed" /\ c \in channels /\ c \in frames[Head(wire)].channels
                        THEN shown[c] \cup {Head(wire)} ELSE shown[c]
    BY DEF Deliver, Subscribed
  <1>3. TypeOK'
    <2>1. shown' \in [Channels -> SUBSET Numbers]
      BY <1>1 DEF IInv, TypeOK, Deliver
    <2>2. newest' \in 0..Len(frames)
      BY <1>1 DEF Numbers
    <2> QED BY <1>1, <2>1, <2>2 DEF IInv, TypeOK
  <1>4. PageInv'
    BY <1>1 DEF IInv, PageInv
  <1>5. PastComplete'
    BY <1>1, <1>2, <1>3, PastStays
  <1>6. LiveComplete'
    <2> SUFFICES ASSUME NEW c \in Channels, view[c] # "closed", steady[c],
                        NEW n \in Numbers, n > asked[c], Wanted(c, n)
                 PROVE  n \in shown'[c] \cup Range(bq) \cup Range(wire') \cup dropped
      BY <1>1 DEF LiveComplete, Wanted
    <2>1. n \in shown[c] \cup Range(bq) \cup Range(wire) \cup dropped
      BY DEF IInv, LiveComplete
    <2>2. c \in channels /\ c \in frames[n].channels
      BY DEF IInv, TypeOK, Wanted
    <2> QED BY <1>1, <1>2, <2>1, <2>2
  <1> QED BY <1>3, <1>4, <1>5, <1>6 DEF IInv

\* A frame that is discarded was not to be shown.
LEMMA DiscardStep == IInv /\ Discard => IInv'
  <1> SUFFICES ASSUME IInv, Discard PROVE IInv'
    OBVIOUS
  <1>1. /\ UNCHANGED <<frames, has_store, stored, bq, sq, dropped, sending, stuck, socket, listed,
                       channels, ready, newest, views>>
        /\ Numbers' = Numbers /\ wire' \in Seq(Numbers) /\ ~frames[Head(wire)].readable
        /\ Range(wire) = {Head(wire)} \cup Range(wire')
    BY QueueFacts DEF IInv, TypeOK, Discard, Received, server, Numbers
  <1>2. TypeOK'
    BY <1>1 DEF IInv, TypeOK, views
  <1>3. PageInv'
    BY <1>1 DEF IInv, PageInv, views
  <1>4. PastComplete'
    BY <1>1, <1>2, PastStays DEF views
  <1>5. LiveComplete'
    BY <1>1 DEF IInv, LiveComplete, Wanted, views
  <1> QED BY <1>2, <1>3, <1>4, <1>5 DEF IInv

\* The answer has the frames asked for, but what history does not hold and the limit cuts.
LEMMA AnswerStep == ASSUME IInv, NEW c \in Channels, Answer(c) PROVE IInv'
  <1> DEFINE R == {n \in History : Within(n, span[c])}
  <1>1. /\ UNCHANGED <<frames, has_store, stored, bq, sq, dropped, sending, stuck, page, span,
                       asked, shown, steady>>
        /\ view' = [view EXCEPT ![c] = "answered"] /\ view[c] = "asked"
        /\ missing' = [missing EXCEPT ![c] = (1..asked[c]) \ History]
        /\ asked[c] \in 0..Len(frames) /\ Len(frames) \in Nat /\ Numbers' = Numbers
        /\ span[c] \in Ranges
    BY LenProperties DEF IInv, TypeOK, Answer, server, Numbers
  <1>2. PICK A \in SUBSET R :
          /\ IF has_store THEN Returned(A, R) ELSE A = R
          /\ \E nulls \in SUBSET {n \in A : ~frames[n].readable} :
                answer' = [answer EXCEPT ![c] = {n \in A \ nulls : c \in frames[n].channels}]
    BY DEF Answer
  <1>3. PICK nulls \in SUBSET {n \in A : ~frames[n].readable} :
          answer' = [answer EXCEPT ![c] = {n \in A \ nulls : c \in frames[n].channels}]
    BY <1>2
  <1>4. History \subseteq Numbers /\ (1..asked[c]) \subseteq Numbers
    <2>1. stored \subseteq Numbers
      BY DEF IInv, TypeOK
    <2>2. {n \in 1..Len(frames) : n > Len(frames) - HistoryMax} \subseteq Numbers
      BY DEF Numbers
    <2>3. \A a \in 0..Len(frames) : (1..a) \subseteq Numbers
      BY <1>1 DEF Numbers
    <2> QED BY <1>1, <2>1, <2>2, <2>3 DEF History
  <1>5. TypeOK'
    <2>1. {n \in A \ nulls : c \in frames[n].channels} \subseteq Numbers
      BY <1>4
    <2>2. (1..asked[c]) \ History \subseteq Numbers
      BY <1>4
    <2>3. answer' \in [Channels -> SUBSET Numbers] /\ missing' \in [Channels -> SUBSET Numbers]
      BY <1>1, <1>3, <2>1, <2>2 DEF IInv, TypeOK
    <2> QED BY <1>1, <2>3 DEF IInv, TypeOK, page
  <1>6. PageInv'
    BY <1>1 DEF IInv, PageInv, page
  <1>7. LiveComplete'
    BY <1>1 DEF IInv, TypeOK, LiveComplete, Wanted, page
  <1>8. PastComplete'
    <2>1. \A n \in Numbers, s \in Ranges : BeyondLimit(n, s) => BeyondLimit(n, s)'
      BY <1>1, <1>5, LimitStays DEF IInv
    <2> SUFFICES ASSUME NEW d \in Channels, NEW n \in Numbers, n <= asked[d], Wanted(d, n),
                        Within(n, span[d])
                 PROVE  /\ view'[d] = "answered" =>
                              n \in answer'[d] \cup missing'[d] \/ BeyondLimit(n, span[d])'
                        /\ view'[d] = "shown" =>
                              n \in shown[d] \cup missing'[d] \/ BeyondLimit(n, span[d])'
      BY <1>1 DEF PastComplete, Wanted, Within
    <2>2. PICK s \in Ranges : s = span[d] /\ s = span'[d]
      BY <1>1 DEF IInv, TypeOK
    <2>3. BeyondLimit(n, s)' <=> BeyondLimit(n, span[d])'
      BY <2>2 DEF BeyondLimit, Within
    <2>4. CASE d # c
      <3>1. /\ view[d] = "answered" => n \in answer[d] \cup missing[d] \/ BeyondLimit(n, s)
            /\ view[d] = "shown" => n \in shown[d] \cup missing[d] \/ BeyondLimit(n, s)
        BY <2>2 DEF IInv, PastComplete
      <3> QED BY <1>1, <1>3, <2>1, <2>3, <2>4, <3>1 DEF IInv, TypeOK
    <2>5. CASE d = c
      <3>1. view'[d] = "answered" /\ missing'[d] = (1..asked[c]) \ History
            /\ answer'[d] = {k \in A \ nulls : c \in frames[k].channels}
        BY <1>1, <1>3, <2>5 DEF IInv, TypeOK
      <3>2. n \in 1..asked[c]
        BY <1>1, <2>5 DEF Numbers
      <3>3. CASE n \notin History
        BY <3>1, <3>2, <3>3
      <3>4. CASE n \in A
        BY <2>5, <3>1, <3>4 DEF Wanted
      <3>5. CASE n \in History /\ n \notin A
        <4>1. n \in R /\ has_store
          BY <1>2, <2>5, <3>5
        <4>2. History = stored
          BY <4>1 DEF History
        <4>3. BeyondLimit(n, s)
          BY <1>1, <1>2, <2>2, <2>5, <3>5, <4>1, <4>2, LeftOut DEF IInv
        <4> QED BY <2>1, <2>3, <3>1, <4>3
      <3> QED BY <3>3, <3>4, <3>5
    <2> QED BY <2>4, <2>5
  <1> QED BY <1>5, <1>6, <1>7, <1>8 DEF IInv

\* An empty answer lacks every frame there was.
LEMMA AnswerFailsStep == ASSUME IInv, NEW c \in Channels, AnswerFails(c) PROVE IInv'
  <1>1. /\ UNCHANGED <<frames, has_store, stored, bq, sq, dropped, sending, stuck, page, span,
                       asked, shown, steady>>
        /\ view' = [view EXCEPT ![c] = "answered"] /\ view[c] = "asked"
        /\ answer' = [answer EXCEPT ![c] = {}] /\ missing' = [missing EXCEPT ![c] = 1..asked[c]]
        /\ asked[c] \in 0..Len(frames) /\ Len(frames) \in Nat /\ Numbers' = Numbers
    BY LenProperties DEF IInv, TypeOK, AnswerFails, server, Numbers
  <1>2. TypeOK'
    <2>1. (1..asked[c]) \subseteq Numbers
      BY <1>1 DEF Numbers
    <2>2. answer' \in [Channels -> SUBSET Numbers] /\ missing' \in [Channels -> SUBSET Numbers]
      BY <1>1, <2>1 DEF IInv, TypeOK
    <2> QED BY <1>1, <2>2 DEF IInv, TypeOK, page
  <1>3. PageInv'
    BY <1>1 DEF IInv, PageInv, page
  <1>4. LiveComplete'
    BY <1>1 DEF IInv, TypeOK, LiveComplete, Wanted, page
  <1>5. PastComplete'
    <2> SUFFICES ASSUME NEW d \in Channels, NEW n \in Numbers, n <= asked[d], Wanted(d, n),
                        Within(n, span[d])
                 PROVE  /\ view'[d] = "answered" =>
                              n \in answer'[d] \cup missing'[d] \/ BeyondLimit(n, span[d])'
                        /\ view'[d] = "shown" =>
                              n \in shown[d] \cup missing'[d] \/ BeyondLimit(n, span[d])'
      BY <1>1 DEF PastComplete, Wanted, Within
    <2>1. CASE d # c
      <3>1. BeyondLimit(n, span[d]) <=> BeyondLimit(n, span[d])'
        BY <1>1 DEF BeyondLimit, Within
      <3> QED BY <1>1, <2>1, <3>1 DEF IInv, TypeOK, PastComplete
    <2>2. CASE d = c
      BY <1>1, <2>2 DEF IInv, TypeOK, Numbers
    <2> QED BY <2>1, <2>2
  <1> QED BY <1>2, <1>3, <1>4, <1>5 DEF IInv

\* The answer that arrives joins what is shown.
LEMMA ShowHistoryStep == ASSUME IInv, NEW c \in Channels, ShowHistory(c) PROVE IInv'
  <1>1. /\ UNCHANGED <<frames, has_store, stored, bq, sq, dropped, sending, stuck, page, span,
                       asked, missing, steady>>
        /\ view' = [view EXCEPT ![c] = "shown"] /\ view[c] = "answered"
        /\ shown' = [shown EXCEPT ![c] = shown[c] \cup answer[c]]
        /\ answer' = [answer EXCEPT ![c] = {}] /\ Numbers' = Numbers
    BY DEF IInv, TypeOK, ShowHistory, server, Numbers
  <1>2. TypeOK'
    <2>1. answer' \in [Channels -> SUBSET Numbers] /\ shown' \in [Channels -> SUBSET Numbers]
      BY <1>1 DEF IInv, TypeOK
    <2> QED BY <1>1, <2>1 DEF IInv, TypeOK, page
  <1>3. PageInv'
    BY <1>1 DEF IInv, PageInv, page
  <1>4. LiveComplete'
    BY <1>1 DEF IInv, TypeOK, LiveComplete, Wanted, page
  <1>5. PastComplete'
    <2> SUFFICES ASSUME NEW d \in Channels, NEW n \in Numbers, n <= asked[d], Wanted(d, n),
                        Within(n, span[d])
                 PROVE  /\ view'[d] = "answered" =>
                              n \in answer'[d] \cup missing[d] \/ BeyondLimit(n, span[d])'
                        /\ view'[d] = "shown" =>
                              n \in shown'[d] \cup missing[d] \/ BeyondLimit(n, span[d])'
      BY <1>1 DEF PastComplete, Wanted, Within
    <2>1. BeyondLimit(n, span[d]) <=> BeyondLimit(n, span[d])'
      BY <1>1 DEF BeyondLimit, Within
    <2> QED BY <1>1, <2>1 DEF IInv, TypeOK, PastComplete
  <1> QED BY <1>2, <1>3, <1>4, <1>5 DEF IInv

\* Every step keeps the inductive invariant.
LEMMA StepIInv == IInv /\ [Next]_vars => IInv'
  <1> SUFFICES ASSUME IInv, [Next]_vars PROVE IInv'
    OBVIOUS
  <1>1. ASSUME UNCHANGED vars PROVE IInv'
    <2>1. UNCHANGED <<has_store, frames, stored, dropped, bq, sq, sending, stuck, page, views>>
      BY <1>1 DEF vars, server
    <2>2. TypeOK' /\ PageInv'
      BY <2>1 DEF IInv, TypeOK, PageInv, Numbers, page, views
    <2>3. PastComplete'
      BY <2>1, <2>2, PastStays DEF views
    <2>4. LiveComplete'
      BY <2>1, LiveStays DEF IInv, views, page
    <2> QED BY <2>2, <2>3, <2>4 DEF IInv
  <1>2. ASSUME Next PROVE IInv'
    BY <1>2, PublishStep, BeginsStep, HangStep, EndsStep, StoreStep, ConnectStep, BreakStep,
       LoadSchemaStep, OpenViewStep, DeliverStep, DiscardStep, AnswerStep, AnswerFailsStep,
       ShowHistoryStep DEF Next
  <1> QED BY <1>1, <1>2

\* The inductive invariant holds in every behaviour.
LEMMA IInvHolds == Spec => []IInv
  BY InitIInv, StepIInv, PTL DEF Spec

\* Frames, queues and the page's records have their types, the broadcast queue its bound, and
\* an open view is one of a channel the page knows.
THEOREM TypeCorrect == Spec => []TypeOK
  <1>1. IInv => TypeOK
    BY DEF IInv
  <1> QED BY <1>1, IInvHolds, PTL

\* A view whose connection has been up and listed shows every frame with its channel that is
\* not excused, or it is on its way: past and live feed leave no gap but those the code makes
\* by its limits, by losses and by unreadable values.
THEOREM HistoryMeetsLiveFeed == Spec => []NoGap
  <1>1. ASSUME IInv PROVE NoGap
    <2> SUFFICES ASSUME NEW c \in Channels, view[c] = "shown", steady[c],
                        NEW n \in Numbers, c \in frames[n].channels, ~Excused(c, n)
                 PROVE  n \in shown[c] \cup Range(bq) \cup Range(wire)
      BY DEF NoGap
    <2>1. n \in Nat /\ asked[c] \in Nat
      BY <1>1, LenProperties DEF IInv, TypeOK, Numbers
    <2>2. Wanted(c, n)
      BY DEF Wanted, Excused
    <2>3. CASE n <= asked[c]
      BY <1>1, <2>2, <2>3 DEF IInv, PastComplete, Excused
    <2>4. CASE ~(n <= asked[c])
      BY <1>1, <2>1, <2>2, <2>4 DEF IInv, LiveComplete, Excused
    <2> QED BY <2>3, <2>4
  <1> QED BY <1>1, IInvHolds, PTL
-----------------------------------------------------------------------------
Rising(s)   == \A i, j \in 1..Len(s) : i < j => s[i] < s[j]
Above(s, n) == \A i \in 1..Len(s) : n < s[i]

\* What the page has handled, what was sent to it and what waits to be sent follow each
\* other in the order of publication, each frame once.
LiveInOrder ==
    /\ Rising(wire) /\ Rising(bq)
    /\ Above(wire, newest) /\ Above(bq, newest)
    /\ \A i \in 1..Len(wire) : Above(bq, wire[i])

\* A queue in order stays so when its head leaves or a newer frame comes.
LEMMA RisingFacts ==
    ASSUME NEW s \in Seq(Nat), Rising(s)
    PROVE  /\ \A n \in Nat : (\A i \in 1..Len(s) : s[i] < n) =>
                /\ Rising(Append(s, n))
                /\ \A m \in Nat : Above(s, m) /\ m < n => Above(Append(s, n), m)
           /\ s # <<>> => /\ Head(s) \in Nat /\ Rising(Tail(s)) /\ Above(Tail(s), Head(s))
                          /\ 1 \in 1..Len(s) /\ Head(s) = s[1]
                          /\ \A m \in Nat : Above(s, m) => Above(Tail(s), m) /\ m < Head(s)
                          /\ \A i \in 1..Len(Tail(s)) : i + 1 \in 1..Len(s) /\ Tail(s)[i] = s[i + 1]
  <1>0. Len(s) \in Nat /\ \A i \in 1..Len(s) : s[i] \in Nat
    BY ElementOfSeq, LenProperties
  <1>1. ASSUME NEW n \in Nat, \A i \in 1..Len(s) : s[i] < n
        PROVE  /\ Rising(Append(s, n))
               /\ \A m \in Nat : Above(s, m) /\ m < n => Above(Append(s, n), m)
    <2>1. /\ Len(Append(s, n)) = Len(s) + 1
          /\ \A i \in 1..Len(s) : Append(s, n)[i] = s[i]
          /\ Append(s, n)[Len(s) + 1] = n
      BY AppendProperties
    <2> QED BY <1>0, <1>1, <2>1 DEF Rising, Above
  <1>2. ASSUME s # <<>>
        PROVE  /\ Head(s) \in Nat /\ Rising(Tail(s)) /\ Above(Tail(s), Head(s))
               /\ 1 \in 1..Len(s) /\ Head(s) = s[1]
               /\ \A m \in Nat : Above(s, m) => Above(Tail(s), m) /\ m < Head(s)
               /\ \A i \in 1..Len(Tail(s)) : i + 1 \in 1..Len(s) /\ Tail(s)[i] = s[i + 1]
    <2>1. /\ Head(s) = s[1] /\ Len(s) >= 1 /\ Len(Tail(s)) = Len(s) - 1
          /\ \A i \in 1..(Len(s) - 1) : Tail(s)[i] = s[i + 1]
      BY <1>0, <1>2, HeadTailProperties, EmptySeq
    <2> QED BY <1>0, <2>1 DEF Rising, Above
  <1> QED BY <1>1, <1>2

\* Every step keeps what is live in order: publication adds the newest number, sending and
\* handling move the oldest frame on, and a broken connection only takes frames away.
LEMMA LiveInOrderStep == IInv /\ LiveInOrder /\ [Next]_vars => LiveInOrder'
  <1> SUFFICES ASSUME IInv, LiveInOrder, [Next]_vars PROVE LiveInOrder'
    OBVIOUS
  <1>0. /\ bq \in Seq(Numbers) /\ wire \in Seq(Numbers) /\ Numbers \subseteq Nat
        /\ Len(frames) \in Nat /\ newest \in 0..Len(frames) /\ newest \in Nat
    BY LenProperties DEF IInv, TypeOK, Numbers
  <1>1. /\ bq \in Seq(Nat) /\ wire \in Seq(Nat)
        /\ \A i \in 1..Len(bq) : bq[i] \in Numbers
        /\ \A i \in 1..Len(wire) : wire[i] \in Numbers
    BY <1>0, QueueFacts, ElementOfSeq
  <1>2. ASSUME bq' = bq, wire' = wire, newest' = newest PROVE LiveInOrder'
    BY <1>2 DEF LiveInOrder, Rising, Above
  <1>3. ASSUME NEW f \in Kinds, Publish(f)
        PROVE  LiveInOrder'
    <2> DEFINE n == Len(frames) + 1
    <2>1. /\ wire' = wire /\ newest' = newest
          /\ bq' = bq \/ bq' = Append(bq, n)
      BY <1>3 DEF Publish, page
    <2>2. /\ n \in Nat /\ newest < n
          /\ \A i \in 1..Len(bq) : bq[i] < n
          /\ \A i \in 1..Len(wire) : wire[i] \in Nat /\ wire[i] < n
      BY <1>0, <1>1 DEF Numbers
    <2>3. CASE bq' = Append(bq, n)
      <3>1. Rising(Append(bq, n)) /\ Above(Append(bq, n), newest)
            /\ \A i \in 1..Len(wire) : Above(Append(bq, n), wire[i])
        BY <1>0, <1>1, <2>2, RisingFacts DEF LiveInOrder
      <3> QED BY <2>1, <2>3, <3>1 DEF LiveInOrder, Rising, Above
    <2> QED BY <1>2, <2>1, <2>3
  <1>4. CASE BroadcastBegins
    <2>1. /\ bq # <<>> /\ bq' = Tail(bq) /\ newest' = newest
          /\ wire' = wire \/ wire' = Append(wire, Head(bq))
      BY <1>4 DEF BroadcastBegins
    <2>2. /\ Head(bq) \in Nat /\ Rising(Tail(bq)) /\ Above(Tail(bq), Head(bq))
          /\ Above(Tail(bq), newest) /\ newest < Head(bq)
          /\ \A i \in 1..Len(wire) : Above(Tail(bq), wire[i]) /\ wire[i] < Head(bq)
      BY <1>0, <1>1, <2>1, RisingFacts DEF LiveInOrder
    <2>3. CASE wire' = wire
      BY <2>1, <2>2, <2>3 DEF LiveInOrder
    <2>4. CASE wire' = Append(wire, Head(bq))
      <3>1. Rising(wire') /\ Above(wire', newest)
        BY <1>0, <1>1, <2>2, <2>4, RisingFacts DEF LiveInOrder
      <3>2. /\ Len(wire') = Len(wire) + 1 /\ wire'[Len(wire) + 1] = Head(bq)
            /\ \A i \in 1..Len(wire) : wire'[i] = wire[i]
        BY <1>1, <2>2, <2>4, AppendProperties
      <3>3. \A i \in 1..Len(wire') : i \in 1..Len(wire) \/ i = Len(wire) + 1
        BY <1>1, <3>2, LenProperties
      <3>4. \A i \in 1..Len(wire') : Above(Tail(bq), wire'[i])
        BY <2>2, <3>2, <3>3
      <3> QED BY <2>1, <2>2, <3>1, <3>4 DEF LiveInOrder
    <2> QED BY <2>1, <2>3, <2>4
  <1>5. CASE Deliver
    <2>1. wire # <<>> /\ wire' = Tail(wire) /\ newest' = Head(wire) /\ bq' = bq
      BY <1>5 DEF Deliver, Received, server
    <2>2. /\ Rising(Tail(wire)) /\ Above(Tail(wire), Head(wire))
          /\ 1 \in 1..Len(wire) /\ Head(wire) = wire[1]
          /\ \A i \in 1..Len(Tail(wire)) : i + 1 \in 1..Len(wire) /\ Tail(wire)[i] = wire[i + 1]
      BY <1>1, <2>1, RisingFacts DEF LiveInOrder
    <2>3. Above(bq, Head(wire)) /\ \A i \in 1..Len(Tail(wire)) : Above(bq, Tail(wire)[i])
      BY <2>2 DEF LiveInOrder
    <2> QED BY <2>1, <2>2, <2>3 DEF LiveInOrder
  <1>6. CASE Discard
    <2>1. wire # <<>> /\ wire' = Tail(wire) /\ newest' = newest /\ bq' = bq
      BY <1>6 DEF Discard, Received, server
    <2>2. /\ Rising(Tail(wire)) /\ Above(Tail(wire), newest)
          /\ \A i \in 1..Len(Tail(wire)) : i + 1 \in 1..Len(wire) /\ Tail(wire)[i] = wire[i + 1]
      BY <1>0, <1>1, <2>1, RisingFacts DEF LiveInOrder
    <2>3. \A i \in 1..Len(Tail(wire)) : Above(bq, Tail(wire)[i])
      BY <2>2 DEF LiveInOrder
    <2> QED BY <2>1, <2>2, <2>3 DEF LiveInOrder
  <1>7. CASE Break
    <2>1. wire' = <<>> /\ bq' = bq /\ newest' = newest
      BY <1>7 DEF Break, server
    <2>2. Len(wire') = 0
      BY <2>1, EmptySeq
    <2> QED BY <2>1, <2>2 DEF LiveInOrder, Rising, Above
  <1>8. ASSUME NEW b \in BOOLEAN, BroadcastEnds(b) \/ Store(b) \/ LoadSchema(b)
        PROVE  bq' = bq /\ wire' = wire /\ newest' = newest
    BY <1>8 DEF BroadcastEnds, Store, LoadSchema, server, page
  <1>9. CASE Connect \/ Hang
    BY <1>2, <1>9 DEF Connect, Hang, server, page
  <1>10. ASSUME NEW c \in Channels, NEW r \in Ranges, OpenView(c, r)
        PROVE  bq' = bq /\ wire' = wire /\ newest' = newest
    BY <1>10 DEF OpenView, server, page
  <1>11. ASSUME NEW c \in Channels, Answer(c) \/ AnswerFails(c) \/ ShowHistory(c)
         PROVE  bq' = bq /\ wire' = wire /\ newest' = newest
    BY <1>11 DEF Answer, AnswerFails, ShowHistory, server, page
  <1>12. CASE UNCHANGED vars
    BY <1>2, <1>12 DEF vars, server, page
  <1> QED BY <1>2, <1>3, <1>4, <1>5, <1>6, <1>7, <1>8, <1>9, <1>10, <1>11, <1>12
     DEF Next

\* The live feed of the page, reconnections included, implements the lossy feed:
\* publishing offers a newer frame, handling a message moves the page on to a frame it has
\* not handled yet, and every other step is a stutter.
THEOREM PageIsLossyFeed == Spec => ImplementsFeed
  <1>1. Init => Feed!Init
    BY EmptySeq DEF Init, Feed!Init
  <1>2. Init => LiveInOrder
    BY EmptySeq DEF Init, LiveInOrder, Rising, Above
  <1>3. IInv /\ LiveInOrder /\ [Next]_vars => [Feed!Next]_(Feed!feedVars)
    <2> SUFFICES ASSUME IInv, LiveInOrder, [Next]_vars
                 PROVE  [Feed!Next]_(Feed!feedVars)
      OBVIOUS
    <2>0. /\ wire \in Seq(Numbers) /\ Len(frames) \in Nat /\ newest \in 0..Len(frames)
      BY LenProperties DEF IInv, TypeOK
    <2>1. ASSUME frames' = frames, newest' = newest PROVE UNCHANGED Feed!feedVars
      BY <2>1 DEF Feed!feedVars
    <2>2. ASSUME NEW f \in Kinds, Publish(f)
          PROVE  Feed!Next
      <3>1. frames' = Append(frames, f) /\ newest' = newest
        BY <2>2 DEF Publish, page
      <3>2. Len(frames') = Len(frames) + 1
        BY <3>1, PublishFacts DEF IInv
      <3>3. Len(frames)' \in Nat /\ Len(frames)' > Len(frames)
        BY <2>0, <3>2
      <3> QED BY <3>1, <3>3 DEF Feed!Next, Feed!Offer
    <2>3. CASE Deliver
      <3>1. wire # <<>> /\ newest' = Head(wire) /\ frames' = frames
        BY <2>3 DEF Deliver, Received, server
      <3>2. Head(wire) \in Numbers
        BY <2>0, <3>1, QueueFacts
      <3>3. wire \in Seq(Nat)
        BY <2>0, QueueFacts DEF Numbers
      <3>4. newest < Head(wire)
        BY <2>0, <3>1, <3>3, RisingFacts DEF LiveInOrder
      <3>5. newest' \in Nat /\ newest' >= newest /\ newest' <= Len(frames)
        BY <2>0, <3>1, <3>2, <3>4 DEF Numbers
      <3> QED BY <3>1, <3>5 DEF Feed!Next, Feed!Deliver
    <2>4. CASE BroadcastBegins \/ Hang \/ Connect \/ Break \/ Discard
      BY <2>1, <2>4 DEF BroadcastBegins, Hang, Connect, Break, Discard, server, page
    <2>5. ASSUME NEW b \in BOOLEAN, BroadcastEnds(b) \/ Store(b) \/ LoadSchema(b)
          PROVE  frames' = frames /\ newest' = newest
      BY <2>5 DEF BroadcastEnds, Store, LoadSchema, server, page
    <2>6. ASSUME NEW c \in Channels, NEW r \in Ranges, OpenView(c, r)
          PROVE  frames' = frames /\ newest' = newest
      BY <2>6 DEF OpenView, server, page
    <2>7. ASSUME NEW c \in Channels, Answer(c) \/ AnswerFails(c) \/ ShowHistory(c)
          PROVE  frames' = frames /\ newest' = newest
      BY <2>7 DEF Answer, AnswerFails, ShowHistory, server, page
    <2>8. CASE UNCHANGED vars
      BY <2>1, <2>8 DEF vars, server, page
    <2> QED BY <2>1, <2>2, <2>3, <2>4, <2>5, <2>6, <2>7, <2>8 DEF Next
  <1>4. Spec => []LiveInOrder
    <2>1. IInv /\ LiveInOrder /\ [Next]_vars => LiveInOrder'
      BY LiveInOrderStep
    <2> QED BY <1>2, <2>1, IInvHolds, PTL DEF Spec
  <1> QED BY <1>1, <1>3, <1>4, IInvHolds, PTL DEF Spec, ImplementsFeed, Feed!Spec
=============================================================================
