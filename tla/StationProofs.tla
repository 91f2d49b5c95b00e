--------------------------- MODULE StationProofs ---------------------------
(***************************************************************************)
(* Theorems about Station, for every set of missions files, settings,      *)
(* requests and limits.                                                    *)
(*                                                                         *)
(* Most properties say of a held envelope or row what the POST it came     *)
(* from makes it, so the invariant is about provenance: everything a       *)
(* mission holds is the frame of a POST that it accepted (Genuine), which  *)
(* passed the checks (Vetted), under the configuration of the file in use  *)
(* (Loaded).  What an envelope then contains is a matter of the functions  *)
(* of Enrichment, IngestApi and Configuration, with a lemma for each.      *)
(***************************************************************************)
EXTENDS Station, SequenceTheorems, FiniteSetTheorems, TLAPS

\* A merge has the keys of both, and the upper one decides.
LEMMA MergeFacts ==
    ASSUME NEW base, NEW top
    PROVE  /\ \A k : k \in DOMAIN Merge(base, top) <=> k \in DOMAIN base \/ k \in DOMAIN top
           /\ \A k \in DOMAIN top : Merge(base, top)[k] = top[k]
           /\ \A k \in DOMAIN base \ DOMAIN top : Merge(base, top)[k] = base[k]
  BY DEF Merge

\* What goes before the payload's fields in an envelope.
LEMMA MetadataFacts ==
    ASSUME NEW f, NEW env
    PROVE  /\ \A k : k \in DOMAIN Metadata(f, env) <=>
                 \/ k \in DOMAIN env
                 \/ k \in {"mission_id", "source_id", "epoch_ms", "seq", "source", "timestamp"}
           /\ Metadata(f, env).mission_id = Own(f.mission_id)
           /\ Metadata(f, env).source_id = Own("http_ingest")
           /\ Metadata(f, env).epoch_ms = Own(f.epoch_ms)
           /\ Metadata(f, env).seq = Own(f.seq)
           /\ Metadata(f, env).source = Own(f.meta)
           /\ \A k \in DOMAIN env \ {"mission_id", "source_id", "epoch_ms", "seq", "source"} :
                 Metadata(f, env)[k] = env[k]
  <1> DEFINE base == [timestamp |-> Own(f.epoch_ms)]
             rest == Merge(base, env)
             own  == OwnFields(f)
  <1>1. /\ DOMAIN own = {"mission_id", "source_id", "epoch_ms", "seq", "source"}
        /\ own.mission_id = Own(f.mission_id) /\ own.source_id = Own("http_ingest")
        /\ own.epoch_ms = Own(f.epoch_ms) /\ own.seq = Own(f.seq) /\ own.source = Own(f.meta)
    BY DEF OwnFields
  <1>2. DOMAIN base = {"timestamp"}
    OBVIOUS
  <1>3. Metadata(f, env) = Merge(rest, own)
    BY DEF Metadata
  <1> HIDE DEF base, own
  <1>4. /\ \A k : k \in DOMAIN rest <=> k = "timestamp" \/ k \in DOMAIN env
        /\ \A k \in DOMAIN env : rest[k] = env[k]
    BY <1>2, MergeFacts
  <1> HIDE DEF rest
  <1>5. /\ \A k : k \in DOMAIN Merge(rest, own) <=> k \in DOMAIN rest \/ k \in DOMAIN own
        /\ \A k \in DOMAIN own : Merge(rest, own)[k] = own[k]
        /\ \A k \in DOMAIN rest \ DOMAIN own : Merge(rest, own)[k] = rest[k]
    BY MergeFacts
  <1> QED BY <1>1, <1>3, <1>4, <1>5
\* What the other steps add: the keys of the station are their own, all others stay.
LEMMA StepsFacts ==
    ASSUME NEW f, NEW env
    PROVE  LET E == Ccsds(f, State(Sequence(f, Metadata(f, env))))
           IN  /\ \A k : k \in DOMAIN E <=> k \in DOMAIN env \/ k \in Reserved \/ k = "timestamp"
               /\ E.mission_id = Own(f.mission_id)
               /\ E.source_id = Own("http_ingest")
               /\ E.epoch_ms = Own(f.epoch_ms)
               /\ E.seq = Own(f.seq)
               /\ E.source = Own(f.meta)
               /\ E.system_state = Own("NOMINAL")
               /\ E.ccsds[1] = "step" /\ E.ccsds[2].seq = f.seq
               /\ \A k \in DOMAIN env \ Reserved : E[k] = env[k]
  <1> DEFINE A == Metadata(f, env)
             B == Sequence(f, A)
             C == State(B)
             D == Ccsds(f, C)
             number == [seq |-> f.seq]
             bytes  == [packet |-> f.raw]
             sys    == [system_state |-> Own("NOMINAL")]
             cc     == [ccsds |-> Own(number)]
             both   == [ccsds |-> Own(Merge(number, bytes))]
  <1>1. /\ \A k : k \in DOMAIN A <=>
              \/ k \in DOMAIN env
              \/ k \in {"mission_id", "source_id", "epoch_ms", "seq", "source", "timestamp"}
        /\ A.mission_id = Own(f.mission_id) /\ A.source_id = Own("http_ingest")
        /\ A.epoch_ms = Own(f.epoch_ms) /\ A.seq = Own(f.seq) /\ A.source = Own(f.meta)
        /\ \A k \in DOMAIN env \ {"mission_id", "source_id", "epoch_ms", "seq", "source"} :
              A[k] = env[k]
    BY MetadataFacts
  <1>2. /\ DOMAIN cc = {"ccsds"} /\ cc.ccsds = Own(number) /\ B = Merge(A, cc)
        /\ DOMAIN sys = {"system_state"} /\ sys.system_state = Own("NOMINAL") /\ C = Merge(B, sys)
        /\ DOMAIN both = {"ccsds"} /\ both.ccsds = Own(Merge(number, bytes))
        /\ DOMAIN number = {"seq"} /\ number.seq = f.seq /\ DOMAIN bytes = {"packet"}
    BY DEF Sequence, State
  <1>3. D = IF f.raw = NoPacket THEN C ELSE Merge(C, [ccsds |-> Own(Merge(C.ccsds[2], bytes))])
    BY DEF Ccsds
  <1> HIDE DEF A, B, C, cc, sys, both, number, bytes
  <1>4. /\ \A k : k \in DOMAIN B <=> k \in DOMAIN A \/ k = "ccsds"
        /\ B.ccsds = Own(number)
        /\ \A k \in DOMAIN A \ {"ccsds"} : B[k] = A[k]
    BY <1>2, MergeFacts
  <1>5. /\ \A k : k \in DOMAIN C <=> k \in DOMAIN B \/ k = "system_state"
        /\ C.system_state = Own("NOMINAL")
        /\ \A k \in DOMAIN B \ {"system_state"} : C[k] = B[k]
    BY <1>2, MergeFacts
  <1>6. C.ccsds = Own(number) /\ C.ccsds[1] = "step" /\ C.ccsds[2] = number
    BY <1>4, <1>5 DEF Own
  <1>7. /\ \A k : k \in DOMAIN D <=> k \in DOMAIN C
        /\ \A k \in DOMAIN C \ {"ccsds"} : D[k] = C[k]
        /\ D.ccsds[1] = "step" /\ D.ccsds[2].seq = f.seq
    <2>1. CASE f.raw = NoPacket
      BY <1>2, <1>3, <1>6, <2>1
    <2>2. CASE f.raw # NoPacket
      <3>1. D = Merge(C, both)
        BY <1>3, <1>6, <2>2 DEF both
      <3>2. /\ \A k : k \in DOMAIN D <=> k \in DOMAIN C \/ k = "ccsds"
            /\ D.ccsds = both.ccsds
            /\ \A k \in DOMAIN C \ {"ccsds"} : D[k] = C[k]
        BY <1>2, <3>1, MergeFacts
      <3>3. Merge(number, bytes)["seq"] = number["seq"]
        BY <1>2, MergeFacts
      <3>4. D.ccsds[1] = "step" /\ D.ccsds[2] = Merge(number, bytes)
        BY <1>2, <3>2 DEF Own
      <3> QED BY <1>2, <1>4, <1>5, <3>2, <3>3, <3>4
    <2> QED BY <2>1, <2>2
  <1> HIDE DEF D
  <1>8. \A k : k \in DOMAIN D <=> k \in DOMAIN env \/ k \in Reserved \/ k = "timestamp"
    BY <1>1, <1>4, <1>5, <1>7 DEF Reserved
  <1>9. \A k \in DOMAIN env \ Reserved : D[k] = env[k]
    BY <1>1, <1>4, <1>5, <1>7 DEF Reserved
  <1>10. /\ D.mission_id = Own(f.mission_id) /\ D.source_id = Own("http_ingest")
         /\ D.epoch_ms = Own(f.epoch_ms) /\ D.seq = Own(f.seq) /\ D.source = Own(f.meta)
         /\ D.system_state = Own("NOMINAL")
    BY <1>1, <1>4, <1>5, <1>7
  <1>11. D = Ccsds(f, State(Sequence(f, Metadata(f, env))))
    BY DEF D, C, B, A
  <1> QED BY <1>7, <1>8, <1>9, <1>10, <1>11

\* The fields that a frame brings: labels over channels.
Payload(f) == Merge(f.channels, f.labels)

\* Everything the properties say of an envelope.
LEMMA EnvelopeFacts ==
    ASSUME NEW f, NEW specs
    PROVE  LET E == Envelope(f, specs)
           IN  /\ \A k : k \in DOMAIN E <=>
                     \/ k \in DOMAIN Payload(f) \/ k \in Reserved \/ k = "timestamp"
                     \/ k = "limit_violations" /\ Violating(f, specs) # {}
               /\ E.mission_id = Own(f.mission_id)
               /\ E.source_id = Own("http_ingest")
               /\ E.epoch_ms = Own(f.epoch_ms)
               /\ E.seq = Own(f.seq)
               /\ E.source = Own(f.meta)
               /\ E.system_state = Own("NOMINAL")
               /\ E.ccsds[1] = "step" /\ E.ccsds[2].seq = f.seq
               /\ \A k \in DOMAIN Payload(f) \ (Reserved \cup {"limit_violations"}) :
                     E[k] = Payload(f)[k]
               /\ Violating(f, specs) # {} => E.limit_violations = Own(Violating(f, specs))
               /\ Violating(f, specs) = {} /\ "limit_violations" \in DOMAIN Payload(f) =>
                     E.limit_violations = Payload(f).limit_violations
  <1> DEFINE V == Violating(f, specs)
             D == Ccsds(f, State(Sequence(f, Metadata(f, Payload(f)))))
             lv == [limit_violations |-> Own(V)]
             E == IF V = {} THEN D ELSE Merge(D, lv)
  <1>1. Envelope(f, specs) = E
    BY DEF Envelope, LimitViolation, Payload
  <1>2. DOMAIN lv = {"limit_violations"} /\ lv.limit_violations = Own(V)
    OBVIOUS
  <1> HIDE DEF lv, V
  <1>3. /\ \A k : k \in DOMAIN D <=> k \in DOMAIN Payload(f) \/ k \in Reserved \/ k = "timestamp"
        /\ D.mission_id = Own(f.mission_id) /\ D.source_id = Own("http_ingest")
        /\ D.epoch_ms = Own(f.epoch_ms) /\ D.seq = Own(f.seq) /\ D.source = Own(f.meta)
        /\ D.system_state = Own("NOMINAL") /\ D.ccsds[1] = "step" /\ D.ccsds[2].seq = f.seq
        /\ \A k \in DOMAIN Payload(f) \ Reserved : D[k] = Payload(f)[k]
    BY StepsFacts
  <1> HIDE DEF D
  <1>4. /\ \A k : k \in DOMAIN Merge(D, lv) <=> k \in DOMAIN D \/ k = "limit_violations"
        /\ Merge(D, lv).limit_violations = Own(V)
        /\ \A k \in DOMAIN D \ {"limit_violations"} : Merge(D, lv)[k] = D[k]
    BY <1>2, MergeFacts
  <1>5. CASE V = {}
    BY <1>1, <1>3, <1>5 DEF Reserved, V
  <1>6. CASE V # {}
    <2>1. E = Merge(D, lv)
      BY <1>6
    <2> HIDE DEF E
    <2>2. \A k \in Reserved : k \in DOMAIN D \ {"limit_violations"} /\ E[k] = D[k]
      BY <1>3, <1>4, <2>1 DEF Reserved
    <2>3. \A k \in DOMAIN Payload(f) \ (Reserved \cup {"limit_violations"}) :
             E[k] = Payload(f)[k]
      BY <1>3, <1>4, <2>1
    <2>4. /\ E.mission_id = D.mission_id /\ E.source_id = D.source_id
          /\ E.epoch_ms = D.epoch_ms /\ E.seq = D.seq /\ E.source = D.source
          /\ E.system_state = D.system_state /\ E.ccsds = D.ccsds
      BY <2>2 DEF Reserved
    <2> QED BY <1>1, <1>3, <1>4, <1>6, <2>1, <2>3, <2>4 DEF V
  <1> QED BY <1>5, <1>6-----------------------------------------------------------------------------
\* Dropping the fraction of a whole number leaves it as it is.
LEMMA TruncatedFacts ==
    /\ \A n \in Int : Truncated(n) \in Int
    /\ \A k \in Int : k * Parts \in Int /\ Truncated(k * Parts) = k
  <1>0. Parts \in Nat \ {0}
    BY StationAssumption
  <1>1. \A n \in Int : n \div Parts \in Int /\ -n \in Int
    BY <1>0
  <1>2. \A n \in Int : Truncated(n) \in Int
    BY <1>1 DEF Truncated
  <1>3. ASSUME NEW k \in Int
        PROVE  k * Parts \in Int /\ Truncated(k * Parts) = k
    <2>1. \A j \in Nat : j * Parts \in Nat /\ (j * Parts) \div Parts = j
      BY <1>0
    <2>2. CASE k >= 0
      BY <2>1, <2>2 DEF Truncated
    <2>3. CASE k < 0
      <3>1. -k \in Nat /\ -(k * Parts) = (-k) * Parts /\ ~(k * Parts >= 0) /\ k * Parts \in Int
        BY <1>0, <2>3
      <3>2. Truncated(k * Parts) = -(((-k) * Parts) \div Parts)
        BY <3>1 DEF Truncated
      <3> QED BY <2>1, <3>1, <3>2
    <2> QED BY <2>2, <2>3
  <1> QED BY <1>2, <1>3

\* What can be told of a JSON value by its type.
LEMMA JsonFacts ==
    ASSUME NEW v, JsonValue(v)
    PROVE  /\ v[1] \in {"number", "digits", "text", "nan", "bool", "null", "nested"}
           /\ Scalar(v) <=> IsNumber(v) \/ IsString(v) \/ v[1] = "bool"
           /\ Readable(v) => IntOf(v) \in Int
           /\ v[1] = "number" => v[2] \in Int
           /\ v[1] = "number" => FloatOf(v)[1] = "number" /\ FloatOf(v)[2] = Float[v[2]]
           /\ v[1] # "number" => FloatOf(v) = v
  <1>0. /\ Null[1] = "null" /\ Nested[1] = "nested" /\ NaN[1] = "nan"
        /\ \A b : Bool(b)[1] = "bool" /\ Bool(b)[2] = b
    BY DEF Null, Nested, NaN, Bool
  <1>1. CASE v \in {Null, Nested, NaN, Bool("true"), Bool("false")}
    <2>1. \/ v = Null /\ v[1] = "null"
          \/ v = Nested /\ v[1] = "nested"
          \/ v = NaN /\ v[1] = "nan"
          \/ v[1] = "bool" /\ v[2] \in {"true", "false"}
      BY <1>0, <1>1
    <2>2. IntOf(v) = 0 \/ IntOf(v) = 1 \/ ~Readable(v)
      BY <2>1 DEF Readable, IntOf
    <2>3. FloatOf(v) = v /\ v[1] # "number"
      BY <2>1 DEF FloatOf
    <2> QED BY <1>0, <2>1, <2>2, <2>3 DEF Scalar, IsNumber, IsString
  <1>2. CASE v[1] \in {"number", "digits", "text"} /\ (v[1] # "text" => v[2] \in Int)
    <2>1. v # Null /\ v # Nested
      BY <1>0, <1>2
    <2>2. Readable(v) => IntOf(v) \in Int
      <3>1. v[1] = "number" => IntOf(v) = Truncated(v[2])
        BY DEF IntOf
      <3>2. v[1] = "digits" => IntOf(v) = v[2]
        BY DEF IntOf
      <3>3. v[1] = "text" => ~Readable(v)
        BY DEF Readable
      <3> QED BY <1>2, <3>1, <3>2, <3>3, TruncatedFacts
    <2>3. /\ v[1] = "number" => FloatOf(v)[1] = "number" /\ FloatOf(v)[2] = Float[v[2]]
          /\ v[1] # "number" => FloatOf(v) = v
      BY DEF FloatOf, Num
    <2> QED BY <1>2, <2>1, <2>2, <2>3 DEF Scalar, IsNumber, IsString
  <1> QED BY <1>1, <1>2 DEF JsonValue

\* Normalisation keeps what is not null and adds the ground's time where it is missing.
LEMMA NormalizeFacts ==
    ASSUME NEW fields, \A k \in DOMAIN fields : JsonValue(fields[k])
    PROVE  LET N == Normalize(fields)
           IN  /\ \A k : k \in DOMAIN N <=> \/ k \in DOMAIN fields /\ fields[k] # Null
                                            \/ k = "epoch_ms" \/ k = "timestamp"
               /\ \A k \in DOMAIN fields : fields[k] # Null => N[k] = fields[k]
               /\ ~("epoch_ms" \in DOMAIN fields /\ fields.epoch_ms # Null) => N.epoch_ms = Num(Now * Parts)
               /\ \A k \in DOMAIN N : JsonValue(N[k])
  <1> DEFINE kept == Restrict(fields, {k \in DOMAIN fields : fields[k] # Null})
             N == Normalize(fields)
  <1>1. /\ \A k : k \in DOMAIN kept <=> k \in DOMAIN fields /\ fields[k] # Null
        /\ \A k \in DOMAIN kept : kept[k] = fields[k]
    BY DEF Restrict
  <1>2. /\ \A k : k \in DOMAIN Defaults <=> k = "epoch_ms" \/ k = "timestamp"
        /\ Defaults.epoch_ms = Num(Now * Parts) /\ Defaults.timestamp = Text("ground time")
    BY DEF Defaults
  <1>3. N = Merge(Defaults, kept)
    BY DEF Normalize
  <1> HIDE DEF kept, N
  <1>4. /\ \A k : k \in DOMAIN N <=> k \in DOMAIN Defaults \/ k \in DOMAIN kept
        /\ \A k \in DOMAIN kept : N[k] = kept[k]
        /\ \A k \in DOMAIN Defaults \ DOMAIN kept : N[k] = Defaults[k]
    BY <1>3, MergeFacts
  <1>5. JsonValue(Num(Now * Parts)) /\ JsonValue(Text("ground time"))
    BY StationAssumption, TruncatedFacts DEF JsonValue, Num, Text
  <1>6. \A k \in DOMAIN N : JsonValue(N[k])
    <2> SUFFICES ASSUME NEW k \in DOMAIN N PROVE JsonValue(N[k])
      OBVIOUS
    <2>1. CASE k \in DOMAIN kept
      BY <1>1, <1>4, <2>1
    <2>2. CASE k \notin DOMAIN kept
      BY <1>2, <1>4, <1>5, <2>2
    <2> QED BY <2>1, <2>2
  <1> QED BY <1>1, <1>2, <1>4, <1>6 DEF N

\* What push_normalized keeps of a value, and what becomes of it.
Kept(v)  == IsNumber(v) \/ IsString(v) \/ v[1] = "bool"
AsSent(v) == IF v[1] = "bool" THEN Text(v[2]) ELSE FloatOf(v)

\* A frame of a payload carries its numbers as channels, its other scalars as labels.
LEMMA JsonFrameFacts ==
    ASSUME NEW r, IsNormalized(r), \A k \in DOMAIN r.fields : JsonValue(r.fields[k]), NEW q
    PROVE  LET f == FrameOf(r, q)
               N == Normalize(r.fields)
           IN  /\ f.mission_id = r.mission /\ f.seq = q /\ f.meta = Meta(r)
               /\ f.epoch_ms = IntOf(N.epoch_ms)
               /\ \A k : k \in DOMAIN f.channels <=> k \in DOMAIN N /\ IsNumber(N[k])
               /\ \A k \in DOMAIN f.channels : f.channels[k] = FloatOf(N[k])
               /\ \A k : k \in DOMAIN f.channels \cup DOMAIN f.labels <=>
                            k \in DOMAIN N /\ Kept(N[k])
               /\ \A k : k \in DOMAIN Payload(f) <=> k \in DOMAIN N /\ Kept(N[k])
               /\ \A k \in DOMAIN Payload(f) : Payload(f)[k] = AsSent(N[k])
  <1> DEFINE f == FrameOf(r, q)
             N == Normalize(r.fields)
             C == Channels(N)
             L == Labels(N)
  <1>1. f = [mission_id |-> r.mission, epoch_ms |-> IntOf(N.epoch_ms), seq |-> q,
             channels |-> C, labels |-> L, raw |-> NoPacket, meta |-> Meta(r)]
    BY DEF FrameOf, JsonFrame
  <1>0. \A k \in DOMAIN N : JsonValue(N[k])
    BY NormalizeFacts
  <1> HIDE DEF N
  <1>2. /\ \A k : k \in DOMAIN C <=> k \in DOMAIN N /\ IsNumber(N[k])
        /\ \A k \in DOMAIN C : C[k] = FloatOf(N[k])
    BY DEF Channels
  <1>3. /\ \A k : k \in DOMAIN L <=> k \in DOMAIN N /\ (IsString(N[k]) \/ N[k][1] = "bool")
        /\ \A k \in DOMAIN L : L[k] = IF IsString(N[k]) THEN N[k] ELSE Text(N[k][2])
    BY DEF Labels
  <1>4. /\ f.mission_id = r.mission /\ f.seq = q /\ f.meta = Meta(r)
        /\ f.epoch_ms = IntOf(N.epoch_ms) /\ f.channels = C /\ f.labels = L
    BY <1>1
  <1> HIDE DEF f, C, L
  <1>5. /\ \A k : k \in DOMAIN Payload(f) <=> k \in DOMAIN C \/ k \in DOMAIN L
        /\ \A k \in DOMAIN L : Payload(f)[k] = L[k]
        /\ \A k \in DOMAIN C \ DOMAIN L : Payload(f)[k] = C[k]
    BY <1>4, MergeFacts DEF Payload
  <1>6. \A k \in DOMAIN Payload(f) : Payload(f)[k] = AsSent(N[k])
    <2> SUFFICES ASSUME NEW k \in DOMAIN Payload(f) PROVE Payload(f)[k] = AsSent(N[k])
      OBVIOUS
    <2>1. CASE k \in DOMAIN L
      <3>1. k \in DOMAIN N /\ (IsString(N[k]) \/ N[k][1] = "bool") /\ N[k][1] # "number"
        BY <1>3, <2>1 DEF IsString
      <3>2. FloatOf(N[k]) = N[k]
        BY <1>0, <3>1, JsonFacts
      <3> QED BY <1>3, <1>5, <2>1, <3>1, <3>2 DEF AsSent, IsString
    <2>2. CASE k \notin DOMAIN L
      BY <1>2, <1>5, <2>2 DEF AsSent, IsNumber
    <2> QED BY <2>1, <2>2
  <1>7. \A k : k \in DOMAIN f.channels \cup DOMAIN f.labels <=> k \in DOMAIN N /\ Kept(N[k])
    BY <1>2, <1>3, <1>4 DEF Kept
  <1>8. \A k : k \in DOMAIN Payload(f) <=> k \in DOMAIN N /\ Kept(N[k])
    BY <1>2, <1>3, <1>5 DEF Kept
  <1> QED BY <1>2, <1>4, <1>6, <1>7, <1>8 DEF f, N

\* A frame of a packet has the packet's number, the ground's time and no fields.
LEMMA PacketFrameFacts ==
    ASSUME NEW r, ~IsNormalized(r), NEW q
    PROVE  LET f == FrameOf(r, q)
           IN  /\ f.mission_id = r.mission /\ f.seq = r.packet.seq_count /\ f.meta = Meta(r)
               /\ f.epoch_ms = Now
               /\ \A k : k \notin DOMAIN f.channels /\ k \notin DOMAIN f.labels
               /\ \A k : k \notin DOMAIN Payload(f)
  <1> DEFINE f == FrameOf(r, q)
  <1>1. f = [mission_id |-> r.mission, epoch_ms |-> Now, seq |-> r.packet.seq_count,
             channels |-> <<>>, labels |-> <<>>, raw |-> r.packet, meta |-> Meta(r)]
    BY DEF FrameOf, PacketFrame
  <1>2. /\ f.mission_id = r.mission /\ f.seq = r.packet.seq_count /\ f.meta = Meta(r)
        /\ f.epoch_ms = Now /\ f.channels = <<>> /\ f.labels = <<>>
    BY <1>1
  <1> HIDE DEF f
  <1>3. \A k : k \notin DOMAIN f.channels /\ k \notin DOMAIN f.labels
    BY <1>2
  <1>4. \A k : k \notin DOMAIN Payload(f)
    BY <1>3, MergeFacts DEF Payload
  <1> QED BY <1>2, <1>3, <1>4 DEF f
\* A set of some of the four checks has a first one.
LEMMA FirstOfFour ==
    ASSUME NEW S \in SUBSET (1..4), S # {}
    PROVE  Min(S) \in S
  <1>0. \A i \in S : i = 1 \/ i = 2 \/ i = 3 \/ i = 4
    OBVIOUS
  <1>1. \E x \in S : \A y \in S : x <= y
    <2>1. CASE 1 \in S
      BY <2>1
    <2>2. CASE 1 \notin S /\ 2 \in S
      BY <2>2
    <2>3. CASE 1 \notin S /\ 2 \notin S /\ 3 \in S
      BY <2>3
    <2>4. CASE 1 \notin S /\ 2 \notin S /\ 3 \notin S
      <3>1. PICK i : i \in S
        OBVIOUS
      <3>2. 4 \in S /\ \A j \in S : j = 4
        BY <1>0, <2>4, <3>1
      <3> QED BY <3>2
    <2> QED BY <2>1, <2>2, <2>3, <2>4
  <1> QED BY <1>1 DEF Min

\* What the handlers make of a body is one of their statuses.
LEMMA ContentFacts ==
    ASSUME NEW r, RequestShape(r)
    PROVE  /\ Content(r) \in {202, 400, 415, 422, 500}
           /\ Content(r) = 202 /\ r.body # "malformed" => IsNormalized(r) \/ r.body = "packet"
  <1>1. r.body \in {"packet", "short", "empty", "notbase64", "payload", "malformed", "nottext"}
    BY DEF RequestShape, EnvelopeBody
  <1>2. CASE r.route = "telemetry"
    BY <1>2 DEF Content, IsNormalized, RequestShape
  <1>3. CASE r.route = "packet"
    BY <1>1, <1>3 DEF Content, PacketBody
  <1>4. CASE r.route = "envelope"
    BY <1>1, <1>4 DEF Content, EnvelopeBody, IsNormalized
  <1> QED BY <1>2, <1>3, <1>4 DEF RequestShape

\* Two of the checks: a declared body is one, and the handler makes something of it.
HasBody(r) == r.route = "packet" \/ r.body # "malformed"
Handled(r) == Content(r) = 202

\* A POST is let through only if every check is passed.
LEMMA DecisionFacts ==
    ASSUME NEW r, RequestShape(r), NEW known \in BOOLEAN, NEW token
    PROVE  /\ Decision(r, known, token) \in {202, 400, 401, 404, 415, 422, 500}
           /\ Decision(r, known, token) = 202 =>
                 /\ known /\ Verified(token, r)
                 /\ IsNormalized(r) \/ r.body = "packet"
  <1> DEFINE checks == Checks(r, known, token)
             failed == {i \in DOMAIN checks : ~checks[i].ok}
  <1>1. /\ DOMAIN checks = 1..4
        /\ checks[1] = Passed(HasBody(r), 422)
        /\ checks[2] = Passed(known, 404)
        /\ checks[3] = Passed(Verified(token, r), 401)
        /\ checks[4] = Passed(Handled(r), Content(r))
    BY DEF Checks, HasBody, Handled
  <1>p. ASSUME NEW ok \in BOOLEAN, NEW status
        PROVE  (Passed(ok, status).ok <=> ok) /\ Passed(ok, status).status = status
    <2>1. Passed(ok, status).ok = ok
      BY DEF Passed
    <2>2. Passed(ok, status).status = status
      BY DEF Passed
    <2> QED BY <2>1, <2>2
  <1>b. HasBody(r) \in BOOLEAN /\ Verified(token, r) \in BOOLEAN /\ Handled(r) \in BOOLEAN
    BY DEF Verified, HasBody, Handled
  <1>2. /\ checks[1].ok <=> HasBody(r)
        /\ checks[2].ok <=> known
        /\ checks[3].ok <=> Verified(token, r)
        /\ checks[4].ok <=> Handled(r)
    BY <1>1, <1>p, <1>b
  <1>s. /\ checks[1].status = 422 /\ checks[2].status = 404 /\ checks[3].status = 401
        /\ checks[4].status = Content(r)
    BY <1>1, <1>p, <1>b
  <1>3. Decision(r, known, token) = IF failed = {} THEN 202 ELSE checks[Min(failed)].status
    BY DEF Decision
  <1> HIDE DEF checks
  <1>4. CASE failed = {}
    <2>1. \A i \in 1..4 : checks[i].ok
      BY <1>1, <1>4
    <2>2. known /\ Verified(token, r) /\ Handled(r) /\ HasBody(r)
      BY <1>2, <2>1
    <2>3. IsNormalized(r) \/ r.body = "packet"
      <3>1. r.route = "packet" /\ r.body = "malformed" => Content(r) # 202
        BY DEF Content, PacketBody
      <3> QED BY <2>2, <3>1, ContentFacts DEF HasBody, Handled
    <2> QED BY <1>3, <1>4, <2>2, <2>3
  <1>5. CASE failed # {}
    <2>1. Min(failed) \in failed
      <3>1. failed \in SUBSET (1..4)
        BY <1>1
      <3> QED BY <1>5, <3>1, FirstOfFour
    <2>2. PICK i \in 1..4 : i = Min(failed) /\ ~checks[i].ok
      BY <1>1, <2>1
    <2>3. checks[i].status \in {400, 401, 404, 415, 422, 500}
      BY <1>2, <1>s, <2>2, ContentFacts DEF Handled
    <2> QED BY <1>3, <1>5, <2>2, <2>3
  <1> QED BY <1>4, <1>5-----------------------------------------------------------------------------
\* A set of numbers has a first element.
LEMMA FirstNumber ==
    ASSUME NEW S \in SUBSET Nat, S # {}
    PROVE  \E x \in S : \A y \in S : x <= y
  <1> DEFINE R == OpToRel(<, Nat)
  <1>1. IsWellFoundedOn(R, Nat)
    BY NatLessThanWellFounded
  <1>2. \A x, y \in Nat : <<x, y>> \in R <=> x < y
    BY DEF OpToRel
  <1> HIDE DEF R
  <1>3. PICK x \in S : \A y \in S : ~ (<<y, x>> \in R)
    BY <1>1, WFMin
  <1>4. ASSUME NEW y \in S PROVE x <= y
    <2>1. x \in Nat /\ y \in Nat
      OBVIOUS
    <2>2. ~(y < x)
      BY <1>2, <1>3, <2>1
    <2> QED BY <2>1, <2>2
  <1> QED BY <1>4

\* A bounded set of numbers has a last element.
LEMMA LastNumber ==
    ASSUME NEW n \in Nat, NEW S \in SUBSET (1..n), S # {}
    PROVE  \E x \in S : \A y \in S : y <= x
  <1> DEFINE T == {k \in 0..n : n - k \in S}
  <1>1. PICK s : s \in S
    OBVIOUS
  <1>2. n - s \in T
    <2>1. n - s \in 0..n /\ n - (n - s) = s
      BY <1>1
    <2> QED BY <1>1, <2>1
  <1>3. T \in SUBSET Nat /\ T # {}
    BY <1>2
  <1>4. PICK k \in T : \A l \in T : k <= l
    BY <1>3, FirstNumber
  <1>5. n - k \in S
    BY <1>4
  <1>6. ASSUME NEW y \in S PROVE y <= n - k
    <2>1. n - y \in 0..n /\ n - (n - y) = y
      OBVIOUS
    <2>2. n - y \in T
      BY <2>1
    <2>3. k <= n - y
      BY <1>4, <2>2
    <2> QED BY <1>3, <1>4, <2>3
  <1> QED BY <1>5, <1>6

\* The last declaration of a channel is the one that counts.
LEMMA SpecsFacts ==
    ASSUME NEW channels, Len(channels) \in Nat, DOMAIN channels = 1..Len(channels)
    PROVE  /\ \A id : id \in DOMAIN Specs(channels) <=>
                        \E i \in DOMAIN channels : channels[i].id = id
           /\ \A id \in DOMAIN Specs(channels) : \E i \in DOMAIN channels :
                 /\ channels[i].id = id
                 /\ \A j \in DOMAIN channels : channels[j].id = id => j <= i
                 /\ Specs(channels)[id] = [min |-> Bound(channels[i].min), max |-> Bound(channels[i].max)]
  <1> DEFINE Last(id, i) == /\ channels[i].id = id
                            /\ \A j \in DOMAIN channels : channels[j].id = id => j <= i
             C(id) == CHOOSE i \in DOMAIN channels : Last(id, i)
  <1>1. /\ \A id : id \in DOMAIN Specs(channels) <=>
                    \E i \in DOMAIN channels : channels[i].id = id
        /\ \A id \in DOMAIN Specs(channels) :
              Specs(channels)[id] =
                  [min |-> Bound(channels[C(id)].min), max |-> Bound(channels[C(id)].max)]
    BY DEF Specs, ChannelSpec
  <1>2. ASSUME NEW id \in DOMAIN Specs(channels)
        PROVE  C(id) \in DOMAIN channels /\ Last(id, C(id))
    <2> DEFINE S == {i \in DOMAIN channels : channels[i].id = id}
    <2>1. S \in SUBSET (1..Len(channels)) /\ S # {}
      BY <1>1
    <2>2. \E i \in S : \A j \in S : j <= i
      BY <2>1, LastNumber
    <2>3. \E i \in DOMAIN channels : Last(id, i)
      BY <2>2
    <2> QED BY <2>3
  <1>3. ASSUME NEW id \in DOMAIN Specs(channels)
        PROVE  \E i \in DOMAIN channels :
                 /\ Last(id, i)
                 /\ Specs(channels)[id] = [min |-> Bound(channels[i].min), max |-> Bound(channels[i].max)]
    <2>1. /\ C(id) \in DOMAIN channels /\ Last(id, C(id))
          /\ Specs(channels)[id] =
                 [min |-> Bound(channels[C(id)].min), max |-> Bound(channels[C(id)].max)]
      BY <1>1, <1>2
    <2> HIDE DEF C, Last
    <2> QED BY <2>1
  <1> QED BY <1>1, <1>3
\* What an entry that parses sets, it sets.
LEMMA ParsedFields ==
    ASSUME NEW raw
    PROVE  /\ ParseMission(raw).id = raw.id /\ ParseMission(raw).token = raw.token
           /\ ParseMission(raw).specs = Specs(raw.channels)
           /\ ParseMission(raw).history_maxlen = raw.history_maxlen
           /\ ParseMission(raw).dsn = raw.dsn
           /\ ParseMission(raw).default_limit = raw.default_limit
           /\ ParseMission(raw).max_limit = raw.max_limit
  BY DEF ParseMission

\* The entries of a missions file that parse.
Parsed(p) == {i \in DOMAIN p.file : p.file[i].fault = "none"}

\* What start-up makes of a missions file: a configuration for every entry that parses, or
\* the default mission's; ids are distinct and limits are numbers.
LEMMA LoadedFacts ==
    ASSUME NEW p \in Deployments, ~LoadRaises(p.file),
           NEW cs, cs = MissionConfigs(p.file, p.settings), ~BuildRaises(cs)
    PROVE  /\ \A i : i \in DOMAIN cs <=> i \in Parsed(p) \/ (Parsed(p) = {} /\ i = 1)
           /\ \A i \in Parsed(p) : cs[i] = ParseMission(p.file[i])
           /\ Parsed(p) = {} => cs[1] = DefaultMission(p.settings)
           /\ \A i \in DOMAIN cs : i \in Nat
           /\ \A i, j \in DOMAIN cs : cs[i].id = cs[j].id => i = j
           /\ \A i \in DOMAIN cs : /\ cs[i].id \in Ids /\ cs[i].history_maxlen \in Nat
                                   /\ cs[i].default_limit \in Int /\ cs[i].max_limit \in Int
  <1> DEFINE loaded == LoadMissionsFile(p.file)
  <1>1. /\ p.settings.history_maxlen \in Int
        /\ Len(p.file) \in Nat /\ DOMAIN p.file = 1..Len(p.file)
        /\ \A i \in DOMAIN p.file : EntryShape(p.file[i])
        /\ "default" \in Ids
    BY StationAssumption
  <1>2. \A i \in DOMAIN p.file : p.file[i].fault \notin Skipped <=> p.file[i].fault = "none"
    BY <1>1 DEF LoadRaises, EntryShape, Skipped
  <1>3. /\ \A i : i \in DOMAIN loaded <=> i \in Parsed(p)
        /\ \A i \in Parsed(p) : loaded[i] = ParseMission(p.file[i])
    BY <1>2 DEF LoadMissionsFile, Parsed
  <1> HIDE DEF loaded
  <1>4. cs = IF DOMAIN loaded = {} THEN <<DefaultMission(p.settings)>> ELSE loaded
    BY DEF MissionConfigs, loaded
  <1>5. DOMAIN loaded = {} <=> Parsed(p) = {}
    BY <1>3
  <1>6. /\ \A i : i \in DOMAIN cs <=> i \in Parsed(p) \/ (Parsed(p) = {} /\ i = 1)
        /\ \A i \in Parsed(p) : cs[i] = ParseMission(p.file[i])
        /\ Parsed(p) = {} => cs[1] = DefaultMission(p.settings)
    <2>1. CASE Parsed(p) = {}
      <3>1. cs = <<DefaultMission(p.settings)>>
        BY <1>4, <1>5, <2>1
      <3> QED BY <2>1, <3>1
    <2>2. CASE Parsed(p) # {}
      <3>1. cs = loaded
        BY <1>4, <1>5, <2>2
      <3> QED BY <1>3, <2>2, <3>1
    <2> QED BY <2>1, <2>2
  <1>7. \A i \in DOMAIN cs : i \in Nat
    BY <1>1, <1>6 DEF Parsed
  <1>8. \A i, j \in DOMAIN cs : cs[i].id = cs[j].id => i = j
    BY DEF BuildRaises
  <1>9. ASSUME NEW i \in DOMAIN cs
        PROVE  /\ cs[i].id \in Ids /\ cs[i].history_maxlen \in Nat
               /\ cs[i].default_limit \in Int /\ cs[i].max_limit \in Int
    <2>1. ~(cs[i].history_maxlen < 0)
      BY DEF BuildRaises
    <2>2. CASE i \in Parsed(p)
      <3>1. EntryShape(p.file[i]) /\ p.file[i].fault = "none"
        BY <1>1, <2>2 DEF Parsed
      <3>2. cs[i] = ParseMission(p.file[i])
        BY <1>6, <2>2
      <3>3. /\ cs[i].id = p.file[i].id /\ cs[i].history_maxlen = p.file[i].history_maxlen
            /\ cs[i].default_limit = p.file[i].default_limit
            /\ cs[i].max_limit = p.file[i].max_limit
        BY <3>2, ParsedFields
      <3> QED BY <2>1, <3>1, <3>3 DEF EntryShape
    <2>3. CASE i \notin Parsed(p)
      <3>1. cs[i] = DefaultMission(p.settings)
        BY <1>6, <2>3
      <3>2. /\ cs[i].id = "default" /\ cs[i].history_maxlen = p.settings.history_maxlen
            /\ cs[i].default_limit = 50000 /\ cs[i].max_limit = 200000
        BY <3>1 DEF DefaultMission
      <3> QED BY <1>1, <2>1, <3>2
    <2> QED BY <2>2, <2>3
  <1> QED BY <1>6, <1>7, <1>8, <1>9
-----------------------------------------------------------------------------
Statuses  == {202, 400, 401, 404, 415, 422, 500}
Responses == [request : Requests, status : Statuses]

\* The POSTs in ps that mission m has accepted.
Accepted(ps, m) == {n \in DOMAIN ps : ps[n].status = 202 /\ ps[n].request.mission = m}

\* The frame of a POST, given the number q that each has drawn.
FrameAt(ps, q, n) == FrameOf(ps[n].request, q[n])

\* What a mission may have queued, and what with its limits it may have enriched.
Queued(ps, q, m) == {[post |-> n, frame |-> FrameAt(ps, q, n)] : n \in Accepted(ps, m)}
Envelopes(ps, q, m, specs) ==
    {[post |-> n, envelope |-> Envelope(FrameAt(ps, q, n), specs)] :
        n \in {k \in Accepted(ps, m) : ~Raises(FrameAt(ps, q, k))}}

\* Before it serves, and for ever if start-up fails, the service holds nothing; then it
\* serves what the missions file says.
Loaded ==
    /\ deployment \in Deployments
    /\ stage \in {"new", "serving", "aborted"}
    /\ stage = "serving" =>
          /\ ~LoadRaises(deployment.file) /\ ~BuildRaises(configs)
          /\ configs = MissionConfigs(deployment.file, deployment.settings)
          /\ \A i \in DOMAIN configs : Dsn(configs[i], deployment.settings) \in DOMAIN tables
    /\ stage # "serving" =>
          /\ configs = <<>> /\ posts = <<>> /\ tables = <<>>
          /\ \A m \in Ids : ingest[m] = <<>> /\ latest[m] = <<>> /\ history[m] = <<>>
                            /\ unstored[m] = <<>> /\ alive[m]

\* Every accepted POST has passed the checks of a served mission, and its time is readable.
Vetted ==
    \A n \in DOMAIN posts : posts[n].status = 202 =>
        LET r == posts[n].request
        IN  /\ r.mission \in Served /\ Verified(Token(r.mission), r)
            /\ IsNormalized(r) \/ r.body = "packet"
            /\ ~PushRaises(r)

\* Queues and history heed their bounds, and only what has a store is to be stored.
Sizes ==
    /\ posts \in Seq(Responses)
    /\ seq \in [Ids -> -1..(SeqSpace - 1)] /\ alive \in [Ids -> BOOLEAN]
    /\ DOMAIN ingest = Ids /\ DOMAIN latest = Ids
    /\ DOMAIN history = Ids /\ DOMAIN unstored = Ids
    /\ \A m \in Ids : Len(ingest[m]) <= IngestMax /\ Len(latest[m]) <= 1
    /\ \A m \in Served : Len(history[m]) <= Config(m).history_maxlen
    /\ \A m \in Served : ~HasStore(m) => unstored[m] = <<>>
    /\ \A d \in DOMAIN tables : IsFiniteSet(tables[d])

\* Whatever a mission holds is the frame of a POST it has accepted, with the number q that
\* this POST has drawn, enriched with the mission's own limits; and a run task that ended
\* has met such a frame.
Genuine(q) ==
    /\ \A m \in Ids :
          /\ ingest[m] \in Seq(Queued(posts, q, m))
          /\ latest[m] \in Seq(Envelopes(posts, q, m, Config(m).specs))
          /\ history[m] \in Seq(Envelopes(posts, q, m, Config(m).specs))
          /\ unstored[m] \in Seq(Envelopes(posts, q, m, Config(m).specs))
          /\ ~alive[m] => \E n \in Accepted(posts, m) : Raises(FrameAt(posts, q, n))
    /\ \A d \in DOMAIN tables : \A row \in tables[d] : \E m \in Served :
          Db(m) = d /\ \E e \in Envelopes(posts, q, m, Config(m).specs) : row = Stored(e)

IInv == Loaded /\ Vetted /\ Sizes /\ \E q : Genuine(q)
\* A mission's configuration is the one of its id.
Configured ==
    /\ \A i \in DOMAIN configs : Config(configs[i].id) = configs[i]
    /\ \A m \in Served : /\ m \in Ids
                         /\ Config(m).id = m /\ Config(m).history_maxlen \in Nat
                         /\ Db(m) \in DOMAIN tables

\* While the service runs, every mission it serves is configured by its own entry.
LEMMA ConfigFacts == Loaded /\ stage = "serving" => Configured
  <1> SUFFICES ASSUME Loaded, stage = "serving" PROVE Configured
    OBVIOUS
  <1>1. /\ deployment \in Deployments /\ ~LoadRaises(deployment.file)
        /\ configs = MissionConfigs(deployment.file, deployment.settings)
        /\ ~BuildRaises(configs)
        /\ \A i \in DOMAIN configs : Dsn(configs[i], deployment.settings) \in DOMAIN tables
    BY DEF Loaded
  <1>2. /\ \A i, j \in DOMAIN configs : configs[i].id = configs[j].id => i = j
        /\ \A i \in DOMAIN configs : configs[i].id \in Ids /\ configs[i].history_maxlen \in Nat
    BY <1>1, LoadedFacts
  <1>3. ASSUME NEW i \in DOMAIN configs PROVE Config(configs[i].id) = configs[i]
    <2> DEFINE c == CHOOSE k \in DOMAIN configs : configs[k].id = configs[i].id
    <2>1. c \in DOMAIN configs /\ configs[c].id = configs[i].id
      OBVIOUS
    <2>2. c = i
      BY <1>2, <2>1
    <2> QED BY <2>2 DEF Config
  <1>4. ASSUME NEW m \in Served
        PROVE  /\ m \in Ids /\ Config(m).id = m /\ Config(m).history_maxlen \in Nat
               /\ Db(m) \in DOMAIN tables
    <2>1. PICK i \in DOMAIN configs : configs[i].id = m
      BY DEF Served
    <2>2. Config(m) = configs[i]
      BY <1>3, <2>1
    <2> QED BY <1>1, <1>2, <2>1, <2>2 DEF Db
  <1> QED BY <1>3, <1>4 DEF Configured

\* A sequence over a set is one over any larger set.
LEMMA SeqGrows ==
    ASSUME NEW S, NEW T, S \subseteq T
    PROVE  \A s : s \in Seq(S) => s \in Seq(T)
  OBVIOUS

\* One more POST, with a number for it: the earlier ones keep what they are and have drawn.
OneMore(ps, q, ps2, q2) ==
    /\ DOMAIN ps = 1..Len(ps) /\ DOMAIN ps2 = 1..(Len(ps) + 1) /\ Len(ps) \in Nat
    /\ \A n \in 1..Len(ps) : ps2[n] = ps[n] /\ q2[n] = q[n]

\* What a mission may hold grows with every POST, whatever number the new one draws.
LEMMA PostsGrow ==
    ASSUME NEW ps, NEW q, NEW ps2, NEW q2, OneMore(ps, q, ps2, q2), NEW m
    PROVE  /\ Queued(ps, q, m) \subseteq Queued(ps2, q2, m)
           /\ \A specs : Envelopes(ps, q, m, specs) \subseteq Envelopes(ps2, q2, m, specs)
           /\ \A n \in Accepted(ps, m) : n \in Accepted(ps2, m)
                                         /\ FrameAt(ps2, q2, n) = FrameAt(ps, q, n)
  <1>1. /\ DOMAIN ps = 1..Len(ps) /\ DOMAIN ps2 = 1..(Len(ps) + 1) /\ Len(ps) \in Nat
        /\ \A n \in 1..Len(ps) : ps2[n] = ps[n] /\ q2[n] = q[n]
    BY DEF OneMore
  <1>3. \A n \in Accepted(ps, m) : n \in Accepted(ps2, m) /\ FrameAt(ps2, q2, n) = FrameAt(ps, q, n)
    BY <1>1 DEF Accepted, FrameAt
  <1>4. Queued(ps, q, m) \subseteq Queued(ps2, q2, m)
    BY <1>3 DEF Queued
  <1>5. ASSUME NEW specs PROVE Envelopes(ps, q, m, specs) \subseteq Envelopes(ps2, q2, m, specs)
    BY <1>3 DEF Envelopes
  <1> QED BY <1>3, <1>4, <1>5

\* The bounded deque: its newest element is the one appended, its length heeds the bound.
LEMMA RememberedFacts ==
    ASSUME NEW S, NEW h \in Seq(S), NEW e \in S, NEW n \in Nat, Len(h) <= n
    PROVE  Remembered(h, e, n) \in Seq(S) /\ Len(Remembered(h, e, n)) <= n
  <1>1. CASE n = 0
    BY <1>1 DEF Remembered
  <1>2. CASE n # 0 /\ Len(h) = n
    <2>1. h # <<>>
      BY <1>2
    <2>2. Tail(h) \in Seq(S) /\ Len(Tail(h)) = n - 1
      BY <1>2, <2>1
    <2>3. Append(Tail(h), e) \in Seq(S) /\ Len(Append(Tail(h), e)) = n
      BY <2>2
    <2> QED BY <1>2, <2>3 DEF Remembered
  <1>3. CASE n # 0 /\ Len(h) # n
    <2>1. Append(h, e) \in Seq(S) /\ Len(Append(h, e)) <= n
      BY <1>3
    <2> QED BY <1>3, <2>1 DEF Remembered
  <1> QED BY <1>1, <1>2, <1>3
-----------------------------------------------------------------------------
\* The service starts with nothing.
LEMMA InitHolds == Init => IInv
  <1> SUFFICES ASSUME Init PROVE IInv
    OBVIOUS
  <1> USE DEF Init
  <1>0. SeqSpace \in Nat \ {0} /\ IngestMax \in Nat \ {0}
    BY StationAssumption
  <1>1. Served = {} /\ DOMAIN tables = {} /\ DOMAIN posts = {}
    BY DEF Served
  <1>2. Loaded
    BY DEF Loaded
  <1>3. Vetted
    BY <1>1 DEF Vetted
  <1>4. Sizes
    <2>1. -1 \in -1..(SeqSpace - 1)
      BY <1>0
    <2>2. posts \in Seq(Responses) /\ Len(<<>>) = 0 /\ Len(<<>>) <= IngestMax
      BY <1>0
    <2> QED BY <1>1, <2>1, <2>2 DEF Sizes
  <1>5. Genuine(0)
    <2>1. \A S : <<>> \in Seq(S)
      OBVIOUS
    <2> QED BY <1>1, <2>1 DEF Genuine
  <1> QED BY <1>2, <1>3, <1>4, <1>5 DEF IInv

\* Start-up fails and leaves nothing, or serves a mission for each configuration.
LEMMA BootStep == ASSUME IInv, Boot PROVE IInv'
  <1>1. /\ stage = "new" /\ Loaded /\ Sizes
        /\ UNCHANGED <<deployment, posts, seq, ingest, alive, latest, history, unstored>>
    BY DEF IInv, Boot
  <1>2. /\ deployment \in Deployments /\ configs = <<>> /\ posts = <<>> /\ tables = <<>>
        /\ \A m \in Ids : ingest[m] = <<>> /\ latest[m] = <<>> /\ history[m] = <<>>
                          /\ unstored[m] = <<>> /\ alive[m]
    BY <1>1 DEF Loaded
  <1>3. \A S : <<>> \in Seq(S)
    OBVIOUS
  <1>4. Genuine(0)' /\ Vetted'
    <2>1. \A d \in DOMAIN tables' : tables'[d] = {}
      BY <1>2 DEF Boot
    <2>2. Genuine(0)'
      BY <1>1, <1>2, <1>3, <2>1 DEF Genuine
    <2>3. Vetted'
      BY <1>1, <1>2 DEF Vetted
    <2> QED BY <2>2, <2>3
  <1>5. CASE stage' = "aborted" /\ UNCHANGED <<configs, tables>>
    <2>1. Loaded'
      BY <1>1, <1>2, <1>5 DEF Loaded
    <2>2. Sizes'
      BY <1>1, <1>2, <1>5 DEF Sizes, Served
    <2> QED BY <1>4, <2>1, <2>2 DEF IInv
  <1>6. CASE stage' # "aborted"
    <2> DEFINE cs == MissionConfigs(deployment.file, deployment.settings)
    <2>1. /\ ~LoadRaises(deployment.file) /\ ~BuildRaises(cs)
          /\ stage' = "serving" /\ configs' = cs
          /\ tables' = [d \in {Dsn(cs[i], deployment.settings) : i \in DOMAIN cs} |-> {}]
      BY <1>6 DEF Boot
    <2> HIDE DEF cs
    <2>2. Loaded'
      BY <1>1, <1>2, <2>1 DEF Loaded, cs
    <2>3. \A m \in Served' : m \in Ids /\ Config(m)'.history_maxlen \in Nat
      <3>1. (Loaded /\ stage = "serving" => Configured)'
        BY ConfigFacts, PTL
      <3> QED BY <2>1, <2>2, <3>1 DEF Configured
    <2>4. \A d \in DOMAIN tables' : IsFiniteSet(tables'[d])
      BY <2>1, FS_EmptySet
    <2>5. Sizes'
      <3>1. Len(<<>>) = 0
        OBVIOUS
      <3>2. \A m \in Ids : history'[m] = <<>> /\ unstored'[m] = <<>>
        BY <1>1, <1>2
      <3>3. \A m \in Served' : Len(history'[m]) <= Config(m)'.history_maxlen
        BY <2>3, <3>1, <3>2
      <3>4. \A m \in Served' : unstored'[m] = <<>>
        BY <2>3, <3>2
      <3>5. /\ posts' \in Seq(Responses)
            /\ seq' \in [Ids -> -1..(SeqSpace - 1)] /\ alive' \in [Ids -> BOOLEAN]
            /\ DOMAIN ingest' = Ids /\ DOMAIN latest' = Ids
            /\ DOMAIN history' = Ids /\ DOMAIN unstored' = Ids
            /\ \A m \in Ids : Len(ingest'[m]) <= IngestMax /\ Len(latest'[m]) <= 1
        BY <1>1 DEF Sizes
      <3> QED BY <2>4, <3>3, <3>4, <3>5 DEF Sizes
    <2> QED BY <1>4, <2>2, <2>5 DEF IInv
  <1> QED BY <1>5, <1>6 DEF Boot
\* Missions are served, and configured, by the missions file alone.
LEMMA SameConfigs ==
    ASSUME configs' = configs, deployment' = deployment
    PROVE  /\ Served' = Served /\ \A m : Config(m)' = Config(m)
           /\ \A m : Token(m)' = Token(m) /\ Db(m)' = Db(m) /\ (HasStore(m)' <=> HasStore(m))
  <1>1. Served' = Served /\ \A m : Config(m)' = Config(m)
    BY DEF Served, Config
  <1>2. \A m : Token(m)' = Token(m) /\ Db(m)' = Db(m)
    BY <1>1 DEF Token, Db
  <1> QED BY <1>1, <1>2 DEF HasStore

\* A POST: what it is answered, what it draws and what it queues.
LEMMA PostFacts ==
    ASSUME IInv, NEW r \in Requests, Post(r)
    PROVE  \E status \in Statuses : \E v :
              /\ posts' = Append(posts, [request |-> r, status |-> status])
              /\ [request |-> r, status |-> status] \in Responses
              /\ status = 202 =>
                    /\ r.mission \in Served /\ Verified(Token(r.mission), r)
                    /\ IsNormalized(r) \/ r.body = "packet"
                    /\ ~PushRaises(r)
              /\ seq' \in [Ids -> -1..(SeqSpace - 1)]
              /\ \/ ingest' = ingest
                 \/ /\ status = 202 /\ Len(ingest[r.mission]) < IngestMax
                    /\ ingest' = [ingest EXCEPT ![r.mission] =
                             Append(@, [post |-> Len(posts) + 1, frame |-> FrameOf(r, v)])]
  <1> DEFINE decision == Decision(r, r.mission \in Served, Token(r.mission))
             status   == IF decision = 202 /\ PushRaises(r) THEN 500 ELSE decision
  <1>1. /\ posts' = Append(posts, [request |-> r, status |-> status])
        /\ decision # 202 => seq' = seq /\ ingest' = ingest
        /\ decision = 202 =>
              /\ seq' = IF IsNormalized(r)
                        THEN [seq EXCEPT ![r.mission] = (@ + 1) % SeqSpace] ELSE seq
              /\ Enqueue(r, Len(posts) + 1)
    BY DEF Post
  <1>2. RequestShape(r)
    BY StationAssumption
  <1>3. (r.mission \in Served) \in BOOLEAN
    OBVIOUS
  <1>4. /\ decision \in {202, 400, 401, 404, 415, 422, 500}
        /\ decision = 202 => /\ r.mission \in Served /\ Verified(Token(r.mission), r)
                             /\ IsNormalized(r) \/ r.body = "packet"
    <2>1. PICK known \in BOOLEAN : known = (r.mission \in Served)
      BY <1>3
    <2>2. decision = Decision(r, known, Token(r.mission))
      BY <2>1
    <2> HIDE DEF decision
    <2>3. /\ Decision(r, known, Token(r.mission)) \in {202, 400, 401, 404, 415, 422, 500}
          /\ Decision(r, known, Token(r.mission)) = 202 =>
                /\ known /\ Verified(Token(r.mission), r)
                /\ IsNormalized(r) \/ r.body = "packet"
      BY <1>2, DecisionFacts
    <2> QED BY <2>1, <2>2, <2>3
  <1>5. /\ stage = "serving" /\ Loaded /\ Sizes
    BY DEF Post, IInv
  <1> HIDE DEF decision
  <1>6. /\ status \in Statuses
        /\ status = 202 => decision = 202 /\ ~PushRaises(r)
    BY <1>4 DEF Statuses
  <1> HIDE DEF status
  <1>7. [request |-> r, status |-> status] \in Responses
    BY <1>6 DEF Responses
  <1>8. seq' \in [Ids -> -1..(SeqSpace - 1)]
    <2>1. CASE decision = 202 /\ IsNormalized(r)
      <3>1. r.mission \in Ids
        BY <1>4, <1>5, <2>1, ConfigFacts DEF Configured
      <3>2. seq \in [Ids -> -1..(SeqSpace - 1)] /\ SeqSpace \in Nat \ {0}
        BY <1>5, StationAssumption DEF Sizes
      <3>3. \A n \in -1..(SeqSpace - 1) : (n + 1) % SeqSpace \in -1..(SeqSpace - 1)
        BY <3>2
      <3> QED BY <1>1, <2>1, <3>1, <3>2, <3>3
    <2>2. CASE ~(decision = 202 /\ IsNormalized(r))
      BY <1>1, <1>5, <2>2 DEF Sizes
    <2> QED BY <2>1, <2>2
  <1>9. PICK v : v = seq'[r.mission]
    OBVIOUS
  <1>10. CASE decision # 202 \/ PushRaises(r)
    <2>1. ingest' = ingest
      BY <1>1, <1>10 DEF Enqueue
    <2> QED BY <1>1, <1>4, <1>6, <1>7, <1>8, <2>1
  <1>11. CASE decision = 202 /\ ~PushRaises(r)
    <2>1. status = 202
      BY <1>11 DEF status
    <2>2. r.mission \in Ids
      BY <1>4, <1>5, <1>11, ConfigFacts DEF Configured
    <2>3. IngestMax \in Nat /\ Len(ingest[r.mission]) <= IngestMax
      BY <1>5, <2>2, StationAssumption DEF Sizes
    <2>4. \/ ingest' = ingest
          \/ /\ ~(Len(ingest[r.mission]) >= IngestMax)
             /\ ingest' = [ingest EXCEPT ![r.mission] =
                   Append(@, [post |-> Len(posts) + 1, frame |-> FrameOf(r, v)])]
      BY <1>1, <1>9, <1>11 DEF Enqueue
    <2>5. \/ ingest' = ingest
          \/ /\ status = 202 /\ Len(ingest[r.mission]) < IngestMax
             /\ ingest' = [ingest EXCEPT ![r.mission] =
                   Append(@, [post |-> Len(posts) + 1, frame |-> FrameOf(r, v)])]
      <3>1. CASE ingest' = ingest
        BY <3>1
      <3>2. CASE ingest' # ingest
        <4>1. Len(ingest[r.mission]) < IngestMax
          BY <2>3, <2>4, <3>2
        <4> QED BY <2>1, <2>4, <3>2, <4>1
      <3> QED BY <3>1, <3>2
    <2>6. posts' = Append(posts, [request |-> r, status |-> status])
      BY <1>1
    <2>7. status = 202 => /\ r.mission \in Served /\ Verified(Token(r.mission), r)
                          /\ IsNormalized(r) \/ r.body = "packet"
                          /\ ~PushRaises(r)
      BY <1>4, <1>6
    <2> status \in Statuses
      BY <1>6
    <2> WITNESS status \in Statuses
    <2> WITNESS v
    <2> QED BY <1>7, <1>8, <2>5, <2>6, <2>7
  <1> QED BY <1>10, <1>11

\* A POST adds to what is accepted, and what it queues is its own frame.
LEMMA PostStep == ASSUME IInv, NEW r \in Requests, Post(r) PROVE IInv'
  <1>1. PICK status, v :
              /\ status \in Statuses
              /\ posts' = Append(posts, [request |-> r, status |-> status])
              /\ [request |-> r, status |-> status] \in Responses
              /\ status = 202 =>
                    /\ r.mission \in Served /\ Verified(Token(r.mission), r)
                    /\ IsNormalized(r) \/ r.body = "packet"
                    /\ ~PushRaises(r)
              /\ seq' \in [Ids -> -1..(SeqSpace - 1)]
              /\ \/ ingest' = ingest
                 \/ /\ status = 202 /\ Len(ingest[r.mission]) < IngestMax
                    /\ ingest' = [ingest EXCEPT ![r.mission] =
                             Append(@, [post |-> Len(posts) + 1, frame |-> FrameOf(r, v)])]
    BY PostFacts
  <1> DEFINE x == [request |-> r, status |-> status]
  <1>2. x.request = r /\ x.status = status /\ x \in Responses
    BY <1>1
  <1> HIDE DEF x
  <1>3. posts' = Append(posts, x)
    BY <1>1 DEF x
  <1>4. PICK q : Genuine(q)
    BY DEF IInv
  <1>5. /\ Loaded /\ Vetted /\ Sizes /\ stage = "serving"
        /\ UNCHANGED <<deployment, stage, configs, alive, latest, history, unstored, tables>>
    BY DEF IInv, Post
  <1>6. /\ posts \in Seq(Responses) /\ Len(posts) \in Nat
        /\ DOMAIN posts = 1..Len(posts) /\ DOMAIN posts' = 1..(Len(posts) + 1)
        /\ \A n \in DOMAIN posts : posts'[n] = posts[n]
        /\ posts'[Len(posts) + 1] = x
    BY <1>2, <1>3, <1>5 DEF Sizes
  <1>7. /\ Served' = Served /\ \A m : Config(m)' = Config(m)
        /\ \A m : Token(m)' = Token(m) /\ Db(m)' = Db(m) /\ (HasStore(m)' <=> HasStore(m))
    BY <1>5, SameConfigs
  <1>8. r.mission \in Served => r.mission \in Ids
    BY <1>5, ConfigFacts DEF Configured
  <1>9. Loaded'
    BY <1>5 DEF Loaded
  <1>10. Vetted'
    <2> SUFFICES ASSUME NEW n \in DOMAIN posts', posts'[n].status = 202
                 PROVE  LET p == posts'[n].request
                        IN  /\ p.mission \in Served /\ Verified(Token(p.mission), p)
                            /\ IsNormalized(p) \/ p.body = "packet"
                            /\ ~PushRaises(p)
      BY <1>7 DEF Vetted
    <2>1. CASE n \in DOMAIN posts
      BY <1>5, <1>6, <2>1 DEF Vetted
    <2>2. CASE n \notin DOMAIN posts
      <3>1. n = Len(posts) + 1
        BY <1>6, <2>2
      <3> QED BY <1>1, <1>2, <1>6, <3>1
    <2> QED BY <2>1, <2>2
  <1>11. Sizes'
    <2>1. \A m \in Ids : Len(ingest'[m]) <= IngestMax
      <3>1. CASE ingest' = ingest
        BY <1>5, <3>1 DEF Sizes
      <3>2. CASE ingest' # ingest
        <4> DEFINE item == [post |-> Len(posts) + 1, frame |-> FrameOf(r, v)]
        <4>1. /\ r.mission \in Ids /\ Len(ingest[r.mission]) < IngestMax
              /\ ingest' = [ingest EXCEPT ![r.mission] = Append(@, item)]
          BY <1>1, <1>8, <3>2
        <4> HIDE DEF item
        <4>2. \A m \in Ids : ingest[m] \in Seq(Queued(posts, q, m)) /\ Len(ingest[m]) \in Nat
          BY <1>4 DEF Genuine
        <4>3. Len(Append(ingest[r.mission], item)) = Len(ingest[r.mission]) + 1
          <5>1. ingest[r.mission] \in Seq(Queued(posts, q, r.mission) \cup {item})
            BY <4>1, <4>2, SeqGrows
          <5> QED BY <5>1
        <4>4. IngestMax \in Nat
          BY StationAssumption
        <4> QED BY <1>5, <4>1, <4>2, <4>3, <4>4 DEF Sizes
      <3> QED BY <3>1, <3>2
    <2>2. posts' \in Seq(Responses)
      BY <1>2, <1>3, <1>6
    <2>3. DOMAIN ingest' = Ids
      BY <1>1, <1>5 DEF Sizes
    <2> QED BY <1>1, <1>5, <1>7, <2>1, <2>2, <2>3 DEF Sizes
  <1>12. \E q2 : Genuine(q2)'
    <2>0. PICK q2 : q2 = [n \in 1..(Len(posts) + 1) |-> IF n <= Len(posts) THEN q[n] ELSE v]
      OBVIOUS
    <2>1. ASSUME NEW m
          PROVE  /\ Queued(posts, q, m) \subseteq Queued(posts', q2, m)
                 /\ \A specs : Envelopes(posts, q, m, specs) \subseteq Envelopes(posts', q2, m, specs)
                 /\ \A n \in Accepted(posts, m) : n \in Accepted(posts', m)
                        /\ FrameAt(posts', q2, n) = FrameAt(posts, q, n)
                 /\ status = 202 /\ r.mission = m =>
                       [post |-> Len(posts) + 1, frame |-> FrameOf(r, v)] \in Queued(posts', q2, m)
      <3>1. OneMore(posts, q, posts', q2)
        BY <1>6, <2>0 DEF OneMore
      <3>2. /\ Queued(posts, q, m) \subseteq Queued(posts', q2, m)
            /\ \A specs : Envelopes(posts, q, m, specs) \subseteq Envelopes(posts', q2, m, specs)
            /\ \A n \in Accepted(posts, m) : n \in Accepted(posts', m)
                    /\ FrameAt(posts', q2, n) = FrameAt(posts, q, n)
        BY <3>1, PostsGrow
      <3>3. ASSUME status = 202, r.mission = m
            PROVE  [post |-> Len(posts) + 1, frame |-> FrameOf(r, v)] \in Queued(posts', q2, m)
        <4>1. Len(posts) + 1 \in Accepted(posts', m)
          BY <1>2, <1>6, <3>3 DEF Accepted
        <4>2. FrameAt(posts', q2, Len(posts) + 1) = FrameOf(r, v)
          BY <1>2, <1>6, <2>0 DEF FrameAt
        <4> QED BY <4>1, <4>2 DEF Queued
      <3> QED BY <3>2, <3>3
    <2>2. ASSUME NEW m \in Ids PROVE ingest'[m] \in Seq(Queued(posts', q2, m))
      <3>1. ingest[m] \in Seq(Queued(posts', q2, m))
        BY <1>4, <2>1, SeqGrows DEF Genuine
      <3>2. CASE ingest'[m] = ingest[m]
        BY <3>1, <3>2
      <3>3. CASE ingest'[m] # ingest[m]
        <4> DEFINE item == [post |-> Len(posts) + 1, frame |-> FrameOf(r, v)]
        <4>1. /\ status = 202
              /\ ingest' = [ingest EXCEPT ![r.mission] = Append(@, item)]
          BY <1>1, <3>3
        <4>2. DOMAIN ingest = Ids
          BY <1>5 DEF Sizes
        <4>3. r.mission = m /\ ingest'[m] = Append(ingest[m], item)
          BY <3>3, <4>1, <4>2
        <4>4. item \in Queued(posts', q2, m)
          BY <2>1, <4>1, <4>3
        <4> HIDE DEF item
        <4> QED BY <3>1, <4>3, <4>4
      <3> QED BY <3>2, <3>3
    <2>3. ASSUME NEW m \in Ids
          PROVE  /\ latest'[m] \in Seq(Envelopes(posts', q2, m, Config(m)'.specs))
                 /\ history'[m] \in Seq(Envelopes(posts', q2, m, Config(m)'.specs))
                 /\ unstored'[m] \in Seq(Envelopes(posts', q2, m, Config(m)'.specs))
      <3>1. /\ latest[m] \in Seq(Envelopes(posts, q, m, Config(m).specs))
            /\ history[m] \in Seq(Envelopes(posts, q, m, Config(m).specs))
            /\ unstored[m] \in Seq(Envelopes(posts, q, m, Config(m).specs))
        BY <1>4 DEF Genuine
      <3>2. Envelopes(posts, q, m, Config(m).specs) \subseteq Envelopes(posts', q2, m, Config(m).specs)
        BY <2>1
      <3> QED BY <1>5, <1>7, <3>1, <3>2, SeqGrows
    <2>4. ASSUME NEW m \in Ids, ~alive'[m]
          PROVE  \E n \in Accepted(posts', m) : Raises(FrameAt(posts', q2, n))
      <3>1. PICK n \in Accepted(posts, m) : Raises(FrameAt(posts, q, n))
        BY <1>4, <1>5, <2>4 DEF Genuine
      <3> QED BY <2>1, <3>1
    <2>5. ASSUME NEW d \in DOMAIN tables', NEW row \in tables'[d]
          PROVE  \E m \in Served' : Db(m)' = d /\
                    \E e \in Envelopes(posts', q2, m, Config(m)'.specs) : row = Stored(e)
      <3>1. PICK m \in Served : Db(m) = d /\
                    \E e \in Envelopes(posts, q, m, Config(m).specs) : row = Stored(e)
        BY <1>4, <1>5, <2>5 DEF Genuine
      <3> QED BY <1>7, <2>1, <3>1
    <2>6. Genuine(q2)'
      BY <2>2, <2>3, <2>4, <2>5 DEF Genuine
    <2> QED BY <2>6
  <1> QED BY <1>9, <1>10, <1>11, <1>12 DEF IInv
\* What the workers do changes neither missions nor POSTs.
LEMMA WorkersKeep ==
    ASSUME Loaded, Vetted, stage = "serving",
           UNCHANGED <<deployment, stage, configs, posts, seq>>, DOMAIN tables' = DOMAIN tables
    PROVE  /\ Loaded' /\ Vetted'
           /\ Served' = Served /\ \A m : Config(m)' = Config(m)
           /\ \A m : Db(m)' = Db(m) /\ (HasStore(m)' <=> HasStore(m))
  <1>1. /\ Served' = Served /\ \A m : Config(m)' = Config(m)
        /\ \A m : Token(m)' = Token(m) /\ Db(m)' = Db(m) /\ (HasStore(m)' <=> HasStore(m))
    BY SameConfigs
  <1>2. Loaded'
    BY DEF Loaded
  <1>3. Vetted'
    BY <1>1 DEF Vetted
  <1> QED BY <1>1, <1>2, <1>3

\* Only a served mission has frames, and each is of a POST that it has accepted.
LEMMA HeadFacts ==
    ASSUME Loaded, Vetted, Sizes, NEW q, Genuine(q), NEW m \in Ids, ingest[m] # <<>>
    PROVE  /\ stage = "serving" /\ m \in Served
           /\ Head(ingest[m]).post \in Accepted(posts, m)
           /\ Head(ingest[m]).frame = FrameAt(posts, q, Head(ingest[m]).post)
           /\ Tail(ingest[m]) \in Seq(Queued(posts, q, m))
           /\ Len(Tail(ingest[m])) <= IngestMax
  <1>1. stage = "serving"
    BY DEF Loaded
  <1>2. ingest[m] \in Seq(Queued(posts, q, m)) /\ Len(ingest[m]) <= IngestMax
    BY DEF Genuine, Sizes
  <1>3. /\ Head(ingest[m]) \in Queued(posts, q, m)
        /\ Tail(ingest[m]) \in Seq(Queued(posts, q, m))
        /\ Len(Tail(ingest[m])) = Len(ingest[m]) - 1 /\ Len(ingest[m]) \in Nat
    BY <1>2
  <1>4. PICK n \in Accepted(posts, m) :
            Head(ingest[m]) = [post |-> n, frame |-> FrameAt(posts, q, n)]
    BY <1>3 DEF Queued
  <1>5. m \in Served
    BY <1>4 DEF Vetted, Accepted
  <1>6. IngestMax \in Nat
    BY StationAssumption
  <1> QED BY <1>1, <1>2, <1>3, <1>4, <1>5, <1>6

\* The run task passes an accepted frame on, enriched with the mission's own limits.
LEMMA EnrichStep == ASSUME IInv, NEW m \in Ids, Enrich(m) PROVE IInv'
  <1>1. PICK q : Genuine(q)
    BY DEF IInv
  <1> DEFINE S == Envelopes(posts, q, m, Config(m).specs)
             f == Head(ingest[m])
             e == [post |-> f.post, envelope |-> Envelope(f.frame, Config(m).specs)]
  <1>2. /\ Loaded /\ Vetted /\ Sizes
        /\ ingest[m] # <<>> /\ ~Raises(f.frame)
        /\ latest' = [latest EXCEPT ![m] = <<e>>]
        /\ history' = [history EXCEPT ![m] = Remembered(@, e, Config(m).history_maxlen)]
        /\ unstored' = [unstored EXCEPT ![m] = IF HasStore(m) THEN Append(@, e) ELSE @]
        /\ ingest' = [ingest EXCEPT ![m] = Tail(@)]
        /\ UNCHANGED <<deployment, stage, configs, posts, seq, alive, tables>>
    BY DEF IInv, Enrich
  <1>3. /\ stage = "serving" /\ m \in Served
        /\ f.post \in Accepted(posts, m) /\ f.frame = FrameAt(posts, q, f.post)
        /\ Tail(ingest[m]) \in Seq(Queued(posts, q, m))
        /\ Len(Tail(ingest[m])) <= IngestMax
    BY <1>1, <1>2, HeadFacts
  <1>4. e \in S
    BY <1>2, <1>3 DEF Envelopes
  <1> HIDE DEF e, f
  <1>5. /\ Loaded' /\ Vetted'
        /\ Served' = Served /\ \A k : Config(k)' = Config(k)
        /\ \A k : Db(k)' = Db(k) /\ (HasStore(k)' <=> HasStore(k))
    BY <1>2, <1>3, WorkersKeep
  <1>6. Config(m).history_maxlen \in Nat
    BY <1>2, <1>3, ConfigFacts DEF Configured
  <1>7. /\ ingest[m] \in Seq(Queued(posts, q, m))
        /\ history[m] \in Seq(S) /\ unstored[m] \in Seq(S)
        /\ DOMAIN ingest = Ids /\ DOMAIN latest = Ids /\ DOMAIN history = Ids
        /\ DOMAIN unstored = Ids
        /\ Len(history[m]) <= Config(m).history_maxlen
    BY <1>1, <1>2, <1>3 DEF Genuine, Sizes
  <1> HIDE DEF S
  <1>8. /\ Remembered(history[m], e, Config(m).history_maxlen) \in Seq(S)
        /\ Len(Remembered(history[m], e, Config(m).history_maxlen)) <= Config(m).history_maxlen
    BY <1>4, <1>6, <1>7, RememberedFacts
  <1>9. <<e>> \in Seq(S) /\ Len(<<e>>) = 1 /\ Append(unstored[m], e) \in Seq(S)
    BY <1>4, <1>7
  <1>10. /\ ingest'[m] \in Seq(Queued(posts, q, m)) /\ latest'[m] \in Seq(S)
         /\ history'[m] \in Seq(S) /\ unstored'[m] \in Seq(S)
         /\ Len(ingest'[m]) <= IngestMax /\ Len(latest'[m]) <= 1
         /\ Len(history'[m]) <= Config(m).history_maxlen
         /\ ~HasStore(m) => unstored'[m] = unstored[m]
    BY <1>2, <1>3, <1>7, <1>8, <1>9
  <1>11. \A k \in Ids \ {m} : /\ ingest'[k] = ingest[k] /\ latest'[k] = latest[k]
                              /\ history'[k] = history[k] /\ unstored'[k] = unstored[k]
    BY <1>2, <1>7
  <1>12. Sizes'
    <2>1. \A k \in Ids : Len(ingest'[k]) <= IngestMax /\ Len(latest'[k]) <= 1
      BY <1>2, <1>10, <1>11 DEF Sizes
    <2>2. \A k \in Served : Len(history'[k]) <= Config(k).history_maxlen
      BY <1>2, <1>3, <1>10, <1>11, ConfigFacts DEF Sizes, Configured
    <2>3. \A k \in Served : ~HasStore(k) => unstored'[k] = <<>>
      BY <1>2, <1>3, <1>10, <1>11, ConfigFacts DEF Sizes, Configured
    <2>4. /\ DOMAIN ingest' = Ids /\ DOMAIN latest' = Ids /\ DOMAIN history' = Ids
          /\ DOMAIN unstored' = Ids
      BY <1>2, <1>7
    <2> QED BY <1>2, <1>5, <2>1, <2>2, <2>3, <2>4 DEF Sizes
  <1>13. Genuine(q)'
    <2>1. ASSUME NEW k \in Ids
          PROVE  /\ ingest'[k] \in Seq(Queued(posts, q, k))
                 /\ latest'[k] \in Seq(Envelopes(posts, q, k, Config(k).specs))
                 /\ history'[k] \in Seq(Envelopes(posts, q, k, Config(k).specs))
                 /\ unstored'[k] \in Seq(Envelopes(posts, q, k, Config(k).specs))
                 /\ ~alive[k] => \E n \in Accepted(posts, k) : Raises(FrameAt(posts, q, n))
      <3>1. CASE k = m
        BY <1>1, <1>10, <3>1 DEF Genuine, S
      <3>2. CASE k # m
        BY <1>1, <1>11, <3>2 DEF Genuine
      <3> QED BY <3>1, <3>2
    <2>2. \A d \in DOMAIN tables : \A row \in tables[d] : \E k \in Served :
              Db(k) = d /\ \E x \in Envelopes(posts, q, k, Config(k).specs) : row = Stored(x)
      BY <1>1 DEF Genuine
    <2> QED BY <1>2, <1>5, <2>1, <2>2 DEF Genuine
  <1> QED BY <1>5, <1>12, <1>13 DEF IInv
\* A poisoned frame takes the run task with it and leaves the reason on record.
LEMMA EnrichRaisesStep == ASSUME IInv, NEW m \in Ids, EnrichRaises(m) PROVE IInv'
  <1>1. PICK q : Genuine(q)
    BY DEF IInv
  <1>2. /\ Loaded /\ Vetted /\ Sizes
        /\ ingest[m] # <<>> /\ Raises(Head(ingest[m]).frame)
        /\ alive' = [alive EXCEPT ![m] = FALSE]
        /\ ingest' = [ingest EXCEPT ![m] = Tail(@)]
        /\ UNCHANGED <<deployment, stage, configs, posts, seq, latest, history, unstored, tables>>
    BY DEF IInv, EnrichRaises
  <1>3. /\ stage = "serving" /\ m \in Served
        /\ Head(ingest[m]).post \in Accepted(posts, m)
        /\ Head(ingest[m]).frame = FrameAt(posts, q, Head(ingest[m]).post)
        /\ Tail(ingest[m]) \in Seq(Queued(posts, q, m))
        /\ Len(Tail(ingest[m])) <= IngestMax
    BY <1>1, <1>2, HeadFacts
  <1>4. \E n \in Accepted(posts, m) : Raises(FrameAt(posts, q, n))
    BY <1>2, <1>3
  <1>5. /\ Loaded' /\ Vetted'
        /\ Served' = Served /\ \A k : Config(k)' = Config(k)
        /\ \A k : Db(k)' = Db(k) /\ (HasStore(k)' <=> HasStore(k))
    BY <1>2, <1>3, WorkersKeep
  <1>6. DOMAIN ingest = Ids /\ alive \in [Ids -> BOOLEAN]
    BY <1>2 DEF Sizes
  <1>7. /\ ingest'[m] = Tail(ingest[m]) /\ DOMAIN ingest' = Ids
        /\ \A k \in Ids \ {m} : ingest'[k] = ingest[k] /\ alive'[k] = alive[k]
        /\ alive' \in [Ids -> BOOLEAN]
    BY <1>2, <1>6
  <1>8. Sizes'
    <2>1. \A k \in Ids : Len(ingest'[k]) <= IngestMax
      BY <1>2, <1>3, <1>7 DEF Sizes
    <2> QED BY <1>2, <1>5, <1>7, <2>1 DEF Sizes
  <1>9. Genuine(q)'
    <2>1. \A k \in Ids : ingest'[k] \in Seq(Queued(posts, q, k))
      BY <1>1, <1>3, <1>7 DEF Genuine
    <2>2. \A k \in Ids : ~alive'[k] => \E n \in Accepted(posts, k) : Raises(FrameAt(posts, q, n))
      BY <1>1, <1>4, <1>7 DEF Genuine
    <2>3. \A k \in Ids : /\ latest[k] \in Seq(Envelopes(posts, q, k, Config(k).specs))
                         /\ history[k] \in Seq(Envelopes(posts, q, k, Config(k).specs))
                         /\ unstored[k] \in Seq(Envelopes(posts, q, k, Config(k).specs))
      BY <1>1 DEF Genuine
    <2>4. \A d \in DOMAIN tables : \A row \in tables[d] : \E k \in Served :
              Db(k) = d /\ \E x \in Envelopes(posts, q, k, Config(k).specs) : row = Stored(x)
      BY <1>1 DEF Genuine
    <2> QED BY <1>2, <1>5, <2>1, <2>2, <2>3, <2>4 DEF Genuine
  <1> QED BY <1>5, <1>8, <1>9 DEF IInv

\* The storage worker turns an envelope of its mission into a row, or loses it.
LEMMA StoreStep == ASSUME IInv, NEW m \in Ids, Store(m) PROVE IInv'
  <1>1. PICK q : Genuine(q)
    BY DEF IInv
  <1> DEFINE S == Envelopes(posts, q, m, Config(m).specs)
             e == Head(unstored[m])
  <1>2. /\ Loaded /\ Vetted /\ Sizes
        /\ unstored[m] # <<>>
        /\ \/ tables' = [tables EXCEPT ![Db(m)] = @ \cup {Stored(e)}]
           \/ tables' = tables
        /\ unstored' = [unstored EXCEPT ![m] = Tail(@)]
        /\ UNCHANGED <<deployment, stage, configs, posts, seq, ingest, alive, latest, history>>
    BY DEF IInv, Store
  <1>3. unstored[m] \in Seq(S) /\ DOMAIN unstored = Ids
    BY <1>1, <1>2 DEF Genuine, Sizes
  <1> HIDE DEF S
  <1>4. e \in S /\ Tail(unstored[m]) \in Seq(S)
    BY <1>2, <1>3
  <1>5. stage = "serving" /\ m \in Served /\ Db(m) \in DOMAIN tables
    <2>1. stage = "serving"
      BY <1>2 DEF Loaded
    <2>2. PICK n \in Accepted(posts, m) : TRUE
      BY <1>4 DEF S, Envelopes
    <2>3. m \in Served
      BY <1>2, <2>2 DEF Vetted, Accepted
    <2> QED BY <1>2, <2>1, <2>3, ConfigFacts DEF Configured
  <1> HIDE DEF e
  <1>6. DOMAIN tables' = DOMAIN tables
    BY <1>2
  <1>7. /\ Loaded' /\ Vetted'
        /\ Served' = Served /\ \A k : Config(k)' = Config(k)
        /\ \A k : Db(k)' = Db(k) /\ (HasStore(k)' <=> HasStore(k))
    BY <1>2, <1>5, <1>6, WorkersKeep
  <1>8. /\ unstored'[m] \in Seq(S) /\ DOMAIN unstored' = Ids
        /\ \A k \in Ids \ {m} : unstored'[k] = unstored[k]
    BY <1>2, <1>3, <1>4
  <1>9. \A d \in DOMAIN tables : \A row \in tables'[d] :
            row \in tables[d] \/ (d = Db(m) /\ row = Stored(e))
    <2>1. CASE tables' = tables
      BY <2>1
    <2>2. CASE tables' = [tables EXCEPT ![Db(m)] = @ \cup {Stored(e)}]
      BY <1>5, <2>2
    <2> QED BY <1>2, <2>1, <2>2
  <1>10. Sizes'
    <2>1. \A k \in Served : k \in Ids
      BY <1>2, <1>5, ConfigFacts DEF Configured
    <2>2. \A k \in Served : ~HasStore(k) => unstored'[k] = <<>>
      <3>1. HasStore(m)
        BY <1>2, <1>5 DEF Sizes
      <3>2. \A k \in Served \ {m} : ~HasStore(k) => unstored[k] = <<>>
        BY <1>2 DEF Sizes
      <3> QED BY <1>8, <2>1, <3>1, <3>2
    <2>3. \A d \in DOMAIN tables' : IsFiniteSet(tables'[d])
      <3> SUFFICES ASSUME NEW d \in DOMAIN tables PROVE IsFiniteSet(tables'[d])
        BY <1>6
      <3>1. IsFiniteSet(tables[d])
        BY <1>2 DEF Sizes
      <3>2. tables'[d] = tables[d] \/ tables'[d] = tables[d] \cup {Stored(e)}
        BY <1>2
      <3> QED BY <3>1, <3>2, FS_AddElement
    <2> QED BY <1>2, <1>7, <1>8, <2>2, <2>3 DEF Sizes
  <1>11. Genuine(q)'
    <2>1. \A k \in Ids : unstored'[k] \in Seq(Envelopes(posts, q, k, Config(k).specs))
      BY <1>1, <1>8 DEF Genuine, S
    <2>2. ASSUME NEW d \in DOMAIN tables, NEW row \in tables'[d]
          PROVE  \E k \in Served : Db(k) = d /\
                     \E x \in Envelopes(posts, q, k, Config(k).specs) : row = Stored(x)
      <3>1. CASE row \in tables[d]
        BY <1>1, <3>1 DEF Genuine
      <3>2. CASE row \notin tables[d]
        BY <1>4, <1>5, <1>9, <2>2, <3>2 DEF S
      <3> QED BY <3>1, <3>2
    <2>3. \A k \in Ids :
             /\ ingest[k] \in Seq(Queued(posts, q, k))
             /\ latest[k] \in Seq(Envelopes(posts, q, k, Config(k).specs))
             /\ history[k] \in Seq(Envelopes(posts, q, k, Config(k).specs))
             /\ ~alive[k] => \E n \in Accepted(posts, k) : Raises(FrameAt(posts, q, n))
      BY <1>1 DEF Genuine
    <2> QED BY <1>2, <1>6, <1>7, <2>1, <2>2, <2>3 DEF Genuine
  <1> QED BY <1>7, <1>10, <1>11 DEF IInv

\* The invariant holds for ever.
THEOREM ProvenanceHolds == Spec => []IInv
  <1>1. Init => IInv
    BY InitHolds
  <1>2. IInv /\ [Next]_vars => IInv'
    <2> SUFFICES ASSUME IInv, [Next]_vars PROVE IInv'
      OBVIOUS
    <2>1. CASE Boot
      BY <2>1, BootStep
    <2>2. CASE \E r \in Requests : Post(r)
      BY <2>2, PostStep
    <2>3. CASE \E m \in Ids : Enrich(m)
      BY <2>3, EnrichStep
    <2>4. CASE \E m \in Ids : EnrichRaises(m)
      BY <2>4, EnrichRaisesStep
    <2>5. CASE \E m \in Ids : Store(m)
      BY <2>5, StoreStep
    <2>6. CASE UNCHANGED vars
      <3>1. PICK q : Genuine(q)
        BY DEF IInv
      <3>2. /\ Served' = Served /\ \A m : Config(m)' = Config(m)
            /\ \A m : Token(m)' = Token(m) /\ Db(m)' = Db(m) /\ (HasStore(m)' <=> HasStore(m))
        BY <2>6, SameConfigs DEF vars
      <3>3. Loaded' /\ Vetted' /\ Sizes'
        BY <2>6, <3>2 DEF IInv, vars, Loaded, Vetted, Sizes
      <3>4. Genuine(q)'
        BY <2>6, <3>1, <3>2 DEF vars, Genuine
      <3> QED BY <3>3, <3>4 DEF IInv
    <2> QED BY <2>1, <2>2, <2>3, <2>4, <2>5, <2>6 DEF Next
  <1> QED BY <1>1, <1>2, PTL DEF Spec
-----------------------------------------------------------------------------
\* What a row says is what its frame says.
LEMMA StoredFacts ==
    ASSUME NEW n, NEW f, NEW specs
    PROVE  LET row == Stored([post |-> n, envelope |-> Envelope(f, specs)])
           IN  /\ row.post = n /\ row.envelope = Envelope(f, specs)
               /\ row.event_time_ms = f.epoch_ms /\ row.mission_id = Cut(128, f.mission_id)
               /\ row.sequence_count = f.seq
               /\ row.telemetry_mode = f.meta.ingest_mode
               /\ row.ingress_source = IF f.meta.source = NoSource THEN NoSource
                                       ELSE Cut(512, f.meta.source)
  <1> DEFINE E == Envelope(f, specs)
             e == [post |-> n, envelope |-> E]
             key == [post |-> n]
             cols == Row(E)
  <1>1. /\ E.epoch_ms[2] = f.epoch_ms /\ E.mission_id[2] = f.mission_id
        /\ E.ccsds[2].seq = f.seq /\ E.source[2] = f.meta
    <2>1. /\ E.epoch_ms = Own(f.epoch_ms) /\ E.mission_id = Own(f.mission_id)
          /\ E.source = Own(f.meta) /\ E.ccsds[2].seq = f.seq
      BY EnvelopeFacts
    <2> QED BY <2>1 DEF Own
  <1> HIDE DEF E
  <1> DEFINE origin == IF f.meta.source = NoSource THEN NoSource ELSE Cut(512, f.meta.source)
             name == Cut(128, f.mission_id)
  <1>2. cols = [event_time_ms |-> E.epoch_ms[2], mission_id |-> name,
                sequence_count |-> E.ccsds[2].seq, telemetry_mode |-> E.source[2].ingest_mode,
                ingress_source |-> origin, envelope |-> E]
    BY <1>1 DEF Row
  <1> HIDE DEF origin, name
  <1>3. /\ "event_time_ms" \in DOMAIN cols /\ "mission_id" \in DOMAIN cols
        /\ "sequence_count" \in DOMAIN cols /\ "telemetry_mode" \in DOMAIN cols
        /\ "ingress_source" \in DOMAIN cols /\ "envelope" \in DOMAIN cols
        /\ "post" \notin DOMAIN cols
        /\ cols.event_time_ms = f.epoch_ms /\ cols.mission_id = name
        /\ cols.sequence_count = f.seq /\ cols.telemetry_mode = f.meta.ingest_mode
        /\ cols.ingress_source = origin /\ cols.envelope = E
    BY <1>1, <1>2
  <1>4. e.post = n /\ e.envelope = E /\ DOMAIN key = {"post"} /\ key.post = n
    OBVIOUS
  <1>5. Stored(e) = Merge(key, cols)
    BY <1>4 DEF Stored
  <1> HIDE DEF e, cols, key
  <1>6. /\ \A k \in DOMAIN cols : Merge(key, cols)[k] = cols[k]
        /\ \A k \in DOMAIN key \ DOMAIN cols : Merge(key, cols)[k] = key[k]
    BY MergeFacts
  <1> QED BY <1>3, <1>4, <1>5, <1>6 DEF e, E, origin, name

\* A frame carries the mission, the origin and the time of its POST.
LEMMA FrameFacts ==
    ASSUME NEW r \in Requests, NEW v
    PROVE  LET f == FrameOf(r, v)
           IN  /\ f.mission_id = r.mission /\ f.meta = Meta(r)
               /\ f.epoch_ms = IF IsNormalized(r) /\ "epoch_ms" \in DOMAIN r.fields
                                                  /\ r.fields.epoch_ms # Null
                               THEN IntOf(r.fields.epoch_ms) ELSE Now
               /\ ~IsNormalized(r) => f.seq = r.packet.seq_count
  <1>1. \A k \in DOMAIN r.fields : JsonValue(r.fields[k])
    BY StationAssumption DEF RequestShape
  <1>2. CASE IsNormalized(r)
    <2>1. /\ FrameOf(r, v).mission_id = r.mission /\ FrameOf(r, v).meta = Meta(r)
          /\ FrameOf(r, v).epoch_ms = IntOf(Normalize(r.fields).epoch_ms)
      BY <1>1, <1>2, JsonFrameFacts
    <2>2. /\ "epoch_ms" \in DOMAIN r.fields /\ r.fields.epoch_ms # Null
                => Normalize(r.fields).epoch_ms = r.fields.epoch_ms
          /\ ~("epoch_ms" \in DOMAIN r.fields /\ r.fields.epoch_ms # Null)
                => Normalize(r.fields).epoch_ms = Num(Now * Parts)
      BY <1>1, NormalizeFacts
    <2>3. IntOf(Num(Now * Parts)) = Now
      <3>1. IntOf(Num(Now * Parts)) = Truncated(Now * Parts)
        BY DEF IntOf, Num
      <3> QED BY <3>1, StationAssumption, TruncatedFacts
    <2> QED BY <1>2, <2>1, <2>2, <2>3
  <1>3. CASE ~IsNormalized(r)
    <2>1. /\ FrameOf(r, v).mission_id = r.mission /\ FrameOf(r, v).meta = Meta(r)
          /\ FrameOf(r, v).epoch_ms = Now /\ FrameOf(r, v).seq = r.packet.seq_count
      BY <1>3, PacketFrameFacts
    <2> QED BY <1>3, <2>1
  <1> QED BY <1>2, <1>3

\* A mission's enriched frames and its POSTs: each frame has one, accepted and vetted.
From(e, n, m, v) ==
    /\ n \in DOMAIN posts /\ posts[n].status = 202
    /\ posts[n].request \in Requests /\ posts[n].request.mission = m
    /\ m \in Served /\ Verified(Token(m), posts[n].request)
    /\ IsNormalized(posts[n].request) \/ posts[n].request.body = "packet"
    /\ ~PushRaises(posts[n].request)
    /\ ~Raises(FrameOf(posts[n].request, v))
    /\ e = [post |-> n, envelope |-> Envelope(FrameOf(posts[n].request, v), Config(m).specs)]
    /\ e.post = n
    /\ e.envelope = Envelope(FrameOf(posts[n].request, v), Config(m).specs)

\* The invariant, frame by frame.
LEMMA EnvelopesFrom ==
    ASSUME Vetted, Sizes, NEW q, NEW m, NEW e \in Envelopes(posts, q, m, Config(m).specs)
    PROVE  From(e, e.post, m, q[e.post])
  <1>1. PICK n \in Accepted(posts, m) :
            /\ ~Raises(FrameAt(posts, q, n))
            /\ e = [post |-> n, envelope |-> Envelope(FrameAt(posts, q, n), Config(m).specs)]
    BY DEF Envelopes
  <1>2. e.post = n /\ e.envelope = Envelope(FrameAt(posts, q, n), Config(m).specs)
    BY <1>1
  <1>3. n \in DOMAIN posts /\ posts[n].status = 202 /\ posts[n].request.mission = m
    BY DEF Accepted
  <1>4. posts[n] \in Responses
    BY <1>3 DEF Sizes
  <1>5. posts[n].request \in Requests
    BY <1>4 DEF Responses
  <1>6. /\ m \in Served /\ Verified(Token(m), posts[n].request)
        /\ IsNormalized(posts[n].request) \/ posts[n].request.body = "packet"
        /\ ~PushRaises(posts[n].request)
    BY <1>3 DEF Vetted
  <1> QED BY <1>1, <1>2, <1>3, <1>5, <1>6 DEF From, FrameAt

\* What holds of every frame that a mission has: the invariant as the properties need it.
LEMMA EnrichedFrom ==
    ASSUME IInv
    PROVE  /\ \A m \in Ids : \A e \in Enriched(m) : \E v : From(e, e.post, m, v)
           /\ \A m \in Ids : \A i \in DOMAIN unstored[m] :
                 \E v : From(unstored[m][i], unstored[m][i].post, m, v)
           /\ \A d \in DOMAIN tables : \A row \in tables[d] : \E m \in Served : \E e : \E v :
                 Db(m) = d /\ From(e, e.post, m, v) /\ row = Stored(e) /\ row.post = e.post
                 /\ row.mission_id = Cut(128, m) /\ row.envelope.mission_id = Own(m)
  <1>1. PICK q : Genuine(q)
    BY DEF IInv
  <1>2. Vetted /\ Sizes
    BY DEF IInv
  <1>3. ASSUME NEW m \in Ids
        PROVE  /\ \A e \in Enriched(m) : \E v : From(e, e.post, m, v)
               /\ \A i \in DOMAIN unstored[m] :
                    \E v : From(unstored[m][i], unstored[m][i].post, m, v)
    <2> DEFINE S == Envelopes(posts, q, m, Config(m).specs)
    <2>1. latest[m] \in Seq(S) /\ history[m] \in Seq(S) /\ unstored[m] \in Seq(S)
      BY <1>1 DEF Genuine
    <2>2. \A e \in S : \E v : From(e, e.post, m, v)
      BY <1>2, EnvelopesFrom
    <2> HIDE DEF S
    <2>3. /\ \A e \in Enriched(m) : e \in S
          /\ \A i \in DOMAIN unstored[m] : unstored[m][i] \in S
      BY <2>1 DEF Enriched
    <2> QED BY <2>2, <2>3
  <1>4. ASSUME NEW d \in DOMAIN tables, NEW row \in tables[d]
        PROVE  \E m \in Served : \E e : \E v :
                 Db(m) = d /\ From(e, e.post, m, v) /\ row = Stored(e) /\ row.post = e.post
                 /\ row.mission_id = Cut(128, m) /\ row.envelope.mission_id = Own(m)
    <2>1. PICK m \in Served : Db(m) = d /\
                 \E e \in Envelopes(posts, q, m, Config(m).specs) : row = Stored(e)
      BY <1>1 DEF Genuine
    <2>2. PICK e \in Envelopes(posts, q, m, Config(m).specs) : row = Stored(e)
      BY <2>1
    <2>3. From(e, e.post, m, q[e.post])
      BY <1>2, EnvelopesFrom
    <2>4. PICK v : From(e, e.post, m, v)
      BY <2>3
    <2>5. /\ posts[e.post].request \in Requests /\ posts[e.post].request.mission = m
          /\ row = Stored([post |-> e.post,
                envelope |-> Envelope(FrameOf(posts[e.post].request, v), Config(m).specs)])
      BY <2>2, <2>4 DEF From
    <2> DEFINE f == FrameOf(posts[e.post].request, v)
    <2>6. /\ row.post = e.post /\ row.mission_id = Cut(128, f.mission_id)
          /\ row.envelope = Envelope(f, Config(m).specs)
      BY <2>5, StoredFacts
    <2>7. f.mission_id = m
      BY <2>5, FrameFacts
    <2> HIDE DEF f
    <2>8. row.envelope.mission_id = Own(m)
      BY <2>6, <2>7, EnvelopeFacts
    <2> QED BY <2>1, <2>2, <2>4, <2>6, <2>7, <2>8
  <1> QED BY <1>3, <1>4-----------------------------------------------------------------------------
\* Stages, statuses and sizes: every POST is answered one of seven statuses, and no queue
\* and no history outgrows its bound, whatever is posted.
THEOREM TypeCorrect == Spec => []TypeOK
  <1>1. IInv => TypeOK
    <2> SUFFICES ASSUME IInv PROVE TypeOK
      OBVIOUS
    <2>1. Loaded /\ Sizes
      BY DEF IInv
    <2>2. Served \subseteq Ids
      <3>1. CASE stage = "serving"
        BY <2>1, <3>1, ConfigFacts DEF Configured
      <3>2. CASE stage # "serving"
        BY <2>1, <3>2 DEF Loaded, Served
      <3> QED BY <3>1, <3>2
    <2>3. \A i \in DOMAIN posts : posts[i].status \in {202, 400, 401, 404, 415, 422, 500}
      <3> SUFFICES ASSUME NEW i \in DOMAIN posts PROVE posts[i].status \in Statuses
        BY DEF Statuses
      <3>1. posts[i] \in Responses
        BY <2>1 DEF Sizes
      <3> QED BY <3>1 DEF Responses
    <2>4. stage \in {"new", "serving", "aborted"}
      BY <2>1 DEF Loaded
    <2>5. /\ seq \in [Ids -> -1..(SeqSpace - 1)] /\ alive \in [Ids -> BOOLEAN]
          /\ \A m \in Ids : Len(ingest[m]) <= IngestMax /\ Len(latest[m]) <= 1
          /\ \A m \in Served : Len(history[m]) <= Config(m).history_maxlen
      BY <2>1 DEF Sizes
    <2> QED BY <2>2, <2>3, <2>4, <2>5 DEF TypeOK
  <1> QED BY <1>1, ProvenanceHolds, PTL

\* The entries of the running missions file, and the missions that are served for them.
LEMMA EntriesServed ==
    ASSUME Loaded, stage = "serving"
    PROVE  /\ Entries = {} => \A m : m \in Served <=> m = "default"
           /\ Entries # {} => \A m : m \in Served <=> \E raw \in Entries : m = raw.id
           /\ Entries = {} => Config("default") = DefaultMission(deployment.settings)
           /\ \A raw \in Entries : raw.id \in Served /\ Config(raw.id) = ParseMission(raw)
           /\ \A one, other \in Entries : one.id = other.id => ParseMission(one) = ParseMission(other)
  <1>1. /\ deployment \in Deployments /\ ~LoadRaises(deployment.file)
        /\ configs = MissionConfigs(deployment.file, deployment.settings)
        /\ ~BuildRaises(configs)
    BY DEF Loaded
  <1>2. /\ \A i : i \in DOMAIN configs <=> i \in Parsed(deployment)
                                           \/ (Parsed(deployment) = {} /\ i = 1)
        /\ \A i \in Parsed(deployment) : configs[i] = ParseMission(deployment.file[i])
        /\ Parsed(deployment) = {} => configs[1] = DefaultMission(deployment.settings)
    BY <1>1, LoadedFacts
  <1>3. \A i \in DOMAIN configs : Config(configs[i].id) = configs[i]
    BY ConfigFacts DEF Configured
  <1>4. \A raw : raw \in Entries <=> \E i \in Parsed(deployment) : raw = deployment.file[i]
    BY DEF Entries, Parsed
  <1>5. \A raw : ParseMission(raw).id = raw.id
    BY ParsedFields
  <1>6. DefaultMission(deployment.settings).id = "default"
    BY DEF DefaultMission
  <1>7. \A m : m \in Served <=> \E i \in DOMAIN configs : m = configs[i].id
    BY DEF Served
  <1>8. ASSUME NEW raw \in Entries
        PROVE  raw.id \in Served /\ Config(raw.id) = ParseMission(raw)
    <2>1. PICK i \in Parsed(deployment) : raw = deployment.file[i]
      BY <1>4
    <2>2. i \in DOMAIN configs /\ configs[i] = ParseMission(raw) /\ configs[i].id = raw.id
      BY <1>2, <1>5, <2>1
    <2> QED BY <1>3, <1>7, <2>2
  <1>9. CASE Entries = {}
    <2>1. Parsed(deployment) = {}
      BY <1>4, <1>9
    <2>2. \A i : i \in DOMAIN configs <=> i = 1
      BY <1>2, <2>1
    <2>3. configs[1].id = "default" /\ configs[1] = DefaultMission(deployment.settings)
      BY <1>2, <1>6, <2>1
    <2> QED BY <1>3, <1>7, <1>9, <2>2, <2>3
  <1>10. CASE Entries # {}
    <2>1. Parsed(deployment) # {}
      BY <1>4, <1>10
    <2>2. ASSUME NEW m \in Served PROVE \E raw \in Entries : m = raw.id
      <3>1. PICK i \in DOMAIN configs : m = configs[i].id
        BY <1>7
      <3>2. i \in Parsed(deployment) /\ configs[i].id = deployment.file[i].id
        BY <1>2, <1>5, <2>1, <3>1
      <3> QED BY <1>4, <3>1, <3>2
    <2> QED BY <1>8, <1>10, <2>2
  <1>11. \A one, other \in Entries : one.id = other.id => ParseMission(one) = ParseMission(other)
    BY <1>8
  <1> QED BY <1>8, <1>9, <1>10, <1>11

\* A malformed entry of the missions file costs its own mission only, in a file of any
\* length: all that parse are served under their own id, token and history length.
THEOREM OneBadEntryOneMissionLess == Spec => []MalformedCostOnlyThemselves
  <1>1. IInv => MalformedCostOnlyThemselves
    <2> SUFFICES ASSUME IInv, stage = "serving"
                 PROVE  /\ Served = IF Entries = {} THEN {"default"} ELSE {raw.id : raw \in Entries}
                        /\ \A raw \in Entries :
                              /\ Config(raw.id).token = raw.token
                              /\ Config(raw.id).history_maxlen = raw.history_maxlen
      BY DEF MalformedCostOnlyThemselves
    <2>1. Loaded
      BY DEF IInv
    <2>2. \A raw \in Entries : /\ Config(raw.id).token = raw.token
                               /\ Config(raw.id).history_maxlen = raw.history_maxlen
      BY <2>1, EntriesServed, ParsedFields
    <2>3. CASE Entries = {}
      BY <2>1, <2>2, <2>3, EntriesServed
    <2>4. CASE Entries # {}
      <3>1. \A m : m \in Served <=> \E raw \in Entries : m = raw.id
        BY <2>1, <2>4, EntriesServed
      <3>2. Served = {raw.id : raw \in Entries}
        BY <3>1
      <3> QED BY <2>2, <2>4, <3>2
    <2> QED BY <2>3, <2>4
  <1> QED BY <1>1, ProvenanceHolds, PTL

\* Whatever a mission holds, from its queue to its archive, is of a POST that was sent to
\* it, with the credentials of its entry, and answered 202.
THEOREM RefusedLeaveNothing == Spec => []HoldsOnlyAccepted
  <1>1. IInv => HoldsOnlyAccepted
    <2> SUFFICES ASSUME IInv, NEW m \in Ids, NEW n \in Held(m)
                 PROVE  /\ posts[n].status = 202
                        /\ posts[n].request.mission = m
                        /\ \A raw \in Entries : raw.id = m /\ raw.token # NoToken =>
                              raw.token \in {posts[n].request.x_ingest_token, posts[n].request.bearer}
      BY DEF HoldsOnlyAccepted
    <2>1. /\ Loaded /\ Vetted /\ Sizes
      BY DEF IInv
    <2>2. n \in Accepted(posts, m)
      <3>1. CASE n \in {ingest[m][i].post : i \in DOMAIN ingest[m]}
        <4>1. PICK q : Genuine(q)
          BY DEF IInv
        <4>2. PICK i \in DOMAIN ingest[m] : n = ingest[m][i].post
          BY <3>1
        <4>3. ingest[m][i] \in Queued(posts, q, m)
          BY <4>1, <4>2 DEF Genuine
        <4> QED BY <4>2, <4>3 DEF Queued
      <3>2. CASE n \in {e.post : e \in Enriched(m)}
        BY <3>2, EnrichedFrom DEF From, Accepted
      <3>3. CASE n \in {unstored[m][i].post : i \in DOMAIN unstored[m]}
        <4>1. PICK i \in DOMAIN unstored[m] : n = unstored[m][i].post
          BY <3>3
        <4>2. PICK v : From(unstored[m][i], unstored[m][i].post, m, v)
          BY EnrichedFrom
        <4> QED BY <4>1, <4>2 DEF From, Accepted
      <3>4. CASE n \in {r.post : r \in {s \in UNION {tables[d] : d \in DOMAIN tables} :
                                            s.envelope.mission_id = Own(m)}}
        <4>1. PICK d, row : /\ d \in DOMAIN tables /\ row \in tables[d]
                             /\ row.envelope.mission_id = Own(m) /\ n = row.post
          BY <3>4
        <4>2. \E k \in Served : \E e : \E v :
                 Db(k) = d /\ From(e, e.post, k, v) /\ row = Stored(e) /\ row.post = e.post
                 /\ row.mission_id = Cut(128, k) /\ row.envelope.mission_id = Own(k)
          BY <4>1, EnrichedFrom
        <4>3. PICK k, e, v : /\ From(e, e.post, k, v) /\ row.post = e.post
                             /\ row.envelope.mission_id = Own(k)
          BY <4>2
        <4>4. k = m
          BY <4>1, <4>3 DEF Own
        <4> QED BY <4>1, <4>3, <4>4 DEF From, Accepted
      <3> QED BY <3>1, <3>2, <3>3, <3>4 DEF Held
    <2>3. /\ n \in DOMAIN posts /\ posts[n].status = 202 /\ posts[n].request.mission = m
      BY <2>2 DEF Accepted
    <2>4. m \in Served /\ Verified(Token(m), posts[n].request)
      BY <2>1, <2>3 DEF Vetted
    <2>5. stage = "serving"
      BY <2>1, <2>4 DEF Loaded, Served
    <2>6. ASSUME NEW raw \in Entries, raw.id = m, raw.token # NoToken
          PROVE  raw.token \in {posts[n].request.x_ingest_token, posts[n].request.bearer}
      <3>1. Config(m) = ParseMission(raw)
        BY <2>1, <2>5, <2>6, EntriesServed
      <3>2. Token(m) = raw.token
        BY <2>4, <3>1, ParsedFields DEF Token
      <3> QED BY <2>4, <2>6, <3>2 DEF Verified
    <2> QED BY <2>3, <2>6
  <1> QED BY <1>1, ProvenanceHolds, PTL
\* No payload, whatever its keys, can stand in for what the ground station says of a frame.
THEOREM NoPayloadSpeaksForTheStation == Spec => []ReservedKeysAreTheStations
  <1>1. IInv => ReservedKeysAreTheStations
    <2> SUFFICES ASSUME IInv, NEW m \in Ids, NEW e \in Enriched(m)
                 PROVE  LET r == posts[e.post].request
                        IN  /\ \A k \in Reserved : e.envelope[k][1] = "step"
                            /\ e.envelope.mission_id = Own(m)
                            /\ e.envelope.source = Own(Meta(r))
                            /\ e.envelope.seq[2] = e.envelope.ccsds[2].seq
                            /\ e.envelope.epoch_ms =
                                  Own(IF IsNormalized(r) /\ "epoch_ms" \in DOMAIN r.fields
                                                         /\ r.fields.epoch_ms # Null
                                      THEN IntOf(r.fields.epoch_ms) ELSE Now)
      BY DEF ReservedKeysAreTheStations
    <2> DEFINE r == posts[e.post].request
    <2>1. PICK v : From(e, e.post, m, v)
      BY EnrichedFrom
    <2> DEFINE f == FrameOf(r, v)
    <2>2. /\ r \in Requests /\ r.mission = m
          /\ e.envelope = Envelope(f, Config(m).specs)
      BY <2>1 DEF From
    <2>3. /\ f.mission_id = r.mission /\ f.meta = Meta(r)
          /\ f.epoch_ms = IF IsNormalized(r) /\ "epoch_ms" \in DOMAIN r.fields
                                             /\ r.fields.epoch_ms # Null
                          THEN IntOf(r.fields.epoch_ms) ELSE Now
      BY <2>2, FrameFacts
    <2> HIDE DEF f, r
    <2>4. /\ e.envelope.mission_id = Own(f.mission_id)
          /\ e.envelope.source_id = Own("http_ingest")
          /\ e.envelope.epoch_ms = Own(f.epoch_ms)
          /\ e.envelope.seq = Own(f.seq)
          /\ e.envelope.source = Own(f.meta)
          /\ e.envelope.system_state = Own("NOMINAL")
          /\ e.envelope.ccsds[1] = "step" /\ e.envelope.ccsds[2].seq = f.seq
      BY <2>2, EnvelopeFacts
    <2>5. \A x : Own(x)[1] = "step" /\ Own(x)[2] = x
      BY DEF Own
    <2>6. \A k \in Reserved : e.envelope[k][1] = "step"
      BY <2>4, <2>5 DEF Reserved
    <2>7. e.envelope.seq[2] = e.envelope.ccsds[2].seq
      BY <2>4, <2>5
    <2> QED BY <2>2, <2>3, <2>4, <2>6, <2>7 DEF r
  <1> QED BY <1>1, ProvenanceHolds, PTL

\* float() of a number that it takes is the double next to it.
LEMMA BesideFacts ==
    ASSUME NEW n \in DOMAIN Float
    PROVE  Beside(Float[n], n)
  <1>1. Float[n] \in Doubles
    BY FloatAssumption DEF Doubles
  <1>2. ASSUME NEW d \in Doubles
        PROVE  (n <= d => Float[n] <= d) /\ (d <= n => d <= Float[n])
    <2>1. d \in DOMAIN Float /\ Float[d] = d
      BY DEF Doubles
    <2> QED BY <2>1, FloatAssumption
  <1> QED BY <1>1, <1>2 DEF Beside

\* float() takes all numbers of a payload that push_normalized has taken.
LEMMA TakenNumbers ==
    ASSUME NEW r, IsNormalized(r), ~PushRaises(r), NEW k \in DOMAIN Normalize(r.fields),
           Normalize(r.fields)[k][1] = "number"
    PROVE  Normalize(r.fields)[k][2] \in DOMAIN Float
  BY DEF PushRaises, Floats

\* A field that is a number, a string or a Boolean and no key of the station's: it is in the
\* envelope of its frame as it was sent, or as the double next to it.
LEMMA PlainFields ==
    ASSUME NEW r \in Requests, IsNormalized(r), ~PushRaises(r), NEW v, NEW specs,
           NEW k \in DOMAIN r.fields \ (Reserved \cup {"limit_violations"}), Scalar(r.fields[k])
    PROVE  /\ k \in DOMAIN Envelope(FrameOf(r, v), specs)
           /\ ShownAs(Envelope(FrameOf(r, v), specs)[k], r.fields[k])
           /\ IsNumber(r.fields[k]) => IsNumber(Envelope(FrameOf(r, v), specs)[k])
  <1> DEFINE N == Normalize(r.fields)
             f == FrameOf(r, v)
             E == Envelope(f, specs)
  <1>1. \A j \in DOMAIN r.fields : JsonValue(r.fields[j])
    BY StationAssumption DEF RequestShape
  <1>2. r.fields[k] # Null /\ Kept(r.fields[k])
    BY <1>1, JsonFacts DEF Kept, Scalar
  <1>3. k \in DOMAIN N /\ N[k] = r.fields[k]
    BY <1>1, <1>2, NormalizeFacts
  <1>4. /\ \A j : j \in DOMAIN Payload(f) <=> j \in DOMAIN N /\ Kept(N[j])
        /\ \A j \in DOMAIN Payload(f) : Payload(f)[j] = AsSent(N[j])
    BY <1>1, JsonFrameFacts
  <1>t. r.fields[k][1] = "number" => r.fields[k][2] \in DOMAIN Float
    BY <1>3, TakenNumbers
  <1> HIDE DEF f, N
  <1>5. k \in DOMAIN Payload(f) /\ Payload(f)[k] = AsSent(r.fields[k])
    BY <1>2, <1>3, <1>4
  <1>6. k \in DOMAIN E /\ E[k] = AsSent(r.fields[k])
    BY <1>5, EnvelopeFacts
  <1> HIDE DEF E
  <1>7. CASE r.fields[k][1] = "number"
    <2>1. E[k] = FloatOf(r.fields[k])
      BY <1>6, <1>7 DEF AsSent
    <2>2. E[k][1] = "number" /\ E[k][2] = Float[r.fields[k][2]]
      BY <1>1, <1>7, <2>1, JsonFacts
    <2>3. Beside(E[k][2], r.fields[k][2])
      BY <1>7, <1>t, <2>2, BesideFacts
    <2> QED BY <1>6, <1>7, <2>2, <2>3 DEF ShownAs, IsNumber, E, f
  <1>8. CASE r.fields[k][1] = "bool"
    <2>1. E[k] = Text(r.fields[k][2])
      BY <1>6, <1>8 DEF AsSent
    <2>2. ~IsNumber(r.fields[k])
      BY <1>8 DEF IsNumber
    <2> QED BY <1>6, <1>8, <2>1, <2>2 DEF ShownAs, E, f
  <1>9. CASE r.fields[k][1] # "number" /\ r.fields[k][1] # "bool"
    <2>1. E[k] = r.fields[k]
      BY <1>6, <1>9 DEF AsSent, FloatOf
    <2> QED BY <1>6, <1>9, <2>1 DEF ShownAs, E, f
  <1> QED BY <1>7, <1>8, <1>9

\* Every other scalar of a payload reaches the envelope, a number as the double next to it,
\* and the displays when it is a number.
THEOREM PayloadsArriveWhole == Spec => []PayloadPassesThrough
  <1>1. IInv => PayloadPassesThrough
    <2> SUFFICES ASSUME IInv, NEW m \in Ids, NEW e \in Enriched(m),
                        IsNormalized(posts[e.post].request)
                 PROVE  LET r == posts[e.post].request
                            plain == {k \in DOMAIN r.fields \ (Reserved \cup {"limit_violations"}) :
                                            Scalar(r.fields[k])}
                        IN  /\ plain \subseteq DOMAIN e.envelope
                            /\ \A k \in plain : ShownAs(e.envelope[k], r.fields[k])
                            /\ latest[m] = <<e>> => {k \in plain : IsNumber(r.fields[k])} \subseteq Schema(m)
      BY DEF PayloadPassesThrough
    <2> DEFINE r == posts[e.post].request
               plain == {k \in DOMAIN r.fields \ (Reserved \cup {"limit_violations"}) :
                                Scalar(r.fields[k])}
    <2>1. PICK v : From(e, e.post, m, v)
      BY EnrichedFrom
    <2>2. /\ r \in Requests /\ ~PushRaises(r)
          /\ e.envelope = Envelope(FrameOf(r, v), Config(m).specs)
      BY <2>1 DEF From
    <2>3. \A k \in plain : /\ k \in DOMAIN e.envelope /\ ShownAs(e.envelope[k], r.fields[k])
                           /\ IsNumber(r.fields[k]) => IsNumber(e.envelope[k])
      BY <2>2, PlainFields
    <2>4. ASSUME latest[m] = <<e>>, NEW k \in plain, IsNumber(r.fields[k])
          PROVE  k \in Schema(m)
      <3>1. latest[m] # <<>> /\ latest[m][1] = e
        BY <2>4
      <3>2. k # "epoch_ms" /\ k \in DOMAIN e.envelope /\ IsNumber(e.envelope[k])
        BY <2>3, <2>4 DEF Reserved
      <3>3. k \in NumericKeys(e.envelope)
        BY <3>2 DEF NumericKeys
      <3> QED BY <3>1, <3>3 DEF Schema
    <2>5. plain \subseteq DOMAIN e.envelope
      BY <2>3
    <2> QED BY <2>3, <2>4, <2>5
  <1> QED BY <1>1, ProvenanceHolds, PTL

\* A run task ends on two kinds of payload only: a scalar named ccsds, or a time that no
\* calendar holds; and that payload was accepted.
THEOREM OnlyTwoPayloadsKill == Spec => []OnlyPoisonKills
  <1>1. IInv => OnlyPoisonKills
    <2> SUFFICES ASSUME IInv, NEW m \in Ids, ~alive[m]
                 PROVE  \E i \in DOMAIN posts :
                            LET r == posts[i].request
                            IN  /\ r.mission = m /\ posts[i].status = 202 /\ IsNormalized(r)
                                /\ \/ "ccsds" \in DOMAIN r.fields /\ Scalar(r.fields.ccsds)
                                   \/ /\ "epoch_ms" \in DOMAIN r.fields /\ r.fields.epoch_ms # Null
                                      /\ \/ IntOf(r.fields.epoch_ms) > GmtimeMax
                                         \/ IntOf(r.fields.epoch_ms) < GmtimeMin
      BY DEF OnlyPoisonKills
    <2>1. PICK q : Genuine(q)
      BY DEF IInv
    <2>2. PICK i \in Accepted(posts, m) : Raises(FrameAt(posts, q, i))
      BY <2>1 DEF Genuine
    <2> DEFINE r == posts[i].request
               f == FrameOf(r, q[i])
               N == Normalize(r.fields)
    <2>3. /\ i \in DOMAIN posts /\ posts[i].status = 202 /\ r.mission = m
      BY <2>2 DEF Accepted
    <2>4. r \in Requests
      <3>1. posts[i] \in Responses
        BY <2>3 DEF IInv, Sizes
      <3> QED BY <3>1 DEF Responses
    <2>5. \A k \in DOMAIN r.fields : JsonValue(r.fields[k])
      BY <2>4, StationAssumption DEF RequestShape
    <2>6. \/ f.epoch_ms > GmtimeMax \/ f.epoch_ms < GmtimeMin
          \/ "ccsds" \in DOMAIN f.labels \/ "ccsds" \in DOMAIN f.channels
      BY <2>2 DEF Raises, FrameAt
    <2>7. f.epoch_ms = IF IsNormalized(r) /\ "epoch_ms" \in DOMAIN r.fields /\ r.fields.epoch_ms # Null
                       THEN IntOf(r.fields.epoch_ms) ELSE Now
      BY <2>4, FrameFacts
    <2>8. ~(Now > GmtimeMax) /\ ~(Now < GmtimeMin)
      BY StationAssumption
    <2>9. IsNormalized(r)
      <3> SUFFICES ASSUME ~IsNormalized(r) PROVE FALSE
        OBVIOUS
      <3>1. "ccsds" \notin DOMAIN f.channels /\ "ccsds" \notin DOMAIN f.labels
        BY PacketFrameFacts
      <3> QED BY <2>6, <2>7, <2>8, <3>1
    <2>10. CASE f.epoch_ms > GmtimeMax \/ f.epoch_ms < GmtimeMin
      <3> HIDE DEF f
      <3>1. "epoch_ms" \in DOMAIN r.fields /\ r.fields.epoch_ms # Null
        BY <2>7, <2>8, <2>10
      <3>2. IntOf(r.fields.epoch_ms) > GmtimeMax \/ IntOf(r.fields.epoch_ms) < GmtimeMin
        BY <2>7, <2>9, <2>10, <3>1
      <3> QED BY <2>3, <2>9, <3>1, <3>2
    <2>11. CASE "ccsds" \in DOMAIN f.labels \/ "ccsds" \in DOMAIN f.channels
      <3>1. "ccsds" \in DOMAIN N /\ Kept(N.ccsds)
        <4>1. \A k : k \in DOMAIN f.channels \cup DOMAIN f.labels <=> k \in DOMAIN N /\ Kept(N[k])
          BY <2>5, <2>9, JsonFrameFacts
        <4> HIDE DEF f, N
        <4> QED BY <2>11, <4>1
      <3>2. "ccsds" \in DOMAIN r.fields /\ r.fields.ccsds # Null /\ N.ccsds = r.fields.ccsds
        BY <2>5, <3>1, NormalizeFacts
      <3>3. Scalar(r.fields.ccsds)
        BY <2>5, <3>1, <3>2, JsonFacts DEF Kept
      <3> QED BY <2>3, <2>9, <3>2, <3>3
    <2> QED BY <2>6, <2>10, <2>11
  <1> QED BY <1>1, ProvenanceHolds, PTL

\* The archive's columns and the status tell the mode and origin of the POST they are of.
THEOREM ReportsAreTrue == Spec => []ReportsTellTheirOrigin
  <1>1. \A r \in Requests : (IsNormalized(r) \/ r.body = "packet") =>
            /\ Meta(r).ingest_mode = ModeOf(r)
            /\ r.body = "packet" => ~IsNormalized(r)
            /\ Meta(r).source # NoSource => Meta(r).source = r.fields.source
    <2> SUFFICES ASSUME NEW r \in Requests, IsNormalized(r) \/ r.body = "packet"
                 PROVE  /\ Meta(r).ingest_mode = ModeOf(r)
                        /\ r.body = "packet" => ~IsNormalized(r)
                        /\ Meta(r).source # NoSource => Meta(r).source = r.fields.source
      OBVIOUS
    <2>1. /\ Meta(r).ingest_mode = IF IsNormalized(r) THEN "normalized" ELSE "ccsds"
          /\ Meta(r).source = Source(r)
      BY DEF Meta
    <2>2. Source(r) # NoSource => Source(r) = r.fields.source
      BY DEF Source
    <2>3. (IF IsNormalized(r) THEN "normalized" ELSE "ccsds") = ModeOf(r)
      BY DEF IsNormalized, ModeOf
    <2>4. r.body = "packet" => ~IsNormalized(r)
      BY DEF IsNormalized
    <2> QED BY <2>1, <2>2, <2>3, <2>4
  <1>2. IInv => ReportsTellTheirOrigin
    <2> SUFFICES ASSUME IInv PROVE ReportsTellTheirOrigin
      OBVIOUS
    <2>1. ASSUME NEW d \in DOMAIN tables, NEW row \in tables[d]
          PROVE  LET r == posts[row.post].request
                 IN  /\ row.mission_id = Cut(128, r.mission)
                     /\ row.telemetry_mode = ModeOf(r)
                     /\ r.body = "packet" => row.sequence_count = r.packet.seq_count
                     /\ row.ingress_source # NoSource => row.ingress_source = Cut(512, r.fields.source)
      <3>1. PICK m, e, v : From(e, e.post, m, v) /\ row = Stored(e) /\ row.post = e.post
                           /\ row.mission_id = Cut(128, m)
        BY EnrichedFrom
      <3> DEFINE r == posts[e.post].request
      <3>2. /\ r \in Requests /\ r.mission = m /\ (IsNormalized(r) \/ r.body = "packet")
            /\ row = Stored([post |-> e.post, envelope |-> Envelope(FrameOf(r, v), Config(m).specs)])
        BY <3>1 DEF From
      <3>3. /\ row.telemetry_mode = FrameOf(r, v).meta.ingest_mode
            /\ row.ingress_source = IF FrameOf(r, v).meta.source = NoSource THEN NoSource
                                    ELSE Cut(512, FrameOf(r, v).meta.source)
            /\ row.sequence_count = FrameOf(r, v).seq
        BY <3>2, StoredFacts
      <3>4. /\ FrameOf(r, v).meta = Meta(r)
            /\ ~IsNormalized(r) => FrameOf(r, v).seq = r.packet.seq_count
        BY <3>2, FrameFacts
      <3> QED BY <1>1, <3>1, <3>2, <3>3, <3>4
    <2>2. ASSUME NEW m \in Served, latest[m] # <<>>
          PROVE  LET r == posts[latest[m][1].post].request
                 IN  /\ Status(m).ingest_mode = ModeOf(r)
                     /\ Status(m).last_epoch_ms > Now => IsNormalized(r)
                     /\ Status(m).telemetry_archive = "postgres" => HasStore(m)
      <3> DEFINE e == latest[m][1]
                 r == posts[e.post].request
      <3>1. m \in Ids
        BY ConfigFacts DEF IInv, Loaded, Served, Configured
      <3>2. e \in Enriched(m)
        <4>1. PICK q : Genuine(q)
          BY DEF IInv
        <4>2. latest[m] \in Seq(Envelopes(posts, q, m, Config(m).specs))
          BY <3>1, <4>1 DEF Genuine
        <4>3. 1 \in DOMAIN latest[m]
          BY <2>2, <4>2
        <4> QED BY <4>3 DEF Enriched
      <3>3. PICK v : From(e, e.post, m, v)
        BY <3>1, <3>2, EnrichedFrom
      <3>4. /\ r \in Requests /\ (IsNormalized(r) \/ r.body = "packet")
            /\ e.envelope = Envelope(FrameOf(r, v), Config(m).specs)
        BY <3>3 DEF From
      <3>5. e.envelope.epoch_ms = Own(FrameOf(r, v).epoch_ms)
            /\ e.envelope.source = Own(FrameOf(r, v).meta)
        BY <3>4, EnvelopeFacts
      <3>6. /\ FrameOf(r, v).meta = Meta(r)
            /\ ~IsNormalized(r) => FrameOf(r, v).epoch_ms = Now
        BY <3>4, FrameFacts
      <3>7. e.envelope.epoch_ms[2] = FrameOf(r, v).epoch_ms /\ e.envelope.source[2] = Meta(r)
        BY <3>5, <3>6 DEF Own
      <3>8. /\ Status(m).ingest_mode = Meta(r).ingest_mode
            /\ Status(m).last_epoch_ms = FrameOf(r, v).epoch_ms
            /\ Status(m).telemetry_archive = IF Config(m).dsn # NoDsn THEN "postgres" ELSE "memory"
        BY <3>7 DEF Status
      <3>9. Config(m).dsn # NoDsn => HasStore(m)
        BY DEF HasStore, Db, Dsn
      <3>10. ~(Now > Now)
        BY StationAssumption
      <3> QED BY <1>1, <3>4, <3>6, <3>8, <3>9, <3>10
    <2> QED BY <2>1, <2>2 DEF ReportsTellTheirOrigin
  <1> QED BY <1>2, ProvenanceHolds, PTL
\* A payload's numbers, with the ground's time where it brings none: normalisation keeps
\* just these.
WithTime(fields) == IF "epoch_ms" \in DOMAIN fields /\ fields.epoch_ms # Null
                    THEN fields ELSE Merge(fields, [epoch_ms |-> Num(Now * Parts)])

\* What is a number before normalisation is the same one after it, and the other way round.
LEMMA NumbersStay ==
    ASSUME NEW fields, \A k \in DOMAIN fields : JsonValue(fields[k]), NEW k
    PROVE  /\ k \in DOMAIN WithTime(fields) /\ WithTime(fields)[k][1] = "number" <=>
                  k \in DOMAIN Normalize(fields) /\ Normalize(fields)[k][1] = "number"
           /\ k \in DOMAIN WithTime(fields) /\ WithTime(fields)[k][1] = "number" =>
                  WithTime(fields)[k] = Normalize(fields)[k]
  <1> DEFINE W == WithTime(fields)
             N == Normalize(fields)
             timed == "epoch_ms" \in DOMAIN fields /\ fields.epoch_ms # Null
             now == [epoch_ms |-> Num(Now * Parts)]
  <1>1. /\ \A j : j \in DOMAIN N <=> \/ j \in DOMAIN fields /\ fields[j] # Null
                                     \/ j = "epoch_ms" \/ j = "timestamp"
        /\ \A j \in DOMAIN fields : fields[j] # Null => N[j] = fields[j]
        /\ ~timed => N.epoch_ms = Num(Now * Parts)
    BY NormalizeFacts
  <1>2. ~("timestamp" \in DOMAIN fields /\ fields.timestamp # Null) => N.timestamp = Text("ground time")
    <2> DEFINE kept == Restrict(fields, {j \in DOMAIN fields : fields[j] # Null})
    <2>1. \A j : j \in DOMAIN kept <=> j \in DOMAIN fields /\ fields[j] # Null
      BY DEF Restrict
    <2>2. N = Merge(Defaults, kept)
      BY DEF Normalize
    <2>3. "timestamp" \in DOMAIN Defaults /\ Defaults.timestamp = Text("ground time")
      BY DEF Defaults
    <2> HIDE DEF kept, N
    <2>4. \A j \in DOMAIN Defaults \ DOMAIN kept : Merge(Defaults, kept)[j] = Defaults[j]
      BY MergeFacts
    <2> QED BY <2>1, <2>2, <2>3, <2>4
  <1>3. Null[1] # "number" /\ Text("ground time")[1] # "number" /\ Num(Now * Parts)[1] = "number"
    BY DEF Null, Text, Num
  <1>4. timed => W = fields
    BY DEF WithTime
  <1>5. DOMAIN now = {"epoch_ms"} /\ now.epoch_ms = Num(Now * Parts)
    OBVIOUS
  <1>6. ~timed => W = Merge(fields, now)
    BY DEF WithTime
  <1> HIDE DEF now, W, N
  <1>7. /\ \A j : j \in DOMAIN Merge(fields, now) <=> j \in DOMAIN fields \/ j = "epoch_ms"
        /\ Merge(fields, now).epoch_ms = Num(Now * Parts)
        /\ \A j \in DOMAIN fields \ {"epoch_ms"} : Merge(fields, now)[j] = fields[j]
    BY <1>5, MergeFacts
  <1> HIDE DEF timed
  <1>8. ASSUME k \in DOMAIN fields, fields[k][1] = "number"
        PROVE  k \in DOMAIN N /\ N[k] = fields[k]
    BY <1>1, <1>3, <1>8
  <1>9. ASSUME k \in DOMAIN N, N[k][1] = "number", k # "epoch_ms"
        PROVE  k \in DOMAIN fields /\ N[k] = fields[k]
    <2>1. CASE k \in DOMAIN fields /\ fields[k] # Null
      BY <1>1, <2>1
    <2>2. CASE ~(k \in DOMAIN fields /\ fields[k] # Null)
      <3>1. k = "timestamp"
        BY <1>1, <1>9, <2>2
      <3> QED BY <1>2, <1>3, <1>9, <2>2, <3>1
    <2> QED BY <2>1, <2>2
  <1>10. CASE timed
    <2>1. "epoch_ms" \in DOMAIN fields /\ N.epoch_ms = fields.epoch_ms
      BY <1>1, <1>10 DEF timed
    <2> QED BY <1>4, <1>8, <1>9, <1>10, <2>1 DEF W, N
  <1>11. CASE ~timed
    <2>1. CASE k = "epoch_ms"
      <3>1. k \in DOMAIN W /\ W[k] = Num(Now * Parts) /\ k \in DOMAIN N /\ N[k] = Num(Now * Parts)
        BY <1>1, <1>6, <1>7, <1>11, <2>1
      <3> QED BY <3>1 DEF W, N
    <2>2. CASE k # "epoch_ms"
      <3>1. /\ k \in DOMAIN W <=> k \in DOMAIN fields
            /\ k \in DOMAIN fields => W[k] = fields[k]
        BY <1>6, <1>7, <1>11, <2>2
      <3> QED BY <1>8, <1>9, <2>2, <3>1 DEF W, N
    <2> QED BY <2>1, <2>2
  <1> QED BY <1>10, <1>11 DEF W, N

\* A list of channels as the missions file has it.
IsDeclaration(channels) ==
    /\ Len(channels) \in Nat /\ DOMAIN channels = 1..Len(channels)
    /\ \A i \in DOMAIN channels : \A bound \in {channels[i].min, channels[i].max} :
          bound = NoLimit \/ bound \in DOMAIN Float

\* A number breaks the limits of its channel if it is beyond a bound of the last declaration.
LEMMA BreaksFacts ==
    ASSUME NEW channels, IsDeclaration(channels),
           NEW x \in DOMAIN Float, NEW value, value[1] = "number", value[2] = Float[x], NEW k
    PROVE  k \in DOMAIN Specs(channels) /\ Breaks(value, Specs(channels)[k]) <=>
             \E i \in DOMAIN channels :
                /\ channels[i].id = k
                /\ \A j \in DOMAIN channels : j > i => channels[j].id # k
                /\ \/ channels[i].min # NoLimit /\ Float[channels[i].min] > Float[x]
                   \/ channels[i].max # NoLimit /\ Float[channels[i].max] < Float[x]
  <1> DEFINE Last(i) == /\ i \in DOMAIN channels /\ channels[i].id = k
                        /\ \A j \in DOMAIN channels : j > i => channels[j].id # k
             Beyond(i) == \/ channels[i].min # NoLimit /\ Float[channels[i].min] > Float[x]
                          \/ channels[i].max # NoLimit /\ Float[channels[i].max] < Float[x]
  <1>0. /\ Len(channels) \in Nat /\ DOMAIN channels = 1..Len(channels)
        /\ \A i \in DOMAIN channels : \A bound \in {channels[i].min, channels[i].max} :
              bound = NoLimit \/ bound \in DOMAIN Float
    BY DEF IsDeclaration
  <1>1. \A i, j : Last(i) /\ Last(j) => i = j
    <2> SUFFICES ASSUME NEW i, NEW j, Last(i), Last(j) PROVE i = j
      OBVIOUS
    <2>1. i \in 1..Len(channels) /\ j \in 1..Len(channels) /\ ~(j > i) /\ ~(i > j)
      BY <1>0
    <2> QED BY <1>0, <2>1
  <1>2. ASSUME k \in DOMAIN Specs(channels)
        PROVE  \E i : Last(i) /\ (Breaks(value, Specs(channels)[k]) <=> Beyond(i))
    <2>1. PICK i \in DOMAIN channels :
              /\ channels[i].id = k
              /\ \A j \in DOMAIN channels : channels[j].id = k => j <= i
              /\ Specs(channels)[k] = [min |-> Bound(channels[i].min), max |-> Bound(channels[i].max)]
      BY <1>0, <1>2, SpecsFacts
    <2>2. Last(i)
      <3> SUFFICES ASSUME NEW j \in DOMAIN channels, j > i PROVE channels[j].id # k
        BY <2>1
      <3>1. i \in 1..Len(channels) /\ j \in 1..Len(channels)
        BY <1>0
      <3> QED BY <1>0, <2>1, <3>1
    <2> HIDE DEF Last
    <2>3. PICK low, high : low = channels[i].min /\ high = channels[i].max
      OBVIOUS
    <2>4. (low = NoLimit \/ low \in DOMAIN Float) /\ (high = NoLimit \/ high \in DOMAIN Float)
      BY <1>0, <2>3
    <2>5. Specs(channels)[k].min = Bound(low) /\ Specs(channels)[k].max = Bound(high)
      BY <2>1, <2>3
    <2>6. Breaks(value, Specs(channels)[k]) <=> \/ Bound(low) # NoLimit /\ Float[x] < Bound(low)
                                                \/ Bound(high) # NoLimit /\ Float[x] > Bound(high)
      BY <2>5 DEF Breaks
    <2>7. Beyond(i) <=> \/ low # NoLimit /\ Float[low] > Float[x]
                        \/ high # NoLimit /\ Float[high] < Float[x]
      BY <2>3
    <2>8. \A n \in DOMAIN Float : Float[n] \in Int /\ Float[n] # NoLimit
      BY FloatAssumption
    <2>9. /\ low = NoLimit => Bound(low) = NoLimit
          /\ low # NoLimit => Bound(low) = Float[low] /\ Float[low] \in Int /\ Float[low] # NoLimit
          /\ high = NoLimit => Bound(high) = NoLimit
          /\ high # NoLimit => Bound(high) = Float[high] /\ Float[high] \in Int /\ Float[high] # NoLimit
      BY <2>4, <2>8 DEF Bound
    <2> HIDE DEF Beyond
    <2>10. Breaks(value, Specs(channels)[k]) <=> Beyond(i)
      <3>1. Float[x] \in Int
        BY <2>8
      <3>2. CASE low = NoLimit /\ high = NoLimit
        BY <2>6, <2>7, <2>9, <3>2
      <3>3. CASE low = NoLimit /\ high # NoLimit
        BY <2>6, <2>7, <2>9, <3>1, <3>3
      <3>4. CASE low # NoLimit /\ high = NoLimit
        BY <2>6, <2>7, <2>9, <3>1, <3>4
      <3>5. CASE low # NoLimit /\ high # NoLimit
        BY <2>6, <2>7, <2>9, <3>1, <3>5
      <3> QED BY <3>2, <3>3, <3>4, <3>5
    <2> QED BY <2>2, <2>10
  <1>3. ASSUME NEW i, Last(i) PROVE k \in DOMAIN Specs(channels)
    BY <1>0, <1>3, SpecsFacts
  <1> HIDE DEF Last, Beyond
  <1>4. k \in DOMAIN Specs(channels) /\ Breaks(value, Specs(channels)[k]) <=> \E i : Last(i) /\ Beyond(i)
    BY <1>1, <1>2, <1>3
  <1> QED BY <1>4 DEF Last, Beyond

\* The verdict of an envelope is what the limit step found, whatever the payload calls by
\* the same name.
LEMMA VerdictFacts ==
    ASSUME NEW r \in Requests, IsNormalized(r), NEW v, NEW specs
    PROVE  LET E == Envelope(FrameOf(r, v), specs)
           IN  Violating(FrameOf(r, v), specs) =
                   IF "limit_violations" \notin DOMAIN E THEN {}
                   ELSE IF E.limit_violations[1] # "step" THEN {} ELSE E.limit_violations[2]
  <1> DEFINE f == FrameOf(r, v)
             N == Normalize(r.fields)
             V == Violating(f, specs)
             E == Envelope(f, specs)
  <1>1. \A j \in DOMAIN r.fields : JsonValue(r.fields[j])
    BY StationAssumption DEF RequestShape
  <1>2. \A j \in DOMAIN N : JsonValue(N[j])
    BY <1>1, NormalizeFacts
  <1>3. /\ \A j : j \in DOMAIN Payload(f) <=> j \in DOMAIN N /\ Kept(N[j])
        /\ \A j \in DOMAIN Payload(f) : Payload(f)[j] = AsSent(N[j])
    BY <1>1, JsonFrameFacts
  <1> HIDE DEF f, N
  <1>4. \A j \in DOMAIN Payload(f) : Payload(f)[j][1] # "step"
    <2> SUFFICES ASSUME NEW j \in DOMAIN Payload(f) PROVE AsSent(N[j])[1] # "step"
      BY <1>3
    <2>1. N[j][1] \in {"number", "digits", "text", "nan", "bool", "null", "nested"}
      BY <1>2, <1>3, JsonFacts
    <2>2. Text(N[j][2])[1] = "text"
      BY DEF Text
    <2>3. FloatOf(N[j])[1] = N[j][1]
      BY <1>2, <1>3, JsonFacts
    <2> QED BY <2>1, <2>2, <2>3 DEF AsSent
  <1>5. /\ V # {} => /\ "limit_violations" \in DOMAIN E
                     /\ E.limit_violations[1] = "step" /\ E.limit_violations[2] = V
        /\ V = {} => \/ "limit_violations" \notin DOMAIN E
                     \/ E.limit_violations[1] # "step"
    <2>1. /\ "limit_violations" \in DOMAIN E <=>
                "limit_violations" \in DOMAIN Payload(f) \/ V # {}
          /\ V # {} => E.limit_violations = Own(V)
          /\ V = {} /\ "limit_violations" \in DOMAIN Payload(f) =>
                E.limit_violations = Payload(f).limit_violations
      BY EnvelopeFacts DEF Reserved
    <2>2. Own(V)[1] = "step" /\ Own(V)[2] = V
      BY DEF Own
    <2> HIDE DEF V, E
    <2> QED BY <1>4, <2>1, <2>2
  <1> HIDE DEF V, E
  <1>6. V = IF "limit_violations" \notin DOMAIN E THEN {}
            ELSE IF E.limit_violations[1] # "step" THEN {} ELSE E.limit_violations[2]
    BY <1>5
  <1> QED BY <1>6 DEF V, E, f
\* The channels that a mission's limits are declared for: those of its entry, if any.
Declared(m) == IF Entries = {} THEN <<>> ELSE (CHOOSE raw \in Entries : raw.id = m).channels

\* A mission's limits are the declarations of its entry, and these are well-formed.
LEMMA DeclaredFacts ==
    ASSUME Loaded, stage = "serving", NEW m \in Served
    PROVE  /\ Config(m).specs = Specs(Declared(m))
           /\ IsDeclaration(Declared(m))
  <1>1. CASE Entries = {}
    <2>1. m = "default" /\ Config(m) = DefaultMission(deployment.settings)
      BY <1>1, EntriesServed
    <2>2. Config(m).specs = <<>>
      BY <2>1 DEF DefaultMission
    <2>3. Declared(m) = <<>>
      BY <1>1 DEF Declared
    <2>4. Len(Declared(m)) = 0 /\ DOMAIN Declared(m) = 1..0
      BY <2>3
    <2>5. Specs(<<>>) = <<>>
      <3>1. DOMAIN Specs(<<>>) = {}
        BY DEF Specs
      <3>2. Specs(<<>>) = [id \in {} |-> Specs(<<>>)[id]]
        BY <3>1 DEF Specs
      <3> QED BY <3>2
    <2> QED BY <2>2, <2>3, <2>4, <2>5 DEF IsDeclaration
  <1>2. CASE Entries # {}
    <2> DEFINE raw == CHOOSE one \in Entries : one.id = m
    <2>1. raw \in Entries /\ raw.id = m
      BY <1>2, EntriesServed
    <2> HIDE DEF raw
    <2>2. Config(m) = ParseMission(raw)
      BY <2>1, EntriesServed
    <2>3. Config(m).specs = Specs(raw.channels)
      BY <2>2, ParsedFields
    <2>4. Declared(m) = raw.channels
      BY <1>2 DEF Declared, raw
    <2>5. EntryShape(raw)
      <3>1. deployment \in Deployments
        BY DEF Loaded
      <3>2. PICK i \in DOMAIN deployment.file : raw = deployment.file[i]
        BY <2>1 DEF Entries
      <3> QED BY <3>1, <3>2, StationAssumption
    <2> QED BY <2>3, <2>4, <2>5 DEF EntryShape, IsDeclaration
  <1> QED BY <1>1, <1>2

\* The limits of the missions file decide, for a file with any channels and any payload: the
\* envelope lists just the numbers beyond the bounds of the last declaration of their channel.
THEOREM LastDeclarationJudges == Spec => []VerdictsMatchLimits
  <1>1. IInv => VerdictsMatchLimits
    <2> SUFFICES ASSUME IInv, NEW m \in Served, NEW e \in Enriched(m),
                        IsNormalized(posts[e.post].request)
                 PROVE  LET r       == posts[e.post].request
                            fields  == WithTime(r.fields)
                            beyond  == {k \in DOMAIN fields : /\ fields[k][1] = "number"
                                   /\ \E i \in DOMAIN Declared(m) :
                                        /\ Declared(m)[i].id = k
                                        /\ \A j \in DOMAIN Declared(m) : j > i => Declared(m)[j].id # k
                                        /\ \/ /\ Declared(m)[i].min # NoLimit
                                              /\ Float[Declared(m)[i].min] > Float[fields[k][2]]
                                           \/ /\ Declared(m)[i].max # NoLimit
                                              /\ Float[Declared(m)[i].max] < Float[fields[k][2]]}
                            verdict == IF "limit_violations" \notin DOMAIN e.envelope THEN {}
                                       ELSE IF e.envelope.limit_violations[1] # "step" THEN {}
                                       ELSE e.envelope.limit_violations[2]
                        IN  verdict = beyond
      BY DEF VerdictsMatchLimits, WithTime, Declared
    <2> DEFINE r      == posts[e.post].request
               fields == WithTime(r.fields)
               N      == Normalize(r.fields)
               specs  == Config(m).specs
               Judged(k, x) == \E i \in DOMAIN Declared(m) :
                                  /\ Declared(m)[i].id = k
                                  /\ \A j \in DOMAIN Declared(m) : j > i => Declared(m)[j].id # k
                                  /\ \/ Declared(m)[i].min # NoLimit /\ Float[Declared(m)[i].min] > Float[x]
                                     \/ Declared(m)[i].max # NoLimit /\ Float[Declared(m)[i].max] < Float[x]
    <2>1. Loaded /\ stage = "serving" /\ m \in Ids
      <3>1. Loaded /\ stage = "serving"
        BY DEF IInv, Loaded, Served
      <3> QED BY <3>1, ConfigFacts DEF Configured
    <2>2. PICK v : From(e, e.post, m, v)
      BY <2>1, EnrichedFrom
    <2> DEFINE f == FrameOf(r, v)
    <2>3. r \in Requests /\ IsNormalized(r) /\ e.envelope = Envelope(f, specs)
          /\ ~PushRaises(r)
      BY <2>2 DEF From
    <2>4. \A k \in DOMAIN r.fields : JsonValue(r.fields[k])
      BY <2>3, StationAssumption DEF RequestShape
    <2>5. \A k \in DOMAIN N : JsonValue(N[k])
      BY <2>4, NormalizeFacts
    <2>6. /\ \A k : k \in DOMAIN f.channels <=> k \in DOMAIN N /\ IsNumber(N[k])
          /\ \A k \in DOMAIN f.channels : f.channels[k] = FloatOf(N[k])
      BY <2>3, <2>4, JsonFrameFacts
    <2>7. specs = Specs(Declared(m)) /\ IsDeclaration(Declared(m))
      BY <2>1, DeclaredFacts
    <2>8. ASSUME NEW k
          PROVE  k \in Violating(f, specs) <=>
                    k \in DOMAIN fields /\ fields[k][1] = "number" /\ Judged(k, fields[k][2])
      <3>1. /\ k \in DOMAIN fields /\ fields[k][1] = "number" <=>
                  k \in DOMAIN N /\ N[k][1] = "number"
            /\ k \in DOMAIN fields /\ fields[k][1] = "number" => fields[k] = N[k]
        BY <2>4, NumbersStay
      <3> HIDE DEF fields, N, f, specs, Judged
      <3>2. k \in Violating(f, specs) <=>
                k \in DOMAIN f.channels /\ k \in DOMAIN specs /\ Breaks(f.channels[k], specs[k])
        BY DEF Violating
      <3>3. \A x, spec : Breaks(x, spec) => x[1] = "number"
        BY DEF Breaks
      <3>4. CASE k \in DOMAIN N /\ N[k][1] = "number"
        <4>1. N[k][2] \in DOMAIN Float
          BY <2>3, <3>4, TakenNumbers DEF N
        <4>2. k \in DOMAIN f.channels /\ f.channels[k] = FloatOf(N[k])
          BY <2>6, <3>4 DEF IsNumber
        <4>3. FloatOf(N[k])[1] = "number" /\ FloatOf(N[k])[2] = Float[N[k][2]]
          BY <2>5, <3>4, JsonFacts
        <4>4. k \in DOMAIN Specs(Declared(m)) /\ Breaks(FloatOf(N[k]), Specs(Declared(m))[k])
                 <=> Judged(k, N[k][2])
          <5>1. PICK ch, value, x : ch = Declared(m) /\ value = FloatOf(N[k]) /\ x = N[k][2]
            OBVIOUS
          <5>2. IsDeclaration(ch)
            BY <2>7, <5>1
          <5>3. value[1] = "number" /\ x \in DOMAIN Float /\ value[2] = Float[x]
            BY <4>1, <4>3, <5>1
          <5>4. k \in DOMAIN Specs(ch) /\ Breaks(value, Specs(ch)[k]) <=>
                   \E i \in DOMAIN ch :
                      /\ ch[i].id = k
                      /\ \A j \in DOMAIN ch : j > i => ch[j].id # k
                      /\ \/ ch[i].min # NoLimit /\ Float[ch[i].min] > Float[x]
                         \/ ch[i].max # NoLimit /\ Float[ch[i].max] < Float[x]
            BY <5>2, <5>3, BreaksFacts
          <5> QED BY <5>1, <5>4 DEF Judged
        <4> QED BY <2>7, <3>1, <3>2, <3>4, <4>2, <4>4
      <3>5. CASE ~(k \in DOMAIN N /\ N[k][1] = "number")
        <4>1. k \in DOMAIN f.channels => f.channels[k][1] # "number"
          BY <2>5, <2>6, <3>5, JsonFacts
        <4> QED BY <3>1, <3>2, <3>3, <3>5, <4>1
      <3> QED BY <3>4, <3>5
    <2>9. Violating(f, specs) =
              IF "limit_violations" \notin DOMAIN e.envelope THEN {}
              ELSE IF e.envelope.limit_violations[1] # "step" THEN {}
              ELSE e.envelope.limit_violations[2]
      <3> HIDE DEF r, specs
      <3>1. Violating(FrameOf(r, v), specs) =
              IF "limit_violations" \notin DOMAIN Envelope(FrameOf(r, v), specs) THEN {}
              ELSE IF Envelope(FrameOf(r, v), specs).limit_violations[1] # "step" THEN {}
              ELSE Envelope(FrameOf(r, v), specs).limit_violations[2]
        BY <2>3, VerdictFacts
      <3> QED BY <2>3, <3>1
    <2>10. Violating(f, specs) =
              {k \in DOMAIN fields : fields[k][1] = "number" /\ Judged(k, fields[k][2])}
      <3> HIDE DEF fields, f, specs, Judged
      <3> QED BY <2>8
    <2> QED BY <2>9, <2>10
  <1> QED BY <1>1, ProvenanceHolds, PTL-----------------------------------------------------------------------------
\* A pair of numbers has a smaller and a larger one.
LEMMA PairFacts ==
    ASSUME NEW x \in Int, NEW y \in Int
    PROVE  /\ Min({x, y}) \in {x, y} /\ Min({x, y}) <= x /\ Min({x, y}) <= y
           /\ Max({x, y}) \in {x, y} /\ Max({x, y}) >= x /\ Max({x, y}) >= y
  <1>1. \E z \in {x, y} : \A w \in {x, y} : z <= w
    <2>1. CASE x <= y
      BY <2>1
    <2>2. CASE ~(x <= y)
      BY <2>2
    <2> QED BY <2>1, <2>2
  <1>2. \E z \in {x, y} : \A w \in {x, y} : z >= w
    <2>1. CASE x >= y
      BY <2>1
    <2>2. CASE ~(x >= y)
      BY <2>2
    <2> QED BY <2>1, <2>2
  <1>3. Min({x, y}) \in {x, y} /\ \A w \in {x, y} : Min({x, y}) <= w
    BY <1>1 DEF Min
  <1>4. Max({x, y}) \in {x, y} /\ \A w \in {x, y} : Max({x, y}) >= w
    BY <1>2 DEF Max
  <1> QED BY <1>3, <1>4

\* A mission's store returns as many rows as the limits of the first mission of its database
\* say, and at least one.
LEMMA CapFacts ==
    ASSUME Loaded, stage = "serving", NEW m \in Served
    PROVE  LET cap == Cap(StoreOwner(configs, deployment.settings, Db(m)), NoRowLimit)
           IN  /\ cap \in Nat /\ cap >= 1
               /\ \E i \in DOMAIN configs :
                     /\ Db(configs[i].id) = Db(m)
                     /\ \A j \in DOMAIN configs : j < i => Db(configs[j].id) # Db(m)
                     /\ cap >= configs[i].max_limit \/ cap >= configs[i].default_limit
  <1> DEFINE own(i) == Dsn(configs[i], deployment.settings) = Db(m)
             S == {i \in DOMAIN configs : own(i)}
  <1>1. /\ deployment \in Deployments /\ ~LoadRaises(deployment.file)
        /\ configs = MissionConfigs(deployment.file, deployment.settings)
        /\ ~BuildRaises(configs)
    BY DEF Loaded
  <1>2. /\ \A i \in DOMAIN configs : i \in Nat
        /\ \A i \in DOMAIN configs : configs[i].default_limit \in Int /\ configs[i].max_limit \in Int
    BY <1>1, LoadedFacts
  <1>3. \A i \in DOMAIN configs : Config(configs[i].id) = configs[i]
    BY ConfigFacts DEF Configured
  <1>4. \A i \in DOMAIN configs : Db(configs[i].id) = Dsn(configs[i], deployment.settings)
    BY <1>3 DEF Db
  <1>5. S \in SUBSET Nat /\ S # {}
    <2>1. PICK i \in DOMAIN configs : configs[i].id = m
      BY DEF Served
    <2>2. own(i)
      BY <1>4, <2>1
    <2> QED BY <1>2, <2>1, <2>2
  <1>6. \E i \in S : \A j \in S : i <= j
    BY <1>5, FirstNumber
  <1>7. \E i \in DOMAIN configs : own(i) /\ \A j \in DOMAIN configs : j < i => ~own(j)
    <2>1. PICK i \in S : \A j \in S : i <= j
      BY <1>6
    <2>2. ASSUME NEW j \in DOMAIN configs, j < i PROVE ~own(j)
      <3>1. i \in Nat /\ j \in Nat
        BY <1>2
      <3>2. ~(i <= j)
        BY <2>2, <3>1
      <3>3. j \notin S
        BY <2>1, <3>2
      <3> QED BY <3>3
    <2> QED BY <2>1, <2>2
  <1>8. PICK i \in DOMAIN configs :
            /\ own(i) /\ \A j \in DOMAIN configs : j < i => ~own(j)
            /\ StoreOwner(configs, deployment.settings, Db(m)) = configs[i]
    <2> DEFINE c == CHOOSE k \in DOMAIN configs : own(k) /\ \A j \in DOMAIN configs : j < k => ~own(j)
    <2>1. c \in DOMAIN configs /\ own(c) /\ \A j \in DOMAIN configs : j < c => ~own(j)
      BY <1>7
    <2>2. StoreOwner(configs, deployment.settings, Db(m)) = configs[c]
      BY DEF StoreOwner
    <2> QED BY <2>1, <2>2
  <1>9. PICK dl \in Int, ml \in Int : dl = configs[i].default_limit /\ ml = configs[i].max_limit
    BY <1>2
  <1>10. Cap(configs[i], NoRowLimit) = Max({1, Min({dl, ml})})
    BY <1>9 DEF Cap
  <1>11. Min({dl, ml}) \in {dl, ml}
    BY PairFacts
  <1>12. Min({dl, ml}) \in Int
    BY <1>11
  <1>13. /\ Max({1, Min({dl, ml})}) \in {1, Min({dl, ml})}
         /\ Max({1, Min({dl, ml})}) >= 1 /\ Max({1, Min({dl, ml})}) >= Min({dl, ml})
    <2>1. PICK low \in Int : low = Min({dl, ml})
      BY <1>12
    <2>2. Max({1, low}) \in {1, low} /\ Max({1, low}) >= 1 /\ Max({1, low}) >= low
      BY PairFacts
    <2> QED BY <2>1, <2>2
  <1>14. PICK cap : cap = Max({1, Min({dl, ml})})
    OBVIOUS
  <1>15. cap \in Nat /\ cap >= 1 /\ (cap >= ml \/ cap >= dl)
    <2>1. cap \in Int /\ cap >= 1
      BY <1>12, <1>13, <1>14
    <2>2. cap >= ml \/ cap >= dl
      BY <1>11, <1>13, <1>14
    <2> QED BY <2>1, <2>2
  <1> QED BY <1>4, <1>8, <1>9, <1>10, <1>14, <1>15

\* A row of a mission is known by its POST, and says its time as its envelope does, and its
\* mission too where the archive tells that from others.
LEMMA RowFacts ==
    ASSUME IInv, NEW d \in DOMAIN tables
    PROVE  /\ \A row, other \in tables[d] : row.post = other.post => row = other
           /\ \A row \in tables[d] : /\ row.event_time_ms = TimeOf(row)
                                     /\ \A m : Distinct(m) /\ Db(m) = d =>
                                           (row.mission_id = m <=> row.envelope.mission_id = Own(m))
  <1>1. PICK q : Genuine(q)
    BY DEF IInv
  <1>2. Vetted /\ Sizes
    BY DEF IInv
  <1> DEFINE e(n) == [post |-> n, envelope |-> Envelope(FrameOf(posts[n].request, q[n]),
                                                       Config(posts[n].request.mission).specs)]
  <1>3. ASSUME NEW row \in tables[d]
        PROVE  \E n : row = Stored(e(n)) /\ row.post = n
                      /\ row.event_time_ms = TimeOf(row)
                      /\ \A m : Distinct(m) /\ Db(m) = d =>
                            (row.mission_id = m <=> row.envelope.mission_id = Own(m))
    <2>1. PICK k \in Served : Db(k) = d /\ \E x \in Envelopes(posts, q, k, Config(k).specs) : row = Stored(x)
      BY <1>1 DEF Genuine
    <2>2. PICK x \in Envelopes(posts, q, k, Config(k).specs) : row = Stored(x)
      BY <2>1
    <2>3. From(x, x.post, k, q[x.post])
      BY <1>2, EnvelopesFrom
    <2> DEFINE n == x.post
               f == FrameOf(posts[n].request, q[n])
               E == Envelope(f, Config(k).specs)
    <2>4. posts[n].request.mission = k /\ x = [post |-> n, envelope |-> E]
      BY <2>3 DEF From
    <2>5. row = Stored([post |-> n, envelope |-> E])
      BY <2>2, <2>4
    <2>6. row = Stored(e(n))
      BY <2>4, <2>5
    <2>7. /\ row.post = n /\ row.envelope = E
          /\ row.event_time_ms = f.epoch_ms /\ row.mission_id = Cut(128, f.mission_id)
      BY <2>5, StoredFacts
    <2>8. E.epoch_ms = Own(f.epoch_ms) /\ E.mission_id = Own(f.mission_id)
      BY EnvelopeFacts
    <2>m. f.mission_id = k
      BY <2>3, FrameFacts DEF From
    <2> HIDE DEF E, f, n
    <2>9. TimeOf(row) = f.epoch_ms
      BY <2>7, <2>8 DEF TimeOf, Own
    <2>10. ASSUME NEW m, Distinct(m), Db(m) = d
           PROVE  row.mission_id = m <=> row.envelope.mission_id = Own(m)
      <3>1. Cut(128, k) = m <=> k = m
        BY <2>1, <2>10 DEF Distinct
      <3>2. Own(k) = Own(m) <=> k = m
        BY DEF Own
      <3> QED BY <2>7, <2>8, <2>m, <3>1, <3>2
    <2> QED BY <2>6, <2>7, <2>9, <2>10
  <1> HIDE DEF e
  <1>4. \A row, other \in tables[d] : row.post = other.post => row = other
    BY <1>3
  <1> QED BY <1>3, <1>4
\* What a bounded query of a mission's rows answers: all that are due, or as many as the
\* bound allows, and then the oldest.
LEMMA BoundedAnswer ==
    ASSUME NEW matching, IsFiniteSet(matching), NEW cap \in Nat,
           \A row, other \in matching : row.post = other.post => row = other,
           NEW rows \in kSubset(Min({cap, Cardinality(matching)}), matching),
           NEW a, a = {r.post : r \in rows}
    PROVE  /\ rows \subseteq matching
           /\ a # {r.post : r \in matching} => Cardinality(a) = cap
  <1>1. /\ rows \in SUBSET matching
        /\ Cardinality(rows) = Min({cap, Cardinality(matching)})
    BY DEF kSubset
  <1>2. IsFiniteSet(rows) /\ (Cardinality(matching) = Cardinality(rows) => matching = rows)
    BY <1>1, FS_Subset
  <1>3. Cardinality(a) = Cardinality(rows)
    <2> DEFINE f == [r \in rows |-> r.post]
    <2>1. f \in [rows -> a]
      OBVIOUS
    <2>2. \A n \in a : \E r \in rows : f[r] = n
      OBVIOUS
    <2>3. \A r, s \in rows : f[r] = f[s] => r = s
      BY <1>1
    <2>4. DOMAIN f = rows
      OBVIOUS
    <2> HIDE DEF f
    <2>5. f \in Surjection(rows, a) /\ f \in Injection(rows, a)
      BY <2>1, <2>2, <2>3, <2>4 DEF Surjection, Injection, IsInjective
    <2> QED BY <1>2, <2>5, FS_Surjection
  <1>4. PICK size \in Nat : size = Cardinality(matching)
    BY FS_CardinalityType
  <1>5. ASSUME a # {r.post : r \in matching} PROVE Cardinality(a) = cap
    <2>1. Cardinality(rows) # size
      BY <1>2, <1>4, <1>5
    <2>2. Cardinality(rows) \in {cap, size}
      <3>1. cap \in Int /\ size \in Int
        BY <1>4
      <3>2. Min({cap, size}) \in {cap, size}
        BY <3>1, PairFacts
      <3> QED BY <1>1, <1>4, <3>2
    <2> QED BY <1>3, <2>1, <2>2
  <1> QED BY <1>1, <1>5

\* A history answer, for any limits, rows and range: only the mission's own frames of the
\* range, and all that it has, or as many as a limit of its database allows and the oldest.
THEOREM HistoryTellsNoLie == Spec => []HistoryAnswersAreRight
  <1>1. IInv => HistoryAnswersAreRight
    <2> SUFFICES ASSUME IInv, NEW m \in Served, HasStore(m) => Distinct(m), NEW start_ms \in 1..Now, NEW end_ms \in 1..Now,
                        NEW a \in History(m, start_ms, end_ms)
                 PROVE  LET held == IF HasStore(m) THEN {r \in tables[Db(m)] : r.envelope.mission_id = Own(m)}
                                                   ELSE Range(history[m])
                            due  == {r.post : r \in {s \in held : start_ms <= TimeOf(s) /\ TimeOf(s) <= end_ms}}
                            time == [n \in due |-> TimeOf(CHOOSE r \in held : r.post = n)]
                        IN  /\ a \subseteq due
                            /\ a # due => /\ HasStore(m)
                                          /\ Cardinality(a) >= 1
                                          /\ \E i \in DOMAIN configs :
                                                /\ Db(configs[i].id) = Db(m)
                                                /\ \A j \in DOMAIN configs :
                                                      j < i => Db(configs[j].id) # Db(m)
                                                /\ \/ Cardinality(a) >= configs[i].max_limit
                                                   \/ Cardinality(a) >= configs[i].default_limit
                                          /\ \A n \in a, o \in due \ a : time[n] <= time[o]
      BY DEF HistoryAnswersAreRight
    <2> DEFINE held == IF HasStore(m) THEN {r \in tables[Db(m)] : r.envelope.mission_id = Own(m)}
                                      ELSE Range(history[m])
               due  == {r.post : r \in {s \in held : start_ms <= TimeOf(s) /\ TimeOf(s) <= end_ms}}
               time == [n \in due |-> TimeOf(CHOOSE r \in held : r.post = n)]
    <2>1. /\ Loaded /\ Sizes /\ stage = "serving"
      BY DEF IInv, Loaded, Served
    <2>2. Db(m) \in DOMAIN tables /\ m \in Ids
      BY <2>1, ConfigFacts DEF Configured
    <2>3. CASE ~HasStore(m)
      <3>1. a = {e.post : e \in HistoryEnvelopes(history[m], start_ms, end_ms)}
        BY <2>3 DEF History
      <3>2. \A e : e \in HistoryEnvelopes(history[m], start_ms, end_ms) <=>
                      e \in Range(history[m]) /\ start_ms <= TimeOf(e) /\ TimeOf(e) <= end_ms
        BY DEF HistoryEnvelopes, InRange, TimeOf, Range
      <3>3. a = due
        BY <2>3, <3>1, <3>2
      <3> QED BY <3>3
    <2>4. CASE HasStore(m)
      <3> DEFINE table == tables[Db(m)]
                 owner == StoreOwner(configs, deployment.settings, Db(m))
                 cap   == Cap(owner, NoRowLimit)
                 matching == {r \in table : r.mission_id = m /\ InRange(r.event_time_ms, start_ms, end_ms)}
      <3>1. PICK rows \in QueryRange(table, m, start_ms, end_ms, cap) : a = {r.post : r \in rows}
        BY <2>4 DEF History
      <3>2. /\ rows \in kSubset(Min({cap, Cardinality(matching)}), matching)
            /\ \A r \in rows, s \in matching \ rows : r.event_time_ms <= s.event_time_ms
        BY <3>1 DEF QueryRange
      <3>3. /\ cap \in Nat /\ cap >= 1
            /\ \E i \in DOMAIN configs :
                  /\ Db(configs[i].id) = Db(m)
                  /\ \A j \in DOMAIN configs : j < i => Db(configs[j].id) # Db(m)
                  /\ cap >= configs[i].max_limit \/ cap >= configs[i].default_limit
        BY <2>1, CapFacts
      <3>4. /\ \A row, other \in table : row.post = other.post => row = other
            /\ \A row \in table : row.event_time_ms = TimeOf(row)
            /\ \A row \in table : row.mission_id = m <=> row.envelope.mission_id = Own(m)
        BY <2>2, <2>4, RowFacts
      <3>5. IsFiniteSet(matching)
        <4>1. IsFiniteSet(table)
          BY <2>1, <2>2 DEF Sizes
        <4> QED BY <4>1, FS_Subset
      <3> HIDE DEF cap, table
      <3>6. held = {r \in table : r.envelope.mission_id = Own(m)}
        BY <2>4 DEF table
      <3>7. \A r : r \in matching <=>
                      r \in held /\ start_ms <= TimeOf(r) /\ TimeOf(r) <= end_ms
        BY <3>4, <3>6 DEF InRange
      <3>8. \A r \in held : r \in table
        BY <3>6
      <3> HIDE DEF matching, held
      <3>9. due = {r.post : r \in matching}
        BY <3>7
      <3>10. \A row, other \in matching : row.post = other.post => row = other
        BY <3>4, <3>7, <3>8
      <3>11. rows \subseteq matching /\ (a # due => Cardinality(a) = cap)
        BY <3>1, <3>2, <3>3, <3>5, <3>9, <3>10, BoundedAnswer
      <3>12. a \subseteq due
        BY <3>1, <3>9, <3>11
      <3>13. \A r \in matching : r.post \in due /\ time[r.post] = r.event_time_ms
        <4> SUFFICES ASSUME NEW r \in matching
                     PROVE  r.post \in due /\ time[r.post] = r.event_time_ms
          OBVIOUS
        <4>1. r \in held /\ r.post \in due
          BY <3>7, <3>9
        <4>2. (CHOOSE s \in held : s.post = r.post) = r
          <5> DEFINE c == CHOOSE s \in held : s.post = r.post
          <5>1. c \in held /\ c.post = r.post
            BY <4>1
          <5> HIDE DEF c
          <5>2. c = r
            BY <3>4, <3>8, <4>1, <5>1
          <5> QED BY <5>2 DEF c
        <4>3. time[r.post] = TimeOf(r)
          BY <4>1, <4>2
        <4> QED BY <3>4, <3>8, <4>1, <4>3
      <3>14. ASSUME NEW n \in a, NEW o \in due \ a PROVE time[n] <= time[o]
        <4>1. PICK r \in rows : n = r.post
          BY <3>1
        <4>2. PICK s \in matching : o = s.post
          BY <3>9
        <4>3. s \notin rows
          BY <3>1, <4>2
        <4>4. r.event_time_ms <= s.event_time_ms
          BY <3>2, <4>2, <4>3 DEF matching
        <4>5. r \in matching
          BY <3>11
        <4> HIDE DEF time
        <4> QED BY <3>13, <4>1, <4>2, <4>4, <4>5
      <3>15. ASSUME a # due
             PROVE  /\ Cardinality(a) >= 1
                    /\ \E i \in DOMAIN configs :
                          /\ Db(configs[i].id) = Db(m)
                          /\ \A j \in DOMAIN configs : j < i => Db(configs[j].id) # Db(m)
                          /\ \/ Cardinality(a) >= configs[i].max_limit
                             \/ Cardinality(a) >= configs[i].default_limit
        BY <3>3, <3>11, <3>15
      <3> HIDE DEF due, time
      <3>16. a # due => /\ HasStore(m)
                        /\ Cardinality(a) >= 1
                        /\ \E i \in DOMAIN configs :
                              /\ Db(configs[i].id) = Db(m)
                              /\ \A j \in DOMAIN configs : j < i => Db(configs[j].id) # Db(m)
                              /\ \/ Cardinality(a) >= configs[i].max_limit
                                 \/ Cardinality(a) >= configs[i].default_limit
                        /\ \A n \in a, o \in due \ a : time[n] <= time[o]
        BY <2>4, <3>14, <3>15
      <3> QED BY <3>12, <3>16 DEF due, time, held
    <2> QED BY <2>3, <2>4
  <1> QED BY <1>1, ProvenanceHolds, PTL
=============================================================================
