----------------------------- MODULE Enrichment -----------------------------
(***************************************************************************)
(* From the fields of a POST to the envelope: normalisation, the split     *)
(* into channels and labels, and the five steps in their order.  A JSON    *)
(* value is a type and a content; what a step writes is marked as Own.     *)
(* A number n stands for n / Parts, so that there are fractions.           *)
(***************************************************************************)
EXTENDS Configuration

CONSTANTS
    NoPacket,     \* a frame without raw bytes
    NoSource,     \* a POST that names no source
    Now,          \* the ground clock, in milliseconds
    GmtimeMin, GmtimeMax,   \* the instants that time.gmtime can represent
    BigintMin, BigintMax,   \* the instants that a Postgres BIGINT can hold
    Parts,        \* the fractions of 1 that numbers have
    Infinity,     \* the number that stands for an infinite one
    Unstorable,   \* texts that JSONB refuses, as those with U+0000
    Cut(_, _)     \* Cut(n, s): the first n characters of a name or text s

Num(n)    == <<"number", n>>
Text(s)   == <<"text", s>>
Digits(n) == <<"digits", n>>      \* a string that int() reads as n
Bool(b)   == <<"bool", b>>        \* b is "true" or "false"
NaN       == <<"nan", "">>
Null      == <<"null", "">>
Nested    == <<"nested", "">>     \* a list or an object
Own(x)    == <<"step", x>>

IsNumber(v) == v[1] \in {"number", "nan"}
IsString(v) == v[1] \in {"text", "digits"}

\* {**base, **top}
Merge(base, top) ==
    [k \in DOMAIN base \cup DOMAIN top |-> IF k \in DOMAIN top THEN top[k] ELSE base[k]]

\* What fills the fields that a payload leaves open.
Defaults == [epoch_ms |-> Num(Now * Parts), timestamp |-> Text("ground time")]

\* Variant: what counts as false is dropped with the nulls.
Normalize_DropsFalse(fields) ==
    Merge(Defaults,
          Restrict(fields, {k \in DOMAIN fields : fields[k] \notin {Null, Num(0), Bool("false")}}))

\* normalize_ingest_fields: null fields go, the ground's time is the default.
Normalize(fields) ==
    Merge(Defaults, Restrict(fields, {k \in DOMAIN fields : fields[k] # Null}))

\* int(epoch_ms): raises on anything but finite numbers, Booleans and strings of digits.
Readable(v) == v[1] \in {"number", "digits", "bool"} /\ v \notin {Num(Infinity), Num(-Infinity)}

\* int() of a number drops its fraction.
Truncated(n) == IF n >= 0 THEN n \div Parts ELSE -((-n) \div Parts)

IntOf(v) ==
    CASE v[1] = "number" -> Truncated(v[2])
      [] v[1] = "digits" -> v[2]
      [] v[1] = "bool"   -> IF v[2] = "true" THEN 1 ELSE 0

\* float() raises on integers beyond what doubles reach.
Floats(v)  == v[1] = "number" => v[2] \in DOMAIN Float
FloatOf(v) == IF v[1] = "number" THEN Num(Float[v[2]]) ELSE v

\* push_normalized: numbers are channels, strings and Booleans labels, the rest goes.
Channels(n) == [k \in {k \in DOMAIN n : IsNumber(n[k])} |-> FloatOf(n[k])]
Labels(n) ==
    [k \in {k \in DOMAIN n : IsString(n[k]) \/ n[k][1] = "bool"} |->
        IF IsString(n[k]) THEN n[k] ELSE Text(n[k][2])]

JsonFrame(mission, seq, fields, meta) ==
    LET n == Normalize(fields)
    IN  [mission_id |-> mission, epoch_ms |-> IntOf(n.epoch_ms), seq |-> seq,
         channels |-> Channels(n), labels |-> Labels(n), raw |-> NoPacket, meta |-> meta]

\* push_ccsds: the packet's own number, the ground's time, no fields.
PacketFrame(mission, packet, meta) ==
    [mission_id |-> mission, epoch_ms |-> Now, seq |-> packet.seq_count,
     channels |-> <<>>, labels |-> <<>>, raw |-> packet, meta |-> meta]

\* What MetadataStep says of a frame whatever the payload says.
OwnFields(f) ==
    [mission_id |-> Own(f.mission_id), source_id |-> Own("http_ingest"),
     epoch_ms |-> Own(f.epoch_ms), seq |-> Own(f.seq), source |-> Own(f.meta)]

\* Variant: the envelope's own fields fill only what the payload leaves open.
Metadata_KeepsUser(f, env) ==
    Merge(Merge([timestamp |-> Own(f.epoch_ms)], OwnFields(f)), env)

\* MetadataStep: identity and time overwrite, timestamp is a default.
Metadata(f, env) ==
    Merge(Merge([timestamp |-> Own(f.epoch_ms)], env), OwnFields(f))

\* SequenceStep; what it counts is SequenceTracking's.
Sequence(f, env) == Merge(env, [ccsds |-> Own([seq |-> f.seq])])

\* StateStep: every packet makes the mission NOMINAL (StateMachine, PacketReceived).
State(env) == Merge(env, [system_state |-> Own("NOMINAL")])

\* CcsdsStep adds to the dict that SequenceStep has made.
Ccsds(f, env) ==
    IF f.raw = NoPacket THEN env
    ELSE Merge(env, [ccsds |-> Own(Merge(env.ccsds[2], [packet |-> f.raw]))])

\* Variant: a value at a bound violates it.
Breaks_AtBound(v, spec) ==
    v[1] = "number" /\ (\/ spec.min # NoLimit /\ v[2] <= spec.min
                        \/ spec.max # NoLimit /\ v[2] >= spec.max)

\* MinLimitRule and MaxLimitRule; no comparison with NaN is true.
Breaks(v, spec) ==
    v[1] = "number" /\ (\/ spec.min # NoLimit /\ v[2] < spec.min
                        \/ spec.max # NoLimit /\ v[2] > spec.max)

Violating(f, specs) ==
    {c \in DOMAIN f.channels \cap DOMAIN specs : Breaks(f.channels[c], specs[c])}

\* LimitViolationStep: writes its key only when something is violated.
LimitViolation(f, specs, env) ==
    LET violating == Violating(f, specs)
    IN  IF violating = {} THEN env ELSE Merge(env, [limit_violations |-> Own(violating)])

\* Enricher.process: channels, then labels, then the steps.
Envelope(f, specs) ==
    LimitViolation(f, specs, Ccsds(f, State(Sequence(f, Metadata(f, Merge(f.channels, f.labels))))))

\* Variant: the source too is built in place, on top of what the payload brought.
Raises_AtSource(f) ==
    \/ f.epoch_ms < GmtimeMin \/ f.epoch_ms > GmtimeMax
    \/ {"ccsds", "source"} \cap (DOMAIN f.labels \cup DOMAIN f.channels) # {}

\* A step raises: gmtime on the frame's time, or ccsds["seq"] = ... on a user's scalar.
Raises(f) ==
    \/ f.epoch_ms < GmtimeMin \/ f.epoch_ms > GmtimeMax
    \/ "ccsds" \in DOMAIN f.labels \cup DOMAIN f.channels

\* The columns of a row: _columns_from_enriched, which cuts names to their column.
Row(env) ==
    LET source == env.source[2].source
    IN  [event_time_ms |-> env.epoch_ms[2], mission_id |-> Cut(128, env.mission_id[2]),
         sequence_count |-> env.ccsds[2].seq, telemetry_mode |-> env.source[2].ingest_mode,
         ingress_source |-> IF source = NoSource THEN NoSource ELSE Cut(512, source),
         envelope |-> env]

\* What a JSON text has and JSONB has not.
Foreign(v) == v \in {NaN, Num(Infinity), Num(-Infinity)} \cup {Text(s) : s \in Unstorable}

\* Postgres takes the row: the time fits its column, and JSONB every value.
Insertable(env) ==
    /\ BigintMin <= env.epoch_ms[2] /\ env.epoch_ms[2] <= BigintMax
    /\ \A k \in DOMAIN env : ~Foreign(env[k])
    /\ ~Foreign(env.source[2].source)
=============================================================================
