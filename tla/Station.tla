------------------------------ MODULE Station ------------------------------
(***************************************************************************)
(* The service end to end: missions from a missions file, POSTs through    *)
(* the ingest routes, frames through enrichment into memory and archive,   *)
(* and what the REST endpoints answer from there.  It composes             *)
(* Configuration, IngestApi, Enrichment and Archive; worker queues,        *)
(* suspensions and shutdown are MissionPipeline's and Lifespan's.          *)
(***************************************************************************)
EXTENDS IngestApi, Archive

CONSTANTS
    Deployments,   \* missions files with their environments
    Requests,      \* the POSTs explored
    Ids,           \* mission ids, "default" among them
    SeqSpace,      \* SEQ_MASK + 1
    IngestMax,     \* ingest_queue_maxsize
    MaxPosts       \* bound of the model: number of POSTs

\* What a JSON value can be.
JsonValue(v) ==
    \/ v \in {Null, Nested, NaN, Bool("true"), Bool("false")}
    \/ v[1] \in {"number", "digits"} /\ v[2] \in Int
    \/ v[1] = "text"

\* A request has one of the routes and a body of one of the classes; the telemetry route
\* takes any object for a payload.
RequestShape(r) ==
    /\ r.route \in {"telemetry", "packet", "envelope"}
    /\ r.form \in {"json", "octets", "other"}
    /\ r.body \in DOMAIN EnvelopeBody
    /\ r.form = "octets" => r.body \in {"packet", "short", "empty"}
    /\ r.route = "telemetry" => r.body \in {"payload", "malformed"}
    /\ \A k \in DOMAIN r.fields : JsonValue(r.fields[k])

\* An entry has at most one fault; what it sets are numbers and a list of channels.
EntryShape(raw) ==
    /\ raw.fault \in Skipped \cup {"none", "section"}
    /\ raw.fault = "none" => raw.id \in Ids
    /\ raw.history_maxlen \in Int /\ raw.default_limit \in Int /\ raw.max_limit \in Int
    /\ Len(raw.channels) \in Nat /\ DOMAIN raw.channels = 1..Len(raw.channels)
    /\ \A i \in DOMAIN raw.channels :
          \A bound \in {raw.channels[i].min, raw.channels[i].max} :
              bound = NoLimit \/ bound \in DOMAIN Float

ASSUME StationAssumption ==
    /\ SeqSpace \in Nat \ {0} /\ IngestMax \in Nat \ {0}
    /\ Now \in Int /\ GmtimeMin \in Int /\ GmtimeMax \in Int /\ GmtimeMin <= Now /\ Now <= GmtimeMax
    /\ Parts \in Nat \ {0} /\ Now * Parts \in DOMAIN Float
    /\ Infinity \in Nat /\ DOMAIN Float \subseteq -Infinity..Infinity
    /\ \A n \in {Infinity, -Infinity} : n \in DOMAIN Float /\ Float[n] = n
    /\ "default" \in Ids
    /\ \A r \in Requests : RequestShape(r)
    /\ \A p \in Deployments :
          /\ p.settings.history_maxlen \in Int
          /\ Len(p.file) \in Nat /\ DOMAIN p.file = 1..Len(p.file)
          /\ \A i \in DOMAIN p.file : EntryShape(p.file[i])

VARIABLES
    deployment,   \* the missions file and the environment
    stage,        \* "new", "serving" or "aborted"
    configs,      \* mission_configs
    posts,        \* ghost: the POSTs so far, each with the status it was answered
    seq,          \* each adapter's _seq
    ingest,       \* each adapter's queue
    alive,        \* whether each mission's run task is
    latest,       \* each runtime's _latest, as a sequence of length at most 1
    history,      \* each runtime's _history
    unstored,     \* frames each storage worker has yet to insert
    tables        \* the rows of each database

vars == <<deployment, stage, configs, posts, seq, ingest, alive, latest, history, unstored, tables>>

Init ==
    /\ deployment \in Deployments
    /\ stage = "new"
    /\ configs = <<>>
    /\ posts = <<>>
    /\ seq = [m \in Ids |-> -1]
    /\ ingest = [m \in Ids |-> <<>>]
    /\ alive = [m \in Ids |-> TRUE]
    /\ latest = [m \in Ids |-> <<>>]
    /\ history = [m \in Ids |-> <<>>]
    /\ unstored = [m \in Ids |-> <<>>]
    /\ tables = <<>>

\* MissionRegistry.get
Served    == {configs[i].id : i \in DOMAIN configs}
Config(m) == configs[CHOOSE i \in DOMAIN configs : configs[i].id = m]
Token(m)  == IF m \in Served THEN Config(m).token ELSE NoToken
Db(m)     == Dsn(Config(m), deployment.settings)
HasStore(m) == Db(m) # NoDsn

\* create_app and lifespan up to its yield.
Boot ==
    /\ stage = "new"
    /\ LET loaded == MissionConfigs(deployment.file, deployment.settings)
       IN  IF LoadRaises(deployment.file) \/ BuildRaises(loaded)
           THEN stage' = "aborted" /\ UNCHANGED <<configs, tables>>
           ELSE /\ stage' = "serving"
                /\ configs' = loaded
                /\ tables' = [d \in {Dsn(loaded[i], deployment.settings) : i \in DOMAIN loaded} |-> {}]
    /\ UNCHANGED <<deployment, posts, seq, ingest, alive, latest, history, unstored>>

\* Variant: fields that cannot be read are left out.
Enqueue_WithoutFields(r, number) ==
    LET readable == IF PushRaises(r) THEN [r EXCEPT !.fields = <<>>] ELSE r
    IN  ingest' = IF Len(ingest[r.mission]) >= IngestMax THEN ingest
                  ELSE [ingest EXCEPT ![r.mission] =
                            Append(@, [post |-> number, frame |-> FrameOf(readable, seq'[r.mission])])]

\* The frame is built and queued, or dropped at the full queue.
Enqueue(r, number) ==
    ingest' = IF PushRaises(r) \/ Len(ingest[r.mission]) >= IngestMax THEN ingest
              ELSE [ingest EXCEPT ![r.mission] =
                        Append(@, [post |-> number, frame |-> FrameOf(r, seq'[r.mission])])]

\* A POST is refused by a check, or reaches push_normalized or push_ccsds.
Post(r) ==
    LET decision == Decision(r, r.mission \in Served, Token(r.mission))
        status   == IF decision = 202 /\ PushRaises(r) THEN 500 ELSE decision
    IN  /\ stage = "serving"
        /\ Len(posts) < MaxPosts
        /\ posts' = Append(posts, [request |-> r, status |-> status])
        /\ IF decision # 202
           THEN UNCHANGED <<seq, ingest>>
           ELSE /\ seq' = IF IsNormalized(r)
                          THEN [seq EXCEPT ![r.mission] = (@ + 1) % SeqSpace] ELSE seq
                /\ Enqueue(r, Len(posts) + 1)
        /\ UNCHANGED <<deployment, stage, configs, alive, latest, history, unstored, tables>>

\* Variant: the history is cut one frame late.
Remembered_OneMore(h, e, maxlen) == IF Len(h) > maxlen THEN Append(Tail(h), e) ELSE Append(h, e)

\* The bounded deque after appending.
Remembered(h, e, maxlen) == IF maxlen = 0 THEN <<>>
                            ELSE IF Len(h) = maxlen THEN Append(Tail(h), e) ELSE Append(h, e)

\* The run task enriches the next frame, remembers it and publishes it.
Enrich(m) ==
    /\ alive[m]
    /\ ingest[m] # <<>>
    /\ ~Raises(Head(ingest[m]).frame)
    /\ LET f == Head(ingest[m])
           e == [post |-> f.post, envelope |-> Envelope(f.frame, Config(m).specs)]
       IN  /\ latest' = [latest EXCEPT ![m] = <<e>>]
           /\ history' = [history EXCEPT ![m] = Remembered(@, e, Config(m).history_maxlen)]
           /\ unstored' = [unstored EXCEPT ![m] = IF HasStore(m) THEN Append(@, e) ELSE @]
    /\ ingest' = [ingest EXCEPT ![m] = Tail(@)]
    /\ UNCHANGED <<deployment, stage, configs, posts, seq, alive, tables>>

\* A step raises: the frame is gone and the run task with it.
EnrichRaises(m) ==
    /\ alive[m]
    /\ ingest[m] # <<>>
    /\ Raises(Head(ingest[m]).frame)
    /\ alive' = [alive EXCEPT ![m] = FALSE]
    /\ ingest' = [ingest EXCEPT ![m] = Tail(@)]
    /\ UNCHANGED <<deployment, stage, configs, posts, seq, latest, history, unstored, tables>>

\* A row, with the POST it comes from.
Stored(e) == Merge([post |-> e.post], Row(e.envelope))

\* The storage worker inserts its next frame, or Postgres refuses it.
Store(m) ==
    /\ unstored[m] # <<>>
    /\ LET e == Head(unstored[m])
       IN  tables' = IF Insertable(e.envelope)
                     THEN [tables EXCEPT ![Db(m)] = @ \cup {Stored(e)}]
                     ELSE tables
    /\ unstored' = [unstored EXCEPT ![m] = Tail(@)]
    /\ UNCHANGED <<deployment, stage, configs, posts, seq, ingest, alive, latest, history>>

Next ==
    \/ Boot
    \/ \E r \in Requests : Post(r)
    \/ \E m \in Ids : Enrich(m) \/ EnrichRaises(m) \/ Store(m)

Spec == Init /\ [][Next]_vars
-----------------------------------------------------------------------------
\* The answers GET .../telemetry/history may give, as sets of POSTs.
History(m, start_ms, end_ms) ==
    IF HasStore(m)
    THEN {{r.post : r \in rows} : rows \in QueryRange(tables[Db(m)], m, start_ms, end_ms,
            Cap(StoreOwner(configs, deployment.settings, Db(m)), NoRowLimit))}
    ELSE {{e.post : e \in HistoryEnvelopes(history[m], start_ms, end_ms)}}

NumericKeys(env) == {k \in DOMAIN env \ {"epoch_ms"} : IsNumber(env[k]) \/ k = "seq"}

\* GET .../telemetry/schema
Schema(m) == IF latest[m] = <<>> THEN {} ELSE NumericKeys(latest[m][1].envelope)

\* mission_status, from the latest envelope; the archive is judged by the mission's own entry.
Status(m) ==
    LET env == latest[m][1].envelope
    IN  [ingest_mode |-> env.source[2].ingest_mode, system_state |-> env.system_state[2],
         last_epoch_ms |-> env.epoch_ms[2],
         telemetry_archive |-> IF Config(m).dsn # NoDsn THEN "postgres" ELSE "memory"]
-----------------------------------------------------------------------------
Enriched(m) == {history[m][i] : i \in DOMAIN history[m]} \cup {latest[m][i] : i \in DOMAIN latest[m]}

\* The POSTs whose frames a mission holds somewhere between its queue and its archive.
Held(m) ==
    {ingest[m][i].post : i \in DOMAIN ingest[m]} \cup {e.post : e \in Enriched(m)}
        \cup {unstored[m][i].post : i \in DOMAIN unstored[m]}
        \cup {r.post : r \in {s \in UNION {tables[d] : d \in DOMAIN tables} :
                            s.envelope.mission_id = Own(m)}}

\* Stages, statuses and the sizes of queues and history have their types and bounds.
TypeOK ==
    /\ stage \in {"new", "serving", "aborted"}
    /\ Served \subseteq Ids
    /\ \A i \in DOMAIN posts : posts[i].status \in {202, 400, 401, 404, 415, 422, 500}
    /\ seq \in [Ids -> -1..(SeqSpace - 1)]
    /\ alive \in [Ids -> BOOLEAN]
    /\ \A m \in Ids : Len(ingest[m]) <= IngestMax /\ Len(latest[m]) <= 1
    /\ \A m \in Served : Len(history[m]) <= Config(m).history_maxlen

Entries == {deployment.file[i] : i \in {j \in DOMAIN deployment.file : deployment.file[j].fault = "none"}}

\* A malformed entry of the missions file costs its own mission only: every entry that
\* parses is served under its id, token and history length, and nothing else is, except
\* for the default mission when no entry is left.
MalformedCostOnlyThemselves ==
    stage = "serving" =>
        /\ Served = IF Entries = {} THEN {"default"} ELSE {raw.id : raw \in Entries}
        /\ \A raw \in Entries : /\ Config(raw.id).token = raw.token
                                /\ Config(raw.id).history_maxlen = raw.history_maxlen

\* Whatever a mission queues, remembers, reports or archives comes from a POST that
\* was sent to it with the credentials its own file entry asks for and was answered
\* 202; a refused POST leaves nothing behind, however far it got.
HoldsOnlyAccepted ==
    \A m \in Ids : \A n \in Held(m) :
        /\ posts[n].status = 202
        /\ posts[n].request.mission = m
        /\ \A raw \in Entries : raw.id = m /\ raw.token # NoToken =>
                raw.token \in {posts[n].request.x_ingest_token, posts[n].request.bearer}

Reserved == {"mission_id", "source_id", "epoch_ms", "seq", "source", "ccsds", "system_state"}

Scalar(v) == v # Null /\ v # Nested

\* No payload can stand in for what the ground station says of a frame: the reserved
\* keys of an envelope are the steps' own and say what the POST and its frame say.
ReservedKeysAreTheStations ==
    \A m \in Ids : \A e \in Enriched(m) :
        LET r == posts[e.post].request
        IN  /\ \A k \in Reserved : e.envelope[k][1] = "step"
            /\ e.envelope.mission_id = Own(m)
            /\ e.envelope.source = Own(Meta(r))
            /\ e.envelope.seq[2] = e.envelope.ccsds[2].seq
            /\ e.envelope.epoch_ms =
                    Own(IF IsNormalized(r) /\ "epoch_ms" \in DOMAIN r.fields /\ r.fields.epoch_ms # Null
                        THEN IntOf(r.fields.epoch_ms) ELSE Now)

Doubles == {n \in DOMAIN Float : Float[n] = n}

\* x is the double n, or one of the two doubles that n lies between.
Beside(x, n) ==
    x \in Doubles /\ \A d \in Doubles : (n <= d => x <= d) /\ (d <= n => d <= x)

\* What a displayed value v must be for a value that was sent.
ShownAs(v, sent) ==
    CASE sent[1] = "number" -> v[1] = "number" /\ Beside(v[2], sent[2])
      [] sent[1] = "bool"   -> v = Text(sent[2])
      [] OTHER              -> v = sent

\* Every other string or Boolean of a payload reaches the envelope unchanged, and every
\* other number as a double next to it, which is itself if it is one; a numeric one of the
\* latest frame is offered to displays as a channel.
PayloadPassesThrough ==
    \A m \in Ids : \A e \in Enriched(m) :
        LET r     == posts[e.post].request
            plain == {k \in DOMAIN r.fields \ (Reserved \cup {"limit_violations"}) : Scalar(r.fields[k])}
        IN  IsNormalized(r) =>
                /\ plain \subseteq DOMAIN e.envelope
                /\ \A k \in plain : ShownAs(e.envelope[k], r.fields[k])
                /\ latest[m] = <<e>> => {k \in plain : IsNumber(r.fields[k])} \subseteq Schema(m)

\* The limits of the missions file decide: the envelope lists exactly the numeric fields
\* that, as doubles, are beyond the bounds that the last declaration of their channel gives.
\* The time is such a field, and it is the ground's where the payload has none.
VerdictsMatchLimits ==
    \A m \in Served : \A e \in Enriched(m) :
        LET r        == posts[e.post].request
            fields   == IF "epoch_ms" \in DOMAIN r.fields /\ r.fields.epoch_ms # Null
                        THEN r.fields ELSE Merge(r.fields, [epoch_ms |-> Num(Now * Parts)])
            declared == IF Entries = {} THEN <<>>
                        ELSE (CHOOSE raw \in Entries : raw.id = m).channels
            beyond   == {k \in DOMAIN fields : /\ fields[k][1] = "number"
                           /\ \E i \in DOMAIN declared :
                                /\ declared[i].id = k
                                /\ \A j \in DOMAIN declared : j > i => declared[j].id # k
                                /\ \/ declared[i].min # NoLimit /\ Float[declared[i].min] > Float[fields[k][2]]
                                   \/ declared[i].max # NoLimit /\ Float[declared[i].max] < Float[fields[k][2]]}
            verdict  == IF "limit_violations" \notin DOMAIN e.envelope THEN {}
                        ELSE IF e.envelope.limit_violations[1] # "step" THEN {}
                        ELSE e.envelope.limit_violations[2]
        IN  IsNormalized(r) => verdict = beyond

\* Only two kinds of payload end a mission's run task: one with a scalar of the steps' own
\* name ccsds, and one with a time no calendar holds.  Other payloads, whatever keys they
\* use, and all packets are enriched.
OnlyPoisonKills ==
    \A m \in Ids : ~alive[m] =>
        \E i \in DOMAIN posts :
            LET r == posts[i].request
            IN  /\ r.mission = m /\ posts[i].status = 202 /\ IsNormalized(r)
                /\ \/ "ccsds" \in DOMAIN r.fields /\ Scalar(r.fields.ccsds)
                   \/ /\ "epoch_ms" \in DOMAIN r.fields /\ r.fields.epoch_ms # Null
                      /\ \/ IntOf(r.fields.epoch_ms) > GmtimeMax
                         \/ IntOf(r.fields.epoch_ms) < GmtimeMin

ModeOf(r) == IF r.body = "payload" THEN "normalized" ELSE "ccsds"

\* The columns of the archive and the status of a mission tell the mode and the origin of
\* the POST they come from, whichever route it took, and the status never claims an
\* archive that is not there.
ReportsTellTheirOrigin ==
    /\ \A d \in DOMAIN tables : \A row \in tables[d] :
          LET r == posts[row.post].request
          IN  /\ row.mission_id = Cut(128, r.mission)
              /\ row.telemetry_mode = ModeOf(r)
              /\ r.body = "packet" => row.sequence_count = r.packet.seq_count
              /\ row.ingress_source # NoSource => row.ingress_source = Cut(512, r.fields.source)
    /\ \A m \in Served : latest[m] # <<>> =>
          LET r == posts[latest[m][1].post].request
          IN  /\ Status(m).ingest_mode = ModeOf(r)
              /\ Status(m).last_epoch_ms > Now => IsNormalized(r)
              /\ Status(m).telemetry_archive = "postgres" => HasStore(m)

TimeOf(e) == e.envelope.epoch_ms[2]

\* The archive tells m from others: its column holds the id whole, and cuts no other to it.
Distinct(m) ==
    \A o \in Served : Db(o) = Db(m) => (Cut(128, o) = m <=> o = m)

\* Of a mission that the archive tells from others, a history answer holds only the
\* mission's own frames of the asked range although missions share a table.  It holds all
\* that are stored (or remembered), or as many as the limits of the first mission of that
\* database allow, and then none that is older was left out.
HistoryAnswersAreRight ==
    \A m \in {s \in Served : HasStore(s) => Distinct(s)} : \A start_ms, end_ms \in 1..Now : \A a \in History(m, start_ms, end_ms) :
        LET held == IF HasStore(m) THEN {r \in tables[Db(m)] : r.envelope.mission_id = Own(m)}
                                   ELSE Range(history[m])
            due  == {r.post : r \in {s \in held : start_ms <= TimeOf(s) /\ TimeOf(s) <= end_ms}}
            time == [n \in due |-> TimeOf(CHOOSE r \in held : r.post = n)]
        IN  /\ a \subseteq due
            /\ a # due => /\ HasStore(m)
                          /\ Cardinality(a) >= 1
                          /\ \E i \in DOMAIN configs :
                                /\ Db(configs[i].id) = Db(m)
                                /\ \A j \in DOMAIN configs : j < i => Db(configs[j].id) # Db(m)
                                /\ \/ Cardinality(a) >= configs[i].max_limit
                                   \/ Cardinality(a) >= configs[i].default_limit
                          /\ \A n \in a, o \in due \ a : time[n] <= time[o]
=============================================================================
