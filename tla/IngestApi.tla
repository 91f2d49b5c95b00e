----------------------------- MODULE IngestApi -----------------------------
(***************************************************************************)
(* The three ingest routes: which status a POST is answered, and what it   *)
(* hands to the adapter.  A request names its route and mission, the two   *)
(* tokens it carries, its content type (form), a class of its body, the    *)
(* fields and the packet in it, and whether an event's identifiers are set.*)
(***************************************************************************)
EXTENDS Enrichment, FiniteSetsExt

\* verify_ingest_token: either header will do.
Verified(token, r) == token = NoToken \/ token \in {r.x_ingest_token, r.bearer}

\* _read_raw_packet and push_ccsds, by body: "malformed" is no JSON, "payload" an
\* object without packet_base64, "short" fewer bytes than a header.
PacketBody ==
    [packet |-> 202, short |-> 400, empty |-> 400, notbase64 |-> 400,
     payload |-> 415, malformed |-> 500, nottext |-> 500]

\* _dispatch, by body of an event's payload: here the short packet's ValueError is not caught.
EnvelopeBody ==
    [payload |-> 202, packet |-> 202, short |-> 500, empty |-> 400,
     notbase64 |-> 400, nottext |-> 400, malformed |-> 422]

\* envelope_identifiers: both must be more than blanks.
Identified(r) == r.ids = "set"

\* CcsdsBase64Ingest wants strings, or nulls, beside the packet, and is asked for one before
\* base64 is.
WellTyped(r) ==
    \A k \in {"source", "ingress_id"} \cap DOMAIN r.fields : IsString(r.fields[k]) \/ r.fields[k] = Null

\* What the handler of a route makes of its body: 202, or the status of an error.
Content(r) ==
    CASE r.route = "telemetry" -> 202
      [] r.route = "packet"    ->
            IF r.form = "other" THEN 415
            ELSE IF r.form = "json" /\ r.body \notin {"payload", "malformed"} /\ ~WellTyped(r)
            THEN 500 ELSE PacketBody[r.body]
      [] r.route = "envelope"  -> IF Identified(r) THEN EnvelopeBody[r.body] ELSE 400

\* push_normalized rather than push_ccsds.
IsNormalized(r) == r.route # "packet" /\ r.body = "payload"

Passed(ok, status) == [ok |-> ok, status |-> status]

\* What stands between a POST and the adapter, in the order of the code.  FastAPI
\* checks a declared body before the handler runs; /ingest/packet declares none.
Checks(r, known, token) ==
    <<Passed(r.route = "packet" \/ r.body # "malformed", 422),
      Passed(known, 404),
      Passed(Verified(token, r), 401),
      Passed(Content(r) = 202, Content(r))>>

\* The first check that fails decides; with none the adapter is called.
Decision(r, known, token) ==
    LET checks == Checks(r, known, token)
        failed == {i \in DOMAIN checks : ~checks[i].ok}
    IN  IF failed = {} THEN 202 ELSE checks[Min(failed)].status

\* push_normalized raises after it has drawn a number: float() on a channel, or int() on the time.
PushRaises(r) ==
    LET n == Normalize(r.fields)
    IN  IsNormalized(r) /\ ((\E k \in DOMAIN n : ~Floats(n[k])) \/ ~Readable(n.epoch_ms))

\* /ingest/telemetry keeps no source, binary bodies have none, and an empty one is not set.
Source(r) ==
    IF /\ r.route # "telemetry" /\ r.form = "json"
       /\ "source" \in DOMAIN r.fields /\ IsString(r.fields.source)
       /\ r.fields.source # Text("")
    THEN r.fields.source ELSE NoSource

\* Variant: an event counts as normalised whatever it carries.
Meta_ByRoute(r) ==
    [kind |-> CASE r.route = "telemetry" -> "http_json"
                [] r.route = "packet"    -> "ccsds_raw"
                [] r.route = "envelope"  -> "event_envelope",
     ingest_mode |-> IF r.route = "packet" THEN "ccsds" ELSE "normalized",
     source |-> Source(r)]

\* _meta and envelope_meta.
Meta(r) ==
    [kind |-> CASE r.route = "telemetry" -> "http_json"
                [] r.route = "packet"    -> "ccsds_raw"
                [] r.route = "envelope"  -> "event_envelope",
     ingest_mode |-> IF IsNormalized(r) THEN "normalized" ELSE "ccsds",
     source |-> Source(r)]

FrameOf(r, seq) ==
    IF IsNormalized(r) THEN JsonFrame(r.mission, seq, r.fields, Meta(r))
                       ELSE PacketFrame(r.mission, r.packet, Meta(r))
=============================================================================
