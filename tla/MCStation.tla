----------------------------- MODULE MCStation -----------------------------
(* Station on nine missions files and on POSTs that vary one thing at a time:  *)
(* the fields of a payload, the body and its type, the credentials, the time.  *)
(* Numbers are halves.  Of those below the infinite 24 float() takes all but   *)
(* 23, and doubles hold those but 18 and 19; ids are cut from "long" on.       *)
EXTENDS Station, TLC

MCBigintMin == -2
MCGmtimeMin == -4

MCFloat == [n \in -24..24 \ {23} |-> IF n \in {18, 19} THEN 20 ELSE n]

MCCut(n, s) ==
    IF n = 128 /\ s = "long" THEN "beta"
    ELSE IF n = 512 /\ s = Text("relay") THEN Text("rel") ELSE s

Whole(n) == Num(n * Parts)

Raw(id, token, fault) ==
    [id |-> id, token |-> token, fault |-> fault, history_maxlen |-> 5, dsn |-> NoDsn,
     default_limit |-> 5, max_limit |-> 5,
     channels |-> <<[id |-> "temp", min |-> 10, max |-> NoLimit], [id |-> "temp", min |-> 0, max |-> 8]>>]

Alpha == Raw("alpha", "secret", "none")
Beta  == Raw("beta", NoToken, "none")

Env(dsn) == [token |-> NoToken, history_maxlen |-> 5, dsn |-> dsn]

MissionFiles ==
    {[file |-> <<[Alpha EXCEPT !.max_limit = 1], Raw("beta", NoToken, "number"),
                 [Beta EXCEPT !.dsn = "db1"]>>, settings |-> Env("db1")],
     [file |-> <<Raw("alpha", "secret", "adapter"),
                 [Alpha EXCEPT !.history_maxlen = 1,
                               !.channels = Append(@, [id |-> "epoch_ms", min |-> NoLimit, max |-> 4])],
                 [Beta EXCEPT !.dsn = "db2", !.max_limit = 0,
                              !.channels = Append(@, [id |-> "temp", min |-> NoLimit, max |-> 18])]>>, settings |-> Env(NoDsn)],
     [file |-> <<Raw("alpha", "secret", "id")>>, settings |-> Env(NoDsn)],
     [file |-> <<>>, settings |-> Env("db1")],
     [file |-> <<[Beta EXCEPT !.id = "default", !.default_limit = 1], [Beta EXCEPT !.id = "long"]>>,
      settings |-> Env("db1")],
     [file |-> <<[Beta EXCEPT !.id = "long"], Beta>>, settings |-> Env("db1")],
     [file |-> <<Alpha, Raw("beta", NoToken, "section")>>, settings |-> Env(NoDsn)],
     [file |-> <<[Alpha EXCEPT !.history_maxlen = -1], Beta>>, settings |-> Env(NoDsn)],
     [file |-> <<Alpha, Beta, Alpha>>, settings |-> Env(NoDsn)]}

Telemetry ==
    [route |-> "telemetry", mission |-> "alpha", x_ingest_token |-> "secret", bearer |-> NoToken,
     ids |-> "set", form |-> "json", body |-> "payload", fields |-> [temp |-> Whole(4)],
     packet |-> NoPacket]
Event  == [Telemetry EXCEPT !.route = "envelope"]
Packet == [Telemetry EXCEPT !.route = "packet", !.body = "packet", !.packet = [seq_count |-> 7],
                            !.fields = <<>>]

Values == {Num(3), Text("on"), Digits(3), Bool("true"), Null, Nested}
Keys   == {"temp", "epoch_ms", "ccsds", "limit_violations", "system_state", "source", "timestamp"}

Payloads ==
    {(k :> v) : k \in Keys, v \in Values}
        \cup {[temp |-> v, limit_violations |-> Text("none")] : v \in
                {Num(-1), Num(0), Num(9), Num(18), Num(20), Num(23), Num(Infinity), Text("nul"), NaN}}
        \cup {[temp |-> Whole(5), epoch_ms |-> v] : v \in
                {Whole(GmtimeMin - 1), Whole(BigintMin - 1), Num(-1), Num(2), Whole(BigintMax + 1),
                 Whole(GmtimeMax + 1), Num(Infinity)}}

Posts ==
    {[Telemetry EXCEPT !.fields = p] : p \in Payloads}
        \cup {[Event EXCEPT !.fields = [source |-> v]] :
                v \in Values \cup {Text(""), Text("nul"), Text("relay")}}
        \cup {[Telemetry EXCEPT !.mission = m, !.fields = [temp |-> Whole(5), epoch_ms |-> Whole(t)]] :
                m \in Ids \cup {"nobody"}, t \in {1, 2}}
        \cup {[q EXCEPT !.x_ingest_token = x, !.bearer = b] :
                q \in {Telemetry, Packet}, x \in {NoToken, "secret", "other"}, b \in {"secret", "other"}}
        \cup {[Packet EXCEPT !.body = b] : b \in DOMAIN PacketBody}
        \cup {[Packet EXCEPT !.form = f, !.body = b, !.fields = [source |-> Text("relay")]] :
                f \in {"json", "octets", "other"}, b \in {"packet", "short", "empty"}}
        \cup {[Packet EXCEPT !.body = b, !.fields = [ingress_id |-> v]] :
                b \in {"packet", "notbase64"}, v \in {Null, Nested}}
        \cup {[Event EXCEPT !.body = b, !.ids = i, !.packet = [seq_count |-> 7]] :
                b \in DOMAIN EnvelopeBody \cup {"malformed"}, i \in {"set", "blank"}}
        \cup {[Telemetry EXCEPT !.body = "malformed"]}
=============================================================================
