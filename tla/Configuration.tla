--------------------------- MODULE Configuration ---------------------------
(***************************************************************************)
(* From the missions file and the environment to mission configurations.   *)
(* An entry of the file is given by the values it sets and by the part of  *)
(* it that does not parse, if any; TOML itself is left out.                *)
(***************************************************************************)
EXTENDS Integers, Sequences, Functions

CONSTANTS
    NoToken,    \* the empty token: ingest without credentials
    NoDsn,      \* the empty database URL
    NoLimit,    \* a channel's min or max that is not declared
    Float       \* float(): the numbers it takes, each with the one a double holds for it

ASSUME FloatAssumption ==
    /\ DOMAIN Float \subseteq Int /\ NoLimit \notin DOMAIN Float
    /\ \A n \in DOMAIN Float : Float[n] \in DOMAIN Float /\ Float[Float[n]] = Float[n]
    /\ \A n, k \in DOMAIN Float : n <= k => Float[n] <= Float[k]

\* What can be wrong with an entry and is skipped.  The fourth fault, "section", is a value
\* where a table belongs, or a bound that float() does not take: reading it raises
\* AttributeError or OverflowError, which the loop lets pass.
Skipped == {"id", "number", "adapter"}

Bound(n) == IF n = NoLimit THEN NoLimit ELSE Float[n]

\* _parse_channel, for the fields enrichment reads.
ChannelSpec(c) == [min |-> Bound(c.min), max |-> Bound(c.max)]

\* loader.py: a dict over the declared channels, so the last one of an id counts.
Specs(channels) ==
    [id \in {channels[i].id : i \in DOMAIN channels} |->
        ChannelSpec(channels[CHOOSE i \in DOMAIN channels :
                        /\ channels[i].id = id
                        /\ \A j \in DOMAIN channels : channels[j].id = id => j <= i])]

\* _parse_mission on an entry that parses.
ParseMission(raw) ==
    [id |-> raw.id, token |-> raw.token, specs |-> Specs(raw.channels),
     history_maxlen |-> raw.history_maxlen, dsn |-> raw.dsn,
     default_limit |-> raw.default_limit, max_limit |-> raw.max_limit]

\* Variant: the first malformed entry ends the loop.
LoadMissionsFile_StopsAtFault(file) ==
    LET whole == {n \in 0..Len(file) : \A i \in 1..n : file[i].fault \notin Skipped}
        last  == CHOOSE n \in whole : \A k \in whole : k <= n
    IN  [i \in 1..last |-> ParseMission(file[i])]

\* load_missions_file: a malformed entry is skipped, the others are kept in order, each
\* under its place in the file.
LoadMissionsFile(file) ==
    [i \in {j \in DOMAIN file : file[j].fault \notin Skipped} |-> ParseMission(file[i])]

LoadRaises(file) == \E i \in DOMAIN file : file[i].fault = "section"

\* _default_mission_from_settings, with the dataclass defaults for the rest.
DefaultMission(settings) ==
    [id |-> "default", token |-> settings.token, specs |-> <<>>,
     history_maxlen |-> settings.history_maxlen, dsn |-> settings.dsn,
     default_limit |-> 50000, max_limit |-> 200000]

\* create_app: no missions from the file, so one from the environment.
MissionConfigs(file, settings) ==
    LET loaded == LoadMissionsFile(file)
    IN  IF DOMAIN loaded = {} THEN <<DefaultMission(settings)>> ELSE loaded

\* Start-up raises on a history length a deque refuses, or on an id used twice.
BuildRaises(configs) ==
    \/ \E i \in DOMAIN configs : configs[i].history_maxlen < 0
    \/ \E i, j \in DOMAIN configs : i # j /\ configs[i].id = configs[j].id

\* The mission's database: its own, or the one of the environment.
Dsn(config, settings) == IF config.dsn # NoDsn THEN config.dsn ELSE settings.dsn

\* _get_or_create_store: the first mission of a database brings its limits.
StoreOwner(configs, settings, dsn) ==
    configs[CHOOSE i \in DOMAIN configs :
                /\ Dsn(configs[i], settings) = dsn
                /\ \A j \in DOMAIN configs : j < i => Dsn(configs[j], settings) # dsn]
=============================================================================
