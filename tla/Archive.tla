------------------------------ MODULE Archive ------------------------------
(***************************************************************************)
(* The history queries: a range of the runtime's deque, and a range of the *)
(* Postgres table that all missions of a database share.  A query result   *)
(* is a set; which of two rows of one instant a LIMIT keeps is not said.   *)
(***************************************************************************)
EXTENDS Integers, Sequences, FiniteSetsExt

CONSTANT NoRowLimit    \* query_range is called without a limit

InRange(t, start_ms, end_ms) == start_ms <= t /\ t <= end_ms

\* history_envelopes
HistoryEnvelopes(history, start_ms, end_ms) ==
    {history[i] : i \in {j \in DOMAIN history :
        InRange(history[j].envelope.epoch_ms[2], start_ms, end_ms)}}

\* The number of rows a store configured by config returns at most.
Cap(config, limit) ==
    Max({1, Min({IF limit = NoRowLimit THEN config.default_limit ELSE limit, config.max_limit})})

\* Variant: the query is not restricted to the mission.
QueryRange_AllMissions(table, mission, start_ms, end_ms, cap) ==
    LET matching == {r \in table : InRange(r.event_time_ms, start_ms, end_ms)}
    IN  {rows \in kSubset(Min({cap, Cardinality(matching)}), matching) :
            \A r \in rows, s \in matching \ rows : r.event_time_ms <= s.event_time_ms}

\* Postgres query_range: WHERE, ORDER BY event_time_ms ASC, LIMIT.
QueryRange(table, mission, start_ms, end_ms, cap) ==
    LET matching == {r \in table : /\ r.mission_id = mission
                                   /\ InRange(r.event_time_ms, start_ms, end_ms)}
    IN  {rows \in kSubset(Min({cap, Cardinality(matching)}), matching) :
            \A r \in rows, s \in matching \ rows : r.event_time_ms <= s.event_time_ms}
=============================================================================
