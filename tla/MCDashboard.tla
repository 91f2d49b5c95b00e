----------------------------- MODULE MCDashboard -----------------------------
(* Dashboard with one channel, times that go back and forth, and an unreadable frame. *)
EXTENDS Dashboard

CONSTANT temp

MCKinds ==
    {[channels |-> {temp}, epoch_ms |-> 2, readable |-> TRUE],
     [channels |-> {temp}, epoch_ms |-> 1, readable |-> FALSE]}

MCRanges == {[start |-> 1, end |-> 1], [start |-> 1, end |-> 2]}
=============================================================================
