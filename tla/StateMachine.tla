---------------------------- MODULE StateMachine ----------------------------
(***************************************************************************)
(* services/state_machine.py: the link state of one mission as a record,   *)
(* and what each of its methods makes of it.  Time is in whole units of    *)
(* the wall clock, time.time(); NoTime stands for None.                    *)
(***************************************************************************)
EXTENDS Integers

CONSTANT LostTimeout   \* lost_timeout_seconds

NoTime == -1

States == {"BOOT", "CONNECTING", "NOMINAL", "LOST"}

Fresh == [state |-> "BOOT", last_packet_time |-> NoTime,
          disconnected_since |-> NoTime, client_count |-> 0]

\* Variant: a client that comes back leaves LOST to the next packet.
ClientConnected_KeepsLost(m) ==
    [m EXCEPT !.client_count = @ + 1,
              !.disconnected_since = NoTime,
              !.state = IF @ = "BOOT" THEN "CONNECTING" ELSE @]

\* The timer for missing clients is disarmed; data is awaited.
ClientConnected(m) ==
    [m EXCEPT !.client_count = @ + 1,
              !.disconnected_since = NoTime,
              !.state = IF @ \in {"BOOT", "LOST"} THEN "CONNECTING" ELSE @]

\* Variant: the timer is armed when at most one client is left.
ClientDisconnected_ArmsEarly(m, total, now) ==
    [m EXCEPT !.client_count = total,
              !.disconnected_since = IF total <= 1 /\ @ = NoTime THEN now ELSE @]

\* The timer is armed by the departure that leaves nobody, and not re-armed.
\* total is the length of a list, so max(total, 0) is total.
ClientDisconnected(m, total, now) ==
    [m EXCEPT !.client_count = total,
              !.disconnected_since = IF total = 0 /\ @ = NoTime THEN now ELSE @]

PacketReceived(m, now) ==
    [m EXCEPT !.last_packet_time = now, !.state = "NOMINAL"]

\* Whether a moment that was noted, if it was, is too long ago.
Expired(since, now) == since # NoTime /\ now - since > LostTimeout

\* Variant: the early return after the client timer is taken whenever it is armed.
TimeoutChecked_ReturnsEarly(m, now) ==
    IF m.disconnected_since # NoTime
    THEN [m EXCEPT !.state = IF Expired(m.disconnected_since, now) THEN "LOST" ELSE @]
    ELSE [m EXCEPT !.state = IF Expired(m.last_packet_time, now) THEN "LOST" ELSE @]

\* Variant: only silence is timed, the early branch for clients is missing.
TimeoutChecked_IgnoresClients(m, now) ==
    [m EXCEPT !.state = IF Expired(m.last_packet_time, now) THEN "LOST" ELSE @]

\* No client for too long, or no packet for too long.
TimeoutChecked(m, now) ==
    [m EXCEPT !.state =
        IF Expired(m.disconnected_since, now) \/ Expired(m.last_packet_time, now)
        THEN "LOST" ELSE @]
=============================================================================
