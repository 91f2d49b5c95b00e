----------------------------- MODULE LinkMonitor -----------------------------
(***************************************************************************)
(* The link state of one mission over time: packets, displays that come    *)
(* and go, and the runtime's timeout task, which checks the state and then *)
(* sleeps.  The envelope of the latest packet keeps the state as it was    *)
(* when the packet was enriched; the REST endpoints report that copy.      *)
(*                                                                         *)
(* Time advances one unit per Tick.  A sleeping timeout task wakes up      *)
(* between its deadline and MaxLag units after it: the event loop is       *)
(* assumed never to be held longer than that.                              *)
(***************************************************************************)
EXTENDS Integers

CONSTANTS
    LostTimeout,   \* lost_timeout_seconds
    Interval,      \* timeout_check_interval_seconds
    MaxLag,        \* longest delay of the timeout task's wake-up
    MaxDisplays,   \* bound of the model: displays connected at once
    MaxTime        \* bound of the model: length of a behaviour

ASSUME TimeAssumption ==
    /\ LostTimeout \in Nat
    /\ Interval \in Nat
    /\ MaxLag \in Nat
    /\ MaxDisplays \in Nat
    /\ MaxTime \in Nat

INSTANCE StateMachine

VARIABLES
    now,        \* time.time()
    check_due,  \* when the timeout task's sleep ends
    sm,         \* the mission's StateMachine
    handlers,   \* WebSocket handlers that have connected and not ended
    displays,   \* connections.client_count: the clients broadcast still serves
    reported    \* system_state of latest_envelope, "None" before the first packet

vars == <<now, check_due, sm, handlers, displays, reported>>

Init ==
    /\ now = 0
    /\ check_due = 0
    /\ sm = Fresh
    /\ handlers = 0
    /\ displays = 0
    /\ reported = "None"

Tick ==
    /\ now < MaxTime
    /\ now < check_due + MaxLag
    /\ now' = now + 1
    /\ UNCHANGED <<check_due, sm, handlers, displays, reported>>

\* Variant: the next check is timed after the timeout, not after the interval.
Check_Sleepy ==
    /\ now >= check_due
    /\ sm' = TimeoutChecked(sm, now)
    /\ check_due' = now + Interval + LostTimeout + 1
    /\ UNCHANGED <<now, handlers, displays, reported>>

\* One turn of _timeout_loop: check, then sleep.
Check ==
    /\ now >= check_due
    /\ sm' = TimeoutChecked(sm, now)
    /\ check_due' = now + Interval
    /\ UNCHANGED <<now, handlers, displays, reported>>

\* StateStep.apply: the packet is noted and the resulting state copied into it.
Packet ==
    /\ sm' = PacketReceived(sm, now)
    /\ reported' = sm'.state
    /\ UNCHANGED <<now, check_due, handlers, displays>>

ClientConnects ==
    /\ handlers < MaxDisplays
    /\ handlers' = handlers + 1
    /\ displays' = displays + 1
    /\ sm' = ClientConnected(sm)
    /\ UNCHANGED <<now, check_due, reported>>

\* A broadcast drops clients it could not reach; the state machine is not told,
\* their handlers still wait for the close.
Prune ==
    /\ displays' \in 0..(displays - 1)
    /\ UNCHANGED <<now, check_due, sm, handlers, reported>>

\* A handler ends: its client leaves the list unless it was pruned before, and the
\* state machine learns how many are left.
ClientLeaves ==
    /\ handlers > 0
    /\ handlers' = handlers - 1
    /\ displays' \in {displays - 1, displays} \cap 0..handlers'
    /\ sm' = ClientDisconnected(sm, displays', now)
    /\ UNCHANGED <<now, check_due, reported>>

Next == Tick \/ Check \/ Packet \/ ClientConnects \/ Prune \/ ClientLeaves

Spec == Init /\ [][Next]_vars
-----------------------------------------------------------------------------
\* The longest time between two checks.
CheckGap == Interval + MaxLag

\* The state machine's fields have their types, no noted time lies in the future, the
\* next check is at most one interval away, and the copy reported to REST clients is
\* one of the states or None.
TypeOK ==
    /\ now \in Nat
    /\ check_due \in 0..(now + Interval)
    /\ sm \in [state : States,
               last_packet_time : 0..now \cup {NoTime},
               disconnected_since : 0..now \cup {NoTime},
               client_count : Nat]
    /\ handlers \in 0..MaxDisplays
    /\ displays \in 0..MaxDisplays
    /\ reported \in States \cup {"None"}

\* NOMINAL is never stale: whatever displays do in between, the state says NOMINAL
\* at most one check later than lost_timeout_seconds after the last packet.
NominalIsFresh ==
    sm.state = "NOMINAL" =>
        /\ sm.last_packet_time # NoTime
        /\ now - sm.last_packet_time <= LostTimeout + CheckGap

\* LOST is never raised without cause, and never outlives its cause: as long as the
\* state says LOST, there has been no client or no packet for the whole timeout.
LostIsJustified ==
    sm.state = "LOST" =>
        \/ Expired(sm.disconnected_since, now)
        \/ Expired(sm.last_packet_time, now)

\* A link that everybody left and that carries no data either is seen as LOST one
\* check after the timeout, from any state; CONNECTING and NOMINAL do not survive.
DesertedIsLost ==
    /\ sm.disconnected_since # NoTime
    /\ now - sm.disconnected_since > LostTimeout + CheckGap
    /\ sm.last_packet_time = NoTime \/ now - sm.last_packet_time > CheckGap
    => sm.state = "LOST"

\* The state machine is told of arrivals and departures but not of pruning, and yet:
\* its count stays between the clients served and the handlers alive, the timer for
\* missing clients is off while anyone is served, and a link that waits for its first
\* packet with no handler left has its timer running.
TimerMeansNobody ==
    /\ displays <= sm.client_count /\ sm.client_count <= handlers
    /\ sm.disconnected_since # NoTime => displays = 0
    /\ sm.state = "CONNECTING" /\ handlers = 0 => sm.disconnected_since # NoTime

\* The README's state table: "LOST: No data or no clients for lost_timeout_seconds".
NoClientsMeansLost ==
    /\ sm.disconnected_since # NoTime
    /\ now - sm.disconnected_since > LostTimeout + CheckGap
    => sm.state = "LOST"

\* list_missions promises "all active missions with their current state".
ReportedIsCurrent ==
    reported # "None" => reported = sm.state
=============================================================================
