--------------------------- MODULE GroundDisplays ---------------------------
(***************************************************************************)
(* The WebSocket side of one mission: a handler per display, the list of   *)
(* connected clients they share, and the broadcast worker, which sends one *)
(* frame to all of them at once.  The list may change while the sends are  *)
(* awaited; the results are then matched with the list by position.        *)
(***************************************************************************)
EXTENDS Integers, Sequences, FiniteSets, Functions

CONSTANTS
    Clients,      \* WebSocket sessions; each connects at most once
    LostTimeout

ASSUME ClientsAssumption == IsFiniteSet(Clients)

INSTANCE StateMachine

VARIABLES
    handler,    \* each session's handler: "new", "accepting", "open", "done"
    link,       \* each session's network connection: "up" or "down"
    active,     \* _active_clients
    sm,         \* the mission's StateMachine, told of arrivals and departures
    sending,    \* the broadcast worker awaits its sends
    targets,    \* the clients of the broadcast under way, in the order of the list
    result,     \* outcome of the last send to each client: "pending", "ok", "failed"
    joined,     \* ghost: a client connected since the broadcast began
    left        \* ghost: a handler ended since the broadcast began

vars == <<handler, link, active, sm, sending, targets, result, joined, left>>

Init ==
    /\ handler = [c \in Clients |-> "new"]
    /\ link = [c \in Clients |-> "up"]
    /\ active = <<>>
    /\ sm = Fresh
    /\ sending = FALSE
    /\ targets = <<>>
    /\ result = [c \in Clients |-> "ok"]
    /\ joined = FALSE
    /\ left = FALSE

\* disconnect() for each client of gone: those on the list leave it, the others stay in
\* their order; the k-th element of the result is the k-th one kept.
Kept(s, gone)    == {i \in DOMAIN s : s[i] \notin gone}
Rank(i, kept)    == Cardinality({j \in kept : j <= i})
Without(s, gone) ==
    [k \in 1..Cardinality(Kept(s, gone)) |->
        s[CHOOSE i \in Kept(s, gone) : Rank(i, Kept(s, gone)) = k]]

\* Variant: the client is put on the list before its handshake is answered.
Handshake_Registers(c) ==
    /\ handler[c] = "new"
    /\ handler' = [handler EXCEPT ![c] = "accepting"]
    /\ active' = Append(active, c)
    /\ UNCHANGED <<link, sm, sending, targets, result, joined, left>>

\* A handler begins and awaits websocket.accept().
Handshake(c) ==
    /\ handler[c] = "new"
    /\ handler' = [handler EXCEPT ![c] = "accepting"]
    /\ UNCHANGED <<link, active, sm, sending, targets, result, joined, left>>

\* Variant: the handler's try covers the handshake, and departures count down.
AcceptFails_CountsDown(c) ==
    /\ handler[c] = "accepting"
    /\ link[c] = "down"
    /\ handler' = [handler EXCEPT ![c] = "done"]
    /\ sm' = ClientDisconnected(sm, sm.client_count - 1, 0)
    /\ UNCHANGED <<link, active, sending, targets, result, joined, left>>

\* The client has gone: accept() raises and the handler ends, outside its try.
AcceptFails(c) ==
    /\ handler[c] = "accepting"
    /\ link[c] = "down"
    /\ handler' = [handler EXCEPT ![c] = "done"]
    /\ UNCHANGED <<link, active, sm, sending, targets, result, joined, left>>

\* accept() returns; the client is listed and the state machine told in one go.
Connect(c) ==
    /\ handler[c] = "accepting"
    /\ handler' = [handler EXCEPT ![c] = "open"]
    /\ active' = Append(active, c)
    /\ sm' = ClientConnected(sm)
    /\ joined' = TRUE
    /\ UNCHANGED <<link, sending, targets, result, left>>

\* The network connection ends; neither handler nor worker knows yet.
Drop(c) ==
    /\ handler[c] \in {"accepting", "open"}
    /\ link[c] = "up"
    /\ link' = [link EXCEPT ![c] = "down"]
    /\ UNCHANGED <<handler, active, sm, sending, targets, result, joined, left>>

\* Variant: the state machine is told before the client is taken off the list.
HandlerExits_CountsItself(c) ==
    /\ handler[c] = "open"
    /\ handler' = [handler EXCEPT ![c] = "done"]
    /\ link' = [link EXCEPT ![c] = "down"]
    /\ active' = Without(active, {c})
    /\ sm' = ClientDisconnected(sm, Len(active), 0)
    /\ left' = TRUE
    /\ UNCHANGED <<sending, targets, result, joined>>

\* receive_text() raises, because the connection has ended or on a message that is no text:
\* the handler's finally clause.  A connection that is still up ends with its handler.
HandlerExits(c) ==
    /\ handler[c] = "open"
    /\ handler' = [handler EXCEPT ![c] = "done"]
    /\ link' = [link EXCEPT ![c] = "down"]
    /\ active' = Without(active, {c})
    /\ sm' = ClientDisconnected(sm, Len(active'), 0)
    /\ left' = TRUE
    /\ UNCHANGED <<sending, targets, result, joined>>

\* broadcast(): a send to every client on the list; none to an empty list.
BroadcastStart ==
    /\ ~sending
    /\ active # <<>>
    /\ sending' = TRUE
    /\ targets' = active
    /\ result' = [c \in Clients |-> IF c \in Range(active) THEN "pending" ELSE result[c]]
    /\ joined' = FALSE
    /\ left' = FALSE
    /\ UNCHANGED <<handler, link, active, sm>>

\* A send returns: into a buffer, whatever the state of the connection.
SendOk(c) ==
    /\ sending
    /\ result[c] = "pending"
    /\ result' = [result EXCEPT ![c] = "ok"]
    /\ UNCHANGED <<handler, link, active, sm, sending, targets, joined, left>>

\* A send raises: the connection is down.
SendFails(c) ==
    /\ sending
    /\ result[c] = "pending"
    /\ link[c] = "down"
    /\ result' = [result EXCEPT ![c] = "failed"]
    /\ UNCHANGED <<handler, link, active, sm, sending, targets, joined, left>>

\* zip(strict=True) raises when the list is no longer as long as the results.
LengthsMatch == Len(active) = Len(targets)

\* The clients of the list at the positions where a send failed.
Unreached == {active[i] : i \in {j \in 1..Len(active) : result[targets[j]] = "failed"}}

\* Variant: zip() stops at the shorter sequence.
BroadcastEnd_Lenient ==
    /\ sending
    /\ \A c \in Clients : result[c] # "pending"
    /\ sending' = FALSE
    /\ LET n    == IF Len(active) < Len(targets) THEN Len(active) ELSE Len(targets)
           gone == {active[i] : i \in {j \in 1..n : result[targets[j]] = "failed"}}
       IN  active' = Without(active, gone)
    /\ UNCHANGED <<handler, link, sm, targets, result, joined, left>>

\* Variant: the failures are noticed and left to the handlers.
BroadcastEnd_NeverPrunes ==
    /\ sending
    /\ \A c \in Clients : result[c] # "pending"
    /\ sending' = FALSE
    /\ UNCHANGED <<handler, link, active, sm, targets, result, joined, left>>

\* All sends have ended.  Lists of equal length: failures are taken off by position.
\* Otherwise the ValueError ends handle() and nobody is.
BroadcastEnd ==
    /\ sending
    /\ \A c \in Clients : result[c] # "pending"
    /\ sending' = FALSE
    /\ active' = IF LengthsMatch THEN Without(active, Unreached) ELSE active
    /\ UNCHANGED <<handler, link, sm, targets, result, joined, left>>

Next ==
    \/ \E c \in Clients :
          \/ Handshake(c)
          \/ AcceptFails(c)
          \/ Connect(c)
          \/ Drop(c)
          \/ HandlerExits(c)
          \/ SendOk(c)
          \/ SendFails(c)
    \/ BroadcastStart
    \/ BroadcastEnd

Spec == Init /\ [][Next]_vars

\* Frames keep coming, every send ends, and a dead connection is reported to the
\* sender sooner or later.  Nothing is assumed of the handlers: a half-open
\* connection never wakes the one that waits for its messages.
Fairness ==
    /\ WF_vars(BroadcastStart)
    /\ WF_vars(BroadcastEnd)
    /\ \A c \in Clients : WF_vars(SendOk(c) \/ SendFails(c)) /\ SF_vars(SendFails(c))

FairSpec == Spec /\ Fairness
-----------------------------------------------------------------------------
Open == {c \in Clients : handler[c] = "open"}

\* The handlers, the list, the sends under way and the state machine's fields have
\* their types; the client count in particular is never negative.
TypeOK ==
    /\ handler \in [Clients -> {"new", "accepting", "open", "done"}]
    /\ link \in [Clients -> {"up", "down"}]
    /\ active \in Seq(Clients)
    /\ sm \in [state : States, last_packet_time : Int,
               disconnected_since : {NoTime, 0}, client_count : Nat]
    /\ sending \in BOOLEAN
    /\ targets \in Seq(Clients)
    /\ result \in [Clients -> {"pending", "ok", "failed"}]
    /\ joined \in BOOLEAN
    /\ left \in BOOLEAN

\* Every client on the list is there once and has a handler that will take it off:
\* no refused handshake, pruning or late departure leaves a dead entry behind.
ListedHaveHandlers ==
    /\ \A i, j \in 1..Len(active) : active[i] = active[j] => i = j
    /\ Range(active) \subseteq Open

Pruned == Range(active) \ Range(active')
Failed == {c \in Range(active) : result[c] = "failed"}

\* Unless the list changes while the sends are awaited, a broadcast takes off exactly the
\* clients its own send failed for; and it takes off no other client unless one came and
\* one went, a change in one direction only making the lengths differ and sparing everybody.
PruneIsExactWithoutChurn ==
    [][sending /\ ~sending' =>
            /\ ~joined /\ ~left => Pruned = Failed
            /\ ~(joined /\ left) => Pruned \subseteq Failed]_vars

\* As long as frames are broadcast, a dead client does not stay on the list, even
\* when its handler never notices and churn spoils some of the broadcasts.
DeadArePruned ==
    \A c \in Clients :
        (c \in Range(active) /\ link[c] = "down") ~> c \notin Range(active)

\* The module's first line: "WebSocket fan-out to ground displays (isolated failures
\* per client)".  A display with an open handler and a live connection is served.
HealthyAreServed ==
    \A c \in Open : link[c] = "up" => c \in Range(active)
-----------------------------------------------------------------------------
Link == INSTANCE LinkMonitor
            WITH now <- 0, check_due <- 0, reported <- "None",
                 handlers <- Cardinality(Open), displays <- Len(active),
                 Interval <- 0, MaxLag <- 0, MaxTime <- 0,
                 MaxDisplays <- Cardinality(Clients)

\* What the handlers and broadcasts do to the list and the state machine is what the
\* link monitor assumes of arrivals, pruning and departures.
ImplementsLink == Link!Spec
=============================================================================
