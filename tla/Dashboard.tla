------------------------------ MODULE Dashboard ------------------------------
(***************************************************************************)
(* A page of the dashboard on one mission: it reads the list of channels   *)
(* once, keeps a WebSocket that reconnects, and for every channel that is  *)
(* viewed subscribes to the live feed and asks for the past.  The answer   *)
(* comes from the runtime's memory, or from an archive that lags behind    *)
(* and returns so many rows at most.  The server may take the page off its *)
(* list while the connection stays up, and one display that stops reading  *)
(* holds up the frames of all.  Frames are numbered as they are enriched;  *)
(* their times come from the POSTs and need not follow.  Open MCT, which   *)
(* calls subscribe and request in one go, is external.                     *)
(***************************************************************************)
EXTENDS Integers, Sequences, FiniteSets, Functions

CONSTANTS
    Channels,      \* names of numeric fields
    Kinds,         \* frames: numeric fields, epoch_ms, and whether JSON has all their values
    Ranges,        \* ranges of time that views ask for, by the page's clock
    HistoryMax,    \* history_maxlen
    WorkerMax,     \* worker_queue_maxsize, above 0
    QueryMax,      \* the rows query_range returns at most
    MaxFrames      \* bound of the model: frames published

ASSUME DashboardAssumption ==
    /\ Kinds \subseteq [channels : SUBSET Channels, epoch_ms : Int, readable : BOOLEAN]
    /\ Ranges \subseteq [start : Int, end : Int] /\ Ranges # {}
    /\ HistoryMax \in Nat /\ WorkerMax \in Nat \ {0} /\ QueryMax \in Nat \ {0}
    /\ MaxFrames \in Nat

VARIABLES
    has_store,   \* the mission has an archive, whose column holds its id whole
    frames,      \* the frames enriched so far
    bq,          \* frames in the queue of the broadcast worker
    sq,          \* frames that storage has yet to insert or give up
    sending,     \* the broadcast worker awaits its sends
    stuck,       \* one of them, to another display, will never end
    stored,      \* the frames in the archive
    socket,      \* the page's connection: "closed" or "open", which is on the server's list
    listed,      \* the connection is on the server's list
    wire,        \* frames sent on it and not handled by the page
    channels,    \* the page's channels; none before the schema is loaded
    ready,       \* the schema is loaded, or the attempt has failed
    view,        \* each channel's view: "closed", "asked", "answered", "shown"
    span,        \* the range of time each view has asked for
    asked,       \* ghost: the last frame there was when the view was opened
    answer,      \* the frames of the answer on its way to each view
    shown,       \* the frames each view shows
    newest,      \* latestFullPacket, 0 standing for null
    dropped,     \* ghost: frames that found no room in the broadcast queue
    missing,     \* ghost: what history had lost or not got when it answered
    steady       \* ghost: the connection has been up and listed since before the view was

server == <<frames, bq, sq, sending, stuck, stored, dropped>>
page   == <<socket, listed, wire, channels, ready, newest>>
views  == <<view, span, asked, answer, shown, missing, steady>>
vars   == <<has_store, server, page, views>>

Init ==
    /\ has_store \in BOOLEAN
    /\ frames = <<>> /\ bq = <<>> /\ sq = <<>> /\ sending = FALSE /\ stuck = FALSE
    /\ stored = {} /\ dropped = {}
    /\ socket = "closed" /\ listed = FALSE /\ wire = <<>> /\ newest = 0
    /\ channels = {} /\ ready = FALSE
    /\ view = [c \in Channels |-> "closed"]
    /\ span = [c \in Channels |-> CHOOSE r \in Ranges : TRUE]
    /\ asked = [c \in Channels |-> 0]
    /\ answer = [c \in Channels |-> {}]
    /\ shown = [c \in Channels |-> {}]
    /\ missing = [c \in Channels |-> {}]
    /\ steady = [c \in Channels |-> FALSE]

\* A frame is enriched, remembered and offered to the workers.
Publish(f) ==
    /\ Len(frames) < MaxFrames
    /\ frames' = Append(frames, f)
    /\ LET n == Len(frames) + 1
       IN  /\ IF Len(bq) < WorkerMax
              THEN bq' = Append(bq, n) /\ UNCHANGED dropped
              ELSE dropped' = dropped \cup {n} /\ UNCHANGED bq
           /\ sq' = IF has_store THEN Append(sq, n) ELSE sq
    /\ UNCHANGED <<has_store, sending, stuck, stored, page, views>>

\* The broadcast worker sends a frame to every connection on the list.
BroadcastBegins ==
    /\ ~sending
    /\ bq # <<>>
    /\ sending' = TRUE
    /\ bq' = Tail(bq)
    /\ wire' = IF listed THEN Append(wire, Head(bq)) ELSE wire
    /\ UNCHANGED <<has_store, frames, sq, stuck, stored, dropped, socket, listed,
                   channels, ready, newest, views>>

\* Another display stops reading: the send to it, and the gather over all, never end.
Hang ==
    /\ sending
    /\ ~stuck
    /\ stuck' = TRUE
    /\ UNCHANGED <<has_store, frames, bq, sq, sending, stored, dropped, page, views>>

\* All sends have ended.  Matching the results by position may take a page off the list
\* whose connection is up; it stays off until it connects again.
BroadcastEnds(kept) ==
    /\ sending
    /\ ~stuck
    /\ sending' = FALSE
    /\ listed' = (listed /\ kept)
    /\ steady' = [c \in Channels |-> steady[c] /\ kept]
    /\ UNCHANGED <<has_store, frames, bq, sq, stuck, stored, dropped, socket, wire,
                   channels, ready, newest, view, span, asked, answer, shown, missing>>

\* Storage inserts a frame, or does not and never will: its queue had no room, the insert
\* failed, as it does for a value that JSON does not have.  Until it is in the archive a frame
\* that waits and one that is lost look the same from here.
Store(ok) ==
    /\ sq # <<>>
    /\ ok => frames[Head(sq)].readable
    /\ sq' = Tail(sq)
    /\ stored' = IF ok THEN stored \cup {Head(sq)} ELSE stored
    /\ UNCHANGED <<has_store, frames, bq, sending, stuck, dropped, page, views>>

\* Variant: a new connection is sent the latest envelope.
Connect_Replays ==
    /\ socket = "closed"
    /\ socket' = "open"
    /\ listed' = TRUE
    /\ wire' = IF frames = <<>> THEN <<>> ELSE <<Len(frames)>>
    /\ UNCHANGED <<has_store, server, channels, ready, newest, views>>

\* connect(), at the start of the page and 1200 ms after every onclose, up to the moment
\* the server has listed the connection.
Connect ==
    /\ socket = "closed"
    /\ socket' = "open"
    /\ listed' = TRUE
    /\ UNCHANGED <<has_store, server, wire, channels, ready, newest, views>>

\* The connection breaks with everything that was on its way.
Break ==
    /\ socket = "open"
    /\ socket' = "closed"
    /\ listed' = FALSE
    /\ wire' = <<>>
    /\ steady' = [c \in Channels |-> FALSE]
    /\ UNCHANGED <<has_store, server, channels, ready, newest, view, span, asked, answer, shown,
                   missing>>

\* bootstrap(): the numeric fields of the latest envelope are the page's channels for
\* good; a failed fetch leaves none.
LoadSchema(ok) ==
    /\ ~ready
    /\ ready' = TRUE
    /\ channels' = IF ok /\ frames # <<>> THEN frames[Len(frames)].channels ELSE {}
    /\ UNCHANGED <<has_store, server, socket, listed, wire, newest, views>>

\* Variant: a view may be of any channel.
Supported_All(c) == ready

\* supportsSubscribe and supportsRequest, once the plugins are installed.
Supported(c) == ready /\ c \in channels

\* A view subscribes and asks for a range of time.
OpenView(c, r) ==
    /\ Supported(c)
    /\ view[c] = "closed"
    /\ view' = [view EXCEPT ![c] = "asked"]
    /\ span' = [span EXCEPT ![c] = r]
    /\ asked' = [asked EXCEPT ![c] = Len(frames)]
    /\ steady' = [steady EXCEPT ![c] = listed]
    /\ UNCHANGED <<has_store, server, page, answer, shown, missing>>

\* Variant: the callback is registered by the answer.
Subscribed_ByAnswer(c) == view[c] = "shown"

Subscribed(c) == view[c] # "closed"

\* Variant: a message is handled when the next one comes.
Received_Pairs(w) == Len(w) > 1

\* onmessage is called for every message.
Received(w) == w # <<>>

\* onmessage and publish(): the frame goes to the subscribers of its known channels.
Deliver ==
    /\ Received(wire)
    /\ frames[Head(wire)].readable
    /\ wire' = Tail(wire)
    /\ newest' = Head(wire)
    /\ shown' = [c \in Channels |->
                    IF Subscribed(c) /\ c \in channels /\ c \in frames[Head(wire)].channels
                    THEN shown[c] \cup {Head(wire)} ELSE shown[c]]
    /\ UNCHANGED <<has_store, server, socket, listed, channels, ready, view, span, asked,
                   answer, missing, steady>>

\* onmessage, when JSON.parse fails.
Discard ==
    /\ Received(wire)
    /\ ~frames[Head(wire)].readable
    /\ wire' = Tail(wire)
    /\ UNCHANGED <<has_store, server, socket, listed, channels, ready, newest, views>>

\* What _history reads from: the last frames in memory, or the archive if there is one.
History == IF has_store THEN stored
           ELSE {n \in 1..Len(frames) : n > Len(frames) - HistoryMax}

Within(n, r) == r.start <= frames[n].epoch_ms /\ frames[n].epoch_ms <= r.end

\* ORDER BY event_time_ms ASC LIMIT: A is what query_range may return of the rows R.
Returned(A, R) ==
    /\ A = R \/ Cardinality(A) = QueryMax
    /\ Cardinality(A) <= QueryMax
    /\ \A n \in A, k \in R \ A : frames[n].epoch_ms <= frames[k].epoch_ms

\* The server evaluates a view's request; only the archive has a limit.  The page takes the
\* rows in which it finds a number for the channel.  A value that JSON does not have may have
\* become null.
Answer(c) ==
    /\ view[c] = "asked"
    /\ view' = [view EXCEPT ![c] = "answered"]
    /\ LET R == {n \in History : Within(n, span[c])}
       IN  \E A \in SUBSET R :
              /\ IF has_store THEN Returned(A, R) ELSE A = R
              /\ \E nulls \in SUBSET {n \in A : ~frames[n].readable} :
                    answer' = [answer EXCEPT ![c] = {n \in A \ nulls : c \in frames[n].channels}]
    /\ missing' = [missing EXCEPT ![c] = (1..asked[c]) \ History]
    /\ UNCHANGED <<has_store, server, page, span, asked, shown, steady>>

\* The request fails: an error status is read as an empty answer.
AnswerFails(c) ==
    /\ view[c] = "asked"
    /\ view' = [view EXCEPT ![c] = "answered"]
    /\ answer' = [answer EXCEPT ![c] = {}]
    /\ missing' = [missing EXCEPT ![c] = 1..asked[c]]
    /\ UNCHANGED <<has_store, server, page, span, asked, shown, steady>>

\* The answer arrives.
ShowHistory(c) ==
    /\ view[c] = "answered"
    /\ view' = [view EXCEPT ![c] = "shown"]
    /\ shown' = [shown EXCEPT ![c] = @ \cup answer[c]]
    /\ answer' = [answer EXCEPT ![c] = {}]
    /\ UNCHANGED <<has_store, server, page, span, asked, missing, steady>>

Next ==
    \/ \E f \in Kinds : Publish(f)
    \/ BroadcastBegins
    \/ Hang
    \/ \E b \in BOOLEAN : BroadcastEnds(b) \/ Store(b) \/ LoadSchema(b)
    \/ Connect
    \/ Break
    \/ Deliver
    \/ Discard
    \/ \E c \in Channels :
          \/ \E r \in Ranges : OpenView(c, r)
          \/ Answer(c)
          \/ AnswerFails(c)
          \/ ShowHistory(c)

Spec == Init /\ [][Next]_vars

\* The broadcast worker never rests while its queue holds frames, its sends end unless a
\* display hangs, and what is sent on a connection that stays up arrives.  Nothing is
\* assumed of requests, reconnections or the archive.
FairSpec ==
    /\ Spec
    /\ WF_vars(BroadcastBegins)
    /\ WF_vars(\E kept \in BOOLEAN : BroadcastEnds(kept))
    /\ WF_vars(Deliver)
    /\ WF_vars(Discard)
-----------------------------------------------------------------------------
Numbers == 1..Len(frames)

\* Frames, queues and the page's records have their types; an open view is one of a
\* channel the page knows.
TypeOK ==
    /\ has_store \in BOOLEAN
    /\ frames \in Seq(Kinds)
    /\ bq \in Seq(Numbers) /\ sq \in Seq(Numbers) /\ wire \in Seq(Numbers)
    /\ Len(bq) <= WorkerMax
    /\ sending \in BOOLEAN /\ stuck \in BOOLEAN
    /\ stored \subseteq Numbers /\ dropped \subseteq Numbers
    /\ socket \in {"closed", "open"} /\ listed \in BOOLEAN
    /\ channels \subseteq Channels
    /\ ready \in BOOLEAN
    /\ view \in [Channels -> {"closed", "asked", "answered", "shown"}]
    /\ span \in [Channels -> Ranges]
    /\ asked \in [Channels -> 0..Len(frames)]
    /\ answer \in [Channels -> SUBSET Numbers]
    /\ shown \in [Channels -> SUBSET Numbers]
    /\ missing \in [Channels -> SUBSET Numbers]
    /\ newest \in 0..Len(frames)
    /\ steady \in [Channels -> BOOLEAN]
    /\ \A c \in Channels : view[c] # "closed" => c \in channels

\* The archive has QueryMax other frames of the range that are no younger.
BeyondLimit(n, r) ==
    has_store /\ Cardinality({k \in stored \ {n} :
                                 Within(k, r) /\ frames[k].epoch_ms <= frames[n].epoch_ms}) >= QueryMax

\* A frame a view need not show: one that JSON does not carry; of those there were when it
\* was opened, one outside the range it asked for, one that history did not hold when it
\* answered, or one that the limit of a query cuts; of the later ones, one for which the
\* broadcast queue had no room.
Excused(c, n) ==
    \/ ~frames[n].readable
    \/ n <= asked[c] /\ (n \in missing[c] \/ ~Within(n, span[c]) \/ BeyondLimit(n, span[c]))
    \/ n > asked[c] /\ n \in dropped

\* History and live feed leave no other gap between them: however publishing, inserting,
\* asking, answering and delivering interleave, a view whose connection has been up and listed
\* since it was opened shows every frame with its channel that is not excused, or will when
\* queue and connection are drained.
NoGap ==
    \A c \in Channels : view[c] = "shown" /\ steady[c] =>
        \A n \in Numbers : c \in frames[n].channels =>
            n \in shown[c] \cup Range(bq) \cup Range(wire) \/ Excused(c, n)

\* While its connection holds and no display hangs, a view does catch up: it comes to show
\* every frame with its channel that is not excused.
CatchesUp ==
    \A c \in Channels, n \in 1..MaxFrames :
        (view[c] = "shown" /\ steady[c] /\ n \in Numbers /\ c \in frames[n].channels)
            ~> \/ n \in Numbers /\ (n \in shown[c] \/ Excused(c, n))
               \/ ~steady[c]
               \/ stuck

\* The live feed of a page, reconnections included, is the lossy feed that the pipeline
\* promises its consumers: no frame handled twice, none after a newer one.
Feed == INSTANCE LossyFeed
            WITH Workers <- {"page"}, offered <- Len(frames), delivered <- [w \in {"page"} |-> newest]

ImplementsFeed == Feed!Spec
=============================================================================
