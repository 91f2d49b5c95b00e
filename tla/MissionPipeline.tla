--------------------------- MODULE MissionPipeline ---------------------------
(***************************************************************************)
(* One mission's path from an accepted POST to the displays and the        *)
(* archive: the adapter's bounded ingest queue, the runtime's run task     *)
(* (enrich, remember, publish) and one bounded queue and drain task per    *)
(* pipeline worker.  The tasks are asyncio coroutines on one thread, so a  *)
(* step here is what a task does between two suspensions; the run task     *)
(* does not suspend while its queue holds frames, which LoopFree says.     *)
(*                                                                         *)
(* A frame is the number of the POST that carried it.  What enrichment     *)
(* computes is left to other modules: here it succeeds or raises.          *)
(***************************************************************************)
EXTENDS Integers, Sequences, FiniteSets, Functions

CONSTANTS
    Workers,     \* the pipeline's workers (broadcast, storage)
    IngestMax,   \* ingest_queue_maxsize; 0 or less means unbounded
    WorkerMax,   \* worker_queue_maxsize; 0 or less means unbounded
    HistoryMax,  \* history_maxlen
    Stuck,       \* workers whose handle() may never return
    MaxFrames    \* bound of the model: how many POSTs are explored

ASSUME QueueAssumption ==
    /\ IngestMax \in Int
    /\ WorkerMax \in Int
    /\ HistoryMax \in Nat
    /\ MaxFrames \in Nat
    /\ Stuck \subseteq Workers

VARIABLES
    phase,     \* "new", "running", "cancelling" (between the two awaits of stop), "stopped"
    pushed,    \* POSTs answered 202; the newest frame's number
    ingest,    \* adapter._queue
    run,       \* the run task: "waiting" in get(), "processing" a burst, "dead", "cancelled"
    latest,    \* _latest, 0 standing for None
    history,   \* _history, a deque with maxlen
    wq,        \* each worker's queue
    inflight,  \* the frame each drain task holds, as a sequence of length at most 1
    out,       \* ghost: frames each worker has handled, in order
    dropped,   \* ghost: frames publish found no room for
    failed,    \* ghost: frames whose handle() raised
    idle       \* ghost: the worker's queue was empty when the current burst began

vars == <<phase, pushed, ingest, run, latest, history,
          wq, inflight, out, dropped, failed, idle>>

\* Variant: the bound admits one frame too many.
Full_OneTooMany(q, max) == max > 0 /\ Len(q) > max

\* put_nowait raises QueueFull exactly here; a maxsize of 0 or less is no limit.
Full(q, max) == max > 0 /\ Len(q) >= max

\* The run task holds the thread from its wake-up until its queue is empty.
LoopFree == run # "processing"

\* Variant: a full history refuses the newest frame instead of shedding the oldest.
Remember_KeepsOldest(h, f) == IF Len(h) >= HistoryMax THEN h ELSE Append(h, f)

\* deque.append with maxlen: the oldest element leaves.
Remember(h, f) ==
    LET longer == Append(h, f)
    IN  IF Len(longer) > HistoryMax THEN Tail(longer) ELSE longer

Init ==
    /\ phase = "new"
    /\ pushed = 0
    /\ ingest = <<>>
    /\ run = "waiting"
    /\ latest = 0
    /\ history = <<>>
    /\ wq = [w \in Workers |-> <<>>]
    /\ inflight = [w \in Workers |-> <<>>]
    /\ out = [w \in Workers |-> <<>>]
    /\ dropped = [w \in Workers |-> {}]
    /\ failed = [w \in Workers |-> {}]
    /\ idle = [w \in Workers |-> TRUE]

Start ==
    /\ phase = "new"
    /\ phase' = "running"
    /\ UNCHANGED <<pushed, ingest, run, latest, history, wq, inflight, out, dropped, failed, idle>>

\* A POST is served: the frame is queued, or dropped when the queue is full.
\* The caller is answered 202 either way.
Push ==
    /\ phase = "running"
    /\ LoopFree
    /\ pushed < MaxFrames
    /\ pushed' = pushed + 1
    /\ ingest' = IF Full(ingest, IngestMax) THEN ingest ELSE Append(ingest, pushed + 1)
    /\ UNCHANGED <<phase, run, latest, history, wq, inflight, out, dropped, failed, idle>>

\* Variant: the run task waits until every worker's queue has room.
RunWake_WaitsForRoom ==
    /\ phase = "running"
    /\ run = "waiting"
    /\ ingest # <<>>
    /\ \A w \in Workers : ~Full(wq[w], WorkerMax)
    /\ run' = "processing"
    /\ idle' = [w \in Workers |-> wq[w] = <<>>]
    /\ UNCHANGED <<phase, pushed, ingest, latest, history, wq, inflight, out, dropped, failed>>

\* The run task's get() returns; a burst begins.
RunWake ==
    /\ phase = "running"
    /\ run = "waiting"
    /\ ingest # <<>>
    /\ run' = "processing"
    /\ idle' = [w \in Workers |-> wq[w] = <<>>]
    /\ UNCHANGED <<phase, pushed, ingest, latest, history, wq, inflight, out, dropped, failed>>

\* Variant: the queue's length is compared with the frame already counted in.
Publish_CountsItself(f) ==
    /\ wq' = [w \in Workers |->
                IF Full(Append(wq[w], f), WorkerMax) THEN wq[w] ELSE Append(wq[w], f)]
    /\ dropped' = [w \in Workers |->
                IF Full(Append(wq[w], f), WorkerMax) THEN dropped[w] \cup {f} ELSE dropped[w]]

\* Variant: the first QueueFull leaves the loop over the workers.
Publish_StopsAtFull(f) ==
    /\ wq' = [w \in Workers |->
                IF \E v \in Workers : Full(wq[v], WorkerMax) THEN wq[w] ELSE Append(wq[w], f)]
    /\ dropped' = [w \in Workers |->
                IF Full(wq[w], WorkerMax) THEN dropped[w] \cup {f} ELSE dropped[w]]

\* publish: every worker is offered the frame, each on its own.
Publish(f) ==
    /\ wq' = [w \in Workers |->
                IF Full(wq[w], WorkerMax) THEN wq[w] ELSE Append(wq[w], f)]
    /\ dropped' = [w \in Workers |->
                IF Full(wq[w], WorkerMax) THEN dropped[w] \cup {f} ELSE dropped[w]]

\* Variant: _latest is set once and then kept.
RunFrame_KeepsFirst ==
    /\ run = "processing"
    /\ latest' = IF latest = 0 THEN Head(ingest) ELSE latest
    /\ history' = Remember(history, Head(ingest))
    /\ Publish(Head(ingest))
    /\ ingest' = Tail(ingest)
    /\ run' = IF Len(ingest) = 1 THEN "waiting" ELSE "processing"
    /\ UNCHANGED <<phase, pushed, inflight, out, failed, idle>>

\* One turn of the loop in _run: enrich, remember, publish, and get() again,
\* which suspends only on an empty queue.
RunFrame ==
    /\ run = "processing"
    /\ LET f == Head(ingest)
       IN  /\ latest' = f
           /\ history' = Remember(history, f)
           /\ Publish(f)
    /\ ingest' = Tail(ingest)
    /\ run' = IF Len(ingest) = 1 THEN "waiting" ELSE "processing"
    /\ UNCHANGED <<phase, pushed, inflight, out, failed, idle>>

\* An enrichment step raises: the exception is logged and ends the task.
RunRaises ==
    /\ run = "processing"
    /\ run' = "dead"
    /\ ingest' = Tail(ingest)
    /\ UNCHANGED <<phase, pushed, latest, history, wq, inflight, out, dropped, failed, idle>>

\* q.get() in a drain task: the next frame, or nothing and the task suspends.
Get(w) ==
    IF wq[w] = <<>>
    THEN /\ inflight' = [inflight EXCEPT ![w] = <<>>]
         /\ UNCHANGED wq
    ELSE /\ inflight' = [inflight EXCEPT ![w] = <<Head(wq[w])>>]
         /\ wq' = [wq EXCEPT ![w] = Tail(wq[w])]

Draining == phase \in {"running", "cancelling"} /\ LoopFree

\* Variant: one drain loop serves the workers in turn.
Take_OneAtATime(w) ==
    /\ Draining
    /\ \A v \in Workers : inflight[v] = <<>>
    /\ wq[w] # <<>>
    /\ Get(w)
    /\ UNCHANGED <<phase, pushed, ingest, run, latest, history, out, dropped, failed, idle>>

\* A drain task suspended in get() wakes up with a frame.
Take(w) ==
    /\ Draining
    /\ inflight[w] = <<>>
    /\ wq[w] # <<>>
    /\ Get(w)
    /\ UNCHANGED <<phase, pushed, ingest, run, latest, history, out, dropped, failed, idle>>

\* handle() returns; the task goes on to the next queued frame without suspending.
Handled(w) ==
    /\ Draining
    /\ inflight[w] # <<>>
    /\ out' = [out EXCEPT ![w] = Append(out[w], Head(inflight[w]))]
    /\ Get(w)
    /\ UNCHANGED <<phase, pushed, ingest, run, latest, history, dropped, failed, idle>>

\* Variant: on_error puts the frame back at the end of the queue.
Failed_Requeues(w) ==
    /\ Draining
    /\ inflight[w] # <<>>
    /\ wq' = [wq EXCEPT ![w] = Append(wq[w], Head(inflight[w]))]
    /\ inflight' = [inflight EXCEPT ![w] = <<>>]
    /\ UNCHANGED <<phase, pushed, ingest, run, latest, history, out, dropped, failed, idle>>

\* handle() raises: on_error logs, the frame is gone, the task goes on.
Failed(w) ==
    /\ Draining
    /\ inflight[w] # <<>>
    /\ failed' = [failed EXCEPT ![w] = failed[w] \cup {Head(inflight[w])}]
    /\ Get(w)
    /\ UNCHANGED <<phase, pushed, ingest, run, latest, history, out, dropped, idle>>

\* stop(), up to its gather: the run task ends; the drain tasks still live.
CancelRun ==
    /\ phase = "running"
    /\ LoopFree
    /\ phase' = "cancelling"
    /\ run' = IF run = "dead" THEN "dead" ELSE "cancelled"
    /\ UNCHANGED <<pushed, ingest, latest, history, wq, inflight, out, dropped, failed, idle>>

\* pipeline.stop(): the drain tasks are cancelled.  A handle() that was under
\* way may have taken effect already (reached) or not; queued frames stay behind.
StopPipeline ==
    /\ phase = "cancelling"
    /\ phase' = "stopped"
    /\ \E reached \in SUBSET {w \in Workers : inflight[w] # <<>>} :
          out' = [w \in Workers |-> IF w \in reached THEN out[w] \o inflight[w] ELSE out[w]]
    /\ inflight' = [w \in Workers |-> <<>>]
    /\ UNCHANGED <<pushed, ingest, run, latest, history, wq, dropped, failed, idle>>

Next ==
    \/ Start
    \/ Push
    \/ RunWake
    \/ RunFrame
    \/ RunRaises
    \/ CancelRun
    \/ StopPipeline
    \/ \E w \in Workers : Take(w) \/ Handled(w) \/ Failed(w)

Spec == Init /\ [][Next]_vars

\* The event loop runs every ready task.  A handle() that returns at all
\* eventually does, except that of a stuck worker (a display that stopped
\* reading, a database that hangs).
Fairness ==
    /\ WF_vars(RunWake)
    /\ WF_vars(RunFrame \/ RunRaises)
    /\ \A w \in Workers \ Stuck : WF_vars(Take(w)) /\ WF_vars(Handled(w) \/ Failed(w))

FairSpec == Spec /\ Fairness
-----------------------------------------------------------------------------
\* What has reached worker w's queue and was not lost after it, oldest first.
Fed(w) == out[w] \o inflight[w] \o wq[w]

\* Frames whose fate at worker w is known or pending: every frame published.
Published(w) == Range(Fed(w)) \cup dropped[w] \cup failed[w]

WithinBound(q, max) == max > 0 => Len(q) <= max

\* Every variable has its type and every queue its bound: the ingest queue, the
\* worker queues, the history and the one frame a drain task holds.
TypeOK ==
    /\ phase \in {"new", "running", "cancelling", "stopped"}
    /\ pushed \in 0..MaxFrames
    /\ ingest \in Seq(Nat) /\ WithinBound(ingest, IngestMax)
    /\ run \in {"waiting", "processing", "dead", "cancelled"}
    /\ latest \in Nat
    /\ history \in Seq(Nat) /\ Len(history) <= HistoryMax
    /\ wq \in [Workers -> Seq(Nat)]
    /\ \A w \in Workers : WithinBound(wq[w], WorkerMax)
    /\ inflight \in [Workers -> Seq(Nat)]
    /\ \A w \in Workers : Len(inflight[w]) <= 1
    /\ out \in [Workers -> Seq(Nat)]
    /\ dropped \in [Workers -> SUBSET Nat]
    /\ failed \in [Workers -> SUBSET Nat]
    /\ idle \in [Workers -> BOOLEAN]

Increasing(s) == \A i, j \in 1..Len(s) : i < j => s[i] < s[j]

\* A worker handles frames in the order they were posted and none twice, whatever
\* is dropped at its queue, fails in handle() or is cut short by stop(); what is
\* still in flight and queued comes after what it has handled, and nothing a
\* worker has is newer than latest_envelope.
InOrder ==
    \A w \in Workers :
        /\ Increasing(Fed(w))
        /\ \A f \in Range(Fed(w)) : f <= latest

\* publish() treats each worker on its own: a frame that found one queue full was
\* still offered to the others, so the workers account for the same frames, each
\* frame once.  (A frame cancelled in flight by stop() may have had no effect.)
SameFramesOffered ==
    phase # "stopped" =>
        \A v, w \in Workers :
            /\ Published(v) = Published(w)
            /\ dropped[w] \cap (failed[w] \cup Range(Fed(w))) = {}
            /\ failed[w] \cap Range(Fed(w)) = {}

\* The history a display loads at start-up and the live feed fit together: the
\* history is the unbroken tail of what was published, up to latest_envelope.
\* Frames that some worker dropped are in it.
HistoryIsTail ==
    phase # "stopped" =>
        \A w \in Workers :
            LET kept == Range(history)
                n    == Cardinality(Published(w))
            IN  /\ Increasing(history)
                /\ kept \subseteq Published(w)
                /\ Len(history) = IF n <= HistoryMax THEN n ELSE HistoryMax
                /\ \A f \in Published(w) \ kept : \A g \in kept : f < g

\* With the worker queues at least as long as the ingest queue, as the defaults
\* are, a burst fits into the queue of a worker that had caught up.
BurstFits == WorkerMax <= 0 \/ (IngestMax > 0 /\ IngestMax <= WorkerMax)

\* Frames are lost at a worker's queue only if that worker had a backlog when the
\* run task began its burst: a burst that fills the ingest queue and is published
\* without a suspension costs an idle display or archive nothing.
IdleWorkerNeverDrops ==
    [][BurstFits => \A w \in Workers : idle[w] => dropped'[w] = dropped[w]]_vars

\* A queued frame is eventually enriched and published, or the run task has ended;
\* a worker that hangs in handle() does not hold up the run task.
IngestDrains ==
    \A f \in 1..MaxFrames :
        (f \in Range(ingest)) ~> (f \notin Range(ingest) \/ run \in {"dead", "cancelled"})

\* A frame queued for a worker whose handle() returns is eventually handled or
\* fails, or the pipeline is stopped; a hanging worker does not hold up another.
ResponsiveWorkerDrains ==
    \A w \in Workers \ Stuck : \A f \in 1..MaxFrames :
        (f \in Range(inflight[w] \o wq[w]))
            ~> (f \notin Range(inflight[w] \o wq[w]) \/ phase = "stopped")

\* The README's "It accepts any JSON payload over HTTP, enriches it, broadcasts it
\* over WebSocket, and archives it": a frame in the ingest queue of a running
\* mission is eventually enriched.
AcceptedIsEnriched ==
    \A f \in 1..MaxFrames :
        (f \in Range(ingest)) ~> (latest >= f \/ phase # "running")
-----------------------------------------------------------------------------
\* What a worker has seen of the feed: the newest frame it has handled.
Newest(s) == IF s = <<>> THEN 0 ELSE s[Len(s)]

Feed == INSTANCE LossyFeed
            WITH offered <- latest, delivered <- [w \in Workers |-> Newest(out[w])]

\* The queues and tasks implement the lossy feed: what a worker shows or archives
\* moves forward only, one frame at a time or by skipping, and never runs ahead of
\* what the REST endpoints report as latest.
ImplementsFeed == Feed!Spec
=============================================================================
