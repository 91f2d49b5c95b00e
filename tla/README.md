# OpenGround in TLA+

Formal models of OpenGround, a ground station server: missions receive telemetry over HTTP,
enrich it, broadcast it to displays over WebSocket and archive it. The modules are translated
from the Python source (`src/openground`), model-checked with TLC on small instances, and
proved with TLAPS where a result should hold for every configuration.

## 1. The system

| component | source | state | operations |
|---|---|---|---|
| HTTP ingest adapter | `adapters/http_ingest.py` | bounded queue of frames, last sequence number | `push_json`, `push_normalized`, `stream().get` |
| Mission runtime | `mission/runtime.py` | run task, timeout task, `_latest`, `_history` (deque with maxlen) | `start`, `stop`, `_run`, `_timeout_loop`, `history_envelopes` |
| Pipeline and workers | `pipeline/pipeline.py`, `workers.py` | one bounded queue and one drain task per worker | `publish`, `_drain`, `start`, `stop` |
| Link state machine | `services/state_machine.py`, `steps/state.py` | state, time of last packet, time the last client left, client count | `on_client_connected`, `on_client_disconnected`, `on_packet_received`, `check_timeouts` |
| Display connections | `services/connection.py`, `routers/websocket.py` | list of connected clients; a handler per session | `connect`, `disconnect`, `broadcast` |
| Loss tracking | `services/sequence.py`, `steps/sequence.py` | expected number, lost and received counts | `observe` |
| Enricher and steps | `pipeline/enricher.py`, `steps/*` | none (limits read from the mission file) | `enrich`: steps in a fixed order, each writes envelope keys |
| Stores and history queries | `store/*`, `routers/openmct_api.py` | rows per mission; a connection pool | `connect`, `insert_from_enriched`, `query_range`, `close` |
| Lifespan and registry | `application.py`, `mission/registry.py` | stores by DSN, registered missions | start-up, shutdown, `get` |
| Ingest API | `routers/ingest.py`, `envelope_adapter.py`, `ccsds.py` | none | order of checks, statuses, what reaches the adapter |
| Configuration | `mission/config.py`, `mission/loader.py`, `config.py` | immutable values | missions file, default mission, database and limits of a mission |
| Health and status API | `routers/health.py` | none | reads the runtime |
| Dashboard | `static/app.js` | channels, views, a WebSocket that reconnects | start-up, reconnect loop, subscription and history request per view |
| SDK contracts | `sdk/*` | none | abstract classes |

**Interaction.** All of it runs on one asyncio event loop. A POST puts a frame on the adapter's
queue with `put_nowait` and is answered 202, whether or not there was room. The run task takes
frames off that queue, enriches each (the steps are coroutines that never suspend; `StateStep`
tells the state machine of the packet, `SequenceStep` the sequence monitor), stores it as
`_latest` and in `_history`, and `publish`es it: `put_nowait` on each worker's queue, a full
queue dropping the frame for that worker only. A drain task per worker awaits `handle()`: the
broadcast worker sends to all clients with `gather`, the storage worker inserts a row. The
WebSocket handlers add and remove clients and tell the state machine; the timeout task checks
the state machine's clocks. REST endpoints read `_latest` and `_history`.

**What is hard.** `get()` on a non-empty asyncio queue does not suspend, so the run task holds
the thread for a whole burst and the drain tasks cannot keep up with it. The drain tasks
suspend in `handle()`, for as long as the slowest display or the database takes. The client
list changes while a broadcast awaits its sends. A raising enrichment step ends the run task.
`stop()` cancels first the run task, then the drain tasks, with frames queued and in flight.
Two timers share one state field. The loss count is inferred from a cyclic counter across
drops, refusals, repeated POSTs and packets out of order. A payload's fields share one dictionary
with what the steps write. A display joins the live feed and loads the past separately, and the
archive lags behind the feed. Missions that share a database share its limits. `PROJECT.json` lists these hazards at their lines.

**What makes each component correct.**

- *Adapter, runtime, pipeline:* queues keep their bounds; each worker handles frames in order
  and at most once; a full, failing or hanging worker affects no other; history joins up with
  what is published; an idle worker loses nothing to a burst; queued frames are processed.
- *Link state:* NOMINAL is not stale, LOST is justified and reached in time, the timer for
  missing clients runs only when nobody is served.
- *Displays:* every listed client has a handler; a broadcast takes off the clients whose send
  failed and no others; dead clients are pruned; healthy ones are served.
- *Loss tracking:* never more than the truth, but for overtaking packets; exact for short gaps in order.
- *Ingest and enrichment:* only accepted POSTs leave a trace; keys written by steps win over payload
  fields, the other fields pass through, numbers as doubles; limit verdicts agree with the file; two
  kinds of payload only end a run task.
- *Configuration:* a malformed mission costs only itself.
- *Archive:* a history answer is the mission's own, complete up to the limit, and cut at the new end.
- *Dashboard:* history and live feed leave no gap but the ones that range, limit and full queues
  explain; the feed is in order across reconnections.
- *Lifespan:* a store is opened once per DSN and closed once, after the missions that use it.

## 2. The modules

| module | models | how it relates to the code |
|---|---|---|
| `LossyFeed` | abstract promise of the fan-out | no queues, no tasks: frames are offered, each consumer moves forward among the offered ones |
| `MissionPipeline` | adapter queue, run task, history, worker queues, drain tasks, start and stop | one action per stretch between two suspensions |
| `MCPipeline` | instance | two workers, `broadcast` and `storage` |
| `StateMachine` | the link state machine | its methods as functions on a record; shared by the next two |
| `LinkMonitor` | link state over time | packets, timeout task, arrivals, pruning, departures, a clock |
| `GroundDisplays` | handlers, client list, broadcast with its await | detailed; implements the display side of `LinkMonitor` |
| `MCDisplays` | instance | three sessions |
| `SequenceTracking` | numbering, queue drops, `SequenceMonitor` | two sources of numbers, real losses kept as ghosts |
| `Lifespan` | start-up loop, shared stores, registry, start and stop of all missions | one action per stretch of `lifespan` and of each mission's `stop()` |
| `MCLifespan` | instance | four missions files |
| `Configuration` | missions file and environment to mission configurations | functions; used by the next three |
| `Enrichment` | normalisation, split of fields, the five steps, limits, rows | functions from a POST's fields to an envelope |
| `IngestApi` | the three ingest routes | functions: checks in order, statuses, frames |
| `Archive` | range queries of the deque and of the shared table | functions; a query gives the set of answers it may give |
| `Station` | the service end to end, composed of the four above | `Boot`, `Post`, `Enrich`, `EnrichRaises`, `Store` |
| `MCStation` | instance | nine missions files, two of 123 POSTs |
| `Dashboard` | a page: schema, WebSocket, subscription and history of its views | one action per message or callback; implements `LossyFeed` |
| `MCDashboard` | instance | one channel, two kinds of frames, two ranges |
| `MissionPipelineProofs`, `MissionHistoryProofs` | theorems about `MissionPipeline` | |
| `LinkMonitorProofs`, `GroundDisplaysProofs`, `SequenceTrackingProofs`, `LifespanProofs`, `StationProofs`, `DashboardProofs` | theorems about the module of that name | |

**MissionPipeline.** A frame is the number of the POST that carried it. `Push` is the adapter's
`put_nowait` (a full queue drops the frame; the POST is answered all the same). `RunWake` is the
return of `stream().get()` from a suspension, `RunFrame` one turn of the loop in `_run`: enrich,
`_latest`, `_history`, publish and the next `get()`; until the queue is empty no other task runs
(`LoopFree`). `RunRaises` is the turn in which a step raises: the exception leaves the loop and
the task ends. `Take`, `Handled`, `Failed` are the drain task: it wakes up with a frame, its
`handle()` returns, or raises and `on_error` logs it; in both cases the loop goes on to the next
queued frame without suspending (`Get`). `CancelRun` and `StopPipeline` are the two halves of
`stop()`, between which the drain tasks still run. A `handle()` under way when its task is
cancelled may have taken effect or not (an insert whose COMMIT was sent): both are explored. `out`, `dropped`, `failed` and `idle` are ghosts.

**StateMachine, LinkMonitor.** The record has the code's four fields. `Check` is one turn of
`_timeout_loop`, which sleeps `Interval` and is woken at most `MaxLag` late. `reported` is the
copy of the state in the last envelope, which is what the status endpoints show. `handlers`
counts WebSocket handlers that are alive, `displays` the clients still on the list: `Prune`, a
broadcast taking off clients it could not reach, changes the second and tells nobody.

**GroundDisplays.** A session goes through `Handshake` (awaiting `accept()`), `Connect` or
`AcceptFails`, and `HandlerExits`. `BroadcastStart` snapshots the list, the sends end one by one
(`SendOk`, `SendFails`), `BroadcastEnd` pairs the results by position with the list as it is by
then, as `zip(..., strict=True)` does: different lengths raise, equal lengths pair whatever
is there. A handler may end with the connection still up (`receive_text` raises on a binary
message). `PruneIsExactWithoutChurn` has two parts: a broadcast during which nobody came or left
takes off exactly the clients whose send failed; one during which only the one or only the other
happened takes off no other client, possibly none at all. `ImplementsLink` refines `LinkMonitor` with the clock stopped.

**SequenceTracking.** JSON POSTs draw numbers from the adapter, packets from the spacecraft;
numbers are lost on the way (`LostOnTheWay`), used up by a refused POST (`Refused`), dropped at
the full queue (`Arrive`), sent twice (`Repeated`, whether the original is still queued or has been
processed) or swapped with the packet behind (`Overtakes`). A POST refused after it drew a number
counts as a real loss here: nothing in the repository says whether it should be reported as one. `Observe` is `SequenceMonitor.observe`.

**Lifespan.** `LoadKnown`, `Connect`, `Connected` and `ConnectFails` are the start-up loop, which
suspends only to connect a store that `_stores` does not have yet; `Register` raises on an id that
is taken. `Start` and `Serve` are `start_all`. On shutdown `Halt`, `CancelDrains` and `Stopped` are
the parts of each mission's `stop()`, all missions interleaved; `AllStopped`, `CloseStore`,
`CloseRaises` and `Down` close the stores in order. `InsertBegins` and `InsertEnds` are a storage
worker's insert, `InsertUnwinds` its end after a cancellation. A start-up that aborts leaves the
stores it had opened, as the code does; nothing promises otherwise.

**Station** follows data where `MissionPipeline` follows tasks. A missions file is a sequence of
entries with the values they set and the kind of fault they have; `Boot` is `create_app` and
start-up: malformed entries are skipped, a value where a table belongs, a negative history length
or an id used twice ends it. A `Post` runs the checks of its route in the code's order (`Checks`),
then builds the frame and queues or drops it; the frame's number is drawn even if building it
raises. `Enrich` is a turn of the run task, `EnrichRaises` one whose steps raise, `Store` an insert,
refused by Postgres when the time does not fit a `BIGINT` or JSONB would hold a NaN, an infinity or
a text with U+0000. A JSON value is a type and a content; values a step writes are marked `Own`, so
that a property can tell them from what the payload brought under the same key. Conversions are
functions given by constants: `Float` is `float()`, which rounds the numbers that no double holds and
has no value for those beyond all doubles (the POST is answered 500, `PushRaises`); `Infinity` stands for
the infinite number that JSON text such as `1e999` becomes; `n` stands for `n / Parts`, so that `int()` has
fractions to drop (`Truncated`); `Cut` is the slice of names to the width of their column. The theorems hold
for every choice of these that `StationAssumption` allows. `History`, `Schema` and `Status` are the endpoints'
answers in a state. The suspensions inside a run task or a drain task are `MissionPipeline`'s and not
repeated here.

**Dashboard.** Frames are numbered in the order of enrichment; a frame has the channels in it, the
time its POST gave it, which need not follow that order nor the page's clock, and is readable unless
it has a value, such as NaN, that `JSON.parse` refuses. The server side keeps what the page can
observe of `MissionPipeline` and `GroundDisplays`. `Publish` offers a frame to two workers. `BroadcastBegins`
puts it on the wire of a page on the list; `BroadcastEnds(kept)` is the end of the gather, which may take
the page off the list though its connection is up (`kept` FALSE; `listed` becomes FALSE and stays so until
the page connects again); `Hang` is another display that stops reading, after which the broadcast worker
never ends its `handle()`. `Store` is an insert, or one that fails. The page loads the schema once
(`LoadSchema`), connects and reconnects (`Connect`, `Break`), handles a message (`Deliver`) or gives up on one it
cannot parse (`Discard`), and each view subscribes and asks for a range of time in one go (`OpenView`, what Open MCT
does when a plot opens). The answer is evaluated at some later moment (`Answer`), from the deque or from
the archive, which returns the oldest `QueryMax` rows of the range (`Returned`); it arrives later still
(`ShowHistory`) or fails (`AnswerFails`).

`NoGap` and `CatchesUp` say what is left to promise. A view whose connection has been up *and listed* since it
was opened (`steady`) shows every frame of its channel that is not `Excused`: one that JSON does not carry; of the
frames there were when it was opened, one outside the range it asked for, one that history did not hold when it
answered (`missing`) or one that the limit cuts (`BeyondLimit`); of the later ones, one for which the
broadcast queue had no room. An archive with more rows in the range than the limit therefore does leave a gap
between past and live feed, and so does a page that is taken off the list; the properties say so instead of
hiding it.

## 3. Runs

| run | expected | shows |
|---|---|---|
| `pipeline` | pass | `InOrder`, `SameFramesOffered`, `HistoryIsTail`, `IdleWorkerNeverDrops`, the two drain properties, and the refinement `ImplementsFeed` |
| `pipeline_poison` | violation | `AcceptedIsEnriched`: a raising step ends the run task, POSTs are accepted and never enriched |
| `link` | pass | `NominalIsFresh`, `LostIsJustified`, `DesertedIsLost`, `TimerMeansNobody` |
| `link_reported` | violation | `ReportedIsCurrent`: REST keeps reporting NOMINAL while the link is LOST |
| `link_no_clients` | violation | `NoClientsMeansLost`: with data and no clients every packet sets NOMINAL again |
| `displays` | pass | `ListedHaveHandlers`, `PruneIsExactWithoutChurn`, `DeadArePruned`, `ImplementsLink` |
| `displays_isolation` | violation | `HealthyAreServed`: a departure and an arrival during one broadcast charge a failure to a healthy display |
| `sequence` | pass | `NeverOvercounts` (at most two too many per packet that overtakes another), `CountsExactly` |
| `sequence_mixed` | violation | `NoFalseLoss`: JSON frames and packets in one mission |
| `lifespan` | pass | `InsertsHavePool`, `PoolsAreShared`, `ServesAllMissions`, `ShutdownEnds` |
| `station` | pass | `MalformedCostOnlyThemselves`, `HoldsOnlyAccepted`, `ReservedKeysAreTheStations`, `PayloadPassesThrough`, `VerdictsMatchLimits`, `OnlyPoisonKills`, `ReportsTellTheirOrigin`, `HistoryAnswersAreRight` |
| `dashboard` | pass | `NoGap`, `CatchesUp`, and the refinement `ImplementsFeed` |

The expected violations are disagreements between the code and a sentence of its README or a
docstring; `PROJECT.json` quotes both sides under `findings`.

**Bounds.** *Pipeline:* two workers (the code's), queues of 2, history of 2, 4 POSTs. Four frames
fill the ingest queue twice, overflow each worker queue behind a frame in flight and shed two
frames from the history; equal maxima satisfy `BurstFits`, so `IdleWorkerNeverDrops` is not vacuous. One
worker may hang, the other may not. *Link:* timeout 2, interval 1, lag 1 and ten units of time:
two full timeouts plus the gap of a check; two displays tell the last departure from another.
*Displays:* three sessions: one whose send fails, one that leaves, one that joins; a session
connects once (a reconnecting display is a new session). *Sequence:* numbers modulo 8, so
`HALF` is 3, below half of the space as 8191 is below half of 16384; ten numbers wrap around and
contain runs of losses beyond `HALF`. *Lifespan:* four missions files: two missions on one
database and one on another, a mission without a database between two that share one, an id used
twice, and a single mission without a store. *Station:* nine missions files (shared database with
different limits, malformed entries of every kind, none left, an empty file, an entry with the id
`default`, ids that the archive's column cuts, with and without a mission they are cut to, and the three ways
start-up ends; one mission declares limits for `epoch_ms`) and any two of 123 POSTs that vary one thing at
a time from an accepted one: every payload key the steps or the normalisation look at with every JSON type,
values around each limit, numbers that doubles round (18 and 19 become 20), that `float()` refuses (23) and
that are infinite (24), times at both ends, bodies and content types of every route, credentials,
missions. Two POSTs let one overflow the queue of 1, follow a poisoned one, meet another row of the shared
table or exceed a limit of 1. Numbers are halves; the clock stands at 3, a `BIGINT` goes from -2 to 4 and `gmtime` from
-4 to 6, so that times beyond each exist. *Dashboard:* one channel (channels do not interact: each view has its
own state), three frames of a readable and an unreadable kind with different times, two ranges, queue, history and
row limit of 1; connections break and pages are taken off any number of times. Three frames shed one from the
history, exceed the limit and overflow the queue behind a frame in flight.

**Fairness.** The event loop runs ready tasks in turn, so a run task with frames and a
drain task of a responsive worker take their steps: weak fairness on `RunWake`, on
`RunFrame \/ RunRaises` and, for workers outside `Stuck`, on `Take` and `Handled \/ Failed`. Nothing
is assumed of a stuck worker, of POSTs or of `stop()`. In `GroundDisplays` frames keep coming and
every send ends; a dead TCP connection is eventually reported to the sender (strong fairness on
`SendFails`, enabled again with each broadcast, since a first send into a dead connection may still
be buffered and succeed). Nothing is assumed of the handlers: a half-open connection
never wakes its `receive`. In `Lifespan` the shutdown goes on and a cancelled insert ends; an insert
that is not cancelled may take for ever. In `Dashboard` the broadcast worker takes its next frame,
its sends end as long as no display hangs (`BroadcastEnds` is disabled once `stuck`), and what is sent on a
connection that holds is handled by the page: weak fairness on `BroadcastBegins`, on `BroadcastEnds`, whichever way it
goes, and on `Deliver` and `Discard`, none on requests, inserts or reconnection. `CatchesUp` exempts a hanging
display, with which nothing is delivered to anybody. `LinkMonitor`,
`SequenceTracking` and `Station` have safety properties only; the
timeout task's punctuality is in the guard of `Tick`.

**Clock.** `time.time()` is assumed not to go back or jump. The code uses the wall clock: a jump
forward makes both timers expire at once, a jump back keeps them from expiring for its length.

## 4. Proofs

`MissionPipelineProofs` proves, for every set of workers, every ingest and worker maximum
(bounded or not), every history length and every number of POSTs:

- `TypeCorrect`: `Spec => []TypeOK`, types and bounds of all queues;
- `FramesInOrder`: `Spec => []InOrder`;
- `IdleNeverDrops`: `Spec => IdleWorkerNeverDrops`;
- `PipelineIsLossyFeed`: `Spec => ImplementsFeed`, the refinement of `LossyFeed`.

The only assumption is `QueueAssumption`, the types of the constants. `InOrder` is not inductive:
appending `latest` to a worker's queue keeps it sorted only because ingest frames are newer
than everything processed, and a concatenation that shifts a head from one piece to another is
awkward to reason about. `IInv` therefore adds `IngestSorted` (the ingest queue is increasing and newer
than `latest`), `Sorted(w)` (the pieces of `Fed(w)` are sorted, one below the other, up to
`latest`), `BurstHasFrames` (the run task processes only while there are frames, so `Head(ingest)`
is defined) and `RoomForBurst` (in a burst, an idle worker's queue plus what is left of the
burst fits the ingest maximum), from which `IdleNeverDrops` follows. The proof has
one lemma per conjunct and one step per action under it.

`LinkMonitorProofs` proves `TypeOK`, `NominalIsFresh`, `LostIsJustified`, `DesertedIsLost` and
`TimerMeansNobody` for every timeout, interval and lag (assumption `TimeAssumption`: they are
naturals). The first and third speak of the present, the code acts at checks; so `IInv` says the same
of the moment of the last check (`FreshAtCheck`, `LostAtCheck`), and `CheckIsNear` bounds how long
ago that was. `LostIsJustified` and `TimerMeansNobody` are inductive with the types. The methods of the
state machine enter through one lemma each.

`LifespanProofs` proves `TypeOK`, `InsertsHavePool`, `PoolsAreShared` and `ServesAllMissions` for every
missions file (assumption `DeploymentAssumption`). `LoopInv` says that the registered entries are
those before the loop's place, under distinct ids; `PoolInv` that exactly the kept stores and
the one being connected have a pool, one each; `TaskInv` that live tasks exist only between
`start_all` and the return of `stop_all`. An insert then belongs to a live task, that to a
registered mission, and its store is kept until all tasks have ended.

`MissionHistoryProofs` goes on from there and proves, under the same assumption, `FramesAccounted`
(`SameFramesOffered`) and `HistoryIsUnbroken` (`HistoryIsTail`). `Held(w)` is the set of frames a worker
has in its three sequences. A step other than `RunFrame` moves a frame from one of them to another or
to a ghost; `RunFrame` adds one frame, newer than all, to the history and to each worker, as held or
as dropped. `HInv` adds that the history is made of known frames (`Known`) and is, for each worker, an
upper segment of what that worker was offered (`TailOf`). No induction over sequences is needed
because the statements are about sets.

`GroundDisplaysProofs` proves, for every finite set of displays (`ClientsAssumption`), `TypeOK`,
`ListedHaveHandlers`, `PruneIsExactWithoutChurn` and `ImplementsLink`, the refinement of `LinkMonitor`.
`Without`, the removal from the list, is defined by ranks, so that its facts (`RankFacts`,
`WithoutFacts`) follow from cardinalities. `SendingInv` says what an ongoing broadcast knows: its
targets are still the head of the list unless somebody left, and the list is the targets or shorter unless
somebody joined. `ListFitsHandlers`
maps the list injectively into the open handlers, which is why the count reported to the state
machine is within the handlers alive, as `LinkMonitor` asks of its departures.

`DashboardProofs` proves, for all channels, kinds of frames, ranges, history lengths, row limits and queue
bounds (`DashboardAssumption`: naturals, the worker bound positive, as `asyncio.Queue(maxsize=0)` would be
unbounded, and the limit positive, as the code clamps it), `TypeOK`, `HistoryMeetsLiveFeed` (`NoGap`) and
`PageIsLossyFeed` (`ImplementsFeed`). `NoGap` speaks of the end of a request; `IInv` splits
it at `asked`, the moment of subscription: `LiveComplete` covers later frames, `PastComplete` the earlier
ones from the answer on: shown or on its way, not held, or beyond the limit. Of the limit it rests on two
counts: what the limit left out had as many rows before it (`LeftOut`), and an archive that grows keeps
it so (`LimitStays`). `PageInv` keeps a steady view's page on the list. The refinement needs `LiveInOrder`: newest, wire, broadcast queue and frames to come are
in this order.

`SequenceTrackingProofs` proves `TypeOK`, `NeverOvercounts` and `CountsExactly` for every width of the
counter above 2, every queue bound and any number of frames (`SequenceAssumption`). A loss before
a queued frame is counted only when that frame is observed, so the invariant speaks of the whole queue:
`Counted` says that there is a rising sequence of naturals `c`, one per queued frame, such that
after `i` more frames at most `c[i]` losses are counted in excess, and `c[i] <= 2 * swaps`. This
replaces a sum over the queue, which would need a recursive definition. `Follows` says how a frame's
number relates to the one expected: `gone` and an excess further, modulo the width, or one or two
behind (a repeated packet, an overtaken one). `Residues` is the arithmetic modulo a symbolic width,
`HalfFacts` and `MissingBound` are what `HALF` is for: a number that comes late leaves a gap too wide
to be a loss.

`StationProofs` proves all nine properties of `Station`, for every missions file, environment, set of
requests and limit (`StationAssumption`: the shapes of JSON values, requests and entries that the
program can meet, a ground clock that `gmtime` can represent and doubles reach, and infinite numbers that
`float()` keeps; `FloatAssumption` of `Configuration`: `float()` yields doubles, keeps those and does not change the order
of numbers). Nothing is assumed of `Cut`. A double is a number that `float()` keeps; that a number arrives as one next
to it follows from the order. `IInv` is about provenance:
`Loaded` (the configuration is that of the file in use), `Vetted` (an accepted POST has passed the
checks of a served mission), `Sizes`, and `Genuine(q)`: with `q` the number that each POST has drawn,
everything a mission holds, in its queue, memory or table, is the frame of a POST it accepted, enriched
with its own limits, and a run task that has ended met such a frame that raises. The number is bound
by `\E q` because a POST is not recorded with it. What such an envelope contains is then a matter of
functions: one lemma for `Merge`, one for each step, one for the envelope. For the history, rows are
determined by their POST, so that counting rows is counting POSTs.

Attempting these proofs corrected `VerdictsMatchLimits` twice and `HistoryAnswersAreRight` once, which
the runs had not refuted. A file may declare a mission called `default`, which is not the one made
from the environment. A channel may be declared as `epoch_ms`, and then the ground's time is judged by its limits. A query is cut at
the smaller of the two limits of a store, so that an incomplete answer need not reach the greater
one. The properties say so now, and `MCStation` contains the first two cases.

Every invariant, action property and refinement of the passing runs is the subject of a theorem. Only
model-checked are the five liveness properties (`IngestDrains`, `ResponsiveWorkerDrains`,
`DeadArePruned`, `ShutdownEnds`, `CatchesUp`), which need fairness and ENABLED, out of the prover's
reach, and the properties that the code violates, for which TLC has the counterexamples.

## 5. Not modelled

*Left out:* logging, formatting, layout, static files, the mounting of routers, the TOML syntax, the
numbers of the environment variables, the abstract classes of `sdk`. `MemoryTelemetryStore` is created by no
part of the service. There is one adapter class, so the 409 that missions with
another would be answered is unreachable. Severities and texts of limit violations and the contents of
packets are values nobody reads.

*Met while modelling, with no statement in the repository to hold against it, or outside what a run can show:*

- `declared_channels()` of the adapter is always empty, while `static/app.js` and the README offer
  declared channels: a page's channels are those of the latest envelope only, and a page opened before the
  first packet has none until it is reloaded (`LoadSchema`).
- `telemetry_archive` reads "memory" for a mission whose store comes from `OPENGROUND_DATABASE_URL`
  alone (`Status`); the converse, an archive claimed that is not there, is excluded (`ReportsTellTheirOrigin`).
- `mission_id` is cut to 128 characters in rows but not in queries: a mission with a longer id finds none of its
  rows, and one whose id another's is cut to finds the other's (`Row`, `Cut`). `HistoryAnswersAreRight` speaks of
  missions whose id the column tells from those of the others (`Distinct`).
- A range with more rows than the limit of a query is answered with the oldest of them, so that the newest,
  next to the live feed, are missing (`Returned`, `BeyondLimit`).
- A frame with a NaN is sent to displays as `NaN`, which `JSON.parse` refuses: the page drops the whole message
  (`Discard`), and the archive the row (`Insertable`).
- A page that a broadcast took off the list by mistake (run `displays_isolation`) keeps an open socket, gets nothing and has
  no reason to reconnect; one display that stops reading holds up the live feed of all (`Hang`).
- An integer that no double reaches is answered 500 after it used up a sequence number, as is an `epoch_ms` that
  `int()` refuses (`PushRaises`); the monitor reports the gap as a lost packet.
- A packet shorter than a header is a 400 on `/ingest/packet` and a 500 in an event (`EnvelopeBody`). A JSON
  body of `/ingest/packet` whose `source` is no string is a 500 as well (`WellTyped`).
- A value where a table belongs in the missions file raises `AttributeError`, which the loop does not
  catch: start-up ends, unlike for other malformed entries; so does a negative `history_maxlen`. A
  file with malformed entries only is as good as none: the default mission is served.
- `rules = "min_limit"` in place of a list is split into characters (`mission/config.py`).
- What was broadcast while a page was disconnected is not fetched again: `NoGap` is about
  connections that hold. A failed history request looks like an empty history (`AnswerFails`).
- A start-up that fails at a later mission leaves the stores of earlier ones open (`Lifespan`).
- A step of the wall clock moves both timers of the link state (see *Clock*).

*Possible next:* a composition of pipeline, link monitor and dashboard in one state space (today each
meets the next through a refinement or a repeated, smaller server side).
