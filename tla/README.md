# UAV-Tracking: TLA+ models and proofs

This directory holds a verification development for the UAV tracking server
(Go, `src/internal`, `src/cmd/server`) and its dashboard (Dart, `src/app`).
TLC checks the models on small instances; TLAPS proves the main theorems for
every value of the constants.

## 1. The system

A simulator produces one snapshot of all drones per tick. The snapshot goes to
a sharded in-memory cache, to NATS and, sampled, to PostgreSQL. Readers get the
cache through gRPC/REST, or through an SSE stream the dashboard subscribes to.

| component | state | operations | talks to |
|---|---|---|---|
| simulation engine (`simulator/engine.go`) | population, atomics `targetCount`, `intervalMs`, `active`, `stopChan`, one-token `configChanged`, `controlMu`, `mu` | `Start`, `Stop`, `UpdateConfig`, `runLoop`, `generateSnapshot` | calls `ConsumeBatch` on its own goroutine; `UpdateConfig` runs on RPC goroutines |
| orbit model (`simulator/orbit.go`) | none | position at a time | called per drone and tick |
| memory cache (`memory/cache.go`) | 32 shards, each with `items`, `history` and a lock; `lastUpdate` | `Set`, `SetBatch`, `Get`, `GetHistory`, `GetFiltered`, `Count`, `Clear` | written by the pipeline, cleared by `ControlSimulation`, read by everything |
| telemetry pipeline (`service/telemetry_pipeline.go`) | one-slot publish queue, drop counters, `lastSample` | `ConsumeBatch`, `publishLoop`, `Close` | cache, NATS, PostgreSQL |
| NATS service (`pubsub/nats.go`) | a connection, lost and regained | `NewNATSService`, `PublishBatch`, `Close` | NATS |
| stream bridge (`service/stream_bridge.go`) | subscriber map, a one-slot channel per SSE call, `sequence` | `broadcastLoop`, `ServeSSE`, `Close` | cache, HTTP peers |
| drone service (`service/drone_service.go`) | none | `GetCurrentState`, `GetHistory` (merge of cache and database), `StreamPositions`, `ControlSimulation` | engine, cache, repository |
| repository (`repository/postgres.go`) | bounded queue, buffer of the worker, daily partitions | `SaveBatch`, `batchWorker`, `flushBuffer`, `retentionCleaner`, `GetHistory`, `Close` | PostgreSQL |
| main (`cmd/server/main.go`) | which parts are started and not yet closed, one time limit | start, signal, shutdown in order, deferred closes | everything |
| configuration (`config/config.go`) | - | read and validate once | - |
| dashboard provider (`app/lib/providers/drone_provider.dart`) | connection generation, reconnect timer, snapshots, drafts and confirmed configuration | configure, restart, apply, fail, select, fetch history, apply configuration, dispose | SSE and REST |
| snapshot assembler (same file) | pending parts per sequence | `add` | fed by the SSE stream |
| SSE and REST clients (`app/lib/services`) | - | parse, request with a timeout | server |

What is hard: a tick is copied under one lock and delivered outside it, while
RPCs resize, clear, pause and resume; `Stop` waits for a goroutine while it
holds a lock; three one-slot channels drop on purpose and must drop the right
thing; SSE calls close channels another goroutine sends to; peers stall;
PostgreSQL and NATS fail; a history is put together from a database that is
behind and a cache that has moved on; the parts are closed in an order that only
the defer statements state; the dashboard handles late answers of servers it no
longer talks to. `PROJECT.json` lists each of these hazards at its line.

What makes each part correct:

- engine: one tick loop at most, `active` tells the truth, no channel closed
  twice, no interval change lost, every call returns, an active engine ticks;
- cache: the track of a drone is its newest points in order and ends with its
  latest update; writes never go back in time; a paused cache is frozen; the
  population shown is the population configured;
- pipeline: no snapshot lost without being counted, the newest never dropped,
  in order, and a slow publisher never blocks a tick;
- history query: the answer is a track in order, within the window and the
  limit, that keeps its ends and leaves out nothing it has room for;
- main: nothing is used after it was closed, and a signalled server exits;
- bridge: no send on a closed channel, in order and latest-wins per connection,
  no connection delays another;
- repository: rows saved are flushed or counted, `Close` drains, partitions for
  the coming days exist and only expired ones are dropped;
- provider: only the configured server's data is shown, a lost stream is
  reconnected, what is shown as confirmed was confirmed.

## 2. Modules

| module | models | role |
|---|---|---|
| `BoundedHistory` | - | abstract: the newest `Capacity` points, queried with a limit |
| `HistoryRing` | `cache.go` per drone: `setLocked`, `GetHistory`, `Clear` | implements `BoundedHistory` |
| `HistoryQuery` | `HistoryRing` with the RPC `GetHistory`, the table behind it and what merges the two | composition; implements `HistoryRing` |
| `SimulationEngine` | `engine.go`, and `main` around it | the core |
| `ControlPlane` | `SimulationEngine` with `SetBatch`, `Clear` and `ControlSimulation` | composition; implements `SimulationEngine` |
| `LatestMailbox` | - | abstract: a slot in which the newest snapshot waits |
| `TelemetryPipeline` | `telemetry_pipeline.go`, `PublishBatch` | implements `LatestMailbox` |
| `ServerMain` | `TelemetryPipeline` with `main.go` and the NATS connection | composition; implements `TelemetryPipeline` |
| `StreamBridge` | `stream_bridge.go` | implements one `LatestMailbox` per SSE call |
| `PostgresRepository` | `postgres.go`: queue, worker, partitions, retention | - |
| `SnapshotDelivery` | one snapshot on its way through `ServeSSE` to `_SnapshotAssembler` | what `StreamBridge` leaves out |
| `DroneProvider` | `drone_provider.dart`: streams, generations, history | - |
| `MC_*` | - | instances for TLC |
| `*_proofs` | - | theorems |

### SimulationEngine

A step is what runs between two points at which another goroutine can see the
shared fields. `pc` says where main and each RPC handler are inside
`UpdateConfig`; `lpc` where each `runLoop` goroutine is. Every atomic load or
store that another goroutine can observe in between is a step of its own:
`InitDrones` and `StoreCount` are two, so a tick can run between them;
`StoreInterval` and `Notify` are two, so the loop can rearm in between. `Stop`
is three steps (swap, close, wait). `select` evaluates the `stopChan` field
before it blocks (`Block`), and the loop then waits on the channel it saw.
`period` is what the timer was last armed with; time itself is left out, so an
armed timer may fire at any moment. A population is its size: `initDrones`
seeds its generator with a constant, so the drones of a smaller population are
the first ones of a larger one.

`Shutdown` requires that no `UpdateConfig` is in flight: `GracefulStop` waits
five seconds for the RPCs under way, which need far less, and accepts none
afterwards.

### ControlPlane

The engine's tick is given a time stamp, and its delivery becomes `SetBatch`:
one step per shard (each under its shard's lock), then `lastUpdate`.
`ControlSimulation` calls `Clear`, shard by shard, after `UpdateConfig` has
returned, that is after `controlMu` has been released. An entry of the cache is
the time stamp of the tick that wrote it.

### HistoryRing

One drone's `items[id]` and `history[id]`. All operations run under the lock of
its shard, so each is one step. `Window`, the points from `start` on, is the
refinement mapping.

### HistoryQuery

`DroneServer.GetHistory` for one drone, beside the ring of `HistoryRing` and the
rows the table has of the drone. The request is read (`Ask`), the database is
asked (`QueryRows`) and then the ring (`ReadCache`, which also answers); ticks,
resizes, flushes and purges run between these steps. A point is its time stamp.
The clock counts nanoseconds, a `TIMESTAMPTZ` only microseconds, so `Stored`
rounds what is sampled, and the bounds of the window that the query sends, down
to a multiple of `Resolution`. Two ticks are further apart than that: the
shortest interval is 100 ms.

`FirstOfBuckets` is what `ntile` and `DISTINCT ON` make of a window with more
rows than the limit: equal buckets, the first ones a row longer, one row of
each. The newest row of the window can thus be missing from the rows; only the
ring can then still supply it, and `AnswerKeepsEnds` speaks of the points that
were found.
`mergeAndDownsample` sorts, skips equal time stamps and samples; its sort and
its comparison with the point before are `Chronological` of the union of the
two: the time at place i is the one with i - 1 times before it. A repository
that is missing and one that fails are the same: no rows.

The code cuts the ring to its newest `max_points` points before it looks at the
window. `AnswerKeepsEnds` states the exception this makes: when that many points
are later than the window, the cache contributes nothing.

### TelemetryPipeline

Each of the three `select`s of `ConsumeBatch` is a step, with `publishLoop`
free to run in between. `Publisher` is what main passes: a connection, or the
nil pointer that a failed connection leaves, wrapped in an interface.
`SaveBatch` is reduced to whether it dropped something. The module says what
each call does; when `ConsumeBatch` and `Close` are called is `ServerMain`'s.

### ServerMain

`stage` is where main is: it connects (five attempts), opens the repository and
starts the engine, which ticks before the listeners are open; it serves until a
signal; then come `GracefulStop`, `httpServer.Shutdown`, and the deferred calls
in the reverse order of their `defer` statements. The first two share a time
limit of five seconds (`Expire`), because the clients of `StreamPositions` and
`ServeSSE` leave only when they like (`Leave`); a call of `ServeSSE` can outlive
the limit, and may then run beside the deferred calls. A port that is taken
calls `log.Fatalf`, which runs no deferred call (`fatal`).

The engine is reduced to whether it may start a delivery: while it is "stopping"
main waits in `Stop`, which the loop can only see between two deliveries. A
paused engine is one that does not tick. The NATS connection is lost and
regained; while it is restored the client buffers what is published, and after
ten attempts it is gone for good.

Left out: a signal between the two listeners and `signal.Notify`, which kills
the process, and `config.Load`, which ends it before anything has started.

### StreamBridge

A call of `ServeSSE` has its own channel and happens once; a peer that
reconnects makes another call. `broadcastLoop` checks for subscribers and reads
the cache without the write lock (`Tick`), then holds it from `Lock` to
`Unlock`; within it, the subscribers are visited in any order and each costs up
to three selects. Registering and leaving need the lock, receiving and closing
the channel do not. A snapshot is its sequence number: one goroutine reads the
cache and numbers what it read, so the numbers are in the order of the reads.

### PostgresRepository

A row is the day of its time stamp; day 0 is the first day of a behaviour, and
midnight (`NextDay`) may fall between any two steps, under one assumption: a day
is longer than the rows in hand, or a round of the cleaner with its time limits
of 10 and 30 seconds, need. `Start` is `NewPostgresRepository`; `main` is
"offline" after a failure, when the server runs without a repository. The
process may be killed anywhere and started again: queue and buffer are lost,
the partitions stay. A flush is one INSERT and inserts all rows or none. The
queue holds 4 * BATCH_SIZE rows in the code; here its size is a constant of its
own. `saved`, `dropped`, `inserted` and `failed` are the books of the account;
the code has only the number of dropped rows.

### SnapshotDelivery

All subscribers of a broadcast share one slice, `slice[s]`; a call with a filter
has a slice of its own, `slice[c]`. `sort.Slice` is its insertion sort, with a
swap in two writes, and `json.Marshal` reads one element at a time: the
interleavings are those of a data race on words. Drones are numbered in the
order of their names, and a snapshot of n drones is some order of 1 .. n. Events
arrive in order and whole, as on a TCP connection, so a part is handed to the
assembler in the step that sends it; a lost connection loses the rest, and the
app connects again with a new assembler.

### DroneProvider

The isolate runs one handler at a time, so a step is a handler up to its next
`await`. A stream is known by its generation. What a cancelled stream does is
the point: `SseClient.connect` is an `async*` function, and cancelling ends it
at once only if it is suspended at a `yield` ("yield": `asyncMap` has paused it
while an event is parsed). If it awaits a response or a line ("await") it is
"cancelled" and ends at its next event, or when the connection breaks; until
then `cancel()` does not complete and `_restartStream` does not go on. The
filters of the list, the interpolation and the drafts of the configuration are
left out; a snapshot is the server it came from.

## 3. Runs

| run | question | bounds |
|---|---|---|
| `history` | Does the ring return the newest points, and does a query make a right track of ring and table? | capacity 2, instants 1 to 7, limits 0 to 4 (default 2, maximum 3), a table with half the resolution of the clock, requests without bounds and with bounds in the past and the future |
| `engine` | Can reconfigurations break the engine, and does everything asked for happen? | two handlers, two calls, legal and illegal counts and intervals, two loop identities so that a second loop could start |
| `control_plane` | Do ticks, resizes and Clears leave a right cache? | two drones in two shards, two handlers, two calls, two distinguishable ticks |
| `control_plane_ghosts` | Do removed drones disappear? (violated) | the same |
| `server` | Is the right snapshot dropped, and counted? Does the server start, run and stop in order? | three ticks, sampling every second one, two attempts to connect and two to reconnect, one client of each kind |
| `server_offline` | Does the server run without NATS? (violated) | the same |
| `stream_bridge` | Do SSE calls and the broadcast loop get along? | two calls, one of which may stall for ever, four broadcasts |
| `repository` | Are rows lost, or sent to a partition that is gone? | batches of 2, a queue of 1, snapshots of 1 or 2 rows, 3 rows a life of the process, retention of 1 day, 4 midnights |
| `provider` | Does the dashboard show and keep the right connection? | two servers, three switches, two drones |
| `provider_silent` | Is a new server connected to when the old one is silent? (violated) | two switches, one server that may fall silent |
| `delivery` | Are snapshots shown whole? | a subscriber with filter and limit, one with parts, 3 drones, parts of 2, 2 broadcasts |
| `delivery_shared` | The same without the filter (violated) | 1 broadcast |

In `history` up to four ticks fit between the instants 1 and 7, so that a ring of
two wraps past its end and back; odd instants are stored earlier than they were
taken and even ones as they are, so a point is found twice under one stamp and
under two; windows end before, between and after the points; and limits of 1, 2
and 3 lie below, at and above what is found. Three ticks of the server are what
the queue needs: one snapshot in the publisher's hands, one in the queue, one
that replaces it. Two attempts tell the last one from the others.

Two calls suffice for the engine's races, which are all between two of main,
two handlers and the loop: a third handler would wait for `controlMu`. Four
broadcasts fill a channel, replace its content, drain it and fill it again. The
counters (`MaxCalls`, `MaxClock`, `MaxTicks`, `MaxSequence`) only bound how
long a behaviour produces new input; after `MaxClock` ticks of the control
plane go on with the same stamp. In `repository` 4 midnights are one more than
the days `ensurePartitions` prepares, so they run out, and rows outlive the
retention; a queue of 1 fills with every snapshot of 2 rows and a third row
makes a second, partial flush. Three switches of the provider return to the
first server while two restarts are pending. In `delivery` 3 drones need two
parts, the second partly filled, and exceed the limit of 2.

### Fairness

Goroutines that can run, run (weak fairness of each loop and of each handler's
`UpdateConfig`); a mutex is handed on. `SeeStop` is strongly fair in the engine
and the bridge: Go's `select` chooses at random among the ready cases, so a
closed stop channel is not ignored for ever in favour of a timer. In the bridge
writes of a `Stalled` call are not fair at all: `http.Server` is configured
without a write timeout, so a peer that stops reading can hold its call for
ever. The cleaner's stop is strongly fair for the same reason; its rounds and the
worker's steps are weakly fair because every database call has a time limit. In
`ServerMain` the goroutines, the deferred calls and the time limit are weakly
fair, and that a loop told to stop is seen to stop (`EngineStopped`) is strongly
fair, for select's sake again; no client is made to leave, no signal to come and
no connection to be lost or restored. A publish ends because the client library
buffers it or refuses it. In
the provider timers fire, awaits that are over resume, and a server that is not
`Stalled` sends an event or breaks the connection some day; without a stalled
server this holds of every TCP connection whose host stays reachable. New
requests, ticks of the bridge, `Close` and `Shutdown` are never
forced.

### Disagreements found

- `control_plane_ghosts`: a tick that copied the population before
  `UpdateConfig` shrank it can reach the cache after `Clear`. The drones that no
  longer exist stay in the cache, and in `/healthz` and `GetCurrentState`, until
  the next resize.
- `server_offline`: with NATS offline at startup main logs that it operates
  "in local memory pubsub mode", but hands the pipeline a nil `*NATSService`,
  which is not a nil interface; the first publish dereferences it and the
  process ends.
- `provider_silent`: changing the server URL first awaits the cancellation of
  the old stream. If the old server has vanished without closing the connection,
  the generator behind the stream awaits its next line for ever, the
  cancellation never completes and the new server is never contacted, though
  both READMEs tell the user to change it in Settings.
- `delivery_shared`: a subscriber with a limit (the app behind ngrok) sorts in
  place the slice that all subscribers of the broadcast share. While it swaps,
  another one encodes one drone twice and another not at all, so what its client
  assembles is not "the original snapshot".

## 4. Proofs

All theorems are for arbitrary constants under the named assumptions of the
modules (ranges are sets of naturals, the initial configuration is legal,
identities are distinct, the capacity is positive).

- `ControlPlane_proofs`, the engine. The safety properties are not inductive by
  themselves. `EngineInv` adds three
  parts: `MutexInv` (only the holder of `controlMu` is in the critical section,
  and its request was validated), `MainInv` (handlers work only while main
  serves) and `StopInv` (how `active`, the loop and the stop channel follow each
  other through a `Start` or a `Stop`, and that a blocked loop waits on the
  current channel). From it follow
  `AlwaysOneLoop`, `ActiveIsAlwaysTrue`, `NeverClosesTwice` and
  `NeverLosesInterval`.
- `ControlPlane_proofs`, the engine with the cache. `ControlImplementsEngine`:
  every composed step is an engine step or leaves the engine alone, so the
  engine's theorems carry over (`ControlKeepsEngine`).
  With one loop and stamps bounded by the clock, `NeverOverwritesWithStale` and
  `PausedCacheIsFrozen` follow. `ControlTypes` bounds the two walks over the
  shards.
- `HistoryRing_proofs`. Lemmas about indices modulo the capacity lead to
  `PushAppends`: pushing appends to the window and drops its head when full.
  `RingImplementsWindow` is the refinement of `BoundedHistory`; `RingTypes` and
  `LatestEndsTrackAlways` come from the same invariant.
- `HistoryQuery_proofs`. `QueryImplementsRing`: a query reads the ring once and
  never writes it, so the ring's theorems hold beside queries.
  `DownsampleKeepsTrack`, about the arithmetic of the sampling for every length
  and limit: the result has no repeats, is no longer than the limit and keeps
  the ends. It rests on `SamplesAdvance`, that `i * last / (n - 1)` is strictly
  increasing from 0 to `last`. `ChronologicalSorts` is the correctness of the
  sort, without an induction: the ranks of a finite set of times (how many of
  them are earlier) are injective into as many numbers as there are times, hence
  a bijection. `QueryInv` adds to an answer in order (`AnswerInOrder`) what its
  steps need: the ring is a track of the past (`PastInv`, kept because a tick
  appends a later point), and the rows are of the window that was asked for and
  not later than the clock (`CallInv`, `QueryTypes`). From it and
  `NewestAreLater`, that what the limit cuts off the ring is earlier than all it
  keeps, follow `AnswerAlwaysKeepsEnds` and `AnswerIsAlwaysComplete`.
- `TelemetryPipeline_proofs`. The queue is empty whenever the second send is
  tried, because the only receiver cannot fill it; the books balance; and
  `PipelineIsMailbox` is the refinement of `LatestMailbox`. The module goes on to
  main: `ServerImplementsPipeline` carries these facts over to `ServerMain`
  (`ServerBooksBalance`, `ServerIsMailbox`), and
  `NothingUsedAfterClose` is inductive with the state each stage implies of the
  engine, the repository and the connection.
- `StreamBridge_proofs`. `Membership` (who is in the map, under the lock, in the
  iteration) gives `SendsReachOpenChannels`; `Order` (received < queued <=
  broadcast) gives `LatestAlwaysReachesChannel` and `BridgeIsMailboxes`.
- `SnapshotDelivery_proofs`. `WholeSnapshots` follows a snapshot from the slice
  that all subscribers of a broadcast are given to what a client shows.
  `DeliveryInv` says of each call, by where it is, what its `filtered` holds:
  what matched so far (`FilterInv`); a permutation of what matched whose first
  `i` elements are sorted but for the one at `j`, even between the two writes
  of a swap (`SortInv`); then a slice whose first `len` elements are exactly
  what was asked for, of which the part encoded so far is a piece (`WriteInv`).
  `PendingInv` gives the assembler the parts before that one, of this snapshot
  only. The steps rest on lemmas about the operators: a swap keeps the elements
  and moves the gap (`SwapInserts`), the inner loop ends with one element more
  in order (`InsertionEnds`), the first `n` of an ascending sequence are those
  with fewer than `n` smaller ones (`FirstAreSmallest`), `Total` and `PartEnd`
  cut the slice without gap or overlap (`PartsCover`), and joined again the
  parts are what was cut (`PartsAssemble`). The last one is about `FlattenSeq`,
  a recursive definition; `FlattenJoins` replaces the induction over its
  argument by the least length at which it would fail (`LeastElement`, from the
  well-foundedness of `<`). The theorem has one hypothesis about the
  configuration, `NoSharedSort`: a connection with a limit and no filter is the
  only one. Such a call sorts the slice of the broadcast itself, and
  `delivery_shared` shows what a second reader then gets; the theorem says that
  no other step of the model does that, and that the sort in place harms nobody
  who is alone. The sort is the insertion sort of the model, which is what
  `sort.Slice` does to a dozen elements or fewer; of its other strategies the
  theorem says nothing.
- `PostgresRepository_proofs`. The account is inductive with the types
  (`Balance`). That the purge spares the partitions of rows in hand needs `Life`
  (which goroutines live in which state of main), `Fresh` (rows in hand are at
  most a day old), `Prepared` (the
  partitions since the last `ensurePartitions` that are not yet expired exist)
  and `Expired` (the purge only holds days before the retention).
- `DroneProvider_proofs`. `Restarts`: while the configured generation has a
  restart under way, or a reconnect timer, no stream delivers. With it a stream
  that is opened is the only one, and only the configured server's snapshots
  reach the map. The only fact about `cancel()` used is that nothing is
  delivered after it (`CancelSilences`).

Only model-checked: the liveness properties (`EveryCallReturns`,
`KeepsTicking`, `PopulationComplete`, `NewestGetsOut`, `ServerStops`,
`ReaderCatchesUp`, `LeavingEnds`, `CloseReturns`, `ServerIsConnected`), because
the prover has no rules for fairness and ENABLED; and, of the properties whose
violation a run shows, those that are violated. Every invariant and every action
property of a passing run is a theorem.

## 5. Not modelled, and the plan

Not modelled: positions and their trigonometry, JSON and protobuf, routing,
static files, widgets, generated code, the platform runners, the one-time
validation of the environment. The components table of `PROJECT.json` gives each
part its reason. Nor are these, which keep state or read it:

- the configuration drafts of `DroneProvider` (`applySimulationConfig`). The
  panel learns the server's configuration only from the answers to its own
  requests; after a request that timed out, or a change by a second panel, no
  document says what it should show, so there is no property to state.
- torn reads of the cache by `GetFiltered` and `Count`. They visit the shards
  one lock at a time and nobody promises a reading of one instant. Drone by
  drone a later reading is never older, which is `NoStaleOverwrite`.
- `GetCurrentState`, `StreamPositions` and `/healthz`, which read the cache and
  answer.

What would come next: the other strategies of `sort.Slice` (heap sort and
partition) behind an abstract "permutes until sorted", for populations of more
than a dozen; and `GetHistory`'s answers in the provider, so that the panel's
history is followed from the ring to the screen.
