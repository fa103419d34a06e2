# Pegasus suite: specifications

TLA+ specifications of the Pegasus suite, a Go program that takes live race
telemetry, decides which runner to bet, and places the bets with Betmatic and
Betfair. The modules are translated from the source, not from its documents.
They are checked by TLC on small instances, and the theorems of the `*Proofs`
modules are proved by TLAPS for every value of the constants.

## 1. The system

| Part | Source | State it keeps | Operations |
|---|---|---|---|
| Kernel | `kernel/` | the registry of loaded processes, which applications are up, one mutex | start, stop, restart the runtime; add, start, stop, restart, delete a process; save, delete its settings |
| Engine: sessions | `engine/engine.go`, `account.go` | one session per bookmaker account, its holders | `Account`, `Release`, `Close` |
| Engine: placement | `engine/place.go`, `stake.go` | none | `Place`, the tick helpers |
| Pegasus application | `apps/pegasus/app.go` | feed clients, the admin Betfair client, the generation of the last start, its processes | `Start`, `Stop`, fan-out, a lost feed, prices of a race on and off |
| Process | `apps/pegasus/process` | two inboxes, a running flag, a context, strategy state | offers, `Start`, `Stop`, the run loop |
| Strategies | `apps/pegasus/strategy` | per race: what was seen, what was bet | `Select` |
| Dispatch, settings | `apps/pegasus/dispatch`, `settings` | none | an order from a bet; validation |
| Price polling | `betting/betfair/races.go`, `client.go`, `events.go` | the race list, a register of polls | start, stop a poll; refresh; close |
| Triple-S feed | `apps/pegasus/triples` | the MQTT client, a reconnect flag | connect, reconnect, give up |
| TPD feed | `apps/pegasus/tpd` | per race: last time stamp, finished; a list of races by date | resolve a packet; refresh; sweep |
| Logger and Telegram sink | `logger/`, `logger/telegram/` | a ring of records, a queue, suppressed lines, tokens per channel | emit, recent, send, stop |
| Token verification | `platform/auth` | cached keys, last fetch | parse, refresh |
| Document store | `clients/doc`, `platform/store` | settings and state documents | get, put, delete, list |
| HTTP API, command | `kernel/api`, `cmd` | a goroutine per request, the order of the shutdown | requests, shutdown |
| Tables, `_davo` | `apps/pegasus/core`, `apps/_davo` | tables of names; not built | - |

How they meet. The HTTP API calls the kernel, which does everything under one
mutex. The kernel builds a process through its application (`NewProcess`), which
claims sessions from the engine; stopping, rebuilding or deleting it releases
them. A feed's goroutine hands each message to the application, which offers it
to every process under a read lock; a process queues it or drops it. The
process's own goroutine takes it out, asks the strategy, turns the race's price
poll on or off, and starts a goroutine per bet, which goes to the engine and
from there to a bookmaker's client. All state but the documents is in memory.

What is hard:

- the store fails, or reports failure for a write that landed, in the middle of
  an operation, and the container may die at any point;
- sessions are shared between processes that come and go in any order, and the
  second of two dials can fail;
- `Process.Stop` cancels and does not wait, so a start can overlap with the
  goroutine it replaces;
- the fan-out asks whether a process wants a message and sends it in two steps;
- polls are stopped by race, by processes and by the polls themselves;
- limits have to land on a price ladder whose step changes with the price;
- feeds drop, reconnect, reorder and repeat, and the report of one that is lost
  for good may come when the application has been started anew;
- the logger is stopped under goroutines that log;
- requests fetch and store the token keys without a lock in between, and one
  that was let in may act while `main` shuts down.

`PROJECT.json` lists these as hazards, each at its line and with the properties
about it.

What makes each part correct, in a sentence: a session lives exactly as long as
a process holds it, and a start rebuilds from the store what the operator last
asked for (Kernel, Engine); a race is bet once per side however often the
process is stopped and started (Process); every poll that runs can be stopped
(PriceFeed); every limit is a tick, and on the right side of the price and the
scope (Place); a lost feed is tended, or given up and reported (TripleSFeed,
Pegasus); a packet is acted on once and in order, and the status it gets is true
(TPDFeed); what is kept is kept in order, what is handed to Telegram is announced
once, within its rate, and flushed at the end (Logs); nobody acts who was not let
in, and the process leaves nothing running behind it (Service).

## 2. Modules

| Module | Models | Uses | Proofs |
|---|---|---|---|
| `Engine` | the session pool, as a value and functions on it | | |
| `Kernel` | the kernel over the pool and the store | `Engine` | `KernelProofs` |
| `Strategy` | the two strategies, as functions | | |
| `Process` | one process and its goroutines | `Strategy` | `ProcessProofs` |
| `PriceFeed` | the polls of one admin client and their callers | | `PriceFeedProofs` |
| `Ticks` | the price ladder and rounding to it | | |
| `Place` | an order's way to the client | `Ticks` | `PlaceProofs` |
| `Feed` | the promise of a feed that comes back by itself | | |
| `TripleSFeed` | the Triple-S client and its reconnect loops, and that they keep the promise | `Feed` | `FeedProofs` |
| `TPDFeed` | the TPD race list and tracker over an unreliable feed | | `FeedProofs` |
| `Settings` | what the documents must have, as predicates | | |
| `Pegasus` | the application's starts, stops, feeds and processes | `Settings` | `PegasusProofs` |
| `RecentLog` | the promise of `GET /api/logs`: the last N records | | |
| `Ring` | the ring, and that it implements the promise | `RecentLog` | |
| `Logs` | the logger with its ring and Telegram sink | `Ring` | `LogsProofs` |
| `Service` | the API in front of the kernel, token keys, `main` | | `ServiceProofs` |

The `MC*` modules give the constants their values. Operators whose comment says
"Mutant" are broken variants of the definition after them: no specification
uses them, they document what each property excludes, and substituting one for
its original makes TLC report the property.

### Engine and Kernel

`pool` is `Kernel.eng`. `Claim` and `ReleaseFrom` are `claim` and `release` of
`account.go` on one provider's map, `Account` is `Engine.Account` with the
rollback of a refused Betfair dial. A settings document is known by the two
accounts it names; that a password or a stake changed is that it is another
document. `clients[k]` are the sessions whose live client the `Account` of `k`
points to: `release` closes a client under whoever still points to it, so the
set shrinks for others too if it ever does that too early.

`Kernel` has one action per exported operation that changes state, each under
`Unlocked`, because the code holds `Kernel.mu` throughout. `Start` and `Restart`
are several actions: the restore loads process after process with network calls
between them, and the lock is held by `restoring` or `restarting`. A store write
is `"done"`, `"failed"`, or `"landed"` (reported failed, and written: the store
gives up on a timeout). A load stops at any step: the document cannot be read,
`NewProcess` refuses it, or some sessions will not open. `Crash` may come
between any two actions. A crash in the middle of an operation leaves the store
as the same operation with its remaining writes `"failed"` and then `Crash`, so
it is covered without splitting the operation.

`want`, `dirty`, `unsure` and `missed` are history: what the last operation
asked for, and which writes or loads failed. No guard reads them.

### Strategy and Process

A message is a race, a status and a time; whether it names a leader, its time
stamp parses, or the race has a unit, are facts chosen freely (`Facts`). The
strategies are functions from the state of a race and a message to a decision,
with the order of the early returns of `Select` kept.

`Process` separates what Go separates: `Want` and `Send` are the two halves of
an offer; `Receive` and `Decide` are `Select` reading the state of a race and
writing it back, so that two run goroutines interleave; `Return` is the select
that takes `ctx.Done`. `live` is the goroutine whose context is `Process.ctx`.
Two goroutines inside `Select` are a data race in Go, and what it can produce
beyond these interleavings is not modelled: once it happened, `overlap` is set
and the properties about strategy state say no more. `SoleOwner` says that it
does happen.

### PriceFeed

`register` is `runnerCancels`; a loop is `runnerUpdateLoop` with its place in
the code, its race and whether it was cancelled. Removing and cancelling are one
action although the code cancels after the unlock: a cancelled loop runs on
until its select sees it anyway, so nothing is told apart. `TurnOn` and
`StartRunnerUpdates` are separate, because the client and context are read
before the register is locked and `Close` can come between. `HasRace` and the
same test inside `StartRunnerUpdates` are one. The race list and the markets
change freely.

### Ticks and Place

Prices are integers, in cents; what is rounded to the ladder, 0.9 and 1.1 times
a price, in tenths of a cent. The code computes in binary floats and lifts by
1e-9 before `Floor` (drops before `Ceil`). A product of a price under 1000 and
1.1 and 100 carries an error below 1e-10, and what is not a whole number of
cents is at least 0.1 away from one, so on these arguments the code rounds as
integers do. Sizes round half up as `math.Round` does on non-negative values.

`IsTick`, `GreatestTick` and `LeastTick` say what the helpers are for without
the helpers: the properties are stated with them.

### Feed and TripleSFeed

The MQTT library, the broker and `App` as far as they call the client are part
of the module. `conn` is what has become of each connection the client dialled,
`opening` where `NewClient` is, `loop` the goroutines of `reconnectLoop`, with
one action for each stretch of code between two points where another goroutine
can step in: the flag, the wait, the dial, the installation, the deferred clear.
`token.WaitTimeout` only stops waiting, so a dial that timed out stays
`"dialling"` and `Connects` may still come; every connection that comes up gets
its `OnConnect`, every one that breaks its `OnConnectionLost`, on goroutines of
the library's. `Collected` lets a connection nothing points to be used again.
`OnFatal` includes what `App.onFeedFatal` does to this client; it waits while
`App.Start` holds the application's lock. The generation test is left to
`Pegasus`: here the client is the one of the last start.
`dropped` is history: a loop found the flag set, and nothing came up since. So
is `strayed`: a dial that had been given up came up after all (`"late"`), or one
was installed after the client had gone out of service (`"behind"`).

`Feed` is the abstract specification: what the application has of a client
(opening, open, failed, stopped, lost), and one run of attempts that ends at the
first success, stands down when the context is done, or gives up when all
attempts have failed and then tells the application. It knows no connections,
flags or goroutines. `Promise == INSTANCE Feed` maps `service` to what `opening`,
`stopped` and `fatal` say together (`ServiceNow`), and `run` and `attempt` to
those of the one loop that holds the flag (`Runner`); whatever else goroutines
and the library do is a stutter. `FeedKept` is its specification.

### TPDFeed

A race sends a script of snapshots: how far it is from the finish, and whether
its clock runs. Any snapshot sent may come in at any later time and any number
of times, unless the race was swept since and packets of that age are no longer
on their way (`stale`). `Ref` is `Tracker.Ref` with the handler it lets through,
`Miss` a look-up that asks for the race's date, `Sweep` the expiry of a race
that has not been heard of. `refresh` is the goroutine that fetches dates: the
first refresh that `NewClient` waits for, then what the ticker or the queue
asks. A day passes at any time; the server lists a race when it likes, and takes
one of `Withdrawn` off its list again. A distance is a small integer that stands
for more than `offMargin`. That distances do not rise and a clock does not go
back, as a comment of `raceState` says of the feed, is `ScriptAssumption`.
`Sure` says when the official distance is to be relied on: the list's length is
right, or there is none and the race was joined at the post. `DistanceTrue` is
about such races; of the others the distance is not true, and `StatusTrue`
speaks of them as far as their clock runs.

`TPDInit`, `TPDNext`, `TPDSpec`, `tpdVars` and `TPDTypeOK` carry the feed in
their names because `FeedProofs` extends both feeds.

### Settings and Pegasus

A process document is which credentials it has and on what it stakes, per feed
that covers the scope's country. `Validate` is `ParseProcess`, `Credentials` the
sessions that are opened, `ValidateScopes` the test against the feeds that are
switched on.

`Pegasus` follows `App.Start` through the Betfair session and the two feeds,
each of which may be off, refused, or fail; the lock is held throughout
(`Unlocked`). `client[g][f]` is the client of feed `f` made by start number `g`,
`held` the one the application has: keeping both is what lets a report of an old
generation meet a new one. `report[g][f]` is that client's call of `onFatal`:
not made, waiting for the lock, or answered. A client that is closed may still
make it (the TPD reader takes the closed socket for an error, and a reconnect
run of Triple-S goes on). A Triple-S client that was closed, or whose opening
was given up, may come up again with nobody to close it, `"astray"` until that
connection breaks (`Connects`, `Breaks`): what it takes for that is in
`TripleSFeed`, and here it may happen to each. `NewProcess` and `Added` are two
actions, because validation and sessions come before the application's lock is
taken. `docs` change under it all through `SaveFeed`. The fan-out of messages is
in `Process`, turning prices on and off in `PriceFeed`; what happens inside a
Triple-S client is in `TripleSFeed`, of which `Lost`, `OnFeedFatal`, `Ends`,
`Connects` and `Breaks` are the outside.

### RecentLog, Ring and Logs

`RecentLog` is the abstract specification: a sequence of at most `Size` records,
to which records are appended. `Ring` is the slice, the index and the flag of
`ring.go`, and `Snapshot` the copy that `recent` takes. `Held == INSTANCE
RecentLog WITH held <- Snapshot` is the refinement, `Recency` its specification:
checked as a property of the whole of `Logs` and proved for every size.

`Logs` has the emitting goroutines in two steps, taking the logger and putting
the line into the sink's queue, so that `Stop` and the close of the queue come
between. The sink's goroutine is split at its waits and its calls. A line is its
level, message and process, which is what `dispatch` compares. Time is kept as
ages, up to the one beyond which nothing changes, in units in which a channel
earns one token: `Window` and `Burst` are numbers of them. `notes`, `calls` and
`alone` are history: what has become of each line, how long ago the last calls
of each channel were (up to `Horizon`), when a line last went out by itself.
A minute is `Burst` units, since `channelRate` earns `channelBurst` tokens in it.

### Service

`Lookup`, `Refresh`, `Fetched`, `Store`, `LookupAgain` are the stretches of
`keyFor` and `refresh` between which another request can step in. Rotation is
free. A request that is let in waits for the kernel's lock and acts; what it
does to processes is `Kernel`'s. `main` waits for requests, gives up on them, or
not, and then stops the kernel.

## 3. Runs

| Run | Instance | Checks | States |
|---|---|---|---|
| `kernel` | 2 processes of 2 applications, 2 documents, 1 account at each provider | `SessionsExact`, `SettingsCurrent`, `StateHasSettings`, `IntentKept`, `SoleHolderRedials` | 65,100 |
| `process` | 1 race on TPD, 2 run goroutines, inboxes of 1, 2 times, under fairness | `BetOnce`, `FeedFollowed`, `DrainEnds` | 42,720 |
| `process_owner` | the same on Triple-S | `SoleOwner`: violated | - |
| `price_feed` | 1 race, 2 callers, 3 polls, under fairness | `NoOrphan`, `RegisteredRuns`, `CancelledEnds`, `StopsForGood` | 8,832 |
| `place` | 35 prices about the limits of the ladder, 5 maxima, 3 minima, 4 stakes, 3 units | `LimitIsTick`, `LimitFair`, `LayNotLost` | 1,814,400 |
| `triples_feed` | 2 connections, 2 loops, 2 attempts, under fairness | `LossTended`, `OneFeed`, `DownClosed`, `FeedKept`, `RunEnds` | 132,636 |
| `triples_fatal` | 3 connections, 2 loops, 2 attempts, under fairness | `FatalKept`: violated | - |
| `tpd_feed` | 2 races on 2 days, scripts of 3 and 1, a queue of 1, under fairness | `NewestOnly`, `StatusTrue`, `StatusForward`, `Resolved` | 93,088 |
| `pegasus` | 2 starts, 2 feeds, 1 process, 4 documents, under fairness | `StatusTrue`, `InReach`, `NewFeedSpared`, `SessionForStake`, `ScopeServed`, `LossReported` | 135,082 |
| `logs` | 2 goroutines, 3 lines, a ring of 2, a queue of 1, a bucket of 2, calls of 2 units, under fairness | `Recency`, `CountTrue`, `RateKept`, `StopFlushes`, `OnlyEarlyPanics`, `Settled` | 863,995 |
| `logs_header` | 1 line logged 5 times, a queue of 2, calls of 3 units | `HeaderKept`: violated | - |
| `service` | 2 requests, 2 keys, under fairness | `ActsAllowed`, `LeftDown`, `RotationHeard` | 157,486 |

Type invariants are proved for every value of the constants, and then no run
repeats them. The same goes for `Registry`, `ReloadKeepsStatus`,
`RunningMeansServed`, `OnlyDustRefused`, `OneRun`, `DistanceTrue` and
`OncePerWindow`: properties of `Kernel`, `Process`, `Place`, `TripleSFeed`,
`TPDFeed` and `Logs` that are proved and in no run.

Bounds, and why they are enough. *Kernel*: two processes are needed to share and
to outlive a session, two applications for one to be up without the other, and
the second document adds an account the first has not, so a rebuild can join,
open, close and be refused. Nothing in the code counts processes. *Process*: a
goroutine overlaps with at most the ones cancelled before it; two show every
pairwise interleaving, one slot in an inbox is enough for it to be full. Times 0
and 1 with one delay at 0 and one at 1 make the sides ready together and apart
on Triple-S; on TPD they are ready together. The run follows TPD, because the
states of the Triple-S strategy under fairness take too long; its safety
properties are proved for both, and `process_owner` explores Triple-S.
`placed` counts to 2, where `BetOnce` is already violated. *PriceFeed*: three
polls are two cancelled ones that have not noticed and a new one; a poll that
cannot be launched for want of a free goroutine is the only thing the bound
forbids. One race: the polls of two touch only in `Close`, which the proofs cover.
*Place*: a price just below, at and above each limit of the ladder and those
whose 0.9 or 1.1 multiple crosses one; the proofs cover the rest.
*TripleSFeed*: two loops are one that runs and one that is turned away; two
connections the one installed and one that is dialled, and may still come up
when it was given up; the second attempt is the last. The violated run has a
third connection, the proofs hold for any number of each. *TPDFeed*: races touch
only in the fetch queue and in the days, so two races of two days with one place
in the queue compete for everything there is; a script of post, running and
finish has each status, and the second race is joined on the run, which is the
other way to start; that one may be withdrawn, and the first
never is. *Pegasus*: two
generations let the report of an old one meet the start, the run and the stop of
the next, and a process be validated against feeds that are others then; the
proofs hold for any number of both. Processes touch one another in nothing but
the registries. *Logs*: `MaxNotes` is three lines, enough to
wrap a ring of two, to fill a queue of one while another is being sent, and for
two lines of one window. With a summary and the retries they make up to six calls
of a bucket of two, which is emptied, earns in part and in full, and is emptied by
a 429; calls are remembered for the two units that are a minute, and the proof
holds for any of these numbers. *Service*: two requests store over one another.

`place`, `triples_*`, `tpd_*`, `pegasus*`, `logs*` and `service` check no
deadlock: an order is placed once; a client that was closed and has nothing up,
a race whose packets are all out of date, an application at its last start, a
logger with `MaxNotes` lines logged or a goroutine that has panicked, and a
process that has exited, are at their end. The other runs check it.

Fairness. In `Process`, `WF(Step(g))` is the Go scheduler running a goroutine
that can run, and `SF(Return(g))` is Go's select choosing at random between a
waiting message and a done context: it does not choose the message for ever.
Nothing is assumed of the fan-out or of whoever calls `Start` and `Stop`. In
`PriceFeed` the loops and callers are scheduled fairly, a poll's HTTP call ends
(it has a timeout), `SF(Done(l))` is the same random select against a ticker,
and the runtime that has stopped an application goes on to cancel its context,
as `stopLocked` does in the next statements. Nothing is assumed of the markets.
In `TripleSFeed` each loop is scheduled fairly, and a dial or subscription of
`NewClient` ends, which frees the lock `onFatal` waits for. A dial that neither
comes up nor fails ends by its timeout. Nothing is assumed of the broker.
In `TPDFeed` the refresh goroutine runs and its select takes a waiting date in
spite of the ticker; a fetch that is repeated succeeds (`SF(Load(d))`), and
packets come twice a second, so that one is read and one finds room in the
queue. `Resolved` needs both and says so. In `Pegasus` starts and stops go to
their end and a mutex that is free again and again is handed to who waits;
nothing makes a client fail or anybody start or stop. In `Logs` the sink's
goroutine runs, its calls answer (`sendTimeout`), time passes, the ticker rings,
and a `Stop` that has begun goes on; nothing makes anybody log. In `Service`
requests run, operations end, the lock is handed on, and the session service does
not fail for ever.

### Violated on purpose

- `SoleOwner` (`process.go:55`: "Only the run goroutine touches these."). After
  `Stop` and `Start` two run goroutines are inside `Select`.
- `FatalKept` (`app.go:240`: a permanently lost feed is taken out of service, "its
  client is closed and Status reports it down with the reason"). The run's
  behaviour breaks both halves. First `LossHandled`: a connection is lost before
  the loop that dialled it has returned, the loop of that loss is turned away, and
  the feed is dark while Status shows it running; `LossTended` says that the flag
  is the only way to get there. Then `DownIsDown`: a feed that was reported lost
  connects and subscribes all the same, by a dial that was given up or by a run
  behind the report. The same becomes of a dial of `NewClient` that outlasts its
  timeout (`app.go:139`: "triple-s did not start; nothing will bet off it until a
  restart"), and of one that is installed behind `Disconnect`, in a client the
  code calls obsolete (`client.go:150`). `DownClosed` says that a late dial and a
  late installation are the only ways there, and `InReach` of `Pegasus` leaves out
  what comes up so.
- `HeaderKept`: neither promise in the header of `telegram.go` is kept, and the
  run's trace breaks both. `MinuteKept` ("at most 18 messages a minute into a
  channel (bursts of 18)"; `ARCHITECTURE.md:238`: "Each channel is paced to 18
  messages a minute"): a full bucket and a minute's earnings make nearly 36.
  `RateKept` is the rate that is kept: over any time, a bucket and what was earned
  in it. `AllSummarised` ("identical lines within DedupeWindow go out once,
  followed by a "+N more" summary when the window closes"; `ARCHITECTURE.md:239`):
  a line that repeats before the sweep has closed its window replaces it, and the
  count is lost (the fate `"lost"`). `CountTrue` says that whatever is announced
  is true.

### Seen while modelling

None of these is a run. Two contradict a comment of the code, which is quoted; of
the others nothing in the repository promises otherwise, or they are behind a run
above.

- `update.go:49` says of the largest distance seen that "the maximum is correct
  even when the feed is joined mid-race". With no length in the list, a race that
  is joined on the run gets what was left of it for its distance, and without a
  clock it is then taken for a race at the post. `DistanceTrue` and `StatusTrue`
  say that a race joined at the post is told its true distance and status.
- `gmax.go:213` says that a fetch "replaces every entry for one date". It merges
  (`Load`): a race the server has withdrawn resolves until its date is dropped.
- A poll that was turned off and has not noticed exits after its race was turned
  on again: its deferred stop works by race and cancels the new poll
  (`races.go:142`). `RegisteredRuns` holds all the same; prices are off until
  the next message.
- A length in the TPD list that is wrong has the same effect as one that is
  missing (`Sure`).
- A Triple-S dial that connects after its timeout is not closed, and its
  connection lives beside the one of the next attempt: two connections receive
  the feed, and each starts a loop when it breaks. `OneFeed` excludes this by
  name (`"late"`), and says that nothing else leads there.
- Stopping the application makes the TPD reader report a fatal loss
  (`tpd/client.go:96`). `NewFeedSpared` shows that no later client pays for it.
- A goroutine that took the logger before `Stop` panics on the closed queue.
  `OnlyEarlyPanics` shows that no later one can.
- Requests that miss at once all fetch, and an older answer may be stored over a
  newer one; a withdrawn key stays good until the next miss (`jwks.go:133`).
- A Betfair session whose keep-alive failed is never logged in again.

## 4. Proofs

Each `*Proofs` module proves `Init => IInv`, `IInv /\ [Next]_vars => IInv'` and
the properties from `IInv`, one lemma per action or group of actions.

- `KernelProofs`: `TypeCorrect`, `RegistryInv`, `SessionsExactInv`,
  `SettingsCurrentInv`, `StateHasSettingsInv`, `IntentKeptInv`,
  `ReloadKeepsStatusHolds` and `SoleHolderRedialsHolds`, assuming
  `EngineAssumption` and `KernelAssumption`: accounts of the two providers are
  named apart (the code keeps two maps). The invariants alone are not inductive:
  one also needs that a runtime that is down has an empty registry and pool,
  that what waits to be restored is not loaded and has the state its last
  operation asked for, unless its write failed, and that a missed process is
  absent. The pool's part is proved once for `Account` and once for `Release` (a
  pool exact for some need is exact for the need with one process added or
  removed), and every action's pool is one of these. A rebuild closes what only
  its process held before it opens, so `SoleHolderRedials` follows from what the
  pool is in between.
- `ProcessProofs`: `TypeCorrect`, `RunningMeansServedInv`, `BetOnceInv`,
  `FeedFollowedInv`, assuming `StrategyAssumption` and `ProcessAssumption`.
  `BetOnce` needs that the strategy state remembers every bet counted, also in
  the copy a goroutine read, as long as no two goroutines were inside `Select`;
  that rests on a lemma about `Select` (`SelectSound`): what it bets was not yet
  bet, and is marked.
- `PriceFeedProofs`: `TypeCorrect`, `NoOrphanInv`, `RegisteredRunsInv`.
  Registering and running are proved together: each is what the other needs at
  `Exit`, where the deferred stop acts on whoever is registered.
- `PlaceProofs`: `FloorRounds` and `CeilRounds` show for every argument that the
  helpers return the greatest tick below and the least above. `TypeCorrect`,
  `LimitIsTickInv`, `LimitFairInv`, `LayNotLostInv` and `OnlyDustRefusedInv`
  follow for every book, scope and stake. The invariant remembers with which
  arithmetic a request was made, and why it was refused or skipped
  (`LayRequest`, `BackRequest`, `Refusal`, `LaySkipped`). `LayNotLost` rests on
  the ladder: 1.1 times a price is never rounded up under the price.
- `FeedProofs`, Triple-S: `TypeCorrect`, `OneRunInv`, `LossTendedInv`,
  `OneFeedInv`, `DownClosedInv` and `FeedKeptHolds`, assuming
  `TripleSFeedAssumption`. `OneRun` is inductive. `LossTended` is not, because a
  loop about to clear its flag tends to nothing; the invariant says who does
  (`LossAttended`), and that the context outlives the client. `FeedKeptHolds` is
  the refinement: by `OneRun` the loop that holds the flag is the one `Runner`
  chooses, so a step of that loop is a step of the promise (`RunMoves`) and a
  step of anything else leaves the run as it was (`RunStays`); it also needs
  that nothing is reported or stopped while the client is being opened, and that
  only a run with attempts left counts them (`AfterOpening`). `OneFeed` needs
  where the one thing is that makes a feed, as it passes from a connection to
  the loop of its loss, from the loop to its dial, and back (`Chain`).
  `DownClosed` needs whose every connection is that has come up: the client's,
  or awaited by whoever dialled it (`Placed`).
- `FeedProofs`, TPD: `TPDTypeCorrect`, `TPDNewestOnly`, `TPDDistanceTrue`,
  `TPDStatusTrue`, `TPDStatusForward`, assuming `TPDFeedAssumption` and
  `ScriptAssumption`, for any races, scripts, days and queue. What the handler
  was told is a function of two snapshots of the race, the last one and the one
  it was joined at, because distances only fall in between (`Accurate`). None of
  the properties is inductive across a sweep, which forgets the race: then
  `stale` covers what was handled, so that what still comes is newer
  (`Ordered`), and either nothing is left to come or the race was at the post,
  and is joined again as it was.
- `PegasusProofs`: `TypeCorrect`, `StatusTrueInv`, `InReachInv`,
  `SessionForStakeInv`, `ScopeServedInv`, `NewFeedSparedHolds`, for any
  documents, any number of starts and processes. `InReachInv` is about clients
  that were not closed: what comes up behind `Stop` is `"astray"`, and
  `FatalKept` shows it. `Stages` says what each stage of the kernel has, `Reach`
  that what is held is of the last generation and that a start has not yet
  opened what it has not come to, `Known` what the status is of a feed that the
  start has passed, `Served` what `NewProcess` made sure of. What a heeded
  report changes is one lemma (`ReportDoes`).
- `LogsProofs`: `TypesHold`, `RingIsRecent`, `LatePanicsNot`, `WindowKept`,
  `StopLeavesNothing`, `CountTrueInv`, `RateKeptHolds`. `RingIsRecent` is the
  refinement: an empty ring is the empty sequence, an `add` appends to the copy
  and cuts its head (`AddKeeps`, by cases on the slot written), anything else
  leaves the copy alone. `WindowKept` needs that the age of a window and the
  time its line went out agree (`WInv`). `StopLeavesNothing` needs to know who
  tends to a line that is not settled: the queue holds it, the sink is sending
  it, or a window counts it (`Tended`), and that the last sweep closes every
  window. `CountTrueInv` needs that a line on its way to the queue, or in it, is
  there once and is not counted yet (`Fated`); `RateKeptHolds` that a channel's
  calls of the last `n` units and its tokens, with what it has earned and not
  yet been credited, never exceed a bucket and `n` together, for every `n` that
  is remembered (`Paced`).
- `ServiceProofs`: `TypeCorrect`, `ActsAllowedInv`, `LeftDownInv`, for any
  requests and keys. `ActsAllowed` needs that what is cached, fetched or looked
  up was published at some time (`KeysPublished`); `LeftDown` that a main past
  its wait has no request that was let in and not given up on (`Quiet`).

Model-checked only: the liveness properties (`DrainEnds`, `CancelledEnds`,
`StopsForGood`, `RunEnds`, `Resolved`, `LossReported`, `Settled`,
`RotationHeard`): out of the prover's reach. Every safety property of every
passing run is proved.

## 5. Not modelled

Prices, runners, GPS and unit sizes (facts of a message or a race); HTTP, MQTT
and UDP calls; read-only operations of the kernel and the API; the layout of
files and S3 calls under the store; formatting. The Betmatic client is calls and
a table of bookmakers: its session is one of `Engine`'s. Triple-S messages are
decoded without state and are inputs of `Process`. Of the TPD client the watch
for a quiet socket, which only warns, and the decoding of a datagram are left
out; of the logger, which of its records a query selects. Venue tables are
names. `apps/_davo` is in a directory the build ignores.

Hazards without a property, each noted in `PROJECT.json`: bets on goroutines of
their own that outlive their session, a rebuilt process that forgets what it
bet, a message after the finish, polls shared between processes without a count,
a poll left on by a stopped process, and a deadlock that would turn on the MQTT
library's `Disconnect`. In each the code promises nothing the model could hold
it to, or the answer is in code that is not here. That dust is all the
Betfair client refuses is proved, and in no run.

The source at this commit does not build as a whole (the signature of
`engine.Placer` and the interface of an application's status have moved ahead of
their users); the modules follow the code of each package as it stands.

## 6. Plan

The order was, most important first: `Engine` and `Kernel`; `Strategy` and
`Process`; `PriceFeed`; `Ticks` and `Place`; `TripleSFeed`; `TPDFeed`;
`Settings` and `Pegasus`; `RecentLog`, `Ring` and `Logs`; `Service`. All are
there, with their proofs. `Feed` came last.

Left: `Pegasus` composed with `Feed` in place of its own `Lost`, `OnFeedFatal`
and `Ends`. What stands in the way is that a Triple-S client that subscribes
while a loop waits to report its loss makes two steps of `Pegasus` at once. And
an isolation property of `Kernel`: an operation on one process leaves the status
and the sessions of every other alone.
