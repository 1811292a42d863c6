# devpit in TLA+

devpit is a local dashboard of the pull and merge requests that want a
developer's attention. A sync engine polls GitHub and GitLab, appends what it
learns to an event log in SQLite, and an HTTP server folds that log into a ranked
list that a browser keeps live over server-sent events. This directory models
the parts of it where steps of several actors interleave or fail half way,
checks them with TLC and proves the core with TLAPS.

## The system

| Part | Source | State it keeps | Operations | What is hard | What makes it correct |
|---|---|---|---|---|---|
| Poll cycle, reaping | `internal/engine/cycle.go` | none across cycles but backoff | `cycle`, `persist`, `reap`, `confirmGone`, `fail` | the forge moves between calls; any call fails; the process dies between two transactions | nothing is lost, nothing is removed that is still mine, a removed item can come back |
| Scheduler | `internal/engine/{engine,connection,backoff}.go` | tickers, backoff gate, identity | `Run`, `run`, `resolveIdentity`, `shutdown` | two tickers and `select`, a shared gate, permanent and transient identity failures, cancellation anywhere | the forge's floor is honoured, both tiers go on, shutdown leaves no cycle behind |
| Event log, cursors | `internal/storage/{events,cursors}.go` | `events`, `sync_cursors` (durable) | `WriteEvents`, `LatestItemFacts`, `AllOpenTicketKeys`, `LoadCursors`, `SaveCursors` | identity of a row is a hash over all history | one removal per episode, latest fact decides |
| Sync log, health | `internal/storage/synclog.go`, `internal/api/connections.go` | `sync_log` (durable) | `WriteSyncLog`, `LatestOutcomesPerOperation`, `computeHealth` | rows of operations that never run again | the dot recovers, and shows a failure while it lasts |
| GitHub provider | `provider/github` | snapshot cache, approver cache, baseline (memory) | `FastPoll`, `Reconcile`, `ResolveOpen`, `graphqlJoin` | several calls per poll, partial failure | complete only when it is, degraded never downgrades |
| GitLab provider | `provider/gitlab` | open-set cache, verdict baseline, approver cache (memory), to-do watermark | `FastPoll`, `Reconcile`, `graphqlJoin`, `openSetRefresh`, `emitNewVerdictSignals` | the cache outlives sweeps and to-dos, facts of several ages in one snapshot, memory lost on restart | memory never replaces newer facts, a verdict is signalled once it is news |
| Attention fold | `internal/attention` | none (pure) | `List`, `Fold`, `foldItem`, `computeSince`, `pin` | two clocks, rows that come late, removals in between | activity is real, onsets hold, nothing dimmed is still mine to do |
| Jira refresher | `internal/jira`, `internal/storage/jira.go` | `jira_tickets` (durable) | `sweep` | keys read earlier, rows deleted later, the process dies in between | open keys have a row, others none, a status stays, somebody is told |
| Store open, lock, schema | `internal/storage/{storage,schema,lock*}.go` | lock file, `schema_version` | `Open`, `migrate`, `Close` | crash between migrations, second instance, an older build | one writer, no half migration |
| SSE hub | `internal/api/events.go` | client set | `register`, `broadcast`, `handleEvents` | full buffers, connect races | a client hears of every change or reads it |
| Dashboard | `frontend/src/lib` | list, connections, timers | `hydrate`, `refresh*`, `toggleFlag` | overlapping reads, reconnects | the newest answer stays |
| Pins | `internal/storage/pins.go`, `internal/api/flag.go` | `handle_next` (durable) | `SetHandleNext`, `ListHandleNext` | pins outlive their items | pinned items lead, in the order they were pinned |
| Update checker | `internal/update` | latest version | `check` | none | monotone hint |

The engine has one goroutine per connection; it is the only writer of `events`
and `sync_cursors`. The API reads through a second pool, so a read sees the
database between two transactions. The engine tells the hub after a cycle; the
hub tells the browsers; they read again. The Jira refresher and the pin handler
are the other two writers.

## Modules

| Module | Models | Kind |
|---|---|---|
| `EventLog` | the fact stream of one item, its two readers (engine and fold) | operators |
| `SignalDelivery` | what the fast tier promises about notifications | abstract specification |
| `ConnectionSync` | one connection: both kinds of cycle, the log, the cursor, the forge | component |
| `ConnectionSyncProofs` | theorems about `ConnectionSync` | proofs |
| `Scheduler` | when a connection polls: start-up, run loop, gate, identity, shutdown, outcome rows, health | component |
| `SchedulerProofs` | theorems about `Scheduler` | proofs |
| `LaggingView` | what a live list promises its reader | abstract specification |
| `Dashboard` | the browser's list, its requests and timers | component |
| `LiveView` | one tab beside the engine, the hub and the event stream; extends `Dashboard` | composition |
| `LiveViewProofs` | theorems about `LiveView` | proofs |
| `GitLabProvider` | what the GitLab provider remembers, beside the log and a changing forge | component |
| `GitLabProviderProofs` | theorems about `GitLabProvider` | proofs |
| `GitLabSweepProofs` | more of them: what a sweep settles, what an answer can do; extends `GitLabProviderProofs` | proofs |
| `AttentionFold` | what the fold computes from the rows of one item, and the list; extends `EventLog` | operators |
| `Store` | the database, its lock and schema, and what each writer does to its tables; extends `AttentionFold` | component |
| `JiraRefresher` | the refresher's sweep over the store; extends `Store` | component |
| `Board` | everyone who changes the list, and the list; extends `JiraRefresher` | composition |
| `BoardProofs` | theorems about `Board`, and so about the three above | proofs |
| `MCConnectionSync`, `MCScheduler`, `MCLiveView`, `MCGitLabProvider`, `MCBoard` | instances for TLC | model checking |

### EventLog

A history is the sequence of one item's `item.observed` and `item.removed` rows.
Only the order of ids within an item is ever used, so the position stands for
the row id. A row is its identity under the `UNIQUE` constraint: the dedupe key of
a snapshot is a hash of its facts, and the resurrection salt of `reap` is the
removal's id; the key of a removal is the id of the snapshot it supersedes. So
`INSERT OR IGNORE` is: append unless the row is in the history.

### ConnectionSync

The state is the forge (`forge`, `feed`), the durable tables (`log`, `recorded`,
`cursor`), and the goroutine: `phase` and the result under construction
(`found`, `heard`, `complete`, `next`, ...). Each call that leaves the goroutine is
an action, in the order of the code:

    Reconcile:  StartReconcile, SearchScope (once per scope), Join,
                Reap, ResolveOpen (once per leftover), WriteEvents, SaveCursors
    FastPoll:   StartPoll, FetchPull (once per listed thread), Join,
                WriteEvents, SaveCursors

Between any two of them the forge may change an item's state, my roles on it or
its repository (`FlipState`, `ChangeRoles`, `Archive`) or add to a thread
(`Notify`). Any provider call may fail (`ProviderFails`), a sole-approver
probe may fail alone (in `SearchScope`), a GraphQL batch may degrade (in
`Joined`), a lookup may fail (`ResolveOpenFails`), either transaction may fail
(`StorageFails`, `SaveCursorsFails`), and the process may stop anywhere
(`Crash`): what is durable stays, the rest is dropped.

What is abstracted:

- GitHub is the provider. The last search scope is the sole-approver discovery: the
  one whose probe may fail alone, and whose role a fetched pull request does not show.
- The facts the engine and membership do not look at are one `detail`, and what
  a read finds there is arbitrary: fresh, degraded or carried forward.
- An item that is not accessible (404, 410) counts as not open, as `ResolveOpen`
  treats it. An archived repository stays archived.
- The signals of the sweep (`review_requested`) and of verdicts are not followed, only
  those of notifications; a role that is mine only through a team is not modelled.
- The listing of a poll holds every new entry (the code reads one page).
- A failing `LoadCursors` ends a cycle before it starts and changes nothing here.
- When a cycle starts is the scheduler's business; here an idle connection may
  start either kind at any time.

### Scheduler

The other view of the same goroutine: not what a cycle does to the log, but when it
runs and what it leaves in `sync_log`. `place` is where the process is: `off`,
`starting` (the identity call of `Run`), `seed`, `idle` (the `select`),
`identity`, `poll` and `persist` (inside `cycle`), `dead` (a permanent failure) and
`closed` (the provider is closed). The loop takes a tick (`TakeFast`, `TakeRecon`): the fast ticker
is created first, so a loop that waits in `select` is woken by the fast one of two ticks that fall
together (`fastFirst`); only a loop that was busy finds both and takes either.
`Begin` is the top of `cycle` with its early returns, and each failing call ends in
`Fail` or `StorageFails` with the backoff and the row the code gives it. `Cancel` may
happen anywhere; `Close` is the `Done` case and competes with the ticks.

Time is a count of minutes, the period of the fast ticker and the unit of the backoff.
A cycle runs between two ticks; one that overruns (`Overrun`) only makes ticks drop.
Outcomes are collapsed to what health tells apart (`ok`, `degraded`, `failed`). A
restart loses the gate, the streak and the identity, which live in memory, and keeps
the rows. `promised` and `asked` are history variables: what is left of the wait
the forge asked a cycle for, or any caller of the process.

The forge has a mood: `fine`, `offline`, `limited` (with or without a hint), `revoked`,
or `poisoned`: one notification leads to a pull request that answers 404, so that
fast polls fail and sweeps do not. A row of `sync_log` that cannot be written is
dropped, as in `writeLog`.

Not modelled: an unknown provider type or a failing factory (a validated configuration
does not produce them), a provider without a fast tier (both have one), and that `Run`
resolves the identities of several connections one after the other.

### Dashboard and LiveView

What a tab shows against what the server has committed. The list is the number of changes
committed so far; which change it was is of no consequence here. `Dashboard` keeps
the requests in flight with the version they read, the screen (`shown`, `ready`, `stale`,
`loadError`, `loading`) and the two timers. The generation numbers of the code are
only ever compared with their counter, so the model keeps the newest request of each slice
(`hydrateOwner`, `attentionOwner`) instead of a number. The answers of two requests may
arrive in either order.

`LiveView` adds what makes the tab read again. The engine's end of a cycle is three
steps, `EventsInserted`, `AttentionChanged`, `CycleEnds`; where `SaveCursorsFails`
comes between, nobody is told, and the retry inserts nothing. The hub's channel holds
`Buffer` frames and drops what does not fit. `handleEvents` sends its headers before it
registers, so `Opened` may come before or after `register`. A stream may break
(`LoseStream`) and either reconnects by itself or is closed and reopened by
`scheduleReconnect`. `Restart` keeps the list and loses hub and requests.

A request that fails is `broken` or `refused`: `isRetriable` schedules a retry for network
failures, 429, 500 and 502 to 504 and for nothing else, and a failure that is not retriable
leaves a pending retry alone.

Two history variables say what the properties exempt. `untold` is why, since the tab's last request,
nobody told it of a change: a frame dropped at a full channel or sent between headers and
registration (`frame`), a failed cursor write (`cursors`), a pin, which is not broadcast (`pin`), or a
failed refresh that the code forgets because no hydrate has succeeded yet (`load`); it is `missed`
when there is any reason. `refused` holds the slices whose newest request failed for good while no
retry was pending. The properties that speak of old lists and errors exempt these
cases; the run `live_converges` shows what the first two reasons come to.

Abstracted: of a hydrate's three reads the one of the attention list is followed, another
may fail and fail it; the slices of connections and of the sync log follow the same rule
and have no error state. Frames other than `attention.changed` are one frame, `sync`.
Timers fire at any time, so delays and `Retry-After` are left out. Not modelled: the update banner, `toggleFlag`
and its optimistic list, the Jira refresher's broadcast, a TCP connection that dies
without either end noticing.

### GitLabProvider

A cycle of `provider/gitlab` seen from the two maps it keeps in memory, `openSnapshots` and
`verdictBaseline`. The calls that leave the goroutine, in the order of the code:

    Reconcile:  Reconcile, fetchScopeMRs (once per merge request), AskForJoin, the join,
                Joined, WriteEvents
    FastPoll:   FastPoll, fetchMR and fetchMRAgain (one read per to-do), AskForJoin, the join,
                Joined, AskForRefresh, the refresh, Refreshed, WriteEvents

`AskForJoin` and `AskForRefresh` are `runMRBatches`: a batch fails or a node is null, and so any
set of merge requests may stay without an answer. The join and the refresh then handle
one merge request after the other (`DropArchived`, `Enrich`, `Carry`, `Refresh`), since
`emitNewVerdictSignals` may read its notes from the forge in between. `WriteEvents`
is the engine's part: it stores snapshots and signals, reaps after a sweep, and
confirms the leftovers.

Two to-dos may name the same merge request, and the poll then reads it twice. Reads that agree are one
snapshot, since the second is a duplicate; when they differ, `earlier` keeps the first and
`events` the second, both are joined, and both are stored in that order
(`WithEarlier`, `Inserted`).

A snapshot holds the version of the facts that REST shows, the version of those that
only GraphQL shows (`-1` before the first answer), its state and roles, and whether the
merge gate is known. Versions say what the properties ask: which of two facts is
older. Facts that return to an earlier value, and what `INSERT OR IGNORE` makes of them, are in
`ConnectionSync`. Verdicts are kept per reviewer with the system notes
that announce them, including withdrawn ones.

Roles are `mine` (author, assignee, reviewer: what `observedFromMR` reads off the merge request) and `sole`
(the only one who may merge). `sole` is appended by the sweep alone: a to-do reads the same version without
it, and the next sweep's row with it may be a duplicate of an older one, which `INSERT OR IGNORE` drops.
Such an item is on the board without a role of mine until one of its facts changes. Membership is
therefore `OnBoard` for the items of a sweep, and role and version are independent in every
argument below. `sole` comes and goes with the members of the project (`MembersChange`), without a new
version of the merge request.

Four history variables say what the properties need: `firstSight` is the number
of notes when the provider saw a merge request first, `owed` the changes of verdict it has
seen and not announced, `forgot` the items whose known gate it cannot remember (a
restart, an eviction, an answer without a single node, which the code returns unmerged, two reads of one poll
of which one has the gate), `overtaken` the items cached as open although a later read was closed.

The last one stands for a defect. `FastPoll` deletes an item that it reads closed from the cache, "so
subsequent open-set refreshes don't emit stale item.observed events for it" (`fastpoll.go:68-69`). If an
earlier to-do of the same poll read it open, `cacheOpenSnapshots` (lines 107-113) walks over both
snapshots afterwards and caches the open one again. The next poll without a to-do for it refreshes
that snapshot, and once a pipeline moves the closed item is back on the board as open. `NeverReverted` exempts
`overtaken` for that reason; without the exemption TLC violates it in the instance of `gitlab`.

`VerdictHeard` exempts what the code gives up: a result that is lost with its
signals (`Abandon`: the baseline has moved), a note that is not on the first page
(`buried`), and a verdict that is withdrawn or replaced before its notes could be read. Each is
named as a hazard.

Abstracted: `mine` stands for the three roles REST shows; the to-dos of a fast poll are any set, with at most
two different reads of one merge request; the query answers both or neither; every
sweep is complete; reap and its write are one step, as `ConnectionSync` shows they may be. Initially a merge
request is open and `mine` or `none`. Not
modelled: drafts (which hide verdicts and gates), to-do signals and their watermark,
the approver cache, that carried flags are OR-ed.

### AttentionFold

Operators over one item's rows, oldest first: snapshots, removals and, in between, signals.
`statesFor` is the signal table of `states.go` read as a set, since the order of the chips is
presentation. `rankingTime` and `rankingTimeExcludingCIFailed` are
the two clocks and `updatedAt` the choice between them; `ageBand` is where an item stands as
fresh, stale or old. `computeSince` gives each tag its onset: the oldest
snapshot of the unbroken run that shows it or, for a mention, the earliest one. `Fold` sorts what
is on the board and `pin` puts the pinned items first. `Sorted` says what a sorted list is rather
than how to compute one: the sort of the library is defined by an operator the provers cannot unfold.

Times are days, so that age thresholds can be passed. Left out: a threshold of 0, which switches
a band off; signal counts, what dims a row and other payload of it; payloads that do not parse.

### Store

A process is `out`, `locked`, `migrating`, `serving`, `draining` or `closing`. `acquireLock` to
`Serve` is `Open` and the beginning of `run`; `OpenFails` is each of its error paths, which closes
the pool and releases; `Cancel`, `ClosePools` and `release` are the end of `run` and `Close`.
`Crash` may come anywhere, and the operating system drops the lock. Each schema step
is one transaction with its version (`Migrate`), and builds differ in how many they
know: a newer database is opened by an older build without a word, as in `migrate`.

The tables are the events by item, the pins and the cached tickets. Each process has its own
`configured`, the items of the connections in its config; a database keeps the rows of
connections that have left it (`scripts/db-trim.sh:16` purges them, while nothing runs). `WriteEvent` drops a row
whose identity is known; `SetHandleNext` keeps the time of a pin that is set again;
`UpsertJiraTicket` keeps the status when a fetch fails; `AllOpenTicketKeys` is the query
over the latest facts of all connections, configured or not. A batch of `WriteEvents` is one row per step here: the atomicity of the batch is
the subject of `ConnectionSync`. Left out: databases in memory, and `lock_other.go`,
the platforms where nothing is locked.

### JiraRefresher

`CollectKeys`, one step per key (`Fetched`, `FetchRefused`, `FetchBreaks`), `Prune` or
`PruneBreaks`, and `AttentionChanged` at the end of the sweep, while the engine writes in
between. The sweep lives in memory and goes with its process. `news` is a history variable: a
status was stored that nobody was told of since. An answer without a status
(`Fetched(k, Blank)`) is taken like any other and empties the row, where a refusal would not.

### Board

What changes the list: the engine observes, reaps and adds signals with the forge's times, which are
earlier than the day they are observed; a reader pins and unpins; the refresher
caches; days pass; processes come and go. The facts that the engine writes are arbitrary: that it writes
the right ones is `ConnectionSync`'s matter and `GitLabProvider`'s. Initially there is no
database, or one that an earlier build has left with each item seen once.

`List` and `badge` are the answer of `GET /attention` by a process, for the connections
in its config. The handler reads events, pins and tickets one after the
other; here they are of one instant, and what a reader sees of two instants is `LiveView`'s
matter. The day never goes back. A context that is cancelled stops all writers,
so nothing is written after `Cancel`.

## Checks

| Run | Expect | Question |
|---|---|---|
| `sync` | pass | is the log well formed, is no signal lost, is no removal unjustified, is the board right after a sweep, does it converge |
| `snapshot_dedupe` | violation | does a changed fact always make a new snapshot |
| `scheduler` | pass | is the hint a floor, is shutdown clean, does the dot hold, what do failing fast polls do to the sweeps, do both tiers recover |
| `dot_clears` | violation | does the dot clear once both tiers succeed |
| `floor_kept` | violation | is the forge's floor kept by start-up too |
| `live` | pass | does the tab move forward only, does it hear of changes, does every error that is retried pass |
| `cold_load` | violation | is there a list on the screen once a hydrate has succeeded |
| `live_converges` | violation | does the tab settle on every list the engine made, also past a full channel |
| `gitlab` | pass | does memory ever replace newer facts or drop a gate, are verdict signals news and complete, does the board converge |
| `reaped` | violation | does an item that was reaped stay off the board until it is found again |
| `downgrade` | violation | is carried enrichment the last that was known |
| `board` | pass | has the database one writer and a whole schema, do its readers agree, are order, onsets, pins and badges stable, does the ticket cache settle |

**`sync`**: one pull request with its thread, two scopes (one ordinary, one
sole-approver), `MaxChanges = 2`, `MaxNotes = 1`, `MaxFaults = 2`. Items
interact in the code only by being in one batch (one failure discards all,
one failed lookup forgets all answers); the theorems below are for any set
of items, so the run keeps to one and spends its states on depth. Two changes
are enough to close and reopen an item, or to lose a role and regain it, within one
cycle; two faults allow a failed retry of a failed cycle, and a crash after a
degraded join.

- `EpisodesAlternate`: a removal directly follows and names an open snapshot, a
  salted snapshot directly follows and names a removal.
- `NoSignalLost`: the cursor is never past a notification whose signal is not stored.
- `NoGhostRow`: an open row without a role of mine exists only beside a signal.
- `RemovalsJustified`: what a cycle removes was closed, archived, no longer mine, or
  changed during that very cycle.
- `SweptItemsShown`: what a complete sweep saw is on the board after its write.
- `SweepSettles`: the write of a complete sweep leaves the board right about every item that
  the forge did not touch during the sweep, in both directions, and the write of any other cycle makes
  it wrong about none. This is what one sweep does for `BoardConverges`; it is checked
  by the step, so it also holds while the forge never is quiet.
- `DeliveryImplemented`: `ConnectionSync` implements `SignalDelivery`, with the cursor
  as acknowledgement and archived repositories exempt.
- `BoardConverges`: once the forge is quiet the board settles on the right members.

**`snapshot_dedupe`** finds that facts which return to an earlier value are not
recorded: `INSERT OR IGNORE` compares with all of the item's history, whereas the
comment in `normalize.go` and `docs/Event_Taxonomy_and_Storage.md` compare with the
previous snapshot. This is why `BoardConverges` speaks of membership only: the
details on the board may stay old.

**`scheduler`**: the real ratio of the tickers (`ReconEvery = 3`), one hint longer than
the longest exponential delay (20 minutes) beside none at all, two changes of the forge's
mood, one storage failure, crash or overrun. Two changes suffice for a failure of
each kind followed by another or by a recovery, with every streak up to the cap in
between; a crash adds a restart in the middle.

- `HintKept`: after a rate-limited cycle the forge is not called before the hint is over.
- `ShutdownQuiet`: no cycle records a failure once the context is cancelled.
- `DotHeld`: the dot gets better only when a tier whose row was as bad as the dot succeeds.
- `SweepWaitsForFast`: between a failure of either tier and the next fast poll that succeeds no
  tick starts a sweep. The gate opens to a fast tick, since the fast ticker is ahead of the slow one; if
  its poll fails, the gate is shut again before the slow tick is read. So a poisoned notification
  holds up every sweep for as long as it is there, and what `docs/Provider_SDK.md` says of the sweep,
  that it heals what the fast tier missed, does not hold for that time.
- `TiersRecover`: once the forge serves both tiers, both recover from every failure.
- `ShutdownCompletes`: a cancelled process closes its provider and ends.

**`dot_clears`** starts with a revoked token, which writes a `startup` row, has the token
fixed and the process restarted: both tiers succeed for ever, and the dot stays
red, because the `startup` row stays the latest of its operation.
**`floor_kept`** has the identity call of start-up rate limited: `Run` drops the error with
its hint, and the seeding cycle calls again at once.

**Fairness of `Scheduler`** (`FairSpec`). `WF_vars(StartUp \/ Cycle \/ Close)`: the
goroutine goes on, each call being bounded by a timeout. `WF_vars(Minute)`: time
passes. Nothing is assumed of the order in which `select` takes two ticks that wait: the order that
matters, of two ticks that come to a waiting loop, is in the model.

**`live`**: one connection, one change, three requests, a channel of two, two faults. The
first hydrate reads version 0 or 1, so one change is enough for an old and a new
answer to be in flight together; three requests are a first hydrate, one
for the opened stream and a refresh, all overlapping; two faults allow a lost stream or a
restart together with a failed request. A channel of two fills with the two frames
of one cycle, and the next is dropped.

- `ViewImplemented`: `LiveView` implements `LaggingView`: what is shown was the list at
  some time, and only a later one replaces it (INV-9).
- `NewerErrorStays`: only the newest read clears the stale mark, and shows what it read.
- `OldListIsRefreshed`: a tab with an old list has something under way that makes it read
  the new one, or `missed` holds, or its newest read of the list is in `refused`.
- `ViewConverges`, `ErrorsPass`: hence it settles on the list, no loading state lasts, and no error
  does whose request was retried or was followed by another one that succeeds.

**`cold_load`** starts with the first hydrate, a refresh of the list that overtakes it and
fails, and then the hydrate's answer: the list is not taken, for a newer request had
claimed its slice, but `#ready` is set and the error cleared. The dashboard is blank, neither
stale nor loading, and nothing reads again before the next change or reconnect.

**`live_converges`** has no faults. Frames of ended cycles fill the channel, the change of the list is
announced to it and dropped, and the client reads on: every further frame is one of the other kind,
which makes no client read the list. The comments on the buffer say that the next frame brings a
slow client fully up to date. With sixteen places the channel fills when a tab
does not read for sixteen cycles. A failed cursor write and the time between headers and registration lead to the same
end. What INV-9 says of older failures does not hold either (a hydrate that fails after a newer
refresh has succeeded marks the list stale until it is read again); no run shows that.

**Fairness of `LiveView`** (`FairSpec`). Weak fairness of the end of each
connection's cycle (local database writes), of `Connect` and `Deliver` (the browser's
reconnect and the hub's writer loop), of the two timers, and of each request,
which the server answers or the client times out. The list, the engine's cycles and
faults are not fair; faults are bounded.

**`gitlab`**: one merge request, one reviewer, two changes of the forge, one fault. As in
`sync`, merge requests meet only in a batch, whose answers are arbitrary here. Two changes
allow a verdict and its replacement or withdrawal, an item that closes and comes
back, one that closes between two reads of a poll and comes back, or one that closes and whose pipeline moves after
its removal; the fault is a missing
answer, a gate in transition, unread notes, a lost result or a restart, at any place.
Sweeps and polls are not bounded. It is the largest run, 870,693 states.

- `NeverReverted`: no row is appended with older REST facts than a row before it, whichever of a sweep, a
  to-do, a refresh or a carried snapshot writes last; items in `overtaken` are exempt.
- `OnlyNewVerdicts`: a signal is of a note written after the provider first saw the item.
- `VerdictHeard`: a change of verdict the provider has seen is in the result under way or will be
  seen again.
- `GateKept`: an open item with a known gate keeps one, unless it is in `forgot`.
- `BoardConverges`: once the forge is quiet the board holds the right items, although the
  cache may bring removed ones back in between: a cached item whose facts have settled
  refreshes into a duplicate, and the next sweep has reaped it.

**`reaped`** needs no fault: a merge request is swept, closes without a to-do, is reaped, and its
pipeline moves; the next fast poll refreshes the cached payload, open and mine, and the
log takes it. **`downgrade`** has a refresh store newer GraphQL facts without caching them, then
a title change and a sweep whose batch fails: the carried enrichment is the one of the
sweep before.

**`board`**: two items, two ticket keys, three facts (only I can approve, somebody else can
too, merged), mentions and broken builds, two processes of which one knows
a schema step more and the other has only one item's connection in its config. Two items are what an order needs. The thresholds are 1 and 2 days, the days
0, 2 and 3, and news comes at once or three days late, so that an item can be fresh, stale and
old, by ageing as well as by late news. `MaxSteps = 2` bounds rows, pins, stops, failed
fetches and answers without a status together; starting, migrating, sweeping and the passing of days are not bounded. From a database with both items two rows
allow a removal and its undoing, or two signals in the wrong order; two
stops allow a crash in the middle of a migration and another in the restart, or a handover to the
other build and back.

- `WriterHoldsLock`: who can write holds the lock, through crashes, failed starts and slow stops.
- `SchemaWhole`: the recorded version is the steps that ran, wherever a process died and
  whichever builds took turns; who serves finds every table it knows.
- `ReadersAgree`: the refresher's query (latest fact) and the fold (latest snapshot against
  latest removal) hold the same items open; what the query has beyond the list belongs to
  connections that are not in the config, whose tickets are fetched as long as their rows stay.
- `ListedOnce`: everything on the board of a configured connection is in the list once, pins lead in their order, the rest goes by band.
- `RealActivityCounts`: what is not old has seen more than broken builds within the threshold.
- `OnsetSteady`: while a tag stays its onset stays; that of a mention only moves back.
- `PinsKeepOrder`: items that stay pinned keep their order, on the board or off it.
- `AgeingOnlySinks`: time alone reorders two items only when one drops into a lower band, or when a broken
  build stops counting that is older than all else known of its item. The second is an
  oddity of the code: an item whose newest signal is an *old* broken build is listed by that
  build, however recent its snapshot, and rises when it passes the threshold. The instance has no day
  left for that to happen; the theorem covers it.
- `BadgeKept`: an item that stays on the board with its keys keeps its badge, whatever is refused
  or out of reach, unless a sweep that read the keys while the item was gone deletes the
  row, or the tracker answers without a status: `client.go:91` does not look, and `jira.go:30`
  replaces a status by the empty one, which only a failed fetch is kept from doing.
- `CacheConverges`: the cache settles on a row for every open key and none for any other.
- `NewsTold`: nobody waits for ever to be told of a status, not even after a crash between its
  storing and the end of the sweep, as long as some item with a key is open.

**Fairness of `Board`** (`FairSpec`). `WF_vars(Going(p))`: a process that opens or closes goes on,
each step being a local call or one with a timeout. `WF_vars(Sweep ...)`: the refresher's
ticker comes again, and of a key's outcomes the good one is taken in the end, since
refusals and failures are bounded. Nothing makes the engine write, a reader pin, a day pass or a process start.

**Fairness of `GitLabProvider`** is that of `ConnectionSync` below: the two modules are views
of one goroutine.

**Fairness of `ConnectionSync`** (`FairSpec`). `WF_vars(Work)`: a started cycle goes on, each of its
calls being bounded by a client timeout. `SF_vars(StartReconcile)`: an idle
connection starts a sweep again and again, because the reconcile ticker's channel
keeps one missed tick and `select` picks among the ready channels at random. No
fairness is assumed of the forge, the fast tier or failures; faults and changes
are bounded, which is the assumption that they stop.

## Theorems

In `ConnectionSyncProofs`, for any items, scopes, details and bounds, from
`ConstantsAssumption` and nothing else:

| Theorem | States |
|---|---|
| `FoldAgreesWithReap` | the fold shows an item exactly when the engine's latest-fact read calls it open |
| `TypeCorrect` | `Spec => []TypeOK` |
| `Invariance` | `Spec => []IInv` |
| `EpisodesTheorem`, `SignalTheorem`, `GhostTheorem` | the three safety invariants |
| `RemovalTheorem`, `SweptTheorem`, `SettlesTheorem` | the three action properties |
| `CycleBounded` | `Spec => CycleRunsOut`: a cycle ends within a number of steps that is fixed when it starts |
| `DeliveryTheorem` | `Spec => DeliveryImplemented`, the refinement |

The invariants are not inductive by themselves, because a cycle computes in
memory what it writes much later. `IInv` adds what is true in between:
`PhaseShape` (what each phase may hold), `ReapIsCurrent` (the facts read by `Reap`
are still the log at `WriteEvents`: nobody else writes it), `CursorCovered` (in
`save`, everything up to `next` is stored), `GhostsHeard` (a role-less open
snapshot in flight comes with its signal), `SweepCovers` (an item that was open and
mine and untouched since the sweep began has been seen by every scope passed that
finds it) and `FactsInOrder` (revisions along a history and towards the forge never
decrease). The last is what makes `SweptItemsShown` true in spite of
`INSERT OR IGNORE`: a snapshot that is dropped as a duplicate is a duplicate of an
open one, and no closed one of a later revision stands after it.

`SettlesTheorem` needs two more. `FoundCurrent`: what a sweep found of an item the
forge has not touched is what the forge has now, and a sweep found it by a role. `ReapRemovesAbsent`: from
`Reap` to the write of a complete sweep, what is to be removed are exactly the items shown as mine that it
has not found.
Together with `SweepCovers` they decide each item both ways: on the forge and mine, it was
found and is on the board; otherwise it was not, and is removed or confirmed.
`CycleRunsOut` counts the calls a cycle still has to make (`StepsLeft`) and shows that each of its
steps makes one less, that the forge adds none, and that no start is longer than `CycleLength`.

In `SchedulerProofs`, for any reconcile interval, hints and bounds, from
`SchedulerAssumption` and nothing else:

| Theorem | States |
|---|---|
| `TypeCorrect` | `Spec => []TypeOK` |
| `HintTheorem` | `Spec => HintKept` |
| `ShutdownTheorem` | `Spec => ShutdownQuiet` |
| `DotTheorem` | `Spec => DotHeld` |
| `ShutdownBounded` | `Spec => ShutdownRunsOut`: once cancelled, at most five steps of the process are left, and each of them is one less |
| `SweepWaitsTheorem` | `Spec => SweepWaitsForFast` |
| `GateBounded` | `Spec => []GateOpensAgain`: without a standing failure the gate is open, and it never stays shut for longer than 17 minutes or a hint and a minute |

`HintKept` needs `HintInv`: between cycles the gate is shut at least as long as
was promised, and in a cycle nothing is promised any more. The other two
follow from `RowSteps`, which says what each step can do to the rows, and
`HealthIsWorst`, which says what the `CHOOSE` of `computeHealth` returns. `GateBounded` rests on
the table of the delays (`DelayBounded`): a streak is capped, so no sequence of failures, hints and
overruns adds up. `SweepWaitsTheorem` needs only that a waiting loop whose gate has opened after a failure
has the fast tick before it (`FastComesFirst`).

In `LiveViewProofs`, for any connections, buffer, number of requests and bounds, from
`DashboardAssumption` and `LiveViewAssumption`:

| Theorem | States |
|---|---|
| `TypeCorrect` | `Spec => []TypeOK` |
| `Invariance` | `Spec => [](TypeOK /\ IInv)` |
| `RefreshTheorem` | `Spec => []OldListIsRefreshed` |
| `ViewTheorem` | `Spec => ViewImplemented`, the refinement |
| `NewerErrorTheorem` | `Spec => NewerErrorStays` |
| `ErrorsTheorem` | `Spec => []ErrorsUnderWay`: with an error mark on the screen there is a retry scheduled, a read in flight that can end it, or a newest read that failed for good; the loading state has its hydrate in flight |

`IInv` says why an answer may be shown: `OwnersInFlight` (the newest request of a slice
is one that has not settled), `ReadsAreOld` (nothing shown or answered is ahead of the
list) and `NewestIsNewer` (the newest request, once answered, has read no
less than what is on the screen, whoever put it there). With these `ShowNewest` can only
catch up. `QueueIsRegistered` (only a registered client has frames) and
`OldListIsRefreshed` itself carry the other half.

In `GitLabProviderProofs`, for any merge requests, reviewers and bounds, from
`GitLabAssumption`:

| Theorem | States |
|---|---|
| `TypeCorrect` | `Spec => []TypeOK` |
| `Invariance` | `Spec => []IInv` |
| `RevertTheorem` | `Spec => NeverReverted` |
| `GateTheorem` | `Spec => GateKept` |
| `VerdictTheorem` | `Spec => []VerdictHeard` |
| `NewsTheorem` | `Spec => []OnlyNewVerdicts` |

The properties speak of the log, and what reaches it was computed from the cache
several calls before. `RestInv` orders the versions: log, then cache, then what is being
joined, then the forge (`LogBehind`, `BehindForge`, `ResultCached`), and a closed
snapshot in the result has no cached one behind it (`ClosedNotCached`). For an item in `overtaken` the cache
may be behind the log; what it lends to a refresh is then behind it, too, but what is read
from the forge never is, and the first of two reads is never behind the log nor ahead of the second.
`GateInv` says that a known gate in the log is in the cache or the item is in `forgot`
(`MemoryOfGate`), that both snapshots have it once the item is joined
(`GateCarried`), and that the first of two reads agrees with the cache about it unless the item is in
`forgot` (`EarlierCached`). `VerdictInv` says that answers agree with the notes they were read with
(`AnswersFounded`), so that the newest matching note exists, and that a signal names
such a note (`EmittedFounded`). `NewsInv` dates the verdicts: an answer is what was said when there
were as many notes as it has `seen` (`AnswersDated`), and each entry of the baseline what was said
at some time between first sight and the answer under way (`BaselineDated`). A verdict that differs
from the baseline then has a note younger than that time, and so has its signal.

In `GitLabSweepProofs`, from the same assumption:

| Theorem | States |
|---|---|
| `SweepInvariance` | `Spec => []SweepInv` |
| `SweepTheorem` | `Spec => SweepDecides`: once a sweep is stored, every item it returned is on the board, and no other one as mine |
| `AnswerTheorem` | `Spec => AnsweredNotDowngraded`: of an item the last query has answered no older enrichment is stored than was there |

Both are what the two findings of this component leave. A reaped item may come back from the cache
(`reaped`), but the next sweep has the last word: a snapshot it returns and the log already has is
not dropped in favour of a row that hides the item. That row would be a removal or a closed snapshot after
the duplicate. A removal salts the snapshot, and a row with its salt would lie after it (`RowsLookBack`). A
closed row has the newest version (`ClosedIsNewest`: only open rows come out of an outdated cache), hence the
one of the snapshot, and the same version is as open: `RestDecides` says that
there is one function from the version REST returned to open or closed for rows, cache, result and forge,
stated with an existential since no variable holds the past of the forge. There is no such
function for roles. Carried enrichment may be older than the log (`downgrade`), answered
enrichment is not: `AnswersNewer` orders answers and rows, `GraphBehind` everything and the forge.
The two properties were checked with TLC on the instance of `gitlab` with two faults before they were proved; they
stand in the proof module and belong to no run.

In `BoardProofs`, for any processes, builds, items, keys, statuses, facts, thresholds, delays and
days, from `ThresholdAssumption`, `StoreAssumption` and `BoardAssumption`:

| Theorem | States |
|---|---|
| `TypeCorrect` | `Spec => []TypeOK` |
| `Invariance` | `Spec => []IInv` |
| `WriterTheorem` | `Spec => []WriterHoldsLock` |
| `SchemaTheorem` | `Spec => []SchemaWhole` |
| `StartsTheorem` | `Spec => []StartsUnblocked`: the tables of the next schema step of a process that opens do not exist yet |
| `OpeningBounded` | `Spec => OpeningRunsOut`: each own step of a process that starts or stops is one less to go, and nobody else adds one |
| `ReadersTheorem` | `Spec => []ReadersAgree` |
| `ListedTheorem` | `Spec => []ListedOnce` |
| `ActivityTheorem` | `Spec => []RealActivityCounts` |
| `OnsetTheorem` | `Spec => OnsetSteady` |
| `PinsTheorem` | `Spec => PinsKeepOrder` |
| `AgeingTheorem` | `Spec => AgeingOnlySinks` |
| `BadgeTheorem` | `Spec => BadgeKept` |

`IInv` adds to the types what makes lock and schema safe together: `Owned` (a process that is not
out holds the lock, so there is one at a time) and `VersionIsRead` (while it migrates,
the version it works from is the one recorded, since nobody else can write). Without the first, two
processes would run a step twice; without the second, a step could be run that is there already.
The properties of the fold need no invariant but the types: they follow from what the
operators return on any log, with two lemmas on the way that say what `Max` and `Min` choose
(`MaxExists`, `MinExists`). `OnsetTheorem` is the longest: a row appended to a log
leaves the run of a tag alone unless it is a snapshot, and a snapshot that still shows the tag
extends the run at its new end.

`ListedTheorem` needs that there is a sorted list at all, or the `CHOOSE` of `Sorted` says nothing.
`SortingExists` shows it for every finite set and total order: take a least subset that has none, remove its
last element, sort the rest and append the element. The order is a set of pairs there, for a lemma that is
cited cannot take an operator. `Items` is assumed finite for this, and in `ConnectionSync` for counting the
steps of a cycle: a database has finitely many rows.

### What stays model-checked

The liveness properties (both `BoardConverges`, `TiersRecover`, `ShutdownCompletes`,
`ViewConverges`, `ErrorsPass`, `CacheConverges`, `NewsTold`): a proof needs the fairness conditions
and `ENABLED`, which the prover does not handle. Every other property of a passing run is a theorem. For
most of the eight the part that needs no fairness is one, too:

| Property | What is proved of it |
|---|---|
| `ConnectionSync` `BoardConverges` | a cycle runs out (`CycleBounded`), and a complete one settles the board (`SettlesTheorem`) |
| `GitLabProvider` `BoardConverges` | a stored sweep decides the board (`SweepTheorem`) |
| `TiersRecover` | the gate opens again (`GateBounded`), to a fast tick (`SweepWaitsTheorem`) |
| `ShutdownCompletes` | a shutdown runs out (`ShutdownBounded`) |
| `ViewConverges` | an old list has something under way (`RefreshTheorem`) and only a later one replaces it (`ViewTheorem`) |
| `ErrorsPass` | an error has something under way (`ErrorsTheorem`) |
| `CacheConverges`, `NewsTold` | a start is not blocked and runs out (`StartsTheorem`, `OpeningBounded`); nothing of the sweep itself |

What these leave to TLC is that fair steps are taken.

## Plan

1. `EventLog`, `SignalDelivery`, `ConnectionSync` and its proofs: done.
2. `Scheduler` and its proofs: done.
3. `LaggingView`, `Dashboard`, `LiveView` and its proofs: done.
4. `GitLabProvider` and its proofs: done.
5. `AttentionFold`, `Store`, `JiraRefresher`, `Board` and its proofs: done.
6. `GitHubProvider` (carry-forward, pruning, review baseline, the page size of the notifications),
   after the pattern of `GitLabProvider`; `toggleFlag` in `Dashboard`.

## Not modelled

- **GitHub's snapshot cache.** `ConnectionSync` lets enrichment be anything, which contains what the
  cache does and shows nothing about it; the page size and the review baseline go with it.
- **The tab's flag.** `toggleFlag` changes the list before the server has answered, while a read may be in
  flight. A comment there says that the change also arrives as `attention.changed`; pins are not
  broadcast, so until something else makes the tab read, what it shows is its own.
- **Approver sets** (`internal/storage/approvers.go` and the caches over it). The models take the
  roles as the provider reports them: `mine` means mine as far as the approver cache
  says, and a probe may fail at any time.
- **Update checker.** One poll a day that sets one hint; there is nothing to interleave with.
- **Transport, identity, wire types, configuration, rendering, the demo generator.** Data
  conversion or presentation, without state that several steps share. Their failures are
  actions of the modules above.
