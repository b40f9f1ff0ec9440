# Gluebox in TLA+

A model of the gluebox daemon: what its tasks, webhook handlers and connectors
do to the state they share, and what goes wrong when they overlap, fail halfway
or are restarted. Source paths below are relative to `src/` of the crate unless
they start elsewhere. `PROJECT.json` maps every definition to its lines.

## The system

Gluebox is one tokio process. It keeps a registry of connectors (clients of
Linear, GitHub, Matrix, OpenRouter, Affine, Documenso and the social platforms
of Stonkwatch), an SQLite/Turso database, a config that can be reloaded, and a
power state that suspends connectors when nothing happens. Webhooks, timers and
admin commands set off triggers, which use connectors and the database.

| Component | State it keeps | Operations | Talks to |
|---|---|---|---|
| Connector lifecycle (`connectors/*.rs`) | stored section, built client or bot, status, task handle | new, start, stop, suspend, resume, reconfigure | registry |
| Registry, reload, toggle, power watcher (`daemon.rs`, `main.rs`, admin handlers, `socket.rs`; registry and power manager are in `gluebox-core`) | name to connector, config, power state | reload, toggle, suspend and resume all | connectors, heartbeat |
| Error rollup (`triggers/error_rollup.rs`) | buckets of errors per category | record, snapshot, clear, flush loop | Matrix |
| Issue sync (`triggers/linear_to_github.rs`, `github_to_linear.rs`) | table `github_linear_mappings` | one trigger per direction | Linear, GitHub, webhooks |
| Trending posts, Friday digest (`triggers/trending_to_social.rs`, `friday_digest.rs`) | table `trending_posts` | check cap and cooldown, publish, record; weekly task | platforms |
| Posting loop (`connectors/stonkwatch_social/`) | ids it has posted, promo index | one cycle per interval | replica, platforms, Matrix room, heartbeat |
| Heartbeat and watchdog (`triggers/posting_heartbeat.rs`) | last success per platform, expected platforms | record, snapshot, alert | posting loop, digest, reload |
| Token stores (`x.rs`, `tiktok.rs`) | tokens per client, one token file per platform | load, refresh on 401, persist | OAuth endpoints |
| Feedback (`triggers/feedback.rs`) | table `feedback_tickets`, labels and issues in Linear | cluster, find duplicate, comment or create | language model, Linear |
| Contracts (`triggers/documenso_handlers.rs`) | table `contract_mappings` | completed, rejected | Matrix, Linear |
| HTTP server and config lock (`webhook/mod.rs`, `main.rs`) | requests under way, who holds or waits for the config | authorize, publish, reload, graceful shutdown | everything above |
| Socket and gateway (`socket.rs`, `gateway_socket.rs`) | per connection: subscribed or not, where it is in the stream | read, execute and answer commands, send snapshots | registry, reload, TUI |
| TUI (`tui/`) | the last snapshot, where it is in the stream | subscribe, keys, drain | socket |
| MCP, CLI (`mcp.rs`, `main.rs`) | none | one request per call | admin API, socket |
| Rendering and storage (`og_image.rs`, `chart_video.rs`, `storj.rs`, `replica.rs`) | files | render, upload, sync | posting loop |

### What is hard about it

* **Nothing keeps two operations apart.** SIGHUP, the admin API and the socket
  all call `daemon::reload`; toggles and the power watcher work on the same
  connectors. There is no lock around any of them.
* **Check, await, act.** The cap, the cooldown, the issue mapping, the feedback
  tickets and the labels are read, then something slow is awaited, then the
  outcome is written.
* **Half-done work.** A dropped request, a time budget, a lost answer or a
  restart leaves a post without a row, an issue without a mapping, a spent
  refresh token without its successor.
* **Streams cut anywhere.** A snapshot that is due drops a read in the middle of
  a frame, and the TUI reads without waiting.
* **Guards over awaits.** Some handlers keep the config locked while platforms
  answer; a reload that waits for them holds up everybody else, the shutdown
  included. AFFiNE's two mutexes are taken in two orders.
* **No answer at all.** Most HTTP clients and the shell have no timeout: what is
  awaited may never come, and whoever holds or serves something keeps it meanwhile.
* **Copies of state.** Clients keep the section or the tokens they were built
  from while the config, the file or another client moves on.
* **Silence.** A task that panics, or a sync that returns, leaves a connector that
  says Running; only the watchdog can tell, and only of the posting loop.
* **Work that outlives its caller.** A file operation goes on in the blocking pool
  when the future that waits for it is dropped.

### What makes each component right

| Component | Promise |
|---|---|
| Connectors, registry, reload | tasks are never doubled and can always be stopped; the registry follows the config; status tells the truth, except of a task that has ended by itself; a reload ends, unless a start of AFFiNE and its reconfigure hold each other's lock |
| Error rollup | every error is held, told, or accounted for; a failed send loses nothing, and one whose answer was lost counts nothing twice; buckets are bounded; errors are told in the end |
| Issue sync | an issue has one copy and a copy none; copies are in the table; rows are true |
| Trending, digest | the cap is exceeded only by requests that overlapped; one post per ticker a day; one digest a week |
| Posting loop, watchdog | no post twice while the loop keeps track; an announcement that stays among the rows of the query is posted in the end; a cycle ends; a dead loop is noticed |
| Token stores | refreshes alone do not lock the daemon out, unless refreshed tokens were lost on their way to the file; the file parses and never goes back as long as clients come to it one after the other |
| Feedback | one issue per topic; results tell the truth |
| Contracts | status and issue of a contract are not lost by a later webhook; what Documenso may forget has been done; every event is accepted in the end, or is stuck for the one reason named |
| Server, config lock | nobody waits for the config for ever, if platforms answer; a shutdown ends, if whatever requests await does |
| Socket, TUI | a connection is a command channel, is closed only for a cause, and snapshots go on arriving once no key is held and commands end |

## The modules

| Module | Models | Composes |
|---|---|---|
| `Connectors` | the connector objects of all names and their lifecycle methods, as operators on one instance | |
| `Daemon` | reload, toggle, power watcher step by step | extends `Connectors` |
| `DaemonProofs` | theorems about it | extends `Daemon` |
| `Ledger` | abstract: what the rollup promises the people in the room | |
| `ErrorRollup` | the rollup and its flush task | implements `Ledger` (`INSTANCE`) |
| `ErrorRollupProofs` | theorems about it, the refinement among them | extends `ErrorRollup` |
| `IssueSync` | both triggers, the table, the trackers | |
| `IssueSyncProofs` | theorems about it | extends `IssueSync` |
| `Publishing` | trending webhook, digest, table, clock | |
| `PostingLoop` | the loop's cycle, heartbeat and watchdog | |
| `PostingProofs` | theorems about both | extends `Publishing`, `PostingLoop` |
| `TokenStore` | clients, token file, platform | |
| `TokenStoreProofs` | theorems about it | extends `TokenStore` |
| `Feedback` | feedback tasks, tickets, Linear | |
| `FeedbackProofs` | theorems about it | extends `Feedback` |
| `ConfigLock` | the fair RwLock around the config | |
| `Contracts` | both handlers of Documenso and their table | |
| `Server` | requests, publishers, reloads, shutdown and restart around one lock | extends `Contracts`, `ConfigLock` |
| `ServerProofs` | theorems about it | extends `Server` |
| `CommandChannel` | abstract: what a channel promises its client | |
| `Socket` | one connection, its client and the wire | implements `CommandChannel` (`INSTANCE`) |
| `SocketProofs` | theorems about it, the refinement among them | extends `Socket` |
| `MC...` | constants for TLC, nothing else | extend the module they are named after; `MCReload` is a smaller instance of `Daemon` |

How they read: one action per stretch of code between two awaits that somebody else
can use. A task's program counter names the await it is at. Handlers and clients are
records with a `pc`. *History* variables (marked so where they are declared:
`clean`, `tidy`, `raced`, `ended`, `excused`, `misfiled`, `crowded`, `overlapped`,
`crossed`, `fate`, `posts`, `linked`, `newest`, `wanted`, `overtaken`, `cause`, and
the counts `heard`, `recorded`, `reported`, `lost`) record what the program does not
know. Properties read them, to count or to name the circumstances under which the
code promises less: where such a term is in a property, the outcome of the hazard it
names is permitted, and what is shown is that it has no other cause. Operators
introduced by "A bug to compare with" are not part of any next-state relation: each
is a plausible slip in the operator after it, and shows that the property it is
listed with in `PROJECT.json` notices.

### Correspondence with the code

* **Connectors.** An instance is an `Arc<...Connector>`: `stored` is its config
  behind the lock, `built` what start made of it (client, bot, or the section the
  posting loop was spawned with), `status` what `status()` returns, `task` whether
  its background task runs, `orphans` how many tasks it spawned whose handle was
  overwritten. `TaskEnds` is a sync or a posting loop that ends by itself: the
  status stays, and `ended` remembers it. `Kind` sorts the seven connectors into the
  five shapes their methods have.
* **Daemon.** A reload is a record with the two configs it compares and the set of
  sections still ahead of it; `Section` is the one of them that the code comes to
  first. `CreateAndStart`/`Insert` and `Remove`/`StopRemoved` are the two halves of
  `register` and `deregister`, between which others run. `MapIsFree` is the
  registry's lock: the watcher holds it for a whole walk. The `?` after each call
  that can fail is a failing action that ends the reload with the config unswapped;
  those of `deregister` and `reconfigure` cannot, since every `stop` returns `Ok`
  and the section they parse has been parsed as the same type by `Config::load`.
  AFFiNE's start takes its configs and then its clients, its reconfigure the clients
  and then the configs, each in two steps (`ClientsHeld`, `ConfigsHeld`); `Embrace`
  is the state in which both wait.
* **ErrorRollup.** A bucket is how many texts it holds and how many it only
  counted. The mutex makes `record`, `snapshot_to_markdown` and `clear` single
  steps; the send between the last two is not covered by it. The room may refuse
  the text, take it, or take it while the answer is lost (`SendLost`): then the
  buckets stay, and `heard` remembers what of them has been told already. `Ledger`
  has the same two halves, `Deliver` and `Settle`.
* **IssueSync.** An issue is a number in a repository, or in Linear; `source`
  says who made it, so that copies and echoes can be told from people's issues.
  `webhooks` counts undelivered ones. Handlers go through lookup, create and
  insert. The repository the client was built for and the one in the config are
  two variables because reloads change one of them only.
* **Publishing.** Time is a small number of ticks. `rows` is the table, `posts`
  what really went out.
* **PostingLoop.** An announcement is its rank in the query's order. `to_post` is
  the set `todo`: its order is `Before`, and the one `InHand` is the first. `at`
  counts through the targets of the announcement in hand; `Posted` follows the last.
  The module's names begin with `Loop` where `Publishing` has the plain ones, since
  one module of proofs is about both. `Timeout` may happen wherever the cycle waits,
  and drops `newly`. An image may be rendered, and panic, while fetching and while
  posting (`FetchPanics`, `PostPanics`). A platform that never answers is a step
  that is never taken.
* **TokenStore.** Tokens are numbered by the platform's answers. Writing the
  temporary file is opening, filling and renaming it; what a client has open
  (`writes`) moves with the rename, as a file descriptor does. The same module
  serves X and TikTok: TikTok persists in one blocking call and reads its retry
  token under the lock, which is a special case of the steps of X. A platform
  that rotates refresh tokens and one that does not are two initial states. X
  writes and renames through `tokio::fs`, on the blocking pool: a dropped future
  leaves its job in `left`, where it opens, fills or renames the file at any later time
  (`LeftOpens`, `LeftWrites`, `LeftRenames`), and two that have written to one open file
  may leave it `Torn`. TikTok blocks its thread while it persists and leaves none.
* **Feedback.** A topic is what a cluster is about, and its category comes with it.
  The rows of a query are a set: their order is only the model's to read. The
  language model is right (`Match`) or mistaken (`Mismatch`). A result is one of
  "issue", "comment", "error" and "no url", the last being the line a reader gets if
  Linear answers without an issue. Results that go to the log only, because there
  was no connector or no team, are `NotClustered`.
* **ConfigLock.** tokio's `RwLock` is fair: requests form one queue, and a reader
  behind a waiting writer waits though readers have the lock. Guards that end
  with their statement (`config.read().await.x.clone()`) are `Passes`; only
  those kept over an await are in `guards`.
* **Contracts.** An event is a document and a kind. `row.issue` tells apart no
  row, NULL, the empty text and an id, because `upsert_contract` binds a missing
  issue as the empty text: COALESCE then takes it for a value, and a later
  handler for an issue of that name. A handler is at the config, the look-up, the
  upsert, the message or the comment; `StepFails` is each of these failing, with
  its effect or without (a lost answer), and each is a 500 that Documenso
  answers with a repetition. `Histories` bounds what happens to documents.
* **Server.** `phase` follows `main`: up, stopping the connectors, cleaning up the
  socket (which reads the config), draining requests, exited. Since connectors are
  stopped first, a webhook in the drain finds no bot. The drain waits for all
  requests, those of the admin API that reload (`Admins`) among them, not for
  reloads by a signal or the socket. A publisher holds its guard from `TakesConfig`
  to `Published`, which may never come. A reload's work between its two uses of the
  lock is `Daemon`; here it succeeds, fails, or goes on for ever. Slots for requests
  are interchangeable, so a webhook takes any free one.
* **Socket.** A frame is two pieces, a length and a body, because the code reads
  and writes them with two awaits. `Tick` is the `select!` whose timer is due:
  it drops the read, and the length that read had taken is forgotten. What
  follows is a body read as a length: `Misread`, an empty message, ends the
  connection. The TUI (`link.client = "tui"`) subscribes, waits for one answer
  and from then on never waits: `DrainHalf` is a length without its body, after
  which it is `astray` among words of bodies and finds a frame again by luck.
  The kernel's buffers hold `Room` pieces; a write waits for room, except the
  TUI's. `Execute` only begins a command; until it is over (`WorkEnds`, which owes
  nothing to anybody) the task serves neither the timer nor the end of the stream, and
  building a snapshot is such work too. The gateway's server is the same loop, but
  an error of its shell ends it (`RunFails`).

## The runs

All are exhaustive. Bounds are constants named `Max...` (how often the world
may do something) and small sets.

| Run | Instance and bounds | What it shows |
|---|---|---|
| `rollup` | 2 categories, cap 2 (50 in the code), 4 errors each | accounting, bounds and liveness of the rollup with refusals and lost answers, and that it implements `Ledger` |
| `daemon` | 3 connectors (Matrix, Affine, social), 3 configs, 2 concurrent reloads, 1 toggle, 1 edit, 2 power transitions, 1 task that ends by itself, 4 of these events together | which interleavings keep tasks single, reachable and truly reported, that an undisturbed reload leaves registry and config in step, and that reloads end or come to the one embrace there is |
| `reload_stale` | 2 connectors, one reload at a time | **violated**: a reconfigured client stays on the old section |
| `reload_fails` | the same, with a `[power]` section that is refused | **violated**: a refused reload has changed the connectors |
| `issue_sync` | 2 handlers, 2 repositories, 2 issues a side, 1 repeated or lost webhook, 1 failure, 1 change of repository | what the table guarantees |
| `issue_echo` | the same without failures | **violated**: an overlap leaves a copy without its mapping |
| `publishing` | 2 tickers, 2 requests, cap 2, 4 posts (one more than the cap and an overlap allow), a day of 2 ticks in a week of 3, 1 failure | cap, cooldown, weekly digest |
| `posting_loop` | 3 announcements for a window of 2, 1 platform and the review room, 1 post a cycle, memory 1, 3 settings | no repost; what stays in the window is posted; cycles end; silence is noticed |
| `tokens` | 2 clients, 5 tokens, 2 mishaps | tokens survive rotation, crashes and lost answers; the file survives late writes and renames |
| `feedback` | 2 requests of up to 2 clusters, 3 topics in 2 categories, window 1 (20 in the code), 1 fault | duplicates have named causes, results are true |
| `server` | one contract that is completed and then rejected; 2 webhooks at a time; a request to publish, a reload (by a signal or the admin API) and a shutdown or death together, or an issue that is set and a shutdown or death, or one of these and a failing call | rows and acceptance are sound; if what they await ends, every event is accepted, the lock starves nobody and a shutdown ends |
| `socket` | a subscription and two keys of two commands, or five commands of a plain client; buffers of 3 pieces, a frame and a half | the connection implements `CommandChannel`, liveness included; it is closed for a cause; snapshots arrive once keys stop, if commands end |

Why the bounds are enough: every property is about at most two actors on one object
and one more event between them (a reload that overtakes a reload, a webhook that
overtakes a row, a client that overtakes a client), so two actors, two values and
one or two faults show each shape. Limits are small enough to be reached, and passed
where the code lets them be: a bucket (`MaxPerBucket`) counts more than it keeps, a
third announcement does not fit the `Window` of two, two posts are more than
`Forget`, and with two requests and a `DailyCap` of two the fourth post would be the
one that breaks `ExcessIsBounded`. A publication, a reload and a shutdown are the
chain in which each waits for the one before. A buffer of a frame and a half is one
that can end in the middle of a frame, and five commands are enough for a torn one
to have others before and after it. `daemon` has three configs, the one it booted
with, one in which Matrix goes and the others change, and one that changes Matrix,
drops the others and is refused for its `[power]` section, so that a second reload
may bring back what the first took; Documenso and the API clients, which have no
task of their own, are in `reload_stale`. For every property a slip in the code is
listed under which the same run fails. `CHECK_DEADLOCK` is off where bounded inputs
run out; only the posting loop also has an end of its own, a panic.

Symmetry is used for requests, handlers and clients, in runs without liveness.

### Fairness

Fairness is given to steps of tasks that are polled until they are done, and to
timers. An answer that has no timeout in the code has no fairness in the model; where
a property needs it, it is a premise in the property's formula.

* `Daemon`: weak fairness of the steps of a call under way and of the watcher. The one
  call that awaits the network is a Matrix login, which `matrix-sdk` ends after its
  `DEFAULT_REQUEST_TIMEOUT` (`patches/matrix-sdk/src/http_client/mod.rs:51`). A start
  of AFFiNE that waits for a mutex is not enabled, so it may wait for ever. Nothing is
  assumed of who edits, reloads or toggles, and no task has to end.
* `ErrorRollup`: weak fairness of the flush task's `Snapshot` and `Clear`; strong
  fairness of a successful send, an assumption on the Matrix server without which
  nothing could be told.
* `PostingLoop`: weak fairness of the interval timer, the cycle's budget, the
  watchdog's timer and the passing of a day. No answer of a server is assumed.
  `EventuallyPosted` states its assumption, `ServersWork`, in the formula.
* `Server`: weak fairness of taking one's turn at the lock, which is fair, and of
  the shutdown; Documenso repeats what was not accepted, the service manager
  restarts the daemon. No platform, database, Linear or Matrix owes an answer, nor
  does a reload's work: the HTTP clients are built without a timeout
  (`linear.rs:46`, `stonkwatch_social/x.rs:83`). `PlatformsAnswer`, `CallsReturn`
  and `ChangesEnd` are the premises of `EventuallyAccepted` and `EveryWaitEnds`.
  Without the first, one platform that hangs blocks a reload behind its guard, every
  other reader behind the reload, and the shutdown behind all of them.
* `Socket`: weak fairness of the connection's task, whose timer goes off, and of
  what the client does unasked, whose loop comes around every hundred milliseconds;
  none of a command's end. Nobody has to press a key. `SnapshotsArrive` has two
  premises: keys stop (`KeysStop`), since every command makes the `select!` start
  its timer anew, and work ends (`WorkEndsAlways`), since `gateway.rs:82` awaits a
  shell without a timeout and a toggle or a reload may wait for a connector or for
  the config. `CommandChannel` asks only for what it promises: unless the connection
  is closed a command is begun once the one before it is over, and answered if it is
  over itself; `ImplementsChannel` has the premise that snapshots are built in the
  end.
* The other modules state safety only.

## What the documentation says otherwise

Three runs end in a counterexample; `PROJECT.json` quotes the sentence each is
about.

1. `RunsOnCurrentConfig`: `reconfigure` of Linear, GitHub, OpenRouter and Matrix
   stores the new section and keeps the client built from the old one.
2. `FailsSafely`: power settings are checked last, after the connectors have
   been changed.
3. `MappingIsBidirectional`: the row is written after the copy, whose own
   webhook may come first.

Others were met while modelling and have no run of their own:

* A Matrix connector that a reload registers while the daemon rests is started
  and syncs (`daemon.rs:40`); the design document
  (`docs/superpowers/specs/2026-03-24-gluebox-refactor-design.md`) has connectors
  suspended at rest.
* The token file takes precedence over the config (`x.rs:29`) that
  `scripts/set-x-credentials.nu` updates. The module has the operator's step
  (`Reauthorize`), and `Loaded` goes on reading the file.
* A shutdown stops the connectors before it drains the requests (`main.rs:239`),
  the design document has it the other way round; and only ctrl-c is handled, not
  SIGTERM.
* A rejection whose first delivery failed after the upsert finds an empty issue
  in its row from then on and is refused by Linear each time: `Stuck` names the
  state, and `EventuallyAccepted` excepts it.
* The digest's window is the first five minutes of the hour (`friday_digest.rs:58`)
  and its task ticks every five: a digest that fails at that one tick is not tried
  again, where `docs/superpowers/plans/friday-weekly-montage-pipeline.md:125` has
  the whole hour and its ticks.
* AFFiNE's `start` locks its configs and then its clients (`affine.rs:251`), its
  `reconfigure` the clients and then the configs (`affine.rs:290`): a toggle and a
  reload that meet there wait for each other for ever. `ReloadEnds` excepts this
  `Embrace` and nothing else.
* Two tasks that both find a label missing create it twice (`linear.rs:177`).

## What is proved

`ErrorRollupProofs`, for every set of categories, every cap and every number of
errors, from `CapAssumption` and `BoundAssumption`:

* `RollupTypeCorrect`, `NothingUnaccounted` (`Accounting`), `BucketsAreBounded`
  (`BucketBounded`): the safety invariants of the `rollup` run;
* `IsALedger` (`ImplementsLedger`): every behaviour of the rollup is one of `Ledger`.

The inductive invariant is `IInv`, the three with `UnsentIsKept` and `HeardIsKept`.
The first is needed because `clear` computes what it loses as a difference,
`Count(c) - snap[c]`, which is a natural number only while the text under way counts
no more than the buckets hold (`UnsentIsKept`), and that in turn needs the types.
`HeardIsKept` is about a lost answer: what the room has heard of is still held and
in the text that is sent next, so that it is counted as told once. `InitInv` starts
it; `RecordInv`, `SendInv` and `ClearInv` keep it, one lemma per group of actions,
resting on `RecordCounts`: recording adds one to the count of its category and
leaves the others alone, whether the text is kept or not.

`NextRefines` maps each action to a step of the ledger or a stutter: `SendOk` and
`SendLost` to `Deliver`, `Clear` to `Settle`. It rests on `TextTells`, that a text
is under way exactly while it tells of something: otherwise the ledger could not
tell a `Report` from nothing at all. The ledger has no cap, no task and no liveness;
that errors are told in the end is `EventuallyTold`.

`DaemonProofs`, for every set of names of any kinds, every set of configs and every
number of reloads, operators, edits, toggles and power transitions, from the
assumptions of `Connectors` and `Daemon` (boot has an instance for every section;
actors are told apart; what stands for nothing is no name, section or instance):

* `TypeCorrect`, `TasksAreSingle` (`NoDoubledTask`), `TasksAreReachable`
  (`TaskIsReachable`), `StatusIsTold` (`StatusIsTrue`) and `RegistryIsAsConfigured`
  (`RegistryFollowsConfig`): all the safety that the `daemon` run checks.

The first four are parts of one inductive invariant, `IInv`. A connector is
`Current` if it is registered or a reload holds it between the halves of `register`
or `deregister`. On a name that is not raced there is one at most (`OneCurrent`),
only it has a task (`InOrder`), and an operator or the watcher about to start or
resume a connector has that one, without a task (`CallsAlone`). `Objects` says of
every connector, raced or not, among other things that a Matrix one that says
Running has its task unless that has ended by itself (`ended`). `Roles` says what
reloads, operators and the watcher have in their hands, raced or not: a second
reload may carry a connector of a name for long, and it must still be one of the
section that reload is at. `NoCall` is every step that calls no connector, `CallInv`
every call on a current one, and `CallAlone` the reason they are enough: who
overlaps leaves `raced` behind. `RemoveInv`, `CreateAndStartInv` and `InsertInv` are
the steps that change which connector is current. `Following` holds the fifth: under
a tidy reload the sections behind it agree with the new config, those ahead with the
old, and the one it is at is as far as its position says.

`IssueSyncProofs`, for every set of repositories, number of issues, of requests
at a time and of failures, from `RepoAssumption`, `NoneAssumption`,
`SidesAssumption` and `SourcesAssumption` (the values that stand for nothing,
for a person and for the absent repository are not issues or repositories):

* `TypeCorrect`: among other things no row ever has its sides swapped, though
  the copy is the GitHub side for one trigger and the Linear side for the other.
* `MappingsAreTrue`: the property `RowsAreTrue`. It needs no assumption about
  races or lost answers, which `MirroredOnce` and `CopiesAreMapped` do.

`RowsAreTrue` is not inductive alone. `CarriesTruth` says what a request keeps in
its local variables over the awaits: once the copy is made, that it is on the
other side and was made from the request's issue. `RowsAreIssues` excludes rows
under the absent repository while nothing is misfiled. `SourceKept` is the
step fact all of it rests on: what an issue was made from never changes, since a
tracker gives out only new numbers. `OneMoves` and `NoneMoves` then reduce each
action to the request that takes it, and `RowIsTrue` is the heart of the insert.

The second part of the module is about copies and their rows:

* `OneCopyEach` (`MirroredOnce`) and `NoCopyIsForgotten` (`CopiesAreMapped`), on
  the terms both name: no overlap on one issue, no failed call, no repository
  changed under a request.

They hold each other up: an issue that is looked up has no copy and is none,
because its row, or the request that is about to write it, would have been met
(`LookupTidy`, from `CopiesHeld`); a copy that is made is then the first one
(`CreateTidy`); and a key that is taken at the insert can only be taken by the
row wanted, since any other row would make a second copy (`InsertTidy`, from
`RowsAreTrue`). `Alone` and `OnlyCopy` say what a request past the lookup may count
on, `Known` that nobody has heard of an issue that is not open.

`PostingProofs`, of `Publishing`, for every set of tickers, finite set of requests,
every cap, day, week and bound, from `DigestAssumption`, `RequestsAssumption` and
`ClockAssumption`:

* `TypeCorrect`, `CooldownIsKept` (`CooldownHolds`), `ExcessStaysBounded`
  (`ExcessIsBounded`) and `DigestStaysWeekly` (`DigestOncePerWeek`): all that the
  `publishing` run checks.

The checks look at rows and the promises are about posts, which are older. For the
cooldown, `Recorded` says that a post has a row at least as young or a request that
has yet to write it; `Alone` that a ticker whose requests did not overlap has one
at most; so what the check found, that nothing was posted for a day, stays true
until the post is out (`Cooled`). `CalmStays` is every step that is none of this
ticker's business. The cap counts: in no window are posts ahead of rows by more
than the requests that have yet to write theirs (`Behind`), and the posts of the
last day with the requests past the cap have room under it, overlaps excepted
(`Headroom`). Posts are counted as the pairs of a moment and a number, a finite set
(`Counted`), so that a row more is an element more (`Longer`) and no sum is needed.
`DigestRecorded` and `DigestDue` are the argument of the cooldown for the week: a
digest has its row or is about to get it, and while one is rendered those that
went out are of earlier weeks.

Of `PostingLoop`, for every set of announcements, any platforms, settings, limits
and number of new loops, from `RankAssumption`, `SizeAssumption`,
`PlatformsAssumption` (a platform is in the list once) and `SettingsAssumption`:

* `LoopTypeCorrect` (`LoopTypeOK`) and `NothingIsReposted` (`NoRepost`): the safety
  invariants of the `posting_loop` run.

An announcement that has been anywhere since the loop last lost track of it is in
memory, is one of `newly_posted`, or is in hand and has been at the targets before
the one whose turn it is (`KeepsTrack`); what is still to be posted is neither
remembered nor new (`NotYetPosted`). `CycleIsTidy` says what of a cycle there is in
which of its phases. `FirstFew` bounds what `Take` takes: of a set ordered by
`Before`, those with fewer than n before them are n at most.

`TokenStoreProofs`, for every set of clients and every number of refreshes and
mishaps, from `ClientsAssumption`, `BoundAssumption` and `FileAssumption` (a file
that is missing, empty or torn is not a pair of tokens):

* `TypeCorrect`, `NobodyIsLockedOut` (`TokensSurvive`), `FileParses`
  (`StoreIsWhole`) and `FileNeverGoesBack` (`NeverOlder`): all that the `tokens`
  run checks.

The two about the file are on the terms of `InTurn`: clients come to the files one
after the other, and what one left to a thread is done when the next one comes.
Neither is inductive. If the platform rotates refresh tokens, the copies that it
honours are all copies of one token (`OneIsHonoured`); the grant that spends it
makes every other copy worthless (`GrantSpends`), so at most one client is on its
way to the file, and the temporary file is its (`FilesAreOwned`). If it does not
rotate, the same follows as long as refreshes have not overlapped (`OneRefreshes`),
every copy is honoured (`AllAreHonoured`), and clients agree with the file
(`SameAsFile`), which is why a client that gives up leaves no harm. `OwnersAreNewer`
is what the rename needs for `NeverOlder`. `LeftInTurn` is the same for a job that a
dropped future has left: it is the only one, no client is at the files with it, it
owns them as its client did (`JobOwns`), and nobody has a token that is another one
and honoured (`JobIsHonoured`), so that when it is done late it moves nobody else's
tokens. `LossesAreSeen` keeps `TokensSurvive` out of it: who leaves a job has lost
tokens, and `clean` says so. `Onwards` proves the invariant once for every step that
gets no new tokens; the lemmas of those actions only show that they are such steps.
`Renamed` is what a rename does, whoever makes it.

`SocketProofs`, for every set of commands, every buffer of at least two pieces and
every number of commands, from `CommandsAssumption`, `RoomAssumption` and
`BoundAssumption`:

* `TypeCorrect`, `ClosedOnlyForACause`, and `IsCommandChannel`: every behaviour of
  a connection satisfies the safety part of `CommandChannel`.

The heart is `Stream`: the pieces on the wire and those the client has still to
write are, in order, the frames of the commands that were not executed; what is
missing of the first one (`Taken`) is the length the daemon holds or, once a
snapshot has torn a frame, the length it has forgotten. So a body that is executed
belongs to the length that is held, and to the next command, and after a tear
nothing is found but a body, which ends the connection. `StreamCut`, `StreamPut`,
`StreamGrows`, `StreamRead`, `StreamExecute` and `StreamTick` are the ways a step
moves it. `Answering` counts the answers written against the commands that are over,
and of those begun at most one is not; `Causes` and `SentInOrder` carry what
`ClosedForACause` and the abstract `Submit` need. `DaemonRefines` and
`ClientRefines` map each action to a step of the channel or a stutter. The fairness
half of `ImplementsChannel` is left to TLC.

`ServerProofs`, for every set of contracts, events, requests at a time, publishers
and reloads, and every number of troubles, from `ContractBounds` and
`LockersDiffer` (a request, a publisher and a reload are told apart, and reloads of
the admin API are reloads):

* `TypeCorrect`, `ContractsAreKept` (`ContractIsKept`) and `NothingIsForgotten`
  (`AcceptedIsDone`), with reloads, publishers, shutdowns and restarts around the
  requests: the safety of the `server` run.

Neither is inductive. Unless a contract is overtaken, all requests at work for it
are for one event and none later was ever tried (`NoneNewer`), and a request that
is about to write carries the issue that was set (`IssueCarried`): that keeps the
row. For what was accepted, a request past the write knows a row that is as new as
its event (`HasWritten`), one past the message has told the room if it could
(`HasTold`), and an issue that was found once leaves a row for everyone who looks
after it (`WantedIsSeen`), so nobody gets past the comment without it. `Moves`
proves the invariant once for every step of a request at work; `DeliverInv`,
`LinkInv` and `CutInv` are the steps that start one, set an issue and end all of
them, and `ElsewhereInv` is every other step of the server.

For the types, `Lined` says that nobody is in the queue for the config twice, and
that who waits there or has it is a locker that is at such a place (`Entitled`);
`Around` and `Listed` are what else the server's variables hold.

`FeedbackProofs`, for every set of requests and topics, every window, and every
number of clusters, failures, lost answers, mistakes and restarts, from
`WindowAssumption` and `BoundAssumption`:

* `TypeCorrect`, `OneIssueEach` (`OneIssuePerTopic`) and `FiledTruly`
  (`FiledAsTold`): all that the `feedback` run checks.

A topic that is not excused has one task at most that has read the tickets and may
yet store one (`Alone`). An issue of it has its ticket, or its maker is about to
store it (`Remembered`), so a task that reads the tickets alone sees the issue
unless its rows have left the window (`SettledQueries`), and one that goes on to
open an issue does so because there is none (`ReadRightly`); hence `Single`. For
what tasks tell, an issue holds a cluster only once the task has told of it, or
while it is about to store the ticket (`HeldInTime`); a cluster is in one place
(`OnePlace`), and that is the place its result is about (`StoresItsOwn`,
`ToldTruly`).

So every safety invariant and every action property that a passing run checks is a
theorem. Liveness stays with TLC, since fairness and `ENABLED` are out of the
prover's reach: `EventuallyTold`, `ReloadEnds`, `CycleEnds`, `EventuallyPosted`,
`DeadLoopIsNoticed`, `EventuallyAccepted`, `EveryWaitEnds`, `SnapshotsArrive`, and of
`ImplementsChannel` the part that says a command is served and answered in the end.

## What is not modelled

* `patches/matrix-sdk` is the Matrix SDK, vendored with a small patch: most of the
  repository's lines, none of them gluebox's own logic. Here it is a server that
  takes a message, refuses it, or loses the answer.
* `gluebox-core` is a git dependency; its registry and power manager are
  modelled from how this repository calls them and from the listing in
  `docs/superpowers/plans/2026-03-24-gluebox-refactor.md`. When the power state
  changes is left open.
* Rendering, ffmpeg, S3 and the texts of posts: pure I/O or wording.
* Calendar and Samaya: nothing constructs either connector. `mcp.rs`: one request
  per call, no state. The TUI's drawing.
* Verification of signatures and tokens: a request is genuine or is not there; a
  bearer token is right or wrong.
* Activity events of the socket: nothing in the program sends one.
* A publisher whose client goes away while it is still in the queue for the
  config: it stays there until its turn. A reload of the admin API whose client goes
  away is not dropped midway.
* The five-minute window of the digest against the five-minute period of the
  task that looks for it: `Publishing` lets the digest look at any moment.

## Plan

What is done is above. What is left, most important first:

1. **Abstract specifications**: an abstract registry (a name is off, on or
   resting, one step per operation) implemented by `Daemon` while calls do not
   overlap; a token register implemented by `TokenStore`; a mirror (an issue and
   its copy appear together) implemented by `IssueSync` on the terms of
   `MirroredOnce`.
2. **Digest clock**: a clock finer than the digest's window.
