# Coin Catcher: TLA+ models and proofs

Coin Catcher (`src/`) is a Go service that seeds World of Warcraft reference
data once and then polls three regional feeds for ever, storing every change in
TimescaleDB: the Blizzard commodity auctions, the WoW Token price and the
TradeSkillMaster (TSM) item files. This directory models its concurrent and
failure-prone parts, checks them with TLC and proves most of what is checked with TLAPS.

Paths below are relative to `src/`; `scraper/` stands for `internal/scraper/`.

## 1. The system

| Component | Code | State | Operations |
| --- | --- | --- | --- |
| Blizzard polling loop | `scraper/scraper.go` | `regionState` per region in memory; tables `auction_snapshots`, `wow_tokens`, `scraper_state` | `loadRegionState`, `pollPass`, `storeStreamedSnapshot`, `pollToken`, `storeToken`, `warnIfStale` |
| Blizzard API client | `scraper/blizzard_api_client.go` | rate limiter's next slot; cached OAuth token | `Wait`, `tokenFor`, `do` (retries), `StreamCommodities`, `getJSON` callers |
| TSM polling loops | `scraper/tsm_scraper.go` | `tsmState` per goroutine; tables `tsm_region_item_snapshots`, `tsm_region_item_state` | `runRegion`, `loadState`, `storeSnapshot`, `warnIfTSMStale` |
| TSM client | `scraper/tsm_client.go` | none between calls | `Fetch`, `getWithRetry`, `parseTSMItem` |
| Recipe seed stage | `scraper/recipes_seed.go` | jobs and results channels, batch; static tables | listing, feeder, workers, `storeRecipeBatch` |
| Seeder | `scraper/seeder.go` | table `seeder_status` | stages in order, `markCompleted`, `recordError` |
| Staged bulk loads | `scraper/staging.go`, `scraper/seeding_sql.go` | temporary tables of one transaction | `execStagedLoads`, upsert statements |
| Schema, migrations | `scraper/migrations/*.sql`, `scraper/migrate.go` | the tables and keys | `Migrate` |
| Configuration | `scraper/config.go` | `Config`, `Schedule` | `LoadConfig`, `resolveSchedule` |
| Process | `cmd/scraper/main.go`, `compose.yaml` | one context, one connection pool, one errgroup | start-up sequence, signals, restart policy |

How they interact. `main.run` connects, migrates, runs the seeder, pings every
region and starts two loops in one errgroup under one context. The Blizzard
loop is a single goroutine over all regions; TSM has one goroutine per region;
the last seed stage is a feeder, a worker pool, a closer and a consumer joined
by two channels. Everything durable goes through PostgreSQL transactions, one
connection per actor and never two held at once. What a loop knows of a region
is read from the database when the process starts and afterwards kept in
memory beside it: this pair of copies is the source of most of what can go
wrong.

Hard behaviours, and what makes each component correct:

* **A snapshot is streamed**: batches are copied inside a lazily opened
  transaction while the response is still arriving. Whatever fails or dies, a
  snapshot must be in the database whole or not at all, together with the
  pointer that advertises it.
* **Two copies of the pointer**: memory must never be ahead of the database,
  or a conditional GET would withhold data for ever. It may be *behind* it
  after a commit whose acknowledgement was lost, and the next poll must then do
  no harm.
* **Independent failures**: one region's broken endpoint, or its token
  endpoint, must not keep the others from being stored.
* **A pool that unwinds**: an error, a cancellation or a failed commit must
  free every goroutine, lose no error, and never let an incomplete seed be
  marked completed, since a completed stage never runs again.
* **A seed that resumes**: three stages over many transactions, any of which
  may be the last before a crash, while the API moves on. What is marked
  completed must be there, and no statement may be refused for ever.
* **Shared clients**: concurrent callers share one rate limiter and one token
  cache; the token is fetched, with retries and waits, under a lock.
* **Time**: polling windows with relative and absolute bounds, backoff,
  `Retry-After`, stale warnings, and a process that restarts in the middle.

`PROJECT.json` lists the individual hazards with their lines and the properties
that cover each.

## 2. Modules

| Module | What it is |
| --- | --- |
| `SnapshotArchive` | Abstract: feeds publish versions; the archive takes over one whole version at a time in the same step as its pointer. Both loops implement it. |
| `BlizzardPoll` | The Blizzard loop with its feeds, tables, failures, crashes and restarts. |
| `TSMPoll` | The TSM goroutines, likewise. |
| `RequestBudget` | Abstract: at most one request more than whole intervals have gone by. |
| `RateLimiter` | `APIRateLimiter.Wait` for any callers; implements `RequestBudget`. |
| `Requests` | Token cache and retry loops of both HTTP clients. |
| `SeedLedger` | Abstract: what a seed stage stores stays, and it is marked only when everything is stored. |
| `StagedLoads` | The static tables with their keys, the upserts, `execStagedLoads`: operators. |
| `RecipeRows` | From API responses to staged rows: listing, variants, batches: operators. EXTENDS `StagedLoads`. |
| `SeedStages` | `Seeder.Run` with its three stages. EXTENDS `RecipeRows`; its recipes stage implements `SeedLedger`. |
| `RecipeSeed` | The goroutines and channels inside the recipes stage, with the status rows and the process around them. |
| `PollClock` | The clock the next two modules read. |
| `PollSchedule` | The polling window over several processes. |
| `Staleness` | The stale-data warnings of one region of either feed. |
| `ScraperProcess` | Start-up, the errgroup that joins the loops, signals, exit status, restarts. |
| `BlizzardPollProofs`, `TSMPollProofs`, `RecipeSeedProofs`, `RequestsProofs`, `RateLimiterProofs`, `SeedStagesProofs`, `ScraperProcessProofs` | TLAPS proofs about the modules they are named after; section 5. |
| `PollTimingProofs` | TLAPS proofs about `PollSchedule` and `Staleness`. |
| `MC_*` | Values of constants that a `.cfg` cannot write. |

How the modules divide the system. Each models one component to the depth at
which it can go wrong and takes its neighbours by what they may do to it:
`BlizzardPoll` and `TSMPoll` see a request as its outcome, which `Requests` and
`RateLimiter` take apart; they poll whenever they like, which `PollSchedule`
restricts; `SeedStages` takes any batch of recipes, which `RecipeSeed` shows to
be what the pool delivers; `ScraperProcess` knows of the loops only how they
wait and return. The refinements (`ArchiveSpec`, `RequestsInBudget`,
`RecipeStageSpec`) say what one component promises the rest.

### BlizzardPoll

`rg` is `regionState` of every region, `scraperState` the table it was loaded
from; `poll` and `tx` are the locals of `storeStreamedSnapshot` (or, for
`poll.token`, of `pollToken`); `pc` and `cur` say where the goroutine is in
`Run`, `pollPass` and the two poll functions.

| Action | Code |
| --- | --- |
| `LoadState`, `LoadFails` | `Run`, lines 54-62, `loadRegionState` |
| `Respond`, `NotModified` | the response headers in `StreamCommodities` |
| `StreamAuction` | one auction decoded and consumed; a full batch is copied at once |
| `DiscardBody` | the unchanged 200, and the 200 without Last-Modified |
| `FinishBody`, `UpsertState`, `CommitSnapshot` | the end of `storeStreamedSnapshot`, and `pollPass` remembering the version |
| `SnapshotFails` | every error return, wherever the loop is |
| `PollToken`, `StoreToken`, `TokenFails` | `pollToken`, `storeToken` |
| `CommitAckLost`, `TokenAckLost` | the commit is applied and `Commit` returns an error |
| `Wake`, `Cancel`, `Crash`, `Start` | the wait between passes, the context, process death, restart |

Data is abstract: a Last-Modified value is a number in publication order, an
auction is "the n-th of version v". Region, listings, batch size and bounds are
constants. The order in which a `200` body is consumed before it is judged
unchanged is kept: an unchanged 200 has already copied its full batches when it
is rolled back.

### TSMPoll

Every state component is indexed by region, because every region has its own
goroutine; the tables are shared. A file is a sequence of rows with an item
(0 when the row does not parse) and an `updatedAt`. `Acceptable` is the
conjunction of the checks of `Fetch` and of the `consume` callback; rows are
batched and copied as in the code, and a copy that meets a primary key already
present (`Conflicts`) fails. ETag and Last-Modified are one value: the code
always stores, loads and sends them together. A 304 poll is a transaction of
its own (`TouchState`). After a crash a commit that was on its way may still be
applied (`CommitLands`) before the next process starts.

### RecipeSeed

`HandOver` is the rendezvous on the unbuffered jobs channel; `Put` and
`PutAbandoned` are the two cases of a worker's `select`; an error a worker
returns cancels `gctx` in a step of its own (`ReturnError`), as in errgroup, so
that its error message and the cancellation can overtake each other. `TakeResult`
is one iteration of the range loop. The caller's `Unwind` is the deferred
`cancel`, followed by `recordError` for both names.

### RateLimiter

`next` is the field of that name; `caller` says where each goroutine is in
`Wait`. `Reserve` is the critical section, `Sleep` and `Return` the timer and
the two ways to return nil, `Abandon` the cancelled wait. `handed` remembers the
instant of every slot, `released` the slots whose `Wait` returned nil. The clock
starts anywhere up to the bound, so that the limiter may be old when it is
first used.

### Requests

`call[g]` is the call goroutine `g` is in: waiting for `c.mu` (`lock`), fetching a
token with the lock held (`oauth`), at its API request (`api`), or in
`getWithRetry` (`tsm`); `step` says where in the retry loop it is.

| Action | Code |
| --- | --- |
| `Start`, `Acquire` | `apiRequest`, `tokenFor` up to the cache check |
| `TokenIssued` | the token answer, the cache, the deferred unlock |
| `Send`, `Answered` | one attempt and its 2xx or 304 |
| `NetworkError`, `Throttled`, `ThrottledWithHint` | the retried outcomes in `do`, with `retryAfter` |
| `TokenRefused`, `Rejected` | the outcomes that are not retried |
| `TSMThrottledWithHint`, `ToldTimeOver` | `getWithRetry`, which waits for Retry-After first and for its backoff afterwards |
| `PauseOver`, `GiveUp`, `Cancel` | the wait before an attempt, and the context |

`issued[k]` is when the server ceases to accept token `k`; it decided so while
the request was in flight, which the client cannot know.

### StagedLoads, RecipeRows, SeedStages

`db` is a function per table from primary keys to rows, and a row keeps the
columns something depends on: whether an item is a stub, a recipe's place and
crafted item, whether a reagent is optional. `ExecStagedLoads` runs the loads of
one transaction up to the first that PostgreSQL refuses, for a missing parent
or a key that occurs twice in a `DO UPDATE`. `RecipeRows` has the listing pass
(`RecipeJobs`), `recipeVariants` (`ValidShape`, `Variants`), and the joining of
required and optional reagents (`AddRequired`, `AddOptional`). A catalogue is what the
API may answer at one time (`Catalogues`). Lists keep their order where the code
depends on it: categories, recipes of a category, reagents of a recipe. Items, the
jobs of a batch and the rows of a batch are sets, because maps or workers deliver
them in any order; an id occurs once in the answer to an item search.

`SeedStages` has one action for each step between which the process may die:
`SearchItems` and `FlushItems` (`seedItems`), `ListProfessions` and
`StoreProfessions`, `ListRecipes`, `StoreHierarchy`, `TakeBatch`, `StoreBatch` and
`AllBatchesStored`, `Mark` (one status row set per step: reagents after
recipes), `RecordError`, `Restart`. `Fails` is any error or crash; what was about
to be committed may have been. The API moves from one `edition` of its
catalogue to the next at any time (`Publish`).

### PollSchedule, Staleness

`PollSchedule` has `ResolveSchedule` (`resolveSchedule`), run anew by every
process (`LoadConfig`), and the three checks of the loops: `Open` (the wait for
the start and the check of the end), `SleepOrEnd` (whether the next wake-up is
still inside, with the TSM loop's jitter) and `Exit`. `Staleness` follows one region of
either loop (`feed`): `WarnIfStale` is `warnIfStale` and `warnIfTSMStale`, which
differ in what they age (`Since`), after which polls they run (`AfterPoll`) and
whether a stored change makes them forget the last warning (`LastWarnAt`). A poll
that fails, or a crash, may leave its commit applied (`Commits`); a TSM file stored
like that is refused by the primary key when it is fetched again (`PollRefused`).
The names of its variables and steps begin with
`region` where `PollSchedule` has one of that name, as `PollTimingProofs` extends both.
Time (`PollClock`) is in whole numbers; a timer that is due fires within its tick, and
start-up, loading and polls take any time up to a bound.

### ScraperProcess

`phase` follows `main.run`: connect (with its attempts), migrate, seed, ping, run,
exited. `ctx` and `groupCtx` are the two contexts, `loop` says for the Blizzard
loop and every TSM goroutine whether it waits for its window, loads, polls,
sleeps, has returned or has failed. `FailureOf` is what an error becomes: the
Blizzard loop returns it and cancels the group, `runRegion` logs it. `Wait` is
`group.Wait` and the exit status, `Restart` the container.

## 3. Runs

| Run | Question | Bounds |
| --- | --- | --- |
| `blizzard_loop` | Is every snapshot whole, every pointer honest, nothing stored more often than a lost acknowledgement explains? Does the loop implement `SnapshotArchive`? | 2 regions; 2 versions of 3 and 0 auctions in batches of 2; 2 token updates; 2 faults, 1 lost acknowledgement |
| `blizzard_live` | Do commodities and token prices arrive? | 2 regions, versions of 3 and 2 auctions; one region's commodity endpoint may fail for ever; 1 further fault |
| `tsm_files` | Are only well-formed newer files stored? Does it implement `SnapshotArchive`? Does a newer file arrive after those refused? | 1 region; 7 files, 5 of them to be refused; 3 faults |
| `tsm_regions` | Are files whole when regions interleave and an acknowledgement is lost? | 2 regions, 2 files, 1 fault, 1 lost acknowledgement |
| `recipes` | Does a completed stage have every recipe? Is a job or an error ever lost? Does the stage ever get stuck? | 2 workers, 4 recipes, batch and channel of 2, 2 faults |
| `limiter` | Are slots paced and waits bounded? Does the limiter implement `RequestBudget`? | 3 callers, 5 slots, interval 2, clock to 8 |
| `requests` | Is a token fetched only when due, Retry-After kept, the lock given back? | 2 callers of one client, 1 TSM caller, 2 calls begun; tokens of 2 s with margin 1, timeout 1, 3 attempts, Retry-After 0 and 3; 3 faults |
| `seed_stages` | Is what is marked completed stored as the API lists it? Does seeding end? | 5 histories of catalogues and one for each small shape of recipe; pages of 2, item batches of 3, recipe batches of 2; 2 faults |
| `schedule` | Do passes begin inside the window, is an open window used, does a bounded one end? | 48 environments, both loops, cadences 1 and 3 with jitter 1, 1 crash, clock to 16 |
| `staleness` | Is a warning ever false, old data or a silent feed ever without one? | either feed, 2 further versions, 2 faults (a commit whose answer is lost is one), clock to 13 |
| `process` | Is the exit status honest? Does a signal or a failed loop end the process? Does polling begin in the end? | 2 regions, 2 attempts to connect, 1 signal, 2 faults |
| `tsm_ended` | *violated*: a region is polled as long as the process runs | 2 regions, 1 fault |

Why these bounds. A *fault* is a failed call, a crash or a cancellation, at any
step. Two regions show interference between regions; a second version is
needed for anything that compares with what was stored. Three auctions with
batches of two give a full and a partial batch, two auctions a listing that
ends exactly at the boundary, none the transaction opened only for the pointer;
the proofs of section 5 cover all other lengths.
Two faults allow a failure followed by a crash before anything is repaired, or
a crash during recovery. Two workers are the least that can fail one after the
other; a channel of two fills while four jobs are under way. Three callers are
the least for a reservation between two others. In `requests` the times are
scaled down, keeping their order: a retry's wait is longer than the margin,
Retry-After longer than a token lives, and the last attempt is the third instead
of the fourth. In `seed_stages` the pages do not align with the batches, ids have
gaps, items appear below and above what a scan has seen, reagents are in
neither, and one listed recipe has no details. In `schedule` every bound is absent, early or late; the
windows are longer and shorter than either cadence, empty, over before start-up
ends, or rejected.

The bounds by name: `MaxVersion`, `MaxToken`, `MaxLostAcks`, `MaxClock` (commits
in `BlizzardPoll`, high enough not to limit a run), `MaxFaults` everywhere,
`MaxSlots`, `MaxCalls`, `StartBy` (no call, or process, begins later), `MaxTime`
(where a clock stops), `MaxStart`, `MaxLoad`, `MaxPoll` (how long these take),
`MaxCrashes`, `MaxSignals`, `MaxVersions`; the histories of `MC_SeedStages` bound
the catalogues. Clocks stop at `MaxTime`, so `limiter`, `requests`, `schedule` and
`staleness` are run without deadlock checking; in `requests` and `schedule` calls
and processes begin early enough to be over by then, which the liveness
properties confirm: they would be violated if a clock stopped too early. Everywhere else
deadlock is checked: a stopped process can always be started again, so a
state without a successor would be an error. In `TSMPoll` that also covers the
`tx` that `storeSnapshot` dereferences without `ensureTx`, as `UpsertState` has no
successor when it is nil.

### What the passing runs show

* `SnapshotsWhole`, `WholeFile`: nothing partial and nothing mixed is ever
  visible in the tables.
* `PointerHonest`, `SourceIsNewest`: the state row names the newest snapshot
  and that snapshot is there.
* `MemoryBacked`, `ValidatorsBacked`: no conditional GET can withhold data that
  is not stored.
* `StoredOnce`, `TokenNotRepeated`: without lost acknowledgements a version is
  stored once and a committed token update never again. After a lost
  acknowledgement memory still holds the old Last-Modified, and the version *is*
  stored a second time under a second snapshot time: once for every such
  commit, which `ArchiveSpec` allows (`Repeats`), and nothing else. TSM has no
  such repetition: the primary key contains the source timestamp, so the second
  copy conflicts and rolls back.
* `CompletedMeansStored`, `NoJobLost`, `ErrorNotLost`, `Seeded`: the unwinding of
  the pool while the caller reads the channel. A caller that leaves early, after a
  failed commit, waits for nobody: the process exits, and a goroutine that was still
  sending ends with it. After a cancellation the caller can in fact reach `markCompleted`
  with recipes missing and no error seen; what saves it is only that the
  statement runs on the cancelled context. The mutant `Reachable_Detached` shows
  it.
* `SlotsPaced`, `WaitBounded`, `RequestsInBudget`: slots stay an interval apart over
  pauses and cancelled waits, and no more requests are released than slots have come
  due. This budget is cumulative: callers that wake late may still be released
  together, each in a slot of its own that has passed.
* `RefreshedOnlyWhenDue`, `RetryAfterHonoured`, `CallsEnd`: of callers that queue
  behind a refresh none repeats it, no attempt comes before an earlier hint allows
  it, and every way out of a refresh gives the lock back.
* `ItemsComplete`, `RecipesAsListed`, `MetadataKept`, `RecipeStageSpec`,
  `SeedingEnds`: a completed stage has what was listed, in whatever batches,
  pages and runs it came. `ItemsComplete` needs the search to answer in id order,
  as the next page starts behind the highest id seen; `SeedingEnds` does not.
* `PollsInBounds`, `WindowUsed`, `WindowCloses`: only a first pass may begin after
  the end, because the end is checked before the regions' state is loaded.
* `WarningsTrue` for both feeds; `OldDataWarned` for TSM, `SilenceWarned` for the
  unchanged polls of Blizzard. A TSM warning has one exception: after a lost
  acknowledgement it may speak of the file before the stored one (section 6).
* `SuccessIsHonest`, `AtMostOneLatePoll`, `EndsWhenTold`, `PollsInTheEnd`: when a
  timer and the context are ready together, `select` may take the timer, so one
  more poll may begin; not two.
* `CommoditiesArrive`, `TokensArrive`, `FilesArrive`: see fairness.

### What the violated run shows

`tsm_ended`: when `loadState` fails, `runRegion` logs and returns; no error
reaches the errgroup, so the process keeps running without that region. The
Blizzard loop, in the same situation, returns the error and is restarted.

## 4. Fairness

The liveness runs assume weak fairness of the goroutines' steps: of each
region's goroutine in `TSMPoll`, of the caller and of the pool in `RecipeSeed`,
of every caller in `Requests`, of `Seeder.Run` in `SeedStages`, of start-up, the
loops and `group.Wait` in `PollSchedule` and `ScraperProcess`. This is the Go
scheduler together with calls that return: the HTTP clients have a timeout
(`main.go` line 79), the database answers or the connection breaks. Time is
fair as well (`Tick` in `Requests` and `PollSchedule`). A process that exited
with an error is restarted (`restart: unless-stopped` in `compose.yaml`). Nothing
forces a process that was told to stop to be started again, the feeds to
publish, or a failure *not* to happen: faults are bounded instead, except those
of the regions in `Unreliable`, whose commodity endpoint may fail every time.
`RateLimiter` and `Staleness` have no liveness and no fairness.

## 5. What is proved

Every safety invariant, action property and refinement that a passing run checks is
also a theorem, for all values of the constants; only liveness is left to TLC.

| Module | Theorem | States |
| --- | --- | --- |
| `BlizzardPollProofs` | `TypeCorrect`, `WholeSnapshots`, `HonestPointer`, `MemoryIsBacked`, `VersionsStoredOnce` | `[]TypeOK`, `[]SnapshotsWhole`, `[]PointerHonest`, `[]MemoryBacked`, `[]StoredOnce` |
| | `TokensNotRepeated`, `ImplementsArchive` | `TokenNotRepeated`, `ArchiveSpec` |
| `TSMPollProofs` | `TypeCorrect`, `BackedValidators` | `[]TypeOK`, `[]ValidatorsBacked` |
| | `NewestSource`, `WholeFiles`, `ImplementsArchive` | `[]SourceIsNewest`, `[]WholeFile`, `ArchiveSpec`; see the conditions below |
| `RecipeSeedProofs` | `CompletedIsStored`, `JobsAreKept`, `ErrorsAreKept` | `[]CompletedMeansStored`, `[]NoJobLost`, `[]ErrorNotLost` |
| `RequestsProofs` | `HintsAreHonoured`, `RefreshesAreDue`, `TokensAreAlive` | `[]RetryAfterHonoured`, `RefreshedOnlyWhenDue`, `TokenGivenAlive` (no run states the last: for the margin, less the latency of the answer that brought it, a token is alive when a call gets it) |
| `RateLimiterProofs` | `PacedSlots`, `WaitsBounded`, `BudgetKept` | `[]SlotsPaced`, `[]WaitBounded`, `RequestsInBudget` |
| `SeedStagesProofs` | `MetadataIsKept` | `MetadataKept` |
| | `ItemsAreComplete`, `ImplementsLedger`, `RecipesAreAsListed` | `[]ItemsComplete`, `RecipeStageSpec`, `[]RecipesAsListed`; see the hypotheses below |
| `PollTimingProofs` | `WindowIsUsed`, `PollsWithinBounds` | `[]WindowUsed`, `PollsInBounds` |
| | `WarningsAreTrue`, `SilenceIsWarned`, `OldDataIsWarned` | `WarningsTrue`, `SilenceWarned`, `[]OldDataWarned` of `Staleness` |
| `ScraperProcessProofs` | `HonestSuccess`, `OneLatePoll` | `[]SuccessIsHonest`, `[]AtMostOneLatePoll` |

Each of these modules also proves its own `TypeCorrect` (`PollTimingProofs` also
`RegionTypesCorrect`, for `Staleness`). They rest on the named
assumptions about the constants in the modules they extend, which TLC evaluates in
the runs, and on the hypotheses named below, and on nothing else. Every inductive invariant below was checked with
TLC before it was proved.

**Blizzard loop.** `TypeOK` is not inductive, because the types of `poll` do not say
that a poll under way names a version, which `StreamAuction` needs in order to
look its listing up. `TypeInv` adds this (`PollNamed`). `SnapshotsWhole` and
`PointerHonest` say nothing about an open transaction, so they are strengthened
to `IInv`:

* `TxHoldsPrefix`: the transaction holds exactly the first `poll.copied` auctions
  of the version being streamed, stamped with the current clock, all of them
  from the upsert on;
* `FiledInPast`: whatever is committed was filed before the current clock, so a
  commit opens a new snapshot and cannot add to an old one;
* `SnapshotsWhole` and `PointerHonest` themselves.

Initially the tables are empty. Steps that leave tables, clock, `tx` and `poll`
alone keep all four (`StoredQuiet`); the streaming steps extend the prefix; a commit
turns a complete prefix into a complete snapshot and the pointer into its name
(`StoredBySnapshot`); a token commit touches neither column `PointerHonest`
speaks about (`StoredByToken`). The crash case is the disjunction of these.

The other four compare feed, table, memory and the poll under way. `Fresh` puts
them in order: nothing is stored that was not served (`FeedLeads`), memory is not
ahead of the table (`MemoryBehind`), what is polled is at least as new as what is
committed and, once it is going to be stored, newer than memory (`PollFresh`);
memory equals the table until an acknowledgement is lost (`MemoryCurrent`).
`StoredOnce` needs a count as well: `CopiesCounted` says that a version has at
most one copy more than acknowledgements were lost, and at most as many while
memory does not know that it is stored. For `ArchiveSpec` a commit is shown to be
`Ingest` of one whole version under a new name, and everything else that touches a
table or a feed to be `Publish` or a stutter.

**TSM goroutines.** One transaction is open per region, and after a crash a commit
under way may still be applied, so everything said about a transaction is said
as long as it can be committed (`Active`). `TypeInv` adds to `TypeOK` that what was read
so far is one well-formed file (`ReadSound`). `IInv` consists of `TxHoldsPrefix` (the full
batches read, and in the end the whole file: here `\div` and `%` have to be reasoned
about, lemmas `Quotient` and `FlushedUpTo`), `RowsSound` (a row of the table is one of a
well-formed, published file), `MemoryKnown` (the file read is newer than memory, and
memory is the stored state until an acknowledgement is lost) and `NoCollision` (the
rows copied so far meet none of the table, or the copy would have failed).

The code compares a file with memory and not with the table. While no
acknowledgement is lost they agree, and the theorems have no condition. After a
lost one, memory is behind, and two of them depend on what TSM publishes:

* `NewestSource` then needs `Ordered`, well-formed files come in the order of their
  timestamps. Otherwise an older file than the stored one is taken (section 6).
* `WholeFiles` then needs `Distinct`, two well-formed files of one timestamp have an
  item in common. The second one is refused only because its rows meet a primary key
  that exists; two files without a common item would be mixed under one timestamp.

`ImplementsArchive` then needs both. Neither is a convenience of the proof: TLC finds
a counterexample with a lost acknowledgement when one of them is dropped. The files
of the runs meet them. `BackedValidators` needs neither.

**Recipe stage.** `WorkersIdle` and `PoolEnded` say what workers and channel are when
idle and when closed. `Pipeline` speaks of the time in which the caller collects and
the process is not told to stop: if the group is cancelled, or a worker is about
to cancel it, the error is in the channel or seen (`ErrorKnown`); unless there is
such an error, or one about to be sent (`ErrorMade`), every job handed out is in one
of the four places (`Placed`); and the feeder has stopped early only after an error.
When the channel is closed and empty without an error, nobody holds a job, so
`Placed` leaves batch and database: `AllStored` carries this to the marks. With the
process told to stop it is false, and not needed, as nothing can be marked then.

**Requests.** `LockedWhileFetching`: who fetches a token is who holds the lock, and the
cached token will not do for as long as that takes, since only the answer
changes the cache and time only makes it staler. `CacheBacked`: the end the client
takes its token to have is too late by at most the timeout. `CallsInOrder`: a pause, a
request under way and a request to be sent are never earlier than the last hint,
because a hint is part of the delay that follows it, and every later delay starts
when the hint is over. All steps of a call go through two lemmas (`CallGoesOn`,
`RetryInv`). That a backoff `2 ^ n` is a natural number follows from the number of
subsets of a finite set.

**Limiter.** `SlotsPaced` is about `handed` alone, and a
reservation extends it by a slot taken from `next`; so `SlotsInv` adds that `next`
is one interval behind the last slot (`NextFollows`). `WaitBounded` compares with
the clock. Its strengthening `Gapless` says that slots of the future follow each
other without a gap, and that the first slot is due: the wait for a slot of the
future is then at most as long as the slots from the last due one on, which are
all pending. `ReleasedDue` says that what was released was due; of n released
slots one has a number of at least n (`HighNumber`), and it comes no earlier than
n - 1 intervals after the first, which is the guard of `RequestBudget`'s `Send`.
Products of two variables are kept out of the leaves by `Span` and its lemma.

**Schedule.** `ScheduleMeaning` is what `resolveSchedule` computes: neither end beyond
what is asked for, and an end if one is asked for. `Resolved` keeps it with the
process, `WaitsInTime` says that nobody waits for a start that has passed unless it
passed during start-up, and `ChecksMade` keeps what was compared with the end: the
time the loading began, or the time at which a sleep ends.

**Warnings.** `AgesTheStored` relates the time that is aged to the version that memory
knows, and orders the three copies: memory is not ahead of what is stored, nor that
of what is published. An unchanged Blizzard poll finds the first equal to the last,
hence to what is stored, so its warning is true even after a lost acknowledgement; a
TSM loop checks after every poll, hence the exception in `WarningsTrue`.
`SilencesApart`: a Blizzard warning that is remembered is about the present silence,
as a stored change forgets it.
`CheckedInTime` says that the last poll of a TSM loop ended at an instant e that the
next poll follows in time, with nothing old at e that had not been warned about; or
that the process is still in its first poll.

**Process.** `FailureKnown`: while `run` waits, what has failed is the Blizzard loop,
which shows it. `LatePollEnds`: a loop with a late poll is in it or has ended.

**Seeder.** These proofs are half about data: what folds over lists of any length
compute. The community modules define folds by functions that are recursive, or
chosen so as to satisfy an equation, and the library's induction theorems take an
operator as a parameter. Both are got round in the same way. `Induction` is stated
for a *set* of numbers and proved from the well-foundedness of the naturals
(`NatLessThanWellFounded`, `WFMin`); with it a function that satisfies the equation
is shown to exist (`FoldExists`), so that the chosen one does too, and what is true
of it is proved by induction again. `FoldRun` then makes each `FoldLeft` the last of
a run of states (`ExecRun`, `FirstRun`, `RequiredRun`, `OptionalRun`), one step per
element. From these follow

* `ExecMeaning`: a transaction loses no key, and what it leaves at a key is what was
  there, a row staged for a key that was not there, or a row of a load that updates;
  one that succeeds has all staged keys;
* `KeepFirstMeaning`, `RecipeJobsMeaning`: one job per listed recipe, with its first
  place;
* `ReagentsMeaning`: the keys are the items of both lists, and an item is optional
  exactly if it is in no required reagent;
* `FlattenTyped`, `ListingTyped`: the types of nested listings.

`TypeOK` says of a transaction under way that its tables exist and that what may
replace an item is metadata (`FullUpdates`): without it `MetadataKept` would not
follow from one step. `ItemsInv` adds to `ItemsComplete` that everything below
`startingID` is in the rows of the scan or stored (`Covered`), and that a scan which
begins finds an empty `scan`. `LedgerInv` says that while the recipes are stored
each listed one is stored, staged or still a job, and that nothing else is any of
these. `RowsInv` says the same of whole recipes with all their rows: the tables hold
nothing but rows of the listing (`StoredDue`), and a job that is no longer to be
done has all of its rows in the tables or in the loads.

Three theorems have a hypothesis about how the API changes, as each compares what
was read at one time with what is listed later:

* `ItemsGrow` (for `ItemsAreComplete`), no item is taken back: `ItemsComplete` is
  about what was listed when the scan began, and an item withdrawn before the scan
  reaches it is in no page. That searches answer in id order is a condition of the
  property itself.
* `RecipesSame` (for `ImplementsLedger`), the same recipes are listed, under any
  places and with any details: a recipe that appears after the stage is marked is
  never fetched, and one that was withdrawn stays in the tables.
* `RecipesSteady` (for `RecipesAreAsListed`), nothing the recipes stage reads
  becomes another thing: `RecipesAsListed` compares the tables with the present
  details.

The histories of `seed_stages` meet all three, which `HistoriesAreOfTheseKinds`
makes TLC check; items are added in one of them and professions in another.

Only model-checked: liveness under fairness (`CommoditiesArrive`, `TokensArrive`,
`FilesArrive`, `Seeded`, `CallsEnd`, `SeedingEnds`, `WindowCloses`, `EndsWhenTold`,
`PollsInTheEnd`), which is out of the prover's reach.

## 6. Where the code and its texts disagree

One disagreement is a run (`tsm_ended`). The models show the others as
counterexamples to the formula named; these are not runs of the project,
which states what does hold.

* *Token timestamp without a row.* `storeToken` "atomically records a token price
  row and advances the region's dedup timestamp" (`scraper/scraper.go` 171-172), with
  an `UPDATE` (line 184), and a region has no row until its first commodity snapshot
  commits. After a failed first commodity poll the price is stored, the timestamp is
  not, and a restarted process stores the same price again: in `BlizzardPoll`,
  a row of `wow_tokens` newer than `scraperState[r].tokenUpdated`.
* *Newness after a lost acknowledgement.* "A source timestamp must be newer than the
  region's committed timestamp" (`docs/data-invariants.md` 85), but the check
  (`scraper/tsm_scraper.go` 189) compares with memory, which a lost acknowledgement
  leaves behind. An older file served next moves the committed timestamp back:
  `[][\A r \in Region : tsmState'[r].sourceAt >= tsmState[r].sourceAt]_vars` fails in
  `TSMPoll` for files with timestamps 1, 3, 2.
* *Expired token in a retry.* "The early refresh margin keeps in-flight requests from
  failing on a token that expires between fetch and use"
  (`scraper/blizzard_api_client.go` 90-92), but `apiRequest` captures the token once
  (line 141), an attempt may last two minutes and Retry-After any time, so a
  retry can carry an expired token, and the 401 is not retried (`TokenRefused`
  in `Requests`, after a pause).
* *Stubs.* Placeholder rows are inserted so that foreign keys "can commit before
  full item metadata is fetched by the items stage" (`scraper/seeding_sql.go` 123-124).
  That stage is completed by then and never runs again, so a stub of a recipe
  batch stays one even when the API comes to list the item.
* *A new profession.* The recipes stage lists the professions anew and stores tiers
  and categories, but no profession rows (`scraper/recipes_seed.go` 47). A
  profession that appeared after the professions stage completed violates a
  foreign key in every later run, while seeding is meant to resume
  (`scraper/seeder.go` 12-14). `SeedingEnds` therefore has the precondition
  `Seedable`, and fails without it on the history `<<Base, Twice>>`.
* *Duplicate recipes.* "The scraper rejects duplicate recipe IDs discovered during
  hierarchy traversal rather than silently selecting the first location"
  (`docs/data-invariants.md` 20), but a second listing is logged and skipped
  (`scraper/recipes_seed.go` 73): `KeepFirst` in `RecipeRows`.
* *`POLL_END`.* It "stops polling after the given duration since it began"
  (`scraper/.env.example` 17-18), but the bound is relative to the time the
  configuration is read (`scraper/config.go` 120). The process exits with status 0,
  compose restarts it (`compose.yaml` 28), and it polls for another `POLL_END`:
  `LoadConfig` after `Exit` in `PollSchedule`.
* *Stale warnings after a lost acknowledgement.* "A source older than approximately 26
  hours emits a bounded stale warning" (`docs/data-invariants.md` 89), and so does a
  newer one whose commit was applied and reported as failed: memory keeps the file
  before it, whose age is checked after every poll (`scraper/tsm_scraper.go` 108), and
  the stored file is refused when it is fetched again, until a newer file or a restart.
  When it was the region's very first file, memory has no time at all and nothing is
  warned about. `WarningsTrue` without its last disjunct fails in `Staleness`.
* *Silent Blizzard regions.* "A region is warned as stale after 10 minutes without an
  upstream change" (`scraper/scraper.go` 190-192), but only unchanged polls check
  (line 134), so a region whose polls fail is never warned about. `OldDataWarned`
  is about TSM for that reason, and fails for the Blizzard loop.

## 7. What the models assume and leave out

* Blizzard and TSM are external: a Blizzard feed moves forward only, so does a
  token's timestamp; TSM publishes the files of the configuration in order,
  which may have any timestamps.
* A statement on a context that is already done fails without reaching the
  database (`pgxpool` refuses to hand out the connection). A statement under
  way when something fails may or may not have been applied.
* PostgreSQL transactions are atomic, and each loop owns the rows of its region,
  so no isolation anomaly can be seen.
* `snapshotTime` differs between commits of one process and grows across
  restarts: the wall clock does not go back.
* For the polling loops OAuth, rate limiting and retries are the outcome of one
  request, and a pass may begin at any time.
* In `Requests` the wait for the limiter takes no time, a request is sent as soon as
  it may be, and `expires_in` is the same for every token. The client's clock is
  exact; a token's life begins at some instant of the request that fetched it.
* `RecipeSeed` lists the same jobs in every run; recipes that appear between two
  runs are in `SeedStages`, where each listing is read from one edition of the
  catalogue and the worker pool is any order of delivery.
* The clocks of `PollSchedule` and `Staleness` are coarse: delays below one unit do
  not exist, and a timer fires in the tick it is due.
* In `ScraperProcess` migrating and seeding are one step each, which their own
  modules, or goose, take apart.

Not modelled: hypertables and check constraints on values; logging; the parsing
of the environment, of JSON and of CSV columns; how goose orders, locks and rolls
back migrations; the image build and the shell scripts.

## 8. Plan

All modules planned are written, and every safety property they check is proved.
What is left:

1. Liveness, should a prover for it become available: the inductive invariants of
   section 5 are what such proofs would start from.
2. Sharper hypotheses for the conditional theorems, should TSM ever document in
   what order it publishes files, or Blizzard which of its ids it may withdraw.
3. `RecipesSteady` forbids that a recipe's details change while it is stored. A statement
   that every stored row is one the API gave at *some* time would need no hypothesis.
