# api-mirror, specified

TLA+ modules, model-checking configurations and machine-checked proofs about
`api-mirror`: a server that answers a provider's REST API (GitHub's, in the
sample specification) from a local SQLite database, which it fills by reading
through to the provider, keeps up to date from the provider's webhooks and
refreshes in the background.

`src/` stands for the repository, as in `PROJECT.json`; a file named alone is in
`src/internal/mirror/`, and `github.xml` in `src/samples/github/`.

## 1. Inventory

| component | state it keeps | operations | talks to |
|---|---|---|---|
| Freshness manager (`freshness.go`, freshness rows in `store.go`) | a row per `(kind, key)`: state, `expires_at`, `retry_after`, status, error; a mutex per key; a WaitGroup and an in-flight gauge | `Ensure`, `Refresh`, `doFetch`, `Drain` | store; a fetch function given by the caller |
| Cached read and fetch (`engine.go`, `fetch.go`, `absorb.go`) | resource rows | `serve`, `fetch`, `absorbOne`/`absorbMany`, `rememberedRefusal`, the read back | freshness, upstream, reveal |
| Writes through (`engine.go` `forwardAndPurge`) | none of its own | forward, then delete the named rows | upstream, resource rows |
| Background refresh (`refresh.go`) | statistics, a stop channel | `cycle`, `refreshOne` | freshness rows, `Refresh` |
| Delivery ingest (`events.go`, `ordering.go`, `ingest_stats.go`) | open windows with their timers, a WaitGroup; watermarks; tallies | `Submit`, `close`, `run`, `apply`, `order`, `merge`, `invalidate`, `prune`, `Drain` | resource rows, notifier |
| Shutdown (`run.go`, `engine.go` `Drain`) | - | listener, refresh, replay, freshness, ingest, notifier, in that order | everything above |
| Consistency check (`check.go`) | verdicts | `Check`, `checkOne`, repair | upstream, rows, `Refresh` |
| Reveal (`reveal.go`, grants in `store.go`) | grants and denials with expiries | `Allow`, `public`, `probe`, `remember`, `RenewOn2xx` | upstream with the caller's credential |
| Notifications (`notify.go`, `subscriptions.go`) | subscriptions with failure counts, a goroutine per notification, a WaitGroup | `Fan`, `deliver`, `recordFailure`, `Drain` | subscribers |
| Replay (`replay.go`) | what was asked for already | `cycle`, `ask`, `alreadyAsked` | the provider's delivery log |
| Debouncer (`debounce.go`) | calls under way, finished results inside the window | `Share` | the handler |
| Telemetry (`timeline.go`, `requestlog.go`, `ratemeter.go`, `observe.go`) | bounded rings | `Observe`, `Frames`, `Record` | dashboard |
| Store opening (`store.go`, `schema.go`) | file, schema, fingerprint | `Open`, `applySchema` | SQLite |
| Routing and rewriting (`router.go`, `paths.go`, `plan.go`, `engine.go`) | none | match, rewrite, key strings and back | every request, the sweep |
| Absorbing (`absorb.go`, `shapes.go`, `dsl.go`) | none | document to columns and back | fetches, deliveries |
| Specification (`load*.go`, `config.go`, `validate.go`) | fixed at the start | parse, `Validate` | everything |
| Dashboard, relay, CORS, health (`admin*.go`, `web.go`, `relay.go`, `cors.go`, `health.go`) | none | views; a relay forwards | - |

How they meet: everything shares the store, one statement at a time, and no
transaction spans two statements of different tables. A read takes the freshness
mutex of its key; a delivery takes none, so fetches and deliveries interleave
statement by statement on the resource row. The routes of one resource write the
same rows (`github.xml:468` and `476`, a list and a single item) under a mutex
each, so fetches of two keys interleave on a row too. The two protections against
that are the watermark (deliveries among themselves) and the sweep (everything,
later).

What is hard here: many goroutines missing one key; a decision taken on a row
read before a mutex was held; a fetch that answers late, after a delivery; two
batches of one subject at a time; a read-modify-write without a transaction; a
crash between the watermark and the row; clocks in whole seconds; drains that
race with work not counted yet. `PROJECT.json` lists each under "hazards" at its
line, with the properties that cover it or the reason none does.

What makes each component correct, in a sentence each:

* Freshness: one fetch per key at a time, and no answer that may still be served
  is given up; every waiter comes to an outcome.
* Cached read: a row goes back only where something overtaken comes in; a fresh key
  has a row to answer from; a reader sees at least what its own fetch was told.
* Refresh: whatever is lost, every stored key agrees with the upstream again.
* Ingest: a view is refused only for a newer one, the newest view of a subject
  stays, a merge touches its own columns, nothing accepted is dropped in order.
* Check: only real drift is reported, and a repair undoes nothing it could see.
* Reveal: a proof and a 403 do not outlive each other, a revoked principal is
  shut out in the end, an admitted one is let in.
* Notifications: every live subscriber that wants an event is told, a dead one is
  parked and then left alone, a drain waits for what was promised.
* Replay, debouncer, shutdown: a delivery is asked for again once and not twice;
  followers get their leader's answer; after the drains nothing is left that
  could write, and they end.
* Store opening: a process serves rows of its own schema only, and a cache is
  thrown away only when the schema has changed.
* Routing and absorbing: a caller is told what the upstream would tell it, a write
  finds every row of what it names, the sweep asks what readers asked.
* Rings: never beyond their bound, and the newest entries are shown in order.

## 2. Modules

| module | stands for |
|---|---|
| `SingleFlight` | abstract: per key, at most one question before the upstream, none while the last answer is good |
| `Freshness` | the freshness manager; refines `SingleFlight` |
| `Mirror` | EXTENDS `Freshness` with the upstream, the resource rows that keys share, readers, the sweep, deliveries and writes |
| `MCMirror` | a small instance |
| `Overlap` | EXTENDS `Mirror` with the history of the answers that were overtaken |
| `MCOverlap` | a small instance |
| `Audit` | EXTENDS `Mirror` with the consistency check and its repair |
| `MCAudit` | a small instance |
| `MirrorProofs` | theorems about `Freshness`, `Mirror`, `Overlap` and `Audit` |
| `Ingest` | the reorder window, the watermark, merges and the reorderer's drain |
| `IngestProofs`, `MCIngest` | theorems, sample deliveries |
| `Reveal` | grants, denials, the probe and the renewal, for one key |
| `RevealProofs`, `MCReveal` | theorems, who is nameless |
| `Notify` | subscriptions, the fan-out, its goroutines, parking and the notifier's drain |
| `NotifyProofs`, `MCNotify` | theorems, who is choosy |
| `Opening` | the start of a process on a cache file: fingerprint, drop, tables, crash |
| `Process` | EXTENDS `Opening` with the process that serves, its goroutines and its shutdown |
| `ProcessProofs`, `MCProcess` | theorems, a small instance |
| `Replay` | cycles over the provider's log of failed deliveries |
| `ReplayProofs`, `MCReplay` | theorems, a small instance |
| `Debounce` | leader and followers of one URL |
| `Telemetry` | the timeline and the request log as operators on rings |
| `Edge` | EXTENDS both: what is forwarded and what is shown of it |
| `EdgeProofs`, `MCEdge` | theorems, a small instance |
| `Routes` | path matching, rewriting, key strings and their way back |
| `Documents` | EXTENDS `Routes`: a document into cells and back |
| `Validation` | EXTENDS `Documents`: which specifications may be served |
| `Serving` | EXTENDS `Validation`: requests, rows, writes and the sweep under a specification |
| `Described` | EXTENDS `Serving` with what a specification owes the upstream it describes, and what is stored then |
| `ServingProofs` | theorems about key strings, purges, the sweep's plan, the store and the answers |
| `MCDescribed` | EXTENDS `MCServing`, `Described`: the served specifications are described ones |
| `MCServing` | three specifications that are served, two that are refused, their upstreams |

### Freshness

A caller is a goroutine inside `Ensure` or `Refresh`. Its `pc` stops wherever the
code runs a store statement or blocks:

| pc | code |
|---|---|
| `idle` -> `hit`/`error`/`queued` | `Ensure` reads the row, or `Refresh` reads the validators |
| `queued` -> `hit`/`cleared` | `doFetch` has the mutex and reads the row again (`freshness.go:149-160`) |
| `cleared` -> `asking` | `wg.Add`, the gauge and `MarkFetching` (161-176) |
| `asking` -> `answered` | the fetch function returns |
| `answered` -> `miss`/`error` | `RecordFetched` or `MarkError`, then the deferred calls |

The deadlines are kept as time left (`left`, `hold`), so `Tick` needs no bound.
`StoreMayFail` lets every bookkeeping statement fail. `Restart` is a crash or a
regular end: rows stay, memory goes.

### Mirror

A document is the number of upstream changes it reflects. `Absent` says which of
those the provider answers 404 for. `RowOf` gives each key the row that its route
reads and writes, and `Shape` says whether that route is a single one, a list or a
complete list; of a list the model follows one item, which the list names as long
as there is one. `Hook`, `WritesThrough`, `AbsorbsNotFound` and `Conditional` (are
the caller's validators forwarded?) are what the mirror's own specification file
declares. `Absorb` is the fetch's write to the resource row, which comes before
the bookkeeping write of `Freshness`; a list that no longer names the item leaves
the row or, where it is complete, deletes it (`Forgets`). `NotModified` is the 304
that is a success and stores nothing (`fetch.go:48`). `Deliver` is a whole
delivery: watermark, then row; here the two are one step, because module `Ingest`
takes them apart. `Write` and `Purge` are the two halves of `forwardAndPurge`.
`Clock` divides versions by `PerSecond`, the way a payload's clock has whole
seconds only. A delivery loses, repeats and overtakes freely: any past version may
be delivered at any time, any number of times, or never.

### Overlap

`late` has the callers that hold an answer for a row and heard it before a delivery,
a fetch of another key or a 304 came in for that row; `back` the rows to which such an
answer, a delivery or a 304 came in last. Both are histories and guard nothing. The
drain of the freshness manager runs here too (`Shuts`).

### Ingest

All deliveries are about one row. A column holds the number of the delivery whose
value it shows. A delivery is `held` from its 202 to its outcome. `Close` is
`close` while the mutex is held; `Count` is its `wg.Add`, which comes after; then
`Order`, `Read`, `Write` (or `Invalidate`) per delivery, each a store statement
that may fail when `Failing` says so. `StopTimer`, `StartWait` and `EndWait` are
`Drain`. `Age` moves the retention's edge, and `Prune` is the sweep of old
watermarks that a successful apply may run.

### Reveal

A request's `pc` names the next store statement or call: `public`, `grant`,
`denial` and `probe` are the rungs of `Allow`, `probed` the answer in hand,
`revoke` the second statement of `remember`, `allowed` the gate passed, `hit` and
`miss` what `Ensure` said, `renew` the statement of `RenewOn2xx`. `grant` and
`deny` are the time left of the two rows. `RecordGrant` is one step because
`store.go:341` runs both its statements in one transaction; `RecordDenial` and
`Revoke` are two because `remember` does not. The fetch is one step with the
outcomes it can have, and `Elsewhere` is everybody else's effect on what is
stored. Who is nameless and whether the rule has a probe is fixed at the start of
a behaviour. `torn` remembers that a revocation was lost.

### Notify

A slot is one `Fan` at a time: `List` is `Matching`'s query, `Pick` the statement
that reads one secret, `Launch` one `wg.Add` with its `go`. A `task` is the
goroutine: `starting` until it runs, `posting` (with the number of its `attempt`),
then `good` or `bad` until the statement that writes it down. Registrations are
made and deleted at any time. `promised` remembers what was in flight when the
drain began. A slot is used again when its goroutines have ended.

### Audit

Everything of `Mirror` goes on while a check is under way. `List` is
`FreshnessByKind` with every key's `changed_at`, `ReadStored` the first statement
of `checkOne`, `Hear` the upstream's answer, `Drift` the second look at
`changed_at`, `Repair` the write, which takes no mutex and leaves the bookkeeping
row alone. `changed_at` is kept as what the check can tell of it: `still` has the
keys whose listed second is still running, in which another fetch moves nothing,
and `moved` those whose `changed_at` is later by now. A key was recorded in the
current second when all of its lifetime is left. `slips` is a history: the
fetches that stored a row under the check and that `changed_at` did not tell of
in time, and `NoOne` for a delivery, a purge or a look that failed.

### Opening and Process

A schema is a member of `Specs`, and the file has a number of its tables, as SQLite
commits each `CREATE TABLE` by itself. One action per statement of `Open`: the
fingerprint read, the file dropped, a table created, the fingerprint written; each
may fail, and the process may crash between any two. `cut` remembers that one died
between its first table and the fingerprint.

In `Process` a request, a batch, a sweep and the replayer are reduced to what a
shutdown waits for. `stage` goes through the listener's shutdown, `refresh.Stop`,
`replay.Stop` and the drains of the freshness manager, the reorderer and the
notifier, in that order. `gaveUp` remembers a timeout, `missed` the batches that a
timer had taken out and not counted when the reorderer's `Wait` returned. `hand` is
a sweep that an operator started. `listed` has the subjects whose batches the
reorderer's drain has yet to take over; it runs those itself, one after the other
(`flushing`), and only then does its wait begin, with the timeout. The selects of the
sweep and of the replayer take the tick or the stop where both are ready, so either
job may begin another cycle after its stop: the sweep's then looks at the stop before
its first kind, the replayer's asks on to its end.

### Replay

An entry of the log is its age; entries come and go between any two steps. A cycle
reads the list once and comes to each entry in turn; a request and its answer are
two steps, with a lost answer, a timeout and a restart in between. Undated and
nameless entries are those in which the rule's `at` or `id` finds nothing.

### Debounce, Telemetry and Edge

A caller leads (`Lead`), joins (`Join`) or goes alone where the method is not
shared. A leader's answer is `open` until its body is read, then `done` or
`broken`; `Hold` is the replay to the leader's own client, after which the window's
timer runs, and `Expire` is the timer. `Telemetry` has the rings as records of a
slice, a head and a size; `Edge` charts an exchange when its body is closed, stamped
with the time it began, and logs a request when its handler returns. `frames` and
`entries` are histories: the last exchanges and requests as plain sequences.

### Routes, Documents, Validation and Serving

A text is a word, whether it is in upper case, and how often it has been escaped.
`Serving` has no time and no races: one request, write, expiry, sweep or
disappearance a step, on rows that list and single routes share. What it is about
is which row, which key string and which request. `truth` is what the upstream
still has, `told` what the last caller heard, `wiped` the items whose rows a write
dropped while the upstream kept them, which a list shows again only after its next
fetch. `marks` keeps, with each key's bookkeeping, the plan of its last reader. Who
answers a request, and under which plan, depends on the specification alone: `Arrivals` is what may be asked
of each that is served, as it reaches its handler (`Dispatched`).
`Meant` is an external definition of what a request means to the upstream.

`Validate` does not make a specification true of its upstream, and no answer out of
the store is right unless it is. `Described` says what that takes, as conditions about
one request or two and about no state: `Describes`, `Sweepable` and `PurgesNameRows`
(section 4 goes through them). They are the hypotheses of theorems, and the list of
what the writer of a specification has to see to. `StoreInv` is what the store
promises under them.

## 3. Runs

Runs that pass:

| run | instance | properties | what it shows |
|---|---|---|---|
| `OverlapRows` | a reader and the sweep on a single route and a complete list of one row, a merging event, 304s, a version answered 404, a drain, restarts | `OneFetchPerKey`, `AnswerKept`, `KeepsPromise`, `NeverGoesBack`, `OwnFetchVisible` | one fetch per key, no answer given up that may still be served, and the manager implements `SingleFlight`; a row goes back, and a reader is told less than its fetch was, only where something overtaken came in |
| `MirrorFetch` | a reader and the sweep, an invalidating event, writes, 304s, a version answered 404, failing statements | `CatchesUp`, `Responds` | the sweep repairs whatever the rest leaves behind; nobody waits for ever |
| `AuditRepair` | a check beside a reader, the sweep, a merging event and failing statements | `RowBehindFresh`, `DriftIsReal` | a fresh key that is not refused has a row; a drift that is reported is one, and a repair undoes no write but those `changed_at` does not tell of |
| `IngestOrder` | three deliveries, one batch applied at a time, window or none, failing statements | `NewestWins`, `Answered` | no column goes back to an older view among ordered deliveries; what is answered 202 comes to an outcome |
| `IngestMark` | two batches applied at once, pruning, failing writes | `RefusedOnlyForNewer`, `MarkCoversRow` | refusals are fair and the watermark covers the row |
| `RevealLadder` | two requests of one principal, or one of a nameless caller | `OneAnswer`, `RevocationHolds`, `NotLockedOut` | racing probes leave no proof beside a 403; a revocation works in the end, and so does an admission |
| `NotifyFan` | two `Fan`s at once, a subscriber that comes and goes | `ParkedIsQuiet`, `DrainWaits`, `DeadIsParked`, `HealthyIsTold` | parking stops the failures, a drain is honest, the dead are parked, the healthy are told |
| `ProcessLife` | three schemas, one of them refused; crashes, failing statements, shutdowns | `ServesItsOwn`, `OnlyACutStopsIt`, `KeepsItsCache`, `ExitLeavesNothing`, `ShutdownEnds` | no process serves another schema's rows; only a start that was cut off stops the next; a shutdown without a timeout leaves nothing that could write, and it ends |
| `ReplayCycle` | three failures, one undated, one nameless; one request a cycle | `OncePerLookback`, `CapIsTheOnlyExcuse` | no failure is asked for twice within the lookback; a failure that a cycle leaves out was left out for a reason the code has |
| `EdgeTraffic` | three readers of one URL | `Spaced`, `NotACache`, `FollowersAnswered`, `ChartIsComplete`, `RecentIsRecent` | one call per window and no answer older than it; followers are answered unless their leader's body broke off; the rings show the last entries in order |
| `DescribedAnswers` | three specifications with their upstreams, two that are refused | `AnswersTheQuestion`, `StoreInv`, `PurgeDropsWhatItNames`, `SweepAsksAsReadsDo` | callers are told what the upstream would tell them; a fresh key has the rows of all that its readers ask for, and the status the upstream answers them with; a confirmed write leaves no spelling of its item and takes nothing else; the sweep asks what readers asked. `WorldsAreDescribed` evaluates the hypotheses of the theorems about `Serving` on each specification that is served |

Four of them check their module's type invariant too (`TypeOK`, `IngestTypeOK`,
`RevealTypeOK`, `NotifyTypeOK`); those of the others are proved (`MirrorTypeOK`,
`OverlapTypeOK`, `ProcessTypeOK` in `Goroutines`, `ReplayTypeOK`, `AuditTypeOK`,
`EdgeTypeOK`), but for `Serving`, whose requests and rules `ServingAssumption`
describes.

One run ends in a violation, of what the repository says; TLC's trace is the
scenario:

| run | what is said | what the code does |
|---|---|---|
| `ServingListIsExact` | `docs/design.md:92`: complete means that the answer is the whole set under its parent key, and the row of an item missing from it goes | the sweep parses the list's key string into every declared component, the missing ones as empty text; `ReplaceMany` selects by all of them, finds nothing, and the row stays and is served for another lifetime |

Divergences met while modelling, which no run is spent on. Of one key, one delivery
and one caller; all are in the models:

* A purge deletes the row and leaves the freshness row fresh, so the next read is a
  404 (`engine.go:283`), while `github.xml:1168` has it refetch.
* A fetch moves no watermark (`fetch.go:48`), so an older delivery is applied over
  what it stored, while `src/README.md:60` says that a redelivered payload cannot
  reopen what closed.
* A merge writes back every column it read (`events.go:371`), while `events.go:366`
  says that it touches only the named fields.
* A batch taken out of its window and not counted yet is missed by the drain
  (`ordering.go:132`), while `ordering.go:153` says that a shutdown drops none.
* A subscription deleted between `Matching`'s query and the read of its secret
  silences all the others (`subscriptions.go:159`), while `notify.go:96` says that
  every live one that wants the event is sent it.
* A delivery that lands while a key is checked is reported as drift, and a repair
  writes over it, as only `RecordFetched` moves `changed_at`; `check.go:121` says
  that such a delivery is told from drift. The same goes for a fetch that is not
  recorded yet, or in the second that was listed.
* A repair leaves a remembered 404 in place: the key is "repaired", and its readers
  are told 404 until it ages out.
* `Refresh` may answer with a hit: one that waited for the mutex behind a fetch
  finds the row fresh (`freshness.go:155`), while `freshness.go:108` says it
  fetches whether or not the row is fresh.
* The backoff is not looked at again under the mutex (`freshness.go:154`), so the
  readers queued behind a failure each ask once more; `engine_test.go:192` says
  that a failing upstream is asked once per window.
* `Fresh.Drain` misses a fetch whose goroutine has the mutex and has not counted
  itself (`freshness.go:161`), while `freshness.go:70` says that no database is
  closed under a fetch.
* An invalidating delivery deletes the row and leaves the remembered refusal of
  the key (`events.go:274`), while `github.xml:859` takes the stored not-found to
  go.
* A fetch that was told before a delivery and stores after it puts the old state
  back (`fetch.go:170`), while a subscriber who was told after the write is meant
  not to read it (`ingest_stats.go:157`).
* So does a fetch of another key of the row: the mutex is the kind's and the key's
  (`freshness.go:208`), and a list that was asked first may be stored last
  (`fetch.go:154`) over what a single route stored in between. A reader whose own
  fetch was told the newer version then answers with the older one. `NeverGoesBack`
  and `OwnFetchVisible` have exactly this exception, beside a delivery and a 304.
* A list that is not complete leaves the row of an item that is gone in place
  (`fetch.go:154`), to be served until a single route's fetch or a delivery says so.
* A 304 to a caller's own validator is recorded as a success whatever the row holds,
  even where there is none (`fetch.go:48`): it makes the key fresh, clears a remembered
  404 and keeps the sweep away from it, and each later 304 does so again. So
  `RowBehindFresh` is for specifications that forward no conditional headers, as the
  sample's (`Conditional`), and `CatchesUp` speaks of a time when 304s have ended.
* Notifications that fail after the subscription was disabled are tallied as one more
  disabled each (`notify.go:248`); the tallies are not modelled.
* Two batches of one subject interleave inside their merges (`ordering.go:132`),
  so with more than one applier `NewestWins` does not hold.
* Pruning goes by the payload's clock (`events.go:439`), while `store.go:302`
  speaks of subjects untouched for the retention.
* The refusal `serve` reads after a fetch may be another fetch's, or unreadable,
  so a renewal can follow a fetch that was told 404 (`engine.go:351`), while
  `reveal.go:219` says that the upstream just answered yes.
* A success that is written down after the subscription was parked clears its
  reason and its count and leaves it parked (`subscriptions.go:179`), while
  `notify.go:231` says that it stays marked disabled with the reason.

Of a process and what it forwards:

* A crash between the first `CREATE TABLE` and the fingerprint leaves a file without
  a fingerprint, which the next start takes for its own and fails to create the
  tables in, and so does every start after it (`store.go:26`, `store.go:124`).
* `drainTimeout` bounds neither `refresh.Stop` nor `replay.Stop`, nor the batches
  that `Reorderer.Drain` runs itself; a listener that fails returns without a drain;
  a sweep started by hand is waited for by nobody (`admin_api.go:304`), which is why
  `ExitLeavesNothing` does not speak of it.
* After its stop the replayer may begin another whole cycle (`replay.go:83`), which
  never looks at the stop and may take `replayCycleTimeout`; `replay.Stop` waits for
  it. Such a cycle of the sweep ends before its first kind (`refresh.go:77`).
* `StaleKeys` lists the first 500 of a kind (`store_browse.go:14`): keys that keep
  failing may fill it and starve the rest. No instance is that large.
* Replay's cap counts accepted requests only, so refused ones are sent without one;
  "once per delivery" (`replay.go`) does not outlive a restart, a lost answer or the
  edge of the lookback.
* Debouncing: a body that breaks off leaves the leader's entry and its followers
  waiting; the leader's client leaving gives everybody its 502; the key is the
  method and the URL, whatever `Accept` or the conditional headers say
  (`debounce.go:91`); the window starts after the replay to the leader's own client,
  so a slow one stretches it (`NotACache` fails with `Stalls`).
* `Timeline.Frames` evicts by moving the head inside its loop (`timeline.go:90`), and
  skips live frames behind the evicted one; `ChartIsComplete` stops promising there.

Of specifications that `Validate` lets pass:

* A path parameter that is escaped in the key is escaped once more by the sweep:
  `a%2Fb` is asked for as `a%252Fb`, and its 404 may be absorbed
  (`plan.go:18`, `plan.go:78`).
* A query parameter that is no key shares the row of all its values
  (`validate.go:326`); one that is a key and no column has `List` read other pages'
  rows; `key="true"` with an empty default is refused by `requireKeys` once a caller
  leaves it out.
* A list route on a resource stored as documents answers `[[...]]`.
* Two routes of one resource and kind share their bookkeeping, and the sweep asks
  through the first; two purges on one path both use the first one's parameters; a
  rewritten path's escaped segments are escaped again (`engine.go:171`); an absent
  key component and an empty one have the same key string.

### Bounds, and why they are enough

* `OverlapRows`: two callers make every race on a key's mutex, and two keys of one row
  every race on a row that the mutexes do not prevent, with a single route that keeps
  an absent item's row and a complete list that deletes it. `PerSecond` is 4, above
  `MaxVersion`, so that no delivery is refused for its clock and any old one may come
  in; clocks that tell deliveries apart are in `AuditRepair` (`PerSecond` 1) and Ingest.
* `Ttl`, `ErrorRetry`, `GrantTtl`, `DenyTtl` of 1 or 2 ticks: what counts is
  whether a deadline has passed between two steps, and `Tick` may come anywhere.
  The reveal lifetimes are 2 so that a lookup can fall inside one, which is where
  a sliding expiry would show.
* `MirrorFetch` and `AuditRepair` have one reader and the sweep, which are two callers of one
  mutex. `MaxVersion` is 3: an old, a middle and a new version, one of them absent,
  so that a 404 lies between two documents or before them. Failing statements are in
  both; in `AuditRepair` nothing deletes the row, which `RowBehindFresh` needs. Neither
  has a second key, as what keys do to each other's rows is `OverlapRows`'s.
* Ingest: three deliveries, two of one subject and one of another, on one row of
  two columns, two of them in one second where the clock says so. `Appliers`
  bounds how many batches run at a time: two is the least at which they
  interleave, one is the case where the newest view wins. Whether there is a
  window (`windowed`) is chosen at every start of the process. `MaxHorizon` 2 or
  3: the retention passes over none, some or all of the clocks.
* Reveal: two requests are what it takes to race. `MaxChanges` 1 lets the
  upstream revoke or admit after an answer has been written down.
* Notify: two slots make two `Fan`s hold one listing of a subscriber each, and
  `DisableAfter` 2 parks it on the second failure; one subscriber is enough, as
  subscribers meet only in `Matching`. `Retries` 1 is the first value with a post that is not the last.
* Process: two schemas to change between, a third that is refused; two tables are a
  first and a last one; two kinds and one stale key make the sweep look at its stop
  between kinds and not between keys; two subjects, so that one batch is held while
  another runs.
* Replay: `Cap` 1 leaves one of three failures for the next cycle; with `Lookback` 1
  entries and the memory of them run out within the run.
* Edge: three callers are a leader, a follower and one that comes after the window;
  rings of two go round many times; ages stop counting one past what is asked of them.
* Serving: each world is a specification with one upstream and a few requests (the
  drafts and the mint of one specification are two worlds); it has the pair that could be
  confused: two owners and two cases of one, an open and a closed item, two callers, two bodies, a parameter given and left
  to its default, two prefixes, an escaped segment. Query parameters that are keys are
  columns, there is one route of a kind and a purge is at its resource's own path; the
  divergences above are what happens otherwise.

### Fairness

* A goroutine that can run does (weak fairness of its own steps), and a call
  outside ends: the HTTP clients' timeouts and `fetchSafetyTimeout` bound it.
* A mutex that is contended is granted in the end (strong fairness of `Enter` and
  `CloseExpired`): Go's `sync.Mutex` hands itself to a waiter that has starved
  for a millisecond.
* A timer fires (weak fairness of `Expire`), the clock goes on.
* `FairMirror`, under which `CatchesUp` and `Responds` are checked: crashes and 304s
  come to an end, the sweep keeps asking, and neither the upstream nor the store fails
  the sweep every single time; without that nothing repairs anything. No reader,
  delivery or purge is fair.
* `FairProcess`: a shutdown's step that can be taken is; a cycle's calls and the batches
  the drain runs itself end, by their own timeouts; a select that has both the stop and
  the tick takes the stop in the end (strong fairness of that branch), as Go picks at
  random. Nothing is assumed of handlers, posts, sweeps started by hand and batches run
  by their timers. `FairEdge`: a call under way ends, as its leader's client
  cancels it at the latest, and a follower whose answer is there takes it.
* `Reveal`: crashes, and statements that turn a request away, come to an end; the
  principal keeps asking; not every probe ends in a failure.
* `Notify`: the process comes to stay and `Matching` to succeed; deliveries keep
  coming; the count of a failure is not lost every time. Nothing is assumed of
  subscribers or of those who register them.

## 4. Proofs

All theorems are checked by TLAPS, for every value of the constants the module's
own assumptions allow. Where a theorem asks for more, its hypotheses are named here.

`MirrorProofs`, of the freshness manager
* `TypeCorrect`: `Spec => []TypeOK`.
* `OneFetch`: `Spec => []OneFetchPerKey`. The property is not inductive; `Owned`
  adds that whoever is past the mutex owns it (`LockInv`). No assumption on the
  store: failing statements and restarts are included.
* `AnswersAreKept`: `Spec => []AnswerKept` when bookkeeping writes succeed
  (`~StoreMayFail`). Without that it is false: a failing read under the mutex is
  taken for a stale row. `Uncovered` strengthens it (`AnswerInv`): a caller past
  the second read has no unexpired answer to protect, and none turns up.
* `PromiseKept`: `Spec => KeepsPromise` under the same assumption: every step of
  `Freshness` is a step of `SingleFlight` or a stutter under the mapping
  `good <- left`, `asking <- Asking`.

of the mirror
* `MirrorIsFresh`: `MirrorSpec => Spec`, so all of the above holds of the mirror.
* `MirrorTypeCorrect`.
* `RowsBehindFresh`: `MirrorSpec => []RowBehindFresh` where nothing deletes the
  row and no 304 vouches for it (`NothingDeletes`), by `RowInv`; a purge, an
  invalidating delivery, a complete list or a 304 breaks it.

of rows that keys share
* `OverlapIsFresh`, `OverlapTypes`: `OverlapSpec => Spec`, so that `OneFetchPerKey`,
  `AnswerKept` and `KeepsPromise` hold here, and the types.
* `RowsGoForward`: `OverlapSpec => NeverGoesBack`, with no assumption: any number of
  keys of a row, any shapes, failing statements, deliveries, purges, 304s. `LateInv`
  says that who holds an answer and is not late holds nothing older than the row: a
  fetch of the same key is kept out by the mutex, everything else makes it late.
  `ToldInv` has what that rests on when an answer is heard: nothing is newer than the
  upstream.
* `OwnFetchIsVisible`: `OverlapSpec => OwnFetchVisible`, with no assumption. What a
  reader owes to its own fetch passes through other hands before it reads the row: a
  later fetch may overwrite it. `InOrder` says that a fetch of a key begun after another
  has ended was told nothing older, and `OwedInv` that from the answer to the read back
  the row is deleted, no older than the answer or overtaken (`Shows`), and that whatever
  is on its way to the row without being late is no older either (`Comes`).

of the consistency check
* `AuditIsFresh`: `AuditSpec => Spec`. A step is Mirror's, or leaves the mirror alone,
  or is a repair, which touches no variable of Freshness.
* `AuditTypeCorrect`.
* `DriftAlwaysReal`: `AuditSpec => []DriftIsReal`, with no assumption. `CompareInv`
  says why: while a key is compared its row is the one that was read, or somebody
  wrote it unseen, or the second look is still to come and will find `changed_at`
  moved. `DriftIsReal` alone is not inductive, as it says nothing before the verdict.
* `AuditedRowsBehindFresh`: a repair does not break `RowBehindFresh`, by `RowInv` and
  the fact that what was heard is a version.

`IngestProofs`
* `IngestTypeCorrect`.
* `MarksCoverRow`: `Spec => []MarkCoversRow`, when no event is unordered and the
  watermark can be written. Its invariant `MarkInv` follows a view from the
  watermark to the applier that admitted it to the row.
* `RefusalsAreFair`: `Spec => []RefusedOnlyForNewer`, with no assumption, by
  `RefusedInv`.
* `NewestStays`: `Spec => NewestWins` under what the property's comment names: one
  batch is applied at a time, watermarks can be written and no event is told to
  absorb the superseded (`Strict`), and no view comes after a newer one that is
  beyond the retention (`InRetention`). Reads, merges and invalidations may fail and
  the process may crash between the watermark and the row. `NewestInv` has what an
  applier relies on: the watermark it has written is still there when it writes the
  row, and the copy it merges into is the row.

`RevealProofs`
* `RevealTypeCorrect`.
* `AnswersAgree`: `Spec => []OneAnswer`, for any number of requests. It is
  inductive with the types: what has to be seen is that no other request takes
  one away from its revocation (`OthersRevoke`).

`NotifyProofs`
* `NotifyTypeCorrect`.
* `DrainIsHonest`: `Spec => []DrainWaits`: what was promised stays in flight until
  it has ended (`Waited`), so a count of zero means that nothing is left.
* `ParkingHolds`: `Spec => []ParkedIsQuiet`, for any number of subscribers and of
  `Fan`s at once. The invariant is a budget: of a parked subscriber, the failures
  counted and the slots that may still count one never exceed the limit, because
  a slot gives up its place when it counts and no `Fan` lists the subscriber
  again (`Budget`, with `InPlace` for where a row can be).

`ProcessProofs`
* `ProcessOpens`: every behaviour of the whole process is one of `Opening` on the file.
* `FileIsOwn`, `WedgedByCut`, `CacheIsKept`: `ServesItsOwn`, `OnlyACutStopsIt` and
  `KeepsItsCache`, by `OpenInv`: the fingerprint is written last, so a file that has
  it has all the tables of its schema and rows of no other.
* `ExitIsClean`: `ProcessSpec => []ExitLeavesNothing`. `Quiet` says what each stage of
  the shutdown has waited for already and that nothing later starts it again.

`ReplayProofs`
* `ReplayTypeCorrect`.
* `AskedOnce`: `OncePerLookback` by `Memory`: what was accepted within the lookback is
  remembered with its age.
* `NothingMissed`: `CapIsTheOnlyExcuse` by `Ledger`, which accounts for every entry the
  cycle has gone through.

`EdgeProofs`
* `EdgeTypeCorrect`.
* `RecentAlways` and `ChartAlways`: `Spec => []RecentIsRecent` and
  `Spec => []ChartIsComplete`, for rings of any size that have gone round any number of
  times. `RingsInv` says that a ring shows its history: the i-th entry stands i steps
  on from the head, once round at most (`Turn`). A chart that has met a frame out of the
  window owes nothing any more. `Frames` picks its frames by their rank, so what it
  returns is shown by induction on the rank (`NthOfRun`).
* `SpacedAlways`: `Spec => Spaced`, for any number of readers and with clients that
  stall, answers that break off and leaders that leave. By `FlightInv`: an entry is its
  leader's from the call until its own timer, so nobody else's timer removes it.
* `NeverACache`: `Spec => NotACache` where no client stalls (`~Stalls`): then the window
  begins with the answer (`OnTime`). With one that stalls it is false (section 3).

`ServingProofs`
* `KeysComeBack`: `ParseKeyString` undoes `KeyString`, for any declaration and values;
  `plan.go` says that the two must stay each other's inverse.
* `SweepAsksAlways`: `Spec => []SweepAsksAsReadsDo`, for any specifications that `Valid`
  lets pass and any upstream. A mark is under the key of its last reader's plan
  (`MarksInv`), and a plan made of that key fills in what the reader's path and query
  had (`PlanComesBack`). That a swept route has no body in its key follows from
  `Valid`. `Sweepable` is the rest, of the reads of swept keys: the first route of
  their kind takes them, its parameters share no column, no segment of their path is
  escaped. `Validate` sees to none of the three (section 3 has what happens otherwise;
  in the sample specification it is `status_post` that is read by two routes), and the
  worlds of `DescribedAnswers` have them all.
* `KeysTellRequestsApart`: two requests of one route that share a key string ask at the
  same path for the same keyed parameters, up to case, and with the same credential and
  body where these are key columns. For a route whose parameters have columns of their
  own (`OwnColumns`).
* `PurgesAreExact`: `Spec => PurgeDropsWhatItNames`, whatever is stored, where every
  purge is described (`PurgesNameRows`): the resource of each read of what is written
  has a purge, its path goes along the read's (`Along`), and the write escapes and
  spells what it names as the read does, but for the case of a folded key
  (`SpeltAlike`). Then the columns that a write fills in are those of the read's key and
  with the same values, so the two select the same rows, or with other values and none
  of the same.
* `StoreKeepsItsWord` and `AnswersAlways`: `Spec => []StoreInv` and
  `Spec => []AnswersTheQuestion`, for any number of routes, requests and items, under
  `Describes`, whose six conditions are that defaults are the upstream's
  (`DefaultsAgree`), that whoever refills a key asks for what its other readers ask for
  (`KeysTellApart`), that what is stored of a document gives it back (`RowsReadBack`),
  that a plan reads only rows of what it asked for (`RowsAreMeant`), that a row gives
  way to a row of the same item only (`RowsGiveWay`), and that a purge drops rows of
  what is written or under it (`PurgesReach`). None of them is about a state: that rows
  stored by one key's fetch, taken over by another's, dropped by a write and dropped by
  a complete list still answer every reader is what is proved. `AnswersTheQuestion`
  alone is not inductive, as a hit answers from what earlier steps stored. `StoreInv`
  has the promise of a fresh mark to all readers of its key, the last one and the
  others; a fetch keeps the promises of the keys it does not make fresh (`StaysCovered`),
  and makes good its own (`FetchServes`). An item that a write dropped while the
  upstream kept it is owed to nobody until a fetch stores it, and then its row is found
  by all its readers (`Reached`), so one fetch settles what other fresh keys promise.

Only model-checked:

* The liveness properties (`Responds`, `CatchesUp`, `Answered`, `RevocationHolds`,
  `NotLockedOut`, `DeadIsParked`, `HealthyIsTold`, `ShutdownEnds`,
  `FollowersAnswered`): reasoning under fairness is out of the prover's reach.
* That a served specification is a described one. For the worlds of `DescribedAnswers`
  TLC evaluates it; of another specification it is for its writer to see to, and
  where one is not, section 3 says what happens.
* `RowsReadBack` among them: a column keeps only what its type keeps (a `bool` makes
  any text true or false, a `time` an empty text null), so whether a document comes back
  as it was depends on the document, and is a condition here.

## 5. Plan

The core (`SingleFlight`, `Freshness`, `Mirror`, `Ingest`, `Reveal`, `Notify`) came
first, then what surrounds it: `Process` on `Opening`, `Replay`, `Edge` on `Debounce`
and `Telemetry`, `Serving` on `Routes`, `Documents` and `Validation`, and `Audit` on
`Mirror`. What is left, by what it would add:

1. The order and the limit of `StaleKeys`, with keys that keep failing.
2. `RateMeter` and the grouped statistics; the expressions of `dsl.go`; the checks of
   events and operations in `validate.go`.
3. Items that change in `Serving`, with a row told from its successor, so that a key
   with two rows would show.

Where two modules ask little of TLC they share a run. Each violation that an earlier
run showed is listed in section 3 at the line where it bites.

## 6. Not modelled

* Signature checks, JSON decoding and encoding, the wording of answers and the status
  codes other than those a property tells apart.
* The upstream client: its retries and its credential headers keep no state; its
  answers are inputs of `Mirror`, `Audit` and `Serving`.
* Parsing the XML specification, the operation and event parts of its validation, the
  shapes and expressions a delivery is read with: pure functions that run once or on
  one document, which tests reach well.
* The embedded dashboard, its read-only views, CORS and the health answers; generated
  query code, for which the SQL it comes from is modelled.
* The time a statement takes, the contention of SQLite's writers and its busy timeout:
  a statement is one step that may fail.
* The unsupported keys of a check (lists, credential keys): nothing happens to them.
* What follows from one machine's clock going back: ages only grow here.
