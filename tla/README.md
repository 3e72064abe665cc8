# Formal verification of the ads tracker

TLA+ modules of the tracker's worker, of the library it keeps and of what the web app does to them,
the TLC configurations that check them on small instances, and theorems about them proved with
TLAPS. Paths below are relative to the repository; `scheduler.py`, `collector.py`, `persist.py`,
`normalize.py`, `linking.py` and `resolver.py` are in `tracker/worker/`, `settings.py`, `admin.py`
and `users.py` in `tracker/db/`, the forms in `tracker/web/routes/`. `PROJECT.json` maps every
definition to the lines it models.

## 1. The system

One Postgres database, one web app (FastAPI, several threads), one worker process (a second one
only during a deploy, or by mistake), an S3 store for media, and two outside services: Meta's Ad
Library, read directly ("Self-hosted") or through an Actor on Apify. The processes talk through
the database only: the web app sets a flag, the worker polls it; the worker writes its progress
into the row of the collection run, the web app shows it. A run is: collect, mirror media, link
creatives to landing pages, fetch landing pages; the same tables are edited by the administrator
meanwhile.

| Component | State | Operations | Hard about it | Correct when | Module |
| --- | --- | --- | --- | --- | --- |
| Worker scheduler (`scheduler.py`) | the advisory lock and its connection; the `collection_runs` rows; `collect_now` | take the lock, resume or clear what was left, `_run_once`, orphan check, consume the request, stop handler | two workers; a crash at any statement; SIGTERM between two statements; a lock lost unseen; failing statements | one worker works at a time, no run is closed under its worker, every open run is closed in the end, requests are picked up and not lost | `Scheduler` |
| Batches (`collector.make_batches`) | none | group by country, chunk | off by one | every Page once, one country per Batch, no needless Actor run | `Batches` |
| Collection through Apify (`collector.py`, `apify.py`) | Actor runs on Apify, `apify_actor_runs`, the run's row, `RunProgress`, `ad_appearances` | start, record, follow, retry, store under a lock, fail, conclude; resume by the next worker | asyncio tasks, slots, an aborted transaction shared by all of them, answers lost, a worker that dies in between | nothing paid for twice, one retry, ads counted once, no running ad marked as gone, the run closed in the end | `ApifyCollection` |
| Collect now and run status (`settings.py`, `admin.py`) | `collect_now`, `collect_now_requested_at`, the rows, the clock | request, consume, show | the same question asked by two SQL statements and a Python function | they agree at every moment | `CollectNow` |
| Self-hosted collection (`collector.py`) | the Pages it listed, the one it reads | a loop over Pages, proxies in turn | a Page that fails half-way, or is edited while it waits on the list | only Pages read in full lose ads | `AdStore` |
| Ad store (`persist.py`, `normalize.py`) | `ads` | upsert, mark as disappeared, take Meta's name | updates that keep part of the old row; ads that come back; records that say little | no ad is taken for gone that was shown; no end on an ad that runs | `AdStore` |
| Pages and companies (`admin.py`) | `pages`, `companies` | add or move, edit, toggle, delete | forms of several statements, against a collection under way | a Page with ads keeps its ID, given names stay | `AdStore` |
| Creatives and media mirroring (`persist.py`, `storage.py`, `media.py`) | `creatives`, media keys, objects in S3 | upsert by card key, list what is pending, download and store in threads, serve | reordered cards under a UNIQUE constraint; threads; a refused store; a picture replaced while its copy is made | every card shows its own file, copies are kept and never overwritten | `Creatives` |
| Linking (`linking.py`) | `landing_pages`, `creatives.landing_page_id` | canonicalize, link | a link kept over reads, of a card whose URL changes | a card points to the landing page of its destination | `LandingPages` |
| Landing page resolver (`resolver.py`) | `page_snapshots`, `landing_pages` | crawl some, compare, add a version or refresh the last | failed fetches, a limit per run, crashes | a version per change, none hidden, everyone's turn comes | `LandingPages` |
| First-run wizard (`setup.py`, `users.py`) | `users`, `app_settings` | create the administrator, choose the source, finish | two browsers at once | one administrator, a source that can work | `Accounts` |
| Login and throttle (`auth.py`, `throttle.py`) | failures per address and account | check, record, reset | threads between check and record; restarts; rounding | no guesses beyond the limit, a wait that is right | `Accounts` |
| Saved collections (`collections.py`) | `collection_items` | toggle | two clicks | no duplicate | not modelled |
| Settings screen (`admin.js`) | what it shows | poll, press | answers out of order | never an old state over a new one | not modelled |

Read-only queries, templates, translation, storage and deployment scripts keep no state of their
own; they are listed in `PROJECT.json` with the reason they are left out.

## 2. The modules

| Module | Models | Kind |
| --- | --- | --- |
| `RunLedger` | what runs look like to everyone but the worker | abstract specification |
| `Scheduler`, `MCScheduler` | `scheduler.py` and its statements; symmetry of the workers | detailed, implements `RunLedger` |
| `Lists` | filtering a list, as the code's comprehensions do; for `Batches` and `Accounts` | pure operators |
| `Batches`, `MCBatches` | `make_batches`; every list of Pages | pure operators, and their inputs |
| `ApifyCollection`, `MCApifyCollection` | one run through Apify over the lives of its workers; instances | detailed, uses `Batches` |
| `CollectNow` | the request, the worker's answer to it and the screen, with a clock | detailed |
| `AdHistory` | what the library promises of an ad's status | abstract specification |
| `AdStore`, `MCAdStore` | the ads, Pages and companies, written by the worker and the administrator; instances | detailed, implements `AdHistory` |
| `Creatives`, `MCCreatives` | cards and the copies of their files; instances | detailed |
| `LandingPages`, `MCLandingPages` | destinations, their titles and versions; instances | detailed |
| `Accounts`, `MCAccounts` | the wizard, sign-in and its limits, the source; symmetry | detailed |
| `SchedulerProofs`, `AdStoreProofs`, `AccountsProofs`, `CollectNowProofs`, `LandingPagesProofs`, `CreativesProofs`, `ApifyCollectionProofs` | theorems about those modules; the last one also about `Batches` and `MCBatches` | proofs |
| `ListsProofs` | what `Lists` returns, rounded division, and induction over natural numbers as a fact about sets that the provers can apply | proofs |

Operators named `Mut...` stand just before the definition they alter. No specification uses them:
each is a plausible bug in that definition (a dropped guard, a missing reset, a wrong order), and
`PROJECT.json` says which property must catch it.

### Scheduler

A worker is a place (`pc`), the connection its lock was taken on (`conn`), the run it works on and
the memory of `main` (`caller`, `taken`). `conn` is "live" while the server has the session open,
"dead" when the server dropped it and the worker has not noticed, so `TryTake` succeeds exactly
when no session is live. A row has its state, the source it was opened with, whether Actor runs
were recorded for it, whether its heartbeat is older than `STALE_MINUTES`, and whether it was
closed as interrupted. Counters, cost and the step's wording are left out.

`_run_once` is `OpenRun`/`OpenNoRun`/`ResumeRun`/`CannotResume`, then `Beat` and `StartActorRun`
while collecting, `PostStep` for media, linking and titles, and `Finish`; `PostStepsBlowUp` and
`FinishAfterFailure` are the two `except` paths. The loop is `CheckLock`, `CloseOrphans`,
`ConsumeCollectNow`, `Decide`. `Stop` is SIGTERM: Python runs the handler in the only thread, so
the worker takes no other step, and its two commits are two actions. `Crash` leaves the connection
closed, or live until the keepalives expire when a whole machine is gone. `_should_run` may find
the interval elapsed at any time. The screen's request is a guard here; `CollectNow` has all of
it.

### ApifyCollection

`tasks` are the worker's asyncio tasks in plan order, one per Batch; an action is what a task does
between two awaits or two commits. A slot of the semaphore is held in the places of `Reading`, the
store lock by `holder`. `actors` is Apify: an Actor run there goes on whatever happens here, ends
in one of `Outcomes` and holds what it read. `recorded` is `apify_actor_runs`; a Batch is known by
its set of Page ids. `conn` is the connection the whole run shares: a failed statement leaves it
"aborted", where every later statement fails until the rollback of `FailPages`, or "dead". A
failed check, beat or start is an exception in `_run_actor` (the attempt failed); one outside it
(`SeeEnd`, `TakeStoreLock`, `FinishPages`) ends `gather`, and `CollectorFails` abandons the other
tasks where they stand. `Crash` and `Stop` forget the memory; `Resume` plans from `recorded`. The
statements of the scheduler that open, close and clear runs are reduced to `Resume`,
`CloseInterrupted` and `FinishRun`. Left out: the cost, the log, a missing token (the run ends
before its first Batch), and what an ad contains: it is reduced to whether this run stored it.

### CollectNow

Timestamps count ticks, several to a second, because the two sides measure a request's minute
differently: the statement compares timestamps, the screen an age that `::int` has rounded to whole
seconds (`WholeSecs`). `Shown` reads the last `RunsShown` runs, the query's LIMIT. The worker is
reduced to what the two statements can see: it takes a request or finds the interval elapsed since
its last run (`lastRun`), opens a run or fails to (`OpenNoRun`), beats, finishes the run or leaves
it, closes stale runs, dies and comes back. `get_run_status` reads the settings and the runs in two
statements, taken here as one: between them the screen may mix two moments that a poll later it
shows right. A restarted worker whose closing statement fails does not get past it, and is left to
`Scheduler`.

### AdStore

A step is one transaction. `StartRun` is `list_tracked_pages`: from then on the worker knows Pages
only by what it listed (`worker.list`, `worker.page`), while `pages` goes on changing; that is the
staleness the module is about. `StoreAd` is `upsert_ad`: `MayRefer` are the foreign keys it needs,
and `Locked` the row lock that `update_page` holds from `EditPage` (its SELECT ... FOR UPDATE and
check) to `SaveEdit` (its UPDATE and commit). `MarkDisappeared`, by the Page's primary key, ends
the reading; `ReadFails` and `Crash` break it off. A record is what it says of an ad's run: the
flag, the status, whether dates are there (`FromMetaRecord`); `FromLibraryAd` allows the fallback
to the collector's own reading. An ad's row keeps whether it has a start and an end, not which.
The two forms of several transactions have a state (`form`): a company with its first Page, and the
edit of a Page. The setup wizard's company form is the same as the first of them. Primary keys are
never used again, Facebook's IDs are.

`AdHistory` says what a user relies on: an ad's status changes only while its Facebook Page is read
and only if it is shown, except that a reading that got to the end ends the dated, active ads it was
not shown. `AdStore` implements it under the map of rows to statuses and of `worker.page.fb` to the
Page being read, whatever the administrator does meanwhile, as long as the ID of a Page is not
edited while it is on a run's list (`EditsListed = FALSE`; the finding in section 6 is what happens
otherwise).

### Creatives

A card is its image, video and preview, each a file that its media id tells apart, and its link.
`WithCardKeys` numbers equal keys, `UpsertCreatives` matches rows by them; `Collides` is the
UNIQUE (ad, position) constraint, checked after each statement, which the parked positions are for:
a collision undoes the whole ad, so `rows` stay behind `shown`, the cards last read. The pool is a
map of jobs to states: a thread's `Download` and `Upload`, then the main thread's `WriteKey`. A
failing statement or heartbeat (`WriteFails`) leaves the loop while the threads finish what they
have; `Crash` drops all. `Shows` is what a screen gets of a file through `resolve_media_url` and
`/media`.

An ad without cards has one of its first image and video, or, with neither, of its text alone
(`Single`).

Known limit: a video card whose preview stays the same while its video changes keeps the old copy
(`card_key` prefers the image, then the preview), an ad without cards that has both an image and a
video is keyed by the image only (`normalize.py:113-134`), and an image without a media id is not
modelled: nothing tells such cards apart, and such a Page picture is stored as "picture"
(`persist.py:654`), one name for all of them. The extension a name gets at its upload
(`persist.py:587`) is left out too: it follows the file's type, so it only tells names further
apart. `Creatives!KeysTellFiles` says that no two cards differ in that way.

### LandingPages

A link is a host, a path, parameters, a fragment and a last slash; `CanonicalizeUrl` drops what the
code drops. `LinkKey` is the part of a link that is in a card's key, without the parameters, so a
link that is kept can be older than the card's. `order` is `last_resolved_at` as an order, `due`
those older than `STALE_HOURS`. `read` remembers what was last read well of each page. An answer is
fetched, or not; it has a text and titles; and it may have a title or description in `Unstorable`,
which Postgres refuses (a NUL). Only the fetch is guarded: when the INSERT or UPDATE of a snapshot
raises (`Refused`), the page is not marked and the crawl ends there (`CrawlRaises`), which costs no
fault of the bound, since the site may answer so for ever.

Known limit: a card whose kept parameters change keeps its landing page (`persist.py:409`), so
`LinkedToItsDestination` speaks of host and path only.

### Accounts

Requests run in threads and interleave between their statements: the check of the throttle, the
verification, the failure counted for the address and then for the account; the check of the wizard
and the insert; the check of a token and the save. Clocks are kept as the ages of failures, in
ticks finer than a second, so that the rounding of `retry_after` is visible. `guesses` are all wrong
passwords of the window, also those `record_failure` trims. A cookie is whether its browser is
signed in, and by what.

## 3. The runs

| Run | Instance | Checks |
| --- | --- | --- |
| `scheduler_safety` | 2 workers (symmetric), 3 runs, 3 faults | `TypeOK`, `OneWorkerAtATime`, `RunUnderWayIsOpen`, `ClosedForGood`, `StopSparesApifyRuns`, `AtMostOneOpenRun`, `RequestGetsARun`, and `LedgerSpec`: the refinement of `RunLedger` |
| `scheduler_liveness` | 2 workers, 1 run, 2 faults, lock loss | `EveryRunGetsClosed`, `RequestGetsTaken` |
| `batches` | up to 6 Pages, 3 countries, Batches of 2 | `EveryPageOnce`, `BatchesFitAnActorRun` |
| `apify_restarts` | 3 Pages in 2 Batches, 2 slots, every outcome, 2 crashes, stops or failed reads | `NothingPaidTwice`, `RetriedOnce`, `DealtWithForGood`, `CleanRunIsComplete`, `NoAdWronglyGone`, `NeverOvercounted` |
| `apify_every_fault` | 2 Batches of 1 Page, 1 slot, any 2 of the 9 kinds of fault | `TypeOK`, `ParallelLimit`, `EveryAdCounted`, `RunGetsClosed` |
| `collect_now` | half seconds, a clock of 4.5 s, a minute of 2 s, stale after 2 s, an interval of 3 s, 3 runs, 2 of them read | `RefusedAsShown` |
| `ad_store` | 2 companies, 2 Facebook Pages with an ad each, 3 rows, 2 runs, 4 edits, 1 fault | `NoEndWhileActive`, `NamesAreKept`, `IdOfAPageWithAdsStays`, and `HistorySpec`: the refinement of `AdHistory` |
| `creatives` | 1 ad shown in 7 ways, 1 Page with 2 pictures, 2 threads, files too large or off Meta, 2 faults | `KeysNameObjects`, `CardsAsRead`, `ShowsItsOwnMedia`, `MirroredMediaStays`, `ObjectsAreImmutable` |
| `landing_pages` | 1 ad, 5 links to 3 destinations, 6 answers, one of them refused, 1 page crawled per run, 3 versions, 1 fault | `LinkedToItsDestination`, `VersionsDiffer`, `CatalogIsCurrent`, `EveryPageGetsItsTurn` |
| `accounts` | 2 browsers, 2 threads (both symmetric), 5 forms, limits of 2 and 3, a window of 2 s | `OneAdministrator`, `ApifyHasAToken`, `GuessesAreLimited`, `RetryAfterIsRight` |
| `scheduler_lost_request`, `ad_store_edited_id` | as small as shows it | one documented promise each, violated (section 6) |

**Bounds.** Two workers are the case the lock is for; a third adds only another waiter. Three runs
let one be left open, one be opened beside it and one follow. Three faults let a crash meet a stop
and a failing statement; the liveness run has one row and two faults, since progress of a row does
not depend on the others. Two Batches on two slots are the least that overlap in every phase, and
two on one slot the least that wait; two faults are a fault and one met while recovering from it.
A Batch of two Pages is the least that can be read in part. In `collect_now` the clock outlasts the sum of the minute and the stale time, so a run may go stale
before, with and after the end of a request's minute; two ticks a second are the least that rounding
can get wrong, and of three runs the screen leaves the oldest out. At its bound on rows `Scheduler` lets a worker go on without a row, which stands for any later run.
`MCBatches` alone stops (its instance has all the Pages it may have), so its deadlock check is off.

In `ad_store` two runs let an ad be stored, gone and back, and three rows let a Page be deleted and
added again while its old row is on the list; four edits are a company, two Pages and one change of
either, or a company, a Page, its deletion and its return. The seven reads of `creatives` have cards
that swap, repeat, change their link and give way, so that every row may sit where another is put;
two faults are one that breaks a copy off and one met while it is made again. With one page crawled
per run, `landing_pages` has two destinations wait for a third that always fails; three versions let a
text change and change back. Limits of 2 and 3 keep the two throttles apart, and two ticks a second
are the least that a rounding can get wrong.

**Guards on history.** `faults` records what has failed so far, and a property that a kind of fault
rightly breaks says so: `InSight` (nothing failed but reads, and the worker died only where it
knew its Actor runs) guards `NothingPaidTwice` and `ParallelLimit`; `AtMostOneOpenRun` and
`RequestGetsARun` hold until a statement fails; `NoAdWronglyGone` until a run summary cannot be had,
a statement fails or a Page is deleted (an exception closes the client under the Batch that asks for
the summary, and a missing one is taken at its word); `DealtWithForGood` until a Page is deleted.
Every other fault may have happened.

**Fairness.** `Scheduler!Fairness` and `ApifyCollection!FairSpec` assume: a running worker takes its
next step (the loop waits 15 s at most); a worker that is down is started again
(`restart: unless-stopped` in `docker-compose.yml`); the server notices an unanswered keepalive
(set in `WorkerLock.try_take`); time passes, so a run nobody works on becomes stale; an Actor run
ends, if only because `_run_actor` aborts it after `APIFY_MAX_RUN_SECONDS` or by Apify's own limit.
`LandingPages!Spec` assumes that the worker goes on with its runs (its loop, restarted when it
dies); faults are bounded, so a worker that is killed in every run before its first page is left
out. Sites may fail for ever. `EveryPageGetsItsTurn` assumes, in its statement, that from some time on
no answer is refused; what happens otherwise is in section 6. An instance has
finitely many destinations, so new ones that come in with every run faster than they are crawled,
and are crawled before those due, are outside of it. Nothing is assumed of the admin, of heartbeats
or of which worker gets the lock.

## 4. The proofs

Everything below holds for any values of the constants that satisfy the module's assumption; an
extra hypothesis is stated in the theorem.

`SchedulerProofs` (any finite set of workers, any bounds on runs and faults):

- `TypeCorrect`: `TypeOK` is inductive by itself.
- `LockSafe`: `LockInv`, that one session is live and a worker past the lock still has the
  connection it took it on; from it and `~LockLoss`, `MutualExclusion`.
- `RunsSafe`: `RunUnderWayIsOpen` alone is not inductive, because `OpenRun` and `ResumeRun` need to
  know which ids are free and that a worker in its collection has a run. `RunInv` adds that; its
  step lemma (`RunStep`) uses `LockInv` through `Alone`: whoever closes runs is the only one past
  the lock, so the run it closes is nobody's. `NobodyClosesARunUnderWay` and `ClosedRunsAreFinal`
  follow, the latter from the same step lemma, which proves invariant and action property
  together.
- `StopSparesThem`: between the stop handler's commits no run gets its first Actor run, so what the
  first paused is all there is to spare (`PausedIsKept`, preserved by `PausedStep`).
- `LedgerImplemented`: every step of `Scheduler` is a step of `RunLedger` or a stutter, under the
  map of open rows to `open` and of the one collecting worker's run to `active`. `~LockLoss` is
  needed: with it gone TLC shows `OneCollector` violated, so the theorems would be false.

`AdStoreProofs` (any companies, Pages, ads, records; any number of runs, edits and faults):

- `TypeCorrect`: `TypeOK` needs `Tables`, proved inductive in `TablesStep`: IDs are unique and keys
  below the next one (`Rows`), an ad's Page exists (`Homed`), and while a Page's form is between its
  check and its update the row stays and an ID about to change has no ads (`EditHeld`). Every
  statement but the form's own is `Gentle` to IDs: it keeps them, adds a row, or deletes one that
  nobody holds.
- `IdsStayUnderAds`: from `EditHeld`, since no ad can be inserted on a locked row. This is the
  argument of the comment in `update_page`, for every interleaving.
- `GivenNamesStay`, `ActiveAdsHaveNoEnd`: inductive given `Tables`, one step per statement that
  writes a name or an ad.
- `AdsStayOnTheirOwnPage` (under `~EditsListed`): inductive with `ListHeld`, that the row of every
  listed Page, if it is still there, has the ID it was listed with. The run `ad_store_edited_id` shows
  that the assumption is needed.
- `HistoryImplemented` (under `~EditsListed`): every step is one of `AdHistory` or a stutter.
  `Unread` (listed Pages are distinct and none of their ads was seen by this run) makes a reading
  begin with nothing seen, and `AdsOfThePage` makes the ads on the row those of the Facebook Page, so
  that marking by primary key ends exactly the ads `AdHistory` ends.

`AccountsProofs` (any browsers, threads and accounts, any limits and window, any fineness of the
clock):

- `OneAdministratorEver`, `ApifyAlwaysHasAToken`: neither is inductive alone. `Inv` adds what the
  requests under way know: one that is saving Apify without a token was checked against a stored
  one, which no form clears; one that is finishing the wizard comes from a browser that was let past
  the first step, so there is a user.
- `GuessesStayLimited`: the throttle forgets, so its own list does not bound the guesses. `Throttled`
  relates the two: ages are in order (`OldestFirst`), the last guesses, up to the limit, are the last
  failures the throttle keeps (`Kept`), and the guesses, with the failures that threads have still
  to record (`Pending`), stay below the limit plus one per thread. A thread enters
  that count only after a check that let it pass, and `NoWait` says that whoever is let pass has
  guessed fewer times than the limit: it is the theorem's core that trimming and ageing never hide a
  guess from that check.
- `WaitsAreRight`: `WaitIs` gives the wait as the time until the oldest failure kept leaves the
  window, rounded up to seconds (`DivisionIs`). The ages are in order and no more are kept than the
  limit, so once that one is gone the limit is not reached, and a second earlier it is
  (`WaitsAreEnough`).

`CollectNowProofs` (any limits with the stale time below the interval, any fineness of the clock,
any number of runs, of which the screen reads two at least):

- `RefusedIffShown`: `Inv` adds to the types what the order of the rows is for: requests and runs
  are no later than the clock, and a later row never started earlier. Of two runs in flight the
  statement that refuses and the query of the screen then look at the same one. That the query's
  LIMIT hides no run in flight needs `FewInFlight`: before the last row but one nothing is in
  flight, since the worker takes its next run only for a request, which none in flight lets in, or
  after an interval that is longer than the stale time. `RoundedMinute` bounds the rounding: the
  screen's minute ends with the statement's or at most half a second before it, never after.

`LandingPagesProofs` (any ads, links, contents and limits):

- `LinksAreRight`: `CardInv` is inductive with the types alone; a step stores the cards of one ad,
  links all that wait, or leaves them (`CardsStep`).
- `VersionsAreNew`, `CatalogShowsTheLastRead`: `PageInv` relates the versions of a page to what was
  last read of it. `SnapshotsAfter` is shown once to keep neighbours different and the last one
  current; then one step per statement that reads a page.

`CreativesProofs` (any ads, cards, files and number of threads):

- `CopiesAreThere`, `RowsAreTheCards`: `Inv` says that the rows of an ad are its cards as read
  (`UpsertIs`, from the numbering of equal keys: `OccurrenceNumber`), that every job is for a row
  that is there, and that a key names an object. It is preserved by each step of the threads.
- `CopiesStay`: an action property, from `Inv` and `UpsertIs`.
- `OwnMedia`, `ObjectsStay`: with `FilesInv`, that the name of an object tells the file in it. That
  is only so if a card's key tells its files (`KeysTellFiles`), a hypothesis about what Meta sends,
  which the instances satisfy and section 2 names the exceptions to.

`ListsProofs` (any list) has what the other proofs need of `Lists`: a filtered list has the elements
that pass, in their order (`WhereIs`), its last one is the last that passes (`WhereLast`), and its
length is their number (`WhereLen`). It also derives from the theorems of the library, by a set
instead of an operator, that a set of naturals with 0 and successors is all of them, and that one
that is not empty has a least, and if bounded a greatest element.

`ApifyCollectionProofs` (any finite set of Pages, countries, batch size, ads, slots, outcomes, kinds
and numbers of faults). Each layer uses the ones before:

- `MakeBatchesIs`: the Batches of `make_batches` are not empty, disjoint, and together all the Pages.
- `BatchesTakeEveryPage`, `BatchesAlwaysFit` (theorems of `MCBatches`'s `PagesAdded`, for any number of
  Pages and countries and any batch size): a Batch is a country and a place among its chunks
  (`EveryBatchIs`), a Page has one such place, and a place of the plan is one of a group
  (`OnlyOneIs`, `FlattenCount`), so every Page is there once. A country has as many Batches as its
  group has chunks (`BatchesOfCountry`): the Pages divided by the batch size, rounded up.
- `WellTyped`: `TypeInv` adds that every row is of an Actor run that was started, and where a Batch
  has an Actor run (`Placed`). `ResumePlanIs` says what the plan of a resumed run is made of.
- `NothingCountedTwice`, `AllCounted`: `CountInv` relates the counter in memory, the one in the row
  and what is stored; an ad is between the two counts only while its Batch is "counting".
- `TaskMoves` turns every action of a Batch into a record of what it changes (`Moves`), which the
  layers below split over instead of the actions.
- `NothingWronglyGone`: `ReadInv` (what a Batch has read is stored or unread) and `GoneInv` (a Batch
  that is to mark was read in full).
- `DealtWithIsLeft`: `LinkInv`. Nothing ties a Batch to its rows but the set of its Pages, so the
  invariant says which rows have a Batch's Pages, which is the last of them, and that only that one
  may have an outcome; Batches and rows are equal or disjoint in Pages.
- `SentTwiceAtMost`: `RetryInv`. Attempts rise along the rows of a Batch, the one it works on is
  beyond all of them, and every Actor run is recorded or about to be.
- `PaidOnce`: `SightInv`. A Batch is with the newest Actor run of its Pages, or about to start one
  when all the others have failed.
- `WithinTheLimit`: `LimitInv`. Counting slots is not inductive: a worker that dies leaves its Actor
  runs running, and the next one has all its slots free. What stays within the limit are the Batches
  that claim a slot (`Claimed`): those whose newest Actor run runs or failed and will be tried again,
  and those that got a slot and have none yet. A Batch that is new takes a slot only when every one
  that follows an Actor run has one, because `ResumePlan` puts those first (`FollowersFirst`), and no
  Actor run that may still run is without its Batch (`Attended`).
- `CleanRunsAreComplete`: `CleanInv`. A Batch that was not stored is an error in memory before its
  Pages are counted, and in the row before it is concluded (`ErrorsInv`), so a row that says failed
  belongs to a run with errors and one that says stored tells the truth (`OutcomesInv`). The Pages
  counted are all but those of the Batches under way (`PagesInv`); the hard case is a resumed run,
  where the Pages dealt with, counted row by row, have to be exactly the ones not in the plan
  (`ResumedPages`). It rests on `ReadInv` and on `LinkInv`: if the Pages of two Batches could
  overlap without being the same, Pages would be counted twice or left out.

Every invariant and action property that a passing run checks, and both refinements, are theorems (some
under a hypothesis, named above).
Only model-checked are the liveness properties (`EveryRunGetsClosed`, `RequestGetsTaken`,
`RunGetsClosed`, `EveryPageGetsItsTurn`), since fairness and `ENABLED` are out of the prover's reach.
The properties of the two runs that expect a violation are false of the code.

## 5. Known limits the models show

Not listed as findings, but seen while modelling:

- A worker killed between an Actor run's start and its record ("midstart" in `Faults` of
  `ApifyRestarts.cfg`), or one that loses the answer to a start ("answer"), pays for that Actor run
  and for the next one of the same Batch.
- A Page deleted between two restarts ("delete") changes what its Batch is known by, and the other
  Page of the Batch may be sent a third time.
- A run summary that cannot be read ("summary") makes a partial read pass for a full one, so ads
  that still run are marked as stopped.
- A crash between the beat that counts a failed Batch and its conclusion counts its errors twice.
- A stop handler whose lock connection is already dead closes the run of the worker that took the
  lock over.
- The throttle is checked before the password and counts after it, so up to one attempt per thread
  gets through beyond the five or the account's limit; `GuessesAreLimited` states the exact bound.
- A Page that moves to another company takes its ads' place in the catalog with it only for ads
  stored from then on (next section).

## 6. Findings

Each of the first two is a run that expects a violation; `PROJECT.json` quotes the line it disagrees
with.

- `scheduler_lost_request`: a request is consumed before the interval is read; a failure in between
  drops it with no trace.
- `ad_store_edited_id`: `update_page` locks the row so that the ID cannot change under the worker's
  first ad, but the worker goes by the ID it listed at the start of its run. Edit the ID after that,
  and the run reads the old Facebook Page and stores its ads under the row of the new one; from then
  on the ID can no longer be corrected, because the Page has ads.

The models hold more disagreements with the documents, which no run repeats; each shows up when the
named property is added to a configuration as given:

- A lock connection dropped during a run is noticed only between runs, so two workers collect
  together ("Only one worker collects at a time", `scheduler.py:5`): `OneCollector`, in
  `SchedulerSafety.cfg` with `LockLoss = TRUE`.
- One failed status check is taken for a failed Actor run, whose retry runs beside it
  (`collector.py:288`; "Simultaneous Actor runs", `docs/configuration.md:109`): `ParallelAlways`, in
  `ApifyEveryFault.cfg`.
- An ad is committed before its count (`collector.py:106`), so after a crash in between it is never
  counted: `CountedOnce`, in `ApifyRestarts.cfg`.
- An Actor run whose record fails leaves the transaction aborted and the next beat gives it up,
  although "it goes on" (`collector.py:345`): `UnrecordedGoesOn`, in `ApifyEveryFault.cfg`.
- An answer that was fetched but cannot be stored (a NUL in its title) raises outside the guard of
  the fetch (`resolver.py:171-176`), before its page is marked, and ends the crawl (`resolver.py:196`).
  Unmarked, the page is among the first of the next crawl, so as long as the site answers so, pages
  behind it wait for ever ("Crawl the landing pages that are new or due a re-check",
  `resolver.py:215`): `OthersGetTheirTurn`, in `LandingPages.cfg`. `EveryPageGetsItsTurn` says that
  they are all crawled once such answers stop.
- A request's age is rounded to whole seconds before it is compared with the minute
  (`admin.py:264`), but not by the statement that refuses (`settings.py:63`), so for the last half
  second of the minute of a request that was taken and has no run yet the screen says idle while
  the next one is refused (`tests/test_db.py:368`, never "idle" while refused): `ScreenSaysWhy`, in
  `CollectNow.cfg`. `RefusedAsShown` says that it is the only such time.
- A request that waited is not pending any more once taken, so a second one is accepted before its
  run is open (`settings.py:53-54`): `JustTakenIsRefused`, in `CollectNow.cfg`.
- `upsert_ad` never updates an ad's company, so the ads of a Page that moved stay with the old
  company until it cannot be deleted ("belongs to a Page (and, through it, to a Company)",
  `CONTEXT.md:22-23`; `README.md:132-133`): `AdsFollowTheirPage`, in `AdStore.cfg`.

## 7. Not modelled

- Saved collections: one delete and one insert that ignores a duplicate; the table keeps the pair
  unique, and nothing else reads it.
- The canary, the library, detail, landing and export queries, and the screens: they read, and
  write nothing. The catalog's choice of a page's latest version is in `LandingPages`.
- The Settings screen's script, translation, templates, and the forms that store one value each
  (schedule, media quality, language, proxies, a company's name).
- Compression, HTTP, HTML parsing, password hashing and cookies' signatures: libraries', modelled by
  what they answer.
- Bootstrap, storage set-up and deployment: input and output against Docker, Postgres and S3.
- Appearances of ads, cost figures and durations: `ApifyCollection` has the appearances of one run;
  the others are data no property here tells apart.

`AdStore` reads Pages one after the other, as Self-hosted collection does. Through Apify the Pages
of a Batch are stored in the order of its dataset, under one lock (`ApifyCollection`), with the same
statements.
