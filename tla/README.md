# Audiohoard: TLA+ specifications

Audiohoard (`src/app`) is a single-process FastAPI application that searches
music sources, acquires files into a staging area, matches them with catalog
editions, imports them into a music library and keeps monitored releases up to
date. All state is in one SQLite database, in the staging area and in the
library; all concurrency is that of one asyncio event loop plus the threads and
programs it awaits. This directory models the parts of it where the order of
steps decides whether a file, a record or a setting survives, and where a
computation over stored rows is easy to get wrong.

    cd tla
    tlc -workers 2 -config MCLibraryImport_plain.cfg MCLibraryImport
    tlc -workers 2 -config MCJobRunner_jobs.cfg MCJobRunner
    tlc -workers 2 -config MCMonitoring_monitoring.cfg MCMonitoring
    tlc -workers 2 -config MCLibraryPages_pages.cfg MCLibraryPages
    tlc -workers 2 -config MCCatalogAlbums_catalog.cfg MCCatalogAlbums
    tlc -workers 2 -config MCConfiguration_configuration.cfg MCConfiguration
    for m in Counting.tla *Proofs.tla; do tlapm $m; done

| Module | What it is |
| --- | --- |
| `LibraryImport` | planning, importing, replacing and rolling back releases; database transaction, file system, failures |
| `AtomicImport` | what an import promises: library and database change together, a release at a time |
| `JobRunner` | download jobs from the request that creates them to their verdict |
| `EditionMatching` | the score of a candidate, automatic and manual selection for a track |
| `Monitoring` | extends it: checks of releases, their scheduler, approval and execution of upgrades |
| `LibraryPages` | the listings of the library with their counts and page numbers, and the scan that fills in what is known of its files |
| `CatalogAlbums` | the albums of an artist under overlapping sessions: fetched, merged, enriched, refreshed, monitored, ordered |
| `Configuration` | the first owner, provider settings, runtime settings with their cache, and the health shown |
| `Positions` | the ids of rows in their order, as the queries sort them; used by `LibraryPages` and `CatalogAlbums` |
| `LibraryImportProofs`, `ImportFilesProofs` | the theorems about `LibraryImport`: its rows, and its files with the step simulation of `AtomicImport` |
| `JobRunnerProofs` | the theorems about `JobRunner` |
| `MonitoringProofs` | the theorems about `Monitoring` and `EditionMatching` |
| `ConfigurationProofs` | the theorems about `Configuration` |
| `Counting` | lemmas the proofs about tables share: induction over finite sets, sums, counts, ranks |
| `LibraryPagesProofs` | the theorems about `LibraryPages` |
| `CatalogAlbumsProofs` | the theorems about `CatalogAlbums` |
| `MCLibraryImport`, `MCJobRunner`, `MCMonitoring`, `MCLibraryPages`, `MCCatalogAlbums`, `MCConfiguration` | the small instances TLC checks (one `.cfg` per run) |

## 1. Inventory

### The parts and their state

| Component (source) | State it keeps | Operations that change state | What is hard |
| --- | --- | --- | --- |
| Library import (`services/library_import.py`, `pinned_destination.py`, `database.py`, `routers/imports.py`) | library files, temporaries and backups; `Release.import_state`, `Track.import_state`/`content_sha256`, `ImportPlan`; transaction callbacks | plan a release, execute plans, commit, roll back | file operations are visible before the database commits; undo by hand; crash between any two steps; other writers |
| Job runner (`jobs/runner.py`, `routers/jobs.py`) | `Job.status`, `result_json`, `Track.acquisition_state`; staged files and remote transfers | create, run (fetch, acquire, enrich, preview), cancel | one write transaction over whole downloads; fall-through of sources; cancellation; failed flushes |
| Monitoring (`services/monitoring.py`) | `MonitoringRecord`, `_active_checks`, scheduler tasks | schedule, check, cancel, approve and execute an upgrade | exclusive checks, a set in memory against rows in the database, reuse of the import transaction |
| Discography refresh (`services/artist_monitoring.py`) | catalog rows, pending jobs, the refresh task | refresh one artist, refresh all, start, stop | repeated jobs, a task that dies |
| Catalog (`services/catalog_metadata.py`, `routers/catalog.py`) | artists, albums, tracks of the catalog | upsert, merge duplicates, re-fetch, toggle monitoring | identity of albums over several providers; rows replaced under pending jobs; sessions that store what they loaded before a provider answered |
| Library pages (`services/catalog.py`, `routers/catalog.py`) | none | none (listings, counts, page numbers) | a walk over pages while tracks are added; groupings in SQL and in Python |
| File reconciliation (`services/catalog_reconcile.py`, `docker/entrypoint.sh`) | file columns of tracks | batches | commit per batch, 24 h retry, a bound that unreadable files may use up |
| Edition matching (`services/edition_matching.py`) | candidates, selection, workflow states | match, select by hand | ties and thresholds; a selection on an imported release |
| Workflow transitions (`services/workflow_state.py`) | none | none (a table nobody calls) | the table and the writers disagree |
| Health status (`services/health_status.py`) | cached provider states | refresh all, refresh one | results applied out of order |
| Authentication (`auth.py`, `routers/auth.py`) | users, sessions | first owner, login | two first owners |
| Settings (`settings_service.py`, `routers/settings.py`) | settings rows, the runtime cache | save, resolve | precedence of stored and environment values; a cache filled across an await; partial submissions |
| Sources (`sources/*.py`) | staged files, child processes | search, acquire, enqueue | time limits, cancellation, staging collisions |
| Metadata providers (`metadata/*.py`) | a rate limiter | lookups | retries |
| Fingerprints, naming, staging paths, read-only pages, application start | none of their own | | |

### How they interact

* A request (FastAPI dependency `get_db`) or a background task has one
  `AsyncSession`. SQLite has one write lock; the first flush of a session takes
  it and commit or rollback gives it back. Every writer meets every other one
  there, and waits at most the five seconds of the driver.
* The job runner stages files and records their paths in tracks; planning reads
  them. Imports and upgrades are the only writers of the library.
* Upgrades (`execute_quality_upgrade`) call planning and execution of the import
  module with `replace_existing_verified=True`.
* `execute_release_import` registers two callbacks with its session
  (`database.register_transaction_callbacks`): after the commit the backups of
  replaced files are deleted, after a rollback the files are rolled back.
* Between two awaits a coroutine runs alone; the import loop has no await, so an
  import and the undo of its files are never interleaved with another request.
  They are interleaved with other programs, and the process may die at any point.

### What has to be right

* Import: a release is imported with all its tracks or none; what the database
  calls imported is in the library; nothing the library held is lost, whatever
  fails; nothing hidden is left behind; requests end and free the write lock.
* Job runner: every job gets a verdict that fits its tracks; what was staged or
  queued is recorded; the source recorded is the one that served.
* Monitoring: at most one check per record, none barred for ever; a paused
  record stays paused; an upgrade replaces what was approved.
* Catalog: one row per album after a merge, which forgets no identifier and no
  mark; a job keeps an album and a track that exist; an artist keeps what is
  known of it.
* Library pages: no item of a listing is skipped, and numbers shown in two
  places agree; every file that can be read is read one day.
* Edition matching: a track that is ready has a selection; a review stands.
* Settings: the cache is what is stored; a save keeps other pages' settings;
  what is stored together was probed together.
* Health: what is shown comes to be the state of the stored settings.
* First owner: exactly one.

Two of the first expectations turned out not to be the code's: a monitored
artist whose refresh fails ends the scheduler, and each refresh orders every
wanted album again (section 7).

The hazards, each at its line and with the properties that watch it, are in
`PROJECT.json`.

## 2. Plan

1. **`LibraryImport`, `AtomicImport`, with their proofs** (done): the part that
   can destroy data.
2. **`JobRunner`** with its proofs (done): jobs from creation to verdict over
   the shared write lock; source order, acquisition outcomes, cancellation,
   failing flushes, death.
3. **`Monitoring`** over **`EditionMatching`**, with their proofs (done):
   checks, scheduler, matches and reviews, approval and upgrade; the files of an
   upgrade are replaced in `LibraryImport`.
4. **`CatalogAlbums`** with its proofs (done): catalog pages, discography refreshes, merges of
   duplicates and the jobs that refer to them.
5. **`LibraryPages`** with its proofs (done): listings against their definition, and the scan.
6. **`Configuration`** with its proofs (done): first owner, settings, health.
7. Left: **`Staging`** (temporary directories, time limits and child processes
   of a download), **`RateLimit`** (the limiter of MusicBrainz requests) and
   **`WorkflowState`** (the table against the transitions the writers make).
8. Proofs left: every invariant and action property the runs check has its
   theorem. `NothingIsLost` and `ImportsAreAtomic` could do with less than one
   active request where releases share no path.

Abstract specifications worth stating: `AtomicImport` (done); a job as a single
step from pending to its verdict; a check as a single step. Each module has an
MC module and at least one passing run; a run that shows a disagreement between
a document and the code checks that one property on the smallest instance.

## 3. `LibraryImport`

### State

| Variable | Code |
| --- | --- |
| `lib` | the files below the library root, by destination path |
| `staged` | the source file of each track: what the job staged, and what an upgrade candidate offers |
| `stray` | `.audiohoard-*` temporaries and backups no request will remove |
| `db`, `txn` | committed rows, and the rows as the lock holder sees them: `ImportPlan.status`/`destination_path`, `Release.import_state`, `Track.import_state`/`content_sha256` |
| `lock` | the session inside a SQLite write transaction |
| `pc` | the next step of a request; loop and undo steps have no await between them |
| `rel`, `mode`, `want`, `idx` | arguments and locals of `execute_release_import`: the release, how its plans were made, the hashes loaded with the tracks, the loop position |
| `tmp`, `made`, `kept` | the temporary, `created_destinations`, `backup_paths` |

A file is its audio payload (two payloads are equal iff their SHA-256 is) and
the track whose tags it carries; tagging changes the hash, which is what the
duplicate query is about. Workflow states are the strings of
`ImportWorkflowState` these handlers write.

### Actions

| Action | Code |
| --- | --- |
| `PlanRelease` | `plan_release_import` from a plan route, with its commit; `Clear`, `Replaceable`, `Repeated` are its decisions |
| `LoadPlans` | reads at the start of `execute_release_import`, without the write lock |
| `Begin`, `BeginUnplanned`, `BeginUpgrade` | up to the first flush, from ready plans, from none, from `execute_quality_upgrade` |
| `LockFails` | the first flush times out |
| `Pin`, `Copy`, `Verify`, `Tag`, `Check`, `LinkBackup`, `UnlinkLive`, `Rename`, `Fsync`, `Record`, `Flush` | the loop body, a step per operation that may raise or be the last before a crash |
| `StepRaises`, `UnlinkRaises` | an exception in one of them |
| `UndoTemp`, `UndoMade`, `UndoKept`, `NoteRollback`, `RollbackRequest` | the except branch and the rollback of `get_db` |
| `Commit`, `CommitRaises`, `Finalize`, `EndRollback` | the end of the transaction and the two callbacks; ROLLBACK has freed the lock before the callback runs |
| `Cancel` | `CancelledError` at an await: no handler of the code catches it, the session is closed and fires no callback |
| `Crash` | the process dies and is started again |
| `Foreign`, `Restage` | other programs write to the library or to a staged file |

The constant `Faults` names the steps that may raise and the events that may
happen, so that each run states what it tolerates. `Prior` is what the library
may hold at first, `Kinds` which requests are made.

### Runs

| Run | Instance | Shows |
| --- | --- | --- |
| `plain` | two sessions, two releases of two tracks and one, of which two tracks render to one path; errors of tagging, fsync, commit and undo, death | `ImportedMatchesLibrary`: what is recorded as imported is in the library with its tags and its recorded hash, although every failing request unlinks by name |
| `upgrade` | two sessions, one release, imports and replacements; live name cannot be unlinked, undo and cleanup fail, death; fair | `NoLoss`: the recorded bytes are at the destination or in a backup beside it at every moment; `RequestsEnd`: every request ends and has given back the lock |
| `surroundings` | two sessions, one release; failing last flush, cancellation, another program, changed staged files | `AllOrNothing` and `TypeOK` under events the code does not control |
| `atomic` | one session, two releases sharing a path, old files in the library, imports and replacements, every error from tagging to commit | `ImportIsAtomic`: the system implements `AtomicImport`; `NoLitter`: no hidden file is left |
| `late_rollback` (violation) | two sessions, one release, failing commits | after a failed COMMIT the lock is free before the file rollback runs: an upgrade that commits in between loses its files |

**Bounds.** Two requests are enough for every interference: all of it goes
through the lock, the library and the rows, and a request only reacts to what
another left there. Two tracks give a first and a last position of the loop and
something to undo before the failing file; a third, in another release and at
the same path, gives collisions of destinations. Payloads are pairwise distinct
unless the instance is about equal ones. One staged file changes in a behaviour
(guard of `Restage`); nothing else needs a bound, every variable is finite but
for `idx`, which stays within the plans of the release. `Symmetry` exchanges the
two sessions; the run with a liveness property does not use it.

**Fairness.** `FairSpec` has strong fairness for what a request does by itself
(`Proceed`), none for faults, requests or other programs. The ready queue of the
event loop is first in, first out, so a request that is again and again ready
is run; weak fairness would not do, since another request inside its loop
disables it meanwhile. A request waiting for the write lock either gets it or
times out, `LockFails`, so nothing is assumed of the one holding it beyond its
own progress.

**The promise.** `ImportIsAtomic` maps `library` to what would be in the library
if every request under way were rolled back now (`Settled`: a backup in place of
the file, nothing in place of a created file), and `recorded` to the hashes of
the tracks the database calls imported (`Recorded`). Then every step of the loop
is a stutter and the commit is `Import`. The run leaves out exactly the faults
for which the promise fails: an fsync after the rename, failing undo operations,
cancellation between flush and commit, death, and foreign writers.

### Known deviations without a run

They follow at once from a line of the code, so a run would add nothing; the
model has them as the code does.

* `os.replace` overwrites a file another program creates between the last look
  and the rename (`Rename`).
* Planning an imported release again takes it out of the imported state
  (`PlanRelease`, `Review` in `AtomicImport`).
* An upgrade accepts any existing destination with other bytes, also a file of
  another release (`Replaceable`); `NoLoss` is therefore checked with one release.
* Executions that make their own plans, and upgrades, use the default template
  (`Target`).
* After a crash or a cancellation, nothing looks for files and backups left
  behind (`Crash`, `Cancel`).
* A directory fsync that fails after the rename leaves the new file, which is not
  in `created_destinations` yet (`Fsync`, `StepRaises`);
  `docs/plans/2026-07-16-v0.1.1-library-automation.md:26` promises an unchanged
  library.
* The states and messages the except branch writes are discarded by the rollback
  of `get_db` (`NoteRollback`, `RollbackRequest`; line 43 of the same plan).
* After an import `content_sha256` is the hash of the tagged file, so that a
  second copy of the staged file is planned as ready (`Repeated`; line 27).

## 4. `JobRunner`

### State

| Variable | Code |
| --- | --- |
| `db`, `row` | a job with its tracks, as committed and as the session of its task has them: `Job.status`, `source`, the attempts, the serving source and the missing tracks in `result_json`, and `Track.acquisition_state`, catalog track and source reference |
| `lock` | the task whose session is inside a SQLite write transaction |
| `pc` | the next await of `_run_job_in_session`, or how the task ended: by committing, by an exception, with the process |
| `found`, `at` | the results, and the position in the priority, later in the results |
| `created`, `bad` | `tracks_created` and the number of failures, by which the code decides |
| `staged`, `queued` | what does not go away with a transaction: staged downloads and transfers accepted by slskd or SABnzbd |

A result is a medium and the catalog track its title stands for. `Asks` says what
each job was created with, `Batches` which jobs one request leaves as background
tasks, in order; Starlette runs them one after the other and drops the rest when
one raises (`Due`, `Raises`, `FromOn`).

### Actions

| Action | Code |
| --- | --- |
| `Create` | a route commits its jobs as pending |
| `Start`, `StartFails` | the first flush takes the write lock or gives up |
| `PassesOver`, `Serves`, `Exhausted` | `_fetch_results`: a source is unhealthy, empty or failing, answers, or there is none left |
| `NewTrack` | the release and track of a result, `_catalog_track_for_result` |
| `Download`, `DownloadFails`, `Enqueue`, `EnqueueFails`, `StatusKnown`, `StatusUnknown` | `_prepare_acquisition` and the adapters below it |
| `Preview`, `PreviewFails` | enrichment, fingerprint and path preview |
| `Decide`, `Commit` | the verdict from the counters; the last flush and the commit |
| `LosesSession`, `Cancel`, `Crash` | a failing flush, a cancelled task, the death of the process |

### Runs

| Run | Shows |
| --- | --- |
| `jobs` | `VerdictFits`: a verdict agrees with the tracks it is committed with; `ServedInTurn`: the source recorded has served and all before it were asked; `FetchedIsRecorded`: what a task that ended has staged or queued is known to the database, cancelled or not; `OneVerdict`: others see pending, then one verdict with all tracks; `JobsEnd`: every scheduled job ends and leaves the write lock |
| `giving_up` (violation) | a task that finds the write lock taken raises outside its try block: its job stays pending for ever |
| `attempts` (violation) | the error of exhausted sources takes the place of the attempts recorded for them |

**Bounds.** Three jobs in two requests: an album by priority followed by one of
its tracks (the next task of a batch waits, and is dropped when the first
raises), against a result selected by hand. Two enabled sources are enough for
falling through and for exhaustion; their answers are two files of one track,
two tracks, or one without a known title, so that every rule of
`_catalog_track_for_result` and every verdict occurs, and the two YouTube jobs
can collide on a staged medium. No counter needs a bound: all of them stay
within the results and sources of an instance.

**Fairness.** `FairSpec` has weak fairness for what a task does by itself. Every
await of it returns, since the HTTP clients, the downloads and SQLite have time
limits, and a task is never disabled by another one but at its start, where it
either gets the lock or gives up. Cancellation and failures are not assumed.

### Known deviations without a run

* `running` is flushed but never committed before the verdict: nobody sees it.
* The order of a single track of an album is compared with the length of the
  album: it ends as partial (`Decide`).
* Done counts results, not tracks: two files of one track make up an album of
  two. `VerdictFits` therefore compares lengths.
* A staged file of a transaction that was lost blocks the next download of the
  same medium (`DownloadFails`).
* A SABnzbd job that is not listed at once has failed, and is downloaded all the
  same (`StatusUnknown`).

## 5. `EditionMatching` and `Monitoring`

### State

| Variable | Code |
| --- | --- |
| `cands` | the rows of `release_candidates`, matched (with a track) or offered for a whole release |
| `workflow` | `Release.import_state` and `Track.import_state`, as matching writes them |
| `active`, `tasks` | `_active_checks` and `MonitoringScheduler._tasks`, both in memory |
| `pc`, `on`, `seen`, `due` | where a task is, its release, the `current_quality` it was called with, what its session will commit |
| `row` | `MonitoringRecord.status` and `candidate_id`, as committed |
| `held` | the quality of the release in the library |
| `lock` | the task inside a SQLite write transaction |
| `spoiled` | history: releases for which a flush outside the try block has failed |

Evidence says of each field of a candidate whether it agrees, differs or is
missing; scores are in hundredths for matches, in tenths for qualities.

### Actions

| Action | Code |
| --- | --- |
| `ResolveReleaseMatch`, `ManualSelect` | `resolve_release_match`, by evidence or with the candidate of a reviewer |
| `Offer` | a candidate for a whole release, which no code under `src/app` creates (tests do) |
| `Begin`, `Refused` | `run_monitoring_check` up to the first flush; `MonitoringCheckAlreadyRunning` |
| `Mark`, `MarkFails` | the flush of the status `checking`, before the try block |
| `Discover`, `DiscoverFails` | the callback, `evaluate_quality_candidate` and the choice of the best |
| `Close`, `CloseFails` | the last flush, the discard from the active set and the caller's commit |
| `Schedule`, `Cancel`, `Disconnect` | `MonitoringScheduler.schedule` and `cancel`, a cancelled request; `Interrupt` says where the exception arrives |
| `ApproveUpgrade`, `Upgrade`, `UpgradeFails` | `execute_quality_upgrade`: its guards, and the import as one step (its files are in `LibraryImport`) |

### The run `monitoring`

| Property | What it says |
| --- | --- |
| `ChecksDoNotOverlap` | two checks of one release never run together, whoever started them and whatever failed |
| `BarredOnlyByAFlush` | a release is in the active set only during a check, or after one of the two flushes that no handler guards has failed |
| `LoopsAreCancellable` | every loop that lives is the one registered for its release |
| `ReadyIsBacked` | a track that is ready has a selected candidate |
| `ReviewStands` | a match never undoes a review |
| `UpgradesClimb` | an upgrade raises the score and never lowers the reliability, so upgrades do not go in circles |

**Bounds.** Two releases, one with a track; two loops, so that a release can be
scheduled again; one caller; at most two candidates; offers of which each is
better than the other in something, one of a less reliable source and one nobody
approved. Loops are interchangeable (`Symmetry`). All properties are about
safety: the code promises no check in time.

**Callers of upgrades.** `current_quality` is an argument of
`execute_quality_upgrade`. The instance has one caller, as upgrades under way
together may each be approved for a quality the other has replaced. The theorem
states the assumption.

### Known deviations without a run

* After a failed flush at the start or the end of a check its release is never
  checked again before a restart (`spoiled`).
* The automatic selections of repeated matches add up, so that a track may have
  two selected candidates; the release takes the state of the track matched last.
* Candidates of `edition_matching` belong to a track and are never approved for
  a release, so that no code offers what `execute_quality_upgrade` needs.

## 6. `LibraryPages`

`rows` are the tracks in the order of their ids, `facts` what is known of their
files, `files` what can be read; `checked` orders tracks by the time of their
last scan and `old` says how many of these times are more than 24 hours ago; `scan` is
the scan of the entry point or the application that follows it; `walk` is a
reader on the way through one listing (`seen`, and `there`: what was listed at
the start and keeps its place).

| Action | Code |
| --- | --- |
| `Open`, `CountRows`, `ReadRows`, `Leave` | a listing page: its COUNT, its clamped page number, its SELECT with LIMIT and OFFSET, the link to the next page |
| `AddTrack` | a job commits a track |
| `ScanBatch`, `ScanEnds`, `ScanFails` | `reconcile_track_file_metadata`: a batch and its commit, the bound, an exception |
| `StartApp`, `Restart` | `docker/entrypoint.sh`: the application follows the scan, whatever became of it |

### The run `pages`

| Property | What it says |
| --- | --- |
| `WalkMissesNothing` | who walks from the first page to the last sees everything that was there, although tracks are added between pages |
| `CountsAgree` | numbers of albums, tracks and seconds agree between the list of artists, the page of one and the totals, over missing and empty columns |
| `ScanIsThorough` | a scan that ends below its bound has left nothing it should have read |
| `FilesGetRead` | every file that can be read is read at some time, although scans are bounded and unreadable files are tried again each day |

**Bounds.** Four tracks of two artists and of none; three fields where NULL and
empty strings differ; two items a page, so that a walk has more than one. Batches
of one and at most two tracks a scan, so that three unread files exceed the
bound; one scan fails. Readers come before the first scan, which changes nothing
they see, and do not go on after a restart.

**Fairness.** A scan goes on and the application is started after it (weak
fairness: `exec` follows in the entry point). `RestartNextDay` has strong
fairness: that the container is started again and again, a day or more apart, is
an assumption about its operation. Without restarts nothing is scanned twice.

**Known deviations.** A track added between the COUNT and the SELECT of one page
can push an item off the last page (`torn`). A walk can miss an artist whose sort
key changes (`there`).

## 7. `CatalogAlbums`

`albums` and `tracks` are the tables, `jobs` the pending jobs with their album
and track, `artist` the row of the one artist the instance is about. A session
loads rows, waits for a provider, and stores only the columns it has changed
(`Write`); `session` keeps what each has loaded and whether it is stale by now.
`loop` is the discography refresh. An album is its title key, year, identifiers
and marks; a provider answers with any of the discographies given for it.

| Action | Code |
| --- | --- |
| `OpenArtist`, `StorePage` | `catalog_artist_page`: the discography of a new artist, then `reconcile_duplicate_catalog_albums` (`Reconciled`, `MergeGroup`, `Absorb`) |
| `OpenAlbum`, `StoreAlbum` | `catalog_album_page`: tracks replaced, references of jobs to them set to NULL |
| `StartEnrichment`, `StoreEnrichment` | `enrich_catalog_artist` |
| `StartRefresh`, `StoreRefresh` | `refresh_monitored_artist`, `apply_monitor_policy` and the jobs it adds |
| `OpenForm`, `StoreForm`, `OpenFromSearch` | the monitoring forms |
| `AskAlbum`, `AskTrack`, `AskWanted`, `StoreJob` | the download routes |
| `Fails` | an exception: rollback, and the end of the loop if it was there |

### The run `catalog`

| Property | What it says |
| --- | --- |
| `MergedIsTidy` | after a page has merged, no two rows match each other, although matching is not transitive and rows change during the merge |
| `NothingForgotten` | merging, enriching and refreshing lose no identifier and no mark |
| `JobsHaveAlbums` | a job keeps an album and a track of it that exist |
| `ArtistStays` | an identifier of the artist is never replaced by enrichment |

The properties are about sessions that are not stale; what stale ones do is
below. **Bounds.** Two overlapping sessions, three in all, two providers, four
album rows, three jobs; tables to start from are empty, two editions, and three
rows an older version left of which two pairs match. Two sessions are enough: a
session interferes with another only between its load and its store. Sessions
are interchangeable (`Symmetry`).

### Known deviations without a run

* A year that is missing matches every year: albums of 2000 and 2001 become one
  through a third row, against the docstring `catalog_metadata.py:425-427`.
* A stale session can lose a mark, replace an artist identifier another has
  stored, double the tracks of an album, or leave a job with an album that is
  gone; foreign keys are not enforced and ids are used again. An identifier two
  rows claim makes the store fail.
* Fetching an album again sets `catalog_track_id` of a pending job to NULL: it
  becomes a job for the whole album.
* Every refresh orders every wanted album again, and nothing runs these jobs;
  `in_library` is set by merging only.
* An exception in one refresh ends the scheduler until the next start.

## 8. `Configuration`

`env` is what the environment sets, `owners` and `answer` the claims for the
first owner, `stored` the provider settings (one provider with a URL and a
secret key), `rows` and `cache` the runtime settings (one field for each page, and
`auto_download_wanted`), `snapshot` and `loop` the health of the provider and the
background refresh. `request` says where each request is and what it has read;
`setupLock` is the asyncio lock of the process, `writer` the session inside a
write transaction. `crossed` is history: the cache was filled by a load that a
save has crossed.

| Action | Code |
| --- | --- |
| `Claim`, `Enter`, `Insert` | `setup_owner`: the first look, the second one in the lock, the INSERT under the partial unique index together with the submitted settings |
| `SubmitApi`, `ReadStored`, `SubmitForm`, `Save` | `save_settings_api` with its probes (`_backstop`), `save_settings_page` without, `save_settings` |
| `OpenRuntime`, `Select`, `Fill` | `get_runtime_settings` with its cache |
| `ReadRows`, `Flush`, `Commit` | `save_runtime_settings`, which clears the cache before the commit |
| `RefreshAll`, `StoreAll`, `RefreshOne`, `StoreOne` | `health_status`: all providers, one provider |
| `Fails`, `Restart` | an exception or cancellation, the end of the process |

### The run `configuration`

| Property | What it says |
| --- | --- |
| `OneOwner` | of all claims one wins, in this process or another; the others are refused, and store nothing |
| `CacheIsFresh` | the cache is what is stored, but for a load that was crossed |
| `SavesKeepTheRest` | the save of a page keeps what other pages have stored |
| `ProbedTogether` | an API save leaves a URL and a key that were probed together, whatever blanks and the environment supply |
| `HealthConverges` | the health shown comes to be that of the stored settings |

**Bounds.** Two requests in this process and one in another; two claims and two
further requests; one fault; two pages; two values for URL and key, with and
without a URL in the environment. Two requests are enough for each race here: it
needs a read and a write of another request before the write that follows it.

**Fairness.** Weak fairness of the background refresh: its pause is bounded by
`ttl`, each probe by three seconds, and an exception leads to the next round.

### Known deviations without a run

* A load that a save crosses fills the cache with old values until the next save,
  which writes them back for all pages (`crossed`).
* Every page but "behavior" turns `auto_download_wanted` off (`Submitted`).
* A value submitted for a key the environment sets is probed but not stored; a
  URL cannot be cleared through the API while a key is stored; the HTML form
  saves without a probe and can leave half of a pair.
* Two first saves of runtime settings collide, and one is answered 500 (`Flush`).
* Health is that of the last probe to end until the next round.

## 9. Theorems

Every invariant and every action property of a passing run has a theorem, for all
values of the constants; where a theorem needs more than the shape of the
constants, its assumption names the faults or the sharing of paths it excludes,
and the table below says what the code does otherwise. The four liveness
properties (`RequestsEnd`, `JobsEnd`, `FilesGetRead`, `HealthConverges`) are only
model-checked: they rest on fairness, and TLAPS 1.4.5 does not reason about
`ENABLED`.

### `LibraryImportProofs`

It proves, for every set of releases, tracks, paths, payloads
and sessions, every `Faults` and every `Kinds`:

* `TypeCorrect`: `Spec => []TypeOK`.
* `ImportedWholly`: `Spec => []AllOrNothing` - no fault of the model, crash,
  cancellation and foreign writers included, makes the database hold a release
  that is imported in part.

The only assumption is `ImportAssumption`: the shape of the constants, every
track in one release and once, no release without tracks, and `None` different
from everything else. TLC evaluates it in every run.

**The argument.** `AllOrNothing` speaks of `db` alone, and `db` changes only in
`Commit` and `PlanRelease`; it is not inductive, since a commit copies `txn`.
`IInv` adds what a transaction looks like on its way:

* `Locked`: a request past its first flush and not yet at its end holds the
  lock, so that there is one transaction at a time and nobody else writes `txn`;
* without a lock holder `txn = db`;
* `Underway`: in the transaction of a request at plan `idx`, exactly the tracks
  and plans before `idx` are imported and the release is importing (imported
  after the last flush); all other releases are whole, as in `db`;
* `InHand`: a request that renames has a temporary, one that unlinks a backup;
  needed for the types of `lib` and `kept`.

Each action preserves each part; releases are told apart by the disjointness in
`ImportAssumption` (`DisjointReleases`). `IInv` was checked by TLC on the
instances of the passing runs before it was proved.

**What is recorded is there.** The same module proves

* `RecordedIsThere`: `Spec => []ImportedMatchesLibrary` under `Undisturbed`: no
  upgrade is made and no other program touches the library or staged files.
  Errors of every step, of commits and of undo operations, cancellations and
  crashes are all allowed, and paths may be shared in any way.

The assumption is needed: another program may remove what was imported, and an
upgrade replaces whatever file is at its path, that of another imported track
included.

**The argument.** The danger is the rollback of one request hitting the file of
another, at a moment when it has no lock. `Created` says that what a request has
created and may still undo is at its path, and that no two requests, and no
request and an imported track, have such a path in common. This is kept because
a path to which a request renames was free at its last look, and nothing comes
in between (the loop has no await). `Recording` says what the transaction adds
to what is committed: the tracks the lock holder has created, with the hashes of
their files. `Waiting` says that plans loaded without the lock keep the template
they were made with, or their track was imported meanwhile by somebody else
(`Untouched`, `Aimed`, `Entered` say this of the transaction). TLC checked the
invariant on an instance with two templates and files in the library before it
was proved.

### `ImportFilesProofs`

It is about the files themselves, replacement included, for any releases,
tracks, paths and payloads:

* `NothingLeftBehind`: `Spec => []NoLitter` under `Unbroken`.
* `NothingIsLost`: `Spec => []NoLoss` under `Private`, `Exclusive` and
  `OnePathEach`.
* `ImportsAreAtomic`: `Spec => ImportIsAtomic`, the step simulation of
  `AtomicImport`, under `Private`, `Exclusive`, `Parted` and `Undoable`.

Each assumption names faults or constants, and each is there because the code
does not keep the promise without it:

| Assumption | What it says | What happens otherwise |
| --- | --- | --- |
| `Unbroken` | undo and clean-up operations do not fail, no request is cancelled or dies | nothing looks for what a broken-off request leaves |
| `Private` | no other program writes to the library | it may remove any file |
| `Exclusive` | commits do not fail, or there is one session | the run `late_rollback`: the rollback of files after a failed COMMIT runs without the write lock |
| `OnePathEach` | a track has one path, for every template, and no other track has it | an upgrade of one track replaces the file of the other at the same path, or a plan by another template leaves the old path behind |
| `Parted` | the tracks of a release that is upgraded have paths of their own | the second one takes the file of the first for the old file, and restores it in the wrong order |
| `Undoable` | no undo step fails, none is cut short, and no fsync fails after the rename | the library keeps what the database forgets |

`NothingIsLost` needs none of `Undoable` and `Unbroken`: undo operations may
fail, requests may be cancelled and the process may die at any step.

**The argument.** A request is active from its first flush to its end, and under
`Exclusive` there is one at a time (`Solo`, `OneActive`). `FileInv` says what it
has in hand: it has created or moved aside files of its own release only, an
upgrade creates nothing it has no backup of (`Hands`), the tracks it has not come
to are as they were planned (`Ahead`) and those behind it are replaced (`Behind`).
For `NoLoss`, which is not inductive, `Safe` counts the backups a request may
still move back beside those nobody owns any more, and `Covered` says that the
recorded bytes of a track whose file is not in its place are among them: this is
what holds in the middle of a rollback, where the property only looks at the
result. For the refinement, `Settling` says that `Settled` is the library a
rollback would leave: every file step leaves it alone, and a commit turns it into
the library there is.

**Model-checked only of `LibraryImport`.** `RequestsEnd`, a liveness property. The
runs go beyond the theorems where these have assumptions: `plain` has failing
commits with two sessions, paths shared by two tracks, and death.

### `JobRunnerProofs`

For every set of jobs, any batches, albums, sources and lists of results, and
every `Faults`:

* `TypeCorrect`: `Spec => []TypeOK`.
* `OneAtATime`: a task has the write lock exactly while it runs.
* `VerdictsFit`: `Spec => []VerdictFits`.
* `VerdictOnce`: `Spec => OneVerdict`.

The assumptions are `JobAssumption` (the shape of the constants, every job in one
batch once, a track once in its album, who selects a result names its source, no
empty answers) and `NoneAssumption`. TLC evaluates both in every run.

**The argument.** A verdict is decided by `created` and `bad`, and what it must
fit are the tracks. `IInv` connects them: `Counted` says that a task has one
track for each result it is done with, that `created` is positive exactly if one
of them is alive and `bad` exactly if one is not (`Tally`). For partial one more
fact is needed: fewer tracks than the album has must leave one missing, which is
the pigeonhole principle (`SomeMissing`). `Undecided` says that a job is as it
was created until its task ends, which makes the verdict its only change.
`InOrder` says that the jobs behind one that has not ended wait: an exception
drops jobs that were created and hold nothing. `IInv` was checked by TLC on the
instance of `jobs` before it was proved.

A step inside a transaction changes the state of one task only (`StepInside`), so
that each action has to show no more than `Counted` of its own job; all ways to
end share `EndKeeps`.

**What is recorded of sources and files.** With the same assumptions:

* `RecordsWhoServed`: `Spec => []ServedInTurn`.
* `RecordsWhatIsFetched`: `Spec => []FetchedIsRecorded`.

The invariant `RInv` adds `Right(j)` to `IInv`:
what the row of a job says of its sources follows from how far its task is in the
priority (`InTurn`), and what a task has staged or queued is named by the tracks
of its row (`Holds`), with the exception of tasks whose transaction was lost.

**Model-checked only of `JobRunner`.** `JobsEnd`, a liveness property.

### `MonitoringProofs`

For every set of releases, tracks, loops and callers, every `Faults` and every
number of candidates:

* `NoOverlap`: `Spec => []ChecksDoNotOverlap`.
* `BarredByAFlush`: `Spec => []BarredOnlyByAFlush`.
* `Cancellable`: `Spec => []LoopsAreCancellable`.
* `ReadyTracksAreBacked`: `Spec => []ReadyIsBacked`.
* `ReviewsStand`: `Spec => ReviewStands`.
* `UpgradesDoNotGoBack`: `Spec => UpgradesClimb` if one caller upgrades at a
  time (`OneCaller`): between the approval and the replacement of the files a
  second upgrade may already have raised the release above the first.
* `MonitoringType`: `Spec => []TypeOK`.

The assumptions are `MonitoringAssumption` and `MatchingAssumption`: loops are not
callers, releases are not tracks, nothing is the value for nothing, and what
`_number` reads of a quality is a number.

**The argument.** The set of active checks holds every release a check is about,
since `Begin` puts it there and only the end of that check takes it out; and it
holds no other but those in `spoiled`. With that, the look at the set in `Begin`
excludes a second check. Actions fall into a few classes (`Continues`,
`EndsCheck`, `EndsRest`, `Turns`, a begin, a schedule), and the invariant is
proved for each class. For candidates, every action either appends rows
(`Grows`) or reviews one track (`Reviews`); `Backed` and `Reviewed` survive both.
For upgrades the invariant is that the one under way is still worth making
(`Approved`), which needs the one caller. That a check writes the id of a
candidate (`TypeOK`) needs `max` to have a result: scores are totally ordered,
and a finite set that is not empty has a first of its best (`BestIsThere`).

### `ConfigurationProofs`

For every set of tasks and claims, any environments, submissions, accepted pairs
and pages, and any number of requests and faults:

* `SingleOwner`: `Spec => []OneOwner`.
* `FreshCache`: `Spec => []CacheIsFresh`.
* `OtherPagesAreKept`: `Spec => SavesKeepTheRest`.
* `PairsAreProbed`: `Spec => ProbedTogether`.
* `ConfigurationType`: `Spec => []TypeOK`.

The assumption is `ConfigurationAssumption`: the shape of the constants.

**The argument.** `Claimed`: each claim is pending in one request at most, so that
an answer is given once, and an owner excludes another by the unique index.
`Cached`: a request that has flushed holds the write lock, and while one does the
cache is empty or was filled across it. For the saves, `RowsHeld` and
`PairsHeld` say that what a request holds, and is not stale, is what is stored,
and that what it has probed is what it would store. A step of one request leaves
the others as they are or makes them stale (`Moves`, `Stays`). The types rest on
those of what a request holds between two awaits (`Typed`): what it writes is what
was submitted, or what was loaded.

**Model-checked only.** `HealthConverges`, a liveness property.

### `Counting`

What `LibraryPages` and `CatalogAlbums` promise is the result of computations over
tables: grouping, merging, cutting pages. Induction over them is possible in first
order, with a set of the subsets that have a property in place of the property:
`SetInduction` follows from the least-number principle (`Smallest`) for the sizes
of the subsets that do not have it. On it rest

* sums: the folds of the library are recursive functions on the subsets of a set;
  there is one such function on every finite set, and those of different sets
  agree (`SumsExist`, `SumsAgree`), so that a sum may be split and reordered;
* counts: images, unions and partitions of finite sets;
* ranks: under a strict total order the elements of a finite set of n have the
  ranks 1 to n, so that a slice has the size one expects (`SliceSize`) and
  `Sorted` of `Positions` lists every number once, in order (`SortedAll`).

### `LibraryPagesProofs`

For any library, tags, page size, batch size and number of tracks:

* `NothingIsMissed`: `Spec => []WalkMissesNothing`.
* `NumbersFit`: `Spec => []CountsAgree`.
* `NothingDueIsLeft`: `Spec => []ScanIsThorough`.
* `PagesType`: `Spec => []TypeOK`.

The assumption is `PagesAssumption`: the shape of the constants.

**The argument.** For a walk, the invariant is that every item that was there at
the start and kept its place has been seen or is on a page to come: the place of
an item among the items of a listing (its rank) only grows while tracks are added,
so what is before the offset of the next page has been on a page before, and a
page that is read is that part of the order. The last page is where `torn` comes
in. `CountsAgree` holds in every state: groups by key are the classes of an
equivalence, which is what makes SQL and Python count the same. For the scan the
invariant relates the times of checks (`checked`, oldest first) to what is due: a
scan stamps what it has looked at with its own time, so that what is left due is
what it has not looked at, and a batch that is empty is the end of that.

**Model-checked only.** `FilesGetRead`, a liveness property.

### `CatalogAlbumsProofs`

For any discographies, any number of sessions and albums, and all policies:

* `CatalogType`: `Spec => []TypeOK`.
* `PagesAreTidy`: `Spec => []MergedIsTidy`.
* `JobsKeepAlbums`: `Spec => []JobsHaveAlbums`.
* `ArtistKept`: `Spec => ArtistStays`.
* `NothingIsForgotten`: `Spec => NothingForgotten`.

The assumption is `CatalogAssumption`: the shape of the constants.

**The argument.** The invariant `Inv` types the tables and the sessions
(`AlbumsInv`, `TracksInv`, `JobsInv`, `ArtistInv`, `SessionsInv`) and adds what makes
the properties inductive: an identifier of a provider stands in one row, a track
belongs to an album that exists, and a session that is not stale has in hand
what is committed (`FreshIs`). Upserts, enrichments and merges are folds over
sets and sequences; each of them is shown to be the last value of a sequence of
steps (`Step`, `Iterates`), and what is proved is a property of one step that the
next one keeps:

* an upsert writes into the row it finds, by identifier or by key, or into a new
  one, and forgets nothing of it (`DiscographyKeeps`, `EnrichedKeeps`);
* a merge chooses a winner in a group and absorbs the others into it
  (`Winner`, `AbsorbedRow`): what one of them had, or was wanted for, the winner has
  or is wanted for; `Remembers` carries this from row to row, along `into`;
* that no two rows match after a merge (`ReconciledTidy`) is not immediate,
  because matching is not transitive - a missing year matches every year - and
  because the winner of a group changes while it absorbs. `Alone` says of the rows
  already treated that no other row left matches them, and `Merging` that every
  later group keeps that: the years of a winner are those of its group.

A job keeps its album because it is moved with it in the same transaction, and its
track because a track is removed only together with the reference to it; both
fail for a session that was stale, which the properties leave out.

All five properties of the run `catalog` are proved.

## 10. Not modelled

* Formats and wording: tags, rendered paths, messages, the presentation of pages.
* The checks on paths in `PinnedDestination.open`, which only make `Pin` raise.
* The protocols of the outside services, and what a metadata or source client
  parses; their answers are constants (`Answers`, `Discographies`).
* Temporary directories, time limits and child processes of a download
  (`sources/*.py`) and the limiter of MusicBrainz requests: in the plan.
* Passwords, login, sessions and login limits; only the first owner is modelled.
* Fingerprints, staging paths, searches and the dashboard: no state.
* `services/workflow_state.py`, a table no code calls.
* Filters of the listings, and the `/health` pages that probe without storing.
* Releases without tracks: no route creates them.

Hazards without a property are those where the code has the deviation and no
document promises otherwise (a run could only repeat the line), and the one order
of restored backups that needs two plans of one release at one path.
`PROJECT.json` has the reason with each of them.
