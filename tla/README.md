# A verification development of DAENGS_geo

DAENGS_geo is the service behind a dog-walking app: a FastAPI backend on
PostgreSQL (`app/`), an Android client (`android/`), migrations (`alembic/`) and
the tools of its developers (`scripts/`, `tools/`).  This directory holds TLA+
models of the parts of it that keep state while several actors work on it, TLC
configurations that check them on small instances, and proofs that TLAPS checks
for every instance.  `PROJECT.json` lists the runs, the lines of the source that
every definition stands for, a mutation that each property catches, the hazards
and the theorems.

Contents: [the system](#the-system), [the plan](#the-plan),
[the territory policy](#the-territory-policy), [the statistics](#the-statistics),
[the walk](#the-walk), [the diary and its places](#the-diary-and-its-places),
[the ingest](#the-ingest), [the map screen](#the-map-screen),
[the runs](#the-runs), [the proofs](#the-proofs),
[what the code does otherwise](#where-the-code-and-its-documents-part),
[what is left out](#what-is-not-modelled).

## The system

| Part | State it keeps | Operations | Hard to get right | Must hold | Modules |
|---|---|---|---|---|---|
| **Territory ownership policy** `app/features/territory_game/{policy,policy_service,policy_ports,postgres_store}.py`, migration 0033 | tables of seasons, sites, accounts, receipts, events, bonuses, attempts, results; row and advisory locks | apply a claim, register an attempt, finalize, project scores, create a season | transactions of several workers, lost replies and retries, the database's clock moving and stepping back, claims racing the end of the season | counts agree with sites, one unbroken history per site, one receipt per event, scores equal to the history integrated, a closed season never moves | `TerritoryPolicy`, `PolicyService`, `PolicyProperties`, `OwnershipLedger`, `PolicySafetyProofs`, `PolicyHistoryProofs` |
| **Activity statistics** `app/features/activity_statistics`, migration 0034 | event streams with revisions, confirmed cuts, projections per generation with checkpoints | append, confirm, cut, activate, select a walk, refresh, run pending, read | producers inside the policy's transactions, several runners, a clock set back, a crash between two scopes | the stream is the policy's history, a projection is the fold of its stream up to its checkpoint, confirmed totals are final | `ActivityProjection`, `ActivityStatistics`, `ActivityStatisticsProperties`, `StatisticsProofs` |
| **Walk collection endpoints** `app/features/walk/{api,store,models}.py`, migration 0007 | `walk_session`, `walk_fix`, `walk_facts`; the row lock of a session | start, upload a batch, finish, read | uploads racing finishes, repeated and contradictory batches, a finish asked again with another end, a read straddling a finish | nothing acknowledged is lost, raw positions do not outlive the finish, every finish answers the same | `WalkServer`, `WalkServerProperties`, `WalkServerProofs` |
| **Walk upload and recovery** `android/.../walk/{WalkUploader,WalkApi}.kt`, `scripts/verify/walk_bundle.py` | none that survives; which walks still lack facts is asked of the server | the phone's one upload, `push` | two senders at once, lost requests and answers, handlers that go on after their caller left | whoever finishes it, the walk is derived whole; recovery gets every walk there | `WalkUpload` on `WalkServer`, `WalkServerProofs` |
| **Walk recording on the phone** `android/.../walk/{WalkTrackingService,WalkFixWriter,TrailRecorder}.kt`, `walk/store`, `location/LocationTracker.kt` | recorder state, current session, counters, flow buffer, writer queue, Room, stop coroutines | start, pause, resume, stop, accept a position, write, flush, upload, die | a main thread, a worker and a writer; buffered positions; failing writes; process death; a stop under way while the next walk starts | Room holds a beginning of the walk, a stopped walk is sent whole, a closed walk stands | `WalkRecording`, `WalkRecordingProperties`, `WalkRecordingProofs` |
| **Spatial diary** `app/features/spatial_diary`, migrations 0023, 0028, 0030 | offers, interactions, attestations and their corrections, pins, published journals; row locks of offers and pins | offer, note as seen or dismissed, attest, correct, publish | every check reads a repeatable-read snapshot taken before the wait for a row lock; the retry of a correction | a moment becomes one memory, its corrections one chain, what was acknowledged is stored | `SpatialDiary`, `SpatialDiaryProperties`, `DiaryProofs` |
| **Memory places** `app/features/territory/memory_place.py`, migration 0024 | places and the pins that belong to them | create from seed pins, link one more pin | the same snapshots; several unique keys taken one after the other | a pin belongs to one place, a place keeps its seeds, no calls wait for each other in a circle | `MemoryPlace`, `DiaryProofs` |
| **Place ingest** `app/ingest` | facility rows with derived verdicts, source records, links, a watermark per source | full and incremental loads, details, link rebuild, derivation, register synchronisation with paging | loads and derivations beside each other, watermarks that may move back, pruning, updates that are published late | the product follows what was listed, nothing falls behind the watermark, no load mixes a text with another text's verdict | `FacilityIngest`, `MoisSync`, `IngestProofs` |
| **Location ownership** `android/.../map/LocationFeedCoordinator.kt`, `LocationOwnershipPolicy`, `walk/WalkTrackingService.kt` | which feed the screen uses, what is reserved for the service, what the service publishes | foreground, replay, start, pause, resume, stop, positions, feed and storage failures, destruction | publications of worker threads that arrive late, intents under way while the service is destroyed | the screen subscribes by the policy, one subscriber once the recorder's state was seen | `MapLocation`, `MapLocationProperties`, `MapProofs` |
| **Searches of the map screen** `android/.../map/MapViewModel.kt`, `PlaceDiscoveryController`, `PlaceJourneyController` | generation numbers, the last requests, what is shown | search, locate, pick a place, retry, clear | answers that arrive after they were superseded | what is shown answers what was asked last; nothing is waited for in vain | `MapSearch`, `MapProofs` |
| Usage gate and metered providers `app/usage` | windows of a ledger and a route cache, in memory | consume, reserve, route | an await between looking a route up and storing it | – | no |
| Local season game `territory_game/{season,first_season_rewards}.py` | one serialised game state | mark, certify, finish | sequential; long command sequences | – | no |
| Walk facts, curve, encounters, paint, capsule | none | pure geometry over a list of positions | floating point | – | data in `WalkServer` |
| Territory sites and contract, territory layers | none, or derived | reads | – | – | no |
| Place search, discovery, intent, storyboard, scenes, journey engine, map providers, context plane, geo, profile | none shared between requests | pure planning, wording, calls of vendors | – | – | no |
| Tools, scripts, migrations, documents | files | – | – | – | the parts used above |

How they meet: the phone's recorder writes to Room and, when a walk is stopped,
hands it to the uploader, which calls the walk endpoints; `walk_bundle push`
sends the same walk through the same endpoints from an export.  The walk
endpoints derive facts in the commit that purges the positions; statistics
append walks and the policy's ownership changes to their streams within the
transactions that make them; the diary refers to finished walks and its places
to the pins it made.  On the phone the map screen and the recorder share the
location source, and the searches start from the positions of either.  The
ingest jobs fill the tables that the searches read.  Claims reach the ownership
policy from a host service that is not in the repository: how it calls is taken
from `policy_ports.py`, `policy_service.py` and the tests.

## The plan

Done, in this order: the policy's pure rules, the transactions around them, the
ledger they implement; the walk endpoints, the upload composed with them, the
recording; the diary; the statistics; memory places; ingest; the map screen.
Each has its run and its properties, and the proofs follow in the order of the
[proofs](#the-proofs) section.

Every invariant and every action property of the passing runs is a theorem by now, and so is the
refinement (see [the proofs](#the-proofs)).  Left for later: the usage gate and the local season
game, which are sequential and lose least by waiting.

## The territory policy

`TerritoryPolicy` translates `policy.py`: settling a score up to an instant,
releasing and acquiring a site, the reward, the protection after a
certification, the window and the validations of a claim, the bonus key, the
plan of a claim and the plan of the finalization.  Everything is an operator
over records (`Score`, `Owner`, `SiteRow`, `Candidate`) as in the code; `Rules`
is a constant record, so one run checks one rule set.  Time is in ticks and the
multiplier's basis points are scaled from 10 000 to 10: rates stay integers.

`PolicyService` translates `policy_service.py` and `postgres_store.py`.  Its
variables are the tables of migration 0033, the lock on each season row, the
advisory lock of `create_season`, and the private state of each worker's
transaction: `job` (what it was asked), `pc` (the statement it is at), `snap`,
`scores` and `plan` (what it read and decided).  A claim runs

    lock_season -> load -> decide -> save        (apply_ownership_in_transaction)

with its refusals (`UnknownSeason`, `LoadFails`, `Refuse`, `SaveFails`) and the
replay of a stored receipt; a registration, a finalization, a projection and a
season creation run likewise.  `Crash` ends any transaction anywhere.  Three
simplifications, all of which the database justifies:

- All writes of a transaction are made by its last step.  Nobody else sees them
  before the commit, and the transaction reads none of them back.
- Rows of sites and accounts are only locked under the lock of their season, so
  their own locks are never contended and are left out.
- The clock is read once per decision (`now_ms`), after the lock is held, and
  may have moved, or been set back, since any other step.

Anyone may submit any candidate at any time and again after any outcome, as a
caller must that lost its reply.

`OwnershipLedger` is what the rest of the system may rely on: a season opens
and closes once, and each event is decided at most once in one atomic step that
moves at most one site and credits only the claiming pet.  `ImplementsLedger`
maps the tables to it (`holder` from site rows, `decided` from receipts, `points`
from accounts), whereby every step inside a transaction is a stutter.

The properties are in `PolicyProperties`, each with its meaning.  Most compare
what the code maintains incrementally with a reference computed from the table
of events alone: `ScoresFollowHistory` integrates, tick by tick, who held what,
counts the receipts and ranks by both.

## The statistics

`ActivityProjection` is the pure half: the replay of a season's stream into
holding periods (`Replay`, with everything `project_territory` refuses in
`Fits`), the contribution of a walk's selections (`Selectable`,
`Contributions`), and the totals read from them (`Summary`).

`ActivityStatistics` puts it beside the territory policy, of which it keeps what
a stream tells apart: who owns a site, since which event, and whether the season
is closed.  A step is the part of a transaction between two waits for a lock.
A producer decides under the season's row lock (`Claim`, `Finalize`, `Capture`),
waits for the stream's and then appends and commits, or is refused together with
the policy's writes (`Commit`).  A writer without statistics fails on the deferred
trigger of migration 0034 once the season has a stream (`CommitPlain`).  `Activate`
opens the stream, from now or from the start of a season in which nothing has
happened; `Select` moves the head of a walk's analyses, and with it the session row
of its client.  A runner lists what is behind its checkpoints, locks the generation
and the stream, and replaces checkpoint and rows in one transaction (`Refresh`); a
stream that cannot be replayed, an unknown generation or an unknown stream ends
the whole run (`run_pending` stops at the first error).  A reader takes the
checkpoint and the rows in two statements under the generation's lock.  The clock
may show anything up to `MaxTime` at any time.

## The walk

`WalkServer` has one handler per call, each at a place (`at`): `arrived`, waiting
for or holding the row lock of its session, between the two reads of a `GET`,
`answered`.  Uploads and finishes lock the session first (`lock_session`), so a
batch is decided and stored in one step (`AppendFixes`), while a finish is two
steps, because it awaits a context provider between reading the positions
(`ComputeFacts`) and storing what it derived (`Finalize`).  A read takes no lock
and its two statements are two steps.  Facts are represented by what they were
derived from: the dog, the times and the set of positions; all further
geometry is a function of these.

`WalkUpload` composes two clients with that server.  The phone sends a walk once;
`push` first asks whether the server has facts.  Both send start, batches of
`BatchSize` and finish, one at a time, and stop at the first answer that they
do not accept, which differs between the two (`Proceeds`).  A client may give up
on a call that is still served.  `pull`, `fetch` and `clear` of the tool copy and
delete files and are left out.

`WalkRecording` has the commands of the main thread, the collector of positions
(`AcceptLocation` under the session lock, `AddToTrail` outside of it), the
location source, the writer's coroutine over its queue and Room, and for each
stopped walk the coroutine that flushes, reads, uploads and calls `stopSelf`.
`TrailRecorder.add` is two steps since it runs on another dispatcher and
writes back a copy of what it read.  `ProcessDies` clears everything but Room.
History variables (`handed`, `lost`, `sent`, `died`, `begun`, `resumes`) only record.
The drawn segments of the trail, `deleteSession`, which nothing calls, and the
notice of a storage failure are left out.

## The diary and its places

`SpatialDiary` has one handler per call.  `Open` is the first SELECT: it fixes the
repeatable-read snapshot (`view`), and a call about something unknown, or one
that repeats what is stored, is answered from it.  The others wait for the row
lock of their offer or pin (`Lock`); offers and journals lock nothing.  Then every
check of the handler is made on the view, however long the wait was
(`Refuse`), while an insert meets the keys that were committed meanwhile
(`Clash`): PostgreSQL raises 40001, or 23505 for a constraint that `ON CONFLICT`
does not name.  A correction is then retried once on a new snapshot; all other
calls fail with 500.  Since nothing updates or deletes these rows, a row lock
that was only waited for raises no error.  Insert and commit are one step: a rival
for the same key waits for the commit.  The code that answers a conflict
after `ON CONFLICT DO NOTHING` by reading the row again can therefore not be
reached under this isolation: it would have to see a row the snapshot hides.
Content is a value that is equal or not, a moment is a walk and a source, and
all walks of the requests have their capsule.  Reads change nothing and are left
out, as is `expired`, which no code writes yet, and the limit of entries in a
journal.

`MemoryPlace` has the two writes about places.  Each is one repeatable-read
transaction whose snapshot is that of its first SELECT (`TakeView`), with every
check made on it.  It locks no row; its inserts take unique keys in turn, one for
the place and one per member, and an insert waits for the end of a transaction
that has inserted the same key before it.  `ON CONFLICT DO NOTHING` then answers 409
for a conflict the snapshot shows and 500 for one it hides (`LoseKey`).  Seeds are
inserted `ORDER BY pin_id`, which is what `NoCircularWait` is about.  Pins only
appear, and a call that misses a new one answers 404, so they are constants;
geometry is what it decides: which circles touch (`Near`) and which seeds lie too
far apart (`Scattered`).  Deletions, which nothing under `app/` makes, and the
reading of biographies and lists are left out.

## The ingest

`FacilityIngest` has the KTO list with its details, the KCISA snapshot and the two
derivations from the stored text, as processes whose transactions run at READ
COMMITTED.  Every written row stays locked to the end of its transaction and nobody
else sees it before, so statements up to one that reads what others write are one
step: reading one page of the KTO list (`ReadPage`), a load's writing of all its rows
(`StoreList`, `StartKcisa`), a detail, the DELETE of `rebuild_links` with the links it
sees, the rest of the rebuild, the commit.
A derivation selects a batch and updates it in two steps, with the pause in between
in which a load may replace the text.  A crash rolls back, which stands for a lost
deadlock as well.  Any mixture of sources and derivations may run, but one job per source at a
time: nothing in the code forbids two KTO runs beside each other, they are left out
because a load is a command somebody starts (`python -m app.ingest.kto`), one after the other.

What KTO lists is external.  `listing` is what it says of an item and `list` the order of
the pages.  Before, after and between the pages of a run an item may change, enter, leave
and come back as it was, each time with the whole list in another order.  All that is assumed of a
modifiedtime is that a change of an item bears a later one than the item had: items may share
one, and a change may bear one that the watermark has passed already.

So a run can miss what the list says.  `behind` collects the items that are on a page the
run has read, and not as it read them; when the run commits a watermark that such an item
does not exceed, the item is `overtaken`, as is one that comes or changes with a stamp the
watermark has reached.  Both are history and steer nothing.  The next incremental run then takes
an overtaken item for old, and stores its record but not its row.  `ProductFollowsListing` says
of every other item that the product has it as listed or the next incremental run applies it,
and lets an overtaken item in again as soon as a run has brought it.

`MoisSync` is the synchronisation of the licence registers: full, or incremental
since the watermark less an overlap, fetched page by page from a list that changes
meanwhile, and stored in one transaction, watermark included.  Only row locks keep
two runs apart.  The register (`licence`) is external: an update appears up to
`MaxLag` days after the instant it bears, a run takes up to `MaxRun` days, and the two
together are at most the overlap, which is what the overlap is there for
(`OverlapAssumption`).  That a register lists its licences in a stable order is assumed
too.

## The map screen

`MapLocation` is about who subscribes to the phone's location: the screen
(`LocationFeedCoordinator`, `MapViewModel`) or the service
(`WalkTrackingService`).  Intents and all of the screen run on the main thread, one
at a time.  What the service publishes on the main thread the screen collects at once,
unless it has been woken already; what its workers publish (`AddReturn`,
`FeedProblem`, `StorageFailure`) waits in `publishing` and arrives later.  `stopSelf` is a
`DESTROY` among the intents: those behind it go to a new instance.  The activity may be
finished and opened again (`Recreate`); the death of the process is `Init` again and left
out.  `Owner` is the policy and `Reconciled` what the coordinator does about it.

`MapSearch` has the three owners of a search on the screen.  All handlers run on the
main thread; between the start of a position, a search or a route and its answer the user
does as they like, and answers come in any order.  The user picks only from what is
shown.  Messages, the camera, layers and the purpose of the map are left out, as is the
view model being cleared, which cancels what is under way.

## The runs

Times are for two workers on the machine the models were written on.  Components that
share no rows are checked in one run: a variable `part` says whose behaviour it is,
and the other component stays at its initial state (`diary`, `ingest`, `map`).

| Run | Instance | States, time | What it shows |
|---|---|---|---|
| `policy_races` | 2 workers, 2 pets, 2 sites, 4 events with one version each, season of 1 tick, clock to 2, fair | 2 min | No interleaving of claims, retries, crashes and the finalization breaks the counts, the site histories, the receipts or a closed season; the service implements the ledger; every transaction ends. |
| `policy_accounts` | 1 worker, 2 pets, 2 sites, 5 candidates, draft rules, season of 4 ticks over two days, clock to 6, set back once | 46 s | The bookkeeping of a whole season: scores against the integral, tallies against receipts, the daily bonus, protection, ranks; the season can always be closed. One worker is enough: the proofs show that the lock leaves nobody a second view. |
| `policy_seasons` | 2 workers, 3 seasons in 2 scopes, shared and disjoint sites, imports | 13 s | Creations race each other and claims; attempt ids come back in a later season. |
| `statistics` | 2 workers, 1 runner, 1 generation, 1 site, 2 pets, one walk with a correction and a withdrawal, clock to 3 in any order | 634 000, 65 s | The stream is the policy's history whatever raced, confirmed totals are final, readers see whole projections, and what could be appended when it was decided is. |
| `walk_server` | 3 handlers, 10 requests over one walk | 823 000, 49 s | Overlapping, repeated, contradictory and simulated uploads against rival finishes and reads, with handlers aborted anywhere. |
| `walk_upload` | 2 clients, 2 handlers, 3 positions in batches of 2, 3 pushes, 2 faults, fair | 67 000, 15 s | Whole walks whoever finishes them; recovery. |
| `walk_recording` | 2 walks, buffer of 1, 2 positions, 1 resume, 1 failed write, 1 death | 2 980 000, 87 s | The recorder, the writer and overlapping stops. |
| `diary` | 2 handlers, 14 requests over 3 offers and one pin, 3 revisions, clock of 2 readings in any order; places: 3 handlers, 14 requests over 5 pins and 2 ids | 1 346 000, 2 min | One memory per moment, one chain of corrections, acknowledgements kept, retries decisive; a pin in one place, seeds kept, no circle of waits. |
| `ingest` | two KTO items on pages of 1 with stamps 0 and 1, two KCISA rows of their name, two texts, the restriction derivation, two jobs at a time; two register runs over two licences, pages of 1, overlap of 2 days, a lag and a run of 1 day each | 1 927 000, 2 min | A KTO list that changes and moves between the pages of a run; loads, derivations and register runs in every overlap, with crashes. |
| `map` | 2 intents, 1 fix, 1 stop under way; 2 positions, 2 searches, 2 routes | 2 470 000, 2 min | Ownership of the location against the service's late publications; searches answered in any order. |
| `walk_open`, `diary_dismissed` | smaller | – | See [below](#where-the-code-and-its-documents-part). |

Why these bounds: a claim touches one site and at most two accounts, so two
pets and two sites hold every relation between rows, and the second site is
there for counts above one and for the bonus on several sites; four events
allow a mark, its certification, a rival's photo and a claim elsewhere; with two
workers one always races another, and a third could only wait on the same lock.
Three seasons are the least at which one follows another in a scope while
a third scope wants its site.  Protections and days are one and four ticks
against a season of four, so claims fall on, before and after each boundary.
In the statistics one site with two pets has takeovers, and a walk that is
corrected and withdrawn is every kind of selection; times beyond the season's end
are there for the cut that closes it.
Three handlers are an upload, a finish and a third that waits for either; three
positions in batches of two have a middle and a last batch.  For recording,
two walks and two positions let one be buffered while another is being added
and the next walk already runs.  In the diary a handler repeats any number of calls
while the other one holds an old snapshot, so two handlers reach every degree of
staleness; three revisions are a chain with a middle and one correction too many;
a circle of waiting places needs two calls, a third waits for the middle.
The ingest run has two parts.  In `lists` two KTO items stand on pages of one, so that a
change, a leave or another order between the two pages tears what a run reads: an item is read
twice or not at all, hidden ones are pruned by a full run, and one falls behind the
watermark of the other; KTO runs follow each other there and ask for the details of one item.  In
`facilities` one item stays listed and shown, its detail may disappear with a change, and every other job joins in; its row and
its two matches are stored, pruned and linked in every order the loads allow, the two files
differ in what they hold and in a text, and two of the jobs at a time are every pair that could race.
The proofs have no such parts.
The register has an update of a licence, one without coordinates and one that
comes before it in the list, so that pages move; larger files, series and other splits of
the overlap were checked while the models were written.
Clock, faults, deaths, failed writes, pushes, positions, resumes, changes of the
lists, days, intents and answers under way are bounded by the constants `MaxTime`,
`MaxSetBacks`, `MaxFaults`, `MaxDeaths`, `MaxFailures`, `MaxPushes`, `MaxSamples`,
`MaxResumes`, `MaxStamp`, `MaxBusy`, `MaxDay`, `MaxIntents`, `MaxFixes`, `MaxStops`,
`MaxLocates`, `MaxSearches` and `MaxRoutes`, each a guard of the action that would go on.
Workers, handlers and walks are interchangeable, so they are symmetric wherever no
liveness is checked.  `CHECK_DEADLOCK FALSE` is given for the upload, the recording
and the statistics, which end when the walks, the claims and the bounds are used up.

Fairness.  `FairSpec` of the policy: a connected transaction executes its next
statement (`WF` on its own steps), and PostgreSQL queues the waiters of a lock, so
one that waits is served although others come and go (`SF` on `LockSeason` and
`AdvisoryLock`).  Nobody is assumed to submit, and crashes never have to happen.
`FairUpload`: the event loop and the client go on (`WF`), a waiter of the row lock
is served (`SF`), and whoever recovers walks runs `push` again on each (`SF`);
the last is a person's doing, and `EveryWalkIsDerived` says no more than that it
then works, with more pushes than faults.  All other runs check safety and assume none.

## The proofs

Every theorem is about the specification of its component with all constants left open:
any number of workers, handlers, pets, sites, walks, requests, any rule set, any bounds.
Each rests on an inductive invariant that says which reads are still true and who may
change them.

**`PolicySafetyProofs`** (the policy's safety).

- `TypeCorrect`: `TypeOK`.  It is inductive only with `WorkOK`, which says for each
  place of a transaction what its private variables look like, for example that a worker
  at `save` has an ownership plan and the accounts of everyone it affects.
- `OneLockHolder`: `lock[s] = w` exactly for the worker that is past `LockSeason` in
  a transaction on `s` and not at its end.
- `ReceiptsStand`: `RepliesStand`.  A save requires the event to be without a
  receipt *now*; the replay was checked under the same lock.
- `CountsAlwaysMatch`: `CountsMatch`.  The counts agree after a save because the plan
  moves them by what the new row adds and the old row gave (`PlanFits`), because
  the rows and accounts it was made from are still those in the tables
  (`SnapshotFresh`), because only the holder of a season's lock writes to it
  (`LockHeld`, lemma `Undisturbed`).  These three conjuncts are the
  strengthening, `PolicyInv`; the lemmas about cardinalities are from `FiniteSetTheorems`.
- `ClosedForGood`: `SeasonStaysClosed`, from the same invariant: the time of a plan
  waiting to be saved is inside the window, and a save needs the season active.
- `SeasonsApart`: `SeasonsStayApart`.  The advisory lock has one holder, so what it
  found free is free when it inserts, and no row of an attempt is rewritten.

**`PolicyHistoryProofs`**, the ledger: `ServiceIsTheLedger` proves the refinement `ImplementsLedger`.  A
plan fits the atomic step it stands for from the moment it is made (`PlanPays`), and
`PolicyInv` keeps the rows it was made from.  So a save is `Take`, `Certify` or `Keep`,
inserting a season is `Open`, finalizing it is `Close`, and all else stutters.

The same module, the history: `ChainsOfSites` (`SiteHistoryIsAChain`), `OneBonusADay`,
`OwnersAreProtected` (`ProtectionHolds`) and `SeasonsCanClose`, which says of every
reachable state that finalizing would succeed.  A waiting plan was made from the row still
there, that row is the last of its chain, and its owner's account was settled when it
was written, so the wall clock cannot take a plan behind it (`HistoryInv`).  Bonus keys
are reserved under the lock; a protection is bound by the current owner or an already later
change; accounts are settled inside the window.

The same module, the scores: `ScoresAreHistory` (`ScoresFollowHistory`).  The property sums,
instant by instant, what the table of plans says a pet held; the code keeps running
totals.  The invariant (`ScoreInv`) says that each account is what that sum gives up to its own
last settlement (`Accrued`), that since then the pet holds what the row counts (`StillHolds`),
that tallies and points are those of the plans and receipts on record, which are finitely many
(`Tallied`, `FewRecords`), that a plan waiting to be saved keeps all of it (`Planned`), and that
the standings of a closed season are its accounts settled at its end (`Ranked`).  A save then adds to the sum
exactly the interval the rules settle, and to a new owner's row what no earlier instant had.

**`StatisticsProofs`**.

- `ReadersSeeWhole` (`ProjectionsAreWhole`): a stream only grows at its end, so what was
  published from its first changes stays their projection, and the lock of the
  generation keeps a reader's rows in place (`StatInv`).
- `DecisionsStand` (`DecisionsAppend`): while a claim waits to be appended it holds the
  season's lock, and every producer of that stream would need it.
- `StreamIsThePolicy` (`StreamFollowsPolicy`): the replay of the stream, change by change, has
  the policy's owners in its open periods (`Mirrored`), a waiting claim fits it, and the
  owned changes are the policy's events since the stream began (`Told`).  The replay is a
  recursive function; that a longer stream's replay extends a shorter one's is shown by
  the least counterexample (`WFMin`) instead of the library's induction.
- `TotalsAreFinal` (`PublishedTotalsAreFinal`): the periods of a replay never overlap at a
  site and, at every instant of the season since the stream began, tell the owner and the
  certificate that the policy's events tell (`Tells`, in `SeasonTold`).  A claim, a
  certification, the close and a stream's beginning keep that (`ChangeTells`, `CertifyTells`, `CloseTells`,
  `BeginTells`); a checkpoint's rows are such a replay, cut at a confirmed time, and a later event lies at or
  after that time, so what the rows tell stands (`RowsStand`).  A pet's time in milliseconds is then the number of
  instants its periods cover (`HeldIsTold`, `CertifiedIsTold`).  The invariant is
  `TotalsInv`; TLC checked it on the run's instance (634044 states) before it was proved.

Sums.  `SumFunction` picks one element after the other with a recursive function; neither
module uses induction over it.  A sum of natural numbers over a finite set is the cardinality of
the set with one pair per unit of each summand (`SumIsCount`), shown by the smallest subset for which
it would fail, and from there on sums are compared by bijections, differences and unions
of finite sets.

**`WalkServerProofs`**: `ServerTypes`, `NothingAcknowledgedIsLost` (`FixesEndInFacts`),
`WalksAreCoherent` (`StoredWalksAreCoherent`), `OneStoryForAll` (`AnswersAgree`).  A handler
past `LockSession` holds the row (`LocksHeld`), so what it decided on is what is stored when
it writes (`Handled`) and every other handler at work is at another walk.  That a batch takes
the next numbers of reception, without gaps, is an injection on a finite set.
`UploadsAreWhole` (`UploadedWalksAreWhole`) is about `SpecUpload`: a finish is sent only
after everything recorded was acknowledged (`UploadInv`); the batches join because they are
windows of one ranking, and an acknowledged position is not lost, by the server's part.

**`WalkRecordingProofs`**: `RecordingTypes`, `StopsAlwaysServed` (`StopsAreServed`),
`RoomStaysFaithful` (`RoomIsFaithful`), `ClosedForGood` (`ClosedWalksStand`).  The commands of a
walk are in the writer's queue in the order open, positions, close, barrier, and Room has
what came before them (`RecordingInv`); a step at one walk leaves the others' commands in
place or one place further ahead (`Aside`); a walk whose process died gets nothing more.  That
Room has the numbers 0 to n - 1 follows since what is there is closed downwards and finite.

**`DiaryProofs`**: `DiaryTypesHold`, `MemoriesStayWhole`, `AnswersStayTrue`.  Whatever
is added to the history of a pin supersedes its head, so a call that still sees the head of a
history sees all of it (`Continues`) and the unique key on the superseded row keeps a chain a
chain, although every check is made on an old view; a correction that lost its key is refused
or finds a newer head.  `PlacesStayWhole` and `SomebodyMoves` (`NoCircularWait`) are about
`PlaceSpec`: open inserts hold distinct keys, and who waits for a member waits for a
transaction that is at a larger pin (`WaitsClimb`), so in every waiting group one waits
for nobody of it, by well-foundedness on the finite set of pins.

**`MapProofs`**: `TypesHold`, `PolicyIsApplied` (`ScreenFollowsPolicy`), `ReservationsHold`,
`OneSubscribes` (`OneSubscriber`): every event rewrites the screen and reconciles it, which
restores `ScreenInv` and applies the owner of the walk it was given.  `ScreenIsCurrent`
(`ScreenShowsWhatWasAsked`) and `NothingIsAwaitedInVain` (`WaitsHaveACause`) are about
`SearchSpec`: the call with the newest generation carries the last request, and every older
answer is dropped.

**`IngestProofs`**: `ProductStaysTrue` (`ProductFollowsSources`) and `VerdictsStayApart`
(`OnlyLateVerdictsMix`) are about `Spec` of `FacilityIngest`.  What the tables say of the
listing (`TablesTold`: rows follow records, records are no newer than the listing, and what is listed
up to the watermark is stored unless it was overtaken) also holds of what a load has written and not
committed, read with the rows and the watermark there will be after its commit and with what is behind the run
(`DraftTold`).  While a run still reads, what it holds of a page is the listing wherever nothing
fell behind it, and what it will take for old is stored (`ListOK`); no reordering disturbs that, since
every item that lands on a page already read is behind.  Another load's rows are its own source's, and the row locks keep
derivations out (`Kept`: a verdict that is carried over still stands beside the same text).  A
load that nobody crossed sees all there is when it rebuilds the links, so what it commits is
`Matches`.  `NothingStaysBehind` (`NothingFallsBehind`) is about `MoisSpec`.  The invariant `SyncInv`
speaks of updates that were out before a run began (`Before`): what a run does not ask for is
stored already, and for everybody at work; of what it asks for, all it has not got stands
on later pages, because updates only push a licence back in the list (`RankGrows`, `PageFits`).
An update that is not before all runs at work is inside the overlap of every watermark they can leave.

Assumptions.  They are those of the modules, named there and evaluated by TLC in the runs: the
rules' numbers are natural, a season has a positive length, sites, seasons and pins are
finite, requests, candidates, imports, claims, selections and versions of licences have their
types, what the clients of the upload send is among the requests, the register's lag and a
run's length fit in the overlap, bounds are natural, and `None`, `Nil` or `Free` is none of the
values it stands beside.

Only model-checked:

- Liveness (`TransactionsEnd`, `EveryWalkIsDerived`): the prover has no `ENABLED`.

## Where the code and its documents part

Two runs show a disagreement.

- `walk_open`.  A stop launches a coroutine that flushes, uploads and calls
  `stopSelf` (`WalkTrackingService.kt:177`).  The walker may start the next walk
  meanwhile; `stopSelf` then destroys the service under it.  The walk stays open in
  Room although the process lives, while the comments (`WalkFixLog.kt:27`,
  `WalkTrackingService.kt:226`) reserve open sessions for the death of the process.
- `diary_dismissed`.  A dismissal and an attestation of one offer that are both past
  their first SELECT lock it one after the other; neither sees the other's row and
  both are stored, against
  `docs/decisions/2026-09-01-spatial-diary-episode-pin-v0.md:86`.

The following was met while modelling and is part of the models, without a run of its own.

- `TrailRecorder.add` writes back a copy of the snapshot it read before the main thread
  stopped the walk, so the recorder is `RECORDING` again without a session, against
  `WalkTrackingService.kt:52`: the screen shows a running walk that stores nothing, and the
  next start is ignored.  Nothing stored suffers, which `RoomIsFaithful` and
  `ClosedWalksStand` say.
- A position measured before a pause but collected after the resume is filed under the
  later chain; `ChainsSplitAtPauses` states the sound half.
- `push` that asked before the phone's finish was committed has a batch refused with 409
  although the tool's notes call every resend safe (`walk_bundle.py:22`), which ends that
  push and loses nothing.
- A journal or an offer put twice at once with the same content is stored once, but the
  second caller is told 500 instead of being given the row (`published_journal.py:125`),
  until it asks again.
- `put_memory_place_membership` never checks `MAX_PLACE_MEMBERSHIPS`, so a place can outgrow
  it, and then reads and the repeated put of the place answer 413.
- `facility_store.py:12` says that the reset of the verdicts keeps a row from mixing an
  old verdict with a new text; a derivation whose text is replaced between its SELECT and its
  UPDATE (`pet_axes.py:76`, `restrictions.py:96`) leaves just that, and without `--all` no later
  run picks the row up.  `OnlyLateVerdictsMix` says that nothing else does.
- A KTO detail answered "no data" leaves the text of an earlier detail in the product.  After
  two loads that overlapped links may be stale or missing until the next load.
- The KTO list is fetched page by page (`kto.py:81-101`) and the watermark is the latest
  modifiedtime the run has applied (`kto.py:244-248`).  An item that changes on a page the run has
  read already, before another that it still reads, is passed by: the next incremental run
  refreshes its record, which holds the whole list, and skips its product row, which stays old,
  or missing, until the item changes again or a full run comes.  An item that moves to a page
  already read is not seen at all, and a full run then removes it.  `ProductFollowsListing` says
  that nothing else is missing.
- The watermark of a register may move back, with the stored rows it stands for.  An update
  stamped far in the future would make later incremental runs skip, and a licence that leaves the
  list while a run pages it can hide another from that run until a full run that runs alone.
- A late `PAUSED` or `OFF` published by `acceptLocation` (`WalkTrackingService.kt:201`), or a
  collection a worker has woken, lets the screen's tracker and the service subscribe together for a
  moment, against `docs/contracts/android-location-ownership.md:3`; `OneSubscriber` therefore
  speaks of a screen that has seen what the recorder says.  By the same late publications a
  replay in the foreground can meet a recording, which the contract calls unreachable.  A
  coordinator that owns the device without a source and then sees `PAUSED` gets the source but
  does not start (contract line 47), so only the replay half of "the owner runs" is stated.
- A second walk killed by `stopSelf` leaves `PAUSED` published; a resume then reserves the
  location for a service that ignores it.  A `RECORDING` conflated with the `PAUSED` after it leaves
  the reservation of the start until the next recording or error.
- A position request that was superseded and fails still shows its error over good results; one
  that succeeds follows the device again after a pinned search; with a mock position
  `locateAndSearchPlaces` searches around the last real one; while a search waits for its
  position an older request that ends turns the indicator off early.

## What is not modelled

Parts without state shared between actors (geometry, search, wording, read
models) are left out: they are functions over one request's data, floating point
for the most part, which TLC does not do.  They are most of the repository's lines,
together with contracts, tables of rules and tools.  The usage gate counts in the memory of
one process under one lock whose bodies await nothing, and its route cache costs at most an
extra call; the local season game is a single-threaded command machine kept beside the
policy for experiments.  Both are left out.

Of the modelled parts, the following is abstracted: payloads of positions (a value that is
equal or not), facts (what they are derived from), identifiers and names, HTTP formats, logging,
the notification and the drawn trail; parsing of the sources, the medical links and the site import
of the ingest; session rows of games in the statistics, which share nothing with those of
walks; the deletion of walks and pins with its cascades; progress, biographies and lists, which
only read; the death of the phone's process for the map screen, which is its initial state again.
