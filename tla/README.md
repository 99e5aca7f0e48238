# TLA+ models of tweets-2-bsky

tweets-2-bsky mirrors posts of X accounts, and posts that reach it through an
ingestion API, to Bluesky accounts. Posts wait in a SQLite queue; *runtimes* (server
processes that share the database) claim them per destination account, deliver each as
a thread of records and keep durable checkpoints, so that a post is published once
whatever crashes, times out or is repeated in between. Around this core are the sweeps
that find posts, digests, the jobs that write a profile, a configuration file with
optimistic locking, users and their sessions, backups, the rotation of keys, updates
and a dashboard. These modules model those parts, TLC checks them on small instances,
and TLAPS proves their most important properties for every value of the constants.

Source paths start at the repository's root; `PROJECT.json` writes `src/src/...` for
what is `src/...` there, names the lines behind every definition ("map"), and lists
components, runs, mutants, hazards and theorems.

## 1. Inventory

### 1.1 The delivery core

**Destination leases** (`src/db.ts` `destinationLeaseService`). One row per
destination with `owner_id`, `expires_at`; `acquire`, `renew`, `release`,
`settleWithOwnership`. *Hard*: a lease expires under a process that stands still; a
restarted process finds its own old lease in its way. *Correct when*: at most one live
owner, and who lost a lease does not act on what it read under it.

**Post queue and queue worker** (`postQueueService`,
`src/services/queue-worker-service.ts`). `post_queue` rows and, per process,
`activeDestinations`, `controllers`, `lostOwnership`. *Hard*: choice and claim of a
group are two transactions; a batch settles after its deadline, during a shutdown or
after a successor took over; rate limits are free of charge, but only for a day.
*Correct when*: no claim is forgotten, none is charged that was not tried, every row
settles in the end, and only the owner settles it.

**Thread delivery and checkpoints** (`processTweets` in `src/index.ts`,
`deliveryCheckpointService`, `src/deterministic-rkey.ts`; for generic posts
`src/services/normalized-delivery-service.ts`). *Hard*: a request may be lost, answered
late or fail after its record exists; text and media may render differently the next
time. *Correct when*: chunks are published once, in order, in one rendering, and the
history (`processed_tweets`) says migrated only of complete threads.

**Operator actions, runtime lifecycle, Bluesky sessions**: cancel, clear, retry and
override; recovery, SIGTERM with a drain, kill; one login per batch.

### 1.2 The parts around it

| Part | What makes it hard | Correct when | Module |
|---|---|---|---|
| Digest jobs (`services/digest-worker-service.ts`, `digestJobService`) | cancel or arm in the middle of a run; partial publication and a retry over other entries | a delivered entry is in a whole digest, and in one only | `DigestJobs` |
| Scheduler and backfill jobs (`services/scheduler-service.ts`, `backfillJobService`) | requests in memory, rows and claim tokens of several processes, deferral of sweeps | begun work is kept, settles, is done by one process; sweeps run in the end | `Scheduler` |
| X rate governor (`x-rate-limit.ts`) | callers asleep on slots while cooldowns begin | requests keep their gap, and stop during a cooldown | `XRateGovernor` |
| Source sweep, initial import (`pipeline/*.ts`) | sweeps cut short, overlapping workers and backfills | old posts stay out of a new route, posts arrive once | `SourceSweep` |
| Adaptive polling (`adaptive-polling.ts`) | a budget smaller than the number of due sources | a due source gets its turn | `PollingBudget` |
| Ingestion (`ingestion.ts`, `server.ts`) | a crash between any two statements; a retry after it | a submission arrives once, its content too | `Ingestion` |
| Text and media (`index.ts`, `post-transform.ts`) | fetches, uploads and rewriting that fail | nothing is cut off without a link; chunks say what the text said | `PostRendering`, `PostSplitting` |
| Profile mirroring, pins, deletion of all posts (`profile-mirror.ts`, `destination-maintenance.ts`) | jobs that read, await and replace one record | what is recorded as mirrored is shown; forgotten posts are gone | `ProfileMirror` |
| Configuration file (`config-manager.ts`) | saves after an await, crashes between the renames, damage | no accepted change is lost | `ConfigStore`, `ConfigLog` |
| Documents (`config/*.ts`) | merging and renumbering in migrations and imports | routes lead where they did | `ConfigTransfer` |
| Users and sessions (`server.ts`) | handlers that await bcrypt between reading and saving | a token does not outlive its password | `UserSessions` |
| Bluesky accounts and blocks (`services/bluesky-account-service.ts`) | validations that overlap takedowns and relinking | a post is mirrored once; only new evidence lifts a block | `BlueskyAccounts` |
| Backup and restore (`backup-service.ts`, head of `db.ts`) | a restore staged by one process and applied by the next start | nothing is lost, nothing revoked comes back | `BackupRestore` |
| Key rotation (`encryption-rotation.ts`) | two stores, one transaction | no credential ends under a key nobody has | `KeyRotation` |
| Updates (`update.sh`, `startUpdateJob()`) | two updates, a trap, a stash, a re-executed script | one at a time; edits are kept | `Updater` |
| Dashboard (`web/src`) | copies of copies, answers in any order | no save deletes what nobody removed | `Dashboard`, `ActivityPolling` |

Notifications, metrics and diagnostics observe only; database migrations run once, in
one transaction each, before anything else. Both are left out.

## 2. Modules and plan

`DestinationLease` is extended by `DeliveryQueue` and `DigestJobs`; `ThreadPublication`
and `ConfigLog` are abstract specifications, instantiated by `DeliveryQueue`
(`Threads`) and `ConfigStore` (`Log`). The other components share no *modelled* state:
where one meets another (a worker behind a sweep, a delivery beside a deletion), the
module of the one has the other's effect as an action. So that few runs suffice,
`MCUpkeep`, `MCSettings` and `MCIntake` put several components side by side under a
variable `active` that says which of them a behaviour is of; this changes nothing
within a component.

Theorems are in modules of their own: `DeliveryQueueProofs` (types,
safety and rows), `DeliveryQueueRefinementProofs`, `DigestProofs`,
`IntakeProofs` (`Scheduler`, `Ingestion`,
`XRateGovernor`, `SourceSweep`, `PollingBudget`, `PostRendering`, `PostSplitting`), `SettingsProofs` (`UserSessions`, `ConfigStore`,
`ActivityPolling`, `Dashboard`), `UpkeepProofs` (`Updater`, `KeyRotation`,
`BlueskyAccounts`, `ProfileMirror`), `BackupRestoreProofs` and `ConfigTransferProofs`.

The order was: the delivery core and its refinement; what shares its tables (digests,
scheduler, sweep, ingestion); what decides over its input (accounts, configuration,
users); what exchanges its files (restores, keys, updates); text and dashboard. Nothing of
the plan is left: every safety property that a passing run checks is a theorem.

## 3. The modules and the code

In all modules one action is what the code does between two awaits, an SQL transaction
or an atomic replacement of a file being one step. Where several processes share a
store (`ConfigStore`, `BackupRestore`, `KeyRotation`, `Scheduler`, `Ingestion`), an
action ends where another process may come in or a crash is of consequence: at each
statement that commits, at each file operation.

### DestinationLease, DeliveryQueue, ThreadPublication

`lease[d]` is the owner of `d`'s unexpired lease: a runtime, `Nobody`, or `Former`, an
owner id no living process has. An expired row and no row are one state, as every
statement compares `expires_at` with the time. Expiry is taken by
`AbandonedLeaseLapses` for owners that are gone and by `Stall`, at most `MaxStalls`
times, for a process that stands still for longer than the TTL.

| Variable | Code |
|---|---|
| `row` | `post_queue`, one record per queue identity; `waiting` is pending with `not_before` ahead |
| `checkpoint` | `delivery_checkpoints` of a post; `uri[c]` is the stamp of the recorded chunk, since its key is a function of destination, post, chunk and `createdAt` |
| `history` | `processed_tweets`; `staleSkip` is a skip from before the row's `enqueued_at` |
| `wire`, `feed` | `createRecord` requests under way, records the PDS holds |
| `paused` | destinations disabled or with a blocked account |
| `runtime` | up, stopping (after SIGTERM), down |
| `choosing` | the group `claimNextBatch` has selected before its claim transaction |
| `batch` | an entry of `activeDestinations` with its controller, `lostOwnership` mark, attempted set, and where its delivery is |

A batch passes through `login`, `next` (`NextPost`: history check, assertion of the
lease), `prepare` (`PrepareFails`, `SkipPost`, `InitializeThread`), `send`/`sent`
(`SendChunk`, `RecordChunk`, `SendFails`), `finalize`, `settle` and `release`. Every
durable write of the loop asserts the lease: its action has a disjunct `MayWrite` and
a disjunct `Refused`, in which the delivery is given up; `InitializeThread` has none,
because `initialize` in the code has none. A batch whose posts are all in the history is
over at once, with none of them attempted (`TakenUp`). `NormalizedPosts` take the same steps
without history check and skip. `Contents` are the renderings of a post, `Stamps` the
values of `createdAt` a new plan may get. Errors are ordinary failures, rate limits whose text names
the platform (`namedRateLimit`, recognized by `classifyQueueError`) and others
(`rateLimit`). A rendering has `NumChunks` chunks whatever the content; inline retries
of a request are repetitions of `SendChunk`; backoff times matter as "ahead" or
"reached".

`ThreadPublication` says what delivery promises of each thread: a record is published
only when the one before it is acknowledged, acknowledged only when public, and a post
is finished for good once all its records are.

### Beside the queue

`DigestJobs`: entries (`digest_entries`), jobs (`digest_jobs`), runs with their claim
tokens and the thread each publishes; `Claim`, `Checkpoint`, `Complete`, `Fail` of the
service, and the handlers that arm, reschedule, retry, cancel and delete. A run is its
run key; what it renders is the set of entries it claimed. The entries of a route are
inserted in the order of their ids, which is the order in which a claim takes them.

`ProfileMirror`: `profile` is the record in the PDS with its version (cid), `mapping`
what the configuration says was last mirrored, `task[j]` a job between its awaits
(sync, bot label, suffix, pin), `deletion` the one that deletes all posts under the
destination's lease. `doubt` collects fields that overlapping writes or a lost save
made uncertain.

`BackupRestore`: `current`, `log` (the write-ahead log and the database it is of, with the
commits that processes left in it when they were killed), `pending`, `staging`, `kept` and `bundles` are files; `starting` is a process between
the exchange steps at the head of `db.ts`, `restore` one inside `applyRestoreBundle`,
each of whose file operations is an action. SQLite finds a log by its name alone: when a
start was killed between the exchange and the deletion of the old log (`db.ts:51-52`), the
next one replays pages of the former database over the restored one. `OpenCrossed` leaves
in the result any part of what both held, or no readable file. `revoked`, `delivered`,
`dropped` and `crossed` are histories.

`KeyRotation`: a secret is the key it is under; `rotation` is `rotateEncryptionKey`
at one of its steps, `transaction` what it holds uncommitted in SQLite, `given` the keys
an operator still has at hand.
`Updater`: `isLocked`, `tree`, `stashes`, and per process of `update.sh` its step and what
its trap would undo.

### How posts come in

`Scheduler`: `daemon[p]` is the loop of one process with its commands and what it has
read, `memory` the `pendingBackfills`, `backfill` the rows of `backfill_jobs`,
`task[p][d]` the import under way, `setup` what operators set. `XRateGovernor`:
`nextSlot`, `cooldownUntil`, `recentRequests` are the fields of the class, `fetcher` a
caller between the awaits of `acquire()`; time passes only while no timer is due.
`SourceSweep`: one source with its routes (`Lanes`, one per destination); `sweep` is a
sweep between two posts, `backfilling` a backfill between reading what is known and
queueing; `queue`, `digest`, `outcome` are the tables, and the workers are the actions
`ClaimRow` to `DeliverDigest`. `PollingBudget`: `due`, `checked`, `failures` and `quiet`
are the state of the sources, read when a sweep begins (`plan`) and saved when it ends.
`Ingestion`: `ingest` is the handler between two statements; `claims`, `answers`,
`prints` and `stage` are the tables.
`PostRendering` makes the record of one tweet, step by step, each of which may fail;
`PostSplitting` is `splitPostText` on texts of letters, sentence marks, blanks and line
ends, with the lengths of the numbers that `processTweets` appends (`PreparedLength`):
`Frame` is 4 in the code, `Steps` are 10, 100 and so on. `Dashboard` is one tab's dialog with its copies, drafts and requests, the
handlers of the server and other operators; `ActivityPolling` the three polled lists.

### What the server keeps

`ConfigStore`: `main`, `bak` and `tmp` are files, with an inode so that a writer
goes on writing the file it opened; `caller[c]` is a handler, a task or a command
between loading and the end of its save. `ConfigLog` is the log of accepted changes.
`ConfigTransfer`: documents of all schemas (lists of mappings before schema 3, after it
sources, destinations, routes and, since 7, accounts), the ladder, the projection, the
redacted export and the import as functions of sets of records; the actions are the
handlers that load, export, import and save. `UserSessions`: `request[q]` is a
handler at an await with the users it has loaded; a token has the id of its user or, if an
earlier release issued it, only his name, by which it is looked up (`IsFor`).
`BlueskyAccounts`: accounts and their
blocks, mappings with DID and storage key, `call[q]` a validation under way, queue and
history under their keys.

## 4. Runs

Every run finishes with all actions fired. Deadlock is checked but in the side-by-side
runs and the runs of their components, where parts with capped counters stop.

| Run | Instance | Question |
|---|---|---|
| `takeover` | 2 runtimes, 1 post of 2 chunks, 2 stamps, failing logins, one fault (stall, kill or stop) | does a lapsed lease let anything be repeated or undone? `OneRecordPerChunk`, `OnlyTheOwnerTouchesItsRows`, refinement of `ThreadPublication` |
| `routes` | 1 runtime with concurrency 2, 2 routes to 1 destination, 3 posts (one generic, one with an unreadable payload), pausing operators | `ClaimsAreNotForgotten` |
| `recovery` | fair; 2 runtimes, 1 restart, 1 post of 2 chunks, 2 renderings, failures and recognized rate limits | `ThreadsHaveOneRendering`, `EveryRowSettles` (but for the rows of `parked`) |
| `upkeep` | digests: 2 workers, 2 entries, 1 fault, 1 operation; mirroring: 2 jobs; restores: 2 restores, 1 backup, 1 post, 1 credential, 2 breaks; keys: 3 keys, 2 slips; updates: 2 scripts, 3 launches, 1 trouble | `EntriesArePublishedOnce`, `RecordsMatchTheProfile`, `ForgottenPostsAreGone`, `NothingElseIsLost`, `RevokedCredentialsStayRevoked`, `ConfigurationIsNotAhead`, `NoKeyIsBuried`, `OneUpdateAtATime`, `EditsAreKept` |
| `scheduler` | fair; 1 daemon, 2 destinations, 2 requests, 2 events | `BegunBackfillsAreKept`, `BackfillsSettle`, `DueSweepsRun` |
| `settings` | store: 3 callers, legacy schema, 1 crash, 1 damage; users: 2 users, of an earlier release or none, 2 handlers; accounts: 2 accounts, 2 mappings, 1 post; documents: lists of 2 mappings, one of schema 6, a redacted export and a list of another installation | `AcceptedChangesStay`, `BackupOutlivesDamage`, `KeepsTheLog`, `SessionsFollowPasswords`, `PostsAreMirroredOnce`, `OnlyNewValidationsLiftBlocks`, `RoutesLeadWhereTheyDid` |
| `intake` | scheduler: 2 daemons, 1 request; governor: 2 callers; sweep: 1 route, 3 posts, pages of 2, 1 switch; polling: 3 sources, one with a fixed interval, budget 1; ingestion: 2 inlets, 2 posts of the same content, 2 keys, 2 faults; rendering; splitting: texts of 6 characters, whose third chunk has a number longer than the reserve; dashboard: 2 panels, 3 sources, 2 edits; activity: 2 polls per list, 2 changes | `OneImportAtATime`, `RequestsAreSpaced`, `OldPostsStayOut`, `PostsArriveOnce`, `DueSourcesGetTheirTurn`, `ContentArrivesOnce`, `NothingIsCutOff`, `ChunksKeepTheText`, `SourcesGoOnlyWhenAsked`, `SavesBuildOnWhatWasShown`, `ListsKeepUp` |
| `parked` | fair; 1 runtime, 1 post, failures | **violated**: a row whose skip is saved in the second it was queued in is deferred for ever, uncharged |
| `swallowed` | sweep of 1 route | **violated**: a sweep saves a queued post as skipped, the worker then drops the row |
| `limited` | governor with 3 callers | **violated**: a caller asleep on its slot fires during a cooldown |
| `forgotten` | 1 daemon, 1 request | **violated**: a restart loses an accepted backfill that is not a row yet |
| `starved` | fair; 1 daemon, 1 request | **violated**: a backfill of a blocked account keeps sweeps from running for ever |

The violated properties state what a comment or the manual says; `findings` in
`PROJECT.json` quotes each with the line that departs from it.

### Bounds, and why they are enough

Two processes are owner and successor, or two handlers that overlap; a third repeats
one of their parts (the governor's finding needs a third caller, and the store three:
one saves, one holds an old revision, one recovers). Two chunks give a root and a
reply, a first and a last. Each fault is counted (`MaxRestarts`, `MaxStalls`,
`MaxFaults`, `MaxBreaks`, `MaxSlips`, `MaxTroubles`, `MaxCrashes`, `MaxDamages`,
`MaxIngestFaults`): one puts one hand-over at every possible point, two let a recovery
be interrupted as well. `OneFault` lets `takeover` have a stall or a restart,
not both; `FewEdits` confirms at most one removal in the dashboard; `FewAtOnce` bounds
saves and evidence together, and tokens without an id to the first saves of users, and documents to two destinations. What these bounds leave
out of the *safety* properties of proved components, the theorems cover. Counters that
only tell later from earlier (`MaxRevision`, `MaxSaves`, `MaxVersion`, `MaxTime`,
`MaxClock`, `MaxFresh`) end a behaviour when they are used up.

Symmetry is over runtimes, users, names, secrets and handlers, only in runs without
liveness.

### Fairness

`FairSpec`: each process keeps polling (`runForever` wakes at least once a second) and
completes its claims; every await of a delivery ends (requests, logins and preparation
have timeouts and the batch deadline aborts the rest); processes exit once drained and
are started again (`restart: unless-stopped`); `not_before` and the day of free limits
are reached; leases of dead processes expire. `LoginIsHeard` is strong: a destination
whose login is tried again and again gets a session at last, since otherwise no attempt
is charged. Nothing is assumed of the network or of operators. Liveness is
checked with one post: with several groups the model's choice of a group is arbitrary,
where the code takes the oldest.

`FairSchedulerSpec`: the loop goes on while the process is up, imports end at their
deadline, a supervisor starts the process again, and the time of a retry comes. No
import has to succeed. It is checked for one daemon: with two, a row that one withdrew
may be put back by the task of the other (`upsert`), and sweeps can be deferred again.

## 5. Proofs

The named assumptions of the modules (`QueueAssumption`, `OwnersAssumption`, `DigestAssumption`,
`SchedulerAssumption`, `IngestionAssumption`, `GovernorAssumption`, `SweepAssumption`, `PollingAssumption`,
`UsersAssumption`, `StoreAssumption`, `UpdaterAssumption`, `KeyAssumption`,
`RestoreAssumption`, `ActivityAssumption`, `DashAssumption`, `AccountsAssumption`,
`MirrorAssumption`, `RenderingAssumption`, `SplittingAssumption`, `TransferAssumption`,
`DocumentsAssumption`) are all that is assumed, but for the hypotheses `OneRendering`, `NoStalls` and
`OneProcess`, which are part of the theorems that need them. Every inductive invariant
was checked by TLC on the instance of its run before it was proved.

**Delivery types** (`DeliveryQueueProofs`). `TypeOK` is not inductive: a step computes
with the batch it acts on. `TypeInv` adds that a batch can be acted on in its phase,
that a plan with a content has a stamp, and that only parked rows have used up their
attempts.

**Delivery safety** (`DeliveryQueueProofs`). `ThreadInv`: recorded chunks are
published, threads grow in order, migrated threads are complete, and
`SendsFollowRecords`: a batch that sends chunk *c* has every chunk before it recorded.
The last makes the others inductive, and holds even for processes that lost their
lease, because recorded chunks are never taken back (`RecordsStay`). `OwnerInv`: a
batch holds rows of its own destination, no batch is at the destination a process is
claiming, nobody has finished what an owner prepares, a lost lease stays lost. It shows
that a skip never overwrites a migrated post: a skip asserts ownership in the same step,
ownership has been continuous since the history was read, and only owners finish posts.

**Rows** (`DeliveryQueueProofs`) follow from `SafetyInv` and `ClaimedRowSteps`: a
processing row changes only at the hand of the owner, or in the reset of a row nobody
owns. `ClaimsStayInHand` needs `HandInv`: an idle entry of `activeDestinations` holds
nothing, so the claim that replaces it loses no rows.

**Refinement** (`DeliveryQueueRefinementProofs`). Under `SafetyInv` the recorded chunks
form a prefix; a record arriving is `Publish` or a stutter, `RecordChunk` is
`Acknowledge` or a stutter, `FinalizePost` is `Finish`. `OneRecord` adds, under
`OneRendering`, that the key of a post never changes. `RecordedIsNotRequested` rests on
`SendsAreDue`: the chunk the *owner* is about to send is not recorded.

**One rendering** (`DeliveryQueueRefinementProofs`). `ThreadsKeepTheirRendering` lets a post
have any number of renderings, where `OneRecord` lets it have one. `RenderingInv`: a batch sends the
rendering its thread is planned with (`SendsFollowPlans`), what is recorded is of that
rendering too (`RecordsFollowPlans`), and so is what a reply, requested or public, replies
to (`RepliesFollowParents`). A plan is replaced only while nothing of it is recorded
(`RenderingSteps`), and nobody replaces it behind a batch that sends, because who works
on a destination has its lease (`WorkersOwn`). That is what the hypothesis `NoStalls` is
for: `initialize` does not look at the lease, so a process that stood still for longer
than its lease may plan a thread anew that its successor is publishing.

**Digests** (`DigestProofs`). `DigestInv`: runs, plans, requests and entries fit each
other (`ShapesFit`); who holds the lease holds the claim of what it executes, and *no
content that was ever planned or requested under a run key goes beyond what the present,
or else the next, claim of that key has* (`ClaimsFit`). That is so because a claim takes
the first entries of the route in their order, entries join at the end only, and a run
that did not succeed keeps its key and returns its entries, so that the next claim
extends the earlier ones (`FirstGrows`). Hence `ThreadsFit`: what was requested under a former key is delivered
and out of reach of later claims, so threads of two keys have no entry in common; and
what a plan has recorded up to a chunk is on the PDS with all of the content of
the run that goes on from there, so that a completed run is a whole thread. What the
steps share that request and record nothing is one lemma about `Quiet` steps.

**Scheduler** (`IntakeProofs`). `TasksHoldTheirClaims` (a task's row is processing under
its token, unless the row was disturbed) makes both `BegunBackfillsAreKept` and
`OneImportAtATime` inductive.

**Ingestion** (`IntakeProofs`). `IngestInv`: the request works on a post whose key it
claimed (`RequestInv`); at a suppressing inlet a post that has a row, or is reserved by the
request, has its fingerprint, and both have two, while at most one per fault is left
over (`PrintsInv`); of posts with one content only one has fingerprints
(`ContentInv`); arrivals follow stages (`ArrivalsInv`). The counting is needed because a release
takes one fingerprint away: it must not take the last one of a post that has a row.

**Governor** (`IntakeProofs`). `SlotsInv`: who sleeps on a slot wakes no earlier than
now and at least a gap before `nextSlot`; the slots of two sleepers are a gap apart,
and all of them a gap after every request that started. The window never holds more
than its limit.

**Sweep** (`IntakeProofs`). `SweepInv`: a route without a baseline was given nothing and
has nothing; one with new posts only has its first page behind its baseline
(`BaselineInv`, which needs that the newest post of a page is in it, `LatestIsThere`);
what a sweep is considering is ahead of the baseline (`AheadInv`); and while no route
changes its mode, it has rows of one kind, and what was published has left its mark there
(`ModeInv`).

**Polling** (`IntakeProofs`). `PollingInv` counts, for a source that was left out, the
sources that are ahead of it in the order of `plan()`: each sweep that leaves it out
takes a whole budget of them (`PlanFits`) and puts them behind it, so that `Budget` times
the sweeps it has waited, and those still ahead, are never more than the other sources
(`TurnsFit`).

**Rendering** (`IntakeProofs`). `RenderInv` ties the text to what the record can carry, from
the step on that decides it: a tweet with a video has it embedded, linked to, or yet to be
tried (`VideosFit`); a quoted post is carried by the record (`IsCarried`) or linked to
once links are appended (`QuotesFit`); a repost ends with its origin (`OriginsFit`).
`MediaFit` gives the room: a screenshot is only taken while an image slot is free, as
photos of a tweet never exceed the slots (`RenderingAssumption`, the limit of four that
`mergeMediaEntities` has). What a model rewrote is excepted, as in the property.

**Splitting** (`IntakeProofs`). `ChunksKeepTheText` names a place in the text for each chunk:
they stand there, in order and without overlap, and what is in none of them is blank. A
round takes a piece from the front and trims both halves; what trimming leaves out is
blank, so the places so far and the place of the new chunk are the new witness. `SplitInv` adds that the text ends in
a printed character, hence what remains is never blank, and that the loop goes on
exactly while something remains. `SplitIsInRoom` bounds the three searches for a cut. A
number of a chunk is never longer than that of the last one (`DigitsGrow`), so all of them
fit with their chunks if `HasRoomForNumbers`, which is 99 chunks in the code; beyond, the
theorem says nothing of lengths.

**Sessions** (`SettingsProofs`). `SessionsInv`: a handler's copy of the users is no newer
than the file and equal to it if the revision is (`HeldInv`); what it is about to issue or
set was proved against that copy (`AimInv`); versions only grow (`VersionInv`); and a
token is of a version *in the past or present* of its user, with the secret the user
had under that version (`TokenInv`). So a token whose version is still current has the
current secret. `NamesInv`: no two users have the same name, nor will the one that a
handler is about to save, so a token without an id is good for one user at most: the one it
was issued to, unless he has given up the name.

**Store** (`SettingsProofs`). `StoreInv`: one caller writes at a time, into the file it
opened (`WriterInv`); a document's revision counts its changes, so equal revisions are
equal documents (`CountsInv`); without damage the document is readable and has all
accepted changes (`UndamagedInv`); a recovered or upgraded document is rewritten before
anything else happens (`RefreshInv`). It holds for any number of callers of *one*
process: two processes can pass the revision check together
(`config-manager.ts:335`), which is a divergence noted below.

**Dashboard** (`SettingsProofs`). `DashInv`: the chips and the draft of a panel are of the
copy the dialog was opened with (`ShownInv`); copies of one revision are equal
(`CopiesInv`); and a call, whatever it still has to do, is harmless to the document
*if* the version it sends is the stored one, since it then began from what is stored
(`StepsInv`); if not, the server refuses it. What it goes on with after an accepted step
neither deletes nor overwrites (`RestIsPlain`), and the list is no older than the copy
it is about to show (`PreviewsInv`). For the polled lists, `PollInv`: one poll per list is the latest, and its answer is no older than what
the list shows.

**Accounts** (`UpkeepProofs`). `AccountsInv`: a handler behind an await that finds the
revision it read finds the configuration it read, and nobody has made the mapping it is
about to make (`CallInv`); a validation that still meets the block it was asked about has
seen no save of its account and no new evidence (`ResumeInv`); and a post published for
a mapping is in the history under the mapping's *stored* key unless that key was also
another one's (`MirrorInv`). The last survives every rekeying because rows are only
moved to the stored key of the mapping linked to the account, from keys which no
uncrossed mapping has. A save is one lemma (`SavingStep`) about what all saves share.

**The profile** (`UpkeepProofs`). `ProfileInv` follows a copy of the record from its read to
its save: a copy that the PDS will accept has the name the profile has (`CopiesFit`), who
has written a field and waits to record it records what the profile shows, or may not
record, or somebody who shows it records after (`RecordsFit`). The exceptions are the
handler of the bot suffix, which takes a name that it finds in place for mirrored without
writing it. For the deletion, `DeletionFits`: while its lease is held, every post of
the account is one that it still has to delete, unless it was passed over or pinned meanwhile.

**Updates and keys** (`UpkeepProofs`). `LockInv` ties the lock to the process inside;
`StashInv` says the newest stash exists while an update owns one, so what it pops is
what it put there. `RotationsInv`: what a rotation has read, copied and staged agrees
with its step (`RotationInv`, `TransactionInv`); every live secret is under the key of
the document, of the server or one it was given (`KeysInv`).

**Restores** (`BackupRestoreProofs`). `PlacesInv`: which files exist at which step of a
start and of a restore (`FilesInv`, `StagesInv`, `StartInv`), what a running server has
open (`OpenInv`), and where revoked credentials may still be active: in bundles and in
staging before their revocation, never in what a start can pick up (`CredentialsInv`).
A log is that of the database at its place, or a start is on its way to delete it, or was
killed there: databases that were crossed then are excepted from what follows (`crossed`).
`PostsInv` and `OrderInv` add where posts are and that restores are numbered in the
order in which their files are staged.

**Documents** (`ConfigTransferProofs`). What posts where is a set of *flows*: a source, a
destination and the route between them. `TransferInv` says that documents are `Sound`:
of the types of their schema, *in order* (`IsInOrder`), and valid once they are of the
present schema. The argument goes along the way of a document. A list becomes, mapping
by mapping, what the projection makes of it (`ListFeeds`); merging destinations of one
identity moves routes to the first of them and, since the lists did not conflict, makes
no two of one (`MergedFeeds`); extracting accounts changes who posts for nobody, because
an account that is found has the identity of the destination (`LadderFeeds`). Together:
`Migration`. `SavedFits`: a save through the mappings gives every route back as it was,
which needs that each profile source is one, that accounts found by links are the
destination's and that sources have names of their own. An import aligns ids of sources
and destinations: a route follows its ends (`AlignedFits`), since two destinations of the
import that claim the same one here are refused; and a destination here is claimed by
the one of its account, whose ids agree (`KeptIsOurs`).

| Theorem | Says |
|---|---|
| `Typing`, `TypeCorrect` | `TypeInv`, `TypeOK` are invariants |
| `RecordedIsPublished`, `GrowingInOrder`, `MigratedIsComplete` | checkpoints never run ahead of the PDS; replies follow durable records; migrated means recorded to the last chunk |
| `LostIsLost`, `MigratedIsFinal` | a lost batch never owns again; migrated is final |
| `OwnersRows`, `ClaimsHaveOutcomes`, `TriedRowsAreCharged`, `ClaimsStayInHand` | claimed rows: changed by their owner, gone only with an outcome, charged only if tried, never forgotten |
| `Refinement`, `OneRecord`, `RecordedIsNotRequested` | delivery implements `ThreadPublication`; one record per chunk if a post renders the same; no recorded chunk is requested |
| `ThreadsKeepTheirRendering` | no thread goes on under another rendering, as long as no process outlives its lease |
| `DigestTyping`, `EntriesAppearOnce` | a delivered entry is public in a whole thread, and in one thread only |
| `SchedulerTyping`, `BackfillsAreKept`, `ImportsAreExclusive` | begun backfills are kept; one import at a time |
| `IngestTyping`, `ContentIsIngestedOnce` | submissions and their content arrive once |
| `GovernorTyping`, `RequestsKeepTheirGap` | requests to X are spaced |
| `SweepTyping`, `OldPostsStay`, `SweptPostsArriveOnce` | old posts stay out; posts arrive once |
| `PollingTyping`, `BudgetStarvesNobody` | a due source gets its turn |
| `RenderTyping`, `LinksStandIn` | what a post cannot carry (quote, video, origin) it links to |
| `SplitTyping`, `TextsAreKept` | chunks together are the text, in order; up to 99 of them fit a post with their numbers |
| `UsersTyping`, `SessionsEndWithPasswords` | tokens do not outlive passwords, or go over to others but by a name that was given up |
| `StoreTyping`, `AcceptedChangesRemain`, `BackupOutlives`, `TheLogIsKept` | one process: no accepted change is lost, the backup outlives damage, the file implements `ConfigLog` |
| `UpdaterTyping`, `UpdatesAreExclusive`, `EditsStay` | one update at a time; edits are kept |
| `KeysStayInReach` | no credential is left under a lost key |
| `ActivityTyping`, `OvertakenAnswersAreDropped` | no list shows an answer that was overtaken |
| `DashTyping`, `SourcesAreKept`, `FiltersAreNotOverwritten` | a save of the dialog deletes only what was confirmed, replaces only what was shown |
| `AccountsTyping`, `BlocksOutliveOldValidations`, `DestinationsDoNotRepeat` | only new validations lift blocks; a destination mirrors a post once |
| `TransferTyping`, `RoutesStay` | upgrades and imports lead every source where it led, imports leave destinations what they are |
| `ProfileTyping`, `RecordedIsShown`, `ForgottenIsDeleted` | what is recorded as mirrored is shown; forgotten posts are gone |
| `RestoreTyping`, `RevokedStay`, `NothingIsLost`, `ConfigurationFollows` | restores lose nothing, revive nothing, and never leave the configuration ahead, but for logs that a start deletes or replays into another database |

**Only model-checked.** Liveness (`EveryRowSettles`, `BackfillsSettle`, `DueSweepsRun`):
fairness and `ENABLED` are beyond the proof system. The type
invariants of the side-by-side modules (`UpkeepTypeOK`, `SettingsTypeOK`, `IntakeTypeOK`)
only collect those of their parts, each of which is a theorem. All other safety
properties of the passing runs have theorems.
No module declares a `RECURSIVE` operator; choices of a least or greatest element are covered by
`LeastNatural`, `EarliestIsThere` and `LatestIsThere`. What would need induction over
data (sums, folds) cannot be proved here, as the induction theorems take an operator.

## 6. What is assumed, left out, or known to differ

**Assumed.** Operators remove the lock of an update only when none is inside.
A rotation is given the deployment's key as the old key, also when the document is
plain, and that key is not changed during a rotation. The store's theorems are about one
process. Ids of accounts and of destinations are UUIDs and differ. Of the documents a
server is started with or given, `DocumentsAssumption` says that ids in a list differ and
that in later schemas a destination has a login (before there were accounts) or a link to
an account that is in the document and its own, and one source for its profile. This
leaves out redacted exports of schemas 3 to 6, whose destinations would take the logins of
those they are matched with here by id. `PostsArriveOnce` is stated while no route changes its delivery mode: with a
change it is false, see `redelivered` below.

**Left out.** The construction of text, facets and embeds beyond what `PostRendering`
has; publication of a missing parent inside the delivery of its reply (its failure is
swallowed, `index.ts:1740`); the arithmetic of backoff, priorities and check times;
parsing, signatures, permissions, groups, listings, wording; the CLI but for its part
in `ConfigStore`, `BackupRestore` and `Updater`; `install.sh`; notifications, metrics,
diagnostics and database migrations. `ConfigStore` has no
documents whose secrets cannot be decrypted or that fail validation: loading them throws or
blocks further writes, and neither touches the backup (`config-manager.ts:257-263`,
`:271-276`).

**Divergences noted while modelling, without a run of their own.** They are kept out of
the runs by a named restriction in the module concerned, and stated here so that nobody
takes the restriction for a guarantee.

- *Delivery.* A timed-out first chunk is published again when the next attempt renders
  differently (`db.ts:2346`; the theorem `OneRecord` has `OneRendering` for it). A
  runtime without its lease replaces the plan its successor publishes from
  (`index.ts:2208`). Seconds of a skip are compared with milliseconds of the row
  (`queue-worker-service.ts:244`; the run `parked`). A rate limit whose text does not name the platform
  costs an attempt (`:214`). A lasting limit with failing logins is never charged
  (`db.ts:1496`).
- *Digests and modes.* Completing a digest writes no `processed_tweets`
  (`db.ts:3155-3191`; `docs/architecture.md:56`), so a post is delivered again when its
  route is switched to immediate delivery and back-filled. The mode of a route is asked
  anew at the end of a sweep (`server.ts:4074-4149`, `docs/operations.md:11`).
- *Ingestion.* A crash between claim and answer makes the retry answer as a duplicate
  of what was not queued (`server.ts:3466-3469`, `docs/operations.md:168`).
- *Scheduler.* A run-now is consumed with the wake signal while backfills are pending
  (`scheduler-service.ts:73`). A start drops maintenance leases by host prefix, also
  those of a living process (`db.ts:2028`).
- *Sessions.* A token without a user id, of an earlier release, is accepted for whoever
  has its email or user name (`server.ts:1641-1657`): after its user was deleted or renamed,
  for a later user of the name at token version 0, which is what the comment at
  `server.ts:1625-1630` says must not happen of tokens with an id. It is a named exception
  of `SessionsFollowPasswords`.
- *Configuration.* The revision check and the rename are not atomic between processes
  (`config-manager.ts:335`, `docs/security-and-backups.md:59-60`). A mutation without a
  revision is accepted (`:33-40`).
- *Documents.* Deleting a destination with a webhook or API source always fails, after
  its queue rows are gone (`projection.ts:171-174`, `server.ts:5254-5259`). X sources
  without routes vanish at any save. A redacted import after an account was deleted and
  made anew leaves it without a password (`transfer.ts:259-266`). Route ids of an older
  export replace present ones.
- *Rotation and restore.* A CLI command started while a restore is pending applies the
  exchange under the running server (`db.ts:47`, `docs/security-and-backups.md:143-146`).
  A kill between renaming the staged database and saving the configuration
  (`backup-service.ts:358-359`) lets the next start use the restored database with the old
  configuration. The kept copy lacks commits that were not checkpointed (`db.ts:52`). A
  start that is killed between `db.ts:51` and `:52` leaves the log of the former database
  beside the restored one; the next start sees no staged file and replays it (`OpenCrossed`,
  a named exception of the three properties of restores). The
  cleanup of a failed restore deletes another one's pending database
  (`backup-service.ts:365-369`). A kill between the rename of the document and COMMIT
  leaves the two stores under different keys; a credential created between reading and
  BEGIN stays under the old one; `config.json.bak` does until the next save.
- *Updates.* With an older stash present, an update's own stash is neither restored nor
  mentioned (`update.sh:290-308`). `config.json` and `.env` saved during an update are
  overwritten by the trap's copy (`update.sh:183-198`). A killed updater leaves the lock
  for ever; a re-execution lets it go in between; `install.sh` uses another one.
- *Dashboard.* A save's merged answer takes no token (`use-destinations.ts:25`).
  The main form and the policy panel are not reseeded, so a save after a refresh
  overwrites another operator's change. Answers that arrive after a logout show data again.
- *Profiles and posts.* The first bot label replaces a profile made meanwhile, for it is
  put without a cid. Manual pin and profile syncs take no lease, although
  `destination-maintenance.ts:21-27` says that they never interleave with a delivery. A
  failed deletion of one record is passed over and the history is still cleared. A link
  is dropped for a card that may never come (`index.ts:2110-2127`). Numbering reserves
  eight characters (`post-transform.ts:192`), too few from a hundred chunks on, and such
  posts may exceed the limit; `ChunksKeepTheText` states their fit up to 99.
