# Verification of the archiver / recorder / dispatcher suite

TLA+ models of the suite's upload queue: the programs that put media files into
one shared SQLite table, and the one that takes them out, posts them to Telegram
and deletes them. The question behind every module is the one behind the suite:
*is a file only ever deleted when its bytes are safe, and are they posted once?*

## 1. The system

Four command-line programs and a library, all on one machine:

| part | state it keeps | operations | talks to |
|---|---|---|---|
| `core.store` (items table) | one row per file: path, digest, `status`, `attempts`, `claimed_at`, `retry_after`, `last_error` | `add_item`, `claim_batch`, `mark_sent/failed/deduplicated`, `requeue`, `quarantine`, watchdog `reset_stuck_sending`, `retry`, `cancel`, bulk resets, GC | every program, by SQLite transactions |
| `core.ingest` | none (reads the table, hashes files) | `register_file` = stabilize, hash, collapse, insert; `register_media`; `recover_oversize_failed` | table, disk |
| `archiver.reconcile` | none | walks folders, registers files, deletes re-introduced ones | table, disk, deletion guard |
| `core.orphaned` | two memos in `metadata` | drop-zone folders: register, route to a chat | table, disk |
| `core.media_prep` | one flock per source file | convert, split | disk, ffmpeg |
| `dispatcher.drain` | the batch in flight, breaker counter, timers | claim, check, dedup, route, send, record, clean; housekeeping | table, disk, Telegram |
| `dispatcher.send` | Telethon connections | send, album, retry, reconnect | Telegram |
| `core.deletion`, `dispatcher.delete` | policies in `config.toml` | gate every unlink | disk |
| `recorder` | LISTENING / RECORDING / HANDOFF, segments, upload queue, soft lock | capture, reconnect, hand off, enqueue, startup sweep | table, disk, lock file |
| `archiver.orchestrator` | per-platform trips, checkpoints, roster | platform loops, sweeps, account retirement | extractors, table |
| `core.quarantine`, `core.manual_delete` | roster in the policy store | move a user's folder, trash it later, GC its rows | table, disk, soft lock |
| `ops` | stop flag, fingerprints, pending confirmations | update, supervise, bot | all of the above |

There is no in-memory sharing between programs: they interact through the table
(WAL, one writer), the files under the archive roots, a soft-lock heartbeat, and
a stop-flag file. What is hard is exactly that:

* every decision is a query followed, later, by a write or an unlink, and any
  other program may act in between;
* the dispatcher may be killed between Telegram accepting a message and the row
  saying so, and Telegram may accept a message whose acknowledgement is lost;
* the operator edits the same rows (`queue retry|cancel`, `reset failed`), and
  the user moves the same files;
* claims are recovered by age, with a clock of one-second resolution.

What makes each part correct:

* **table** - guarded writes: no write by a program that no longer owns the row,
  no resurrection of a cancelled row, the retry budget;
* **drain** - deletion only after delivery; at most one post of the same bytes,
  unless for a listed cause; no claim left behind; a duplicate is held only
  behind a row being sent; claims are resolved at last;
* **claim** - who came first is served first, and no group waits for ever;
* **send** - an upload's parts, connections and temporary files do not outlive the
  attempt; every copy beyond the first is an answer that was lost;
* **ingest** - the last copy of undelivered bytes is never removed; one post of
  the same bytes whatever rows the races leave; every file comes to an end;
* **media preparation** - footage survives two processes and their deaths;
* **drop zone** - every drop is posted, once, and not deleted before;
* **recorder** - every finished segment is queued, a session is one album, a user
  being recorded is spared by the sweeps, a ban needs silence;
* **accounts** - rows follow their files; what is queued is neither trashed nor
  purged;
* **fetching** - an incremental run leaves no post behind; every account gets its
  turn; the session alarm rings for a reason;
* **ops** - what is taken for deployed runs; who takes the recorder's place hands
  it back; a confirmed command runs once.

`PROJECT.json` lists every component, modelled or not, and every hazard with
the line where it bites.

## 2. Modules

| module | models | built on |
|---|---|---|
| `ItemTable` | one operator per write of `core.store` to the table, table in, table out | - |
| `Dispatcher` | `drain_forever`, `recover_media_empty`, `_suppress_duplicate`, `run_housekeeping`, `maybe_delete`, the exits of `_run_drain`, the operator's queue commands | `ItemTable` |
| `Delivery` | what the dispatcher promises: the life of a row, a chat that only grows, removal after delivery | - |
| `ClaimBatch` | `claim_batch`: order of the clusters, the album around the head, gates, documents behind their media | - |
| `FastUpload`, `SendEnvelope` | one parallel upload; `TelethonSendStrategy` around it | - |
| `Ingest` | `register_file`, `_collapse`, `_register` of reconcile in several processes, against a reduced dispatcher | - |
| `MediaPrep` | `prepare`, `register_media`, `recover_oversize_failed`: recorder and archiver on one recording | - |
| `DropZone` | `ingest_folder` and its two memos: the loop and `archiver ingest` on the same folders | - |
| `Recorder` | the state machine, the capture process, the uploader thread, the soft lock, both sweeps | - |
| `Accounts` | ban, quarantine, restore, delete, trash, purge, across config.toml, folders and rows | - |
| `Frontier` | incremental fetching of one account: cutoffs, checkpoints, kills | - |
| `ScanLoop` | the loop over the accounts: order, circuit, session-death alarm, restarts | - |
| `Services` | the service manager, `ops load / unload / update`, `recorder start`, `recorder record` | - |
| `Bot` | the control bot: updates, confirmations, notices, deaths | - |
| `DispatcherProofs` | lemmas and theorems (section 5) | `Dispatcher` |
| `BatchProofs` | the same | `ClaimBatch`, `SendEnvelope` |
| `DropZoneProofs`, `IngestProofs`, `MediaPrepProofs`, `RecorderProofs` | the same | the module they are named for |
| `OpsProofs` | the same | `Services`, `Bot`, `Accounts` |
| `ArchiverProofs` | the same | `Frontier`, `ScanLoop` |

`MCDispatcher`, `MCClaimBatch`, `MCIngest`, `MCMediaPrep`, `MCDropZone`, `MCRecorder`,
`MCAccounts`, `MCFrontier`, `MCScanLoop` and `MCOps` (which composes `Services` and `Bot`)
hold the instances. Three relations tie the modules together. `Dispatcher` implements `Delivery`
(`KeepsPromise`, by `INSTANCE ... WITH`). `Dispatcher` takes any group of one
album as the claimed batch, and any result of a send: `ClaimBatch` and `SendEnvelope`
are those choices in detail. And where a module needs what another one details,
it has it as one step, named in its header.

### ItemTable and Dispatcher

A row is `[status, attempts, claim, backoff, error]`, indexed by the file it is
for: digest, path and album key never change in this module, so they are
constants. `claim` abstracts `claimed_at` to what the code can tell apart: `"now"`
(this very second - `claimed_at < now` is still false), `"fresh"` (past that second,
inside the watchdog's window) and `"stale"`. `error` keeps the classes the resets
look at: cancelled, transient, other. `backoff` is `retry_after` in the future.

`pc` is the place in `drain_forever`; an action is one transaction, one look at
the disk or one exchange with Telegram. Between any two of them the environment
moves: `Crash`, `AuthLost`, `GraceExpired` (the process ends and comes back with
`Start`; a grace that expires in the sleep between two albums finds no row `sending` and is
`StopAtTop`), the clock, `Enqueue`, the operator, the user moving files. `todo` is what
the current `for` loop has left; `verdict` is the `SendResult`; `ServerAccepts`
posts the whole batch and is separate from `SendReturns`, so that an attempt can
reach the chat and still fail, be retried (`Resend`), or be followed by a crash.
`posted`, `removed`, `excused`, `stranded` are history: no guard reads them, but
for `posted` in the bound on posts. Housekeeping is modelled query by query: the
two writes that act on ids selected by an earlier statement are two actions each.

An oversize refusal carries no flag in `SendResult`, so the drain takes the
systemic-failure arm (backoff and budget) where `send.py` speaks of a first-hit
quarantine; the model follows the code.

### ClaimBatch

`Heads` is the ORDER BY, `Albums` the gathering with the byte cap and the
photo/video buckets, `CanShip` the minimum batch with its age flush, `HeldForMedia`
the documents behind their group. Seconds are a small counter because the order
of clusters is decided by the earliest `discovered_at`. The drain is one batch in
flight. `BlocksStayContiguous` (a cluster is not interrupted by another) does not hold once a
row comes back from a failure, and is in no run.

### SendEnvelope and FastUpload

The queue of `fast_upload` is an interval of items, the last of them one pill per
consumer; the reader or a consumer may fail at any part; the callbacks that close
connections are counted. `SendEnvelope` has
the attempts, the counted and uncounted stalls, flood waits, reconnects,
conversion of images, the second envelope, and shutdown. Nothing is
assumed of Telegram: a request may fail in each of the ways the code tells apart, be
posted with its answer lost, or hang. Closing a dead connection
may hang as well (`CloseHangs`): only the stall watchdog around the attempt ends it.

### Ingest

Here rows have ids, because `relink_file` moves a row to another path. A worker
carries what it read (`whash`, `wtwin`) through `lookup`, `collapse`, `dropIncoming`
or `takeOver` or `adopt`/`retire`, `finish`, `insert`; in between other workers, the
dispatcher, the operator and the producers act, and a worker may be killed
anywhere. The dispatcher is cut to what a producer can see. `_pick_winner` is a
rank with ties for the existing copy; identity is a constant of the path.

`NeverLosesBytes` allows for one loss, which the code really has. `register_file` asks
`has_file_path` before it hashes and looks for a twin after; if another worker has the same
file in hand and inserts its row in between, `_collapse` compares the file with itself
and removes it (reconcile's own registration has the missing test, `twin.file_path != out_str`).
The recorder releases its soft lock before it enqueues, so the archiver's sweep and its
uploader do meet on a new file. With two `register_file` sweeps TLC also finds a circle: one
worker drops the copy at z for the one at y, another moves the row from y to z and
a third look drops y for z. Both need two workers that took up one file before either had
registered it; `contested` remembers the contents of such files, and the property speaks of
all others, wherever the sweeps meet. In the run two of the three sweeps meet on a path.

### MediaPrep

One recording, as a capture, a remuxed mp4 or a row refused as oversize, with the
seven files preparation can make of it. `Occurs` says which kinds the code produces: only
a capture is in the uploader's queue, and a row is refused as oversize only of an mp4 that
could be streamed and was too big (preparation is taken to be enabled throughout; what
prepare registers, it has found streamable). Each file has a content: the
two halves of the footage, whole or broken. A worker opens a file, writes it and may die in
between; `torn` files are written by two. The run follows the workers as long as they meet
only where the prep lock covers what both do (`Uncontended`); the theorems speak of every
behaviour and name that condition in their statements. What happens when both
remux the same capture (the remux takes no lock) is the refuted `FootageKept`. A half-written
mp4 of a dead worker is stable and cannot be probed, is passed through and posted,
and its `sent` row then makes the good mp4 a known duplicate: `FootageSurvives`
excuses exactly that death. A half-written part of a split may be given a row in the
same way, with the digest of its broken bytes. If the part is then
split again under its name, the row's digest is of bytes that are no longer there and the
good part is posted under it and again from its twin; with two deaths and one failing command
TLC shows it. `PostedOnce` therefore excuses the behaviours in which a row was made of
half-written bytes (the history variable `half`).

### DropZone

Two ingesters walk folders; a pass reads both memos, decides file by file
(`Skips`, `Locked`, `Busy`, `Prepared`), registers the outputs and a document copy, retires
the original and writes the memos back whole. The properties excuse, by name, what
the code does: an original over the ceiling whose document split failed is
deleted although the comment beside it says it stays; a document registration that
raises, or is told `HASH_FAILED` or `UNSTABLE`, is remembered as done; the memo of all folders is
one JSON value and the loop and the command lose each other's entries, which leads to
a second conversion and post; a file put again under its name with its old mtime is
skipped. Half-written outputs are `MediaPrep`'s subject. The two memos are saved by two
commits: a death between them is `HalfSaved`; that the other process may read between them,
seeing one and not yet the other, is left out.

### Recorder

`pc` is the `RecorderState` with the points where the machine waits on the network
or a thread. Captures are processes of their own and outlive the recorder.
The soft lock, the session's files, the queue and whether its thread
still runs, the benched and banned users, the ban tally (in memory, and as last saved) and the roster
are the state; the sweeps look at the lock
once (`SweepLooks`) and walk for long. `LookedDuringMeansSpared` says what that look
is worth: a sweep that looked while a user was being recorded does not have the
file still being written on its list.

Some writes that look like one are apart, because a kill or a failure falls between them.
A start clears the tally after the capture runs (`Forgive`), in memory, and then the file is
written with errors swallowed: `saved` is what the next process reads, and `clear` whether a
start's clearing is still to be saved or was lost. `BanNeedsSilence` excuses the users
whose last clearing was lost; without the excuse it is the refuted `NeverAWrongBan`. A ban is
written to the roster first, and what raises after it leaves the user benched and on the
poll set (`Deactivate`). The uploader ends as soon as it finds a stop and an empty queue
(`UploaderEnds`), which in a stop during a recording is before the session's files are
queued: the process then leaves with them (`Stopped`, which is no fault), and
`EveryRecordingIsQueued` rests on the sweeps.

Cookie refresh and the order of priorities are left out.

### Accounts

Three stores no transaction spans: `conf` (config.toml; `copy` is what the running
archiver read at its start), `place` (folders) and `row`. Retirement, restore,
trash, purge and the operator's commands are split at every write. What breaks
a property is excused by history variables with a listed cause: a move deferred, a
row update that failed, a file in the hands of the dispatcher. A quick command writes its stale copy back and
undoes what the archiver wrote in between (`overwritten`).

### Frontier and ScanLoop

`Frontier` is one account on a line of days: the walk, the extractor's archive,
the cutoff of each platform, the register step, both checkpoints and every way a
run is cut. `GroundIsKept` says that no post falls behind the frontier but for the
causes in `Excused`: a complete walk saw it and left it, a recording of a later day
was delivered, or a walk that an auth failure or a kill cut had fetched newer
ones. A walk that returns may have lost any of its posts, one by one or all the older ones
(`WalkBreaks`); these count as seen and left. `CrashLosesNoGround`, without the last of these, does not hold.

`ScanLoop` is the loop above: the walk order, the priority re-injection, the circuit, the
Instagram session-death count, the loop's own bail-out. An account that always
answers like an expired session is never stamped, leads every run, trips the
circuit and keeps the others from being scanned: `EveryUserIsScanned` is stated
for rosters without one. A deleted priority Instagram account is counted at each
re-injection, which `NoFalseAlarm` excuses. Kills are free once a walk has got past the priority
accounts; among them they are counted (`Changes`), for without an end to those nobody else would
ever be scanned. Runs are further apart than `scan_jitter_s`, so that the jitter only
orders accounts of the same age.

### Services and Bot

`Services` composes processes and the files they leave each other: units, the
recorder's instance lock and pid file, the stop flag, the flag that keeps a
recording from reloading the service, the fingerprint of the deployed code.
A process may be killed or interrupted between any two steps. `Returns` (the
service comes back after a recording) excuses `stranded`, the workers some
listed event left down; `CleanMeansFresh` (no pending change means that each worker runs
the code on disk) excuses `outdated`. The excuses are what the code does: a stale
`no_reload` flag makes the next recording leave the service down; an update killed
after the unload, or between fingerprints and loads, leaves workers down while the next update
sees nothing to do; the return code of a failed unload or restart is ignored.

`Bot` has the inbox with Telegram's offset, the pending confirmations with their age, command
threads, the recording notices with their retries, and deaths. A second press of
Yes, or a late one, overwrites the result with "confirmation expired"; a confirmed
command is lost when the edit that says "running" raises; the model has both.

## 3. Runs

| run | checks | instance |
|---|---|---|
| `drain_twins` | `RemovedOnlyAfterDelivery`, `SentOnlyAfterDelivery`, `NoLeakedClaim`, `HeldBehindSurvivor`, `AtMostOnceUnlessExcused`, `CancelSurvivesSingleWrites`, refinement `KeepsPromise` | 2 rows of the same bytes in one album, 2 retries, breaker at 2, 2 send attempts, 2 posts of a row, 1 death, 1 command |
| `drain_live` | `ClaimsAreResolved` | a drop-zone row and a safebraked one, own albums, auto-retry, 1 death, 1 command |
| `ingest` | `NeverLosesBytes`, `PostedHomeOnce`, `EveryFileIsHandled` | 3 paths (one a drop zone) with the same bytes, 3 workers of which two meet on a path, 3 rows, 3 arrivals, 1 kill, 1 command |
| `claim_order` | `FirstSeenFirstServed`, `NoStarvation` | a drop-zone group with two photos and a document beside an archiver file behind a gate of two |
| `prep_sweeps` | `FootageSurvives`, `PostedOnce`, `Delivered` | captured, remuxed and refused recordings, with a death or a fault |
| `send` | `UploadEndsWithAttempt`, `PipelineMoves`, `CopiesAreExplained` | 3 parts, 2 connections, 2 attempts of a part and of an envelope, albums of 2 |
| `recorder` | `LookedDuringMeansSpared`, `OneAlbum`, `BanNeedsSilence`, `EveryRecordingIsQueued`, `StopEnds` | 1 user, 2 segments, bench after 1, ban after 2 cycles, 1 fault (a kill, a tick that raises, a save, roster or store that fails, a refused file), 1 stop |
| `accounts` | `RowsFollowFolder`, `TrashSparesQueuedWork`, `PurgeDropsNoWork` | 1 user, 2 files, 2 commands, 2 faults |
| `frontier` | `GroundIsKept`, `EveryPostIsDelivered` | 4 days, three platforms, 2 faults |
| `drop_zone` | `PostedOnce`, `BytesKept`, `EveryDropIsPosted` | 2 files in 2 folders, every kind, 2 drops of a name, the loop and a command, a death or a fault, both for a file that cannot be read |
| `scan_loop` | `NoFalseAlarm`, `HollowStampsAreFew`, `EveryUserIsScanned` | 4 accounts of every condition, thresholds 3, bail-out at 2, 2 changes of the session or kills among the priority accounts |
| `ops` | `CleanMeansFresh`, `SuppressIsHonoured`, `Returns`, `RunsOnceIfConfirmed`, `BotSettles` | 2 recordings, 2 updates, edits, kills, failures in the mixtures `Handovers` and `Deployments` name; 2 commands with presses, errors and deaths for the bot |

`CHECK_DEADLOCK FALSE` where it stands: when all files are delivered and the
budgets of faults and commands are spent, the bounded system has nothing to do.

**Bounds.** `FaultBound`, `CommandBound`, `PostBound`, `ArriveBound`, `AbortBound`,
`MaxRows`, `MaxDrops`, `Segments`, `LastDay`, `Changes` and the numbers in a `Scenario` or
`Scene` count the environment's moves; nothing the code does is bounded but the
posts of one item (two: a duplicate is visible at two). The claims speak of one
row or file, or of a pair: two rows of the same bytes make an album with a first, a last,
a held and a surviving row, three copies give the chain adopt, retire, adopt, and
one fault falls between any two steps. Thresholds of the code (breaker, retries,
bans, circuit) are constants, at two or three, so that both sides of each and
the step across are reached. Two segments make a reconnect, four days
a gap between frontier and backlog, four accounts a priority pass and a
rest. `Scenarios` replace a product of independent budgets by the mixtures that
interact. The theorems of section 5 cover any number of rows, deaths and commands.

**Fairness.** Each liveness claim assumes of the program what its scheduling gives
and nothing of operators, users, arrivals or faults.

* `Dispatcher`: weak fairness of the drain's own steps (the watchdog and the count of attempts
  bound a send), of `Start` (the service manager restarts the process), of the
  clock; strong fairness of `BeginHousekeeping`, whose timer is compared at the top
  of every iteration.
* `Ingest`, `MediaPrep`, `DropZone`: weak fairness of each worker, for sweeps are
  periodic, and of the dispatcher; strong fairness of `Recover`, which runs at intervals.
* `ClaimBatch`: weak fairness of claiming, of results, of the watchdog's `Rescue`, of ageing
  and of the end of a backoff.
* `SendEnvelope`: weak fairness of the coroutine's work; none of Telegram's answers.
* `Recorder`: weak fairness of the state machine, the sweeps, a capture's `Exit`, and
  of the uploader's thread, which after a stop may as well end as go on.
* `Frontier`, `ScanLoop`: the loop goes on; the dispatcher delivers.
* `Services`: the manager starts what is loaded, a process asked to leave leaves, an
  operator who unloads to update loads again, a running command goes on. `Bot`:
  the loop passes, the manager starts it, threads end, confirmations age.

**Mutants.** Each property of each run has a mutant of the code that breaks it under
the run's own configuration: a claim kept through a cancel, an eager dedup, a
released duplicate of an unsent row, a missing pill, a memo written too early, a
stop flag not cleared, a write that forgets its guard.

## 4. Stated, and not true of the code

These definitions say what a comment or a document suggests; TLC refutes them
and the properties of the runs carry the excuse instead. They are kept in the
modules for the reader.

| definition | why it fails |
|---|---|
| `Ingest!CollapseKeepsOne` | `_collapse` of a file with itself when two workers have it in hand, see Ingest above |
| `MediaPrep!FootageKept` | two processes remux the same capture into one name without a lock |
| `Accounts!CancelStopsDeletion`, `ListsAreExclusive`, `RestoreIsInverse` | stale copies of config.toml written back; a restore in the middle of a deferred move |
| `Frontier!CrashLosesNoGround` | orchestrator.py:1055-1058: an auth failure ends the account before what it fetched is registered, and newer rows move the cutoff past what the walk did not reach |
| `ClaimBatch!BlocksStayContiguous` | a cluster is as old as its oldest row in the table: once that row is deleted, the rest moves back |
| `Recorder!BannedFolderIsMoved` | the quarantine refuses a user whose soft lock is held, the machine holds it while it decides, and the move is not tried again |
| `Recorder!NeverAWrongBan` | unstartable.py:17-20: a tally that cannot be kept "only DELAYS a ban, never causes a wrong one"; a kill between `capture.start` and the clearing (state.py:394-400), or a save that fails (unstartable.py:60-61), and a restart bring the old tally back for a user who has recorded since |
| `SendEnvelope!WatchdogFreesSend`, `BurnerNeverStopsDaemon` | the watchdog itself waits for a close that hangs; a revoked burner session stops the daemon like the primary's |

Of the drain: a lost acknowledgement makes the envelope post again, so that a duplicate needs
no crash; `reset_failed_transient` selects, then updates by id and `status='failed'`
only, so that a row retried and cancelled in between is re-armed;
`older_than_minutes=0` compares seconds, so that a batch claimed in the current
second stays `sending` until the watchdog. Of ingest: `find_by_content_hash` does not exclude
drop-zone rows, as `sent_twin` does, and the collapse unlinks without asking the
deletion guard. `AtMostOnceUnlessExcused`, `CancelSurvivesSingleWrites` and
`NoLeakedClaim` are stated so that exactly these are excused.

## 5. Proofs

TLAPS proves the following for every value of the constants: any number of
rows, files, users, workers, recordings, updates, commands, deaths, and every
budget and bound. Each theorem rests only on the named assumptions of its module. Each
inductive invariant was checked by TLC on small instances before it was proved;
each step proof has one lemma per part of the invariant and, in it, one step per
action (those that touch nothing the part speaks of are taken together).

| module | theorems | in a sentence |
|---|---|---|
| `DispatcherProofs` | `TypeCorrect`, `DeletionIsSafe`, `SentIsDelivered`, `DuplicatesHaveASurvivor`, `NoClaimLeaks`, `BudgetHolds`, `AbortIsDurable`, `OnceInvariance`, `NoUnexcusedCopy`, `ImplementsDelivery` | what each transaction of `core.store` preserves (lemmas); what the drain deletes and records is delivered; claims are owed; an abort stands; the same bytes are sent once, but for a listed cause; the dispatcher implements `Delivery` |
| `BatchProofs` | `ClaimInvariance`, `BudgetIsKept`, `AlbumsAreOne`, `NobodyIsOvertaken`; `SendInvariance`, `NoUploadOutlivesItsAttempt`, `QueueNeverLocks`, `HandleIsComplete`, `CopiesAddUp` | the budget, the make-up of an album, the order of the users; the parallel upload and its retries |
| `DropZoneProofs` | `DropZoneInvariance`, `NoDropIsLost`, `PostedOnceInvariance`, `DropsArePostedOnce` | no drop is lost before it is posted; none is posted twice, but for a listed cause |
| `IngestProofs` | `LedgerInvariance`, `HomeOnce`, `SentSurvivesRelink`, `BytesAreNeverLost` | one post whatever rows the races leave; no bytes lost but of a contested file |
| `MediaPrepProofs` | `PrepTypes`, `HalvesArePostedOnce`, `OneEncoderAFile`, `FootageIsNeverLost` | no half of a recording is posted twice; the prep lock keeps the encoders apart; the footage survives preparation |
| `OpsProofs` | `BotInvariance`, `CommandsRunOnce`, `ServicesInvariance`, `DeployedIsFresh`, `UnloadIsHonoured`; `AccountsInvariance`, `QueueFollowsFolder`, `TrashTakesNoQueuedWork`, `PurgeSparesQueuedWork` | the bot's commands; the recorder's lock, the reload flag and the fingerprints; rows follow folders, trash and purge spare the queue |
| `RecorderProofs` | `RecorderInvariance`, `BroadcastIsSpared`, `OneKeyPerBroadcast`, `BansFollowSilence`, `LockFollowsSession` | the soft lock and the sweeps, the album of a broadcast, the ban but for a lost clearing |
| `ArchiverProofs` | `FrontierInvariance`, `GroundIsNeverLost`, `FrontierTypes`, `LoopInvariance`, `AlarmIsTrue`, `FewAreHollow`, `LoopTypes` | the frontier of an account; the session-death alarm of the loop |

**The drain.** `RemovedOnlyAfterDelivery` holds because of what the drain remembers
between a verdict and an unlink. The strengthening `IInv` has three parts.

* `Inductive`: the types, `GoodTable` (each row's claim, backoff, error and
  budget fit its status) and `Shape`, which says what each place of the program
  may assume of the batch: where the cursor may be, which verdicts a place can
  have, that the rows accepted by Telegram are being recorded, and that
  every held duplicate has a survivor of the same bytes (`BatchShape`).
* `Evidence`: everything that counts as proof of delivery is one: rows accepted,
  rows `sent`, files removed, and the row about to be unlinked all have their bytes
  in a chat (`PostedEvidence` ties `accepted` to `posted`).
* `Accounted`: a row that is `sending` is owed a write by the current place of
  the program (`Owes`) or was left by an earlier process.

`AbortIsDurable` is an action property: it follows from `IInv` because every
single-row write is guarded by the status, and a cancelled row has none that they
accept, the exception being the bulk reset its statement names.

**One copy.** `Once` adds to `IInv` what dedup relies on. A row the process has in
hand is still `sending` unless an operator took it away (`Held`); what is in the
chat and not excused is recorded as `sent` or still in hand (`Recorded`); dedup
clears a row only if no recorded row carries its bytes (`Fresh`) and one row of a
batch per content goes out (`Distinct`). `Fresh` stays true until the row is sent,
because only this process records deliveries: `BecomesSent`, `LeavesSent` and
`LeavesSending` list who moves a row in and out of these two statuses.

**The refinement.** `Delivery` knows statuses, a chat that only grows, and files.
Each transaction moves statuses as `Delivery` allows (`FreeMoves`), but for the
move to `sent`, which needs the bytes in the chat: there the step proof uses
`Evidence`, as it does for each unlink. `StepRefines` puts the actions together.

**The claim.** Only one transaction claims, and it takes an album of one anchor
(`ClaimedTogether`): what it mixes is what the candidates of the anchor have in common. The
anchor is first, in the order of the clusters, among those that could ship (`HeadsAreFirst`), and
a cluster stands where the first of its rows put it unless one of them was deleted,
in which case it can only have moved back (`PlaceOfCluster`, by the least element of a
set of naturals). So who is claimed ahead of a user that could ship was not later. The inductive
part is small: counts that a refund cannot take below nought.

**The send.** The upload is proved as a component (`UploadInv` over `UploadActs`):
the phases and which tasks each has (`PhaseShape`), the queue whose consumers leave
with a pill of their own, so that as many pills are left as consumers still need
(`QueueShape`), and parts that are confirmed or held by a consumer (`PartsShape`).
The envelope needs of it only where it exists (`UploadPlaces`). `CopiesShape`
counts, place by place, the copies in the chat against the answers that were lost.

**Ingest.** What a worker remembers of a row may be stale. What stays true is that
a row keeps its digest, kind and bytes under whatever path it is moved to, and that
ids do not return (`RowMoves`); so remembered facts survive (`RememberingStays`) and
`HomeCount` bounds the posts of a content by the rows that say so.
`BytesAreNeverLost` needs more: an order `since` on the files in hand such that
a copy about to be dropped or retired leaves a better-named one spared
(`Survivors`); the order excludes the circle in which each worker drops its
copy for the other's. The sweeps may meet anywhere. What each part says, it says of bytes
that are not `Settled` (delivered or contested): a file two workers have in hand is contested
(`OneHand`), any other has no row until the worker that has it gives it one
(`NoRowYet`), and so is never found as its own twin.

**The drop zone.** Both invariants are of one source at a time. `Kept(f)` holds of a source
that no two passes had in hand at once: one pass has it, all its files are of the
last drop, and the original stays until the pieces made of it are each posted or in a file of
their own, or the document was given up; `HandShape` says what the pass that
has it in hand may assume at each place, so that a failed prepare removes only what
it made. `NoDropIsLost` follows. For `DropsArePostedOnce`, `Once(f)` says what the code
remembers: a file that prepare would work on has a row, a memo or a pass that holds it, or is
untouched, with nothing made of it and nothing posted (`Known`); what lies there without a
row that says sent is owed, that is unposted (`Owed`); and no converted file bears
the tagged name (`Clean`), which is what a second preparation would leave. A memo
entry is missed only when one process writes its blob over the other's, when a pass
dies before it writes its own, or when an entry came after the other pass had read the
memo: the three steps at which the history of the model records it (`EndRecall`,
`LostRecall`, `BeginOnce`).

**Media preparation.** The invariant is built in four layers, each of which uses the ones
before it.

* `Types`: beside `TypeOK`, that what a worker has in hand is a record of these fields and no
  other, so that one lemma (`HandIs`) says what any `EXCEPT` of it is.
* `Traced`: of a recording of one kind only one good mp4 can be made - encoded from
  the capture, copied by the uploader, or encoded again from its mp4 - so two good files of
  the same half have the same bytes; a file that cannot be streamed is only ever the source of
  that one conversion, and never has a row (`Line`). A row has the digest of that make, and
  whatever is posted has a row that says so for the same half (`Rows`), so that
  the suppression at send time finds it: `HalvesArePostedOnce`.
* `Paired`: while the workers have not met, one is idle; when they may meet, all that either
  prepares or is about to replace is the origin of the recording, and only one prepares
  (`Pair`). Hence no file has two writers: `OneEncoderAFile`.
* `Footing`: a file is `Sure` if it is whole and nobody is to unlink it before another one holds
  the same. Each half is posted or in a sure file (`Spread`); a row that says sent is posted,
  and any other row that stands for its file has it sure or posted (`Booked`); what is
  being written is not taken for whole (`InHand`). Each removal in the code - the replaced
  original, the split debris, the collapsed twin, the sent duplicate, the file deleted
  after its post - then has to show what covers the halves it takes:
  `FootageIsNeverLost`.

`met`, `remade` and `half`, on which what the statements except rests, are history: no
guard reads them. The attempt found that `PostedOnce` had to except rows made of half-written
bytes (section 2), which the bounds of the run do not reach, and that the kinds of
recording had to be those the code produces.

**Accounts.** What is recorded as sent, or was when the sweep counted, is posted
(`Counting`). A user marked for deletion gets no new rows, because the process that
registers reads the copy of config.toml it deletes by, and two copies disagree on a
user only if a command overwrote his entry unread (`Retention`). A rename moves all
the rows that pointed to the folder, or the user's are on the list of the strayed
(`Following`, which also describes the moment between the rename and the update).

**Bot.** The offset is stored before an update is handled, so each is handled once.
From then on a command is in one place - waiting for an answer, with a thread,
run, refused or lost (`OnePlace`) - and one that asks first is with a thread
or run only if a Yes is in the inbox (`Agreed`).

**Services.** A recording past its acquisition holds the lock until it is gone
(`Holders`), so that nobody else consumes the flag that an unload drops for
it (`Flagged`): an unload signals only after it wrote the flag, to a process that held the
lock when it was found (`Targets`). For the fingerprints, `Debt` says that what a live
worker has not loaded is in the packages called changed or, for the bot, owed by an
update that is about to restart it; `UnderWay` says it of each update up to the
write, when the debt becomes what was edited since the update looked.
The attempt corrected the model: a `recorder record` that gives up waiting loads
the service before its signal handler is there (`Retreat`), which the model had in
one step with the reload at its end, where the handler is.

**Recorder.** Every segment that exists, waits in the queue or is on a sweep's list was
born, and so was the first segment of its session (`Births`); the least unborn
number exists because the order of the naturals is well founded (`LeastNumber`). The
lock names the recorded user from before the first capture to the release
(`Session`), so what a sweep that looked in between may still walk is others' (`Spared`).
No segment of the session that is on has a key, and two that have one and are of the
same session have the same (`OneKey`): a handover stamps a whole session at once,
and the next session is born of a segment no row can know. A bench counted towards the
ban, in memory or in the file, is a silent one, or a start's clearing is due or was lost (`Tallied`).

**Frontier.** A walk that returns has fetched all that its cutoff lets through; one that is
cut has fetched from the top down. So where a cutoff holds, or is about to, an unfetched post is
excused, or everything archived above it was fetched by walks that were cut (`Cuts`);
the newest delivered post, or on X the run of archived posts at which the walk
stops, is then one of those, which is the excuse (`GroundKept`). The fallback cutoff, `last_run`,
needs `Dates`: it is the day on which the run began, and what is older had its walk.
`ExcusesStay` shows that no excuse is withdrawn, so each step has only its own posts
to account for. That a set of days has a newest one (`NewestIsOne`) is the well-foundedness of
the naturals. The attempt found that the model needed its three platforms as an
assumption: of another one it said nothing.

**The loop.** On a live session only accounts that cannot be found add to the streak,
each once in a run unless it has priority, so the streak is bounded by how many of them the
walk has behind it (`Quiet`). On a dead one each account that is stamped has
added to the streak and left it below the threshold (`Counted`).

**Only model-checked.** Every liveness property (`ClaimsAreResolved`,
`EveryFileIsHandled`, `NoStarvation`, `Delivered`, `EveryRecordingIsQueued`, `StopEnds`,
`EveryPostIsDelivered`, `EveryDropIsPosted`, `EveryUserIsScanned`, `Returns`,
`BotSettles`): fairness and ENABLED are out of the prover's reach. Every safety property
of every run is proved. That a fold computes the bytes
of an album, and so that an album is within `ByteCap`, is induction over data.

## 6. Not modelled, and what is left

Not modelled: scraping and what the extractors do inside, ffmpeg and the
splitter, captions, progress and status displays, parsing of configuration, log
rotation, schema and data migrations, the stories lane's checkpoints, health
checks, `archiver dedup`, `purge-sent`, `reset` and the sorter (what they delete
is the operator's choice at a prompt), the tools of a single use.

What a further step would take on: the commands of the three `cli` modules and the
platform adapters of the recorder, of which only what the components above call is modelled.
