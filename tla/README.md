# Formal model of icloud-code-gateway

This directory holds TLA+ specifications of the gateway, the TLC runs that check
them on small instances, and TLAPS proofs of the properties that matter most for
every instance. Source paths are relative to the repository; `jobs.py:998` means
`icloud_gateway/jobs.py`, line 998, and `aliases/service.ts` is below
`cloudflare-mailbox/src/`.

## The system

The gateway manages iCloud Hide My Email (HME) aliases. A Python *control* process
creates, deactivates and deletes aliases at Apple, keeps them in SQLite with one
access key per alias, and pushes aliases and keys to a Cloudflare Worker, the
*edge*, which stores incoming mail and answers code lookups to key holders.

| Part | State | Operations | Hard behaviour |
|---|---|---|---|
| Creation jobs (`jobs.py`, batch tables of `database.py`) | `batch_jobs`, `batch_job_items`, the worker's position and locals | submit, claim, run an item, wait, retry, stop, recover after a crash, resume by an operator | `reserve` creates an alias at Apple and its answer may be lost; the process may die between any two transactions |
| Bulk jobs (`jobs.py:1277`) | the same tables | deactivate, delete, issue, reveal | destructive writes whose outcome stays unknown; confirmation reads |
| HME session and snapshots (`service.py:510-740`) | the stored session, `_alias_generation`, `_remote_write_active`, `_refreshing` | refresh, sync, capture, import, maintenance | a list read before a write must not be committed after it; one refresh serves all waiters |
| Control-to-edge sync (`service.py:1181-1556`, `aliases/service.ts`, `aliases/repository.ts`) | `state`, access key and `edge_key_status` of each local alias; the edge row | issue, rotate, revoke, deactivate, reactivate, delete, create, status check, push-all | three threads push to the edge without ordering; pushes are lost, late, or built from stale reads; each handler reads and writes in two queries |
| Mailbox watcher (`mailbox_watcher.py`) | the index of codes, a UID cursor per folder, the connection | seed, poll, fetch, index, prune, reconnect; lookups | the cursor moves past what was not fetched; a warm index is trusted |
| IMAP bridge (`imap_bridge.py`) | a cursor per folder in a file | poll, upload | partial cycles, a crash before the cursors are written, duplicates |
| Cloud mail (`messages/service.ts`) | rows in D1, bytes in KV | ingest, retention, deletion | two stores without a transaction |
| Lookups (`web.py`, `service.py:1709-1880`, `rate_limit.py`) | sliding windows, IMAP slots | charge, poll the index, fall back to a scan | bounds at their limit, wake-ups lost between a read and a wait |
| Browser capture (`browser_capture.py`) | one job with its state and cancel event | start, cancel, transitions, finish, shutdown | cancellation racing completion |

How they interact: the job worker runs one item at a time and takes the remote
write fence of `service.py:546` around every Apple write; snapshots of Apple's list
are refused or discarded while that fence is held. A created alias, an issued,
rotated or revoked key and a state change are pushed to the edge by the thread that
made them; a reconcile thread repeats the pushes periodically. The watcher and the
bridge read the same IMAP mailbox independently. Capture feeds the session store.

What would make each part correct:

* creation jobs: no lost alias, no double creation, no success without an alias and
  a key, every job ends or stops for an operator, an unknown outcome is never replayed;
* bulk jobs: a destructive write is not repeated without an operator, and `unknown`
  means that it may have happened;
* snapshots: a snapshot never undoes a lifecycle write, a partial list never
  deactivates aliases, waiters get the outcome of the refresh they waited for;
* edge sync: a key at the edge is replaced only on purpose, and the edge converges
  to the local aliases, keys and states;
* watcher and bridge: a message that stays in the mailbox is eventually indexed and
  uploaded, and no cursor passes one that is not;
* cloud mail: a readable message keeps the bytes of its attachment, kept bytes have a row, expiry deletes both;
* lookups: a waiter is woken by a code and answered in time; the connection that scans
  share is used by one of them at a time;
* capture: at most one capture has the browser, and a cancelled one stores nothing.

## The modules

| Module | Models | Runs | Proofs |
|---|---|---|---|
| `BatchJobs` (`MCBatchJobs`) | creation jobs | `batch_core`, `batch_faults`, `batch_forgotten`, `batch_zombie` | `BatchJobsProofs` |
| `EdgeSync` (`MCEdgeSync`) | the control and the edge worker, composed | `edge`, `edge_rotation`, `edge_interleaved` | `EdgeSyncProofs` |
| `HmeSession` (`MCHmeSession`) | session, snapshots, writes, the creation that shares their lock | `hme_core`, `hme_shutdown` | `HmeSessionProofs` |
| `BulkPromise` | what a bulk job promises | `bulk` | |
| `BulkJobs` (`MCBulkJobs`) | bulk jobs; implements `BulkPromise` | `bulk` | `BulkJobsProofs` |
| `Mailbox` | what the IMAP modules share | | |
| `CodeLookup` | watcher, index, long poll | `parts` | `PartsProofs` |
| `ImapPool` | scans and the pooled connection | `parts` | `ImapPoolProofs` |
| `MailBridge` | the bridge to the worker | `parts` | `MailBridgeProofs` |
| `MailStore` | the worker's messages and attachments | `parts`, `store_reclassified` | `MailStoreProofs` |
| `BrowserCapture` | captures of an Apple session | `parts` | `PartsProofs` |
| `MCParts` | the five parts above in one run | `parts` | `PartsProofs` |

## BatchJobs: the alias-creation worker

`BatchJobs.tla` models the `create_aliases` job from submission to its verdict:
`create_alias_job`, the worker thread of `BatchJobManager`, every path of
`_create_alias` with its exception handlers, the recovery transaction at start-up
and the operator's resume. Apple is external: `remote` says which row's `reserve`
created an address.

*State.* `job` and `item` are the two batch tables (an item's `flag` is
`reconcile_before_reserve`, `cand` its saved candidate), `local` and `keyed` the
alias rows and their issued keys. `pc`, `cur`, `cand`, `attempted`, `explicit` and
`stopping` are what the process holds in memory and a crash erases.

*Steps.* Each transaction and each call to Apple is one action, in the order of the
code, so that a crash, a stop request or a lost answer can fall between any two:
`prelude` (fresh session, fence, candidate loaded), `generate`, `snapshot` (look the
candidate up before reserving it), `fence`, `reserve`, `resnap` (look it up after a
failed reserve), then the three transactions of `_complete_created_alias` and the
audit row. A pause is two or three transactions: the row (`Retry`, `PauseForRateLimit`,
`PauseForCapacity`), the job (`PauseJob`) and the audit row (`PauseAudit`, `PauseFull`).
They run inside the `try` of `_create_alias`, so the catch-all of `jobs.py:1253` takes their
exceptions too (`UnexpectedError`); `ParkJob` is the same pause taken by an exception handler,
where a failure ends the job (`WorkerFailsSafely`). `Reserve...` actions let Apple create the alias whether or not the answer
arrives. `SyncAliases` is the rest of the gateway adding the aliases of Apple's list.

*History.* Two variables name the two places where the code breaks what the rest of it
upholds, so that the properties can say that there is no third. `forgotten` has the aliases
Apple created whose row lost its candidate in an interrupted prelude (finding 1). `slipped`
has the jobs whose pause failed at its audit row, after the job was queued: the worker makes
the row unknown and then stops the job, and until it does a job with an unknown row is one
that could be claimed (divergence 7).

*Switches.* `UnexpectedErrors` and `ListMayTruncate` turn on faults one at a time. Both are
possible in the real program, and each breaks properties that hold without it. Stops and
network errors are never switched off, in the prelude or elsewhere.

| Run | Instance | Shows |
|---|---|---|
| `batch_core` | 2 jobs of 2 items, 5 addresses, 2 adverse answers, 1 stop or crash, no switch, weak fairness | a reserve is never sent for an address that exists (`NoRepeatedReserve`); a success is backed by an alias, a row and a key (`SuccessBacked`); an item creates one alias at most, forgotten ones apart (`OneAliasPerItem`), and only an interrupted prelude drops the candidate of an alias that exists (`OnlyPreludeDrops`); a finished job has decided all rows (`TerminalSettled`); nothing is shown as running without a worker (`NoStrandedWork`); every queued job is decided or stopped for an operator (`JobsSettle`) |
| `batch_faults` | 1 job of 2 items, 4 addresses, 3 adverse answers, 3 restarts, both switches on | the invariant `WorkerInv` of the proofs, `TypeOK` included; an unknown row stops automatic replay, unless the job slipped (`DoubtStopsReplay`); an incomplete list never unmarks a candidate the database lists (`KnownCandidateStaysMarked`) |
| `batch_forgotten` | violation | see finding 1 |
| `batch_zombie` | violation | see finding 2 |

*Bounds.* Two jobs are needed for the claim order and for a row of one job to be
touched while another runs, two items for the loop to pass over or restart at a
decided row. One fault loses the answer of a reserve and the other one interrupts what
follows it, a look-up or a prelude; a crash or a stop comes on top. `batch_faults` has three
of each for "answer lost, list unavailable, crash, list unavailable again", the longest chain
in which a candidate changes its mark twice. Every candidate needs an address: four items
and the one alias that two faults and a crash can make them forget are the five addresses
of `batch_core`; with fewer, generate would have nothing to suggest and a job would not end. Addresses are symmetric, and the run without liveness says so. Deadlock is not checked: an idle worker whose jobs are all decided
really stops.

*Fairness.* `WF_vars(Worker)`: the worker thread is scheduled and Apple's answers or
time-outs arrive (every call has one). `WF_vars(Start)`: a process that ended is
restarted (`docker-compose.yml:71`, `restart: unless-stopped`). Submissions, stops,
crashes and the operator are not fair. Adverse answers are finite in a behaviour.

*Proved* (`BatchJobsProofs.tla`), for all numbers of jobs, items, addresses, faults
and restarts and all switches:

* `TypeCorrect`: `Spec => []TypeOK`; `SuccessIsBacked`: `Spec => []SuccessBacked`;
* `DoubtStops`: `Spec => []DoubtStopsReplay`; `MarkIsKept`: `Spec =>
  KnownCandidateStaysMarked`;
* `NeverReservedTwice`: if lists are not silently truncated, `Spec => []NoRepeatedReserve`;
* `OneAlias` and `CandidateIsKept`: under the same condition `Spec => []OneAliasPerItem` and
  `Spec => OnlyPreludeDrops`, with stops, crashes and network errors anywhere, the prelude
  included (finding 1 is the exception they make);
* `NothingStranded` and `VerdictIsRight`: if every exception is one that a handler names,
  `Spec => []NoStrandedWork` and `Spec => []TerminalSettled`;
* `WorkerInvariance`: `Spec => []WorkerInv`, the conjunction of the three invariants below.

None of these properties is inductive. Three invariants carry them.

`IInv` says what is known at each place the worker can stand. `NoRepeatedReserve` at
`reserve` was established at `snapshot` or `generate`, possibly by an earlier process:
`WorkerAt` ties the worker's locals to the row it is at; `CandidatesOwned` says that two
rows never hold the same candidate and that nobody else creates it; `UnflaggedIsFree` that
a candidate whose flag is off does not exist at Apple; `GeneratingHasNoCandidate` that
recovery may drop the row of an interrupted generate. One lemma per part shows that every
action preserves it.

`LoopInv` relates the job to the place in the loop: the job that is held is running or, in
a sleep or a pause, queued; no row of a job that may be claimed, or goes on, is in doubt, but
for a job that slipped; if every exception has its handler no job slips, and every row
the loop has passed is decided, because it leaves a row undecided only on the way out of a
stop. Nearly every action is an `InStep` (it changes at most the row it is at, and leaves it
running, undecided or in doubt only as said), and `InStepKeepsLoop` is proved once.

`AliasInv` says that a row has a candidate or an alias and not both, and that what Apple
created for a row is one of them, or was forgotten. Every action is `Tracked`: it keeps the alias, drops a
candidate only if Apple did not create it and a mark only if the database does not know the
candidate, or it turns the candidate into the alias. The two action properties are read off
`Tracked`.

The assumptions are the three named `ASSUME`s of the module (bounds are naturals, the absent
address is not an address, the switches are Booleans). Only model-checked: liveness.

*Left out.* Labels, notes, audit rows and messages (no control depends on them);
clocks (a wait that elapses is a free choice, which includes every schedule); the
failure of the worker's own last `set_batch_job_status(..., "failed")`, which is
suppressed at `jobs.py:654`; the one-call client path of `jobs.py:1170`; Apple
sessions that vanish inside one item, which the HME lock excludes.

## EdgeSync: the control and the edge worker

`EdgeSync.tla` composes the two halves of one alias: its row in the control's
database and its row at the Cloudflare worker, with the requests between them.

*State.* `state`, `key` and `status` are the columns of the control's row
(`status` is `edge_key_status`); `edge` is the worker's row. `net` holds one request
for each of the control's three pushing threads, and the places `Late` for requests
whose client stopped waiting. `at`, `payload`, `confirm` and `had` are the locals of
the threads: `op` stands for all operations under the HME lock, `job` for the creation
job, which pushes outside it, and `rec` for `_edge_reconcile_loop`, which takes no
lock. Keys are numbered in the order they are generated; `CloudKey` is a key the edge
may have before the control knows the alias.

*Steps.* An operation's transaction and the sending of its push are one action, since
both happen under the lock and the push starts at once; the answer is another. The
issue has its real parts: status check, gate, transaction, push. The reconciler checks
the status, lists the alias, and pushes what it listed. `Serve...` are the worker's
handlers; `Stored` is the SQL statement of `aliases/repository.ts:52`. A
handler reads the row in one step and writes in another, as the real one does (it awaits two
queries and several digests); in between any other handler may write. `Fail` loses a request
or its answer, or abandons the request to a late place; a process crash is one fault
for each thread it kills.

| Run | Instance | Shows |
|---|---|---|
| `edge` | 3 keys, 2 operations, 2 faults, 1 late request, the edge starts with a key of its own, fairness | the inductive invariant `IInv`; but for handlers whose read is out of date, a key is replaced only by an issue that asks for it (`NoFreshReplacement`), removed only by a revocation, deactivation or deletion (`NoFreshRemoval`), set back only by an abandoned request (`FreshMoveForward`), and an issue the worker acknowledges installed exactly the key it carried (`FreshIssueInstalled`); the edge's own key is replaced only on the operator's word (`CloudOnlyKeyGuarded`); the edge gets a key it lacks (`EdgeGetsKey`), and every active alias (`ActiveRegistered`) |
| `edge_rotation` | violation | see finding 3 |
| `edge_interleaved` | violation | see finding 4 |

*Bounds.* Three keys are the edge's own, one of the control and its successor; two
operations are a creation or an issue and the rotation, revocation or change of state that
overlaps one pass of the reconciler. Two faults lose the push and then the answer of the
status check that should have noticed it. One late place suffices for a stale request
to meet a newer key. Deadlock is not checked: without a row in the database nothing
of the control has anything to do.

*Fairness.* Each thread of the control runs (`WF` of `Op`, `Job`, `Reconcile`) and the
worker answers (`WF` of `Serve(p)`). Every exchange of the control has a timeout
(`edge_sync.py:79`), so a request does not block its thread for ever; the loop repeats
every `edge_reconcile_seconds`. Operators and faults are not fair.

*Proved* (`EdgeSyncProofs.tla`), for all numbers of keys, operations, faults and late
requests, with or without a key at the start, however the handlers interleave: `Invariance`
(`Spec => []IInv`), `TypeCorrect`, `FreshReplacementIsAsked`, `FreshRemovalIsAsked`,
`FreshKeysGoForward`, `FreshAcknowledgedIsInstalled` and `CloudKeyIsGuarded`.

`IInv` has the types, which kind of request each thread waits for (`OwnSteps`), that the
control never holds or sends the edge's own key (`ForeignKey`), that no key that is held, read
or sent is newer than the last one generated (`KeysGenerated`), that only the operation under
the lock has an issue under way, with the newest key (`NewestIssued`), and what is known while
the edge still has its own key (`CloudKeySeen`). Two lemmas carry the `Fresh` properties:
`ServeChangesKey` says what a handler whose read is up to date can do to a key, and
`ReplacedByNewest` that an issue its client still waits for carries the newest key. Their
exception is a handler between whose two queries another one changed the key (`Stale`), and it
is needed: `edge_interleaved` shows a replacement, and a push without key clears a key in the
same window (divergence 10). `CloudOnlyKeyGuarded` makes no such exception. The gate of the
issue reads the stored status, which three threads write, so the invariant says that while
the edge keeps that key every handler under way has read it, every answer about it is
`present` and every issue that could replace it is explicit. The claim ends when the edge
loses the key: a handler that read it before may write it back, and the status is then wrong
(`restored`).

*Left out.* Labels, notes and sender filters; the Apple call that precedes a lifecycle
operation (BatchJobs and BulkJobs model such calls); hash-only keys that
cannot be revealed, which are pushed as no key; the worker's second read of the row
for its answer; the fail-fast probe of `push_all` (`service.py:1507`), which is a
failed pass.

## HmeSession: the Apple session, snapshots and writes

`HmeSession.tla` models the threads that share one Apple session inside the control
process: console requests, the maintenance loop, browser capture and the job worker,
with the lock `_hme_lock`, the write fence, the alias generation and the single-flight
refresh of `service.py:509-740`, the console's three writes (`service.py:1610-1707`) and
the part of `_create_alias` that holds the lock (`jobs.py:1005-1275`).

*State.* An alias is the number of changes Apple has made to it (`apple`); `row` is the
number the local row reflects, even for active, odd for inactive. `session` is the stored
one and `issued` the newest there is. `hmeLock` is only held between steps by a creation:
every other section under the lock is one step. `remoteWrite` and `active` are the two
halves of the fence, `generation` is `_alias_generation`, and `refreshing`, `refreshes`
and `refreshError` are the refresh under way and the outcome of the last. `th` holds
each thread's place and locals.

*Steps.* A snapshot is `Begin` (generation remembered), `Read`, `Ask`, `List`, `Commit`
(generation compared); `Enter`, `Wake` and `End` are the single flight around it. A write
is `Fresh`, `Fence` (outside the lock), `Activate` (under it), `Open`, `Write`, `Confirm`,
`Apply`, `Unfence`; any of them may fail and then only `Unfence` is left, as in the code's
`finally`. A creation is `OpenCreate`, `Call`, `Reopen`, `Lookup`, `Store`, `Release`,
`Closeout`: its client may rotate to a newer session, which is stored when the client is
closed unless somebody replaced the session meanwhile. `Elsewhere` is Apple's user, who
changes aliases on Apple's own pages; `AskStop` and `SetStop` are `request_stop`.

| Run | Instance | Shows |
|---|---|---|
| `hme_core` | a console that reads and writes, a worker that writes and creates, 1 alias, 2 operations, 1 change elsewhere, rotating clients, fairness | the inductive invariant `IInv`, in which are `TypeOK`, that no row is ahead of Apple (`NeverAheadOfApple`) and that one thread refreshes (`SingleFlight`); a row never goes back, whatever list is committed (`SnapshotsMoveForward`); no write is admitted after the stop (`NoWriteAfterStop`); no stored session is replaced by an older one (`SessionsMoveForward`); every operation ends, unless a creation waits for a refresh with the lock held (`OperationsEnd`) |
| `hme_shutdown` | violation | see finding 5 |

*Bounds.* Two operations are a write between the beginning and the end of a snapshot, a
refresh that waits for another, or a creation and a refresh; a third only repeats one of
these roles. One change of an alias (active, inactive, gone) is enough to tell a stale list from a current
one. A list without the only alias is empty, and an empty list is refused while there is a
row (`service.py:783`), so the run does not reach the branch that makes an unlisted row
inactive; the theorems are about any number of aliases and cover it. Deadlock is not checked: an idle process has nothing to do once the bounds are
reached.

*Fairness.* Each thread is scheduled (`WF` of `Run(t)`), Apple's calls have timeouts, and
`request_stop` gets the lock once it is free for good (`WF` of `SetStop`). Nothing starts
fairly. With two operations nobody can starve a thread of the lock; that the
real lock is fair is therefore not assumed, and not shown either.

*Proved* (`HmeSessionProofs.tla`), for all sets of threads and aliases and all bounds:
`Invariant` (`IInv`), `TypeCorrect`, `RowsNeverAhead`, `OneRefresh`, `RowsMoveForward`,
`StoredSessionMovesForward`, `NoWriteAdmitted`. The argument: a list is read at some
generation and committed only if the generation is still the same (`SnapshotCurrent`).
Every step that moves a row or the session either advances the generation or is made
by the thread that holds the fence or the lock, and `LockHeld` and `FenceHeld` say which
place of which thread that is; so a list that passes the comparison knows every row. A
creation stores its row under the lock without a new generation: what saves it is the
fence, since the snapshots that began before it are stale since `Activate` and no other
begins. The lemma `StepPreserves` carries the other threads over a step from
four facts about it: what it does to the lock, the fence, the rows and the refresh. Each action has
to be looked at only once.

Only model-checked: `OperationsEnd`. `SingleFlight` is claimed until the stop event is
set: a stop wakes the waiters early, and each then starts a refresh of its own
(`service.py:573`) that ends without storing anything.

*Left out.* Partial lists (BatchJobs has them), the displayed state, the clock of
`_ensure_hme_fresh` (fresh or not is a free choice), the upload of a saved session, the
capture's own steps, and `create_aliases` and `bulk_alias_action` of the service, which
only tests call. Closing the client of a successful look-up is part of `Release`.

## BulkJobs: the destructive bulk jobs, and what they promise

`BulkPromise.tla` is what an operator is promised of a bulk deactivation or deletion
(`README.md:278-279` of the repository): each row is carried out at most once, one row at
a time, it is told truly, `unknown` is always a true answer (also for a row that was carried
out), and nothing of its job follows an unknown row. It knows only what is told (`told`), what Apple did (`done`) and
whether an exception was raised that no handler names (`broken`): after one a row that was
carried out may be told to have failed (`jobs.py:1391`), and the promise says so.

`BulkJobs.tla` is how it is kept: `create_bulk_job`, the worker loop and `_bulk_alias`
with its handlers, `deactivate_alias` and `delete_alias` of the service with the write
lock, the write and the confirming list, the recovery transaction, and an operator who
changes the same aliases from the console. It implements the promise:

    Promise == INSTANCE BulkPromise WITH told <- item, broken <- errors > 0

`done` is a history variable of both. `Check` reads the alias before the lock and `Open`
again under it; between the two the operator may have changed it or deleted it with its
local row (`ConsoleEnds`; `NotFoundError` then, and the row fails). `Confirm` believes Apple's
list only. `Apply`, `Drop` and `Push` are what follows the confirmation: the list is stored,
the row of a deleted alias goes, and the edge is told. If that push fails the write is
confirmed and committed, and the row is unknown all the same (`service.py:1640` and `1703`,
`jobs.py:1380-1390`).

| Run | Instance | Shows |
|---|---|---|
| `bulk` | 2 jobs of 2 rows, 2 aliases in any state, 1 call to Apple or push to the edge that goes wrong, 1 unforeseen exception, 1 change by the operator, 1 stop or crash, fairness | the inductive invariant `IInv` of the proofs; the refinement (`Promised`); a write is begun with the alias in the required state (`WritesRequiredState`); every job ends or waits for the operator (`BulkEnds`) |

*Bounds.* With two jobs of two rows a crash can leave a row in doubt before another of its
job and before another job on the same aliases; one of each fault is enough, because the
promise relates single steps. Deadlock is not checked: when every job has ended nothing is
left to do.

*Fairness.* The worker thread runs and Apple's calls have timeouts (`WF_vars(Worker)`); the
process is started again after it ended (`WF_vars(Start \/ Exit)`, `docker-compose.yml:71`).

*Proved* (`BulkJobsProofs.tla`), for all numbers of jobs, rows, aliases and faults:
`BulkInvariant` (`IInv`), `WritesInRequiredState`, `PromiseKept` (`Spec => Promised`).
A step of the worker is a step of the promise only in certain states: a row is begun
only if none of its job is unknown (`DoubtStops`) and no other is under way
(`OneUnderWay`); a row told as success must be done, one told as failed must not be
(`DoneKnown`), which the worker knows from where it stands (`Placed`). For each action
one lemma shows that `IInv` survives and that the step is one of the promise or a
stutter.

*Left out.* The bulk actions `issue_keys` and `reveal_keys`, which write nothing at Apple;
sessions and refreshes, which are HmeSession's; idempotency keys of the request.

## The mail side, and the capture: five parts in one run

Five modules share no step with each other. `MCParts.tla` puts them into one run: a
behaviour is one of the watcher and its lookups, or of the pool, or of the bridge, or of
the worker's store, or of the capture, chosen in the initial state, while the variables
of the other parts stay as they are. Their state spaces add up and do not multiply, and
each keeps its own bounds. `Mailbox.tla` holds what the three IMAP modules share: the
mailboxes, folders and limits.

**CodeLookup** (`mailbox_watcher.py`, `web.py:232`, `service.py:1709-1880`): the watcher's
thread with its cursors, index and windows, and the long poll that waits on it. The
watcher's steps are `Begin` (configuration, connection, new cursors), `Select`, `Store`
for one folder after the other, `Finish` (prune, `_last_success`) and `Notify`. A request
goes through `Prepare`, `FirstLook`, `Listen`, then `Clear`, `Look`, `Park`, `Wake` again
and again until it is answered or its time is up, or through a `Scan`. Mail arrives and
grows old, commands fail, the operator configures another mailbox.

**ImapPool** (`imap_otp.py:204-599`, `service.py:1079-2056`): scans, console lists and
configuration checks that take and give back the one pooled connection, each with its
semaphore, its passes over the folders and its `finally` blocks.

**MailBridge** (`imap_bridge.py`): one run over the folders with its limit, the uploads,
and the file of cursors that is written once in the end. A crash forgets the cursors of the
run, not the uploads.

**MailStore** (`messages/service.ts`, `messages/repository.ts`): messages and attachments
in D1 and their bytes in KV, one query or call per step, for concurrent deliveries of the
same messages, an overlapping clean-up and changes of the alias, each of which may stop
half-way. Each delivery decides anew whether its bytes are kept (`keep`, `service.ts:323`),
while the row keeps what the first one said (`perm`, `INSERT OR IGNORE`); `Insert` and the
`Select` of the row that was there are two steps.

**BrowserCapture** (`browser_capture.py`): the manager with its one job, and the thread of
each capture from the browser to its status.

| Run | Instance | Shows |
|---|---|---|
| `parts`, all | two mailboxes | `PartsInvariant`, the inductive invariants of the proofs |
| ... lookup | 1 request, 2 folders, 2 messages, 1 message per cycle and 1 in the index, 1 fault, 1 change of mailbox | a waiting request misses no wake-up (`NoLostWakeup`); a message the cursor passed is indexed, pushed out by newer ones, or was skipped by that very step (`SeenIsIndexed`); every request is answered (`LookupsEnd`); once nothing fails the index catches up, also with another mailbox (`MailReachesIndex`) |
| ... pool | 2 scans, 3 connections, 2 mailboxes, 1 fault, 1 slot of each kind | no connection is shared, used for another mailbox, or left open and forgotten (`ConnectionsAccounted`) |
| ... bridge | 2 folders, 3 messages, 1 message per run, 1 failure or crash, 1 change of mailbox | no cursor passes a message the worker does not have, unless it is too large or older than a first run looks (`PassedWasTaken`); the worker gets every message (`BridgeDrains`) |
| ... store | 2 messages, 2 rows, 2 deliveries, each of a kept or a temporary message, 2 handlers, 1 scheduled run, pages of 1, 1 stop half-way, 1 change of the alias | a message that can be read has the bytes of its attachment, unless a delivery that called its permanent row temporary put them last (`BytesReadable`); bytes that are kept are named by a row, or lost theirs in one of two known windows (`KeptBytesNamed`); what expired goes (`NothingStays`) |
| ... capture | 2 captures | one capture at a time has the browser, and a cancelled one has stored nothing (`CaptureAlone`); a capture ends (`CapturesEnd`) |
| `store_reclassified` | violation | see finding 6 |

*Bounds.* The limits of one message make every cycle and run leave something out as soon as
two messages are there; two folders let a cycle break between them; two mailboxes let a
configuration and cursors disagree. One request suffices for the long poll, since requests
do not see each other; the pool needs two scans to fight over a connection and a third
connection to forget. Two captures are the old one and the one that may not start yet.
The lookup starts with a configured mailbox and the store with an active alias: without one
nothing happens before the change that brings it, and one change is all the bounds allow.
Deadlock is not checked: the pool and the bridge may start without a mailbox, and then
nobody has anything to do.

*Fairness.* The watcher's thread, the bridge's task, the handlers of the worker, its
schedule and the threads of captures go on (`WF`). A request's deadline comes however often
the request is woken before (`SF_vars(TimeUp(r))`): `_wait_for_code` computes the time that
is left before each wait, and `WF` would let wake-ups put it off for ever. Mail, faults,
configurations and cancellations are not fair.

*Proved*, for all mailboxes, folders, messages, scans, requests, handlers, captures and
limits: every safety property of the run and the invariants it checks.

* The lookup (`PartsProofs`): `NoWakeupIsLost`. The invariant must know which entries a
  request cannot have seen: `Announced` says that a request that listens, and has not seen a
  cycle end, can find only entries that the cycle under way still announces (or that a
  broken one dropped); `WarmStays` that the index is warm for a request that has seen one
  end. `PassedIsIndexed`: `SeenIsIndexed` becomes inductive with `IndexInvariant`, which adds
  that UIDs count the messages of a folder (`UidsCount`) and that neither a cursor nor the
  messages to fetch are ahead of the watcher's mailbox (`CursorsBehind`), or a message could
  arrive below a cursor. The rest is about cardinalities: an entry that `_store` or `_prune`
  takes out leaves as many newer ones as the index may hold, however many arrive at once and
  whether or not some of them came at the same time.
* The pool (`ImapPoolProofs`): `PoolAccounts`. `ConnectionsAccounted` is nearly inductive; it
  needs that a scan with a slot knows its mailbox (`BoxKnown`).
* The bridge (`MailBridgeProofs`): `CursorsPassTakenMail`. Cursors must not be ahead of their
  folder (`CursorsBehind`), or a message would arrive below one; a folder under way is taken
  from below (`FromBelow`), so that `highest` never passes a message that is left. That a
  folder has a lowest message uses the well-foundedness of the naturals.
* The store (`MailStoreProofs`): `StoreStaysInOrder`. `BytesReadable` needs to know that
  what a scheduled run has listed cannot be read any more, however long ago it was listed
  (`ListedIsGone`); that holds because an id that was given belongs to one message and its
  row never comes back (`IdsInOrder`), and because a handler puts bytes for the message of
  its row only, so that bytes with an expiry under a permanent row are those of a delivery
  that called it temporary (`BytesOfRow`, `retimed`). `KeptBytesNamed` needs the same.
* The capture (`PartsProofs`): captures are started in order (`CaptureOrder`).
* All of them (`PartsProofs`): the parts share no variable, so a behaviour of all is one of
  each (`PartsAreLookup`, `PartsArePool`, ...), and `PartsKeepInvariant` states the inductive
  invariants of the five together, from which `ConnectionsStayAccounted`, `PassedStaysTaken`,
  `BytesStayReadable`, `KeptBytesStayNamed` and `CapturesAreAlone` are read off.
  `MCParts` instantiates the modules of the proofs, not only those of the components, so
  that their theorems can be cited.

The assumptions are on constants only: `None` is no mailbox, connection or message; a mailbox
has at least one folder, a cycle fetches and the index holds at least one message of a
folder or alias (`MailboxAssumption`, `LimitsAssumption`); the worker's rows are
counted and `None` is none of its messages (`StoreConstants`); bounds are natural numbers. `BridgeMail` is the bridge's own
bound on messages, so that the lookup and the bridge can differ in size in one run. Only
model-checked: liveness.

*Left out.* The windows of `rate_limit.py` and of the worker (that a request is refused is a
free choice); parsing, scoring, sender filters and mail tags; rows from
before migration `0003`, which made them all permanent (the model's database starts empty; a
later delivery of such a message is one that may call a permanent row temporary); the console's cache; the
state the console shows of a capture, which is published outside its lock.

## Findings

Each is a counterexample of a run; the lines quoted are in `PROJECT.json`.

1. `batch_forgotten` (`jobs.py:1230`): an interruption before the saved candidate is
   loaded drops it from the row, although Apple has the alias.
2. `batch_zombie` (`database.py:1205`): a crash between marking a row unknown and
   stopping its job leaves the job running for ever.
3. `edge_rotation` (`service.py:1490`): a rotation whose push is lost is never healed,
   since the reconciler sends no key to an edge that has one.
4. `edge_interleaved` (`aliases/service.ts:100`): the decision to replace is taken on a
   row read earlier; a key installed in between is overwritten.
5. `hme_shutdown` (`jobs.py:891`): a creation waits for a refresh while it holds the lock
   the refresh needs; both wait for ever, and the stop waits for the lock.

6. `store_reclassified` (`messages/service.ts:268`): a second delivery of a message, with
   another envelope, puts the bytes of a permanent row with an expiry; they go, and the
   attachment of a message that can be read is pending for ever.

Divergences met while modelling that no run checks, because the properties above are
stated so as to allow them:

7. A pause queues the job (`jobs.py:532`) before its audit row (`537`). If that fails the
   catch-all makes the row unknown (`1257`) while the job is queued, and only the worker that
   goes on stops it (`749`); if the process dies before, the job is claimed again, although
   `jobs.py:752` says that automatic replay stopped. `DoubtStopsReplay` excepts these jobs
   (`slipped`).
8. An alias that becomes inactive without a successful push stays active at the edge, key
   included: the reconciler pushes active aliases only (`service.py:1467`).
9. An issue that timed out and is carried out later puts an older key back
   (`aliases/service.ts:153`); `FreshMoveForward` excepts exactly these requests.
10. A push without key that meets a key installed between its read and its write clears
   it (`aliases/service.ts:66`), and a push with a key puts back the one it had read;
   `NoFreshRemoval` and `FreshMoveForward` except handlers with such a read (`Stale`).
11. A payload the reconciler read before a revocation brings the revoked key back to the edge
   that has none by then (`service.py:1480`). No property claims otherwise.
12. After the stop two refreshes may overlap (`service.py:573`).
13. The bridge's cursors are keyed by the folder's name: with another mailbox its messages
   below the old cursors are never uploaded (`imap_bridge.py:104`). `PassedWasTaken` and
   `BridgeDrains` are claimed until then (`switched`).
14. An upload the worker always refuses stops its folder at that message for ever
   (`imap_bridge.py:132`); faults are bounded in the model.
15. Messages the watcher does not fetch, in a failed batch or above the limit of a cycle, are
   passed by its cursor (`mailbox_watcher.py:369`); `SeenIsIndexed` names them (`skipped`).
16. A handler that stops between the bytes of a permanent message's attachment and its row,
   or meets the clean-up there, leaves bytes nobody deletes (`messages/service.ts:249`);
   `KeptBytesNamed` names them (`leaked`).
17. A cycle that breaks after it added entries does not announce them
   (`mailbox_watcher.py:339`); `NoLostWakeup` allows for it (`dropped`), and the request then
   waits for the next entry or its deadline.
18. An alias the database knows that was deleted at Apple elsewhere makes every look-up
   unavailable until its row is deleted (`jobs.py:927`), and a job that has to look up its
   candidate retries as long; aliases are not deleted in `BatchJobs`.

## What stays with TLC

Liveness under fairness and everything that needs `ENABLED` are out of the proof system's
reach, so `JobsSettle`, `EdgeGetsKey`, `ActiveRegistered`, `OperationsEnd`, `BulkEnds`,
`LookupsEnd`, `MailReachesIndex`, `BridgeDrains`, `NothingStays` and `CapturesEnd` are
model-checked only. Every other property of a passing run, invariant or action property,
is a theorem. The counterexamples of the six runs that expect a violation stay what they
are, behaviours of one instance. No module declares a recursive operator. Every named
`ASSUME` is evaluated by the runs.

## Plan

The order followed the damage a fault would do: BatchJobs, EdgeSync and HmeSession first,
then BulkJobs with its promise, then the mail side and the capture. What would come next:

1. Apple's list read page by page in HmeSession (`hme.py:610`), which is one step now;
2. the sliding windows of `rate_limit.py` and of the worker;
3. the Python edge mode and the worker's admin routes in EdgeSync.

Runs stay few: a component that shares no step with the others joins `parts`.

## Not modelled

Parsing and scoring of messages and mail tags (data without control), the stateless HME
client and the parsers of imported sessions and proxies (their error classes are the
adverse answers of the models), cryptographic helpers, configuration, sign-in, and the
rendering and request decoding of the console and the worker. The admin routes of the
worker and the Python edge mode (`register_control_alias`) write the same rows as the
handlers of EdgeSync and are left out of it. The refresh of the mail tags stores a cache
that no decision depends on. The windows of the rate limits are left out because the
lookups must hold for any refusal.
