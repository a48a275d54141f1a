# Verification of Object Data Browser

TLA+ models of the Object Data Browser, the TLC configurations that check them on small instances, and theorems that
TLAPS checks for every value of the constants. All paths below are relative to the repository root unless they name a
file of this directory. `PROJECT.json` maps every definition to the source lines it stands for, and lists the runs,
the hazards and the mutants (a plausible bug for each property, under which TLC finds the property violated).

- [The system](#the-system)
- [What is modelled](#what-is-modelled)
- [Runs](#runs)
- [Fairness](#fairness)
- [Proofs](#proofs)
- [Findings](#findings)
- [Not modelled](#not-modelled)
- [Plan](#plan)

## The system

Object Data Browser is a Flutter application for S3-compatible and Azure object storage. On the desktop the
application starts *engines*, child processes written in Python, Go, Rust and Java, and talks to them in JSON lines
over stdin and stdout (`contracts/transport_contract.md`). On Android and iOS one engine runs inside the application.

| Component | State it keeps | Operations | Why it is hard |
|---|---|---|---|
| **Desktop engine host** `services/desktop_engine_host.dart` | permits in use (all, per engine), the queue of waiters, running and idle processes, benchmark pins, job owners, the requests pending on each process | `send`, `cancelListings`, `dispose`; answers, progress events, exits, timers | every `await` interleaves with answers, deaths, cancellations and timeouts; permits are given back at five places |
| **Action scopes** `controllers/action_scope.dart` | the scope a call belongs to, cancelled or not | cancel, check | a cancelled mutation may have happened: `outcomeUnknown` |
| **Sidecar service** `services/desktop_sidecar_engine_service.dart` | capability caches | one method per application call | a codec around the host |
| **Application controller** `controllers/app_controller.dart` | profiles, listings, transfer and benchmark jobs, tasks | user actions, event streams | late listing pages, cancelled jobs whose events still arrive |
| **Upload batch, selection, persistence state** `controllers/*.dart` | per-file outcomes, selected keys, unsaved changes | run, skip, cancel, retry | partial failure |
| **Persistence and credentials** `services/app_state_repository.dart`, `atomic_metadata_store.dart`, `profile_secret_store.dart` | metadata file and backup, secret store | load, save, migrate | two stores updated in two steps, crash between them |
| **Python engine, request loop** `engines/python/src/main.py` | registry of transfer jobs | reader thread, eight workers, pause, resume, cancel | controls on one thread, job on another, parts on a pool |
| **Python engine, uploads and downloads** `main.py` | multipart uploads, staged files | upload, download | failing parts, lost answers, publication without overwriting |
| **Python engine, recovery** `main.py`, `advanced_workflows.py` | manifests, lock files, staged files on disk | start, resume, abort, verify | killed processes, unknown completions, competing requests |
| **Python engine, tools** `main.py`, `advanced_workflows.py` | benchmark state files, copy journals | benchmark, delete all, storage copy, history copy | long jobs with checkpoints, stop and resume |
| **Go, Rust and Java engines** `engines/*` | as the Python engine | the same contract | Go and Rust handle one request at a time |
| **Mobile engine** `services/mobile_*.dart`, Kotlin and Swift bridges | requests and cancellation tokens | the same contract in process | cancellation of platform requests |
| **User interface** `browser/`, `tasks/`, `benchmark/`, `settings/` | widgets | rendering | layout, no protocol |

How they interact: a user action opens a *scope* and calls the controller, which calls the service, which calls
`DesktopEngineHost.send`. The host admits the call (two per engine, four in all), gives it a process of its own and
writes the request. The engine answers, and sends `transferProgress` events meanwhile; the host learns from the first
event which process owns a job, so that pause, resume and cancel can be sent to that process although it is busy. In
the Python engine these controls run on the reader thread and change the registry entry that every *gate* of the job
reads. A benchmark goes on after its call has been answered; the host pins its process and its permit to the run.
Recoverable transfers keep a manifest on disk, so that another process can resume them.

What makes each component correct:

- *Host*: permits are neither lost nor returned twice; nobody is stranded in the queue; a process serves one call at a
  time; a benchmark's process can be found; cancelling listings touches listings only; a cancelled call does not
  deliver its result; every call ends.
- *Transfer job*: no part into a closed upload; a completed upload is whole; no upload is left open; a job can be
  controlled from its first event; a cancellation decides; a job ends.
- *Recoverable upload*: completion is sent at most once over all crashes and resumes; the manifest never claims what
  is not so; the published object is the identified file; another writer's object is not replaced against the policy.
- *Recoverable download*: only validated bytes are published, at most once, without overwriting; the staged file is
  not given up before; a completed download stays completed.
- *Plain download*: only whole objects, of the version that was asked for, become visible; nothing is overwritten;
  nothing is left behind.
- *Request loop*: a control is answered although paused transfers hold every thread.
- *Benchmark*: completion means exactly the budget; neither checkpoint nor status runs ahead of the history
  by more than the rows that could not be appended.
- *Delete-all*: success means that every entry is gone; the last resort only destroys what was listed.
- *Copy and move*: what is written is whole; `skip` and `fail` replace nothing; a source is only deleted when its copy
  is there.
- *History copy*: no entry twice, in order, and mapped to the version it made, wherever the replay is interrupted.
- *Credentials, listings of the application* (planned): see [Plan](#plan).

## What is modelled

### EngineHost

`EngineHost.tla` models the host: one action per continuation of `send`, `_enter`, `_acquireProcess`,
`_releaseProcess`, the process callbacks and timers, and the entry points.

- `pc` is where a call is in `send`: `new`; `queued` in `_enter`; `granted` (its waiter is completed, its continuation
  has not run); `starting` (awaits `Process.start`); `acquired`; `sent`; `answered` or `failing` (the answer or the
  error is there, the continuation has not run: after an answer `send` waits 2 ms for stderr); and the ends `done`,
  `failed`, `cancelled`. Calls that bypass the queue have phases of their own: `polling`, `polled`, `pollFailing` for a
  benchmark call routed to the owner of its run, `controlling`, `controlled`, `controlFailing` for a job control.
- `active`, `activeByKey`, `idleProcesses`, `jobOwners`, `benchmarkOwners`, `benchmarkKeys` and `disposed` are the
  fields of these names; `ahead` remembers who was queued before a waiter, which is all that the order of `_waiters`
  decides; `proc` and `reply` are locals of `send`; `paused` and `fresh` stand for the watchdog's fields of a pending
  request; `cancelled` and `outcomeUnknown` belong to the call's scope. `_starting`, `_listings` and the pinned
  processes are derived (`Starting`, `Listings`, `Pinned`).
- Dart code runs to its next `await` without interruption: everything between two awaits is one action, with the
  trailing `_wakeWaiters`, `_drop` and failing of pending calls that it performs. The loop of `_wakeWaiters` is
  described by its result: the set that `Grants` characterises.
- Abstracted: framing of lines, diagnostics, the order of the idle pool (any idle process of the engine may be taken
  or evicted), the clock (`Elapse` is the passing of a deadline without progress, an event makes a call `fresh`).
- Assumed of the callers (`KnownToCaller`): a call names a run only after the `startBenchmark` that created it has been
  answered.

### TransferJob

`TransferJob.tla` models one upload job of the Python engine: `_start_upload` with its generator `_bounded_parallel`,
the registry, `_transfer_gate`, `_transfer_control` and `_run_transfer`.

- `status` and `registered` are the `TransferControl` and the registry; `Pause`, `Resume` and `Cancel` run on the
  reader thread, at any time while the job is registered.
- `pc` is the job's thread. `Refill`, `Wait` and `Yield` are the three places of the generator, `Checkpoint` is its
  consumer. An exception goes through `CancelPending` (the generator's `finally`), `Drain` (the pool's `__exit__`) and
  `Abort`. `part` holds the state of each part's future and worker.
- A gate has one enabled alternative while the job runs, another once it is cancelled, and none while it is paused.
- The provider may refuse a request, or carry it out and lose the answer. `abandoned` remembers the uploads whose
  creation or abortion was not answered: nobody can be expected to close those.
- Abstracted: sizes (a file is its number of parts), progress figures, handles, events after the first one. A killed
  engine is a behaviour in which its actions stop.

### RecoveryUpload and UploadPromise

`UploadPromise.tla` is the abstract specification of a recoverable upload: a claim that goes from pending to unknown
to completed, or from pending to given up, and an object that is published at most once, only while the claim is
unknown. `RecoveryUpload.tla` is the code: `_transfer_recovery_action` and `_execute_recovery_upload` with the
manifest (`disk`), each request's copy of it (`mem`), the lock file, the pool, the provider, and the kill of any
request's process at any step. It implements `UploadPromise` with the claim read off the manifest (`Claim`).

- The steps are separated where the process may be killed with effect: before and after every write of the manifest
  and every request to the provider. A completion in flight is decided by the provider later (`Publish`, `Refuse`),
  also when its sender is dead.
- A part holds the identified bytes or others (`changed`), in the manifest and in `upload`; its ETag is its content.
  `dest` is what the key shows: nothing, another writer's object, this upload's file, or a mixture of two versions of
  it. `cleanup` is `cleanupRequired`.
- `FoundWhileStarting` says whether another request may find a manifest between its first write and the lock of
  `startResumableUpload`. The code does not exclude it; see [Findings](#findings).
- Assumptions: replacing the manifest is atomic and succeeds (a full disk is not modelled; a write that fails inside
  `_recovery_verify_completion` would turn a completed upload into a failed one); an edited file does not get its old
  identity back; the bucket is not versioned; all requests are made with the profile of the manifest.
- Abstracted: pause (it only delays), the number of workers (any number may run), `requiresVerification`, `error`,
  `ownerPid` and the progress figures.

### RecoveryDownload

`RecoveryDownload.tla` models `Workflows.download` and `execute_download`: the manifest (`disk`), each request's copy
(`mem`), the lock, the staged file (`stage` and what its ranges hold, `bytes`) and the directory it publishes to
(`files`).

- The steps are separated where a kill leaves something different on disk: the staged file and its manifest, the bytes
  of a range and its entry in the manifest, the intention to publish, `os.link` or `os.replace`, the removal of the
  staged file, the final manifest. `Interrupt` is the `except` clause.
- Workers only fetch ranges; the request's thread writes them one by one (`Write`, then `List`). `todo` is what is left
  of the ranges this request may receive (`maxRanges`).
- The environment may take a free name at any time (`OtherFile`) and write into the staged file while no request works
  on it (`Tamper`), as `tests/contract/test_python_workflows.py:201` does.
- Assumptions: replacing the manifest succeeds; nobody writes into the staged file while the lock is held; a published
  file is not moved or removed, and no other file has its digest. The remote object is guarded by `If-Match`, so that
  every range that arrives belongs to it; a changed object is a failing request.
- Abstracted: the search for a free name (some free name is taken when the wanted one is not free), sizes, profile
  checks, pause.

### StagedDownload

`StagedDownload.tla` models one plain download job, `_start_download` and `_azure_start_download` with
`_staged_download`. Both providers' handlers have the same steps; `azure` says which one runs, since the Azure worker does
not pass the gate between an answer and its body.

- `head` is what the HEAD requests found, `object` what the provider has now. `guarded` says whether HEAD gave an ETag,
  and so whether the GETs carry `If-Match`. `range` is the state of each range of the object at work, with the version
  its answer has; `stage` is what the staged file holds, `staged` whether it exists.
- `seen` is the listing of the destination, taken once before publication; `files` is the destination itself. `List`,
  `NextName`, `Link` and `Replace` are the steps between which other files may appear (`Appear`).
- A job that fails or is cancelled leaves through `Drain` (the pool's `__exit__`, whose threads may still write) and
  `Discard` (the `finally` that removes the staged file).
- Abstracted: lengths (a body of the wrong length is a broken range), the window of pending ranges, which is that of
  `TransferJob`, and the directory's own failures, which are those of `PlaceFails`.

### RequestLoop

`RequestLoop.tla` models `main`: `lines` is the pipe, `reader` the loop that reads it, `queue` and `thread` the
executor, `job` the registry. What a transfer does between its gates is one step here. `Answer` is disabled while the
transfer at a thread is paused: the gate holds the thread.

### BenchmarkRun

`BenchmarkRun.tla` models `_BenchmarkRun` and the functions that read and write its two files. `run` holds the run
objects of the process (`registry` is the one that `_BENCHMARKS` names), `lane` their worker threads, `csv` the history
and `saved` the checkpoint. `Reserve`, `Complete` and the ends of an operation are the critical sections of a worker.
`Crash` kills the process, between any two steps and within an append (`sound`). `StatusUnowned`, `ControlUnowned`,
`ResumeRead` and `ResumeStart` are a successor that is asked about a run it does not own. Several resumes may read the
files before one of them registers its run.

An operation ends in three writes, in this order (`_append_benchmark_history`): the totals (`total`, `records`), the row
of the CSV, and `processedCount` (`ops`), all after its reservation was given back. `Finish` and `Fail` are the cases in
which the row is appended (`Record`), and `AppendFails` the one in which it is not: the totals then count a row that
the CSV does not have, `processedCount` does not, and the worker is on its way to mark the run failed (`Failing`, then
`MarkFailed`). Until it has the lock again the other workers go on, and may reserve, record and complete with what the
failed append gave back. A save of the checkpoint may fail too (`Persist`), before or after the file is replaced; a
worker that could not save is failing as well. `lost` counts the rows whose append has failed; only the properties and the
bounds read it. `from` is what a run object began with.

What holds is therefore said with `lost`. `ProgressNeverLost`: neither the checkpoint nor a run object is ahead of the CSV
by more than the rows that could not be appended. `CompletedIsExact`: a completed run has just its budget, or what it
was resumed with if that is more, unless a worker is about to mark it failed; and while no append has failed, without
any exception. That a run which was completed by the others may still turn into a failed one is in the model.

Assumptions: an append that fails leaves nothing of its row, or a part after which the CSV cannot be read back, and never
the whole row; a write of the checkpoint for a run without an owner (`StatusUnowned`, `ControlUnowned`) succeeds, or
changes nothing; a kill may tear the row that is being appended, but loses none that was appended before.

### DeleteAll

`DeleteAll.tla` models `_run_delete_all` with `_iter_entries`, `_delete_batch_with_recovery` and
`_recover_delete_entry`. `cell` is what has become of each object or version at the provider; `lister` and `batch` are
the thread that lists and submits; `work` is each batch in the pool, with the entries that are still `pending` and
those that `failed`. The provider carries a call out, in part, or not at all, and may lose its answer; an error may
leave out the version it is about (`terse`). Other clients rewrite objects and may switch versioning on.

### StorageCopy

`StorageCopy.tla` models `_storage_copy_impl` with all its strategies, `_azure_copy_object` with its polls, and
`_move_object` (`moving`). `part` follows each part from its gate to the provider and back; `found` is the version that
HEAD saw and `pinned` whether it had an ETag to insist on. `Meddle` writes the destination at any time: what `skip` and
`fail` promise rests on the conditions of the last request (`Free`), not on the earlier look (`Check`).

### HistoryCopy

`HistoryCopy.tla` models the replay of `Workflows.history`. `manifest` is the journal on disk; `step` and `left` are
the request that has the lock. Each write is announced (`Announce`), sent (`Send`) and recorded (`Record`); the process
may be killed between them, and a request without an answer may be carried out later (`CarriedOutLate`). `Resolve` is
the operator who names the version of an uncertain write.

### Composition

`MCEngineWork` puts the five handlers behind one choice: `handle_request` dispatches a request to one handler, and
these share no state, so one kind of work at a time shows all their behaviours. `MCTransferJob` does the same for a job
in full (`TransferJob`) and the loop that feeds the executor (`RequestLoop`). `RecoveryUpload` implements
`UploadPromise`.

## Runs

| Run | Instance | What it shows |
|---|---|---|
| `host_mixed` | four calls, three engines, two permits in all, one per engine | accounting of permits, no stranded waiter, exclusive processes, the pool's limit, what a cancellation may touch |
| `host_bench` | launch, poll and resume of one run beside an ordinary call | nobody is stranded behind a pinned permit, and the pinned process can be found |
| `host_live` | a transfer, its control and a listing on one engine with one permit, under fairness | every call ends unless its transfer stays paused; types |
| `host_pinned_alive` | a launch whose process dies | violation, see below |
| `host_controls` | a transfer, a control, another call | violation, see below |
| `transfer_job` | a file of five parts and a small file, two workers; and two transfers, one thread, three controls | all properties of `TransferJob`; controls are answered although every thread is held |
| `recovery_upload` | three requests, two parts, every policy, empty file or not | all properties of `RecoveryUpload`, and that it implements `UploadPromise` |
| `recovery_upload_found` | two requests, `FoundWhileStarting` | violation, see below |
| `recovery_download` | three requests, two ranges, three names, both policies | all properties of `RecoveryDownload` |
| `recovery_download_late` | two requests | violation, see below |
| `engine_work` | one download, benchmark, delete-all, copy or history replay | the properties of the five handlers |
| `move_cancelled` | a copy or move | violation, see below |

Why these bounds are enough to be interesting. In `host_mixed` the limits are smaller than the number of calls, so that
calls queue for the engine, for the host, and behind each other, and an idle process of one engine must be evicted for
another; there are fewer permits than engines. In `transfer_job` five parts exceed the window of four pending parts
(twice the workers), so the window is refilled while a batch is consumed; a second file shows what is left behind by
the first, and that a cancellation stops what is queued. In `recovery_upload` three requests allow a start that is
killed, a resume that is killed as well, and a third that must find its way; or a start against two rivals. Two parts
are enough for a part that is reused beside one that is not. The file is edited at most once, since its identity never
comes back. In `recovery_download` three requests allow a download that is killed while it publishes, resumed and
killed again, beside an abort; the third name lets a second copy appear although another file has taken one. Requests,
parts, ranges and the other names are interchangeable, so TLC uses symmetry; the properties are safety properties.

In `engine_work` the download has an object of two ranges and a small one, which ask for two spellings of one name of
which two indices exist, while one file appears and each object is edited once: a name may be taken before or after the
listing, and the names may run out. The benchmark has a budget that two workers reserve from, in batches or one by one,
two resumes that find no owner, one kill, and one row whose append fails (`MaxLost`); that is enough for another worker
to complete the run with what the failed append gave back, and for a successor to find the CSV short. A run that only
time ends records one operation (`MaxOps`). Delete-all has two entries in one batch or in two, one thread, two tries
of each call and one rewrite, so that an entry may be retried, listed again, or rewritten in between. The copy has three
parts, two versions of its source and two polls. The replay has four entries of two keys, with a delete marker between
two versions of one key, two foreign versions and two kills.

`CHECK_DEADLOCK FALSE` is stated where the system stops by itself: all calls have ended, the job has ended, all requests
have returned.

## Fairness

- *Host*: weak fairness of the event loop (a completed future's continuation runs) and of timers. Nothing is assumed of
  an engine or its provider: an engine that never answers is why the no-progress deadline exists. A user's actions
  are never fair.
- *Request loop*: weak fairness of the reader and of each thread; a handler that is not held at a gate ends. The host
  owes nothing, and nobody must resume a paused job: that `ControlsAnswered` holds all the same is the point.
- *Transfer job*: weak fairness of the job's thread and of each worker, provider calls included: the client has
  connection and read timeouts, and refused and lost requests are modelled. Nothing is assumed of controls: `UploadEnds`
  is conditional on the job not being left paused, while `CancelledJobEnds` is not.
- *Recoverable upload and download, and the handlers of `MCEngineWork`*: no liveness is claimed.

## Proofs

`EngineHostProofs.tla` proves of `EngineHost`, for any numbers of calls, engines and processes and any limits:

| Theorem | Statement |
|---|---|
| `TypeCorrect` | every variable keeps its type; counts of permits are never negative |
| `PermitsAreAccounted` | until disposal, the permits in use are the calls past `_enter` plus the pinned benchmarks, in all and for each engine |
| `PermitsAreBounded` | the permits in use never exceed the limits |
| `ProcessesAreExclusive` | no process is shared by two calls, or by a call and a benchmark or the idle pool |
| `NobodyIsStranded` | a call only waits while the limits leave no room for it |
| `ProcessesAreBounded` | processes that run or are being started never exceed the limit, idle ones included |
| `CancelledNeverReturns` | a cancelled call does not return a result; a mutation that was under way becomes `outcomeUnknown` |
| `ListingCancelIsSafe` | `cancelListings` takes down no process that another call holds, nor one that is pinned |
| `PinnedProcessesReachable` | the run that pinned a process names it as its owner, as long as no two launches of one run are under way |

The first four rest on one inductive invariant, `IInv`, the conjunction of `TypeOK`, `Accounted`, `Bounded` and `Owning`.
`Accounted` alone is not inductive: that a permit is returned exactly once depends on which process a call has and on
which processes are pinned. `Owning` says that a held process was started, is not pinned and in no idle pool, that two
calls hold different processes, that idle processes are up, unpinned and in one pool, and that only started processes
are pinned, named as owners or called directly. The proof has one lemma per action for the parts it can disturb;
accounting rests on lemmas about the cardinalities of the sets of holders, and on one about `Grants` (what
`_wakeWaiters` grants stays below the limits), which is a set-theoretic definition so that no recursion is involved.
The assumptions are `RequestsAssumption` (finitely many calls and processes), `LimitAssumption` (limits are naturals),
`SentinelAssumption` and `RequestAttributes`.

The other five add to it what each of them needs:

- `NobodyIsStranded`: `NoStrandedWaiter` speaks of the permits after a step. `WakeServes` shows of `_wakeWaiters` that a
  waiter left behind was refused with no more permits taken than at the end of its loop; every action that gives a
  permit back or queues a call ends in that loop, and every other one leaves queue and permits alone.
- `ProcessesAreBounded`: `AllKnown` says that each live process is idle, pinned or held by a call. With `Accounted`, the
  pinned and the held ones have a permit each, and the new call has one without a process; so when `BeginStart` finds no
  room, what is too many is idle, and it evicts it.
- `CancelledNeverReturns` and `ListingCancelIsSafe`: `Moves` is the table of what one step may do to one call, whatever
  the step is (`CallMoves`). `Unplaced` says that a call has no process before it acquires one, `Cancellable` that only a
  scoped call or a listing is ever cancelled.
- `PinnedProcessesReachable`: `LaunchesUnowned` says that a run has no owner while it is being launched, so that
  `PinBenchmark` overwrites none. This is false of the host alone. `StartsAreFresh` is the engine's run identifier, new
  with every start (`main.py:4800`); `OneLaunchInFlight` is the controller's guard, which marks a run as resuming before
  its first `await`. The theorem has it as a hypothesis on the behaviour: two resumes at once are the hazard listed at
  `desktop_engine_host.dart:170`. In `host_bench` it holds of every state, since there is one start and one resume.

`RecoveryDownloadProofs.tla` proves of `RecoveryDownload`, for any numbers of requests, ranges and names:

| Theorem | Statement |
|---|---|
| `TypeCorrect` | every variable keeps its type |
| `ValidatedBytesOnly` | no file is published with bytes that were not validated |
| `AtMostOneCopy` | one download publishes at most one file |
| `EndsTruthfully` | a completed manifest names a published file; neither it nor an aborted one leaves a staged file |
| `NeverOverwrites` | under `keepBoth` nobody else's file is replaced |
| `KeepsStage` | the staged file only goes after publication or for an abort |

All rest on one invariant, its `IInv`. `PublishedOnce` says nothing of why a resume does not publish again: for that,
`LockHeld` says that exactly the requests in the places of `Locked` have the lock, `Findable` that as long as the staged
file is there a published file can be found from a manifest that says `publishing`, and `Knows` what each request may
rely on at its place (nothing is published yet while it receives; its own intention is on the disk while it publishes;
the staged file is gone when it records the end). `BytesGood` carries the validation of the ranges from `Open` to
`Publish`; it holds because only the holder of the lock writes. `Beginning` covers the time before the first manifest.
There is one lemma per action, with one step per part of the invariant.

`RecoveryUploadProofs.tla` proves of `RecoveryUpload`, for any numbers of requests and parts:

| Theorem | Statement |
|---|---|
| `TypeCorrect` | every variable keeps its type |
| `NoReplay` | at most one request ever sends a completion |
| `PublishesIdentified` | what is published has the bytes of the identified file |
| `ReplacesNobody` | under `fail` and `skip` the object of another writer is never replaced |
| `PromiseKept` | the upload implements `UploadPromise` |
| `CleanupIsKnown` | once the manifest gives the upload up, its upload is closed at the provider or the manifest says to clean up |

All but `ReplacesNobody` assume `~FoundWhileStarting`; with it `CompletionNotReplayed` is false (finding 3). The
assumption is used once, in `AskKeeps`. The invariant says who holds the lock, that a starting request is alone, which
statuses the manifest and the holder's copy may have at each place (`Knows`), that a completion has only been sent under
an unknown or completed claim and by a request that does nothing more than look for its object (`Claimed`), and that
without an edit of the file no part holds other bytes (`BytesKnown`). For `CleanupIsKnown`, `RecordsCleanup` says the
same of the copy that a request is about to write. Ten actions are moves of the holder of the lock
before dispatch; `MovesKeep` shows once why such a move preserves the invariant, and their lemmas only show that they
are one. `PromiseStep` maps each step that replaces the manifest or publishes to a step of `UploadPromise`.

`StagedDownloadProofs.tla` proves of `StagedDownload`, for any objects, numbers of ranges, names, edits and files:

| Theorem | Statement |
|---|---|
| `TypeCorrect` | every variable keeps its type |
| `WholePublished` | a file of the job has every range and, when HEAD gave an ETag, all of the version HEAD saw |
| `NeverReplaced` | under `keepBoth` the job replaces no file, under `replace` none but one of the very name |
| `EndsCleanly` | a job that is over has no staged file and no thread that writes; a completed one has published every object |

`WholePublished` rests on `Fetched` (what the answers and the staged file hold, by the place of the job's thread), which
is inductive only with `FlightKnown`: no answer is on its way when the job looks at the size, so nothing writes to the
staged file after that. `NothingEarly` is needed because `AskSize` changes `head`, to which published files are
compared. `EndsCleanly` rests on `Landed`: the objects before the one at work have a file, and since nothing is replaced
under `keepBoth` they keep it. `EndsClean` is proved only; no run checks it. The assumption is `DownloadAssumption`.

`TransferJobProofs.tla` proves of `TransferJob`, for any numbers of files, parts and workers, and of `MCTransferJob`:

| Theorem | Statement |
|---|---|
| `TypeCorrect`, `TransfersTypes` | every variable of the job, and of the request loop beside it, keeps its type |
| `SentWhileOpen` | a worker only sends a part while the upload of the file is open |
| `NothingTruncated` | a completed upload has every part |
| `NothingLeftOpen` | at the end every upload is closed, or the provider never answered its creation or abort |
| `CancelIsFinal` | after a cancellation the job does not become completed, begins no file, and publishes only what was already sent |

`PoolKnown` says that a part is queued or at work only while the pool exists, and that what `wait` returned stays
finished; with it, leaving the `with` block of the pool is why nothing is sent afterwards. `UploadKnown` says at which
places of the thread the upload of its file is open, and that those of earlier files are not. `PartsKept` says that
what the pool has yielded without an exception is at the provider, and that every part submitted is pending or sent, so
that an empty window at the end means a whole object. The types of the loop need `LoopInv`: whatever is in the pipe, in
the queue or at a thread was written by the host. The assumptions are `JobAssumption` and `LoopAssumption`.

`BenchmarkRunProofs.tla`, `DeleteAllProofs.tla` and `EngineWorkProofs.tla` prove of the engine, whatever work it is
given and for any constants:

| Theorem | Statement |
|---|---|
| `EngineTypes` | every variable of the five handlers keeps its type |
| `DownloadedIsWhole`, `DownloadSpares` | `WholePublished` and `NeverReplaced` of the engine that downloads |
| `BenchmarkExact` | a completed benchmark has nothing in flight; one by number of operations has recorded just its budget, or what it was resumed with if that is more, unless a worker is about to mark it failed; without a failed append there is no exception |
| `BenchmarkProgress` | no checkpoint has more rows, and no run counts more operations, than the CSV and the rows whose append has failed |
| `DeleteSucceeds` | delete-all reports success only when every entry it listed is gone, hidden or newer |
| `DeleteSpares` | where the listing gave an ETag, the empty PUT only replaces the object that was listed |
| `WrittenIsWhole` | what a copy has committed has every part, of the version HEAD saw when it insists on one |
| `CopySpares` | under `skip` and `fail` a copy replaces no object |
| `Faithful` | no entry is written twice, and the recorded versions are in the source's order, over all kills and lost answers |

A benchmark, a deletion and a download are modules of their own, and `MCEngineWork` runs them; so their invariants are
proved of the module alone, and the engine is shown to implement it: every step of `EngineSpec` is a step of the
component or leaves its variables alone (`EngineDownloads`, `EngineRunsBenchmarks`, `EngineDeletes`). Copies and replays are proved in
`EngineWorkProofs` itself.

- *Benchmark*: the reservation is a number in the code and a set in the proof: `LedgerKept` says that `reserved` is the
  cardinality of `Units`, the pairs of a worker and a number up to its batch, so that a commit by one worker takes
  away just its own. `TotalsKept` says that `processedCount` has all of the totals until an append fails, and
  afterwards as long as the run is `Intact`, with no worker failing and none that has failed. `BudgetKept` bounds recorded
  plus reserved of an intact run, and of every run, also one that is yet to be resumed, while no append has failed.
  `RowsKept` says that nobody counts more than the CSV and the lost rows, and that without a lost row who counts all rows
  of a sound CSV counts its operations. The number of failed appends is arbitrary.
- *Delete-all*: `Cut` says that the batches cut the listing without a gap, `Pool` that a thread has dealt with what it
  neither still tries nor counts as failed, `Ended` that exit code 0 comes after all of them. A thread tries the least
  entry left; that there is one is well-founded induction over strict subsets, cited for that relation.
- *Copy*: `StrategyKnown` ties the place of the thread to how the object is copied, `PartsKnown` says that the parts are
  of one version of the source, `SourceKnown` that the source is there until the copy is over, `CommitKnown` that nothing is
  committed before the copy begins.
- *Replay*: `Own` (each entry is written at most once, and only when it was begun), `Outstanding` (a request that may
  still be carried out has not been), `Mapping` (what the manifest names), `Flight` (the entry in flight is the next
  one, and the request that sends it holds the lock) and `Newer` (from the look at the destination until the record,
  unmapped versions of the key are newer than the mapped ones). The last is why a late answer cannot put versions out
  of order.

The assumption is `EngineAssumption`: `BenchmarkConstants`, `CopyConstants`, `DeleteConstants` and `HistoryConstants`,
which bound the counters and say that pools have workers.

Every inductive invariant was checked by TLC, on the instances of the runs, before it was proved.

Every invariant and every action property of a passing run is now a theorem. Only model-checked are the properties
that depend on fairness, which are out of the prover's reach: `EveryCallEnds`, `UploadEnds`, `CancelledJobEnds` and
`ControlsAnswered`. The properties of the five runs that expect a violation are false, and their runs show why.

## Findings

1. `host_pinned_alive`: a process that dies in the 2 ms after it has answered a benchmark launch is pinned dead, with
   its permit (`desktop_engine_host.dart:171`).
2. `host_controls`: a control is not counted in the exclusive use of a process; when the job's call ends first, the
   process is handed to another call while the control awaits its answer, and the control's deadline then kills that
   call's process (`desktop_engine_host.dart:106`).
3. `recovery_upload_found`: `startResumableUpload` writes its manifest before it takes the lock and does not read it
   again, so a request that finds the manifest in between is overwritten, and completion can be sent twice
   (`engines/python/src/main.py:5007`).
4. `recovery_download_late`: the checkpoint that announces a completed download honours a cancellation, and the
   `except` clause writes `paused` over `completed`; the download can never be resumed, since its staged file is gone
   (`engines/python/src/advanced_workflows.py:919`).
5. `move_cancelled`: a cancelled copy returns normally, with a status, and `_move_object` deletes the source without
   looking at it (`engines/python/src/main.py:2680`).

Noted in passing, without a run because no statement of the repository is contradicted: the Azure delete-all counts
failures but always reports exit code 0 (`main.py:1840`); a benchmark whose client cannot be built has already been
registered, and saved, as running, and has no workers (`main.py:4699`, `4818`). A failed append to the benchmark's CSV
leaves the totals ahead of it (`main.py:4250` to `4255`); the checkpoint that the failing worker then persists
(`main.py:4777`) cannot be resumed or even read, since it has more records than the CSV (`main.py:4289`); and until the
worker has the lock again the run may be reported as completed with more operations than its budget, the failed one
included. `AppendFails` shows both; no statement of the repository says otherwise.

## Not modelled

- The Go, Rust and Java engines implement the same contract; Go and Rust handle one request at a time. The Python
  engine, the reference of the contract tests, is modelled first.
- The sidecar service, native bridges, presets and models translate data; the user interface renders it.
- Of the Python engine: the Azure delete-all and the test-data tool (loops of independent requests), benchmark payloads,
  summaries and exports, the planning of a history copy, and the Azure block upload (a variant of `RecoveryUpload`).
- Single provider requests (bucket administration, Azure control plane, listings inside an engine) have no state.
- Provider behaviour is limited to what the code relies on, and is marked external in the map.

## Plan

Done: the host; the Python engine's request loop, transfer job, recoverable uploads and downloads, plain downloads,
benchmarks, S3 delete-all, copies and moves, and history copies; a theorem for every safety property of theirs that a
run checks. Left, the most important first:

1. An abstract specification of the host, a pool that lends permits and processes, with the host shown to implement it;
   and one of the history copy, an append-only replay of the plan.
2. `ListingSession` (`app_controller.dart`): listing generations, late pages, cancellation, against `EngineHost`'s
   promise of what a cancelled call delivers. With the guards of `resumeBenchmark` in a module, `OneLaunchInFlight`
   would be a theorem about the controller and not a hypothesis.
3. The Azure block upload (`advanced_workflows.py` 925-1088), a variant of `RecoveryUpload` with conditional commits.
4. `CredentialStore` and `UploadBatch` of the application.
5. Multipart sizing and ranges as bounded functions against a reference definition.
