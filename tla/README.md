# Verification of the Perfetto CI job protocol

TLA+ models of the continuous-integration coordinator under
`src/infra/perfetto-ci.appspot.com/`. The models are checked with TLC on
small instances and proved with TLAPS for every value of the constants.
Everything else in the repository is listed at the end, with the reason it
is not modelled.

## 1. The system (inventory)

The CI has no central scheduler. All coordination goes through one Firebase
database that every process reads and writes over HTTP.

| Component | Source | State it keeps | Operations |
|---|---|---|---|
| Remote job store (Firebase, external) | `worker.py:44-82` (client) | `/queued_jobs/<name>`: the job records; `/jobs/<cl>/<ps>`: status; `/logs/<cl>/<ps>/{stdout,stderr}`: log chunks keyed by timestamp; `/last_patchset`: the processed patchset per CL | `fb_get` returns the value and its ETag. `fb_put` is a PUT with an optional `if_match`, and answers 412 when the ETag differs. `fb_patch` merges. `fb_delete` deletes. Any other non-200 answer raises. |
| Job claimer | `worker.py:92-101, 158-172` | per worker: the queue snapshot being walked, and the job being claimed | `main` polls `/queued_jobs`. `try_take_job` GETs a record, skips it when another worker owns it, PUTs it back with itself as owner, DELETEs it, and returns it. |
| Job runner | `worker.py:104-155` | per worker: the child process, the two line buffers, `last_upload`, `tstart`, `timeout` | It starts `docker run` after `docker rm -f`. Each wakeup it `select`s on both pipes for at most 1 s, reads one line from each ready pipe, and uploads the buffers when `LOGS_UPLOAD_SEC` has passed. It stops when the child has exited or `JOB_TIMEOUT_SEC` has passed (then it kills the child). Last, it PATCHes `/jobs/<cl>/<ps>`. |
| Push-queue worker | `copy.py:33-126` | same as the runner | `simple_app` handles one App Engine push task (POST). It writes `started`, deletes the logs, then runs the same loop with `job_runner.sh` and PUTs the terminal status. |
| Enqueuer | `poller.py:57-147, 209-216` | the task queue `jobs` (named tasks and their tombstones), and `/last_patchset` | `get_all_cls` parses `git ls-remote`. `get_processed_cls` reads `/last_patchset`. `enqueue_cl` adds one task named `<cl>-<cfg>` per configuration. It skips the name of a task still pending, and raises on the tombstone of one that ran. It then PATCHes `{cl: patchset}` into `/last_patchset` unconditionally. `mark_all_done` PUTs the whole map. |
| Worker pool controller | `poller.py:71-83, 150-184` | the GCE instances named `perfetto-ci-worker-*` | `get_all_vms`, `destroy_vms` (one DELETE per VM, raises on non-200), `recreate_vms` (destroy, then create `MAX_VMS` VMs with the suffix `<now>-<i>`). |

How the components interact:

- The enqueuer feeds the push-queue worker through App Engine task
  queues. The queue redelivers a task whose handler failed or timed out.
- The Firebase worker (`worker.py`) reads `/queued_jobs`. No code under
  `src/` writes that collection.
- The runners write status and logs only into Firebase.
- The pool controller recreates the machines the workers run on.

Which behaviours are hard:

- **Concurrency.** Several worker machines race for the same records, and
  each HTTP request is a separate atomic step of the store.
- **Stale state.** `main` walks a snapshot of the queue that others change
  while it walks.
- **Failure.** Every request may answer non-200, and nothing catches the
  exception. A worker process dies where it stands.
- **Ordering.** A losing worker's late PUT can write back a record the
  winner already deleted. Out-of-order `enqueue_cl` calls PATCH
  `/last_patchset` in either order.
- **Time.** The runner's upload interval, its timeout, and the
  one-second `get_timestamp` keys interact.

What makes each component correct (spec §4, §8):

- **Claimer:** at most one claim of a record succeeds. A lost race is
  routine. A worker never takes a job it has already run. An owned record
  never stays in the queue. Every queued job is eventually run.
- **Runner:** the terminal status is `timedout` exactly when the timeout
  fired. No output line is lost. Log chunks do not overwrite each other.
  The loop neither blocks nor deadlocks with the child.
- **Enqueuer:** one task per (CL, configuration, patchset), and
  `/last_patchset` only grows.
- **Pool:** after `recreate_vms` there are `MAX_VMS` workers with fresh
  names.

The hazards these properties are aimed at are listed in `PROJECT.json`
(`hazards`), each at the line where it bites.

## 2. Modules and plan

| Module | Models | Status |
|---|---|---|
| `Worker`, `MCWorker`, `WorkerProofs` | the claim protocol of `worker.py`, `run_job` as one step | checked, four theorems proved |
| `JobRunner`, `JobRunnerProofs` | the supervision loop of `run_job` | checked, four theorems proved (one a refinement) |
| `JobStatus` | what `run_job` promises: one status, written after the child stopped | abstract spec that `JobRunner` implements |
| `PushWorker`, `MCPushWorker`, `PushWorkerProofs` | `copy.py simple_app` behind the push queue | checked, two theorems proved |
| `AllCls`, `AllClsProofs` | the loop of `get_all_cls` | checked against a reference, proved |
| `Enqueuer`, `MCEnqueuer`, `EnqueuerProofs` | `enqueue_cl` and `mark_all_done` | checked, two theorems proved |
| `VmPool`, `VmPoolProofs` | `destroy_vms`, `recreate_vms`, `create_vm` | checked, two theorems proved |
| `AffectedFiles`, `AffectedFilesProofs` | `tools/get-affected-files.py` | checked against a reference, proved without bare includes |

`PROJECT.json` lists twelve runs. There is a passing run for each
module, plus `worker_faults`, the run in which requests fail. There are
four violations, each showing the most serious finding of a component of
the CI: `worker_exclusive_claim`, `runner_output_lost`,
`push_terminal_overwritten` and `enqueuer_name_collision`.
The module sections below also list cfgs marked *reproduction*. Each
reproduces a further finding, or re-checks a property under other
bounds, with the same `tlc -config X.cfg M` command. They are not among
the project's runs.

Still to do:

1. A composition of `VmPool` with `Worker`: recreating a VM restarts a
   dead worker, which is what could make `AllJobsRun` hold with faults.
2. The two variants of one patchset that share `/jobs/<cl>/<ps>` and
   `/logs/<cl>/<ps>` (worker.py:154), as two runners over one store.
3. A refinement of `JobRunner` onto the one `RunJob` step of `Worker`
   itself. `JobStatus` is the half of it that is done: it is what
   `RunJob` promises about the status, and `JobRunner` is proved to
   implement it (section 4).

Section 9 lists the proofs already done.

## 3. Module `Worker` (worker.py)

Constants:

- `Workers`: the machines.
- `Jobs`: the record names.
- `StatusKeys` and `JobKey`: the `/jobs/<cl>/<ps>` path of each job.
  Two variants of one patchset share a key.
- `None` and `Absent`: sentinels.
- `MaxFaults`: the named bound on failed requests.

State:

- `queue` is `/queued_jobs`. A record is reduced to its `owner`, or
  `Absent`.
- `status` is `/jobs`.
- Per worker: `pc`, `snap` (the names of the polled snapshot not yet
  tried) and `cur`.
- `faults` counts failed requests.
- Two history variables, used only by properties: `runs[w][j]` counts the
  times `try_take_job` of `w` returned `j`, and `finished` is the set of
  jobs whose `run_job` returned.

Actions, one per request in the code:

| Action | Code |
|---|---|
| `MainPoll` | `fb_get('/queued_jobs.json')`. An empty queue is a sleep. |
| `TryTakeJobGet` | The GET of one name from the snapshot, with three outcomes. A vanished record makes line 97 raise `TypeError`. A record owned by someone else returns `None`, and the loop continues or re-polls. Otherwise the worker goes on to the PUT. |
| `TryTakeJobPut` | `fb_put(uri, job)` without an etag (`FbPut` models `fb_put` with and without `if_match`). |
| `TryTakeJobDelete` | `fb_delete`. |
| `RunJob` | `run_job` up to its final PATCH, followed by `break`. |
| `HttpFailure` | Any request answering non-200: the worker process ends. |

Fairness: `WF` of each worker's own steps. Each worker is a separate
machine whose loop waits only on HTTP requests and on the run of a job,
which is bounded by its timeout. Failures are not fair: nothing forces
them.

### Runs

| Run | cfg | Result | What it shows |
|---|---|---|---|
| `worker_core` | `MCWorker.cfg` | pass | 2 workers, 3 jobs (`j1`, `j2` share a status path), reliable requests (61,045 states). **`AtMostOncePerWorker`**: no worker runs a job twice, even when a late PUT writes a claimed record back. **`OwnedRecordIsBeingClaimed`**: an owned record in the queue always has a claimer about to delete it. **`AllJobsRun`**: every job is eventually run. This holds although workers die on vanished records: TLC finds no state where every worker is dead, because the last worker to delete a record survives it. |
| `worker_faults` | `MCWorkerFaults.cfg` | pass | One failed request allowed: `AtMostOncePerWorker` still holds. **`OwnedRecordHasClaimer`**: an owned record left in the queue belongs to a worker that is about to DELETE it or that died between its PUT and its DELETE, and names the job that worker holds. A failure can strand a record, but only this way. Deadlock checking is off because every worker may really die. |
| `worker_exclusive_claim` | `MCWorker_ExclusiveClaim.cfg` | violation | **Finding:** the claim PUT has no `if_match`, so two workers both claim and run one job (9 steps). |
| `worker_race_lost` | `MCWorker_RaceLostIsRoutine.cfg` | violation (reproduction) | **Finding:** a worker dies on `job['owner'] = ...` when a record in its snapshot was claimed by another worker (7 steps). |
| `worker_job_lost` | `MCWorker_JobNotLost.cfg` | violation (reproduction) | **Finding:** a failed request while a job runs loses the job: it is no longer queued and is never reported. |

Why the bounds are enough:

- Two workers are the fewest that can race.
- Three jobs let a snapshot hold a job that a worker has already
  finished, alongside others that are still queued.
- Two jobs share a status path.
- The interesting traces are 7 to 15 steps long, well inside the explored
  depth of 33.

Each property of a passing run has a mutant in `PROJECT.json` that TLC
catches:

- The owner check dropped.
- The DELETE skipped.
- A conditional PUT sent with the etag of the node being written instead
  of the one read. This is a plausible wrong fix of the first finding,
  and it never succeeds, so `AllJobsRun` fails.
- The DELETE of a claim skipped, so the worker runs a job whose owned
  record stays queued (`OwnedRecordHasClaimer`).

### Proofs (`WorkerProofs`)

- `TypeCorrect`: `Spec => []TypeOK`. It goes through the inductive
  invariant `TypeInv = TypeOK /\ CurTyped`, where `CurTyped` says that a
  worker at put, delete or run holds a job name.
- `NoRepeatedRun`: `Spec => []AtMostOncePerWorker`, for any workers,
  jobs and fault bound. `AtMostOncePerWorker` is not inductive by
  itself. The proof uses `IInv = TypeInv /\ AtMostOncePerWorker /\
  ClaimedOnce`. `ClaimedOnce` says that once `w` has claimed `j`, any
  record of `j` back in the queue names another worker as owner, and `w`
  is not between its PUT and DELETE of `j`. The argument:
  - Only a PUT writes a record, and it names the putter.
  - The putter has not yet claimed the job.
  - The DELETE, the one step that counts a claim, empties the path.
  - So the owner check of the claimer's next GET refuses the record.

  TLC checked `IInv` as an invariant of both runs before it was proved.
- `OwnedRecordsClaimed`: `MaxFaults = 0` implies
  `Spec => []OwnedRecordIsBeingClaimed`. With reliable requests no
  worker dies between its PUT and its DELETE, so the owner of a queued
  owned record is at its DELETE of that very job.
- `StrandedRecordsHaveDeadOwners`: `Spec => []OwnedRecordHasClaimer`,
  for any fault bound. It needs `TypeInv`. The proof rests on three lemmas:
  - a PUT writes a record that names the putter;
  - a worker that is not claiming owns nothing in the queue;
  - only the claimer's DELETE, or its crash, changes its pc while it
    owns a record.

## 4. Module `JobRunner` (worker.py `run_job`, lines 104-155)

Constants:

- `Sec`: clock ticks per second.
- `UploadSec` and `TimeoutSec`: `LOGS_UPLOAD_SEC` and `JOB_TIMEOUT_SEC`.
- `PipeCap`: the lines a pipe holds before the child's write blocks.
- `MaxLines`: the length of the child's script.
- `MaxPatchTicks`: how long one PATCH may be in flight.
- `ExitCodes`: the exit codes the child may end with.

State and actions:

- `rpc` follows `run_job`:
  - `Start` is `docker rm -f` then `Popen`;
  - `SelectRead` is the `select` with its one-second timeout, then one
    `readline` per readable pipe (an `''` at EOF);
  - `CheckUpload` starts the upload once `LOGS_UPLOAD_SEC` has passed;
  - `PatchDone` is one log PATCH landing, after which the next one is
    sent or both buffers are cleared;
  - `PollExit`, `Kill` and `Report` are the rest of the loop and the
    final status PATCH.
- The child is the environment. `ChildWrite` writes its next line into a
  bounded pipe. `ChildExit` ends it with any code, once it has written
  everything.
- `Tick` advances the clock, but only while the runner waits in `select`
  or has a PATCH in flight. Local steps take no time.
- Log keys are `GetTimestamp == now \div Sec`, the second the PATCH is
  built in, as `get_timestamp()` does.
- A chunk, `'\n'.join(proc_stdout)`, is kept as the list of reads it
  joins, in order. An EOF read (`''`) is an empty line of the text.
  `LinesOf(q)` is the set of lines a chunk carries. `InOrder(L, W)` says
  the chunks of `L`, read in key order, carry lines of `W` in strictly
  increasing order. `LogIsOrderedSubsequence` is `InOrder` for each
  stream's log.

Fairness: `WF` of the runner's steps, of `Tick` (a `select` timeout
does fire) and of `ChildWrite`. A child that still has output writes it,
but a child may hang for ever: there is no fairness on `ChildExit`.

| Run | cfg | Result | What it shows |
|---|---|---|---|
| `runner_core` | `JobRunner.cfg` | pass | Every script of up to three lines over two streams, one-line pipes, `Sec = 2`, a one-second upload interval, a two-second timeout, PATCHes of up to a second (243,063 states). **`LogIsOrderedSubsequence`**: each stream's log holds only lines the child wrote on it, each once, in order, whatever the keys. **`ReportMatchesChild`**: when `run_job` returns, the child is dead, the status is `timedout` exactly when the timeout fired, and `succeded`/`failed` match the exit code, even when the child exits between `poll()` and `kill()`. **`RunnerTerminates`**: `run_job` returns even when the child hangs. |
| `runner_output_lost` | `JobRunner_AllOutputLogged.cfg` | violation | **Finding:** the loop breaks on `poll()` without draining the pipes or flushing the buffers, so the last lines never reach the log. |
| `runner_chunk_overwritten` | `JobRunner_ChunkNeverOverwritten.cfg` | violation (reproduction) | **Finding:** a stdout PATCH that takes a second pushes the stderr key into the next second. The next upload's stderr chunk then gets the same key and replaces it. |

**Refinement.** `JobStatus` is what `run_job` promises, with the
loop, the pipes, the uploads and the clock left out. The child is
`running`, `exited` (with a code) or `killed`. The status is written
once, only when the child no longer runs, and `Outcome` says how it
ended. `Kill` is allowed on a child that has just exited: that is
`proc.kill()` after `poll()` saw a code the loop did not act on.
`JobRunner` defines

    ChildState == IF timeout THEN "killed"
                  ELSE IF alive THEN "running" ELSE "exited"
    Abstract == INSTANCE JobStatus WITH child <- ChildState, code <- exitCode

`ChildExit` maps to `Exit`, the runner's `Kill` to `Kill`, `Report` to
`Report`, and every other step to a stutter.
`RunJobRefinesJobStatus` in `JobRunnerProofs` proves the safety part,
`Spec => Abstract!Spec`, for every value of the constants. No run checks
the refinement as a property: its safety part adds nothing to
`ReportMatchesChild`, and its fairness part (the run ends with a report)
is `RunnerTerminates`. It uses
`ChildEnded`, strengthened to say that the status is still `none`
before the last step.

Bounds: two ticks per second are the fewest that let a PATCH end in a
later second than it began. One-line pipes make the child block. Three
lines are enough to have lines on both streams and one left after the
last upload.

## 5. Module `PushWorker` (copy.py `simple_app`)

`Instances` single-threaded servers (`make_server` serves one request at
a time) receive deliveries of `Tasks` from the push queue. The queue
delivers at least once: a task is redelivered while it is not done, up to
`MaxDeliveries` times.

Each delivery goes through these steps:

- `Deliver` checks the form.
- `UpdateStarted` PUTs `started`, or answers 500 when `CL` or `PATCHSET`
  is missing.
- `DeleteLogs` deletes the logs.
- `LoopWakeup` runs the loop, one wakeup per line. Every wakeup uploads,
  because `last_upload` is never updated, and the loop ends at the
  child's exit or at the timeout.
- `UpdateFinal` PUTs the terminal status.
- `Respond` sends the 200 that makes the queue drop the task.

`MCPushWorker.cfg` gives the form the fields `CL` and `PATCHSET` (the
constant `VarKeys`), so that deliveries get past `update_job_status`
and the rest of the handler is explored. `enqueue_cl` never sends them:
`ci-configs.json` is not in the repository, and its variables are per
configuration, not per CL. With the real form every delivery answers
500 (`push_params_missing` below).

`FairSpec` adds `WF` of each server's handler (a handler runs to its
end), of `Deliver` (the queue keeps delivering a pending task to a free
server) and of `Tick`. Only the reproduction `push_params_missing` uses
it. `push_core` checks safety under `Spec`.

The terminal statuses are spelt as the code spells them, `succeded` and
`timedout`, where spec.md says `succeeded` and `timedOut`. `worker.py`
writes the same spellings, so the two writers of `/jobs` agree with each
other but not with the spec. Nothing under src/ reads the status, so the
model cannot tell which spelling a reader needs.

| Run | cfg | Result | What it shows |
|---|---|---|---|
| `push_core` | `MCPushWorker.cfg` | pass | One task, delivered up to twice, to two servers, with a job of up to two lines that may hang past a one-second timeout (78,915 states). **`AckAfterReport`**: the queue drops a task only after a terminal status was written. |
| `push_terminal_overwritten` | `MCPushWorker_TerminalStatusFinal.cfg` | violation | **Finding:** a redelivery PUTs `started` over the terminal status of the first delivery. |
| `push_chunk_overwritten` | `MCPushWorker_ChunkNeverOverwritten.cfg` | violation (reproduction) | **Finding:** two lines read in one second are uploaded under the same key, and the second replaces the first. |
| `push_params_missing` | `MCPushWorker_AllTasksDone.cfg` | violation (reproduction) | **Finding:** with the form `enqueue_cl` really sends (`CFG`, `REV` and the configuration's variables), `args['CL']` fails on every delivery, so no task is ever run. |

## 6. Modules `AllCls` and `Enqueuer` (poller.py)

`AllCls` is the loop of `get_all_cls` over every `ls-remote` output of up
to four lines, over two CLs, patchsets 0..2 and a non-ref line. Its
`last_patchset` is a `defaultdict(int)`, modelled by `Get` and `Put`.
**`GetAllClsIsMax`** (run `allcls_core`, 13,539 states): when the loop
ends, the result is exactly the CLs that have a ref, each with its
highest patchset. The reference `MaxPatchsets` is a definition, not a
loop.

`Enqueuer` models concurrent poller requests (`Callers`). Each request
runs `enqueue_cl` or `mark_all_done`, while `Publish` lets Gerrit upload
new patchsets.

- `enqueue_cl` has five actions:
  - `AddTask` adds one named task per configuration. The name of a task
    still pending raises `TaskAlreadyExistsError`, which is skipped.
  - `AddTombstoned` is the add of a name whose task has already run. The
    queue keeps the name as a tombstone, so the add raises
    `TombstonedTaskError`. The `except` at line 99 does not catch it,
    and `enqueue_cl` ends without marking the patchset.
  - `AddFails` is any other error, which raises.
  - `PatchLast` is the unconditional PATCH of `{cl: patchset}`.
  - `PatchFails` is a non-200 answer, which trips the `assert`.
- `TaskRuns` is the queue running a pending task: its name becomes a
  tombstone. Tombstones do not expire in the model; the queue keeps
  them for days, longer than any interleaving the runs explore.
- `mark_all_done` is `MarkAllDoneRead`, which takes the snapshot of
  `get_all_cls`, followed by `MarkAllDonePut`, the PUT.
- `enqueue_cl` has no live caller at this revision. Its caller is the
  commented-out body of `list_vms`. So the model calls it with any
  published patchset.

| Run | cfg | Result | What it shows |
|---|---|---|---|
| `enqueuer_core` | `MCEnqueuer.cfg` | pass | Two requests, one CL with two patchsets, two configurations, symmetry over the requests (80,569 states). **`MarkedHasTaskNames`**: a patchset marked processed has a task name for each configuration. |
| `enqueuer_name_collision` | `MCEnqueuer_EveryMarkedPatchsetEnqueued.cfg` | violation | **Finding:** task names lack the patchset. A task of patchset 2 collides with patchset 1's task of the same configuration while that task is still pending. `TaskAlreadyExistsError` skips it, yet patchset 2 is marked processed. (Once patchset 1's task has run, the add raises `TombstonedTaskError` instead and patchset 2 is not marked; see the hazard at `poller.py:99`.) |
| `enqueuer_monotone` | `MCEnqueuer_LastPatchsetMonotone.cfg` | violation (reproduction) | **Finding:** `/last_patchset` moves backwards when two requests finish out of order, or when `mark_all_done` PUTs a stale snapshot. |

## 7. Module `VmPool` (poller.py)

An instance is its name `<<second, index>>` together with the request
that created it. This keeps a name reused within one second distinct
from the instance it replaces. `Requests` are overlapping requests to
`/poller/destroy_vms` or `/poller/recreate_vms`.

- `GetAllVms` lists the zone. An empty zone returns `[]`, and `.keys()`
  raises on it. A non-200 answer also raises.
- `DestroyVm` is one DELETE. It raises on an error, or on the 404 of an
  instance another request already deleted.
- `StartCreate` takes `now`.
- `CreateVm` is one POST. Its answer is never checked, and a taken name
  (409) creates nothing.
- `Reliable` says whether the compute API may answer errors.
- A DELETE removes the instance at once: the teardown delay is
  abstracted.

| Run | cfg | Result | What it shows |
|---|---|---|---|
| `vmpool_core` | `VmPool.cfg` | pass | Two overlapping requests over any earlier pool, with failures (12,900 states). **`OldPoolGoneOnDone`**: a request that completes has removed every instance it listed. |
| `vmpool_full_pool` | `VmPool_FullPoolOnDone.cfg` | violation (reproduction) | **Finding:** a failed create is ignored, and `recreate_vms` answers `Done` with a short pool. |
| `vmpool_pool_size` | `VmPool_PoolSizeFixed.cfg` | violation (reproduction) | **Finding:** two recreates overlapping across a second boundary leave two full pools. |
| `vmpool_empty_zone` | `VmPool_RecreateCompletes.cfg` | violation (reproduction) | **Finding:** a zone with no instance makes every request raise, so an empty pool can never be recreated. |

## 8. Module `AffectedFiles` (tools/get-affected-files.py)

A path is the sequence of its components. The tree is
`{src,include}/a/{h1.h,h2.h,c1.cc,o1}`.

- The `#include "..."` lines of each `.h` and `.cc` file are any set of
  `a/hN.h` names. The other file holds every name, and the script must
  ignore it.
- The diff is any single file. The output for a larger diff is the union
  of its files' outputs.
- The actions are `GetUpstream`, `BuildSrc`, `UpdateHeaderDatabase`, one
  `LoopRound` per iteration of the `while`, and `LoopExit`.

The reference `Affected` is the least set of files that holds the diff
and every includer of one of its members, with includes resolved as the
compiler does. It is not the loop's own formula.

| Run | cfg | Result | What it shows |
|---|---|---|---|
| `affected_core` | `AffectedFiles.cfg` | pass | **`AffectedIsClosure`**: the printed set is that closure, across roots and along two-step include chains (278,656 states). |
| `affected_bare_include` | `AffectedFiles_Bare.cfg` | violation (reproduction) | **Finding:** `#include "h1.h"` from the header's own directory becomes the key `src/src/a/h1.h`, so the includer is never reported. |

## 9. What is proved

TLAPS proves the theorems below for every value of the constants. Each
invariance proof has the same shape:

1. Find an inductive invariant `IInv` and check it with TLC first.
2. Prove `Init => IInv` and `IInv /\ [Next]_vars => IInv'`, with one
   step per action.
3. Conclude `Spec => []P` by PTL.

Liveness and the violation runs stay with TLC (see section 10).

The type invariants of `Worker`, `PushWorker` and `Enqueuer` are proved
but are not properties of any run. No plausible change to the code
breaks them, so a run of them would show nothing about the code. The
theorems remain the lemmas the other proofs rest on.

| Module | Theorem | Statement | Assumptions used |
|---|---|---|---|
| `WorkerProofs` | `TypeCorrect` | `Spec => []TypeOK` of `Worker` | the assumptions of `Worker` |
| `WorkerProofs` | `NoRepeatedRun` | `Spec => []AtMostOncePerWorker` | the same |
| `JobRunnerProofs` | `StatusMatchesChild` | `Spec => []ReportMatchesChild` | `ConstantsAssumption` (no exit code is the -1 that stands for a running child) |
| `EnqueuerProofs` | `MarkedNamed`, `EnqueuerTypeCorrect` | `Spec => []MarkedHasTaskNames`, `Spec => []TypeOK` | `EnqueuerAssumption` (`MaxPs \in Nat`, some CL) |
| `VmPoolProofs` | `OldPoolGone` | `Spec => []OldPoolGoneOnDone` | `VmPoolAssumption` (no request is named "old") |
| `VmPoolProofs` | `VmPoolTypeCorrect` | `Spec => []TypeOK` | the same |
| `WorkerProofs` | `OwnedRecordsClaimed` | `MaxFaults = 0` implies `Spec => []OwnedRecordIsBeingClaimed` | the assumptions of `Worker` |
| `WorkerProofs` | `StrandedRecordsHaveDeadOwners` | `Spec => []OwnedRecordHasClaimer` | the same, `None` no worker |
| `JobRunnerProofs` | `RunnerTypeCorrect`, `LogInOrder` | `Spec => []TypeOK`, `Spec => []LogIsOrderedSubsequence` | `ConstantsAssumption` (`MaxLines`, `Sec` and the other bounds are naturals) |
| `AllClsProofs` | `AllClsMax` | `Spec => []GetAllClsIsMax` | `AllClsAssumption` (`MaxPs \in Nat`; `Junk` is no ref) |
| `AffectedFilesProofs` | `AffectedClosure` | `~AllowBare` implies `Spec => []AffectedIsClosure` | `AffectedFilesAssumption` |
| `JobRunnerProofs` | `RunJobRefinesJobStatus` | `Spec => Abstract!Spec` (refinement, safety part) | `ConstantsAssumption` |
| `PushWorkerProofs` | `PushTypeCorrect`, `AcksAfterReport` | `Spec => []TypeOK`, `Spec => []AckAfterReport` | `PushAssumption` (some task; every task has a key) |

Why each property needs strengthening, and with what:

- **`ReportMatchesChild`.** It says nothing until `run_job` returns, so
  it cannot carry itself across `Report`. `ChildEnded` adds three facts:
  - the timeout flag is set only by the kill, which ends the loop;
  - after the loop the child is dead;
  - a child that died without the kill exited with one of `ExitCodes`.

  The last fact is the one `Report` needs: when `timeout` is false, the
  exit code it tests is a real one.
- **`MarkedHasTaskNames`.** `LoopDone` is what `enqueue_cl` has done so
  far. In the loop, every configuration taken off `todo` has a task name.
  At the PATCH, every configuration has one. `PsHeld` keeps the patchset
  in hand at least 1, for the type. The proof holds for any number of
  concurrent requests, so the unconditional PATCH and the `mark_all_done`
  PUT never break this property (they break monotonicity instead).
- **`OldPoolGoneOnDone`.** Deleting is easy: `DeletedGone` says the
  listed instances a request has already DELETEd are gone. The hard part
  is that nothing brings one back. `Created` and `ListedCreated` say
  that any instance in the zone, or in any request's listing, that a
  request `q` created, is named `<<rnow[q], i>>` with `i < ri[q]`. The
  next POST of `q` uses index `ri[q]`, so it creates an instance nobody
  listed.
- **`AtMostOncePerWorker`** (section 3): `ClaimedOnce`.
- **`AckAfterReport`.** The push queue may drop a task only after a
  terminal status was PUT. `IInv` adds that a busy server holds a
  delivery number in range (`Delivered`), that a handler past its final PUT
  holds a terminal outcome (`FinalHasOutcome`), and that a handler that
  is about to return 200 has reported (`RespondReported`).
- **`GetAllClsIsMax`.** It speaks only after the last line. `Tracks`
  is the loop invariant: after the first `i - 1` lines, `last_patchset`
  holds exactly the CLs those lines name, and maps each to a patchset
  that one of them gives it and that none of them exceeds. `SeenNext`
  says how the refs seen grow by one line. At the end, the unique
  maximum `Tracks` names is what `MaxPatchsets` chooses.
- **`AffectedIsClosure`.** The proof has three parts.
  - `Phases` records what the script has done at each `pc`.
  - `DbBuilt` says that, once `update()` has merged the two walks, the
    database files every file under each name it includes (`DbMerged`).
  - `Closing` is the loop invariant. Everything found so far is
    affected. The diff has been found. Every includer of a file already
    handled has been found. After the loop, nothing is pending.

  `IncludesIff` ties the script's lookup to the compiler's resolution: f
  includes g exactly when g is one of the keys f is filed under. It
  holds only for `#include "sub/x.h"` names, hence the hypothesis
  `~AllowBare`. With bare names the property is false
  (`affected_bare_include`). `LeastClosed` closes the argument: the
  final set is closed under includers, so it holds the least such set.
- **The refinement.** `Report` maps to the abstract `Report` only if the
  status was still `none`; `ChildEnded` carries that fact.

- **`LogIsOrderedSubsequence`** (`LogInOrder`, with `RunnerTypeCorrect`
  for `TypeOK`). A PATCH adds the buffer as a chunk under the key
  `sentKey`. That keeps the order only if every line of the buffer
  comes after every line already in the log. To carry this, `LogInv`
  follows each line from the pipe through the buffer into the log.
  - `StreamFlow(s)`: the pipe and the buffer hold lines of stream `s`, in
    order, and every buffered line precedes every line still in the pipe.
    Every logged line precedes every line still unsent or in the pipe.
    `Unsent(s)` is the buffer, except stdout's once its PATCH has landed
    and stderr's is in flight: those lines are logged already, and
    stay in the buffer only until both are cleared.
  - `KeysBehind`: every key in the log is at most `sentKey`, and
    `sentKey` is at most the current second. A new chunk therefore has
    the largest key, or replaces the chunk with the same key.
  `PatchInOrder` is the lemma for the PATCH step: adding or replacing
  the chunk with the largest key, when its lines follow every other
  chunk's lines, keeps `InOrder`. The theorem holds in the runs where
  `ChunkNeverOverwritten` fails: an overwrite loses lines, but never
  reorders them.

## 10. What is only model-checked, and what is not modelled

These are left to TLC and are out of TLAPS's reach:

- The liveness properties `AllJobsRun` and `RunnerTerminates` (they
  need fairness and ENABLED). `RunnerTerminates` is also the fairness
  part of the refinement of `JobStatus`.
- What `JobRunner`'s `LogText` computes for every log (induction over
  data). The loops of `get_all_cls` and of the affected-files fixpoint
  are steps of their state machines, so their results are proved by
  invariants (section 9). `LogText` concatenates the chunks with a recursive function. A fact
  about it for every log needs induction over `n`, which the provers
  cannot instantiate. `LogIsOrderedSubsequence` avoids the
  concatenation: it is stated over the chunks and their positions, so
  it is proved. `AllOutputLogged`, stated on `LogText`, is violated
  anyway.
- The violation runs.

Not modelled, and why:

- The site mirror (`perfetto-site.appspot.com/main.py`) is out of the
  spec's scope: it is a memcache proxy. On a cache hit its handler
  reaches `result` without having assigned it (main.py:46).
- The plotting scripts (`generate_stats.py`, `build_flamegraphs.py`,
  `tools/analyze_profiling_sampling_distribution.py`) are numeric I/O.
- `get_processed_cls` and `set_processed_patchsets` have no caller, and
  `list_vms` (`/poller/`) only reads.
- The code generators and test drivers (`binary_to_cpp_const.py`,
  `include_binary.py`, `diff_test_trace_processor.py`,
  `run_ftrace_tester.py`) are sequential file formatting.
- The content of job records, log text and timestamps is abstracted to
  what the properties distinguish.
