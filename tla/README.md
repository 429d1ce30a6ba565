# buildkit-service in TLA+

This directory holds a formal model of the core of buildkit-service: TLA+
modules translated from the Go source, TLC configurations that check them on
small instances, and TLAPS proofs for instances of any size. Paths such as
`tasks.go:464` are below `src/internal/builddaemon/` unless said otherwise.

## 1. The system

`buildctl-daemon` is an HTTP service. A client posts a build context, the
daemon admits the request, queues it under a build mode, and a goroutine of
that mode runs one or two BuildKit solves on a remote `buildkitd` worker chosen
by consistent hashing, with retries on the same request and failover to other
workers. `buildctl-batch` builds whole directories of images with a scheduler
of its own, as a command or as a daemon. Around them: a git cache, a registry
checker, a preheater and the Helm chart.

| component | state | operations | interacts with |
|---|---|---|---|
| task store (`tasks.go`) | map of tasks under `store.mu`; status, address, times, `observed`, `done` channel | add, get, update, cancel, delete, deleteExpired | handlers, goroutines, reaper |
| task runner (`tasks.go`, `build.go`) | locals of `runBuildTask`: step, attempt, excluded addresses, slot | steps of the image type, retry loop, failover loop, `finishTask`, close of `done` | store, semaphores, BuildKit |
| address pool and semaphores (`scheduler.go`) | slots (address + channel), global channel | snapshot, replace (ticker, failover), acquire, release | runner, resolver |
| mode scheduler (`mode_scheduler.go`) | a queue with mutex, condition variable and `closed` per mode | push, pop, close | handlers, workers, `Run` |
| admission (`build_request.go`) | `admissionMu`, retained tasks | handleCreateBuild | store, mode scheduler, work directory |
| work directory (`workspace.go`) | one directory per task: log, zip, context, Nydus context; a byte budget | measure, save upload, extract, append to the log, remove | admission, runner, reaper |
| start and shutdown (`run.go`) | deferred calls | close queues, list and cancel tasks | all of the above |
| target router, registry checker, observability | routing table; a bounded channel; counters | route, check, observe | handlers |
| batch scheduler (`../buildbatch/scheduler.go`, `build_command_*.go`) | slots with cooldown, retry queue, counters | dispatch, requeue, cancel, fail fast | child processes |
| batch daemon (`../buildbatch/daemon*.go`) | build state, `buildCancel`, `buildDone` under a mutex; one image directory for all requests | accept, upload, extract, build, cancel, shutdown, oneshot exit | batch scheduler |
| batch results (`../buildbatch/results.go`, stores) | LMDB database, failure log cut from the front | put, append, trim, load latest | batch scheduler |
| git cache (`../../chart/images/git-cache`) | mirrors on a volume, a lock file per repository, two semaphores | ensure, clone, refresh, serve, evict | git clients, janitor |

What is hard here is that everything meets at the task record. The goroutine of
a task, any number of cancel handlers, the timeout, the client's disconnect and
the reaper act on it in separate critical sections, each decision is taken on
values read in an earlier one, and cancellation itself is three sections
(`store.cancel`, the context, `finishTask`). Tokens of two semaphores are held
over all of it, on slots of a pool that is replaced meanwhile. At the other end,
requests are pushed on queues that a shutdown is closing. What makes each
component correct:

* store and runner: one final status per task, counted once; success only if
  every image was pushed, Nydus after OCI; files of a live task stay; the worker
  address agrees with the status; every task ends; a waiting client is answered;
* pool and semaphores: no token lost or returned to another slot on any exit;
  the two caps hold;
* mode scheduler, admission, shutdown: the retained cap holds, queues are FIFO,
  no wake-up is lost, no task is accepted and then forgotten;
* work directory: what is admitted fits in the budget, no error path leaves a
  directory behind, no byte is charged twice, a stalled upload does not block the
  other requests for ever;
* batch scheduler: no slot leaks on any way out, a format that is
  stored as succeeded is not built again after a retry or a crash, the progress
  is true, fail fast and cancel stop the command soon, the command returns, and
  a command that reports success has built everything;
* batch results: after a crash at any point a stored failure has its log line,
  the log stays bounded and readable, and keeps the newest line;
* batch daemon: cancel and shutdown reach the build that runs, a build sees its
  own files, an exit waits for the build and tells whether it failed;
* git cache: what is served is a whole mirror, every request is answered.

`PROJECT.json` lists the hazards line by line ("hazards") and says which
property catches each.

## 2. Modules

| module | what it is |
|---|---|
| `TaskLifecycle` | abstract: what the API promises about one task |
| `BuildTasks` | store, runner, semaphores, pool, cancel, reaper, synchronous requests |
| `ModeScheduler` | admission, mode queues, workers, shutdown |
| `BatchScheduler` | a build command of `buildctl-batch`: preparation, slots, retries, stored results, crash and resumption |
| `BatchDaemon` | the HTTP daemon of `buildctl-batch`: one build at a time, cancel, shutdown, oneshot |
| `ResultStore` | the results and the failure log of a batch, failed writes and crashes |
| `WorkDir` | admission under the byte budget, upload and archive, and the files of running and expired builds |
| `GitCache` | mirrors, locks, clone and request places, the janitor, crashes |
| `MC...` | instances of these for TLC |
| `BuildTasksTypes`, `BuildTasksProofs` | proofs about `BuildTasks`: types; semaphores, statuses and the refinement of `TaskLifecycle` |
| `ModeSchedulerProofs`, `BatchSchedulerProofs`, `BatchDaemonProofs`, `ResultStoreProofs`, `GitCacheProofs`, `WorkDirProofs` | proofs about these modules |

A definition `XyzWrong` that stands directly before a definition `Xyz` and has
the same parameters (for instance `MayFinishTwice` before `MayFinish`) is a
mutant: the property that it breaks is named in `PROJECT.json`. No action uses it.

### BuildTasks

One action is one critical section under `store.mu` or `pool.mu`, or one channel
operation, with the local computation that follows it. `pc[t]` is the place of
the goroutine of `t`; the path of an attempt is

    mark -> global -> snap -> pick -> (wait) -> assign -> build
         -> relAddr -> relGlobal -> (refresh -> mark | judge)

and `judge` leads to the next step, to a retry, or to `finishTask`, then to the
deferred close of `done`. The environment cancels (`StoreCancel`, `CancelCtx`,
`CancelFinish` are the three sections of a handler), lets the context expire
(`CtxExpires`), disconnects (`SyncDisconnect`), expires tasks
(`deleteExpired`, then `cleanupTaskWorkDir` per directory) and re-resolves the
addresses (`RefreshAddrs`).

Abstractions, all of them with more behaviours than the code:

* a slot is `<<address, generation>>`: `addrPool.replace` makes a new semaphore
  for an address that was not in the pool, so a generation is a semaphore;
* which free slot a task gets is left open, so the order of the consistent hash
  does not matter for what is shown;
* the probes of `pickAvailableAddrSlot` are one step; the task goes on to the
  blocking select if at least one slot is taken, since others may have been
  freed after they were probed;
* time is abstracted: a timeout may strike at any moment, a task with
  `FinishedAt` may be older than `--keep-ttl` at once (the flag may be 0);
* BuildKit is external: a solve returns success or one of the three classes of
  errors that the code tells apart (`isRetryableBuildkitAddrError`,
  `isDeterministicBuildError`, any other), also after its context is done;
* the counter of outcomes is incremented in the step of `finishTask`
  (`observeTerminal` runs right after the section, on the one caller that
  won it);
* the test of the retained tasks and `store.add` are one step: `ModeScheduler`
  has them apart and shows that `admissionMu` makes that sound.

### ModeScheduler

`Admit`, `Prepare`, `push` or `PushRefused` and `cleanupTask` are
`handleCreateBuild`, with `admissionMu` held from `Admit` to the end;
`pop`, `RunTask`, `EndTask` are a worker; `BeginShutdown`, `closeQueue`,
`Broadcast`, `ListTasks`, `CancelDoomed`, `Exit` are the deferred calls of
`Run`. `cond.Wait` joins the waiters in the step that finds the queue empty;
`Broadcast` comes after the mutex has been released. What a build does is
reduced to the change of its status. `pushed` and `popped` are history variables.

### BatchScheduler

`../buildbatch/build_command_streaming.go` with what it calls in `scheduler.go`,
`build_specs.go`, `results.go` and `build_execution.go`. Three kinds of goroutines:

* `streamPreparedBuildJobs` (`PrepareNext`, `PrepareFails`, `PrepareSkips`,
  `PrepareSends`), with the filter of stored results;
* the command itself: `ReceiveJob` and `JoinProducer` are the loop over the
  channel, `CheckStop`, `WaitForSlot`, `StartBuild`, `ReleaseWorker` the parts of
  `scheduleTask`, `DrainRetries` and `Return` the loop over the retry queue.
  `mpc` is its place, `pending` the jobs of the loop it is in;
* one per job: `build -> (retry | store) -> ... -> apply -> (flag -> (cancel))`,
  then `release`, `releaseGlobal`. `task.at` is the index of the loop over formats.

`NextCommand` is both a crash and the start of another command after a return:
only `db`, the results in LMDB, survives. `buildctl` is external: a build
succeeds or fails, also when its context is done. Left open, so that every
choice is covered: which free worker a job gets (the hash, the cooldown), when
the preparation of a directory fails, when the store refuses a write. The
directories are taken to have distinct targets. `late` is a history variable: the
jobs that `scheduleTask` starts after the stop. It does not count the next format
of a job that runs already, which `--failfast` ends only with `cancel()`.
`runBuildCommandBatch`, for a target without a directory, has the same scheduling
code line by line, with a single job that is there from the start; where the two
agree, `PROJECT.json` names the lines of one of them.

### BatchDaemon

`../buildbatch/daemon.go` and `daemon_handlers.go`. `pc[r]` is first the place of
the handler of request `r` (`accepted -> upload`, or `refuse_close ->
refuse_clear`), then that of the goroutine of `runBuildAsync`
(`async -> extract -> build -> cleanup -> clear -> close -> trigger`); the last
four are its deferred calls in the order they run. `current` stands for
`buildDone` and `buildCancel`, which the code sets and clears together. A cancel
handler reads under the lock (`ReadCancel`) and calls afterwards (`CallCancel`).
`gracefulShutdown` reads `buildDone` once (`ShutdownStarts`), waits
(`BuildAwaited`, `WaitTimesOut`), then the listener closes and the process ends
with whatever still runs. Requests are served until the process has ended
(`Serving`): a connection accepted before `Shutdown` may still bring one. What a build does is `BatchScheduler`; here it returns
nil or an error at any time, cancelled or not. Archive and query validation are
one nondeterministic refusal. `admission`, `outcome` and `timedOut` are history
variables (`wantsExit` is the argument of `runBuildAsync`).

### ResultStore

`../buildbatch/results.go`, `failure_log_store.go` and `lmdb_store_linux.go`. The
log is a sequence of lines with lengths in bytes, and its size the number of its
bytes (`Bytes`); a line whose newline has not
been written is continued by the next append and no longer parses.
`findFailureLogKeepOffset` is modelled on byte offsets, as the number of lines
it drops. `AppendFailure` and `TrimFailureLog` are two steps under one lock,
`Put` is the LMDB transaction, which is external and atomic. A job goes through
`Steps`: an attempt that will be retried only logs, the last one goes through
`UpsertResult`, which logs before it puts. `AppendFails`, `TrimFails`, `PutFails`
are the errors the code logs and ignores; `Crash` may strike in the middle of a
line and the next command starts from what is on disk. `TargetMaps` lets two
directories share a target. `newest` and `excused` are history variables.

### WorkDir

The part of `build_request.go` that `ModeScheduler` has as one step, with
`workspace.go`. A request holds `admissionMu` from `Lock` to `Respond`.
`directorySize` is `ListDir` and `StatFile`, one directory listing and one
`entry.Info` at a time, so that builds and the reaper run in between.
A malformed form is one nondeterministic refusal, and so is a file that
`zip.OpenReader` does not take for an archive; an empty one never is one.
`requestLimit`, `leftAfterZip`, `extractLeft` and `copyWithLimit` are the
arithmetic of the budget. The properties add up sizes as the number of bytes
(`Total`), a cardinality that needs no recursion. An archive is a sequence of entries with a top
directory, a declared and an actual size; `contextDirs` is `findBuildContext`.
An error return after the directory exists goes through `undo`, which ends in the
`RemoveAll` (`RemoveRefused`). One has none: `MkdirAll` of the directory and its
`context` (`build_request.go:101`) may fail when it has made the first, and the
directory stays (`MkdirFails`). `RemoveAll` itself may fail, there and in the
reaper, and keep any of the files; the code ignores that (`RemoveAllFails`).
Builds are reduced to what they write: a log behind `limitedLogWriter` and the
Nydus context. `RemoveFile` is one unlink of `RemoveAll`, in one fixed order
with the log first. `Restart` keeps the disk and forgets the store.
A context that vanishes between the listing and its own walk is skipped by
`directorySize`, or fails it if its files had been listed; `StatFile` allows both.
Sizes are scaled down; wrong headers, paths that leave the directory, and a
rewritten Dockerfile that grows are in the instance. `MaxFaults` bounds crashes
and failed removals together. `unlinked`, `late`, `lost`, `bare`, `kept` and
`measured` are history variables.

### GitCache

`chart/images/git-cache/git-cache-server.py`. `Begin` and `Flock` to `Refresh` are
`ensure_mirror` (the fast path takes no lock), `Admit`, `Busy`, `ServeEnds` the
rest of `handle_git_request`, `GcScan` to `EvictEnds` the janitor. A mirror is
"none", "whole", "objects" (what is left of it has its objects directory, so
`repo_exists` is true) or "rest" (something is left, but not that). git is
external: a clone succeeds, fails or times out, and works in its own directory.
The size of the volume is counted in directories. `Crash` is a kill of the
container, `EvictEnds` may leave files because `rmtree` ignores errors, while the
`rmtree` of an old temporary directory raises and the request is answered with
502 (`Flock`). `broken`
and `cut` are history variables.

### TaskLifecycle

`life`, `wanted` and `pushed` per task. `BuildTasks!Lifecycle` instantiates it:
`life` is "absent" before the request, the status while the task is in the
store, "removed" afterwards; `pushed` counts the solves that succeeded. `Expire`
takes a set of tasks, because `deleteExpired` removes all expired ones in one
critical section.

## 3. What TLC checks

Every run explores its instance exhaustively.

| run | instance | shows |
|---|---|---|
| `tasks_races` | 2 tasks of type both, 1 address with 1 place, 2 global places, one task canceled, timed out, expired | `TypeOK`, `EachOutcomeCountedOnce`, `AddrMatchesStatus`, `SucceededMeansBuilt`, `DoneMeansTerminal`, `ActiveKeepsWorkDir`, `GlobalSlotsAccounted`, `TerminalStatusIsFinal` |
| `tasks_api` | 1 task with a retry, 2 addresses of which one flaps (2 generations), no global cap, synchronous or not, cancel, timeout, expiry, fair | `AddrSlotsAccounted`, `EveryTaskEnds`, `SyncAnsweredWhileRetained`, `ImplementsFairLifecycle` |
| `modes_safety` | 3 requests, modes with 2 and 1 workers, cap 2, shutdown | `TypeOK`, `RetainedTasksBounded`, `QueueIsFIFO`, `NoWaiterOnClosedQueue`, `NoTaskLeftBehind` |
| `modes_liveness` | 2 requests, same modes, builds of one mode may hang | `AcceptedTasksEnd` |
| `batch_resume` | 3 directories (1 excluded), concurrency 2, 2 slots that come and go, 2 commands of one or both formats, retry, skip-fail, crash anywhere | `BatchSlotsAccounted`, `NothingBuiltTwice`, `JobInOnePlace`, `ProgressIsTrue`, `NilMeansBuilt` |
| `batch_stops` | 3 directories, concurrency 2, 1 slot, retry, fail fast or not, fair | `StopsSoon`, `CommandReturns` |
| `batch_daemon` | 2 build requests, 1 cancel, signal, shutdown request, fair | `ActiveBuildIsReachable`, `BuildSeesItsFiles`, `ExitIsOrderly`, `DaemonExits` |
| `result_store` | 2 jobs with own or shared target, 3 attempts, lines of half and all of the limit, 2 faults | `StoredFailureHasLog`, `LogIsBounded`, `NewestLineSurvives`, `LatestLogIsCurrent` |
| `git_cache` | 3 requests for 2 repositories, 1 clone place, 1 request place, 1 pass of the janitor, 1 fault, fair | `MirrorIsWhole`, `ReadsWholeMirror`, `EveryRequestServed` |
| `work_dir` | 2 requests with any of 8 uploads, budget 6, 1 fault (a crash or a failed removal), any number of failed `MkdirAll`, fair | `WorkDirBounded`, `NoStrayDirectory`, `RefusalIsJustified`, `EveryRequestAnswered` |

In `BatchScheduler`, `BatchDaemon`, `ResultStore`, `GitCache` and `WorkDir` the type
invariant `TypeOK` is a conjunct of one of the invariants in the table.

Why the bounds are enough to be interesting: two tasks are what it takes for
one to hold what another waits for; two addresses allow one failover and one
exhaustion of the pool; two generations are the smallest case in which a slot
is held that the pool no longer has; `MaxRetry` 1 gives a retry followed by a
final failure; type both gives two steps, hence a partial success. Restricting
cancel and expiry to one task keeps the other as the innocent bystander. Modes
with two workers tell `Signal` from `Broadcast`. In the batch runs two commands
are the smallest case of a resumption, three directories at concurrency 2 leave
one to be scheduled while two are built (a retry queue of capacity 2 would block
there), and two slots let one be replaced while it is held. In `batch_daemon` two
requests are what the races are about: one that ends and one that is accepted
before its clean-up is over. In `result_store` a line as long as the limit and
one of half its length are the two sides of the edge in the trim; two faults
allow a torn line and a failed trim of it. In `git_cache` two requests for one
repository meet at its lock while the third fills the volume. In `work_dir` the
uploads are an empty file, a small archive, one whose contents fill the limit, one whose zip does, a
wrong header, two build contexts, a path that leaves the directory, and too many
entries; the budget of 6 has room for any first one and for only some second
ones. The symmetry of `modes_safety`
permutes tasks and the two workers of one mode, which no definition tells apart.
Deadlock is checked in the first six: the ticker of the address refresher, and the
explicit stuttering of an exited process, are always enabled. In the other four
a finite number of clients, attempts and faults runs out and the modelled
processes rest, so `CHECK_DEADLOCK` is off; what must not hang there is a
liveness property.

Fairness. Weak fairness of a goroutine and of the handlers under way: the Go
scheduler runs every runnable goroutine. It contains that a solve returns, which
`EveryTaskEnds` needs and which the code leaves to BuildKit and the context.
Strong fairness of the two blocking acquisitions: Go queues the senders of a
channel in FIFO order, so a goroutine that waits while tokens are returned again
and again gets one. No fairness for clients, clocks, the reaper or the resolver.
That the goroutine of an accepted task starts at all rests on
`AcceptedTasksEnd` when modes are configured. There `EndTask` is fair for the
workers of `HealthyModes` only: the others may hang for ever. In the batch
command weak fairness of each goroutine is enough: only the command's own
goroutine acquires slots, so what is free stays free until it takes it. The preparation of a directory need
not fail: it is made to only once the context is done, so a producer that blocks
on the channel would be seen. That a
build returns is what `--timeout` and `exec.CommandContext` provide. In the batch
daemon the goroutines that can run do run and the 30 s timer fires; an upload
and `runBuildCommand` may take for ever, and so may clients. In the git cache
threads run and every git command ends, at its timeout at the latest, and the
janitor finishes a pass it has begun; a client may read its answer for ever. In
the work directory only the handlers are fair, with the read deadline as one of
their steps (`UploadTimesOut`): the client itself need not send anything.

### Where the documentation and the code disagree

Two runs check what a document or a test says and find it violated:

* `sync_stuck` (`src/docs/buildctl-daemon.md:228`): a synchronous request is not
  answered when its task is canceled and then expires before its goroutine ends,
  because `done` is closed through `store.update`, which no longer finds the
  task. What does hold is `SyncAnsweredWhileRetained`.
* `batch_completed` (`src/internal/buildbatch/build_command_linux_test.go:138`
  expects an error of a canceled build, with no retries): with `--retry`, the
  build that the cancellation kills goes to the retry queue and is dropped; the
  command returns nil, and the daemon reports "completed". What holds is
  `NilMeansBuilt`, for commands that were not interrupted.

Others are exceptions that a passing property names:

* an address that leaves the resolution and comes back has a new semaphore while
  solves still run under the old one, so `--addr-concurrency`
  (`src/docs/buildctl-daemon.md:543`) is a cap per slot (`AddrSlotsAccounted`);
* the Nydus step of a canceled and expired task recreates its directory, which
  nothing removes again (`late` in `NoStrayDirectory`); nor does anything remove
  the directories of a daemon that was restarted (`lost`) or one whose `RemoveAll`
  failed (`kept`), and their files count against the budget;
* a request whose `MkdirAll` fails halfway (`build_request.go:101`) is the only
  refusal after which nothing is removed: its directory stays, empty (`bare`);
* a body that exceeds only what is left of the work directory is refused with 413
  "exceeds max-request-bytes", where `src/docs/buildctl-daemon.md:95` promises
  507 for exhausted capacity: `RefusalIsJustified` accepts either;
* `directorySize` skips a directory that vanishes but fails, with 500, on a file
  that does;
* the trim of the failure log keeps nothing when its newest line is exactly as
  long as the limit (`NewestLineSurvives`, `failure_log_store.go:144`);
* a batch request accepted after its predecessor's state is final and before that
  one's deferred removal can lose its freshly extracted files
  (`BuildSeesItsFiles`); one accepted after `gracefulShutdown` has looked is
  killed, and one accepted after a failed oneshot build hides the failure
  (`ExitIsOrderly`);
* an eviction that is cut short leaves half a mirror: with its objects directory
  it is served from then on, without it every later clone fails at the rename
  (`broken` in `MirrorIsWhole` and `ReadsWholeMirror`).

## 4. What is proved

Each theorem holds for all constants that satisfy the named ASSUMEs of its
module, which TLC evaluates in the runs. They say: in `BuildTasks` finitely many
tasks, positive per-address cap, retained cap and generations, non-empty
resolutions, `NoAddr` not an address; in `ModeScheduler` a worker for every
mode and a positive retained cap; in `BatchScheduler` a positive number of
directories, concurrency and commands, finitely many slots, and options of the
form the flags give; in `ResultStore` a positive limit that no single line
exceeds (`marshalFailureLogLine` truncates) and natural bounds; in `GitCache`
positive numbers of places and natural bounds; in `WorkDir` finitely many
requests, positive limits (the code replaces 0 by a default), any uploads whose
zip is no longer than the body it comes in. The names of nobody, no job, no
slot are not names of somebody.

| module | theorem | states |
|---|---|---|
| `BuildTasksTypes` | `TypeCorrect` | `[]TypeOK` |
| `BuildTasksProofs` | `GlobalSlots`, `AddrSlots` | `[]GlobalSlotsAccounted`, `[]AddrSlotsAccounted` |
| | `StatusIsFinal` | `TerminalStatusIsFinal` |
| | `OutcomeCounted` | `[]EachOutcomeCountedOnce` |
| | `SucceededIsBuilt` | `[]SucceededMeansBuilt` |
| | `DoneIsTerminal`, `WorkDirKept`, `AddrAgrees` | `[]DoneMeansTerminal`, `[]ActiveKeepsWorkDir`, `[]AddrMatchesStatus` |
| | `RefinesLifecycle` | `ImplementsLifecycle`: the safety part of `ImplementsFairLifecycle` |
| `ModeSchedulerProofs` | `TypeCorrect` | `[]TypeOK` |
| | `StoreIsBounded`, `QueuesAreFIFO` | `[]RetainedTasksBounded`, `[]QueueIsFIFO` |
| | `ClosedQueuesAreLeft`, `NothingLeftBehind` | `[]NoWaiterOnClosedQueue`, `[]NoTaskLeftBehind` |
| `BatchSchedulerProofs` | `JobsAreConsistent` | `[]JobsInv`, the places and the work of all jobs |
| | `TokensAccounted`, `OnePlace` | `[]BatchSlotsAccounted`, `[]JobInOnePlace` |
| | `BuiltOnce`, `ProgressTrue` | `[]NothingBuiltTwice`, `[]ProgressIsTrue` |
| | `AtMostOneLateBuild`, `NilIsHonest` | `[]StopsSoon`, `[]NilMeansBuilt` |
| `BatchDaemonProofs` | `ActiveIsReachable`, `BuildSeesOwnFiles`, `ExitsInOrder` | `[]ActiveBuildIsReachable`, `[]BuildSeesItsFiles`, `[]ExitIsOrderly` |
| `ResultStoreProofs` | `TypeCorrect` | `[]TypeOK` |
| | `FailuresAreLogged`, `LatestLogShown` | `[]StoredFailureHasLog`, `[]LatestLogIsCurrent` |
| | `LogStaysBounded`, `NewestLineKept` | `[]LogIsBounded`, `[]NewestLineSurvives` |
| `GitCacheProofs` | `MirrorsAreWhole`, `ReadersSeeWholeMirrors` | `[]MirrorIsWhole`, `[]ReadsWholeMirror` |
| `WorkDirProofs` | `BudgetHolds`, `DirectoriesOwned` | `[]WorkDirBounded`, `[]NoStrayDirectory` |
| | `RefusalsJustified` | `RefusalIsJustified` |

Few of these properties are inductive as they stand; the strengthenings were
model-checked before they were proved. The arguments:

`BuildTasks`

* **Types.** `TypeOK` is not inductive: `addrSem[slot[t]]` is a token count only
  if `slot[t]` is a real slot where it is returned, and `step + 1` is a step only
  if the current one is not the last. `TypeInv` adds `StepInRange`, `SlotKnown`
  and `PoolHasSlots` (an address in the pool has had a slot made for it).
* **Tokens.** `SlotsInv` equates each counter with the cardinality of the set of
  goroutines between acquire and release. An acquisition adds one element to a
  finite set, a release removes one, all other actions leave `GlobalHolders` and
  `AddrHolders` alone. The bounds follow from the guards. Replacing the pool
  touches no counter, which is why the argument survives flapping addresses.
* **Status.** That a terminal status is final needs to know why none of the late
  writers can act. `StatusInv` has the reasons: a terminal status other than
  canceled is always `observed` (`OutcomeIsObserved`), so neither `finishTask` nor
  the assignment of a worker touches it; a task without a request is untouched
  (`NewIsUntouched`); the goroutine reaches its deferred close only after an end or
  a deletion (`CloseAfterEnd`), and only ended tasks are deleted
  (`ReapedHasEnded`).
* **Counting.** `Counted`: `finishTask` adds the task to exactly one of the sets
  that `metrics` counts, once, because it tests `observed`.
* **Success.** `Progress`: at step n of a task the formats of all earlier steps
  have been built, and where a successful attempt is judged the current one has too.
* **Refinement.** Under the mapping of section 2 every action is a step of
  `TaskLifecycle` or invisible to it. `RefineInv` supplies what the abstract
  guards ask for: a goroutine has built the formats of the steps it has done and
  no other (`BuiltSoFar`), and a solve runs only for a task that is running or
  was canceled meanwhile (`SolvedIsRunning`). The proof showed that an earlier `TaskLifecycle`,
  whose `Expire` took one task, was not implemented: with two expired tasks the
  reaper deletes both at once.

`ModeScheduler`

* **Admission.** `AdmissionInv`: from the test of the cap to `store.add` one
  handler holds `admissionMu` (`RoomWhilePreparing`), so the room it saw is
  still there; tasks leave the store meanwhile, none enters.
* **Queues.** FIFO is inductive with the types: push appends to both sequences
  and pop moves the head from one to the other.
* **Shutdown.** `WaiterInv`: a worker that waits on a closed queue is one that
  the broadcast still due will wake, and the store is listed only after
  every queue is closed. `LeftIsDoomed`: a task in the store that has not ended
  is still ahead of the cancelling loop, or its handler is before `enqueue`,
  which will refuse it.

`BatchScheduler`. Layers, each resting on those before: the control of the
command (`ControlInv`); where each job is (`PlacesInv`); which formats it has
left and that none of them is stored as succeeded (`WorkInv`), hence
`NothingBuiltTwice`; tokens against holders (`SlotInv`); counters against the
states of jobs (`CountInv`); why a job may be missing, namely that the command is
stopping (`FlagInv`), and that otherwise every directory the preparation has
passed is in a queue, with a goroutine, or settled (`SettledInv`), hence
`NilMeansBuilt`; and that after a stop only the build which `scheduleTask` had
let through may start a job (`LateInv`).

`BatchDaemon`. `ReachInv`: a cancel handler between its read and its call has
the request it read. `FilesInv`: a predecessor whose clean-up is due was seen by the
request accepted since (`CleanerWasSeen`), and an archive is extracted into an
empty directory. `ExitInv`: an active build that the shutdown does not wait for was
accepted later (`ActiveIsAwaited`), and a failed state that is no longer there was
overwritten by a request that saw it (`FailureIsSeen`).

`ResultStore`

* **Files.** The size of a file is the number of its bytes, so that what an
  append adds and a trim keeps is a matter of cardinalities (`SizeOfAppendLine`,
  `SizeOfRest`), and `findFailureLogKeepOffset` exists as the least of a set of
  numbers (`KeepOffset`). `TrimKeeps`: what is left is below the limit and has the
  last line, unless that line is as long as the limit.
* **Order of writes.** `LoggedFirst`: a goroutine past its append has its line in
  the log or an excuse; so has, therefore, what it stores.
* **Damage.** `SizeInv`: a fault pays for one untrimmed line and for one damaged
  line. A torn last line counts as damaged although it still parses
  (`Damaged`): the next append joins two lines into one, and without that
  count it would seem to spoil a line for free.
* **Newest, latest.** `NewestInv` follows the last line through the trim.
  `OrderInv`: the lines of a job are in the order of its attempts, also
  after crashes and trims, so the last line of a target is its latest.

`GitCache`. `PlacesInv` equates the two semaphores with their holders,
`LockInv` says that who is past `flock` holds the lock, the janitor included, and
`DiskInv` what the holder may rely on: nobody else changes the mirror, what is
partial is being evicted or broken, and a reader whose mirror is going was cut.

`WorkDir`. Its invariant `WorkDirInv` has seven parts, none of them inductive alone.

* **Sums.** `Total(f)` is the number of bytes of the files that `f` gives sizes. That
  it is monotone, that one file n bytes longer makes it n greater, and that m
  files within a limit take at most m times that are lemmas on
  cardinalities (`TotalMonotone`, `TotalAtMost`, `TotalAtLeast`, `TotalBound`).
* **Measuring.** The walk of `directorySize` reads one file at a time while builds
  and the reaper go on. `Counted` is what the archives already visited take *now*;
  `BudgetInv` says that the running sum is at least that. It holds because
  under `admissionMu` no zip or context grows (what grows meanwhile, logs
  and Nydus contexts, is not an archive), and what is removed after it was
  counted only makes the sum too large. At the end of the walk nothing is
  pending, so the sum covers all archives and `left` is free.
* **Spending.** From there `BudgetInv` follows `left` through the handler: the body
  fits into it (`save`), the zip is taken from it (`open`), the context stays below
  what remains (`extract`). The rewritten Dockerfile is the one thing added
  without a test, and the next request measures it.
* **The rest of a directory.** `OtherInv`: the log and what `limitedLogWriter` has left
  add up to no more than the limit, and a Nydus context has one size. With
  `DirInv` (files are only in directories on disk) this bounds `OtherBytes`.
* **Owners.** `HandlerInv` says what a request has at each place of the handler, and
  `DirInv` that the owner of a directory is in the store, removing, late, lost, bare,
  kept, or a request between `save` and its answer; with the lock free there is none
  of the last kind. `BareInv`: nobody comes back to what a failed `MkdirAll` left,
  because its request is done and never was in the store.
* **Refusals.** `ChargeInv` is exact where `BudgetInv` is a bound: `measured`, the
  zip once, and `left` make up the budget, and the context takes no more
  than the entries before `at` account for (`UnpackedBefore`). An entry that does
  not fit is therefore one for which the whole archive does not
  (`UnpackedEntry`). The induction over the entries is that of the behaviour.

Model-checked only: liveness (`EveryTaskEnds`, `SyncAnsweredWhileRetained`,
`AcceptedTasksEnd`, `CommandReturns`, `DaemonExits`, `EveryRequestServed`,
`EveryRequestAnswered`, the fairness in `ImplementsFairLifecycle`), which is out
of the prover's reach. Every invariant and every action property of the passing
runs has a theorem.

## 5. Not modelled, and the plan

Planned, in this order:

1. Algorithms against reference definitions: the consistent-hash order
   (`scheduler.go:159-199`), rendezvous routing (`target_router.go`), the ring
   buffer of captured output (`../buildbatch/build_execution.go`).
2. The preheater's fail-fast and the registry checker's bounded concurrency.
3. The composition of the batch daemon with the scheduler it starts, and
   directories that share a target in the scheduler itself (`ResultStore` has them).

Not planned: flags and their defaults (they are the CONSTANTS), archive and
Dockerfile text processing, the BuildKit client and TLS, HTTP metrics, spans and
logging, the observer's gauges, the chart and developer scripts. They are
sequential, pure I/O or do not influence the builds.

## 6. Running

    tlc -config BuildTasks_races.cfg MCBuildTasks
    tlapm BuildTasksProofs.tla      (and the other modules named ...Proofs, BuildTasksTypes)
