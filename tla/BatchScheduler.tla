--------------------------- MODULE BatchScheduler ---------------------------
(***************************************************************************)
(* One build command of buildctl-batch (internal/buildbatch): a goroutine  *)
(* prepares the image directories and streams their jobs, the command's    *)
(* own goroutine gives each job a worker slot and a global slot and starts *)
(* it, the job's goroutine builds one format after the other, stores every *)
(* result in LMDB and sends the job to the retry queue when a build fails. *)
(* The command may be interrupted, or the process may crash, at any point; *)
(* the next command finds the results that have been stored.               *)
(*                                                                         *)
(* runBuildCommandBatch, for a target without a directory, has the same    *)
(* scheduling code with one job and no preparation.                        *)
(***************************************************************************)
EXTENDS Integers, FiniteSets, Sequences

CONSTANTS
    N,            \* the number of image directories, taken in order
    Excluded,     \* the directories that the target filter excludes
    Options,      \* what a command may be called with: records
                  \*   [modes, retry, failfast, skipFail]
    Concurrency,  \* --concurrency
    Slots,        \* the slots that resolutions of --addrs may make
    NoSlot,
    MaxRuns       \* bound on the commands run one after the other

Entries == 1..N
Formats == {"nydus", "oci"}
\* The formats of a job, in the order they are built.
SpecLists == {<<>>, <<"nydus">>, <<"oci">>, <<"nydus", "oci">>}

\* buildModes is <<nydus>>, <<oci>> or <<nydus, oci>>, by resolveBuildModes.
ASSUME NAssumption == N \in Nat \ {0} /\ Excluded \subseteq Entries
ASSUME OptionsAssumption ==
    Options \subseteq [modes : {<<"nydus">>, <<"oci">>, <<"nydus", "oci">>},
                       retry : Nat, failfast : BOOLEAN, skipFail : BOOLEAN]
ASSUME ConcurrencyAssumption == Concurrency \in Nat \ {0} /\ MaxRuns \in Nat \ {0}
ASSUME SlotsAssumption == IsFiniteSet(Slots) /\ NoSlot \notin Slots

VARIABLES
    run, opts,       \* which command, and its options
    db,              \* LMDB: the result of each target, kept over crashes
    ctxDone, failed, fatal, interrupted,
    ppc, prep, prepErr, \* streamPreparedBuildJobs: place, directory, error
    jobCh,           \* jobs that are prepared and not yet received
    mpc, scheduling, retrying, \* the command: place, and how it goes on
    pending,         \* the jobs scheduleTask is to be called with
    mslot,           \* the slot scheduleTask holds for the job to come
    gpc, task, gslot, ok, \* the goroutine of each job
    retryQueue,
    globalSem, addrSem, pool, fresh, \* fresh: the slots not made yet
    states, succeeded, failures, total, \* buildOutcomeCounters
    ret,             \* what the command has returned
    late             \* history: jobs scheduleTask started after the command was stopped

command  == <<run, opts, interrupted>>
flags    == <<ctxDone, failed, fatal>>
producer == <<ppc, prep, prepErr>>
main     == <<mpc, scheduling, retrying, pending, mslot, ret, late>>
jobs     == <<gpc, task, gslot, ok>>
sems     == <<globalSem, addrSem>>
addrs    == <<pool, fresh>>
counters == <<states, succeeded, failures, total>>
vars     == <<command, flags, producer, main, jobs, sems, addrs, counters, db,
              jobCh, retryQueue>>

Stopped == ctxDone \/ (failed /\ opts.failfast)

\* buildTask: the formats to build, the place of the loop over them, and the
\* retries spent.
TaskOf(e, specs, attempt) == [entry |-> e, specs |-> specs, at |-> 1, attempt |-> attempt]
NoTask == TaskOf(0, <<>>, 0)

-----------------------------------------------------------------------------
(* streamPreparedBuildJobs.                                                *)

\* The formats of a directory that filterBuildJobs leaves to build: the ones
\* without a result and, unless --skip-fail, the ones that failed.
RebuildAlways(r) == TRUE
Rebuild(r) == r = "none" \/ (r = "fail" /\ ~opts.skipFail)

ModeSet == {opts.modes[i] : i \in DOMAIN opts.modes}
PendingSpecs(e) ==
    CHOOSE s \in SpecLists : {s[i] : i \in DOMAIN s} = {f \in ModeSet : Rebuild(db[e][f])}
AllSucceeded(e) == \A f \in ModeSet : db[e][f] = "ok"
SkippedFailure(e) == opts.skipFail /\ \E f \in ModeSet : db[e][f] = "fail"

\* The top of the loop over the directories: nothing left, or ctx.Err().
PrepareNext ==
    /\ ppc = "top"
    /\ ppc' = IF prep > N \/ ctxDone THEN "end" ELSE "work"
    /\ prepErr' = (prep <= N /\ ctxDone)
    /\ UNCHANGED <<command, flags, prep, main, jobs, sems, addrs, counters, db,
                   jobCh, retryQueue>>

\* Copying, hashing, substitution or reading of the metadata fails, or the
\* context is done while the job is sent.
PrepareFails ==
    /\ ppc = "work"
    /\ ppc' = "end"
    /\ prepErr' = TRUE
    /\ UNCHANGED <<command, flags, prep, main, jobs, sems, addrs, counters, db,
                   jobCh, retryQueue>>

\* A directory that yields no job: excluded by the target filter, or with a
\* result that is not built again.
PrepareSkips ==
    /\ ppc = "work"
    /\ \/ /\ prep \in Excluded
          /\ total' = IF total > 0 THEN total - 1 ELSE total
          /\ UNCHANGED <<states, succeeded, failures>>
       \/ /\ prep \notin Excluded /\ AllSucceeded(prep)
          /\ states' = [states EXCEPT ![prep] = "succeeded"]
          /\ succeeded' = succeeded + 1
          /\ UNCHANGED <<failures, total>>
       \/ /\ prep \notin Excluded /\ ~AllSucceeded(prep) /\ SkippedFailure(prep)
          /\ states' = [states EXCEPT ![prep] = "failed"]
          /\ failures' = failures + 1
          /\ UNCHANGED <<succeeded, total>>
    /\ ppc' = "top"
    /\ prep' = prep + 1
    /\ UNCHANGED <<command, flags, prepErr, main, jobs, sems, addrs, db, jobCh,
                   retryQueue>>

\* out <- job, on a channel of capacity --concurrency.
PrepareSends ==
    /\ ppc = "work"
    /\ prep \notin Excluded /\ ~AllSucceeded(prep) /\ ~SkippedFailure(prep)
    /\ Len(jobCh) < Concurrency
    /\ jobCh' = Append(jobCh, TaskOf(prep, PendingSpecs(prep), 0))
    /\ ppc' = "top"
    /\ prep' = prep + 1
    /\ UNCHANGED <<command, flags, prepErr, main, jobs, sems, addrs, counters, db,
                   retryQueue>>

-----------------------------------------------------------------------------
(* The command: scheduleTask, called for the jobs received and then for    *)
(* the jobs to retry.                                                      *)

\* for job := range jobCh: once a job has been refused the others are only
\* taken out of the channel.
ReceiveJob ==
    /\ mpc = "recv" /\ jobCh # <<>>
    /\ jobCh' = Tail(jobCh)
    /\ IF scheduling THEN pending' = <<Head(jobCh)>> /\ mpc' = "check"
                     ELSE UNCHANGED <<pending, mpc>>
    /\ UNCHANGED <<command, flags, producer, scheduling, retrying, mslot, ret,
                   late, jobs, sems, addrs, counters, db, retryQueue>>

\* The channel is closed; an error of the preparation cancels the command.
JoinProducer ==
    /\ mpc = "recv" /\ jobCh = <<>> /\ ppc = "end"
    /\ mpc' = "wait"
    /\ retrying' = TRUE
    /\ fatal' = (fatal \/ prepErr)
    /\ failed' = (failed \/ prepErr)
    /\ ctxDone' = (ctxDone \/ prepErr)
    /\ UNCHANGED <<command, producer, scheduling, pending, mslot, ret, late, jobs,
                   sems, addrs, counters, db, jobCh, retryQueue>>

\* Where the loops go when scheduleTask has returned true, and false: the
\* first loop schedules no more, the second drops the rest of its jobs.
AfterStart ==
    /\ pending' = Tail(pending)
    /\ mpc' = IF ~retrying THEN "recv" ELSE IF Len(pending) > 1 THEN "check" ELSE "wait"
    /\ UNCHANGED scheduling

AfterRefusal ==
    /\ pending' = <<>>
    /\ mpc' = IF retrying THEN "wait" ELSE "recv"
    /\ scheduling' = (scheduling /\ retrying)

CheckContextOnly == ctxDone
CheckStopped == Stopped

\* The tests at the beginning of scheduleTask.
CheckStop ==
    /\ mpc = "check"
    /\ IF CheckStopped THEN AfterRefusal
                       ELSE mpc' = "slot" /\ UNCHANGED <<pending, scheduling>>
    /\ UNCHANGED <<command, flags, producer, retrying, mslot, ret, late, jobs, sems,
                   addrs, counters, db, jobCh, retryQueue>>

Free(s) == addrSem[s] < Concurrency

\* waitForAvailableAddrSlot polls the pool for a slot with a token to spare.
\* The order of the hash and the cooldown of workers choose among them.
WaitForSlot ==
    /\ mpc = "slot"
    /\ \/ \E s \in pool :
             /\ Free(s)
             /\ addrSem' = [addrSem EXCEPT ![s] = @ + 1]
             /\ mslot' = s
             /\ mpc' = "global"
             /\ UNCHANGED <<pending, scheduling>>
       \/ ctxDone /\ AfterRefusal /\ UNCHANGED <<addrSem, mslot>>
    /\ UNCHANGED <<command, flags, producer, retrying, ret, late, jobs, globalSem,
                   addrs, counters, db, jobCh, retryQueue>>

\* The global slot is there, and the goroutine of the job starts.
StartBuild ==
    LET t == Head(pending) IN
    /\ mpc = "global"
    /\ globalSem < Concurrency
    /\ globalSem' = globalSem + 1
    /\ gpc' = [gpc EXCEPT ![t.entry] = "build"]
    /\ task' = [task EXCEPT ![t.entry] = t]
    /\ gslot' = [gslot EXCEPT ![t.entry] = mslot]
    /\ mslot' = NoSlot
    /\ late' = IF Stopped THEN late + 1 ELSE late
    /\ AfterStart
    /\ UNCHANGED <<command, flags, producer, retrying, ret, ok, addrSem, addrs,
                   counters, db, jobCh, retryQueue>>

GiveBackNothing == UNCHANGED addrSem
GiveBackSlot == addrSem' = [addrSem EXCEPT ![mslot] = @ - 1]

\* acquireGlobalSlotOrReleaseWorker on a context that is done.
ReleaseWorker ==
    /\ mpc = "global" /\ ctxDone
    /\ GiveBackSlot
    /\ mslot' = NoSlot
    /\ AfterRefusal
    /\ UNCHANGED <<command, flags, producer, retrying, ret, late, jobs, globalSem,
                   addrs, counters, db, jobCh, retryQueue>>

\* wg.Wait, then all of the retry queue at once.
DrainRetries ==
    /\ mpc = "wait"
    /\ \A e \in Entries : gpc[e] = "idle"
    /\ retryQueue # <<>>
    /\ pending' = retryQueue
    /\ retryQueue' = <<>>
    /\ mpc' = "check"
    /\ UNCHANGED <<command, flags, producer, scheduling, retrying, mslot, ret, late,
                   jobs, sems, addrs, counters, db, jobCh>>

Return ==
    /\ mpc = "wait"
    /\ \A e \in Entries : gpc[e] = "idle"
    /\ retryQueue = <<>>
    /\ mpc' = "done"
    /\ ret' = IF fatal THEN "fatal" ELSE IF failed THEN "failed" ELSE "nil"
    /\ UNCHANGED <<command, flags, producer, scheduling, retrying, pending, mslot,
                   late, jobs, sems, addrs, counters, db, jobCh, retryQueue>>

-----------------------------------------------------------------------------
(* The goroutine of a job.                                                 *)

At(e, p) == gpc[e] = p
Go(e, p) == gpc' = [gpc EXCEPT ![e] = p]

Current(e) == task[e].specs[task[e].at]

\* The for loop goes on to the next format.
MoreSpecsOffByOne(t) == t.at + 1 < Len(t.specs)
MoreSpecs(t) == t.at < Len(t.specs)

\* task.job.specs[idx:]
RemainingAll(t) == t.specs
Remaining(t) == SubSeq(t.specs, t.at, Len(t.specs))

\* executeBuild: the child process succeeds, or fails, also when its context
\* is done. A failure with retries to spare goes to the retry queue unstored.
BuildReturns(e) ==
    /\ At(e, "build")
    /\ \E success \in BOOLEAN :
          /\ ok' = [ok EXCEPT ![e] = success]
          /\ Go(e, IF ~success /\ task[e].attempt < opts.retry THEN "retry" ELSE "store")
    /\ UNCHANGED <<command, flags, producer, main, task, gslot, sems, addrs,
                   counters, db, jobCh, retryQueue>>

\* make(chan buildTask, len(entries)+1)
RetryCapSmall == Concurrency
RetryCap == N + 1

\* The goroutine returns without a stored result.
AfterRetryFallsThrough == "store"
AfterRetry == "release"

\* retryQueue <- buildTask{...}; the goroutine still holds its slots.
RetryLater(e) ==
    /\ At(e, "retry")
    /\ Len(retryQueue) < RetryCap
    /\ retryQueue' = Append(retryQueue,
                            TaskOf(e, Remaining(task[e]), task[e].attempt + 1))
    /\ Go(e, AfterRetry)
    /\ UNCHANGED <<command, flags, producer, main, task, gslot, ok, sems, addrs,
                   counters, db, jobCh>>

\* store.UpsertResult succeeds; a failed format ends the loop.
StoreResult(e) ==
    /\ At(e, "store")
    /\ db' = [db EXCEPT ![e][Current(e)] = IF ok[e] THEN "ok" ELSE "fail"]
    /\ IF ok[e] /\ MoreSpecs(task[e])
       THEN /\ task' = [task EXCEPT ![e].at = @ + 1]
            /\ Go(e, "build")
       ELSE Go(e, "apply") /\ UNCHANGED task
    /\ UNCHANGED <<command, flags, producer, main, gslot, ok, sems, addrs, counters,
                   jobCh, retryQueue>>

\* store.UpsertResult fails: recordFatalErr and failed.Store(true).
StoreFails(e) ==
    /\ At(e, "store")
    /\ fatal' = TRUE
    /\ failed' = TRUE
    /\ Go(e, "cancel")
    /\ UNCHANGED <<command, ctxDone, producer, main, task, gslot, ok, sems, addrs,
                   counters, db, jobCh, retryQueue>>

\* buildOutcomeCounters.apply.
Apply(e) ==
    LET next == IF ok[e] THEN "succeeded" ELSE "failed"
        Step(n, name) == n + (IF next = name THEN 1 ELSE 0)
                           - (IF states[e] = name THEN 1 ELSE 0) IN
    /\ At(e, "apply")
    /\ states' = [states EXCEPT ![e] = next]
    /\ succeeded' = Step(succeeded, "succeeded")
    /\ failures' = Step(failures, "failed")
    /\ Go(e, IF ok[e] THEN "release" ELSE "flag")
    /\ UNCHANGED <<command, flags, producer, main, task, gslot, ok, sems, addrs, total,
                   db, jobCh, retryQueue>>

\* failed.Store(true), and with --failfast cancel() next.
FlagIfFailfast(e) == At(e, "flag") /\ failed' = opts.failfast
FlagFailed(e) == At(e, "flag") /\ failed' = TRUE

Flag(e) ==
    /\ FlagFailed(e)
    /\ Go(e, IF opts.failfast THEN "cancel" ELSE "release")
    /\ UNCHANGED <<command, ctxDone, fatal, producer, main, task, gslot, ok, sems,
                   addrs, counters, db, jobCh, retryQueue>>

CancelRun(e) ==
    /\ At(e, "cancel")
    /\ ctxDone' = TRUE
    /\ Go(e, "release")
    /\ UNCHANGED <<command, failed, fatal, producer, main, task, gslot, ok, sems, addrs,
                   counters, db, jobCh, retryQueue>>

\* The deferred <-slot.sem, then <-globalSem and wg.Done().
ReleaseSlot(e) ==
    /\ At(e, "release")
    /\ addrSem' = [addrSem EXCEPT ![gslot[e]] = @ - 1]
    /\ gslot' = [gslot EXCEPT ![e] = NoSlot]
    /\ Go(e, "releaseGlobal")
    /\ UNCHANGED <<command, flags, producer, main, task, ok, globalSem, addrs,
                   counters, db, jobCh, retryQueue>>

ReleaseGlobal(e) ==
    /\ At(e, "releaseGlobal")
    /\ globalSem' = globalSem - 1
    /\ task' = [task EXCEPT ![e] = NoTask]
    /\ ok' = [ok EXCEPT ![e] = FALSE]
    /\ Go(e, "idle")
    /\ UNCHANGED <<command, flags, producer, main, gslot, addrSem, addrs,
                   counters, db, jobCh, retryQueue>>

-----------------------------------------------------------------------------
(* The environment.                                                        *)

\* A signal, or the daemon's cancel request.
Interrupt ==
    /\ mpc # "done" /\ ~interrupted
    /\ ctxDone' = TRUE
    /\ interrupted' = TRUE
    /\ UNCHANGED <<run, opts, failed, fatal, producer, main, jobs, sems, addrs,
                   counters, db, jobCh, retryQueue>>

\* addrPool.replace: an address that stays keeps its slot, every other one
\* gets a slot with a semaphore of its own. No resolution is empty.
RefreshAddrs ==
    /\ mpc # "done"
    /\ \E kept \in SUBSET pool, new \in SUBSET fresh :
          /\ kept \cup new # {}
          /\ pool' = kept \cup new
          /\ fresh' = fresh \ new
    /\ UNCHANGED <<command, flags, producer, main, jobs, sems, counters, db, jobCh,
                   retryQueue>>

\* The process ends, by a crash or because the command has returned, and the
\* next command starts: of all the state only the stored results are left.
NextCommand ==
    /\ run < MaxRuns
    /\ run' = run + 1
    /\ opts' \in Options
    /\ pool' \in (SUBSET Slots) \ {{}}
    /\ fresh' = Slots \ pool'
    /\ ctxDone' = FALSE /\ failed' = FALSE /\ fatal' = FALSE /\ interrupted' = FALSE
    /\ ppc' = "top" /\ prep' = 1 /\ prepErr' = FALSE
    /\ jobCh' = <<>> /\ pending' = <<>> /\ retryQueue' = <<>>
    /\ mpc' = "recv" /\ scheduling' = TRUE /\ retrying' = FALSE
    /\ mslot' = NoSlot /\ ret' = "none" /\ late' = 0
    /\ gpc' = [e \in Entries |-> "idle"]
    /\ task' = [e \in Entries |-> NoTask]
    /\ gslot' = [e \in Entries |-> NoSlot]
    /\ ok' = [e \in Entries |-> FALSE]
    /\ globalSem' = 0 /\ addrSem' = [s \in Slots |-> 0]
    /\ states' = [e \in Entries |-> "unknown"]
    /\ succeeded' = 0 /\ failures' = 0 /\ total' = N
    /\ UNCHANGED db

Finished ==
    /\ mpc = "done" /\ run = MaxRuns
    /\ UNCHANGED vars

-----------------------------------------------------------------------------
Init ==
    /\ run = 1
    /\ opts \in Options
    /\ db = [e \in Entries |-> [f \in Formats |-> "none"]]
    /\ pool \in (SUBSET Slots) \ {{}}
    /\ fresh = Slots \ pool
    /\ ctxDone = FALSE /\ failed = FALSE /\ fatal = FALSE /\ interrupted = FALSE
    /\ ppc = "top" /\ prep = 1 /\ prepErr = FALSE
    /\ jobCh = <<>> /\ pending = <<>> /\ retryQueue = <<>>
    /\ mpc = "recv" /\ scheduling = TRUE /\ retrying = FALSE
    /\ mslot = NoSlot /\ ret = "none" /\ late = 0
    /\ gpc = [e \in Entries |-> "idle"]
    /\ task = [e \in Entries |-> NoTask]
    /\ gslot = [e \in Entries |-> NoSlot]
    /\ ok = [e \in Entries |-> FALSE]
    /\ globalSem = 0 /\ addrSem = [s \in Slots |-> 0]
    /\ states = [e \in Entries |-> "unknown"]
    /\ succeeded = 0 /\ failures = 0 /\ total = N

Producer == PrepareNext \/ PrepareFails \/ PrepareSkips \/ PrepareSends

Command ==
    \/ ReceiveJob \/ JoinProducer \/ CheckStop \/ WaitForSlot \/ StartBuild
    \/ ReleaseWorker \/ DrainRetries \/ Return

Job(e) ==
    \/ BuildReturns(e) \/ RetryLater(e) \/ StoreResult(e) \/ StoreFails(e)
    \/ Apply(e) \/ Flag(e) \/ CancelRun(e) \/ ReleaseSlot(e) \/ ReleaseGlobal(e)

Next ==
    \/ Producer
    \/ Command
    \/ \E e \in Entries : Job(e)
    \/ Interrupt \/ RefreshAddrs \/ NextCommand \/ Finished

Spec == Init /\ [][Next]_vars

\* The goroutines are scheduled, and buildctl returns, by itself or killed by
\* exec.CommandContext when --timeout elapses. The preparation need not fail:
\* a blocked send ends when there is room or when the context is done.
Fairness ==
    /\ WF_vars(PrepareNext \/ PrepareSkips \/ PrepareSends \/ (ctxDone /\ PrepareFails))
    /\ WF_vars(Command)
    /\ \A e \in Entries : WF_vars(Job(e))

FairSpec == Spec /\ Fairness

-----------------------------------------------------------------------------
(* Properties.                                                             *)

TaskRecord ==
    [entry : 0..N, specs : SpecLists, at : 1..2, attempt : Nat]

\* The types of the variables: in particular the channels and semaphores stay
\* within the capacities that the two build commands make them with.
TypeOK ==
    /\ run \in 1..MaxRuns /\ opts \in Options
    /\ db \in [Entries -> [Formats -> {"none", "ok", "fail"}]]
    /\ <<ctxDone, failed, fatal, interrupted>> \in BOOLEAN \X BOOLEAN \X BOOLEAN \X BOOLEAN
    /\ ppc \in {"top", "work", "end"} /\ prep \in 1..(N + 1) /\ prepErr \in BOOLEAN
    /\ mpc \in {"recv", "check", "slot", "global", "wait", "done"}
    /\ scheduling \in BOOLEAN /\ retrying \in BOOLEAN
    /\ jobCh \in Seq(TaskRecord) /\ Len(jobCh) <= Concurrency
    /\ pending \in Seq(TaskRecord) /\ retryQueue \in Seq(TaskRecord)
    /\ Len(retryQueue) <= RetryCap
    /\ mslot \in Slots \cup {NoSlot}
    /\ gpc \in [Entries -> {"idle", "build", "retry", "store", "apply", "flag",
                            "cancel", "release", "releaseGlobal"}]
    /\ task \in [Entries -> TaskRecord]
    /\ gslot \in [Entries -> Slots \cup {NoSlot}]
    /\ ok \in [Entries -> BOOLEAN]
    /\ globalSem \in 0..Concurrency /\ addrSem \in [Slots -> 0..Concurrency]
    /\ pool \subseteq Slots /\ pool # {} /\ fresh \subseteq Slots
    /\ states \in [Entries -> {"unknown", "succeeded", "failed"}]
    /\ succeeded \in 0..N /\ failures \in 0..N /\ total \in 0..N
    /\ ret \in {"none", "nil", "failed", "fatal"} /\ late \in Nat

\* Every token of a worker's semaphore and of the global one belongs to one
\* goroutine, or to scheduleTask between its two acquisitions: none is lost on
\* an error, a retry or a cancellation, while the pool is replaced.
SlotHolders(s) == {e \in Entries : gslot[e] = s}
BatchSlotsAccounted ==
    /\ globalSem = Cardinality({e \in Entries : gpc[e] # "idle"})
    /\ \A s \in Slots :
          addrSem[s] = Cardinality(SlotHolders(s)) + (IF mslot = s THEN 1 ELSE 0)

\* A format whose success is stored is not built again: not by a retry after
\* a failure of the other format, nor by a command after a crash.
NothingBuiltTwice ==
    \A e \in Entries : gpc[e] = "build" => db[e][Current(e)] # "ok"

Queued(q, e) == Cardinality({i \in DOMAIN q : q[i].entry = e})
InQueues(e) == Queued(jobCh, e) + Queued(pending, e) + Queued(retryQueue, e)
\* A job is in one place: in a channel, about to be scheduled, or with its
\* goroutine; no directory is built by two goroutines at once, and no channel
\* holds more than runBuildCommandStreamingImageDirs made it for.
JobInOnePlace ==
    /\ TypeOK
    /\ \A e \in Entries :
          InQueues(e) + (IF gpc[e] \in {"idle", "release", "releaseGlobal"} THEN 0 ELSE 1) <= 1

\* The progress that is printed is true: what is counted as succeeded has all
\* its formats stored as succeeded, and outcomes never exceed the total.
ProgressIsTrue ==
    /\ \A e \in Entries : states[e] = "succeeded" => AllSucceeded(e)
    /\ succeeded = Cardinality({e \in Entries : states[e] = "succeeded"})
    /\ failures = Cardinality({e \in Entries : states[e] = "failed"})
    /\ succeeded + failures <= total

\* A build command that returns nil without having been interrupted has built
\* every directory of its filter, but for failures it was told to skip.
AllBuilt == \A e \in Entries \ Excluded : AllSucceeded(e) \/ SkippedFailure(e)
NilMeansBuilt == ret = "nil" /\ ~interrupted => AllBuilt

\* Once the context is done, or a job has failed under --failfast, scheduleTask
\* starts at most the one job it had already let through. (A job that runs may
\* still go on to its next format, until cancel() has been called.)
StopsSoon == late <= 1

\* Every command comes to its end, whatever fails: in particular no job waits
\* for ever for a place in the retry queue while it holds its slots.
CommandReturns == []<>(mpc = "done")

\* The same of a command that was interrupted, as the daemon's "completed" and
\* the test of cancellation have it: a canceled build is not reported as done.
CompletedMeansBuilt == ret = "nil" => AllBuilt
=============================================================================
