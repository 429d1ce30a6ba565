----------------------------- MODULE BuildTasks -----------------------------
(***************************************************************************)
(* The life of the build tasks of buildctl-daemon (internal/builddaemon):  *)
(* the task store, the goroutine runBuildTask of every task with its       *)
(* retry and worker-failover loops, the two semaphores a solve runs under  *)
(* (the global one and the one of its buildkitd address), the pool of      *)
(* addresses that is replaced while builds run, and the actors that race   *)
(* with the goroutine: cancel handlers, the task's context (timeout or     *)
(* client disconnect), the reaper of expired tasks, and the handler of a   *)
(* synchronous request that waits for the task's done channel.             *)
(*                                                                         *)
(* One action is one critical section of the code (a section under         *)
(* store.mu or pool.mu, one channel operation) together with the local     *)
(* computation that follows it.                                            *)
(***************************************************************************)
EXTENDS Integers, FiniteSets, Sequences

CONSTANTS
    Tasks,             \* the task IDs newTaskID will draw
    Addrs,             \* the buildkitd addresses a resolution may return
    NoAddr,            \* the empty BuildkitAddr
    ImageTypes,        \* the image types requested: among "oci", "nydus", "both"
    MaxRetry,          \* bound on the retry field of a request
    MaxConcurrency,    \* --max-concurrency; 0 disables the global cap
    AddrConcurrency,   \* --addr-concurrency
    MaxRetainedTasks,  \* --max-retained-tasks
    Resolutions,       \* what parseBuildkitAddrs may return, as sets of addresses
    MaxGen,            \* bound on the slots made for one address
    SyncModes,         \* whether requests are synchronous: a subset of BOOLEAN
    Cancellable,       \* the tasks that clients cancel or give a timeout
    Expirable          \* the tasks whose KeepTTL elapses

ASSUME TasksFinite == IsFiniteSet(Tasks)
ASSUME NoAddrAssumption == NoAddr \notin Addrs
ASSUME ImageTypesAssumption == ImageTypes \subseteq {"oci", "nydus", "both"}
ASSUME LimitsAssumption ==
    /\ MaxRetry \in Nat
    /\ MaxConcurrency \in Nat
    /\ AddrConcurrency \in Nat \ {0}
    /\ MaxRetainedTasks \in Nat \ {0}
    /\ MaxGen \in Nat \ {0}
    /\ SyncModes \subseteq BOOLEAN
\* A resolution is never empty: a host that fails to resolve stays in the list
\* under its own name.
ASSUME ResolutionsAssumption == Resolutions \subseteq (SUBSET Addrs) \ {{}}

VARIABLES
    \* the task store and the fields of buildTask, all under store.mu
    tasks,      \* the IDs in the store's map
    status, observed, addr, startedAt,
    done,       \* the done channel has been closed
    kind, retry, \* ImageType and retry of the request
    metrics,    \* the counters of terminal tasks, per outcome
    ctxDone,    \* the task's context is done (canceled, expired)
    \* the goroutine runBuildTask of each task
    pc, step, attempt, excluded, snap, slot, err,
    \* semaphores and the address pool
    globalSem,  \* len(s.globalSem)
    pool,       \* the addresses of pool.slots
    gen,        \* how many slots have been made for each address
    addrSem,    \* len(slot.sem) of every slot
    \* the other actors
    cancels,    \* the cancel handlers under way: <<task, what is left to do>>
    waiter,     \* the handler of the request that created the task, if synchronous
    reaping,    \* tasks deleted by the reaper whose WorkDir is still to be removed
    \* what is outside of the process
    dir,        \* the task's WorkDir exists
    built       \* the formats whose solve has succeeded, hence been pushed

fields  == <<status, observed, addr, startedAt, metrics>>
request == <<kind, retry>>
locals  == <<step, attempt, excluded, snap, slot, err>>
slots   == <<globalSem, pool, gen, addrSem>>
others  == <<tasks, done, ctxDone, cancels, waiter, reaping, dir, built>>
vars    == <<fields, request, locals, slots, others, pc>>

Active   == {"queued", "running"}
Terminal == {"succeeded", "failed", "canceled"}
Status   == {"none"} \cup Active \cup Terminal

\* A slot of the pool: an address and which of the slots made for it.
Slots  == Addrs \X (1..MaxGen)
NoSlot == <<NoAddr, 0>>

\* Where the goroutine is. A terminal status as a program point means that it
\* is about to call finishTask with that status.
Points == {"new", "start", "open", "step", "mark", "global", "snap", "pick",
           "wait", "assign", "build", "relAddr", "relGlobal", "refresh",
           "judge", "retryWait", "close", "end"} \cup Terminal

\* The program points at which the goroutine holds a slot of globalSem,
\* and those at which it holds one of slot[t].
HoldsGlobalAt == {"snap", "pick", "wait", "assign", "build", "relAddr", "relGlobal"}
HoldsAddrAt   == {"assign", "build", "relAddr"}

GlobalHolders  == {t \in Tasks : pc[t] \in HoldsGlobalAt}
AddrHolders(s) == {t \in Tasks : pc[t] \in HoldsAddrAt /\ slot[t] = s}

Goto(t, p) == pc' = [pc EXCEPT ![t] = p]

-----------------------------------------------------------------------------
(* The store's update functions.                                           *)

ClearsNothing(t) == UNCHANGED addr
ClearAddr(t) == addr' = [addr EXCEPT ![t] = NoAddr]

markTaskQueued(t) ==
    IF t \in tasks /\ status[t] \in Active
    THEN status' = [status EXCEPT ![t] = "queued"] /\ ClearAddr(t)
    ELSE UNCHANGED <<status, addr>>

MayFinishCanceled(t, s) == t \in tasks /\ ~observed[t]
MayFinishTwice(t, s) == t \in tasks /\ (status[t] = "canceled" => s = "canceled")
MayFinish(t, s) ==
    t \in tasks /\ ~observed[t] /\ (status[t] = "canceled" => s = "canceled")

finishTask(t, s) ==
    IF MayFinish(t, s)
    THEN /\ status' = [status EXCEPT ![t] = s]
         /\ observed' = [observed EXCEPT ![t] = TRUE]
         /\ metrics' = [metrics EXCEPT ![s] = @ + 1]
    ELSE UNCHANGED <<status, observed, metrics>>

-----------------------------------------------------------------------------
(* The address pool.                                                       *)

PoolSlots == {<<a, gen[a]>> : a \in pool}

\* replace keeps the slot of an address that stays in the pool and makes a new
\* one, with an empty semaphore, for an address that was not in it.
replace(R) ==
    /\ \A a \in R \ pool : gen[a] < MaxGen
    /\ pool' = R
    /\ gen' = [a \in Addrs |-> IF a \in R \ pool THEN gen[a] + 1 ELSE gen[a]]
    /\ UNCHANGED <<globalSem, addrSem>>

\* One tick of startBuildkitAddrRefresher.
RefreshAddrs ==
    /\ \E R \in Resolutions : replace(R)
    /\ UNCHANGED <<fields, request, locals, others, pc>>

-----------------------------------------------------------------------------
(* handleCreateBuild, once the request has been accepted. admissionMu is   *)
(* held from the test of the retained tasks to store.add, and every other  *)
(* actor only takes tasks out of the store: the two are one step here.     *)

buildStepsForImageType(k) ==
    CASE k = "oci"  -> <<"oci">>
      [] k = "both" -> <<"oci", "nydus">>
      [] OTHER      -> <<"nydus">>

HandleCreateBuild(t, k, r, sync) ==
    /\ pc[t] = "new"
    /\ Cardinality(tasks) < MaxRetainedTasks
    /\ tasks' = tasks \cup {t}
    /\ status' = [status EXCEPT ![t] = "queued"]
    /\ kind' = [kind EXCEPT ![t] = k]
    /\ retry' = [retry EXCEPT ![t] = r]
    /\ waiter' = [waiter EXCEPT ![t] = IF sync THEN "waiting" ELSE "async"]
    /\ dir' = [dir EXCEPT ![t] = TRUE]
    /\ Goto(t, "start")
    /\ UNCHANGED <<observed, addr, startedAt, metrics, locals, slots, done,
                   ctxDone, cancels, reaping, built>>

-----------------------------------------------------------------------------
(* runBuildTask: the retry loop of a task's goroutine.                     *)

StartTaskSkipsClose(t) ==
    /\ pc[t] = "start"
    /\ Goto(t, IF t \in tasks /\ status[t] # "canceled" THEN "open" ELSE "end")
    /\ UNCHANGED <<fields, request, locals, slots, others>>

\* store.get: nothing is done for a task that is gone or already canceled.
StartTask(t) ==
    /\ pc[t] = "start"
    /\ Goto(t, IF t \in tasks /\ status[t] # "canceled" THEN "open" ELSE "close")
    /\ UNCHANGED <<fields, request, locals, slots, others>>

LogErrorForgotten(t) == Goto(t, "close")
LogError(t) == Goto(t, "failed")

\* os.OpenFile of the log, which fails when the directory is gone.
OpenLog(t) ==
    /\ pc[t] = "open"
    /\ \/ dir[t] /\ Goto(t, "step") /\ step' = [step EXCEPT ![t] = 1]
       \/ LogError(t) /\ UNCHANGED step
    /\ UNCHANGED <<fields, request, attempt, excluded, snap, slot, err, slots, others>>

\* The step of image type "both" that builds Nydus from the OCI image.
HasBaseImage(t) == kind[t] = "both" /\ step[t] = 2

\* The top of the loop over the steps. createNydusFromOCIContext makes its
\* directory with MkdirAll, so it brings back a WorkDir that has been removed;
\* it may fail before or after that.
BeginStep(t) ==
    /\ pc[t] = "step"
    /\ \/ Goto(t, "mark") /\ dir' = [dir EXCEPT ![t] = @ \/ HasBaseImage(t)]
       \/ /\ HasBaseImage(t)
          /\ Goto(t, "failed")
          /\ \E made \in BOOLEAN : dir' = [dir EXCEPT ![t] = @ \/ made]
    /\ attempt' = [attempt EXCEPT ![t] = 0]
    /\ excluded' = [excluded EXCEPT ![t] = {}]
    /\ UNCHANGED <<fields, request, step, snap, slot, err, slots, tasks, done,
                   ctxDone, cancels, waiter, reaping, built>>

LastStepOffByOne(t) == step[t] > Len(buildStepsForImageType(kind[t]))
LastStep(t) == step[t] = Len(buildStepsForImageType(kind[t]))

FailedOnLastStep(t) == err[t] # "none" /\ LastStep(t)
Failed(t) == err[t] # "none"

\* What runBuildTask does with the outcome of an attempt. ctx.Err() is read
\* again after runBuildStepAttempt has read it. A retry marks the task queued
\* and waits for the interval.
JudgeAttempt(t) ==
    /\ pc[t] = "judge"
    /\ \/ /\ ~Failed(t) /\ ~LastStep(t)
          /\ step' = [step EXCEPT ![t] = @ + 1]
          /\ Goto(t, "step")
          /\ UNCHANGED <<attempt, status, addr>>
       \/ /\ ~Failed(t) /\ LastStep(t)
          /\ Goto(t, "succeeded")
          /\ UNCHANGED <<step, attempt, status, addr>>
       \/ /\ Failed(t) /\ ctxDone[t]
          /\ Goto(t, "canceled")
          /\ UNCHANGED <<step, attempt, status, addr>>
       \/ /\ Failed(t) /\ ~ctxDone[t]
          /\ err[t] = "deterministic" \/ attempt[t] = retry[t]
          /\ Goto(t, "failed")
          /\ UNCHANGED <<step, attempt, status, addr>>
       \/ /\ Failed(t) /\ ~ctxDone[t]
          /\ err[t] # "deterministic" /\ attempt[t] < retry[t]
          /\ attempt' = [attempt EXCEPT ![t] = @ + 1]
          /\ markTaskQueued(t)
          /\ Goto(t, "retryWait")
          /\ UNCHANGED step
    /\ UNCHANGED <<observed, startedAt, metrics, request, excluded, snap, slot,
                   err, slots, others>>

\* waitRetryInterval: the timer fires, or the context is done first.
waitRetryInterval(t) ==
    /\ pc[t] = "retryWait"
    /\ \/ Goto(t, "mark") /\ excluded' = [excluded EXCEPT ![t] = {}]
       \/ ctxDone[t] /\ Goto(t, "canceled") /\ UNCHANGED excluded
    /\ UNCHANGED <<fields, request, step, attempt, snap, slot, err, slots, others>>

\* The call of finishTask that ends the goroutine's work; its local variables
\* are dead from there on.
FinishTask(t) ==
    /\ pc[t] \in Terminal
    /\ finishTask(t, pc[t])
    /\ Goto(t, "close")
    /\ step' = [step EXCEPT ![t] = 1]
    /\ attempt' = [attempt EXCEPT ![t] = 0]
    /\ excluded' = [excluded EXCEPT ![t] = {}]
    /\ err' = [err EXCEPT ![t] = "none"]
    /\ UNCHANGED <<addr, startedAt, request, snap, slot, slots, others>>

\* The deferred update: done is closed through the store, hence only for a
\* task that is still in it.
CloseDone(t) ==
    /\ pc[t] = "close"
    /\ done' = [done EXCEPT ![t] = @ \/ t \in tasks]
    /\ Goto(t, "end")
    /\ UNCHANGED <<fields, request, locals, slots, tasks, ctxDone, cancels,
                   waiter, reaping, dir, built>>

-----------------------------------------------------------------------------
(* runBuildStepAttempt: one attempt, with failover to other addresses.     *)

\* The top of its loop.
MarkQueued(t) ==
    /\ pc[t] = "mark"
    /\ markTaskQueued(t)
    /\ err' = [err EXCEPT ![t] = "none"]
    /\ Goto(t, "global")
    /\ UNCHANGED <<observed, startedAt, metrics, request, step, attempt, excluded,
                   snap, slot, slots, others>>

\* acquireGlobalSlot gets a slot; without a cap there is no semaphore.
acquireGlobalSlot(t) ==
    /\ pc[t] = "global"
    /\ MaxConcurrency # 0 => globalSem < MaxConcurrency
    /\ globalSem' = IF MaxConcurrency = 0 THEN globalSem ELSE globalSem + 1
    /\ Goto(t, "snap")
    /\ UNCHANGED <<fields, request, locals, pool, gen, addrSem, others>>

\* ... or returns ctx.Err(), which it never looks at without a cap.
GlobalSlotCtxDone(t) ==
    /\ pc[t] = "global"
    /\ MaxConcurrency # 0 /\ ctxDone[t]
    /\ err' = [err EXCEPT ![t] = "other"]
    /\ Goto(t, "judge")
    /\ UNCHANGED <<fields, request, step, attempt, excluded, snap, slot, slots, others>>

filterExcludedAddrSlots(t) == {s \in PoolSlots : s[1] \notin excluded[t]}

\* acquireAddrSlot works on a snapshot of the pool, without the excluded
\* addresses; none left is the error "no buildkitd addresses available".
SnapshotPool(t) ==
    LET usable == filterExcludedAddrSlots(t)
    IN  /\ pc[t] = "snap"
        /\ snap' = [snap EXCEPT ![t] = usable]
        /\ err' = [err EXCEPT ![t] = IF usable = {} THEN "other" ELSE @]
        /\ Goto(t, IF usable = {} THEN "relGlobal" ELSE "pick")
        /\ UNCHANGED <<fields, request, step, attempt, excluded, slot, slots, others>>

Free(s) == addrSem[s] < AddrConcurrency

\* The task gets a slot of its snapshot. Which of the free ones (the order is
\* the consistent hash of the context) is left open.
TakeSlot(t) ==
    \E s \in snap[t] :
        /\ Free(s)
        /\ addrSem' = [addrSem EXCEPT ![s] = @ + 1]
        /\ slot' = [slot EXCEPT ![t] = s]
        /\ snap' = [snap EXCEPT ![t] = {}]
        /\ Goto(t, "assign")
        /\ UNCHANGED <<fields, request, step, attempt, excluded, err, globalSem,
                       pool, gen, others>>

\* pickAvailableAddrSlot: a free slot at once, whatever the context says. The
\* slots are probed one after the other, so one may be given back after it has
\* been passed over: of the last one probed alone it is known that it is taken.
pickAvailableAddrSlot(t) ==
    /\ pc[t] = "pick"
    /\ \/ TakeSlot(t)
       \/ /\ \E s \in snap[t] : ~Free(s)
          /\ Goto(t, "wait")
          /\ UNCHANGED <<fields, request, locals, slots, others>>

\* The blocking select over the slots of the snapshot ...
WaitAddrSlot(t) == pc[t] = "wait" /\ TakeSlot(t)

AddrSlotCtxDoneLeaks(t) ==
    /\ pc[t] = "wait"
    /\ ctxDone[t]
    /\ err' = [err EXCEPT ![t] = "other"]
    /\ snap' = [snap EXCEPT ![t] = {}]
    /\ Goto(t, "judge")
    /\ UNCHANGED <<fields, request, step, attempt, excluded, slot, slots, others>>

\* ... and the context.
AddrSlotCtxDone(t) ==
    /\ pc[t] = "wait"
    /\ ctxDone[t]
    /\ err' = [err EXCEPT ![t] = "other"]
    /\ snap' = [snap EXCEPT ![t] = {}]
    /\ Goto(t, "relGlobal")
    /\ UNCHANGED <<fields, request, step, attempt, excluded, slot, slots, others>>

AssignableAlways(t) == TRUE
Assignable(t) == t \in tasks /\ status[t] # "canceled" /\ ~observed[t]

\* The task becomes running, unless it has been canceled, finished or deleted
\* while it was waiting: then both slots are given back.
Assign(t) ==
    /\ pc[t] = "assign"
    /\ \/ /\ Assignable(t)
          /\ status' = [status EXCEPT ![t] = "running"]
          /\ addr' = [addr EXCEPT ![t] = slot[t][1]]
          /\ startedAt' = [startedAt EXCEPT ![t] = TRUE]
          /\ Goto(t, "build")
          /\ UNCHANGED err
       \/ /\ ~Assignable(t)
          /\ err' = [err EXCEPT ![t] = "other"]
          /\ Goto(t, "relAddr")
          /\ UNCHANGED <<status, addr, startedAt>>
    /\ UNCHANGED <<observed, metrics, request, step, attempt, excluded, snap,
                   slot, slots, others>>

\* runner.Build returns: success, an error of the address (retryable on
\* another one), a deterministic build error, any other error. A solve whose
\* context is done may still succeed.
BuildReturns(t, e) ==
    /\ pc[t] = "build"
    /\ err' = [err EXCEPT ![t] = e]
    /\ built' = [built EXCEPT ![t] =
                    IF e = "none" THEN @ \cup {buildStepsForImageType(kind[t])[step[t]]}
                                  ELSE @]
    /\ Goto(t, "relAddr")
    /\ UNCHANGED <<fields, request, step, attempt, excluded, snap, slot, slots,
                   tasks, done, ctxDone, cancels, waiter, reaping, dir>>

CurrentSlot(t) == <<slot[t][1], gen[slot[t][1]]>>
HeldSlot(t) == slot[t]

\* <-slot.sem, on the slot that was taken even if the pool has another one for
\* the address by now.
ReleaseAddrSlot(t) ==
    /\ pc[t] = "relAddr"
    /\ addrSem' = [addrSem EXCEPT ![HeldSlot(t)] = @ - 1]
    /\ Goto(t, "relGlobal")
    /\ UNCHANGED <<fields, request, locals, globalSem, pool, gen, others>>

ExcludesNothing(t) == excluded[t]
Exclude(t) == excluded[t] \cup {slot[t][1]}

\* releaseGlobal, then the decision between returning to the retry loop and
\* failing over to another address, which excludes this one.
ReleaseGlobalSlot(t) ==
    LET failover == err[t] = "addr" /\ ~ctxDone[t]
    IN  /\ pc[t] = "relGlobal"
        /\ globalSem' = IF MaxConcurrency = 0 THEN globalSem ELSE globalSem - 1
        /\ excluded' = [excluded EXCEPT ![t] = IF failover THEN Exclude(t) ELSE @]
        /\ Goto(t, IF failover THEN "refresh" ELSE "judge")
        /\ slot' = [slot EXCEPT ![t] = NoSlot]
        /\ UNCHANGED <<fields, request, step, attempt, snap, err, pool, gen,
                       addrSem, others>>

\* refreshBuildkitAddrs before the next address is tried.
refreshBuildkitAddrs(t) ==
    /\ pc[t] = "refresh"
    /\ \E R \in Resolutions : replace(R)
    /\ Goto(t, "mark")
    /\ UNCHANGED <<fields, request, locals, others>>

-----------------------------------------------------------------------------
(* Cancellation. store.cancel, the context's cancel function and finishTask *)
(* are three steps of a handler. cancels holds what handlers have left to   *)
(* do; handlers at the same point for the same task are one element.        *)

\* handleCancelBuild up to the end of store.cancel's critical section; for a
\* task that is canceled already only finishTask is left, which does nothing
\* once the task is observed.
StoreCancel(t) ==
    /\ t \in tasks \cap Cancellable
    /\ \/ /\ status[t] \in Active
          /\ status' = [status EXCEPT ![t] = "canceled"]
          /\ cancels' = cancels \cup {<<t, "ctx">>}
       \/ /\ status[t] = "canceled" /\ ~observed[t]
          /\ cancels' = cancels \cup {<<t, "finish">>}
          /\ UNCHANGED status
    /\ UNCHANGED <<observed, addr, startedAt, metrics, request, locals, slots,
                   tasks, done, ctxDone, waiter, reaping, dir, built, pc>>

\* cancel(), after store.mu has been released.
CancelCtx(t) ==
    /\ <<t, "ctx">> \in cancels
    /\ ctxDone' = [ctxDone EXCEPT ![t] = TRUE]
    /\ cancels' = (cancels \ {<<t, "ctx">>}) \cup {<<t, "finish">>}
    /\ UNCHANGED <<fields, request, locals, slots, tasks, done, waiter, reaping,
                   dir, built, pc>>

CancelFinish(t) ==
    /\ <<t, "finish">> \in cancels
    /\ cancels' = cancels \ {<<t, "finish">>}
    /\ finishTask(t, "canceled")
    /\ UNCHANGED <<addr, startedAt, request, locals, slots, tasks, done, ctxDone,
                   waiter, reaping, dir, built, pc>>

\* timeout_seconds elapses.
CtxExpires(t) ==
    /\ t \in Cancellable
    /\ pc[t] \notin {"new", "end"}
    /\ ~ctxDone[t]
    /\ ctxDone' = [ctxDone EXCEPT ![t] = TRUE]
    /\ UNCHANGED <<fields, request, locals, slots, tasks, done, cancels, waiter,
                   reaping, dir, built, pc>>

-----------------------------------------------------------------------------
(* The synchronous request: handleSyncBuild waits for done, then looks the *)
(* task up. Its context is the parent of the task's.                       *)

SyncReply(t) ==
    /\ waiter[t] = "waiting"
    /\ done[t]
    /\ waiter' = [waiter EXCEPT ![t] = IF t \in tasks THEN "answered" ELSE "notfound"]
    /\ UNCHANGED <<fields, request, locals, slots, tasks, done, ctxDone, cancels, reaping,
                   dir, built, pc>>

SyncDisconnect(t) ==
    /\ waiter[t] = "waiting"
    /\ waiter' = [waiter EXCEPT ![t] = "disconnected"]
    /\ ctxDone' = [ctxDone EXCEPT ![t] = TRUE]
    /\ UNCHANGED <<fields, request, locals, slots, tasks, done, cancels, reaping,
                   dir, built, pc>>

-----------------------------------------------------------------------------
(* The reaper.                                                             *)

ExpiredAnyStatus == tasks \cap Expirable

\* Tasks whose FinishedAt may be KeepTTL ago. Time is abstracted: KeepTTL may be
\* 0, so any task with a FinishedAt, that is with a terminal status, may be.
Expired == {t \in tasks \cap Expirable : status[t] \in Terminal}

\* One tick of the reaper deletes expired tasks from the store, ...
deleteExpired(S) ==
    /\ reaping = {}
    /\ S # {} /\ S \subseteq Expired
    /\ tasks' = tasks \ S
    /\ reaping' = S
    /\ UNCHANGED <<fields, request, locals, slots, done, ctxDone, cancels, waiter,
                   dir, built, pc>>

\* ... then removes their directories one by one.
cleanupTaskWorkDir(t) ==
    /\ t \in reaping
    /\ reaping' = reaping \ {t}
    /\ dir' = [dir EXCEPT ![t] = FALSE]
    /\ UNCHANGED <<fields, request, locals, slots, tasks, done, ctxDone, cancels,
                   waiter, built, pc>>

-----------------------------------------------------------------------------
Errors == {"none", "addr", "deterministic", "other"}

Init ==
    /\ tasks = {}
    /\ status = [t \in Tasks |-> "none"]
    /\ observed = [t \in Tasks |-> FALSE]
    /\ addr = [t \in Tasks |-> NoAddr]
    /\ startedAt = [t \in Tasks |-> FALSE]
    /\ metrics = [s \in Terminal |-> 0]
    /\ done = [t \in Tasks |-> FALSE]
    /\ kind = [t \in Tasks |-> "nydus"]
    /\ retry = [t \in Tasks |-> 0]
    /\ ctxDone = [t \in Tasks |-> FALSE]
    /\ pc = [t \in Tasks |-> "new"]
    /\ step = [t \in Tasks |-> 1]
    /\ attempt = [t \in Tasks |-> 0]
    /\ excluded = [t \in Tasks |-> {}]
    /\ snap = [t \in Tasks |-> {}]
    /\ slot = [t \in Tasks |-> NoSlot]
    /\ err = [t \in Tasks |-> "none"]
    /\ globalSem = 0
    /\ pool \in Resolutions
    /\ gen = [a \in Addrs |-> IF a \in pool THEN 1 ELSE 0]
    /\ addrSem = [s \in Slots |-> 0]
    /\ cancels = {}
    /\ waiter = [t \in Tasks |-> "none"]
    /\ reaping = {}
    /\ dir = [t \in Tasks |-> FALSE]
    /\ built = [t \in Tasks |-> {}]

\* The steps of a task's goroutine.
Goroutine(t) ==
    \/ StartTask(t) \/ OpenLog(t) \/ BeginStep(t) \/ MarkQueued(t)
    \/ acquireGlobalSlot(t) \/ GlobalSlotCtxDone(t) \/ SnapshotPool(t)
    \/ pickAvailableAddrSlot(t) \/ WaitAddrSlot(t) \/ AddrSlotCtxDone(t)
    \/ Assign(t) \/ \E e \in Errors : BuildReturns(t, e)
    \/ ReleaseAddrSlot(t) \/ ReleaseGlobalSlot(t) \/ refreshBuildkitAddrs(t)
    \/ JudgeAttempt(t) \/ waitRetryInterval(t) \/ FinishTask(t) \/ CloseDone(t)

\* The steps of the handlers that are under way.
Handlers(t) == CancelCtx(t) \/ CancelFinish(t) \/ SyncReply(t)

\* What clients and clocks do.
Environment(t) ==
    \/ \E k \in ImageTypes, r \in 0..MaxRetry, sync \in SyncModes :
          HandleCreateBuild(t, k, r, sync)
    \/ StoreCancel(t) \/ CtxExpires(t) \/ SyncDisconnect(t)

Next ==
    \/ \E t \in Tasks : Goroutine(t) \/ Handlers(t) \/ Environment(t)
    \/ \E S \in SUBSET Tasks : deleteExpired(S)
    \/ \E t \in Tasks : cleanupTaskWorkDir(t)
    \/ RefreshAddrs

Spec == Init /\ [][Next]_vars

\* Every goroutine and handler is scheduled, a solve returns, and a goroutine
\* blocked on a semaphore that is freed again and again gets in: Go queues the
\* senders of a channel in order.
Fairness ==
    \A t \in Tasks :
        /\ WF_vars(Goroutine(t))
        /\ WF_vars(CancelCtx(t))
        /\ WF_vars(CancelFinish(t))
        /\ WF_vars(SyncReply(t))
        /\ SF_vars(acquireGlobalSlot(t))
        /\ SF_vars(WaitAddrSlot(t))

FairSpec == Spec /\ Fairness

-----------------------------------------------------------------------------
(* The refinement of TaskLifecycle.                                        *)

Lifecycle == INSTANCE TaskLifecycle WITH
    Wanted <- {buildStepsForImageType(k) : k \in {"oci", "nydus", "both"}},
    life   <- [t \in Tasks |-> CASE pc[t] = "new"   -> "absent"
                                 [] t \in tasks     -> status[t]
                                 [] OTHER           -> "removed"],
    wanted <- [t \in Tasks |-> buildStepsForImageType(kind[t])],
    pushed <- [t \in Tasks |-> Cardinality(built[t])]

\* The daemon keeps the promises of the API, whatever is interleaved.
ImplementsLifecycle == Lifecycle!Spec

\* ... and its promise that every task ends.
ImplementsFairLifecycle == Lifecycle!FairSpec

-----------------------------------------------------------------------------
(* Properties.                                                             *)

\* The type invariant: the program points, fields, tokens and values of the variables.
TypeOK ==
    /\ tasks \subseteq Tasks
    /\ status \in [Tasks -> Status]
    /\ observed \in [Tasks -> BOOLEAN]
    /\ addr \in [Tasks -> Addrs \cup {NoAddr}]
    /\ startedAt \in [Tasks -> BOOLEAN]
    /\ metrics \in [Terminal -> Nat]
    /\ done \in [Tasks -> BOOLEAN]
    /\ kind \in [Tasks -> {"oci", "nydus", "both"}]
    /\ retry \in [Tasks -> Nat]
    /\ ctxDone \in [Tasks -> BOOLEAN]
    /\ pc \in [Tasks -> Points]
    /\ step \in [Tasks -> {1, 2}]
    /\ attempt \in [Tasks -> Nat]
    /\ excluded \in [Tasks -> SUBSET Addrs]
    /\ snap \in [Tasks -> SUBSET Slots]
    /\ slot \in [Tasks -> Slots \cup {NoSlot}]
    /\ err \in [Tasks -> Errors]
    /\ globalSem \in Int
    /\ pool \subseteq Addrs
    /\ gen \in [Addrs -> 0..MaxGen]
    /\ addrSem \in [Slots -> Int]
    /\ cancels \subseteq Tasks \X {"ctx", "finish"}
    /\ waiter \in [Tasks -> {"none", "async", "waiting", "answered", "notfound", "disconnected"}]
    /\ reaping \subseteq Tasks
    /\ dir \in [Tasks -> BOOLEAN]
    /\ built \in [Tasks -> SUBSET {"oci", "nydus"}]

\* The global semaphore holds exactly one token for every goroutine between
\* acquireGlobalSlot and releaseGlobal, so no exit of an attempt leaks or frees
\* twice, and --max-concurrency bounds the builds.
GlobalSlotsAccounted ==
    MaxConcurrency > 0 =>
        /\ globalSem = Cardinality(GlobalHolders)
        /\ globalSem <= MaxConcurrency

\* The same for every slot of the pool, including the slots that have left it
\* while goroutines still hold or wait for them.
AddrSlotsAccounted ==
    \A s \in Slots :
        /\ addrSem[s] = Cardinality(AddrHolders(s))
        /\ addrSem[s] <= AddrConcurrency

\* A task that is reported canceled, failed or succeeded is never reported
\* otherwise again, whichever of finishTask, store.cancel, markTaskQueued and
\* the assignment of a worker comes late.
TerminalStatusIsFinal ==
    [][\A t \in Tasks : status[t] \in Terminal => status'[t] = status[t]]_vars

\* Each task is counted at most once, under the status it ends with, although
\* its goroutine and cancel handlers all call finishTask.
EachOutcomeCountedOnce ==
    \A s \in Terminal :
        metrics[s] = Cardinality({t \in Tasks : observed[t] /\ status[t] = s})

\* The worker address of a task agrees with its status: none while queued,
\* and the address of the slot it holds while its solve runs.
AddrMatchesStatus ==
    \A t \in Tasks :
        /\ status[t] = "queued" => addr[t] = NoAddr
        /\ status[t] = "running" => addr[t] # NoAddr
        /\ status[t] = "running" /\ pc[t] = "build" => addr[t] = slot[t][1]

\* A task succeeds only when every format it asks for has been built, and the
\* Nydus image of type "both" is built only from an OCI image that was.
SucceededMeansBuilt ==
    \A t \in Tasks :
        /\ status[t] = "succeeded" =>
              \A i \in DOMAIN buildStepsForImageType(kind[t]) :
                  buildStepsForImageType(kind[t])[i] \in built[t]
        /\ kind[t] = "both" /\ "nydus" \in built[t] => "oci" \in built[t]

\* done is closed only for a task that has reached a terminal status, so a
\* synchronous request never answers with a task that is still going on.
DoneMeansTerminal == \A t \in Tasks : done[t] => status[t] \in Terminal

\* The files of a task that is queued or running are never removed: the reaper
\* only takes tasks that have ended.
ActiveKeepsWorkDir ==
    \A t \in Tasks : status[t] \in Active => t \in tasks /\ dir[t]

\* Every accepted task ends, and its goroutine with it, whatever fails.
EveryTaskEnds ==
    \A t \in Tasks : pc[t] = "start" ~> pc[t] = "end" /\ status[t] \in Terminal

\* A synchronous request is answered, unless its task is deleted first.
SyncAnsweredWhileRetained ==
    \A t \in Tasks :
        waiter[t] = "waiting" ~> waiter[t] # "waiting" \/ t \notin tasks

\* What the API guide says: a request with sync=true waits for a terminal
\* state and returns the task.
SyncAnswered ==
    \A t \in Tasks : waiter[t] = "waiting" ~> waiter[t] # "waiting"
=============================================================================
