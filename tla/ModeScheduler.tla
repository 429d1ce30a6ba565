---------------------------- MODULE ModeScheduler ---------------------------
(***************************************************************************)
(* Admission, the queues of the build modes and the shutdown of            *)
(* buildctl-daemon (handleCreateBuild, mode_scheduler.go, Run): requests   *)
(* are admitted one at a time under admissionMu, pushed on the queue of    *)
(* their mode, popped by the workers of the mode, which wait on a          *)
(* condition variable; Run closes the queues and cancels what is left      *)
(* while handlers and workers are still going on.                          *)
(*                                                                         *)
(* What a worker does with a task (BuildTasks) is reduced to what others   *)
(* see of it: the task leaves "queued" and "running" once and for all.     *)
(***************************************************************************)
EXTENDS Naturals, FiniteSets, Sequences

CONSTANTS
    Tasks,            \* task IDs, one per POST request
    Modes,            \* the modes of --modes-json
    Workers,          \* the worker goroutines of all modes
    ModeOf,           \* the mode a worker serves
    MaxRetainedTasks, \* --max-retained-tasks
    HealthyModes,     \* the modes whose builds are sure to end
    NoTask, NoMode

ASSUME WorkersAssumption ==
    /\ ModeOf \in [Workers -> Modes]
    /\ \A m \in Modes : \E w \in Workers : ModeOf[w] = m  \* concurrency is positive
ASSUME NoTaskAssumption == NoTask \notin Tasks /\ NoMode \notin Modes
ASSUME RetainedAssumption == MaxRetainedTasks \in Nat \ {0}

VARIABLES
    admission,  \* the request that holds admissionMu, or NoTask
    hpc,        \* where the handler of each request is
    mode,       \* the mode of each request
    store,      \* the tasks in the store
    status,     \* their Status
    ids,        \* the queue of each mode
    closed,     \* the queue has been closed
    wpc, wtask, \* where each worker is, and the task it runs
    main,       \* where Run is
    broadcast,  \* the queue Run has closed but not yet broadcast to, or NoMode
    doomed,     \* the tasks of Run's store.list() still to be canceled
    pushed,     \* history: the tasks pushed on each queue, in order
    popped      \* history: the tasks popped from each queue, in order

handler == <<admission, hpc, mode>>
taskVars == <<store, status>>
queue   == <<ids, closed, pushed, popped>>
worker  == <<wpc, wtask>>
shut    == <<main, broadcast, doomed>>
vars    == <<handler, taskVars, queue, worker, shut>>

Active   == {"queued", "running"}
Ended    == {"finished", "canceled"}

\* The process is gone once Run has returned: nothing moves any more.
Alive == main # "exited"

-----------------------------------------------------------------------------
(* handleCreateBuild.                                                      *)

AdmitUnlocked(t) ==
    /\ Alive /\ hpc[t] = "new"
    /\ Cardinality(store) < MaxRetainedTasks
    /\ hpc' = [hpc EXCEPT ![t] = "prepare"]
    /\ admission' = t
    /\ UNCHANGED <<mode, taskVars, queue, worker, shut>>

\* admissionMu.Lock and the test of the retained tasks. A full store answers
\* 429, which frees the mutex again.
Admit(t) ==
    /\ Alive /\ hpc[t] = "new" /\ admission = NoTask
    /\ \/ /\ Cardinality(store) >= MaxRetainedTasks
          /\ hpc' = [hpc EXCEPT ![t] = "refused"]
          /\ UNCHANGED admission
       \/ /\ Cardinality(store) < MaxRetainedTasks
          /\ hpc' = [hpc EXCEPT ![t] = "prepare"]
          /\ admission' = t
    /\ UNCHANGED <<mode, taskVars, queue, worker, shut>>

PrepareNoStatus(t) ==
    /\ Alive /\ hpc[t] = "prepare"
    /\ hpc' = [hpc EXCEPT ![t] = "added"]
    /\ store' = store \cup {t}
    /\ UNCHANGED <<admission, mode, status, queue, worker, shut>>

\* The upload, the work directory, the form fields: any of them may refuse the
\* request with 4xx or 5xx and remove the directory; otherwise the task is
\* added to the store.
Prepare(t) ==
    /\ Alive /\ hpc[t] = "prepare"
    /\ \/ /\ hpc' = [hpc EXCEPT ![t] = "refused"]
          /\ admission' = NoTask
          /\ UNCHANGED <<store, status>>
       \/ /\ hpc' = [hpc EXCEPT ![t] = "added"]
          /\ store' = store \cup {t}
          /\ status' = [status EXCEPT ![t] = "queued"]
          /\ UNCHANGED admission
    /\ UNCHANGED <<mode, queue, worker, shut>>

Waiting(m) == {w \in Workers : ModeOf[w] = m /\ wpc[w] = "waiting"}

SignalNobody(m) == UNCHANGED wpc

\* cond.Signal wakes one of the waiting workers, if there is one.
Signal(m) ==
    IF Waiting(m) = {} THEN UNCHANGED wpc
    ELSE \E w \in Waiting(m) : wpc' = [wpc EXCEPT ![w] = "pop"]

OpenAlways(m) == TRUE

\* queue.push tests closed under queue.mu.
Open(m) == ~closed[m]

\* queue.push, then admissionMu.Unlock.
push(t) ==
    LET m == mode[t]
    IN  /\ Alive /\ hpc[t] = "added" /\ Open(m)
        /\ ids' = [ids EXCEPT ![m] = Append(@, t)]
        /\ pushed' = [pushed EXCEPT ![m] = Append(@, t)]
        /\ Signal(m)
        /\ hpc' = [hpc EXCEPT ![t] = "accepted"]
        /\ admission' = NoTask
        /\ UNCHANGED <<mode, taskVars, closed, popped, wtask, shut>>

\* errModeSchedulerClosed: finishTask(canceled), ...
PushRefused(t) ==
    /\ Alive /\ hpc[t] = "added" /\ ~Open(mode[t])
    /\ status' = [status EXCEPT ![t] = IF @ \in Active THEN "canceled" ELSE @]
    /\ hpc' = [hpc EXCEPT ![t] = "cleanup"]
    /\ UNCHANGED <<admission, mode, store, queue, worker, shut>>

\* ... cleanupTask, 503 and the deferred Unlock.
cleanupTask(t) ==
    /\ Alive /\ hpc[t] = "cleanup"
    /\ store' = store \ {t}
    /\ hpc' = [hpc EXCEPT ![t] = "refused"]
    /\ admission' = NoTask
    /\ UNCHANGED <<mode, status, queue, worker, shut>>

-----------------------------------------------------------------------------
(* The workers.                                                            *)

TakeNewest(q) == <<q[Len(q)], SubSeq(q, 1, Len(q) - 1)>>

\* The task that is popped, and what is left of the queue.
Take(q) == <<Head(q), Tail(q)>>

\* One pass of the loop of queue.pop under queue.mu: wait, give up, or take
\* the oldest id. cond.Wait joins the waiters before it releases the mutex, so
\* joining them is part of the step.
pop(w) ==
    LET m == ModeOf[w]
    IN  /\ Alive /\ wpc[w] = "pop"
        /\ \/ /\ ids[m] = <<>> /\ ~closed[m]
              /\ wpc' = [wpc EXCEPT ![w] = "waiting"]
              /\ UNCHANGED <<ids, popped, wtask>>
           \/ /\ closed[m]
              /\ wpc' = [wpc EXCEPT ![w] = "exit"]
              /\ UNCHANGED <<ids, popped, wtask>>
           \/ /\ ids[m] # <<>> /\ ~closed[m]
              /\ wtask' = [wtask EXCEPT ![w] = Take(ids[m])[1]]
              /\ popped' = [popped EXCEPT ![m] = Append(@, Take(ids[m])[1])]
              /\ ids' = [ids EXCEPT ![m] = Take(@)[2]]
              /\ wpc' = [wpc EXCEPT ![w] = "run"]
        /\ UNCHANGED <<handler, taskVars, closed, pushed, shut>>

\* runBuildTask takes the task up, unless it has been canceled, ...
RunTask(w) ==
    LET t == wtask[w]
    IN  /\ Alive /\ wpc[w] = "run"
        /\ status[t] = "queued"
        /\ status' = [status EXCEPT ![t] = "running"]
        /\ UNCHANGED <<store, handler, queue, worker, shut>>

\* ... and ends it, unless it has been canceled meanwhile.
EndTask(w) ==
    LET t == wtask[w]
    IN  /\ Alive /\ wpc[w] = "run"
        /\ status[t] # "queued"
        /\ status' = [status EXCEPT ![t] = IF @ = "running" THEN "finished" ELSE @]
        /\ wpc' = [wpc EXCEPT ![w] = "pop"]
        /\ wtask' = [wtask EXCEPT ![w] = NoTask]
        /\ UNCHANGED <<store, handler, queue, shut>>

-----------------------------------------------------------------------------
(* Clients and the reaper.                                                 *)

CancelTask(t) ==
    /\ Alive /\ t \in store /\ status[t] \in Active
    /\ status' = [status EXCEPT ![t] = "canceled"]
    /\ UNCHANGED <<store, handler, queue, worker, shut>>

ExpireTask(t) ==
    /\ Alive /\ t \in store /\ status[t] \in Ended
    /\ store' = store \ {t}
    /\ UNCHANGED <<status, handler, queue, worker, shut>>

-----------------------------------------------------------------------------
(* The deferred calls of Run. They start when the listener is closed and   *)
(* do not wait for the handlers that are still at work.                    *)

BeginShutdown ==
    /\ main = "serving"
    /\ main' = "closing"
    /\ UNCHANGED <<handler, taskVars, queue, worker, broadcast, doomed>>

\* scheduler.close takes the queues in turn: one is closed and emptied ...
closeQueue(m) ==
    /\ main = "closing" /\ broadcast = NoMode /\ ~closed[m]
    /\ closed' = [closed EXCEPT ![m] = TRUE]
    /\ ids' = [ids EXCEPT ![m] = <<>>]
    /\ broadcast' = m
    /\ UNCHANGED <<handler, taskVars, pushed, popped, worker, main, doomed>>

BroadcastIsSignal ==
    /\ main = "closing" /\ broadcast # NoMode
    /\ Signal(broadcast)
    /\ broadcast' = NoMode
    /\ UNCHANGED <<handler, taskVars, queue, wtask, main, doomed>>

\* ... and then, after the mutex has been released, cond.Broadcast wakes its
\* waiters.
Broadcast ==
    /\ main = "closing" /\ broadcast # NoMode
    /\ wpc' = [w \in Workers |-> IF w \in Waiting(broadcast) THEN "pop" ELSE wpc[w]]
    /\ broadcast' = NoMode
    /\ UNCHANGED <<handler, taskVars, queue, wtask, main, doomed>>

\* store.list, when every queue has been closed.
ListTasks ==
    /\ main = "closing" /\ broadcast = NoMode
    /\ \A m \in Modes : closed[m]
    /\ main' = "cancel"
    /\ doomed' = {t \in store : status[t] \in Active}
    /\ UNCHANGED <<handler, taskVars, queue, worker, broadcast>>

\* store.cancel and finishTask of one of them.
CancelDoomed(t) ==
    /\ main = "cancel" /\ t \in doomed
    /\ doomed' = doomed \ {t}
    /\ status' = [status EXCEPT ![t] = IF t \in store /\ @ \in Active
                                       THEN "canceled" ELSE @]
    /\ UNCHANGED <<store, handler, queue, worker, main, broadcast>>

\* Run returns and the process exits.
Exit ==
    /\ main = "cancel" /\ doomed = {}
    /\ main' = "exited"
    /\ UNCHANGED <<handler, taskVars, queue, worker, broadcast, doomed>>

-----------------------------------------------------------------------------
Init ==
    /\ admission = NoTask
    /\ hpc = [t \in Tasks |-> "new"]
    /\ mode \in [Tasks -> Modes]
    /\ store = {}
    /\ status = [t \in Tasks |-> "none"]
    /\ ids = [m \in Modes |-> <<>>]
    /\ closed = [m \in Modes |-> FALSE]
    /\ wpc = [w \in Workers |-> "pop"]
    /\ wtask = [w \in Workers |-> NoTask]
    /\ main = "serving"
    /\ broadcast = NoMode
    /\ doomed = {}
    /\ pushed = [m \in Modes |-> <<>>]
    /\ popped = [m \in Modes |-> <<>>]

Handler(t) == Admit(t) \/ Prepare(t) \/ push(t) \/ PushRefused(t) \/ cleanupTask(t)

Worker(w) == pop(w) \/ RunTask(w) \/ EndTask(w)

Shutdown ==
    \/ \E m \in Modes : closeQueue(m)
    \/ Broadcast
    \/ ListTasks
    \/ \E t \in Tasks : CancelDoomed(t)
    \/ Exit

\* Nothing moves in a process that has exited.
Exited == main = "exited" /\ UNCHANGED vars

Next ==
    \/ \E t \in Tasks : Handler(t) \/ CancelTask(t) \/ ExpireTask(t)
    \/ \E w \in Workers : Worker(w)
    \/ BeginShutdown
    \/ Shutdown
    \/ Exited

Spec == Init /\ [][Next]_vars

\* Workers and Run are scheduled; builds end in the healthy modes only.
Fairness ==
    /\ \A w \in Workers : WF_vars(pop(w))
    /\ \A w \in Workers : WF_vars(RunTask(w))
    /\ \A w \in Workers : ModeOf[w] \in HealthyModes => WF_vars(EndTask(w))
    /\ WF_vars(Shutdown)

FairSpec == Spec /\ Fairness

-----------------------------------------------------------------------------
(* Properties.                                                             *)

\* The type invariant: the program points, queues and values of the variables.
TypeOK ==
    /\ admission \in Tasks \cup {NoTask}
    /\ hpc \in [Tasks -> {"new", "prepare", "added", "cleanup", "refused", "accepted"}]
    /\ mode \in [Tasks -> Modes]
    /\ store \subseteq Tasks
    /\ status \in [Tasks -> {"none"} \cup Active \cup Ended]
    /\ \A t \in store : status[t] # "none"
    /\ ids \in [Modes -> Seq(Tasks)]
    /\ closed \in [Modes -> BOOLEAN]
    /\ wpc \in [Workers -> {"pop", "waiting", "run", "exit"}]
    /\ wtask \in [Workers -> Tasks \cup {NoTask}]
    /\ main \in {"serving", "closing", "cancel", "exited"}
    /\ broadcast \in Modes \cup {NoMode}
    /\ doomed \subseteq Tasks
    /\ pushed \in [Modes -> Seq(Tasks)]
    /\ popped \in [Modes -> Seq(Tasks)]

\* --max-retained-tasks holds although the test and store.add are apart and
\* the upload comes in between: admissionMu keeps other requests out.
RetainedTasksBounded == Cardinality(store) <= MaxRetainedTasks

\* A queue loses, duplicates and reorders nothing while it is open, and what
\* its workers got before it was closed is the beginning of what was pushed.
QueueIsFIFO ==
    \A m \in Modes :
        IF closed[m] THEN popped[m] = SubSeq(pushed[m], 1, Len(popped[m]))
                     ELSE popped[m] \o ids[m] = pushed[m]

\* No worker is left waiting on a queue that has been closed.
NoWaiterOnClosedQueue ==
    main \in {"cancel", "exited"} => \A w \in Workers : wpc[w] # "waiting"

\* When Run returns, every task in the store has ended, except one whose
\* handler is still being told that the scheduler is closed (enqueue); and a
\* request that was refused has left no task in the store (cleanupTask).
NoTaskLeftBehind ==
    /\ main = "exited" => \A t \in store : status[t] \in Ended \/ hpc[t] = "added"
    /\ \A t \in store : hpc[t] # "refused"

\* Every accepted task of a healthy mode ends, by a worker or by the shutdown,
\* even if the builds of other modes never return: no wakeup is lost, and
\* modes do not wait for each other.
AcceptedTasksEnd ==
    \A t \in Tasks :
        hpc[t] = "accepted" /\ mode[t] \in HealthyModes ~> status[t] \in Ended
=============================================================================
