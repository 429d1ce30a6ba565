------------------------- MODULE ModeSchedulerProofs -------------------------
(***************************************************************************)
(* The safety properties of ModeScheduler for any number of requests,      *)
(* modes and workers.  Each one rests on TypeOK and on a group of facts    *)
(* that are inductive together: what admissionMu protects, what a queue    *)
(* has given out, who may still be waiting on a closed queue, and which    *)
(* tasks Run has still to cancel.                                          *)
(***************************************************************************)
EXTENDS ModeScheduler, TLAPS, FiniteSetTheorems, SequenceTheorems

-----------------------------------------------------------------------------
(* Types.                                                                  *)

\* A worker at "run" has a task.
RunningHasTask == \A w \in Workers : wpc[w] = "run" => wtask[w] \in Tasks

TypeInv == TypeOK /\ RunningHasTask

\* Every action keeps the types: what pop takes from a queue is a task.
LEMMA TypeStep == TypeInv /\ [Next]_vars => TypeInv'
<1> SUFFICES ASSUME TypeInv, [Next]_vars PROVE TypeInv' OBVIOUS
<1> USE WorkersAssumption, NoTaskAssumption DEF TypeInv, TypeOK, RunningHasTask, Active, Ended
<1>1. ASSUME NEW t \in Tasks, Admit(t) PROVE TypeInv'
  <2>1. UNCHANGED <<mode, store, status, ids, closed, pushed, popped, wpc, wtask, main, broadcast, doomed>>
    BY <1>1 DEF Admit, taskVars, queue, worker, shut
  <2>2. /\ hpc' \in [Tasks -> {"new", "prepare", "added", "cleanup", "refused", "accepted"}]
        /\ admission' \in Tasks \cup {NoTask}
    <3>1. CASE hpc' = [hpc EXCEPT ![t] = "refused"] /\ UNCHANGED admission
      BY <3>1
    <3>2. CASE hpc' = [hpc EXCEPT ![t] = "prepare"] /\ admission' = t
      BY <3>2
    <3> QED BY <1>1, <3>1, <3>2 DEF Admit
  <2> QED BY <2>1, <2>2
<1>2. ASSUME NEW t \in Tasks, Prepare(t) PROVE TypeInv'
  <2> USE <1>2 DEF queue, worker, shut
  <2>1. CASE hpc' = [hpc EXCEPT ![t] = "refused"] /\ admission' = NoTask /\ UNCHANGED <<store, status>>
    BY <2>1 DEF Prepare
  <2>2. CASE /\ hpc' = [hpc EXCEPT ![t] = "added"]
             /\ store' = store \cup {t}
             /\ status' = [status EXCEPT ![t] = "queued"]
             /\ UNCHANGED admission
    BY <2>2 DEF Prepare
  <2> QED BY <2>1, <2>2 DEF Prepare
<1>3. ASSUME NEW m \in Modes, Signal(m) PROVE /\ wpc' \in [Workers -> {"pop", "waiting", "run", "exit"}]
                                              /\ \A w \in Workers : wpc'[w] = "run" => wpc[w] = "run"
  <2>1. CASE UNCHANGED wpc BY <2>1
  <2>2. ASSUME NEW w \in Waiting(m), wpc' = [wpc EXCEPT ![w] = "pop"]
        PROVE  /\ wpc' \in [Workers -> {"pop", "waiting", "run", "exit"}]
               /\ \A v \in Workers : wpc'[v] = "run" => wpc[v] = "run"
    BY <2>2 DEF Waiting
  <2> QED BY <1>3, <2>1, <2>2 DEF Signal
<1>4. ASSUME NEW t \in Tasks, push(t) PROVE TypeInv'
  <2>1. mode[t] \in Modes OBVIOUS
  <2>2. Signal(mode[t]) BY <1>4 DEF push
  <2>3. /\ wpc' \in [Workers -> {"pop", "waiting", "run", "exit"}]
        /\ \A w \in Workers : wpc'[w] = "run" => wpc[w] = "run"
    BY <1>3, <2>1, <2>2
  <2>4. ids' \in [Modes -> Seq(Tasks)] /\ pushed' \in [Modes -> Seq(Tasks)]
    BY <1>4, <2>1 DEF push
  <2> QED BY <1>4, <2>3, <2>4 DEF push, taskVars, shut
<1>5. ASSUME NEW t \in Tasks, PushRefused(t) PROVE TypeInv'
  BY <1>5 DEF PushRefused, queue, worker, shut
<1>6. ASSUME NEW t \in Tasks, cleanupTask(t) PROVE TypeInv'
  BY <1>6 DEF cleanupTask, queue, worker, shut
<1>7. ASSUME NEW w \in Workers, pop(w) PROVE TypeInv'
  <2> DEFINE m == ModeOf[w]
  <2>1. m \in Modes OBVIOUS
  <2>2. UNCHANGED <<admission, hpc, mode, store, status, closed, pushed, main, broadcast, doomed>>
    BY <1>7 DEF pop, handler, taskVars, shut
  <2>3. CASE /\ UNCHANGED <<ids, popped, wtask>>
             /\ \/ wpc' = [wpc EXCEPT ![w] = "waiting"]
                \/ wpc' = [wpc EXCEPT ![w] = "exit"]
    <3>1. /\ wpc' \in [Workers -> {"pop", "waiting", "run", "exit"}]
          /\ \A v \in Workers : wpc'[v] = "run" => wpc[v] = "run"
      <4>1. CASE wpc' = [wpc EXCEPT ![w] = "waiting"]
        BY <4>1
      <4>2. CASE wpc' = [wpc EXCEPT ![w] = "exit"]
        BY <4>2
      <4> QED BY <2>3, <4>1, <4>2
    <3>2. RunningHasTask'
      BY <2>3, <3>1
    <3> QED BY <2>2, <2>3, <3>1, <3>2
  <2>4. CASE /\ ids[m] # <<>>
             /\ wtask' = [wtask EXCEPT ![w] = Take(ids[m])[1]]
             /\ popped' = [popped EXCEPT ![m] = Append(@, Take(ids[m])[1])]
             /\ ids' = [ids EXCEPT ![m] = Take(@)[2]]
             /\ wpc' = [wpc EXCEPT ![w] = "run"]
    <3>1. Head(ids[m]) \in Tasks /\ Tail(ids[m]) \in Seq(Tasks)
      BY <2>1, <2>4
    <3>2. /\ wtask' = [wtask EXCEPT ![w] = Head(ids[m])]
          /\ popped' = [popped EXCEPT ![m] = Append(@, Head(ids[m]))]
          /\ ids' = [ids EXCEPT ![m] = Tail(@)]
      BY <2>4 DEF Take
    <3>3. ids' \in [Modes -> Seq(Tasks)] /\ popped' \in [Modes -> Seq(Tasks)]
      <4>1. ids' \in [Modes -> Seq(Tasks)]
        BY <2>1, <3>1, <3>2
      <4>2. popped[m] \in Seq(Tasks)
        BY <2>1
      <4>3. Append(popped[m], Head(ids[m])) \in Seq(Tasks)
        BY <3>1, <4>2
      <4>4. popped' \in [Modes -> Seq(Tasks)]
        BY <2>1, <3>2, <4>3
      <4> QED BY <4>1, <4>4
    <3>4. wtask' \in [Workers -> Tasks \cup {NoTask}]
      BY <3>1, <3>2
    <3>5. wtask'[w] \in Tasks /\ \A v \in Workers \ {w} : wtask'[v] = wtask[v]
      BY <3>1, <3>2
    <3>6. /\ wpc' \in [Workers -> {"pop", "waiting", "run", "exit"}]
          /\ \A v \in Workers \ {w} : wpc'[v] = wpc[v]
      BY <2>4
    <3>7. RunningHasTask'
      BY <3>5, <3>6
    <3> QED BY <2>2, <3>3, <3>4, <3>6, <3>7
  <2> QED BY <1>7, <2>3, <2>4 DEF pop
<1>8. ASSUME NEW w \in Workers, RunTask(w) PROVE TypeInv'
  BY <1>8 DEF RunTask, handler, queue, worker, shut
<1>9. ASSUME NEW w \in Workers, EndTask(w) PROVE TypeInv'
  BY <1>9 DEF EndTask, handler, queue, shut
<1>10. ASSUME NEW t \in Tasks, CancelTask(t) PROVE TypeInv'
  BY <1>10 DEF CancelTask, handler, queue, worker, shut
<1>11. ASSUME NEW t \in Tasks, ExpireTask(t) PROVE TypeInv'
  BY <1>11 DEF ExpireTask, handler, queue, worker, shut
<1>12. CASE BeginShutdown
  BY <1>12 DEF BeginShutdown, handler, taskVars, queue, worker
<1>13. ASSUME NEW m \in Modes, closeQueue(m) PROVE TypeInv'
  BY <1>13 DEF closeQueue, handler, taskVars, worker
<1>14. CASE Broadcast
  BY <1>14 DEF Broadcast, Waiting, handler, taskVars, queue
<1>15. CASE ListTasks
  BY <1>15 DEF ListTasks, handler, taskVars, queue, worker
<1>16. ASSUME NEW t \in Tasks, CancelDoomed(t) PROVE TypeInv'
  BY <1>16 DEF CancelDoomed, handler, queue, worker
<1>17. CASE Exit
  BY <1>17 DEF Exit, handler, taskVars, queue, worker
<1>18. CASE UNCHANGED vars
  BY <1>18 DEF vars, handler, taskVars, queue, worker, shut
<1> QED
  BY <1>1, <1>2, <1>4, <1>5, <1>6, <1>7, <1>8, <1>9, <1>10, <1>11, <1>12, <1>13, <1>14,
     <1>15, <1>16, <1>17, <1>18
  DEF Next, Handler, Worker, Shutdown, Exited

\* The type invariant holds: every program point, queue and value stays in its
\* type, and no task is in the store before it has a status.
THEOREM TypeCorrect == Spec => []TypeOK
<1>1. Init => TypeInv
  BY NoTaskAssumption DEF Init, TypeInv, TypeOK, RunningHasTask, Active, Ended
<1>2. TypeInv => TypeOK BY DEF TypeInv
<1> QED BY <1>1, <1>2, TypeStep, PTL DEF Spec

-----------------------------------------------------------------------------
(* Admission.                                                              *)

\* The handler that is between the test of the retained tasks and its answer
\* holds admissionMu.
AdmissionHeld == \A t \in Tasks : hpc[t] \in {"prepare", "added", "cleanup"} => admission = t

\* The store is finite and, while a handler has been let in, has room for it.
RoomWhilePreparing ==
    /\ IsFiniteSet(store)
    /\ \A t \in Tasks : hpc[t] = "prepare" => Cardinality(store) < MaxRetainedTasks

\* A task is in the store only while its handler has not refused it.
StoredIsAdmitted == \A t \in store : hpc[t] \in {"added", "cleanup", "accepted"}

AdmissionInv ==
    /\ AdmissionHeld
    /\ RoomWhilePreparing
    /\ StoredIsAdmitted
    /\ RetainedTasksBounded

\* Every action keeps what admissionMu protects: only its holder adds to the
\* store, and only after it has seen room.
LEMMA AdmissionStep == TypeInv /\ AdmissionInv /\ [Next]_vars => AdmissionInv'
<1> SUFFICES ASSUME TypeInv, AdmissionInv, [Next]_vars PROVE AdmissionInv' OBVIOUS
<1> USE NoTaskAssumption, RetainedAssumption
    DEF TypeInv, TypeOK, AdmissionInv, AdmissionHeld, RoomWhilePreparing, StoredIsAdmitted,
        RetainedTasksBounded
<1>0. Cardinality(store) \in Nat BY FS_CardinalityType
<1>1. ASSUME NEW t \in Tasks, Admit(t) PROVE AdmissionInv'
  <2>1. CASE hpc' = [hpc EXCEPT ![t] = "refused"] /\ UNCHANGED <<admission, store>>
    BY <1>1, <2>1 DEF Admit
  <2>2. CASE /\ Cardinality(store) < MaxRetainedTasks
             /\ hpc' = [hpc EXCEPT ![t] = "prepare"]
             /\ admission' = t /\ store' = store
    BY <1>0, <1>1, <2>2 DEF Admit
  <2> QED BY <1>1, <2>1, <2>2 DEF Admit, taskVars
<1>2. ASSUME NEW t \in Tasks, Prepare(t) PROVE AdmissionInv'
  <2>1. CASE hpc' = [hpc EXCEPT ![t] = "refused"] /\ admission' = NoTask /\ UNCHANGED store
    BY <1>2, <2>1 DEF Prepare
  <2>2. CASE hpc' = [hpc EXCEPT ![t] = "added"] /\ store' = store \cup {t} /\ UNCHANGED admission
    <3>1. t \notin store /\ Cardinality(store) < MaxRetainedTasks
      BY <1>2 DEF Prepare
    <3>2. IsFiniteSet(store') /\ Cardinality(store') = Cardinality(store) + 1
      BY <2>2, <3>1, FS_AddElement
    <3>3. \A u \in Tasks : hpc'[u] # "prepare"
      BY <1>2, <2>2 DEF Prepare
    <3>4. RetainedTasksBounded' /\ RoomWhilePreparing'
      BY <1>0, <3>1, <3>2, <3>3
    <3> QED BY <1>2, <2>2, <3>4 DEF Prepare
  <2> QED BY <1>2, <2>1, <2>2 DEF Prepare
<1>3. ASSUME NEW t \in Tasks, push(t) PROVE AdmissionInv'
  BY <1>3 DEF push, taskVars
<1>4. ASSUME NEW t \in Tasks, PushRefused(t) PROVE AdmissionInv'
  BY <1>4 DEF PushRefused
<1>5. ASSUME NEW t \in Tasks, store' = store \ {t} PROVE
             /\ IsFiniteSet(store') /\ Cardinality(store') <= Cardinality(store)
             /\ Cardinality(store') \in Nat
  <2>1. IsFiniteSet(store') /\ Cardinality(store') \in {Cardinality(store) - 1, Cardinality(store)}
    BY <1>5, FS_RemoveElement
  <2>2. Cardinality(store') \in Nat BY <2>1, FS_CardinalityType
  <2> QED BY <1>0, <2>1, <2>2
<1>6. ASSUME NEW t \in Tasks, cleanupTask(t) PROVE AdmissionInv'
  <2>1. store' = store \ {t} /\ hpc' = [hpc EXCEPT ![t] = "refused"] /\ admission' = NoTask
        /\ hpc[t] = "cleanup"
    BY <1>6 DEF cleanupTask
  <2>2. IsFiniteSet(store') /\ Cardinality(store') <= Cardinality(store) /\ Cardinality(store') \in Nat
    BY <1>5, <2>1
  <2> QED BY <1>0, <2>1, <2>2
<1>7. ASSUME NEW t \in Tasks, ExpireTask(t) PROVE AdmissionInv'
  <2>1. store' = store \ {t} /\ UNCHANGED <<hpc, admission>>
    BY <1>7 DEF ExpireTask, handler
  <2>2. IsFiniteSet(store') /\ Cardinality(store') <= Cardinality(store) /\ Cardinality(store') \in Nat
    BY <1>5, <2>1
  <2>3. RetainedTasksBounded' BY <1>0, <2>2
  <2>4. \A u \in Tasks : hpc'[u] = "prepare" => Cardinality(store) < MaxRetainedTasks
    BY <2>1
  <2>5. RoomWhilePreparing'
    BY <1>0, <2>2, <2>4
  <2> QED BY <2>1, <2>3, <2>5
<1>8. CASE UNCHANGED <<handler, store>>
  BY <1>8 DEF handler
<1> QED
  BY <1>1, <1>2, <1>3, <1>4, <1>6, <1>7, <1>8
  DEF Next, Handler, Worker, Shutdown, Exited, vars, taskVars, CancelTask, pop, RunTask, EndTask,
      BeginShutdown, closeQueue, Broadcast, ListTasks, CancelDoomed, Exit

\* --max-retained-tasks holds for every number of concurrent requests.
THEOREM StoreIsBounded == Spec => []RetainedTasksBounded
<1>1. Init => TypeInv /\ AdmissionInv
  BY NoTaskAssumption, RetainedAssumption, FS_EmptySet
  DEF Init, TypeInv, TypeOK, RunningHasTask, Active, Ended, AdmissionInv, AdmissionHeld,
      RoomWhilePreparing, StoredIsAdmitted, RetainedTasksBounded
<1>2. AdmissionInv => RetainedTasksBounded BY DEF AdmissionInv
<1> QED BY <1>1, <1>2, TypeStep, AdmissionStep, PTL DEF Spec

-----------------------------------------------------------------------------
(* The queues.                                                             *)

\* Appending to the second part of a sequence appends to the sequence.
LEMMA AppendToQueue ==
    \A p, q \in Seq(Tasks), e \in Tasks : p \o Append(q, e) = Append(p \o q, e)
BY SeqEqual

\* Moving the head of the second part to the end of the first changes nothing.
LEMMA MoveHead ==
    ASSUME NEW S, NEW p \in Seq(S), NEW q \in Seq(S), q # <<>>
    PROVE  Append(p, Head(q)) \o Tail(q) = p \o q
<1>1. Head(q) \in S /\ Tail(q) \in Seq(S) /\ Len(q) \in Nat \ {0} /\ Head(q) = q[1]
  BY HeadTailProperties, EmptySeq
<1>2. Len(Append(p, Head(q)) \o Tail(q)) = Len(p \o q)
  BY <1>1
<1>3. \A i \in 1..Len(p \o q) : (Append(p, Head(q)) \o Tail(q))[i] = (p \o q)[i]
  BY <1>1
<1>4. Append(p, Head(q)) \o Tail(q) \in Seq(S) /\ p \o q \in Seq(S)
  BY <1>1
<1> QED BY <1>2, <1>3, <1>4, SeqEqual

\* The first part of a sequence is a prefix of it.
LEMMA FirstPart ==
    ASSUME NEW S, NEW p \in Seq(S), NEW q \in Seq(S)
    PROVE  SubSeq(p \o q, 1, Len(p)) = p
<1>1. p \o q \in Seq(S) /\ Len(p) \in Nat /\ Len(p \o q) = Len(p) + Len(q) /\ Len(q) \in Nat
  BY ConcatProperties, LenProperties
<1>2. \A i \in 1..Len(p) : (p \o q)[i] = p[i] /\ (p \o q)[i] \in S
  BY <1>1
<1>3. /\ SubSeq(p \o q, 1, Len(p)) \in Seq(S)
      /\ Len(SubSeq(p \o q, 1, Len(p))) = Len(p)
      /\ \A i \in 1..Len(p) : SubSeq(p \o q, 1, Len(p))[i] = (p \o q)[i]
  BY <1>1, <1>2
<1> QED BY <1>2, <1>3, SeqEqual

\* Every action keeps the queues in order; push and pop work at the two ends,
\* and close throws away what has not been popped.
LEMMA QueueStep == TypeInv /\ QueueIsFIFO /\ [Next]_vars => QueueIsFIFO'
<1> SUFFICES ASSUME TypeInv, QueueIsFIFO, [Next]_vars, NEW m \in Modes
             PROVE  IF closed'[m] THEN popped'[m] = SubSeq(pushed'[m], 1, Len(popped'[m]))
                                  ELSE popped'[m] \o ids'[m] = pushed'[m]
  BY DEF QueueIsFIFO
<1> DEFINE Goal == IF closed'[m] THEN popped'[m] = SubSeq(pushed'[m], 1, Len(popped'[m]))
                                 ELSE popped'[m] \o ids'[m] = pushed'[m]
<1> USE WorkersAssumption DEF TypeInv, TypeOK
<1>0. IF closed[m] THEN popped[m] = SubSeq(pushed[m], 1, Len(popped[m]))
                   ELSE popped[m] \o ids[m] = pushed[m]
  BY DEF QueueIsFIFO
<1>a. popped[m] \in Seq(Tasks) /\ ids[m] \in Seq(Tasks)
  OBVIOUS
<1>1. ASSUME ids'[m] = ids[m], closed'[m] = closed[m], pushed'[m] = pushed[m], popped'[m] = popped[m]
      PROVE  Goal
  BY <1>0, <1>1
<1>2. ASSUME NEW t \in Tasks, push(t) PROVE Goal
  <2>1. CASE mode[t] = m
    <3>1. /\ ids'[m] = Append(ids[m], t) /\ pushed'[m] = Append(pushed[m], t)
          /\ popped'[m] = popped[m] /\ ~closed[m] /\ closed' = closed
      BY <1>2, <2>1 DEF push, Open
    <3>2. popped[m] \o Append(ids[m], t) = Append(popped[m] \o ids[m], t)
      BY <1>a, AppendToQueue
    <3> QED BY <1>0, <3>1, <3>2
  <2>2. CASE mode[t] # m
    BY <1>1, <1>2, <2>2 DEF push
  <2> QED BY <2>1, <2>2
<1>3. ASSUME NEW w \in Workers, pop(w) PROVE Goal
  <2>0. closed' = closed /\ pushed' = pushed
    BY <1>3 DEF pop
  <2>1. CASE UNCHANGED <<ids, popped>>
    BY <1>1, <2>0, <2>1
  <2>2. CASE /\ ids[ModeOf[w]] # <<>> /\ ~closed[ModeOf[w]]
             /\ popped' = [popped EXCEPT ![ModeOf[w]] = Append(@, Take(ids[ModeOf[w]])[1])]
             /\ ids' = [ids EXCEPT ![ModeOf[w]] = Take(@)[2]]
    <3>1. /\ popped' = [popped EXCEPT ![ModeOf[w]] = Append(@, Head(ids[ModeOf[w]]))]
          /\ ids' = [ids EXCEPT ![ModeOf[w]] = Tail(@)]
      BY <2>2 DEF Take
    <3>2. CASE ModeOf[w] = m
      <4>1. popped'[m] = Append(popped[m], Head(ids[m])) /\ ids'[m] = Tail(ids[m])
        BY <3>1, <3>2
      <4>2. Append(popped[m], Head(ids[m])) \o Tail(ids[m]) = popped[m] \o ids[m]
        <5> HIDE DEF TypeInv, TypeOK
        <5>1. ids[m] # <<>> BY <2>2, <3>2
        <5> QED BY <1>a, <5>1, MoveHead
      <4> QED BY <1>0, <2>0, <2>2, <3>2, <4>1, <4>2
    <3>3. CASE ModeOf[w] # m
      BY <1>1, <2>0, <3>1, <3>3
    <3> QED BY <3>2, <3>3
  <2> QED BY <1>3, <2>1, <2>2 DEF pop
<1>4. ASSUME NEW n \in Modes, closeQueue(n) PROVE Goal
  <2>1. CASE n = m
    <3>1. ~closed[m] /\ closed'[m] = TRUE /\ popped' = popped /\ pushed' = pushed
      BY <1>4, <2>1 DEF closeQueue
    <3>2. SubSeq(popped[m] \o ids[m], 1, Len(popped[m])) = popped[m]
      BY <1>a, FirstPart
    <3> QED BY <1>0, <3>1, <3>2
  <2>2. CASE n # m
    BY <1>1, <1>4, <2>2 DEF closeQueue
  <2> QED BY <2>1, <2>2
<1>5. CASE UNCHANGED queue
  BY <1>1, <1>5 DEF queue
<1> QED
  BY <1>2, <1>3, <1>4, <1>5
  DEF Next, Handler, Worker, Shutdown, Exited, vars, Admit, Prepare, PushRefused, cleanupTask,
      CancelTask, ExpireTask, RunTask, EndTask, BeginShutdown, Broadcast, ListTasks, CancelDoomed, Exit

\* For any number of workers and requests, a queue loses, duplicates and
\* reorders nothing while it is open, and what its workers got before it was
\* closed is the beginning of what was pushed.
THEOREM QueuesAreFIFO == Spec => []QueueIsFIFO
<1>1. Init => TypeInv /\ QueueIsFIFO
  BY NoTaskAssumption
  DEF Init, TypeInv, TypeOK, RunningHasTask, Active, Ended, QueueIsFIFO
<1> QED BY <1>1, TypeStep, QueueStep, PTL DEF Spec

-----------------------------------------------------------------------------
(* The shutdown.                                                           *)

\* A worker waits on a closed queue only until Run broadcasts to that queue.
WaiterIsBroadcastTo ==
    \A w \in Workers : wpc[w] = "waiting" /\ closed[ModeOf[w]] => broadcast = ModeOf[w]

\* Run lists the tasks after it has closed every queue and woken its waiters.
ClosedBeforeCancel ==
    main \in {"cancel", "exited"} => broadcast = NoMode /\ \A m \in Modes : closed[m]

WaiterInv == WaiterIsBroadcastTo /\ ClosedBeforeCancel

\* Every action keeps the waiters within reach of the next broadcast: pop does
\* not wait on a closed queue, and Run closes no queue before it has broadcast
\* to the one before.
LEMMA WaiterStep == TypeInv /\ WaiterInv /\ [Next]_vars => WaiterInv'
<1> SUFFICES ASSUME TypeInv, WaiterInv, [Next]_vars PROVE WaiterInv' OBVIOUS
<1> USE WorkersAssumption, NoTaskAssumption
    DEF TypeInv, TypeOK, WaiterInv, WaiterIsBroadcastTo, ClosedBeforeCancel
<1>1. ASSUME NEW t \in Tasks, push(t) PROVE WaiterInv'
  <2>1. UNCHANGED <<closed, main, broadcast>>
    BY <1>1 DEF push, shut
  <2>2. \A v \in Workers : wpc'[v] = "waiting" => wpc[v] = "waiting"
    BY <1>1 DEF push, Signal, Waiting
  <2> QED BY <2>1, <2>2
<1>2. ASSUME NEW w \in Workers, pop(w) PROVE WaiterInv'
  <2>1. UNCHANGED <<closed, main, broadcast>>
    BY <1>2 DEF pop, shut
  <2>2. \A v \in Workers : wpc'[v] = "waiting" => wpc[v] = "waiting" \/ ~closed[ModeOf[v]]
    BY <1>2 DEF pop
  <2> QED BY <2>1, <2>2
<1>3. ASSUME NEW w \in Workers, EndTask(w) PROVE WaiterInv'
  BY <1>3 DEF EndTask, queue, shut
<1>4. ASSUME NEW m \in Modes, closeQueue(m) PROVE WaiterInv'
  BY <1>4 DEF closeQueue, worker
<1>5. CASE Broadcast
  BY <1>5 DEF Broadcast, Waiting, queue
<1>6. CASE ListTasks
  BY <1>6 DEF ListTasks, queue, worker
<1>7. CASE BeginShutdown
  BY <1>7 DEF BeginShutdown, queue, worker
<1>8. CASE Exit
  BY <1>8 DEF Exit, queue, worker
<1>9. CASE UNCHANGED <<queue, worker, main, broadcast>>
  BY <1>9 DEF queue, worker
<1> QED
  BY <1>1, <1>2, <1>3, <1>4, <1>5, <1>6, <1>7, <1>8, <1>9
  DEF Next, Handler, Worker, Shutdown, Exited, vars, shut, Admit, Prepare, PushRefused, cleanupTask,
      CancelTask, ExpireTask, RunTask, CancelDoomed

\* Once Run has closed the queues no worker waits on one of them, whatever
\* the order of its close, the broadcasts and the passes of pop.
THEOREM ClosedQueuesAreLeft == Spec => []NoWaiterOnClosedQueue
<1>1. Init => TypeInv /\ WaiterInv
  BY NoTaskAssumption, WorkersAssumption
  DEF Init, TypeInv, TypeOK, RunningHasTask, Active, Ended, WaiterInv, WaiterIsBroadcastTo,
      ClosedBeforeCancel
<1>2. TypeInv /\ WaiterInv => NoWaiterOnClosedQueue
  BY WorkersAssumption, NoTaskAssumption
  DEF TypeInv, TypeOK, WaiterInv, WaiterIsBroadcastTo, ClosedBeforeCancel, NoWaiterOnClosedQueue
<1> QED BY <1>1, <1>2, TypeStep, WaiterStep, PTL DEF Spec

\* Once Run has listed the tasks, one that has not ended is still to be
\* canceled by Run, or by its own handler, which finds its queue closed.
LeftIsDoomed ==
    /\ main \in {"cancel", "exited"} =>
          \A t \in store : status[t] \in Ended \/ hpc[t] = "added" \/ t \in doomed
    /\ main = "exited" => doomed = {}

\* Every action keeps the tasks that have not ended within reach of Run or of
\* their handler.
LEMMA DoomedStep ==
    TypeInv /\ AdmissionInv /\ WaiterInv /\ LeftIsDoomed /\ [Next]_vars => LeftIsDoomed'
<1> SUFFICES ASSUME TypeInv, AdmissionInv, WaiterInv, LeftIsDoomed, [Next]_vars PROVE LeftIsDoomed'
  OBVIOUS
<1> USE DEF TypeInv, TypeOK, LeftIsDoomed, Active, Ended
<1>1. ASSUME NEW t \in Tasks, Admit(t) PROVE LeftIsDoomed'
  BY <1>1 DEF Admit, taskVars, shut, AdmissionInv, StoredIsAdmitted
<1>2. ASSUME NEW t \in Tasks, Prepare(t) PROVE LeftIsDoomed'
  <2>1. UNCHANGED <<main, doomed>> BY <1>2 DEF Prepare, shut
  <2>2. CASE hpc' = [hpc EXCEPT ![t] = "refused"] /\ UNCHANGED <<store, status>>
    BY <1>2, <2>1, <2>2 DEF Prepare, AdmissionInv, StoredIsAdmitted
  <2>3. CASE /\ hpc' = [hpc EXCEPT ![t] = "added"]
             /\ store' = store \cup {t}
             /\ status' = [status EXCEPT ![t] = "queued"]
    BY <1>2, <2>1, <2>3 DEF Prepare
  <2> QED BY <1>2, <2>2, <2>3 DEF Prepare
<1>3. ASSUME NEW t \in Tasks, push(t) PROVE LeftIsDoomed'
  <2>1. main \notin {"cancel", "exited"} /\ main' = main
    BY <1>3 DEF push, Open, shut, WaiterInv, ClosedBeforeCancel
  <2> QED BY <2>1
<1>4. ASSUME NEW t \in Tasks, PushRefused(t) PROVE LeftIsDoomed'
  BY <1>4 DEF PushRefused, shut
<1>5. ASSUME NEW t \in Tasks, cleanupTask(t) PROVE LeftIsDoomed'
  BY <1>5 DEF cleanupTask, shut
<1>6. ASSUME NEW w \in Workers, RunTask(w) PROVE LeftIsDoomed'
  BY <1>6 DEF RunTask, handler, shut
<1>7. ASSUME NEW w \in Workers, EndTask(w) PROVE LeftIsDoomed'
  BY <1>7 DEF EndTask, handler, shut
<1>8. ASSUME NEW t \in Tasks, CancelTask(t) PROVE LeftIsDoomed'
  BY <1>8 DEF CancelTask, handler, shut
<1>9. ASSUME NEW t \in Tasks, ExpireTask(t) PROVE LeftIsDoomed'
  BY <1>9 DEF ExpireTask, handler, shut
<1>10. CASE BeginShutdown
  BY <1>10 DEF BeginShutdown
<1>11. CASE ListTasks
  BY <1>11 DEF ListTasks, handler, taskVars
<1>12. ASSUME NEW t \in Tasks, CancelDoomed(t) PROVE LeftIsDoomed'
  BY <1>12 DEF CancelDoomed, handler
<1>13. CASE Exit
  BY <1>13 DEF Exit, handler, taskVars
<1>14. CASE UNCHANGED <<handler, taskVars, main, doomed>>
  BY <1>14 DEF handler, taskVars
<1> QED
  BY <1>1, <1>2, <1>3, <1>4, <1>5, <1>6, <1>7, <1>8, <1>9, <1>10, <1>11, <1>12, <1>13, <1>14
  DEF Next, Handler, Worker, Shutdown, Exited, vars, shut, pop, closeQueue, Broadcast

\* When Run returns, every task in the store has ended, except one whose
\* handler is still being told that the scheduler is closed, and a refused
\* request has left no task in the store.
THEOREM NothingLeftBehind == Spec => []NoTaskLeftBehind
<1>1. Init => TypeInv /\ AdmissionInv /\ WaiterInv /\ LeftIsDoomed
  BY NoTaskAssumption, WorkersAssumption, RetainedAssumption, FS_EmptySet
  DEF Init, TypeInv, TypeOK, RunningHasTask, Active, Ended, AdmissionInv, AdmissionHeld,
      RoomWhilePreparing, StoredIsAdmitted, RetainedTasksBounded, WaiterInv, WaiterIsBroadcastTo,
      ClosedBeforeCancel, LeftIsDoomed
<1>2. AdmissionInv /\ LeftIsDoomed => NoTaskLeftBehind
  BY DEF AdmissionInv, StoredIsAdmitted, LeftIsDoomed, NoTaskLeftBehind
<1> QED BY <1>1, <1>2, TypeStep, AdmissionStep, WaiterStep, DoomedStep, PTL DEF Spec
=============================================================================
