--------------------------- MODULE BuildTasksTypes ---------------------------
(***************************************************************************)
(* Type correctness of BuildTasks, for any number of tasks, addresses and  *)
(* slots. TypeOK is not inductive by itself: TypeInv adds what the code    *)
(* knows at each program point about the step, the slot and the pool.      *)
(***************************************************************************)
EXTENDS BuildTasks, FiniteSetTheorems, TLAPS

\* Only image type "both" has a second step.
StepInRange ==
    \A t \in Tasks :
        /\ step[t] = 2 => kind[t] = "both"
        /\ pc[t] = "new" => step[t] = 1

\* A goroutine between taking and giving back a slot knows which; the address
\* that failed is still known when the goroutine excludes it.
SlotKnown ==
    \A t \in Tasks :
        \/ pc[t] \in HoldsAddrAt
        \/ pc[t] = "relGlobal" /\ err[t] = "addr"
        => slot[t] \in Slots

\* Every address of the pool has a slot.
PoolHasSlots == \A a \in pool : gen[a] \in 1..MaxGen

TypeInv == TypeOK /\ StepInRange /\ SlotKnown /\ PoolHasSlots

\* The list of steps of every image type.
LEMMA StepsShape ==
    ASSUME NEW k \in {"oci", "nydus", "both"}
    PROVE  /\ Len(buildStepsForImageType(k)) = IF k = "both" THEN 2 ELSE 1
           /\ buildStepsForImageType(k)[1] = IF k = "nydus" THEN "nydus" ELSE "oci"
           /\ k = "both" => buildStepsForImageType(k)[2] = "nydus"
BY DEF buildStepsForImageType

\* The initial states have the types.
LEMMA TypeInit == Init => TypeInv
<1> SUFFICES ASSUME Init PROVE TypeInv OBVIOUS
<1> USE DEF Init
<1>1. TypeOK
  BY LimitsAssumption, ResolutionsAssumption
  DEF TypeOK, Status, Active, Terminal, Points, Errors, Slots, NoSlot
<1>2. StepInRange
  BY DEF StepInRange
<1>3. SlotKnown
  BY DEF SlotKnown, HoldsAddrAt
<1>4. PoolHasSlots
  BY LimitsAssumption, ResolutionsAssumption DEF PoolHasSlots
<1> QED BY <1>1, <1>2, <1>3, <1>4 DEF TypeInv
\* finishTask keeps the types of what it assigns.
LEMMA FinishTypes ==
    ASSUME TypeOK, NEW t \in Tasks, NEW s \in Terminal, finishTask(t, s)
    PROVE  /\ status' \in [Tasks -> Status]
           /\ observed' \in [Tasks -> BOOLEAN]
           /\ metrics' \in [Terminal -> Nat]
<1>1. CASE MayFinish(t, s)
  <2> USE <1>1 DEF finishTask, TypeOK
  <2>1. status' \in [Tasks -> Status] BY DEF Status
  <2>2. observed' \in [Tasks -> BOOLEAN] OBVIOUS
  <2>3. metrics' \in [Terminal -> Nat]
    <3>1. metrics[s] + 1 \in Nat OBVIOUS
    <3> QED BY <3>1
  <2> QED BY <2>1, <2>2, <2>3
<1>2. CASE ~MayFinish(t, s)
  BY <1>2 DEF finishTask, TypeOK
<1> QED BY <1>1, <1>2

\* Taking a slot of an address keeps the types.
LEMMA TakeSlotTypes ==
    ASSUME TypeInv, NEW t \in Tasks, pc[t] \in {"pick", "wait"}, TakeSlot(t)
    PROVE  TypeInv'
<1> USE DEF TypeInv, TypeOK, TakeSlot, Goto, fields, request, locals, slots, others
<1>1. TypeOK'
  BY DEF Points
<1>2. StepInRange' /\ PoolHasSlots'
  BY DEF StepInRange, PoolHasSlots
<1>3. SlotKnown'
  BY DEF SlotKnown, HoldsAddrAt
<1> QED BY <1>1, <1>2, <1>3

\* markTaskQueued writes only a status and the empty address.
LEMMA MarkQueuedTypes ==
    ASSUME TypeOK, NEW t \in Tasks, markTaskQueued(t)
    PROVE  status' \in [Tasks -> Status] /\ addr' \in [Tasks -> Addrs \cup {NoAddr}]
BY DEF TypeOK, markTaskQueued, ClearAddr, Status, Active

\* One step of BuildTasks preserves the types.
LEMMA TypeStep == TypeInv /\ [Next]_vars => TypeInv'
<1> SUFFICES ASSUME TypeInv, [Next]_vars PROVE TypeInv' OBVIOUS
<1> USE DEF TypeInv, TypeOK, Goto, fields, request, locals, slots, others
<1>1. ASSUME NEW t \in Tasks, StartTask(t)
      PROVE  TypeInv'
  <2>1. TypeOK'
    BY <1>1 DEF StartTask, Points
  <2>2. StepInRange' /\ PoolHasSlots'
    BY <1>1 DEF StepInRange, PoolHasSlots, StartTask
  <2>3. SlotKnown'
    BY <1>1 DEF SlotKnown, HoldsAddrAt, StartTask
  <2> QED BY <2>1, <2>2, <2>3
<1>2. ASSUME NEW t \in Tasks, OpenLog(t)
      PROVE  TypeInv'
  <2>1. TypeOK'
    BY <1>2 DEF OpenLog, LogError, Points, Terminal
  <2>2. StepInRange' /\ PoolHasSlots'
    BY <1>2 DEF StepInRange, PoolHasSlots, OpenLog, LogError
  <2>3. SlotKnown'
    BY <1>2 DEF SlotKnown, HoldsAddrAt, Terminal, OpenLog, LogError
  <2> QED BY <2>1, <2>2, <2>3
<1>3. ASSUME NEW t \in Tasks, BeginStep(t)
      PROVE  TypeInv'
  <2>1. TypeOK'
    <3>1. pc' \in [Tasks -> Points] /\ dir' \in [Tasks -> BOOLEAN]
      BY <1>3 DEF BeginStep, Points, Terminal
    <3>2. attempt' \in [Tasks -> Nat] /\ excluded' \in [Tasks -> SUBSET Addrs]
      BY <1>3 DEF BeginStep
    <3> QED BY <1>3, <3>1, <3>2 DEF BeginStep
  <2>2. StepInRange' /\ PoolHasSlots'
    BY <1>3 DEF StepInRange, PoolHasSlots, BeginStep
  <2>3. SlotKnown'
    BY <1>3 DEF SlotKnown, HoldsAddrAt, Terminal, BeginStep
  <2> QED BY <2>1, <2>2, <2>3
<1>4. ASSUME NEW t \in Tasks, MarkQueued(t)
      PROVE  TypeInv'
  <2>1. TypeOK'
    BY <1>4
    DEF MarkQueued, markTaskQueued, ClearAddr, Points, Errors, Status, Active,
      Terminal
  <2>2. StepInRange' /\ PoolHasSlots'
    BY <1>4
    DEF StepInRange, PoolHasSlots, MarkQueued, markTaskQueued, ClearAddr
  <2>3. SlotKnown'
    BY <1>4 DEF SlotKnown, HoldsAddrAt, MarkQueued, markTaskQueued, ClearAddr
  <2> QED BY <2>1, <2>2, <2>3
<1>5. ASSUME NEW t \in Tasks, acquireGlobalSlot(t)
      PROVE  TypeInv'
  <2>1. TypeOK'
    BY <1>5 DEF acquireGlobalSlot, Points
  <2>2. StepInRange' /\ PoolHasSlots'
    BY <1>5 DEF StepInRange, PoolHasSlots, acquireGlobalSlot
  <2>3. SlotKnown'
    BY <1>5 DEF SlotKnown, HoldsAddrAt, acquireGlobalSlot
  <2> QED BY <2>1, <2>2, <2>3
<1>6. ASSUME NEW t \in Tasks, GlobalSlotCtxDone(t)
      PROVE  TypeInv'
  <2>1. TypeOK'
    BY <1>6 DEF GlobalSlotCtxDone, Points, Errors
  <2>2. StepInRange' /\ PoolHasSlots'
    BY <1>6 DEF StepInRange, PoolHasSlots, GlobalSlotCtxDone
  <2>3. SlotKnown'
    BY <1>6 DEF SlotKnown, HoldsAddrAt, GlobalSlotCtxDone
  <2> QED BY <2>1, <2>2, <2>3
<1>7. ASSUME NEW t \in Tasks, SnapshotPool(t)
      PROVE  TypeInv'
  <2>1. TypeOK'
    BY <1>7
    DEF SnapshotPool, filterExcludedAddrSlots, PoolSlots, Points, Errors,
      Slots, NoSlot, PoolHasSlots
  <2>2. StepInRange' /\ PoolHasSlots'
    BY <1>7
    DEF StepInRange, PoolHasSlots, SnapshotPool, filterExcludedAddrSlots,
      PoolSlots
  <2>3. SlotKnown'
    BY <1>7
    DEF SlotKnown, HoldsAddrAt, SnapshotPool, filterExcludedAddrSlots,
      PoolSlots
  <2> QED BY <2>1, <2>2, <2>3
<1>8. ASSUME NEW t \in Tasks, pickAvailableAddrSlot(t)
      PROVE  TypeInv'
  <2>1. CASE TakeSlot(t)
    BY <1>8, <2>1, TakeSlotTypes DEF pickAvailableAddrSlot
  <2>2. CASE UNCHANGED <<fields, request, locals, slots, others>> /\ Goto(t, "wait")
    <3>1. TypeOK'
      BY <2>2 DEF Points
    <3>2. StepInRange' /\ SlotKnown' /\ PoolHasSlots'
      BY <2>2 DEF StepInRange, SlotKnown, HoldsAddrAt, PoolHasSlots
    <3> QED BY <3>1, <3>2
  <2> QED BY <1>8, <2>1, <2>2 DEF pickAvailableAddrSlot
<1>9. ASSUME NEW t \in Tasks, WaitAddrSlot(t)
      PROVE  TypeInv'
  BY <1>9, TakeSlotTypes DEF WaitAddrSlot
<1>10. ASSUME NEW t \in Tasks, AddrSlotCtxDone(t)
       PROVE  TypeInv'
  <2>1. TypeOK'
    BY <1>10 DEF AddrSlotCtxDone, Points, Errors
  <2>2. StepInRange' /\ PoolHasSlots'
    BY <1>10 DEF StepInRange, PoolHasSlots, AddrSlotCtxDone
  <2>3. SlotKnown'
    BY <1>10 DEF SlotKnown, HoldsAddrAt, AddrSlotCtxDone
  <2> QED BY <2>1, <2>2, <2>3
<1>11. ASSUME NEW t \in Tasks, Assign(t)
       PROVE  TypeInv'
  <2> USE <1>11 DEF Assign
  <2>1. addr' \in [Tasks -> Addrs \cup {NoAddr}]
    <3>1. slot[t][1] \in Addrs BY DEF SlotKnown, HoldsAddrAt, Slots
    <3> QED BY <3>1
  <2>2. status' \in [Tasks -> Status] /\ startedAt' \in [Tasks -> BOOLEAN]
    BY DEF Status, Active
  <2>3. pc' \in [Tasks -> Points] /\ err' \in [Tasks -> Errors]
    BY DEF Points, Errors
  <2>4. TypeOK'
    BY <2>1, <2>2, <2>3
  <2>5. StepInRange' /\ PoolHasSlots'
    BY DEF StepInRange, PoolHasSlots
  <2>6. SlotKnown'
    BY DEF SlotKnown, HoldsAddrAt
  <2> QED BY <2>4, <2>5, <2>6
<1>12. ASSUME NEW t \in Tasks, NEW e \in Errors, BuildReturns(t, e)
       PROVE  TypeInv'
  <2>1. buildStepsForImageType(kind[t])[step[t]] \in {"oci", "nydus"}
    <3>1. step[t] = 1 \/ (step[t] = 2 /\ kind[t] = "both")
      BY DEF StepInRange
    <3> QED BY <3>1, StepsShape
  <2>2. TypeOK'
    BY <1>12, <2>1 DEF BuildReturns, Points
  <2>3. StepInRange' /\ PoolHasSlots'
    BY <1>12 DEF StepInRange, PoolHasSlots, BuildReturns
  <2>4. SlotKnown'
    BY <1>12 DEF SlotKnown, HoldsAddrAt, BuildReturns
  <2> QED BY <2>2, <2>3, <2>4
<1>13. ASSUME NEW t \in Tasks, ReleaseAddrSlot(t)
       PROVE  TypeInv'
  <2>1. TypeOK'
    BY <1>13 DEF ReleaseAddrSlot, HeldSlot, Points, SlotKnown, HoldsAddrAt
  <2>2. StepInRange' /\ PoolHasSlots'
    BY <1>13 DEF StepInRange, PoolHasSlots, ReleaseAddrSlot, HeldSlot
  <2>3. SlotKnown'
    BY <1>13 DEF SlotKnown, HoldsAddrAt, ReleaseAddrSlot, HeldSlot
  <2> QED BY <2>1, <2>2, <2>3
<1>14. ASSUME NEW t \in Tasks, ReleaseGlobalSlot(t)
       PROVE  TypeInv'
  <2>1. TypeOK'
    BY <1>14
    DEF ReleaseGlobalSlot, Exclude, Points, Slots, NoSlot, SlotKnown,
      HoldsAddrAt
  <2>2. StepInRange' /\ PoolHasSlots'
    BY <1>14 DEF StepInRange, PoolHasSlots, ReleaseGlobalSlot, Exclude
  <2>3. SlotKnown'
    BY <1>14 DEF SlotKnown, HoldsAddrAt, ReleaseGlobalSlot, Exclude
  <2> QED BY <2>1, <2>2, <2>3
<1>15. ASSUME NEW t \in Tasks, refreshBuildkitAddrs(t)
       PROVE  TypeInv'
  <2>1. TypeOK'
    BY <1>15, ResolutionsAssumption, LimitsAssumption
    DEF refreshBuildkitAddrs, replace, Points
  <2>2. StepInRange' /\ PoolHasSlots'
    BY <1>15, ResolutionsAssumption, LimitsAssumption
    DEF StepInRange, PoolHasSlots, refreshBuildkitAddrs, replace
  <2>3. SlotKnown'
    BY <1>15, ResolutionsAssumption, LimitsAssumption
    DEF SlotKnown, HoldsAddrAt, refreshBuildkitAddrs, replace
  <2> QED BY <2>1, <2>2, <2>3
<1>16. ASSUME NEW t \in Tasks, JudgeAttempt(t)
       PROVE  TypeInv'
  <2> USE <1>16 DEF JudgeAttempt
  <2>1. step' \in [Tasks -> {1, 2}] /\ StepInRange'
    <3>1. ~LastStep(t) => step[t] = 1 /\ kind[t] = "both"
      <4>1. step[t] = 1 \/ (step[t] = 2 /\ kind[t] = "both")
        BY DEF StepInRange
      <4>2. kind[t] # "both" => Len(buildStepsForImageType(kind[t])) = 1
        BY StepsShape
      <4>3. kind[t] = "both" => Len(buildStepsForImageType(kind[t])) = 2
        BY StepsShape
      <4> QED BY <4>1, <4>2, <4>3 DEF LastStep
    <3>2. CASE step' = step BY <3>2 DEF StepInRange
    <3>3. CASE ~LastStep(t) /\ step' = [step EXCEPT ![t] = @ + 1]
      <4>1. step' = [step EXCEPT ![t] = 2] /\ kind' = kind BY <3>1, <3>3
      <4> QED BY <3>1, <3>3, <4>1 DEF StepInRange
    <3> QED BY <3>2, <3>3
  <2>2. status' \in [Tasks -> Status] /\ addr' \in [Tasks -> Addrs \cup {NoAddr}]
    BY MarkQueuedTypes
  <2>3. pc' \in [Tasks -> Points] /\ attempt' \in [Tasks -> Nat]
    BY DEF Points, Terminal
  <2>4. TypeOK'
    BY <2>1, <2>2, <2>3
  <2>5. SlotKnown' /\ PoolHasSlots'
    BY DEF SlotKnown, HoldsAddrAt, PoolHasSlots
  <2> QED BY <2>1, <2>4, <2>5
<1>17. ASSUME NEW t \in Tasks, waitRetryInterval(t)
       PROVE  TypeInv'
  <2>1. TypeOK'
    BY <1>17 DEF waitRetryInterval, Points, Terminal
  <2>2. StepInRange' /\ PoolHasSlots'
    BY <1>17 DEF StepInRange, PoolHasSlots, waitRetryInterval
  <2>3. SlotKnown'
    BY <1>17 DEF SlotKnown, HoldsAddrAt, Terminal, waitRetryInterval
  <2> QED BY <2>1, <2>2, <2>3
<1>18. ASSUME NEW t \in Tasks, FinishTask(t)
       PROVE  TypeInv'
  <2>1. /\ status' \in [Tasks -> Status] /\ observed' \in [Tasks -> BOOLEAN]
        /\ metrics' \in [Terminal -> Nat]
    BY <1>18, FinishTypes DEF FinishTask
  <2>2. TypeOK'
    <3>1. pc' \in [Tasks -> Points] /\ err' \in [Tasks -> Errors]
      BY <1>18 DEF FinishTask, Points, Errors
    <3>2. /\ step' \in [Tasks -> {1, 2}] /\ attempt' \in [Tasks -> Nat]
          /\ excluded' \in [Tasks -> SUBSET Addrs]
      BY <1>18 DEF FinishTask
    <3> QED BY <1>18, <2>1, <3>1, <3>2 DEF FinishTask
  <2>3. StepInRange' /\ PoolHasSlots'
    BY <1>18 DEF StepInRange, PoolHasSlots, FinishTask
  <2>4. SlotKnown'
    BY <1>18 DEF SlotKnown, HoldsAddrAt, FinishTask
  <2> QED BY <2>2, <2>3, <2>4
<1>19. ASSUME NEW t \in Tasks, CloseDone(t)
       PROVE  TypeInv'
  <2>1. TypeOK'
    BY <1>19 DEF CloseDone, Points
  <2>2. StepInRange' /\ PoolHasSlots'
    BY <1>19 DEF StepInRange, PoolHasSlots, CloseDone
  <2>3. SlotKnown'
    BY <1>19 DEF SlotKnown, HoldsAddrAt, CloseDone
  <2> QED BY <2>1, <2>2, <2>3
<1>20. ASSUME NEW t \in Tasks, CancelCtx(t)
       PROVE  TypeInv'
  <2>1. TypeOK'
    BY <1>20 DEF CancelCtx
  <2>2. StepInRange' /\ PoolHasSlots'
    BY <1>20 DEF StepInRange, PoolHasSlots, CancelCtx
  <2>3. SlotKnown'
    BY <1>20 DEF SlotKnown, HoldsAddrAt, CancelCtx
  <2> QED BY <2>1, <2>2, <2>3
<1>21. ASSUME NEW t \in Tasks, CancelFinish(t)
       PROVE  TypeInv'
  <2>1. /\ status' \in [Tasks -> Status] /\ observed' \in [Tasks -> BOOLEAN]
        /\ metrics' \in [Terminal -> Nat]
    BY <1>21, FinishTypes DEF CancelFinish, Terminal
  <2>2. TypeOK'
    BY <1>21, <2>1 DEF CancelFinish
  <2>3. StepInRange' /\ PoolHasSlots'
    BY <1>21 DEF StepInRange, PoolHasSlots, CancelFinish
  <2>4. SlotKnown'
    BY <1>21 DEF SlotKnown, HoldsAddrAt, CancelFinish
  <2> QED BY <2>2, <2>3, <2>4
<1>22. ASSUME NEW t \in Tasks, SyncReply(t)
       PROVE  TypeInv'
  <2>1. TypeOK'
    BY <1>22 DEF SyncReply
  <2>2. StepInRange' /\ PoolHasSlots'
    BY <1>22 DEF StepInRange, PoolHasSlots, SyncReply
  <2>3. SlotKnown'
    BY <1>22 DEF SlotKnown, HoldsAddrAt, SyncReply
  <2> QED BY <2>1, <2>2, <2>3
<1>23. ASSUME NEW t \in Tasks, NEW k \in ImageTypes, NEW r \in 0..MaxRetry,
             NEW sync \in SyncModes, HandleCreateBuild(t, k, r, sync)
       PROVE  TypeInv'
  <2>1. TypeOK'
    BY <1>23, LimitsAssumption, ImageTypesAssumption
    DEF HandleCreateBuild, Points, Status, Active
  <2>2. StepInRange'
    BY <1>23 DEF HandleCreateBuild, StepInRange
  <2>3. SlotKnown' /\ PoolHasSlots'
    BY <1>23 DEF SlotKnown, HoldsAddrAt, PoolHasSlots, HandleCreateBuild
  <2> QED BY <2>1, <2>2, <2>3
<1>24. ASSUME NEW t \in Tasks, StoreCancel(t)
       PROVE  TypeInv'
  <2>1. TypeOK'
    BY <1>24 DEF StoreCancel, Status, Active, Terminal
  <2>2. StepInRange' /\ PoolHasSlots'
    BY <1>24 DEF StepInRange, PoolHasSlots, StoreCancel
  <2>3. SlotKnown'
    BY <1>24 DEF SlotKnown, HoldsAddrAt, StoreCancel
  <2> QED BY <2>1, <2>2, <2>3
<1>25. ASSUME NEW t \in Tasks, CtxExpires(t)
       PROVE  TypeInv'
  <2>1. TypeOK'
    BY <1>25 DEF CtxExpires
  <2>2. StepInRange' /\ PoolHasSlots'
    BY <1>25 DEF StepInRange, PoolHasSlots, CtxExpires
  <2>3. SlotKnown'
    BY <1>25 DEF SlotKnown, HoldsAddrAt, CtxExpires
  <2> QED BY <2>1, <2>2, <2>3
<1>26. ASSUME NEW t \in Tasks, SyncDisconnect(t)
       PROVE  TypeInv'
  <2>1. TypeOK'
    BY <1>26 DEF SyncDisconnect
  <2>2. StepInRange' /\ PoolHasSlots'
    BY <1>26 DEF StepInRange, PoolHasSlots, SyncDisconnect
  <2>3. SlotKnown'
    BY <1>26 DEF SlotKnown, HoldsAddrAt, SyncDisconnect
  <2> QED BY <2>1, <2>2, <2>3
<1>27. ASSUME NEW S \in SUBSET Tasks, deleteExpired(S)
       PROVE  TypeInv'
  <2>1. TypeOK'
    BY <1>27 DEF deleteExpired
  <2>2. StepInRange' /\ PoolHasSlots'
    BY <1>27 DEF StepInRange, PoolHasSlots, deleteExpired
  <2>3. SlotKnown'
    BY <1>27 DEF SlotKnown, HoldsAddrAt, deleteExpired
  <2> QED BY <2>1, <2>2, <2>3
<1>28. ASSUME NEW t \in Tasks, cleanupTaskWorkDir(t)
       PROVE  TypeInv'
  <2>1. TypeOK'
    BY <1>28 DEF cleanupTaskWorkDir
  <2>2. StepInRange' /\ PoolHasSlots'
    BY <1>28 DEF StepInRange, PoolHasSlots, cleanupTaskWorkDir
  <2>3. SlotKnown'
    BY <1>28 DEF SlotKnown, HoldsAddrAt, cleanupTaskWorkDir
  <2> QED BY <2>1, <2>2, <2>3
<1>29. ASSUME RefreshAddrs
       PROVE  TypeInv'
  <2>1. TypeOK'
    BY <1>29, ResolutionsAssumption, LimitsAssumption
    DEF RefreshAddrs, replace
  <2>2. StepInRange' /\ PoolHasSlots'
    BY <1>29, ResolutionsAssumption, LimitsAssumption
    DEF StepInRange, PoolHasSlots, RefreshAddrs, replace
  <2>3. SlotKnown'
    BY <1>29, ResolutionsAssumption, LimitsAssumption
    DEF SlotKnown, HoldsAddrAt, RefreshAddrs, replace
  <2> QED BY <2>1, <2>2, <2>3
<1>30. CASE UNCHANGED vars
  <2>1. TypeOK'
    BY <1>30 DEF vars
  <2>2. StepInRange' /\ PoolHasSlots'
    BY <1>30 DEF StepInRange, PoolHasSlots, vars
  <2>3. SlotKnown'
    BY <1>30 DEF SlotKnown, HoldsAddrAt, vars
  <2> QED BY <2>1, <2>2, <2>3
<1> QED
  BY <1>1, <1>2, <1>3, <1>4, <1>5, <1>6, <1>7, <1>8, <1>9, <1>10, <1>11, <1>12, <1>13, <1>14, <1>15, <1>16, <1>17, <1>18, <1>19, <1>20, <1>21, <1>22, <1>23, <1>24, <1>25, <1>26, <1>27, <1>28, <1>29, <1>30
  DEF Next, Goroutine, Handlers, Environment

\* TypeOK, for every value of the constants: in particular a task never gets
\* past its last step, and every slot given back or excluded was taken.
THEOREM TypeCorrect == Spec => []TypeOK
<1> QED BY TypeInit, TypeStep, PTL DEF Spec, TypeInv
=============================================================================
