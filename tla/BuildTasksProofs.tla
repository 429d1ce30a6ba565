-------------------------- MODULE BuildTasksProofs --------------------------
(***************************************************************************)
(* The safety invariants of BuildTasks, for any number of tasks, addresses *)
(* and slots. The inductive invariant is TypeInv together with the parts   *)
(* defined below: what a status, a program point and the reaper imply of   *)
(* each other. The semaphores come first: each one holds exactly as many   *)
(* tokens as there are goroutines at the program points that hold one, and *)
(* the proof is about how one goroutine's step changes these holders.      *)
(***************************************************************************)
EXTENDS BuildTasksTypes, FiniteSetTheorems

-----------------------------------------------------------------------------
(* The semaphores never leak a token.                                      *)

SlotsInv == GlobalSlotsAccounted /\ AddrSlotsAccounted

\* Holders are finitely many.
LEMMA HoldersFinite ==
    /\ IsFiniteSet(GlobalHolders)
    /\ \A s \in Slots : IsFiniteSet(AddrHolders(s))
BY TasksFinite, FS_Subset DEF GlobalHolders, AddrHolders

\* At the start nobody holds a token.
LEMMA SlotsInit == Init => SlotsInv
<1> SUFFICES ASSUME Init PROVE SlotsInv OBVIOUS
<1>1. GlobalHolders = {} /\ \A s \in Slots : AddrHolders(s) = {}
  BY DEF Init, GlobalHolders, AddrHolders, HoldsGlobalAt, HoldsAddrAt
<1>2. globalSem = 0 /\ \A s \in Slots : addrSem[s] = 0
  BY DEF Init
<1>3. AddrSlotsAccounted
  BY <1>1, <1>2, FS_EmptySet, LimitsAssumption DEF AddrSlotsAccounted
<1>4. GlobalSlotsAccounted
  BY <1>1, <1>2, FS_EmptySet, LimitsAssumption DEF GlobalSlotsAccounted
<1> QED BY <1>3, <1>4 DEF SlotsInv

\* A step that moves one goroutine without crossing acquireGlobalSlot or
\* releaseGlobal.
LEMMA SameGlobalHolders ==
    ASSUME TypeInv, GlobalSlotsAccounted, NEW t \in Tasks,
           \A u \in Tasks \ {t} : pc'[u] = pc[u],
           pc'[t] \in HoldsGlobalAt <=> pc[t] \in HoldsGlobalAt,
           globalSem' = globalSem
    PROVE  GlobalSlotsAccounted'
<1>1. GlobalHolders' = GlobalHolders
  BY DEF GlobalHolders
<1> QED BY <1>1 DEF GlobalSlotsAccounted

\* A step that moves one goroutine without taking or giving back a slot.
LEMMA SameAddrHolders ==
    ASSUME TypeInv, AddrSlotsAccounted, NEW t \in Tasks,
           \A u \in Tasks \ {t} : pc'[u] = pc[u] /\ slot'[u] = slot[u],
           pc'[t] \in HoldsAddrAt <=> pc[t] \in HoldsAddrAt,
           pc[t] \in HoldsAddrAt => slot'[t] = slot[t],
           addrSem' = addrSem
    PROVE  AddrSlotsAccounted'
<1> SUFFICES ASSUME NEW s \in Slots
             PROVE  addrSem'[s] = Cardinality(AddrHolders(s)') /\ addrSem'[s] <= AddrConcurrency
  BY DEF AddrSlotsAccounted
<1>1. AddrHolders(s)' = AddrHolders(s)
  BY DEF AddrHolders
<1> QED BY <1>1 DEF AddrSlotsAccounted

\* A goroutine that takes a slot of its snapshot adds one token to it.
LEMMA TakeSlotAccounted ==
    ASSUME TypeInv, SlotsInv, NEW t \in Tasks, pc[t] \in {"pick", "wait"}, TakeSlot(t)
    PROVE  SlotsInv'
<1> USE DEF TypeInv, TypeOK, TakeSlot, Goto, SlotsInv
<1>1. GlobalSlotsAccounted'
  BY SameGlobalHolders DEF HoldsGlobalAt
<1>2. PICK s \in snap[t] : /\ Free(s)
                          /\ addrSem' = [addrSem EXCEPT ![s] = @ + 1]
                          /\ slot' = [slot EXCEPT ![t] = s]
                          /\ pc' = [pc EXCEPT ![t] = "assign"]
  OBVIOUS
<1>3. AddrSlotsAccounted'
  <2> SUFFICES ASSUME NEW r \in Slots
               PROVE  addrSem'[r] = Cardinality(AddrHolders(r)') /\ addrSem'[r] <= AddrConcurrency
    BY DEF AddrSlotsAccounted
  <2>1. s \in Slots BY <1>2
  <2>2. CASE r = s
    <3>1. AddrHolders(s)' = AddrHolders(s) \cup {t} /\ t \notin AddrHolders(s)
      BY <1>2, <2>1 DEF AddrHolders, HoldsAddrAt
    <3>2. Cardinality(AddrHolders(s)') = Cardinality(AddrHolders(s)) + 1
      <4>1. IsFiniteSet(AddrHolders(s)) BY <2>1, HoldersFinite
      <4>2. Cardinality(AddrHolders(s) \cup {t}) = Cardinality(AddrHolders(s)) + 1
        BY <3>1, <4>1, FS_AddElement
      <4> QED BY <3>1, <4>2
    <3>3. addrSem'[s] = addrSem[s] + 1 /\ addrSem[s] < AddrConcurrency /\ addrSem[s] \in Int
      BY <1>2, <2>1 DEF Free
    <3>4. addrSem[s] = Cardinality(AddrHolders(s))
      BY <2>1 DEF AddrSlotsAccounted
    <3> QED BY <2>2, <3>2, <3>3, <3>4, LimitsAssumption
  <2>3. CASE r # s
    <3>1. AddrHolders(r)' = AddrHolders(r)
      BY <1>2, <2>1, <2>3 DEF AddrHolders, HoldsAddrAt
    <3>2. addrSem'[r] = addrSem[r]
      BY <1>2, <2>1, <2>3
    <3> QED BY <3>1, <3>2 DEF AddrSlotsAccounted
  <2> QED BY <2>2, <2>3
<1> QED BY <1>1, <1>3

\* One step keeps the accounts.
LEMMA SlotsStep == TypeInv /\ SlotsInv /\ [Next]_vars => SlotsInv'
<1> SUFFICES ASSUME TypeInv, SlotsInv, [Next]_vars PROVE SlotsInv' OBVIOUS
<1> USE DEF TypeInv, TypeOK, SlotsInv, Goto, fields, request, locals, slots, others
<1>1. ASSUME NEW t \in Tasks, StartTask(t)
      PROVE  SlotsInv'
  BY <1>1, SameGlobalHolders, SameAddrHolders
  DEF StartTask, HoldsGlobalAt, HoldsAddrAt
<1>2. ASSUME NEW t \in Tasks, OpenLog(t)
      PROVE  SlotsInv'
  <2>1. /\ pc[t] = "open"
        /\ pc'[t] \in {"step", "failed"}
        /\ \A u \in Tasks \ {t} : pc'[u] = pc[u]
    BY <1>2 DEF OpenLog, LogError
  <2>2. UNCHANGED <<slot, globalSem, addrSem>>
    BY <1>2 DEF OpenLog
  <2>3. GlobalSlotsAccounted'
    BY <2>1, <2>2, SameGlobalHolders DEF HoldsGlobalAt
  <2>4. AddrSlotsAccounted'
    BY <2>1, <2>2, SameAddrHolders DEF HoldsAddrAt
  <2> QED BY <2>3, <2>4
<1>3. ASSUME NEW t \in Tasks, BeginStep(t)
      PROVE  SlotsInv'
  BY <1>3, SameGlobalHolders, SameAddrHolders
  DEF BeginStep, Terminal, HoldsGlobalAt, HoldsAddrAt
<1>4. ASSUME NEW t \in Tasks, MarkQueued(t)
      PROVE  SlotsInv'
  BY <1>4, SameGlobalHolders, SameAddrHolders
  DEF MarkQueued, HoldsGlobalAt, HoldsAddrAt
<1>5. ASSUME NEW t \in Tasks, acquireGlobalSlot(t)
      PROVE  SlotsInv'
  <2> USE <1>5 DEF acquireGlobalSlot
  <2>1. AddrSlotsAccounted'
    BY SameAddrHolders DEF HoldsAddrAt
  <2>2. GlobalSlotsAccounted'
    <3> SUFFICES ASSUME MaxConcurrency > 0
                 PROVE  globalSem' = Cardinality(GlobalHolders') /\ globalSem' <= MaxConcurrency
      BY DEF GlobalSlotsAccounted
    <3>1. GlobalHolders' = GlobalHolders \cup {t} /\ t \notin GlobalHolders
      BY DEF GlobalHolders, HoldsGlobalAt
    <3>2. Cardinality(GlobalHolders') = Cardinality(GlobalHolders) + 1
      BY <3>1, FS_AddElement, HoldersFinite
    <3>3. globalSem' = globalSem + 1 /\ globalSem < MaxConcurrency
      BY LimitsAssumption
    <3> QED BY <3>2, <3>3, LimitsAssumption DEF GlobalSlotsAccounted
  <2> QED BY <2>1, <2>2
<1>6. ASSUME NEW t \in Tasks, GlobalSlotCtxDone(t)
      PROVE  SlotsInv'
  BY <1>6, SameGlobalHolders, SameAddrHolders
  DEF GlobalSlotCtxDone, HoldsGlobalAt, HoldsAddrAt
<1>7. ASSUME NEW t \in Tasks, SnapshotPool(t)
      PROVE  SlotsInv'
  BY <1>7, SameGlobalHolders, SameAddrHolders
  DEF SnapshotPool, HoldsGlobalAt, HoldsAddrAt
<1>8. ASSUME NEW t \in Tasks, pickAvailableAddrSlot(t)
      PROVE  SlotsInv'
  <2>1. CASE TakeSlot(t)
    BY <1>8, <2>1, TakeSlotAccounted DEF pickAvailableAddrSlot
  <2>2. CASE Goto(t, "wait") /\ UNCHANGED <<fields, request, locals, slots, others>>
    BY <1>8, <2>2, SameGlobalHolders, SameAddrHolders
    DEF pickAvailableAddrSlot, HoldsGlobalAt, HoldsAddrAt
  <2> QED BY <1>8, <2>1, <2>2 DEF pickAvailableAddrSlot
<1>9. ASSUME NEW t \in Tasks, WaitAddrSlot(t)
      PROVE  SlotsInv'
  BY <1>9, TakeSlotAccounted DEF WaitAddrSlot
<1>10. ASSUME NEW t \in Tasks, AddrSlotCtxDone(t)
       PROVE  SlotsInv'
  BY <1>10, SameGlobalHolders, SameAddrHolders
  DEF AddrSlotCtxDone, HoldsGlobalAt, HoldsAddrAt
<1>11. ASSUME NEW t \in Tasks, Assign(t)
       PROVE  SlotsInv'
  BY <1>11, SameGlobalHolders, SameAddrHolders
  DEF Assign, HoldsGlobalAt, HoldsAddrAt
<1>12. ASSUME NEW t \in Tasks, NEW e \in Errors, BuildReturns(t, e)
       PROVE  SlotsInv'
  BY <1>12, SameGlobalHolders, SameAddrHolders
  DEF BuildReturns, HoldsGlobalAt, HoldsAddrAt
<1>13. ASSUME NEW t \in Tasks, ReleaseAddrSlot(t)
       PROVE  SlotsInv'
  <2> USE <1>13 DEF ReleaseAddrSlot, HeldSlot
  <2>1. GlobalSlotsAccounted'
    BY SameGlobalHolders DEF HoldsGlobalAt
  <2>2. AddrSlotsAccounted'
    <3> SUFFICES ASSUME NEW r \in Slots
                 PROVE  addrSem'[r] = Cardinality(AddrHolders(r)') /\ addrSem'[r] <= AddrConcurrency
      BY DEF AddrSlotsAccounted
    <3>1. slot[t] \in Slots BY DEF SlotKnown, HoldsAddrAt
    <3>2. CASE r = slot[t]
      <4>1. AddrHolders(r)' = AddrHolders(r) \ {t} /\ t \in AddrHolders(r)
        BY <3>2 DEF AddrHolders, HoldsAddrAt
      <4>2. Cardinality(AddrHolders(r)') = Cardinality(AddrHolders(r)) - 1
        BY <4>1, FS_RemoveElement, HoldersFinite
      <4>3. addrSem'[r] = addrSem[r] - 1 /\ addrSem[r] \in Int
        BY <3>1, <3>2
      <4> QED BY <4>2, <4>3, LimitsAssumption DEF AddrSlotsAccounted
    <3>3. CASE r # slot[t]
      <4>1. AddrHolders(r)' = AddrHolders(r)
        BY <3>3 DEF AddrHolders, HoldsAddrAt
      <4>2. addrSem'[r] = addrSem[r]
        BY <3>1, <3>3
      <4> QED BY <4>1, <4>2 DEF AddrSlotsAccounted
    <3> QED BY <3>2, <3>3
  <2> QED BY <2>1, <2>2
<1>14. ASSUME NEW t \in Tasks, ReleaseGlobalSlot(t)
       PROVE  SlotsInv'
  <2> USE <1>14 DEF ReleaseGlobalSlot
  <2>1. AddrSlotsAccounted'
    BY SameAddrHolders DEF HoldsAddrAt
  <2>2. GlobalSlotsAccounted'
    <3> SUFFICES ASSUME MaxConcurrency > 0
                 PROVE  globalSem' = Cardinality(GlobalHolders') /\ globalSem' <= MaxConcurrency
      BY DEF GlobalSlotsAccounted
    <3>1. GlobalHolders' = GlobalHolders \ {t} /\ t \in GlobalHolders
      BY DEF GlobalHolders, HoldsGlobalAt
    <3>2. Cardinality(GlobalHolders') = Cardinality(GlobalHolders) - 1
      BY <3>1, FS_RemoveElement, HoldersFinite
    <3>3. globalSem' = globalSem - 1
      BY LimitsAssumption
    <3> QED BY <3>2, <3>3, LimitsAssumption DEF GlobalSlotsAccounted
  <2> QED BY <2>1, <2>2
<1>15. ASSUME NEW t \in Tasks, refreshBuildkitAddrs(t)
       PROVE  SlotsInv'
  BY <1>15, SameGlobalHolders, SameAddrHolders
  DEF refreshBuildkitAddrs, replace, HoldsGlobalAt, HoldsAddrAt
<1>16. ASSUME NEW t \in Tasks, JudgeAttempt(t)
       PROVE  SlotsInv'
  <2>1. /\ pc[t] = "judge"
        /\ pc'[t] \in {"step", "retryWait"} \cup Terminal
        /\ \A u \in Tasks \ {t} : pc'[u] = pc[u]
    BY <1>16 DEF JudgeAttempt, Terminal
  <2>2. UNCHANGED <<slot, globalSem, addrSem>>
    BY <1>16 DEF JudgeAttempt
  <2>3. GlobalSlotsAccounted'
    BY <2>1, <2>2, SameGlobalHolders DEF Terminal, HoldsGlobalAt
  <2>4. AddrSlotsAccounted'
    BY <2>1, <2>2, SameAddrHolders DEF Terminal, HoldsAddrAt
  <2> QED BY <2>3, <2>4
<1>17. ASSUME NEW t \in Tasks, waitRetryInterval(t)
       PROVE  SlotsInv'
  <2>1. /\ pc[t] = "retryWait"
        /\ pc'[t] \in {"mark", "canceled"}
        /\ \A u \in Tasks \ {t} : pc'[u] = pc[u]
    BY <1>17 DEF waitRetryInterval
  <2>2. UNCHANGED <<slot, globalSem, addrSem>>
    BY <1>17 DEF waitRetryInterval
  <2>3. GlobalSlotsAccounted'
    BY <2>1, <2>2, SameGlobalHolders DEF HoldsGlobalAt
  <2>4. AddrSlotsAccounted'
    BY <2>1, <2>2, SameAddrHolders DEF HoldsAddrAt
  <2> QED BY <2>3, <2>4
<1>18. ASSUME NEW t \in Tasks, FinishTask(t)
       PROVE  SlotsInv'
  BY <1>18, SameGlobalHolders, SameAddrHolders
  DEF FinishTask, Terminal, HoldsGlobalAt, HoldsAddrAt
<1>19. ASSUME NEW t \in Tasks, CloseDone(t)
       PROVE  SlotsInv'
  BY <1>19, SameGlobalHolders, SameAddrHolders
  DEF CloseDone, HoldsGlobalAt, HoldsAddrAt
<1>20. ASSUME NEW t \in Tasks, CancelCtx(t)
       PROVE  SlotsInv'
  BY <1>20, SameGlobalHolders, SameAddrHolders
  DEF CancelCtx, HoldsGlobalAt, HoldsAddrAt
<1>21. ASSUME NEW t \in Tasks, CancelFinish(t)
       PROVE  SlotsInv'
  BY <1>21, SameGlobalHolders, SameAddrHolders
  DEF CancelFinish, HoldsGlobalAt, HoldsAddrAt
<1>22. ASSUME NEW t \in Tasks, SyncReply(t)
       PROVE  SlotsInv'
  BY <1>22, SameGlobalHolders, SameAddrHolders
  DEF SyncReply, HoldsGlobalAt, HoldsAddrAt
<1>23. ASSUME NEW t \in Tasks, NEW k \in ImageTypes, NEW r \in 0..MaxRetry,
             NEW sync \in SyncModes, HandleCreateBuild(t, k, r, sync)
       PROVE  SlotsInv'
  BY <1>23, SameGlobalHolders, SameAddrHolders
  DEF HandleCreateBuild, HoldsGlobalAt, HoldsAddrAt
<1>24. ASSUME NEW t \in Tasks, StoreCancel(t)
       PROVE  SlotsInv'
  BY <1>24, SameGlobalHolders, SameAddrHolders
  DEF StoreCancel, HoldsGlobalAt, HoldsAddrAt
<1>25. ASSUME NEW t \in Tasks, CtxExpires(t)
       PROVE  SlotsInv'
  BY <1>25, SameGlobalHolders, SameAddrHolders
  DEF CtxExpires, HoldsGlobalAt, HoldsAddrAt
<1>26. ASSUME NEW t \in Tasks, SyncDisconnect(t)
       PROVE  SlotsInv'
  BY <1>26, SameGlobalHolders, SameAddrHolders
  DEF SyncDisconnect, HoldsGlobalAt, HoldsAddrAt
<1>27. ASSUME NEW S \in SUBSET Tasks, deleteExpired(S)
       PROVE  SlotsInv'
  <2>1. UNCHANGED <<pc, slot, globalSem, addrSem>>
    BY <1>27 DEF deleteExpired
  <2> QED BY <2>1
      DEF GlobalSlotsAccounted, AddrSlotsAccounted, GlobalHolders, AddrHolders
<1>28. ASSUME NEW t \in Tasks, cleanupTaskWorkDir(t)
       PROVE  SlotsInv'
  BY <1>28, SameGlobalHolders, SameAddrHolders
  DEF cleanupTaskWorkDir, HoldsGlobalAt, HoldsAddrAt
<1>29. ASSUME RefreshAddrs
       PROVE  SlotsInv'
  <2>1. UNCHANGED <<pc, slot, globalSem, addrSem>>
    BY <1>29 DEF RefreshAddrs, replace
  <2> QED BY <2>1
      DEF GlobalSlotsAccounted, AddrSlotsAccounted, GlobalHolders, AddrHolders
<1>30. CASE UNCHANGED vars
  BY <1>30
  DEF vars, GlobalSlotsAccounted, AddrSlotsAccounted, GlobalHolders,
    AddrHolders
<1> QED
  BY <1>1, <1>2, <1>3, <1>4, <1>5, <1>6, <1>7, <1>8, <1>9, <1>10, <1>11, <1>12, <1>13, <1>14, <1>15, <1>16, <1>17, <1>18, <1>19, <1>20, <1>21, <1>22, <1>23, <1>24, <1>25, <1>26, <1>27, <1>28, <1>29, <1>30
  DEF Next, Goroutine, Handlers, Environment

\* The cap --max-concurrency: the global semaphore has exactly one token per
\* goroutine between acquireGlobalSlot and releaseGlobal, on every path.
THEOREM GlobalSlots == Spec => []GlobalSlotsAccounted
<1> QED BY TypeInit, TypeStep, SlotsInit, SlotsStep, PTL DEF Spec, SlotsInv

\* The cap --addr-concurrency: a slot has exactly one token per goroutine that
\* took it, also after the pool has dropped the slot or made another one for
\* its address.
THEOREM AddrSlots == Spec => []AddrSlotsAccounted
<1> QED BY TypeInit, TypeStep, SlotsInit, SlotsStep, PTL DEF Spec, SlotsInv

-----------------------------------------------------------------------------
(* Statuses.                                                               *)

\* A task that has not been created is nowhere, and one that is in the store
\* has a status.
NewIsUntouched ==
    \A t \in Tasks :
        /\ pc[t] = "new" =>
              /\ t \notin tasks
              /\ status[t] = "none"
              /\ ~observed[t]
              /\ addr[t] = NoAddr
        /\ t \in tasks => status[t] # "none"

\* Only store.cancel ends a task without setting observed.
OutcomeIsObserved ==
    \A t \in Tasks :
        /\ status[t] \in {"succeeded", "failed"} => observed[t]
        /\ observed[t] => status[t] \in Terminal

\* The goroutine closes done only after the task has ended, or is gone.
CloseAfterEnd ==
    \A t \in Tasks : pc[t] \in {"close", "end"} /\ t \in tasks => status[t] \in Terminal

\* What the reaper removes has ended.
ReapedHasEnded == \A t \in reaping : status[t] \in Terminal

StatusInv ==
    /\ NewIsUntouched
    /\ OutcomeIsObserved
    /\ CloseAfterEnd
    /\ DoneMeansTerminal
    /\ ReapedHasEnded
    /\ ActiveKeepsWorkDir
    /\ AddrMatchesStatus

\* The step formula of TerminalStatusIsFinal.
StatusKept == \A t \in Tasks : status[t] \in Terminal => status'[t] = status[t]

\* The initial states satisfy StatusInv.
LEMMA StatusInit == Init => StatusInv
<1> SUFFICES ASSUME Init PROVE StatusInv OBVIOUS
<1> USE DEF Init
<1>1. NewIsUntouched /\ OutcomeIsObserved /\ CloseAfterEnd
  BY DEF NewIsUntouched, OutcomeIsObserved, CloseAfterEnd, Terminal
<1>2. DoneMeansTerminal /\ ReapedHasEnded /\ ActiveKeepsWorkDir /\ AddrMatchesStatus
  BY DEF DoneMeansTerminal, ReapedHasEnded, ActiveKeepsWorkDir, AddrMatchesStatus, Active
<1> QED BY <1>1, <1>2 DEF StatusInv

\* A step keeps StatusInv, and the status of a task that has ended.
LEMMA StatusStep == TypeInv /\ StatusInv /\ [Next]_vars => StatusInv' /\ StatusKept
<1> SUFFICES ASSUME TypeInv, StatusInv, [Next]_vars PROVE StatusInv' /\ StatusKept
  OBVIOUS
<1> USE DEF TypeInv, TypeOK, StatusInv, Goto, fields, request, locals, slots, others,
        Active, Terminal
<1>1. ASSUME NEW t \in Tasks, StartTask(t)
      PROVE  StatusInv' /\ StatusKept
  BY <1>1
  DEF StartTask, StatusKept, NewIsUntouched, OutcomeIsObserved, CloseAfterEnd,
    DoneMeansTerminal, ReapedHasEnded, ActiveKeepsWorkDir, AddrMatchesStatus
<1>2. ASSUME NEW t \in Tasks, OpenLog(t)
      PROVE  StatusInv' /\ StatusKept
  BY <1>2
  DEF OpenLog, LogError, StatusKept, NewIsUntouched, OutcomeIsObserved,
    CloseAfterEnd, DoneMeansTerminal, ReapedHasEnded, ActiveKeepsWorkDir,
    AddrMatchesStatus
<1>3. ASSUME NEW t \in Tasks, BeginStep(t)
      PROVE  StatusInv' /\ StatusKept
  BY <1>3
  DEF BeginStep, StatusKept, NewIsUntouched, OutcomeIsObserved, CloseAfterEnd,
    DoneMeansTerminal, ReapedHasEnded, ActiveKeepsWorkDir, AddrMatchesStatus
<1>4. ASSUME NEW t \in Tasks, MarkQueued(t)
      PROVE  StatusInv' /\ StatusKept
  <2>1. NewIsUntouched' /\ OutcomeIsObserved' /\ StatusKept
    BY <1>4
    DEF MarkQueued, markTaskQueued, ClearAddr, NewIsUntouched,
      OutcomeIsObserved, StatusKept
  <2>2. CloseAfterEnd' /\ DoneMeansTerminal'
    BY <1>4
    DEF MarkQueued, markTaskQueued, ClearAddr, CloseAfterEnd,
      DoneMeansTerminal
  <2>3. ReapedHasEnded' /\ ActiveKeepsWorkDir'
    BY <1>4
    DEF MarkQueued, markTaskQueued, ClearAddr, ReapedHasEnded,
      ActiveKeepsWorkDir
  <2>4. AddrMatchesStatus'
    BY <1>4 DEF MarkQueued, markTaskQueued, ClearAddr, AddrMatchesStatus
  <2> QED BY <2>1, <2>2, <2>3, <2>4
<1>5. ASSUME NEW t \in Tasks, acquireGlobalSlot(t)
      PROVE  StatusInv' /\ StatusKept
  BY <1>5
  DEF acquireGlobalSlot, StatusKept, NewIsUntouched, OutcomeIsObserved,
    CloseAfterEnd, DoneMeansTerminal, ReapedHasEnded, ActiveKeepsWorkDir,
    AddrMatchesStatus
<1>6. ASSUME NEW t \in Tasks, GlobalSlotCtxDone(t)
      PROVE  StatusInv' /\ StatusKept
  BY <1>6
  DEF GlobalSlotCtxDone, StatusKept, NewIsUntouched, OutcomeIsObserved,
    CloseAfterEnd, DoneMeansTerminal, ReapedHasEnded, ActiveKeepsWorkDir,
    AddrMatchesStatus
<1>7. ASSUME NEW t \in Tasks, SnapshotPool(t)
      PROVE  StatusInv' /\ StatusKept
  BY <1>7
  DEF SnapshotPool, StatusKept, NewIsUntouched, OutcomeIsObserved,
    CloseAfterEnd, DoneMeansTerminal, ReapedHasEnded, ActiveKeepsWorkDir,
    AddrMatchesStatus
<1>8. ASSUME NEW t \in Tasks, pickAvailableAddrSlot(t)
      PROVE  StatusInv' /\ StatusKept
  BY <1>8
  DEF pickAvailableAddrSlot, TakeSlot, StatusKept, NewIsUntouched,
    OutcomeIsObserved, CloseAfterEnd, DoneMeansTerminal, ReapedHasEnded,
    ActiveKeepsWorkDir, AddrMatchesStatus
<1>9. ASSUME NEW t \in Tasks, WaitAddrSlot(t)
      PROVE  StatusInv' /\ StatusKept
  BY <1>9
  DEF WaitAddrSlot, TakeSlot, StatusKept, NewIsUntouched, OutcomeIsObserved,
    CloseAfterEnd, DoneMeansTerminal, ReapedHasEnded, ActiveKeepsWorkDir,
    AddrMatchesStatus
<1>10. ASSUME NEW t \in Tasks, AddrSlotCtxDone(t)
       PROVE  StatusInv' /\ StatusKept
  BY <1>10
  DEF AddrSlotCtxDone, StatusKept, NewIsUntouched, OutcomeIsObserved,
    CloseAfterEnd, DoneMeansTerminal, ReapedHasEnded, ActiveKeepsWorkDir,
    AddrMatchesStatus
<1>11. ASSUME NEW t \in Tasks, Assign(t)
       PROVE  StatusInv' /\ StatusKept
  <2> USE DEF Assign, Assignable
  <2>1. NewIsUntouched' /\ OutcomeIsObserved' /\ StatusKept
    BY <1>11 DEF NewIsUntouched, OutcomeIsObserved, StatusKept
  <2>2. CloseAfterEnd' /\ DoneMeansTerminal'
    BY <1>11, <2>1 DEF CloseAfterEnd, DoneMeansTerminal, StatusKept
  <2>3. ReapedHasEnded' /\ ActiveKeepsWorkDir'
    <3>1. ReapedHasEnded'
      BY <1>11, <2>1 DEF ReapedHasEnded, StatusKept
    <3>2. ActiveKeepsWorkDir'
      <4>1. CASE ~Assignable(t) BY <1>11, <4>1 DEF ActiveKeepsWorkDir
      <4>2. CASE Assignable(t)
        <5>1. status[t] \in Active
          BY <1>11, <4>2 DEF NewIsUntouched, OutcomeIsObserved, Status
        <5> QED BY <1>11, <4>2, <5>1 DEF ActiveKeepsWorkDir
      <4> QED BY <4>1, <4>2
    <3> QED BY <3>1, <3>2
  <2>4. AddrMatchesStatus'
    BY <1>11, NoAddrAssumption
    DEF SlotKnown, HoldsAddrAt, Slots, AddrMatchesStatus
  <2> QED BY <2>1, <2>2, <2>3, <2>4
<1>12. ASSUME NEW t \in Tasks, NEW e \in Errors, BuildReturns(t, e)
       PROVE  StatusInv' /\ StatusKept
  BY <1>12
  DEF BuildReturns, StatusKept, NewIsUntouched, OutcomeIsObserved,
    CloseAfterEnd, DoneMeansTerminal, ReapedHasEnded, ActiveKeepsWorkDir,
    AddrMatchesStatus
<1>13. ASSUME NEW t \in Tasks, ReleaseAddrSlot(t)
       PROVE  StatusInv' /\ StatusKept
  BY <1>13
  DEF ReleaseAddrSlot, StatusKept, NewIsUntouched, OutcomeIsObserved,
    CloseAfterEnd, DoneMeansTerminal, ReapedHasEnded, ActiveKeepsWorkDir,
    AddrMatchesStatus
<1>14. ASSUME NEW t \in Tasks, ReleaseGlobalSlot(t)
       PROVE  StatusInv' /\ StatusKept
  BY <1>14
  DEF ReleaseGlobalSlot, StatusKept, NewIsUntouched, OutcomeIsObserved,
    CloseAfterEnd, DoneMeansTerminal, ReapedHasEnded, ActiveKeepsWorkDir,
    AddrMatchesStatus
<1>15. ASSUME NEW t \in Tasks, refreshBuildkitAddrs(t)
       PROVE  StatusInv' /\ StatusKept
  BY <1>15
  DEF refreshBuildkitAddrs, replace, StatusKept, NewIsUntouched,
    OutcomeIsObserved, CloseAfterEnd, DoneMeansTerminal, ReapedHasEnded,
    ActiveKeepsWorkDir, AddrMatchesStatus
<1>16. ASSUME NEW t \in Tasks, JudgeAttempt(t)
       PROVE  StatusInv' /\ StatusKept
  <2>1. NewIsUntouched' /\ OutcomeIsObserved' /\ StatusKept
    BY <1>16
    DEF JudgeAttempt, markTaskQueued, ClearAddr, NewIsUntouched,
      OutcomeIsObserved, StatusKept
  <2>2. CloseAfterEnd' /\ DoneMeansTerminal'
    BY <1>16
    DEF JudgeAttempt, markTaskQueued, ClearAddr, CloseAfterEnd,
      DoneMeansTerminal
  <2>3. ReapedHasEnded' /\ ActiveKeepsWorkDir'
    BY <1>16
    DEF JudgeAttempt, markTaskQueued, ClearAddr, ReapedHasEnded,
      ActiveKeepsWorkDir
  <2>4. AddrMatchesStatus'
    BY <1>16 DEF JudgeAttempt, markTaskQueued, ClearAddr, AddrMatchesStatus
  <2> QED BY <2>1, <2>2, <2>3, <2>4
<1>17. ASSUME NEW t \in Tasks, waitRetryInterval(t)
       PROVE  StatusInv' /\ StatusKept
  BY <1>17
  DEF waitRetryInterval, StatusKept, NewIsUntouched, OutcomeIsObserved,
    CloseAfterEnd, DoneMeansTerminal, ReapedHasEnded, ActiveKeepsWorkDir,
    AddrMatchesStatus
<1>18. ASSUME NEW t \in Tasks, FinishTask(t)
       PROVE  StatusInv' /\ StatusKept
  <2> USE DEF FinishTask, finishTask
  <2>1. NewIsUntouched' /\ OutcomeIsObserved' /\ StatusKept
    BY <1>18 DEF MayFinish, NewIsUntouched, OutcomeIsObserved, StatusKept
  <2>2. t \in tasks => status'[t] \in Terminal
    <3>1. CASE MayFinish(t, pc[t]) BY <1>18, <3>1
    <3>2. CASE ~MayFinish(t, pc[t])
      BY <1>18, <3>2 DEF MayFinish, OutcomeIsObserved
    <3> QED BY <3>1, <3>2
  <2>3. CloseAfterEnd' /\ DoneMeansTerminal'
    <3>1. \A u \in Tasks \ {t} : status'[u] = status[u] /\ pc'[u] = pc[u]
      BY <1>18
    <3>2. tasks' = tasks /\ done' = done BY <1>18
    <3> QED BY <2>1, <2>2, <3>1, <3>2 DEF CloseAfterEnd, DoneMeansTerminal, StatusKept
  <2>4. ReapedHasEnded' /\ ActiveKeepsWorkDir'
    BY <1>18, <2>1 DEF ReapedHasEnded, ActiveKeepsWorkDir, StatusKept
  <2>5. AddrMatchesStatus'
    BY <1>18 DEF AddrMatchesStatus
  <2> QED BY <2>1, <2>3, <2>4, <2>5
<1>19. ASSUME NEW t \in Tasks, CloseDone(t)
       PROVE  StatusInv' /\ StatusKept
  BY <1>19
  DEF CloseDone, StatusKept, NewIsUntouched, OutcomeIsObserved, CloseAfterEnd,
    DoneMeansTerminal, ReapedHasEnded, ActiveKeepsWorkDir, AddrMatchesStatus
<1>20. ASSUME NEW t \in Tasks, CancelCtx(t)
       PROVE  StatusInv' /\ StatusKept
  BY <1>20
  DEF CancelCtx, StatusKept, NewIsUntouched, OutcomeIsObserved, CloseAfterEnd,
    DoneMeansTerminal, ReapedHasEnded, ActiveKeepsWorkDir, AddrMatchesStatus
<1>21. ASSUME NEW t \in Tasks, CancelFinish(t)
       PROVE  StatusInv' /\ StatusKept
  <2> USE DEF CancelFinish, finishTask
  <2>1. NewIsUntouched' /\ OutcomeIsObserved' /\ StatusKept
    BY <1>21 DEF MayFinish, NewIsUntouched, OutcomeIsObserved, StatusKept
  <2>2. CloseAfterEnd' /\ DoneMeansTerminal'
    BY <1>21, <2>1 DEF CloseAfterEnd, DoneMeansTerminal, StatusKept
  <2>3. ReapedHasEnded' /\ ActiveKeepsWorkDir'
    BY <1>21, <2>1 DEF ReapedHasEnded, ActiveKeepsWorkDir, StatusKept
  <2>4. AddrMatchesStatus'
    BY <1>21 DEF AddrMatchesStatus
  <2> QED BY <2>1, <2>2, <2>3, <2>4
<1>22. ASSUME NEW t \in Tasks, SyncReply(t)
       PROVE  StatusInv' /\ StatusKept
  BY <1>22
  DEF SyncReply, StatusKept, NewIsUntouched, OutcomeIsObserved, CloseAfterEnd,
    DoneMeansTerminal, ReapedHasEnded, ActiveKeepsWorkDir, AddrMatchesStatus
<1>23. ASSUME NEW t \in Tasks, NEW k \in ImageTypes, NEW r \in 0..MaxRetry,
             NEW sync \in SyncModes, HandleCreateBuild(t, k, r, sync)
       PROVE  StatusInv' /\ StatusKept
  BY <1>23
  DEF HandleCreateBuild, StatusKept, NewIsUntouched, OutcomeIsObserved,
    CloseAfterEnd, DoneMeansTerminal, ReapedHasEnded, ActiveKeepsWorkDir,
    AddrMatchesStatus
<1>24. ASSUME NEW t \in Tasks, StoreCancel(t)
       PROVE  StatusInv' /\ StatusKept
  <2> USE DEF StoreCancel
  <2>1. NewIsUntouched' /\ StatusKept
    BY <1>24 DEF NewIsUntouched, StatusKept
  <2>2. OutcomeIsObserved'
    BY <1>24, <2>1 DEF OutcomeIsObserved, StatusKept
  <2>3. CloseAfterEnd' /\ DoneMeansTerminal'
    BY <1>24, <2>1 DEF CloseAfterEnd, DoneMeansTerminal, StatusKept
  <2>4. ReapedHasEnded' /\ ActiveKeepsWorkDir'
    BY <1>24, <2>1 DEF ReapedHasEnded, ActiveKeepsWorkDir, StatusKept
  <2>5. AddrMatchesStatus'
    BY <1>24 DEF AddrMatchesStatus
  <2> QED BY <2>1, <2>2, <2>3, <2>4, <2>5
<1>25. ASSUME NEW t \in Tasks, CtxExpires(t)
       PROVE  StatusInv' /\ StatusKept
  BY <1>25
  DEF CtxExpires, StatusKept, NewIsUntouched, OutcomeIsObserved,
    CloseAfterEnd, DoneMeansTerminal, ReapedHasEnded, ActiveKeepsWorkDir,
    AddrMatchesStatus
<1>26. ASSUME NEW t \in Tasks, SyncDisconnect(t)
       PROVE  StatusInv' /\ StatusKept
  BY <1>26
  DEF SyncDisconnect, StatusKept, NewIsUntouched, OutcomeIsObserved,
    CloseAfterEnd, DoneMeansTerminal, ReapedHasEnded, ActiveKeepsWorkDir,
    AddrMatchesStatus
<1>27. ASSUME NEW S \in SUBSET Tasks, deleteExpired(S)
       PROVE  StatusInv' /\ StatusKept
  BY <1>27
  DEF deleteExpired, Expired, StatusKept, NewIsUntouched, OutcomeIsObserved,
    CloseAfterEnd, DoneMeansTerminal, ReapedHasEnded, ActiveKeepsWorkDir,
    AddrMatchesStatus
<1>28. ASSUME NEW t \in Tasks, cleanupTaskWorkDir(t)
       PROVE  StatusInv' /\ StatusKept
  BY <1>28
  DEF cleanupTaskWorkDir, StatusKept, NewIsUntouched, OutcomeIsObserved,
    CloseAfterEnd, DoneMeansTerminal, ReapedHasEnded, ActiveKeepsWorkDir,
    AddrMatchesStatus
<1>29. ASSUME RefreshAddrs
       PROVE  StatusInv' /\ StatusKept
  BY <1>29
  DEF RefreshAddrs, replace, StatusKept, NewIsUntouched, OutcomeIsObserved,
    CloseAfterEnd, DoneMeansTerminal, ReapedHasEnded, ActiveKeepsWorkDir,
    AddrMatchesStatus
<1>30. CASE UNCHANGED vars
  BY <1>30
  DEF vars, StatusKept, NewIsUntouched, OutcomeIsObserved, CloseAfterEnd,
    DoneMeansTerminal, ReapedHasEnded, ActiveKeepsWorkDir, AddrMatchesStatus
<1> QED
  BY <1>1, <1>2, <1>3, <1>4, <1>5, <1>6, <1>7, <1>8, <1>9, <1>10, <1>11, <1>12, <1>13, <1>14, <1>15, <1>16, <1>17, <1>18, <1>19, <1>20, <1>21, <1>22, <1>23, <1>24, <1>25, <1>26, <1>27, <1>28, <1>29, <1>30
  DEF Next, Goroutine, Handlers, Environment

-----------------------------------------------------------------------------
(* Counters.                                                               *)

Counted(s) == {t \in Tasks : observed[t] /\ status[t] = s}

\* finishTask counts a task when it is observed for the first time.
LEMMA FinishCounts ==
    ASSUME TypeInv, EachOutcomeCountedOnce,
           NEW t \in Tasks, NEW s \in Terminal, finishTask(t, s)
    PROVE  EachOutcomeCountedOnce'
<1> USE DEF TypeInv, TypeOK, finishTask
<1>1. CASE ~MayFinish(t, s)
  BY <1>1 DEF EachOutcomeCountedOnce
<1>2. CASE MayFinish(t, s)
  <2> SUFFICES ASSUME NEW r \in Terminal PROVE metrics'[r] = Cardinality(Counted(r)')
    BY DEF EachOutcomeCountedOnce, Counted
  <2>1. metrics[r] = Cardinality(Counted(r))
    BY DEF EachOutcomeCountedOnce, Counted
  <2>2. ~observed[t]
    BY <1>2 DEF MayFinish
  <2>3. CASE r = s
    <3>1. Counted(r)' = Counted(r) \cup {t} /\ t \notin Counted(r)
      BY <1>2, <2>2, <2>3 DEF Counted
    <3>2. IsFiniteSet(Counted(r))
      BY TasksFinite, FS_Subset DEF Counted
    <3>3. Cardinality(Counted(r) \cup {t}) = Cardinality(Counted(r)) + 1
      BY <3>1, <3>2, FS_AddElement
    <3>4. metrics'[r] = metrics[r] + 1
      BY <1>2, <2>3
    <3> QED BY <2>1, <3>1, <3>3, <3>4
  <2>4. CASE r # s
    <3>1. Counted(r)' = Counted(r)
      BY <1>2, <2>2, <2>4 DEF Counted
    <3>2. metrics'[r] = metrics[r]
      BY <1>2, <2>4
    <3> QED BY <2>1, <3>1, <3>2
  <2> QED BY <2>3, <2>4
<1> QED BY <1>1, <1>2

\* Only finishTask changes observed and the counters.
LEMMA WhoObserves ==
    [Next]_vars =>
        \/ UNCHANGED <<observed, metrics>>
        \/ \E t \in Tasks, s \in Terminal : finishTask(t, s)
<1> DEFINE Goal == \/ UNCHANGED <<observed, metrics>>
                   \/ \E t \in Tasks, s \in Terminal : finishTask(t, s)
<1> SUFFICES ASSUME [Next]_vars PROVE Goal OBVIOUS
<1> USE DEF fields, others
<1>1. ASSUME NEW t \in Tasks, StartTask(t)
      PROVE  Goal
  BY <1>1 DEF StartTask
<1>2. ASSUME NEW t \in Tasks, OpenLog(t)
      PROVE  Goal
  BY <1>2 DEF OpenLog
<1>3. ASSUME NEW t \in Tasks, BeginStep(t)
      PROVE  Goal
  BY <1>3 DEF BeginStep
<1>4. ASSUME NEW t \in Tasks, MarkQueued(t)
      PROVE  Goal
  BY <1>4 DEF MarkQueued
<1>5. ASSUME NEW t \in Tasks, acquireGlobalSlot(t)
      PROVE  Goal
  BY <1>5 DEF acquireGlobalSlot
<1>6. ASSUME NEW t \in Tasks, GlobalSlotCtxDone(t)
      PROVE  Goal
  BY <1>6 DEF GlobalSlotCtxDone
<1>7. ASSUME NEW t \in Tasks, SnapshotPool(t)
      PROVE  Goal
  BY <1>7 DEF SnapshotPool
<1>8. ASSUME NEW t \in Tasks, pickAvailableAddrSlot(t)
      PROVE  Goal
  BY <1>8 DEF pickAvailableAddrSlot, TakeSlot
<1>9. ASSUME NEW t \in Tasks, WaitAddrSlot(t)
      PROVE  Goal
  BY <1>9 DEF WaitAddrSlot, TakeSlot
<1>10. ASSUME NEW t \in Tasks, AddrSlotCtxDone(t)
       PROVE  Goal
  BY <1>10 DEF AddrSlotCtxDone
<1>11. ASSUME NEW t \in Tasks, Assign(t)
       PROVE  Goal
  BY <1>11 DEF Assign
<1>12. ASSUME NEW t \in Tasks, NEW e \in Errors, BuildReturns(t, e)
       PROVE  Goal
  BY <1>12 DEF BuildReturns
<1>13. ASSUME NEW t \in Tasks, ReleaseAddrSlot(t)
       PROVE  Goal
  BY <1>13 DEF ReleaseAddrSlot
<1>14. ASSUME NEW t \in Tasks, ReleaseGlobalSlot(t)
       PROVE  Goal
  BY <1>14 DEF ReleaseGlobalSlot
<1>15. ASSUME NEW t \in Tasks, refreshBuildkitAddrs(t)
       PROVE  Goal
  BY <1>15 DEF refreshBuildkitAddrs
<1>16. ASSUME NEW t \in Tasks, JudgeAttempt(t)
       PROVE  Goal
  BY <1>16 DEF JudgeAttempt
<1>17. ASSUME NEW t \in Tasks, waitRetryInterval(t)
       PROVE  Goal
  BY <1>17 DEF waitRetryInterval
<1>18. ASSUME NEW t \in Tasks, FinishTask(t)
       PROVE  Goal
  BY <1>18 DEF FinishTask
<1>19. ASSUME NEW t \in Tasks, CloseDone(t)
       PROVE  Goal
  BY <1>19 DEF CloseDone
<1>20. ASSUME NEW t \in Tasks, CancelCtx(t)
       PROVE  Goal
  BY <1>20 DEF CancelCtx
<1>21. ASSUME NEW t \in Tasks, CancelFinish(t)
       PROVE  Goal
  BY <1>21 DEF CancelFinish, Terminal
<1>22. ASSUME NEW t \in Tasks, SyncReply(t)
       PROVE  Goal
  BY <1>22 DEF SyncReply
<1>23. ASSUME NEW t \in Tasks, NEW k \in ImageTypes, NEW r \in 0..MaxRetry,
             NEW sync \in SyncModes, HandleCreateBuild(t, k, r, sync)
       PROVE  Goal
  BY <1>23 DEF HandleCreateBuild
<1>24. ASSUME NEW t \in Tasks, StoreCancel(t)
       PROVE  Goal
  BY <1>24 DEF StoreCancel
<1>25. ASSUME NEW t \in Tasks, CtxExpires(t)
       PROVE  Goal
  BY <1>25 DEF CtxExpires
<1>26. ASSUME NEW t \in Tasks, SyncDisconnect(t)
       PROVE  Goal
  BY <1>26 DEF SyncDisconnect
<1>27. ASSUME NEW S \in SUBSET Tasks, deleteExpired(S)
       PROVE  Goal
  BY <1>27 DEF deleteExpired
<1>28. ASSUME NEW t \in Tasks, cleanupTaskWorkDir(t)
       PROVE  Goal
  BY <1>28 DEF cleanupTaskWorkDir
<1>29. ASSUME RefreshAddrs
       PROVE  Goal
  BY <1>29 DEF RefreshAddrs
<1>30. CASE UNCHANGED vars
  BY <1>30 DEF vars
<1> QED
  BY <1>1, <1>2, <1>3, <1>4, <1>5, <1>6, <1>7, <1>8, <1>9, <1>10, <1>11, <1>12, <1>13, <1>14, <1>15, <1>16, <1>17, <1>18, <1>19, <1>20, <1>21, <1>22, <1>23, <1>24, <1>25, <1>26, <1>27, <1>28, <1>29, <1>30
  DEF Next, Goroutine, Handlers, Environment

\* A step that ends no task keeps the counters right because statuses are final.
LEMMA CountStep ==
    ASSUME TypeInv, StatusInv, EachOutcomeCountedOnce, [Next]_vars
    PROVE  EachOutcomeCountedOnce'
<1>1. CASE UNCHANGED <<observed, metrics>>
  <2>1. StatusKept BY StatusStep
  <2>2. \A s \in Terminal : Counted(s)' = Counted(s)
    <3> SUFFICES ASSUME NEW s \in Terminal, NEW t \in Tasks
                 PROVE  t \in Counted(s)' <=> t \in Counted(s)
      BY DEF Counted
    <3>1. CASE observed[t]
      <4>1. status'[t] = status[t]
        BY <2>1, <3>1 DEF StatusInv, OutcomeIsObserved, StatusKept
      <4> QED BY <1>1, <4>1 DEF Counted
    <3>2. CASE ~observed[t]
      BY <1>1, <3>2 DEF Counted
    <3> QED BY <3>1, <3>2
  <2> QED BY <1>1, <2>2 DEF EachOutcomeCountedOnce, Counted
<1>2. CASE \E t \in Tasks, s \in Terminal : finishTask(t, s)
  BY <1>2, FinishCounts
<1> QED BY <1>1, <1>2, WhoObserves

\* At the start nothing is counted.
LEMMA CountInit == Init => EachOutcomeCountedOnce
<1> SUFFICES ASSUME Init PROVE EachOutcomeCountedOnce OBVIOUS
<1>1. \A s \in Terminal : {t \in Tasks : observed[t] /\ status[t] = s} = {}
  BY DEF Init
<1>2. \A s \in Terminal : metrics[s] = 0
  BY DEF Init
<1> QED BY <1>1, <1>2, FS_EmptySet DEF EachOutcomeCountedOnce

-----------------------------------------------------------------------------
(* What has been built.                                                    *)

\* The format of the step the goroutine is at, and whether nothing is missing.
StepFormat(t) == IF kind[t] = "both" THEN IF step[t] = 1 THEN "oci" ELSE "nydus"
                                     ELSE kind[t]
AllBuilt(t) == IF kind[t] = "both" THEN "oci" \in built[t] /\ "nydus" \in built[t]
                                   ELSE kind[t] \in built[t]

\* What each program point knows of the formats built so far.
Progress ==
    \A t \in Tasks :
        /\ pc[t] = "new" => built[t] = {}
        /\ step[t] = 2 => "oci" \in built[t]
        /\ pc[t] \in {"relAddr", "relGlobal", "judge"} /\ err[t] = "none" =>
              StepFormat(t) \in built[t]
        /\ pc[t] = "succeeded" => AllBuilt(t)
        /\ status[t] = "succeeded" => AllBuilt(t)
        /\ kind[t] = "both" /\ "nydus" \in built[t] => "oci" \in built[t]

\* The definitions above agree with the list of steps of the code.
LEMMA FormatsOfSteps ==
    ASSUME TypeInv, NEW t \in Tasks
    PROVE  /\ buildStepsForImageType(kind[t])[step[t]] = StepFormat(t)
           /\ AllBuilt(t) => \A i \in DOMAIN buildStepsForImageType(kind[t]) :
                                 buildStepsForImageType(kind[t])[i] \in built[t]
           /\ LastStep(t) <=> (kind[t] = "both" => step[t] = 2)
<1>1. /\ kind[t] \in {"oci", "nydus", "both"}
      /\ step[t] = 1 \/ step[t] = 2
      /\ step[t] = 2 => kind[t] = "both"
  BY DEF TypeInv, TypeOK, StepInRange
<1>2. kind[t] = "oci" => buildStepsForImageType(kind[t]) = <<"oci">>
  BY DEF buildStepsForImageType
<1>3. kind[t] = "nydus" => buildStepsForImageType(kind[t]) = <<"nydus">>
  BY DEF buildStepsForImageType
<1>4. kind[t] = "both" => buildStepsForImageType(kind[t]) = <<"oci", "nydus">>
  BY DEF buildStepsForImageType
<1>5. buildStepsForImageType(kind[t])[step[t]] = StepFormat(t)
  BY <1>1, <1>2, <1>3, <1>4 DEF StepFormat
<1>6. AllBuilt(t) => \A i \in DOMAIN buildStepsForImageType(kind[t]) :
                         buildStepsForImageType(kind[t])[i] \in built[t]
  BY <1>1, <1>2, <1>3, <1>4 DEF AllBuilt
<1>7. LastStep(t) <=> (kind[t] = "both" => step[t] = 2)
  BY <1>1, <1>2, <1>3, <1>4 DEF LastStep
<1> QED BY <1>5, <1>6, <1>7

\* At the start nothing is built.
LEMMA ProgressInit == Init => Progress
BY DEF Init, Progress

\* One step keeps Progress.
LEMMA ProgressStep == ASSUME TypeInv, Progress, [Next]_vars PROVE Progress'
<1> USE DEF TypeInv, TypeOK, Progress, StepFormat, AllBuilt, Goto, fields, request, locals,
        slots, others
<1>1. ASSUME NEW t \in Tasks, StartTask(t)
      PROVE  Progress'
  BY <1>1 DEF StartTask
<1>2. ASSUME NEW t \in Tasks, OpenLog(t)
      PROVE  Progress'
  BY <1>2 DEF OpenLog, LogError
<1>3. ASSUME NEW t \in Tasks, BeginStep(t)
      PROVE  Progress'
  BY <1>3 DEF BeginStep
<1>4. ASSUME NEW t \in Tasks, MarkQueued(t)
      PROVE  Progress'
  BY <1>4 DEF MarkQueued, markTaskQueued, ClearAddr, Active
<1>5. ASSUME NEW t \in Tasks, acquireGlobalSlot(t)
      PROVE  Progress'
  BY <1>5 DEF acquireGlobalSlot
<1>6. ASSUME NEW t \in Tasks, GlobalSlotCtxDone(t)
      PROVE  Progress'
  BY <1>6 DEF GlobalSlotCtxDone
<1>7. ASSUME NEW t \in Tasks, SnapshotPool(t)
      PROVE  Progress'
  BY <1>7 DEF SnapshotPool
<1>8. ASSUME NEW t \in Tasks, pickAvailableAddrSlot(t)
      PROVE  Progress'
  BY <1>8 DEF pickAvailableAddrSlot, TakeSlot
<1>9. ASSUME NEW t \in Tasks, WaitAddrSlot(t)
      PROVE  Progress'
  BY <1>9 DEF WaitAddrSlot, TakeSlot
<1>10. ASSUME NEW t \in Tasks, AddrSlotCtxDone(t)
       PROVE  Progress'
  BY <1>10 DEF AddrSlotCtxDone
<1>11. ASSUME NEW t \in Tasks, Assign(t)
       PROVE  Progress'
  BY <1>11 DEF Assign
<1>12. ASSUME NEW t \in Tasks, NEW e \in Errors, BuildReturns(t, e)
       PROVE  Progress'
  <2>1. buildStepsForImageType(kind[t])[step[t]] = StepFormat(t)
    BY FormatsOfSteps
  <2>2. built' = [built EXCEPT ![t] = IF e = "none" THEN @ \cup {StepFormat(t)} ELSE @]
    BY <1>12, <2>1 DEF BuildReturns
  <2> QED BY <1>12, <2>2 DEF BuildReturns, StepInRange
<1>13. ASSUME NEW t \in Tasks, ReleaseAddrSlot(t)
       PROVE  Progress'
  BY <1>13 DEF ReleaseAddrSlot
<1>14. ASSUME NEW t \in Tasks, ReleaseGlobalSlot(t)
       PROVE  Progress'
  BY <1>14 DEF ReleaseGlobalSlot
<1>15. ASSUME NEW t \in Tasks, refreshBuildkitAddrs(t)
       PROVE  Progress'
  BY <1>15 DEF refreshBuildkitAddrs
<1>16. ASSUME NEW t \in Tasks, JudgeAttempt(t)
       PROVE  Progress'
  <2>1. LastStep(t) <=> (kind[t] = "both" => step[t] = 2)
    BY FormatsOfSteps
  <2>2. \/ step' = step
        \/ step' = [step EXCEPT ![t] = 2] /\ step[t] = 1 /\ kind[t] = "both" /\ ~Failed(t)
    BY <1>16, <2>1 DEF JudgeAttempt
  <2>3. pc'[t] = "succeeded" => LastStep(t) /\ ~Failed(t)
    BY <1>16 DEF JudgeAttempt
  <2> QED
    BY <1>16, <2>1, <2>2, <2>3 DEF JudgeAttempt, markTaskQueued, ClearAddr, Failed, Active
<1>17. ASSUME NEW t \in Tasks, waitRetryInterval(t)
       PROVE  Progress'
  BY <1>17 DEF waitRetryInterval
<1>18. ASSUME NEW t \in Tasks, FinishTask(t)
       PROVE  Progress'
  BY <1>18 DEF FinishTask, finishTask, MayFinish, Terminal
<1>19. ASSUME NEW t \in Tasks, CloseDone(t)
       PROVE  Progress'
  BY <1>19 DEF CloseDone
<1>20. ASSUME NEW t \in Tasks, CancelCtx(t)
       PROVE  Progress'
  BY <1>20 DEF CancelCtx
<1>21. ASSUME NEW t \in Tasks, CancelFinish(t)
       PROVE  Progress'
  BY <1>21 DEF CancelFinish, finishTask, MayFinish, Terminal
<1>22. ASSUME NEW t \in Tasks, SyncReply(t)
       PROVE  Progress'
  BY <1>22 DEF SyncReply
<1>23. ASSUME NEW t \in Tasks, NEW k \in ImageTypes, NEW r \in 0..MaxRetry,
             NEW sync \in SyncModes, HandleCreateBuild(t, k, r, sync)
       PROVE  Progress'
  BY <1>23 DEF HandleCreateBuild, StepInRange
<1>24. ASSUME NEW t \in Tasks, StoreCancel(t)
       PROVE  Progress'
  BY <1>24 DEF StoreCancel
<1>25. ASSUME NEW t \in Tasks, CtxExpires(t)
       PROVE  Progress'
  BY <1>25 DEF CtxExpires
<1>26. ASSUME NEW t \in Tasks, SyncDisconnect(t)
       PROVE  Progress'
  BY <1>26 DEF SyncDisconnect
<1>27. ASSUME NEW S \in SUBSET Tasks, deleteExpired(S)
       PROVE  Progress'
  BY <1>27 DEF deleteExpired
<1>28. ASSUME NEW t \in Tasks, cleanupTaskWorkDir(t)
       PROVE  Progress'
  BY <1>28 DEF cleanupTaskWorkDir
<1>29. ASSUME RefreshAddrs
       PROVE  Progress'
  BY <1>29 DEF RefreshAddrs
<1>30. CASE UNCHANGED vars
  BY <1>30 DEF vars
<1> QED
  BY <1>1, <1>2, <1>3, <1>4, <1>5, <1>6, <1>7, <1>8, <1>9, <1>10, <1>11, <1>12, <1>13, <1>14, <1>15, <1>16, <1>17, <1>18, <1>19, <1>20, <1>21, <1>22, <1>23, <1>24, <1>25, <1>26, <1>27, <1>28, <1>29, <1>30
  DEF Next, Goroutine, Handlers, Environment

\* A task succeeds only when every image it asks for has been built, and never
\* with a Nydus image that is not made from its OCI image.
THEOREM SucceededIsBuilt == Spec => []SucceededMeansBuilt
<1>1. TypeInv /\ Progress => SucceededMeansBuilt
  BY FormatsOfSteps DEF Progress, SucceededMeansBuilt
<1> QED BY <1>1, TypeInit, TypeStep, ProgressInit, ProgressStep, PTL DEF Spec

-----------------------------------------------------------------------------
(* The theorems.                                                           *)

\* A terminal status is final: no late finishTask, store.cancel,
\* markTaskQueued or assignment of a worker changes it.
THEOREM StatusIsFinal == Spec => TerminalStatusIsFinal
<1>1. TypeInv /\ StatusInv /\ [Next]_vars =>
        [\A t \in Tasks : status[t] \in Terminal => status'[t] = status[t]]_vars
  BY StatusStep DEF StatusKept
<1> QED
  BY <1>1, TypeInit, TypeStep, StatusInit, StatusStep, PTL
  DEF Spec, TerminalStatusIsFinal

\* When done is closed the task has ended: a synchronous request never
\* answers with a task that is still queued or running.
THEOREM DoneIsTerminal == Spec => []DoneMeansTerminal
<1> QED BY TypeInit, TypeStep, StatusInit, StatusStep, PTL DEF Spec, StatusInv

\* The reaper never removes the files of a task that is queued or running.
THEOREM WorkDirKept == Spec => []ActiveKeepsWorkDir
<1> QED BY TypeInit, TypeStep, StatusInit, StatusStep, PTL DEF Spec, StatusInv

\* The worker address that the API shows agrees with the status and with the
\* slot the solve runs on.
THEOREM AddrAgrees == Spec => []AddrMatchesStatus
<1> QED BY TypeInit, TypeStep, StatusInit, StatusStep, PTL DEF Spec, StatusInv

\* Every outcome is counted once, under the status the task ends with.
THEOREM OutcomeCounted == Spec => []EachOutcomeCountedOnce
<1> QED
  BY TypeInit, TypeStep, StatusInit, StatusStep, CountInit, CountStep, PTL DEF Spec
-----------------------------------------------------------------------------
(* The refinement of TaskLifecycle. Beyond StatusInv it needs to know what *)
(* has been built at every program point, and which status a task has when *)
(* its solve completes.                                                    *)

\* The solve of the current step has succeeded, and the step is not left yet.
StepBuilt(t) ==
    \/ pc[t] \in {"relAddr", "relGlobal", "judge"} /\ err[t] = "none"
    \/ pc[t] = "succeeded"

\* Until a goroutine gives up it has built the formats of its earlier steps,
\* that of the current one once its solve has succeeded, and no other.
BuiltSoFar ==
    \A t \in Tasks :
        /\ pc[t] \in {"new", "start", "open"} => step[t] = 1
        /\ pc[t] \notin {"failed", "canceled", "close", "end"} =>
              built[t] = (IF step[t] = 2 THEN {"oci"} ELSE {})
                            \cup (IF StepBuilt(t) THEN {StepFormat(t)} ELSE {})

\* A solve runs, and its success is acted on, only for a task that is running
\* or has been canceled meanwhile: no other actor fails it or queues it again.
SolvedIsRunning ==
    \A t \in Tasks :
        pc[t] = "build" \/ StepBuilt(t) => status[t] \in {"running", "canceled"}

RefineInv == BuiltSoFar /\ SolvedIsRunning

\* Initially nothing is built and nothing runs.
LEMMA RefineInit == Init => RefineInv
BY DEF Init, RefineInv, BuiltSoFar, SolvedIsRunning, StepBuilt

\* One step keeps RefineInv.
LEMMA RefineStep == ASSUME TypeInv, Progress, StatusInv, RefineInv, [Next]_vars PROVE RefineInv'
<1> USE DEF TypeInv, TypeOK, RefineInv, BuiltSoFar, SolvedIsRunning, StepBuilt, StepFormat, Goto,
        fields, request, locals, slots, others
<1>1. ASSUME NEW t \in Tasks, StartTask(t)
      PROVE  RefineInv'
  BY <1>1 DEF StartTask
<1>2. ASSUME NEW t \in Tasks, OpenLog(t)
      PROVE  RefineInv'
  BY <1>2 DEF OpenLog, LogError
<1>3. ASSUME NEW t \in Tasks, BeginStep(t)
      PROVE  RefineInv'
  BY <1>3 DEF BeginStep
<1>4. ASSUME NEW t \in Tasks, MarkQueued(t)
      PROVE  RefineInv'
  BY <1>4 DEF MarkQueued, markTaskQueued, ClearAddr, Active
<1>5. ASSUME NEW t \in Tasks, acquireGlobalSlot(t)
      PROVE  RefineInv'
  BY <1>5 DEF acquireGlobalSlot
<1>6. ASSUME NEW t \in Tasks, GlobalSlotCtxDone(t)
      PROVE  RefineInv'
  BY <1>6 DEF GlobalSlotCtxDone
<1>7. ASSUME NEW t \in Tasks, SnapshotPool(t)
      PROVE  RefineInv'
  BY <1>7 DEF SnapshotPool
<1>8. ASSUME NEW t \in Tasks, pickAvailableAddrSlot(t)
      PROVE  RefineInv'
  BY <1>8 DEF pickAvailableAddrSlot, TakeSlot
<1>9. ASSUME NEW t \in Tasks, WaitAddrSlot(t)
      PROVE  RefineInv'
  BY <1>9 DEF WaitAddrSlot, TakeSlot
<1>10. ASSUME NEW t \in Tasks, AddrSlotCtxDone(t)
       PROVE  RefineInv'
  BY <1>10 DEF AddrSlotCtxDone
<1>11. ASSUME NEW t \in Tasks, Assign(t)
       PROVE  RefineInv'
  <2>1. CASE Assignable(t)
    <3>1. /\ status' = [status EXCEPT ![t] = "running"]
          /\ pc' = [pc EXCEPT ![t] = "build"]
          /\ pc[t] = "assign"
          /\ UNCHANGED <<err, step, built, kind>>
      BY <1>11, <2>1 DEF Assign
    <3>2. SolvedIsRunning'
      BY <3>1
    <3>3. BuiltSoFar'
      BY <3>1
    <3> QED BY <3>2, <3>3
  <2>2. CASE ~Assignable(t)
    <3>1. /\ err' = [err EXCEPT ![t] = "other"]
          /\ pc' = [pc EXCEPT ![t] = "relAddr"]
          /\ pc[t] = "assign"
          /\ UNCHANGED <<status, step, built, kind>>
      BY <1>11, <2>2 DEF Assign
    <3>2. SolvedIsRunning'
      BY <3>1
    <3>3. BuiltSoFar'
      BY <3>1
    <3> QED BY <3>2, <3>3
  <2> QED BY <2>1, <2>2
<1>12. ASSUME NEW t \in Tasks, NEW e \in Errors, BuildReturns(t, e)
       PROVE  RefineInv'
  <2>1. buildStepsForImageType(kind[t])[step[t]] = StepFormat(t)
    BY FormatsOfSteps
  <2>2. built' = [built EXCEPT ![t] = IF e = "none" THEN @ \cup {StepFormat(t)} ELSE @]
    BY <1>12, <2>1 DEF BuildReturns
  <2>3. SolvedIsRunning'
    BY <1>12 DEF BuildReturns
  <2>4. BuiltSoFar'
    <3>1. /\ pc[t] = "build"
          /\ pc' = [pc EXCEPT ![t] = "relAddr"]
          /\ err' = [err EXCEPT ![t] = e]
          /\ UNCHANGED <<step, kind>>
      BY <1>12 DEF BuildReturns
    <3>2. CASE e = "none"
      BY <3>1, <3>2, <2>2
    <3>3. CASE e # "none"
      <4>1. built' = built
        BY <3>3, <2>2
      <4> QED BY <3>1, <3>3, <4>1
    <3> QED BY <3>2, <3>3
  <2> QED BY <2>3, <2>4
<1>13. ASSUME NEW t \in Tasks, ReleaseAddrSlot(t)
       PROVE  RefineInv'
  BY <1>13 DEF ReleaseAddrSlot
<1>14. ASSUME NEW t \in Tasks, ReleaseGlobalSlot(t)
       PROVE  RefineInv'
  BY <1>14 DEF ReleaseGlobalSlot
<1>15. ASSUME NEW t \in Tasks, refreshBuildkitAddrs(t)
       PROVE  RefineInv'
  BY <1>15 DEF refreshBuildkitAddrs
<1>16. ASSUME NEW t \in Tasks, JudgeAttempt(t)
       PROVE  RefineInv'
  <2>1. LastStep(t) <=> (kind[t] = "both" => step[t] = 2)
    BY FormatsOfSteps
  <2>2. \/ step' = step
        \/ step' = [step EXCEPT ![t] = 2] /\ step[t] = 1 /\ kind[t] = "both" /\ ~Failed(t)
    BY <1>16, <2>1 DEF JudgeAttempt
  <2>3. SolvedIsRunning'
    BY <1>16 DEF JudgeAttempt, Failed, markTaskQueued, ClearAddr, Active
  <2>4. BuiltSoFar'
    BY <1>16, <2>2 DEF JudgeAttempt, Failed
  <2> QED BY <2>3, <2>4
<1>17. ASSUME NEW t \in Tasks, waitRetryInterval(t)
       PROVE  RefineInv'
  BY <1>17 DEF waitRetryInterval
<1>18. ASSUME NEW t \in Tasks, FinishTask(t)
       PROVE  RefineInv'
  BY <1>18 DEF FinishTask, finishTask, MayFinish, Terminal
<1>19. ASSUME NEW t \in Tasks, CloseDone(t)
       PROVE  RefineInv'
  BY <1>19 DEF CloseDone
<1>20. ASSUME NEW t \in Tasks, CancelCtx(t)
       PROVE  RefineInv'
  BY <1>20 DEF CancelCtx
<1>21. ASSUME NEW t \in Tasks, CancelFinish(t)
       PROVE  RefineInv'
  BY <1>21 DEF CancelFinish, finishTask, MayFinish
<1>22. ASSUME NEW t \in Tasks, SyncReply(t)
       PROVE  RefineInv'
  BY <1>22 DEF SyncReply
<1>23. ASSUME NEW t \in Tasks, NEW k \in ImageTypes, NEW r \in 0..MaxRetry,
             NEW sync \in SyncModes, HandleCreateBuild(t, k, r, sync)
       PROVE  RefineInv'
  BY <1>23 DEF HandleCreateBuild
<1>24. ASSUME NEW t \in Tasks, StoreCancel(t)
       PROVE  RefineInv'
  BY <1>24 DEF StoreCancel, Active
<1>25. ASSUME NEW t \in Tasks, CtxExpires(t)
       PROVE  RefineInv'
  BY <1>25 DEF CtxExpires
<1>26. ASSUME NEW t \in Tasks, SyncDisconnect(t)
       PROVE  RefineInv'
  BY <1>26 DEF SyncDisconnect
<1>27. ASSUME NEW S \in SUBSET Tasks, deleteExpired(S)
       PROVE  RefineInv'
  BY <1>27 DEF deleteExpired
<1>28. ASSUME NEW t \in Tasks, cleanupTaskWorkDir(t)
       PROVE  RefineInv'
  BY <1>28 DEF cleanupTaskWorkDir
<1>29. ASSUME RefreshAddrs
       PROVE  RefineInv'
  BY <1>29 DEF RefreshAddrs
<1>30. CASE UNCHANGED vars
  BY <1>30 DEF vars
<1> QED
  BY <1>1, <1>2, <1>3, <1>4, <1>5, <1>6, <1>7, <1>8, <1>9, <1>10, <1>11, <1>12, <1>13, <1>14, <1>15, <1>16, <1>17, <1>18, <1>19, <1>20, <1>21, <1>22, <1>23, <1>24, <1>25, <1>26, <1>27, <1>28, <1>29, <1>30
  DEF Next, Goroutine, Handlers, Environment
\* The state functions that the refinement mapping puts for the variables of
\* TaskLifecycle.
Life ==
    [t \in Tasks |-> CASE pc[t] = "new"   -> "absent"
                       [] t \in tasks     -> status[t]
                       [] OTHER           -> "removed"]
AsksFor == [t \in Tasks |-> buildStepsForImageType(kind[t])]
Pushed == [t \in Tasks |-> Cardinality(built[t])]

\* What the daemon shows of a task, by cases.
LEMMA LifeOf ==
    ASSUME TypeInv, StatusInv, NEW t \in Tasks
    PROVE  /\ pc[t] = "new" => Life[t] = "absent"
           /\ t \in tasks => Life[t] = status[t]
           /\ pc[t] # "new" /\ t \notin tasks => Life[t] = "removed"
BY DEF Life, StatusInv, NewIsUntouched

\* A step that changes no status, request or image, and neither creates nor
\* forgets a task, is invisible.
LEMMA SameLife ==
    ASSUME TypeInv, TypeInv', UNCHANGED <<tasks, status, kind, built>>,
           \A u \in Tasks : pc'[u] = "new" <=> pc[u] = "new"
    PROVE  UNCHANGED <<Life, AsksFor, Pushed>>
<1>1. Life' = Life
  BY DEF Life
<1>2. AsksFor' = AsksFor /\ Pushed' = Pushed
  BY DEF AsksFor, Pushed
<1> QED BY <1>1, <1>2

\* A step that changes the status of one task in the store, and nothing else
\* that can be seen.
LEMMA OneStatus ==
    ASSUME TypeInv, StatusInv, TypeInv', UNCHANGED <<tasks, kind, built>>,
           \A u \in Tasks : pc'[u] = "new" <=> pc[u] = "new",
           NEW t \in Tasks, t \in tasks, NEW s,
           status' = [status EXCEPT ![t] = s]
    PROVE  /\ Life' = [Life EXCEPT ![t] = s]
           /\ Life[t] = status[t]
           /\ UNCHANGED <<AsksFor, Pushed>>
<1>1. pc[t] # "new" /\ pc'[t] # "new"
  BY DEF StatusInv, NewIsUntouched
<1>2. Life[t] = status[t]
  BY LifeOf
<1>3. \A u \in Tasks : u # t => Life'[u] = Life[u]
  BY DEF Life, TypeInv, TypeOK
<1>4. Life'[t] = s
  BY <1>1 DEF Life, TypeInv, TypeOK
<1>5. Life' = [Life EXCEPT ![t] = s]
  <2>1. Life = [u \in Tasks |-> Life[u]] /\ Life' = [u \in Tasks |-> Life'[u]]
    BY DEF Life
  <2> HIDE DEF Life
  <2> QED BY <1>3, <1>4, <2>1
<1>6. AsksFor' = AsksFor /\ Pushed' = Pushed
  BY DEF AsksFor, Pushed
<1> QED BY <1>2, <1>5, <1>6

\* What it takes for a step to be one of TaskLifecycle.
LEMMA LifecycleSteps ==
    /\ UNCHANGED <<Life, AsksFor, Pushed>> => [Lifecycle!Next]_Lifecycle!vars
    /\ \A t \in Tasks : \A s : Life' = [Life EXCEPT ![t] = s] /\ UNCHANGED <<AsksFor, Pushed>> =>
          /\ Life[t] = "queued" /\ s = "running" => Lifecycle!Next
          /\ Life[t] = "running" /\ s = "queued" => Lifecycle!Next
          /\ Life[t] = "running" /\ s = "succeeded" /\ Pushed[t] = Len(AsksFor[t]) => Lifecycle!Next
          /\ Life[t] \in {"queued", "running"} /\ s \in {"failed", "canceled"} => Lifecycle!Next
<1>1. UNCHANGED <<Life, AsksFor, Pushed>> => [Lifecycle!Next]_Lifecycle!vars
  BY DEF Lifecycle!vars, Life, AsksFor, Pushed
<1>2. ASSUME NEW t \in Tasks, NEW s, Life' = [Life EXCEPT ![t] = s],
             UNCHANGED <<AsksFor, Pushed>>
      PROVE  /\ Life[t] = "queued" /\ s = "running" => Lifecycle!Assign(t)
             /\ Life[t] = "running" /\ s = "queued" => Lifecycle!Requeue(t)
             /\ Life[t] = "running" /\ s = "succeeded" /\ Pushed[t] = Len(AsksFor[t])
                  => Lifecycle!Succeed(t)
             /\ Life[t] \in {"queued", "running"} /\ s = "failed" => Lifecycle!Fail(t)
             /\ Life[t] \in {"queued", "running"} /\ s = "canceled" => Lifecycle!Cancel(t)
  <2>1. ASSUME NEW from, Life[t] \in from
        PROVE  Lifecycle!Become(t, from, s)
    BY <1>2, <2>1 DEF Lifecycle!Become, Life, AsksFor, Pushed
  <2>2. AsksFor' = AsksFor
    BY <1>2
  <2>3. Life[t] = "queued" /\ s = "running" => Lifecycle!Assign(t)
    BY <2>1, <2>2 DEF Lifecycle!Assign, AsksFor
  <2>4. Life[t] = "running" /\ s = "queued" => Lifecycle!Requeue(t)
    BY <2>1, <2>2 DEF Lifecycle!Requeue, AsksFor
  <2>5. Life[t] = "running" /\ s = "succeeded" /\ Pushed[t] = Len(AsksFor[t])
          => Lifecycle!Succeed(t)
    BY <2>1, <2>2 DEF Lifecycle!Succeed, AsksFor, Pushed
  <2>6. Life[t] \in {"queued", "running"} /\ s = "failed" => Lifecycle!Fail(t)
    BY <2>1, <2>2 DEF Lifecycle!Fail, AsksFor
  <2>7. Life[t] \in {"queued", "running"} /\ s = "canceled" => Lifecycle!Cancel(t)
    BY <2>1, <2>2 DEF Lifecycle!Cancel, AsksFor
  <2> QED BY <2>3, <2>4, <2>5, <2>6, <2>7
<1> QED BY <1>1, <1>2 DEF Lifecycle!Next, Lifecycle!End
\* When a solve of t completes it adds one image, and the list is not yet
\* complete; before finishTask("succeeded") it is.
LEMMA PushedCounts ==
    ASSUME TypeInv, RefineInv, NEW t \in Tasks
    PROVE  /\ pc[t] = "build" =>
                 /\ StepFormat(t) \notin built[t]
                 /\ Cardinality(built[t]) < Len(buildStepsForImageType(kind[t]))
                 /\ Cardinality(built[t] \cup {StepFormat(t)}) = Cardinality(built[t]) + 1
           /\ pc[t] = "succeeded" /\ AllBuilt(t) =>
                 Cardinality(built[t]) = Len(buildStepsForImageType(kind[t]))
<1>1. /\ kind[t] \in {"oci", "nydus", "both"}
      /\ step[t] = 1 \/ step[t] = 2
      /\ step[t] = 2 => kind[t] = "both"
      /\ Len(buildStepsForImageType(kind[t])) = IF kind[t] = "both" THEN 2 ELSE 1
  <2>1. kind[t] \in {"oci", "nydus", "both"}
    BY DEF TypeInv, TypeOK
  <2>2. (step[t] = 1 \/ step[t] = 2) /\ (step[t] = 2 => kind[t] = "both")
    BY DEF TypeInv, TypeOK, StepInRange
  <2>3. Len(buildStepsForImageType(kind[t])) = IF kind[t] = "both" THEN 2 ELSE 1
    BY <2>1, StepsShape
  <2> QED BY <2>1, <2>2, <2>3
<1>2. /\ Cardinality({}) = 0 /\ IsFiniteSet({})
      /\ \A x : Cardinality({x}) = 1 /\ IsFiniteSet({x})
  BY FS_EmptySet, FS_Singleton
<1>3. Cardinality({"oci"} \cup {"nydus"}) = 2
  <2>1. "nydus" \notin {"oci"}
    OBVIOUS
  <2>2. Cardinality({"oci"} \cup {"nydus"}) = Cardinality({"oci"}) + 1
    BY <1>2, <2>1, FS_AddElement
  <2>3. Cardinality({"oci"}) = 1
    BY FS_Singleton
  <2> QED BY <2>2, <2>3
<1>4. ASSUME pc[t] = "build"
      PROVE  /\ StepFormat(t) \notin built[t]
             /\ Cardinality(built[t]) < Len(buildStepsForImageType(kind[t]))
             /\ Cardinality(built[t] \cup {StepFormat(t)}) = Cardinality(built[t]) + 1
  <2>1. built[t] = IF step[t] = 2 THEN {"oci"} ELSE {}
    BY <1>4 DEF RefineInv, BuiltSoFar, StepBuilt
  <2>2. CASE step[t] = 2
    <3>1. built[t] = {"oci"} /\ StepFormat(t) = "nydus" /\ kind[t] = "both"
      BY <1>1, <2>1, <2>2 DEF StepFormat
    <3>2. Cardinality(built[t]) = 1 /\ Cardinality(built[t] \cup {StepFormat(t)}) = 2
      BY <3>1, <1>2, <1>3
    <3>3. Len(buildStepsForImageType(kind[t])) = 2
      BY <3>1, <1>1
    <3> QED BY <3>1, <3>2, <3>3
  <2>3. CASE step[t] = 1
    <3>1. built[t] = {} /\ built[t] \cup {StepFormat(t)} = {StepFormat(t)}
      BY <2>1, <2>3
    <3>2. Cardinality(built[t]) = 0 /\ Cardinality(built[t] \cup {StepFormat(t)}) = 1
      BY <3>1, <1>2
    <3>3. Len(buildStepsForImageType(kind[t])) > 0
      BY <1>1
    <3>4. StepFormat(t) \notin built[t]
      BY <3>1
    <3> QED BY <3>2, <3>3, <3>4
  <2> QED BY <1>1, <2>2, <2>3
<1>5. ASSUME pc[t] = "succeeded", AllBuilt(t)
      PROVE  Cardinality(built[t]) = Len(buildStepsForImageType(kind[t]))
  <2>2. built[t] = (IF step[t] = 2 THEN {"oci"} ELSE {}) \cup {StepFormat(t)}
    BY <1>5 DEF RefineInv, BuiltSoFar, StepBuilt
  <2>1. kind[t] = "both" => step[t] = 2
    BY <1>1, <1>5, <2>2 DEF AllBuilt, StepFormat
  <2>3. CASE kind[t] = "both"
    <3>1. built[t] = {"oci"} \cup {"nydus"}
      BY <2>1, <2>2, <2>3 DEF StepFormat
    <3> QED BY <3>1, <2>3, <1>1, <1>3
  <2>4. CASE kind[t] # "both"
    <3>1. built[t] = {StepFormat(t)}
      BY <1>1, <2>2, <2>4
    <3> QED BY <3>1, <2>4, <1>1, <1>2
  <2> QED BY <2>3, <2>4
<1> QED BY <1>4, <1>5
\* markTaskQueued requeues a running task, and changes no other.
LEMMA Requeues ==
    ASSUME TypeInv, StatusInv, TypeInv', UNCHANGED <<tasks, kind, built>>,
           \A u \in Tasks : pc'[u] = "new" <=> pc[u] = "new",
           NEW t \in Tasks, markTaskQueued(t)
    PROVE  [Lifecycle!Next]_Lifecycle!vars
<1>1. CASE t \in tasks /\ status[t] = "running"
  <2>1. status' = [status EXCEPT ![t] = "queued"]
    BY <1>1 DEF markTaskQueued, Active
  <2> QED BY <1>1, <2>1, OneStatus, LifecycleSteps
<1>2. CASE ~(t \in tasks /\ status[t] = "running")
  <2>1. status' = status
    BY <1>2 DEF markTaskQueued, Active, TypeInv, TypeOK
  <2> QED BY <2>1, SameLife, LifecycleSteps
<1> QED BY <1>1, <1>2

\* finishTask ends a task that is queued or running, in the way it is told,
\* and leaves the status of every other alone.
LEMMA Finishes ==
    ASSUME TypeInv, StatusInv, TypeInv', UNCHANGED <<tasks, kind, built>>,
           \A u \in Tasks : pc'[u] = "new" <=> pc[u] = "new",
           NEW t \in Tasks, NEW s \in Terminal, finishTask(t, s),
           s = "succeeded" =>
               /\ status[t] \in {"running", "canceled"}
               /\ Cardinality(built[t]) = Len(buildStepsForImageType(kind[t]))
    PROVE  [Lifecycle!Next]_Lifecycle!vars
<1>1. CASE MayFinish(t, s) /\ status[t] # "canceled"
  <2>1. status' = [status EXCEPT ![t] = s] /\ t \in tasks
    BY <1>1 DEF finishTask, MayFinish
  <2>2. status[t] \in {"queued", "running"}
    BY <1>1 DEF MayFinish, TypeInv, TypeOK, Status, Active, Terminal, StatusInv,
      NewIsUntouched, OutcomeIsObserved
  <2>3. s = "succeeded" => status[t] = "running" /\ Pushed[t] = Len(AsksFor[t])
    BY <1>1 DEF Pushed, AsksFor
  <2>4. /\ Life' = [Life EXCEPT ![t] = s]
        /\ Life[t] = status[t]
        /\ UNCHANGED <<AsksFor, Pushed>>
    BY <2>1, OneStatus
  <2>5. s \in {"succeeded", "failed", "canceled"}
    BY DEF Terminal
  <2> QED BY <2>2, <2>3, <2>4, <2>5, LifecycleSteps
<1>2. CASE ~(MayFinish(t, s) /\ status[t] # "canceled")
  <2>1. status' = status
    BY <1>2 DEF finishTask, MayFinish, TypeInv, TypeOK
  <2> QED BY <2>1, SameLife, LifecycleSteps
<1> QED BY <1>1, <1>2

\* The initial states are those of TaskLifecycle.
LEMMA LifecycleInit == Init => Lifecycle!Init
<1> SUFFICES ASSUME Init PROVE Lifecycle!Init OBVIOUS
<1>1. Life = [t \in Tasks |-> "absent"]
  BY DEF Init, Life
<1>2. AsksFor \in [Tasks -> {buildStepsForImageType(k) : k \in {"oci", "nydus", "both"}}]
  BY DEF Init, AsksFor
<1>3. Pushed = [t \in Tasks |-> 0]
  BY FS_EmptySet DEF Init, Pushed
<1> QED BY <1>1, <1>2, <1>3 DEF Lifecycle!Init, Life, AsksFor, Pushed

\* Every step is one of TaskLifecycle, or is not seen there.
LEMMA LifecycleStep ==
    ASSUME TypeInv, TypeInv', StatusInv, Progress, RefineInv, [Next]_vars
    PROVE  [Lifecycle!Next]_Lifecycle!vars
<1> USE DEF Goto, fields, request, locals, slots, others
<1>1. ASSUME NEW t \in Tasks, StartTask(t)
      PROVE  [Lifecycle!Next]_Lifecycle!vars
  <2>1. UNCHANGED <<tasks, status, kind, built>>
    BY <1>1 DEF StartTask
  <2>2. \A u \in Tasks : pc'[u] = "new" <=> pc[u] = "new"
    BY <1>1 DEF StartTask, TypeInv, TypeOK
  <2> QED BY <2>1, <2>2, SameLife, LifecycleSteps
<1>2. ASSUME NEW t \in Tasks, OpenLog(t)
      PROVE  [Lifecycle!Next]_Lifecycle!vars
  <2>1. UNCHANGED <<tasks, status, kind, built>>
    BY <1>2 DEF OpenLog, LogError
  <2>2. \A u \in Tasks : pc'[u] = "new" <=> pc[u] = "new"
    BY <1>2 DEF OpenLog, LogError, TypeInv, TypeOK
  <2> QED BY <2>1, <2>2, SameLife, LifecycleSteps
<1>3. ASSUME NEW t \in Tasks, BeginStep(t)
      PROVE  [Lifecycle!Next]_Lifecycle!vars
  <2>1. UNCHANGED <<tasks, status, kind, built>>
    BY <1>3 DEF BeginStep
  <2>2. \A u \in Tasks : pc'[u] = "new" <=> pc[u] = "new"
    BY <1>3 DEF BeginStep, TypeInv, TypeOK
  <2> QED BY <2>1, <2>2, SameLife, LifecycleSteps
<1>4. ASSUME NEW t \in Tasks, MarkQueued(t)
      PROVE  [Lifecycle!Next]_Lifecycle!vars
  <2>1. UNCHANGED <<tasks, kind, built>>
    BY <1>4 DEF MarkQueued
  <2>2. \A u \in Tasks : pc'[u] = "new" <=> pc[u] = "new"
    BY <1>4 DEF MarkQueued, TypeInv, TypeOK
  <2> QED BY <1>4, <2>1, <2>2, Requeues DEF MarkQueued
<1>5. ASSUME NEW t \in Tasks, acquireGlobalSlot(t)
      PROVE  [Lifecycle!Next]_Lifecycle!vars
  <2>1. UNCHANGED <<tasks, status, kind, built>>
    BY <1>5 DEF acquireGlobalSlot
  <2>2. \A u \in Tasks : pc'[u] = "new" <=> pc[u] = "new"
    BY <1>5 DEF acquireGlobalSlot, TypeInv, TypeOK
  <2> QED BY <2>1, <2>2, SameLife, LifecycleSteps
<1>6. ASSUME NEW t \in Tasks, GlobalSlotCtxDone(t)
      PROVE  [Lifecycle!Next]_Lifecycle!vars
  <2>1. UNCHANGED <<tasks, status, kind, built>>
    BY <1>6 DEF GlobalSlotCtxDone
  <2>2. \A u \in Tasks : pc'[u] = "new" <=> pc[u] = "new"
    BY <1>6 DEF GlobalSlotCtxDone, TypeInv, TypeOK
  <2> QED BY <2>1, <2>2, SameLife, LifecycleSteps
<1>7. ASSUME NEW t \in Tasks, SnapshotPool(t)
      PROVE  [Lifecycle!Next]_Lifecycle!vars
  <2>1. UNCHANGED <<tasks, status, kind, built>>
    BY <1>7 DEF SnapshotPool
  <2>2. \A u \in Tasks : pc'[u] = "new" <=> pc[u] = "new"
    BY <1>7 DEF SnapshotPool, TypeInv, TypeOK
  <2> QED BY <2>1, <2>2, SameLife, LifecycleSteps
<1>8. ASSUME NEW t \in Tasks, pickAvailableAddrSlot(t)
      PROVE  [Lifecycle!Next]_Lifecycle!vars
  <2>1. UNCHANGED <<tasks, status, kind, built>>
    BY <1>8 DEF pickAvailableAddrSlot, TakeSlot
  <2>2. \A u \in Tasks : pc'[u] = "new" <=> pc[u] = "new"
    BY <1>8 DEF pickAvailableAddrSlot, TakeSlot, TypeInv, TypeOK
  <2> QED BY <2>1, <2>2, SameLife, LifecycleSteps
<1>9. ASSUME NEW t \in Tasks, WaitAddrSlot(t)
      PROVE  [Lifecycle!Next]_Lifecycle!vars
  <2>1. UNCHANGED <<tasks, status, kind, built>>
    BY <1>9 DEF WaitAddrSlot, TakeSlot
  <2>2. \A u \in Tasks : pc'[u] = "new" <=> pc[u] = "new"
    BY <1>9 DEF WaitAddrSlot, TakeSlot, TypeInv, TypeOK
  <2> QED BY <2>1, <2>2, SameLife, LifecycleSteps
<1>10. ASSUME NEW t \in Tasks, AddrSlotCtxDone(t)
       PROVE  [Lifecycle!Next]_Lifecycle!vars
  <2>1. UNCHANGED <<tasks, status, kind, built>>
    BY <1>10 DEF AddrSlotCtxDone
  <2>2. \A u \in Tasks : pc'[u] = "new" <=> pc[u] = "new"
    BY <1>10 DEF AddrSlotCtxDone, TypeInv, TypeOK
  <2> QED BY <2>1, <2>2, SameLife, LifecycleSteps
<1>11. ASSUME NEW t \in Tasks, Assign(t)
       PROVE  [Lifecycle!Next]_Lifecycle!vars
  <2>1. UNCHANGED <<tasks, kind, built>>
    BY <1>11 DEF Assign
  <2>2. \A u \in Tasks : pc'[u] = "new" <=> pc[u] = "new"
    BY <1>11 DEF Assign, TypeInv, TypeOK
  <2>3. CASE Assignable(t)
    <3>1. status' = [status EXCEPT ![t] = "running"] /\ t \in tasks
      BY <1>11, <2>3 DEF Assign, Assignable
    <3>2. status[t] \in {"queued", "running"}
      BY <2>3 DEF Assignable, TypeInv, TypeOK, Status, Active, Terminal, StatusInv,
        NewIsUntouched, OutcomeIsObserved
    <3>3. CASE status[t] = "queued"
      BY <2>1, <2>2, <3>1, <3>3, OneStatus, LifecycleSteps
    <3>4. CASE status[t] = "running"
      <4>1. status' = status
        BY <3>1, <3>4 DEF TypeInv, TypeOK
      <4> QED BY <2>1, <2>2, <4>1, SameLife, LifecycleSteps
    <3> QED BY <3>2, <3>3, <3>4
  <2>4. CASE ~Assignable(t)
    <3>1. status' = status
      BY <1>11, <2>4 DEF Assign
    <3> QED BY <2>1, <2>2, <3>1, SameLife, LifecycleSteps
  <2> QED BY <2>3, <2>4
<1>12. ASSUME NEW t \in Tasks, NEW e \in Errors, BuildReturns(t, e)
       PROVE  [Lifecycle!Next]_Lifecycle!vars
  <2>1. UNCHANGED <<tasks, status, kind>> /\ pc[t] = "build"
    BY <1>12 DEF BuildReturns
  <2>2. \A u \in Tasks : pc'[u] = "new" <=> pc[u] = "new"
    BY <1>12 DEF BuildReturns, TypeInv, TypeOK
  <2>3. CASE e = "none"
    <3>1. built' = [built EXCEPT ![t] = @ \cup {StepFormat(t)}]
      BY <1>12, <2>3, FormatsOfSteps DEF BuildReturns
    <3>2. /\ Cardinality(built[t]) < Len(buildStepsForImageType(kind[t]))
          /\ Cardinality(built[t] \cup {StepFormat(t)}) = Cardinality(built[t]) + 1
      BY <2>1, PushedCounts
    <3>3. Life[t] \in {"running", "canceled", "removed"}
      BY <2>1, LifeOf DEF RefineInv, SolvedIsRunning
    <3>4. Life' = Life /\ AsksFor' = AsksFor
      BY <2>1, <2>2 DEF Life, AsksFor
    <3>5. \A u \in Tasks : built'[u] = IF u = t THEN built[t] \cup {StepFormat(t)} ELSE built[u]
      BY <3>1 DEF TypeInv, TypeOK
    <3>6. Pushed' = [u \in Tasks |-> IF u = t THEN Pushed[t] + 1 ELSE Pushed[u]]
      BY <3>2, <3>5 DEF Pushed
    <3>7. Pushed' = [Pushed EXCEPT ![t] = @ + 1]
      BY <3>6 DEF Pushed
    <3>8. Pushed[t] < Len(AsksFor[t])
      BY <3>2 DEF Pushed, AsksFor
    <3>9. Lifecycle!Push(t)
      BY <3>3, <3>4, <3>7, <3>8 DEF Lifecycle!Push, Life, AsksFor, Pushed
    <3> QED BY <3>9 DEF Lifecycle!Next
  <2>4. CASE e # "none"
    <3>1. built' = built
      BY <1>12, <2>4 DEF BuildReturns, TypeInv, TypeOK
    <3> QED BY <2>1, <2>2, <3>1, SameLife, LifecycleSteps
  <2> QED BY <2>3, <2>4
<1>13. ASSUME NEW t \in Tasks, ReleaseAddrSlot(t)
       PROVE  [Lifecycle!Next]_Lifecycle!vars
  <2>1. UNCHANGED <<tasks, status, kind, built>>
    BY <1>13 DEF ReleaseAddrSlot
  <2>2. \A u \in Tasks : pc'[u] = "new" <=> pc[u] = "new"
    BY <1>13 DEF ReleaseAddrSlot, TypeInv, TypeOK
  <2> QED BY <2>1, <2>2, SameLife, LifecycleSteps
<1>14. ASSUME NEW t \in Tasks, ReleaseGlobalSlot(t)
       PROVE  [Lifecycle!Next]_Lifecycle!vars
  <2>1. UNCHANGED <<tasks, status, kind, built>>
    BY <1>14 DEF ReleaseGlobalSlot
  <2>2. \A u \in Tasks : pc'[u] = "new" <=> pc[u] = "new"
    BY <1>14 DEF ReleaseGlobalSlot, TypeInv, TypeOK
  <2> QED BY <2>1, <2>2, SameLife, LifecycleSteps
<1>15. ASSUME NEW t \in Tasks, refreshBuildkitAddrs(t)
       PROVE  [Lifecycle!Next]_Lifecycle!vars
  <2>1. UNCHANGED <<tasks, status, kind, built>>
    BY <1>15 DEF refreshBuildkitAddrs
  <2>2. \A u \in Tasks : pc'[u] = "new" <=> pc[u] = "new"
    BY <1>15 DEF refreshBuildkitAddrs, TypeInv, TypeOK
  <2> QED BY <2>1, <2>2, SameLife, LifecycleSteps
<1>16. ASSUME NEW t \in Tasks, JudgeAttempt(t)
       PROVE  [Lifecycle!Next]_Lifecycle!vars
  <2>1. UNCHANGED <<tasks, kind, built>>
    BY <1>16 DEF JudgeAttempt
  <2>2. \A u \in Tasks : pc'[u] = "new" <=> pc[u] = "new"
    BY <1>16 DEF JudgeAttempt, TypeInv, TypeOK
  <2>3. status' = status \/ markTaskQueued(t)
    BY <1>16 DEF JudgeAttempt
  <2>4. CASE status' = status
    BY <2>1, <2>2, <2>4, SameLife, LifecycleSteps
  <2>5. CASE markTaskQueued(t)
    BY <2>1, <2>2, <2>5, Requeues
  <2> QED BY <2>3, <2>4, <2>5
<1>17. ASSUME NEW t \in Tasks, waitRetryInterval(t)
       PROVE  [Lifecycle!Next]_Lifecycle!vars
  <2>1. UNCHANGED <<tasks, status, kind, built>>
    BY <1>17 DEF waitRetryInterval
  <2>2. \A u \in Tasks : pc'[u] = "new" <=> pc[u] = "new"
    BY <1>17 DEF waitRetryInterval, TypeInv, TypeOK
  <2> QED BY <2>1, <2>2, SameLife, LifecycleSteps
<1>18. ASSUME NEW t \in Tasks, FinishTask(t)
       PROVE  [Lifecycle!Next]_Lifecycle!vars
  <2>1. UNCHANGED <<tasks, kind, built>> /\ pc[t] \in Terminal /\ finishTask(t, pc[t])
    BY <1>18 DEF FinishTask
  <2>2. \A u \in Tasks : pc'[u] = "new" <=> pc[u] = "new"
    BY <1>18 DEF FinishTask, Terminal, TypeInv, TypeOK
  <2>3. pc[t] = "succeeded" =>
          /\ status[t] \in {"running", "canceled"}
          /\ Cardinality(built[t]) = Len(buildStepsForImageType(kind[t]))
    BY PushedCounts DEF Progress, RefineInv, SolvedIsRunning, StepBuilt
  <2> QED BY <2>1, <2>2, <2>3, Finishes
<1>19. ASSUME NEW t \in Tasks, CloseDone(t)
       PROVE  [Lifecycle!Next]_Lifecycle!vars
  <2>1. UNCHANGED <<tasks, status, kind, built>>
    BY <1>19 DEF CloseDone
  <2>2. \A u \in Tasks : pc'[u] = "new" <=> pc[u] = "new"
    BY <1>19 DEF CloseDone, TypeInv, TypeOK
  <2> QED BY <2>1, <2>2, SameLife, LifecycleSteps
<1>20. ASSUME NEW t \in Tasks, CancelCtx(t)
       PROVE  [Lifecycle!Next]_Lifecycle!vars
  <2>1. UNCHANGED <<tasks, status, kind, built>>
    BY <1>20 DEF CancelCtx
  <2>2. \A u \in Tasks : pc'[u] = "new" <=> pc[u] = "new"
    BY <1>20 DEF CancelCtx, TypeInv, TypeOK
  <2> QED BY <2>1, <2>2, SameLife, LifecycleSteps
<1>21. ASSUME NEW t \in Tasks, CancelFinish(t)
       PROVE  [Lifecycle!Next]_Lifecycle!vars
  <2>1. UNCHANGED <<tasks, kind, built, pc>> /\ finishTask(t, "canceled")
    BY <1>21 DEF CancelFinish
  <2>2. "canceled" \in Terminal
    BY DEF Terminal
  <2> QED BY <2>1, <2>2, Finishes
<1>22. ASSUME NEW t \in Tasks, SyncReply(t)
       PROVE  [Lifecycle!Next]_Lifecycle!vars
  <2>1. UNCHANGED <<tasks, status, kind, built>>
    BY <1>22 DEF SyncReply
  <2>2. \A u \in Tasks : pc'[u] = "new" <=> pc[u] = "new"
    BY <1>22 DEF SyncReply, TypeInv, TypeOK
  <2> QED BY <2>1, <2>2, SameLife, LifecycleSteps
<1>23. ASSUME NEW t \in Tasks, NEW k \in ImageTypes, NEW r \in 0..MaxRetry,
             NEW sync \in SyncModes, HandleCreateBuild(t, k, r, sync)
       PROVE  [Lifecycle!Next]_Lifecycle!vars
  <2>1. /\ pc[t] = "new" /\ pc' = [pc EXCEPT ![t] = "start"]
        /\ tasks' = tasks \cup {t}
        /\ status' = [status EXCEPT ![t] = "queued"]
        /\ kind' = [kind EXCEPT ![t] = k]
        /\ built' = built
    BY <1>23 DEF HandleCreateBuild
  <2>2. Life[t] = "absent"
    BY <2>1, LifeOf
  <2>3. \A u \in Tasks : Life'[u] = IF u = t THEN "queued" ELSE Life[u]
    BY <2>1 DEF Life, TypeInv, TypeOK
  <2>4. Life' = [Life EXCEPT ![t] = "queued"]
    <3>1. Life = [u \in Tasks |-> Life[u]] /\ Life' = [u \in Tasks |-> Life'[u]]
      BY DEF Life
    <3> QED BY <2>3, <3>1
  <2>5. AsksFor' = [AsksFor EXCEPT ![t] = buildStepsForImageType(k)]
    BY <2>1 DEF AsksFor, TypeInv, TypeOK
  <2>6. k \in {"oci", "nydus", "both"}
    BY ImageTypesAssumption
  <2>7. Pushed' = Pushed
    BY <2>1 DEF Pushed
  <2>8. Lifecycle!Become(t, {"absent"}, "queued")
    BY <2>2, <2>4, <2>7 DEF Lifecycle!Become, Life, Pushed
  <2>9. Lifecycle!Submit(t)
    BY <2>5, <2>6, <2>8 DEF Lifecycle!Submit, AsksFor
  <2> QED BY <2>9 DEF Lifecycle!Next
<1>24. ASSUME NEW t \in Tasks, StoreCancel(t)
       PROVE  [Lifecycle!Next]_Lifecycle!vars
  <2>1. UNCHANGED <<tasks, kind, built, pc>> /\ t \in tasks
    BY <1>24 DEF StoreCancel
  <2>2. CASE status[t] \in Active /\ status' = [status EXCEPT ![t] = "canceled"]
    BY <2>1, <2>2, OneStatus, LifecycleSteps DEF Active
  <2>3. CASE status' = status
    BY <2>1, <2>3, SameLife, LifecycleSteps
  <2> QED BY <1>24, <2>2, <2>3 DEF StoreCancel
<1>25. ASSUME NEW t \in Tasks, CtxExpires(t)
       PROVE  [Lifecycle!Next]_Lifecycle!vars
  <2>1. UNCHANGED <<tasks, status, kind, built>>
    BY <1>25 DEF CtxExpires
  <2>2. \A u \in Tasks : pc'[u] = "new" <=> pc[u] = "new"
    BY <1>25 DEF CtxExpires, TypeInv, TypeOK
  <2> QED BY <2>1, <2>2, SameLife, LifecycleSteps
<1>26. ASSUME NEW t \in Tasks, SyncDisconnect(t)
       PROVE  [Lifecycle!Next]_Lifecycle!vars
  <2>1. UNCHANGED <<tasks, status, kind, built>>
    BY <1>26 DEF SyncDisconnect
  <2>2. \A u \in Tasks : pc'[u] = "new" <=> pc[u] = "new"
    BY <1>26 DEF SyncDisconnect, TypeInv, TypeOK
  <2> QED BY <2>1, <2>2, SameLife, LifecycleSteps
<1>27. ASSUME NEW S \in SUBSET Tasks, deleteExpired(S)
       PROVE  [Lifecycle!Next]_Lifecycle!vars
  <2>1. /\ S \subseteq tasks
        /\ \A t \in S : status[t] \in Terminal
        /\ tasks' = tasks \ S
        /\ UNCHANGED <<status, kind, built, pc>>
    BY <1>27 DEF deleteExpired, Expired
  <2>2. \A t \in S : pc[t] # "new" /\ Life[t] \in {"succeeded", "failed", "canceled"}
    BY <2>1, LifeOf DEF StatusInv, NewIsUntouched, Terminal
  <2>3. Life' = [t \in Tasks |-> IF t \in S THEN "removed" ELSE Life[t]]
    <3>1. \A t \in S : Life'[t] = "removed"
      BY <2>1, <2>2 DEF Life
    <3>2. \A t \in Tasks \ S : Life'[t] = Life[t]
      BY <2>1 DEF Life
    <3>3. Life' = [t \in Tasks |-> Life'[t]]
      BY DEF Life
    <3> QED BY <3>1, <3>2, <3>3
  <2>4. AsksFor' = AsksFor /\ Pushed' = Pushed
    BY <2>1 DEF AsksFor, Pushed
  <2>5. Lifecycle!Expire(S)
    BY <2>2, <2>3, <2>4 DEF Lifecycle!Expire, Life, AsksFor, Pushed
  <2> QED BY <2>5 DEF Lifecycle!Next
<1>28. ASSUME NEW t \in Tasks, cleanupTaskWorkDir(t)
       PROVE  [Lifecycle!Next]_Lifecycle!vars
  <2>1. UNCHANGED <<tasks, status, kind, built>>
    BY <1>28 DEF cleanupTaskWorkDir
  <2>2. \A u \in Tasks : pc'[u] = "new" <=> pc[u] = "new"
    BY <1>28 DEF cleanupTaskWorkDir, TypeInv, TypeOK
  <2> QED BY <2>1, <2>2, SameLife, LifecycleSteps
<1>29. ASSUME RefreshAddrs
       PROVE  [Lifecycle!Next]_Lifecycle!vars
  <2>1. UNCHANGED <<tasks, status, kind, built>>
    BY <1>29 DEF RefreshAddrs
  <2>2. \A u \in Tasks : pc'[u] = "new" <=> pc[u] = "new"
    BY <1>29 DEF RefreshAddrs, TypeInv, TypeOK
  <2> QED BY <2>1, <2>2, SameLife, LifecycleSteps
<1>30. CASE UNCHANGED vars
  <2>1. UNCHANGED <<tasks, status, kind, built>>
    BY <1>30 DEF vars
  <2>2. \A u \in Tasks : pc'[u] = "new" <=> pc[u] = "new"
    BY <1>30 DEF vars, TypeInv, TypeOK
  <2> QED BY <2>1, <2>2, SameLife, LifecycleSteps
<1> QED
  BY <1>1, <1>2, <1>3, <1>4, <1>5, <1>6, <1>7, <1>8, <1>9, <1>10, <1>11, <1>12, <1>13, <1>14, <1>15, <1>16, <1>17, <1>18, <1>19, <1>20, <1>21, <1>22, <1>23, <1>24, <1>25, <1>26, <1>27, <1>28, <1>29, <1>30
  DEF Next, Goroutine, Handlers, Environment

\* The daemon keeps the promises of the HTTP API: each task is queued or
\* running until it ends in one way, with a success only once every image has
\* been pushed, and is forgotten only then, whatever goroutines, cancel
\* handlers, timeouts, retries and the reaper do.
THEOREM RefinesLifecycle == Spec => ImplementsLifecycle
<1> QED
  BY TypeInit, TypeStep, StatusInit, StatusStep, ProgressInit, ProgressStep, RefineInit,
    RefineStep, LifecycleInit, LifecycleStep, PTL
  DEF Spec, ImplementsLifecycle, Lifecycle!Spec
=============================================================================
