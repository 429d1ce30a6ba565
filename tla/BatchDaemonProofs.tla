-------------------------- MODULE BatchDaemonProofs --------------------------
(***************************************************************************)
(* The safety properties of BatchDaemon for any number of build and cancel *)
(* requests.  At most one request is in progress, and it owns buildCancel  *)
(* and buildDone: everything else is about what the requests before it,    *)
(* whose goroutines are still cleaning up, can do to it.                   *)
(***************************************************************************)
EXTENDS BatchDaemon, TLAPS

-----------------------------------------------------------------------------
(* Types and the request in progress.                                      *)

\* A cancel handler that is about to call a CancelFunc has read one.
CallHasTarget == \A c \in Cancels : cancelPc[c] = "call" => target[c] \in Requests

ReachInv == ActiveBuildIsReachable /\ CallHasTarget

\* Every action keeps the types, and keeps the request in progress the owner
\* of buildCancel and buildDone.
LEMMA ReachStep == ReachInv /\ [Next]_vars => ReachInv'
<1> SUFFICES ASSUME ReachInv, [Next]_vars PROVE ReachInv' OBVIOUS
<1> USE NoRequestAssumption
    DEF ReachInv, ActiveBuildIsReachable, TypeOK, CallHasTarget, Pcs, Active, Cleaning, Statuses,
        Goto, setBuildState, clearBuildExecution, reqVars, stateVars, fileVars, chanVars, cancelVars,
        exitVars
<1>1. ASSUME NEW r \in Requests, PostRefused(r) PROVE ReachInv'
  BY <1>1 DEF PostRefused
<1>2. ASSUME NEW r \in Requests, PostAccepted(r) PROVE ReachInv'
  BY <1>2 DEF PostAccepted, mayAccept
<1>3. ASSUME NEW r \in Requests, CreateTemp(r) PROVE ReachInv'
  <2>1. CASE Goto(r, "upload") /\ uploads' = uploads \cup {r} /\ UNCHANGED <<status, outcome>>
    BY <1>3, <2>1 DEF CreateTemp
  <2>2. CASE Goto(r, "refuse_close") /\ setBuildState(r, "failed") /\ UNCHANGED uploads
    BY <1>3, <2>2 DEF CreateTemp
  <2> QED BY <1>3, <2>1, <2>2 DEF CreateTemp
<1>4. ASSUME NEW r \in Requests, RefuseUpload(r) PROVE ReachInv'
  BY <1>4 DEF RefuseUpload
<1>5. ASSUME NEW r \in Requests, RefuseClose(r) PROVE ReachInv'
  BY <1>5 DEF RefuseClose
<1>6. ASSUME NEW r \in Requests, RefuseClear(r) PROVE ReachInv'
  BY <1>6 DEF RefuseClear
<1>7. ASSUME NEW r \in Requests, StartAsync(r) PROVE ReachInv'
  BY <1>7 DEF StartAsync, setOneshot
<1>8. ASSUME NEW r \in Requests, AsyncOptionsFail(r) PROVE ReachInv'
  BY <1>8 DEF AsyncOptionsFail
<1>9. ASSUME NEW r \in Requests, AsyncRemoveOld(r) PROVE ReachInv'
  BY <1>9 DEF AsyncRemoveOld, RemoveImageDir
<1>10. ASSUME NEW r \in Requests, Extract(r) PROVE ReachInv'
  <2>1. CASE imageDir' = imageDir \cup {r} /\ Goto(r, "build") /\ UNCHANGED <<status, outcome>>
    BY <1>10, <2>1 DEF Extract
  <2>2. CASE /\ imageDir' = imageDir \/ imageDir' = imageDir \cup {r}
             /\ setBuildState(r, "failed") /\ Goto(r, "cleanup")
    BY <1>10, <2>2 DEF Extract
  <2> QED BY <1>10, <2>1, <2>2 DEF Extract
<1>11. ASSUME NEW r \in Requests, BuildReturns(r) PROVE ReachInv'
  BY <1>11 DEF BuildReturns, buildResult
<1>12. ASSUME NEW r \in Requests, RemoveFiles(r) PROVE ReachInv'
  BY <1>12 DEF RemoveFiles
<1>13. ASSUME NEW r \in Requests, ClearExecution(r) PROVE ReachInv'
  BY <1>13 DEF ClearExecution
<1>14. ASSUME NEW r \in Requests, CloseDone(r) PROVE ReachInv'
  BY <1>14 DEF CloseDone
<1>15. ASSUME NEW r \in Requests, OneshotShutdown(r) PROVE ReachInv'
  BY <1>15 DEF OneshotShutdown
<1>16. ASSUME NEW c \in Cancels, ReadCancel(c) PROVE ReachInv'
  BY <1>16 DEF ReadCancel
<1>17. ASSUME NEW c \in Cancels, CallCancel(c) PROVE ReachInv'
  BY <1>17 DEF CallCancel, cancels
<1>18. CASE Signal BY <1>18 DEF Signal
<1>19. CASE handleShutdown BY <1>19 DEF handleShutdown
<1>20. CASE ShutdownStarts BY <1>20 DEF ShutdownStarts, awaitsNow
<1>21. CASE BuildAwaited BY <1>21 DEF BuildAwaited
<1>22. CASE WaitTimesOut BY <1>22 DEF WaitTimesOut
<1>23. CASE Exit BY <1>23 DEF Exit
<1>24. CASE UNCHANGED vars BY <1>24 DEF vars
<1> QED
  BY <1>1, <1>2, <1>3, <1>4, <1>5, <1>6, <1>7, <1>8, <1>9, <1>10, <1>11, <1>12, <1>13, <1>14,
     <1>15, <1>16, <1>17, <1>18, <1>19, <1>20, <1>21, <1>22, <1>23, <1>24
  DEF Next, Proceeds

\* At the start no request is in progress.
LEMMA ReachInit == Init => ReachInv
<1> SUFFICES ASSUME Init PROVE ReachInv OBVIOUS
<1> DEFINE seen == [cleaning |-> FALSE, ended |-> {}, closing |-> FALSE]
<1>1. seen \in [cleaning : BOOLEAN, ended : SUBSET Requests, closing : BOOLEAN]
  OBVIOUS
<1>2. admission = [r \in Requests |-> seen]
  BY DEF Init
<1>3. admission \in [Requests -> [cleaning : BOOLEAN, ended : SUBSET Requests, closing : BOOLEAN]]
  <2> HIDE DEF seen
  <2> QED BY <1>1, <1>2
<1> HIDE DEF seen
<1> QED
  BY <1>3, NoRequestAssumption
  DEF Init, ReachInv, ActiveBuildIsReachable, TypeOK, CallHasTarget, Pcs, Active, Cleaning, Statuses

\* POST /cancel and the shutdown always reach the build in progress, for any
\* number of requests whose clean-up is still going on.
THEOREM ActiveIsReachable == Spec => []ActiveBuildIsReachable
<1>1. ReachInv => ActiveBuildIsReachable BY DEF ReachInv
<1> QED BY <1>1, ReachInit, ReachStep, PTL DEF Spec

-----------------------------------------------------------------------------
(* The image directory.                                                    *)

\* Whoever has still to remove the image directory was seen by the request in
\* progress when it was accepted.
CleanerWasSeen ==
    \A r, q \in Requests : pc[r] \in Active /\ pc[q] \in Cleaning => admission[r].cleaning

\* The directory is empty when the archive of a request is extracted.
ExtractsIntoEmpty == \A r \in Requests : pc[r] = "extract" => imageDir = {}

FilesInv == CleanerWasSeen /\ ExtractsIntoEmpty /\ BuildSeesItsFiles

\* Every action keeps the files of the request in progress, or is the removal
\* it may lose them to.
LEMMA FilesStep == ReachInv /\ FilesInv /\ [Next]_vars => FilesInv'
<1> SUFFICES ASSUME ReachInv, FilesInv, [Next]_vars PROVE FilesInv' OBVIOUS
<1> USE DEF ReachInv, ActiveBuildIsReachable, TypeOK, Pcs, Active, Cleaning, FilesInv, CleanerWasSeen,
            ExtractsIntoEmpty, BuildSeesItsFiles, Goto, fileVars
<1>1. ASSUME NEW r \in Requests, PostRefused(r) PROVE FilesInv'
  BY <1>1 DEF PostRefused
<1>2. ASSUME NEW r \in Requests, PostAccepted(r) PROVE FilesInv'
  <2>1. /\ pc' = [pc EXCEPT ![r] = "accepted"] /\ imageDir' = imageDir
        /\ \A q \in Requests : pc[q] \notin Active
    BY <1>2 DEF PostAccepted, mayAccept
  <2>2. \A q \in Requests : pc[q] \in Cleaning => admission'[r].cleaning
    BY <1>2 DEF PostAccepted
  <2>3. \A u \in Requests : pc'[u] \in Active => u = r
    BY <2>1
  <2>4. \A q \in Requests : pc'[q] \in Cleaning => pc[q] \in Cleaning
    BY <2>1
  <2>5. CleanerWasSeen' BY <2>2, <2>3, <2>4
  <2> QED BY <2>1, <2>5
<1>3. ASSUME NEW r \in Requests, CreateTemp(r) PROVE FilesInv'
  <2>1. CASE Goto(r, "upload")
    BY <1>3, <2>1 DEF CreateTemp
  <2>2. CASE Goto(r, "refuse_close")
    BY <1>3, <2>2 DEF CreateTemp
  <2> QED BY <1>3, <2>1, <2>2 DEF CreateTemp
<1>4. ASSUME NEW r \in Requests, RefuseUpload(r) PROVE FilesInv'
  BY <1>4 DEF RefuseUpload
<1>5. ASSUME NEW r \in Requests, RefuseClose(r) PROVE FilesInv'
  BY <1>5 DEF RefuseClose
<1>6. ASSUME NEW r \in Requests, RefuseClear(r) PROVE FilesInv'
  BY <1>6 DEF RefuseClear
<1>7. ASSUME NEW r \in Requests, StartAsync(r) PROVE FilesInv'
  BY <1>7 DEF StartAsync
<1>8. ASSUME NEW r \in Requests, AsyncOptionsFail(r) PROVE FilesInv'
  BY <1>8 DEF AsyncOptionsFail
<1>9. ASSUME NEW r \in Requests, AsyncRemoveOld(r) PROVE FilesInv'
  BY <1>9 DEF AsyncRemoveOld, RemoveImageDir
<1>10. ASSUME NEW r \in Requests, Extract(r) PROVE FilesInv'
  <2>1. /\ pc[r] = "extract" /\ imageDir = {} /\ admission' = admission
        /\ \A q \in Requests \ {r} : pc[q] \notin Active
    BY <1>10 DEF Extract
  <2>2. CASE imageDir' = imageDir \cup {r} /\ Goto(r, "build")
    <3>1. imageDir' = {r} BY <2>1, <2>2
    <3> QED BY <2>1, <2>2, <3>1
  <2>3. CASE Goto(r, "cleanup")
    BY <2>1, <2>3
  <2> QED BY <1>10, <2>2, <2>3 DEF Extract
<1>11. ASSUME NEW r \in Requests, BuildReturns(r) PROVE FilesInv'
  BY <1>11 DEF BuildReturns
<1>12. ASSUME NEW r \in Requests, RemoveFiles(r) PROVE FilesInv'
  BY <1>12 DEF RemoveFiles
<1>13. ASSUME NEW r \in Requests, ClearExecution(r) PROVE FilesInv'
  BY <1>13 DEF ClearExecution
<1>14. ASSUME NEW r \in Requests, CloseDone(r) PROVE FilesInv'
  BY <1>14 DEF CloseDone
<1>15. ASSUME NEW r \in Requests, OneshotShutdown(r) PROVE FilesInv'
  BY <1>15 DEF OneshotShutdown
<1>16. CASE UNCHANGED <<reqVars, fileVars>>
  BY <1>16 DEF reqVars
<1> QED
  BY <1>1, <1>2, <1>3, <1>4, <1>5, <1>6, <1>7, <1>8, <1>9, <1>10, <1>11, <1>12, <1>13, <1>14,
     <1>15, <1>16
  DEF Next, Proceeds, vars, ReadCancel, CallCancel, Signal, handleShutdown, ShutdownStarts,
      BuildAwaited, WaitTimesOut, Exit

\* A build never reads files of another request, and loses its own only to the
\* removal of a predecessor that was still cleaning up when it was accepted.
THEOREM BuildSeesOwnFiles == Spec => []BuildSeesItsFiles
<1>1. Init => FilesInv
  BY DEF Init, FilesInv, CleanerWasSeen, ExtractsIntoEmpty, BuildSeesItsFiles, Active, Cleaning
<1>2. FilesInv => BuildSeesItsFiles BY DEF FilesInv
<1> QED BY <1>1, <1>2, ReachInit, ReachStep, FilesStep, PTL DEF Spec

-----------------------------------------------------------------------------
(* The exit.                                                               *)

\* The channel of a request in progress is open.
DoneIsPast == \A r \in doneClosed : pc[r] \in {"refuse_clear", "trigger", "ended"}

\* A request in progress is awaited by the shutdown, or came after it, or the
\* shutdown has given up.
ActiveIsAwaited ==
    /\ closing # "idle" =>
          \A r \in Requests : pc[r] \in Active => awaited = r \/ admission[r].closing
    /\ closing = "http" /\ ~timedOut =>
          \A r \in Requests : pc[r] \in Active => admission[r].closing
    /\ exit # "none" => closing = "http"

\* A failure is what the state says until a later request overwrites it, which
\* saw that failure as it was accepted.
FailureIsSeen ==
    /\ \A r \in Requests : pc[r] = "new" => admission[r].ended = {}
    /\ \A r \in Requests : wantsExit[r] => oneshot
    /\ \A r \in Requests :
          outcome[r] = "failed" => status = "failed" \/ \E q \in Requests : r \in admission[q].ended

ExitInv == DoneIsPast /\ ActiveIsAwaited /\ FailureIsSeen /\ ExitIsOrderly

\* A step that gives no request a terminal state and accepts none.
LEMMA NothingEnds ==
    ASSUME ReachInv, ExitInv, exit = "none",
           UNCHANGED <<outcome, admission, status, oneshot, wantsExit, exitVars>>,
           \A r \in Requests : pc'[r] = "new" => pc[r] = "new",
           \A r \in Requests : pc'[r] \in Active => pc[r] \in Active,
           DoneIsPast'
    PROVE  ExitInv'
BY DEF ExitInv, ActiveIsAwaited, FailureIsSeen, ExitIsOrderly, exitVars

\* A step that gives the request in progress its terminal state.
LEMMA RequestEnds ==
    ASSUME ReachInv, ExitInv, exit = "none", NEW r \in Requests, pc[r] \in Active,
           NEW st \in {"failed", "completed"}, setBuildState(r, st),
           UNCHANGED <<admission, oneshot, wantsExit, doneClosed, exitVars>>,
           NEW label \in {"refuse_close", "cleanup"}, Goto(r, label)
    PROVE  ExitInv'
<1> USE DEF ReachInv, ActiveBuildIsReachable, TypeOK, ExitInv, Active, Goto, setBuildState, exitVars
<1>1. DoneIsPast' BY DEF DoneIsPast
<1>2. ActiveIsAwaited' BY DEF ActiveIsAwaited
<1>3. status = "running" OBVIOUS
<1>4. FailureIsSeen' BY <1>3 DEF FailureIsSeen
<1>5. ExitIsOrderly' BY DEF ExitIsOrderly
<1> QED BY <1>1, <1>2, <1>4, <1>5

\* Every action keeps the facts the exit depends on.
LEMMA ExitStep == ReachInv /\ ExitInv /\ [Next]_vars => ExitInv'
<1> SUFFICES ASSUME ReachInv, ExitInv, [Next]_vars PROVE ExitInv' OBVIOUS
<1> USE DEF Goto, Active
<1>0. pc \in [Requests -> Pcs] /\ DoneIsPast
  BY DEF ReachInv, ActiveBuildIsReachable, TypeOK, ExitInv
<1>1. ASSUME NEW r \in Requests, PostRefused(r) PROVE ExitInv'
  <2>1. DoneIsPast' BY <1>0, <1>1 DEF PostRefused, DoneIsPast, chanVars
  <2> QED BY <1>0, <1>1, <2>1, NothingEnds DEF PostRefused, Serving, stateVars
<1>2. ASSUME NEW r \in Requests, PostAccepted(r) PROVE ExitInv'
  <2> USE <1>2 DEF PostAccepted, Serving, mayAccept, ExitInv, exitVars, chanVars
  <2>1. \A q \in Requests : pc[q] \notin Active
    BY DEF ReachInv, ActiveBuildIsReachable
  <2>2. DoneIsPast' BY <1>0 DEF DoneIsPast
  <2>3. admission'[r].closing = (closing # "idle") /\ \A q \in Requests \ {r} : admission'[q] = admission[q]
    BY DEF ReachInv, ActiveBuildIsReachable, TypeOK
  <2>4. ActiveIsAwaited' BY <1>0, <2>1, <2>3 DEF ActiveIsAwaited
  <2>5. admission'[r].ended = {q \in Requests : outcome[q] # "none"} /\ admission[r].ended = {}
    BY DEF FailureIsSeen, ReachInv, ActiveBuildIsReachable, TypeOK
  <2>6. FailureIsSeen' BY <1>0, <2>3, <2>5 DEF FailureIsSeen
  <2>7. ExitIsOrderly' BY DEF ExitIsOrderly
  <2> QED BY <2>2, <2>4, <2>6, <2>7
<1>3. ASSUME NEW r \in Requests, CreateTemp(r) PROVE ExitInv'
  <2>1. CASE Goto(r, "upload") /\ UNCHANGED <<status, outcome>>
    <3>1. DoneIsPast' BY <1>0, <1>3, <2>1 DEF CreateTemp, DoneIsPast, chanVars
    <3> QED BY <1>0, <1>3, <2>1, <3>1, NothingEnds DEF CreateTemp
  <2>2. CASE Goto(r, "refuse_close") /\ setBuildState(r, "failed")
    BY <1>3, <2>2, RequestEnds DEF CreateTemp, chanVars
  <2> QED BY <1>3, <2>1, <2>2 DEF CreateTemp
<1>4. ASSUME NEW r \in Requests, RefuseUpload(r) PROVE ExitInv'
  BY <1>4, RequestEnds DEF RefuseUpload, chanVars
<1>5. ASSUME NEW r \in Requests, RefuseClose(r) PROVE ExitInv'
  <2>1. DoneIsPast' BY <1>0, <1>5 DEF RefuseClose, DoneIsPast
  <2> QED BY <1>0, <1>5, <2>1, NothingEnds DEF RefuseClose, stateVars
<1>6. ASSUME NEW r \in Requests, RefuseClear(r) PROVE ExitInv'
  <2>1. DoneIsPast' BY <1>0, <1>6 DEF RefuseClear, DoneIsPast, chanVars
  <2> QED BY <1>0, <1>6, <2>1, NothingEnds DEF RefuseClear
<1>7. ASSUME NEW r \in Requests, StartAsync(r) PROVE ExitInv'
  <2> USE <1>0, <1>7 DEF StartAsync, setOneshot, ExitInv, exitVars, chanVars
  <2>1. DoneIsPast' BY DEF DoneIsPast
  <2>2. ActiveIsAwaited' BY DEF ActiveIsAwaited
  <2>3. FailureIsSeen' BY DEF FailureIsSeen, ReachInv, ActiveBuildIsReachable, TypeOK
  <2>4. ExitIsOrderly' BY DEF ExitIsOrderly
  <2> QED BY <2>1, <2>2, <2>3, <2>4
<1>8. ASSUME NEW r \in Requests, AsyncOptionsFail(r) PROVE ExitInv'
  BY <1>8, RequestEnds DEF AsyncOptionsFail, chanVars
<1>9. ASSUME NEW r \in Requests, AsyncRemoveOld(r) PROVE ExitInv'
  <2>1. DoneIsPast' BY <1>0, <1>9 DEF AsyncRemoveOld, DoneIsPast, chanVars
  <2> QED BY <1>0, <1>9, <2>1, NothingEnds DEF AsyncRemoveOld, stateVars
<1>10. ASSUME NEW r \in Requests, Extract(r) PROVE ExitInv'
  <2>1. CASE Goto(r, "build") /\ UNCHANGED <<status, outcome>>
    <3>1. DoneIsPast' BY <1>0, <1>10, <2>1 DEF Extract, DoneIsPast, chanVars
    <3> QED BY <1>0, <1>10, <2>1, <3>1, NothingEnds DEF Extract
  <2>2. CASE Goto(r, "cleanup") /\ setBuildState(r, "failed")
    BY <1>10, <2>2, RequestEnds DEF Extract, chanVars
  <2> QED BY <1>10, <2>1, <2>2 DEF Extract
<1>11. ASSUME NEW r \in Requests, BuildReturns(r) PROVE ExitInv'
  BY <1>11, RequestEnds DEF BuildReturns, buildResult, chanVars
<1>12. ASSUME NEW r \in Requests, RemoveFiles(r) PROVE ExitInv'
  <2>1. DoneIsPast' BY <1>0, <1>12 DEF RemoveFiles, DoneIsPast, chanVars
  <2> QED BY <1>0, <1>12, <2>1, NothingEnds DEF RemoveFiles, stateVars
<1>13. ASSUME NEW r \in Requests, ClearExecution(r) PROVE ExitInv'
  <2>1. DoneIsPast' BY <1>0, <1>13 DEF ClearExecution, DoneIsPast, chanVars
  <2> QED BY <1>0, <1>13, <2>1, NothingEnds DEF ClearExecution
<1>14. ASSUME NEW r \in Requests, CloseDone(r) PROVE ExitInv'
  <2>1. DoneIsPast' BY <1>0, <1>14 DEF CloseDone, DoneIsPast
  <2> QED BY <1>0, <1>14, <2>1, NothingEnds DEF CloseDone, stateVars
<1>15. ASSUME NEW r \in Requests, OneshotShutdown(r) PROVE ExitInv'
  <2> USE <1>0, <1>15 DEF OneshotShutdown, ExitInv, chanVars, stateVars
  <2>1. DoneIsPast' BY DEF DoneIsPast
  <2>2. ActiveIsAwaited' BY DEF ActiveIsAwaited
  <2>3. FailureIsSeen' BY DEF FailureIsSeen
  <2>4. ExitIsOrderly' BY DEF ExitIsOrderly
  <2> QED BY <2>1, <2>2, <2>3, <2>4
<1>16. CASE ShutdownStarts
  BY <1>16 DEF ShutdownStarts, awaitsNow, ReachInv, ActiveBuildIsReachable, ExitInv, DoneIsPast,
      ActiveIsAwaited, FailureIsSeen, ExitIsOrderly, reqVars, stateVars, chanVars
<1>17. CASE BuildAwaited
  BY <1>17, NoRequestAssumption DEF BuildAwaited, ExitInv, DoneIsPast, ActiveIsAwaited, FailureIsSeen,
      ExitIsOrderly, reqVars, stateVars, chanVars
<1>18. CASE WaitTimesOut
  BY <1>18 DEF WaitTimesOut, ExitInv, DoneIsPast, ActiveIsAwaited, FailureIsSeen, ExitIsOrderly,
      reqVars, stateVars, chanVars
<1>19. CASE Exit
  BY <1>19 DEF Exit, completionError, ExitInv, DoneIsPast, ActiveIsAwaited, FailureIsSeen,
      ExitIsOrderly, reqVars, stateVars, chanVars
<1>20. CASE UNCHANGED <<reqVars, stateVars, doneClosed, closing, awaited, timedOut, exit>>
  BY <1>20 DEF ExitInv, DoneIsPast, ActiveIsAwaited, FailureIsSeen, ExitIsOrderly, reqVars, stateVars
<1> QED
  BY <1>1, <1>2, <1>3, <1>4, <1>5, <1>6, <1>7, <1>8, <1>9, <1>10, <1>11, <1>12, <1>13, <1>14,
     <1>15, <1>16, <1>17, <1>18, <1>19, <1>20
  DEF Next, Proceeds, vars, chanVars, exitVars, ReadCancel, CallCancel, Signal, handleShutdown

\* A graceful exit kills only builds that came after the shutdown had begun or
\* outlasted its 30 s, and hides the failure of a oneshot build only behind a
\* later request.
THEOREM ExitsInOrder == Spec => []ExitIsOrderly
<1>1. Init => ExitInv
  BY DEF Init, ExitInv, DoneIsPast, ActiveIsAwaited, FailureIsSeen, ExitIsOrderly, Active
<1>2. ExitInv => ExitIsOrderly BY DEF ExitInv
<1> QED BY <1>1, <1>2, ReachInit, ReachStep, ExitStep, PTL DEF Spec
=============================================================================
