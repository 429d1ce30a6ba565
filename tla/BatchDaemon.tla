----------------------------- MODULE BatchDaemon ----------------------------
(***************************************************************************)
(* The HTTP daemon of buildctl-batch (internal/buildbatch/daemon.go and    *)
(* daemon_handlers.go).  One build at a time: POST /build is refused with  *)
(* 409 while the state says "running"; an accepted request is uploaded and *)
(* validated by its handler and then built by a goroutine of its own,      *)
(* which works in one directory shared by all requests.  POST /cancel      *)
(* and a graceful shutdown reach the current build through two fields,     *)
(* buildCancel and buildDone, that are set and cleared together.           *)
(*                                                                         *)
(* An action is what runs between two points where another goroutine can   *)
(* get in: a critical section of s.mu, or a call that touches the image    *)
(* directory, a channel or the process.  What runBuildCommand does is the  *)
(* subject of BatchScheduler; here it returns nil or an error.             *)
(***************************************************************************)
EXTENDS Naturals, FiniteSets

CONSTANTS
    Requests,     \* the POST /build requests clients may send
    Cancels,      \* the POST /build/cancel requests clients may send
    NoRequest     \* a nil buildDone and buildCancel

ASSUME NoRequestAssumption == NoRequest \notin Requests

VARIABLES
    pc,         \* per request: where its handler or its goroutine is
    wantsExit,  \* per request: the oneshot argument of its runBuildAsync
    status,     \* s.build.Status
    current,    \* s.buildDone and s.buildCancel: the request they belong to
    oneshot,    \* s.oneshot
    cancelled,  \* requests whose context is cancelled
    doneClosed, \* requests whose done channel is closed
    uploads,    \* requests whose temporary zip exists
    imageDir,   \* requests whose extracted files are in daemonImageDir
    outcome,    \* per request: the terminal state it was given
    cancelPc,   \* per cancel request: where its handler is
    target,     \* per cancel request: the CancelFunc its handler has read
    stopping,   \* s.shutdownCh is closed or the context of runDaemon is done
    closing,    \* the shutdown goroutine: "idle", "waiting" or "http"
    awaited,    \* the done channel gracefulShutdown waits for
    timedOut,   \* the 30 s of gracefulShutdown have passed
    exit,       \* the result of runDaemon: "none" while it runs
    admission   \* history: what was true when the request was accepted

reqVars == <<pc, wantsExit, outcome, admission>>
stateVars == <<status, current, oneshot>>
fileVars == <<uploads, imageDir>>
chanVars == <<cancelled, doneClosed>>
cancelVars == <<cancelPc, target>>
exitVars == <<stopping, closing, awaited, timedOut, exit>>
vars == <<reqVars, stateVars, fileVars, chanVars, cancelVars, exitVars>>

Statuses == {"idle", "running", "failed", "completed"}

\* The request has been accepted and its state is not yet terminal.
Active == {"accepted", "upload", "async", "extract", "build"}
\* Its state is terminal and its goroutine still has the image directory to remove.
Cleaning == {"cleanup"}
Pcs == {"new", "refuse_close", "refuse_clear", "clear", "close", "trigger", "ended"}
           \cup Active \cup Cleaning

-----------------------------------------------------------------------------
Init ==
    /\ pc = [r \in Requests |-> "new"]
    /\ wantsExit = [r \in Requests |-> FALSE]
    /\ outcome = [r \in Requests |-> "none"]
    /\ admission = [r \in Requests |-> [cleaning |-> FALSE, ended |-> {}, closing |-> FALSE]]
    /\ status = "idle" /\ current = NoRequest /\ oneshot = FALSE
    /\ uploads = {} /\ imageDir = {}
    /\ cancelled = {} /\ doneClosed = {}
    /\ cancelPc = [c \in Cancels |-> "new"]
    /\ target = [c \in Cancels |-> NoRequest]
    /\ stopping = FALSE
    /\ closing = "idle" /\ awaited = NoRequest /\ timedOut = FALSE
    /\ exit = "none"

Goto(r, label) == pc' = [pc EXCEPT ![r] = label]

\* setBuildState with a terminal state.
setBuildState(r, st) ==
    /\ status' = st
    /\ outcome' = [outcome EXCEPT ![r] = st]

clearAnyExecution(r) == current' = NoRequest
\* clearBuildExecution(done): only the request that owns the fields clears them.
clearBuildExecution(r) == current' = IF current = r THEN NoRequest ELSE current

-----------------------------------------------------------------------------
(* handleBuildPost *)

\* A connection accepted before Shutdown closed the listener is still served.
Serving == exit = "none"

mayAccept == status # "running"

\* The first critical section: 409 for a second build, or the new execution.
PostRefused(r) ==
    /\ Serving /\ pc[r] = "new" /\ ~mayAccept
    /\ Goto(r, "ended")
    /\ UNCHANGED <<wantsExit, outcome, admission, stateVars, fileVars, chanVars, cancelVars, exitVars>>

PostAccepted(r) ==
    /\ Serving /\ pc[r] = "new" /\ mayAccept
    /\ Goto(r, "accepted")
    /\ status' = "running" /\ current' = r
    /\ admission' = [admission EXCEPT ![r] =
            [cleaning |-> \E q \in Requests : pc[q] \in Cleaning,
             ended    |-> {q \in Requests : outcome[q] # "none"},
             closing  |-> closing # "idle"]]
    /\ UNCHANGED <<wantsExit, outcome, oneshot, fileVars, chanVars, cancelVars, exitVars>>

\* CreateTemp fails, or it succeeds and the body is copied into the file.
CreateTemp(r) ==
    /\ exit = "none" /\ pc[r] = "accepted"
    /\ \/ Goto(r, "upload") /\ uploads' = uploads \cup {r}
          /\ UNCHANGED <<status, outcome>>
       \/ Goto(r, "refuse_close") /\ setBuildState(r, "failed")
          /\ UNCHANGED uploads
    /\ UNCHANGED <<wantsExit, admission, current, oneshot, imageDir, chanVars, cancelVars, exitVars>>

\* The copy fails or is too large: the file goes before the state changes.
\* The query or the archive is invalid: the file goes last (RefuseClear).
RefuseUpload(r) ==
    /\ exit = "none" /\ pc[r] = "upload"
    /\ setBuildState(r, "failed")
    /\ uploads' \in {uploads, uploads \ {r}}
    /\ Goto(r, "refuse_close")
    /\ UNCHANGED <<wantsExit, admission, current, oneshot, imageDir, chanVars, cancelVars, exitVars>>

RefuseClose(r) ==
    /\ exit = "none" /\ pc[r] = "refuse_close"
    /\ cancelled' = cancelled \cup {r}
    /\ doneClosed' = doneClosed \cup {r}
    /\ Goto(r, "refuse_clear")
    /\ UNCHANGED <<wantsExit, outcome, admission, stateVars, fileVars, cancelVars, exitVars>>

RefuseClear(r) ==
    /\ exit = "none" /\ pc[r] = "refuse_clear"
    /\ clearBuildExecution(r)
    /\ uploads' = uploads \ {r}
    /\ Goto(r, "ended")
    /\ UNCHANGED <<wantsExit, outcome, admission, status, oneshot, imageDir, chanVars, cancelVars, exitVars>>

\* s.oneshot is set by the first request that asks for it and never reset.
setOneshot(asked) == oneshot' = (oneshot \/ asked)

\* The upload is valid: the build goes on in a goroutine, the client gets 202.
StartAsync(r) ==
    /\ exit = "none" /\ pc[r] = "upload"
    /\ \E asked \in BOOLEAN :
          /\ setOneshot(asked)
          /\ wantsExit' = [wantsExit EXCEPT ![r] = asked]
    /\ Goto(r, "async")
    /\ UNCHANGED <<outcome, admission, status, current, fileVars, chanVars, cancelVars, exitVars>>

-----------------------------------------------------------------------------
(* runBuildAsync and, in the order they run, its deferred calls *)

\* The options are parsed again, which resolves the worker addresses again.
AsyncOptionsFail(r) ==
    /\ exit = "none" /\ pc[r] = "async"
    /\ setBuildState(r, "failed")
    /\ Goto(r, "cleanup")
    /\ UNCHANGED <<wantsExit, admission, current, oneshot, fileVars, chanVars, cancelVars, exitVars>>

RemoveImageDirSkipped == UNCHANGED imageDir
RemoveImageDir == imageDir' = {}

AsyncRemoveOld(r) ==
    /\ exit = "none" /\ pc[r] = "async"
    /\ RemoveImageDir
    /\ Goto(r, "extract")
    /\ UNCHANGED <<wantsExit, outcome, admission, stateVars, uploads, chanVars, cancelVars, exitVars>>

\* extractZip; when it fails it may leave some of the files behind.
Extract(r) ==
    /\ exit = "none" /\ pc[r] = "extract"
    /\ \/ imageDir' = imageDir \cup {r}
          /\ Goto(r, "build")
          /\ UNCHANGED <<status, outcome>>
       \/ imageDir' \in {imageDir, imageDir \cup {r}}
          /\ setBuildState(r, "failed")
          /\ Goto(r, "cleanup")
    /\ UNCHANGED <<wantsExit, admission, current, oneshot, uploads, chanVars, cancelVars, exitVars>>

\* The states runBuildAsync sets when runBuildCommand returns.
buildResult == {"completed", "failed"}

BuildReturns(r) ==
    /\ exit = "none" /\ pc[r] = "build"
    /\ \E st \in buildResult : setBuildState(r, st)
    /\ Goto(r, "cleanup")
    /\ UNCHANGED <<wantsExit, admission, current, oneshot, fileVars, chanVars, cancelVars, exitVars>>

RemoveFiles(r) ==
    /\ exit = "none" /\ pc[r] = "cleanup"
    /\ imageDir' = {}
    /\ uploads' = uploads \ {r}
    /\ Goto(r, "clear")
    /\ UNCHANGED <<wantsExit, outcome, admission, stateVars, chanVars, cancelVars, exitVars>>

ClearExecution(r) ==
    /\ exit = "none" /\ pc[r] = "clear"
    /\ clearBuildExecution(r)
    /\ Goto(r, "close")
    /\ UNCHANGED <<wantsExit, outcome, admission, status, oneshot, fileVars, chanVars, cancelVars, exitVars>>

\* triggerShutdown is deferred for every oneshot build, whatever its result.
exitsAfter(r) == wantsExit[r]

CloseDone(r) ==
    /\ exit = "none" /\ pc[r] = "close"
    /\ doneClosed' = doneClosed \cup {r}
    /\ Goto(r, IF exitsAfter(r) THEN "trigger" ELSE "ended")
    /\ UNCHANGED <<wantsExit, outcome, admission, stateVars, fileVars, cancelled, cancelVars, exitVars>>

OneshotShutdown(r) ==
    /\ exit = "none" /\ pc[r] = "trigger"
    /\ stopping' = TRUE
    /\ Goto(r, "ended")
    /\ UNCHANGED <<wantsExit, outcome, admission, stateVars, fileVars, chanVars, cancelVars,
                   closing, awaited, timedOut, exit>>

-----------------------------------------------------------------------------
(* handleBuildCancel: the state and the CancelFunc are read under the lock, *)
(* the CancelFunc is called after it.                                      *)

ReadCancel(c) ==
    /\ Serving /\ cancelPc[c] = "new"
    /\ IF status # "running" \/ current = NoRequest
       THEN cancelPc' = [cancelPc EXCEPT ![c] = "ended"] /\ UNCHANGED target
       ELSE /\ cancelPc' = [cancelPc EXCEPT ![c] = "call"]
            /\ target' = [target EXCEPT ![c] = current]
    /\ UNCHANGED <<reqVars, stateVars, fileVars, chanVars, exitVars>>

\* The context a handler cancels: the one it read, whatever runs now.
cancels(c) == {target[c]}

CallCancel(c) ==
    /\ exit = "none" /\ cancelPc[c] = "call"
    /\ cancelled' = cancelled \cup cancels(c)
    /\ cancelPc' = [cancelPc EXCEPT ![c] = "ended"]
    /\ UNCHANGED <<reqVars, stateVars, fileVars, doneClosed, target, exitVars>>

-----------------------------------------------------------------------------
(* Shutdown: a signal, POST /shutdown or a oneshot build.  The shutdown     *)
(* goroutine selects on ctx.Done and shutdownCh and does the same for both; *)
(* a second cause changes nothing.                                         *)

Signal ==
    /\ closing = "idle" /\ ~stopping
    /\ stopping' = TRUE
    /\ UNCHANGED <<reqVars, stateVars, fileVars, chanVars, cancelVars,
                   closing, awaited, timedOut, exit>>

handleShutdown ==
    /\ closing = "idle" /\ ~stopping
    /\ stopping' = TRUE
    /\ UNCHANGED <<reqVars, stateVars, fileVars, chanVars, cancelVars,
                   closing, awaited, timedOut, exit>>

awaitsUnlessOneshot == IF oneshot THEN NoRequest ELSE current
\* gracefulShutdown reads buildDone once.
awaitsNow == current

ShutdownStarts ==
    /\ exit = "none" /\ closing = "idle"
    /\ stopping
    /\ awaited' = awaitsNow
    /\ closing' = "waiting"
    /\ UNCHANGED <<reqVars, stateVars, fileVars, chanVars, cancelVars,
                   stopping, timedOut, exit>>

\* httpSrv.Shutdown closes the listener; Serve returns at once.
BuildAwaited ==
    /\ exit = "none" /\ closing = "waiting"
    /\ awaited = NoRequest \/ awaited \in doneClosed
    /\ closing' = "http"
    /\ UNCHANGED <<reqVars, stateVars, fileVars, chanVars, cancelVars,
                   stopping, awaited, timedOut, exit>>

waitTimesOutNever == FALSE
waitTimesOut == awaited # NoRequest

WaitTimesOut ==
    /\ exit = "none" /\ closing = "waiting"
    /\ waitTimesOut
    /\ timedOut' = TRUE
    /\ closing' = "http"
    /\ UNCHANGED <<reqVars, stateVars, fileVars, chanVars, cancelVars,
                   stopping, awaited, exit>>

completionError == oneshot /\ status = "failed"

\* Serve has returned: runDaemon returns and the process ends, goroutines and all.
Exit ==
    /\ exit = "none" /\ closing = "http"
    /\ exit' = IF completionError THEN "error" ELSE "nil"
    /\ UNCHANGED <<reqVars, stateVars, fileVars, chanVars, cancelVars,
                   stopping, closing, awaited, timedOut>>

-----------------------------------------------------------------------------
\* The steps of a request that nothing but its own goroutine delays.
Proceeds(r) ==
    \/ CreateTemp(r) \/ RefuseClose(r) \/ RefuseClear(r)
    \/ AsyncRemoveOld(r) \/ Extract(r)
    \/ RemoveFiles(r) \/ ClearExecution(r) \/ CloseDone(r) \/ OneshotShutdown(r)

Next ==
    \/ \E r \in Requests :
          \/ PostRefused(r) \/ PostAccepted(r) \/ RefuseUpload(r) \/ StartAsync(r)
          \/ AsyncOptionsFail(r) \/ BuildReturns(r) \/ Proceeds(r)
    \/ \E c \in Cancels : ReadCancel(c) \/ CallCancel(c)
    \/ Signal \/ handleShutdown
    \/ ShutdownStarts \/ BuildAwaited \/ WaitTimesOut \/ Exit

Spec == Init /\ [][Next]_vars

\* Goroutines that can run do run and the timer of gracefulShutdown fires.
\* Nothing is assumed of clients, of an upload or of runBuildCommand.
Fairness ==
    /\ \A r \in Requests : WF_vars(Proceeds(r))
    /\ WF_vars(ShutdownStarts)
    /\ WF_vars(BuildAwaited \/ WaitTimesOut)
    /\ WF_vars(Exit)

FairSpec == Spec /\ Fairness

-----------------------------------------------------------------------------
(* Properties *)

\* Every variable stays in its type; setBuildState only writes known states.
TypeOK ==
    /\ pc \in [Requests -> Pcs]
    /\ wantsExit \in [Requests -> BOOLEAN]
    /\ outcome \in [Requests -> {"none", "failed", "completed"}]
    /\ status \in Statuses
    /\ current \in Requests \cup {NoRequest}
    /\ oneshot \in BOOLEAN
    /\ cancelled \subseteq Requests /\ doneClosed \subseteq Requests
    /\ uploads \subseteq Requests /\ imageDir \subseteq Requests
    /\ cancelPc \in [Cancels -> {"new", "call", "ended"}]
    /\ target \in [Cancels -> Requests \cup {NoRequest}]
    /\ stopping \in BOOLEAN /\ timedOut \in BOOLEAN
    /\ closing \in {"idle", "waiting", "http"}
    /\ awaited \in Requests \cup {NoRequest}
    /\ exit \in {"none", "nil", "error"}
    /\ admission \in [Requests -> [cleaning : BOOLEAN, ended : SUBSET Requests, closing : BOOLEAN]]

\* A build in progress is always the one POST /cancel and the shutdown reach:
\* the clean-up of an earlier request, which may run long after the next one
\* was accepted, never takes its buildCancel and buildDone away.
ActiveBuildIsReachable ==
    /\ TypeOK
    /\ \A r \in Requests : pc[r] \in Active => status = "running" /\ current = r

\* A build never reads files of another request from the shared directory, and
\* it loses its own only to the deferred removal of a predecessor that had
\* announced its terminal state but not yet cleaned up when this request was
\* accepted (runBuildAsync); nothing else removes them.
BuildSeesItsFiles ==
    \A r \in Requests :
        pc[r] = "build" => \/ imageDir = {r}
                           \/ imageDir = {} /\ admission[r].cleaning

\* A graceful exit kills no build, unless it was accepted after the shutdown
\* had begun or the 30 s had passed (gracefulShutdown); and a failed oneshot
\* build makes the process fail, unless a later request was accepted before
\* the exit and overwrote the state that completionError reads.
ExitIsOrderly ==
    /\ exit # "none" /\ ~timedOut =>
          \A r \in Requests : pc[r] \in Active => admission[r].closing
    /\ exit = "nil" =>
          \A r \in Requests :
             wantsExit[r] /\ outcome[r] = "failed"
             => \E q \in Requests : r \in admission[q].ended

\* Once asked to stop, by a signal, a client or the end of a oneshot build,
\* the process ends, even if the build never does.
DaemonExits ==
    \A r \in Requests :
        stopping \/ (pc[r] = "cleanup" /\ wantsExit[r]) ~> exit # "none"
=============================================================================
