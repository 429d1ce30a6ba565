------------------------------- MODULE WorkDir ------------------------------
(***************************************************************************)
(* The work directory of buildctl-daemon and its byte budget               *)
(* (internal/builddaemon/build_request.go, workspace.go).  A request holds *)
(* admissionMu while it measures the directory, reads its upload, saves    *)
(* and extracts it.  Meanwhile the builds admitted before it write logs    *)
(* and Nydus contexts, and the reaper removes what has expired.            *)
(*                                                                         *)
(* Sizes are in bytes, scaled down.  An upload is a record: the bytes of   *)
(* the multipart body, the bytes of the zip in it and the archive's        *)
(* entries, each with a top directory ("." is the root, ".." a path that   *)
(* leaves it), whether it is a Dockerfile, the size its header declares    *)
(* and the size it unpacks to.                                             *)
(***************************************************************************)
EXTENDS Integers, Sequences, FiniteSets

CONSTANTS
    Tasks,             \* the requests; a request and its task share a name
    Uploads,           \* what clients send
    MaxRetainedTasks,
    MaxWorkDirBytes,
    MaxRequestBytes,
    MaxExtractedBytes,
    MaxArchiveFiles,
    MaxLogBytes,
    RewriteBytes,      \* what the Dockerfile preprocessor adds at most
    NydusBytes,        \* size of the nydus-from-oci context
    MaxFaults,         \* bound: crashes of the daemon and failed removals
    NoTask

EntryType == [dir : STRING, dockerfile : BOOLEAN, declared : Nat, actual : Nat]
UploadType == [body : Nat, zip : Nat, entries : Seq(EntryType)]

ASSUME WorkDirAssumption ==
    /\ IsFiniteSet(Tasks) /\ NoTask \notin Tasks
    /\ {MaxRetainedTasks, MaxWorkDirBytes, MaxRequestBytes, MaxExtractedBytes,
        MaxArchiveFiles, MaxLogBytes, NydusBytes} \subseteq Nat \ {0}
    /\ RewriteBytes \in Nat /\ MaxFaults \in Nat
    /\ \A u \in Uploads : u \in UploadType /\ u.zip <= u.body

VARIABLES
    lock,       \* holder of admissionMu
    pc,         \* per request: where handleCreateBuild is
    upload,     \* per request: what the client sends
    answer,     \* per request: the HTTP status
    scan,       \* directorySize: directories to visit, files listed, the sum
    left,       \* remainingWorkDirBytes of the request that holds the lock
    at,         \* the next archive entry it extracts
    dirs,       \* the task directories on disk
    disk,       \* per task: bytes of each file in its directory
    store,      \* tasks in the store
    terminal,   \* tasks whose status is final
    runner,     \* per task: "none", "queued", "running", "converted", "ended"
    logLeft,    \* per task: limitedLogWriter.remaining
    removing,   \* expired tasks whose directory is being removed
    faults,
    \* History.
    unlinked,   \* tasks whose open log file has been unlinked
    late,       \* tasks whose runner wrote after they had left the store
    lost,       \* directories that a crash left behind
    bare,       \* task directories without a context: MkdirAll failed halfway
    kept,       \* directories that a RemoveAll failed to remove
    measured    \* what directorySize returned to the holder of the lock

handlerVars == <<lock, pc, upload, answer, scan, left, at, measured>>
taskVars == <<store, terminal, runner, logLeft, removing, unlinked, late>>
failVars == <<faults, lost, bare, kept>>
vars == <<handlerVars, dirs, disk, taskVars, failVars>>

Files == {"log", "context", "nydus", "zip"}
\* The ones that are directories of their own, with files in them.
Subdirs == {"context", "nydus"}
NoFiles == [k \in Files |-> 0]
NoScan == [todo |-> {}, files |-> <<>>, sum |-> 0]
Running == {"running", "converted"}
NoUpload == [body |-> 0, zip |-> 0, entries |-> <<>>]
Lesser(a, b) == IF a < b THEN a ELSE b

Init ==
    /\ lock = NoTask
    /\ pc = [t \in Tasks |-> "new"]
    /\ upload = [t \in Tasks |-> NoUpload]
    /\ answer = [t \in Tasks |-> 0]
    /\ scan = NoScan
    /\ left = 0
    /\ at = 1
    /\ dirs = {}
    /\ disk = [t \in Tasks |-> NoFiles]
    /\ store = {}
    /\ terminal = {}
    /\ runner = [t \in Tasks |-> "none"]
    /\ logLeft = [t \in Tasks |-> 0]
    /\ removing = {}
    /\ faults = 0
    /\ unlinked = {}
    /\ late = {}
    /\ lost = {}
    /\ bare = {}
    /\ kept = {}
    /\ measured = 0

-----------------------------------------------------------------------------
(* The lock and the measurement *)

\* An answer, and the Unlock that comes with it; the handler's locals are gone.
Respond(t, status) ==
    /\ pc' = [pc EXCEPT ![t] = "done"]
    /\ answer' = [answer EXCEPT ![t] = status]
    /\ lock' = NoTask
    /\ upload' = [upload EXCEPT ![t] = NoUpload]
    /\ left' = 0 /\ at' = 1 /\ measured' = 0

Arrive(t) ==
    /\ pc[t] = "new"
    /\ pc' = [pc EXCEPT ![t] = "wait"]
    /\ \E u \in Uploads : upload' = [upload EXCEPT ![t] = u]
    /\ UNCHANGED <<lock, answer, scan, left, at, measured, dirs, disk, taskVars, failVars>>

\* admissionMu.Lock
mayLock == lock = NoTask

\* The lock and the test of the retained tasks.
Lock(t) ==
    /\ pc[t] = "wait" /\ mayLock
    /\ IF Cardinality(store) >= MaxRetainedTasks
       THEN Respond(t, 429) /\ UNCHANGED scan
       ELSE /\ lock' = t
            /\ pc' = [pc EXCEPT ![t] = "scan"]
            /\ scan' = [NoScan EXCEPT !.todo = dirs]
            /\ UNCHANGED <<answer, upload, left, at, measured>>
    /\ UNCHANGED <<dirs, disk, taskVars, failVars>>

Has(t, k) == IF disk[t][k] > 0 THEN <<k>> ELSE <<>>

\* The files of a task directory, in the order of WalkDir.
Present(t) == Has(t, "log") \o Has(t, "context") \o Has(t, "nydus") \o Has(t, "zip")

\* WalkDir lists one task directory; one that has just vanished is skipped.
ListDir(t) ==
    /\ pc[t] = "scan" /\ scan.files = <<>>
    /\ \E d \in scan.todo :
        scan' = [scan EXCEPT !.todo = @ \ {d},
                             !.files = [i \in DOMAIN Present(d) |-> <<d, Present(d)[i]>>]]
    /\ UNCHANGED <<lock, pc, upload, answer, left, at, measured, dirs, disk, taskVars, failVars>>

\* entry.Info of the next listed file, or the walk of the next subdirectory. A
\* file removed since it was listed fails the whole walk; a subdirectory that
\* has gone is skipped, unless its files had been listed.
StatFile(t) ==
    /\ pc[t] = "scan" /\ scan.files # <<>>
    /\ LET f == Head(scan.files)
           size == disk[f[1]][f[2]]
       IN \/ size = 0 /\ Respond(t, 500) /\ scan' = NoScan
          \/ /\ size > 0 \/ f[2] \in Subdirs
             /\ scan' = [scan EXCEPT !.files = Tail(@), !.sum = @ + size]
             /\ UNCHANGED <<pc, answer, lock, upload, left, at, measured>>
    /\ UNCHANGED <<dirs, disk, taskVars, failVars>>

EndScan(t) ==
    /\ pc[t] = "scan" /\ scan.files = <<>> /\ scan.todo = {}
    /\ scan' = NoScan
    /\ IF scan.sum >= MaxWorkDirBytes
       THEN Respond(t, 507)
       ELSE /\ left' = MaxWorkDirBytes - scan.sum
            /\ measured' = scan.sum
            /\ pc' = [pc EXCEPT ![t] = "upload"]
            /\ UNCHANGED <<answer, lock, upload, at>>
    /\ UNCHANGED <<dirs, disk, taskVars, failVars>>

-----------------------------------------------------------------------------
(* The upload *)

\* maxRequestBytes, lowered to what is left.
requestLimit == Lesser(MaxRequestBytes, left)

\* ParseMultipartForm under MaxBytesReader, and the form values read from it,
\* which may be malformed.
UploadArrives(t) ==
    /\ pc[t] = "upload"
    /\ \/ upload[t].body > requestLimit /\ Respond(t, 413)
       \/ upload[t].body <= requestLimit /\ Respond(t, 400)
       \/ /\ upload[t].body <= requestLimit
          /\ pc' = [pc EXCEPT ![t] = "save"]
          /\ UNCHANGED <<answer, lock, upload, left, at, measured>>
    /\ UNCHANGED <<scan, dirs, disk, taskVars, failVars>>

uploadTimesOutNever(t) == FALSE
\* The read deadline of a client that stops sending.
uploadTimesOut(t) == pc[t] = "upload"

UploadTimesOut(t) ==
    /\ uploadTimesOut(t)
    /\ Respond(t, 400)
    /\ UNCHANGED <<scan, dirs, disk, taskVars, failVars>>

\* There is no task ID, or MkdirAll of the task directory and its context fails,
\* before or after it has made the first. No RemoveAll follows.
MkdirFails(t) ==
    /\ pc[t] = "save"
    /\ \/ UNCHANGED <<dirs, bare>>
       \/ dirs' = dirs \cup {t} /\ bare' = bare \cup {t}
    /\ Respond(t, 500)
    /\ UNCHANGED <<scan, disk, taskVars, faults, lost, kept>>

\* MkdirAll, then saveUploadedFile; the zip is a part of a body within requestLimit.
SaveUpload(t) ==
    /\ pc[t] = "save"
    /\ dirs' = dirs \cup {t}
    /\ disk' = [disk EXCEPT ![t].zip = upload[t].zip]
    /\ pc' = [pc EXCEPT ![t] = "open"]
    /\ UNCHANGED <<lock, upload, answer, scan, left, at, measured, taskVars, failVars>>

\* A refusal once the directory exists: RemoveAll follows.
Undo(t, status) ==
    /\ pc' = [pc EXCEPT ![t] = "undo"]
    /\ answer' = [answer EXCEPT ![t] = status]

Goto(t, next) ==
    /\ pc' = [pc EXCEPT ![t] = next]
    /\ UNCHANGED answer

\* The upload cannot be saved whole.
SaveFails(t) ==
    /\ pc[t] = "save"
    /\ dirs' = dirs \cup {t}
    /\ \E n \in 0..upload[t].zip : disk' = [disk EXCEPT ![t].zip = n]
    /\ Undo(t, 500)
    /\ UNCHANGED <<lock, upload, scan, left, at, measured, taskVars, failVars>>

leftAfterZipUncharged(t) == left
\* remainingWorkDirBytes -= zipInfo.Size()
leftAfterZip(t) == left - disk[t].zip

\* zip.OpenReader fails on a file that is no archive, an empty one included.
OpenArchive(t) ==
    /\ pc[t] = "open"
    /\ left' = leftAfterZip(t)
    /\ at' = 1
    /\ \/ left' <= 0 /\ Undo(t, 507)
       \/ left' > 0 /\ Undo(t, 400)
       \/ /\ left' > 0 /\ disk[t].zip > 0
          /\ IF Len(upload[t].entries) > MaxArchiveFiles THEN Undo(t, 413) ELSE Goto(t, "extract")
    /\ UNCHANGED <<lock, upload, scan, measured, dirs, disk, taskVars, failVars>>

extractLeftTwice(t) == Lesser(MaxExtractedBytes, left - disk[t].zip) - disk[t].context
\* remaining of extractZip: maxExtractedBytes, lowered to what is left, minus
\* what has been written so far.
extractLeft(t) == Lesser(MaxExtractedBytes, left) - disk[t].context

\* copyWithLimit
copyWithLimit(size, limit) == Lesser(size, limit)

\* One turn of the loop of extractZip.  A header that declares less than the
\* entry unpacks to passes the first test; the copy stops at the limit.
ExtractEntry(t) ==
    /\ pc[t] = "extract" /\ at <= Len(upload[t].entries)
    /\ LET e == upload[t].entries[at]
           limit == extractLeft(t)
       IN IF e.dir = ".." THEN Undo(t, 400) /\ UNCHANGED <<disk, at>>
          ELSE IF e.declared > limit THEN Undo(t, 413) /\ UNCHANGED <<disk, at>>
          ELSE /\ disk' = [disk EXCEPT ![t].context = @ + copyWithLimit(e.actual, limit)]
               /\ at' = at + 1
               /\ IF e.actual > limit THEN \E status \in {400, 413} : Undo(t, status)
                  ELSE IF e.actual # e.declared THEN Undo(t, 400)
                  ELSE Goto(t, "extract")
    /\ UNCHANGED <<lock, upload, scan, left, measured, dirs, taskVars, failVars>>

\* findBuildContext: the directories that could be the build context.
contextDirs(entries) ==
    LET tops == {entries[i].dir : i \in {k \in DOMAIN entries : entries[k].dockerfile}}
    IN IF "." \in tops THEN {"."} ELSE tops

\* findBuildContext, sourceContextContentHash and PreprocessDockerfile, which
\* may rewrite the Dockerfile with a longer text.
PrepareContext(t) ==
    /\ pc[t] = "extract" /\ at > Len(upload[t].entries)
    /\ \/ /\ Cardinality(contextDirs(upload[t].entries)) # 1
          /\ Undo(t, 400)
          /\ UNCHANGED disk
       \/ /\ Cardinality(contextDirs(upload[t].entries)) = 1
          /\ \E grown \in 0..RewriteBytes : disk' = [disk EXCEPT ![t].context = @ + grown]
          /\ Goto(t, "admit")
    /\ UNCHANGED <<lock, upload, scan, left, at, measured, dirs, taskVars, failVars>>

\* The hash or the preprocessor fails; the image, the route, the options or
\* the queue refuse the request.
RejectPrepared(t) ==
    /\ pc[t] = "admit"
    /\ \E status \in {400, 503} : Undo(t, status)
    /\ UNCHANGED <<lock, upload, scan, left, at, measured, dirs, disk, taskVars, failVars>>

removeTaskDirNever(d, t) == d
removeTaskDir(d, t) == d \ {t}

\* RemoveAll returns an error, which is ignored.
RemoveAllFails(t) ==
    /\ faults < MaxFaults
    /\ faults' = faults + 1
    /\ kept' = kept \cup {t}
    /\ UNCHANGED dirs

\* The RemoveAll of a refusal. It goes on after a file that it cannot remove.
RemoveRefused(t) ==
    /\ pc[t] = "undo"
    /\ \/ /\ dirs' = removeTaskDir(dirs, t)
          /\ disk' = [disk EXCEPT ![t] = NoFiles]
          /\ UNCHANGED <<faults, kept>>
       \/ /\ \E gone \in SUBSET Files :
                disk' = [disk EXCEPT ![t] = [k \in Files |-> IF k \in gone THEN 0 ELSE disk[t][k]]]
          /\ RemoveAllFails(t)
    /\ Respond(t, answer[t])
    /\ UNCHANGED <<scan, taskVars, lost, bare>>

\* store.add and enqueue, then Unlock.
Admit(t) ==
    /\ pc[t] = "admit"
    /\ store' = store \cup {t}
    /\ runner' = [runner EXCEPT ![t] = "queued"]
    /\ Respond(t, 202)
    /\ UNCHANGED <<scan, dirs, disk, terminal, logLeft, removing,
                   unlinked, late, failVars>>

-----------------------------------------------------------------------------
(* The builds *)

EndRunner(t) ==
    /\ runner' = [runner EXCEPT ![t] = "ended"]
    /\ logLeft' = [logLeft EXCEPT ![t] = 0]
    /\ terminal' = terminal \cup {t}

\* runBuildTask opens the log; it ends when the task is gone or canceled.
StartRun(t) ==
    /\ runner[t] = "queued"
    /\ IF t \notin store \/ t \in terminal
       THEN EndRunner(t)
       ELSE /\ runner' = [runner EXCEPT ![t] = "running"]
            /\ logLeft' = [logLeft EXCEPT ![t] = MaxLogBytes]
            /\ UNCHANGED terminal
    /\ UNCHANGED <<handlerVars, dirs, disk, store, removing, unlinked, late, failVars>>

\* limitedLogWriter.Write: the bytes of n that reach the file.
limitedLogWriter(n, remaining) == Lesser(n, remaining)

\* Output of the build.  An unlinked log takes no space in the directory.
WriteLog(t) ==
    /\ runner[t] \in Running /\ logLeft[t] > 0
    /\ LET n == limitedLogWriter(2, logLeft[t])
       IN /\ logLeft' = [logLeft EXCEPT ![t] = @ - n]
          /\ disk' = [disk EXCEPT ![t].log = IF t \in unlinked THEN @ ELSE @ + n]
    /\ UNCHANGED <<handlerVars, dirs, store, terminal, runner, removing, unlinked, late, failVars>>

\* createNydusFromOCIContext: MkdirAll makes a removed directory anew.
ConvertToNydus(t) ==
    /\ runner[t] = "running"
    /\ runner' = [runner EXCEPT ![t] = "converted"]
    /\ dirs' = dirs \cup {t}
    /\ disk' = [disk EXCEPT ![t].nydus = NydusBytes]
    /\ late' = IF t \in store THEN late ELSE late \cup {t}
    /\ UNCHANGED <<handlerVars, store, terminal, logLeft, removing, unlinked, failVars>>

EndRun(t) ==
    /\ runner[t] \in Running
    /\ EndRunner(t)
    /\ UNCHANGED <<handlerVars, dirs, disk, store, removing, unlinked, late, failVars>>

\* handleCancelBuild: the status is final, the runner notices later.
Cancel(t) ==
    /\ t \in store \ terminal
    /\ terminal' = terminal \cup {t}
    /\ UNCHANGED <<handlerVars, dirs, disk, store, runner, logLeft, removing, unlinked, late,
                   failVars>>

\* deleteExpired: the task leaves the store, its directory is removed next.
Expire(t) ==
    /\ t \in store \cap terminal
    /\ store' = store \ {t}
    /\ removing' = removing \cup {t}
    /\ UNCHANGED <<handlerVars, dirs, disk, terminal, runner, logLeft, unlinked, late, failVars>>

\* cleanupTaskWorkDir: RemoveAll takes the files one after the other, the log
\* first.
RemoveFile(t) ==
    /\ t \in removing /\ Present(t) # <<>>
    /\ disk' = [disk EXCEPT ![t][Head(Present(t))] = 0]
    /\ unlinked' = unlinked \cup {t}
    /\ UNCHANGED <<handlerVars, dirs, store, terminal, runner, logLeft, removing, late, failVars>>

\* RemoveAll ends: with the directory, or with an error, as it does if the
\* runner has put a new file in it.
EndRemove(t) ==
    /\ t \in removing
    /\ \/ Present(t) = <<>> /\ dirs' = dirs \ {t} /\ UNCHANGED <<faults, kept>>
       \/ Present(t) # <<>> /\ t \in late /\ UNCHANGED <<dirs, faults, kept>>
       \/ RemoveAllFails(t)
    /\ removing' = removing \ {t}
    /\ UNCHANGED <<handlerVars, disk, store, terminal, runner, logLeft, unlinked, late, lost, bare>>

-----------------------------------------------------------------------------
\* The daemon dies and starts again: the store is empty, runDaemon keeps the
\* work directory as it is.
Restart ==
    /\ faults < MaxFaults
    /\ faults' = faults + 1
    /\ lost' = lost \cup dirs
    /\ lock' = NoTask
    /\ pc' = [t \in Tasks |-> IF pc[t] = "new" THEN "new" ELSE "done"]
    /\ upload' = [t \in Tasks |-> NoUpload]
    /\ scan' = NoScan /\ left' = 0 /\ at' = 1 /\ measured' = 0
    /\ store' = {}
    /\ runner' = [t \in Tasks |-> "none"]
    /\ logLeft' = [t \in Tasks |-> 0]
    /\ removing' = {}
    /\ UNCHANGED <<answer, dirs, disk, terminal, unlinked, late, bare, kept>>

Handle(t) ==
    \/ Lock(t) \/ ListDir(t) \/ StatFile(t) \/ EndScan(t) \/ UploadTimesOut(t)
    \/ MkdirFails(t) \/ SaveUpload(t) \/ SaveFails(t) \/ OpenArchive(t)
    \/ ExtractEntry(t) \/ PrepareContext(t) \/ RejectPrepared(t) \/ RemoveRefused(t) \/ Admit(t)

Next ==
    \/ \E t \in Tasks :
        \/ Arrive(t) \/ UploadArrives(t) \/ Handle(t)
        \/ StartRun(t) \/ WriteLog(t) \/ ConvertToNydus(t) \/ EndRun(t)
        \/ Cancel(t) \/ Expire(t) \/ RemoveFile(t) \/ EndRemove(t)
    \/ Restart

Spec == Init /\ [][Next]_vars

\* The handler of a request runs on; only the client may stall its upload.
FairSpec == Spec /\ \A t \in Tasks : WF_vars(Handle(t))

-----------------------------------------------------------------------------
(* Properties *)

\* The bytes of files of the sizes f, and how many they are.
Bytes(f) == UNION {{x} \X (1..f[x]) : x \in DOMAIN f}
Total(f) == Cardinality(Bytes(f))

ArchiveSize == [t \in Tasks |-> disk[t].zip + disk[t].context]
ArchiveBytes == Total(ArchiveSize)
OtherSize == [t \in Tasks |-> disk[t].log + disk[t].nydus]
OtherBytes == Total(OtherSize)

\* What an archive takes when unpacked, by its headers or in fact.
EntrySize(e) == IF e.declared > e.actual THEN e.declared ELSE e.actual
Unpacked(u) == Total([i \in DOMAIN u.entries |-> EntrySize(u.entries[i])])

\* Every variable holds a value of its type, and the one request between Lock
\* and Unlock of admissionMu is its holder.
TypeOK ==
    /\ lock \in Tasks \cup {NoTask}
    /\ pc \in [Tasks -> {"new", "wait", "scan", "upload", "save", "open", "extract", "admit",
                         "undo", "done"}]
    /\ {t \in Tasks : pc[t] \notin {"new", "wait", "done"}} = {lock} \ {NoTask}
    /\ upload \in [Tasks -> Uploads \cup {NoUpload}]
    /\ answer \in [Tasks -> {0, 202, 400, 413, 429, 500, 503, 507}]
    /\ scan.todo \subseteq Tasks /\ scan.files \in Seq(Tasks \X Files) /\ scan.sum \in Nat
    /\ left \in Int /\ at \in Nat
    /\ dirs \subseteq Tasks
    /\ disk \in [Tasks -> [Files -> Nat]]
    /\ store \subseteq Tasks /\ terminal \subseteq Tasks /\ removing \subseteq Tasks
    /\ runner \in [Tasks -> {"none", "queued", "running", "converted", "ended"}]
    /\ logLeft \in [Tasks -> Int]
    /\ faults \in 0..MaxFaults
    /\ unlinked \subseteq Tasks /\ late \subseteq Tasks
    /\ lost \subseteq Tasks /\ bare \subseteq Tasks /\ kept \subseteq Tasks
    /\ measured \in Nat

\* The zips and contexts of all requests, half-written ones included, stay
\* within the budget plus one rewritten Dockerfile, however the measurement
\* raced with builds and removals (build_request.go, remainingWorkDirBytes);
\* the logs and Nydus contexts, which admission does not reserve, exceed it by
\* no more than their limits for the directories on disk.
WorkDirBounded ==
    /\ ArchiveBytes <= MaxWorkDirBytes + RewriteBytes
    /\ ArchiveBytes + OtherBytes
          <= MaxWorkDirBytes + RewriteBytes + Cardinality(dirs) * (MaxLogBytes + NydusBytes)

\* While nobody is being admitted, each task directory belongs to a task in the
\* store or is being removed (the RemoveAll of the error paths of
\* handleCreateBuild, cleanupTaskWorkDir). Four things leave one behind: a build
\* that writes after its task has expired (createNydusFromOCIContext), a crash, a
\* RemoveAll that fails, and the MkdirAll at build_request.go:101, whose error
\* return removes nothing. What the last one leaves is empty, and its request was
\* answered with 500.
NoStrayDirectory ==
    /\ TypeOK
    /\ lock = NoTask =>
          dirs \subseteq store \cup removing \cup late \cup lost \cup bare \cup kept
    /\ \A d \in bare : answer[d] = 500 /\ disk[d] = NoFiles

\* What handleCreateBuild may refuse for its size, given the measured sum.
ExceedsLimit(u, sum) ==
    \/ u.body > MaxRequestBytes
    \/ Len(u.entries) > MaxArchiveFiles
    \/ Unpacked(u) > MaxExtractedBytes
    \/ sum + u.zip + Unpacked(u) > MaxWorkDirBytes
    \/ sum + u.body >= MaxWorkDirBytes

\* A refusal for size (413, 507) is justified by a limit or by what
\* directorySize measured: bytes are never charged twice.
RefusalIsJustified ==
    [][\A t \in Tasks : answer[t] = 0 /\ answer'[t] \in {413, 507} =>
          ExceedsLimit(upload[t], IF pc[t] = "scan" THEN scan.sum ELSE measured)]_vars

\* A request that waits for admissionMu is answered: the read deadline ends an
\* upload that stalls while it holds the lock.
EveryRequestAnswered == \A t \in Tasks : pc[t] = "wait" ~> pc[t] = "done"
=============================================================================
