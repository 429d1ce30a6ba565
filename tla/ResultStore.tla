----------------------------- MODULE ResultStore ----------------------------
(***************************************************************************)
(* What a batch build leaves on disk (internal/buildbatch/results.go,      *)
(* failure_log_store.go, lmdb_store_linux.go): the LMDB database of        *)
(* results, and the failure log, a file of JSON lines that is cut from the *)
(* front when it outgrows its limit.  The goroutines of a batch write both *)
(* concurrently; the process may be killed between any two steps and the   *)
(* next command resumes from what it finds.                                *)
(*                                                                         *)
(* A log line is a record: the attempt it is about, its length in bytes    *)
(* (newline included), whether it parses and whether its newline has been  *)
(* written.  LMDB commits a transaction atomically (external).             *)
(***************************************************************************)
EXTENDS Integers, Sequences, FiniteSets, SequencesExt

CONSTANTS
    Jobs,          \* the build jobs of the batch, one goroutine each
    Targets,
    TargetMaps,    \* job -> target; two directories may name the same one
    Retry,         \* opts.retry
    Sizes,         \* lengths of marshalled failure lines, at most MaxFileSize
    MaxFileSize,   \* maxFailureLogFileSize
    MaxAttempts,   \* bound: attempts of one job over all runs
    MaxFaults,     \* bound: failed writes and crashes
    NoJob

ASSUME StoreAssumption ==
    /\ Retry \in Nat /\ MaxAttempts \in Nat /\ MaxFaults \in Nat
    /\ MaxFileSize \in Nat \ {0}
    /\ Sizes \subseteq 1..MaxFileSize
    /\ TargetMaps \subseteq [Jobs -> Targets]
    /\ NoJob \notin Jobs

VARIABLES
    targetOf,  \* the targets the input directories name
    log,       \* the failure log on disk
    db,        \* target -> the stored result
    mu,        \* holder of failureLogStore.mu
    pc,        \* per job: "idle", "log", "trim", "put" or "ended"
    job,       \* per job: the result of its current attempt
    attempt,   \* per job: task.attempt, the retries used in this run
    serial,    \* per job: attempts made in all runs
    faults,    \* failed writes and crashes so far
    \* History.
    newest,    \* the line appended last, if nothing has gone wrong since
    excused    \* attempts whose line was trimmed away, not written, or damaged

diskVars == <<log, db>>
jobVars == <<pc, job, attempt, serial>>
vars == <<targetOf, diskVars, mu, jobVars, faults, newest, excused>>

Attempts == [job : Jobs, serial : 1..MaxAttempts]
NoAttempt == [job |-> NoJob, serial |-> 0]
Results == [success : BOOLEAN, id : Attempts \cup {NoAttempt}, logged : BOOLEAN]
NoResult == [success |-> FALSE, id |-> NoAttempt, logged |-> FALSE]
Line(id, n, ok, nl) == [id |-> id, size |-> n, ok |-> ok, nl |-> nl]
NoLine == Line(NoAttempt, 0, FALSE, FALSE)

Init ==
    /\ targetOf \in TargetMaps
    /\ log = <<>>
    /\ db = [t \in Targets |-> NoResult]
    /\ mu = NoJob
    /\ pc = [j \in Jobs |-> "idle"]
    /\ job = [j \in Jobs |-> [result |-> NoResult, size |-> 0, final |-> FALSE]]
    /\ attempt = [j \in Jobs |-> 0]
    /\ serial = [j \in Jobs |-> 0]
    /\ faults = 0
    /\ newest = NoLine
    /\ excused = {}

-----------------------------------------------------------------------------
(* The file *)

\* The bytes of the file, each as its line and its place there, and their number.
Bytes(f) == UNION {{i} \X (1..f[i].size) : i \in DOMAIN f}
SizeOf(f) == Cardinality(Bytes(f))
\* The offset after the i-th line.
EndOf(f, i) == SizeOf(SubSeq(f, 1, i))
\* The last line lacks its newline.
Torn(f) == f # <<>> /\ ~Last(f).nl

\* The attempt that an append to a torn file makes unreadable.
Hurt(f) == (IF Torn(f) THEN {Last(f).id} ELSE {}) \ {NoAttempt}

\* Bytes appended to a file without a final newline continue its last line,
\* which no longer parses.
AppendLine(f, line) ==
    IF Torn(f)
    THEN Append(Front(f), Line(NoAttempt, Last(f).size + line.size, FALSE, line.nl))
    ELSE Append(f, line)

\* What a write of the line leaves when only part of it arrives: the last
\* byte is the newline, so a line that lacks no other still parses.
PartialWrites(line) ==
    {Line(IF n = line.size - 1 THEN line.id ELSE NoAttempt, n, n = line.size - 1, FALSE) :
        n \in 1..line.size - 1}

ids(f) == {line.id : line \in {f[i] : i \in {k \in DOMAIN f : f[k].ok}}}

dropsAll(f, trimBytes) == Len(f)
dropsLinesBefore(f, trimBytes) == Cardinality({i \in DOMAIN f : EndOf(f, i) <= trimBytes})
\* findFailureLogKeepOffset, as the number of lines it drops: everything up to
\* and including the first newline at or after trimBytes.
findFailureLogKeepOffset(f, trimBytes) ==
    CHOOSE i \in DOMAIN f :
        /\ EndOf(f, i) > trimBytes
        /\ \A k \in 1..i - 1 : EndOf(f, k) <= trimBytes

Trimmed(f) ==
    LET dropped == findFailureLogKeepOffset(f, SizeOf(f) - MaxFileSize)
    IN SubSeq(f, dropped + 1, Len(f))

loadEarliestFailureLogs(f, t) ==
    LET lines == {i \in DOMAIN f : targetOf[f[i].id.job] = t}
    IN IF lines = {} THEN NoAttempt ELSE f[CHOOSE i \in lines : \A k \in lines : i <= k].id

\* loadLatestFailureLogs: the last line of the target wins; the whole file is
\* unreadable when one line does not parse.
Readable(f) == \A i \in DOMAIN f : f[i].ok
loadLatestFailureLogs(f, t) ==
    LET lines == {i \in DOMAIN f : targetOf[f[i].id.job] = t}
    IN IF lines = {} THEN NoAttempt ELSE f[CHOOSE i \in lines : \A k \in lines : k <= i].id

-----------------------------------------------------------------------------
(* The goroutine of a job *)

UpsertOrderSwapped == <<"put", "log">>
\* UpsertResult writes the failure log before LMDB.
UpsertOrder == <<"log", "put">>

\* The steps of an attempt: one that will be retried is only logged.
Steps(r) ==
    IF ~r.final THEN (IF r.result.logged THEN <<"log">> ELSE <<>>)
    ELSE IF r.result.logged THEN UpsertOrder ELSE <<"put">>

\* Where the goroutine goes after step s of Steps(r).
StepAfter(r, s) ==
    LET rest == {i \in DOMAIN Steps(r) : s = "build" \/ \E k \in 1..i - 1 : Steps(r)[k] = s}
    IN IF rest # {} THEN Steps(r)[CHOOSE i \in rest : \A k \in rest : i <= k]
       ELSE IF r.final THEN "ended" ELSE "idle"

\* An attempt ends: it succeeds, or it fails with a log of some size, or with
\* none.  It is final when it succeeds or no retry is left.
Build(j) ==
    /\ pc[j] = "idle" /\ serial[j] < MaxAttempts
    /\ serial' = [serial EXCEPT ![j] = @ + 1]
    /\ \E success \in BOOLEAN, n \in Sizes \cup {0} :
          LET r == [result |-> [success |-> success, logged |-> n > 0,
                                id |-> [job |-> j, serial |-> serial[j] + 1]],
                    size |-> n, final |-> success \/ attempt[j] >= Retry]
          IN /\ success => n = 0
             /\ job' = [job EXCEPT ![j] = r]
             /\ attempt' = [attempt EXCEPT ![j] = IF r.final THEN @ ELSE @ + 1]
             /\ pc' = [pc EXCEPT ![j] = StepAfter(r, "build")]
    /\ UNCHANGED <<targetOf, diskVars, mu, faults, newest, excused>>

Done(j, s) == pc' = [pc EXCEPT ![j] = StepAfter(job[j], s)]
\* marshalFailureLogLine: the entry as JSON and a newline.
LineOf(j) == Line(job[j].result.id, job[j].size, TRUE, TRUE)

\* The deferred unlock of AppendFailure.
Unlock == mu' = NoJob

\* AppendFailure takes the lock, writes the line, syncs it and looks at the size.
AppendFailure(j) ==
    /\ pc[j] = "log" /\ mu = NoJob
    /\ log' = AppendLine(log, LineOf(j))
    /\ newest' = IF Torn(log) THEN NoLine ELSE LineOf(j)
    /\ excused' = excused \cup Hurt(log) \cup (IF Torn(log) THEN {job[j].result.id} ELSE {})
    /\ IF SizeOf(log') > MaxFileSize
       THEN mu' = j /\ pc' = [pc EXCEPT ![j] = "trim"]
       ELSE Done(j, "log") /\ UNCHANGED mu
    /\ UNCHANGED <<targetOf, db, job, attempt, serial, faults>>

\* A write that fails, in whole or in part; the error is logged and ignored.
AppendFails(j) ==
    /\ pc[j] = "log" /\ mu = NoJob /\ faults < MaxFaults
    /\ faults' = faults + 1
    /\ log' \in {log} \cup {AppendLine(log, part) : part \in PartialWrites(LineOf(j))}
    /\ newest' = NoLine
    /\ excused' = excused \cup {job[j].result.id} \cup (IF log' # log THEN Hurt(log) ELSE {})
    /\ Done(j, "log")
    /\ UNCHANGED <<targetOf, db, mu, job, attempt, serial>>

\* trimFailureLogFile: the kept lines are copied to a temporary file, which is
\* then renamed over the log.
TrimFailureLog(j) ==
    /\ pc[j] = "trim"
    /\ log' = Trimmed(log)
    /\ excused' = excused \cup (ids(log) \ ids(log'))
    /\ Unlock
    /\ Done(j, "log")
    /\ UNCHANGED <<targetOf, db, job, attempt, serial, faults, newest>>

TrimFails(j) ==
    /\ pc[j] = "trim" /\ faults < MaxFaults
    /\ faults' = faults + 1
    /\ Unlock
    /\ Done(j, "log")
    /\ UNCHANGED <<targetOf, diskVars, job, attempt, serial, newest, excused>>

\* lmdbResultDB.Put: one transaction.
Put(j) ==
    /\ pc[j] = "put"
    /\ db' = [db EXCEPT ![targetOf[j]] = job[j].result]
    /\ Done(j, "put")
    /\ UNCHANGED <<targetOf, log, mu, job, attempt, serial, faults, newest, excused>>

PutFails(j) ==
    /\ pc[j] = "put" /\ faults < MaxFaults
    /\ faults' = faults + 1
    /\ Done(j, "put")
    /\ UNCHANGED <<targetOf, diskVars, mu, job, attempt, serial, newest, excused>>

\* The process is killed, perhaps in the middle of a write, and run again: a
\* job whose target is stored as built is skipped, the others start afresh.
Crash ==
    /\ faults < MaxFaults
    /\ faults' = faults + 1
    /\ \/ UNCHANGED <<log, excused>>
       \/ \E j \in Jobs : \E part \in PartialWrites(LineOf(j)) :
             /\ pc[j] = "log" /\ mu = NoJob
             /\ log' = AppendLine(log, part)
             /\ excused' = excused \cup {job[j].result.id} \cup Hurt(log)
    /\ newest' = NoLine
    /\ mu' = NoJob
    /\ pc' = [j \in Jobs |-> IF db[targetOf[j]].success THEN "ended" ELSE "idle"]
    /\ attempt' = [j \in Jobs |-> 0]
    /\ UNCHANGED <<targetOf, db, job, serial>>

-----------------------------------------------------------------------------
Next ==
    \/ \E j \in Jobs :
          \/ Build(j) \/ AppendFailure(j) \/ AppendFails(j)
          \/ TrimFailureLog(j) \/ TrimFails(j) \/ Put(j) \/ PutFails(j)
    \/ Crash

Spec == Init /\ [][Next]_vars

-----------------------------------------------------------------------------
(* Properties *)

Ids == Attempts \cup {NoAttempt}
Lines == [id : Ids, size : Nat, ok : BOOLEAN, nl : BOOLEAN]

\* Every variable stays in its type; only the last line may lack its newline.
TypeOK ==
    /\ \A i \in DOMAIN log :
          /\ log[i] \in Lines
          /\ i < Len(log) => log[i].nl
          /\ log[i].ok <=> log[i].id # NoAttempt
    /\ db \in [Targets -> Results]
    /\ mu \in Jobs \cup {NoJob}
    /\ \A j \in Jobs : pc[j] \in {"idle", "log", "trim", "put", "ended"} /\ (pc[j] = "trim" <=> mu = j)
    /\ attempt \in [Jobs -> 0..Retry]
    /\ serial \in [Jobs -> 0..MaxAttempts]
    /\ faults \in 0..MaxFaults
    /\ newest \in Lines
    /\ excused \subseteq Attempts

\* A failure in the database has its line in the failure log, or the line was
\* trimmed away, could not be written, or was written behind half a line:
\* never, after a crash at any point, is the result there and the log not yet.
StoredFailureHasLog ==
    \A t \in Targets :
        db[t].logged => db[t].id \in ids(log) \cup excused

\* Between two appends the log is within its limit, but for one append that
\* each fault may leave untrimmed (AppendFailure); and a fault makes at most
\* one line unreadable, however many appends and trims follow it.
LogIsBounded ==
    /\ TypeOK
    /\ mu = NoJob => SizeOf(log) <= MaxFileSize * (1 + faults)
    /\ Cardinality({i \in DOMAIN log : ~log[i].ok}) <= faults

\* The line appended last survives its own trim, unless it fills the file
\* alone: then the newline the trim looks for is its own, and nothing is kept.
NewestLineSurvives ==
    mu = NoJob /\ newest # NoLine =>
        IF log = <<>> THEN newest.size = MaxFileSize ELSE Last(log) = newest

\* For a target of one job, the log a reader is shown is never older than the
\* failure in the database.
LatestLogIsCurrent ==
    \A j \in Jobs :
        LET t == targetOf[j]
            shown == loadLatestFailureLogs(log, t)
        IN /\ \A k \in Jobs : targetOf[k] = t => k = j
           /\ Readable(log)
           /\ db[t].logged /\ db[t].id \in ids(log)
           => shown.serial >= db[t].id.serial
=============================================================================
