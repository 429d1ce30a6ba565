------------------------------ MODULE GitCache ------------------------------
(***************************************************************************)
(* The git mirror cache (chart/images/git-cache/git-cache-server.py): a    *)
(* threading HTTP server that clones an upstream repository on first use,  *)
(* refreshes it when its stamp has expired and serves it through           *)
(* git http-backend, and a janitor thread that deletes the least recently  *)
(* fetched mirrors when the volume is too full.  A repository has a file   *)
(* lock for whoever writes it; readers take no lock.  The process may be   *)
(* killed at any step and restarted on the same volume.                    *)
(*                                                                         *)
(* A mirror on disk is "none", "whole", "objects" (part of it is deleted,  *)
(* its objects directory is still there, so repo_exists says yes) or       *)
(* "rest" (the objects directory is gone, other files are left).           *)
(***************************************************************************)
EXTENDS Integers, Sequences, FiniteSets, SequencesExt

CONSTANTS
    Repos,
    Requests,      \* the HTTP requests; each is answered once
    RepoOf,        \* request -> repository
    MaxClones,     \* MAX_CONCURRENT_CLONES
    MaxActive,     \* MAX_ACTIVE_REQUESTS
    HighWater,     \* MAX_DISK_BYTES, in mirrors
    Target,        \* int(MAX_DISK_BYTES * GC_TARGET_RATIO), in mirrors
    MaxPasses,     \* bound: passes of the janitor that find the volume too full
    MaxFaults,     \* bound: crashes and failed removals
    Nobody         \* a free lock

ASSUME GitCacheAssumption ==
    /\ MaxClones \in Nat \ {0} /\ MaxActive \in Nat \ {0}
    /\ HighWater \in Nat \ {0} /\ Target \in Nat /\ Target <= HighWater
    /\ RepoOf \in [Requests -> Repos]
    /\ MaxPasses \in Nat /\ MaxFaults \in Nat
    /\ Nobody \notin Requests \cup {"janitor"} /\ "janitor" \notin Requests

VARIABLES
    mirror,   \* per repository: the directory it is served from
    tmp,      \* per repository: the directory a clone writes, "none" or "some"
    stamp,    \* per repository: the .last_fetch file: "none", "fresh" or "old"
    lock,     \* per repository: the holder of its flock
    pc,       \* per request
    refresh,  \* per request: should_refresh_path
    clones,   \* free places of ACTIVE_CLONES
    active,   \* free places of ACTIVE_REQUESTS
    gpc,      \* the janitor: "sleep", "evict" or "rmtree"
    queue,    \* the mirrors it has still to look at, least recently fetched first
    usage,    \* total - freed_total
    passes,
    faults,
    broken,   \* history: repositories a removal was interrupted on
    cut       \* history: requests whose mirror was being removed as they read it

diskVars == <<mirror, tmp, stamp>>
semVars == <<clones, active>>
gcVars == <<gpc, queue, usage, passes>>
vars == <<diskVars, lock, pc, refresh, semVars, gcVars, faults, broken, cut>>

Mirrors == {"none", "whole", "objects", "rest"}
\* Past ensure_mirror: the request is about to read, or reads, the mirror.
Reading == {"gate", "serving"}
\* The request holds the lock of its repository.
Writing == {"clonewait", "cloning", "rename", "stamp", "refresh"}
Ended == {"answered", "dropped"}
Pcs == {"new", "lock"} \cup Reading \cup Writing \cup Ended

Init ==
    /\ mirror = [r \in Repos |-> "none"]
    /\ tmp = [r \in Repos |-> "none"]
    /\ stamp = [r \in Repos |-> "none"]
    /\ lock = [r \in Repos |-> Nobody]
    /\ pc = [q \in Requests |-> "new"]
    /\ refresh = [q \in Requests |-> FALSE]
    /\ clones = MaxClones /\ active = MaxActive
    /\ gpc = "sleep" /\ queue = <<>> /\ usage = 0 /\ passes = 0
    /\ faults = 0 /\ broken = {} /\ cut = {}

repo_exists(r) == mirror[r] \in {"whole", "objects"}
stamp_is_fresh(r) == stamp[r] = "fresh"
Goto(q, label) == pc' = [pc EXCEPT ![q] = label]
Unlock(r) == lock' = [lock EXCEPT ![r] = Nobody]

\* The request reads its mirror from now on.
EnterReading(q) ==
    /\ Goto(q, "gate")
    /\ cut' = IF gpc = "rmtree" /\ Head(queue) = RepoOf[q] THEN cut \cup {q} ELSE cut

-----------------------------------------------------------------------------
(* ensure_mirror *)

\* A host that does not resolve to public addresses is refused with 403.
Forbid(q) ==
    /\ pc[q] = "new"
    /\ Goto(q, "answered")
    /\ UNCHANGED <<diskVars, lock, refresh, semVars, gcVars, faults, broken, cut>>

\* The fast path, which takes no lock, or the way to the lock.  The mode and
\* the path of the request say whether it refreshes (should_refresh_path).
Begin(q) ==
    /\ pc[q] = "new"
    /\ \E wants \in BOOLEAN :
          /\ refresh' = [refresh EXCEPT ![q] = wants]
          /\ IF repo_exists(RepoOf[q]) /\ (~wants \/ stamp_is_fresh(RepoOf[q]))
             THEN EnterReading(q)
             ELSE Goto(q, "lock") /\ UNCHANGED cut
    /\ UNCHANGED <<diskVars, lock, semVars, gcVars, faults, broken>>

\* The state is looked at again under the lock.
existsUnderLock(r) == repo_exists(r)

Flock(q) ==
    LET r == RepoOf[q] IN
    /\ pc[q] = "lock" /\ lock[r] = Nobody
    /\ \/ /\ ~existsUnderLock(r)
          /\ lock' = [lock EXCEPT ![r] = q]
          /\ tmp' = [tmp EXCEPT ![r] = "none"]      \* rmtree of an old tmp
          /\ Goto(q, "clonewait") /\ UNCHANGED cut
       \/ /\ ~existsUnderLock(r) /\ tmp[r] # "none"  \* that rmtree fails: 502
          /\ Goto(q, "answered") /\ UNCHANGED <<tmp, lock, cut>>
       \/ /\ existsUnderLock(r) /\ refresh[q] /\ ~stamp_is_fresh(r)
          /\ lock' = [lock EXCEPT ![r] = q]
          /\ Goto(q, "refresh") /\ UNCHANGED <<tmp, cut>>
       \/ /\ existsUnderLock(r) /\ ~(refresh[q] /\ ~stamp_is_fresh(r))
          /\ EnterReading(q) /\ UNCHANGED <<tmp, lock>>
    /\ UNCHANGED <<mirror, stamp, refresh, semVars, gcVars, faults, broken>>

StartCloneInPlace(q) ==
    /\ pc[q] = "clonewait" /\ clones > 0
    /\ clones' = clones - 1
    /\ mirror' = [mirror EXCEPT ![RepoOf[q]] = "objects"]
    /\ Goto(q, "cloning")
    /\ UNCHANGED <<tmp, stamp, lock, refresh, active, gcVars, faults, broken, cut>>

\* The clone goes to a directory of its own, under the lock and one of the
\* places of ACTIVE_CLONES.
StartClone(q) ==
    /\ pc[q] = "clonewait" /\ clones > 0
    /\ clones' = clones - 1
    /\ tmp' = [tmp EXCEPT ![RepoOf[q]] = "some"]
    /\ Goto(q, "cloning")
    /\ UNCHANGED <<mirror, stamp, lock, refresh, active, gcVars, faults, broken, cut>>

cloneFailedServes(q) == Goto(q, "gate") /\ Unlock(RepoOf[q]) /\ UNCHANGED tmp
\* A clone that fails or times out leaves no tmp; the client gets 502.
cloneFailed(q) ==
    /\ tmp' = [tmp EXCEPT ![RepoOf[q]] = "none"]
    /\ Unlock(RepoOf[q])
    /\ Goto(q, "answered")

releaseClone == clones' = clones + 1

CloneEnds(q) ==
    /\ pc[q] = "cloning"
    /\ releaseClone
    /\ \/ Goto(q, "rename") /\ UNCHANGED <<tmp, lock>>
       \/ cloneFailed(q)
    /\ UNCHANGED <<mirror, stamp, refresh, active, gcVars, faults, broken, cut>>

\* tmp_path.replace(repo_path): a directory replaces nothing or an empty
\* directory; on anything else it raises, and tmp stays behind.
Rename(q) ==
    LET r == RepoOf[q] IN
    /\ pc[q] = "rename"
    /\ IF mirror[r] = "none"
       THEN /\ mirror' = [mirror EXCEPT ![r] = "whole"]
            /\ tmp' = [tmp EXCEPT ![r] = "none"]
            /\ Goto(q, "stamp") /\ UNCHANGED lock
       ELSE Goto(q, "answered") /\ Unlock(r) /\ UNCHANGED <<mirror, tmp>>
    /\ UNCHANGED <<stamp, refresh, semVars, gcVars, faults, broken, cut>>

TouchStamp(q) ==
    /\ pc[q] = "stamp"
    /\ stamp' = [stamp EXCEPT ![RepoOf[q]] = "fresh"]
    /\ Unlock(RepoOf[q])
    /\ EnterReading(q)
    /\ UNCHANGED <<mirror, tmp, refresh, semVars, gcVars, faults, broken>>

\* remote update; a failure or a timeout is ignored and the stamp is touched
\* all the same.  Only a timeout of set-url makes the request fail.
Refresh(q) ==
    /\ pc[q] = "refresh"
    /\ Unlock(RepoOf[q])
    /\ \/ stamp' = [stamp EXCEPT ![RepoOf[q]] = "fresh"] /\ EnterReading(q)
       \/ Goto(q, "answered") /\ UNCHANGED <<stamp, cut>>
    /\ UNCHANGED <<mirror, tmp, refresh, semVars, gcVars, faults, broken>>

-----------------------------------------------------------------------------
(* handle_git_request after ensure_mirror *)

Admit(q) ==
    /\ pc[q] = "gate" /\ active > 0
    /\ active' = active - 1
    /\ Goto(q, "serving")
    /\ UNCHANGED <<diskVars, lock, refresh, clones, gcVars, faults, broken, cut>>

busyTimeoutNever(q) == FALSE
\* acquire(timeout=BUSY_TIMEOUT_SECONDS) gives up: 503.
busyTimeout(q) == active = 0

Busy(q) ==
    /\ pc[q] = "gate" /\ busyTimeout(q)
    /\ Goto(q, "answered")
    /\ UNCHANGED <<diskVars, lock, refresh, semVars, gcVars, faults, broken, cut>>

ServeEnds(q) ==
    /\ pc[q] = "serving"
    /\ active' = active + 1
    /\ Goto(q, "answered")
    /\ UNCHANGED <<diskVars, lock, refresh, clones, gcVars, faults, broken, cut>>

\* TTL_SECONDS pass since the last fetch.
Expire(r) ==
    /\ stamp[r] = "fresh"
    /\ stamp' = [stamp EXCEPT ![r] = "old"]
    /\ UNCHANGED <<mirror, tmp, lock, pc, refresh, semVars, gcVars, faults, broken, cut>>

-----------------------------------------------------------------------------
(* gc_once *)

UsedBy(t) == Cardinality({r \in Repos : mirror[r] # "none"}) + Cardinality({r \in Repos : t[r] # "none"})
CloneRuns(r) == \E q \in Requests : RepoOf[q] = r /\ pc[q] \in Writing

\* gc_stale_tmp: a tmp that nobody has written for longer than a git command
\* may take is not the tmp of a running clone.
gc_stale_tmp(old) == tmp' = [r \in Repos |-> IF r \in old /\ ~CloneRuns(r) THEN "none" ELSE tmp[r]]

\* list_mirrors, sorted by the time of the last fetch (equals in any order).
list_mirrors ==
    {s \in SetToSeqs({r \in Repos : repo_exists(r)}) :
        \A i, k \in DOMAIN s : i < k => ~(stamp[s[i]] = "fresh" /\ stamp[s[k]] = "old")}

\* The start of a pass: old tmp directories go; if the volume is still too full
\* the mirrors are listed.
GcScan ==
    /\ gpc = "sleep" /\ passes < MaxPasses
    /\ \E old \in SUBSET Repos : gc_stale_tmp(old)
    /\ IF UsedBy(tmp') > HighWater
       THEN gpc' = "evict" /\ queue' \in list_mirrors /\ usage' = UsedBy(tmp') /\ passes' = passes + 1
       ELSE UNCHANGED gcVars
    /\ UNCHANGED <<mirror, stamp, lock, pc, refresh, semVars, faults, broken, cut>>

GcDone ==
    /\ gpc = "evict" /\ (queue = <<>> \/ usage <= Target)
    /\ gpc' = "sleep" /\ queue' = <<>> /\ usage' = 0
    /\ UNCHANGED <<diskVars, lock, pc, refresh, semVars, passes, faults, broken, cut>>

\* evict_mirror does not wait for the lock, and looks again under it.
mayEvict(r) == lock[r] = Nobody /\ repo_exists(r)

EvictSkips ==
    /\ gpc = "evict" /\ queue # <<>> /\ usage > Target
    /\ ~mayEvict(Head(queue))
    /\ queue' = Tail(queue)
    /\ UNCHANGED <<diskVars, lock, pc, refresh, semVars, gpc, usage, passes, faults, broken, cut>>

\* rmtree starts: some of the files are gone.
EvictStarts ==
    LET r == Head(queue) IN
    /\ gpc = "evict" /\ queue # <<>> /\ usage > Target
    /\ mayEvict(r)
    /\ lock' = [lock EXCEPT ![r] = "janitor"]
    /\ \E m \in {"objects", "rest"} : mirror' = [mirror EXCEPT ![r] = m]
    /\ cut' = cut \cup {q \in Requests : RepoOf[q] = r /\ pc[q] \in Reading}
    /\ gpc' = "rmtree"
    /\ UNCHANGED <<tmp, stamp, pc, refresh, semVars, queue, usage, passes, faults, broken>>

\* rmtree ends, with everything gone or, with its errors ignored, not.
EvictEnds ==
    LET r == Head(queue) IN
    /\ gpc = "rmtree"
    /\ \/ mirror' = [mirror EXCEPT ![r] = "none"]
          /\ broken' = broken \ {r} /\ UNCHANGED faults
       \/ /\ faults < MaxFaults /\ faults' = faults + 1
          /\ broken' = broken \cup {r} /\ UNCHANGED mirror
    /\ stamp' = [stamp EXCEPT ![r] = "none"]
    /\ Unlock(r)
    /\ usage' = usage - 1
    /\ queue' = Tail(queue)
    /\ gpc' = "evict"
    /\ UNCHANGED <<tmp, pc, refresh, semVars, passes, cut>>

-----------------------------------------------------------------------------
\* The container is killed and restarted: threads, locks and semaphores are
\* gone, the volume stays.
Crash ==
    /\ faults < MaxFaults
    /\ faults' = faults + 1
    /\ broken' = IF gpc = "rmtree" THEN broken \cup {Head(queue)} ELSE broken
    /\ pc' = [q \in Requests |-> IF pc[q] \in {"new", "answered"} THEN pc[q] ELSE "dropped"]
    /\ lock' = [r \in Repos |-> Nobody]
    /\ clones' = MaxClones /\ active' = MaxActive
    /\ gpc' = "sleep" /\ queue' = <<>> /\ usage' = 0
    /\ UNCHANGED <<diskVars, refresh, passes, cut>>

-----------------------------------------------------------------------------
\* The steps of a request between two waits for somebody else.
Proceeds(q) ==
    \/ Flock(q) \/ StartClone(q) \/ CloneEnds(q) \/ Rename(q)
    \/ TouchStamp(q) \/ Refresh(q) \/ Admit(q) \/ Busy(q)

Next ==
    \/ \E q \in Requests : Forbid(q) \/ Begin(q) \/ Proceeds(q) \/ ServeEnds(q)
    \/ \E r \in Repos : Expire(r)
    \/ GcScan \/ GcDone \/ EvictSkips \/ EvictStarts \/ EvictEnds
    \/ Crash

Spec == Init /\ [][Next]_vars

\* Threads that can run do run: a git command ends at its timeout, a lock or a
\* clone place that stays free is taken, the janitor goes on with a pass it has
\* begun.  A client may read its answer for ever.
Fairness ==
    /\ \A q \in Requests : WF_vars(Proceeds(q))
    /\ WF_vars(GcDone \/ EvictSkips \/ EvictStarts \/ EvictEnds)

FairSpec == Spec /\ Fairness

-----------------------------------------------------------------------------
(* Properties *)

\* Every variable stays in its type and who writes a repository holds its lock.
TypeOK ==
    /\ mirror \in [Repos -> Mirrors]
    /\ tmp \in [Repos -> {"none", "some"}]
    /\ stamp \in [Repos -> {"none", "fresh", "old"}]
    /\ lock \in [Repos -> Requests \cup {"janitor", Nobody}]
    /\ pc \in [Requests -> Pcs]
    /\ refresh \in [Requests -> BOOLEAN]
    /\ clones \in 0..MaxClones /\ active \in 0..MaxActive
    /\ gpc \in {"sleep", "evict", "rmtree"}
    /\ passes \in 0..MaxPasses /\ faults \in 0..MaxFaults
    /\ broken \subseteq Repos /\ cut \subseteq Requests
    /\ \A q \in Requests : pc[q] \in Writing => lock[RepoOf[q]] = q

\* A repository that looks usable is a complete clone, through failures and
\* crashes of the clone; only an eviction that is under way or was interrupted
\* leaves less than a whole mirror.  A finished clone finds its place empty,
\* unless an interrupted removal has left something there (ensure_mirror).
MirrorIsWhole ==
    /\ TypeOK
    /\ \A r \in Repos :
          \/ mirror[r] \in {"none", "whole"}
          \/ r \in broken
          \/ gpc = "rmtree" /\ Head(queue) = r
    /\ \A q \in Requests :
          pc[q] = "rename" => mirror[RepoOf[q]] = "none" \/ RepoOf[q] \in broken

\* A request reads a whole mirror unless the janitor has started to remove it
\* since, or an interrupted removal had left it broken.
ReadsWholeMirror ==
    \A q \in Requests :
        pc[q] \in Reading =>
            mirror[RepoOf[q]] = "whole" \/ q \in cut \/ RepoOf[q] \in broken

\* Every request is answered or gets to read its mirror: no place of
\* ACTIVE_CLONES and no lock is lost on any path, and clients that never finish
\* may hold all places of ACTIVE_REQUESTS.
EveryRequestServed ==
    \A q \in Requests : pc[q] # "new" ~> pc[q] \in {"serving"} \cup Ended
=============================================================================
