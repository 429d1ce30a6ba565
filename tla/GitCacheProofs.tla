--------------------------- MODULE GitCacheProofs ---------------------------
(***************************************************************************)
(* What GitCache promises of a mirror on disk, for any number of           *)
(* repositories, requests, janitor passes, crashes and failed removals.    *)
(* The places of the two semaphores are accounted for first, then who      *)
(* holds the lock of a repository, and then what its holder, the readers   *)
(* without a lock and an interrupted removal make of the mirror.           *)
(***************************************************************************)
EXTENDS GitCache, TLAPS, FiniteSetTheorems, SequenceTheorems

-----------------------------------------------------------------------------
(* The semaphores.                                                         *)

\* The requests at a program point.
At(label) == {q \in Requests : pc[q] = label}

\* The places of a semaphore that are not free are those of the requests that
\* are at the point it protects.
ClonesAccounted ==
    IsFiniteSet(At("cloning")) /\ clones \in Nat /\ clones + Cardinality(At("cloning")) = MaxClones
ActiveAccounted ==
    IsFiniteSet(At("serving")) /\ active \in Nat /\ active + Cardinality(At("serving")) = MaxActive
PlacesInv == ClonesAccounted /\ ActiveAccounted

\* A step of a request that neither takes nor returns a place.
LEMMA KeepsPlaces ==
    ASSUME pc \in [Requests -> Pcs], PlacesInv, NEW q \in Requests, NEW label \in Pcs, Goto(q, label),
           UNCHANGED <<clones, active>>,
           pc[q] \notin {"cloning", "serving"}, label \notin {"cloning", "serving"}
    PROVE  PlacesInv'
<1>1. At("cloning")' = At("cloning") /\ At("serving")' = At("serving")
  BY DEF At, Goto
<1> QED BY <1>1 DEF PlacesInv, ClonesAccounted, ActiveAccounted

\* Every action returns exactly the places it or an earlier step has taken.
LEMMA PlacesStep == pc \in [Requests -> Pcs] /\ PlacesInv /\ [Next]_vars => PlacesInv'
<1> SUFFICES ASSUME pc \in [Requests -> Pcs], PlacesInv, [Next]_vars PROVE PlacesInv' OBVIOUS
<1> USE DEF Pcs, Reading, Writing, Ended
<1>1. ASSUME NEW q \in Requests, Forbid(q) PROVE PlacesInv'
  BY <1>1, KeepsPlaces DEF Forbid, semVars
<1>2. ASSUME NEW q \in Requests, Begin(q) PROVE PlacesInv'
  BY <1>2, KeepsPlaces DEF Begin, EnterReading, semVars
<1>3. ASSUME NEW q \in Requests, Flock(q) PROVE PlacesInv'
  BY <1>3, KeepsPlaces DEF Flock, EnterReading, semVars
<1>4. ASSUME NEW q \in Requests, StartClone(q) PROVE PlacesInv'
  <2>1. At("cloning")' = At("cloning") \cup {q} /\ q \notin At("cloning") /\ At("serving")' = At("serving")
    BY <1>4 DEF StartClone, Goto, At
  <2>2. IsFiniteSet(At("cloning")') /\ Cardinality(At("cloning")') = Cardinality(At("cloning")) + 1
    BY <2>1, FS_AddElement DEF PlacesInv, ClonesAccounted
  <2>3. clones \in Nat \ {0} /\ clones' = clones - 1 /\ active' = active
    BY <1>4 DEF StartClone, PlacesInv, ClonesAccounted
  <2>4. Cardinality(At("cloning")) \in Nat
    BY FS_CardinalityType DEF PlacesInv, ClonesAccounted
  <2>5. ClonesAccounted'
    BY <2>2, <2>3, <2>4 DEF PlacesInv, ClonesAccounted
  <2> QED BY <2>1, <2>3, <2>5 DEF PlacesInv, ActiveAccounted
<1>5. ASSUME NEW q \in Requests, CloneEnds(q) PROVE PlacesInv'
  <2>1. At("cloning")' = At("cloning") \ {q} /\ q \in At("cloning") /\ At("serving")' = At("serving")
    BY <1>5 DEF CloneEnds, cloneFailed, Goto, At
  <2>2. IsFiniteSet(At("cloning")') /\ Cardinality(At("cloning")') = Cardinality(At("cloning")) - 1
    BY <2>1, FS_RemoveElement DEF PlacesInv, ClonesAccounted
  <2>3. clones' = clones + 1 /\ active' = active
    BY <1>5 DEF CloneEnds, releaseClone
  <2>4. Cardinality(At("cloning")) \in Nat
    BY FS_CardinalityType DEF PlacesInv, ClonesAccounted
  <2>5. ClonesAccounted'
    BY <2>2, <2>3, <2>4 DEF PlacesInv, ClonesAccounted
  <2> QED BY <2>1, <2>3, <2>5 DEF PlacesInv, ActiveAccounted
<1>6. ASSUME NEW q \in Requests, Rename(q) PROVE PlacesInv'
  BY <1>6, KeepsPlaces DEF Rename, semVars
<1>7. ASSUME NEW q \in Requests, TouchStamp(q) PROVE PlacesInv'
  BY <1>7, KeepsPlaces DEF TouchStamp, EnterReading, semVars
<1>8. ASSUME NEW q \in Requests, Refresh(q) PROVE PlacesInv'
  BY <1>8, KeepsPlaces DEF Refresh, EnterReading, semVars
<1>9. ASSUME NEW q \in Requests, Admit(q) PROVE PlacesInv'
  <2>1. At("serving")' = At("serving") \cup {q} /\ q \notin At("serving") /\ At("cloning")' = At("cloning")
    BY <1>9 DEF Admit, Goto, At
  <2>2. IsFiniteSet(At("serving")') /\ Cardinality(At("serving")') = Cardinality(At("serving")) + 1
    BY <2>1, FS_AddElement DEF PlacesInv, ActiveAccounted
  <2>3. active \in Nat \ {0} /\ active' = active - 1 /\ clones' = clones
    BY <1>9 DEF Admit, PlacesInv, ActiveAccounted
  <2>4. Cardinality(At("serving")) \in Nat
    BY FS_CardinalityType DEF PlacesInv, ActiveAccounted
  <2>5. ActiveAccounted'
    BY <2>2, <2>3, <2>4 DEF PlacesInv, ActiveAccounted
  <2> QED BY <2>1, <2>3, <2>5 DEF PlacesInv, ClonesAccounted
<1>10. ASSUME NEW q \in Requests, Busy(q) PROVE PlacesInv'
  BY <1>10, KeepsPlaces DEF Busy, semVars
<1>11. ASSUME NEW q \in Requests, ServeEnds(q) PROVE PlacesInv'
  <2>1. At("serving")' = At("serving") \ {q} /\ q \in At("serving") /\ At("cloning")' = At("cloning")
    BY <1>11 DEF ServeEnds, Goto, At
  <2>2. IsFiniteSet(At("serving")') /\ Cardinality(At("serving")') = Cardinality(At("serving")) - 1
    BY <2>1, FS_RemoveElement DEF PlacesInv, ActiveAccounted
  <2>3. active' = active + 1 /\ clones' = clones
    BY <1>11 DEF ServeEnds
  <2>4. Cardinality(At("serving")) \in Nat
    BY FS_CardinalityType DEF PlacesInv, ActiveAccounted
  <2>5. ActiveAccounted'
    BY <2>2, <2>3, <2>4 DEF PlacesInv, ActiveAccounted
  <2> QED BY <2>1, <2>3, <2>5 DEF PlacesInv, ClonesAccounted
<1>12. CASE Crash
  <2>1. At("cloning")' = {} /\ At("serving")' = {}
    BY <1>12 DEF Crash, At
  <2>2. /\ IsFiniteSet(At("cloning")') /\ Cardinality(At("cloning")') = 0
        /\ IsFiniteSet(At("serving")') /\ Cardinality(At("serving")') = 0
    BY <2>1, FS_EmptySet
  <2>3. clones' = MaxClones /\ active' = MaxActive /\ MaxClones \in Nat /\ MaxActive \in Nat
    BY <1>12, GitCacheAssumption DEF Crash
  <2> QED BY <2>2, <2>3 DEF PlacesInv, ClonesAccounted, ActiveAccounted
<1>13. CASE UNCHANGED <<pc, semVars>>
  BY <1>13 DEF semVars, At, PlacesInv, ClonesAccounted, ActiveAccounted
<1> QED
  BY <1>1, <1>2, <1>3, <1>4, <1>5, <1>6, <1>7, <1>8, <1>9, <1>10, <1>11, <1>12, <1>13
  DEF Next, Proceeds, vars, Expire, GcScan, GcDone, EvictSkips, EvictStarts, EvictEnds

\* The free places of both semaphores stay within their limits.
LEMMA PlacesBounded == PlacesInv => clones \in 0..MaxClones /\ active \in 0..MaxActive
BY FS_CardinalityType, GitCacheAssumption DEF PlacesInv, ClonesAccounted, ActiveAccounted

-----------------------------------------------------------------------------
(* The locks.                                                              *)

\* The repositories of which anything is on the disk are finitely many, so that
\* the janitor can list them.
OnDisk == {r \in Repos : mirror[r] # "none"}

\* The janitor removes the first mirror of its list, under its lock.
JanitorHolds ==
    /\ IsFiniteSet(OnDisk)
    /\ queue \in Seq(Repos)
    /\ gpc = "rmtree" => queue # <<>> /\ lock[Head(queue)] = "janitor"

LockInv == TypeOK /\ JanitorHolds

\* What the janitor lists are repositories.
LEMMA ListedAreRepos == IsFiniteSet(OnDisk) => list_mirrors \subseteq Seq(Repos)
<1> SUFFICES ASSUME IsFiniteSet(OnDisk), NEW s \in list_mirrors PROVE s \in Seq(Repos) OBVIOUS
<1> DEFINE listed == {r \in Repos : repo_exists(r)}
<1>1. listed \subseteq OnDisk BY DEF OnDisk, repo_exists
<1>2. Cardinality(listed) \in Nat
  <2> HIDE DEF listed
  <2> QED BY <1>1, FS_Subset, FS_CardinalityType
<1>3. s \in [1..Cardinality(listed) -> listed] BY DEF list_mirrors, SetToSeqs
<1>4. listed \subseteq Repos OBVIOUS
<1>5. s \in Seq(listed)
  <2> HIDE DEF listed
  <2> QED BY <1>2, <1>3
<1> QED
  <2> HIDE DEF listed
  <2> QED BY <1>4, <1>5, SeqMonotonic

\* The mirror of a repository changes on the disk only by a Rename or by the
\* janitor, which keeps what is there finite.
LEMMA OnDiskFinite ==
    ASSUME IsFiniteSet(OnDisk), mirror \in [Repos -> Mirrors], NEW r \in Repos,
           \A u \in Repos \ {r} : mirror'[u] = mirror[u]
    PROVE  IsFiniteSet(OnDisk')
<1>1. OnDisk' \subseteq OnDisk \cup {r} BY DEF OnDisk
<1>2. IsFiniteSet(OnDisk \cup {r}) BY FS_AddElement
<1> QED BY <1>1, <1>2, FS_Subset

\* Every action keeps the types, and keeps the lock of a repository with the
\* one that writes it.
LEMMA LockStep == PlacesInv' /\ LockInv /\ [Next]_vars => LockInv'
<1> SUFFICES ASSUME PlacesInv', LockInv, [Next]_vars PROVE LockInv' OBVIOUS
<1> USE GitCacheAssumption
    DEF LockInv, TypeOK, JanitorHolds, Mirrors, Pcs, Reading, Writing, Ended, Goto, Unlock,
        diskVars, semVars, gcVars
<1>0. clones' \in 0..MaxClones /\ active' \in 0..MaxActive
  <2>1. (PlacesInv => clones \in 0..MaxClones /\ active \in 0..MaxActive)'
    BY PlacesBounded, PTL
  <2> QED BY <2>1
<1>a. ASSUME queue # <<>> PROVE Head(queue) \in Repos /\ Tail(queue) \in Seq(Repos)
  BY <1>a
<1>b. ASSUME mirror' = mirror PROVE OnDisk' = OnDisk
  BY <1>b DEF OnDisk
<1>c. ASSUME NEW q \in Requests, EnterReading(q) PROVE cut' \subseteq Requests
  BY <1>c DEF EnterReading
<1>1. ASSUME NEW q \in Requests, Forbid(q) PROVE LockInv'
  BY <1>0, <1>b, <1>1 DEF Forbid
<1>2. ASSUME NEW q \in Requests, Begin(q) PROVE LockInv'
  <2>1. cut' \subseteq Requests BY <1>2, <1>c DEF Begin
  <2> QED BY <1>0, <1>b, <1>2, <2>1 DEF Begin, EnterReading
<1>3. ASSUME NEW q \in Requests, Flock(q) PROVE LockInv'
  <2>1. cut' \subseteq Requests BY <1>3, <1>c DEF Flock
  <2> QED BY <1>0, <1>b, <1>3, <2>1 DEF Flock, EnterReading
<1>4. ASSUME NEW q \in Requests, StartClone(q) PROVE LockInv'
  BY <1>0, <1>b, <1>4 DEF StartClone
<1>5. ASSUME NEW q \in Requests, CloneEnds(q) PROVE LockInv'
  BY <1>0, <1>b, <1>5 DEF CloneEnds, cloneFailed
<1>6. ASSUME NEW q \in Requests, Rename(q) PROVE LockInv'
  <2>1. IsFiniteSet(OnDisk') BY <1>6, OnDiskFinite DEF Rename
  <2> QED BY <1>0, <1>6, <2>1 DEF Rename
<1>7. ASSUME NEW q \in Requests, TouchStamp(q) PROVE LockInv'
  <2>1. cut' \subseteq Requests BY <1>7, <1>c DEF TouchStamp
  <2> QED BY <1>0, <1>b, <1>7, <2>1 DEF TouchStamp, EnterReading
<1>8. ASSUME NEW q \in Requests, Refresh(q) PROVE LockInv'
  <2>1. cut' \subseteq Requests BY <1>8, <1>c DEF Refresh
  <2> QED BY <1>0, <1>b, <1>8, <2>1 DEF Refresh, EnterReading
<1>9. ASSUME NEW q \in Requests, Admit(q) PROVE LockInv'
  BY <1>0, <1>b, <1>9 DEF Admit
<1>10. ASSUME NEW q \in Requests, Busy(q) PROVE LockInv'
  BY <1>0, <1>b, <1>10 DEF Busy
<1>11. ASSUME NEW q \in Requests, ServeEnds(q) PROVE LockInv'
  BY <1>0, <1>b, <1>11 DEF ServeEnds
<1>12. ASSUME NEW r \in Repos, Expire(r) PROVE LockInv'
  BY <1>0, <1>b, <1>12 DEF Expire
<1>13. CASE GcScan
  <2>1. tmp' \in [Repos -> {"none", "some"}]
    BY <1>13 DEF GcScan, gc_stale_tmp
  <2>2. queue' \in Seq(Repos) /\ gpc' # "rmtree" /\ gpc' \in {"sleep", "evict"} /\ passes' \in 0..MaxPasses
    BY <1>13, ListedAreRepos DEF GcScan
  <2> QED BY <1>0, <1>b, <1>13, <2>1, <2>2 DEF GcScan
<1>14. CASE GcDone
  BY <1>0, <1>b, <1>14 DEF GcDone
<1>15. CASE EvictSkips
  BY <1>0, <1>a, <1>b, <1>15 DEF EvictSkips
<1>16. CASE EvictStarts
  <2> DEFINE r == Head(queue)
  <2>1. r \in Repos /\ queue # <<>> BY <1>16, <1>a DEF EvictStarts
  <2>2. PICK m \in {"objects", "rest"} : mirror' = [mirror EXCEPT ![r] = m]
    BY <1>16 DEF EvictStarts
  <2>3. lock[r] = Nobody /\ lock' = [lock EXCEPT ![r] = "janitor"]
    BY <1>16 DEF EvictStarts, mayEvict
  <2>4. UNCHANGED <<tmp, stamp, pc, refresh, clones, active, queue, passes, faults, broken>> /\ gpc' = "rmtree"
        /\ cut' \subseteq Requests
    BY <1>16 DEF EvictStarts
  <2> HIDE DEF r
  <2>5. IsFiniteSet(OnDisk') BY <2>1, <2>2, OnDiskFinite
  <2>6. lock'[r] = "janitor" /\ r' = r BY <2>1, <2>3, <2>4 DEF r
  <2>7. JanitorHolds' BY <2>1, <2>4, <2>5, <2>6 DEF r
  <2>8. TypeOK' BY <1>0, <2>1, <2>2, <2>3, <2>4
  <2> QED BY <2>7, <2>8
<1>17. CASE EvictEnds
  <2> DEFINE r == Head(queue)
  <2>1. r \in Repos /\ Tail(queue) \in Seq(Repos) /\ lock[r] = "janitor" BY <1>17, <1>a DEF EvictEnds
  <2>2. \/ mirror' = [mirror EXCEPT ![r] = "none"] /\ broken' = broken \ {r} /\ faults' = faults
        \/ faults < MaxFaults /\ faults' = faults + 1 /\ broken' = broken \cup {r} /\ mirror' = mirror
    BY <1>17 DEF EvictEnds
  <2>3. stamp' = [stamp EXCEPT ![r] = "none"] /\ lock' = [lock EXCEPT ![r] = Nobody]
    BY <1>17 DEF EvictEnds
  <2>4. UNCHANGED <<tmp, pc, refresh, clones, active, passes, cut>> /\ gpc' = "evict" /\ queue' = Tail(queue)
    BY <1>17 DEF EvictEnds
  <2> HIDE DEF r
  <2>5. IsFiniteSet(OnDisk') BY <2>1, <2>2, OnDiskFinite
  <2>6. JanitorHolds' BY <2>1, <2>4, <2>5
  <2>7. TypeOK' BY <1>0, <2>1, <2>2, <2>3, <2>4
  <2> QED BY <2>6, <2>7
<1>18. CASE Crash
  <2>1. broken' \subseteq Repos BY <1>18, <1>a DEF Crash
  <2> QED BY <1>0, <1>b, <1>18, <2>1 DEF Crash
<1>19. CASE UNCHANGED vars
  BY <1>0, <1>b, <1>19 DEF vars
<1> QED
  BY <1>1, <1>2, <1>3, <1>4, <1>5, <1>6, <1>7, <1>8, <1>9, <1>10, <1>11, <1>12, <1>13, <1>14,
     <1>15, <1>16, <1>17, <1>18, <1>19
  DEF Next, Proceeds

-----------------------------------------------------------------------------
(* The mirrors.                                                            *)

\* While a clone is made its place is empty, and once it is made, or while it
\* is refreshed, the mirror is whole; unless a removal was interrupted there.
LockedMirror ==
    \A q \in Requests :
        /\ pc[q] \in {"clonewait", "cloning", "rename"} =>
              mirror[RepoOf[q]] = "none" \/ RepoOf[q] \in broken
        /\ pc[q] \in {"stamp", "refresh"} =>
              mirror[RepoOf[q]] = "whole" \/ RepoOf[q] \in broken

\* Less than a whole mirror is the work of the janitor.
PartIsEvicted ==
    \A r \in Repos :
        \/ mirror[r] \in {"none", "whole"}
        \/ r \in broken
        \/ gpc = "rmtree" /\ Head(queue) = r

\* Whoever reads a mirror that is being removed is known to do so.
ReadersAreCut ==
    gpc = "rmtree" =>
        \A q \in Requests : RepoOf[q] = Head(queue) /\ pc[q] \in Reading => q \in cut

DiskInv == LockedMirror /\ PartIsEvicted /\ ReadersAreCut /\ ReadsWholeMirror

\* A step of a request that leaves the disk and the janitor alone and does not
\* start to read.
LEMMA KeepsDisk ==
    ASSUME LockInv, DiskInv, NEW q \in Requests, NEW label \in Pcs, Goto(q, label),
           UNCHANGED <<mirror, gpc, queue, broken, cut>>,
           label \in Reading => pc[q] \in Reading,
           label \in {"clonewait", "cloning", "rename"} =>
               mirror[RepoOf[q]] = "none" \/ RepoOf[q] \in broken,
           label \in {"stamp", "refresh"} =>
               mirror[RepoOf[q]] = "whole" \/ RepoOf[q] \in broken
    PROVE  DiskInv'
<1> USE DEF LockInv, TypeOK, DiskInv, Goto
<1>1. LockedMirror' BY DEF LockedMirror
<1>2. PartIsEvicted' BY DEF PartIsEvicted
<1>3. ReadersAreCut' /\ ReadsWholeMirror' BY DEF ReadersAreCut, ReadsWholeMirror
<1> QED BY <1>1, <1>2, <1>3

\* A request that starts to read finds a whole mirror, or a broken one, or one
\* that is being removed.
LEMMA StartsToRead ==
    ASSUME LockInv, DiskInv, NEW q \in Requests, EnterReading(q),
           UNCHANGED <<mirror, gpc, queue, broken>>,
           repo_exists(RepoOf[q]) \/ mirror[RepoOf[q]] = "whole" \/ RepoOf[q] \in broken
    PROVE  DiskInv'
<1> USE GitCacheAssumption DEF LockInv, TypeOK, DiskInv, EnterReading, Goto, Reading
<1>1. LockedMirror' BY DEF LockedMirror
<1>2. PartIsEvicted' BY DEF PartIsEvicted
<1>3. ReadersAreCut' BY DEF ReadersAreCut
<1>4. mirror[RepoOf[q]] = "whole" \/ RepoOf[q] \in broken \/ q \in cut'
  BY DEF PartIsEvicted, repo_exists
<1>5. ReadsWholeMirror' BY <1>4 DEF ReadsWholeMirror
<1> QED BY <1>1, <1>2, <1>3, <1>5

\* What a request finds under a lock that nobody held is the janitor's only if
\* a removal was interrupted.
LEMMA FreeIsSettled ==
    ASSUME LockInv, DiskInv, NEW r \in Repos, lock[r] = Nobody
    PROVE  mirror[r] \in {"none", "whole"} \/ r \in broken
BY GitCacheAssumption DEF LockInv, TypeOK, JanitorHolds, DiskInv, PartIsEvicted

\* Every action keeps what is on the disk explained.
LEMMA DiskStep == LockInv /\ DiskInv /\ [Next]_vars => DiskInv'
<1> SUFFICES ASSUME LockInv, DiskInv, [Next]_vars PROVE DiskInv' OBVIOUS
<1> USE GitCacheAssumption DEF Pcs, Reading, Writing, Ended
<1>0. RepoOf \in [Requests -> Repos] /\ mirror \in [Repos -> Mirrors] /\ pc \in [Requests -> Pcs]
  BY DEF LockInv, TypeOK
<1>1. ASSUME NEW q \in Requests, Forbid(q) PROVE DiskInv'
  BY <1>1, KeepsDisk DEF Forbid, diskVars, gcVars
<1>2. ASSUME NEW q \in Requests, Begin(q) PROVE DiskInv'
  <2>1. CASE repo_exists(RepoOf[q]) /\ EnterReading(q)
    BY <1>2, <2>1, StartsToRead DEF Begin, diskVars, gcVars
  <2>2. CASE Goto(q, "lock") /\ UNCHANGED cut
    BY <1>2, <2>2, KeepsDisk DEF Begin, diskVars, gcVars
  <2> QED BY <1>2, <2>1, <2>2 DEF Begin
<1>3. ASSUME NEW q \in Requests, Flock(q) PROVE DiskInv'
  <2>1. /\ mirror[RepoOf[q]] \in {"none", "whole"} \/ RepoOf[q] \in broken
        /\ UNCHANGED <<mirror, gpc, queue, broken>>
    BY <1>3, FreeIsSettled DEF Flock, gcVars
  <2>2. CASE ~existsUnderLock(RepoOf[q]) /\ Goto(q, "clonewait") /\ UNCHANGED cut
    BY <2>1, <2>2, KeepsDisk DEF existsUnderLock, repo_exists
  <2>3. CASE existsUnderLock(RepoOf[q]) /\ Goto(q, "refresh") /\ UNCHANGED cut
    BY <2>1, <2>3, KeepsDisk DEF existsUnderLock, repo_exists
  <2>4. CASE existsUnderLock(RepoOf[q]) /\ EnterReading(q)
    BY <2>1, <2>4, StartsToRead DEF existsUnderLock
  <2>5. CASE Goto(q, "answered") /\ UNCHANGED cut
    BY <2>1, <2>5, KeepsDisk
  <2> QED BY <1>3, <2>2, <2>3, <2>4, <2>5 DEF Flock
<1>4. ASSUME NEW q \in Requests, StartClone(q) PROVE DiskInv'
  BY <1>4, KeepsDisk DEF StartClone, gcVars, DiskInv, LockedMirror
<1>5. ASSUME NEW q \in Requests, CloneEnds(q) PROVE DiskInv'
  BY <1>5, KeepsDisk DEF CloneEnds, cloneFailed, gcVars, DiskInv, LockedMirror
<1>6. ASSUME NEW q \in Requests, Rename(q) PROVE DiskInv'
  <2> DEFINE r == RepoOf[q]
  <2>1. CASE mirror[r] = "none"
    <3>1. /\ pc[q] = "rename" /\ mirror' = [mirror EXCEPT ![r] = "whole"] /\ pc' = [pc EXCEPT ![q] = "stamp"]
          /\ UNCHANGED <<gpc, queue, broken, cut>>
      BY <1>6, <2>1 DEF Rename, Goto, gcVars
    <3>2. \A u \in Requests \ {q} : pc[u] \in Writing => RepoOf[u] # r
      BY <3>1 DEF LockInv, TypeOK
    <3>3. LockedMirror' BY <1>0, <3>1, <3>2 DEF DiskInv, LockedMirror
    <3>4. PartIsEvicted' BY <1>0, <3>1 DEF DiskInv, PartIsEvicted
    <3>5. ReadersAreCut' /\ ReadsWholeMirror'
      BY <1>0, <3>1 DEF DiskInv, ReadersAreCut, ReadsWholeMirror
    <3> QED BY <3>3, <3>4, <3>5 DEF DiskInv
  <2>2. CASE mirror[r] # "none"
    BY <1>6, <2>2, KeepsDisk DEF Rename, gcVars
  <2> QED BY <2>1, <2>2
<1>7. ASSUME NEW q \in Requests, TouchStamp(q) PROVE DiskInv'
  BY <1>7, StartsToRead DEF TouchStamp, gcVars, DiskInv, LockedMirror
<1>8. ASSUME NEW q \in Requests, Refresh(q) PROVE DiskInv'
  <2>1. CASE EnterReading(q)
    BY <1>8, <2>1, StartsToRead DEF Refresh, gcVars, DiskInv, LockedMirror
  <2>2. CASE Goto(q, "answered") /\ UNCHANGED cut
    BY <1>8, <2>2, KeepsDisk DEF Refresh, gcVars
  <2> QED BY <1>8, <2>1, <2>2 DEF Refresh
<1>9. ASSUME NEW q \in Requests, Admit(q) PROVE DiskInv'
  BY <1>9, KeepsDisk DEF Admit, diskVars, gcVars
<1>10. ASSUME NEW q \in Requests, Busy(q) PROVE DiskInv'
  BY <1>10, KeepsDisk DEF Busy, diskVars, gcVars
<1>11. ASSUME NEW q \in Requests, ServeEnds(q) PROVE DiskInv'
  BY <1>11, KeepsDisk DEF ServeEnds, diskVars, gcVars
<1>12. ASSUME gpc # "rmtree", gpc' # "rmtree", UNCHANGED <<mirror, pc, broken, cut>> PROVE DiskInv'
  BY <1>12 DEF DiskInv, LockedMirror, PartIsEvicted, ReadersAreCut, ReadsWholeMirror
<1>13. CASE GcScan \/ GcDone \/ EvictSkips
  BY <1>12, <1>13 DEF GcScan, GcDone, EvictSkips, diskVars, gcVars
<1>14. CASE EvictStarts
  <2> DEFINE r == Head(queue)
  <2>1. r \in Repos BY <1>14 DEF EvictStarts, LockInv, JanitorHolds
  <2>2. PICK m \in {"objects", "rest"} : mirror' = [mirror EXCEPT ![r] = m]
    BY <1>14 DEF EvictStarts
  <2>3. /\ lock[r] = Nobody /\ gpc' = "rmtree" /\ gpc # "rmtree" /\ UNCHANGED <<pc, queue, broken>>
        /\ cut' = cut \cup {q \in Requests : RepoOf[q] = r /\ pc[q] \in Reading}
    BY <1>14 DEF EvictStarts, mayEvict
  <2>4. \A q \in Requests : pc[q] \in Writing => RepoOf[q] # r
    BY <2>3 DEF LockInv, TypeOK
  <2>5. r' = r BY <2>3
  <2> HIDE DEF r
  <2>6. LockedMirror' BY <1>0, <2>1, <2>2, <2>3, <2>4 DEF DiskInv, LockedMirror
  <2>7. PartIsEvicted'
    <3>1. \A u \in Repos \ {r} : mirror'[u] \in {"none", "whole"} \/ u \in broken'
      BY <1>0, <2>1, <2>2, <2>3 DEF DiskInv, PartIsEvicted
    <3> QED BY <2>3, <2>5, <3>1 DEF PartIsEvicted, r
  <2>8. ReadersAreCut' BY <2>3, <2>5 DEF ReadersAreCut, r
  <2>9. ReadsWholeMirror' BY <1>0, <2>1, <2>2, <2>3 DEF DiskInv, ReadsWholeMirror
  <2> QED BY <2>6, <2>7, <2>8, <2>9 DEF DiskInv
<1>15. CASE EvictEnds
  <2> DEFINE r == Head(queue)
  <2>1. r \in Repos /\ lock[r] = "janitor" /\ gpc = "rmtree"
    BY <1>15 DEF EvictEnds, LockInv, JanitorHolds
  <2>2. \/ mirror' = [mirror EXCEPT ![r] = "none"] /\ broken' = broken \ {r}
        \/ broken' = broken \cup {r} /\ mirror' = mirror
    BY <1>15 DEF EvictEnds
  <2>3. gpc' = "evict" /\ UNCHANGED <<pc, cut>>
    BY <1>15 DEF EvictEnds
  <2>4. \A q \in Requests : pc[q] \in Writing => RepoOf[q] # r
    BY <2>1 DEF LockInv, TypeOK
  <2>5. \A q \in Requests : RepoOf[q] = r /\ pc[q] \in Reading => q \in cut
    BY <2>1 DEF DiskInv, ReadersAreCut
  <2>6. \A u \in Repos \ {r} : mirror[u] \in {"none", "whole"} \/ u \in broken
    BY DEF DiskInv, PartIsEvicted
  <2> HIDE DEF r
  <2>7. LockedMirror' BY <1>0, <2>1, <2>2, <2>3, <2>4 DEF DiskInv, LockedMirror
  <2>8. PartIsEvicted' BY <1>0, <2>1, <2>2, <2>3, <2>6 DEF PartIsEvicted
  <2>9. ReadersAreCut' BY <2>3 DEF ReadersAreCut
  <2>10. ReadsWholeMirror' BY <1>0, <2>1, <2>2, <2>3, <2>5 DEF DiskInv, ReadsWholeMirror
  <2> QED BY <2>7, <2>8, <2>9, <2>10 DEF DiskInv
<1>16. CASE Crash
  <2>1. \A q \in Requests : pc'[q] \in {"new", "answered", "dropped"}
    BY <1>16 DEF Crash
  <2>2. PartIsEvicted' BY <1>16 DEF Crash, DiskInv, PartIsEvicted, diskVars
  <2>3. gpc' = "sleep" BY <1>16 DEF Crash
  <2> QED BY <2>1, <2>2, <2>3 DEF DiskInv, LockedMirror, ReadersAreCut, ReadsWholeMirror
<1>17. CASE UNCHANGED <<mirror, pc, gpc, queue, broken, cut>>
  BY <1>17 DEF DiskInv, LockedMirror, PartIsEvicted, ReadersAreCut, ReadsWholeMirror
<1> QED
  BY <1>1, <1>2, <1>3, <1>4, <1>5, <1>6, <1>7, <1>8, <1>9, <1>10, <1>11, <1>13, <1>14,
     <1>15, <1>16, <1>17
  DEF Next, Proceeds, vars, diskVars, gcVars, Expire

-----------------------------------------------------------------------------
(* At the start the volume is empty and all places are free. *)

\* The invariants hold at the start.
LEMMA InvInit == Init => PlacesInv /\ LockInv /\ DiskInv
<1> SUFFICES ASSUME Init PROVE PlacesInv /\ LockInv /\ DiskInv OBVIOUS
<1>1. At("cloning") = {} /\ At("serving") = {} /\ OnDisk = {}
  BY DEF Init, At, OnDisk
<1>2. PlacesInv
  <2>1. /\ IsFiniteSet(At("cloning")) /\ Cardinality(At("cloning")) = 0
        /\ IsFiniteSet(At("serving")) /\ Cardinality(At("serving")) = 0
    BY <1>1, FS_EmptySet
  <2>2. clones = MaxClones /\ active = MaxActive /\ MaxClones \in Nat /\ MaxActive \in Nat
    BY GitCacheAssumption DEF Init
  <2> QED BY <2>1, <2>2 DEF PlacesInv, ClonesAccounted, ActiveAccounted
<1>3. LockInv
  BY <1>1, FS_EmptySet, GitCacheAssumption
  DEF Init, LockInv, TypeOK, JanitorHolds, Mirrors, Pcs, Reading, Writing, Ended
<1>4. DiskInv
  BY GitCacheAssumption
  DEF Init, DiskInv, LockedMirror, PartIsEvicted, ReadersAreCut, ReadsWholeMirror, Reading
<1> QED BY <1>2, <1>3, <1>4

\* The invariants hold together in every reachable state.
LEMMA Invariants == Spec => [](PlacesInv /\ LockInv /\ DiskInv)
<1>1. LockInv => pc \in [Requests -> Pcs] BY DEF LockInv, TypeOK
<1> QED BY <1>1, InvInit, PlacesStep, LockStep, DiskStep, PTL DEF Spec

\* A repository that looks usable is a complete clone, for any number of
\* concurrent requests, evictions and crashes, unless an eviction is under way
\* or was interrupted there; a finished clone finds its place empty.
THEOREM MirrorsAreWhole == Spec => []MirrorIsWhole
<1>1. LockInv /\ DiskInv => MirrorIsWhole
  BY DEF LockInv, DiskInv, LockedMirror, PartIsEvicted, MirrorIsWhole
<1> QED BY <1>1, Invariants, PTL

\* A request reads a whole mirror unless the janitor has started to remove it
\* since, or an interrupted removal had left it broken.
THEOREM ReadersSeeWholeMirrors == Spec => []ReadsWholeMirror
<1>1. DiskInv => ReadsWholeMirror BY DEF DiskInv
<1> QED BY <1>1, Invariants, PTL
=============================================================================
