--------------------------- MODULE WorkDirProofs ---------------------------
(***************************************************************************)
(* The byte budget of the work directory, for any number of requests, any  *)
(* uploads and any limits: archives never take more than the budget, no    *)
(* refusal charges a byte twice, and a directory without an owner has one  *)
(* of the four causes that NoStrayDirectory names. The inductive invariant *)
(* follows the request that holds admissionMu through handleCreateBuild:   *)
(* what its walk has counted, what it may still write and what it has      *)
(* written.                                                                *)
(***************************************************************************)
EXTENDS WorkDir, FiniteSetTheorems, SequenceTheorems, TLAPS

-----------------------------------------------------------------------------
(* The inductive invariant.                                                *)

Idle == {"new", "wait", "done"}
UnderLock == {"scan", "upload", "save", "open", "extract", "admit", "undo"}
Statuses == {0, 202, 400, 413, 429, 500, 503, 507}

\* One request at a time is between Lock and Unlock.
LockTypes ==
    /\ lock \in Tasks \cup {NoTask}
    /\ pc \in [Tasks -> Idle \cup UnderLock]
    /\ \A t \in Tasks : pc[t] \in UnderLock <=> lock = t

RequestTypes ==
    /\ upload \in [Tasks -> Uploads \cup {NoUpload}]
    /\ answer \in [Tasks -> Statuses]
    /\ left \in Int /\ measured \in Nat
    /\ at \in Nat /\ at > 0

ScanTypes == scan \in [todo : SUBSET Tasks, files : Seq(Tasks \X Files), sum : Nat]

\* The tests of the limits keep every size a number that is not negative.
DiskTypes == dirs \subseteq Tasks /\ disk \in [Tasks -> [Files -> Nat]]

TaskTypes ==
    /\ store \subseteq Tasks /\ terminal \subseteq Tasks /\ removing \subseteq Tasks
    /\ runner \in [Tasks -> {"none", "queued", "running", "converted", "ended"}]
    /\ logLeft \in [Tasks -> Nat]
    /\ unlinked \subseteq Tasks /\ late \subseteq Tasks

FailTypes ==
    /\ faults \in 0..MaxFaults
    /\ lost \subseteq Tasks /\ bare \subseteq Tasks /\ kept \subseteq Tasks

TypeInv == LockTypes /\ RequestTypes /\ ScanTypes /\ DiskTypes /\ TaskTypes /\ FailTypes

\* A request has no directory before saveUploadedFile, has it until it is
\* answered, and has no runner before.
HandlerInv ==
    \A t \in Tasks :
        /\ pc[t] \in {"new", "wait", "scan", "upload", "save"} =>
              t \notin dirs /\ disk[t] = NoFiles
        /\ pc[t] # "done" =>
              t \notin store /\ t \notin removing /\ runner[t] = "none" /\ disk[t].log = 0
        /\ pc[t] \in {"open", "extract", "admit"} => t \in dirs
        /\ pc[t] \in {"extract", "admit"} => disk[t].zip > 0
        /\ pc[t] = "open" => disk[t].context = 0

\* A directory has an owner. Files are in directories, and the zip of a build
\* that has not ended is there until its files are removed.
DirInv ==
    /\ \A d \in dirs : \/ d \in store \cup removing \cup late \cup lost \cup bare \cup kept
                       \/ pc[d] \in {"open", "extract", "admit", "undo"}
    /\ \A t \in Tasks, k \in Files : disk[t][k] > 0 => t \in dirs
    /\ \A t \in Tasks : runner[t] \in Running \cup {"queued"} =>
          t \in unlinked \/ (t \in dirs /\ disk[t].zip > 0)

\* A request whose directory could not be made whole has been answered, and
\* nobody touches what it left.
BareInv ==
    \A d \in bare :
        /\ pc[d] = "done" /\ answer[d] = 500 /\ disk[d] = NoFiles
        /\ runner[d] = "none" /\ d \notin store /\ d \notin removing

\* What a build writes beside its archive has a limit.
OtherInv ==
    \A t \in Tasks :
        /\ disk[t].log + logLeft[t] <= MaxLogBytes
        /\ runner[t] = "queued" => disk[t].log = 0
        /\ disk[t].nydus <= NydusBytes

\* What directorySize has not added up yet, and the archives it has counted at
\* no less than they take by now.
Pending(d, k) == d \in scan.todo \/ \E i \in DOMAIN scan.files : scan.files[i] = <<d, k>>
Counted ==
    [t \in Tasks |-> (IF Pending(t, "zip") THEN 0 ELSE disk[t].zip)
                     + (IF Pending(t, "context") THEN 0 ELSE disk[t].context)]

\* remainingWorkDirBytes is free for the request that holds the lock, until it
\* has used it.
BudgetInv ==
    /\ ArchiveBytes <= MaxWorkDirBytes + RewriteBytes
    /\ \A t \in Tasks :
        /\ pc[t] = "scan" => Total(Counted) <= scan.sum
        /\ pc[t] \in {"upload", "save"} => ArchiveBytes + left <= MaxWorkDirBytes
        /\ pc[t] = "save" => upload[t].body <= left
        /\ pc[t] = "open" =>
              /\ disk[t].zip <= left
              /\ ArchiveBytes + left <= MaxWorkDirBytes + disk[t].zip
        /\ pc[t] = "extract" =>
              /\ disk[t].context <= left
              /\ ArchiveBytes + left <= MaxWorkDirBytes + disk[t].context

\* What the first n - 1 entries of an archive take.
UnpackedBefore(u, n) ==
    Total([i \in DOMAIN u.entries |-> IF i < n THEN EntrySize(u.entries[i]) ELSE 0])

\* remainingWorkDirBytes is the budget without what was measured and without
\* the zip, charged once; the context has what the entries account for.
ChargeInv ==
    \A t \in Tasks :
        /\ pc[t] \in {"upload", "save", "open"} => measured + left = MaxWorkDirBytes
        /\ pc[t] = "open" => disk[t].zip = upload[t].zip
        /\ pc[t] = "extract" =>
              /\ measured + upload[t].zip + left = MaxWorkDirBytes
              /\ disk[t].context <= UnpackedBefore(upload[t], at)

-----------------------------------------------------------------------------
(* Sums of sizes.                                                          *)

\* The bytes of the file x from one position to another.
LEMMA FileBytes ==
    ASSUME NEW x, NEW a \in Int, NEW b \in Int, a <= b + 1
    PROVE  /\ IsFiniteSet({x} \X (a..b))
           /\ Cardinality({x} \X (a..b)) = b - a + 1
<1>1. IsFiniteSet({x}) /\ Cardinality({x}) = 1
  BY FS_Singleton
<1>2. IsFiniteSet(a..b) /\ Cardinality(a..b) = b - a + 1
  BY FS_Interval
<1>3. /\ IsFiniteSet({x} \X (a..b))
      /\ Cardinality({x} \X (a..b)) = Cardinality({x}) * Cardinality(a..b)
  BY <1>1, <1>2, FS_Product
<1>4. 1 * (b - a + 1) = b - a + 1
  OBVIOUS
<1> QED BY <1>1, <1>2, <1>3, <1>4

\* Finitely many files have finitely many bytes.
LEMMA TotalIsNumber ==
    ASSUME NEW S, IsFiniteSet(S), NEW f \in [S -> Nat]
    PROVE  IsFiniteSet(Bytes(f)) /\ Total(f) \in Nat
<1> DEFINE P == {{x} \X (1..f[x]) : x \in S}
           g == [x \in S |-> {x} \X (1..f[x])]
<1>1. g \in Surjection(S, P)
  BY DEF Surjection
<1>2. IsFiniteSet(P)
  BY <1>1, FS_Surjection
<1>3. \A p \in P : IsFiniteSet(p)
  <2> SUFFICES ASSUME NEW x \in S PROVE IsFiniteSet({x} \X (1..f[x]))
    OBVIOUS
  <2>1. f[x] \in Int /\ 1 \in Int /\ 1 <= f[x] + 1
    OBVIOUS
  <2> QED BY <2>1, FileBytes
<1>4. IsFiniteSet(UNION P)
  BY <1>2, <1>3, FS_UNION
<1>5. Bytes(f) = UNION P
  BY DEF Bytes
<1> QED BY <1>4, <1>5, FS_CardinalityType DEF Total

\* A byte is a file and a position in it.
LEMMA ByteOf ==
    ASSUME NEW S, NEW f \in [S -> Nat], NEW b
    PROVE  b \in Bytes(f) <=> \E x \in S : \E i \in 1..f[x] : b = <<x, i>>
BY DEF Bytes

\* No file has a byte.
LEMMA TotalZero ==
    ASSUME NEW S, NEW f \in [S -> Nat], \A x \in S : f[x] = 0
    PROVE  Total(f) = 0
<1>1. Bytes(f) = {}
  BY ByteOf
<1> QED BY <1>1, FS_EmptySet DEF Total

\* One file grows by at most n, the others do not grow.
LEMMA TotalAtMost ==
    ASSUME NEW S, IsFiniteSet(S), NEW f \in [S -> Nat], NEW g \in [S -> Nat],
           NEW x \in S, NEW n \in Nat, g[x] <= f[x] + n,
           \A y \in S \ {x} : g[y] <= f[y]
    PROVE  Total(g) <= Total(f) + n
<1> DEFINE lo == f[x] + 1
           hi == f[x] + n
           new == {x} \X (lo..hi)
<1>1. Bytes(g) \subseteq Bytes(f) \cup new
  <2> SUFFICES ASSUME NEW b \in Bytes(g), b \notin new PROVE b \in Bytes(f)
    OBVIOUS
  <2>1. PICK y \in S : \E i \in 1..g[y] : b = <<y, i>>
    BY ByteOf
  <2>2. PICK i \in 1..g[y] : b = <<y, i>>
    BY <2>1
  <2>3. i \in 1..f[y]
    BY <2>2
  <2> QED BY <2>2, <2>3, ByteOf
<1>2. /\ IsFiniteSet(new) /\ Cardinality(new) = n
      /\ IsFiniteSet(Bytes(f)) /\ Cardinality(Bytes(f)) \in Nat
      /\ IsFiniteSet(Bytes(g)) /\ Cardinality(Bytes(g)) \in Nat
  <2>1. lo \in Int /\ hi \in Int /\ lo <= hi + 1 /\ hi - lo + 1 = n
    OBVIOUS
  <2>2. IsFiniteSet(new) /\ Cardinality(new) = n
    <3> HIDE DEF lo, hi
    <3> QED BY <2>1, FileBytes
  <2> QED BY <2>2, TotalIsNumber DEF Total
<1> HIDE DEF new
<1>3. /\ IsFiniteSet(Bytes(f) \cup new)
      /\ Cardinality(Bytes(f) \cup new) =
            Cardinality(Bytes(f)) + Cardinality(new) - Cardinality(Bytes(f) \cap new)
  BY <1>2, FS_Union
<1>4. Cardinality(Bytes(f) \cap new) \in Nat
  <2>1. IsFiniteSet(Bytes(f) \cap new)
    BY <1>2, FS_Subset
  <2> QED BY <2>1, FS_CardinalityType
<1>5. Cardinality(Bytes(g)) <= Cardinality(Bytes(f) \cup new)
  BY <1>1, <1>3, FS_Subset
<1> QED BY <1>2, <1>3, <1>4, <1>5 DEF Total

\* No file grows.
LEMMA TotalMonotone ==
    ASSUME NEW S, IsFiniteSet(S), NEW f \in [S -> Nat], NEW g \in [S -> Nat],
           \A y \in S : g[y] <= f[y]
    PROVE  Total(g) <= Total(f)
<1>1. Bytes(g) \subseteq Bytes(f)
  <2> SUFFICES ASSUME NEW b \in Bytes(g) PROVE b \in Bytes(f)
    OBVIOUS
  <2>1. PICK y \in S : \E i \in 1..g[y] : b = <<y, i>>
    BY ByteOf
  <2>2. PICK i \in 1..g[y] : b = <<y, i>>
    BY <2>1
  <2>3. i \in 1..f[y]
    BY <2>2
  <2> QED BY <2>2, <2>3, ByteOf
<1>2. IsFiniteSet(Bytes(f))
  BY TotalIsNumber
<1> QED BY <1>1, <1>2, FS_Subset DEF Total

\* One file grows by at least n, the others do not shrink.
LEMMA TotalAtLeast ==
    ASSUME NEW S, IsFiniteSet(S), NEW f \in [S -> Nat], NEW g \in [S -> Nat],
           NEW x \in S, NEW n \in Nat, f[x] + n <= g[x],
           \A y \in S \ {x} : f[y] <= g[y]
    PROVE  Total(f) + n <= Total(g)
<1> DEFINE lo == f[x] + 1
           hi == f[x] + n
           new == {x} \X (lo..hi)
<1>1. Bytes(f) \cup new \subseteq Bytes(g)
  <2>1. ASSUME NEW b \in Bytes(f) PROVE b \in Bytes(g)
    <3>1. PICK y \in S : \E i \in 1..f[y] : b = <<y, i>>
      BY ByteOf
    <3>2. PICK i \in 1..f[y] : b = <<y, i>>
      BY <3>1
    <3>3. i \in 1..g[y]
      BY <3>2
    <3> QED BY <3>2, <3>3, ByteOf
  <2>2. ASSUME NEW b \in new PROVE b \in Bytes(g)
    <3>1. PICK i \in f[x] + 1..f[x] + n : b = <<x, i>>
      OBVIOUS
    <3>2. i \in 1..g[x]
      BY <3>1
    <3> QED BY <3>1, <3>2, ByteOf
  <2> QED BY <2>1, <2>2
<1>2. Bytes(f) \cap new = {}
  <2> SUFFICES ASSUME NEW b \in Bytes(f), b \in new PROVE FALSE
    OBVIOUS
  <2>1. PICK y \in S : \E i \in 1..f[y] : b = <<y, i>>
    BY ByteOf
  <2>2. PICK i \in 1..f[y] : b = <<y, i>>
    BY <2>1
  <2>3. y = x /\ i \in f[x] + 1..f[x] + n
    BY <2>2
  <2> QED BY <2>2, <2>3
<1>3. /\ IsFiniteSet(new) /\ Cardinality(new) = n
      /\ IsFiniteSet(Bytes(f)) /\ Cardinality(Bytes(f)) \in Nat
      /\ IsFiniteSet(Bytes(g)) /\ Cardinality(Bytes(g)) \in Nat
  <2>1. lo \in Int /\ hi \in Int /\ lo <= hi + 1 /\ hi - lo + 1 = n
    OBVIOUS
  <2>2. IsFiniteSet(new) /\ Cardinality(new) = n
    <3> HIDE DEF lo, hi
    <3> QED BY <2>1, FileBytes
  <2> QED BY <2>2, TotalIsNumber DEF Total
<1> HIDE DEF new
<1>4. Cardinality(Bytes(f) \cup new) = Cardinality(Bytes(f)) + n
  <2>1. Cardinality(Bytes(f) \cup new) =
          Cardinality(Bytes(f)) + Cardinality(new) - Cardinality(Bytes(f) \cap new)
    BY <1>3, FS_Union
  <2>2. Cardinality(Bytes(f) \cap new) = 0
    BY <1>2, FS_EmptySet
  <2> QED BY <1>3, <2>1, <2>2
<1>5. Cardinality(Bytes(f) \cup new) <= Cardinality(Bytes(g))
  BY <1>1, <1>3, FS_Subset
<1> QED BY <1>4, <1>5 DEF Total

\* Files of at most c bytes each, all of them in D.
LEMMA TotalBound ==
    ASSUME NEW S, IsFiniteSet(S), NEW f \in [S -> Nat], NEW D \in SUBSET S, NEW c \in Nat,
           \A x \in S : f[x] <= c,
           \A x \in S \ D : f[x] = 0
    PROVE  Total(f) <= Cardinality(D) * c
<1>1. Bytes(f) \subseteq D \X (1..c)
  <2> SUFFICES ASSUME NEW b \in Bytes(f) PROVE b \in D \X (1..c)
    OBVIOUS
  <2>1. PICK y \in S : \E i \in 1..f[y] : b = <<y, i>>
    BY ByteOf
  <2>2. PICK i \in 1..f[y] : b = <<y, i>>
    BY <2>1
  <2>3. y \in D /\ i \in 1..c
    BY <2>2
  <2> QED BY <2>2, <2>3
<1>2. IsFiniteSet(D) /\ IsFiniteSet(1..c) /\ Cardinality(1..c) = c
  BY FS_Subset, FS_Interval
<1>3. IsFiniteSet(D \X (1..c)) /\ Cardinality(D \X (1..c)) = Cardinality(D) * c
  BY <1>2, FS_Product
<1> QED BY <1>1, <1>3, FS_Subset DEF Total

-----------------------------------------------------------------------------
(* Files and uploads.                                                      *)

Listed(s) == {s[i] : i \in DOMAIN s}

\* What a concatenation lists.
LEMMA ListedConcat ==
    ASSUME NEW S, NEW s \in Seq(S), NEW q \in Seq(S)
    PROVE  s \o q \in Seq(S) /\ Listed(s \o q) = Listed(s) \cup Listed(q)
<1>1. /\ s \o q \in Seq(S) /\ Len(s \o q) = Len(s) + Len(q)
      /\ Len(s) \in Nat /\ Len(q) \in Nat
      /\ DOMAIN s = 1..Len(s) /\ DOMAIN q = 1..Len(q)
      /\ DOMAIN (s \o q) = 1..Len(s) + Len(q)
      /\ \A i \in 1..Len(s) : (s \o q)[i] = s[i]
      /\ \A i \in 1..Len(q) : (s \o q)[Len(s) + i] = q[i]
  OBVIOUS
<1>2. ASSUME NEW x \in Listed(s) \cup Listed(q) PROVE x \in Listed(s \o q)
  <2>1. CASE x \in Listed(s)
    <3>1. PICK i \in 1..Len(s) : x = s[i]
      BY <1>1, <2>1 DEF Listed
    <3>2. i \in 1..Len(s) + Len(q) /\ (s \o q)[i] = x
      BY <1>1, <3>1
    <3> QED BY <1>1, <3>2 DEF Listed
  <2>2. CASE x \in Listed(q)
    <3>1. PICK i \in 1..Len(q) : x = q[i]
      BY <1>1, <2>2 DEF Listed
    <3>2. Len(s) + i \in 1..Len(s) + Len(q) /\ (s \o q)[Len(s) + i] = x
      BY <1>1, <3>1
    <3> QED BY <1>1, <3>2 DEF Listed
  <2> QED BY <1>2, <2>1, <2>2
<1>3. ASSUME NEW x \in Listed(s \o q) PROVE x \in Listed(s) \cup Listed(q)
  <2>1. PICK i \in 1..Len(s) + Len(q) : x = (s \o q)[i]
    BY <1>1, <1>3 DEF Listed
  <2>2. CASE i <= Len(s)
    <3>1. i \in 1..Len(s)
      BY <1>1, <2>2
    <3> QED BY <1>1, <2>1, <3>1 DEF Listed
  <2>3. CASE i > Len(s)
    <3>1. i - Len(s) \in 1..Len(q) /\ Len(s) + (i - Len(s)) = i
      BY <1>1, <2>3
    <3>2. q[i - Len(s)] = x
      BY <1>1, <2>1, <3>1
    <3> QED BY <1>1, <3>1, <3>2 DEF Listed
  <2> QED BY <1>1, <2>2, <2>3
<1> QED BY <1>1, <1>2, <1>3

\* WalkDir and RemoveAll meet the files that are there, and no others.
LEMMA PresentFiles ==
    ASSUME NEW t \in Tasks, disk[t] \in [Files -> Nat]
    PROVE  /\ Present(t) \in Seq(Files)
           /\ Listed(Present(t)) = {k \in Files : disk[t][k] > 0}
<1>1. ASSUME NEW k \in Files
      PROVE  Has(t, k) \in Seq(Files) /\ Listed(Has(t, k)) = {l \in {k} : disk[t][l] > 0}
  BY DEF Has, Listed
<1> DEFINE a == Has(t, "log")
           b == Has(t, "context")
           c == Has(t, "nydus")
           d == Has(t, "zip")
<1>2. /\ a \in Seq(Files) /\ Listed(a) = {l \in {"log"} : disk[t][l] > 0}
      /\ b \in Seq(Files) /\ Listed(b) = {l \in {"context"} : disk[t][l] > 0}
      /\ c \in Seq(Files) /\ Listed(c) = {l \in {"nydus"} : disk[t][l] > 0}
      /\ d \in Seq(Files) /\ Listed(d) = {l \in {"zip"} : disk[t][l] > 0}
  BY <1>1 DEF Files
<1> DEFINE ab == a \o b
           abc == ab \o c
<1>3. Present(t) = abc \o d
  BY DEF Present
<1> HIDE DEF a, b, c, d
<1>4. ab \in Seq(Files) /\ Listed(ab) = Listed(a) \cup Listed(b)
  BY <1>2, ListedConcat
<1> HIDE DEF ab
<1>5. abc \in Seq(Files) /\ Listed(abc) = Listed(ab) \cup Listed(c)
  BY <1>2, <1>4, ListedConcat
<1> HIDE DEF abc
<1>6. abc \o d \in Seq(Files) /\ Listed(abc \o d) = Listed(abc) \cup Listed(d)
  BY <1>2, <1>5, ListedConcat
<1>7. Listed(Present(t)) = Listed(a) \cup Listed(b) \cup Listed(c) \cup Listed(d)
  BY <1>3, <1>4, <1>5, <1>6
<1>8. Listed(Present(t)) = {k \in Files : disk[t][k] > 0}
  BY <1>2, <1>7 DEF Files
<1> QED BY <1>3, <1>6, <1>8

\* The first of them is one of them.
LEMMA FirstPresent ==
    ASSUME NEW t \in Tasks, disk[t] \in [Files -> Nat]
    PROVE  /\ Present(t) # <<>> => Head(Present(t)) \in Files
           /\ Present(t) = <<>> => \A k \in Files : disk[t][k] = 0
<1>1. Present(t) \in Seq(Files) /\ Listed(Present(t)) = {k \in Files : disk[t][k] > 0}
  BY PresentFiles
<1>2. Present(t) # <<>> => Head(Present(t)) \in Files
  BY <1>1
<1>3. Present(t) = <<>> => \A k \in Files : disk[t][k] = 0
  BY <1>1 DEF Listed
<1> QED BY <1>2, <1>3

\* Sizes and entries of an upload.
LEMMA UploadOf ==
    ASSUME TypeInv, NEW t \in Tasks
    PROVE  /\ upload[t] \in UploadType
           /\ upload[t].zip \in Nat /\ upload[t].body \in Nat
           /\ upload[t].zip <= upload[t].body
           /\ upload[t].entries \in Seq(EntryType)
           /\ Len(upload[t].entries) \in Nat
           /\ DOMAIN upload[t].entries = 1..Len(upload[t].entries)
           /\ \A i \in DOMAIN upload[t].entries :
                 /\ upload[t].entries[i].declared \in Nat
                 /\ upload[t].entries[i].actual \in Nat
<1>1. upload[t] \in Uploads \cup {NoUpload}
  BY DEF TypeInv, RequestTypes
<1>2. NoUpload \in UploadType /\ NoUpload.zip <= NoUpload.body
  <2>1. <<>> \in Seq(EntryType)
    OBVIOUS
  <2> QED BY <2>1 DEF NoUpload, UploadType
<1>3. upload[t] \in UploadType /\ upload[t].zip <= upload[t].body
  BY <1>1, <1>2, WorkDirAssumption
<1>4. /\ upload[t].zip \in Nat /\ upload[t].body \in Nat
      /\ upload[t].entries \in Seq(EntryType)
  BY <1>3 DEF UploadType
<1>5. /\ Len(upload[t].entries) \in Nat
      /\ DOMAIN upload[t].entries = 1..Len(upload[t].entries)
      /\ \A i \in DOMAIN upload[t].entries : upload[t].entries[i] \in EntryType
  BY <1>4
<1> QED BY <1>3, <1>4, <1>5 DEF EntryType

-----------------------------------------------------------------------------
(* Types.                                                                  *)

\* The parts make up the type invariant of the specification.
LEMMA TypeParts == TypeInv => TypeOK
<1> SUFFICES ASSUME TypeInv PROVE TypeOK OBVIOUS
<1>1. {t \in Tasks : pc[t] \notin {"new", "wait", "done"}} = {lock} \ {NoTask}
  BY WorkDirAssumption DEF TypeInv, LockTypes, Idle, UnderLock
<1>2. pc \in [Tasks -> {"new", "wait", "scan", "upload", "save", "open", "extract", "admit",
                        "undo", "done"}]
  BY DEF TypeInv, LockTypes, Idle, UnderLock
<1>3. scan.todo \subseteq Tasks /\ scan.files \in Seq(Tasks \X Files) /\ scan.sum \in Nat
  BY DEF TypeInv, ScanTypes
<1>4. logLeft \in [Tasks -> Int]
  BY DEF TypeInv, TaskTypes
<1> QED
  BY <1>1, <1>2, <1>3, <1>4
  DEF TypeInv, TypeOK, LockTypes, RequestTypes, DiskTypes, TaskTypes, FailTypes, Statuses

\* Who holds the lock is where only its holder can be.
LEMMA OneHolder ==
    ASSUME TypeInv, NEW t \in Tasks, pc[t] \in UnderLock
    PROVE  lock = t /\ \A u \in Tasks \ {t} : pc[u] \in Idle
BY DEF TypeInv, LockTypes, UnderLock, Idle

\* The holder moves on under the lock.
LEMMA HolderMoves ==
    ASSUME TypeInv, NEW t \in Tasks, NEW p \in UnderLock,
           lock \in {t, NoTask}, lock' = t, pc' = [pc EXCEPT ![t] = p]
    PROVE  LockTypes'
BY WorkDirAssumption DEF TypeInv, LockTypes, UnderLock, Idle

\* An answer, of the holder or of one that could have been.
LEMMA RespondTypes ==
    ASSUME TypeInv, NEW t \in Tasks, lock \in {t, NoTask}, NEW s \in Statuses, Respond(t, s)
    PROVE  LockTypes' /\ RequestTypes'
<1>1. LockTypes'
  BY WorkDirAssumption DEF TypeInv, LockTypes, UnderLock, Idle, Respond
<1>2. RequestTypes'
  BY DEF TypeInv, RequestTypes, Respond
<1> QED BY <1>1, <1>2

\* What a step leaves alone keeps its type.
LEMMA SameTypes ==
    ASSUME TypeInv
    PROVE  /\ UNCHANGED <<lock, pc>> => LockTypes'
           /\ UNCHANGED <<upload, answer, left, at, measured>> => RequestTypes'
           /\ UNCHANGED scan => ScanTypes'
           /\ UNCHANGED <<dirs, disk>> => DiskTypes'
           /\ UNCHANGED taskVars => TaskTypes'
           /\ UNCHANGED failVars => FailTypes'
BY DEF TypeInv, LockTypes, RequestTypes, ScanTypes, DiskTypes, TaskTypes, FailTypes,
   taskVars, failVars

\* The scan that a request begins with and drops.
LEMMA NoScanType ==
    ASSUME NEW D \in SUBSET Tasks
    PROVE  /\ NoScan \in [todo : SUBSET Tasks, files : Seq(Tasks \X Files), sum : Nat]
           /\ [NoScan EXCEPT !.todo = D] = [todo |-> D, files |-> <<>>, sum |-> 0]
           /\ [NoScan EXCEPT !.todo = D]
                 \in [todo : SUBSET Tasks, files : Seq(Tasks \X Files), sum : Nat]
<1>1. <<>> \in Seq(Tasks \X Files)
  OBVIOUS
<1> DEFINE none == <<>>
<1>2. NoScan = [todo |-> {}, files |-> none, sum |-> 0] /\ none \in Seq(Tasks \X Files)
  BY <1>1 DEF NoScan
<1> HIDE DEF none
<1>3. NoScan \in [todo : SUBSET Tasks, files : Seq(Tasks \X Files), sum : Nat]
  BY <1>2
<1>4. [NoScan EXCEPT !.todo = D] = [todo |-> D, files |-> none, sum |-> 0]
  BY <1>2
<1>5. [todo |-> D, files |-> none, sum |-> 0]
        \in [todo : SUBSET Tasks, files : Seq(Tasks \X Files), sum : Nat]
  BY <1>2
<1> QED BY <1>3, <1>4, <1>5 DEF none

\* A refused request keeps of its files what a failed RemoveAll has left.
LEMMA RefusedFiles ==
    ASSUME TypeInv, NEW t \in Tasks, RemoveRefused(t)
    PROVE  /\ disk' \in [Tasks -> [Files -> Nat]]
           /\ \A u \in Tasks \ {t} : disk'[u] = disk[u]
           /\ \A k \in Files : disk'[t][k] \in {0, disk[t][k]}
           /\ \/ dirs' = dirs \ {t} /\ disk'[t] = NoFiles /\ UNCHANGED kept
              \/ UNCHANGED dirs /\ kept' = kept \cup {t}
           /\ FailTypes'
<1>1. disk \in [Tasks -> [Files -> Nat]]
  BY DEF TypeInv, DiskTypes
<1>2. CASE /\ dirs' = dirs \ {t}
           /\ disk' = [disk EXCEPT ![t] = NoFiles]
           /\ UNCHANGED <<faults, kept>>
  <2>1. NoFiles \in [Files -> Nat] /\ \A k \in Files : NoFiles[k] = 0
    BY DEF NoFiles
  <2>2. FailTypes'
    BY <1>2 DEF RemoveRefused, TypeInv, FailTypes
  <2> QED BY <1>1, <1>2, <2>1, <2>2
<1>3. CASE /\ \E gone \in SUBSET Files :
                disk' = [disk EXCEPT ![t] = [k \in Files |-> IF k \in gone THEN 0 ELSE disk[t][k]]]
           /\ RemoveAllFails(t)
  <2>1. PICK gone \in SUBSET Files :
          disk' = [disk EXCEPT ![t] = [k \in Files |-> IF k \in gone THEN 0 ELSE disk[t][k]]]
    BY <1>3
  <2> DEFINE rest == [k \in Files |-> IF k \in gone THEN 0 ELSE disk[t][k]]
  <2>2. rest \in [Files -> Nat] /\ \A k \in Files : rest[k] \in {0, disk[t][k]}
    BY <1>1
  <2>3. disk' = [disk EXCEPT ![t] = rest]
    BY <2>1
  <2>4. UNCHANGED dirs /\ kept' = kept \cup {t}
    BY <1>3 DEF RemoveAllFails
  <2>5. FailTypes'
    BY <1>3, WorkDirAssumption DEF RemoveAllFails, RemoveRefused, TypeInv, FailTypes
  <2> HIDE DEF rest
  <2> QED BY <1>1, <2>2, <2>3, <2>4, <2>5
<1> QED BY <1>2, <1>3 DEF RemoveRefused, removeTaskDir

\* The reaper takes an empty directory, or leaves one that has a name.
LEMMA RemovedDirs ==
    ASSUME TypeInv, NEW t \in Tasks, EndRemove(t)
    PROVE  /\ t \in removing /\ removing' = removing \ {t}
           /\ kept \subseteq kept'
           /\ \/ Present(t) = <<>> /\ dirs' = dirs \ {t}
              \/ t \in late \cup kept' /\ UNCHANGED dirs
           /\ FailTypes'
<1>1. CASE RemoveAllFails(t)
  <2>1. UNCHANGED dirs /\ kept' = kept \cup {t}
    BY <1>1 DEF RemoveAllFails
  <2>2. FailTypes'
    BY <1>1, WorkDirAssumption DEF RemoveAllFails, EndRemove, TypeInv, FailTypes
  <2> QED BY <2>1, <2>2 DEF EndRemove
<1>2. CASE ~RemoveAllFails(t)
  <2>1. /\ UNCHANGED <<faults, kept>>
        /\ \/ Present(t) = <<>> /\ dirs' = dirs \ {t}
           \/ t \in late /\ UNCHANGED dirs
    BY <1>2 DEF EndRemove
  <2>2. FailTypes'
    BY <2>1 DEF EndRemove, TypeInv, FailTypes
  <2> QED BY <2>1, <2>2 DEF EndRemove
<1> QED BY <1>1, <1>2

LEMMA TypeInit == Init => TypeInv
<1> SUFFICES ASSUME Init PROVE TypeInv OBVIOUS
<1>1. LockTypes
  BY WorkDirAssumption DEF Init, LockTypes, Idle, UnderLock
<1>2. RequestTypes
  BY DEF Init, RequestTypes, Statuses
<1>3. ScanTypes
  BY NoScanType DEF Init, ScanTypes
<1>4. DiskTypes
  BY DEF Init, DiskTypes, NoFiles
<1>5. TaskTypes /\ FailTypes
  BY WorkDirAssumption DEF Init, TaskTypes, FailTypes
<1> QED BY <1>1, <1>2, <1>3, <1>4, <1>5 DEF TypeInv

LEMMA TypeStep == TypeInv /\ [Next]_vars => TypeInv'
<1> SUFFICES ASSUME TypeInv, [Next]_vars PROVE TypeInv' OBVIOUS
<1>1. ASSUME NEW t \in Tasks, Arrive(t) PROVE TypeInv'
  <2>1. LockTypes'
    BY <1>1 DEF Arrive, TypeInv, LockTypes, Idle, UnderLock
  <2>2. RequestTypes'
    BY <1>1 DEF Arrive, TypeInv, RequestTypes
  <2> QED BY <1>1, <2>1, <2>2, SameTypes DEF Arrive, TypeInv
<1>2. ASSUME NEW t \in Tasks, Lock(t) PROVE TypeInv'
  <2>1. lock = NoTask
    BY <1>2 DEF Lock, mayLock
  <2>2. DiskTypes' /\ TaskTypes' /\ FailTypes'
    BY <1>2, SameTypes DEF Lock
  <2>3. CASE Respond(t, 429) /\ UNCHANGED scan
    <3>1. LockTypes' /\ RequestTypes'
      BY <2>1, <2>3, RespondTypes DEF Statuses
    <3> QED BY <2>2, <2>3, <3>1, SameTypes DEF TypeInv
  <2>4. CASE ~(Respond(t, 429) /\ UNCHANGED scan)
    <3>1. /\ lock' = t /\ pc' = [pc EXCEPT ![t] = "scan"]
          /\ scan' = [NoScan EXCEPT !.todo = dirs]
          /\ UNCHANGED <<answer, upload, left, at, measured>>
      BY <1>2, <2>4 DEF Lock
    <3>2. LockTypes'
      BY <2>1, <3>1, HolderMoves DEF UnderLock
    <3>3. ScanTypes'
      BY <3>1, NoScanType DEF ScanTypes, TypeInv, DiskTypes
    <3> QED BY <2>2, <3>1, <3>2, <3>3, SameTypes DEF TypeInv
  <2> QED BY <2>3, <2>4
<1>3. ASSUME NEW t \in Tasks, ListDir(t) PROVE TypeInv'
  <2>1. PICK d \in scan.todo :
          scan' = [scan EXCEPT !.todo = @ \ {d},
                               !.files = [i \in DOMAIN Present(d) |-> <<d, Present(d)[i]>>]]
    BY <1>3 DEF ListDir
  <2>2. d \in Tasks /\ disk[d] \in [Files -> Nat]
    BY DEF TypeInv, ScanTypes, DiskTypes
  <2>3. Present(d) \in Seq(Files)
    BY <2>2, PresentFiles
  <2> DEFINE fs == [i \in DOMAIN Present(d) |-> <<d, Present(d)[i]>>]
  <2>4. fs \in Seq(Tasks \X Files)
    <3>1. /\ Len(Present(d)) \in Nat /\ DOMAIN Present(d) = 1..Len(Present(d))
          /\ \A i \in 1..Len(Present(d)) : Present(d)[i] \in Files
      BY <2>3
    <3>2. fs \in [1..Len(Present(d)) -> Tasks \X Files]
      BY <2>2, <3>1
    <3> QED BY <3>1, <3>2, SeqDef
  <2>5. ScanTypes'
    <3> HIDE DEF fs
    <3> QED BY <2>1, <2>4 DEF TypeInv, ScanTypes, fs
  <2> QED BY <1>3, <2>5, SameTypes DEF ListDir, TypeInv
<1>4. ASSUME NEW t \in Tasks, StatFile(t) PROVE TypeInv'
  <2>1. lock = t
    BY <1>4, OneHolder DEF StatFile, UnderLock
  <2>2. DiskTypes' /\ TaskTypes' /\ FailTypes'
    BY <1>4, SameTypes DEF StatFile
  <2>3. CASE Respond(t, 500) /\ scan' = NoScan
    <3>1. LockTypes' /\ RequestTypes'
      BY <2>1, <2>3, RespondTypes DEF Statuses
    <3>2. ScanTypes'
      BY <2>3, NoScanType DEF ScanTypes
    <3> QED BY <2>2, <3>1, <3>2 DEF TypeInv
  <2>4. CASE ~(Respond(t, 500) /\ scan' = NoScan)
    <3> DEFINE f == Head(scan.files)
               size == disk[f[1]][f[2]]
    <3>1. /\ scan' = [scan EXCEPT !.files = Tail(@), !.sum = @ + size]
          /\ UNCHANGED <<pc, answer, lock, upload, left, at, measured>>
      BY <1>4, <2>4 DEF StatFile
    <3>2. f \in Tasks \X Files /\ Tail(scan.files) \in Seq(Tasks \X Files)
      BY <1>4 DEF StatFile, TypeInv, ScanTypes
    <3>3. size \in Nat
      BY <3>2 DEF TypeInv, DiskTypes
    <3>4. ScanTypes'
      <4> DEFINE rest == Tail(scan.files)
      <4>1. scan' = [scan EXCEPT !.files = rest, !.sum = @ + size]
        BY <3>1
      <4>2. rest \in Seq(Tasks \X Files)
        BY <3>2
      <4>3. scan \in [todo : SUBSET Tasks, files : Seq(Tasks \X Files), sum : Nat]
        BY DEF TypeInv, ScanTypes
      <4> HIDE DEF size, rest
      <4>4. scan' = [todo |-> scan.todo, files |-> rest, sum |-> scan.sum + size]
        BY <4>1, <4>3
      <4>5. scan.todo \in SUBSET Tasks /\ scan.sum + size \in Nat
        BY <3>3, <4>3
      <4> QED BY <4>2, <4>4, <4>5 DEF ScanTypes
    <3> QED BY <2>2, <3>1, <3>4, SameTypes DEF TypeInv
  <2> QED BY <2>3, <2>4
<1>5. ASSUME NEW t \in Tasks, EndScan(t) PROVE TypeInv'
  <2>1. lock = t
    BY <1>5, OneHolder DEF EndScan, UnderLock
  <2>2. DiskTypes' /\ TaskTypes' /\ FailTypes' /\ ScanTypes'
    BY <1>5, SameTypes, NoScanType DEF EndScan, ScanTypes
  <2>3. CASE Respond(t, 507)
    <3>1. LockTypes' /\ RequestTypes'
      BY <2>1, <2>3, RespondTypes DEF Statuses
    <3> QED BY <2>2, <3>1 DEF TypeInv
  <2>4. CASE ~Respond(t, 507)
    <3>1. /\ left' = MaxWorkDirBytes - scan.sum
          /\ measured' = scan.sum
          /\ pc' = [pc EXCEPT ![t] = "upload"]
          /\ UNCHANGED <<answer, lock, upload, at>>
      BY <1>5, <2>4 DEF EndScan
    <3>2. RequestTypes'
      BY <3>1, WorkDirAssumption DEF TypeInv, ScanTypes, RequestTypes
    <3>3. LockTypes'
      BY <2>1, <3>1, HolderMoves DEF UnderLock
    <3> QED BY <2>2, <3>2, <3>3 DEF TypeInv
  <2> QED BY <2>3, <2>4
<1>6. ASSUME NEW t \in Tasks, UploadArrives(t) PROVE TypeInv'
  <2>1. lock = t
    BY <1>6, OneHolder DEF UploadArrives, UnderLock
  <2>2. DiskTypes' /\ TaskTypes' /\ FailTypes' /\ ScanTypes'
    BY <1>6, SameTypes DEF UploadArrives
  <2>3. CASE Respond(t, 413) \/ Respond(t, 400)
    <3>1. LockTypes' /\ RequestTypes'
      BY <2>1, <2>3, RespondTypes DEF Statuses
    <3> QED BY <2>2, <3>1 DEF TypeInv
  <2>4. CASE ~(Respond(t, 413) \/ Respond(t, 400))
    <3>1. /\ pc' = [pc EXCEPT ![t] = "save"]
          /\ UNCHANGED <<answer, lock, upload, left, at, measured>>
      BY <1>6, <2>4 DEF UploadArrives
    <3>2. LockTypes'
      BY <2>1, <3>1, HolderMoves DEF UnderLock
    <3> QED BY <2>2, <3>1, <3>2, SameTypes DEF TypeInv
  <2> QED BY <2>3, <2>4
<1>7. ASSUME NEW t \in Tasks, UploadTimesOut(t) PROVE TypeInv'
  <2>1. lock = t
    BY <1>7, OneHolder DEF UploadTimesOut, uploadTimesOut, UnderLock
  <2>2. DiskTypes' /\ TaskTypes' /\ FailTypes' /\ ScanTypes'
    BY <1>7, SameTypes DEF UploadTimesOut
  <2>3. LockTypes' /\ RequestTypes'
    BY <1>7, <2>1, RespondTypes DEF Statuses, UploadTimesOut
  <2> QED BY <2>2, <2>3 DEF TypeInv
<1>8. ASSUME NEW t \in Tasks, SaveUpload(t) PROVE TypeInv'
  <2>1. lock = t
    BY <1>8, OneHolder DEF SaveUpload, UnderLock
  <2>2. LockTypes'
    BY <1>8, <2>1, HolderMoves DEF SaveUpload, UnderLock
  <2>3. DiskTypes'
    BY <1>8, UploadOf DEF SaveUpload, TypeInv, DiskTypes, Files
  <2> QED BY <1>8, <2>2, <2>3, SameTypes DEF SaveUpload, TypeInv
<1>9. ASSUME NEW t \in Tasks, SaveFails(t) PROVE TypeInv'
  <2>1. lock = t
    BY <1>9, OneHolder DEF SaveFails, UnderLock
  <2>2. LockTypes'
    BY <1>9, <2>1, HolderMoves DEF SaveFails, Undo, UnderLock
  <2>3. DiskTypes'
    <3>1. PICK n \in 0..upload[t].zip : disk' = [disk EXCEPT ![t].zip = n]
      BY <1>9 DEF SaveFails
    <3>2. n \in Nat
      BY UploadOf
    <3> QED BY <1>9, <3>1, <3>2 DEF SaveFails, TypeInv, DiskTypes, Files
  <2>4. RequestTypes'
    BY <1>9 DEF SaveFails, Undo, TypeInv, RequestTypes, Statuses
  <2> QED BY <1>9, <2>2, <2>3, <2>4, SameTypes DEF SaveFails, TypeInv
<1>10. ASSUME NEW t \in Tasks, OpenArchive(t) PROVE TypeInv'
  <2>1. lock = t
    BY <1>10, OneHolder DEF OpenArchive, UnderLock
  <2>2. \/ \E s \in {400, 413, 507} : Undo(t, s)
        \/ Goto(t, "extract")
    BY <1>10 DEF OpenArchive
  <2>3. LockTypes'
    BY <1>10, <2>1, <2>2, HolderMoves DEF OpenArchive, Undo, Goto, UnderLock
  <2>4. answer' \in [Tasks -> Statuses]
    BY <2>2 DEF Undo, Goto, TypeInv, RequestTypes, Statuses
  <2>5. left' \in Int /\ at' = 1 /\ UNCHANGED <<upload, measured>>
    BY <1>10 DEF OpenArchive, leftAfterZip, TypeInv, RequestTypes, DiskTypes, Files
  <2>6. RequestTypes'
    BY <2>4, <2>5 DEF TypeInv, RequestTypes
  <2> QED BY <1>10, <2>3, <2>6, SameTypes DEF OpenArchive, TypeInv
<1>11. ASSUME NEW t \in Tasks, ExtractEntry(t) PROVE TypeInv'
  <2> DEFINE e == upload[t].entries[at]
             limit == extractLeft(t)
  <2>1. lock = t
    BY <1>11, OneHolder DEF ExtractEntry, UnderLock
  <2>2. \/ \E s \in {400, 413} : Undo(t, s)
        \/ Goto(t, "extract")
    BY <1>11 DEF ExtractEntry
  <2>3. LockTypes'
    BY <1>11, <2>1, <2>2, HolderMoves DEF ExtractEntry, Undo, Goto, UnderLock
  <2>4. answer' \in [Tasks -> Statuses]
    BY <2>2 DEF Undo, Goto, TypeInv, RequestTypes, Statuses
  <2>5. at' \in {at, at + 1} /\ UNCHANGED <<upload, left, measured>>
    BY <1>11 DEF ExtractEntry
  <2>6. RequestTypes'
    BY <2>4, <2>5 DEF TypeInv, RequestTypes
  <2>7. DiskTypes'
    <3>1. e.declared \in Nat /\ e.actual \in Nat
      <4>1. at \in DOMAIN upload[t].entries
        BY <1>11, UploadOf DEF ExtractEntry, TypeInv, RequestTypes
      <4> QED BY <4>1, UploadOf
    <3>2. limit \in Int
      BY WorkDirAssumption DEF extractLeft, Lesser, TypeInv, RequestTypes, DiskTypes, Files
    <3>3. CASE UNCHANGED disk
      BY <1>11, <3>3, SameTypes DEF ExtractEntry
    <3>4. CASE ~UNCHANGED disk
      <4>1. /\ ~(e.declared > limit)
            /\ disk' = [disk EXCEPT ![t].context = @ + copyWithLimit(e.actual, limit)]
            /\ UNCHANGED dirs
        BY <1>11, <3>4 DEF ExtractEntry
      <4>2. copyWithLimit(e.actual, limit) \in Nat
        BY <3>1, <3>2, <4>1 DEF copyWithLimit, Lesser
      <4> HIDE DEF e, limit
      <4> QED BY <4>1, <4>2 DEF TypeInv, DiskTypes, Files
    <3> QED BY <3>3, <3>4
  <2> QED BY <1>11, <2>3, <2>6, <2>7, SameTypes DEF ExtractEntry, TypeInv
<1>12. ASSUME NEW t \in Tasks, PrepareContext(t) PROVE TypeInv'
  <2>1. lock = t
    BY <1>12, OneHolder DEF PrepareContext, UnderLock
  <2>2. \/ Undo(t, 400) /\ UNCHANGED disk
        \/ /\ \E grown \in 0..RewriteBytes : disk' = [disk EXCEPT ![t].context = @ + grown]
           /\ Goto(t, "admit")
    BY <1>12 DEF PrepareContext
  <2>3. LockTypes'
    BY <1>12, <2>1, <2>2, HolderMoves DEF PrepareContext, Undo, Goto, UnderLock
  <2>4. RequestTypes'
    BY <1>12, <2>2 DEF PrepareContext, Undo, Goto, TypeInv, RequestTypes, Statuses
  <2>5. DiskTypes'
    <3>1. CASE UNCHANGED disk
      BY <1>12, <3>1, SameTypes DEF PrepareContext
    <3>2. CASE ~UNCHANGED disk
      <4>1. PICK grown \in 0..RewriteBytes : disk' = [disk EXCEPT ![t].context = @ + grown]
        BY <2>2, <3>2
      <4>2. grown \in Nat
        BY WorkDirAssumption
      <4>3. UNCHANGED dirs
        BY <1>12 DEF PrepareContext
      <4> QED BY <4>1, <4>2, <4>3 DEF TypeInv, DiskTypes, Files
    <3> QED BY <3>1, <3>2
  <2> QED BY <1>12, <2>3, <2>4, <2>5, SameTypes DEF PrepareContext, TypeInv
<1>13. ASSUME NEW t \in Tasks, RejectPrepared(t) PROVE TypeInv'
  <2>1. lock = t
    BY <1>13, OneHolder DEF RejectPrepared, UnderLock
  <2>2. LockTypes'
    BY <1>13, <2>1, HolderMoves DEF RejectPrepared, Undo, UnderLock
  <2>3. RequestTypes'
    BY <1>13 DEF RejectPrepared, Undo, TypeInv, RequestTypes, Statuses
  <2> QED BY <1>13, <2>2, <2>3, SameTypes DEF RejectPrepared, TypeInv
<1>14. ASSUME NEW t \in Tasks, RemoveRefused(t) PROVE TypeInv'
  <2>1. lock = t
    BY <1>14, OneHolder DEF RemoveRefused, UnderLock
  <2>2. answer[t] \in Statuses
    BY DEF TypeInv, RequestTypes
  <2>3. LockTypes' /\ RequestTypes'
    BY <1>14, <2>1, <2>2, RespondTypes DEF RemoveRefused
  <2>4. DiskTypes' /\ FailTypes'
    BY <1>14, RefusedFiles DEF TypeInv, DiskTypes
  <2>5. ScanTypes' /\ TaskTypes'
    BY <1>14, SameTypes DEF RemoveRefused
  <2> QED BY <2>3, <2>4, <2>5 DEF TypeInv
<1>15. ASSUME NEW t \in Tasks, Admit(t) PROVE TypeInv'
  <2>1. lock = t
    BY <1>15, OneHolder DEF Admit, UnderLock
  <2>2. LockTypes' /\ RequestTypes'
    BY <1>15, <2>1, RespondTypes DEF Admit, Statuses
  <2>3. TaskTypes'
    BY <1>15 DEF Admit, TypeInv, TaskTypes
  <2> QED BY <1>15, <2>2, <2>3, SameTypes DEF Admit, TypeInv
<1>16. ASSUME handlerVars' = handlerVars
       PROVE  LockTypes' /\ RequestTypes' /\ ScanTypes'
  BY <1>16, SameTypes DEF handlerVars
<1>17. ASSUME NEW t \in Tasks, StartRun(t) PROVE TypeInv'
  <2>1. TaskTypes'
    BY <1>17, WorkDirAssumption DEF StartRun, EndRunner, TypeInv, TaskTypes
  <2> QED BY <1>16, <1>17, <2>1, SameTypes DEF StartRun, TypeInv
<1>18. ASSUME NEW t \in Tasks, WriteLog(t) PROVE TypeInv'
  <2> DEFINE n == limitedLogWriter(2, logLeft[t])
  <2>1. n \in Nat /\ n <= logLeft[t] /\ logLeft[t] \in Nat
    BY DEF limitedLogWriter, Lesser, TypeInv, TaskTypes
  <2>2. /\ logLeft' = [logLeft EXCEPT ![t] = @ - n]
        /\ disk' = [disk EXCEPT ![t].log = IF t \in unlinked THEN @ ELSE @ + n]
        /\ UNCHANGED <<dirs, store, terminal, runner, removing, unlinked, late>>
    BY <1>18 DEF WriteLog
  <2> HIDE DEF n
  <2>3. TaskTypes'
    BY <2>1, <2>2 DEF TypeInv, TaskTypes
  <2>4. DiskTypes'
    BY <2>1, <2>2 DEF TypeInv, DiskTypes, Files
  <2> QED BY <1>16, <1>18, <2>3, <2>4, SameTypes DEF WriteLog, TypeInv
<1>19. ASSUME NEW t \in Tasks, ConvertToNydus(t) PROVE TypeInv'
  <2>1. TaskTypes'
    BY <1>19 DEF ConvertToNydus, TypeInv, TaskTypes
  <2>2. DiskTypes'
    BY <1>19, WorkDirAssumption DEF ConvertToNydus, TypeInv, DiskTypes, Files
  <2> QED BY <1>16, <1>19, <2>1, <2>2, SameTypes DEF ConvertToNydus, TypeInv
<1>20. ASSUME NEW t \in Tasks, EndRun(t) PROVE TypeInv'
  <2>1. TaskTypes'
    BY <1>20 DEF EndRun, EndRunner, TypeInv, TaskTypes
  <2> QED BY <1>16, <1>20, <2>1, SameTypes DEF EndRun, TypeInv
<1>21. ASSUME NEW t \in Tasks, Cancel(t) PROVE TypeInv'
  <2>1. TaskTypes'
    BY <1>21 DEF Cancel, TypeInv, TaskTypes
  <2> QED BY <1>16, <1>21, <2>1, SameTypes DEF Cancel, TypeInv
<1>22. ASSUME NEW t \in Tasks, Expire(t) PROVE TypeInv'
  <2>1. TaskTypes'
    BY <1>22 DEF Expire, TypeInv, TaskTypes
  <2> QED BY <1>16, <1>22, <2>1, SameTypes DEF Expire, TypeInv
<1>23. ASSUME NEW t \in Tasks, RemoveFile(t) PROVE TypeInv'
  <2>1. TaskTypes'
    BY <1>23 DEF RemoveFile, TypeInv, TaskTypes
  <2>2. DiskTypes'
    BY <1>23 DEF RemoveFile, TypeInv, DiskTypes
  <2> QED BY <1>16, <1>23, <2>1, <2>2, SameTypes DEF RemoveFile, TypeInv
<1>24. ASSUME NEW t \in Tasks, EndRemove(t) PROVE TypeInv'
  <2>1. TaskTypes'
    BY <1>24 DEF EndRemove, TypeInv, TaskTypes
  <2>2. UNCHANGED <<handlerVars, disk>>
    BY <1>24 DEF EndRemove
  <2>3. DiskTypes' /\ FailTypes'
    BY <1>24, <2>2, RemovedDirs DEF TypeInv, DiskTypes
  <2> QED BY <1>16, <2>1, <2>2, <2>3 DEF TypeInv
<1>25. ASSUME Restart PROVE TypeInv'
  <2>1. LockTypes'
    BY <1>25, WorkDirAssumption DEF Restart, TypeInv, LockTypes, Idle, UnderLock
  <2>2. RequestTypes'
    BY <1>25 DEF Restart, TypeInv, RequestTypes
  <2>3. ScanTypes'
    BY <1>25, NoScanType DEF Restart, ScanTypes
  <2>4. TaskTypes'
    BY <1>25 DEF Restart, TypeInv, TaskTypes
  <2>5. FailTypes'
    BY <1>25, WorkDirAssumption DEF Restart, TypeInv, FailTypes, DiskTypes
  <2> QED BY <1>25, <2>1, <2>2, <2>3, <2>4, <2>5, SameTypes DEF Restart, TypeInv
<1>26. CASE UNCHANGED vars
  BY <1>26, SameTypes DEF vars, handlerVars, TypeInv
<1>27. ASSUME NEW t \in Tasks, MkdirFails(t) PROVE TypeInv'
  <2>1. lock = t
    BY <1>27, OneHolder DEF MkdirFails, UnderLock
  <2>2. TaskTypes' /\ ScanTypes'
    BY <1>27, SameTypes DEF MkdirFails
  <2>3. LockTypes' /\ RequestTypes'
    BY <1>27, <2>1, RespondTypes DEF Statuses, MkdirFails
  <2>4. DiskTypes' /\ FailTypes'
    BY <1>27 DEF MkdirFails, TypeInv, DiskTypes, FailTypes
  <2> QED BY <2>2, <2>3, <2>4 DEF TypeInv
<1> QED
  BY <1>1, <1>2, <1>3, <1>4, <1>5, <1>6, <1>7, <1>8, <1>9, <1>10, <1>11, <1>12, <1>13, <1>14,
    <1>15, <1>17, <1>18, <1>19, <1>20, <1>21, <1>22, <1>23, <1>24, <1>25, <1>26, <1>27
  DEF Next, Handle

-----------------------------------------------------------------------------
(* Directories.                                                            *)

\* Extracting and preprocessing write the context of one request, no more.
LEMMA ContextGrows ==
    ASSUME TypeInv, NEW t \in Tasks, ExtractEntry(t) \/ PrepareContext(t)
    PROVE  /\ lock = t /\ pc[t] = "extract" /\ pc'[t] \in {"extract", "admit", "undo"}
           /\ \A u \in Tasks \ {t} : disk'[u] = disk[u] /\ pc'[u] = pc[u]
           /\ \A k \in Files \ {"context"} : disk'[t][k] = disk[t][k]
           /\ UNCHANGED <<lock, upload, scan, left, measured, dirs, taskVars, failVars>>
<1>1. /\ pc[t] = "extract"
      /\ UNCHANGED <<lock, upload, scan, left, measured, dirs, taskVars, failVars>>
      /\ \/ UNCHANGED disk
         \/ \E n : disk' = [disk EXCEPT ![t].context = @ + n]
  BY DEF ExtractEntry, PrepareContext
<1>2. lock = t
  BY <1>1, OneHolder DEF UnderLock
<1>3. \E p \in {"extract", "admit", "undo"} : pc' = [pc EXCEPT ![t] = p]
  BY DEF ExtractEntry, PrepareContext, Undo, Goto
<1>4. /\ pc'[t] \in {"extract", "admit", "undo"}
      /\ \A u \in Tasks \ {t} : pc'[u] = pc[u]
  BY <1>3 DEF TypeInv, LockTypes
<1>5. /\ \A u \in Tasks \ {t} : disk'[u] = disk[u]
      /\ \A k \in Files \ {"context"} : disk'[t][k] = disk[t][k]
  BY <1>1 DEF TypeInv, DiskTypes
<1> QED BY <1>1, <1>2, <1>4, <1>5

\* Builds and the reaper touch tasks whose request has been answered.
LEMMA HandlerKept ==
    ASSUME HandlerInv, UNCHANGED pc, NEW t \in Tasks, pc[t] = "done",
           \A u \in Tasks \ {t} :
              /\ disk'[u] = disk[u] /\ runner'[u] = runner[u] /\ (u \in dirs' <=> u \in dirs)
              /\ (u \in store' <=> u \in store) /\ (u \in removing' <=> u \in removing)
    PROVE  HandlerInv'
BY DEF HandlerInv

\* What directories and files are there, request by request.
LEMMA HandlerInit == Init => HandlerInv
BY DEF Init, HandlerInv, NoFiles, Files

LEMMA HandlerStep == TypeInv /\ HandlerInv /\ [Next]_vars => HandlerInv'
<1> SUFFICES ASSUME TypeInv, HandlerInv, [Next]_vars PROVE HandlerInv' OBVIOUS
<1> USE DEF HandlerInv, TypeInv, LockTypes, RequestTypes, DiskTypes, TaskTypes, Idle, UnderLock,
    Files, NoFiles, Running, handlerVars, taskVars, failVars
<1>1. ASSUME NEW t \in Tasks, Arrive(t) PROVE HandlerInv'
  BY <1>1 DEF Arrive
<1>2. ASSUME NEW t \in Tasks, Lock(t) PROVE HandlerInv'
  BY <1>2 DEF Lock, mayLock, Respond
<1>3. ASSUME NEW t \in Tasks, ListDir(t) PROVE HandlerInv'
  BY <1>3 DEF ListDir
<1>4. ASSUME NEW t \in Tasks, StatFile(t) PROVE HandlerInv'
  <2>1. UNCHANGED <<dirs, disk, store, removing, runner>>
    BY <1>4 DEF StatFile
  <2>2. /\ pc[t] \in {"scan", "upload"} /\ pc'[t] \in {"done", "scan", "upload", "save"}
        /\ \A u \in Tasks \ {t} : pc'[u] = pc[u]
    BY <1>4 DEF StatFile, Respond
  <2> QED BY <2>1, <2>2
<1>5. ASSUME NEW t \in Tasks, EndScan(t) PROVE HandlerInv'
  <2>1. UNCHANGED <<dirs, disk, store, removing, runner>>
    BY <1>5 DEF EndScan
  <2>2. /\ pc[t] \in {"scan", "upload"} /\ pc'[t] \in {"done", "scan", "upload", "save"}
        /\ \A u \in Tasks \ {t} : pc'[u] = pc[u]
    BY <1>5 DEF EndScan, Respond
  <2> QED BY <2>1, <2>2
<1>6. ASSUME NEW t \in Tasks, UploadArrives(t) PROVE HandlerInv'
  <2>1. UNCHANGED <<dirs, disk, store, removing, runner>>
    BY <1>6 DEF UploadArrives
  <2>2. /\ pc[t] \in {"scan", "upload"} /\ pc'[t] \in {"done", "scan", "upload", "save"}
        /\ \A u \in Tasks \ {t} : pc'[u] = pc[u]
    BY <1>6 DEF UploadArrives, Respond
  <2> QED BY <2>1, <2>2
<1>7. ASSUME NEW t \in Tasks, UploadTimesOut(t) PROVE HandlerInv'
  BY <1>7 DEF UploadTimesOut, uploadTimesOut, Respond
<1>8. ASSUME NEW t \in Tasks, SaveUpload(t) PROVE HandlerInv'
  BY <1>8 DEF SaveUpload
<1>9. ASSUME NEW t \in Tasks, SaveFails(t) PROVE HandlerInv'
  BY <1>9 DEF SaveFails, Undo
<1>10. ASSUME NEW t \in Tasks, OpenArchive(t) PROVE HandlerInv'
  <2>1. UNCHANGED <<dirs, disk, store, removing, runner>>
    BY <1>10 DEF OpenArchive
  <2>2. /\ pc[t] = "open" /\ pc'[t] \in {"extract", "undo"}
        /\ \A u \in Tasks \ {t} : pc'[u] = pc[u]
        /\ pc'[t] = "extract" => disk[t].zip > 0
    BY <1>10 DEF OpenArchive, Undo, Goto
  <2> QED BY <2>1, <2>2
<1>11. ASSUME NEW t \in Tasks, ExtractEntry(t) PROVE HandlerInv'
  <2>1. \A u \in Tasks \ {t} : disk'[u] = disk[u] /\ pc'[u] = pc[u]
    BY <1>11, ContextGrows
  <2>2. /\ pc[t] = "extract" /\ pc'[t] \in {"extract", "admit", "undo"}
        /\ disk'[t].log = disk[t].log /\ disk'[t].zip = disk[t].zip
        /\ UNCHANGED <<dirs, store, removing, runner>>
    BY <1>11, ContextGrows
  <2> QED BY <2>1, <2>2
<1>12. ASSUME NEW t \in Tasks, PrepareContext(t) PROVE HandlerInv'
  <2>1. \A u \in Tasks \ {t} : disk'[u] = disk[u] /\ pc'[u] = pc[u]
    BY <1>12, ContextGrows
  <2>2. /\ pc[t] = "extract" /\ pc'[t] \in {"extract", "admit", "undo"}
        /\ disk'[t].log = disk[t].log /\ disk'[t].zip = disk[t].zip
        /\ UNCHANGED <<dirs, store, removing, runner>>
    BY <1>12, ContextGrows
  <2> QED BY <2>1, <2>2
<1>13. ASSUME NEW t \in Tasks, RejectPrepared(t) PROVE HandlerInv'
  BY <1>13 DEF RejectPrepared, Undo
<1>14. ASSUME NEW t \in Tasks, RemoveRefused(t) PROVE HandlerInv'
  <2>1. /\ pc'[t] = "done" /\ \A u \in Tasks \ {t} : pc'[u] = pc[u]
        /\ UNCHANGED <<store, removing, runner>>
    BY <1>14 DEF RemoveRefused, Respond
  <2>2. \A u \in Tasks \ {t} : disk'[u] = disk[u] /\ (u \in dirs' <=> u \in dirs)
    BY <1>14, RefusedFiles
  <2> QED BY <2>1, <2>2
<1>15. ASSUME NEW t \in Tasks, Admit(t) PROVE HandlerInv'
  BY <1>15 DEF Admit, Respond
<1>16. ASSUME NEW t \in Tasks, StartRun(t) PROVE HandlerInv'
  <2>1. UNCHANGED pc /\ pc[t] = "done"
    BY <1>16 DEF StartRun
  <2>2. \A u \in Tasks \ {t} :
          /\ disk'[u] = disk[u] /\ runner'[u] = runner[u] /\ (u \in dirs' <=> u \in dirs)
          /\ (u \in store' <=> u \in store) /\ (u \in removing' <=> u \in removing)
    BY <1>16 DEF StartRun, EndRunner
  <2> QED BY <2>1, <2>2, HandlerKept
<1>17. ASSUME NEW t \in Tasks, WriteLog(t) PROVE HandlerInv'
  <2>1. UNCHANGED pc /\ pc[t] = "done"
    BY <1>17 DEF WriteLog
  <2>2. \A u \in Tasks \ {t} :
          /\ disk'[u] = disk[u] /\ runner'[u] = runner[u] /\ (u \in dirs' <=> u \in dirs)
          /\ (u \in store' <=> u \in store) /\ (u \in removing' <=> u \in removing)
    BY <1>17 DEF WriteLog
  <2> QED BY <2>1, <2>2, HandlerKept
<1>18. ASSUME NEW t \in Tasks, ConvertToNydus(t) PROVE HandlerInv'
  <2>1. UNCHANGED pc /\ pc[t] = "done"
    BY <1>18 DEF ConvertToNydus
  <2>2. \A u \in Tasks \ {t} :
          /\ disk'[u] = disk[u] /\ runner'[u] = runner[u] /\ (u \in dirs' <=> u \in dirs)
          /\ (u \in store' <=> u \in store) /\ (u \in removing' <=> u \in removing)
    BY <1>18 DEF ConvertToNydus
  <2> QED BY <2>1, <2>2, HandlerKept
<1>19. ASSUME NEW t \in Tasks, EndRun(t) PROVE HandlerInv'
  <2>1. UNCHANGED pc /\ pc[t] = "done"
    BY <1>19 DEF EndRun
  <2>2. \A u \in Tasks \ {t} :
          /\ disk'[u] = disk[u] /\ runner'[u] = runner[u] /\ (u \in dirs' <=> u \in dirs)
          /\ (u \in store' <=> u \in store) /\ (u \in removing' <=> u \in removing)
    BY <1>19 DEF EndRun, EndRunner
  <2> QED BY <2>1, <2>2, HandlerKept
<1>20. ASSUME NEW t \in Tasks, Cancel(t) PROVE HandlerInv'
  <2>1. UNCHANGED pc /\ pc[t] = "done"
    BY <1>20 DEF Cancel
  <2>2. \A u \in Tasks \ {t} :
          /\ disk'[u] = disk[u] /\ runner'[u] = runner[u] /\ (u \in dirs' <=> u \in dirs)
          /\ (u \in store' <=> u \in store) /\ (u \in removing' <=> u \in removing)
    BY <1>20 DEF Cancel
  <2> QED BY <2>1, <2>2, HandlerKept
<1>21. ASSUME NEW t \in Tasks, Expire(t) PROVE HandlerInv'
  <2>1. UNCHANGED pc /\ pc[t] = "done"
    BY <1>21 DEF Expire
  <2>2. \A u \in Tasks \ {t} :
          /\ disk'[u] = disk[u] /\ runner'[u] = runner[u] /\ (u \in dirs' <=> u \in dirs)
          /\ (u \in store' <=> u \in store) /\ (u \in removing' <=> u \in removing)
    BY <1>21 DEF Expire
  <2> QED BY <2>1, <2>2, HandlerKept
<1>22. ASSUME NEW t \in Tasks, RemoveFile(t) PROVE HandlerInv'
  <2>1. UNCHANGED pc /\ pc[t] = "done"
    BY <1>22 DEF RemoveFile
  <2>2. \A u \in Tasks \ {t} :
          /\ disk'[u] = disk[u] /\ runner'[u] = runner[u] /\ (u \in dirs' <=> u \in dirs)
          /\ (u \in store' <=> u \in store) /\ (u \in removing' <=> u \in removing)
    BY <1>22 DEF RemoveFile
  <2> QED BY <2>1, <2>2, HandlerKept
<1>23. ASSUME NEW t \in Tasks, EndRemove(t) PROVE HandlerInv'
  <2>1. UNCHANGED pc /\ pc[t] = "done"
    BY <1>23 DEF EndRemove
  <2>2. UNCHANGED <<disk, runner, store>>
    BY <1>23 DEF EndRemove
  <2>3. dirs' \in {dirs, dirs \ {t}} /\ removing' = removing \ {t}
    BY <1>23, RemovedDirs
  <2>4. \A u \in Tasks \ {t} : (u \in dirs' <=> u \in dirs) /\ (u \in removing' <=> u \in removing)
    BY <2>3
  <2> QED BY <2>1, <2>2, <2>4, HandlerKept
<1>24. ASSUME Restart PROVE HandlerInv'
  BY <1>24 DEF Restart
<1>25. CASE UNCHANGED vars
  BY <1>25 DEF vars
<1>26. ASSUME NEW t \in Tasks, MkdirFails(t) PROVE HandlerInv'
  <2>1. /\ UNCHANGED <<disk, store, removing, runner>> /\ dirs \subseteq dirs'
        /\ \A u \in Tasks \ {t} : u \in dirs' => u \in dirs
    BY <1>26 DEF MkdirFails
  <2>2. pc'[t] = "done" /\ \A u \in Tasks \ {t} : pc'[u] = pc[u]
    BY <1>26 DEF MkdirFails, Respond
  <2> QED BY <2>1, <2>2
<1> QED
  BY <1>1, <1>2, <1>3, <1>4, <1>5, <1>6, <1>7, <1>8, <1>9, <1>10, <1>11, <1>12, <1>13,
    <1>14, <1>15, <1>16, <1>17, <1>18, <1>19, <1>20, <1>21, <1>22, <1>23, <1>24, <1>25, <1>26
  DEF Next, Handle

\* Directories have owners and files are in directories.
LEMMA DirInit == Init => DirInv
BY DEF Init, DirInv, NoFiles, Files, Running

LEMMA DirStep == TypeInv /\ HandlerInv /\ DirInv /\ [Next]_vars => DirInv'
<1> SUFFICES ASSUME TypeInv, HandlerInv, DirInv, [Next]_vars PROVE DirInv' OBVIOUS
<1> USE DEF DirInv, HandlerInv, TypeInv, LockTypes, RequestTypes, DiskTypes, TaskTypes, Idle,
    UnderLock, Files, NoFiles, Running, handlerVars, taskVars, failVars
<1>1. ASSUME NEW t \in Tasks, Arrive(t) PROVE DirInv'
  BY <1>1 DEF Arrive
<1>2. ASSUME NEW t \in Tasks, Lock(t) PROVE DirInv'
  BY <1>2 DEF Lock, mayLock, Respond
<1>3. ASSUME NEW t \in Tasks, ListDir(t) PROVE DirInv'
  BY <1>3 DEF ListDir
<1>4. ASSUME NEW t \in Tasks, StatFile(t) PROVE DirInv'
  <2>1. UNCHANGED <<dirs, disk, store, removing, runner, late, lost, bare, kept, unlinked>>
    BY <1>4 DEF StatFile
  <2>2. t \notin dirs /\ \A u \in Tasks \ {t} : pc'[u] = pc[u]
    BY <1>4 DEF StatFile, Respond
  <2> QED BY <2>1, <2>2
<1>5. ASSUME NEW t \in Tasks, EndScan(t) PROVE DirInv'
  <2>1. UNCHANGED <<dirs, disk, store, removing, runner, late, lost, bare, kept, unlinked>>
    BY <1>5 DEF EndScan
  <2>2. t \notin dirs /\ \A u \in Tasks \ {t} : pc'[u] = pc[u]
    BY <1>5 DEF EndScan, Respond
  <2> QED BY <2>1, <2>2
<1>6. ASSUME NEW t \in Tasks, UploadArrives(t) PROVE DirInv'
  BY <1>6 DEF UploadArrives, Respond
<1>7. ASSUME NEW t \in Tasks, UploadTimesOut(t) PROVE DirInv'
  BY <1>7 DEF UploadTimesOut, uploadTimesOut, Respond
<1>8. ASSUME NEW t \in Tasks, SaveUpload(t) PROVE DirInv'
  BY <1>8 DEF SaveUpload
<1>9. ASSUME NEW t \in Tasks, SaveFails(t) PROVE DirInv'
  BY <1>9 DEF SaveFails, Undo
<1>10. ASSUME NEW t \in Tasks, OpenArchive(t) PROVE DirInv'
  <2>1. UNCHANGED <<dirs, disk, store, removing, runner, late, lost, bare, kept, unlinked>>
    BY <1>10 DEF OpenArchive
  <2>2. pc'[t] \in {"extract", "undo"} /\ \A u \in Tasks \ {t} : pc'[u] = pc[u]
    BY <1>10 DEF OpenArchive, Undo, Goto
  <2> QED BY <2>1, <2>2
<1>11. ASSUME NEW t \in Tasks, ExtractEntry(t) PROVE DirInv'
  <2>1. \A u \in Tasks \ {t} : disk'[u] = disk[u] /\ pc'[u] = pc[u]
    BY <1>11, ContextGrows
  <2>2. /\ pc[t] = "extract" /\ pc'[t] \in {"extract", "admit", "undo"}
        /\ disk'[t].zip = disk[t].zip /\ t \in dirs
        /\ UNCHANGED <<dirs, store, removing, runner, late, lost, bare, kept, unlinked>>
    BY <1>11, ContextGrows
  <2> QED BY <2>1, <2>2
<1>12. ASSUME NEW t \in Tasks, PrepareContext(t) PROVE DirInv'
  <2>1. \A u \in Tasks \ {t} : disk'[u] = disk[u] /\ pc'[u] = pc[u]
    BY <1>12, ContextGrows
  <2>2. /\ pc[t] = "extract" /\ pc'[t] \in {"extract", "admit", "undo"}
        /\ disk'[t].zip = disk[t].zip /\ t \in dirs
        /\ UNCHANGED <<dirs, store, removing, runner, late, lost, bare, kept, unlinked>>
    BY <1>12, ContextGrows
  <2> QED BY <2>1, <2>2
<1>13. ASSUME NEW t \in Tasks, RejectPrepared(t) PROVE DirInv'
  BY <1>13 DEF RejectPrepared, Undo
<1>14. ASSUME NEW t \in Tasks, RemoveRefused(t) PROVE DirInv'
  <2>1. /\ pc[t] = "undo" /\ \A u \in Tasks \ {t} : pc'[u] = pc[u]
        /\ UNCHANGED <<store, removing, runner, late, lost, bare, unlinked>>
    BY <1>14 DEF RemoveRefused, Respond
  <2>2. /\ \A u \in Tasks \ {t} : disk'[u] = disk[u]
        /\ \A k \in Files : disk'[t][k] \in {0, disk[t][k]}
    BY <1>14, RefusedFiles
  <2>3. runner[t] = "none"
    BY <2>1
  <2>4. CASE dirs' = dirs \ {t} /\ disk'[t] = NoFiles /\ UNCHANGED kept
    BY <2>1, <2>2, <2>3, <2>4
  <2>5. CASE UNCHANGED dirs /\ kept' = kept \cup {t}
    BY <2>1, <2>2, <2>3, <2>5
  <2> QED BY <1>14, <2>4, <2>5, RefusedFiles
<1>15. ASSUME NEW t \in Tasks, Admit(t) PROVE DirInv'
  BY <1>15 DEF Admit, Respond
<1>16. ASSUME NEW t \in Tasks, StartRun(t) PROVE DirInv'
  BY <1>16 DEF StartRun, EndRunner
<1>17. ASSUME NEW t \in Tasks, WriteLog(t) PROVE DirInv'
  BY <1>17 DEF WriteLog
<1>18. ASSUME NEW t \in Tasks, ConvertToNydus(t) PROVE DirInv'
  BY <1>18 DEF ConvertToNydus
<1>19. ASSUME NEW t \in Tasks, EndRun(t) PROVE DirInv'
  BY <1>19 DEF EndRun, EndRunner
<1>20. ASSUME NEW t \in Tasks, Cancel(t) PROVE DirInv'
  BY <1>20 DEF Cancel
<1>21. ASSUME NEW t \in Tasks, Expire(t) PROVE DirInv'
  BY <1>21 DEF Expire
<1>22. ASSUME NEW t \in Tasks, RemoveFile(t) PROVE DirInv'
  <2>1. /\ \A u \in Tasks \ {t} : disk'[u] = disk[u]
        /\ \A k \in Files : disk'[t][k] \in {0, disk[t][k]}
    BY <1>22 DEF RemoveFile
  <2>2. /\ unlinked' = unlinked \cup {t}
        /\ UNCHANGED <<pc, dirs, store, removing, runner, late, lost, bare, kept>>
    BY <1>22 DEF RemoveFile
  <2> QED BY <2>1, <2>2
<1>23. ASSUME NEW t \in Tasks, EndRemove(t) PROVE DirInv'
  <2>1. /\ t \in removing /\ removing' = removing \ {t} /\ kept \subseteq kept'
        /\ \/ Present(t) = <<>> /\ dirs' = dirs \ {t}
           \/ t \in late \cup kept' /\ UNCHANGED dirs
    BY <1>23, RemovedDirs
  <2>2. Present(t) = <<>> => \A k \in Files : disk[t][k] = 0
    BY FirstPresent
  <2>3. UNCHANGED <<pc, disk, store, runner, late, lost, bare, unlinked>>
    BY <1>23 DEF EndRemove
  <2>4. CASE t \in late \cup kept' /\ UNCHANGED dirs
    BY <2>1, <2>3, <2>4
  <2>5. CASE Present(t) = <<>> /\ dirs' = dirs \ {t}
    BY <2>1, <2>2, <2>3, <2>5
  <2> QED BY <2>1, <2>4, <2>5
<1>24. ASSUME Restart PROVE DirInv'
  BY <1>24 DEF Restart
<1>25. CASE UNCHANGED vars
  BY <1>25 DEF vars
<1>26. ASSUME NEW t \in Tasks, MkdirFails(t) PROVE DirInv'
  <2>1. /\ UNCHANGED <<disk, store, removing, runner, late, lost, kept, unlinked>>
        /\ dirs \subseteq dirs' /\ bare \subseteq bare' /\ dirs' \subseteq dirs \cup bare'
    BY <1>26 DEF MkdirFails
  <2>2. t \notin dirs /\ \A u \in Tasks \ {t} : pc'[u] = pc[u]
    BY <1>26 DEF MkdirFails, Respond
  <2> QED BY <2>1, <2>2
<1> QED
  BY <1>1, <1>2, <1>3, <1>4, <1>5, <1>6, <1>7, <1>8, <1>9, <1>10, <1>11, <1>12, <1>13,
    <1>14, <1>15, <1>16, <1>17, <1>18, <1>19, <1>20, <1>21, <1>22, <1>23, <1>24, <1>25, <1>26
  DEF Next, Handle

\* A step that touches only t leaves what a failed MkdirAll left, unless t is it.
LEMMA BareKept ==
    ASSUME TypeInv, BareInv, UNCHANGED bare, NEW t \in Tasks, t \notin bare,
           \A u \in Tasks \ {t} :
              /\ pc'[u] = pc[u] /\ answer'[u] = answer[u]
              /\ disk'[u] = disk[u] /\ runner'[u] = runner[u]
              /\ (u \in store' <=> u \in store) /\ (u \in removing' <=> u \in removing)
    PROVE  BareInv'
BY DEF BareInv, TypeInv, FailTypes

LEMMA BareInit == Init => BareInv
BY DEF Init, BareInv

\* Nobody writes into what a failed MkdirAll left, and its answer stands.
LEMMA BareStep == TypeInv /\ HandlerInv /\ BareInv /\ [Next]_vars => BareInv'
<1> SUFFICES ASSUME TypeInv, HandlerInv, BareInv, [Next]_vars PROVE BareInv' OBVIOUS
<1> DEFINE Others(t) ==
        \A u \in Tasks \ {t} :
           /\ pc'[u] = pc[u] /\ answer'[u] = answer[u]
           /\ disk'[u] = disk[u] /\ runner'[u] = runner[u]
           /\ (u \in store' <=> u \in store) /\ (u \in removing' <=> u \in removing)
<1>0. ASSUME NEW t \in Tasks, t \notin bare, UNCHANGED bare, Others(t) PROVE BareInv'
  BY <1>0, BareKept
<1>1. ASSUME NEW t \in Tasks, Arrive(t) PROVE BareInv'
  <2>1. t \notin bare
    BY <1>1 DEF Arrive, BareInv, Running
  <2>2. UNCHANGED bare
    BY <1>1 DEF Arrive, failVars
  <2>3. Others(t)
    BY <1>1 DEF Arrive, TypeInv, LockTypes, RequestTypes, DiskTypes, TaskTypes,
      handlerVars, taskVars
  <2> QED BY <1>0, <2>1, <2>2, <2>3
<1>2. ASSUME NEW t \in Tasks, Lock(t) PROVE BareInv'
  <2>1. t \notin bare
    BY <1>2 DEF Lock, BareInv, Running
  <2>2. UNCHANGED bare
    BY <1>2 DEF Lock, failVars
  <2>3. Others(t)
    BY <1>2 DEF Lock, mayLock, Respond, TypeInv, LockTypes, RequestTypes,
      DiskTypes, TaskTypes, handlerVars, taskVars
  <2> QED BY <1>0, <2>1, <2>2, <2>3
<1>3. ASSUME NEW t \in Tasks, ListDir(t) PROVE BareInv'
  <2>1. t \notin bare
    BY <1>3 DEF ListDir, BareInv, Running
  <2>2. UNCHANGED bare
    BY <1>3 DEF ListDir, failVars
  <2>3. Others(t)
    BY <1>3 DEF ListDir, TypeInv, LockTypes, RequestTypes, DiskTypes, TaskTypes,
      handlerVars, taskVars
  <2> QED BY <1>0, <2>1, <2>2, <2>3
<1>4. ASSUME NEW t \in Tasks, StatFile(t) PROVE BareInv'
  <2>1. t \notin bare
    BY <1>4 DEF StatFile, BareInv, Running
  <2>2. UNCHANGED bare
    BY <1>4 DEF StatFile, failVars
  <2>3. Others(t)
    BY <1>4 DEF StatFile, Respond, TypeInv, LockTypes, RequestTypes,
      DiskTypes, TaskTypes, handlerVars, taskVars
  <2> QED BY <1>0, <2>1, <2>2, <2>3
<1>5. ASSUME NEW t \in Tasks, EndScan(t) PROVE BareInv'
  <2>1. t \notin bare
    BY <1>5 DEF EndScan, BareInv, Running
  <2>2. UNCHANGED bare
    BY <1>5 DEF EndScan, failVars
  <2>3. Others(t)
    BY <1>5 DEF EndScan, Respond, TypeInv, LockTypes, RequestTypes,
      DiskTypes, TaskTypes, handlerVars, taskVars
  <2> QED BY <1>0, <2>1, <2>2, <2>3
<1>6. ASSUME NEW t \in Tasks, UploadArrives(t) PROVE BareInv'
  <2>1. t \notin bare
    BY <1>6 DEF UploadArrives, BareInv, Running
  <2>2. UNCHANGED bare
    BY <1>6 DEF UploadArrives, failVars
  <2>3. Others(t)
    BY <1>6 DEF UploadArrives, Respond, TypeInv, LockTypes, RequestTypes,
      DiskTypes, TaskTypes, handlerVars, taskVars
  <2> QED BY <1>0, <2>1, <2>2, <2>3
<1>7. ASSUME NEW t \in Tasks, UploadTimesOut(t) PROVE BareInv'
  <2>1. t \notin bare
    BY <1>7 DEF UploadTimesOut, uploadTimesOut, BareInv, Running
  <2>2. UNCHANGED bare
    BY <1>7 DEF UploadTimesOut, failVars
  <2>3. Others(t)
    BY <1>7 DEF UploadTimesOut, uploadTimesOut, Respond, TypeInv, LockTypes, RequestTypes,
      DiskTypes, TaskTypes, handlerVars, taskVars
  <2> QED BY <1>0, <2>1, <2>2, <2>3
<1>8. ASSUME NEW t \in Tasks, SaveUpload(t) PROVE BareInv'
  <2>1. t \notin bare
    BY <1>8 DEF SaveUpload, BareInv, Running
  <2>2. UNCHANGED bare
    BY <1>8 DEF SaveUpload, failVars
  <2>3. Others(t)
    BY <1>8 DEF SaveUpload, TypeInv, LockTypes, RequestTypes, DiskTypes, TaskTypes,
      handlerVars, taskVars
  <2> QED BY <1>0, <2>1, <2>2, <2>3
<1>9. ASSUME NEW t \in Tasks, SaveFails(t) PROVE BareInv'
  <2>1. t \notin bare
    BY <1>9 DEF SaveFails, BareInv, Running
  <2>2. UNCHANGED bare
    BY <1>9 DEF SaveFails, failVars
  <2>3. Others(t)
    BY <1>9 DEF SaveFails, Undo, TypeInv, LockTypes, RequestTypes, DiskTypes, TaskTypes,
      handlerVars, taskVars
  <2> QED BY <1>0, <2>1, <2>2, <2>3
<1>10. ASSUME NEW t \in Tasks, OpenArchive(t) PROVE BareInv'
  <2>1. t \notin bare
    BY <1>10 DEF OpenArchive, BareInv, Running
  <2>2. UNCHANGED bare
    BY <1>10 DEF OpenArchive, failVars
  <2>3. Others(t)
    BY <1>10 DEF OpenArchive, Undo, Goto, TypeInv, LockTypes, RequestTypes, DiskTypes, TaskTypes,
      handlerVars, taskVars
  <2> QED BY <1>0, <2>1, <2>2, <2>3
<1>11. ASSUME NEW t \in Tasks, ExtractEntry(t) PROVE BareInv'
  <2>1. t \notin bare
    BY <1>11 DEF ExtractEntry, BareInv, Running
  <2>2. UNCHANGED bare
    BY <1>11 DEF ExtractEntry, failVars
  <2>3. Others(t)
    BY <1>11 DEF ExtractEntry, Undo, Goto, TypeInv, LockTypes, RequestTypes, DiskTypes, TaskTypes,
      handlerVars, taskVars
  <2> QED BY <1>0, <2>1, <2>2, <2>3
<1>12. ASSUME NEW t \in Tasks, PrepareContext(t) PROVE BareInv'
  <2>1. t \notin bare
    BY <1>12 DEF PrepareContext, BareInv, Running
  <2>2. UNCHANGED bare
    BY <1>12 DEF PrepareContext, failVars
  <2>3. Others(t)
    BY <1>12 DEF PrepareContext, Undo, Goto, TypeInv, LockTypes, RequestTypes, DiskTypes, TaskTypes,
      handlerVars, taskVars
  <2> QED BY <1>0, <2>1, <2>2, <2>3
<1>13. ASSUME NEW t \in Tasks, RejectPrepared(t) PROVE BareInv'
  <2>1. t \notin bare
    BY <1>13 DEF RejectPrepared, BareInv, Running
  <2>2. UNCHANGED bare
    BY <1>13 DEF RejectPrepared, failVars
  <2>3. Others(t)
    BY <1>13 DEF RejectPrepared, Undo, TypeInv, LockTypes, RequestTypes, DiskTypes, TaskTypes,
      handlerVars, taskVars
  <2> QED BY <1>0, <2>1, <2>2, <2>3
<1>14. ASSUME NEW t \in Tasks, RemoveRefused(t) PROVE BareInv'
  <2>1. t \notin bare
    BY <1>14 DEF RemoveRefused, BareInv, Running
  <2>2. UNCHANGED bare
    BY <1>14 DEF RemoveRefused, failVars
  <2>3. Others(t)
    BY <1>14 DEF RemoveRefused, Respond, TypeInv, LockTypes, RequestTypes,
      DiskTypes, TaskTypes, handlerVars, taskVars
  <2> QED BY <1>0, <2>1, <2>2, <2>3
<1>15. ASSUME NEW t \in Tasks, Admit(t) PROVE BareInv'
  <2>1. t \notin bare
    BY <1>15 DEF Admit, BareInv, Running
  <2>2. UNCHANGED bare
    BY <1>15 DEF Admit, failVars
  <2>3. Others(t)
    BY <1>15 DEF Admit, Respond, TypeInv, LockTypes, RequestTypes,
      DiskTypes, TaskTypes, handlerVars, taskVars
  <2> QED BY <1>0, <2>1, <2>2, <2>3
<1>16. ASSUME NEW t \in Tasks, StartRun(t) PROVE BareInv'
  <2>1. t \notin bare
    BY <1>16 DEF StartRun, BareInv, Running
  <2>2. UNCHANGED bare
    BY <1>16 DEF StartRun, failVars
  <2>3. Others(t)
    BY <1>16 DEF StartRun, EndRunner, TypeInv, LockTypes, RequestTypes, DiskTypes, TaskTypes,
      handlerVars, taskVars
  <2> QED BY <1>0, <2>1, <2>2, <2>3
<1>17. ASSUME NEW t \in Tasks, WriteLog(t) PROVE BareInv'
  <2>1. t \notin bare
    BY <1>17 DEF WriteLog, BareInv, Running
  <2>2. UNCHANGED bare
    BY <1>17 DEF WriteLog, failVars
  <2>3. Others(t)
    BY <1>17 DEF WriteLog, TypeInv, LockTypes, RequestTypes, DiskTypes, TaskTypes,
      handlerVars, taskVars
  <2> QED BY <1>0, <2>1, <2>2, <2>3
<1>18. ASSUME NEW t \in Tasks, ConvertToNydus(t) PROVE BareInv'
  <2>1. t \notin bare
    BY <1>18 DEF ConvertToNydus, BareInv, Running
  <2>2. UNCHANGED bare
    BY <1>18 DEF ConvertToNydus, failVars
  <2>3. Others(t)
    BY <1>18 DEF ConvertToNydus, TypeInv, LockTypes, RequestTypes, DiskTypes, TaskTypes,
      handlerVars, taskVars
  <2> QED BY <1>0, <2>1, <2>2, <2>3
<1>19. ASSUME NEW t \in Tasks, EndRun(t) PROVE BareInv'
  <2>1. t \notin bare
    BY <1>19 DEF EndRun, BareInv, Running
  <2>2. UNCHANGED bare
    BY <1>19 DEF EndRun, failVars
  <2>3. Others(t)
    BY <1>19 DEF EndRun, EndRunner, TypeInv, LockTypes, RequestTypes, DiskTypes, TaskTypes,
      handlerVars, taskVars
  <2> QED BY <1>0, <2>1, <2>2, <2>3
<1>20. ASSUME NEW t \in Tasks, Cancel(t) PROVE BareInv'
  <2>1. t \notin bare
    BY <1>20 DEF Cancel, BareInv, Running
  <2>2. UNCHANGED bare
    BY <1>20 DEF Cancel, failVars
  <2>3. Others(t)
    BY <1>20 DEF Cancel, TypeInv, LockTypes, RequestTypes, DiskTypes, TaskTypes,
      handlerVars, taskVars
  <2> QED BY <1>0, <2>1, <2>2, <2>3
<1>21. ASSUME NEW t \in Tasks, Expire(t) PROVE BareInv'
  <2>1. t \notin bare
    BY <1>21 DEF Expire, BareInv, Running
  <2>2. UNCHANGED bare
    BY <1>21 DEF Expire, failVars
  <2>3. Others(t)
    BY <1>21 DEF Expire, TypeInv, LockTypes, RequestTypes, DiskTypes, TaskTypes,
      handlerVars, taskVars
  <2> QED BY <1>0, <2>1, <2>2, <2>3
<1>22. ASSUME NEW t \in Tasks, RemoveFile(t) PROVE BareInv'
  <2>1. t \notin bare
    BY <1>22 DEF RemoveFile, BareInv, Running
  <2>2. UNCHANGED bare
    BY <1>22 DEF RemoveFile, failVars
  <2>3. Others(t)
    BY <1>22 DEF RemoveFile, TypeInv, LockTypes, RequestTypes, DiskTypes, TaskTypes,
      handlerVars, taskVars
  <2> QED BY <1>0, <2>1, <2>2, <2>3
<1>23. ASSUME NEW t \in Tasks, EndRemove(t) PROVE BareInv'
  <2>1. t \notin bare
    BY <1>23 DEF EndRemove, BareInv, Running
  <2>2. UNCHANGED bare
    BY <1>23 DEF EndRemove, failVars
  <2>3. Others(t)
    BY <1>23 DEF EndRemove, TypeInv, LockTypes, RequestTypes, DiskTypes, TaskTypes,
      handlerVars, taskVars
  <2> QED BY <1>0, <2>1, <2>2, <2>3
<1>24. ASSUME Restart PROVE BareInv'
  BY <1>24 DEF Restart, BareInv, TypeInv, FailTypes
<1>25. CASE UNCHANGED vars
  BY <1>25 DEF vars, handlerVars, taskVars, failVars, BareInv
<1>26. ASSUME NEW t \in Tasks, MkdirFails(t) PROVE BareInv'
  <2>1. /\ pc[t] = "save" /\ bare' \subseteq bare \cup {t}
        /\ UNCHANGED <<disk, runner, store, removing>>
    BY <1>26 DEF MkdirFails, taskVars
  <2>2. /\ pc'[t] = "done" /\ answer'[t] = 500
        /\ \A u \in Tasks \ {t} : pc'[u] = pc[u] /\ answer'[u] = answer[u]
    BY <1>26 DEF MkdirFails, Respond, TypeInv, LockTypes, RequestTypes
  <2>3. disk[t] = NoFiles /\ runner[t] = "none" /\ t \notin store /\ t \notin removing
    BY <2>1 DEF HandlerInv
  <2> QED BY <2>1, <2>2, <2>3 DEF BareInv, TypeInv, FailTypes
<1> HIDE DEF Others
<1> QED
  BY <1>1, <1>2, <1>3, <1>4, <1>5, <1>6, <1>7, <1>8, <1>9, <1>10, <1>11, <1>12, <1>13,
    <1>14, <1>15, <1>16, <1>17, <1>18, <1>19, <1>20, <1>21, <1>22, <1>23, <1>24, <1>25, <1>26
  DEF Next, Handle

\* Logs and Nydus contexts have their limits.
LEMMA OtherShrinks ==
    ASSUME TypeInv, TypeInv', OtherInv,
           \A u \in Tasks : /\ disk'[u].log <= disk[u].log /\ logLeft'[u] <= logLeft[u]
                            /\ disk'[u].nydus <= disk[u].nydus
                            /\ runner'[u] = "queued" => runner[u] = "queued"
    PROVE  OtherInv'
<1> SUFFICES ASSUME NEW u \in Tasks
             PROVE  /\ disk'[u].log + logLeft'[u] <= MaxLogBytes
                    /\ runner'[u] = "queued" => disk'[u].log = 0
                    /\ disk'[u].nydus <= NydusBytes
  BY DEF OtherInv
<1>1. /\ disk[u].log \in Nat /\ disk'[u].log \in Nat /\ disk[u].nydus \in Nat
      /\ disk'[u].nydus \in Nat /\ logLeft[u] \in Nat /\ logLeft'[u] \in Nat
      /\ MaxLogBytes \in Nat /\ NydusBytes \in Nat
  BY WorkDirAssumption DEF TypeInv, DiskTypes, TaskTypes, Files
<1> QED BY <1>1 DEF OtherInv

LEMMA OtherInit == Init => OtherInv
BY WorkDirAssumption DEF Init, OtherInv, NoFiles, Files

LEMMA OtherStep == TypeInv /\ TypeInv' /\ HandlerInv /\ OtherInv /\ [Next]_vars => OtherInv'
<1> SUFFICES ASSUME TypeInv, TypeInv', HandlerInv, OtherInv, [Next]_vars PROVE OtherInv' OBVIOUS
<1>0. ASSUME UNCHANGED <<disk, logLeft, runner>> PROVE OtherInv'
  BY <1>0 DEF OtherInv
<1>1. ASSUME NEW t \in Tasks, Arrive(t) PROVE OtherInv'
  BY <1>0, <1>1 DEF Arrive, taskVars
<1>2. ASSUME NEW t \in Tasks, Lock(t) PROVE OtherInv'
  BY <1>0, <1>2 DEF Lock, taskVars
<1>3. ASSUME NEW t \in Tasks, ListDir(t) PROVE OtherInv'
  BY <1>0, <1>3 DEF ListDir, taskVars
<1>4. ASSUME NEW t \in Tasks, StatFile(t) PROVE OtherInv'
  BY <1>0, <1>4 DEF StatFile, taskVars
<1>5. ASSUME NEW t \in Tasks, EndScan(t) PROVE OtherInv'
  BY <1>0, <1>5 DEF EndScan, taskVars
<1>6. ASSUME NEW t \in Tasks, UploadArrives(t) PROVE OtherInv'
  BY <1>0, <1>6 DEF UploadArrives, taskVars
<1>7. ASSUME NEW t \in Tasks, UploadTimesOut(t) PROVE OtherInv'
  BY <1>0, <1>7 DEF UploadTimesOut, taskVars
<1>8. ASSUME NEW t \in Tasks, SaveUpload(t) PROVE OtherInv'
  <2>1. /\ \A u \in Tasks \ {t} : disk'[u] = disk[u]
        /\ disk'[t].log = disk[t].log /\ disk'[t].nydus = disk[t].nydus
        /\ UNCHANGED <<logLeft, runner>>
    BY <1>8 DEF SaveUpload, TypeInv, DiskTypes, Files, taskVars
  <2> QED BY <2>1 DEF OtherInv
<1>9. ASSUME NEW t \in Tasks, SaveFails(t) PROVE OtherInv'
  <2>1. /\ \A u \in Tasks \ {t} : disk'[u] = disk[u]
        /\ disk'[t].log = disk[t].log /\ disk'[t].nydus = disk[t].nydus
        /\ UNCHANGED <<logLeft, runner>>
    BY <1>9 DEF SaveFails, TypeInv, DiskTypes, Files, taskVars
  <2> QED BY <2>1 DEF OtherInv
<1>10. ASSUME NEW t \in Tasks, OpenArchive(t) PROVE OtherInv'
  BY <1>0, <1>10 DEF OpenArchive, taskVars
<1>11. ASSUME NEW t \in Tasks, ExtractEntry(t) PROVE OtherInv'
  <2>1. /\ \A u \in Tasks \ {t} : disk'[u] = disk[u]
        /\ disk'[t].log = disk[t].log /\ disk'[t].nydus = disk[t].nydus
        /\ UNCHANGED <<logLeft, runner>>
    BY <1>11, ContextGrows DEF Files, taskVars
  <2> QED BY <2>1 DEF OtherInv
<1>12. ASSUME NEW t \in Tasks, PrepareContext(t) PROVE OtherInv'
  <2>1. /\ \A u \in Tasks \ {t} : disk'[u] = disk[u]
        /\ disk'[t].log = disk[t].log /\ disk'[t].nydus = disk[t].nydus
        /\ UNCHANGED <<logLeft, runner>>
    BY <1>12, ContextGrows DEF Files, taskVars
  <2> QED BY <2>1 DEF OtherInv
<1>13. ASSUME NEW t \in Tasks, RejectPrepared(t) PROVE OtherInv'
  BY <1>0, <1>13 DEF RejectPrepared, taskVars
<1>14. ASSUME NEW t \in Tasks, RemoveRefused(t) PROVE OtherInv'
  <2>1. /\ \A u \in Tasks \ {t} : disk'[u] = disk[u]
        /\ disk'[t].log \in {0, disk[t].log} /\ disk'[t].nydus \in {0, disk[t].nydus}
        /\ UNCHANGED <<logLeft, runner>>
    BY <1>14, RefusedFiles DEF RemoveRefused, Files, taskVars
  <2>2. disk[t].log \in Nat /\ disk[t].nydus \in Nat /\ logLeft[t] \in Nat
    BY DEF TypeInv, DiskTypes, TaskTypes, Files
  <2>3. \A u \in Tasks : disk[u].log <= disk[u].log /\ disk[u].nydus <= disk[u].nydus
                         /\ logLeft[u] <= logLeft[u]
    BY DEF TypeInv, DiskTypes, TaskTypes, Files
  <2> QED BY <2>1, <2>2, <2>3, OtherShrinks
<1>15. ASSUME NEW t \in Tasks, Admit(t) PROVE OtherInv'
  <2>1. /\ runner' = [runner EXCEPT ![t] = "queued"] /\ disk[t].log = 0
        /\ UNCHANGED <<disk, logLeft>>
    BY <1>15 DEF Admit, HandlerInv
  <2> QED BY <2>1 DEF OtherInv, TypeInv, TaskTypes
<1>16. ASSUME NEW t \in Tasks, StartRun(t) PROVE OtherInv'
  <2>1. /\ disk[t].log = 0 /\ UNCHANGED disk
        /\ logLeft'[t] <= MaxLogBytes /\ logLeft'[t] \in Nat /\ runner'[t] # "queued"
        /\ \A u \in Tasks \ {t} : logLeft'[u] = logLeft[u] /\ runner'[u] = runner[u]
    BY <1>16, WorkDirAssumption DEF StartRun, EndRunner, OtherInv, TypeInv, TaskTypes
  <2> QED BY <2>1 DEF OtherInv
<1>17. ASSUME NEW t \in Tasks, WriteLog(t) PROVE OtherInv'
  <2> DEFINE n == limitedLogWriter(2, logLeft[t])
  <2>1. n \in Nat /\ n <= logLeft[t] /\ logLeft[t] \in Nat /\ disk[t].log \in Nat
    BY DEF limitedLogWriter, Lesser, TypeInv, TaskTypes, DiskTypes, Files
  <2>2. /\ logLeft' = [logLeft EXCEPT ![t] = @ - n]
        /\ disk' = [disk EXCEPT ![t].log = IF t \in unlinked THEN @ ELSE @ + n]
        /\ runner[t] # "queued" /\ UNCHANGED runner
    BY <1>17 DEF WriteLog, Running
  <2> HIDE DEF n
  <2>3. /\ \A u \in Tasks \ {t} : disk'[u] = disk[u] /\ logLeft'[u] = logLeft[u]
        /\ disk'[t].nydus = disk[t].nydus
        /\ logLeft'[t] = logLeft[t] - n
        /\ disk'[t].log \in {disk[t].log, disk[t].log + n}
    BY <2>2 DEF TypeInv, DiskTypes, TaskTypes, Files
  <2>4. disk'[t].log + logLeft'[t] <= MaxLogBytes
    BY <2>1, <2>3, WorkDirAssumption DEF OtherInv
  <2> QED BY <2>2, <2>3, <2>4 DEF OtherInv
<1>18. ASSUME NEW t \in Tasks, ConvertToNydus(t) PROVE OtherInv'
  <2>1. /\ \A u \in Tasks \ {t} : disk'[u] = disk[u] /\ runner'[u] = runner[u]
        /\ disk'[t].log = disk[t].log /\ disk'[t].nydus = NydusBytes
        /\ runner'[t] = "converted" /\ UNCHANGED logLeft
    BY <1>18 DEF ConvertToNydus, TypeInv, DiskTypes, TaskTypes, Files
  <2>2. NydusBytes <= NydusBytes
    BY WorkDirAssumption
  <2> QED BY <2>1, <2>2 DEF OtherInv
<1>19. ASSUME NEW t \in Tasks, EndRun(t) PROVE OtherInv'
  <2>1. /\ UNCHANGED disk
        /\ \A u \in Tasks \ {t} : logLeft'[u] = logLeft[u] /\ runner'[u] = runner[u]
        /\ logLeft'[t] = 0 /\ runner'[t] = "ended"
    BY <1>19 DEF EndRun, EndRunner, TypeInv, TaskTypes
  <2>2. \A u \in Tasks : disk[u].log <= disk[u].log /\ disk[u].nydus <= disk[u].nydus
                         /\ logLeft[u] <= logLeft[u] /\ 0 <= logLeft[u]
    BY DEF TypeInv, DiskTypes, TaskTypes, Files
  <2> QED BY <2>1, <2>2, OtherShrinks
<1>20. ASSUME NEW t \in Tasks, Cancel(t) PROVE OtherInv'
  BY <1>0, <1>20 DEF Cancel, taskVars
<1>21. ASSUME NEW t \in Tasks, Expire(t) PROVE OtherInv'
  BY <1>0, <1>21 DEF Expire, taskVars
<1>22. ASSUME NEW t \in Tasks, RemoveFile(t) PROVE OtherInv'
  <2>1. /\ \A u \in Tasks, k \in Files : disk'[u][k] <= disk[u][k]
        /\ UNCHANGED <<logLeft, runner>>
    BY <1>22 DEF RemoveFile, TypeInv, DiskTypes
  <2>2. \A u \in Tasks : logLeft[u] <= logLeft[u]
    BY DEF TypeInv, TaskTypes
  <2> QED BY <2>1, <2>2, OtherShrinks DEF Files
<1>23. ASSUME NEW t \in Tasks, EndRemove(t) PROVE OtherInv'
  BY <1>0, <1>23 DEF EndRemove, taskVars
<1>24. ASSUME Restart PROVE OtherInv'
  <2>1. /\ UNCHANGED disk
        /\ \A u \in Tasks : logLeft'[u] = 0 /\ runner'[u] = "none"
    BY <1>24 DEF Restart
  <2>2. \A u \in Tasks : disk[u].log <= disk[u].log /\ disk[u].nydus <= disk[u].nydus
                         /\ 0 <= logLeft[u]
    BY DEF TypeInv, DiskTypes, TaskTypes, Files
  <2> QED BY <2>1, <2>2, OtherShrinks
<1>25. CASE UNCHANGED vars
  BY <1>0, <1>25 DEF vars, taskVars
<1>26. ASSUME NEW t \in Tasks, MkdirFails(t) PROVE OtherInv'
  BY <1>0, <1>26 DEF MkdirFails, taskVars
<1> QED
  BY <1>1, <1>2, <1>3, <1>4, <1>5, <1>6, <1>7, <1>8, <1>9, <1>10, <1>11, <1>12, <1>13,
    <1>14, <1>15, <1>16, <1>17, <1>18, <1>19, <1>20, <1>21, <1>22, <1>23, <1>24, <1>25, <1>26
  DEF Next, Handle

-----------------------------------------------------------------------------
(* The budget.                                                             *)

\* The sizes that are added up.
LEMMA SizesAreNumbers ==
    ASSUME TypeInv
    PROVE  /\ ArchiveSize \in [Tasks -> Nat] /\ ArchiveBytes \in Nat
           /\ OtherSize \in [Tasks -> Nat] /\ OtherBytes \in Nat
           /\ Counted \in [Tasks -> Nat] /\ Total(Counted) \in Nat
<1>1. \A t \in Tasks : /\ disk[t].zip \in Nat /\ disk[t].context \in Nat
                       /\ disk[t].log \in Nat /\ disk[t].nydus \in Nat
  BY DEF TypeInv, DiskTypes, Files
<1>2. /\ ArchiveSize \in [Tasks -> Nat] /\ OtherSize \in [Tasks -> Nat]
      /\ Counted \in [Tasks -> Nat]
  BY <1>1 DEF ArchiveSize, OtherSize, Counted
<1> QED BY <1>2, TotalIsNumber, WorkDirAssumption DEF ArchiveBytes, OtherBytes

LEMMA SizesAreNumbersNext ==
    ASSUME TypeInv'
    PROVE  /\ ArchiveSize' \in [Tasks -> Nat] /\ ArchiveBytes' \in Nat
           /\ Counted' \in [Tasks -> Nat] /\ Total(Counted)' \in Nat
<1>1. \A t \in Tasks : disk'[t].zip \in Nat /\ disk'[t].context \in Nat
  BY DEF TypeInv, DiskTypes, Files
<1>2. ArchiveSize' \in [Tasks -> Nat] /\ Counted' \in [Tasks -> Nat]
  BY <1>1 DEF ArchiveSize, Counted
<1> QED BY <1>2, TotalIsNumber, WorkDirAssumption DEF ArchiveBytes

\* One archive grows by at most n bytes.
LEMMA ArchiveGrows ==
    ASSUME TypeInv, TypeInv', NEW t \in Tasks, NEW n \in Nat,
           disk'[t].zip + disk'[t].context <= disk[t].zip + disk[t].context + n,
           \A u \in Tasks \ {t} : disk'[u] = disk[u]
    PROVE  ArchiveBytes' <= ArchiveBytes + n
<1>1. ArchiveSize \in [Tasks -> Nat] /\ ArchiveSize' \in [Tasks -> Nat]
  BY SizesAreNumbers, SizesAreNumbersNext
<1>2. ArchiveSize'[t] <= ArchiveSize[t] + n
  BY DEF ArchiveSize
<1>3. \A u \in Tasks \ {t} : ArchiveSize'[u] <= ArchiveSize[u]
  <2>1. \A u \in Tasks \ {t} : ArchiveSize'[u] = ArchiveSize[u]
    BY DEF ArchiveSize
  <2> QED BY <1>1, <2>1
<1> QED BY <1>1, <1>2, <1>3, TotalAtMost, WorkDirAssumption DEF ArchiveBytes

\* No archive grows.
LEMMA ArchiveShrinks ==
    ASSUME TypeInv, TypeInv',
           \A u \in Tasks : disk'[u].zip <= disk[u].zip /\ disk'[u].context <= disk[u].context
    PROVE  /\ ArchiveBytes' <= ArchiveBytes
           /\ scan' = scan => Total(Counted)' <= Total(Counted)
<1>1. \A u \in Tasks : /\ disk[u].zip \in Nat /\ disk[u].context \in Nat
                       /\ disk'[u].zip \in Nat /\ disk'[u].context \in Nat
  BY DEF TypeInv, DiskTypes, Files
<1>2. \A u \in Tasks : ArchiveSize'[u] <= ArchiveSize[u]
  BY <1>1 DEF ArchiveSize
<1>3. ArchiveBytes' <= ArchiveBytes
  BY <1>2, SizesAreNumbers, SizesAreNumbersNext, TotalMonotone, WorkDirAssumption DEF ArchiveBytes
<1>4. ASSUME scan' = scan PROVE Total(Counted)' <= Total(Counted)
  <2>1. \A u \in Tasks, k \in Files : Pending(u, k)' <=> Pending(u, k)
    BY <1>4 DEF Pending
  <2>2. \A u \in Tasks : Counted'[u] <= Counted[u]
    BY <1>1, <2>1 DEF Counted, Files
  <2> QED BY <2>2, SizesAreNumbers, SizesAreNumbersNext, TotalMonotone, WorkDirAssumption
<1> QED BY <1>3, <1>4

\* A step that writes no archive, and after which the holder of the lock has
\* nothing left to write or is where it was.
LEMMA BudgetKept ==
    ASSUME TypeInv, TypeInv', BudgetInv,
           \A u \in Tasks : disk'[u].zip <= disk[u].zip /\ disk'[u].context <= disk[u].context,
           \A u \in Tasks :
              \/ pc'[u] \in Idle \cup {"admit", "undo"}
              \/ /\ pc'[u] = pc[u] /\ upload'[u] = upload[u] /\ scan' = scan /\ left' = left
                 /\ disk'[u].zip = disk[u].zip /\ disk'[u].context = disk[u].context
    PROVE  BudgetInv'
<1>1. /\ ArchiveBytes' <= ArchiveBytes
      /\ scan' = scan => Total(Counted)' <= Total(Counted)
  BY ArchiveShrinks
<1>2. /\ ArchiveBytes \in Nat /\ ArchiveBytes' \in Nat
      /\ Total(Counted) \in Nat /\ Total(Counted)' \in Nat
      /\ MaxWorkDirBytes \in Nat /\ RewriteBytes \in Nat /\ left \in Int /\ scan.sum \in Nat
      /\ \A u \in Tasks : disk[u].zip \in Nat /\ disk[u].context \in Nat
  <2>1. /\ ArchiveBytes \in Nat /\ ArchiveBytes' \in Nat
        /\ Total(Counted) \in Nat /\ Total(Counted)' \in Nat
    BY SizesAreNumbers, SizesAreNumbersNext
  <2>2. MaxWorkDirBytes \in Nat /\ RewriteBytes \in Nat
    BY WorkDirAssumption
  <2>3. left \in Int /\ scan.sum \in Nat
    BY DEF TypeInv, RequestTypes, ScanTypes
  <2>4. \A u \in Tasks : disk[u].zip \in Nat /\ disk[u].context \in Nat
    BY DEF TypeInv, DiskTypes, Files
  <2> QED BY <2>1, <2>2, <2>3, <2>4
<1>3. (ArchiveBytes <= MaxWorkDirBytes + RewriteBytes)'
  BY <1>1, <1>2 DEF BudgetInv
<1>4. ASSUME NEW u \in Tasks
      PROVE  (/\ pc[u] = "scan" => Total(Counted) <= scan.sum
              /\ pc[u] \in {"upload", "save"} => ArchiveBytes + left <= MaxWorkDirBytes
              /\ pc[u] = "save" => upload[u].body <= left
              /\ pc[u] = "open" =>
                    /\ disk[u].zip <= left
                    /\ ArchiveBytes + left <= MaxWorkDirBytes + disk[u].zip
              /\ pc[u] = "extract" =>
                    /\ disk[u].context <= left
                    /\ ArchiveBytes + left <= MaxWorkDirBytes + disk[u].context)'
  <2>1. CASE pc'[u] \in Idle \cup {"admit", "undo"}
    BY <2>1 DEF Idle
  <2>2. CASE /\ pc'[u] = pc[u] /\ upload'[u] = upload[u] /\ scan' = scan /\ left' = left
             /\ disk'[u].zip = disk[u].zip /\ disk'[u].context = disk[u].context
    <3>1. /\ pc[u] = "scan" => Total(Counted) <= scan.sum
          /\ pc[u] \in {"upload", "save"} => ArchiveBytes + left <= MaxWorkDirBytes
          /\ pc[u] = "save" => upload[u].body <= left
          /\ pc[u] = "open" =>
                /\ disk[u].zip <= left
                /\ ArchiveBytes + left <= MaxWorkDirBytes + disk[u].zip
          /\ pc[u] = "extract" =>
                /\ disk[u].context <= left
                /\ ArchiveBytes + left <= MaxWorkDirBytes + disk[u].context
      BY DEF BudgetInv
    <3>2. Total(Counted) <= scan.sum => Total(Counted)' <= scan.sum
      BY <1>1, <1>2, <2>2
    <3>3. \A n \in Int : ArchiveBytes + left <= n => ArchiveBytes' + left <= n
      <4>1. \A a, b, l, n \in Int : b <= a /\ a + l <= n => b + l <= n
        OBVIOUS
      <4>2. ArchiveBytes \in Int /\ ArchiveBytes' \in Int /\ left \in Int
        BY <1>2
      <4> QED BY <1>1, <4>1, <4>2
    <3>4. /\ MaxWorkDirBytes \in Int /\ MaxWorkDirBytes + disk[u].zip \in Int
          /\ MaxWorkDirBytes + disk[u].context \in Int
      BY <1>2
    <3> QED BY <2>2, <3>1, <3>2, <3>3, <3>4
  <2> QED BY <2>1, <2>2
<1> QED BY <1>3, <1>4 DEF BudgetInv

\* A step of the holder of the lock: the others have no budget.
LEMMA BudgetOfHolder ==
    ASSUME TypeInv', NEW t \in Tasks, pc'[t] \in UnderLock,
           (ArchiveBytes <= MaxWorkDirBytes + RewriteBytes)',
           (/\ pc[t] = "scan" => Total(Counted) <= scan.sum
            /\ pc[t] \in {"upload", "save"} => ArchiveBytes + left <= MaxWorkDirBytes
            /\ pc[t] = "save" => upload[t].body <= left
            /\ pc[t] = "open" =>
                  /\ disk[t].zip <= left
                  /\ ArchiveBytes + left <= MaxWorkDirBytes + disk[t].zip
            /\ pc[t] = "extract" =>
                  /\ disk[t].context <= left
                  /\ ArchiveBytes + left <= MaxWorkDirBytes + disk[t].context)'
    PROVE  BudgetInv'
<1>1. \A u \in Tasks \ {t} : pc'[u] \in Idle
  BY DEF TypeInv, LockTypes, Idle, UnderLock
<1> QED BY <1>1 DEF BudgetInv, Idle

LEMMA BudgetInit == Init => BudgetInv
<1> SUFFICES ASSUME Init PROVE BudgetInv OBVIOUS
<1>1. ArchiveSize \in [Tasks -> Nat] /\ \A t \in Tasks : ArchiveSize[t] = 0
  BY DEF Init, ArchiveSize, NoFiles, Files
<1>2. ArchiveBytes = 0
  BY <1>1, TotalZero DEF ArchiveBytes
<1>3. 0 <= MaxWorkDirBytes + RewriteBytes
  BY WorkDirAssumption
<1> QED BY <1>2, <1>3 DEF Init, BudgetInv

\* After an answer nobody is under the lock.
LEMMA RespondEnds ==
    ASSUME TypeInv, NEW t \in Tasks, lock \in {t, NoTask}, NEW s, Respond(t, s)
    PROVE  \A u \in Tasks : pc'[u] \in Idle
BY WorkDirAssumption DEF Respond, TypeInv, LockTypes, Idle, UnderLock

\* WalkDir begins with every directory, so with every file, still to come.
LEMMA CountedAtLock ==
    ASSUME TypeInv', DirInv, scan' = [NoScan EXCEPT !.todo = dirs], UNCHANGED disk
    PROVE  Total(Counted)' <= scan'.sum
<1>1. scan'.todo = dirs /\ scan'.sum = 0
  BY DEF NoScan
<1>2. \A u \in Tasks : Counted'[u] = 0
  <2> SUFFICES ASSUME NEW u \in Tasks PROVE Counted'[u] = 0
    OBVIOUS
  <2>1. disk'[u].zip \in Nat /\ disk'[u].context \in Nat
    BY DEF TypeInv, DiskTypes, Files
  <2>2. CASE u \in dirs
    <3>1. Pending(u, "zip")' /\ Pending(u, "context")'
      BY <1>1, <2>2 DEF Pending
    <3> QED BY <3>1 DEF Counted
  <2>3. CASE u \notin dirs
    <3>1. ~(disk[u].zip > 0) /\ ~(disk[u].context > 0)
      BY <2>3 DEF DirInv, Files
    <3>2. disk'[u].zip = 0 /\ disk'[u].context = 0
      BY <2>1, <3>1
    <3> QED BY <3>2 DEF Counted
  <2> QED BY <2>2, <2>3
<1>3. Counted' \in [Tasks -> Nat]
  BY SizesAreNumbersNext
<1>4. Total(Counted') = 0
  BY <1>2, <1>3, TotalZero
<1> QED BY <1>1, <1>4

\* Listing a directory counts nothing.
LEMMA CountedAtList ==
    ASSUME TypeInv, TypeInv', NEW d \in scan.todo, scan.files = <<>>, UNCHANGED disk,
           scan' = [scan EXCEPT !.todo = @ \ {d},
                                !.files = [i \in DOMAIN Present(d) |-> <<d, Present(d)[i]>>]]
    PROVE  Total(Counted)' <= Total(Counted) /\ scan'.sum = scan.sum
<1> DEFINE fs == [i \in DOMAIN Present(d) |-> <<d, Present(d)[i]>>]
<1>1. scan'.todo = scan.todo \ {d} /\ scan'.files = fs /\ scan'.sum = scan.sum
  BY DEF TypeInv, ScanTypes
<1>2. d \in Tasks /\ disk[d] \in [Files -> Nat]
  BY DEF TypeInv, ScanTypes, DiskTypes
<1>3. \A u \in Tasks \ {d} : \A k \in Files : Pending(u, k) => Pending(u, k)'
  BY <1>1 DEF Pending
<1>4. \A k \in Files : disk[d][k] > 0 => Pending(d, k)'
  <2> SUFFICES ASSUME NEW k \in Files, disk[d][k] > 0 PROVE Pending(d, k)'
    OBVIOUS
  <2>1. k \in Listed(Present(d))
    BY <1>2, PresentFiles
  <2>2. PICK i \in DOMAIN Present(d) : Present(d)[i] = k
    BY <2>1 DEF Listed
  <2>3. i \in DOMAIN fs /\ fs[i] = <<d, k>>
    BY <2>2
  <2> QED BY <1>1, <2>3 DEF Pending
<1>5. \A u \in Tasks : /\ disk[u].zip \in Nat /\ disk[u].context \in Nat
                       /\ disk'[u].zip = disk[u].zip /\ disk'[u].context = disk[u].context
  BY DEF TypeInv, DiskTypes, Files
<1>6. \A u \in Tasks \ {d} : Counted'[u] <= Counted[u]
  BY <1>3, <1>5 DEF Counted, Files
<1>7. Counted'[d] = 0
  BY <1>2, <1>4, <1>5 DEF Counted, Files
<1>8. Counted \in [Tasks -> Nat] /\ Counted' \in [Tasks -> Nat]
  BY SizesAreNumbers, SizesAreNumbersNext
<1>9. \A u \in Tasks : Counted'[u] <= Counted[u]
  BY <1>2, <1>6, <1>7, <1>8
<1> QED BY <1>1, <1>8, <1>9, TotalMonotone, WorkDirAssumption

\* entry.Info counts a file at the length it has by then.
LEMMA CountedAtStat ==
    ASSUME TypeInv, TypeInv', NEW d \in Tasks, NEW k \in Files, scan.files # <<>>,
           Head(scan.files) = <<d, k>>, UNCHANGED disk,
           scan' = [scan EXCEPT !.files = Tail(@), !.sum = @ + disk[d][k]]
    PROVE  /\ Total(Counted)' <= Total(Counted) + disk[d][k]
           /\ scan'.sum = scan.sum + disk[d][k]
<1>1. scan'.todo = scan.todo /\ scan'.files = Tail(scan.files) /\ scan'.sum = scan.sum + disk[d][k]
  BY DEF TypeInv, ScanTypes
<1>2. /\ scan.files \in Seq(Tasks \X Files) /\ Len(scan.files) \in Nat
      /\ DOMAIN scan.files = 1..Len(scan.files) /\ scan.files[1] = <<d, k>>
      /\ DOMAIN Tail(scan.files) = 1..Len(scan.files) - 1
      /\ \A i \in 1..Len(scan.files) - 1 : Tail(scan.files)[i] = scan.files[i + 1]
  BY DEF TypeInv, ScanTypes
<1>3. ASSUME NEW u \in Tasks, NEW l \in Files, Pending(u, l), <<u, l>> # <<d, k>>
      PROVE  Pending(u, l)'
  <2>1. CASE u \in scan.todo
    BY <1>1, <2>1 DEF Pending
  <2>2. CASE u \notin scan.todo
    <3>1. PICK i \in 1..Len(scan.files) : scan.files[i] = <<u, l>>
      BY <1>2, <1>3, <2>2 DEF Pending
    <3>2. i # 1
      BY <1>2, <1>3, <3>1
    <3>3. i - 1 \in 1..Len(scan.files) - 1 /\ (i - 1) + 1 = i
      BY <1>2, <3>2
    <3>4. i - 1 \in DOMAIN Tail(scan.files) /\ Tail(scan.files)[i - 1] = <<u, l>>
      BY <1>2, <3>1, <3>3
    <3> QED BY <1>1, <3>4 DEF Pending
  <2> QED BY <2>1, <2>2
<1>4. \A u \in Tasks : /\ disk[u].zip \in Nat /\ disk[u].context \in Nat
                       /\ disk'[u].zip = disk[u].zip /\ disk'[u].context = disk[u].context
  BY DEF TypeInv, DiskTypes, Files
<1>5. \A u \in Tasks \ {d} : Counted'[u] <= Counted[u]
  BY <1>3, <1>4 DEF Counted, Files
<1>6. Counted'[d] <= Counted[d] + disk[d][k]
  <2>1. disk[d][k] \in Nat
    BY DEF TypeInv, DiskTypes
  <2>2. \A l \in Files \ {k} : Pending(d, l) => Pending(d, l)'
    BY <1>3
  <2>3. CASE k = "zip"
    BY <1>4, <2>2, <2>3 DEF Counted, Files
  <2>4. CASE k = "context"
    BY <1>4, <2>2, <2>4 DEF Counted, Files
  <2>5. CASE k \notin {"zip", "context"}
    BY <1>4, <2>1, <2>2, <2>5 DEF Counted, Files
  <2> QED BY <2>3, <2>4, <2>5
<1>7. Counted \in [Tasks -> Nat] /\ Counted' \in [Tasks -> Nat] /\ disk[d][k] \in Nat
  BY SizesAreNumbers, SizesAreNumbersNext DEF TypeInv, DiskTypes
<1> QED BY <1>1, <1>5, <1>6, <1>7, TotalAtMost, WorkDirAssumption

\* At its end the walk has counted every archive.
LEMMA CountedAtEnd ==
    ASSUME TypeInv, scan.files = <<>>, scan.todo = {}
    PROVE  Total(Counted) = ArchiveBytes
<1>1. \A u \in Tasks, k \in Files : ~Pending(u, k)
  BY DEF Pending
<1>2. Counted = ArchiveSize
  BY <1>1 DEF Counted, ArchiveSize, Files
<1> QED BY <1>2 DEF ArchiveBytes

\* No interleaving of the walk, the builds and the reaper lets a request
\* write into bytes that are taken.
LEMMA BudgetStep ==
    TypeInv /\ TypeInv' /\ HandlerInv /\ DirInv /\ BudgetInv /\ [Next]_vars => BudgetInv'
<1> SUFFICES ASSUME TypeInv, TypeInv', HandlerInv, DirInv, BudgetInv, [Next]_vars
             PROVE  BudgetInv'
  OBVIOUS
<1> DEFINE A == ArchiveBytes
           M == MaxWorkDirBytes
<1>1. /\ A \in Nat /\ A' \in Nat /\ M \in Nat /\ RewriteBytes \in Nat /\ left \in Int
      /\ scan.sum \in Nat /\ Total(Counted) \in Nat /\ Total(Counted)' \in Nat
      /\ \A u \in Tasks : disk[u].zip \in Nat /\ disk[u].context \in Nat
  <2>1. /\ A \in Nat /\ A' \in Nat /\ Total(Counted) \in Nat /\ Total(Counted)' \in Nat
    BY SizesAreNumbers, SizesAreNumbersNext
  <2>2. M \in Nat /\ RewriteBytes \in Nat
    BY WorkDirAssumption
  <2>3. left \in Int /\ scan.sum \in Nat
    BY DEF TypeInv, RequestTypes, ScanTypes
  <2>4. \A u \in Tasks : disk[u].zip \in Nat /\ disk[u].context \in Nat
    BY DEF TypeInv, DiskTypes, Files
  <2> QED BY <2>1, <2>2, <2>3, <2>4
<1>2. \A u \in Tasks : disk[u].zip <= disk[u].zip /\ disk[u].context <= disk[u].context
  BY <1>1
\* Steps that write no archive.
<1>3. ASSUME UNCHANGED disk, \A u \in Tasks : pc'[u] \in Idle PROVE BudgetInv'
  BY <1>2, <1>3, BudgetKept
<1>4. ASSUME UNCHANGED <<pc, upload, scan, left>>,
             \A u \in Tasks : disk'[u].zip = disk[u].zip /\ disk'[u].context = disk[u].context
      PROVE  BudgetInv'
  BY <1>2, <1>4, BudgetKept
<1>5. ASSUME UNCHANGED disk PROVE A' = A
  BY <1>5 DEF ArchiveBytes, ArchiveSize
<1>6. A <= M + RewriteBytes
  BY DEF BudgetInv
<1>7. ASSUME NEW t \in Tasks, Arrive(t) PROVE BudgetInv'
  <2>1. /\ UNCHANGED <<scan, left, disk>>
        /\ pc'[t] \in Idle
        /\ \A u \in Tasks \ {t} : pc'[u] = pc[u] /\ upload'[u] = upload[u]
    BY <1>7 DEF Arrive, TypeInv, LockTypes, RequestTypes, Idle
  <2> QED BY <1>2, <2>1, BudgetKept
<1>8. ASSUME NEW t \in Tasks, Lock(t) PROVE BudgetInv'
  <2>1. lock = NoTask /\ UNCHANGED disk
    BY <1>8 DEF Lock, mayLock
  <2>2. CASE Respond(t, 429)
    BY <1>3, <2>1, <2>2, RespondEnds
  <2>3. CASE ~Respond(t, 429)
    <3>1. pc'[t] = "scan" /\ scan' = [NoScan EXCEPT !.todo = dirs]
      BY <1>8, <2>3 DEF Lock, TypeInv, LockTypes
    <3>2. Total(Counted)' <= scan'.sum
      BY <2>1, <3>1, CountedAtLock
    <3>3. A' <= M + RewriteBytes
      BY <1>5, <1>6, <2>1
    <3> QED BY <3>1, <3>2, <3>3, BudgetOfHolder DEF UnderLock
  <2> QED BY <2>2, <2>3
<1>9. ASSUME NEW t \in Tasks, ListDir(t) PROVE BudgetInv'
  <2>1. PICK d \in scan.todo :
          scan' = [scan EXCEPT !.todo = @ \ {d},
                               !.files = [i \in DOMAIN Present(d) |-> <<d, Present(d)[i]>>]]
    BY <1>9 DEF ListDir
  <2>2. scan.files = <<>> /\ pc[t] = "scan" /\ UNCHANGED <<disk, pc>>
    BY <1>9 DEF ListDir
  <2>3. Total(Counted)' <= Total(Counted) /\ scan'.sum = scan.sum
    BY <2>1, <2>2, CountedAtList
  <2>4. Total(Counted) <= scan.sum
    BY <2>2 DEF BudgetInv
  <2>5. Total(Counted)' <= scan'.sum
    BY <1>1, <2>3, <2>4
  <2>6. A' <= M + RewriteBytes
    BY <1>5, <1>6, <2>2
  <2> QED BY <2>2, <2>5, <2>6, BudgetOfHolder DEF UnderLock
<1>10. ASSUME NEW t \in Tasks, StatFile(t) PROVE BudgetInv'
  <2>1. lock = t /\ UNCHANGED disk /\ scan.files # <<>> /\ pc[t] = "scan"
    BY <1>10, OneHolder DEF StatFile, UnderLock
  <2>2. CASE Respond(t, 500)
    BY <1>3, <2>1, <2>2, RespondEnds
  <2>3. CASE ~Respond(t, 500)
    <3>1. Head(scan.files) \in Tasks \X Files
      BY <2>1 DEF TypeInv, ScanTypes
    <3>2. PICK d \in Tasks, k \in Files : Head(scan.files) = <<d, k>>
      BY <3>1
    <3>3. scan' = [scan EXCEPT !.files = Tail(@), !.sum = @ + disk[d][k]] /\ UNCHANGED pc
      <4> DEFINE f == Head(scan.files)
                 size == disk[f[1]][f[2]]
      <4>1. scan' = [scan EXCEPT !.files = Tail(@), !.sum = @ + size] /\ UNCHANGED pc
        BY <1>10, <2>3 DEF StatFile
      <4>2. f[1] = d /\ f[2] = k
        BY <3>2
      <4>3. size = disk[d][k]
        BY <4>2
      <4> HIDE DEF size
      <4> QED BY <4>1, <4>3
    <3>4. /\ Total(Counted)' <= Total(Counted) + disk[d][k]
          /\ scan'.sum = scan.sum + disk[d][k]
      BY <2>1, <3>2, <3>3, CountedAtStat
    <3>5. Total(Counted) <= scan.sum /\ disk[d][k] \in Nat
      BY <2>1 DEF BudgetInv, TypeInv, DiskTypes
    <3>6. Total(Counted)' <= scan'.sum
      BY <1>1, <3>4, <3>5
    <3>7. A' <= M + RewriteBytes
      BY <1>5, <1>6, <2>1
    <3> QED BY <2>1, <3>3, <3>6, <3>7, BudgetOfHolder DEF UnderLock
  <2> QED BY <2>2, <2>3
<1>11. ASSUME NEW t \in Tasks, EndScan(t) PROVE BudgetInv'
  <2>1. lock = t /\ UNCHANGED disk /\ pc[t] = "scan" /\ scan.files = <<>> /\ scan.todo = {}
    BY <1>11, OneHolder DEF EndScan, UnderLock
  <2>2. CASE Respond(t, 507)
    BY <1>3, <2>1, <2>2, RespondEnds
  <2>3. CASE ~Respond(t, 507)
    <3>1. left' = M - scan.sum /\ pc'[t] = "upload"
      BY <1>11, <2>3 DEF EndScan, TypeInv, LockTypes
    <3>2. A <= scan.sum
      BY <2>1, CountedAtEnd DEF BudgetInv
    <3>3. A' = A
      BY <1>5, <2>1
    <3>4. A' + left' <= M
      BY <1>1, <3>1, <3>2, <3>3
    <3> QED BY <1>6, <3>1, <3>3, <3>4, BudgetOfHolder DEF UnderLock
  <2> QED BY <2>2, <2>3
<1>12. ASSUME NEW t \in Tasks, UploadArrives(t) PROVE BudgetInv'
  <2>1. lock = t /\ UNCHANGED disk /\ pc[t] = "upload"
    BY <1>12, OneHolder DEF UploadArrives, UnderLock
  <2>2. CASE Respond(t, 413) \/ Respond(t, 400)
    BY <1>3, <2>1, <2>2, RespondEnds
  <2>3. CASE ~(Respond(t, 413) \/ Respond(t, 400))
    <3>1. /\ upload[t].body <= requestLimit /\ pc'[t] = "save"
          /\ UNCHANGED <<upload, left>>
      BY <1>12, <2>3 DEF UploadArrives, TypeInv, LockTypes
    <3>2. upload[t].body <= left
      <4>1. upload[t].body \in Nat /\ MaxRequestBytes \in Nat
        BY UploadOf, WorkDirAssumption
      <4> QED BY <1>1, <3>1, <4>1 DEF requestLimit, Lesser
    <3>3. A' = A /\ A + left <= M
      BY <1>5, <2>1 DEF BudgetInv
    <3> QED BY <1>6, <3>1, <3>2, <3>3, BudgetOfHolder DEF UnderLock
  <2> QED BY <2>2, <2>3
<1>13. ASSUME NEW t \in Tasks, UploadTimesOut(t) PROVE BudgetInv'
  <2>1. lock = t /\ UNCHANGED disk
    BY <1>13, OneHolder DEF UploadTimesOut, uploadTimesOut, UnderLock
  <2> QED BY <1>3, <1>13, <2>1, RespondEnds DEF UploadTimesOut
\* Steps that write the archive of the holder.
<1>14. ASSUME NEW t \in Tasks, pc[t] = "save", NEW n \in 0..upload[t].zip,
              disk' = [disk EXCEPT ![t].zip = n]
       PROVE  /\ A' <= A + n /\ A + left <= M /\ n <= left /\ n \in Nat
              /\ disk'[t].zip = n
  <2>1. disk[t].zip = 0 /\ disk[t].context = 0
    BY <1>14 DEF HandlerInv, NoFiles, Files
  <2>2. /\ disk'[t].zip = n /\ disk'[t].context = disk[t].context
        /\ \A u \in Tasks \ {t} : disk'[u] = disk[u]
    BY <1>14 DEF TypeInv, DiskTypes, Files
  <2>3. n \in Nat /\ n <= upload[t].body
    BY UploadOf
  <2>4. A' <= A + n
    BY <2>1, <2>2, <2>3, ArchiveGrows
  <2>5. A + left <= M /\ upload[t].body <= left
    BY <1>14 DEF BudgetInv
  <2>6. n <= left
    BY <1>1, <2>3, <2>5, UploadOf
  <2> QED BY <2>2, <2>3, <2>4, <2>5, <2>6
<1>15. ASSUME NEW t \in Tasks, SaveUpload(t) PROVE BudgetInv'
  <2> DEFINE n == upload[t].zip
  <2>1. n \in 0..upload[t].zip
    BY UploadOf
  <2>2. /\ pc[t] = "save" /\ pc'[t] = "open" /\ UNCHANGED left
        /\ disk' = [disk EXCEPT ![t].zip = n]
    BY <1>15 DEF SaveUpload, TypeInv, LockTypes
  <2>3. /\ A' <= A + n /\ A + left <= M /\ n <= left /\ n \in Nat
        /\ disk'[t].zip = n
    BY <1>14, <2>1, <2>2
  <2> HIDE DEF n
  <2>4. A' + left <= M + n /\ A' <= M + RewriteBytes
    BY <1>1, <2>3
  <2> QED BY <2>2, <2>3, <2>4, BudgetOfHolder DEF UnderLock
<1>16. ASSUME NEW t \in Tasks, SaveFails(t) PROVE BudgetInv'
  <2>1. PICK n \in 0..upload[t].zip : disk' = [disk EXCEPT ![t].zip = n]
    BY <1>16 DEF SaveFails
  <2>2. pc[t] = "save" /\ pc'[t] = "undo"
    BY <1>16 DEF SaveFails, Undo, TypeInv, LockTypes
  <2>3. A' <= A + n /\ A + left <= M /\ n <= left /\ n \in Nat
    BY <1>14, <2>1, <2>2
  <2>4. A' <= M + RewriteBytes
    BY <1>1, <2>3
  <2> QED BY <2>2, <2>4, BudgetOfHolder DEF UnderLock
<1>17. ASSUME NEW t \in Tasks, OpenArchive(t) PROVE BudgetInv'
  <2>1. /\ pc[t] = "open" /\ pc'[t] \in {"undo", "extract"} /\ UNCHANGED disk
        /\ left' = left - disk[t].zip
    BY <1>17 DEF OpenArchive, Undo, Goto, TypeInv, LockTypes, leftAfterZip
  <2>2. A' = A /\ A + left <= M + disk[t].zip /\ disk[t].zip <= left /\ disk[t].context = 0
    BY <1>5, <2>1 DEF BudgetInv, HandlerInv
  <2>3. A' + left' <= M + disk'[t].context /\ disk'[t].context <= left'
    BY <1>1, <2>1, <2>2
  <2> QED BY <1>6, <2>1, <2>2, <2>3, BudgetOfHolder DEF UnderLock
<1>18. ASSUME NEW t \in Tasks, ExtractEntry(t) PROVE BudgetInv'
  <2> DEFINE e == upload[t].entries[at]
             limit == extractLeft(t)
             n == copyWithLimit(e.actual, limit)
  <2>1. /\ pc[t] = "extract" /\ pc'[t] \in {"extract", "undo"} /\ UNCHANGED left
        /\ \A u \in Tasks \ {t} : disk'[u] = disk[u]
    BY <1>18, ContextGrows DEF ExtractEntry, Undo, Goto, TypeInv, LockTypes
  <2>2. A + left <= M + disk[t].context /\ disk[t].context <= left
    BY <2>1 DEF BudgetInv
  <2>3. CASE UNCHANGED disk
    <3>1. A' = A
      BY <1>5, <2>3
    <3> QED BY <1>6, <2>1, <2>2, <2>3, <3>1, BudgetOfHolder DEF UnderLock
  <2>4. CASE ~UNCHANGED disk
    <3>1. ~(e.declared > limit) /\ disk' = [disk EXCEPT ![t].context = @ + n]
      BY <1>18, <2>4 DEF ExtractEntry
    <3>2. e.declared \in Nat /\ e.actual \in Nat
      <4>1. at \in DOMAIN upload[t].entries
        BY <1>18, UploadOf DEF ExtractEntry, TypeInv, RequestTypes
      <4> QED BY <4>1, UploadOf
    <3>3. limit \in Int /\ limit <= left - disk[t].context
      BY <1>1, WorkDirAssumption DEF extractLeft, Lesser
    <3> HIDE DEF e, limit
    <3>4. n \in Nat /\ n <= left - disk[t].context
      BY <1>1, <3>1, <3>2, <3>3 DEF copyWithLimit, Lesser
    <3> HIDE DEF n
    <3>5. disk'[t].zip = disk[t].zip /\ disk'[t].context = disk[t].context + n
      BY <3>1 DEF TypeInv, DiskTypes, Files
    <3>6. A' <= A + n
      <4>1. disk'[t].zip + disk'[t].context <= disk[t].zip + disk[t].context + n
        BY <1>1, <3>4, <3>5
      <4> QED BY <2>1, <3>4, <4>1, ArchiveGrows
    <3>7. /\ A' + left <= M + disk'[t].context /\ disk'[t].context <= left
          /\ A' <= M + RewriteBytes
      BY <1>1, <2>2, <3>4, <3>5, <3>6
    <3> QED BY <2>1, <3>7, BudgetOfHolder DEF UnderLock
  <2> QED BY <2>3, <2>4
<1>19. ASSUME NEW t \in Tasks, PrepareContext(t) PROVE BudgetInv'
  <2>1. /\ pc[t] = "extract" /\ pc'[t] \in {"admit", "undo"}
        /\ \A u \in Tasks \ {t} : disk'[u] = disk[u]
    BY <1>19, ContextGrows DEF PrepareContext, Undo, Goto, TypeInv, LockTypes
  <2>2. A + left <= M + disk[t].context /\ disk[t].context <= left
    BY <2>1 DEF BudgetInv
  <2>3. CASE UNCHANGED disk
    <3>1. A' = A
      BY <1>5, <2>3
    <3> QED BY <1>6, <2>1, <3>1, BudgetOfHolder DEF UnderLock
  <2>4. CASE ~UNCHANGED disk
    <3>1. PICK n \in 0..RewriteBytes : disk' = [disk EXCEPT ![t].context = @ + n]
      BY <1>19, <2>4 DEF PrepareContext
    <3>2. n \in Nat /\ n <= RewriteBytes
      BY <1>1
    <3>3. disk'[t].zip = disk[t].zip /\ disk'[t].context = disk[t].context + n
      BY <3>1 DEF TypeInv, DiskTypes, Files
    <3>4. A' <= A + n
      <4>1. disk'[t].zip + disk'[t].context <= disk[t].zip + disk[t].context + n
        BY <1>1, <3>2, <3>3
      <4> QED BY <2>1, <3>2, <4>1, ArchiveGrows
    <3>5. A' <= M + RewriteBytes
      BY <1>1, <2>2, <3>2, <3>4
    <3> QED BY <2>1, <3>5, BudgetOfHolder DEF UnderLock
  <2> QED BY <2>3, <2>4
<1>20. ASSUME NEW t \in Tasks, RejectPrepared(t) PROVE BudgetInv'
  <2>1. pc'[t] = "undo" /\ UNCHANGED disk
    BY <1>20 DEF RejectPrepared, Undo, TypeInv, LockTypes
  <2>2. A' = A
    BY <1>5, <2>1
  <2> QED BY <1>6, <2>1, <2>2, BudgetOfHolder DEF UnderLock
<1>21. ASSUME NEW t \in Tasks, RemoveRefused(t) PROVE BudgetInv'
  <2>1. lock = t
    BY <1>21, OneHolder DEF RemoveRefused, UnderLock
  <2>2. \A u \in Tasks : pc'[u] \in Idle
    BY <1>21, <2>1, RespondEnds DEF RemoveRefused
  <2>3. /\ disk'[t].zip \in {0, disk[t].zip} /\ disk'[t].context \in {0, disk[t].context}
        /\ \A u \in Tasks \ {t} : disk'[u] = disk[u]
    BY <1>21, RefusedFiles DEF Files
  <2>4. \A u \in Tasks : disk'[u].zip <= disk[u].zip /\ disk'[u].context <= disk[u].context
    BY <1>1, <1>2, <2>3
  <2> QED BY <2>2, <2>4, BudgetKept
<1>22. ASSUME NEW t \in Tasks, Admit(t) PROVE BudgetInv'
  <2>1. lock = t /\ UNCHANGED disk
    BY <1>22, OneHolder DEF Admit, UnderLock
  <2> QED BY <1>3, <1>22, <2>1, RespondEnds DEF Admit
\* Builds and the reaper.
<1>23. ASSUME NEW t \in Tasks, StartRun(t) \/ EndRun(t) \/ Cancel(t) \/ Expire(t) \/ EndRemove(t)
       PROVE  BudgetInv'
  <2>1. UNCHANGED <<handlerVars, disk>>
    BY <1>23 DEF StartRun, EndRun, Cancel, Expire, EndRemove
  <2> QED BY <1>4, <2>1 DEF handlerVars
<1>24. ASSUME NEW t \in Tasks, WriteLog(t) \/ ConvertToNydus(t) PROVE BudgetInv'
  <2>1. UNCHANGED handlerVars
    BY <1>24 DEF WriteLog, ConvertToNydus
  <2>2. \E k \in {"log", "nydus"} : \E n : disk' = [disk EXCEPT ![t][k] = n]
    BY <1>24 DEF WriteLog, ConvertToNydus
  <2>3. \A u \in Tasks : disk'[u].zip = disk[u].zip /\ disk'[u].context = disk[u].context
    BY <2>2 DEF TypeInv, DiskTypes, Files
  <2> QED BY <1>4, <2>1, <2>3 DEF handlerVars
<1>25. ASSUME NEW t \in Tasks, RemoveFile(t) PROVE BudgetInv'
  <2>1. UNCHANGED handlerVars /\ pc[t] = "done"
    BY <1>25 DEF RemoveFile, HandlerInv
  <2>2. /\ \A u \in Tasks \ {t} : disk'[u] = disk[u]
        /\ \A k \in Files : disk'[t][k] \in {0, disk[t][k]}
    BY <1>25 DEF RemoveFile, TypeInv, DiskTypes
  <2>3. \A u \in Tasks : disk'[u].zip <= disk[u].zip /\ disk'[u].context <= disk[u].context
    BY <1>1, <1>2, <2>2 DEF Files
  <2> QED BY <2>1, <2>2, <2>3, BudgetKept DEF handlerVars, Idle
<1>26. ASSUME Restart PROVE BudgetInv'
  <2>1. UNCHANGED disk /\ \A u \in Tasks : pc'[u] \in Idle
    BY <1>26 DEF Restart, Idle
  <2> QED BY <1>3, <2>1
<1>27. CASE UNCHANGED vars
  <2>1. UNCHANGED <<pc, upload, scan, left, disk>>
    BY <1>27 DEF vars, handlerVars
  <2> QED BY <1>4, <2>1
<1>28. ASSUME NEW t \in Tasks, MkdirFails(t) PROVE BudgetInv'
  <2>1. lock = t /\ UNCHANGED disk
    BY <1>28, OneHolder DEF MkdirFails, UnderLock
  <2> QED BY <1>3, <1>28, <2>1, RespondEnds DEF MkdirFails
<1> QED
  BY <1>7, <1>8, <1>9, <1>10, <1>11, <1>12, <1>13, <1>15, <1>16, <1>17, <1>18, <1>19, <1>20,
    <1>21, <1>22, <1>23, <1>24, <1>25, <1>26, <1>27, <1>28
  DEF Next, Handle

-----------------------------------------------------------------------------
(* The charges.                                                            *)

\* Entry by entry, an archive takes what its entries take.
LEMMA UnpackedEntry ==
    ASSUME TypeInv, NEW t \in Tasks, NEW n \in DOMAIN upload[t].entries
    PROVE  /\ UnpackedBefore(upload[t], n) \in Nat
           /\ Unpacked(upload[t]) \in Nat
           /\ EntrySize(upload[t].entries[n]) \in Nat
           /\ UnpackedBefore(upload[t], n + 1) \in Nat
           /\ UnpackedBefore(upload[t], n) + EntrySize(upload[t].entries[n])
                 <= UnpackedBefore(upload[t], n + 1)
           /\ UnpackedBefore(upload[t], n) + EntrySize(upload[t].entries[n])
                 <= Unpacked(upload[t])
<1> DEFINE E == upload[t].entries
           D == DOMAIN E
           f == [i \in D |-> IF i < n THEN EntrySize(E[i]) ELSE 0]
           g == [i \in D |-> IF i < n + 1 THEN EntrySize(E[i]) ELSE 0]
           h == [i \in D |-> EntrySize(E[i])]
<1>1. Len(E) \in Nat /\ D = 1..Len(E)
  BY UploadOf
<1>2. IsFiniteSet(D) /\ n \in D /\ n \in Nat /\ \A i \in D : i \in Nat
  <2>1. IsFiniteSet(D)
    BY <1>1, FS_Interval
  <2>2. n \in D /\ n \in Nat /\ \A i \in D : i \in Nat
    BY <1>1
  <2> QED BY <2>1, <2>2
<1>3. \A i \in D : EntrySize(E[i]) \in Nat
  BY UploadOf DEF EntrySize
<1>4. f \in [D -> Nat] /\ g \in [D -> Nat] /\ h \in [D -> Nat]
  BY <1>3
<1>5. Total(f) \in Nat /\ Total(g) \in Nat /\ Total(h) \in Nat
  <2> HIDE DEF f, g, h, D
  <2> QED BY <1>2, <1>4, TotalIsNumber
<1>6. /\ f[n] + EntrySize(E[n]) <= g[n] /\ f[n] + EntrySize(E[n]) <= h[n]
      /\ \A i \in D \ {n} : f[i] <= g[i] /\ f[i] <= h[i]
  BY <1>2, <1>3
<1>7. Total(f) + EntrySize(E[n]) <= Total(g) /\ Total(f) + EntrySize(E[n]) <= Total(h)
  <2>1. EntrySize(E[n]) \in Nat
    BY <1>2, <1>3
  <2> DEFINE c == EntrySize(E[n])
  <2>2. c \in Nat /\ f[n] + c <= g[n] /\ f[n] + c <= h[n]
    BY <1>6, <2>1
  <2> HIDE DEF f, g, h, D, c
  <2>3. Total(f) + c <= Total(g)
    BY <1>2, <1>4, <1>6, <2>2, TotalAtLeast
  <2>4. Total(f) + c <= Total(h)
    BY <1>2, <1>4, <1>6, <2>2, TotalAtLeast
  <2> QED BY <2>3, <2>4 DEF c
<1>8. /\ UnpackedBefore(upload[t], n) = Total(f) /\ UnpackedBefore(upload[t], n + 1) = Total(g)
      /\ Unpacked(upload[t]) = Total(h)
  BY DEF UnpackedBefore, Unpacked
<1> QED BY <1>2, <1>3, <1>5, <1>7, <1>8

\* ... and it takes no less than nothing.
LEMMA UnpackedIsNumber ==
    ASSUME TypeInv, NEW t \in Tasks, NEW n \in Nat
    PROVE  UnpackedBefore(upload[t], n) \in Nat /\ Unpacked(upload[t]) \in Nat
<1> DEFINE E == upload[t].entries
           D == DOMAIN E
           f == [i \in D |-> IF i < n THEN EntrySize(E[i]) ELSE 0]
           h == [i \in D |-> EntrySize(E[i])]
<1>1. Len(E) \in Nat /\ D = 1..Len(E)
  BY UploadOf
<1>2. IsFiniteSet(D)
  BY <1>1, FS_Interval
<1>3. \A i \in D : EntrySize(E[i]) \in Nat
  BY UploadOf DEF EntrySize
<1>4. f \in [D -> Nat] /\ h \in [D -> Nat]
  BY <1>3
<1>5. Total(f) \in Nat /\ Total(h) \in Nat
  <2> HIDE DEF f, h, D
  <2> QED BY <1>2, <1>4, TotalIsNumber
<1> QED BY <1>5 DEF UnpackedBefore, Unpacked

\* A step after which the holder of the lock has nothing left to account for,
\* or is where it was.
LEMMA ChargeKept ==
    ASSUME ChargeInv,
           \A u \in Tasks :
              \/ pc'[u] \notin {"upload", "save", "open", "extract"}
              \/ /\ pc'[u] = pc[u] /\ upload'[u] = upload[u]
                 /\ UNCHANGED <<left, at, measured>>
                 /\ disk'[u].zip = disk[u].zip /\ disk'[u].context = disk[u].context
    PROVE  ChargeInv'
<1> SUFFICES ASSUME NEW u \in Tasks
             PROVE  (/\ pc[u] \in {"upload", "save", "open"} => measured + left = MaxWorkDirBytes
                     /\ pc[u] = "open" => disk[u].zip = upload[u].zip
                     /\ pc[u] = "extract" =>
                          /\ measured + upload[u].zip + left = MaxWorkDirBytes
                          /\ disk[u].context <= UnpackedBefore(upload[u], at))'
  BY DEF ChargeInv
<1>1. CASE pc'[u] \notin {"upload", "save", "open", "extract"}
  BY <1>1
<1>2. CASE /\ pc'[u] = pc[u] /\ upload'[u] = upload[u]
           /\ UNCHANGED <<left, at, measured>>
           /\ disk'[u].zip = disk[u].zip /\ disk'[u].context = disk[u].context
  BY <1>2 DEF ChargeInv
<1> QED BY <1>1, <1>2

\* A step of the holder of the lock: the others have no charges.
LEMMA ChargeOfHolder ==
    ASSUME TypeInv', NEW t \in Tasks, pc'[t] \in UnderLock,
           (/\ pc[t] \in {"upload", "save", "open"} => measured + left = MaxWorkDirBytes
            /\ pc[t] = "open" => disk[t].zip = upload[t].zip
            /\ pc[t] = "extract" =>
                 /\ measured + upload[t].zip + left = MaxWorkDirBytes
                 /\ disk[t].context <= UnpackedBefore(upload[t], at))'
    PROVE  ChargeInv'
<1>1. \A u \in Tasks \ {t} : pc'[u] \in Idle
  BY DEF TypeInv, LockTypes, Idle, UnderLock
<1> QED BY <1>1 DEF ChargeInv, Idle

LEMMA ChargeInit == Init => ChargeInv
BY DEF Init, ChargeInv

\* The zip is charged once, and each entry once.
LEMMA ChargeStep ==
    TypeInv /\ TypeInv' /\ HandlerInv /\ ChargeInv /\ [Next]_vars => ChargeInv'
<1> SUFFICES ASSUME TypeInv, TypeInv', HandlerInv, ChargeInv, [Next]_vars PROVE ChargeInv'
  OBVIOUS
<1>1. ASSUME \A u \in Tasks : pc'[u] \in Idle PROVE ChargeInv'
  BY <1>1, ChargeKept DEF Idle
<1>2. ASSUME NEW t \in Tasks, Arrive(t) PROVE ChargeInv'
  <2>1. /\ UNCHANGED <<left, at, measured, disk>>
        /\ pc'[t] = "wait"
        /\ \A u \in Tasks \ {t} : pc'[u] = pc[u] /\ upload'[u] = upload[u]
    BY <1>2 DEF Arrive, TypeInv, LockTypes, RequestTypes
  <2> QED BY <2>1, ChargeKept
<1>3. ASSUME NEW t \in Tasks, Lock(t) PROVE ChargeInv'
  <2>1. CASE Respond(t, 429)
    BY <1>1, <1>3, <2>1, RespondEnds DEF Lock, mayLock
  <2>2. CASE ~Respond(t, 429)
    <3>1. pc'[t] = "scan"
      BY <1>3, <2>2 DEF Lock, TypeInv, LockTypes
    <3> QED BY <3>1, ChargeOfHolder DEF UnderLock
  <2> QED BY <2>1, <2>2
<1>4. ASSUME NEW t \in Tasks, ListDir(t) PROVE ChargeInv'
  <2>1. pc'[t] = "scan"
    BY <1>4 DEF ListDir
  <2> QED BY <2>1, ChargeOfHolder DEF UnderLock
<1>5. ASSUME NEW t \in Tasks, StatFile(t) PROVE ChargeInv'
  <2>1. CASE Respond(t, 500)
    BY <1>1, <1>5, <2>1, RespondEnds, OneHolder DEF StatFile, UnderLock
  <2>2. CASE ~Respond(t, 500)
    <3>1. pc'[t] = "scan"
      BY <1>5, <2>2 DEF StatFile
    <3> QED BY <3>1, ChargeOfHolder DEF UnderLock
  <2> QED BY <2>1, <2>2
<1>6. ASSUME NEW t \in Tasks, EndScan(t) PROVE ChargeInv'
  <2>1. CASE Respond(t, 507)
    BY <1>1, <1>6, <2>1, RespondEnds, OneHolder DEF EndScan, UnderLock
  <2>2. CASE ~Respond(t, 507)
    <3>1. pc'[t] = "upload" /\ left' = MaxWorkDirBytes - scan.sum /\ measured' = scan.sum
      BY <1>6, <2>2 DEF EndScan, TypeInv, LockTypes
    <3>2. measured' + left' = MaxWorkDirBytes
      BY <3>1, WorkDirAssumption DEF TypeInv, ScanTypes
    <3> QED BY <3>1, <3>2, ChargeOfHolder DEF UnderLock
  <2> QED BY <2>1, <2>2
<1>7. ASSUME NEW t \in Tasks, UploadArrives(t) PROVE ChargeInv'
  <2>1. CASE Respond(t, 413) \/ Respond(t, 400)
    BY <1>1, <1>7, <2>1, RespondEnds, OneHolder DEF UploadArrives, UnderLock
  <2>2. CASE ~(Respond(t, 413) \/ Respond(t, 400))
    <3>1. pc[t] = "upload" /\ pc'[t] = "save" /\ UNCHANGED <<left, measured>>
      BY <1>7, <2>2 DEF UploadArrives, TypeInv, LockTypes
    <3> QED BY <3>1, ChargeOfHolder DEF UnderLock, ChargeInv
  <2> QED BY <2>1, <2>2
<1>8. ASSUME NEW t \in Tasks, UploadTimesOut(t) PROVE ChargeInv'
  BY <1>1, <1>8, RespondEnds, OneHolder DEF UploadTimesOut, uploadTimesOut, UnderLock
<1>9. ASSUME NEW t \in Tasks, SaveUpload(t) PROVE ChargeInv'
  <2>1. /\ pc[t] = "save" /\ pc'[t] = "open" /\ UNCHANGED <<left, measured, upload>>
        /\ disk'[t].zip = upload[t].zip
    BY <1>9 DEF SaveUpload, TypeInv, LockTypes, DiskTypes, Files
  <2> QED BY <2>1, ChargeOfHolder DEF UnderLock, ChargeInv
<1>10. ASSUME NEW t \in Tasks, SaveFails(t) \/ RejectPrepared(t) \/ PrepareContext(t)
       PROVE  ChargeInv'
  <2>1. pc'[t] \in {"admit", "undo"}
    BY <1>10 DEF SaveFails, RejectPrepared, PrepareContext, Undo, Goto, TypeInv, LockTypes
  <2> QED BY <2>1, ChargeOfHolder DEF UnderLock
<1>11. ASSUME NEW t \in Tasks, OpenArchive(t) PROVE ChargeInv'
  <2>1. /\ pc[t] = "open" /\ pc'[t] \in {"undo", "extract"} /\ left' = left - disk[t].zip
        /\ at' = 1 /\ UNCHANGED <<upload, disk, measured>>
    BY <1>11 DEF OpenArchive, Undo, Goto, leftAfterZip, TypeInv, LockTypes
  <2>2. /\ measured + left = MaxWorkDirBytes /\ disk[t].zip = upload[t].zip
        /\ disk[t].context = 0
    BY <2>1 DEF ChargeInv, HandlerInv
  <2>3. measured' + upload'[t].zip + left' = MaxWorkDirBytes
    <3>1. upload[t].zip \in Nat /\ left \in Int /\ measured \in Nat
      BY UploadOf DEF TypeInv, RequestTypes
    <3> QED BY <2>1, <2>2, <3>1
  <2>4. disk'[t].context <= UnpackedBefore(upload'[t], at')
    <3>1. UnpackedBefore(upload[t], 1) \in Nat
      BY UnpackedIsNumber
    <3> QED BY <2>1, <2>2, <3>1
  <2> QED BY <2>1, <2>3, <2>4, ChargeOfHolder DEF UnderLock
<1>12. ASSUME NEW t \in Tasks, ExtractEntry(t) PROVE ChargeInv'
  <2> DEFINE e == upload[t].entries[at]
             limit == extractLeft(t)
  <2>1. pc[t] = "extract" /\ UNCHANGED <<left, measured, upload>>
    BY <1>12 DEF ExtractEntry
  <2>2. CASE pc'[t] = "undo"
    BY <2>2, ChargeOfHolder DEF UnderLock
  <2>3. CASE pc'[t] # "undo"
    <3>1. /\ e.actual = e.declared /\ ~(e.actual > limit) /\ ~(e.declared > limit)
          /\ disk' = [disk EXCEPT ![t].context = @ + copyWithLimit(e.actual, limit)]
          /\ at' = at + 1 /\ pc'[t] = "extract"
      BY <1>12, <2>3 DEF ExtractEntry, Undo, Goto, TypeInv, LockTypes
    <3>2. at \in DOMAIN upload[t].entries
      BY <1>12, UploadOf DEF ExtractEntry, TypeInv, RequestTypes
    <3>3. e.declared \in Nat /\ e.actual \in Nat
      BY <3>2, UploadOf
    <3>4. limit \in Int
      BY WorkDirAssumption DEF extractLeft, Lesser, TypeInv, RequestTypes, DiskTypes, Files
    <3>5. copyWithLimit(e.actual, limit) = e.actual /\ EntrySize(e) = e.actual
      <4> HIDE DEF limit, e
      <4> QED BY <3>1, <3>3, <3>4 DEF copyWithLimit, Lesser, EntrySize
    <3>6. disk'[t].context = disk[t].context + e.actual
      <4> HIDE DEF limit, e
      <4> QED BY <3>1, <3>5 DEF TypeInv, DiskTypes, Files
    <3>7. disk'[t].context <= UnpackedBefore(upload[t], at + 1)
      <4>1. disk[t].context <= UnpackedBefore(upload[t], at) /\ disk[t].context \in Nat
        BY <2>1 DEF ChargeInv, TypeInv, DiskTypes, Files
      <4>2. /\ UnpackedBefore(upload[t], at) \in Nat /\ UnpackedBefore(upload[t], at + 1) \in Nat
            /\ UnpackedBefore(upload[t], at) + EntrySize(e) <= UnpackedBefore(upload[t], at + 1)
        BY <3>2, UnpackedEntry
      <4>3. \A a, b, c, d \in Nat : a <= b /\ b + c <= d => a + c <= d
        OBVIOUS
      <4> HIDE DEF limit, e
      <4> QED BY <3>3, <3>5, <3>6, <4>1, <4>2, <4>3
    <3>8. measured + upload[t].zip + left = MaxWorkDirBytes
      BY <2>1 DEF ChargeInv
    <3> QED BY <2>1, <3>1, <3>7, <3>8, ChargeOfHolder DEF UnderLock
  <2> QED BY <2>2, <2>3
<1>13. ASSUME NEW t \in Tasks, RemoveRefused(t) PROVE ChargeInv'
  BY <1>1, <1>13, RespondEnds, OneHolder DEF RemoveRefused, UnderLock
<1>14. ASSUME NEW t \in Tasks, Admit(t) PROVE ChargeInv'
  BY <1>1, <1>14, RespondEnds, OneHolder DEF Admit, UnderLock
<1>15. ASSUME NEW t \in Tasks, StartRun(t) \/ EndRun(t) \/ Cancel(t) \/ Expire(t) \/ EndRemove(t)
       PROVE  ChargeInv'
  <2>1. UNCHANGED <<handlerVars, disk>>
    BY <1>15 DEF StartRun, EndRun, Cancel, Expire, EndRemove
  <2> QED BY <2>1, ChargeKept DEF handlerVars
<1>16. ASSUME NEW t \in Tasks, WriteLog(t) \/ ConvertToNydus(t) \/ RemoveFile(t)
       PROVE  ChargeInv'
  <2>1. UNCHANGED handlerVars /\ pc[t] = "done"
    BY <1>16 DEF WriteLog, ConvertToNydus, RemoveFile, HandlerInv, Running
  <2>2. \A u \in Tasks \ {t} : disk'[u] = disk[u]
    BY <1>16 DEF WriteLog, ConvertToNydus, RemoveFile, TypeInv, DiskTypes
  <2> QED BY <2>1, <2>2, ChargeKept DEF handlerVars
<1>17. ASSUME Restart PROVE ChargeInv'
  BY <1>1, <1>17 DEF Restart, Idle
<1>18. CASE UNCHANGED vars
  BY <1>18, ChargeKept DEF vars, handlerVars
<1>19. ASSUME NEW t \in Tasks, MkdirFails(t) PROVE ChargeInv'
  BY <1>1, <1>19, RespondEnds, OneHolder DEF MkdirFails, UnderLock
<1> QED
  BY <1>2, <1>3, <1>4, <1>5, <1>6, <1>7, <1>8, <1>9, <1>10, <1>11, <1>12, <1>13, <1>14, <1>15,
    <1>16, <1>17, <1>18, <1>19
  DEF Next, Handle

-----------------------------------------------------------------------------
(* The theorems.                                                           *)

\* What the sum of RefusalIsJustified is.
Measured(t) == IF pc[t] = "scan" THEN scan.sum ELSE measured

Justified ==
    \A t \in Tasks : answer[t] = 0 /\ answer'[t] \in {413, 507} =>
        ExceedsLimit(upload[t], IF pc[t] = "scan" THEN scan.sum ELSE measured)

\* An answer about a size.
LEMMA JustifiedAnswer ==
    ASSUME TypeInv, NEW t \in Tasks, NEW s, Respond(t, s) \/ Undo(t, s),
           ExceedsLimit(upload[t], Measured(t))
    PROVE  Justified
<1>1. \A u \in Tasks \ {t} : answer'[u] = answer[u]
  BY DEF Respond, Undo, TypeInv, RequestTypes
<1> QED BY <1>1 DEF Justified, Measured

\* An answer that is not about a size.
LEMMA OtherAnswer ==
    ASSUME TypeInv, NEW t \in Tasks, NEW s \in {202, 400, 429, 500, 503},
           Respond(t, s) \/ Undo(t, s)
    PROVE  Justified
<1>1. answer' = [answer EXCEPT ![t] = s] /\ s \notin {413, 507}
  BY DEF Respond, Undo
<1>2. answer'[t] = s /\ \A u \in Tasks \ {t} : answer'[u] = answer[u]
  BY <1>1 DEF TypeInv, RequestTypes
<1> QED BY <1>1, <1>2 DEF Justified

\* Every test of a limit compares with what is really taken.
LEMMA RefusalStep == TypeInv /\ BudgetInv /\ ChargeInv /\ [Next]_vars => [Justified]_vars
<1> SUFFICES ASSUME TypeInv, BudgetInv, ChargeInv, Next PROVE Justified
  OBVIOUS
<1>1. ASSUME UNCHANGED answer PROVE Justified
  BY <1>1 DEF Justified
<1>2. /\ MaxWorkDirBytes \in Nat /\ MaxRequestBytes \in Nat /\ MaxExtractedBytes \in Nat
      /\ left \in Int /\ measured \in Nat /\ scan.sum \in Nat
  <2>1. MaxWorkDirBytes \in Nat /\ MaxRequestBytes \in Nat /\ MaxExtractedBytes \in Nat
    BY WorkDirAssumption
  <2> QED BY <2>1 DEF TypeInv, RequestTypes, ScanTypes
<1>3. ASSUME NEW t \in Tasks, Lock(t) PROVE Justified
  <2>1. CASE Respond(t, 429)
    BY <2>1, OtherAnswer
  <2>2. CASE ~Respond(t, 429)
    BY <1>1, <1>3, <2>2 DEF Lock
  <2> QED BY <2>1, <2>2
<1>4. ASSUME NEW t \in Tasks, StatFile(t) PROVE Justified
  <2>1. CASE Respond(t, 500)
    BY <2>1, OtherAnswer
  <2>2. CASE ~Respond(t, 500)
    BY <1>1, <1>4, <2>2 DEF StatFile
  <2> QED BY <2>1, <2>2
<1>5. ASSUME NEW t \in Tasks, EndScan(t) PROVE Justified
  <2>1. CASE scan.sum >= MaxWorkDirBytes
    <3>1. pc[t] = "scan" /\ Respond(t, 507)
      BY <1>5, <2>1 DEF EndScan
    <3>2. scan.sum + upload[t].body >= MaxWorkDirBytes
      BY <1>2, <2>1, UploadOf
    <3>3. ExceedsLimit(upload[t], Measured(t))
      BY <3>1, <3>2 DEF ExceedsLimit, Measured
    <3> QED BY <3>1, <3>3, JustifiedAnswer
  <2>2. CASE ~(scan.sum >= MaxWorkDirBytes)
    BY <1>1, <1>5, <2>2 DEF EndScan
  <2> QED BY <2>1, <2>2
<1>6. ASSUME NEW t \in Tasks, UploadArrives(t) PROVE Justified
  <2>1. CASE upload[t].body > requestLimit /\ Respond(t, 413)
    <3>1. pc[t] = "upload" /\ measured + left = MaxWorkDirBytes /\ upload[t].body \in Nat
      BY <1>6, UploadOf DEF UploadArrives, ChargeInv
    <3>2. \/ upload[t].body > MaxRequestBytes
          \/ measured + upload[t].body >= MaxWorkDirBytes
      BY <1>2, <2>1, <3>1 DEF requestLimit, Lesser
    <3>3. ExceedsLimit(upload[t], Measured(t))
      BY <3>1, <3>2 DEF ExceedsLimit, Measured
    <3> QED BY <2>1, <3>3, JustifiedAnswer
  <2>2. CASE Respond(t, 400)
    BY <2>2, OtherAnswer
  <2>3. CASE UNCHANGED answer
    BY <1>1, <2>3
  <2> QED BY <1>6, <2>1, <2>2, <2>3 DEF UploadArrives
<1>7. ASSUME NEW t \in Tasks, UploadTimesOut(t) PROVE Justified
  BY <1>7, OtherAnswer DEF UploadTimesOut
<1>8. ASSUME NEW t \in Tasks, SaveFails(t) PROVE Justified
  BY <1>8, OtherAnswer DEF SaveFails
<1>9. ASSUME NEW t \in Tasks, OpenArchive(t) PROVE Justified
  <2>1. /\ pc[t] = "open" /\ measured + left = MaxWorkDirBytes
        /\ disk[t].zip = upload[t].zip /\ left' = left - upload[t].zip
    BY <1>9 DEF OpenArchive, leftAfterZip, ChargeInv
  <2>2. upload[t].zip \in Nat /\ upload[t].body \in Nat /\ upload[t].zip <= upload[t].body
    BY UploadOf
  <2>3. CASE left' <= 0 /\ Undo(t, 507)
    <3>1. measured + upload[t].body >= MaxWorkDirBytes
      BY <1>2, <2>1, <2>2, <2>3
    <3>2. ExceedsLimit(upload[t], Measured(t))
      BY <2>1, <3>1 DEF ExceedsLimit, Measured
    <3> QED BY <2>3, <3>2, JustifiedAnswer
  <2>4. CASE Undo(t, 400)
    BY <2>4, OtherAnswer
  <2>5. CASE Len(upload[t].entries) > MaxArchiveFiles /\ Undo(t, 413)
    BY <2>5, JustifiedAnswer DEF ExceedsLimit
  <2>6. CASE UNCHANGED answer
    BY <1>1, <2>6
  <2> QED BY <1>9, <2>3, <2>4, <2>5, <2>6 DEF OpenArchive, Goto
<1>10. ASSUME NEW t \in Tasks, ExtractEntry(t) PROVE Justified
  <2> DEFINE e == upload[t].entries[at]
             limit == extractLeft(t)
             U == Unpacked(upload[t])
  <2>1. CASE e.declared > limit \/ e.actual > limit
    <3>1. /\ pc[t] = "extract" /\ measured + upload[t].zip + left = MaxWorkDirBytes
          /\ disk[t].context <= UnpackedBefore(upload[t], at)
      BY <1>10 DEF ExtractEntry, ChargeInv
    <3>2. at \in DOMAIN upload[t].entries
      BY <1>10, UploadOf DEF ExtractEntry, TypeInv, RequestTypes
    <3>3. /\ e.declared \in Nat /\ e.actual \in Nat /\ upload[t].zip \in Nat
          /\ disk[t].context \in Nat
      BY <3>2, UploadOf DEF TypeInv, DiskTypes, Files
    <3>4. /\ U \in Nat /\ UnpackedBefore(upload[t], at) \in Nat
          /\ UnpackedBefore(upload[t], at) + EntrySize(e) <= U
      BY <3>2, UnpackedEntry
    <3>5. EntrySize(e) \in Nat /\ EntrySize(e) > limit
      <4>1. limit \in Int
        BY <1>2, <3>3 DEF extractLeft, Lesser
      <4> HIDE DEF limit, e
      <4> QED BY <2>1, <3>3, <4>1 DEF EntrySize
    <3>6. limit = Lesser(MaxExtractedBytes, left) - disk[t].context
      BY DEF extractLeft
    <3> HIDE DEF e, limit, U
    <3>7. U > Lesser(MaxExtractedBytes, left)
      <4>1. Lesser(MaxExtractedBytes, left) \in Int
        BY <1>2 DEF Lesser
      <4>2. \A c, b, s, x \in Nat, l \in Int : c <= b /\ b + s <= x /\ s > l - c => x > l
        OBVIOUS
      <4> QED BY <3>1, <3>3, <3>4, <3>5, <3>6, <4>1, <4>2
    <3>8. U > MaxExtractedBytes \/ measured + upload[t].zip + U > MaxWorkDirBytes
      BY <1>2, <3>1, <3>3, <3>4, <3>7 DEF Lesser
    <3>9. ExceedsLimit(upload[t], Measured(t))
      BY <3>1, <3>8 DEF ExceedsLimit, Measured, U
    <3>10. \E s : Undo(t, s)
      BY <1>10, <2>1 DEF ExtractEntry, e, limit
    <3> QED BY <3>9, <3>10, JustifiedAnswer
  <2>2. CASE ~(e.declared > limit) /\ ~(e.actual > limit)
    <3>1. Undo(t, 400) \/ UNCHANGED answer
      BY <1>10, <2>2 DEF ExtractEntry, Goto
    <3> QED BY <1>1, <3>1, OtherAnswer
  <2> QED BY <2>1, <2>2
<1>11. ASSUME NEW t \in Tasks, PrepareContext(t) PROVE Justified
  <2>1. Undo(t, 400) \/ UNCHANGED answer
    BY <1>11 DEF PrepareContext, Goto
  <2> QED BY <1>1, <2>1, OtherAnswer
<1>12. ASSUME NEW t \in Tasks, RejectPrepared(t) PROVE Justified
  BY <1>12, OtherAnswer DEF RejectPrepared
<1>13. ASSUME NEW t \in Tasks, RemoveRefused(t) PROVE Justified
  <2>1. answer' = [answer EXCEPT ![t] = answer[t]]
    BY <1>13 DEF RemoveRefused, Respond
  <2> QED BY <1>1, <2>1 DEF TypeInv, RequestTypes
<1>14. ASSUME NEW t \in Tasks, Admit(t) PROVE Justified
  BY <1>14, OtherAnswer DEF Admit
<1>15. ASSUME NEW t \in Tasks, Arrive(t) \/ ListDir(t) \/ SaveUpload(t) \/ StartRun(t)
                \/ WriteLog(t) \/ ConvertToNydus(t) \/ EndRun(t) \/ Cancel(t) \/ Expire(t)
                \/ RemoveFile(t) \/ EndRemove(t)
       PROVE  Justified
  <2>1. UNCHANGED answer
    BY <1>15 DEF Arrive, ListDir, SaveUpload, StartRun, WriteLog, ConvertToNydus, EndRun,
      Cancel, Expire, RemoveFile, EndRemove, handlerVars
  <2> QED BY <1>1, <2>1
<1>16. ASSUME Restart PROVE Justified
  BY <1>1, <1>16 DEF Restart
<1>17. ASSUME NEW t \in Tasks, MkdirFails(t) PROVE Justified
  BY <1>17, OtherAnswer DEF MkdirFails
<1> QED
  BY <1>3, <1>4, <1>5, <1>6, <1>7, <1>8, <1>9, <1>10, <1>11, <1>12, <1>13,
    <1>14, <1>15, <1>16, <1>17
  DEF Next, Handle

WorkDirInv ==
    TypeInv /\ HandlerInv /\ DirInv /\ BareInv /\ OtherInv /\ BudgetInv /\ ChargeInv

\* The parts together are inductive.
LEMMA WorkDirInductive ==
    /\ Init => WorkDirInv
    /\ WorkDirInv /\ [Next]_vars => WorkDirInv'
<1>1. Init => WorkDirInv
  BY TypeInit, HandlerInit, DirInit, BareInit, OtherInit, BudgetInit, ChargeInit DEF WorkDirInv
<1>2. WorkDirInv /\ [Next]_vars => WorkDirInv'
  BY TypeStep, HandlerStep, DirStep, BareStep, OtherStep, BudgetStep, ChargeStep DEF WorkDirInv
<1> QED BY <1>1, <1>2

\* However the walk, the builds and the reaper interleave, archives take no
\* more than the budget and one rewritten Dockerfile; logs and Nydus contexts
\* exceed it by no more than their limits.
THEOREM BudgetHolds == Spec => []WorkDirBounded
<1>1. WorkDirInv => WorkDirBounded
  <2> SUFFICES ASSUME WorkDirInv PROVE WorkDirBounded OBVIOUS
  <2> DEFINE c == MaxLogBytes + NydusBytes
  <2>1. TypeInv /\ DirInv /\ OtherInv /\ BudgetInv
    BY DEF WorkDirInv
  <2>2. c \in Nat /\ MaxLogBytes \in Nat /\ NydusBytes \in Nat
    BY WorkDirAssumption
  <2>3. \A t \in Tasks : /\ disk[t].log \in Nat /\ disk[t].nydus \in Nat /\ logLeft[t] \in Nat
    BY <2>1 DEF TypeInv, DiskTypes, TaskTypes, Files
  <2>4. \A t \in Tasks : OtherSize[t] <= c
    BY <2>1, <2>2, <2>3 DEF OtherInv, OtherSize
  <2>5. \A t \in Tasks \ dirs : OtherSize[t] = 0
    <3>1. \A t \in Tasks \ dirs : ~(disk[t].log > 0) /\ ~(disk[t].nydus > 0)
      BY <2>1 DEF DirInv, Files
    <3> QED BY <2>3, <3>1 DEF OtherSize
  <2>6. /\ OtherSize \in [Tasks -> Nat] /\ OtherBytes \in Nat /\ ArchiveBytes \in Nat
        /\ dirs \in SUBSET Tasks
    BY <2>1, SizesAreNumbers DEF TypeInv, DiskTypes
  <2> HIDE DEF c
  <2>7. OtherBytes <= Cardinality(dirs) * c
    BY <2>2, <2>4, <2>5, <2>6, TotalBound, WorkDirAssumption DEF OtherBytes
  <2>8. Cardinality(dirs) * c \in Nat
    <3>1. IsFiniteSet(dirs)
      BY <2>6, FS_Subset, WorkDirAssumption
    <3>2. Cardinality(dirs) \in Nat
      BY <3>1, FS_CardinalityType
    <3>3. \A m, n \in Nat : m * n \in Nat
      OBVIOUS
    <3> QED BY <2>2, <3>2, <3>3
  <2>9. ArchiveBytes <= MaxWorkDirBytes + RewriteBytes
    BY <2>1 DEF BudgetInv
  <2>10. ArchiveBytes + OtherBytes
           <= MaxWorkDirBytes + RewriteBytes + Cardinality(dirs) * c
    <3>1. \A a, o, m, b \in Nat : a <= m /\ o <= b => a + o <= m + b
      OBVIOUS
    <3>2. MaxWorkDirBytes + RewriteBytes \in Nat
      BY WorkDirAssumption
    <3> QED BY <2>6, <2>7, <2>8, <2>9, <3>1, <3>2
  <2> QED BY <2>9, <2>10 DEF WorkDirBounded, c
<1> QED BY <1>1, WorkDirInductive, PTL DEF Spec

\* While no request is being admitted, every directory has an owner, but for what
\* a build that writes late, a crash, or a MkdirAll that failed halfway has
\* left (build_request.go:101); the last is empty for ever, and the request was
\* answered with 500. Every variable keeps its type.
THEOREM DirectoriesOwned == Spec => []NoStrayDirectory
<1>1. WorkDirInv => NoStrayDirectory
  <2> SUFFICES ASSUME WorkDirInv PROVE NoStrayDirectory OBVIOUS
  <2>1. TypeInv /\ DirInv /\ TypeOK
    BY TypeParts DEF WorkDirInv
  <2>2. ASSUME lock = NoTask, NEW d \in dirs
        PROVE  d \in store \cup removing \cup late \cup lost \cup bare \cup kept
    <3>1. d \in Tasks /\ pc[d] \notin UnderLock
      BY <2>1, <2>2, WorkDirAssumption DEF TypeInv, DiskTypes, LockTypes
    <3> QED BY <2>1, <3>1 DEF DirInv, UnderLock
  <2>3. \A d \in bare : answer[d] = 500 /\ disk[d] = NoFiles
    BY DEF WorkDirInv, BareInv
  <2> QED BY <2>1, <2>2, <2>3 DEF NoStrayDirectory
<1> QED BY <1>1, WorkDirInductive, PTL DEF Spec

\* A client is told that its build is too large only if it is: the zip and
\* every entry are charged once, against what was measured.
THEOREM RefusalsJustified == Spec => RefusalIsJustified
<1>1. WorkDirInv /\ [Next]_vars =>
        [\A t \in Tasks : answer[t] = 0 /\ answer'[t] \in {413, 507} =>
            ExceedsLimit(upload[t], IF pc[t] = "scan" THEN scan.sum ELSE measured)]_vars
  BY RefusalStep DEF WorkDirInv, Justified
<1> QED BY <1>1, WorkDirInductive, PTL DEF Spec, RefusalIsJustified
=============================================================================
