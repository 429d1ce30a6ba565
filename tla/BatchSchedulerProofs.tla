------------------------ MODULE BatchSchedulerProofs ------------------------
(***************************************************************************)
(* The safety properties of BatchScheduler, for any number of image        *)
(* directories, options, slots and commands one after the other.  The      *)
(* argument goes in layers, each resting on the ones before: the control   *)
(* of the command and the places of the jobs (PlacesInv), the tokens of    *)
(* the semaphores (SlotInv), what a job has left to build (WorkInv), the   *)
(* counters (CountInv), why a job may be missing (FlagInv), what starts    *)
(* late (LateInv) and what is settled when it returns (SettledInv).        *)
(***************************************************************************)
EXTENDS BatchScheduler, TLAPS, FiniteSetTheorems, SequenceTheorems

-----------------------------------------------------------------------------
(* The formats of a job.                                                   *)

\* The formats that a job has still to build.
Left(t) == {t.specs[i] : i \in t.at..Len(t.specs)}

\* The lists of formats have no format twice.
LEMMA SpecListFacts ==
    \A s \in SpecLists :
        /\ s \in Seq(Formats) /\ Len(s) \in Nat /\ Len(s) <= 2 /\ DOMAIN s = 1..Len(s)
        /\ \A i \in 1..Len(s) : s[i] \in Formats
        /\ \A i, k \in 1..Len(s) : s[i] = s[k] => i = k
<1> SUFFICES ASSUME NEW s \in SpecLists
             PROVE  /\ s \in Seq(Formats) /\ Len(s) \in Nat /\ Len(s) <= 2 /\ DOMAIN s = 1..Len(s)
                    /\ \A i \in 1..Len(s) : s[i] \in Formats
                    /\ \A i, k \in 1..Len(s) : s[i] = s[k] => i = k
  OBVIOUS
<1>1. CASE s = <<>> BY <1>1
<1>2. CASE s = <<"nydus">> BY <1>2 DEF Formats
<1>3. CASE s = <<"oci">> BY <1>3 DEF Formats
<1>4. CASE s = <<"nydus", "oci">> BY <1>4 DEF Formats
<1> QED BY <1>1, <1>2, <1>3, <1>4 DEF SpecLists

\* The rest of a list of formats is a list of formats.
LEMMA RestOfSpecs ==
    ASSUME NEW s \in SpecLists, NEW k \in 1..Len(s)
    PROVE  /\ SubSeq(s, k, Len(s)) \in SpecLists
           /\ Len(SubSeq(s, k, Len(s))) = Len(s) - k + 1
           /\ \A i \in 1..(Len(s) - k + 1) : SubSeq(s, k, Len(s))[i] = s[k + i - 1]
<1> DEFINE r == SubSeq(s, k, Len(s))
<1>1. Len(s) \in Nat /\ Len(s) <= 2 /\ s \in Seq(Formats) /\ k \in 1..2 /\ k <= Len(s)
  <2>1. s \in Seq(Formats) /\ Len(s) \in Nat /\ Len(s) <= 2 BY SpecListFacts
  <2> QED BY <2>1
<1>2. \A i \in k..Len(s) : s[i] \in Formats
  BY <1>1, SpecListFacts
<1>3. /\ r \in Seq(Formats)
      /\ Len(r) = Len(s) - k + 1
      /\ \A i \in 1..(Len(s) - k + 1) : r[i] = s[k + i - 1]
  BY <1>1, <1>2, SubSeqProperties
<1>4. r \in SpecLists
  <2>1. CASE k = 1
    BY <1>1, <2>1, SubSeqFull
  <2>2. CASE k = 2
    <3>0. 2 <= Len(s) BY <1>1, <2>2
    <3>1. s = <<"nydus", "oci">> /\ Len(s) = 2
      <4>1. CASE s = <<>> BY <3>0, <4>1
      <4>2. CASE s = <<"nydus">> BY <3>0, <4>2
      <4>3. CASE s = <<"oci">> BY <3>0, <4>3
      <4>4. CASE s = <<"nydus", "oci">> BY <4>4
      <4> QED BY <4>1, <4>2, <4>3, <4>4 DEF SpecLists
    <3>2. Len(r) = 1 /\ r[1] = "oci" BY <1>3, <2>2, <3>1
    <3> HIDE DEF r
    <3>3. r = <<"oci">> BY <1>3, <3>2
    <3> QED BY <3>3 DEF SpecLists
  <2> QED BY <1>1, <2>1, <2>2
<1> QED BY <1>3, <1>4

\* One format after the other: what is left when the loop goes on, when it is
\* at its end, and when the rest is sent to the retry queue.
LEMMA LeftFacts ==
    ASSUME NEW t \in TaskRecord, t.at <= Len(t.specs)
    PROVE  /\ t.specs[t.at] \in Formats /\ t.specs[t.at] \in Left(t)
           /\ MoreSpecs(t) => /\ t.at = 1 /\ Len(t.specs) = 2
                              /\ \A u \in TaskRecord : u.specs = t.specs /\ u.at = 2
                                    => Left(u) = Left(t) \ {t.specs[t.at]}
           /\ ~MoreSpecs(t) => Left(t) = {t.specs[t.at]}
           /\ \A e \in Entries, a \in Nat :
                 /\ TaskOf(e, Remaining(t), a) \in TaskRecord
                 /\ Left(TaskOf(e, Remaining(t), a)) = Left(t)
<1> DEFINE n == Len(t.specs)
<1>1. t.specs \in SpecLists /\ t.at \in 1..2 BY DEF TaskRecord
<1>2. n \in Nat /\ t.at \in Nat /\ 1 <= t.at /\ t.at <= n /\ n <= 2
  <2>1. t.specs \in Seq(Formats) /\ n \in Nat /\ n <= 2 BY <1>1, SpecListFacts
  <2> QED BY <1>1, <2>1
<1> HIDE DEF n
<1>3. \A i \in 1..n : t.specs[i] \in Formats BY <1>1, SpecListFacts DEF n
<1>4. \A i, k \in 1..n : t.specs[i] = t.specs[k] => i = k BY <1>1, SpecListFacts DEF n
<1>5. t.specs[t.at] \in Formats /\ t.specs[t.at] \in Left(t)
  BY <1>2, <1>3 DEF Left, n
<1>6. ASSUME MoreSpecs(t)
      PROVE  /\ t.at = 1 /\ n = 2
             /\ \A u \in TaskRecord : u.specs = t.specs /\ u.at = 2 => Left(u) = Left(t) \ {t.specs[t.at]}
  <2>1. t.at < n BY <1>6 DEF MoreSpecs, n
  <2>2. t.at = 1 /\ n = 2 BY <1>2, <2>1
  <2>3. t.specs[1] # t.specs[2] BY <1>4, <2>2
  <2>4. Left(t) = {t.specs[1], t.specs[2]} BY <2>2 DEF Left, n
  <2>5. ASSUME NEW u \in TaskRecord, u.specs = t.specs, u.at = 2 PROVE Left(u) = {t.specs[2]}
    BY <2>2, <2>5 DEF Left, n
  <2> QED BY <2>2, <2>3, <2>4, <2>5
<1>7. ASSUME ~MoreSpecs(t) PROVE Left(t) = {t.specs[t.at]}
  <2>1. t.at = n BY <1>2, <1>7 DEF MoreSpecs, n
  <2> QED BY <1>2, <2>1 DEF Left, n
<1>8. ASSUME NEW e \in Entries, NEW a \in Nat
      PROVE  /\ TaskOf(e, Remaining(t), a) \in TaskRecord
             /\ Left(TaskOf(e, Remaining(t), a)) = Left(t)
  <2> DEFINE s == Remaining(t)
  <2>1. /\ s \in SpecLists /\ Len(s) = n - t.at + 1
        /\ \A i \in 1..(n - t.at + 1) : s[i] = t.specs[t.at + i - 1]
    BY <1>1, <1>2, RestOfSpecs DEF Remaining, n
  <2>2. TaskOf(e, s, a) \in TaskRecord
    BY <2>1, NAssumption DEF TaskOf, TaskRecord, Entries
  <2>3. Left(TaskOf(e, s, a)) = {s[i] : i \in 1..Len(s)}
    BY DEF TaskOf, Left
  <2> HIDE DEF s
  <2>4. {s[i] : i \in 1..Len(s)} = {t.specs[i] : i \in t.at..n}
    <3>1. ASSUME NEW i \in 1..Len(s) PROVE s[i] \in {t.specs[k] : k \in t.at..n}
      <4>1. t.at + i - 1 \in t.at..n /\ s[i] = t.specs[t.at + i - 1] BY <1>2, <2>1
      <4> QED BY <4>1
    <3>2. ASSUME NEW k \in t.at..n PROVE t.specs[k] \in {s[i] : i \in 1..Len(s)}
      <4>1. k - t.at + 1 \in 1..(n - t.at + 1) BY <1>2
      <4>2. s[k - t.at + 1] = t.specs[t.at + (k - t.at + 1) - 1] BY <2>1, <4>1
      <4>3. t.at + (k - t.at + 1) - 1 = k BY <1>2
      <4> QED BY <2>1, <4>1, <4>2, <4>3
    <3> QED BY <3>1, <3>2
  <2> QED BY <2>2, <2>3, <2>4 DEF Left, s, n
<1> QED BY <1>5, <1>6, <1>7, <1>8 DEF n

\* The loop goes on to the second format.
LEMMA SecondSpec ==
    ASSUME NEW t \in TaskRecord
    PROVE  /\ [t EXCEPT !.at = 2] \in TaskRecord
           /\ [t EXCEPT !.at = 2].specs = t.specs /\ [t EXCEPT !.at = 2].at = 2
           /\ [t EXCEPT !.at = 2].entry = t.entry
<1>1. 2 \in 1..2 OBVIOUS
<1> QED BY <1>1 DEF TaskRecord

\* The formats that a command builds are formats.
LEMMA ModeFacts ==
    ASSUME opts \in Options
    PROVE  \A f \in ModeSet : f \in Formats
<1>1. opts.modes \in {<<"nydus">>, <<"oci">>, <<"nydus", "oci">>} BY OptionsAssumption
<1>2. opts.modes \in SpecLists BY <1>1 DEF SpecLists
<1> QED BY <1>2, SpecListFacts DEF ModeSet

\* filterBuildJobs leaves exactly the formats to rebuild.
LEMMA PendingFacts ==
    ASSUME opts \in Options, NEW e \in Entries
    PROVE  /\ PendingSpecs(e) \in SpecLists
           /\ {PendingSpecs(e)[i] : i \in DOMAIN PendingSpecs(e)} = {f \in ModeSet : Rebuild(db[e][f])}
<1> DEFINE F == {f \in ModeSet : Rebuild(db[e][f])}
<1>1. F \subseteq {"nydus", "oci"}
  BY OptionsAssumption DEF ModeSet
<1>2. \E s \in SpecLists : {s[i] : i \in DOMAIN s} = F
  <2> HIDE DEF F
  <2>1. CASE F = {} BY <2>1 DEF SpecLists
  <2>2. CASE F = {"nydus"}
    <3>1. {<<"nydus">>[i] : i \in DOMAIN <<"nydus">>} = {"nydus"} OBVIOUS
    <3> QED BY <2>2, <3>1 DEF SpecLists
  <2>3. CASE F = {"oci"}
    <3>1. {<<"oci">>[i] : i \in DOMAIN <<"oci">>} = {"oci"} OBVIOUS
    <3> QED BY <2>3, <3>1 DEF SpecLists
  <2>4. CASE F = {"nydus", "oci"}
    <3>1. {<<"nydus", "oci">>[i] : i \in DOMAIN <<"nydus", "oci">>} = {"nydus", "oci"} OBVIOUS
    <3> QED BY <2>4, <3>1 DEF SpecLists
  <2> QED BY <1>1, <2>1, <2>2, <2>3, <2>4
<1> QED BY <1>2 DEF PendingSpecs

-----------------------------------------------------------------------------
(* The queues of jobs: what they hold, and that they hold no directory     *)
(* twice.                                                                  *)

Members(q) == {q[i] : i \in DOMAIN q}
EntriesOf(q) == {q[i].entry : i \in DOMAIN q}
Distinct(q) == \A i, k \in DOMAIN q : q[i].entry = q[k].entry => i = k

\* The empty queue.
LEMMA EmptyQueue == Members(<<>>) = {} /\ EntriesOf(<<>>) = {} /\ Distinct(<<>>)
BY DEF Members, EntriesOf, Distinct

\* A queue of one job.
LEMMA SingleQueue ==
    ASSUME NEW t
    PROVE  Members(<<t>>) = {t} /\ EntriesOf(<<t>>) = {t.entry} /\ Distinct(<<t>>)
BY DEF Members, EntriesOf, Distinct

\* A job is sent.
LEMMA SendToQueue ==
    ASSUME NEW S, NEW q \in Seq(S), NEW t \in S
    PROVE  /\ Members(Append(q, t)) = Members(q) \cup {t}
           /\ EntriesOf(Append(q, t)) = EntriesOf(q) \cup {t.entry}
           /\ Distinct(q) /\ t.entry \notin EntriesOf(q) => Distinct(Append(q, t))
<1> DEFINE r == Append(q, t)
<1>1. /\ DOMAIN q = 1..Len(q) /\ DOMAIN r = 1..(Len(q) + 1) /\ Len(q) \in Nat
      /\ r[Len(q) + 1] = t /\ \A i \in 1..Len(q) : r[i] = q[i]
  BY AppendProperties, LenProperties
<1> HIDE DEF r
<1>2. DOMAIN r = DOMAIN q \cup {Len(q) + 1} /\ Len(q) + 1 \notin DOMAIN q
  BY <1>1
<1>3. Members(r) = Members(q) \cup {t} BY <1>1, <1>2 DEF Members
<1>4. EntriesOf(r) = EntriesOf(q) \cup {t.entry} BY <1>1, <1>2 DEF EntriesOf
<1>5. Distinct(q) /\ t.entry \notin EntriesOf(q) => Distinct(r)
  BY <1>1, <1>2 DEF Distinct, EntriesOf
<1> QED BY <1>3, <1>4, <1>5 DEF r

\* The first job is taken.
LEMMA TakeFromQueue ==
    ASSUME NEW S, NEW q \in Seq(S), q # <<>>
    PROVE  /\ Head(q) \in S /\ Head(q) \in Members(q) /\ Head(q).entry \in EntriesOf(q)
           /\ Tail(q) \in Seq(S) /\ Members(Tail(q)) \subseteq Members(q)
           /\ EntriesOf(Tail(q)) \subseteq EntriesOf(q)
           /\ Distinct(q) => Head(q).entry \notin EntriesOf(Tail(q)) /\ Distinct(Tail(q))
           /\ EntriesOf(q) = EntriesOf(Tail(q)) \cup {Head(q).entry}
<1> DEFINE r == Tail(q)
<1>1. /\ DOMAIN q = 1..Len(q) /\ Len(q) \in Nat \ {0} /\ r \in Seq(S) /\ Head(q) = q[1] /\ Head(q) \in S
      /\ DOMAIN r = 1..(Len(q) - 1) /\ \A i \in 1..(Len(q) - 1) : r[i] = q[i + 1]
  BY HeadTailProperties, LenProperties, EmptySeq
<1> HIDE DEF r
<1>2. 1 \in DOMAIN q BY <1>1
<1>3. Head(q) \in Members(q) /\ Head(q).entry \in EntriesOf(q)
  BY <1>1, <1>2 DEF Members, EntriesOf
<1>4. \A i \in DOMAIN r : i + 1 \in DOMAIN q /\ r[i] = q[i + 1] /\ i + 1 # 1 /\ i \in Int
  BY <1>1
<1>5. \A k \in DOMAIN q : k # 1 => k - 1 \in DOMAIN r /\ r[k - 1] = q[k]
  BY <1>1
<1>6. Members(r) \subseteq Members(q) /\ EntriesOf(r) \subseteq EntriesOf(q)
  BY <1>4 DEF Members, EntriesOf
<1>7. Distinct(q) => Head(q).entry \notin EntriesOf(r)
  BY <1>1, <1>2, <1>4 DEF Distinct, EntriesOf
<1>8. Distinct(q) => Distinct(r)
  BY <1>4 DEF Distinct
<1>9. EntriesOf(q) \subseteq EntriesOf(r) \cup {Head(q).entry}
  <2> SUFFICES ASSUME NEW k \in DOMAIN q PROVE q[k].entry \in EntriesOf(r) \cup {Head(q).entry}
    BY DEF EntriesOf
  <2>1. CASE k = 1 BY <1>1, <2>1
  <2>2. CASE k # 1 BY <1>5, <2>2 DEF EntriesOf
  <2> QED BY <2>1, <2>2
<1> QED BY <1>1, <1>3, <1>6, <1>7, <1>8, <1>9 DEF r

\* A queue that holds no directory twice has it once or not at all.
LEMMA DistinctIsOnce ==
    ASSUME NEW q, Distinct(q), NEW e
    PROVE  Queued(q, e) = IF e \in EntriesOf(q) THEN 1 ELSE 0
<1> DEFINE I == {i \in DOMAIN q : q[i].entry = e}
<1>1. CASE e \in EntriesOf(q)
  <2>1. PICK i \in DOMAIN q : q[i].entry = e BY <1>1 DEF EntriesOf
  <2>2. I = {i} BY <2>1 DEF Distinct
  <2> QED BY <1>1, <2>2, FS_Singleton DEF Queued
<1>2. CASE e \notin EntriesOf(q)
  <2>1. I = {} BY <1>2 DEF EntriesOf
  <2> QED BY <1>2, <2>1, FS_EmptySet DEF Queued
<1> QED BY <1>1, <1>2

-----------------------------------------------------------------------------
(* The invariants.                                                         *)

Pcs == {"idle", "build", "retry", "store", "apply", "flag", "cancel", "release", "releaseGlobal"}

\* TypeOK without the semaphores and counters, whose ranges follow from what
\* they count.
TypeBase ==
    /\ run \in 1..MaxRuns /\ opts \in Options
    /\ db \in [Entries -> [Formats -> {"none", "ok", "fail"}]]
    /\ ctxDone \in BOOLEAN /\ failed \in BOOLEAN /\ fatal \in BOOLEAN /\ interrupted \in BOOLEAN
    /\ ppc \in {"top", "work", "end"} /\ prep \in 1..(N + 1) /\ prepErr \in BOOLEAN
    /\ mpc \in {"recv", "check", "slot", "global", "wait", "done"}
    /\ scheduling \in BOOLEAN /\ retrying \in BOOLEAN
    /\ jobCh \in Seq(TaskRecord) /\ Len(jobCh) <= Concurrency
    /\ pending \in Seq(TaskRecord) /\ retryQueue \in Seq(TaskRecord)
    /\ Len(retryQueue) <= RetryCap
    /\ mslot \in Slots \cup {NoSlot}
    /\ gpc \in [Entries -> Pcs]
    /\ task \in [Entries -> TaskRecord]
    /\ gslot \in [Entries -> Slots \cup {NoSlot}]
    /\ ok \in [Entries -> BOOLEAN]
    /\ pool \subseteq Slots /\ pool # {} /\ fresh \subseteq Slots
    /\ states \in [Entries -> {"unknown", "succeeded", "failed"}]
    /\ ret \in {"none", "nil", "failed", "fatal"} /\ late \in Nat

\* How the places of the command and of the preparation go with the queues.
ControlInv ==
    /\ mpc \in {"recv", "wait", "done"} => pending = <<>>
    /\ mpc \in {"check", "slot", "global"} => pending # <<>>
    /\ ~retrying => Len(pending) <= 1 /\ mpc \notin {"wait", "done"}
    /\ retrying => jobCh = <<>> /\ ppc = "end" /\ mpc # "recv"
    /\ ppc = "work" => prep <= N
    /\ mpc = "done" => retryQueue = <<>> /\ \A e \in Entries : gpc[e] = "idle"

\* A directory is in one queue, once, or with its goroutine, and not before it
\* has been prepared.
PlacesInv ==
    /\ Distinct(jobCh) /\ Distinct(pending) /\ Distinct(retryQueue)
    /\ EntriesOf(jobCh) \cup EntriesOf(pending) \cup EntriesOf(retryQueue) \subseteq Entries
    /\ EntriesOf(jobCh) \cap EntriesOf(pending) = {}
    /\ EntriesOf(jobCh) \cap EntriesOf(retryQueue) = {}
    /\ EntriesOf(pending) \cap EntriesOf(retryQueue) = {}
    /\ \A e \in EntriesOf(jobCh) \cup EntriesOf(pending) : gpc[e] = "idle"
    /\ \A e \in EntriesOf(retryQueue) : gpc[e] \in {"idle", "release", "releaseGlobal"}
    /\ \A e \in Entries :
          e >= prep \/ e \in Excluded =>
              /\ e \notin EntriesOf(jobCh) \cup EntriesOf(pending) \cup EntriesOf(retryQueue)
              /\ gpc[e] = "idle"

\* The formats of a directory without a stored success.
Unbuilt(e) == {f \in ModeSet : db[e][f] # "ok"}
\* The goroutine has still to build the current format, or to store its result.
Building == {"build", "retry", "store"}

\* A job has exactly the formats to build that are not stored as built.
Owes(t, e) == Left(t) = Unbuilt(e) /\ t.at <= Len(t.specs)
WorkInv ==
    /\ \A t \in Members(jobCh) \cup Members(pending) \cup Members(retryQueue) :
          t.at = 1 /\ Owes(t, t.entry)
    /\ \A e \in Entries : gpc[e] \in Building => Owes(task[e], e)
    /\ \A e \in Entries : gpc[e] = "apply" /\ ok[e] => Unbuilt(e) = {}

-----------------------------------------------------------------------------
(* Types and control.                                                      *)

\* A job that is made from a directory has the formats to build that are not
\* stored as built, and has some.
LEMMA PreparedJob ==
    ASSUME TypeBase, NEW e \in Entries, ~AllSucceeded(e), ~SkippedFailure(e)
    PROVE  /\ TaskOf(e, PendingSpecs(e), 0) \in TaskRecord
           /\ Owes(TaskOf(e, PendingSpecs(e), 0), e)
<1> DEFINE s == PendingSpecs(e)
<1>1. s \in SpecLists /\ {s[i] : i \in DOMAIN s} = {f \in ModeSet : Rebuild(db[e][f])}
  BY PendingFacts DEF TypeBase
<1>2. TaskOf(e, s, 0) \in TaskRecord
  BY <1>1, NAssumption DEF TaskOf, TaskRecord, Entries
<1>3. {f \in ModeSet : Rebuild(db[e][f])} = Unbuilt(e)
  <2>1. \A f \in ModeSet : f \in Formats BY ModeFacts DEF TypeBase
  <2> QED BY <2>1 DEF TypeBase, Rebuild, SkippedFailure, Unbuilt
<1>4. Unbuilt(e) # {} BY DEF AllSucceeded, Unbuilt
<1> HIDE DEF s
<1>5. Len(s) \in Nat /\ DOMAIN s = 1..Len(s) BY <1>1, SpecListFacts
<1>6. Left(TaskOf(e, s, 0)) = {s[i] : i \in DOMAIN s} BY <1>5 DEF Left, TaskOf
<1>7. 1 <= Len(s) BY <1>1, <1>3, <1>4, <1>5
<1> QED BY <1>1, <1>2, <1>3, <1>6, <1>7 DEF Owes, TaskOf, s

\* Every action keeps the types.
LEMMA TypeStep == TypeBase /\ ControlInv /\ PlacesInv /\ WorkInv /\ [Next]_vars => TypeBase'
<1> SUFFICES ASSUME TypeBase, ControlInv, PlacesInv, WorkInv, [Next]_vars PROVE TypeBase' OBVIOUS
<1> USE NAssumption, ConcurrencyAssumption
    DEF TypeBase, Pcs, command, flags, producer, main, jobs, sems, addrs, counters, At, Go
<1>0. pending # <<>> => /\ Head(pending) \in TaskRecord /\ Tail(pending) \in Seq(TaskRecord)
                        /\ Head(pending).entry \in Entries
  BY TakeFromQueue DEF PlacesInv
<1>1. CASE PrepareNext BY <1>1 DEF PrepareNext
<1>2. CASE PrepareFails BY <1>2 DEF PrepareFails
<1>3. CASE PrepareSkips
  <2>1. prep' \in 1..(N + 1) /\ ppc' = "top" BY <1>3 DEF PrepareSkips, ControlInv
  <2>2. states' \in [Entries -> {"unknown", "succeeded", "failed"}] BY <1>3 DEF PrepareSkips
  <2> QED BY <1>3, <2>1, <2>2 DEF PrepareSkips
<1>4. CASE PrepareSends
  <2>1. prep \in Entries /\ prep' \in 1..(N + 1) /\ ppc' = "top"
    BY <1>4 DEF PrepareSends, ControlInv, Entries
  <2>2. TaskOf(prep, PendingSpecs(prep), 0) \in TaskRecord
    BY <1>4, <2>1, PreparedJob DEF PrepareSends
  <2>3. jobCh' \in Seq(TaskRecord) /\ Len(jobCh') <= Concurrency
    <3>1. /\ jobCh' = Append(jobCh, TaskOf(prep, PendingSpecs(prep), 0))
          /\ Len(jobCh) < Concurrency
      BY <1>4 DEF PrepareSends
    <3>2. jobCh' \in Seq(TaskRecord) /\ Len(jobCh') = Len(jobCh) + 1
      BY <2>2, <3>1
    <3> QED BY <3>1, <3>2, ConcurrencyAssumption
  <2> QED BY <1>4, <2>1, <2>3 DEF PrepareSends
<1>5. CASE ReceiveJob
  <2>1. jobCh' \in Seq(TaskRecord) /\ Len(jobCh') <= Concurrency /\ Head(jobCh) \in TaskRecord
    <3>1. jobCh # <<>> /\ jobCh' = Tail(jobCh)
      BY <1>5 DEF ReceiveJob
    <3>2. /\ Tail(jobCh) \in Seq(TaskRecord) /\ Head(jobCh) \in TaskRecord
          /\ Len(Tail(jobCh)) = Len(jobCh) - 1
      BY <3>1
    <3>3. Len(jobCh) \in Nat /\ Len(jobCh) <= Concurrency /\ Concurrency \in Nat
      OBVIOUS
    <3>4. Len(jobCh) - 1 <= Concurrency
      BY <3>3
    <3> QED BY <3>1, <3>2, <3>4
  <2>2. <<Head(jobCh)>> \in Seq(TaskRecord) BY <2>1
  <2>3. pending' \in Seq(TaskRecord) /\ mpc' \in {"recv", "check"}
    <3>1. CASE scheduling BY <1>5, <2>2, <3>1 DEF ReceiveJob
    <3>2. CASE ~scheduling BY <1>5, <3>2 DEF ReceiveJob
    <3> QED BY <3>1, <3>2
  <2> QED BY <1>5, <2>1, <2>3 DEF ReceiveJob
<1>6. CASE JoinProducer BY <1>6 DEF JoinProducer
<1>30. <<>> \in Seq(TaskRecord) OBVIOUS
<1>31. AfterRefusal => pending' \in Seq(TaskRecord) /\ mpc' \in {"recv", "wait"} /\ scheduling' \in BOOLEAN
  BY <1>30 DEF AfterRefusal
<1>7. CASE CheckStop
  <2>1. CASE AfterRefusal BY <1>7, <1>31, <2>1 DEF CheckStop
  <2>2. CASE ~AfterRefusal BY <1>7, <2>2 DEF CheckStop
  <2> QED BY <2>1, <2>2
<1>8. CASE WaitForSlot
  <2>1. CASE AfterRefusal /\ UNCHANGED <<addrSem, mslot>> BY <1>8, <1>31, <2>1 DEF WaitForSlot
  <2>2. CASE ~(AfterRefusal /\ UNCHANGED <<addrSem, mslot>>)
    <3>1. PICK s \in pool : mslot' = s /\ mpc' = "global" /\ UNCHANGED <<pending, scheduling>>
      BY <1>8, <2>2 DEF WaitForSlot
    <3> QED BY <1>8, <3>1 DEF WaitForSlot
  <2> QED BY <2>1, <2>2
<1>9. CASE StartBuild
  <2>1. Head(pending) \in TaskRecord /\ Tail(pending) \in Seq(TaskRecord) /\ Head(pending).entry \in Entries
    BY <1>0, <1>9 DEF StartBuild, ControlInv
  <2> DEFINE t == Head(pending)
  <2>2. /\ gpc' = [gpc EXCEPT ![t.entry] = "build"] /\ task' = [task EXCEPT ![t.entry] = t]
        /\ gslot' = [gslot EXCEPT ![t.entry] = mslot] /\ pending' = Tail(pending)
    BY <1>9 DEF StartBuild, AfterStart
  <2> HIDE DEF t
  <2>3. t \in TaskRecord /\ t.entry \in Entries BY <2>1 DEF t
  <2>4. /\ gpc' \in [Entries -> Pcs] /\ task' \in [Entries -> TaskRecord]
        /\ gslot' \in [Entries -> Slots \cup {NoSlot}]
    BY <2>2, <2>3
  <2>5. late' \in Nat /\ mpc' \in {"recv", "check", "wait"} BY <1>9 DEF StartBuild, AfterStart
  <2>6. /\ UNCHANGED <<command, flags, producer, scheduling, retrying, ret, ok, addrs, states, db, jobCh, retryQueue>>
        /\ mslot' = NoSlot
    BY <1>9 DEF StartBuild, AfterStart
  <2> QED BY <2>1, <2>2, <2>4, <2>5, <2>6
<1>10. CASE ReleaseWorker BY <1>10 DEF ReleaseWorker, AfterRefusal
<1>11. CASE DrainRetries BY <1>11 DEF DrainRetries, RetryCap
<1>12. CASE Return BY <1>12 DEF Return
<1>13. ASSUME NEW e \in Entries, BuildReturns(e) PROVE TypeBase'
  BY <1>13 DEF BuildReturns
<1>14. ASSUME NEW e \in Entries, RetryLater(e) PROVE TypeBase'
  <2>1. task[e] \in TaskRecord /\ task[e].at <= Len(task[e].specs) /\ task[e].attempt + 1 \in Nat
    BY <1>14 DEF RetryLater, WorkInv, Building, Owes, TaskRecord
  <2>2. TaskOf(e, Remaining(task[e]), task[e].attempt + 1) \in TaskRecord
    BY <2>1, LeftFacts
  <2>3. retryQueue' \in Seq(TaskRecord) /\ Len(retryQueue') <= RetryCap
    BY <1>14, <2>2 DEF RetryLater, RetryCap
  <2> QED BY <1>14, <2>3 DEF RetryLater, AfterRetry
<1>15. ASSUME NEW e \in Entries, StoreResult(e) PROVE TypeBase'
  <2>1. db' \in [Entries -> [Formats -> {"none", "ok", "fail"}]]
    BY <1>15 DEF StoreResult
  <2>2. task[e] \in TaskRecord /\ task[e].at <= Len(task[e].specs)
    BY <1>15 DEF StoreResult, WorkInv, Building, Owes
  <2>3. CASE MoreSpecs(task[e]) /\ task' = [task EXCEPT ![e].at = @ + 1] /\ Go(e, "build")
    <3>1. task[e].at = 1 BY <2>2, <2>3, LeftFacts
    <3>3. task' = [task EXCEPT ![e] = [task[e] EXCEPT !.at = 2]] BY <2>3, <3>1
    <3>4. [task[e] EXCEPT !.at = 2] \in TaskRecord BY <2>2, SecondSpec
    <3>2. task' \in [Entries -> TaskRecord] BY <3>3, <3>4
    <3> QED BY <1>15, <2>1, <2>3, <3>2 DEF StoreResult
  <2>4. CASE Go(e, "apply") /\ UNCHANGED task
    BY <1>15, <2>1, <2>4 DEF StoreResult
  <2> QED BY <1>15, <2>3, <2>4 DEF StoreResult
<1>16. ASSUME NEW e \in Entries, StoreFails(e) PROVE TypeBase'
  BY <1>16 DEF StoreFails
<1>17. ASSUME NEW e \in Entries, Apply(e) PROVE TypeBase'
  BY <1>17 DEF Apply
<1>18. ASSUME NEW e \in Entries, Flag(e) PROVE TypeBase'
  BY <1>18 DEF Flag, FlagFailed
<1>19. ASSUME NEW e \in Entries, CancelRun(e) PROVE TypeBase'
  BY <1>19 DEF CancelRun
<1>20. ASSUME NEW e \in Entries, ReleaseSlot(e) PROVE TypeBase'
  BY <1>20 DEF ReleaseSlot
<1>21. NoTask \in TaskRecord BY DEF NoTask, TaskOf, TaskRecord, SpecLists
<1>22. ASSUME NEW e \in Entries, ReleaseGlobal(e) PROVE TypeBase'
  BY <1>21, <1>22 DEF ReleaseGlobal
<1>23. CASE Interrupt BY <1>23 DEF Interrupt
<1>24. CASE RefreshAddrs BY <1>24 DEF RefreshAddrs
<1>25. CASE NextCommand
  <2>1. /\ jobCh' \in Seq(TaskRecord) /\ pending' \in Seq(TaskRecord) /\ retryQueue' \in Seq(TaskRecord)
        /\ Len(jobCh') <= Concurrency /\ Len(retryQueue') <= RetryCap
    BY <1>25, <1>30 DEF NextCommand, RetryCap
  <2>2. pool' \subseteq Slots /\ pool' # {} /\ fresh' \subseteq Slots
    <3>1. pool' \in (SUBSET Slots) \ {{}} /\ fresh' = Slots \ pool' BY <1>25 DEF NextCommand
    <3> QED BY ONLY <3>1, Zenon
  <2>3. /\ gpc' \in [Entries -> Pcs] /\ task' \in [Entries -> TaskRecord]
        /\ gslot' \in [Entries -> Slots \cup {NoSlot}] /\ ok' \in [Entries -> BOOLEAN]
        /\ states' \in [Entries -> {"unknown", "succeeded", "failed"}]
    BY <1>21, <1>25 DEF NextCommand
  <2>4. run' \in 1..MaxRuns /\ opts' \in Options /\ prep' \in 1..(N + 1)
    BY <1>25 DEF NextCommand
  <2> HIDE DEF Pcs
  <2> QED BY <1>25, <2>1, <2>2, <2>3, <2>4 DEF NextCommand
<1>26. CASE UNCHANGED vars BY <1>26 DEF vars
<1> QED
  BY <1>1, <1>2, <1>3, <1>4, <1>5, <1>6, <1>7, <1>8, <1>9, <1>10, <1>11, <1>12, <1>13, <1>14,
     <1>15, <1>16, <1>17, <1>18, <1>19, <1>20, <1>22, <1>23, <1>24, <1>25, <1>26
  DEF Next, Producer, Command, Job, Finished

\* Whether a queue has a job after the first.
LEMMA RestOfQueue ==
    ASSUME NEW S, NEW q \in Seq(S), q # <<>>
    PROVE  /\ Len(q) > 1 => Tail(q) # <<>>
           /\ Len(q) <= 1 => Tail(q) = <<>>
           /\ ~(Len(q) > 1) => Tail(q) = <<>>
<1>1. Len(q) \in Nat \ {0} /\ Len(Tail(q)) = Len(q) - 1 /\ Tail(q) \in Seq(S)
  BY HeadTailProperties, LenProperties, EmptySeq
<1>2. Len(<<>>) = 0 OBVIOUS
<1>3. Len(Tail(q)) = 0 => Tail(q) = <<>> BY <1>1, EmptySeq
<1> QED BY <1>1, <1>2, <1>3

\* A step of a job leaves the command alone, and finds it not yet returned.
LEMMA JobSteps ==
    ASSUME TypeBase, ControlInv, NEW e \in Entries, Job(e)
    PROVE  /\ gpc[e] # "idle" /\ mpc # "done"
           /\ UNCHANGED <<command, producer, main, addrs, total, jobCh>>
           /\ \A x \in Entries : x # e => gpc'[x] = gpc[x] /\ task'[x] = task[x] /\ ok'[x] = ok[x]
                                          /\ gslot'[x] = gslot[x] /\ states'[x] = states[x]
           /\ ~RetryLater(e) => UNCHANGED retryQueue
           /\ gpc[e] \in {"release", "releaseGlobal"} =>
                 ~RetryLater(e) /\ gpc'[e] \in {"idle", "release", "releaseGlobal"}
<1> USE DEF TypeBase, command, flags, producer, main, jobs, sems, addrs, counters, At, Go
<1>1. CASE BuildReturns(e) BY <1>1 DEF BuildReturns, ControlInv
<1>2. CASE RetryLater(e) BY <1>2 DEF RetryLater, ControlInv
<1>3. CASE StoreResult(e) BY <1>3 DEF StoreResult, ControlInv
<1>4. CASE StoreFails(e) BY <1>4 DEF StoreFails, ControlInv
<1>5. CASE Apply(e) BY <1>5 DEF Apply, ControlInv
<1>6. CASE Flag(e) BY <1>6 DEF Flag, FlagFailed, ControlInv
<1>7. CASE CancelRun(e) BY <1>7 DEF CancelRun, ControlInv
<1>0. RetryLater(e) => gpc[e] = "retry" BY DEF RetryLater
<1>8. CASE ReleaseSlot(e) BY <1>0, <1>8 DEF ReleaseSlot, ControlInv
<1>9. CASE ReleaseGlobal(e) BY <1>0, <1>9 DEF ReleaseGlobal, ControlInv
<1> QED BY <1>1, <1>2, <1>3, <1>4, <1>5, <1>6, <1>7, <1>8, <1>9 DEF Job

\* Every action keeps the control of the command and of the preparation.
LEMMA ControlStep == TypeBase /\ ControlInv /\ [Next]_vars => ControlInv'
<1> SUFFICES ASSUME TypeBase, ControlInv, [Next]_vars PROVE ControlInv' OBVIOUS
<1> USE NAssumption DEF ControlInv, command, flags, producer, main, jobs, sems, addrs, counters
<1>0. prep \in 1..(N + 1) /\ Len(<<>>) = 0 /\ pending \in Seq(TaskRecord) /\ N \in Nat BY DEF TypeBase
<1>1. CASE PrepareNext BY <1>0, <1>1 DEF PrepareNext
<1>2. CASE PrepareFails BY <1>2 DEF PrepareFails
<1>3. CASE PrepareSkips BY <1>3 DEF PrepareSkips
<1>4. CASE PrepareSends BY <1>4 DEF PrepareSends
<1>5. CASE ReceiveJob
  <2>1. CASE scheduling
    <3>1. pending' = <<Head(jobCh)>> /\ mpc' = "check" /\ ~retrying
          /\ UNCHANGED <<retrying, producer, retryQueue, gpc>>
      BY <1>5, <2>1 DEF ReceiveJob
    <3>2. pending' # <<>> /\ Len(pending') <= 1 BY <3>1
    <3> QED BY <3>1, <3>2
  <2>2. CASE ~scheduling BY <1>5, <2>2 DEF ReceiveJob
  <2> QED BY <2>1, <2>2
<1>6. CASE JoinProducer BY <1>6 DEF JoinProducer
<1>7. AfterRefusal /\ mpc \notin {"wait", "done", "recv"}
      /\ UNCHANGED <<retrying, producer, jobCh, retryQueue, gpc>> => ControlInv'
  BY <1>0 DEF AfterRefusal
<1>8. CASE CheckStop
  <2>1. CASE CheckStopped BY <1>7, <1>8, <2>1 DEF CheckStop
  <2>2. CASE ~CheckStopped BY <1>8, <2>2 DEF CheckStop
  <2> QED BY <2>1, <2>2
<1>9. CASE WaitForSlot
  <2>1. CASE AfterRefusal BY <1>7, <1>9, <2>1 DEF WaitForSlot
  <2>2. CASE ~AfterRefusal BY <1>9, <2>2 DEF WaitForSlot
  <2> QED BY <2>1, <2>2
<1>10. CASE StartBuild
  <2>1. /\ mpc = "global" /\ pending' = Tail(pending)
        /\ mpc' = IF ~retrying THEN "recv" ELSE IF Len(pending) > 1 THEN "check" ELSE "wait"
        /\ UNCHANGED <<retrying, producer, jobCh, retryQueue>>
    BY <1>10 DEF StartBuild, AfterStart
  <2>2. pending # <<>> BY <2>1
  <2>3. /\ Len(pending) > 1 => Tail(pending) # <<>>
        /\ Len(pending) <= 1 => Tail(pending) = <<>>
        /\ ~(Len(pending) > 1) => Tail(pending) = <<>>
    BY <1>0, <2>2, RestOfQueue
  <2> QED BY <1>0, <2>1, <2>2, <2>3
<1>11. CASE ReleaseWorker BY <1>7, <1>11 DEF ReleaseWorker
<1>12. CASE DrainRetries BY <1>12 DEF DrainRetries
<1>13. CASE Return BY <1>13 DEF Return
<1>14. ASSUME NEW e \in Entries, Job(e) PROVE ControlInv'
  BY <1>14, JobSteps
<1>15. CASE Interrupt BY <1>15 DEF Interrupt
<1>16. CASE RefreshAddrs BY <1>16 DEF RefreshAddrs
<1>17. CASE NextCommand BY <1>0, <1>17 DEF NextCommand
<1>18. CASE UNCHANGED vars BY <1>18 DEF vars
<1> QED
  BY <1>1, <1>2, <1>3, <1>4, <1>5, <1>6, <1>8, <1>9, <1>10, <1>11, <1>12, <1>13, <1>14,
     <1>15, <1>16, <1>17, <1>18
  DEF Next, Producer, Command, Finished

\* The same of PlacesInv for a step that leaves the queues and the jobs alone.
LEMMA PlacesUnchanged ==
    TypeBase /\ PlacesInv /\ UNCHANGED <<jobCh, pending, retryQueue, gpc>> /\ prep' \in Int /\ prep' >= prep
        => PlacesInv'
BY DEF PlacesInv, TypeBase, Entries

\* Every action keeps a job in one place.
LEMMA PlacesStep == TypeBase /\ ControlInv /\ PlacesInv /\ [Next]_vars => PlacesInv'
<1> SUFFICES ASSUME TypeBase, ControlInv, PlacesInv, [Next]_vars PROVE PlacesInv' OBVIOUS
<1> USE DEF command, flags, producer, main, jobs, sems, addrs, counters
<1>0. /\ prep \in 1..(N + 1) /\ N \in Nat /\ gpc \in [Entries -> Pcs]
      /\ jobCh \in Seq(TaskRecord) /\ pending \in Seq(TaskRecord) /\ retryQueue \in Seq(TaskRecord)
  BY NAssumption DEF TypeBase
<1>1. CASE PrepareNext BY <1>0, <1>1, PlacesUnchanged DEF PrepareNext
<1>2. CASE PrepareFails BY <1>0, <1>2, PlacesUnchanged DEF PrepareFails
<1>3. CASE PrepareSkips BY <1>0, <1>3, PlacesUnchanged DEF PrepareSkips
<1>4. CASE PrepareSends
  <2> DEFINE t == TaskOf(prep, PendingSpecs(prep), 0)
  <2>1. prep \in Entries /\ prep \notin Excluded
    BY <1>0, <1>4 DEF PrepareSends, ControlInv, Entries
  <2>2. t \in TaskRecord /\ t.entry = prep BY <1>4, <2>1, PreparedJob DEF PrepareSends, TaskOf
  <2>3. jobCh' = Append(jobCh, t) /\ prep' = prep + 1 /\ UNCHANGED <<pending, retryQueue, gpc>>
    BY <1>4 DEF PrepareSends
  <2> HIDE DEF t
  <2>4. /\ prep \notin EntriesOf(jobCh) \cup EntriesOf(pending) \cup EntriesOf(retryQueue)
        /\ gpc[prep] = "idle"
    BY <1>0, <2>1 DEF PlacesInv
  <2>5. EntriesOf(jobCh') = EntriesOf(jobCh) \cup {prep} /\ Distinct(jobCh')
    BY <1>0, <2>2, <2>3, <2>4, SendToQueue DEF PlacesInv
  <2>6. \A e \in Entries : e >= prep' \/ e \in Excluded => e >= prep \/ e \in Excluded
    BY <1>0, <2>3 DEF Entries
  <2>7. \A e \in Entries : e >= prep' \/ e \in Excluded => e # prep
    BY <1>0, <2>1, <2>3 DEF Entries
  <2> QED BY <2>1, <2>3, <2>4, <2>5, <2>6, <2>7 DEF PlacesInv
<1>5. CASE ReceiveJob
  <2>1. /\ Head(jobCh).entry \notin EntriesOf(Tail(jobCh)) /\ Distinct(Tail(jobCh))
        /\ EntriesOf(jobCh) = EntriesOf(Tail(jobCh)) \cup {Head(jobCh).entry}
    BY <1>0, <1>5, TakeFromQueue DEF PlacesInv, ReceiveJob
  <2>2. jobCh' = Tail(jobCh) /\ UNCHANGED <<retryQueue, gpc, prep>> BY <1>5 DEF ReceiveJob
  <2>3. CASE scheduling
    <3>1. pending' = <<Head(jobCh)>> BY <1>5, <2>3 DEF ReceiveJob
    <3>2. EntriesOf(pending') = {Head(jobCh).entry} /\ Distinct(pending') BY <3>1, SingleQueue
    <3> QED BY <2>1, <2>2, <3>2 DEF PlacesInv
  <2>4. CASE ~scheduling
    <3>1. UNCHANGED pending BY <1>5, <2>4 DEF ReceiveJob
    <3> QED BY <2>1, <2>2, <3>1 DEF PlacesInv
  <2> QED BY <2>3, <2>4
<1>6. CASE JoinProducer BY <1>0, <1>6, PlacesUnchanged DEF JoinProducer
<1>7. AfterRefusal /\ UNCHANGED <<jobCh, retryQueue, gpc, prep>> => PlacesInv'
  <2>1. EntriesOf(<<>>) = {} /\ Distinct(<<>>) BY EmptyQueue
  <2> QED BY <2>1 DEF AfterRefusal, PlacesInv
<1>8. CASE CheckStop
  <2>1. CASE CheckStopped BY <1>7, <1>8, <2>1 DEF CheckStop
  <2>2. CASE ~CheckStopped BY <1>0, <1>8, <2>2, PlacesUnchanged DEF CheckStop
  <2> QED BY <2>1, <2>2
<1>9. CASE WaitForSlot
  <2>1. CASE AfterRefusal BY <1>7, <1>9, <2>1 DEF WaitForSlot
  <2>2. CASE ~AfterRefusal BY <1>0, <1>9, <2>2, PlacesUnchanged DEF WaitForSlot
  <2> QED BY <2>1, <2>2
<1>10. CASE StartBuild
  <2> DEFINE x == Head(pending).entry
  <2>1. /\ mpc = "global" /\ pending' = Tail(pending) /\ gpc' = [gpc EXCEPT ![x] = "build"]
        /\ UNCHANGED <<prep, jobCh, retryQueue>>
    BY <1>10 DEF StartBuild, AfterStart
  <2>2. /\ x \notin EntriesOf(Tail(pending)) /\ Distinct(Tail(pending))
        /\ EntriesOf(pending) = EntriesOf(Tail(pending)) \cup {x}
    BY <1>0, <2>1, TakeFromQueue DEF PlacesInv, ControlInv
  <2> HIDE DEF x
  <2>3. /\ x \in Entries /\ x \notin EntriesOf(jobCh) /\ x \notin EntriesOf(retryQueue)
        /\ ~(x >= prep \/ x \in Excluded)
    BY <2>2 DEF PlacesInv
  <2>4. \A e \in Entries : e # x => gpc'[e] = gpc[e] BY <1>0, <2>1
  <2> QED BY <2>1, <2>2, <2>3, <2>4 DEF PlacesInv
<1>11. CASE ReleaseWorker BY <1>7, <1>11 DEF ReleaseWorker
<1>12. CASE DrainRetries
  <2>1. EntriesOf(<<>>) = {} /\ Distinct(<<>>) BY EmptyQueue
  <2>2. /\ pending' = retryQueue /\ retryQueue' = <<>> /\ UNCHANGED <<jobCh, gpc, prep>>
        /\ \A e \in Entries : gpc[e] = "idle"
    BY <1>12 DEF DrainRetries
  <2> QED BY <2>1, <2>2 DEF PlacesInv
<1>13. CASE Return BY <1>0, <1>13, PlacesUnchanged DEF Return
<1>14. ASSUME NEW e \in Entries, Job(e) PROVE PlacesInv'
  <2>1. /\ gpc[e] # "idle" /\ UNCHANGED <<prep, jobCh, pending>>
        /\ \A x \in Entries : x # e => gpc'[x] = gpc[x]
    BY <1>14, JobSteps
  <2>2. /\ e \notin EntriesOf(jobCh) /\ e \notin EntriesOf(pending) /\ ~(e >= prep \/ e \in Excluded)
        /\ e \in EntriesOf(retryQueue) => gpc[e] \in {"release", "releaseGlobal"}
    BY <2>1 DEF PlacesInv
  <2>3. CASE RetryLater(e)
    <3> DEFINE t == TaskOf(e, Remaining(task[e]), task[e].attempt + 1)
    <3>1. retryQueue' = Append(retryQueue, t) /\ gpc' = [gpc EXCEPT ![e] = "release"] /\ gpc[e] = "retry"
      BY <2>3 DEF RetryLater, Go, At, AfterRetry
    <3>2. t.entry = e /\ e \notin EntriesOf(retryQueue) BY <2>2, <3>1 DEF TaskOf
    <3> HIDE DEF t
    <3>3. retryQueue \in Seq(TaskRecord \cup {t}) /\ t \in TaskRecord \cup {t} BY <1>0
    <3>4. EntriesOf(retryQueue') = EntriesOf(retryQueue) \cup {e} /\ Distinct(retryQueue')
      BY <3>1, <3>2, <3>3, SendToQueue DEF PlacesInv
    <3>5. gpc'[e] = "release" BY <1>0, <3>1
    <3> QED BY <2>1, <2>2, <3>4, <3>5 DEF PlacesInv
  <2>4. CASE ~RetryLater(e)
    <3>1. UNCHANGED retryQueue
          /\ (gpc[e] \in {"release", "releaseGlobal"} => gpc'[e] \in {"idle", "release", "releaseGlobal"})
      BY <1>14, <2>4, JobSteps
    <3> QED BY <2>1, <2>2, <3>1 DEF PlacesInv
  <2> QED BY <2>3, <2>4
<1>15. CASE Interrupt BY <1>0, <1>15, PlacesUnchanged DEF Interrupt
<1>16. CASE RefreshAddrs BY <1>0, <1>16, PlacesUnchanged DEF RefreshAddrs
<1>17. CASE NextCommand
  <2>1. EntriesOf(<<>>) = {} /\ Distinct(<<>>) BY EmptyQueue
  <2>2. jobCh' = <<>> /\ pending' = <<>> /\ retryQueue' = <<>> /\ gpc' = [e \in Entries |-> "idle"]
    BY <1>17 DEF NextCommand
  <2> QED BY <2>1, <2>2 DEF PlacesInv
<1>18. CASE UNCHANGED vars BY <1>0, <1>18, PlacesUnchanged DEF vars
<1> QED
  BY <1>1, <1>2, <1>3, <1>4, <1>5, <1>6, <1>8, <1>9, <1>10, <1>11, <1>12, <1>13, <1>14,
     <1>15, <1>16, <1>17, <1>18
  DEF Next, Producer, Command, Finished

-----------------------------------------------------------------------------
(* What a job has left to build.                                           *)

\* The directories of a queue are those of its jobs.
LEMMA MemberEntry == \A q : \A t \in Members(q) : t.entry \in EntriesOf(q)
BY DEF Members, EntriesOf

\* A step that changes neither results nor options changes no debt; the rest
\* of WorkInv is about the queues and the goroutines.
LEMMA WorkKept ==
    ASSUME WorkInv, UNCHANGED <<opts, db>>,
           \A t \in Members(jobCh') \cup Members(pending') \cup Members(retryQueue') :
              t.at = 1 /\ Owes(t, t.entry),
           \A e \in Entries :
              /\ gpc'[e] \in Building => Owes(task'[e], e)
              /\ gpc'[e] = "apply" /\ ok'[e] => Unbuilt(e) = {}
    PROVE  WorkInv'
<1>1. \A e : Unbuilt(e)' = Unbuilt(e) BY DEF Unbuilt, ModeSet
<1> QED BY <1>1 DEF WorkInv, Owes, Building, Members, Left

\* The same for a step that moves jobs out of queues, but into no goroutine.
LEMMA WorkQueues ==
    ASSUME WorkInv, UNCHANGED <<opts, db, gpc, task, ok>>,
           Members(jobCh') \cup Members(pending') \cup Members(retryQueue')
              \subseteq Members(jobCh) \cup Members(pending) \cup Members(retryQueue)
    PROVE  WorkInv'
<1>1. \A t \in Members(jobCh') \cup Members(pending') \cup Members(retryQueue') :
         t.at = 1 /\ Owes(t, t.entry)
  BY DEF WorkInv
<1>2. \A e \in Entries :
         /\ gpc'[e] \in Building => Owes(task'[e], e)
         /\ gpc'[e] = "apply" /\ ok'[e] => Unbuilt(e) = {}
  BY DEF WorkInv
<1> QED BY <1>1, <1>2, WorkKept

\* The same for a step of a job that leaves the queues, the results and the
\* current format alone.
LEMMA WorkJob ==
    ASSUME TypeBase, WorkInv, NEW e \in Entries, UNCHANGED <<opts, db, jobCh, pending, retryQueue>>,
           \A x \in Entries : x # e => gpc'[x] = gpc[x] /\ task'[x] = task[x] /\ ok'[x] = ok[x],
           gpc'[e] \in Building => Owes(task'[e], e),
           gpc'[e] # "apply"
    PROVE  WorkInv'
<1>1. \A t \in Members(jobCh') \cup Members(pending') \cup Members(retryQueue') :
         t.at = 1 /\ Owes(t, t.entry)
  BY DEF WorkInv
<1>2. \A x \in Entries :
         /\ gpc'[x] \in Building => Owes(task'[x], x)
         /\ gpc'[x] = "apply" /\ ok'[x] => Unbuilt(x) = {}
  <2> SUFFICES ASSUME NEW x \in Entries
               PROVE  /\ gpc'[x] \in Building => Owes(task'[x], x)
                      /\ gpc'[x] = "apply" /\ ok'[x] => Unbuilt(x) = {}
    OBVIOUS
  <2>1. CASE x = e BY <2>1
  <2>2. CASE x # e BY <2>2 DEF WorkInv
  <2> QED BY <2>1, <2>2
<1> QED BY <1>1, <1>2, WorkKept

\* A result is stored: the format is built, or the job ends as failed.
LEMMA WorkStored ==
    ASSUME TypeBase, ControlInv, PlacesInv, WorkInv, NEW e \in Entries, StoreResult(e)
    PROVE  WorkInv'
<1> DEFINE c == Current(e)
           u == [task[e] EXCEPT !.at = 2]
<1>1. task[e] \in TaskRecord /\ Owes(task[e], e) /\ gpc[e] = "store"
  BY DEF StoreResult, At, WorkInv, Building, TypeBase
<1>2. /\ c \in Formats /\ c \in Left(task[e])
      /\ MoreSpecs(task[e]) => /\ task[e].at = 1 /\ Len(task[e].specs) = 2
                               /\ \A v \in TaskRecord : v.specs = task[e].specs /\ v.at = 2
                                     => Left(v) = Left(task[e]) \ {c}
      /\ ~MoreSpecs(task[e]) => Left(task[e]) = {c}
  BY <1>1, LeftFacts DEF Owes, Current
<1>3. u \in TaskRecord /\ u.specs = task[e].specs /\ u.at = 2 BY <1>1, SecondSpec
<1>4. /\ db' = [db EXCEPT ![e][c] = IF ok[e] THEN "ok" ELSE "fail"]
      /\ UNCHANGED <<opts, ok, jobCh, pending, retryQueue>>
  BY DEF StoreResult, command, main, jobs
<1>5. \/ /\ ok[e] /\ MoreSpecs(task[e])
         /\ task' = [task EXCEPT ![e].at = @ + 1] /\ gpc' = [gpc EXCEPT ![e] = "build"]
      \/ /\ ~(ok[e] /\ MoreSpecs(task[e]))
         /\ task' = task /\ gpc' = [gpc EXCEPT ![e] = "apply"]
  BY DEF StoreResult, Go
<1> HIDE DEF c, u
<1>6. ModeSet' = ModeSet BY <1>4 DEF ModeSet
<1>7. \A x \in Entries : x # e => Unbuilt(x)' = Unbuilt(x)
  BY <1>4, <1>6 DEF Unbuilt, TypeBase
<1>8. db'[e] = [db[e] EXCEPT ![c] = IF ok[e] THEN "ok" ELSE "fail"]
  BY <1>4 DEF TypeBase
<1>9. ok[e] => Unbuilt(e)' = Unbuilt(e) \ {c}
  <2>1. db[e] \in [Formats -> {"none", "ok", "fail"}] BY DEF TypeBase
  <2>2. opts \in Options BY DEF TypeBase
  <2>3. \A f \in ModeSet : f \in Formats BY <2>2, ModeFacts
  <2>4. ASSUME ok[e] PROVE \A f \in Formats : db'[e][f] # "ok" <=> db[e][f] # "ok" /\ f # c
    BY <1>2, <1>8, <2>1, <2>4
  <2> QED BY <1>6, <2>3, <2>4 DEF Unbuilt
<1>10. \A t \in Members(jobCh) \cup Members(pending) \cup Members(retryQueue) : t.entry # e /\ t.entry \in Entries
  <2>1. e \notin EntriesOf(jobCh) \cup EntriesOf(pending) \cup EntriesOf(retryQueue)
    BY <1>1 DEF PlacesInv
  <2> QED BY <2>1, MemberEntry DEF PlacesInv
<1>11. \A t \in Members(jobCh') \cup Members(pending') \cup Members(retryQueue') :
         t.at = 1 /\ Left(t) = Unbuilt(t.entry)' /\ t.at <= Len(t.specs)
  BY <1>4, <1>7, <1>10 DEF WorkInv, Owes
<1>12. \A x \in Entries : x # e =>
          /\ gpc'[x] \in Building => Left(task'[x]) = Unbuilt(x)' /\ task'[x].at <= Len(task'[x].specs)
          /\ gpc'[x] = "apply" /\ ok'[x] => Unbuilt(x)' = {}
  <2> SUFFICES ASSUME NEW x \in Entries, x # e
               PROVE  /\ gpc'[x] \in Building => Left(task'[x]) = Unbuilt(x)' /\ task'[x].at <= Len(task'[x].specs)
                      /\ gpc'[x] = "apply" /\ ok'[x] => Unbuilt(x)' = {}
    OBVIOUS
  <2>1. gpc'[x] = gpc[x] /\ task'[x] = task[x] /\ ok'[x] = ok[x] BY <1>4, <1>5 DEF TypeBase
  <2> QED BY <1>7, <2>1 DEF WorkInv, Owes
<1>13. /\ gpc'[e] \in Building => Left(task'[e]) = Unbuilt(e)' /\ task'[e].at <= Len(task'[e].specs)
       /\ gpc'[e] = "apply" /\ ok'[e] => Unbuilt(e)' = {}
  <2>1. CASE ok[e] /\ MoreSpecs(task[e])
    <3>1. task' = [task EXCEPT ![e] = u] /\ gpc'[e] = "build" BY <1>2, <1>5, <2>1 DEF TypeBase, u
    <3>2. task'[e] = u BY <3>1 DEF TypeBase
    <3>3. Left(u) = Left(task[e]) \ {c} /\ u.at <= Len(u.specs)
      <4>1. Left(u) = Left(task[e]) \ {c}
        BY <1>2, <1>3, <2>1
      <4>2. Len(u.specs) = 2
        BY <1>2, <1>3, <2>1
      <4> QED BY <1>3, <4>1, <4>2
    <3>4. Left(task'[e]) = Unbuilt(e)'
      BY <1>1, <1>9, <2>1, <3>2, <3>3 DEF Owes
    <3> QED BY <3>1, <3>2, <3>3, <3>4
  <2>2. CASE ~(ok[e] /\ MoreSpecs(task[e]))
    <3>1. gpc'[e] = "apply" /\ ok'[e] = ok[e] BY <1>4, <1>5, <2>2 DEF TypeBase
    <3>2. ok[e] => Unbuilt(e)' = {} BY <1>1, <1>2, <1>9, <2>2 DEF Owes
    <3> QED BY <3>1, <3>2 DEF Building
  <2> QED BY <2>1, <2>2
<1>14. \A x \in Entries :
          /\ gpc'[x] \in Building => Left(task'[x]) = Unbuilt(x)' /\ task'[x].at <= Len(task'[x].specs)
          /\ gpc'[x] = "apply" /\ ok'[x] => Unbuilt(x)' = {}
  BY <1>12, <1>13
<1> QED BY <1>11, <1>14 DEF WorkInv, Owes

\* Every action keeps what the jobs have left to build.
LEMMA WorkStep == TypeBase /\ ControlInv /\ PlacesInv /\ WorkInv /\ [Next]_vars => WorkInv'
<1> SUFFICES ASSUME TypeBase, ControlInv, PlacesInv, WorkInv, [Next]_vars PROVE WorkInv' OBVIOUS
<1> USE DEF command, flags, producer, main, jobs, sems, addrs, counters
<1>0. jobCh \in Seq(TaskRecord) /\ pending \in Seq(TaskRecord) /\ retryQueue \in Seq(TaskRecord)
  BY DEF TypeBase
<1>1. CASE PrepareNext BY <1>1, WorkQueues DEF PrepareNext
<1>2. CASE PrepareFails BY <1>2, WorkQueues DEF PrepareFails
<1>3. CASE PrepareSkips BY <1>3, WorkQueues DEF PrepareSkips
<1>4. CASE PrepareSends
  <2> DEFINE t == TaskOf(prep, PendingSpecs(prep), 0)
  <2>1. prep \in Entries
    BY <1>4, NAssumption DEF PrepareSends, ControlInv, Entries, TypeBase
  <2>2. t \in TaskRecord /\ t.entry = prep /\ t.at = 1 /\ Owes(t, prep)
    BY <1>4, <2>1, PreparedJob DEF PrepareSends, TaskOf
  <2>3. jobCh' = Append(jobCh, t) /\ UNCHANGED <<opts, db, pending, retryQueue, gpc, task, ok>>
    BY <1>4 DEF PrepareSends
  <2> HIDE DEF t
  <2>4. Members(jobCh') = Members(jobCh) \cup {t}
    BY <1>0, <2>2, <2>3, SendToQueue
  <2>5. \A x \in Members(jobCh') \cup Members(pending') \cup Members(retryQueue') :
           x.at = 1 /\ Owes(x, x.entry)
    BY <2>2, <2>3, <2>4 DEF WorkInv
  <2>6. \A e \in Entries :
         /\ gpc'[e] \in Building => Owes(task'[e], e)
         /\ gpc'[e] = "apply" /\ ok'[e] => Unbuilt(e) = {}
    BY <2>3 DEF WorkInv
  <2> QED BY <2>3, <2>5, <2>6, WorkKept
<1>5. CASE ReceiveJob
  <2>1. Members(Tail(jobCh)) \subseteq Members(jobCh) /\ Head(jobCh) \in Members(jobCh)
    BY <1>0, <1>5, TakeFromQueue DEF ReceiveJob
  <2>2. Members(<<Head(jobCh)>>) = {Head(jobCh)} BY SingleQueue
  <2>3. jobCh' = Tail(jobCh) /\ UNCHANGED <<opts, db, retryQueue, gpc, task, ok>>
        /\ (pending' = <<Head(jobCh)>> \/ pending' = pending)
    BY <1>5 DEF ReceiveJob
  <2> QED BY <2>1, <2>2, <2>3, WorkQueues
<1>6. CASE JoinProducer BY <1>6, WorkQueues DEF JoinProducer
<1>7. AfterRefusal /\ UNCHANGED <<opts, db, jobCh, retryQueue, gpc, task, ok>> => WorkInv'
  <2>1. Members(<<>>) = {} BY EmptyQueue
  <2> QED BY <2>1, WorkQueues DEF AfterRefusal
<1>8. CASE CheckStop
  <2>1. CASE CheckStopped BY <1>7, <1>8, <2>1 DEF CheckStop
  <2>2. CASE ~CheckStopped BY <1>8, <2>2, WorkQueues DEF CheckStop
  <2> QED BY <2>1, <2>2
<1>9. CASE WaitForSlot
  <2>1. CASE AfterRefusal BY <1>7, <1>9, <2>1 DEF WaitForSlot
  <2>2. CASE ~AfterRefusal BY <1>9, <2>2, WorkQueues DEF WaitForSlot
  <2> QED BY <2>1, <2>2
<1>10. CASE StartBuild
  <2> DEFINE t == Head(pending)
  <2>1. /\ mpc = "global" /\ pending' = Tail(pending) /\ gpc' = [gpc EXCEPT ![t.entry] = "build"]
        /\ task' = [task EXCEPT ![t.entry] = t] /\ UNCHANGED <<opts, db, ok, jobCh, retryQueue>>
    BY <1>10 DEF StartBuild, AfterStart
  <2>2. t \in Members(pending) /\ Members(Tail(pending)) \subseteq Members(pending)
    BY <1>0, <2>1, TakeFromQueue DEF ControlInv
  <2> HIDE DEF t
  <2>3. Owes(t, t.entry) BY <2>2 DEF WorkInv
  <2>4. \A x \in Members(jobCh') \cup Members(pending') \cup Members(retryQueue') :
           x.at = 1 /\ Owes(x, x.entry)
    BY <2>1, <2>2 DEF WorkInv
  <2>5. ASSUME NEW e \in Entries
        PROVE  /\ gpc'[e] \in Building => Owes(task'[e], e)
               /\ gpc'[e] = "apply" /\ ok'[e] => Unbuilt(e) = {}
    <3>1. CASE e = t.entry
      <4>1. gpc'[e] = "build" /\ task'[e] = t BY <2>1, <3>1 DEF TypeBase
      <4> QED BY <2>3, <3>1, <4>1
    <3>2. CASE e # t.entry
      <4>1. gpc'[e] = gpc[e] /\ task'[e] = task[e] /\ ok'[e] = ok[e] BY <2>1, <3>2 DEF TypeBase
      <4> QED BY <4>1 DEF WorkInv
    <3> QED BY <3>1, <3>2
  <2> QED BY <2>1, <2>4, <2>5, WorkKept
<1>11. CASE ReleaseWorker BY <1>7, <1>11 DEF ReleaseWorker
<1>12. CASE DrainRetries
  <2>1. Members(<<>>) = {} BY EmptyQueue
  <2> QED BY <1>12, <2>1, WorkQueues DEF DrainRetries
<1>13. CASE Return BY <1>13, WorkQueues DEF Return
<1>20. ASSUME NEW e \in Entries, Job(e)
       PROVE  /\ UNCHANGED <<opts, jobCh, pending>>
              /\ \A x \in Entries : x # e => gpc'[x] = gpc[x] /\ task'[x] = task[x] /\ ok'[x] = ok[x]
  BY <1>20, JobSteps
<1>21. ASSUME NEW e \in Entries, BuildReturns(e) PROVE WorkInv'
  <2>1. gpc[e] = "build" /\ gpc'[e] \in {"retry", "store"} /\ UNCHANGED <<db, task, retryQueue>>
    BY <1>21 DEF BuildReturns, At, Go, TypeBase
  <2>2. Owes(task'[e], e) /\ gpc'[e] # "apply" BY <2>1 DEF WorkInv, Building
  <2> QED BY <1>20, <1>21, <2>1, <2>2, WorkJob DEF Job
<1>22. ASSUME NEW e \in Entries, RetryLater(e) PROVE WorkInv'
  <2> DEFINE t == TaskOf(e, Remaining(task[e]), task[e].attempt + 1)
  <2>1. /\ gpc[e] = "retry" /\ retryQueue' = Append(retryQueue, t) /\ gpc' = [gpc EXCEPT ![e] = "release"]
        /\ UNCHANGED <<opts, db, task, ok, jobCh, pending>>
    BY <1>22 DEF RetryLater, At, Go, AfterRetry
  <2>2. task[e] \in TaskRecord /\ Owes(task[e], e) /\ task[e].attempt + 1 \in Nat
    BY <2>1 DEF WorkInv, Building, TypeBase, TaskRecord
  <2>3. /\ t \in TaskRecord /\ t.entry = e /\ t.at = 1
        /\ Left(t) = Left(task[e]) /\ task[e].specs[task[e].at] \in Left(task[e])
    BY <2>2, LeftFacts DEF Owes, TaskOf
  <2> HIDE DEF t
  <2>4. t.at <= Len(t.specs)
    <3>1. t.specs \in SpecLists BY <2>3 DEF TaskRecord
    <3>2. Len(t.specs) \in Nat BY <3>1, SpecListFacts
    <3>3. Left(t) # {} BY <2>3
    <3> QED BY <2>3, <3>2, <3>3 DEF Left
  <2>5. Members(retryQueue') = Members(retryQueue) \cup {t}
    BY <1>0, <2>1, <2>3, SendToQueue
  <2>6. \A x \in Members(jobCh') \cup Members(pending') \cup Members(retryQueue') :
           x.at = 1 /\ Owes(x, x.entry)
    BY <2>1, <2>2, <2>3, <2>4, <2>5 DEF WorkInv, Owes
  <2>7. \A x \in Entries :
         /\ gpc'[x] \in Building => Owes(task'[x], x)
         /\ gpc'[x] = "apply" /\ ok'[x] => Unbuilt(x) = {}
    BY <2>1 DEF WorkInv, TypeBase, Building
  <2> QED BY <2>1, <2>6, <2>7, WorkKept
<1>23. ASSUME NEW e \in Entries, StoreResult(e) PROVE WorkInv' BY <1>23, WorkStored
<1>24. ASSUME NEW e \in Entries,
              StoreFails(e) \/ Apply(e) \/ Flag(e) \/ CancelRun(e) \/ ReleaseSlot(e) \/ ReleaseGlobal(e)
       PROVE  WorkInv'
  <2>1. gpc'[e] \in {"idle", "flag", "cancel", "release", "releaseGlobal"} /\ UNCHANGED <<db, retryQueue>>
    BY <1>24 DEF StoreFails, Apply, Flag, CancelRun, ReleaseSlot, ReleaseGlobal, At, Go, TypeBase
  <2>2. gpc'[e] \notin Building /\ gpc'[e] # "apply" BY <2>1 DEF Building
  <2> QED BY <1>20, <1>24, <2>1, <2>2, WorkJob DEF Job
<1>15. CASE Interrupt BY <1>15, WorkQueues DEF Interrupt
<1>16. CASE RefreshAddrs BY <1>16, WorkQueues DEF RefreshAddrs
<1>17. CASE NextCommand
  <2>1. Members(<<>>) = {} BY EmptyQueue
  <2>2. jobCh' = <<>> /\ pending' = <<>> /\ retryQueue' = <<>> /\ gpc' = [e \in Entries |-> "idle"]
    BY <1>17 DEF NextCommand
  <2> QED BY <2>1, <2>2 DEF WorkInv, Building
<1>18. CASE UNCHANGED vars BY <1>18, WorkQueues DEF vars
<1> QED
  BY <1>1, <1>2, <1>3, <1>4, <1>5, <1>6, <1>8, <1>9, <1>10, <1>11, <1>12, <1>13,
     <1>15, <1>16, <1>17, <1>18, <1>21, <1>22, <1>23, <1>24
  DEF Next, Producer, Command, Job, Finished

-----------------------------------------------------------------------------
\* The invariant that the others rest on.
JobsInv == TypeBase /\ ControlInv /\ PlacesInv /\ WorkInv

\* It holds of a command that starts on an empty store.
LEMMA JobsInit == Init => JobsInv
<1> SUFFICES ASSUME Init PROVE JobsInv OBVIOUS
<1> USE NAssumption, ConcurrencyAssumption DEF Init
<1>1. NoTask \in TaskRecord BY DEF NoTask, TaskOf, TaskRecord, SpecLists
<1>2. <<>> \in Seq(TaskRecord) /\ Len(<<>>) = 0 OBVIOUS
<1>3. pool \subseteq Slots /\ pool # {} /\ fresh \subseteq Slots
  <2>1. pool \in (SUBSET Slots) \ {{}} /\ fresh = Slots \ pool OBVIOUS
  <2> QED BY ONLY <2>1, Zenon
<1>4. /\ gpc \in [Entries -> Pcs] /\ task \in [Entries -> TaskRecord]
      /\ gslot \in [Entries -> Slots \cup {NoSlot}] /\ ok \in [Entries -> BOOLEAN]
      /\ states \in [Entries -> {"unknown", "succeeded", "failed"}]
      /\ db \in [Entries -> [Formats -> {"none", "ok", "fail"}]]
  BY <1>1 DEF Pcs
<1>9. /\ jobCh \in Seq(TaskRecord) /\ pending \in Seq(TaskRecord) /\ retryQueue \in Seq(TaskRecord)
      /\ Len(jobCh) <= Concurrency /\ Len(retryQueue) <= RetryCap
  BY <1>2 DEF RetryCap
<1>10. run \in 1..MaxRuns /\ prep \in 1..(N + 1) OBVIOUS
<1>5. TypeBase
  <2> HIDE DEF Pcs
  <2> QED BY <1>3, <1>4, <1>9, <1>10 DEF TypeBase
<1>6. ControlInv BY <1>2 DEF ControlInv
<1>7. PlacesInv BY EmptyQueue DEF PlacesInv
<1>8. WorkInv BY EmptyQueue DEF WorkInv, Building
<1> QED BY <1>5, <1>6, <1>7, <1>8 DEF JobsInv

\* Every step keeps it.
LEMMA JobsStep == JobsInv /\ [Next]_vars => JobsInv'
BY TypeStep, ControlStep, PlacesStep, WorkStep DEF JobsInv

\* Every reachable state has it.
THEOREM JobsAreConsistent == Spec => []JobsInv
BY JobsInit, JobsStep, PTL DEF Spec

\* A format whose success is stored in LMDB is never built again, by a retry or
\* by a later command, whatever crashes and failures came between.
THEOREM BuiltOnce == Spec => []NothingBuiltTwice
<1>1. JobsInv => NothingBuiltTwice
  <2> SUFFICES ASSUME JobsInv, NEW e \in Entries, gpc[e] = "build"
               PROVE  db[e][Current(e)] # "ok"
    BY DEF NothingBuiltTwice
  <2>1. task[e] \in TaskRecord /\ Owes(task[e], e)
    BY DEF JobsInv, WorkInv, TypeBase, Building
  <2>2. task[e].specs[task[e].at] \in Left(task[e]) BY <2>1, LeftFacts DEF Owes
  <2> QED BY <2>1, <2>2 DEF Owes, Unbuilt, Current
<1> QED BY <1>1, JobsAreConsistent, PTL

-----------------------------------------------------------------------------
(* Stopping.                                                               *)

\* The one build that may start late is the one that scheduleTask had let
\* through; the next one finds the command stopped.
LateInv ==
    /\ late \in {0, 1}
    /\ late = 1 => Stopped
    /\ mpc \in {"slot", "global"} => late = 0

\* Every step keeps LateInv.
LEMMA LateStep == JobsInv /\ LateInv /\ [Next]_vars => LateInv'
<1> SUFFICES ASSUME JobsInv, LateInv, [Next]_vars PROVE LateInv' OBVIOUS
<1> USE DEF LateInv, Stopped, command, flags, producer, main, jobs, sems, addrs, counters
<1>1. CASE Producer
  BY <1>1 DEF Producer, PrepareNext, PrepareFails, PrepareSkips, PrepareSends
<1>2. CASE ReceiveJob BY <1>2 DEF ReceiveJob
<1>3. CASE JoinProducer BY <1>3 DEF JoinProducer
<1>4. CASE CheckStop BY <1>4 DEF CheckStop, CheckStopped, AfterRefusal
<1>5. CASE WaitForSlot BY <1>5 DEF WaitForSlot, AfterRefusal
<1>6. CASE StartBuild
  <2>1. /\ late = 0 /\ late' = IF Stopped THEN late + 1 ELSE late
        /\ mpc' \in {"recv", "check", "wait"} /\ UNCHANGED <<ctxDone, failed, opts>>
    BY <1>6 DEF StartBuild, AfterStart
  <2> QED BY <2>1
<1>7. CASE ReleaseWorker BY <1>7 DEF ReleaseWorker, AfterRefusal
<1>8. CASE DrainRetries \/ Return BY <1>8 DEF DrainRetries, Return
<1>9. ASSUME NEW e \in Entries, Job(e) PROVE LateInv'
  <2>1. UNCHANGED <<opts, mpc, late>> BY <1>9, JobSteps DEF JobsInv
  <2>2. (ctxDone => ctxDone') /\ (failed => failed')
    BY <1>9 DEF Job, BuildReturns, RetryLater, StoreResult, StoreFails, Apply, Flag, FlagFailed,
                CancelRun, ReleaseSlot, ReleaseGlobal
  <2> QED BY <2>1, <2>2
<1>10. CASE Interrupt BY <1>10 DEF Interrupt
<1>11. CASE RefreshAddrs BY <1>11 DEF RefreshAddrs
<1>12. CASE NextCommand BY <1>12 DEF NextCommand
<1>13. CASE UNCHANGED vars BY <1>13 DEF vars
<1> QED
  BY <1>1, <1>2, <1>3, <1>4, <1>5, <1>6, <1>7, <1>8, <1>9, <1>10, <1>11, <1>12, <1>13
  DEF Next, Command, Finished

\* After an interrupt, a cancellation or, under --failfast, a failure, at most
\* the one build that scheduleTask had already let through starts.
THEOREM AtMostOneLateBuild == Spec => []StopsSoon
<1>1. Init => LateInv BY DEF Init, LateInv
<1>2. LateInv => StopsSoon BY DEF LateInv, StopsSoon
<1> QED BY <1>1, <1>2, LateStep, JobsAreConsistent, PTL DEF Spec

-----------------------------------------------------------------------------
(* The tokens of the semaphores.                                           *)

\* The places of a goroutine that holds a token of a worker.
Holds == {"build", "retry", "store", "apply", "flag", "cancel", "release"}
Active == {e \in Entries : gpc[e] # "idle"}

\* Who holds a token, and that no semaphore exceeds its capacity.
SlotInv ==
    /\ BatchSlotsAccounted
    /\ globalSem \in 0..Concurrency
    /\ addrSem \in [Slots -> 0..Concurrency]
    /\ mslot # NoSlot <=> mpc = "global"
    /\ \A e \in Entries : gslot[e] # NoSlot <=> gpc[e] \in Holds

\* Sets of directories are finite, and their size changes by one with a member.
LEMMA CountEntries ==
    ASSUME NEW A \in SUBSET Entries
    PROVE  /\ Cardinality(A) \in Nat
           /\ Cardinality(A) <= N
           /\ \A x \in Entries \ A : Cardinality(A \cup {x}) = Cardinality(A) + 1
           /\ \A x \in A : Cardinality(A \ {x}) = Cardinality(A) - 1
           /\ \A x \in A : Cardinality(A) >= 1
<1>1. IsFiniteSet(Entries) /\ Cardinality(Entries) = N
  BY FS_Interval, NAssumption DEF Entries
<1>2. IsFiniteSet(A) /\ Cardinality(A) <= Cardinality(Entries) BY <1>1, FS_Subset
<1>3. Cardinality(A) \in Nat BY <1>2, FS_CardinalityType
<1>4. \A x \in Entries \ A : Cardinality(A \cup {x}) = Cardinality(A) + 1
  BY <1>2, FS_AddElement
<1>5. ASSUME NEW x \in A
      PROVE  Cardinality(A \ {x}) = Cardinality(A) - 1 /\ Cardinality(A) >= 1
  <2>1. Cardinality(A \ {x}) = Cardinality(A) - 1 BY <1>2, FS_RemoveElement
  <2>2. Cardinality(A) # 0 BY <1>2, FS_EmptySet
  <2> QED BY <1>3, <2>1, <2>2
<1> QED BY <1>1, <1>2, <1>3, <1>4, <1>5

\* A step that moves no token.
LEMMA SlotKept ==
    ASSUME TypeBase, SlotInv, UNCHANGED <<globalSem, addrSem, gslot, mslot>>,
           mpc' = "global" <=> mpc = "global",
           \A e \in Entries : (gpc'[e] = "idle" <=> gpc[e] = "idle") /\ (gpc'[e] \in Holds <=> gpc[e] \in Holds)
    PROVE  SlotInv'
<1>1. {e \in Entries : gpc'[e] # "idle"} = {e \in Entries : gpc[e] # "idle"} OBVIOUS
<1>2. \A s \in Slots : SlotHolders(s)' = SlotHolders(s) BY DEF SlotHolders
<1>3. BatchSlotsAccounted' BY <1>1, <1>2 DEF BatchSlotsAccounted, SlotInv
<1> QED BY <1>3 DEF SlotInv

\* Every step keeps the tokens accounted for.
LEMMA SlotStep == JobsInv /\ SlotInv /\ [Next]_vars => SlotInv'
<1> SUFFICES ASSUME JobsInv, SlotInv, [Next]_vars PROVE SlotInv' OBVIOUS
<1> USE DEF command, flags, producer, main, jobs, sems, addrs, counters
<1>0. /\ TypeBase /\ ControlInv /\ PlacesInv /\ Concurrency \in Nat \ {0} /\ NoSlot \notin Slots
      /\ gpc \in [Entries -> Pcs] /\ gslot \in [Entries -> Slots \cup {NoSlot}]
      /\ mslot \in Slots \cup {NoSlot} /\ pool \subseteq Slots
  BY ConcurrencyAssumption, SlotsAssumption DEF JobsInv, TypeBase
<1>1. CASE Producer
  BY <1>0, <1>1, SlotKept DEF Producer, PrepareNext, PrepareFails, PrepareSkips, PrepareSends
<1>2. CASE ReceiveJob BY <1>0, <1>2, SlotKept DEF ReceiveJob
<1>3. CASE JoinProducer BY <1>0, <1>3, SlotKept DEF JoinProducer
<1>4. CASE CheckStop BY <1>0, <1>4, SlotKept DEF CheckStop, AfterRefusal
<1>5. CASE WaitForSlot
  <2>1. CASE AfterRefusal /\ UNCHANGED <<addrSem, mslot>>
    BY <1>0, <1>5, <2>1, SlotKept DEF WaitForSlot, AfterRefusal
  <2>2. CASE ~(AfterRefusal /\ UNCHANGED <<addrSem, mslot>>)
    <3>1. PICK s \in pool : /\ Free(s) /\ addrSem' = [addrSem EXCEPT ![s] = @ + 1]
                            /\ mslot' = s /\ mpc' = "global"
      BY <1>5, <2>2 DEF WaitForSlot
    <3>2. mpc = "slot" /\ UNCHANGED <<globalSem, gpc, gslot>> BY <1>5 DEF WaitForSlot
    <3>3. s \in Slots /\ s # NoSlot /\ mslot = NoSlot BY <1>0, <3>2 DEF SlotInv
    <3>4. addrSem' \in [Slots -> 0..Concurrency] BY <1>0, <3>1, <3>3 DEF SlotInv, Free
    <3>5. \A x \in Slots : SlotHolders(x)' = SlotHolders(x) BY <3>2 DEF SlotHolders
    <3>6. \A x \in Slots : addrSem'[x] = Cardinality(SlotHolders(x)') + (IF mslot' = x THEN 1 ELSE 0)
      <4> SUFFICES ASSUME NEW x \in Slots
                   PROVE  addrSem'[x] = Cardinality(SlotHolders(x)) + (IF mslot' = x THEN 1 ELSE 0)
        BY <3>5
      <4>0. Cardinality(SlotHolders(x)) \in Nat BY CountEntries DEF SlotHolders
      <4>1. addrSem[x] = Cardinality(SlotHolders(x)) BY <1>0, <3>3, <4>0 DEF SlotInv, BatchSlotsAccounted
      <4>2. addrSem'[x] = IF x = s THEN addrSem[x] + 1 ELSE addrSem[x] BY <3>1, <3>3 DEF SlotInv
      <4>3. addrSem[x] \in Nat BY <1>0 DEF SlotInv
      <4> QED BY <3>1, <4>1, <4>2, <4>3
    <3> QED BY <3>1, <3>2, <3>3, <3>4, <3>6 DEF SlotInv, BatchSlotsAccounted
  <2> QED BY <2>1, <2>2
<1>6. CASE StartBuild
  <2> DEFINE x == Head(pending).entry
  <2>1. /\ mpc = "global" /\ mpc' # "global" /\ globalSem < Concurrency /\ globalSem' = globalSem + 1
        /\ gpc' = [gpc EXCEPT ![x] = "build"] /\ gslot' = [gslot EXCEPT ![x] = mslot]
        /\ mslot' = NoSlot /\ UNCHANGED addrSem
    BY <1>6 DEF StartBuild, AfterStart
  <2>2. x \in EntriesOf(pending)
    BY <1>0, <2>1, TakeFromQueue DEF TypeBase, ControlInv
  <2> HIDE DEF x
  <2>3. x \in Entries /\ gpc[x] = "idle" BY <1>0, <2>2 DEF PlacesInv
  <2>4. gslot[x] = NoSlot /\ mslot \in Slots BY <1>0, <2>1, <2>3 DEF SlotInv, Holds
  <2>5. globalSem' = Cardinality({e \in Entries : gpc'[e] # "idle"})
    <3>1. {e \in Entries : gpc'[e] # "idle"} = Active \cup {x} BY <1>0, <2>1, <2>3 DEF Active
    <3>2. Active \in SUBSET Entries /\ x \in Entries \ Active BY <2>3 DEF Active
    <3>3. Cardinality(Active \cup {x}) = Cardinality(Active) + 1 BY <3>2, CountEntries
    <3> QED BY <2>1, <3>1, <3>3 DEF SlotInv, BatchSlotsAccounted, Active
  <2>6. ASSUME NEW s \in Slots
        PROVE  addrSem'[s] = Cardinality(SlotHolders(s)') + (IF mslot' = s THEN 1 ELSE 0)
    <3>0. mslot' # s BY <1>0, <2>1
    <3>1. CASE s = mslot
      <4>1. SlotHolders(s)' = SlotHolders(s) \cup {x}
        BY <1>0, <2>1, <2>3, <3>1 DEF SlotHolders
      <4>2. SlotHolders(s) \in SUBSET Entries /\ x \in Entries \ SlotHolders(s)
        BY <1>0, <2>3, <2>4 DEF SlotHolders
      <4>3. Cardinality(SlotHolders(s)') = Cardinality(SlotHolders(s)) + 1 BY <4>1, <4>2, CountEntries
      <4>4. Cardinality(SlotHolders(s)) \in Nat BY <4>2, CountEntries
      <4> QED BY <2>1, <3>0, <3>1, <4>3, <4>4 DEF SlotInv, BatchSlotsAccounted
    <3>2. CASE s # mslot
      <4>1. SlotHolders(s)' = SlotHolders(s)
        BY <1>0, <2>1, <2>3, <2>4, <3>2 DEF SlotHolders
      <4> QED BY <2>1, <3>0, <3>2, <4>1 DEF SlotInv, BatchSlotsAccounted
    <3> QED BY <3>1, <3>2
  <2>7. globalSem' \in 0..Concurrency BY <1>0, <2>1 DEF SlotInv
  <2>8. \A e \in Entries : gslot'[e] # NoSlot <=> gpc'[e] \in Holds
    BY <1>0, <2>1, <2>3, <2>4 DEF SlotInv, Holds
  <2> QED BY <2>1, <2>5, <2>6, <2>7, <2>8 DEF SlotInv, BatchSlotsAccounted
<1>7. CASE ReleaseWorker
  <2>1. /\ mpc = "global" /\ mpc' # "global" /\ addrSem' = [addrSem EXCEPT ![mslot] = @ - 1]
        /\ mslot' = NoSlot /\ UNCHANGED <<globalSem, gpc, gslot>>
    BY <1>7 DEF ReleaseWorker, GiveBackSlot, AfterRefusal
  <2>2. mslot \in Slots BY <1>0, <2>1 DEF SlotInv
  <2>3. \A s \in Slots : SlotHolders(s)' = SlotHolders(s) BY <2>1 DEF SlotHolders
  <2>4. ASSUME NEW s \in Slots
        PROVE  /\ addrSem'[s] = Cardinality(SlotHolders(s)') + (IF mslot' = s THEN 1 ELSE 0)
               /\ addrSem'[s] \in 0..Concurrency
    <3>1. mslot' # s BY <1>0, <2>1
    <3>2. SlotHolders(s) \in SUBSET Entries BY DEF SlotHolders
    <3>3. Cardinality(SlotHolders(s)) \in Nat BY <3>2, CountEntries
    <3>4. addrSem[s] = Cardinality(SlotHolders(s)) + (IF mslot = s THEN 1 ELSE 0)
          /\ addrSem[s] \in 0..Concurrency
      BY DEF SlotInv, BatchSlotsAccounted
    <3>5. addrSem'[s] = IF s = mslot THEN addrSem[s] - 1 ELSE addrSem[s] BY <2>1, <2>2 DEF SlotInv
    <3>6. addrSem'[s] = Cardinality(SlotHolders(s)) BY <3>3, <3>4, <3>5
    <3>7. addrSem'[s] \in 0..Concurrency BY <1>0, <3>3, <3>4, <3>5, <3>6
    <3> QED BY <2>3, <3>1, <3>3, <3>6, <3>7
  <2>5. addrSem' \in [Slots -> 0..Concurrency] BY <2>1, <2>4 DEF SlotInv
  <2> QED BY <2>1, <2>4, <2>5 DEF SlotInv, BatchSlotsAccounted
<1>8. CASE DrainRetries \/ Return BY <1>0, <1>8, SlotKept DEF DrainRetries, Return
<1>9. ASSUME NEW e \in Entries,
             BuildReturns(e) \/ RetryLater(e) \/ StoreResult(e) \/ StoreFails(e) \/ Apply(e) \/ Flag(e) \/ CancelRun(e)
      PROVE  SlotInv'
  <2>1. /\ gpc[e] \in Holds /\ gpc'[e] \in Holds /\ \A x \in Entries : x # e => gpc'[x] = gpc[x]
        /\ UNCHANGED <<globalSem, addrSem, gslot, mslot, mpc>>
    BY <1>0, <1>9 DEF BuildReturns, RetryLater, StoreResult, StoreFails, Apply, Flag, FlagFailed, CancelRun,
             AfterRetry, At, Go, Holds
  <2>2. "idle" \notin Holds BY DEF Holds
  <2> QED BY <1>0, <2>1, <2>2, SlotKept
<1>10. ASSUME NEW e \in Entries, ReleaseSlot(e) PROVE SlotInv'
  <2> DEFINE h == gslot[e]
  <2>1. /\ gpc[e] = "release" /\ addrSem' = [addrSem EXCEPT ![h] = @ - 1]
        /\ gslot' = [gslot EXCEPT ![e] = NoSlot] /\ gpc' = [gpc EXCEPT ![e] = "releaseGlobal"]
        /\ UNCHANGED <<mslot, mpc, globalSem>>
    BY <1>10 DEF ReleaseSlot, At, Go
  <2>2. h \in Slots BY <1>0, <2>1 DEF SlotInv, Holds
  <2> HIDE DEF h
  <2>3. ASSUME NEW s \in Slots
        PROVE  /\ addrSem'[s] = Cardinality(SlotHolders(s)') + (IF mslot' = s THEN 1 ELSE 0)
               /\ addrSem'[s] \in 0..Concurrency
    <3>1. SlotHolders(s) \in SUBSET Entries BY DEF SlotHolders
    <3>2. Cardinality(SlotHolders(s)) \in Nat BY <3>1, CountEntries
    <3>3. addrSem[s] = Cardinality(SlotHolders(s)) + (IF mslot = s THEN 1 ELSE 0)
          /\ addrSem[s] \in 0..Concurrency
      BY DEF SlotInv, BatchSlotsAccounted
    <3>4. CASE s = h
      <4>1. SlotHolders(s)' = SlotHolders(s) \ {e} /\ e \in SlotHolders(s)
        BY <1>0, <2>1, <3>4 DEF SlotHolders, h
      <4>2. Cardinality(SlotHolders(s)') = Cardinality(SlotHolders(s)) - 1 /\ Cardinality(SlotHolders(s)) >= 1
        BY <3>1, <4>1, CountEntries
      <4>3. addrSem'[s] = addrSem[s] - 1 BY <2>1, <3>4 DEF SlotInv
      <4>4. addrSem'[s] \in 0..Concurrency BY <1>0, <3>2, <3>3, <4>2, <4>3
      <4>5. addrSem'[s] = Cardinality(SlotHolders(s)') + (IF mslot' = s THEN 1 ELSE 0)
        BY <2>1, <3>2, <3>3, <4>2, <4>3
      <4> QED BY <4>4, <4>5
    <3>5. CASE s # h
      <4>1. SlotHolders(s)' = SlotHolders(s) BY <1>0, <2>1, <3>5 DEF SlotHolders, h
      <4>2. addrSem'[s] = addrSem[s] BY <2>1, <2>2, <3>5 DEF SlotInv
      <4> QED BY <2>1, <3>3, <4>1, <4>2
    <3> QED BY <3>4, <3>5
  <2>4. addrSem' \in [Slots -> 0..Concurrency] BY <2>1, <2>3 DEF SlotInv
  <2>5. {x \in Entries : gpc'[x] # "idle"} = {x \in Entries : gpc[x] # "idle"}
    BY <1>0, <2>1
  <2>6. \A x \in Entries : gslot'[x] # NoSlot <=> gpc'[x] \in Holds
    BY <1>0, <2>1 DEF SlotInv, Holds
  <2> QED BY <2>1, <2>3, <2>4, <2>5, <2>6 DEF SlotInv, BatchSlotsAccounted
<1>11. ASSUME NEW e \in Entries, ReleaseGlobal(e) PROVE SlotInv'
  <2>1. /\ gpc[e] = "releaseGlobal" /\ globalSem' = globalSem - 1 /\ gpc' = [gpc EXCEPT ![e] = "idle"]
        /\ UNCHANGED <<mslot, mpc, gslot, addrSem>>
    BY <1>11 DEF ReleaseGlobal, At, Go
  <2>2. {x \in Entries : gpc'[x] # "idle"} = Active \ {e} /\ e \in Active /\ Active \in SUBSET Entries
    BY <1>0, <2>1 DEF Active
  <2>3. Cardinality(Active \ {e}) = Cardinality(Active) - 1 /\ Cardinality(Active) >= 1 /\ Cardinality(Active) \in Nat
    BY <2>2, CountEntries
  <2>4. globalSem = Cardinality(Active) /\ globalSem \in 0..Concurrency
    BY DEF SlotInv, BatchSlotsAccounted, Active
  <2>5. globalSem' = Cardinality({x \in Entries : gpc'[x] # "idle"}) /\ globalSem' \in 0..Concurrency
    BY <1>0, <2>1, <2>2, <2>3, <2>4
  <2>6. \A s \in Slots : SlotHolders(s)' = SlotHolders(s) BY <2>1 DEF SlotHolders
  <2>7. \A x \in Entries : gslot'[x] # NoSlot <=> gpc'[x] \in Holds
    BY <1>0, <2>1 DEF SlotInv, Holds
  <2> QED BY <2>1, <2>5, <2>6, <2>7 DEF SlotInv, BatchSlotsAccounted
<1>12. CASE Interrupt BY <1>0, <1>12, SlotKept DEF Interrupt
<1>13. CASE RefreshAddrs BY <1>0, <1>13, SlotKept DEF RefreshAddrs
<1>14. CASE NextCommand
  <2>1. /\ gpc' = [e \in Entries |-> "idle"] /\ gslot' = [e \in Entries |-> NoSlot]
        /\ globalSem' = 0 /\ addrSem' = [s \in Slots |-> 0] /\ mslot' = NoSlot /\ mpc' = "recv"
    BY <1>14 DEF NextCommand
  <2>2. {e \in Entries : gpc'[e] # "idle"} = {} BY <2>1
  <2>3. \A s \in Slots : SlotHolders(s)' = {} BY <1>0, <2>1 DEF SlotHolders
  <2>4. Cardinality({}) = 0 BY FS_EmptySet
  <2>8. \A s \in Slots : addrSem'[s] = Cardinality(SlotHolders(s)') + (IF mslot' = s THEN 1 ELSE 0)
    BY <1>0, <2>1, <2>3, <2>4
  <2>5. BatchSlotsAccounted' BY <2>1, <2>2, <2>4, <2>8 DEF BatchSlotsAccounted
  <2>6. addrSem' \in [Slots -> 0..Concurrency] /\ globalSem' \in 0..Concurrency BY <1>0, <2>1
  <2>7. \A x \in Entries : gslot'[x] # NoSlot <=> gpc'[x] \in Holds BY <2>1 DEF Holds
  <2> QED BY <2>1, <2>5, <2>6, <2>7 DEF SlotInv
<1>15. CASE UNCHANGED vars BY <1>0, <1>15, SlotKept DEF vars
<1> QED
  BY <1>1, <1>2, <1>3, <1>4, <1>5, <1>6, <1>7, <1>8, <1>9, <1>10, <1>11, <1>12, <1>13, <1>14, <1>15
  DEF Next, Command, Job, Finished

\* A command starts with every token free.
LEMMA SlotInit == Init => SlotInv
<1> SUFFICES ASSUME Init PROVE SlotInv OBVIOUS
<1>0. Concurrency \in Nat \ {0} /\ NoSlot \notin Slots BY ConcurrencyAssumption, SlotsAssumption
<1>1. /\ gpc = [e \in Entries |-> "idle"] /\ gslot = [e \in Entries |-> NoSlot]
      /\ globalSem = 0 /\ addrSem = [s \in Slots |-> 0] /\ mslot = NoSlot /\ mpc = "recv"
  BY DEF Init
<1>2. {e \in Entries : gpc[e] # "idle"} = {} BY <1>1
<1>3. \A s \in Slots : SlotHolders(s) = {} BY <1>0, <1>1 DEF SlotHolders
<1>4. Cardinality({}) = 0 BY FS_EmptySet
<1>5. BatchSlotsAccounted BY <1>0, <1>1, <1>2, <1>3, <1>4 DEF BatchSlotsAccounted
<1>6. addrSem \in [Slots -> 0..Concurrency] /\ globalSem \in 0..Concurrency BY <1>0, <1>1
<1>7. \A x \in Entries : gslot[x] # NoSlot <=> gpc[x] \in Holds BY <1>1 DEF Holds
<1> QED BY <1>1, <1>5, <1>6, <1>7 DEF SlotInv

\* No token of a worker's semaphore or of the global one is lost or given back
\* twice, on an error, a retry or a cancellation, while the pool is replaced.
THEOREM TokensAccounted == Spec => []BatchSlotsAccounted
<1>1. SlotInv => BatchSlotsAccounted BY DEF SlotInv
<1> QED BY <1>1, SlotInit, SlotStep, JobsAreConsistent, PTL DEF Spec

-----------------------------------------------------------------------------
(* The counters.                                                           *)

InQueue(e) == e \in EntriesOf(jobCh) \cup EntriesOf(pending) \cup EntriesOf(retryQueue)
\* The directories without an outcome: not prepared yet, excluded, or with a
\* job that has not been counted.
Uncounted(e) ==
    InQueue(e) \/ gpc[e] \in Building \cup {"apply"} \/ e >= prep \/ e \in Excluded

In(o) == {e \in Entries : states[e] = o}
Passed == {e \in Excluded : e < prep}

\* An outcome is counted once, when it is there, and the total is short of the
\* directories that turned out to be excluded.
CountInv ==
    /\ \A e \in Entries : states[e] = "succeeded" => AllSucceeded(e)
    /\ \A e \in Entries : Uncounted(e) => states[e] = "unknown"
    /\ succeeded = Cardinality(In("succeeded"))
    /\ failures = Cardinality(In("failed"))
    /\ total = N - Cardinality(Passed)

\* The excluded directories that the preparation has passed.
LEMMA PassedFacts ==
    ASSUME NEW p \in 1..N
    PROVE  /\ {e \in Excluded : e < 1} = {}
           /\ p \in Excluded => {e \in Excluded : e < p + 1} = {e \in Excluded : e < p} \cup {p}
           /\ p \notin Excluded => {e \in Excluded : e < p + 1} = {e \in Excluded : e < p}
           /\ {e \in Excluded : e < p} \in SUBSET Entries /\ p \notin {e \in Excluded : e < p}
<1>1. N \in Nat /\ p \in Int BY NAssumption
<1>2. \A e \in Excluded : e \in Entries /\ e \in Int /\ e >= 1 BY <1>1, NAssumption DEF Entries
<1>3. \A e \in Excluded : ~(e < 1) /\ (e < p + 1 <=> e < p \/ e = p) BY <1>1, <1>2
<1>4. ~(p < p) /\ p < p + 1 BY <1>1
<1>5. {e \in Excluded : e < 1} = {} BY <1>3
<1>6. p \in Excluded => {e \in Excluded : e < p + 1} = {e \in Excluded : e < p} \cup {p} BY <1>3, <1>4
<1>7. p \notin Excluded => {e \in Excluded : e < p + 1} = {e \in Excluded : e < p} BY <1>3
<1> QED BY <1>2, <1>4, <1>5, <1>6, <1>7

\* A step that changes no outcome and gives no directory a new job.
LEMMA CountKept ==
    ASSUME CountInv, UNCHANGED <<opts, db, counters, prep>>,
           \A e \in Entries : Uncounted(e)' => Uncounted(e)
    PROVE  CountInv'
<1>1. \A e \in Entries : AllSucceeded(e)' <=> AllSucceeded(e) BY DEF AllSucceeded, ModeSet
<1>2. In("succeeded")' = In("succeeded") /\ In("failed")' = In("failed") /\ Passed' = Passed
  BY DEF In, Passed, counters
<1>3. states' = states /\ succeeded' = succeeded /\ failures' = failures /\ total' = total BY DEF counters
<1> QED BY <1>1, <1>2, <1>3 DEF CountInv

\* Every step keeps the counters.
LEMMA CountStep == JobsInv /\ CountInv /\ [Next]_vars => CountInv'
<1> SUFFICES ASSUME JobsInv, CountInv, [Next]_vars PROVE CountInv' OBVIOUS
<1> USE DEF command, flags, producer, main, jobs, sems, addrs
<1>0. /\ TypeBase /\ ControlInv /\ PlacesInv /\ WorkInv
      /\ prep \in 1..(N + 1) /\ N \in Nat /\ Excluded \subseteq Entries
      /\ gpc \in [Entries -> Pcs] /\ states \in [Entries -> {"unknown", "succeeded", "failed"}]
      /\ jobCh \in Seq(TaskRecord) /\ pending \in Seq(TaskRecord) /\ retryQueue \in Seq(TaskRecord)
  BY NAssumption DEF JobsInv, TypeBase
<1>1. CASE PrepareNext \/ PrepareFails
  BY <1>1, CountKept DEF PrepareNext, PrepareFails, Uncounted, InQueue
<1>2. CASE PrepareSkips
  <2>1. /\ prep' = prep + 1 /\ UNCHANGED <<opts, db, jobCh, pending, retryQueue, gpc>> /\ prep \in Entries
    BY <1>0, <1>2 DEF PrepareSkips, ControlInv, Entries
  <2>2. states[prep] = "unknown" BY <1>0, <2>1 DEF CountInv, Uncounted
  <2>3. ~InQueue(prep) /\ gpc[prep] = "idle" BY <1>0, <2>1 DEF PlacesInv, InQueue
  <2>4. \A e \in Entries : AllSucceeded(e)' <=> AllSucceeded(e) BY <2>1 DEF AllSucceeded, ModeSet
  <2>5. \A e \in Entries : Uncounted(e)' => Uncounted(e)
    BY <1>0, <2>1 DEF Uncounted, InQueue, Entries
  <2>6. \A e \in Entries : e = prep /\ e \notin Excluded => ~Uncounted(e)'
    BY <1>0, <2>1, <2>3 DEF Uncounted, InQueue, Building, Entries
  <2>7. CASE prep \in Excluded /\ total' = (IF total > 0 THEN total - 1 ELSE total)
             /\ UNCHANGED <<states, succeeded, failures>>
    <3>1. Passed' = Passed \cup {prep} BY <2>1, <2>7, PassedFacts DEF Passed, Entries
    <3>2. Passed \in SUBSET Entries /\ prep \in Entries \ Passed BY <2>1, PassedFacts DEF Passed, Entries
    <3>3. Passed' \in SUBSET Entries BY <3>1, <3>2
    <3>4. /\ Cardinality(Passed') = Cardinality(Passed) + 1 /\ Cardinality(Passed) \in Nat
          /\ Cardinality(Passed') <= N
      BY <3>1, <3>2, <3>3, CountEntries
    <3>5. total' = N - Cardinality(Passed') BY <1>0, <2>7, <3>4 DEF CountInv
    <3>6. In("succeeded")' = In("succeeded") /\ In("failed")' = In("failed") BY <2>7 DEF In
    <3> QED BY <2>4, <2>5, <2>7, <3>5, <3>6 DEF CountInv
  <2>8. prep \notin Excluded => Passed' = Passed BY <2>1, PassedFacts DEF Passed, Entries
  <2>9. CASE prep \notin Excluded /\ AllSucceeded(prep) /\ states' = [states EXCEPT ![prep] = "succeeded"]
             /\ succeeded' = succeeded + 1 /\ UNCHANGED <<failures, total>>
    <3>1. /\ In("succeeded")' = In("succeeded") \cup {prep} /\ In("failed")' = In("failed")
          /\ In("succeeded") \in SUBSET Entries /\ prep \in Entries \ In("succeeded")
      BY <1>0, <2>1, <2>2, <2>9 DEF In
    <3>2. Cardinality(In("succeeded")') = Cardinality(In("succeeded")) + 1 BY <3>1, CountEntries
    <3>3. \A e \in Entries : states'[e] = IF e = prep THEN "succeeded" ELSE states[e] BY <1>0, <2>9
    <3>4. \A e \in Entries : states'[e] = "succeeded" => AllSucceeded(e)'
      BY <2>4, <2>9, <3>3 DEF CountInv
    <3>5. \A e \in Entries : Uncounted(e)' => states'[e] = "unknown"
      BY <2>1, <2>5, <2>6, <2>9, <3>3 DEF CountInv
    <3> QED BY <2>8, <2>9, <3>1, <3>2, <3>4, <3>5 DEF CountInv
  <2>10. CASE prep \notin Excluded /\ states' = [states EXCEPT ![prep] = "failed"]
             /\ failures' = failures + 1 /\ UNCHANGED <<succeeded, total>>
    <3>1. /\ In("failed")' = In("failed") \cup {prep} /\ In("succeeded")' = In("succeeded")
          /\ In("failed") \in SUBSET Entries /\ prep \in Entries \ In("failed")
      BY <1>0, <2>1, <2>2, <2>10 DEF In
    <3>2. Cardinality(In("failed")') = Cardinality(In("failed")) + 1 BY <3>1, CountEntries
    <3>3. \A e \in Entries : states'[e] = IF e = prep THEN "failed" ELSE states[e] BY <1>0, <2>10
    <3>4. \A e \in Entries : states'[e] = "succeeded" => AllSucceeded(e)'
      BY <2>4, <2>10, <3>3 DEF CountInv
    <3>5. \A e \in Entries : Uncounted(e)' => states'[e] = "unknown"
      BY <2>1, <2>5, <2>6, <2>10, <3>3 DEF CountInv
    <3> QED BY <2>8, <2>10, <3>1, <3>2, <3>4, <3>5 DEF CountInv
  <2> QED BY <1>2, <2>7, <2>9, <2>10 DEF PrepareSkips
<1>3. CASE PrepareSends
  <2> DEFINE t == TaskOf(prep, PendingSpecs(prep), 0)
  <2>1. prep \in Entries /\ prep \notin Excluded
    BY <1>0, <1>3 DEF PrepareSends, ControlInv, Entries
  <2>2. t \in TaskRecord /\ t.entry = prep BY <1>0, <1>3, <2>1, PreparedJob DEF PrepareSends, TaskOf
  <2>3. jobCh' = Append(jobCh, t) /\ prep' = prep + 1
        /\ UNCHANGED <<opts, db, counters, pending, retryQueue, gpc>>
    BY <1>3 DEF PrepareSends
  <2> HIDE DEF t
  <2>4. EntriesOf(jobCh') = EntriesOf(jobCh) \cup {prep} BY <1>0, <2>2, <2>3, SendToQueue
  <2>5. \A e \in Entries : Uncounted(e)' => Uncounted(e)
    BY <1>0, <2>1, <2>3, <2>4 DEF Uncounted, InQueue, Entries
  <2>6. Passed' = Passed BY <2>1, <2>3, PassedFacts DEF Passed, Entries
  <2>7. In("succeeded")' = In("succeeded") /\ In("failed")' = In("failed") BY <2>3 DEF In, counters
  <2>8. \A e \in Entries : AllSucceeded(e)' <=> AllSucceeded(e) BY <2>3 DEF AllSucceeded, ModeSet
  <2>9. states' = states /\ succeeded' = succeeded /\ failures' = failures /\ total' = total
    BY <2>3 DEF counters
  <2> QED BY <2>5, <2>6, <2>7, <2>8, <2>9 DEF CountInv
<1>4. CASE ReceiveJob
  <2>1. EntriesOf(jobCh) = EntriesOf(Tail(jobCh)) \cup {Head(jobCh).entry}
    BY <1>0, <1>4, TakeFromQueue DEF ReceiveJob
  <2>2. EntriesOf(<<Head(jobCh)>>) = {Head(jobCh).entry} BY SingleQueue
  <2>3. jobCh' = Tail(jobCh) /\ UNCHANGED <<opts, db, counters, retryQueue, gpc, prep>>
        /\ (pending' = <<Head(jobCh)>> \/ pending' = pending)
    BY <1>4 DEF ReceiveJob
  <2>4. \A e \in Entries : Uncounted(e)' => Uncounted(e)
    BY <2>1, <2>2, <2>3 DEF Uncounted, InQueue
  <2> QED BY <2>3, <2>4, CountKept
<1>5. CASE JoinProducer BY <1>5, CountKept DEF JoinProducer, Uncounted, InQueue
<1>6. AfterRefusal /\ UNCHANGED <<opts, db, counters, prep, jobCh, retryQueue, gpc>> => CountInv'
  <2>1. EntriesOf(<<>>) = {} BY EmptyQueue
  <2> QED BY <2>1, CountKept DEF AfterRefusal, Uncounted, InQueue
<1>7. CASE CheckStop
  <2>1. CASE CheckStopped BY <1>6, <1>7, <2>1 DEF CheckStop
  <2>2. CASE ~CheckStopped BY <1>7, <2>2, CountKept DEF CheckStop, Uncounted, InQueue
  <2> QED BY <2>1, <2>2
<1>8. CASE WaitForSlot
  <2>1. CASE AfterRefusal BY <1>6, <1>8, <2>1 DEF WaitForSlot
  <2>2. CASE ~AfterRefusal BY <1>8, <2>2, CountKept DEF WaitForSlot, Uncounted, InQueue
  <2> QED BY <2>1, <2>2
<1>9. CASE StartBuild
  <2> DEFINE x == Head(pending).entry
  <2>1. /\ mpc = "global" /\ pending' = Tail(pending) /\ gpc' = [gpc EXCEPT ![x] = "build"]
        /\ UNCHANGED <<opts, db, counters, prep, jobCh, retryQueue>>
    BY <1>9 DEF StartBuild, AfterStart
  <2>2. EntriesOf(pending) = EntriesOf(Tail(pending)) \cup {x}
    BY <1>0, <2>1, TakeFromQueue DEF ControlInv
  <2> HIDE DEF x
  <2>3. \A e \in Entries : Uncounted(e)' => Uncounted(e)
    BY <1>0, <2>1, <2>2 DEF Uncounted, InQueue
  <2> QED BY <2>1, <2>3, CountKept
<1>10. CASE ReleaseWorker BY <1>6, <1>10 DEF ReleaseWorker
<1>11. CASE DrainRetries
  <2>1. EntriesOf(<<>>) = {} BY EmptyQueue
  <2> QED BY <1>11, <2>1, CountKept DEF DrainRetries, Uncounted, InQueue
<1>12. CASE Return BY <1>12, CountKept DEF Return, Uncounted, InQueue
<1>20. ASSUME NEW e \in Entries, Job(e)
       PROVE  /\ gpc[e] # "idle" /\ UNCHANGED <<opts, prep, jobCh, pending>>
              /\ \A x \in Entries : x # e => gpc'[x] = gpc[x]
              /\ ~RetryLater(e) => UNCHANGED retryQueue
  BY <1>0, <1>20, JobSteps
<1>21. ASSUME NEW e \in Entries, BuildReturns(e) PROVE CountInv'
  <2>1. gpc[e] = "build" /\ UNCHANGED <<opts, db, counters, prep, jobCh, pending, retryQueue>>
        /\ \A x \in Entries : x # e => gpc'[x] = gpc[x]
    BY <1>0, <1>21 DEF BuildReturns, At, Go
  <2> QED BY <2>1, CountKept DEF Uncounted, InQueue, Building
<1>22. ASSUME NEW e \in Entries, RetryLater(e) PROVE CountInv'
  <2> DEFINE t == TaskOf(e, Remaining(task[e]), task[e].attempt + 1)
  <2>1. /\ gpc[e] = "retry" /\ retryQueue' = Append(retryQueue, t) /\ gpc' = [gpc EXCEPT ![e] = "release"]
        /\ UNCHANGED <<opts, db, counters, prep, jobCh, pending>> /\ t.entry = e
    BY <1>22 DEF RetryLater, At, Go, AfterRetry, TaskOf
  <2> HIDE DEF t
  <2>2. retryQueue \in Seq(TaskRecord \cup {t}) /\ t \in TaskRecord \cup {t} BY <1>0
  <2>3. EntriesOf(retryQueue') = EntriesOf(retryQueue) \cup {e} BY <2>1, <2>2, SendToQueue
  <2>4. \A x \in Entries : Uncounted(x)' => Uncounted(x)
    BY <1>0, <2>1, <2>3 DEF Uncounted, InQueue, Building
  <2> QED BY <2>1, <2>4, CountKept
<1>23. ASSUME NEW e \in Entries, StoreResult(e) PROVE CountInv'
  <2>1. /\ gpc[e] = "store" /\ UNCHANGED <<opts, counters, prep, jobCh, pending, retryQueue>>
        /\ \A x \in Entries : x # e => gpc'[x] = gpc[x] /\ db'[x] = db[x]
    BY <1>0, <1>23 DEF StoreResult, At, Go, TypeBase
  <2>2. \A x \in Entries : Uncounted(x)' => Uncounted(x) BY <2>1 DEF Uncounted, InQueue, Building
  <2>3. states[e] = "unknown" BY <2>1 DEF CountInv, Uncounted, Building
  <2>4. \A x \in Entries : x # e => (AllSucceeded(x)' <=> AllSucceeded(x))
    BY <2>1 DEF AllSucceeded, ModeSet
  <2>5. In("succeeded")' = In("succeeded") /\ In("failed")' = In("failed") /\ Passed' = Passed
    BY <2>1 DEF In, Passed, counters
  <2>6. states' = states /\ succeeded' = succeeded /\ failures' = failures /\ total' = total
    BY <2>1 DEF counters
  <2>7. \A x \in Entries : states'[x] = "succeeded" => AllSucceeded(x)'
    BY <2>3, <2>4, <2>6 DEF CountInv
  <2> QED BY <2>2, <2>5, <2>6, <2>7 DEF CountInv
<1>24. ASSUME NEW e \in Entries, StoreFails(e) \/ Flag(e) \/ CancelRun(e) \/ ReleaseSlot(e) \/ ReleaseGlobal(e)
       PROVE  CountInv'
  <2>1. /\ gpc'[e] \in {"idle", "cancel", "release", "releaseGlobal"}
        /\ UNCHANGED <<opts, db, counters, prep, jobCh, pending, retryQueue>>
        /\ \A x \in Entries : x # e => gpc'[x] = gpc[x]
    BY <1>0, <1>24 DEF StoreFails, Flag, CancelRun, ReleaseSlot, ReleaseGlobal, At, Go
  <2> QED BY <2>1, CountKept DEF Uncounted, InQueue, Building
<1>25. ASSUME NEW e \in Entries, Apply(e) PROVE CountInv'
  <2> DEFINE o == IF ok[e] THEN "succeeded" ELSE "failed"
  <2>1. gpc[e] = "apply" /\ UNCHANGED <<opts, db, total, prep, jobCh, pending, retryQueue, ok>>
        /\ states' = [states EXCEPT ![e] = o]
        /\ gpc'[e] \in {"release", "flag"} /\ \A x \in Entries : x # e => gpc'[x] = gpc[x]
    BY <1>0, <1>25 DEF Apply, At, Go
  <2>2. states[e] = "unknown" BY <2>1 DEF CountInv, Uncounted
  <2>3. ASSUME succeeded \in Nat, failures \in Nat
        PROVE  /\ ok[e] => succeeded' = succeeded + 1 /\ failures' = failures
               /\ ~ok[e] => succeeded' = succeeded /\ failures' = failures + 1
    BY <1>25, <2>2, <2>3 DEF Apply
  <2>4. \A x \in Entries : Uncounted(x)' => Uncounted(x) BY <2>1 DEF Uncounted, InQueue, Building
  <2>5. ~Uncounted(e)'
    <3>1. ~InQueue(e) /\ ~(e >= prep \/ e \in Excluded)
      BY <1>0, <2>1 DEF PlacesInv, InQueue
    <3> QED BY <2>1, <3>1 DEF Uncounted, InQueue, Building
  <2>6. \A x \in Entries : AllSucceeded(x)' <=> AllSucceeded(x) BY <2>1 DEF AllSucceeded, ModeSet
  <2>7. ok[e] => AllSucceeded(e)
    <3>1. ok[e] => Unbuilt(e) = {} BY <1>0, <2>1 DEF WorkInv
    <3> QED BY <3>1 DEF Unbuilt, AllSucceeded
  <2>8. Passed' = Passed BY <2>1 DEF Passed
  <2>9. \A x \in Entries : states'[x] = IF x = e THEN o ELSE states[x] BY <1>0, <2>1
  <2>10. \A x \in Entries : states'[x] = "succeeded" => AllSucceeded(x)'
    BY <2>6, <2>7, <2>9 DEF CountInv
  <2>11. \A x \in Entries : Uncounted(x)' => states'[x] = "unknown"
    BY <2>4, <2>5, <2>9 DEF CountInv
  <2>12. /\ In("succeeded") \in SUBSET Entries /\ e \in Entries \ In("succeeded")
         /\ In("failed") \in SUBSET Entries /\ e \in Entries \ In("failed")
    BY <2>2 DEF In
  <2>13. /\ Cardinality(In("succeeded")) \in Nat /\ Cardinality(In("failed")) \in Nat
         /\ Cardinality(In("succeeded") \cup {e}) = Cardinality(In("succeeded")) + 1
         /\ Cardinality(In("failed") \cup {e}) = Cardinality(In("failed")) + 1
    BY <2>12, CountEntries
  <2>16. /\ succeeded = Cardinality(In("succeeded")) /\ failures = Cardinality(In("failed"))
         /\ succeeded \in Nat /\ failures \in Nat
    BY <2>13 DEF CountInv
  <2>14. CASE ok[e]
    <3>1. In("succeeded")' = In("succeeded") \cup {e} /\ In("failed")' = In("failed")
      BY <2>2, <2>9, <2>14 DEF In
    <3>2. succeeded' = Cardinality(In("succeeded")') /\ failures' = Cardinality(In("failed")')
      BY <2>3, <2>13, <2>14, <2>16, <3>1
    <3> QED BY <2>1, <2>8, <2>10, <2>11, <3>2 DEF CountInv
  <2>15. CASE ~ok[e]
    <3>1. In("failed")' = In("failed") \cup {e} /\ In("succeeded")' = In("succeeded")
      BY <2>2, <2>9, <2>15 DEF In
    <3>2. succeeded' = Cardinality(In("succeeded")') /\ failures' = Cardinality(In("failed")')
      BY <2>3, <2>13, <2>15, <2>16, <3>1
    <3> QED BY <2>1, <2>8, <2>10, <2>11, <3>2 DEF CountInv
  <2> QED BY <2>14, <2>15
<1>15. CASE Interrupt BY <1>15, CountKept DEF Interrupt, Uncounted, InQueue
<1>16. CASE RefreshAddrs BY <1>16, CountKept DEF RefreshAddrs, Uncounted, InQueue
<1>17. CASE NextCommand
  <2>1. /\ states' = [e \in Entries |-> "unknown"] /\ succeeded' = 0 /\ failures' = 0 /\ total' = N
        /\ prep' = 1
    BY <1>17 DEF NextCommand
  <2>2. In("succeeded")' = {} /\ In("failed")' = {} BY <2>1 DEF In
  <2>3. Passed' = {}
    <3>1. 1 \in 1..N BY NAssumption
    <3> QED BY <2>1, <3>1, PassedFacts DEF Passed
  <2>4. Cardinality({}) = 0 BY FS_EmptySet
  <2>5. \A e \in Entries : states'[e] = "unknown" BY <2>1
  <2>6. /\ succeeded' = Cardinality(In("succeeded")') /\ failures' = Cardinality(In("failed")')
        /\ total' = N - Cardinality(Passed')
    <3>1. succeeded' = Cardinality(In("succeeded")') BY <2>1, <2>2, <2>4
    <3>2. failures' = Cardinality(In("failed")') BY <2>1, <2>2, <2>4
    <3>3. Cardinality(Passed') = 0 BY <2>3, <2>4
    <3>4. total' = N - Cardinality(Passed') BY <1>0, <2>1, <3>3
    <3> QED BY <3>1, <3>2, <3>4
  <2> QED BY ONLY <2>5, <2>6 DEF CountInv
<1>18. CASE UNCHANGED vars BY <1>18, CountKept DEF vars, Uncounted, InQueue
<1> QED
  BY <1>1, <1>2, <1>3, <1>4, <1>5, <1>7, <1>8, <1>9, <1>10, <1>11, <1>12, <1>15, <1>16, <1>17,
     <1>18, <1>21, <1>22, <1>23, <1>24, <1>25
  DEF Next, Producer, Command, Job, Finished

\* The counters of a command that starts.
LEMMA CountInit == Init => CountInv
<1> SUFFICES ASSUME Init PROVE CountInv OBVIOUS
<1>1. /\ states = [e \in Entries |-> "unknown"] /\ succeeded = 0 /\ failures = 0 /\ total = N
      /\ prep = 1 /\ N \in Nat /\ Excluded \subseteq Entries
  BY NAssumption DEF Init
<1>2. In("succeeded") = {} /\ In("failed") = {} BY <1>1 DEF In
<1>3. Passed = {}
  <2>1. 1 \in 1..N BY NAssumption
  <2> QED BY <1>1, <2>1, PassedFacts DEF Passed
<1>4. Cardinality({}) = 0 BY FS_EmptySet
<1> QED BY <1>1, <1>2, <1>3, <1>4 DEF CountInv

\* Outcomes and excluded directories are different directories.
LEMMA CountBounds ==
    ASSUME JobsInv, CountInv
    PROVE  /\ succeeded \in 0..N /\ failures \in 0..N /\ total \in 0..N
           /\ succeeded + failures <= total
<1> DEFINE S == In("succeeded")
           F == In("failed")
           X == Passed
<1>0. N \in Nat /\ Excluded \subseteq Entries BY NAssumption
<1>1. S \in SUBSET Entries /\ F \in SUBSET Entries /\ X \in SUBSET Entries BY <1>0 DEF In, Passed
<1>2. S \cap F = {} BY DEF In
<1>3. (S \cup F) \cap X = {}
  <2>1. \A e \in X : states[e] = "unknown" BY <1>0 DEF CountInv, Uncounted, Passed
  <2> QED BY <2>1 DEF In
<1>4. succeeded = Cardinality(S) /\ failures = Cardinality(F) /\ total = N - Cardinality(X)
  BY DEF CountInv
<1> HIDE DEF S, F, X
<1>5. IsFiniteSet(Entries) BY FS_Interval, NAssumption DEF Entries
<1>6. IsFiniteSet(S) /\ IsFiniteSet(F) /\ IsFiniteSet(X) BY <1>1, <1>5, FS_Subset
<1>7. IsFiniteSet(S \cup F) /\ Cardinality(S \cup F) = Cardinality(S) + Cardinality(F) - Cardinality(S \cap F)
  BY <1>6, FS_Union
<1>8. Cardinality((S \cup F) \cup X) = Cardinality(S \cup F) + Cardinality(X) - Cardinality((S \cup F) \cap X)
  BY <1>6, <1>7, FS_Union
<1>9. Cardinality({}) = 0 BY FS_EmptySet
<1>10. Cardinality(S) \in Nat /\ Cardinality(F) \in Nat /\ Cardinality(X) \in Nat
       /\ Cardinality(S) <= N /\ Cardinality(F) <= N /\ Cardinality(X) <= N
  BY <1>1, CountEntries
<1>11. Cardinality((S \cup F) \cup X) <= N
  <2>1. (S \cup F) \cup X \in SUBSET Entries BY <1>1
  <2> QED BY <2>1, CountEntries
<1>12. Cardinality((S \cup F) \cup X) = Cardinality(S) + Cardinality(F) + Cardinality(X)
  <2>1. Cardinality(S \cap F) = 0 /\ Cardinality((S \cup F) \cap X) = 0 BY <1>2, <1>3, <1>9
  <2>2. Cardinality(S \cup F) = Cardinality(S) + Cardinality(F) BY <1>7, <1>10, <2>1
  <2> QED BY <1>8, <1>10, <2>1, <2>2
<1> QED BY <1>0, <1>4, <1>10, <1>11, <1>12

\* What is counted as succeeded has every format stored as succeeded, and the
\* outcomes never exceed the total that progress is measured against.
THEOREM ProgressTrue == Spec => []ProgressIsTrue
<1>1. JobsInv /\ CountInv => ProgressIsTrue
  BY CountBounds DEF ProgressIsTrue, CountInv, In
<1> QED BY <1>1, CountInit, CountStep, JobsAreConsistent, PTL DEF Spec

\* A directory is never in two queues, in one queue twice, or with a goroutine
\* and in a queue, and no channel or semaphore exceeds its capacity.
THEOREM OnePlace == Spec => []JobInOnePlace
<1>1. JobsInv /\ SlotInv /\ CountInv => JobInOnePlace
  <2> SUFFICES ASSUME JobsInv, SlotInv, CountInv PROVE JobInOnePlace OBVIOUS
  <2>1. TypeOK
    BY CountBounds DEF JobsInv, TypeBase, TypeOK, SlotInv, Pcs
  <2>2. ASSUME NEW e \in Entries
        PROVE  InQueues(e) + (IF gpc[e] \in {"idle", "release", "releaseGlobal"} THEN 0 ELSE 1) <= 1
    <3>1. /\ Queued(jobCh, e) = IF e \in EntriesOf(jobCh) THEN 1 ELSE 0
          /\ Queued(pending, e) = IF e \in EntriesOf(pending) THEN 1 ELSE 0
          /\ Queued(retryQueue, e) = IF e \in EntriesOf(retryQueue) THEN 1 ELSE 0
      BY DistinctIsOnce DEF JobsInv, PlacesInv
    <3>2. /\ e \in EntriesOf(jobCh) => e \notin EntriesOf(pending) /\ e \notin EntriesOf(retryQueue)
          /\ e \in EntriesOf(pending) => e \notin EntriesOf(retryQueue)
          /\ e \in EntriesOf(jobCh) \cup EntriesOf(pending) \cup EntriesOf(retryQueue)
                => gpc[e] \in {"idle", "release", "releaseGlobal"}
      BY DEF JobsInv, PlacesInv
    <3> QED BY <3>1, <3>2 DEF InQueues
  <2> QED BY <2>1, <2>2 DEF JobInOnePlace
<1> QED BY <1>1, CountInit, CountStep, SlotInit, SlotStep, JobsAreConsistent, PTL DEF Spec

-----------------------------------------------------------------------------
(* Why a directory may be missing from the results of a command.           *)

Stopping == failed \/ interrupted

\* A command gives up jobs only when it reports a failure or was interrupted.
FlagInv ==
    /\ ctxDone => Stopping
    /\ \A e \in Entries : gpc[e] = "cancel" => failed
    /\ ~scheduling => Stopping
    /\ ppc = "end" /\ ~prepErr => prep = N + 1
    /\ retrying /\ prepErr => failed
    /\ ret # "none" => mpc = "done"
    /\ ret = "nil" => ~failed

\* A directory that has been prepared has a job, or has its results.
Settled(e) ==
    InQueue(e) \/ gpc[e] \in Building \cup {"apply", "flag"} \/ AllSucceeded(e) \/ SkippedFailure(e)
SettledInv == Stopping \/ \A e \in Entries \ Excluded : e < prep => Settled(e)

\* Every step keeps FlagInv.
LEMMA FlagStep == JobsInv /\ FlagInv /\ [Next]_vars => FlagInv'
<1> SUFFICES ASSUME JobsInv, FlagInv, [Next]_vars PROVE FlagInv' OBVIOUS
<1> USE DEF FlagInv, Stopping, command, flags, producer, main, jobs, sems, addrs, counters
<1>0. /\ TypeBase /\ ControlInv /\ prep \in 1..(N + 1) /\ N \in Nat /\ gpc \in [Entries -> Pcs]
      /\ ctxDone \in BOOLEAN /\ failed \in BOOLEAN /\ prepErr \in BOOLEAN /\ scheduling \in BOOLEAN
      /\ retrying \in BOOLEAN /\ interrupted \in BOOLEAN
  BY NAssumption DEF JobsInv, TypeBase
<1>1. CASE PrepareNext
  <2>1. ppc' = "end" /\ ~prepErr' => prep' = N + 1 BY <1>0, <1>1 DEF PrepareNext
  <2>2. ~retrying' BY <1>0, <1>1 DEF PrepareNext, ControlInv
  <2> QED BY <1>1, <2>1, <2>2 DEF PrepareNext
<1>2. CASE PrepareFails
  <2>1. ~retrying' BY <1>0, <1>2 DEF PrepareFails, ControlInv
  <2> QED BY <1>2, <2>1 DEF PrepareFails
<1>3. CASE PrepareSkips BY <1>0, <1>3 DEF PrepareSkips
<1>4. CASE PrepareSends BY <1>0, <1>4 DEF PrepareSends
<1>5. CASE ReceiveJob BY <1>0, <1>5 DEF ReceiveJob
<1>6. CASE JoinProducer BY <1>0, <1>6 DEF JoinProducer
<1>7. ret # "none" => mpc = "done" OBVIOUS
<1>8. AfterRefusal /\ Stopping /\ mpc # "done" /\ UNCHANGED <<command, flags, producer, retrying, ret, gpc>> => FlagInv'
  BY <1>0 DEF AfterRefusal
<1>9. CASE CheckStop
  <2>1. CASE CheckStopped
    <3>1. Stopping BY <2>1 DEF CheckStopped, Stopped
    <3> QED BY <1>8, <1>9, <2>1, <3>1 DEF CheckStop
  <2>2. CASE ~CheckStopped BY <1>9, <2>2 DEF CheckStop
  <2> QED BY <2>1, <2>2
<1>10. CASE WaitForSlot
  <2>1. CASE AfterRefusal /\ ctxDone BY <1>8, <1>10, <2>1 DEF WaitForSlot
  <2>2. CASE ~(AfterRefusal /\ ctxDone) BY <1>10, <2>2 DEF WaitForSlot
  <2> QED BY <2>1, <2>2
<1>11. CASE StartBuild
  <2>1. /\ mpc = "global" /\ gpc' = [gpc EXCEPT ![Head(pending).entry] = "build"]
        /\ UNCHANGED <<command, flags, producer, retrying, ret, scheduling>>
    BY <1>11 DEF StartBuild, AfterStart
  <2>2. \A e \in Entries : gpc'[e] = "cancel" => gpc[e] = "cancel" BY <1>0, <2>1
  <2> QED BY <2>1, <2>2
<1>12. CASE ReleaseWorker BY <1>8, <1>12 DEF ReleaseWorker
<1>13. CASE DrainRetries BY <1>13 DEF DrainRetries
<1>14. CASE Return BY <1>0, <1>14 DEF Return
<1>20. ASSUME NEW e \in Entries, Job(e)
       PROVE  /\ mpc # "done" /\ UNCHANGED <<command, producer, main>>
              /\ \A x \in Entries : x # e => gpc'[x] = gpc[x]
  BY <1>0, <1>20, JobSteps
<1>21. ASSUME NEW e \in Entries, StoreFails(e) \/ Flag(e)
       PROVE  FlagInv'
  <2>1. failed' /\ ctxDone' = ctxDone BY <1>21 DEF StoreFails, Flag, FlagFailed
  <2> QED BY <1>20, <1>21, <2>1 DEF Job
<1>22. ASSUME NEW e \in Entries, CancelRun(e) PROVE FlagInv'
  <2>1. failed /\ failed' = failed /\ ctxDone' BY <1>22 DEF CancelRun, At
  <2> QED BY <1>20, <1>22, <2>1 DEF Job
<1>23. ASSUME NEW e \in Entries,
              BuildReturns(e) \/ RetryLater(e) \/ StoreResult(e) \/ Apply(e) \/ ReleaseSlot(e) \/ ReleaseGlobal(e)
       PROVE  FlagInv'
  <2>1. UNCHANGED flags /\ gpc'[e] # "cancel"
    BY <1>0, <1>23 DEF BuildReturns, RetryLater, StoreResult, Apply, ReleaseSlot, ReleaseGlobal, Go, AfterRetry
  <2> QED BY <1>20, <1>23, <2>1 DEF Job
<1>15. CASE Interrupt BY <1>15 DEF Interrupt
<1>16. CASE RefreshAddrs BY <1>16 DEF RefreshAddrs
<1>17. CASE NextCommand BY <1>17 DEF NextCommand
<1>18. CASE UNCHANGED vars BY <1>18 DEF vars
<1> QED
  BY <1>1, <1>2, <1>3, <1>4, <1>5, <1>6, <1>9, <1>10, <1>11, <1>12, <1>13, <1>14, <1>15, <1>16,
     <1>17, <1>18, <1>21, <1>22, <1>23
  DEF Next, Producer, Command, Job, Finished

\* A step that takes no directory its job or results.
LEMMA SettledKept ==
    ASSUME SettledInv, Stopping => Stopping', prep' = prep,
           Stopping' \/ \A e \in Entries \ Excluded : Settled(e) => Settled(e)'
    PROVE  SettledInv'
BY DEF SettledInv

\* A step that changes no results.
LEMMA ResultsKept ==
    ASSUME UNCHANGED <<opts, db>>
    PROVE  \A e \in Entries : (AllSucceeded(e)' <=> AllSucceeded(e)) /\ (SkippedFailure(e)' <=> SkippedFailure(e))
BY DEF AllSucceeded, SkippedFailure, ModeSet

\* Every step keeps SettledInv.
LEMMA SettledStep == JobsInv /\ FlagInv /\ SettledInv /\ [Next]_vars => SettledInv'
<1> SUFFICES ASSUME JobsInv, FlagInv, SettledInv, [Next]_vars PROVE SettledInv' OBVIOUS
<1> USE DEF Stopping, command, flags, producer, main, jobs, sems, addrs, counters
<1>0. /\ TypeBase /\ ControlInv /\ PlacesInv /\ WorkInv
      /\ prep \in 1..(N + 1) /\ N \in Nat /\ gpc \in [Entries -> Pcs]
      /\ jobCh \in Seq(TaskRecord) /\ pending \in Seq(TaskRecord) /\ retryQueue \in Seq(TaskRecord)
  BY NAssumption DEF JobsInv, TypeBase
<1>1. CASE PrepareNext \/ PrepareFails
  BY <1>1, SettledKept, ResultsKept DEF PrepareNext, PrepareFails, Settled, InQueue
<1>2. CASE PrepareSkips
  <2>1. /\ prep' = prep + 1 /\ UNCHANGED <<opts, db, jobCh, pending, retryQueue, gpc, failed, interrupted>>
        /\ prep \in Excluded \/ AllSucceeded(prep) \/ SkippedFailure(prep)
    BY <1>2 DEF PrepareSkips
  <2>2. \A e \in Entries : Settled(e) => Settled(e)' BY <2>1, ResultsKept DEF Settled, InQueue
  <2>3. \A e \in Entries \ Excluded : e = prep => Settled(e) BY <2>1 DEF Settled
  <2>4. \A e \in Entries : e < prep' => e < prep \/ e = prep BY <1>0, <2>1 DEF Entries
  <2> QED BY <2>1, <2>2, <2>3, <2>4 DEF SettledInv
<1>3. CASE PrepareSends
  <2> DEFINE t == TaskOf(prep, PendingSpecs(prep), 0)
  <2>1. prep \in Entries BY <1>0, <1>3 DEF PrepareSends, ControlInv, Entries
  <2>2. t \in TaskRecord /\ t.entry = prep BY <1>0, <1>3, <2>1, PreparedJob DEF PrepareSends, TaskOf
  <2>3. jobCh' = Append(jobCh, t) /\ prep' = prep + 1
        /\ UNCHANGED <<opts, db, pending, retryQueue, gpc, failed, interrupted>>
    BY <1>3 DEF PrepareSends
  <2> HIDE DEF t
  <2>4. EntriesOf(jobCh') = EntriesOf(jobCh) \cup {prep} BY <1>0, <2>2, <2>3, SendToQueue
  <2>5. \A e \in Entries : Settled(e) => Settled(e)' BY <2>3, <2>4, ResultsKept DEF Settled, InQueue
  <2>6. \A e \in Entries : e = prep => Settled(e)' BY <2>4 DEF Settled, InQueue
  <2>7. \A e \in Entries : e < prep' => e < prep \/ e = prep BY <1>0, <2>3 DEF Entries
  <2> QED BY <2>3, <2>5, <2>6, <2>7 DEF SettledInv
<1>4. CASE ReceiveJob
  <2>1. EntriesOf(jobCh) = EntriesOf(Tail(jobCh)) \cup {Head(jobCh).entry}
    BY <1>0, <1>4, TakeFromQueue DEF ReceiveJob
  <2>2. EntriesOf(<<Head(jobCh)>>) = {Head(jobCh).entry} /\ EntriesOf(<<>>) = {} BY SingleQueue, EmptyQueue
  <2>3. jobCh' = Tail(jobCh) /\ UNCHANGED <<opts, db, retryQueue, gpc, prep, failed, interrupted>>
        /\ pending = <<>>
    BY <1>0, <1>4 DEF ReceiveJob, ControlInv
  <2>4. CASE scheduling
    <3>1. pending' = <<Head(jobCh)>> BY <1>4, <2>4 DEF ReceiveJob
    <3>2. \A e \in Entries : Settled(e) => Settled(e)'
      BY <2>1, <2>2, <2>3, <3>1, ResultsKept DEF Settled, InQueue
    <3> QED BY <2>3, <3>2, SettledKept
  <2>5. CASE ~scheduling
    <3>1. Stopping' BY <2>3, <2>5 DEF FlagInv
    <3> QED BY <3>1 DEF SettledInv
  <2> QED BY <2>4, <2>5
<1>5. CASE JoinProducer
  <2>1. UNCHANGED <<opts, db, jobCh, pending, retryQueue, gpc, prep>> /\ (Stopping => Stopping')
    BY <1>5 DEF JoinProducer
  <2>2. \A e \in Entries : Settled(e) => Settled(e)' BY <2>1, ResultsKept DEF Settled, InQueue
  <2> QED BY <2>1, <2>2, SettledKept
<1>6. Stopping /\ UNCHANGED <<failed, interrupted>> => SettledInv' BY DEF SettledInv
<1>7. UNCHANGED <<opts, db, jobCh, pending, retryQueue, gpc, prep, failed, interrupted>> => SettledInv'
  BY SettledKept, ResultsKept DEF Settled, InQueue
<1>8. CASE CheckStop
  <2>1. CASE CheckStopped
    <3>1. Stopping BY <2>1 DEF CheckStopped, Stopped, FlagInv
    <3> QED BY <1>6, <1>8, <3>1 DEF CheckStop
  <2>2. CASE ~CheckStopped BY <1>7, <1>8, <2>2 DEF CheckStop
  <2> QED BY <2>1, <2>2
<1>9. CASE WaitForSlot
  <2>1. CASE ctxDone BY <1>6, <1>9, <2>1 DEF WaitForSlot, FlagInv
  <2>2. CASE ~ctxDone BY <1>7, <1>9, <2>2 DEF WaitForSlot
  <2> QED BY <2>1, <2>2
<1>10. CASE StartBuild
  <2> DEFINE x == Head(pending).entry
  <2>1. /\ mpc = "global" /\ pending' = Tail(pending) /\ gpc' = [gpc EXCEPT ![x] = "build"]
        /\ UNCHANGED <<opts, db, prep, jobCh, retryQueue, failed, interrupted>>
    BY <1>10 DEF StartBuild, AfterStart
  <2>2. EntriesOf(pending) = EntriesOf(Tail(pending)) \cup {x}
    BY <1>0, <2>1, TakeFromQueue DEF ControlInv
  <2> HIDE DEF x
  <2>3. \A e \in Entries : Settled(e) => Settled(e)'
    <3> SUFFICES ASSUME NEW e \in Entries, Settled(e) PROVE Settled(e)' OBVIOUS
    <3>1. CASE e = x
      <4>1. gpc'[e] = "build" BY <1>0, <2>1, <3>1
      <4> QED BY <4>1 DEF Settled, Building
    <3>2. CASE e # x
      <4>1. gpc'[e] = gpc[e] BY <1>0, <2>1, <3>2
      <4> QED BY <2>1, <2>2, <3>2, <4>1, ResultsKept DEF Settled, InQueue
    <3> QED BY <3>1, <3>2
  <2> QED BY <2>1, <2>3, SettledKept
<1>11. CASE ReleaseWorker BY <1>6, <1>11 DEF ReleaseWorker, FlagInv
<1>12. CASE DrainRetries
  <2>1. pending = <<>> /\ pending' = retryQueue /\ retryQueue' = <<>>
        /\ UNCHANGED <<opts, db, jobCh, gpc, prep, failed, interrupted>>
    BY <1>0, <1>12 DEF DrainRetries, ControlInv
  <2>2. EntriesOf(<<>>) = {} BY EmptyQueue
  <2>3. \A e \in Entries : Settled(e) => Settled(e)' BY <2>1, <2>2, ResultsKept DEF Settled, InQueue
  <2> QED BY <2>1, <2>3, SettledKept
<1>13. CASE Return BY <1>7, <1>13 DEF Return
<1>20. ASSUME NEW e \in Entries, Job(e)
       PROVE  /\ UNCHANGED <<opts, interrupted, prep, jobCh, pending>>
              /\ \A x \in Entries : x # e => gpc'[x] = gpc[x]
              /\ ~RetryLater(e) => UNCHANGED retryQueue
  BY <1>0, <1>20, JobSteps
<1>21. ASSUME NEW e \in Entries, StoreFails(e) \/ Flag(e) \/ CancelRun(e) PROVE SettledInv'
  <2>1. failed' BY <1>21 DEF StoreFails, Flag, FlagFailed, CancelRun, At, FlagInv
  <2> QED BY <2>1 DEF SettledInv
<1>22. ASSUME NEW e \in Entries, RetryLater(e) PROVE SettledInv'
  <2> DEFINE t == TaskOf(e, Remaining(task[e]), task[e].attempt + 1)
  <2>1. /\ retryQueue' = Append(retryQueue, t) /\ UNCHANGED <<opts, db, prep, jobCh, pending, failed, interrupted>>
        /\ t.entry = e /\ \A x \in Entries : x # e => gpc'[x] = gpc[x]
    BY <1>0, <1>22 DEF RetryLater, Go, TaskOf
  <2> HIDE DEF t
  <2>2. retryQueue \in Seq(TaskRecord \cup {t}) /\ t \in TaskRecord \cup {t} BY <1>0
  <2>3. EntriesOf(retryQueue') = EntriesOf(retryQueue) \cup {e} BY <2>1, <2>2, SendToQueue
  <2>4. \A x \in Entries : Settled(x) => Settled(x)'
    BY <2>1, <2>3, ResultsKept DEF Settled, InQueue
  <2> QED BY <2>1, <2>4, SettledKept
<1>23. ASSUME NEW e \in Entries, StoreResult(e) PROVE SettledInv'
  <2>1. /\ gpc'[e] \in {"build", "apply"} /\ UNCHANGED <<opts, prep, jobCh, pending, retryQueue, failed, interrupted>>
        /\ \A x \in Entries : x # e => gpc'[x] = gpc[x] /\ db'[x] = db[x]
    BY <1>0, <1>23 DEF StoreResult, Go, TypeBase
  <2>2. \A x \in Entries : Settled(x) => Settled(x)'
    <3> SUFFICES ASSUME NEW x \in Entries, Settled(x) PROVE Settled(x)' OBVIOUS
    <3>1. CASE x = e BY <2>1, <3>1 DEF Settled, Building
    <3>2. CASE x # e
      <4>1. (AllSucceeded(x)' <=> AllSucceeded(x)) /\ (SkippedFailure(x)' <=> SkippedFailure(x))
        BY <2>1, <3>2 DEF AllSucceeded, SkippedFailure, ModeSet
      <4> QED BY <2>1, <3>2, <4>1 DEF Settled, InQueue
    <3> QED BY <3>1, <3>2
  <2> QED BY <2>1, <2>2, SettledKept
<1>24. ASSUME NEW e \in Entries, BuildReturns(e) \/ Apply(e) \/ ReleaseSlot(e) \/ ReleaseGlobal(e)
       PROVE  SettledInv'
  <2>1. /\ UNCHANGED <<opts, db, prep, jobCh, pending, retryQueue, failed, interrupted>>
        /\ \A x \in Entries : x # e => gpc'[x] = gpc[x]
        /\ \/ gpc'[e] \in {"retry", "store", "flag"}
           \/ gpc[e] = "apply" /\ ok[e]
           \/ gpc[e] \in {"release", "releaseGlobal"}
    BY <1>0, <1>24 DEF BuildReturns, Apply, ReleaseSlot, ReleaseGlobal, Go, At
  <2>2. gpc[e] = "apply" /\ ok[e] => AllSucceeded(e)
    BY <1>0 DEF WorkInv, Unbuilt, AllSucceeded
  <2>3. \A x \in Entries : Settled(x) => Settled(x)'
    <3> SUFFICES ASSUME NEW x \in Entries, Settled(x) PROVE Settled(x)' OBVIOUS
    <3>1. CASE x = e /\ gpc'[e] \in {"retry", "store", "flag"} BY <3>1 DEF Settled, Building
    <3>2. CASE x = e /\ gpc[e] = "apply" /\ ok[e] BY <2>1, <2>2, <3>2, ResultsKept DEF Settled
    <3>3. CASE x = e /\ gpc[e] \in {"release", "releaseGlobal"}
      BY <2>1, <3>3, ResultsKept DEF Settled, InQueue, Building
    <3>4. CASE x # e BY <2>1, <3>4, ResultsKept DEF Settled, InQueue
    <3> QED BY <2>1, <3>1, <3>2, <3>3, <3>4
  <2> QED BY <2>1, <2>3, SettledKept
<1>15. CASE Interrupt
  <2>1. interrupted' BY <1>15 DEF Interrupt
  <2> QED BY <2>1 DEF SettledInv
<1>16. CASE RefreshAddrs BY <1>7, <1>16 DEF RefreshAddrs
<1>17. CASE NextCommand
  <2>1. prep' = 1 BY <1>17 DEF NextCommand
  <2>2. \A e \in Entries : ~(e < prep') BY <1>0, <2>1 DEF Entries
  <2> QED BY <2>2 DEF SettledInv
<1>18. CASE UNCHANGED vars BY <1>7, <1>18 DEF vars
<1> QED
  BY <1>1, <1>2, <1>3, <1>4, <1>5, <1>8, <1>9, <1>10, <1>11, <1>12, <1>13, <1>15, <1>16, <1>17,
     <1>18, <1>21, <1>22, <1>23, <1>24
  DEF Next, Producer, Command, Job, Finished

\* A build command that returns nil and was not interrupted has the results of
\* every directory of its filter: none is lost between the preparation, the
\* queues, the retries and the goroutines.
THEOREM NilIsHonest == Spec => []NilMeansBuilt
<1>1. Init => FlagInv BY DEF Init, FlagInv, Stopping
<1>2. Init => SettledInv
  <2>1. ASSUME Init PROVE \A e \in Entries : ~(e < prep) BY <2>1, NAssumption DEF Init, Entries
  <2> QED BY <2>1 DEF SettledInv
<1>3. JobsInv /\ FlagInv /\ SettledInv => NilMeansBuilt
  <2> SUFFICES ASSUME JobsInv, FlagInv, SettledInv, ret = "nil", ~interrupted,
                      NEW e \in Entries \ Excluded
               PROVE  AllSucceeded(e) \/ SkippedFailure(e)
    BY DEF NilMeansBuilt, AllBuilt
  <2>1. ~failed /\ mpc = "done" /\ ~Stopping BY DEF FlagInv, Stopping
  <2>2. /\ pending = <<>> /\ retryQueue = <<>> /\ jobCh = <<>> /\ ppc = "end" /\ retrying
        /\ \A x \in Entries : gpc[x] = "idle"
    BY <2>1 DEF JobsInv, ControlInv
  <2>3. prep = N + 1 BY <2>1, <2>2 DEF FlagInv
  <2>4. e < prep BY <2>3, NAssumption DEF Entries
  <2>5. Settled(e) BY <2>1, <2>4 DEF SettledInv
  <2>6. ~InQueue(e) BY <2>2, EmptyQueue DEF InQueue
  <2> QED BY <2>2, <2>5, <2>6 DEF Settled, Building
<1> QED BY <1>1, <1>2, <1>3, FlagStep, SettledStep, JobsAreConsistent, PTL DEF Spec
=============================================================================
