-------------------------- MODULE ResultStoreProofs -------------------------
(***************************************************************************)
(* The failure log and the database of a batch agree, for any number of    *)
(* jobs, targets, faults and line lengths. The inductive invariant says    *)
(* what a goroutine knows at each of its steps (StoreType, LoggedFirst),   *)
(* in which order the lines of a job are (OrderInv), and how the size of   *)
(* the file, its damaged lines and its last line follow from the faults so *)
(* far (SizeInv, NewestInv).                                               *)
(***************************************************************************)
EXTENDS ResultStore, FiniteSetTheorems, SequenceTheorems, TLAPS

Points == {"idle", "log", "trim", "put", "ended"}
JobRecords == [result : Results, size : Nat, final : BOOLEAN]

\* A goroutine between the end of an attempt and its last write has the
\* result of that attempt, with a line to write if it has a log.
CurrentAttempt ==
    \A j \in Jobs :
        /\ pc[j] \in {"log", "trim", "put"} =>
              /\ serial[j] > 0
              /\ job[j].result.id = [job |-> j, serial |-> serial[j]]
        /\ pc[j] \in {"log", "trim"} =>
              /\ job[j].result.logged
              /\ job[j].size \in Sizes

\* Only the last line may lack its newline, and a line parses exactly when it
\* is about an attempt.
Shape(f) ==
    \A i \in DOMAIN f :
        /\ i < Len(f) => f[i].nl
        /\ f[i].ok <=> f[i].id # NoAttempt

StoreType ==
    /\ log \in Seq(Lines) /\ Shape(log)
    /\ db \in [Targets -> Results] /\ targetOf \in [Jobs -> Targets]
    /\ mu \in Jobs \cup {NoJob} /\ pc \in [Jobs -> Points]
    /\ \A j \in Jobs : pc[j] = "trim" <=> mu = j
    /\ job \in [Jobs -> JobRecords] /\ CurrentAttempt
    /\ attempt \in [Jobs -> 0..Retry] /\ serial \in [Jobs -> 0..MaxAttempts]
    /\ faults \in 0..MaxFaults /\ newest \in Lines /\ excused \subseteq Attempts

\* A failure whose log has been dealt with, and every failure stored, has its
\* line or an excuse.
LoggedFirst ==
    /\ \A j \in Jobs :
          pc[j] = "trim" \/ (pc[j] = "put" /\ job[j].result.logged) =>
              job[j].result.id \in ids(log) \cup excused
    /\ StoredFailureHasLog

\* The lines of a job are in the order of its attempts, none is of a later
\* attempt than its current one, and a result is stored under its own target.
Ordered(f) ==
    \A i, k \in DOMAIN f :
        i <= k /\ f[i].ok /\ f[k].ok /\ f[i].id.job = f[k].id.job =>
            f[i].id.serial <= f[k].id.serial
UpTo(f, last) == \A i \in DOMAIN f : f[i].ok => f[i].id.serial <= last[f[i].id.job]
OrderInv ==
    /\ Ordered(log)
    /\ UpTo(log, serial)
    /\ \A t \in Targets : db[t].id # NoAttempt => targetOf[db[t].id.job] = t

\* The lines that do not parse, or will not once another follows.
Damaged(f) == {i \in DOMAIN f : ~f[i].ok \/ ~f[i].nl}

\* A goroutine that is about to trim adds one line to what faults have left.
SizeInv ==
    /\ mu = NoJob => SizeOf(log) <= MaxFileSize * (1 + faults)
    /\ mu # NoJob => /\ SizeOf(log) > MaxFileSize
                     /\ SizeOf(log) <= MaxFileSize * (1 + faults) + MaxFileSize
    /\ Cardinality(Damaged(log)) <= faults

\* The newest line is the last one until it is trimmed, alone, for its length.
NewestInv ==
    newest # NoLine =>
        /\ newest.size <= MaxFileSize
        /\ log = <<>> => mu = NoJob /\ newest.size = MaxFileSize
        /\ log # <<>> => log[Len(log)] = newest
-----------------------------------------------------------------------------
(* Numbers and files.                                                      *)

\* A set of numbers that is not empty has a least one.
LEMMA LeastNumber ==
    ASSUME NEW S \in SUBSET Nat, S # {}
    PROVE  \E n \in S : \A m \in S : n <= m
<1>1. PICK n \in S : \A m \in S : ~(<<m, n>> \in OpToRel(<, Nat))
  BY NatLessThanWellFounded, WFMin
<1>2. \A m \in S : ~(m < n)
  BY <1>1 DEF OpToRel
<1> QED BY <1>2

\* ... and a greatest one, when it is bounded.
LEMMA GreatestNumber ==
    ASSUME NEW n \in Nat, NEW S \in SUBSET (1..n), S # {}
    PROVE  \E m \in S : \A k \in S : k <= m
<1> DEFINE R == {k \in Nat : k <= n /\ n - k \in S}
<1>1. R \in SUBSET Nat /\ R # {}
  <2>1. PICK m \in S : TRUE
    OBVIOUS
  <2>2. n - m \in Nat /\ n - m <= n /\ n - (n - m) = m
    OBVIOUS
  <2> QED BY <2>2
<1>2. PICK r \in R : \A k \in R : r <= k
  BY <1>1, LeastNumber
<1>3. ASSUME NEW k \in S
      PROVE  k <= n - r
  <2>1. n - k \in Nat /\ n - k <= n /\ n - (n - k) = k
    OBVIOUS
  <2> QED BY <1>2, <2>1
<1> QED BY <1>2, <1>3

\* The bytes of a line.
LEMMA LineBytes ==
    ASSUME NEW i \in Nat, NEW n \in Nat
    PROVE  IsFiniteSet({i} \X (1..n)) /\ Cardinality({i} \X (1..n)) = n
<1>1. IsFiniteSet({i}) /\ Cardinality({i}) = 1
  BY FS_Singleton
<1>2. IsFiniteSet(1..n) /\ Cardinality(1..n) = n
  BY FS_Interval
<1>3. /\ IsFiniteSet({i} \X (1..n))
      /\ Cardinality({i} \X (1..n)) = Cardinality({i}) * Cardinality(1..n)
  BY <1>1, <1>2, FS_Product
<1>4. 1 * n = n
  OBVIOUS
<1> QED BY <1>1, <1>2, <1>3, <1>4

\* A file has finitely many bytes.
LEMMA SizeIsNumber ==
    ASSUME NEW f \in Seq(Lines)
    PROVE  IsFiniteSet(Bytes(f)) /\ SizeOf(f) \in Nat
<1> DEFINE g == [i \in DOMAIN f |-> {i} \X (1..f[i].size)]
           P == {{i} \X (1..f[i].size) : i \in DOMAIN f}
<1>1. IsFiniteSet(DOMAIN f)
  BY FS_Interval
<1>2. g \in Surjection(DOMAIN f, P)
  BY DEF Surjection
<1>3. IsFiniteSet(P)
  BY <1>1, <1>2, FS_Surjection
<1>4. \A p \in P : IsFiniteSet(p)
  <2> SUFFICES ASSUME NEW i \in DOMAIN f PROVE IsFiniteSet({i} \X (1..f[i].size))
    OBVIOUS
  <2>1. i \in Nat /\ f[i] \in Lines
    OBVIOUS
  <2>2. f[i].size \in Nat
    BY <2>1 DEF Lines
  <2> QED BY <2>1, <2>2, LineBytes
<1>5. IsFiniteSet(UNION P)
  BY <1>3, <1>4, FS_UNION
<1> QED BY <1>5, FS_CardinalityType DEF Bytes, SizeOf

\* A line appended adds its length.
LEMMA SizeOfAppend ==
    ASSUME NEW f \in Seq(Lines), NEW line \in Lines
    PROVE  SizeOf(Append(f, line)) = SizeOf(f) + line.size
<1> DEFINE n == Len(f) + 1
           new == {n} \X (1..line.size)
<1>1. Bytes(Append(f, line)) = Bytes(f) \cup new
  <2>1. /\ DOMAIN Append(f, line) = DOMAIN f \cup {n}
        /\ \A i \in DOMAIN f : Append(f, line)[i] = f[i]
        /\ Append(f, line)[n] = line
    OBVIOUS
  <2> QED BY <2>1 DEF Bytes
<1>2. Bytes(f) \cap new = {}
  BY DEF Bytes
<1>3. /\ IsFiniteSet(new) /\ Cardinality(new) = line.size
      /\ line.size \in Nat
  <2>1. n \in Nat /\ line.size \in Nat
    BY DEF Lines
  <2> QED BY <2>1, LineBytes
<1>4. Cardinality(Bytes(f) \cup new) = Cardinality(Bytes(f)) + Cardinality(new) - Cardinality({})
  <2> HIDE DEF new
  <2> QED BY <1>2, <1>3, SizeIsNumber, FS_Union
<1>5. Cardinality({}) = 0
  BY FS_EmptySet
<1>6. Cardinality(Bytes(f)) \in Nat
  BY SizeIsNumber DEF SizeOf
<1>7. Cardinality(Bytes(f) \cup new) = Cardinality(Bytes(f)) + line.size
  <2> HIDE DEF new
  <2> QED BY <1>3, <1>4, <1>5, <1>6
<1> QED BY <1>1, <1>7 DEF SizeOf

\* The other operations on a file, by what they do to its lines.
LEMMA FileOps ==
    ASSUME NEW f \in Seq(Lines), f # <<>>
    PROVE  /\ Len(f) \in Nat /\ Len(f) >= 1
           /\ Last(f) = f[Len(f)] /\ Last(f) \in Lines
           /\ Front(f) \in Seq(Lines) /\ Len(Front(f)) = Len(f) - 1
           /\ \A i \in 1..Len(f) - 1 : Front(f)[i] = f[i]
           /\ f = Append(Front(f), Last(f))
<1>1. Len(f) \in Nat /\ Len(f) >= 1
  OBVIOUS
<1>2. Last(f) = f[Len(f)] /\ Last(f) \in Lines
  BY <1>1 DEF Last
<1>3. /\ Front(f) \in Seq(Lines) /\ Len(Front(f)) = Len(f) - 1
      /\ \A i \in 1..Len(f) - 1 : Front(f)[i] = f[1 + i - 1]
  <2>1. \A i \in 1..Len(f) - 1 : f[i] \in Lines
    OBVIOUS
  <2>2. 1 \in Int /\ Len(f) - 1 \in Int
    BY <1>1
  <2>3. /\ SubSeq(f, 1, Len(f) - 1) \in Seq(Lines)
        /\ Len(SubSeq(f, 1, Len(f) - 1)) =
              IF 1 <= Len(f) - 1 THEN Len(f) - 1 - 1 + 1 ELSE 0
        /\ \A i \in 1..Len(f) - 1 - 1 + 1 : SubSeq(f, 1, Len(f) - 1)[i] = f[1 + i - 1]
    BY <2>1, <2>2, SubSeqProperties
  <2>4. Len(f) - 1 - 1 + 1 = Len(f) - 1
    BY <1>1
  <2>5. Front(f) = SubSeq(f, 1, Len(f) - 1)
    BY DEF Front
  <2> QED BY <1>1, <2>3, <2>4, <2>5
<1>4. \A i \in 1..Len(f) - 1 : Front(f)[i] = f[i]
  BY <1>1, <1>3
<1>5. f = Append(Front(f), Last(f))
  BY <1>1, <1>2, <1>3, <1>4
<1> QED BY <1>1, <1>2, <1>3, <1>4, <1>5

\* A write adds its length, be it to a torn file or not.
LEMMA SizeOfAppendLine ==
    ASSUME NEW f \in Seq(Lines), NEW line \in Lines
    PROVE  /\ AppendLine(f, line) \in Seq(Lines)
           /\ SizeOf(AppendLine(f, line)) = SizeOf(f) + line.size
<1>1. CASE ~Torn(f)
  BY <1>1, SizeOfAppend DEF AppendLine
<1>2. CASE Torn(f)
  <2> DEFINE joined == Line(NoAttempt, Last(f).size + line.size, FALSE, line.nl)
  <2>1. f # <<>>
    BY <1>2 DEF Torn
  <2>2. Last(f) \in Lines /\ Front(f) \in Seq(Lines) /\ f = Append(Front(f), Last(f))
    BY <2>1, FileOps
  <2>3. Last(f).size \in Nat /\ line.size \in Nat
    BY <2>2 DEF Lines
  <2>4. joined \in Lines /\ joined.size = Last(f).size + line.size
    BY <2>3 DEF Lines, Line, Ids
  <2>5. AppendLine(f, line) = Append(Front(f), joined)
    BY <1>2 DEF AppendLine
  <2>6. SizeOf(Append(Front(f), joined)) = SizeOf(Front(f)) + joined.size
    BY <2>2, <2>4, SizeOfAppend
  <2>7. SizeOf(f) = SizeOf(Front(f)) + Last(f).size
    BY <2>2, SizeOfAppend
  <2>8. SizeOf(Front(f)) \in Nat
    BY <2>2, SizeIsNumber
  <2> HIDE DEF joined
  <2>9. AppendLine(f, line) \in Seq(Lines)
    BY <2>2, <2>4, <2>5
  <2>10. SizeOf(AppendLine(f, line)) = SizeOf(Front(f)) + (Last(f).size + line.size)
    BY <2>4, <2>5, <2>6
  <2>11. SizeOf(AppendLine(f, line)) = SizeOf(f) + line.size
    BY <2>3, <2>7, <2>8, <2>10
  <2> QED BY <2>9, <2>11
<1> QED BY <1>1, <1>2

\* The first d lines of a file and the rest of it.
LEMMA Cut ==
    ASSUME NEW f \in Seq(Lines), NEW d \in DOMAIN f
    PROVE  /\ SubSeq(f, 1, d) \in Seq(Lines)
           /\ Len(SubSeq(f, 1, d)) = d
           /\ \A i \in 1..d : SubSeq(f, 1, d)[i] = f[i]
           /\ SubSeq(f, d + 1, Len(f)) \in Seq(Lines)
           /\ Len(SubSeq(f, d + 1, Len(f))) = Len(f) - d
           /\ \A i \in 1..Len(f) - d : SubSeq(f, d + 1, Len(f))[i] = f[d + i]
<1>1. /\ Len(f) \in Nat /\ d \in Nat /\ d >= 1 /\ d <= Len(f)
      /\ \A i \in 1..Len(f) : f[i] \in Lines
  OBVIOUS
<1>2. /\ SubSeq(f, 1, d) \in Seq(Lines)
      /\ Len(SubSeq(f, 1, d)) = IF 1 <= d THEN d - 1 + 1 ELSE 0
      /\ \A i \in 1..d - 1 + 1 : SubSeq(f, 1, d)[i] = f[1 + i - 1]
  <2>1. 1 \in Int /\ d \in Int /\ \A i \in 1..d : f[i] \in Lines
    BY <1>1
  <2> QED BY <2>1, SubSeqProperties
<1>3. /\ SubSeq(f, d + 1, Len(f)) \in Seq(Lines)
      /\ Len(SubSeq(f, d + 1, Len(f))) =
            IF d + 1 <= Len(f) THEN Len(f) - (d + 1) + 1 ELSE 0
      /\ \A i \in 1..Len(f) - (d + 1) + 1 : SubSeq(f, d + 1, Len(f))[i] = f[d + 1 + i - 1]
  <2>1. d + 1 \in Int /\ Len(f) \in Int /\ \A i \in d + 1..Len(f) : f[i] \in Lines
    BY <1>1
  <2> QED BY <2>1, SubSeqProperties
<1>4. Len(SubSeq(f, 1, d)) = d /\ Len(SubSeq(f, d + 1, Len(f))) = Len(f) - d
  BY <1>1, <1>2, <1>3
<1>5. \A i \in 1..d : SubSeq(f, 1, d)[i] = f[i]
  BY <1>1, <1>2
<1>6. \A i \in 1..Len(f) - d : SubSeq(f, d + 1, Len(f))[i] = f[d + i]
  <2> SUFFICES ASSUME NEW i \in 1..Len(f) - d
               PROVE  SubSeq(f, d + 1, Len(f))[i] = f[d + i]
    OBVIOUS
  <2>1. Len(f) - (d + 1) + 1 = Len(f) - d /\ d + 1 + i - 1 = d + i
    BY <1>1
  <2> QED BY <1>3, <2>1
<1> QED BY <1>2, <1>3, <1>4, <1>5, <1>6

\* What is left of a file when lines are dropped from its front.
LEMMA SizeOfRest ==
    ASSUME NEW f \in Seq(Lines), NEW d \in DOMAIN f
    PROVE  /\ EndOf(f, d) \in Nat
           /\ SizeOf(SubSeq(f, d + 1, Len(f))) <= SizeOf(f) - EndOf(f, d)
<1> DEFINE p == SubSeq(f, 1, d)
           r == SubSeq(f, d + 1, Len(f))
           h == [b \in Bytes(r) |-> <<b[1] + d, b[2]>>]
<1>1. /\ p \in Seq(Lines) /\ DOMAIN p = 1..d /\ \A i \in 1..d : p[i] = f[i]
      /\ r \in Seq(Lines) /\ DOMAIN r = 1..Len(f) - d
      /\ \A i \in 1..Len(f) - d : r[i] = f[d + i]
      /\ Len(f) \in Nat /\ d \in 1..Len(f)
  <2>1. /\ p \in Seq(Lines) /\ Len(p) = d /\ \A i \in 1..d : p[i] = f[i]
        /\ r \in Seq(Lines) /\ Len(r) = Len(f) - d
        /\ \A i \in 1..Len(f) - d : r[i] = f[d + i]
    BY Cut
  <2> HIDE DEF p, r
  <2>2. DOMAIN p = 1..d /\ DOMAIN r = 1..Len(f) - d
    BY <2>1
  <2> QED BY <2>1, <2>2
<1> HIDE DEF p, r
<1>2. /\ IsFiniteSet(Bytes(f)) /\ SizeOf(f) \in Nat
      /\ IsFiniteSet(Bytes(p)) /\ SizeOf(p) \in Nat
      /\ IsFiniteSet(Bytes(r)) /\ SizeOf(r) \in Nat
  BY <1>1, SizeIsNumber
<1>3. Bytes(f) \cap Bytes(p) = Bytes(p)
  BY <1>1 DEF Bytes
<1>4. /\ IsFiniteSet(Bytes(f) \ Bytes(p))
      /\ Cardinality(Bytes(f) \ Bytes(p)) = SizeOf(f) - SizeOf(p)
  BY <1>2, <1>3, FS_Difference DEF SizeOf
<1>5. ASSUME NEW b \in Bytes(r)
      PROVE  /\ b = <<b[1], b[2]>> /\ b[1] \in 1..Len(f) - d
             /\ <<b[1] + d, b[2]>> \in Bytes(f) \ Bytes(p)
  <2>1. PICK i \in DOMAIN r : b \in {i} \X (1..r[i].size)
    BY DEF Bytes
  <2>2. b = <<b[1], b[2]>> /\ b[1] = i /\ b[2] \in 1..r[i].size
    BY <2>1
  <2>3. i \in 1..Len(f) - d /\ i + d \in DOMAIN f /\ i + d \notin DOMAIN p /\ r[i] = f[i + d]
    BY <1>1
  <2>4. <<b[1] + d, b[2]>> \in Bytes(f)
    BY <2>2, <2>3 DEF Bytes
  <2>5. <<b[1] + d, b[2]>> \notin Bytes(p)
    BY <2>2, <2>3 DEF Bytes
  <2> QED BY <2>2, <2>3, <2>4, <2>5
<1>6. h \in Injection(Bytes(r), Bytes(f) \ Bytes(p))
  <2>1. h \in [Bytes(r) -> Bytes(f) \ Bytes(p)]
    BY <1>5
  <2>2. ASSUME NEW a \in Bytes(r), NEW b \in Bytes(r), h[a] = h[b]
        PROVE  a = b
    <3>1. a[1] + d = b[1] + d /\ a[2] = b[2]
      BY <2>2
    <3>2. a[1] \in Int /\ b[1] \in Int
      <4>1. a[1] \in 1..Len(f) - d /\ b[1] \in 1..Len(f) - d
        BY <1>5
      <4> QED BY <1>1, <4>1
    <3>3. a[1] = b[1]
      BY <1>1, <3>1, <3>2
    <3> QED BY <1>5, <3>1, <3>3
  <2> QED BY <2>1, <2>2 DEF Injection, IsInjective
<1>7. SizeOf(r) <= SizeOf(f) - SizeOf(p)
  BY <1>4, <1>6, FS_Injection DEF SizeOf
<1> QED BY <1>2, <1>7 DEF EndOf, p, r

\* findFailureLogKeepOffset finds a line: the first that ends after the bytes
\* to trim.
LEMMA KeepOffset ==
    ASSUME NEW f \in Seq(Lines), SizeOf(f) > MaxFileSize
    PROVE  LET trim == SizeOf(f) - MaxFileSize
               d == findFailureLogKeepOffset(f, trim)
           IN  /\ f # <<>> /\ d \in DOMAIN f
               /\ EndOf(f, d) > trim
               /\ \A k \in 1..d - 1 : EndOf(f, k) <= trim
<1> DEFINE trim == SizeOf(f) - MaxFileSize
           past == {i \in DOMAIN f : EndOf(f, i) > trim}
<1>1. Len(f) \in Nat /\ DOMAIN f = 1..Len(f) /\ SizeOf(f) \in Nat /\ MaxFileSize \in Nat
      /\ MaxFileSize > 0
  BY SizeIsNumber, StoreAssumption
<1>2. f # <<>> /\ Len(f) >= 1
  <2>1. ASSUME f = <<>> PROVE FALSE
    <3>1. Bytes(f) = {}
      BY <2>1 DEF Bytes
    <3>2. SizeOf(f) = 0
      BY <3>1, FS_EmptySet DEF SizeOf
    <3> QED BY <1>1, <3>2
  <2> QED BY <1>1, <2>1
<1>3. Len(f) \in past
  <2>1. SubSeq(f, 1, Len(f)) = f
    <3>1. /\ SubSeq(f, 1, Len(f)) \in Seq(Lines)
          /\ Len(SubSeq(f, 1, Len(f))) = Len(f)
          /\ \A i \in 1..Len(f) : SubSeq(f, 1, Len(f))[i] = f[i]
      BY <1>1, <1>2, Cut
    <3> DEFINE g == SubSeq(f, 1, Len(f))
    <3> HIDE DEF g
    <3>2. g \in Seq(Lines) /\ Len(g) = Len(f) /\ \A i \in 1..Len(f) : g[i] = f[i]
      BY <3>1 DEF g
    <3>3. g = f
      BY <3>2
    <3> QED BY <3>3 DEF g
  <2>2. EndOf(f, Len(f)) = SizeOf(f)
    BY <2>1 DEF EndOf
  <2>3. SizeOf(f) > trim
    BY <1>1
  <2> QED BY <1>1, <1>2, <2>2, <2>3
<1>4. PICK n \in past : \A m \in past : n <= m
  <2>1. past \in SUBSET Nat
    BY <1>1
  <2> QED BY <1>3, <2>1, LeastNumber
<1>5. \A k \in 1..n - 1 : EndOf(f, k) <= trim
  <2> SUFFICES ASSUME NEW k \in 1..n - 1 PROVE EndOf(f, k) <= trim
    OBVIOUS
  <2>1. k \in DOMAIN f /\ k < n /\ k \in Nat /\ n \in Nat
    BY <1>1, <1>4
  <2>2. EndOf(f, k) \in Nat
    BY <2>1, SizeOfRest
  <2>3. ~(EndOf(f, k) > trim)
    BY <1>4, <2>1
  <2> QED BY <1>1, <2>2, <2>3
<1>6. n \in DOMAIN f /\ EndOf(f, n) > trim /\ \A k \in 1..n - 1 : EndOf(f, k) <= trim
  BY <1>4, <1>5
<1> HIDE DEF trim, past
<1>7. LET d == findFailureLogKeepOffset(f, trim)
      IN  d \in DOMAIN f /\ EndOf(f, d) > trim /\ \A k \in 1..d - 1 : EndOf(f, k) <= trim
  BY <1>6 DEF findFailureLogKeepOffset
<1> QED BY <1>2, <1>7 DEF trim

\* What a trim keeps: less than the limit, from the end of the file, with the
\* last line unless that alone fills the file.
LEMMA TrimKeeps ==
    ASSUME NEW f \in Seq(Lines), SizeOf(f) > MaxFileSize
    PROVE  \E d \in DOMAIN f :
              /\ f # <<>>
              /\ Trimmed(f) = SubSeq(f, d + 1, Len(f))
              /\ Trimmed(f) \in Seq(Lines)
              /\ SizeOf(Trimmed(f)) < MaxFileSize
              /\ d = Len(f) => f[Len(f)].size >= MaxFileSize
<1> DEFINE trim == SizeOf(f) - MaxFileSize
           d == findFailureLogKeepOffset(f, trim)
<1>1. /\ f # <<>> /\ d \in DOMAIN f /\ EndOf(f, d) > trim
      /\ \A k \in 1..d - 1 : EndOf(f, k) <= trim
  BY KeepOffset
<1>2. Trimmed(f) = SubSeq(f, d + 1, Len(f))
  BY DEF Trimmed
<1> HIDE DEF d
<1>3. Trimmed(f) \in Seq(Lines)
  BY <1>1, <1>2, Cut
<1>4. SizeOf(f) \in Nat /\ MaxFileSize \in Nat /\ SizeOf(Trimmed(f)) \in Nat
  BY <1>3, SizeIsNumber, StoreAssumption
<1>5. SizeOf(Trimmed(f)) < MaxFileSize
  <2>1. EndOf(f, d) \in Nat /\ SizeOf(Trimmed(f)) <= SizeOf(f) - EndOf(f, d)
    BY <1>1, <1>2, SizeOfRest
  <2> QED BY <1>1, <1>4, <2>1
<1>6. ASSUME d = Len(f) PROVE f[Len(f)].size >= MaxFileSize
  <2>1. /\ Len(f) \in Nat /\ Len(f) >= 1
        /\ Last(f) = f[Len(f)] /\ Last(f) \in Lines
        /\ Front(f) \in Seq(Lines) /\ f = Append(Front(f), Last(f))
    BY <1>1, FileOps
  <2>2. SizeOf(f) = SizeOf(Front(f)) + Last(f).size /\ SizeOf(Front(f)) \in Nat
    BY <2>1, SizeOfAppend, SizeIsNumber
  <2>3. Last(f).size \in Nat
    BY <2>1 DEF Lines
  <2>4. CASE Len(f) = 1
    <3>1. Bytes(Front(f)) = {}
      <4>1. Len(Front(f)) = 0 /\ DOMAIN Front(f) = 1..Len(Front(f))
        BY <1>1, <2>1, <2>4, FileOps
      <4> QED BY <4>1 DEF Bytes
    <3>2. SizeOf(Front(f)) = 0
      BY <3>1, FS_EmptySet DEF SizeOf
    <3> QED BY <1>4, <2>1, <2>2, <2>3, <3>2
  <2>5. CASE Len(f) > 1
    <3>1. EndOf(f, Len(f) - 1) <= trim
      <4>1. Len(f) - 1 \in 1..d - 1
        BY <1>6, <2>1, <2>5
      <4> QED BY <1>1, <4>1
    <3>2. EndOf(f, Len(f) - 1) = SizeOf(Front(f))
      BY DEF EndOf, Front
    <3> QED BY <1>4, <2>1, <2>2, <2>3, <3>1, <3>2
  <2> QED BY <2>1, <2>4, <2>5
<1> QED BY <1>1, <1>2, <1>3, <1>5, <1>6

-----------------------------------------------------------------------------
(* What a write and a trim do to the lines.                                *)

\* The lines a goroutine may write, in whole or in part.
LEMMA PartsOfLine ==
    ASSUME NEW line \in Lines, line.id # NoAttempt, NEW part \in PartialWrites(line)
    PROVE  /\ part \in Lines
           /\ part.ok <=> part.id # NoAttempt
           /\ part.ok => part.id = line.id
           /\ ~part.nl
           /\ part.size < line.size
<1>1. PICK n \in 1..line.size - 1 :
        part = Line(IF n = line.size - 1 THEN line.id ELSE NoAttempt, n, n = line.size - 1, FALSE)
  BY DEF PartialWrites
<1>2. line.size \in Nat /\ line.id \in Ids /\ NoAttempt \in Ids
  BY DEF Lines, Ids
<1>3. /\ part.id = (IF n = line.size - 1 THEN line.id ELSE NoAttempt)
      /\ part.size = n /\ part.ok = (n = line.size - 1) /\ part.nl = FALSE
  BY <1>1 DEF Line
<1>4. part \in Lines
  BY <1>1, <1>2 DEF Line, Lines
<1>5. part.size < line.size
  BY <1>2, <1>3
<1>6. CASE n = line.size - 1
  BY <1>3, <1>4, <1>5, <1>6
<1>7. CASE n # line.size - 1
  BY <1>3, <1>4, <1>5, <1>7
<1> QED BY <1>6, <1>7

\* The lines of a file after a write.
LEMMA LinesAfterAppend ==
    ASSUME NEW f \in Seq(Lines), NEW line \in Lines
    PROVE  LET g == AppendLine(f, line)
           IN  /\ ~Torn(f) =>
                     /\ Len(g) = Len(f) + 1
                     /\ \A i \in DOMAIN f : g[i] = f[i]
                     /\ g[Len(g)] = line
               /\ Torn(f) =>
                     /\ Len(g) = Len(f) /\ Len(f) >= 1
                     /\ \A i \in 1..Len(f) - 1 : g[i] = f[i]
                     /\ ~g[Len(g)].ok /\ g[Len(g)].id = NoAttempt
                     /\ g[Len(g)].nl = line.nl
<1>1. CASE ~Torn(f)
  BY <1>1 DEF AppendLine
<1>2. CASE Torn(f)
  <2> DEFINE joined == Line(NoAttempt, Last(f).size + line.size, FALSE, line.nl)
  <2>1. f # <<>>
    BY <1>2 DEF Torn
  <2>2. /\ Len(f) \in Nat /\ Len(f) >= 1
        /\ Front(f) \in Seq(Lines) /\ Len(Front(f)) = Len(f) - 1
        /\ \A i \in 1..Len(f) - 1 : Front(f)[i] = f[i]
    BY <2>1, FileOps
  <2>3. ~joined.ok /\ joined.id = NoAttempt /\ joined.nl = line.nl
    BY DEF Line
  <2>4. AppendLine(f, line) = Append(Front(f), joined)
    BY <1>2 DEF AppendLine
  <2> HIDE DEF joined
  <2>5. /\ Len(Append(Front(f), joined)) = Len(f)
        /\ \A i \in 1..Len(f) - 1 : Append(Front(f), joined)[i] = f[i]
        /\ Append(Front(f), joined)[Len(f)] = joined
    BY <2>2
  <2> QED BY <1>2, <2>2, <2>3, <2>4, <2>5
<1> QED BY <1>1, <1>2

\* A write keeps the shape.
LEMMA ShapeAfterAppend ==
    ASSUME NEW f \in Seq(Lines), Shape(f), NEW line \in Lines,
           line.ok <=> line.id # NoAttempt
    PROVE  Shape(AppendLine(f, line))
<1> DEFINE g == AppendLine(f, line)
<1>1. g \in Seq(Lines)
  BY SizeOfAppendLine
<1>2. CASE ~Torn(f)
  <2>1. /\ Len(g) = Len(f) + 1
        /\ \A i \in DOMAIN f : g[i] = f[i]
        /\ g[Len(g)] = line
    BY <1>2, LinesAfterAppend
  <2>2. f # <<>> => f[Len(f)].nl
    BY <1>2, FileOps DEF Torn
  <2> HIDE DEF g
  <2>3. ASSUME NEW i \in DOMAIN g, i # Len(g)
        PROVE  i \in DOMAIN f /\ g[i] = f[i] /\ f[i].nl
    <3>1. i \in DOMAIN f
      BY <1>1, <2>1, <2>3
    <3> QED BY <2>1, <2>2, <3>1 DEF Shape
  <2>4. Shape(g)
    BY <1>1, <2>1, <2>3 DEF Shape
  <2> QED BY <2>4 DEF g
<1>3. CASE Torn(f)
  <2>1. /\ Len(g) = Len(f) /\ Len(f) >= 1
        /\ \A i \in 1..Len(f) - 1 : g[i] = f[i]
        /\ ~g[Len(g)].ok /\ g[Len(g)].id = NoAttempt
    BY <1>3, LinesAfterAppend
  <2> HIDE DEF g
  <2>2. Shape(g)
    BY <1>1, <2>1 DEF Shape
  <2> QED BY <2>2 DEF g
<1> QED BY <1>2, <1>3

\* No line is lost by a write but the one it hurts.
LEMMA IdsAfterAppend ==
    ASSUME NEW f \in Seq(Lines), Shape(f), NEW line \in Lines
    PROVE  /\ ids(f) \subseteq ids(AppendLine(f, line)) \cup Hurt(f)
           /\ ~Torn(f) /\ line.ok => line.id \in ids(AppendLine(f, line))
<1> DEFINE g == AppendLine(f, line)
<1>1. g \in Seq(Lines)
  BY SizeOfAppendLine
<1>2. CASE ~Torn(f)
  <2>1. /\ Len(g) = Len(f) + 1
        /\ \A i \in DOMAIN f : g[i] = f[i]
        /\ g[Len(g)] = line
    BY <1>2, LinesAfterAppend
  <2> HIDE DEF g
  <2>2. ids(f) \subseteq ids(g) /\ (line.ok => line.id \in ids(g))
    BY <1>1, <2>1 DEF ids
  <2> QED BY <1>2, <2>2 DEF g
<1>3. CASE Torn(f)
  <2>1. /\ Len(g) = Len(f) /\ Len(f) >= 1
        /\ \A i \in 1..Len(f) - 1 : g[i] = f[i]
    BY <1>3, LinesAfterAppend
  <2>2. f # <<>> /\ Last(f) = f[Len(f)]
    BY <1>3, FileOps DEF Torn
  <2>3. Hurt(f) = {f[Len(f)].id} \ {NoAttempt}
    BY <1>3, <2>2 DEF Hurt
  <2> HIDE DEF g
  <2>4. ASSUME NEW i \in DOMAIN f, f[i].ok
        PROVE  f[i].id \in ids(g) \cup Hurt(f)
    <3>1. CASE i = Len(f)
      BY <2>3, <2>4, <3>1 DEF Shape
    <3>2. CASE i # Len(f)
      <4>1. i \in 1..Len(f) - 1 /\ i \in DOMAIN g
        BY <1>1, <2>1, <3>2
      <4> QED BY <2>1, <2>4, <4>1 DEF ids
    <3> QED BY <3>1, <3>2
  <2>5. ids(f) \subseteq ids(g) \cup Hurt(f)
    BY <2>4 DEF ids
  <2> QED BY <1>3, <2>5 DEF g
<1> QED BY <1>2, <1>3

-----------------------------------------------------------------------------
(* Types.                                                                  *)

\* Where a goroutine goes after each step.
LEMMA NextStep ==
    ASSUME NEW r \in JobRecords
    PROVE  /\ StepAfter(r, "build") = IF r.result.logged THEN "log"
                                       ELSE IF r.final THEN "put" ELSE "idle"
           /\ r.result.logged => StepAfter(r, "log") = IF r.final THEN "put" ELSE "idle"
           /\ StepAfter(r, "put") = IF r.final THEN "ended" ELSE "idle"
<1>1. r.final \in BOOLEAN /\ r.result.logged \in BOOLEAN
  BY DEF JobRecords, Results
<1>2. CASE ~r.final /\ ~r.result.logged
  <2>1. Steps(r) = <<>>
    BY <1>2 DEF Steps
  <2> QED BY <1>2, <2>1 DEF StepAfter
<1>3. CASE ~r.final /\ r.result.logged
  <2>1. Steps(r) = <<"log">>
    BY <1>3 DEF Steps
  <2> QED BY <1>3, <2>1 DEF StepAfter
<1>4. CASE r.final /\ ~r.result.logged
  <2>1. Steps(r) = <<"put">>
    BY <1>4 DEF Steps
  <2> QED BY <1>4, <2>1 DEF StepAfter
<1>5. CASE r.final /\ r.result.logged
  <2>1. Steps(r) = <<"log", "put">>
    BY <1>5 DEF Steps, UpsertOrder
  <2> QED BY <1>5, <2>1 DEF StepAfter
<1> QED BY <1>1, <1>2, <1>3, <1>4, <1>5

\* An attempt is not the absence of one.
LEMMA AttemptIsOne == \A id \in Attempts : id # NoAttempt
BY StoreAssumption DEF Attempts, NoAttempt

\* The line a goroutine is about to write.
LEMMA LineIsWellFormed ==
    ASSUME StoreType, NEW j \in Jobs, pc[j] = "log" \/ pc[j] = "trim"
    PROVE  /\ job[j].result.id \in Attempts /\ job[j].result.id # NoAttempt
           /\ job[j].result.id = [job |-> j, serial |-> serial[j]]
           /\ LineOf(j) \in Lines
           /\ LineOf(j).id = job[j].result.id /\ LineOf(j).ok /\ LineOf(j).nl
           /\ LineOf(j).size \in 1..MaxFileSize
<1>1. /\ serial[j] \in 0..MaxAttempts /\ serial[j] > 0
      /\ job[j].result.id = [job |-> j, serial |-> serial[j]]
      /\ job[j].size \in Sizes
  BY DEF StoreType, CurrentAttempt
<1>2. job[j].result.id \in Attempts
  BY <1>1, StoreAssumption DEF Attempts
<1>3. job[j].size \in 1..MaxFileSize /\ MaxFileSize \in Nat
  BY <1>1, StoreAssumption
<1>4. LineOf(j) \in Lines
  BY <1>2, <1>3 DEF LineOf, Line, Lines, Ids
<1> QED BY <1>1, <1>2, <1>3, <1>4, AttemptIsOne DEF LineOf, Line

\* The initial states have the types.
LEMMA StoreInit == Init => StoreType /\ LoggedFirst /\ OrderInv /\ SizeInv /\ NewestInv
<1> SUFFICES ASSUME Init
             PROVE  StoreType /\ LoggedFirst /\ OrderInv /\ SizeInv /\ NewestInv
  OBVIOUS
<1>1. NoResult \in Results /\ ~NoResult.logged /\ NoResult.id = NoAttempt
  BY DEF NoResult, Results
<1>2. NoLine \in Lines
  BY DEF NoLine, Line, Lines, Ids
<1>3. /\ log \in Seq(Lines) /\ Shape(log) /\ log = <<>> /\ newest = NoLine
      /\ db \in [Targets -> Results] /\ \A t \in Targets : db[t] = NoResult
  BY <1>1, <1>2 DEF Init, Shape
<1>4. job \in [Jobs -> JobRecords] /\ targetOf \in [Jobs -> Targets]
  BY <1>1, StoreAssumption DEF Init, JobRecords
<1>5. /\ mu = NoJob /\ pc \in [Jobs -> Points] /\ \A j \in Jobs : pc[j] = "idle"
      /\ \A j \in Jobs : pc[j] = "trim" <=> mu = j
  BY StoreAssumption DEF Init, Points
<1>6. /\ attempt \in [Jobs -> 0..Retry] /\ serial \in [Jobs -> 0..MaxAttempts]
      /\ faults \in 0..MaxFaults /\ faults = 0 /\ excused = {}
  BY StoreAssumption DEF Init
<1>7. CurrentAttempt
  BY <1>5 DEF CurrentAttempt
<1>8. StoreType
  BY <1>2, <1>3, <1>4, <1>5, <1>6, <1>7 DEF StoreType
<1>9. LoggedFirst
  BY <1>1, <1>3, <1>5 DEF LoggedFirst, StoredFailureHasLog
<1>10. OrderInv
  BY <1>1, <1>3 DEF OrderInv, Ordered, UpTo
<1>11. Bytes(log) = {} /\ Damaged(log) = {}
  BY <1>3 DEF Bytes, Damaged
<1>12. SizeOf(log) = 0 /\ Cardinality(Damaged(log)) = 0
  BY <1>11, FS_EmptySet DEF SizeOf
<1>13. SizeInv
  <2>1. MaxFileSize \in Nat
    BY StoreAssumption
  <2> QED BY <1>5, <1>6, <1>12, <2>1 DEF SizeInv
<1>14. NewestInv
  BY <1>3 DEF NewestInv
<1> QED BY <1>8, <1>9, <1>10, <1>13, <1>14

\* What is hurt, or readable, is an attempt.
LEMMA HurtIsAttempt == ASSUME NEW f \in Seq(Lines) PROVE Hurt(f) \subseteq Attempts
<1>1. CASE Torn(f)
  <2>1. Last(f) \in Lines
    BY <1>1, FileOps DEF Torn
  <2>2. Last(f).id \in Attempts \cup {NoAttempt}
    BY <2>1 DEF Lines, Ids
  <2> QED BY <1>1, <2>2 DEF Hurt
<1>2. CASE ~Torn(f)
  BY <1>2 DEF Hurt
<1> QED BY <1>1, <1>2

LEMMA IdsAreAttempts ==
    ASSUME NEW f \in Seq(Lines), Shape(f) PROVE ids(f) \subseteq Attempts
<1>1. ASSUME NEW i \in DOMAIN f, f[i].ok PROVE f[i].id \in Attempts
  <2>1. f[i] \in Lines
    OBVIOUS
  <2>2. f[i].id \in Attempts \cup {NoAttempt}
    BY <2>1 DEF Lines, Ids
  <2> QED BY <1>1, <2>2 DEF Shape
<1> QED BY <1>1 DEF ids

\* The end of a file keeps its shape.
LEMMA ShapeOfRest ==
    ASSUME NEW f \in Seq(Lines), Shape(f), NEW d \in DOMAIN f
    PROVE  Shape(SubSeq(f, d + 1, Len(f)))
<1> DEFINE r == SubSeq(f, d + 1, Len(f))
<1>1. /\ r \in Seq(Lines) /\ Len(r) = Len(f) - d /\ DOMAIN r = 1..Len(f) - d
      /\ \A i \in 1..Len(f) - d : r[i] = f[d + i]
      /\ Len(f) \in Nat /\ d \in Nat
  BY Cut
<1> HIDE DEF r
<1>2. ASSUME NEW i \in DOMAIN r
      PROVE  /\ i < Len(r) => r[i].nl
             /\ r[i].ok <=> r[i].id # NoAttempt
  <2>1. i \in Nat /\ i >= 1 /\ i <= Len(f) - d /\ DOMAIN f = 1..Len(f)
    BY <1>1
  <2>2. d + i \in DOMAIN f /\ (i < Len(r) => d + i < Len(f))
    BY <1>1, <2>1
  <2>3. r[i] = f[d + i]
    BY <1>1
  <2> QED BY <2>2, <2>3 DEF Shape
<1> QED BY <1>2 DEF Shape, r

\* A step keeps the types.
LEMMA StoreTypeStep == ASSUME StoreType, SizeInv, [Next]_vars PROVE StoreType'
<1> USE DEF diskVars, jobVars
<1>0. /\ log \in Seq(Lines) /\ Shape(log)
      /\ db \in [Targets -> Results] /\ targetOf \in [Jobs -> Targets]
      /\ mu \in Jobs \cup {NoJob} /\ pc \in [Jobs -> Points]
      /\ \A j \in Jobs : pc[j] = "trim" <=> mu = j
      /\ job \in [Jobs -> JobRecords] /\ CurrentAttempt
      /\ attempt \in [Jobs -> 0..Retry] /\ serial \in [Jobs -> 0..MaxAttempts]
      /\ faults \in 0..MaxFaults /\ newest \in Lines /\ excused \subseteq Attempts
  BY DEF StoreType
<1>00. NoLine \in Lines /\ NoJob \notin Jobs /\ MaxFaults \in Nat
  BY StoreAssumption DEF NoLine, Line, Lines, Ids
<1>1. ASSUME NEW j \in Jobs, Build(j) PROVE StoreType'
  <2>1. PICK success \in BOOLEAN, n \in Sizes \cup {0} :
          LET r == [result |-> [success |-> success, logged |-> n > 0,
                                id |-> [job |-> j, serial |-> serial[j] + 1]],
                    size |-> n, final |-> success \/ attempt[j] >= Retry]
          IN /\ success => n = 0
             /\ job' = [job EXCEPT ![j] = r]
             /\ attempt' = [attempt EXCEPT ![j] = IF r.final THEN @ ELSE @ + 1]
             /\ pc' = [pc EXCEPT ![j] = StepAfter(r, "build")]
    BY <1>1 DEF Build
  <2> DEFINE id == [job |-> j, serial |-> serial[j] + 1]
             res == [success |-> success, logged |-> n > 0, id |-> id]
             r == [result |-> res, size |-> n, final |-> success \/ attempt[j] >= Retry]
  <2>2. /\ pc[j] = "idle" /\ serial[j] < MaxAttempts /\ serial' = [serial EXCEPT ![j] = @ + 1]
        /\ UNCHANGED <<targetOf, log, db, mu, faults, newest, excused>>
    BY <1>1 DEF Build
  <2>3. id \in Attempts /\ MaxAttempts \in Nat /\ serial[j] \in Nat
    BY <1>0, <2>2, StoreAssumption DEF Attempts
  <2>4. n \in Nat /\ (n > 0 => n \in Sizes)
    BY StoreAssumption
  <2>5. r \in JobRecords /\ r.result.logged = (n > 0) /\ r.result.id = id /\ r.size = n
        /\ r.final = (success \/ attempt[j] >= Retry)
    <3>1. res \in Results
      BY <2>3, <2>4 DEF Results
    <3>2. (success \/ attempt[j] >= Retry) \in BOOLEAN
      OBVIOUS
    <3> HIDE DEF res
    <3>3. r \in JobRecords
      BY <2>4, <3>1, <3>2 DEF JobRecords
    <3> QED BY <3>3 DEF res
  <2>6. /\ job' = [job EXCEPT ![j] = r]
        /\ attempt' = [attempt EXCEPT ![j] = IF r.final THEN @ ELSE @ + 1]
        /\ pc' = [pc EXCEPT ![j] = StepAfter(r, "build")]
    BY <2>1
  <2> HIDE DEF r, res
  <2>7. StepAfter(r, "build") \in {"log", "put", "idle"} /\ (StepAfter(r, "build") = "log" => n > 0)
    BY <2>5, NextStep
  <2>8. attempt' \in [Jobs -> 0..Retry]
    <3>1. attempt[j] \in 0..Retry /\ Retry \in Nat
      BY <1>0, StoreAssumption
    <3>2. attempt[j] >= Retry => r.final
      BY <2>5
    <3>3. ~r.final => attempt[j] + 1 \in 0..Retry
      BY <3>1, <3>2
    <3> QED BY <1>0, <2>6, <3>3
  <2>9. serial' \in [Jobs -> 0..MaxAttempts]
    BY <1>0, <2>2, <2>3
  <2>10. job' \in [Jobs -> JobRecords]
    BY <1>0, <2>5, <2>6
  <2>11. pc' \in [Jobs -> Points] /\ \A i \in Jobs : pc'[i] = "trim" <=> mu' = i
    BY <1>0, <2>2, <2>6, <2>7 DEF Points
  <2>12. CurrentAttempt'
    <3>1. \A i \in Jobs : i # j => pc'[i] = pc[i] /\ job'[i] = job[i] /\ serial'[i] = serial[i]
      BY <1>0, <2>2, <2>6
    <3>2. pc'[j] = StepAfter(r, "build") /\ job'[j] = r /\ serial'[j] = serial[j] + 1
      BY <1>0, <2>2, <2>6
    <3>3. serial'[j] > 0 /\ job'[j].result.id = [job |-> j, serial |-> serial'[j]]
      BY <2>3, <2>5, <3>2
    <3>4. pc'[j] \in {"log", "trim"} => job'[j].result.logged /\ job'[j].size \in Sizes
      BY <2>4, <2>5, <2>7, <3>2
    <3> QED BY <1>0, <3>1, <3>3, <3>4 DEF CurrentAttempt
  <2>13. Shape(log)'
    BY <1>0, <2>2 DEF Shape
  <2> QED BY <1>0, <2>2, <2>8, <2>9, <2>10, <2>11, <2>12, <2>13 DEF StoreType
<1>2. ASSUME NEW j \in Jobs, AppendFailure(j) PROVE StoreType'
  <2>1. /\ pc[j] = "log" /\ mu = NoJob /\ log' = AppendLine(log, LineOf(j))
        /\ newest' = (IF Torn(log) THEN NoLine ELSE LineOf(j))
        /\ excused' = excused \cup Hurt(log) \cup (IF Torn(log) THEN {job[j].result.id} ELSE {})
        /\ UNCHANGED <<targetOf, db, job, attempt, serial, faults>>
    BY <1>2 DEF AppendFailure
  <2>2. /\ job[j].result.id \in Attempts /\ job[j].result.id # NoAttempt
        /\ LineOf(j) \in Lines /\ LineOf(j).ok /\ LineOf(j).id # NoAttempt
    BY <2>1, LineIsWellFormed
  <2>3. log' \in Seq(Lines) /\ Shape(log')
    BY <1>0, <2>1, <2>2, SizeOfAppendLine, ShapeAfterAppend
  <2>4. newest' \in Lines /\ excused' \subseteq Attempts
    BY <1>0, <1>00, <2>1, <2>2, HurtIsAttempt
  <2>5. job[j] \in JobRecords /\ job[j].result.logged
    BY <1>0, <2>1 DEF CurrentAttempt
  <2>6. \/ mu' = j /\ pc' = [pc EXCEPT ![j] = "trim"]
        \/ mu' = NoJob /\ pc' = [pc EXCEPT ![j] = StepAfter(job[j], "log")]
    BY <1>2, <2>1 DEF AppendFailure, Done
  <2>7. StepAfter(job[j], "log") \in {"put", "idle"}
    BY <2>5, NextStep
  <2>8. /\ mu' \in Jobs \cup {NoJob} /\ pc' \in [Jobs -> Points]
        /\ \A i \in Jobs : pc'[i] = "trim" <=> mu' = i
    <3>1. CASE mu' = j /\ pc' = [pc EXCEPT ![j] = "trim"]
      BY <1>0, <1>00, <2>1, <3>1 DEF Points
    <3>2. CASE mu' = NoJob /\ pc' = [pc EXCEPT ![j] = StepAfter(job[j], "log")]
      BY <1>0, <1>00, <2>1, <2>7, <3>2 DEF Points
    <3> QED BY <2>6, <3>1, <3>2
  <2>9. CurrentAttempt'
    BY <1>0, <2>1, <2>6, <2>7 DEF CurrentAttempt
  <2> QED BY <1>0, <2>1, <2>3, <2>4, <2>8, <2>9 DEF StoreType, Shape
<1>3. ASSUME NEW j \in Jobs, AppendFails(j) PROVE StoreType'
  <2>1. /\ pc[j] = "log" /\ mu = NoJob /\ faults < MaxFaults /\ faults' = faults + 1
        /\ newest' = NoLine
        /\ excused' = excused \cup {job[j].result.id} \cup (IF log' # log THEN Hurt(log) ELSE {})
        /\ UNCHANGED <<targetOf, db, mu, job, attempt, serial>>
        /\ pc' = [pc EXCEPT ![j] = StepAfter(job[j], "log")]
    BY <1>3 DEF AppendFails, Done
  <2>2. /\ job[j].result.id \in Attempts
        /\ LineOf(j) \in Lines /\ LineOf(j).id # NoAttempt
    BY <2>1, LineIsWellFormed
  <2>3. log' \in Seq(Lines) /\ Shape(log')
    <3>1. CASE log' = log
      BY <1>0, <3>1
    <3>2. CASE log' # log
      <4>1. PICK part \in PartialWrites(LineOf(j)) : log' = AppendLine(log, part)
        BY <1>3, <3>2 DEF AppendFails
      <4>2. part \in Lines /\ (part.ok <=> part.id # NoAttempt)
        BY <2>2, PartsOfLine
      <4> QED BY <1>0, <4>1, <4>2, SizeOfAppendLine, ShapeAfterAppend
    <3> QED BY <3>1, <3>2
  <2>4. excused' \subseteq Attempts /\ faults' \in 0..MaxFaults
    BY <1>0, <1>00, <2>1, <2>2, HurtIsAttempt
  <2>5. job[j] \in JobRecords /\ job[j].result.logged
    BY <1>0, <2>1 DEF CurrentAttempt
  <2>7. StepAfter(job[j], "log") \in {"put", "idle"}
    BY <2>5, NextStep
  <2>8. pc' \in [Jobs -> Points] /\ \A i \in Jobs : pc'[i] = "trim" <=> mu' = i
    BY <1>0, <1>00, <2>1, <2>7 DEF Points
  <2>9. CurrentAttempt'
    BY <1>0, <2>1, <2>7 DEF CurrentAttempt
  <2> QED BY <1>0, <1>00, <2>1, <2>3, <2>4, <2>8, <2>9 DEF StoreType, Shape
<1>4. ASSUME NEW j \in Jobs, TrimFailureLog(j) PROVE StoreType'
  <2>1. /\ pc[j] = "trim" /\ log' = Trimmed(log) /\ mu' = NoJob
        /\ excused' = excused \cup (ids(log) \ ids(log'))
        /\ UNCHANGED <<targetOf, db, job, attempt, serial, faults, newest>>
        /\ pc' = [pc EXCEPT ![j] = StepAfter(job[j], "log")]
    BY <1>4 DEF TrimFailureLog, Unlock, Done
  <2>2. mu = j /\ SizeOf(log) > MaxFileSize
    BY <1>0, <1>00, <2>1 DEF SizeInv
  <2>3. log' \in Seq(Lines) /\ Shape(log')
    BY <1>0, <2>1, <2>2, TrimKeeps, ShapeOfRest
  <2>4. excused' \subseteq Attempts
    <3>1. ids(log) \subseteq Attempts
      BY <1>0, IdsAreAttempts
    <3> QED BY <1>0, <2>1, <3>1
  <2>5. job[j] \in JobRecords /\ job[j].result.logged
    BY <1>0, <2>1 DEF CurrentAttempt
  <2>7. StepAfter(job[j], "log") \in {"put", "idle"}
    BY <2>5, NextStep
  <2>8. pc' \in [Jobs -> Points] /\ \A i \in Jobs : pc'[i] = "trim" <=> mu' = i
    BY <1>0, <1>00, <2>1, <2>2, <2>7 DEF Points
  <2>9. CurrentAttempt'
    BY <1>0, <2>1, <2>7 DEF CurrentAttempt
  <2> QED BY <1>0, <2>1, <2>3, <2>4, <2>8, <2>9 DEF StoreType, Shape
<1>5. ASSUME NEW j \in Jobs, TrimFails(j) PROVE StoreType'
  <2>1. /\ pc[j] = "trim" /\ mu' = NoJob /\ faults < MaxFaults /\ faults' = faults + 1
        /\ UNCHANGED <<targetOf, log, db, job, attempt, serial, newest, excused>>
        /\ pc' = [pc EXCEPT ![j] = StepAfter(job[j], "log")]
    BY <1>5 DEF TrimFails, Unlock, Done
  <2>2. mu = j
    BY <1>0, <2>1
  <2>5. job[j] \in JobRecords /\ job[j].result.logged
    BY <1>0, <2>1 DEF CurrentAttempt
  <2>7. StepAfter(job[j], "log") \in {"put", "idle"}
    BY <2>5, NextStep
  <2>8. pc' \in [Jobs -> Points] /\ \A i \in Jobs : pc'[i] = "trim" <=> mu' = i
    BY <1>0, <1>00, <2>1, <2>2, <2>7 DEF Points
  <2>9. CurrentAttempt'
    BY <1>0, <2>1, <2>7 DEF CurrentAttempt
  <2>10. faults' \in 0..MaxFaults
    BY <1>0, <1>00, <2>1
  <2> QED BY <1>0, <2>1, <2>8, <2>9, <2>10 DEF StoreType, Shape
<1>6. ASSUME NEW j \in Jobs, Put(j) \/ PutFails(j) PROVE StoreType'
  <2>1. /\ pc[j] = "put" /\ faults' \in 0..MaxFaults
        /\ db' = db \/ db' = [db EXCEPT ![targetOf[j]] = job[j].result]
        /\ UNCHANGED <<targetOf, log, mu, job, attempt, serial, newest, excused>>
        /\ pc' = [pc EXCEPT ![j] = StepAfter(job[j], "put")]
    BY <1>0, <1>00, <1>6 DEF Put, PutFails, Done
  <2>2. job[j] \in JobRecords
    BY <1>0
  <2>3. db' \in [Targets -> Results]
    BY <1>0, <2>1, <2>2 DEF JobRecords
  <2>7. StepAfter(job[j], "put") \in {"ended", "idle"}
    BY <2>2, NextStep
  <2>8. pc' \in [Jobs -> Points] /\ \A i \in Jobs : pc'[i] = "trim" <=> mu' = i
    BY <1>0, <1>00, <2>1, <2>7 DEF Points
  <2>9. CurrentAttempt'
    BY <1>0, <2>1, <2>7 DEF CurrentAttempt
  <2> QED BY <1>0, <2>1, <2>3, <2>8, <2>9 DEF StoreType, Shape
<1>7. ASSUME Crash PROVE StoreType'
  <2>1. /\ faults < MaxFaults /\ faults' = faults + 1 /\ newest' = NoLine /\ mu' = NoJob
        /\ pc' = [j \in Jobs |-> IF db[targetOf[j]].success THEN "ended" ELSE "idle"]
        /\ attempt' = [j \in Jobs |-> 0]
        /\ UNCHANGED <<targetOf, db, job, serial>>
    BY <1>7 DEF Crash
  <2>2. log' \in Seq(Lines) /\ Shape(log') /\ excused' \subseteq Attempts
    <3>1. CASE UNCHANGED <<log, excused>>
      BY <1>0, <3>1
    <3>2. ASSUME NEW j \in Jobs, NEW part \in PartialWrites(LineOf(j)), pc[j] = "log",
                 log' = AppendLine(log, part),
                 excused' = excused \cup {job[j].result.id} \cup Hurt(log)
          PROVE  log' \in Seq(Lines) /\ Shape(log') /\ excused' \subseteq Attempts
      <4>1. /\ job[j].result.id \in Attempts
            /\ LineOf(j) \in Lines /\ LineOf(j).id # NoAttempt
        BY <3>2, LineIsWellFormed
      <4>2. part \in Lines /\ (part.ok <=> part.id # NoAttempt)
        BY <4>1, PartsOfLine
      <4>3. log' \in Seq(Lines) /\ Shape(log')
        BY <1>0, <3>2, <4>2, SizeOfAppendLine, ShapeAfterAppend
      <4>4. excused' \subseteq Attempts
        BY <1>0, <3>2, <4>1, HurtIsAttempt
      <4> QED BY <4>3, <4>4
    <3> QED BY <1>7, <3>1, <3>2 DEF Crash
  <2>3. /\ pc' \in [Jobs -> Points] /\ \A i \in Jobs : pc'[i] = "trim" <=> mu' = i
        /\ \A i \in Jobs : pc'[i] \in {"ended", "idle"}
    BY <1>00, <2>1 DEF Points
  <2>4. faults' \in 0..MaxFaults /\ attempt' \in [Jobs -> 0..Retry]
    BY <1>0, <1>00, <2>1, StoreAssumption
  <2>5. CurrentAttempt'
    BY <2>3 DEF CurrentAttempt
  <2> QED BY <1>0, <1>00, <2>1, <2>2, <2>3, <2>4, <2>5 DEF StoreType, Shape
<1>8. CASE UNCHANGED vars
  BY <1>0, <1>8 DEF vars, StoreType, Shape, CurrentAttempt
<1> QED BY <1>1, <1>2, <1>3, <1>4, <1>5, <1>6, <1>7, <1>8 DEF Next

\* What the end of an attempt changes.
LEMMA BuildEffect ==
    ASSUME StoreType, NEW j \in Jobs, Build(j)
    PROVE  /\ pc[j] = "idle"
           /\ pc'[j] \in {"log", "put", "idle"}
           /\ pc'[j] = "put" => ~job'[j].result.logged
           /\ \A i \in Jobs : i # j => pc'[i] = pc[i] /\ job'[i] = job[i]
           /\ serial' = [serial EXCEPT ![j] = @ + 1]
           /\ UNCHANGED <<targetOf, log, db, mu, faults, newest, excused>>
<1>1. PICK success \in BOOLEAN, n \in Sizes \cup {0} :
        LET r == [result |-> [success |-> success, logged |-> n > 0,
                              id |-> [job |-> j, serial |-> serial[j] + 1]],
                  size |-> n, final |-> success \/ attempt[j] >= Retry]
        IN /\ success => n = 0
           /\ job' = [job EXCEPT ![j] = r]
           /\ attempt' = [attempt EXCEPT ![j] = IF r.final THEN @ ELSE @ + 1]
           /\ pc' = [pc EXCEPT ![j] = StepAfter(r, "build")]
  BY DEF Build
<1> DEFINE id == [job |-> j, serial |-> serial[j] + 1]
           res == [success |-> success, logged |-> n > 0, id |-> id]
           r == [result |-> res, size |-> n, final |-> success \/ attempt[j] >= Retry]
<1>2. /\ pc[j] = "idle" /\ serial[j] < MaxAttempts /\ serial' = [serial EXCEPT ![j] = @ + 1]
      /\ UNCHANGED <<targetOf, log, db, mu, faults, newest, excused>>
  BY DEF Build, diskVars
<1>3. id \in Attempts /\ n \in Nat
  BY <1>2, StoreAssumption DEF StoreType, Attempts
<1>4. r \in JobRecords /\ r.result.logged = (n > 0)
  <2>1. res \in Results
    BY <1>3 DEF Results
  <2>2. (success \/ attempt[j] >= Retry) \in BOOLEAN
    OBVIOUS
  <2> HIDE DEF res
  <2>3. r \in JobRecords
    BY <1>3, <2>1, <2>2 DEF JobRecords
  <2> QED BY <2>3 DEF res
<1>5. job' = [job EXCEPT ![j] = r] /\ pc' = [pc EXCEPT ![j] = StepAfter(r, "build")]
  BY <1>1
<1> HIDE DEF r, res, id
<1>6. /\ StepAfter(r, "build") \in {"log", "put", "idle"}
      /\ StepAfter(r, "build") = "put" => ~r.result.logged
  BY <1>4, NextStep
<1>7. /\ job'[j] = r /\ pc'[j] = StepAfter(r, "build")
      /\ \A i \in Jobs : i # j => pc'[i] = pc[i] /\ job'[i] = job[i]
  BY <1>5 DEF StoreType
<1> QED BY <1>2, <1>6, <1>7

\* What a goroutine knows once it has written its line, or failed to, and
\* once it has trimmed the file or failed to.
LEMMA DoneWithLog ==
    ASSUME StoreType, NEW j \in Jobs, pc[j] \in {"log", "trim"}, Done(j, "log")
    PROVE  /\ pc'[j] \in {"put", "idle"}
           /\ \A i \in Jobs : i # j => pc'[i] = pc[i]
<1>1. job[j] \in JobRecords /\ job[j].result.logged
  BY DEF StoreType, CurrentAttempt
<1>2. StepAfter(job[j], "log") \in {"put", "idle"}
  BY <1>1, NextStep
<1> QED BY <1>2 DEF Done, StoreType

-----------------------------------------------------------------------------
(* Failures and their lines.                                               *)

\* LoggedFirst lasts when no line and no excuse is lost and the goroutine that
\* moves has its own.
LEMMA LoggedKept ==
    ASSUME StoreType, LoggedFirst, NEW j \in Jobs,
           ids(log) \cup excused \subseteq ids(log') \cup excused',
           \A i \in Jobs : i # j => pc'[i] = pc[i] /\ job'[i] = job[i],
           pc'[j] = "trim" \/ (pc'[j] = "put" /\ job'[j].result.logged) =>
               job'[j].result.id \in ids(log') \cup excused',
           \A t \in Targets : db'[t] = db[t] \/ (db'[t].logged => db'[t].id \in ids(log') \cup excused')
    PROVE  LoggedFirst'
<1>1. \A i \in Jobs :
          pc'[i] = "trim" \/ (pc'[i] = "put" /\ job'[i].result.logged) =>
              job'[i].result.id \in ids(log') \cup excused'
  BY DEF LoggedFirst
<1>2. \A t \in Targets : db'[t].logged => db'[t].id \in ids(log') \cup excused'
  BY DEF LoggedFirst, StoredFailureHasLog
<1> QED BY <1>1, <1>2 DEF LoggedFirst, StoredFailureHasLog

\* A step keeps LoggedFirst.
LEMMA LoggedStep == ASSUME StoreType, LoggedFirst, [Next]_vars PROVE LoggedFirst'
<1> USE DEF diskVars, jobVars
<1>0. log \in Seq(Lines) /\ Shape(log)
  BY DEF StoreType
<1>1. ASSUME NEW j \in Jobs, Build(j) PROVE LoggedFirst'
  BY <1>1, BuildEffect, LoggedKept
<1>2. ASSUME NEW j \in Jobs, AppendFailure(j) PROVE LoggedFirst'
  <2>1. /\ pc[j] = "log" /\ log' = AppendLine(log, LineOf(j))
        /\ excused' = excused \cup Hurt(log) \cup (IF Torn(log) THEN {job[j].result.id} ELSE {})
        /\ UNCHANGED <<db, job>>
    BY <1>2 DEF AppendFailure
  <2>2. LineOf(j) \in Lines /\ LineOf(j).ok /\ LineOf(j).id = job[j].result.id
    BY <2>1, LineIsWellFormed
  <2>3. /\ ids(log) \subseteq ids(log') \cup Hurt(log)
        /\ ~Torn(log) => job[j].result.id \in ids(log')
    BY <1>0, <2>1, <2>2, IdsAfterAppend
  <2>4. /\ ids(log) \cup excused \subseteq ids(log') \cup excused'
        /\ job[j].result.id \in ids(log') \cup excused'
    BY <2>1, <2>3
  <2>5. \A i \in Jobs : i # j => pc'[i] = pc[i] /\ job'[i] = job[i]
    BY <1>2, <2>1 DEF AppendFailure, Done, StoreType
  <2> QED BY <2>1, <2>4, <2>5, LoggedKept
<1>3. ASSUME NEW j \in Jobs, AppendFails(j) PROVE LoggedFirst'
  <2>1. /\ pc[j] = "log" /\ Done(j, "log")
        /\ excused' = excused \cup {job[j].result.id} \cup (IF log' # log THEN Hurt(log) ELSE {})
        /\ UNCHANGED <<db, job>>
    BY <1>3 DEF AppendFails
  <2>2. LineOf(j) \in Lines /\ LineOf(j).id # NoAttempt
    BY <2>1, LineIsWellFormed
  <2>3. log' # log => ids(log) \subseteq ids(log') \cup Hurt(log)
    <3> SUFFICES ASSUME log' # log PROVE ids(log) \subseteq ids(log') \cup Hurt(log)
      OBVIOUS
    <3>1. PICK part \in PartialWrites(LineOf(j)) : log' = AppendLine(log, part)
      BY <1>3 DEF AppendFails
    <3>2. part \in Lines
      BY <2>2, PartsOfLine
    <3> QED BY <1>0, <3>1, <3>2, IdsAfterAppend
  <2>4. ids(log) \cup excused \subseteq ids(log') \cup excused'
    BY <2>1, <2>3
  <2>5. \A i \in Jobs : i # j => pc'[i] = pc[i] /\ job'[i] = job[i]
    BY <2>1, DoneWithLog
  <2> QED BY <2>1, <2>4, <2>5, LoggedKept
<1>4. ASSUME NEW j \in Jobs, TrimFailureLog(j) \/ TrimFails(j) PROVE LoggedFirst'
  <2>1. /\ pc[j] = "trim" /\ Done(j, "log") /\ UNCHANGED <<db, job>>
        /\ ids(log) \cup excused \subseteq ids(log') \cup excused'
    BY <1>4 DEF TrimFailureLog, TrimFails
  <2>2. job[j].result.id \in ids(log) \cup excused
    BY <2>1 DEF LoggedFirst
  <2>3. \A i \in Jobs : i # j => pc'[i] = pc[i] /\ job'[i] = job[i]
    BY <2>1, DoneWithLog
  <2> QED BY <2>1, <2>2, <2>3, LoggedKept
<1>5. ASSUME NEW j \in Jobs, Put(j) \/ PutFails(j) PROVE LoggedFirst'
  <2>1. /\ pc[j] = "put" /\ pc' = [pc EXCEPT ![j] = StepAfter(job[j], "put")]
        /\ UNCHANGED <<log, job, excused>>
        /\ db' = db \/ db' = [db EXCEPT ![targetOf[j]] = job[j].result]
    BY <1>5 DEF Put, PutFails, Done
  <2>2. job[j] \in JobRecords /\ pc \in [Jobs -> Points] /\ db \in [Targets -> Results]
    BY DEF StoreType
  <2>3. StepAfter(job[j], "put") \in {"ended", "idle"}
    BY <2>2, NextStep
  <2>4. /\ \A i \in Jobs : i # j => pc'[i] = pc[i] /\ job'[i] = job[i]
        /\ pc'[j] \in {"ended", "idle"}
    BY <2>1, <2>2, <2>3
  <2>5. job[j].result.logged => job[j].result.id \in ids(log) \cup excused
    BY <2>1 DEF LoggedFirst
  <2>6. \A t \in Targets : db'[t] = db[t] \/ (db'[t].logged => db'[t].id \in ids(log') \cup excused')
    BY <2>1, <2>2, <2>5
  <2> QED BY <2>1, <2>4, <2>6, LoggedKept
<1>6. ASSUME Crash PROVE LoggedFirst'
  <2>1. UNCHANGED db /\ \A i \in Jobs : pc'[i] \in {"ended", "idle"}
    BY <1>6 DEF Crash
  <2>2. ids(log) \cup excused \subseteq ids(log') \cup excused'
    <3>1. CASE UNCHANGED <<log, excused>>
      BY <3>1
    <3>2. ASSUME NEW j \in Jobs, NEW part \in PartialWrites(LineOf(j)), pc[j] = "log",
                 log' = AppendLine(log, part),
                 excused' = excused \cup {job[j].result.id} \cup Hurt(log)
          PROVE  ids(log) \cup excused \subseteq ids(log') \cup excused'
      <4>1. LineOf(j) \in Lines /\ LineOf(j).id # NoAttempt
        BY <3>2, LineIsWellFormed
      <4>2. part \in Lines
        BY <4>1, PartsOfLine
      <4>3. ids(log) \subseteq ids(log') \cup Hurt(log)
        BY <1>0, <3>2, <4>2, IdsAfterAppend
      <4> QED BY <3>2, <4>3
    <3> QED BY <1>6, <3>1, <3>2 DEF Crash
  <2>3. \A t \in Targets : db'[t].logged => db'[t].id \in ids(log') \cup excused'
    BY <2>1, <2>2 DEF LoggedFirst, StoredFailureHasLog
  <2> QED BY <2>1, <2>3 DEF LoggedFirst, StoredFailureHasLog
<1>7. CASE UNCHANGED vars
  BY <1>7 DEF vars, LoggedFirst, StoredFailureHasLog, ids
<1> QED BY <1>1, <1>2, <1>3, <1>4, <1>5, <1>6, <1>7 DEF Next

-----------------------------------------------------------------------------
(* The order of the lines.                                                 *)

\* A line of the current attempt goes behind every other of its job.
LEMMA OrderAfterAppend ==
    ASSUME NEW f \in Seq(Lines), Shape(f), NEW last \in [Jobs -> Nat], Ordered(f), UpTo(f, last),
           NEW line \in Lines, NEW j \in Jobs,
           line.ok => line.id = [job |-> j, serial |-> last[j]]
    PROVE  Ordered(AppendLine(f, line)) /\ UpTo(AppendLine(f, line), last)
<1> DEFINE g == AppendLine(f, line)
<1>1. g \in Seq(Lines) /\ Len(f) \in Nat /\ DOMAIN f = 1..Len(f)
  BY SizeOfAppendLine
<1>2. DOMAIN g = 1..Len(g)
  BY <1>1
<1>3. CASE ~Torn(f)
  <2>1. /\ Len(g) = Len(f) + 1
        /\ \A i \in DOMAIN f : g[i] = f[i]
        /\ g[Len(g)] = line
    BY <1>3, LinesAfterAppend
  <2> HIDE DEF g
  <2>2. \A i \in DOMAIN g : i \in DOMAIN f \/ i = Len(g)
    BY <1>1, <1>2, <2>1
  <2>3. line.ok => line.id.job = j /\ line.id.serial = last[j]
    OBVIOUS
  <2>4. UpTo(g, last)
    <3> SUFFICES ASSUME NEW i \in DOMAIN g, g[i].ok
                 PROVE  g[i].id.serial <= last[g[i].id.job]
      BY DEF UpTo
    <3>1. CASE i \in DOMAIN f
      BY <2>1, <3>1 DEF UpTo
    <3>2. CASE i = Len(g)
      <4>1. g[i].id.serial = last[j] /\ last[g[i].id.job] = last[j] /\ last[j] \in Nat
        BY <2>1, <2>3, <3>2
      <4> QED BY <4>1
    <3> QED BY <2>2, <3>1, <3>2
  <2>5. Ordered(g)
    <3> SUFFICES ASSUME NEW i \in DOMAIN g, NEW k \in DOMAIN g, i <= k, g[i].ok, g[k].ok,
                        g[i].id.job = g[k].id.job
                 PROVE  g[i].id.serial <= g[k].id.serial
      BY DEF Ordered
    <3>1. CASE k = Len(g)
      <4>1. g[k].id.serial = last[j] /\ g[k].id.job = j
        BY <2>1, <2>3, <3>1
      <4> QED BY <2>4, <4>1 DEF UpTo
    <3>2. CASE k # Len(g)
      <4>1. k \in DOMAIN f
        BY <2>2, <3>2
      <4>2. i \in DOMAIN f
        BY <1>1, <1>2, <2>1, <4>1
      <4> QED BY <2>1, <4>1, <4>2 DEF Ordered
    <3> QED BY <3>1, <3>2
  <2> QED BY <2>4, <2>5 DEF g
<1>4. CASE Torn(f)
  <2>1. /\ Len(g) = Len(f) /\ Len(f) >= 1
        /\ \A i \in 1..Len(f) - 1 : g[i] = f[i]
        /\ ~g[Len(g)].ok
    BY <1>4, LinesAfterAppend
  <2> HIDE DEF g
  <2>2. \A i \in DOMAIN g : g[i].ok => i \in DOMAIN f /\ g[i] = f[i]
    BY <1>1, <1>2, <2>1
  <2>3. Ordered(g)
    BY <2>2 DEF Ordered
  <2>4. UpTo(g, last)
    BY <2>2 DEF UpTo
  <2> QED BY <2>3, <2>4 DEF g
<1> QED BY <1>3, <1>4

\* The end of a file keeps its order.
LEMMA OrderOfRest ==
    ASSUME NEW f \in Seq(Lines), NEW last, Ordered(f), UpTo(f, last), NEW d \in DOMAIN f
    PROVE  Ordered(SubSeq(f, d + 1, Len(f))) /\ UpTo(SubSeq(f, d + 1, Len(f)), last)
<1> DEFINE r == SubSeq(f, d + 1, Len(f))
<1>1. /\ DOMAIN r = 1..Len(f) - d
      /\ \A i \in 1..Len(f) - d : r[i] = f[d + i]
      /\ Len(f) \in Nat /\ d \in Nat /\ DOMAIN f = 1..Len(f)
  BY Cut
<1> HIDE DEF r
<1>2. \A i \in DOMAIN r : i \in Nat /\ d + i \in DOMAIN f /\ r[i] = f[d + i]
  <2> SUFFICES ASSUME NEW i \in DOMAIN r
               PROVE  i \in Nat /\ d + i \in DOMAIN f /\ r[i] = f[d + i]
    OBVIOUS
  <2>1. i \in Nat /\ i >= 1 /\ i <= Len(f) - d
    BY <1>1
  <2>2. d + i \in DOMAIN f
    BY <1>1, <2>1
  <2> QED BY <1>1, <2>1, <2>2
<1>3. UpTo(r, last)
  BY <1>2 DEF UpTo
<1>4. Ordered(r)
  <2> SUFFICES ASSUME NEW i \in DOMAIN r, NEW k \in DOMAIN r, i <= k, r[i].ok, r[k].ok,
                      r[i].id.job = r[k].id.job
               PROVE  r[i].id.serial <= r[k].id.serial
    BY DEF Ordered
  <2>1. d + i <= d + k
    BY <1>1, <1>2
  <2> QED BY <1>2, <2>1 DEF Ordered
<1> QED BY <1>3, <1>4 DEF r

\* A step keeps OrderInv.
LEMMA OrderStep == ASSUME StoreType, SizeInv, OrderInv, [Next]_vars PROVE OrderInv'
<1> USE DEF diskVars, jobVars
<1>0. /\ log \in Seq(Lines) /\ Shape(log) /\ serial \in [Jobs -> Nat]
      /\ Ordered(log) /\ UpTo(log, serial)
      /\ \A t \in Targets : db[t].id # NoAttempt => targetOf[db[t].id.job] = t
  BY StoreAssumption DEF StoreType, OrderInv
<1>1. ASSUME NEW j \in Jobs, Build(j) PROVE OrderInv'
  <2>1. /\ serial' = [serial EXCEPT ![j] = @ + 1]
        /\ UNCHANGED <<targetOf, log, db>>
    BY <1>1, BuildEffect
  <2>2. \A i \in Jobs : serial[i] \in Nat /\ serial'[i] \in Nat /\ serial[i] <= serial'[i]
    BY <1>0, <2>1
  <2>3. UpTo(log, serial')
    <3> SUFFICES ASSUME NEW i \in DOMAIN log, log[i].ok
                 PROVE  log[i].id.serial <= serial'[log[i].id.job]
      BY DEF UpTo
    <3>1. log[i].id \in Attempts
      BY <1>0, IdsAreAttempts DEF ids
    <3>2. log[i].id.job \in Jobs /\ log[i].id.serial \in Nat
      BY <3>1, StoreAssumption DEF Attempts
    <3>3. log[i].id.serial <= serial[log[i].id.job]
      BY <1>0 DEF UpTo
    <3> QED BY <2>2, <3>2, <3>3
  <2> QED BY <1>0, <2>1, <2>3 DEF OrderInv, Ordered, UpTo
<1>2. ASSUME NEW j \in Jobs, NEW line \in Lines, pc[j] = "log",
             line.ok => line.id = [job |-> j, serial |-> serial[j]],
             log' = AppendLine(log, line), UNCHANGED <<targetOf, db, serial>>
      PROVE  OrderInv'
  <2>1. Ordered(log') /\ UpTo(log', serial)
    BY <1>0, <1>2, OrderAfterAppend
  <2> QED BY <1>0, <1>2, <2>1 DEF OrderInv, Ordered, UpTo
<1>3. ASSUME UNCHANGED <<targetOf, db, serial, log>> PROVE OrderInv'
  BY <1>0, <1>3 DEF OrderInv, Ordered, UpTo
<1>4. ASSUME NEW j \in Jobs, pc[j] = "log"
      PROVE  /\ LineOf(j) \in Lines
             /\ LineOf(j).id = [job |-> j, serial |-> serial[j]]
             /\ \A part \in PartialWrites(LineOf(j)) :
                   part \in Lines /\ (part.ok => part.id = [job |-> j, serial |-> serial[j]])
  <2>1. LineOf(j) \in Lines /\ LineOf(j).id = [job |-> j, serial |-> serial[j]]
        /\ LineOf(j).id # NoAttempt
    BY <1>4, LineIsWellFormed
  <2> QED BY <2>1, PartsOfLine
<1>5. ASSUME NEW j \in Jobs, AppendFailure(j) PROVE OrderInv'
  <2>1. pc[j] = "log" /\ log' = AppendLine(log, LineOf(j)) /\ UNCHANGED <<targetOf, db, serial>>
    BY <1>5 DEF AppendFailure
  <2> QED BY <1>2, <1>4, <2>1
<1>6. ASSUME NEW j \in Jobs, AppendFails(j) PROVE OrderInv'
  <2>1. pc[j] = "log" /\ UNCHANGED <<targetOf, db, serial>>
    BY <1>6 DEF AppendFails
  <2>2. CASE log' = log
    BY <1>3, <2>1, <2>2
  <2>3. CASE \E part \in PartialWrites(LineOf(j)) : log' = AppendLine(log, part)
    BY <1>2, <1>4, <2>1, <2>3
  <2> QED BY <1>6, <2>2, <2>3 DEF AppendFails
<1>7. ASSUME NEW j \in Jobs, TrimFailureLog(j) PROVE OrderInv'
  <2>1. pc[j] = "trim" /\ log' = Trimmed(log) /\ UNCHANGED <<targetOf, db, serial>>
    BY <1>7 DEF TrimFailureLog
  <2>2. SizeOf(log) > MaxFileSize
    BY <2>1, StoreAssumption DEF StoreType, SizeInv
  <2>3. Ordered(log') /\ UpTo(log', serial)
    BY <1>0, <2>1, <2>2, TrimKeeps, OrderOfRest
  <2> QED BY <1>0, <2>1, <2>3 DEF OrderInv, Ordered, UpTo
<1>8. ASSUME NEW j \in Jobs, TrimFails(j) \/ PutFails(j) PROVE OrderInv'
  <2>1. UNCHANGED <<targetOf, db, serial, log>>
    BY <1>8 DEF TrimFails, PutFails
  <2> QED BY <1>3, <2>1
<1>9. ASSUME NEW j \in Jobs, Put(j) PROVE OrderInv'
  <2>1. /\ pc[j] = "put" /\ db' = [db EXCEPT ![targetOf[j]] = job[j].result]
        /\ UNCHANGED <<targetOf, serial, log>>
    BY <1>9 DEF Put
  <2>2. job[j].result.id.job = j
    <3>1. job[j].result.id = [job |-> j, serial |-> serial[j]]
      BY <2>1 DEF StoreType, CurrentAttempt
    <3> QED BY <3>1
  <2>3. targetOf[j] \in Targets /\ db \in [Targets -> Results]
    BY DEF StoreType
  <2>4. \A t \in Targets : db'[t].id # NoAttempt => targetOf[db'[t].id.job] = t
    BY <1>0, <2>1, <2>2, <2>3
  <2> QED BY <1>0, <2>1, <2>4 DEF OrderInv, Ordered, UpTo
<1>10. ASSUME Crash PROVE OrderInv'
  <2>1. UNCHANGED <<targetOf, db, serial>>
    BY <1>10 DEF Crash
  <2>2. CASE log' = log
    BY <1>3, <2>1, <2>2
  <2>3. ASSUME NEW j \in Jobs, NEW part \in PartialWrites(LineOf(j)), pc[j] = "log",
               log' = AppendLine(log, part)
        PROVE  OrderInv'
    BY <1>2, <1>4, <2>1, <2>3
  <2> QED BY <1>10, <2>2, <2>3 DEF Crash
<1>11. CASE UNCHANGED vars
  BY <1>3, <1>11 DEF vars
<1> QED BY <1>1, <1>5, <1>6, <1>7, <1>8, <1>9, <1>10, <1>11 DEF Next

-----------------------------------------------------------------------------
(* The size of the file and its damaged lines.                             *)

\* There are finitely many damaged lines.
LEMMA DamageIsFinite ==
    ASSUME NEW f \in Seq(Lines)
    PROVE  IsFiniteSet(Damaged(f)) /\ Cardinality(Damaged(f)) \in Nat
<1>1. IsFiniteSet(DOMAIN f) /\ Damaged(f) \subseteq DOMAIN f
  BY FS_Interval DEF Damaged
<1>2. IsFiniteSet(Damaged(f))
  BY <1>1, FS_Subset
<1> QED BY <1>2, FS_CardinalityType

\* A whole line damages nothing that was not damaged, part of one only itself.
LEMMA DamageOfAppend ==
    ASSUME NEW f \in Seq(Lines), NEW line \in Lines
    PROVE  LET old == Cardinality(Damaged(f))
               new == Cardinality(Damaged(AppendLine(f, line)))
           IN  /\ new <= old + 1
               /\ line.ok /\ line.nl => new <= old
<1> DEFINE g == AppendLine(f, line)
<1>1. g \in Seq(Lines) /\ Len(f) \in Nat /\ DOMAIN f = 1..Len(f)
  BY SizeOfAppendLine
<1>2. DOMAIN g = 1..Len(g) /\ Len(g) \in Nat
  BY <1>1
<1>3. ~Torn(f) => /\ Len(g) = Len(f) + 1
                  /\ \A i \in DOMAIN f : g[i] = f[i]
                  /\ g[Len(g)] = line
  BY LinesAfterAppend
<1>4. Torn(f) => /\ Len(g) = Len(f) /\ Len(f) >= 1
                 /\ \A i \in 1..Len(f) - 1 : g[i] = f[i]
  BY LinesAfterAppend
<1>5. Torn(f) => Len(f) \in Damaged(f)
  <2> SUFFICES ASSUME Torn(f) PROVE Len(f) \in Damaged(f)
    OBVIOUS
  <2>1. f # <<>> /\ ~Last(f).nl
    BY DEF Torn
  <2>2. Last(f) = f[Len(f)] /\ Len(f) >= 1
    BY <2>1, FileOps
  <2> QED BY <1>1, <2>1, <2>2 DEF Damaged
<1> HIDE DEF g
<1>6. Damaged(g) \subseteq Damaged(f) \cup {Len(g)}
  <2> SUFFICES ASSUME NEW i \in Damaged(g), i # Len(g) PROVE i \in Damaged(f)
    OBVIOUS
  <2>1. i \in 1..Len(g) /\ (~g[i].ok \/ ~g[i].nl)
    BY <1>2 DEF Damaged
  <2>2. i \in DOMAIN f /\ g[i] = f[i]
    <3>1. CASE Torn(f)
      <4>1. i \in 1..Len(f) - 1
        BY <1>1, <1>4, <2>1, <3>1
      <4> QED BY <1>1, <1>4, <3>1, <4>1
    <3>2. CASE ~Torn(f)
      <4>1. i \in DOMAIN f
        BY <1>1, <1>3, <2>1, <3>2
      <4> QED BY <1>3, <3>2, <4>1
    <3> QED BY <3>1, <3>2
  <2> QED BY <2>1, <2>2 DEF Damaged
<1>7. Torn(f) \/ (line.ok /\ line.nl) => Damaged(g) \subseteq Damaged(f)
  <2>1. Torn(f) => Len(g) \in Damaged(f)
    BY <1>4, <1>5
  <2>2. ~Torn(f) /\ line.ok /\ line.nl => Len(g) \notin Damaged(g)
    BY <1>3 DEF Damaged
  <2> QED BY <1>6, <2>1, <2>2
<1>8. /\ IsFiniteSet(Damaged(f)) /\ Cardinality(Damaged(f)) \in Nat
      /\ IsFiniteSet(Damaged(g)) /\ Cardinality(Damaged(g)) \in Nat
  BY <1>1, DamageIsFinite
<1>9. Torn(f) \/ (line.ok /\ line.nl) => Cardinality(Damaged(g)) <= Cardinality(Damaged(f))
  BY <1>7, <1>8, FS_Subset
<1>10. Cardinality(Damaged(g)) <= Cardinality(Damaged(f)) + 1
  <2>1. /\ IsFiniteSet(Damaged(f) \cup {Len(g)})
        /\ Cardinality(Damaged(f) \cup {Len(g)}) =
              IF Len(g) \in Damaged(f) THEN Cardinality(Damaged(f)) ELSE Cardinality(Damaged(f)) + 1
    BY <1>8, FS_AddElement
  <2>2. Cardinality(Damaged(g)) <= Cardinality(Damaged(f) \cup {Len(g)})
    BY <1>6, <2>1, FS_Subset
  <2> QED BY <1>8, <2>1, <2>2
<1> QED BY <1>9, <1>10 DEF g

\* Dropping lines damages none.
LEMMA DamageOfRest ==
    ASSUME NEW f \in Seq(Lines), NEW d \in DOMAIN f
    PROVE  Cardinality(Damaged(SubSeq(f, d + 1, Len(f)))) <= Cardinality(Damaged(f))
<1> DEFINE r == SubSeq(f, d + 1, Len(f))
           h == [i \in Damaged(r) |-> d + i]
<1>1. /\ r \in Seq(Lines) /\ DOMAIN r = 1..Len(f) - d
      /\ \A i \in 1..Len(f) - d : r[i] = f[d + i]
      /\ Len(f) \in Nat /\ d \in Nat /\ DOMAIN f = 1..Len(f)
  BY Cut
<1> HIDE DEF r
<1>2. ASSUME NEW i \in Damaged(r) PROVE i \in Nat /\ d + i \in Damaged(f)
  <2>1. i \in 1..Len(f) - d /\ (~r[i].ok \/ ~r[i].nl)
    BY <1>1 DEF Damaged
  <2>2. d + i \in DOMAIN f /\ r[i] = f[d + i] /\ i \in Nat
    BY <1>1, <2>1
  <2> QED BY <2>1, <2>2 DEF Damaged
<1>3. h \in Injection(Damaged(r), Damaged(f))
  <2>1. h \in [Damaged(r) -> Damaged(f)]
    BY <1>2
  <2>2. ASSUME NEW a \in Damaged(r), NEW b \in Damaged(r), h[a] = h[b]
        PROVE  a = b
    <3>1. d + a = d + b
      BY <2>2
    <3>2. a \in Nat /\ b \in Nat
      BY <1>2
    <3> QED BY <1>1, <3>1, <3>2
  <2> QED BY <2>1, <2>2 DEF Injection, IsInjective
<1>4. IsFiniteSet(Damaged(f))
  BY DamageIsFinite
<1>5. Cardinality(Damaged(r)) <= Cardinality(Damaged(f))
  BY <1>3, <1>4, FS_Injection
<1> QED BY <1>5 DEF r

\* A step keeps SizeInv.
LEMMA SizeStep == ASSUME StoreType, SizeInv, [Next]_vars PROVE SizeInv'
<1> USE DEF diskVars, jobVars
<1> DEFINE limit == MaxFileSize * (1 + faults)
           damage == Cardinality(Damaged(log))
<1>0. /\ log \in Seq(Lines) /\ faults \in Nat /\ MaxFileSize \in Nat /\ MaxFileSize > 0
      /\ SizeOf(log) \in Nat /\ damage \in Nat
      /\ \A j \in Jobs : pc[j] = "trim" <=> mu = j
      /\ \A j \in Jobs : j # NoJob
  BY StoreAssumption, SizeIsNumber, DamageIsFinite DEF StoreType
<1>00. /\ limit \in Nat /\ limit >= MaxFileSize
       /\ MaxFileSize * (1 + (faults + 1)) = limit + MaxFileSize
  <2>1. MaxFileSize * (1 + faults) = MaxFileSize + MaxFileSize * faults
    BY <1>0
  <2>2. MaxFileSize * (1 + (faults + 1)) = MaxFileSize + MaxFileSize + MaxFileSize * faults
    BY <1>0
  <2>3. MaxFileSize * faults \in Nat
    BY <1>0
  <2> QED BY <1>0, <2>1, <2>2, <2>3
<1>000. /\ mu = NoJob => SizeOf(log) <= limit
        /\ mu # NoJob => SizeOf(log) > MaxFileSize /\ SizeOf(log) <= limit + MaxFileSize
        /\ damage <= faults
  BY DEF SizeInv
<1> HIDE DEF limit, damage
\* A fault that leaves no goroutine at the trim allows for one more line.
<1>a. ASSUME faults' = faults + 1, mu' = NoJob,
             SizeOf(log') <= limit + MaxFileSize,
             Cardinality(Damaged(log')) <= damage + 1
      PROVE  SizeInv'
  <2>1. MaxFileSize * (1 + faults') = limit + MaxFileSize
    BY <1>00, <1>a
  <2>2. Cardinality(Damaged(log')) <= faults'
    <3>1. Cardinality(Damaged(log')) \in Nat
      <4>1. StoreType'
        BY StoreTypeStep
      <4>2. (log \in Seq(Lines))'
        BY <4>1 DEF StoreType
      <4> QED BY <4>2, DamageIsFinite
    <3> QED BY <1>0, <1>000, <1>a, <3>1
  <2> QED BY <1>a, <2>1, <2>2 DEF SizeInv
<1>b. ASSUME NEW j \in Jobs, pc[j] = "log"
      PROVE  /\ LineOf(j) \in Lines /\ LineOf(j).ok /\ LineOf(j).nl
             /\ LineOf(j).size <= MaxFileSize
             /\ \A part \in PartialWrites(LineOf(j)) :
                   part \in Lines /\ part.size <= MaxFileSize
  <2>1. /\ LineOf(j) \in Lines /\ LineOf(j).id # NoAttempt /\ LineOf(j).ok /\ LineOf(j).nl
        /\ LineOf(j).size \in 1..MaxFileSize
    BY <1>b, LineIsWellFormed
  <2>2. ASSUME NEW part \in PartialWrites(LineOf(j))
        PROVE  part \in Lines /\ part.size <= MaxFileSize
    <3>1. part \in Lines /\ part.size < LineOf(j).size
      BY <2>1, PartsOfLine
    <3>2. part.size \in Nat
      BY <3>1 DEF Lines
    <3> QED BY <1>0, <2>1, <3>1, <3>2
  <2> QED BY <1>0, <2>1, <2>2
<1>c. ASSUME NEW j \in Jobs, NEW part \in PartialWrites(LineOf(j)), pc[j] = "log",
             mu = NoJob, mu' = NoJob, faults' = faults + 1, log' = AppendLine(log, part)
      PROVE  SizeInv'
  <2>1. part \in Lines /\ part.size <= MaxFileSize
    BY <1>b, <1>c
  <2>2. part.size \in Nat
    BY <2>1 DEF Lines
  <2>3. SizeOf(log') = SizeOf(log) + part.size
    BY <1>0, <1>c, <2>1, SizeOfAppendLine
  <2>4. SizeOf(log') <= limit + MaxFileSize
    BY <1>0, <1>00, <1>000, <1>c, <2>1, <2>2, <2>3
  <2>5. Cardinality(Damaged(log')) <= damage + 1
    BY <1>0, <1>c, <2>1, DamageOfAppend DEF damage
  <2> QED BY <1>a, <1>c, <2>4, <2>5
<1>d. ASSUME UNCHANGED log, mu' = NoJob, faults' = faults + 1 PROVE SizeInv'
  <2>1. SizeOf(log) <= limit + MaxFileSize
    BY <1>0, <1>00, <1>000
  <2>2. Cardinality(Damaged(log)) <= damage + 1
    BY <1>0 DEF damage
  <2> QED BY <1>a, <1>d, <2>1, <2>2
<1>e. ASSUME UNCHANGED <<log, mu, faults>> PROVE SizeInv'
  BY <1>e DEF SizeInv
<1>1. ASSUME NEW j \in Jobs, AppendFailure(j) PROVE SizeInv'
  <2>1. /\ pc[j] = "log" /\ mu = NoJob /\ log' = AppendLine(log, LineOf(j))
        /\ UNCHANGED faults
        /\ IF SizeOf(log') > MaxFileSize THEN mu' = j ELSE mu' = NoJob
    BY <1>1 DEF AppendFailure
  <2>2. /\ LineOf(j) \in Lines /\ LineOf(j).ok /\ LineOf(j).nl
        /\ LineOf(j).size <= MaxFileSize
    BY <1>b, <2>1
  <2>3. LineOf(j).size \in Nat
    BY <2>2 DEF Lines
  <2>4. SizeOf(log') = SizeOf(log) + LineOf(j).size
    BY <1>0, <2>1, <2>2, SizeOfAppendLine
  <2>5. Cardinality(Damaged(log')) <= damage
    BY <1>0, <2>1, <2>2, DamageOfAppend DEF damage
  <2>6. log' \in Seq(Lines)
    BY <1>0, <2>1, <2>2, SizeOfAppendLine
  <2>7. Cardinality(Damaged(log')) \in Nat
    BY <2>6, DamageIsFinite
  <2>8. Cardinality(Damaged(log')) <= faults'
    BY <1>0, <1>000, <2>1, <2>5, <2>7
  <2>9. MaxFileSize * (1 + faults') = limit
    BY <2>1 DEF limit
  <2>10. SizeOf(log') \in Nat /\ SizeOf(log') <= limit + MaxFileSize
    BY <1>0, <1>00, <1>000, <2>1, <2>2, <2>3, <2>4
  <2>11. SizeOf(log') > MaxFileSize => SizeInv'
    BY <1>0, <2>1, <2>8, <2>9, <2>10 DEF SizeInv
  <2>12. ~(SizeOf(log') > MaxFileSize) => SizeInv'
    <3>1. ~(SizeOf(log') > MaxFileSize) => SizeOf(log') <= limit
      BY <1>0, <1>00, <2>10
    <3> QED BY <2>1, <2>8, <2>9, <3>1 DEF SizeInv
  <2> QED BY <2>11, <2>12
<1>2. ASSUME NEW j \in Jobs, AppendFails(j) PROVE SizeInv'
  <2>1. pc[j] = "log" /\ mu = NoJob /\ mu' = NoJob /\ faults' = faults + 1
    BY <1>2 DEF AppendFails
  <2>2. CASE log' = log
    BY <1>d, <2>1, <2>2
  <2>3. CASE \E part \in PartialWrites(LineOf(j)) : log' = AppendLine(log, part)
    BY <1>c, <2>1, <2>3
  <2> QED BY <1>2, <2>2, <2>3 DEF AppendFails
<1>3. ASSUME NEW j \in Jobs, TrimFailureLog(j) PROVE SizeInv'
  <2>1. pc[j] = "trim" /\ log' = Trimmed(log) /\ mu' = NoJob /\ UNCHANGED faults
    BY <1>3 DEF TrimFailureLog, Unlock
  <2>2. SizeOf(log) > MaxFileSize
    BY <1>0, <1>000, <2>1
  <2>3. PICK d \in DOMAIN log :
          /\ Trimmed(log) = SubSeq(log, d + 1, Len(log)) /\ Trimmed(log) \in Seq(Lines)
          /\ SizeOf(Trimmed(log)) < MaxFileSize
    BY <1>0, <2>2, TrimKeeps
  <2>4. Cardinality(Damaged(log')) <= damage
    BY <1>0, <2>1, <2>3, DamageOfRest DEF damage
  <2>5. SizeOf(log') \in Nat /\ Cardinality(Damaged(log')) \in Nat
    BY <2>1, <2>3, SizeIsNumber, DamageIsFinite
  <2>6. SizeOf(log') <= limit /\ Cardinality(Damaged(log')) <= faults'
    BY <1>0, <1>00, <1>000, <2>1, <2>3, <2>4, <2>5
  <2>7. MaxFileSize * (1 + faults') = limit
    BY <2>1 DEF limit
  <2> QED BY <2>1, <2>6, <2>7 DEF SizeInv
<1>4. ASSUME NEW j \in Jobs, TrimFails(j) PROVE SizeInv'
  BY <1>4, <1>d DEF TrimFails, Unlock
<1>5. ASSUME NEW j \in Jobs, PutFails(j) PROVE SizeInv'
  <2>1. UNCHANGED <<log, mu>> /\ faults' = faults + 1
    BY <1>5 DEF PutFails
  <2>2. MaxFileSize * (1 + faults') = limit + MaxFileSize
    BY <1>00, <2>1
  <2>3. Cardinality(Damaged(log)) <= faults'
    BY <1>0, <1>000, <2>1 DEF damage
  <2>4. mu = NoJob => SizeOf(log) <= limit + MaxFileSize
    BY <1>0, <1>00, <1>000
  <2>5. mu # NoJob => /\ SizeOf(log) > MaxFileSize
                      /\ SizeOf(log) <= limit + MaxFileSize + MaxFileSize
    BY <1>0, <1>00, <1>000
  <2> QED BY <2>1, <2>2, <2>3, <2>4, <2>5 DEF SizeInv
<1>6. ASSUME Crash PROVE SizeInv'
  <2>1. faults' = faults + 1 /\ mu' = NoJob
    BY <1>6 DEF Crash
  <2>2. CASE UNCHANGED log
    BY <1>d, <2>1, <2>2
  <2>3. ASSUME NEW j \in Jobs, NEW part \in PartialWrites(LineOf(j)), pc[j] = "log", mu = NoJob,
               log' = AppendLine(log, part)
        PROVE  SizeInv'
    BY <1>c, <2>1, <2>3
  <2> QED BY <1>6, <2>2, <2>3 DEF Crash
<1>7. ASSUME NEW j \in Jobs, Build(j) \/ Put(j) PROVE SizeInv'
  BY <1>7, <1>e DEF Build, Put
<1>8. CASE UNCHANGED vars
  BY <1>8, <1>e DEF vars
<1> QED BY <1>1, <1>2, <1>3, <1>4, <1>5, <1>6, <1>7, <1>8 DEF Next

-----------------------------------------------------------------------------
(* The newest line.                                                        *)

\* A step keeps NewestInv.
LEMMA NewestStep == ASSUME StoreType, SizeInv, NewestInv, [Next]_vars PROVE NewestInv'
<1> USE DEF diskVars, jobVars
<1>0. /\ log \in Seq(Lines) /\ MaxFileSize \in Nat /\ newest \in Lines
      /\ \A j \in Jobs : pc[j] = "trim" <=> mu = j
      /\ \A j \in Jobs : j # NoJob
  BY StoreAssumption DEF StoreType
<1>1. ASSUME NEW j \in Jobs, AppendFailure(j) PROVE NewestInv'
  <2>1. /\ pc[j] = "log" /\ log' = AppendLine(log, LineOf(j))
        /\ newest' = IF Torn(log) THEN NoLine ELSE LineOf(j)
    BY <1>1 DEF AppendFailure
  <2>2. CASE Torn(log)
    BY <2>1, <2>2 DEF NewestInv
  <2>3. CASE ~Torn(log)
    <3>1. LineOf(j) \in Lines /\ LineOf(j).size \in 1..MaxFileSize
      BY <2>1, LineIsWellFormed
    <3>2. Len(log') = Len(log) + 1 /\ log'[Len(log')] = LineOf(j)
      BY <1>0, <2>1, <2>3, <3>1, LinesAfterAppend
    <3>3. log' # <<>>
      BY <1>0, <3>2
    <3>4. LineOf(j).size <= MaxFileSize
      BY <1>0, <3>1
    <3> QED BY <2>1, <2>3, <3>2, <3>3, <3>4 DEF NewestInv
  <2> QED BY <2>2, <2>3
<1>2. ASSUME NEW j \in Jobs, AppendFails(j) PROVE NewestInv'
  BY <1>2 DEF AppendFails, NewestInv
<1>3. ASSUME NEW j \in Jobs, TrimFailureLog(j) PROVE NewestInv'
  <2>1. pc[j] = "trim" /\ log' = Trimmed(log) /\ mu' = NoJob /\ UNCHANGED newest
    BY <1>3 DEF TrimFailureLog, Unlock
  <2>2. SizeOf(log) > MaxFileSize
    BY <1>0, <2>1 DEF SizeInv
  <2>3. PICK d \in DOMAIN log :
          /\ log # <<>>
          /\ Trimmed(log) = SubSeq(log, d + 1, Len(log)) /\ Trimmed(log) \in Seq(Lines)
          /\ d = Len(log) => log[Len(log)].size >= MaxFileSize
    BY <1>0, <2>2, TrimKeeps
  <2>4. /\ Len(log') = Len(log) - d
        /\ \A i \in 1..Len(log) - d : log'[i] = log[d + i]
        /\ Len(log) \in Nat /\ d \in Nat /\ d <= Len(log)
    BY <1>0, <2>1, <2>3, Cut
  <2>5. ASSUME newest # NoLine PROVE newest.size <= MaxFileSize /\ log[Len(log)] = newest
    BY <2>3, <2>5 DEF NewestInv
  <2>6. CASE d = Len(log)
    <3>1. log' = <<>>
      BY <2>1, <2>3, <2>4, <2>6
    <3>2. newest # NoLine => newest.size = MaxFileSize
      <4>1. newest.size \in Nat
        BY <1>0 DEF Lines
      <4> QED BY <1>0, <2>3, <2>5, <2>6, <4>1
    <3> QED BY <1>0, <2>1, <3>1, <3>2 DEF NewestInv
  <2>7. CASE d # Len(log)
    <3>1. Len(log') \in 1..Len(log) - d /\ d + Len(log') = Len(log)
      <4>1. \A n, k \in Nat : k <= n /\ k # n => n - k \in 1..n - k /\ k + (n - k) = n
        OBVIOUS
      <4> QED BY <2>4, <2>7, <4>1
    <3>2. log'[Len(log')] = log[Len(log)]
      BY <2>4, <3>1
    <3>3. log' # <<>>
      BY <2>1, <2>3, <2>4, <3>1
    <3> QED BY <2>1, <2>5, <3>2, <3>3 DEF NewestInv
  <2> QED BY <2>6, <2>7
<1>4. ASSUME NEW j \in Jobs, TrimFails(j) PROVE NewestInv'
  BY <1>4 DEF TrimFails, Unlock, NewestInv
<1>5. ASSUME NEW j \in Jobs, Build(j) \/ Put(j) \/ PutFails(j) PROVE NewestInv'
  BY <1>5 DEF Build, Put, PutFails, NewestInv
<1>6. ASSUME Crash PROVE NewestInv'
  BY <1>6 DEF Crash, NewestInv
<1>7. CASE UNCHANGED vars
  BY <1>7 DEF vars, NewestInv
<1> QED BY <1>1, <1>2, <1>3, <1>4, <1>5, <1>6, <1>7 DEF Next

-----------------------------------------------------------------------------
(* The theorems.                                                           *)

StoreInv == StoreType /\ LoggedFirst /\ OrderInv /\ SizeInv /\ NewestInv

LEMMA StoreInvariant == Spec => []StoreInv
<1>1. Init => StoreInv
  BY StoreInit DEF StoreInv
<1>2. StoreInv /\ [Next]_vars => StoreInv'
  BY StoreTypeStep, LoggedStep, OrderStep, SizeStep, NewestStep DEF StoreInv
<1> QED BY <1>1, <1>2, PTL DEF Spec

\* The types follow.
LEMMA TypesFollow == StoreType => TypeOK
<1> SUFFICES ASSUME StoreType PROVE TypeOK
  OBVIOUS
<1>1. \A i \in DOMAIN log :
          /\ log[i] \in Lines
          /\ i < Len(log) => log[i].nl
          /\ log[i].ok <=> log[i].id # NoAttempt
  BY DEF StoreType, Shape
<1>2. \A j \in Jobs : pc[j] \in {"idle", "log", "trim", "put", "ended"} /\ (pc[j] = "trim" <=> mu = j)
  BY DEF StoreType, Points
<1> QED BY <1>1, <1>2 DEF StoreType, TypeOK

\* Every variable of the store stays in its type, and only the last line of
\* the failure log may lack its newline (failure_log_store.go).
THEOREM TypeCorrect == Spec => []TypeOK
<1>1. StoreInv => TypeOK
  BY TypesFollow DEF StoreInv
<1> QED BY <1>1, StoreInvariant, PTL

\* UpsertResult writes the log before the database: after a crash at any
\* point a stored failure has its line, or a reason not to have one.
THEOREM FailuresAreLogged == Spec => []StoredFailureHasLog
<1>1. StoreInv => StoredFailureHasLog
  BY DEF StoreInv, LoggedFirst
<1> QED BY <1>1, StoreInvariant, PTL

\* trimFailureLogFile keeps the log within its limit, but for one line for
\* each fault, and each fault spoils at most one line.
THEOREM LogStaysBounded == Spec => []LogIsBounded
<1>1. StoreInv => LogIsBounded
  <2> SUFFICES ASSUME StoreInv PROVE LogIsBounded
    OBVIOUS
  <2>1. TypeOK /\ log \in Seq(Lines) /\ faults \in Nat
    BY TypesFollow, StoreAssumption DEF StoreInv, StoreType
  <2>2. {i \in DOMAIN log : ~log[i].ok} \subseteq Damaged(log)
    BY DEF Damaged
  <2>3. IsFiniteSet(Damaged(log)) /\ Cardinality(Damaged(log)) \in Nat
    BY <2>1, DamageIsFinite
  <2>4. /\ IsFiniteSet({i \in DOMAIN log : ~log[i].ok})
        /\ Cardinality({i \in DOMAIN log : ~log[i].ok}) <= Cardinality(Damaged(log))
    BY <2>2, <2>3, FS_Subset
  <2>5. Cardinality({i \in DOMAIN log : ~log[i].ok}) \in Nat
    BY <2>4, FS_CardinalityType
  <2>6. Cardinality(Damaged(log)) <= faults
    BY DEF StoreInv, SizeInv
  <2>7. Cardinality({i \in DOMAIN log : ~log[i].ok}) <= faults
    BY <2>1, <2>3, <2>4, <2>5, <2>6
  <2> QED BY <2>1, <2>7 DEF StoreInv, SizeInv, LogIsBounded
<1> QED BY <1>1, StoreInvariant, PTL

\* The line appended last survives the trim that its append starts
\* (findFailureLogKeepOffset), unless it fills the file by itself.
THEOREM NewestLineKept == Spec => []NewestLineSurvives
<1>1. StoreInv => NewestLineSurvives
  <2> SUFFICES ASSUME StoreInv, mu = NoJob, newest # NoLine
               PROVE  IF log = <<>> THEN newest.size = MaxFileSize ELSE Last(log) = newest
    BY DEF NewestLineSurvives
  <2>1. log \in Seq(Lines) /\ NewestInv
    BY DEF StoreInv, StoreType
  <2>2. log # <<>> => Last(log) = log[Len(log)]
    BY <2>1, FileOps
  <2> QED BY <2>1, <2>2 DEF NewestInv
<1> QED BY <1>1, StoreInvariant, PTL

\* For a target of one job, loadLatestFailureLogs shows the stored failure's
\* line or a later one, never an older.
THEOREM LatestLogShown == Spec => []LatestLogIsCurrent
<1>1. StoreInv => LatestLogIsCurrent
  <2> SUFFICES ASSUME StoreInv, NEW j \in Jobs,
                      \A k \in Jobs : targetOf[k] = targetOf[j] => k = j,
                      Readable(log),
                      db[targetOf[j]].logged, db[targetOf[j]].id \in ids(log)
               PROVE  loadLatestFailureLogs(log, targetOf[j]).serial >= db[targetOf[j]].id.serial
    BY DEF LatestLogIsCurrent
  <2> DEFINE t == targetOf[j]
             lines == {i \in DOMAIN log : targetOf[log[i].id.job] = t}
  <2>1. /\ log \in Seq(Lines) /\ Shape(log) /\ targetOf \in [Jobs -> Targets]
        /\ Ordered(log) /\ Len(log) \in Nat /\ DOMAIN log = 1..Len(log)
        /\ \A u \in Targets : db[u].id # NoAttempt => targetOf[db[u].id.job] = u
    BY DEF StoreInv, StoreType, OrderInv
  <2>2. \A i \in DOMAIN log : log[i].ok /\ log[i].id \in Attempts
    BY <2>1, IdsAreAttempts DEF Readable, ids
  <2>3. \A id \in Attempts : id.job \in Jobs /\ id.serial \in Nat
    BY StoreAssumption DEF Attempts
  <2>4. db[t].id \in Attempts /\ db[t].id # NoAttempt /\ t \in Targets
    BY <2>1, IdsAreAttempts, AttemptIsOne
  <2>5. db[t].id.job = j
    BY <2>1, <2>3, <2>4
  <2>6. PICK n \in DOMAIN log : log[n].id = db[t].id
    BY DEF ids
  <2>7. n \in lines
    BY <2>5, <2>6
  <2>8. \A i \in lines : log[i].id.job = j
    BY <2>2, <2>3
  <2>9. lines \in SUBSET (1..Len(log)) /\ lines # {}
    BY <2>1, <2>7
  <2> DEFINE m == CHOOSE i \in lines : \A k \in lines : k <= i
  <2>10. m \in lines /\ \A k \in lines : k <= m
    BY <2>1, <2>9, GreatestNumber
  <2>11. loadLatestFailureLogs(log, t) = log[m].id
    BY <2>9 DEF loadLatestFailureLogs
  <2> HIDE DEF m
  <2>12. n <= m /\ m \in DOMAIN log /\ log[m].id.job = j
    BY <2>7, <2>8, <2>10
  <2>13. log[n].id.serial <= log[m].id.serial
    BY <2>1, <2>2, <2>5, <2>6, <2>12 DEF Ordered
  <2>14. log[n].id.serial \in Nat /\ log[m].id.serial \in Nat
    BY <2>2, <2>3, <2>12
  <2>15. log[m].id.serial >= db[t].id.serial
    BY <2>6, <2>13, <2>14
  <2> QED BY <2>11, <2>15
<1> QED BY <1>1, StoreInvariant, PTL
=============================================================================
