----------------------- MODULE IndexWriterFiles_proofs -----------------------
(***************************************************************************)
(* Proofs about the files of IndexWriter, and about the deleter it drives: *)
(* the invariant FInv, which says of every list of segments and of every   *)
(* step still to be taken where its files are and who references them, the *)
(* lemmas about the deleter's effects, and the steps that delete files, go *)
(* beside the operation that holds the monitor, begin an operation or      *)
(* replace segments.                                                       *)
(***************************************************************************)
EXTENDS IndexWriter_proofs

-----------------------------------------------------------------------------
(* The files of segments.                                                  *)

\* Two vectors, one after the other.
LEMMA TwoVectors ==
  ASSUME NEW F, NEW a \in Seq(F), NEW b \in Seq(F)
  PROVE  a \o b \in Seq(F) /\ ToSet(a \o b) = ToSet(a) \cup ToSet(b)
PROOF
<1>1. DOMAIN (a \o b) = 1..(Len(a) + Len(b)) /\ DOMAIN a = 1..Len(a) /\ DOMAIN b = 1..Len(b)
  OBVIOUS
<1>2. Len(a) \in Nat /\ Len(b) \in Nat
  OBVIOUS
<1>3. ASSUME NEW i \in DOMAIN (a \o b)
      PROVE  (a \o b)[i] \in ToSet(a) \cup ToSet(b)
  <2>1. CASE i <= Len(a)
    <3>1. i \in DOMAIN a
      BY <1>1, <1>2, <2>1
    <3>2. (a \o b)[i] = a[i]
      BY <2>1, <1>1
    <3> QED
      BY <3>1, <3>2 DEF ToSet
  <2>2. CASE ~(i <= Len(a))
    <3>1. i - Len(a) \in DOMAIN b
      BY <1>1, <1>2, <2>2
    <3>2. (a \o b)[i] = b[i - Len(a)]
      BY <2>2, <1>1
    <3> QED
      BY <3>1, <3>2 DEF ToSet
  <2> QED
    BY <2>1, <2>2
<1>4. ASSUME NEW i \in DOMAIN a
      PROVE  a[i] \in ToSet(a \o b)
  <2>1. i \in DOMAIN (a \o b) /\ (a \o b)[i] = a[i]
    BY <1>1, <1>2
  <2> QED
    BY <2>1 DEF ToSet
<1>5. ASSUME NEW i \in DOMAIN b
      PROVE  b[i] \in ToSet(a \o b)
  <2>1. Len(a) + i \in DOMAIN (a \o b) /\ (a \o b)[Len(a) + i] = b[i]
    BY <1>1, <1>2
  <2> QED
    BY <2>1 DEF ToSet
<1>6. a \o b \in Seq(F)
  BY ConcatProperties
<1> QED
  BY <1>3, <1>4, <1>5, <1>6 DEF ToSet

\* A vector of one name, and of none.
LEMMA OneVector ==
  ASSUME NEW F, NEW a \in F
  PROVE  /\ <<a>> \in Seq(F) /\ ToSet(<<a>>) = {a}
         /\ <<>> \in Seq(F) /\ ToSet(<<>>) = {}
PROOF
<1>1. DOMAIN <<a>> = 1..1 /\ <<a>>[1] = a
  OBVIOUS
<1>2. ToSet(<<a>>) = {a}
  BY <1>1 DEF ToSet
<1>3. ToSet(<<>>) = {}
  BY DEF ToSet
<1> QED
  BY <1>2, <1>3

\* The files of a segment: the set.
FileSet(s) ==
    {IF s.cfs THEN Cfs(s.name) ELSE Core(s.name)}
    \cup (IF s.store # None
          THEN {IF s.storeCfs THEN Cfx(s.store) ELSE Store(s.store)}
          ELSE IF s.cfs THEN {} ELSE {Store(s.name)})
    \cup (IF s.delGen > 0 THEN {Del(s.name, s.delGen)} ELSE {})

\* The files of one segment.
LEMMA FilesOfOne ==
  ASSUME NEW s
  PROVE  /\ ToSet(FilesOf(s)) = FileSet(s)
         /\ FilesOf(s) \in Seq(FileSet(s))
PROOF
<1>1. PICK a : a = IF s.cfs THEN Cfs(s.name) ELSE Core(s.name)
  OBVIOUS
<1>2. PICK b : b = IF s.storeCfs THEN Cfx(s.store) ELSE Store(s.store)
  OBVIOUS
<1>3. PICK c : c = Del(s.name, s.delGen)
  OBVIOUS
<1>4. PICK t : t = Store(s.name)
  OBVIOUS
<1>5. PICK p : p = IF s.store # None THEN <<b>> ELSE IF s.cfs THEN <<>> ELSE <<t>>
  OBVIOUS
<1>6. PICK q : q = IF s.delGen > 0 THEN <<c>> ELSE <<>>
  OBVIOUS
<1>7. FilesOf(s) = (<<a>> \o p) \o q
  BY <1>1, <1>2, <1>3, <1>4, <1>5, <1>6 DEF FilesOf
<1>8. PICK F : F = FileSet(s)
  OBVIOUS
<1>9. F = {a} \cup (IF s.store # None THEN {b} ELSE IF s.cfs THEN {} ELSE {t})
           \cup (IF s.delGen > 0 THEN {c} ELSE {})
  BY <1>1, <1>2, <1>3, <1>4, <1>8 DEF FileSet
<1>10. <<a>> \in Seq(F) /\ ToSet(<<a>>) = {a}
  BY <1>9, OneVector
<1>11. p \in Seq(F) /\ ToSet(p) = IF s.store # None THEN {b} ELSE IF s.cfs THEN {} ELSE {t}
  <2>1. CASE s.store # None
    BY <1>5, <1>9, <2>1, OneVector
  <2>2. CASE s.store = None /\ s.cfs
    BY <1>5, <1>10, <2>2, OneVector, a \in F
  <2>3. CASE s.store = None /\ ~s.cfs
    BY <1>5, <1>9, <2>3, OneVector
  <2> QED
    BY <2>1, <2>2, <2>3
<1>12. q \in Seq(F) /\ ToSet(q) = IF s.delGen > 0 THEN {c} ELSE {}
  <2>1. CASE s.delGen > 0
    BY <1>6, <1>9, <2>1, OneVector
  <2>2. CASE ~(s.delGen > 0)
    BY <1>6, <1>10, <2>2, OneVector, a \in F
  <2> QED
    BY <2>1, <2>2
<1>13. PICK u : u = <<a>>
  OBVIOUS
<1>14. u \in Seq(F) /\ ToSet(u) = {a} /\ p \in Seq(F) /\ q \in Seq(F)
  BY <1>10, <1>11, <1>12, <1>13
<1>15. PICK v : v = u \o p
  OBVIOUS
<1>16. v \in Seq(F) /\ ToSet(v) = {a} \cup ToSet(p)
  BY ONLY <1>14, <1>15, TwoVectors
<1>17. PICK fs : fs = v \o q
  OBVIOUS
<1>18. fs \in Seq(F) /\ ToSet(fs) = {a} \cup ToSet(p) \cup ToSet(q)
  BY ONLY <1>14, <1>16, <1>17, TwoVectors
<1>19. FilesOf(s) = fs
  BY <1>7, <1>13, <1>15, <1>17
<1> QED
  BY <1>8, <1>9, <1>11, <1>12, <1>18, <1>19

\* A set of natural numbers has a least.
LEMMA Least ==
  ASSUME NEW S \in SUBSET Nat, S # {}
  PROVE  \E m \in S : \A k \in S : m <= k
PROOF
<1> DEFINE R == OpToRel(<, Nat)
<1>1. IsWellFoundedOn(R, Nat)
  BY NatLessThanWellFounded
<1>2. \A k, m \in S : k < m => <<k, m>> \in R
  BY DEF OpToRel
<1> HIDE DEF R
<1>3. PICK m \in S : \A k \in S : ~(<<k, m>> \in R)
  BY <1>1, WFMin
<1>4. \A k \in S : ~(k < m)
  BY <1>2, <1>3
<1> QED
  BY <1>4

\* The vectors vs, one after the other, up to the m-th.
UpTo(vs, m, f) ==
    /\ DOMAIN f = 1..m
    /\ \A i \in 1..m : f[i] = IF i = 1 THEN vs[i] ELSE f[i - 1] \o vs[i]

\* There is such a function.
LEMMA UpToExists ==
  ASSUME NEW vs, NEW n \in Nat
  PROVE  \E f : UpTo(vs, n, f)
PROOF
<1> DEFINE Bad == {m \in 0..n : ~\E f : UpTo(vs, m, f)}
<1>1. SUFFICES ASSUME Bad # {} PROVE FALSE
  BY <1>1
<1>0. Bad \in SUBSET Nat
  OBVIOUS
<1>2. PICK m \in Bad : \A k \in Bad : m <= k
  BY <1>0, <1>1, Least
<1>3. CASE m = 0
  <2>1. PICK f : f = [i \in 1..0 |-> 0]
    OBVIOUS
  <2>2. DOMAIN f = 1..0 /\ \A i \in 1..0 : FALSE
    BY <2>1
  <2>3. UpTo(vs, 0, f)
    BY <2>2 DEF UpTo
  <2> QED
    BY <1>2, <1>3, <2>3
<1>4. CASE m # 0
  <2>1. m - 1 \in 0..n /\ ~(m <= m - 1) /\ m \in Nat
    BY <1>2, <1>4
  <2>2. PICK f : UpTo(vs, m - 1, f)
    BY <1>2, <2>1
  <2>3. PICK g : g = [i \in 1..m |-> IF i = m THEN (IF m = 1 THEN vs[m] ELSE f[m - 1] \o vs[m])
                                     ELSE f[i]]
    OBVIOUS
  <2>4. DOMAIN g = 1..m
    BY <2>3
  <2>5. ASSUME NEW i \in 1..m
        PROVE  g[i] = IF i = 1 THEN vs[i] ELSE g[i - 1] \o vs[i]
    <3>1. CASE i = m /\ m = 1
      BY <2>3, <3>1
    <3>2. CASE i = m /\ m # 1
      <4>1. m - 1 \in 1..m /\ m - 1 # m
        BY <2>1, <3>2
      <4>2. g[m - 1] = f[m - 1]
        BY <2>3, <4>1
      <4> QED
        BY <2>3, <3>2, <4>2
    <3>3. CASE i # m
      <4>1. i \in 1..(m - 1)
        BY <2>1, <3>3
      <4>2. f[i] = IF i = 1 THEN vs[i] ELSE f[i - 1] \o vs[i]
        BY <2>2, <4>1 DEF UpTo
      <4>3. i # 1 => i - 1 \in 1..m /\ i - 1 # m
        BY <2>1, <4>1
      <4>4. g[i] = f[i] /\ (i # 1 => g[i - 1] = f[i - 1])
        BY <2>3, <3>3, <4>3
      <4> QED
        BY <4>2, <4>4
    <3> QED
      BY <3>1, <3>2, <3>3
  <2>6. UpTo(vs, m, g)
    BY <2>4, <2>5 DEF UpTo
  <2> QED
    BY <1>2, <2>6
<1> QED
  BY <1>3, <1>4

FilesUpTo(vs, m) == UNION {ToSet(vs[i]) : i \in 1..m}

\* What it says of the files in the vectors.
LEMMA UpToFiles ==
  ASSUME NEW F, NEW vs \in Seq(Seq(F)), NEW f, UpTo(vs, Len(vs), f), NEW m \in 1..Len(vs)
  PROVE  /\ f[m] \in Seq(F)
         /\ ToSet(f[m]) = FilesUpTo(vs, m)
PROOF
<1> DEFINE Good(k) == f[k] \in Seq(F) /\ ToSet(f[k]) = FilesUpTo(vs, k)
           Bad == {k \in 1..Len(vs) : ~Good(k)}
<1>1. SUFFICES ASSUME Bad # {} PROVE FALSE
  BY <1>1
<1>2. Bad \in SUBSET Nat
  OBVIOUS
<1>3. PICK k \in Bad : \A j \in Bad : k <= j
  BY <1>1, <1>2, Least
<1>4. k \in 1..Len(vs) /\ Len(vs) \in Nat
  OBVIOUS
<1>5. vs[k] \in Seq(F)
  BY <1>4
<1>6. CASE k = 1
  <2>1. f[1] = vs[1]
    BY <1>4, <1>6 DEF UpTo
  <2>2. {ToSet(vs[i]) : i \in 1..1} = {ToSet(vs[1])}
    OBVIOUS
  <2> QED
    BY <1>3, <1>5, <1>6, <2>1, <2>2 DEF FilesUpTo
<1>7. CASE k # 1
  <2>1. k - 1 \in 1..Len(vs) /\ ~(k <= k - 1)
    BY <1>4, <1>7
  <2>2. Good(k - 1)
    BY <1>3, <2>1
  <2>3. f[k] = f[k - 1] \o vs[k]
    BY <1>4, <1>7 DEF UpTo
  <2>4. PICK a \in Seq(F) : a = f[k - 1]
    BY <2>2
  <2>5. PICK b \in Seq(F) : b = vs[k]
    BY <1>5
  <2>6. f[k] \in Seq(F)
    BY <2>3, <2>4, <2>5, TwoVectors
  <2>7. ToSet(a \o b) = ToSet(a) \cup ToSet(b)
    BY TwoVectors
  <2>8. FilesUpTo(vs, k) = FilesUpTo(vs, k - 1) \cup ToSet(vs[k])
    <3>1. 1..k = 1..(k - 1) \cup {k}
      BY <1>4, <1>7
    <3> QED
      BY <3>1 DEF FilesUpTo
  <2>9. Good(k)
    BY <2>2, <2>3, <2>4, <2>5, <2>6, <2>7, <2>8
  <2> QED
    BY <1>3, <2>9
<1> QED
  BY <1>6, <1>7

\* Vectors put together.
LEMMA Flattened ==
  ASSUME NEW F, NEW vs \in Seq(Seq(F))
  PROVE  /\ FlattenSeq(vs) \in Seq(F)
         /\ ToSet(FlattenSeq(vs)) = UNION {ToSet(vs[i]) : i \in DOMAIN vs}
         /\ Len(vs) = 0 => FlattenSeq(vs) = <<>>
PROOF
<1>1. Len(vs) \in Nat /\ DOMAIN vs = 1..Len(vs)
  OBVIOUS
<1>2. CASE Len(vs) = 0
  <2>1. vs = <<>> /\ DOMAIN vs = {}
    BY <1>2
  <2>2. FlattenSeq(vs) = <<>>
    BY <1>2, <2>1 DEF FlattenSeq
  <2>3. <<>> \in Seq(F) /\ ToSet(<<>>) = {}
    BY DEF ToSet
  <2> QED
    BY <2>1, <2>2, <2>3
<1>3. CASE Len(vs) # 0
  <2> DEFINE E(f) == [i \in 1..Len(vs) |-> IF i = 1 THEN vs[i] ELSE f[i - 1] \o vs[i]]
  <2>1. PICK f : UpTo(vs, Len(vs), f)
    BY <1>1, UpToExists
  <2>2. ASSUME NEW h, h = E(h)
        PROVE  UpTo(vs, Len(vs), h)
    <3>1. DOMAIN E(h) = 1..Len(vs)
      OBVIOUS
    <3>2. \A i \in 1..Len(vs) : E(h)[i] = IF i = 1 THEN vs[i] ELSE h[i - 1] \o vs[i]
      OBVIOUS
    <3> HIDE DEF E
    <3> QED
      BY <2>2, <3>1, <3>2 DEF UpTo
  <2>3. \E h : h = E(h)
    <3>1. PICK h : h = E(f)
      OBVIOUS
    <3>2. DOMAIN h = 1..Len(vs) /\ \A i \in 1..Len(vs) : h[i] = f[i]
      BY <2>1, <3>1 DEF UpTo
    <3>3. \A i \in 1..Len(vs) : i # 1 => i - 1 \in 1..Len(vs)
      BY <1>1
    <3>4. E(h) = E(f)
      BY <3>2, <3>3
    <3> HIDE DEF E
    <3>5. h = E(h)
      BY <3>1, <3>4
    <3> QED
      BY <3>5
  <2> HIDE DEF E
  <2>4. PICK g : g = CHOOSE h : h = E(h)
    OBVIOUS
  <2>5. g = E(g)
    BY <2>3, <2>4
  <2>6. UpTo(vs, Len(vs), g)
    BY <2>2, <2>5
  <2>7. FlattenSeq(vs) = g[Len(vs)]
    BY <1>3, <2>4 DEF FlattenSeq, E
  <2>8. Len(vs) \in 1..Len(vs)
    BY <1>1, <1>3
  <2>9. g[Len(vs)] \in Seq(F) /\ ToSet(g[Len(vs)]) = FilesUpTo(vs, Len(vs))
    BY <2>6, <2>8, UpToFiles
  <2> QED
    BY <1>1, <1>3, <2>7, <2>9 DEF FilesUpTo
<1> QED
  BY <1>2, <1>3

\* The files of a list of segments.
LEMMA FilesOfAll ==
  ASSUME NEW is \in Seq(SegmentInfos)
  PROVE  /\ ToSet(InfosFiles(is)) = FilesIn(is)
         /\ InfosFiles(is) \in Seq(FilesIn(is))
         /\ FilesIn(is) = UNION {FileSet(is[i]) : i \in DOMAIN is}
PROOF
<1>1. PICK F : F = FilesIn(is)
  OBVIOUS
<1>2. PICK vs : vs = [i \in DOMAIN is |-> FilesOf(is[i])]
  OBVIOUS
<1>3. \A i \in DOMAIN is : ToSet(FilesOf(is[i])) = FileSet(is[i]) /\ FilesOf(is[i]) \in Seq(FileSet(is[i]))
  BY FilesOfOne
<1>4. F = UNION {FileSet(is[i]) : i \in DOMAIN is}
  BY <1>1, <1>3 DEF FilesIn
<1>5. ASSUME NEW i \in DOMAIN is
      PROVE  FilesOf(is[i]) \in Seq(F)
  <2>1. PICK A : A = FileSet(is[i])
    OBVIOUS
  <2>2. A \subseteq F /\ FilesOf(is[i]) \in Seq(A)
    BY <1>3, <1>4, <2>1
  <2> QED
    BY <2>2
<1>6. PICK n \in Nat : DOMAIN is = 1..n
  OBVIOUS
<1>7. vs \in Seq(Seq(F)) /\ DOMAIN vs = DOMAIN is
  BY <1>2, <1>5, <1>6
<1>8. FlattenSeq(vs) \in Seq(F) /\ ToSet(FlattenSeq(vs)) = UNION {ToSet(vs[i]) : i \in DOMAIN vs}
  BY <1>7, Flattened
<1>9. UNION {ToSet(vs[i]) : i \in DOMAIN vs} = F
  BY <1>1, <1>2, <1>7 DEF FilesIn
<1>10. InfosFiles(is) = FlattenSeq(vs)
  BY <1>2 DEF InfosFiles
<1> QED
  BY <1>1, <1>4, <1>8, <1>9, <1>10

-----------------------------------------------------------------------------
(* The deleter is the one of IndexFileDeleter_proofs, with this writer for *)
(* its client.                                                             *)

Stored == [g \in DOMAIN disk |-> [complete |-> disk[g].complete, files |-> FilesOn(g)]]
Unreg == IF op.todo # <<>> /\ Head(op.todo) = <<"ckpt", TRUE>> THEN gen ELSE 0

DP == INSTANCE IndexFileDeleter_proofs WITH
        stored <- Stored,
        up <- Up,
        unreg <- Unreg,
        Owner <- {"merge"},
        Vectors <- Seq(File),
        FileSets <- SUBSET (File \cup {SegmentsFile(0)}),
        KeepAll <- FALSE

\* What the deleter assumes of files and generations.
LEMMA Generations ==
    /\ Gen \subseteq Nat \ {0}
    /\ \A g \in Gen : SegmentsFile(g) \in File
    /\ \A g, h \in Gen : SegmentsFile(g) = SegmentsFile(h) => g = h
PROOF
  BY BoundsAssumption DEF Gen, File, SegmentsFile

\* What the deleter references, seen from either module.
LEMMA SameNames ==
    /\ \A H, fs : DP!Named(H, fs) = D!Named(H, fs)
    /\ DP!Referenced = D!Referenced /\ DP!Holders = D!Holders
    /\ DP!Usable = D!Usable
    /\ \A fs : DP!Range(fs) = D!Range(fs)
<1>1. \A H, fs : DP!Named(H, fs) = D!Named(H, fs)
  BY DEF D!Named, DP!Named, D!Range, DP!Range
<1>2. DP!Referenced = D!Referenced /\ DP!Holders = D!Holders
  BY <1>1 DEF D!Referenced, DP!Referenced, D!Holders, DP!Holders
<1>3. DP!Usable = D!Usable
  BY DEF D!Usable, DP!Usable
<1>4. \A fs : DP!Range(fs) = D!Range(fs)
  BY DEF D!Range, DP!Range
<1> QED
  BY <1>1, <1>2, <1>3, <1>4

\* So are commits,
LEMMA SameCommits ==
    /\ \A g : DP!Readable(g) <=> D!Readable(g)
    /\ \A g : DP!Newest(g) <=> D!Newest(g)
    /\ \A g : DP!CommitPoint(g) = D!CommitPoint(g)
<1>1. \A g : DP!Readable(g) <=> D!Readable(g)
  BY DEF D!Readable, DP!Readable, Stored
<1>2. \A g : DP!Newest(g) <=> D!Newest(g)
  BY <1>1 DEF D!Newest, DP!Newest
<1>3. \A g : DP!CommitPoint(g) = D!CommitPoint(g)
  BY DEF D!CommitPoint, DP!CommitPoint, Stored
<1> QED
  BY <1>1, <1>2, <1>3

\* and counts,
LEMMA SameCounts ==
    ASSUME NEW rc, NEW H, NEW fs
    PROVE  /\ DP!IncRef(rc, H, fs) = D!IncRef(rc, H, fs)
           /\ DP!DecRef(rc, H, fs) = D!DecRef(rc, H, fs)
           /\ DP!Freed(rc, H, fs) = D!Freed(rc, H, fs)
<1>1. \A f : DP!At(rc, f) = D!At(rc, f)
  BY DEF D!At, DP!At
<1>2. \A f : DP!Count(fs, f) = D!Count(fs, f)
  <2>1. \A S : DP!Cardinality(S) = D!Cardinality(S)
    BY DEF DP!Cardinality, D!Cardinality
  <2> QED
    BY <2>1 DEF D!Count, DP!Count
<1>3. \A f : DP!Uses(H, f) = D!Uses(H, f)
  BY DEF D!Uses, DP!Uses
<1>4. \A f : DP!Tally(H, fs, f) = D!Tally(H, fs, f)
  <2>1. \A S : DP!Cardinality(S) = D!Cardinality(S)
    BY DEF DP!Cardinality, D!Cardinality
  <2> QED
    BY <1>2, <1>3, <2>1 DEF D!Tally, DP!Tally
<1>5. DP!Named(H, fs) = D!Named(H, fs)
  BY SameNames
<1>6. DP!IncRef(rc, H, fs) = D!IncRef(rc, H, fs)
  BY <1>1, <1>4, <1>5 DEF D!IncRef, DP!IncRef
<1>7. \A f : DP!Left(rc, H, fs, f) = D!Left(rc, H, fs, f)
  BY <1>1, <1>4 DEF D!Left, DP!Left
<1>8. DP!Freed(rc, H, fs) = D!Freed(rc, H, fs)
  BY <1>5, <1>7 DEF D!Freed, DP!Freed
<1>9. DP!DecRef(rc, H, fs) = D!DecRef(rc, H, fs)
  BY <1>5, <1>7, <1>8 DEF D!DecRef, DP!DecRef
<1> QED
  BY <1>6, <1>8, <1>9

\* and effects.
LEMMA SameEffects ==
    /\ \A doomed, pending, busy :
         DP!RemoveFiles(doomed, pending, busy) <=> D!RemoveFiles(doomed, pending, busy)
    /\ DP!ForgetEffect <=> D!ForgetEffect
BY DEF DP!RemoveFiles, D!RemoveFiles, DP!ForgetEffect, D!ForgetEffect

\* The same variables.
LEMMA SameState ==
   /\ D!vars = DP!vars
   /\ (D!vars)' = DP!vars'
BY DEF D!vars, DP!vars, Stored, Up, Unreg

\* Each step of the writer that D allows is one of the client that the
\* proofs are about.
LEMMA Creates ==
  ASSUME NEW fs, D!CreateFiles(fs)
  PROVE  DP!CreateFiles(fs)
PROOF
BY DEF D!CreateFiles, DP!CreateFiles, Stored, Up, Unreg

LEMMA StartsSegments ==
  ASSUME NEW g, D!StartSegments(g)
  PROVE  DP!StartSegments(g)
PROOF
BY SameNames, SameCommits DEF D!StartSegments, DP!StartSegments, Stored, Up, Unreg

LEMMA FinishesSegments ==
  ASSUME NEW g, NEW fs, D!FinishSegments(g, fs)
  PROVE  DP!FinishSegments(g, fs)
PROOF
BY SameNames, SameCommits DEF D!FinishSegments, DP!FinishSegments, Stored, Up, Unreg

LEMMA Checkpoints ==
  ASSUME NEW a, NEW b, NEW c, D!Checkpoint(a, b, c)
  PROVE  DP!Checkpoint(a, b, c)
PROOF
<1>1. \A i : DP!CheckpointEffect(a, b, i, Unreg, c) <=> D!CheckpointEffect(a, b, i, Unreg, c)
  BY SameCommits, SameCounts, SameEffects DEF D!CheckpointEffect, DP!CheckpointEffect
<1> QED
  BY <1>1, SameNames DEF D!Checkpoint, DP!Checkpoint, Stored, Up, Unreg

LEMMA Holds ==
  ASSUME NEW o, NEW fs, D!Hold(o, fs)
  PROVE  DP!Hold(o, fs)
PROOF
BY SameNames, SameCommits, SameCounts, SameEffects DEF D!Hold, DP!Hold, D!IncRefEffect, DP!IncRefEffect, Stored, Up, Unreg

LEMMA Releases ==
  ASSUME NEW h, NEW busy, D!Release(h, busy)
  PROVE  DP!Release(h, busy)
PROOF
BY SameNames, SameCommits, SameCounts, SameEffects DEF D!Release, DP!Release, D!DecRefEffect, DP!DecRefEffect, Stored, Up, Unreg

LEMMA DeletesFiles ==
  ASSUME NEW fs, NEW busy, D!DeleteFiles(fs, busy)
  PROVE  DP!DeleteFiles(fs, busy)
PROOF
BY SameNames, SameCommits, SameCounts, SameEffects DEF D!DeleteFiles, DP!DeleteFiles, D!DeleteFilesEffect, DP!DeleteFilesEffect, Stored, Up, Unreg

LEMMA DeletesNewFiles ==
  ASSUME NEW fs, NEW busy, D!DeleteNewFiles(fs, busy)
  PROVE  DP!DeleteNewFiles(fs, busy)
PROOF
BY SameNames, SameCommits, SameCounts, SameEffects DEF D!DeleteNewFiles, DP!DeleteNewFiles, D!DeleteNewFilesEffect, DP!DeleteNewFilesEffect, Stored, Up, Unreg

LEMMA Refreshes ==
  ASSUME NEW fs, NEW busy, D!Refresh(fs, busy)
  PROVE  DP!Refresh(fs, busy)
PROOF
BY SameNames, SameCommits, SameCounts, SameEffects DEF D!Refresh, DP!Refresh, D!RefreshEffect, DP!RefreshEffect, Stored, Up, Unreg

LEMMA Opens ==
  ASSUME NEW g, NEW busy, D!Open(g, busy)
  PROVE  DP!Open(g, busy)
PROOF
<1>1. PICK F : F = {D!CommitPoint(h) : h \in {n \in DOMAIN Stored : n <= g /\ D!Readable(n)}}
  OBVIOUS
<1>2. F = {DP!CommitPoint(h) : h \in {n \in DOMAIN Stored : n <= g /\ DP!Readable(n)}}
  BY <1>1, SameCommits
<1>3. PICK G : G = {c \in F : c.id # g}
  OBVIOUS
<1>4. PICK R : R = D!IncRef([f \in dir |-> 0], F, <<>>)
  OBVIOUS
<1>5. R = DP!IncRef([f \in dir |-> 0], F, <<>>)
  BY <1>4, SameCounts
<1>6. /\ refCounts' = D!DecRef(R, G, <<>>) /\ commits' = F \ G /\ last' = <<>>
      /\ D!RemoveFiles((dir \ D!Named(F, <<>>)) \cup D!Freed(R, G, <<>>), {}, busy)
  BY <1>1, <1>3, <1>4 DEF D!Open, D!OpenEffect, Stored
<1>7. /\ refCounts' = DP!DecRef(R, G, <<>>) /\ commits' = F \ G /\ last' = <<>>
      /\ DP!RemoveFiles((dir \ DP!Named(F, <<>>)) \cup DP!Freed(R, G, <<>>), {}, busy)
  BY <1>6, SameNames, SameCounts, SameEffects
<1>8. DP!OpenEffect(g, busy)
  BY <1>2, <1>3, <1>5, <1>7 DEF DP!OpenEffect
<1> QED
  BY <1>8, SameCommits DEF D!Open, DP!Open, Stored, Up, Unreg

LEMMA Closes ==
  ASSUME NEW busy, D!Close(busy)
  PROVE  DP!Close(busy)
PROOF
BY SameNames, SameCommits, SameCounts, SameEffects DEF D!Close, DP!Close, Stored, Up, Unreg

LEMMA Crashes ==
  ASSUME D!Crash
  PROVE  DP!Crash
PROOF
BY SameNames, SameCommits, SameCounts, SameEffects DEF D!Crash, DP!Crash, Stored, Up, Unreg

LEMMA CrashesInCheckpoint ==
  ASSUME NEW fs, D!CrashInCheckpoint(fs)
  PROVE  DP!CrashInCheckpoint(fs)
PROOF
BY SameNames, SameCommits, SameCounts, SameEffects DEF D!CrashInCheckpoint, DP!CrashInCheckpoint, Stored, Up, Unreg

\* The vectors of names the writer passes are vectors of files.
LEMMA VectorsOfFiles ==
  ASSUME NEW is, NEW n, ListOK(is, n)
  PROVE  /\ InfosFiles(is) \in Seq(File)
         /\ D!Range(InfosFiles(is)) = FilesIn(is)
         /\ FilesIn(is) = UNION {FileSet(is[i]) : i \in DOMAIN is}
         /\ FilesIn(is) \subseteq File
PROOF
<1>1. is \in Seq(SegmentInfos)
  BY DEF ListOK
<1>2. FilesIn(is) \subseteq File
  BY FilesAreFiles
<1>3. \A fs : D!Range(fs) = ToSet(fs)
  BY DEF D!Range, ToSet
<1>4. InfosFiles(is) \in Seq(FilesIn(is)) /\ ToSet(InfosFiles(is)) = FilesIn(is)
      /\ FilesIn(is) = UNION {FileSet(is[i]) : i \in DOMAIN is}
  BY <1>1, FilesOfAll
<1>5. InfosFiles(is) \in Seq(File)
  BY <1>2, <1>4
<1> QED
  BY <1>2, <1>3, <1>4, <1>5

\* A writer that keeps the contract in one step leaves the deleter's
\* invariant as it is.
LEMMA Serving ==
  ASSUME IInv, IInv', [DeleterStep]_(D!vars), DP!IInv
  PROVE  DP!IInv' /\ DP!Advances
PROOF
<1>1. PICK FS : FS = SUBSET (File \cup {SegmentsFile(0)})
  OBVIOUS
<1>2. Busy \in FS
  BY <1>1 DEF IInv, RestOK, Busy
<1>3. InfosFiles(infos) \in Seq(File)
  BY VectorsOfFiles DEF IInv, InfosOK, Fits
<1>4. (IF buf.store = None THEN <<>> ELSE <<Store(buf.store)>>) \in Seq(File)
  <2>1. buf.store \in Name \cup {None}
    BY DEF IInv, BufOK, BufShape
  <2>2. buf.store # None => Store(buf.store) \in File
    BY <2>1 DEF Store, File
  <2> QED
    BY <2>2
<1>5. ASSUME DeleterStep PROVE DP!Next
  <2>1. ASSUME D!CreateFiles(dir' \ dir) PROVE DP!Next
    <3>1. dir' \ dir \in FS
      BY <1>1, <2>1 DEF D!CreateFiles
    <3> QED
      BY <1>1, <2>1, <3>1, Creates DEF DP!Next
  <2>2. ASSUME D!StartSegments(gen') PROVE DP!Next
    <3>1. PICK g : g = gen'
      OBVIOUS
    <3>2. g \in Gen /\ D!StartSegments(g)
      BY <2>2, <3>1 DEF D!StartSegments
    <3>3. DP!StartSegments(g)
      BY <3>2, StartsSegments
    <3> QED
      BY <3>2, <3>3 DEF DP!Next
  <2>3. ASSUME D!FinishSegments(gen, InfosFiles(infos)) PROVE DP!Next
    <3>1. gen \in Gen
      BY <2>3 DEF D!FinishSegments, IInv, DiskOK
    <3>2. PICK fs : fs = InfosFiles(infos)
      OBVIOUS
    <3>3. D!FinishSegments(gen, fs) /\ fs \in Seq(File)
      BY <1>3, <2>3, <3>2 DEF D!FinishSegments
    <3>4. DP!FinishSegments(gen, fs)
      BY <3>3, FinishesSegments
    <3> QED
      BY <3>1, <3>3, <3>4 DEF DP!Next
  <2>4. ASSUME D!Checkpoint(InfosFiles(infos),
                  IF buf.store = None THEN <<>> ELSE <<Store(buf.store)>>, Busy)
        PROVE  DP!Next
    <3>1. DP!ClientStep(Busy)
      BY <1>3, <1>4, <2>4, Checkpoints DEF DP!ClientStep
    <3> QED
      BY <1>1, <1>2, <3>1 DEF DP!Next
  <2>5. ASSUME D!Hold("merge", InfosFiles(merge'.clone)) PROVE DP!Next
    <3>1. PICK c : c = merge'.clone
      OBVIOUS
    <3>2. c \in Seq(SegmentInfos)
      BY <3>1 DEF IInv, MergeOK, MergeShape
    <3>3. InfosFiles(c) \in Seq(FilesIn(c)) /\ ToSet(InfosFiles(c)) = FilesIn(c)
      BY <3>2, FilesOfAll
    <3>4. FilesIn(c) \subseteq File
      <4>1. D!Range(InfosFiles(c)) \subseteq dir
        BY <2>5, <3>1 DEF D!Hold, D!Usable
      <4> QED
        BY <3>3, <4>1 DEF IInv, RestOK, D!Range, ToSet
    <3>5. InfosFiles(c) \in Seq(File)
      BY <3>3, <3>4
    <3>6. D!Hold("merge", InfosFiles(c))
      BY <2>5, <3>1
    <3> QED
      BY <3>5, <3>6, Holds DEF DP!Next
  <2>6. ASSUME NEW h \in held, D!Release(h, Busy) PROVE DP!Next
    <3>1. DP!ClientStep(Busy)
      BY <2>6, Releases DEF DP!ClientStep
    <3> QED
      BY <1>1, <1>2, <3>1 DEF DP!Next
  <2>7. ASSUME NEW fs \in FS, D!DeleteFiles(fs, Busy) PROVE DP!Next
    <3>1. DP!ClientStep(Busy)
      BY <1>1, <2>7, DeletesFiles DEF DP!ClientStep
    <3> QED
      BY <1>1, <1>2, <3>1 DEF DP!Next
  <2>8. {SegmentsFile(gen)} \in FS
    <3>1. gen \in Gen \cup {0}
      BY BoundsAssumption DEF IInv, RestOK, Gen
    <3> QED
      BY <1>1, <3>1, Generations
  <2>9. (\A n \in Name : {Store(n)} \in FS) /\ (At("delete") => Head(op.todo)[2] \in FS)
    <3>1. \A n \in Name : {Store(n)} \in FS
      BY <1>1 DEF File, Store
    <3>2. ASSUME At("delete") PROVE Head(op.todo)[2] \in FS
      <4>1. PICK a, s : s = op.todo /\ a = Head(s)
        OBVIOUS
      <4>2. s # <<>> /\ s \in Seq(Step) /\ a[1] = "delete"
        BY <3>2, <4>1, Heads, Types DEF HeadOf, At
      <4>3. a \in Step
        BY <4>1, <4>2
      <4>4. a[2] \in SUBSET File
        BY <4>2, <4>3 DEF Step
      <4> QED
        BY <1>1, <4>1, <4>4
    <3> QED
      BY <3>1, <3>2
  <2>10. ASSUME NEW fs \in FS, D!DeleteNewFiles(fs, Busy) PROVE DP!Next
    <3>1. DP!ClientStep(Busy)
      BY <1>1, <2>10, DeletesNewFiles DEF DP!ClientStep
    <3> QED
      BY <1>1, <1>2, <3>1 DEF DP!Next
  <2>11. ASSUME NEW n, D!Refresh(Scope(n), Busy) PROVE DP!Next
    <3>1. Scope(n) \in FS
      BY <1>1 DEF Scope
    <3>2. DP!ClientStep(Busy)
      BY <1>1, <2>11, <3>1, Refreshes DEF DP!ClientStep
    <3> QED
      BY <1>1, <1>2, <3>2 DEF DP!Next
  <2>12. ASSUME D!Open(gen, Busy) PROVE DP!Next
    <3>1. gen \in Gen
      BY <2>12 DEF D!Open, D!Newest, D!Readable, IInv, DiskOK
    <3>2. DP!ClientStep(Busy)
      BY <2>12, <3>1, Opens DEF DP!ClientStep
    <3> QED
      BY <1>1, <1>2, <3>2 DEF DP!Next
  <2>13. ASSUME D!Close(Busy) PROVE DP!Next
    <3>1. DP!ClientStep(Busy)
      BY <2>13, Closes DEF DP!ClientStep
    <3> QED
      BY <1>1, <1>2, <3>1 DEF DP!Next
  <2>14. ASSUME D!Crash PROVE DP!Next
    BY <2>14, Crashes DEF DP!Next
  <2>15. ASSUME D!CrashInCheckpoint(dir \ dir') PROVE DP!Next
    <3>1. dir \ dir' \in FS
      BY <1>1 DEF IInv, RestOK
    <3> QED
      BY <1>1, <2>15, <3>1, CrashesInCheckpoint DEF DP!Next
  <2> QED
    BY <1>5, <2>1, <2>2, <2>3, <2>4, <2>5, <2>6, <2>7, <2>8, <2>9, <2>10, <2>11, <2>12, <2>13,
       <2>14, <2>15 DEF DeleterStep
<1>6. [DP!Next]_(DP!vars)
  BY <1>5, SameState
<1> QED
  BY <1>6, Generations, DP!NextInv DEF DP!NextInv

-----------------------------------------------------------------------------
(* The inductive invariant of the files.                                   *)

\* The steps of a list, and what kinds of steps there are.
Steps(s) == {s[i] : i \in DOMAIN s}
Kinds(S) == {a[1] : a \in S}

\* What the files that are needed depend on: the files that are there; those
\* that commits and the last checkpoint reference, and those a merge
\* references too; names; the buffer and the merge.
World ==
    [safe |-> dir, base |-> D!Named(commits, last), ref |-> D!Referenced,
     held |-> held, counter |-> counter, buf |-> buf, merge |-> merge,
     status |-> status]

Writing(m) == m.stage \in {"running", "built"}

\* With the steps S still to take, the merge m is committed, or about to
\* be, and its compound file is not.
Alone(m, S) ==
    \/ m.stage = "committed"
    \/ m.stage = "compound" /\ "merged" \notin Kinds(S)
    \/ <<"merged", "committed">> \in S

\* The files of the step that writes the segment x are there.
SegmentReady(a, S, is, w) ==
    LET fds == a[2]
        x   == a[3]
        cfx == a[4]
    IN  /\ x < w.counter
        /\ w.buf.docs # {} => x # None
        /\ Writing(w.merge) => x # w.merge.out.name
        /\ fds => w.buf.docs # {} /\ x = w.buf.seg /\ x = w.buf.store /\ ~cfx
        /\ "stores" \in Kinds(S) => x = w.buf.store /\ ~fds /\ cfx = UseCompound
        /\ "stores" \notin Kinds(S) =>
             /\ cfx => w.buf.store = None
             /\ x # None => (IF cfx THEN Cfx(x) ELSE Store(x)) \in w.safe
             /\ "ckpt" \in Kinds(S) =>
                  cfx /\ (Cfx(x) \in FilesIn(is) \/ Cfx(x) \notin w.ref)

\* refresh(segment) does not take what is needed.
RefreshReady(n, S, w) ==
    IF n = None
    THEN w.status = "aborted" /\ w.merge.stage = "none" /\ w.buf.store = None
    ELSE /\ n < w.counter
         /\ Writing(w.merge) \/ Alone(w.merge, S) => n # w.merge.out.name
         /\ w.buf.store = n /\ "ckpt" \notin Kinds(S) => Store(n) \in w.base

\* The files fs, a compound file or deletions files, may be deleted.
DropReady(fs, S, is, w) ==
    \/ \E n \in Name : /\ fs = {Cfs(n)}
                       /\ Cfs(n) \notin w.ref \cup FilesIn(is)
                       /\ Alone(w.merge, S) => n # w.merge.out.name
    \/ /\ \A f \in fs : f[1] = "del"
       /\ fs \cap (w.ref \cup FilesIn(is)) = {}

\* The step a, one of S, does what it should when the segments are is.
Ready(a, S, is, w) ==
    /\ a[1] = "stores" => "segment" \in Kinds(S) /\ ("ckpt" \in Kinds(S) <=> UseCompound)
    /\ a[1] = "segment" => SegmentReady(a, S, is, w)
    /\ a[1] = "cfs" =>
         /\ Cfs(a[2]) \notin w.ref \cup FilesIn(is)
         /\ Alone(w.merge, S) => a[2] # w.merge.out.name
    /\ a[1] = "delete" => DropReady(a[2], S, is, w)
    /\ a[1] = "new" =>
         \E n \in Name : /\ a[2] = {Store(n)}
                         /\ n < w.counter /\ n # w.buf.store
                         /\ Writing(w.merge) => n # w.merge.out.name
    /\ a[1] = "refresh" => RefreshReady(a[2], S, w)
    /\ a[1] = "release" => w.merge.stage = "ending"
    /\ a[1] = "close" => w.merge.stage = "none"

\* The files of the segments is are there and, unless a checkpoint is to
\* come, the deleter knows them; no compound file that is still to be made
\* is among them.
FilesSound(is, S, w) ==
    /\ FilesIn(is) \subseteq w.safe
    /\ w.status \notin {"closed", "opening"} /\ "ckpt" \notin Kinds(S) =>
         FilesIn(is) \subseteq w.base
    /\ \A i \in DOMAIN is : /\ is[i].store < w.counter
                            /\ Writing(w.merge) => is[i].store # w.merge.out.name
    /\ w.buf.store # None => Cfx(w.buf.store) \notin FilesIn(is)
    /\ Alone(w.merge, S) => Cfs(w.merge.out.name) \notin w.ref \cup FilesIn(is)

\* The segments is and the steps S are in order.
Sound(is, S, w) ==
    /\ FilesSound(is, S, w)
    /\ w.merge.stage = "compound" /\ "merged" \notin Kinds(S) =>
         Cfs(w.merge.out.name) \in w.safe
    /\ w.held # {} => Writing(w.merge) \/ "release" \in Kinds(S)
    /\ \A a \in S : Ready(a, S, is, w)

InfosSound == Sound(infos, Steps(op.todo), World)
UndoSound == Undoing => Sound(op.undo, Steps(op.onFail), World)

\* abort() may still come: nothing was committed.
Backable(ac, st, s) == ~ac /\ st # "closed" /\ HeadOf(s) # "close"
RollbackShape(rb, is, st, n, coms) ==
    /\ \A i \in DOMAIN rb : rb[i].store < n
    /\ IF st = "opening" THEN FilesIn(rb) \subseteq FilesIn(is)
       ELSE FilesIn(rb) \subseteq UNION {D!Range(c.files) : c \in coms}
RollbackSound ==
    /\ Backable(autoCommit, status, op.todo) =>
         RollbackShape(rollback, infos, status, counter, commits)
    /\ status = "aborting" => ~autoCommit

BufSoundIn(S, w) ==
    /\ w.buf.store < w.counter
    /\ w.buf.seg # None => w.buf.docs # {}
    /\ w.buf.docs # {} /\ "segment" \notin Kinds(S) => w.buf.store # None
    /\ w.buf.store # None => /\ Store(w.buf.store) \in w.safe
                             /\ Store(w.buf.store) \in w.ref => Store(w.buf.store) \in w.base
                             /\ Cfx(w.buf.store) \notin w.ref
    /\ w.buf.seg # None => Cfs(w.buf.seg) \notin w.ref
BufSound == BufSoundIn(Steps(op.todo), World)

\* The doc stores of the merged segment out: its own, or its first source's.
OutStore(m) ==
    IF m.stores THEN m.out.store = None
    ELSE /\ m.out.store = m.clone[1].store /\ m.out.store # None
         /\ m.out.storeCfs = m.clone[1].storeCfs

MergeSoundIn(is, w) ==
    LET m == w.merge
    IN  /\ m.stage = "init" /\ ~m.stores =>
             \A i \in DOMAIN is : is[i].name = m.clone[1].name => is[i].store # None
        /\ m.stage \notin {"none", "init"} =>
             m.out.name < w.counter /\ m.out.name \notin {w.buf.seg, w.buf.store}
        /\ Writing(m) =>
             /\ w.held # {}
             /\ ~m.out.cfs /\ m.out.delGen = 0 /\ m.out.store < w.counter
             /\ OutStore(m)
             /\ \A f \in w.ref : f[1] = "segments" \/ f[2] # m.out.name
        /\ m.stage = "built" =>
             /\ Core(m.out.name) \in w.safe
             /\ m.stores => Store(m.out.name) \in w.safe
        /\ \A h \in w.held : h = [kind |-> "held", id |-> "merge", files |-> InfosFiles(m.clone)]
MergeSound == MergeSoundIn(infos, World)

NamesBelow == \A f \in D!Referenced : f[1] = "segments" \/ f[2] < counter

DiskSound ==
    /\ \A g \in DOMAIN disk : \A i \in DOMAIN disk[g].infos :
         disk[g].infos[i].store < disk[g].counter
    /\ At("finish") => \A i \in DOMAIN infos : infos[i].store < disk[gen].counter

-----------------------------------------------------------------------------
(* Generations.                                                            *)

\* No commit is newer than the last one that was written.
LastOK ==
    status # "closed" =>
        /\ lastGen <= gen
        /\ \A g \in Gen :
             D!Readable(g) \/ SegmentsFile(g) \in D!Referenced => g <= lastGen

\* segments_N while it is written, and until the deleter knows of it.
WrittenOK ==
    /\ At("finish") => /\ gen \in DOMAIN disk /\ ~disk[gen].complete
                       /\ SegmentsFile(gen) \in dir
                       /\ lastGen < gen
    /\ op.todo # <<>> /\ Head(op.todo) = <<"ckpt", TRUE>> =>
         gen \in DOMAIN disk /\ disk[gen].complete /\ disk[gen].infos = infos
    /\ At("ctor") => D!Newest(gen) /\ disk[gen].infos = infos
    /\ status = "opening" /\ Head1 \in {"write", "finish"} => infos = <<>>

-----------------------------------------------------------------------------
(* The order of an operation's steps.                                      *)

\* The step a may come before b.  Nothing is deleted before the deleter
\* knows the segments, and it is told of a commit as soon as that is written.
Before(a, b) ==
    /\ b[1] = "ckpt" => a[1] \in {"stores", "write", "finish", "partial", "delete"}
    /\ b = <<"ckpt", TRUE>> => a[1] \in {"write", "finish"}
    /\ b[1] = "ctor" => a[1] \in {"write", "finish"}
    /\ b[1] = "segment" => a \in {<<"stores">>, <<"ckpt", FALSE>>}
    /\ b[1] = "close" => a[1] \in {"write", "finish", "ckpt"}
    /\ a[1] \in {"segment", "cfs"} => b[1] = "bind"
    /\ a[1] \notin {"close", "throw"}
Ordered(s) == \A i, j \in DOMAIN s : i < j => Before(s[i], s[j])

OrderShape(o, st, ac) ==
    /\ Ordered(o.todo) /\ Ordered(o.onFail)
    /\ <<"ckpt", TRUE>> \notin Steps(o.onFail)
    /\ Names(o.onFail) \cap {"ctor", "close", "segment", "cfs"} = {}
    /\ "ctor" \in Names(o.todo) => st = "opening"
    /\ HeadOf(o.todo) \in {"write", "finish"} =>
         /\ Len(o.todo) >= 2
         /\ o.todo[2] = (IF st = "opening" THEN <<"ctor">> ELSE <<"ckpt", TRUE>>)
    /\ "segment" \in Names(o.todo) => o.pausing
    /\ ~ac /\ <<"ckpt", TRUE>> \in Steps(o.todo) => "close" \in Names(o.todo)
OrderOK == OrderShape(op, status, autoCommit)

\* The file system deletes what it is told to.
Clean == pinned = {} /\ deletable = {}

FInv ==
    /\ InfosSound /\ UndoSound /\ RollbackSound /\ BufSound /\ MergeSound
    /\ NamesBelow /\ DiskSound /\ LastOK /\ WrittenOK /\ OrderOK /\ Clean

-----------------------------------------------------------------------------
(* Lists of steps.                                                         *)

LEMMA KindsAre ==
  ASSUME NEW s
  PROVE  Kinds(Steps(s)) = Names(s)
PROOF
<1>1. \A k : k \in Kinds(Steps(s)) <=> \E i \in DOMAIN s : k = s[i][1]
  BY DEF Kinds, Steps
<1>2. \A k : k \in Names(s) <=> \E i \in DOMAIN s : k = s[i][1]
  BY DEF Names
<1> QED
  BY <1>1, <1>2

\* Short lists.
LEMMA ShortLists ==
  ASSUME NEW a, NEW b, NEW c, NEW d
  PROVE  /\ Steps(<<>>) = {} /\ Ordered(<<>>)
         /\ Steps(<<a>>) = {a} /\ Ordered(<<a>>)
         /\ Steps(<<a, b>>) = {a, b}
         /\ Before(a, b) => Ordered(<<a, b>>)
         /\ Steps(<<a, b, c>>) = {a, b, c}
         /\ Before(a, b) /\ Before(a, c) /\ Before(b, c) => Ordered(<<a, b, c>>)
         /\ Steps(<<a, b, c, d>>) = {a, b, c, d}
         /\ Before(a, b) /\ Before(a, c) /\ Before(a, d) /\ Before(b, c) /\ Before(b, d)
              /\ Before(c, d) => Ordered(<<a, b, c, d>>)
PROOF
<1>1. Steps(<<>>) = {} /\ Ordered(<<>>)
  BY DEF Steps, Ordered
<1>2. Steps(<<a>>) = {a} /\ Ordered(<<a>>)
  <2>1. PICK s : s = <<a>>
    OBVIOUS
  <2>2. DOMAIN s = {1} /\ s[1] = a
    BY <2>1
  <2> QED
    BY <2>1, <2>2 DEF Steps, Ordered
<1>3. Steps(<<a, b>>) = {a, b} /\ (Before(a, b) => Ordered(<<a, b>>))
  <2>1. PICK s : s = <<a, b>>
    OBVIOUS
  <2>2. DOMAIN s = {1, 2} /\ s[1] = a /\ s[2] = b
    BY <2>1
  <2>3. Steps(s) = {a, b}
    BY <2>2 DEF Steps
  <2>4. Before(a, b) => Ordered(s)
    BY <2>2 DEF Ordered
  <2> QED
    BY <2>1, <2>3, <2>4
<1>4. /\ Steps(<<a, b, c>>) = {a, b, c}
      /\ Before(a, b) /\ Before(a, c) /\ Before(b, c) => Ordered(<<a, b, c>>)
  <2>1. PICK s : s = <<a, b, c>>
    OBVIOUS
  <2>2. DOMAIN s = {1, 2, 3} /\ s[1] = a /\ s[2] = b /\ s[3] = c
    BY <2>1
  <2>3. Steps(s) = {a, b, c}
    BY <2>2 DEF Steps
  <2>4. Before(a, b) /\ Before(a, c) /\ Before(b, c) => Ordered(s)
    BY <2>2 DEF Ordered
  <2> QED
    BY <2>1, <2>3, <2>4
<1>5. /\ Steps(<<a, b, c, d>>) = {a, b, c, d}
      /\ Before(a, b) /\ Before(a, c) /\ Before(a, d) /\ Before(b, c) /\ Before(b, d)
           /\ Before(c, d) => Ordered(<<a, b, c, d>>)
  <2>1. PICK s : s = <<a, b, c, d>>
    OBVIOUS
  <2>2. DOMAIN s = {1, 2, 3, 4} /\ s[1] = a /\ s[2] = b /\ s[3] = c /\ s[4] = d
    BY <2>1
  <2>3. Steps(s) = {a, b, c, d}
    BY <2>2 DEF Steps
  <2>4. Before(a, b) /\ Before(a, c) /\ Before(a, d) /\ Before(b, c) /\ Before(b, d)
          /\ Before(c, d) => Ordered(s)
    BY <2>2 DEF Ordered
  <2> QED
    BY <2>1, <2>3, <2>4
<1> QED
  BY <1>1, <1>2, <1>3, <1>4, <1>5

\* One list after the other.
LEMMA StepsJoin ==
  ASSUME NEW s \in Seq(Step), NEW t \in Seq(Step)
  PROVE  /\ Steps(s \o t) = Steps(s) \cup Steps(t)
         /\ /\ Ordered(s) /\ Ordered(t)
            /\ \A a \in Steps(s), b \in Steps(t) : Before(a, b)
            => Ordered(s \o t)
         /\ s # <<>> => HeadOf(s \o t) = HeadOf(s) /\ Head(s \o t) = Head(s) /\ s \o t # <<>>
         /\ s = <<>> => s \o t = t
PROOF
<1>1. PICK l \in Nat, m \in Nat : l = Len(s) /\ m = Len(t) /\ DOMAIN s = 1..l /\ DOMAIN t = 1..m
  OBVIOUS
<1>2. PICK r : r = s \o t
  OBVIOUS
<1>3. /\ r \in Seq(Step) /\ Len(r) = l + m /\ DOMAIN r = 1..(l + m)
      /\ \A i \in 1..(l + m) : r[i] = IF i <= l THEN s[i] ELSE t[i - l]
  BY <1>1, <1>2, ConcatProperties
<1>4. \A i \in DOMAIN r : \/ i \in 1..l /\ r[i] = s[i]
                          \/ i > l /\ i - l \in 1..m /\ r[i] = t[i - l]
  BY <1>1, <1>3
<1>5. \A i \in 1..l : i \in DOMAIN r /\ r[i] = s[i]
  <2>1. \A i \in 1..l : i \in 1..(l + m) /\ i <= l
    BY <1>1
  <2> QED
    BY <2>1, <1>3
<1>6. \A i \in 1..m : i + l \in DOMAIN r /\ r[i + l] = t[i]
  <2>1. SUFFICES ASSUME NEW i \in 1..m
                 PROVE  i + l \in DOMAIN r /\ r[i + l] = t[i]
    OBVIOUS
  <2>2. PICK k : k = i + l
    OBVIOUS
  <2>3. k \in 1..(l + m) /\ ~(k <= l) /\ k - l = i
    BY <2>2, <1>1
  <2>4. r[k] = t[k - l]
    BY <2>3, <1>3
  <2> QED
    BY <2>2, <2>3, <2>4, <1>3
<1>7. Steps(r) = Steps(s) \cup Steps(t)
  <2>1. Steps(s) \cup Steps(t) \subseteq Steps(r)
    BY <1>1, <1>5, <1>6 DEF Steps
  <2>2. Steps(r) \subseteq Steps(s) \cup Steps(t)
    BY <1>1, <1>4 DEF Steps
  <2> QED
    BY <2>1, <2>2
<1>8. ASSUME Ordered(s), Ordered(t), \A a \in Steps(s), b \in Steps(t) : Before(a, b)
      PROVE  Ordered(r)
  <2>1. SUFFICES ASSUME NEW i \in DOMAIN r, NEW j \in DOMAIN r, i < j
                 PROVE  Before(r[i], r[j])
    BY DEF Ordered
  <2>2. CASE i \in 1..l /\ r[i] = s[i] /\ j \in 1..l /\ r[j] = s[j]
    BY <2>1, <2>2, <1>1, <1>8 DEF Ordered
  <2>3. CASE i \in 1..l /\ r[i] = s[i] /\ j - l \in 1..m /\ r[j] = t[j - l]
    <3>1. r[i] \in Steps(s) /\ r[j] \in Steps(t)
      BY <2>3, <1>1 DEF Steps
    <3> QED
      BY <3>1, <1>8
  <2>4. CASE i > l /\ i - l \in 1..m /\ r[i] = t[i - l]
    <3>1. j > l
      BY <2>1, <2>4, <1>1, <1>3
    <3>2. j - l \in 1..m /\ r[j] = t[j - l]
      BY <3>1, <1>1, <1>4
    <3>3. i - l < j - l
      BY <2>1, <1>1, <1>3
    <3>4. PICK p : p = i - l
      OBVIOUS
    <3>5. PICK q : q = j - l
      OBVIOUS
    <3> QED
      BY <2>4, <3>2, <3>3, <3>4, <3>5, <1>1, <1>8 DEF Ordered
  <2> QED
    BY <2>2, <2>3, <2>4, <1>4
<1>9. ASSUME s # <<>>
      PROVE  HeadOf(r) = HeadOf(s) /\ Head(r) = Head(s) /\ r # <<>>
  <2>1. 1 \in 1..l
    BY <1>9, <1>1
  <2>2. r[1] = s[1] /\ r # <<>>
    BY <2>1, <1>3, <1>5
  <2>3. Head(r) = r[1] /\ Head(s) = s[1]
    BY <2>2, <1>3, <1>9
  <2> QED
    BY <2>2, <2>3, <1>9 DEF HeadOf
<1>10. s = <<>> => s \o t = t
  OBVIOUS
<1> QED
  BY <1>2, <1>7, <1>8, <1>9, <1>10

\* A list without its first step.
LEMMA StepsRest ==
  ASSUME NEW s \in Seq(Step), s # <<>>, NEW t, t = Tail(s)
  PROVE  /\ t \in Seq(Step) /\ Head(s) \in Steps(s) /\ Steps(s) = {Head(s)} \cup Steps(t)
         /\ Ordered(s) => /\ Ordered(t)
                          /\ \A b \in Steps(t) : Before(Head(s), b)
         /\ Head(s) = s[1] /\ s[1] \in Step
         /\ t # <<>> => Head(t) = s[2] /\ Head(t) \in Steps(t) /\ Len(s) >= 2
         /\ Len(s) >= 2 => t # <<>>
PROOF
<1>1. PICK l \in Nat : l = Len(s) /\ l >= 1 /\ DOMAIN s = 1..l
  OBVIOUS
<1>2. /\ t \in Seq(Step) /\ Len(t) = l - 1 /\ DOMAIN t = 1..(l - 1)
      /\ \A i \in 1..(l - 1) : t[i] = s[i + 1]
      /\ Head(s) = s[1]
  BY <1>1
<1>3. \A i \in DOMAIN t : i + 1 \in DOMAIN s /\ t[i] = s[i + 1] /\ 1 < i + 1
  BY <1>1, <1>2
<1>4. \A i \in DOMAIN s : i = 1 \/ (i - 1 \in DOMAIN t /\ t[i - 1] = s[i])
  <2>1. ASSUME NEW i \in DOMAIN s, i # 1
        PROVE  i - 1 \in DOMAIN t /\ t[i - 1] = s[i]
    <3>1. i - 1 \in 1..(l - 1) /\ (i - 1) + 1 = i
      BY <2>1, <1>1
    <3> QED
      BY <3>1, <1>2
  <2> QED
    BY <2>1
<1>5. Steps(s) = {Head(s)} \cup Steps(t)
  <2>1. 1 \in DOMAIN s
    BY <1>1
  <2>2. {Head(s)} \cup Steps(t) \subseteq Steps(s)
    BY <2>1, <1>2, <1>3 DEF Steps
  <2>3. ASSUME NEW i \in DOMAIN s
        PROVE  s[i] \in {Head(s)} \cup Steps(t)
    <3>1. CASE i = 1
      BY <3>1, <1>2
    <3>2. CASE i - 1 \in DOMAIN t /\ t[i - 1] = s[i]
      <4>1. PICK j \in DOMAIN t : t[j] = s[i]
        BY <3>2
      <4> QED
        BY <4>1 DEF Steps
    <3> QED
      BY <3>1, <3>2, <1>4
  <2>4. Steps(s) \subseteq {Head(s)} \cup Steps(t)
    BY <2>3 DEF Steps
  <2> QED
    BY <2>2, <2>4
<1>6. ASSUME Ordered(s)
      PROVE  Ordered(t) /\ \A b \in Steps(t) : Before(Head(s), b)
  <2>1. ASSUME NEW i \in DOMAIN t, NEW j \in DOMAIN t, i < j
        PROVE  Before(t[i], t[j])
    <3>1. i + 1 < j + 1
      BY <2>1, <1>2
    <3>2. PICK p : p = i + 1
      OBVIOUS
    <3>3. PICK q : q = j + 1
      OBVIOUS
    <3> QED
      BY <3>1, <3>2, <3>3, <1>3, <1>6 DEF Ordered
  <2>2. ASSUME NEW b \in Steps(t)
        PROVE  Before(Head(s), b)
    <3>1. PICK i \in DOMAIN t : b = t[i]
      BY DEF Steps
    <3>2. PICK q : q = i + 1
      OBVIOUS
    <3>3. q \in DOMAIN s /\ b = s[q] /\ 1 < q /\ 1 \in DOMAIN s
      BY <3>1, <3>2, <1>1, <1>3
    <3> QED
      BY <3>3, <1>2, <1>6 DEF Ordered
  <2> QED
    BY <2>1, <2>2 DEF Ordered
<1>7. t # <<>> => Head(t) = s[2] /\ Head(t) \in Steps(t) /\ l >= 2
  <2>1. SUFFICES ASSUME t # <<>> PROVE Head(t) = s[2] /\ Head(t) \in Steps(t) /\ l >= 2
    OBVIOUS
  <2>2. 1 \in DOMAIN t /\ Head(t) = t[1] /\ l >= 2
    BY <2>1, <1>1, <1>2
  <2>3. 1 \in 1..(l - 1) /\ 1 + 1 = 2
    BY <2>2, <1>2
  <2>4. t[1] = s[2]
    BY <2>3, <1>2
  <2> QED
    BY <2>2, <2>4 DEF Steps
<1>8. ASSUME l >= 2 PROVE t # <<>>
  <2>1. Len(t) # 0
    BY <1>1, <1>2, <1>8
  <2> QED
    BY <2>1
<1> QED
  BY <1>1, <1>2, <1>5, <1>6, <1>7, <1>8

\* o2 is o after its first step.
Popping(o, o2, st, ac) ==
    /\ OrderShape(o2, st, ac) /\ OpShape(o2)
    /\ o2.todo = Tail(o.todo)
    /\ Steps(o.todo) = {Head(o.todo)} \cup Steps(o2.todo)
    /\ Names(o.todo) = {HeadOf(o.todo)} \cup Names(o2.todo)
    /\ Names(o2.todo) \cap Firsts = {} /\ HeadOf(o2.todo) \notin Firsts /\ ~Undoes(o2)
    /\ \A b \in Steps(o2.todo) : Before(Head(o.todo), b)
    /\ HeadOf(o.todo) \notin {"write", "finish"} =>
         o2.todo = <<>> \/ Head(o2.todo) # <<"ckpt", TRUE>>
    /\ HeadOf(o.todo) \in {"close", "throw"} => o2.todo = <<>>

\* The order is kept as an operation goes on,
LEMMA OrderGoing ==
  ASSUME NEW o, OpShape(o), NEW st, NEW ac, OrderShape(o, st, ac), o.todo # <<>>,
         NEW o2, o2 = Going(o, Tail(o.todo))
  PROVE  Popping(o, o2, st, ac)
PROOF
<1>1. Script(o.todo) /\ o.todo \in Seq(Step)
  BY DEF OpShape, Script
<1>2. PICK t : t = Tail(o.todo)
  OBVIOUS
<1>3. /\ t \in Seq(Step) /\ Steps(o.todo) = {Head(o.todo)} \cup Steps(t)
      /\ Ordered(t) /\ \A b \in Steps(t) : Before(Head(o.todo), b)
      /\ t # <<>> => Head(t) = o.todo[2] /\ Head(t) \in Steps(t) /\ Len(o.todo) >= 2
      /\ Len(o.todo) >= 2 => t # <<>>
  BY <1>1, <1>2, StepsRest DEF OrderShape
<1>4. OpShape(o2) /\ o2.todo = t /\ o2.onFail \in {o.onFail, <<>>}
      /\ (t # <<>> => o2 = [o EXCEPT !.todo = t])
  BY <1>1, <1>2, Rest, WentOn DEF Going
<1>5. Names(t) \subseteq Names(o.todo) \ Firsts /\ HeadOf(t) \notin Firsts
  BY <1>2, <1>4, Advanced
<1>6. HeadOf(o.todo) = Head(o.todo)[1]
  BY DEF HeadOf
<1>7. Names(o.todo) = {HeadOf(o.todo)} \cup Names(t)
  <2>1. Kinds({Head(o.todo)} \cup Steps(t)) = {Head(o.todo)[1]} \cup Kinds(Steps(t))
    BY DEF Kinds
  <2> QED
    BY <2>1, <1>3, <1>6, KindsAre
<1>8. ~Undoes(o2)
  BY <1>4, <1>5 DEF Undoes, Firsts
<1>9. HeadOf(o.todo) \notin {"write", "finish"} => t = <<>> \/ Head(t) # <<"ckpt", TRUE>>
  BY <1>3, <1>6 DEF Before
<1>10. HeadOf(o.todo) \in {"close", "throw"} => t = <<>>
  BY <1>3, <1>6 DEF Before
<1>12. OrderShape(o2, st, ac)
  <2>1. Ordered(o2.todo) /\ Ordered(o2.onFail)
    BY <1>3, <1>4, ShortLists DEF OrderShape
  <2>2. /\ <<"ckpt", TRUE>> \notin Steps(o2.onFail)
        /\ Names(o2.onFail) \cap {"ctor", "close", "segment", "cfs"} = {}
    BY <1>4, ShortLists, Literals DEF OrderShape
  <2>3. "ctor" \in Names(t) => st = "opening"
    BY <1>5 DEF OrderShape
  <2>4. HeadOf(t) \notin {"write", "finish"}
    BY <1>5 DEF Firsts
  <2>5. "segment" \in Names(t) => o2.pausing
    <3>1. t = <<>> => Names(t) = {}
      BY Literals
    <3>2. t # <<>> => o2.pausing = o.pausing
      BY <1>4 DEF OpShape
    <3> QED
      BY <1>5, <3>1, <3>2 DEF OrderShape
  <2>6. ~ac /\ <<"ckpt", TRUE>> \in Steps(t) => "close" \in Names(t)
    <3>1. SUFFICES ASSUME ~ac, <<"ckpt", TRUE>> \in Steps(t)
                   PROVE  "close" \in Names(t)
      OBVIOUS
    <3>2. "close" \in Names(o.todo) /\ t # <<>>
      BY <3>1, <1>3, ShortLists DEF OrderShape
    <3>3. HeadOf(o.todo) # "close"
      BY <3>2, <1>10
    <3> QED
      BY <3>2, <3>3, <1>7
  <2> QED
    BY <1>4, <2>1, <2>2, <2>3, <2>4, <2>5, <2>6 DEF OrderShape
<1> QED
  BY <1>2, <1>3, <1>4, <1>5, <1>7, <1>8, <1>9, <1>10, <1>12 DEF Popping

LEMMA OrderWritten ==
  ASSUME NEW o, OpShape(o), NEW st, NEW ac, OrderShape(o, st, ac),
         HeadOf(o.todo) \in {"write", "finish"}
  PROVE  /\ o.todo # <<>> /\ Tail(o.todo) # <<>>
         /\ st = "opening" => Head(Tail(o.todo)) = <<"ctor">>
         /\ st # "opening" => Head(Tail(o.todo)) = <<"ckpt", TRUE>>
PROOF
<1>1. o.todo \in Seq(Step) /\ o.todo # <<>>
  BY DEF OpShape, Script, HeadOf
<1>2. /\ Tail(o.todo) # <<>> => Head(Tail(o.todo)) = o.todo[2]
      /\ Len(o.todo) >= 2 => Tail(o.todo) # <<>>
  BY <1>1, StepsRest
<1>3. Tail(o.todo) # <<>> /\ Head(Tail(o.todo)) = o.todo[2]
  BY <1>2 DEF OrderShape
<1>4. st = "opening" => o.todo[2] = <<"ctor">>
  BY DEF OrderShape
<1>5. st # "opening" => o.todo[2] = <<"ckpt", TRUE>>
  BY DEF OrderShape
<1> QED
  BY <1>1, <1>3, <1>4, <1>5

\* and as it takes another turn or begins.
LEMMA OrderNew ==
  ASSUME NEW o2, NEW st, NEW ac, o2.todo \in Seq(Step),
         Ordered(o2.todo), Ordered(o2.onFail),
         <<"ckpt", TRUE>> \notin Steps(o2.onFail),
         Names(o2.onFail) \cap {"ctor", "close", "segment", "cfs"} = {},
         Names(o2.todo) \cap {"ctor", "write", "finish"} = {},
         <<"ckpt", TRUE>> \notin Steps(o2.todo),
         "segment" \in Names(o2.todo) => o2.pausing
  PROVE  OrderShape(o2, st, ac)
PROOF
<1>1. HeadOf(o2.todo) \notin {"write", "finish"}
  BY HeadName
<1> QED
  BY <1>1 DEF OrderShape

LEMMA OrderBegun ==
  ASSUME NEW steps \in Seq(Step), Ordered(steps), Names(steps) \cap {"ctor", "write", "finish"} = {},
         <<"ckpt", TRUE>> \notin Steps(steps),
         NEW p, "segment" \in Names(steps) => p,
         NEW is, NEW o2, o2 = [todo |-> steps, undo |-> is, onFail |-> <<>>, pausing |-> p],
         NEW st, NEW ac
  PROVE  OrderShape(o2, st, ac)
PROOF
<1>1. Ordered(<<>>) /\ Steps(<<>>) = {} /\ Names(<<>>) = {}
  BY ShortLists, Literals
<1> QED
  BY <1>1, OrderNew

LEMMA OrderTurned ==
  ASSUME NEW o, OpShape(o), NEW st, NEW ac, OrderShape(o, st, ac),
         NEW steps, Script(steps), Ordered(steps),
         Names(steps) \cap {"ctor", "write", "finish", "segment"} = {},
         <<"ckpt", TRUE>> \notin Steps(steps), NEW o2, o2 = Going(o, steps)
  PROVE  OrderShape(o2, st, ac)
PROOF
<1>1. o2.todo = steps /\ o2.onFail \in {o.onFail, <<>>} /\ steps \in Seq(Step)
  BY WentOn DEF Script
<1>2. Ordered(<<>>) /\ Steps(<<>>) = {} /\ Names(<<>>) = {}
  BY ShortLists, Literals
<1>3. /\ Ordered(o2.onFail) /\ <<"ckpt", TRUE>> \notin Steps(o2.onFail)
      /\ Names(o2.onFail) \cap {"ctor", "close", "segment", "cfs"} = {}
  BY <1>1, <1>2 DEF OrderShape
<1> QED
  BY <1>1, <1>3, OrderNew

\* A checkpoint and what comes after it.
LEMMA OrderCommitting ==
  ASSUME NEW t \in Seq(Step), Ordered(t),
         Names(t) \cap {"ckpt", "ctor", "write", "finish", "segment", "close"} = {},
         NEW f \in Seq(Step), Ordered(f), <<"ckpt", TRUE>> \notin Steps(f),
         Names(f) \cap {"ctor", "close", "segment", "cfs"} = {},
         NEW o2, o2.todo = CommitSteps \o t, o2.onFail = f,
         NEW st, st # "opening"
  PROVE  /\ OrderShape(o2, st, autoCommit) /\ "ckpt" \in Names(o2.todo)
         /\ o2.todo # <<>> /\ Head(o2.todo) # <<"ckpt", TRUE>>
         /\ Steps(o2.todo) = Steps(CommitSteps) \cup Steps(t)
         /\ Steps(CommitSteps) \subseteq {<<"write">>, <<"ckpt", TRUE>>, <<"ckpt", FALSE>>}
         /\ Names(o2.todo) \subseteq {"write", "ckpt"} \cup Names(t)
         /\ HeadOf(o2.todo) \in {"write", "ckpt"}
         /\ HeadOf(o2.todo) = "write" <=> autoCommit
PROOF
<1>1. PICK c : c = CommitSteps
  OBVIOUS
<1>2. c \in Seq(Step) /\ c # <<>>
  BY <1>1, CommitScript DEF Script
<1>3. CASE autoCommit
  <2>1. c = <<<<"write">>, <<"ckpt", TRUE>>>>
    BY <1>1, <1>3 DEF CommitSteps
  <2>2. Before(<<"write">>, <<"ckpt", TRUE>>)
    BY DEF Before
  <2>3. Steps(c) = {<<"write">>, <<"ckpt", TRUE>>} /\ Ordered(c)
    BY <2>1, <2>2, ShortLists
  <2>4. \A b \in Steps(t) : b[1] \in Names(t)
    BY KindsAre DEF Kinds
  <2>5. \A b \in Steps(t) : b # <<"ckpt", TRUE>>
    <3>1. <<"ckpt", TRUE>>[1] = "ckpt"
      OBVIOUS
    <3> QED
      BY <2>4, <3>1
  <2>6. ASSUME NEW a \in Steps(c), NEW b \in Steps(t)
        PROVE  Before(a, b)
    <3>0. /\ <<"write">>[1] = "write" /\ <<"ckpt", TRUE>>[1] = "ckpt"
          /\ <<"ckpt", FALSE>>[1] = "ckpt"
      OBVIOUS
    <3>1. a[1] \in {"write", "ckpt"}
      BY <2>3, <3>0
    <3>2. b[1] \notin {"ckpt", "ctor", "segment", "close"} /\ b # <<"ckpt", TRUE>>
      BY <2>4, <2>5
    <3> QED
      BY <3>1, <3>2 DEF Before
  <2>7. PICK s : s = c \o t
    OBVIOUS
  <2>8. /\ Steps(s) = Steps(c) \cup Steps(t) /\ Ordered(s)
        /\ HeadOf(s) = HeadOf(c) /\ Head(s) = Head(c) /\ s # <<>>
    BY <2>3, <2>6, <2>7, <1>2, StepsJoin DEF OrderShape
  <2>9. HeadOf(c) = "write" /\ Head(c) # <<"ckpt", TRUE>>
    <3>1. Head(c) = <<"write">> /\ <<"write">>[1] = "write" /\ <<"ckpt", TRUE>>[1] = "ckpt"
      BY <2>1
    <3> QED
      BY <3>1, <1>2 DEF HeadOf
  <2>10. Names(s) = {"write", "ckpt"} \cup Names(t)
    <3>1. Kinds(Steps(c) \cup Steps(t)) = Kinds(Steps(c)) \cup Kinds(Steps(t))
      BY DEF Kinds
    <3>2. Kinds(Steps(c)) = {"write", "ckpt"}
      BY <2>3 DEF Kinds
    <3> QED
      BY <3>1, <3>2, <2>8, KindsAre
  <2>11. Len(s) >= 2 /\ s[2] = <<"ckpt", TRUE>>
    <3>1. Len(c) = 2 /\ c[2] = <<"ckpt", TRUE>>
      BY <2>1
    <3>2. PICK n \in Nat : n = Len(t)
      OBVIOUS
    <3>3. /\ Len(s) = Len(c) + Len(t)
          /\ \A i \in 1..(Len(c) + Len(t)) : s[i] = IF i <= Len(c) THEN c[i] ELSE t[i - Len(c)]
      BY ONLY <2>7, <1>2, t \in Seq(Step), ConcatProperties
    <3>4. 2 \in 1..(Len(c) + Len(t)) /\ 2 <= Len(c) /\ Len(c) + Len(t) >= 2
      BY <3>1, <3>2
    <3>5. s[2] = c[2]
      BY <3>3, <3>4
    <3> QED
      BY <3>1, <3>3, <3>4, <3>5
  <2>12. OrderShape(o2, st, autoCommit)
    BY <1>1, <1>3, <2>7, <2>8, <2>9, <2>10, <2>11 DEF OrderShape
  <2> QED
    BY <1>1, <1>3, <2>3, <2>7, <2>8, <2>9, <2>10, <2>12
<1>4. CASE ~autoCommit
  <2>1. c = <<<<"ckpt", FALSE>>>>
    BY <1>1, <1>4 DEF CommitSteps
  <2>3. Steps(c) = {<<"ckpt", FALSE>>} /\ Ordered(c)
    BY <2>1, ShortLists
  <2>4. \A b \in Steps(t) : b[1] \in Names(t)
    BY KindsAre DEF Kinds
  <2>5. \A b \in Steps(t) : b # <<"ckpt", TRUE>>
    <3>1. <<"ckpt", TRUE>>[1] = "ckpt"
      OBVIOUS
    <3> QED
      BY <2>4, <3>1
  <2>6. ASSUME NEW a \in Steps(c), NEW b \in Steps(t)
        PROVE  Before(a, b)
    <3>0. /\ <<"write">>[1] = "write" /\ <<"ckpt", TRUE>>[1] = "ckpt"
          /\ <<"ckpt", FALSE>>[1] = "ckpt"
      OBVIOUS
    <3>1. a[1] \in {"write", "ckpt"}
      BY <2>3, <3>0
    <3>2. b[1] \notin {"ckpt", "ctor", "segment", "close"} /\ b # <<"ckpt", TRUE>>
      BY <2>4, <2>5
    <3> QED
      BY <3>1, <3>2 DEF Before
  <2>7. PICK s : s = c \o t
    OBVIOUS
  <2>8. /\ Steps(s) = Steps(c) \cup Steps(t) /\ Ordered(s)
        /\ HeadOf(s) = HeadOf(c) /\ Head(s) = Head(c) /\ s # <<>>
    BY <2>3, <2>6, <2>7, <1>2, StepsJoin DEF OrderShape
  <2>9. HeadOf(c) = "ckpt" /\ Head(c) # <<"ckpt", TRUE>>
    <3>0. PICK a : a = <<"ckpt", FALSE>>
      OBVIOUS
    <3>1. Head(c) = a
      <4>1. c = <<a>>
        BY <2>1, <3>0
      <4>2. Head(<<a>>) = a
        OBVIOUS
      <4> QED
        BY <4>1, <4>2
    <3>2. a[1] = "ckpt" /\ a # <<"ckpt", TRUE>>
      BY <3>0
    <3> QED
      BY <3>1, <3>2, <1>2 DEF HeadOf
  <2>10. Names(s) = {"ckpt"} \cup Names(t)
    <3>1. Kinds(Steps(c) \cup Steps(t)) = Kinds(Steps(c)) \cup Kinds(Steps(t))
      BY DEF Kinds
    <3>2. Kinds(Steps(c)) = {"ckpt"}
      BY <2>3 DEF Kinds
    <3> QED
      BY <3>1, <3>2, <2>8, KindsAre
  <2>11. <<"ckpt", TRUE>> \notin Steps(s)
    BY <2>3, <2>5, <2>8
  <2>12. OrderShape(o2, st, autoCommit)
    BY <1>1, <2>7, <2>8, <2>9, <2>10, <2>11 DEF OrderShape
  <2> QED
    BY <1>1, <1>4, <2>3, <2>7, <2>8, <2>9, <2>10, <2>12
<1> QED
  BY <1>3, <1>4

-----------------------------------------------------------------------------
(* What the deleter knows, as part of the world.                           *)

\* What holders reference, in two parts.
LEMMA NamedParts ==
  ASSUME NEW C, NEW H, NEW fs
  PROVE  /\ D!Named(C \cup H, fs) = D!Named(C, fs) \cup UNION {D!Range(h.files) : h \in H}
         /\ D!Named(C, fs) \subseteq D!Named(C \cup H, fs)
PROOF
  BY DEF D!Named

\* The world of a state, and of the next.
LEMMA WorldIs ==
  /\ World.safe = dir /\ World.base = D!Named(commits, last) /\ World.ref = D!Referenced
  /\ World.held = held /\ World.counter = counter /\ World.buf = buf /\ World.merge = merge
  /\ World.status = status
  /\ World'.safe = dir' /\ World'.base = D!Named(commits', last')
  /\ World'.ref = (D!Referenced)'
  /\ World'.held = held' /\ World'.counter = counter' /\ World'.buf = buf'
  /\ World'.merge = merge' /\ World'.status = status'
PROOF
  BY DEF World

LEMMA ReferencedIs ==
  /\ D!Referenced = D!Named(commits \cup held, last)
  /\ (D!Referenced)' = D!Named(commits' \cup held', last')
PROOF
  BY DEF D!Referenced, D!Holders

\* What FInv and the deleter's invariant say of the deleter.
LEMMA DeleterKnows ==
  ASSUME IInv, FInv, DP!IInv
  PROVE  /\ D!Named(commits, last) \subseteq D!Referenced
         /\ D!Referenced = D!Named(commits, last) \cup UNION {D!Range(h.files) : h \in held}
         /\ Up => D!Referenced \subseteq dir
         /\ D!Referenced \subseteq dir
         /\ ~Up => commits = {} /\ held = {} /\ last = <<>> /\ D!Referenced = {}
         /\ pinned = {} /\ deletable = {} /\ Busy = {}
         /\ Unreg # 0 => Up /\ D!Newest(Unreg) /\ SegmentsFile(Unreg) \notin D!Referenced
PROOF
<1>1. /\ D!Named(commits, last) \subseteq D!Referenced
      /\ D!Referenced = D!Named(commits, last) \cup UNION {D!Range(h.files) : h \in held}
  BY NamedParts, ReferencedIs
<1>2. Up => D!Referenced \subseteq dir
  BY SameNames DEF DP!IInv, DP!Accounts, DP!Protected
<1>3. ~Up => commits = {} /\ held = {} /\ last = <<>>
  BY DEF DP!IInv, DP!Down
<1>4. D!Named({}, <<>>) = {}
  BY DEF D!Named, D!Range
<1>5. ~Up => D!Referenced = {}
  BY <1>3, <1>4, ReferencedIs
<1>6. Unreg # 0 => Up /\ D!Newest(Unreg) /\ SegmentsFile(Unreg) \notin D!Referenced
  BY SameNames, SameCommits DEF DP!IInv, DP!Fresh
<1> QED
  BY <1>1, <1>2, <1>3, <1>5, <1>6 DEF FInv, Clean, Busy

-----------------------------------------------------------------------------
(* Files and their kinds.                                                  *)

\* A file's kind and segment.
LEMMA Fields ==
  ASSUME NEW n, NEW g
  PROVE  /\ Core(n)[1] = "core" /\ Core(n)[2] = n
         /\ Cfs(n)[1] = "cfs" /\ Cfs(n)[2] = n
         /\ Store(n)[1] = "store" /\ Store(n)[2] = n
         /\ Cfx(n)[1] = "cfx" /\ Cfx(n)[2] = n
         /\ Del(n, g)[1] = "del" /\ Del(n, g)[2] = n
         /\ SegmentsFile(g)[1] = "segments"
PROOF
  BY DEF Core, Cfs, Store, Cfx, Del, SegmentsFile

\* What file of a segment has which kind.
LEMMA FileSetKinds ==
  ASSUME NEW s, NEW f \in FileSet(s)
  PROVE  /\ f[1] \in {"core", "cfs", "store", "cfx", "del"}
         /\ f[1] = "core" => ~s.cfs
         /\ f[1] = "cfs" => s.cfs /\ f = Cfs(s.name)
         /\ f[1] = "cfx" => s.storeCfs /\ s.store # None /\ f = Cfx(s.store)
         /\ f[1] = "store" => \/ s.store # None /\ ~s.storeCfs /\ f = Store(s.store)
                              \/ s.store = None /\ ~s.cfs /\ f = Store(s.name)
         /\ f[1] \in {"core", "cfs", "del"} => f[2] = s.name
         /\ f[2] = s.name \/ (s.store # None /\ f[2] = s.store)
PROOF
<1>1. PICK a : a = IF s.cfs THEN Cfs(s.name) ELSE Core(s.name)
  OBVIOUS
<1>2. PICK b : b = IF s.storeCfs THEN Cfx(s.store) ELSE Store(s.store)
  OBVIOUS
<1>3. PICK c : c = Del(s.name, s.delGen)
  OBVIOUS
<1>4. PICK t : t = Store(s.name)
  OBVIOUS
<1>5. \/ f = a
      \/ s.store # None /\ f = b
      \/ s.store = None /\ ~s.cfs /\ f = t
      \/ f = c
  BY <1>1, <1>2, <1>3, <1>4 DEF FileSet
<1>6. /\ c[1] = "del" /\ c[2] = s.name /\ t[1] = "store" /\ t[2] = s.name
  BY <1>3, <1>4, Fields
<1>7. /\ s.cfs => a[1] = "cfs" /\ a[2] = s.name /\ a = Cfs(s.name)
      /\ ~s.cfs => a[1] = "core" /\ a[2] = s.name
  BY <1>1, Fields
<1>8. /\ s.storeCfs => b[1] = "cfx" /\ b[2] = s.store /\ b = Cfx(s.store)
      /\ ~s.storeCfs => b[1] = "store" /\ b[2] = s.store /\ b = Store(s.store)
  BY <1>2, Fields
<1> QED
  BY <1>4, <1>5, <1>6, <1>7, <1>8

\* The files of a list of segments.
LEMMA FilesKinds ==
  ASSUME NEW is, NEW n, ListOK(is, n)
  PROVE  /\ \A i \in DOMAIN is : FileSet(is[i]) \subseteq FilesIn(is)
         /\ \A f \in FilesIn(is) : \E i \in DOMAIN is : f \in FileSet(is[i])
         /\ \A f \in FilesIn(is) : f[1] # "segments"
         /\ \A m : Cfs(m) \in FilesIn(is) =>
              \E i \in DOMAIN is : is[i].name = m /\ is[i].cfs
         /\ \A m : Cfx(m) \in FilesIn(is) =>
              \E i \in DOMAIN is : is[i].store = m /\ m # None /\ is[i].storeCfs
         /\ \A f \in FilesIn(is) :
              \E i \in DOMAIN is : f[2] = is[i].name \/ (is[i].store # None /\ f[2] = is[i].store)
PROOF
<1>1. FilesIn(is) = UNION {FileSet(is[i]) : i \in DOMAIN is}
  BY VectorsOfFiles
<1>2. \A i \in DOMAIN is : FileSet(is[i]) \subseteq FilesIn(is)
  BY <1>1
<1>3. \A f \in FilesIn(is) : \E i \in DOMAIN is : f \in FileSet(is[i])
  BY <1>1
<1>4. \A f \in FilesIn(is) : f[1] # "segments"
  BY <1>3, FileSetKinds
<1>5. ASSUME NEW m, Cfs(m) \in FilesIn(is)
      PROVE  \E i \in DOMAIN is : is[i].name = m /\ is[i].cfs
  <2>1. PICK i \in DOMAIN is : Cfs(m) \in FileSet(is[i])
    BY <1>3, <1>5
  <2>2. is[i].cfs /\ Cfs(m)[2] = is[i].name
    BY <2>1, FileSetKinds, Fields
  <2> QED
    BY <2>2, Fields
<1>6. ASSUME NEW m, Cfx(m) \in FilesIn(is)
      PROVE  \E i \in DOMAIN is : is[i].store = m /\ m # None /\ is[i].storeCfs
  <2>1. PICK i \in DOMAIN is : Cfx(m) \in FileSet(is[i])
    BY <1>3, <1>6
  <2>2. is[i].storeCfs /\ is[i].store # None /\ Cfx(m) = Cfx(is[i].store)
    BY <2>1, FileSetKinds, Fields
  <2>3. m = is[i].store
    BY <2>2, Fields
  <2> QED
    BY <2>2, <2>3
<1>7. \A f \in FilesIn(is) :
        \E i \in DOMAIN is : f[2] = is[i].name \/ (is[i].store # None /\ f[2] = is[i].store)
  BY <1>3, FileSetKinds
<1> QED
  BY <1>2, <1>3, <1>4, <1>5, <1>6, <1>7

\* The fields of its segments.
LEMMA ListTypes ==
  ASSUME NEW is, NEW n, ListOK(is, n), NEW i \in DOMAIN is
  PROVE  /\ is[i] \in SegmentInfos /\ is[i].name \in Name /\ is[i].name < n
         /\ is[i].store \in Name \cup {None} /\ is[i].store \in Int /\ is[i].name \in Nat
PROOF
<1>1. is[i] \in SegmentInfos /\ is[i].name < n
  BY DEF ListOK
<1>2. is[i].name \in Name /\ is[i].store \in Name \cup {None}
  BY <1>1 DEF SegmentInfos
<1> QED
  BY <1>1, <1>2 DEF Name, None

\* A list's files have names below n when its stores have.
LEMMA FilesBelow ==
  ASSUME NEW is, NEW n \in Nat, ListOK(is, n), \A i \in DOMAIN is : is[i].store < n
  PROVE  \A f \in FilesIn(is) : f[2] < n
PROOF
<1>1. SUFFICES ASSUME NEW f \in FilesIn(is) PROVE f[2] < n
  OBVIOUS
<1>2. PICK i \in DOMAIN is : f[2] = is[i].name \/ (is[i].store # None /\ f[2] = is[i].store)
  BY <1>1, FilesKinds
<1>3. is[i].name < n /\ is[i].store < n
  BY DEF ListOK
<1> QED
  BY <1>2, <1>3

-----------------------------------------------------------------------------
(* Lists of segments in a world that changes.                              *)

\* After a step of the operation: S2 is left of the steps S.
LEMMA Popped ==
  ASSUME NEW is, NEW S, NEW w, Sound(is, S, w), NEW S2, NEW w2,
         w2.buf = w.buf, w2.merge = w.merge, w2.counter = w.counter, w2.status = w.status,
         S2 \subseteq S \cup {<<"finish">>},
         \A a \in S \ S2 : a[1] \notin {"stores", "merged"},
         \A a \in S2 : a[1] # "stores",
         FilesIn(is) \subseteq w2.safe,
         w2.status \notin {"closed", "opening"} /\ "ckpt" \notin Kinds(S2) =>
           FilesIn(is) \subseteq w2.base,
         \A f \in w2.ref : f \in w.ref \cup FilesIn(is) \/ f[1] \notin {"cfs", "cfx", "del"},
         w2.merge.stage = "compound" /\ "merged" \notin Kinds(S2) =>
           Cfs(w2.merge.out.name) \in w2.safe,
         w2.held # {} => Writing(w2.merge) \/ "release" \in Kinds(S2),
         "ckpt" \notin Kinds(S2) /\ w.buf.store # None
           /\ ("ckpt" \in Kinds(S) \/ Store(w.buf.store) \in w.base) =>
           Store(w.buf.store) \in w2.base,
         \A a \in S2 : a[1] = "segment" /\ a[3] # None =>
           (IF a[4] THEN Cfx(a[3]) ELSE Store(a[3])) \in w2.safe
  PROVE  Sound(is, S2, w2)
PROOF
<1>0. \A a \in S2 : a \in S \/ a = <<"finish">>
  OBVIOUS
<1>1. \A k : k \in Kinds(S2) => k \in Kinds(S) \/ k = "finish"
  <2>1. <<"finish">>[1] = "finish"
    OBVIOUS
  <2> QED
    BY <1>0, <2>1 DEF Kinds
<1>2. "merged" \notin Kinds(S2) => "merged" \notin Kinds(S)
  BY DEF Kinds
<1>3. "stores" \notin Kinds(S)
  BY DEF Kinds
<1>4. Alone(w2.merge, S2) => Alone(w.merge, S)
  <2>1. <<"merged", "committed">> # <<"finish">>
    <3>1. <<"merged", "committed">>[1] = "merged" /\ <<"finish">>[1] = "finish"
      OBVIOUS
    <3> QED
      BY <3>1
  <2> QED
    BY <1>0, <1>2, <2>1 DEF Alone
<1>5. \A n : /\ Cfs(n) \notin w.ref \cup FilesIn(is) => Cfs(n) \notin w2.ref \cup FilesIn(is)
             /\ Cfx(n) \notin w.ref \cup FilesIn(is) => Cfx(n) \notin w2.ref \cup FilesIn(is)
  BY Fields
<1>6. FilesSound(is, S2, w2)
  BY <1>4, <1>5 DEF Sound, FilesSound
<1>7. ASSUME NEW a \in S2, a \in S
      PROVE  Ready(a, S2, is, w2)
  <2>0. Ready(a, S, is, w)
    BY <1>7 DEF Sound
  <2>1. a[1] # "stores"
    OBVIOUS
  <2>2. a[1] = "segment" => SegmentReady(a, S2, is, w2)
    <3>1. SUFFICES ASSUME a[1] = "segment" PROVE SegmentReady(a, S2, is, w2)
      OBVIOUS
    <3>2. SegmentReady(a, S, is, w)
      BY <2>0, <3>1 DEF Ready
    <3>3. "stores" \notin Kinds(S2)
      BY DEF Kinds
    <3>4. a[3] # None => (IF a[4] THEN Cfx(a[3]) ELSE Store(a[3])) \in w2.safe
      BY <3>1
    <3>5. "ckpt" \in Kinds(S2) => "ckpt" \in Kinds(S)
      BY <1>1
    <3>6. ASSUME "ckpt" \in Kinds(S2)
          PROVE  a[4] /\ (Cfx(a[3]) \in FilesIn(is) \/ Cfx(a[3]) \notin w2.ref)
      BY <1>3, <1>5, <3>2, <3>5, <3>6 DEF SegmentReady
    <3> QED
      BY <1>3, <3>2, <3>3, <3>4, <3>6 DEF SegmentReady
  <2>3. a[1] = "cfs" =>
         /\ Cfs(a[2]) \notin w2.ref \cup FilesIn(is)
         /\ Alone(w2.merge, S2) => a[2] # w2.merge.out.name
    BY <1>4, <1>5, <2>0 DEF Ready
  <2>4. ASSUME a[1] = "delete" PROVE DropReady(a[2], S2, is, w2)
    <3>1. DropReady(a[2], S, is, w)
      BY <2>0, <2>4 DEF Ready
    <3> QED
      <4>1. ASSUME NEW f \in a[2], f[1] = "del", f \notin w.ref \cup FilesIn(is)
            PROVE  f \notin w2.ref \cup FilesIn(is)
        BY <4>1
      <4> QED
        BY <3>1, <4>1, <1>4, <1>5 DEF DropReady
  <2>5. a[1] = "new" =>
         \E n \in Name : /\ a[2] = {Store(n)}
                         /\ n < w2.counter /\ n # w2.buf.store
                         /\ Writing(w2.merge) => n # w2.merge.out.name
    BY <2>0 DEF Ready
  <2>6. a[1] = "refresh" => RefreshReady(a[2], S2, w2)
    <3>1. SUFFICES ASSUME a[1] = "refresh" PROVE RefreshReady(a[2], S2, w2)
      OBVIOUS
    <3>2. RefreshReady(a[2], S, w)
      BY <2>0, <3>1 DEF Ready
    <3>3. CASE a[2] = None
      BY <3>2, <3>3 DEF RefreshReady
    <3>4. CASE a[2] # None
      <4>1. /\ a[2] < w.counter
            /\ Writing(w.merge) \/ Alone(w.merge, S) => a[2] # w.merge.out.name
            /\ w.buf.store = a[2] /\ "ckpt" \notin Kinds(S) => Store(a[2]) \in w.base
        BY <3>2, <3>4 DEF RefreshReady
      <4>2. ASSUME w2.buf.store = a[2], "ckpt" \notin Kinds(S2)
            PROVE  Store(a[2]) \in w2.base
        BY <4>1, <4>2, <3>4
      <4> QED
        BY <3>4, <4>1, <4>2, <1>4 DEF RefreshReady
    <3> QED
      BY <3>3, <3>4
  <2>7. (a[1] = "release" => w2.merge.stage = "ending") /\ (a[1] = "close" => w2.merge.stage = "none")
    BY <2>0 DEF Ready
  <2> QED
    BY <2>1, <2>2, <2>3, <2>4, <2>5, <2>6, <2>7 DEF Ready
<1>8. Ready(<<"finish">>, S2, is, w2)
  <2>1. PICK a : a = <<"finish">>
    OBVIOUS
  <2>2. a[1] = "finish"
    BY <2>1
  <2>3. Ready(a, S2, is, w2)
    BY <2>2 DEF Ready
  <2> QED
    BY <2>1, <2>3
<1> QED
  BY <1>0, <1>6, <1>7, <1>8 DEF Sound

\* While the operation stands still, documents are buffered or the merge goes on.
LEMMA Aside ==
  ASSUME NEW is, NEW S, NEW w, Sound(is, S, w), NEW w2,
         w.counter \in Nat, w2.counter \in Nat, w.counter <= w2.counter,
         ListOK(is, w.counter), \A a \in S : a \in Step,
         w2.base = w.base, w2.ref = w.ref, w2.held = w.held, w.safe \subseteq w2.safe,
         w2.status \notin {"closed", "opening"} => w.status \notin {"closed", "opening"},
         w.status = "aborted" => w2.status = "aborted",
         Writing(w2.merge) <=> Writing(w.merge),
         Writing(w.merge) => w2.merge.out.name = w.merge.out.name,
         Alone(w2.merge, S) => Alone(w.merge, S) /\ w2.merge.out.name = w.merge.out.name,
         w.merge.stage \in {"none", "ending"} => w2.merge.stage = w.merge.stage,
         w2.merge.stage = "compound" /\ "merged" \notin Kinds(S) =>
           Cfs(w2.merge.out.name) \in w2.safe,
         \/ /\ w2.buf.store = w.buf.store /\ w2.buf.seg = w.buf.seg
            /\ (w2.buf.docs = {} <=> w.buf.docs = {})
         \/ /\ "segment" \notin Kinds(S) /\ w.status # "aborted"
            /\ \/ w2.buf.store = w.buf.store
               \/ w.buf.store = None /\ w2.buf.store = w.counter
  PROVE  Sound(is, S, w2)
PROOF
<1>1. w2.buf.store # None /\ w2.buf.store # w.buf.store => w2.buf.store = w.counter
  OBVIOUS
<1>2. Cfx(w.counter) \notin FilesIn(is)
  <2>1. SUFFICES ASSUME Cfx(w.counter) \in FilesIn(is) PROVE FALSE
    OBVIOUS
  <2>2. PICK i \in DOMAIN is : is[i].store = w.counter
    BY <2>1, FilesKinds
  <2>3. is[i].store < w.counter
    BY DEF Sound, FilesSound
  <2> QED
    BY <2>2, <2>3
<1>3. FilesSound(is, S, w2)
  <2>0. FilesSound(is, S, w)
    BY DEF Sound
  <2>1. FilesIn(is) \subseteq w2.safe
    BY <2>0 DEF FilesSound
  <2>2. w2.status \notin {"closed", "opening"} /\ "ckpt" \notin Kinds(S) =>
         FilesIn(is) \subseteq w2.base
    BY <2>0 DEF FilesSound
  <2>3. ASSUME NEW i \in DOMAIN is
        PROVE  /\ is[i].store < w2.counter
               /\ Writing(w2.merge) => is[i].store # w2.merge.out.name
    <3>1. is[i].store < w.counter /\ (Writing(w.merge) => is[i].store # w.merge.out.name)
      BY <2>0 DEF FilesSound
    <3>2. is[i].store \in Int
      BY ListTypes
    <3>3. is[i].store < w2.counter
      BY <3>1, <3>2
    <3> QED
      BY <3>1, <3>3
  <2>4. w2.buf.store # None => Cfx(w2.buf.store) \notin FilesIn(is)
    BY <1>1, <1>2, <2>0 DEF FilesSound
  <2>5. Alone(w2.merge, S) => Cfs(w2.merge.out.name) \notin w2.ref \cup FilesIn(is)
    BY <2>0 DEF FilesSound
  <2> QED
    BY <2>1, <2>2, <2>3, <2>4, <2>5 DEF FilesSound
<1>4. ASSUME NEW a \in S PROVE Ready(a, S, is, w2)
  <2>0. Ready(a, S, is, w) /\ a \in Step
    BY DEF Sound
  <2>1. a[1] = "stores" => "segment" \in Kinds(S) /\ ("ckpt" \in Kinds(S) <=> UseCompound)
    BY <2>0 DEF Ready
  <2>2. a[1] = "segment" => SegmentReady(a, S, is, w2)
    <3>1. SUFFICES ASSUME a[1] = "segment" PROVE SegmentReady(a, S, is, w2)
      OBVIOUS
    <3>2. "segment" \in Kinds(S)
      BY <3>1 DEF Kinds
    <3>3. SegmentReady(a, S, is, w)
      BY <2>0, <3>1 DEF Ready
    <3>4. /\ w2.buf.store = w.buf.store /\ w2.buf.seg = w.buf.seg
          /\ (w2.buf.docs = {} <=> w.buf.docs = {})
      BY <3>2
    <3>5. a[3] \in Int
      BY <2>0, <3>1 DEF Step, Name, None
    <3>6. a[3] < w2.counter
      BY <3>3, <3>5 DEF SegmentReady
    <3> QED
      BY <3>3, <3>4, <3>6 DEF SegmentReady
  <2>3. a[1] = "cfs" =>
         /\ Cfs(a[2]) \notin w2.ref \cup FilesIn(is)
         /\ Alone(w2.merge, S) => a[2] # w2.merge.out.name
    BY <2>0 DEF Ready
  <2>4. a[1] = "delete" => DropReady(a[2], S, is, w2)
    BY <2>0 DEF Ready, DropReady
  <2>5. ASSUME a[1] = "new"
        PROVE  \E n \in Name : /\ a[2] = {Store(n)}
                               /\ n < w2.counter /\ n # w2.buf.store
                               /\ Writing(w2.merge) => n # w2.merge.out.name
    <3>1. PICK n \in Name : /\ a[2] = {Store(n)}
                            /\ n < w.counter /\ n # w.buf.store
                            /\ Writing(w.merge) => n # w.merge.out.name
      BY <2>0, <2>5 DEF Ready
    <3>2. n < w2.counter /\ n # w.counter
      BY <3>1 DEF Name
    <3> QED
      BY <3>1, <3>2
  <2>6. a[1] = "refresh" => RefreshReady(a[2], S, w2)
    <3>1. SUFFICES ASSUME a[1] = "refresh" PROVE RefreshReady(a[2], S, w2)
      OBVIOUS
    <3>2. RefreshReady(a[2], S, w)
      BY <2>0, <3>1 DEF Ready
    <3>3. CASE a[2] = None
      <4>1. w.status = "aborted" /\ w.merge.stage = "none" /\ w.buf.store = None
        BY <3>2, <3>3 DEF RefreshReady
      <4> QED
        BY <3>3, <4>1 DEF RefreshReady
    <3>4. CASE a[2] # None
      <4>1. /\ a[2] < w.counter
            /\ Writing(w.merge) \/ Alone(w.merge, S) => a[2] # w.merge.out.name
            /\ w.buf.store = a[2] /\ "ckpt" \notin Kinds(S) => Store(a[2]) \in w.base
        BY <3>2, <3>4 DEF RefreshReady
      <4>2. a[2] \in Name
        BY <2>0, <3>1, <3>4 DEF Step
      <4>3. a[2] < w2.counter /\ a[2] # w.counter
        BY <4>1, <4>2 DEF Name
      <4>4. w2.buf.store = a[2] => w.buf.store = a[2]
        BY <4>3, <3>4, <1>1
      <4> QED
        BY <3>4, <4>1, <4>3, <4>4 DEF RefreshReady
    <3> QED
      BY <3>3, <3>4
  <2>7. (a[1] = "release" => w2.merge.stage = "ending") /\ (a[1] = "close" => w2.merge.stage = "none")
    BY <2>0 DEF Ready
  <2> QED
    BY <2>1, <2>2, <2>3, <2>4, <2>5, <2>6, <2>7 DEF Ready
<1>5. w2.held # {} => Writing(w2.merge) \/ "release" \in Kinds(S)
  BY DEF Sound
<1> QED
  BY <1>3, <1>4, <1>5 DEF Sound

\* The buffer,
LEMMA BufStill ==
  ASSUME NEW S, NEW w, BufSoundIn(S, w), NEW S2, NEW w2,
         w.counter \in Nat, w2.counter \in Nat, w.counter <= w2.counter,
         w.buf.store \in Name \cup {None},
         w2.buf.store = w.buf.store, w2.buf.seg = w.buf.seg, w2.buf.docs = w.buf.docs,
         "segment" \in Kinds(S) /\ w.buf.docs # {} => "segment" \in Kinds(S2) \/ w.buf.store # None,
         w.buf.store # None => /\ Store(w.buf.store) \in w2.safe
                               /\ Store(w.buf.store) \in w2.ref => Store(w.buf.store) \in w2.base
                               /\ Cfx(w.buf.store) \in w2.ref => Cfx(w.buf.store) \in w.ref,
         w.buf.seg # None => (Cfs(w.buf.seg) \in w2.ref => Cfs(w.buf.seg) \in w.ref)
  PROVE  BufSoundIn(S2, w2)
PROOF
<1>1. w2.buf.store < w2.counter
  BY DEF BufSoundIn, Name, None
<1> QED
  BY <1>1 DEF BufSoundIn

\* and the merge.
LEMMA MergeSoundStill ==
  ASSUME NEW is, NEW w, MergeSoundIn(is, w), NEW js, NEW w2,
         w.counter \in Nat, w2.counter \in Nat, w.counter <= w2.counter,
         w2.merge = w.merge, MergeShape(w.merge, w.counter, w.buf.seg),
         w2.buf.seg \in {w.buf.seg, None, w.counter},
         w2.buf.store \in {w.buf.store, None, w.counter},
         w2.held = w.held \/ (w2.held = {} /\ ~Writing(w.merge)),
         w.merge.stage = "init" /\ ~w.merge.stores =>
           \A i \in DOMAIN js : js[i].name = w.merge.clone[1].name => js[i].store # None,
         Writing(w.merge) =>
           \A f \in w2.ref : f \in w.ref \/ f[1] = "segments" \/ f[2] # w.merge.out.name,
         w.merge.stage = "built" =>
           /\ Core(w.merge.out.name) \in w2.safe
           /\ w.merge.stores => Store(w.merge.out.name) \in w2.safe
  PROVE  MergeSoundIn(js, w2)
PROOF
<1>1. PICK m : m = w.merge
  OBVIOUS
<1>2. ASSUME m.stage \notin {"none", "init"}
      PROVE  m.out.name < w2.counter /\ m.out.name \notin {w2.buf.seg, w2.buf.store}
  <2>1. m.out \in SegmentInfos
    BY <1>1, <1>2 DEF MergeShape
  <2>2. m.out.name \in Name
    BY <2>1 DEF SegmentInfos
  <2>3. m.out.name < w.counter /\ m.out.name \notin {w.buf.seg, w.buf.store}
    BY <1>1, <1>2 DEF MergeSoundIn
  <2>4. m.out.name < w2.counter /\ m.out.name # w.counter /\ m.out.name # None
    BY <2>2, <2>3 DEF Name, None
  <2> QED
    BY <2>3, <2>4
<1>3. ASSUME Writing(m)
      PROVE  /\ w2.held # {}
             /\ ~m.out.cfs /\ m.out.delGen = 0 /\ m.out.store < w2.counter
             /\ OutStore(m)
             /\ \A f \in w2.ref : f[1] = "segments" \/ f[2] # m.out.name
  <2>1. /\ w.held # {}
        /\ ~m.out.cfs /\ m.out.delGen = 0 /\ m.out.store < w.counter
        /\ OutStore(m)
        /\ \A f \in w.ref : f[1] = "segments" \/ f[2] # m.out.name
    BY <1>1, <1>3 DEF MergeSoundIn
  <2>2. m.out.store < w2.counter
    <3>1. m.out \in SegmentInfos
      BY <1>1, <1>3 DEF MergeShape, Writing
    <3>2. m.out.store \in Name \cup {None}
      BY <3>1 DEF SegmentInfos
    <3> QED
      BY <2>1, <3>2 DEF Name, None
  <2> QED
    BY <1>1, <1>3, <2>1, <2>2
<1>4. \A h \in w2.held : h = [kind |-> "held", id |-> "merge", files |-> InfosFiles(m.clone)]
  BY <1>1 DEF MergeSoundIn
<1>5. /\ m.stage = "init" /\ ~m.stores =>
             \A i \in DOMAIN js : js[i].name = m.clone[1].name => js[i].store # None
      /\ m.stage = "built" =>
             /\ Core(m.out.name) \in w2.safe
             /\ m.stores => Store(m.out.name) \in w2.safe
  BY <1>1
<1> QED
  BY <1>1, <1>2, <1>3, <1>4, <1>5 DEF MergeSoundIn

\* The segment of a file.
LEMMA FileNames ==
  ASSUME NEW f \in File, f[1] # "segments"
  PROVE  f[2] \in Name /\ f[2] \in Nat
PROOF
<1>1. \A g : SegmentsFile(g)[1] = "segments"
  BY Fields
<1>2. f \in ({"core", "cfs", "store", "cfx"} \X Name \X {0})
           \cup ({"del"} \X Name \X (1..(2 * Cardinality(Doc))))
  BY <1>1 DEF File
<1> QED
  BY <1>2 DEF Name

\* The deleter references files.
LEMMA ReferencedFiles ==
  ASSUME DP!IInv
  PROVE  D!Referenced \subseteq File
PROOF
<1>1. \A g \in Gen, fs \in Seq(File) :
        DP!Range(<<SegmentsFile(g)>> \o fs) = {SegmentsFile(g)} \cup DP!Range(fs)
  BY Generations, DP!CommitPointFiles DEF DP!Vector
<1>2. DP!TypeOK
  BY DEF DP!IInv
<1>3. ASSUME NEW c \in commits PROVE DP!Range(c.files) \subseteq File
  <2>1. c.id \in DOMAIN Stored /\ c = DP!CommitPoint(c.id) /\ c.id \in Gen
        /\ Stored[c.id].files \in Seq(File)
    BY <1>2, <1>3 DEF DP!TypeOK
  <2>2. c.files = <<SegmentsFile(c.id)>> \o Stored[c.id].files
    BY <2>1 DEF DP!CommitPoint
  <2>3. DP!Range(Stored[c.id].files) \subseteq File
    BY <2>1 DEF DP!Range
  <2> QED
    BY <1>1, <2>1, <2>2, <2>3, Generations
<1>4. \A h \in held : DP!Range(h.files) \subseteq File
  BY <1>2 DEF DP!TypeOK, DP!Range
<1>5. DP!Range(last) \subseteq File
  BY <1>2 DEF DP!TypeOK, DP!Range
<1> QED
  BY <1>3, <1>4, <1>5, SameNames DEF DP!Referenced, DP!Named, DP!Holders

\* The step the operation is at.
LEMMA HeadAt ==
  ASSUME NEW k, k # "idle"
  PROVE  /\ At(k) <=> HeadOf(op.todo) = k
         /\ At(k)' <=> HeadOf(op'.todo) = k
         /\ Head1 = HeadOf(op.todo) /\ Head1' = HeadOf(op'.todo)
         /\ HeadOf(op.todo) = k => op.todo # <<>> /\ Head(op.todo)[1] = k
PROOF
  BY DEF At, Head1, HeadOf

\* The rest, as long as no generation begins or ends.
LEMMA RestStill ==
  ASSUME IInv, FInv, DP!IInv, IInv', disk' = disk, gen' = gen, lastGen' = lastGen,
         autoCommit' = autoCommit, rollback' \in {rollback, <<>>},
         pinned' = pinned, deletable' = {}, counter <= counter',
         status \notin {"closed", "opening"}, status' \notin {"closed", "opening"},
         status' = "aborting" => ~autoCommit,
         \/ HeadOf(op'.todo) = "close"
         \/ HeadOf(op.todo) # "close" /\ commits' = commits
         \/ autoCommit,
         \A f \in (D!Referenced)' :
           \/ f \in D!Referenced
           \/ f[1] # "segments" /\ f[2] < counter'
           \/ \E g \in Gen : f = SegmentsFile(g) /\ g <= lastGen,
         \A g \in Gen : SegmentsFile(g) \in dir' => SegmentsFile(g) \in dir,
         HeadOf(op'.todo) \notin {"finish", "ctor"},
         op'.todo = <<>> \/ Head(op'.todo) # <<"ckpt", TRUE>>,
         OrderShape(op', status', autoCommit)
  PROVE  RollbackSound' /\ NamesBelow' /\ DiskSound' /\ LastOK' /\ WrittenOK' /\ OrderOK' /\ Clean'
PROOF
<1>0. counter \in Nat /\ counter' \in Nat
  BY BoundsAssumption DEF IInv, RestOK
<1>1. RollbackSound'
  <2>1. SUFFICES ASSUME Backable(autoCommit, status', op'.todo)
                 PROVE  RollbackShape(rollback', infos', status', counter', commits')
    BY DEF RollbackSound
  <2>2. commits' = commits /\ Backable(autoCommit, status, op.todo)
    BY <2>1 DEF Backable
  <2>3. RollbackShape(rollback, infos, status, counter, commits)
    BY <2>2 DEF FInv, RollbackSound
  <2>4. CASE rollback' = rollback
    <3>1. ASSUME NEW i \in DOMAIN rollback PROVE rollback[i].store < counter'
      <4>1. rollback[i].store < counter
        BY <2>3 DEF RollbackShape
      <4>2. rollback[i].store \in Int
        BY ListTypes DEF IInv, RollbackOK, Fits
      <4> QED
        BY <1>0, <4>1, <4>2
    <3> QED
      BY <2>2, <2>3, <2>4, <3>1 DEF RollbackShape
  <2>5. CASE rollback' = <<>>
    <3>1. PICK r : r = rollback'
      OBVIOUS
    <3>2. DOMAIN r = {}
      BY <2>5, <3>1
    <3>3. FilesIn(r) = {}
      BY <3>2 DEF FilesIn
    <3>4. RollbackShape(r, infos', status', counter', commits')
      BY <3>2, <3>3 DEF RollbackShape
    <3> QED
      BY <3>1, <3>4
  <2> QED
    BY <2>4, <2>5
<1>2. NamesBelow'
  <2>1. SUFFICES ASSUME NEW f \in (D!Referenced)' PROVE f[1] = "segments" \/ f[2] < counter'
    BY DEF NamesBelow
  <2>2. CASE f \in D!Referenced
    <3>1. f[1] = "segments" \/ f[2] < counter
      BY <2>2 DEF FInv, NamesBelow
    <3>2. CASE f[1] # "segments" /\ counter = counter'
      BY <3>1, <3>2
    <3>3. f[1] # "segments" => f[2] \in Nat
      <4>1. SUFFICES ASSUME f[1] # "segments" PROVE f[2] \in Nat
        OBVIOUS
      <4>2. f \in File
        BY <2>2, ReferencedFiles
      <4> QED
        BY <4>1, <4>2, FileNames
    <3> QED
      BY <1>0, <3>1, <3>3
  <2>3. CASE f[1] # "segments" /\ f[2] < counter'
    BY <2>3
  <2>4. CASE \E g \in Gen : f = SegmentsFile(g)
    <3>1. \A g : SegmentsFile(g)[1] = "segments"
      BY DEF SegmentsFile
    <3> QED
      BY <2>4, <3>1
  <2> QED
    BY <2>1, <2>2, <2>3, <2>4
<1>3. DiskSound'
  <2>1. ~At("finish")'
    BY HeadAt
  <2> QED
    BY <2>1 DEF FInv, DiskSound
<1>4. LastOK'
  <2>1. LastOK
    BY DEF FInv
  <2>2. ASSUME NEW g \in Gen, D!Readable(g)' PROVE g <= lastGen
    <3>1. D!Readable(g)
      BY <2>2 DEF D!Readable
    <3> QED
      BY <2>1, <3>1 DEF LastOK
  <2>3. ASSUME NEW g \in Gen, SegmentsFile(g) \in (D!Referenced)' PROVE g <= lastGen
    <3>1. CASE SegmentsFile(g) \in D!Referenced
      BY <2>1, <3>1 DEF LastOK
    <3>2. CASE \E h \in Gen : SegmentsFile(g) = SegmentsFile(h) /\ h <= lastGen
      BY <3>2, Generations
    <3> QED
      BY <2>3, <3>1, <3>2, Fields
  <2> QED
    BY <2>1, <2>2, <2>3 DEF LastOK
<1>5. WrittenOK'
  <2>1. ~At("finish")' /\ ~At("ctor")'
    BY HeadAt
  <2>2. status' # "opening"
    OBVIOUS
  <2> QED
    BY <2>1, <2>2 DEF WrittenOK
<1>6. OrderOK'
  BY DEF OrderOK
<1>7. Clean'
  BY DEF FInv, Clean
<1> QED
  BY <1>1, <1>2, <1>3, <1>4, <1>5, <1>6, <1>7

\* Names in use and names that are not, for the list is that w says is sound.
LEMMA NamesApart ==
  ASSUME NEW is, NEW S, NEW w, FilesSound(is, S, w), w.counter \in Nat,
         Fits(is, w.counter, w.buf.seg, w.merge)
  PROVE  /\ \A f \in FilesIn(is) : /\ f[1] # "segments" /\ f[2] < w.counter
                                   /\ Writing(w.merge) => f[2] # w.merge.out.name
         /\ w.buf.seg # None => Cfs(w.buf.seg) \notin FilesIn(is)
         /\ w.buf.store # None => Cfx(w.buf.store) \notin FilesIn(is)
         /\ ListOK(is, w.counter)
PROOF
<1>1. ListOK(is, w.counter)
  BY DEF Fits
<1>2. \A i \in DOMAIN is : is[i].store < w.counter
  BY DEF FilesSound
<1>3. ASSUME NEW f \in FilesIn(is), Writing(w.merge)
      PROVE  f[2] # w.merge.out.name
  <2>1. PICK i \in DOMAIN is : f[2] = is[i].name \/ (is[i].store # None /\ f[2] = is[i].store)
    BY <1>1, FilesKinds
  <2>2. is[i].name # w.merge.out.name
    BY <1>3 DEF Fits, Unused, Writing
  <2>3. is[i].store # w.merge.out.name
    BY <1>3 DEF FilesSound
  <2> QED
    BY <2>1, <2>2, <2>3
<1>4. ASSUME w.buf.seg # None, Cfs(w.buf.seg) \in FilesIn(is)
      PROVE  FALSE
  <2>1. PICK i \in DOMAIN is : is[i].name = w.buf.seg
    BY <1>1, <1>4, FilesKinds
  <2> QED
    BY <1>4, <2>1 DEF Fits, Unused
<1>5. w.buf.store # None => Cfx(w.buf.store) \notin FilesIn(is)
  BY DEF FilesSound
<1> QED
  BY <1>1, <1>2, <1>3, <1>4, <1>5, FilesBelow, FilesKinds

\* A step of the operation that changes only files and what is referenced.
LEMMA Stepped ==
  ASSUME IInv, FInv, DP!IInv, IInv', Up, op.todo # <<>>, Advance,
         UNCHANGED <<disk, pinned, autoCommit, infos, gen, lastGen, counter, rollback, buf, merge,
                     status>>,
         deletable' = {},
         HeadOf(op.todo) \in {"ckpt", "partial", "delete", "new", "refresh", "release"},
         held' = held \/ (held' = {} /\ ~Writing(merge)),
         HeadOf(op.todo) = "release" => held' = {},
         commits' = commits \/ autoCommit \/ HeadOf(op'.todo) = "close",
         FilesIn(infos) \subseteq dir',
         "ckpt" \notin Names(op'.todo) => FilesIn(infos) \subseteq D!Named(commits', last'),
         \A f \in (D!Referenced)' :
           \/ f \in D!Referenced \cup FilesIn(infos)
           \/ buf.store # None /\ f = Store(buf.store)
           \/ \E g \in Gen : f = SegmentsFile(g) /\ g <= lastGen,
         buf.store # None =>
           /\ Store(buf.store) \in dir'
           /\ Store(buf.store) \in (D!Referenced)' =>
                Store(buf.store) \in D!Named(commits', last')
           /\ /\ "ckpt" \notin Names(op'.todo)
              /\ "ckpt" \in Names(op.todo) \/ Store(buf.store) \in D!Named(commits, last)
              => Store(buf.store) \in D!Named(commits', last'),
         merge.stage = "built" => /\ Core(merge.out.name) \in dir'
                                  /\ merge.stores => Store(merge.out.name) \in dir',
         merge.stage = "compound" /\ "merged" \notin Names(op'.todo) =>
           Cfs(merge.out.name) \in dir',
         \A g \in Gen : SegmentsFile(g) \in dir' => SegmentsFile(g) \in dir,
         \A a \in Steps(op'.todo) : a[1] = "segment" /\ a[3] # None =>
           (IF a[4] THEN Cfx(a[3]) ELSE Store(a[3])) \in dir'
  PROVE  FInv'
PROOF
<1>1. /\ InfosSound /\ BufSound /\ MergeSound /\ OrderOK
      /\ Fits(infos, counter, buf.seg, merge) /\ BufShape(buf, counter)
      /\ MergeShape(merge, counter, buf.seg) /\ OpShape(op)
      /\ counter \in Nat /\ OrderShape(op, status, autoCommit)
  BY BoundsAssumption DEF FInv, OrderOK, IInv, InfosOK, BufOK, MergeOK, OpOK, OpFits, RestOK
<1>2. PICK o : o = op
  OBVIOUS
<1>3. PICK o2 : o2 = op'
  OBVIOUS
<1>4. PICK S : S = Steps(op.todo)
  OBVIOUS
<1>5. PICK S2 : S2 = Steps(op'.todo)
  OBVIOUS
<1>6. /\ OrderShape(o2, status, autoCommit) /\ S = {Head(op.todo)} \cup S2
      /\ Names(op.todo) = {HeadOf(op.todo)} \cup Names(o2.todo)
      /\ Names(o2.todo) \cap Firsts = {} /\ HeadOf(o2.todo) \notin Firsts /\ ~Undoes(o2)
      /\ o2.todo = <<>> \/ Head(o2.todo) # <<"ckpt", TRUE>>
      /\ OpShape(o2)
  <2>1. o2 = Going(o, Tail(o.todo))
    BY <1>2, <1>3 DEF Advance, GoOn, Going
  <2>2. PICK st, ac : st = status /\ ac = autoCommit
    OBVIOUS
  <2>3. OpShape(o) /\ OrderShape(o, st, ac) /\ o.todo # <<>>
    BY <1>1, <1>2, <2>2
  <2>4. Popping(o, o2, st, ac)
    BY ONLY <2>1, <2>3, OrderGoing
  <2> QED
    BY <1>2, <1>3, <1>4, <1>5, <2>2, <2>4 DEF Popping
<1>7. Kinds(S) = Names(op.todo) /\ Kinds(S2) = Names(op'.todo)
  BY <1>4, <1>5, KindsAre
<1>8. Head(op.todo)[1] = HeadOf(op.todo)
  BY DEF HeadOf
<1>9. PICK w : w = World
  OBVIOUS
<1>10. PICK w2 : w2 = World'
  OBVIOUS
<1>11. /\ w.safe = dir /\ w.base = D!Named(commits, last) /\ w.ref = D!Referenced
       /\ w.held = held /\ w.counter = counter /\ w.buf = buf /\ w.merge = merge
       /\ w.status = status
       /\ w2.safe = dir' /\ w2.base = D!Named(commits', last') /\ w2.ref = (D!Referenced)'
       /\ w2.held = held' /\ w2.counter = counter /\ w2.buf = buf /\ w2.merge = merge
       /\ w2.status = status
  BY <1>9, <1>10, WorldIs
<1>12. Sound(infos, S, w)
  BY <1>1, <1>4, <1>9 DEF InfosSound
<1>13. /\ \A f \in FilesIn(infos) : /\ f[1] # "segments" /\ f[2] < counter
                                    /\ Writing(merge) => f[2] # merge.out.name
       /\ buf.seg # None => Cfs(buf.seg) \notin FilesIn(infos)
       /\ buf.store # None => Cfx(buf.store) \notin FilesIn(infos)
  <2>1. FilesSound(infos, S, w)
    BY <1>12 DEF Sound
  <2>2. w.counter \in Nat /\ Fits(infos, w.counter, w.buf.seg, w.merge)
    BY <1>1, <1>11
  <2> QED
    BY <1>11, <2>1, <2>2, NamesApart
<1>14. /\ \A g : SegmentsFile(g)[1] = "segments"
       /\ \A n : Store(n)[1] = "store" /\ Cfs(n)[1] = "cfs" /\ Cfx(n)[1] = "cfx" /\ Store(n)[2] = n
  BY DEF SegmentsFile, Store, Cfs, Cfx
<1>15. Sound(infos, S2, w2)
  <2>1. \A a \in S2 : a[1] # "stores"
    BY <1>6, <1>7 DEF Kinds, Firsts
  <2>2. \A f \in w2.ref : f \in w.ref \cup FilesIn(infos) \/ f[1] \notin {"cfs", "cfx", "del"}
    <3>1. SUFFICES ASSUME NEW f \in (D!Referenced)', f \notin D!Referenced \cup FilesIn(infos)
                   PROVE  f[1] \notin {"cfs", "cfx", "del"}
      BY <1>11
    <3> QED
      BY <1>14, <3>1
  <2>3. w2.held # {} => Writing(w2.merge) \/ "release" \in Kinds(S2)
    <3>1. held # {} => Writing(merge) \/ "release" \in Names(op.todo)
      BY <1>7, <1>11, <1>12 DEF Sound
    <3> QED
      BY <1>3, <1>6, <1>7, <1>11, <3>1
  <2>4. \A a \in S \ S2 : a[1] \notin {"stores", "merged"}
    BY <1>6, <1>8
  <2>5. S2 \subseteq S
    BY <1>6
  <2>6. w2.status \notin {"closed", "opening"} /\ "ckpt" \notin Kinds(S2) =>
           FilesIn(infos) \subseteq w2.base
    BY <1>7, <1>11
  <2>7. "ckpt" \notin Kinds(S2) /\ w.buf.store # None
           /\ ("ckpt" \in Kinds(S) \/ Store(w.buf.store) \in w.base) =>
           Store(w.buf.store) \in w2.base
    BY <1>7, <1>11
  <2>8. FilesIn(infos) \subseteq w2.safe
    BY <1>11
  <2>9. w2.merge.stage = "compound" /\ "merged" \notin Kinds(S2) =>
           Cfs(w2.merge.out.name) \in w2.safe
    BY <1>7, <1>11
  <2>10. \A a \in S2 : a[1] = "segment" /\ a[3] # None =>
           (IF a[4] THEN Cfx(a[3]) ELSE Store(a[3])) \in w2.safe
    BY <1>5, <1>11
  <2>11. w2.buf = w.buf /\ w2.merge = w.merge /\ w2.counter = w.counter /\ w2.status = w.status
    BY <1>11
  <2> QED
    BY <1>12, <2>1, <2>2, <2>3, <2>4, <2>5, <2>6, <2>7, <2>8, <2>9, <2>10, <2>11, Popped
<1>16. InfosSound'
  BY <1>5, <1>10, <1>15 DEF InfosSound
<1>17. UndoSound'
  BY <1>3, <1>6 DEF UndoSound, Undoing
<1>18. BufSound'
  <2>1. BufSoundIn(S, w)
    BY <1>1, <1>4, <1>9 DEF BufSound
  <2>2. "segment" \in Kinds(S) => "segment" \in Kinds(S2)
    BY <1>3, <1>6, <1>7
  <2>3. buf.store # None => (Cfx(buf.store) \in (D!Referenced)' => Cfx(buf.store) \in D!Referenced)
    BY <1>13, <1>14
  <2>4. buf.seg # None => (Cfs(buf.seg) \in (D!Referenced)' => Cfs(buf.seg) \in D!Referenced)
    BY <1>13, <1>14
  <2>5. buf.store \in Name \cup {None}
    BY <1>1 DEF BufShape
  <2>6. BufSoundIn(S2, w2)
    BY <1>1, <1>11, <2>1, <2>2, <2>3, <2>4, <2>5, BufStill
  <2> QED
    BY <1>5, <1>10, <2>6 DEF BufSound
<1>19. MergeSound'
  <2>1. MergeSoundIn(infos, w)
    BY <1>1, <1>9 DEF MergeSound
  <2>2. Writing(merge) =>
           \A f \in (D!Referenced)' :
             f \in D!Referenced \/ f[1] = "segments" \/ f[2] # merge.out.name
    <3>1. SUFFICES ASSUME Writing(merge), NEW f \in (D!Referenced)', f \notin D!Referenced
                   PROVE  f[1] = "segments" \/ f[2] # merge.out.name
      OBVIOUS
    <3>2. merge.out.name # buf.store
      BY <1>11, <2>1, <3>1 DEF MergeSoundIn, Writing
    <3> QED
      BY <1>13, <1>14, <3>1, <3>2
  <2>3. merge.stage = "init" /\ ~merge.stores =>
          \A i \in DOMAIN infos : infos[i].name = merge.clone[1].name => infos[i].store # None
    BY <1>11, <2>1 DEF MergeSoundIn
  <2>4. MergeSoundIn(infos, w2)
    BY <1>1, <1>11, <2>1, <2>2, <2>3, MergeSoundStill
  <2> QED
    BY <1>10, <2>4 DEF MergeSound
<1>20. RollbackSound' /\ NamesBelow' /\ DiskSound' /\ LastOK' /\ WrittenOK' /\ OrderOK' /\ Clean'
  <2>1. HeadOf(op'.todo) \notin {"finish", "ctor"}
    <3>1. "ctor" \notin Names(o2.todo)
      BY <1>6 DEF OrderShape, Up
    <3>2. HeadOf(o2.todo) # "ctor"
      <4>1. o2.todo \in Seq(Step)
        BY <1>6 DEF OpShape
      <4> QED
        BY <3>1, <4>1, HeadName
    <3> QED
      BY <1>3, <1>6, <3>2 DEF Firsts
  <2>2. OrderShape(op', status', autoCommit)
    BY <1>3, <1>6
  <2>3. op'.todo = <<>> \/ Head(op'.todo) # <<"ckpt", TRUE>>
    BY <1>3, <1>6
  <2>4. \A f \in (D!Referenced)' :
           \/ f \in D!Referenced
           \/ f[1] # "segments" /\ f[2] < counter'
           \/ \E g \in Gen : f = SegmentsFile(g) /\ g <= lastGen
    <3>1. SUFFICES ASSUME NEW f \in (D!Referenced)', f \notin D!Referenced,
                          ~\E g \in Gen : f = SegmentsFile(g) /\ g <= lastGen
                   PROVE  f[1] # "segments" /\ f[2] < counter'
      OBVIOUS
    <3>2. buf.store < counter
      BY <1>1, <1>11, <1>9 DEF BufSound, BufSoundIn
    <3> QED
      BY <1>13, <1>14, <3>1, <3>2
  <2>5. status \notin {"closed", "opening"} /\ status' \notin {"closed", "opening"}
    BY DEF Up
  <2>6. status' = "aborting" => ~autoCommit
    BY DEF FInv, RollbackSound
  <2>7. HeadOf(op.todo) # "close"
    OBVIOUS
  <2>8. \/ HeadOf(op'.todo) = "close"
        \/ HeadOf(op.todo) # "close" /\ commits' = commits
        \/ autoCommit
    BY <2>7
  <2>9. counter <= counter'
    BY <1>1
  <2> QED
    BY <2>1, <2>2, <2>3, <2>4, <2>5, <2>6, <2>8, <2>9, RestStill
<1> QED
  BY <1>16, <1>17, <1>18, <1>19, <1>20 DEF FInv

-----------------------------------------------------------------------------
(* Steps of the operation that delete files.                               *)

\* The operation after its first step.
LEMMA Onward ==
  ASSUME IInv, FInv, op.todo # <<>>, Advance
  PROVE  Popping(op, op', status, autoCommit) /\ OpShape(op)
PROOF
<1>1. PICK o, o2, st, ac : o = op /\ o2 = op' /\ st = status /\ ac = autoCommit
  OBVIOUS
<1>2. OpShape(o) /\ OrderShape(o, st, ac) /\ o.todo # <<>>
  BY <1>1 DEF FInv, OrderOK, IInv, OpOK, OpFits
<1>3. o2 = Going(o, Tail(o.todo))
  BY <1>1 DEF Advance, GoOn, Going
<1>4. Popping(o, o2, st, ac)
  BY ONLY <1>2, <1>3, OrderGoing
<1> QED
  BY <1>1, <1>2, <1>4

\* Nothing is written or registered.
LEMMA DeleterSame ==
  ASSUME IInv, FInv, op.todo # <<>>, Advance, disk' = disk, status' = status,
         HeadOf(op.todo) \notin {"write", "finish", "ckpt"}
  PROVE  Stored' = Stored /\ Up' = Up /\ Unreg = 0 /\ Unreg' = 0
PROOF
<1>1. Stored' = Stored
  BY DEF Stored, FilesOn
<1>2. Up' = Up
  BY DEF Up
<1>3. <<"ckpt", TRUE>>[1] = "ckpt"
  OBVIOUS
<1>4. Unreg = 0
  BY <1>3 DEF Unreg, HeadOf
<1>5. op'.todo = <<>> \/ Head(op'.todo) # <<"ckpt", TRUE>>
  BY Onward DEF Popping
<1>6. Unreg' = 0
  BY <1>5 DEF Unreg
<1> QED
  BY <1>1, <1>2, <1>4, <1>6

\* What is referenced is there in the next state.
LEMMA ProtectedThen ==
  ASSUME DP!IInv', Up'
  PROVE  (D!Referenced)' \subseteq dir'
PROOF
<1>1. (DP!Referenced)' = (D!Referenced)'
  BY SameNames DEF DP!Referenced, D!Referenced, DP!Holders, D!Holders
<1>2. (DP!Referenced)' \subseteq dir'
  BY DEF DP!IInv, DP!Accounts, DP!Protected
<1> QED
  BY <1>1, <1>2

\* The deleter takes the files doomed away.
LEMMA Taken ==
  ASSUME IInv, FInv, NEW doomed, D!RemoveFiles(doomed, deletable, Busy)
  PROVE  dir' = dir \ doomed /\ deletable' = {}
PROOF
  BY DEF D!RemoveFiles, FInv, Clean, Busy

\* A step that deletes files nobody needs.
LEMMA TakenInv ==
  ASSUME IInv, FInv, DP!IInv, IInv', [DeleterStep]_(D!vars), op.todo # <<>>, Advance,
         UNCHANGED <<disk, pinned, refCounts, commits, last, held, status, autoCommit, si,
                     rollback, buf, merge, faults>>,
         HeadOf(op.todo) \in {"partial", "delete", "new", "refresh"},
         NEW doomed, dir' = dir \ doomed, deletable' = {},
         HeadOf(op.todo) = "partial" => \A f \in doomed : f[1] = "segments",
         buf.store # None => Store(buf.store) \notin doomed,
         merge.stage = "built" => /\ Core(merge.out.name) \notin doomed
                                  /\ merge.stores => Store(merge.out.name) \notin doomed,
         merge.stage = "compound" /\ "merged" \notin Names(op.todo) =>
           Cfs(merge.out.name) \notin doomed,
         HeadOf(op.todo) = "delete" => FilesIn(infos) \cap doomed = {}
  PROVE  FInv'
PROOF
<1>1. Up
  BY Opening, HeadAt DEF Up
<1>2. PICK o, o2, st, ac : o = op /\ o2 = op' /\ st = status /\ ac = autoCommit
  OBVIOUS
<1>3. Popping(o, o2, st, ac)
  BY <1>2, Onward
<1>4. /\ \A b \in Steps(op'.todo) : Before(Head(op.todo), b)
      /\ Names(op.todo) = {HeadOf(op.todo)} \cup Names(op'.todo)
      /\ Steps(op.todo) = {Head(op.todo)} \cup Steps(op'.todo)
  BY <1>2, <1>3 DEF Popping
<1>5. Head(op.todo)[1] = HeadOf(op.todo)
  BY DEF HeadOf
<1>6. HeadOf(op.todo) \notin {"partial", "delete"} => "ckpt" \notin Names(op'.todo)
  <2>1. SUFFICES ASSUME HeadOf(op.todo) \notin {"partial", "delete"}, NEW b \in Steps(op'.todo), b[1] = "ckpt"
                 PROVE  FALSE
    BY KindsAre DEF Kinds
  <2>2. Before(Head(op.todo), b)
    BY <1>4
  <2> QED
    BY <1>5, <2>1, <2>2 DEF Before
<1>7. \A a \in Steps(op'.todo) : a[1] # "segment"
  <2>1. SUFFICES ASSUME NEW b \in Steps(op'.todo), b[1] = "segment"
                 PROVE  FALSE
    OBVIOUS
  <2>2. Before(Head(op.todo), b)
    BY <1>4
  <2>3. Head(op.todo) \in {<<"stores">>, <<"ckpt", FALSE>>}
    BY <2>1, <2>2 DEF Before
  <2>4. <<"stores">>[1] = "stores" /\ <<"ckpt", FALSE>>[1] = "ckpt"
    OBVIOUS
  <2> QED
    BY <1>5, <2>3, <2>4
<1>8. PICK w, S : w = World /\ S = Steps(op.todo)
  OBVIOUS
<1>9. /\ w.safe = dir /\ w.base = D!Named(commits, last) /\ w.ref = D!Referenced
      /\ w.held = held /\ w.counter = counter /\ w.buf = buf /\ w.merge = merge
      /\ w.status = status
  BY <1>8, WorldIs
<1>10. Sound(infos, S, w) /\ BufSoundIn(S, w) /\ MergeSoundIn(infos, w) /\ Kinds(S) = Names(op.todo)
  BY <1>8, KindsAre DEF FInv, InfosSound, BufSound, MergeSound
<1>11. /\ (D!Referenced)' = D!Referenced
       /\ D!Named(commits', last') = D!Named(commits, last)
       /\ D!Named(commits, last) \subseteq D!Referenced
  BY ReferencedIs, DeleterKnows
<1>12. Up'
  BY <1>1 DEF Up
<1>13. (D!Referenced)' \subseteq dir'
  BY <1>12, Serving, ProtectedThen
<1>14. /\ FilesIn(infos) \subseteq dir
       /\ "ckpt" \notin Names(op.todo) => FilesIn(infos) \subseteq D!Named(commits, last)
  BY <1>1, <1>9, <1>10 DEF Sound, FilesSound, Up
<1>15. FilesIn(infos) \subseteq dir' /\
       ("ckpt" \notin Names(op'.todo) => FilesIn(infos) \subseteq D!Named(commits', last'))
  <2>1. "ckpt" \notin Names(op'.todo) => "ckpt" \notin Names(op.todo)
    BY <1>4
  <2>2. CASE "ckpt" \notin Names(op'.todo)
    BY <1>11, <1>13, <1>14, <2>1, <2>2
  <2>3. CASE "ckpt" \in Names(op'.todo)
    <3>1. HeadOf(op.todo) \in {"partial", "delete"}
      BY <1>6, <2>3
    <3>2. ListOK(infos, counter)
      BY DEF IInv, InfosOK, Fits
    <3>3. FilesIn(infos) \cap doomed = {}
      BY <3>1, <3>2, FilesKinds
    <3> QED
      BY <1>14, <2>3, <3>3
  <2> QED
    BY <2>2, <2>3
<1>16. buf.store # None =>
         /\ Store(buf.store) \in dir'
         /\ Store(buf.store) \in (D!Referenced)' =>
              Store(buf.store) \in D!Named(commits', last')
         /\ /\ "ckpt" \notin Names(op'.todo)
            /\ "ckpt" \in Names(op.todo) \/ Store(buf.store) \in D!Named(commits, last)
            => Store(buf.store) \in D!Named(commits', last')
  <2>1. buf.store # None =>
          /\ Store(buf.store) \in dir
          /\ Store(buf.store) \in D!Referenced => Store(buf.store) \in D!Named(commits, last)
    BY <1>9, <1>10 DEF BufSoundIn
  <2>2. "ckpt" \notin Names(op'.todo) => "ckpt" \notin Names(op.todo)
    BY <1>4
  <2> QED
    BY <1>11, <2>1, <2>2
<1>17. merge.stage = "built" => /\ Core(merge.out.name) \in dir'
                                /\ merge.stores => Store(merge.out.name) \in dir'
  BY <1>9, <1>10 DEF MergeSoundIn
<1>18. "merged" \notin Names(op'.todo) => "merged" \notin Names(op.todo)
  BY <1>4
<1>19. merge.stage = "compound" /\ "merged" \notin Names(op'.todo) =>
         Cfs(merge.out.name) \in dir'
  BY <1>9, <1>10, <1>18 DEF Sound
<1>20. HeadOf(op.todo) # "release"
  OBVIOUS
<1> QED
  BY <1>1, <1>7, <1>11, <1>15, <1>16, <1>17, <1>19, <1>20, Stepped DEF si

-----------------------------------------------------------------------------
(* The steps that delete files.                                            *)

\* What the next step needs is as it should be.
LEMMA HeadReady ==
  ASSUME IInv, FInv, op.todo # <<>>
  PROVE  /\ Head(op.todo) \in Step /\ Head(op.todo) \in Steps(op.todo)
         /\ Ready(Head(op.todo), Steps(op.todo), infos, World)
         /\ Head(op.todo)[1] = HeadOf(op.todo)
PROOF
<1>1. PICK s, t : s = op.todo /\ t = Tail(s)
  OBVIOUS
<1>2. s \in Seq(Step)
  BY <1>1, Types
<1>3. Head(s) \in Steps(s) /\ Head(s) \in Step
  BY <1>1, <1>2, StepsRest
<1> QED
  BY <1>1, <1>3 DEF FInv, InfosSound, Sound, HeadOf

\* deletePartialSegmentsFile removes a segments_N no reader would find.
LEMMA DeletePartialSafe ==
  ASSUME IInv, FInv, DP!IInv, IInv', DeletePartial
  PROVE  [DeleterStep]_(D!vars) /\ FInv'
PROOF
<1>1. op.todo # <<>> /\ HeadOf(op.todo) = "partial" /\ Advance
  BY HeadAt DEF DeletePartial
<1>2. PICK doomed : doomed = IF lastGen # gen THEN {SegmentsFile(gen)} ELSE {}
  OBVIOUS
<1>3. D!RemoveFiles(doomed, deletable, Busy)
  BY <1>2 DEF DeletePartial, D!DeleteFilesEffect
<1>4. dir' = dir \ doomed /\ deletable' = {}
  BY <1>3, Taken
<1>5. Stored' = Stored /\ Up' = Up /\ Unreg = 0 /\ Unreg' = 0 /\ Up
  <2>1. Up
    BY <1>1, Opening, HeadAt DEF Up
  <2> QED
    BY <1>1, <2>1, DeleterSame DEF DeletePartial
<1>6. UNCHANGED <<disk, pinned, refCounts, commits, last, held, status, autoCommit, si,
                  rollback, buf, merge, faults>>
  BY DEF DeletePartial
<1>7. [DeleterStep]_(D!vars)
  <2>1. CASE lastGen = gen
    <3>1. dir' = dir /\ deletable' = deletable
      BY <1>2, <1>4, <2>1 DEF FInv, Clean
    <3> QED
      BY <1>5, <1>6, <3>1 DEF D!vars, Stored, Up, Unreg
  <2>2. CASE lastGen # gen
    <3>1. gen \in Gen /\ ~(gen <= lastGen)
      BY <1>5, <2>2, BoundsAssumption DEF FInv, LastOK, IInv, RestOK, Gen, Up
    <3>2. \A g \in Gen : D!Readable(g) \/ SegmentsFile(g) \in D!Referenced => g <= lastGen
      BY <1>5 DEF FInv, LastOK, Up
    <3>3. SegmentsFile(gen) \notin D!Referenced
      BY <3>1, <3>2
    <3>4. \A g \in Gen : D!Readable(g) => SegmentsFile(g) \notin {SegmentsFile(gen)}
      BY <3>1, <3>2, Generations
    <3>5. D!DeleteFilesEffect({SegmentsFile(gen)}, Busy)
      BY <1>2, <1>3, <2>2 DEF D!DeleteFilesEffect
    <3>6. D!DeleteFiles({SegmentsFile(gen)}, Busy)
      BY <1>5, <1>6, <3>3, <3>4, <3>5 DEF D!DeleteFiles, Stored, Up, Unreg
    <3> QED
      BY <3>6 DEF DeleterStep
  <2> QED
    BY <2>1, <2>2
<1>8. \A f \in doomed : f[1] = "segments"
  BY <1>2 DEF SegmentsFile
<1>9. \A n : Store(n) \notin doomed /\ Core(n) \notin doomed /\ Cfs(n) \notin doomed
  BY <1>8 DEF Store, Core, Cfs
<1> QED
  BY <1>1, <1>4, <1>6, <1>7, <1>8, <1>9, TakenInv

\* deleteFile in an error path hits no file that is in use.
LEMMA DeleteFilesSafe ==
  ASSUME IInv, FInv, DP!IInv, IInv', DeleteFiles
  PROVE  [DeleterStep]_(D!vars) /\ FInv'
PROOF
<1>1. op.todo # <<>> /\ HeadOf(op.todo) = "delete" /\ Advance /\ At("delete")
  BY HeadAt DEF DeleteFiles
<1>2. PICK a, S, w : a = Head(op.todo) /\ S = Steps(op.todo) /\ w = World
  OBVIOUS
<1>3. a[1] = "delete" /\ Ready(a, S, infos, w)
  BY <1>1, <1>2, HeadReady
<1>4. PICK fs : fs = a[2]
  OBVIOUS
<1>5. w.ref = D!Referenced /\ w.merge = merge /\ Kinds(S) = Names(op.todo)
  BY <1>2, WorldIs, KindsAre
<1>6. D!RemoveFiles(fs, deletable, Busy)
  BY <1>2, <1>4 DEF DeleteFiles, D!DeleteFilesEffect
<1>7. dir' = dir \ fs /\ deletable' = {}
  BY <1>6, Taken
<1>8. Stored' = Stored /\ Up' = Up /\ Unreg = 0 /\ Unreg' = 0 /\ Up
  <2>1. Up
    BY <1>1, Opening, HeadAt DEF Up
  <2> QED
    BY <1>1, <2>1, DeleterSame DEF DeleteFiles
<1>9. UNCHANGED <<disk, pinned, refCounts, commits, last, held, status, autoCommit, si,
                  rollback, buf, merge, faults>>
  BY DEF DeleteFiles
<1>10. /\ \A f \in fs : f[1] = "del" \/ \E n \in Name : f = Cfs(n)
       /\ fs \cap (w.ref \cup FilesIn(infos)) = {}
       /\ Alone(w.merge, S) => Cfs(w.merge.out.name) \notin fs
  <2>1. DropReady(fs, S, infos, w)
    BY <1>3, <1>4 DEF Ready
  <2>2. ASSUME NEW n \in Name, fs = {Cfs(n)}, Cfs(n) \notin w.ref \cup FilesIn(infos),
               Alone(w.merge, S) => n # w.merge.out.name
        PROVE  /\ \A f \in fs : f[1] = "del" \/ \E m \in Name : f = Cfs(m)
               /\ fs \cap (w.ref \cup FilesIn(infos)) = {}
               /\ Alone(w.merge, S) => Cfs(w.merge.out.name) \notin fs
    BY <2>2 DEF Cfs
  <2>3. ASSUME \A f \in fs : f[1] = "del", fs \cap (w.ref \cup FilesIn(infos)) = {}
        PROVE  Cfs(w.merge.out.name) \notin fs
    BY <2>3 DEF Cfs
  <2> QED
    BY <2>1, <2>2, <2>3 DEF DropReady
<1>11. [DeleterStep]_(D!vars)
  <2>1. \A g \in Gen : D!Readable(g) => SegmentsFile(g) \notin fs
    BY <1>10 DEF SegmentsFile, Cfs
  <2>2. D!DeleteFilesEffect(fs, Busy)
    BY <1>6 DEF D!DeleteFilesEffect
  <2>3. fs \cap D!Referenced = {}
    BY <1>5, <1>10
  <2>4. D!DeleteFiles(fs, Busy)
    BY <1>8, <1>9, <2>1, <2>2, <2>3 DEF D!DeleteFiles, Stored, Up, Unreg
  <2> QED
    BY <2>4, <1>1, <1>2, <1>4 DEF DeleterStep
<1>12. \A m : Store(m) \notin fs /\ Core(m) \notin fs
  BY <1>10 DEF Store, Core, Cfs
<1>13. merge.stage = "compound" /\ "merged" \notin Names(op.todo) =>
         Cfs(merge.out.name) \notin fs
  BY <1>5, <1>10 DEF Alone
<1> QED
  BY <1>1, <1>7, <1>9, <1>10, <1>11, <1>12, <1>13, TakenInv

\* deleteNewFiles hits the doc stores of an aborted buffer only.
LEMMA DeleteNewFilesSafe ==
  ASSUME IInv, FInv, DP!IInv, IInv', DeleteNewFiles
  PROVE  [DeleterStep]_(D!vars) /\ FInv'
PROOF
<1>1. op.todo # <<>> /\ HeadOf(op.todo) = "new" /\ Advance
  BY HeadAt DEF DeleteNewFiles
<1>2. PICK a, S, w : a = Head(op.todo) /\ S = Steps(op.todo) /\ w = World
  OBVIOUS
<1>3. a[1] = "new" /\ Ready(a, S, infos, w)
  BY <1>1, <1>2, HeadReady
<1>4. PICK n \in Name : /\ a[2] = {Store(n)}
                        /\ n < w.counter /\ n # w.buf.store
                        /\ Writing(w.merge) => n # w.merge.out.name
  BY <1>3 DEF Ready
<1>5. w.buf = buf /\ w.merge = merge
  BY <1>2, WorldIs
<1>6. PICK doomed : doomed = {Store(n)} \ DOMAIN refCounts
  OBVIOUS
<1>7. D!RemoveFiles(doomed, deletable, Busy)
  BY <1>2, <1>4, <1>6 DEF DeleteNewFiles, D!DeleteNewFilesEffect
<1>8. dir' = dir \ doomed /\ deletable' = {}
  BY <1>7, Taken
<1>9. Stored' = Stored /\ Up' = Up /\ Unreg = 0 /\ Unreg' = 0 /\ Up
  <2>1. Up
    BY <1>1, Opening, HeadAt DEF Up
  <2> QED
    BY <1>1, <2>1, DeleterSame DEF DeleteNewFiles
<1>10. UNCHANGED <<disk, pinned, refCounts, commits, last, held, status, autoCommit, si,
                   rollback, buf, merge, faults>>
  BY DEF DeleteNewFiles
<1>11. [DeleterStep]_(D!vars)
  <2>1. \A g \in Gen : SegmentsFile(g) \notin {Store(n)}
    BY DEF SegmentsFile, Store
  <2>2. D!DeleteNewFilesEffect({Store(n)}, Busy)
    BY <1>6, <1>7 DEF D!DeleteNewFilesEffect
  <2>3. D!DeleteNewFiles({Store(n)}, Busy)
    BY <1>9, <1>10, <2>1, <2>2 DEF D!DeleteNewFiles, Stored, Up, Unreg
  <2> QED
    BY <2>3 DEF DeleterStep
<1>12. \A m : Cfs(m) \notin doomed /\ Core(m) \notin doomed /\ (m # n => Store(m) \notin doomed)
  BY <1>6 DEF Store, Core, Cfs
<1>13. merge.stage = "built" => merge.out.name # n
  BY <1>4, <1>5 DEF Writing
<1> QED
  BY <1>1, <1>4, <1>5, <1>8, <1>10, <1>11, <1>12, <1>13, TakenInv

\* refresh spares the files that are open and those a merge has written.
LEMMA RefreshSafe ==
  ASSUME IInv, FInv, DP!IInv, IInv', Refresh
  PROVE  [DeleterStep]_(D!vars) /\ FInv'
PROOF
<1>1. op.todo # <<>> /\ HeadOf(op.todo) = "refresh" /\ Advance
  BY HeadAt DEF Refresh
<1>2. PICK a, S, w : a = Head(op.todo) /\ S = Steps(op.todo) /\ w = World
  OBVIOUS
<1>3. a[1] = "refresh" /\ Ready(a, S, infos, w) /\ a \in Step
  BY <1>1, <1>2, HeadReady
<1>4. PICK n : n = a[2]
  OBVIOUS
<1>5. n \in Name \cup {None} /\ RefreshReady(n, S, w)
  BY <1>3, <1>4 DEF Ready, Step
<1>6. /\ w.buf = buf /\ w.merge = merge /\ Kinds(S) = Names(op.todo)
      /\ w.base = D!Named(commits, last)
  BY <1>2, WorldIs, KindsAre
<1>7. PICK doomed : doomed = (dir \cap Scope(n)) \ DOMAIN refCounts
  OBVIOUS
<1>8. D!RemoveFiles(doomed, deletable, Busy)
  BY <1>2, <1>4, <1>7 DEF Refresh, D!RefreshEffect
<1>9. dir' = dir \ doomed /\ deletable' = {}
  BY <1>8, Taken
<1>10. Stored' = Stored /\ Up' = Up /\ Unreg = 0 /\ Unreg' = 0 /\ Up
  <2>1. Up
    BY <1>1, Opening, HeadAt DEF Up
  <2> QED
    BY <1>1, <2>1, DeleterSame DEF Refresh
<1>11. UNCHANGED <<disk, pinned, refCounts, commits, last, held, status, autoCommit, si,
                   rollback, buf, merge, faults>>
  BY DEF Refresh
<1>12. [DeleterStep]_(D!vars)
  <2>1. D!RefreshEffect(Scope(n), Busy)
    BY <1>7, <1>8 DEF D!RefreshEffect
  <2>2. D!Refresh(Scope(n), Busy)
    BY <1>10, <1>11, <2>1 DEF D!Refresh, Stored, Up, Unreg
  <2> QED
    BY <1>5, <2>2 DEF DeleterStep
<1>13. "ckpt" \notin Names(op.todo)
  <2>1. PICK o, o2, st, ac : o = op /\ o2 = op' /\ st = status /\ ac = autoCommit
    OBVIOUS
  <2>2. Popping(o, o2, st, ac)
    BY <1>1, <2>1, Onward
  <2>3. SUFFICES ASSUME NEW b \in Steps(op'.todo), b[1] = "ckpt"
                 PROVE  FALSE
    BY <1>1, <2>1, <2>2, KindsAre DEF Popping, Kinds
  <2>4. Before(a, b)
    BY <1>2, <2>1, <2>2, <2>3 DEF Popping
  <2> QED
    BY <1>3, <2>3, <2>4 DEF Before
<1>14. \A f \in doomed : n # None => f[1] # "segments" /\ f[2] = n
  BY <1>7 DEF Scope
<1>15. D!Referenced \subseteq DOMAIN refCounts
  BY <1>10, DP!ReferencedCounted, Generations, SameNames DEF DP!IInv
<1>16. buf.store # None => Store(buf.store) \notin doomed
  <2>1. SUFFICES ASSUME buf.store # None, Store(buf.store) \in doomed
                 PROVE  FALSE
    OBVIOUS
  <2>2. n # None
    BY <1>5, <1>6, <2>1 DEF RefreshReady
  <2>3. buf.store = n
    BY <1>14, <2>1, <2>2 DEF Store
  <2>4. Store(n) \in w.base
    BY <1>5, <1>6, <1>13, <2>2, <2>3 DEF RefreshReady
  <2>5. Store(n) \in D!Referenced
    BY <1>6, <2>4, DeleterKnows
  <2> QED
    BY <1>7, <1>15, <2>1, <2>3, <2>5
<1>17. Writing(merge) \/ Alone(merge, S) =>
         /\ Core(merge.out.name) \notin doomed /\ Store(merge.out.name) \notin doomed
         /\ Cfs(merge.out.name) \notin doomed
  <2>1. CASE n = None
    <3>1. merge.stage = "none"
      BY <1>5, <1>6, <2>1 DEF RefreshReady
    <3>2. <<"merged", "committed">> \notin S
      <4>1. "merged" \notin Names(op.todo)
        BY <3>1 DEF IInv, OpOK, OpFits
      <4>2. <<"merged", "committed">>[1] = "merged"
        OBVIOUS
      <4> QED
        BY <1>6, <4>1, <4>2 DEF Kinds
    <3> QED
      BY <3>1, <3>2 DEF Writing, Alone
  <2>2. CASE n # None
    <3>1. Writing(merge) \/ Alone(merge, S) => merge.out.name # n
      BY <1>5, <1>6, <2>2 DEF RefreshReady
    <3> QED
      BY <1>14, <2>2, <3>1 DEF Core, Store, Cfs
  <2> QED
    BY <2>1, <2>2
<1>18. merge.stage = "compound" /\ "merged" \notin Names(op.todo) => Alone(merge, S)
  BY <1>6 DEF Alone
<1>19. merge.stage = "built" => Writing(merge)
  BY DEF Writing
<1> QED
  BY <1>1, <1>9, <1>11, <1>12, <1>16, <1>17, <1>18, <1>19, TakenInv

\* decrefMergeSegments takes the files of the merge's copy that nobody else
\* needs.
LEMMA MergeReleaseSafe ==
  ASSUME IInv, FInv, DP!IInv, IInv', MergeRelease
  PROVE  [DeleterStep]_(D!vars) /\ FInv'
PROOF
<1>1. op.todo # <<>> /\ HeadOf(op.todo) = "release" /\ Advance
  BY HeadAt DEF MergeRelease
<1>2. PICK a, S, w : a = Head(op.todo) /\ S = Steps(op.todo) /\ w = World
  OBVIOUS
<1>3. a[1] = "release" /\ Ready(a, S, infos, w)
  BY <1>1, <1>2, HeadReady
<1>4. /\ w.safe = dir /\ w.base = D!Named(commits, last) /\ w.ref = D!Referenced
      /\ w.held = held /\ w.counter = counter /\ w.buf = buf /\ w.merge = merge
      /\ w.status = status /\ Kinds(S) = Names(op.todo)
  BY <1>2, WorldIs, KindsAre
<1>5. merge.stage = "ending"
  BY <1>3, <1>4 DEF Ready
<1>6. Sound(infos, S, w) /\ BufSoundIn(S, w) /\ MergeSoundIn(infos, w)
  BY <1>2 DEF FInv, InfosSound, BufSound, MergeSound
<1>7. PICK h \in held : held' = held \ {h} /\ D!DecRefEffect(h, Busy)
  BY DEF MergeRelease
<1>8. held' = {}
  BY <1>4, <1>6, <1>7 DEF MergeSoundIn
<1>9. PICK doomed : doomed = D!Freed(refCounts, {h}, <<>>)
  OBVIOUS
<1>10. D!RemoveFiles(doomed, deletable, Busy)
  BY <1>7, <1>9 DEF D!DecRefEffect
<1>11. dir' = dir \ doomed /\ deletable' = {}
  BY <1>10, Taken
<1>12. Stored' = Stored /\ Up' = Up /\ Unreg = 0 /\ Unreg' = 0 /\ Up
  <2>1. Up
    BY <1>1, Opening, HeadAt DEF Up
  <2> QED
    BY <1>1, <2>1, DeleterSame DEF MergeRelease
<1>13. [DeleterStep]_(D!vars)
  <2>1. commits' = commits /\ last' = last
    BY DEF MergeRelease
  <2>2. D!Release(h, Busy)
    BY <1>7, <1>12, <2>1 DEF D!Release, Stored, Up, Unreg
  <2> QED
    BY <2>2 DEF DeleterStep
<1>14. (D!Referenced)' \subseteq dir'
  <2>1. Up'
    BY <1>12
  <2> QED
    BY <1>13, <2>1, Serving, ProtectedThen
<1>15. (D!Referenced)' = D!Named(commits, last) /\ D!Named(commits', last') = D!Named(commits, last)
  <2>1. commits' = commits /\ last' = last
    BY DEF MergeRelease
  <2>2. commits \cup {} = commits
    OBVIOUS
  <2> QED
    BY <1>8, <2>1, <2>2, ReferencedIs
<1>16. D!Named(commits, last) \subseteq D!Referenced
  BY DeleterKnows
<1>17. PICK o, o2, st, ac : o = op /\ o2 = op' /\ st = status /\ ac = autoCommit
  OBVIOUS
<1>18. Popping(o, o2, st, ac)
  BY <1>1, <1>17, Onward
<1>19. "ckpt" \notin Names(op.todo) /\ \A b \in Steps(op'.todo) : b[1] # "segment"
  <2>1. \A b \in Steps(op'.todo) : b[1] \notin {"ckpt", "segment"}
    <3>1. SUFFICES ASSUME NEW b \in Steps(op'.todo) PROVE b[1] \notin {"ckpt", "segment"}
      OBVIOUS
    <3>2. Before(a, b)
      BY <1>2, <1>17, <1>18 DEF Popping
    <3>3. <<"stores">>[1] = "stores" /\ <<"ckpt", FALSE>>[1] = "ckpt"
      OBVIOUS
    <3> QED
      BY <1>3, <3>2, <3>3 DEF Before
  <2>2. Names(op.todo) = {"release"} \cup Names(op'.todo)
    BY <1>1, <1>17, <1>18 DEF Popping
  <2>3. Kinds(Steps(op'.todo)) = Names(op'.todo)
    BY KindsAre
  <2> QED
    BY <2>1, <2>2, <2>3 DEF Kinds
<1>20. FilesIn(infos) \subseteq D!Named(commits, last)
  BY <1>4, <1>6, <1>12, <1>19 DEF Sound, FilesSound, Up
<1>21. doomed \subseteq D!Referenced
  <2>1. D!Range(<<>>) = {}
    BY DEF D!Range
  <2>2. doomed \subseteq D!Range(h.files)
    BY <1>9, <2>1 DEF D!Freed, D!Named
  <2> QED
    BY <2>2, DeleterKnows
<1>22. buf.store # None =>
         /\ Store(buf.store) \in dir'
         /\ Store(buf.store) \in (D!Referenced)' =>
              Store(buf.store) \in D!Named(commits', last')
         /\ /\ "ckpt" \notin Names(op'.todo)
            /\ "ckpt" \in Names(op.todo) \/ Store(buf.store) \in D!Named(commits, last)
            => Store(buf.store) \in D!Named(commits', last')
  <2>1. buf.store # None =>
          /\ Store(buf.store) \in dir
          /\ Store(buf.store) \in D!Referenced => Store(buf.store) \in D!Named(commits, last)
    BY <1>4, <1>6 DEF BufSoundIn
  <2> QED
    BY <1>11, <1>14, <1>15, <1>19, <1>21, <2>1
<1>23. Stored' = Stored /\ HeadOf(op.todo) = "release" /\ ~Writing(merge)
       /\ merge.stage \notin {"built", "compound"}
  BY <1>1, <1>5, <1>12 DEF Writing
<1>24. UNCHANGED <<disk, pinned, autoCommit, infos, gen, lastGen, counter, rollback, buf, merge,
                   status>> /\ commits' = commits
  BY DEF MergeRelease, si
<1> QED
  BY <1>1, <1>8, <1>11, <1>12, <1>13, <1>14, <1>15, <1>16, <1>19, <1>20, <1>22, <1>23, <1>24,
     Stepped

-----------------------------------------------------------------------------
(* The checkpoint.                                                         *)

\* deleter->checkpoint: the segments' files are known, and those of the last
\* checkpoint and, for a commit, of the commit before go.
LEMMA DeleterCheckpointSafe ==
  ASSUME IInv, FInv, DP!IInv, IInv', DeleterCheckpoint
  PROVE  [DeleterStep]_(D!vars) /\ FInv'
PROOF
<1>1. op.todo # <<>> /\ HeadOf(op.todo) = "ckpt" /\ Advance
  BY HeadAt DEF DeleterCheckpoint
<1>2. PICK a, S, w : a = Head(op.todo) /\ S = Steps(op.todo) /\ w = World
  OBVIOUS
<1>3. a[1] = "ckpt" /\ a \in Step /\ a \in S
  BY <1>1, <1>2, HeadReady
<1>4. a \in {<<"ckpt", TRUE>>, <<"ckpt", FALSE>>} /\ a[2] \in BOOLEAN
      /\ (a = <<"ckpt", TRUE>> <=> a[2])
  <2>1. a \in {"ckpt"} \X BOOLEAN
    BY <1>3 DEF Step
  <2>2. a = <<"ckpt", a[2]>> /\ a[2] \in BOOLEAN
    BY <2>1
  <2>3. <<"ckpt", TRUE>>[2] = TRUE /\ <<"ckpt", FALSE>>[2] = FALSE
    OBVIOUS
  <2>4. CASE a[2] = TRUE
    BY <2>2, <2>3, <2>4
  <2>5. CASE a[2] = FALSE
    BY <2>2, <2>3, <2>5
  <2> QED
    BY <2>2, <2>4, <2>5
<1>5. /\ w.safe = dir /\ w.base = D!Named(commits, last) /\ w.ref = D!Referenced
      /\ w.held = held /\ w.counter = counter /\ w.buf = buf /\ w.merge = merge
      /\ w.status = status /\ Kinds(S) = Names(op.todo)
  BY <1>2, WorldIs, KindsAre
<1>6. Sound(infos, S, w) /\ BufSoundIn(S, w) /\ MergeSoundIn(infos, w)
  BY <1>2 DEF FInv, InfosSound, BufSound, MergeSound
<1>7. Up /\ Up' /\ Stored' = Stored
  BY <1>1, Opening, HeadAt DEF DeleterCheckpoint, Up, Stored, FilesOn
<1>8. PICK o, o2, st, ac : o = op /\ o2 = op' /\ st = status /\ ac = autoCommit
  OBVIOUS
<1>9. Popping(o, o2, st, ac)
  BY <1>1, <1>8, Onward
<1>10. Unreg' = 0
  BY <1>1, <1>8, <1>9 DEF Popping, Unreg
<1>11. PICK fs, ds : fs = InfosFiles(infos)
                     /\ ds = IF buf.store = None THEN <<>> ELSE <<Store(buf.store)>>
  OBVIOUS
<1>12. D!CheckpointEffect(fs, ds, a[2], gen, Busy)
  BY <1>2, <1>11 DEF DeleterCheckpoint
<1>13. fs \in Seq(File) /\ D!Range(fs) = FilesIn(infos)
  BY <1>11, VectorsOfFiles DEF IInv, InfosOK, Fits
<1>14. D!Range(ds) = (IF buf.store = None THEN {} ELSE {Store(buf.store)}) /\ ds \in Seq(File)
  <2>1. buf.store \in Name \cup {None}
    BY DEF IInv, BufOK, BufShape
  <2>2. buf.store # None => Store(buf.store) \in File
    BY <2>1 DEF Store, File
  <2>3. CASE buf.store = None
    BY <1>11, <2>3 DEF D!Range
  <2>4. CASE buf.store # None
    <3>1. ds = <<Store(buf.store)>>
      BY <1>11, <2>4
    <3> QED
      BY <2>2, <2>4, <3>1 DEF D!Range
  <2> QED
    BY <2>3, <2>4
<1>15. a[2] => Unreg = gen /\ gen # 0 /\ gen \in DOMAIN disk /\ FilesOn(gen) = fs /\ gen \in Gen
  <2>1. SUFFICES ASSUME a[2] PROVE Unreg = gen /\ gen # 0 /\ gen \in DOMAIN disk /\ FilesOn(gen) = fs /\ gen \in Gen
    OBVIOUS
  <2>2. op.todo # <<>> /\ Head(op.todo) = <<"ckpt", TRUE>>
    BY <1>1, <1>2, <1>4, <2>1
  <2>3. gen \in DOMAIN disk /\ disk[gen].complete /\ disk[gen].infos = infos
    BY <2>2 DEF FInv, WrittenOK
  <2>4. gen \in Gen /\ gen # 0
    BY <2>3, Generations DEF IInv, DiskOK
  <2> QED
    BY <1>11, <2>2, <2>3, <2>4 DEF Unreg, FilesOn
<1>16. ~a[2] => Unreg = 0
  BY <1>2, <1>4 DEF Unreg
<1>17. FilesIn(infos) \subseteq dir /\ (buf.store # None => Store(buf.store) \in dir)
  BY <1>5, <1>6 DEF Sound, FilesSound, BufSoundIn
<1>18. deletable = {} /\ Busy = {}
  BY DeleterKnows
<1>19. Unreg # 0 <=> a[2]
  BY <1>15, <1>16
<1>20. [DeleterStep]_(D!vars)
  <2>1. D!Range(fs) \cup D!Range(ds) \subseteq D!Usable
    BY <1>13, <1>14, <1>17, <1>18 DEF D!Usable
  <2>2. Unreg # 0 => fs = Stored[Unreg].files
    BY <1>15, <1>19 DEF Stored
  <2>3. D!CheckpointEffect(fs, ds, Unreg # 0, Unreg, Busy)
    BY <1>12, <1>15, <1>16, <1>19 DEF D!CheckpointEffect
  <2>4. held' = held
    BY DEF DeleterCheckpoint
  <2>5. D!Checkpoint(fs, ds, Busy)
    BY <1>7, <1>10, <2>1, <2>2, <2>3, <2>4 DEF D!Checkpoint, Stored, Up, Unreg
  <2> QED
    BY <1>11, <2>5 DEF DeleterStep
<1>21. (D!Referenced)' \subseteq dir'
  BY <1>7, <1>20, Serving, ProtectedThen
<1>22. PICK new, front, gone :
         /\ new = IF a[2] THEN {D!CommitPoint(gen)} ELSE {}
         /\ front = IF a[2] THEN ds ELSE fs \o ds
         /\ gone = IF a[2] THEN commits ELSE {}
  OBVIOUS
<1>23. PICK doomed : doomed = deletable \cup D!Freed(D!IncRef(refCounts, new, front), gone, last)
  OBVIOUS
<1>24. /\ commits' = (commits \ gone) \cup new /\ last' = front
       /\ D!RemoveFiles(doomed, {}, Busy)
  BY <1>12, <1>22, <1>23 DEF D!CheckpointEffect
<1>25. dir' = dir \ doomed /\ deletable' = {}
  BY <1>18, <1>24 DEF D!RemoveFiles
<1>26. doomed \subseteq D!Referenced
  <2>1. doomed \subseteq D!Named(gone, last)
    BY <1>18, <1>23 DEF D!Freed
  <2>2. D!Named(gone, last) \subseteq D!Named(commits, last)
    BY <1>22 DEF D!Named
  <2> QED
    BY <2>1, <2>2, DeleterKnows
<1>27. D!Range(front) = (IF a[2] THEN {} ELSE FilesIn(infos)) \cup D!Range(ds)
  <2>1. D!Range(fs \o ds) = D!Range(fs) \cup D!Range(ds)
    <3>1. PICK F : F = File
      OBVIOUS
    <3>2. fs \in Seq(F) /\ ds \in Seq(F)
      BY <1>13, <1>14, <3>1
    <3>3. PICK j : j = fs \o ds
      OBVIOUS
    <3>4. /\ \A i \in DOMAIN j : j[i] \in D!Range(fs) \cup D!Range(ds)
          /\ \A i \in DOMAIN fs : i \in DOMAIN j /\ j[i] = fs[i]
          /\ \A i \in DOMAIN ds : Len(fs) + i \in DOMAIN j /\ j[Len(fs) + i] = ds[i]
      BY ONLY <3>2, <3>3 DEF D!Range
    <3>5. \A f : f \in D!Range(j) <=> f \in D!Range(fs) \cup D!Range(ds)
      BY ONLY <3>4 DEF D!Range
    <3> QED
      BY <3>3, <3>5
  <2> QED
    BY <1>13, <1>22, <2>1
<1>28. a[2] => D!Range(D!CommitPoint(gen).files) = {SegmentsFile(gen)} \cup FilesIn(infos)
  <2>1. SUFFICES ASSUME a[2]
                 PROVE  D!Range(D!CommitPoint(gen).files) = {SegmentsFile(gen)} \cup FilesIn(infos)
    OBVIOUS
  <2>2. D!CommitPoint(gen).files = <<SegmentsFile(gen)>> \o fs
    BY <1>15, <2>1 DEF D!CommitPoint
  <2>3. gen \in Gen
    BY <1>15, <2>1
  <2>4. PICK g \in Gen : g = gen
    BY <2>3
  <2>5. fs \in Seq(File) /\ SegmentsFile(g) \in File
    BY <1>13, Generations
  <2>6. DP!Range(<<SegmentsFile(g)>> \o fs) = {SegmentsFile(g)} \cup DP!Range(fs)
    BY <2>5, DP!CommitPointFiles, Generations DEF DP!Vector
  <2> QED
    BY <1>13, <2>2, <2>4, <2>6, SameNames
<1>29. PICK base2 : base2 = D!Named(commits', last')
  OBVIOUS
<1>30. base2 = D!Range(front) \cup UNION {D!Range(c.files) : c \in (commits \ gone) \cup new}
  BY <1>24, <1>29 DEF D!Named
<1>31. FilesIn(infos) \subseteq base2 /\ (buf.store # None => Store(buf.store) \in base2)
  <2>1. CASE a[2]
    BY <1>14, <1>22, <1>27, <1>28, <1>30, <2>1
  <2>2. CASE ~a[2]
    BY <1>14, <1>27, <1>30, <2>2
  <2> QED
    BY <2>1, <2>2
<1>32. (D!Referenced)' = base2 \cup UNION {D!Range(h.files) : h \in held}
  <2>1. held' = held
    BY DEF DeleterCheckpoint
  <2> QED
    BY <1>29, <2>1, ReferencedIs, NamedParts
<1>33. a[2] => gen <= lastGen
  <2>1. SUFFICES ASSUME a[2] PROVE gen <= lastGen
    OBVIOUS
  <2>2. D!Readable(gen) /\ gen \in Gen
    BY <1>15, <1>19, <2>1, DeleterKnows DEF D!Newest
  <2> QED
    BY <1>7, <2>2 DEF FInv, LastOK, Up
<1>34. \A f \in (D!Referenced)' :
         \/ f \in D!Referenced \cup FilesIn(infos)
         \/ buf.store # None /\ f = Store(buf.store)
         \/ \E g \in Gen : f = SegmentsFile(g) /\ g <= lastGen
  <2>1. SUFFICES ASSUME NEW f \in (D!Referenced)', f \notin D!Referenced \cup FilesIn(infos),
                        ~(buf.store # None /\ f = Store(buf.store))
                 PROVE  \E g \in Gen : f = SegmentsFile(g) /\ g <= lastGen
    OBVIOUS
  <2>2. f \in UNION {D!Range(c.files) : c \in new}
    <3>1. f \notin UNION {D!Range(h.files) : h \in held}
      BY <2>1, DeleterKnows
    <3>2. f \in base2 /\ f \notin D!Range(front)
      BY <1>14, <1>27, <1>32, <2>1, <3>1
    <3>3. f \notin UNION {D!Range(c.files) : c \in commits}
      BY <2>1, DeleterKnows DEF D!Named
    <3> QED
      BY <1>30, <3>2, <3>3
  <2>3. a[2] /\ f \in D!Range(D!CommitPoint(gen).files)
    BY <1>22, <2>2
  <2>4. f = SegmentsFile(gen)
    BY <1>28, <2>1, <2>3
  <2> QED
    BY <1>15, <1>33, <2>3, <2>4
<1>35. commits' = commits \/ autoCommit \/ HeadOf(op'.todo) = "close"
  <2>1. SUFFICES ASSUME a[2], ~autoCommit PROVE HeadOf(op'.todo) = "close"
    BY <1>22, <1>24
  <2>2. a = <<"ckpt", TRUE>> /\ <<"ckpt", TRUE>> \in Steps(op.todo)
    BY <1>2, <1>3, <1>4, <2>1
  <2>3. "close" \in Names(op.todo)
    BY <2>1, <2>2 DEF FInv, OrderOK, OrderShape
  <2>4. PICK t : t = op'.todo
    OBVIOUS
  <2>5. /\ "close" \in Names(t) /\ t \in Seq(Step) /\ Ordered(t) /\ HeadOf(t) \notin Firsts
        /\ \A b \in Steps(t) : Before(a, b)
    BY <1>1, <1>2, <1>8, <1>9, <2>3, <2>4 DEF Popping, OrderShape, OpShape
  <2>6. PICK b \in Steps(t) : b[1] = "close"
    BY <2>5, KindsAre DEF Kinds
  <2>7. t # <<>> /\ t[1] \in Steps(t) /\ HeadOf(t) = t[1][1]
    BY <2>6, <2>5, HeadName, StepsRest DEF Steps
  <2>8. t[1] # b => Before(t[1], b)
    BY <2>5, <2>6, <2>7 DEF Ordered, Steps
  <2>9. t[1][1] # "ckpt"
    BY <1>3, <2>5, <2>7 DEF Before
  <2>10. t[1][1] \notin {"write", "finish"}
    BY <2>5, <2>7 DEF Firsts
  <2>11. t[1] = b
    BY <2>6, <2>8, <2>9, <2>10 DEF Before
  <2> QED
    BY <2>4, <2>6, <2>7, <2>11
<1>36. /\ merge.stage = "built" => /\ Core(merge.out.name) \in dir'
                                   /\ merge.stores => Store(merge.out.name) \in dir'
       /\ merge.stage = "compound" /\ "merged" \notin Names(op'.todo) =>
            Cfs(merge.out.name) \in dir'
  <2>1. merge.stage = "built" => /\ Core(merge.out.name) \in dir' 
                                 /\ merge.stores => Store(merge.out.name) \in dir'
    <3>1. merge.stage = "built" =>
            /\ Core(merge.out.name) \in dir /\ (merge.stores => Store(merge.out.name) \in dir)
            /\ \A f \in D!Referenced : f[1] = "segments" \/ f[2] # merge.out.name
      BY <1>5, <1>6 DEF MergeSoundIn, Writing
    <3>2. \A n : /\ Core(n)[1] = "core" /\ Core(n)[2] = n
                 /\ Store(n)[1] = "store" /\ Store(n)[2] = n
      BY DEF Core, Store
    <3> QED
      BY <1>25, <1>26, <3>1, <3>2
  <2>2. Names(op.todo) = {"ckpt"} \cup Names(op'.todo)
    BY <1>1, <1>8, <1>9 DEF Popping
  <2>3. merge.stage = "compound" /\ "merged" \notin Names(op'.todo) =>
          Cfs(merge.out.name) \in dir /\ Cfs(merge.out.name) \notin D!Referenced
    BY <1>5, <1>6, <2>2 DEF Sound, FilesSound, Alone
  <2> QED
    BY <1>25, <1>26, <2>1, <2>3
<1>37. \A b \in Steps(op'.todo) : b[1] = "segment" /\ b[3] # None =>
         (IF b[4] THEN Cfx(b[3]) ELSE Store(b[3])) \in dir'
  <2>1. SUFFICES ASSUME NEW b \in Steps(op'.todo), b[1] = "segment", b[3] # None
                 PROVE  (IF b[4] THEN Cfx(b[3]) ELSE Store(b[3])) \in dir'
    OBVIOUS
  <2>2. b \in S
    BY <1>2, <1>8, <1>9 DEF Popping
  <2>3. "stores" \notin Kinds(S) /\ "ckpt" \in Kinds(S)
    BY <1>1, <1>5, <1>8, <1>9 DEF Popping, Firsts
  <2>4. SegmentReady(b, S, infos, w)
    BY <1>6, <2>1, <2>2 DEF Sound, Ready
  <2>5. b[4] /\ Cfx(b[3]) \in dir /\ (Cfx(b[3]) \in FilesIn(infos) \/ Cfx(b[3]) \notin D!Referenced)
    BY <1>5, <2>1, <2>3, <2>4 DEF SegmentReady
  <2>6. FilesIn(infos) \subseteq dir'
    BY <1>21, <1>31, <1>32
  <2> QED
    BY <1>25, <1>26, <2>5, <2>6
<1>38. UNCHANGED <<disk, pinned, autoCommit, infos, gen, lastGen, counter, rollback, buf, merge,
                   status>> /\ held' = held
  BY DEF DeleterCheckpoint, si
<1>39. FilesIn(infos) \subseteq dir' /\ \A g \in Gen : SegmentsFile(g) \in dir' => SegmentsFile(g) \in dir
  BY <1>21, <1>25, <1>31, <1>32
<1>40. buf.store # None => Store(buf.store) \in dir' /\ Store(buf.store) \in D!Named(commits', last')
  BY <1>21, <1>29, <1>31, <1>32
<1>41. FilesIn(infos) \subseteq D!Named(commits', last') /\ HeadOf(op.todo) # "release"
  BY <1>1, <1>29, <1>31
<1> QED
  BY <1>1, <1>7, <1>20, <1>25, <1>34, <1>35, <1>36, <1>37, <1>38, <1>39, <1>40, <1>41, Stepped

-----------------------------------------------------------------------------
(* Steps beside the operation that holds the monitor.                      *)

\* Files that are only written are created, or were there.
LEMMA CreatesNew ==
  ASSUME IInv', FInv, Up, Up', UNCHANGED <<disk, deleter>>, dir \subseteq dir',
         \A f \in dir' : f \in dir \/ f[1] # "segments", Unreg' = Unreg
  PROVE  [DeleterStep]_(D!vars)
PROOF
<1>1. Stored' = Stored
  BY DEF Stored, FilesOn
<1>2. PICK fs : fs = dir' \ dir
  OBVIOUS
<1>3. fs \subseteq File \ {SegmentsFile(g) : g \in Gen}
  <2>1. dir' \subseteq File
    BY DEF IInv, RestOK
  <2>2. \A g : SegmentsFile(g)[1] = "segments"
    BY DEF SegmentsFile
  <2> QED
    BY <1>2, <2>1, <2>2
<1>4. dir' = dir \cup fs /\ fs \cap (dir \cup deletable) = {}
  BY <1>2 DEF FInv, Clean
<1>5. UNCHANGED <<refCounts, commits, last, held, deletable>>
  BY DEF deleter
<1>6. D!CreateFiles(fs)
  BY <1>1, <1>3, <1>4, <1>5 DEF D!CreateFiles, Stored, Up, Unreg
<1> QED
  BY <1>2, <1>6 DEF DeleterStep

\* What such a step leaves as it is.
LEMMA AsideRest ==
  ASSUME IInv, FInv, DP!IInv, IInv', op' = op,
         UNCHANGED <<disk, pinned, deleter, autoCommit, infos, gen, lastGen, rollback>>,
         counter <= counter', Up, Up', status' = "aborting" => ~autoCommit,
         dir \subseteq dir', \A f \in dir' : f \in dir \/ f[1] # "segments"
  PROVE  RollbackSound' /\ NamesBelow' /\ DiskSound' /\ LastOK' /\ WrittenOK' /\ OrderOK' /\ Clean'
PROOF
<1>1. counter \in Nat /\ counter' \in Nat
  BY BoundsAssumption DEF IInv, RestOK
<1>2. UNCHANGED <<refCounts, commits, last, held, deletable>>
  BY DEF deleter
<1>3. (D!Referenced)' = D!Referenced
  BY <1>2, ReferencedIs
<1>4. RollbackSound'
  <2>1. \A i \in DOMAIN rollback : rollback[i].store \in Int
    BY ListTypes DEF IInv, RollbackOK, Fits
  <2>2. Backable(autoCommit, status', op.todo) => Backable(autoCommit, status, op.todo)
    BY DEF Backable, Up
  <2>3. RollbackShape(rollback, infos, status, counter, commits) =>
          RollbackShape(rollback, infos, status', counter', commits)
    BY <1>1, <2>1 DEF RollbackShape, Up
  <2> QED
    BY <1>2, <2>2, <2>3 DEF FInv, RollbackSound
<1>5. NamesBelow'
  <2>1. \A f \in D!Referenced : f[1] = "segments" \/ f[2] < counter
    BY DEF FInv, NamesBelow
  <2>2. SUFFICES ASSUME NEW f \in D!Referenced, f[1] # "segments" PROVE f[2] < counter'
    BY <1>3 DEF NamesBelow
  <2>3. \E n : f[2] < n /\ n = counter
    BY <2>1, <2>2
  <2>4. f \in File
    BY <1>3, <2>2, ReferencedFiles, <2>1 DEF FInv
  <2>5. f[2] \in Nat
    BY <2>2, <2>4, FileNames
  <2> QED
    BY <1>1, <2>3, <2>5
<1>6. DiskSound' /\ OrderOK' /\ Clean'
  <2>1. DiskSound'
    BY DEF FInv, DiskSound, At, Head1
  <2>2. OrderShape(op, status', autoCommit)
    BY DEF FInv, OrderOK, OrderShape, Up
  <2> QED
    BY <1>2, <2>1, <2>2 DEF FInv, OrderOK, Clean
<1>7. LastOK'
  <2>1. \A g \in Gen : D!Readable(g)' => D!Readable(g)
    BY DEF D!Readable, SegmentsFile
  <2> QED
    BY <1>3, <2>1 DEF FInv, LastOK, Up
<1>8. WrittenOK'
  <2>1. ~At("ctor")
    <3>1. At("ctor") => "ctor" \in Names(op.todo)
      BY HeadAt, HeadName, Types
    <3> QED
      BY <3>1 DEF FInv, OrderOK, OrderShape, Up
  <2>2. At("finish")' = At("finish") /\ At("ctor")' = At("ctor")
    BY DEF At, Head1
  <2> QED
    BY <2>1, <2>2 DEF FInv, WrittenOK, Up
<1> QED
  BY <1>4, <1>5, <1>6, <1>7, <1>8

\* A step of another thread, or of a merge.
LEMMA AsideInv ==
  ASSUME IInv, FInv, DP!IInv, IInv', op' = op,
         UNCHANGED <<disk, pinned, deleter, autoCommit, infos, gen, lastGen, rollback>>,
         counter <= counter', Up, Up', status' = "aborting" => ~autoCommit,
         status = "aborted" => status' = "aborted",
         dir \subseteq dir', \A f \in dir' : f \in dir \/ f[1] # "segments",
         Writing(merge') <=> Writing(merge), merge'.out.name = merge.out.name,
         \A S : Alone(merge', S) => Alone(merge, S),
         merge.stage \in {"none", "ending"} => merge'.stage = merge.stage,
         merge'.stage = "compound" => merge.stage = "compound" \/ Cfs(merge.out.name) \in dir',
         \/ buf'.store = buf.store /\ buf'.seg = buf.seg /\ (buf'.docs = {} <=> buf.docs = {})
         \/ /\ ~op.pausing /\ status # "aborted"
            /\ buf'.store = buf.store \/ (buf.store = None /\ buf'.store = counter),
         BufSound', MergeSound'
  PROVE  FInv'
PROOF
<1>1. counter \in Nat /\ counter' \in Nat
  BY BoundsAssumption DEF IInv, RestOK
<1>2. UNCHANGED <<refCounts, commits, last, held, deletable>>
  BY DEF deleter
<1>3. PICK w, w2 : w = World /\ w2 = World'
  OBVIOUS
<1>4. /\ w.safe = dir /\ w.base = D!Named(commits, last) /\ w.ref = D!Referenced
      /\ w.held = held /\ w.counter = counter /\ w.buf = buf /\ w.merge = merge
      /\ w.status = status
      /\ w2.safe = dir' /\ w2.base = D!Named(commits, last) /\ w2.ref = D!Referenced
      /\ w2.held = held /\ w2.counter = counter' /\ w2.buf = buf' /\ w2.merge = merge'
      /\ w2.status = status'
  BY <1>2, <1>3, WorldIs, ReferencedIs
<1>5. ASSUME NEW is, NEW S, Sound(is, S, w), ListOK(is, counter), \A a \in S : a \in Step,
             ~op.pausing => "segment" \notin Kinds(S)
      PROVE  Sound(is, S, w2)
  <2>1. w2.merge.stage = "compound" /\ "merged" \notin Kinds(S) =>
           Cfs(w2.merge.out.name) \in w2.safe
    BY <1>4, <1>5 DEF Sound
  <2>2. \/ /\ w2.buf.store = w.buf.store /\ w2.buf.seg = w.buf.seg
           /\ (w2.buf.docs = {} <=> w.buf.docs = {})
        \/ /\ "segment" \notin Kinds(S) /\ w.status # "aborted"
           /\ \/ w2.buf.store = w.buf.store
              \/ w.buf.store = None /\ w2.buf.store = w.counter
    BY <1>4, <1>5
  <2>3. Alone(w2.merge, S) => Alone(w.merge, S) /\ w2.merge.out.name = w.merge.out.name
    BY <1>4
  <2>4. /\ Writing(w2.merge) <=> Writing(w.merge)
        /\ Writing(w.merge) => w2.merge.out.name = w.merge.out.name
        /\ w.merge.stage \in {"none", "ending"} => w2.merge.stage = w.merge.stage
        /\ w.status = "aborted" => w2.status = "aborted"
    BY <1>4
  <2>5. /\ w.counter \in Nat /\ w2.counter \in Nat /\ w.counter <= w2.counter
        /\ ListOK(is, w.counter) /\ w2.base = w.base /\ w2.ref = w.ref /\ w2.held = w.held
        /\ w.safe \subseteq w2.safe
        /\ w2.status \notin {"closed", "opening"} => w.status \notin {"closed", "opening"}
    BY <1>1, <1>4, <1>5 DEF Up
  <2> QED
    BY ONLY <1>5, <2>1, <2>2, <2>3, <2>4, <2>5, Aside
<1>6. PICK S, T : S = Steps(op.todo) /\ T = Steps(op.onFail)
  OBVIOUS
<1>7. /\ \A a \in S : a \in Step
      /\ \A a \in T : a \in Step
  BY <1>6, Types DEF Steps
<1>8. /\ ~op.pausing => "segment" \notin Kinds(S)
      /\ "segment" \notin Kinds(T)
  BY <1>6, KindsAre DEF FInv, OrderOK, OrderShape
<1>9. InfosSound'
  <2>1. Sound(infos, S, w) /\ ListOK(infos, counter)
    BY <1>3, <1>6 DEF FInv, InfosSound, IInv, InfosOK, Fits
  <2>2. Sound(infos, S, w2)
    BY <1>5, <1>7, <1>8, <2>1
  <2> QED
    BY <1>3, <1>6, <2>2 DEF InfosSound
<1>10. UndoSound'
  <2>1. SUFFICES ASSUME Undoing PROVE Sound(op.undo, T, w2)
    BY <1>3, <1>6 DEF UndoSound, Undoing
  <2>2. Sound(op.undo, T, w) /\ ListOK(op.undo, counter)
    BY <1>3, <1>6, <2>1 DEF FInv, UndoSound, IInv, UndoOK, Fits
  <2> QED
    BY <1>5, <1>7, <1>8, <2>2
<1>11. RollbackSound' /\ NamesBelow' /\ DiskSound' /\ LastOK' /\ WrittenOK' /\ OrderOK' /\ Clean'
  BY AsideRest
<1> QED
  BY <1>9, <1>10, <1>11 DEF FInv

\* The parts of the invariant, about the world w and the steps S.
LEMMA PartsOf ==
  ASSUME IInv, FInv, NEW w, w = World, NEW S, S = Steps(op.todo)
  PROVE  /\ w.safe = dir /\ w.base = D!Named(commits, last) /\ w.ref = D!Referenced
         /\ w.held = held /\ w.counter = counter /\ w.buf = buf /\ w.merge = merge
         /\ w.status = status /\ Kinds(S) = Names(op.todo)
         /\ Sound(infos, S, w) /\ BufSoundIn(S, w) /\ MergeSoundIn(infos, w)
         /\ Fits(infos, counter, buf.seg, merge) /\ BufShape(buf, counter)
         /\ MergeShape(merge, counter, buf.seg) /\ OpShape(op) /\ ListOK(infos, counter)
         /\ counter \in Nat /\ OrderShape(op, status, autoCommit)
         /\ \A a \in S : a \in Step
PROOF
<1>1. \A a \in S : a \in Step
  BY Types DEF Steps
<1> QED
  BY <1>1, WorldIs, KindsAre, BoundsAssumption
  DEF FInv, InfosSound, BufSound, MergeSound, OrderOK, IInv, InfosOK, Fits, BufOK, MergeOK, OpOK,
      OpFits, RestOK

\* The world of the next state when the deleter does nothing.
LEMMA WorldThen ==
  ASSUME UNCHANGED deleter, NEW w2, w2 = World'
  PROVE  /\ w2.safe = dir' /\ w2.base = D!Named(commits, last) /\ w2.ref = D!Referenced
         /\ w2.held = held /\ w2.counter = counter' /\ w2.buf = buf' /\ w2.merge = merge'
         /\ w2.status = status'
         /\ (D!Referenced)' = D!Referenced
PROOF
<1>1. UNCHANGED <<refCounts, commits, last, held, deletable>>
  BY DEF deleter
<1> QED
  BY <1>1, WorldIs, ReferencedIs

\* No file is referenced under a name that is not handed out yet.
LEMMA Unnamed ==
  ASSUME FInv, NEW n, n = counter, counter \in Nat
  PROVE  Store(n) \notin D!Referenced /\ Cfx(n) \notin D!Referenced /\ Cfs(n) \notin D!Referenced
PROOF
<1>1. \A f \in D!Referenced : f[1] = "segments" \/ f[2] < counter
  BY DEF FInv, NamesBelow
<1>2. /\ Store(n)[1] = "store" /\ Store(n)[2] = n /\ Cfx(n)[1] = "cfx" /\ Cfx(n)[2] = n
      /\ Cfs(n)[1] = "cfs" /\ Cfs(n)[2] = n
  BY DEF Store, Cfx, Cfs
<1>3. ~(counter < counter)
  OBVIOUS
<1> QED
  BY <1>1, <1>2, <1>3

\* A document is buffered.
LEMMA AddDocSafe ==
  ASSUME IInv, FInv, DP!IInv, IInv', ~Overlap, NEW d \in Doc, AddDoc(d)
  PROVE  [DeleterStep]_(D!vars) /\ FInv'
PROOF
<1>1. Buffering(d) /\ buf' = [buf EXCEPT !.docs = @ \cup {d}, !.seg = BufSegment, !.store = BufStore]
  BY DEF AddDoc
<1>2. UNCHANGED <<disk, pinned, deleter, status, autoCommit, infos, gen, lastGen, rollback, merge, op>>
  BY DEF AddDoc
<1>3. status = "open" /\ ~op.pausing
  BY <1>1 DEF Buffering, InUse
<1>4. Up /\ Up' /\ Unreg' = Unreg
  BY <1>2, <1>3 DEF Up, Unreg
<1>5. /\ BufSegment \in Name /\ BufSegment = (IF buf.seg = None THEN counter ELSE buf.seg)
      /\ BufStore \in Name
      /\ counter' \in 0..MaxSeg /\ counter <= counter' /\ BufSegment < counter'
      /\ counter' = (IF buf.seg = None THEN counter + 1 ELSE counter)
      /\ dir' = dir \cup {Store(BufStore)}
  BY <1>1, Buffers DEF Buffering
<1>6. PICK w, w2, S : w = World /\ w2 = World' /\ S = Steps(op.todo)
  OBVIOUS
<1>7. /\ w.safe = dir /\ w.base = D!Named(commits, last) /\ w.ref = D!Referenced
      /\ w.held = held /\ w.counter = counter /\ w.buf = buf /\ w.merge = merge
      /\ w.status = status /\ Kinds(S) = Names(op.todo)
      /\ Sound(infos, S, w) /\ BufSoundIn(S, w) /\ MergeSoundIn(infos, w)
      /\ BufShape(buf, counter) /\ MergeShape(merge, counter, buf.seg)
      /\ counter \in Nat /\ OrderShape(op, status, autoCommit)
  BY <1>6, PartsOf
<1>8. /\ w2.safe = dir' /\ w2.base = D!Named(commits, last) /\ w2.ref = D!Referenced
      /\ w2.held = held /\ w2.counter = counter' /\ w2.buf = buf' /\ w2.merge = merge
      /\ w2.status = status
  BY <1>2, <1>6, WorldThen
<1>9. "segment" \notin Kinds(S)
  BY <1>3, <1>7 DEF OrderShape
<1>10. /\ buf.store \in Name \cup {None} /\ buf.seg \in Name \cup {None}
       /\ buf'.docs = buf.docs \cup {d} /\ buf'.seg = BufSegment /\ buf'.store = BufStore
       /\ counter' \in Nat
  BY <1>1, <1>5, <1>7, BoundsAssumption DEF BufShape
<1>11. \/ buf.store # None /\ BufStore = buf.store
       \/ buf.store = None /\ buf.seg = None /\ BufStore = counter
  <2>1. CASE buf.store # None
    BY <2>1 DEF BufStore
  <2>2. CASE buf.store = None
    <3>1. buf.docs = {}
      BY <1>7, <1>9, <2>2 DEF BufSoundIn
    <3>2. buf.seg = None
      BY <1>7, <3>1 DEF BufSoundIn
    <3> QED
      BY <1>5, <2>2, <3>2 DEF BufStore
  <2> QED
    BY <2>1, <2>2
<1>12. BufSegment # None /\ BufStore # None
  BY <1>5, BoundsAssumption DEF Name, None
<1>13. BufSoundIn(S, w2)
  <2>1. buf'.store < counter'
    <3>1. CASE buf.store # None /\ BufStore = buf.store
      <4>1. buf.store < counter /\ buf.store \in Int
        BY <1>7, <1>10, BoundsAssumption DEF BufSoundIn, Name, None
      <4> QED
        BY <1>5, <1>7, <1>10, <3>1, <4>1
    <3>2. CASE buf.store = None /\ buf.seg = None /\ BufStore = counter
      BY <1>5, <1>7, <1>10, <3>2
    <3> QED
      BY <1>11, <3>1, <3>2
  <2>2. /\ Store(BufStore) \in D!Referenced => Store(BufStore) \in D!Named(commits, last)
        /\ Cfx(BufStore) \notin D!Referenced
    <3>1. CASE buf.store # None /\ BufStore = buf.store
      BY <1>7, <3>1 DEF BufSoundIn
    <3>2. CASE buf.store = None /\ buf.seg = None /\ BufStore = counter
      BY <1>7, <3>2, Unnamed
    <3> QED
      BY <1>11, <3>1, <3>2
  <2>3. Cfs(BufSegment) \notin D!Referenced
    <3>1. CASE buf.seg # None
      BY <1>5, <1>7, <3>1 DEF BufSoundIn
    <3>2. CASE buf.seg = None
      BY <1>5, <1>7, <3>2, Unnamed
    <3> QED
      BY <3>1, <3>2
  <2> QED
    BY <1>5, <1>8, <1>10, <1>12, <2>1, <2>2, <2>3 DEF BufSoundIn
<1>14. BufSound'
  BY <1>2, <1>6, <1>13 DEF BufSound
<1>15. MergeSoundIn(infos, w2)
  <2>1. /\ w2.buf.seg \in {w.buf.seg, None, w.counter}
        /\ w2.buf.store \in {w.buf.store, None, w.counter}
    BY <1>5, <1>7, <1>8, <1>10, <1>11
  <2>2. w.merge.stage = "init" /\ ~w.merge.stores =>
           \A i \in DOMAIN infos : infos[i].name = w.merge.clone[1].name => infos[i].store # None
    BY <1>7 DEF MergeSoundIn
  <2>3. w.merge.stage = "built" =>
           /\ Core(w.merge.out.name) \in w2.safe
           /\ w.merge.stores => Store(w.merge.out.name) \in w2.safe
    BY <1>5, <1>7, <1>8 DEF MergeSoundIn
  <2>4. /\ w2.ref = w.ref /\ w2.held = w.held /\ w2.merge = w.merge
        /\ w.counter \in Nat /\ w2.counter \in Nat /\ w.counter <= w2.counter
        /\ MergeShape(w.merge, w.counter, w.buf.seg)
    BY <1>5, <1>7, <1>8, <1>10
  <2> QED
    BY <1>7, <2>1, <2>2, <2>3, <2>4, MergeSoundStill
<1>16. MergeSound'
  BY <1>2, <1>6, <1>15 DEF MergeSound
<1>17. dir \subseteq dir' /\ \A f \in dir' : f \in dir \/ f[1] # "segments"
  BY <1>5 DEF Store
<1>18. [DeleterStep]_(D!vars)
  BY <1>2, <1>4, <1>17, CreatesNew
<1>19. /\ Writing(merge') <=> Writing(merge)
       /\ merge'.out.name = merge.out.name
       /\ \A T : Alone(merge', T) => Alone(merge, T)
       /\ merge.stage \in {"none", "ending"} => merge'.stage = merge.stage
       /\ merge'.stage = "compound" => merge.stage = "compound" \/ Cfs(merge.out.name) \in dir'
  BY <1>2
<1>20. /\ ~op.pausing /\ status # "aborted"
       /\ buf'.store = buf.store \/ (buf.store = None /\ buf'.store = counter)
  BY <1>3, <1>10, <1>11
<1>21. FInv'
  BY <1>2, <1>3, <1>4, <1>5, <1>14, <1>16, <1>17, <1>19, <1>20, AsideInv
<1> QED
  BY <1>18, <1>21

\* The buffer and the merge are not touched otherwise.
LEMMA SamePlans ==
  ASSUME IInv, FInv, DP!IInv, IInv', op' = op,
         UNCHANGED <<disk, pinned, deleter, autoCommit, infos, gen, lastGen, counter, rollback, merge>>,
         dir' = dir, Up, Up', status' = "aborting" => ~autoCommit,
         status = "aborted" => status' = "aborted",
         buf'.store = buf.store, buf'.seg = buf.seg, buf'.docs = buf.docs
  PROVE  [DeleterStep]_(D!vars) /\ FInv'
PROOF
<1>1. PICK w, w2, S : w = World /\ w2 = World' /\ S = Steps(op.todo)
  OBVIOUS
<1>2. /\ w.safe = dir /\ w.base = D!Named(commits, last) /\ w.ref = D!Referenced
      /\ w.held = held /\ w.counter = counter /\ w.buf = buf /\ w.merge = merge
      /\ w.status = status
      /\ BufSoundIn(S, w) /\ MergeSoundIn(infos, w) /\ counter \in Nat
  BY <1>1, PartsOf
<1>3. /\ w2.safe = dir /\ w2.base = w.base /\ w2.ref = w.ref
      /\ w2.held = held /\ w2.counter = counter /\ w2.buf = buf' /\ w2.merge = merge
  BY <1>1, <1>2, WorldThen
<1>4. BufSoundIn(S, w2)
  BY <1>2, <1>3 DEF BufSoundIn
<1>5. MergeSoundIn(infos, w2)
  BY <1>2, <1>3 DEF MergeSoundIn
<1>6. BufSound' /\ MergeSound'
  BY <1>1, <1>4, <1>5 DEF BufSound, MergeSound
<1>7. Unreg' = Unreg
  BY DEF Unreg
<1>8. [DeleterStep]_(D!vars)
  BY <1>7, CreatesNew
<1>9. counter <= counter'
  BY <1>2
<1>10. \A T : Alone(merge', T) => Alone(merge, T)
  OBVIOUS
<1>11. FInv'
  BY <1>6, <1>9, <1>10, AsideInv
<1> QED
  BY <1>8, <1>11

\* A delete is buffered.
LEMMA DeleteDocSafe ==
  ASSUME IInv, FInv, DP!IInv, IInv', ~Overlap, NEW d \in Doc, DeleteDoc(d)
  PROVE  [DeleterStep]_(D!vars) /\ FInv'
PROOF
<1>1. /\ buf' = [buf EXCEPT !.dels = @ \cup {d}]
      /\ UNCHANGED <<store, deleter, status, autoCommit, si, rollback, merge, op, faults>>
      /\ status = "open"
  BY DEF DeleteDoc, InUse
<1>2. buf'.store = buf.store /\ buf'.seg = buf.seg /\ buf'.docs = buf.docs
  BY <1>1 DEF IInv, BufOK, BufShape
<1>3. Up /\ Up' /\ status' = "open"
  BY <1>1 DEF Up
<1> QED
  BY <1>1, <1>2, <1>3, SamePlans DEF store, si

\* abort() is called.
LEMMA AbortSafe ==
  ASSUME IInv, FInv, DP!IInv, IInv', Abort
  PROVE  [DeleterStep]_(D!vars) /\ FInv'
PROOF
<1>1. /\ UNCHANGED <<store, deleter, autoCommit, si, rollback, buf, merge, op, faults>>
      /\ status = "open" /\ status' = "aborting" /\ ~autoCommit
  BY DEF Abort
<1>2. Up /\ Up'
  BY <1>1 DEF Up
<1> QED
  BY <1>1, <1>2, SamePlans DEF store, si

\* The merge takes a step, and writes files perhaps.
LEMMA MergeGoes ==
  ASSUME IInv, FInv, DP!IInv, IInv', merge.stage # "none",
         UNCHANGED <<disk, pinned, deleter, status, autoCommit, si, rollback, buf, op>>,
         dir \subseteq dir', \A f \in dir' : f \in dir \/ f[1] # "segments",
         merge'.clone = merge.clone, merge'.stores = merge.stores,
         merge'.out = merge.out
           \/ /\ merge'.out.name = merge.out.name /\ merge'.out.cfs = merge.out.cfs
              /\ merge'.out.delGen = merge.out.delGen /\ merge'.out.store = merge.out.store
              /\ merge'.out.storeCfs = merge.out.storeCfs,
         \/ merge'.stage = merge.stage
         \/ /\ merge.stage = "running" /\ merge'.stage = "built"
            /\ Core(merge.out.name) \in dir' /\ (merge.stores => Store(merge.out.name) \in dir')
         \/ /\ merge.stage = "committed" /\ merge'.stage = "compound"
            /\ Cfs(merge.out.name) \in dir'
  PROVE  [DeleterStep]_(D!vars) /\ FInv'
PROOF
<1>1. PICK w, w2, S : w = World /\ w2 = World' /\ S = Steps(op.todo)
  OBVIOUS
<1>2. UNCHANGED <<disk, pinned, deleter, status, autoCommit, infos, gen, lastGen, counter, rollback,
                  buf, op>>
  BY DEF si
<1>3. /\ w.safe = dir /\ w.base = D!Named(commits, last) /\ w.ref = D!Referenced
      /\ w.held = held /\ w.counter = counter /\ w.buf = buf /\ w.merge = merge
      /\ w.status = status
      /\ BufSoundIn(S, w) /\ MergeSoundIn(infos, w) /\ counter \in Nat
  BY <1>1, PartsOf
<1>4. /\ w2.safe = dir' /\ w2.base = w.base /\ w2.ref = w.ref
      /\ w2.held = held /\ w2.counter = counter /\ w2.buf = buf /\ w2.merge = merge'
  BY <1>1, <1>2, <1>3, WorldThen
<1>5. BufSoundIn(S, w2)
  BY <1>2, <1>3, <1>4 DEF BufSoundIn
<1>6. /\ Writing(merge') <=> Writing(merge)
      /\ merge'.out.name = merge.out.name
      /\ \A T : Alone(merge', T) => Alone(merge, T)
      /\ merge.stage \in {"none", "ending"} => merge'.stage = merge.stage
      /\ merge'.stage = "compound" => merge.stage = "compound" \/ Cfs(merge.out.name) \in dir'
  BY DEF Writing, Alone
<1>7. MergeSoundIn(infos, w2)
  <2>1. PICK m, m2 : m = merge /\ m2 = merge'
    OBVIOUS
  <2>2. /\ m2.clone = m.clone /\ m2.stores = m.stores
        /\ m2.out.name = m.out.name /\ m2.out.cfs = m.out.cfs
        /\ m2.out.delGen = m.out.delGen /\ m2.out.store = m.out.store
        /\ m2.out.storeCfs = m.out.storeCfs
    BY <2>1
  <2>3. OutStore(m2) <=> OutStore(m)
    BY <2>2 DEF OutStore
  <2>4. /\ m2.stage = "init" <=> m.stage = "init"
        /\ m2.stage \notin {"none", "init"} <=> m.stage \notin {"none", "init"}
        /\ Writing(m2) <=> Writing(m)
    BY <2>1 DEF Writing
  <2>5. m2.stage = "built" =>
          /\ Core(m2.out.name) \in w2.safe
          /\ m2.stores => Store(m2.out.name) \in w2.safe
    <3>1. m.stage = "built" => /\ Core(m.out.name) \in dir'
                               /\ m.stores => Store(m.out.name) \in dir'
      BY <1>3, <2>1 DEF MergeSoundIn
    <3>2. m2.stage = "built" => /\ Core(m.out.name) \in dir'
                                /\ m.stores => Store(m.out.name) \in dir'
      BY <2>1, <3>1
    <3> QED
      BY <1>4, <2>2, <3>2
  <2>6. w2.merge = m2 /\ w.merge = m /\ w2.ref = w.ref /\ w2.held = w.held
        /\ w2.counter = w.counter /\ w2.buf = w.buf
    BY <1>3, <1>4, <2>1
  <2> QED
    BY <1>3, <2>2, <2>3, <2>4, <2>5, <2>6 DEF MergeSoundIn
<1>8. BufSound' /\ MergeSound'
  BY <1>1, <1>2, <1>5, <1>7 DEF BufSound, MergeSound
<1>9. Unreg' = Unreg
  BY <1>2 DEF Unreg
<1>10. Up /\ Up'
  BY <1>2, Merging DEF Up
<1>11. [DeleterStep]_(D!vars)
  BY <1>2, <1>9, <1>10, CreatesNew
<1>12. counter <= counter' /\ (status' = "aborting" => ~autoCommit)
  BY <1>2, <1>3 DEF FInv, RollbackSound
<1>13. buf'.store = buf.store /\ buf'.seg = buf.seg /\ (buf'.docs = {} <=> buf.docs = {})
       /\ (status = "aborted" => status' = "aborted") /\ op' = op
       /\ UNCHANGED <<disk, pinned, deleter, autoCommit, infos, gen, lastGen, rollback>>
  BY <1>2
<1>14. FInv'
  BY ONLY IInv, FInv, DP!IInv, IInv', <1>6, <1>8, <1>10, <1>12, <1>13, AsideInv,
          dir \subseteq dir', \A f \in dir' : f \in dir \/ f[1] # "segments"
<1> QED
  BY <1>11, <1>14

\* The running merge is told to stop.
LEMMA StopMergesSafe ==
  ASSUME IInv, FInv, DP!IInv, IInv', StopMerges
  PROVE  [DeleterStep]_(D!vars) /\ FInv'
PROOF
<1>1. /\ merge.stage # "none" /\ merge' = [merge EXCEPT !.aborted = TRUE]
      /\ UNCHANGED <<store, deleter, status, autoCommit, si, rollback, buf, op, faults>>
  BY DEF StopMerges
<1>2. /\ merge'.clone = merge.clone /\ merge'.stores = merge.stores
      /\ merge'.out = merge.out /\ merge'.stage = merge.stage
  BY <1>1 DEF IInv, MergeOK, MergeShape
<1>3. dir' = dir /\ UNCHANGED <<disk, pinned, deleter, status, autoCommit, si, rollback, buf, op>>
  BY <1>1 DEF store
<1> QED
  BY <1>1, <1>2, <1>3, MergeGoes

\* The merged segment is written.
LEMMA MergeBuildSafe ==
  ASSUME IInv, FInv, DP!IInv, IInv', MergeBuild
  PROVE  [DeleterStep]_(D!vars) /\ FInv'
PROOF
<1>1. PICK n : n = merge.out.name
  OBVIOUS
<1>2. /\ merge.stage = "running"
      /\ dir' = dir \cup {Core(n)} \cup (IF merge.stores THEN {Store(n)} ELSE {})
      /\ merge' = [merge EXCEPT !.stage = "built", !.out.docs = LiveDocs(merge.clone)]
      /\ UNCHANGED <<disk, pinned, deleter, status, autoCommit, si, rollback, buf, op, faults>>
  BY <1>1 DEF MergeBuild
<1>3. merge.out \in SegmentInfos
  BY <1>2 DEF IInv, MergeOK, MergeShape
<1>4. /\ merge'.clone = merge.clone /\ merge'.stores = merge.stores /\ merge'.stage = "built"
      /\ merge'.out = [merge.out EXCEPT !.docs = LiveDocs(merge.clone)]
  BY <1>2 DEF IInv, MergeOK, MergeShape
<1>5. /\ merge'.out.name = merge.out.name /\ merge'.out.cfs = merge.out.cfs
      /\ merge'.out.delGen = merge.out.delGen /\ merge'.out.store = merge.out.store
      /\ merge'.out.storeCfs = merge.out.storeCfs
  BY <1>3, <1>4 DEF SegmentInfos
<1>6. /\ dir \subseteq dir' /\ \A f \in dir' : f \in dir \/ f[1] # "segments"
      /\ Core(merge.out.name) \in dir' /\ (merge.stores => Store(merge.out.name) \in dir')
  BY <1>1, <1>2 DEF Core, Store
<1>7. merge.stage # "none"
  BY <1>2
<1> QED
  BY <1>2, <1>4, <1>5, <1>6, <1>7, MergeGoes

\* Its compound file is built.
LEMMA MergeCompoundSafe ==
  ASSUME IInv, FInv, DP!IInv, IInv', MergeCompound
  PROVE  [DeleterStep]_(D!vars) /\ FInv'
PROOF
<1>1. /\ merge.stage = "committed"
      /\ dir' = dir \cup {Cfs(merge.out.name)}
      /\ merge' = [merge EXCEPT !.stage = "compound"]
      /\ UNCHANGED <<disk, pinned, deleter, status, autoCommit, si, rollback, buf, op, faults>>
  BY DEF MergeCompound
<1>2. /\ merge'.clone = merge.clone /\ merge'.stores = merge.stores /\ merge'.stage = "compound"
      /\ merge'.out = merge.out
  BY <1>1 DEF IInv, MergeOK, MergeShape
<1>3. /\ dir \subseteq dir' /\ \A f \in dir' : f \in dir \/ f[1] # "segments"
      /\ Cfs(merge.out.name) \in dir'
  BY <1>1 DEF Cfs
<1>4. merge.stage # "none"
  BY <1>1
<1> QED
  BY <1>1, <1>2, <1>3, <1>4, MergeGoes

-----------------------------------------------------------------------------
(* Operations begin.                                                       *)

\* When no operation holds the monitor the deleter knows the segments.
LEMMA FreeFacts ==
  ASSUME IInv, FInv, DP!IInv, Free, Up
  PROVE  /\ Steps(op.todo) = {} /\ Kinds({}) = {} /\ Unreg = 0
         /\ FilesIn(infos) \subseteq D!Named(commits, last)
         /\ FilesIn(infos) \subseteq D!Referenced /\ FilesIn(infos) \subseteq dir
         /\ held # {} => Writing(merge)
         /\ Alone(merge, {}) <=> merge.stage \in {"committed", "compound"}
         /\ merge.stage = "compound" => Cfs(merge.out.name) \in dir
         /\ Alone(merge, {}) => Cfs(merge.out.name) \notin D!Referenced \cup FilesIn(infos)
         /\ buf.docs # {} => buf.store # None
PROOF
<1>1. PICK w, S : w = World /\ S = Steps(op.todo)
  OBVIOUS
<1>2. S = {} /\ Kinds(S) = {}
  BY <1>1, ShortLists DEF Free, Kinds
<1>3. /\ w.safe = dir /\ w.base = D!Named(commits, last) /\ w.ref = D!Referenced
      /\ w.held = held /\ w.counter = counter /\ w.buf = buf /\ w.merge = merge
      /\ w.status = status
      /\ Sound(infos, S, w) /\ BufSoundIn(S, w)
  BY <1>1, PartsOf
<1>4. Alone(merge, {}) <=> merge.stage \in {"committed", "compound"}
  BY <1>2 DEF Alone
<1>5. FilesIn(infos) \subseteq D!Named(commits, last)
  BY <1>2, <1>3 DEF Sound, FilesSound, Up
<1>6. FilesIn(infos) \subseteq D!Referenced /\ FilesIn(infos) \subseteq dir
  BY <1>5, DeleterKnows
<1>7. held # {} => Writing(merge)
  BY <1>2, <1>3 DEF Sound
<1>8. /\ merge.stage = "compound" => Cfs(merge.out.name) \in dir
      /\ Alone(merge, {}) => Cfs(merge.out.name) \notin D!Referenced \cup FilesIn(infos)
  BY <1>2, <1>3 DEF Sound, FilesSound
<1>9. buf.docs # {} => buf.store # None
  BY <1>2, <1>3 DEF BufSoundIn
<1>10. Unreg = 0
  BY DEF Unreg, Free
<1> QED
  BY <1>1, <1>2, <1>4, <1>5, <1>6, <1>7, <1>8, <1>9, <1>10

\* What an operation may do to the buffer and the merge when it begins.
BufferGiven == \/ buf'.store = buf.store /\ buf'.seg = buf.seg /\ buf'.docs = buf.docs
               \/ buf'.store = None /\ buf'.seg = None /\ buf'.docs = {}
MergeGiven ==
    \/ merge' = merge
    \/ /\ merge.stage \notin {"none", "init"} /\ merge'.stage = "ending"
       /\ merge'.clone = merge.clone /\ merge'.out = merge.out
    \/ /\ merge.stage = "none" /\ merge'.stage = "init"
       /\ ~merge'.stores =>
            \A i \in DOMAIN infos : infos[i].name = merge'.clone[1].name => infos[i].store # None

\* An operation begins that leaves the segments as they are.
LEMMA BegunInv ==
  ASSUME IInv, FInv, DP!IInv, IInv', Free, Up, Up',
         UNCHANGED <<disk, pinned, deleter, autoCommit, infos, gen, lastGen, rollback>>,
         counter <= counter', status' = "aborting" => ~autoCommit,
         dir \subseteq dir', \A f \in dir' : f \in dir \/ f[1] # "segments",
         HeadOf(op'.todo) \notin {"finish", "ctor"},
         op'.todo = <<>> \/ Head(op'.todo) # <<"ckpt", TRUE>>,
         <<"merged", "committed">> \notin Steps(op'.todo),
         OrderShape(op', status', autoCommit), UndoSound',
         \A a \in Steps(op'.todo) : Ready(a, Steps(op'.todo), infos, World'),
         held # {} => Writing(merge') \/ "release" \in Names(op'.todo),
         BufferGiven, MergeGiven
  PROVE  [DeleterStep]_(D!vars) /\ FInv'
PROOF
<1>1. PICK w, w2, S2 : w = World /\ w2 = World' /\ S2 = Steps(op'.todo)
  OBVIOUS
<1>2. PICK S : S = {}
  OBVIOUS
<1>3. /\ S = Steps(op.todo) /\ Kinds(S) = {} /\ Unreg = 0
      /\ FilesIn(infos) \subseteq D!Named(commits, last)
      /\ FilesIn(infos) \subseteq D!Referenced /\ FilesIn(infos) \subseteq dir
      /\ held # {} => Writing(merge)
      /\ Alone(merge, S) <=> merge.stage \in {"committed", "compound"}
      /\ merge.stage = "compound" => Cfs(merge.out.name) \in dir
      /\ Alone(merge, S) => Cfs(merge.out.name) \notin D!Referenced \cup FilesIn(infos)
      /\ buf.docs # {} => buf.store # None
  BY <1>2, FreeFacts
<1>4. /\ w.safe = dir /\ w.base = D!Named(commits, last) /\ w.ref = D!Referenced
      /\ w.held = held /\ w.counter = counter /\ w.buf = buf /\ w.merge = merge
      /\ w.status = status
      /\ Sound(infos, S, w) /\ BufSoundIn(S, w) /\ MergeSoundIn(infos, w)
      /\ BufShape(buf, counter) /\ MergeShape(merge, counter, buf.seg)
      /\ counter \in Nat /\ ListOK(infos, counter)
  BY <1>1, <1>3, PartsOf
<1>5. /\ w2.safe = dir' /\ w2.base = D!Named(commits, last) /\ w2.ref = D!Referenced
      /\ w2.held = held /\ w2.counter = counter' /\ w2.buf = buf' /\ w2.merge = merge'
      /\ w2.status = status'
      /\ (D!Referenced)' = D!Referenced
  BY <1>1, WorldThen
<1>6. counter' \in Nat
  BY BoundsAssumption DEF IInv, RestOK
<1>7. Kinds(S2) = Names(op'.todo)
  BY <1>1, KindsAre
<1>8. [DeleterStep]_(D!vars)
  <2>1. Unreg' = 0
    BY DEF Unreg
  <2> QED
    BY <1>3, <2>1, CreatesNew
<1>9. /\ Writing(merge') => Writing(merge) /\ merge' = merge
      /\ Alone(merge', S2) => Alone(merge, S) /\ merge' = merge
      /\ merge'.stage = "compound" => merge' = merge
  BY <1>1, <1>3 DEF MergeGiven, Writing, Alone
<1>10. FilesSound(infos, S2, w2)
  <2>1. ASSUME NEW i \in DOMAIN infos
        PROVE  infos[i].store < counter' /\ (Writing(merge') => infos[i].store # merge'.out.name)
    <3>1. infos[i].store < counter /\ (Writing(merge) => infos[i].store # merge.out.name)
      BY <1>4, <2>1 DEF Sound, FilesSound
    <3>2. infos[i].store \in Int
      BY <1>4, <2>1, ListTypes
    <3> QED
      BY <1>4, <1>6, <1>9, <3>1, <3>2
  <2>2. buf'.store # None => Cfx(buf'.store) \notin FilesIn(infos)
    <3>1. buf.store # None => Cfx(buf.store) \notin FilesIn(infos)
      BY <1>4 DEF Sound, FilesSound
    <3> QED
      BY <3>1 DEF BufferGiven
  <2>3. FilesIn(infos) \subseteq dir'
    BY <1>3
  <2> QED
    BY <1>3, <1>5, <1>9, <2>1, <2>2, <2>3 DEF FilesSound
<1>11. Sound(infos, S2, w2)
  <2>1. merge'.stage = "compound" => Cfs(merge'.out.name) \in dir'
    BY <1>3, <1>9
  <2>2. \A a \in S2 : Ready(a, S2, infos, w2)
    BY <1>1
  <2> QED
    BY <1>5, <1>7, <1>10, <2>1, <2>2 DEF Sound
<1>12. InfosSound'
  BY <1>1, <1>11 DEF InfosSound
<1>13. BufSoundIn(S2, w2)
  <2>1. CASE buf'.store = buf.store /\ buf'.seg = buf.seg /\ buf'.docs = buf.docs
    <3>1. buf.store \in Name \cup {None}
      BY <1>4 DEF BufShape
    <3>2. /\ "segment" \in Kinds(S) /\ w.buf.docs # {} => "segment" \in Kinds(S2) \/ w.buf.store # None
      BY <1>3
    <3>3. w.buf.store # None => /\ Store(w.buf.store) \in w2.safe
                                /\ Store(w.buf.store) \in w2.ref => Store(w.buf.store) \in w2.base
                                /\ Cfx(w.buf.store) \in w2.ref => Cfx(w.buf.store) \in w.ref
      BY <1>4, <1>5 DEF BufSoundIn
    <3>4. w.buf.seg # None => (Cfs(w.buf.seg) \in w2.ref => Cfs(w.buf.seg) \in w.ref)
      BY <1>4, <1>5
    <3>5. /\ w2.buf.store = w.buf.store /\ w2.buf.seg = w.buf.seg /\ w2.buf.docs = w.buf.docs
          /\ w.counter \in Nat /\ w2.counter \in Nat /\ w.counter <= w2.counter
          /\ w.buf.store \in Name \cup {None}
      BY <1>4, <1>5, <1>6, <2>1, <3>1
    <3> QED
      BY <1>4, <3>2, <3>3, <3>4, <3>5, BufStill
  <2>2. CASE buf'.store = None /\ buf'.seg = None /\ buf'.docs = {}
    <3>1. None < counter'
      BY <1>6 DEF None
    <3> QED
      BY <1>5, <2>2, <3>1 DEF BufSoundIn
  <2> QED
    BY <2>1, <2>2 DEF BufferGiven
<1>14. MergeSoundIn(infos, w2)
  <2>1. /\ buf'.seg \in {buf.seg, None} /\ buf'.store \in {buf.store, None}
    BY DEF BufferGiven
  <2>2. CASE merge' = merge
    <3>1. w.merge.stage = "init" /\ ~w.merge.stores =>
             \A i \in DOMAIN infos : infos[i].name = w.merge.clone[1].name => infos[i].store # None
      BY <1>4 DEF MergeSoundIn
    <3>2. w.merge.stage = "built" =>
             /\ Core(w.merge.out.name) \in w2.safe
             /\ w.merge.stores => Store(w.merge.out.name) \in w2.safe
      BY <1>4, <1>5 DEF MergeSoundIn
    <3>3. /\ w2.ref = w.ref /\ w2.held = w.held /\ w2.merge = w.merge
          /\ w.counter \in Nat /\ w2.counter \in Nat /\ w.counter <= w2.counter
          /\ MergeShape(w.merge, w.counter, w.buf.seg)
          /\ w2.buf.seg \in {w.buf.seg, None, w.counter}
          /\ w2.buf.store \in {w.buf.store, None, w.counter}
      BY <1>4, <1>5, <1>6, <2>1, <2>2
    <3> QED
      BY <1>4, <3>1, <3>2, <3>3, MergeSoundStill
  <2>3. CASE /\ merge.stage \notin {"none", "init"} /\ merge'.stage = "ending"
             /\ merge'.clone = merge.clone /\ merge'.out = merge.out
    <3>1. merge.out.name < counter /\ merge.out.name \notin {buf.seg, buf.store}
      BY <1>4, <2>3 DEF MergeSoundIn
    <3>2. merge.out.name \in Name /\ merge.out.name \in Nat /\ merge.out.name # None
      BY <2>3, MergedName, BoundsAssumption DEF Name, None
    <3>3. merge'.out.name < counter' /\ merge'.out.name \notin {buf'.seg, buf'.store}
      BY <1>4, <1>6, <2>1, <2>3, <3>1, <3>2
    <3>4. \A h \in held : h = [kind |-> "held", id |-> "merge", files |-> InfosFiles(merge.clone)]
      BY <1>4 DEF MergeSoundIn
    <3> QED
      BY <1>5, <2>3, <3>3, <3>4 DEF MergeSoundIn, Writing
  <2>4. CASE /\ merge.stage = "none" /\ merge'.stage = "init"
             /\ ~merge'.stores =>
                  \A i \in DOMAIN infos : infos[i].name = merge'.clone[1].name => infos[i].store # None
    <3>1. held = {}
      BY <1>3, <2>4 DEF Writing
    <3> QED
      BY <1>5, <2>4, <3>1 DEF MergeSoundIn, Writing
  <2> QED
    BY <2>2, <2>3, <2>4 DEF MergeGiven
<1>15. BufSound' /\ MergeSound'
  BY <1>1, <1>13, <1>14 DEF BufSound, MergeSound
<1>16. RollbackSound' /\ NamesBelow' /\ DiskSound' /\ LastOK' /\ WrittenOK' /\ OrderOK' /\ Clean'
  <2>1. deletable' = {} /\ commits' = commits
    BY DEF deleter, FInv, Clean
  <2>2. HeadOf(op.todo) # "close"
    BY DEF Free, HeadOf
  <2>3. \A g \in Gen : SegmentsFile(g) \in dir' => SegmentsFile(g) \in dir
    BY DEF SegmentsFile
  <2>4. status \notin {"closed", "opening"} /\ status' \notin {"closed", "opening"}
    BY DEF Up
  <2>5. \A f \in (D!Referenced)' : f \in D!Referenced
    BY <1>5
  <2> QED
    BY <2>1, <2>2, <2>3, <2>4, <2>5, RestStill
<1> QED
  BY <1>8, <1>12, <1>15, <1>16 DEF FInv

\* One step after the other.
LEMMA Befores ==
  /\ Before(<<"stores">>, <<"ckpt", FALSE>>)
  /\ \A a : /\ a[1] = "segment" => Before(<<"stores">>, a) /\ Before(<<"ckpt", FALSE>>, a)
            /\ a[1] \in {"segment", "cfs"} => Before(a, <<"bind">>)
  /\ Before(<<"stores">>, <<"bind">>) /\ Before(<<"ckpt", FALSE>>, <<"bind">>)
PROOF
<1>1. /\ <<"stores">>[1] = "stores" /\ <<"ckpt", FALSE>>[1] = "ckpt" /\ <<"bind">>[1] = "bind"
      /\ <<"ckpt", FALSE>> # <<"ckpt", TRUE>> /\ <<"bind">> # <<"ckpt", TRUE>>
  OBVIOUS
<1>2. \A a : a[1] = "segment" => a # <<"ckpt", TRUE>>
  BY <<"ckpt", TRUE>>[1] = "ckpt"
<1> QED
  BY <1>1, <1>2 DEF Before

\* The steps of doFlush are in order and ready, whatever the merge does.
LEMMA FlushReady ==
  ASSUME IInv, FInv, DP!IInv, Free, Up, NEW fds \in BOOLEAN,
         NEW t, t = <<>> \/ t = <<<<"bind">>>>, NEW s, s = FlushSteps(fds) \o t,
         NEW w2, w2.counter = counter, dir \subseteq w2.safe,
         w2.buf.store = buf.store, w2.buf.seg = buf.seg, w2.buf.docs = buf.docs,
         Writing(w2.merge) => w2.merge = merge
  PROVE  /\ \A a \in Steps(s) : Ready(a, Steps(s), infos, w2)
         /\ s \in Seq(Step) /\ s # <<>> /\ Ordered(s)
         /\ Names(s) \subseteq {"stores", "ckpt", "segment", "bind"}
         /\ <<"ckpt", TRUE>> \notin Steps(s) /\ HeadOf(s) \in {"stores", "segment"}
PROOF
<1>1. buf.store \in Name \cup {None}
  BY DEF IInv, BufOK, BufShape
<1>2. PICK f1 : f1 = ((fds \/ autoCommit) /\ buf.store # None)
  OBVIOUS
<1>3. f1 \in BOOLEAN /\ UseCompound \in BOOLEAN
  BY <1>2, FlagsAssumption DEF IInv, RestOK
<1>4. PICK a, b, se, sf, bi :
        /\ a = <<"stores">> /\ b = <<"ckpt", FALSE>> /\ bi = <<"bind">>
        /\ se = <<"segment", f1, buf.store, FALSE>>
        /\ sf = <<"segment", FALSE, buf.store, UseCompound>>
  OBVIOUS
<1>5. a \in Step /\ b \in Step /\ se \in Step /\ sf \in Step /\ bi \in Step
      /\ a[1] = "stores" /\ b[1] = "ckpt" /\ se[1] = "segment" /\ sf[1] = "segment"
      /\ bi[1] = "bind" /\ b # <<"ckpt", TRUE>>
  BY <1>1, <1>3, <1>4 DEF Step
<1>6. /\ se[2] = f1 /\ se[3] = buf.store /\ se[4] = FALSE
      /\ sf[2] = FALSE /\ sf[3] = buf.store /\ sf[4] = UseCompound
  BY <1>4
<1>7. PICK sep : sep = (f1 /\ (buf.docs = {} \/ buf.seg # buf.store))
  OBVIOUS
<1>8. PICK c : c = IF UseCompound THEN <<b>> ELSE <<>>
  OBVIOUS
<1>9. /\ sep => FlushSteps(fds) = (<<a>> \o c) \o <<sf>>
      /\ ~sep => FlushSteps(fds) = <<se>>
  BY <1>2, <1>4, <1>7, <1>8 DEF FlushSteps
<1>10. /\ Before(a, b) /\ Before(a, sf) /\ Before(b, sf) /\ Before(a, bi) /\ Before(b, bi)
       /\ Before(sf, bi) /\ Before(se, bi)
  BY <1>4, <1>5, Befores
<1>11. /\ \A x \in {a, b, se, sf, bi} : /\ <<x>> \in Seq(Step) /\ <<x>> # <<>>
                                        /\ Steps(<<x>>) = {x} /\ Ordered(<<x>>)
                                        /\ HeadOf(<<x>>) = x[1]
       /\ <<>> \in Seq(Step) /\ Steps(<<>>) = {} /\ Ordered(<<>>)
  <2>1. ASSUME NEW x \in {a, b, se, sf, bi}
        PROVE  /\ <<x>> \in Seq(Step) /\ <<x>> # <<>> /\ Steps(<<x>>) = {x} /\ Ordered(<<x>>)
               /\ HeadOf(<<x>>) = x[1]
    <3>1. x \in Step
      BY <1>5, <2>1
    <3>2. PICK q : q = <<x>>
      OBVIOUS
    <3>3. q \in Seq(Step) /\ q # <<>> /\ q[1] = x
      BY <3>1, <3>2
    <3>4. Steps(q) = {x} /\ Ordered(q)
      BY <3>2, ShortLists
    <3> QED
      BY <3>2, <3>3, <3>4, HeadName
  <2>2. <<>> \in Seq(Step)
    BY Literals
  <2>3. Steps(<<>>) = {} /\ Ordered(<<>>)
    BY ShortLists
  <2> QED
    BY <2>1, <2>2, <2>3
<1>12. c \in Seq(Step) /\ Ordered(c) /\ Steps(c) = (IF UseCompound THEN {b} ELSE {})
  BY <1>8, <1>11
<1>13. t \in Seq(Step) /\ Ordered(t) /\ Steps(t) \subseteq {bi}
  BY <1>4, <1>11
<1>14. sep => /\ Steps(FlushSteps(fds)) = {a, sf} \cup Steps(c) /\ Ordered(FlushSteps(fds))
              /\ FlushSteps(fds) \in Seq(Step) /\ FlushSteps(fds) # <<>>
              /\ HeadOf(FlushSteps(fds)) = "stores"
  <2>1. PICK q, r, h : q = <<a>> /\ r = <<sf>> /\ h = q \o c
    OBVIOUS
  <2>2. /\ q \in Seq(Step) /\ r \in Seq(Step) /\ Steps(q) = {a} /\ Steps(r) = {sf} /\ Ordered(q)
        /\ Ordered(r) /\ q # <<>> /\ HeadOf(q) = "stores"
    BY <1>5, <1>11, <2>1
  <2>3. Steps(h) = {a} \cup Steps(c) /\ Ordered(h) /\ h # <<>> /\ HeadOf(h) = "stores" /\ h \in Seq(Step)
    <3>1. \A x \in Steps(q), y \in Steps(c) : Before(x, y)
      BY <1>10, <1>12, <2>2
    <3>2. PICK d : d = c
      OBVIOUS
    <3>3. d \in Seq(Step) /\ Ordered(d) /\ h = q \o d /\ \A x \in Steps(q), y \in Steps(d) : Before(x, y)
      BY <1>12, <2>1, <3>1, <3>2
    <3>4. /\ Steps(h) = Steps(q) \cup Steps(d) /\ Ordered(h) /\ HeadOf(h) = HeadOf(q) /\ h # <<>>
      BY ONLY <2>2, <3>3, StepsJoin
    <3>5. h \in Seq(Step)
      BY ONLY <2>2, <3>3
    <3> QED
      BY <2>2, <3>2, <3>4, <3>5
  <2>4. PICK k : k = h \o r
    OBVIOUS
  <2>5. Steps(k) = Steps(h) \cup {sf} /\ Ordered(k) /\ k # <<>> /\ HeadOf(k) = "stores" /\ k \in Seq(Step)
    <3>1. \A x \in Steps(h), y \in Steps(r) : Before(x, y)
      BY <1>10, <1>12, <2>2, <2>3
    <3> QED
      BY <2>2, <2>3, <2>4, <3>1, StepsJoin
  <2>6. sep => FlushSteps(fds) = k
    BY <1>9, <2>1, <2>4
  <2> QED
    BY <2>3, <2>5, <2>6
<1>15. ~sep => /\ Steps(FlushSteps(fds)) = {se} /\ Ordered(FlushSteps(fds))
               /\ FlushSteps(fds) \in Seq(Step) /\ FlushSteps(fds) # <<>>
               /\ HeadOf(FlushSteps(fds)) = "segment"
  BY <1>5, <1>9, <1>11
<1>16. PICK f : f = FlushSteps(fds)
  OBVIOUS
<1>17. /\ f \in Seq(Step) /\ f # <<>> /\ Ordered(f) /\ HeadOf(f) \in {"stores", "segment"}
       /\ sep => Steps(f) = {a, sf} \cup Steps(c)
       /\ ~sep => Steps(f) = {se}
  BY <1>14, <1>15, <1>16
<1>18. \A x \in Steps(f), y \in Steps(t) : Before(x, y)
  BY <1>10, <1>12, <1>13, <1>17
<1>19. /\ Steps(s) = Steps(f) \cup Steps(t) /\ Ordered(s) /\ HeadOf(s) = HeadOf(f) /\ s # <<>>
       /\ s \in Seq(Step)
  BY <1>13, <1>16, <1>17, <1>18, StepsJoin
<1>20. Steps(s) \subseteq {a, b, sf, se, bi}
  BY <1>12, <1>13, <1>17, <1>19
<1>21. <<"ckpt", TRUE>> \notin Steps(s) /\ Names(s) \subseteq {"stores", "ckpt", "segment", "bind"}
  <2>1. \A x \in Steps(s) : x # <<"ckpt", TRUE>> /\ x[1] \in {"stores", "ckpt", "segment", "bind"}
    BY <1>5, <1>20, <<"ckpt", TRUE>>[1] = "ckpt"
  <2> QED
    BY <2>1, KindsAre DEF Kinds
<1>22. PICK w : w = World
  OBVIOUS
<1>23. w.safe = dir /\ w.counter = counter /\ w.buf = buf /\ w.merge = merge
       /\ BufSoundIn(Steps(op.todo), w) /\ MergeSoundIn(infos, w)
  BY <1>22, PartsOf
<1>24. /\ buf.store < counter /\ (buf.docs # {} => buf.store # None)
       /\ Writing(merge) => buf.store # merge.out.name
       /\ buf.store # None => Store(buf.store) \in dir
  BY <1>23, FreeFacts DEF BufSoundIn, MergeSoundIn, Writing
<1>25. \A x \in Steps(s) : Ready(x, Steps(s), infos, w2)
  <2>1. CASE sep
    <3>1. PICK S2 : S2 = Steps(s)
      OBVIOUS
    <3>2. S2 \subseteq {a, sf, bi} \cup Steps(c) /\ a \in S2 /\ sf \in S2 /\ Steps(c) \subseteq S2
      BY <1>13, <1>17, <1>19, <2>1, <3>1
    <3>3. "stores" \in Kinds(S2) /\ "segment" \in Kinds(S2) /\ ("ckpt" \in Kinds(S2) <=> UseCompound)
      BY <1>5, <1>12, <3>2 DEF Kinds
    <3>4. SegmentReady(sf, S2, infos, w2)
      BY <1>6, <1>24, <3>3 DEF SegmentReady
    <3>5. Ready(a, S2, infos, w2)
      BY <1>5, <3>3 DEF Ready
    <3>6. Ready(sf, S2, infos, w2)
      BY <1>5, <3>4 DEF Ready
    <3>7. Ready(b, S2, infos, w2) /\ Ready(bi, S2, infos, w2)
      BY <1>5 DEF Ready
    <3> QED
      BY <1>12, <3>1, <3>2, <3>5, <3>6, <3>7
  <2>2. CASE ~sep
    <3>1. PICK S2 : S2 = Steps(s)
      OBVIOUS
    <3>2. S2 \subseteq {se, bi}
      BY <1>13, <1>17, <1>19, <2>2, <3>1
    <3>3. "stores" \notin Kinds(S2) /\ "ckpt" \notin Kinds(S2)
      BY <1>5, <3>2 DEF Kinds
    <3>4. f1 => buf.docs # {} /\ buf.seg = buf.store
      BY <1>7, <2>2
    <3>5. buf.store # None => Store(buf.store) \in w2.safe
      BY <1>24
    <3>6. SegmentReady(se, S2, infos, w2)
      BY <1>6, <1>24, <3>3, <3>4, <3>5 DEF SegmentReady
    <3>7. Ready(se, S2, infos, w2)
      BY <1>5, <3>6 DEF Ready
    <3>8. Ready(bi, S2, infos, w2)
      BY <1>5 DEF Ready
    <3> QED
      BY <3>1, <3>2, <3>7, <3>8
  <2> QED
    BY <2>1, <2>2
<1> QED
  BY <1>17, <1>19, <1>21, <1>25

\* doFlush begins.
LEMMA FlushBegins ==
  ASSUME IInv, FInv, DP!IInv, IInv', Free, Up, Up', NEW fds \in BOOLEAN, Begin(FlushSteps(fds), TRUE),
         UNCHANGED <<dir, disk, pinned, deleter, autoCommit, infos, gen, lastGen, counter, rollback,
                     merge>>,
         status' = "aborting" => ~autoCommit,
         buf'.store = buf.store, buf'.seg = buf.seg, buf'.docs = buf.docs
  PROVE  [DeleterStep]_(D!vars) /\ FInv'
PROOF
<1>1. PICK s, w2 : s = FlushSteps(fds) /\ w2 = World'
  OBVIOUS
<1>2. s \in Seq(Step)
  BY <1>1, FlushScript DEF Script
<1>3. s = FlushSteps(fds) \o <<>>
  <2>1. s \o <<>> = s
    BY ONLY <1>2
  <2> QED
    BY <1>1, <2>1
<1>4. /\ w2.safe = dir' /\ w2.counter = counter' /\ w2.buf = buf' /\ w2.merge = merge'
  BY <1>1, WorldIs
<1>5. /\ \A a \in Steps(s) : Ready(a, Steps(s), infos, w2)
      /\ s # <<>> /\ Ordered(s)
      /\ Names(s) \subseteq {"stores", "ckpt", "segment", "bind"}
      /\ <<"ckpt", TRUE>> \notin Steps(s) /\ HeadOf(s) \in {"stores", "segment"}
  <2>1. PICK t : t = <<>>
    OBVIOUS
  <2>2. s = FlushSteps(fds) \o t /\ (t = <<>> \/ t = <<<<"bind">>>>)
    BY <1>3, <2>1
  <2>3. /\ w2.counter = counter /\ dir \subseteq w2.safe
        /\ w2.buf.store = buf.store /\ w2.buf.seg = buf.seg /\ w2.buf.docs = buf.docs
        /\ Writing(w2.merge) => w2.merge = merge
    BY <1>4
  <2> QED
    BY <2>2, <2>3, FlushReady
<1>6. op' = [todo |-> s, undo |-> infos, onFail |-> <<>>, pausing |-> TRUE] /\ op'.todo = s
  BY <1>1 DEF Begin
<1>7. OrderShape(op', status', autoCommit)
  <2>1. PICK o2, is, st, ac, p : o2 = op' /\ is = infos /\ st = status' /\ ac = autoCommit /\ p = TRUE
    OBVIOUS
  <2>2. o2 = [todo |-> s, undo |-> is, onFail |-> <<>>, pausing |-> p]
    BY <1>6, <2>1
  <2>3. Names(s) \cap {"ctor", "write", "finish"} = {} /\ ("segment" \in Names(s) => p)
    BY <1>5, <2>1
  <2>4. OrderShape(o2, st, ac)
    BY ONLY <1>2, <1>5, <2>2, <2>3, OrderBegun
  <2> QED
    BY <2>1, <2>4
<1>8. UndoSound'
  BY <1>5, <1>6 DEF UndoSound, Undoing, Undoes
<1>9. /\ HeadOf(op'.todo) \notin {"finish", "ctor"}
      /\ op'.todo = <<>> \/ Head(op'.todo) # <<"ckpt", TRUE>>
  <2>1. <<"ckpt", TRUE>>[1] = "ckpt"
    OBVIOUS
  <2> QED
    BY <1>5, <1>6, <2>1 DEF HeadOf
<1>10. <<"merged", "committed">> \notin Steps(op'.todo)
  <2>1. <<"merged", "committed">>[1] = "merged"
    OBVIOUS
  <2> QED
    BY <1>5, <1>6, <2>1, KindsAre DEF Kinds
<1>11. \A a \in Steps(op'.todo) : Ready(a, Steps(op'.todo), infos, World')
  BY <1>1, <1>5, <1>6
<1>12. held # {} => Writing(merge') \/ "release" \in Names(op'.todo)
  BY FreeFacts
<1>13. BufferGiven /\ MergeGiven
  BY DEF BufferGiven, MergeGiven
<1>14. counter <= counter'
  BY DEF IInv, RestOK
<1> QED
  BY <1>7, <1>8, <1>9, <1>10, <1>11, <1>12, <1>13, <1>14, BegunInv

\* flush() is called.
LEMMA FlushSafe ==
  ASSUME IInv, FInv, DP!IInv, IInv', ~Overlap, Flush
  PROVE  [DeleterStep]_(D!vars) /\ FInv'
PROOF
<1>1. /\ status = "open" /\ Free /\ Begin(FlushSteps(FALSE), TRUE)
      /\ UNCHANGED <<store, deleter, status, autoCommit, si, rollback, buf, merge, faults>>
  BY DEF Flush, InUse
<1>2. Up /\ Up' /\ status' # "aborting"
  BY <1>1 DEF Up
<1>3. FALSE \in BOOLEAN
  OBVIOUS
<1> QED
  BY <1>1, <1>2, <1>3, FlushBegins DEF store, si

\* close() is called.
LEMMA CloseSafe ==
  ASSUME IInv, FInv, DP!IInv, IInv', NEW wait \in BOOLEAN, Close(wait)
  PROVE  [DeleterStep]_(D!vars) /\ FInv'
PROOF
<1>1. /\ status = "open" /\ Free /\ Begin(FlushSteps(TRUE), TRUE)
      /\ status' \in {"closing", "stopping"} /\ buf' = [buf EXCEPT !.closed = TRUE]
      /\ UNCHANGED <<store, deleter, autoCommit, si, rollback, merge, faults>>
  BY DEF Close
<1>2. Up /\ Up' /\ status' # "aborting"
  BY <1>1 DEF Up
<1>3. buf'.store = buf.store /\ buf'.seg = buf.seg /\ buf'.docs = buf.docs
  BY <1>1 DEF IInv, BufOK, BufShape
<1>4. TRUE \in BOOLEAN
  OBVIOUS
<1> QED
  BY <1>1, <1>2, <1>3, <1>4, FlushBegins DEF store, si

\* abort() goes on to close what it has left.
LEMMA AbortCloseSafe ==
  ASSUME IInv, FInv, DP!IInv, IInv', AbortClose
  PROVE  [DeleterStep]_(D!vars) /\ FInv'
PROOF
<1>1. /\ status = "aborted" /\ Free /\ Begin(FlushSteps(TRUE), TRUE)
      /\ status' = "abandoning" /\ buf' = [buf EXCEPT !.closed = TRUE]
      /\ UNCHANGED <<store, deleter, autoCommit, infos, gen, lastGen, counter, rollback, merge, faults>>
  BY DEF AbortClose
<1>2. Up /\ Up' /\ status' # "aborting"
  BY <1>1 DEF Up
<1>3. buf'.store = buf.store /\ buf'.seg = buf.seg /\ buf'.docs = buf.docs
  BY <1>1 DEF IInv, BufOK, BufShape
<1>4. TRUE \in BOOLEAN
  OBVIOUS
<1> QED
  BY <1>1, <1>2, <1>3, <1>4, FlushBegins DEF store, si

\* An operation of a few steps begins, none of which commits anything.
LEMMA PlainBegins ==
  ASSUME IInv, FInv, DP!IInv, IInv', Free, Up,
         UNCHANGED <<disk, pinned, deleter, status, autoCommit, infos, gen, lastGen, rollback>>,
         NEW s \in Seq(Step), Ordered(s), Begin(s, FALSE),
         Names(s) \cap {"ctor", "write", "finish", "segment", "ckpt"} = {},
         <<"merged", "committed">> \notin Steps(s),
         counter <= counter', dir \subseteq dir', \A f \in dir' : f \in dir \/ f[1] # "segments",
         \A a \in Steps(s) : Ready(a, Steps(s), infos, World'),
         held # {} => Writing(merge') \/ "release" \in Names(s),
         BufferGiven, MergeGiven
  PROVE  [DeleterStep]_(D!vars) /\ FInv'
PROOF
<1>1. op' = [todo |-> s, undo |-> infos, onFail |-> <<>>, pausing |-> FALSE] /\ op'.todo = s
  BY DEF Begin
<1>2. HeadOf(s) = "idle" \/ HeadOf(s) \in Names(s)
  BY HeadName
<1>3. <<"ckpt", TRUE>> \notin Steps(s)
  <2>1. <<"ckpt", TRUE>>[1] = "ckpt"
    OBVIOUS
  <2> QED
    BY <2>1, KindsAre DEF Kinds
<1>4. OrderShape(op', status', autoCommit)
  <2>1. PICK o2, is, st, ac, p : o2 = op' /\ is = infos /\ st = status' /\ ac = autoCommit /\ p = FALSE
    OBVIOUS
  <2>2. o2 = [todo |-> s, undo |-> is, onFail |-> <<>>, pausing |-> p]
    BY <1>1, <2>1
  <2>3. Names(s) \cap {"ctor", "write", "finish"} = {} /\ ("segment" \in Names(s) => p)
    OBVIOUS
  <2>4. OrderShape(o2, st, ac)
    BY <1>3, <2>2, <2>3, OrderBegun
  <2> QED
    BY <2>1, <2>4
<1>5. HeadOf(s) \notin {"finish", "ctor", "write"}
  BY <1>2
<1>6. UndoSound'
  BY <1>1, <1>5 DEF UndoSound, Undoing, Undoes
<1>7. op'.todo = <<>> \/ Head(op'.todo) # <<"ckpt", TRUE>>
  <2>1. PICK t : t = Tail(s)
    OBVIOUS
  <2>2. s # <<>> => Head(s) \in Steps(s)
    BY ONLY <2>1, StepsRest, s \in Seq(Step)
  <2>3. s # <<>> => Head(s) # <<"ckpt", TRUE>>
    BY ONLY <1>3, <2>2
  <2> QED
    BY <1>1, <2>3
<1>8. Up' /\ (status' = "aborting" => ~autoCommit)
  BY DEF Up, FInv, RollbackSound
<1> QED
  BY <1>1, <1>4, <1>5, <1>6, <1>7, <1>8, BegunInv

\* Steps that need no order, and an exception at the end.
LEMMA PlainOrder ==
  /\ \A a, b : a[1] \in {"new", "delete", "refresh", "release", "merged", "partial"}
                 /\ b[1] \in {"new", "delete", "refresh", "release", "merged", "partial", "throw"} =>
       Before(a, b)
PROOF
<1>1. <<"ckpt", TRUE>>[1] = "ckpt"
  OBVIOUS
<1> QED
  BY <1>1 DEF Before

\* Three steps in order.
LEMMA ThreeSteps ==
  ASSUME NEW a, NEW b, NEW c, Before(a, b), Before(a, c), Before(b, c)
  PROVE  Steps(<<a, b, c>>) = {a, b, c} /\ Ordered(<<a, b, c>>)
PROOF
<1>1. PICK s : s = <<a, b, c>>
  OBVIOUS
<1>2. DOMAIN s = {1, 2, 3} /\ s[1] = a /\ s[2] = b /\ s[3] = c
  BY <1>1
<1>3. Steps(s) = {a, b, c}
  BY <1>2 DEF Steps
<1>4. Ordered(s)
  BY <1>2 DEF Ordered
<1> QED
  BY <1>1, <1>3, <1>4

\* The steps of a merge that leaves nothing behind.
LEMMA DropSteps ==
  ASSUME NEW n \in Name
  PROVE  /\ Drop(n) \in Seq(Step) /\ Ordered(Drop(n)) /\ Names(Drop(n)) = {"refresh", "release", "merged"}
         /\ Steps(Drop(n)) = {<<"refresh", n>>, <<"release">>, <<"merged", "none">>}
PROOF
<1>1. PICK a, b, c : a = <<"refresh", n>> /\ b = <<"release">> /\ c = <<"merged", "none">>
  OBVIOUS
<1>2. /\ a \in Step /\ b \in Step /\ c \in Step
      /\ a[1] = "refresh" /\ b[1] = "release" /\ c[1] = "merged"
  BY <1>1 DEF Step
<1>3. Drop(n) = <<a, b, a, c>>
  BY <1>1 DEF Drop
<1>4. Before(a, b) /\ Before(a, a) /\ Before(a, c) /\ Before(b, a) /\ Before(b, c)
  BY <1>2, PlainOrder
<1>5. <<a, b, a, c>> \in Seq(Step) /\ Names(<<a, b, a, c>>) = {a[1], b[1], a[1], c[1]}
  BY <1>2, Literals
<1>6. Steps(<<a, b, a, c>>) = {a, b, a, c} /\ Ordered(<<a, b, a, c>>)
  <2>1. PICK u, v : u = <<a, b>> /\ v = <<a, c>>
    OBVIOUS
  <2>2. u \in Seq(Step) /\ v \in Seq(Step) /\ <<a, b, a, c>> = u \o v
    BY <1>2, <2>1
  <2>3. Steps(<<a, b>>) = {a, b} /\ Ordered(<<a, b>>) /\ Steps(<<a, c>>) = {a, c} /\ Ordered(<<a, c>>)
    BY ONLY <1>4, ShortLists
  <2>4. Steps(u) = {a, b} /\ Ordered(u) /\ Steps(v) = {a, c} /\ Ordered(v)
    BY ONLY <2>1, <2>3
  <2>5. \A p \in Steps(u), q \in Steps(v) : Before(p, q)
    <3>1. Before(b, a)
      BY <1>2, PlainOrder
    <3> QED
      BY ONLY <1>4, <2>4, <3>1
  <2>6. Steps(u \o v) = Steps(u) \cup Steps(v) /\ Ordered(u \o v)
    BY ONLY <2>2, <2>4, <2>5, StepsJoin
  <2> QED
    BY ONLY <2>2, <2>4, <2>6
<1>7. {a[1], b[1], a[1], c[1]} = {"refresh", "release", "merged"} /\ {a, b, a, c} = {a, b, c}
  BY <1>2
<1> QED
  BY <1>1, <1>3, <1>5, <1>6, <1>7

\* A merge is dropped after its copy was taken.
LEMMA MergeDropped ==
  ASSUME IInv, FInv, DP!IInv, IInv', Free, Writing(merge), merge' = [merge EXCEPT !.stage = "ending"],
         UNCHANGED <<disk, pinned, deleter, status, autoCommit, infos, gen, lastGen, counter, rollback,
                     buf>>,
         dir \subseteq dir', \A f \in dir' : f \in dir \/ f[1] # "segments",
         NEW s \in Seq(Step), Ordered(s), Begin(s, FALSE), "release" \in Names(s),
         \A a \in Steps(s) : a \in {<<"refresh", merge.out.name>>, <<"release">>, <<"merged", "none">>}
                               \/ a[1] = "throw"
  PROVE  [DeleterStep]_(D!vars) /\ FInv'
PROOF
<1>1. PICK n : n = merge.out.name
  OBVIOUS
<1>2. PICK w, w2, S : w = World /\ w2 = World' /\ S = Steps(op.todo)
  OBVIOUS
<1>3. /\ w.counter = counter /\ w.buf = buf /\ w.merge = merge /\ MergeSoundIn(infos, w)
  BY <1>2, PartsOf
<1>4. w2.counter = counter /\ w2.buf = buf /\ w2.merge = merge' /\ w2.status = status
  BY <1>2, WorldThen
<1>5. merge'.stage = "ending" /\ merge'.clone = merge.clone /\ merge'.out = merge.out
      /\ merge.stage \notin {"none", "init"}
  BY DEF IInv, MergeOK, MergeShape, Writing
<1>6. n \in Name /\ n # None /\ n < counter /\ n # buf.store
  <2>1. n \in Name
    BY <1>1, <1>5, MergedName
  <2>2. n # None
    BY <2>1 DEF Name, None
  <2>3. n < counter /\ n # buf.store
    BY <1>1, <1>3, <1>5 DEF MergeSoundIn
  <2> QED
    BY <2>1, <2>2, <2>3
<1>7. /\ <<"refresh", n>>[1] = "refresh" /\ <<"refresh", n>>[2] = n /\ <<"release">>[1] = "release"
      /\ <<"merged", "none">>[1] = "merged"
      /\ <<"merged", "none">> # <<"merged", "committed">>
      /\ <<"merged", "committed">>[1] = "merged"
  OBVIOUS
<1>8. \A a \in Steps(s) : a[1] \in {"refresh", "release", "merged", "throw"}
                          /\ a # <<"merged", "committed">> /\ (a[1] = "refresh" => a[2] = n)
  BY <1>1, <1>7
<1>9. ~Writing(merge') /\ ~Alone(merge', Steps(s))
  BY <1>5, <1>8 DEF Writing, Alone
<1>10. \A a \in Steps(s) : Ready(a, Steps(s), infos, w2)
  <2>1. RefreshReady(n, Steps(s), w2)
    BY <1>4, <1>6, <1>9 DEF RefreshReady
  <2> QED
    BY <1>4, <1>5, <1>8, <2>1 DEF Ready
<1>11. Names(s) \cap {"ctor", "write", "finish", "segment", "ckpt"} = {}
  BY <1>8, KindsAre DEF Kinds
<1>12. BufferGiven /\ MergeGiven
  BY <1>5 DEF BufferGiven, MergeGiven
<1>13. Up /\ counter <= counter'
  BY <1>5, Merging DEF Up, IInv, RestOK
<1> QED
  BY <1>2, <1>8, <1>10, <1>11, <1>12, <1>13, PlainBegins

\* The same steps, with an exception perhaps.
LEMMA DropThrowing ==
  ASSUME NEW n \in Name, NEW t, t = <<>> \/ t = <<<<"throw", "merge">>>>, NEW s, s = Drop(n) \o t
  PROVE  /\ s \in Seq(Step) /\ Ordered(s) /\ "release" \in Names(s)
         /\ \A a \in Steps(s) : a \in {<<"refresh", n>>, <<"release">>, <<"merged", "none">>}
                                 \/ a[1] = "throw"
PROOF
<1>1. PICK d, x : d = Drop(n) /\ x = <<"throw", "merge">>
  OBVIOUS
<1>2. /\ d \in Seq(Step) /\ Ordered(d) /\ Names(d) = {"refresh", "release", "merged"}
      /\ Steps(d) = {<<"refresh", n>>, <<"release">>, <<"merged", "none">>}
  BY <1>1, DropSteps
<1>3. x \in Step /\ x[1] = "throw"
  BY <1>1 DEF Step
<1>4. t \in Seq(Step) /\ Ordered(t) /\ Steps(t) \subseteq {x}
  <2>1. t = <<>> \/ t = <<x>>
    BY <1>1
  <2>2. /\ Steps(<<>>) = {} /\ Ordered(<<>>) /\ Steps(<<x>>) = {x} /\ Ordered(<<x>>)
    BY ONLY ShortLists
  <2>3. <<>> \in Seq(Step) /\ <<x>> \in Seq(Step)
    BY <1>3
  <2>4. CASE t = <<>>
    BY ONLY <2>2, <2>3, <2>4
  <2>5. CASE t = <<x>>
    BY ONLY <2>2, <2>3, <2>5
  <2> QED
    BY <2>1, <2>4, <2>5
<1>5. \A a \in Steps(d) : a[1] \in {"refresh", "release", "merged"}
  BY <1>2, KindsAre DEF Kinds
<1>6. \A a \in Steps(d), b \in Steps(t) : Before(a, b)
  BY <1>3, <1>4, <1>5, PlainOrder
<1>7. Steps(s) = Steps(d) \cup Steps(t) /\ Ordered(s)
  BY <1>1, <1>2, <1>4, <1>6, StepsJoin
<1>8. s \in Seq(Step)
  <2>1. s = d \o t
    BY <1>1
  <2> QED
    BY ONLY <1>2, <1>4, <2>1
<1>9. "release" \in Names(s)
  <2>1. <<"release">>[1] = "release" /\ <<"release">> \in Steps(s)
    BY <1>2, <1>7
  <2> QED
    BY <2>1, KindsAre DEF Kinds
<1> QED
  BY <1>2, <1>3, <1>4, <1>7, <1>8, <1>9

\* A merge fails, or finds that it was aborted.
LEMMA MergeFailsSafe ==
  ASSUME IInv, FInv, DP!IInv, IInv', MergeFails
  PROVE  [DeleterStep]_(D!vars) /\ FInv'
PROOF
<1>1. PICK n, t : n = merge.out.name /\ t = IF merge.aborted THEN <<>> ELSE <<<<"throw", "merge">>>>
  OBVIOUS
<1>2. PICK s : s = Drop(n) \o t
  OBVIOUS
<1>3. /\ Free /\ merge.stage = "running" /\ dir' = dir \cup {Core(n)} /\ Begin(s, FALSE)
      /\ merge' = [merge EXCEPT !.stage = "ending"]
      /\ UNCHANGED <<disk, pinned, deleter, status, autoCommit, si, rollback, buf>>
  BY <1>1, <1>2 DEF MergeFails
<1>4. n \in Name
  BY <1>1, <1>3, MergedName
<1>5. /\ s \in Seq(Step) /\ Ordered(s) /\ "release" \in Names(s)
      /\ \A a \in Steps(s) : a \in {<<"refresh", n>>, <<"release">>, <<"merged", "none">>}
                              \/ a[1] = "throw"
  BY <1>1, <1>2, <1>4, DropThrowing
<1>6. dir \subseteq dir' /\ \A f \in dir' : f \in dir \/ f[1] # "segments"
  BY <1>3, Fields
<1>7. Writing(merge)
  BY <1>3 DEF Writing
<1> QED
  BY <1>1, <1>3, <1>5, <1>6, <1>7, MergeDropped DEF si

\* Writing the merged deletes fails.
LEMMA MergeDeletesFailSafe ==
  ASSUME IInv, FInv, DP!IInv, IInv', MergeDeletesFail
  PROVE  [DeleterStep]_(D!vars) /\ FInv'
PROOF
<1>1. PICK n, t : n = merge.out.name /\ t = <<<<"throw", "merge">>>>
  OBVIOUS
<1>2. PICK s : s = Drop(n) \o t
  OBVIOUS
<1>3. /\ Free /\ merge.stage = "built" /\ dir' = dir \cup {Del(n, 1)} /\ Begin(s, FALSE)
      /\ merge' = [merge EXCEPT !.stage = "ending"]
      /\ UNCHANGED <<disk, pinned, deleter, status, autoCommit, si, rollback, buf>>
  BY <1>1, <1>2 DEF MergeDeletesFail
<1>4. n \in Name
  BY <1>1, <1>3, MergedName
<1>5. /\ s \in Seq(Step) /\ Ordered(s) /\ "release" \in Names(s)
      /\ \A a \in Steps(s) : a \in {<<"refresh", n>>, <<"release">>, <<"merged", "none">>}
                              \/ a[1] = "throw"
  BY <1>1, <1>2, <1>4, DropThrowing
<1>6. dir \subseteq dir' /\ \A f \in dir' : f \in dir \/ f[1] # "segments"
  BY <1>3, Fields
<1>7. Writing(merge)
  BY <1>3 DEF Writing
<1> QED
  BY <1>1, <1>3, <1>5, <1>6, <1>7, MergeDropped DEF si

\* A merge that was aborted is not committed.
LEMMA CommitMergeAbortedSafe ==
  ASSUME IInv, FInv, DP!IInv, IInv', CommitMergeAborted
  PROVE  [DeleterStep]_(D!vars) /\ FInv'
PROOF
<1>1. PICK n : n = merge.out.name
  OBVIOUS
<1>2. PICK a, b, c : a = <<"release">> /\ b = <<"refresh", n>> /\ c = <<"merged", "none">>
  OBVIOUS
<1>3. PICK s : s = <<a, b, c>>
  OBVIOUS
<1>4. /\ Free /\ merge.stage = "built" /\ Begin(s, FALSE)
      /\ merge' = [merge EXCEPT !.stage = "ending"]
      /\ UNCHANGED <<store, deleter, status, autoCommit, si, rollback, buf, faults>>
  BY <1>1, <1>2, <1>3 DEF CommitMergeAborted
<1>5. n \in Name
  BY <1>1, <1>4, MergedName
<1>6. /\ a \in Step /\ b \in Step /\ c \in Step
      /\ a[1] = "release" /\ b[1] = "refresh" /\ c[1] = "merged"
  BY <1>2, <1>5 DEF Step
<1>7. Before(a, b) /\ Before(a, c) /\ Before(b, c)
  BY <1>6, PlainOrder
<1>8. s \in Seq(Step)
  BY <1>3, <1>6
<1>9. Steps(<<a, b, c>>) = {a, b, c} /\ Ordered(<<a, b, c>>)
  BY ONLY <1>7, ThreeSteps
<1>10. Steps(s) = {a, b, c} /\ Ordered(s)
  BY ONLY <1>3, <1>9
<1>11. "release" \in Names(s)
  BY <1>6, <1>10, KindsAre DEF Kinds
<1>12. Writing(merge) /\ dir' = dir
  BY <1>4 DEF Writing, store
<1> QED
  BY <1>1, <1>2, <1>4, <1>8, <1>10, <1>11, <1>12, MergeDropped DEF si, store

\* Building the compound file of a merged segment fails.
LEMMA MergeCompoundFailsSafe ==
  ASSUME IInv, FInv, DP!IInv, IInv', MergeCompoundFails
  PROVE  [DeleterStep]_(D!vars) /\ FInv'
PROOF
<1>1. PICK n, fs : n = merge.out.name /\ fs = {Cfs(n)}
  OBVIOUS
<1>2. PICK a, b, c : a = <<"delete", fs>> /\ b = <<"merged", "none">> /\ c = <<"throw", "merge">>
  OBVIOUS
<1>3. PICK s, w2 : s = <<a, b, c>> /\ w2 = World'
  OBVIOUS
<1>4. /\ Free /\ merge.stage = "committed" /\ Begin(s, FALSE) /\ dir' = dir \cup {Cfs(n)}
      /\ merge' = [merge EXCEPT !.stage = "ending"]
      /\ UNCHANGED <<disk, pinned, deleter, status, autoCommit, si, rollback, buf>>
  BY <1>1, <1>2, <1>3 DEF MergeCompoundFails
<1>5. n \in Name
  BY <1>1, <1>4, MergedName
<1>6. /\ a \in Step /\ b \in Step /\ c \in Step
      /\ a[1] = "delete" /\ a[2] = fs /\ b[1] = "merged" /\ c[1] = "throw"
  <2>1. Cfs(n) \in File
    BY <1>5 DEF Cfs, File
  <2> QED
    BY <1>1, <1>2, <2>1 DEF Step
<1>7. Before(a, b) /\ Before(a, c) /\ Before(b, c)
  BY <1>6, PlainOrder
<1>8. s \in Seq(Step)
  BY <1>3, <1>6
<1>9. Steps(<<a, b, c>>) = {a, b, c} /\ Ordered(<<a, b, c>>)
  BY ONLY <1>7, ThreeSteps
<1>10. Steps(s) = {a, b, c} /\ Ordered(s)
  BY ONLY <1>3, <1>9
<1>11. Names(s) = {"delete", "merged", "throw"}
  BY <1>6, <1>10, KindsAre DEF Kinds
<1>12. Up /\ counter' = counter
  BY <1>4, Merging DEF Up, si
<1>13. merge'.stage = "ending" /\ merge'.clone = merge.clone /\ merge'.out = merge.out
  BY <1>4 DEF IInv, MergeOK, MergeShape
<1>14. <<"merged", "committed">> \notin Steps(s)
  <2>1. <<"merged", "committed">> # b /\ <<"merged", "committed">>[1] = "merged"
    BY <1>2
  <2> QED
    BY <1>6, <1>10, <2>1
<1>15. held = {} /\ Cfs(n) \notin D!Referenced \cup FilesIn(infos)
  <2>1. ~Writing(merge) /\ merge.stage = "committed"
    BY <1>4 DEF Writing
  <2> QED
    BY <1>1, <1>4, <1>12, <2>1, FreeFacts
<1>16. w2.ref = D!Referenced /\ w2.merge = merge'
  BY <1>3, <1>4, WorldThen
<1>17. ~Alone(w2.merge, Steps(s))
  BY <1>13, <1>14, <1>16 DEF Alone
<1>18. \A x \in Steps(s) : Ready(x, Steps(s), infos, w2)
  <2>1. DropReady(fs, Steps(s), infos, w2)
    BY <1>1, <1>5, <1>15, <1>16, <1>17 DEF DropReady
  <2> QED
    BY <1>5, <1>6, <1>10, <2>1 DEF Ready
<1>19. BufferGiven /\ MergeGiven
  BY <1>4, <1>13 DEF BufferGiven, MergeGiven
<1>20. dir \subseteq dir' /\ (\A f \in dir' : f \in dir \/ f[1] # "segments") /\ counter <= counter'
  BY <1>4, <1>12, Fields DEF IInv, RestOK
<1> QED
  BY <1>3, <1>4, <1>8, <1>10, <1>11, <1>12, <1>14, <1>15, <1>18, <1>19, <1>20, PlainBegins DEF si

\* The segment a compound file was made for is gone.
LEMMA CompoundGone ==
  ASSUME IInv, FInv, DP!IInv, IInv', Free, merge.stage = "compound", NEW n, n = merge.out.name,
         Begin(<<<<"delete", {Cfs(n)}>>>> \o <<<<"merged", "none">>>>, FALSE),
         UNCHANGED <<store, deleter, status, autoCommit, infos, gen, lastGen, counter, rollback, buf,
                     merge>>
  PROVE  [DeleterStep]_(D!vars) /\ FInv'
PROOF
<1>1. PICK fs : fs = {Cfs(n)}
  OBVIOUS
<1>2. PICK a, b : a = <<"delete", fs>> /\ b = <<"merged", "none">>
  OBVIOUS
<1>3. PICK s, w2 : s = <<a, b>> /\ w2 = World'
  OBVIOUS
<1>4. n \in Name
  BY MergedName
<1>5. /\ a \in Step /\ b \in Step
      /\ a[1] = "delete" /\ a[2] = fs /\ b[1] = "merged"
  <2>1. Cfs(n) \in File
    BY <1>4 DEF Cfs, File
  <2> QED
    BY <1>1, <1>2, <2>1 DEF Step
<1>6. Begin(s, FALSE)
  <2>1. PICK u, v : u = <<a>> /\ v = <<b>>
    OBVIOUS
  <2>2. u \in Seq(Step) /\ v \in Seq(Step) /\ Len(u) = 1 /\ Len(v) = 1 /\ u[1] = a /\ v[1] = b
    BY <1>5, <2>1
  <2>3. u \o v = <<a, b>>
    <3>1. PICK p : p = u \o v
      OBVIOUS
    <3>2. p \in Seq(Step) /\ Len(p) = 2 /\ p[1] = u[1] /\ p[2] = v[1]
      BY ONLY <2>2, <3>1, ConcatProperties
    <3>3. p = <<a, b>>
      BY ONLY <2>2, <3>2
    <3> QED
      BY ONLY <3>1, <3>3
  <2> QED
    BY <1>1, <1>2, <1>3, <2>1, <2>3
<1>7. Before(a, b)
  BY <1>5, PlainOrder
<1>8. s \in Seq(Step)
  BY <1>3, <1>5
<1>9. Steps(<<a, b>>) = {a, b} /\ Ordered(<<a, b>>)
  BY ONLY <1>7, ShortLists
<1>10. Steps(s) = {a, b} /\ Ordered(s)
  BY ONLY <1>3, <1>9
<1>11. Names(s) = {"delete", "merged"}
  BY <1>5, <1>10, KindsAre DEF Kinds
<1>12. Up /\ counter' = counter
  BY Merging DEF Up
<1>13. <<"merged", "committed">> \notin Steps(s)
  <2>1. <<"merged", "committed">> # b /\ <<"merged", "committed">>[1] = "merged"
    BY <1>2
  <2> QED
    BY <1>5, <1>10, <2>1
<1>14. held = {} /\ Cfs(n) \notin D!Referenced \cup FilesIn(infos)
  <2>1. ~Writing(merge)
    BY DEF Writing
  <2> QED
    BY <1>12, <2>1, FreeFacts
<1>15. w2.ref = D!Referenced /\ w2.merge = merge
  BY <1>3, WorldThen
<1>16. ~Alone(w2.merge, Steps(s))
  BY <1>11, <1>13, <1>15, KindsAre DEF Alone
<1>17. \A x \in Steps(s) : Ready(x, Steps(s), infos, w2)
  <2>1. DropReady(fs, Steps(s), infos, w2)
    BY <1>1, <1>4, <1>14, <1>15, <1>16 DEF DropReady
  <2> QED
    BY <1>4, <1>5, <1>10, <2>1 DEF Ready
<1>18. BufferGiven /\ MergeGiven
  BY DEF BufferGiven, MergeGiven
<1>19. dir \subseteq dir' /\ (\A f \in dir' : f \in dir \/ f[1] # "segments") /\ counter <= counter'
  BY <1>12 DEF store, IInv, RestOK
<1> QED
  BY <1>3, <1>6, <1>8, <1>10, <1>11, <1>12, <1>13, <1>14, <1>17, <1>18, <1>19, PlainBegins DEF store

\* Writing a document fails.
LEMMA AddDocFailsSafe ==
  ASSUME IInv, FInv, DP!IInv, IInv', ~Overlap, NEW d \in Doc, AddDocFails(d)
  PROVE  [DeleterStep]_(D!vars) /\ FInv'
PROOF
<1>1. PICK n, fs : n = BufStore /\ fs = {Store(n)}
  OBVIOUS
<1>2. PICK a, b : a = <<"new", fs>> /\ b = <<"throw", "caller">>
  OBVIOUS
<1>3. PICK s, w2, w : s = <<a, b>> /\ w2 = World' /\ w = World
  OBVIOUS
<1>4. /\ Free /\ Begin(s, FALSE) /\ buf' = EmptyBuf /\ dir' = dir \cup {Store(n)}
      /\ status = "open" /\ BufSegment < MaxSeg
      /\ counter' = (IF buf.seg = None THEN counter + 1 ELSE counter)
      /\ UNCHANGED <<disk, pinned, deleter, status, autoCommit, infos, gen, lastGen, rollback, merge>>
  BY <1>1, <1>2, <1>3 DEF AddDocFails, Buffering, InUse
<1>5. /\ w.counter = counter /\ w.buf = buf /\ w.merge = merge /\ BufSoundIn(Steps(op.todo), w)
      /\ MergeSoundIn(infos, w) /\ BufShape(buf, counter) /\ counter \in 0..MaxSeg
  BY <1>3, PartsOf DEF IInv, RestOK
<1>6. buf.seg \in Name \cup {None} /\ buf.store \in Name \cup {None} /\ buf.seg < counter /\ buf.store < counter
  BY <1>5 DEF BufShape, BufSoundIn
<1>7. /\ n \in Name /\ n # None /\ n < counter' /\ counter <= counter' /\ counter' \in Nat
      /\ n \in {buf.store, buf.seg, counter}
  <2>1. MaxSeg \in Nat
    BY Types
  <2>2. BufSegment \in Name /\ BufSegment < counter' /\ BufSegment \in {buf.seg, counter}
    BY <1>4, <1>5, <1>6, <2>1 DEF BufSegment, NewSegmentName, Name, None
  <2>3. n \in Name /\ n \in {buf.store, buf.seg, counter} /\ n < counter'
    <3>1. CASE buf.store = None
      BY <1>1, <2>2, <3>1 DEF BufStore
    <3>2. CASE buf.store # None
      <4>1. n = buf.store
        BY <1>1, <3>2 DEF BufStore
      <4>2. buf.store \in Name /\ buf.store < counter'
        BY <1>4, <1>5, <1>6, <3>2 DEF Name, None
      <4> QED
        BY <4>1, <4>2
    <3> QED
      BY <3>1, <3>2
  <2> QED
    BY <1>4, <1>5, <2>3 DEF Name, None
<1>8. merge.stage \notin {"none", "init"} => n # merge.out.name
  <2>1. merge.stage \notin {"none", "init"} => merge.out.name < counter /\ merge.out.name \notin {buf.seg, buf.store}
    BY <1>5 DEF MergeSoundIn
  <2>2. merge.stage \notin {"none", "init"} => merge.out.name \in Name
    BY MergedName
  <2> QED
    BY <1>5, <1>7, <2>1, <2>2 DEF Name
<1>9. /\ a \in Step /\ b \in Step
      /\ a[1] = "new" /\ a[2] = fs /\ b[1] = "throw"
  <2>1. Store(n) \in File
    BY <1>7 DEF Store, File
  <2> QED
    BY <1>1, <1>2, <2>1 DEF Step
<1>10. Before(a, b)
  BY <1>9, PlainOrder
<1>11. s \in Seq(Step)
  BY <1>3, <1>9
<1>12. Steps(<<a, b>>) = {a, b} /\ Ordered(<<a, b>>)
  BY ONLY <1>10, ShortLists
<1>13. Steps(s) = {a, b} /\ Ordered(s)
  BY ONLY <1>3, <1>12
<1>14. Names(s) = {"new", "throw"}
  BY <1>9, <1>13, KindsAre DEF Kinds
<1>15. Up
  BY <1>4 DEF Up
<1>16. <<"merged", "committed">> \notin Steps(s)
  <2>1. <<"merged", "committed">>[1] = "merged"
    OBVIOUS
  <2> QED
    BY <1>9, <1>13, <2>1
<1>17. held # {} => Writing(merge)
  BY <1>4, <1>15, FreeFacts
<1>18. w2.counter = counter' /\ w2.buf = EmptyBuf /\ w2.merge = merge
  BY <1>3, <1>4, WorldThen
<1>19. \A x \in Steps(s) : Ready(x, Steps(s), infos, w2)
  <2>1. n # EmptyBuf.store
    BY <1>7 DEF EmptyBuf
  <2>2. Writing(merge) => n # merge.out.name
    BY <1>8 DEF Writing
  <2>3. a[2] = {Store(n)}
    BY <1>1, <1>9
  <2> QED
    BY <1>7, <1>9, <1>13, <1>18, <2>1, <2>2, <2>3 DEF Ready
<1>20. BufferGiven /\ MergeGiven
  BY <1>4 DEF BufferGiven, MergeGiven, EmptyBuf
<1>21. dir \subseteq dir' /\ (\A f \in dir' : f \in dir \/ f[1] # "segments")
  BY <1>4, Fields
<1>22. Names(s) \cap {"ctor", "write", "finish", "segment", "ckpt"} = {}
  BY <1>14
<1> QED
  BY <1>3, <1>4, <1>7, <1>11, <1>13, <1>15, <1>16, <1>17, <1>19, <1>20, <1>21, <1>22, PlainBegins

\* A merge is started; the doc stores it needs are flushed first.
LEMMA MergeInitSafe ==
  ASSUME IInv, FInv, DP!IInv, IInv', NEW i \in 1..MaxSeg, MergeInit(i)
  PROVE  [DeleterStep]_(D!vars) /\ FInv'
PROOF
<1>1. PICK src : src = SubSeq(infos, i, i + 1)
  OBVIOUS
<1>2. PICK stores : stores = (\/ \E k \in 1..2 : src[k].dels # {} \/ src[k].store = None
                              \/ src[1].store # src[2].store)
  OBVIOUS
<1>3. PICK flush : flush = (/\ stores
                            /\ buf.store # None
                            /\ \E k \in 1..2 : src[k].store = buf.store)
  OBVIOUS
<1>4. PICK t, s : t = <<<<"bind">>>> /\ s = (IF flush THEN FlushSteps(TRUE) ELSE <<>>) \o t
  OBVIOUS
<1>5. /\ Free /\ status \in {"open", "closing"} /\ merge.stage = "none" /\ i + 1 \in DOMAIN infos
      /\ merge' = [NoMerge EXCEPT !.stage = "init", !.clone = src, !.stores = stores]
      /\ Begin(s, flush)
      /\ UNCHANGED <<store, deleter, status, autoCommit, si, rollback, buf, faults>>
  BY <1>1, <1>2, <1>3, <1>4 DEF MergeInit
<1>6. merge'.stage = "init" /\ merge'.clone = src /\ merge'.stores = stores
  BY <1>5 DEF NoMerge
<1>7. UNCHANGED <<dir, disk, pinned, autoCommit, infos, gen, lastGen, counter, rollback, buf>>
  BY <1>5 DEF store, si
<1>8. PICK w2 : w2 = World'
  OBVIOUS
<1>9. w2.safe = dir' /\ w2.counter = counter' /\ w2.buf = buf' /\ w2.merge = merge'
  BY <1>8, WorldIs
<1>10. Up /\ Up' /\ status' # "aborting"
  BY <1>5 DEF Up
<1>11. flush \in BOOLEAN
  BY <1>3
<1>12. /\ \A a \in Steps(s) : Ready(a, Steps(s), infos, w2)
       /\ s \in Seq(Step) /\ s # <<>> /\ Ordered(s)
       /\ Names(s) \subseteq {"stores", "ckpt", "segment", "bind"}
       /\ "segment" \in Names(s) => flush
       /\ <<"ckpt", TRUE>> \notin Steps(s) /\ HeadOf(s) \in {"stores", "segment", "bind"}
  <2>1. CASE flush
    <3>1. s = FlushSteps(TRUE) \o t /\ TRUE \in BOOLEAN
      BY <1>4, <2>1
    <3>2. /\ w2.counter = counter /\ dir \subseteq w2.safe
          /\ w2.buf.store = buf.store /\ w2.buf.seg = buf.seg /\ w2.buf.docs = buf.docs
          /\ Writing(w2.merge) => w2.merge = merge
      BY <1>6, <1>7, <1>9 DEF Writing
    <3>3. t = <<>> \/ t = <<<<"bind">>>>
      BY <1>4
    <3>4. /\ \A a \in Steps(s) : Ready(a, Steps(s), infos, w2)
          /\ s \in Seq(Step) /\ s # <<>> /\ Ordered(s)
          /\ Names(s) \subseteq {"stores", "ckpt", "segment", "bind"}
          /\ <<"ckpt", TRUE>> \notin Steps(s) /\ HeadOf(s) \in {"stores", "segment"}
      BY <1>5, <1>10, <3>1, <3>2, <3>3, FlushReady
    <3> QED
      BY <2>1, <3>4
  <2>2. CASE ~flush
    <3>1. PICK b : b = <<"bind">>
      OBVIOUS
    <3>2. b \in Step /\ b[1] = "bind"
      BY <3>1 DEF Step
    <3>3. s = <<b>>
      BY <1>4, <2>2, <3>1, <3>2
    <3>4. Steps(<<b>>) = {b} /\ Ordered(<<b>>)
      BY ONLY ShortLists
    <3>5. Steps(s) = {b} /\ Ordered(s)
      BY ONLY <3>3, <3>4
    <3>6. Names(s) = {"bind"}
      BY <3>2, <3>5, KindsAre DEF Kinds
    <3>7. s \in Seq(Step) /\ s # <<>> /\ HeadOf(s) = "bind"
      BY <3>2, <3>3 DEF HeadOf
    <3>8. <<"ckpt", TRUE>> \notin Steps(s)
      <4>1. <<"ckpt", TRUE>>[1] = "ckpt"
        OBVIOUS
      <4> QED
        BY <3>2, <3>5, <4>1
    <3>9. \A a \in Steps(s) : Ready(a, Steps(s), infos, w2)
      BY <3>2, <3>5 DEF Ready
    <3> QED
      BY <3>5, <3>6, <3>7, <3>8, <3>9
  <2> QED
    BY <1>11, <2>1, <2>2
<1>13. op' = [todo |-> s, undo |-> infos, onFail |-> <<>>, pausing |-> flush] /\ op'.todo = s
  BY <1>5 DEF Begin
<1>14. OrderShape(op', status', autoCommit)
  <2>1. PICK o2, is, st, ac, p : o2 = op' /\ is = infos /\ st = status' /\ ac = autoCommit /\ p = flush
    OBVIOUS
  <2>2. o2 = [todo |-> s, undo |-> is, onFail |-> <<>>, pausing |-> p]
    BY <1>13, <2>1
  <2>3. Names(s) \cap {"ctor", "write", "finish"} = {} /\ ("segment" \in Names(s) => p)
    BY <1>12, <2>1
  <2>4. OrderShape(o2, st, ac)
    BY ONLY <1>12, <2>2, <2>3, OrderBegun
  <2> QED
    BY <2>1, <2>4
<1>15. UndoSound'
  BY <1>12, <1>13 DEF UndoSound, Undoing, Undoes
<1>16. /\ HeadOf(op'.todo) \notin {"finish", "ctor"}
       /\ op'.todo = <<>> \/ Head(op'.todo) # <<"ckpt", TRUE>>
  <2>1. <<"ckpt", TRUE>>[1] = "ckpt"
    OBVIOUS
  <2> QED
    BY <1>12, <1>13, <2>1 DEF HeadOf
<1>17. <<"merged", "committed">> \notin Steps(op'.todo)
  <2>1. <<"merged", "committed">>[1] = "merged"
    OBVIOUS
  <2> QED
    BY <1>12, <1>13, <2>1, KindsAre DEF Kinds
<1>18. \A a \in Steps(op'.todo) : Ready(a, Steps(op'.todo), infos, World')
  BY <1>8, <1>12, <1>13
<1>19. held # {} => Writing(merge') \/ "release" \in Names(op'.todo)
  <2>1. ~Writing(merge)
    BY <1>5 DEF Writing
  <2> QED
    BY <1>5, <1>10, <2>1, FreeFacts
<1>20. ~merge'.stores =>
         \A j \in DOMAIN infos : infos[j].name = merge'.clone[1].name => infos[j].store # None
  <2>1. infos \in Seq(SegmentInfos)
         /\ \A j, k \in DOMAIN infos : j # k => infos[j].name # infos[k].name
    BY DEF IInv, InfosOK, Fits, ListOK
  <2>2. i \in 1..Len(infos) /\ i + 1 \in 1..Len(infos) /\ DOMAIN infos = 1..Len(infos)
    <3>1. i \in Nat /\ i >= 1
      BY Types
    <3>2. DOMAIN infos = 1..Len(infos) /\ Len(infos) \in Nat
      BY ONLY <2>1
    <3>3. i + 1 \in DOMAIN infos
      BY <1>5
    <3> QED
      BY ONLY <3>1, <3>2, <3>3
  <2>3. src[1] = infos[i]
    <3>1. PICK is, j : is = infos /\ j = i + 1
      OBVIOUS
    <3>2. is \in Seq(SegmentInfos) /\ i \in 1..Len(is) /\ j \in 1..Len(is) /\ j = i + 1 /\ i \in Nat
      BY <2>1, <2>2, <3>1
    <3>3. SubSeq(is, i, j)[1] = is[i]
      BY ONLY <3>2
    <3> QED
      BY <1>1, <3>1, <3>3
  <2>4. ~stores => src[1].store # None
    <3>1. 1 \in 1..2
      OBVIOUS
    <3> QED
      BY <1>2, <3>1
  <2> QED
    BY <1>6, <2>1, <2>2, <2>3, <2>4
<1>21. BufferGiven /\ MergeGiven
  BY <1>5, <1>6, <1>7, <1>20 DEF BufferGiven, MergeGiven
<1>22. counter <= counter' /\ dir \subseteq dir' /\ \A f \in dir' : f \in dir \/ f[1] # "segments"
  BY <1>7 DEF IInv, RestOK
<1> QED
  BY <1>5, <1>7, <1>10, <1>14, <1>15, <1>16, <1>17, <1>18, <1>19, <1>21, <1>22, BegunInv

-----------------------------------------------------------------------------
(* Segments are replaced, and what there is now is to be committed.        *)

\* What does not depend on the segments goes on to hold.
LEMMA CommitRest ==
  ASSUME IInv, FInv, DP!IInv, IInv', Up,
         UNCHANGED <<disk, pinned, deleter, status, autoCommit, gen, lastGen, counter, rollback>>,
         dir \subseteq dir', \A f \in dir' : f \in dir \/ f[1] # "segments",
         HeadOf(op.todo) \in {"idle", "segment", "cfs", "stores"},
         HeadOf(op'.todo) \notin {"finish", "ctor"},
         op'.todo = <<>> \/ Head(op'.todo) # <<"ckpt", TRUE>>,
         OrderShape(op', status', autoCommit)
  PROVE  /\ [DeleterStep]_(D!vars)
         /\ RollbackSound' /\ NamesBelow' /\ DiskSound' /\ LastOK' /\ WrittenOK' /\ OrderOK' /\ Clean'
PROOF
<1>1. UNCHANGED <<refCounts, commits, last, held, deletable>>
  BY DEF deleter
<1>2. Unreg = 0 /\ Unreg' = 0
  <2>1. <<"ckpt", TRUE>>[1] = "ckpt"
    OBVIOUS
  <2> QED
    BY <2>1 DEF Unreg, HeadOf
<1>3. Up'
  BY DEF Up
<1>4. [DeleterStep]_(D!vars)
  BY <1>2, <1>3, CreatesNew
<1>5. \A f \in (D!Referenced)' : f \in D!Referenced
  <2>1. PICK w2 : w2 = World'
    OBVIOUS
  <2> QED
    BY <2>1, WorldThen
<1>6. \A g \in Gen : SegmentsFile(g) \in dir' => SegmentsFile(g) \in dir
  BY Fields
<1>7. /\ rollback' \in {rollback, <<>>} /\ deletable' = {} /\ counter <= counter'
      /\ status \notin {"closed", "opening"} /\ status' \notin {"closed", "opening"}
      /\ status' = "aborting" => ~autoCommit
  BY <1>1 DEF Up, FInv, Clean, RollbackSound, IInv, RestOK
<1>8. HeadOf(op.todo) # "close" /\ commits' = commits
  BY <1>1
<1>9. RollbackSound' /\ NamesBelow' /\ DiskSound' /\ LastOK' /\ WrittenOK' /\ OrderOK' /\ Clean'
  BY <1>5, <1>6, <1>7, <1>8, RestStill
<1> QED
  BY <1>4, <1>9

\* The same, when the operation goes on to commit.
LEMMA CommitGoes ==
  ASSUME IInv, FInv, DP!IInv, IInv', Up,
         UNCHANGED <<disk, pinned, deleter, status, autoCommit, gen, lastGen, counter, rollback>>,
         dir \subseteq dir', \A f \in dir' : f \in dir \/ f[1] # "segments",
         HeadOf(op.todo) \in {"idle", "segment", "cfs"},
         NEW t \in Seq(Step), Ordered(t),
         Names(t) \cap {"ckpt", "ctor", "write", "finish", "segment", "close"} = {},
         NEW f \in Seq(Step), Ordered(f), <<"ckpt", TRUE>> \notin Steps(f),
         Names(f) \cap {"ctor", "close", "segment", "cfs"} = {},
         op'.todo = CommitSteps \o t, op'.onFail = f
  PROVE  /\ [DeleterStep]_(D!vars)
         /\ RollbackSound' /\ NamesBelow' /\ DiskSound' /\ LastOK' /\ WrittenOK' /\ OrderOK' /\ Clean'
         /\ "ckpt" \in Kinds(Steps(op'.todo))
         /\ \A a \in Steps(op'.todo) : a \in Steps(t) \/ a[1] \in {"write", "ckpt"}
         /\ Steps(t) \subseteq Steps(op'.todo)
         /\ HeadOf(op'.todo) = "write" => autoCommit
PROOF
<1>1. PICK o2, st : o2 = op' /\ st = status'
  OBVIOUS
<1>2. o2.todo = CommitSteps \o t /\ o2.onFail = f /\ st # "opening"
  BY <1>1 DEF Up
<1>3. /\ OrderShape(o2, st, autoCommit) /\ "ckpt" \in Names(o2.todo)
      /\ o2.todo # <<>> /\ Head(o2.todo) # <<"ckpt", TRUE>>
      /\ Steps(o2.todo) = Steps(CommitSteps) \cup Steps(t)
      /\ Steps(CommitSteps) \subseteq {<<"write">>, <<"ckpt", TRUE>>, <<"ckpt", FALSE>>}
      /\ HeadOf(o2.todo) \in {"write", "ckpt"}
      /\ HeadOf(o2.todo) = "write" <=> autoCommit
  BY <1>2, OrderCommitting
<1>4. HeadOf(op'.todo) \notin {"finish", "ctor"} /\ Head(op'.todo) # <<"ckpt", TRUE>>
      /\ OrderShape(op', status', autoCommit)
  BY <1>1, <1>3
<1>5. /\ [DeleterStep]_(D!vars)
      /\ RollbackSound' /\ NamesBelow' /\ DiskSound' /\ LastOK' /\ WrittenOK' /\ OrderOK' /\ Clean'
  BY <1>4, CommitRest
<1>6. <<"write">>[1] = "write" /\ <<"ckpt", TRUE>>[1] = "ckpt" /\ <<"ckpt", FALSE>>[1] = "ckpt"
  OBVIOUS
<1>7. \A a \in Steps(op'.todo) : a \in Steps(t) \/ a[1] \in {"write", "ckpt"}
  BY <1>1, <1>3, <1>6
<1>8. "ckpt" \in Kinds(Steps(op'.todo)) /\ Steps(t) \subseteq Steps(op'.todo)
  BY <1>1, <1>3, KindsAre
<1>9. HeadOf(op'.todo) = "write" => autoCommit
  BY <1>1, <1>3
<1> QED
  BY <1>5, <1>7, <1>8, <1>9

\* Where the segments of a spliced list come from.
SplicedAt(is, i, out) == SubSeq(is, 1, i - 1) \o <<out>> \o SubSeq(is, i + 2, Len(is))

LEMMA SplicedFrom ==
  ASSUME NEW is \in Seq(SegmentInfos), NEW i \in DOMAIN is, NEW out, NEW js, js = SplicedAt(is, i, out)
  PROVE  \A k \in DOMAIN js : js[k] = out \/ \E j \in DOMAIN is : js[k] = is[j]
PROOF
<1>1. PICK S : S = {is[j] : j \in DOMAIN is} \cup {out}
  OBVIOUS
<1>2. PICK l : l = Len(is)
  OBVIOUS
<1>3. PICK a, b, c : a = SubSeq(is, 1, i - 1) /\ b = <<out>> /\ c = SubSeq(is, i + 2, l)
  OBVIOUS
<1>4. a \in Seq(S) /\ c \in Seq(S) /\ b \in Seq(S)
  <2>1. DOMAIN is = 1..l /\ l \in Nat /\ i \in 1..l
    BY <1>2
  <2>2. \A j \in 1..l : is[j] \in S
    BY <1>1, <2>1
  <2>3. PICK m \in Int, k \in Int : m = i - 1 /\ k = i + 2
    BY <2>1
  <2>4. (\A j \in 1..m : is[j] \in S) /\ (\A j \in k..l : is[j] \in S) /\ 1 \in Int /\ l \in Int
    BY <2>1, <2>2, <2>3
  <2>5. SubSeq(is, 1, m) \in Seq(S) /\ SubSeq(is, k, l) \in Seq(S)
    BY ONLY <2>3, <2>4, SubSeqProperties
  <2>6. out \in S
    BY <1>1
  <2>7. a = SubSeq(is, 1, m) /\ c = SubSeq(is, k, l) /\ b = <<out>>
    BY <1>3, <2>3
  <2>8. b \in Seq(S)
    BY ONLY <2>6, <2>7
  <2> QED
    BY ONLY <2>5, <2>7, <2>8
<1>5. js = a \o b \o c
  BY <1>2, <1>3 DEF SplicedAt
<1>6. js \in Seq(S)
  <2>1. a \o b \in Seq(S)
    BY ONLY <1>4
  <2> QED
    BY ONLY <1>4, <1>5, <2>1
<1>7. \A k \in DOMAIN js : js[k] \in S
  BY ONLY <1>6
<1> QED
  BY <1>1, <1>7

\* The steps that end a merge which was committed, and those that follow when
\* segments_N could not be written.
LEMMA MergeEndSteps ==
  ASSUME NEW n \in Name, NEW x \in {"none", "committed"},
         NEW t, t = <<<<"release">>, <<"merged", x>>>>,
         NEW f, f = <<<<"partial">>>> \o Drop(n) \o <<<<"throw", "merge">>>>
  PROVE  /\ t \in Seq(Step) /\ Ordered(t) /\ Steps(t) = {<<"release">>, <<"merged", x>>}
         /\ Names(t) = {"release", "merged"}
         /\ f \in Seq(Step) /\ Ordered(f)
         /\ Steps(f) = {<<"partial">>, <<"refresh", n>>, <<"release">>, <<"merged", "none">>,
                        <<"throw", "merge">>}
         /\ Names(f) = {"partial", "refresh", "release", "merged", "throw"}
PROOF
<1>1. PICK a, b, p, d, q : /\ a = <<"release">> /\ b = <<"merged", x>> /\ p = <<"partial">>
                           /\ d = Drop(n) /\ q = <<"throw", "merge">>
  OBVIOUS
<1>2. /\ a \in Step /\ b \in Step /\ p \in Step /\ q \in Step
      /\ a[1] = "release" /\ b[1] = "merged" /\ p[1] = "partial" /\ q[1] = "throw"
  BY <1>1 DEF Step
<1>3. /\ d \in Seq(Step) /\ Ordered(d) /\ Names(d) = {"refresh", "release", "merged"}
      /\ Steps(d) = {<<"refresh", n>>, <<"release">>, <<"merged", "none">>}
  BY <1>1, DropSteps
<1>4. t = <<a, b>> /\ f = <<p>> \o d \o <<q>>
  BY <1>1
<1>5. Before(a, b)
  BY <1>2, PlainOrder
<1>6. Steps(<<a, b>>) = {a, b} /\ Ordered(<<a, b>>)
  BY ONLY <1>5, ShortLists
<1>7. t \in Seq(Step) /\ Ordered(t) /\ Steps(t) = {a, b}
  <2>1. t = <<a, b>> /\ a \in Step /\ b \in Step
    BY <1>2, <1>4
  <2>2. t \in Seq(Step)
    BY ONLY <2>1
  <2> QED
    BY ONLY <1>6, <2>1, <2>2
<1>8. Names(t) = {"release", "merged"}
  BY <1>2, <1>7, KindsAre DEF Kinds
<1>9. PICK u, v : u = <<p>> /\ v = <<q>>
  OBVIOUS
<1>10. Steps(u) = {p} /\ Ordered(u) /\ Steps(v) = {q} /\ Ordered(v)
  <2>1. Steps(<<p>>) = {p} /\ Ordered(<<p>>) /\ Steps(<<q>>) = {q} /\ Ordered(<<q>>)
    BY ONLY ShortLists
  <2> QED
    BY ONLY <1>9, <2>1
<1>11. u \in Seq(Step) /\ v \in Seq(Step)
  BY ONLY <1>2, <1>9
<1>12. \A y \in Steps(d) : y[1] \in {"refresh", "release", "merged"}
  BY <1>3, KindsAre DEF Kinds
<1>13. PICK g : g = u \o d
  OBVIOUS
<1>14. g \in Seq(Step) /\ Steps(g) = Steps(u) \cup Steps(d) /\ Ordered(g)
  <2>1. \A y \in Steps(u), z \in Steps(d) : Before(y, z)
    BY <1>2, <1>10, <1>12, PlainOrder
  <2>2. g \in Seq(Step)
    BY ONLY <1>3, <1>11, <1>13
  <2>3. Steps(g) = Steps(u) \cup Steps(d) /\ Ordered(g)
    BY ONLY <1>3, <1>10, <1>11, <1>13, <2>1, StepsJoin
  <2> QED
    BY <2>2, <2>3
<1>15. f \in Seq(Step) /\ Steps(f) = Steps(g) \cup Steps(v) /\ Ordered(f)
  <2>1. \A y \in Steps(g), z \in Steps(v) : Before(y, z)
    BY <1>2, <1>10, <1>12, <1>14, PlainOrder
  <2>2. f = g \o v
    BY <1>4, <1>9, <1>13
  <2>3. f \in Seq(Step)
    BY ONLY <1>11, <1>14, <2>2
  <2>4. Steps(f) = Steps(g) \cup Steps(v) /\ Ordered(f)
    BY ONLY <1>10, <1>11, <1>14, <2>1, <2>2, StepsJoin
  <2> QED
    BY <2>3, <2>4
<1>16. Steps(f) = {p} \cup {<<"refresh", n>>, <<"release">>, <<"merged", "none">>} \cup {q}
  BY <1>3, <1>10, <1>14, <1>15
<1>17. Names(f) = {"partial", "refresh", "release", "merged", "throw"}
  <2>1. /\ <<"refresh", n>>[1] = "refresh" /\ <<"release">>[1] = "release"
        /\ <<"merged", "none">>[1] = "merged"
    OBVIOUS
  <2>2. \A y : y \in Steps(f) <=> \/ y = p \/ y = <<"refresh", n>> \/ y = <<"release">>
                                  \/ y = <<"merged", "none">> \/ y = q
    BY <1>16
  <2>3. Kinds(Steps(f)) = {"partial", "refresh", "release", "merged", "throw"}
    <3>1. PICK S, r1, r2, r3 : S = Steps(f) /\ r1 = <<"refresh", n>> /\ r2 = <<"release">>
                               /\ r3 = <<"merged", "none">>
      OBVIOUS
    <3>2. S = {p, r1, r2, r3, q} /\ r1[1] = "refresh" /\ r2[1] = "release" /\ r3[1] = "merged"
      BY <1>16, <2>1, <3>1
    <3>3. Kinds(S) = {"partial", "refresh", "release", "merged", "throw"}
      BY <1>2, <3>2 DEF Kinds
    <3> QED
      BY <3>1, <3>3
  <2> QED
    BY <2>3, KindsAre
<1> QED
  BY <1>1, <1>7, <1>8, <1>15, <1>16, <1>17

\* The files of the segment a merge made are there, and nobody else's.
LEMMA MergedFiles ==
  ASSUME IInv, FInv, DP!IInv, Free, merge.stage = "built", NEW n, n = merge.out.name,
         NEW dg \in {0, 1},
         NEW out \in SegmentInfos, out.name = n, out.cfs = merge.out.cfs, out.delGen = dg,
         out.store = merge.out.store,
         out.storeCfs = (merge.out.storeCfs \/ (merge.out.store # None
                          /\ \E i \in DOMAIN infos :
                               infos[i].store = merge.out.store /\ infos[i].storeCfs))
  PROVE  /\ \A f \in FileSet(out) : f \in dir \/ (dg = 1 /\ f = Del(n, 1))
         /\ out.store < counter
         /\ buf.store # None => Cfx(buf.store) \notin FileSet(out)
         /\ \A m : Cfs(m) \notin FileSet(out)
         /\ \A f \in D!Referenced \cup FilesIn(infos) : f[1] = "segments" \/ f[2] # n
         /\ n \in Name /\ n < counter /\ n # None /\ n # buf.store
PROOF
<1>1. PICK w, S : w = World /\ S = Steps(op.todo)
  OBVIOUS
<1>2. /\ w.safe = dir /\ w.ref = D!Referenced
      /\ w.held = held /\ w.counter = counter /\ w.buf = buf /\ w.merge = merge
      /\ Sound(infos, S, w) /\ BufSoundIn(S, w) /\ MergeSoundIn(infos, w)
      /\ Fits(infos, counter, buf.seg, merge)
      /\ ListOK(infos, counter) /\ counter \in Nat
  BY <1>1, PartsOf
<1>3. Up /\ Writing(merge)
  BY Merging DEF Up, Writing
<1>4. FilesIn(infos) \subseteq dir /\ D!Referenced \subseteq dir
  BY <1>3, FreeFacts, DeleterKnows
<1>5. /\ held # {} /\ ~merge.out.cfs /\ merge.out.store < counter /\ OutStore(merge)
      /\ \A f \in D!Referenced : f[1] = "segments" \/ f[2] # n
      /\ Core(n) \in dir /\ (merge.stores => Store(n) \in dir)
      /\ n < counter /\ n # buf.store
      /\ \A h \in held : h.files = InfosFiles(merge.clone)
  BY <1>2, <1>3 DEF MergeSoundIn
<1>6. n \in Name /\ n # None
  BY MergedName DEF Name, None
<1>7. FileSet(merge.clone[1]) \subseteq D!Referenced
  <2>1. merge.clone \in Seq(SegmentInfos) /\ Len(merge.clone) = 2
    BY DEF IInv, MergeOK, MergeShape
  <2>2. 1 \in DOMAIN merge.clone
    BY <2>1
  <2>3. FileSet(merge.clone[1]) \subseteq ToSet(InfosFiles(merge.clone))
    BY <2>1, <2>2, FilesOfAll
  <2>4. PICK h \in held : h.files = InfosFiles(merge.clone)
    BY <1>5
  <2>5. ToSet(h.files) \subseteq D!Referenced
    <3>1. D!Range(h.files) \subseteq D!Referenced
      BY <1>3, DeleterKnows
    <3> QED
      BY <3>1 DEF D!Range, ToSet
  <2> QED
    BY <2>3, <2>4, <2>5
<1>8. \A i \in DOMAIN infos : FileSet(infos[i]) \subseteq FilesIn(infos)
  BY <1>2, FilesKinds
<1>9. PICK st, c1 : st = out.store /\ c1 = merge.clone[1]
  OBVIOUS
<1>10. st # None => (IF out.storeCfs
                     THEN \/ Cfx(st) \in FilesIn(infos)
                          \/ Cfx(st) \in D!Referenced
                     ELSE Store(st) \in D!Referenced)
  <2>1. CASE merge.stores
    BY <1>5, <1>9, <2>1 DEF OutStore
  <2>2. CASE ~merge.stores
    <3>1. st = c1.store /\ st # None /\ merge.out.storeCfs = c1.storeCfs
      BY <1>5, <1>9, <2>2 DEF OutStore
    <3>2. (IF c1.storeCfs THEN Cfx(st) ELSE Store(st)) \in FileSet(c1)
      BY <3>1 DEF FileSet
    <3>3. (IF c1.storeCfs THEN Cfx(st) ELSE Store(st)) \in D!Referenced
      BY <1>7, <1>9, <3>2
    <3>4. ASSUME NEW i \in DOMAIN infos, infos[i].store = st, infos[i].storeCfs
          PROVE  Cfx(st) \in FilesIn(infos)
      <4>1. Cfx(st) \in FileSet(infos[i])
        BY <3>1, <3>4 DEF FileSet
      <4> QED
        BY <1>8, <4>1
    <3>5. CASE c1.storeCfs
      BY <3>1, <3>3, <3>5
    <3>6. CASE ~c1.storeCfs
      <4>1. out.storeCfs => \E i \in DOMAIN infos : infos[i].store = st /\ infos[i].storeCfs
        BY <1>9, <3>1, <3>6
      <4> QED
        BY <3>3, <3>4, <3>6, <4>1
    <3> QED
      BY <3>5, <3>6
  <2> QED
    BY <2>1, <2>2
<1>11. ASSUME NEW f \in FileSet(out)
       PROVE  \/ f = Core(n)
              \/ st # None /\ f = (IF out.storeCfs THEN Cfx(st) ELSE Store(st))
              \/ st = None /\ f = Store(n)
              \/ dg = 1 /\ f = Del(n, 1)
  BY <1>5, <1>9, <1>11 DEF FileSet
<1>12. st = None => merge.stores
  BY <1>5, <1>9 DEF OutStore
<1>13. \A f \in FileSet(out) : f \in dir \/ (dg = 1 /\ f = Del(n, 1))
  <2>1. ASSUME NEW f \in FileSet(out) PROVE f \in dir \/ (dg = 1 /\ f = Del(n, 1))
    <3>1. CASE f = Core(n)
      BY <1>5, <3>1
    <3>2. CASE st # None /\ f = (IF out.storeCfs THEN Cfx(st) ELSE Store(st))
      BY <1>4, <1>10, <3>2
    <3>3. CASE st = None /\ f = Store(n)
      BY <1>5, <1>12, <3>3
    <3> QED
      BY <1>11, <3>1, <3>2, <3>3
  <2> QED
    BY <2>1
<1>14. ASSUME buf.store # None, Cfx(buf.store) \in FileSet(out) PROVE FALSE
  <2>1. out.storeCfs /\ st # None /\ Cfx(buf.store) = Cfx(st)
    <3>1. Cfx(buf.store)[1] = "cfx"
      BY Fields
    <3> QED
      BY <1>9, <1>14, <3>1, FileSetKinds
  <2>2. Cfx(buf.store) \notin FilesIn(infos) /\ Cfx(buf.store) \notin D!Referenced
    BY <1>2, <1>14 DEF Sound, FilesSound, BufSoundIn
  <2> QED
    BY <1>10, <2>1, <2>2
<1>15. \A m : Cfs(m) \notin FileSet(out)
  BY <1>5, Fields, FileSetKinds
<1>16. \A f \in FilesIn(infos) : f[1] # "segments" /\ f[2] # n
  BY <1>2, <1>3, NamesApart DEF Sound
<1> QED
  BY <1>5, <1>6, <1>13, <1>14, <1>15, <1>16

\* The merged segment takes the place of its sources.
LEMMA CommitMergeSafe ==
  ASSUME IInv, FInv, DP!IInv, IInv', CommitMerge
  PROVE  [DeleterStep]_(D!vars) /\ FInv'
PROOF
<1>1. PICK n, nd, c1 : n = merge.out.name /\ nd = NewDeletes /\ c1 = Current(merge.clone[1].name)
  OBVIOUS
<1>2. PICK dg, sc : /\ dg = IF nd = {} THEN 0 ELSE 1
                    /\ sc = (merge.out.storeCfs \/ (merge.out.store # None
                              /\ \E i \in DOMAIN infos :
                                   infos[i].store = merge.out.store /\ infos[i].storeCfs))
  OBVIOUS
<1>3. PICK out : out = [merge.out EXCEPT !.dels = nd, !.delGen = dg, !.storeCfs = sc]
  OBVIOUS
<1>4. PICK x : x = IF UseCompound THEN "committed" ELSE "none"
  OBVIOUS
<1>5. PICK t, f : /\ t = <<<<"release">>, <<"merged", x>>>>
                  /\ f = <<<<"partial">>>> \o Drop(n) \o <<<<"throw", "merge">>>>
  OBVIOUS
<1>6. /\ Free /\ merge.stage = "built" /\ ~merge.aborted
      /\ infos' = Splice(c1, out)
      /\ dir' = dir \cup (IF nd = {} THEN {} ELSE {Del(n, 1)})
      /\ merge' = [merge EXCEPT !.stage = "ending", !.out = out]
      /\ op' = [todo |-> CommitSteps \o t, undo |-> infos, onFail |-> f, pausing |-> FALSE]
      /\ UNCHANGED <<disk, pinned, deleter, status, autoCommit, gen, lastGen, counter, rollback, buf,
                     faults>>
  BY <1>1, <1>2, <1>3, <1>4, <1>5 DEF CommitMerge
<1>7. n \in Name /\ merge.out \in SegmentInfos
  BY <1>1, <1>6, MergedName
<1>8. x \in {"none", "committed"}
  BY <1>4
<1>9. /\ t \in Seq(Step) /\ Ordered(t) /\ Steps(t) = {<<"release">>, <<"merged", x>>}
      /\ Names(t) = {"release", "merged"}
      /\ f \in Seq(Step) /\ Ordered(f)
      /\ Steps(f) = {<<"partial">>, <<"refresh", n>>, <<"release">>, <<"merged", "none">>,
                     <<"throw", "merge">>}
      /\ Names(f) = {"partial", "refresh", "release", "merged", "throw"}
  BY <1>5, <1>7, <1>8, MergeEndSteps
<1>10. op'.todo = CommitSteps \o t /\ op'.undo = infos /\ op'.onFail = f
  BY <1>6
<1>11. Up /\ HeadOf(op.todo) = "idle"
  BY <1>6, Merging DEF Up, Free, HeadOf
<1>12. dir \subseteq dir' /\ \A g \in dir' : g \in dir \/ g[1] # "segments"
  BY <1>6, Fields
<1>13. <<"ckpt", TRUE>> \notin Steps(f)
  <2>1. <<"ckpt", TRUE>>[1] = "ckpt"
    OBVIOUS
  <2>2. "ckpt" \notin Names(f) /\ Kinds(Steps(f)) = Names(f)
    <3>1. "ckpt" \notin Names(f)
      BY <1>9
    <3>2. Kinds(Steps(f)) = Names(f)
      BY KindsAre
    <3> QED
      BY <3>1, <3>2
  <2> QED
    BY <2>1, <2>2 DEF Kinds
<1>14. PICK S2, w2 : S2 = Steps(op'.todo) /\ w2 = World'
  OBVIOUS
<1>15. /\ [DeleterStep]_(D!vars)
       /\ RollbackSound' /\ NamesBelow' /\ DiskSound' /\ LastOK' /\ WrittenOK' /\ OrderOK' /\ Clean'
       /\ "ckpt" \in Kinds(S2)
       /\ \A a \in S2 : a \in Steps(t) \/ a[1] \in {"write", "ckpt"}
       /\ Steps(t) \subseteq S2
  <2>1. HeadOf(op.todo) \in {"idle", "segment", "cfs"}
    BY <1>11
  <2>2. /\ Names(t) \cap {"ckpt", "ctor", "write", "finish", "segment", "close"} = {}
        /\ Names(f) \cap {"ctor", "close", "segment", "cfs"} = {}
    BY <1>9
  <2> QED
    BY <1>6, <1>9, <1>10, <1>11, <1>12, <1>13, <1>14, <2>1, <2>2, CommitGoes
<1>16. /\ merge'.stage = "ending" /\ merge'.clone = merge.clone /\ merge'.out = out
  BY <1>6 DEF IInv, MergeOK, MergeShape
<1>17. /\ out \in SegmentInfos /\ out.name = n /\ out.cfs = merge.out.cfs /\ out.delGen = dg
       /\ out.store = merge.out.store /\ out.storeCfs = sc /\ dg \in {0, 1}
  <2>1. nd \in SUBSET Doc
    BY <1>1, <1>6, Carried
  <2>2. dg \in Nat /\ sc \in BOOLEAN /\ dg \in {0, 1}
    BY <1>2, <1>7 DEF SegmentInfos
  <2> QED
    BY <1>1, <1>3, <1>7, <2>1, <2>2 DEF SegmentInfos
<1>18. /\ \A g \in FileSet(out) : g \in dir \/ (dg = 1 /\ g = Del(n, 1))
       /\ out.store < counter
       /\ buf.store # None => Cfx(buf.store) \notin FileSet(out)
       /\ \A m : Cfs(m) \notin FileSet(out)
       /\ \A g \in D!Referenced \cup FilesIn(infos) : g[1] = "segments" \/ g[2] # n
       /\ n \in Name /\ n < counter /\ n # None /\ n # buf.store
  BY <1>1, <1>2, <1>6, <1>17, MergedFiles
<1>19. FileSet(out) \subseteq dir'
  BY <1>2, <1>6, <1>18
<1>20. PICK w, S : w = World /\ S = Steps(op.todo)
  OBVIOUS
<1>21. /\ w.safe = dir /\ w.base = D!Named(commits, last) /\ w.ref = D!Referenced
       /\ w.held = held /\ w.counter = counter /\ w.buf = buf /\ w.merge = merge
       /\ w.status = status /\ Kinds(S) = Names(op.todo)
       /\ Sound(infos, S, w) /\ BufSoundIn(S, w) /\ MergeSoundIn(infos, w)
       /\ Fits(infos, counter, buf.seg, merge) /\ BufShape(buf, counter)
       /\ MergeShape(merge, counter, buf.seg) /\ ListOK(infos, counter) /\ counter \in Nat
  BY <1>20, PartsOf
<1>22. /\ w2.safe = dir' /\ w2.base = D!Named(commits, last) /\ w2.ref = D!Referenced
       /\ w2.held = held /\ w2.counter = counter /\ w2.buf = buf /\ w2.merge = merge'
       /\ w2.status = status
  BY <1>6, <1>14, WorldThen
<1>23. PICK js : js = infos'
  OBVIOUS
<1>24. \A k \in DOMAIN js : js[k] = out \/ \E j \in DOMAIN infos : js[k] = infos[j]
  <2>1. PICK is : is = infos
    OBVIOUS
  <2>2. is \in Seq(SegmentInfos) /\ c1 \in DOMAIN is
    BY <1>1, <1>6, <2>1, Sources, Types
  <2>3. js = SplicedAt(is, c1, out)
    BY <1>6, <1>23, <2>1 DEF Splice, SplicedAt
  <2>4. \A k \in DOMAIN js : js[k] = out \/ \E j \in DOMAIN is : js[k] = is[j]
    BY ONLY <2>2, <2>3, SplicedFrom
  <2> QED
    BY <2>1, <2>4
<1>25. ListOK(js, counter)
  BY <1>6, <1>23 DEF IInv, InfosOK, Fits
<1>26. \A g \in FilesIn(js) : g \in FilesIn(infos) \/ g \in FileSet(out)
  <2>1. \A i \in DOMAIN infos : FileSet(infos[i]) \subseteq FilesIn(infos)
    BY <1>21, FilesKinds
  <2>2. \A g \in FilesIn(js) : \E k \in DOMAIN js : g \in FileSet(js[k])
    BY <1>25, FilesKinds
  <2> QED
    BY <1>24, <2>1, <2>2
<1>27. FilesIn(infos) \subseteq D!Named(commits, last) /\ FilesIn(infos) \subseteq dir
  BY <1>6, <1>11, FreeFacts
<1>28. /\ <<"release">>[1] = "release" /\ <<"merged", x>>[1] = "merged"
       /\ <<"partial">>[1] = "partial" /\ <<"refresh", n>>[1] = "refresh" /\ <<"refresh", n>>[2] = n
       /\ <<"merged", "none">>[1] = "merged" /\ <<"throw", "merge">>[1] = "throw"
       /\ <<"merged", "committed">>[1] = "merged" /\ <<"merged", "none">> # <<"merged", "committed">>
  OBVIOUS
<1>29. "release" \in Kinds(S2) /\ "merged" \in Kinds(S2)
  BY <1>9, <1>15, <1>28 DEF Kinds
<1>30. ~Writing(merge') /\ merge'.out.name = n
  BY <1>16, <1>17 DEF Writing
<1>31. FilesSound(js, S2, w2)
  <2>1. FilesIn(js) \subseteq w2.safe
    BY <1>12, <1>19, <1>22, <1>26, <1>27
  <2>2. \A i \in DOMAIN js : js[i].store < w2.counter
    <3>1. \A j \in DOMAIN infos : infos[j].store < counter
      BY <1>21 DEF Sound, FilesSound
    <3> QED
      BY <1>18, <1>22, <1>24, <3>1
  <2>3. w2.buf.store # None => Cfx(w2.buf.store) \notin FilesIn(js)
    BY <1>18, <1>21, <1>22, <1>26 DEF Sound, FilesSound
  <2>4. Cfs(n) \notin w2.ref \cup FilesIn(js)
    <3>1. Cfs(n)[1] = "cfs" /\ Cfs(n)[2] = n
      BY Fields
    <3> QED
      BY <1>18, <1>22, <1>26, <3>1
  <2> QED
    BY <1>15, <1>22, <1>30, <2>1, <2>2, <2>3, <2>4 DEF FilesSound
<1>32. Sound(js, S2, w2)
  <2>1. \A a \in S2 : Ready(a, S2, js, w2)
    <3>1. \A a \in S2 : a[1] \in {"release", "merged", "write", "ckpt"}
      BY <1>9, <1>15, <1>28
    <3> QED
      BY <1>16, <1>22, <3>1 DEF Ready
  <2> QED
    BY <1>16, <1>22, <1>29, <1>31, <2>1 DEF Sound
<1>33. Sound(infos, Steps(f), w2)
  <2>1. PICK F : F = Steps(f)
    OBVIOUS
  <2>2. Kinds(F) = {"partial", "refresh", "release", "merged", "throw"}
    BY <1>9, <2>1, KindsAre
  <2>3. ~Alone(w2.merge, F)
    <3>1. \A a \in F : a # <<"merged", "committed">>
      BY <1>9, <1>28, <2>1
    <3> QED
      BY <1>16, <1>22, <3>1 DEF Alone
  <2>4. FilesSound(infos, F, w2)
    <3>1. /\ \A i \in DOMAIN infos : infos[i].store < counter
          /\ buf.store # None => Cfx(buf.store) \notin FilesIn(infos)
      BY <1>21 DEF Sound, FilesSound
    <3> QED
      BY <1>12, <1>22, <1>27, <1>30, <2>3, <3>1 DEF FilesSound
  <2>5. \A a \in F : Ready(a, F, infos, w2)
    <3>1. RefreshReady(n, F, w2)
      BY <1>18, <1>22, <1>30, <2>3 DEF RefreshReady
    <3>2. \A a \in F : \/ a[1] \in {"partial", "merged", "throw", "release"}
                       \/ a[1] = "refresh" /\ a[2] = n
      BY <1>9, <1>28, <2>1
    <3> QED
      BY <1>16, <1>22, <3>1, <3>2 DEF Ready
  <2> QED
    BY <1>16, <1>22, <2>1, <2>2, <2>4, <2>5 DEF Sound
<1>34. BufSoundIn(S2, w2)
  <2>1. "segment" \notin Kinds(S)
    <3>1. op.todo = <<>> /\ op.todo \in Seq(Step)
      BY <1>6, Types DEF Free
    <3> QED
      BY <1>21, <3>1, HeadName
  <2>2. buf.store \in Name \cup {None}
    BY <1>21 DEF BufShape
  <2>3. buf.store # None =>
          /\ Store(buf.store) \in w2.safe
          /\ Store(buf.store) \in w2.ref => Store(buf.store) \in w2.base
          /\ Cfx(buf.store) \in w2.ref => Cfx(buf.store) \in w.ref
    BY <1>12, <1>21, <1>22 DEF BufSoundIn
  <2> QED
    BY <1>21, <1>22, <2>1, <2>2, <2>3, BufStill
<1>35. MergeSoundIn(js, w2)
  <2>1. /\ n < counter /\ n \notin {buf.seg, buf.store}
        /\ \A h \in held : h = [kind |-> "held", id |-> "merge", files |-> InfosFiles(merge.clone)]
    BY <1>1, <1>6, <1>21 DEF MergeSoundIn
  <2> QED
    BY <1>16, <1>17, <1>22, <1>30, <2>1 DEF MergeSoundIn
<1>36. InfosSound' /\ UndoSound' /\ BufSound' /\ MergeSound'
  BY <1>10, <1>14, <1>23, <1>32, <1>33, <1>34, <1>35 DEF InfosSound, UndoSound, BufSound, MergeSound
<1> QED
  BY <1>15, <1>36 DEF FInv

\* The steps that follow when segments_N could not be written for a compound
\* file.
LEMMA CompoundEndSteps ==
  ASSUME NEW n \in Name, NEW fs, fs = {Cfs(n)},
         NEW t, t = <<<<"merged", "none">>>>,
         NEW f, f = <<<<"partial">>, <<"delete", fs>>>> \o t \o <<<<"throw", "merge">>>>
  PROVE  /\ t \in Seq(Step) /\ Ordered(t) /\ Steps(t) = {<<"merged", "none">>}
         /\ Names(t) = {"merged"}
         /\ f \in Seq(Step) /\ Ordered(f)
         /\ Steps(f) = {<<"partial">>, <<"delete", fs>>, <<"merged", "none">>, <<"throw", "merge">>}
         /\ Names(f) = {"partial", "delete", "merged", "throw"}
PROOF
<1>1. PICK a, b, c, d : /\ a = <<"partial">> /\ b = <<"delete", fs>> /\ c = <<"merged", "none">>
                        /\ d = <<"throw", "merge">>
  OBVIOUS
<1>2. /\ a \in Step /\ b \in Step /\ c \in Step /\ d \in Step
      /\ a[1] = "partial" /\ b[1] = "delete" /\ c[1] = "merged" /\ d[1] = "throw"
  <2>1. Cfs(n) \in File
    BY DEF Cfs, File
  <2> QED
    BY <1>1, <2>1 DEF Step
<1>3. PICK u, v, g : u = <<a, b>> /\ v = <<d>> /\ g = u \o t
  OBVIOUS
<1>4. t = <<c>> /\ f = g \o v
  BY <1>1, <1>3
<1>5. u \in Seq(Step) /\ v \in Seq(Step) /\ t \in Seq(Step)
  <2>1. u = <<a, b>> /\ v = <<d>> /\ t = <<c>>
    BY <1>3, <1>4
  <2> QED
    BY ONLY <1>2, <2>1
<1>6. Steps(u) = {a, b} /\ Ordered(u) /\ Steps(v) = {d} /\ Ordered(v) /\ Steps(t) = {c} /\ Ordered(t)
  <2>1. Before(a, b)
    BY <1>2, PlainOrder
  <2>2. Steps(<<a, b>>) = {a, b} /\ Ordered(<<a, b>>)
    BY ONLY <2>1, ShortLists
  <2>3. Steps(<<d>>) = {d} /\ Ordered(<<d>>) /\ Steps(<<c>>) = {c} /\ Ordered(<<c>>)
    BY ONLY ShortLists
  <2>4. u = <<a, b>> /\ v = <<d>> /\ t = <<c>>
    BY <1>3, <1>4
  <2> QED
    BY ONLY <2>2, <2>3, <2>4
<1>7. g \in Seq(Step) /\ Steps(g) = {a, b, c} /\ Ordered(g)
  <2>1. \A y \in Steps(u), z \in Steps(t) : Before(y, z)
    BY <1>2, <1>6, PlainOrder
  <2>2. g \in Seq(Step)
    BY ONLY <1>3, <1>5
  <2>3. Steps(g) = Steps(u) \cup Steps(t) /\ Ordered(g)
    BY ONLY <1>3, <1>5, <1>6, <2>1, StepsJoin
  <2> QED
    BY <1>6, <2>2, <2>3
<1>8. f \in Seq(Step) /\ Steps(f) = {a, b, c, d} /\ Ordered(f)
  <2>1. \A y \in Steps(g), z \in Steps(v) : Before(y, z)
    BY <1>2, <1>6, <1>7, PlainOrder
  <2>2. f \in Seq(Step)
    BY ONLY <1>4, <1>5, <1>7
  <2>3. Steps(f) = Steps(g) \cup Steps(v) /\ Ordered(f)
    BY ONLY <1>4, <1>5, <1>6, <1>7, <2>1, StepsJoin
  <2> QED
    BY <1>6, <1>7, <2>2, <2>3
<1>9. Names(t) = {"merged"} /\ Names(f) = {"partial", "delete", "merged", "throw"}
  <2>1. Kinds(Steps(t)) = {"merged"} /\ Kinds(Steps(f)) = {"partial", "delete", "merged", "throw"}
    BY <1>2, <1>6, <1>8 DEF Kinds
  <2> QED
    BY <2>1, KindsAre
<1> QED
  BY <1>1, <1>5, <1>6, <1>8, <1>9

\* The compound file of a merged segment takes the place of its own files.
LEMMA CompoundCommitted ==
  ASSUME IInv, FInv, DP!IInv, IInv', CommitCompound, ~merge.aborted,
         \E i \in DOMAIN infos : infos[i].name = merge.out.name
  PROVE  [DeleterStep]_(D!vars) /\ FInv'
PROOF
<1>1. PICK n, c : n = merge.out.name /\ c = Current(n)
  OBVIOUS
<1>2. PICK fs : fs = {Cfs(n)}
  OBVIOUS
<1>3. PICK t : t = <<<<"merged", "none">>>>
  OBVIOUS
<1>4. PICK f : f = <<<<"partial">>, <<"delete", fs>>>> \o t \o <<<<"throw", "merge">>>>
  OBVIOUS
<1>5. /\ Free /\ merge.stage = "compound"
      /\ infos' = [infos EXCEPT ![c].cfs = TRUE]
      /\ op' = [todo |-> CommitSteps \o t, undo |-> infos, onFail |-> f, pausing |-> FALSE]
      /\ UNCHANGED <<store, deleter, status, autoCommit, gen, lastGen, counter, rollback, buf, merge,
                     faults>>
  BY <1>1, <1>2, <1>3, <1>4 DEF CommitCompound
<1>6. c \in DOMAIN infos /\ infos[c].name = n
  BY <1>1 DEF Current
<1>7. n \in Name
  BY <1>1, <1>5, MergedName
<1>8. /\ t \in Seq(Step) /\ Ordered(t) /\ Steps(t) = {<<"merged", "none">>}
      /\ Names(t) = {"merged"}
      /\ f \in Seq(Step) /\ Ordered(f)
      /\ Steps(f) = {<<"partial">>, <<"delete", fs>>, <<"merged", "none">>, <<"throw", "merge">>}
      /\ Names(f) = {"partial", "delete", "merged", "throw"}
  BY <1>2, <1>3, <1>4, <1>7, CompoundEndSteps
<1>9. op'.todo = CommitSteps \o t /\ op'.undo = infos /\ op'.onFail = f
  BY <1>5
<1>10. Up /\ HeadOf(op.todo) = "idle"
  BY <1>5, Merging DEF Up, Free, HeadOf
<1>11. dir' = dir
  BY <1>5 DEF store
<1>12. <<"ckpt", TRUE>> \notin Steps(f)
  <2>1. <<"ckpt", TRUE>>[1] = "ckpt"
    OBVIOUS
  <2>2. "ckpt" \notin Names(f)
    BY <1>8
  <2>3. Kinds(Steps(f)) = Names(f)
    BY KindsAre
  <2> QED
    BY <2>1, <2>2, <2>3 DEF Kinds
<1>13. PICK S2, w2 : S2 = Steps(op'.todo) /\ w2 = World'
  OBVIOUS
<1>14. /\ [DeleterStep]_(D!vars)
       /\ RollbackSound' /\ NamesBelow' /\ DiskSound' /\ LastOK' /\ WrittenOK' /\ OrderOK' /\ Clean'
       /\ "ckpt" \in Kinds(S2)
       /\ \A a \in S2 : a \in Steps(t) \/ a[1] \in {"write", "ckpt"}
       /\ Steps(t) \subseteq S2
  <2>1. HeadOf(op.todo) \in {"idle", "segment", "cfs"}
    BY <1>10
  <2>2. /\ Names(t) \cap {"ckpt", "ctor", "write", "finish", "segment", "close"} = {}
        /\ Names(f) \cap {"ctor", "close", "segment", "cfs"} = {}
    BY <1>8
  <2>3. UNCHANGED <<disk, pinned>>
    BY <1>5 DEF store
  <2> QED
    BY <1>5, <1>8, <1>9, <1>10, <1>11, <1>12, <1>13, <2>1, <2>2, <2>3, CommitGoes
<1>15. PICK w, S : w = World /\ S = Steps(op.todo)
  OBVIOUS
<1>16. /\ w.safe = dir /\ w.base = D!Named(commits, last) /\ w.ref = D!Referenced
       /\ w.held = held /\ w.counter = counter /\ w.buf = buf /\ w.merge = merge
       /\ w.status = status /\ Kinds(S) = Names(op.todo)
       /\ Sound(infos, S, w) /\ BufSoundIn(S, w) /\ MergeSoundIn(infos, w)
       /\ Fits(infos, counter, buf.seg, merge) /\ BufShape(buf, counter)
       /\ MergeShape(merge, counter, buf.seg) /\ ListOK(infos, counter) /\ counter \in Nat
  BY <1>15, PartsOf
<1>17. /\ w2.safe = dir /\ w2.base = D!Named(commits, last) /\ w2.ref = D!Referenced
       /\ w2.held = held /\ w2.counter = counter /\ w2.buf = buf /\ w2.merge = merge
       /\ w2.status = status
  BY <1>5, <1>11, <1>13, WorldThen
<1>18. PICK js : js = infos'
  OBVIOUS
<1>19. /\ DOMAIN js = DOMAIN infos
       /\ \A i \in DOMAIN infos : /\ js[i].name = infos[i].name /\ js[i].store = infos[i].store
                                  /\ js[i].storeCfs = infos[i].storeCfs
                                  /\ js[i].delGen = infos[i].delGen
                                  /\ i # c => js[i] = infos[i]
       /\ js[c].cfs
  <2>1. js = [i \in DOMAIN infos |-> IF i = c THEN [infos[i] EXCEPT !.cfs = TRUE] ELSE infos[i]]
    BY <1>5, <1>6, <1>18, Types
  <2>2. \A i \in DOMAIN infos : infos[i] \in SegmentInfos
    BY Types
  <2> QED
    BY <1>6, <2>1, <2>2 DEF SegmentInfos
<1>20. held = {} /\ Cfs(n) \notin D!Referenced \cup FilesIn(infos) /\ Cfs(n) \in dir
       /\ FilesIn(infos) \subseteq D!Named(commits, last) /\ FilesIn(infos) \subseteq dir
  <2>1. ~Writing(merge)
    BY <1>5 DEF Writing
  <2> QED
    BY <1>1, <1>5, <1>10, <2>1, FreeFacts
<1>21. ListOK(js, counter)
  BY <1>5, <1>18 DEF IInv, InfosOK, Fits
<1>22. \A g \in FilesIn(js) : g \in FilesIn(infos) \/ g = Cfs(n)
  <2>1. \A i \in DOMAIN infos : FileSet(infos[i]) \subseteq FilesIn(infos)
    BY <1>16, FilesKinds
  <2>2. \A g \in FilesIn(js) : \E k \in DOMAIN js : g \in FileSet(js[k])
    BY <1>21, FilesKinds
  <2>3. \A g \in FileSet(js[c]) : g \in FileSet(infos[c]) \/ g = Cfs(n)
    BY <1>6, <1>19 DEF FileSet
  <2> QED
    BY <1>6, <1>19, <2>1, <2>2, <2>3
<1>23. /\ <<"merged", "none">>[1] = "merged" /\ <<"partial">>[1] = "partial"
       /\ <<"delete", fs>>[1] = "delete" /\ <<"delete", fs>>[2] = fs
       /\ <<"throw", "merge">>[1] = "throw"
       /\ <<"merged", "committed">>[1] = "merged" /\ <<"merged", "none">> # <<"merged", "committed">>
  OBVIOUS
<1>24. "merged" \in Kinds(S2)
  BY <1>8, <1>14, <1>23 DEF Kinds
<1>25. ~Writing(merge)
  BY <1>5 DEF Writing
<1>26. ~Alone(w2.merge, S2)
  <2>1. <<"merged", "committed">> \notin S2
    BY <1>8, <1>14, <1>23
  <2> QED
    BY <1>5, <1>17, <1>24, <2>1 DEF Alone
<1>27. FilesSound(js, S2, w2)
  <2>1. FilesIn(js) \subseteq w2.safe
    BY <1>17, <1>20, <1>22
  <2>2. \A i \in DOMAIN js : js[i].store < w2.counter
    BY <1>16, <1>17, <1>19 DEF Sound, FilesSound
  <2>3. w2.buf.store # None => Cfx(w2.buf.store) \notin FilesIn(js)
    <3>1. Cfx(buf.store) # Cfs(n)
      <4>1. Cfx(buf.store)[1] = "cfx" /\ Cfs(n)[1] = "cfs"
        BY Fields
      <4> QED
        BY <4>1
    <3> QED
      BY <1>16, <1>17, <1>22, <3>1 DEF Sound, FilesSound
  <2> QED
    BY <1>14, <1>17, <1>25, <1>26, <2>1, <2>2, <2>3 DEF FilesSound
<1>28. Sound(js, S2, w2)
  <2>1. \A a \in S2 : Ready(a, S2, js, w2)
    <3>1. \A a \in S2 : a[1] \in {"merged", "write", "ckpt"}
      BY <1>8, <1>14, <1>23
    <3> QED
      BY <3>1 DEF Ready
  <2> QED
    BY <1>17, <1>20, <1>24, <1>27, <2>1 DEF Sound
<1>29. Sound(infos, Steps(f), w2)
  <2>1. PICK F : F = Steps(f)
    OBVIOUS
  <2>2. Kinds(F) = {"partial", "delete", "merged", "throw"}
    BY <1>8, <2>1, KindsAre
  <2>3. ~Alone(w2.merge, F)
    <3>1. \A a \in F : a # <<"merged", "committed">>
      BY <1>8, <1>23, <2>1
    <3> QED
      BY <1>5, <1>17, <2>2, <3>1 DEF Alone
  <2>4. FilesSound(infos, F, w2)
    <3>1. /\ \A i \in DOMAIN infos : infos[i].store < counter
          /\ buf.store # None => Cfx(buf.store) \notin FilesIn(infos)
      BY <1>16 DEF Sound, FilesSound
    <3> QED
      BY <1>17, <1>20, <1>25, <2>3, <3>1 DEF FilesSound
  <2>5. \A a \in F : Ready(a, F, infos, w2)
    <3>1. \A a \in F : \/ a[1] \in {"partial", "merged", "throw"}
                       \/ a[1] = "delete" /\ a[2] = fs
      BY <1>8, <1>23, <2>1
    <3>2. DropReady(fs, F, infos, w2)
      BY <1>2, <1>7, <1>17, <1>20, <2>3 DEF DropReady
    <3> QED
      BY <3>1, <3>2 DEF Ready
  <2> QED
    BY <1>17, <1>20, <2>1, <2>2, <2>4, <2>5 DEF Sound
<1>30. BufSoundIn(S2, w2)
  <2>1. "segment" \notin Kinds(S)
    <3>1. op.todo = <<>> /\ op.todo \in Seq(Step)
      BY <1>5, Types DEF Free
    <3> QED
      BY <1>16, <3>1, HeadName
  <2>2. buf.store \in Name \cup {None}
    BY <1>16 DEF BufShape
  <2>3. buf.store # None =>
          /\ Store(buf.store) \in w2.safe
          /\ Store(buf.store) \in w2.ref => Store(buf.store) \in w2.base
          /\ Cfx(buf.store) \in w2.ref => Cfx(buf.store) \in w.ref
    BY <1>16, <1>17 DEF BufSoundIn
  <2> QED
    BY <1>16, <1>17, <2>1, <2>2, <2>3, BufStill
<1>31. MergeSoundIn(js, w2)
  BY <1>5, <1>16, <1>17, <1>25 DEF MergeSoundIn
<1>32. InfosSound' /\ UndoSound' /\ BufSound' /\ MergeSound'
  BY <1>9, <1>13, <1>18, <1>28, <1>29, <1>30, <1>31 DEF InfosSound, UndoSound, BufSound, MergeSound
<1> QED
  BY <1>14, <1>32 DEF FInv

LEMMA CommitCompoundSafe ==
  ASSUME IInv, FInv, DP!IInv, IInv', CommitCompound
  PROVE  [DeleterStep]_(D!vars) /\ FInv'
PROOF
<1>1. PICK n : n = merge.out.name
  OBVIOUS
<1>2. CASE merge.aborted \/ \A i \in DOMAIN infos : infos[i].name # n
  <2>1. Begin(<<<<"delete", {Cfs(n)}>>>> \o <<<<"merged", "none">>>>, FALSE)
    BY <1>1, <1>2 DEF CommitCompound
  <2>2. UNCHANGED infos
    BY <1>1, <1>2 DEF CommitCompound
  <2>3. /\ Free /\ merge.stage = "compound"
        /\ UNCHANGED <<store, deleter, status, autoCommit, gen, lastGen, counter, rollback, buf, merge>>
    BY DEF CommitCompound
  <2> QED
    BY <1>1, <2>1, <2>2, <2>3, CompoundGone
<1>3. CASE ~(merge.aborted \/ \A i \in DOMAIN infos : infos[i].name # n)
  BY <1>1, <1>3, CompoundCommitted
<1> QED
  BY <1>2, <1>3

\* The last commit of a writer that is being closed.
LEMMA CloseCommitSafe ==
  ASSUME IInv, FInv, DP!IInv, IInv', CloseCommit
  PROVE  [DeleterStep]_(D!vars) /\ FInv'
PROOF
<1>1. PICK a, b, c, p, q : /\ a = <<"write">> /\ b = <<"ckpt", TRUE>> /\ c = <<"close">>
                           /\ p = <<"partial">> /\ q = <<"throw", "caller">>
  OBVIOUS
<1>2. /\ a \in Step /\ b \in Step /\ c \in Step /\ p \in Step /\ q \in Step
      /\ a[1] = "write" /\ b[1] = "ckpt" /\ c[1] = "close" /\ p[1] = "partial" /\ q[1] = "throw"
      /\ a # b /\ c # b /\ p # b /\ q # b
  BY <1>1 DEF Step
<1>3. PICK u, v, s, f : /\ u = IF commitPending THEN <<a, b>> ELSE <<>>
                        /\ v = <<c>> /\ s = u \o v /\ f = <<p, q>>
  OBVIOUS
<1>4. /\ Free /\ merge.stage = "none" /\ status \in {"closing", "stopping", "abandoning"}
      /\ op' = [todo |-> s, undo |-> infos, onFail |-> f, pausing |-> FALSE]
      /\ UNCHANGED <<store, deleter, status, autoCommit, si, rollback, buf, merge, faults>>
  BY <1>1, <1>3 DEF CloseCommit
<1>5. op'.todo = s /\ op'.undo = infos /\ op'.onFail = f
  BY <1>4
<1>6. UNCHANGED <<dir, disk, pinned, infos, gen, lastGen, counter>>
  BY <1>4 DEF store, si
<1>7. u \in Seq(Step) /\ v \in Seq(Step) /\ f \in Seq(Step)
  <2>1. <<a, b>> \in Seq(Step) /\ <<>> \in Seq(Step) /\ <<c>> \in Seq(Step) /\ <<p, q>> \in Seq(Step)
    BY ONLY <1>2
  <2> QED
    BY ONLY <1>3, <2>1
<1>8. Before(a, b) /\ Before(a, c) /\ Before(b, c) /\ Before(p, q)
  BY <1>1, <1>2 DEF Before
<1>9. /\ Steps(u) = (IF commitPending THEN {a, b} ELSE {}) /\ Ordered(u)
      /\ Steps(v) = {c} /\ Ordered(v) /\ Steps(f) = {p, q} /\ Ordered(f)
  <2>1. /\ Steps(<<a, b>>) = {a, b} /\ Ordered(<<a, b>>) /\ Steps(<<>>) = {} /\ Ordered(<<>>)
    BY ONLY <1>8, ShortLists
  <2>2. Steps(<<c>>) = {c} /\ Ordered(<<c>>)
    BY ONLY ShortLists
  <2>3. Steps(<<p, q>>) = {p, q} /\ Ordered(<<p, q>>)
    BY ONLY <1>8, ShortLists
  <2> QED
    BY ONLY <1>3, <2>1, <2>2, <2>3
<1>10. s \in Seq(Step) /\ Steps(s) = Steps(u) \cup Steps(v) /\ Ordered(s)
  <2>1. s \in Seq(Step)
    BY ONLY <1>3, <1>7
  <2>2. \A x \in Steps(u), y \in Steps(v) : Before(x, y)
    BY ONLY <1>8, <1>9
  <2>3. Steps(s) = Steps(u) \cup Steps(v) /\ Ordered(s)
    BY ONLY <1>3, <1>7, <1>9, <2>2, StepsJoin
  <2> QED
    BY <2>1, <2>3
<1>11. s = (IF commitPending THEN <<a, b, c>> ELSE <<c>>)
  <2>1. CASE commitPending
    <3>1. s \in Seq(Step) /\ Len(s) = 3 /\ s[1] = a /\ s[2] = b /\ s[3] = c
      <4>1. u \in Seq(Step) /\ v \in Seq(Step) /\ Len(u) = 2 /\ u[1] = a /\ u[2] = b /\ Len(v) = 1 /\ v[1] = c
        BY <1>3, <1>7, <2>1
      <4> QED
        BY ONLY <1>3, <4>1, ConcatProperties
    <3> QED
      BY ONLY <2>1, <3>1
  <2>2. CASE ~commitPending
    <3>1. s = v
      BY <1>3, <1>7, <2>2, ConcatEmptySeq
    <3> QED
      BY <1>3, <2>2, <3>1
  <2> QED
    BY <2>1, <2>2
<1>12. /\ HeadOf(s) \in {"write", "close"} /\ s # <<>> /\ Head(s) # b
       /\ HeadOf(s) = "write" => commitPending /\ Len(s) = 3 /\ s[2] = b
  <2>1. CASE commitPending
    BY <1>2, <1>11, <2>1 DEF HeadOf
  <2>2. CASE ~commitPending
    BY <1>2, <1>11, <2>2 DEF HeadOf
  <2> QED
    BY <2>1, <2>2
<1>13. /\ Names(s) \subseteq {"write", "ckpt", "close"} /\ "close" \in Names(s)
       /\ "ckpt" \in Names(s) <=> commitPending
       /\ Names(f) = {"partial", "throw"}
  <2>1. Names(s) = Kinds(Steps(s)) /\ Names(f) = Kinds(Steps(f))
    BY KindsAre
  <2>2. \A x \in Steps(s) : x = c \/ (commitPending /\ x \in {a, b})
    BY <1>9, <1>10
  <2>3. c \in Steps(s) /\ (commitPending => b \in Steps(s))
    BY <1>9, <1>10
  <2> QED
    BY <1>2, <1>9, <2>1, <2>2, <2>3 DEF Kinds
<1>14. OrderShape(op', status', autoCommit)
  <2>1. PICK o2, st : o2 = op' /\ st = status'
    OBVIOUS
  <2>2. o2.todo = s /\ o2.onFail = f /\ st # "opening"
    BY <1>4, <1>5, <2>1
  <2>3. <<"ckpt", TRUE>> \notin Steps(f)
    BY <1>1, <1>2, <1>9
  <2>4. HeadOf(s) \in {"write", "finish"} => Len(s) >= 2 /\ s[2] = <<"ckpt", TRUE>>
    <3>1. HeadOf(s) = "write" => Len(s) >= 2
      BY <1>12
    <3>2. HeadOf(s) \in {"write", "close"} /\ (HeadOf(s) = "write" => s[2] = <<"ckpt", TRUE>>)
      BY <1>1, <1>12
    <3> QED
      BY ONLY <3>1, <3>2
  <2>5. OrderShape(o2, st, autoCommit)
    BY <1>9, <1>10, <1>13, <2>2, <2>3, <2>4 DEF OrderShape
  <2> QED
    BY <2>1, <2>5
<1>15. Up /\ HeadOf(op.todo) = "idle"
  BY <1>4 DEF Up, Free, HeadOf
<1>16. /\ [DeleterStep]_(D!vars)
       /\ RollbackSound' /\ NamesBelow' /\ DiskSound' /\ LastOK' /\ WrittenOK' /\ OrderOK' /\ Clean'
  <2>1. /\ HeadOf(op.todo) \in {"idle", "segment", "cfs"} /\ HeadOf(op'.todo) \notin {"finish", "ctor"}
        /\ Head(op'.todo) # <<"ckpt", TRUE>>
    BY <1>1, <1>5, <1>12, <1>15
  <2> QED
    BY <1>4, <1>6, <1>14, <1>15, <2>1, CommitRest
<1>17. PICK w, S, w2, S2 : w = World /\ S = Steps(op.todo) /\ w2 = World' /\ S2 = Steps(op'.todo)
  OBVIOUS
<1>18. /\ w.safe = dir /\ w.base = D!Named(commits, last) /\ w.ref = D!Referenced
       /\ w.held = held /\ w.counter = counter /\ w.buf = buf /\ w.merge = merge
       /\ w.status = status /\ Kinds(S) = Names(op.todo)
       /\ Sound(infos, S, w) /\ BufSoundIn(S, w) /\ MergeSoundIn(infos, w)
       /\ BufShape(buf, counter) /\ counter \in Nat
  BY <1>17, PartsOf
<1>19. /\ w2.safe = dir /\ w2.base = D!Named(commits, last) /\ w2.ref = D!Referenced
       /\ w2.held = held /\ w2.counter = counter /\ w2.buf = buf /\ w2.merge = merge
       /\ w2.status = status
  BY <1>4, <1>6, <1>17, WorldThen
<1>20. held = {} /\ FilesIn(infos) \subseteq D!Named(commits, last) /\ FilesIn(infos) \subseteq dir
       /\ ~Writing(merge)
  <2>1. ~Writing(merge)
    BY <1>4 DEF Writing
  <2> QED
    BY <1>4, <1>15, <2>1, FreeFacts
<1>21. ASSUME NEW T, \A x \in T : x[1] \in {"write", "ckpt", "close", "partial", "throw"}
       PROVE  Sound(infos, T, w2)
  <2>1. ~Alone(w2.merge, T)
    <3>1. <<"merged", "committed">>[1] = "merged"
      OBVIOUS
    <3> QED
      BY <1>4, <1>19, <1>21, <3>1 DEF Alone
  <2>2. FilesSound(infos, T, w2)
    <3>1. /\ \A i \in DOMAIN infos : infos[i].store < counter
          /\ buf.store # None => Cfx(buf.store) \notin FilesIn(infos)
      BY <1>18 DEF Sound, FilesSound
    <3> QED
      BY <1>19, <1>20, <2>1, <3>1 DEF FilesSound
  <2>3. \A x \in T : Ready(x, T, infos, w2)
    BY <1>4, <1>19, <1>21 DEF Ready
  <2> QED
    BY <1>4, <1>19, <1>20, <2>2, <2>3 DEF Sound
<1>22. Sound(infos, S2, w2) /\ Sound(infos, Steps(f), w2)
  <2>1. \A x \in S2 : x[1] \in {"write", "ckpt", "close", "partial", "throw"}
    BY <1>2, <1>5, <1>9, <1>10, <1>17
  <2>2. \A x \in Steps(f) : x[1] \in {"write", "ckpt", "close", "partial", "throw"}
    BY <1>2, <1>9
  <2> QED
    BY <1>21, <2>1, <2>2
<1>23. BufSoundIn(S2, w2)
  <2>1. "segment" \notin Kinds(S)
    <3>1. op.todo = <<>> /\ op.todo \in Seq(Step)
      BY <1>4, Types DEF Free
    <3> QED
      BY <1>18, <3>1, HeadName
  <2>2. buf.store \in Name \cup {None}
    BY <1>18 DEF BufShape
  <2>3. buf.store # None =>
          /\ Store(buf.store) \in w2.safe
          /\ Store(buf.store) \in w2.ref => Store(buf.store) \in w2.base
          /\ Cfx(buf.store) \in w2.ref => Cfx(buf.store) \in w.ref
    BY <1>18, <1>19 DEF BufSoundIn
  <2> QED
    BY <1>18, <1>19, <2>1, <2>2, <2>3, BufStill
<1>24. MergeSoundIn(infos, w2)
  BY <1>4, <1>18, <1>19, <1>20 DEF MergeSoundIn
<1>25. InfosSound' /\ UndoSound' /\ BufSound' /\ MergeSound'
  BY <1>5, <1>6, <1>17, <1>22, <1>23, <1>24 DEF InfosSound, UndoSound, BufSound, MergeSound
<1> QED
  BY <1>16, <1>25 DEF FInv

\* abort() goes back to the segments the writer was opened with.
LEMMA AbortRollbackSafe ==
  ASSUME IInv, FInv, DP!IInv, IInv', AbortRollback
  PROVE  [DeleterStep]_(D!vars) /\ FInv'
PROOF
<1>1. PICK a, b : a = <<"ckpt", FALSE>> /\ b = <<"refresh", None>>
  OBVIOUS
<1>2. /\ a \in Step /\ b \in Step
      /\ a[1] = "ckpt" /\ b[1] = "refresh" /\ b[2] = None /\ a # <<"ckpt", TRUE>>
  BY <1>1 DEF Step
<1>3. PICK s : s = <<a, b>>
  OBVIOUS
<1>4. /\ Free /\ merge.stage = "none" /\ status = "aborting" /\ status' = "aborted"
      /\ infos' = rollback /\ rollback' = <<>> /\ buf' = [EmptyBuf EXCEPT !.closed = buf.closed]
      /\ Begin(s, FALSE)
      /\ UNCHANGED <<store, deleter, autoCommit, gen, lastGen, counter, commitPending, merge, faults>>
  BY <1>1, <1>3 DEF AbortRollback
<1>5. UNCHANGED <<dir, disk, pinned, refCounts, commits, last, held, deletable>>
  BY <1>4 DEF store, deleter
<1>6. buf'.store = None /\ buf'.seg = None /\ buf'.docs = {}
  BY <1>4 DEF EmptyBuf
<1>7. s \in Seq(Step) /\ Steps(s) = {a, b} /\ Ordered(s)
  <2>1. s \in Seq(Step)
    BY ONLY <1>2, <1>3
  <2>2. Before(a, b)
    BY <1>1, <1>2 DEF Before
  <2>3. Steps(<<a, b>>) = {a, b} /\ Ordered(<<a, b>>)
    BY ONLY <2>2, ShortLists
  <2> QED
    BY ONLY <1>3, <2>1, <2>3
<1>8. HeadOf(s) = "ckpt" /\ Head(s) = a /\ s # <<>>
  BY <1>2, <1>3 DEF HeadOf
<1>9. Names(s) = {"ckpt", "refresh"}
  BY <1>2, <1>7, KindsAre DEF Kinds
<1>10. op' = [todo |-> s, undo |-> infos, onFail |-> <<>>, pausing |-> FALSE] /\ op'.todo = s
  BY <1>4 DEF Begin
<1>11. OrderShape(op', status', autoCommit)
  <2>1. PICK o2, is, st, ac, p : o2 = op' /\ is = infos /\ st = status' /\ ac = autoCommit /\ p = FALSE
    OBVIOUS
  <2>2. o2 = [todo |-> s, undo |-> is, onFail |-> <<>>, pausing |-> p]
    BY <1>10, <2>1
  <2>3. Names(s) \cap {"ctor", "write", "finish"} = {} /\ ("segment" \in Names(s) => p)
        /\ <<"ckpt", TRUE>> \notin Steps(s)
    <3>1. <<"ckpt", TRUE>>[1] = "ckpt"
      OBVIOUS
    <3> QED
      BY <1>2, <1>7, <1>9, <3>1
  <2>4. OrderShape(o2, st, ac)
    BY ONLY <1>7, <2>2, <2>3, OrderBegun
  <2> QED
    BY <2>1, <2>4
<1>12. Up /\ Up' /\ HeadOf(op.todo) = "idle"
  BY <1>4 DEF Up, Free, HeadOf
<1>13. Unreg = 0 /\ Unreg' = 0
  BY <1>2, <1>4, <1>8, <1>10 DEF Unreg, Free
<1>14. [DeleterStep]_(D!vars)
  BY <1>4, <1>5, <1>12, <1>13, CreatesNew
<1>15. PICK w2 : w2 = World'
  OBVIOUS
<1>16. /\ w2.safe = dir /\ w2.base = D!Named(commits, last) /\ w2.ref = D!Referenced
       /\ w2.held = held /\ w2.counter = counter /\ w2.buf = buf' /\ w2.merge = merge
       /\ w2.status = "aborted" /\ (D!Referenced)' = D!Referenced
  BY <1>4, <1>5, <1>15, WorldThen
<1>17. RollbackSound' /\ NamesBelow' /\ DiskSound' /\ LastOK' /\ WrittenOK' /\ OrderOK' /\ Clean'
  <2>1. \A f \in (D!Referenced)' : f \in D!Referenced
    BY <1>16
  <2>2. \A g \in Gen : SegmentsFile(g) \in dir' => SegmentsFile(g) \in dir
    BY <1>5
  <2>3. /\ rollback' \in {rollback, <<>>} /\ deletable' = {} /\ counter <= counter'
        /\ status \notin {"closed", "opening"} /\ status' \notin {"closed", "opening"}
        /\ status' # "aborting"
    BY <1>4, <1>5 DEF FInv, Clean, IInv, RestOK
  <2>4. HeadOf(op.todo) # "close" /\ commits' = commits
    BY <1>5, <1>12
  <2>5. HeadOf(op'.todo) \notin {"finish", "ctor"} /\ Head(op'.todo) # <<"ckpt", TRUE>>
    BY <1>2, <1>8, <1>10
  <2> QED
    BY <1>4, <1>5, <1>11, <2>1, <2>2, <2>3, <2>4, <2>5, RestStill
<1>18. held = {} /\ ~Writing(merge)
  <2>1. ~Writing(merge)
    BY <1>4 DEF Writing
  <2> QED
    BY <1>4, <1>12, <2>1, FreeFacts
<1>19. /\ \A i \in DOMAIN rollback : rollback[i].store < counter
       /\ FilesIn(rollback) \subseteq dir
  <2>1. ~autoCommit
    BY <1>4 DEF FInv, RollbackSound
  <2>2. Backable(autoCommit, status, op.todo)
    BY <1>4, <1>12, <2>1 DEF Backable
  <2>3. RollbackShape(rollback, infos, status, counter, commits)
    BY <2>2 DEF FInv, RollbackSound
  <2>4. FilesIn(rollback) \subseteq UNION {D!Range(c.files) : c \in commits}
    BY <1>4, <2>3 DEF RollbackShape
  <2>5. UNION {D!Range(c.files) : c \in commits} \subseteq D!Named(commits, last)
    BY DEF D!Named
  <2>6. D!Named(commits, last) \subseteq dir
    BY <1>12, DeleterKnows
  <2> QED
    BY <2>3, <2>4, <2>5, <2>6 DEF RollbackShape
<1>20. ~Alone(merge, Steps(s))
  <2>1. <<"merged", "committed">>[1] = "merged"
    OBVIOUS
  <2> QED
    BY <1>2, <1>4, <1>7, <2>1 DEF Alone
<1>21. Sound(rollback, Steps(s), w2)
  <2>1. "ckpt" \in Kinds(Steps(s))
    BY <1>9, KindsAre
  <2>2. FilesSound(rollback, Steps(s), w2)
    BY <1>6, <1>16, <1>18, <1>19, <1>20, <2>1 DEF FilesSound
  <2>3. RefreshReady(None, Steps(s), w2)
    BY <1>4, <1>6, <1>16 DEF RefreshReady
  <2>4. \A x \in Steps(s) : Ready(x, Steps(s), rollback, w2)
    BY <1>2, <1>7, <2>3 DEF Ready
  <2> QED
    BY <1>4, <1>16, <1>18, <2>2, <2>4 DEF Sound
<1>22. UndoSound'
  BY <1>8, <1>10 DEF UndoSound, Undoing, Undoes
<1>23. BufSoundIn(Steps(s), w2)
  BY <1>6, <1>16, Types DEF BufSoundIn, None
<1>24. MergeSoundIn(rollback, w2)
  BY <1>4, <1>16, <1>18 DEF MergeSoundIn
<1>25. InfosSound' /\ BufSound' /\ MergeSound'
  BY <1>4, <1>10, <1>15, <1>21, <1>23, <1>24 DEF InfosSound, BufSound, MergeSound
<1> QED
  BY <1>14, <1>17, <1>22, <1>25 DEF FInv

=============================================================================
