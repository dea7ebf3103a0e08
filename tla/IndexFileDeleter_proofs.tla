----------------------- MODULE IndexFileDeleter_proofs -----------------------
(***************************************************************************)
(* Proofs that the safety properties of IndexFileDeleter hold for any set  *)
(* of files and generations, any client that keeps its contract, and both  *)
(* kinds of deletion policy.                                               *)
(*                                                                         *)
(* They all follow from one inductive invariant, IInv.  Besides the        *)
(* properties it says what makes them inductive: what the deleter knows    *)
(* while it exists (KeptKnown: every commit that is to be kept, but for    *)
(* the one just written), what it may not know yet (Fresh: the commit just *)
(* written is the newest, and its files are in no danger), and that        *)
(* nothing of it is left when it does not exist (Down).                    *)
(*                                                                         *)
(* The first part counts references (Taking, GivingBack and Handover are   *)
(* what incRef, decRef and checkpoint do to the counts), the second has    *)
(* one lemma per action, the last one the theorems.                        *)
(***************************************************************************)
EXTENDS IndexFileDeleter, FiniteSetTheorems, SequenceTheorems, TLAPS

-----------------------------------------------------------------------------
(* Counting references.                                                    *)

\* The vectors of file names.
Vector == Seq(File)

\* Finitely many holders of vectors of file names.
Finite(H) == IsFiniteSet(H) /\ \A h \in H : h.files \in Vector

\* A vector names a file finitely often, and not at all iff the count is 0.
LEMMA CountNat ==
    ASSUME NEW fs \in Vector, NEW f
    PROVE  /\ IsFiniteSet({i \in DOMAIN fs : fs[i] = f})
           /\ Count(fs, f) \in Nat
           /\ Count(fs, f) = 0 <=> f \notin Range(fs)
<1> DEFINE S == {i \in DOMAIN fs : fs[i] = f}
<1>1. PICK n \in Nat : DOMAIN fs = 1..n
  BY DEF Vector
<1>2. IsFiniteSet(1..n)
  BY <1>1, FS_Interval
<1>3. IsFiniteSet(S)
  BY <1>1, <1>2, FS_Subset
<1>4. Cardinality(S) \in Nat /\ (Cardinality(S) = 0 <=> S = {})
  BY <1>3, FS_CardinalityType, FS_EmptySet
<1>5. S = {} <=> f \notin Range(fs)
  BY DEF Range
<1>. QED
  BY <1>3, <1>4, <1>5 DEF Count

\* The empty vector names nothing.
LEMMA CountEmpty ==
    ASSUME NEW f
    PROVE  << >> \in Vector /\ Count(<< >>, f) = 0
<1>1. << >> \in Vector /\ DOMAIN << >> = {}
  BY DEF Vector
<1>2. f \notin Range(<< >>)
  BY <1>1 DEF Range
<1>. QED
  BY <1>1, <1>2, CountNat

\* The elements of Uses, spelled out.
LEMMA InUses ==
    ASSUME NEW H, NEW f, NEW p
    PROVE  p \in Uses(H, f) <=> \E h \in H : \E i \in DOMAIN h.files :
                                    h.files[i] = f /\ p = <<h, i>>
BY DEF Uses

\* The set of references to a file is finite.
LEMMA UsesFinite ==
    ASSUME NEW H, Finite(H), NEW f
    PROVE  /\ IsFiniteSet(Uses(H, f))
           /\ Cardinality(Uses(H, f)) \in Nat
           /\ Cardinality(Uses(H, f)) = 0 <=> \A h \in H : f \notin Range(h.files)
<1> DEFINE Of(h) == {h} \X {i \in DOMAIN h.files : h.files[i] = f}
           T == {Of(h) : h \in H}
           g == [h \in H |-> Of(h)]
<1>1. IsFiniteSet(T)
  <2>1. g \in Surjection(H, T)
    BY DEF Surjection
  <2>. QED
    BY <2>1, FS_Surjection DEF Finite
<1>2. ASSUME NEW h \in H PROVE IsFiniteSet(Of(h))
  <2>1. IsFiniteSet({i \in DOMAIN h.files : h.files[i] = f})
    BY CountNat DEF Finite
  <2>. QED
    BY <2>1, FS_Singleton, FS_Product
<1>3. IsFiniteSet(UNION T)
  BY <1>1, <1>2, FS_UNION
<1>4. IsFiniteSet(Uses(H, f))
  BY <1>3 DEF Uses
<1>5. Uses(H, f) = {} <=> \A h \in H : f \notin Range(h.files)
  <2>1. ASSUME NEW h \in H, f \in Range(h.files)
        PROVE  Uses(H, f) # {}
    <3>1. PICK i \in DOMAIN h.files : h.files[i] = f
      BY <2>1 DEF Range
    <3>2. <<h, i>> \in Uses(H, f)
      BY <3>1, InUses
    <3>. QED
      BY <3>2
  <2>2. ASSUME NEW p \in Uses(H, f)
        PROVE  \E h \in H : f \in Range(h.files)
    BY InUses DEF Range
  <2>. QED
    BY <2>1, <2>2
<1>. QED
  BY <1>4, <1>5, FS_CardinalityType, FS_EmptySet

\* References add up over disjoint sets of holders.
LEMMA UsesAdd ==
    ASSUME NEW A, NEW B, Finite(A), Finite(B), A \cap B = {}, NEW f
    PROVE  /\ Finite(A \cup B)
           /\ Cardinality(Uses(A \cup B, f)) =
                Cardinality(Uses(A, f)) + Cardinality(Uses(B, f))
<1>1. Finite(A \cup B)
  BY FS_Union DEF Finite
<1>2. Uses(A \cup B, f) = Uses(A, f) \cup Uses(B, f)
  BY DEF Uses
<1>3. Uses(A, f) \cap Uses(B, f) = {}
  BY InUses
<1>4. IsFiniteSet(Uses(A, f)) /\ IsFiniteSet(Uses(B, f))
  BY UsesFinite
<1>5. Cardinality(Uses(A, f)) \in Nat /\ Cardinality(Uses(B, f)) \in Nat
  BY UsesFinite
<1>6. Cardinality(Uses(A, f) \cup Uses(B, f)) =
        Cardinality(Uses(A, f)) + Cardinality(Uses(B, f)) - Cardinality(Uses(A, f) \cap Uses(B, f))
  BY <1>4, FS_Union
<1>7. Cardinality(Uses(A, f) \cap Uses(B, f)) = 0
  BY <1>3, FS_EmptySet
<1>8. Cardinality(Uses(A, f) \cup Uses(B, f)) =
        Cardinality(Uses(A, f)) + Cardinality(Uses(B, f))
  BY <1>5, <1>6, <1>7
<1>. QED
  BY <1>1, <1>2, <1>8

\* A holder that leaves takes its own references with it, and no other.
LEMMA UsesRemove ==
    ASSUME NEW H, NEW G, Finite(H), G \subseteq H, NEW f
    PROVE  /\ Finite(G) /\ Finite(H \ G)
           /\ Cardinality(Uses(H \ G, f)) =
                Cardinality(Uses(H, f)) - Cardinality(Uses(G, f))
<1>1. Finite(G) /\ Finite(H \ G)
  BY FS_Subset DEF Finite
<1>2. (H \ G) \cup G = H /\ (H \ G) \cap G = {}
  OBVIOUS
<1>3. Cardinality(Uses((H \ G) \cup G, f)) =
        Cardinality(Uses(H \ G, f)) + Cardinality(Uses(G, f))
  BY <1>1, <1>2, UsesAdd
<1>4. /\ Cardinality(Uses(H \ G, f)) \in Nat
      /\ Cardinality(Uses(G, f)) \in Nat
  BY <1>1, UsesFinite
<1>5. Cardinality(Uses(H, f)) =
        Cardinality(Uses(H \ G, f)) + Cardinality(Uses(G, f))
  BY <1>2, <1>3
<1>. QED
  BY <1>1, <1>4, <1>5

\* The tally is positive exactly for the files that are named.
LEMMA TallyNat ==
    ASSUME NEW H, Finite(H), NEW fs \in Vector, NEW f
    PROVE  /\ Tally(H, fs, f) \in Nat
           /\ Tally(H, fs, f) = 0 <=> f \notin Named(H, fs)
           /\ Named(H, fs) \subseteq File
<1>1. /\ Cardinality(Uses(H, f)) \in Nat
      /\ Cardinality(Uses(H, f)) = 0 <=> \A h \in H : f \notin Range(h.files)
  BY UsesFinite
<1>2. Count(fs, f) \in Nat /\ (Count(fs, f) = 0 <=> f \notin Range(fs))
  BY CountNat
<1>3. Named(H, fs) \subseteq File
  <2>1. ASSUME NEW v \in Vector PROVE Range(v) \subseteq File
    BY DEF Range, Vector
  <2>. QED
    BY <2>1 DEF Named, Finite
<1>. QED
  BY <1>1, <1>2, <1>3 DEF Tally, Named

-----------------------------------------------------------------------------
(* What incRef and decRef do to a count.                                   *)

\* A map from files to counts.
Counts(rc) == /\ DOMAIN rc \subseteq File
              /\ \A f \in DOMAIN rc : rc[f] \in Nat

\* The counts are those of the holders H and the vector v.
Exact(rc, H, v) == \A f \in File : At(rc, f) = Tally(H, v, f)

\* A count is a natural number, for files without an entry too.
LEMMA AtNat ==
    ASSUME NEW rc, Counts(rc), NEW f
    PROVE  At(rc, f) \in Nat
BY DEF Counts, At

\* incRef adds to each count the references that are taken.
LEMMA IncRefAt ==
    ASSUME NEW rc, Counts(rc), NEW H, Finite(H), NEW fs \in Vector, NEW f
    PROVE  /\ Counts(IncRef(rc, H, fs))
           /\ At(IncRef(rc, H, fs), f) = At(rc, f) + Tally(H, fs, f)
<1>1. Counts(IncRef(rc, H, fs))
  <2>1. Named(H, fs) \subseteq File
    BY TallyNat
  <2>2. ASSUME NEW g PROVE At(rc, g) + Tally(H, fs, g) \in Nat
    <3>1. At(rc, g) \in Nat
      BY AtNat
    <3>2. Tally(H, fs, g) \in Nat
      BY TallyNat
    <3>. QED
      BY <3>1, <3>2
  <2>3. DOMAIN IncRef(rc, H, fs) = DOMAIN rc \cup Named(H, fs)
    BY DEF IncRef
  <2>4. ASSUME NEW g \in DOMAIN IncRef(rc, H, fs)
        PROVE  IncRef(rc, H, fs)[g] = At(rc, g) + Tally(H, fs, g)
    BY DEF IncRef
  <2>. QED
    BY <2>1, <2>2, <2>3, <2>4 DEF Counts
<1>2. CASE f \in DOMAIN rc \cup Named(H, fs)
  BY <1>1, <1>2 DEF At, IncRef
<1>3. CASE f \notin DOMAIN rc \cup Named(H, fs)
  <2>1. Tally(H, fs, f) = 0
    BY <1>3, TallyNat
  <2>2. At(IncRef(rc, H, fs), f) = 0 /\ At(rc, f) = 0
    BY <1>3 DEF At, IncRef
  <2>. QED
    BY <1>1, <2>1, <2>2
<1>. QED
  BY <1>1, <1>2, <1>3

\* A decRef takes no count below zero as long as the holders had taken the
\* references they give back.  What it frees is what had no other.
LEMMA DecRefAt ==
    ASSUME NEW rc, Counts(rc), NEW H, Finite(H), NEW fs \in Vector,
           \A f \in File : Tally(H, fs, f) <= At(rc, f)
    PROVE  /\ Counts(DecRef(rc, H, fs))
           /\ Freed(rc, H, fs) \subseteq File
           /\ \A f \in File :
                /\ At(DecRef(rc, H, fs), f) = At(rc, f) - Tally(H, fs, f)
                /\ f \in Freed(rc, H, fs) =>
                     f \in Named(H, fs) /\ At(rc, f) = Tally(H, fs, f)
<1>1. ASSUME NEW f
      PROVE  /\ At(rc, f) \in Nat
             /\ Tally(H, fs, f) \in Nat
             /\ Tally(H, fs, f) = 0 <=> f \notin Named(H, fs)
             /\ Named(H, fs) \subseteq File
  BY AtNat, TallyNat
<1>2. ASSUME NEW f \in File PROVE Left(rc, H, fs, f) \in Nat
  BY <1>1 DEF Left
<1>3. Counts(DecRef(rc, H, fs))
  BY <1>1, <1>2 DEF Counts, DecRef
<1>4. Freed(rc, H, fs) \subseteq File
  BY <1>1 DEF Freed
<1>5. ASSUME NEW f \in File, f \in Freed(rc, H, fs)
      PROVE  f \in Named(H, fs) /\ At(rc, f) = Tally(H, fs, f)
  <2>1. f \in Named(H, fs) /\ Left(rc, H, fs, f) = 0
    BY <1>5 DEF Freed
  <2>2. At(rc, f) \in Nat /\ Tally(H, fs, f) \in Nat
    BY <1>1
  <2>. QED
    BY <2>1, <2>2 DEF Left
<1>6. ASSUME NEW f \in File
      PROVE  At(DecRef(rc, H, fs), f) = At(rc, f) - Tally(H, fs, f)
  <2>1. CASE f \in (DOMAIN rc \cup Named(H, fs)) \ Freed(rc, H, fs)
    BY <2>1 DEF At, DecRef, Left
  <2>2. CASE f \in Freed(rc, H, fs)
    <3>1. At(DecRef(rc, H, fs), f) = 0
      BY <2>2 DEF At, DecRef
    <3>2. At(rc, f) = Tally(H, fs, f) /\ At(rc, f) \in Nat
      BY <1>1, <1>5, <2>2
    <3>. QED
      BY <3>1, <3>2
  <2>3. CASE f \notin DOMAIN rc \cup Named(H, fs)
    <3>1. At(DecRef(rc, H, fs), f) = 0 /\ At(rc, f) = 0
      BY <2>3 DEF At, DecRef
    <3>. QED
      BY <1>1, <2>3, <3>1
  <2>. QED
    BY <2>1, <2>2, <2>3
<1>. QED
  BY <1>3, <1>4, <1>5, <1>6

\* Counts that are exact for the holders H and the vector v are exact again
\* after new references were taken for N and w and those of G and v given
\* back, in this order, and nothing that is still referenced is freed.
LEMMA Handover ==
    ASSUME NEW rc, Counts(rc),
           NEW H, Finite(H), NEW N, Finite(N), H \cap N = {},
           NEW G, G \subseteq H \cup N,
           NEW v \in Vector, NEW w \in Vector,
           Exact(rc, H, v)
    PROVE  /\ Finite((H \cup N) \ G)
           /\ Counts(DecRef(IncRef(rc, N, w), G, v))
           /\ Exact(DecRef(IncRef(rc, N, w), G, v), (H \cup N) \ G, w)
           /\ Freed(IncRef(rc, N, w), G, v) \subseteq File
           /\ Freed(IncRef(rc, N, w), G, v) \cap Named((H \cup N) \ G, w) = {}
<1> DEFINE rc1 == IncRef(rc, N, w)
           H2 == (H \cup N) \ G
<1>1. Finite(H \cup N) /\ Finite(G) /\ Finite(H2)
  BY UsesAdd, UsesRemove
<1>2. Counts(rc1)
  BY IncRefAt
<1>3. ASSUME NEW f \in File
      PROVE  /\ Tally(G, v, f) \in Nat /\ Tally(H2, w, f) \in Nat
             /\ At(rc1, f) = Tally(G, v, f) + Tally(H2, w, f)
  <2> DEFINE hH == Cardinality(Uses(H, f))
             hN == Cardinality(Uses(N, f))
             hG == Cardinality(Uses(G, f))
             h2 == Cardinality(Uses(H2, f))
  <2>1. hH \in Nat /\ hN \in Nat /\ hG \in Nat /\ h2 \in Nat
    BY <1>1, UsesFinite
  <2>2. Cardinality(Uses(H \cup N, f)) = hH + hN
    BY UsesAdd
  <2>3. h2 = Cardinality(Uses(H \cup N, f)) - hG
    BY <1>1, UsesRemove
  <2>4. Count(v, f) \in Nat /\ Count(w, f) \in Nat
    BY CountNat
  <2>5. At(rc1, f) = Tally(H, v, f) + Tally(N, w, f)
    BY IncRefAt DEF Exact
  <2> HIDE DEF hH, hN, hG, h2
  <2>6. At(rc1, f) = (hH + Count(v, f)) + (hN + Count(w, f))
    BY <2>5 DEF Tally, hH, hN
  <2>7. Tally(G, v, f) = hG + Count(v, f) /\ Tally(H2, w, f) = h2 + Count(w, f)
    BY DEF Tally, hG, h2
  <2>. QED
    BY <2>1, <2>2, <2>3, <2>4, <2>6, <2>7
<1>4. \A f \in File : Tally(G, v, f) <= At(rc1, f)
  BY <1>3
<1>5. /\ Counts(DecRef(rc1, G, v))
      /\ Freed(rc1, G, v) \subseteq File
      /\ \A f \in File :
           /\ At(DecRef(rc1, G, v), f) = At(rc1, f) - Tally(G, v, f)
           /\ f \in Freed(rc1, G, v) => At(rc1, f) = Tally(G, v, f)
  BY <1>1, <1>2, <1>4, DecRefAt
<1>6. ASSUME NEW f \in File
      PROVE  At(DecRef(rc1, G, v), f) = Tally(H2, w, f)
  <2>1. /\ Tally(G, v, f) \in Nat /\ Tally(H2, w, f) \in Nat
        /\ At(rc1, f) = Tally(G, v, f) + Tally(H2, w, f)
    BY <1>3
  <2>2. At(DecRef(rc1, G, v), f) = At(rc1, f) - Tally(G, v, f)
    BY <1>5
  <2>. QED
    BY <2>1, <2>2
<1>7. ASSUME NEW f \in Freed(rc1, G, v) PROVE f \notin Named(H2, w)
  <2>1. f \in File /\ At(rc1, f) = Tally(G, v, f)
    BY <1>5
  <2>2. /\ Tally(G, v, f) \in Nat /\ Tally(H2, w, f) \in Nat
        /\ At(rc1, f) = Tally(G, v, f) + Tally(H2, w, f)
    BY <1>3, <2>1
  <2>3. Tally(H2, w, f) = 0
    BY <2>1, <2>2
  <2>. QED
    BY <1>1, <2>3, TallyNat
<1>. QED
  BY <1>1, <1>5, <1>6, <1>7 DEF Exact

\* The same for references that are only taken, and only given back.
LEMMA Taking ==
    ASSUME NEW rc, Counts(rc), NEW H, Finite(H), NEW N, Finite(N), H \cap N = {},
           NEW v \in Vector, Exact(rc, H, v)
    PROVE  /\ Finite(H \cup N)
           /\ Counts(IncRef(rc, N, <<>>))
           /\ Exact(IncRef(rc, N, <<>>), H \cup N, v)
<1>1. << >> \in Vector
  BY CountEmpty
<1>2. Finite(H \cup N) /\ Counts(IncRef(rc, N, <<>>))
  BY <1>1, UsesAdd, IncRefAt
<1>3. ASSUME NEW f \in File
      PROVE  At(IncRef(rc, N, <<>>), f) = Tally(H \cup N, v, f)
  <2> DEFINE hH == Cardinality(Uses(H, f))
             hN == Cardinality(Uses(N, f))
  <2>1. hH \in Nat /\ hN \in Nat /\ Count(v, f) \in Nat /\ Count(<< >>, f) = 0
    BY UsesFinite, CountNat, CountEmpty
  <2>2. Cardinality(Uses(H \cup N, f)) = hH + hN
    BY UsesAdd
  <2>3. At(IncRef(rc, N, <<>>), f) = Tally(H, v, f) + Tally(N, <<>>, f)
    BY <1>1, IncRefAt DEF Exact
  <2> HIDE DEF hH, hN
  <2>4. At(IncRef(rc, N, <<>>), f) = (hH + Count(v, f)) + (hN + Count(<< >>, f))
    BY <2>3 DEF Tally, hH, hN
  <2>. QED
    BY <2>1, <2>2, <2>4 DEF Tally
<1>. QED
  BY <1>2, <1>3 DEF Exact

\* The same for references that are only given back (decRef).
LEMMA GivingBack ==
    ASSUME NEW rc, Counts(rc), NEW H, Finite(H), NEW G, G \subseteq H,
           NEW v \in Vector, Exact(rc, H, v)
    PROVE  /\ Finite(H \ G)
           /\ Counts(DecRef(rc, G, <<>>))
           /\ Exact(DecRef(rc, G, <<>>), H \ G, v)
           /\ Freed(rc, G, <<>>) \cap Named(H \ G, v) = {}
<1>1. << >> \in Vector
  BY CountEmpty
<1>2. Finite(H \ G) /\ Finite(G)
  BY UsesRemove
<1>3. ASSUME NEW f \in File
      PROVE  /\ Tally(G, <<>>, f) \in Nat /\ Tally(H \ G, v, f) \in Nat
             /\ At(rc, f) = Tally(G, <<>>, f) + Tally(H \ G, v, f)
  <2> DEFINE hH == Cardinality(Uses(H, f))
             hG == Cardinality(Uses(G, f))
             h2 == Cardinality(Uses(H \ G, f))
  <2>1. /\ hH \in Nat /\ hG \in Nat /\ h2 \in Nat
        /\ Count(v, f) \in Nat /\ Count(<< >>, f) = 0
    BY <1>2, UsesFinite, CountNat, CountEmpty
  <2>2. h2 = hH - hG
    BY UsesRemove
  <2>3. At(rc, f) = Tally(H, v, f)
    BY DEF Exact
  <2> HIDE DEF hH, hG, h2
  <2>4. /\ At(rc, f) = hH + Count(v, f)
        /\ Tally(G, <<>>, f) = hG + Count(<< >>, f)
        /\ Tally(H \ G, v, f) = h2 + Count(v, f)
    BY <2>3 DEF Tally, hH, hG, h2
  <2>. QED
    BY <2>1, <2>2, <2>4
<1>4. \A f \in File : Tally(G, <<>>, f) <= At(rc, f)
  BY <1>3
<1>5. /\ Counts(DecRef(rc, G, <<>>))
      /\ Freed(rc, G, <<>>) \subseteq File
      /\ \A f \in File :
           /\ At(DecRef(rc, G, <<>>), f) = At(rc, f) - Tally(G, <<>>, f)
           /\ f \in Freed(rc, G, <<>>) => At(rc, f) = Tally(G, <<>>, f)
  BY <1>1, <1>2, <1>4, DecRefAt
<1>6. ASSUME NEW f \in File
      PROVE  /\ At(DecRef(rc, G, <<>>), f) = Tally(H \ G, v, f)
             /\ f \in Freed(rc, G, <<>>) => Tally(H \ G, v, f) = 0
  <2>1. /\ Tally(G, <<>>, f) \in Nat /\ Tally(H \ G, v, f) \in Nat
        /\ At(rc, f) = Tally(G, <<>>, f) + Tally(H \ G, v, f)
    BY <1>3
  <2>2. /\ At(DecRef(rc, G, <<>>), f) = At(rc, f) - Tally(G, <<>>, f)
        /\ f \in Freed(rc, G, <<>>) => At(rc, f) = Tally(G, <<>>, f)
    BY <1>5
  <2>. QED
    BY <2>1, <2>2
<1>7. ASSUME NEW f \in Freed(rc, G, <<>>) PROVE f \notin Named(H \ G, v)
  <2>1. Tally(H \ G, v, f) = 0
    BY <1>5, <1>6
  <2>. QED
    BY <1>2, <2>1, TallyNat
<1>. QED
  BY <1>2, <1>5, <1>6, <1>7 DEF Exact

-----------------------------------------------------------------------------
(* The inductive invariant.                                                *)

\* The commits the policy keeps: all of them, or the newest.
Kept(g) == IF KeepAll THEN Readable(g) ELSE Newest(g)

\* A deleter that does not exist has no memory.
Down == ~up => /\ refCounts = << >> /\ commits = {} /\ held = {}
               /\ last = <<>> /\ deletable = {} /\ unreg = 0

\* The deleter knows only commits that were completely written.
CommitsComplete == \A c \in commits : stored[c.id].complete

\* A segments_N that was written and not yet checkpointed is the newest; the
\* deleter knows nothing of it, and its segments' files are safe.
Fresh ==
    unreg # 0 => /\ up
                 /\ Newest(unreg)
                 /\ SegmentsFile(unreg) \notin Referenced \cup deletable
                 /\ Range(stored[unreg].files) \subseteq Usable

\* There is no infinite ascent of commits.
HasNewest == (\E g \in Gen : Readable(g)) => \E g \in Gen : Newest(g)

\* Between two commits the deleter knows every commit that is to be kept.
KeptKnown ==
    up => \A g \in Gen : Kept(g) => g = unreg \/ CommitPoint(g) \in commits

\* They have all of their files.
KeptIntact == \A g \in Gen : Kept(g) => Range(stored[g].files) \subseteq dir

Accounts ==
    /\ Finite(Holders)
    /\ RefCountExact
    /\ Protected
    /\ PendingUnreferenced

IInv ==
    /\ TypeOK
    /\ Accounts
    /\ Down
    /\ CommitsComplete
    /\ Fresh
    /\ HasNewest
    /\ KeptKnown
    /\ KeptIntact

-----------------------------------------------------------------------------
(* Facts about one state.                                                  *)

\* Generations are positive numbers.
LEMMA GenNat == \A g \in Gen : g \in Nat /\ g # 0
BY GenAssumption

\* A commit point names its segments_N file and its segments' files.
LEMMA CommitPointFiles ==
    ASSUME NEW g \in Gen, NEW fs \in Vector
    PROVE  /\ <<SegmentsFile(g)>> \o fs \in Vector
           /\ Range(<<SegmentsFile(g)>> \o fs) = {SegmentsFile(g)} \cup Range(fs)
<1> USE DEF Vector
<1> DEFINE a == <<SegmentsFile(g)>>
           s == a \o fs
<1>1. a \in Vector /\ Len(a) = 1 /\ a[1] = SegmentsFile(g)
  BY SegmentsFileAssumption
<1> HIDE DEF a
<1>2. /\ s \in Vector
      /\ Len(s) = 1 + Len(fs)
      /\ \A i \in 1..(1 + Len(fs)) : s[i] = IF i <= 1 THEN a[i] ELSE fs[i - 1]
  <2>1. /\ s \in Vector
        /\ Len(s) = Len(a) + Len(fs)
        /\ \A i \in 1..(Len(a) + Len(fs)) :
             s[i] = IF i <= Len(a) THEN a[i] ELSE fs[i - Len(a)]
    BY <1>1, ConcatProperties, Zenon
  <2>. QED
    BY <1>1, <2>1
<1> HIDE DEF s
<1>3. PICK n \in Nat : Len(fs) = n /\ DOMAIN fs = 1..n /\ DOMAIN s = 1..(1 + n)
  BY <1>2
<1>4. 1 \in 1..(1 + n) /\ s[1] = SegmentsFile(g)
  BY <1>1, <1>2, <1>3
<1>5. ASSUME NEW i \in 1..n PROVE i + 1 \in 1..(1 + n) /\ s[i + 1] = fs[i]
  BY <1>2, <1>3
<1>6. ASSUME NEW i \in 1..(1 + n), i # 1
      PROVE  i - 1 \in 1..n /\ s[i] = fs[i - 1]
  BY <1>2, <1>3, <1>6
<1>7. Range(s) = {SegmentsFile(g)} \cup Range(fs)
  <2>1. Range(s) \subseteq {SegmentsFile(g)} \cup Range(fs)
    BY <1>3, <1>4, <1>6 DEF Range
  <2>2. SegmentsFile(g) \in Range(s)
    BY <1>3, <1>4 DEF Range
  <2>3. Range(fs) \subseteq Range(s)
    BY <1>3, <1>5 DEF Range
  <2>. QED
    BY <2>1, <2>2, <2>3
<1>. QED
  BY <1>2, <1>7 DEF a, s

\* Commits and what the writer holds are told apart by their kind.
LEMMA CommitsAndHeld ==
    ASSUME TypeOK
    PROVE  /\ \A c \in commits : c.kind = "commit"
           /\ \A h \in held : h.kind = "held"
           /\ commits \cap held = {}
<1>1. ASSUME NEW c \in commits PROVE c.kind = "commit"
  <2>1. c = CommitPoint(c.id)
    BY DEF TypeOK, Vector
  <2>2. CommitPoint(c.id).kind = "commit"
    BY DEF CommitPoint
  <2>. QED
    BY <2>1, <2>2
<1>2. ASSUME NEW h \in held PROVE h.kind = "held"
  BY DEF TypeOK, Vector
<1>. QED
  BY <1>1, <1>2

\* Whatever is referenced has an entry in the map.
LEMMA ReferencedCounted ==
    ASSUME TypeOK, Accounts, up
    PROVE  Referenced \subseteq DOMAIN refCounts /\ Referenced \subseteq File
<1>1. Referenced \subseteq File
  BY TallyNat DEF Accounts, Referenced, TypeOK, Vector
<1>2. ASSUME NEW f \in Referenced PROVE f \in DOMAIN refCounts
  <2>1. Tally(Holders, last, f) # 0
    BY TallyNat DEF Accounts, Referenced, TypeOK, Vector
  <2>2. At(refCounts, f) # 0
    BY <1>1, <2>1 DEF Accounts, RefCountExact
  <2>. QED
    BY <2>2 DEF At
<1>. QED
  BY <1>1, <1>2

\* segments_N of a commit that is to be kept is referenced.
LEMMA KeptReferenced ==
    ASSUME IInv, up, NEW g \in Gen, Kept(g), g # unreg
    PROVE  /\ SegmentsFile(g) \in Referenced
           /\ Range(stored[g].files) \subseteq Referenced
<1>1. CommitPoint(g) \in Holders
  BY DEF IInv, KeptKnown, Holders
<1>2. g \in DOMAIN stored
  BY DEF Kept, Newest, Readable
<1>3. Range(CommitPoint(g).files) =
        {SegmentsFile(g)} \cup Range(stored[g].files)
  BY <1>2, CommitPointFiles DEF IInv, TypeOK, Vector, CommitPoint
<1>. QED
  BY <1>1, <1>3 DEF Referenced, Named

-----------------------------------------------------------------------------
(* Facts about one step.                                                   *)

\* The newest commit is replaced by a newer one at most.
Advances == \A g \in Gen : Newest(g) => \E h \in Gen : h >= g /\ Newest(h)'

\* When no segments_N of a commit to be kept goes, the same are to be kept.
LEMMA SameKept ==
    ASSUME HasNewest, stored' = stored, dir' \subseteq dir,
           \A g \in Gen : Kept(g) => SegmentsFile(g) \in dir'
    PROVE  HasNewest' /\ Advances /\ \A g \in Gen : Kept(g)' => Kept(g)
<1>1. ASSUME NEW g \in Gen, Readable(g)' PROVE Readable(g)
  BY <1>1 DEF Readable
<1>2. ASSUME NEW g \in Gen, Kept(g) PROVE Readable(g)'
  BY <1>2 DEF Kept, Newest, Readable
<1>3. ASSUME NEW g \in Gen, Newest(g) PROVE Newest(g)'
  BY <1>1, <1>2, <1>3 DEF Kept, Newest
<1>4. HasNewest'
  BY <1>1, <1>3 DEF HasNewest
<1>5. ASSUME NEW g \in Gen, Newest(g)' PROVE Newest(g)
  <2>1. PICK n \in Gen : Newest(n)
    BY <1>1, <1>5 DEF HasNewest, Newest
  <2>2. n <= g /\ g <= n
    BY <1>1, <1>3, <1>5, <2>1 DEF Newest
  <2>. QED
    BY <2>1, <2>2, GenNat
<1>6. Advances
  BY <1>3, GenNat DEF Advances
<1>. QED
  BY <1>1, <1>4, <1>5, <1>6 DEF Kept

\* While there is a deleter, what is to be kept is intact because the
\* deleter knows it.
LEMMA IntactWhenUp ==
    ASSUME up', TypeOK', Protected', Fresh', KeptKnown'
    PROVE  KeptIntact'
<1> SUFFICES ASSUME NEW g \in Gen, Kept(g)'
             PROVE  Range(stored'[g].files) \subseteq dir'
  BY DEF KeptIntact
<1>1. CASE g = unreg'
  <2>1. g # 0
    BY GenNat
  <2>. QED
    BY <1>1, <2>1 DEF Fresh, Usable
<1>2. CASE CommitPoint(g)' \in commits'
  <2>1. g \in DOMAIN stored'
    BY DEF Kept, Newest, Readable
  <2>2. Range(stored'[g].files) \subseteq Range(CommitPoint(g)'.files)
    BY <2>1, CommitPointFiles DEF TypeOK, Vector, CommitPoint
  <2>3. Range(CommitPoint(g)'.files) \subseteq Referenced'
    BY <1>2 DEF Referenced, Holders, Named
  <2>. QED
    BY <2>2, <2>3 DEF Protected
<1>. QED
  BY <1>1, <1>2 DEF KeptKnown

\* What is referenced survives a deletion of other files, and is not queued.
LEMMA Removal ==
    ASSUME NEW doomed, NEW pending, NEW busy, NEW R,
           RemoveFiles(doomed, pending, busy),
           doomed \cap R = {}, pending \cap R = {}, R \subseteq dir
    PROVE  /\ R \subseteq dir' /\ deletable' \cap R = {}
           /\ dir' \subseteq dir /\ deletable' \subseteq pending \cup dir
BY DEF RemoveFiles

-----------------------------------------------------------------------------
(* The actions keep the invariant.  First those that only remove files.    *)

\* Removing unreferenced files, no segments_N to be kept among them, keeps
\* the invariant.
LEMMA Deleting ==
    ASSUME IInv, up, unreg = 0, NEW doomed, NEW busy,
           doomed \cap Referenced = {},
           RemoveFiles(doomed, deletable, busy),
           UNCHANGED <<stored, up, unreg, refCounts, commits, last, held>>
    PROVE  IInv' /\ Advances
<1>1. Holders' = Holders /\ Referenced' = Referenced
  BY DEF Holders, Referenced
<1>2. /\ Referenced \subseteq dir' /\ deletable' \cap Referenced = {}
      /\ dir' \subseteq dir /\ deletable' \subseteq deletable \cup dir
  <2>1. deletable \cap Referenced = {} /\ Referenced \subseteq dir
    BY DEF IInv, Accounts, PendingUnreferenced, Protected
  <2>. QED
    BY <2>1, Removal
<1>3. \A g : CommitPoint(g)' = CommitPoint(g)
  BY DEF CommitPoint
<1>4. TypeOK'
  BY <1>2, <1>3 DEF IInv, TypeOK, Vector
<1>5. Accounts'
  BY <1>1, <1>2 DEF IInv, Accounts, RefCountExact, Protected, PendingUnreferenced
<1>6. Down' /\ CommitsComplete' /\ Fresh'
  BY DEF IInv, Down, CommitsComplete, Fresh
<1>7. HasNewest' /\ Advances /\ \A g \in Gen : Kept(g)' => Kept(g)
  <2>1. \A g \in Gen : Kept(g) => SegmentsFile(g) \in dir'
    BY <1>2, GenNat, KeptReferenced
  <2>. QED
    BY <1>2, <2>1, SameKept DEF IInv
<1>8. KeptKnown'
  BY <1>3, <1>7 DEF IInv, KeptKnown
<1>9. KeptIntact'
  BY <1>4, <1>5, <1>6, <1>8, IntactWhenUp DEF Accounts
<1>. QED
  BY <1>4, <1>5, <1>6, <1>7, <1>8, <1>9 DEF IInv

\* deleteFile and deleteFiles.
LEMMA DeleteFilesStep ==
    ASSUME IInv, NEW fs, NEW busy, DeleteFiles(fs, busy)
    PROVE  IInv' /\ Advances
BY Deleting DEF DeleteFiles, DeleteFilesEffect

\* deleteNewFiles: what has no entry in the map is not referenced.
LEMMA DeleteNewFilesStep ==
    ASSUME IInv, NEW fs, NEW busy, DeleteNewFiles(fs, busy)
    PROVE  IInv' /\ Advances
<1>1. (fs \ DOMAIN refCounts) \cap Referenced = {}
  BY ReferencedCounted DEF DeleteNewFiles, IInv
<1>. QED
  BY <1>1, Deleting DEF DeleteNewFiles, DeleteNewFilesEffect

\* refresh, likewise.
LEMMA RefreshStep ==
    ASSUME IInv, NEW scope, NEW busy, Refresh(scope, busy)
    PROVE  IInv' /\ Advances
<1>1. ((dir \cap scope) \ DOMAIN refCounts) \cap Referenced = {}
  BY ReferencedCounted DEF Refresh, IInv
<1>. QED
  BY <1>1, Deleting DEF Refresh, RefreshEffect

-----------------------------------------------------------------------------
(* The deleter's memory goes: close() and crashes.                         *)

\* A step after which there is no deleter keeps the invariant when it
\* leaves the commits that are to be kept intact.
LEMMA Forgetting ==
    ASSUME IInv, dir' \subseteq dir, stored' = stored, up' = FALSE, unreg' = 0,
           held' = {}, ForgetEffect,
           \A g \in Gen : Kept(g) => /\ SegmentsFile(g) \in dir'
                                    /\ Range(stored[g].files) \subseteq dir'
    PROVE  IInv' /\ Advances
<1>1. TypeOK'
  <2>1. << >> \in Vector
    BY CountEmpty
  <2>2. DOMAIN << >> = {}
    OBVIOUS
  <2>. QED
    BY <2>1, <2>2 DEF IInv, TypeOK, Vector, ForgetEffect
<1>2. Accounts'
  <2>1. Finite(Holders)'
    BY FS_EmptySet DEF Holders, ForgetEffect, Finite
  <2>2. Referenced' = {}
    BY DEF Holders, Referenced, ForgetEffect, Named, Range
  <2>. QED
    BY <2>1, <2>2 DEF Accounts, RefCountExact, Protected, PendingUnreferenced
<1>3. Down' /\ CommitsComplete' /\ Fresh' /\ KeptKnown'
  BY DEF Down, CommitsComplete, Fresh, KeptKnown, ForgetEffect
<1>4. HasNewest' /\ Advances /\ \A g \in Gen : Kept(g)' => Kept(g)
  BY SameKept DEF IInv
<1>5. KeptIntact'
  BY <1>4 DEF KeptIntact
<1>. QED
  BY <1>1, <1>2, <1>3, <1>4, <1>5 DEF IInv

\* close().
LEMMA CloseStep ==
    ASSUME IInv, NEW busy, Close(busy)
    PROVE  IInv' /\ Advances
<1>1. ASSUME NEW g \in Gen, Kept(g)
      PROVE  /\ SegmentsFile(g) \in dir'
             /\ Range(stored[g].files) \subseteq dir'
  <2>1. /\ SegmentsFile(g) \in Referenced
        /\ Range(stored[g].files) \subseteq Referenced
    BY <1>1, GenNat, KeptReferenced DEF Close
  <2>. QED
    BY <2>1 DEF Close, IInv, Accounts, Protected, PendingUnreferenced
<1>. QED
  BY <1>1, Forgetting DEF Close

\* A crash between two calls.
LEMMA CrashStep ==
    ASSUME IInv, Crash
    PROVE  IInv' /\ Advances
<1>1. ASSUME NEW g \in Gen, Kept(g)
      PROVE  SegmentsFile(g) \in dir
  BY <1>1 DEF Kept, Newest, Readable
<1>. QED
  BY <1>1, Forgetting DEF Crash, IInv, KeptIntact

\* A crash in a checkpoint: what was deleted so far is not part of the
\* newest commit.
LEMMA CrashInCheckpointStep ==
    ASSUME IInv, NEW done, CrashInCheckpoint(done)
    PROVE  IInv' /\ Advances
<1> DEFINE isCommit == unreg # 0
           new == IF isCommit THEN {CommitPoint(unreg)} ELSE {}
           fs == IF isCommit THEN stored[unreg].files ELSE <<>>
           gone == IF isCommit /\ ~KeepAll THEN commits ELSE {}
           stay == new \cup (Holders \ gone)
<1>1. done \cap Named(stay, fs) \subseteq deletable
  BY DEF CrashInCheckpoint
<1>2. ASSUME NEW g \in Gen, Kept(g)
      PROVE  /\ SegmentsFile(g) \in dir'
             /\ Range(stored[g].files) \subseteq dir'
  <2>1. g \in DOMAIN stored /\ SegmentsFile(g) \in dir
    BY <1>2 DEF Kept, Newest, Readable
  <2>2. Range(CommitPoint(g).files) =
          {SegmentsFile(g)} \cup Range(stored[g].files)
    BY <2>1, CommitPointFiles DEF IInv, TypeOK, Vector, CommitPoint
  <2>3. CASE g = unreg
    <3>1. CommitPoint(g) \in stay
      BY <2>3, GenNat
    <3>2. Range(CommitPoint(g).files) \subseteq Named(stay, fs)
      BY <3>1 DEF Named
    <3>3. Range(CommitPoint(g).files) \subseteq Usable
      BY <2>1, <2>2, <2>3, GenNat DEF IInv, Fresh, Usable
    <3>. QED
      BY <1>1, <2>2, <3>2, <3>3 DEF Usable, CrashInCheckpoint
  <2>4. CASE g # unreg
    <3>1. CommitPoint(g) \in commits
      BY <1>2, <2>4 DEF IInv, KeptKnown, CrashInCheckpoint
    <3>2. gone = {}
      <4>1. ASSUME unreg # 0, ~KeepAll PROVE FALSE
        <5>1. Newest(unreg) /\ unreg \in Gen /\ Newest(g)
          BY <1>2, <4>1 DEF IInv, Fresh, TypeOK, Vector, Kept
        <5>2. g <= unreg /\ unreg <= g
          BY <5>1 DEF Newest
        <5>. QED
          BY <2>4, <5>1, <5>2, GenNat
      <4>. QED
        BY <4>1
    <3>3. Range(CommitPoint(g).files) \subseteq Named(stay, fs)
      BY <3>1, <3>2 DEF Named, Holders
    <3>4. Range(CommitPoint(g).files) \subseteq dir \ deletable
      <4>1. Range(CommitPoint(g).files) \subseteq Referenced
        BY <3>1 DEF Referenced, Holders, Named
      <4>. QED
        BY <4>1 DEF IInv, Accounts, Protected, PendingUnreferenced, CrashInCheckpoint
    <3>. QED
      BY <1>1, <2>2, <3>3, <3>4 DEF CrashInCheckpoint
  <2>. QED
    BY <2>3, <2>4
<1>. QED
  BY <1>2, Forgetting DEF CrashInCheckpoint

-----------------------------------------------------------------------------
(* Actions that create files.                                              *)

\* New files are nobody else's.
LEMMA CreateFilesStep ==
    ASSUME IInv, NEW fs, CreateFiles(fs)
    PROVE  IInv' /\ Advances
<1>1. Holders' = Holders /\ Referenced' = Referenced
  BY DEF CreateFiles, Holders, Referenced
<1>2. \A g : CommitPoint(g)' = CommitPoint(g)
  BY DEF CreateFiles, CommitPoint
<1>3. dir \subseteq dir' /\ \A g \in Gen : SegmentsFile(g) \in dir' <=> SegmentsFile(g) \in dir
  BY DEF CreateFiles
<1>4. \A g \in Gen : Readable(g)' <=> Readable(g)
  BY <1>3 DEF CreateFiles, Readable
<1>5. \A g \in Gen : (Newest(g)' <=> Newest(g)) /\ (Kept(g)' <=> Kept(g))
  BY <1>4 DEF Newest, Kept
<1>6. TypeOK'
  BY <1>2 DEF IInv, TypeOK, Vector, CreateFiles
<1>7. Accounts'
  BY <1>1, <1>3 DEF IInv, Accounts, RefCountExact, Protected, PendingUnreferenced, CreateFiles
<1>8. Down' /\ CommitsComplete'
  BY DEF IInv, Down, CommitsComplete, CreateFiles
<1>9. Fresh'
  <2>1. Usable \subseteq Usable'
    BY <1>3 DEF CreateFiles, Usable
  <2>. QED
    BY <1>1, <1>5, <2>1 DEF IInv, Fresh, CreateFiles, TypeOK, Vector
<1>10. HasNewest' /\ Advances
  BY <1>4, <1>5, GenNat DEF IInv, HasNewest, Advances
<1>11. KeptKnown'
  BY <1>2, <1>5 DEF IInv, KeptKnown, CreateFiles
<1>12. KeptIntact'
  BY <1>3, <1>5 DEF IInv, KeptIntact, CreateFiles
<1>. QED
  BY <1>6, <1>7, <1>8, <1>9, <1>10, <1>11, <1>12 DEF IInv

\* A generation whose file nobody references is not that of a known commit.
LEMMA NotKnown ==
    ASSUME IInv, NEW g \in Gen, SegmentsFile(g) \notin Referenced
    PROVE  \A c \in commits : c.id \in Gen /\ c.id # g
<1> SUFFICES ASSUME NEW c \in commits
             PROVE  c.id \in Gen /\ SegmentsFile(c.id) \in Referenced
  OBVIOUS
<1>1. c.id \in DOMAIN stored /\ c.id \in Gen /\ c = CommitPoint(c.id)
  BY DEF IInv, TypeOK, Vector
<1>2. CommitPoint(c.id).files = <<SegmentsFile(c.id)>> \o stored[c.id].files
  BY DEF CommitPoint
<1>3. SegmentsFile(c.id) \in Range(c.files)
  <2>1. stored[c.id].files \in Vector
    BY <1>1 DEF IInv, TypeOK, Vector
  <2>2. c.files = <<SegmentsFile(c.id)>> \o stored[c.id].files
    BY <1>1, <1>2
  <2>. QED
    BY <1>1, <2>1, <2>2, CommitPointFiles
<1>4. c \in Holders
  BY DEF Holders
<1>. QED
  BY <1>1, <1>3, <1>4 DEF Referenced, Named

\* A segments_N that is being written is not a commit yet.
LEMMA StartSegmentsStep ==
    ASSUME IInv, NEW g, StartSegments(g)
    PROVE  IInv' /\ Advances
<1>1. /\ g \in Gen /\ unreg = 0 /\ unreg' = 0 /\ dir' = dir \cup {SegmentsFile(g)}
      /\ UNCHANGED <<up, unreg, refCounts, commits, last, held, deletable>>
      /\ SegmentsFile(g) \notin deletable \cup Referenced
  BY DEF StartSegments
<1>2. /\ DOMAIN stored' = DOMAIN stored \cup {g}
      /\ stored'[g] = [complete |-> FALSE, files |-> <<>>]
      /\ \A h \in DOMAIN stored \ {g} : stored'[h] = stored[h]
  BY DEF StartSegments
<1>3. Holders' = Holders /\ Referenced' = Referenced
  BY <1>1 DEF Holders, Referenced
<1>4. \A c \in commits : c.id \in Gen /\ c.id # g
  BY <1>1, NotKnown
<1>5. \A h \in DOMAIN stored \ {g} : CommitPoint(h)' = CommitPoint(h)
  BY <1>2 DEF CommitPoint
<1>6. \A h \in Gen : Readable(h)' <=> Readable(h)
  <2>1. ~Readable(g) /\ ~Readable(g)'
    BY <1>1, <1>2, GenNat DEF StartSegments, Readable
  <2>2. ASSUME NEW h \in Gen, h # g
        PROVE  /\ SegmentsFile(h) \in dir' <=> SegmentsFile(h) \in dir
               /\ h \in DOMAIN stored' <=> h \in DOMAIN stored
               /\ h \in DOMAIN stored => stored'[h] = stored[h]
    BY <1>1, <1>2, <2>2, SegmentsFileAssumption
  <2>. QED
    BY <2>1, <2>2 DEF Readable
<1>7. \A h \in Gen : /\ Newest(h)' <=> Newest(h)
                     /\ Kept(h)' <=> Kept(h)
                     /\ Kept(h) => h \in DOMAIN stored \ {g}
  <2>1. ~Readable(g)'
    BY <1>2 DEF Readable
  <2>. QED
    BY <1>6, <2>1 DEF Newest, Kept, Readable
<1>8. TypeOK'
  <2>1. ASSUME NEW h \in DOMAIN stored'
        PROVE  /\ stored'[h].complete \in BOOLEAN
               /\ stored'[h].files \in Vector
    <3>1. CASE h = g
      <4>1. stored'[h].complete = FALSE /\ stored'[h].files = <<>>
        BY <1>2, <3>1
      <4>2. << >> \in Vector
        BY CountEmpty
      <4>. QED
        BY <4>1, <4>2, Zenon
    <3>2. CASE h # g
      BY <1>2, <3>2 DEF IInv, TypeOK, Vector
    <3>. QED
      BY <3>1, <3>2
  <2>2. \A c \in commits : c.id \in DOMAIN stored' /\ c = CommitPoint(c.id)'
    BY <1>2, <1>4, <1>5 DEF IInv, TypeOK, Vector
  <2>3. dir' \subseteq File /\ DOMAIN stored' \subseteq Gen
    BY <1>1, <1>2, SegmentsFileAssumption DEF IInv, TypeOK, Vector
  <2>. QED
    BY <1>1, <2>1, <2>2, <2>3 DEF IInv, TypeOK, Vector
<1>9. Accounts'
  BY <1>1, <1>3 DEF IInv, Accounts, RefCountExact, Protected, PendingUnreferenced
<1>10. Down' /\ Fresh'
  BY <1>1 DEF IInv, Down, Fresh
<1>11. CommitsComplete'
  BY <1>1, <1>2, <1>4 DEF IInv, CommitsComplete, TypeOK, Vector
<1>12. HasNewest' /\ Advances
  BY <1>6, <1>7, GenNat DEF IInv, HasNewest, Advances
<1>13. KeptKnown'
  BY <1>1, <1>5, <1>7 DEF IInv, KeptKnown
<1>14. KeptIntact'
  BY <1>1, <1>2, <1>7 DEF IInv, KeptIntact
<1>. QED
  BY <1>8, <1>9, <1>10, <1>11, <1>12, <1>13, <1>14 DEF IInv

\* Once it is closed it is the newest commit.
LEMMA FinishSegmentsStep ==
    ASSUME IInv, NEW g \in Gen, NEW fs \in Vector, FinishSegments(g, fs)
    PROVE  IInv' /\ Advances
<1>1. /\ unreg = 0 /\ unreg' = IF up THEN g ELSE 0
      /\ UNCHANGED <<dir, up, refCounts, commits, last, held, deletable>>
      /\ g \in DOMAIN stored /\ ~stored[g].complete
      /\ SegmentsFile(g) \in Usable \ Referenced
      /\ Range(fs) \subseteq dir
      /\ up => Range(fs) \subseteq Usable
  BY DEF FinishSegments, Range, Usable
<1>2. /\ DOMAIN stored' = DOMAIN stored
      /\ stored'[g] = [complete |-> TRUE, files |-> fs]
      /\ \A h \in DOMAIN stored \ {g} : stored'[h] = stored[h]
  BY <1>1 DEF FinishSegments
<1>3. Holders' = Holders /\ Referenced' = Referenced /\ Usable' = Usable
  BY <1>1 DEF Holders, Referenced, Usable
<1>4. \A c \in commits : c.id \in Gen /\ c.id # g
  BY <1>1, NotKnown
<1>5. \A h \in DOMAIN stored \ {g} : CommitPoint(h)' = CommitPoint(h)
  BY <1>2 DEF CommitPoint
<1>6. Readable(g)' /\ \A h \in Gen \ {g} : Readable(h)' <=> Readable(h)
  BY <1>1, <1>2 DEF Readable, Usable
<1>7. \A h \in Gen : Readable(h) => h < g
  BY DEF FinishSegments
<1>8. Newest(g)'
  BY <1>6, <1>7, GenNat DEF Newest
<1>9. ASSUME NEW h \in Gen, Kept(h)', h # g
      PROVE  /\ KeepAll /\ Readable(h) /\ Kept(h)
             /\ h \in DOMAIN stored \ {g}
  <2>1. Readable(h)
    BY <1>6, <1>9 DEF Kept, Newest
  <2>2. ASSUME Newest(h)' PROVE FALSE
    <3>1. g <= h /\ h < g
      BY <1>6, <1>7, <2>1, <2>2 DEF Newest
    <3>. QED
      BY <3>1, GenNat
  <2>. QED
    BY <1>9, <2>1, <2>2 DEF Kept, Readable
<1>10. TypeOK'
  <2>1. ASSUME NEW h \in DOMAIN stored'
        PROVE  /\ stored'[h].complete \in BOOLEAN
               /\ stored'[h].files \in Vector
    <3>1. CASE h = g
      <4>1. stored'[h].complete = TRUE /\ stored'[h].files = fs
        BY <1>2, <3>1
      <4>. QED
        BY <4>1
    <3>2. CASE h # g
      BY <1>2, <3>2 DEF IInv, TypeOK, Vector
    <3>. QED
      BY <3>1, <3>2
  <2>2. \A c \in commits : c.id \in DOMAIN stored' /\ c = CommitPoint(c.id)'
    BY <1>2, <1>4, <1>5 DEF IInv, TypeOK, Vector
  <2>. QED
    BY <1>1, <1>2, <2>1, <2>2 DEF IInv, TypeOK, Vector
<1>11. Accounts'
  BY <1>1, <1>3 DEF IInv, Accounts, RefCountExact, Protected, PendingUnreferenced
<1>12. Down'
  BY <1>1 DEF IInv, Down
<1>13. Fresh'
  BY <1>1, <1>2, <1>3, <1>8 DEF Fresh, Usable
<1>14. CommitsComplete'
  BY <1>1, <1>2, <1>4 DEF IInv, CommitsComplete, TypeOK, Vector
<1>15. HasNewest' /\ Advances
  <2>1. \A h \in Gen : Newest(h) => g >= h
    BY <1>7, GenNat DEF Newest
  <2>. QED
    BY <1>8, <2>1 DEF HasNewest, Advances
<1>16. KeptKnown'
  <2> SUFFICES ASSUME up, NEW h \in Gen, Kept(h)', h # g
               PROVE  CommitPoint(h)' \in commits
    BY <1>1 DEF KeptKnown
  <2>1. h # unreg
    BY <1>1, GenNat
  <2>. QED
    BY <1>5, <1>9, <2>1 DEF IInv, KeptKnown
<1>17. KeptIntact'
  <2> SUFFICES ASSUME NEW h \in Gen, Kept(h)'
               PROVE  Range(stored'[h].files) \subseteq dir
    BY <1>1 DEF KeptIntact
  <2>1. CASE h = g
    BY <1>1, <1>2, <2>1
  <2>2. CASE h # g
    BY <1>2, <1>9, <2>2 DEF IInv, KeptIntact
  <2>. QED
    BY <2>1, <2>2
<1>. QED
  BY <1>10, <1>11, <1>12, <1>13, <1>14, <1>15, <1>16, <1>17 DEF IInv

-----------------------------------------------------------------------------
(* Actions that move references.                                           *)

\* checkpoint(): new references are taken before old ones are given back,
\* so no file that stays in use is freed on the way.
LEMMA CheckpointStep ==
    ASSUME IInv, NEW infosFs \in Vector, NEW docFs \in Vector, NEW busy,
           Checkpoint(infosFs, docFs, busy)
    PROVE  IInv' /\ Advances
<1> DEFINE isCommit == unreg # 0
           new == IF isCommit THEN {CommitPoint(unreg)} ELSE {}
           front == IF isCommit THEN docFs ELSE infosFs \o docFs
           gone == IF isCommit /\ ~KeepAll THEN commits ELSE {}
           rc == IncRef(refCounts, new, front)
<1>1. /\ up /\ up' = up /\ stored' = stored /\ held' = held /\ unreg' = 0
      /\ Range(infosFs) \cup Range(docFs) \subseteq Usable
      /\ refCounts' = DecRef(rc, gone, last)
      /\ commits' = (commits \ gone) \cup new
      /\ last' = front
      /\ RemoveFiles(deletable \cup Freed(rc, gone, last), {}, busy)
  BY DEF Checkpoint, CheckpointEffect
<1>2. front \in Vector /\ Range(front) \subseteq Usable
  <2>1. infosFs \o docFs \in Vector
    BY DEF Vector
  <2>2. Range(infosFs \o docFs) \subseteq Range(infosFs) \cup Range(docFs)
    BY DEF Range, Vector
  <2>. QED
    BY <1>1, <2>1, <2>2
<1>3. isCommit => /\ unreg \in Gen /\ unreg \in DOMAIN stored
                  /\ stored[unreg].complete
                  /\ CommitPoint(unreg).files \in Vector
                  /\ SegmentsFile(unreg) \in Range(CommitPoint(unreg).files)
                  /\ Range(CommitPoint(unreg).files) \subseteq Usable
  <2> SUFFICES ASSUME isCommit PROVE
         /\ unreg \in Gen /\ unreg \in DOMAIN stored
         /\ stored[unreg].complete
         /\ CommitPoint(unreg).files \in Vector
         /\ SegmentsFile(unreg) \in Range(CommitPoint(unreg).files)
         /\ Range(CommitPoint(unreg).files) \subseteq Usable
    OBVIOUS
  <2>1. /\ unreg \in Gen /\ unreg \in DOMAIN stored /\ stored[unreg].complete
        /\ stored[unreg].files \in Vector
        /\ SegmentsFile(unreg) \in Usable
        /\ Range(stored[unreg].files) \subseteq Usable
    BY DEF IInv, TypeOK, Vector, Fresh, Newest, Readable, Usable
  <2>2. CommitPoint(unreg).files = <<SegmentsFile(unreg)>> \o stored[unreg].files
    BY DEF CommitPoint
  <2>. QED
    BY <2>1, <2>2, CommitPointFiles
<1>4. Finite(new)
  BY <1>3, FS_EmptySet, FS_Singleton DEF Finite
<1>5. Holders \cap new = {}
  <2>1. ASSUME isCommit, CommitPoint(unreg) \in Holders PROVE FALSE
    <3>1. SegmentsFile(unreg) \in Referenced
      BY <1>3, <2>1 DEF Referenced, Named
    <3>. QED
      BY <2>1, <3>1 DEF IInv, Fresh
  <2>. QED
    BY <2>1
<1>6. gone \subseteq Holders \cup new
  BY DEF Holders
<1> HIDE DEF new, front, gone
<1>7. Holders' = (Holders \cup new) \ gone
  <2>1. gone \cap held = {}
    BY CommitsAndHeld DEF IInv, gone
  <2>2. gone \subseteq commits
    BY DEF gone
  <2>. QED
    BY <1>1, <1>5, <2>1, <2>2 DEF Holders
<1>8. /\ Finite((Holders \cup new) \ gone)
      /\ Counts(DecRef(rc, gone, last))
      /\ Exact(DecRef(rc, gone, last), (Holders \cup new) \ gone, front)
      /\ Freed(rc, gone, last) \subseteq File
      /\ Freed(rc, gone, last) \cap Named((Holders \cup new) \ gone, front) = {}
  <2>1. /\ Counts(refCounts) /\ Finite(Holders) /\ last \in Vector
        /\ Exact(refCounts, Holders, last)
    BY <1>1 DEF IInv, TypeOK, Vector, Accounts, RefCountExact, Exact, Counts
  <2>. QED
    BY <1>2, <1>4, <1>5, <1>6, <2>1, Handover
<1>9. Referenced' = Named((Holders \cup new) \ gone, front)
  BY <1>1, <1>7 DEF Referenced
<1>10. Referenced' \subseteq dir /\ Referenced' \cap deletable = {}
  <2>1. Referenced' \subseteq Referenced \cup Usable
    <3>1. \A c \in new : Range(c.files) \subseteq Usable
      BY <1>3 DEF new
    <3>. QED
      BY <1>2, <1>9, <3>1 DEF Referenced, Named
  <2>. QED
    BY <1>1, <2>1 DEF Usable, IInv, Accounts, Protected, PendingUnreferenced
<1>11. /\ Referenced' \subseteq dir' /\ deletable' \cap Referenced' = {}
       /\ dir' \subseteq dir /\ deletable' \subseteq dir
  <2>1. (deletable \cup Freed(rc, gone, last)) \cap Referenced' = {}
    BY <1>8, <1>9, <1>10
  <2>. QED
    BY <1>1, <1>10, <2>1 DEF RemoveFiles
<1>12. \A g : CommitPoint(g)' = CommitPoint(g)
  BY <1>1 DEF CommitPoint
<1>13. TypeOK'
  <2>1. \A c \in commits' : c.id \in DOMAIN stored /\ c = CommitPoint(c.id)
    <3>1. \A c \in new : c.id \in DOMAIN stored /\ c = CommitPoint(c.id)
      BY <1>3 DEF new, CommitPoint
    <3>. QED
      BY <1>1, <3>1 DEF IInv, TypeOK, Vector
  <2>2. Counts(refCounts')
    BY <1>1, <1>8
  <2>. QED
    BY <1>1, <1>2, <1>11, <1>12, <2>1, <2>2 DEF IInv, TypeOK, Vector, Counts
<1>14. Accounts'
  BY <1>1, <1>7, <1>8, <1>11 DEF Accounts, RefCountExact, Exact, Protected, PendingUnreferenced
<1>15. Down' /\ Fresh'
  BY <1>1 DEF Down, Fresh
<1>16. CommitsComplete'
  <2>1. \A c \in new : stored[c.id].complete
    BY <1>3 DEF new, CommitPoint
  <2>. QED
    BY <1>1, <2>1 DEF IInv, CommitsComplete
<1>17. ASSUME NEW g \in Gen, Kept(g)
       PROVE  CommitPoint(g) \in commits' /\ SegmentsFile(g) \in dir'
  <2>1. CommitPoint(g) \in commits'
    <3>1. CASE g = unreg
      BY <1>1, <3>1, GenNat DEF new
    <3>2. CASE g # unreg
      <4>1. CommitPoint(g) \in commits
        BY <1>1, <1>17, <3>2 DEF IInv, KeptKnown
      <4>2. ASSUME isCommit, ~KeepAll PROVE FALSE
        <5>1. Newest(unreg) /\ Newest(g)
          BY <1>17, <4>2 DEF IInv, Fresh, Kept
        <5>2. g <= unreg /\ unreg <= g
          BY <1>3, <4>2, <5>1 DEF Newest
        <5>. QED
          BY <1>3, <3>2, <4>2, <5>2, GenNat
      <4>. QED
        BY <1>1, <4>1, <4>2 DEF gone
    <3>. QED
      BY <3>1, <3>2
  <2>2. g \in DOMAIN stored
    BY <1>17 DEF Kept, Newest, Readable
  <2>3. SegmentsFile(g) \in Range(CommitPoint(g).files)
    BY <2>2, CommitPointFiles DEF IInv, TypeOK, Vector, CommitPoint
  <2>4. SegmentsFile(g) \in Referenced'
    BY <2>1, <2>3 DEF Referenced, Holders, Named
  <2>. QED
    BY <1>11, <2>1, <2>4
<1>18. HasNewest' /\ Advances /\ \A g \in Gen : Kept(g)' => Kept(g)
  BY <1>1, <1>11, <1>17, SameKept DEF IInv
<1>19. KeptKnown'
  BY <1>12, <1>17, <1>18 DEF KeptKnown
<1>20. KeptIntact'
  BY <1>1, <1>13, <1>14, <1>15, <1>19, IntactWhenUp DEF Accounts
<1>. QED
  BY <1>13, <1>14, <1>15, <1>16, <1>18, <1>19, <1>20 DEF IInv

\* Between two commits, a step that leaves the known commits alone and keeps
\* the accounts keeps the invariant.
LEMMA CommitsStay ==
    ASSUME IInv, up, unreg = 0, UNCHANGED <<stored, up, unreg, commits, last>>,
           TypeOK', Accounts', dir' \subseteq dir
    PROVE  IInv' /\ Advances
<1>1. \A g : CommitPoint(g)' = CommitPoint(g)
  BY DEF CommitPoint
<1>2. Down' /\ CommitsComplete' /\ Fresh'
  BY DEF IInv, Down, CommitsComplete, Fresh
<1>3. ASSUME NEW g \in Gen, Kept(g) PROVE SegmentsFile(g) \in dir'
  <2>1. CommitPoint(g) \in commits'
    BY <1>3, GenNat DEF IInv, KeptKnown
  <2>2. g \in DOMAIN stored
    BY <1>3 DEF Kept, Newest, Readable
  <2>3. SegmentsFile(g) \in Range(CommitPoint(g).files)
    BY <2>2, CommitPointFiles DEF IInv, TypeOK, Vector, CommitPoint
  <2>. QED
    BY <2>1, <2>3 DEF Accounts, Protected, Referenced, Holders, Named
<1>4. HasNewest' /\ Advances /\ \A g \in Gen : Kept(g)' => Kept(g)
  BY <1>3, SameKept DEF IInv
<1>5. KeptKnown'
  BY <1>1, <1>4 DEF IInv, KeptKnown
<1>6. KeptIntact'
  BY <1>2, <1>5, IntactWhenUp DEF Accounts
<1>. QED
  BY <1>2, <1>4, <1>5, <1>6 DEF IInv

\* incRef for a merge or a transaction.
LEMMA HoldStep ==
    ASSUME IInv, NEW o, NEW fs \in Vector, Hold(o, fs)
    PROVE  IInv' /\ Advances
<1>0. PICK h : h = [kind |-> "held", id |-> o, files |-> fs]
  OBVIOUS
<1>1. /\ up /\ unreg = 0 /\ Range(fs) \subseteq Usable
      /\ held' = held \cup {h} /\ refCounts' = IncRef(refCounts, {h}, <<>>)
      /\ UNCHANGED <<dir, stored, up, unreg, commits, last, deletable>>
  BY <1>0 DEF Hold, IncRefEffect
<1>2. /\ h.files = fs /\ h.kind = "held" /\ h.id = o
      /\ h = [kind |-> "held", id |-> h.id, files |-> h.files]
  BY <1>0
<1>3. h \notin held
  BY <1>0 DEF Hold
<1>4. Finite({h})
  BY <1>2, FS_Singleton DEF Finite
<1>5. Holders \cap {h} = {} /\ Holders' = Holders \cup {h}
  <2>1. h \notin commits
    BY <1>2, CommitsAndHeld DEF IInv
  <2>. QED
    BY <1>1, <1>3, <2>1 DEF Holders
<1>6. /\ Finite(Holders \cup {h})
      /\ Counts(IncRef(refCounts, {h}, <<>>))
      /\ Exact(IncRef(refCounts, {h}, <<>>), Holders \cup {h}, last)
  <2>1. /\ Counts(refCounts) /\ Finite(Holders) /\ last \in Vector
        /\ Exact(refCounts, Holders, last)
    BY <1>1 DEF IInv, TypeOK, Vector, Accounts, RefCountExact, Exact, Counts
  <2>. QED
    BY <1>4, <1>5, <2>1, Taking
<1>7. Referenced' = Referenced \cup Range(fs)
  BY <1>1, <1>2, <1>5 DEF Referenced, Named
<1>8. Accounts'
  <2>1. Finite(Holders') /\ RefCountExact'
    BY <1>1, <1>5, <1>6 DEF RefCountExact, Exact
  <2>. QED
    BY <1>1, <1>7, <2>1
       DEF IInv, Accounts, Protected, PendingUnreferenced, Usable
<1>9. TypeOK'
  <2>1. \A c : CommitPoint(c)' = CommitPoint(c)
    BY <1>1 DEF CommitPoint
  <2>2. Counts(refCounts')
    BY <1>1, <1>6
  <2>. QED
    BY <1>1, <1>2, <2>1, <2>2 DEF IInv, TypeOK, Vector, Counts
<1>. QED
  BY <1>1, <1>8, <1>9, CommitsStay

\* And decRef.
LEMMA ReleaseStep ==
    ASSUME IInv, NEW h \in held, NEW busy, Release(h, busy)
    PROVE  IInv' /\ Advances
<1>1. /\ up /\ unreg = 0 /\ held' = held \ {h}
      /\ refCounts' = DecRef(refCounts, {h}, <<>>)
      /\ RemoveFiles(Freed(refCounts, {h}, <<>>), deletable, busy)
      /\ UNCHANGED <<stored, up, unreg, commits, last>>
  BY DEF Release, DecRefEffect
<1>2. {h} \subseteq Holders /\ Holders' = Holders \ {h}
  <2>1. h \notin commits
    BY CommitsAndHeld DEF IInv
  <2>. QED
    BY <1>1, <2>1 DEF Holders
<1>3. /\ Finite(Holders \ {h})
      /\ Counts(DecRef(refCounts, {h}, <<>>))
      /\ Exact(DecRef(refCounts, {h}, <<>>), Holders \ {h}, last)
      /\ Freed(refCounts, {h}, <<>>) \cap Named(Holders \ {h}, last) = {}
  <2>1. /\ Counts(refCounts) /\ Finite(Holders) /\ last \in Vector
        /\ Exact(refCounts, Holders, last)
    BY <1>1 DEF IInv, TypeOK, Vector, Accounts, RefCountExact, Exact, Counts
  <2>. QED
    BY <1>2, <2>1, GivingBack
<1>4. Referenced' = Named(Holders \ {h}, last) /\ Referenced' \subseteq Referenced
  BY <1>1, <1>2 DEF Referenced, Named
<1>5. /\ Referenced' \subseteq dir' /\ deletable' \cap Referenced' = {}
      /\ dir' \subseteq dir /\ deletable' \subseteq deletable \cup dir
  BY <1>1, <1>3, <1>4
     DEF RemoveFiles, IInv, Accounts, Protected, PendingUnreferenced
<1>6. Accounts'
  BY <1>1, <1>2, <1>3, <1>5
     DEF Accounts, RefCountExact, Exact, Protected, PendingUnreferenced
<1>7. TypeOK'
  <2>1. \A c : CommitPoint(c)' = CommitPoint(c)
    BY <1>1 DEF CommitPoint
  <2>2. Counts(refCounts')
    BY <1>1, <1>3
  <2>. QED
    BY <1>1, <1>5, <2>1, <2>2 DEF IInv, TypeOK, Vector, Counts
<1>. QED
  BY <1>1, <1>5, <1>6, <1>7, CommitsStay

\* The readable commits up to a generation are finitely many.
LEMMA FoundFinite ==
    ASSUME TypeOK, NEW g \in Gen
    PROVE  Finite({CommitPoint(h) : h \in {n \in DOMAIN stored : n <= g /\ Readable(n)}})
<1> DEFINE gs == {n \in DOMAIN stored : n <= g /\ Readable(n)}
           F == {CommitPoint(h) : h \in gs}
           m == [h \in gs |-> CommitPoint(h)]
<1>1. gs \subseteq 0..g /\ gs \subseteq Gen
  BY GenNat DEF TypeOK
<1>2. IsFiniteSet(0..g)
  BY GenNat, FS_Interval
<1>3. IsFiniteSet(gs)
  BY <1>1, <1>2, FS_Subset
<1>4. IsFiniteSet(F)
  <2>1. m \in Surjection(gs, F)
    BY DEF Surjection
  <2>. QED
    BY <1>3, <2>1, FS_Surjection
<1>5. ASSUME NEW h \in gs PROVE CommitPoint(h).files \in Vector
  <2>1. stored[h].files \in Vector
    BY DEF TypeOK, Vector
  <2>2. CommitPoint(h).files = <<SegmentsFile(h)>> \o stored[h].files
    BY DEF CommitPoint
  <2>. QED
    BY <1>1, <2>1, <2>2, CommitPointFiles
<1>. QED
  BY <1>4, <1>5 DEF Finite, Vector

\* The constructor of the deleter.
LEMMA OpenStep ==
    ASSUME IInv, NEW g \in Gen, NEW busy, Open(g, busy)
    PROVE  IInv' /\ Advances
<1> DEFINE found == {CommitPoint(h) : h \in {n \in DOMAIN stored : n <= g /\ Readable(n)}}
           gone == IF KeepAll THEN {} ELSE {c \in found : c.id # g}
           rc0 == [f \in dir |-> 0]
           rc == IncRef(rc0, found, <<>>)
           zero == dir \ Named(found, <<>>)
<1>1. /\ ~up /\ up' = TRUE /\ stored' = stored /\ unreg' = unreg /\ held' = held
      /\ Newest(g)
      /\ refCounts' = DecRef(rc, gone, <<>>)
      /\ commits' = found \ gone
      /\ last' = <<>>
      /\ RemoveFiles(zero \cup Freed(rc, gone, <<>>), {}, busy)
  BY DEF Open, OpenEffect
<1>2. held = {} /\ unreg = 0
  BY <1>1 DEF IInv, Down
<1>3. Finite(found)
  BY FoundFinite DEF IInv
<1>4. ASSUME NEW c \in found
      PROVE  /\ c.id \in DOMAIN stored /\ c.id \in Gen
             /\ c = CommitPoint(c.id) /\ Readable(c.id)
  <2>1. PICK h \in DOMAIN stored : Readable(h) /\ c = CommitPoint(h)
    OBVIOUS
  <2>2. c.id = h
    BY <2>1 DEF CommitPoint
  <2>. QED
    BY <2>1, <2>2 DEF IInv, TypeOK
<1>5. ASSUME NEW h \in Gen, Kept(h)
      PROVE  CommitPoint(h) \in found \ gone
  <2>1. h <= g /\ h \in DOMAIN stored /\ Readable(h)
    BY <1>1, <1>5 DEF Kept, Newest, Readable
  <2>2. CommitPoint(h) \in found
    BY <2>1
  <2>3. CommitPoint(h).id = h
    BY DEF CommitPoint
  <2>4. KeepAll \/ h = g
    <3>1. ASSUME ~KeepAll PROVE g <= h
      BY <1>1, <1>5, <3>1 DEF Kept, Newest
    <3>. QED
      BY <2>1, <3>1, GenNat
  <2>. QED
    BY <2>2, <2>3, <2>4
<1>6. ASSUME NEW c \in found \ gone PROVE Kept(c.id)
  BY <1>1, <1>4 DEF Kept
<1> HIDE DEF found, gone
<1>7. gone \subseteq found
  BY DEF gone
<1>8. /\ Finite(found \ gone)
      /\ Counts(DecRef(rc, gone, <<>>))
      /\ Exact(DecRef(rc, gone, <<>>), found \ gone, <<>>)
      /\ Freed(rc, gone, <<>>) \cap Named(found \ gone, <<>>) = {}
  <2>1. Counts(rc0)
    BY DEF Counts, IInv, TypeOK
  <2>2. Finite({})
    BY FS_EmptySet DEF Finite
  <2>3. Exact(rc0, {}, <<>>)
    <3>1. \A f \in File : At(rc0, f) = 0
      BY DEF At
    <3>2. ASSUME NEW f \in File PROVE Tally({}, <<>>, f) = 0
      <4>1. f \notin Named({}, <<>>)
        BY DEF Named, Range
      <4>. QED
        BY <2>2, <4>1, CountEmpty, TallyNat
    <3>. QED
      BY <3>1, <3>2 DEF Exact
  <2>4. << >> \in Vector
    BY CountEmpty
  <2> HIDE DEF rc0
  <2>5. PICK r, H, N, G, e : /\ r = rc0 /\ H = {} /\ N = found /\ G = gone /\ e = << >>
    OBVIOUS
  <2>6. /\ Counts(r) /\ Finite(H) /\ Finite(N) /\ H \cap N = {}
        /\ G \subseteq H \cup N /\ e \in Vector /\ Exact(r, H, e)
    BY <1>3, <1>7, <2>1, <2>2, <2>3, <2>4, <2>5
  <2>7. /\ Counts(DecRef(IncRef(r, N, e), G, e))
        /\ Exact(DecRef(IncRef(r, N, e), G, e), (H \cup N) \ G, e)
        /\ Freed(IncRef(r, N, e), G, e) \cap Named((H \cup N) \ G, e) = {}
    BY <2>6, Handover
  <2>8. (H \cup N) \ G = found \ gone
    BY <2>5
  <2>9. Finite(found \ gone)
    BY <1>3, <1>7, UsesRemove
  <2>. QED
    BY <2>5, <2>7, <2>8, <2>9
<1>9. Holders' = found \ gone /\ Referenced' = Named(found \ gone, <<>>)
  BY <1>1, <1>2 DEF Holders, Referenced
<1>10. ASSUME NEW c \in found \ gone PROVE Range(c.files) \subseteq dir
  <2>1. c.id \in Gen /\ c.id \in DOMAIN stored /\ Readable(c.id) /\ Kept(c.id)
        /\ c = CommitPoint(c.id)
    BY <1>4, <1>6
  <2>2. c.files = <<SegmentsFile(c.id)>> \o stored[c.id].files
    BY <2>1 DEF CommitPoint
  <2>3. stored[c.id].files \in Vector
    BY <2>1 DEF IInv, TypeOK, Vector
  <2>4. Range(c.files) = {SegmentsFile(c.id)} \cup Range(stored[c.id].files)
    BY <2>1, <2>2, <2>3, CommitPointFiles
  <2>. QED
    BY <2>1, <2>4 DEF Readable, IInv, KeptIntact
<1>11. Referenced' \subseteq dir
  <2>1. Range(<< >>) = {}
    BY DEF Range
  <2>. QED
    BY <1>9, <1>10, <2>1 DEF Named
<1>12. /\ Referenced' \subseteq dir' /\ deletable' \cap Referenced' = {}
       /\ dir' \subseteq dir /\ deletable' \subseteq dir
  <2>1. zero \cap Referenced' = {}
    BY <1>9 DEF Named
  <2>2. Freed(rc, gone, <<>>) \cap Referenced' = {}
    BY <1>8, <1>9
  <2>. QED
    BY <1>1, <1>11, <2>1, <2>2 DEF RemoveFiles
<1>13. \A h : CommitPoint(h)' = CommitPoint(h)
  BY <1>1 DEF CommitPoint
<1>14. TypeOK'
  <2>1. Counts(refCounts')
    BY <1>1, <1>8
  <2>2. \A c \in commits' : c.id \in DOMAIN stored' /\ c = CommitPoint(c.id)'
    BY <1>1, <1>4, <1>13
  <2>3. last' \in Seq(File)
    BY <1>1, CountEmpty DEF Vector
  <2>. QED
    BY <1>1, <1>2, <1>12, <2>1, <2>2, <2>3 DEF IInv, TypeOK, Counts
<1>15. Accounts'
  <2>1. Finite(Holders') /\ RefCountExact'
    BY <1>1, <1>8, <1>9 DEF RefCountExact, Exact
  <2>. QED
    BY <1>12, <2>1 DEF Accounts, Protected, PendingUnreferenced
<1>16. Down' /\ Fresh'
  BY <1>1, <1>2 DEF Down, Fresh
<1>17. CommitsComplete'
  BY <1>1, <1>4 DEF CommitsComplete, Readable
<1>18. ASSUME NEW h \in Gen, Kept(h) PROVE SegmentsFile(h) \in dir'
  <2>1. CommitPoint(h) \in Holders' /\ h \in DOMAIN stored
    BY <1>5, <1>9, <1>18 DEF Kept, Newest, Readable
  <2>2. SegmentsFile(h) \in Range(CommitPoint(h).files)
    BY <2>1, CommitPointFiles DEF IInv, TypeOK, Vector, CommitPoint
  <2>. QED
    BY <1>12, <2>1, <2>2 DEF Referenced, Named
<1>19. HasNewest' /\ Advances /\ \A h \in Gen : Kept(h)' => Kept(h)
  BY <1>1, <1>12, <1>18, SameKept DEF IInv
<1>20. KeptKnown'
  BY <1>1, <1>5, <1>13, <1>19 DEF KeptKnown
<1>21. KeptIntact'
  BY <1>1, <1>14, <1>15, <1>16, <1>20, IntactWhenUp DEF Accounts
<1>. QED
  BY <1>14, <1>15, <1>16, <1>17, <1>19, <1>20, <1>21 DEF IInv

-----------------------------------------------------------------------------
(* The theorems.                                                           *)

\* The invariant holds in an empty directory.
LEMMA InitInv == Init => IInv
<1> SUFFICES ASSUME Init PROVE IInv
  OBVIOUS
<1>1. /\ dir = {} /\ stored = << >> /\ up = FALSE /\ unreg = 0
      /\ refCounts = << >> /\ commits = {} /\ last = << >> /\ held = {}
      /\ deletable = {}
  BY DEF Init
<1>2. DOMAIN << >> = {} /\ Range(<< >>) = {}
  BY DEF Range
<1>3. TypeOK
  BY <1>1, <1>2, CountEmpty DEF TypeOK, Vector
<1>4. Accounts
  <2>1. Finite(Holders)
    BY <1>1, FS_EmptySet DEF Holders, Finite
  <2>2. Referenced = {}
    BY <1>1, <1>2 DEF Referenced, Named, Holders
  <2>. QED
    BY <1>1, <2>1, <2>2 DEF Accounts, RefCountExact, Protected, PendingUnreferenced
<1>5. \A g \in Gen : ~Readable(g) /\ ~Kept(g)
  BY <1>1, <1>2 DEF Readable, Kept, Newest
<1>. QED
  BY <1>1, <1>3, <1>4, <1>5
     DEF IInv, Down, CommitsComplete, Fresh, HasNewest, KeptKnown, KeptIntact

\* Every step keeps it.
LEMMA NextInv ==
    ASSUME IInv, [Next]_vars
    PROVE  IInv' /\ Advances
<1>1. \A fs \in Vectors : fs \in Vector
  BY VectorsAssumption DEF Vector
<1>2. ASSUME NEW fs \in FileSets, CreateFiles(fs)
      PROVE  IInv' /\ Advances
  BY <1>2, CreateFilesStep
<1>3. ASSUME NEW g \in Gen, StartSegments(g)
      PROVE  IInv' /\ Advances
  BY <1>3, StartSegmentsStep
<1>4. ASSUME NEW g \in Gen, NEW fs \in Vectors, FinishSegments(g, fs)
      PROVE  IInv' /\ Advances
  BY <1>1, <1>4, FinishSegmentsStep
<1>5. ASSUME NEW o \in Owner, NEW fs \in Vectors, Hold(o, fs)
      PROVE  IInv' /\ Advances
  BY <1>1, <1>5, HoldStep
<1>6. ASSUME NEW busy \in FileSets, ClientStep(busy)
      PROVE  IInv' /\ Advances
  <2>1. ASSUME NEW infosFs \in Vectors, NEW docFs \in Vectors,
               Checkpoint(infosFs, docFs, busy)
        PROVE  IInv' /\ Advances
    BY <1>1, <2>1, CheckpointStep
  <2>2. ASSUME NEW h \in held, Release(h, busy)
        PROVE  IInv' /\ Advances
    BY <2>2, ReleaseStep
  <2>3. ASSUME NEW fs \in FileSets, DeleteFiles(fs, busy)
        PROVE  IInv' /\ Advances
    BY <2>3, DeleteFilesStep
  <2>4. ASSUME NEW fs \in FileSets, DeleteNewFiles(fs, busy)
        PROVE  IInv' /\ Advances
    BY <2>4, DeleteNewFilesStep
  <2>5. ASSUME NEW scope \in FileSets, Refresh(scope, busy)
        PROVE  IInv' /\ Advances
    BY <2>5, RefreshStep
  <2>6. ASSUME Close(busy)
        PROVE  IInv' /\ Advances
    BY <2>6, CloseStep
  <2>7. ASSUME NEW g \in Gen, Open(g, busy)
        PROVE  IInv' /\ Advances
    BY <2>7, OpenStep
  <2>. QED
    BY <1>6, <2>1, <2>2, <2>3, <2>4, <2>5, <2>6, <2>7 DEF ClientStep
<1>7. ASSUME Crash
      PROVE  IInv' /\ Advances
  BY <1>7, CrashStep
<1>8. ASSUME NEW done \in FileSets, CrashInCheckpoint(done)
      PROVE  IInv' /\ Advances
  BY <1>8, CrashInCheckpointStep
<1>9. ASSUME UNCHANGED vars
      PROVE  IInv' /\ Advances
  <2>1. /\ \A g : CommitPoint(g)' = CommitPoint(g)
        /\ \A g \in Gen : Readable(g)' <=> Readable(g)
        /\ Holders' = Holders /\ Referenced' = Referenced /\ Usable' = Usable
    BY <1>9 DEF vars, CommitPoint, Readable, Holders, Referenced, Usable
  <2>2. \A g \in Gen : (Newest(g)' <=> Newest(g)) /\ (Kept(g)' <=> Kept(g))
    BY <2>1 DEF Newest, Kept
  <2>3. TypeOK'
    BY <1>9, <2>1 DEF IInv, TypeOK, vars
  <2>4. Accounts' /\ Down' /\ CommitsComplete'
    BY <1>9, <2>1 DEF IInv, Accounts, RefCountExact, Protected,
                      PendingUnreferenced, Down, CommitsComplete, vars
  <2>5. Fresh'
    BY <1>9, <2>1, <2>2 DEF IInv, Fresh, TypeOK, vars
  <2>6. HasNewest' /\ KeptKnown' /\ KeptIntact'
    BY <1>9, <2>1, <2>2 DEF IInv, HasNewest, KeptKnown, KeptIntact, vars
  <2>7. Advances
    BY <2>2, GenNat DEF Advances
  <2>. QED
    BY <2>3, <2>4, <2>5, <2>6, <2>7 DEF IInv
<1>. QED
  BY <1>2, <1>3, <1>4, <1>5, <1>6, <1>7, <1>8, <1>9 DEF Next

\* The invariant above is one.
THEOREM Invariance == Spec => []IInv
<1>1. Init => IInv
  BY InitInv
<1>2. IInv /\ [Next]_vars => IInv'
  BY NextInv
<1>. QED
  BY <1>1, <1>2, PTL DEF Spec

\* The variables of the deleter and its directory have their types.
THEOREM TypeCorrect == Spec => []TypeOK
<1>1. IInv => TypeOK
  BY DEF IInv
<1>. QED
  BY <1>1, Invariance, PTL

\* incRef and decRef are balanced: the count of a file is the number of
\* references to it, however checkpoints, merges, rollbacks and failed
\* deletions follow each other.
THEOREM CountsExact == Spec => []RefCountExact
<1>1. IInv => RefCountExact
  BY DEF IInv, Accounts
<1>. QED
  BY <1>1, Invariance, PTL

\* The deleter removes no file that a commit, the writer's segments or a
\* running merge references.
THEOREM ReferencedFilesStay == Spec => []Protected
<1>1. IInv => Protected
  BY DEF IInv, Accounts
<1>. QED
  BY <1>1, Invariance, PTL

\* A deletion that is retried never hits a file that is in use again.
THEOREM RetriesAreSafe == Spec => []PendingUnreferenced
<1>1. IInv => PendingUnreferenced
  BY DEF IInv, Accounts
<1>. QED
  BY <1>1, Invariance, PTL

\* The newest commit has all of its files, also after a crash in the middle
\* of a checkpoint's deletions.
THEOREM CommitIntact == Spec => []NewestCommitIntact
<1>1. IInv => NewestCommitIntact
  BY DEF IInv, KeptIntact, Kept, NewestCommitIntact, Newest
<1>. QED
  BY <1>1, Invariance, PTL

\* No step takes the index back to an older commit.
THEOREM NeverBack == Spec => CommitsAdvance
<1>1. IInv /\ [Next]_vars => Advances
  BY NextInv
<1>2. Advances =>
        \A g \in Gen : Newest(g) => \E h \in Gen : h >= g /\ Newest(h)'
  BY DEF Advances
<1>3. IInv /\ [Next]_vars =>
        [\A g \in Gen : Newest(g) => \E h \in Gen : h >= g /\ Newest(h)']_vars
  BY <1>1, <1>2
<1>. QED
  BY <1>3, Invariance, PTL DEF Spec, CommitsAdvance
=============================================================================
