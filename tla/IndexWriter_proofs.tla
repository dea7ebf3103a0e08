------------------------- MODULE IndexWriter_proofs -------------------------
(***************************************************************************)
(* Proofs about the segments of IndexWriter, for any number of documents,  *)
(* segments, generations and failures: the variables keep their types, a   *)
(* merge finds its sources when it commits, and no document is in two      *)
(* segments.                                                               *)
(*                                                                         *)
(* They follow from one inductive invariant, IInv.  There are three lists  *)
(* of segments besides those on disk: the current one, the one an error    *)
(* goes back to (op.undo), and the one abort goes back to (rollback).  For *)
(* each it says what Fits says; a step that fails puts the second in       *)
(* the place of the first, so that it must fit the buffer and the merge of *)
(* that moment as well (UndoOK), as long as there is something to be       *)
(* written that may fail (Undoing).  What the steps of an operation may    *)
(* be, and in which order, is in OpOK.                                     *)
(*                                                                         *)
(* What the deleter does is not looked into: it removes files, and keeps   *)
(* the names of those it could not remove.                                 *)
(***************************************************************************)
EXTENDS IndexWriter, SequenceTheorems, FiniteSetTheorems, WellFoundedInduction, TLAPS

-----------------------------------------------------------------------------
(* The inductive invariant.                                                *)

\* A segment.  Every deletions file deletes one document more.
SegmentOK(s) ==
    /\ s \in SegmentInfos
    /\ s.dels \subseteq s.docs
    /\ s.delGen <= Cardinality(s.dels)

\* A list of segments with different names below n, no document in two.
ListOK(is, n) ==
    /\ is \in Seq(SegmentInfos)
    /\ \A i \in DOMAIN is : SegmentOK(is[i]) /\ is[i].name < n
    /\ \A i, j \in DOMAIN is :
         i # j => is[i].name # is[j].name /\ Live(is[i]) \cap Live(is[j]) = {}

Unused(n, is) == \A i \in DOMAIN is : is[i].name # n

\* The sources c of a merge are neighbours.
Together(c, is) ==
    \E i \in DOMAIN is :
        /\ i + 1 \in DOMAIN is
        /\ \A k \in 1..2 : /\ is[i + k - 1].name = c[k].name
                           /\ is[i + k - 1].docs = c[k].docs
                           /\ c[k].dels \subseteq is[i + k - 1].dels

\* The list fits n names, the segment being filled, and the merge m.
Fits(is, n, seg, m) ==
    /\ ListOK(is, n)
    /\ seg # None => Unused(seg, is)
    /\ m.stage \in {"init", "running", "built"} => Together(m.clone, is)
    /\ m.stage \in {"running", "built"} => Unused(m.out.name, is)

InfosOK == Fits(infos, counter, buf.seg, merge) /\ LiveDocs(infos) \cap buf.docs = {}

HeadOf(s) == IF s = <<>> THEN "idle" ELSE Head(s)[1]

\* segments_N is being written, and what happens when that fails is known.
Undoes(o) == HeadOf(o.todo) \in {"write", "finish"} /\ o.onFail # <<<<"die">>>>
Undoing == Undoes(op)
AllDocs(is) == UNION {is[i].docs : i \in DOMAIN is}
UndoOK ==
    Undoing => /\ Fits(op.undo, counter, buf.seg, merge)
               /\ LiveDocs(op.undo) \subseteq AllDocs(infos)
               /\ LiveDocs(op.undo) \cap buf.docs = {}

RollbackOK == Fits(rollback, counter, buf.seg, NoMerge)

DiskSegments == [complete : BOOLEAN, infos : Seq(SegmentInfos), counter : 0..MaxSeg]
DiskOK ==
    /\ DOMAIN disk \subseteq Gen
    /\ \A g \in DOMAIN disk : /\ disk[g] \in DiskSegments
                              /\ ListOK(disk[g].infos, disk[g].counter)
    /\ At("finish") => gen \in DOMAIN disk /\ ListOK(infos, disk[gen].counter)

BufShape(b, n) ==
    /\ b \in [docs : SUBSET Doc, dels : SUBSET Doc, seg : Name \cup {None},
              store : Name \cup {None}, closed : BOOLEAN]
    /\ b.docs # {} => b.seg # None
    /\ b.seg < n
BufOK == BufShape(buf, counter)

Stages == {"none", "init", "running", "built", "ending", "committed", "compound"}
MergeShape(m, n, seg) ==
    /\ m \in [stage : Stages, clone : Seq(SegmentInfos),
              out : IF m.stage \in {"none", "init"} THEN {None} ELSE SegmentInfos,
              stores : BOOLEAN, aborted : BOOLEAN]
    /\ m.stage \in {"init", "running", "built"} => Len(m.clone) = 2
    /\ m.stage \in {"running", "built"} =>
         /\ m.out.name < n /\ m.out.name # seg
         /\ m.out.dels = {}
         /\ \A k \in 1..2 : SegmentOK(m.clone[k])
         /\ Live(m.clone[1]) \cap Live(m.clone[2]) = {}
    /\ m.stage = "built" => m.out.docs = LiveDocs(m.clone)
MergeOK == MergeShape(merge, counter, buf.seg)

\* The steps of operations.
Step ==
    {<<"ctor">>, <<"write">>, <<"finish">>, <<"stores">>, <<"bind">>, <<"release">>,
     <<"close">>, <<"partial">>, <<"die">>}
      \cup ({"ckpt"} \X BOOLEAN)
      \cup ({"segment"} \X BOOLEAN \X (Name \cup {None}) \X BOOLEAN)
      \cup ({"cfs"} \X Name) \cup ({"refresh"} \X (Name \cup {None}))
      \cup ({"delete", "new"} \X SUBSET File)
      \cup ({"merged"} \X {"none", "committed"})
      \cup ({"throw"} \X {"caller", "merge"})

\* segments_N and doc stores are written first, a merge's name is bound last,
\* and when a merge is over its exception is all that is left.
Script(s) ==
    /\ s \in Seq(Step)
    /\ \A i \in DOMAIN s :
         /\ s[i][1] \in {"write", "finish", "stores"} => i = 1
         /\ s[i][1] = "bind" => i = Len(s)
         /\ s[i][1] = "merged" => \A j \in DOMAIN s : j > i => s[j][1] = "throw"

Names(s) == {s[i][1] : i \in DOMAIN s}

OpShape(o) ==
    /\ o \in [todo : Seq(Step), undo : Seq(SegmentInfos), onFail : Seq(Step),
              pausing : BOOLEAN]
    /\ Script(o.todo) /\ Script(o.onFail)
    /\ Names(o.onFail) \cap {"write", "finish", "stores", "bind"} = {}

\* The operation fits the merge m, and fills doc stores that are open.
OpFits(o, m, store1) ==
    /\ OpShape(o)
    /\ "bind" \in Names(o.todo) => m.stage = "init"
    /\ "merged" \in Names(o.todo) => m.stage \in {"ending", "compound"}
    /\ Undoes(o) /\ "merged" \in Names(o.onFail) => m.stage \in {"ending", "compound"}
    /\ HeadOf(o.todo) = "stores" => store1 # None
OpOK == OpFits(op, merge, buf.store)

\* While there is no writer, or none yet.
StartShape(st, b, m, o, rb) ==
    /\ st \in {"closed", "opening"} => b = EmptyBuf /\ m = NoMerge
    /\ st = "closed" => o.todo = <<>>
    /\ st = "opening" =>
         /\ Names(o.todo) \subseteq {"ctor", "write", "finish", "throw"}
         /\ Names(o.onFail) \subseteq {"throw"}
         /\ "throw" \in Names(o.todo) \/ o.onFail # <<>> => rb = <<>>
StartOK == StartShape(status, buf, merge, op, rollback)

RestOK ==
    /\ dir \subseteq File /\ pinned \subseteq File /\ deletable \subseteq File
    /\ status \in {"closed", "opening", "open", "closing", "stopping",
                   "aborting", "aborted", "abandoning"}
    /\ autoCommit \in BOOLEAN /\ commitPending \in BOOLEAN
    /\ gen \in 0..MaxGen /\ lastGen \in 0..MaxGen /\ counter \in 0..MaxSeg
    /\ faults \in 0..MaxFaults

IInv ==
    /\ InfosOK /\ UndoOK /\ RollbackOK /\ DiskOK /\ BufOK /\ MergeOK /\ OpOK /\ StartOK
    /\ RestOK

-----------------------------------------------------------------------------
(* Segments and lists of them.                                             *)

LEMMA NoSegments ==
  ASSUME NEW n
  PROVE  ListOK(<<>>, n) /\ LiveDocs(<<>>) = {}
PROOF
<1>1. <<>> \in Seq(SegmentInfos) /\ DOMAIN <<>> = {}
  OBVIOUS
<1> QED
  BY <1>1 DEF ListOK, LiveDocs

\* More names are handed out.
LEMMA MoreNames ==
  ASSUME NEW n \in Nat, NEW m \in Nat, n <= m, NEW is, ListOK(is, n)
  PROVE  ListOK(is, m)
PROOF
<1>1. \A i \in DOMAIN is : is[i].name \in Int
  BY DEF ListOK, SegmentOK, SegmentInfos, Name
<1>2. \A i \in DOMAIN is : is[i].name < m
  BY <1>1 DEF ListOK
<1> QED
  BY <1>2 DEF ListOK

\* The segments are the same ones, with some more documents deleted.
LEMMA MoreDeleted ==
  ASSUME NEW is, NEW js, NEW n, NEW seg, NEW m, Fits(is, n, seg, m),
         js \in Seq(SegmentInfos), DOMAIN js = DOMAIN is,
         \A i \in DOMAIN is : /\ SegmentOK(js[i])
                              /\ js[i].name = is[i].name /\ js[i].docs = is[i].docs
                              /\ is[i].dels \subseteq js[i].dels
  PROVE  Fits(js, n, seg, m) /\ LiveDocs(js) \subseteq LiveDocs(is)
PROOF
<1>1. \A i \in DOMAIN is : Live(js[i]) \subseteq Live(is[i])
  BY DEF Live
<1>2. ListOK(js, n)
  <2>1. \A i \in DOMAIN js : SegmentOK(js[i]) /\ js[i].name < n
    BY DEF Fits, ListOK
  <2>2. \A i, j \in DOMAIN js : i # j => js[i].name # js[j].name
    BY DEF Fits, ListOK
  <2>3. \A i, j \in DOMAIN js : i # j => Live(js[i]) \cap Live(js[j]) = {}
    BY <1>1 DEF Fits, ListOK
  <2> QED
    BY <2>1, <2>2, <2>3 DEF ListOK
<1>3. \A name : Unused(name, is) => Unused(name, js)
  BY DEF Unused
<1>4. ASSUME NEW c, Together(c, is)
      PROVE  Together(c, js)
  <2>1. PICK i \in DOMAIN is :
          /\ i + 1 \in DOMAIN is
          /\ \A k \in 1..2 : /\ is[i + k - 1].name = c[k].name
                             /\ is[i + k - 1].docs = c[k].docs
                             /\ c[k].dels \subseteq is[i + k - 1].dels
    BY <1>4 DEF Together
  <2>2. i \in Int
    BY DEF Fits, ListOK
  <2>3. \A k \in 1..2 : i + k - 1 \in DOMAIN is
    BY <2>1, <2>2
  <2>4. \A k \in 1..2 : /\ js[i + k - 1].name = c[k].name
                        /\ js[i + k - 1].docs = c[k].docs
                        /\ c[k].dels \subseteq js[i + k - 1].dels
    BY <2>1, <2>3
  <2> QED
    BY <2>1, <2>4 DEF Together
<1>5. LiveDocs(js) \subseteq LiveDocs(is)
  BY <1>1 DEF LiveDocs
<1> QED
  BY <1>2, <1>3, <1>4, <1>5 DEF Fits

LEMMA NoDeletes0 ==
  ASSUME NEW s, s.dels = {}, s.delGen = 0, s \in SegmentInfos
  PROVE  SegmentOK(s)
PROOF
  BY FS_EmptySet DEF SegmentOK

\* What an application of deletes does to a segment.
LEMMA Deleted ==
  ASSUME NEW s, SegmentOK(s), NEW ds \in SUBSET Doc
  PROVE  LET r == ApplyDeletes(s, ds)
         IN  /\ SegmentOK(r)
             /\ r.name = s.name /\ r.docs = s.docs /\ s.dels \subseteq r.dels
             /\ r # s => r.delGen \in 1..Cardinality(Doc)
PROOF
<1>1. CASE ds \cap Live(s) = {}
  BY <1>1 DEF ApplyDeletes
<1>2. CASE ds \cap Live(s) # {}
  <2>1. PICK r : r = [s EXCEPT !.dels = @ \cup (ds \cap s.docs), !.delGen = @ + 1]
    OBVIOUS
  <2>2. /\ r \in SegmentInfos /\ r.name = s.name /\ r.docs = s.docs
        /\ r.dels = s.dels \cup (ds \cap s.docs) /\ r.delGen = s.delGen + 1
    <3>1. PICK ss : s.dels \cup (ds \cap s.docs) = ss
      OBVIOUS
    <3>2. PICK g : s.delGen + 1 = g
      OBVIOUS
    <3>3. s \in SegmentInfos /\ ss \in SUBSET Doc /\ g \in Nat
      BY <3>1, <3>2 DEF SegmentOK, SegmentInfos
    <3>4. r = [s EXCEPT !.dels = ss, !.delGen = g]
      BY <2>1, <3>1, <3>2, <3>3 DEF SegmentInfos
    <3> QED
      BY <3>1, <3>2, <3>3, <3>4 DEF SegmentInfos
  <2>3. s.dels \subseteq Doc /\ r.dels \subseteq Doc /\ s.delGen \in Nat
    BY <2>2 DEF SegmentOK, SegmentInfos
  <2>4. PICK d \in r.dels : d \notin s.dels
    BY <1>2, <2>2 DEF Live
  <2>5. IsFiniteSet(r.dels) /\ IsFiniteSet(s.dels)
    BY <2>3, DocAssumption, FS_Subset
  <2>6. Cardinality(s.dels) < Cardinality(r.dels)
    <3>1. s.dels \subseteq r.dels /\ s.dels # r.dels
      BY <2>2, <2>4
    <3>2. Cardinality(s.dels) <= Cardinality(r.dels) /\ Cardinality(s.dels) # Cardinality(r.dels)
      BY <3>1, <2>5, FS_Subset
    <3>3. Cardinality(s.dels) \in Nat /\ Cardinality(r.dels) \in Nat
      BY <2>5, FS_CardinalityType
    <3> QED
      BY <3>2, <3>3
  <2>7. Cardinality(s.dels) \in Nat /\ Cardinality(r.dels) \in Nat /\ Cardinality(Doc) \in Nat
    BY <2>5, DocAssumption, FS_CardinalityType
  <2>8. Cardinality(r.dels) <= Cardinality(Doc)
    BY <2>3, DocAssumption, FS_Subset
  <2>9. s.delGen <= Cardinality(s.dels)
    BY DEF SegmentOK
  <2>10. r.delGen <= Cardinality(r.dels) /\ r.delGen \in 1..Cardinality(Doc)
    BY <2>2, <2>3, <2>6, <2>7, <2>8, <2>9
  <2>11. r.dels \subseteq r.docs
    BY <2>2 DEF SegmentOK
  <2>12. ApplyDeletes(s, ds) = r
    BY <1>2, <2>1 DEF ApplyDeletes
  <2> QED
    BY <2>2, <2>10, <2>11, <2>12 DEF SegmentOK
<1> QED
  BY <1>1, <1>2

LEMMA Appended ==
  ASSUME NEW is, NEW n, NEW seg, NEW m, Fits(is, n, seg, m),
         NEW new, SegmentOK(new), new.name < n, Unused(new.name, is),
         Live(new) \cap LiveDocs(is) = {},
         m.stage \in {"running", "built"} => m.out.name # new.name
  PROVE  /\ Fits(Append(is, new), n, None, m)
         /\ LiveDocs(is) \subseteq LiveDocs(Append(is, new))
PROOF
<1>1. is \in Seq(SegmentInfos) /\ new \in SegmentInfos
  BY DEF Fits, ListOK, SegmentOK
<1>2. PICK js : js = Append(is, new)
  OBVIOUS
<1>3. PICK l \in Nat : l = Len(is)
  BY <1>1
<1>4. /\ js \in Seq(SegmentInfos) /\ DOMAIN is = 1..l /\ DOMAIN js = 1..(l + 1)
      /\ \A i \in 1..l : js[i] = is[i]
      /\ js[l + 1] = new
  BY <1>1, <1>2, <1>3, AppendProperties
<1>5. \A i \in DOMAIN js : (i \in DOMAIN is /\ js[i] = is[i]) \/ (i = l + 1 /\ js[i] = new)
  BY <1>4
<1>6. \A i \in DOMAIN is : is[i].name # new.name /\ Live(is[i]) \cap Live(new) = {}
  BY DEF Unused, LiveDocs
<1>7. ListOK(js, n)
  <2>1. \A i \in DOMAIN js : SegmentOK(js[i]) /\ js[i].name < n
    BY <1>5 DEF Fits, ListOK
  <2>2. \A i, j \in DOMAIN js :
          i # j => js[i].name # js[j].name /\ Live(js[i]) \cap Live(js[j]) = {}
    BY <1>5, <1>6 DEF Fits, ListOK
  <2> QED
    BY <2>1, <2>2, <1>4 DEF ListOK
<1>8. \A name : Unused(name, is) /\ name # new.name => Unused(name, js)
  BY <1>5 DEF Unused
<1>9. ASSUME NEW c, Together(c, is)
      PROVE  Together(c, js)
  <2>1. PICK i \in DOMAIN is :
          /\ i + 1 \in DOMAIN is
          /\ \A k \in 1..2 : /\ is[i + k - 1].name = c[k].name
                             /\ is[i + k - 1].docs = c[k].docs
                             /\ c[k].dels \subseteq is[i + k - 1].dels
    BY <1>9 DEF Together
  <2>2. \A k \in 1..2 : i + k - 1 \in DOMAIN is
    BY <2>1, <1>4
  <2>3. \A k \in 1..2 : js[i + k - 1] = is[i + k - 1]
    BY <2>2, <1>4
  <2>4. i \in DOMAIN js /\ i + 1 \in DOMAIN js
    BY <2>1, <1>4
  <2> QED
    BY <2>1, <2>3, <2>4 DEF Together
<1>10. LiveDocs(is) \subseteq LiveDocs(js)
  <2>1. \A i \in DOMAIN is : i \in DOMAIN js /\ js[i] = is[i]
    BY <1>4
  <2> QED
    BY <2>1 DEF LiveDocs
<1> QED
  BY <1>2, <1>7, <1>8, <1>9, <1>10 DEF Fits

\* out takes the place of two neighbours.
LEMMA Spliced ==
  ASSUME NEW is, NEW n, ListOK(is, n), NEW i \in DOMAIN is, i + 1 \in DOMAIN is,
         NEW out, SegmentOK(out), out.name < n, Unused(out.name, is),
         Live(out) = Live(is[i]) \cup Live(is[i + 1])
  PROVE  LET js == SubSeq(is, 1, i - 1) \o <<out>> \o SubSeq(is, i + 2, Len(is))
         IN  /\ ListOK(js, n)
             /\ LiveDocs(js) = LiveDocs(is)
             /\ \A name : Unused(name, is) /\ name # out.name => Unused(name, js)
PROOF
<1>1. is \in Seq(SegmentInfos) /\ out \in SegmentInfos
  BY DEF ListOK, SegmentOK
<1>2. PICK l \in Nat : l = Len(is) /\ DOMAIN is = 1..l
  BY <1>1
<1>3. i \in Nat /\ i >= 1 /\ i + 1 <= l
  BY <1>2
<1>4. PICK a : a = SubSeq(is, 1, i - 1)
  OBVIOUS
<1>5. PICK c : c = SubSeq(is, i + 2, Len(is))
  OBVIOUS
<1>6. PICK js : js = a \o <<out>> \o c
  OBVIOUS
<1>7. a \in Seq(SegmentInfos) /\ Len(a) = i - 1 /\ \A k \in 1..(i - 1) : a[k] = is[k]
  BY <1>1, <1>2, <1>3, <1>4, SubSeqProperties
<1>8. /\ c \in Seq(SegmentInfos) /\ Len(c) = l - i - 1
      /\ \A k \in 1..(l - i - 1) : c[k] = is[i + 1 + k]
  <2>1. c = SubSeq(is, i + 2, l)
    BY <1>2, <1>5
  <2>2. i + 2 \in 1..(l + 1) /\ l \in 0..Len(is)
    BY <1>2, <1>3
  <2>3. /\ c \in Seq(SegmentInfos)
        /\ Len(c) = IF i + 2 <= l THEN l - (i + 2) + 1 ELSE 0
        /\ \A k \in 1..(l - (i + 2) + 1) : c[k] = is[i + 2 + k - 1]
    BY <2>1, <2>2, <1>1, SubSeqProperties
  <2>4. Len(c) = l - i - 1
    BY <2>3, <1>2, <1>3
  <2>5. \A k \in 1..(l - i - 1) : c[k] = is[i + 1 + k]
    <3>1. l - (i + 2) + 1 = l - i - 1
      BY <1>2, <1>3
    <3>2. \A k \in 1..(l - i - 1) : i + 2 + k - 1 = i + 1 + k
      BY <1>2, <1>3
    <3> QED
      BY <2>3, <3>1, <3>2
  <2> QED
    BY <2>3, <2>4, <2>5
<1>9. PICK b : b = a \o <<out>>
  OBVIOUS
<1>10. b \in Seq(SegmentInfos) /\ Len(b) = i /\ b[i] = out /\ \A k \in 1..(i - 1) : b[k] = a[k]
  <2>1. <<out>> \in Seq(SegmentInfos) /\ Len(<<out>>) = 1 /\ <<out>>[1] = out
    BY <1>1
  <2> QED
    BY <2>1, <1>3, <1>7, <1>9, ConcatProperties
<1>11. js = b \o c
  BY <1>6, <1>9
<1>12. /\ js \in Seq(SegmentInfos) /\ Len(js) = l - 1
       /\ \A k \in 1..(i - 1) : js[k] = is[k]
       /\ js[i] = out
       /\ \A k \in (i + 1)..(l - 1) : js[k] = is[k + 1]
  <2>1. /\ js \in Seq(SegmentInfos) /\ Len(js) = i + (l - i - 1)
        /\ \A k \in 1..Len(js) : js[k] = IF k <= i THEN b[k] ELSE c[k - i]
    BY <1>8, <1>10, <1>11, ConcatProperties
  <2>2. \A k \in 1..i : js[k] = b[k]
    BY <2>1, <1>3
  <2>3. \A k \in (i + 1)..(l - 1) : js[k] = c[k - i] /\ k - i \in 1..(l - i - 1)
    BY <2>1, <1>3
  <2>4. \A k \in (i + 1)..(l - 1) : js[k] = is[i + 1 + (k - i)] /\ i + 1 + (k - i) = k + 1
    BY <2>3, <1>3, <1>8
  <2>5. \A k \in (i + 1)..(l - 1) : js[k] = is[k + 1]
    BY <2>4
  <2>6. Len(js) = l - 1 /\ js[i] = b[i] /\ \A k \in 1..(i - 1) : js[k] = b[k]
    <3>1. i + (l - i - 1) = l - 1
      BY <1>2, <1>3
    <3>2. i \in 1..i /\ \A k \in 1..(i - 1) : k \in 1..i
      BY <1>3
    <3>3. js[i] = b[i] /\ \A k \in 1..(i - 1) : js[k] = b[k]
      BY <2>2, <3>2
    <3> QED
      BY <2>1, <3>1, <3>3
  <2>7. \A k \in 1..(i - 1) : b[k] = is[k]
    BY <1>7, <1>10
  <2> QED
    BY <2>1, <2>5, <2>6, <2>7, <1>10
<1>13. PICK at : at = [k \in 1..(l - 1) |-> IF k < i THEN k ELSE k + 1]
  OBVIOUS
<1>14. \A k \in DOMAIN js : \/ k = i /\ js[k] = out
                            \/ /\ k # i /\ at[k] \in DOMAIN is /\ js[k] = is[at[k]]
                               /\ at[k] # i /\ at[k] # i + 1
  BY <1>2, <1>3, <1>12, <1>13
<1>15. \A j, k \in DOMAIN js : j # k /\ j # i /\ k # i => at[j] # at[k]
  BY <1>2, <1>3, <1>12, <1>13
<1>16. \A k \in DOMAIN is : /\ is[k].name # out.name
                            /\ k # i /\ k # i + 1 => Live(is[k]) \cap Live(out) = {}
  BY DEF ListOK, Unused
<1>17. ListOK(js, n)
  <2>1. \A k \in DOMAIN js : SegmentOK(js[k]) /\ js[k].name < n
    BY <1>14 DEF ListOK
  <2>2. ASSUME NEW j \in DOMAIN js, NEW k \in DOMAIN js, j # k
        PROVE  js[j].name # js[k].name /\ Live(js[j]) \cap Live(js[k]) = {}
    <3>1. CASE j = i
      <4>1. /\ js[j] = out /\ at[k] \in DOMAIN is /\ js[k] = is[at[k]]
            /\ at[k] # i /\ at[k] # i + 1
        BY <3>1, <2>2, <1>14
      <4> QED
        BY <4>1, <1>16
    <3>2. CASE k = i
      <4>1. /\ js[k] = out /\ at[j] \in DOMAIN is /\ js[j] = is[at[j]]
            /\ at[j] # i /\ at[j] # i + 1
        BY <3>2, <2>2, <1>14
      <4> QED
        BY <4>1, <1>16
    <3>3. CASE j # i /\ k # i
      <4>1. /\ at[j] \in DOMAIN is /\ js[j] = is[at[j]] /\ at[k] \in DOMAIN is /\ js[k] = is[at[k]]
            /\ at[j] # at[k]
        BY <3>3, <2>2, <1>14, <1>15
      <4> QED
        BY <4>1 DEF ListOK
    <3> QED
      BY <3>1, <3>2, <3>3
  <2> QED
    BY <2>1, <2>2, <1>12 DEF ListOK
<1>18. LiveDocs(js) = LiveDocs(is)
  <2>1. ASSUME NEW d, NEW k \in DOMAIN js, d \in Live(js[k])
        PROVE  \E j \in DOMAIN is : d \in Live(is[j])
    BY <2>1, <1>14
  <2>2. ASSUME NEW d, NEW j \in DOMAIN is, d \in Live(is[j])
        PROVE  \E k \in DOMAIN js : d \in Live(js[k])
    <3>1. CASE j < i
      <4>1. j \in DOMAIN js /\ js[j] = is[j]
        BY <3>1, <1>2, <1>3, <1>12
      <4> QED
        BY <4>1, <2>2
    <3>2. CASE j = i \/ j = i + 1
      <4>1. i \in DOMAIN js /\ js[i] = out
        BY <1>3, <1>12
      <4> QED
        BY <4>1, <3>2, <2>2
    <3>3. CASE j > i + 1
      <4>1. j - 1 \in (i + 1)..(l - 1) /\ (j - 1) + 1 = j /\ j - 1 \in DOMAIN js
        BY <3>3, <1>2, <1>3, <1>12
      <4>2. js[j - 1] = is[j]
        BY <4>1, <1>12
      <4> QED
        BY <4>1, <4>2, <2>2
    <3> QED
      BY <3>1, <3>2, <3>3, <1>2, <1>3
  <2> QED
    BY <2>1, <2>2 DEF LiveDocs
<1>19. \A name : Unused(name, is) /\ name # out.name => Unused(name, js)
  BY <1>14 DEF Unused
<1> QED
  BY <1>4, <1>5, <1>6, <1>17, <1>18, <1>19

-----------------------------------------------------------------------------
(* Scripts: the steps an operation has left.                               *)

Firsts == {"write", "finish", "stores"}

\* What the sequences of the module are put together of.
LEMMA Literals ==
  /\ <<>> \in Seq(Step) /\ Names(<<>>) = {}
  /\ \A a \in Step : <<a>> \in Seq(Step) /\ Names(<<a>>) = {a[1]}
  /\ \A a, b \in Step : <<a, b>> \in Seq(Step) /\ Names(<<a, b>>) = {a[1], b[1]}
  /\ \A a, b, c \in Step :
       <<a, b, c>> \in Seq(Step) /\ Names(<<a, b, c>>) = {a[1], b[1], c[1]}
  /\ \A a, b, c, d \in Step :
       <<a, b, c, d>> \in Seq(Step) /\ Names(<<a, b, c, d>>) = {a[1], b[1], c[1], d[1]}
PROOF
<1>1. DOMAIN <<>> = {}
  OBVIOUS
<1>2. ASSUME NEW a \in Step
      PROVE  <<a>> \in Seq(Step) /\ Names(<<a>>) = {a[1]}
  <2>1. DOMAIN <<a>> = {1} /\ <<a>>[1] = a
    OBVIOUS
  <2> QED
    BY <2>1 DEF Names
<1>3. ASSUME NEW a \in Step, NEW b \in Step
      PROVE  <<a, b>> \in Seq(Step) /\ Names(<<a, b>>) = {a[1], b[1]}
  <2>1. DOMAIN <<a, b>> = {1, 2} /\ <<a, b>>[1] = a /\ <<a, b>>[2] = b
    OBVIOUS
  <2> QED
    BY <2>1 DEF Names
<1>4. ASSUME NEW a \in Step, NEW b \in Step, NEW c \in Step
      PROVE  <<a, b, c>> \in Seq(Step) /\ Names(<<a, b, c>>) = {a[1], b[1], c[1]}
  <2>1. DOMAIN <<a, b, c>> = {1, 2, 3} /\ <<a, b, c>>[1] = a /\ <<a, b, c>>[2] = b
        /\ <<a, b, c>>[3] = c
    OBVIOUS
  <2> QED
    BY <2>1 DEF Names
<1>5. ASSUME NEW a \in Step, NEW b \in Step, NEW c \in Step, NEW d \in Step
      PROVE  /\ <<a, b, c, d>> \in Seq(Step)
             /\ Names(<<a, b, c, d>>) = {a[1], b[1], c[1], d[1]}
  <2>1. DOMAIN <<a, b, c, d>> = {1, 2, 3, 4} /\ <<a, b, c, d>>[1] = a /\ <<a, b, c, d>>[2] = b
        /\ <<a, b, c, d>>[3] = c /\ <<a, b, c, d>>[4] = d
    OBVIOUS
  <2> QED
    BY <2>1 DEF Names
<1> QED
  BY <1>1, <1>2, <1>3, <1>4, <1>5 DEF Names

\* A sequence without special steps, and one special step alone.
LEMMA PlainScript ==
  ASSUME NEW s \in Seq(Step), Names(s) \cap (Firsts \cup {"bind", "merged"}) = {}
  PROVE  Script(s)
PROOF
<1>1. \A i \in DOMAIN s : s[i][1] \in Names(s)
  BY DEF Names
<1> QED
  BY <1>1 DEF Script, Firsts

LEMMA OneStep ==
  ASSUME NEW a \in Step
  PROVE  Script(<<a>>)
PROOF
<1>1. DOMAIN <<a>> = {1} /\ Len(<<a>>) = 1 /\ <<a>> \in Seq(Step)
  OBVIOUS
<1> QED
  BY <1>1 DEF Script

LEMMA Followed ==
  ASSUME NEW s, Script(s), NEW t, Script(t), Names(t) \cap Firsts = {},
         "bind" \notin Names(s),
         "merged" \in Names(s) => Names(t) \subseteq {"throw"}
  PROVE  Script(s \o t) /\ Names(s \o t) = Names(s) \cup Names(t)
PROOF
<1>1. s \in Seq(Step) /\ t \in Seq(Step)
  BY DEF Script
<1>2. PICK l \in Nat, m \in Nat : l = Len(s) /\ m = Len(t) /\ DOMAIN s = 1..l /\ DOMAIN t = 1..m
  BY <1>1
<1> DEFINE r == s \o t
<1>3. /\ r \in Seq(Step) /\ Len(r) = l + m /\ DOMAIN r = 1..(l + m)
      /\ \A i \in 1..(l + m) : r[i] = IF i <= l THEN s[i] ELSE t[i - l]
  BY <1>1, <1>2, ConcatProperties
<1> HIDE DEF r
<1>4. /\ \A i \in 1..l : i \in DOMAIN r /\ r[i] = s[i]
      /\ \A i \in 1..m : i + l \in DOMAIN r /\ r[i + l] = t[i]
  <2>1. ASSUME NEW i \in 1..m
        PROVE  i + l \in DOMAIN r /\ r[i + l] = t[i]
    <3>1. PICK k : k = i + l
      OBVIOUS
    <3>2. k \in 1..(l + m) /\ ~(k <= l) /\ k - l = i
      BY <3>1, <1>2
    <3>3. r[k] = t[k - l]
      BY <3>2, <1>3
    <3> QED
      BY <3>1, <3>2, <3>3, <1>3
  <2>2. \A i \in 1..l : i \in 1..(l + m) /\ i <= l
    BY <1>2
  <2>3. \A i \in 1..l : i \in DOMAIN r /\ r[i] = s[i]
    BY <2>2, <1>3
  <2> QED
    BY <2>1, <2>3
<1>5. \A i \in DOMAIN r : \/ i \in 1..l /\ r[i] = s[i]
                          \/ i > l /\ i - l \in 1..m /\ r[i] = t[i - l]
  BY <1>2, <1>3
<1>6. Names(r) = Names(s) \cup Names(t)
  <2>1. Names(s) \cup Names(t) \subseteq Names(r)
    <3>1. \A i \in DOMAIN s : i \in DOMAIN r /\ r[i][1] = s[i][1]
      BY <1>2, <1>4
    <3>2. \A i \in DOMAIN t : i + l \in DOMAIN r /\ r[i + l][1] = t[i][1]
      BY <1>2, <1>4
    <3> QED
      BY <3>1, <3>2 DEF Names
  <2>2. Names(r) \subseteq Names(s) \cup Names(t)
    BY <1>2, <1>5 DEF Names
  <2> QED
    BY <2>1, <2>2
<1>7. /\ \A i \in 1..l : s[i][1] \in Names(s)
      /\ \A i \in 1..m : t[i][1] \in Names(t)
  BY <1>2 DEF Names
<1>8. ASSUME NEW i \in DOMAIN r
      PROVE  /\ r[i][1] \in Firsts => i = 1
             /\ r[i][1] = "bind" => i = l + m
             /\ r[i][1] = "merged" => \A j \in DOMAIN r : j > i => r[j][1] = "throw"
  <2>1. CASE i \in 1..l /\ r[i] = s[i]
    <3>1. r[i][1] \in Firsts => i = 1
      BY <2>1, <1>2 DEF Script, Firsts
    <3>2. r[i][1] # "bind"
      BY <2>1, <1>7
    <3>3. ASSUME r[i][1] = "merged", NEW j \in DOMAIN r, j > i
          PROVE  r[j][1] = "throw"
      <4>1. CASE j \in 1..l /\ r[j] = s[j]
        BY <2>1, <3>3, <4>1, <1>2 DEF Script
      <4>2. CASE j - l \in 1..m /\ r[j] = t[j - l]
        BY <2>1, <3>3, <4>2, <1>7
      <4> QED
        BY <4>1, <4>2, <1>5
    <3> QED
      BY <3>1, <3>2, <3>3
  <2>2. CASE i > l /\ i - l \in 1..m /\ r[i] = t[i - l]
    <3>1. r[i][1] \notin Firsts
      BY <2>2, <1>7
    <3>2. r[i][1] = "bind" => i - l = m
      BY <2>2, <1>2 DEF Script
    <3>3. ASSUME r[i][1] = "merged", NEW j \in DOMAIN r, j > i
          PROVE  r[j][1] = "throw"
      <4>1. j - l \in 1..m /\ r[j] = t[j - l] /\ j - l > i - l
        BY <2>2, <3>3, <1>3, <1>5
      <4> QED
        BY <2>2, <3>3, <4>1, <1>2 DEF Script
    <3> QED
      BY <3>1, <3>2, <3>3, <2>2, <1>2, <1>3
  <2> QED
    BY <2>1, <2>2, <1>5
<1> QED
  BY <1>2, <1>3, <1>6, <1>8 DEF Script, Firsts, r

\* What is left after a step.
LEMMA Rest ==
  ASSUME NEW s, Script(s), s # <<>>
  PROVE  /\ Script(Tail(s))
         /\ Names(Tail(s)) \subseteq Names(s) \ Firsts
         /\ Head(s) = s[1] /\ s[1] \in Step /\ s[1][1] \in Names(s)
         /\ s[1][1] = "bind" => Names(Tail(s)) = {}
         /\ s[1][1] = "merged" => Names(Tail(s)) \subseteq {"throw"}
PROOF
<1>1. s \in Seq(Step)
  BY DEF Script
<1>2. PICK l \in Nat : l = Len(s) /\ l >= 1 /\ DOMAIN s = 1..l
  BY <1>1
<1>3. PICK t : t = Tail(s)
  OBVIOUS
<1>4. /\ t \in Seq(Step) /\ Len(t) = l - 1 /\ DOMAIN t = 1..(l - 1)
      /\ \A i \in 1..(l - 1) : t[i] = s[i + 1]
      /\ Head(s) = s[1]
  BY <1>1, <1>2, <1>3
<1>5. \A i \in DOMAIN t : i + 1 \in DOMAIN s /\ t[i] = s[i + 1] /\ i + 1 # 1 /\ i + 1 > 1
  BY <1>2, <1>4
<1>6. Script(t)
  <2>1. ASSUME NEW i \in DOMAIN t
        PROVE  /\ t[i][1] \notin Firsts
               /\ t[i][1] = "bind" => i = l - 1
               /\ t[i][1] = "merged" => \A j \in DOMAIN t : j > i => t[j][1] = "throw"
    <3>1. t[i][1] \notin Firsts
      BY <1>5 DEF Script, Firsts
    <3>2. ASSUME t[i][1] = "bind" PROVE i = l - 1
      <4>1. i + 1 = l
        BY <3>2, <1>2, <1>5 DEF Script
      <4> QED
        BY <4>1, <1>2, <1>4
    <3>3. ASSUME t[i][1] = "merged", NEW j \in DOMAIN t, j > i
          PROVE  t[j][1] = "throw"
      <4>1. j + 1 > i + 1
        BY <3>3, <1>4
      <4> QED
        BY <3>3, <4>1, <1>5 DEF Script
    <3> QED
      BY <3>1, <3>2, <3>3
  <2> QED
    BY <2>1, <1>4 DEF Script, Firsts
<1>7. Names(t) \subseteq Names(s) \ Firsts
  BY <1>5 DEF Names, Script, Firsts
<1>8. s[1] \in Step /\ s[1][1] \in Names(s)
  BY <1>1, <1>2 DEF Names
<1>9. ASSUME s[1][1] = "bind"
      PROVE  Names(t) = {}
  <2>1. l = 1
    BY <1>2, <1>9 DEF Script
  <2> QED
    BY <2>1, <1>4 DEF Names
<1>10. ASSUME s[1][1] = "merged"
       PROVE  Names(t) \subseteq {"throw"}
  BY <1>2, <1>5, <1>10 DEF Names, Script
<1> QED
  BY <1>3, <1>4, <1>6, <1>7, <1>8, <1>9, <1>10

-----------------------------------------------------------------------------
(* How an operation goes on.                                               *)

LEMMA HeadName ==
  ASSUME NEW s \in Seq(Step)
  PROVE  /\ s = <<>> => HeadOf(s) = "idle" /\ Names(s) = {}
         /\ s # <<>> => HeadOf(s) = s[1][1] /\ HeadOf(s) \in Names(s) /\ Head(s) = s[1]
PROOF
<1>1. s # <<>> => Head(s) = s[1] /\ 1 \in DOMAIN s
  OBVIOUS
<1> QED
  BY <1>1, Literals DEF HeadOf, Names

Going(o, steps) == IF steps = <<>> THEN Idle ELSE [o EXCEPT !.todo = steps]

LEMMA WentOn ==
  ASSUME NEW o, OpShape(o), NEW steps, Script(steps)
  PROVE  /\ OpShape(Going(o, steps)) /\ Going(o, steps).todo = steps
         /\ Going(o, steps).onFail \in {o.onFail, <<>>}
         /\ steps # <<>> => /\ Going(o, steps).onFail = o.onFail
                            /\ Going(o, steps).undo = o.undo
PROOF
<1>1. steps \in Seq(Step)
  BY DEF Script
<1>2. CASE steps = <<>>
  <2>1. Going(o, steps) = Idle
    BY <1>2 DEF Going
  <2>2. <<>> \in Seq(Step) /\ <<>> \in Seq(SegmentInfos) /\ Script(<<>>) /\ Names(<<>>) = {}
    <3>1. <<>> \in Seq(Step) /\ <<>> \in Seq(SegmentInfos)
      OBVIOUS
    <3>2. Names(<<>>) = {}
      BY Literals
    <3> QED
      BY <3>1, <3>2, PlainScript
  <2>3. /\ Idle \in [todo : Seq(Step), undo : Seq(SegmentInfos), onFail : Seq(Step), pausing : BOOLEAN]
        /\ Idle.todo = <<>> /\ Idle.onFail = <<>>
    BY <2>2 DEF Idle
  <2>4. OpShape(Idle)
    BY <2>2, <2>3 DEF OpShape
  <2> QED
    BY <2>1, <2>3, <2>4, <1>2
<1>3. CASE steps # <<>>
  <2>1. PICK o2 : o2 = Going(o, steps)
    OBVIOUS
  <2>2. o2 = [o EXCEPT !.todo = steps]
    BY <1>3, <2>1 DEF Going
  <2>3. /\ o2 \in [todo : Seq(Step), undo : Seq(SegmentInfos), onFail : Seq(Step), pausing : BOOLEAN]
        /\ o2.todo = steps /\ o2.onFail = o.onFail /\ o2.undo = o.undo
    BY <2>2, <1>1 DEF OpShape
  <2>4. OpShape(o2)
    BY <2>3 DEF OpShape
  <2> QED
    BY <2>1, <2>3, <2>4, <1>3
<1> QED
  BY <1>2, <1>3

\* One step further.
LEMMA Advanced ==
  ASSUME NEW o, OpShape(o), o.todo # <<>>, NEW o2, o2 = Going(o, Tail(o.todo))
  PROVE  /\ OpShape(o2)
         /\ Names(o2.todo) \subseteq Names(o.todo) \ Firsts
         /\ HeadOf(o2.todo) \notin Firsts
         /\ o2.onFail \in {o.onFail, <<>>}
         /\ HeadOf(o.todo) = "bind" => Names(o2.todo) = {}
         /\ HeadOf(o.todo) = "merged" => Names(o2.todo) \subseteq {"throw"}
PROOF
<1>1. Script(o.todo) /\ o.todo \in Seq(Step)
  BY DEF OpShape, Script
<1>2. PICK t : t = Tail(o.todo)
  OBVIOUS
<1>3. /\ Script(t) /\ Names(t) \subseteq Names(o.todo) \ Firsts
      /\ HeadOf(o.todo) = "bind" => Names(t) = {}
      /\ HeadOf(o.todo) = "merged" => Names(t) \subseteq {"throw"}
  BY <1>1, <1>2, Rest, HeadName
<1>4. OpShape(o2) /\ o2.todo = t /\ o2.onFail \in {o.onFail, <<>>}
  BY <1>2, <1>3, WentOn
<1>5. t \in Seq(Step)
  BY <1>3 DEF Script
<1>6. HeadOf(t) \notin Firsts
  <2>1. CASE t = <<>>
    BY <2>1, <1>5, HeadName DEF Firsts
  <2>2. CASE t # <<>>
    BY <2>2, <1>3, <1>5, HeadName
  <2> QED
    BY <2>1, <2>2
<1> QED
  BY <1>3, <1>4, <1>6

LEMMA AdvancedFits ==
  ASSUME NEW o, NEW m, NEW f, OpFits(o, m, f), o.todo # <<>>,
         NEW o2, o2 = Going(o, Tail(o.todo)), NEW g
  PROVE  OpFits(o2, m, g) /\ ~Undoes(o2) /\ HeadOf(o2.todo) # "finish"
PROOF
<1>1. OpShape(o)
  BY DEF OpFits
<1>2. /\ OpShape(o2) /\ Names(o2.todo) \subseteq Names(o.todo) \ Firsts
      /\ HeadOf(o2.todo) \notin Firsts
  BY <1>1, Advanced
<1> QED
  BY <1>2 DEF OpFits, Undoes, Firsts

\* An operation begins.
LEMMA Begun ==
  ASSUME NEW steps, Script(steps), Names(steps) \cap {"write", "finish"} = {},
         NEW is \in Seq(SegmentInfos), NEW p \in BOOLEAN,
         NEW o2, o2 = [todo |-> steps, undo |-> is, onFail |-> <<>>, pausing |-> p]
  PROVE  /\ OpShape(o2) /\ o2.todo = steps /\ o2.onFail = <<>>
         /\ ~Undoes(o2) /\ HeadOf(o2.todo) # "finish"
PROOF
<1>1. steps \in Seq(Step)
  BY DEF Script
<1>2. <<>> \in Seq(Step) /\ Names(<<>>) = {} /\ Script(<<>>)
  BY Literals, PlainScript
<1>3. HeadOf(steps) \notin {"write", "finish"}
  BY <1>1, HeadName
<1> QED
  BY <1>1, <1>2, <1>3 DEF OpShape, Undoes

-----------------------------------------------------------------------------
(* Steps that leave the segments alone.                                    *)

\* m2 asks nothing of the segments that m does not.
Calmer(m2, m) ==
    /\ m2.stage \in {"init", "running", "built"} =>
         m.stage \in {"init", "running", "built"} /\ m2.clone = m.clone
    /\ m2.stage \in {"running", "built"} =>
         m.stage \in {"running", "built"} /\ m2.out.name = m.out.name

LEMMA FitsStill ==
  ASSUME NEW is, NEW n \in Nat, NEW seg, NEW m, Fits(is, n, seg, m),
         NEW n2 \in Nat, n <= n2, NEW seg2, seg2 \in {None, seg} \/ seg2 = n,
         NEW m2, Calmer(m2, m)
  PROVE  Fits(is, n2, seg2, m2)
PROOF
<1>1. ListOK(is, n2)
  BY MoreNames DEF Fits
<1>2. seg2 # None => Unused(seg2, is)
  <2>1. \A i \in DOMAIN is : is[i].name \in Int /\ is[i].name < n
    BY DEF Fits, ListOK, SegmentOK, SegmentInfos, Name
  <2>2. Unused(n, is)
    BY <2>1 DEF Unused
  <2> QED
    BY <2>2 DEF Fits
<1>3. /\ m2.stage \in {"init", "running", "built"} => Together(m2.clone, is)
      /\ m2.stage \in {"running", "built"} => Unused(m2.out.name, is)
  BY DEF Fits, Calmer
<1> QED
  BY <1>1, <1>2, <1>3 DEF Fits

\* What the parts of the invariant say of types.
LEMMA Types ==
  ASSUME IInv
  PROVE  /\ infos \in Seq(SegmentInfos) /\ rollback \in Seq(SegmentInfos)
         /\ op.undo \in Seq(SegmentInfos) /\ op.todo \in Seq(Step) /\ op.onFail \in Seq(Step)
         /\ op.pausing \in BOOLEAN
         /\ counter \in Nat /\ counter \in 0..MaxSeg /\ gen \in Nat /\ faults \in Nat
         /\ MaxSeg \in Nat /\ MaxGen \in Nat /\ MaxFaults \in Nat
PROOF
<1>1. infos \in Seq(SegmentInfos) /\ rollback \in Seq(SegmentInfos)
  BY DEF IInv, InfosOK, RollbackOK, Fits, ListOK
<1>2. /\ op.undo \in Seq(SegmentInfos) /\ op.todo \in Seq(Step) /\ op.onFail \in Seq(Step)
      /\ op.pausing \in BOOLEAN
  BY DEF IInv, OpOK, OpFits, OpShape
<1> QED
  BY <1>1, <1>2, BoundsAssumption DEF IInv, RestOK

LEMMA Heads == Head1 = HeadOf(op.todo) /\ (\A a : a # "idle" /\ At(a) => op.todo # <<>>)
PROOF
  BY DEF Head1, HeadOf, At

LEMMA LiveAreDocs ==
  ASSUME NEW is
  PROVE  LiveDocs(is) \subseteq AllDocs(is)
PROOF
  BY DEF LiveDocs, AllDocs, Live

LEMMA Kept ==
  ASSUME IInv, infos' = infos, rollback' \in {rollback, <<>>}, disk' = disk, gen' = gen,
         counter <= counter',
         buf'.seg \in {None, buf.seg} \/ buf'.seg = counter,
         LiveDocs(infos) \cap buf'.docs = {},
         Calmer(merge', merge),
         Undoes(op') => \/ op'.undo = infos
                        \/ /\ Undoing /\ op'.undo = op.undo
                           /\ LiveDocs(op.undo) \cap buf'.docs = {},
         HeadOf(op'.todo) = "finish" => At("finish"),
         BufOK', MergeOK', OpOK', StartOK', RestOK'
  PROVE  IInv'
PROOF
<1>1. counter \in Nat /\ counter' \in Nat
  BY BoundsAssumption DEF IInv, RestOK
<1>2. Fits(infos, counter, buf.seg, merge)
  BY DEF IInv, InfosOK
<1>3. PICK n2 : n2 = counter'
  OBVIOUS
<1>4. PICK seg2 : seg2 = buf'.seg
  OBVIOUS
<1>5. PICK m2 : m2 = merge'
  OBVIOUS
<1>6. Fits(infos, n2, seg2, m2)
  BY <1>1, <1>2, <1>3, <1>4, <1>5, FitsStill
<1>7. InfosOK'
  BY <1>3, <1>4, <1>5, <1>6 DEF InfosOK
<1>8. UndoOK'
  <2>1. ASSUME Undoes(op')
        PROVE  /\ Fits(op'.undo, n2, seg2, m2)
               /\ LiveDocs(op'.undo) \subseteq AllDocs(infos)
               /\ LiveDocs(op'.undo) \cap buf'.docs = {}
    <3>1. CASE op'.undo = infos
      BY <3>1, <1>6, LiveAreDocs
    <3>2. CASE /\ Undoing /\ op'.undo = op.undo
               /\ LiveDocs(op.undo) \cap buf'.docs = {}
      <4>1. /\ Fits(op.undo, counter, buf.seg, merge)
            /\ LiveDocs(op.undo) \subseteq AllDocs(infos)
        BY <3>2 DEF IInv, UndoOK
      <4>2. Fits(op.undo, n2, seg2, m2)
        BY <4>1, <1>1, <1>3, <1>4, <1>5, FitsStill
      <4> QED
        BY <3>2, <4>1, <4>2
    <3> QED
      BY <2>1, <3>1, <3>2
  <2> QED
    BY <2>1, <1>3, <1>4, <1>5 DEF UndoOK, Undoing
<1>9. RollbackOK'
  <2>1. Fits(rollback, counter, buf.seg, NoMerge)
    BY DEF IInv, RollbackOK
  <2>2. Calmer(NoMerge, NoMerge)
    BY DEF Calmer
  <2>3. Fits(rollback, n2, seg2, NoMerge)
    BY <2>1, <2>2, <1>1, <1>3, <1>4, FitsStill
  <2>4. Fits(<<>>, n2, seg2, NoMerge)
    BY NoSegments DEF Fits, NoMerge, Unused
  <2> QED
    BY <2>3, <2>4, <1>3, <1>4 DEF RollbackOK
<1>10. DiskOK'
  <2>1. At("finish")' => At("finish")
    BY DEF At, Head1, HeadOf
  <2> QED
    BY <2>1 DEF IInv, DiskOK
<1> QED
  BY <1>7, <1>8, <1>9, <1>10 DEF IInv

\* A step of the operation that changes nothing but files.
LEMMA Ran ==
  ASSUME IInv, op.todo # <<>>, Advance, status' = status, status # "opening",
         UNCHANGED <<disk, pinned, autoCommit, si, rollback, buf, merge, faults>>,
         dir' \subseteq File, deletable' \subseteq File
  PROVE  IInv'
PROOF
<1>1. /\ infos' = infos /\ rollback' = rollback /\ disk' = disk /\ gen' = gen
      /\ counter' = counter /\ buf' = buf /\ merge' = merge /\ lastGen' = lastGen
      /\ commitPending' = commitPending /\ pinned' = pinned /\ autoCommit' = autoCommit
      /\ faults' = faults
  BY DEF si
<1>2. op' = Going(op, Tail(op.todo))
  BY DEF Advance, GoOn, Going
<1>3. OpFits(op, merge, buf.store)
  BY DEF IInv, OpOK
<1>4. PICK o2 : o2 = op'
  OBVIOUS
<1>5. OpFits(o2, merge, buf.store) /\ ~Undoes(o2) /\ HeadOf(o2.todo) # "finish"
  BY <1>2, <1>3, <1>4, AdvancedFits
<1>6. BufOK' /\ MergeOK'
  BY <1>1 DEF IInv, BufOK, MergeOK
<1>7. OpOK'
  BY <1>1, <1>4, <1>5 DEF OpOK
<1>8. StartOK'
  BY <1>1 DEF IInv, StartOK, StartShape
<1>9. RestOK'
  BY <1>1 DEF IInv, RestOK
<1>10. counter \in Nat /\ LiveDocs(infos) \cap buf.docs = {} /\ Calmer(merge, merge)
  BY Types DEF IInv, InfosOK, Calmer
<1>11. LiveDocs(infos) \cap buf'.docs = {} /\ Calmer(merge', merge) /\ counter <= counter'
  BY <1>1, <1>10
<1> QED
  BY <1>1, <1>4, <1>5, <1>6, <1>7, <1>8, <1>9, <1>11, Kept

-----------------------------------------------------------------------------
(* The steps of the deleter.                                               *)

LEMMA Removed ==
  ASSUME dir \subseteq File, NEW doomed, NEW pending, pending \subseteq File, NEW busy,
         D!RemoveFiles(doomed, pending, busy)
  PROVE  dir' \subseteq File /\ deletable' \subseteq File
PROOF
  BY DEF D!RemoveFiles

LEMMA CheckpointFiles ==
  ASSUME dir \subseteq File, deletable \subseteq File, NEW fs, NEW ds, NEW isCommit, NEW g,
         NEW busy, D!CheckpointEffect(fs, ds, isCommit, g, busy)
  PROVE  dir' \subseteq File /\ deletable' \subseteq File
PROOF
<1>1. PICK doomed : D!RemoveFiles(doomed, {}, busy)
  BY DEF D!CheckpointEffect
<1> QED
  BY <1>1, Removed

LEMMA OpenFiles ==
  ASSUME dir \subseteq File, NEW g, NEW busy, D!OpenEffect(g, busy)
  PROVE  dir' \subseteq File /\ deletable' \subseteq File
PROOF
<1>1. PICK doomed : D!RemoveFiles(doomed, {}, busy)
  BY DEF D!OpenEffect
<1> QED
  BY <1>1, Removed

\* Only the constructor of the writer writes segments_N, or throws, before
\* there is a deleter.
LEMMA Opening ==
  ASSUME IInv, op.todo # <<>>, Head1 \notin {"ctor", "write", "finish", "throw"}
  PROVE  status \notin {"closed", "opening"}
PROOF
<1>1. Head1 \in Names(op.todo)
  BY Types, Heads, HeadName
<1> QED
  BY <1>1 DEF IInv, StartOK, StartShape

LEMMA DeleterCheckpointInv ==
  ASSUME IInv, DeleterCheckpoint
  PROVE  IInv'
PROOF
<1>1. op.todo # <<>> /\ status # "opening" /\ Advance
  BY Heads, Opening DEF DeleterCheckpoint, At
<1>2. PICK fs, ds, c : D!CheckpointEffect(fs, ds, c, gen, Busy)
  BY DEF DeleterCheckpoint
<1>3. dir' \subseteq File /\ deletable' \subseteq File
  BY <1>2, CheckpointFiles DEF IInv, RestOK
<1>4. UNCHANGED <<disk, pinned, autoCommit, si, rollback, buf, merge, faults, status>>
  BY DEF DeleterCheckpoint
<1> QED
  BY <1>1, <1>3, <1>4, Ran

LEMMA DeleteInv ==
  ASSUME IInv, DeletePartial \/ DeleteFiles \/ DeleteNewFiles \/ Refresh
  PROVE  IInv'
PROOF
<1>1. op.todo # <<>> /\ status # "opening" /\ Advance
  BY Heads, Opening DEF DeletePartial, DeleteFiles, DeleteNewFiles, Refresh, At
<1>2. PICK doomed : D!RemoveFiles(doomed, deletable, Busy)
  BY DEF DeletePartial, DeleteFiles, DeleteNewFiles, Refresh, D!DeleteFilesEffect,
         D!DeleteNewFilesEffect, D!RefreshEffect
<1>3. dir' \subseteq File /\ deletable' \subseteq File
  BY <1>2, Removed DEF IInv, RestOK
<1>4. UNCHANGED <<disk, pinned, autoCommit, si, rollback, buf, merge, faults, status>>
  BY DEF DeletePartial, DeleteFiles, DeleteNewFiles, Refresh
<1> QED
  BY <1>1, <1>3, <1>4, Ran

LEMMA MergeReleaseInv ==
  ASSUME IInv, MergeRelease
  PROVE  IInv'
PROOF
<1>1. op.todo # <<>> /\ status # "opening" /\ Advance
  BY Heads, Opening DEF MergeRelease, At
<1>2. PICK doomed : D!RemoveFiles(doomed, deletable, Busy)
  BY DEF MergeRelease, D!DecRefEffect
<1>3. dir' \subseteq File /\ deletable' \subseteq File
  BY <1>2, Removed DEF IInv, RestOK
<1>4. UNCHANGED <<disk, pinned, autoCommit, si, rollback, buf, merge, faults, status>>
  BY DEF MergeRelease
<1> QED
  BY <1>1, <1>3, <1>4, Ran

\* The deleter is there: the writer is open.
LEMMA ConstructDeleterInv ==
  ASSUME IInv, ConstructDeleter
  PROVE  IInv'
PROOF
<1>1. op.todo # <<>> /\ Advance /\ status' = "open"
  BY Heads DEF ConstructDeleter, At
<1>2. dir' \subseteq File /\ deletable' \subseteq File
  BY OpenFiles DEF ConstructDeleter, IInv, RestOK
<1>3. /\ infos' = infos /\ rollback' = rollback /\ disk' = disk /\ gen' = gen
      /\ counter' = counter /\ buf' = buf /\ merge' = merge /\ lastGen' = lastGen
      /\ commitPending' = commitPending /\ pinned' = pinned /\ autoCommit' = autoCommit
      /\ faults' = faults
  BY DEF ConstructDeleter, si
<1>4. op' = Going(op, Tail(op.todo))
  BY <1>1 DEF Advance, GoOn, Going
<1>5. PICK o2 : o2 = op'
  OBVIOUS
<1>6. OpFits(op, merge, buf.store)
  BY DEF IInv, OpOK
<1>7. OpFits(o2, merge, buf.store) /\ ~Undoes(o2) /\ HeadOf(o2.todo) # "finish"
  BY <1>1, <1>4, <1>5, <1>6, AdvancedFits
<1>8. BufOK' /\ MergeOK'
  BY <1>3 DEF IInv, BufOK, MergeOK
<1>9. OpOK'
  BY <1>3, <1>5, <1>7 DEF OpOK
<1>10. StartOK'
  BY <1>1 DEF StartOK, StartShape
<1>11. RestOK'
  BY <1>1, <1>2, <1>3 DEF IInv, RestOK
<1>12. counter \in Nat /\ LiveDocs(infos) \cap buf.docs = {} /\ Calmer(merge, merge)
  BY Types DEF IInv, InfosOK, Calmer
<1>13. LiveDocs(infos) \cap buf'.docs = {} /\ Calmer(merge', merge) /\ counter <= counter'
  BY <1>3, <1>12
<1> QED
  BY <1>3, <1>5, <1>7, <1>8, <1>9, <1>10, <1>11, <1>13, Kept

-----------------------------------------------------------------------------
(* Readers.                                                                *)

LEMMA FilesAreFiles ==
  ASSUME NEW is, NEW n, ListOK(is, n)
  PROVE  FilesIn(is) \subseteq File
PROOF
<1>1. ASSUME NEW s, SegmentOK(s)
      PROVE  ToSet(FilesOf(s)) \subseteq File
  <2>1. /\ s.name \in Name /\ s.store \in Name \cup {None} /\ s.delGen \in Nat
        /\ s.dels \subseteq Doc /\ s.delGen <= Cardinality(s.dels)
    BY <1>1 DEF SegmentOK, SegmentInfos
  <2>2. /\ Cardinality(s.dels) \in Nat /\ Cardinality(Doc) \in Nat
        /\ Cardinality(s.dels) <= Cardinality(Doc)
    BY <2>1, DocAssumption, FS_Subset, FS_CardinalityType
  <2>3. s.delGen > 0 => s.delGen \in 1..(2 * Cardinality(Doc))
    BY <2>1, <2>2
  <2>4. /\ Cfs(s.name) \in File /\ Core(s.name) \in File /\ Store(s.name) \in File
        /\ s.store # None => Cfx(s.store) \in File /\ Store(s.store) \in File
        /\ s.delGen > 0 => Del(s.name, s.delGen) \in File
    BY <2>1, <2>3 DEF File, Cfs, Core, Store, Cfx, Del
  <2> DEFINE a == IF s.cfs THEN <<Cfs(s.name)>> ELSE <<Core(s.name)>>
             b == IF s.store # None
                  THEN <<IF s.storeCfs THEN Cfx(s.store) ELSE Store(s.store)>>
                  ELSE IF s.cfs THEN <<>> ELSE <<Store(s.name)>>
             c == IF s.delGen > 0 THEN <<Del(s.name, s.delGen)>> ELSE <<>>
  <2>5. \A f \in File : <<f>> \in Seq(File)
    OBVIOUS
  <2>6. <<>> \in Seq(File)
    OBVIOUS
  <2>7. a \in Seq(File)
    BY <2>4, <2>5
  <2>8. b \in Seq(File)
    BY <2>4, <2>5, <2>6
  <2>9. c \in Seq(File)
    BY <2>4, <2>5, <2>6
  <2>10. FilesOf(s) = (a \o b) \o c
    BY DEF FilesOf
  <2> HIDE DEF a, b, c
  <2>11. FilesOf(s) \in Seq(File)
    <3>1. a \o b \in Seq(File)
      BY <2>7, <2>8, ConcatProperties
    <3> QED
      BY <3>1, <2>9, <2>10, ConcatProperties
  <2> QED
    BY <2>11 DEF ToSet
<1> QED
  BY <1>1 DEF ListOK, FilesIn

LEMMA Found ==
  ASSUME IInv, FoundGen # 0
  PROVE  /\ FoundGen \in DOMAIN disk /\ disk[FoundGen].complete
         /\ FoundGen \in Gen /\ FoundGen \in 0..MaxGen
         /\ disk[FoundGen].counter \in 0..MaxSeg
         /\ ListOK(disk[FoundGen].infos, disk[FoundGen].counter)
PROOF
<1>1. D!Readable(FoundGen)
  BY DEF FoundGen
<1>2. FoundGen \in DOMAIN disk /\ disk[FoundGen].complete
  BY <1>1 DEF D!Readable
<1>3. FoundGen \in Gen
  BY <1>2 DEF IInv, DiskOK
<1>4. FoundGen \in 0..MaxGen
  BY <1>3, BoundsAssumption DEF Gen
<1>5. disk[FoundGen] \in DiskSegments /\ ListOK(disk[FoundGen].infos, disk[FoundGen].counter)
  BY <1>2 DEF IInv, DiskOK
<1> QED
  BY <1>2, <1>3, <1>4, <1>5 DEF DiskSegments

\* What goes on beside the operation that holds the monitor.
LEMMA Beside ==
  ASSUME IInv, UNCHANGED <<infos, rollback, disk, gen, op>>, counter <= counter',
         buf'.seg \in {None, buf.seg} \/ buf'.seg = counter,
         LiveDocs(infos) \cap buf'.docs = {},
         Undoing => LiveDocs(op.undo) \cap buf'.docs = {},
         Calmer(merge', merge),
         OpFits(op, merge', buf'.store), BufOK', MergeOK', StartOK', RestOK'
  PROVE  IInv'
PROOF
<1>1. HeadOf(op'.todo) = "finish" => At("finish")
  BY Heads DEF At
<1>2. Undoes(op') => /\ Undoing /\ op'.undo = op.undo
                     /\ LiveDocs(op.undo) \cap buf'.docs = {}
  BY DEF Undoing
<1>3. OpOK'
  BY DEF OpOK
<1> QED
  BY <1>1, <1>2, <1>3, Kept

\* Nor does it touch the buffer or a merge.
LEMMA BesideQuietly ==
  ASSUME IInv, UNCHANGED <<infos, rollback, disk, gen, op, counter, buf, merge>>, RestOK',
         StartOK'
  PROVE  IInv'
PROOF
<1>1. BufOK' /\ MergeOK'
  BY DEF IInv, BufOK, MergeOK
<1>2. OpFits(op, merge, buf.store) /\ LiveDocs(infos) \cap buf.docs = {} /\ Calmer(merge, merge)
  BY DEF IInv, OpOK, InfosOK, Calmer
<1>3. counter <= counter'
  BY Types
<1>4. OpFits(op, merge', buf'.store) /\ LiveDocs(infos) \cap buf'.docs = {} /\ Calmer(merge', merge)
  BY <1>2
<1>5. Undoing => LiveDocs(op.undo) \cap buf'.docs = {}
  BY DEF IInv, UndoOK
<1> QED
  BY <1>1, <1>3, <1>4, <1>5, Beside

LEMMA ReaderInv ==
  ASSUME IInv, OpenReader \/ CloseReader
  PROVE  IInv'
PROOF
<1>1. UNCHANGED <<infos, rollback, disk, gen, op, counter, buf, merge, dir, status, autoCommit,
                  lastGen, commitPending, faults, deletable>>
  BY DEF OpenReader, CloseReader, si, deleter
<1>2. pinned' \subseteq File
  <2>1. CASE OpenReader
    <3>1. FoundGen # 0 /\ pinned' = FilesIn(disk[FoundGen].infos)
      BY <2>1 DEF OpenReader
    <3>2. PICK dis : dis = disk[FoundGen].infos
      OBVIOUS
    <3>3. ListOK(dis, disk[FoundGen].counter)
      BY <3>1, <3>2, Found
    <3> QED
      BY <3>1, <3>2, <3>3, FilesAreFiles
  <2>2. CASE CloseReader
    BY <2>2 DEF CloseReader
  <2> QED
    BY <2>1, <2>2
<1>3. RestOK'
  BY <1>1, <1>2 DEF IInv, RestOK
<1>4. StartOK'
  BY <1>1 DEF IInv, StartOK
<1> QED
  BY <1>1, <1>3, <1>4, BesideQuietly

LEMMA AbortInv ==
  ASSUME IInv, Abort
  PROVE  IInv'
PROOF
<1>1. UNCHANGED <<infos, rollback, disk, gen, op, counter, buf, merge, dir, pinned, autoCommit,
                  lastGen, commitPending, faults, deletable>> /\ status' = "aborting"
  BY DEF Abort, si, deleter, store
<1>2. RestOK'
  BY <1>1 DEF IInv, RestOK
<1>3. StartOK'
  BY <1>1 DEF StartOK, StartShape
<1> QED
  BY <1>1, <1>2, <1>3, BesideQuietly

LEMMA StopMergesInv ==
  ASSUME IInv, StopMerges
  PROVE  IInv'
PROOF
<1>1. /\ UNCHANGED <<infos, rollback, disk, gen, op, counter, buf, dir, pinned, autoCommit,
                     lastGen, commitPending, faults, deletable, status>>
      /\ status \notin {"closed", "opening"}
      /\ merge' = [merge EXCEPT !.aborted = TRUE]
  BY DEF StopMerges, si, deleter, store
<1>2. MergeShape(merge, counter, buf.seg)
  BY DEF IInv, MergeOK
<1>3. PICK m2 : m2 = merge'
  OBVIOUS
<1>4. m2.stage = merge.stage /\ m2.clone = merge.clone /\ m2.out = merge.out
      /\ m2 \in [stage : Stages, clone : Seq(SegmentInfos),
                 out : IF m2.stage \in {"none", "init"} THEN {None} ELSE SegmentInfos,
                 stores : BOOLEAN, aborted : BOOLEAN]
  BY <1>1, <1>2, <1>3 DEF MergeShape
<1>5. MergeShape(m2, counter, buf.seg)
  BY <1>2, <1>4 DEF MergeShape
<1>6. MergeOK' /\ BufOK'
  BY <1>1, <1>3, <1>5 DEF IInv, MergeOK, BufOK
<1>7. Calmer(m2, merge)
  BY <1>4 DEF Calmer
<1>8. OpFits(op, m2, buf.store)
  BY <1>4 DEF IInv, OpOK, OpFits
<1>9. StartOK' /\ RestOK'
  BY <1>1 DEF IInv, StartOK, StartShape, RestOK
<1>10. LiveDocs(infos) \cap buf'.docs = {} /\ counter <= counter'
  BY <1>1, Types DEF IInv, InfosOK
<1>11. OpFits(op, merge', buf'.store) /\ Calmer(merge', merge)
  BY <1>1, <1>3, <1>7, <1>8
<1>12. Undoing => LiveDocs(op.undo) \cap buf'.docs = {}
  BY <1>1 DEF IInv, UndoOK
<1> QED
  BY <1>1, <1>6, <1>9, <1>10, <1>11, <1>12, Beside

-----------------------------------------------------------------------------
(* Buffering.                                                              *)

\* The names the next document goes to.
LEMMA Buffers ==
  ASSUME IInv, NEW d, Buffering(d)
  PROVE  /\ BufSegment \in Name /\ BufSegment = (IF buf.seg = None THEN counter ELSE buf.seg)
         /\ BufStore \in Name
         /\ counter' \in 0..MaxSeg /\ counter <= counter' /\ BufSegment < counter'
         /\ commitPending' \in BOOLEAN
         /\ dir' \subseteq File
PROOF
<1>1. /\ buf.seg \in Name \cup {None} /\ buf.store \in Name \cup {None} /\ buf.seg < counter
      /\ counter \in Nat /\ MaxSeg \in Nat /\ counter \in 0..MaxSeg /\ None \notin Name
  BY Types DEF IInv, BufOK, BufShape, None, Name
<1>2. /\ BufSegment = (IF buf.seg = None THEN counter ELSE buf.seg)
      /\ BufStore = (IF buf.store = None THEN BufSegment ELSE buf.store)
      /\ BufSegment < MaxSeg
      /\ counter' = (IF buf.seg = None THEN counter + 1 ELSE counter)
      /\ commitPending' = (commitPending \/ buf.seg = None)
      /\ dir' = dir \cup {Store(BufStore)}
  BY DEF Buffering, BufSegment, BufStore, NewSegmentName
<1>3. PICK bs : bs = BufSegment
  OBVIOUS
<1>4. bs \in Name /\ counter' \in 0..MaxSeg /\ counter <= counter' /\ bs < counter'
  BY <1>1, <1>2, <1>3 DEF Name
<1>5. BufStore \in Name
  BY <1>1, <1>2, <1>3, <1>4
<1>6. Store(BufStore) \in File
  BY <1>5 DEF Store, File
<1>7. commitPending' \in BOOLEAN
  BY <1>2 DEF IInv, RestOK
<1>8. dir' \subseteq File
  BY <1>2, <1>6 DEF IInv, RestOK
<1> QED
  BY <1>2, <1>3, <1>4, <1>5, <1>7, <1>8

LEMMA MergeStill ==
  ASSUME NEW m, NEW n \in Nat, NEW seg, MergeShape(m, n, seg), NEW n2 \in Nat, n <= n2,
         NEW seg2, seg2 \in {None, seg} \/ seg2 = n
  PROVE  MergeShape(m, n2, seg2)
PROOF
<1>1. CASE m.stage \in {"running", "built"}
  <2>1. m.out \in SegmentInfos /\ m.out.name < n /\ m.out.name # seg
    BY <1>1 DEF MergeShape
  <2>2. m.out.name \in Nat
    BY <2>1 DEF SegmentInfos, Name
  <2>3. m.out.name < n2 /\ m.out.name # seg2
    BY <2>1, <2>2 DEF None
  <2> QED
    BY <2>3 DEF MergeShape
<1>2. CASE m.stage \notin {"running", "built"}
  BY <1>2 DEF MergeShape
<1> QED
  BY <1>1, <1>2

LEMMA NoBuf ==
  ASSUME NEW n \in Nat, NEW c \in BOOLEAN
  PROVE  BufShape([EmptyBuf EXCEPT !.closed = c], n) /\ BufShape(EmptyBuf, n)
PROOF
  BY DEF BufShape, EmptyBuf, None

LEMMA AddDocInv ==
  ASSUME IInv, NEW d \in Doc, AddDoc(d)
  PROVE  IInv'
PROOF
<1>1. Buffering(d)
  BY DEF AddDoc
<1>2. PICK bs : bs = BufSegment
  OBVIOUS
<1>3. PICK st : st = BufStore
  OBVIOUS
<1>4. PICK n2 : n2 = counter'
  OBVIOUS
<1>5. /\ bs \in Name /\ bs = (IF buf.seg = None THEN counter ELSE buf.seg) /\ st \in Name
      /\ n2 \in 0..MaxSeg /\ counter <= n2 /\ bs < n2
      /\ commitPending' \in BOOLEAN /\ dir' \subseteq File
  BY <1>1, <1>2, <1>3, <1>4, Buffers
<1>6. n2 \in Nat /\ counter \in Nat
  BY <1>5, Types
<1>7. /\ UNCHANGED <<infos, rollback, disk, gen, op, pinned, autoCommit, lastGen, faults,
                     deletable, status, merge>>
      /\ buf' = [buf EXCEPT !.docs = @ \cup {d}, !.seg = bs, !.store = st]
  BY <1>2, <1>3 DEF AddDoc, deleter
<1>8. PICK b2 : b2 = buf'
  OBVIOUS
<1>9. BufShape(buf, counter)
  BY DEF IInv, BufOK
<1>10. /\ b2 \in [docs : SUBSET Doc, dels : SUBSET Doc, seg : Name \cup {None},
                  store : Name \cup {None}, closed : BOOLEAN]
       /\ b2.docs = buf.docs \cup {d} /\ b2.seg = bs /\ b2.store = st
  BY <1>5, <1>7, <1>8, <1>9 DEF BufShape
<1>11. bs # None
  BY <1>5 DEF Name, None
<1>12. BufShape(b2, n2)
  BY <1>5, <1>10, <1>11 DEF BufShape
<1>13. bs \in {None, buf.seg} \/ bs = counter
  BY <1>5
<1>14. MergeShape(merge, n2, bs)
  BY <1>5, <1>6, <1>13, MergeStill DEF IInv, MergeOK
<1>15. BufOK' /\ MergeOK'
  BY <1>4, <1>7, <1>8, <1>10, <1>12, <1>14 DEF BufOK, MergeOK
<1>16. LiveDocs(infos) \cap b2.docs = {}
  <2>1. \A i \in DOMAIN infos : d \notin infos[i].docs
    BY <1>1 DEF Buffering
  <2>2. d \notin LiveDocs(infos)
    BY <2>1 DEF LiveDocs, Live
  <2> QED
    BY <2>2, <1>10 DEF IInv, InfosOK
<1>17. OpFits(op, merge, b2.store) /\ Calmer(merge, merge)
  <2>1. st # None
    BY <1>5 DEF Name, None
  <2> QED
    BY <2>1, <1>10 DEF IInv, OpOK, OpFits, Calmer
<1>18. status \notin {"closed", "opening"}
  BY <1>1 DEF Buffering, InUse
<1>19. StartOK'
  BY <1>7, <1>18 DEF StartOK, StartShape
<1>20. RestOK'
  BY <1>4, <1>5, <1>7 DEF IInv, RestOK
<1>21. counter <= counter' /\ (buf'.seg \in {None, buf.seg} \/ buf'.seg = counter)
  BY <1>4, <1>5, <1>8, <1>10, <1>13
<1>22. LiveDocs(infos) \cap buf'.docs = {} /\ Calmer(merge', merge) /\ OpFits(op, merge', buf'.store)
  BY <1>7, <1>8, <1>16, <1>17
<1>23. Undoing => LiveDocs(op.undo) \cap buf'.docs = {}
  <2>1. d \notin AllDocs(infos)
    BY <1>1 DEF Buffering, AllDocs
  <2> QED
    BY <2>1, <1>8, <1>10 DEF IInv, UndoOK
<1> QED
  BY <1>7, <1>15, <1>19, <1>20, <1>21, <1>22, <1>23, Beside

LEMMA DeleteDocInv ==
  ASSUME IInv, NEW d \in Doc, DeleteDoc(d)
  PROVE  IInv'
PROOF
<1>1. /\ UNCHANGED <<infos, rollback, disk, gen, op, pinned, autoCommit, lastGen, faults, dir,
                     deletable, status, merge, counter, commitPending>>
      /\ buf' = [buf EXCEPT !.dels = @ \cup {d}]
      /\ status \notin {"closed", "opening"}
  BY DEF DeleteDoc, InUse, deleter, si, store
<1>2. PICK b2 : b2 = buf'
  OBVIOUS
<1>3. BufShape(buf, counter)
  BY DEF IInv, BufOK
<1>4. /\ b2 \in [docs : SUBSET Doc, dels : SUBSET Doc, seg : Name \cup {None},
                 store : Name \cup {None}, closed : BOOLEAN]
      /\ b2.docs = buf.docs /\ b2.seg = buf.seg /\ b2.store = buf.store
  BY <1>1, <1>2, <1>3 DEF BufShape
<1>5. BufShape(b2, counter)
  BY <1>3, <1>4 DEF BufShape
<1>6. BufOK' /\ MergeOK'
  BY <1>1, <1>2, <1>4, <1>5 DEF IInv, BufOK, MergeOK
<1>7. OpFits(op, merge, b2.store) /\ LiveDocs(infos) \cap b2.docs = {} /\ Calmer(merge, merge)
  BY <1>4 DEF IInv, OpOK, InfosOK, Calmer
<1>8. StartOK' /\ RestOK'
  BY <1>1 DEF IInv, StartOK, StartShape, RestOK
<1>9. counter <= counter' /\ (buf'.seg \in {None, buf.seg} \/ buf'.seg = counter)
  BY <1>1, <1>2, <1>4, Types
<1>10. LiveDocs(infos) \cap buf'.docs = {} /\ Calmer(merge', merge) /\ OpFits(op, merge', buf'.store)
  BY <1>1, <1>2, <1>7
<1>11. Undoing => LiveDocs(op.undo) \cap buf'.docs = {}
  BY <1>2, <1>4 DEF IInv, UndoOK
<1> QED
  BY <1>1, <1>6, <1>8, <1>9, <1>10, <1>11, Beside

-----------------------------------------------------------------------------
(* The scripts of the operations.                                          *)

LEMMA CommitScript ==
  /\ Script(CommitSteps) /\ CommitSteps # <<>>
  /\ Names(CommitSteps) \subseteq {"write", "ckpt"}
  /\ HeadOf(CommitSteps) # "finish"
PROOF
<1>1. <<"write">> \in Step /\ <<"ckpt", TRUE>> \in Step /\ <<"ckpt", FALSE>> \in Step
  BY DEF Step
<1>2. CASE autoCommit
  <2>1. PICK a, b : a = <<"write">> /\ b = <<"ckpt", TRUE>>
    OBVIOUS
  <2>2. CommitSteps = <<a, b>>
    BY <1>2, <2>1 DEF CommitSteps
  <2>3. <<a, b>> \in Seq(Step) /\ Names(<<a, b>>) = {"write", "ckpt"}
    BY <1>1, <2>1, Literals
  <2>4. DOMAIN <<a, b>> = {1, 2} /\ <<a, b>>[1] = a /\ <<a, b>>[2] = b /\ Len(<<a, b>>) = 2
    OBVIOUS
  <2>5. Script(<<a, b>>)
    BY <2>1, <2>3, <2>4 DEF Script
  <2>6. HeadOf(<<a, b>>) = "write"
    BY <2>1, <2>3, <2>4, HeadName
  <2> QED
    BY <2>2, <2>3, <2>5, <2>6
<1>3. CASE ~autoCommit
  <2>1. PICK a : a = <<"ckpt", FALSE>>
    OBVIOUS
  <2>2. CommitSteps = <<a>>
    BY <1>3, <2>1 DEF CommitSteps
  <2>3. <<a>> \in Seq(Step) /\ Names(<<a>>) = {"ckpt"} /\ Script(<<a>>)
    BY <1>1, <2>1, Literals, OneStep
  <2>4. HeadOf(<<a>>) = "ckpt"
    BY <2>1, <2>3, HeadName
  <2> QED
    BY <2>2, <2>3, <2>4
<1> QED
  BY <1>2, <1>3

LEMMA FlushScript ==
  ASSUME IInv, NEW fds \in BOOLEAN
  PROVE  /\ Script(FlushSteps(fds)) /\ FlushSteps(fds) # <<>>
         /\ Names(FlushSteps(fds)) \subseteq {"stores", "ckpt", "segment"}
         /\ HeadOf(FlushSteps(fds)) = "stores" => buf.store # None
PROOF
<1>1. buf.store \in Name \cup {None}
  BY DEF IInv, BufOK, BufShape
<1>2. PICK f1 : f1 = ((fds \/ autoCommit) /\ buf.store # None)
  OBVIOUS
<1>3. f1 \in BOOLEAN /\ UseCompound \in BOOLEAN
  BY <1>2, FlagsAssumption DEF IInv, RestOK
<1>4. PICK se, sf : se = <<"segment", f1, buf.store, FALSE>>
                    /\ sf = <<"segment", FALSE, buf.store, UseCompound>>
  OBVIOUS
<1>5. PICK a, b : a = <<"stores">> /\ b = <<"ckpt", FALSE>>
  OBVIOUS
<1>6. a \in Step /\ b \in Step /\ se \in Step /\ sf \in Step
      /\ a[1] = "stores" /\ b[1] = "ckpt" /\ se[1] = "segment" /\ sf[1] = "segment"
  BY <1>1, <1>3, <1>4, <1>5 DEF Step
<1>7. PICK c : c = IF UseCompound THEN <<b>> ELSE <<>>
  OBVIOUS
<1>8. /\ Script(<<a>>) /\ Script(<<se>>) /\ Script(<<sf>>)
      /\ Names(<<a>>) = {"stores"} /\ Names(<<se>>) = {"segment"} /\ Names(<<sf>>) = {"segment"}
  BY <1>6, OneStep, Literals
<1>9. Script(c) /\ Names(c) \subseteq {"ckpt"}
  <2>1. Script(<<b>>) /\ Names(<<b>>) = {"ckpt"}
    BY <1>6, OneStep, Literals
  <2>2. Script(<<>>) /\ Names(<<>>) = {}
    BY Literals, PlainScript
  <2> QED
    BY <2>1, <2>2, <1>7
<1>10. PICK h : h = <<a>> \o c
  OBVIOUS
<1>11. Script(h) /\ Names(h) = {"stores"} \cup Names(c)
  <2>1. PICK q : q = <<a>>
    OBVIOUS
  <2>2. Script(q) /\ Names(q) = {"stores"}
    BY <1>8, <2>1
  <2>3. Script(q \o c) /\ Names(q \o c) = Names(q) \cup Names(c)
    BY <2>2, <1>9, Followed DEF Firsts
  <2> QED
    BY <2>1, <2>2, <2>3, <1>10
<1>12. PICK r : r = h \o <<sf>>
  OBVIOUS
<1>13. Script(r) /\ Names(r) \subseteq {"stores", "ckpt", "segment"}
  <2>1. PICK q : q = <<sf>>
    OBVIOUS
  <2>2. Script(q) /\ Names(q) = {"segment"}
    BY <1>8, <2>1
  <2>3. Script(h \o q) /\ Names(h \o q) = Names(h) \cup Names(q)
    BY <2>2, <1>9, <1>11, Followed DEF Firsts
  <2> QED
    BY <2>1, <2>2, <2>3, <1>9, <1>11, <1>12
<1>14. r # <<>>
  <2>1. <<a>> \in Seq(Step) /\ c \in Seq(Step) /\ <<sf>> \in Seq(Step) /\ Len(<<sf>>) = 1
    BY <1>8, <1>9 DEF Script
  <2>2. h \in Seq(Step)
    BY <1>11 DEF Script
  <2>3. Len(r) = Len(h) + 1 /\ Len(h) \in Nat
    BY <2>1, <2>2, <1>12, ConcatProperties
  <2>4. Len(r) > 0
    BY <2>3
  <2> QED
    BY <2>4, EmptySeq
<1>15. CASE f1 /\ (buf.docs = {} \/ buf.seg # buf.store)
  <2>1. FlushSteps(fds) = r
    BY <1>15, <1>2, <1>4, <1>5, <1>7, <1>10, <1>12 DEF FlushSteps
  <2> QED
    BY <2>1, <1>13, <1>14, <1>15, <1>2
<1>16. CASE ~(f1 /\ (buf.docs = {} \/ buf.seg # buf.store))
  <2>1. FlushSteps(fds) = <<se>>
    BY <1>16, <1>2, <1>4 DEF FlushSteps
  <2>2. <<se>> # <<>> /\ HeadOf(<<se>>) = "segment"
    BY <1>6, HeadName, Literals
  <2> QED
    BY <2>1, <2>2, <1>8
<1> QED
  BY <1>15, <1>16

\* The steps that end a merge.
LEMMA EndScripts ==
  ASSUME NEW n \in Name, NEW fs \in SUBSET File, NEW x \in {"none", "committed"}
  PROVE  /\ Script(Drop(n)) /\ Names(Drop(n)) = {"refresh", "release", "merged"}
         /\ LET s == <<<<"release">>, <<"merged", x>>>>
            IN  Script(s) /\ Names(s) = {"release", "merged"}
         /\ LET s == <<<<"release">>, <<"refresh", n>>, <<"merged", x>>>>
            IN  Script(s) /\ Names(s) = {"release", "refresh", "merged"}
         /\ Script(<<<<"merged", x>>>>) /\ Names(<<<<"merged", x>>>>) = {"merged"}
         /\ Script(<<<<"throw", "merge">>>>) /\ Names(<<<<"throw", "merge">>>>) = {"throw"}
         /\ Script(<<<<"throw", "caller">>>>) /\ Names(<<<<"throw", "caller">>>>) = {"throw"}
         /\ Script(<<<<"partial">>>>) /\ Names(<<<<"partial">>>>) = {"partial"}
         /\ Script(<<<<"delete", fs>>>>) /\ Names(<<<<"delete", fs>>>>) = {"delete"}
         /\ LET s == <<<<"partial">>, <<"delete", fs>>>>
            IN  Script(s) /\ Names(s) = {"partial", "delete"}
         /\ LET s == <<<<"delete", fs>>, <<"merged", x>>, <<"throw", "merge">>>>
            IN  Script(s) /\ Names(s) = {"delete", "merged", "throw"}
         /\ Script(<<>>) /\ Names(<<>>) = {}
PROOF
<1>1. PICK re, rl, mg, th, tc, pa, de :
          /\ re = <<"refresh", n>> /\ rl = <<"release">> /\ mg = <<"merged", x>>
          /\ th = <<"throw", "merge">> /\ tc = <<"throw", "caller">> /\ pa = <<"partial">>
          /\ de = <<"delete", fs>>
  OBVIOUS
<1>2. /\ re \in Step /\ rl \in Step /\ mg \in Step /\ th \in Step /\ tc \in Step /\ pa \in Step
      /\ de \in Step
  BY <1>1 DEF Step
<1>3. /\ re[1] = "refresh" /\ rl[1] = "release" /\ mg[1] = "merged" /\ th[1] = "throw"
      /\ tc[1] = "throw" /\ pa[1] = "partial" /\ de[1] = "delete"
  BY <1>1
<1>4. /\ Script(<<mg>>) /\ Script(<<th>>) /\ Script(<<tc>>) /\ Script(<<pa>>) /\ Script(<<de>>)
      /\ Names(<<mg>>) = {"merged"} /\ Names(<<th>>) = {"throw"} /\ Names(<<tc>>) = {"throw"}
      /\ Names(<<pa>>) = {"partial"} /\ Names(<<de>>) = {"delete"}
  BY <1>2, <1>3, OneStep, Literals
<1>5. Script(<<rl, mg>>) /\ Names(<<rl, mg>>) = {"release", "merged"}
  <2>1. <<rl, mg>> \in Seq(Step) /\ Names(<<rl, mg>>) = {"release", "merged"}
    BY <1>2, <1>3, Literals
  <2>2. DOMAIN <<rl, mg>> = {1, 2} /\ <<rl, mg>>[1] = rl /\ <<rl, mg>>[2] = mg
    OBVIOUS
  <2> QED
    BY <2>1, <2>2, <1>3 DEF Script
<1>6. Script(<<rl, re, mg>>) /\ Names(<<rl, re, mg>>) = {"release", "refresh", "merged"}
  <2>1. <<rl, re, mg>> \in Seq(Step) /\ Names(<<rl, re, mg>>) = {"release", "refresh", "merged"}
    BY <1>2, <1>3, Literals
  <2>2. DOMAIN <<rl, re, mg>> = {1, 2, 3} /\ <<rl, re, mg>>[1] = rl /\ <<rl, re, mg>>[2] = re
        /\ <<rl, re, mg>>[3] = mg
    OBVIOUS
  <2> QED
    BY <2>1, <2>2, <1>3 DEF Script
<1>7. Script(<<pa, de>>) /\ Names(<<pa, de>>) = {"partial", "delete"}
  <2>1. <<pa, de>> \in Seq(Step) /\ Names(<<pa, de>>) = {"partial", "delete"}
    BY <1>2, <1>3, Literals
  <2> QED
    BY <2>1, PlainScript DEF Firsts
<1>8. Script(<<de, mg, th>>) /\ Names(<<de, mg, th>>) = {"delete", "merged", "throw"}
  <2>1. <<de, mg, th>> \in Seq(Step) /\ Names(<<de, mg, th>>) = {"delete", "merged", "throw"}
    BY <1>2, <1>3, Literals
  <2>2. DOMAIN <<de, mg, th>> = {1, 2, 3} /\ <<de, mg, th>>[1] = de /\ <<de, mg, th>>[2] = mg
        /\ <<de, mg, th>>[3] = th
    OBVIOUS
  <2> QED
    BY <2>1, <2>2, <1>3 DEF Script
<1>9. Script(Drop(n)) /\ Names(Drop(n)) = {"refresh", "release", "merged"}
  <2>1. PICK mn : mn = <<"merged", "none">>
    OBVIOUS
  <2>2. mn \in Step /\ mn[1] = "merged"
    BY <2>1 DEF Step
  <2>3. Drop(n) = <<re, rl, re, mn>>
    BY <1>1, <2>1 DEF Drop
  <2>4. <<re, rl, re, mn>> \in Seq(Step)
        /\ Names(<<re, rl, re, mn>>) = {"refresh", "release", "merged"}
    BY <1>2, <1>3, <2>2, Literals
  <2>5. DOMAIN <<re, rl, re, mn>> = {1, 2, 3, 4} /\ <<re, rl, re, mn>>[1] = re
        /\ <<re, rl, re, mn>>[2] = rl /\ <<re, rl, re, mn>>[3] = re /\ <<re, rl, re, mn>>[4] = mn
    OBVIOUS
  <2>6. Script(<<re, rl, re, mn>>)
    BY <2>2, <2>4, <2>5, <1>3 DEF Script
  <2> QED
    BY <2>3, <2>4, <2>6
<1>10. Script(<<>>) /\ Names(<<>>) = {}
  BY Literals, PlainScript
<1> QED
  BY <1>1, <1>4, <1>5, <1>6, <1>7, <1>8, <1>9, <1>10

-----------------------------------------------------------------------------
(* Operations that begin.                                                  *)

LEMMA Called ==
  ASSUME IInv, rollback' = rollback, disk' = disk, gen' = gen, infos' = infos,
         counter <= counter',
         buf'.seg \in {None, buf.seg} \/ buf'.seg = counter,
         LiveDocs(infos) \cap buf'.docs = {},
         Calmer(merge', merge),
         NEW steps, NEW p \in BOOLEAN, Begin(steps, p),
         Script(steps), Names(steps) \cap {"write", "finish"} = {},
         "bind" \in Names(steps) => merge'.stage = "init",
         "merged" \in Names(steps) => merge'.stage \in {"ending", "compound"},
         HeadOf(steps) = "stores" => buf'.store # None,
         BufOK', MergeOK', RestOK', status' \notin {"closed", "opening"}
  PROVE  IInv'
PROOF
<1>1. PICK o2 : o2 = op'
  OBVIOUS
<1>2. o2 = [todo |-> steps, undo |-> infos, onFail |-> <<>>, pausing |-> p]
  BY <1>1 DEF Begin
<1>3. infos \in Seq(SegmentInfos)
  BY Types
<1>4. /\ OpShape(o2) /\ o2.todo = steps /\ o2.onFail = <<>>
      /\ ~Undoes(o2) /\ HeadOf(o2.todo) # "finish"
  BY <1>2, <1>3, Begun
<1>5. OpOK'
  BY <1>1, <1>4 DEF OpOK, OpFits
<1>6. StartOK'
  BY DEF StartOK, StartShape
<1> QED
  BY <1>1, <1>4, <1>5, <1>6, Kept

\* A merge passes on, and its sources are of no interest any more.
LEMMA Ending ==
  ASSUME NEW m, NEW n, NEW seg, MergeShape(m, n, seg), m.stage \notin {"none", "init"},
         NEW x \in {"ending", "committed", "compound"},
         NEW m2, m2 = [m EXCEPT !.stage = x]
  PROVE  MergeShape(m2, n, seg) /\ Calmer(m2, m) /\ m2.stage = x
PROOF
<1>1. m \in [stage : Stages, clone : Seq(SegmentInfos), out : SegmentInfos,
             stores : BOOLEAN, aborted : BOOLEAN]
  BY DEF MergeShape
<1>2. m2 \in [stage : Stages, clone : Seq(SegmentInfos), out : SegmentInfos,
              stores : BOOLEAN, aborted : BOOLEAN] /\ m2.stage = x
  BY <1>1 DEF Stages
<1> QED
  BY <1>2 DEF MergeShape, Calmer

\* While a merge is on, the writer is there.
LEMMA Merging ==
  ASSUME IInv, merge.stage # "none"
  PROVE  status \notin {"closed", "opening"}
PROOF
  BY DEF IInv, StartOK, StartShape, NoMerge

LEMMA MergedName ==
  ASSUME IInv, merge.stage \notin {"none", "init"}
  PROVE  merge.out \in SegmentInfos /\ merge.out.name \in Name
PROOF
  BY DEF IInv, MergeOK, MergeShape, SegmentInfos

\* A merge ends: what is left of it is dropped.
LEMMA MergeEnds ==
  ASSUME IInv, merge.stage \notin {"none", "init"}, merge' = [merge EXCEPT !.stage = "ending"],
         NEW steps, Script(steps), Names(steps) \cap {"write", "finish", "stores", "bind"} = {},
         Begin(steps, FALSE),
         UNCHANGED <<disk, pinned, deletable, status, autoCommit, si, rollback, buf>>,
         dir' \subseteq File, faults' \in 0..MaxFaults
  PROVE  IInv'
PROOF
<1>1. UNCHANGED <<infos, gen, lastGen, counter, commitPending>>
  BY DEF si
<1>2. status \notin {"closed", "opening"}
  BY Merging
<1>3. PICK m2 : m2 = merge'
  OBVIOUS
<1>4. MergeShape(m2, counter, buf.seg) /\ Calmer(m2, merge) /\ m2.stage = "ending"
  BY <1>3, Ending DEF IInv, MergeOK
<1>5. BufOK' /\ MergeOK' /\ RestOK'
  BY <1>1, <1>3, <1>4 DEF IInv, BufOK, MergeOK, RestOK
<1>6. HeadOf(steps) # "stores"
  BY HeadName DEF Script
<1>7. LiveDocs(infos) \cap buf'.docs = {} /\ Calmer(merge', merge) /\ counter <= counter'
  BY <1>1, <1>3, <1>4, Types DEF IInv, InfosOK
<1>8. "bind" \notin Names(steps) /\ merge'.stage = "ending"
  BY <1>3, <1>4
<1> QED
  BY <1>1, <1>2, <1>5, <1>6, <1>7, <1>8, Called

LEMMA MergeFailsInv ==
  ASSUME IInv, MergeFails
  PROVE  IInv'
PROOF
<1>1. merge.stage = "running" /\ merge' = [merge EXCEPT !.stage = "ending"]
  BY DEF MergeFails
<1>2. PICK n : n = merge.out.name
  OBVIOUS
<1>3. n \in Name
  BY <1>1, <1>2, MergedName
<1>4. PICK t : t = IF merge.aborted THEN <<>> ELSE <<<<"throw", "merge">>>>
  OBVIOUS
<1>5. Script(t) /\ Names(t) \subseteq {"throw"}
  <2>1. "none" \in {"none", "committed"} /\ {} \in SUBSET File
    OBVIOUS
  <2> QED
    BY <2>1, <1>3, <1>4, EndScripts
<1>6. Script(Drop(n)) /\ Names(Drop(n)) = {"refresh", "release", "merged"}
  <2>1. "none" \in {"none", "committed"} /\ {} \in SUBSET File
    OBVIOUS
  <2> QED
    BY <2>1, <1>3, EndScripts
<1>7. PICK s : s = Drop(n) \o t
  OBVIOUS
<1>8. Script(s) /\ Names(s) \subseteq {"refresh", "release", "merged", "throw"}
  <2>1. PICK q : q = Drop(n)
    OBVIOUS
  <2>2. Script(q \o t) /\ Names(q \o t) = Names(q) \cup Names(t)
    BY <2>1, <1>5, <1>6, Followed DEF Firsts
  <2> QED
    BY <2>1, <2>2, <1>5, <1>6, <1>7
<1>9. Begin(s, FALSE)
  BY <1>2, <1>4, <1>7 DEF MergeFails
<1>10. Core(n) \in File
  BY <1>3 DEF Core, File
<1>11. dir' \subseteq File
  BY <1>2, <1>10 DEF MergeFails, IInv, RestOK
<1>12. faults' \in 0..MaxFaults
  BY Types DEF MergeFails, IInv, RestOK
<1>13. UNCHANGED <<disk, pinned, deletable, status, autoCommit, si, rollback, buf>>
  BY DEF MergeFails, deleter
<1> QED
  BY <1>1, <1>8, <1>9, <1>11, <1>12, <1>13, MergeEnds

LEMMA CommitMergeAbortedInv ==
  ASSUME IInv, CommitMergeAborted
  PROVE  IInv'
PROOF
<1>1. merge.stage = "built" /\ merge' = [merge EXCEPT !.stage = "ending"]
  BY DEF CommitMergeAborted
<1>2. PICK n : n = merge.out.name
  OBVIOUS
<1>3. n \in Name
  BY <1>1, <1>2, MergedName
<1>4. PICK s : s = <<<<"release">>, <<"refresh", n>>, <<"merged", "none">>>>
  OBVIOUS
<1>5. Script(s) /\ Names(s) = {"release", "refresh", "merged"}
  <2>1. "none" \in {"none", "committed"} /\ {} \in SUBSET File
    OBVIOUS
  <2> QED
    BY <2>1, <1>3, <1>4, EndScripts
<1>6. Begin(s, FALSE) /\ dir' = dir /\ faults' = faults
  BY <1>2, <1>4 DEF CommitMergeAborted, store
<1>7. UNCHANGED <<disk, pinned, deletable, status, autoCommit, si, rollback, buf>>
  BY DEF CommitMergeAborted, deleter, store
<1>8. dir' \subseteq File /\ faults' \in 0..MaxFaults
  BY <1>6 DEF IInv, RestOK
<1> QED
  BY <1>1, <1>5, <1>6, <1>7, <1>8, MergeEnds

\* The sources of the merge are found among the segments, next to each other.
LEMMA Sources ==
  ASSUME IInv, merge.stage \in {"init", "running", "built"},
         NEW c1, c1 = Current(merge.clone[1].name), NEW c2, c2 = Current(merge.clone[2].name)
  PROVE  /\ c1 \in DOMAIN infos /\ c1 + 1 \in DOMAIN infos /\ c2 = c1 + 1
         /\ c2 \in DOMAIN infos
         /\ infos[c1].name = merge.clone[1].name /\ infos[c2].name = merge.clone[2].name
         /\ infos[c1].docs = merge.clone[1].docs /\ infos[c2].docs = merge.clone[2].docs
         /\ merge.clone[1].dels \subseteq infos[c1].dels
         /\ merge.clone[2].dels \subseteq infos[c2].dels
         /\ \A i \in DOMAIN infos : SegmentOK(infos[i]) /\ infos[i] \in SegmentInfos
PROOF
<1>1. Together(merge.clone, infos) /\ ListOK(infos, counter)
  BY DEF IInv, InfosOK, Fits
<1>2. PICK i \in DOMAIN infos :
        /\ i + 1 \in DOMAIN infos
        /\ \A k \in 1..2 : /\ infos[i + k - 1].name = merge.clone[k].name
                           /\ infos[i + k - 1].docs = merge.clone[k].docs
                           /\ merge.clone[k].dels \subseteq infos[i + k - 1].dels
  BY <1>1 DEF Together
<1>3. i \in Int
  BY Types
<1>4. i + 1 - 1 = i /\ i + 2 - 1 = i + 1 /\ 1 \in 1..2 /\ 2 \in 1..2
  BY <1>3
<1>5. /\ infos[i].name = merge.clone[1].name /\ infos[i + 1].name = merge.clone[2].name
      /\ infos[i].docs = merge.clone[1].docs /\ infos[i + 1].docs = merge.clone[2].docs
      /\ merge.clone[1].dels \subseteq infos[i].dels
      /\ merge.clone[2].dels \subseteq infos[i + 1].dels
  BY <1>2, <1>4
<1>6. \A j, k \in DOMAIN infos : infos[j].name = infos[k].name => j = k
  BY <1>1 DEF ListOK
<1>7. c1 = i
  BY <1>5, <1>6 DEF Current
<1>8. c2 = i + 1
  BY <1>2, <1>5, <1>6 DEF Current
<1>9. \A j \in DOMAIN infos : SegmentOK(infos[j]) /\ infos[j] \in SegmentInfos
  BY <1>1 DEF ListOK, SegmentOK
<1> QED
  BY <1>2, <1>5, <1>7, <1>8, <1>9

\* The deletes a merge carries over are of documents it merges, and the
\* documents that are left are those that are left of its sources.
LEMMA Carried ==
  ASSUME IInv, merge.stage \in {"running", "built"}
  PROVE  /\ NewDeletes \subseteq Doc /\ NewDeletes \subseteq LiveDocs(merge.clone)
         /\ LiveDocs(merge.clone) \ NewDeletes =
              Live(infos[Current(merge.clone[1].name)])
                \cup Live(infos[Current(merge.clone[2].name)])
         /\ NewDeletes # {} => 1 <= Cardinality(NewDeletes) /\ Cardinality(NewDeletes) \in Nat
         /\ NewDeletes # {} => \A n \in Name : Del(n, 1) \in File
PROOF
<1>1. PICK c1, c2 : c1 = Current(merge.clone[1].name) /\ c2 = Current(merge.clone[2].name)
  OBVIOUS
<1>2. PICK a, b, s1, s2 : /\ a = merge.clone[1] /\ b = merge.clone[2]
                          /\ s1 = infos[c1] /\ s2 = infos[c2]
  OBVIOUS
<1>3. /\ c1 \in DOMAIN infos /\ c2 \in DOMAIN infos
      /\ s1.docs = a.docs /\ s2.docs = b.docs /\ a.dels \subseteq s1.dels /\ b.dels \subseteq s2.dels
      /\ SegmentOK(s1) /\ SegmentOK(s2)
  BY <1>1, <1>2, Sources
<1>4. /\ SegmentOK(a) /\ SegmentOK(b) /\ Live(a) \cap Live(b) = {}
      /\ merge.clone \in Seq(SegmentInfos) /\ Len(merge.clone) = 2
  BY <1>2 DEF IInv, MergeOK, MergeShape
<1>5. DOMAIN merge.clone = {1, 2}
  BY <1>4
<1>6. LiveDocs(merge.clone) = Live(a) \cup Live(b)
  BY <1>2, <1>5 DEF LiveDocs
<1>7. NewDeletes = (s1.dels \ a.dels) \cup (s2.dels \ b.dels)
  BY <1>1, <1>2 DEF NewDeletes
<1>8. /\ s1.dels \subseteq s1.docs /\ s2.dels \subseteq s2.docs
      /\ s1.docs \subseteq Doc /\ s2.docs \subseteq Doc
  BY <1>3 DEF SegmentOK, SegmentInfos
<1>9. NewDeletes \subseteq Doc /\ NewDeletes \subseteq LiveDocs(merge.clone)
  BY <1>3, <1>6, <1>7, <1>8 DEF Live
<1>10. LiveDocs(merge.clone) \ NewDeletes = Live(s1) \cup Live(s2)
  BY <1>3, <1>4, <1>6, <1>7, <1>8 DEF Live
<1>11. ASSUME NewDeletes # {}
       PROVE  /\ 1 <= Cardinality(NewDeletes) /\ Cardinality(NewDeletes) \in Nat
              /\ \A n \in Name : Del(n, 1) \in File
  <2>1. IsFiniteSet(NewDeletes)
    BY <1>9, DocAssumption, FS_Subset
  <2>2. Cardinality(NewDeletes) \in Nat /\ Cardinality(NewDeletes) # 0
    BY <2>1, <1>11, FS_CardinalityType, FS_EmptySet
  <2>3. Cardinality(NewDeletes) <= Cardinality(Doc) /\ Cardinality(Doc) \in Nat
    BY <1>9, DocAssumption, FS_Subset, FS_CardinalityType
  <2>4. 1 \in 1..(2 * Cardinality(Doc))
    BY <2>2, <2>3
  <2>5. \A n \in Name : Del(n, 1) \in File
    BY <2>4 DEF Del, File
  <2> QED
    BY <2>2, <2>5
<1> QED
  BY <1>1, <1>2, <1>9, <1>10, <1>11

LEMMA MergeDeletesFailInv ==
  ASSUME IInv, MergeDeletesFail
  PROVE  IInv'
PROOF
<1>1. merge.stage = "built" /\ merge' = [merge EXCEPT !.stage = "ending"]
  BY DEF MergeDeletesFail
<1>2. PICK n : n = merge.out.name
  OBVIOUS
<1>3. n \in Name
  BY <1>1, <1>2, MergedName
<1>4. PICK t : t = <<<<"throw", "merge">>>>
  OBVIOUS
<1>5. /\ Script(t) /\ Names(t) = {"throw"}
      /\ Script(Drop(n)) /\ Names(Drop(n)) = {"refresh", "release", "merged"}
  <2>1. "none" \in {"none", "committed"} /\ {} \in SUBSET File
    OBVIOUS
  <2> QED
    BY <2>1, <1>3, <1>4, EndScripts
<1>6. PICK s : s = Drop(n) \o t
  OBVIOUS
<1>7. Script(s) /\ Names(s) \subseteq {"refresh", "release", "merged", "throw"}
  <2>1. PICK q : q = Drop(n)
    OBVIOUS
  <2>2. Script(q \o t) /\ Names(q \o t) = Names(q) \cup Names(t)
    BY <2>1, <1>5, Followed DEF Firsts
  <2> QED
    BY <2>1, <2>2, <1>5, <1>6
<1>8. Begin(s, FALSE)
  BY <1>2, <1>4, <1>6 DEF MergeDeletesFail
<1>10. Del(n, 1) \in File
  <2>1. NewDeletes # {}
    BY DEF MergeDeletesFail
  <2> QED
    BY <2>1, <1>1, <1>3, Carried
<1>11. dir' \subseteq File
  BY <1>2, <1>10 DEF MergeDeletesFail, IInv, RestOK
<1>12. faults' \in 0..MaxFaults
  BY Types DEF MergeDeletesFail, IInv, RestOK
<1>13. UNCHANGED <<disk, pinned, deletable, status, autoCommit, si, rollback, buf>>
  BY DEF MergeDeletesFail, deleter
<1> QED
  BY <1>1, <1>7, <1>8, <1>11, <1>12, <1>13, MergeEnds

LEMMA MergeCompoundFailsInv ==
  ASSUME IInv, MergeCompoundFails
  PROVE  IInv'
PROOF
<1>1. merge.stage = "committed" /\ merge' = [merge EXCEPT !.stage = "ending"]
  BY DEF MergeCompoundFails
<1>2. PICK fs : fs = {Cfs(merge.out.name)}
  OBVIOUS
<1>3. fs \subseteq File
  <2>1. merge.out.name \in Name
    BY <1>1, MergedName
  <2> QED
    BY <2>1, <1>2 DEF Cfs, File
<1>4. PICK s : s = <<<<"delete", fs>>, <<"merged", "none">>, <<"throw", "merge">>>>
  OBVIOUS
<1>5. Script(s) /\ Names(s) = {"delete", "merged", "throw"}
  <2>1. "none" \in {"none", "committed"}
    OBVIOUS
  <2>2. merge.out.name \in Name
    BY <1>1, MergedName
  <2> QED
    BY <2>1, <2>2, <1>3, <1>4, EndScripts
<1>6. Begin(s, FALSE)
  BY <1>2, <1>4 DEF MergeCompoundFails
<1>7. dir' \subseteq File
  BY <1>2, <1>3 DEF MergeCompoundFails, IInv, RestOK
<1>8. faults' \in 0..MaxFaults
  BY Types DEF MergeCompoundFails, IInv, RestOK
<1>9. UNCHANGED <<disk, pinned, deletable, status, autoCommit, si, rollback, buf>>
  BY DEF MergeCompoundFails, deleter
<1> QED
  BY <1>1, <1>5, <1>6, <1>7, <1>8, <1>9, MergeEnds

\* What the merge writes without the monitor.
LEMMA MergeWrites ==
  ASSUME IInv, merge.stage \notin {"none", "init"}, "merged" \notin Names(op.todo),
         Undoing => "merged" \notin Names(op.onFail), "bind" \notin Names(op.todo),
         UNCHANGED <<disk, pinned, deleter, status, autoCommit, si, rollback, buf, op, faults>>,
         dir' \subseteq File,
         Calmer(merge', merge), MergeShape(merge', counter, buf.seg)
  PROVE  IInv'
PROOF
<1>1. UNCHANGED <<infos, gen, lastGen, counter, commitPending, deletable>>
  BY DEF si, deleter
<1>2. status \notin {"closed", "opening"}
  BY Merging
<1>3. BufOK' /\ MergeOK' /\ RestOK' /\ StartOK'
  BY <1>1, <1>2 DEF IInv, BufOK, MergeOK, RestOK, StartOK, StartShape
<1>4. OpFits(op, merge', buf'.store)
  BY DEF IInv, OpOK, OpFits, Undoing
<1>5. LiveDocs(infos) \cap buf'.docs = {} /\ counter <= counter'
  BY <1>1, Types DEF IInv, InfosOK
<1>6. Undoing => LiveDocs(op.undo) \cap buf'.docs = {}
  BY DEF IInv, UndoOK
<1> QED
  BY <1>1, <1>3, <1>4, <1>5, <1>6, Beside

LEMMA NothingEnds ==
  ASSUME IInv, merge.stage \notin {"init", "ending", "compound"}
  PROVE  /\ "merged" \notin Names(op.todo) /\ "bind" \notin Names(op.todo)
         /\ Undoing => "merged" \notin Names(op.onFail)
PROOF
  BY DEF IInv, OpOK, OpFits, Undoing

LEMMA MergeBuildInv ==
  ASSUME IInv, MergeBuild
  PROVE  IInv'
PROOF
<1>1. /\ merge.stage = "running"
      /\ merge' = [merge EXCEPT !.stage = "built", !.out.docs = LiveDocs(merge.clone)]
  BY DEF MergeBuild
<1>2. PICK n : n = merge.out.name
  OBVIOUS
<1>3. n \in Name /\ merge.out \in SegmentInfos
  BY <1>1, <1>2, MergedName
<1>4. Core(n) \in File /\ Store(n) \in File
  BY <1>3 DEF Core, Store, File
<1>5. dir' \subseteq File
  BY <1>2, <1>4 DEF MergeBuild, IInv, RestOK
<1>6. PICK ld : ld = LiveDocs(merge.clone)
  OBVIOUS
<1>7. ld \subseteq Doc
  <2>1. merge.clone \in Seq(SegmentInfos)
    BY DEF IInv, MergeOK, MergeShape
  <2>2. \A i \in DOMAIN merge.clone : merge.clone[i].docs \subseteq Doc
    <3>1. \A i \in DOMAIN merge.clone : merge.clone[i] \in SegmentInfos
      BY <2>1
    <3> QED
      BY <3>1 DEF SegmentInfos
  <2> QED
    BY <2>2, <1>6 DEF LiveDocs, Live
<1>8. PICK m2 : m2 = merge'
  OBVIOUS
<1>9. PICK out : out = [merge.out EXCEPT !.docs = ld]
  OBVIOUS
<1>10. /\ out \in SegmentInfos /\ out.name = merge.out.name /\ out.dels = merge.out.dels
       /\ out.docs = ld
  BY <1>3, <1>7, <1>9 DEF SegmentInfos
<1>11. MergeShape(merge, counter, buf.seg)
  BY DEF IInv, MergeOK
<1>12. m2 = [merge EXCEPT !.stage = "built", !.out = out]
  <2>1. merge \in [stage : Stages, clone : Seq(SegmentInfos), out : SegmentInfos,
                   stores : BOOLEAN, aborted : BOOLEAN]
    BY <1>1, <1>11 DEF MergeShape
  <2>2. m2 = [merge EXCEPT !.stage = "built", !.out = [merge.out EXCEPT !.docs = ld]]
    BY <2>1, <1>1, <1>6, <1>8
  <2> QED
    BY <2>2, <1>9
<1>13. /\ m2 \in [stage : Stages, clone : Seq(SegmentInfos), out : SegmentInfos,
                  stores : BOOLEAN, aborted : BOOLEAN]
       /\ m2.stage = "built" /\ m2.clone = merge.clone /\ m2.out = out
  BY <1>1, <1>10, <1>11, <1>12 DEF MergeShape, Stages
<1>14. MergeShape(m2, counter, buf.seg)
  BY <1>1, <1>6, <1>10, <1>11, <1>13 DEF MergeShape
<1>15. Calmer(m2, merge)
  BY <1>1, <1>10, <1>13 DEF Calmer
<1>16. UNCHANGED <<disk, pinned, deleter, status, autoCommit, si, rollback, buf, op, faults>>
  BY DEF MergeBuild
<1>17. Calmer(merge', merge) /\ MergeShape(merge', counter, buf.seg)
  BY <1>8, <1>14, <1>15
<1> QED
  BY <1>1, <1>5, <1>16, <1>17, NothingEnds, MergeWrites

LEMMA MergeCompoundInv ==
  ASSUME IInv, MergeCompound
  PROVE  IInv'
PROOF
<1>1. merge.stage = "committed" /\ merge' = [merge EXCEPT !.stage = "compound"]
  BY DEF MergeCompound
<1>2. merge.out.name \in Name
  BY <1>1, MergedName
<1>3. Cfs(merge.out.name) \in File
  BY <1>2 DEF Cfs, File
<1>4. dir' \subseteq File
  BY <1>3 DEF MergeCompound, IInv, RestOK
<1>5. PICK m2 : m2 = merge'
  OBVIOUS
<1>6. MergeShape(m2, counter, buf.seg) /\ Calmer(m2, merge)
  BY <1>1, <1>5, Ending DEF IInv, MergeOK
<1>7. Calmer(merge', merge) /\ MergeShape(merge', counter, buf.seg)
  BY <1>5, <1>6
<1>8. UNCHANGED <<disk, pinned, deleter, status, autoCommit, si, rollback, buf, op, faults>>
  BY DEF MergeCompound
<1> QED
  BY <1>1, <1>4, <1>7, <1>8, NothingEnds, MergeWrites

\* The operation brings the merge to its next stage, or finishes it.
LEMMA MergedInv ==
  ASSUME IInv, Merged
  PROVE  IInv'
PROOF
<1>1. op.todo # <<>> /\ HeadOf(op.todo) = "merged" /\ Advance
  BY Heads DEF Merged, At
<1>2. PICK x : x = Head(op.todo)[2]
  OBVIOUS
<1>3. x \in {"none", "committed"}
  <2>1. op.todo \in Seq(Step) /\ Head(op.todo) \in Step /\ Head(op.todo)[1] = "merged"
    BY <1>1, Types DEF HeadOf
  <2>2. PICK s : s = Head(op.todo)
    OBVIOUS
  <2>3. s \in {"merged"} \X {"none", "committed"}
    BY <2>1, <2>2 DEF Step
  <2> QED
    BY <2>2, <2>3, <1>2
<1>4. "merged" \in Names(op.todo)
  BY <1>1, Types, HeadName
<1>5. merge.stage \in {"ending", "compound"}
  BY <1>4 DEF IInv, OpOK, OpFits
<1>6. PICK m2 : m2 = merge'
  OBVIOUS
<1>7. MergeShape(merge, counter, buf.seg)
  BY DEF IInv, MergeOK
<1>8. MergeShape(m2, counter, buf.seg) /\ Calmer(m2, merge)
  <2>1. CASE x = "none"
    <3>1. m2 = NoMerge
      BY <2>1, <1>2, <1>6 DEF Merged
    <3>2. NoMerge.stage = "none" /\ NoMerge \in [stage : Stages, clone : Seq(SegmentInfos),
             out : {None}, stores : BOOLEAN, aborted : BOOLEAN]
      BY DEF NoMerge, Stages
    <3> QED
      BY <3>1, <3>2 DEF MergeShape, Calmer
  <2>2. CASE x # "none"
    <3>1. m2 = [merge EXCEPT !.stage = "committed"]
      BY <2>2, <1>2, <1>3, <1>6 DEF Merged
    <3> QED
      BY <3>1, <1>5, <1>7, Ending
  <2> QED
    BY <2>1, <2>2
<1>9. op' = Going(op, Tail(op.todo))
  BY <1>1 DEF Advance, GoOn, Going
<1>10. PICK o2 : o2 = op'
  OBVIOUS
<1>11. OpShape(op) /\ OpFits(op, merge, buf.store)
  BY DEF IInv, OpOK, OpFits
<1>12. /\ OpShape(o2) /\ Names(o2.todo) \subseteq {"throw"} /\ HeadOf(o2.todo) \notin Firsts
       /\ ~Undoes(o2)
  BY <1>1, <1>9, <1>10, <1>11, Advanced, AdvancedFits
<1>13. OpFits(o2, m2, buf.store)
  BY <1>12 DEF OpFits, Firsts
<1>14. /\ UNCHANGED <<infos, rollback, disk, gen, lastGen, counter, commitPending, buf, dir, pinned,
                      deletable, status, autoCommit, faults>>
  BY DEF Merged, si, deleter, store
<1>15. status \notin {"closed", "opening"}
  BY <1>5, Merging
<1>16. BufOK' /\ MergeOK' /\ OpOK' /\ StartOK' /\ RestOK'
  BY <1>6, <1>8, <1>10, <1>13, <1>14, <1>15
  DEF IInv, BufOK, MergeOK, OpOK, StartOK, StartShape, RestOK
<1>17. LiveDocs(infos) \cap buf'.docs = {} /\ counter <= counter' /\ Calmer(merge', merge)
  BY <1>6, <1>8, <1>14, Types DEF IInv, InfosOK
<1>18. ~Undoes(op') /\ HeadOf(op'.todo) # "finish"
  BY <1>10, <1>12 DEF Firsts
<1> QED
  BY <1>14, <1>16, <1>17, <1>18, Kept

-----------------------------------------------------------------------------
(* Flushing and closing: the calls, and the failures of a flush.           *)

LEMMA WentFits ==
  ASSUME NEW o, OpShape(o), NEW steps, Script(steps), NEW m, NEW g,
         Names(steps) \cap {"write", "finish", "stores", "bind", "merged"} = {}
  PROVE  /\ OpFits(Going(o, steps), m, g) /\ ~Undoes(Going(o, steps))
         /\ HeadOf(Going(o, steps).todo) # "finish"
PROOF
<1>1. PICK r : r = Going(o, steps)
  OBVIOUS
<1>2. OpShape(r) /\ r.todo = steps
  BY <1>1, WentOn
<1>3. HeadOf(steps) \notin {"write", "finish", "stores"}
  BY HeadName DEF Script
<1>4. OpFits(r, m, g) /\ ~Undoes(r) /\ HeadOf(r.todo) # "finish"
  BY <1>2, <1>3 DEF OpFits, Undoes
<1> QED
  BY <1>1, <1>4

\* The steps of a failed flush and of a failed document.
LEMMA FailScripts ==
  ASSUME NEW n \in Name \cup {None}, NEW fs \in SUBSET File
  PROVE  /\ LET s == <<<<"partial">>, <<"ckpt", FALSE>>, <<"refresh", n>>, <<"throw", "caller">>>>
            IN  Script(s) /\ Names(s) = {"partial", "ckpt", "refresh", "throw"}
         /\ LET s == <<<<"delete", fs>>, <<"partial">>, <<"throw", "caller">>>>
            IN  Script(s) /\ Names(s) = {"delete", "partial", "throw"}
         /\ LET s == <<<<"new", fs>>, <<"throw", "caller">>>>
            IN  Script(s) /\ Names(s) = {"new", "throw"}
         /\ LET s == <<<<"partial">>, <<"throw", "caller">>>>
            IN  Script(s) /\ Names(s) = {"partial", "throw"}
         /\ LET s == <<<<"ckpt", FALSE>>, <<"refresh", None>>>>
            IN  Script(s) /\ Names(s) = {"ckpt", "refresh"}
         /\ Script(<<<<"die">>>>) /\ Names(<<<<"die">>>>) = {"die"}
         /\ Script(<<<<"delete", fs>>>>) /\ Names(<<<<"delete", fs>>>>) = {"delete"}
PROOF
<1>1. PICK pa, ck, re, tc, de, ne, rn, di :
        /\ pa = <<"partial">> /\ ck = <<"ckpt", FALSE>> /\ re = <<"refresh", n>>
        /\ tc = <<"throw", "caller">> /\ de = <<"delete", fs>> /\ ne = <<"new", fs>>
        /\ rn = <<"refresh", None>> /\ di = <<"die">>
  OBVIOUS
<1>2. /\ pa \in Step /\ ck \in Step /\ re \in Step /\ tc \in Step /\ de \in Step /\ ne \in Step
      /\ rn \in Step /\ di \in Step
  BY <1>1 DEF Step
<1>3. /\ pa[1] = "partial" /\ ck[1] = "ckpt" /\ re[1] = "refresh" /\ tc[1] = "throw"
      /\ de[1] = "delete" /\ ne[1] = "new" /\ rn[1] = "refresh" /\ di[1] = "die"
  BY <1>1
<1>4. <<pa, ck, re, tc>> \in Seq(Step) /\ Names(<<pa, ck, re, tc>>) = {"partial", "ckpt", "refresh", "throw"}
  BY <1>2, <1>3, Literals
<1>5. <<de, pa, tc>> \in Seq(Step) /\ Names(<<de, pa, tc>>) = {"delete", "partial", "throw"}
  BY <1>2, <1>3, Literals
<1>6. <<ne, tc>> \in Seq(Step) /\ Names(<<ne, tc>>) = {"new", "throw"}
  BY <1>2, <1>3, Literals
<1>7. <<pa, tc>> \in Seq(Step) /\ Names(<<pa, tc>>) = {"partial", "throw"}
  BY <1>2, <1>3, Literals
<1>8. <<ck, rn>> \in Seq(Step) /\ Names(<<ck, rn>>) = {"ckpt", "refresh"}
  BY <1>2, <1>3, Literals
<1>9. <<di>> \in Seq(Step) /\ Names(<<di>>) = {"die"} /\ Script(<<di>>)
  BY <1>2, <1>3, Literals, OneStep
<1>10. Script(<<pa, ck, re, tc>>)
  BY <1>4, PlainScript DEF Firsts
<1>11. Script(<<de, pa, tc>>)
  BY <1>5, PlainScript DEF Firsts
<1>12. Script(<<ne, tc>>)
  BY <1>6, PlainScript DEF Firsts
<1>13. Script(<<pa, tc>>)
  BY <1>7, PlainScript DEF Firsts
<1>14. Script(<<ck, rn>>)
  BY <1>8, PlainScript DEF Firsts
<1>15. Script(<<de>>) /\ Names(<<de>>) = {"delete"}
  BY <1>2, <1>3, Literals, OneStep
<1> QED
  BY <1>1, <1>4, <1>5, <1>6, <1>7, <1>8, <1>9, <1>10, <1>11, <1>12, <1>13, <1>14, <1>15

\* The steps that take a flush back.
LEMMA UnflushScript ==
  ASSUME buf.seg \in Name \cup {None}, NEW fs \in SUBSET File
  PROVE  /\ Script(Unflush(fs))
         /\ Names(Unflush(fs)) \subseteq {"delete", "partial", "ckpt", "refresh", "throw"}
         /\ fs = {} => "delete" \notin Names(Unflush(fs))
PROOF
<1>1. PICK de, pa, ck, re, th :
        /\ de = <<"delete", fs>> /\ pa = <<"partial">> /\ ck = <<"ckpt", FALSE>>
        /\ re = <<"refresh", buf.seg>> /\ th = <<"throw", "caller">>
  OBVIOUS
<1>2. /\ de \in Step /\ pa \in Step /\ ck \in Step /\ re \in Step /\ th \in Step
      /\ de[1] = "delete" /\ pa[1] = "partial" /\ ck[1] = "ckpt" /\ re[1] = "refresh"
      /\ th[1] = "throw"
  BY <1>1 DEF Step
<1>3. PICK d, s, r, t : /\ d = (IF fs = {} THEN <<>> ELSE <<de>>) /\ s = <<pa, ck>>
                        /\ r = (IF buf.seg = None THEN <<>> ELSE <<re>>) /\ t = <<th>>
  OBVIOUS
<1>4. Unflush(fs) = ((d \o s) \o r) \o t
  BY <1>1, <1>3 DEF Unflush
<1>5. Script(<<>>) /\ Names(<<>>) = {}
  <2>1. <<>> \in Seq(Step) /\ Names(<<>>) = {}
    BY Literals
  <2> QED
    BY <2>1, PlainScript
<1>6. /\ Script(<<de>>) /\ Names(<<de>>) = {"delete"} /\ Script(<<re>>) /\ Names(<<re>>) = {"refresh"}
      /\ Script(t) /\ Names(t) = {"throw"}
  BY <1>2, <1>3, Literals, OneStep
<1>7. Script(s) /\ Names(s) = {"partial", "ckpt"}
  <2>1. s \in Seq(Step) /\ Names(s) = {"partial", "ckpt"}
    BY <1>2, <1>3, Literals
  <2> QED
    BY <2>1, PlainScript DEF Firsts
<1>8. /\ Script(d) /\ Names(d) \subseteq {"delete"} /\ (fs = {} => Names(d) = {})
      /\ Script(r) /\ Names(r) \subseteq {"refresh"}
  BY <1>3, <1>5, <1>6
<1>9. PICK ds, dsr : ds = d \o s /\ dsr = ds \o r
  OBVIOUS
<1>10. Script(ds) /\ Names(ds) = Names(d) \cup Names(s)
  <2>1. Names(s) \cap Firsts = {} /\ "bind" \notin Names(d) /\ "merged" \notin Names(d)
    BY <1>7, <1>8 DEF Firsts
  <2> QED
    BY <2>1, <1>7, <1>8, <1>9, Followed
<1>11. Script(dsr) /\ Names(dsr) = Names(ds) \cup Names(r)
  <2>1. Names(r) \cap Firsts = {} /\ "bind" \notin Names(ds) /\ "merged" \notin Names(ds)
    BY <1>7, <1>8, <1>10 DEF Firsts
  <2> QED
    BY <2>1, <1>8, <1>9, <1>10, Followed
<1>12. Script(dsr \o t) /\ Names(dsr \o t) = Names(dsr) \cup Names(t)
  <2>1. Names(t) \cap Firsts = {} /\ "bind" \notin Names(dsr) /\ "merged" \notin Names(dsr)
    BY <1>6, <1>7, <1>8, <1>10, <1>11 DEF Firsts
  <2> QED
    BY <2>1, <1>6, <1>11, Followed
<1> QED
  BY <1>4, <1>6, <1>7, <1>8, <1>9, <1>10, <1>11, <1>12

\* Everything buffered is given up, and op goes on with such a script.
LEMMA GaveUp ==
  ASSUME IInv, status \notin {"closed", "opening"},
         UNCHANGED <<disk, pinned, deletable, status, autoCommit, infos, gen, lastGen, rollback,
                     merge>>,
         counter <= counter', counter' \in 0..MaxSeg, commitPending' \in BOOLEAN,
         NEW b2, b2 = buf', b2 = buf \/ b2 = EmptyBuf \/ b2 = [EmptyBuf EXCEPT !.closed = buf.closed],
         dir' \subseteq File, faults' \in 0..MaxFaults,
         OpFits(op', merge, b2.store), ~Undoes(op'), HeadOf(op'.todo) # "finish"
  PROVE  IInv'
PROOF
<1>1. counter \in Nat /\ counter' \in Nat /\ MaxSeg \in Nat
  BY Types
<1>2. BufShape(buf, counter) /\ buf.closed \in BOOLEAN
  BY DEF IInv, BufOK, BufShape
<1>3. PICK n2 : n2 = counter'
  OBVIOUS
<1>4. BufShape(b2, n2) /\ b2.seg \in {None, buf.seg} /\ LiveDocs(infos) \cap b2.docs = {}
  <2>1. CASE b2 = buf
    <3>1. buf.seg \in Name \cup {None} /\ buf.seg < n2
      BY <1>1, <1>2, <1>3 DEF BufShape, Name, None
    <3> QED
      BY <2>1, <3>1, <1>2 DEF BufShape, IInv, InfosOK
  <2>2. CASE b2 # buf
    <3>1. b2.docs = {} /\ b2.seg = None
      BY <2>2 DEF EmptyBuf
    <3> QED
      BY <3>1, <2>2, <1>1, <1>2, <1>3, NoBuf
  <2> QED
    BY <2>1, <2>2
<1>5. MergeShape(merge, n2, b2.seg)
  BY <1>1, <1>3, <1>4, MergeStill DEF IInv, MergeOK
<1>6. BufOK' /\ MergeOK' /\ OpOK' /\ StartOK'
  BY <1>3, <1>4, <1>5 DEF BufOK, MergeOK, OpOK, StartOK, StartShape
<1>7. RestOK'
  BY DEF IInv, RestOK
<1>8. Calmer(merge', merge) /\ LiveDocs(infos) \cap buf'.docs = {} /\ buf'.seg \in {None, buf.seg}
  BY <1>4 DEF Calmer
<1> QED
  BY <1>6, <1>7, <1>8, Kept

LEMMA AddDocFailsInv ==
  ASSUME IInv, NEW d \in Doc, AddDocFails(d)
  PROVE  IInv'
PROOF
<1>1. Buffering(d) /\ status \notin {"closed", "opening"}
  BY DEF AddDocFails, Buffering, InUse
<1>2. /\ counter' \in 0..MaxSeg /\ counter <= counter' /\ commitPending' \in BOOLEAN
      /\ dir' \subseteq File /\ BufStore \in Name
  BY <1>1, Buffers
<1>3. PICK fs : fs = {Store(BufStore)}
  OBVIOUS
<1>4. fs \in SUBSET File
  BY <1>2, <1>3 DEF Store, File
<1>5. PICK s : s = <<<<"new", fs>>, <<"throw", "caller">>>>
  OBVIOUS
<1>6. Script(s) /\ Names(s) = {"new", "throw"}
  <2>1. None \in Name \cup {None}
    OBVIOUS
  <2> QED
    BY <2>1, <1>4, <1>5, FailScripts
<1>7. PICK o2 : o2 = op'
  OBVIOUS
<1>8. o2 = [todo |-> s, undo |-> infos, onFail |-> <<>>, pausing |-> FALSE]
  BY <1>3, <1>5, <1>7 DEF AddDocFails, Begin
<1>9. /\ OpShape(o2) /\ o2.todo = s /\ o2.onFail = <<>> /\ ~Undoes(o2)
      /\ HeadOf(o2.todo) # "finish"
  <2>1. infos \in Seq(SegmentInfos) /\ FALSE \in BOOLEAN
    BY Types
  <2>2. Names(s) \cap {"write", "finish"} = {}
    BY <1>6
  <2> QED
    BY <2>1, <2>2, <1>6, <1>8, Begun
<1>10. PICK b2 : b2 = buf'
  OBVIOUS
<1>11. b2 = EmptyBuf
  BY <1>10 DEF AddDocFails
<1>12. HeadOf(s) # "stores"
  BY <1>6, HeadName DEF Script
<1>13. OpFits(o2, merge, b2.store)
  BY <1>6, <1>9, <1>12 DEF OpFits
<1>14. /\ UNCHANGED <<disk, pinned, deletable, status, autoCommit, infos, gen, lastGen, rollback,
                      merge>>
       /\ faults' \in 0..MaxFaults
  BY Types DEF AddDocFails, deleter, IInv, RestOK
<1> QED
  BY <1>1, <1>2, <1>7, <1>9, <1>10, <1>11, <1>13, <1>14, GaveUp

LEMMA FlushFailsInv ==
  ASSUME IInv, FlushFails
  PROVE  IInv'
PROOF
<1>1. op.todo # <<>> /\ status \notin {"closed", "opening"}
  BY Heads, Opening DEF FlushFails, At
<1>2. buf.seg \in Name
  BY DEF FlushFails, IInv, BufOK, BufShape
<1>3. PICK s : s = Unflush({})
  OBVIOUS
<1>4. Script(s) /\ Names(s) \subseteq {"delete", "partial", "ckpt", "refresh", "throw"}
  <2>1. {} \in SUBSET File
    OBVIOUS
  <2> QED
    BY <2>1, <1>2, <1>3, UnflushScript
<1>5. op' = Going(op, s)
  BY <1>3 DEF FlushFails, GoOn, Going
<1>6. OpShape(op)
  BY DEF IInv, OpOK, OpFits
<1>7. PICK b2 : b2 = buf'
  OBVIOUS
<1>8. b2 = [EmptyBuf EXCEPT !.closed = buf.closed]
  BY <1>7 DEF FlushFails
<1>9. OpFits(op', merge, b2.store) /\ ~Undoes(op') /\ HeadOf(op'.todo) # "finish"
  BY <1>4, <1>5, <1>6, WentFits
<1>10. Core(buf.seg) \in File
  BY <1>2 DEF Core, File
<1>11. dir' \subseteq File /\ faults' \in 0..MaxFaults
  BY <1>10, Types DEF FlushFails, IInv, RestOK
<1>12. UNCHANGED <<disk, pinned, deletable, status, autoCommit, infos, gen, lastGen, rollback,
                   merge, counter, commitPending>>
  BY DEF FlushFails, deleter, si
<1>13. counter <= counter' /\ counter' \in 0..MaxSeg /\ commitPending' \in BOOLEAN
  BY <1>12, Types DEF IInv, RestOK
<1> QED
  BY <1>1, <1>7, <1>8, <1>9, <1>11, <1>12, <1>13, GaveUp

LEMMA FlushCompoundFailsInv ==
  ASSUME IInv, FlushCompoundFails
  PROVE  IInv'
PROOF
<1>1. op.todo # <<>> /\ status \notin {"closed", "opening"}
  BY Heads, Opening DEF FlushCompoundFails, At
<1>2. PICK n : n = Head(op.todo)[2]
  OBVIOUS
<1>3. n \in Name
  <2>1. op.todo \in Seq(Step) /\ Head(op.todo) \in Step /\ Head(op.todo)[1] = "cfs"
    BY <1>1, Types DEF FlushCompoundFails, At, Head1
  <2>2. PICK a : a = Head(op.todo)
    OBVIOUS
  <2>3. a \in {"cfs"} \X Name
    BY <2>1, <2>2 DEF Step
  <2> QED
    BY <2>2, <2>3, <1>2
<1>4. PICK fs : fs = {Cfs(n)}
  OBVIOUS
<1>5. fs \in SUBSET File
  BY <1>3, <1>4 DEF Cfs, File
<1>6. PICK s : s = <<<<"delete", fs>>, <<"partial">>, <<"throw", "caller">>>>
  OBVIOUS
<1>7. Script(s) /\ Names(s) = {"delete", "partial", "throw"}
  <2>1. None \in Name \cup {None}
    OBVIOUS
  <2> QED
    BY <2>1, <1>5, <1>6, FailScripts
<1>8. op' = Going(op, s)
  BY <1>2, <1>4, <1>6 DEF FlushCompoundFails, GoOn, Going
<1>9. OpShape(op)
  BY DEF IInv, OpOK, OpFits
<1>10. PICK b2 : b2 = buf'
  OBVIOUS
<1>11. b2 = buf
  BY <1>10 DEF FlushCompoundFails
<1>12. OpFits(op', merge, b2.store) /\ ~Undoes(op') /\ HeadOf(op'.todo) # "finish"
  BY <1>7, <1>8, <1>9, WentFits
<1>13. dir' \subseteq File /\ faults' \in 0..MaxFaults
  BY <1>2, <1>4, <1>5, Types DEF FlushCompoundFails, IInv, RestOK
<1>14. UNCHANGED <<disk, pinned, deletable, status, autoCommit, infos, gen, lastGen, rollback,
                   merge, counter, commitPending>>
  BY DEF FlushCompoundFails, deleter, si
<1>15. counter <= counter' /\ counter' \in 0..MaxSeg /\ commitPending' \in BOOLEAN
  BY <1>14, Types DEF IInv, RestOK
<1> QED
  BY <1>1, <1>10, <1>11, <1>12, <1>13, <1>14, <1>15, GaveUp

LEMMA FlushInv ==
  ASSUME IInv, Flush
  PROVE  IInv'
PROOF
<1>1. status \notin {"closed", "opening"}
  BY DEF Flush, InUse
<1>2. PICK s : s = FlushSteps(FALSE)
  OBVIOUS
<1>3. /\ Script(s) /\ Names(s) \subseteq {"stores", "ckpt", "segment"}
      /\ HeadOf(s) = "stores" => buf.store # None
  BY <1>2, FlushScript
<1>4. Begin(s, TRUE)
  BY <1>2 DEF Flush
<1>5. UNCHANGED <<dir, disk, pinned, deletable, status, autoCommit, infos, gen, lastGen, rollback,
                  merge, counter, commitPending, buf, faults>>
  BY DEF Flush, deleter, si, store
<1>6. BufOK' /\ MergeOK' /\ RestOK'
  BY <1>5 DEF IInv, BufOK, MergeOK, RestOK
<1>7. counter <= counter' /\ LiveDocs(infos) \cap buf'.docs = {} /\ Calmer(merge', merge)
  BY <1>5, Types DEF IInv, InfosOK, Calmer
<1>8. /\ Names(s) \cap {"write", "finish"} = {} /\ "bind" \notin Names(s)
      /\ "merged" \notin Names(s) /\ TRUE \in BOOLEAN
  BY <1>3
<1>9. buf'.seg \in {None, buf.seg} /\ (HeadOf(s) = "stores" => buf'.store # None)
      /\ status' \notin {"closed", "opening"}
  BY <1>1, <1>3, <1>5
<1> QED
  BY <1>3, <1>4, <1>5, <1>6, <1>7, <1>8, <1>9, Called

\* close() and the closing half of abort() flush what is buffered.
LEMMA ClosingInv ==
  ASSUME IInv, status' \notin {"closed", "opening"},
         buf' = [buf EXCEPT !.closed = TRUE], Begin(FlushSteps(TRUE), TRUE),
         UNCHANGED <<dir, disk, pinned, deletable, autoCommit, infos, gen, lastGen, rollback,
                     merge, counter, faults>>,
         commitPending' \in BOOLEAN,
         status' \in {"closing", "stopping", "abandoning"}
  PROVE  IInv'
PROOF
<1>1. PICK s : s = FlushSteps(TRUE)
  OBVIOUS
<1>2. /\ Script(s) /\ Names(s) \subseteq {"stores", "ckpt", "segment"}
      /\ HeadOf(s) = "stores" => buf.store # None
  BY <1>1, FlushScript
<1>3. Begin(s, TRUE)
  BY <1>1
<1>4. PICK b2 : b2 = buf'
  OBVIOUS
<1>5. /\ b2 \in [docs : SUBSET Doc, dels : SUBSET Doc, seg : Name \cup {None},
                 store : Name \cup {None}, closed : BOOLEAN]
      /\ b2.docs = buf.docs /\ b2.seg = buf.seg /\ b2.store = buf.store
  BY <1>4 DEF IInv, BufOK, BufShape
<1>6. BufShape(b2, counter)
  BY <1>5 DEF IInv, BufOK, BufShape
<1>7. BufOK' /\ MergeOK'
  BY <1>4, <1>5, <1>6 DEF IInv, BufOK, MergeOK
<1>8. RestOK'
  BY DEF IInv, RestOK
<1>9. /\ counter <= counter' /\ LiveDocs(infos) \cap buf'.docs = {} /\ Calmer(merge', merge)
      /\ buf'.seg \in {None, buf.seg} /\ (HeadOf(s) = "stores" => buf'.store # None)
  BY <1>2, <1>4, <1>5, Types DEF IInv, InfosOK, Calmer
<1>10. /\ Names(s) \cap {"write", "finish"} = {} /\ "bind" \notin Names(s)
       /\ "merged" \notin Names(s) /\ TRUE \in BOOLEAN
  BY <1>2
<1> QED
  BY <1>2, <1>3, <1>7, <1>8, <1>9, <1>10, Called

LEMMA CloseInv ==
  ASSUME IInv, NEW wait \in BOOLEAN, Close(wait)
  PROVE  IInv'
PROOF
<1>1. status' \in {"closing", "stopping"}
  BY DEF Close
<1>2. UNCHANGED <<dir, disk, pinned, deletable, autoCommit, infos, gen, lastGen, rollback,
                  merge, counter, faults, commitPending>>
  BY DEF Close, deleter, si, store
<1>3. commitPending' \in BOOLEAN
  BY <1>2 DEF IInv, RestOK
<1>4. buf' = [buf EXCEPT !.closed = TRUE] /\ Begin(FlushSteps(TRUE), TRUE)
  BY DEF Close
<1> QED
  BY <1>1, <1>2, <1>3, <1>4, ClosingInv

LEMMA AbortCloseInv ==
  ASSUME IInv, AbortClose
  PROVE  IInv'
PROOF
<1>1. status' = "abandoning" /\ commitPending' \in BOOLEAN
  BY DEF AbortClose
<1>2. UNCHANGED <<dir, disk, pinned, deletable, autoCommit, infos, gen, lastGen, rollback,
                  merge, counter, faults>>
  BY DEF AbortClose, deleter, store
<1>3. buf' = [buf EXCEPT !.closed = TRUE] /\ Begin(FlushSteps(TRUE), TRUE)
  BY DEF AbortClose
<1> QED
  BY <1>1, <1>2, <1>3, ClosingInv

LEMMA CloseCommitInv ==
  ASSUME IInv, CloseCommit
  PROVE  IInv'
PROOF
<1>1. PICK w, c, cl, h : /\ w = <<"write">> /\ c = <<"ckpt", TRUE>> /\ cl = <<"close">>
                         /\ h = IF commitPending THEN <<w, c>> ELSE <<>>
  OBVIOUS
<1>2. w \in Step /\ c \in Step /\ cl \in Step /\ w[1] = "write" /\ c[1] = "ckpt" /\ cl[1] = "close"
  BY <1>1 DEF Step
<1>3. Script(h) /\ Names(h) \subseteq {"write", "ckpt"}
  <2>1. <<w, c>> \in Seq(Step) /\ Names(<<w, c>>) = {"write", "ckpt"}
    BY <1>2, Literals
  <2>2. DOMAIN <<w, c>> = {1, 2} /\ <<w, c>>[1] = w /\ <<w, c>>[2] = c /\ Len(<<w, c>>) = 2
    OBVIOUS
  <2>3. Script(<<w, c>>)
    BY <2>1, <2>2, <1>2 DEF Script
  <2>4. Script(<<>>) /\ Names(<<>>) = {}
    BY Literals, PlainScript
  <2> QED
    BY <2>1, <2>3, <2>4, <1>1
<1>4. PICK q : q = <<cl>>
  OBVIOUS
<1>5. Script(q) /\ Names(q) = {"close"}
  BY <1>2, <1>4, OneStep, Literals
<1>6. PICK s : s = h \o q
  OBVIOUS
<1>7. Script(s) /\ Names(s) \subseteq {"write", "ckpt", "close"}
  BY <1>3, <1>5, <1>6, Followed DEF Firsts
<1>8. PICK f : f = <<<<"partial">>, <<"throw", "caller">>>>
  OBVIOUS
<1>9. Script(f) /\ Names(f) = {"partial", "throw"}
  <2>1. None \in Name \cup {None} /\ {} \in SUBSET File
    OBVIOUS
  <2> QED
    BY <2>1, <1>8, FailScripts
<1>10. PICK o2 : o2 = op'
  OBVIOUS
<1>11. o2 = [todo |-> s, undo |-> infos, onFail |-> f, pausing |-> FALSE]
  BY <1>1, <1>4, <1>6, <1>8, <1>10 DEF CloseCommit
<1>12. s \in Seq(Step) /\ f \in Seq(Step) /\ infos \in Seq(SegmentInfos)
  BY <1>7, <1>9, Types DEF Script
<1>13. OpShape(o2) /\ o2.todo = s /\ o2.onFail = f /\ o2.undo = infos
  BY <1>7, <1>9, <1>11, <1>12 DEF OpShape
<1>14. HeadOf(s) \notin {"stores", "finish"}
  BY <1>7, <1>12, HeadName
<1>15. OpFits(o2, merge, buf.store) /\ HeadOf(o2.todo) # "finish"
  BY <1>7, <1>9, <1>13, <1>14 DEF OpFits
<1>16. UNCHANGED <<dir, disk, pinned, deletable, status, autoCommit, infos, gen, lastGen, rollback,
                   merge, counter, commitPending, buf, faults>>
  BY DEF CloseCommit, deleter, si, store
<1>17. status \notin {"closed", "opening"}
  BY DEF CloseCommit
<1>18. BufOK' /\ MergeOK' /\ OpOK' /\ StartOK' /\ RestOK'
  BY <1>10, <1>15, <1>16, <1>17 DEF IInv, BufOK, MergeOK, OpOK, StartOK, StartShape, RestOK
<1>19. counter <= counter' /\ LiveDocs(infos) \cap buf'.docs = {} /\ Calmer(merge', merge)
  BY <1>16, Types DEF IInv, InfosOK, Calmer
<1>20. op'.undo = infos /\ HeadOf(op'.todo) # "finish"
  BY <1>10, <1>13, <1>15
<1> QED
  BY <1>16, <1>18, <1>19, <1>20, Kept

-----------------------------------------------------------------------------
(* Steps that change the segments.                                         *)

\* The segments change, and if writing them fails they are again what they
\* were.
LEMMA Replaced ==
  ASSUME IInv, UNCHANGED <<disk, gen, rollback, counter>>,
         buf'.seg \in {None, buf.seg},
         Fits(infos', counter, buf'.seg, merge'), LiveDocs(infos') \cap buf'.docs = {},
         Undoes(op') => /\ op'.undo = infos /\ Fits(infos, counter, buf'.seg, merge')
                        /\ \/ LiveDocs(infos) \subseteq LiveDocs(infos')
                           \/ LiveDocs(infos) \subseteq AllDocs(infos') /\ buf'.docs = {},
         HeadOf(op'.todo) # "finish",
         BufOK', MergeOK', OpOK', StartOK', RestOK'
  PROVE  IInv'
PROOF
<1>1. InfosOK'
  BY DEF InfosOK
<1>2. UndoOK'
  BY LiveAreDocs DEF UndoOK, Undoing
<1>3. RollbackOK'
  <2>1. counter \in Nat /\ Fits(rollback, counter, buf.seg, NoMerge) /\ Calmer(NoMerge, NoMerge)
    BY Types DEF IInv, RollbackOK, Calmer
  <2>2. PICK seg2 : seg2 = buf'.seg
    OBVIOUS
  <2>3. Fits(rollback, counter, seg2, NoMerge)
    BY <2>1, <2>2, FitsStill
  <2> QED
    BY <2>2, <2>3 DEF RollbackOK
<1>4. ~At("finish")'
  BY DEF At, Head1, HeadOf
<1>5. DiskOK'
  BY <1>4 DEF IInv, DiskOK
<1> QED
  BY <1>1, <1>2, <1>3, <1>5 DEF IInv

\* The same segments in other files.
SamePlaces(js, is) == js = [i \in DOMAIN is |-> js[i]]

LEMMA Repacked ==
  ASSUME NEW is, NEW js, NEW n, NEW seg, NEW m, Fits(is, n, seg, m), SamePlaces(js, is),
         \A i \in DOMAIN is : /\ js[i] \in SegmentInfos
                              /\ js[i].name = is[i].name /\ js[i].docs = is[i].docs
                              /\ js[i].dels = is[i].dels /\ js[i].delGen = is[i].delGen
  PROVE  Fits(js, n, seg, m) /\ LiveDocs(js) = LiveDocs(is)
PROOF
<1>1. js \in Seq(SegmentInfos) /\ DOMAIN js = DOMAIN is
  <2>1. PICK l \in Nat : l = Len(is) /\ DOMAIN is = 1..l
    BY DEF Fits, ListOK
  <2>2. js \in [1..l -> SegmentInfos]
    BY <2>1 DEF SamePlaces
  <2> QED
    BY <2>1, <2>2
<1>2. \A i \in DOMAIN is : SegmentOK(is[i]) /\ SegmentOK(js[i])
  BY DEF Fits, ListOK, SegmentOK
<1>3. Fits(js, n, seg, m) /\ LiveDocs(js) \subseteq LiveDocs(is)
  BY <1>1, <1>2, MoreDeleted
<1>4. LiveDocs(is) \subseteq LiveDocs(js)
  BY <1>1 DEF LiveDocs, Live
<1> QED
  BY <1>3, <1>4

\* The operation goes on with another commit.
Recommit(o, s, is, f) == [o EXCEPT !.todo = s, !.undo = is, !.onFail = f]

LEMMA Committing ==
  ASSUME NEW o, OpShape(o), NEW s, Script(s), NEW f, Script(f),
         Names(f) \cap {"write", "finish", "stores", "bind"} = {},
         NEW is \in Seq(SegmentInfos), NEW o2, o2 = Recommit(o, s, is, f)
  PROVE  OpShape(o2) /\ o2.todo = s /\ o2.undo = is /\ o2.onFail = f
PROOF
<1>1. s \in Seq(Step) /\ f \in Seq(Step)
  BY DEF Script
<1>2. /\ o2 \in [todo : Seq(Step), undo : Seq(SegmentInfos), onFail : Seq(Step), pausing : BOOLEAN]
      /\ o2.todo = s /\ o2.undo = is /\ o2.onFail = f
  BY <1>1 DEF OpShape, Recommit
<1> QED
  BY <1>2 DEF OpShape

\* A commit, and then other steps.
LEMMA CommitThen ==
  ASSUME NEW t, Script(t), Names(t) \cap Firsts = {},
         NEW s, s = CommitSteps \o t
  PROVE  /\ Script(s) /\ Names(s) \subseteq {"write", "ckpt"} \cup Names(t)
         /\ HeadOf(s) \notin {"stores", "finish"}
PROOF
<1>1. PICK c : c = CommitSteps
  OBVIOUS
<1>2. Script(c) /\ c # <<>> /\ Names(c) \subseteq {"write", "ckpt"} /\ s = c \o t
  BY <1>1, CommitScript
<1>3. Script(s) /\ Names(s) = Names(c) \cup Names(t)
  BY <1>2, Followed
<1>4. HeadOf(s) \notin {"stores", "finish"}
  <2>1. HeadOf(s) = "idle" \/ HeadOf(s) \in Names(s)
    BY <1>3, HeadName DEF Script
  <2>2. "stores" \notin Names(s) /\ "finish" \notin Names(s)
    BY <1>2, <1>3 DEF Firsts
  <2> QED
    BY <2>1, <2>2
<1> QED
  BY <1>2, <1>3, <1>4

LEMMA FlushDocStoresInv ==
  ASSUME IInv, FlushDocStores
  PROVE  IInv'
PROOF
<1>1. /\ op.todo # <<>> /\ status \notin {"closed", "opening"} /\ HeadOf(op.todo) = "stores"
  BY Heads, Opening DEF FlushDocStores, At
<1>2. buf.store \in Name
  BY <1>1 DEF IInv, OpOK, OpFits, BufOK, BufShape
<1>3. op' = Going(op, Tail(op.todo))
  BY DEF FlushDocStores, Advance, GoOn, Going
<1>4. PICK o2 : o2 = op'
  OBVIOUS
<1>5. OpFits(o2, merge, None) /\ ~Undoes(o2) /\ HeadOf(o2.todo) # "finish"
  BY <1>1, <1>3, <1>4, AdvancedFits DEF IInv, OpOK
<1>6. PICK b2 : b2 = buf'
  OBVIOUS
<1>7. b2 = [buf EXCEPT !.store = None]
  BY <1>6 DEF FlushDocStores
<1>8. /\ b2 \in [docs : SUBSET Doc, dels : SUBSET Doc, seg : Name \cup {None},
                 store : Name \cup {None}, closed : BOOLEAN]
      /\ b2.docs = buf.docs /\ b2.seg = buf.seg /\ b2.store = None
  BY <1>7 DEF IInv, BufOK, BufShape
<1>9. BufShape(b2, counter)
  BY <1>8 DEF IInv, BufOK, BufShape
<1>10. UNCHANGED <<disk, pinned, deletable, status, autoCommit, gen, lastGen, counter, rollback,
                   merge, faults>>
  BY DEF FlushDocStores, deleter
<1>11. commitPending' \in BOOLEAN /\ dir' \subseteq File
  <2>1. Cfx(buf.store) \in File
    BY <1>2 DEF Cfx, File
  <2> QED
    BY <2>1 DEF FlushDocStores, MarkPending, IInv, RestOK
<1>12. PICK js : js = infos'
  OBVIOUS
<1>13. Fits(infos, counter, buf.seg, merge) /\ LiveDocs(infos) \cap buf.docs = {}
  BY DEF IInv, InfosOK
<1>14. Fits(js, counter, buf.seg, merge) /\ LiveDocs(js) = LiveDocs(infos)
  <2>1. CASE UseCompound
    <3>1. js = [i \in DOMAIN infos |-> IF infos[i].store = buf.store
                                       THEN [infos[i] EXCEPT !.storeCfs = TRUE] ELSE infos[i]]
      BY <2>1, <1>12 DEF FlushDocStores
    <3>2. SamePlaces(js, infos)
      BY <3>1 DEF SamePlaces
    <3>4. \A i \in DOMAIN infos : infos[i] \in SegmentInfos
      BY Types
    <3>5. \A i \in DOMAIN infos : /\ js[i] \in SegmentInfos
            /\ js[i].name = infos[i].name /\ js[i].docs = infos[i].docs
            /\ js[i].dels = infos[i].dels /\ js[i].delGen = infos[i].delGen
      BY <3>1, <3>4 DEF SegmentInfos
    <3> QED
      BY <3>2, <3>5, <1>13, Repacked
  <2>2. CASE ~UseCompound
    BY <2>2, <1>12, <1>13 DEF FlushDocStores
  <2> QED
    BY <2>1, <2>2
<1>15. BufOK' /\ MergeOK' /\ OpOK' /\ StartOK' /\ RestOK'
  BY <1>1, <1>4, <1>5, <1>6, <1>8, <1>9, <1>10, <1>11
  DEF IInv, BufOK, MergeOK, OpOK, StartOK, StartShape, RestOK
<1>16. Fits(infos', counter, buf'.seg, merge') /\ LiveDocs(infos') \cap buf'.docs = {}
  BY <1>6, <1>8, <1>10, <1>12, <1>13, <1>14
<1>17. buf'.seg \in {None, buf.seg} /\ ~Undoes(op') /\ HeadOf(op'.todo) # "finish"
  BY <1>4, <1>5, <1>6, <1>8
<1> QED
  BY <1>10, <1>15, <1>16, <1>17, Replaced

LEMMA FlushCompoundInv ==
  ASSUME IInv, FlushCompound
  PROVE  IInv'
PROOF
<1>1. /\ op.todo # <<>> /\ status \notin {"closed", "opening"} /\ HeadOf(op.todo) = "cfs"
  BY Heads, Opening DEF FlushCompound, At
<1>2. PICK n : n = Head(op.todo)[2]
  OBVIOUS
<1>3. n \in Name
  <2>1. op.todo \in Seq(Step) /\ Head(op.todo) \in Step /\ Head(op.todo)[1] = "cfs"
    BY <1>1, Types DEF HeadOf
  <2>2. PICK a : a = Head(op.todo)
    OBVIOUS
  <2>3. a \in {"cfs"} \X Name
    BY <2>1, <2>2 DEF Step
  <2> QED
    BY <2>2, <2>3, <1>2
<1>4. PICK fs : fs = {Cfs(n)}
  OBVIOUS
<1>5. fs \in SUBSET File
  BY <1>3, <1>4 DEF Cfs, File
<1>6. PICK f : f = <<<<"delete", fs>>, <<"partial">>, <<"throw", "caller">>>>
  OBVIOUS
<1>7. Script(f) /\ Names(f) = {"delete", "partial", "throw"}
  <2>1. None \in Name \cup {None}
    OBVIOUS
  <2> QED
    BY <2>1, <1>5, <1>6, FailScripts
<1>8. OpFits(op, merge, buf.store) /\ OpShape(op) /\ Script(op.todo)
  BY DEF IInv, OpOK, OpFits, OpShape
<1>9. PICK t : t = Tail(op.todo)
  OBVIOUS
<1>10. Script(t) /\ Names(t) \subseteq Names(op.todo) \ Firsts
  BY <1>1, <1>8, <1>9, Rest
<1>11. PICK s : s = CommitSteps \o t
  OBVIOUS
<1>12. /\ Script(s) /\ Names(s) \subseteq {"write", "ckpt"} \cup Names(t)
       /\ HeadOf(s) \notin {"stores", "finish"}
  BY <1>10, <1>11, CommitThen
<1>13. PICK o2 : o2 = op'
  OBVIOUS
<1>14. o2 = Recommit(op, s, infos, f)
  BY <1>2, <1>4, <1>6, <1>9, <1>11, <1>13 DEF FlushCompound, Recommit
<1>15. OpShape(o2) /\ o2.todo = s /\ o2.undo = infos /\ o2.onFail = f
  <2>1. Names(f) \cap {"write", "finish", "stores", "bind"} = {} /\ infos \in Seq(SegmentInfos)
    BY <1>7, Types
  <2> QED
    BY <2>1, <1>7, <1>8, <1>12, <1>14, Committing
<1>16. OpFits(o2, merge, buf.store) /\ HeadOf(o2.todo) # "finish"
  BY <1>7, <1>8, <1>10, <1>12, <1>15 DEF OpFits
<1>17. UNCHANGED <<disk, pinned, deletable, status, autoCommit, gen, lastGen, counter, rollback,
                   merge, faults, buf>>
  BY DEF FlushCompound, deleter
<1>18. commitPending' \in BOOLEAN /\ dir' \subseteq File
  BY <1>2, <1>4, <1>5 DEF FlushCompound, MarkPending, IInv, RestOK
<1>19. PICK js : js = infos'
  OBVIOUS
<1>20. Fits(infos, counter, buf.seg, merge) /\ LiveDocs(infos) \cap buf.docs = {}
  BY DEF IInv, InfosOK
<1>21. Fits(js, counter, buf.seg, merge) /\ LiveDocs(js) = LiveDocs(infos)
  <2>1. js = [i \in DOMAIN infos |-> IF infos[i].name = n THEN [infos[i] EXCEPT !.cfs = TRUE]
                                                          ELSE infos[i]]
    BY <1>2, <1>19 DEF FlushCompound
  <2>2. SamePlaces(js, infos)
    BY <2>1 DEF SamePlaces
  <2>4. \A i \in DOMAIN infos : infos[i] \in SegmentInfos
    BY Types
  <2>5. \A i \in DOMAIN infos : /\ js[i] \in SegmentInfos
          /\ js[i].name = infos[i].name /\ js[i].docs = infos[i].docs
          /\ js[i].dels = infos[i].dels /\ js[i].delGen = infos[i].delGen
    BY <2>1, <2>4 DEF SegmentInfos
  <2> QED
    BY <2>2, <2>5, <1>20, Repacked
<1>22. BufOK' /\ MergeOK' /\ OpOK' /\ StartOK' /\ RestOK'
  BY <1>1, <1>13, <1>16, <1>17, <1>18
  DEF IInv, BufOK, MergeOK, OpOK, StartOK, StartShape, RestOK
<1>23. Fits(infos', counter, buf'.seg, merge') /\ LiveDocs(infos') \cap buf'.docs = {}
  BY <1>17, <1>19, <1>20, <1>21
<1>24. /\ op'.undo = infos /\ Fits(infos, counter, buf'.seg, merge')
       /\ LiveDocs(infos) \subseteq LiveDocs(infos')
       /\ HeadOf(op'.todo) # "finish" /\ buf'.seg \in {None, buf.seg}
  BY <1>13, <1>15, <1>16, <1>17, <1>19, <1>20, <1>21
<1> QED
  BY <1>17, <1>22, <1>23, <1>24, Replaced

\* What is buffered becomes a segment.
LEMMA NewSegment ==
  ASSUME IInv, buf.docs # {}, NEW st \in Name \cup {None}, NEW sc \in BOOLEAN,
         NEW new, new = [name |-> buf.seg, docs |-> buf.docs, dels |-> {}, delGen |-> 0,
                         cfs |-> FALSE, store |-> st, storeCfs |-> sc]
  PROVE  /\ SegmentOK(new)
         /\ Fits(Append(infos, new), counter, None, merge)
         /\ LiveDocs(infos) \subseteq LiveDocs(Append(infos, new))
PROOF
<1>1. /\ buf.docs \subseteq Doc /\ buf.seg \in Name /\ buf.seg # None /\ buf.seg < counter
  BY DEF IInv, BufOK, BufShape
<1>2. PICK dn, cn, dd : dn = buf.docs /\ cn = buf.seg /\ dd = {}
  OBVIOUS
<1>3. new = [name |-> cn, docs |-> dn, dels |-> dd, delGen |-> 0,
             cfs |-> FALSE, store |-> st, storeCfs |-> sc]
  BY <1>2
<1>4. new \in SegmentInfos
  BY <1>1, <1>2, <1>3 DEF SegmentInfos
<1>5. new.dels = {} /\ new.delGen = 0 /\ new.name = buf.seg /\ new.docs = buf.docs
  BY <1>2, <1>3
<1>6. SegmentOK(new)
  BY <1>4, <1>5, NoDeletes0
<1>7. Live(new) \cap LiveDocs(infos) = {}
  BY <1>5 DEF Live, IInv, InfosOK
<1>8. Fits(infos, counter, buf.seg, merge)
  BY DEF IInv, InfosOK
<1>9. Unused(new.name, infos) /\ new.name < counter
  BY <1>1, <1>5, <1>8 DEF Fits
<1>10. merge.stage \in {"running", "built"} => merge.out.name # new.name
  BY <1>5 DEF IInv, MergeOK, MergeShape
<1> QED
  BY <1>6, <1>7, <1>8, <1>9, <1>10, Appended

\* The buffered deletes are applied to every segment.
AppliedTo(all, ds) == [i \in DOMAIN all |-> ApplyDeletes(all[i], ds)]

LEMMA AllDeleted ==
  ASSUME NEW all, NEW n, NEW m, Fits(all, n, None, m), NEW ds \in SUBSET Doc,
         NEW js, js = AppliedTo(all, ds)
  PROVE  /\ Fits(js, n, None, m)
         /\ AllDocs(js) = AllDocs(all)
         /\ ds = {} => js = all
         /\ {Del(js[i].name, js[i].delGen) : i \in {j \in DOMAIN all : js[j] # all[j]}} \subseteq File
PROOF
<1>1. \A i \in DOMAIN all : SegmentOK(all[i])
  BY DEF Fits, ListOK
<1>2. \A i \in DOMAIN all : js[i] = ApplyDeletes(all[i], ds)
  BY DEF AppliedTo
<1>3. \A i \in DOMAIN all :
         /\ SegmentOK(js[i])
         /\ js[i].name = all[i].name /\ js[i].docs = all[i].docs /\ all[i].dels \subseteq js[i].dels
         /\ js[i] # all[i] => js[i].delGen \in 1..Cardinality(Doc)
  BY <1>1, <1>2, Deleted
<1>4. js \in Seq(SegmentInfos) /\ DOMAIN js = DOMAIN all /\ all \in Seq(SegmentInfos)
  <2>1. PICK l \in Nat : l = Len(all) /\ DOMAIN all = 1..l
    BY DEF Fits, ListOK
  <2>2. \A i \in DOMAIN all : js[i] \in SegmentInfos
    BY <1>3 DEF SegmentOK
  <2>3. js \in [1..l -> SegmentInfos]
    BY <2>1, <2>2 DEF AppliedTo
  <2> QED
    BY <2>1, <2>3 DEF Fits, ListOK
<1>5. Fits(js, n, None, m)
  BY <1>3, <1>4, MoreDeleted
<1>6. ds = {} => js = all
  <2>1. ASSUME ds = {}
        PROVE  \A i \in DOMAIN all : js[i] = all[i]
    BY <2>1, <1>2 DEF ApplyDeletes
  <2>2. ASSUME ds = {}
        PROVE  js = all
    <3>1. PICK l \in Nat : l = Len(all) /\ DOMAIN all = 1..l
      BY <1>4
    <3>2. js \in [1..l -> SegmentInfos] /\ all \in [1..l -> SegmentInfos]
      BY <3>1, <1>4
    <3> QED
      BY <2>1, <2>2, <3>1, <3>2
  <2> QED
    BY <2>2
<1>7. ASSUME NEW i \in DOMAIN all, js[i] # all[i]
      PROVE  Del(js[i].name, js[i].delGen) \in File
  <2>1. js[i].name \in Name /\ js[i].delGen \in 1..Cardinality(Doc)
    BY <1>3, <1>7 DEF SegmentOK, SegmentInfos
  <2>2. Cardinality(Doc) \in Nat
    BY DocAssumption, FS_CardinalityType
  <2>3. js[i].delGen \in 1..(2 * Cardinality(Doc))
    BY <2>1, <2>2
  <2> QED
    BY <2>1, <2>3 DEF Del, File
<1>8. AllDocs(js) = AllDocs(all)
  BY <1>3, <1>4 DEF AllDocs
<1> QED
  BY <1>5, <1>6, <1>7, <1>8

LEMMA FlushSegmentInv ==
  ASSUME IInv, FlushSegment
  PROVE  IInv'
PROOF
<1>1. /\ op.todo # <<>> /\ status \notin {"closed", "opening"} /\ HeadOf(op.todo) = "segment"
  BY Heads, Opening DEF FlushSegment, At
<1>2. PICK step : step = Head(op.todo)
  OBVIOUS
<1>3. step[2] \in BOOLEAN /\ step[3] \in Name \cup {None} /\ step[4] \in BOOLEAN
  <2>1. op.todo \in Seq(Step) /\ Head(op.todo) \in Step /\ Head(op.todo)[1] = "segment"
    BY <1>1, Types DEF HeadOf
  <2>2. step \in {"segment"} \X BOOLEAN \X (Name \cup {None}) \X BOOLEAN
    BY <2>1, <1>2 DEF Step
  <2> QED
    BY <2>2
<1>4. /\ UNCHANGED <<disk, pinned, deletable, status, autoCommit, gen, lastGen, counter, rollback,
                     merge, faults>>
  BY DEF FlushSegment, deleter
<1>5. CASE buf.docs = {} /\ buf.dels = {}
  <2>1. Advance /\ UNCHANGED <<dir, infos, commitPending, buf>>
    BY <1>5 DEF FlushSegment
  <2>2. UNCHANGED <<disk, pinned, autoCommit, si, rollback, buf, merge, faults>> /\ status' = status
    BY <1>4, <2>1 DEF si
  <2>3. dir' \subseteq File /\ deletable' \subseteq File
    BY <1>4, <2>1 DEF IInv, RestOK
  <2> QED
    BY <1>1, <2>1, <2>2, <2>3, Ran
<1>6. CASE ~(buf.docs = {} /\ buf.dels = {})
  <2>1. PICK st : st = IF step[2] THEN None ELSE step[3]
    OBVIOUS
  <2>2. PICK sc : sc = (~step[2] /\ step[4])
    OBVIOUS
  <2>3. st \in Name \cup {None} /\ sc \in BOOLEAN
    BY <1>3, <2>1, <2>2
  <2>4. PICK new : new = [name |-> buf.seg, docs |-> buf.docs, dels |-> {}, delGen |-> 0,
                          cfs |-> FALSE, store |-> st, storeCfs |-> sc]
    OBVIOUS
  <2>5. PICK all : all = IF buf.docs # {} THEN Append(infos, new) ELSE infos
    OBVIOUS
  <2>6. PICK mk : mk = IF buf.docs # {} /\ UseCompound THEN <<<<"cfs", buf.seg>>>> ELSE <<>>
    OBVIOUS
  <2>7. PICK f, nds : /\ f = IF buf.dels # {} /\ merge.stage # "none" THEN <<<<"die">>>>
                             ELSE Unflush(nds)
                      /\ nds = NewDels(infos, infos')
    OBVIOUS
  <2>8. PICK t : t = Tail(op.todo)
    OBVIOUS
  <2>9. PICK js : js = infos'
    OBVIOUS
  <2>10. PICK b2 : b2 = buf'
    OBVIOUS
  <2>11. PICK o2 : o2 = op'
    OBVIOUS
  <2>12. /\ js = AppliedTo(all, buf.dels)
         /\ dir' = dir \cup (IF buf.docs # {} THEN {Core(buf.seg)} ELSE {})
                       \cup {Del(js[i].name, js[i].delGen) : i \in {j \in DOMAIN all : js[j] # all[j]}}
         /\ b2 = [buf EXCEPT !.docs = {}, !.dels = {}, !.seg = None,
                    !.store = IF buf.docs # {} /\ step[2] THEN None ELSE @]
         /\ commitPending' = (commitPending \/ ~autoCommit)
         /\ o2 = Recommit(op, (CommitSteps \o mk) \o t, infos, f)
    <3>1. js = AppliedTo(all, buf.dels)
      BY <1>2, <1>6, <2>1, <2>2, <2>4, <2>5, <2>9 DEF FlushSegment, AppliedTo
    <3>2. dir' = dir \cup (IF buf.docs # {} THEN {Core(buf.seg)} ELSE {})
                     \cup {Del(js[i].name, js[i].delGen) : i \in {j \in DOMAIN all : js[j] # all[j]}}
      <4> DEFINE al == IF buf.docs # {}
                       THEN Append(infos, [name |-> buf.seg, docs |-> buf.docs, dels |-> {},
                              delGen |-> 0, cfs |-> FALSE,
                              store |-> IF Head(op.todo)[2] THEN None ELSE Head(op.todo)[3],
                              storeCfs |-> ~Head(op.todo)[2] /\ Head(op.todo)[4]])
                       ELSE infos
      <4>1. al = all
        BY <1>2, <2>1, <2>2, <2>4, <2>5
      <4>2. dir' = dir \cup (IF buf.docs # {} THEN {Core(buf.seg)} ELSE {})
                       \cup {Del(infos'[i].name, infos'[i].delGen) :
                               i \in {j \in DOMAIN al : infos'[j] # al[j]}}
        BY <1>6, Zenon DEF FlushSegment
      <4> HIDE DEF al
      <4> QED
        BY <4>1, <4>2, <2>9
    <3>3. b2 = [buf EXCEPT !.docs = {}, !.dels = {}, !.seg = None,
                  !.store = IF buf.docs # {} /\ step[2] THEN None ELSE @]
      BY <1>2, <1>6, <2>10 DEF FlushSegment
    <3>4. commitPending' = (commitPending \/ ~autoCommit)
      BY <1>6 DEF FlushSegment, MarkPending
    <3>5. o2 = Recommit(op, (CommitSteps \o mk) \o t, infos, f)
      BY <1>2, <1>6, <2>6, <2>7, <2>8, <2>11 DEF FlushSegment, Recommit
    <3> QED
      BY <3>1, <3>2, <3>3, <3>4, <3>5
  <2>13. /\ buf.docs \subseteq Doc /\ buf.dels \subseteq Doc /\ buf.seg \in Name \cup {None}
         /\ buf.docs # {} => buf.seg \in Name
         /\ buf.store \in Name \cup {None} /\ buf.closed \in BOOLEAN
    BY DEF IInv, BufOK, BufShape
  <2>14. counter \in Nat /\ Calmer(merge, merge) /\ None \in {None, buf.seg}
    BY Types DEF Calmer
  <2>15. Fits(infos, counter, None, merge)
    <3>1. Fits(infos, counter, buf.seg, merge)
      BY DEF IInv, InfosOK
    <3> QED
      BY <3>1, <2>14, FitsStill
  <2>16. Fits(all, counter, None, merge) /\ LiveDocs(infos) \subseteq LiveDocs(all)
    <3>1. CASE buf.docs # {}
      BY <3>1, <2>3, <2>4, <2>5, NewSegment
    <3>2. CASE buf.docs = {}
      BY <3>2, <2>5, <2>15
    <3> QED
      BY <3>1, <3>2
  <2>17. /\ Fits(js, counter, None, merge) /\ AllDocs(js) = AllDocs(all)
         /\ buf.dels = {} => js = all
         /\ {Del(js[i].name, js[i].delGen) : i \in {j \in DOMAIN all : js[j] # all[j]}} \subseteq File
    BY <2>12, <2>13, <2>16, AllDeleted
  <2>18. dir' \subseteq File
    <3>1. buf.docs # {} => Core(buf.seg) \in File
      BY <2>13 DEF Core, File
    <3> QED
      BY <3>1, <2>12, <2>17 DEF IInv, RestOK
  <2>19. /\ b2 \in [docs : SUBSET Doc, dels : SUBSET Doc, seg : Name \cup {None},
                    store : Name \cup {None}, closed : BOOLEAN]
         /\ b2.docs = {} /\ b2.seg = None
    <3>1. PICK e, sb : e = {} /\ sb = IF buf.docs # {} /\ step[2] THEN None ELSE buf.store
      OBVIOUS
    <3>2. sb \in Name \cup {None} /\ e \in SUBSET Doc
      BY <3>1, <2>13
    <3>3. buf \in [docs : SUBSET Doc, dels : SUBSET Doc, seg : Name \cup {None},
                   store : Name \cup {None}, closed : BOOLEAN]
      BY DEF IInv, BufOK, BufShape
    <3>4. b2 = [buf EXCEPT !.docs = e, !.dels = e, !.seg = None, !.store = sb]
      BY <3>1, <3>3, <2>12
    <3>5. None \in Name \cup {None}
      OBVIOUS
    <3> QED
      BY <3>1, <3>2, <3>3, <3>4, <3>5
  <2>20. BufShape(b2, counter)
    <3>1. None < counter
      BY <2>14 DEF None
    <3> QED
      BY <3>1, <2>19 DEF BufShape
  <2>21. MergeShape(merge, counter, None)
    BY <2>14, MergeStill DEF IInv, MergeOK
  <2>22. OpFits(op, merge, buf.store) /\ OpShape(op) /\ Script(op.todo)
    BY DEF IInv, OpOK, OpFits, OpShape
  <2>23. Script(t) /\ Names(t) \subseteq Names(op.todo) \ Firsts
    BY <1>1, <2>8, <2>22, Rest
  <2>24. Script(mk) /\ Names(mk) \subseteq {"cfs"}
    <3>1. CASE buf.docs # {} /\ UseCompound
      <4>1. PICK a : a = <<"cfs", buf.seg>>
        OBVIOUS
      <4>2. a \in Step /\ a[1] = "cfs"
        BY <3>1, <4>1, <2>13 DEF Step
      <4>3. mk = <<a>>
        BY <3>1, <4>1, <2>6
      <4>4. Script(<<a>>) /\ Names(<<a>>) = {"cfs"}
        BY <4>2, OneStep, Literals
      <4> QED
        BY <4>3, <4>4
    <3>2. CASE ~(buf.docs # {} /\ UseCompound)
      <4>1. mk = <<>>
        BY <3>2, <2>6
      <4> QED
        BY <4>1, Literals, PlainScript
    <3> QED
      BY <3>1, <3>2
  <2>25. PICK r : r = CommitSteps \o mk
    OBVIOUS
  <2>26. Script(r) /\ Names(r) \subseteq {"write", "ckpt", "cfs"} /\ HeadOf(r) \notin {"stores", "finish"}
    <3>1. Names(mk) \cap Firsts = {}
      BY <2>24 DEF Firsts
    <3> QED
      BY <3>1, <2>24, <2>25, CommitThen
  <2>27. PICK s : s = r \o t
    OBVIOUS
  <2>28. Script(s) /\ Names(s) = Names(r) \cup Names(t)
    <3>1. Names(t) \cap Firsts = {} /\ "bind" \notin Names(r) /\ "merged" \notin Names(r)
      BY <2>23, <2>26
    <3> QED
      BY <3>1, <2>23, <2>26, <2>27, Followed
  <2>29. HeadOf(s) \notin {"stores", "finish"}
    <3>1. HeadOf(s) = "idle" \/ HeadOf(s) \in Names(s)
      BY <2>28, HeadName DEF Script
    <3>2. "stores" \notin Names(s) /\ "finish" \notin Names(s)
      BY <2>23, <2>26, <2>28 DEF Firsts
    <3> QED
      BY <3>1, <3>2
  <2>30. Script(f) /\ Names(f) \subseteq {"die", "delete", "partial", "ckpt", "refresh", "throw"}
    <3>1. DOMAIN infos \subseteq DOMAIN all /\ \A i \in DOMAIN infos : all[i] = infos[i]
      <4>1. infos \in Seq(SegmentInfos)
        BY Types
      <4> QED
        BY <4>1, <2>5
    <3>2. nds = {Del(js[i].name, js[i].delGen) : i \in {k \in DOMAIN infos : js[k] # infos[k]}}
      BY <2>7, <2>9 DEF NewDels
    <3>3. nds \in SUBSET File /\ {} \in SUBSET File
      BY <3>1, <3>2, <2>17
    <3> QED
      BY <3>3, <2>7, <2>13, FailScripts, UnflushScript
  <2>31. o2 = Recommit(op, s, infos, f)
    BY <2>12, <2>25, <2>27
  <2>32. OpShape(o2) /\ o2.todo = s /\ o2.undo = infos /\ o2.onFail = f
    <3>1. Names(f) \cap {"write", "finish", "stores", "bind"} = {} /\ infos \in Seq(SegmentInfos)
      BY <2>30, Types
    <3> QED
      BY <3>1, <2>22, <2>28, <2>30, <2>31, Committing
  <2>33. OpFits(o2, merge, b2.store) /\ HeadOf(o2.todo) # "finish"
    <3>1. "merged" \notin Names(o2.onFail) /\ HeadOf(o2.todo) \notin {"stores", "finish"}
      BY <2>29, <2>30, <2>32
    <3>2. "bind" \in Names(o2.todo) => merge.stage = "init"
      BY <2>22, <2>23, <2>26, <2>28, <2>32 DEF OpFits
    <3>3. "merged" \in Names(o2.todo) => merge.stage \in {"ending", "compound"}
      BY <2>22, <2>23, <2>26, <2>28, <2>32 DEF OpFits
    <3> QED
      BY <3>1, <3>2, <3>3, <2>32 DEF OpFits
  <2>34. LiveDocs(infos) \subseteq AllDocs(js)
    BY <2>16, <2>17, LiveAreDocs
  <2>35. BufOK' /\ MergeOK' /\ OpOK' /\ StartOK' /\ RestOK'
    <3>1. BufOK' /\ MergeOK' /\ OpOK'
      BY <1>4, <2>10, <2>11, <2>19, <2>20, <2>21, <2>33 DEF BufOK, MergeOK, OpOK
    <3>2. StartOK'
      BY <1>1, <1>4 DEF StartOK, StartShape
    <3>3. commitPending' \in BOOLEAN
      BY <2>12
    <3> QED
      BY <1>4, <2>18, <3>1, <3>2, <3>3 DEF IInv, RestOK
  <2>36. /\ Fits(infos', counter, buf'.seg, merge') /\ LiveDocs(infos') \cap buf'.docs = {}
         /\ buf'.seg \in {None, buf.seg}
    BY <1>4, <2>9, <2>10, <2>17, <2>19
  <2>37. Undoes(op') => /\ op'.undo = infos /\ Fits(infos, counter, buf'.seg, merge')
                        /\ LiveDocs(infos) \subseteq AllDocs(infos') /\ buf'.docs = {}
    BY <1>4, <2>9, <2>10, <2>11, <2>15, <2>19, <2>32, <2>34
  <2>38. HeadOf(op'.todo) # "finish"
    BY <2>11, <2>33
  <2> QED
    BY <1>4, <2>35, <2>36, <2>37, <2>38, Replaced
<1> QED
  BY <1>5, <1>6

\* out replaces its sources in the list.
LEMMA CommitMergeInv ==
  ASSUME IInv, CommitMerge
  PROVE  IInv'
PROOF
<1>1. merge.stage = "built" /\ status \notin {"closed", "opening"}
  BY Merging DEF CommitMerge
<1>2. PICK c1, c2 : c1 = Current(merge.clone[1].name) /\ c2 = Current(merge.clone[2].name)
  OBVIOUS
<1>3. PICK n : n = merge.out.name
  OBVIOUS
<1>4. PICK nd : nd = NewDeletes
  OBVIOUS
<1>5. PICK dg : dg = IF nd = {} THEN 0 ELSE 1
  OBVIOUS
<1>6. PICK sc : sc = (merge.out.storeCfs \/ (merge.out.store # None
                        /\ \E i \in DOMAIN infos :
                             infos[i].store = merge.out.store /\ infos[i].storeCfs))
  OBVIOUS
<1>7. PICK out : out = [merge.out EXCEPT !.dels = nd, !.delGen = dg, !.storeCfs = sc]
  OBVIOUS
<1>8. PICK x : x = IF UseCompound THEN "committed" ELSE "none"
  OBVIOUS
<1>9. PICK js : js = infos'
  OBVIOUS
<1>10. PICK m2 : m2 = merge'
  OBVIOUS
<1>11. PICK o2 : o2 = op'
  OBVIOUS
<1>12. n \in Name /\ merge.out \in SegmentInfos
  BY <1>1, <1>3, MergedName
<1>13. /\ merge.out.docs = LiveDocs(merge.clone) /\ merge.out.name < counter
       /\ merge.out.name # buf.seg
  BY <1>1 DEF IInv, MergeOK, MergeShape
<1>14. /\ nd \subseteq Doc /\ nd \subseteq merge.out.docs
       /\ merge.out.docs \ nd = Live(infos[c1]) \cup Live(infos[c2])
       /\ nd # {} => 1 <= Cardinality(nd) /\ Cardinality(nd) \in Nat /\ Del(n, 1) \in File
  BY <1>1, <1>2, <1>4, <1>12, <1>13, Carried
<1>15. sc \in BOOLEAN /\ dg \in Nat
  BY <1>5, <1>6, <1>12 DEF SegmentInfos
<1>16. /\ out \in SegmentInfos /\ out.name = n /\ out.docs = merge.out.docs
       /\ out.dels = nd /\ out.delGen = dg
  BY <1>3, <1>7, <1>12, <1>14, <1>15 DEF SegmentInfos
<1>17. SegmentOK(out)
  <2>1. dg <= Cardinality(nd)
    BY <1>5, <1>14, FS_EmptySet
  <2> QED
    BY <2>1, <1>14, <1>16 DEF SegmentOK
<1>18. Live(out) = Live(infos[c1]) \cup Live(infos[c2])
  BY <1>14, <1>16 DEF Live
<1>19. c1 \in DOMAIN infos /\ c1 + 1 \in DOMAIN infos /\ c2 = c1 + 1
  BY <1>1, <1>2, Sources
<1>20. Fits(infos, counter, buf.seg, merge) /\ LiveDocs(infos) \cap buf.docs = {}
  BY DEF IInv, InfosOK
<1>21. Unused(n, infos)
  BY <1>1, <1>3, <1>20 DEF Fits
<1>22. js = SubSeq(infos, 1, c1 - 1) \o <<out>> \o SubSeq(infos, c1 + 2, Len(infos))
  BY <1>2, <1>4, <1>5, <1>6, <1>7, <1>9 DEF CommitMerge, Splice
<1>23. /\ ListOK(js, counter) /\ LiveDocs(js) = LiveDocs(infos)
       /\ \A name : Unused(name, infos) /\ name # n => Unused(name, js)
  <2>1. PICK ps : ps = SubSeq(infos, 1, c1 - 1) \o <<out>> \o SubSeq(infos, c1 + 2, Len(infos))
    OBVIOUS
  <2>2. ListOK(infos, counter) /\ out.name < counter /\ Unused(out.name, infos)
    BY <1>3, <1>13, <1>16, <1>20, <1>21 DEF Fits
  <2>3. Live(out) = Live(infos[c1]) \cup Live(infos[c1 + 1])
    BY <1>18, <1>19
  <2>4. /\ ListOK(ps, counter) /\ LiveDocs(ps) = LiveDocs(infos)
        /\ \A name : Unused(name, infos) /\ name # out.name => Unused(name, ps)
    BY <2>1, <2>2, <2>3, <1>17, <1>19, Spliced
  <2> QED
    BY <2>1, <2>4, <1>16, <1>22
<1>24. m2 = [merge EXCEPT !.stage = "ending", !.out = out]
  BY <1>4, <1>5, <1>6, <1>7, <1>10 DEF CommitMerge
<1>25. /\ m2 \in [stage : Stages, clone : Seq(SegmentInfos), out : SegmentInfos,
                  stores : BOOLEAN, aborted : BOOLEAN]
       /\ m2.stage = "ending"
  BY <1>1, <1>16, <1>24 DEF IInv, MergeOK, MergeShape, Stages
<1>26. MergeShape(m2, counter, buf.seg) /\ Calmer(m2, merge)
  BY <1>25 DEF MergeShape, Calmer
<1>27. Fits(js, counter, buf.seg, m2)
  <2>1. buf.seg # None => Unused(buf.seg, js)
    BY <1>3, <1>13, <1>20, <1>23 DEF Fits
  <2> QED
    BY <2>1, <1>23, <1>25 DEF Fits
<1>28. Fits(infos, counter, buf.seg, m2)
  BY <1>20, <1>25 DEF Fits
<1>29. PICK e : e = <<<<"release">>, <<"merged", x>>>>
  OBVIOUS
<1>30. PICK t : t = <<<<"throw", "merge">>>>
  OBVIOUS
<1>31. PICK p : p = <<<<"partial">>>>
  OBVIOUS
<1>32. /\ Script(e) /\ Names(e) = {"release", "merged"}
       /\ Script(t) /\ Names(t) = {"throw"} /\ Script(p) /\ Names(p) = {"partial"}
       /\ Script(Drop(n)) /\ Names(Drop(n)) = {"refresh", "release", "merged"}
  <2>1. {} \in SUBSET File /\ x \in {"none", "committed"}
    BY <1>8
  <2> QED
    BY <2>1, <1>12, <1>29, <1>30, <1>31, EndScripts
<1>33. PICK s : s = CommitSteps \o e
  OBVIOUS
<1>34. Script(s) /\ Names(s) \subseteq {"write", "ckpt", "release", "merged"}
       /\ HeadOf(s) \notin {"stores", "finish"}
  <2>1. Names(e) \cap Firsts = {}
    BY <1>32 DEF Firsts
  <2>2. /\ Script(s) /\ Names(s) \subseteq {"write", "ckpt"} \cup Names(e)
        /\ HeadOf(s) \notin {"stores", "finish"}
    BY <2>1, <1>32, <1>33, CommitThen
  <2> QED
    BY <2>2, <1>32
<1>35. PICK dr : dr = Drop(n)
  OBVIOUS
<1>36. PICK h : h = p \o dr
  OBVIOUS
<1>37. Script(h) /\ Names(h) = Names(p) \cup Names(dr)
  <2>1. Names(dr) \cap Firsts = {} /\ "bind" \notin Names(p) /\ "merged" \notin Names(p)
    BY <1>32, <1>35 DEF Firsts
  <2> QED
    BY <2>1, <1>32, <1>35, <1>36, Followed
<1>38. PICK f : f = h \o t
  OBVIOUS
<1>39. Script(f) /\ Names(f) = {"partial", "refresh", "release", "merged", "throw"}
  <2>1. Names(h) = {"partial", "refresh", "release", "merged"}
    BY <1>32, <1>35, <1>37
  <2>2. Names(t) \cap Firsts = {} /\ "bind" \notin Names(h) /\ Names(t) \subseteq {"throw"}
    BY <2>1, <1>32 DEF Firsts
  <2>3. Script(f) /\ Names(f) = Names(h) \cup Names(t)
    BY <2>2, <1>32, <1>37, <1>38, Followed
  <2> QED
    BY <2>1, <2>3, <1>32
<1>40. o2 = [todo |-> s, undo |-> infos, onFail |-> f, pausing |-> FALSE]
  BY <1>3, <1>8, <1>11, <1>29, <1>30, <1>31, <1>33, <1>35, <1>36, <1>38 DEF CommitMerge
<1>41. OpShape(o2) /\ o2.todo = s /\ o2.onFail = f /\ o2.undo = infos
  <2>1. s \in Seq(Step) /\ f \in Seq(Step) /\ infos \in Seq(SegmentInfos)
    BY <1>34, <1>39, Types DEF Script
  <2> QED
    BY <2>1, <1>34, <1>39, <1>40 DEF OpShape
<1>42. OpFits(o2, m2, buf.store) /\ HeadOf(o2.todo) # "finish"
  BY <1>25, <1>34, <1>39, <1>41 DEF OpFits
<1>43. UNCHANGED <<disk, pinned, deletable, status, autoCommit, gen, lastGen, counter, rollback,
                   faults, buf>>
  BY DEF CommitMerge, deleter
<1>44. commitPending' \in BOOLEAN
  BY DEF CommitMerge, MarkPending, IInv, RestOK
<1>45. dir' \subseteq File
  <2>1. dir' = dir \cup (IF nd = {} THEN {} ELSE {Del(n, 1)})
    BY <1>3, <1>4 DEF CommitMerge
  <2> QED
    BY <2>1, <1>14 DEF IInv, RestOK
<1>46. BufOK' /\ MergeOK' /\ OpOK' /\ StartOK' /\ RestOK'
  BY <1>1, <1>10, <1>11, <1>26, <1>42, <1>43, <1>44, <1>45
  DEF IInv, BufOK, MergeOK, OpOK, StartOK, StartShape, RestOK
<1>47. /\ Fits(infos', counter, buf'.seg, merge') /\ LiveDocs(infos') \cap buf'.docs = {}
       /\ op'.undo = infos /\ Fits(infos, counter, buf'.seg, merge')
       /\ LiveDocs(infos) \subseteq LiveDocs(infos')
       /\ HeadOf(op'.todo) # "finish" /\ buf'.seg \in {None, buf.seg}
  BY <1>9, <1>10, <1>11, <1>20, <1>23, <1>27, <1>28, <1>41, <1>42, <1>43
<1> QED
  BY <1>43, <1>46, <1>47, Replaced

LEMMA CommitCompoundInv ==
  ASSUME IInv, CommitCompound
  PROVE  IInv'
PROOF
<1>1. merge.stage = "compound" /\ status \notin {"closed", "opening"}
  BY Merging DEF CommitCompound
<1>2. PICK n : n = merge.out.name
  OBVIOUS
<1>3. n \in Name
  BY <1>1, <1>2, MergedName
<1>4. PICK fs : fs = {Cfs(n)}
  OBVIOUS
<1>5. fs \in SUBSET File
  BY <1>3, <1>4 DEF Cfs, File
<1>6. PICK e : e = <<<<"merged", "none">>>>
  OBVIOUS
<1>7. PICK d : d = <<<<"delete", fs>>>>
  OBVIOUS
<1>8. PICK pd : pd = <<<<"partial">>, <<"delete", fs>>>>
  OBVIOUS
<1>9. PICK t : t = <<<<"throw", "merge">>>>
  OBVIOUS
<1>10. /\ Script(e) /\ Names(e) = {"merged"} /\ Script(d) /\ Names(d) = {"delete"}
       /\ Script(pd) /\ Names(pd) = {"partial", "delete"} /\ Script(t) /\ Names(t) = {"throw"}
  <2>1. "none" \in {"none", "committed"}
    OBVIOUS
  <2> QED
    BY <2>1, <1>3, <1>5, <1>6, <1>7, <1>8, <1>9, EndScripts
<1>11. UNCHANGED <<dir, disk, pinned, deletable, status, autoCommit, gen, lastGen, counter, rollback,
                   merge, faults, buf>>
  BY DEF CommitCompound, deleter, store
<1>12. Fits(infos, counter, buf.seg, merge) /\ LiveDocs(infos) \cap buf.docs = {}
  BY DEF IInv, InfosOK
<1>13. BufOK' /\ MergeOK' /\ StartOK'
  BY <1>1, <1>11 DEF IInv, BufOK, MergeOK, StartOK, StartShape
<1>14. PICK gone \in BOOLEAN : gone = (merge.aborted \/ \A i \in DOMAIN infos : infos[i].name # n)
  <2>1. merge.aborted \in BOOLEAN
    BY DEF IInv, MergeOK, MergeShape
  <2> QED
    BY <2>1
<1>15. CASE gone
  <2>1. PICK s : s = d \o e
    OBVIOUS
  <2>2. Script(s) /\ Names(s) = {"delete", "merged"}
    <3>1. Names(e) \cap Firsts = {} /\ "bind" \notin Names(d) /\ "merged" \notin Names(d)
      BY <1>10 DEF Firsts
    <3>2. Script(s) /\ Names(s) = Names(d) \cup Names(e)
      BY <3>1, <1>10, <2>1, Followed
    <3> QED
      BY <3>2, <1>10
  <2>3. Begin(s, FALSE) /\ UNCHANGED <<infos, commitPending>>
    BY <1>2, <1>4, <1>6, <1>7, <1>14, <1>15, <2>1 DEF CommitCompound
  <2>4. RestOK'
    BY <1>11, <2>3 DEF IInv, RestOK
  <2>5. HeadOf(s) # "stores"
    BY <2>2, HeadName DEF Script
  <2>6. /\ counter <= counter' /\ LiveDocs(infos) \cap buf'.docs = {} /\ Calmer(merge', merge)
        /\ buf'.seg \in {None, buf.seg} /\ merge'.stage \in {"ending", "compound"}
        /\ status' \notin {"closed", "opening"}
    BY <1>1, <1>11, <1>12, Types DEF Calmer
  <2>7. Names(s) \cap {"write", "finish"} = {} /\ "bind" \notin Names(s) /\ FALSE \in BOOLEAN
    BY <2>2
  <2> QED
    BY <1>11, <1>13, <2>2, <2>3, <2>4, <2>5, <2>6, <2>7, Called
<1>16. CASE ~gone
  <2>1. PICK js : js = infos'
    OBVIOUS
  <2>2. PICK o2 : o2 = op'
    OBVIOUS
  <2>3. js = [infos EXCEPT ![Current(n)].cfs = TRUE]
    BY <1>2, <1>14, <1>16, <2>1 DEF CommitCompound
  <2>4. PICK c : c = Current(n)
    OBVIOUS
  <2>5. c \in DOMAIN infos
    BY <1>14, <1>16, <2>4 DEF Current
  <2>6. Fits(js, counter, buf.seg, merge) /\ LiveDocs(js) = LiveDocs(infos)
    <3>1. js = [i \in DOMAIN infos |-> IF i = c THEN [infos[i] EXCEPT !.cfs = TRUE] ELSE infos[i]]
      BY <2>3, <2>4, <2>5, Types
    <3>2. SamePlaces(js, infos)
      BY <3>1 DEF SamePlaces
    <3>3. \A i \in DOMAIN infos : infos[i] \in SegmentInfos
      BY Types
    <3>4. \A i \in DOMAIN infos : /\ js[i] \in SegmentInfos
            /\ js[i].name = infos[i].name /\ js[i].docs = infos[i].docs
            /\ js[i].dels = infos[i].dels /\ js[i].delGen = infos[i].delGen
      BY <3>1, <3>3 DEF SegmentInfos
    <3> QED
      BY <3>2, <3>4, <1>12, Repacked
  <2>7. PICK s : s = CommitSteps \o e
    OBVIOUS
  <2>8. Script(s) /\ Names(s) \subseteq {"write", "ckpt", "merged"}
        /\ HeadOf(s) \notin {"stores", "finish"}
    <3>1. Names(e) \cap Firsts = {}
      BY <1>10 DEF Firsts
    <3>2. /\ Script(s) /\ Names(s) \subseteq {"write", "ckpt"} \cup Names(e)
          /\ HeadOf(s) \notin {"stores", "finish"}
      BY <3>1, <1>10, <2>7, CommitThen
    <3> QED
      BY <3>2, <1>10
  <2>9. PICK h : h = pd \o e
    OBVIOUS
  <2>10. Script(h) /\ Names(h) = {"partial", "delete", "merged"}
    <3>1. Names(e) \cap Firsts = {} /\ "bind" \notin Names(pd) /\ "merged" \notin Names(pd)
      BY <1>10 DEF Firsts
    <3>2. Script(h) /\ Names(h) = Names(pd) \cup Names(e)
      BY <3>1, <1>10, <2>9, Followed
    <3> QED
      BY <3>2, <1>10
  <2>11. PICK f : f = h \o t
    OBVIOUS
  <2>12. Script(f) /\ Names(f) = {"partial", "delete", "merged", "throw"}
    <3>1. Names(t) \cap Firsts = {} /\ "bind" \notin Names(h) /\ Names(t) \subseteq {"throw"}
      BY <1>10, <2>10 DEF Firsts
    <3>2. Script(f) /\ Names(f) = Names(h) \cup Names(t)
      BY <3>1, <1>10, <2>10, <2>11, Followed
    <3> QED
      BY <3>2, <1>10, <2>10
  <2>13. o2 = [todo |-> s, undo |-> infos, onFail |-> f, pausing |-> FALSE]
    BY <1>2, <1>4, <1>6, <1>8, <1>9, <1>14, <1>16, <2>2, <2>7, <2>9, <2>11 DEF CommitCompound
  <2>14. OpShape(o2) /\ o2.todo = s /\ o2.onFail = f /\ o2.undo = infos
    <3>1. s \in Seq(Step) /\ f \in Seq(Step) /\ infos \in Seq(SegmentInfos)
      BY <2>8, <2>12, Types DEF Script
    <3> QED
      BY <3>1, <2>8, <2>12, <2>13 DEF OpShape
  <2>15. OpFits(o2, merge, buf.store) /\ HeadOf(o2.todo) # "finish"
    BY <1>1, <2>8, <2>12, <2>14 DEF OpFits
  <2>16. commitPending' \in BOOLEAN
    BY <1>14, <1>16, <1>2 DEF CommitCompound, MarkPending
  <2>17. OpOK' /\ RestOK'
    BY <1>11, <2>2, <2>15, <2>16 DEF IInv, OpOK, RestOK
  <2>18. /\ Fits(infos', counter, buf'.seg, merge') /\ LiveDocs(infos') \cap buf'.docs = {}
         /\ op'.undo = infos /\ Fits(infos, counter, buf'.seg, merge')
         /\ LiveDocs(infos) \subseteq LiveDocs(infos')
         /\ HeadOf(op'.todo) # "finish" /\ buf'.seg \in {None, buf.seg}
    BY <1>11, <1>12, <2>1, <2>2, <2>6, <2>14, <2>15
  <2> QED
    BY <1>11, <1>13, <2>17, <2>18, Replaced
<1> QED
  BY <1>15, <1>16

\* A merge starts: its sources are two neighbours.
LEMMA MergeInitInv ==
  ASSUME IInv, NEW i \in 1..MaxSeg, MergeInit(i)
  PROVE  IInv'
PROOF
<1>1. /\ status \notin {"closed", "opening"} /\ merge.stage = "none" /\ i + 1 \in DOMAIN infos
  BY DEF MergeInit
<1>2. PICK src : src = SubSeq(infos, i, i + 1)
  OBVIOUS
<1>3. infos \in Seq(SegmentInfos) /\ counter \in Nat
  BY Types
<1>4. i \in Nat /\ i \in DOMAIN infos
  BY <1>1, <1>3, BoundsAssumption
<1>5. src \in Seq(SegmentInfos) /\ Len(src) = 2 /\ src[1] = infos[i] /\ src[2] = infos[i + 1]
  <2>1. i \in 1..(Len(infos) + 1) /\ i + 1 \in 0..Len(infos)
    BY <1>1, <1>3, <1>4
  <2>2. /\ src \in Seq(SegmentInfos)
        /\ Len(src) = IF i <= i + 1 THEN (i + 1) - i + 1 ELSE 0
        /\ \A k \in 1..((i + 1) - i + 1) : src[k] = infos[i + k - 1]
    BY <2>1, <1>2, <1>3, SubSeqProperties
  <2>3. (i + 1) - i + 1 = 2 /\ i + 1 - 1 = i /\ i + 2 - 1 = i + 1
    BY <1>4
  <2> QED
    BY <2>2, <2>3, <1>4
<1>6. PICK stores \in BOOLEAN : stores = (\/ \E k \in 1..2 : src[k].dels # {} \/ src[k].store = None
                                          \/ src[1].store # src[2].store)
  OBVIOUS
<1>7. PICK fl \in BOOLEAN : fl = (/\ stores /\ buf.store # None
                                  /\ \E k \in 1..2 : src[k].store = buf.store)
  OBVIOUS
<1>8. PICK h : h = IF fl THEN FlushSteps(TRUE) ELSE <<>>
  OBVIOUS
<1>9. PICK b : b = <<<<"bind">>>>
  OBVIOUS
<1>10. PICK s : s = h \o b
  OBVIOUS
<1>11. /\ Script(h) /\ Names(h) \subseteq {"stores", "ckpt", "segment"}
       /\ HeadOf(h) = "stores" => buf.store # None
  <2>1. CASE fl
    BY <2>1, <1>8, FlushScript
  <2>2. CASE ~fl
    <3>1. h = <<>>
      BY <2>2, <1>8
    <3>2. Script(<<>>) /\ Names(<<>>) = {} /\ HeadOf(<<>>) = "idle"
      BY Literals, PlainScript, HeadName
    <3> QED
      BY <3>1, <3>2
  <2> QED
    BY <2>1, <2>2
<1>12. Script(b) /\ Names(b) = {"bind"} /\ b # <<>>
  <2>1. PICK a : a = <<"bind">>
    OBVIOUS
  <2>2. a \in Step /\ a[1] = "bind" /\ b = <<a>>
    BY <2>1, <1>9 DEF Step
  <2> QED
    BY <2>2, OneStep, Literals
<1>13. Script(s) /\ Names(s) = Names(h) \cup Names(b)
  <2>1. Names(b) \cap Firsts = {} /\ "bind" \notin Names(h) /\ "merged" \notin Names(h)
    BY <1>11, <1>12 DEF Firsts
  <2> QED
    BY <2>1, <1>10, <1>11, <1>12, Followed
<1>14. HeadOf(s) = "stores" => buf.store # None
  <2>1. h \in Seq(Step) /\ b \in Seq(Step) /\ s \in Seq(Step)
    BY <1>11, <1>12, <1>13 DEF Script
  <2>2. CASE h = <<>>
    <3>1. s = b
      BY <2>1, <2>2, <1>10
    <3>2. HeadOf(s) \in {"bind"}
      BY <3>1, <1>12, <2>1, HeadName
    <3> QED
      BY <3>2
  <2>3. CASE h # <<>>
    <3>1. Len(h) \in Nat /\ Len(h) > 0 /\ Len(b) \in Nat
      BY <2>1, <2>3
    <3>2. Len(s) = Len(h) + Len(b) /\ \A k \in 1..Len(s) : s[k] = IF k <= Len(h) THEN h[k] ELSE b[k - Len(h)]
      BY <2>1, <1>10, ConcatProperties
    <3>3. s[1] = h[1] /\ s # <<>>
      BY <3>1, <3>2, <2>1
    <3>4. HeadOf(s) = HeadOf(h)
      BY <3>3, <2>1, <2>3, HeadName
    <3> QED
      BY <3>4, <1>11
  <2> QED
    BY <2>2, <2>3
<1>15. PICK m2 : m2 = merge'
  OBVIOUS
<1>16. m2 = [NoMerge EXCEPT !.stage = "init", !.clone = src, !.stores = stores]
  BY <1>2, <1>6, <1>15 DEF MergeInit
<1>17. m2.stage = "init" /\ m2.clone = src
       /\ m2 \in [stage : Stages, clone : Seq(SegmentInfos), out : {None},
                  stores : BOOLEAN, aborted : BOOLEAN]
  BY <1>5, <1>6, <1>16 DEF NoMerge, Stages
<1>18. MergeShape(m2, counter, buf.seg)
  BY <1>5, <1>17 DEF MergeShape
<1>19. Together(src, infos)
  <2>1. i + 1 - 1 = i /\ i + 2 - 1 = i + 1
    BY <1>4
  <2>2. \A k \in 1..2 : src[k] = infos[i + k - 1]
    BY <2>1, <1>5
  <2> QED
    BY <2>2, <1>1, <1>4 DEF Together
<1>20. Fits(infos, counter, buf.seg, m2) /\ LiveDocs(infos) \cap buf.docs = {}
  BY <1>17, <1>19 DEF IInv, InfosOK, Fits
<1>21. Begin(s, fl)
  BY <1>2, <1>6, <1>7, <1>8, <1>9, <1>10 DEF MergeInit
<1>22. PICK o2 : o2 = op'
  OBVIOUS
<1>23. o2 = [todo |-> s, undo |-> infos, onFail |-> <<>>, pausing |-> fl]
  BY <1>21, <1>22 DEF Begin
<1>24. /\ OpShape(o2) /\ o2.todo = s /\ o2.onFail = <<>> /\ ~Undoes(o2)
       /\ HeadOf(o2.todo) # "finish"
  <2>1. Names(s) \cap {"write", "finish"} = {}
    BY <1>11, <1>12, <1>13
  <2> QED
    BY <2>1, <1>3, <1>13, <1>23, Begun
<1>25. OpFits(o2, m2, buf.store)
  BY <1>11, <1>12, <1>13, <1>14, <1>17, <1>24 DEF OpFits
<1>26. UNCHANGED <<dir, disk, pinned, deletable, status, autoCommit, infos, gen, lastGen, counter,
                   commitPending, rollback, buf, faults>>
  BY DEF MergeInit, si, deleter, store
<1>27. BufOK' /\ MergeOK' /\ OpOK' /\ StartOK' /\ RestOK'
  BY <1>1, <1>15, <1>18, <1>22, <1>25, <1>26
  DEF IInv, BufOK, MergeOK, OpOK, StartOK, StartShape, RestOK
<1>28. /\ Fits(infos', counter, buf'.seg, merge') /\ LiveDocs(infos') \cap buf'.docs = {}
       /\ ~Undoes(op') /\ HeadOf(op'.todo) # "finish" /\ buf'.seg \in {None, buf.seg}
  BY <1>15, <1>20, <1>22, <1>24, <1>26
<1> QED
  BY <1>26, <1>27, <1>28, Replaced

\* It takes its copy and a name.
LEMMA MergeBindInv ==
  ASSUME IInv, MergeBind
  PROVE  IInv'
PROOF
<1>1. op.todo # <<>> /\ HeadOf(op.todo) = "bind" /\ Advance
  BY Heads DEF MergeBind, At
<1>2. merge.stage = "init" /\ status \notin {"closed", "opening"}
  <2>1. "bind" \in Names(op.todo)
    BY <1>1, Types, HeadName
  <2>2. merge.stage = "init"
    BY <2>1 DEF IInv, OpOK, OpFits
  <2> QED
    BY <2>2, Merging
<1>3. PICK c1, c2 : c1 = Current(merge.clone[1].name) /\ c2 = Current(merge.clone[2].name)
  OBVIOUS
<1>4. /\ c1 \in DOMAIN infos /\ c1 + 1 \in DOMAIN infos /\ c2 = c1 + 1 /\ c2 \in DOMAIN infos
      /\ \A i \in DOMAIN infos : SegmentOK(infos[i]) /\ infos[i] \in SegmentInfos
  BY <1>2, <1>3, Sources
<1>5. PICK src : src = [k \in 1..2 |-> infos[Current(merge.clone[k].name)]]
  OBVIOUS
<1>6. src \in Seq(SegmentInfos) /\ Len(src) = 2 /\ src[1] = infos[c1] /\ src[2] = infos[c2]
  <2>1. src[1] = infos[c1] /\ src[2] = infos[c2] /\ DOMAIN src = 1..2
    BY <1>3, <1>5
  <2>2. \A k \in 1..2 : src[k] \in SegmentInfos
    BY <2>1, <1>4
  <2>3. src \in [1..2 -> SegmentInfos]
    BY <2>1, <2>2, <1>5
  <2>4. src \in Seq(SegmentInfos)
    <3>1. PICK n \in Nat : n = 2
      OBVIOUS
    <3>2. src \in [1..n -> SegmentInfos]
      BY <2>3, <3>1
    <3> QED
      BY <3>2
  <2>5. Len(src) \in Nat /\ DOMAIN src = 1..Len(src)
    BY <2>4, LenProperties
  <2>6. Len(src) = 2
    BY <2>1, <2>5
  <2> QED
    BY <2>1, <2>4, <2>6
<1>7. counter \in Nat /\ counter < MaxSeg /\ MaxSeg \in Nat /\ counter \in Name
  BY Types DEF MergeBind, Name
<1>8. PICK st, sc : /\ st = (IF merge.stores THEN None ELSE src[1].store)
                    /\ sc = (~merge.stores /\ src[1].storeCfs)
  OBVIOUS
<1>9. st \in Name \cup {None} /\ sc \in BOOLEAN
  <2>1. src[1] \in SegmentInfos
    BY <1>4, <1>6
  <2> QED
    BY <2>1, <1>8 DEF SegmentInfos
<1>10. PICK e : e = {}
  OBVIOUS
<1>11. PICK out : out = [name |-> counter, docs |-> e, dels |-> e, delGen |-> 0, cfs |-> FALSE,
                         store |-> st, storeCfs |-> sc]
  OBVIOUS
<1>12. out \in SegmentInfos /\ out.name = counter /\ out.dels = {}
  <2>1. e \in SUBSET Doc
    BY <1>10
  <2>2. out \in SegmentInfos /\ out.name = counter /\ out.dels = e
    BY <2>1, <1>7, <1>9, <1>11 DEF SegmentInfos
  <2> QED
    BY <2>2, <1>10
<1>13. PICK m2 : m2 = merge'
  OBVIOUS
<1>14. m2 = [merge EXCEPT !.stage = "running", !.clone = src, !.out = out]
  BY <1>5, <1>8, <1>10, <1>11, <1>13 DEF MergeBind, NewSegmentName
<1>15. /\ m2 \in [stage : Stages, clone : Seq(SegmentInfos), out : SegmentInfos,
                  stores : BOOLEAN, aborted : BOOLEAN]
       /\ m2.stage = "running" /\ m2.clone = src /\ m2.out = out
  <2>1. merge \in [stage : Stages, clone : Seq(SegmentInfos), out : {None},
                   stores : BOOLEAN, aborted : BOOLEAN]
    BY <1>2 DEF IInv, MergeOK, MergeShape
  <2> QED
    BY <2>1, <1>6, <1>12, <1>14 DEF Stages
<1>16. /\ Fits(infos, counter, buf.seg, merge) /\ LiveDocs(infos) \cap buf.docs = {}
       /\ Fits(rollback, counter, buf.seg, NoMerge) /\ BufShape(buf, counter)
  BY DEF IInv, InfosOK, RollbackOK, BufOK
<1>17. PICK n2 : n2 = counter + 1
  OBVIOUS
<1>18. n2 \in Nat /\ counter < n2 /\ counter <= n2 /\ n2 <= MaxSeg
  BY <1>7, <1>17
<1>19. buf.seg \in {None, buf.seg} /\ buf.seg < n2 /\ buf.seg # counter
  <2>1. buf.seg \in Int /\ buf.seg < counter
    BY <1>16 DEF BufShape, Name, None
  <2> QED
    BY <2>1, <1>7, <1>18
<1>20. MergeShape(m2, n2, buf.seg)
  <2>1. infos[c1].name # infos[c2].name /\ Live(infos[c1]) \cap Live(infos[c2]) = {}
    <3>1. c1 # c2
      BY <1>4, Types
    <3> QED
      BY <3>1, <1>4, <1>16 DEF Fits, ListOK
  <2>2. \A k \in 1..2 : SegmentOK(src[k])
    BY <1>4, <1>6
  <2> QED
    BY <2>1, <2>2, <1>6, <1>12, <1>15, <1>18, <1>19 DEF MergeShape
<1>21. Together(src, infos)
  <2>1. c1 \in Int
    BY <1>4, Types
  <2>2. c1 + 1 - 1 = c1 /\ c1 + 2 - 1 = c2
    BY <2>1, <1>4
  <2>3. \A k \in 1..2 : src[k] = infos[c1 + k - 1]
    BY <2>2, <1>6
  <2> QED
    BY <2>3, <1>4 DEF Together
<1>22. Fits(infos, n2, buf.seg, m2)
  <2>1. Calmer(NoMerge, merge)
    BY DEF Calmer, NoMerge
  <2>2. Fits(infos, n2, buf.seg, NoMerge)
    BY <2>1, <1>7, <1>16, <1>18, <1>19, FitsStill
  <2>3. Unused(counter, infos)
    <3>1. \A i \in DOMAIN infos : infos[i].name < counter /\ infos[i].name \in Int
      BY <1>16 DEF Fits, ListOK, SegmentOK, SegmentInfos, Name
    <3> QED
      BY <3>1, <1>7 DEF Unused
  <2> QED
    BY <2>2, <2>3, <1>12, <1>15, <1>21 DEF Fits
<1>23. Fits(rollback, n2, buf.seg, NoMerge)
  <2>1. Calmer(NoMerge, NoMerge)
    BY DEF Calmer
  <2> QED
    BY <2>1, <1>7, <1>16, <1>18, <1>19, FitsStill
<1>24. BufShape(buf, n2)
  BY <1>16, <1>19 DEF BufShape
<1>25. op' = Going(op, Tail(op.todo))
  BY <1>1 DEF Advance, GoOn, Going
<1>26. PICK o2 : o2 = op'
  OBVIOUS
<1>27. OpShape(op) /\ OpFits(op, merge, buf.store)
  BY DEF IInv, OpOK, OpFits
<1>28. OpShape(o2) /\ Names(o2.todo) = {} /\ ~Undoes(o2) /\ HeadOf(o2.todo) \notin Firsts
  BY <1>1, <1>25, <1>26, <1>27, Advanced, AdvancedFits
<1>29. OpFits(o2, m2, buf.store)
  BY <1>28 DEF OpFits, Firsts
<1>30. /\ UNCHANGED <<dir, disk, pinned, deletable, status, autoCommit, infos, gen, lastGen, rollback,
                      buf, faults>>
       /\ counter' = n2 /\ commitPending' = TRUE
  BY <1>17 DEF MergeBind, store
<1>31. InfosOK'
  BY <1>13, <1>16, <1>22, <1>30 DEF InfosOK
<1>32. UndoOK' /\ RollbackOK' /\ BufOK' /\ MergeOK' /\ OpOK' /\ StartOK'
  BY <1>2, <1>13, <1>20, <1>23, <1>24, <1>26, <1>28, <1>29, <1>30
  DEF UndoOK, Undoing, RollbackOK, BufOK, MergeOK, OpOK, StartOK, StartShape
<1>33. DiskOK'
  <2>1. ~At("finish")'
    BY <1>26, <1>28 DEF At, Head1, HeadOf, Firsts
  <2> QED
    BY <2>1, <1>30 DEF IInv, DiskOK
<1>34. RestOK'
  <2>1. n2 \in 0..MaxSeg
    BY <1>7, <1>18
  <2> QED
    BY <2>1, <1>30 DEF IInv, RestOK
<1> QED
  BY <1>31, <1>32, <1>33, <1>34 DEF IInv

-----------------------------------------------------------------------------
(* Writing segments_N.                                                     *)

\* The segments, the buffer and the merge stay while the disk changes.
LEMMA OnDisk ==
  ASSUME IInv, UNCHANGED <<infos, counter, rollback, buf, merge, status, autoCommit, pinned,
                           deletable, faults>>,
         dir' \subseteq File, gen' \in 0..MaxGen, lastGen' \in 0..MaxGen,
         commitPending' \in BOOLEAN, DiskOK',
         OpFits(op', merge, buf.store), Undoes(op') => Undoing /\ op'.undo = op.undo,
         StartShape(status, buf, merge, op', rollback)
  PROVE  IInv'
PROOF
<1>1. InfosOK' /\ RollbackOK' /\ BufOK' /\ MergeOK' /\ OpOK' /\ StartOK'
  BY DEF IInv, InfosOK, RollbackOK, BufOK, MergeOK, OpOK, StartOK
<1>2. UndoOK'
  BY DEF IInv, UndoOK, Undoing
<1>3. RestOK'
  BY DEF IInv, RestOK
<1> QED
  BY <1>1, <1>2, <1>3 DEF IInv

\* "finish" comes in the place of "write".
LEMMA FinishScript ==
  ASSUME NEW t, Script(t), Names(t) \cap Firsts = {}, NEW s, s = <<<<"finish">>>> \o t
  PROVE  Script(s) /\ Names(s) = {"finish"} \cup Names(t) /\ s # <<>> /\ HeadOf(s) = "finish"
PROOF
<1>1. PICK a : a = <<"finish">>
  OBVIOUS
<1>2. a \in Step /\ a[1] = "finish"
  BY <1>1 DEF Step
<1>3. PICK f : f = <<a>>
  OBVIOUS
<1>4. Script(f) /\ Names(f) = {"finish"} /\ f \in Seq(Step) /\ f[1] = a /\ Len(f) = 1
  <2>1. Script(f) /\ Names(f) = {a[1]} /\ f \in Seq(Step)
    BY <1>2, <1>3, OneStep, Literals
  <2> QED
    BY <2>1, <1>2, <1>3
<1>5. s = f \o t
  BY <1>1, <1>3
<1>6. Script(s) /\ Names(s) = {"finish"} \cup Names(t)
  <2>1. "bind" \notin Names(f) /\ "merged" \notin Names(f) /\ Script(f)
    BY <1>4
  <2>2. Script(f \o t) /\ Names(f \o t) = Names(f) \cup Names(t)
    BY ONLY <2>1, Script(t), Names(t) \cap Firsts = {}, Followed
  <2> QED
    BY <2>2, <1>4, <1>5
<1>7. s \in Seq(Step) /\ t \in Seq(Step)
  BY <1>6 DEF Script
<1>8. s # <<>>
  BY <1>6, <1>7, HeadName
<1>9. s[1] = f[1]
  <2>1. Len(t) \in Nat
    BY <1>7
  <2>2. \A i \in 1..(Len(f) + Len(t)) : s[i] = IF i <= Len(f) THEN f[i] ELSE t[i - Len(f)]
    BY <1>4, <1>5, <1>7, ConcatProperties
  <2> QED
    BY <2>1, <2>2, <1>4
<1> QED
  BY <1>2, <1>4, <1>6, <1>7, <1>8, <1>9, HeadName

LEMMA StartWriteInv ==
  ASSUME IInv, StartWrite
  PROVE  IInv'
PROOF
<1>1. op.todo # <<>> /\ HeadOf(op.todo) = "write"
  BY Heads DEF StartWrite, At
<1>2. OpFits(op, merge, buf.store) /\ OpShape(op) /\ Script(op.todo)
  BY DEF IInv, OpOK, OpFits, OpShape
<1>3. PICK t : t = Tail(op.todo)
  OBVIOUS
<1>4. Script(t) /\ Names(t) \subseteq Names(op.todo) \ Firsts
  BY <1>1, <1>2, <1>3, Rest
<1>5. PICK s : s = <<<<"finish">>>> \o t
  OBVIOUS
<1>6. Script(s) /\ Names(s) = {"finish"} \cup Names(t) /\ s # <<>> /\ HeadOf(s) = "finish"
  <2>1. Names(t) \cap Firsts = {}
    BY <1>4
  <2> QED
    BY <2>1, <1>4, <1>5, FinishScript
<1>7. PICK o2 : o2 = op'
  OBVIOUS
<1>8. o2 = Going(op, s)
  BY <1>3, <1>5, <1>7 DEF StartWrite, GoOn, Going
<1>9. OpShape(o2) /\ o2.todo = s /\ o2.onFail = op.onFail /\ o2.undo = op.undo
  BY <1>2, <1>6, <1>8, WentOn
<1>10. Undoes(o2) => Undoing
  BY <1>1, <1>9 DEF Undoes, Undoing
<1>11. OpFits(o2, merge, buf.store)
  BY <1>2, <1>4, <1>6, <1>9, <1>10 DEF OpFits, Undoing
<1>12. StartShape(status, buf, merge, o2, rollback)
  <2>1. StartShape(status, buf, merge, op, rollback)
    BY DEF IInv, StartOK
  <2> QED
    BY <2>1, <1>1, <1>4, <1>6, <1>9 DEF StartShape
<1>13. PICK g : g = gen + 1
  OBVIOUS
<1>14. gen' = g /\ g \in Gen /\ g \in 0..MaxGen
  BY <1>13, Types DEF StartWrite, Gen
<1>15. dir' \subseteq File
  <2>1. SegmentsFile(g) \in File
    BY <1>14 DEF File
  <2> QED
    BY <2>1, <1>14 DEF StartWrite, IInv, RestOK
<1>16. PICK d2 : d2 = disk'
  OBVIOUS
<1>17. PICK e : e = [complete |-> FALSE, infos |-> <<>>, counter |-> counter]
  OBVIOUS
<1>18. e \in DiskSegments /\ e.infos = <<>> /\ e.counter = counter
  <2>1. <<>> \in Seq(SegmentInfos)
    OBVIOUS
  <2> QED
    BY <2>1, <1>17, Types DEF DiskSegments
<1>19. /\ DOMAIN d2 = DOMAIN disk \cup {g}
       /\ \A h \in DOMAIN d2 : d2[h] = IF h = g THEN e ELSE disk[h]
  <2>1. d2 = [h \in DOMAIN disk \cup {g} |-> IF h = g THEN e ELSE disk[h]]
    BY <1>14, <1>16, <1>17 DEF StartWrite
  <2> QED
    BY <2>1
<1>20. \A h \in DOMAIN d2 : d2[h] \in DiskSegments /\ ListOK(d2[h].infos, d2[h].counter)
  <2>1. ListOK(e.infos, e.counter)
    BY <1>18, NoSegments
  <2>2. \A h \in DOMAIN disk : disk[h] \in DiskSegments /\ ListOK(disk[h].infos, disk[h].counter)
    BY DEF IInv, DiskOK
  <2> QED
    BY <2>1, <2>2, <1>18, <1>19
<1>21. UNCHANGED <<infos, counter, rollback, buf, merge, status, autoCommit, pinned, deletable,
                   faults, lastGen, commitPending>>
  BY DEF StartWrite, deleter
<1>22. g \in DOMAIN d2 /\ ListOK(infos, d2[g].counter)
  <2>1. ListOK(infos, counter)
    BY DEF IInv, InfosOK, Fits
  <2>2. g \in DOMAIN d2 /\ d2[g].counter = counter
    BY <1>18, <1>19
  <2> QED
    BY <2>1, <2>2
<1>23. DiskOK'
  <2>1. DOMAIN d2 \subseteq Gen
    BY <1>14, <1>19 DEF IInv, DiskOK
  <2> QED
    BY <2>1, <1>14, <1>16, <1>20, <1>21, <1>22 DEF DiskOK
<1>24. lastGen' \in 0..MaxGen /\ commitPending' \in BOOLEAN
  BY <1>21 DEF IInv, RestOK
<1> QED
  BY <1>7, <1>9, <1>10, <1>11, <1>12, <1>14, <1>15, <1>21, <1>23, <1>24, OnDisk

LEMMA FinishWriteInv ==
  ASSUME IInv, FinishWrite
  PROVE  IInv'
PROOF
<1>1. op.todo # <<>> /\ HeadOf(op.todo) = "finish" /\ At("finish") /\ Advance
  BY Heads DEF FinishWrite, At
<1>2. OpFits(op, merge, buf.store) /\ OpShape(op) /\ Script(op.todo)
  BY DEF IInv, OpOK, OpFits, OpShape
<1>3. PICK o2 : o2 = op'
  OBVIOUS
<1>4. o2 = Going(op, Tail(op.todo))
  BY <1>1, <1>3 DEF Advance, GoOn, Going
<1>5. OpFits(o2, merge, buf.store) /\ ~Undoes(o2) /\ HeadOf(o2.todo) # "finish"
  BY <1>1, <1>2, <1>4, AdvancedFits
<1>6. Names(o2.todo) \subseteq Names(op.todo) /\ o2.onFail \in {op.onFail, <<>>}
  <2>1. PICK t : t = Tail(op.todo)
    OBVIOUS
  <2>2. Script(t) /\ Names(t) \subseteq Names(op.todo) \ Firsts
    BY <1>1, <1>2, <2>1, Rest
  <2> QED
    BY <2>1, <2>2, <1>2, <1>4, WentOn
<1>7. StartShape(status, buf, merge, o2, rollback)
  <2>1. StartShape(status, buf, merge, op, rollback)
    BY DEF IInv, StartOK
  <2>2. Names(<<>>) = {}
    BY Literals
  <2>3. o2.onFail # <<>> => op.onFail # <<>>
    BY <1>6
  <2>4. Names(o2.onFail) \subseteq Names(op.onFail)
    BY <2>2, <1>6
  <2>5. status # "closed"
    BY <2>1, <1>1 DEF StartShape
  <2> QED
    BY <2>1, <2>3, <2>4, <2>5, <1>6 DEF StartShape
<1>8. /\ DOMAIN disk \subseteq Gen
      /\ \A h \in DOMAIN disk : disk[h] \in DiskSegments /\ ListOK(disk[h].infos, disk[h].counter)
      /\ gen \in DOMAIN disk /\ ListOK(infos, disk[gen].counter)
  BY <1>1 DEF IInv, DiskOK
<1>9. PICK d2 : d2 = disk'
  OBVIOUS
<1>10. PICK e : e = [disk[gen] EXCEPT !.complete = TRUE, !.infos = infos]
  OBVIOUS
<1>11. e \in DiskSegments /\ e.infos = infos /\ e.counter = disk[gen].counter
  BY <1>8, <1>10, Types DEF DiskSegments
<1>12. DOMAIN d2 = DOMAIN disk /\ \A h \in DOMAIN d2 : d2[h] = IF h = gen THEN e ELSE disk[h]
  BY <1>8, <1>9, <1>10 DEF FinishWrite, DiskSegments
<1>13. DiskOK'
  <2>1. ~At("finish")'
    BY <1>3, <1>5 DEF At, Head1, HeadOf
  <2>2. ListOK(e.infos, e.counter)
    BY <1>8, <1>11
  <2>3. \A h \in DOMAIN d2 : d2[h] \in DiskSegments /\ ListOK(d2[h].infos, d2[h].counter)
    BY <2>2, <1>8, <1>11, <1>12
  <2> QED
    BY <2>1, <2>3, <1>8, <1>9, <1>12 DEF DiskOK
<1>14. /\ UNCHANGED <<infos, counter, rollback, buf, merge, status, autoCommit, pinned, deletable,
                      faults, dir, gen>>
       /\ lastGen' = gen /\ commitPending' = FALSE
  BY DEF FinishWrite, deleter
<1>15. /\ dir' \subseteq File /\ gen' \in 0..MaxGen /\ lastGen' \in 0..MaxGen
       /\ commitPending' \in BOOLEAN
  BY <1>14 DEF IInv, RestOK
<1> QED
  BY <1>3, <1>5, <1>7, <1>13, <1>14, <1>15, OnDisk

\* The segments are again what they were before the operation.
LEMMA WriteFailsInv ==
  ASSUME IInv, WriteFails
  PROVE  IInv'
PROOF
<1>1. /\ op.todo # <<>> /\ HeadOf(op.todo) \in {"write", "finish"} /\ op.onFail # <<<<"die">>>>
      /\ Undoing
  BY Heads DEF WriteFails, Undoing, Undoes, At, HeadOf, Head1
<1>2. OpFits(op, merge, buf.store) /\ OpShape(op) /\ Script(op.onFail) /\ op.onFail \in Seq(Step)
  BY DEF IInv, OpOK, OpFits, OpShape, Script
<1>3. Fits(op.undo, counter, buf.seg, merge) /\ LiveDocs(op.undo) \cap buf.docs = {}
  BY <1>1 DEF IInv, UndoOK
<1>4. PICK f : f = op.onFail
  OBVIOUS
<1>5. PICK o2 : o2 = op'
  OBVIOUS
<1>6. o2 = Going(op, f)
  BY <1>4, <1>5 DEF WriteFails, GoOn, Going
<1>7. OpShape(o2) /\ o2.todo = f /\ o2.onFail \in {op.onFail, <<>>}
  BY <1>2, <1>4, <1>6, WentOn
<1>8. Names(f) \cap {"write", "finish", "stores", "bind"} = {}
  BY <1>2, <1>4 DEF OpShape
<1>9. HeadOf(f) \notin {"write", "finish", "stores"}
  BY <1>2, <1>4, <1>8, HeadName
<1>10. OpFits(o2, merge, buf.store) /\ ~Undoes(o2) /\ HeadOf(o2.todo) # "finish"
  BY <1>1, <1>2, <1>4, <1>7, <1>8, <1>9 DEF OpFits, Undoes, Undoing
<1>11. StartShape(status, buf, merge, o2, rollback)
  <2>1. StartShape(status, buf, merge, op, rollback) /\ Names(<<>>) = {}
    BY Literals DEF IInv, StartOK
  <2>2. Names(o2.onFail) \subseteq Names(op.onFail) /\ (o2.onFail # <<>> => op.onFail # <<>>)
    BY <2>1, <1>7
  <2>3. status # "closed"
    BY <2>1, <1>1 DEF StartShape
  <2>4. "throw" \in Names(f) => op.onFail # <<>>
    BY <2>1, <1>4
  <2> QED
    BY <2>1, <2>2, <2>3, <2>4, <1>4, <1>7 DEF StartShape
<1>12. UNCHANGED <<dir, disk, pinned, deletable, status, autoCommit, lastGen, counter,
                   commitPending, rollback, buf, merge>>
  BY DEF WriteFails, store, deleter
<1>13. gen' \in 0..MaxGen /\ faults' \in 0..MaxFaults
  BY Types DEF WriteFails
<1>14. InfosOK'
  <2>1. PICK is : is = op.undo
    OBVIOUS
  <2>2. infos' = is
    BY <2>1 DEF WriteFails
  <2> QED
    BY <2>1, <2>2, <1>3, <1>12 DEF InfosOK
<1>15. UndoOK' /\ RollbackOK' /\ BufOK' /\ MergeOK' /\ OpOK' /\ StartOK'
  BY <1>5, <1>10, <1>11, <1>12
  DEF IInv, UndoOK, Undoing, RollbackOK, BufOK, MergeOK, OpOK, StartOK
<1>16. DiskOK'
  <2>1. ~At("finish")'
    BY <1>5, <1>10 DEF At, Head1, HeadOf
  <2> QED
    BY <2>1, <1>12 DEF IInv, DiskOK
<1>17. RestOK'
  BY <1>12, <1>13 DEF IInv, RestOK
<1> QED
  BY <1>14, <1>15, <1>16, <1>17 DEF IInv

-----------------------------------------------------------------------------
(* Before there is a writer, and when it is gone.                          *)

\* Nothing is there.
LEMMA Blank ==
  ASSUME NEW n \in Nat
  PROVE  /\ Fits(<<>>, n, None, NoMerge) /\ LiveDocs(<<>>) = {}
         /\ BufShape(EmptyBuf, n) /\ EmptyBuf.seg = None /\ EmptyBuf.docs = {}
         /\ EmptyBuf.store = None
         /\ MergeShape(NoMerge, n, None)
         /\ OpFits(Idle, NoMerge, None) /\ ~Undoes(Idle) /\ HeadOf(Idle.todo) = "idle"
         /\ \A st : StartShape(st, EmptyBuf, NoMerge, Idle, <<>>)
PROOF
<1>1. <<>> \in Seq(SegmentInfos) /\ <<>> \in Seq(Step) /\ Script(<<>>) /\ Names(<<>>) = {}
  <2>1. <<>> \in Seq(SegmentInfos) /\ <<>> \in Seq(Step)
    OBVIOUS
  <2>2. Names(<<>>) = {}
    BY Literals
  <2>3. Script(<<>>)
    BY <2>1, <2>2, PlainScript
  <2> QED
    BY <2>1, <2>2, <2>3
<1>2. Fits(<<>>, n, None, NoMerge) /\ LiveDocs(<<>>) = {}
  BY NoSegments DEF Fits, NoMerge
<1>3. /\ BufShape(EmptyBuf, n) /\ EmptyBuf.seg = None /\ EmptyBuf.docs = {}
      /\ EmptyBuf.store = None
  BY DEF BufShape, EmptyBuf, None
<1>4. MergeShape(NoMerge, n, None)
  BY <1>1 DEF MergeShape, NoMerge, Stages
<1>5. Idle.todo = <<>> /\ Idle.onFail = <<>> /\ HeadOf(<<>>) = "idle"
  BY DEF Idle, HeadOf
<1>6. OpShape(Idle)
  <2>1. Idle \in [todo : Seq(Step), undo : Seq(SegmentInfos), onFail : Seq(Step), pausing : BOOLEAN]
    BY <1>1 DEF Idle
  <2> QED
    BY <2>1, <1>1, <1>5 DEF OpShape
<1>7. OpFits(Idle, NoMerge, None) /\ ~Undoes(Idle) /\ HeadOf(Idle.todo) = "idle"
  BY <1>1, <1>5, <1>6 DEF OpFits, Undoes
<1>8. \A st : StartShape(st, EmptyBuf, NoMerge, Idle, <<>>)
  BY <1>1, <1>5 DEF StartShape
<1> QED
  BY <1>2, <1>3, <1>4, <1>7, <1>8

\* The writer is not there, or not any more.
LEMMA Gone ==
  ASSUME IInv, infos' = <<>>, counter' = 0, rollback' = <<>>, buf' = EmptyBuf,
         merge' = NoMerge, op' = Idle, disk' = disk, RestOK'
  PROVE  IInv'
PROOF
<1>1. 0 \in Nat
  OBVIOUS
<1>2. InfosOK' /\ UndoOK' /\ RollbackOK' /\ BufOK' /\ MergeOK' /\ OpOK' /\ StartOK'
  BY <1>1, Blank
  DEF InfosOK, UndoOK, Undoing, RollbackOK, BufOK, MergeOK, OpOK, StartOK
<1>3. ~At("finish")'
  BY <1>1, Blank DEF At, Head1, HeadOf
<1>4. DiskOK'
  BY <1>3 DEF IInv, DiskOK
<1> QED
  BY <1>2, <1>4 DEF IInv

LEMMA ForgetInv ==
  ASSUME IInv, Forget, dir' \subseteq dir, faults' \in 0..MaxFaults
  PROVE  IInv'
PROOF
<1>1. /\ infos' = <<>> /\ counter' = 0 /\ rollback' = <<>> /\ buf' = EmptyBuf
      /\ merge' = NoMerge /\ op' = Idle /\ disk' = disk
      /\ status' = "closed" /\ gen' = 0 /\ lastGen' = 0 /\ commitPending' = FALSE
      /\ pinned' = pinned /\ autoCommit' = autoCommit /\ deletable' = {}
  BY DEF Forget, D!ForgetEffect
<1>2. 0 \in 0..MaxGen /\ 0 \in 0..MaxSeg
  BY BoundsAssumption
<1>3. dir' \subseteq File
  BY DEF IInv, RestOK
<1>4. RestOK'
  BY <1>1, <1>2, <1>3 DEF IInv, RestOK
<1> QED
  BY <1>1, <1>4, Gone

LEMMA CrashInv ==
  ASSUME IInv, Crash \/ CloseDeleter
  PROVE  IInv'
PROOF
<1>1. Forget
  BY DEF Crash, CloseDeleter
<1>2. dir' \subseteq dir
  <2>1. CASE Crash
    BY <2>1 DEF Crash
  <2>2. CASE CloseDeleter
    BY <2>2 DEF CloseDeleter
  <2> QED
    BY <2>1, <2>2
<1>3. faults' \in 0..MaxFaults
  BY Types DEF Crash, CloseDeleter, IInv, RestOK
<1> QED
  BY <1>1, <1>2, <1>3, ForgetInv

LEMMA ThrowInv ==
  ASSUME IInv, Throw
  PROVE  IInv'
PROOF
<1>1. op.todo # <<>> /\ HeadOf(op.todo) = "throw" /\ "throw" \in Names(op.todo)
  BY Types, Heads, HeadName DEF Throw, At
<1>2. op' = Idle
  BY DEF Throw, GoOn
<1>3. StartShape(status, buf, merge, op, rollback)
  BY DEF IInv, StartOK
<1>4. status # "closed"
  BY <1>1, <1>3 DEF StartShape
<1>5. UNCHANGED <<dir, disk, pinned, deletable, autoCommit, rollback, buf, merge, faults>>
  BY DEF Throw, store, deleter
<1>6. CASE status = "opening"
  <2>1. buf = EmptyBuf /\ merge = NoMerge /\ rollback = <<>>
    BY <1>1, <1>3, <1>6 DEF StartShape
  <2>2. /\ status' = "closed" /\ infos' = <<>> /\ gen' = 0 /\ lastGen' = 0 /\ counter' = 0
        /\ commitPending' = FALSE
    BY <1>6 DEF Throw
  <2>3. 0 \in 0..MaxGen /\ 0 \in 0..MaxSeg
    BY BoundsAssumption
  <2>4. RestOK'
    BY <2>2, <2>3, <1>5 DEF IInv, RestOK
  <2> QED
    BY <2>1, <2>2, <2>4, <1>2, <1>5, Gone
<1>7. CASE status # "opening"
  <2>1. UNCHANGED <<infos, gen, lastGen, counter, commitPending>>
    BY <1>7 DEF Throw, si
  <2>2. status' \in {"closing", "open", status}
    BY <1>7 DEF Throw
  <2>3. status' \notin {"closed", "opening"}
    BY <2>2, <1>4, <1>7
  <2>4. RestOK'
    BY <2>1, <2>2, <1>5 DEF IInv, RestOK
  <2>5. /\ OpShape(Idle) /\ Idle.todo = <<>> /\ ~Undoes(Idle) /\ HeadOf(Idle.todo) = "idle"
        /\ Names(<<>>) = {}
    <3>1. 0 \in Nat
      OBVIOUS
    <3> QED
      BY <3>1, Blank, Literals DEF OpFits, Idle
  <2>6. OpFits(Idle, merge, buf.store)
    BY <2>5 DEF OpFits
  <2>7. BufOK' /\ MergeOK' /\ OpOK' /\ StartOK'
    BY <2>1, <2>3, <2>6, <1>2, <1>5 DEF IInv, BufOK, MergeOK, OpOK, StartOK, StartShape
  <2>8. counter <= counter' /\ LiveDocs(infos) \cap buf'.docs = {} /\ Calmer(merge', merge)
    BY <2>1, <1>5, Types DEF IInv, InfosOK, Calmer
  <2>9. ~Undoes(op') /\ HeadOf(op'.todo) # "finish"
    BY <2>5, <1>2
  <2> QED
    BY <2>1, <2>4, <2>7, <2>8, <2>9, <1>5, Kept
<1> QED
  BY <1>6, <1>7

LEMMA AbortRollbackInv ==
  ASSUME IInv, AbortRollback
  PROVE  IInv'
PROOF
<1>1. status = "aborting" /\ merge.stage = "none" /\ status' = "aborted"
  BY DEF AbortRollback
<1>2. PICK s : s = <<<<"ckpt", FALSE>>, <<"refresh", None>>>>
  OBVIOUS
<1>3. Script(s) /\ Names(s) = {"ckpt", "refresh"}
  <2>1. None \in Name \cup {None} /\ {} \in SUBSET File
    OBVIOUS
  <2> QED
    BY <2>1, <1>2, FailScripts
<1>4. PICK o2 : o2 = op'
  OBVIOUS
<1>5. o2 = [todo |-> s, undo |-> infos, onFail |-> <<>>, pausing |-> FALSE]
  BY <1>2, <1>4 DEF AbortRollback, Begin
<1>6. /\ OpShape(o2) /\ o2.todo = s /\ o2.onFail = <<>> /\ ~Undoes(o2)
      /\ HeadOf(o2.todo) # "finish"
  <2>1. Names(s) \cap {"write", "finish"} = {} /\ infos \in Seq(SegmentInfos) /\ FALSE \in BOOLEAN
    BY <1>3, Types
  <2> QED
    BY <2>1, <1>3, <1>5, Begun
<1>7. PICK b2 : b2 = buf'
  OBVIOUS
<1>8. /\ BufShape(b2, counter) /\ b2.docs = {} /\ b2.seg = None
  <2>1. b2 = [EmptyBuf EXCEPT !.closed = buf.closed]
    BY <1>7 DEF AbortRollback
  <2>2. buf.closed \in BOOLEAN /\ counter \in Nat
    BY Types DEF IInv, BufOK, BufShape
  <2>3. /\ b2 \in [docs : SUBSET Doc, dels : SUBSET Doc, seg : Name \cup {None},
                   store : Name \cup {None}, closed : BOOLEAN]
        /\ b2.docs = {} /\ b2.seg = None
    BY <2>1, <2>2 DEF EmptyBuf
  <2> QED
    BY <2>2, <2>3 DEF BufShape, None
<1>9. HeadOf(s) # "stores"
  BY <1>3, HeadName DEF Script
<1>10. OpFits(o2, merge, b2.store)
  BY <1>3, <1>6, <1>9 DEF OpFits
<1>11. PICK is : is = rollback
  OBVIOUS
<1>12. Fits(is, counter, None, merge)
  <2>1. Calmer(merge, NoMerge) /\ counter \in Nat /\ counter <= counter
    BY <1>1, Types DEF Calmer
  <2>2. Fits(is, counter, buf.seg, NoMerge)
    BY <1>11 DEF IInv, RollbackOK
  <2> QED
    BY <2>1, <2>2, FitsStill
<1>13. /\ UNCHANGED <<dir, disk, pinned, deletable, autoCommit, gen, lastGen, counter,
                      commitPending, merge, faults>>
       /\ infos' = is /\ rollback' = <<>>
  BY <1>11 DEF AbortRollback, store, deleter
<1>14. InfosOK'
  BY <1>7, <1>8, <1>12, <1>13 DEF InfosOK
<1>15. RollbackOK'
  <2>1. Fits(<<>>, counter, None, NoMerge)
    BY Types, Blank
  <2> QED
    BY <2>1, <1>7, <1>8, <1>13 DEF RollbackOK
<1>16. MergeOK'
  <2>1. MergeShape(merge, counter, None)
    BY <1>1 DEF IInv, MergeOK, MergeShape
  <2> QED
    BY <2>1, <1>7, <1>8, <1>13 DEF MergeOK
<1>17. UndoOK' /\ BufOK' /\ OpOK' /\ StartOK' /\ RestOK'
  BY <1>1, <1>4, <1>6, <1>7, <1>8, <1>10, <1>13
  DEF IInv, UndoOK, Undoing, BufOK, OpOK, StartOK, StartShape, RestOK
<1>18. DiskOK'
  <2>1. ~At("finish")'
    BY <1>4, <1>6 DEF At, Head1, HeadOf
  <2> QED
    BY <2>1, <1>13 DEF IInv, DiskOK
<1> QED
  BY <1>14, <1>15, <1>16, <1>17, <1>18 DEF IInv

-----------------------------------------------------------------------------
(* Opening.                                                                *)

\* A set of generations has a largest.
LEMMA Largest ==
  ASSUME NEW S \in SUBSET Gen, S # {}
  PROVE  \E g \in S : \A h \in S : h <= g
PROOF
<1> DEFINE R == OpToRel(<, Nat)
           T == {MaxGen - g : g \in S}
<1>1. IsWellFoundedOn(R, Nat)
  BY NatLessThanWellFounded
<1>2. T \subseteq Nat /\ T # {}
  <2>1. \A g \in Gen : MaxGen - g \in Nat
    BY BoundsAssumption DEF Gen
  <2>2. PICK g \in S : TRUE
    OBVIOUS
  <2>3. MaxGen - g \in T
    OBVIOUS
  <2> QED
    BY <2>1, <2>3
<1>3. \A k, m \in T : k < m => <<k, m>> \in R
  BY <1>2 DEF OpToRel
<1>4. \A g \in S : MaxGen - g \in T
  OBVIOUS
<1>5. \A m \in T : \E g \in S : m = MaxGen - g
  OBVIOUS
<1> HIDE DEF R, T
<1>6. PICK m \in T : \A k \in T : ~(<<k, m>> \in R)
  BY <1>1, <1>2, WFMin
<1>7. PICK g \in S : m = MaxGen - g
  BY <1>5
<1>8. ASSUME NEW h \in S
      PROVE  h <= g
  <2>1. ~(MaxGen - h < m)
    BY <1>3, <1>4, <1>6
  <2> QED
    BY <2>1, <1>7, BoundsAssumption DEF Gen
<1> QED
  BY <1>8

LEMMA CurrentGenType == CurrentGen \in 0..MaxGen
PROOF
<1>1. PICK gs : gs = {g \in Gen : SegmentsFile(g) \in dir}
  OBVIOUS
<1>2. CurrentGen = IF gs = {} THEN 0 ELSE CHOOSE g \in gs : \A h \in gs : h <= g
  BY <1>1 DEF CurrentGen
<1>3. gs # {} => (CHOOSE g \in gs : \A h \in gs : h <= g) \in gs
  BY <1>1, Largest
<1> QED
  BY <1>1, <1>2, <1>3, BoundsAssumption DEF Gen

\* A writer is being constructed, with these segments.
LEMMA Starting ==
  ASSUME IInv, status = "closed", status' = "opening", autoCommit' \in BOOLEAN,
         UNCHANGED <<dir, disk, pinned, deletable, commitPending, buf, merge, faults>>,
         gen' \in 0..MaxGen, lastGen' = gen',
         NEW is, NEW n \in 0..MaxSeg, ListOK(is, n), infos' = is, counter' = n, rollback' = is,
         OpFits(op', NoMerge, None), HeadOf(op'.todo) # "finish",
         StartShape("opening", EmptyBuf, NoMerge, op', is),
         Undoes(op') => op'.undo = is
  PROVE  IInv'
PROOF
<1>1. buf = EmptyBuf /\ merge = NoMerge
  BY DEF IInv, StartOK, StartShape
<1>2. n \in Nat
  BY BoundsAssumption
<1>3. Fits(is, n, None, NoMerge)
  BY DEF Fits, NoMerge
<1>4. EmptyBuf.seg = None /\ EmptyBuf.docs = {} /\ EmptyBuf.store = None
  BY DEF EmptyBuf
<1>5. InfosOK' /\ RollbackOK' /\ UndoOK'
  BY <1>1, <1>3, <1>4, LiveAreDocs DEF InfosOK, RollbackOK, UndoOK, Undoing
<1>6. BufShape(EmptyBuf, n) /\ MergeShape(NoMerge, n, None)
  BY <1>2, Blank
<1>7. BufOK' /\ MergeOK' /\ OpOK' /\ StartOK'
  BY <1>1, <1>4, <1>6 DEF BufOK, MergeOK, OpOK, StartOK
<1>8. DiskOK'
  <2>1. ~At("finish")'
    BY DEF At, Head1, HeadOf
  <2> QED
    BY <2>1 DEF IInv, DiskOK
<1>9. RestOK'
  BY DEF IInv, RestOK
<1> QED
  BY <1>5, <1>7, <1>8, <1>9 DEF IInv

LEMMA OpenInv ==
  ASSUME IInv, NEW ac \in AutoCommitModes, Open(ac)
  PROVE  IInv'
PROOF
<1>1. status = "closed" /\ status' = "opening" /\ FoundGen # 0 /\ autoCommit' \in BOOLEAN
  BY FlagsAssumption DEF Open
<1>2. PICK is : is = disk[FoundGen].infos
  OBVIOUS
<1>3. PICK n : n = disk[FoundGen].counter
  OBVIOUS
<1>4. FoundGen \in 0..MaxGen /\ n \in 0..MaxSeg /\ ListOK(is, n)
  BY <1>1, <1>2, <1>3, Found
<1>5. PICK s : s = <<<<"ctor">>>>
  OBVIOUS
<1>6. Script(s) /\ Names(s) = {"ctor"}
  <2>1. PICK a : a = <<"ctor">>
    OBVIOUS
  <2>2. a \in Step /\ a[1] = "ctor" /\ s = <<a>>
    BY <2>1, <1>5 DEF Step
  <2> QED
    BY <2>2, OneStep, Literals
<1>7. PICK o2 : o2 = op'
  OBVIOUS
<1>8. o2 = [todo |-> s, undo |-> infos, onFail |-> <<>>, pausing |-> FALSE]
  BY <1>5, <1>7 DEF Open, Begin
<1>9. /\ OpShape(o2) /\ o2.todo = s /\ o2.onFail = <<>> /\ ~Undoes(o2)
      /\ HeadOf(o2.todo) # "finish"
  <2>1. Names(s) \cap {"write", "finish"} = {} /\ infos \in Seq(SegmentInfos) /\ FALSE \in BOOLEAN
    BY <1>6, Types
  <2> QED
    BY <2>1, <1>6, <1>8, Begun
<1>10. HeadOf(s) # "stores"
  BY <1>6, HeadName DEF Script
<1>11. OpFits(o2, NoMerge, None)
  BY <1>6, <1>9, <1>10 DEF OpFits
<1>12. StartShape("opening", EmptyBuf, NoMerge, o2, is)
  <2>1. Names(<<>>) = {}
    BY Literals
  <2> QED
    BY <2>1, <1>6, <1>9 DEF StartShape
<1>13. /\ UNCHANGED <<dir, disk, pinned, deletable, commitPending, buf, merge, faults>>
       /\ gen' = FoundGen /\ lastGen' = FoundGen
       /\ infos' = is /\ counter' = n /\ rollback' = is
  BY <1>2, <1>3 DEF Open, store, deleter
<1> QED
  BY <1>1, <1>4, <1>7, <1>9, <1>11, <1>12, <1>13, Starting

LEMMA CreateInv ==
  ASSUME IInv, NEW ac \in AutoCommitModes, Create(ac)
  PROVE  IInv'
PROOF
<1>1. status = "closed" /\ status' = "opening" /\ autoCommit' \in BOOLEAN
  BY FlagsAssumption DEF Create
<1>2. PICK n : n = IF FoundGen # 0 THEN disk[FoundGen].counter ELSE 0
  OBVIOUS
<1>3. n \in 0..MaxSeg /\ n \in Nat
  BY <1>2, Found, BoundsAssumption
<1>4. gen' \in 0..MaxGen /\ lastGen' = gen'
  BY Found, CurrentGenType DEF Create
<1>5. PICK w, c, t : w = <<"write">> /\ c = <<"ctor">> /\ t = <<"throw", "caller">>
  OBVIOUS
<1>6. /\ w \in Step /\ c \in Step /\ t \in Step
      /\ w[1] = "write" /\ c[1] = "ctor" /\ t[1] = "throw"
  BY <1>5 DEF Step
<1>7. PICK s, f : s = <<w, c>> /\ f = <<t>>
  OBVIOUS
<1>8. s \in Seq(Step) /\ Names(s) = {"write", "ctor"} /\ Script(s) /\ HeadOf(s) = "write"
  <2>1. s \in Seq(Step) /\ Names(s) = {"write", "ctor"}
    BY <1>6, <1>7, Literals
  <2>2. DOMAIN s = {1, 2} /\ s[1] = w /\ s[2] = c /\ Len(s) = 2 /\ s # <<>>
    BY <1>7
  <2>3. Script(s)
    BY <2>1, <2>2, <1>6 DEF Script
  <2> QED
    BY <2>1, <2>2, <2>3, <1>6, HeadName
<1>9. f \in Seq(Step) /\ Names(f) = {"throw"} /\ Script(f)
  BY <1>6, <1>7, Literals, OneStep
<1>10. PICK e : e = <<>>
  OBVIOUS
<1>11. PICK o2 : o2 = op'
  OBVIOUS
<1>12. o2 = [todo |-> s, undo |-> e, onFail |-> f, pausing |-> FALSE]
  BY <1>5, <1>7, <1>10, <1>11 DEF Create
<1>13. OpShape(o2) /\ o2.todo = s /\ o2.onFail = f /\ o2.undo = e
  <2>1. e \in Seq(SegmentInfos)
    BY <1>10
  <2> QED
    BY <2>1, <1>8, <1>9, <1>12 DEF OpShape
<1>14. OpFits(o2, NoMerge, None) /\ HeadOf(o2.todo) # "finish"
  BY <1>8, <1>9, <1>13 DEF OpFits
<1>15. StartShape("opening", EmptyBuf, NoMerge, o2, e)
  BY <1>8, <1>9, <1>10, <1>13 DEF StartShape
<1>16. ListOK(e, n)
  BY <1>10, NoSegments
<1>17. /\ UNCHANGED <<dir, disk, pinned, deletable, commitPending, buf, merge, faults>>
       /\ infos' = e /\ counter' = n /\ rollback' = e
  BY <1>2, <1>10 DEF Create, store, deleter
<1> QED
  BY <1>1, <1>3, <1>4, <1>11, <1>13, <1>14, <1>15, <1>16, <1>17, Starting

-----------------------------------------------------------------------------
(* The invariant.                                                          *)

LEMMA InitInv ==
  ASSUME Init
  PROVE  IInv
PROOF
<1>1. /\ infos = <<>> /\ counter = 0 /\ rollback = <<>> /\ buf = EmptyBuf /\ merge = NoMerge
      /\ op = Idle /\ disk = << >> /\ status = "closed"
      /\ dir = {} /\ pinned = {} /\ deletable = {} /\ autoCommit \in AutoCommitModes
      /\ gen = 0 /\ lastGen = 0 /\ commitPending = FALSE /\ faults = 0
  BY DEF Init
<1>2. 0 \in Nat /\ 0 \in 0..MaxGen /\ 0 \in 0..MaxSeg /\ 0 \in 0..MaxFaults
  BY BoundsAssumption
<1>3. InfosOK /\ UndoOK /\ RollbackOK /\ BufOK /\ MergeOK /\ OpOK /\ StartOK
  BY <1>1, <1>2, Blank DEF InfosOK, UndoOK, Undoing, RollbackOK, BufOK, MergeOK, OpOK, StartOK
<1>4. DiskOK
  <2>1. DOMAIN disk = {}
    BY <1>1
  <2>2. ~At("finish")
    BY <1>1, <1>2, Blank, Heads DEF At
  <2> QED
    BY <2>1, <2>2 DEF DiskOK
<1>5. RestOK
  BY <1>1, <1>2, FlagsAssumption DEF RestOK
<1> QED
  BY <1>3, <1>4, <1>5 DEF IInv

LEMMA OpStepInv ==
  ASSUME IInv, OpStep
  PROVE  IInv'
PROOF
  BY ConstructDeleterInv, FlushDocStoresInv, FlushSegmentInv, FlushCompoundInv, StartWriteInv,
     FinishWriteInv, DeleterCheckpointInv, DeleteInv, ThrowInv, MergeBindInv, MergeReleaseInv,
     MergedInv, CrashInv
  DEF OpStep

LEMMA FailureInv ==
  ASSUME IInv, Failure
  PROVE  IInv'
PROOF
  BY FlushFailsInv, FlushCompoundFailsInv, WriteFailsInv, MergeDeletesFailInv,
     MergeCompoundFailsInv, CrashInv
  DEF Failure

LEMMA MergeStepInv ==
  ASSUME IInv, MergeStep
  PROVE  IInv'
PROOF
  BY MergeBuildInv, MergeFailsInv, CommitMergeAbortedInv, CommitMergeInv, MergeCompoundInv,
     CommitCompoundInv
  DEF MergeStep

LEMMA CloseStepInv ==
  ASSUME IInv, CloseStep
  PROVE  IInv'
PROOF
  BY StopMergesInv, CloseCommitInv, AbortRollbackInv, AbortCloseInv DEF CloseStep

LEMMA CallInv ==
  ASSUME IInv, Call
  PROVE  IInv'
PROOF
  BY OpenInv, CreateInv, AddDocInv, AddDocFailsInv, DeleteDocInv, FlushInv, MergeInitInv,
     CloseInv, AbortInv, ReaderInv
  DEF Call

LEMMA StutterInv ==
  ASSUME IInv, UNCHANGED vars
  PROVE  IInv'
PROOF
<1>1. UNCHANGED <<infos, rollback, disk, gen, op, counter, buf, merge, dir, pinned, deletable,
                  status, autoCommit, lastGen, commitPending, faults>>
  BY DEF vars, store, deleter, si
<1>2. RestOK' /\ StartOK'
  BY <1>1 DEF IInv, RestOK, StartOK
<1> QED
  BY <1>1, <1>2, BesideQuietly

LEMMA NextInv ==
  ASSUME IInv, [Next]_vars
  PROVE  IInv'
PROOF
  BY OpStepInv, FailureInv, MergeStepInv, CloseStepInv, CallInv, StutterInv DEF Next

\* The three lists of segments, the buffer, the merge and the operation fit
\* each other after any calls, interleavings, failures and crashes: it is
\* what the error paths of doFlush, commitMerge and rollbackTransaction rely
\* on when they put an older list in the place of the current one.
THEOREM Invariance == Spec => []IInv
PROOF
<1>1. Init => IInv
  BY InitInv
<1>2. IInv /\ [Next]_vars => IInv'
  BY NextInv
<1> QED
  BY <1>1, <1>2, PTL DEF Spec

LEMMA TypesFollow ==
  ASSUME IInv
  PROVE  TypeOK
PROOF
<1>1. \A g \in DOMAIN disk : /\ disk[g].complete \in BOOLEAN
                             /\ disk[g].infos \in Seq(SegmentInfos)
                             /\ disk[g].counter \in 0..MaxSeg
  <2>1. \A g \in DOMAIN disk : disk[g] \in DiskSegments
    BY DEF IInv, DiskOK
  <2> QED
    BY <2>1 DEF DiskSegments
<1>2. DOMAIN disk \subseteq Gen
  BY DEF IInv, DiskOK
<1>3. merge.clone \in Seq(SegmentInfos)
  BY DEF IInv, MergeOK, MergeShape
<1>4. buf \in [docs : SUBSET Doc, dels : SUBSET Doc, seg : Name \cup {None},
               store : Name \cup {None}, closed : BOOLEAN]
  BY DEF IInv, BufOK, BufShape
<1>5. RestOK
  BY DEF IInv
<1>6. /\ infos \in Seq(SegmentInfos) /\ rollback \in Seq(SegmentInfos)
      /\ op.undo \in Seq(SegmentInfos) /\ op.pausing \in BOOLEAN
  BY Types
<1> QED
  BY <1>1, <1>2, <1>3, <1>4, <1>5, <1>6 DEF TypeOK, RestOK

\* The variables of IndexWriter keep their types; among them: no segment
\* name and no generation beyond the bounds is handed out, every file has
\* one of the names files have, and a deletions file has a generation of at
\* most twice the number of documents.
THEOREM TypeCorrect == Spec => []TypeOK
PROOF
<1>1. IInv => TypeOK
  BY TypesFollow
<1> QED
  BY <1>1, Invariance, PTL

LEMMA SourcesFollow ==
  ASSUME IInv
  PROVE  MergeSourcesStay
PROOF
<1>1. SUFFICES ASSUME merge.stage \in {"running", "built"}
               PROVE  \E i \in DOMAIN infos :
                        \A k \in 1..2 :
                          /\ i + k - 1 \in DOMAIN infos
                          /\ infos[i + k - 1].name = merge.clone[k].name
                          /\ merge.clone[k].dels \subseteq infos[i + k - 1].dels
  BY DEF MergeSourcesStay
<1>2. Together(merge.clone, infos) /\ infos \in Seq(SegmentInfos)
  BY <1>1 DEF IInv, InfosOK, Fits, ListOK
<1>3. PICK i \in DOMAIN infos :
        /\ i + 1 \in DOMAIN infos
        /\ \A k \in 1..2 : /\ infos[i + k - 1].name = merge.clone[k].name
                           /\ infos[i + k - 1].docs = merge.clone[k].docs
                           /\ merge.clone[k].dels \subseteq infos[i + k - 1].dels
  BY <1>2 DEF Together
<1>4. \A k \in 1..2 : i + k - 1 \in DOMAIN infos
  <2>1. i \in Int
    BY <1>2
  <2>2. \A k \in 1..2 : i + k - 1 = i \/ i + k - 1 = i + 1
    BY <2>1
  <2> QED
    BY <2>2, <1>3
<1> QED
  BY <1>3, <1>4

\* While a merge runs without the writer's monitor, its two sources stay
\* neighbours among the current segments and keep the deletes they had,
\* whatever flushes, deletes, failures and rollbacks come in between: neither
\* ensureContiguousMerge nor the check of the deletes in commitMerge throws.
THEOREM SourcesStay == Spec => []MergeSourcesStay
PROOF
<1>1. IInv => MergeSourcesStay
  BY SourcesFollow
<1> QED
  BY <1>1, Invariance, PTL

LEMMA OnceFollows ==
  ASSUME IInv
  PROVE  DocsOnce
PROOF
<1>1. \A i, j \in DOMAIN infos : i # j => Live(infos[i]) \cap Live(infos[j]) = {}
  BY DEF IInv, InfosOK, Fits, ListOK
<1>2. \A i \in DOMAIN infos : Live(infos[i]) \cap buf.docs = {}
  BY DEF IInv, InfosOK, LiveDocs
<1> QED
  BY <1>1, <1>2 DEF DocsOnce

\* No document is live in two segments, nor in a segment and in the buffer:
\* a merge that is committed takes its sources out, and a commit that fails
\* takes out the segment that was flushed, or the merged one.
THEOREM DocsInOne == Spec => []DocsOnce
PROOF
<1>1. IInv => DocsOnce
  BY OnceFollows
<1> QED
  BY <1>1, Invariance, PTL
=============================================================================
