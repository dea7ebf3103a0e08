--------------------- MODULE IndexWriterRefinement_proofs ---------------------
(***************************************************************************)
(* IndexWriter implements IndexCommits: with segments, merges, files,      *)
(* generations and failures forgotten, every step of the writer is a step  *)
(* of that module or none.                                                 *)
(*                                                                         *)
(* What becomes of the documents in memory follows from the lemmas about   *)
(* lists of segments; what becomes of those on disk, from Fitting.  What   *)
(* is left is how the two are related, which RInv says.                    *)
(***************************************************************************)
EXTENDS IndexWriterSafety_proofs

-----------------------------------------------------------------------------
(* The documents of the newest commit.                                     *)

\* CommittedDocs, for any directory and any commits.
DocsOf(dk, dr) ==
    LET gs == {g \in DOMAIN dk : dk[g].complete /\ SegmentsFile(g) \in dr}
    IN  IF gs = {} THEN {}
        ELSE LiveDocs(dk[CHOOSE g \in gs : \A h \in gs : h <= g].infos)

LEMMA DocsAre ==
  /\ CommittedDocs = DocsOf(disk, dir)
  /\ CommittedDocs' = DocsOf(disk', dir')
PROOF
  BY DEF CommittedDocs, DocsOf

\* The commits that can be read, and the newest of them.
Whole(dk, dr, g) == g \in DOMAIN dk /\ dk[g].complete /\ SegmentsFile(g) \in dr
Latest(dk, dr, g) == Whole(dk, dr, g) /\ \A h \in Gen : Whole(dk, dr, h) => h <= g

LEMMA WholeIs ==
  /\ \A g : D!Readable(g) <=> Whole(disk, dir, g)
  /\ \A g : D!Readable(g)' <=> Whole(disk', dir', g)
  /\ \A g : DP!Readable(g) <=> Whole(disk, dir, g)
  /\ \A g : DP!Readable(g)' <=> Whole(disk', dir', g)
PROOF
  BY DEF D!Readable, DP!Readable, Whole, Stored

\* There is one newest commit, or none.
LEMMA DocsOfLatest ==
  ASSUME NEW dk, NEW dr, DOMAIN dk \subseteq Gen
  PROVE  /\ \A g \in Gen : Latest(dk, dr, g) => DocsOf(dk, dr) = LiveDocs(dk[g].infos)
         /\ (\A g \in Gen : ~Whole(dk, dr, g)) => DocsOf(dk, dr) = {}
PROOF
<1> DEFINE gs == {g \in DOMAIN dk : dk[g].complete /\ SegmentsFile(g) \in dr}
<1>1. \A g : g \in gs <=> Whole(dk, dr, g)
  BY DEF Whole
<1>2. DocsOf(dk, dr) = IF gs = {} THEN {}
                       ELSE LiveDocs(dk[CHOOSE g \in gs : \A h \in gs : h <= g].infos)
  BY DEF DocsOf
<1>3. gs \subseteq Gen
  OBVIOUS
<1> HIDE DEF gs
<1>4. ASSUME NEW g \in Gen, Latest(dk, dr, g)
      PROVE  DocsOf(dk, dr) = LiveDocs(dk[g].infos)
  <2>1. g \in gs /\ \A h \in gs : h <= g
    BY <1>1, <1>3, <1>4 DEF Latest
  <2>2. PICK c : c = CHOOSE x \in gs : \A h \in gs : h <= x
    OBVIOUS
  <2>3. c \in gs /\ \A h \in gs : h <= c
    BY <2>1, <2>2
  <2>4. c = g
    BY <2>1, <2>3, <1>3, Generations
  <2> QED
    BY <1>2, <2>1, <2>2, <2>4
<1>5. ASSUME \A g \in Gen : ~Whole(dk, dr, g)
      PROVE  DocsOf(dk, dr) = {}
  BY <1>1, <1>2, <1>3, <1>5
<1> QED
  BY <1>4, <1>5

\* A step that neither completes nor loses the newest commit keeps the
\* documents that can be found.
LEMMA SameDocs ==
  ASSUME Fitting, IInv', DP!Advances,
         \A g \in Gen : Whole(disk', dir', g) => Whole(disk, dir, g) /\ disk'[g] = disk[g]
  PROVE  CommittedDocs' = CommittedDocs
PROOF
<1>1. DOMAIN disk \subseteq Gen /\ DOMAIN disk' \subseteq Gen
  BY DEF Fitting, IInv, DiskOK
<1>2. PICK dk, dr, dk2, dr2 : dk = disk /\ dr = dir /\ dk2 = disk' /\ dr2 = dir'
  OBVIOUS
<1>3. \A g \in Gen : Latest(dk, dr, g) => \E h \in Gen : h >= g /\ Latest(dk2, dr2, h)
  <2>1. \A g : DP!Newest(g) <=> Latest(dk, dr, g)
    BY WholeIs, <1>2 DEF DP!Newest, Latest
  <2>2. \A g : DP!Newest(g)' <=> Latest(dk2, dr2, g)
    BY WholeIs, <1>2 DEF DP!Newest, Latest
  <2> QED
    BY <2>1, <2>2 DEF DP!Advances
<1>4. (\E g \in Gen : Whole(dk, dr, g)) => \E g \in Gen : Latest(dk, dr, g)
  <2>1. DP!HasNewest
    BY DEF Fitting, DP!IInv
  <2>2. \A g : DP!Newest(g) <=> Latest(dk, dr, g)
    BY WholeIs, <1>2 DEF DP!Newest, Latest
  <2> QED
    BY <2>1, <2>2, WholeIs, <1>2 DEF DP!HasNewest
<1>5. \A g \in Gen : Whole(dk2, dr2, g) => Whole(dk, dr, g) /\ dk2[g] = dk[g]
  BY <1>2
<1>6. DocsOf(dk2, dr2) = DocsOf(dk, dr)
  <2>1. CASE \E g \in Gen : Whole(dk, dr, g)
    <3>1. PICK g \in Gen : Latest(dk, dr, g)
      BY <1>4, <2>1
    <3>2. PICK h \in Gen : h >= g /\ Latest(dk2, dr2, h)
      BY <1>3, <3>1
    <3>3. h <= g /\ dk2[h] = dk[h]
      BY <1>5, <3>1, <3>2 DEF Latest
    <3>4. h = g
      BY <3>2, <3>3, Generations
    <3> QED
      BY <1>1, <1>2, <3>1, <3>2, <3>3, <3>4, DocsOfLatest
  <2>2. CASE \A g \in Gen : ~Whole(dk, dr, g)
    BY <1>1, <1>2, <1>5, <2>2, DocsOfLatest
  <2> QED
    BY <2>1, <2>2
<1> QED
  BY <1>2, <1>6, DocsAre

\* So does every step that only creates files of segments, or deletes files.
LEMMA SameDisk ==
  ASSUME Fitting, IInv', DP!Advances, disk' = disk,
         \A f \in dir' : f \in dir \/ f[1] # "segments"
  PROVE  CommittedDocs' = CommittedDocs
PROOF
<1>1. \A g : SegmentsFile(g) \in dir' => SegmentsFile(g) \in dir
  BY Fields
<1>2. \A g \in Gen : Whole(disk', dir', g) => Whole(disk, dir, g) /\ disk'[g] = disk[g]
  BY <1>1 DEF Whole
<1> QED
  BY <1>2, SameDocs

-----------------------------------------------------------------------------
(* What the abstract index shows.                                          *)

\* Mode, for any status.
ModeOf(st, ac, f) ==
    CASE st = "closed" \/ (st = "opening" /\ ~(st = "opening" /\ f # <<>>)) -> "closed"
      [] st = "opening" /\ f # <<>> -> "creating"
      [] st \in {"aborted", "abandoning"} -> "aborting"
      [] st \in {"open", "closing", "stopping"} /\ ac -> "auto"
      [] st \in {"closing", "stopping"} /\ ~ac -> "finishing"
      [] OTHER -> "manual"

LEMMA ModeIs ==
  /\ Mode = ModeOf(status, autoCommit, op.onFail)
  /\ Mode' = ModeOf(status', autoCommit', op'.onFail)
PROOF
  BY DEF Mode, Creating, ModeOf

LEMMA Modes ==
  ASSUME NEW ac \in BOOLEAN, NEW f
  PROVE  /\ ModeOf("closed", ac, f) = "closed"
         /\ ModeOf("opening", ac, f) = (IF f = <<>> THEN "closed" ELSE "creating")
         /\ ModeOf("open", ac, f) = (IF ac THEN "auto" ELSE "manual")
         /\ ModeOf("closing", ac, f) = (IF ac THEN "auto" ELSE "finishing")
         /\ ModeOf("stopping", ac, f) = (IF ac THEN "auto" ELSE "finishing")
         /\ ModeOf("aborting", ac, f) = "manual"
         /\ ModeOf("aborted", ac, f) = "aborting"
         /\ ModeOf("abandoning", ac, f) = "aborting"
PROOF
<1>1. ModeOf("closed", ac, f) = "closed"
  BY DEF ModeOf
<1>2. ModeOf("opening", ac, f) = (IF f = <<>> THEN "closed" ELSE "creating")
  BY DEF ModeOf
<1>3. ModeOf("open", ac, f) = (IF ac THEN "auto" ELSE "manual")
  BY DEF ModeOf
<1>4. ModeOf("closing", ac, f) = (IF ac THEN "auto" ELSE "finishing")
  BY DEF ModeOf
<1>5. ModeOf("stopping", ac, f) = (IF ac THEN "auto" ELSE "finishing")
  BY DEF ModeOf
<1>6. ModeOf("aborting", ac, f) = "manual"
  BY DEF ModeOf
<1>7. ModeOf("aborted", ac, f) = "aborting" /\ ModeOf("abandoning", ac, f) = "aborting"
  BY DEF ModeOf
<1> QED
  BY <1>1, <1>2, <1>3, <1>4, <1>5, <1>6, <1>7

\* The mode changes with the status only, once the writer is open.
LEMMA SameMode ==
  ASSUME UNCHANGED <<status, autoCommit>>,
         status = "opening" => (op'.onFail = <<>> <=> op.onFail = <<>>)
  PROVE  Mode' = Mode
PROOF
<1>1. \A f, g : status # "opening" => ModeOf(status, autoCommit, f) = ModeOf(status, autoCommit, g)
  BY DEF ModeOf
<1>2. \A f, g : (f = <<>> <=> g = <<>>) => ModeOf(status, autoCommit, f) = ModeOf(status, autoCommit, g)
  BY DEF ModeOf
<1>3. \/ status # "opening"
      \/ op'.onFail = <<>> <=> op.onFail = <<>>
  OBVIOUS
<1> QED
  BY <1>1, <1>2, <1>3, ModeIs

\* Most steps show nothing.
LEMMA Unseen ==
  ASSUME CommittedDocs' = CommittedDocs, LiveDocs(infos') = LiveDocs(infos),
         buf'.docs = buf.docs, buf'.dels = buf.dels, faults' = faults, Mode' = Mode
  PROVE  UNCHANGED Abstract!vars
PROOF
  BY DEF Abstract!vars

\* Some failures show nothing but that they happened; others lose the buffer.
LEMMA SeenFailure ==
  ASSUME CommittedDocs' = CommittedDocs, LiveDocs(infos') = LiveDocs(infos), Mode' = Mode,
         faults' = faults + 1,
         \/ buf'.docs = buf.docs /\ buf'.dels = buf.dels
         \/ buf'.docs = {} /\ buf'.dels = {}
  PROVE  Abstract!Next
PROOF
<1>1. CASE buf'.docs = buf.docs /\ buf'.dels = buf.dels
  <2>1. Abstract!Fail
    BY <1>1 DEF Abstract!Fail
  <2> QED
    BY <2>1 DEF Abstract!Next
<1>2. CASE buf'.docs = {} /\ buf'.dels = {}
  <2>1. Abstract!Drop
    BY <1>2 DEF Abstract!Drop
  <2> QED
    BY <2>1 DEF Abstract!Next
<1> QED
  BY <1>1, <1>2

-----------------------------------------------------------------------------
(* How the documents in memory and those on disk are related.              *)

Writes(s) == HeadOf(s) \in {"write", "finish"}
Closing(s) == "close" \in Names(s)
Nothing(b) == b.docs = {} /\ b.dels = {}
Session == {"open", "closing", "stopping", "aborting"}

\* abort() is for writers without autoCommit.  Once it has rolled back there
\* is nothing left but what is on disk, and nothing that could fail.
GivenUp(st, ac, pend, s, b, ms, w, c) ==
    /\ st \in {"aborting", "aborted", "abandoning"} => ~ac
    /\ st \in {"aborted", "abandoning"} =>
         /\ Nothing(b) /\ b.store = None /\ ms = "none" /\ w = c
         /\ Names(s) \subseteq {"ckpt", "refresh", "segment", "close"}
    /\ st = "abandoning" => ~pend

\* A writer that closes flushes, then commits, then goes.
Finishes(st, s, b, w, c) ==
    /\ st \in {"closing", "stopping", "abandoning"} => "segment" \in Names(s) \/ Nothing(b)
    /\ Closing(s) => /\ st \in {"closing", "stopping", "abandoning"}
                     /\ ~Writes(s) => w = c

\* With autoCommit the segments in memory are those on disk, but while they
\* are being written; without, unless there is something to commit.
Published(st, ac, pend, s, w, c) ==
    /\ ac /\ st \notin {"closed", "opening"} /\ ~Writes(s) => w = c
    /\ ~ac /\ st \in Session /\ ~pend => w = c

\* A write that fails goes back to what is on disk, or to what there was.
Undoable(st, ac, s, w, c, u) ==
    Writes(s) => u = (IF ac /\ st # "opening" THEN c ELSE w)

\* What abort() goes back to is on disk, until the writer commits.
Abortable(st, ac, s, w, c, r) ==
    /\ (~ac /\ st \in Session /\ (Closing(s) => Writes(s))) => r = c
    /\ st = "opening" => r = w

RShape(st, ac, pend, s, f, b, ms, w, c, u, r) ==
    /\ GivenUp(st, ac, pend, s, b, ms, w, c)
    /\ Finishes(st, s, b, w, c)
    /\ Published(st, ac, pend, s, w, c)
    /\ Undoable(st, ac, s, w, c, u)
    /\ Abortable(st, ac, s, w, c, r)
    /\ st = "opening" /\ Writes(s) => f # <<>>

\* w: the documents in memory; c: those on disk; u, r: those of the lists an
\* error and abort() go back to.
RInv ==
    RShape(status, autoCommit, commitPending, op.todo, op.onFail, buf, merge.stage,
           LiveDocs(infos), CommittedDocs, LiveDocs(op.undo), LiveDocs(rollback))

\* The operation goes on, and documents stay where they are.
LEMMA ShapeOn ==
  ASSUME NEW st, NEW ac, NEW pend, NEW s, NEW f, NEW b, NEW ms, NEW w, NEW c, NEW u, NEW r,
         RShape(st, ac, pend, s, f, b, ms, w, c, u, r), st \notin {"closed", "opening"},
         HeadOf(s) \notin {"write", "finish", "segment", "close"},
         NEW s2, Names(s) = {HeadOf(s)} \cup Names(s2), HeadOf(s2) \notin {"write", "finish"},
         NEW pend2 \in BOOLEAN, pend => pend2, pend2 = pend \/ HeadOf(s) \notin {"ckpt", "refresh"},
         NEW b2, Nothing(b) => Nothing(b2), b2.store \in {b.store, None},
         NEW ms2, ms2 = ms \/ HeadOf(s) \notin {"ckpt", "refresh"}, NEW f2, NEW u2
  PROVE  RShape(st, ac, pend2, s2, f2, b2, ms2, w, c, u2, r)
PROOF
<1>1. ~Writes(s) /\ ~Writes(s2)
  BY DEF Writes
<1>2. Closing(s2) => Closing(s)
  BY DEF Closing
<1>3. Closing(s) => Closing(s2)
  BY DEF Closing
<1>4. "segment" \in Names(s) => "segment" \in Names(s2)
  OBVIOUS
<1>5. st \in {"aborted", "abandoning"} => HeadOf(s) \in {"ckpt", "refresh"}
  BY DEF RShape, GivenUp
<1>6. GivenUp(st, ac, pend2, s2, b2, ms2, w, c)
  BY <1>5 DEF RShape, GivenUp
<1>7. Finishes(st, s2, b2, w, c)
  BY <1>1, <1>2, <1>4 DEF RShape, Finishes
<1>8. Published(st, ac, pend2, s2, w, c)
  BY <1>1 DEF RShape, Published
<1>9. Undoable(st, ac, s2, w, c, u2)
  BY <1>1 DEF Undoable
<1>10. Abortable(st, ac, s2, w, c, r)
  BY <1>1, <1>2, <1>3 DEF RShape, Abortable
<1> QED
  BY <1>6, <1>7, <1>8, <1>9, <1>10 DEF RShape

\* An operation begins that neither writes nor closes.
LEMMA ShapeBegun ==
  ASSUME NEW st, NEW ac, NEW pend, NEW s, NEW f, NEW b, NEW ms, NEW w, NEW c, NEW u, NEW r,
         RShape(st, ac, pend, s, f, b, ms, w, c, u, r), st \in Session,
         s = <<>>,
         NEW s2, HeadOf(s2) \notin {"write", "finish"}, "close" \notin Names(s2),
         NEW pend2, pend => pend2,
         NEW b2, Nothing(b) => Nothing(b2),
         NEW ms2, NEW f2, NEW u2
  PROVE  RShape(st, ac, pend2, s2, f2, b2, ms2, w, c, u2, r)
PROOF
<1>1. ~Writes(s) /\ ~Writes(s2)
  BY DEF Writes, HeadOf
<1>2. Names(s) = {}
  BY DEF Names
<1>3. ~Closing(s2) /\ ~Closing(s)
  BY <1>2 DEF Closing
<1>4. st \notin {"aborted", "abandoning", "opening"}
  BY DEF Session
<1>5. GivenUp(st, ac, pend2, s2, b2, ms2, w, c)
  BY <1>4 DEF RShape, GivenUp
<1>6. Finishes(st, s2, b2, w, c)
  BY <1>2, <1>3 DEF RShape, Finishes
<1>7. Published(st, ac, pend2, s2, w, c)
  BY <1>1 DEF RShape, Published
<1>8. Undoable(st, ac, s2, w, c, u2)
  BY <1>1 DEF Undoable
<1>9. Abortable(st, ac, s2, w, c, r)
  BY <1>1, <1>3, <1>4 DEF RShape, Abortable
<1> QED
  BY <1>4, <1>5, <1>6, <1>7, <1>8, <1>9 DEF RShape

LEMMA RInvIs ==
  /\ RInv = RShape(status, autoCommit, commitPending, op.todo, op.onFail, buf, merge.stage,
                   LiveDocs(infos), CommittedDocs, LiveDocs(op.undo), LiveDocs(rollback))
  /\ RInv' = RShape(status', autoCommit', commitPending', op'.todo, op'.onFail, buf',
                    merge'.stage, LiveDocs(infos'), CommittedDocs', LiveDocs(op'.undo),
                    LiveDocs(rollback'))
PROOF
  BY DEF RInv

-----------------------------------------------------------------------------
(* An operation goes on.                                                   *)

\* What a step may start from, and what is known of it already.
Standing == Fitting /\ RInv /\ IInv' /\ DP!Advances

LEMMA OpGoes ==
  ASSUME Standing, op.todo # <<>>, Advance,
         HeadOf(op.todo) \notin {"ctor", "write", "finish", "throw", "segment", "close"},
         UNCHANGED <<status, autoCommit, rollback, faults>>,
         LiveDocs(infos') = LiveDocs(infos), CommittedDocs' = CommittedDocs,
         commitPending => commitPending',
         commitPending' = commitPending \/ HeadOf(op.todo) \notin {"ckpt", "refresh"},
         buf'.docs = buf.docs, buf'.dels = buf.dels, buf'.store \in {buf.store, None},
         merge'.stage = merge.stage \/ HeadOf(op.todo) \notin {"ckpt", "refresh"}
  PROVE  RInv' /\ [Abstract!Next]_(Abstract!vars)
PROOF
<1>1. IInv /\ FInv /\ IInv'
  BY DEF Standing, Fitting
<1>2. status \notin {"closed", "opening"}
  BY <1>1, Heads, Opening
<1>3. OpShape(op) /\ OrderShape(op, status, autoCommit)
  BY <1>1 DEF IInv, OpOK, OpFits, FInv, OrderOK
<1>4. op' = Going(op, Tail(op.todo))
  BY DEF Advance, GoOn, Going
<1>5. PICK o, o2 : o = op /\ o2 = op'
  OBVIOUS
<1>6. Popping(o, o2, status, autoCommit)
  BY <1>3, <1>4, <1>5, OrderGoing
<1>7. Names(op.todo) = {HeadOf(op.todo)} \cup Names(op'.todo) /\ HeadOf(op'.todo) \notin Firsts
  BY <1>5, <1>6 DEF Popping
<1>8. HeadOf(op'.todo) \notin {"write", "finish"}
  BY <1>7 DEF Firsts
<1>9. UNCHANGED Abstract!vars
  BY <1>2, SameMode, Unseen
<1>10. commitPending' \in BOOLEAN
  BY <1>1 DEF IInv, RestOK
<1>11. Nothing(buf) => Nothing(buf')
  BY DEF Nothing
<1>12. RShape(status, autoCommit, commitPending, op.todo, op.onFail, buf, merge.stage,
              LiveDocs(infos), CommittedDocs, LiveDocs(op.undo), LiveDocs(rollback))
  BY RInvIs DEF Standing
<1>13. RShape(status, autoCommit, commitPending', op'.todo, op'.onFail, buf', merge'.stage,
              LiveDocs(infos), CommittedDocs, LiveDocs(op'.undo), LiveDocs(rollback))
  BY ONLY <1>2, <1>7, <1>8, <1>10, <1>11, <1>12, ShapeOn,
     commitPending => commitPending',
     HeadOf(op.todo) \notin {"ctor", "write", "finish", "throw", "segment", "close"},
     commitPending' = commitPending \/ HeadOf(op.todo) \notin {"ckpt", "refresh"},
     buf'.store \in {buf.store, None},
     merge'.stage = merge.stage \/ HeadOf(op.todo) \notin {"ckpt", "refresh"}
<1>14. RInv'
  BY <1>13, RInvIs
<1> QED
  BY <1>9, <1>14

\* Steps that only delete files.
LEMMA DeletingSeen ==
  ASSUME Standing, DeleterCheckpoint \/ DeletePartial \/ DeleteFiles \/ DeleteNewFiles
                     \/ Refresh \/ MergeRelease
  PROVE  RInv' /\ [Abstract!Next]_(Abstract!vars)
PROOF
<1>1. op.todo # <<>> /\ Advance
      /\ HeadOf(op.todo) \in {"ckpt", "partial", "delete", "new", "refresh", "release"}
  BY Heads DEF DeleterCheckpoint, DeletePartial, DeleteFiles, DeleteNewFiles, Refresh,
     MergeRelease, At
<1>2. PICK doomed, pending : D!RemoveFiles(doomed, pending, Busy)
  BY DEF DeleterCheckpoint, DeletePartial, DeleteFiles, DeleteNewFiles, Refresh, MergeRelease,
     D!CheckpointEffect, D!DeleteFilesEffect, D!DeleteNewFilesEffect, D!RefreshEffect,
     D!DecRefEffect
<1>3. dir' \subseteq dir
  BY <1>2 DEF D!RemoveFiles
<1>4. UNCHANGED <<disk, status, autoCommit, si, rollback, buf, merge, faults>>
  BY DEF DeleterCheckpoint, DeletePartial, DeleteFiles, DeleteNewFiles, Refresh, MergeRelease
<1>5. disk' = disk /\ infos' = infos /\ commitPending' = commitPending /\ buf' = buf
      /\ merge' = merge
  BY <1>4 DEF si
<1>6. CommittedDocs' = CommittedDocs
  BY <1>3, <1>5, SameDisk DEF Standing
<1>7. UNCHANGED <<status, autoCommit, rollback, faults>>
  BY <1>4
<1> QED
  BY <1>1, <1>5, <1>6, <1>7, OpGoes

LEMMA MergedSeen ==
  ASSUME Standing, Merged
  PROVE  RInv' /\ [Abstract!Next]_(Abstract!vars)
PROOF
<1>1. op.todo # <<>> /\ Advance /\ HeadOf(op.todo) = "merged"
  BY Heads DEF Merged, At
<1>2. dir' = dir /\ disk' = disk /\ infos' = infos /\ commitPending' = commitPending /\ buf' = buf
      /\ UNCHANGED <<status, autoCommit, rollback, faults>>
  BY DEF Merged, si, store
<1>3. CommittedDocs' = CommittedDocs
  BY <1>2, SameDisk DEF Standing
<1> QED
  BY <1>1, <1>2, <1>3, OpGoes

LEMMA MergeBindSeen ==
  ASSUME Standing, MergeBind
  PROVE  RInv' /\ [Abstract!Next]_(Abstract!vars)
PROOF
<1>1. op.todo # <<>> /\ Advance /\ HeadOf(op.todo) = "bind"
  BY Heads DEF MergeBind, At
<1>2. dir' = dir /\ disk' = disk /\ infos' = infos /\ commitPending' = TRUE /\ buf' = buf
      /\ UNCHANGED <<status, autoCommit, rollback, faults>>
  BY DEF MergeBind, store
<1>3. CommittedDocs' = CommittedDocs
  BY <1>2, SameDisk DEF Standing
<1> QED
  BY <1>1, <1>2, <1>3, OpGoes

LEMMA FlushDocStoresSeen ==
  ASSUME Standing, FlushDocStores
  PROVE  RInv' /\ [Abstract!Next]_(Abstract!vars)
PROOF
<1>1. op.todo # <<>> /\ Advance /\ HeadOf(op.todo) = "stores"
  BY Heads DEF FlushDocStores, At
<1>2. disk' = disk /\ UNCHANGED <<status, autoCommit, rollback, faults>>
      /\ buf' = [buf EXCEPT !.store = None]
  BY DEF FlushDocStores
<1>3. IInv
  BY DEF Standing, Fitting
<1>4. buf'.docs = buf.docs /\ buf'.dels = buf.dels /\ buf'.store = None
  BY <1>2, <1>3 DEF IInv, BufOK, BufShape
<1>5. \A f \in dir' : f \in dir \/ f[1] # "segments"
  BY Fields DEF FlushDocStores
<1>6. CommittedDocs' = CommittedDocs
  BY <1>2, <1>5, SameDisk DEF Standing
<1>7. commitPending => commitPending'
  BY DEF FlushDocStores, MarkPending
<1>8. LiveDocs(infos') = LiveDocs(infos)
  <2>1. CASE infos' = infos
    BY <2>1
  <2>2. CASE infos' = [i \in DOMAIN infos |-> IF infos[i].store = buf.store
                                              THEN [infos[i] EXCEPT !.storeCfs = TRUE]
                                              ELSE infos[i]]
    <3>1. PICK is, js, x : is = infos /\ js = infos' /\ x = buf.store
      OBVIOUS
    <3>2. Fits(is, counter, buf.seg, merge) /\ is \in Seq(SegmentInfos)
      BY <1>3, <3>1, Types DEF IInv, InfosOK
    <3>3. js = [i \in DOMAIN is |-> IF is[i].store = x THEN [is[i] EXCEPT !.storeCfs = TRUE]
                                    ELSE is[i]]
      BY <2>2, <3>1
    <3>4. SamePlaces(js, is)
      BY <3>3 DEF SamePlaces
    <3>5. ASSUME NEW i \in DOMAIN is
          PROVE  /\ js[i] \in SegmentInfos
                 /\ js[i].name = is[i].name /\ js[i].docs = is[i].docs
                 /\ js[i].dels = is[i].dels /\ js[i].delGen = is[i].delGen
      <4>1. is[i] \in SegmentInfos
        BY <3>2, <3>5
      <4> QED
        BY <3>3, <3>5, <4>1 DEF SegmentInfos
    <3>6. LiveDocs(js) = LiveDocs(is)
      BY <3>2, <3>4, <3>5, Repacked
    <3> QED
      BY <3>1, <3>6
  <2> QED
    BY <2>1, <2>2 DEF FlushDocStores
<1> QED
  BY <1>1, <1>2, <1>4, <1>6, <1>7, <1>8, OpGoes

-----------------------------------------------------------------------------
(* Steps beside the operation that holds the monitor.                      *)

\* Documents are added only while the writer is open; a merge is over before
\* abort() rolls back.
LEMMA ShapeBeside ==
  ASSUME NEW st, NEW ac, NEW pend, NEW s, NEW f, NEW b, NEW ms, NEW w, NEW c, NEW u, NEW r,
         RShape(st, ac, pend, s, f, b, ms, w, c, u, r),
         NEW pend2, pend => pend2, pend2 = pend \/ st = "open",
         NEW b2, b2 = b \/ st = "open",
         NEW ms2, ms2 = ms \/ st \notin {"aborted", "abandoning"}
  PROVE  RShape(st, ac, pend2, s, f, b2, ms2, w, c, u, r)
PROOF
<1>1. GivenUp(st, ac, pend2, s, b2, ms2, w, c)
  BY DEF RShape, GivenUp
<1>2. Finishes(st, s, b2, w, c)
  BY DEF RShape, Finishes
<1>3. Published(st, ac, pend2, s, w, c)
  BY DEF RShape, Published
<1> QED
  BY <1>1, <1>2, <1>3 DEF RShape

LEMMA GoesBeside ==
  ASSUME Standing, UNCHANGED <<status, autoCommit, infos, rollback, op, disk>>,
         \A f \in dir' : f \in dir \/ f[1] # "segments",
         commitPending => commitPending', commitPending' = commitPending \/ status = "open",
         buf' = buf \/ status = "open",
         merge'.stage = merge.stage \/ status \notin {"aborted", "abandoning"}
  PROVE  RInv' /\ CommittedDocs' = CommittedDocs /\ LiveDocs(infos') = LiveDocs(infos)
         /\ Mode' = Mode
PROOF
<1>1. CommittedDocs' = CommittedDocs
  BY SameDisk DEF Standing
<1>2. Mode' = Mode
  BY SameMode
<1>3. RShape(status, autoCommit, commitPending, op.todo, op.onFail, buf, merge.stage,
             LiveDocs(infos), CommittedDocs, LiveDocs(op.undo), LiveDocs(rollback))
  BY RInvIs DEF Standing
<1>4. RShape(status, autoCommit, commitPending', op.todo, op.onFail, buf', merge'.stage,
             LiveDocs(infos), CommittedDocs, LiveDocs(op.undo), LiveDocs(rollback))
  BY ONLY <1>3, ShapeBeside, commitPending => commitPending',
     commitPending' = commitPending \/ status = "open", buf' = buf \/ status = "open",
     merge'.stage = merge.stage \/ status \notin {"aborted", "abandoning"}
<1> QED
  BY <1>1, <1>2, <1>4, RInvIs

LEMMA OpenModes ==
  ASSUME IInv, status = "open"
  PROVE  Mode = (IF autoCommit THEN "auto" ELSE "manual") /\ Mode \in {"auto", "manual"}
PROOF
  BY ModeIs, Modes DEF IInv, RestOK

LEMMA AddDocSeen ==
  ASSUME Standing, ~Overlap, NEW d \in Doc, AddDoc(d)
  PROVE  RInv' /\ [Abstract!Next]_(Abstract!vars)
PROOF
<1>1. IInv /\ status = "open"
  BY DEF Standing, Fitting, AddDoc, Buffering, InUse
<1>2. UNCHANGED <<status, autoCommit, infos, rollback, op, disk, merge, faults>>
  BY DEF AddDoc
<1>3. \A f \in dir' : f \in dir \/ f[1] # "segments"
  BY Fields DEF AddDoc, Buffering
<1>4. commitPending => commitPending'
  BY DEF AddDoc, Buffering
<1>5. RInv' /\ CommittedDocs' = CommittedDocs /\ LiveDocs(infos') = LiveDocs(infos) /\ Mode' = Mode
  BY <1>1, <1>2, <1>3, <1>4, GoesBeside
<1>6. buf'.docs = buf.docs \cup {d} /\ buf'.dels = buf.dels
  BY <1>1 DEF AddDoc, IInv, BufOK, BufShape
<1>7. d \notin LiveDocs(infos) /\ d \notin buf.docs
  BY DEF AddDoc, Buffering, LiveDocs, Live
<1>8. Mode \in {"auto", "manual"}
  BY <1>1, OpenModes
<1>9. Abstract!Add(d)
  BY <1>2, <1>5, <1>6, <1>7, <1>8 DEF Abstract!Add
<1> QED
  BY <1>5, <1>9 DEF Abstract!Next

LEMMA DeleteDocSeen ==
  ASSUME Standing, ~Overlap, NEW d \in Doc, DeleteDoc(d)
  PROVE  RInv' /\ [Abstract!Next]_(Abstract!vars)
PROOF
<1>1. IInv /\ status = "open"
  BY DEF Standing, Fitting, DeleteDoc, InUse
<1>2. UNCHANGED <<status, autoCommit, infos, rollback, op, disk, dir, merge, faults, commitPending>>
  BY DEF DeleteDoc, store, si
<1>3. RInv' /\ CommittedDocs' = CommittedDocs /\ LiveDocs(infos') = LiveDocs(infos) /\ Mode' = Mode
  BY <1>1, <1>2, GoesBeside
<1>4. buf'.docs = buf.docs /\ buf'.dels = buf.dels \cup {d}
  BY <1>1 DEF DeleteDoc, IInv, BufOK, BufShape
<1>5. d \in LiveDocs(infos) \cup buf.docs
  BY DEF DeleteDoc
<1>6. Mode \in {"auto", "manual"}
  BY <1>1, OpenModes
<1>7. Abstract!Delete(d)
  BY <1>2, <1>3, <1>4, <1>5, <1>6 DEF Abstract!Delete
<1> QED
  BY <1>3, <1>7 DEF Abstract!Next

\* A merge works beside everything; abort() waits for it.
LEMMA MergingStatus ==
  ASSUME IInv, RInv, merge.stage # "none"
  PROVE  status \in Session
PROOF
<1>1. status \notin {"closed", "opening"}
  BY Merging
<1>2. status \notin {"aborted", "abandoning"}
  BY RInvIs DEF RShape, GivenUp
<1> QED
  BY <1>1, <1>2 DEF IInv, RestOK, Session

LEMMA MergeWorkSeen ==
  ASSUME Standing, MergeBuild \/ MergeCompound \/ StopMerges
  PROVE  RInv' /\ [Abstract!Next]_(Abstract!vars)
PROOF
<1>1. merge.stage # "none"
  BY DEF MergeBuild, MergeCompound, StopMerges
<1>2. status \notin {"aborted", "abandoning"}
  BY <1>1, MergingStatus DEF Standing, Fitting, Session
<1>3. UNCHANGED <<status, autoCommit, infos, rollback, op, disk, buf, faults, commitPending>>
  BY DEF MergeBuild, MergeCompound, StopMerges, store, si
<1>4. \A f \in dir' : f \in dir \/ f[1] # "segments"
  <2>1. CASE MergeBuild
    BY <2>1, Fields DEF MergeBuild
  <2>2. CASE MergeCompound
    BY <2>2, Fields DEF MergeCompound
  <2>3. CASE StopMerges
    BY <2>3 DEF StopMerges, store
  <2> QED
    BY <2>1, <2>2, <2>3
<1>5. RInv' /\ CommittedDocs' = CommittedDocs /\ LiveDocs(infos') = LiveDocs(infos) /\ Mode' = Mode
  BY <1>2, <1>3, <1>4, GoesBeside
<1> QED
  BY <1>3, <1>5, Unseen

\* abort() is called: the segments are still those of the session.
LEMMA AbortSeen ==
  ASSUME Standing, Abort
  PROVE  RInv' /\ [Abstract!Next]_(Abstract!vars)
PROOF
<1>1. IInv /\ status = "open" /\ ~autoCommit /\ status' = "aborting" /\ autoCommit' = autoCommit
  BY DEF Standing, Fitting, Abort
<1>2. UNCHANGED <<dir, disk, infos, rollback, op, buf, merge, faults, commitPending>>
  BY DEF Abort, store, si
<1>3. CommittedDocs' = CommittedDocs
  BY <1>2, SameDisk DEF Standing
<1>4. Mode = "manual" /\ Mode' = "manual"
  BY <1>1, ModeIs, Modes DEF IInv, RestOK
<1>5. RShape("open", FALSE, commitPending, op.todo, op.onFail, buf, merge.stage,
             LiveDocs(infos), CommittedDocs, LiveDocs(op.undo), LiveDocs(rollback))
  BY <1>1, RInvIs DEF Standing, IInv, RestOK
<1>6. RShape("aborting", FALSE, commitPending, op.todo, op.onFail, buf, merge.stage,
             LiveDocs(infos), CommittedDocs, LiveDocs(op.undo), LiveDocs(rollback))
  BY <1>5 DEF RShape, GivenUp, Finishes, Published, Undoable, Abortable, Session
<1>7. autoCommit' = FALSE
  BY <1>1 DEF IInv, RestOK
<1>8. RInv'
  BY <1>1, <1>2, <1>3, <1>6, <1>7, RInvIs
<1> QED
  BY <1>2, <1>3, <1>4, <1>8, Unseen

-----------------------------------------------------------------------------
(* An operation begins.                                                    *)

LEMMA OpBegins ==
  ASSUME Standing, Free, NEW steps, NEW p, Begin(steps, p), status \in Session,
         HeadOf(steps) \notin {"write", "finish"}, "close" \notin Names(steps),
         UNCHANGED <<status, autoCommit, infos, rollback, disk>>,
         \A f \in dir' : f \in dir \/ f[1] # "segments",
         commitPending => commitPending', Nothing(buf) => Nothing(buf')
  PROVE  RInv' /\ CommittedDocs' = CommittedDocs /\ LiveDocs(infos') = LiveDocs(infos)
         /\ Mode' = Mode
PROOF
<1>1. op.todo = <<>> /\ op'.todo = steps
  BY DEF Free, Begin
<1>2. CommittedDocs' = CommittedDocs
  BY SameDisk DEF Standing
<1>3. status # "opening"
  BY DEF Session
<1>4. Mode' = Mode
  BY <1>3, SameMode
<1>5. RShape(status, autoCommit, commitPending, op.todo, op.onFail, buf, merge.stage,
             LiveDocs(infos), CommittedDocs, LiveDocs(op.undo), LiveDocs(rollback))
  BY RInvIs DEF Standing
<1>6. op.todo = <<>>
  BY <1>1
<1>7. PICK pend2, b2, ms2, f2, u2 : /\ pend2 = commitPending' /\ b2 = buf' /\ ms2 = merge'.stage
                                    /\ f2 = op'.onFail /\ u2 = LiveDocs(op'.undo)
  OBVIOUS
<1>8. (commitPending => pend2) /\ (Nothing(buf) => Nothing(b2))
  BY <1>7
<1>9. RShape(status, autoCommit, pend2, steps, f2, b2, ms2,
             LiveDocs(infos), CommittedDocs, u2, LiveDocs(rollback))
  BY ONLY <1>5, <1>6, <1>8, ShapeBegun, status \in Session,
     HeadOf(steps) \notin {"write", "finish"}, "close" \notin Names(steps)
<1> QED
  BY <1>1, <1>2, <1>4, <1>7, <1>9, RInvIs

\* The name of the first step is one of the names.
LEMMA HeadAmong ==
  ASSUME NEW s, Script(s), NEW N, Names(s) \subseteq N
  PROVE  HeadOf(s) \in N \cup {"idle"}
PROOF
  BY HeadName DEF Script

LEMMA FlushSeen ==
  ASSUME Standing, ~Overlap, Flush
  PROVE  RInv' /\ [Abstract!Next]_(Abstract!vars)
PROOF
<1>1. IInv /\ status = "open" /\ Free /\ Begin(FlushSteps(FALSE), TRUE)
  BY DEF Standing, Fitting, Flush, InUse
<1>2. UNCHANGED <<status, autoCommit, infos, rollback, disk, dir, buf, faults, commitPending>>
  BY DEF Flush, store, si
<1>3. PICK s : s = FlushSteps(FALSE)
  OBVIOUS
<1>4. Script(s) /\ Names(s) \subseteq {"stores", "ckpt", "segment"}
  BY <1>1, <1>3, FlushScript
<1>5. HeadOf(s) \notin {"write", "finish"} /\ "close" \notin Names(s)
  BY <1>4, HeadAmong
<1>6. RInv' /\ CommittedDocs' = CommittedDocs /\ LiveDocs(infos') = LiveDocs(infos) /\ Mode' = Mode
  BY <1>1, <1>2, <1>3, <1>5, OpBegins DEF Session
<1> QED
  BY <1>2, <1>6, Unseen

LEMMA AddDocFailsSeen ==
  ASSUME Standing, ~Overlap, NEW d \in Doc, AddDocFails(d)
  PROVE  RInv' /\ [Abstract!Next]_(Abstract!vars)
PROOF
<1>1. IInv /\ status = "open" /\ Free
  BY DEF Standing, Fitting, AddDocFails, Buffering, InUse
<1>2. PICK fs : fs = {Store(BufStore)}
  OBVIOUS
<1>3. PICK s : s = <<<<"new", fs>>, <<"throw", "caller">>>>
  OBVIOUS
<1>4. Begin(s, FALSE)
  BY <1>2, <1>3 DEF AddDocFails
<1>5. UNCHANGED <<status, autoCommit, infos, rollback, disk>> /\ buf' = EmptyBuf
      /\ faults' = faults + 1
  BY DEF AddDocFails
<1>6. (\A f \in dir' : f \in dir \/ f[1] # "segments") /\ (commitPending => commitPending')
  BY Fields DEF AddDocFails, Buffering
<1>7. fs \in SUBSET File
  BY <1>1, <1>2, Buffers DEF File, Store, AddDocFails
<1>8. Script(s) /\ Names(s) = {"new", "throw"}
  BY <1>3, <1>7, FailScripts
<1>9. HeadOf(s) \notin {"write", "finish"} /\ "close" \notin Names(s)
  BY <1>8, HeadAmong
<1>10. buf'.docs = {} /\ buf'.dels = {} /\ Nothing(buf')
  BY <1>5 DEF EmptyBuf, Nothing
<1>11. RInv' /\ CommittedDocs' = CommittedDocs /\ LiveDocs(infos') = LiveDocs(infos)
       /\ Mode' = Mode
  BY <1>1, <1>4, <1>5, <1>6, <1>9, <1>10, OpBegins DEF Session
<1>12. Abstract!Next
  BY <1>5, <1>10, <1>11, SeenFailure
<1> QED
  BY <1>11, <1>12

LEMMA MergeInitSeen ==
  ASSUME Standing, NEW i \in 1..MaxSeg, MergeInit(i)
  PROVE  RInv' /\ [Abstract!Next]_(Abstract!vars)
PROOF
<1>1. IInv /\ status \in Session /\ Free
  BY DEF Standing, Fitting, MergeInit, Session
<1>2. UNCHANGED <<status, autoCommit, infos, rollback, disk, dir, buf, faults, commitPending>>
  BY DEF MergeInit, store, si
<1>3. PICK flush, p : Begin((IF flush THEN FlushSteps(TRUE) ELSE <<>>) \o <<<<"bind">>>>, p)
  BY DEF MergeInit
<1>4. PICK a : a = IF flush THEN FlushSteps(TRUE) ELSE <<>>
  OBVIOUS
<1>5. PICK t, s : t = <<<<"bind">>>> /\ s = a \o t
  OBVIOUS
<1>6. Script(a) /\ Names(a) \subseteq {"stores", "ckpt", "segment"}
  <2>1. CASE flush
    <3>1. a = FlushSteps(TRUE)
      BY <1>4, <2>1
    <3> QED
      BY <1>1, <3>1, FlushScript
  <2>2. CASE ~flush
    <3>1. a = <<>>
      BY <1>4, <2>2
    <3>2. Names(a) = {}
      BY <3>1, Literals
    <3>3. \A j : j \notin DOMAIN a
      BY <3>2 DEF Names
    <3>4. a \in Seq(Step)
      BY <3>1, Literals
    <3> QED
      BY <3>2, <3>3, <3>4 DEF Script
  <2> QED
    BY <2>1, <2>2
<1>7. Script(t) /\ Names(t) = {"bind"}
  <2>1. <<"bind">> \in Step /\ <<"bind">>[1] = "bind"
    BY DEF Step
  <2> QED
    BY <1>5, <2>1, OneStep, Literals
<1>8. Script(s) /\ Names(s) = Names(a) \cup Names(t)
  BY <1>5, <1>6, <1>7, Followed DEF Firsts
<1>9. HeadOf(s) \notin {"write", "finish"} /\ "close" \notin Names(s)
  <2>1. Names(s) \subseteq {"stores", "ckpt", "segment", "bind"}
    BY <1>6, <1>7, <1>8
  <2> QED
    BY <2>1, <1>8, HeadAmong
<1>10. Begin(s, p)
  BY <1>3, <1>4, <1>5
<1>11. RInv' /\ CommittedDocs' = CommittedDocs /\ LiveDocs(infos') = LiveDocs(infos)
       /\ Mode' = Mode
  BY <1>1, <1>2, <1>9, <1>10, OpBegins
<1> QED
  BY <1>2, <1>11, Unseen

\* The ends of a merge that changes no segments.
LEMMA MergeEndsSeen ==
  ASSUME Standing, merge.stage # "none", Free, NEW s, Script(s),
         Names(s) \cap {"write", "finish", "close"} = {}, Begin(s, FALSE),
         UNCHANGED <<disk, status, autoCommit, infos, commitPending, rollback, buf>>,
         \A f \in dir' : f \in dir \/ f[1] # "segments",
         faults' \in {faults, faults + 1}
  PROVE  RInv' /\ [Abstract!Next]_(Abstract!vars)
PROOF
<1>1. status \in Session
  BY MergingStatus DEF Standing, Fitting
<1>2. HeadOf(s) \notin {"write", "finish"} /\ "close" \notin Names(s)
  BY HeadAmong
<1>3. RInv' /\ CommittedDocs' = CommittedDocs /\ LiveDocs(infos') = LiveDocs(infos)
      /\ Mode' = Mode
  BY <1>1, <1>2, OpBegins
<1>4. CASE faults' = faults
  BY <1>3, <1>4, Unseen
<1>5. CASE faults' = faults + 1
  <2>1. Abstract!Next
    BY <1>3, <1>5, SeenFailure
  <2> QED
    BY <1>3, <2>1
<1> QED
  BY <1>4, <1>5

LEMMA MergeFailsSeen ==
  ASSUME Standing, MergeFails
  PROVE  RInv' /\ [Abstract!Next]_(Abstract!vars)
PROOF
<1>1. IInv /\ merge.stage \notin {"none", "init"} /\ Free
  BY DEF Standing, Fitting, MergeFails
<1>2. merge.out.name \in Name
  BY <1>1, MergedName
<1>3. PICK n : n = merge.out.name
  OBVIOUS
<1>4. PICK a, t : a = Drop(n) /\ t = (IF merge.aborted THEN <<>> ELSE <<<<"throw", "merge">>>>)
  OBVIOUS
<1>5. Begin(a \o t, FALSE)
  BY <1>3, <1>4 DEF MergeFails
<1>6. Script(a) /\ Names(a) = {"refresh", "release", "merged"}
      /\ Script(t) /\ Names(t) \subseteq {"throw"}
  BY <1>2, <1>3, <1>4, EndScripts
<1>7. Script(a \o t) /\ Names(a \o t) = Names(a) \cup Names(t)
  BY <1>6, Followed DEF Firsts
<1>8. Names(a \o t) \cap {"write", "finish", "close"} = {}
  BY <1>6, <1>7
<1>9. UNCHANGED <<disk, status, autoCommit, infos, commitPending, rollback, buf>>
      /\ faults' \in {faults, faults + 1}
  BY DEF MergeFails, si
<1>10. \A f \in dir' : f \in dir \/ f[1] # "segments"
  BY Fields DEF MergeFails
<1> QED
  BY <1>1, <1>5, <1>7, <1>8, <1>9, <1>10, MergeEndsSeen

LEMMA MergeDeletesFailSeen ==
  ASSUME Standing, MergeDeletesFail
  PROVE  RInv' /\ [Abstract!Next]_(Abstract!vars)
PROOF
<1>1. IInv /\ merge.stage \notin {"none", "init"} /\ Free
  BY DEF Standing, Fitting, MergeDeletesFail
<1>2. merge.out.name \in Name
  BY <1>1, MergedName
<1>3. PICK n : n = merge.out.name
  OBVIOUS
<1>4. PICK a, t : a = Drop(n) /\ t = <<<<"throw", "merge">>>>
  OBVIOUS
<1>5. Begin(a \o t, FALSE)
  BY <1>3, <1>4 DEF MergeDeletesFail
<1>6. Script(a) /\ Names(a) = {"refresh", "release", "merged"}
      /\ Script(t) /\ Names(t) = {"throw"}
  BY <1>2, <1>3, <1>4, EndScripts
<1>7. Script(a \o t) /\ Names(a \o t) = Names(a) \cup Names(t)
  BY <1>6, Followed DEF Firsts
<1>8. Names(a \o t) \cap {"write", "finish", "close"} = {}
  BY <1>6, <1>7
<1>9. UNCHANGED <<disk, status, autoCommit, infos, commitPending, rollback, buf>>
      /\ faults' = faults + 1
  BY DEF MergeDeletesFail, si
<1>10. \A f \in dir' : f \in dir \/ f[1] # "segments"
  BY Fields DEF MergeDeletesFail
<1> QED
  BY <1>1, <1>5, <1>7, <1>8, <1>9, <1>10, MergeEndsSeen

LEMMA CommitMergeAbortedSeen ==
  ASSUME Standing, CommitMergeAborted
  PROVE  RInv' /\ [Abstract!Next]_(Abstract!vars)
PROOF
<1>1. IInv /\ merge.stage \notin {"none", "init"} /\ Free
  BY DEF Standing, Fitting, CommitMergeAborted
<1>2. merge.out.name \in Name
  BY <1>1, MergedName
<1>3. PICK n, s : n = merge.out.name /\ s = <<<<"release">>, <<"refresh", n>>, <<"merged", "none">>>>
  OBVIOUS
<1>4. Begin(s, FALSE)
  BY <1>3 DEF CommitMergeAborted
<1>5. Script(s) /\ Names(s) = {"release", "refresh", "merged"}
  BY <1>2, <1>3, EndScripts
<1>6. Names(s) \cap {"write", "finish", "close"} = {}
  BY <1>5
<1>7. UNCHANGED <<disk, dir, status, autoCommit, infos, commitPending, rollback, buf, faults>>
  BY DEF CommitMergeAborted, si, store
<1> QED
  BY <1>1, <1>4, <1>5, <1>6, <1>7, MergeEndsSeen

LEMMA MergeCompoundFailsSeen ==
  ASSUME Standing, MergeCompoundFails
  PROVE  RInv' /\ [Abstract!Next]_(Abstract!vars)
PROOF
<1>1. IInv /\ merge.stage \notin {"none", "init"} /\ Free
  BY DEF Standing, Fitting, MergeCompoundFails
<1>2. merge.out.name \in Name
  BY <1>1, MergedName
<1>3. PICK fs : fs = {Cfs(merge.out.name)}
  OBVIOUS
<1>4. fs \in SUBSET File
  BY <1>2, <1>3 DEF File, Cfs
<1>5. PICK s : s = <<<<"delete", fs>>, <<"merged", "none">>, <<"throw", "merge">>>>
  OBVIOUS
<1>6. Begin(s, FALSE)
  BY <1>3, <1>5 DEF MergeCompoundFails
<1>7. Script(s) /\ Names(s) = {"delete", "merged", "throw"}
  BY <1>2, <1>4, <1>5, EndScripts
<1>8. Names(s) \cap {"write", "finish", "close"} = {}
  BY <1>7
<1>9. UNCHANGED <<disk, status, autoCommit, infos, commitPending, rollback, buf>>
      /\ faults' = faults + 1
  BY DEF MergeCompoundFails, si
<1>10. \A f \in dir' : f \in dir \/ f[1] # "segments"
  BY Fields DEF MergeCompoundFails
<1> QED
  BY <1>1, <1>6, <1>7, <1>8, <1>9, <1>10, MergeEndsSeen

-----------------------------------------------------------------------------
(* An operation turns to other steps, or begins to commit.                 *)

LEMMA ShapeTurned ==
  ASSUME NEW st, NEW ac, NEW pend, NEW s, NEW f, NEW b, NEW ms, NEW w, NEW c, NEW u, NEW r,
         RShape(st, ac, pend, s, f, b, ms, w, c, u, r), st \notin {"closed", "opening"},
         HeadOf(s) \notin {"write", "finish"}, "close" \notin Names(s),
         NEW s2, HeadOf(s2) \notin {"write", "finish"}, "close" \notin Names(s2),
         NEW b2, Nothing(b2) \/ ("segment" \notin Names(s) /\ Nothing(b) => Nothing(b2)),
         Nothing(b2) \/ "segment" \notin Names(s) \/ "segment" \in Names(s2),
         NEW ms2,
         \/ st \in Session
         \/ Names(s2) \subseteq Names(s) /\ b2 = b /\ ms2 = ms,
         NEW f2, NEW u2
  PROVE  RShape(st, ac, pend, s2, f2, b2, ms2, w, c, u2, r)
PROOF
<1>1. ~Writes(s) /\ ~Writes(s2) /\ ~Closing(s) /\ ~Closing(s2)
  BY DEF Writes, Closing
<1>2. GivenUp(st, ac, pend, s2, b2, ms2, w, c)
  <2>1. CASE st \in Session
    BY <2>1 DEF RShape, GivenUp, Session
  <2>2. CASE Names(s2) \subseteq Names(s) /\ b2 = b /\ ms2 = ms
    BY <2>2 DEF RShape, GivenUp
  <2> QED
    BY <2>1, <2>2
<1>3. Finishes(st, s2, b2, w, c)
  BY <1>1 DEF RShape, Finishes
<1>4. Published(st, ac, pend, s2, w, c)
  BY <1>1 DEF RShape, Published
<1>5. Undoable(st, ac, s2, w, c, u2)
  BY <1>1 DEF Undoable
<1>6. Abortable(st, ac, s2, w, c, r)
  BY <1>1 DEF RShape, Abortable
<1> QED
  BY <1>2, <1>3, <1>4, <1>5, <1>6 DEF RShape

LEMMA ShapeCommits ==
  ASSUME NEW st, NEW ac \in BOOLEAN, NEW pend, NEW s, NEW f, NEW b, NEW ms, NEW w, NEW c, NEW u,
         NEW r, RShape(st, ac, pend, s, f, b, ms, w, c, u, r), st \in Session,
         HeadOf(s) \notin {"write", "finish"}, "close" \notin Names(s),
         NEW s2, HeadOf(s2) = (IF ac THEN "write" ELSE "ckpt"), "close" \notin Names(s2),
         NEW b2, Nothing(b2) \/ ("segment" \notin Names(s) /\ b2 = b),
         NEW pend2, ~ac => pend2, NEW ms2, NEW w2, NEW f2
  PROVE  RShape(st, ac, pend2, s2, f2, b2, ms2, w2, c, w, r)
PROOF
<1>1. ~Writes(s) /\ (Writes(s2) <=> ac) /\ ~Closing(s) /\ ~Closing(s2)
  BY DEF Writes, Closing
<1>2. st \notin {"closed", "opening", "aborted", "abandoning"}
  BY DEF Session
<1>3. GivenUp(st, ac, pend2, s2, b2, ms2, w2, c)
  BY <1>2 DEF RShape, GivenUp
<1>4. Finishes(st, s2, b2, w2, c)
  BY <1>1 DEF RShape, Finishes
<1>5. Published(st, ac, pend2, s2, w2, c)
  BY <1>1 DEF Published
<1>6. Undoable(st, ac, s2, w2, c, w)
  BY <1>1, <1>2 DEF RShape, Undoable, Published
<1>7. Abortable(st, ac, s2, w2, c, r)
  BY <1>1, <1>2 DEF RShape, Abortable
<1> QED
  BY <1>2, <1>3, <1>4, <1>5, <1>6, <1>7 DEF RShape

\* Only a writer that has not given up has something to lose, or to merge.
LEMMA InSession ==
  ASSUME IInv, RInv, status \notin {"closed", "opening"},
         ~Nothing(buf) \/ merge.stage # "none" \/ HeadOf(op.todo) \in {"cfs", "throw", "write", "finish"}
  PROVE  status \in Session
PROOF
<1>1. HeadOf(op.todo) \in {"cfs", "throw", "write", "finish"} => HeadOf(op.todo) \in Names(op.todo)
  <2>1. PICK s : s = op.todo
    OBVIOUS
  <2>2. s \in Seq(Step)
    BY <2>1, Types
  <2>3. s = <<>> => HeadOf(s) = "idle"
    BY DEF HeadOf
  <2> QED
    BY <2>1, <2>2, <2>3, HeadName
<1>2. status \notin {"aborted", "abandoning"}
  BY <1>1, RInvIs DEF RShape, GivenUp
<1> QED
  BY <1>2 DEF IInv, RestOK, Session

LEMMA OpTurns ==
  ASSUME Standing, op.todo # <<>>, HeadOf(op.todo) \in {"segment", "cfs"},
         HeadOf(op'.todo) \notin {"write", "finish"}, "close" \notin Names(op'.todo),
         UNCHANGED <<status, autoCommit, infos, rollback, commitPending, disk>>,
         \A f \in dir' : f \in dir \/ f[1] # "segments",
         Nothing(buf') \/ (HeadOf(op.todo) = "cfs" /\ buf' = buf),
         \/ status \in Session
         \/ Names(op'.todo) \subseteq Names(op.todo) /\ buf' = buf /\ merge' = merge
  PROVE  RInv' /\ CommittedDocs' = CommittedDocs /\ LiveDocs(infos') = LiveDocs(infos)
         /\ Mode' = Mode
PROOF
<1>1. IInv /\ FInv /\ DP!IInv
  BY DEF Standing, Fitting
<1>2. PICK a, t, S : a = Head(op.todo) /\ t = Tail(op.todo) /\ S = Steps(op.todo)
  OBVIOUS
<1>3. Kinds(S) \subseteq {a[1], "bind"} /\ a[1] = HeadOf(op.todo)
      /\ status \notin {"closed", "opening"}
  BY <1>1, <1>2, BindFollows
<1>4. Names(op.todo) \subseteq {HeadOf(op.todo), "bind"}
  BY <1>2, <1>3, KindsAre
<1>5. "close" \notin Names(op.todo) /\ ("segment" \notin Names(op.todo) \/ HeadOf(op.todo) = "segment")
  BY <1>4
<1>6. CommittedDocs' = CommittedDocs
  BY SameDisk DEF Standing
<1>7. Mode' = Mode
  BY <1>3, SameMode
<1>8. RShape(status, autoCommit, commitPending, op.todo, op.onFail, buf, merge.stage,
             LiveDocs(infos), CommittedDocs, LiveDocs(op.undo), LiveDocs(rollback))
  BY RInvIs DEF Standing
<1>9. PICK s2, b2, ms2, f2, u2 : /\ s2 = op'.todo /\ b2 = buf' /\ ms2 = merge'.stage
                                 /\ f2 = op'.onFail /\ u2 = LiveDocs(op'.undo)
  OBVIOUS
<1>10. /\ Nothing(b2) \/ ("segment" \notin Names(op.todo) /\ Nothing(buf) => Nothing(b2))
       /\ Nothing(b2) \/ "segment" \notin Names(op.todo) \/ "segment" \in Names(s2)
       /\ \/ status \in Session
          \/ Names(s2) \subseteq Names(op.todo) /\ b2 = buf /\ ms2 = merge.stage
       /\ HeadOf(s2) \notin {"write", "finish"} /\ "close" \notin Names(s2)
  BY <1>5, <1>9
<1>11. HeadOf(op.todo) \notin {"write", "finish"}
  OBVIOUS
<1>12. RShape(status, autoCommit, commitPending, s2, f2, b2, ms2,
              LiveDocs(infos), CommittedDocs, u2, LiveDocs(rollback))
  BY ONLY <1>3, <1>5, <1>8, <1>10, <1>11, ShapeTurned
<1> QED
  BY <1>6, <1>7, <1>9, <1>12, RInvIs

LEMMA OpCommits ==
  ASSUME Standing, status \in Session, "close" \notin Names(op.todo),
         HeadOf(op.todo) \notin {"write", "finish"},
         NEW t, Script(t), Names(t) \cap (Firsts \cup {"close"}) = {},
         op'.todo = CommitSteps \o t, op'.undo = infos, MarkPending,
         UNCHANGED <<status, autoCommit, rollback, disk>>,
         \A f \in dir' : f \in dir \/ f[1] # "segments",
         Nothing(buf') \/ ("segment" \notin Names(op.todo) /\ buf' = buf)
  PROVE  RInv' /\ CommittedDocs' = CommittedDocs /\ Mode' = Mode
PROOF
<1>1. IInv /\ autoCommit \in BOOLEAN
  BY DEF Standing, Fitting, IInv, RestOK
<1>2. status # "opening"
  BY DEF Session
<1>3. CommittedDocs' = CommittedDocs
  BY SameDisk DEF Standing
<1>4. Mode' = Mode
  BY <1>2, SameMode
<1>5. PICK s2, b2, ms2, f2, w2, pend2 :
        /\ s2 = op'.todo /\ b2 = buf' /\ ms2 = merge'.stage /\ f2 = op'.onFail
        /\ w2 = LiveDocs(infos') /\ pend2 = commitPending'
  OBVIOUS
<1>6. PICK s1 : s1 = CommitSteps
  OBVIOUS
<1>7. s1 = (IF autoCommit THEN <<<<"write">>, <<"ckpt", TRUE>>>> ELSE <<<<"ckpt", FALSE>>>>)
  BY <1>6 DEF CommitSteps
<1>8. HeadOf(s1) = (IF autoCommit THEN "write" ELSE "ckpt")
  BY <1>7 DEF HeadOf
<1>9. s1 \in Seq(Step) /\ s1 # <<>> /\ t \in Seq(Step)
  BY <1>6, CommitScript DEF Script
<1>10. HeadOf(s2) = (IF autoCommit THEN "write" ELSE "ckpt")
  BY <1>5, <1>6, <1>8, <1>9, StepsJoin
<1>11. "close" \notin Names(s2)
  <2>1. Names(s2) \subseteq {"write", "ckpt"} \cup Names(t)
    BY <1>5, CommitThen
  <2> QED
    BY <2>1
<1>12. ~autoCommit => pend2
  BY <1>5 DEF MarkPending
<1>13. RShape(status, autoCommit, commitPending, op.todo, op.onFail, buf, merge.stage,
             LiveDocs(infos), CommittedDocs, LiveDocs(op.undo), LiveDocs(rollback))
  BY RInvIs DEF Standing
<1>14. Nothing(b2) \/ ("segment" \notin Names(op.todo) /\ b2 = buf)
  BY <1>5
<1>15. RShape(status, autoCommit, pend2, s2, f2, b2, ms2, w2, CommittedDocs, LiveDocs(infos),
              LiveDocs(rollback))
  BY ONLY <1>1, <1>10, <1>11, <1>12, <1>13, <1>14, ShapeCommits, status \in Session,
     "close" \notin Names(op.todo), HeadOf(op.todo) \notin {"write", "finish"}
<1> QED
  BY <1>3, <1>4, <1>5, <1>15, RInvIs

LEMMA FlushFailsSeen ==
  ASSUME Standing, FlushFails
  PROVE  RInv' /\ [Abstract!Next]_(Abstract!vars)
PROOF
<1>1. IInv /\ op.todo # <<>> /\ HeadOf(op.todo) = "segment" /\ ~Nothing(buf)
  BY Heads DEF Standing, Fitting, FlushFails, At, Nothing
<1>2. PICK n : n = buf.seg
  OBVIOUS
<1>3. n \in Name \cup {None}
  BY <1>1, <1>2 DEF IInv, BufOK, BufShape
<1>4. PICK s, fs : s = Unflush(fs) /\ fs = {}
  OBVIOUS
<1>5. /\ HeadOf(s) \in {"delete", "partial"} /\ Script(s)
      /\ Names(s) \subseteq {"delete", "partial", "ckpt", "refresh", "throw"}
  <2>1. fs \in SUBSET File /\ buf.seg \in Name \cup {None}
    BY <1>2, <1>3, <1>4
  <2> QED
    BY <1>4, <2>1, UnflushSteps
<1>6. op' = Going(op, s) /\ OpShape(op)
  BY <1>1, <1>4 DEF FlushFails, GoOn, Going, IInv, OpOK, OpFits
<1>7. op'.todo = s
  BY <1>5, <1>6, WentOn
<1>8. UNCHANGED <<status, autoCommit, infos, rollback, commitPending, disk>> /\ faults' = faults + 1
      /\ buf' = [EmptyBuf EXCEPT !.closed = buf.closed]
  BY DEF FlushFails, si
<1>9. \A f \in dir' : f \in dir \/ f[1] # "segments"
  BY Fields DEF FlushFails
<1>10. buf'.docs = {} /\ buf'.dels = {} /\ Nothing(buf')
  BY <1>8 DEF EmptyBuf, Nothing
<1>11. status \in Session
  BY <1>1, InSession, Heads, Opening DEF Standing
<1>12. RInv' /\ CommittedDocs' = CommittedDocs /\ LiveDocs(infos') = LiveDocs(infos)
       /\ Mode' = Mode
  BY <1>1, <1>5, <1>7, <1>8, <1>9, <1>10, <1>11, OpTurns
<1> QED
  BY <1>8, <1>10, <1>12, SeenFailure

LEMMA FlushCompoundFailsSeen ==
  ASSUME Standing, FlushCompoundFails
  PROVE  RInv' /\ [Abstract!Next]_(Abstract!vars)
PROOF
<1>1. IInv /\ FInv /\ DP!IInv /\ op.todo # <<>> /\ HeadOf(op.todo) = "cfs"
  BY Heads DEF Standing, Fitting, FlushCompoundFails, At
<1>2. PICK n : n = Head(op.todo)[2]
  OBVIOUS
<1>3. n \in Name
  BY <1>1, <1>2, CfsFacts
<1>4. PICK fs : fs = {Cfs(n)}
  OBVIOUS
<1>5. PICK s : s = <<<<"delete", fs>>, <<"partial">>, <<"throw", "caller">>>>
  OBVIOUS
<1>6. HeadOf(s) = "delete" /\ Names(s) = {"delete", "partial", "throw"} /\ Script(s)
  BY <1>3, <1>4, <1>5, CompoundFailSteps
<1>7. op' = Going(op, s) /\ OpShape(op)
  BY <1>1, <1>2, <1>4, <1>5 DEF FlushCompoundFails, GoOn, Going, IInv, OpOK, OpFits
<1>8. op'.todo = s
  BY <1>6, <1>7, WentOn
<1>9. UNCHANGED <<status, autoCommit, infos, rollback, commitPending, disk, buf>>
      /\ faults' = faults + 1
  BY DEF FlushCompoundFails, si
<1>10. \A f \in dir' : f \in dir \/ f[1] # "segments"
  BY Fields DEF FlushCompoundFails
<1>11. status \in Session
  BY <1>1, InSession, Heads, Opening DEF Standing
<1>12. RInv' /\ CommittedDocs' = CommittedDocs /\ LiveDocs(infos') = LiveDocs(infos)
       /\ Mode' = Mode
  BY <1>1, <1>6, <1>8, <1>9, <1>10, <1>11, OpTurns
<1> QED
  BY <1>9, <1>12, SeenFailure

-----------------------------------------------------------------------------
(* What a flush makes of the documents.                                    *)

LEMMA LiveDeleted ==
  ASSUME NEW s, SegmentOK(s), NEW ds
  PROVE  Live(ApplyDeletes(s, ds)) = Live(s) \ ds
PROOF
<1>1. s.dels \subseteq s.docs /\ s \in SegmentInfos
  BY DEF SegmentOK
<1>2. CASE ds \cap Live(s) = {}
  BY <1>2 DEF ApplyDeletes, Live
<1>3. CASE ds \cap Live(s) # {}
  <2>1. PICK r : r = ApplyDeletes(s, ds)
    OBVIOUS
  <2>2. r.docs = s.docs /\ r.dels = s.dels \cup (ds \cap s.docs)
    BY <1>1, <1>3, <2>1 DEF ApplyDeletes, SegmentInfos
  <2> QED
    BY <2>1, <2>2 DEF Live
<1> QED
  BY <1>2, <1>3

LEMMA AppliedDocs ==
  ASSUME NEW all, NEW n, NEW seg, NEW m, Fits(all, n, seg, m), NEW ds
  PROVE  LiveDocs(AppliedTo(all, ds)) = LiveDocs(all) \ ds
PROOF
<1>1. PICK js : js = AppliedTo(all, ds)
  OBVIOUS
<1>2. DOMAIN js = DOMAIN all
  BY <1>1 DEF AppliedTo
<1>3. ASSUME NEW i \in DOMAIN all
      PROVE  Live(js[i]) = Live(all[i]) \ ds
  <2>1. SegmentOK(all[i])
    BY DEF Fits, ListOK
  <2>2. js[i] = ApplyDeletes(all[i], ds)
    BY <1>1 DEF AppliedTo
  <2> QED
    BY <2>1, <2>2, LiveDeleted
<1>4. LiveDocs(js) = UNION {Live(js[i]) : i \in DOMAIN all}
  BY <1>2 DEF LiveDocs
<1>5. LiveDocs(all) = UNION {Live(all[i]) : i \in DOMAIN all}
  BY DEF LiveDocs
<1>6. ASSUME NEW d
      PROVE  d \in LiveDocs(js) <=> d \in LiveDocs(all) \ ds
  BY <1>3, <1>4, <1>5
<1> QED
  BY <1>1, <1>6

LEMMA AppendedDocs ==
  ASSUME NEW is \in Seq(SegmentInfos), NEW new
  PROVE  LiveDocs(Append(is, new)) = LiveDocs(is) \cup Live(new)
PROOF
<1>1. PICK js, n : js = Append(is, new) /\ n = Len(is)
  OBVIOUS
<1>2. n \in Nat /\ DOMAIN is = 1..n /\ DOMAIN js = 1..(n + 1)
      /\ js[n + 1] = new /\ \A i \in 1..n : js[i] = is[i]
  BY <1>1
<1>3. ASSUME NEW d
      PROVE  d \in LiveDocs(js) <=> d \in LiveDocs(is) \/ d \in Live(new)
  <2>1. ASSUME d \in LiveDocs(js)
        PROVE  d \in LiveDocs(is) \/ d \in Live(new)
    <3>1. PICK i \in 1..(n + 1) : d \in Live(js[i])
      BY <1>2, <2>1 DEF LiveDocs
    <3>2. CASE i = n + 1
      BY <1>2, <3>1, <3>2
    <3>3. CASE i # n + 1
      <4>1. i \in 1..n
        BY <1>2, <3>3
      <4> QED
        BY <1>2, <3>1, <4>1 DEF LiveDocs
    <3> QED
      BY <3>2, <3>3
  <2>2. ASSUME d \in LiveDocs(is)
        PROVE  d \in LiveDocs(js)
    <3>1. PICK i \in 1..n : d \in Live(is[i])
      BY <1>2, <2>2 DEF LiveDocs
    <3>2. i \in 1..(n + 1)
      BY <1>2
    <3>3. d \in Live(js[i])
      BY <1>2, <3>1
    <3> QED
      BY <1>2, <3>2, <3>3 DEF LiveDocs
  <2>3. ASSUME d \in Live(new)
        PROVE  d \in LiveDocs(js)
    <3>1. n + 1 \in 1..(n + 1)
      BY <1>2
    <3> QED
      BY <1>2, <2>3, <3>1 DEF LiveDocs
  <2> QED
    BY <2>1, <2>2, <2>3
<1> QED
  BY <1>1, <1>3

LEMMA FlushNothingSeen ==
  ASSUME Standing, FlushSegment, buf.docs = {}, buf.dels = {}
  PROVE  RInv' /\ [Abstract!Next]_(Abstract!vars)
PROOF
<1>1. IInv /\ FInv /\ op.todo # <<>> /\ HeadOf(op.todo) = "segment"
  BY Heads DEF Standing, Fitting, FlushSegment, At
<1>2. Advance /\ UNCHANGED <<dir, disk, status, autoCommit, infos, rollback, commitPending, buf,
                             merge, faults>>
  BY DEF FlushSegment
<1>3. Popping(op, op', status, autoCommit)
  BY <1>1, <1>2, Onward
<1>4. Names(op'.todo) \subseteq Names(op.todo) /\ HeadOf(op'.todo) \notin {"write", "finish"}
  BY <1>3 DEF Popping, Firsts
<1>5. "close" \notin Names(op.todo)
  <2>1. PICK a, t, S : a = Head(op.todo) /\ t = Tail(op.todo) /\ S = Steps(op.todo)
    OBVIOUS
  <2>2. Kinds(S) \subseteq {a[1], "bind"} /\ a[1] = HeadOf(op.todo)
    BY <1>1, <2>1, BindFollows DEF Standing, Fitting
  <2> QED
    BY <1>1, <2>1, <2>2, KindsAre
<1>6. Nothing(buf')
  BY <1>2 DEF Nothing
<1>7. RInv' /\ CommittedDocs' = CommittedDocs /\ LiveDocs(infos') = LiveDocs(infos)
      /\ Mode' = Mode
  BY <1>1, <1>2, <1>4, <1>5, <1>6, OpTurns
<1> QED
  BY <1>2, <1>7, Unseen

LEMMA FlushAllSeen ==
  ASSUME Standing, FlushSegment, ~(buf.docs = {} /\ buf.dels = {})
  PROVE  RInv' /\ [Abstract!Next]_(Abstract!vars)
PROOF
<1>1. IInv /\ FInv /\ DP!IInv /\ op.todo # <<>> /\ HeadOf(op.todo) = "segment"
  BY Heads DEF Standing, Fitting, FlushSegment, At
<1>2. PICK a, t, S : a = Head(op.todo) /\ t = Tail(op.todo) /\ S = Steps(op.todo)
  OBVIOUS
<1>3. Kinds(S) \subseteq {a[1], "bind"} /\ a[1] = HeadOf(op.todo) /\ a \in Step
      /\ Script(t) /\ Names(t) \subseteq {"bind"}
  BY <1>1, <1>2, BindFollows
<1>4. status \in Session
  BY <1>1, InSession, Heads, Opening DEF Standing, Nothing
<1>5. PICK fds, x, cfx : fds = a[2] /\ x = a[3] /\ cfx = a[4]
  OBVIOUS
<1>6. fds \in BOOLEAN /\ x \in Name \cup {None} /\ cfx \in BOOLEAN
  <2>1. a \in {"segment"} \X BOOLEAN \X (Name \cup {None}) \X BOOLEAN
    BY <1>1, <1>3 DEF Step
  <2> QED
    BY <1>5, <2>1
<1>7. PICK st, sc : st = (IF fds THEN None ELSE x) /\ sc = (~fds /\ cfx)
  OBVIOUS
<1>8. PICK new : new = [name |-> buf.seg, docs |-> buf.docs, dels |-> {}, delGen |-> 0,
                        cfs |-> FALSE, store |-> st, storeCfs |-> sc]
  OBVIOUS
<1>9. PICK all : all = IF buf.docs # {} THEN Append(infos, new) ELSE infos
  OBVIOUS
<1>10. PICK mk : mk = IF buf.docs # {} /\ UseCompound THEN <<<<"cfs", buf.seg>>>> ELSE <<>>
  OBVIOUS
<1>11. infos' = AppliedTo(all, buf.dels)
  <2> DEFINE al == IF buf.docs # {}
                   THEN Append(infos, [name |-> buf.seg, docs |-> buf.docs, dels |-> {},
                          delGen |-> 0, cfs |-> FALSE,
                          store |-> IF Head(op.todo)[2] THEN None ELSE Head(op.todo)[3],
                          storeCfs |-> ~Head(op.todo)[2] /\ Head(op.todo)[4]])
                   ELSE infos
  <2>1. al = all
    BY <1>2, <1>5, <1>7, <1>8, <1>9
  <2>2. infos' = AppliedTo(al, buf.dels)
    BY Zenon DEF FlushSegment, AppliedTo
  <2> HIDE DEF al
  <2> QED
    BY <2>1, <2>2
<1>12. buf' = [buf EXCEPT !.docs = {}, !.dels = {}, !.seg = None,
                 !.store = IF buf.docs # {} /\ fds THEN None ELSE @]
  BY <1>2, <1>5 DEF FlushSegment
<1>13. PICK f : f = IF buf.dels # {} /\ merge.stage # "none" THEN <<<<"die">>>>
                    ELSE Unflush(NewDels(infos, infos'))
  OBVIOUS
<1>14. op' = Recommit(op, (CommitSteps \o mk) \o t, infos, f) /\ MarkPending
  BY <1>2, <1>10, <1>13 DEF FlushSegment, Recommit
<1>15. UNCHANGED <<disk, status, autoCommit, rollback, merge, faults>>
  BY DEF FlushSegment
<1>16. \A g \in dir' : g \in dir \/ g[1] # "segments"
  <2>1. dir' = dir \cup (IF buf.docs # {} THEN {Core(buf.seg)} ELSE {})
                   \cup {Del(infos'[i].name, infos'[i].delGen) :
                           i \in {j \in DOMAIN all : infos'[j] # all[j]}}
    <3> DEFINE al == IF buf.docs # {}
                     THEN Append(infos, [name |-> buf.seg, docs |-> buf.docs, dels |-> {},
                            delGen |-> 0, cfs |-> FALSE,
                            store |-> IF Head(op.todo)[2] THEN None ELSE Head(op.todo)[3],
                            storeCfs |-> ~Head(op.todo)[2] /\ Head(op.todo)[4]])
                     ELSE infos
    <3>1. al = all
      BY <1>2, <1>5, <1>7, <1>8, <1>9
    <3>2. dir' = dir \cup (IF buf.docs # {} THEN {Core(buf.seg)} ELSE {})
                     \cup {Del(infos'[i].name, infos'[i].delGen) :
                             i \in {j \in DOMAIN al : infos'[j] # al[j]}}
      BY Zenon DEF FlushSegment
    <3> HIDE DEF al
    <3> QED
      BY <3>1, <3>2
  <2>2. PICK js : js = infos'
    OBVIOUS
  <2>3. dir' = dir \cup (IF buf.docs # {} THEN {Core(buf.seg)} ELSE {})
                   \cup {Del(js[i].name, js[i].delGen) : i \in {j \in DOMAIN all : js[j] # all[j]}}
    BY <2>1, <2>2
  <2> QED
    BY <2>3, Fields
<1>17. /\ buf.docs \subseteq Doc /\ buf.dels \subseteq Doc /\ buf.seg \in Name \cup {None}
       /\ buf.docs # {} => buf.seg \in Name
       /\ buf \in [docs : SUBSET Doc, dels : SUBSET Doc, seg : Name \cup {None},
                   store : Name \cup {None}, closed : BOOLEAN]
  BY <1>1 DEF IInv, BufOK, BufShape
<1>18. buf'.docs = {} /\ buf'.dels = {}
  BY <1>12, <1>17
<1>19. LiveDocs(infos') = (LiveDocs(infos) \cup buf.docs) \ buf.dels
  <2>1. infos \in Seq(SegmentInfos) /\ counter \in Nat
    BY <1>1, Types
  <2>2. LiveDocs(all) = LiveDocs(infos) \cup buf.docs
    <3>1. CASE buf.docs # {}
      <4>1. Live(new) = buf.docs
        BY <1>8 DEF Live
      <4> QED
        BY <1>9, <2>1, <3>1, <4>1, AppendedDocs
    <3>2. CASE buf.docs = {}
      BY <1>9, <3>2
    <3> QED
      BY <3>1, <3>2
  <2>3. Fits(all, counter, None, merge)
    <3>1. CASE buf.docs # {}
      <4>1. st \in Name \cup {None} /\ sc \in BOOLEAN
        BY <1>6, <1>7
      <4> QED
        BY <1>1, <1>8, <1>9, <3>1, <4>1, NewSegment
    <3>2. CASE buf.docs = {}
      <4>1. Fits(infos, counter, buf.seg, merge)
        BY <1>1 DEF IInv, InfosOK
      <4> QED
        BY <1>9, <2>1, <3>2, <4>1, FitsStill DEF Calmer
    <3> QED
      BY <3>1, <3>2
  <2>4. LiveDocs(AppliedTo(all, buf.dels)) = LiveDocs(all) \ buf.dels
    BY <2>3, AppliedDocs
  <2> QED
    BY <1>11, <2>2, <2>4
<1>20. PICK r : r = mk \o t
  OBVIOUS
<1>21. Script(mk) /\ Names(mk) \subseteq {"cfs"}
  <2>1. CASE buf.docs # {} /\ UseCompound
    <3>1. PICK e : e = <<"cfs", buf.seg>>
      OBVIOUS
    <3>2. e \in Step /\ e[1] = "cfs"
      BY <2>1, <3>1, <1>17 DEF Step
    <3>3. mk = <<e>>
      BY <2>1, <3>1, <1>10
    <3>4. Script(<<e>>) /\ Names(<<e>>) = {"cfs"}
      BY <3>2, OneStep, Literals
    <3> QED
      BY <3>3, <3>4
  <2>2. CASE ~(buf.docs # {} /\ UseCompound)
    <3>1. mk = <<>>
      BY <2>2, <1>10
    <3> QED
      BY <3>1, Literals, PlainScript
  <2> QED
    BY <2>1, <2>2
<1>22. Script(r) /\ Names(r) \cap (Firsts \cup {"close"}) = {}
  <2>1. Names(t) \cap Firsts = {} /\ "bind" \notin Names(mk) /\ "merged" \notin Names(mk)
    BY <1>3, <1>21 DEF Firsts
  <2>2. Script(r) /\ Names(r) = Names(mk) \cup Names(t)
    BY <1>3, <1>20, <1>21, <2>1, Followed
  <2> QED
    BY <1>3, <1>21, <2>2 DEF Firsts
<1>23. op'.todo = CommitSteps \o r /\ op'.undo = infos
  <2>1. OpShape(op)
    BY <1>1 DEF IInv, OpOK, OpFits
  <2>2. PICK s : s = (CommitSteps \o mk) \o t
    OBVIOUS
  <2>3. op' = Recommit(op, s, infos, f)
    BY <1>14, <2>2
  <2>4. op'.todo = s /\ op'.undo = infos
    BY <2>1, <2>3 DEF Recommit, OpShape
  <2>5. CommitSteps \in Seq(Step) /\ mk \in Seq(Step) /\ t \in Seq(Step)
    BY <1>3, <1>21, CommitScript DEF Script
  <2>6. s = CommitSteps \o (mk \o t)
    <3>1. (CommitSteps \o mk) \o t = CommitSteps \o (mk \o t)
      <4>1. PICK a1, a2, a3, Z : a1 = CommitSteps /\ a2 = mk /\ a3 = t /\ Z = Step
        OBVIOUS
      <4>2. a1 \in Seq(Z) /\ a2 \in Seq(Z) /\ a3 \in Seq(Z)
        BY ONLY <2>5, <4>1
      <4>3. (a1 \o a2) \o a3 = a1 \o (a2 \o a3)
        BY ONLY <4>2, ConcatAssociative
      <4> QED
        BY ONLY <4>1, <4>3
    <3> QED
      BY ONLY <2>2, <3>1
  <2> QED
    BY <1>20, <2>4, <2>6
<1>24. "close" \notin Names(op.todo)
  BY <1>1, <1>2, <1>3, KindsAre
<1>25. RInv' /\ CommittedDocs' = CommittedDocs /\ Mode' = Mode
  <2>1. Nothing(buf')
    BY <1>18 DEF Nothing
  <2>2. HeadOf(op.todo) \notin {"write", "finish"}
    BY <1>1
  <2> QED
    BY <1>4, <1>14, <1>15, <1>16, <1>22, <1>23, <1>24, <2>1, <2>2, OpCommits
<1>26. Mode \in {"auto", "manual", "finishing"}
  BY <1>1, <1>4, ModeIs, Modes DEF Session, IInv, RestOK
<1>27. Mode # "closed" /\ Mode' # "closed"
  BY <1>25, <1>26
<1>28. Abstract!Apply
  BY <1>15, <1>18, <1>19, <1>25, <1>26, <1>27 DEF Abstract!Apply
<1> QED
  BY <1>25, <1>28 DEF Abstract!Next

LEMMA FlushSegmentSeen ==
  ASSUME Standing, FlushSegment
  PROVE  RInv' /\ [Abstract!Next]_(Abstract!vars)
PROOF
  BY FlushNothingSeen, FlushAllSeen

LEMMA FlushCompoundSeen ==
  ASSUME Standing, FlushCompound
  PROVE  RInv' /\ [Abstract!Next]_(Abstract!vars)
PROOF
<1>1. IInv /\ FInv /\ DP!IInv /\ op.todo # <<>> /\ HeadOf(op.todo) = "cfs"
  BY Heads DEF Standing, Fitting, FlushCompound, At
<1>2. PICK a, t, S : a = Head(op.todo) /\ t = Tail(op.todo) /\ S = Steps(op.todo)
  OBVIOUS
<1>3. Kinds(S) \subseteq {a[1], "bind"} /\ a[1] = HeadOf(op.todo)
      /\ Script(t) /\ Names(t) \subseteq {"bind"}
  BY <1>1, <1>2, BindFollows
<1>4. status \in Session
  BY <1>1, InSession, Heads, Opening DEF Standing
<1>5. PICK n : n = Head(op.todo)[2]
  OBVIOUS
<1>6. PICK f : f = <<<<"delete", {Cfs(n)}>>, <<"partial">>, <<"throw", "caller">>>>
  OBVIOUS
<1>7. op' = Recommit(op, CommitSteps \o t, infos, f) /\ MarkPending
  BY <1>2, <1>5, <1>6 DEF FlushCompound, Recommit
<1>8. op'.todo = CommitSteps \o t /\ op'.undo = infos
  <2>1. OpShape(op)
    BY <1>1 DEF IInv, OpOK, OpFits
  <2>2. PICK s : s = CommitSteps \o t
    OBVIOUS
  <2>3. op' = Recommit(op, s, infos, f)
    BY <1>7, <2>2
  <2> QED
    BY <2>1, <2>2, <2>3 DEF Recommit, OpShape
<1>9. UNCHANGED <<disk, status, autoCommit, rollback, buf, faults>>
  BY DEF FlushCompound
<1>10. \A g \in dir' : g \in dir \/ g[1] # "segments"
  BY Fields DEF FlushCompound
<1>11. Names(t) \cap (Firsts \cup {"close"}) = {}
  BY <1>3 DEF Firsts
<1>12. "close" \notin Names(op.todo) /\ "segment" \notin Names(op.todo)
       /\ HeadOf(op.todo) \notin {"write", "finish"}
  BY <1>1, <1>2, <1>3, KindsAre
<1>13. RInv' /\ CommittedDocs' = CommittedDocs /\ Mode' = Mode
  BY <1>3, <1>4, <1>7, <1>8, <1>9, <1>10, <1>11, <1>12, OpCommits
<1>14. LiveDocs(infos') = LiveDocs(infos)
  <2>1. PICK js, is : js = infos' /\ is = infos
    OBVIOUS
  <2>2. js = [i \in DOMAIN is |-> IF is[i].name = n THEN [is[i] EXCEPT !.cfs = TRUE] ELSE is[i]]
    BY <1>5, <2>1 DEF FlushCompound
  <2>3. SamePlaces(js, is)
    BY <2>2 DEF SamePlaces
  <2>4. \A i \in DOMAIN is : is[i] \in SegmentInfos
    BY <1>1, <2>1, Types
  <2>5. \A i \in DOMAIN is : /\ js[i] \in SegmentInfos
          /\ js[i].name = is[i].name /\ js[i].docs = is[i].docs
          /\ js[i].dels = is[i].dels /\ js[i].delGen = is[i].delGen
    BY <2>2, <2>4 DEF SegmentInfos
  <2>6. Fits(is, counter, buf.seg, merge)
    BY <1>1, <2>1 DEF IInv, InfosOK
  <2> QED
    BY <2>1, <2>3, <2>5, <2>6, Repacked
<1> QED
  BY <1>9, <1>13, <1>14, Unseen

\* The merged segment holds what its sources held.
LEMMA CommitMergeDocs ==
  ASSUME IInv, CommitMerge
  PROVE  LiveDocs(infos') = LiveDocs(infos)
PROOF
<1>1. merge.stage = "built" /\ status \notin {"closed", "opening"}
  BY Merging DEF CommitMerge
<1>2. PICK c1, c2 : c1 = Current(merge.clone[1].name) /\ c2 = Current(merge.clone[2].name)
  OBVIOUS
<1>3. PICK n, nd : n = merge.out.name /\ nd = NewDeletes
  OBVIOUS
<1>4. PICK dg : dg = IF nd = {} THEN 0 ELSE 1
  OBVIOUS
<1>5. PICK sc : sc = (merge.out.storeCfs \/ (merge.out.store # None
                        /\ \E i \in DOMAIN infos :
                             infos[i].store = merge.out.store /\ infos[i].storeCfs))
  OBVIOUS
<1>6. PICK out : out = [merge.out EXCEPT !.dels = nd, !.delGen = dg, !.storeCfs = sc]
  OBVIOUS
<1>7. n \in Name /\ merge.out \in SegmentInfos
  BY <1>1, <1>3, MergedName
<1>8. merge.out.docs = LiveDocs(merge.clone) /\ merge.out.name < counter
  BY <1>1 DEF IInv, MergeOK, MergeShape
<1>9. /\ nd \subseteq Doc /\ nd \subseteq merge.out.docs
      /\ merge.out.docs \ nd = Live(infos[c1]) \cup Live(infos[c2])
      /\ nd # {} => 1 <= Cardinality(nd) /\ Cardinality(nd) \in Nat
  BY <1>1, <1>2, <1>3, <1>8, Carried
<1>10. sc \in BOOLEAN /\ dg \in Nat
  BY <1>4, <1>5, <1>7 DEF SegmentInfos
<1>11. /\ out \in SegmentInfos /\ out.name = n /\ out.docs = merge.out.docs
       /\ out.dels = nd /\ out.delGen = dg
  BY <1>3, <1>6, <1>7, <1>9, <1>10 DEF SegmentInfos
<1>12. SegmentOK(out)
  <2>1. dg <= Cardinality(nd)
    BY <1>4, <1>9, FS_EmptySet
  <2> QED
    BY <2>1, <1>9, <1>11 DEF SegmentOK
<1>13. Live(out) = Live(infos[c1]) \cup Live(infos[c2])
  BY <1>9, <1>11 DEF Live
<1>14. c1 \in DOMAIN infos /\ c1 + 1 \in DOMAIN infos /\ c2 = c1 + 1
  BY <1>1, <1>2, Sources
<1>15. Fits(infos, counter, buf.seg, merge)
  BY DEF IInv, InfosOK
<1>16. ListOK(infos, counter) /\ out.name < counter /\ Unused(out.name, infos)
  BY <1>1, <1>3, <1>8, <1>11, <1>15 DEF Fits
<1>17. Live(out) = Live(infos[c1]) \cup Live(infos[c1 + 1])
  BY <1>13, <1>14
<1>18. PICK ps : ps = SubSeq(infos, 1, c1 - 1) \o <<out>> \o SubSeq(infos, c1 + 2, Len(infos))
  OBVIOUS
<1>19. LiveDocs(ps) = LiveDocs(infos)
  BY <1>12, <1>14, <1>16, <1>17, <1>18, Spliced
<1>20. infos' = SubSeq(infos, 1, c1 - 1) \o <<out>> \o SubSeq(infos, c1 + 2, Len(infos))
  BY <1>2, <1>3, <1>4, <1>5, <1>6 DEF CommitMerge, Splice
<1> QED
  BY <1>18, <1>19, <1>20

LEMMA CommitMergeSeen ==
  ASSUME Standing, CommitMerge
  PROVE  RInv' /\ [Abstract!Next]_(Abstract!vars)
PROOF
<1>1. IInv /\ merge.stage = "built" /\ op.todo = <<>>
  BY DEF Standing, Fitting, CommitMerge, Free
<1>2. status \in Session
  BY <1>1, MergingStatus DEF Standing
<1>3. PICK x : x = IF UseCompound THEN "committed" ELSE "none"
  OBVIOUS
<1>4. PICK t : t = <<<<"release">>, <<"merged", x>>>>
  OBVIOUS
<1>5. Script(t) /\ Names(t) = {"release", "merged"}
  <2>1. {} \in SUBSET File /\ x \in {"none", "committed"}
    BY <1>3
  <2>2. merge.out.name \in Name
    BY <1>1, MergedName
  <2> QED
    BY <2>1, <2>2, <1>4, EndScripts
<1>6. op'.todo = CommitSteps \o t /\ op'.undo = infos /\ MarkPending
  BY <1>3, <1>4 DEF CommitMerge
<1>7. UNCHANGED <<disk, status, autoCommit, rollback, buf, faults>>
  BY DEF CommitMerge
<1>8. \A g \in dir' : g \in dir \/ g[1] # "segments"
  BY Fields DEF CommitMerge
<1>9. "close" \notin Names(op.todo) /\ "segment" \notin Names(op.todo)
      /\ HeadOf(op.todo) \notin {"write", "finish"}
  BY <1>1, Literals DEF HeadOf
<1>10. Names(t) \cap (Firsts \cup {"close"}) = {}
  BY <1>5 DEF Firsts
<1>11. RInv' /\ CommittedDocs' = CommittedDocs /\ Mode' = Mode
  BY <1>2, <1>5, <1>6, <1>7, <1>8, <1>9, <1>10, OpCommits
<1>12. LiveDocs(infos') = LiveDocs(infos)
  BY <1>1, CommitMergeDocs
<1> QED
  BY <1>7, <1>11, <1>12, Unseen

LEMMA CommitCompoundSeen ==
  ASSUME Standing, CommitCompound
  PROVE  RInv' /\ [Abstract!Next]_(Abstract!vars)
PROOF
<1>1. IInv /\ merge.stage = "compound" /\ op.todo = <<>> /\ Free
  BY DEF Standing, Fitting, CommitCompound, Free
<1>2. status \in Session
  BY <1>1, MergingStatus DEF Standing
<1>3. PICK n, t : n = merge.out.name /\ t = <<<<"merged", "none">>>>
  OBVIOUS
<1>4. n \in Name
  BY <1>1, <1>3, MergedName
<1>5. PICK fs, d : fs = {Cfs(n)} /\ d = <<<<"delete", fs>>>>
  OBVIOUS
<1>6. fs \in SUBSET File
  BY <1>4, <1>5 DEF Cfs, File
<1>7. Script(t) /\ Names(t) = {"merged"} /\ Script(d) /\ Names(d) = {"delete"}
  <2>1. "none" \in {"none", "committed"}
    OBVIOUS
  <2> QED
    BY <2>1, <1>3, <1>4, <1>5, <1>6, EndScripts
<1>8. UNCHANGED <<dir, disk, status, autoCommit, rollback, buf, faults>>
  BY DEF CommitCompound, store
<1>9. PICK gone \in BOOLEAN : gone = (merge.aborted \/ \A i \in DOMAIN infos : infos[i].name # n)
  <2>1. merge.aborted \in BOOLEAN
    BY <1>1 DEF IInv, MergeOK, MergeShape
  <2> QED
    BY <2>1
<1>10. CASE gone
  <2>1. Begin(d \o t, FALSE) /\ UNCHANGED <<infos, commitPending>>
    BY <1>3, <1>5, <1>9, <1>10 DEF CommitCompound
  <2>2. Script(d \o t) /\ Names(d \o t) = Names(d) \cup Names(t)
    BY <1>7, Followed DEF Firsts
  <2>3. Names(d \o t) \cap {"write", "finish", "close"} = {}
    BY <1>7, <2>2
  <2>4. UNCHANGED <<disk, status, autoCommit, infos, commitPending, rollback, buf>>
        /\ faults' \in {faults, faults + 1} /\ \A f \in dir' : f \in dir \/ f[1] # "segments"
    BY <1>8, <2>1
  <2> QED
    BY <1>1, <2>1, <2>2, <2>3, <2>4, MergeEndsSeen
<1>11. CASE ~gone
  <2>1. PICK is, js, c : is = infos /\ js = infos' /\ c = Current(n)
    OBVIOUS
  <2>2. js = [is EXCEPT ![c].cfs = TRUE]
    BY <1>3, <1>9, <1>11, <2>1 DEF CommitCompound
  <2>3. c \in DOMAIN is /\ is \in Seq(SegmentInfos)
    BY <1>1, <1>9, <1>11, <2>1, Types DEF Current
  <2>4. js = [i \in DOMAIN is |-> IF i = c THEN [is[i] EXCEPT !.cfs = TRUE] ELSE is[i]]
    BY <2>2, <2>3
  <2>5. SamePlaces(js, is)
    BY <2>4 DEF SamePlaces
  <2>6. \A i \in DOMAIN is : /\ js[i] \in SegmentInfos
          /\ js[i].name = is[i].name /\ js[i].docs = is[i].docs
          /\ js[i].dels = is[i].dels /\ js[i].delGen = is[i].delGen
    <3>1. \A i \in DOMAIN is : is[i] \in SegmentInfos
      BY <2>3
    <3> QED
      BY <2>4, <3>1 DEF SegmentInfos
  <2>7. Fits(is, counter, buf.seg, merge)
    BY <1>1, <2>1 DEF IInv, InfosOK
  <2>8. LiveDocs(infos') = LiveDocs(infos)
    BY <2>1, <2>5, <2>6, <2>7, Repacked
  <2>9. op'.todo = CommitSteps \o t /\ op'.undo = infos /\ MarkPending
    <3>1. PICK s, f : s = CommitSteps \o t
                      /\ f = <<<<"partial">>, <<"delete", fs>>>> \o t \o <<<<"throw", "merge">>>>
      OBVIOUS
    <3>2. op' = [todo |-> s, undo |-> infos, onFail |-> f, pausing |-> FALSE] /\ MarkPending
      BY <1>3, <1>5, <1>9, <1>11, <3>1 DEF CommitCompound
    <3> QED
      BY <3>1, <3>2
  <2>10. "close" \notin Names(op.todo) /\ "segment" \notin Names(op.todo)
         /\ HeadOf(op.todo) \notin {"write", "finish"}
    BY <1>1, Literals DEF HeadOf
  <2>11. Names(t) \cap (Firsts \cup {"close"}) = {}
    BY <1>7 DEF Firsts
  <2>12. \A f \in dir' : f \in dir \/ f[1] # "segments"
    BY <1>8
  <2>13. RInv' /\ CommittedDocs' = CommittedDocs /\ Mode' = Mode
    BY <1>2, <1>7, <1>8, <2>9, <2>10, <2>11, <2>12, OpCommits
  <2> QED
    BY <1>8, <2>8, <2>13, Unseen
<1> QED
  BY <1>10, <1>11

-----------------------------------------------------------------------------
(* The writer closes, or gives up.                                         *)

\* Every flush comes to writing a segment.
LEMMA FlushNames ==
  ASSUME IInv, NEW fds \in BOOLEAN
  PROVE  /\ "segment" \in Names(FlushSteps(fds))
         /\ buf.store = None => Names(FlushSteps(fds)) = {"segment"}
PROOF
<1>1. PICK f1 : f1 = ((fds \/ autoCommit) /\ buf.store # None)
  OBVIOUS
<1>2. buf.store \in Name \cup {None} /\ f1 \in BOOLEAN /\ UseCompound \in BOOLEAN
  BY <1>1, FlagsAssumption DEF IInv, RestOK, BufOK, BufShape
<1>3. PICK a, b, se, sf : /\ a = <<"stores">> /\ b = <<"ckpt", FALSE>>
                          /\ se = <<"segment", f1, buf.store, FALSE>>
                          /\ sf = <<"segment", FALSE, buf.store, UseCompound>>
  OBVIOUS
<1>4. a \in Step /\ b \in Step /\ se \in Step /\ sf \in Step /\ se[1] = "segment" /\ sf[1] = "segment"
  BY <1>2, <1>3 DEF Step
<1>5. CASE f1 /\ (buf.docs = {} \/ buf.seg # buf.store)
  <2>1. PICK h, q : h = <<a>> \o (IF UseCompound THEN <<b>> ELSE <<>>) /\ q = <<sf>>
    OBVIOUS
  <2>2. h \in Seq(Step) /\ q \in Seq(Step) /\ Names(q) = {"segment"}
    BY <1>4, <2>1, Literals
  <2>3. Steps(h \o q) = Steps(h) \cup Steps(q)
    BY ONLY <2>2, StepsJoin
  <2>4. Names(h \o q) = Kinds(Steps(h) \cup Steps(q))
    BY <2>3, KindsAre
  <2>5. "segment" \in Kinds(Steps(q))
    BY <2>2, KindsAre
  <2>6. "segment" \in Names(h \o q)
    BY <2>4, <2>5 DEF Kinds
  <2>7. FlushSteps(fds) = h \o q
    BY <1>1, <1>3, <1>5, <2>1 DEF FlushSteps
  <2> QED
    BY <1>1, <1>5, <2>6, <2>7
<1>6. CASE ~(f1 /\ (buf.docs = {} \/ buf.seg # buf.store))
  <2>1. FlushSteps(fds) = <<se>>
    BY <1>1, <1>3, <1>6 DEF FlushSteps
  <2>2. Names(<<se>>) = {"segment"}
    BY <1>4, Literals
  <2> QED
    BY <2>1, <2>2
<1> QED
  BY <1>5, <1>6

LEMMA ShapeCloses ==
  ASSUME NEW st, NEW ac, NEW pend, NEW s, NEW f, NEW b, NEW ms, NEW w, NEW c, NEW u, NEW r,
         RShape(st, ac, pend, s, f, b, ms, w, c, u, r), st = "open", s = <<>>,
         NEW st2 \in {"closing", "stopping"},
         NEW s2, "segment" \in Names(s2), HeadOf(s2) \notin {"write", "finish"},
         "close" \notin Names(s2), NEW b2, NEW f2, NEW u2
  PROVE  RShape(st2, ac, pend, s2, f2, b2, ms, w, c, u2, r)
PROOF
<1>1. ~Writes(s) /\ ~Writes(s2)
  BY DEF Writes, HeadOf
<1>2. ~Closing(s) /\ ~Closing(s2)
  BY DEF Closing, Names
<1>3. GivenUp(st2, ac, pend, s2, b2, ms, w, c)
  BY DEF GivenUp
<1>4. Finishes(st2, s2, b2, w, c)
  BY <1>2 DEF Finishes
<1>5. Published(st2, ac, pend, s2, w, c)
  BY <1>1 DEF RShape, Published, Session
<1>6. Undoable(st2, ac, s2, w, c, u2)
  BY <1>1 DEF Undoable
<1>7. Abortable(st2, ac, s2, w, c, r)
  BY <1>2 DEF RShape, Abortable, Session
<1> QED
  BY <1>1, <1>3, <1>4, <1>5, <1>6, <1>7 DEF RShape

\* With autoCommit nothing changes, without everything will be committed.
LEMMA CloseSeen ==
  ASSUME Standing, NEW wait \in BOOLEAN, Close(wait)
  PROVE  RInv' /\ [Abstract!Next]_(Abstract!vars)
PROOF
<1>1. IInv /\ status = "open" /\ op.todo = <<>> /\ autoCommit \in BOOLEAN
      /\ status' \in {"closing", "stopping"}
  BY DEF Standing, Fitting, Close, Free, IInv, RestOK
<1>2. UNCHANGED <<dir, disk, autoCommit, infos, rollback, commitPending, merge, faults>>
      /\ buf' = [buf EXCEPT !.closed = TRUE]
  BY DEF Close, store, si
<1>3. PICK s : s = FlushSteps(TRUE)
  OBVIOUS
<1>4. op'.todo = s
  BY <1>3 DEF Close, Begin
<1>5. Script(s) /\ Names(s) \subseteq {"stores", "ckpt", "segment"} /\ "segment" \in Names(s)
  BY <1>1, <1>3, FlushScript, FlushNames
<1>6. HeadOf(s) \notin {"write", "finish"} /\ "close" \notin Names(s)
  BY <1>5, HeadAmong
<1>7. CommittedDocs' = CommittedDocs
  BY <1>2, SameDisk DEF Standing
<1>8. RShape(status, autoCommit, commitPending, op.todo, op.onFail, buf, merge.stage,
             LiveDocs(infos), CommittedDocs, LiveDocs(op.undo), LiveDocs(rollback))
  BY RInvIs DEF Standing
<1>9. RShape(status', autoCommit, commitPending, s, op'.onFail, buf', merge.stage,
             LiveDocs(infos), CommittedDocs, LiveDocs(op'.undo), LiveDocs(rollback))
  BY ONLY <1>1, <1>5, <1>6, <1>8, ShapeCloses
<1>10. RInv'
  BY <1>2, <1>4, <1>7, <1>9, RInvIs
<1>11. buf'.docs = buf.docs /\ buf'.dels = buf.dels
  BY <1>1, <1>2 DEF IInv, BufOK, BufShape
<1>12. Mode = (IF autoCommit THEN "auto" ELSE "manual")
       /\ Mode' = (IF autoCommit THEN "auto" ELSE "finishing")
  BY <1>1, <1>2, ModeIs, Modes
<1>13. CASE autoCommit
  BY <1>2, <1>7, <1>10, <1>11, <1>12, <1>13, Unseen
<1>14. CASE ~autoCommit
  <2>1. Abstract!Finish
    BY <1>2, <1>7, <1>11, <1>12, <1>14 DEF Abstract!Finish
  <2> QED
    BY <1>10, <2>1 DEF Abstract!Next
<1> QED
  BY <1>13, <1>14

LEMMA ShapeAbandons ==
  ASSUME NEW st, NEW ac, NEW pend, NEW s, NEW f, NEW b, NEW ms, NEW w, NEW c, NEW u, NEW r,
         RShape(st, ac, pend, s, f, b, ms, w, c, u, r), st = "aborted",
         NEW s2, Names(s2) = {"segment"}, HeadOf(s2) \notin {"write", "finish"},
         NEW b2, Nothing(b2), b2.store = None, NEW f2, NEW u2
  PROVE  RShape("abandoning", ac, FALSE, s2, f2, b2, ms, w, c, u2, r)
PROOF
<1>1. ~Writes(s2) /\ ~Closing(s2)
  BY DEF Writes, Closing
<1>2. GivenUp("abandoning", ac, FALSE, s2, b2, ms, w, c)
  BY DEF RShape, GivenUp
<1>3. Finishes("abandoning", s2, b2, w, c)
  BY <1>1 DEF Finishes
<1>4. Published("abandoning", ac, FALSE, s2, w, c)
  BY DEF RShape, GivenUp, Published, Session
<1>5. Undoable("abandoning", ac, s2, w, c, u2)
  BY <1>1 DEF Undoable
<1>6. Abortable("abandoning", ac, s2, w, c, r)
  BY DEF Abortable, Session
<1> QED
  BY <1>1, <1>2, <1>3, <1>4, <1>5, <1>6 DEF RShape

LEMMA AbortCloseSeen ==
  ASSUME Standing, AbortClose
  PROVE  RInv' /\ [Abstract!Next]_(Abstract!vars)
PROOF
<1>1. IInv /\ status = "aborted" /\ status' = "abandoning" /\ autoCommit \in BOOLEAN
  BY DEF Standing, Fitting, AbortClose, IInv, RestOK
<1>2. UNCHANGED <<dir, disk, autoCommit, infos, rollback, merge, faults>> /\ commitPending' = FALSE
      /\ buf' = [buf EXCEPT !.closed = TRUE]
  BY DEF AbortClose, store
<1>3. buf'.docs = buf.docs /\ buf'.dels = buf.dels /\ buf'.store = buf.store
  BY <1>1, <1>2 DEF IInv, BufOK, BufShape
<1>4. RShape(status, autoCommit, commitPending, op.todo, op.onFail, buf, merge.stage,
             LiveDocs(infos), CommittedDocs, LiveDocs(op.undo), LiveDocs(rollback))
  BY RInvIs DEF Standing
<1>5. Nothing(buf) /\ buf.store = None
  BY <1>1, <1>4 DEF RShape, GivenUp
<1>6. PICK s : s = FlushSteps(TRUE)
  OBVIOUS
<1>7. op'.todo = s
  BY <1>6 DEF AbortClose, Begin
<1>8. Script(s) /\ Names(s) = {"segment"}
  BY <1>1, <1>5, <1>6, FlushScript, FlushNames
<1>9. HeadOf(s) \notin {"write", "finish"}
  BY <1>8, HeadAmong
<1>10. CommittedDocs' = CommittedDocs
  BY <1>2, SameDisk DEF Standing
<1>11. Nothing(buf') /\ buf'.store = None
  BY <1>3, <1>5 DEF Nothing
<1>12. RShape("abandoning", autoCommit, FALSE, s, op'.onFail, buf', merge.stage,
              LiveDocs(infos), CommittedDocs, LiveDocs(op'.undo), LiveDocs(rollback))
  BY ONLY <1>1, <1>4, <1>8, <1>9, <1>11, ShapeAbandons
<1>13. RInv'
  BY <1>1, <1>2, <1>7, <1>10, <1>12, RInvIs
<1>14. Mode' = Mode
  BY <1>1, <1>2, ModeIs, Modes
<1> QED
  BY <1>2, <1>3, <1>10, <1>13, <1>14, Unseen

LEMMA ShapeRolledBack ==
  ASSUME NEW st, NEW ac, NEW pend, NEW s, NEW f, NEW b, NEW ms, NEW w, NEW c, NEW u, NEW r,
         RShape(st, ac, pend, s, f, b, ms, w, c, u, r), st = "aborting", s = <<>>, ms = "none",
         NEW s2, Names(s2) = {"ckpt", "refresh"}, HeadOf(s2) \notin {"write", "finish"},
         NEW b2, Nothing(b2), b2.store = None, NEW f2, NEW u2, NEW r2
  PROVE  RShape("aborted", ac, pend, s2, f2, b2, ms, r, c, u2, r2) /\ r = c /\ ~ac
PROOF
<1>1. ~Writes(s2) /\ ~Closing(s2) /\ ~Closing(s)
  BY DEF Writes, Closing, Names
<1>2. r = c /\ ~ac
  BY <1>1 DEF RShape, GivenUp, Abortable, Session
<1>3. GivenUp("aborted", ac, pend, s2, b2, ms, r, c)
  BY <1>2 DEF GivenUp
<1>4. Finishes("aborted", s2, b2, r, c)
  BY <1>1 DEF Finishes
<1>5. Published("aborted", ac, pend, s2, r, c)
  BY <1>2 DEF Published, Session
<1>6. Undoable("aborted", ac, s2, r, c, u2)
  BY <1>1 DEF Undoable
<1>7. Abortable("aborted", ac, s2, r, c, r2)
  BY DEF Abortable, Session
<1> QED
  BY <1>1, <1>2, <1>3, <1>4, <1>5, <1>6, <1>7 DEF RShape

\* What is on disk is what the session began with.
LEMMA AbortRollbackSeen ==
  ASSUME Standing, AbortRollback
  PROVE  RInv' /\ [Abstract!Next]_(Abstract!vars)
PROOF
<1>1. IInv /\ status = "aborting" /\ op.todo = <<>> /\ merge.stage = "none" /\ status' = "aborted"
      /\ autoCommit \in BOOLEAN
  BY DEF Standing, Fitting, AbortRollback, Free, IInv, RestOK
<1>2. UNCHANGED <<dir, disk, autoCommit, commitPending, merge, faults>>
      /\ infos' = rollback /\ rollback' = <<>> /\ buf' = [EmptyBuf EXCEPT !.closed = buf.closed]
  BY DEF AbortRollback, store
<1>3. buf'.docs = {} /\ buf'.dels = {} /\ buf'.store = None /\ Nothing(buf')
  BY <1>2 DEF EmptyBuf, Nothing
<1>4. PICK s : s = <<<<"ckpt", FALSE>>, <<"refresh", None>>>>
  OBVIOUS
<1>5. op'.todo = s
  BY <1>4 DEF AbortRollback, Begin
<1>6. Script(s) /\ Names(s) = {"ckpt", "refresh"}
  <2>1. None \in Name \cup {None} /\ {} \in SUBSET File
    OBVIOUS
  <2> QED
    BY <1>4, <2>1, FailScripts
<1>7. HeadOf(s) \notin {"write", "finish"}
  BY <1>6, HeadAmong
<1>8. CommittedDocs' = CommittedDocs
  BY <1>2, SameDisk DEF Standing
<1>9. RShape(status, autoCommit, commitPending, op.todo, op.onFail, buf, merge.stage,
             LiveDocs(infos), CommittedDocs, LiveDocs(op.undo), LiveDocs(rollback))
  BY RInvIs DEF Standing
<1>10. RShape("aborted", autoCommit, commitPending, s, op'.onFail, buf', merge.stage,
              LiveDocs(rollback), CommittedDocs, LiveDocs(op'.undo), LiveDocs(<<>>))
       /\ LiveDocs(rollback) = CommittedDocs /\ ~autoCommit
  BY ONLY <1>1, <1>3, <1>6, <1>7, <1>9, ShapeRolledBack
<1>11. RInv'
  BY <1>1, <1>2, <1>5, <1>8, <1>10, RInvIs
<1>12. Mode = "manual" /\ Mode' = "aborting"
  BY <1>1, <1>2, <1>10, ModeIs, Modes
<1>13. Abstract!Abort
  BY <1>2, <1>3, <1>8, <1>10, <1>12 DEF Abstract!Abort
<1> QED
  BY <1>11, <1>13 DEF Abstract!Next

LEMMA CloseSteps ==
  ASSUME NEW pend \in BOOLEAN,
         NEW s, s = (IF pend THEN <<<<"write">>, <<"ckpt", TRUE>>>> ELSE <<>>) \o <<<<"close">>>>
  PROVE  /\ HeadOf(s) = (IF pend THEN "write" ELSE "close")
         /\ Names(s) = (IF pend THEN {"write", "ckpt", "close"} ELSE {"close"})
PROOF
<1>1. PICK a, b, c : a = <<"write">> /\ b = <<"ckpt", TRUE>> /\ c = <<"close">>
  OBVIOUS
<1>2. a \in Step /\ b \in Step /\ c \in Step /\ a[1] = "write" /\ b[1] = "ckpt" /\ c[1] = "close"
  BY <1>1 DEF Step
<1>3. CASE pend
  <2>1. PICK h, q : h = <<a, b>> /\ q = <<c>>
    OBVIOUS
  <2>2. /\ h \in Seq(Step) /\ q \in Seq(Step) /\ h # <<>> /\ s = h \o q
        /\ HeadOf(h) = "write"
    BY <1>1, <1>2, <1>3, <2>1 DEF HeadOf
  <2>3. Steps(h) = {a, b} /\ Steps(q) = {c}
    BY <2>1, ShortLists
  <2>4. Steps(s) = Steps(h) \cup Steps(q) /\ HeadOf(s) = HeadOf(h)
    BY ONLY <2>2, StepsJoin
  <2>5. Kinds({a, b} \cup {c}) = {a[1], b[1], c[1]}
    BY DEF Kinds
  <2> QED
    BY <1>2, <1>3, <2>2, <2>3, <2>4, <2>5, KindsAre
<1>4. CASE ~pend
  <2>1. s = <<>> \o <<c>>
    BY <1>1, <1>4
  <2>2. <<>> \o <<c>> = <<c>>
    OBVIOUS
  <2>3. <<c>> \in Seq(Step) /\ Names(<<c>>) = {c[1]}
    BY <1>2, Literals
  <2>4. <<c>>[1] = c /\ <<c>> # <<>>
    OBVIOUS
  <2> QED
    BY <1>2, <1>4, <2>1, <2>2, <2>3, <2>4, HeadName
<1> QED
  BY <1>3, <1>4

LEMMA ShapeCommitsLast ==
  ASSUME NEW st, NEW ac, NEW pend, NEW s, NEW f, NEW b, NEW ms, NEW w, NEW c, NEW u, NEW r,
         RShape(st, ac, pend, s, f, b, ms, w, c, u, r), st \in {"closing", "stopping", "abandoning"},
         s = <<>>, ac \in BOOLEAN,
         NEW s2, HeadOf(s2) = (IF pend THEN "write" ELSE "close"),
         Names(s2) = (IF pend THEN {"write", "ckpt", "close"} ELSE {"close"}), NEW f2
  PROVE  RShape(st, ac, pend, s2, f2, b, ms, w, c, w, r)
PROOF
<1>1. ~Writes(s) /\ (Writes(s2) <=> pend)
  BY DEF Writes, HeadOf
<1>2. ~Closing(s) /\ Closing(s2) /\ "segment" \notin Names(s)
  BY DEF Closing, Names
<1>3. ~pend => w = c
  BY <1>1 DEF RShape, Published, GivenUp, Session
<1>4. GivenUp(st, ac, pend, s2, b, ms, w, c)
  BY DEF RShape, GivenUp
<1>5. Finishes(st, s2, b, w, c)
  BY <1>1, <1>2, <1>3 DEF RShape, Finishes
<1>6. Published(st, ac, pend, s2, w, c)
  BY <1>1, <1>3 DEF RShape, Published
<1>7. Undoable(st, ac, s2, w, c, w)
  BY <1>1 DEF RShape, Undoable, Published
<1>8. Abortable(st, ac, s2, w, c, r)
  BY <1>1, <1>2 DEF RShape, Abortable
<1> QED
  BY <1>4, <1>5, <1>6, <1>7, <1>8 DEF RShape

LEMMA CloseCommitSeen ==
  ASSUME Standing, CloseCommit
  PROVE  RInv' /\ [Abstract!Next]_(Abstract!vars)
PROOF
<1>1. IInv /\ status \in {"closing", "stopping", "abandoning"} /\ op.todo = <<>>
      /\ autoCommit \in BOOLEAN /\ commitPending \in BOOLEAN
  BY DEF Standing, Fitting, CloseCommit, Free, IInv, RestOK
<1>2. UNCHANGED <<dir, disk, status, autoCommit, infos, commitPending, rollback, buf, merge, faults>>
  BY DEF CloseCommit, store, si
<1>3. PICK s : s = (IF commitPending THEN <<<<"write">>, <<"ckpt", TRUE>>>> ELSE <<>>) \o <<<<"close">>>>
  OBVIOUS
<1>4. op'.todo = s /\ op'.undo = infos
  BY <1>3 DEF CloseCommit
<1>5. /\ HeadOf(s) = (IF commitPending THEN "write" ELSE "close")
      /\ Names(s) = (IF commitPending THEN {"write", "ckpt", "close"} ELSE {"close"})
  BY <1>1, <1>3, CloseSteps
<1>6. CommittedDocs' = CommittedDocs
  BY <1>2, SameDisk DEF Standing
<1>7. RShape(status, autoCommit, commitPending, op.todo, op.onFail, buf, merge.stage,
             LiveDocs(infos), CommittedDocs, LiveDocs(op.undo), LiveDocs(rollback))
  BY RInvIs DEF Standing
<1>8. RShape(status, autoCommit, commitPending, s, op'.onFail, buf, merge.stage,
             LiveDocs(infos), CommittedDocs, LiveDocs(infos), LiveDocs(rollback))
  BY ONLY <1>1, <1>5, <1>7, ShapeCommitsLast
<1>9. RInv'
  BY <1>2, <1>4, <1>6, <1>8, RInvIs
<1>10. Mode' = Mode
  BY <1>1, <1>2, SameMode
<1> QED
  BY <1>2, <1>6, <1>9, <1>10, Unseen

-----------------------------------------------------------------------------
(* An operation, or the writer, ends.                                      *)

LEMMA LastStep ==
  ASSUME IInv, FInv, op.todo # <<>>, HeadOf(op.todo) \in {"throw", "close"}
  PROVE  Names(op.todo) = {HeadOf(op.todo)}
PROOF
<1>1. PICK o, st, ac : o = op /\ st = status /\ ac = autoCommit
  OBVIOUS
<1>2. PICK o2 : o2 = Going(o, Tail(o.todo))
  OBVIOUS
<1>3. OpShape(o) /\ OrderShape(o, st, ac) /\ o.todo # <<>>
  BY <1>1 DEF IInv, OpOK, OpFits, FInv, OrderOK
<1>4. Popping(o, o2, st, ac)
  BY ONLY <1>2, <1>3, OrderGoing
<1>5. o2.todo = <<>> /\ Names(o.todo) = {HeadOf(o.todo)} \cup Names(o2.todo)
  BY <1>1, <1>4 DEF Popping
<1>6. Names(o2.todo) = {}
  BY <1>5 DEF Names
<1>7. Names(o.todo) = {HeadOf(o.todo)}
  BY ONLY <1>5, <1>6
<1> QED
  BY ONLY <1>1, <1>7

\* Of a writer that is not there nothing is asked.
LEMMA ShapeClosed ==
  ASSUME NEW ac, NEW pend, NEW f, NEW b, NEW ms, NEW w, NEW c, NEW u, NEW r
  PROVE  RShape("closed", ac, pend, <<>>, f, b, ms, w, c, u, r)
PROOF
<1>1. ~Writes(<<>>) /\ ~Closing(<<>>)
  BY DEF Writes, HeadOf, Closing, Names
<1> QED
  BY <1>1 DEF RShape, GivenUp, Finishes, Published, Undoable, Abortable, Session

LEMMA ShapeThrown ==
  ASSUME NEW st, NEW ac, NEW pend, NEW s, NEW f, NEW b, NEW ms, NEW w, NEW c, NEW u, NEW r,
         RShape(st, ac, pend, s, f, b, ms, w, c, u, r), st \notin {"closed", "opening"},
         Names(s) = {"throw"}, HeadOf(s) = "throw",
         NEW st2, st2 = st \/ (st \in {"closing", "stopping"} /\ st2 = "open"),
         NEW f2, NEW u2
  PROVE  RShape(st2, ac, pend, <<>>, f2, b, ms, w, c, u2, r)
PROOF
<1>1. ~Writes(s) /\ ~Closing(s) /\ ~Writes(<<>>) /\ ~Closing(<<>>)
  <2>1. ~Writes(s) /\ ~Closing(s)
    BY DEF Writes, Closing
  <2>2. HeadOf(<<>>) = "idle"
    BY DEF HeadOf
  <2>3. Names(<<>>) = {}
    BY DEF Names
  <2> QED
    BY <2>1, <2>2, <2>3 DEF Writes, Closing
<1>2. st \notin {"aborted", "abandoning"}
  BY DEF RShape, GivenUp
<1>3. GivenUp(st2, ac, pend, <<>>, b, ms, w, c)
  BY <1>2 DEF RShape, GivenUp
<1>4. Finishes(st2, <<>>, b, w, c)
  BY <1>1, <1>2 DEF RShape, Finishes
<1>5. Published(st2, ac, pend, <<>>, w, c)
  BY <1>1 DEF RShape, Published, Session
<1>6. Undoable(st2, ac, <<>>, w, c, u2)
  BY <1>1 DEF Undoable
<1>7. Abortable(st2, ac, <<>>, w, c, r)
  BY <1>1 DEF RShape, Abortable, Session
<1> QED
  BY <1>1, <1>3, <1>4, <1>5, <1>6, <1>7 DEF RShape

\* A writer that was closing may be open again, one that was being created is
\* not there.
LEMMA ThrowSeen ==
  ASSUME Standing, Throw
  PROVE  RInv' /\ [Abstract!Next]_(Abstract!vars)
PROOF
<1>1. IInv /\ FInv /\ op.todo # <<>> /\ HeadOf(op.todo) = "throw" /\ autoCommit \in BOOLEAN
      /\ autoCommit' = autoCommit
  BY Heads DEF Standing, Fitting, Throw, At, IInv, RestOK
<1>2. Names(op.todo) = {"throw"}
  BY <1>1, LastStep
<1>3. UNCHANGED <<dir, disk, rollback, buf, merge, faults>> /\ op' = Idle
      /\ op'.todo = <<>> /\ op'.onFail = <<>>
  BY DEF Throw, GoOn, store, Idle
<1>4. CommittedDocs' = CommittedDocs
  BY <1>3, SameDisk DEF Standing
<1>5. RShape(status, autoCommit, commitPending, op.todo, op.onFail, buf, merge.stage,
             LiveDocs(infos), CommittedDocs, LiveDocs(op.undo), LiveDocs(rollback))
  BY RInvIs DEF Standing
<1>6. status # "closed"
  BY <1>1 DEF IInv, StartOK, StartShape
<1>7. CASE status = "opening"
  <2>1. status' = "closed"
    BY <1>7 DEF Throw
  <2>2. RInv'
    BY <1>3, <2>1, ShapeClosed, RInvIs
  <2>3. Mode = (IF op.onFail = <<>> THEN "closed" ELSE "creating") /\ Mode' = "closed"
    BY <1>1, <1>7, <2>1, ModeIs, Modes
  <2>4. CASE op.onFail = <<>>
    BY <1>3, <1>4, <2>2, <2>3, <2>4 DEF Abstract!vars
  <2>5. CASE op.onFail # <<>>
    <3>1. Abstract!Abandon
      BY <1>3, <1>4, <2>3, <2>5 DEF Abstract!Abandon
    <3> QED
      BY <2>2, <3>1 DEF Abstract!Next
  <2> QED
    BY <2>4, <2>5
<1>8. CASE status # "opening"
  <2>1. UNCHANGED <<infos, commitPending>>
    BY <1>8 DEF Throw, si
  <2>2. status \notin {"aborted", "abandoning"}
    BY <1>2, <1>5 DEF RShape, GivenUp
  <2>3. status' = status \/ (status \in {"closing", "stopping"} /\ status' = "open")
    BY <1>8, <2>2 DEF Throw
  <2>4. PICK st2 : st2 = status'
    OBVIOUS
  <2>5. st2 = status \/ (status \in {"closing", "stopping"} /\ st2 = "open")
    BY <2>3, <2>4
  <2>6. status \notin {"closed", "opening"} /\ HeadOf(op.todo) = "throw"
    BY <1>1, <1>6, <1>8
  <2>7. RShape(st2, autoCommit, commitPending, <<>>, op'.onFail, buf, merge.stage,
               LiveDocs(infos), CommittedDocs, LiveDocs(op'.undo), LiveDocs(rollback))
    BY ONLY <1>2, <1>5, <2>5, <2>6, ShapeThrown
  <2>8. RInv'
    BY <1>1, <1>3, <1>4, <2>1, <2>4, <2>7, RInvIs
  <2>9. CASE status' = status
    <3>1. Mode' = Mode
      BY <1>1, <1>8, <2>9, SameMode
    <3> QED
      BY <1>3, <1>4, <2>1, <2>8, <3>1, Unseen
  <2>10. CASE status' # status
    <3>1. status \in {"closing", "stopping"} /\ status' = "open"
      BY <2>3, <2>10
    <3>2. Mode = (IF autoCommit THEN "auto" ELSE "finishing")
          /\ Mode' = (IF autoCommit THEN "auto" ELSE "manual")
      BY <1>1, <3>1, ModeIs, Modes
    <3>3. CASE autoCommit
      <4>1. Mode' = Mode
        BY <3>2, <3>3
      <4> QED
        BY <1>3, <1>4, <2>1, <2>8, <4>1, Unseen
    <3>4. CASE ~autoCommit
      <4>1. Abstract!Unfinish
        BY <1>3, <1>4, <2>1, <3>2, <3>4 DEF Abstract!Unfinish
      <4> QED
        BY <2>8, <4>1 DEF Abstract!Next
    <3> QED
      BY <3>3, <3>4
  <2> QED
    BY <2>9, <2>10
<1> QED
  BY <1>7, <1>8

\* What is left of it is on disk.
LEMMA CloseDeleterSeen ==
  ASSUME Standing, CloseDeleter
  PROVE  RInv' /\ [Abstract!Next]_(Abstract!vars)
PROOF
<1>1. IInv /\ FInv /\ op.todo # <<>> /\ HeadOf(op.todo) = "close" /\ autoCommit \in BOOLEAN
      /\ autoCommit' = autoCommit
  BY Heads DEF Standing, Fitting, CloseDeleter, Forget, At, IInv, RestOK
<1>2. Names(op.todo) = {"close"}
  BY <1>1, LastStep
<1>3. /\ dir' \subseteq dir /\ disk' = disk /\ faults' = faults /\ status' = "closed"
      /\ buf' = EmptyBuf /\ op' = Idle
  BY DEF CloseDeleter, Forget
<1>4. buf'.docs = {} /\ buf'.dels = {} /\ op'.todo = <<>>
  BY <1>3 DEF EmptyBuf, Idle
<1>5. CommittedDocs' = CommittedDocs
  BY <1>3, SameDisk DEF Standing
<1>6. RInv'
  BY <1>3, <1>4, ShapeClosed, RInvIs
<1>7. RShape(status, autoCommit, commitPending, op.todo, op.onFail, buf, merge.stage,
             LiveDocs(infos), CommittedDocs, LiveDocs(op.undo), LiveDocs(rollback))
  BY RInvIs DEF Standing
<1>8. status \in {"closing", "stopping", "abandoning"} /\ LiveDocs(infos) = CommittedDocs
      /\ Nothing(buf)
  <2>1. Closing(op.todo) /\ ~Writes(op.todo) /\ "segment" \notin Names(op.todo)
    BY <1>1, <1>2 DEF Closing, Writes
  <2> QED
    BY <1>7, <2>1 DEF RShape, Finishes
<1>9. Mode \in {"auto", "finishing", "aborting"} /\ Mode' = "closed" /\ Mode # "closed"
  BY <1>1, <1>3, <1>8, ModeIs, Modes
<1>10. Abstract!Close
  BY <1>3, <1>4, <1>5, <1>8, <1>9 DEF Abstract!Close, Nothing
<1> QED
  BY <1>6, <1>10 DEF Abstract!Next

LEMMA CrashSeen ==
  ASSUME Standing, Crash
  PROVE  RInv' /\ [Abstract!Next]_(Abstract!vars)
PROOF
<1>1. /\ dir' \subseteq dir /\ disk' = disk /\ faults' = faults + 1 /\ status' = "closed"
      /\ buf' = EmptyBuf /\ op' = Idle /\ autoCommit' = autoCommit
  BY DEF Crash, Forget
<1>2. buf'.docs = {} /\ buf'.dels = {} /\ op'.todo = <<>>
  BY <1>1 DEF EmptyBuf, Idle
<1>3. CommittedDocs' = CommittedDocs
  BY <1>1, SameDisk DEF Standing
<1>4. RInv'
  BY <1>1, <1>2, ShapeClosed, RInvIs
<1>5. Mode' = "closed"
  <2>1. autoCommit' \in BOOLEAN
    BY DEF Standing, IInv, RestOK
  <2> QED
    BY <1>1, <2>1, ModeIs, Modes
<1>6. Abstract!Crash
  BY <1>1, <1>2, <1>3, <1>5 DEF Abstract!Crash
<1> QED
  BY <1>4, <1>6 DEF Abstract!Next

-----------------------------------------------------------------------------
(* segments_N is written, or is not.                                       *)

\* Writing goes on.
LEMMA ShapeWrites ==
  ASSUME NEW st, NEW ac, NEW pend, NEW s, NEW f, NEW b, NEW ms, NEW w, NEW c, NEW u, NEW r,
         RShape(st, ac, pend, s, f, b, ms, w, c, u, r), HeadOf(s) = "write",
         NEW t, Names(s) = {"write"} \cup Names(t),
         NEW s2, Names(s2) = {"finish"} \cup Names(t), HeadOf(s2) = "finish"
  PROVE  RShape(st, ac, pend, s2, f, b, ms, w, c, u, r)
PROOF
<1>1. Writes(s) /\ Writes(s2)
  BY DEF Writes
<1>2. Closing(s2) <=> Closing(s)
  BY DEF Closing
<1>3. "segment" \in Names(s) => "segment" \in Names(s2)
  OBVIOUS
<1>4. st \notin {"aborted", "abandoning"}
  BY DEF RShape, GivenUp
<1>5. GivenUp(st, ac, pend, s2, b, ms, w, c)
  BY <1>4 DEF RShape, GivenUp
<1>6. Finishes(st, s2, b, w, c)
  BY <1>1, <1>2, <1>3 DEF RShape, Finishes
<1>7. Published(st, ac, pend, s2, w, c)
  BY <1>1 DEF RShape, Published
<1>8. Undoable(st, ac, s2, w, c, u)
  BY <1>1 DEF RShape, Undoable
<1>9. Abortable(st, ac, s2, w, c, r)
  BY <1>1, <1>2 DEF RShape, Abortable
<1> QED
  BY <1>1, <1>5, <1>6, <1>7, <1>8, <1>9 DEF RShape

\* A segments_N that is not complete is not found.
LEMMA StartWriteSeen ==
  ASSUME Standing, StartWrite
  PROVE  RInv' /\ [Abstract!Next]_(Abstract!vars)
PROOF
<1>1. IInv /\ FInv /\ HeadOf(op.todo) = "write"
  BY HeadAt DEF Standing, Fitting, StartWrite
<1>2. PICK S, t : S = Steps(op.todo) /\ t = Tail(op.todo)
  OBVIOUS
<1>3. /\ op.todo # <<>> /\ status # "closed"
      /\ Names(t) \cap Firsts = {}
      /\ Names(op.todo) = {"write"} \cup Names(t)
  <2>1. HeadOf(op.todo) \in {"write", "finish"}
    BY <1>1
  <2>2. /\ op.todo # <<>> /\ status # "closed"
        /\ Names(t) \cap Firsts = {}
        /\ Names(op.todo) = {HeadOf(op.todo)} \cup Names(t)
    BY ONLY <1>1, <2>1, <1>2, WriteSteps
  <2> QED
    BY ONLY <1>1, <2>2
<1>4. /\ UNCHANGED <<status, autoCommit, infos, commitPending, rollback, buf, merge, faults>>
      /\ gen' = gen + 1 /\ gen' \in Gen /\ dir' = dir \cup {SegmentsFile(gen')}
      /\ disk' = [h \in DOMAIN disk \cup {gen'} |->
                    IF h = gen' THEN [complete |-> FALSE, infos |-> <<>>, counter |-> counter]
                               ELSE disk[h]]
  BY <1>1, Types DEF StartWrite, Gen
<1>5. PICK o, o2, s : o = op /\ o2 = op' /\ s = <<<<"finish">>>> \o t
  OBVIOUS
<1>6. OpShape(o) /\ Script(t)
  <2>1. OpShape(o)
    BY <1>1, <1>5 DEF IInv, OpOK, OpFits
  <2>2. Script(o.todo) /\ o.todo # <<>>
    BY <1>3, <1>5, <2>1 DEF OpShape
  <2> QED
    BY <1>2, <1>5, <2>1, <2>2, Rest
<1>7. Script(s) /\ Names(s) = {"finish"} \cup Names(t) /\ s # <<>> /\ HeadOf(s) = "finish"
  BY <1>3, <1>5, <1>6, FinishScript
<1>8. o2 = Going(o, s)
  BY <1>2, <1>5 DEF StartWrite, GoOn, Going
<1>9. op'.todo = s /\ op'.onFail = op.onFail /\ op'.undo = op.undo
  <2>1. o2.todo = s /\ o2.onFail = o.onFail /\ o2.undo = o.undo
    BY <1>6, <1>7, <1>8, WentOn
  <2> QED
    BY <1>5, <2>1
<1>10. CommittedDocs' = CommittedDocs
  <2>1. PICK g, d2, dr2 : g = gen' /\ d2 = disk' /\ dr2 = dir'
    OBVIOUS
  <2>2. \A h \in Gen : Whole(d2, dr2, h) => Whole(disk, dir, h) /\ d2[h] = disk[h]
    <3>1. SUFFICES ASSUME NEW h \in Gen, Whole(d2, dr2, h)
                   PROVE  Whole(disk, dir, h) /\ d2[h] = disk[h]
      OBVIOUS
    <3>2. h # g /\ h \in DOMAIN disk /\ d2[h] = disk[h]
      BY <1>4, <2>1, <3>1 DEF Whole
    <3>3. SegmentsFile(h) # SegmentsFile(g)
      BY <1>4, <2>1, <3>2, Generations
    <3> QED
      BY <1>4, <2>1, <3>1, <3>2, <3>3 DEF Whole
  <2> QED
    BY <2>1, <2>2, SameDocs DEF Standing
<1>11. RShape(status, autoCommit, commitPending, op.todo, op.onFail, buf, merge.stage,
              LiveDocs(infos), CommittedDocs, LiveDocs(op.undo), LiveDocs(rollback))
  BY RInvIs DEF Standing
<1>12. RShape(status, autoCommit, commitPending, s, op.onFail, buf, merge.stage,
              LiveDocs(infos), CommittedDocs, LiveDocs(op.undo), LiveDocs(rollback))
  BY ONLY <1>1, <1>3, <1>7, <1>11, ShapeWrites
<1>13. RInv'
  BY <1>4, <1>9, <1>10, <1>12, RInvIs
<1>14. Mode' = Mode
  BY <1>4, <1>9, SameMode
<1> QED
  BY <1>4, <1>10, <1>13, <1>14, Unseen

LEMMA ShapeWritten ==
  ASSUME NEW st, NEW ac \in BOOLEAN, NEW pend, NEW s, NEW f, NEW b, NEW ms, NEW w, NEW c, NEW u,
         NEW r, RShape(st, ac, pend, s, f, b, ms, w, c, u, r), HeadOf(s) = "finish",
         NEW s2, Names(s) = {"finish"} \cup Names(s2), HeadOf(s2) \notin {"write", "finish"},
         st \notin {"closed", "opening"} /\ ~ac => "close" \in Names(s2), NEW f2, NEW u2
  PROVE  RShape(st, ac, FALSE, s2, f2, b, ms, w, w, u2, r)
PROOF
<1>1. Writes(s) /\ ~Writes(s2)
  BY DEF Writes
<1>2. Closing(s2) <=> Closing(s)
  BY DEF Closing
<1>3. "segment" \in Names(s) => "segment" \in Names(s2)
  OBVIOUS
<1>4. st \notin {"aborted", "abandoning"}
  BY DEF RShape, GivenUp
<1>5. GivenUp(st, ac, FALSE, s2, b, ms, w, w)
  BY <1>4 DEF RShape, GivenUp
<1>6. Finishes(st, s2, b, w, w)
  BY <1>2, <1>3 DEF RShape, Finishes
<1>7. Published(st, ac, FALSE, s2, w, w)
  BY DEF Published
<1>8. Undoable(st, ac, s2, w, w, u2)
  BY <1>1 DEF Undoable
<1>9. Abortable(st, ac, s2, w, w, r)
  BY <1>1 DEF RShape, Abortable, Closing, Session
<1> QED
  BY <1>1, <1>5, <1>6, <1>7, <1>8, <1>9 DEF RShape

\* What the writer has in memory is the newest commit.
LEMMA FinishWriteDocs ==
  ASSUME Standing, FinishWrite
  PROVE  CommittedDocs' = LiveDocs(infos)
PROOF
<1>1. IInv /\ FInv /\ HeadOf(op.todo) = "finish" /\ At("finish")
  BY HeadAt DEF Standing, Fitting, FinishWrite
<1>2. status # "closed"
  <2>1. HeadOf(op.todo) \in {"write", "finish"}
    BY <1>1
  <2>2. PICK S, t : S = Steps(op.todo) /\ t = Tail(op.todo)
    OBVIOUS
  <2> QED
    BY ONLY <1>1, <2>1, <2>2, WriteSteps
<1>3. PICK g, d2 : g = gen /\ d2 = disk'
  OBVIOUS
<1>4. /\ g \in DOMAIN disk /\ SegmentsFile(g) \in dir /\ lastGen < g
      /\ g \in Gen /\ g \in Nat /\ lastGen \in Nat /\ disk[g] \in DiskSegments
  <2>1. g \in DOMAIN disk /\ SegmentsFile(g) \in dir /\ lastGen < g
    BY <1>1, <1>3 DEF FInv, WrittenOK
  <2>2. g \in Gen /\ Gen \subseteq Nat /\ disk[g] \in DiskSegments
    BY <1>1, <2>1, Generations DEF IInv, DiskOK
  <2>3. lastGen \in Nat
    BY <1>1 DEF IInv, RestOK
  <2> QED
    BY <2>1, <2>2, <2>3
<1>5. /\ DOMAIN d2 = DOMAIN disk /\ d2[g].complete = TRUE /\ d2[g].infos = infos
      /\ \A h \in DOMAIN d2 : h # g => d2[h] = disk[h]
  <2>1. d2 = [disk EXCEPT ![g].complete = TRUE, ![g].infos = infos]
    BY <1>3 DEF FinishWrite
  <2> QED
    BY <1>4, <2>1 DEF DiskSegments
<1>6. dir' = dir
  BY DEF FinishWrite
<1>7. Whole(d2, dir, g)
  BY <1>4, <1>5 DEF Whole
<1>8. \A h \in Gen : Whole(d2, dir, h) => h <= g
  <2>1. SUFFICES ASSUME NEW h \in Gen, Whole(d2, dir, h), h # g PROVE h <= g
    BY <1>4
  <2>2. Whole(disk, dir, h)
    BY <1>5, <2>1 DEF Whole
  <2>3. h <= lastGen
    BY <1>1, <1>2, <2>2, WholeIs DEF FInv, LastOK
  <2>4. h \in Nat
    BY <2>1, Generations
  <2> QED
    BY <1>4, <2>3, <2>4
<1>9. DOMAIN d2 \subseteq Gen
  BY <1>1, <1>5 DEF IInv, DiskOK
<1>10. DocsOf(d2, dir) = LiveDocs(d2[g].infos)
  BY <1>4, <1>7, <1>8, <1>9, DocsOfLatest DEF Latest
<1> QED
  BY <1>3, <1>5, <1>6, <1>10, DocsAre

LEMMA FinishWriteSeen ==
  ASSUME Standing, FinishWrite
  PROVE  RInv' /\ [Abstract!Next]_(Abstract!vars)
PROOF
<1>1. IInv /\ FInv /\ HeadOf(op.todo) = "finish" /\ autoCommit \in BOOLEAN
  BY HeadAt DEF Standing, Fitting, FinishWrite, IInv, RestOK
<1>2. PICK S, t : S = Steps(op.todo) /\ t = Tail(op.todo)
  OBVIOUS
<1>3. /\ op.todo # <<>> /\ status # "closed"
      /\ t # <<>> /\ t \in Seq(Step) /\ Steps(t) \subseteq S
      /\ status # "opening" => Head(t) = <<"ckpt", TRUE>>
  <2>1. HeadOf(op.todo) \in {"write", "finish"}
    BY <1>1
  <2> QED
    BY ONLY <1>1, <2>1, <1>2, WriteSteps
<1>4. /\ UNCHANGED <<status, autoCommit, infos, rollback, buf, merge, faults>>
      /\ commitPending' = FALSE /\ Advance
  BY DEF FinishWrite
<1>5. PICK o, o2, st, ac : o = op /\ o2 = op' /\ st = status /\ ac = autoCommit
  OBVIOUS
<1>6. Popping(o, o2, st, ac) /\ OrderShape(o, st, ac)
  BY <1>1, <1>3, <1>4, <1>5, Onward DEF FInv, OrderOK
<1>7. o2.todo = t /\ Names(op.todo) = {"finish"} \cup Names(t) /\ HeadOf(t) \notin {"write", "finish"}
  BY <1>1, <1>2, <1>5, <1>6 DEF Popping, Firsts
<1>8. status \notin {"closed", "opening"} /\ ~autoCommit => "close" \in Names(t)
  <2>1. SUFFICES ASSUME status # "opening", ~autoCommit PROVE "close" \in Names(t)
    OBVIOUS
  <2>2. <<"ckpt", TRUE>> \in Steps(o.todo)
    <3>1. Head(t) \in Steps(t)
      BY <1>3, StepsRest
    <3> QED
      BY <1>2, <1>3, <1>5, <2>1, <3>1
  <2>3. "close" \in Names(o.todo)
    BY <1>5, <1>6, <2>1, <2>2 DEF OrderShape
  <2> QED
    BY <1>5, <1>7, <2>3
<1>9. CommittedDocs' = LiveDocs(infos)
  BY FinishWriteDocs
<1>10. RShape(status, autoCommit, commitPending, op.todo, op.onFail, buf, merge.stage,
              LiveDocs(infos), CommittedDocs, LiveDocs(op.undo), LiveDocs(rollback))
  BY RInvIs DEF Standing
<1>11. RShape(status, autoCommit, FALSE, t, op'.onFail, buf, merge.stage,
              LiveDocs(infos), LiveDocs(infos), LiveDocs(op'.undo), LiveDocs(rollback))
  BY ONLY <1>1, <1>7, <1>8, <1>10, ShapeWritten
<1>12. RInv'
  BY <1>4, <1>5, <1>7, <1>9, <1>11, RInvIs
<1>13. Mode \in {"auto", "finishing", "creating"} /\ Mode' = Mode
  <2>1. Writes(op.todo) /\ "finish" \in Names(op.todo)
    BY <1>1, <1>7 DEF Writes
  <2>2. status \notin {"aborted", "abandoning"}
    BY <1>10, <2>1 DEF RShape, GivenUp
  <2>3. CASE status = "opening"
    <3>1. op.onFail # <<>>
      BY <1>10, <2>1, <2>3 DEF RShape
    <3>2. op'.onFail = op.onFail
      <4>1. OpShape(op) /\ Script(op.todo)
        BY <1>1 DEF IInv, OpOK, OpFits, OpShape
      <4>2. Script(t)
        BY <1>2, <1>3, <1>5, <4>1, Rest
      <4>3. op' = Going(op, t)
        BY <1>2, <1>4 DEF Advance, GoOn, Going
      <4>4. PICK o3 : o3 = op'
        OBVIOUS
      <4> QED
        BY <1>3, <4>1, <4>2, <4>3, <4>4, WentOn
    <3>3. Mode = "creating"
      BY <1>1, <2>3, <3>1, ModeIs, Modes
    <3>4. Mode' = Mode
      BY <1>4, <3>2, SameMode
    <3> QED
      BY <3>3, <3>4
  <2>4. CASE status # "opening"
    <3>1. Mode' = Mode
      BY <1>4, <2>4, SameMode
    <3>2. ~autoCommit => status \in {"closing", "stopping"}
      <4>1. ~autoCommit => Closing(op.todo)
        BY <1>3, <1>7, <1>8, <2>4 DEF Closing
      <4> QED
        BY <1>10, <2>2, <4>1 DEF RShape, Finishes
    <3>3. autoCommit => status \in {"open", "closing", "stopping"}
      BY <1>1, <1>3, <1>10, <2>4 DEF RShape, GivenUp, IInv, RestOK
    <3>4. Mode = (IF autoCommit THEN "auto" ELSE "finishing")
      BY <1>1, <3>2, <3>3, ModeIs, Modes
    <3> QED
      BY <3>1, <3>4
  <2> QED
    BY <2>3, <2>4
<1>14. Abstract!Publish
  BY <1>4, <1>9, <1>13 DEF Abstract!Publish
<1> QED
  BY <1>12, <1>14 DEF Abstract!Next

LEMMA ShapeUndone ==
  ASSUME NEW st, NEW ac, NEW pend, NEW s, NEW f, NEW b, NEW ms, NEW w, NEW c, NEW u, NEW r,
         RShape(st, ac, pend, s, f, b, ms, w, c, u, r), Writes(s), HeadOf(s) \in Names(s),
         st # "closed", "segment" \notin Names(s),
         NEW s2, HeadOf(s2) \notin {"write", "finish"}, "close" \notin Names(s2), NEW f2, NEW u2
  PROVE  RShape(st, ac, pend, s2, f2, b, ms, u, c, u2, r)
         /\ u = (IF ac /\ st # "opening" THEN c ELSE w) /\ st \notin {"aborted", "abandoning"}
         /\ (st = "aborting" => ~ac)
PROOF
<1>1. ~Writes(s2) /\ ~Closing(s2)
  BY DEF Writes, Closing
<1>2. u = (IF ac /\ st # "opening" THEN c ELSE w)
  BY DEF RShape, Undoable
<1>3. st \notin {"aborted", "abandoning"}
  BY DEF RShape, GivenUp, Writes
<1>4. GivenUp(st, ac, pend, s2, b, ms, u, c)
  BY <1>3 DEF RShape, GivenUp
<1>5. Finishes(st, s2, b, u, c)
  BY <1>1 DEF RShape, Finishes
<1>6. Published(st, ac, pend, s2, u, c)
  BY <1>2 DEF RShape, Published
<1>7. Undoable(st, ac, s2, u, c, u2)
  BY <1>1 DEF Undoable
<1>8. Abortable(st, ac, s2, u, c, r)
  BY <1>2 DEF RShape, Abortable
<1>9. st = "aborting" => ~ac
  BY DEF RShape, GivenUp
<1> QED
  BY <1>1, <1>2, <1>3, <1>4, <1>5, <1>6, <1>7, <1>8, <1>9 DEF RShape

\* The writer goes back to what is on disk, or to what it had.
LEMMA WriteFailsSeen ==
  ASSUME Standing, WriteFails
  PROVE  RInv' /\ [Abstract!Next]_(Abstract!vars)
PROOF
<1>1. IInv /\ FInv /\ HeadOf(op.todo) \in {"write", "finish"} /\ autoCommit \in BOOLEAN
  BY Heads DEF Standing, Fitting, WriteFails, IInv, RestOK
<1>2. PICK S, t, f, is : S = Steps(op.todo) /\ t = Tail(op.todo) /\ f = op.onFail /\ is = op.undo
  OBVIOUS
<1>3. /\ op.todo # <<>> /\ status # "closed" /\ "segment" \notin Names(op.todo)
      /\ Names(op.todo) = {HeadOf(op.todo)} \cup Names(t)
  BY ONLY <1>1, <1>2, WriteSteps
<1>4. /\ infos' = is /\ GoOn(f) /\ faults' = faults + 1
      /\ UNCHANGED <<dir, disk, status, autoCommit, commitPending, rollback, buf, merge>>
  BY <1>2 DEF WriteFails, store
<1>5. PICK o, o2, st, ac : o = op /\ o2 = op' /\ st = status /\ ac = autoCommit
  OBVIOUS
<1>6. /\ OpShape(o) /\ OrderShape(o, st, ac) /\ Script(f) /\ f \in Seq(Step)
      /\ Names(f) \cap {"write", "finish", "stores", "bind"} = {}
  <2>1. OpShape(o) /\ OrderShape(o, st, ac)
    BY <1>1, <1>5 DEF IInv, OpOK, OpFits, FInv, OrderOK
  <2> QED
    BY <1>2, <1>5, <2>1 DEF OpShape
<1>7. "close" \notin Names(f)
  BY <1>2, <1>5, <1>6 DEF OrderShape
<1>8. HeadOf(f) \notin {"write", "finish"}
  <2>1. HeadOf(f) = "idle" \/ HeadOf(f) \in Names(f)
    BY <1>6, HeadName
  <2> QED
    BY <1>6, <2>1
<1>9. o2 = Going(o, f)
  BY <1>4, <1>5 DEF GoOn, Going
<1>10. o2.todo = f /\ (f # <<>> => o2.onFail = o.onFail)
  BY <1>6, <1>9, WentOn
<1>11. CommittedDocs' = CommittedDocs
  BY <1>4, SameDisk DEF Standing
<1>12. RShape(status, autoCommit, commitPending, op.todo, op.onFail, buf, merge.stage,
              LiveDocs(infos), CommittedDocs, LiveDocs(op.undo), LiveDocs(rollback))
  BY RInvIs DEF Standing
<1>13. Writes(op.todo) /\ HeadOf(op.todo) \in Names(op.todo)
  BY <1>1, <1>3 DEF Writes
<1>14. /\ RShape(status, autoCommit, commitPending, f, op'.onFail, buf, merge.stage,
                 LiveDocs(op.undo), CommittedDocs, LiveDocs(op'.undo), LiveDocs(rollback))
       /\ LiveDocs(op.undo) = (IF autoCommit /\ status # "opening" THEN CommittedDocs
                               ELSE LiveDocs(infos))
       /\ status \notin {"aborted", "abandoning"} /\ (status = "aborting" => ~autoCommit)
  BY ONLY <1>3, <1>7, <1>8, <1>12, <1>13, ShapeUndone
<1>15. RInv'
  BY <1>2, <1>4, <1>5, <1>10, <1>11, <1>14, RInvIs
<1>16. Mode' = Mode
  <2>1. status = "opening" => f # <<>>
    BY <1>2, <1>12, <1>13 DEF RShape
  <2>2. status = "opening" => op'.onFail = op.onFail
    BY <1>5, <1>10, <2>1
  <2> QED
    BY <1>4, <2>2, SameMode
<1>17. CASE autoCommit /\ status # "opening"
  <2>1. status \in {"open", "closing", "stopping"}
    BY <1>1, <1>3, <1>14, <1>17 DEF IInv, RestOK
  <2>2. Mode = "auto"
    <3>1. PICK f2 : f2 = op.onFail
      OBVIOUS
    <3>2. Mode = ModeOf(status, TRUE, f2)
      BY <1>17, <3>1, ModeIs
    <3>3. ModeOf("open", TRUE, f2) = "auto" /\ ModeOf("closing", TRUE, f2) = "auto"
          /\ ModeOf("stopping", TRUE, f2) = "auto"
      BY Modes
    <3> QED
      BY <2>1, <3>2, <3>3
  <2>3. LiveDocs(infos') = CommittedDocs
    BY <1>2, <1>4, <1>14, <1>17
  <2>4. Abstract!Undo
    BY <1>4, <1>11, <1>16, <2>2, <2>3 DEF Abstract!Undo
  <2> QED
    BY <1>15, <2>4 DEF Abstract!Next
<1>18. CASE ~(autoCommit /\ status # "opening")
  <2>1. LiveDocs(infos') = LiveDocs(infos)
    BY <1>2, <1>4, <1>14, <1>18
  <2>2. buf'.docs = buf.docs /\ buf'.dels = buf.dels
    BY <1>4
  <2>3. Abstract!Next
    BY <1>4, <1>11, <1>16, <2>1, <2>2, SeenFailure
  <2> QED
    BY <1>15, <2>3
<1> QED
  BY <1>17, <1>18

-----------------------------------------------------------------------------
(* Opening.                                                                *)

\* Of a writer that is not there yet only what abort() would go back to is
\* asked, and that a list is there to go back to while it writes.
LEMMA ShapeOpening ==
  ASSUME NEW ac, NEW pend, NEW s, NEW f, NEW b, NEW ms, NEW w, NEW c, NEW u,
         "close" \notin Names(s), Writes(s) => u = w /\ f # <<>>
  PROVE  RShape("opening", ac, pend, s, f, b, ms, w, c, u, w)
PROOF
<1>1. ~Closing(s)
  BY DEF Closing
<1> QED
  BY <1>1 DEF RShape, GivenUp, Finishes, Published, Undoable, Abortable, Session

\* Opening is not seen until the deleter is there.
LEMMA OpenSeen ==
  ASSUME Standing, NEW ac \in AutoCommitModes, Open(ac)
  PROVE  RInv' /\ [Abstract!Next]_(Abstract!vars)
PROOF
<1>1. /\ status = "closed" /\ status' = "opening" /\ rollback' = infos'
      /\ op'.todo = <<<<"ctor">>>> /\ op'.onFail = <<>>
      /\ UNCHANGED <<dir, disk, buf, faults>>
  BY DEF Open, Begin, store
<1>2. PICK s : s = <<<<"ctor">>>>
  OBVIOUS
<1>3. Names(s) = {"ctor"} /\ HeadOf(s) = "ctor"
  <2>1. PICK a : a = <<"ctor">>
    OBVIOUS
  <2>2. a \in Step /\ a[1] = "ctor"
    BY <2>1 DEF Step
  <2>3. s = <<a>>
    BY <1>2, <2>1
  <2>4. s \in Seq(Step) /\ Names(s) = {"ctor"} /\ s # <<>>
    BY <2>2, <2>3, Literals
  <2> QED
    BY <2>4, HeadName
<1>4. "close" \notin Names(s) /\ ~Writes(s)
  BY <1>3 DEF Writes
<1>5. CommittedDocs' = CommittedDocs
  BY <1>1, SameDisk DEF Standing
<1>6. RShape("opening", autoCommit', commitPending', s, op'.onFail, buf', merge'.stage,
             LiveDocs(infos'), CommittedDocs', LiveDocs(op'.undo), LiveDocs(infos'))
  BY <1>4, ShapeOpening
<1>7. RInv'
  BY <1>1, <1>2, <1>6, RInvIs
<1>8. Mode = "closed" /\ Mode' = "closed"
  <2>1. autoCommit \in BOOLEAN /\ autoCommit' \in BOOLEAN
    BY DEF Standing, Fitting, IInv, RestOK
  <2> QED
    BY <1>1, <2>1, ModeIs, Modes
<1>9. UNCHANGED Abstract!vars
  BY <1>1, <1>5, <1>8 DEF Abstract!vars
<1> QED
  BY <1>7, <1>9

LEMMA CreateSeen ==
  ASSUME Standing, NEW ac \in AutoCommitModes, Create(ac)
  PROVE  RInv' /\ [Abstract!Next]_(Abstract!vars)
PROOF
<1>1. /\ status = "closed" /\ status' = "opening"
      /\ infos' = <<>> /\ rollback' = <<>>
      /\ op'.todo = <<<<"write">>, <<"ctor">>>> /\ op'.onFail # <<>> /\ op'.undo = <<>>
      /\ UNCHANGED <<dir, disk, buf, faults>>
  BY DEF Create, store
<1>2. PICK s : s = <<<<"write">>, <<"ctor">>>>
  OBVIOUS
<1>3. "close" \notin Names(s)
  <2>1. PICK a, b : a = <<"write">> /\ b = <<"ctor">>
    OBVIOUS
  <2>2. a \in Step /\ b \in Step /\ a[1] = "write" /\ b[1] = "ctor"
    BY <2>1 DEF Step
  <2>3. s = <<a, b>>
    BY <1>2, <2>1
  <2>4. Names(s) = {"write", "ctor"}
    BY <2>2, <2>3, Literals
  <2> QED
    BY <2>4
<1>4. CommittedDocs' = CommittedDocs
  BY <1>1, SameDisk DEF Standing
<1>5. LiveDocs(op'.undo) = LiveDocs(infos') /\ LiveDocs(rollback') = LiveDocs(infos')
      /\ LiveDocs(infos') = {}
  <2>1. LiveDocs(<<>>) = {}
    BY NoSegments
  <2> QED
    BY <1>1, <2>1
<1>6. RShape("opening", autoCommit', commitPending', s, op'.onFail, buf', merge'.stage,
             LiveDocs(infos'), CommittedDocs', LiveDocs(op'.undo), LiveDocs(infos'))
  BY <1>1, <1>3, <1>5, ShapeOpening
<1>7. RInv'
  BY <1>1, <1>2, <1>5, <1>6, RInvIs
<1>8. Mode = "closed" /\ Mode' = "creating"
  <2>1. autoCommit \in BOOLEAN /\ autoCommit' \in BOOLEAN
    BY DEF Standing, Fitting, IInv, RestOK
  <2> QED
    BY <1>1, <2>1, ModeIs, Modes
<1>9. Abstract!Create
  BY <1>1, <1>4, <1>5, <1>8 DEF Abstract!Create
<1> QED
  BY <1>7, <1>9 DEF Abstract!Next

LEMMA ShapeOpened ==
  ASSUME NEW ac, NEW pend, NEW s, NEW b, NEW ms, NEW f, NEW w, NEW u,
         HeadOf(s) \notin {"write", "finish"}, "close" \notin Names(s)
  PROVE  RShape("open", ac, pend, s, f, b, ms, w, w, u, w)
PROOF
<1>1. ~Closing(s) /\ ~Writes(s)
  BY DEF Closing, Writes
<1> QED
  BY <1>1 DEF RShape, GivenUp, Finishes, Published, Undoable, Abortable

\* The segments the new deleter is told of are those of the newest commit.
LEMMA FoundDocs ==
  ASSUME IInv, FInv, At("ctor")
  PROVE  LiveDocs(infos) = CommittedDocs /\ D!Readable(gen) /\ gen \in Gen /\ gen \in Int
PROOF
<1>1. D!Newest(gen) /\ disk[gen].infos = infos
  BY DEF FInv, WrittenOK
<1>2. DOMAIN disk \subseteq Gen
  BY DEF IInv, DiskOK
<1>3. PICK dk, dr, g : dk = disk /\ dr = dir /\ g = gen
  OBVIOUS
<1>4. Latest(dk, dr, g) /\ D!Readable(g)
  BY <1>1, <1>3, WholeIs DEF D!Newest, Latest
<1>5. g \in Gen /\ g \in Int
  <2>1. g \in Gen
    BY <1>2, <1>3, <1>4 DEF Latest, Whole
  <2> QED
    BY <2>1, Generations
<1>6. DocsOf(dk, dr) = LiveDocs(dk[g].infos)
  BY <1>2, <1>3, <1>4, <1>5, DocsOfLatest
<1> QED
  BY <1>1, <1>3, <1>4, <1>5, <1>6, DocsAre

LEMMA ConstructDeleterSeen ==
  ASSUME Standing, ConstructDeleter
  PROVE  RInv' /\ [Abstract!Next]_(Abstract!vars)
PROOF
<1>1. IInv /\ FInv /\ At("ctor") /\ op.todo # <<>> /\ HeadOf(op.todo) = "ctor"
      /\ autoCommit \in BOOLEAN
  BY HeadAt DEF Standing, Fitting, ConstructDeleter, IInv, RestOK
<1>2. PICK o, o2, st, ac : o = op /\ o2 = op' /\ st = status /\ ac = autoCommit
  OBVIOUS
<1>3. Popping(o, o2, st, ac) /\ OrderShape(o, st, ac)
  BY <1>1, <1>2, Onward DEF ConstructDeleter, FInv, OrderOK
<1>4. status = "opening"
  BY <1>1, <1>2, <1>3 DEF Popping, OrderShape
<1>5. Names(op.todo) \subseteq {"ctor", "write", "finish", "throw"}
  BY <1>1, <1>4 DEF IInv, StartOK, StartShape
<1>6. HeadOf(op'.todo) \notin {"write", "finish"} /\ "close" \notin Names(op'.todo)
  BY <1>2, <1>3, <1>5 DEF Popping, Firsts
<1>7. /\ UNCHANGED <<disk, autoCommit, infos, commitPending, rollback, buf, merge, faults>>
      /\ status' = "open"
  BY DEF ConstructDeleter, si
<1>8. LiveDocs(infos) = CommittedDocs /\ D!Readable(gen) /\ gen \in Int
  BY <1>1, FoundDocs
<1>9. dir' \subseteq dir
  <2>1. D!OpenEffect(gen, {})
    BY <1>1 DEF ConstructDeleter, Busy, FInv, Clean
  <2> QED
    BY <1>8, <2>1, OpenKeepsOne
<1>10. CommittedDocs' = CommittedDocs
  BY <1>7, <1>9, SameDisk DEF Standing
<1>11. LiveDocs(rollback) = LiveDocs(infos)
  <2>1. RShape(status, autoCommit, commitPending, op.todo, op.onFail, buf, merge.stage,
               LiveDocs(infos), CommittedDocs, LiveDocs(op.undo), LiveDocs(rollback))
    BY RInvIs DEF Standing
  <2> QED
    BY <1>4, <2>1 DEF RShape, Abortable
<1>12. RShape("open", autoCommit, commitPending, op'.todo, op'.onFail, buf, merge.stage,
              LiveDocs(infos), LiveDocs(infos), LiveDocs(op'.undo), LiveDocs(infos))
  BY <1>6, ShapeOpened
<1>13. RInv'
  BY <1>7, <1>8, <1>10, <1>11, <1>12, RInvIs
<1>14. /\ Mode = (IF op.onFail = <<>> THEN "closed" ELSE "creating")
       /\ Mode' \in {"auto", "manual"}
  BY <1>1, <1>4, <1>7, ModeIs, Modes
<1>15. CASE op.onFail = <<>>
  <2>1. Abstract!Open
    BY <1>7, <1>8, <1>10, <1>14, <1>15 DEF Abstract!Open
  <2> QED
    BY <1>13, <2>1 DEF Abstract!Next
<1>16. CASE op.onFail # <<>>
  <2>1. Abstract!Created
    BY <1>7, <1>8, <1>10, <1>14, <1>16 DEF Abstract!Created
  <2> QED
    BY <1>13, <2>1 DEF Abstract!Next
<1> QED
  BY <1>15, <1>16

LEMMA SeenFirst ==
  ASSUME Init
  PROVE  Abstract!Init /\ RInv
PROOF
<1>1. /\ dir = {} /\ disk = << >> /\ status = "closed" /\ buf = EmptyBuf /\ op = Idle
      /\ infos = <<>> /\ faults = 0
  BY DEF Init
<1>2. op.todo = <<>> /\ buf.docs = {} /\ buf.dels = {}
  BY <1>1 DEF Idle, EmptyBuf
<1>3. CommittedDocs = {}
  <2>1. DOMAIN disk = {}
    BY <1>1
  <2> QED
    BY <2>1 DEF CommittedDocs
<1>4. Mode = "closed"
  <2>1. autoCommit \in BOOLEAN
    BY InitInv DEF IInv, RestOK
  <2> QED
    BY <1>1, <2>1, ModeIs, Modes
<1>5. Abstract!Init
  BY <1>1, <1>2, <1>3, <1>4 DEF Abstract!Init
<1>6. RInv
  BY <1>1, <1>2, ShapeClosed, RInvIs
<1> QED
  BY <1>5, <1>6

LEMMA StutterSeen ==
  ASSUME RInv, UNCHANGED vars
  PROVE  RInv' /\ UNCHANGED Abstract!vars
PROOF
<1>1. UNCHANGED <<dir, disk, status, autoCommit, infos, commitPending, rollback, buf, merge, op, faults>>
  BY DEF vars, store, deleter, si
<1>2. CommittedDocs' = CommittedDocs /\ Mode' = Mode
  BY <1>1 DEF CommittedDocs, Mode, Creating
<1>3. RInv'
  BY <1>1, <1>2, RInvIs
<1> QED
  BY <1>1, <1>2, <1>3 DEF Abstract!vars

-----------------------------------------------------------------------------
(* Every step.                                                             *)

LEMMA StepSeen ==
  ASSUME Fitting, RInv, ~Overlap, ~Pins, [Next]_vars
  PROVE  RInv' /\ [Abstract!Next]_(Abstract!vars)
PROOF
<1>1. Standing
  BY FittingStep DEF Standing, Fitting
<1>2. CASE OpStep
  BY <1>1, <1>2, ConstructDeleterSeen, FlushDocStoresSeen, FlushSegmentSeen, FlushCompoundSeen,
     StartWriteSeen, FinishWriteSeen, DeletingSeen, ThrowSeen, MergeBindSeen, MergedSeen,
     CloseDeleterSeen DEF OpStep
<1>3. CASE Failure
  BY <1>1, <1>3, FlushFailsSeen, FlushCompoundFailsSeen, WriteFailsSeen, MergeDeletesFailSeen,
     MergeCompoundFailsSeen, CrashSeen DEF Failure
<1>4. CASE MergeStep
  BY <1>1, <1>4, MergeWorkSeen, MergeFailsSeen, CommitMergeAbortedSeen, CommitMergeSeen,
     CommitCompoundSeen DEF MergeStep
<1>5. CASE CloseStep
  BY <1>1, <1>5, MergeWorkSeen, CloseCommitSeen, AbortRollbackSeen, AbortCloseSeen DEF CloseStep
<1>6. ~OpenReader /\ ~CloseReader
  BY DEF OpenReader, CloseReader, Fitting, FInv, Clean
<1>7. CASE Call
  BY <1>1, <1>6, <1>7, OpenSeen, CreateSeen, AddDocSeen, AddDocFailsSeen, DeleteDocSeen,
     FlushSeen, MergeInitSeen, CloseSeen, AbortSeen DEF Call
<1>8. CASE UNCHANGED vars
  BY <1>8, StutterSeen
<1> QED
  BY <1>2, <1>3, <1>4, <1>5, <1>7, <1>8 DEF Next

LEMMA AbortingHolds ==
  ASSUME Fitting, RInv, ~Overlap, ~Pins, [Next]_vars, Aborting
  PROVE  CommittedDocs' = CommittedDocs
PROOF
<1>1. [Abstract!Next]_(Abstract!vars)
  BY StepSeen
<1>2. Mode \in {"manual", "aborting"}
  <2>1. autoCommit \in BOOLEAN
    BY DEF Fitting, IInv, RestOK
  <2> QED
    BY <2>1, ModeIs, Modes DEF Aborting
<1>3. ~Abstract!Publish
  BY <1>2 DEF Abstract!Publish
<1> QED
  BY <1>1, <1>3 DEF Abstract!Next, Abstract!vars, Abstract!Open, Abstract!Create,
     Abstract!Created, Abstract!Add, Abstract!Delete, Abstract!Apply, Abstract!Finish,
     Abstract!Unfinish, Abstract!Abort, Abstract!Close, Abstract!Drop, Abstract!Undo,
     Abstract!Fail, Abstract!Abandon, Abstract!Crash

-----------------------------------------------------------------------------
(* Theorems, with the two restrictions of FilesFit.                        *)

\* The inductive invariant: with autoCommit the documents of segmentInfos are
\* those of the newest segments_N, without it they are as long as there is
\* nothing to commit; what checkpoint() falls back to when it fails, and what
\* abort() goes back to, is on disk; and a writer that closes has flushed and
\* committed everything before it goes.
THEOREM DocsFit ==
  ASSUME ~Overlap, ~Pins
  PROVE  Spec => []RInv
PROOF
<1>1. Init => RInv
  BY SeenFirst
<1>2. Fitting /\ RInv /\ [Next]_vars => RInv'
  BY StepSeen
<1> QED
  BY <1>1, <1>2, FilesFit, PTL DEF Spec

\* IndexWriter implements IndexCommits: flushes, merges, compound files,
\* checkpoints, failures and crashes of IndexWriter.cpp are invisible but for
\* what the documentation of autoCommit says of them.  A document that was
\* added is found after a flush or a close, or lost with a whole buffer; no
\* merge, failed commit, abort() or crash loses one that was committed.
THEOREM WriterRefines ==
  ASSUME ~Overlap, ~Pins
  PROVE  Spec => Refinement
PROOF
<1>1. Init => Abstract!Init
  BY SeenFirst
<1>2. Fitting /\ RInv /\ [Next]_vars => [Abstract!Next]_(Abstract!vars)
  BY StepSeen
<1> QED
  BY <1>1, <1>2, FilesFit, DocsFit, PTL DEF Spec, Refinement, Abstract!Spec

\* abort() leaves the index as it was when the writer was opened, from the
\* call to the end of closeInternal(), when no other thread uses the writer
\* meanwhile.
THEOREM AbortHolds ==
  ASSUME ~Overlap, ~Pins
  PROVE  Spec => AbortKeepsIndex
PROOF
<1>1. Fitting /\ RInv /\ [Next]_vars => [Aborting => UNCHANGED CommittedDocs]_vars
  BY AbortingHolds
<1> QED
  BY <1>1, FilesFit, DocsFit, PTL DEF Spec, AbortKeepsIndex

=============================================================================
