----------------------------- MODULE IndexWriter -----------------------------
(***************************************************************************)
(* index/IndexWriter.cpp with what it drives: SegmentInfos (the in-memory  *)
(* list of segments and the segments_N files), DocumentsWriter (what is    *)
(* buffered) and IndexFileDeleter (module IndexFileDeleter, instantiated   *)
(* as D).                                                                  *)
(*                                                                         *)
(* The monitor of the writer (THIS_LOCK) is held by one operation at a     *)
(* time.  The operation that holds it is op: a list of the steps it has    *)
(* still to take, one for every point at which the directory changes.      *)
(* Adding and deleting documents take only DocumentsWriter's lock, and a   *)
(* merge reads and writes files without any, so both interleave with op; a *)
(* crash or an I/O error may come between any two steps.                   *)
(***************************************************************************)
EXTENDS Integers, Sequences, FiniteSets, SequencesExt

CONSTANTS
    Doc,             \* Documents; each has a term of its own.
    AutoCommitModes, \* Values of autoCommit a writer may be opened with.
    UseCompound,     \* The merge policy wants compound files.
    Pins,            \* The file system refuses to delete files open for
                     \* reading, and a reader may be open.
    Overlap,         \* A thread goes on using a writer while another is in
                     \* abort().
    MaxSeg,          \* Bound: segment names that are handed out.
    MaxGen,          \* Bound: the last generation that is written.
    MaxFaults        \* Bound: crashes and I/O errors.

ASSUME FlagsAssumption ==
    /\ AutoCommitModes \subseteq BOOLEAN
    /\ UseCompound \in BOOLEAN /\ Pins \in BOOLEAN /\ Overlap \in BOOLEAN
ASSUME DocAssumption == IsFiniteSet(Doc)
ASSUME BoundsAssumption == MaxSeg \in Nat /\ MaxGen \in Nat /\ MaxFaults \in Nat

VARIABLES
    dir,            \* The names of the files in the directory.
    disk,           \* segments_g: complete, and the infos and counter in it.
    pinned,         \* Files an IndexReader has open.
    refCounts, commits, last, held, deletable,  \* IndexFileDeleter's.
    status,         \* Where the writer is in its life.
    autoCommit,
    infos,          \* segmentInfos: the current segments.
    gen, lastGen,   \* Its generation and lastGeneration.
    counter,        \* Its counter: the next segment name.
    commitPending,
    rollback,       \* rollbackSegmentInfos: infos when the writer opened.
    buf,            \* DocumentsWriter.
    merge,          \* The running merge.
    op,             \* The operation that holds the monitor.
    faults

store == <<dir, disk, pinned>>
deleter == <<refCounts, commits, last, held, deletable>>
si == <<infos, gen, lastGen, counter, commitPending>>
vars == <<store, deleter, status, autoCommit, si, rollback, buf, merge, op, faults>>

-----------------------------------------------------------------------------
(* Files and segments.  A file is <<kind, segment, generation>>.  "core"    *)
(* stands for a segment's files that a flush or a merge writes together,   *)
(* "store" for its stored fields and vectors, "cfs" and "cfx" for the      *)
(* compound files made of them, "del" for a deletions file.                *)

None == -1
Name == 0..(MaxSeg - 1)
Gen == 1..MaxGen
SegmentsFile(g) == <<"segments", g, 0>>
Core(n) == <<"core", n, 0>>
Cfs(n) == <<"cfs", n, 0>>
Store(n) == <<"store", n, 0>>
Cfx(n) == <<"cfx", n, 0>>
Del(n, g) == <<"del", n, g>>

File == {SegmentsFile(g) : g \in Gen}
          \cup ({"core", "cfs", "store", "cfx"} \X Name \X {0})
          \cup ({"del"} \X Name \X (1..(2 * Cardinality(Doc))))

\* SegmentInfo::files().  A segment has its own stored fields, and then
\* they are in its compound file too, or shares those of segment s.store.
FilesOf(s) ==
    (IF s.cfs THEN <<Cfs(s.name)>> ELSE <<Core(s.name)>>)
    \o (IF s.store # None
        THEN <<IF s.storeCfs THEN Cfx(s.store) ELSE Store(s.store)>>
        ELSE IF s.cfs THEN <<>> ELSE <<Store(s.name)>>)
    \o (IF s.delGen > 0 THEN <<Del(s.name, s.delGen)>> ELSE <<>>)

InfosFiles(is) == FlattenSeq([i \in DOMAIN is |-> FilesOf(is[i])])

\* The same files, as a set.
FilesIn(is) == UNION {ToSet(FilesOf(is[i])) : i \in DOMAIN is}

Live(s) == s.docs \ s.dels
LiveDocs(is) == UNION {Live(is[i]) : i \in DOMAIN is}

\* Seeded fault: the new deletions file forgets the deletions before it.
ApplyDeletesAfresh(s, ds) ==
    IF ds \cap Live(s) = {} THEN s
    ELSE [s EXCEPT !.dels = ds \cap s.docs, !.delGen = @ + 1]

\* applyDeletes on one segment: documents found and not yet deleted are
\* marked in a new deletions file.
ApplyDeletes(s, ds) ==
    IF ds \cap Live(s) = {} THEN s
    ELSE [s EXCEPT !.dels = @ \cup (ds \cap s.docs), !.delGen = @ + 1]

-----------------------------------------------------------------------------
(* Finding the current commit.                                             *)

FilesOn(g) == IF disk[g].complete THEN InfosFiles(disk[g].infos) ELSE <<>>

D == INSTANCE IndexFileDeleter WITH
        stored <- [g \in DOMAIN disk |->
                     [complete |-> disk[g].complete, files |-> FilesOn(g)]],
        up <- status \notin {"closed", "opening"},
        unreg <- IF op.todo # <<>> /\ Head(op.todo) = <<"ckpt", TRUE>>
                 THEN gen ELSE 0,
        Owner <- {"merge"},
        Vectors <- {<<>>},
        FileSets <- {{}},
        KeepAll <- FALSE

\* getCurrentSegmentGeneration: the largest N of any segments_N, or 0.
CurrentGen ==
    LET gs == {g \in Gen : SegmentsFile(g) \in dir}
    IN  IF gs = {} THEN 0 ELSE CHOOSE g \in gs : \A h \in gs : h <= g

\* Seeded fault: FindSegmentsFile does not fall back.
NewestGen == IF D!Readable(CurrentGen) THEN CurrentGen ELSE 0

\* FindSegmentsFile: the largest generation, or the one before it when that
\* cannot be read.  0: no segments_N can be read.
FoundGen ==
    LET g == CurrentGen
    IN  IF D!Readable(g) THEN g
        ELSE IF D!Readable(g - 1) THEN g - 1 ELSE 0

-----------------------------------------------------------------------------
(* Operations and their steps.                                             *)

EmptyBuf == [docs |-> {}, dels |-> {}, seg |-> None, store |-> None,
             closed |-> FALSE]
NoMerge == [stage |-> "none", clone |-> <<>>, out |-> None, stores |-> FALSE,
            aborted |-> FALSE]
Idle == [todo |-> <<>>, undo |-> <<>>, onFail |-> <<>>, pausing |-> FALSE]

Head1 == IF op.todo = <<>> THEN "idle" ELSE Head(op.todo)[1]
At(step) == Head1 = step
Free == op.todo = <<>>

\* The operation goes on with these steps.
GoOn(steps) == op' = IF steps = <<>> THEN Idle ELSE [op EXCEPT !.todo = steps]
Advance == GoOn(Tail(op.todo))

Begin(steps, pausing) ==
    op' = [todo |-> steps, undo |-> infos, onFail |-> <<>>, pausing |-> pausing]

\* Seeded fault: the deleter is told of the commit before it is written.
CheckpointThenWrite ==
    IF autoCommit THEN <<<<"ckpt", TRUE>>, <<"write">>>> ELSE <<<<"ckpt", FALSE>>>>

\* checkpoint() and then deleter->checkpoint(segmentInfos, autoCommit).
CommitSteps ==
    IF autoCommit THEN <<<<"write">>, <<"ckpt", TRUE>>>> ELSE <<<<"ckpt", FALSE>>>>

\* Seeded fault: checkpoint() does not note that there is something to commit.
MarkNothing == UNCHANGED commitPending

\* With autoCommit commitPending is cleared once segments_N is written.
MarkPending == commitPending' = (commitPending \/ ~autoCommit)

\* What doFlush(fds) will do.  Shared doc stores are closed on their own,
\* unless they belong to the very segment that is about to be flushed.
FlushSteps(fds) ==
    LET fds1     == (fds \/ autoCommit) /\ buf.store # None
        separate == fds1 /\ (buf.docs = {} \/ buf.seg # buf.store)
    IN  IF separate
        THEN <<<<"stores">>>>
             \o (IF UseCompound THEN <<<<"ckpt", FALSE>>>> ELSE <<>>)
             \o <<<<"segment", FALSE, buf.store, UseCompound>>>>
        ELSE <<<<"segment", fds1, buf.store, FALSE>>>>

Busy == pinned

-----------------------------------------------------------------------------
(* Opening.                                                                *)

Init ==
    /\ dir = {} /\ disk = << >> /\ pinned = {}
    /\ refCounts = << >> /\ commits = {} /\ last = <<>>
    /\ held = {} /\ deletable = {}
    /\ status = "closed"
    /\ autoCommit \in AutoCommitModes
    /\ infos = <<>> /\ gen = 0 /\ lastGen = 0 /\ counter = 0
    /\ commitPending = FALSE
    /\ rollback = <<>>
    /\ buf = EmptyBuf
    /\ merge = NoMerge
    /\ op = Idle
    /\ faults = 0

\* Seeded fault: the segment names start again at 0.
OpenRenaming(ac) ==
    /\ status = "closed"
    /\ FoundGen # 0
    /\ status' = "opening"
    /\ autoCommit' = ac
    /\ infos' = disk[FoundGen].infos
    /\ gen' = FoundGen /\ lastGen' = FoundGen
    /\ counter' = 0
    /\ rollback' = infos'
    /\ Begin(<<<<"ctor">>>>, FALSE)
    /\ UNCHANGED <<store, deleter, commitPending, buf, merge, faults>>

\* init with create = false: segmentInfos->read.
Open(ac) ==
    /\ status = "closed"
    /\ FoundGen # 0
    /\ status' = "opening"
    /\ autoCommit' = ac
    /\ infos' = disk[FoundGen].infos
    /\ gen' = FoundGen /\ lastGen' = FoundGen
    /\ counter' = disk[FoundGen].counter
    /\ rollback' = infos'
    /\ Begin(<<<<"ctor">>>>, FALSE)
    /\ UNCHANGED <<store, deleter, commitPending, buf, merge, faults>>

\* init with create = true: the next segments_N is written, with no
\* segments, whether or not the index can be read.  A read that fails leaves
\* the generation it tried in segmentInfos.
Create(ac) ==
    /\ status = "closed"
    /\ status' = "opening"
    /\ autoCommit' = ac
    /\ infos' = <<>>
    /\ gen' = (IF FoundGen # 0 THEN FoundGen ELSE CurrentGen)
    /\ lastGen' = gen'
    /\ counter' = (IF FoundGen # 0 THEN disk[FoundGen].counter ELSE 0)
    /\ rollback' = <<>>
    /\ op' = [todo |-> <<<<"write">>, <<"ctor">>>>, undo |-> <<>>,
              onFail |-> <<<<"throw", "caller">>>>, pausing |-> FALSE]
    /\ UNCHANGED <<store, deleter, commitPending, buf, merge, faults>>

\* The IndexFileDeleter is constructed: the writer is open.
ConstructDeleter ==
    /\ At("ctor")
    /\ D!OpenEffect(gen, Busy)
    /\ status' = "open"
    /\ Advance
    /\ UNCHANGED <<disk, pinned, held, autoCommit, si, rollback, buf, merge, faults>>

-----------------------------------------------------------------------------
(* Buffering documents.                                                    *)

InUse == status = "open" \/ (Overlap /\ status \in {"aborting", "aborted"})

\* Seeded fault: the number after the one that is free.
NameAfterNext == counter + 1

\* newSegmentName, which also advances counter and sets commitPending.
NewSegmentName == counter

\* The segment name and the doc stores the next document goes to: the first
\* of a segment takes a name, and opens doc stores under it unless some are
\* open.
BufSegment == IF buf.seg = None THEN NewSegmentName ELSE buf.seg
BufStore == IF buf.store = None THEN BufSegment ELSE buf.store

\* A document d nobody has yet reaches DocumentsWriter.
Buffering(d) ==
    /\ InUse
    /\ ~buf.closed
    /\ ~op.pausing
    /\ d \notin buf.docs \cup buf.dels
    /\ \A i \in DOMAIN infos : d \notin infos[i].docs
    /\ BufSegment < MaxSeg
    /\ counter' = (IF buf.seg = None THEN counter + 1 ELSE counter)
    /\ commitPending' = (commitPending \/ buf.seg = None)
    /\ dir' = dir \cup {Store(BufStore)}

AddDoc(d) ==
    /\ Buffering(d)
    /\ buf' = [buf EXCEPT !.docs = @ \cup {d}, !.seg = BufSegment, !.store = BufStore]
    /\ UNCHANGED <<disk, pinned, deleter, status, autoCommit, infos, gen,
                   lastGen, rollback, merge, op, faults>>

\* Writing the document fails.  DocumentsWriter gives up everything that is
\* buffered, and the writer deletes the doc stores unless somebody uses them.
AddDocFails(d) ==
    /\ Buffering(d)
    /\ Free
    /\ faults < MaxFaults
    /\ buf' = EmptyBuf
    /\ Begin(<<<<"new", {Store(BufStore)}>>, <<"throw", "caller">>>>, FALSE)
    /\ faults' = faults + 1
    /\ UNCHANGED <<disk, pinned, deleter, status, autoCommit, infos, gen,
                   lastGen, rollback, merge>>

\* deleteDocuments for a document that is there; the term is buffered.
DeleteDoc(d) ==
    /\ InUse
    /\ ~op.pausing
    /\ d \in buf.docs \cup LiveDocs(infos)
    /\ d \notin buf.dels
    /\ buf' = [buf EXCEPT !.dels = @ \cup {d}]
    /\ UNCHANGED <<store, deleter, status, autoCommit, si, rollback, merge, op, faults>>

-----------------------------------------------------------------------------
(* Flushing.                                                               *)

\* flush(): called by the user, or by the thread that filled the buffer.
Flush ==
    /\ InUse
    /\ Free
    /\ buf.docs # {} \/ buf.dels # {}
    /\ Begin(FlushSteps(FALSE), TRUE)
    /\ UNCHANGED <<store, deleter, status, autoCommit, si, rollback, buf, merge, faults>>

\* flushDocStores: close the shared doc stores and, if the policy wants it,
\* build their compound file and point the segments that share them to it.
FlushDocStores ==
    /\ At("stores")
    /\ buf' = [buf EXCEPT !.store = None]
    /\ IF UseCompound
       THEN /\ dir' = dir \cup {Cfx(buf.store)}
            /\ infos' = [i \in DOMAIN infos |->
                           IF infos[i].store = buf.store
                           THEN [infos[i] EXCEPT !.storeCfs = TRUE]
                           ELSE infos[i]]
            /\ MarkPending
       ELSE UNCHANGED <<dir, infos, commitPending>>
    /\ Advance
    /\ UNCHANGED <<disk, pinned, deleter, status, autoCommit, gen, lastGen,
                   counter, rollback, merge, faults>>

\* The deletions files that the segments js have and is, some or all of them
\* before deletes were applied, have not.
NewDels(is, js) ==
    {Del(js[i].name, js[i].delGen) : i \in {k \in DOMAIN is : js[k] # is[k]}}

\* What doFlush does when it fails.  dels: the deletions files it wrote to
\* older segments; those of the new segment go with it.
Unflush(dels) ==
    (IF dels = {} THEN <<>> ELSE <<<<"delete", dels>>>>)
    \o <<<<"partial">>, <<"ckpt", FALSE>>>>
    \o (IF buf.seg = None THEN <<>> ELSE <<<<"refresh", buf.seg>>>>)
    \o <<<<"throw", "caller">>>>

\* The rest of doFlush: write the buffered documents as a segment, apply the
\* buffered deletes to every segment, and checkpoint.  If segments_N fails,
\* the new segment and the new deletions are taken back.  With deletes
\* flushed a build with assertions ends there (assert(false), "test me"),
\* which is a Crash; one without deletes the SegmentInfo objects, also those
\* that a merge points to, and nothing is said of what comes then.
FlushSegment ==
    /\ At("segment")
    /\ LET step  == Head(op.todo)
           fds   == step[2]
           docs  == buf.docs # {}
           new   == [name |-> buf.seg, docs |-> buf.docs, dels |-> {},
                     delGen |-> 0, cfs |-> FALSE,
                     store |-> IF fds THEN None ELSE step[3],
                     storeCfs |-> ~fds /\ step[4]]
           all   == IF docs THEN Append(infos, new) ELSE infos
           mk    == IF docs /\ UseCompound THEN <<<<"cfs", buf.seg>>>> ELSE <<>>
       IN  IF ~docs /\ buf.dels = {}
           THEN /\ Advance
                /\ UNCHANGED <<dir, infos, commitPending, buf>>
           ELSE /\ infos' = [i \in DOMAIN all |-> ApplyDeletes(all[i], buf.dels)]
                /\ dir' = dir \cup (IF docs THEN {Core(buf.seg)} ELSE {})
                              \cup {Del(infos'[i].name, infos'[i].delGen) :
                                      i \in {j \in DOMAIN all : infos'[j] # all[j]}}
                /\ buf' = [buf EXCEPT !.docs = {}, !.dels = {}, !.seg = None,
                             !.store = IF docs /\ fds THEN None ELSE @]
                /\ MarkPending
                /\ op' = [op EXCEPT
                     !.todo = CommitSteps \o mk \o Tail(op.todo),
                     !.undo = infos,
                     !.onFail = IF buf.dels # {} /\ merge.stage # "none" THEN <<<<"die">>>>
                                ELSE Unflush(NewDels(infos, infos'))]
    /\ UNCHANGED <<disk, pinned, deleter, status, autoCommit, gen, lastGen,
                   counter, rollback, merge, faults>>

\* DocumentsWriter::flush fails: everything buffered is given up.  Inside
\* mergeInit the merge is finished twice, which an assertion answers: that is
\* left to Crash.  With deletes to flush see FlushSegment.
FlushFails ==
    /\ At("segment")
    /\ faults < MaxFaults
    /\ buf.docs # {}
    /\ merge.stage # "init"
    /\ buf.dels # {} => merge.stage = "none"
    /\ dir' = dir \cup {Core(buf.seg)}
    /\ buf' = [EmptyBuf EXCEPT !.closed = buf.closed]
    /\ GoOn(Unflush({}))
    /\ faults' = faults + 1
    /\ UNCHANGED <<disk, pinned, deleter, status, autoCommit, si, rollback, merge>>

\* createCompoundFile for the segment just flushed.
FlushCompound ==
    /\ At("cfs")
    /\ LET n == Head(op.todo)[2]
       IN  /\ dir' = dir \cup {Cfs(n)}
           /\ infos' = [i \in DOMAIN infos |->
                          IF infos[i].name = n THEN [infos[i] EXCEPT !.cfs = TRUE]
                                               ELSE infos[i]]
           /\ op' = [op EXCEPT
                !.todo = CommitSteps \o Tail(op.todo),
                !.undo = infos,
                !.onFail = <<<<"delete", {Cfs(n)}>>, <<"partial">>, <<"throw", "caller">>>>]
    /\ MarkPending
    /\ UNCHANGED <<disk, pinned, deleter, status, autoCommit, gen, lastGen,
                   counter, rollback, buf, merge, faults>>

FlushCompoundFails ==
    /\ At("cfs")
    /\ faults < MaxFaults
    /\ merge.stage # "init"
    /\ LET n == Head(op.todo)[2]
       IN  /\ dir' = dir \cup {Cfs(n)}
           /\ GoOn(<<<<"delete", {Cfs(n)}>>, <<"partial">>, <<"throw", "caller">>>>)
    /\ faults' = faults + 1
    /\ UNCHANGED <<disk, pinned, deleter, status, autoCommit, si, rollback, buf, merge>>

-----------------------------------------------------------------------------
(* Writing segments_N (SegmentInfos::write) and telling the deleter.       *)

StartWrite ==
    /\ At("write")
    /\ gen < MaxGen
    /\ gen' = gen + 1
    /\ dir' = dir \cup {SegmentsFile(gen')}
    /\ disk' = [g \in DOMAIN disk \cup {gen'} |->
                  IF g = gen' THEN [complete |-> FALSE, infos |-> <<>>,
                                    counter |-> counter]
                              ELSE disk[g]]
    /\ GoOn(<<<<"finish">>>> \o Tail(op.todo))
    /\ UNCHANGED <<pinned, deleter, status, autoCommit, infos, lastGen, counter,
                   commitPending, rollback, buf, merge, faults>>

FinishWrite ==
    /\ At("finish")
    /\ disk' = [disk EXCEPT ![gen].complete = TRUE, ![gen].infos = infos]
    /\ lastGen' = gen
    /\ commitPending' = FALSE
    /\ Advance
    /\ UNCHANGED <<dir, pinned, deleter, status, autoCommit, infos, gen,
                   counter, rollback, buf, merge, faults>>

\* Seeded fault: the segments are not rolled back.
WriteFailsKeepingInfos ==
    /\ Head1 \in {"write", "finish"}
    /\ faults < MaxFaults
    /\ merge.stage # "init"
    /\ op.onFail # <<<<"die">>>>
    /\ gen' = (IF At("write") THEN gen + 1 ELSE gen)
    /\ gen' <= MaxGen
    /\ GoOn(op.onFail)
    /\ faults' = faults + 1
    /\ UNCHANGED <<store, deleter, status, autoCommit, infos, lastGen, counter,
                   commitPending, rollback, buf, merge>>

\* Creating the file or writing it fails.  The generation stays advanced.
\* Inside mergeInit see FlushFails.
WriteFails ==
    /\ Head1 \in {"write", "finish"}
    /\ faults < MaxFaults
    /\ merge.stage # "init"
    /\ op.onFail # <<<<"die">>>>
    /\ gen' = (IF At("write") THEN gen + 1 ELSE gen)
    /\ gen' <= MaxGen
    /\ infos' = op.undo
    /\ GoOn(op.onFail)
    /\ faults' = faults + 1
    /\ UNCHANGED <<store, deleter, status, autoCommit, lastGen, counter,
                   commitPending, rollback, buf, merge>>

\* deleter->checkpoint(segmentInfos, isCommit).
DeleterCheckpoint ==
    /\ At("ckpt")
    /\ D!CheckpointEffect(InfosFiles(infos),
                          IF buf.store = None THEN <<>> ELSE <<Store(buf.store)>>,
                          Head(op.todo)[2], gen, Busy)
    /\ Advance
    /\ UNCHANGED <<disk, pinned, held, status, autoCommit, si, rollback, buf,
                   merge, faults>>

\* Seeded fault: the generation is deleted without asking whether it was
\* written.
DeleteLastSegmentsFile ==
    /\ At("partial")
    /\ D!DeleteFilesEffect({SegmentsFile(gen)}, Busy)
    /\ Advance
    /\ UNCHANGED <<disk, pinned, refCounts, commits, last, held, status,
                   autoCommit, si, rollback, buf, merge, faults>>

\* deletePartialSegmentsFile.
DeletePartial ==
    /\ At("partial")
    /\ D!DeleteFilesEffect(IF lastGen # gen THEN {SegmentsFile(gen)} ELSE {}, Busy)
    /\ Advance
    /\ UNCHANGED <<disk, pinned, refCounts, commits, last, held, status,
                   autoCommit, si, rollback, buf, merge, faults>>

\* The deleteFile calls of the error paths.
DeleteFiles ==
    /\ At("delete")
    /\ D!DeleteFilesEffect(Head(op.todo)[2], Busy)
    /\ Advance
    /\ UNCHANGED <<disk, pinned, refCounts, commits, last, held, status,
                   autoCommit, si, rollback, buf, merge, faults>>

\* deleteNewFiles(docWriter->abortedFiles()).
DeleteNewFiles ==
    /\ At("new")
    /\ D!DeleteNewFilesEffect(Head(op.todo)[2], Busy)
    /\ Advance
    /\ UNCHANGED <<disk, pinned, refCounts, commits, last, held, status,
                   autoCommit, si, rollback, buf, merge, faults>>

\* Seeded fault: refresh covers only some of a segment's files.
ScopeOfCore(n) == {f \in File : f[1] = "core" /\ (n = None \/ f[2] = n)}

\* deleter->refresh(segment), or refresh() for None.
Scope(n) == {f \in File : n = None \/ (f[1] # "segments" /\ f[2] = n)}

Refresh ==
    /\ At("refresh")
    /\ D!RefreshEffect(Scope(Head(op.todo)[2]), Busy)
    /\ Advance
    /\ UNCHANGED <<disk, pinned, refCounts, commits, last, held, status,
                   autoCommit, si, rollback, buf, merge, faults>>

\* The operation ends with an exception.  It reaches the caller: a writer
\* that was closing is open again, one that was being constructed is not
\* there.  That of a merge reaches the thread that ran it, which is or is not
\* the one that is closing the writer and waits for merges.
Throw ==
    /\ At("throw")
    /\ status' \in
         CASE status = "opening" -> {"closed"}
           [] status = "closing" /\ Head(op.todo)[2] = "merge" -> {"closing", "open"}
           [] status \in {"closing", "stopping", "abandoning"}
                /\ Head(op.todo)[2] = "caller" -> {"open"}
           [] OTHER -> {status}
    /\ IF status = "opening"
       THEN /\ infos' = <<>> /\ gen' = 0 /\ lastGen' = 0 /\ counter' = 0
            /\ commitPending' = FALSE
       ELSE UNCHANGED si
    /\ GoOn(<<>>)
    /\ UNCHANGED <<store, deleter, autoCommit, rollback, buf, merge, faults>>

-----------------------------------------------------------------------------
(* Merging.  One merge runs at a time, of two adjacent segments.  merge    *)
(* passes through the stages init (holding the monitor), running, built,   *)
(* ending (the monitor again), committed and compound.                     *)

\* _mergeInit up to the copy of the source segments.  When the doc stores
\* have to be merged and are still open, they are flushed first, and with
\* them whatever is buffered.
MergeInit(i) ==
    /\ Free
    /\ status \in {"open", "closing"}
    /\ merge.stage = "none"
    /\ i + 1 \in DOMAIN infos
    /\ counter < MaxSeg
    /\ LET src    == SubSeq(infos, i, i + 1)
           stores == \/ \E k \in 1..2 : src[k].dels # {} \/ src[k].store = None
                     \/ src[1].store # src[2].store
           flush  == /\ stores
                     /\ buf.store # None
                     /\ \E k \in 1..2 : src[k].store = buf.store
       IN  /\ merge' = [NoMerge EXCEPT !.stage = "init", !.clone = src,
                                       !.stores = stores]
           /\ Begin((IF flush THEN FlushSteps(TRUE) ELSE <<>>) \o <<<<"bind">>>>, flush)
    /\ UNCHANGED <<store, deleter, status, autoCommit, si, rollback, buf, faults>>

Current(n) == CHOOSE i \in DOMAIN infos : infos[i].name = n

\* The copy is taken, its files are incRef'd, and a name is bound.
MergeBind ==
    /\ At("bind")
    /\ counter < MaxSeg
    /\ LET src == [k \in 1..2 |-> infos[Current(merge.clone[k].name)]]
           h   == [kind |-> "held", id |-> "merge", files |-> InfosFiles(src)]
       IN  /\ held' = held \cup {h}
           /\ D!IncRefEffect(h)
           /\ merge' = [merge EXCEPT
                !.stage = "running",
                !.clone = src,
                !.out = [name |-> NewSegmentName, docs |-> {}, dels |-> {},
                         delGen |-> 0, cfs |-> FALSE,
                         store |-> IF merge.stores THEN None ELSE src[1].store,
                         storeCfs |-> ~merge.stores /\ src[1].storeCfs]]
    /\ counter' = counter + 1
    /\ commitPending' = TRUE
    /\ Advance
    /\ UNCHANGED <<store, commits, last, deletable, status, autoCommit, infos,
                   gen, lastGen, rollback, buf, faults>>

\* mergeMiddle: SegmentMerger reads the copy and writes the new segment,
\* holding no lock.
MergeBuild ==
    /\ merge.stage = "running"
    /\ LET n == merge.out.name
       IN  /\ dir' = dir \cup {Core(n)} \cup (IF merge.stores THEN {Store(n)} ELSE {})
           /\ merge' = [merge EXCEPT !.stage = "built",
                                     !.out.docs = LiveDocs(merge.clone)]
    /\ UNCHANGED <<disk, pinned, deleter, status, autoCommit, si, rollback, buf, op, faults>>

\* What is left to do for a merge that leaves nothing behind.
Drop(n) == <<<<"refresh", n>>, <<"release">>, <<"refresh", n>>, <<"merged", "none">>>>

\* It fails, or finds that it was aborted, which is no error.
MergeFails ==
    /\ Free
    /\ merge.stage = "running"
    /\ merge.aborted \/ faults < MaxFaults
    /\ faults' = (IF merge.aborted THEN faults ELSE faults + 1)
    /\ LET n == merge.out.name
       IN  /\ dir' = dir \cup {Core(n)}
           /\ Begin(Drop(n) \o (IF merge.aborted THEN <<>>
                                ELSE <<<<"throw", "merge">>>>), FALSE)
    /\ merge' = [merge EXCEPT !.stage = "ending"]
    /\ UNCHANGED <<disk, pinned, deleter, status, autoCommit, si, rollback, buf>>

\* decrefMergeSegments.
MergeRelease ==
    /\ At("release")
    /\ \E h \in held : /\ held' = held \ {h}
                       /\ D!DecRefEffect(h, Busy)
    /\ Advance
    /\ UNCHANGED <<disk, pinned, commits, last, status, autoCommit, si,
                   rollback, buf, merge, faults>>

\* The merge enters its next stage, or is over (mergeFinish).
Merged ==
    /\ At("merged")
    /\ merge' = (IF Head(op.todo)[2] = "none" THEN NoMerge
                 ELSE [merge EXCEPT !.stage = Head(op.todo)[2]])
    /\ Advance
    /\ UNCHANGED <<store, deleter, status, autoCommit, si, rollback, buf, faults>>

\* Seeded fault: deletes that came during the merge are dropped.
NoDeletes == {}

\* The deletes that were flushed to the source segments since the copy was
\* taken, which the merge has to carry over.
NewDeletes ==
    UNION {infos[Current(merge.clone[k].name)].dels \ merge.clone[k].dels : k \in 1..2}

\* commitMerge: an aborted merge is dropped.
CommitMergeAborted ==
    /\ Free
    /\ merge.stage = "built"
    /\ merge.aborted
    /\ Begin(<<<<"release">>, <<"refresh", merge.out.name>>, <<"merged", "none">>>>, FALSE)
    /\ merge' = [merge EXCEPT !.stage = "ending"]
    /\ UNCHANGED <<store, deleter, status, autoCommit, si, rollback, buf, faults>>

\* Seeded fault: one of the two sources stays.
SpliceFirst(start, out) ==
    SubSeq(infos, 1, start - 1) \o <<out>> \o SubSeq(infos, start + 1, Len(infos))

\* The segments with out in the place of the two from start on.
Splice(start, out) ==
    SubSeq(infos, 1, start - 1) \o <<out>> \o SubSeq(infos, start + 2, Len(infos))

\* commitMerge: writing the merged deletes fails.
MergeDeletesFail ==
    /\ Free
    /\ merge.stage = "built"
    /\ ~merge.aborted
    /\ NewDeletes # {}
    /\ faults < MaxFaults
    /\ faults' = faults + 1
    /\ LET n == merge.out.name
       IN  /\ dir' = dir \cup {Del(n, 1)}
           /\ Begin(Drop(n) \o <<<<"throw", "merge">>>>, FALSE)
    /\ merge' = [merge EXCEPT !.stage = "ending"]
    /\ UNCHANGED <<disk, pinned, deleter, status, autoCommit, si, rollback, buf>>

\* commitMerge: the source segments are replaced by the merged one.
CommitMerge ==
    /\ Free
    /\ merge.stage = "built"
    /\ ~merge.aborted
    /\ LET start == Current(merge.clone[1].name)
           n     == merge.out.name
           out   == [merge.out EXCEPT
                       !.dels = NewDeletes,
                       !.delGen = IF NewDeletes = {} THEN 0 ELSE 1,
                       !.storeCfs = @ \/ (merge.out.store # None
                          /\ \E i \in DOMAIN infos :
                               infos[i].store = merge.out.store /\ infos[i].storeCfs)]
       IN  /\ infos' = Splice(start, out)
           /\ dir' = dir \cup (IF NewDeletes = {} THEN {} ELSE {Del(n, 1)})
           /\ merge' = [merge EXCEPT !.stage = "ending", !.out = out]
           /\ op' = [todo |-> CommitSteps
                       \o <<<<"release">>,
                            <<"merged", IF UseCompound THEN "committed" ELSE "none">>>>,
                     undo |-> infos,
                     onFail |-> <<<<"partial">>>> \o Drop(n) \o <<<<"throw", "merge">>>>,
                     pausing |-> FALSE]
    /\ MarkPending
    /\ UNCHANGED <<disk, pinned, deleter, status, autoCommit, gen, lastGen,
                   counter, rollback, buf, faults>>

\* mergeMiddle: the merged segment's compound file, built without the lock.
MergeCompound ==
    /\ merge.stage = "committed"
    /\ dir' = dir \cup {Cfs(merge.out.name)}
    /\ merge' = [merge EXCEPT !.stage = "compound"]
    /\ UNCHANGED <<disk, pinned, deleter, status, autoCommit, si, rollback, buf, op, faults>>

\* Building it fails.  The merged segment stays, in its own files.
MergeCompoundFails ==
    /\ Free
    /\ merge.stage = "committed"
    /\ faults < MaxFaults
    /\ faults' = faults + 1
    /\ dir' = dir \cup {Cfs(merge.out.name)}
    /\ Begin(<<<<"delete", {Cfs(merge.out.name)}>>, <<"merged", "none">>,
               <<"throw", "merge">>>>, FALSE)
    /\ merge' = [merge EXCEPT !.stage = "ending"]
    /\ UNCHANGED <<disk, pinned, deleter, status, autoCommit, si, rollback, buf>>

\* Then it takes the place of the files it was made of, unless the segment
\* is gone or the merge was aborted meanwhile.
CommitCompound ==
    /\ Free
    /\ merge.stage = "compound"
    /\ LET n    == merge.out.name
           gone == merge.aborted \/ \A i \in DOMAIN infos : infos[i].name # n
           end  == <<<<"merged", "none">>>>
       IN  IF gone
           THEN /\ Begin(<<<<"delete", {Cfs(n)}>>>> \o end, FALSE)
                /\ UNCHANGED <<infos, commitPending>>
           ELSE /\ infos' = [infos EXCEPT ![Current(n)].cfs = TRUE]
                /\ op' = [todo |-> CommitSteps \o end,
                          undo |-> infos,
                          onFail |-> <<<<"partial">>, <<"delete", {Cfs(n)}>>>>
                                     \o end \o <<<<"throw", "merge">>>>,
                          pausing |-> FALSE]
                /\ MarkPending
    /\ UNCHANGED <<store, deleter, status, autoCommit, gen, lastGen, counter,
                   rollback, buf, merge, faults>>

-----------------------------------------------------------------------------
(* Closing and aborting.                                                   *)

\* close(wait): documentsWriter is closed and flushed, doc stores included.
Close(wait) ==
    /\ status = "open"
    /\ Free
    /\ status' = (IF wait THEN "closing" ELSE "stopping")
    /\ buf' = [buf EXCEPT !.closed = TRUE]
    /\ Begin(FlushSteps(TRUE), TRUE)
    /\ UNCHANGED <<store, deleter, autoCommit, si, rollback, merge, faults>>

\* finishMerges(false): the running merge is told to stop.
StopMerges ==
    /\ status \in {"stopping", "aborting"}
    /\ Free
    /\ merge.stage # "none" /\ ~merge.aborted
    /\ merge' = [merge EXCEPT !.aborted = TRUE]
    /\ UNCHANGED <<store, deleter, status, autoCommit, si, rollback, buf, op, faults>>

\* closeInternal, with no merge left: write segments_N if anything changed.
CloseCommit ==
    /\ status \in {"closing", "stopping", "abandoning"}
    /\ Free
    /\ merge.stage = "none"
    /\ op' = [todo |-> (IF commitPending THEN <<<<"write">>, <<"ckpt", TRUE>>>> ELSE <<>>)
                       \o <<<<"close">>>>,
              undo |-> infos,
              onFail |-> <<<<"partial">>, <<"throw", "caller">>>>,
              pausing |-> FALSE]
    /\ UNCHANGED <<store, deleter, status, autoCommit, si, rollback, buf, merge, faults>>

\* The writer and everything it has in memory is gone.
Forget ==
    /\ status' = "closed"
    /\ infos' = <<>> /\ gen' = 0 /\ lastGen' = 0 /\ counter' = 0
    /\ commitPending' = FALSE
    /\ rollback' = <<>> /\ buf' = EmptyBuf /\ merge' = NoMerge /\ op' = Idle
    /\ held' = {}
    /\ D!ForgetEffect
    /\ UNCHANGED <<disk, pinned, autoCommit>>

CloseDeleter ==
    /\ At("close")
    /\ dir' = dir \ (deletable \ Busy)
    /\ Forget
    /\ UNCHANGED faults

\* abort(), for a writer without autoCommit.
Abort ==
    /\ status = "open"
    /\ ~autoCommit
    /\ status' = "aborting"
    /\ UNCHANGED <<store, deleter, autoCommit, si, rollback, buf, merge, op, faults>>

\* Seeded fault: docWriter->abort() is forgotten.
AbortKeepingBuffer ==
    /\ status = "aborting"
    /\ Free
    /\ merge.stage = "none"
    /\ status' = "aborted"
    /\ infos' = rollback
    /\ rollback' = <<>>
    /\ Begin(<<<<"ckpt", FALSE>>, <<"refresh", None>>>>, FALSE)
    /\ UNCHANGED <<store, deleter, autoCommit, gen, lastGen, counter,
                   commitPending, buf, merge, faults>>

\* With no merge left, the segments are again those the writer opened with.
AbortRollback ==
    /\ status = "aborting"
    /\ Free
    /\ merge.stage = "none"
    /\ status' = "aborted"
    /\ infos' = rollback
    /\ rollback' = <<>>
    /\ buf' = [EmptyBuf EXCEPT !.closed = buf.closed]
    /\ Begin(<<<<"ckpt", FALSE>>, <<"refresh", None>>>>, FALSE)
    /\ UNCHANGED <<store, deleter, autoCommit, gen, lastGen, counter,
                   commitPending, merge, faults>>

\* commitPending = false, and closeInternal(false).
AbortClose ==
    /\ status = "aborted"
    /\ Free
    /\ status' = "abandoning"
    /\ commitPending' = FALSE
    /\ buf' = [buf EXCEPT !.closed = TRUE]
    /\ Begin(FlushSteps(TRUE), TRUE)
    /\ UNCHANGED <<store, deleter, autoCommit, infos, gen, lastGen, counter,
                   rollback, merge, faults>>

-----------------------------------------------------------------------------
(* The environment.                                                        *)

\* The process dies between two steps, or within a checkpoint, which removes
\* an old commit's segments_N before that commit's other files.
Crash ==
    /\ status # "closed"
    /\ faults < MaxFaults
    /\ faults' = faults + 1
    /\ Forget
    /\ dir' \in {dir} \cup
         (IF At("ckpt") /\ Head(op.todo)[2]
          THEN {dir \ {SegmentsFile(c.id) : c \in commits}} ELSE {})

\* An IndexReader opens the newest commit it finds, and closes it.
OpenReader ==
    /\ Pins
    /\ pinned = {}
    /\ FoundGen # 0
    /\ pinned' = FilesIn(disk[FoundGen].infos)
    /\ UNCHANGED <<dir, disk, deleter, status, autoCommit, si, rollback, buf, merge, op, faults>>

CloseReader ==
    /\ pinned # {}
    /\ pinned' = {}
    /\ UNCHANGED <<dir, disk, deleter, status, autoCommit, si, rollback, buf, merge, op, faults>>

-----------------------------------------------------------------------------

\* The steps of the operation that holds the monitor.
OpStep ==
    \/ ConstructDeleter
    \/ FlushDocStores \/ FlushSegment \/ FlushCompound
    \/ StartWrite \/ FinishWrite \/ DeleterCheckpoint
    \/ DeletePartial \/ DeleteFiles \/ DeleteNewFiles \/ Refresh \/ Throw
    \/ MergeBind \/ MergeRelease \/ Merged
    \/ CloseDeleter

Failure ==
    \/ FlushFails \/ FlushCompoundFails \/ WriteFails
    \/ MergeDeletesFail \/ MergeCompoundFails
    \/ Crash

\* The thread that runs a merge.
MergeStep ==
    \/ MergeBuild \/ MergeFails
    \/ CommitMergeAborted \/ CommitMerge
    \/ MergeCompound \/ CommitCompound

\* The thread that closes or aborts.
CloseStep == StopMerges \/ CloseCommit \/ AbortRollback \/ AbortClose

Call ==
    \/ \E ac \in AutoCommitModes : Open(ac) \/ Create(ac)
    \/ \E d \in Doc : AddDoc(d) \/ AddDocFails(d) \/ DeleteDoc(d)
    \/ Flush
    \/ \E i \in 1..MaxSeg : MergeInit(i)
    \/ \E wait \in BOOLEAN : Close(wait)
    \/ Abort
    \/ OpenReader \/ CloseReader

Next == OpStep \/ Failure \/ MergeStep \/ CloseStep \/ Call

Spec == Init /\ [][Next]_vars

-----------------------------------------------------------------------------
(* The promises of IndexCommits, under this mapping.                       *)

\* The documents of the newest commit that can be read.
CommittedDocs ==
    LET gs == {g \in DOMAIN disk : disk[g].complete /\ SegmentsFile(g) \in dir}
    IN  IF gs = {} THEN {}
        ELSE LiveDocs(disk[CHOOSE g \in gs : \A h \in gs : h <= g].infos)

\* A writer that is creating an index holds an undo list of its own.
Creating == status = "opening" /\ op.onFail # <<>>

Mode ==
    CASE status = "closed" \/ (status = "opening" /\ ~Creating) -> "closed"
      [] Creating -> "creating"
      [] status \in {"aborted", "abandoning"} -> "aborting"
      [] status \in {"open", "closing", "stopping"} /\ autoCommit -> "auto"
      [] status \in {"closing", "stopping"} /\ ~autoCommit -> "finishing"
      [] OTHER -> "manual"

Abstract == INSTANCE IndexCommits WITH
        committed <- CommittedDocs,
        working <- IF Mode = "closed" THEN {} ELSE LiveDocs(infos),
        adds <- buf.docs,
        dels <- buf.dels,
        mode <- Mode,
        failures <- faults

\* Segments, merges, files and generations, failures and crashes included,
\* are invisible: the writer implements IndexCommits.  In particular what a
\* reader finds changes only from one whole flush (with autoCommit) or one
\* whole session (without) to the next.
Refinement == Abstract!Spec

-----------------------------------------------------------------------------
(* Properties.                                                             *)

SegmentInfos ==
    [name : Name, docs : SUBSET Doc, dels : SUBSET Doc, delGen : Nat,
     cfs : BOOLEAN, store : Name \cup {None}, storeCfs : BOOLEAN]

\* The variables have their types.
TypeOK ==
    /\ dir \subseteq File /\ pinned \subseteq File /\ deletable \subseteq File
    /\ DOMAIN disk \subseteq Gen
    /\ \A g \in DOMAIN disk : /\ disk[g].complete \in BOOLEAN
                              /\ disk[g].infos \in Seq(SegmentInfos)
                              /\ disk[g].counter \in 0..MaxSeg
    /\ status \in {"closed", "opening", "open", "closing", "stopping",
                   "aborting", "aborted", "abandoning"}
    /\ autoCommit \in BOOLEAN /\ commitPending \in BOOLEAN
    /\ infos \in Seq(SegmentInfos) /\ rollback \in Seq(SegmentInfos)
    /\ gen \in 0..MaxGen /\ lastGen \in 0..MaxGen /\ counter \in 0..MaxSeg
    /\ buf \in [docs : SUBSET Doc, dels : SUBSET Doc, seg : Name \cup {None},
                store : Name \cup {None}, closed : BOOLEAN]
    /\ merge.clone \in Seq(SegmentInfos)
    /\ op.undo \in Seq(SegmentInfos) /\ op.pausing \in BOOLEAN
    /\ faults \in 0..MaxFaults

Up == status \notin {"closed", "opening"}

\* The files of the in-memory segments are all in the directory, also of
\* segments the deleter has not been told of yet.
SegmentFilesExist == FilesIn(infos) \subseteq dir

\* A merge's source segments stay next to each other among the current
\* segments, and keep at least the deletes the merge started from.
\* commitMerge throws, or loses documents, otherwise.
MergeSourcesStay ==
    merge.stage \in {"running", "built"} =>
        \E i \in DOMAIN infos :
            \A k \in 1..2 :
                /\ i + k - 1 \in DOMAIN infos
                /\ infos[i + k - 1].name = merge.clone[k].name
                /\ merge.clone[k].dels \subseteq infos[i + k - 1].dels

\* A document is live in one segment at most: no merge, rollback or failed
\* commit duplicates one.
DocsOnce ==
    \A i, j \in DOMAIN infos :
        i # j => Live(infos[i]) \cap (Live(infos[j]) \cup buf.docs) = {}

\* A segment name handed out next is not that of a file somebody references:
\* names are not reused after a crash, an abort or a reopen.
NamesFresh == Up => \A f \in D!Referenced : f[1] = "segments" \/ f[2] < counter

\* When nothing is going on, every file in the directory is referenced, or
\* is an open doc store, or a reader kept it from being deleted.
NothingLeaks ==
    status = "open" /\ Free /\ merge.stage = "none" =>
        dir \subseteq D!Referenced \cup deletable
                      \cup (IF buf.store = None THEN {} ELSE {Store(buf.store)})

\* While no writer is open, an index with a readable commit can be opened.
CommitFound ==
    status = "closed" /\ (\E g \in Gen : D!Readable(g)) => FoundGen # 0

Aborting == status \in {"aborting", "aborted", "abandoning"}

\* abort() leaves the index as it was when the writer was opened, whatever
\* other threads were doing with the writer.
AbortKeepsIndex ==
    [][Aborting => UNCHANGED CommittedDocs]_vars

\* The client of IndexFileDeleter this writer is.  Each disjunct is an
\* action of that module, with the arguments the step at hand must have.
DeleterStep ==
    \/ D!CreateFiles(dir' \ dir)
    \/ D!StartSegments(gen')
    \/ D!FinishSegments(gen, InfosFiles(infos))
    \/ D!Checkpoint(InfosFiles(infos),
                    IF buf.store = None THEN <<>> ELSE <<Store(buf.store)>>, Busy)
    \/ D!Hold("merge", InfosFiles(merge'.clone))
    \/ \E h \in held : D!Release(h, Busy)
    \/ D!DeleteFiles({SegmentsFile(gen)}, Busy)
    \/ At("delete") /\ D!DeleteFiles(Head(op.todo)[2], Busy)
    \/ \E n \in Name : D!DeleteNewFiles({Store(n)}, Busy)
    \/ \E n \in Name \cup {None} : D!Refresh(Scope(n), Busy)
    \/ D!Open(gen, Busy)
    \/ D!Close(Busy)
    \/ D!Crash
    \/ D!CrashInCheckpoint(dir \ dir')

\* IndexWriter keeps the contract of IndexFileDeleter: what was shown for
\* any client there holds for this writer.
DeleterContract == D!Init /\ [][DeleterStep]_(D!vars)

=============================================================================
