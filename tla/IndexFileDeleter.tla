-------------------------- MODULE IndexFileDeleter --------------------------
(***************************************************************************)
(* The component that decides when an index file may be removed:           *)
(* IndexFileDeleter of index/IndexFileDeleter.cpp, together with the       *)
(* directory it works on.                                                  *)
(*                                                                         *)
(* The deleter keeps a reference count per file.  A file is referenced by  *)
(* the commit points it knows (segments_N files it has read or seen        *)
(* written), by the last checkpoint of the writer's in-memory SegmentInfos *)
(* and by the writer itself for the duration of a merge or a local         *)
(* transaction.  When a count returns to zero the file is deleted; a       *)
(* delete the file system refuses is queued and retried.                   *)
(*                                                                         *)
(* The client is any writer that honours the contract written in the       *)
(* guards of the actions below.  IndexWriter.tla has the real one, and its *)
(* runs check that it is such a client.                                    *)
(***************************************************************************)
EXTENDS Naturals, Integers, Sequences, FiniteSets, Functions

CONSTANTS
    File,               \* The names of all index files, segments_N included.
    SegmentsFile(_),    \* The name of segments_N, for a generation N.
    Gen,                \* The generations that may be written.
    Owner,              \* What the writer takes references for by hand.
    Vectors,            \* The vectors of file names a client may pass.
    FileSets,           \* The sets of names a step may pick or spare.
    KeepAll             \* FALSE: KeepOnlyLastCommitDeletionPolicy.
                        \* TRUE: a policy that deletes nothing.

ASSUME GenAssumption == Gen \subseteq Nat \ {0}
ASSUME SegmentsFileAssumption ==
    /\ \A g \in Gen : SegmentsFile(g) \in File
    /\ \A g, h \in Gen : SegmentsFile(g) = SegmentsFile(h) => g = h
ASSUME KeepAllAssumption == KeepAll \in BOOLEAN
ASSUME VectorsAssumption == Vectors \subseteq Seq(File)

VARIABLES
    dir,        \* The names of the files in the directory.
    stored,     \* What segments_g held when it was last written, per g.
    up,         \* A deleter exists (a writer is open).
    unreg,      \* Generation written but not yet checkpointed, or 0.
    refCounts,  \* File name to count, for the files in the map.
    commits,    \* The known commit points.
    last,       \* lastFiles: the files of the last non-commit checkpoint.
    held,       \* References the writer took with incRef.
    deletable   \* Files whose deletion failed.

vars == <<dir, stored, up, unreg, refCounts, commits, last, held, deletable>>

-----------------------------------------------------------------------------
(* Reference counting.  A holder is a record with a field "files", the     *)
(* vector of names it references, repetitions included.                    *)

\* How often f occurs in the vector fs.
Count(fs, f) == Cardinality({i \in DOMAIN fs : fs[i] = f})

\* The references to f from the holders H, one element per occurrence.
Uses(H, f) == UNION {{h} \X {i \in DOMAIN h.files : h.files[i] = f} : h \in H}

\* Number of references to f from the holders H and the vector fs.
Tally(H, fs, f) == Cardinality(Uses(H, f)) + Count(fs, f)

\* The files the holders H and the vector fs name.
Named(H, fs) == Range(fs) \cup UNION {Range(h.files) : h \in H}

\* A file without an entry counts as 0: getRefCount creates it on demand.
At(rc, f) == IF f \in DOMAIN rc THEN rc[f] ELSE 0

\* Seeded fault: a name that occurs twice is counted once.
IncRefOncePerName(rc, H, fs) ==
    [f \in DOMAIN rc \cup Named(H, fs) |->
        At(rc, f) + IF f \in Named(H, fs) THEN 1 ELSE 0]

IncRef(rc, H, fs) ==
    [f \in DOMAIN rc \cup Named(H, fs) |-> At(rc, f) + Tally(H, fs, f)]

Left(rc, H, fs, f) == At(rc, f) - Tally(H, fs, f)

\* The files a decRef brings to zero: they leave the map and are deleted.
Freed(rc, H, fs) == {f \in Named(H, fs) : Left(rc, H, fs, f) = 0}

DecRef(rc, H, fs) ==
    [f \in (DOMAIN rc \cup Named(H, fs)) \ Freed(rc, H, fs)
        |-> Left(rc, H, fs, f)]

-----------------------------------------------------------------------------
(* The directory.                                                          *)

\* A segments_N file that was completely written can be read.
Readable(g) == /\ g \in DOMAIN stored
               /\ stored[g].complete
               /\ SegmentsFile(g) \in dir

\* The commit point of segments_g: the file itself, then its segments' files.
CommitPoint(g) ==
    [kind |-> "commit", id |-> g, files |-> <<SegmentsFile(g)>> \o stored[g].files]

\* No readable commit is newer than g.
Newest(g) == Readable(g) /\ \A h \in Gen : Readable(h) => h <= g

Holders == commits \cup held

\* The files some holder references.
Referenced == Named(Holders, last)

-----------------------------------------------------------------------------
(* Effects: what each entry point does to the directory and to the         *)
(* deleter's memory.  busy is the set of files that cannot be deleted now  *)
(* (open for reading, on a file system that refuses that).                 *)

\* Deleting doomed; pending are the names already queued for a retry.
RemoveFiles(doomed, pending, busy) ==
    /\ dir' = dir \ (doomed \ busy)
    /\ deletable' = pending \cup (doomed \cap busy \cap dir)

\* Seeded fault: the previous checkpoint's references are not given back.
CheckpointKeepingLast(infosFs, docFs, isCommit, g, busy) ==
    LET new   == IF isCommit THEN {CommitPoint(g)} ELSE {}
        front == IF isCommit THEN docFs ELSE infosFs \o docFs
        gone  == IF isCommit /\ ~KeepAll THEN commits ELSE {}
        rc    == IncRef(refCounts, new, front)
    IN  /\ refCounts' = DecRef(rc, gone, <<>>)
        /\ commits' = (commits \ gone) \cup new
        /\ last' = front
        /\ RemoveFiles(deletable \cup Freed(rc, gone, <<>>), {}, busy)

\* Seeded fault: old references are given back before new ones are taken.
CheckpointDecRefFirst(infosFs, docFs, isCommit, g, busy) ==
    LET new   == IF isCommit THEN {CommitPoint(g)} ELSE {}
        front == IF isCommit THEN docFs ELSE infosFs \o docFs
        gone  == IF isCommit /\ ~KeepAll THEN commits ELSE {}
    IN  /\ refCounts' = IncRef(DecRef(refCounts, gone, last), new, front)
        /\ commits' = (commits \ gone) \cup new
        /\ last' = front
        /\ RemoveFiles(deletable \cup Freed(refCounts, gone, last), {}, busy)

\* checkpoint(segmentInfos, isCommit) with generation g; infosFs are the
\* files of the in-memory segments, docFs those of the open doc stores.
CheckpointEffect(infosFs, docFs, isCommit, g, busy) ==
    LET new   == IF isCommit THEN {CommitPoint(g)} ELSE {}
        front == IF isCommit THEN docFs ELSE infosFs \o docFs
        gone  == IF isCommit /\ ~KeepAll THEN commits ELSE {}
        rc    == IncRef(refCounts, new, front)
    IN  /\ refCounts' = DecRef(rc, gone, last)
        /\ commits' = (commits \ gone) \cup new
        /\ last' = front
        /\ RemoveFiles(deletable \cup Freed(rc, gone, last), {}, busy)

\* incRef(files) and decRef(files) called by the writer for a holder h.
IncRefEffect(h) == refCounts' = IncRef(refCounts, {h}, <<>>)

DecRefEffect(h, busy) ==
    /\ refCounts' = DecRef(refCounts, {h}, <<>>)
    /\ RemoveFiles(Freed(refCounts, {h}, <<>>), deletable, busy)

\* deleteFile and deleteFiles: unconditional.
DeleteFilesEffect(fs, busy) == RemoveFiles(fs, deletable, busy)

\* Seeded fault: deleteNewFiles does not look at the counts.
DeleteNewFilesUnchecked(fs, busy) == RemoveFiles(fs, deletable, busy)

\* deleteNewFiles: only those without an entry in the map.
DeleteNewFilesEffect(fs, busy) ==
    RemoveFiles(fs \ DOMAIN refCounts, deletable, busy)

\* Seeded fault: nor does refresh.
RefreshUnchecked(scope, busy) == RemoveFiles(dir \cap scope, deletable, busy)

\* refresh(segmentName): the files in scope that have no entry.
RefreshEffect(scope, busy) ==
    RemoveFiles((dir \cap scope) \ DOMAIN refCounts, deletable, busy)

\* Seeded fault: the policy spares the older commits and not the newest.
OpenDeletingNewest(g, busy) ==
    LET found == {CommitPoint(h) : h \in {n \in DOMAIN stored :
                                            n <= g /\ Readable(n)}}
        gone  == IF KeepAll THEN {} ELSE {c \in found : c.id = g}
        rc    == IncRef([f \in dir |-> 0], found, <<>>)
    IN  /\ refCounts' = DecRef(rc, gone, <<>>)
        /\ commits' = found \ gone
        /\ last' = <<>>
        /\ RemoveFiles((dir \ Named(found, <<>>)) \cup Freed(rc, gone, <<>>),
                       {}, busy)

\* The constructor, for a writer whose SegmentInfos were read from
\* segments_g.  Every older readable commit is loaded, what nothing
\* references is deleted (its entry of 0 stays in the map), and the policy's
\* onInit may delete commits.
OpenEffect(g, busy) ==
    LET found == {CommitPoint(h) : h \in {n \in DOMAIN stored :
                                            n <= g /\ Readable(n)}}
        gone  == IF KeepAll THEN {} ELSE {c \in found : c.id # g}
        rc    == IncRef([f \in dir |-> 0], found, <<>>)
        zero  == dir \ Named(found, <<>>)
    IN  /\ refCounts' = DecRef(rc, gone, <<>>)
        /\ commits' = found \ gone
        /\ last' = <<>>
        /\ RemoveFiles(zero \cup Freed(rc, gone, <<>>), {}, busy)

\* The deleter's memory is gone, with the process or with the writer.
ForgetEffect ==
    /\ refCounts' = << >>
    /\ commits' = {}
    /\ last' = <<>>
    /\ deletable' = {}

-----------------------------------------------------------------------------
(* The specification for a general client.                                 *)

\* Files a checkpoint may reference: present and not queued for deletion.
Usable == dir \ deletable

Init ==
    /\ dir = {}
    /\ stored = << >>
    /\ up = FALSE
    /\ unreg = 0
    /\ refCounts = << >>
    /\ commits = {}
    /\ last = <<>>
    /\ held = {}
    /\ deletable = {}

\* New files: index files are written once, under names that are neither in
\* use nor queued for deletion.
CreateFiles(fs) ==
    /\ up
    /\ fs \subseteq File \ {SegmentsFile(g) : g \in Gen}
    /\ fs \cap (dir \cup deletable) = {}
    /\ dir' = dir \cup fs
    /\ UNCHANGED <<stored, up, unreg, refCounts, commits, last, held, deletable>>

\* SegmentInfos::write has created segments_g and not yet closed it.
StartSegments(g) ==
    /\ unreg = 0
    /\ g \in Gen
    /\ SegmentsFile(g) \notin deletable \cup Referenced
    /\ \A h \in Gen : Readable(h) => h < g
    /\ dir' = dir \cup {SegmentsFile(g)}
    /\ stored' = [h \in DOMAIN stored \cup {g} |->
                    IF h = g THEN [complete |-> FALSE, files |-> <<>>]
                             ELSE stored[h]]
    /\ UNCHANGED <<up, unreg, refCounts, commits, last, held, deletable>>

\* It has closed it.  Before a deleter exists (create = true) the new commit
\* has no segments.
FinishSegments(g, fs) ==
    /\ unreg = 0
    /\ g \in DOMAIN stored
    /\ ~stored[g].complete
    /\ SegmentsFile(g) \in Usable \ Referenced
    /\ \A h \in Gen : Readable(h) => h < g
    /\ IF up THEN Range(fs) \subseteq Usable ELSE fs = <<>>
    /\ stored' = [stored EXCEPT ![g] = [complete |-> TRUE, files |-> fs]]
    /\ unreg' = IF up THEN g ELSE 0
    /\ UNCHANGED <<dir, up, refCounts, commits, last, held, deletable>>

\* A checkpoint is a commit exactly when a new segments_N was just written,
\* and then it is of the same segments.
Checkpoint(infosFs, docFs, busy) ==
    /\ up
    /\ Range(infosFs) \cup Range(docFs) \subseteq Usable
    /\ unreg # 0 => infosFs = stored[unreg].files
    /\ CheckpointEffect(infosFs, docFs, unreg # 0, unreg, busy)
    /\ unreg' = 0
    /\ UNCHANGED <<stored, up, held>>

Hold(o, fs) ==
    /\ up
    /\ unreg = 0
    /\ Range(fs) \subseteq Usable
    /\ \A h \in held : h.id # o
    /\ LET h == [kind |-> "held", id |-> o, files |-> fs]
       IN  /\ held' = held \cup {h}
           /\ IncRefEffect(h)
    /\ UNCHANGED <<dir, stored, up, unreg, commits, last, deletable>>

Release(h, busy) ==
    /\ up
    /\ unreg = 0
    /\ h \in held
    /\ held' = held \ {h}
    /\ DecRefEffect(h, busy)
    /\ UNCHANGED <<stored, up, unreg, commits, last>>

\* Only files nothing references, and no readable commit, may be deleted
\* by name.
DeleteFiles(fs, busy) ==
    /\ up
    /\ unreg = 0
    /\ fs \cap Referenced = {}
    /\ \A g \in Gen : Readable(g) => SegmentsFile(g) \notin fs
    /\ DeleteFilesEffect(fs, busy)
    /\ UNCHANGED <<stored, up, unreg, refCounts, commits, last, held>>

DeleteNewFiles(fs, busy) ==
    /\ up
    /\ unreg = 0
    /\ \A g \in Gen : SegmentsFile(g) \notin fs
    /\ DeleteNewFilesEffect(fs, busy)
    /\ UNCHANGED <<stored, up, unreg, refCounts, commits, last, held>>

Refresh(scope, busy) ==
    /\ up
    /\ unreg = 0
    /\ RefreshEffect(scope, busy)
    /\ UNCHANGED <<stored, up, unreg, refCounts, commits, last, held>>

\* A writer opens the newest commit and gets a deleter.
Open(g, busy) ==
    /\ ~up
    /\ Newest(g)
    /\ OpenEffect(g, busy)
    /\ up' = TRUE
    /\ UNCHANGED <<stored, unreg, held>>

\* close(): the pending deletions are tried a last time.
Close(busy) ==
    /\ up
    /\ unreg = 0
    /\ held = {}
    /\ dir' = dir \ (deletable \ busy)
    /\ up' = FALSE
    /\ ForgetEffect
    /\ UNCHANGED <<stored, unreg, held>>

\* The process dies.
Crash ==
    /\ up' = FALSE
    /\ unreg' = 0
    /\ held' = {}
    /\ ForgetEffect
    /\ UNCHANGED <<dir, stored>>

\* The process dies in the middle of a checkpoint's deletions: done is what
\* it had already removed.
CrashInCheckpoint(done) ==
    /\ up
    /\ done \subseteq deletable \cup
         LET isCommit == unreg # 0
             new  == IF isCommit THEN {CommitPoint(unreg)} ELSE {}
             fs   == IF isCommit THEN stored[unreg].files ELSE <<>>
             gone == IF isCommit /\ ~KeepAll THEN commits ELSE {}
         IN  {f \in Named(gone, last) :
                f \notin Named(new \cup (Holders \ gone), fs)}
    /\ dir' = dir \ done
    /\ up' = FALSE
    /\ unreg' = 0
    /\ held' = {}
    /\ ForgetEffect
    /\ UNCHANGED stored

ClientStep(busy) ==
    \/ \E infosFs, docFs \in Vectors : Checkpoint(infosFs, docFs, busy)
    \/ \E h \in held : Release(h, busy)
    \/ \E fs \in FileSets : DeleteFiles(fs, busy)
    \/ \E fs \in FileSets : DeleteNewFiles(fs, busy)
    \/ \E scope \in FileSets : Refresh(scope, busy)
    \/ Close(busy)
    \/ \E g \in Gen : Open(g, busy)

Next ==
    \/ \E fs \in FileSets : CreateFiles(fs)
    \/ \E g \in Gen : StartSegments(g)
    \/ \E g \in Gen, fs \in Vectors : FinishSegments(g, fs)
    \/ \E o \in Owner, fs \in Vectors : Hold(o, fs)
    \/ \E busy \in FileSets : ClientStep(busy)
    \/ Crash
    \/ \E done \in FileSets : CrashInCheckpoint(done)

Spec == Init /\ [][Next]_vars

-----------------------------------------------------------------------------
(* Properties.                                                             *)

\* The variables have their types.
TypeOK ==
    /\ dir \subseteq File
    /\ DOMAIN stored \subseteq Gen
    /\ \A g \in DOMAIN stored : /\ stored[g].complete \in BOOLEAN
                               /\ stored[g].files \in Seq(File)
    /\ up \in BOOLEAN
    /\ unreg \in Gen \cup {0}
    /\ DOMAIN refCounts \subseteq File
    /\ \A f \in DOMAIN refCounts : refCounts[f] \in Nat
    /\ \A c \in commits : c.id \in DOMAIN stored /\ c = CommitPoint(c.id)
    /\ last \in Seq(File)
    /\ \A h \in held : /\ h.files \in Seq(File)
                      /\ h = [kind |-> "held", id |-> h.id, files |-> h.files]
    /\ deletable \subseteq File

\* The count the deleter keeps for a file is the number of references to it:
\* from commits, the last checkpoint and the writer.  An incRef without its
\* decRef leaks the file, a decRef too many deletes it under a commit.
RefCountExact ==
    up => \A f \in File : At(refCounts, f) = Tally(Holders, last, f)

\* A file that a commit, the in-memory segments, a running merge or a local
\* transaction references is in the directory.
Protected == up => Referenced \subseteq dir

\* A file whose deletion is being retried is not referenced again: the next
\* checkpoint, which starts by deleting such files, would remove live data.
PendingUnreferenced == deletable \cap Referenced = {}

\* Whatever happens, and in the middle of a checkpoint's deletions too, the
\* newest commit on disk has all of its files.
NewestCommitIntact ==
    \A g \in Gen : Newest(g) => Range(stored[g].files) \subseteq dir

\* The newest commit on disk is replaced only by a newer one: a step never
\* takes the index back to an older state.
CommitsAdvance ==
    [][\A g \in Gen : Newest(g) => \E h \in Gen : h >= g /\ Newest(h)']_vars

=============================================================================
