---------------------------- MODULE IndexReaders ----------------------------
(***************************************************************************)
(* Readers and writers of one directory: how SegmentInfos.cpp finds the    *)
(* newest commit while another process writes the next one, and how        *)
(* DirectoryIndexReader.cpp and IndexWriter::init take the write lock.     *)
(*                                                                         *)
(* A commit g is the file segments_g with the files it names; they are     *)
(* deleted together.  The version that is stored in a commit advances with *)
(* its generation, so a generation stands for both.  An index exists       *)
(* before the first step; writers that create one are left out.            *)
(***************************************************************************)
EXTENDS Integers, FiniteSets

CONSTANTS
    Reader,     \* Directory readers that a program opens.
    Writer,     \* Index writers.
    Lookahead,  \* defaultGenLookaheadCount
    MaxGen,     \* Bound: the last generation that is written.
    MaxFaults   \* Bound: crashes, damaged files, failed reads and writes.

ASSUME HandleAssumption == Reader \cap Writer = {}
ASSUME BoundsAssumption ==
    /\ Lookahead \in Nat /\ MaxGen \in Nat \ {0} /\ MaxFaults \in Nat

VARIABLES
    file,       \* segments_g: "none", "torn" (incomplete), "whole", "damaged".
    genFile,    \* What segments.gen says, 0 while it is incomplete.
    lockFile,   \* Whether write.lock exists.
    handle,     \* The state of each reader and writer.
    search,     \* The search for the newest commit that each one is in.
    newest,     \* History: the last commit that was completed.
    mishaps,    \* History: what went wrong that the properties allow for.
    faults

directory == <<file, genFile, lockFile>>
vars == <<directory, handle, search, newest, mishaps, faults>>

Handle == Reader \cup Writer
Gen == 1 .. MaxGen

(***************************************************************************)
(* holds: "dangling" is a lock that was released and freed, but that the   *)
(* reader still points to.  unchecked: the reader has the lock, but did    *)
(* not learn whether it is up to date.                                     *)
(***************************************************************************)
Closed == [pc |-> "closed", gen |-> 0, lastGen |-> 0, hasChanges |-> FALSE,
           stale |-> FALSE, holds |-> "no", unchecked |-> FALSE]

(***************************************************************************)
(* The local state of _FindSegmentsFile::doRun.  At the head of its loop   *)
(* lastGen is gen.  seen: what the directory held when it began to be      *)
(* listed.  prev: segments_(gen-1) is tried.  start: newest when it began. *)
(***************************************************************************)
NoSearch == [goal |-> "none", pc |-> "idle", seen |-> {}, genA |-> 0,
             method |-> 0, gen |-> 0, look |-> 0, retry |-> FALSE,
             prev |-> FALSE, start |-> 0]

Init ==
    /\ file = [g \in Gen |-> IF g = 1 THEN "whole" ELSE "none"]
    /\ genFile = 1
    /\ lockFile = FALSE
    /\ handle = [p \in Handle |-> Closed]
    /\ search = [p \in Handle |-> NoSearch]
    /\ newest = 1
    /\ mishaps = {}
    /\ faults = 0

Fault == faults < MaxFaults /\ faults' = faults + 1

File(g) == IF g \in Gen THEN file[g] ELSE "none"
Listed == {g \in Gen : file[g] # "none"}

At(p, pc) == handle[p].pc = pc
Goto(p, pc) == handle' = [handle EXCEPT ![p].pc = pc]
-----------------------------------------------------------------------------
(***************************************************************************)
(* The search.                                                             *)
(***************************************************************************)

Begin(p, goal) ==
    search' = [search EXCEPT ![p] =
        [NoSearch EXCEPT !.goal = goal, !.pc = "list", !.seen = Listed,
                         !.start = newest]]

End(p) == search' = [search EXCEPT ![p] = NoSearch]

Lost(s) == [NoSearch EXCEPT !.goal = s.goal, !.pc = "lost", !.start = s.start]

Found(s) ==
    [NoSearch EXCEPT !.goal = s.goal, !.pc = "found", !.start = s.start,
                     !.gen = IF s.prev THEN s.gen - 1 ELSE s.gen]

\* As Try, with no end of trying a generation again, for SearchEnds.
TryForever(s, gen) ==
    LET ahead == s.method = 1 \/ (s.gen = gen /\ s.retry)
        more  == ahead /\ s.look < Lookahead
        next  == IF more THEN gen + 1 ELSE gen
    IN  [s EXCEPT !.pc = "infos", !.seen = {}, !.genA = 0, !.prev = FALSE,
                  !.method = IF ahead THEN 1 ELSE 0,
                  !.look = IF more THEN s.look + 1 ELSE s.look,
                  !.gen = next,
                  !.retry = next = s.gen]

\* As Try, with no limit to the look ahead, for TypeOK.
TryFurther(s, gen) ==
    LET ahead == s.method = 1 \/ (s.gen = gen /\ s.retry)
        next  == IF ahead THEN gen + 1 ELSE gen
        again == next = s.gen
    IN  IF again /\ s.retry
        THEN Lost(s)
        ELSE [s EXCEPT !.pc = "infos", !.seen = {}, !.genA = 0, !.prev = FALSE,
                       !.method = IF ahead THEN 1 ELSE 0,
                       !.look = IF ahead THEN s.look + 1 ELSE s.look,
                       !.gen = next,
                       !.retry = again]

\* The look ahead, and the same generation tried once more but not twice.
Try(s, gen) ==
    LET ahead == s.method = 1 \/ (s.gen = gen /\ s.retry)
        more  == ahead /\ s.look < Lookahead
        next  == IF more THEN gen + 1 ELSE gen
        again == next = s.gen
    IN  IF again /\ s.retry
        THEN Lost(s)
        ELSE [s EXCEPT !.pc = "infos", !.seen = {}, !.genA = 0, !.prev = FALSE,
                       !.method = IF ahead THEN 1 ELSE 0,
                       !.look = IF more THEN s.look + 1 ELSE s.look,
                       !.gen = next,
                       !.retry = again]

Choose(s, genB) ==
    LET gen == IF s.genA > genB THEN s.genA ELSE genB
    IN  IF gen = 0 THEN Lost(s) ELSE Try(s, gen)

Again(s) ==
    IF s.method = 1
    THEN Try(s, s.gen)
    ELSE [s EXCEPT !.pc = "list", !.seen = Listed, !.prev = FALSE]

\* As Miss, without the commit before, for SearchFinds.
MissNoPrevious(s) == Again(s)

\* doBody failed: segments_(gen-1) is tried at the first failure for gen.  A
\* file that exists when doBody fails may be gone when it is tried.
Miss(s) ==
    IF ~s.prev /\ ~s.retry /\ s.gen > 1 /\ File(s.gen - 1) # "none"
    THEN [s EXCEPT !.pc = "infos", !.prev = TRUE]
    ELSE Again(s)

Tried(s) == File(IF s.prev THEN s.gen - 1 ELSE s.gen)

Searching(p, pc) == search[p].pc = pc

\* A listing is not atomic: files that are created or deleted meanwhile may be
\* in it or not.  genA is the highest of those that are.
List(p) ==
    LET s    == search[p]
        both == s.seen \cap Listed
    IN  /\ Searching(p, "list")
        /\ \E g \in s.seen \cup Listed \cup {0} :
              /\ \A h \in both : h <= g
              /\ search' = [search EXCEPT ![p].pc = "gen", ![p].genA = g,
                                          ![p].seen = {}]
        /\ UNCHANGED <<directory, handle, newest, mishaps, faults>>

\* segments.gen is read as often as defaultGenFileRetryCount says.  As long as
\* it is incomplete, every try may have been spent.
ReadGen(p) ==
    /\ Searching(p, "gen")
    /\ search' = [search EXCEPT ![p] = Choose(@, genFile)]
    /\ UNCHANGED <<directory, handle, newest, mishaps, faults>>

\* FindSegmentsVersion reads only the head of the file, which may be there
\* before the rest is.  Open and Reopen go on to open what the commit names.
ReadInfos(p) ==
    LET s == search[p]
        head == s.goal \in {"check", "current"}
        opens == s.goal \in {"open", "reopen"}
    IN  /\ Searching(p, "infos")
        /\ \/ /\ Tried(s) = "whole" \/ (head /\ Tried(s) = "torn")
              /\ search' = [search EXCEPT ![p] =
                     IF opens THEN [@ EXCEPT !.pc = "files"] ELSE Found(@)]
           \/ /\ Tried(s) # "whole"
              /\ search' = [search EXCEPT ![p] = Miss(@)]
        /\ UNCHANGED <<directory, handle, newest, mishaps, faults>>

OpenFiles(p) ==
    /\ Searching(p, "files")
    /\ search' = [search EXCEPT ![p] =
           IF Tried(@) = "whole" THEN Found(@) ELSE Miss(@)]
    /\ UNCHANGED <<directory, handle, newest, mishaps, faults>>

\* A search that nothing can be read in, for want of file descriptors say.
SearchFails(p) ==
    /\ search[p].pc \notin {"idle", "found", "lost", "failed"}
    /\ Fault
    /\ search' = [search EXCEPT ![p] = [Lost(@) EXCEPT !.pc = "failed"]]
    /\ UNCHANGED <<directory, handle, newest, mishaps>>

Concludes(p, goal) == search[p].goal = goal /\ search[p].pc = "found"
Fails(p, goal) == search[p].goal = goal /\ search[p].pc \in {"lost", "failed"}
-----------------------------------------------------------------------------
(***************************************************************************)
(* Readers: IndexReader::open and DirectoryIndexReader::reopen.            *)
(***************************************************************************)

Open(p) ==
    /\ At(p, "closed")
    /\ Goto(p, "search")
    /\ Begin(p, "open")
    /\ UNCHANGED <<directory, newest, mishaps, faults>>

Opened(p) ==
    /\ Concludes(p, "open")
    /\ handle' = [handle EXCEPT ![p] =
           [Closed EXCEPT !.pc = "open", !.gen = search[p].gen,
                          !.lastGen = search[p].gen]]
    /\ End(p)
    /\ UNCHANGED <<directory, newest, mishaps, faults>>

OpenFailed(p) ==
    /\ Fails(p, "open")
    /\ handle' = [handle EXCEPT ![p] = Closed]
    /\ End(p)
    /\ UNCHANGED <<directory, newest, mishaps, faults>>

\* A reader with changes of its own is returned as it is.
Reopen(p) ==
    /\ At(p, "open") /\ ~handle[p].hasChanges
    /\ Goto(p, "search")
    /\ Begin(p, "current")
    /\ UNCHANGED <<directory, newest, mishaps, faults>>

IsCurrent(p) ==
    /\ Concludes(p, "current")
    /\ IF search[p].gen = handle[p].gen
       THEN Goto(p, "open") /\ End(p)
       ELSE Begin(p, "reopen") /\ UNCHANGED handle
    /\ UNCHANGED <<directory, newest, mishaps, faults>>

Orphaned(p) == IF handle[p].holds = "yes" THEN {"orphaned"} ELSE {}

\* The reader that was reopened gives up its lock, but does not release it.
Reopened(p) ==
    /\ Concludes(p, "reopen")
    /\ handle' = [handle EXCEPT ![p] =
           [Closed EXCEPT !.pc = "open", !.gen = search[p].gen,
                          !.lastGen = search[p].gen]]
    /\ mishaps' = mishaps \cup Orphaned(p)
    /\ End(p)
    /\ UNCHANGED <<directory, newest, faults>>

ReopenFailed(p) ==
    /\ Fails(p, "current") \/ Fails(p, "reopen")
    /\ Goto(p, "open")
    /\ End(p)
    /\ UNCHANGED <<directory, newest, mishaps, faults>>
-----------------------------------------------------------------------------
(***************************************************************************)
(* Readers: deleteDocument, undeleteAll and setNorm, which have to have    *)
(* the write lock (acquireWriteLock).  A lock that is not obtained in time *)
(* changes nothing.                                                        *)
(***************************************************************************)

\* The reader has the lock: it is not checked again.
Change(p) ==
    /\ At(p, "open") /\ ~handle[p].stale /\ handle[p].holds = "yes"
    /\ ~handle[p].hasChanges
    /\ handle' = [handle EXCEPT ![p].hasChanges = TRUE]
    /\ UNCHANGED <<directory, search, newest, mishaps, faults>>

AcquireWriteLock(p) ==
    /\ At(p, "open") /\ ~handle[p].stale /\ handle[p].holds = "no"
    /\ ~lockFile
    /\ lockFile' = TRUE
    /\ handle' = [handle EXCEPT ![p].holds = "yes", ![p].pc = "search"]
    /\ Begin(p, "check")
    /\ UNCHANGED <<file, genFile, newest, mishaps, faults>>

\* As Checked, whatever version was read, for NoLostUpdate.
CheckedAnyVersion(p) ==
    /\ Concludes(p, "check")
    /\ handle' = [handle EXCEPT ![p].hasChanges = TRUE, ![p].pc = "open"]
    /\ End(p)
    /\ UNCHANGED <<directory, newest, mishaps, faults>>

Checked(p) ==
    /\ Concludes(p, "check")
    /\ search[p].gen <= handle[p].gen
    /\ handle' = [handle EXCEPT ![p].hasChanges = TRUE, ![p].pc = "open"]
    /\ End(p)
    /\ UNCHANGED <<directory, newest, mishaps, faults>>

\* The local variable writeLock, which is deleted, hides the member of that name.
Stale(p) ==
    /\ Concludes(p, "check")
    /\ search[p].gen > handle[p].gen
    /\ lockFile' = FALSE
    /\ handle' = [handle EXCEPT ![p].stale = TRUE, ![p].holds = "dangling",
                                ![p].pc = "open"]
    /\ End(p)
    /\ UNCHANGED <<file, genFile, newest, mishaps, faults>>

\* The exception of readCurrentVersion leaves the lock with the reader.
CheckFailed(p) ==
    /\ Fails(p, "check")
    /\ handle' = [handle EXCEPT ![p].unchecked = TRUE, ![p].pc = "open"]
    /\ End(p)
    /\ UNCHANGED <<directory, newest, mishaps, faults>>
-----------------------------------------------------------------------------
(***************************************************************************)
(* Commits: DirectoryIndexReader::doCommit, and the commits of a writer.   *)
(***************************************************************************)

Obtain(p) ==
    /\ At(p, "closed") /\ ~lockFile
    /\ lockFile' = TRUE
    /\ handle' = [handle EXCEPT ![p].holds = "yes", ![p].pc = "search"]
    /\ Begin(p, "read")
    /\ UNCHANGED <<file, genFile, newest, mishaps, faults>>

Read(p) ==
    /\ Concludes(p, "read")
    /\ handle' = [handle EXCEPT ![p].gen = search[p].gen,
                                ![p].lastGen = search[p].gen,
                                ![p].pc = "deleter"]
    /\ End(p)
    /\ UNCHANGED <<directory, newest, mishaps, faults>>

\* As ReadFailed, but the lock is not released after any error, for LockExact.
ReadFailedLocked(p) ==
    /\ Fails(p, "read")
    /\ handle' = [handle EXCEPT ![p] = Closed]
    /\ End(p)
    /\ UNCHANGED <<directory, newest, mishaps, faults>>

\* deinit releases the lock after an I/O error only: of a damaged commit the
\* error is another.
ReadFailed(p) ==
    /\ Fails(p, "read")
    /\ \/ lockFile' = FALSE /\ UNCHANGED mishaps
       \/ mishaps' = mishaps \cup Orphaned(p) /\ UNCHANGED lockFile
    /\ handle' = [handle EXCEPT ![p] = Closed]
    /\ End(p)
    /\ UNCHANGED <<file, genFile, newest, faults>>

Delete(gens) == [g \in Gen |-> IF g \in gens THEN "none" ELSE file[g]]
Before(g) == {h \in Gen : h < g /\ file[h] \in {"whole", "damaged"}}

Commit(p) ==
    /\ At(p, "open")
    /\ handle[p].gen < MaxGen
    /\ IF p \in Reader
       THEN handle[p].hasChanges /\ Goto(p, "deleter")
       ELSE Goto(p, "create")
    /\ UNCHANGED <<directory, search, newest, mishaps, faults>>

\* A reader that was never checked deletes the commits after its own.
Reverted(p) ==
    IF handle[p].unchecked /\ handle[p].lastGen < newest THEN {"reverted"} ELSE {}

\* IndexFileDeleter's constructor: it deletes what no commit up to the current
\* one names, and the commits the policy gives up: the older ones or none.
Deleter(p) ==
    LET last   == handle[p].lastGen
        unused == {g \in Gen : g > last \/ file[g] = "torn"}
    IN  /\ At(p, "deleter") /\ file[last] = "whole"
        /\ \E old \in {Before(last), {}} : file' = Delete(unused \cup old)
        /\ Goto(p, IF p \in Reader THEN "create" ELSE "open")
        /\ mishaps' = mishaps \cup Reverted(p)
        /\ UNCHANGED <<genFile, lockFile, search, newest, faults>>

\* "failed to locate current segments_N file": of this error the writer that
\* is being opened releases no lock (deinit).
DeleterFails(p) ==
    /\ At(p, "deleter") /\ file[handle[p].lastGen] # "whole"
    /\ IF p \in Reader
       THEN Goto(p, "open") /\ UNCHANGED mishaps
       ELSE /\ handle' = [handle EXCEPT ![p] = Closed]
            /\ mishaps' = mishaps \cup Orphaned(p)
    /\ UNCHANGED <<directory, search, newest, faults>>

\* SegmentInfos::write, in four steps: segments_N is created, written and
\* closed, and then segments.gen is.
Create(p) ==
    /\ At(p, "create")
    /\ file' = [file EXCEPT ![handle[p].gen + 1] = "torn"]
    /\ handle' = [handle EXCEPT ![p].gen = @ + 1, ![p].pc = "fill"]
    /\ UNCHANGED <<genFile, lockFile, search, newest, mishaps, faults>>

Fill(p) ==
    /\ At(p, "fill")
    /\ file' = [file EXCEPT ![handle[p].gen] = "whole"]
    /\ newest' = handle[p].gen
    /\ Goto(p, "tear")
    /\ UNCHANGED <<genFile, lockFile, search, mishaps, faults>>

\* The file that was closed after a failed write stays.  When it is closing that
\* fails, write deletes the file.  (FSIndexOutput::close ignores an I/O error,
\* but the destructor throws, its buffer not being flushed; in a build where
\* destructors may not, the process ends: Crash.)
FillFails(p) ==
    /\ At(p, "fill")
    /\ Fault
    /\ file' \in {file, Delete({handle[p].gen})}
    /\ Goto(p, "undo")
    /\ UNCHANGED <<genFile, lockFile, search, newest, mishaps>>

\* IndexFileDeleter::refresh for a reader, deletePartialSegmentsFile for a
\* writer; the lock is kept, and so is the generation in memory: the next commit
\* does not follow the last one.
Undo(p) ==
    /\ At(p, "undo")
    /\ file' = Delete({handle[p].gen})
    /\ Goto(p, "open")
    /\ mishaps' = mishaps \cup {"skipped"}
    /\ UNCHANGED <<genFile, lockFile, search, newest, faults>>

TearGen(p) ==
    /\ At(p, "tear")
    /\ genFile' = 0
    /\ Goto(p, "gen")
    /\ UNCHANGED <<file, lockFile, search, newest, mishaps, faults>>

\* That segments.gen cannot be written does not matter.
WriteGen(p) ==
    /\ At(p, "gen")
    /\ \/ genFile' = handle[p].gen /\ UNCHANGED faults
       \/ Fault /\ UNCHANGED genFile
    /\ handle' = [handle EXCEPT ![p].lastGen = handle[p].gen, ![p].pc = "checkpoint"]
    /\ UNCHANGED <<file, lockFile, search, newest, mishaps>>

Checkpoint(p) ==
    /\ At(p, "checkpoint")
    /\ \E old \in {Before(handle[p].gen), {}} : file' = Delete(old)
    /\ Goto(p, IF p \in Reader THEN "release" ELSE "open")
    /\ UNCHANGED <<genFile, lockFile, search, newest, mishaps, faults>>

Release(p) ==
    /\ At(p, "release")
    /\ lockFile' = FALSE
    /\ handle' = [handle EXCEPT ![p].holds = "no", ![p].unchecked = FALSE,
                                ![p].hasChanges = FALSE, ![p].pc = "open"]
    /\ UNCHANGED <<file, genFile, search, newest, mishaps, faults>>
-----------------------------------------------------------------------------
(***************************************************************************)
(* The end of a reader or a writer.                                        *)
(***************************************************************************)

\* IndexWriter::close, and the destructors.
Close(p) ==
    /\ At(p, "open") /\ handle[p].holds # "dangling"
    /\ lockFile' = (lockFile /\ handle[p].holds = "no")
    /\ handle' = [handle EXCEPT ![p] = Closed]
    /\ UNCHANGED <<file, genFile, search, newest, mishaps, faults>>

Die(p) ==
    /\ handle' = [handle EXCEPT ![p] = Closed]
    /\ End(p)
    /\ mishaps' = mishaps \cup Orphaned(p)

\* The destructor of a reader that was found stale releases a lock object that
\* was freed: the process ends, or the object that has the memory now is
\* released, which may be the lock of another.
CloseStale(p) ==
    /\ At(p, "open") /\ handle[p].holds = "dangling"
    /\ \/ Die(p) /\ UNCHANGED lockFile
       \/ /\ lockFile
          /\ lockFile' = FALSE
          /\ handle' = [handle EXCEPT ![p] = Closed]
          /\ mishaps' = mishaps \cup {"released"}
          /\ UNCHANGED search
    /\ UNCHANGED <<file, genFile, newest, faults>>

Crash(p) ==
    /\ ~At(p, "closed")
    /\ Fault
    /\ Die(p)
    /\ UNCHANGED <<directory, newest>>

\* IndexReader::unlock, used as it says: when it is known that no one has the
\* index locked.
Unlock ==
    /\ lockFile
    /\ \A p \in Handle : handle[p].holds # "yes"
    /\ lockFile' = FALSE
    /\ mishaps' = mishaps \ {"orphaned"}
    /\ UNCHANGED <<file, genFile, handle, search, newest, faults>>

\* External: a commit that cannot be read any more.
Damage ==
    /\ file[newest] = "whole"
    /\ Fault
    /\ file' = [file EXCEPT ![newest] = "damaged"]
    /\ mishaps' = mishaps \cup {"damaged"}
    /\ UNCHANGED <<genFile, lockFile, handle, search, newest>>
-----------------------------------------------------------------------------
SearchStep(p) ==
    \/ List(p) \/ ReadGen(p) \/ ReadInfos(p) \/ OpenFiles(p)
    \/ Opened(p) \/ OpenFailed(p) \/ IsCurrent(p) \/ Reopened(p) \/ ReopenFailed(p)
    \/ Checked(p) \/ Stale(p) \/ CheckFailed(p) \/ Read(p) \/ ReadFailed(p)

ReaderStep(p) ==
    \/ Open(p) \/ Reopen(p) \/ Change(p) \/ AcquireWriteLock(p)
    \/ Release(p) \/ CloseStale(p)

CommitStep(p) ==
    \/ Commit(p) \/ Deleter(p) \/ DeleterFails(p) \/ Create(p) \/ Fill(p)
    \/ FillFails(p) \/ Undo(p) \/ TearGen(p) \/ WriteGen(p) \/ Checkpoint(p)

Next ==
    \/ \E p \in Handle : SearchStep(p) \/ SearchFails(p) \/ CommitStep(p)
                         \/ Close(p) \/ Crash(p)
    \/ \E p \in Reader : ReaderStep(p)
    \/ \E p \in Writer : Obtain(p)
    \/ Unlock
    \/ Damage

\* A search waits for no one; it runs in the thread that called it.
Fairness == \A p \in Handle : WF_vars(SearchStep(p))

Spec == Init /\ [][Next]_vars /\ Fairness
-----------------------------------------------------------------------------
(***************************************************************************)
(* Properties.                                                             *)
(***************************************************************************)

\* The types of the variables.
TypeOK ==
    /\ file \in [Gen -> {"none", "torn", "whole", "damaged"}]
    /\ genFile \in {0} \cup Gen
    /\ lockFile \in BOOLEAN
    /\ handle \in [Handle -> [
           pc : {"closed", "search", "open", "deleter", "create", "fill", "undo",
                 "tear", "gen", "checkpoint", "release"},
           gen : {0} \cup Gen, lastGen : {0} \cup Gen, hasChanges : BOOLEAN,
           stale : BOOLEAN, holds : {"no", "yes", "dangling"}, unchecked : BOOLEAN]]
    /\ search \in [Handle -> [
           goal : {"none", "open", "current", "reopen", "check", "read"},
           pc : {"idle", "list", "gen", "infos", "files", "found", "lost", "failed"},
           seen : SUBSET Gen, genA : {0} \cup Gen, method : {0, 1},
           gen : 0 .. MaxGen + Lookahead, look : 0 .. Lookahead,
           retry : BOOLEAN, prev : BOOLEAN, start : {0} \cup Gen]]
    /\ newest \in Gen
    /\ mishaps \subseteq {"orphaned", "released", "damaged", "skipped", "reverted"}
    /\ faults \in 0 .. MaxFaults

\* What IndexReader::open, reopen, isCurrent, the check for staleness and a
\* writer that is opened find is no older than the last commit there was when
\* they began to look, whatever is written and deleted meanwhile; and an index
\* that no commit was made to meanwhile is found.  It may not be found when the
\* commit after a failed one, which skips a generation, is not complete.  Nor
\* does it hold once a reader that could not check whether it is stale has
\* deleted later commits.
SearchFinds ==
    mishaps \cap {"damaged", "released", "reverted"} = {} =>
        \A p \in Handle :
            /\ search[p].pc = "found" => search[p].gen >= search[p].start
            /\ search[p].pc = "lost" => newest > search[p].start \/ "skipped" \in mishaps

\* The write lock is exact: one reader or writer has it at a time, the file
\* exists while one has it, and only as long, but for the locks that a crash,
\* an error other than an I/O error, or a reopened reader leave behind.  A
\* reader that was found stale may release the lock of another.
LockExact ==
    "released" \notin mishaps =>
        LET holders == {p \in Handle : handle[p].holds = "yes"}
        IN  /\ Cardinality(holders) <= 1
            /\ holders # {} => lockFile
            /\ lockFile => holders # {} \/ "orphaned" \in mishaps

\* No update is lost: a reader or writer that commits has read the last commit
\* there is, unless a reader whose check for staleness failed deleted it.
NoLostUpdate ==
    [][\A p \in Handle :
          (At(p, "fill") /\ handle'[p].pc = "tear") =>
              \/ handle[p].lastGen = newest
              \/ mishaps \cap {"released", "damaged", "reverted"} # {}]_vars

\* A search ends, with a commit or an error, also when the commit is damaged or
\* segments.gen never gets complete (given that commits end).
SearchEnds ==
    \A p \in Handle : At(p, "search") ~> ~At(p, "search")
=============================================================================
