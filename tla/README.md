# TLA+ models of CLucene

Models, model-checking configurations and machine-checked proofs for CLucene,
a C++ port of Lucene 2.3. Source paths below are relative to
`src/src/core/CLucene/` unless they start with `src/`.

    tlc -workers 2 -config IndexWriterAuto.cfg MCIndexWriter.tla
    tlapm DocumentsWriter_proofs.tla

`PROJECT.json` lists runs, theorems, the hazards of the code with the
properties that cover them, and which lines every definition stands for.

## 1. The system

An index is a directory of write-once files. A *segment* is a set of files
with a common name (`_7.fdt`, `_7.cfs`, ...); `segments_N` lists the segments
of one *commit*. There is no log: a commit is made by writing a whole new
`segments_N`, and recovery is finding the newest one that can be read.

| component | state | operations | talks to |
|---|---|---|---|
| `IndexWriter` (`index/IndexWriter.cpp`) | `segmentInfos`, `rollbackSegmentInfos`, `commitPending`, `closed`/`closing`, pending and running merges, merge exceptions, local transaction | init, add/delete/update document, flush, merge, optimize, addIndexes, close, abort | everything below; one monitor (`THIS_LOCK`) |
| `SegmentInfos` (`index/SegmentInfos.cpp`) | the list, `generation`, `lastGeneration`, `counter` | read, write, find the current `segments_N` | Directory |
| `IndexFileDeleter` (`index/IndexFileDeleter.cpp`) | a count per file, commit points, `lastFiles`, `deletable` | constructor, checkpoint, incRef, decRef, refresh, deleteFiles, deleteNewFiles, close | IndexDeletionPolicy, Directory |
| `DocumentsWriter` (`index/DocumentsWriter*.cpp`) | buffered documents and delete terms, segment and doc store names, thread states, waiting line, `flushPending`, `pauseThreads`, `aborting` | updateDocument, bufferDeleteTerm, flush, closeDocStore, abort, pause/resume | called by IndexWriter; own lock; takes segment names from it |
| merge policies, schedulers (`index/Merge*.cpp`) | none; a thread | findMerges, merge | IndexWriter |
| `SegmentMerger` (`index/SegmentMerger.cpp`) | none beyond a merge | merge, createCompoundFile | segment readers, Directory |
| readers (`index/*Reader.cpp`) | deletions, norms with reference counts, write lock, `stale` | open, reopen, deleteDocument, setNorm, commit, close | SegmentInfos, IndexFileDeleter, Lock |
| `Lock` (`store/Lock*.cpp`) | a file or an entry of a set | obtain, release | Directory |
| `Directory`, streams (`store/`) | files; positions and buffers | list, create, delete, rename; read, write, seek | - |
| search (`search/`) | iterator positions | next, skipTo, score | readers |
| utilities (`util/`) | heap, bits | insert, pop; set, get, count | - |

**Interaction.** A call of `addDocument` gets a thread state under
DocumentsWriter's lock, writes into it without a lock, and flushes under the
writer's monitor when the buffer is full. A flush or a merge changes
`segmentInfos`, writes `segments_N` (with autoCommit) and then calls
`IndexFileDeleter::checkpoint`, which removes what the old commit alone used.
A merge copies its source segments under the monitor, works without any lock,
and replaces them under the monitor. `close` and `abort` flush or discard the
buffer, wait for or stop merges, and write the last `segments_N`.

**Where it is hard.** (a) Between any two file operations the process may
die or an I/O error be thrown, and each error path must undo what was done to
`segmentInfos`, to the counts and to the directory. (b) During a merge
documents are deleted from its sources, doc stores it shares become compound
files, and the writer is closed or aborted. (c) Doc stores are shared by
segments and by the buffer, and outlive both. (d) A delete that the file
system refuses is retried later by name. (e) With `autoCommit = false` the
files of a long session are referenced by nothing on disk. (f) Files left by a
crash have names the next session hands out again. (g) Every thread may be
waiting: for merges, for thread states, for another thread's close.

**What makes each component correct.**
IndexFileDeleter: counts are exact, referenced files exist, the newest commit
always has its files. IndexWriter: a reader sees whole flushes (autoCommit) or
whole sessions (otherwise), no document is lost, duplicated or resurrected,
failures undo themselves, nothing leaks. SegmentInfos: a commit that exists is
found. DocumentsWriter: documents come out in the order of their ids, no two
threads wait for each other. Readers: one writer at a time, a stale reader
never overwrites. Search: iterators agree with set operations.

## 2. Modules

| module | models | kind |
|---|---|---|
| `IndexFileDeleter` | the deleter and its directory, for **any** client that keeps the contract in the guards | component |
| `IndexFileDeleter_proofs` | its safety properties for all constants | proofs |
| `IndexCommits` | what a writer promises about documents; no files, no segments | abstract specification |
| `IndexWriter` | IndexWriter with SegmentInfos, what it sees of DocumentsWriter, and IndexFileDeleter as an instance | composition |
| `IndexWriter_proofs` | types, merges and documents of its segments, for all constants | proofs |
| `IndexWriterFiles_proofs` | the invariant of its files and of the deleter it drives, lemmas about the deleter's effects, and the first half of the steps | proofs |
| `IndexWriterSafety_proofs` | the other steps; the deleter's contract, files, names, for all constants | proofs |
| `IndexWriterRefinement_proofs` | that it implements `IndexCommits`, and what `abort` keeps, for all constants | proofs |
| `BufferedDocuments` | what threads that add, update, delete and flush are promised, call by call | abstract specification |
| `DocumentsWriter` | thread states, docIDs, the waiting line, buffered deletes, pause, flush, abort, close | component |
| `DocumentsWriter_proofs` | its safety properties and that it implements `BufferedDocuments` | proofs |
| `LogMergePolicy` | which segments are merged, as operators on their sizes | algorithm |
| `MergeRegistry` | the threads of one writer and the merges they register, run, await and stop | composition with LogMergePolicy |
| `MergeRegistry_proofs` | its safety properties for all constants and any policy | proofs |
| `IndexReaders` | readers and writers of one directory: finding the newest commit, the write lock, commits | composition |
| `IndexReaders_proofs` | its safety properties for any number of readers and writers | proofs |
| `MC...` | small instances for TLC | checking |

An operator under a comment that starts with "Seeded fault" is not part of the
model: it is the version of the definition after it that a plausible mistake
in the code would give. Putting it in the place of the real one must break the
property that `PROJECT.json` lists with it; all of them do.

### IndexFileDeleter

`refCounts`, `commits`, `last`, `deletable` are the members of the class.
`held` records what the writer took by hand with `incRef`. `dir` is the
directory; `stored[g]` what `segments_g` contained when last written, and
whether it was written completely. Every entry point is one action, made of
an *effect* (what the method does to memory and directory) and a *guard* (what
its caller must ensure). The methods run under the writer's monitor, so one
step each is right, except for a crash, which `CrashInCheckpoint` lets happen
after any subset of the deletions of a checkpoint. The constructor's
`getRefCount` leaves entries with count 0 and they are kept (see finding 3).
The deletion policy is the default one or, with `KeepAll`, one that deletes
nothing.

### IndexWriter

`op` is the operation that holds the monitor: the list of steps it still has
to take (`todo`), the segments to go back to (`undo`) and the steps of its error
path (`onFail`). One step is one change of the directory, and between two of
them there may be a crash, an I/O error, a document added or deleted (which
takes DocumentsWriter's lock only) or a step of a merge (which takes none).
`infos`, `gen`, `lastGen`, `counter`, `commitPending`, `rollback` are the
members of IndexWriter and SegmentInfos. `buf` is DocumentsWriter: buffered
documents and delete terms, the name of the segment being filled, the name of
the open doc stores. `merge` is the running merge with its stage. `pausing` is
`pauseAllThreads`.

A file is a kind, a segment and a generation: `core` for what a flush or a
merge writes together (postings, norms, field infos), `store` for stored fields
and vectors, `cfs`/`cfx` for the compound files, `del` for deletions.

| code | actions |
|---|---|
| `init` | `Open`, `Create`, `ConstructDeleter` |
| `addDocument` | `AddDoc`, `AddDocFails` then `DeleteNewFiles` |
| `deleteDocuments(Term)` | `DeleteDoc` |
| `flush`, `doFlush`, `flushDocStores`, `applyDeletes` | `Flush`, `FlushDocStores`, `FlushSegment`, `FlushFails`, `FlushCompound`, `FlushCompoundFails` |
| `SegmentInfos::write` | `StartWrite`, `FinishWrite`, `WriteFails` |
| `deleter->...` | `DeleterCheckpoint`, `DeletePartial`, `DeleteFiles`, `DeleteNewFiles`, `Refresh` |
| `merge`, `_mergeInit`, `mergeMiddle`, `commitMerge`, `mergeFinish` | `MergeInit`, `MergeBind`, `MergeBuild`, `MergeFails`, `CommitMergeAborted`, `MergeDeletesFail`, `CommitMerge`, `MergeRelease`, `Merged`, `MergeCompound`, `MergeCompoundFails`, `CommitCompound` |
| `close`, `closeInternal` | `Close`, `StopMerges`, `CloseCommit`, `CloseDeleter`, `Throw` |
| `abort` | `Abort`, `StopMerges`, `AbortRollback`, `AbortClose` |
| the process, a reader | `Crash`, `OpenReader`, `CloseReader` |

### DocumentsWriter and BufferedDocuments

`IndexWriter` sees the buffer as one value that changes in one step. Here it is
the work of threads. `call[t]` is the call a thread is in and how far it is;
`threadStates`, `threadBindings`, `nextDocID`, `numDocsInRAM`, `nextWriteDocID`,
`pauseThreads`, `flushPending`, `bufferIsFull`, `abortCount` and the buffered
deletes are the members of the class, `line` is `waitingThreadStates`. `ram`
and `stored` say which document is in which place of the postings and of the
doc stores. `asleep` is who waits on the condition variable; a thread that is
notified tests its condition again in a step of its own. A *critical section*
is one step; a document takes four of them, and others get in between.

| code | actions |
|---|---|
| `getThreadState` | `Enter`, `Awake`, `InitFails` |
| `processDocument`, `balanceRAM` | `ProcessFails`, `BalanceRAM` |
| `finishDocument`, `writeDocument` | `FinishTurn`, `FinishInLine`, `FinishAborting`, `FinishWriteFails` |
| the rest of `updateDocument` | `Failed`, `Finished`, `Cleanup` |
| `bufferDeleteTerm` | `Delete`, `AwakeDelete` |
| `doFlush`: `pauseAllThreads`, `hasDeletes`, `flush`, `applyDeletes`, `clearBufferedDeletes`, `resumeAllThreads` | `FlushCall`, `Pause`, `AwakePause`, `AskDeletes`, `FlushSegment`, `FlushFails`, `ApplyDeletes`, `ClearBufferedDeletes`, `Resume` |
| `abort` | `AbortCall`, `Abort` |
| `close` | `CloseCall` |

`CloseCall` is `closeInternal` up to its flush: `close()` of the buffer and
`doFlush`. All documents have the same term, so that an update or a delete
concerns every document before it. A flush runs under the writer's monitor as a whole,
but takes DocumentsWriter's lock several times: to ask `hasDeletes`, to flush, to
drop the buffered deletes; the deletes are applied in between without it. Each
is a step, because the failure of a document is handled under that lock only and
may come between any two. `applied` is what the index will hold once the deletes
that `ApplyDeletes` read are committed.

`BufferedDocuments` has two sets, the documents that are live and those of them
that are on disk, and one atomic action per call.

### LogMergePolicy and MergeRegistry

`LogMergePolicy` is `findMerges` and `findMergesForOptimize` on a sequence of
sizes. Levels are compared without logarithms: `a` is in the level of `m` when
`a^4 * F^3 >= m^4`, which is `log a >= log m - 3/4` in base F (`LEVEL_LOG_SPAN`).
The code compares 32-bit floats; sizes whose exact levels differ by a rounding
error only are not told apart there.

`MergeRegistry` gives it the segments of an index that threads flush into.
`pendingMerges`, `runningMerges`, `mergingSegments`, `mergeExceptions`,
`mergeGen`, `segmentsToOptimize`, `stopMerges`, `closing` are the members of
IndexWriter; `life` is how far `closeInternal` got. `info` gives a segment the set of
its documents and of those that are deleted, so that sizes are cardinalities. `call[t].todo` is
the list of steps a thread still has to take. The only scheduler there is,
`SerialMergeScheduler`, runs merges in the thread that asks for them, with a
lock of its own, `scheduler`.

| code | actions |
|---|---|
| `flush`, `doFlush` | `CallFlush`, `Flush`, `FlushNothing`, `FlushClosed` |
| `optimize`, `optimizeMergesPending` | `CallOptimize`, `Mark`, `SelectOptimize`, `Await`, `AwaitPastEnd`, `Awoken`, `AwokenToFailure`, `AwokenToFreed` |
| `maybeMerge`, `updatePendingMerges`, `registerMerge` | `CallMaybeMerge`, `Select`, `SelectOptimize` |
| `SerialMergeScheduler::merge`, `getNextMerge` | `GetNextMerge`, `NoNextMerge` |
| `mergeInit`, `commitMerge`, `mergeFinish`, the ends of `merge` | `MergeInit`, `MergeInitClosed`, `MergeInitFails`, `CommitMerge`, `CommitMergeFails`, `MergeFails`, `MergeEnded`, `MergeFailed` |
| `addMergeException` | `MergeFails`, `MergeFailed`, `ExceptionsLoop` |
| `close`, `waitForClose`, `closeInternal`, `finishMerges` | `CallClose`, `WaitForClose`, `FinishMerges`, `StopMerges`, `StopMergesPastEnd`, `Shut`, `ShutFails`, `Closed` |
| `abort` | `CallAbort`, `Rollback` |

`halted` is a process that loops for ever with the monitor or does what C++
leaves undefined: the code has several ways to get there (section 4), the model
follows each up to that point and no further.

### IndexReaders

Several *handles*, readers and writers, of one directory. A commit is reduced to
`segments_N`, which stands for the files it names: missing, incomplete, whole or
damaged. `search[p]` is the local state of `_FindSegmentsFile::doRun`: `gen`, the
look-ahead, `retry`, whether the previous generation is tried. `handle[p]` is
where a handle is and what it knows: `gen` and `lastGen` of its SegmentInfos,
`hasChanges`, `stale`, and what its `writeLock` points to.

| code | actions |
|---|---|
| `doRun`, `FindSegmentsRead`, `FindSegmentsVersion` | `List`, `ReadGen`, `ReadInfos`, `OpenFiles`, `SearchFails` |
| `open`, `reopen`, `isCurrent` | `Open`, `Opened`, `OpenFailed`, `Reopen`, `IsCurrent`, `Reopened`, `ReopenFailed` |
| `deleteDocument`, `setNorm`, `undeleteAll`: `acquireWriteLock` | `Change`, `AcquireWriteLock`, `Checked`, `Stale`, `CheckFailed` |
| `doCommit`, and the commits of a writer | `Commit`, `Deleter`, `DeleterFails`, `Create`, `Fill`, `FillFails`, `TearGen`, `WriteGen`, `Checkpoint`, `Undo`, `Release` |
| `IndexWriter::init` | `Obtain`, `Read`, `ReadFailed`, `Deleter`, `DeleterFails` |
| `close`, the destructors, `unlock` | `Close`, `CloseStale`, `Unlock` |
| the world | `Crash`, `Damage` |

One goal of a search is one caller of it: `open`, `reopen`, `current` (isCurrent),
`check` (for staleness), `read` (a writer that opens).

### Simplifications

`IndexWriter`:

- One merge at a time, of two adjacent segments chosen in any way (so the
  policy does not matter); which merges there are is `MergeRegistry`. The path of
  `mergeMiddle` for a segment merged away by another merge cannot be reached with
  one merge, which is all that `SerialMergeScheduler` runs.
- Each document has a term of its own and comes back only after it is gone.
- A failed document is an aborting exception (the buffer is given up), in one
  step at the point where the thread gets the monitor; one that only loses its
  own document, and the steps in between, are in `DocumentsWriter`.
- A flush with deletes buffered that fails has `assert(false)` in its error path
  (`index/IndexWriter.cpp:1479`). A build with assertions ends there, which is a
  `Crash`; without them (the Release configurations define `NDEBUG`) the
  rollback runs, and is modelled: the list of segments is put back and the
  deletions files just written are removed (`Unflush`). That rollback deletes the
  SegmentInfo objects, also those a merge points to; with a merge registered what
  follows is undefined and left out (`die`). So is an `applyDeletes`
  that fails half way.
- A failed flush inside `_mergeInit`, whose merge is finished twice, fails an
  assertion and is left to `Crash`.
- The failure of the doc stores' compound file (`IndexWriter.cpp:629`) is
  left out: `closeDocStore` has freed the vector of files the error path then
  uses, which is undefined behaviour. So is the race on that vector in
  `checkpoint` (`IndexFileDeleter.cpp:414`).
- A rollback replaces SegmentInfo objects by clones; segments are told apart
  by name here, as `commitMerge` compares segments.

`DocumentsWriter`:

- The segment is flushed or not as a whole; that the commit after it fails is in
  `IndexWriter` only. What happens to a flush that fails with deletes buffered
  is that of a build without assertions, as above.
- `applyDeletesSelectively` reads the buffered deletes without the lock, while
  a failed document may be marked. The reads are taken to be at one moment, that
  of `ApplyDeletes`, and the commit of the result to be at the next step.
- The bytes in use (`numBytesUsed`) are not counted, so `ClearBufferedDeletes`
  may or may not reset the postings.
- Terms are counted, not weighed: the bytes they take, which also set
  `bufferIsFull`, are represented by `MaxBufferedDeleteTerms`. `BalanceRAM` may
  find the buffer full during any document.
- `waitingThreadStates` is a set. The sweep compacts it while it walks it, but
  the order in which it finds states does not matter to what it writes.
- A document that fails and is marked too late (finding 4) is recorded in
  `overtaken`; the properties about single documents end there. Too late is: the
  document is no longer in the buffer, or its thread state is somebody else's by
  now; or it is still there, but the flush that has begun was told by `hasDeletes`
  that there are no deletes (`TakenAsLive`).

`MergeRegistry`:

- A flush brings at most one segment of one document; sizes grow by merging.
- The writer was opened with `autoCommit = false` as far as `abort` goes: with
  `autoCommit` `abort` throws at once.
- Release builds define `NDEBUG`: assertions such as
  `assert(0 == mergingSegments->size())` do nothing.
- `checkAborted` finds nothing: with a serial scheduler the thread that stops
  merges cannot do so while one runs without undefined behaviour first.

`IndexReaders`:

- A listing of a directory is not atomic; deleting the files of one commit is.
- The version in `segments_N` rises with the generation, so one number stands
  for both.
- The policy gives up all older commits or none, at each commit.
- When `segments_N` cannot be written for lack of space, `FSIndexOutput::close`
  ignores the error, but the destructor of its buffer then throws
  (`store/IndexOutput.cpp:32`). `write` removes the file and fails, which is
  `FillFails`; where destructors may not throw the process ends, a `Crash`.
- A writer that creates an index (`clearLock`), `SingleInstanceLock` and
  `NoLock` are left out. A lock that is not obtained in time changes nothing.

## 3. What is checked

| run | instance | properties | shows |
|---|---|---|---|
| `deleter` | 2 data files, 3 generations, any delete refused, crashes anywhere | `TypeOK`, `RefCountExact`, `Protected`, `PendingUnreferenced`, `NewestCommitIntact`, `CommitsAdvance` | whatever a client within the contract does, counts are exact, the newest commit keeps its files and no step goes back to an older one |
| `auto` | autoCommit, compound files, 2 documents, 3 segments, 6 generations, 1 failure | `TypeOK`, `SegmentFilesExist`, `NothingLeaks`, `CommitFound`, `DeleterContract`, `Refinement` | the writer implements `IndexCommits` and keeps the deleter's contract, with a crash or an error at any point |
| `concurrent` | 3 documents, 4 segments, 5 generations, no failure | `MergeSourcesStay`, `DocsOnce`, `Refinement` | documents added, flushed and deleted while a merge runs are neither lost, duplicated nor resurrected |
| `manual` | autoCommit off, compound files, 2 documents, 3 segments, 3 generations, 1 failure | `NothingLeaks`, `Refinement`, `AbortKeepsIndex` | nothing shows before `close`, `close` loses nothing, a crash leaves the index as it was, and so does `abort` when no other thread uses the writer |
| `pins` | a reader whose files cannot be deleted, 1 failure | `NamesFresh`, `DeleterContract` | refused deletes are retried and never hit a file that has the name now |
| `abort_race` | a thread goes on adding during `abort` | `AbortKeepsIndex` **violated** | finding 1; what `manual` shows is lost |
| `gap` | a failed commit, a second one, a crash | `CommitFound` **violated** | finding 2 |
| `leak` | a crash, then a failed document | `NothingLeaks` **violated** | finding 3 |
| `documents` | 2 threads, 3 documents, buffers of 2, 1 delete, flush or abort, 1 failure | `TypeOK`, `StoredInOrder`, `TurnComes`, `NeverMoreThanN`, `AllOrNone`, `ClosedHoldsNothing`, `Linearizable`, `CallsReturn` | documents reach the doc stores in order, deletes reach exactly what was there before them, a closed writer holds nothing back, and every call returns |
| `merges` | 2 threads, 2 or 3 segments, 1 flush, 1 delete, 2 calls, 2 failures | `TypeOK`, `MergesApart`, `MergingExact`, `PendingServed`, `MergedDown`, `OptimizedDown`, `CallsReturn` | no segment is in two merges or blocked for ever, no pending merge is forgotten, `optimize` does what it promises, and every call returns |
| `readers` | 1 reader, 1 writer, look-ahead 1, 3 generations, 1 failure | `TypeOK`, `SearchFinds`, `LockExact`, `NoLostUpdate`, `SearchEnds` | a search finds a commit no older than when it began and ends, the lock is exact, nobody overwrites what it has not read |
| `late_mark` | 2 threads, 1 document, 1 failure | `FailedNeverLive` **violated** | finding 4 |

`SegmentFilesExist` and `NamesFresh` each have one run, as §5 proves them for
every setting without `Pins` and `Overlap`, shared doc stores included.

`Refinement` is `IndexCommits!Spec` under this mapping: `committed` is the
live documents of the newest commit that can be read, `working` those of
`segmentInfos`, and every step of a flush, merge, close or recovery is either
one step of `IndexCommits` or none. `CommittedDocs` is taken over all
commits, so that "a commit nobody finds" is the separate property `CommitFound`.

`DeleterContract` says that every step of the writer is an action of
`IndexFileDeleter` **with its guard** or leaves the deleter and the directory
alone. It names the arguments each action must have instead of quantifying
over all of them; as these are files, vectors of files and sets of files, each
disjunct is a disjunct of `IndexFileDeleter!Next` for `FileSets = SUBSET File`,
`Vectors = Seq(File)` and `Owner = {"merge"}`. The theorems below hold for
these constants, so what they say holds for this writer in the instances
the run covers.

`Linearizable` is `BufferedDocuments` under this mapping: on disk are the
documents of flushed segments, live are those and the ones in RAM, less what
buffered deletes will remove. Each critical section is one abstract call or
none. `CallsReturn` of `documents` includes that nobody waits for a line that
does not move (`TurnComes` says why) and that a flush that is pending is done.

**Bounds.** `MaxSeg` names, `MaxGen` generations and `MaxFaults` failures, all
in guards. Three names are two flushed segments and their merge; four let
a flush and a merge overlap with a further segment. Six generations are the
creation, two flushes with compound files, a merge and its compound file, with
room for a failed write. One failure can come between any two steps, and
recovery from it, or from a crash, is followed to the end, over sessions as the
bounds allow. Two documents give every combination of a document in the first,
second or merged segment, in the buffer, or deleted; the third in `concurrent`
is there for documents added during a merge. Two failures in one session reach
findings 2 and 3, so those runs have two. In particular `CommitFound` in `auto`
and `NothingLeaks` in `auto` and `manual` are shown for **one** failure and
are false for two.

`documents`: two threads make every pair of critical sections meet; three
documents fill a buffer of two and start the next, so that documents wait for
a flush, in line, and for a thread state; with two thread states and two
threads each finds one of its own, and they share one when a flush forgets the
bindings while a thread waits. `merges`: the index `<<2, 1>>` is one that merge factor 2 leaves alone
until a flush makes a cascade of two merges possible, and `<<1, 1, 1>>` has two
merges of which one waits; two calls, at once or one after the other, are
enough for a choice of merges while another thread merges. Two failures reach
the second entry of `mergeExceptions`. `readers`: three generations are a
commit, the next and one more, so that a search is overtaken twice; the
look-ahead of 1 (10 in the code) is used up and the retry comes after it; the theorems
hold for any.

`CHECK_DEADLOCK FALSE` is set where a name, a generation or the number of calls
beyond the bounds ends a behaviour; `deleter` has none of this and checks
deadlock. That threads do not wait for each other is in `CallsReturn`, which
is stronger.

**Fairness.** `WF_vars(Step(t))` for each thread in `documents` and `merges`: a
thread that is in a call and not asleep is scheduled in the end. This is what
the operating system does; whoever waits on a condition variable gets no help
from it and has to be notified. A thread in its own code need never call, and
no failure has to happen. `WF_vars(SearchStep(p))` in `readers`: a search waits
for nobody. A commit that has begun need not go on, so a search ends beside a
writer that stopped in the middle. Two things the bounds hide: an endless
stream of documents may keep a waiting thread from its turn, and an endless
stream of commits a search from its commit; the code promises neither.

## 4. Findings

1. **`abort` may commit a document** (`index/IndexWriter.cpp:1095`). After the
   rollback `abort` gives up the monitor and calls `closeInternal`, which flushes
   and commits. `ensureOpen` tests `closed` only and DocumentsWriter is not
   closed yet, so a document another thread adds in between is written to the
   index. `IndexWriter.h:965` promises the state of when the writer was opened.
2. **A commit that cannot be found** (`index/SegmentInfos.cpp:1055`).
   `SegmentInfos::write` advances the generation before it writes and does not
   take it back. If the write of `segments_2` fails and is cleaned up, and the
   process dies while it writes `segments_3`, the newest commit is `segments_1`;
   `FindSegmentsFile` tries `segments_3` and `segments_2` and gives up.
3. **Files that are never removed** (`index/IndexFileDeleter.cpp:498`). The
   constructor counts every file in the directory, also those it then removes,
   so the map has an entry of 0 for them. If the name is used again,
   `deleteNewFiles` and `refresh` see the entry and leave the file, although
   nothing references it, until another writer is opened.
4. **A failed document may stay in the index** (`index/DocumentsWriter.cpp:968`).
   A document that fails is marked as deleted in a critical section of its own,
   when its thread state is idle already. A flush that does not wait for it may
   ask `hasDeletes` (`index/IndexWriter.cpp:1374`) before and flush (`:1436`)
   after, or do both before: it writes the failed document and applies no
   delete, and the docID that is buffered then deletes another document, of the next
   segment. `DocumentsWriter.cpp:964-967` promises "all or none".

Other places where the code goes wrong were met while modelling. The models
follow them, and the properties allow for them by name, so that everything else
is still checked:

| | where | what | in the model |
|---|---|---|---|
| A | `DocumentsWriter.cpp:280` | `abort` waits for busy threads with the recursive mutex held twice, so the wait frees one level of it: they never get in | `monitor`, "stuck" |
| B | `DocumentsWriter.cpp:968` | the late mark of finding 4 is made by the docID the thread state has *then*: after an abort, or another document on a shared thread state, it is the wrong one. It also clears `doFlushAfter` and with it `flushPending` of a document that shares the thread state, so that the buffer may hold one more than `MaxBufferedDocs` | `overtaken` |
| C | `IndexWriter.cpp:97` | a delete that is buffered after the last flush of `close` is lost without an error | deletes after `CloseCall` |
| D | `IndexWriter.cpp:886`, `:894`, `:1111`, `:1123` | loops that advance their iterator twice per round: every other merge is left out, and an odd number takes it past the end | `PastEnd`, `StopMergesPastEnd` |
| E | `IndexWriter.cpp:2187` | the loop of `addMergeException` does not advance: with another failed merge first in the list it never ends, holding the monitor | `ExceptionsLoop` |
| F | `IndexWriter.cpp:1814` | removing a merge from `runningMerges` deletes it, and `mergeExceptions` still points to it | `Freed`, `AwokenToFreed` |
| G | `IndexWriter.cpp:1874` | a merge whose `mergeInit` fails is finished there, deleted, and finished again by `merge` | `MergeInitFails` |
| H | `MergeScheduler.cpp:28` | a merge that fails leaves the pending ones behind it to nobody; a thread in `close(true)` waits for them for ever | `Stranded` |
| I | `IndexWriter.cpp:1735` | a natural merge that a flush chose before `optimize` could takes segments from it, and its result is not optimized further | `overtaken` of `MergeRegistry` |
| J | `DirectoryIndexReader.cpp:96` | when the version cannot be read the reader keeps the lock, and the next change does not check for staleness. Its commit goes on from the old one, and its deleter removes the commits made since | `unchecked`, "reverted" |
| K | `DirectoryIndexReader.cpp:90`, `:103`, `:127` | a local variable hides the member: a stale reader keeps a pointer to a freed lock, which its destructor releases | "dangling", "released" |
| L | `DirectoryIndexReader.cpp:217`, `IndexWriter.cpp:275` | the lock of a reader that is reopened, or of a writer that does not open for another reason than an I/O error (a damaged commit, or a deleter that finds no commit), stays behind | "orphaned" |
| M | `SegmentInfos.cpp:798` | a commit that fails leaves a gap: an incomplete `segments_N` after it is not followed by a look two generations back | "skipped" (finding 2) |

## 5. What is proved

| module | theorem | statement |
|---|---|---|
| `IndexFileDeleter_proofs` | `Invariance` | `Spec => []IInv` |
| | `TypeCorrect` | `Spec => []TypeOK` |
| | `CountsExact` | `Spec => []RefCountExact` |
| | `ReferencedFilesStay` | `Spec => []Protected` |
| | `RetriesAreSafe` | `Spec => []PendingUnreferenced` |
| | `CommitIntact` | `Spec => []NewestCommitIntact` |
| | `NeverBack` | `Spec => CommitsAdvance` |
| `IndexReaders_proofs` | `Invariance` | `Spec => []IInv` |
| | `TypeCorrect` | `Spec => []TypeOK` |
| | `FindsCommit` | `Spec => []SearchFinds` |
| | `OneHolder` | `Spec => []LockExact` |
| | `UpdatesKept` | `Spec => NoLostUpdate` |
| `MergeRegistry_proofs` | `Invariance` | `Spec => []IInv` |
| | `TypeCorrect` | `Spec => []TypeOK` |
| | `ExactlyMerging` | `Spec => []MergingExact` |
| | `NoneForgotten` | `Spec => []PendingServed` |
| | `KeptApart` | `Spec => []MergesApart` |
| `DocumentsWriter_proofs` | `Invariance` | `Spec => []IInv` |
| | `TypeCorrect` | `Spec => []TypeOK` |
| | `InOrder` | `Spec => []StoredInOrder` |
| | `LineMoves` | `Spec => []TurnComes` |
| | `AtMostN` | `Spec => []NeverMoreThanN` |
| | `FailedIsOut` | `Spec => []AllOrNone` |
| | `NothingLeft` | `Spec => []ClosedHoldsNothing` |
| | `OneAfterTheOther` | `Spec => Linearizable` |
| `IndexWriter_proofs` | `Invariance` | `Spec => []IInv` |
| | `TypeCorrect` | `Spec => []TypeOK` |
| | `SourcesStay` | `Spec => []MergeSourcesStay` |
| | `DocsInOne` | `Spec => []DocsOnce` |
| `IndexWriterSafety_proofs` | `FilesFit` (*) | `Spec => []Fitting` |
| | `ContractKept` (*) | `Spec => DeleterContract` |
| | `FilesExist` (*) | `Spec => []SegmentFilesExist` |
| | `NamesNew` (*) | `Spec => []NamesFresh` |
| | `FilesKept` (*) | `Spec => [](D!RefCountExact /\ D!Protected /\ D!NewestCommitIntact)` |
| | `WriterAdvances` (*) | `Spec => D!CommitsAdvance` |
| | `ContractServes` | `Spec /\ DeleterContract => [](D!RefCountExact /\ D!Protected /\ D!NewestCommitIntact)` |
| `IndexWriterRefinement_proofs` | `DocsFit` (*) | `Spec => []RInv` |
| | `WriterRefines` (*) | `Spec => Refinement` |
| | `AbortHolds` (*) | `Spec => AbortKeepsIndex` |

(*) for `~Overlap` and `~Pins`, see below.

In each module, or group of modules, all follow from one inductive invariant, `IInv` (`Fitting`, and `RInv` with it, for the last). There is a
lemma per action (or per kind of action), a lemma `NextInv` or `NextKeeps` that combines them, and
the theorems follow from `Invariance`. Each `IInv` was model-checked on a small
instance before it was proved.

### IndexFileDeleter

For every set of files and generations, every client that keeps the contract,
any number of references and both policies. Assumed: generations are positive
numbers (`GenAssumption`); `segments_N` names are files, and different ones for
different N (`SegmentsFileAssumption`); vectors are sequences of files
(`VectorsAssumption`); `KeepAll` is a Boolean. The sets of files and generations
need not be finite; the writer takes any set of references by hand, one per
owner. `IInv` is the properties plus

- `Finite(Holders)`: otherwise a count is not a number;
- `Down`: without a deleter there is nothing in its memory, which is what the
  constructor starts from, and no commit is half-registered;
- `CommitsComplete`: a commit point is never one whose `segments_N` is being
  rewritten, so `stored` does not change under it;
- `Fresh`: between writing `segments_N` and the checkpoint the deleter does not
  know the newest commit. Nothing protects its files but the order of the
  calls, which is what the guards with `unreg` state;
- `HasNewest`: with readable commits there is a newest one, so that "newest"
  can be replaced only by a newer one;
- `KeptKnown`: every commit the policy keeps is known, or is the fresh one. This
  is why a checkpoint that deletes what no known commit references cannot
  touch it;
- `KeptIntact`: the files of those commits are there. It strengthens
  `NewestCommitIntact` for `KeepAll`, and must hold also while no deleter exists.

Counting: `Tally` is the cardinality of the set of occurrences, and the lemmas
`Taking`, `GivingBack` and `Handover` say what `incRef`, `decRef` and
`checkpoint` (increment first, decrement afterwards) do to it.

### IndexReaders

For any readers and writers, commits, look-ahead and number of faults. Assumed:
no handle is both (`HandleAssumption`), the bounds are numbers
(`BoundsAssumption`). `IInv` has

- `HandlesOK`: the states of a handle and of its search fit together: which goal
  a search has in which state, who has the lock when, that a reader with
  changes has it, and how far a search looks ahead;
- `LockOK`: `LockExact` without a cardinality;

and, as long as no commit was damaged or reverted and no lock taken
away (`Clean`, the hypothesis of the properties themselves),

- `FilesOK`: the newest commit is whole, and what is incomplete is newer;
- `CommitsOK`: whoever has the lock, and tested for staleness, has read the
  newest commit, and is the only one to leave a file incomplete. This is why
  an update is not lost;
- `SearchesOK`, whose heart is `Knows`: the commit that was the newest when the
  search began is still there, or all up to it are gone (`Gone`), because a
  deletion takes all older commits with it. So either the generation that is tried is at
  least that one, or whatever is found later is newer. `Straight` is for an index
  that nobody commits to: the first try, or the one before it, is right.

Trying to prove `SearchFinds` showed that it needs to allow for "reverted": the
reader of row J, section 4, that commits from an old generation makes the newest
commit older. TLC confirms it with two readers and a writer; the run of section 3
has one reader and does not reach it.

### MergeRegistry

For any threads, initial index, numbers of flushes, calls and failures, and any
policy: nothing is used of `FindMerges` but that what it returns is registered
through `registerMerge`, so the theorems hold also for a policy that asks for
overlapping merges. Assumed: `NoOneAssumption`, `InitialAssumption` (sizes are
positive), `BoundsAssumption`. `IInv` has

- `IndexOK`, `RollbackOK`: names are used once, deleted documents are documents;
- `PendingOK`, `RunningOK`: a merge that has not been committed lies in the index as it
  was registered, one segment after the other, and shares none with the
  others. One merge runs at a time;
- `RegistryOK`, `MergingExact`: `mergingSegments` is what these merges use;
- `SchedulerOK`: the thread that has the scheduler's lock has a running merge in
  the right stage: without an output, with one that is not in the index
  yet, or committed;
- `CallsOK`: which steps follow one another in a call (`Follows`, `Ends`);
- `Served`: a pending merge has a thread with "schedule" before it and nothing in
  between that could fail or skip it. `PendingServed` is not inductive
  without it.

### DocumentsWriter

For any finite set of threads, any number of thread states, documents, calls and
failures, and any sizes of the buffers. Assumed: `NoOneAssumption`,
`ThreadAssumption` (a process has finitely many threads, so that counters are
numbers), `SizesAssumption` (the limits are positive), `BoundsAssumption`. `IInv` has

- `CallsOK`, `StatesOK`, `RestOK`: types, and that a thread that works has a
  thread state and a document;
- `CountsOK`: `pauseThreads`, `abortCount` and `numThreads` are cardinalities of
  sets of threads. A thread that reads 0 knows from it where all the others are;
- `LocksOK`: between a pause and the resume everybody is idle, nobody aborts and
  only one thread flushes; what was in RAM is gone after the flush;
- `WorkOK`: a thread state that is not idle has one thread at work on it or is in
  line, never both;
- `StoredOK` with `InTurn`: the states that are not idle have, one each, the
  docIDs from `nextWriteDocID` to `nextDocID`, and none in line has its turn. This
  gives `TurnComes`, and with it that what is stored is a prefix of what is in RAM;
- `DocsOK`: where documents are; those of different threads differ;
- `DeletesOK`: a failed document in RAM, or in the segment being flushed, is
  marked by its docID, and if a flush has begun that flush knows that there are
  deletes; or it was overtaken. What a flush has applied (`applied`) has
  nothing that failed and was not overtaken, and is what the deletes that are
  buffered when they are cleared would leave, too;
- `FlushOK`: fewer than `MaxBufferedDocs` documents unless a flush is pending;
- `ClosedOK`: what is in RAM of a closed writer somebody will flush or give up.

`OneAfterTheOther` proves the refinement of `BufferedDocuments`: the first state
is its first state, and there are lemmas, `...Seen`, for what becomes of `View`:
nothing (`Unseen`, for most actions), or what one abstract call does to it.
`addDocument` and `updateDocument` take effect where the document gets its docID
(`Takes`), a document's failure where it is marked (`Failed`), a flush not when its
segment is written but when that and the deletes are in the index
(`ApplyDeletes` without deletes, else `ClearBufferedDeletes`), and an abort, or a flush that fails,
where it gives up what is not on disk. Like the property, the proof ends where
a failed document was marked too late.

Proving `NeverMoreThanN` showed that it needs `overtaken = {}`: the late `Failed` step
(row B, section 4) takes the pending flush from another document. TLC
confirms it with `MaxBufferedDocs = 1`; the run of section 3 has 2 and does not
reach it.

### IndexWriter

For any finite set of documents and any numbers of segments, generations and
failures, with and without autoCommit, compound files, a reader that pins files
and a thread that goes on during `abort`. Assumed: `DocAssumption` (a deletions
file has a generation, one for each time documents were deleted, so there must
be finitely many), `BoundsAssumption`, `FlagsAssumption`. The writer has up to
three lists of segments at once: the current one, the one an error goes back to
(`op.undo`) and the one `abort` goes back to (`rollback`). A failure puts one in
the place of another, at a moment when documents have been added and a merge has
gone on, so each must fit what there is *then*: `Fits` says that its names are
below `counter`, different, and not those of the buffer's segment or of the merge's output;
that no document is in two segments; and that the sources of the merge lie next
to each other (`Together`) with the documents and at least the deletes of the copy. `IInv` has

- `InfosOK`, `RollbackOK`: the current list and that of `abort` fit; no document
  is both in a segment and in the buffer;
- `UndoOK`: so does `undo`, from when an operation intends to write
  `segments_N` until it is written. Its live documents are among those of the
  current list, deleted ones included, as the error path takes deletes back; none
  is in the buffer. Only
  that the monitor is held meanwhile, and `undo` taken anew by each commit, makes this
  inductive;
- `DiskOK`: every list on disk was written with a counter above its names. A
  writer that opens it hands out names that are free;
- `BufOK`, `MergeOK`: shapes of the buffer and of the merge; the two segments of
  its copy are disjoint, and what it built has the documents of both;
- `OpOK`: which steps follow one another (`Script`): `segments_N` and doc stores
  come first, a merge's name is bound last, and nothing but its exception comes
  after a merge is over. It says which stage of the merge a step requires, of the
  error path too;
- `StartOK`: a writer under construction has no buffer and no merge, and if its
  constructor can throw, nothing to roll back to;
- `RestOK`: types.

`Spliced` is the lemma for `commitMerge` (two neighbours become one segment with
their documents), `Appended` for a flush, `Deleted` and `MoreDeleted` for
`applyDeletes`, `Repacked` for compound files, `Carried` for the deletes that came
during a merge, `FitsStill` for everything that leaves a list alone. Of the
deleter nothing is used but that it only removes files.

### IndexWriterFiles, IndexWriterSafety: the writer with its deleter

The writer's deleter is the instance `D` of `IndexFileDeleter`; `DP` is the
instance of its proofs with the same state, so the theorems above apply to
every step that is a step of the deleter's client. That every step is one is
`ContractKept`, and the two go together: a guard of the deleter, say that what a
checkpoint increments is in the directory, holds because nothing deleted it before,
which is a property of the deleter's counts. So `Fitting == IInv /\ DP!IInv /\ FInv /\ DelsKnown`
is proved at once: from `Fitting` each step of the writer satisfies `DeleterStep` and
`FInv'`, and then `Serving` gives `DP!IInv'`.

`FInv` is about a list of segments `is`, the steps `S` that are left and a
`World`: the directory (`safe`), what commits and the last checkpoint reference
(`base`), what anybody references (`ref`), the buffer and the merge. `Sound(is, S, w)`
says that the files of the list are there; that they are referenced unless a
checkpoint is among the steps; that a compound file a merge is going to build
is nobody's; and that each step left is `Ready`: for `segment`, that the doc stores
it shares are there and safe from the compound file in between; for `delete`, `new`
and `refresh`, that what they remove belongs to nobody else (`DropReady`); for `release`, that
there is something to release. Its conjuncts are

- `InfosSound`: `Sound` for the current list and the rest of the operation;
- `UndoSound`: `Sound` for `undo` and the steps of the error path, as long as a
  write may fail: *both* futures must be possible at every moment;
- `RollbackSound`: what `abort` goes back to is in a commit the deleter knows. Without
  autoCommit no commit goes before the writer closes;
- `BufSound`: open doc stores exist, and whoever references them is not only a
  merge. The buffer's name has no compound file yet;
- `MergeSound`: the merge's copy is held, its output is referenced by nobody, and
  its files are there from when they are written;
- `NamesBelow`: referenced names are below `counter` (`NamesFresh` is a part of it);
- `DiskSound`, `LastOK`, `WrittenOK`: a commit's doc stores are below its counter;
  `lastGeneration` is the newest commit, which is why `deletePartialSegmentsFile`
  never deletes one; what is announced is what was written;
- `OrderOK`: which steps follow which, also on error paths;
- `Clean`: nothing waits to be deleted.

`DelsKnown` is for the flush that takes its deletions back: with autoCommit no
commit, nor the last checkpoint, references a deletions file newer than that of
a segment the writer has or would go back to. So the files such a flush wrote are
nobody's, and `DropReady` holds for removing them. The lemmas `...Dels` show it step by step.

`~Overlap` is assumed because the code does not keep these properties otherwise:
a document that is added during `abort` writes to doc stores the rollback
removes (the race of finding 1). `~Pins` is assumed because with a reader that pins files
`deletable` is not empty, which `Clean` excludes; then the run `pins` checks the contract.
`ContractServes` needs neither: whatever the flags, counts and the newest commit are
safe as long as the contract is kept.

### IndexWriterRefinement: the writer and what it promises

Which documents a step leaves in `segmentInfos` follows from `IInv` and the lemmas about
lists of segments: a flush appends the buffer and applies the deletes in one step, a
merge replaces two segments by one with what is live in them *now*. Which documents are on disk follows
from `Fitting`: `Latest` is the newest commit that can be read, and a step that neither
finishes a `segments_N` nor removes the newest one keeps `CommittedDocs`
(`SameDocs`); `FinishWrite` makes it the documents of `segmentInfos`. What is left is how
the two are related, `RInv`. With `w` the documents in memory, `c` those on disk,
`u` and `r` those of the lists an error and `abort` go back to, its conjuncts are

- `Published`: with autoCommit `w = c`, except while `segments_N` is being written;
  without, `w = c` as long as `commitPending` is not set;
- `Undoable`: while it is being written `u` is `c` with autoCommit, which is
  `Undo` of `IndexCommits`, and `w` without: then a failed `close` loses nothing;
- `Abortable`: without autoCommit `r = c` until `close` has committed, so that the rollback of
  `abort` is `Abort` of `IndexCommits`;
- `Finishes`: a writer that closes still has its flush ahead or nothing in the
  buffer, and once its last step is all that is left, `w = c`: `Close` of
  `IndexCommits`, which needs both;
- `GivenUp`: after the rollback of `abort` there is nothing to commit, no merge and nothing that
  could fail.

There is a lemma `...Seen` for each action, and lemmas `Shape...` that say what
becomes of `RInv` when an operation begins, goes on, turns to its error path or
ends; these are about any values, not about variables, so that steps share them.
`RInv` was model-checked on the instances of `auto` and `manual`. `AbortHolds`
is a consequence: in the modes `abort` goes through `IndexCommits` has no step that
publishes. Its condition `~Overlap` is what finding 1 is about.

### Model-checked only

- Liveness (`CallsReturn` twice, `SearchEnds`) is out of the prover's reach, as is
  `ENABLED`.
- `MergedDown` and `OptimizedDown` depend on what `FindMerges` computes for an
  index, which is an induction over the sizes; they are checked for the
  indexes that a run reaches.
- Of `IndexWriter`: `NothingLeaks` and `CommitFound`, which are
  shown for one failure and are false for more (findings 2 and 3). `DeleterContract`,
  `SegmentFilesExist`, `NamesFresh` and `Refinement` are proved for file systems that delete open
  files; for the others (`Pins`) the run `pins` checks `DeleterContract` and `NamesFresh`.

## 6. Plan

| | module | state | what is left |
|---|---|---|---|
| A | `IndexFileDeleter`, `IndexCommits`, `IndexWriter` | modelled, checked; the deleter proved, and the writer's segments, files, contract and refinement | transactions and `addIndexes*`, which hold files by `incRef` and roll back; a policy that deletes some of several commits |
| B, C | `IndexReaders` | modelled, checked, proved | - |
| D | `LogMergePolicy`, `MergeRegistry` | modelled, checked, proved for any policy | - |
| E, F | `BufferedDocuments`, `DocumentsWriter` | modelled, checked, proved | - |
| G | `SharedNorms` | - | reference counts of readers and norms over reopen and close: freed once, never used after |
| I | `BufferedStreams` | - | RAMFile and buffered input/output equal a byte sequence |
| J | `Scorers` and utilities | - | iterators agree with set operations |

Next for `IndexWriter`: `Fitting` with files waiting to be deleted (`Pins`), after which
`WriterRefines` holds there too: of a deletion it uses only that nothing but files goes.

## 7. Not modelled

- Query parser (generated automaton, recursive descent), analysis, documents,
  queries, scoring, sorting, spans, merging of term streams: sequential, over
  data that one call owns, and compared with expected results by the tests.
- File formats (postings, term dictionary, stored fields, vectors, norms), and
  positions and buffers of streams: encodings.
- Local transactions and `addIndexes*`; `rollbackTransaction` waits for running
  merges with the monitor held more than once (`IndexWriter.cpp:1019`), the
  pattern of row A above.
- `deleteCommits` for a policy that keeps several commits and deletes some
  (`IndexFileDeleter.cpp:257`): the two policies modelled keep all or the last.
- What C++ leaves undefined within one step: the list of files that a thread
  frees while `checkpoint` walks it (`IndexFileDeleter.cpp:414`), and the one that
  `closeDocStore` has freed when `flushDocStores` fails (`IndexWriter.cpp:629`).
- Norms and deletions that reopened segment readers share, MultiReader,
  IndexModifier.
- Platform layer, contributions, demo and bundled libraries.

`PROJECT.json` lists the components with what is left out of each.
