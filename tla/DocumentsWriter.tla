-------------------------- MODULE DocumentsWriter --------------------------
(***************************************************************************)
(* index/DocumentsWriter.cpp and DocumentsWriterThreadState.cpp: threads   *)
(* that add, update and delete documents at once, and the flush            *)
(* (IndexWriter::doFlush) that has to stop them.                           *)
(*                                                                         *)
(* A document is given a docID and a thread state with the monitor         *)
(* (THIS_LOCK), is inverted without it, and is written to the doc stores   *)
(* with it, in the order of the docIDs: a thread that is early puts its    *)
(* state in a line and leaves.  Threads wait on one condition variable;    *)
(* asleep are those a notifyAll has not woken yet.                         *)
(*                                                                         *)
(* The monitor is free between two steps, with one exception.  The mutex   *)
(* is recursive and pthread_cond_wait gives up one level of it; abort()    *)
(* holds it twice when it waits for the other threads, so it keeps it.     *)
(*                                                                         *)
(* Documents are numbered as they are given docIDs.  Every document        *)
(* matches the one term that documents are deleted by.                     *)
(***************************************************************************)
EXTENDS Integers, Sequences, FiniteSets

CONSTANTS
    Thread,
    NoOne,                  \* Holds no lock.
    MaxThreadState,         \* MAX_THREAD_STATE
    MaxBufferedDocs,        \* maxBufferedDocs
    MaxBufferedDeleteTerms, \* maxBufferedDeleteTerms
    MaxDocs,                \* Bound: documents added.
    MaxCalls,               \* Bound: calls of deleteDocuments, flush and abort.
    MaxFaults               \* Bound: failures.

ASSUME NoOneAssumption == NoOne \notin Thread
ASSUME ThreadAssumption == IsFiniteSet(Thread)
ASSUME SizesAssumption ==
    /\ MaxThreadState \in Nat \ {0}
    /\ MaxBufferedDocs \in Nat \ {0} /\ MaxBufferedDeleteTerms \in Nat \ {0}
ASSUME BoundsAssumption == MaxDocs \in Nat /\ MaxCalls \in Nat /\ MaxFaults \in Nat

VARIABLES
    call,           \* The call each thread is in, see NoCall.
    threadStates,   \* ThreadStates: isIdle, docID, doFlushAfter, numThreads.
    threadBindings,
    nextDocID, numDocsInRAM, nextWriteDocID,
    line,           \* waitingThreadStates
    pauseThreads, flushPending, bufferIsFull, abortCount, closed,
    monitor,        \* The thread that waits with the monitor.
    writerLock,     \* The thread that holds the monitor of IndexWriter.
    asleep,
    ram,            \* Documents whose postings are in RAM: ram[docID + 1].
    stored,         \* Documents written to the doc stores since the flush.
    deleteNum,      \* bufferedDeleteTerms: the term's Num, or None.
    numDeleteTerms, \* numBufferedDeleteTerms
    deleteDocIDs,   \* bufferedDeleteDocIDs
    fresh,          \* The segment being flushed, before it has deletions.
    flushDeletes,   \* doFlush's.
    applied,        \* What is live once its deletions are written.
    index,          \* Live documents in flushed segments.
    docs, calls, faults,
    failed,         \* Documents whose call ended with an exception.
    overtaken       \* History: those of them that were marked too late.

ids == <<nextDocID, numDocsInRAM, nextWriteDocID, line>>
flags == <<flushPending, bufferIsFull>>
locks == <<monitor, writerLock>>
buffered == <<ram, stored>>
deleted == <<deleteNum, numDeleteTerms, deleteDocIDs>>
flushed == <<fresh, flushDeletes, applied, index>>
bounds == <<docs, calls, faults, failed, overtaken>>
vars == <<call, threadStates, threadBindings, ids, pauseThreads, flags,
          abortCount, closed, locks, asleep, buffered, deleted, flushed, bounds>>

None == -1

-----------------------------------------------------------------------------
(* Thread states.                                                          *)

IsIdle(i) == threadStates[i].isIdle
AllThreadsIdle == \A i \in DOMAIN threadStates : IsIdle(i)
MinThreads == CHOOSE i \in DOMAIN threadStates :
                 \A j \in DOMAIN threadStates :
                    \/ threadStates[i].numThreads < threadStates[j].numThreads
                    \/ threadStates[i].numThreads = threadStates[j].numThreads /\ i <= j

NewState == [isIdle |-> TRUE, docID |-> 0, doFlushAfter |-> FALSE, numThreads |-> 1]

\* Seeded fault: a thread that is bound already is counted again.
BoundAgain(t) ==
    IF threadBindings[t] # 0
    THEN <<[threadStates EXCEPT ![threadBindings[t]].numThreads = @ + 1], threadBindings[t]>>
    ELSE IF threadStates # <<>>
              /\ (threadStates[MinThreads].numThreads = 0
                  \/ Len(threadStates) = MaxThreadState)
         THEN <<[threadStates EXCEPT ![MinThreads].numThreads = @ + 1], MinThreads>>
         ELSE <<Append(threadStates, NewState), Len(threadStates) + 1>>

\* The thread states and t's own among them once t is bound to one: the one
\* it has, one nobody uses, a new one, or the one that fewest threads share.
Bound(t) ==
    IF threadBindings[t] # 0 THEN <<threadStates, threadBindings[t]>>
    ELSE IF threadStates # <<>>
              /\ (threadStates[MinThreads].numThreads = 0
                  \/ Len(threadStates) = MaxThreadState)
         THEN <<[threadStates EXCEPT ![MinThreads].numThreads = @ + 1], MinThreads>>
         ELSE <<Append(threadStates, NewState), Len(threadStates) + 1>>

\* What a thread keeps during a call: where it is, its thread state, its
\* document, whether it updates, and whether the exception it unwinds is an
\* AbortException.
NoCall == [at |-> "out", state |-> 0, doc |-> 0, update |-> FALSE, aborting |-> FALSE]

At(t, where) == call[t].at = where
Mine(t) == call[t].state

\* A thread that can enter the monitor.
Runs(t) == monitor = NoOne /\ t \notin asleep

\* t goes on at another place; what it no longer needs is forgotten.
GoWith(t, c, where) ==
    call' = [call EXCEPT ![t] =
               [(IF where \in {"out", "flush", "cleanup"} THEN NoCall ELSE c)
                  EXCEPT !.at = where]]
Goto(t, where) == GoWith(t, call[t], where)

Sleep(t) == asleep' = asleep \cup {t}
NotifyAll == asleep' = {}

-----------------------------------------------------------------------------
(* Buffered deletes.                                                       *)

\* addDeleteTerm with Num::setNum, which keeps the largest number.
NumAfter(n) == IF n > deleteNum THEN n ELSE deleteNum

AddDeleteTerm(n) ==
    /\ deleteNum' = NumAfter(n)
    /\ numDeleteTerms' = numDeleteTerms + 1
    /\ UNCHANGED deleteDocIDs

\* The condition of timeToFlushDeletes, with n terms buffered.
ManyDeletes(n) == bufferIsFull \/ n >= MaxBufferedDeleteTerms

-----------------------------------------------------------------------------
(* getThreadState.                                                         *)

\* What a document for thread state i has to wait for.
Blocked(states, i) ==
    ~states[i].isIdle \/ pauseThreads # 0 \/ flushPending \/ abortCount > 0

\* Seeded fault: the flush that N documents make due is left to the next.
MoreThanN(n) == n > MaxBufferedDocs

FlushDue(n) == n >= MaxBufferedDocs

\* The document of t gets its docID.  updateDocument buffers the deletion of
\* what was there before with it.
Start(t, c, states) ==
    LET i     == c.state
        up    == c.update
        byDel == up /\ ManyDeletes(numDeleteTerms + 1) /\ ~flushPending
        byDoc == ~(flushPending \/ byDel) /\ FlushDue(numDocsInRAM + 1)
    IN  /\ threadStates' = [states EXCEPT ![i].isIdle = FALSE, ![i].docID = nextDocID,
                              ![i].doFlushAfter = (IF up THEN byDel ELSE @) \/ byDoc]
        /\ flushPending' = (flushPending \/ byDel \/ byDoc)
        /\ IF up THEN AddDeleteTerm(nextDocID) ELSE UNCHANGED deleted
        /\ ram' = Append(ram, c.doc)
        /\ nextDocID' = nextDocID + 1
        /\ numDocsInRAM' = numDocsInRAM + 1
        /\ GoWith(t, c, "process")
        /\ UNCHANGED <<nextWriteDocID, line, pauseThreads, bufferIsFull,
                       abortCount, locks, asleep, stored, flushed>>

\* Seeded fault: closed is not tested again after a wait.
OpenBefore == TRUE

Open == ~closed

\* addDocument, or updateDocument if up, is called: the thread is bound to a
\* thread state, and waits for it or goes on.
Enter(t, up) ==
    /\ Runs(t) /\ At(t, "out") /\ ~closed
    /\ docs < MaxDocs
    /\ docs' = docs + 1
    /\ LET states == Bound(t)[1]
           i      == Bound(t)[2]
           c      == [NoCall EXCEPT !.state = i, !.doc = docs', !.update = up]
       IN  /\ threadBindings' = [threadBindings EXCEPT ![t] = i]
           /\ IF Blocked(states, i)
              THEN /\ threadStates' = states
                   /\ GoWith(t, c, "wait")
                   /\ Sleep(t)
                   /\ UNCHANGED <<ids, pauseThreads, flags, abortCount, locks,
                                   buffered, deleted, flushed>>
              ELSE Start(t, c, states)
    /\ UNCHANGED <<closed, calls, faults, failed, overtaken>>

\* It is awake again: it sleeps on, gets its docID or, the writer being
\* closed, throws; its caller cleans up after it as after any failure.
Awake(t) ==
    /\ Runs(t) /\ At(t, "wait")
    /\ IF Open /\ ~Blocked(threadStates, Mine(t))
       THEN /\ Start(t, call[t], threadStates)
            /\ UNCHANGED failed
       ELSE /\ IF closed THEN /\ Goto(t, "cleanup") /\ UNCHANGED asleep
                              /\ failed' = failed \cup {call[t].doc}
                         ELSE Sleep(t) /\ UNCHANGED <<call, failed>>
            /\ UNCHANGED <<threadStates, ids, pauseThreads, flags,
                           abortCount, locks, buffered, deleted, flushed>>
    /\ UNCHANGED <<threadBindings, closed, docs, calls, faults, overtaken>>

-----------------------------------------------------------------------------
(* abort, and what it shares with a flush.                                 *)

\* resetPostingsData, for the thread states given.
Reset(states) ==
    /\ threadBindings' = [t \in Thread |-> 0]
    /\ nextDocID' = 0 /\ numDocsInRAM' = 0 /\ nextWriteDocID' = 0
    /\ bufferIsFull' = FALSE /\ flushPending' = FALSE
    /\ threadStates' = [i \in DOMAIN states |->
         [states[i] EXCEPT !.numThreads = 0, !.doFlushAfter = FALSE]]

ClearDeletes == deleteNum' = None /\ numDeleteTerms' = 0 /\ deleteDocIDs' = {}

\* Everything buffered is given up, documents and deletes.
GiveUp(states) ==
    /\ ram' = <<>> /\ stored' = <<>> /\ line' = {}
    /\ ClearDeletes
    /\ Reset(states)
    /\ NotifyAll

\* The thread states once the line has been dissolved.
Dissolved(states) ==
    [i \in DOMAIN states |-> [states[i] EXCEPT !.isIdle = @ \/ i \in line]]

\* abort(ae), ae being NULL in the call that IndexWriter::abort makes.  When
\* another thread is at work it waits for it, and keeps the monitor that the
\* other needs to finish: no step leads away from "stuck".
AbortWith(t, c, states, bindings, count) ==
    LET free == Dissolved(states)
    IN  IF \A i \in DOMAIN free : free[i].isIdle
        THEN /\ GiveUp(free)
             /\ abortCount' = count - (IF c.aborting THEN 1 ELSE 0)
             /\ GoWith(t, c, "cleanup")
             /\ UNCHANGED <<pauseThreads, monitor>>
        ELSE /\ threadStates' = free
             /\ line' = {}
             /\ abortCount' = count
             /\ pauseThreads' = pauseThreads + 1
             /\ monitor' = t
             /\ GoWith(t, c, "stuck")
             /\ threadBindings' = bindings
             /\ UNCHANGED <<nextDocID, numDocsInRAM, nextWriteDocID, flags, asleep,
                            buffered, deleted>>

Abort(t) ==
    /\ Runs(t) /\ At(t, "abort")
    /\ AbortWith(t, call[t], threadStates, threadBindings, abortCount)
    /\ UNCHANGED <<closed, writerLock, flushed, bounds>>

\* IndexWriter::abort holds the monitor of IndexWriter.
AbortCall(t) ==
    /\ Runs(t) /\ At(t, "out")
    /\ writerLock = NoOne
    /\ calls < MaxCalls
    /\ calls' = calls + 1
    /\ writerLock' = t
    /\ Goto(t, "abort")
    /\ UNCHANGED <<threadStates, threadBindings, ids, pauseThreads,
                   flags, abortCount, closed, monitor, asleep, buffered, deleted,
                   flushed, docs, faults, failed, overtaken>>

\* ThreadState::init cannot create the doc stores' files: an AbortException,
\* caught with the monitor still held.
InitFails(t) ==
    /\ Runs(t) /\ ~closed
    /\ faults < MaxFaults
    /\ faults' = faults + 1
    /\ LET enters == At(t, "out")
           states == IF enters THEN Bound(t)[1] ELSE threadStates
           i      == IF enters THEN Bound(t)[2] ELSE Mine(t)
           d      == IF enters THEN docs + 1 ELSE call[t].doc
       IN  /\ \/ enters /\ docs < MaxDocs
              \/ At(t, "wait")
           /\ ~Blocked(states, i)
           /\ docs' = (IF enters THEN docs + 1 ELSE docs)
           /\ failed' = failed \cup {d}
           /\ AbortWith(t, [NoCall EXCEPT !.state = i, !.doc = d, !.aborting = TRUE], states,
                        [threadBindings EXCEPT ![t] = i], abortCount + 1)
    /\ UNCHANGED <<closed, writerLock, flushed, calls, overtaken>>

\* The caller of a call that failed takes the monitor of IndexWriter and has
\* the aborted files deleted (deleteNewFiles).
Cleanup(t) ==
    /\ Runs(t) /\ At(t, "cleanup")
    /\ writerLock \in {NoOne, t}
    /\ writerLock' = NoOne
    /\ Goto(t, "out")
    /\ UNCHANGED <<threadStates, threadBindings, ids,
                   pauseThreads, flags, abortCount, closed, monitor, asleep, buffered,
                   deleted, flushed, bounds>>

-----------------------------------------------------------------------------
(* processDocument and finishDocument.                                     *)

\* balanceRAM, called while a document is inverted: the RAM buffer is full.
BalanceRAM(t) ==
    /\ Runs(t) /\ At(t, "process")
    /\ ~bufferIsFull
    /\ bufferIsFull' = TRUE
    /\ UNCHANGED <<call, threadStates, threadBindings, ids, pauseThreads,
                   flushPending, abortCount, closed, locks, asleep, buffered, deleted,
                   flushed, bounds>>

\* Inverting the document fails; ab: with an AbortException, which calls
\* setAborting.
ProcessFails(t, ab) ==
    /\ Runs(t) /\ At(t, "process")
    /\ faults < MaxFaults
    /\ faults' = faults + 1
    /\ abortCount' = abortCount + (IF ab THEN 1 ELSE 0)
    /\ GoWith(t, [call[t] EXCEPT !.aborting = ab], "unwind")
    /\ UNCHANGED <<threadStates, threadBindings, ids, pauseThreads,
                   flags, closed, locks, asleep, buffered, deleted, flushed, docs,
                   calls, failed, overtaken>>

\* Seeded fault: the line is not swept.
SweptNobody(n) == {}

\* The thread states in line that can be written after docID n: those whose
\* docIDs follow it without a gap.
Swept(n) ==
    {i \in line : \A k \in (n + 1)..threadStates[i].docID :
                     \E j \in line : threadStates[j].docID = k}

\* Seeded fault: documents are written as their threads finish.
AnyTurn(t) == TRUE

MyTurn(t) == threadStates[Mine(t)].docID = nextWriteDocID

AfterFinish(t) == IF At(t, "unwind") THEN "failed" ELSE "finished"

\* While another thread aborts, the thread state is given back as it is.
FinishAborting(t) ==
    /\ Runs(t) /\ call[t].at \in {"process", "unwind"}
    /\ abortCount > 0
    /\ threadStates' = [threadStates EXCEPT ![Mine(t)].isIdle = TRUE]
    /\ NotifyAll
    /\ Goto(t, AfterFinish(t))
    /\ UNCHANGED <<threadBindings, ids, pauseThreads,
                   flags, abortCount, closed, locks, buffered, deleted, flushed, bounds>>

\* Seeded fault: nobody is told that thread states became idle.
NotifyNobody == UNCHANGED asleep

\* finishDocument notifies when it gives thread states back.
NotifyIdle == NotifyAll

\* The document is next: it is written, and those in line that follow it.  A
\* full buffer makes this thread flush.
FinishTurn(t) ==
    /\ Runs(t) /\ call[t].at \in {"process", "unwind"}
    /\ abortCount = 0
    /\ MyTurn(t)
    /\ LET n     == threadStates[Mine(t)].docID
           swept == Swept(nextWriteDocID)
           flush == bufferIsFull /\ ~flushPending
       IN  /\ stored' = stored \o SubSeq(ram, n + 1, n + 1 + Cardinality(swept))
           /\ nextWriteDocID' = nextWriteDocID + 1 + Cardinality(swept)
           /\ line' = line \ swept
           /\ threadStates' = [i \in DOMAIN threadStates |->
                [threadStates[i] EXCEPT !.isIdle = @ \/ i \in swept \cup {Mine(t)},
                                        !.doFlushAfter = @ \/ (i = Mine(t) /\ flush)]]
           /\ flushPending' = (flushPending \/ flush)
    /\ NotifyIdle
    /\ Goto(t, AfterFinish(t))
    /\ UNCHANGED <<threadBindings, nextDocID, numDocsInRAM,
                   pauseThreads, bufferIsFull, abortCount, closed, locks, ram, deleted,
                   flushed, bounds>>

\* Writing one of them to the doc stores fails: an AbortException.  Its thread
\* state is idle, and in line if it was there; the rest of the line stays.
FinishWriteFails(t) ==
    /\ Runs(t) /\ call[t].at \in {"process", "unwind"}
    /\ abortCount = 0
    /\ faults < MaxFaults
    /\ MyTurn(t)
    /\ \E bad \in Swept(nextWriteDocID) \cup {Mine(t)} :
         LET n       == threadStates[bad].docID
             written == {i \in Swept(nextWriteDocID) : threadStates[i].docID < n}
             flush   == bad # Mine(t) /\ bufferIsFull /\ ~flushPending
         IN  /\ stored' = stored \o SubSeq(ram, nextWriteDocID + 1, n)
             /\ nextWriteDocID' = IF bad = Mine(t) THEN n + 1 ELSE n
             /\ line' = line \ written
             /\ threadStates' = [i \in DOMAIN threadStates |->
                  [threadStates[i] EXCEPT
                     !.isIdle = @ \/ i \in written \cup {bad, Mine(t)},
                     !.doFlushAfter = @ \/ (i = Mine(t) /\ flush)]]
             /\ flushPending' = (flushPending \/ flush)
             /\ IF bad = Mine(t) THEN UNCHANGED asleep ELSE NotifyAll
    /\ faults' = faults + 1
    /\ abortCount' = abortCount + 1
    /\ GoWith(t, [call[t] EXCEPT !.aborting = TRUE], "failed")
    /\ UNCHANGED <<threadBindings, nextDocID, numDocsInRAM,
                   pauseThreads, bufferIsFull, closed, locks, ram, deleted, flushed,
                   docs, calls, failed, overtaken>>

\* It is not: the thread state waits in line, and the thread leaves.
FinishInLine(t) ==
    /\ Runs(t) /\ call[t].at \in {"process", "unwind"}
    /\ abortCount = 0
    /\ ~MyTurn(t)
    /\ line' = line \cup {Mine(t)}
    /\ Goto(t, AfterFinish(t))
    /\ UNCHANGED <<threadStates, threadBindings, nextDocID,
                   numDocsInRAM, nextWriteDocID, pauseThreads, flags, abortCount, closed,
                   locks, asleep, buffered, deleted, flushed, bounds>>

\* Seeded fault: the document is not marked as deleted.
MarkNothing(i) == deleteDocIDs

\* addDeleteDocID(state->docID)
MarkDeleted(i) == deleteDocIDs \cup {threadStates[i].docID}

\* The docID of t's thread state is still that of t's document.  A flush, an
\* abort or another document may have come between the two critical sections.
StillMine(t) ==
    LET k == threadStates[Mine(t)].docID + 1
    IN  k \in DOMAIN ram /\ ram[k] = call[t].doc

\* A flush has asked for deletes, found none and has not yet taken what is in
\* RAM: it will not look for any again.
TakenAsLive == ~flushDeletes /\ \E t \in Thread : At(t, "write")

\* The second critical section of a document that failed: the flush it was to
\* do is left to another, and the document is marked as deleted.
Failed(t) ==
    /\ Runs(t) /\ At(t, "failed")
    /\ LET i == Mine(t)
       IN  /\ IF threadStates[i].doFlushAfter
              THEN /\ threadStates' = [threadStates EXCEPT ![i].doFlushAfter = FALSE]
                   /\ flushPending' = FALSE
                   /\ NotifyAll
              ELSE UNCHANGED <<threadStates, flushPending, asleep>>
           /\ deleteDocIDs' = MarkDeleted(i)
    /\ failed' = failed \cup {call[t].doc}
    /\ overtaken' = IF StillMine(t) /\ ~TakenAsLive
                    THEN overtaken ELSE overtaken \cup {call[t].doc}
    /\ Goto(t, IF call[t].aborting THEN "abort" ELSE "cleanup")
    /\ UNCHANGED <<threadBindings, ids, pauseThreads,
                   bufferIsFull, abortCount, closed, locks, buffered, deleteNum,
                   numDeleteTerms, flushed, docs, calls, faults>>

\* state->doFlushAfter || timeToFlushDeletes(): whether this thread flushes.
Finished(t) ==
    /\ Runs(t) /\ At(t, "finished")
    /\ LET claim == ManyDeletes(numDeleteTerms) /\ ~flushPending
       IN  IF threadStates[Mine(t)].doFlushAfter
           THEN Goto(t, "flush") /\ UNCHANGED flushPending
           ELSE /\ Goto(t, IF claim THEN "flush" ELSE "out")
                /\ flushPending' = (flushPending \/ claim)
    /\ UNCHANGED <<threadStates, threadBindings, ids,
                   pauseThreads, bufferIsFull, abortCount, closed, locks, asleep,
                   buffered, deleted, flushed, bounds>>

-----------------------------------------------------------------------------
(* deleteDocuments.                                                        *)

\* bufferDeleteTerm: wait for a flush, then buffer the term.
BufferDeleteTerm(t) ==
    IF pauseThreads # 0 \/ flushPending
    THEN /\ Sleep(t)
         /\ Goto(t, "delete")
         /\ UNCHANGED <<flushPending, deleted>>
    ELSE LET claim == ManyDeletes(numDeleteTerms + 1)
         IN  /\ AddDeleteTerm(numDocsInRAM)
             /\ flushPending' = claim
             /\ Goto(t, IF claim THEN "flush" ELSE "out")
             /\ UNCHANGED asleep

Delete(t) ==
    /\ Runs(t) /\ At(t, "out")
    /\ calls < MaxCalls
    /\ calls' = calls + 1
    /\ BufferDeleteTerm(t)
    /\ UNCHANGED <<threadStates, threadBindings, ids,
                   pauseThreads, bufferIsFull, abortCount, closed, locks, buffered,
                   flushed, docs, faults, failed, overtaken>>

AwakeDelete(t) ==
    /\ Runs(t) /\ At(t, "delete")
    /\ BufferDeleteTerm(t)
    /\ UNCHANGED <<threadStates, threadBindings, ids,
                   pauseThreads, bufferIsFull, abortCount, closed, locks, buffered,
                   flushed, bounds>>

-----------------------------------------------------------------------------
(* IndexWriter::doFlush.                                                   *)

HasDeletes == deleteNum # None \/ deleteDocIDs # {}

\* flush() is called.
FlushCall(t) ==
    /\ Runs(t) /\ At(t, "out")
    /\ calls < MaxCalls
    /\ calls' = calls + 1
    /\ numDocsInRAM > 0 \/ HasDeletes
    /\ Goto(t, "flush")
    /\ UNCHANGED <<threadStates, threadBindings, ids,
                   pauseThreads, flags, abortCount, closed, locks, asleep, buffered,
                   deleted, flushed, docs, faults, failed, overtaken>>

\* close(): docWriter->close(), and the last flush.
CloseCall(t) ==
    /\ Runs(t) /\ At(t, "out")
    /\ ~closed
    /\ closed' = TRUE
    /\ NotifyAll
    /\ Goto(t, "flush")
    /\ UNCHANGED <<threadStates, threadBindings, ids,
                   pauseThreads, flags, abortCount, locks, buffered, deleted, flushed,
                   bounds>>

\* pauseAllThreads waits until every thread state is idle.  It tells doFlush
\* to do nothing when an abort is going on.
Pausing(t) ==
    IF AllThreadsIdle
    THEN Goto(t, IF abortCount > 0 THEN "skip" ELSE "paused") /\ UNCHANGED asleep
    ELSE Goto(t, "pause") /\ Sleep(t)

Pause(t) ==
    /\ Runs(t) /\ At(t, "flush")
    /\ writerLock = NoOne
    /\ writerLock' = t
    /\ pauseThreads' = pauseThreads + 1
    /\ Pausing(t)
    /\ UNCHANGED <<threadStates, threadBindings, ids,
                   flags, abortCount, closed, monitor, buffered, deleted, flushed, bounds>>

AwakePause(t) ==
    /\ Runs(t) /\ At(t, "pause")
    /\ Pausing(t)
    /\ UNCHANGED <<threadStates, threadBindings, ids,
                   pauseThreads, flags, abortCount, closed, locks, buffered, deleted,
                   flushed, bounds>>

\* doFlush asks whether there are deletes.  Threads that are at no document may
\* still get the monitor between this and the steps that follow.
AskDeletes(t) ==
    /\ Runs(t) /\ At(t, "paused")
    /\ flushDeletes' = HasDeletes
    /\ Goto(t, IF numDocsInRAM > 0 THEN "write" ELSE IF HasDeletes THEN "apply" ELSE "resume")
    /\ UNCHANGED <<threadStates, threadBindings, ids, pauseThreads, flags, abortCount,
                   closed, locks, asleep, buffered, deleted, fresh, applied, index, bounds>>

\* DocumentsWriter::flush writes what is in RAM as a segment.
FlushSegment(t) ==
    /\ Runs(t) /\ At(t, "write")
    /\ fresh' = ram
    /\ ram' = <<>> /\ stored' = <<>>
    /\ Reset(threadStates)
    /\ Goto(t, "apply")
    /\ UNCHANGED <<line, pauseThreads, abortCount, closed,
                   locks, asleep, deleted, flushDeletes, applied, index, bounds>>

\* It fails, which gives up everything, deletes too.  (When there are any, a
\* build with assertions ends in doFlush.)
FlushFails(t) ==
    /\ Runs(t) /\ At(t, "write")
    /\ faults < MaxFaults
    /\ faults' = faults + 1
    /\ GiveUp(threadStates)
    /\ flushDeletes' = FALSE
    /\ Goto(t, "resume")
    /\ UNCHANGED <<pauseThreads, abortCount, closed, locks,
                   fresh, applied, index, docs, calls, failed, overtaken>>

\* Seeded fault: a term deletes whatever the new segment holds.
LiveOfAll(segment) ==
    IF deleteNum # None THEN {} ELSE
      {segment[k] : k \in {j \in DOMAIN segment : j - 1 \notin deleteDocIDs}}

\* applyDeletesSelectively: the documents of a segment buffered before the
\* term, and those that failed, are deleted.
LiveOf(segment) ==
    {segment[k] : k \in {j \in DOMAIN segment :
                           j - 1 >= deleteNum /\ j - 1 \notin deleteDocIDs}}

\* The segments before it lose every document with the term.
LiveBefore == IF deleteNum = None THEN index ELSE {}

\* applyDeletes writes the deletions that are buffered, or the segment stays as
\* it is.
ApplyDeletes(t) ==
    /\ Runs(t) /\ At(t, "apply")
    /\ IF flushDeletes
       THEN /\ applied' = LiveBefore \cup LiveOf(fresh)
            /\ Goto(t, "clear")
            /\ UNCHANGED <<fresh, index>>
       ELSE /\ index' = index \cup {fresh[k] : k \in DOMAIN fresh}
            /\ fresh' = <<>>
            /\ Goto(t, "resume")
            /\ UNCHANGED applied
    /\ UNCHANGED <<threadStates, threadBindings, ids, pauseThreads, flags, abortCount,
                   closed, locks, asleep, buffered, deleted, flushDeletes, bounds>>

\* The end of applyDeletes.  Whatever is buffered by now is dropped.  The
\* postings are reset if any memory was allocated since they last were; the
\* bytes are not counted here, so they may be.
ClearBufferedDeletes(t) ==
    /\ Runs(t) /\ At(t, "clear")
    /\ index' = applied
    /\ applied' = {} /\ fresh' = <<>> /\ flushDeletes' = FALSE
    /\ ClearDeletes
    /\ \/ Reset(threadStates)
       \/ UNCHANGED <<threadBindings, threadStates, nextDocID, numDocsInRAM,
                      nextWriteDocID, flags>>
    /\ Goto(t, "resume")
    /\ UNCHANGED <<line, pauseThreads, abortCount, closed,
                   locks, asleep, buffered, bounds>>

\* clearFlushPending, which a doFlush that did nothing skips, and
\* resumeAllThreads.
Resume(t) ==
    /\ Runs(t) /\ call[t].at \in {"resume", "skip"}
    /\ flushPending' = (flushPending /\ At(t, "skip"))
    /\ pauseThreads' = pauseThreads - 1
    /\ IF pauseThreads' = 0 THEN NotifyAll ELSE UNCHANGED asleep
    /\ writerLock' = NoOne
    /\ Goto(t, "out")
    /\ UNCHANGED <<threadStates, threadBindings, ids,
                   bufferIsFull, abortCount, closed, monitor, buffered, deleted,
                   flushed, bounds>>

-----------------------------------------------------------------------------

Init ==
    /\ call = [t \in Thread |-> NoCall] /\ threadBindings = [t \in Thread |-> 0]
    /\ threadStates = <<>>
    /\ nextDocID = 0 /\ numDocsInRAM = 0 /\ nextWriteDocID = 0 /\ line = {}
    /\ pauseThreads = 0 /\ abortCount = 0
    /\ flushPending = FALSE /\ bufferIsFull = FALSE /\ closed = FALSE
    /\ monitor = NoOne /\ writerLock = NoOne /\ asleep = {}
    /\ ram = <<>> /\ stored = <<>>
    /\ deleteNum = None /\ numDeleteTerms = 0 /\ deleteDocIDs = {}
    /\ fresh = <<>> /\ flushDeletes = FALSE /\ applied = {} /\ index = {}
    /\ docs = 0 /\ calls = 0 /\ faults = 0 /\ failed = {} /\ overtaken = {}

\* What a thread does once it has made a call.
Step(t) ==
    \/ Awake(t) \/ AwakeDelete(t) \/ AwakePause(t)
    \/ FinishAborting(t) \/ FinishTurn(t) \/ FinishInLine(t)
    \/ Failed(t) \/ Finished(t) \/ Abort(t) \/ Cleanup(t)
    \/ Pause(t) \/ AskDeletes(t) \/ FlushSegment(t) \/ ApplyDeletes(t)
    \/ ClearBufferedDeletes(t) \/ Resume(t)

Call(t) ==
    \/ \E up \in BOOLEAN : Enter(t, up)
    \/ Delete(t) \/ FlushCall(t) \/ CloseCall(t) \/ AbortCall(t)

Fault(t) ==
    \/ InitFails(t) \/ FinishWriteFails(t) \/ FlushFails(t)
    \/ \E ab \in BOOLEAN : ProcessFails(t, ab)

Next == \E t \in Thread : Call(t) \/ Step(t) \/ Fault(t) \/ BalanceRAM(t)

\* Nobody has to call, and nothing has to fail; a thread in a call is
\* scheduled again and again.
Fairness == \A t \in Thread : WF_vars(Step(t))

Spec == Init /\ [][Next]_vars /\ Fairness

-----------------------------------------------------------------------------
(* Properties.                                                             *)

Where == {"out", "wait", "process", "unwind", "finished", "failed", "abort", "stuck",
          "cleanup", "delete", "flush", "pause", "paused", "skip", "write", "apply",
          "clear", "resume"}
State == 1..MaxThreadState
DocID == 0..(MaxDocs - 1)
Documents == 1..MaxDocs

\* Every variable has a value of its type; counts that the code asserts not to
\* be negative are not.
TypeOK ==
    /\ call \in [Thread -> [at : Where, state : {0} \cup State, doc : {0} \cup Documents,
                          update : BOOLEAN, aborting : BOOLEAN]]
    /\ threadBindings \in [Thread -> {0} \cup State]
    /\ Len(threadStates) <= MaxThreadState
    /\ \A i \in DOMAIN threadStates :
         threadStates[i] \in [isIdle : BOOLEAN, docID : DocID, doFlushAfter : BOOLEAN,
                              numThreads : 0..Cardinality(Thread)]
    /\ {nextDocID, numDocsInRAM, nextWriteDocID} \subseteq 0..MaxDocs
    /\ line \subseteq DOMAIN threadStates
    /\ pauseThreads \in 0..Cardinality(Thread) /\ abortCount \in 0..Cardinality(Thread)
    /\ {flushPending, bufferIsFull, closed, flushDeletes} \subseteq BOOLEAN
    /\ monitor \in Thread \cup {NoOne} /\ writerLock \in Thread \cup {NoOne}
    /\ asleep \subseteq Thread
    /\ ram \in Seq(Documents) /\ stored \in Seq(Documents) /\ fresh \in Seq(Documents)
    /\ deleteNum \in {None} \cup 0..MaxDocs /\ numDeleteTerms \in Nat
    /\ deleteDocIDs \subseteq DocID
    /\ index \subseteq Documents /\ applied \subseteq Documents
    /\ failed \subseteq Documents /\ overtaken \subseteq failed

\* The doc stores hold the documents in the order of their docIDs, although
\* threads finish in any order, and all of them once every thread is paused:
\* what closeDocStore asserts of the length of the index files.
StoredInOrder ==
    abortCount = 0 =>
      /\ stored = SubSeq(ram, 1, Len(stored))
      /\ AllThreadsIdle => Len(stored) = numDocsInRAM

\* Whoever waits in line, the document they wait for is being processed and
\* will have its turn; and a state in line is not idle (finishDocument asserts
\* it), so that nobody takes it.
TurnComes ==
    abortCount = 0 /\ line # {} =>
      /\ \A i \in line : ~IsIdle(i) /\ threadStates[i].docID > nextWriteDocID
      /\ \E t \in Thread : /\ call[t].at \in {"process", "unwind"}
                           /\ MyTurn(t)

\* "We must at this point commit to flushing to ensure we always get N docs
\* when we flush by doc count, even if > 1 thread is adding documents": the
\* buffer never holds more, but for documents that failed.  One that is marked
\* too late may take the flush from another document, which then has none.
NeverMoreThanN ==
    overtaken = {} =>
        Cardinality({k \in DOMAIN ram : ram[k] \notin failed}) <= MaxBufferedDocs

\* A document that failed is not in the index, unless a flush, an abort or
\* another document overtook it: it is marked in a critical section of its own,
\* when its thread state is idle already, and a flush that has found no deletes
\* to flush by then, or has written the document, takes it as it is.
AllOrNone == index \cap failed \subseteq overtaken

\* What updateDocument says of it, with no exception: "Immediately mark this
\* document as deleted [...] This keeps indexing as 'all or none' (atomic) when
\* adding a document".
FailedNeverLive == index \cap failed = {}

\* Once close() has let every thread go, nothing is left in RAM: a document
\* that got past the test of closed is in the last flush.
ClosedHoldsNothing ==
    closed /\ (\A t \in Thread : At(t, "out")) => ram = <<>>

\* What the callers see: flushed documents and those in RAM, less what is
\* buffered to be deleted.
Segment == IF fresh = <<>> THEN ram ELSE fresh
View ==
    {d \in index : deleteNum = None}
      \cup {Segment[k] : k \in {j \in DOMAIN Segment :
                                  j > deleteNum /\ j - 1 \notin deleteDocIDs}}

Buffer == INSTANCE BufferedDocuments WITH Doc <- Documents, live <- View, durable <- index

\* Threads that add, update and delete at once, flush and abort, come to one
\* call after the other on the buffer of BufferedDocuments: a delete reaches
\* exactly the documents buffered before it, in RAM and on disk, and a flush
\* loses nothing and brings nothing back, until a failed document is marked too
\* late: the docID may be that of another document then.
Linearizable ==
    Buffer!Init /\ [][Buffer!Next \/ overtaken' # {}]_<<View, index>>

\* Every call returns: whoever sleeps is woken, the line moves on, and no
\* flush is pending that nobody does.  Except when abort() keeps the monitor.
CallsReturn ==
    \A t \in Thread : ~At(t, "out") ~> (At(t, "out") \/ monitor # NoOne)
=============================================================================
