---------------------------- MODULE MergeRegistry ----------------------------
(***************************************************************************)
(* index/IndexWriter.cpp: which merges are registered, running and failed, *)
(* for threads that flush, optimize, close and abort one writer.  Merges   *)
(* come from LogMergePolicy and are run by SerialMergeScheduler, the only  *)
(* scheduler there is, in the thread that asks for them.  What a merge     *)
(* does to files and documents is module IndexWriter.                      *)
(*                                                                         *)
(* A thread's call is the list of steps it still has to take; the monitor  *)
(* (THIS_LOCK) is free between two steps.  halted is how the process ends  *)
(* when the code loops forever with the monitor, or does what C++ leaves   *)
(* undefined; nobody takes a step after it.                                *)
(***************************************************************************)
EXTENDS LogMergePolicy, SequencesExt

CONSTANTS
    Thread,
    NoOne,         \* Holds no lock.
    InitialSizes,  \* Sizes of the segments in the index when it is opened.
    MaxSegments,   \* Optimize down to 1..MaxSegments.
    MaxFlushes,    \* Bound: segments flushed.
    MaxDeletes,    \* Bound: documents deleted.
    MaxCalls,      \* Bound: calls.
    MaxFaults      \* Bound: failures.

ASSUME NoOneAssumption == NoOne \notin Thread
ASSUME InitialAssumption == \A sizes \in InitialSizes : sizes \in Seq(Nat \ {0})
ASSUME BoundsAssumption ==
    /\ MaxSegments \in Nat \ {0} /\ MaxFlushes \in Nat
    /\ MaxDeletes \in Nat /\ MaxCalls \in Nat /\ MaxFaults \in Nat

VARIABLES
    segmentInfos,       \* Names of segments, in the order of the index.
    info,               \* What is known of each of them, see Flushed.
    counter,            \* segmentInfos->counter
    rollback,           \* rollbackSegmentInfos, with what is known of them.
    segmentsToOptimize,
    mergingSegments,
    pendingMerges,
    runningMerges,
    mergeExceptions,    \* Sources of failed merges, or Freed.
    mergeGen,
    stopMerges,
    closing,
    life,               \* "open"; "shut", without a docWriter; "closed"
    scheduler,          \* The thread that holds the scheduler's lock.
    call,
    asleep,
    overtaken,          \* Another call chose merges since the last optimize began.
    halted,
    calls, flushes, deletes, faults

index == <<segmentInfos, info, counter>>
merges == <<mergingSegments, pendingMerges, runningMerges>>
failures == <<mergeExceptions, mergeGen>>
optimizing == <<segmentsToOptimize, overtaken>>
ending == <<stopMerges, closing, life>>
bounds == <<calls, flushes, deletes, faults>>
vars == <<index, rollback, optimizing, merges, failures, ending, scheduler, call,
          asleep, halted, bounds>>

None == -1
Freed == <<>>

-----------------------------------------------------------------------------
(* Segments and merges.                                                    *)

\* A segment: documents, those of them deleted, and the flushed segments whose
\* documents it has.  A document is known by its place in a flushed segment.
Segment(name, size) == [docs |-> {name} \X (1..size), dels |-> {}, parts |-> {name}]
Flushed(name) == Segment(name, 1)

\* What is known of segments and of another one, that is flushed.
WithFlushed(known, name) ==
    [n \in DOMAIN known \cup {name} |-> IF n = name THEN Flushed(name) ELSE known[n]]

Sizes == [i \in DOMAIN segmentInfos |-> Cardinality(info[segmentInfos[i]].docs)]
Places(names) == {i \in DOMAIN segmentInfos : segmentInfos[i] \in names}
Clean == {i \in DOMAIN segmentInfos : info[segmentInfos[i]].dels = {}}

\* A merge of the segments src into out, with the deletions snap they had when
\* it began.
NewMerge(range, opt, max) ==
    [src |-> SubSeq(segmentInfos, range[1], range[2]), optimize |-> opt, max |-> max,
     gen |-> mergeGen, out |-> None, snap |-> <<>>]

Bound(m) == IF m.out = None THEN {} ELSE {m.out}
Uses(m) == ToSet(m.src) \cup Bound(m)

\* Seeded fault: a merge is refused only for its first segment.
FreeFirst(m, merging) == m.src[1] \notin merging

\* registerMerge refuses a merge when one of its segments is being merged.
Free(m, merging) == ToSet(m.src) \cap merging = {}

\* registerMerge refuses a merge of what is not in the index.
InIndex(range) ==
    range[1] \in DOMAIN segmentInfos /\ range[2] \in range[1]..Len(segmentInfos)

\* The merges the policy asks for, as ranges of segments.
Asked(opt, max) ==
    IF opt THEN FindMergesForOptimize(Sizes, Places(segmentsToOptimize), Clean, max)
    ELSE FindMerges(Sizes)

\* When these segments are merging, and the merges asked (of these ranges) are
\* registered one after the other, the nth[1]st, nth[2]nd... are.
Registers(ranges, asked, nth, merging) ==
    LET before(k) == {i \in DOMAIN nth : nth[i] < k}
        taken(k)  == UNION {ToSet(asked[nth[i]].src) : i \in before(k)}
    IN  /\ \A i, j \in DOMAIN nth : i < j => nth[i] < nth[j]
        /\ \A k \in DOMAIN ranges :
             (\E i \in DOMAIN nth : nth[i] = k)
               <=> InIndex(ranges[k]) /\ Free(asked[k], merging \cup taken(k))

\* updatePendingMerges, when these segments are merging.  A natural merge of
\* segments that an optimize is to merge overtakes it.
UpdatePendingMerges(merging, opt, max) ==
    \E ranges \in {IF stopMerges THEN <<>> ELSE Asked(opt, max)} :
    \E asked \in {[k \in DOMAIN ranges |-> NewMerge(ranges[k], opt, max)]} :
    \E n \in 0..Len(ranges) : \E nth \in [1..n -> DOMAIN ranges] :
       LET segs == UNION {ToSet(asked[nth[i]].src) : i \in 1..n}
       IN  /\ Registers(ranges, asked, nth, merging)
           /\ pendingMerges' = pendingMerges \o [i \in 1..n |-> asked[nth[i]]]
           /\ mergingSegments' = merging \cup segs
           /\ overtaken' = (overtaken \/ (~opt /\ segs \cap segmentsToOptimize # {}))

-----------------------------------------------------------------------------
(* Calls.                                                                  *)

\* op: what was called; todo: the steps left of it; src: the merge the thread
\* runs; max: the argument of optimize; goal: the segments it is to optimize.
NoCall == [op |-> "none", todo |-> <<>>, src |-> <<>>, max |-> 0, goal |-> {}]

Out(t) == call[t].op = "none"
At(t, step) == call[t].todo # <<>> /\ Head(call[t].todo) = step
Runs(t, step) == halted = "no" /\ t \notin asleep /\ At(t, step)
Rest(t) == Tail(call[t].todo)

\* t goes on with these steps, or returns when there are none.
Does(t, c, steps) ==
    call' = [call EXCEPT ![t] = IF steps = <<>> THEN NoCall ELSE [c EXCEPT !.todo = steps]]
Goes(t, steps) == Does(t, call[t], steps)
Advances(t) == Goes(t, Rest(t))

Halts(how) ==
    /\ halted' = how
    /\ UNCHANGED <<index, rollback, optimizing, merges, failures, ending, scheduler,
                   call, asleep, calls, flushes, deletes>>

\* Seeded fault: the scheduler runs before there is anything to run.
ScheduleFirst == <<"schedule", "select">>

\* maybeMerge.
MaybeMerge == <<"select", "schedule">>

CloseSteps(wait) ==
    IF wait THEN <<"flush", "schedule", "finishMerges", "shut", "close">>
    ELSE <<"flush", "stopMerges", "shut", "close">>

Init ==
    /\ \E sizes \in InitialSizes :
         /\ segmentInfos = [i \in DOMAIN sizes |-> i - 1]
         /\ info = [n \in ToSet(segmentInfos) |-> Segment(n, sizes[n + 1])]
         /\ counter = Len(sizes)
    /\ rollback = <<segmentInfos, info>>
    /\ segmentsToOptimize = {} /\ overtaken = FALSE
    /\ mergingSegments = {} /\ pendingMerges = <<>> /\ runningMerges = {}
    /\ mergeExceptions = <<>> /\ mergeGen = 0
    /\ stopMerges = FALSE /\ closing = FALSE /\ life = "open"
    /\ scheduler = NoOne
    /\ call = [t \in Thread |-> NoCall]
    /\ asleep = {} /\ halted = "no"
    /\ calls = 0 /\ flushes = 0 /\ deletes = 0 /\ faults = 0

Begins(t, op, steps, max) ==
    /\ halted = "no" /\ Out(t) /\ calls < MaxCalls
    /\ calls' = calls + 1
    /\ Does(t, [NoCall EXCEPT !.op = op, !.max = max], steps)
    /\ UNCHANGED <<index, rollback, segmentsToOptimize, merges, failures, stopMerges,
                   life, scheduler, asleep, halted, flushes, deletes, faults>>

CallFlush(t) ==
    /\ life # "closed"
    /\ Begins(t, "flush", <<"flush">>, 0)
    /\ UNCHANGED <<closing, overtaken>>

CallMaybeMerge(t) ==
    /\ Begins(t, "maybeMerge", MaybeMerge, 0)
    /\ UNCHANGED <<closing, overtaken>>

CallOptimize(t) ==
    /\ life # "closed"
    /\ \E max \in 1..MaxSegments, wait \in BOOLEAN :
         Begins(t, "optimize",
                <<"flush", "mark", "selectOptimize", "schedule">>
                  \o (IF wait THEN <<"await">> ELSE <<>>), max)
    /\ UNCHANGED <<closing, overtaken>>

\* close(waitForMerges): one thread closes, the others wait for it.
CallClose(t) ==
    /\ \E wait \in BOOLEAN :
         Begins(t, "close", IF closing THEN <<"waitForClose">> ELSE CloseSteps(wait), 0)
    /\ closing' = TRUE
    /\ overtaken' = TRUE

CallAbort(t) ==
    /\ life # "closed"
    /\ Begins(t, "abort", IF closing THEN <<"waitForClose">>
                          ELSE <<"stopMerges", "rollback">> \o CloseSteps(FALSE), 0)
    /\ closing' = TRUE
    /\ overtaken' = TRUE

\* The steps after a flush: maybeMerge, when something was flushed and the
\* caller wants merges.
AfterFlush(t) ==
    IF "stopMerges" \in ToSet(Rest(t)) THEN Rest(t) ELSE MaybeMerge \o Rest(t)

NewSegment ==
    /\ flushes < MaxFlushes
    /\ flushes' = flushes + 1
    /\ segmentInfos' = Append(segmentInfos, counter)

Live(n) == info[n].docs \ info[n].dels

\* flush: a segment of what is buffered, and a buffered delete of a document, no
\* matter which, in one of the segments before it.
Flush(t) ==
    /\ Runs(t, "flush") /\ life = "open"
    /\ NewSegment
    /\ counter' = counter + 1
    /\ \/ info' = WithFlushed(info, counter) /\ UNCHANGED deletes
       \/ \E n \in ToSet(segmentInfos) :
            /\ deletes < MaxDeletes /\ Live(n) # {}
            /\ deletes' = deletes + 1
            /\ info' = WithFlushed([info EXCEPT ![n].dels = @ \cup {CHOOSE d \in Live(n) : TRUE}],
                                   counter)
    /\ Goes(t, AfterFlush(t))
    /\ UNCHANGED <<rollback, optimizing, merges, failures, ending, scheduler, asleep,
                   halted, calls, faults>>

\* Nothing is buffered.
FlushNothing(t) ==
    /\ Runs(t, "flush") /\ life = "open"
    /\ Advances(t)
    /\ UNCHANGED <<index, rollback, optimizing, merges, failures, ending, scheduler,
                   asleep, halted, bounds>>

\* ensureOpen throws once closed is set; before that, closeInternal has already
\* deleted the docWriter that doFlush uses.
FlushClosed(t) ==
    /\ Runs(t, "flush")
    /\ \/ life = "shut" /\ Halts("undefined") /\ UNCHANGED faults
       \/ /\ life = "closed"
          /\ Goes(t, <<>>)
          /\ UNCHANGED <<index, rollback, optimizing, merges, failures, ending,
                         scheduler, asleep, halted, bounds>>

Mark(t) ==
    /\ Runs(t, "mark")
    /\ mergeExceptions' = <<>> /\ mergeGen' = mergeGen + 1
    /\ segmentsToOptimize' = ToSet(segmentInfos)
    /\ overtaken' = \E u \in Thread \ {t} : call[u].op \in {"close", "abort"} \/ call[u].goal # {}
    /\ LET marked(m) == [m EXCEPT !.optimize = TRUE, !.max = call[t].max]
       IN  /\ pendingMerges' = [k \in DOMAIN pendingMerges |-> marked(pendingMerges[k])]
           /\ runningMerges' = {marked(m) : m \in runningMerges}
    /\ Does(t, [call[t] EXCEPT !.goal = UNION {info[n].parts : n \in ToSet(segmentInfos)}], Rest(t))
    /\ UNCHANGED <<index, rollback, mergingSegments, ending, scheduler, asleep, halted, bounds>>

Select(t) ==
    /\ Runs(t, "select")
    /\ UpdatePendingMerges(mergingSegments, FALSE, 0)
    /\ Advances(t)
    /\ UNCHANGED <<index, rollback, segmentsToOptimize, runningMerges, failures,
                   ending, scheduler, asleep, halted, bounds>>

SelectOptimize(t) ==
    /\ Runs(t, "selectOptimize")
    /\ UpdatePendingMerges(mergingSegments, TRUE, call[t].max)
    /\ Advances(t)
    /\ UNCHANGED <<index, rollback, segmentsToOptimize, runningMerges, failures,
                   ending, scheduler, asleep, halted, bounds>>

-----------------------------------------------------------------------------
(* Running merges.                                                         *)

\* Seeded fault: the scheduler's lock is not taken.
SchedulingUnlocked(t) == Runs(t, "schedule")

\* SerialMergeScheduler::merge holds its lock until no merge is pending.
Scheduling(t) == Runs(t, "schedule") /\ scheduler \in {NoOne, t}

GetNextMerge(t) ==
    /\ Scheduling(t) /\ pendingMerges # <<>>
    /\ scheduler' = t
    /\ pendingMerges' = Tail(pendingMerges)
    /\ runningMerges' = runningMerges \cup {Head(pendingMerges)}
    /\ Does(t, [call[t] EXCEPT !.src = Head(pendingMerges).src],
            <<"mergeInit", "commitMerge", "mergeFinish">> \o call[t].todo)
    /\ UNCHANGED <<index, rollback, optimizing, mergingSegments, failures, ending,
                   asleep, halted, bounds>>

NoNextMerge(t) ==
    /\ Scheduling(t) /\ pendingMerges = <<>>
    /\ scheduler' = NoOne
    /\ Advances(t)
    /\ UNCHANGED <<index, rollback, optimizing, merges, failures, ending, asleep,
                   halted, bounds>>

Mine(t) == CHOOSE m \in runningMerges : m.src = call[t].src
Becomes(t, m) == runningMerges' = (runningMerges \ {Mine(t)}) \cup {m}

\* _mergeInit: the merged segment is named.  A flush of the doc stores that the
\* sources share with the buffer may bring a further segment.
MergeInit(t) ==
    LET m == Mine(t)
        inits(name) ==
          /\ Becomes(t, [m EXCEPT !.out = name,
                                   !.snap = [k \in DOMAIN m.src |-> info[m.src[k]].dels]])
          /\ mergingSegments' = mergingSegments \cup {name}
          /\ counter' = name + 1
    IN  /\ Runs(t, "mergeInit") /\ life = "open"
        /\ \/ inits(counter) /\ UNCHANGED <<segmentInfos, info, flushes>>
           \/ /\ NewSegment
              /\ info' = WithFlushed(info, counter)
              /\ inits(counter + 1)
        /\ Advances(t)
        /\ UNCHANGED <<rollback, optimizing, pendingMerges, failures, ending, scheduler,
                       asleep, halted, calls, deletes, faults>>

\* A writer that was closed meanwhile has no docWriter.
MergeInitClosed(t) ==
    /\ Runs(t, "mergeInit") /\ life # "open"
    /\ Halts("undefined")
    /\ UNCHANGED faults

\* That flush fails.  mergeInit finishes the merge and removes it from
\* runningMerges, which deletes it; merge() then finishes it again.
MergeInitFails(t) ==
    /\ Runs(t, "mergeInit") /\ life = "open" /\ faults < MaxFaults
    /\ faults' = faults + 1
    /\ Halts("undefined")

\* The merged segment: deletions that came after the merge began are kept.
Merged(m) ==
    [docs  |-> UNION {info[m.src[k]].docs \ m.snap[k] : k \in DOMAIN m.src},
     dels  |-> UNION {info[m.src[k]].dels \ m.snap[k] : k \in DOMAIN m.src},
     parts |-> UNION {info[n].parts : n \in ToSet(m.src)}]

\* Seeded fault: an optimize does not go on with what it merged.
NotOptimized(m) == {}

\* What commitMerge adds to segmentsToOptimize.
ToOptimize(m) == IF m.optimize THEN {m.out} ELSE {}

CommitMerge(t) ==
    LET m == Mine(t)
        first == CHOOSE i \in DOMAIN segmentInfos : segmentInfos[i] = m.src[1]
    IN  /\ Runs(t, "commitMerge")
        /\ segmentInfos' = SubSeq(segmentInfos, 1, first - 1) \o <<m.out>>
                             \o SubSeq(segmentInfos, first + Len(m.src), Len(segmentInfos))
        /\ info' = [n \in ToSet(segmentInfos') |-> IF n = m.out THEN Merged(m) ELSE info[n]]
        /\ segmentsToOptimize' = segmentsToOptimize \cup ToOptimize(m)
        /\ Advances(t)
        /\ UNCHANGED <<counter, rollback, overtaken, merges, failures, ending, scheduler,
                       asleep, halted, bounds>>

\* addMergeException(m), with what it leaves of mergeExceptions.  Its loop
\* compares m with the first failed merge again and again: it ends only if that
\* is m, or was freed and m is where it was.
AddsException(m, exceptions) ==
    IF mergeGen # m.gen \/ mergeExceptions = <<>>
    THEN exceptions = Append(mergeExceptions, m.src)
    ELSE /\ mergeExceptions[1] \in {m.src, Freed}
         /\ exceptions = mergeExceptions

\* A merge fails while it is built, at the next step commitMerge, or while its
\* compound file is, at the next step mergeFinish: mergeMiddle adds it to
\* mergeExceptions.
MergeFails(t, step) ==
    /\ Runs(t, step) /\ faults < MaxFaults
    /\ faults' = faults + 1
    /\ AddsException(Mine(t), mergeExceptions')
    /\ Goes(t, <<"failed">>)
    /\ UNCHANGED <<index, rollback, optimizing, merges, mergeGen, ending, scheduler,
                   asleep, halted, calls, flushes, deletes>>

\* commitMerge takes the segments back.
CommitMergeFails(t) ==
    /\ Runs(t, "commitMerge") /\ faults < MaxFaults
    /\ faults' = faults + 1
    /\ Goes(t, <<"failed">>)
    /\ UNCHANGED <<index, rollback, optimizing, merges, failures, ending, scheduler,
                   asleep, halted, calls, flushes, deletes>>

\* The first failed merge is another one: the loop never ends.
ExceptionsLoop(t, step) ==
    /\ Runs(t, step)
    /\ IF step = "failed" THEN UNCHANGED faults
       ELSE faults < MaxFaults /\ faults' = faults + 1
    /\ mergeGen = Mine(t).gen /\ mergeExceptions # <<>>
    /\ mergeExceptions[1] # Mine(t).src
    /\ Halts("loops")

\* Seeded fault: the name of the merged segment stays in mergingSegments.
FinishSources(m) == mergingSegments \ ToSet(m.src)

\* mergeFinish.
Finished(m) == mergingSegments \ Uses(m)

NotifyAll == asleep' = {}

\* Seeded fault: a merge that ended does not look for new ones.
NoCascade == FALSE

\* A merge that ended may make others possible.
Cascades == life # "closed" /\ ~closing

MergeEnded(t) ==
    /\ Runs(t, "mergeFinish")
    /\ \E m \in {Mine(t)} :
         /\ IF Cascades THEN UpdatePendingMerges(Finished(m), m.optimize, m.max)
            ELSE mergingSegments' = Finished(m) /\ UNCHANGED <<pendingMerges, overtaken>>
         /\ runningMerges' = runningMerges \ {m}
    /\ NotifyAll
    /\ Does(t, [call[t] EXCEPT !.src = <<>>], Rest(t))
    /\ UNCHANGED <<index, rollback, segmentsToOptimize, failures, ending, scheduler,
                   halted, bounds>>

\* A thread that unwinds an exception gives up the scheduler's lock; closeInternal
\* lets others close.
Throws(t) ==
    /\ scheduler' = IF scheduler = t THEN NoOne ELSE scheduler
    /\ closing' = (closing /\ call[t].op \notin {"close", "abort"})
    /\ Goes(t, <<>>)
    /\ NotifyAll

\* merge()'s finally.  Removing the merge from runningMerges deletes it.
MergeFailed(t) ==
    LET m == Mine(t)
    IN  /\ Runs(t, "failed")
        /\ mergingSegments' = Finished(m)
        /\ \E exceptions \in {mergeExceptions, Append(mergeExceptions, m.src)} :
             /\ AddsException(m, exceptions)
             /\ mergeExceptions' = [k \in DOMAIN exceptions |->
                                      IF exceptions[k] = m.src THEN Freed ELSE exceptions[k]]
        /\ runningMerges' = runningMerges \ {m}
        /\ Throws(t)
        /\ UNCHANGED <<index, rollback, optimizing, pendingMerges, mergeGen, stopMerges,
                       life, halted, bounds>>

-----------------------------------------------------------------------------
(* Waiting.                                                                *)

\* optimizeMergesPending advances its iterators twice per round: it looks at
\* every other merge, and past the end when their number is odd.
Odd(n) == n % 2 = 1
SeesPending == \E k \in DOMAIN pendingMerges : Odd(k) /\ pendingMerges[k].optimize
SeesRunning == \E m \in runningMerges : m.optimize
PastEnd == \/ ~SeesPending /\ Odd(Len(pendingMerges))
           \/ ~SeesPending /\ ~SeesRunning /\ Odd(Cardinality(runningMerges))
OptimizeMergesPending == SeesPending \/ SeesRunning

Await(t) ==
    /\ Runs(t, "await") /\ ~PastEnd
    /\ IF OptimizeMergesPending
       THEN asleep' = asleep \cup {t} /\ Goes(t, <<"awoken">>)
       ELSE Goes(t, <<>>) /\ UNCHANGED asleep
    /\ UNCHANGED <<index, rollback, optimizing, merges, failures, ending, scheduler,
                   halted, bounds>>

AwaitPastEnd(t) ==
    /\ Runs(t, "await") /\ PastEnd
    /\ Halts("loops")
    /\ UNCHANGED faults

\* What the first failed merge says of itself, or nothing it can be asked: it
\* was deleted.
FirstFailed(answer) ==
    \/ mergeExceptions[1] = Freed
    \/ \E m \in runningMerges : m.src = mergeExceptions[1] /\ m.optimize = answer

\* Woken, optimize looks for an exception of a merge it waited for.
Awoken(t) ==
    /\ Runs(t, "awoken")
    /\ mergeExceptions # <<>> => FirstFailed(FALSE)
    /\ Goes(t, <<"await">>)
    /\ UNCHANGED <<index, rollback, optimizing, merges, failures, ending, scheduler,
                   asleep, halted, bounds>>

AwokenToFailure(t) ==
    /\ Runs(t, "awoken")
    /\ mergeExceptions # <<>> /\ FirstFailed(TRUE)
    /\ Throws(t)
    /\ UNCHANGED <<index, rollback, optimizing, merges, failures, stopMerges, life,
                   halted, bounds>>

AwokenToFreed(t) ==
    /\ Runs(t, "awoken")
    /\ mergeExceptions # <<>> /\ mergeExceptions[1] = Freed
    /\ Halts("undefined")
    /\ UNCHANGED faults

\* finishMerges(true) waits for this.
NoneLeft == pendingMerges = <<>> /\ runningMerges = {}

FinishMerges(t) ==
    /\ Runs(t, "finishMerges")
    /\ IF NoneLeft THEN Advances(t) /\ UNCHANGED asleep
       ELSE asleep' = asleep \cup {t} /\ UNCHANGED call
    /\ UNCHANGED <<index, rollback, optimizing, merges, failures, ending, scheduler,
                   halted, bounds>>

\* finishMerges(false) aborts and finishes every other pending merge, as its
\* iterators too advance twice per round, and drops them all.
StopMerges(t) ==
    /\ Runs(t, "stopMerges")
    /\ runningMerges = {} /\ ~Odd(Len(pendingMerges))
    /\ stopMerges' = TRUE
    /\ mergingSegments' = mergingSegments \
         UNION {Uses(pendingMerges[k]) : k \in {j \in DOMAIN pendingMerges : Odd(j)}}
    /\ pendingMerges' = <<>>
    /\ Advances(t)
    /\ UNCHANGED <<index, rollback, optimizing, runningMerges, failures, closing, life,
                   scheduler, asleep, halted, bounds>>

\* An odd number of pending merges, or one running, takes them past the end.
StopMergesPastEnd(t) ==
    /\ Runs(t, "stopMerges")
    /\ runningMerges # {} \/ Odd(Len(pendingMerges))
    /\ Halts("loops")
    /\ UNCHANGED faults

WaitForClose(t) ==
    /\ Runs(t, "waitForClose")
    /\ IF closing /\ life # "closed" THEN asleep' = asleep \cup {t} /\ UNCHANGED call
       ELSE Advances(t) /\ UNCHANGED asleep
    /\ UNCHANGED <<index, rollback, optimizing, merges, failures, ending, scheduler,
                   halted, bounds>>

-----------------------------------------------------------------------------
(* Closing.                                                                *)

\* abort() goes back to the segments the writer was opened with.
Rollback(t) ==
    /\ Runs(t, "rollback")
    /\ segmentInfos' = rollback[1] /\ info' = rollback[2]
    /\ Advances(t)
    /\ UNCHANGED <<counter, rollback, optimizing, merges, failures, ending, scheduler,
                   asleep, halted, bounds>>

\* closeInternal commits and deletes docWriter.
Shut(t) ==
    /\ Runs(t, "shut")
    /\ life' = "shut"
    /\ Advances(t)
    /\ UNCHANGED <<index, rollback, optimizing, merges, failures, stopMerges, closing,
                   scheduler, asleep, halted, bounds>>

\* The commit fails, and another thread may close.
ShutFails(t) ==
    /\ Runs(t, "shut") /\ faults < MaxFaults
    /\ faults' = faults + 1
    /\ Throws(t)
    /\ UNCHANGED <<index, rollback, optimizing, merges, failures, stopMerges, life,
                   halted, calls, flushes, deletes>>

\* Seeded fault: closeInternal does not notify.
NotifyNobody == UNCHANGED asleep

\* closed is set, and closeInternal's finally notifies.
NotifyClosed == NotifyAll

Closed(t) ==
    /\ Runs(t, "close")
    /\ life' = "closed"
    /\ NotifyClosed
    /\ Advances(t)
    /\ UNCHANGED <<index, rollback, optimizing, merges, failures, stopMerges, closing,
                   scheduler, halted, bounds>>

-----------------------------------------------------------------------------
Call(t) ==
    \/ CallFlush(t) \/ CallMaybeMerge(t) \/ CallOptimize(t) \/ CallClose(t) \/ CallAbort(t)

\* What a thread in a call does when it is scheduled.
Step(t) ==
    \/ Flush(t) \/ FlushNothing(t) \/ FlushClosed(t)
    \/ Mark(t) \/ Select(t) \/ SelectOptimize(t)
    \/ GetNextMerge(t) \/ NoNextMerge(t)
    \/ MergeInit(t) \/ MergeInitClosed(t) \/ CommitMerge(t)
    \/ MergeEnded(t) \/ MergeFailed(t) \/ ExceptionsLoop(t, "failed")
    \/ Await(t) \/ AwaitPastEnd(t) \/ Awoken(t) \/ AwokenToFailure(t) \/ AwokenToFreed(t)
    \/ FinishMerges(t) \/ StopMerges(t) \/ StopMergesPastEnd(t) \/ WaitForClose(t)
    \/ Rollback(t) \/ Shut(t) \/ Closed(t)

Fault(t) ==
    \/ MergeInitFails(t) \/ CommitMergeFails(t) \/ ShutFails(t)
    \/ \E step \in {"commitMerge", "mergeFinish"} : MergeFails(t, step) \/ ExceptionsLoop(t, step)

Next == \E t \in Thread : Call(t) \/ Step(t) \/ Fault(t)

\* Nobody has to call, and nothing has to fail; a thread in a call is
\* scheduled again and again.
Fairness == \A t \in Thread : WF_vars(Step(t))

Spec == Init /\ [][Next]_vars /\ Fairness

-----------------------------------------------------------------------------
(* Properties.                                                             *)

Registereds == ToSet(pendingMerges) \cup runningMerges

Document == Nat \X Nat
Merge == [src : Seq(Nat), optimize : BOOLEAN, max : 0..MaxSegments, gen : Nat,
          out : Nat \cup {None}, snap : Seq(SUBSET Document)]

\* Every variable has a value of its type, and SerialMergeScheduler runs one
\* merge at a time.
TypeOK ==
    /\ segmentInfos \in Seq(0..(counter - 1)) /\ IsInjective(segmentInfos)
    /\ DOMAIN info = ToSet(segmentInfos)
    /\ \A n \in DOMAIN info : info[n].dels \subseteq info[n].docs /\ info[n].docs \subseteq Document
    /\ segmentsToOptimize \subseteq 0..(counter - 1) /\ mergingSegments \subseteq 0..(counter - 1)
    /\ Registereds \subseteq Merge /\ Cardinality(runningMerges) <= 1
    /\ mergeExceptions \in Seq(Seq(Nat)) /\ mergeGen \in Nat
    /\ {stopMerges, closing, overtaken} \subseteq BOOLEAN
    /\ life \in {"open", "shut", "closed"} /\ halted \in {"no", "loops", "undefined"}
    /\ scheduler \in Thread \cup {NoOne} /\ asleep \subseteq Thread
    /\ \A t \in Thread : Out(t) <=> call[t].todo = <<>>

\* A segment is in one registered merge only, and until it is merged its
\* neighbours in the merge are its neighbours in the index
\* (ensureContiguousMerge throws otherwise).
MergesApart ==
    /\ \A m, n \in Registereds : m # n => Uses(m) \cap Uses(n) = {}
    /\ \A m \in Registereds :
         m.out \notin ToSet(segmentInfos) => \E i, j \in DOMAIN segmentInfos : SubSeq(segmentInfos, i, j) = m.src

\* mergingSegments is what the registered merges use, no more (such a segment
\* would never be merged again) and no less, until merges are stopped.
MergingExact ==
    ~stopMerges => mergingSegments = UNION {Uses(m) : m \in Registereds}

\* While nothing fails, a registered merge has a thread that will run it.
PendingServed ==
    faults = 0 /\ halted = "no" /\ pendingMerges # <<>> =>
        \E t \in Thread : "schedule" \in ToSet(call[t].todo)

\* With nothing left to do, the policy finds nothing to merge: whatever a flush
\* or a merge made possible was done, however they interleaved.
MergedDown ==
    /\ \A t \in Thread : Out(t)
    /\ faults = 0 /\ mergeGen = 0 /\ ~closing /\ halted = "no"
    /\ FindMerges([i \in DOMAIN rollback[1] |-> Cardinality(rollback[2][rollback[1][i]].docs)]) = <<>>
    => FindMerges(Sizes) = <<>>

\* "Optimize the index down to <= maxNumSegments": when optimize(max) returns,
\* the documents that were flushed when it began are in max segments, unless
\* another call chose to merge some of them meanwhile, or it failed.
OptimizedDown ==
    [][\A t \in Thread :
         /\ At(t, "await") /\ call'[t] = NoCall
         /\ ~overtaken /\ faults = 0 /\ ~stopMerges
         => Cardinality({n \in DOMAIN info : info[n].parts \cap call[t].goal # {}}) <= call[t].max]_vars

\* A merge failed and left others pending, that no thread runs.
Stranded == faults > 0 /\ pendingMerges # <<>>

\* Every call returns: whoever waits for merges or for a close is woken when
\* they end.  Except that the process may have halted, or wait for merges that
\* were left behind by one that failed.
CallsReturn == \A t \in Thread : ~Out(t) ~> (Out(t) \/ halted # "no" \/ Stranded)
=============================================================================
