----------------------- MODULE DocumentsWriter_proofs -----------------------
(***************************************************************************)
(* Proofs that the safety properties of DocumentsWriter hold for any       *)
(* finite number of threads and any number of thread states, documents,    *)
(* calls and failures, and that it implements BufferedDocuments.           *)
(*                                                                         *)
(* They all follow from one inductive invariant, IInv.  It says that       *)
(* pauseThreads, abortCount and numThreads count what they should          *)
(* (CountsOK), so that a thread that finds them 0 knows where the others   *)
(* are; that the monitors and the pause keep apart what must not meet      *)
(* (LocksOK); that a thread state that is not idle is worked on by one     *)
(* thread or in line (WorkOK); that those states hold, one each, the       *)
(* docIDs from nextWriteDocID on (InTurn); and where documents are and     *)
(* which of them are marked as deleted (DocsOK, DeletesOK).                *)
(*                                                                         *)
(* Actions of one kind share their proof: what t does is put into one      *)
(* definition, and each action shown to be an instance of it.              *)
(*     Light    t goes on, and nothing happens to documents                *)
(*     Works    t does something for the document it works on              *)
(*     Fails    t marks its document as deleted                            *)
(*     Takes    a document gets its docID; Waits: it has to wait           *)
(*     Flushes  t, having paused the others, empties RAM                   *)
(*     Aborts   t gives everything up, or waits for those at work          *)
(***************************************************************************)
EXTENDS DocumentsWriter, SequenceTheorems, FiniteSetTheorems, WellFoundedInduction, TLAPS

CallType == [at : Where, state : {0} \cup State, doc : {0} \cup Documents,
             update : BOOLEAN, aborting : BOOLEAN]
StateType == [isIdle : BOOLEAN, docID : DocID, doFlushAfter : BOOLEAN,
              numThreads : 0..Cardinality(Thread)]

\* A thread that inverts a document, and one in doFlush that paused the others.
Working(t) == call[t].at \in {"process", "unwind"}
Flushing(t) == call[t].at \in {"pause", "paused", "skip", "write", "apply", "clear", "resume"}

CallsOK ==
    /\ call \in [Thread -> CallType]
    /\ \A t \in Thread :
         /\ call[t].aborting => call[t].at \in {"unwind", "failed", "abort", "stuck"}
         /\ call[t].at \in {"wait", "process", "unwind", "finished", "failed"} =>
              call[t].state \in DOMAIN threadStates /\ call[t].doc # 0
    /\ threadBindings \in [Thread -> {0} \cup State]
    /\ \A t \in Thread : threadBindings[t] \in {0} \cup DOMAIN threadStates

StatesOK ==
    /\ threadStates \in Seq(StateType) /\ Len(threadStates) <= MaxThreadState
    /\ line \subseteq DOMAIN threadStates

\* What is counted is there.
Waiters == {t \in Thread : At(t, "wait")}
Aborters == {t \in Thread : call[t].aborting}
Pausers == {t \in Thread : Flushing(t) \/ At(t, "stuck")}
Binders(i) == {t \in Thread : threadBindings[t] = i}
CountsOK ==
    /\ abortCount = Cardinality(Aborters)
    /\ pauseThreads = Cardinality(Pausers)
    /\ docs \in Nat /\ docs <= MaxDocs /\ nextDocID + Cardinality(Waiters) <= docs
    /\ monitor = NoOne => \A i \in DOMAIN threadStates : threadStates[i].numThreads = Cardinality(Binders(i))

\* The monitors, and what nobody does while all threads are paused.
LocksOK ==
    /\ monitor \in Thread \cup {NoOne} /\ writerLock \in Thread \cup {NoOne}
    /\ asleep \subseteq Thread
    /\ monitor # NoOne => line = {} /\ ~AllThreadsIdle
    /\ \A t \in Thread :
         /\ At(t, "stuck") <=> monitor = t
         /\ Flushing(t) \/ (At(t, "abort") /\ ~call[t].aborting) => writerLock = t
         /\ call[t].at \in {"paused", "write", "apply", "clear", "resume"} => abortCount = 0 /\ AllThreadsIdle
         /\ call[t].at \in {"apply", "clear", "resume"} => ram = <<>>
    /\ fresh # <<>> => \E t \in Thread : At(t, "apply") \/ At(t, "clear")

\* A thread state that is not idle is worked on or in line.
WorkOK ==
    /\ \A t, u \in Thread : Working(t) /\ Working(u) /\ Mine(t) = Mine(u) => t = u
    /\ \A t \in Thread : Working(t) => ~IsIdle(Mine(t)) /\ Mine(t) \notin line
    /\ \A i \in DOMAIN threadStates :
         ~IsIdle(i) => i \in line \/ \E t \in Thread : Working(t) /\ Mine(t) = i
    /\ abortCount = 0 => \A i \in line : ~IsIdle(i)

\* What is in RAM and not in the doc stores, each document has a thread state.
InTurn ==
    /\ \A i \in DOMAIN threadStates :
         ~IsIdle(i) => threadStates[i].docID >= nextWriteDocID /\ threadStates[i].docID < nextDocID
    /\ \A i, j \in DOMAIN threadStates :
         ~IsIdle(i) /\ ~IsIdle(j) /\ threadStates[i].docID = threadStates[j].docID => i = j
    /\ \A k \in nextWriteDocID..(nextDocID - 1) :
         \E i \in DOMAIN threadStates : ~IsIdle(i) /\ threadStates[i].docID = k
    /\ \A i \in line : threadStates[i].docID # nextWriteDocID

StoredOK ==
    /\ ram \in Seq(Documents) /\ stored \in Seq(Documents)
    /\ Len(ram) = nextDocID /\ numDocsInRAM = nextDocID
    /\ nextWriteDocID \in 0..MaxDocs
    /\ abortCount = 0 => /\ nextWriteDocID = Len(stored) /\ nextWriteDocID <= nextDocID
                         /\ \A k \in 1..Len(stored) : stored[k] = ram[k]
    /\ abortCount = 0 /\ monitor = NoOne => InTurn

\* Where documents are.  Those of different threads differ.
DocsOK ==
    /\ fresh \in Seq(Documents) /\ index \subseteq Documents /\ applied \subseteq Documents
    /\ failed \subseteq Documents /\ overtaken \subseteq failed
    /\ \A t \in Thread : call[t].doc <= docs
    /\ \A t, u \in Thread : t # u /\ call[t].doc = call[u].doc => call[t].doc = 0
    /\ \A t \in Thread : At(t, "wait") =>
         call[t].doc \notin Range(ram) \cup Range(fresh) \cup index \cup failed
    /\ \A t \in Thread : call[t].at \in {"process", "unwind", "failed"} => call[t].doc \notin failed
    /\ \A d \in Range(ram) \cup Range(fresh) \cup index \cup failed : d <= docs
    /\ \A j, k \in DOMAIN ram : ram[j] = ram[k] => j = k
    /\ \A j, k \in DOMAIN fresh : fresh[j] = fresh[k] => j = k
    /\ (Range(ram) \cup Range(fresh)) \cap index = {}
    /\ \A t \in Thread : At(t, "clear") => applied \subseteq index \cup Range(fresh)

\* Documents that failed are deleted, if they were marked in time.
DeletesOK ==
    /\ deleteNum \in {None} \cup Nat /\ deleteNum <= Len(Segment)
    /\ numDeleteTerms \in Nat /\ deleteDocIDs \subseteq DocID
    /\ overtaken = {} => \A n \in deleteDocIDs : n < Len(Segment)
    /\ \A k \in DOMAIN ram :
         ram[k] \in failed => (~TakenAsLive /\ k - 1 \in deleteDocIDs) \/ ram[k] \in overtaken
    /\ \A k \in DOMAIN fresh :
         fresh[k] \in failed => (flushDeletes /\ k - 1 \in deleteDocIDs) \/ fresh[k] \in overtaken
    /\ AllOrNone
    /\ \A t \in Thread : call[t].at \in {"write", "apply"} /\ ~flushDeletes =>
         deleteNum = None /\ (overtaken = {} => deleteDocIDs = {})
    /\ \A t \in Thread : At(t, "clear") =>
         /\ applied \cap failed \subseteq overtaken
         /\ overtaken = {} => applied = LiveBefore \cup LiveOf(fresh)

Kept == {k \in DOMAIN ram : ram[k] \notin failed}

\* N documents make a flush due, and nobody gets a docID before it is done.
FlushOK ==
    overtaken = {} =>
      /\ Cardinality(Kept) <= MaxBufferedDocs
      /\ ~flushPending => Cardinality(Kept) < MaxBufferedDocs

\* What is in RAM when the writer is closed, somebody will flush or give up.
ClosedOK ==
    closed /\ ram # <<>> =>
        \E t \in Thread : call[t].at \in {"flush", "pause", "paused", "write", "stuck"} \/ call[t].aborting

RestOK == {flushPending, bufferIsFull, closed, flushDeletes} \subseteq BOOLEAN /\ faults \in Nat

IInv ==
    /\ CallsOK /\ StatesOK /\ CountsOK /\ LocksOK /\ WorkOK /\ StoredOK
    /\ DocsOK /\ DeletesOK /\ FlushOK /\ ClosedOK /\ RestOK

-----------------------------------------------------------------------------
(* Numbers and sets of threads.                                            *)

LEMMA Least ==
  ASSUME NEW S \in SUBSET Nat, S # {}
  PROVE  \E m \in S : \A k \in S : m <= k
PROOF
<1> DEFINE R == OpToRel(<, Nat)
<1>1. IsWellFoundedOn(R, Nat)
  BY NatLessThanWellFounded
<1>2. \A k, m \in S : k < m => <<k, m>> \in R
  BY DEF OpToRel
<1> HIDE DEF R
<1>3. PICK m \in S : \A k \in S : ~(<<k, m>> \in R)
  BY <1>1, WFMin
<1>4. \A k \in S : ~(k < m)
  BY <1>2, <1>3
<1> QED
  BY <1>4

LEMMA Counted ==
  ASSUME NEW A \in SUBSET Thread
  PROVE  /\ IsFiniteSet(A) /\ Cardinality(A) \in Nat
         /\ Cardinality(A) <= Cardinality(Thread) /\ Cardinality(Thread) \in Nat
         /\ Cardinality(A) = 0 <=> A = {}
PROOF
  BY ThreadAssumption, FS_Subset, FS_CardinalityType, FS_EmptySet

\* One thread less, or more, or the same ones.
LEMMA Recounted ==
  ASSUME NEW A \in SUBSET Thread, NEW B \in SUBSET Thread, NEW t \in Thread,
         \A u \in Thread \ {t} : u \in A <=> u \in B
  PROVE  /\ t \in A /\ t \notin B => Cardinality(B) = Cardinality(A) - 1
         /\ t \notin A /\ t \in B => Cardinality(B) = Cardinality(A) + 1
         /\ (t \in A <=> t \in B) => B = A
PROOF
<1>1. CASE t \in A /\ t \notin B
  <2>1. B = A \ {t}
    BY <1>1
  <2> QED
    BY <1>1, <2>1, Counted, FS_RemoveElement
<1>2. CASE t \notin A /\ t \in B
  <2>1. B = A \cup {t}
    BY <1>2
  <2> QED
    BY <1>2, <2>1, Counted, FS_AddElement
<1>3. CASE t \in A <=> t \in B
  BY <1>3
<1> QED
  BY <1>1, <1>2, <1>3

-----------------------------------------------------------------------------
(* Calls.                                                                  *)

\* t goes on at this place with what c has, or with nothing.
Moved(t, c, where) ==
    /\ call' \in [Thread -> CallType]
    /\ \A u \in Thread \ {t} : call'[u] = call[u]
    /\ call'[t].at = where
    /\ where \in {"out", "flush", "cleanup"} =>
         call'[t].state = 0 /\ call'[t].doc = 0 /\ ~call'[t].aborting
    /\ where \notin {"out", "flush", "cleanup"} =>
         call'[t].state = c.state /\ call'[t].doc = c.doc /\ (call'[t].aborting <=> c.aborting)

LEMMA NoCallType == NoCall \in CallType
PROOF
  BY DEF NoCall, CallType, Where

LEMMA Going ==
  ASSUME CallsOK, NEW t \in Thread, NEW c \in CallType, NEW where \in Where, GoWith(t, c, where)
  PROVE  Moved(t, c, where)
PROOF
<1>1. PICK b : b = IF where \in {"out", "flush", "cleanup"} THEN NoCall ELSE c
  OBVIOUS
<1>2. PICK d : d = [b EXCEPT !.at = where]
  OBVIOUS
<1>3. b \in CallType
  BY <1>1, NoCallType
<1>4. /\ d \in CallType /\ d.at = where /\ d.state = b.state /\ d.doc = b.doc
      /\ d.aborting = b.aborting
  BY <1>2, <1>3 DEF CallType
<1>5. call' = [call EXCEPT ![t] = d]
  BY <1>1, <1>2 DEF GoWith
<1>6. call \in [Thread -> CallType]
  BY DEF CallsOK
<1>7. call'[t] = d /\ call' \in [Thread -> CallType] /\ \A u \in Thread \ {t} : call'[u] = call[u]
  BY <1>4, <1>5, <1>6
<1>8. where \in {"out", "flush", "cleanup"} => b.state = 0 /\ b.doc = 0 /\ ~b.aborting
  BY <1>1 DEF NoCall
<1>9. where \notin {"out", "flush", "cleanup"} => b = c
  BY <1>1
<1> QED
  BY <1>4, <1>7, <1>8, <1>9 DEF Moved

LEMMA Going1 ==
  ASSUME CallsOK, NEW t \in Thread, NEW where \in Where, Goto(t, where)
  PROVE  Moved(t, call[t], where)
PROOF
  BY Going DEF Goto, CallsOK

\* What a thread has in a call.
LEMMA CallTyped ==
  ASSUME CallsOK, NEW t \in Thread
  PROVE  /\ call[t] \in CallType /\ call[t].at \in Where /\ call[t].state \in {0} \cup State
         /\ call[t].doc \in {0} \cup Documents /\ call[t].aborting \in BOOLEAN
         /\ call[t].update \in BOOLEAN
PROOF
  BY DEF CallsOK, CallType

LEMMA CallsKept ==
  ASSUME CallsOK, NEW t \in Thread, NEW c, NEW where, Moved(t, c, where),
         DOMAIN threadStates \subseteq DOMAIN threadStates',
         where \in {"unwind", "failed", "abort", "stuck", "out", "flush", "cleanup"} \/ ~c.aborting,
         where \in {"wait", "process", "unwind", "finished", "failed"} =>
             c.state \in DOMAIN threadStates' /\ c.doc # 0,
         threadBindings' \in [Thread -> {0} \cup State],
         \A u \in Thread : threadBindings'[u] \in {0} \cup DOMAIN threadStates'
  PROVE  CallsOK'
PROOF
<1>1. call' \in [Thread -> CallType]
  BY DEF Moved
<1>2. ASSUME NEW u \in Thread
      PROVE  /\ call'[u].aborting => call'[u].at \in {"unwind", "failed", "abort", "stuck"}
             /\ call'[u].at \in {"wait", "process", "unwind", "finished", "failed"} =>
                  call'[u].state \in DOMAIN threadStates' /\ call'[u].doc # 0
  <2>1. CASE u = t
    BY <2>1 DEF Moved
  <2>2. CASE u # t
    <3>1. call'[u] = call[u]
      BY <2>2 DEF Moved
    <3> QED
      BY <3>1 DEF CallsOK
  <2> QED
    BY <2>1, <2>2
<1> QED
  BY <1>1, <1>2 DEF CallsOK

-----------------------------------------------------------------------------
(* Threads at work, waiting and aborting.                                  *)

LEMMA NobodyPauses ==
  ASSUME CountsOK, LocksOK, pauseThreads = 0
  PROVE  fresh = <<>> /\ \A t \in Thread : ~Flushing(t) /\ ~At(t, "stuck")
PROOF
<1>1. Pausers \in SUBSET Thread
  BY DEF Pausers
<1>2. Pausers = {}
  BY <1>1, Counted DEF CountsOK
<1>3. \A t \in Thread : ~Flushing(t) /\ ~At(t, "stuck")
  BY <1>2 DEF Pausers
<1> QED
  BY <1>3 DEF LocksOK, Flushing, At

LEMMA NobodyAborts ==
  ASSUME CountsOK
  PROVE  abortCount \in Nat /\ (abortCount = 0 <=> \A t \in Thread : ~call[t].aborting)
PROOF
<1>1. Aborters \in SUBSET Thread
  BY DEF Aborters
<1>2. abortCount \in Nat /\ (abortCount = 0 <=> Aborters = {})
  BY <1>1, Counted DEF CountsOK
<1> QED
  BY <1>2 DEF Aborters

\* While a thread works, nobody flushes.
LEMMA WorkersUnpaused ==
  ASSUME WorkOK, LocksOK, CallsOK, NEW t \in Thread, Working(t)
  PROVE  /\ \A u \in Thread : call[u].at \notin {"paused", "write", "apply", "clear", "resume"}
         /\ fresh = <<>> /\ Mine(t) \in DOMAIN threadStates /\ ~AllThreadsIdle
PROOF
<1>1. Mine(t) \in DOMAIN threadStates /\ ~IsIdle(Mine(t))
  BY DEF CallsOK, Working, Mine, WorkOK
<1>2. ~AllThreadsIdle
  BY <1>1 DEF AllThreadsIdle
<1> QED
  BY <1>1, <1>2 DEF LocksOK, At

-----------------------------------------------------------------------------
(* Steps that no document takes part in.                                   *)

\* t goes on and changes nothing that documents are kept in.
Light(t, where) ==
    /\ monitor = NoOne /\ Moved(t, call[t], where)
    /\ call[t].at \in {"out", "wait", "finished", "cleanup", "delete", "flush", "pause", "resume", "skip"}
    /\ where \in {"out", "abort", "cleanup", "flush", "delete", "pause", "paused", "skip"}
    /\ UNCHANGED <<threadStates, threadBindings, ids, abortCount, monitor, buffered, deleteDocIDs,
                   flushed, docs, overtaken>>
    /\ \/ failed' = failed
       \/ At(t, "wait") /\ failed' = failed \cup {call[t].doc}

LEMMA LightMoves ==
  ASSUME CallsOK, NEW t \in Thread, NEW where, Light(t, where)
  PROVE  /\ CallsOK' /\ call'[t].at = where /\ \A u \in Thread \ {t} : call'[u] = call[u]
         /\ ~call[t].aborting /\ ~call'[t].aborting /\ ~Working(t)
         /\ Aborters' = Aborters /\ Waiters' \subseteq Waiters
         /\ \A u \in Thread : /\ Working(u)' <=> Working(u)
                              /\ Working(u) => Mine(u)' = Mine(u)
PROOF
<1>1. /\ call'[t].at = where /\ \A u \in Thread \ {t} : call'[u] = call[u]
      /\ ~call[t].aborting /\ ~call'[t].aborting /\ ~Working(t)
  BY DEF Light, Moved, CallsOK, Working
<1>2. CallsOK'
  <2>1. /\ DOMAIN threadStates \subseteq DOMAIN threadStates'
        /\ where \in {"unwind", "failed", "abort", "stuck", "out", "flush", "cleanup"} \/ ~call[t].aborting
        /\ where \in {"wait", "process", "unwind", "finished", "failed"} =>
             call[t].state \in DOMAIN threadStates' /\ call[t].doc # 0
        /\ threadBindings' \in [Thread -> {0} \cup State]
        /\ \A u \in Thread : threadBindings'[u] \in {0} \cup DOMAIN threadStates'
    BY <1>1 DEF Light, CallsOK
  <2> QED
    BY <2>1, CallsKept DEF Light
<1>3. \A u \in Thread : call'[u].aborting <=> call[u].aborting
  BY <1>1
<1>4. Aborters' = Aborters
  BY <1>3 DEF Aborters
<1>5. where # "wait"
  BY DEF Light
<1>6. Waiters' \subseteq Waiters
  BY <1>1, <1>5 DEF Waiters, At
<1>7. where \notin {"process", "unwind"}
  BY DEF Light
<1> QED
  BY <1>1, <1>2, <1>4, <1>6, <1>7 DEF Working, Mine

LEMMA LightCounts ==
  ASSUME CountsOK, CallsOK, StoredOK, NEW t \in Thread, NEW where, Light(t, where),
         pauseThreads' = Cardinality(Pausers')
  PROVE  CountsOK'
PROOF
<1>1. abortCount' = Cardinality(Aborters')
  BY LightMoves DEF CountsOK, Light
<1>2. Waiters' \subseteq Waiters /\ Waiters \in SUBSET Thread
  BY LightMoves DEF Waiters
<1>3. Cardinality(Waiters') <= Cardinality(Waiters) /\ Cardinality(Waiters') \in Nat /\ Cardinality(Waiters) \in Nat
  BY <1>2, Counted, FS_Subset
<1>4. docs' = docs /\ nextDocID' = nextDocID /\ threadStates' = threadStates /\ threadBindings' = threadBindings
      /\ monitor' = monitor
  BY DEF Light, ids
<1>5. \A i \in DOMAIN threadStates' : Binders(i)' = Binders(i)
  BY <1>4 DEF Binders
<1>6. docs' \in Nat /\ docs' <= MaxDocs
  BY <1>4 DEF CountsOK
<1>7. nextDocID' + Cardinality(Waiters') <= docs'
  <2>1. nextDocID + Cardinality(Waiters) <= docs
    BY DEF CountsOK
  <2>2. nextDocID \in Nat /\ docs \in Nat
    BY DEF StoredOK, CountsOK
  <2> QED
    BY <2>1, <2>2, <1>3, <1>4
<1>8. monitor' = NoOne => \A i \in DOMAIN threadStates' : threadStates'[i].numThreads = Cardinality(Binders(i)')
  BY <1>4, <1>5 DEF CountsOK
<1> QED
  BY <1>1, <1>6, <1>7, <1>8 DEF CountsOK

LEMMA LightLocks ==
  ASSUME LocksOK, CallsOK, NEW t \in Thread, NEW where, Light(t, where),
         writerLock' \in Thread \cup {NoOne}, asleep' \subseteq Thread,
         writerLock' = writerLock \/ writerLock \in {NoOne, t},
         where \in {"abort", "pause", "paused", "skip"} => writerLock' = t,
         where = "paused" => abortCount = 0 /\ AllThreadsIdle
  PROVE  LocksOK'
PROOF
<1>1. /\ call'[t].at = where /\ \A u \in Thread \ {t} : call'[u] = call[u]
      /\ where \in {"out", "abort", "cleanup", "flush", "delete", "pause", "paused", "skip"}
      /\ call[t].at \notin {"apply", "clear"} /\ monitor' = NoOne /\ monitor = NoOne
  BY LightMoves DEF Light
<1>2. line' = line /\ threadStates' = threadStates /\ ram' = ram /\ abortCount' = abortCount /\ fresh' = fresh
  BY DEF Light, ids, buffered, flushed
<1>3. AllThreadsIdle' <=> AllThreadsIdle
  BY <1>2 DEF AllThreadsIdle, IsIdle
<1>4. ASSUME NEW u \in Thread
      PROVE  /\ At(u, "stuck")' <=> monitor' = u
             /\ Flushing(u)' \/ (At(u, "abort")' /\ ~call'[u].aborting) => writerLock' = u
             /\ call'[u].at \in {"paused", "write", "apply", "clear", "resume"} => abortCount' = 0 /\ AllThreadsIdle'
             /\ call'[u].at \in {"apply", "clear", "resume"} => ram' = <<>>
  <2>1. CASE u = t
    BY <2>1, <1>1, <1>2, <1>3, NoOneAssumption DEF At, Flushing
  <2>2. CASE u # t
    <3>1. call'[u] = call[u]
      BY <2>2, <1>1
    <3>2. Flushing(u) \/ (At(u, "abort") /\ ~call[u].aborting) => writerLock' = u
      BY <2>2, NoOneAssumption DEF LocksOK
    <3> QED
      BY <3>1, <3>2, <1>1, <1>2, <1>3 DEF At, Flushing, LocksOK
  <2> QED
    BY <2>1, <2>2
<1>5. fresh' # <<>> => \E u \in Thread : At(u, "apply")' \/ At(u, "clear")'
  BY <1>1, <1>2 DEF At, LocksOK
<1> QED
  BY <1>1, <1>4, <1>5 DEF LocksOK

LEMMA LightWork ==
  ASSUME WorkOK, CallsOK, NEW t \in Thread, NEW where, Light(t, where)
  PROVE  WorkOK'
PROOF
<1>1. /\ \A u \in Thread : Working(u)' <=> Working(u)
      /\ \A u \in Thread : Working(u) => Mine(u)' = Mine(u)
  BY LightMoves
<1>2. line' = line /\ threadStates' = threadStates /\ abortCount' = abortCount
  BY DEF Light, ids
<1>3. \A i : IsIdle(i)' <=> IsIdle(i)
  BY <1>2 DEF IsIdle
<1>4. (\A u, v \in Thread : Working(u) /\ Working(v) /\ Mine(u) = Mine(v) => u = v)'
  BY <1>1 DEF WorkOK
<1>5. (\A u \in Thread : Working(u) => ~IsIdle(Mine(u)) /\ Mine(u) \notin line)'
  BY <1>1, <1>2, <1>3 DEF WorkOK
<1>6. (\A i \in DOMAIN threadStates : ~IsIdle(i) => i \in line \/ \E u \in Thread : Working(u) /\ Mine(u) = i)'
  BY <1>1, <1>2, <1>3 DEF WorkOK
<1>7. (abortCount = 0 => \A i \in line : ~IsIdle(i))'
  BY <1>2, <1>3 DEF WorkOK
<1> QED
  BY <1>4, <1>5, <1>6, <1>7 DEF WorkOK

\* The documents stay in turn when the thread states and the doc stores stay.
LEMMA InTurnKept ==
  ASSUME InTurn, UNCHANGED <<threadStates, nextDocID, nextWriteDocID, line>>
  PROVE  InTurn'
PROOF
  BY DEF InTurn, IsIdle

LEMMA LightStored ==
  ASSUME StoredOK, NEW t \in Thread, NEW where, Light(t, where)
  PROVE  StoredOK'
PROOF
<1>1. UNCHANGED <<threadStates, nextDocID, nextWriteDocID, line, numDocsInRAM, ram, stored, abortCount, monitor>>
  BY DEF Light, ids, buffered
<1>2. InTurn => InTurn'
  BY <1>1, InTurnKept
<1> QED
  BY <1>1, <1>2 DEF StoredOK

LEMMA LightDocs ==
  ASSUME DocsOK, CallsOK, CountsOK, NEW t \in Thread, NEW where, Light(t, where)
  PROVE  DocsOK'
PROOF
<1>1. /\ call'[t].at = where /\ \A u \in Thread \ {t} : call'[u] = call[u]
      /\ where \in {"out", "abort", "cleanup", "flush", "delete", "pause", "paused", "skip"}
      /\ call'[t].doc \in {0, call[t].doc}
  BY LightMoves DEF Light, Moved
<1>2. UNCHANGED <<ram, fresh, index, applied, overtaken, docs>>
  BY DEF Light, buffered, flushed
<1>3. failed' = failed \/ (call[t].at = "wait" /\ failed' = failed \cup {call[t].doc})
  BY DEF Light, At
<1>4. call[t].doc \in {0} \cup Documents /\ (call[t].at = "wait" => call[t].doc # 0)
  BY CallTyped DEF CallsOK
<1>5. failed' \subseteq Documents /\ (overtaken \subseteq failed)'
  BY <1>2, <1>3, <1>4 DEF DocsOK
<1>6. \A u \in Thread : call'[u].doc <= docs
  <2>1. 0 <= docs /\ call[t].doc <= docs
    BY DEF DocsOK, CountsOK
  <2> QED
    BY <2>1, <1>1 DEF DocsOK
<1>7. \A u, v \in Thread : u # v /\ call'[u].doc = call'[v].doc => call'[u].doc = 0
  BY <1>1 DEF DocsOK
<1>8. ASSUME NEW u \in Thread, call'[u].at = "wait"
      PROVE  call'[u].doc \notin Range(ram) \cup Range(fresh) \cup index \cup failed'
  <2>1. u # t /\ call'[u] = call[u]
    BY <1>1, <1>8
  <2>2. call[u].doc # 0 /\ call[u].doc # call[t].doc
    BY <2>1, <1>8 DEF CallsOK, DocsOK
  <2> QED
    BY <2>1, <2>2, <1>3, <1>8 DEF DocsOK, At
<1>9. ASSUME NEW u \in Thread, call'[u].at \in {"process", "unwind", "failed"}
      PROVE  call'[u].doc \notin failed'
  <2>1. u # t /\ call'[u] = call[u]
    BY <1>1, <1>9
  <2>2. call[u].doc # 0 /\ call[u].doc # call[t].doc
    BY <2>1, <1>9 DEF CallsOK, DocsOK
  <2> QED
    BY <2>1, <2>2, <1>3, <1>9 DEF DocsOK, At
<1>10. \A d \in failed' : d <= docs
  BY <1>3 DEF DocsOK
<1>11. \A u \in Thread : At(u, "clear")' => applied \subseteq index \cup Range(fresh)
  BY <1>1 DEF DocsOK, At
<1> QED
  BY <1>2, <1>5, <1>6, <1>7, <1>8, <1>9, <1>10, <1>11 DEF DocsOK, At

LEMMA LightDeletes ==
  ASSUME DeletesOK, DocsOK, CallsOK, NEW t \in Thread, NEW where, Light(t, where),
         numDeleteTerms' \in Nat,
         deleteNum' = deleteNum \/ /\ deleteNum' \in Nat /\ deleteNum' <= Len(Segment)
                                   /\ \A u \in Thread : call[u].at \notin {"write", "apply", "clear"}
  PROVE  DeletesOK'
PROOF
<1>1. /\ call'[t].at = where /\ where \notin {"write", "apply", "clear"}
      /\ call[t].at \notin {"write", "apply", "clear"}
      /\ \A u \in Thread \ {t} : call'[u] = call[u]
  BY LightMoves DEF Light
<1>2. UNCHANGED <<ram, fresh, index, applied, overtaken, deleteDocIDs, flushDeletes>>
  BY DEF Light, buffered, flushed
<1>3. Segment' = Segment
  BY <1>2 DEF Segment
<1>4. failed' = failed \/ (call[t].at = "wait" /\ failed' = failed \cup {call[t].doc})
  BY DEF Light, At
<1>5. \A d \in Range(ram) \cup Range(fresh) \cup index : d \in failed' => d \in failed
  BY <1>4 DEF DocsOK, At
<1>6. /\ \A k \in DOMAIN ram : ram[k] \in Range(ram)
      /\ \A k \in DOMAIN fresh : fresh[k] \in Range(fresh)
  BY DEF Range
<1>13. TakenAsLive' <=> TakenAsLive
  <2>1. \A u \in Thread : At(u, "write")' <=> At(u, "write")
    BY <1>1 DEF At
  <2> QED
    BY <2>1, <1>2 DEF TakenAsLive
<1>7. (\A k \in DOMAIN ram :
         ram[k] \in failed => (~TakenAsLive /\ k - 1 \in deleteDocIDs) \/ ram[k] \in overtaken)'
  BY <1>2, <1>5, <1>6, <1>13 DEF DeletesOK
<1>8. (\A k \in DOMAIN fresh :
         fresh[k] \in failed => (flushDeletes /\ k - 1 \in deleteDocIDs) \/ fresh[k] \in overtaken)'
  BY <1>2, <1>5, <1>6 DEF DeletesOK
<1>9. AllOrNone'
  BY <1>2, <1>5 DEF DeletesOK, AllOrNone
<1>10. (\A u \in Thread : call[u].at \in {"write", "apply"} /\ ~flushDeletes =>
                             deleteNum = None /\ (overtaken = {} => deleteDocIDs = {}))'
  <2> SUFFICES ASSUME NEW u \in Thread, call'[u].at \in {"write", "apply"}, ~flushDeletes'
               PROVE  (deleteNum = None /\ (overtaken = {} => deleteDocIDs = {}))'
    OBVIOUS
  <2>1. call[u].at \in {"write", "apply"}
    BY <1>1
  <2> QED
    BY <2>1, <1>2 DEF DeletesOK
<1>11. deleteNum' \in {None} \cup Nat /\ deleteNum' <= Len(Segment)'
  BY <1>3 DEF DeletesOK
<1>12. deleteDocIDs' \subseteq DocID /\ (overtaken = {} => \A n \in deleteDocIDs : n < Len(Segment))'
  BY <1>2, <1>3 DEF DeletesOK
<1>14. (\A u \in Thread : At(u, "clear") =>
         /\ applied \cap failed \subseteq overtaken
         /\ overtaken = {} => applied = LiveBefore \cup LiveOf(fresh))'
  <2> SUFFICES ASSUME NEW u \in Thread, At(u, "clear")'
               PROVE  /\ applied \cap failed' \subseteq overtaken
                      /\ overtaken = {} => applied = (LiveBefore \cup LiveOf(fresh))'
    BY <1>2
  <2>1. At(u, "clear")
    BY <1>1 DEF At
  <2>2. applied \subseteq index \cup Range(fresh)
    BY <2>1 DEF DocsOK
  <2>3. applied \cap failed' \subseteq overtaken
    BY <2>1, <2>2, <1>5 DEF DeletesOK
  <2>4. deleteNum' = deleteNum
    BY <2>1 DEF At
  <2>5. (LiveBefore \cup LiveOf(fresh))' = LiveBefore \cup LiveOf(fresh)
    BY <2>4, <1>2 DEF LiveBefore, LiveOf
  <2> QED
    BY <2>1, <2>3, <2>5 DEF DeletesOK
<1> QED
  BY <1>7, <1>8, <1>9, <1>10, <1>11, <1>12, <1>14 DEF DeletesOK

LEMMA LightFlush ==
  ASSUME FlushOK, DocsOK, NEW t \in Thread, NEW where, Light(t, where),
         flushPending' \/ ~flushPending \/ ram = <<>>
  PROVE  FlushOK'
PROOF
<1>1. ram' = ram /\ overtaken' = overtaken
  BY DEF Light, buffered
<1>2. failed' = failed \/ (call[t].at = "wait" /\ failed' = failed \cup {call[t].doc})
  BY DEF Light, At
<1>3. \A k \in DOMAIN ram : ram[k] \in failed' <=> ram[k] \in failed
  BY <1>2 DEF DocsOK, At, Range
<1>4. Kept' = Kept
  BY <1>1, <1>3 DEF Kept
<1>5. ram = <<>> => Cardinality(Kept) = 0
  <2>1. ram = <<>> => Kept = {}
    BY DEF Kept
  <2> QED
    BY <2>1, FS_EmptySet
<1>6. MaxBufferedDocs > 0
  BY SizesAssumption
<1> QED
  BY <1>1, <1>4, <1>5, <1>6 DEF FlushOK

LEMMA LightKeeps ==
  ASSUME IInv, NEW t \in Thread, NEW where, Light(t, where),
         pauseThreads' = Cardinality(Pausers'),
         writerLock' \in Thread \cup {NoOne}, asleep' \subseteq Thread,
         writerLock' = writerLock \/ writerLock \in {NoOne, t},
         where \in {"abort", "pause", "paused", "skip"} => writerLock' = t,
         where = "paused" => abortCount = 0 /\ AllThreadsIdle,
         numDeleteTerms' \in Nat,
         deleteNum' = deleteNum \/ /\ deleteNum' \in Nat /\ deleteNum' <= Len(Segment)
                                   /\ \A u \in Thread : call[u].at \notin {"write", "apply", "clear"},
         flushPending' \/ ~flushPending \/ ram = <<>>,
         {flushPending', bufferIsFull', closed'} \subseteq BOOLEAN, faults' \in Nat,
         ClosedOK'
  PROVE  IInv'
PROOF
<1> USE DEF IInv
<1>1. StatesOK'
  BY DEF Light, ids, StatesOK
<1>2. RestOK'
  BY DEF Light, flushed, RestOK
<1> QED
  BY <1>1, <1>2, LightMoves, LightCounts, LightLocks, LightWork, LightStored, LightDocs, LightDeletes, LightFlush

\* A thread that pauses the others, or lets them go on.
LEMMA Paused ==
  ASSUME CallsOK, CountsOK, NEW t \in Thread, NEW where, NEW c, Moved(t, c, where)
  PROVE  /\ pauseThreads \in Nat /\ Cardinality(Pausers') \in Nat
         /\ Flushing(t) \/ At(t, "stuck") =>
              /\ pauseThreads > 0
              /\ IF (Flushing(t) \/ At(t, "stuck"))' THEN Cardinality(Pausers') = pauseThreads
                 ELSE Cardinality(Pausers') = pauseThreads - 1
         /\ ~(Flushing(t) \/ At(t, "stuck")) =>
              IF (Flushing(t) \/ At(t, "stuck"))' THEN Cardinality(Pausers') = pauseThreads + 1
              ELSE Cardinality(Pausers') = pauseThreads
PROOF
<1>1. Pausers \in SUBSET Thread /\ Pausers' \in SUBSET Thread
  BY DEF Pausers
<1>2. \A u \in Thread \ {t} : u \in Pausers <=> u \in Pausers'
  BY DEF Pausers, Moved, Flushing, At
<1>3. /\ t \in Pausers <=> Flushing(t) \/ At(t, "stuck")
      /\ t \in Pausers' <=> (Flushing(t) \/ At(t, "stuck"))'
  BY DEF Pausers
<1>4. pauseThreads = Cardinality(Pausers)
  BY DEF CountsOK
<1>5. PICK A : A = Pausers
  OBVIOUS
<1>6. PICK B : B = Pausers'
  OBVIOUS
<1>7. /\ t \in A /\ t \notin B => Cardinality(B) = Cardinality(A) - 1
      /\ t \notin A /\ t \in B => Cardinality(B) = Cardinality(A) + 1
      /\ (t \in A <=> t \in B) => B = A
  <2>1. A \in SUBSET Thread /\ B \in SUBSET Thread /\ \A u \in Thread \ {t} : u \in A <=> u \in B
    BY <1>1, <1>2, <1>5, <1>6
  <2> QED
    BY <2>1, Recounted
<1>8. Cardinality(A) \in Nat /\ Cardinality(B) \in Nat /\ (Cardinality(A) = 0 <=> A = {})
  BY <1>1, <1>5, <1>6, Counted
<1> QED
  BY <1>3, <1>4, <1>5, <1>6, <1>7, <1>8

LEMMA AbortCallKeeps ==
  ASSUME IInv, NEW t \in Thread, AbortCall(t)
  PROVE  IInv'
PROOF
<1>1. Moved(t, call[t], "abort")
  BY Going1 DEF AbortCall, IInv, Where
<1>2. Light(t, "abort")
  <2>1. UNCHANGED <<threadStates, threadBindings, ids, abortCount, monitor, buffered, deleteDocIDs,
                    flushed, docs, failed, overtaken>>
    BY DEF AbortCall, deleted, bounds
  <2>2. monitor = NoOne /\ call[t].at = "out"
    BY DEF AbortCall, Runs, At
  <2> QED
    BY <1>1, <2>1, <2>2 DEF Light
<1>3. call[t].at = "out" /\ call'[t].at = "abort" /\ \A u \in Thread \ {t} : call'[u] = call[u]
  BY <1>1 DEF AbortCall, At, Moved
<1>4. pauseThreads' = Cardinality(Pausers')
  BY <1>1, <1>3, Paused DEF IInv, Flushing, At, AbortCall
<1>5. ClosedOK'
  BY <1>2, <1>3 DEF IInv, ClosedOK, AbortCall, buffered, CallsOK
<1>6. /\ writerLock' \in Thread \cup {NoOne} /\ asleep' \subseteq Thread
      /\ writerLock' = t /\ writerLock = NoOne
      /\ numDeleteTerms' \in Nat /\ deleteNum' = deleteNum /\ (flushPending' \/ ~flushPending)
      /\ {flushPending', bufferIsFull', closed'} \subseteq BOOLEAN /\ faults' \in Nat
  BY DEF AbortCall, IInv, LocksOK, DeletesOK, RestOK, flags, deleted
<1> QED
  BY <1>2, <1>4, <1>5, <1>6, LightKeeps

LEMMA CleanupKeeps ==
  ASSUME IInv, NEW t \in Thread, Cleanup(t)
  PROVE  IInv'
PROOF
<1>1. Moved(t, call[t], "out")
  BY Going1 DEF Cleanup, IInv, Where
<1>2. Light(t, "out")
  <2>1. UNCHANGED <<threadStates, threadBindings, ids, abortCount, monitor, buffered, deleteDocIDs,
                    flushed, docs, failed, overtaken>>
    BY DEF Cleanup, deleted, bounds
  <2>2. monitor = NoOne /\ call[t].at = "cleanup"
    BY DEF Cleanup, Runs, At
  <2> QED
    BY <1>1, <2>1, <2>2 DEF Light
<1>3. call[t].at = "cleanup" /\ call'[t].at = "out" /\ \A u \in Thread \ {t} : call'[u] = call[u]
  BY <1>1 DEF Cleanup, At, Moved
<1>4. pauseThreads' = Cardinality(Pausers')
  BY <1>1, <1>3, Paused DEF IInv, Flushing, At, Cleanup
<1>5. ClosedOK'
  BY <1>2, <1>3 DEF IInv, ClosedOK, Cleanup, buffered, CallsOK
<1>6. /\ writerLock' \in Thread \cup {NoOne} /\ asleep' \subseteq Thread
      /\ writerLock' = NoOne /\ writerLock \in {NoOne, t}
      /\ numDeleteTerms' \in Nat /\ deleteNum' = deleteNum /\ (flushPending' \/ ~flushPending)
      /\ {flushPending', bufferIsFull', closed'} \subseteq BOOLEAN /\ faults' \in Nat
  BY DEF Cleanup, IInv, LocksOK, DeletesOK, RestOK, flags, deleted, bounds
<1> QED
  BY <1>2, <1>4, <1>5, <1>6, LightKeeps

LEMMA FlushCallKeeps ==
  ASSUME IInv, NEW t \in Thread, FlushCall(t) \/ CloseCall(t)
  PROVE  IInv'
PROOF
<1>1. /\ Moved(t, call[t], "flush") /\ monitor = NoOne /\ call[t].at = "out"
      /\ UNCHANGED <<threadStates, threadBindings, ids, abortCount, monitor, buffered, deleteDocIDs,
                     flushed, docs, failed, overtaken>>
      /\ UNCHANGED <<pauseThreads, writerLock, flushPending, bufferIsFull, deleteNum, numDeleteTerms, faults>>
      /\ closed' \in BOOLEAN /\ asleep' \subseteq Thread
  <2>1. CallsOK /\ asleep \subseteq Thread /\ closed \in BOOLEAN
    BY DEF IInv, LocksOK, RestOK
  <2>2. CASE FlushCall(t)
    <3>1. Moved(t, call[t], "flush")
      BY <2>1, <2>2, Going1 DEF FlushCall, Where
    <3> QED
      BY <3>1, <2>1, <2>2 DEF FlushCall, Runs, At, flags, locks, deleted, bounds
  <2>3. CASE CloseCall(t)
    <3>1. Moved(t, call[t], "flush")
      BY <2>1, <2>3, Going1 DEF CloseCall, Where
    <3> QED
      BY <3>1, <2>1, <2>3 DEF CloseCall, NotifyAll, Runs, At, flags, locks, deleted, bounds
  <2> QED
    BY <2>2, <2>3
<1>2. Light(t, "flush")
  BY <1>1 DEF Light
<1>3. call[t].at = "out" /\ call'[t].at = "flush"
  BY <1>1 DEF Moved
<1>4. pauseThreads' = Cardinality(Pausers')
  BY <1>1, <1>3, Paused DEF IInv, Flushing, At
<1>5. ClosedOK'
  BY <1>3 DEF ClosedOK
<1>6. /\ writerLock' \in Thread \cup {NoOne}
      /\ numDeleteTerms' \in Nat /\ deleteNum' = deleteNum /\ (flushPending' \/ ~flushPending)
      /\ {flushPending', bufferIsFull', closed'} \subseteq BOOLEAN /\ faults' \in Nat
  BY <1>1 DEF IInv, LocksOK, DeletesOK, RestOK
<1> QED
  BY <1>1, <1>2, <1>4, <1>5, <1>6, LightKeeps

\* Somebody aborts when the count says so, and that is enough of ClosedOK.
LEMMA AborterCloses ==
  ASSUME CountsOK, abortCount > 0
  PROVE  \E u \in Thread : call[u].aborting
PROOF
  BY NobodyAborts

LEMMA PausingKeeps ==
  ASSUME IInv, NEW t \in Thread, Pause(t) \/ AwakePause(t)
  PROVE  IInv'
PROOF
<1>1. PICK where \in {"skip", "paused", "pause"} :
         /\ Goto(t, where)
         /\ where = "skip" => abortCount > 0
         /\ where = "paused" => ~(abortCount > 0) /\ AllThreadsIdle
         /\ asleep' = asleep \/ asleep' = asleep \cup {t}
  BY DEF Pause, AwakePause, Pausing, Sleep
<1>2. Moved(t, call[t], where) /\ abortCount \in Nat
  <2>1. where \in Where /\ CallsOK /\ CountsOK
    BY DEF Where, IInv
  <2>2. abortCount \in Nat
    BY <2>1, NobodyAborts
  <2> QED
    BY <2>1, <2>2, <1>1, Going1
<1>3. /\ monitor = NoOne /\ call[t].at \in {"flush", "pause"}
      /\ UNCHANGED <<threadStates, threadBindings, ids, abortCount, monitor, buffered, deleteDocIDs,
                     flushed, docs, failed, overtaken>>
      /\ UNCHANGED <<flushPending, bufferIsFull, deleteNum, numDeleteTerms, faults, closed>>
      /\ IF call[t].at = "flush" THEN pauseThreads' = pauseThreads + 1 /\ writerLock = NoOne /\ writerLock' = t
         ELSE UNCHANGED <<pauseThreads, writerLock>>
  BY DEF Pause, AwakePause, Runs, At, flags, locks, deleted, bounds
<1>4. Light(t, where)
  BY <1>1, <1>2, <1>3 DEF Light
<1>5. call'[t].at = where /\ \A u \in Thread \ {t} : call'[u] = call[u]
  BY <1>2 DEF Moved
<1>6. pauseThreads' = Cardinality(Pausers')
  <2>1. CallsOK /\ CountsOK
    BY DEF IInv
  <2>2. (Flushing(t) \/ At(t, "stuck"))'
    BY <1>1, <1>5 DEF Flushing
  <2>3. Flushing(t) \/ At(t, "stuck") <=> call[t].at = "pause"
    BY <1>3 DEF Flushing, At
  <2> QED
    BY <2>1, <2>2, <2>3, <1>2, <1>3, Paused
<1>7. ClosedOK'
  <2>1. CASE where = "skip"
    <3>1. PICK u \in Thread : call[u].aborting
      <4>1. CountsOK /\ abortCount > 0
        BY <2>1, <1>1 DEF IInv
      <4> QED
        BY <4>1, AborterCloses
    <3>2. u # t
      BY <3>1, <1>3 DEF IInv, CallsOK
    <3> QED
      BY <3>1, <3>2, <1>5 DEF ClosedOK
  <2>2. CASE where # "skip"
    BY <2>2, <1>1, <1>5 DEF ClosedOK
  <2> QED
    BY <2>1, <2>2
<1>8. /\ writerLock' = t /\ asleep' \subseteq Thread
      /\ writerLock' = writerLock \/ writerLock \in {NoOne, t}
  BY <1>1, <1>3 DEF IInv, LocksOK, Flushing
<1>9. /\ numDeleteTerms' \in Nat /\ deleteNum' = deleteNum /\ (flushPending' \/ ~flushPending)
      /\ {flushPending', bufferIsFull', closed'} \subseteq BOOLEAN /\ faults' \in Nat
  BY <1>3 DEF IInv, DeletesOK, RestOK
<1>10. where = "paused" => abortCount = 0 /\ AllThreadsIdle
  BY <1>1, <1>2
<1>11. writerLock' \in Thread \cup {NoOne} /\ (writerLock' = writerLock \/ writerLock \in {NoOne, t})
  BY <1>8
<1> QED
  BY <1>4, <1>6, <1>7, <1>8, <1>9, <1>10, <1>11, LightKeeps

LEMMA ResumeKeeps ==
  ASSUME IInv, NEW t \in Thread, Resume(t)
  PROVE  IInv'
PROOF
<1>1. Moved(t, call[t], "out")
  BY Going1 DEF Resume, IInv, Where
<1>2. /\ monitor = NoOne /\ call[t].at \in {"resume", "skip"}
      /\ UNCHANGED <<threadStates, threadBindings, ids, abortCount, monitor, buffered, deleteDocIDs,
                     flushed, docs, failed, overtaken>>
      /\ UNCHANGED <<bufferIsFull, deleteNum, numDeleteTerms, faults, closed>>
      /\ pauseThreads' = pauseThreads - 1 /\ writerLock' = NoOne
      /\ flushPending' = (flushPending /\ call[t].at = "skip")
      /\ asleep' \in {{}, asleep}
  BY DEF Resume, NotifyAll, Runs, At, deleted, bounds
<1>3. Light(t, "out")
  BY <1>1, <1>2 DEF Light
<1>4. call'[t].at = "out" /\ \A u \in Thread \ {t} : call'[u] = call[u]
  BY <1>1 DEF Moved
<1>5. pauseThreads' = Cardinality(Pausers')
  <2>1. CallsOK /\ CountsOK
    BY DEF IInv
  <2>2. ~(Flushing(t) \/ At(t, "stuck"))' /\ Flushing(t)
    BY <1>2, <1>4 DEF Flushing, At
  <2> QED
    BY <2>1, <2>2, <1>1, <1>2, Paused
<1>6. ClosedOK'
  <2> SUFFICES ASSUME closed, ram # <<>>
               PROVE  \E u \in Thread : call'[u].at \in {"flush", "pause", "paused", "write", "stuck"} \/ call'[u].aborting
    BY <1>2 DEF ClosedOK, buffered
  <2>1. PICK u \in Thread : call[u].at \in {"flush", "pause", "paused", "write", "stuck"} \/ call[u].aborting
    BY DEF IInv, ClosedOK
  <2>2. u # t
    BY <2>1, <1>2 DEF IInv, CallsOK
  <2> QED
    BY <2>1, <2>2, <1>4
<1>7. writerLock = t /\ (call[t].at = "resume" => ram = <<>>)
  BY <1>2 DEF IInv, LocksOK, Flushing
<1>8. flushPending' \/ ~flushPending \/ ram = <<>>
  BY <1>2, <1>7
<1>9. /\ numDeleteTerms' \in Nat /\ deleteNum' = deleteNum /\ asleep' \subseteq Thread
      /\ {flushPending', bufferIsFull', closed'} \subseteq BOOLEAN /\ faults' \in Nat
  BY <1>2 DEF IInv, LocksOK, DeletesOK, RestOK
<1>10. writerLock' \in Thread \cup {NoOne} /\ (writerLock' = writerLock \/ writerLock \in {NoOne, t})
  BY <1>2, <1>7
<1> QED
  BY <1>3, <1>5, <1>6, <1>8, <1>9, <1>10, LightKeeps

LEMMA DeleteKeeps ==
  ASSUME IInv, NEW t \in Thread, Delete(t) \/ AwakeDelete(t)
  PROVE  IInv'
PROOF
<1>1. PICK where \in {"delete", "flush", "out"} : Goto(t, where)
  BY DEF Delete, AwakeDelete, BufferDeleteTerm
<1>2. Moved(t, call[t], where)
  <2>1. where \in Where /\ CallsOK
    BY DEF Where, IInv
  <2> QED
    BY <2>1, <1>1, Going1
<1>3. /\ monitor = NoOne /\ call[t].at \in {"out", "delete"}
      /\ UNCHANGED <<threadStates, threadBindings, ids, abortCount, monitor, buffered, deleteDocIDs,
                     flushed, docs, failed, overtaken>>
      /\ UNCHANGED <<pauseThreads, writerLock, bufferIsFull, faults, closed>>
  BY DEF Delete, AwakeDelete, BufferDeleteTerm, AddDeleteTerm, Runs, At, deleted, locks, bounds
<1>4. /\ \/ deleteNum' = deleteNum /\ numDeleteTerms' = numDeleteTerms /\ flushPending' = flushPending
         \/ /\ pauseThreads = 0 /\ ~flushPending
            /\ deleteNum' = NumAfter(numDocsInRAM) /\ numDeleteTerms' = numDeleteTerms + 1
            /\ flushPending' = ManyDeletes(numDeleteTerms + 1)
      /\ asleep' \in {asleep, asleep \cup {t}}
  BY DEF Delete, AwakeDelete, BufferDeleteTerm, AddDeleteTerm, Sleep, deleted
<1>5. Light(t, where)
  BY <1>1, <1>2, <1>3 DEF Light
<1>6. call'[t].at = where /\ \A u \in Thread \ {t} : call'[u] = call[u]
  BY <1>2 DEF Moved
<1>7. pauseThreads' = Cardinality(Pausers')
  <2>1. CallsOK /\ CountsOK
    BY DEF IInv
  <2>2. ~(Flushing(t) \/ At(t, "stuck"))' /\ ~(Flushing(t) \/ At(t, "stuck"))
    BY <1>1, <1>3, <1>6 DEF Flushing, At
  <2> QED
    BY <2>1, <2>2, <1>2, <1>3, Paused
<1>8. ClosedOK'
  <2> SUFFICES ASSUME closed, ram # <<>>
               PROVE  \E u \in Thread : call'[u].at \in {"flush", "pause", "paused", "write", "stuck"} \/ call'[u].aborting
    BY <1>3 DEF ClosedOK, buffered
  <2>1. PICK u \in Thread : call[u].at \in {"flush", "pause", "paused", "write", "stuck"} \/ call[u].aborting
    BY DEF IInv, ClosedOK
  <2>2. u # t
    BY <2>1, <1>3 DEF IInv, CallsOK
  <2> QED
    BY <2>1, <2>2, <1>6
<1>9. /\ numDeleteTerms' \in Nat /\ asleep' \subseteq Thread
      /\ {flushPending', bufferIsFull', closed'} \subseteq BOOLEAN /\ faults' \in Nat
  <2>1. numDeleteTerms' \in Nat /\ asleep' \subseteq Thread
    BY <1>3, <1>4 DEF IInv, LocksOK, DeletesOK
  <2>2. flushPending' \in BOOLEAN
    BY <1>4 DEF IInv, RestOK, ManyDeletes
  <2> QED
    BY <2>1, <2>2, <1>3 DEF IInv, RestOK
<1>10. deleteNum' = deleteNum \/ /\ deleteNum' \in Nat /\ deleteNum' <= Len(Segment)
                                 /\ \A u \in Thread : call[u].at \notin {"write", "apply", "clear"}
  <2> SUFFICES ASSUME pauseThreads = 0, deleteNum' = NumAfter(numDocsInRAM)
               PROVE  /\ deleteNum' \in Nat /\ deleteNum' <= Len(Segment)
                      /\ \A u \in Thread : call[u].at \notin {"write", "apply", "clear"}
    BY <1>4
  <2>1. fresh = <<>> /\ \A u \in Thread : ~Flushing(u) /\ ~At(u, "stuck")
    BY NobodyPauses DEF IInv
  <2>2. numDocsInRAM \in Nat /\ numDocsInRAM = Len(Segment) /\ deleteNum \in {None} \cup Nat
        /\ deleteNum <= Len(Segment)
    BY <2>1 DEF IInv, StoredOK, Segment, DeletesOK
  <2> QED
    BY <2>1, <2>2 DEF NumAfter, None, Flushing, At
<1>11. writerLock' \in Thread \cup {NoOne} /\ (writerLock' = writerLock \/ writerLock \in {NoOne, t})
  BY <1>3 DEF IInv, LocksOK
<1>12. flushPending' \/ ~flushPending
  BY <1>4
<1> QED
  BY <1>1, <1>5, <1>7, <1>8, <1>9, <1>10, <1>11, <1>12, LightKeeps

LEMMA FinishedKeeps ==
  ASSUME IInv, NEW t \in Thread, Finished(t)
  PROVE  IInv'
PROOF
<1>1. PICK where \in {"flush", "out"} : Goto(t, where)
  BY DEF Finished
<1>2. Moved(t, call[t], where)
  <2>1. where \in Where /\ CallsOK
    BY DEF Where, IInv
  <2> QED
    BY <2>1, <1>1, Going1
<1>3. /\ monitor = NoOne /\ call[t].at = "finished"
      /\ UNCHANGED <<threadStates, threadBindings, ids, abortCount, monitor, buffered, deleteDocIDs,
                     flushed, docs, failed, overtaken>>
      /\ UNCHANGED <<pauseThreads, writerLock, bufferIsFull, deleteNum, numDeleteTerms, faults, closed, asleep>>
  BY DEF Finished, Runs, At, deleted, locks, bounds
<1>4. flushPending' = flushPending \/ flushPending' = (flushPending \/ (ManyDeletes(numDeleteTerms) /\ ~flushPending))
  BY DEF Finished
<1>5. Light(t, where)
  BY <1>1, <1>2, <1>3 DEF Light
<1>6. call'[t].at = where /\ \A u \in Thread \ {t} : call'[u] = call[u]
  BY <1>2 DEF Moved
<1>7. pauseThreads' = Cardinality(Pausers')
  <2>1. CallsOK /\ CountsOK
    BY DEF IInv
  <2>2. ~(Flushing(t) \/ At(t, "stuck"))' /\ ~(Flushing(t) \/ At(t, "stuck"))
    BY <1>1, <1>3, <1>6 DEF Flushing, At
  <2> QED
    BY <2>1, <2>2, <1>2, <1>3, Paused
<1>8. ClosedOK'
  <2> SUFFICES ASSUME closed, ram # <<>>
               PROVE  \E u \in Thread : call'[u].at \in {"flush", "pause", "paused", "write", "stuck"} \/ call'[u].aborting
    BY <1>3 DEF ClosedOK, buffered
  <2>1. PICK u \in Thread : call[u].at \in {"flush", "pause", "paused", "write", "stuck"} \/ call[u].aborting
    BY DEF IInv, ClosedOK
  <2>2. u # t
    BY <2>1, <1>3 DEF IInv, CallsOK
  <2> QED
    BY <2>1, <2>2, <1>6
<1>9. /\ numDeleteTerms' \in Nat /\ asleep' \subseteq Thread /\ deleteNum' = deleteNum
      /\ {flushPending', bufferIsFull', closed'} \subseteq BOOLEAN /\ faults' \in Nat
  <2>1. numDeleteTerms' \in Nat /\ asleep' \subseteq Thread
    BY <1>3 DEF IInv, LocksOK, DeletesOK
  <2>2. flushPending' \in BOOLEAN
    BY <1>4 DEF IInv, RestOK, ManyDeletes
  <2> QED
    BY <2>1, <2>2, <1>3 DEF IInv, RestOK
<1>10. writerLock' \in Thread \cup {NoOne} /\ (writerLock' = writerLock \/ writerLock \in {NoOne, t})
  BY <1>3 DEF IInv, LocksOK
<1>11. flushPending' \/ ~flushPending
  BY <1>4
<1> QED
  BY <1>1, <1>5, <1>7, <1>8, <1>9, <1>10, <1>11, LightKeeps

\* Who sleeps, and how full the buffer is, matters to no part of IInv.
LEMMA NothingElse ==
  ASSUME IInv, asleep' \subseteq Thread, bufferIsFull' \in BOOLEAN,
         UNCHANGED <<call, threadStates, threadBindings, ids, pauseThreads, flushPending, abortCount,
                     closed, locks, buffered, deleted, flushed, docs, faults, failed, overtaken>>
  PROVE  IInv'
PROOF
<1>1. /\ UNCHANGED <<call, threadStates, threadBindings, nextDocID, numDocsInRAM, nextWriteDocID, line,
                     pauseThreads, flushPending, abortCount, closed, monitor, writerLock>>
      /\ UNCHANGED <<ram, stored, deleteNum, numDeleteTerms, deleteDocIDs, fresh, flushDeletes, applied,
                     index, docs, faults, failed, overtaken>>
  BY DEF ids, locks, buffered, deleted, flushed
<1>2. CallsOK' /\ StatesOK'
  BY <1>1 DEF IInv, CallsOK, StatesOK
<1>3. CountsOK'
  <2>1. Aborters' = Aborters /\ Pausers' = Pausers /\ Waiters' = Waiters
    BY <1>1 DEF Aborters, Pausers, Waiters, Flushing, At
  <2>2. \A i : Binders(i)' = Binders(i)
    BY <1>1 DEF Binders
  <2> QED
    BY <1>1, <2>1, <2>2 DEF IInv, CountsOK
<1>4. AllThreadsIdle' <=> AllThreadsIdle
  BY <1>1 DEF AllThreadsIdle, IsIdle
<1>5. LocksOK'
  BY <1>1, <1>4 DEF IInv, LocksOK, Flushing, At
<1>6. WorkOK'
  BY <1>1 DEF IInv, WorkOK, Working, Mine, IsIdle
<1>7. InTurn => InTurn'
  BY <1>1, InTurnKept
<1>8. StoredOK'
  BY <1>1, <1>7 DEF IInv, StoredOK
<1>9. DocsOK'
  BY <1>1 DEF IInv, DocsOK, At
<1>10. DeletesOK'
  BY <1>1 DEF IInv, DeletesOK, Segment, AllOrNone, TakenAsLive, LiveBefore, LiveOf, At
<1>11. FlushOK'
  BY <1>1 DEF IInv, FlushOK, Kept
<1>12. ClosedOK' /\ RestOK'
  BY <1>1 DEF IInv, ClosedOK, RestOK
<1> QED
  BY <1>2, <1>3, <1>5, <1>6, <1>8, <1>9, <1>10, <1>11, <1>12 DEF IInv

LEMMA StutterKeeps ==
  ASSUME IInv, UNCHANGED vars
  PROVE  IInv'
PROOF
  BY NothingElse DEF vars, flags, bounds, IInv, LocksOK, RestOK

LEMMA BalanceKeeps ==
  ASSUME IInv, NEW t \in Thread, BalanceRAM(t)
  PROVE  IInv'
PROOF
  BY NothingElse DEF BalanceRAM, bounds, IInv, LocksOK

\* A thread that waited for its thread state sleeps on, or throws because the
\* writer is closed.
LEMMA AwakeIdly ==
  ASSUME IInv, NEW t \in Thread, Awake(t), ~(Open /\ ~Blocked(threadStates, Mine(t)))
  PROVE  IInv'
PROOF
<1>1. /\ monitor = NoOne /\ call[t].at = "wait"
      /\ UNCHANGED <<threadStates, threadBindings, ids, abortCount, monitor, buffered, deleteDocIDs,
                     flushed, docs, overtaken>>
      /\ UNCHANGED <<pauseThreads, flushPending, bufferIsFull, writerLock, deleteNum, numDeleteTerms,
                     faults, closed>>
      /\ IF closed THEN /\ Goto(t, "cleanup") /\ UNCHANGED asleep
                        /\ failed' = failed \cup {call[t].doc}
                   ELSE asleep' = asleep \cup {t} /\ UNCHANGED <<call, failed>>
  BY DEF Awake, Sleep, Runs, At, flags, locks, deleted
<1>2. CASE closed
  <2>1. Moved(t, call[t], "cleanup")
    BY <1>1, <1>2, Going1 DEF IInv, Where
  <2>2. Light(t, "cleanup")
    BY <1>1, <1>2, <2>1 DEF Light, At
  <2>3. call'[t].at = "cleanup" /\ \A u \in Thread \ {t} : call'[u] = call[u]
    BY <2>1 DEF Moved
  <2>4. pauseThreads' = Cardinality(Pausers')
    <3>1. CallsOK /\ CountsOK
      BY DEF IInv
    <3>2. ~(Flushing(t) \/ At(t, "stuck"))' /\ ~(Flushing(t) \/ At(t, "stuck"))
      BY <1>1, <2>3 DEF Flushing, At
    <3> QED
      BY <3>1, <3>2, <2>1, <1>1, Paused
  <2>5. ClosedOK'
    <3> SUFFICES ASSUME closed, ram # <<>>
                 PROVE  \E u \in Thread : call'[u].at \in {"flush", "pause", "paused", "write", "stuck"} \/ call'[u].aborting
      BY <1>1 DEF ClosedOK, buffered
    <3>1. PICK u \in Thread : call[u].at \in {"flush", "pause", "paused", "write", "stuck"} \/ call[u].aborting
      BY DEF IInv, ClosedOK
    <3>2. u # t
      BY <3>1, <1>1 DEF IInv, CallsOK
    <3> QED
      BY <3>1, <3>2, <2>3
  <2>6. /\ numDeleteTerms' \in Nat /\ asleep' \subseteq Thread /\ deleteNum' = deleteNum
        /\ {flushPending', bufferIsFull', closed'} \subseteq BOOLEAN /\ faults' \in Nat
        /\ flushPending' \/ ~flushPending
        /\ writerLock' \in Thread \cup {NoOne} /\ writerLock' = writerLock
    BY <1>1, <1>2 DEF IInv, LocksOK, DeletesOK, RestOK
  <2> QED
    BY <2>2, <2>4, <2>5, <2>6, LightKeeps
<1>3. CASE ~closed
  <2>1. asleep' \subseteq Thread /\ bufferIsFull' \in BOOLEAN
    BY <1>1, <1>3 DEF IInv, LocksOK, RestOK
  <2>2. UNCHANGED <<call, threadStates, threadBindings, ids, pauseThreads, flushPending, abortCount,
                    closed, locks, buffered, deleted, flushed, docs, faults, failed, overtaken>>
    BY <1>1, <1>3 DEF locks, deleted
  <2> QED
    BY <2>1, <2>2, NothingElse
<1> QED
  BY <1>2, <1>3

-----------------------------------------------------------------------------
(* Steps of a thread that works on a document.                             *)

\* t, which works on a document, goes on with it; c: with an AbortException or
\* without.
Works(t, c, where) ==
    /\ monitor = NoOne /\ Working(t) /\ Moved(t, c, where)
    /\ c \in CallType /\ c.state = call[t].state /\ c.doc = call[t].doc
    /\ call[t].aborting => c.aborting
    /\ where \in {"unwind", "failed"} \/ (where = "finished" /\ ~c.aborting)
    /\ abortCount' = abortCount + (IF c.aborting /\ ~call[t].aborting THEN 1 ELSE 0)
    /\ DOMAIN threadStates' = DOMAIN threadStates
    /\ \A i \in DOMAIN threadStates : threadStates'[i].numThreads = threadStates[i].numThreads
    /\ UNCHANGED <<threadBindings, nextDocID, numDocsInRAM, pauseThreads, closed, locks, ram, deleted,
                   flushed, docs, failed, overtaken>>

LEMMA WorkCalls ==
  ASSUME CallsOK, NEW t \in Thread, NEW c, NEW where, Works(t, c, where)
  PROVE  /\ CallsOK' /\ call'[t].at = where /\ where \in {"unwind", "failed", "finished"}
         /\ call'[t].state = Mine(t) /\ call'[t].doc = call[t].doc
         /\ call'[t].aborting <=> c.aborting
         /\ \A u \in Thread \ {t} : call'[u] = call[u]
         /\ Mine(t) \in DOMAIN threadStates /\ call[t].doc # 0
         /\ call[t].aborting \in BOOLEAN /\ c.aborting \in BOOLEAN
PROOF
<1>1. /\ call'[t].at = where /\ where \in {"unwind", "failed", "finished"}
      /\ call'[t].state = Mine(t) /\ call'[t].doc = call[t].doc
      /\ call'[t].aborting <=> c.aborting
      /\ \A u \in Thread \ {t} : call'[u] = call[u]
  BY DEF Works, Moved, Mine
<1>2. Mine(t) \in DOMAIN threadStates /\ call[t].doc # 0
  BY DEF Works, Working, CallsOK, Mine
<1>3. CallsOK'
  <2>1. /\ DOMAIN threadStates \subseteq DOMAIN threadStates'
        /\ where \in {"unwind", "failed", "abort", "stuck", "out", "flush", "cleanup"} \/ ~c.aborting
        /\ where \in {"wait", "process", "unwind", "finished", "failed"} =>
             c.state \in DOMAIN threadStates' /\ c.doc # 0
        /\ threadBindings' \in [Thread -> {0} \cup State]
        /\ \A u \in Thread : threadBindings'[u] \in {0} \cup DOMAIN threadStates'
    BY <1>1, <1>2 DEF Works, CallsOK, Mine
  <2> QED
    BY <2>1, CallsKept DEF Works
<1>4. call[t].aborting \in BOOLEAN /\ c.aborting \in BOOLEAN
  BY CallTyped DEF Works, CallType
<1> QED
  BY <1>1, <1>2, <1>3, <1>4

LEMMA WorkCounts ==
  ASSUME CallsOK, CountsOK, NEW t \in Thread, NEW c, NEW where, Works(t, c, where)
  PROVE  CountsOK' /\ abortCount \in Nat /\ (abortCount' = 0 => abortCount = 0 /\ ~c.aborting)
PROOF
<1>1. /\ call'[t].at = where /\ where \in {"unwind", "failed", "finished"}
      /\ call'[t].aborting <=> c.aborting
      /\ \A u \in Thread \ {t} : call'[u] = call[u]
      /\ call[t].at \in {"process", "unwind"}
      /\ call[t].aborting \in BOOLEAN /\ c.aborting \in BOOLEAN
  BY WorkCalls DEF Works, Working
<1>2. Pausers' = Pausers /\ Waiters' = Waiters
  BY <1>1 DEF Pausers, Waiters, Flushing, At
<1>3. abortCount' = Cardinality(Aborters')
  <2>1. PICK A : A = Aborters
    OBVIOUS
  <2>2. PICK B : B = Aborters'
    OBVIOUS
  <2>3. /\ A \in SUBSET Thread /\ B \in SUBSET Thread /\ \A u \in Thread \ {t} : u \in A <=> u \in B
        /\ t \in A <=> call[t].aborting
        /\ t \in B <=> c.aborting
    BY <1>1, <2>1, <2>2 DEF Aborters
  <2>4. /\ t \in A /\ t \notin B => Cardinality(B) = Cardinality(A) - 1
        /\ t \notin A /\ t \in B => Cardinality(B) = Cardinality(A) + 1
        /\ (t \in A <=> t \in B) => B = A
    BY <2>3, Recounted
  <2>5. Cardinality(A) \in Nat /\ abortCount = Cardinality(A)
    BY <2>1, <2>3, Counted DEF CountsOK
  <2>6. call[t].aborting => c.aborting
    BY DEF Works
  <2>7. abortCount' = abortCount + (IF c.aborting /\ ~call[t].aborting THEN 1 ELSE 0)
    BY DEF Works
  <2>8. abortCount' = Cardinality(B)
    BY <2>3, <2>4, <2>5, <2>6, <2>7
  <2> QED
    BY <2>2, <2>8
<1>4. UNCHANGED <<pauseThreads, docs, nextDocID, threadBindings, monitor>>
  BY DEF Works, locks
<1>5. \A i : Binders(i)' = Binders(i)
  BY <1>4 DEF Binders
<1>6. monitor' = NoOne => \A i \in DOMAIN threadStates' : threadStates'[i].numThreads = Cardinality(Binders(i)')
  BY <1>4, <1>5 DEF CountsOK, Works
<1>7. CountsOK'
  <2>1. pauseThreads' = Cardinality(Pausers')
    BY <1>2, <1>4 DEF CountsOK
  <2>2. docs' \in Nat /\ docs' <= MaxDocs /\ nextDocID' + Cardinality(Waiters') <= docs'
    BY <1>2, <1>4 DEF CountsOK
  <2> QED
    BY <1>3, <1>6, <2>1, <2>2 DEF CountsOK
<1>8. abortCount \in Nat /\ (abortCount = 0 => ~call[t].aborting)
  BY NobodyAborts
<1>9. abortCount' = abortCount + (IF c.aborting /\ ~call[t].aborting THEN 1 ELSE 0)
  BY DEF Works
<1> QED
  BY <1>7, <1>8, <1>9

LEMMA WorkLocks ==
  ASSUME CallsOK, LocksOK, WorkOK, NEW t \in Thread, NEW c, NEW where, Works(t, c, where),
         asleep' \subseteq Thread
  PROVE  LocksOK'
PROOF
<1>1. /\ call'[t].at = where /\ where \in {"unwind", "failed", "finished"}
      /\ \A u \in Thread \ {t} : call'[u] = call[u]
  BY WorkCalls
<1>2. monitor' = NoOne /\ monitor = NoOne /\ writerLock' = writerLock /\ fresh' = fresh
  BY DEF Works, locks, flushed
<1>3. fresh = <<>> /\ \A u \in Thread : call[u].at \notin {"paused", "write", "apply", "clear", "resume"}
  BY WorkersUnpaused DEF Works
<1>4. ASSUME NEW u \in Thread
      PROVE  /\ At(u, "stuck")' <=> monitor' = u
             /\ Flushing(u)' \/ (At(u, "abort")' /\ ~call'[u].aborting) => writerLock' = u
             /\ call'[u].at \notin {"paused", "write", "apply", "clear", "resume"}
  <2>1. CASE u = t
    BY <2>1, <1>1, <1>2, NoOneAssumption DEF At, Flushing
  <2>2. CASE u # t
    <3>1. call'[u] = call[u]
      BY <2>2, <1>1
    <3> QED
      BY <3>1, <1>2, <1>3 DEF At, Flushing, LocksOK
  <2> QED
    BY <2>1, <2>2
<1> QED
  BY <1>2, <1>3, <1>4 DEF LocksOK

LEMMA WorkDocs ==
  ASSUME CallsOK, DocsOK, NEW t \in Thread, NEW c, NEW where, Works(t, c, where)
  PROVE  DocsOK'
PROOF
<1>1. /\ call'[t].at = where /\ where \in {"unwind", "failed", "finished"}
      /\ call'[t].doc = call[t].doc /\ call[t].at \in {"process", "unwind"}
      /\ \A u \in Thread \ {t} : call'[u] = call[u]
  BY WorkCalls DEF Works, Working
<1>2. UNCHANGED <<ram, fresh, index, applied, failed, overtaken, docs>>
  BY DEF Works, flushed
<1>3. \A u \in Thread : /\ call'[u].doc = call[u].doc
                        /\ call'[u].at = "wait" => call[u].at = "wait"
                        /\ call'[u].at = "clear" => call[u].at = "clear"
                        /\ call'[u].at \in {"process", "unwind", "failed"} =>
                             call[u].at \in {"process", "unwind", "failed"}
  BY <1>1
<1> QED
  BY <1>2, <1>3 DEF DocsOK, At

LEMMA WorkDeletes ==
  ASSUME CallsOK, DeletesOK, NEW t \in Thread, NEW c, NEW where, Works(t, c, where)
  PROVE  DeletesOK'
PROOF
<1>1. /\ call'[t].at = where /\ where \in {"unwind", "failed", "finished"}
      /\ \A u \in Thread \ {t} : call'[u] = call[u]
      /\ call[t].at \in {"process", "unwind"}
  BY WorkCalls DEF Works, Working
<1>2. UNCHANGED <<ram, fresh, index, applied, failed, overtaken, deleteNum, numDeleteTerms, deleteDocIDs, flushDeletes>>
  BY DEF Works, flushed, deleted
<1>3. \A u \in Thread : \A p \in {"write", "apply", "clear"} : call'[u].at = p <=> call[u].at = p
  BY <1>1
<1>4. TakenAsLive' <=> TakenAsLive
  BY <1>2, <1>3 DEF TakenAsLive, At
<1>5. LiveBefore' = LiveBefore /\ LiveOf(fresh)' = LiveOf(fresh)
  BY <1>2 DEF LiveBefore, LiveOf
<1> QED
  BY <1>2, <1>3, <1>4, <1>5 DEF DeletesOK, Segment, AllOrNone, At

LEMMA WorkClosed ==
  ASSUME CallsOK, ClosedOK, NEW t \in Thread, NEW c, NEW where, Works(t, c, where)
  PROVE  ClosedOK'
PROOF
<1>1. /\ call'[t].aborting <=> c.aborting
      /\ \A u \in Thread \ {t} : call'[u] = call[u]
      /\ call[t].at \in {"process", "unwind"} /\ (call[t].aborting => c.aborting)
      /\ ram' = ram /\ closed' = closed
  BY WorkCalls DEF Works, Working
<1> QED
  BY <1>1 DEF ClosedOK

LEMMA WorkKeeps ==
  ASSUME IInv, NEW t \in Thread, NEW c, NEW where, Works(t, c, where), asleep' \subseteq Thread,
         flushPending => flushPending', {flushPending', bufferIsFull'} \subseteq BOOLEAN, faults' \in Nat,
         StatesOK', WorkOK', StoredOK'
  PROVE  IInv'
PROOF
<1>1. CallsOK' /\ CountsOK' /\ LocksOK' /\ DocsOK' /\ DeletesOK' /\ ClosedOK'
  BY WorkCalls, WorkCounts, WorkLocks, WorkDocs, WorkDeletes, WorkClosed DEF IInv
<1>2. FlushOK'
  BY DEF IInv, FlushOK, Kept, Works
<1>3. RestOK'
  BY DEF IInv, RestOK, Works, flushed
<1> QED
  BY <1>1, <1>2, <1>3 DEF IInv

\* Working threads, when t leaves its document with its thread state idle or in
\* line, and others of the line (idle) are idle as well.
LEMMA WorkLeft ==
  ASSUME WorkOK, CallsOK, StatesOK, NEW t \in Thread, NEW c, NEW where, Works(t, c, where),
         where \in {"failed", "finished"}, NEW i, i = Mine(t), NEW idle, NEW left, line' = left,
         \A j \in DOMAIN threadStates : IsIdle(j)' <=> IsIdle(j) \/ j \in idle,
         idle \subseteq line \cup {i}, left \subseteq line \cup {i}, line \cup {i} \subseteq idle \cup left,
         abortCount' = 0 => abortCount = 0 /\ idle \cap left = {}
  PROVE  WorkOK'
PROOF
<1>1. /\ call'[t].at = where /\ \A u \in Thread \ {t} : call'[u] = call[u]
      /\ i \in DOMAIN threadStates /\ DOMAIN threadStates' = DOMAIN threadStates
      /\ Working(t)
  BY WorkCalls DEF Works
<1>2. /\ \A u \in Thread : (Working(u)' <=> Working(u) /\ u # t)
      /\ \A u \in Thread : (Working(u)' => Mine(u)' = Mine(u))
  BY <1>1 DEF Working, Mine
<1>3. \A u \in Thread : Working(u) /\ u # t =>
        Mine(u) # i /\ Mine(u) \in DOMAIN threadStates /\ Mine(u) \notin line /\ ~IsIdle(Mine(u))
  BY <1>1 DEF WorkOK, CallsOK, Working, Mine
<1>4. (\A u, v \in Thread : Working(u) /\ Working(v) /\ Mine(u) = Mine(v) => u = v)'
  BY <1>2 DEF WorkOK
<1>5. (\A u \in Thread : Working(u) => ~IsIdle(Mine(u)) /\ Mine(u) \notin line)'
  BY <1>1, <1>2, <1>3
<1>6. (\A j \in DOMAIN threadStates : ~IsIdle(j) => j \in line \/ \E u \in Thread : Working(u) /\ Mine(u) = j)'
  <2> SUFFICES ASSUME NEW j \in DOMAIN threadStates, ~IsIdle(j)', j \notin left
               PROVE  \E u \in Thread : Working(u)' /\ Mine(u)' = j
    BY <1>1
  <2>1. ~IsIdle(j) /\ j \notin idle /\ j # i /\ j \notin line
    OBVIOUS
  <2>2. PICK u \in Thread : Working(u) /\ Mine(u) = j
    BY <2>1 DEF WorkOK
  <2> QED
    BY <2>1, <2>2, <1>2
<1>7. (abortCount = 0 => \A j \in line : ~IsIdle(j))'
  <2> SUFFICES ASSUME abortCount' = 0, NEW j \in left
               PROVE  ~IsIdle(j)'
    OBVIOUS
  <2>1. j \in DOMAIN threadStates /\ j \notin idle /\ j \in line \cup {i}
    BY <1>1 DEF StatesOK
  <2>2. ~IsIdle(j)
    BY <2>1, <1>1 DEF WorkOK
  <2> QED
    BY <2>1, <2>2
<1> QED
  BY <1>4, <1>5, <1>6, <1>7 DEF WorkOK

\* DocIDs of the thread states in line.
LEMMA LineIDs ==
  ASSUME StatesOK, WorkOK, StoredOK, monitor = NoOne, abortCount = 0
  PROVE  /\ nextWriteDocID \in Nat /\ nextDocID \in Nat /\ InTurn
         /\ \A i \in DOMAIN threadStates : threadStates[i].docID \in Nat
         /\ \A i \in line : /\ i \in DOMAIN threadStates /\ ~IsIdle(i)
                            /\ threadStates[i].docID > nextWriteDocID /\ threadStates[i].docID < nextDocID
PROOF
<1>1. InTurn /\ nextWriteDocID \in Nat /\ nextDocID \in Nat
  BY DEF StoredOK
<1>2. \A i \in DOMAIN threadStates : threadStates[i].docID \in Nat
  <2> SUFFICES ASSUME NEW i \in DOMAIN threadStates
               PROVE  threadStates[i].docID \in Nat
    OBVIOUS
  <2>1. threadStates[i] \in StateType
    BY DEF StatesOK
  <2> QED
    BY <2>1, BoundsAssumption DEF StateType, DocID
<1>3. \A i \in line : i \in DOMAIN threadStates /\ ~IsIdle(i)
  BY DEF StatesOK, WorkOK
<1>4. \A i \in line : threadStates[i].docID > nextWriteDocID /\ threadStates[i].docID < nextDocID
  <2> SUFFICES ASSUME NEW i \in line
               PROVE  threadStates[i].docID > nextWriteDocID /\ threadStates[i].docID < nextDocID
    OBVIOUS
  <2>1. /\ threadStates[i].docID >= nextWriteDocID /\ threadStates[i].docID < nextDocID
        /\ threadStates[i].docID # nextWriteDocID
    BY <1>1, <1>3 DEF InTurn
  <2> QED
    BY <2>1, <1>1, <1>2, <1>3
<1> QED
  BY <1>1, <1>2, <1>3, <1>4

\* The line is swept up to the first docID that nobody in it has.
LEMMA SweptTo ==
  ASSUME StatesOK, WorkOK, StoredOK, monitor = NoOne, abortCount = 0, nextWriteDocID < nextDocID
  PROVE  \E m \in Nat :
           /\ nextWriteDocID < m /\ m <= nextDocID
           /\ \A i \in line : threadStates[i].docID # m
           /\ \A k \in (nextWriteDocID + 1)..(m - 1) : \E i \in line : threadStates[i].docID = k
           /\ Swept(nextWriteDocID) = {i \in line : threadStates[i].docID < m}
           /\ Cardinality(Swept(nextWriteDocID)) = m - nextWriteDocID - 1
PROOF
<1>1. /\ nextWriteDocID \in Nat /\ nextDocID \in Nat /\ InTurn
      /\ \A i \in DOMAIN threadStates : threadStates[i].docID \in Nat
      /\ \A i \in line : /\ i \in DOMAIN threadStates /\ ~IsIdle(i)
                         /\ threadStates[i].docID > nextWriteDocID /\ threadStates[i].docID < nextDocID
  BY LineIDs
<1>2. PICK n \in Nat : n = nextWriteDocID
  BY <1>1
<1>3. PICK id : id = [i \in DOMAIN threadStates |-> threadStates[i].docID]
  OBVIOUS
<1>4. \A i \in line : threadStates[i].docID = id[i] /\ id[i] \in Nat /\ id[i] > n /\ id[i] < nextDocID
  BY <1>1, <1>2, <1>3
<1>5. PICK m \in {k \in Nat : k > n /\ \A i \in line : id[i] # k} :
        \A k \in {k \in Nat : k > n /\ \A i \in line : id[i] # k} : m <= k
  <2>1. nextDocID \in {k \in Nat : k > n /\ \A i \in line : id[i] # k}
    BY <1>1, <1>2, <1>4
  <2>2. {k \in Nat : k > n /\ \A i \in line : id[i] # k} \in SUBSET Nat
    OBVIOUS
  <2> QED
    BY <2>1, <2>2, Least
<1>6. m \in Nat /\ n < m /\ m <= nextDocID /\ \A i \in line : id[i] # m
  BY <1>1, <1>2, <1>4, <1>5
<1>7. \A k \in (n + 1)..(m - 1) : \E i \in line : id[i] = k
  <2> SUFFICES ASSUME NEW k \in (n + 1)..(m - 1), \A i \in line : id[i] # k
               PROVE  FALSE
    OBVIOUS
  <2>1. k \in Nat /\ k > n /\ k < m
    BY <1>6
  <2> QED
    BY <2>1, <1>5
<1>8. PICK S : S = {i \in line : id[i] < m}
  OBVIOUS
<1>9. Swept(n) = S
  <2>1. Swept(n) = {i \in line : \A k \in (n + 1)..id[i] : \E j \in line : id[j] = k}
    BY <1>4 DEF Swept
  <2>2. ASSUME NEW i \in line, id[i] < m
        PROVE  \A k \in (n + 1)..id[i] : \E j \in line : id[j] = k
    <3> SUFFICES ASSUME NEW k \in (n + 1)..id[i]
                 PROVE  \E j \in line : id[j] = k
      OBVIOUS
    <3>1. k \in (n + 1)..(m - 1)
      BY <2>2, <1>4, <1>6
    <3> QED
      BY <3>1, <1>7
  <2>3. ASSUME NEW i \in line, \A k \in (n + 1)..id[i] : \E j \in line : id[j] = k
        PROVE  id[i] < m
    <3>1. SUFFICES ASSUME ~(id[i] < m)
                   PROVE  FALSE
      OBVIOUS
    <3>2. m \in (n + 1)..id[i]
      BY <3>1, <1>4, <1>6
    <3> QED
      BY <3>2, <2>3, <1>6
  <2> QED
    BY <2>1, <2>2, <2>3, <1>8
<1>10. Cardinality(S) = m - n - 1
  <2> DEFINE I == (n + 1)..(m - 1)
             f == [k \in I |-> CHOOSE i \in line : id[i] = k]
  <2>1. \A k \in I : f[k] \in line /\ id[f[k]] = k
    BY <1>7
  <2>2. \A k \in I : f[k] \in S
    BY <2>1, <1>6, <1>8
  <2>3. \A i \in S : id[i] \in I /\ f[id[i]] = i
    <3> SUFFICES ASSUME NEW i \in S
                 PROVE  id[i] \in I /\ f[id[i]] = i
      OBVIOUS
    <3>1. i \in line /\ id[i] \in I
      BY <1>4, <1>6, <1>8
    <3>2. f[id[i]] \in line /\ id[f[id[i]]] = id[i]
      BY <3>1, <2>1
    <3>3. \A j \in line : id[j] = threadStates[j].docID /\ ~IsIdle(j) /\ j \in DOMAIN threadStates
      BY <1>1, <1>4
    <3> QED
      BY <3>1, <3>2, <3>3, <1>1 DEF InTurn
  <2>4. f \in [I -> S]
    BY <2>2
  <2>5. \A j, k \in I : f[j] = f[k] => j = k
    BY <2>1
  <2>6. \A i \in S : \E k \in I : f[k] = i
    BY <2>3
  <2> HIDE DEF f
  <2>7. f \in Injection(I, S) /\ f \in Surjection(I, S)
    BY <2>4, <2>5, <2>6 DEF Injection, Surjection, IsInjective
  <2>8. ExistsBijection(I, S)
    BY <2>7 DEF ExistsBijection, Bijection
  <2>9. IsFiniteSet(I) /\ Cardinality(I) = m - n - 1
    <3>1. n + 1 \in Int /\ m - 1 \in Int /\ n < m
      BY <1>6
    <3>2. IsFiniteSet(I) /\ Cardinality(I) = IF n + 1 > m - 1 THEN 0 ELSE (m - 1) - (n + 1) + 1
      BY <3>1, FS_Interval
    <3> QED
      BY <3>1, <3>2, <1>6
  <2> QED
    BY <2>8, <2>9, FS_Bijection
<1>11. S = {i \in line : threadStates[i].docID < m}
  BY <1>4, <1>8
<1> QED
  BY <1>2, <1>4, <1>6, <1>7, <1>9, <1>10, <1>11

LEMMA Finishing ==
  ASSUME CallsOK, NEW t \in Thread, Working(t), Goto(t, AfterFinish(t))
  PROVE  \E where \in {"failed", "finished"} :
           Moved(t, call[t], where) /\ (where = "finished" => ~call[t].aborting)
PROOF
<1>1. AfterFinish(t) \in {"failed", "finished"} /\ (AfterFinish(t) = "finished" => ~call[t].aborting)
  BY DEF AfterFinish, Working, CallsOK, At
<1>2. PICK where : where = AfterFinish(t)
  OBVIOUS
<1>3. where \in Where /\ Goto(t, where)
  BY <1>1, <1>2 DEF Where
<1>4. Moved(t, call[t], where)
  BY <1>3, Going1
<1> QED
  BY <1>1, <1>2, <1>4

LEMMA ProcessFailsKeeps ==
  ASSUME IInv, NEW t \in Thread, NEW ab \in BOOLEAN, ProcessFails(t, ab)
  PROVE  IInv'
PROOF
<1>1. PICK c : c = [call[t] EXCEPT !.aborting = ab]
  OBVIOUS
<1>2. call[t] \in CallType /\ call[t].at = "process" /\ ~call[t].aborting /\ CallsOK
  BY CallTyped DEF IInv, ProcessFails, At, CallsOK
<1>3. /\ c \in CallType /\ c.state = call[t].state /\ c.doc = call[t].doc /\ c.aborting = ab
  BY <1>1, <1>2 DEF CallType
<1>4. Moved(t, c, "unwind")
  <2>1. GoWith(t, c, "unwind") /\ "unwind" \in Where
    BY <1>1 DEF ProcessFails, Where
  <2> QED
    BY <2>1, <1>2, <1>3, Going
<1>5. /\ monitor = NoOne
      /\ UNCHANGED <<threadStates, threadBindings, ids, pauseThreads, flags, closed, locks, asleep, buffered,
                     deleted, flushed, docs, failed, overtaken>>
      /\ abortCount' = abortCount + (IF ab THEN 1 ELSE 0) /\ faults' = faults + 1
  BY DEF ProcessFails, Runs
<1>6. UNCHANGED <<threadStates, threadBindings, nextDocID, numDocsInRAM, nextWriteDocID, line, pauseThreads,
                  flushPending, bufferIsFull, closed, monitor, asleep, ram, stored>>
  BY <1>5 DEF ids, flags, buffered, locks
<1>7. Works(t, c, "unwind")
  BY <1>2, <1>3, <1>4, <1>5, <1>6 DEF Works, Working
<1>8. abortCount' = 0 => abortCount = 0
  BY <1>7, WorkCounts DEF IInv
<1>9. StatesOK'
  BY <1>6 DEF IInv, StatesOK
<1>10. WorkOK'
  <2>1. /\ call'[t].at = "unwind" /\ call'[t].state = Mine(t) /\ \A u \in Thread \ {t} : call'[u] = call[u]
    BY <1>7, WorkCalls DEF IInv
  <2>2. /\ \A u \in Thread : Working(u)' <=> Working(u)
        /\ \A u \in Thread : Mine(u)' = Mine(u)
    BY <2>1, <1>2 DEF Working, Mine
  <2>3. \A i : IsIdle(i)' <=> IsIdle(i)
    BY <1>6 DEF IsIdle
  <2> QED
    BY <2>2, <2>3, <1>6, <1>8 DEF IInv, WorkOK
<1>11. StoredOK'
  <2>1. InTurn => InTurn'
    BY <1>6, InTurnKept
  <2> QED
    BY <2>1, <1>6, <1>8 DEF IInv, StoredOK
<1>12. /\ asleep' \subseteq Thread /\ flushPending' = flushPending
       /\ {flushPending', bufferIsFull'} \subseteq BOOLEAN /\ faults' \in Nat
  BY <1>5, <1>6 DEF IInv, RestOK, LocksOK
<1> QED
  BY <1>7, <1>9, <1>10, <1>11, <1>12, WorkKeeps

LEMMA FinishAbortingKeeps ==
  ASSUME IInv, NEW t \in Thread, FinishAborting(t)
  PROVE  IInv'
PROOF
<1>1. /\ monitor = NoOne /\ Working(t) /\ abortCount > 0 /\ CallsOK /\ call[t] \in CallType
      /\ UNCHANGED <<threadBindings, ids, pauseThreads, flags, abortCount, closed, locks, buffered, deleted,
                     flushed, docs, failed, overtaken, faults>>
      /\ asleep' = {} /\ threadStates' = [threadStates EXCEPT ![Mine(t)].isIdle = TRUE]
  BY CallTyped DEF FinishAborting, NotifyAll, Runs, Working, IInv, bounds
<1>2. PICK where \in {"failed", "finished"} :
        Moved(t, call[t], where) /\ (where = "finished" => ~call[t].aborting)
  BY <1>1, Finishing DEF FinishAborting
<1>3. UNCHANGED <<nextDocID, numDocsInRAM, nextWriteDocID, line, flushPending, bufferIsFull, monitor, ram, stored>>
  BY <1>1 DEF ids, flags, locks, buffered
<1>4. Mine(t) \in DOMAIN threadStates /\ threadStates \in Seq(StateType)
  BY <1>1 DEF IInv, CallsOK, StatesOK, Working, Mine
<1>5. PICK i : i = Mine(t)
  OBVIOUS
<1>6. PICK n \in Nat : Len(threadStates) = n /\ DOMAIN threadStates = 1..n
  BY <1>4
<1>7. /\ DOMAIN threadStates' = 1..n
      /\ \A j \in 1..n : threadStates'[j] = IF j = i THEN [threadStates[j] EXCEPT !.isIdle = TRUE]
                                           ELSE threadStates[j]
      /\ \A j \in 1..n : threadStates[j] \in StateType
  <2>1. threadStates' = [threadStates EXCEPT ![i] = [threadStates[i] EXCEPT !.isIdle = TRUE]]
    BY <1>1, <1>5
  <2>2. i \in 1..n /\ threadStates \in [1..n -> StateType]
    BY <1>4, <1>5, <1>6
  <2> QED
    BY <2>1, <2>2
<1>8. \A j \in 1..n : /\ threadStates'[j] \in StateType
                      /\ threadStates'[j].numThreads = threadStates[j].numThreads
                      /\ threadStates'[j].isIdle <=> threadStates[j].isIdle \/ j = i
  BY <1>7 DEF StateType
<1>9. Works(t, call[t], where)
  <2>1. abortCount' = abortCount + (IF call[t].aborting /\ ~call[t].aborting THEN 1 ELSE 0)
    BY <1>1, NobodyAborts DEF IInv
  <2> QED
    BY <2>1, <1>1, <1>2, <1>3, <1>6, <1>7, <1>8 DEF Works
<1>10. StatesOK'
  <2>1. threadStates' \in Seq(StateType) /\ Len(threadStates') = n
    <3>1. threadStates' \in [1..n -> StateType]
      BY <1>1, <1>4, <1>6, <1>7, <1>8
    <3> QED
      BY <3>1
  <2> QED
    BY <2>1, <1>3, <1>6 DEF IInv, StatesOK
<1>11. abortCount' # 0
  BY <1>1, NobodyAborts DEF IInv
<1>12. WorkOK'
  <2>1. line' = line /\ \A j \in DOMAIN threadStates : IsIdle(j)' <=> IsIdle(j) \/ j \in {i}
    BY <1>3, <1>6, <1>8 DEF IsIdle
  <2>2. /\ {i} \subseteq line \cup {i} /\ line \subseteq line \cup {i} /\ line \cup {i} \subseteq {i} \cup line
        /\ abortCount' = 0 => abortCount = 0 /\ {i} \cap line = {}
    BY <1>11
  <2>3. WorkOK /\ StatesOK
    BY DEF IInv
  <2> QED
    BY <2>1, <2>2, <2>3, <1>1, <1>2, <1>5, <1>9, WorkLeft
<1>13. StoredOK'
  BY <1>3, <1>11 DEF IInv, StoredOK
<1>14. /\ asleep' \subseteq Thread /\ flushPending' = flushPending
       /\ {flushPending', bufferIsFull'} \subseteq BOOLEAN /\ faults' \in Nat
  BY <1>1, <1>3 DEF IInv, RestOK
<1> QED
  BY <1>9, <1>10, <1>12, <1>13, <1>14, WorkKeeps

LEMMA FinishInLineKeeps ==
  ASSUME IInv, NEW t \in Thread, FinishInLine(t)
  PROVE  IInv'
PROOF
<1>1. /\ monitor = NoOne /\ Working(t) /\ abortCount = 0 /\ CallsOK /\ call[t] \in CallType
      /\ UNCHANGED <<threadStates, threadBindings, nextDocID, numDocsInRAM, nextWriteDocID, pauseThreads,
                     flags, abortCount, closed, locks, asleep, buffered, deleted, flushed, docs, failed,
                     overtaken, faults>>
      /\ line' = line \cup {Mine(t)} /\ ~MyTurn(t)
  BY CallTyped DEF FinishInLine, Runs, Working, IInv, bounds
<1>2. PICK where \in {"failed", "finished"} :
        Moved(t, call[t], where) /\ (where = "finished" => ~call[t].aborting)
  BY <1>1, Finishing DEF FinishInLine
<1>3. UNCHANGED <<threadStates, nextDocID, numDocsInRAM, nextWriteDocID, flushPending, bufferIsFull, monitor,
                  abortCount, ram, stored>>
  BY <1>1 DEF flags, locks, buffered
<1>4. Mine(t) \in DOMAIN threadStates
  BY <1>1 DEF CallsOK, Working, Mine
<1>5. PICK i : i = Mine(t)
  OBVIOUS
<1>6. Works(t, call[t], where)
  <2>1. abortCount' = abortCount + (IF call[t].aborting /\ ~call[t].aborting THEN 1 ELSE 0)
    BY <1>1
  <2>2. /\ DOMAIN threadStates' = DOMAIN threadStates
        /\ \A j \in DOMAIN threadStates : threadStates'[j].numThreads = threadStates[j].numThreads
    BY <1>3
  <2> QED
    BY <2>1, <2>2, <1>1, <1>2, <1>3 DEF Works
<1>7. StatesOK'
  BY <1>1, <1>4 DEF IInv, StatesOK
<1>8. WorkOK'
  <2>1. \A j \in DOMAIN threadStates : IsIdle(j)' <=> IsIdle(j) \/ j \in {}
    BY <1>3 DEF IsIdle
  <2>2. PICK left : left = line \cup {i}
    OBVIOUS
  <2>3. /\ line' = left /\ {} \subseteq line \cup {i} /\ left \subseteq line \cup {i}
        /\ line \cup {i} \subseteq {} \cup left
        /\ abortCount' = 0 => abortCount = 0 /\ {} \cap left = {}
    BY <2>2, <1>1, <1>5
  <2>4. WorkOK /\ StatesOK
    BY DEF IInv
  <2> QED
    BY <2>1, <2>3, <2>4, <1>1, <1>2, <1>5, <1>6, WorkLeft
<1>9. StoredOK'
  <2>1. InTurn'
    <3>1. InTurn
      BY <1>1 DEF IInv, StoredOK
    <3>2. \A j \in line' : threadStates[j].docID # nextWriteDocID
      BY <3>1, <1>1 DEF InTurn, MyTurn
    <3>3. \A j : IsIdle(j)' <=> IsIdle(j)
      BY <1>3 DEF IsIdle
    <3> QED
      BY <3>1, <3>2, <3>3, <1>3 DEF InTurn
  <2> QED
    BY <2>1, <1>3 DEF IInv, StoredOK
<1>10. /\ asleep' \subseteq Thread /\ flushPending' = flushPending
       /\ {flushPending', bufferIsFull'} \subseteq BOOLEAN /\ faults' \in Nat
  BY <1>1, <1>3 DEF IInv, RestOK, LocksOK
<1> QED
  BY <1>6, <1>7, <1>8, <1>9, <1>10, WorkKeeps

LEMMA States ==
  ASSUME StatesOK
  PROVE  \E n \in Nat : /\ n = Len(threadStates) /\ n <= MaxThreadState
                        /\ DOMAIN threadStates = 1..n /\ threadStates \in [1..n -> StateType]
PROOF
  BY DEF StatesOK

LEMMA Restated ==
  ASSUME NEW n \in Nat, n <= MaxThreadState, threadStates' \in [1..n -> StateType], line' \subseteq 1..n
  PROVE  StatesOK'
PROOF
<1>1. threadStates' \in Seq(StateType) /\ Len(threadStates') = n
  OBVIOUS
<1> QED
  BY <1>1 DEF StatesOK

\* Thread states of X are idle when a document of i is finished.
Idles(X, i, flush) ==
    threadStates' = [j \in DOMAIN threadStates |->
                       [threadStates[j] EXCEPT !.isIdle = @ \/ j \in X,
                                               !.doFlushAfter = @ \/ (j = i /\ flush)]]

LEMMA Idled ==
  ASSUME StatesOK, NEW X, NEW i, NEW flush, line' \subseteq line, Idles(X, i, flush)
  PROVE  /\ StatesOK' /\ DOMAIN threadStates' = DOMAIN threadStates
         /\ \A j \in DOMAIN threadStates :
              /\ threadStates'[j].docID = threadStates[j].docID
              /\ threadStates'[j].numThreads = threadStates[j].numThreads
              /\ IsIdle(j)' <=> IsIdle(j) \/ j \in X
PROOF
<1>1. PICK n \in Nat : /\ n = Len(threadStates) /\ n <= MaxThreadState
                      /\ DOMAIN threadStates = 1..n /\ threadStates \in [1..n -> StateType]
  BY States
<1>2. ASSUME NEW j \in 1..n
      PROVE  /\ threadStates'[j] \in StateType
             /\ threadStates'[j].docID = threadStates[j].docID
             /\ threadStates'[j].numThreads = threadStates[j].numThreads
             /\ threadStates'[j].isIdle <=> threadStates[j].isIdle \/ j \in X
  <2>1. threadStates[j] \in StateType
    BY <1>1
  <2>2. threadStates'[j] = [threadStates[j] EXCEPT !.isIdle = threadStates[j].isIdle \/ j \in X,
                              !.doFlushAfter = threadStates[j].doFlushAfter \/ (j = i /\ flush)]
    BY <1>1 DEF Idles
  <2> QED
    BY <2>1, <2>2 DEF StateType
<1>3. DOMAIN threadStates' = 1..n /\ threadStates' = [j \in 1..n |-> threadStates'[j]]
  BY <1>1 DEF Idles
<1>4. threadStates' \in [1..n -> StateType]
  BY <1>2, <1>3
<1>5. line' \subseteq 1..n
  BY <1>1 DEF StatesOK
<1>6. StatesOK'
  BY <1>1, <1>4, <1>5, Restated
<1> QED
  BY <1>1, <1>2, <1>3, <1>6 DEF IsIdle

\* The thread that writes its document, and its docID.
LEMMA Writer ==
  ASSUME IInv, NEW t \in Thread, Working(t), monitor = NoOne, abortCount = 0, MyTurn(t)
  PROVE  /\ Mine(t) \in DOMAIN threadStates /\ ~IsIdle(Mine(t)) /\ Mine(t) \notin line
         /\ threadStates[Mine(t)].docID = nextWriteDocID /\ nextWriteDocID < nextDocID
         /\ nextWriteDocID = Len(stored) /\ nextDocID = Len(ram) /\ nextDocID <= MaxDocs
PROOF
<1>1. /\ Mine(t) \in DOMAIN threadStates /\ ~IsIdle(Mine(t)) /\ Mine(t) \notin line
  BY DEF IInv, CallsOK, WorkOK, Working, Mine
<1>2. InTurn /\ nextWriteDocID = Len(stored) /\ nextDocID = Len(ram)
  BY DEF IInv, StoredOK
<1>3. threadStates[Mine(t)].docID = nextWriteDocID
  BY DEF MyTurn
<1>4. nextDocID <= MaxDocs
  <2>1. /\ docs \in Nat /\ docs <= MaxDocs /\ nextDocID + Cardinality(Waiters) <= docs
    BY DEF IInv, CountsOK
  <2>2. Cardinality(Waiters) \in Nat
    BY Counted DEF Waiters
  <2>3. nextDocID \in Nat
    BY <1>2 DEF IInv, StoredOK
  <2> QED
    BY <2>1, <2>2, <2>3, BoundsAssumption
<1> QED
  BY <1>1, <1>2, <1>3, <1>4 DEF InTurn

\* What is written of RAM to the doc stores.
LEMMA Written ==
  ASSUME NEW S, NEW r \in Seq(S), NEW s \in Seq(S), NEW m \in Nat, Len(s) <= m, m <= Len(r),
         \A k \in 1..Len(s) : s[k] = r[k], NEW w, w = s \o SubSeq(r, Len(s) + 1, m)
  PROVE  w \in Seq(S) /\ Len(w) = m /\ \A k \in 1..m : w[k] = r[k]
PROOF
<1>1. PICK n \in Nat : n = Len(s)
  OBVIOUS
<1>2. PICK v : v = SubSeq(r, n + 1, m)
  OBVIOUS
<1>3. v \in Seq(S) /\ Len(v) = m - n /\ \A k \in 1..(m - n) : v[k] = r[n + k]
  BY <1>1, <1>2
<1>4. w = s \o v
  BY <1>1, <1>2
<1>5. w \in Seq(S) /\ Len(w) = m
  BY <1>1, <1>3, <1>4
<1>6. \A k \in 1..m : w[k] = IF k <= n THEN s[k] ELSE v[k - n]
  <2>1. \A k \in 1..(Len(s) + Len(v)) : w[k] = IF k <= Len(s) THEN s[k] ELSE v[k - Len(s)]
    BY <1>3, <1>4, ConcatProperties
  <2>2. Len(s) + Len(v) = m
    BY <1>1, <1>3
  <2> QED
    BY <2>1, <2>2, <1>1
<1>7. ASSUME NEW k \in 1..m
      PROVE  w[k] = r[k]
  <2>1. CASE k <= n
    BY <2>1, <1>1, <1>6
  <2>2. CASE k > n
    <3>1. k - n \in 1..(m - n) /\ n + (k - n) = k
      BY <2>2
    <3> QED
      BY <3>1, <2>2, <1>3, <1>6
  <2> QED
    BY <2>1, <2>2
<1> QED
  BY <1>5, <1>7

\* The document of i, and those swept from the line behind it, are done; m is
\* next.
Passes(i, m, swept) ==
    /\ InTurn /\ i \in DOMAIN threadStates /\ ~IsIdle(i) /\ threadStates[i].docID = nextWriteDocID
    /\ m \in Nat /\ nextWriteDocID \in Nat /\ nextDocID \in Nat /\ nextWriteDocID < m /\ m <= nextDocID
    /\ swept = {j \in line : threadStates[j].docID < m}
    /\ \A j \in line : threadStates[j].docID # m
    /\ \A k \in (nextWriteDocID + 1)..(m - 1) : \E j \in line : threadStates[j].docID = k
    /\ \A j \in line : j \in DOMAIN threadStates /\ ~IsIdle(j)
    /\ \A j \in DOMAIN threadStates : threadStates[j].docID \in Nat
    /\ DOMAIN threadStates' = DOMAIN threadStates /\ nextWriteDocID' = m /\ nextDocID' = nextDocID
    /\ line' = line \ swept
    /\ \A j \in DOMAIN threadStates : /\ threadStates'[j].docID = threadStates[j].docID
                                      /\ IsIdle(j)' <=> IsIdle(j) \/ j \in swept \cup {i}

LEMMA InTurnTo ==
  ASSUME NEW i, NEW m, NEW swept, Passes(i, m, swept)
  PROVE  InTurn'
PROOF
<1>0. /\ InTurn /\ i \in DOMAIN threadStates /\ ~IsIdle(i) /\ threadStates[i].docID = nextWriteDocID
      /\ m \in Nat /\ nextWriteDocID \in Nat /\ nextDocID \in Nat /\ nextWriteDocID < m /\ m <= nextDocID
      /\ swept = {j \in line : threadStates[j].docID < m}
      /\ \A j \in line : threadStates[j].docID # m
      /\ \A k \in (nextWriteDocID + 1)..(m - 1) : \E j \in line : threadStates[j].docID = k
      /\ \A j \in line : j \in DOMAIN threadStates /\ ~IsIdle(j)
      /\ \A j \in DOMAIN threadStates : threadStates[j].docID \in Nat
  BY DEF Passes
<1>a. /\ DOMAIN threadStates' = DOMAIN threadStates /\ nextWriteDocID' = m /\ nextDocID' = nextDocID
      /\ line' = line \ swept
      /\ \A j \in DOMAIN threadStates : /\ threadStates'[j].docID = threadStates[j].docID
                                        /\ IsIdle(j)' <=> IsIdle(j) \/ j \in swept \cup {i}
  BY DEF Passes
<1>1. ASSUME NEW j \in DOMAIN threadStates, ~IsIdle(j)'
      PROVE  ~IsIdle(j) /\ j # i /\ j \notin swept /\ threadStates[j].docID >= m
  <2>1. ~IsIdle(j) /\ j # i /\ j \notin swept
    BY <1>0, <1>a, <1>1
  <2>2. threadStates[j].docID > nextWriteDocID
    BY <2>1, <1>0 DEF InTurn
  <2>3. CASE threadStates[j].docID < m
    <3>1. threadStates[j].docID \in (nextWriteDocID + 1)..(m - 1)
      BY <2>2, <2>3, <1>0, <1>a
    <3>2. PICK l \in line : threadStates[l].docID = threadStates[j].docID
      BY <3>1, <1>0
    <3>3. l = j
      BY <3>2, <2>1, <1>0 DEF InTurn
    <3> QED
      BY <3>2, <3>3, <2>1, <2>3, <1>0
  <2> QED
    BY <2>1, <2>3, <1>0
<1>2. (\A j \in DOMAIN threadStates :
         ~IsIdle(j) => threadStates[j].docID >= nextWriteDocID /\ threadStates[j].docID < nextDocID)'
  BY <1>0, <1>a, <1>1 DEF InTurn
<1>3. (\A j, l \in DOMAIN threadStates :
         ~IsIdle(j) /\ ~IsIdle(l) /\ threadStates[j].docID = threadStates[l].docID => j = l)'
  BY <1>0, <1>a, <1>1 DEF InTurn
<1>4. (\A k \in nextWriteDocID..(nextDocID - 1) :
         \E j \in DOMAIN threadStates : ~IsIdle(j) /\ threadStates[j].docID = k)'
  <2> SUFFICES ASSUME NEW k \in m..(nextDocID - 1)
               PROVE  \E j \in DOMAIN threadStates : ~IsIdle(j)' /\ threadStates'[j].docID = k
    BY <1>0, <1>a
  <2>1. k \in nextWriteDocID..(nextDocID - 1)
    BY <1>0, <1>a
  <2>2. PICK j \in DOMAIN threadStates : ~IsIdle(j) /\ threadStates[j].docID = k
    BY <2>1, <1>0 DEF InTurn
  <2>3. j # i /\ j \notin swept
    BY <2>2, <1>0
  <2> QED
    BY <2>2, <2>3, <1>0, <1>a
<1>5. (\A j \in line : threadStates[j].docID # nextWriteDocID)'
  BY <1>0, <1>a
<1> QED
  BY <1>2, <1>3, <1>4, <1>5 DEF InTurn

LEMMA FinishTurnKeeps ==
  ASSUME IInv, NEW t \in Thread, FinishTurn(t)
  PROVE  IInv'
PROOF
<1>1. /\ monitor = NoOne /\ Working(t) /\ abortCount = 0 /\ CallsOK /\ call[t] \in CallType
      /\ UNCHANGED <<threadBindings, nextDocID, numDocsInRAM, pauseThreads, bufferIsFull,
                     abortCount, closed, locks, ram, deleted, flushed, docs, failed, overtaken, faults>>
      /\ asleep' = {} /\ MyTurn(t)
  BY CallTyped DEF FinishTurn, NotifyIdle, NotifyAll, Runs, Working, IInv, bounds
<1>2. PICK where \in {"failed", "finished"} :
        Moved(t, call[t], where) /\ (where = "finished" => ~call[t].aborting)
  BY <1>1, Finishing DEF FinishTurn
<1>3. PICK i : i = Mine(t)
  OBVIOUS
<1>4. /\ i \in DOMAIN threadStates /\ ~IsIdle(i) /\ i \notin line
      /\ threadStates[i].docID = nextWriteDocID /\ nextWriteDocID < nextDocID
      /\ nextWriteDocID = Len(stored) /\ nextDocID = Len(ram) /\ nextDocID <= MaxDocs
  BY <1>1, <1>3, Writer
<1>5. StatesOK /\ WorkOK /\ StoredOK
  BY DEF IInv
<1>6. /\ nextWriteDocID \in Nat /\ nextDocID \in Nat /\ InTurn
      /\ \A j \in DOMAIN threadStates : threadStates[j].docID \in Nat
      /\ \A j \in line : /\ j \in DOMAIN threadStates /\ ~IsIdle(j)
                         /\ threadStates[j].docID > nextWriteDocID /\ threadStates[j].docID < nextDocID
  BY <1>1, <1>5, LineIDs
<1>7. PICK m \in Nat :
        /\ nextWriteDocID < m /\ m <= nextDocID
        /\ \A j \in line : threadStates[j].docID # m
        /\ \A k \in (nextWriteDocID + 1)..(m - 1) : \E j \in line : threadStates[j].docID = k
        /\ Swept(nextWriteDocID) = {j \in line : threadStates[j].docID < m}
        /\ Cardinality(Swept(nextWriteDocID)) = m - nextWriteDocID - 1
  BY <1>1, <1>4, <1>5, SweptTo
<1>8. PICK swept : swept = Swept(nextWriteDocID)
  OBVIOUS
<1>9. PICK flush : flush = (bufferIsFull /\ ~flushPending)
  OBVIOUS
<1>10. PICK card : card = Cardinality(swept)
  OBVIOUS
<1>11. PICK n : n = threadStates[i].docID
  OBVIOUS
<1>12. /\ stored' = stored \o SubSeq(ram, n + 1, n + 1 + card)
       /\ nextWriteDocID' = nextWriteDocID + 1 + card
       /\ line' = line \ swept /\ Idles(swept \cup {i}, i, flush)
       /\ flushPending' = (flushPending \/ flush)
  BY <1>3, <1>8, <1>9, <1>10, <1>11 DEF FinishTurn, Idles
<1>13. /\ card = m - nextWriteDocID - 1 /\ swept = {j \in line : threadStates[j].docID < m}
       /\ n = nextWriteDocID
  BY <1>4, <1>7, <1>8, <1>10, <1>11
<1>14. /\ stored' = stored \o SubSeq(ram, Len(stored) + 1, m) /\ nextWriteDocID' = m
  <2>1. nextWriteDocID + 1 + card = m /\ n + 1 + card = m /\ n = Len(stored)
    BY <1>4, <1>6, <1>13
  <2> QED
    BY <2>1, <1>12
<1>15. /\ StatesOK' /\ DOMAIN threadStates' = DOMAIN threadStates
       /\ \A j \in DOMAIN threadStates :
            /\ threadStates'[j].docID = threadStates[j].docID
            /\ threadStates'[j].numThreads = threadStates[j].numThreads
            /\ IsIdle(j)' <=> IsIdle(j) \/ j \in swept \cup {i}
  <2>1. PICK X : X = swept \cup {i}
    OBVIOUS
  <2>2. line' \subseteq line /\ Idles(X, i, flush)
    BY <2>1, <1>12
  <2> QED
    BY <2>1, <2>2, <1>5, Idled
<1>16. Works(t, call[t], where)
  <2>1. abortCount' = abortCount + (IF call[t].aborting /\ ~call[t].aborting THEN 1 ELSE 0)
    BY <1>1
  <2> QED
    BY <2>1, <1>1, <1>2, <1>15 DEF Works
<1>17. WorkOK'
  <2>1. PICK X : X = swept \cup {i}
    OBVIOUS
  <2>2. PICK left : left = line \ swept
    OBVIOUS
  <2>3. /\ line' = left /\ X \subseteq line \cup {i} /\ left \subseteq line \cup {i}
        /\ line \cup {i} \subseteq X \cup left
        /\ abortCount' = 0 => abortCount = 0 /\ X \cap left = {}
        /\ \A j \in DOMAIN threadStates : IsIdle(j)' <=> IsIdle(j) \/ j \in X
    BY <2>1, <2>2, <1>1, <1>4, <1>12, <1>13, <1>15
  <2> QED
    BY <2>3, <1>1, <1>2, <1>3, <1>5, <1>16, WorkLeft
<1>18. StoredOK'
  <2>1. /\ ram \in Seq(Documents) /\ stored \in Seq(Documents) /\ numDocsInRAM = nextDocID
        /\ \A k \in 1..Len(stored) : stored[k] = ram[k]
    BY <1>1, <1>5 DEF StoredOK
  <2>2. Len(stored) <= m /\ m <= Len(ram)
    BY <1>4, <1>6, <1>7
  <2>3. stored' \in Seq(Documents) /\ Len(stored') = m /\ \A k \in 1..m : stored'[k] = ram[k]
    <3>1. PICK w : w = stored \o SubSeq(ram, Len(stored) + 1, m)
      OBVIOUS
    <3>2. PICK r : r = ram
      OBVIOUS
    <3>3. PICK s : s = stored
      OBVIOUS
    <3>4. /\ r \in Seq(Documents) /\ s \in Seq(Documents) /\ Len(s) <= m /\ m <= Len(r)
          /\ \A k \in 1..Len(s) : s[k] = r[k]
          /\ w = s \o SubSeq(r, Len(s) + 1, m)
      BY <3>1, <3>2, <3>3, <2>1, <2>2
    <3>5. w \in Seq(Documents) /\ Len(w) = m /\ \A k \in 1..m : w[k] = r[k]
      BY <3>4, Written
    <3> QED
      BY <3>1, <3>2, <3>5, <1>14
  <2>4. InTurn'
    <3>1. /\ InTurn /\ StatesOK /\ i \in DOMAIN threadStates /\ ~IsIdle(i)
          /\ threadStates[i].docID = nextWriteDocID
          /\ nextWriteDocID \in Nat /\ nextDocID \in Nat /\ nextWriteDocID < m /\ m <= nextDocID
          /\ swept = {j \in line : threadStates[j].docID < m}
          /\ \A j \in line : threadStates[j].docID # m
          /\ \A k \in (nextWriteDocID + 1)..(m - 1) : \E j \in line : threadStates[j].docID = k
      BY <1>4, <1>5, <1>6, <1>7, <1>13
    <3>2. /\ \A j \in line : j \in DOMAIN threadStates /\ ~IsIdle(j)
          /\ \A j \in DOMAIN threadStates : threadStates[j].docID \in Nat
          /\ nextWriteDocID' = m /\ nextDocID' = nextDocID /\ line' = line \ swept
      BY <1>1, <1>6, <1>12, <1>14
    <3>3. /\ DOMAIN threadStates' = DOMAIN threadStates
          /\ \A j \in DOMAIN threadStates : /\ threadStates'[j].docID = threadStates[j].docID
                                            /\ IsIdle(j)' <=> IsIdle(j) \/ j \in swept \cup {i}
      BY <1>15
    <3>4. Passes(i, m, swept)
      BY <3>1, <3>2, <3>3 DEF Passes
    <3> QED
      BY <3>4, InTurnTo
  <2>5. m \in 0..MaxDocs
    BY <1>4, <1>6, <1>7, BoundsAssumption
  <2>6. ram' = ram /\ nextDocID' = nextDocID /\ numDocsInRAM' = numDocsInRAM
    BY <1>1
  <2> QED
    BY <2>1, <2>3, <2>4, <2>5, <2>6, <1>4, <1>7, <1>14 DEF StoredOK
<1>19. /\ asleep' \subseteq Thread /\ (flushPending => flushPending')
       /\ {flushPending', bufferIsFull'} \subseteq BOOLEAN /\ faults' \in Nat
  BY <1>1, <1>9, <1>12 DEF IInv, RestOK
<1> QED
  BY <1>15, <1>16, <1>17, <1>18, <1>19, WorkKeeps

LEMMA FinishWriteFailsKeeps ==
  ASSUME IInv, NEW t \in Thread, FinishWriteFails(t)
  PROVE  IInv'
PROOF
<1>1. PICK c : c = [call[t] EXCEPT !.aborting = TRUE]
  OBVIOUS
<1>2. /\ monitor = NoOne /\ Working(t) /\ abortCount = 0 /\ CallsOK /\ call[t] \in CallType
      /\ UNCHANGED <<threadBindings, nextDocID, numDocsInRAM, pauseThreads, bufferIsFull,
                     closed, locks, ram, deleted, flushed, docs, failed, overtaken>>
      /\ MyTurn(t) /\ faults' = faults + 1 /\ abortCount' = abortCount + 1
      /\ GoWith(t, c, "failed")
  BY <1>1, CallTyped DEF FinishWriteFails, Runs, Working, IInv
<1>3. /\ c \in CallType /\ c.state = call[t].state /\ c.doc = call[t].doc /\ c.aborting
  BY <1>1, <1>2 DEF CallType
<1>4. Moved(t, c, "failed")
  <2>1. "failed" \in Where
    BY DEF Where
  <2> QED
    BY <2>1, <1>2, <1>3, Going
<1>5. PICK i : i = Mine(t)
  OBVIOUS
<1>6. /\ i \in DOMAIN threadStates /\ ~IsIdle(i) /\ i \notin line
      /\ threadStates[i].docID = nextWriteDocID /\ nextWriteDocID < nextDocID
      /\ nextWriteDocID = Len(stored) /\ nextDocID = Len(ram) /\ nextDocID <= MaxDocs
  BY <1>2, <1>5, Writer
<1>7. StatesOK /\ WorkOK /\ StoredOK
  BY DEF IInv
<1>8. /\ nextWriteDocID \in Nat /\ nextDocID \in Nat /\ InTurn
      /\ \A j \in line : threadStates[j].docID > nextWriteDocID /\ threadStates[j].docID < nextDocID
      /\ \A j \in DOMAIN threadStates : threadStates[j].docID \in Nat
      /\ line \subseteq DOMAIN threadStates
  BY <1>2, <1>7, LineIDs DEF StatesOK
<1>9. PICK bad, n, written, flush :
        /\ bad \in line \cup {i} /\ n = threadStates[bad].docID
        /\ written \subseteq line
        /\ bad = i => written = {}
        /\ stored' = stored \o SubSeq(ram, nextWriteDocID + 1, n)
        /\ nextWriteDocID' = IF bad = i THEN n + 1 ELSE n
        /\ line' = line \ written
        /\ Idles(written \cup {bad, i}, i, flush)
        /\ flushPending' = (flushPending \/ flush) /\ flush \in BOOLEAN
        /\ asleep' \in {asleep, {}}
  <2>1. PICK bad \in Swept(nextWriteDocID) \cup {Mine(t)} :
         LET n       == threadStates[bad].docID
             written == {j \in Swept(nextWriteDocID) : threadStates[j].docID < n}
             flush   == bad # Mine(t) /\ bufferIsFull /\ ~flushPending
         IN  /\ stored' = stored \o SubSeq(ram, nextWriteDocID + 1, n)
             /\ nextWriteDocID' = IF bad = Mine(t) THEN n + 1 ELSE n
             /\ line' = line \ written
             /\ threadStates' = [j \in DOMAIN threadStates |->
                  [threadStates[j] EXCEPT
                     !.isIdle = @ \/ j \in written \cup {bad, Mine(t)},
                     !.doFlushAfter = @ \/ (j = Mine(t) /\ flush)]]
             /\ flushPending' = (flushPending \/ flush)
             /\ IF bad = Mine(t) THEN UNCHANGED asleep ELSE NotifyAll
    BY DEF FinishWriteFails
  <2>2. PICK n : n = threadStates[bad].docID
    OBVIOUS
  <2>3. PICK written : written = {j \in Swept(nextWriteDocID) : threadStates[j].docID < n}
    OBVIOUS
  <2>4. PICK flush : flush = (bad # i /\ bufferIsFull /\ ~flushPending)
    OBVIOUS
  <2>5. /\ stored' = stored \o SubSeq(ram, nextWriteDocID + 1, n)
        /\ nextWriteDocID' = IF bad = i THEN n + 1 ELSE n
        /\ line' = line \ written
        /\ Idles(written \cup {bad, i}, i, flush)
        /\ flushPending' = (flushPending \/ flush)
        /\ asleep' \in {asleep, {}}
    BY <2>1, <2>2, <2>3, <2>4, <1>5 DEF Idles, NotifyAll
  <2>6. written \subseteq line /\ bad \in line \cup {i}
    BY <2>1, <2>3, <1>5 DEF Swept
  <2>7. bad = i => written = {}
    <3> SUFFICES ASSUME bad = i, NEW j \in written
                 PROVE  FALSE
      OBVIOUS
    <3>1. threadStates[j].docID < n /\ n = nextWriteDocID /\ j \in line
      BY <2>2, <2>3, <2>6, <1>6
    <3> QED
      BY <3>1, <1>8
  <2> QED
    BY <2>2, <2>4, <2>5, <2>6, <2>7
<1>10. n \in Nat /\ nextWriteDocID <= n /\ n < nextDocID
  <2>1. CASE bad = i
    BY <2>1, <1>6, <1>8, <1>9
  <2>2. CASE bad \in line
    <3>1. threadStates[bad].docID > nextWriteDocID /\ threadStates[bad].docID < nextDocID
          /\ threadStates[bad].docID \in Nat
      BY <2>2, <1>8
    <3> QED
      BY <3>1, <1>8, <1>9
  <2> QED
    BY <2>1, <2>2, <1>9
<1>11. /\ StatesOK' /\ DOMAIN threadStates' = DOMAIN threadStates
       /\ \A j \in DOMAIN threadStates :
            /\ threadStates'[j].docID = threadStates[j].docID
            /\ threadStates'[j].numThreads = threadStates[j].numThreads
            /\ IsIdle(j)' <=> IsIdle(j) \/ j \in written \cup {bad, i}
  <2>1. PICK X : X = written \cup {bad, i}
    OBVIOUS
  <2>2. line' \subseteq line /\ Idles(X, i, flush)
    BY <2>1, <1>9
  <2> QED
    BY <2>1, <2>2, <1>7, Idled
<1>12. ~call[t].aborting
  BY <1>2, NobodyAborts DEF IInv
<1>13. Works(t, c, "failed")
  <2>1. abortCount' = abortCount + (IF c.aborting /\ ~call[t].aborting THEN 1 ELSE 0)
    BY <1>2, <1>3, <1>12
  <2> QED
    BY <2>1, <1>2, <1>3, <1>4, <1>11, <1>12 DEF Works
<1>14. abortCount' # 0
  BY <1>2
<1>15. WorkOK'
  <2>1. PICK X : X = written \cup {bad, i}
    OBVIOUS
  <2>2. PICK left : left = line \ written
    OBVIOUS
  <2>3. /\ line' = left /\ X \subseteq line \cup {i} /\ left \subseteq line \cup {i}
        /\ line \cup {i} \subseteq X \cup left
        /\ abortCount' = 0 => abortCount = 0 /\ X \cap left = {}
        /\ \A j \in DOMAIN threadStates : IsIdle(j)' <=> IsIdle(j) \/ j \in X
    BY <2>1, <2>2, <1>9, <1>11, <1>14
  <2> QED
    BY <2>3, <1>2, <1>5, <1>7, <1>13, WorkLeft
<1>16. StoredOK'
  <2>1. /\ ram \in Seq(Documents) /\ stored \in Seq(Documents) /\ numDocsInRAM = nextDocID
        /\ \A k \in 1..Len(stored) : stored[k] = ram[k]
    BY <1>2, <1>7 DEF StoredOK
  <2>2. Len(stored) <= n /\ n <= Len(ram)
    BY <1>6, <1>8, <1>10
  <2>3. stored' \in Seq(Documents)
    <3>1. PICK w : w = stored \o SubSeq(ram, Len(stored) + 1, n)
      OBVIOUS
    <3>2. PICK r : r = ram
      OBVIOUS
    <3>3. PICK s : s = stored
      OBVIOUS
    <3>4. /\ r \in Seq(Documents) /\ s \in Seq(Documents) /\ Len(s) <= n /\ n <= Len(r)
          /\ \A k \in 1..Len(s) : s[k] = r[k]
          /\ w = s \o SubSeq(r, Len(s) + 1, n)
      BY <3>1, <3>2, <3>3, <2>1, <2>2
    <3>5. w \in Seq(Documents)
      BY <3>4, <1>10, Written
    <3>6. stored' = w
      BY <3>1, <1>6, <1>9
    <3> QED
      BY <3>5, <3>6
  <2>4. nextWriteDocID' \in 0..MaxDocs
    BY <1>6, <1>8, <1>9, <1>10, BoundsAssumption
  <2>5. ram' = ram /\ nextDocID' = nextDocID /\ numDocsInRAM' = numDocsInRAM
    BY <1>2
  <2> QED
    BY <2>1, <2>3, <2>4, <2>5, <1>6, <1>14 DEF StoredOK
<1>17. /\ asleep' \subseteq Thread /\ (flushPending => flushPending')
       /\ {flushPending', bufferIsFull'} \subseteq BOOLEAN /\ faults' \in Nat
  BY <1>2, <1>9 DEF IInv, RestOK, LocksOK
<1> QED
  BY <1>11, <1>13, <1>15, <1>16, <1>17, WorkKeeps

-----------------------------------------------------------------------------
(* A document that failed.                                                 *)

\* What Failed(t) does.
Fails(t, where, id) ==
    /\ monitor = NoOne /\ call[t].at = "failed" /\ Moved(t, call[t], where)
    /\ \/ where = "abort" /\ call[t].aborting
       \/ where = "cleanup" /\ ~call[t].aborting
    /\ Mine(t) \in DOMAIN threadStates /\ id = threadStates[Mine(t)].docID
    /\ \E n \in Nat : /\ n <= MaxThreadState /\ DOMAIN threadStates = 1..n
                      /\ threadStates' \in [1..n -> StateType]
    /\ \A j \in DOMAIN threadStates : /\ threadStates'[j].isIdle = threadStates[j].isIdle
                                      /\ threadStates'[j].docID = threadStates[j].docID
                                      /\ threadStates'[j].numThreads = threadStates[j].numThreads
    /\ deleteDocIDs' = deleteDocIDs \cup {id}
    /\ failed' = failed \cup {call[t].doc}
    /\ overtaken' = IF StillMine(t) /\ ~TakenAsLive THEN overtaken ELSE overtaken \cup {call[t].doc}
    /\ asleep' \in {asleep, {}} /\ flushPending' \in BOOLEAN
    /\ UNCHANGED <<threadBindings, ids, pauseThreads, bufferIsFull, abortCount, closed, locks, buffered,
                   deleteNum, numDeleteTerms, flushed, docs, faults>>

LEMMA Failing ==
  ASSUME IInv, NEW t \in Thread, Failed(t)
  PROVE  \E where, id : Fails(t, where, id)
PROOF
<1>1. PICK where : where = IF call[t].aborting THEN "abort" ELSE "cleanup"
  OBVIOUS
<1>2. PICK id : id = threadStates[Mine(t)].docID
  OBVIOUS
<1>3. PICK i : i = Mine(t)
  OBVIOUS
<1>4. call[t].at = "failed" /\ monitor = NoOne /\ CallsOK /\ StatesOK /\ flushPending \in BOOLEAN
  BY DEF Failed, At, Runs, IInv, RestOK
<1>5. Moved(t, call[t], where)
  <2>1. where \in Where /\ Goto(t, where)
    BY <1>1 DEF Failed, Where
  <2> QED
    BY <2>1, <1>4, Going1
<1>6. i \in DOMAIN threadStates
  BY <1>3, <1>4 DEF CallsOK, Mine
<1>7. PICK n \in Nat : /\ n = Len(threadStates) /\ n <= MaxThreadState
                       /\ DOMAIN threadStates = 1..n /\ threadStates \in [1..n -> StateType]
  BY <1>4, States
<1>8. \/ threadStates' = [threadStates EXCEPT ![i].doFlushAfter = FALSE] /\ flushPending' = FALSE /\ asleep' = {}
      \/ UNCHANGED <<threadStates, flushPending, asleep>>
  BY <1>3 DEF Failed, NotifyAll
<1>9. /\ threadStates' \in [1..n -> StateType]
      /\ \A j \in DOMAIN threadStates : /\ threadStates'[j].isIdle = threadStates[j].isIdle
                                        /\ threadStates'[j].docID = threadStates[j].docID
                                        /\ threadStates'[j].numThreads = threadStates[j].numThreads
  <2>1. CASE threadStates' = [threadStates EXCEPT ![i].doFlushAfter = FALSE]
    <3>1. PICK s : s = [threadStates[i] EXCEPT !.doFlushAfter = FALSE]
      OBVIOUS
    <3>2. threadStates[i] \in StateType
      BY <1>6, <1>7
    <3>3. /\ s \in StateType /\ s.isIdle = threadStates[i].isIdle /\ s.docID = threadStates[i].docID
          /\ s.numThreads = threadStates[i].numThreads
      BY <3>1, <3>2 DEF StateType
    <3>4. threadStates' = [threadStates EXCEPT ![i] = s]
      BY <2>1, <3>1
    <3> QED
      BY <3>3, <3>4, <1>6, <1>7
  <2>2. CASE threadStates' = threadStates
    BY <2>2, <1>7
  <2> QED
    BY <2>1, <2>2, <1>8
<1>10. /\ deleteDocIDs' = deleteDocIDs \cup {id}
       /\ failed' = failed \cup {call[t].doc}
       /\ overtaken' = IF StillMine(t) /\ ~TakenAsLive THEN overtaken ELSE overtaken \cup {call[t].doc}
  BY <1>2 DEF Failed, MarkDeleted
<1>11. UNCHANGED <<threadBindings, ids, pauseThreads, bufferIsFull, abortCount, closed, locks, buffered,
                   deleteNum, numDeleteTerms, flushed, docs, faults>>
  BY DEF Failed
<1>12. asleep' \in {asleep, {}} /\ flushPending' \in BOOLEAN
  BY <1>4, <1>8
<1>13. \/ where = "abort" /\ call[t].aborting
       \/ where = "cleanup" /\ ~call[t].aborting
  BY <1>1
<1>14. Fails(t, where, id)
  BY <1>2, <1>3, <1>4, <1>5, <1>6, <1>7, <1>9, <1>10, <1>11, <1>12, <1>13 DEF Fails
<1> QED
  BY <1>14

LEMMA FailMoves ==
  ASSUME CallsOK, NEW t \in Thread, NEW where, NEW id, Fails(t, where, id)
  PROVE  /\ call'[t].at = where /\ where \in {"abort", "cleanup"} /\ call[t].at = "failed"
         /\ call'[t].doc \in {0, call[t].doc} /\ call[t].doc # 0
         /\ call'[t].aborting <=> call[t].aborting
         /\ where = "abort" => call[t].aborting
         /\ \A u \in Thread \ {t} : call'[u] = call[u]
         /\ \A u \in Thread : IF u = t THEN ~Working(u) /\ ~Working(u)'
                              ELSE (Working(u)' <=> Working(u)) /\ Mine(u)' = Mine(u)
         /\ DOMAIN threadStates' = DOMAIN threadStates
         /\ \A i \in DOMAIN threadStates : IsIdle(i)' = IsIdle(i)
PROOF
<1>1. /\ call'[t].at = where /\ where \in {"abort", "cleanup"} /\ call[t].at = "failed"
      /\ call'[t].doc \in {0, call[t].doc}
      /\ call'[t].aborting <=> call[t].aborting
      /\ where = "abort" => call[t].aborting
      /\ \A u \in Thread \ {t} : call'[u] = call[u]
  BY DEF Fails, Moved
<1>2. call[t].doc # 0
  BY <1>1 DEF CallsOK
<1>3. DOMAIN threadStates' = DOMAIN threadStates /\ \A i \in DOMAIN threadStates : IsIdle(i)' = IsIdle(i)
  BY DEF Fails, IsIdle
<1>4. \A u \in Thread : IF u = t THEN ~Working(u) /\ ~Working(u)'
                        ELSE (Working(u)' <=> Working(u)) /\ Mine(u)' = Mine(u)
  BY <1>1 DEF Working, Mine
<1> QED
  BY <1>1, <1>2, <1>3, <1>4

LEMMA FailCalls ==
  ASSUME IInv, NEW t \in Thread, NEW where, NEW id, Fails(t, where, id)
  PROVE  CallsOK' /\ StatesOK' /\ CountsOK' /\ LocksOK' /\ ClosedOK' /\ RestOK'
PROOF
<1>1. CallsOK /\ StatesOK /\ CountsOK /\ LocksOK /\ ClosedOK /\ RestOK
  BY DEF IInv
<1>2. /\ call'[t].at = where /\ where \in {"abort", "cleanup"} /\ call[t].at = "failed"
      /\ call'[t].aborting <=> call[t].aborting
      /\ where = "abort" => call[t].aborting
      /\ \A u \in Thread \ {t} : call'[u] = call[u]
      /\ DOMAIN threadStates' = DOMAIN threadStates
      /\ \A i \in DOMAIN threadStates : IsIdle(i)' = IsIdle(i)
  BY <1>1, FailMoves
<1>3. /\ UNCHANGED <<threadBindings, nextDocID, numDocsInRAM, nextWriteDocID, line, pauseThreads, bufferIsFull,
                     abortCount, closed, monitor, writerLock, ram, fresh, docs, faults>>
      /\ flushDeletes' = flushDeletes /\ flushPending' \in BOOLEAN /\ asleep' \in {asleep, {}} /\ monitor = NoOne
  BY DEF Fails, ids, locks, buffered, flushed
<1>4. CallsOK'
  <2>1. /\ DOMAIN threadStates \subseteq DOMAIN threadStates'
        /\ where \in {"unwind", "failed", "abort", "stuck", "out", "flush", "cleanup"} \/ ~call[t].aborting
        /\ where \in {"wait", "process", "unwind", "finished", "failed"} =>
             call[t].state \in DOMAIN threadStates' /\ call[t].doc # 0
        /\ threadBindings' \in [Thread -> {0} \cup State]
        /\ \A u \in Thread : threadBindings'[u] \in {0} \cup DOMAIN threadStates'
        /\ Moved(t, call[t], where)
    BY <1>1, <1>2, <1>3 DEF CallsOK, Fails
  <2> QED
    BY <2>1, <1>1, CallsKept
<1>5. StatesOK'
  <2>1. PICK n \in Nat : /\ n <= MaxThreadState /\ DOMAIN threadStates = 1..n
                         /\ threadStates' \in [1..n -> StateType]
    BY DEF Fails
  <2>2. line' \subseteq 1..n
    BY <1>1, <1>3, <2>1 DEF StatesOK
  <2> QED
    BY <2>1, <2>2, Restated
<1>6. CountsOK'
  <2>1. Pausers' = Pausers /\ Waiters' = Waiters /\ Aborters' = Aborters
    BY <1>2 DEF Pausers, Waiters, Aborters, Flushing, At
  <2>2. \A i : Binders(i)' = Binders(i)
    BY <1>3 DEF Binders
  <2>3. \A i \in DOMAIN threadStates' : threadStates'[i].numThreads = Cardinality(Binders(i)')
    BY <1>1, <1>3, <2>2 DEF CountsOK, Fails
  <2> QED
    BY <1>1, <1>3, <2>1, <2>3 DEF CountsOK
<1>7. LocksOK'
  <2>1. AllThreadsIdle' <=> AllThreadsIdle
    BY <1>2 DEF AllThreadsIdle
  <2>2. ASSUME NEW u \in Thread
        PROVE  /\ At(u, "stuck")' <=> monitor' = u
               /\ Flushing(u)' \/ (At(u, "abort")' /\ ~call'[u].aborting) => writerLock' = u
               /\ call'[u].at \in {"paused", "write", "apply", "clear", "resume"} => abortCount' = 0 /\ AllThreadsIdle'
               /\ call'[u].at \in {"apply", "clear", "resume"} => ram' = <<>>
    <3>1. CASE u = t
      BY <3>1, <1>2, <1>3, NoOneAssumption DEF At, Flushing
    <3>2. CASE u # t
      <4>1. call'[u] = call[u]
        BY <3>2, <1>2
      <4> QED
        BY <4>1, <2>1, <1>1, <1>3 DEF At, Flushing, LocksOK
    <3> QED
      BY <3>1, <3>2
  <2>3. fresh' # <<>> => \E u \in Thread : At(u, "apply")' \/ At(u, "clear")'
    BY <1>1, <1>2, <1>3 DEF At, LocksOK
  <2>4. asleep' \subseteq Thread /\ monitor' = NoOne /\ writerLock' \in Thread \cup {NoOne}
    BY <1>1, <1>3 DEF LocksOK
  <2> QED
    BY <2>2, <2>3, <2>4 DEF LocksOK
<1>8. ClosedOK' /\ RestOK'
  BY <1>1, <1>2, <1>3 DEF ClosedOK, RestOK
<1> QED
  BY <1>4, <1>5, <1>6, <1>7, <1>8

LEMMA FailWork ==
  ASSUME IInv, NEW t \in Thread, NEW where, NEW id, Fails(t, where, id)
  PROVE  WorkOK' /\ StoredOK'
PROOF
<1>1. /\ \A u \in Thread : IF u = t THEN ~Working(u) /\ ~Working(u)'
                           ELSE (Working(u)' <=> Working(u)) /\ Mine(u)' = Mine(u)
      /\ DOMAIN threadStates' = DOMAIN threadStates
      /\ \A i \in DOMAIN threadStates : IsIdle(i)' = IsIdle(i)
  BY FailMoves DEF IInv
<1>2. /\ UNCHANGED <<nextDocID, numDocsInRAM, nextWriteDocID, line, abortCount, monitor, ram, stored>>
      /\ \A i \in DOMAIN threadStates : threadStates'[i].docID = threadStates[i].docID
      /\ line \subseteq DOMAIN threadStates
  BY DEF Fails, ids, locks, buffered, IInv, StatesOK
<1>3. \A u \in Thread : Working(u) => Mine(u) \in DOMAIN threadStates
  BY DEF IInv, CallsOK, Working, Mine
<1>4. WorkOK'
  <2>1. (\A u, v \in Thread : Working(u) /\ Working(v) /\ Mine(u) = Mine(v) => u = v)'
    BY <1>1 DEF IInv, WorkOK
  <2>2. (\A u \in Thread : Working(u) => ~IsIdle(Mine(u)) /\ Mine(u) \notin line)'
    BY <1>1, <1>2, <1>3 DEF IInv, WorkOK
  <2>3. (\A i \in DOMAIN threadStates : ~IsIdle(i) => i \in line \/ \E u \in Thread : Working(u) /\ Mine(u) = i)'
    BY <1>1, <1>2 DEF IInv, WorkOK
  <2>4. (abortCount = 0 => \A i \in line : ~IsIdle(i))'
    BY <1>1, <1>2 DEF IInv, WorkOK
  <2> QED
    BY <2>1, <2>2, <2>3, <2>4 DEF WorkOK
<1>5. InTurn => InTurn'
  BY <1>1, <1>2 DEF InTurn
<1>6. StoredOK'
  BY <1>2, <1>5 DEF IInv, StoredOK
<1> QED
  BY <1>4, <1>6

LEMMA FailDocs ==
  ASSUME IInv, NEW t \in Thread, NEW where, NEW id, Fails(t, where, id)
  PROVE  DocsOK'
PROOF
<1>1. /\ call'[t].at = where /\ where \in {"abort", "cleanup"} /\ call[t].at = "failed"
      /\ call'[t].doc \in {0, call[t].doc} /\ call[t].doc # 0
      /\ \A u \in Thread \ {t} : call'[u] = call[u]
  BY FailMoves DEF IInv
<1>2. /\ UNCHANGED <<ram, fresh, index, applied, docs>>
      /\ failed' = failed \cup {call[t].doc}
      /\ overtaken' \in {overtaken, overtaken \cup {call[t].doc}}
  BY DEF Fails, buffered, flushed
<1>3. call[t].doc \in Documents /\ docs \in Nat /\ DocsOK
  BY <1>1, CallTyped DEF IInv, CountsOK
<1>4. \A u \in Thread : call'[u].doc <= docs
  <2>1. 0 <= docs /\ call[t].doc <= docs
    BY <1>3 DEF DocsOK
  <2> QED
    BY <2>1, <1>1, <1>3 DEF DocsOK
<1>5. \A u, v \in Thread : u # v /\ call'[u].doc = call'[v].doc => call'[u].doc = 0
  BY <1>1, <1>3 DEF DocsOK
<1>6. ASSUME NEW u \in Thread, call'[u].at \in {"wait", "process", "unwind", "failed"}
      PROVE  u # t /\ call'[u] = call[u] /\ call[u].doc # call[t].doc
  <2>1. u # t /\ call'[u] = call[u]
    BY <1>1, <1>6
  <2>2. call[u].doc # 0
    BY <2>1, <1>6 DEF IInv, CallsOK
  <2> QED
    BY <2>1, <2>2, <1>3 DEF DocsOK
<1>7. \A u \in Thread : call'[u].at = "wait" =>
        call'[u].doc \notin Range(ram) \cup Range(fresh) \cup index \cup failed'
  BY <1>2, <1>3, <1>6 DEF DocsOK, At
<1>8. \A u \in Thread : call'[u].at \in {"process", "unwind", "failed"} => call'[u].doc \notin failed'
  BY <1>2, <1>3, <1>6 DEF DocsOK
<1>9. failed' \subseteq Documents /\ overtaken' \subseteq failed' /\ \A d \in failed' : d <= docs
  BY <1>2, <1>3 DEF DocsOK
<1>10. \A u \in Thread : call'[u].at = "clear" => applied \subseteq index \cup Range(fresh)
  BY <1>1, <1>3 DEF DocsOK, At
<1> QED
  BY <1>2, <1>3, <1>4, <1>5, <1>7, <1>8, <1>9, <1>10 DEF DocsOK, At

\* A document that is still in RAM where its thread state says is marked, and
\* no other.
LEMMA Marked ==
  ASSUME IInv, NEW t \in Thread, NEW where, NEW id, Fails(t, where, id)
  PROVE  /\ id \in DocID
         /\ IF overtaken' = {}
            THEN /\ overtaken = {} /\ fresh = <<>> /\ ram # <<>> /\ id < Len(ram) /\ id + 1 \in DOMAIN ram
                 /\ ram[id + 1] = call[t].doc /\ ~TakenAsLive
            ELSE TRUE
         /\ call[t].doc \notin overtaken' =>
              /\ fresh = <<>> /\ ram # <<>> /\ call[t].doc \notin index /\ ~TakenAsLive
              /\ \A k \in DOMAIN ram : ram[k] = call[t].doc => k - 1 = id
PROOF
<1>1. call[t].doc \in {0} \cup Documents /\ ram \in Seq(Documents) /\ overtaken \subseteq failed
  BY CallTyped DEF IInv, StoredOK, DocsOK
<1>2. id \in DocID
  <2>1. PICK n \in Nat : /\ n = Len(threadStates) /\ n <= MaxThreadState
                         /\ DOMAIN threadStates = 1..n /\ threadStates \in [1..n -> StateType]
    BY States DEF IInv
  <2>2. threadStates[Mine(t)] \in StateType
    BY <2>1 DEF Fails
  <2> QED
    BY <2>2 DEF Fails, StateType
<1>3. id \in Nat
  BY <1>2, BoundsAssumption DEF DocID
<1>4. StillMine(t) <=> id + 1 \in DOMAIN ram /\ ram[id + 1] = call[t].doc
  BY DEF StillMine, Fails
<1>5. overtaken' = IF StillMine(t) /\ ~TakenAsLive THEN overtaken ELSE overtaken \cup {call[t].doc}
  BY DEF Fails
<1>6. ASSUME StillMine(t)
      PROVE  /\ fresh = <<>> /\ ram # <<>> /\ id < Len(ram) /\ id + 1 \in DOMAIN ram
             /\ ram[id + 1] = call[t].doc /\ call[t].doc \notin index
             /\ \A k \in DOMAIN ram : ram[k] = call[t].doc => k - 1 = id
  <2>1. id + 1 \in DOMAIN ram /\ ram[id + 1] = call[t].doc
    BY <1>4, <1>6
  <2>2. id < Len(ram) /\ ram # <<>>
    BY <2>1, <1>1, <1>3
  <2>3. fresh = <<>>
    BY <2>2 DEF IInv, LocksOK, At
  <2>4. call[t].doc \in Range(ram)
    BY <2>1 DEF Range
  <2>5. call[t].doc \notin index
    BY <2>4 DEF IInv, DocsOK
  <2>6. \A k \in DOMAIN ram : ram[k] = call[t].doc => k = id + 1
    BY <2>1 DEF IInv, DocsOK
  <2>7. \A k \in DOMAIN ram : ram[k] = call[t].doc => k - 1 = id
    BY <2>6, <1>1, <1>3
  <2> QED
    BY <2>1, <2>2, <2>3, <2>5, <2>7
<1>7. CASE StillMine(t) /\ ~TakenAsLive
  BY <1>2, <1>5, <1>6, <1>7
<1>8. CASE ~(StillMine(t) /\ ~TakenAsLive)
  BY <1>2, <1>5, <1>8
<1> QED
  BY <1>7, <1>8

LEMMA FailDeletes ==
  ASSUME IInv, NEW t \in Thread, NEW where, NEW id, Fails(t, where, id)
  PROVE  DeletesOK'
PROOF
<1>1. /\ call'[t].at = where /\ where \in {"abort", "cleanup"} /\ call[t].at = "failed"
      /\ \A u \in Thread \ {t} : call'[u] = call[u]
  BY FailMoves DEF IInv
<1>2. /\ UNCHANGED <<ram, fresh, index, applied, flushDeletes, deleteNum, numDeleteTerms>>
      /\ failed' = failed \cup {call[t].doc} /\ deleteDocIDs' = deleteDocIDs \cup {id}
      /\ overtaken' \in {overtaken, overtaken \cup {call[t].doc}}
  BY DEF Fails, buffered, flushed
<1>3. /\ id \in DocID
      /\ overtaken' = {} => overtaken = {} /\ fresh = <<>> /\ ram # <<>> /\ id < Len(ram) /\ ~TakenAsLive
      /\ call[t].doc \notin overtaken' => 
           /\ fresh = <<>> /\ ram # <<>> /\ call[t].doc \notin index /\ ~TakenAsLive
           /\ \A k \in DOMAIN ram : ram[k] = call[t].doc => k - 1 = id
  BY Marked
<1>4. DeletesOK /\ Segment' = Segment
  BY <1>2 DEF IInv, Segment
<1>5. deleteNum' \in {None} \cup Nat /\ deleteNum' <= Len(Segment)' /\ numDeleteTerms' \in Nat
  BY <1>2, <1>4 DEF DeletesOK
<1>6. deleteDocIDs' \subseteq DocID
  BY <1>2, <1>3, <1>4 DEF DeletesOK
<1>7. (overtaken = {} => \A n \in deleteDocIDs : n < Len(Segment))'
  <2> SUFFICES ASSUME overtaken' = {}
               PROVE  \A n \in deleteDocIDs' : n < Len(Segment)
    BY <1>4
  <2>1. overtaken = {} /\ Segment = ram /\ id < Len(ram)
    BY <1>3 DEF Segment
  <2> QED
    BY <2>1, <1>2, <1>4 DEF DeletesOK
<1>12. \A u \in Thread : \A p \in {"write", "apply", "clear"} : call'[u].at = p <=> call[u].at = p
  BY <1>1
<1>13. TakenAsLive' <=> TakenAsLive
  BY <1>2, <1>12 DEF TakenAsLive, At
<1>8. (\A k \in DOMAIN ram :
         ram[k] \in failed => (~TakenAsLive /\ k - 1 \in deleteDocIDs) \/ ram[k] \in overtaken)'
  BY <1>2, <1>3, <1>4, <1>13 DEF DeletesOK
<1>9. (\A k \in DOMAIN fresh :
         fresh[k] \in failed => (flushDeletes /\ k - 1 \in deleteDocIDs) \/ fresh[k] \in overtaken)'
  <2> SUFFICES ASSUME NEW k \in DOMAIN fresh, fresh[k] \in failed', fresh[k] \notin overtaken'
               PROVE  flushDeletes /\ k - 1 \in deleteDocIDs'
    BY <1>2
  <2>1. CASE fresh[k] = call[t].doc
    <3>1. fresh = <<>>
      BY <2>1, <1>3
    <3> QED
      BY <3>1
  <2>2. CASE fresh[k] # call[t].doc
    BY <2>2, <1>2, <1>4 DEF DeletesOK
  <2> QED
    BY <2>1, <2>2
<1>10. AllOrNone'
  BY <1>2, <1>3, <1>4 DEF DeletesOK, AllOrNone
<1>11. (\A u \in Thread : call[u].at \in {"write", "apply"} /\ ~flushDeletes =>
          deleteNum = None /\ (overtaken = {} => deleteDocIDs = {}))'
  <2> SUFFICES ASSUME NEW u \in Thread, call[u].at \in {"write", "apply"}, ~flushDeletes
               PROVE  deleteNum = None /\ (overtaken' = {} => deleteDocIDs' = {})
    BY <1>2, <1>12
  <2>1. call[u].at = "write" => TakenAsLive
    BY DEF TakenAsLive, At
  <2>2. call[u].at = "apply" => ram = <<>>
    BY DEF IInv, LocksOK
  <2> QED
    BY <2>1, <2>2, <1>3, <1>4 DEF DeletesOK
<1>14. (\A u \in Thread : At(u, "clear") =>
         /\ applied \cap failed \subseteq overtaken
         /\ overtaken = {} => applied = LiveBefore \cup LiveOf(fresh))'
  <2> SUFFICES ASSUME NEW u \in Thread, call[u].at = "clear"
               PROVE  /\ applied \cap failed' \subseteq overtaken'
                      /\ call[t].doc \in overtaken'
    BY <1>2, <1>12 DEF At
  <2>1. ram = <<>>
    BY DEF IInv, LocksOK
  <2>2. applied \cap failed \subseteq overtaken
    BY <1>4 DEF DeletesOK, At
  <2> QED
    BY <2>1, <2>2, <1>2, <1>3
<1> QED
  BY <1>5, <1>6, <1>7, <1>8, <1>9, <1>10, <1>11, <1>14 DEF DeletesOK

LEMMA FailKept ==
  ASSUME IInv, NEW t \in Thread, NEW where, NEW id, Fails(t, where, id)
  PROVE  FlushOK'
PROOF
<1> SUFFICES ASSUME overtaken' = {}
             PROVE  (Cardinality(Kept) < MaxBufferedDocs)' /\ (Cardinality(Kept) <= MaxBufferedDocs)'
  BY DEF FlushOK
<1>1. /\ overtaken = {} /\ id + 1 \in DOMAIN ram /\ ram[id + 1] = call[t].doc
      /\ \A j, k \in DOMAIN ram : ram[j] = ram[k] => j = k
      /\ ram \in Seq(Documents)
  BY Marked DEF IInv, DocsOK, StoredOK
<1>2. ram' = ram /\ failed' = failed \cup {call[t].doc} /\ call[t].doc \notin failed
  BY DEF Fails, buffered, IInv, DocsOK
<1>3. PICK K : K = Kept
  OBVIOUS
<1>4. PICK k : k = id + 1
  OBVIOUS
<1>5. k \in K /\ Kept' = K \ {k}
  BY <1>1, <1>2, <1>3, <1>4 DEF Kept
<1>6. IsFiniteSet(K)
  <2>1. PICK n \in Nat : DOMAIN ram = 1..n
    BY <1>1
  <2>2. IsFiniteSet(1..n)
    BY FS_Interval
  <2>3. K \subseteq 1..n
    BY <2>1, <1>3 DEF Kept
  <2> QED
    BY <2>2, <2>3, FS_Subset
<1>7. Cardinality(K) \in Nat /\ Cardinality(Kept') = Cardinality(K) - 1
  BY <1>5, <1>6, FS_CardinalityType, FS_RemoveElement
<1>8. Cardinality(K) <= MaxBufferedDocs
  BY <1>1, <1>3 DEF IInv, FlushOK
<1> QED
  BY <1>7, <1>8, SizesAssumption

LEMMA FailedKeeps ==
  ASSUME IInv, NEW t \in Thread, Failed(t)
  PROVE  IInv'
PROOF
<1>1. PICK where, id : Fails(t, where, id)
  BY Failing
<1> QED
  BY <1>1, FailCalls, FailWork, FailDocs, FailDeletes, FailKept DEF IInv

-----------------------------------------------------------------------------
(* A document gets a thread state and a docID.                             *)

\* Thread states when one more may be used: no document is on the new one.
Widens(s) ==
    /\ \E n \in Nat : /\ Len(threadStates) <= n /\ n <= MaxThreadState /\ s \in [1..n -> StateType]
    /\ \A j \in DOMAIN s : IF j \in DOMAIN threadStates
                           THEN /\ s[j].isIdle = threadStates[j].isIdle
                                /\ s[j].docID = threadStates[j].docID
                           ELSE s[j].isIdle

\* Every thread state knows how many threads are bound to it.
CountsBinders(s, b) == \A j \in DOMAIN s : s[j].numThreads = Cardinality({u \in Thread : b[u] = j})

LEMMA MinThreadsExists ==
  ASSUME StatesOK, threadStates # <<>>
  PROVE  MinThreads \in DOMAIN threadStates
PROOF
<1>1. PICK n \in Nat : /\ n = Len(threadStates) /\ n <= MaxThreadState
                       /\ DOMAIN threadStates = 1..n /\ threadStates \in [1..n -> StateType]
  BY States
<1>2. PICK num : num = [j \in 1..n |-> threadStates[j].numThreads]
  OBVIOUS
<1>3. \A j \in 1..n : threadStates[j].numThreads = num[j] /\ num[j] \in Nat
  <2> SUFFICES ASSUME NEW j \in 1..n
               PROVE  threadStates[j].numThreads \in Nat
    BY <1>2
  <2>1. threadStates[j] \in StateType
    BY <1>1
  <2> QED
    BY <2>1 DEF StateType
<1>4. n # 0
  BY <1>1 DEF StatesOK
<1>5. PICK least \in {num[j] : j \in 1..n} : \A k \in {num[j] : j \in 1..n} : least <= k
  <2>1. {num[j] : j \in 1..n} \in SUBSET Nat /\ {num[j] : j \in 1..n} # {}
    BY <1>3, <1>4
  <2> QED
    BY <2>1, Least
<1>6. PICK i \in {j \in 1..n : num[j] = least} : \A k \in {j \in 1..n : num[j] = least} : i <= k
  <2>1. {j \in 1..n : num[j] = least} \in SUBSET Nat /\ {j \in 1..n : num[j] = least} # {}
    BY <1>5
  <2> QED
    BY <2>1, Least
<1>7. i \in 1..n /\ num[i] = least
  BY <1>6
<1>8. ASSUME NEW j \in 1..n
      PROVE  num[i] < num[j] \/ (num[i] = num[j] /\ i <= j)
  <2>1. least <= num[j]
    BY <1>5
  <2>2. CASE num[j] = least
    BY <2>2, <1>6, <1>7
  <2>3. CASE num[j] # least
    BY <2>1, <2>3, <1>3, <1>7
  <2> QED
    BY <2>2, <2>3
<1>9. \E k \in DOMAIN threadStates : \A j \in DOMAIN threadStates :
        \/ threadStates[k].numThreads < threadStates[j].numThreads
        \/ threadStates[k].numThreads = threadStates[j].numThreads /\ k <= j
  <2>1. \A j \in 1..n : \/ threadStates[i].numThreads < threadStates[j].numThreads
                        \/ threadStates[i].numThreads = threadStates[j].numThreads /\ i <= j
    BY <1>3, <1>7, <1>8
  <2> QED
    BY <2>1, <1>1, <1>7
<1> QED
  BY <1>9 DEF MinThreads

LEMMA Binding ==
  ASSUME CallsOK, StatesOK, CountsOK, monitor = NoOne, docs < MaxDocs, NEW t \in Thread
  PROVE  \E s, i, b : /\ s = Bound(t)[1] /\ i = Bound(t)[2] /\ b = [threadBindings EXCEPT ![t] = i]
                      /\ Widens(s) /\ i \in DOMAIN s /\ CountsBinders(s, b)
PROOF
<1>1. PICK n \in Nat : /\ n = Len(threadStates) /\ n <= MaxThreadState
                       /\ DOMAIN threadStates = 1..n /\ threadStates \in [1..n -> StateType]
  BY States
<1>2. /\ threadBindings \in [Thread -> {0} \cup State]
      /\ \A u \in Thread : threadBindings[u] \in {0} \cup 1..n
  BY <1>1 DEF CallsOK
<1>3. \A j \in 1..n : threadStates[j].numThreads = Cardinality({u \in Thread : threadBindings[u] = j})
  BY <1>1 DEF CountsOK, Binders
<1>4. CASE threadBindings[t] # 0
  <2>1. PICK i : i = threadBindings[t]
    OBVIOUS
  <2>2. Bound(t) = <<threadStates, i>>
    BY <2>1, <1>4 DEF Bound
  <2>3. threadBindings = [threadBindings EXCEPT ![t] = i]
    BY <2>1, <1>2
  <2>4. Widens(threadStates)
    <3>1. Len(threadStates) <= n
      BY <1>1
    <3> QED
      BY <3>1, <1>1 DEF Widens
  <2>5. CountsBinders(threadStates, threadBindings) /\ i \in DOMAIN threadStates
    BY <2>1, <1>1, <1>2, <1>3, <1>4 DEF CountsBinders
  <2> QED
    BY <2>2, <2>3, <2>4, <2>5
<1>5. CASE /\ threadBindings[t] = 0 /\ threadStates # <<>>
           /\ threadStates[MinThreads].numThreads = 0 \/ Len(threadStates) = MaxThreadState
  <2>1. PICK i : i = MinThreads
    OBVIOUS
  <2>2. i \in 1..n
    BY <2>1, <1>1, <1>5, MinThreadsExists
  <2>3. PICK e : e = [threadStates[i] EXCEPT !.numThreads = threadStates[i].numThreads + 1]
    OBVIOUS
  <2>4. PICK s : s = [threadStates EXCEPT ![i] = e]
    OBVIOUS
  <2>5. PICK b : b = [threadBindings EXCEPT ![t] = i]
    OBVIOUS
  <2>6. Bound(t) = <<s, i>>
    <3>1. Bound(t) = <<[threadStates EXCEPT ![MinThreads].numThreads = @ + 1], MinThreads>>
      BY <1>5 DEF Bound
    <3>2. [threadStates EXCEPT ![i].numThreads = @ + 1] = s
      BY <2>3, <2>4
    <3> QED
      BY <3>1, <3>2, <2>1
  <2>7. threadStates[i] \in StateType
    BY <2>2, <1>1
  <2>8. {u \in Thread : b[u] = i} = {u \in Thread : threadBindings[u] = i} \cup {t}
    BY <2>5, <1>2
  <2>9. Cardinality({u \in Thread : b[u] = i}) = threadStates[i].numThreads + 1
    <3>1. PICK A : A = {u \in Thread : threadBindings[u] = i}
      OBVIOUS
    <3>2. A \in SUBSET Thread /\ t \notin A
      BY <3>1, <2>2, <1>5
    <3>3. IsFiniteSet(A)
      BY <3>2, Counted
    <3>4. Cardinality(A \cup {t}) = Cardinality(A) + 1
      BY <3>2, <3>3, FS_AddElement
    <3> QED
      BY <3>1, <3>4, <2>2, <2>8, <1>3
  <2>10. threadStates[i].numThreads + 1 \in 0..Cardinality(Thread)
    <3>1. PICK A : A = {u \in Thread : b[u] = i}
      OBVIOUS
    <3>2. A \in SUBSET Thread
      BY <3>1
    <3>3. /\ Cardinality(A) \in Nat
          /\ Cardinality(A) <= Cardinality(Thread) /\ Cardinality(Thread) \in Nat
      BY <3>2, Counted
    <3> QED
      BY <3>1, <3>3, <2>9
  <2>11. /\ e \in StateType /\ e.isIdle = threadStates[i].isIdle /\ e.docID = threadStates[i].docID
         /\ e.numThreads = threadStates[i].numThreads + 1
    BY <2>3, <2>7, <2>10 DEF StateType
  <2>12. /\ s \in [1..n -> StateType] /\ s[i] = e
         /\ \A j \in 1..n : j # i => s[j] = threadStates[j]
    BY <2>2, <2>4, <2>11, <1>1
  <2>13. Widens(s)
    <3>1. \A j \in DOMAIN s : IF j \in DOMAIN threadStates
                              THEN /\ s[j].isIdle = threadStates[j].isIdle
                                   /\ s[j].docID = threadStates[j].docID
                              ELSE s[j].isIdle
      BY <2>11, <2>12, <1>1
    <3>2. Len(threadStates) <= n
      BY <1>1
    <3> QED
      BY <3>1, <3>2, <2>12, <1>1 DEF Widens
  <2>14. CountsBinders(s, b)
    <3> SUFFICES ASSUME NEW j \in 1..n
                 PROVE  s[j].numThreads = Cardinality({u \in Thread : b[u] = j})
      BY <2>12 DEF CountsBinders
    <3>1. CASE j = i
      BY <3>1, <2>9, <2>11, <2>12
    <3>2. CASE j # i
      <4>1. {u \in Thread : b[u] = j} = {u \in Thread : threadBindings[u] = j}
        <5>1. \A u \in Thread : b[u] = j <=> threadBindings[u] = j
          BY <3>2, <2>5, <1>2, <1>5
        <5> QED
          BY <5>1
      <4> QED
        BY <4>1, <3>2, <2>12, <1>3
    <3> QED
      BY <3>1, <3>2
  <2>15. s = Bound(t)[1] /\ i = Bound(t)[2] /\ i \in DOMAIN s
    BY <2>2, <2>6, <2>12
  <2> QED
    BY <2>5, <2>13, <2>14, <2>15
<1>6. CASE /\ threadBindings[t] = 0
           /\ ~(/\ threadStates # <<>>
                /\ threadStates[MinThreads].numThreads = 0 \/ Len(threadStates) = MaxThreadState)
  <2>1. PICK i : i = n + 1
    OBVIOUS
  <2>2. PICK s : s = Append(threadStates, NewState)
    OBVIOUS
  <2>3. PICK b : b = [threadBindings EXCEPT ![t] = i]
    OBVIOUS
  <2>4. Bound(t) = <<s, i>>
    BY <2>1, <2>2, <1>1, <1>6 DEF Bound
  <2>5. n + 1 <= MaxThreadState /\ n + 1 \in Nat
    <3>1. CASE threadStates = <<>>
      BY <3>1, <1>1, SizesAssumption
    <3>2. CASE threadStates # <<>>
      <4>1. Len(threadStates) # MaxThreadState
        BY <3>2, <1>6
      <4>2. n # MaxThreadState
        BY <4>1, <1>1
      <4>3. n \in Nat /\ n <= MaxThreadState
        BY <1>1
      <4>4. MaxThreadState \in Nat
        BY SizesAssumption
      <4> QED
        BY <4>2, <4>3, <4>4
    <3> QED
      BY <3>1, <3>2
  <2>6. NewState \in StateType /\ NewState.isIdle /\ NewState.numThreads = 1
    <3>1. Cardinality(Thread) \in Nat /\ Cardinality(Thread) # 0
      <4>1. Thread \in SUBSET Thread /\ Thread # {}
        OBVIOUS
      <4> QED
        BY <4>1, Counted
    <3>2. 0 \in DocID
      BY BoundsAssumption DEF DocID, CountsOK
    <3> QED
      BY <3>1, <3>2 DEF NewState, StateType
  <2>7. /\ s \in [1..(n + 1) -> StateType] /\ s[i] = NewState
        /\ \A j \in 1..n : s[j] = threadStates[j]
    <3>1. threadStates \in Seq(StateType)
      BY DEF StatesOK
    <3>2. s \in Seq(StateType) /\ Len(s) = n + 1
      BY <3>1, <2>2, <2>6, <1>1, AppendProperties
    <3>3. s[i] = NewState /\ \A j \in 1..n : s[j] = threadStates[j]
      BY <3>1, <2>1, <2>2, <2>6, <1>1, AppendProperties
    <3> QED
      BY <3>2, <3>3
  <2>8. Widens(s)
    <3>1. \A j \in DOMAIN s : IF j \in DOMAIN threadStates
                              THEN /\ s[j].isIdle = threadStates[j].isIdle
                                   /\ s[j].docID = threadStates[j].docID
                              ELSE s[j].isIdle
      BY <2>1, <2>6, <2>7, <1>1
    <3> QED
      BY <3>1, <2>5, <2>7, <1>1 DEF Widens
  <2>9. CountsBinders(s, b)
    <3> SUFFICES ASSUME NEW j \in 1..(n + 1)
                 PROVE  s[j].numThreads = Cardinality({u \in Thread : b[u] = j})
      BY <2>7 DEF CountsBinders
    <3>1. CASE j = i
      <4>1. {u \in Thread : b[u] = j} = {t}
        <5>1. \A u \in Thread : b[u] = j <=> u = t
          BY <3>1, <2>1, <2>3, <1>2
        <5> QED
          BY <5>1
      <4> QED
        BY <4>1, <3>1, <2>6, <2>7, FS_Singleton
    <3>2. CASE j # i
      <4>1. {u \in Thread : b[u] = j} = {u \in Thread : threadBindings[u] = j}
        <5>1. \A u \in Thread : b[u] = j <=> threadBindings[u] = j
          BY <3>2, <2>3, <1>2, <1>6
        <5> QED
          BY <5>1
      <4> QED
        BY <4>1, <3>2, <2>1, <2>7, <1>3
    <3> QED
      BY <3>1, <3>2
  <2>10. i \in DOMAIN s
    BY <2>1, <2>7
  <2>11. s = Bound(t)[1] /\ i = Bound(t)[2]
    BY <2>4
  <2> QED
    BY <2>3, <2>8, <2>9, <2>10, <2>11
<1> QED
  BY <1>4, <1>5, <1>6

\* The document of c, which nobody has seen yet, gets its docID: t is the
\* thread, s the thread states with one for it.
Takes(t, c, s) ==
    /\ Runs(t) /\ ~closed /\ call[t].at \in {"out", "wait"}
    /\ Widens(s) /\ c.state \in DOMAIN s /\ ~Blocked(s, c.state) /\ Start(t, c, s)
    /\ c \in CallType /\ ~c.aborting /\ c.doc # 0
    /\ c.doc \notin Range(ram) \cup index \cup failed
    /\ \A u \in Thread \ {t} : call[u].doc # c.doc
    /\ docs' \in Nat /\ docs <= docs' /\ docs' <= MaxDocs /\ c.doc <= docs'
    /\ nextDocID + 1 + Cardinality(Waiters') <= docs'
    /\ threadBindings' \in [Thread -> {0} \cup State] /\ CountsBinders(s, threadBindings')
    /\ \A u \in Thread : threadBindings'[u] \in {0} \cup DOMAIN s
    /\ UNCHANGED <<closed, faults, failed, overtaken>>

\* What is so before and after such a step; i is the thread state.
Taken(t, c, i) ==
    /\ monitor = NoOne /\ pauseThreads = 0 /\ abortCount = 0 /\ ~flushPending /\ fresh = <<>>
    /\ \A u \in Thread : ~Flushing(u) /\ ~At(u, "stuck")
    /\ Moved(t, c, "process") /\ i = c.state /\ i \notin line
    /\ \E m \in Nat : m <= MaxThreadState /\ i \in 1..m /\ threadStates' \in [1..m -> StateType]
    /\ DOMAIN threadStates \subseteq DOMAIN threadStates'
    /\ \A j \in DOMAIN threadStates' :
         /\ IsIdle(j)' <=> j # i /\ (j \in DOMAIN threadStates => IsIdle(j))
         /\ j # i /\ j \in DOMAIN threadStates => threadStates'[j].docID = threadStates[j].docID
         /\ threadStates'[j].numThreads = Cardinality(Binders(j)')
    /\ threadStates'[i].docID = nextDocID
    /\ i \in DOMAIN threadStates => IsIdle(i)
    /\ \A u \in Thread : Working(u) => Mine(u) # i
    /\ nextDocID \in Nat /\ nextDocID < MaxDocs /\ nextDocID = Len(ram) /\ nextDocID' = nextDocID + 1
    /\ ram' = Append(ram, c.doc) /\ numDocsInRAM' = numDocsInRAM + 1
    /\ deleteNum' \in {deleteNum, nextDocID} /\ numDeleteTerms' \in Nat /\ deleteDocIDs' = deleteDocIDs
    /\ flushPending' \in BOOLEAN /\ (flushPending' \/ nextDocID + 1 < MaxBufferedDocs)
    /\ UNCHANGED <<nextWriteDocID, line, pauseThreads, bufferIsFull, abortCount, monitor, writerLock,
                   asleep, stored, fresh, flushDeletes, applied, index>>

LEMMA Taking ==
  ASSUME IInv, NEW t \in Thread, NEW c, NEW s, Takes(t, c, s)
  PROVE  Taken(t, c, c.state)
PROOF
<1>1. PICK i : i = c.state
  OBVIOUS
<1>2. /\ monitor = NoOne /\ pauseThreads = 0 /\ ~flushPending /\ s[i].isIdle /\ abortCount = 0
  <2>1. ~(abortCount > 0) /\ abortCount \in Nat
    <3>1. CountsOK
      BY DEF IInv
    <3> QED
      BY <3>1, NobodyAborts DEF Takes, Blocked
  <2> QED
    BY <2>1, <1>1 DEF Takes, Blocked, Runs
<1>3. fresh = <<>> /\ \A u \in Thread : ~Flushing(u) /\ ~At(u, "stuck")
  <2>1. CountsOK /\ LocksOK
    BY DEF IInv
  <2> QED
    BY <2>1, <1>2, NobodyPauses
<1>4. PICK m \in Nat : Len(threadStates) <= m /\ m <= MaxThreadState /\ s \in [1..m -> StateType]
  BY DEF Takes, Widens
<1>5. \A j \in 1..m : IF j \in DOMAIN threadStates
                      THEN s[j].isIdle = threadStates[j].isIdle /\ s[j].docID = threadStates[j].docID
                      ELSE s[j].isIdle
  BY <1>4 DEF Takes, Widens
<1>6. PICK n \in Nat : n = Len(threadStates) /\ DOMAIN threadStates = 1..n /\ threadStates \in [1..n -> StateType]
  BY States DEF IInv
<1>7. i \in 1..m
  BY <1>1, <1>4 DEF Takes
<1>8. /\ nextDocID \in Nat /\ nextDocID < MaxDocs /\ nextDocID = Len(ram) /\ numDocsInRAM = nextDocID
  <2>1. nextDocID = Len(ram) /\ nextDocID \in Nat /\ numDocsInRAM = nextDocID
    BY DEF IInv, StoredOK
  <2>2. Cardinality(Waiters') \in Nat
    <3>1. Waiters' \in SUBSET Thread
      BY DEF Waiters
    <3> QED
      BY <3>1, Counted
  <2>3. docs' \in Nat /\ docs' <= MaxDocs /\ nextDocID + 1 + Cardinality(Waiters') <= docs'
    BY DEF Takes
  <2> QED
    BY <2>1, <2>2, <2>3, BoundsAssumption
<1>9. nextDocID \in DocID
  BY <1>8, BoundsAssumption DEF DocID
<1>10. PICK byDel \in BOOLEAN : byDel <=> c.update /\ ManyDeletes(numDeleteTerms + 1) /\ ~flushPending
  OBVIOUS
<1>11. PICK byDoc \in BOOLEAN : byDoc <=> ~(flushPending \/ byDel) /\ FlushDue(numDocsInRAM + 1)
  OBVIOUS
<1>12. /\ threadStates' = [s EXCEPT ![i].isIdle = FALSE, ![i].docID = nextDocID,
                             ![i].doFlushAfter = (IF c.update THEN byDel ELSE @) \/ byDoc]
       /\ flushPending' = (flushPending \/ byDel \/ byDoc)
       /\ IF c.update THEN AddDeleteTerm(nextDocID) ELSE UNCHANGED deleted
       /\ ram' = Append(ram, c.doc) /\ nextDocID' = nextDocID + 1 /\ numDocsInRAM' = numDocsInRAM + 1
       /\ GoWith(t, c, "process")
       /\ UNCHANGED <<nextWriteDocID, line, pauseThreads, bufferIsFull, abortCount, locks, asleep, stored, flushed>>
  BY <1>1, <1>10, <1>11 DEF Takes, Start
<1>13. Moved(t, c, "process")
  <2>1. CallsOK /\ c \in CallType /\ "process" \in Where
    BY DEF IInv, Takes, Where
  <2> QED
    BY <2>1, <1>12, Going
<1>14. /\ threadStates' \in [1..m -> StateType]
       /\ ~threadStates'[i].isIdle /\ threadStates'[i].docID = nextDocID
       /\ threadStates'[i].numThreads = s[i].numThreads
       /\ \A j \in 1..m : j # i => threadStates'[j] = s[j]
  <2>1. PICK e : e = [s[i] EXCEPT !.isIdle = FALSE, !.docID = nextDocID,
                        !.doFlushAfter = (IF c.update THEN byDel ELSE s[i].doFlushAfter) \/ byDoc]
    OBVIOUS
  <2>2. threadStates' = [s EXCEPT ![i] = e]
    BY <2>1, <1>4, <1>7, <1>12
  <2>3. s[i] \in StateType
    BY <1>4, <1>7
  <2>4. e \in StateType /\ ~e.isIdle /\ e.docID = nextDocID /\ e.numThreads = s[i].numThreads
    BY <2>1, <2>3, <1>9 DEF StateType
  <2> QED
    BY <2>2, <2>4, <1>4, <1>7
<1>15. DOMAIN threadStates' = 1..m /\ 1..n \subseteq 1..m
  BY <1>4, <1>6, <1>14
<1>16. \A j \in 1..m : /\ IsIdle(j)' <=> j # i /\ (j \in DOMAIN threadStates => IsIdle(j))
                       /\ j # i /\ j \in DOMAIN threadStates => threadStates'[j].docID = threadStates[j].docID
  <2> SUFFICES ASSUME NEW j \in 1..m
               PROVE  /\ threadStates'[j].isIdle <=> j # i /\ (j \in DOMAIN threadStates => threadStates[j].isIdle)
                      /\ j # i /\ j \in DOMAIN threadStates => threadStates'[j].docID = threadStates[j].docID
    BY DEF IsIdle
  <2>1. CASE j = i
    BY <2>1, <1>14
  <2>2. CASE j # i
    BY <2>2, <1>5, <1>14
  <2> QED
    BY <2>1, <2>2
<1>17. \A j \in 1..m : threadStates'[j].numThreads = Cardinality(Binders(j)')
  <2>1. \A j \in 1..m : s[j].numThreads = Cardinality({u \in Thread : threadBindings'[u] = j})
    BY <1>4 DEF Takes, CountsBinders
  <2> QED
    BY <2>1, <1>14 DEF Binders
<1>18. i \in DOMAIN threadStates => IsIdle(i)
  BY <1>2, <1>5, <1>7 DEF IsIdle
<1>19. i \notin line
  <2>1. line \subseteq DOMAIN threadStates /\ \A j \in line : ~IsIdle(j)
    BY <1>2 DEF IInv, StatesOK, WorkOK
  <2> QED
    BY <2>1, <1>18
<1>20. \A u \in Thread : Working(u) => Mine(u) # i
  <2>1. \A u \in Thread : Working(u) => Mine(u) \in DOMAIN threadStates /\ ~IsIdle(Mine(u))
    BY DEF IInv, CallsOK, WorkOK, Working, Mine
  <2> QED
    BY <2>1, <1>18
<1>21. deleteNum' \in {deleteNum, nextDocID} /\ numDeleteTerms' \in Nat /\ deleteDocIDs' = deleteDocIDs
  <2>1. CASE c.update
    BY <2>1, <1>12 DEF AddDeleteTerm, NumAfter, IInv, DeletesOK
  <2>2. CASE ~c.update
    BY <2>2, <1>12 DEF deleted, IInv, DeletesOK
  <2> QED
    BY <2>1, <2>2
<1>22. flushPending' \in BOOLEAN /\ (flushPending' \/ nextDocID + 1 < MaxBufferedDocs)
  BY <1>2, <1>8, <1>10, <1>11, <1>12, SizesAssumption DEF FlushDue
<1>23. UNCHANGED <<nextWriteDocID, line, pauseThreads, bufferIsFull, abortCount, monitor, writerLock,
                   asleep, stored, fresh, flushDeletes, applied, index>>
  BY <1>12 DEF locks, flushed
<1>24. \E k \in Nat : k <= MaxThreadState /\ i \in 1..k /\ threadStates' \in [1..k -> StateType]
  BY <1>4, <1>7, <1>14
<1>25. DOMAIN threadStates \subseteq DOMAIN threadStates'
  BY <1>6, <1>15
<1> QED
  BY <1>1, <1>2, <1>3, <1>8, <1>12, <1>13, <1>14, <1>15, <1>16, <1>17, <1>18, <1>19, <1>20, <1>21, <1>22, <1>23,
     <1>24, <1>25 DEF Taken

LEMMA TakenMoves ==
  ASSUME IInv, NEW t \in Thread, NEW c, NEW s, NEW i, Takes(t, c, s), Taken(t, c, i)
  PROVE  /\ call'[t].at = "process" /\ call'[t].state = i /\ call'[t].doc = c.doc /\ ~call'[t].aborting
         /\ call[t].at \in {"out", "wait"} /\ ~call[t].aborting /\ c.doc # 0 /\ c.doc \in Documents
         /\ \A u \in Thread \ {t} : call'[u] = call[u]
         /\ \A u \in Thread : IF u = t THEN ~Working(u) /\ Working(u)' /\ Mine(u)' = i
                              ELSE (Working(u)' <=> Working(u)) /\ Mine(u)' = Mine(u)
PROOF
<1>1. /\ call'[t].at = "process" /\ call'[t].state = i /\ call'[t].doc = c.doc /\ ~call'[t].aborting
      /\ \A u \in Thread \ {t} : call'[u] = call[u]
  BY DEF Taken, Takes, Moved
<1>2. call[t].at \in {"out", "wait"} /\ c.doc # 0 /\ c.doc \in Documents
  BY DEF Takes, CallType
<1>3. ~call[t].aborting
  BY <1>2 DEF IInv, CallsOK
<1> QED
  BY <1>1, <1>2, <1>3 DEF Working, Mine

LEMMA TakenCounts ==
  ASSUME IInv, NEW t \in Thread, NEW c, NEW s, NEW i, Takes(t, c, s), Taken(t, c, i)
  PROVE  CallsOK' /\ StatesOK' /\ CountsOK' /\ RestOK' /\ ClosedOK'
PROOF
<1>1. /\ call'[t].at = "process" /\ ~call'[t].aborting /\ ~call[t].aborting
      /\ \A u \in Thread \ {t} : call'[u] = call[u]
  BY TakenMoves
<1>2. PICK m \in Nat : m <= MaxThreadState /\ i \in 1..m /\ threadStates' \in [1..m -> StateType]
  BY DEF Taken
<1>3. StatesOK'
  <2>1. line' \subseteq 1..m
    BY <1>2 DEF Taken, IInv, StatesOK
  <2> QED
    BY <1>2, <2>1, Restated
<1>4. CallsOK'
  <2>1. /\ DOMAIN threadStates \subseteq DOMAIN threadStates' /\ Moved(t, c, "process") /\ CallsOK
        /\ "process" \in {"unwind", "failed", "abort", "stuck", "out", "flush", "cleanup"} \/ ~c.aborting
        /\ "process" \in {"wait", "process", "unwind", "finished", "failed"} =>
             c.state \in DOMAIN threadStates' /\ c.doc # 0
        /\ threadBindings' \in [Thread -> {0} \cup State]
    BY <1>2 DEF Taken, Takes, IInv
  <2>2. \A u \in Thread : threadBindings'[u] \in {0} \cup DOMAIN threadStates'
    <3>1. \A u \in Thread : threadBindings'[u] \in {0} \cup DOMAIN s
      BY DEF Takes
    <3>2. DOMAIN s = DOMAIN threadStates'
      BY DEF Takes, Start
    <3> QED
      BY <3>1, <3>2
  <2> QED
    BY <2>1, <2>2, CallsKept
<1>5. CountsOK'
  <2>1. \A u \in Thread : /\ call'[u].aborting <=> call[u].aborting
                          /\ (Flushing(u) \/ At(u, "stuck"))' <=> Flushing(u) \/ At(u, "stuck")
    <3> SUFFICES ASSUME NEW u \in Thread
                 PROVE  /\ call'[u].aborting <=> call[u].aborting
                        /\ (Flushing(u) \/ At(u, "stuck"))' <=> Flushing(u) \/ At(u, "stuck")
      OBVIOUS
    <3>1. CASE u = t
      BY <3>1, <1>1 DEF Taken, Flushing, At
    <3>2. CASE u # t
      <4>1. call'[u] = call[u]
        BY <3>2, <1>1
      <4> QED
        BY <4>1 DEF Flushing, At
    <3> QED
      BY <3>1, <3>2
  <2>2. Aborters' = Aborters
    BY <2>1 DEF Aborters
  <2>3. Pausers' = Pausers
    BY <2>1 DEF Pausers
  <2>4. abortCount' = Cardinality(Aborters') /\ pauseThreads' = Cardinality(Pausers')
    BY <2>2, <2>3 DEF Taken, IInv, CountsOK
  <2>5. docs' \in Nat /\ docs' <= MaxDocs /\ nextDocID' + Cardinality(Waiters') <= docs'
    BY DEF Taken, Takes
  <2>6. \A j \in DOMAIN threadStates' : threadStates'[j].numThreads = Cardinality(Binders(j)')
    BY DEF Taken
  <2> QED
    BY <2>4, <2>5, <2>6 DEF CountsOK
<1>6. RestOK' /\ ClosedOK'
  BY DEF Taken, Takes, IInv, RestOK, ClosedOK
<1> QED
  BY <1>3, <1>4, <1>5, <1>6

LEMMA TakenLocks ==
  ASSUME IInv, NEW t \in Thread, NEW c, NEW s, NEW i, Takes(t, c, s), Taken(t, c, i)
  PROVE  LocksOK'
PROOF
<1>1. /\ call'[t].at = "process" /\ \A u \in Thread \ {t} : call'[u] = call[u]
  BY TakenMoves
<1>2. /\ monitor' = NoOne /\ monitor = NoOne /\ writerLock' = writerLock /\ fresh' = <<>> /\ asleep' = asleep
      /\ \A u \in Thread : ~Flushing(u) /\ ~At(u, "stuck")
  BY DEF Taken
<1>3. ASSUME NEW u \in Thread
      PROVE  /\ At(u, "stuck")' <=> monitor' = u
             /\ Flushing(u)' \/ (At(u, "abort")' /\ ~call'[u].aborting) => writerLock' = u
             /\ call'[u].at \notin {"paused", "write", "apply", "clear", "resume"}
  <2>1. CASE u = t
    BY <2>1, <1>1, <1>2, NoOneAssumption DEF At, Flushing
  <2>2. CASE u # t
    <3>1. call'[u] = call[u]
      BY <2>2, <1>1
    <3>2. ~Flushing(u) /\ ~At(u, "stuck")
      BY <1>2
    <3>3. At(u, "abort") /\ ~call[u].aborting => writerLock = u
      BY DEF IInv, LocksOK
    <3> QED
      BY <3>1, <3>2, <3>3, <1>2, NoOneAssumption DEF At, Flushing
  <2> QED
    BY <2>1, <2>2
<1>4. writerLock' \in Thread \cup {NoOne} /\ asleep' \subseteq Thread
  BY <1>2 DEF IInv, LocksOK
<1> QED
  BY <1>2, <1>3, <1>4 DEF LocksOK

LEMMA TakenWork ==
  ASSUME IInv, NEW t \in Thread, NEW c, NEW s, NEW i, Takes(t, c, s), Taken(t, c, i)
  PROVE  WorkOK'
PROOF
<1>1. \A u \in Thread : IF u = t THEN ~Working(u) /\ Working(u)' /\ Mine(u)' = i
                        ELSE (Working(u)' <=> Working(u)) /\ Mine(u)' = Mine(u)
  BY TakenMoves
<1>2. /\ line' = line /\ i \notin line
      /\ DOMAIN threadStates \subseteq DOMAIN threadStates' /\ i \in DOMAIN threadStates'
      /\ \A u \in Thread : Working(u) => Mine(u) # i
      /\ \A j \in DOMAIN threadStates' : IsIdle(j)' <=> j # i /\ (j \in DOMAIN threadStates => IsIdle(j))
  BY DEF Taken
<1>3. \A u \in Thread : Working(u) => Mine(u) \in DOMAIN threadStates
  BY DEF IInv, CallsOK, Working, Mine
<1>4. line \subseteq DOMAIN threadStates /\ \A j \in line : ~IsIdle(j)
  BY DEF Taken, IInv, StatesOK, WorkOK
<1>5. WorkOK
  BY DEF IInv
<1>6. (\A u, v \in Thread : Working(u) /\ Working(v) /\ Mine(u) = Mine(v) => u = v)'
  BY <1>1, <1>2, <1>5 DEF WorkOK
<1>7. (\A u \in Thread : Working(u) => ~IsIdle(Mine(u)) /\ Mine(u) \notin line)'
  <2> SUFFICES ASSUME NEW u \in Thread, Working(u)'
               PROVE  ~IsIdle(Mine(u))' /\ Mine(u)' \notin line
    BY <1>2
  <2>1. CASE u = t
    <3>1. Mine(u)' = i /\ ~IsIdle(i)'
      BY <2>1, <1>1, <1>2
    <3> QED
      BY <3>1, <1>2 DEF IsIdle
  <2>2. CASE u # t
    <3>1. PICK j : j = Mine(u)
      OBVIOUS
    <3>2. Mine(u)' = j /\ j \in DOMAIN threadStates /\ ~IsIdle(j) /\ j \notin line
      BY <2>2, <3>1, <1>1, <1>3, <1>5 DEF WorkOK
    <3>3. ~IsIdle(j)'
      BY <3>2, <1>2
    <3> QED
      BY <3>2, <3>3 DEF IsIdle
  <2> QED
    BY <2>1, <2>2
<1>8. (\A j \in DOMAIN threadStates : ~IsIdle(j) => j \in line \/ \E u \in Thread : Working(u) /\ Mine(u) = j)'
  <2> SUFFICES ASSUME NEW j \in DOMAIN threadStates', ~IsIdle(j)', j \notin line
               PROVE  \E u \in Thread : Working(u)' /\ Mine(u)' = j
    BY <1>2
  <2>1. CASE j = i
    BY <2>1, <1>1
  <2>2. CASE j # i
    <3>1. j \in DOMAIN threadStates /\ ~IsIdle(j)
      BY <2>2, <1>2
    <3>2. PICK u \in Thread : Working(u) /\ Mine(u) = j
      BY <3>1, <1>5 DEF WorkOK
    <3> QED
      BY <3>2, <1>1
  <2> QED
    BY <2>1, <2>2
<1>9. (\A j \in line : ~IsIdle(j))'
  BY <1>2, <1>4
<1> QED
  BY <1>6, <1>7, <1>8, <1>9 DEF WorkOK

LEMMA TakenStored ==
  ASSUME IInv, NEW t \in Thread, NEW c, NEW s, NEW i, Takes(t, c, s), Taken(t, c, i)
  PROVE  StoredOK'
PROOF
<1>1. PICK m \in Nat : m <= MaxThreadState /\ i \in 1..m /\ threadStates' \in [1..m -> StateType]
  BY DEF Taken
<1>2. /\ ram' = Append(ram, c.doc) /\ nextDocID \in Nat /\ nextDocID = Len(ram)
      /\ nextDocID' = nextDocID + 1 /\ numDocsInRAM' = numDocsInRAM + 1
      /\ UNCHANGED <<nextWriteDocID, line, stored, abortCount, monitor>>
      /\ abortCount = 0 /\ monitor = NoOne
  BY DEF Taken
<1>3. c.doc \in Documents
  BY TakenMoves
<1>4. StoredOK
  BY DEF IInv
<1>5. /\ ram' \in Seq(Documents) /\ Len(ram') = Len(ram) + 1
      /\ \A k \in 1..Len(ram) : ram'[k] = ram[k]
  BY <1>2, <1>3, <1>4, AppendProperties DEF StoredOK
<1>6. InTurn
  BY <1>2, <1>4 DEF StoredOK
<1>7. /\ nextWriteDocID \in Nat /\ nextWriteDocID <= nextDocID /\ nextWriteDocID = Len(stored)
      /\ \A k \in 1..Len(stored) : stored[k] = ram[k]
  BY <1>2, <1>4, BoundsAssumption DEF StoredOK
<1>8. /\ i \in DOMAIN threadStates' /\ threadStates'[i].docID = nextDocID /\ ~IsIdle(i)' /\ i \notin line
      /\ DOMAIN threadStates \subseteq DOMAIN threadStates'
      /\ \A j \in DOMAIN threadStates' \ {i} :
           IF j \in DOMAIN threadStates
           THEN (IsIdle(j)' <=> IsIdle(j)) /\ threadStates'[j].docID = threadStates[j].docID
           ELSE IsIdle(j)'
      /\ i \in DOMAIN threadStates => IsIdle(i)
      /\ line \subseteq DOMAIN threadStates
  BY <1>1 DEF Taken, IInv, StatesOK
<1>9. \A j \in DOMAIN threadStates : threadStates[j].docID \in Int
  <2>1. PICK n \in Nat : DOMAIN threadStates = 1..n /\ threadStates \in [1..n -> StateType]
    BY States DEF IInv
  <2>2. \A j \in 1..n : threadStates[j] \in StateType
    BY <2>1
  <2> QED
    BY <2>1, <2>2, BoundsAssumption DEF StateType, DocID
<1>10. \A j \in DOMAIN threadStates' : ~IsIdle(j)' /\ j # i =>
         /\ j \in DOMAIN threadStates /\ ~IsIdle(j) /\ threadStates'[j].docID = threadStates[j].docID
         /\ threadStates[j].docID \in Int
         /\ threadStates[j].docID >= nextWriteDocID /\ threadStates[j].docID < nextDocID
  BY <1>6, <1>8, <1>9 DEF InTurn
<1>11. InTurn'
  <2>1. (\A j \in DOMAIN threadStates :
           ~IsIdle(j) => threadStates[j].docID >= nextWriteDocID /\ threadStates[j].docID < nextDocID)'
    BY <1>2, <1>7, <1>8, <1>10
  <2>2. (\A j, k \in DOMAIN threadStates :
           ~IsIdle(j) /\ ~IsIdle(k) /\ threadStates[j].docID = threadStates[k].docID => j = k)'
    <3> SUFFICES ASSUME NEW j \in DOMAIN threadStates', NEW k \in DOMAIN threadStates', ~IsIdle(j)', ~IsIdle(k)',
                        threadStates'[j].docID = threadStates'[k].docID
                 PROVE  j = k
      OBVIOUS
    <3>1. CASE j = i \/ k = i
      BY <3>1, <1>2, <1>8, <1>10
    <3>2. CASE j # i /\ k # i
      BY <3>2, <1>6, <1>10 DEF InTurn
    <3> QED
      BY <3>1, <3>2
  <2>3. (\A k \in nextWriteDocID..(nextDocID - 1) :
           \E j \in DOMAIN threadStates : ~IsIdle(j) /\ threadStates[j].docID = k)'
    <3> SUFFICES ASSUME NEW k \in nextWriteDocID..nextDocID
                 PROVE  \E j \in DOMAIN threadStates' : ~IsIdle(j)' /\ threadStates'[j].docID = k
      BY <1>2
    <3>1. CASE k = nextDocID
      BY <3>1, <1>8
    <3>2. CASE k # nextDocID
      <4>1. k \in nextWriteDocID..(nextDocID - 1)
        BY <3>2, <1>2, <1>7
      <4>2. PICK j \in DOMAIN threadStates : ~IsIdle(j) /\ threadStates[j].docID = k
        BY <4>1, <1>6 DEF InTurn
      <4> QED
        BY <4>2, <1>8
    <3> QED
      BY <3>1, <3>2
  <2>4. (\A j \in line : threadStates[j].docID # nextWriteDocID)'
    BY <1>2, <1>6, <1>8 DEF InTurn
  <2> QED
    BY <2>1, <2>2, <2>3, <2>4 DEF InTurn
<1>12. \A k \in 1..Len(stored) : stored[k] = ram'[k]
  <2> SUFFICES ASSUME NEW k \in 1..Len(stored)
               PROVE  stored[k] = ram'[k]
    OBVIOUS
  <2>1. k \in 1..Len(ram)
    BY <1>2, <1>7
  <2> QED
    BY <2>1, <1>5, <1>7
<1>13. numDocsInRAM' = nextDocID' /\ Len(ram') = nextDocID' /\ nextWriteDocID' <= nextDocID'
  BY <1>2, <1>4, <1>5, <1>7 DEF StoredOK
<1>14. stored' \in Seq(Documents) /\ nextWriteDocID' \in 0..MaxDocs /\ nextWriteDocID' = Len(stored')
       /\ \A k \in 1..Len(stored') : stored'[k] = ram'[k]
  BY <1>2, <1>4, <1>7, <1>12 DEF StoredOK
<1> QED
  BY <1>5, <1>11, <1>13, <1>14 DEF StoredOK

LEMMA TakenDocs ==
  ASSUME IInv, NEW t \in Thread, NEW c, NEW s, NEW i, Takes(t, c, s), Taken(t, c, i)
  PROVE  DocsOK'
PROOF
<1>1. /\ call'[t].at = "process" /\ call'[t].doc = c.doc /\ c.doc # 0 /\ c.doc \in Documents
      /\ \A u \in Thread \ {t} : call'[u] = call[u]
  BY TakenMoves
<1>2. PICK n \in Nat : n = Len(ram) /\ ram \in Seq(Documents)
  BY DEF IInv, StoredOK
<1>3. /\ DOMAIN ram' = 1..(n + 1) /\ ram'[n + 1] = c.doc /\ \A k \in 1..n : ram'[k] = ram[k]
      /\ DOMAIN ram = 1..n
  <2>1. ram' = Append(ram, c.doc)
    BY DEF Taken
  <2>2. ram' \in Seq(Documents) /\ Len(ram') = n + 1
    BY <2>1, <1>1, <1>2, AppendProperties
  <2>3. ram'[n + 1] = c.doc /\ \A k \in 1..n : ram'[k] = ram[k]
    BY <2>1, <1>1, <1>2, AppendProperties
  <2> QED
    BY <2>2, <2>3, <1>2
<1>4. Range(ram') = Range(ram) \cup {c.doc}
  BY <1>3 DEF Range
<1>5. /\ UNCHANGED <<fresh, index, applied, failed, overtaken>> /\ fresh = <<>>
      /\ c.doc \notin Range(ram) \cup index \cup failed
      /\ docs' \in Nat /\ docs <= docs' /\ c.doc <= docs' /\ docs \in Nat
      /\ \A u \in Thread \ {t} : call[u].doc # c.doc
  BY DEF Taken, Takes, IInv, CountsOK
<1>6. DocsOK
  BY DEF IInv
<1>7. \A u \in Thread : call'[u].doc <= docs'
  <2> SUFFICES ASSUME NEW u \in Thread, u # t
               PROVE  call[u].doc <= docs'
    BY <1>1, <1>5
  <2>1. call[u].doc \in Nat /\ call[u].doc <= docs
    <3>1. call[u].doc \in {0} \cup Documents
      BY CallTyped DEF IInv
    <3> QED
      BY <3>1, <1>6 DEF DocsOK, Documents
  <2> QED
    BY <2>1, <1>5
<1>8. \A u, v \in Thread : u # v /\ call'[u].doc = call'[v].doc => call'[u].doc = 0
  BY <1>1, <1>5, <1>6 DEF DocsOK
<1>9. ASSUME NEW u \in Thread, call'[u].at = "wait"
      PROVE  call'[u].doc \notin Range(ram') \cup Range(fresh) \cup index \cup failed
  <2>1. u # t /\ call'[u] = call[u]
    BY <1>1, <1>9
  <2> QED
    BY <2>1, <1>4, <1>5, <1>6, <1>9 DEF DocsOK, At
<1>10. \A u \in Thread : call'[u].at \in {"process", "unwind", "failed"} => call'[u].doc \notin failed
  BY <1>1, <1>5, <1>6 DEF DocsOK
<1>11. \A d \in Range(ram') \cup Range(fresh) \cup index \cup failed : d <= docs'
  <2> SUFFICES ASSUME NEW d \in Range(ram) \cup Range(fresh) \cup index \cup failed
               PROVE  d <= docs'
    BY <1>4, <1>5
  <2>1. d \in Documents
    BY <1>2, <1>5, <1>6 DEF DocsOK, Range
  <2>2. d \in Nat /\ d <= docs
    BY <2>1, <1>6 DEF DocsOK, Documents
  <2> QED
    BY <2>2, <1>5
<1>12. \A j, k \in DOMAIN ram' : ram'[j] = ram'[k] => j = k
  <2> SUFFICES ASSUME NEW j \in 1..(n + 1), NEW k \in 1..(n + 1), ram'[j] = ram'[k]
               PROVE  j = k
    BY <1>3
  <2>1. \A l \in 1..n : ram[l] # c.doc
    BY <1>3, <1>5 DEF Range
  <2>2. CASE j \in 1..n /\ k \in 1..n
    BY <2>2, <1>3, <1>6 DEF DocsOK
  <2>3. CASE j \in 1..n /\ k = n + 1
    BY <2>1, <2>3, <1>3
  <2>4. CASE j = n + 1 /\ k \in 1..n
    BY <2>1, <2>4, <1>3
  <2> QED
    BY <2>2, <2>3, <2>4
<1>13. (Range(ram') \cup Range(fresh)) \cap index = {}
  BY <1>4, <1>5, <1>6 DEF DocsOK
<1>14. /\ fresh' \in Seq(Documents) /\ index' \subseteq Documents /\ failed' \subseteq Documents
       /\ overtaken' \subseteq failed' /\ \A j, k \in DOMAIN fresh : fresh[j] = fresh[k] => j = k
       /\ applied' \subseteq Documents
  BY <1>5, <1>6 DEF DocsOK
<1>15. \A u \in Thread : call'[u].at # "clear"
  BY <1>1 DEF Taken, Flushing
<1> QED
  BY <1>5, <1>7, <1>8, <1>9, <1>10, <1>11, <1>12, <1>13, <1>14, <1>15 DEF DocsOK, At

LEMMA TakenDeletes ==
  ASSUME IInv, NEW t \in Thread, NEW c, NEW s, NEW i, Takes(t, c, s), Taken(t, c, i)
  PROVE  DeletesOK'
PROOF
<1>1. PICK n \in Nat : n = Len(ram) /\ ram \in Seq(Documents) /\ nextDocID = n
  BY DEF IInv, StoredOK, Taken
<1>2. c.doc \in Documents /\ c.doc \notin failed
  BY TakenMoves DEF Takes
<1>3. ram' = Append(ram, c.doc)
  BY DEF Taken
<1>4. /\ Len(ram') = n + 1 /\ DOMAIN ram' = 1..(n + 1) /\ ram'[n + 1] = c.doc
      /\ \A k \in 1..n : ram'[k] = ram[k]
  <2>1. ram' \in Seq(Documents) /\ Len(ram') = n + 1
    BY <1>1, <1>2, <1>3, AppendProperties
  <2>2. ram'[n + 1] = c.doc /\ \A k \in 1..n : ram'[k] = ram[k]
    BY <1>1, <1>2, <1>3, AppendProperties
  <2> QED
    BY <2>1, <2>2
<1>5. /\ UNCHANGED <<fresh, index, failed, overtaken, deleteDocIDs, flushDeletes>> /\ fresh = <<>>
      /\ deleteNum' \in {deleteNum, n} /\ numDeleteTerms' \in Nat
  BY <1>1 DEF Taken, Takes
<1>6. Segment = ram /\ Segment' = ram' /\ DeletesOK
  BY <1>5 DEF Segment, IInv
<1>7. deleteNum' \in {None} \cup Nat /\ deleteNum' <= Len(Segment')
  <2>1. deleteNum \in {None} \cup Nat /\ deleteNum <= n
    BY <1>1, <1>6 DEF DeletesOK
  <2> QED
    BY <2>1, <1>1, <1>4, <1>5, <1>6 DEF None
<1>8. deleteDocIDs' \subseteq DocID /\ (overtaken = {} => \A k \in deleteDocIDs : k < n)
  BY <1>1, <1>5, <1>6 DEF DeletesOK
<1>9. overtaken' = {} => \A k \in deleteDocIDs' : k < Len(Segment')
  <2> SUFFICES ASSUME overtaken = {}, NEW k \in deleteDocIDs
               PROVE  k < n + 1
    BY <1>4, <1>5, <1>6
  <2>1. k < n /\ k \in Int
    BY <1>5, <1>8, BoundsAssumption DEF DocID
  <2> QED
    BY <2>1
<1>11. \A u \in Thread : call'[u].at \notin {"write", "apply", "clear"}
  <2>1. call'[t].at = "process" /\ \A u \in Thread \ {t} : call'[u] = call[u]
    BY TakenMoves
  <2>2. \A u \in Thread : ~Flushing(u)
    BY DEF Taken
  <2> QED
    BY <2>1, <2>2 DEF Flushing
<1>13. ~TakenAsLive'
  BY <1>11 DEF TakenAsLive, At
<1>10. (\A k \in DOMAIN ram :
          ram[k] \in failed => (~TakenAsLive /\ k - 1 \in deleteDocIDs) \/ ram[k] \in overtaken)'
  <2> SUFFICES ASSUME NEW k \in 1..(n + 1), ram'[k] \in failed
               PROVE  k - 1 \in deleteDocIDs \/ ram'[k] \in overtaken
    BY <1>4, <1>5, <1>13
  <2>1. k # n + 1
    BY <1>2, <1>4
  <2>2. k \in 1..n /\ k \in DOMAIN ram
    BY <2>1, <1>1
  <2> QED
    BY <2>2, <1>4, <1>6 DEF DeletesOK
<1>12. AllOrNone'
  BY <1>5, <1>6 DEF DeletesOK, AllOrNone
<1> QED
  BY <1>5, <1>7, <1>8, <1>9, <1>10, <1>11, <1>12 DEF DeletesOK, At

\* The document is one more to flush; if it is the last that fits, the flush is
\* due.
LEMMA TakenKept ==
  ASSUME IInv, NEW t \in Thread, NEW c, NEW s, NEW i, Takes(t, c, s), Taken(t, c, i)
  PROVE  FlushOK'
PROOF
<1> SUFFICES ASSUME overtaken = {}
             PROVE  /\ Cardinality(Kept') <= MaxBufferedDocs
                    /\ ~flushPending' => Cardinality(Kept') < MaxBufferedDocs
  BY DEF FlushOK, Takes
<1>1. PICK n \in Nat : n = Len(ram) /\ ram \in Seq(Documents) /\ nextDocID = n
  BY DEF IInv, StoredOK, Taken
<1>2. c.doc \in Documents /\ c.doc \notin failed /\ failed' = failed /\ ram' = Append(ram, c.doc)
      /\ ~flushPending /\ (flushPending' \/ n + 1 < MaxBufferedDocs)
  BY <1>1, TakenMoves DEF Takes, Taken
<1>3. /\ DOMAIN ram' = 1..(n + 1) /\ ram'[n + 1] = c.doc /\ DOMAIN ram = 1..n
      /\ \A k \in 1..n : ram'[k] = ram[k]
  <2>1. ram' \in Seq(Documents) /\ Len(ram') = n + 1
    BY <1>1, <1>2, AppendProperties
  <2>2. ram'[n + 1] = c.doc /\ \A k \in 1..n : ram'[k] = ram[k]
    BY <1>1, <1>2, AppendProperties
  <2> QED
    BY <2>1, <2>2, <1>1
<1>4. PICK K : K = Kept
  OBVIOUS
<1>5. K \subseteq 1..n /\ Kept' = K \cup {n + 1}
  BY <1>2, <1>3, <1>4 DEF Kept
<1>6. IsFiniteSet(1..n) /\ Cardinality(1..n) = n
  BY FS_Interval
<1>7. IsFiniteSet(K) /\ Cardinality(K) \in Nat /\ Cardinality(K) <= n
  BY <1>5, <1>6, FS_Subset, FS_CardinalityType
<1>8. Cardinality(K \cup {n + 1}) = Cardinality(K) + 1
  <2>1. n + 1 \notin K
    BY <1>5
  <2> QED
    BY <2>1, <1>7, FS_AddElement
<1>9. Cardinality(K) < MaxBufferedDocs
  BY <1>2, <1>4 DEF IInv, FlushOK
<1> QED
  BY <1>2, <1>5, <1>7, <1>8, <1>9, SizesAssumption

LEMMA StartKeeps ==
  ASSUME IInv, NEW t \in Thread, NEW c, NEW s, Takes(t, c, s)
  PROVE  IInv'
PROOF
<1>1. Taken(t, c, c.state)
  BY Taking
<1>2. CallsOK' /\ StatesOK' /\ CountsOK' /\ RestOK' /\ ClosedOK'
  BY <1>1, TakenCounts
<1> QED
  BY <1>1, <1>2, TakenLocks, TakenWork, TakenStored, TakenDocs, TakenDeletes, TakenKept DEF IInv

LEMMA FreshDoc ==
  ASSUME IInv
  PROVE  /\ docs + 1 \notin Range(ram) \cup Range(fresh) \cup index \cup failed
         /\ \A u \in Thread : call[u].doc # docs + 1
PROOF
<1>1. docs \in Nat /\ DocsOK
  BY DEF IInv, CountsOK
<1>2. ~(docs + 1 <= docs)
  BY <1>1
<1> QED
  BY <1>1, <1>2 DEF DocsOK

LEMMA SameStates ==
  ASSUME CallsOK, StatesOK, CountsOK, monitor = NoOne
  PROVE  Widens(threadStates) /\ CountsBinders(threadStates, threadBindings)
PROOF
<1>1. PICK n \in Nat : /\ n = Len(threadStates) /\ n <= MaxThreadState
                       /\ DOMAIN threadStates = 1..n /\ threadStates \in [1..n -> StateType]
  BY States
<1>2. Len(threadStates) <= n
  BY <1>1
<1> QED
  BY <1>1, <1>2 DEF Widens, CountsBinders, CountsOK, Binders

\* A thread that waited for its thread state gets it.
LEMMA Awaking ==
  ASSUME IInv, NEW t \in Thread, Awake(t), Open /\ ~Blocked(threadStates, Mine(t))
  PROVE  Takes(t, call[t], threadStates)
PROOF
<1>1. /\ Runs(t) /\ monitor = NoOne /\ call[t].at = "wait" /\ ~closed
      /\ Start(t, call[t], threadStates) /\ GoWith(t, call[t], "process")
      /\ ~Blocked(threadStates, call[t].state)
      /\ UNCHANGED <<threadBindings, closed, docs, faults, failed, overtaken>>
  BY DEF Awake, Start, Runs, Open, At, Mine
<1>2. CallsOK /\ StatesOK /\ CountsOK /\ DocsOK
  BY DEF IInv
<1>3. Widens(threadStates) /\ CountsBinders(threadStates, threadBindings')
  BY <1>1, <1>2, SameStates
<1>4. /\ call[t] \in CallType /\ ~call[t].aborting /\ call[t].doc # 0 /\ call[t].state \in DOMAIN threadStates
  BY <1>1, <1>2, CallTyped DEF CallsOK
<1>5. /\ call[t].doc \notin Range(ram) \cup index \cup failed /\ call[t].doc <= docs
      /\ \A u \in Thread \ {t} : call[u].doc # call[t].doc
  BY <1>1, <1>2, <1>4 DEF DocsOK, At
<1>6. nextDocID + 1 + Cardinality(Waiters') <= docs
  <2>1. call'[t].at = "process" /\ \A u \in Thread \ {t} : call'[u] = call[u]
    <3>1. Moved(t, call[t], "process")
      BY <1>1, <1>2, <1>4, Going DEF Where
    <3> QED
      BY <3>1 DEF Moved
  <2>2. PICK A : A = Waiters
    OBVIOUS
  <2>3. PICK B : B = Waiters'
    OBVIOUS
  <2>4. /\ A \in SUBSET Thread /\ B \in SUBSET Thread /\ t \in A /\ t \notin B
        /\ \A u \in Thread \ {t} : u \in A <=> u \in B
    BY <1>1, <2>1, <2>2, <2>3 DEF Waiters, At
  <2>5. Cardinality(B) = Cardinality(A) - 1 /\ Cardinality(A) \in Nat
    BY <2>4, Recounted, Counted
  <2>6. nextDocID + Cardinality(A) <= docs /\ docs \in Nat /\ nextDocID \in Nat
    BY <1>2, <2>2 DEF CountsOK, IInv, StoredOK
  <2> QED
    BY <2>3, <2>5, <2>6
<1>7. /\ docs' \in Nat /\ docs <= docs' /\ docs' <= MaxDocs /\ docs' = docs
      /\ threadBindings' \in [Thread -> {0} \cup State]
      /\ \A u \in Thread : threadBindings'[u] \in {0} \cup DOMAIN threadStates
  BY <1>1, <1>2 DEF CountsOK, CallsOK
<1>8. Takes(t, call[t], threadStates)
  BY <1>1, <1>3, <1>4, <1>5, <1>6, <1>7 DEF Takes
<1> QED
  BY <1>8

LEMMA AwakeKeeps ==
  ASSUME IInv, NEW t \in Thread, Awake(t)
  PROVE  IInv'
PROOF
  BY Awaking, StartKeeps, AwakeIdly

\* A new document has to wait: s are the thread states with one for it.
Waits(t, c, s) ==
    /\ monitor = NoOne /\ call[t].at = "out" /\ ~closed /\ docs < MaxDocs
    /\ Widens(s) /\ threadStates' = s /\ c.state \in DOMAIN s
    /\ c \in CallType /\ ~c.aborting /\ c.doc = docs + 1 /\ docs' = docs + 1
    /\ Moved(t, c, "wait") /\ asleep' = asleep \cup {t}
    /\ threadBindings' \in [Thread -> {0} \cup State] /\ CountsBinders(s, threadBindings')
    /\ \A u \in Thread : threadBindings'[u] \in {0} \cup DOMAIN s
    /\ UNCHANGED <<nextDocID, numDocsInRAM, nextWriteDocID, line, pauseThreads, flushPending, bufferIsFull,
                   abortCount, closed, monitor, writerLock, ram, stored, deleteNum, numDeleteTerms,
                   deleteDocIDs, fresh, flushDeletes, applied, index, faults, failed, overtaken>>

LEMMA WaitsStates ==
  ASSUME IInv, NEW t \in Thread, NEW c, NEW s, Waits(t, c, s)
  PROVE  /\ StatesOK' /\ StoredOK' /\ WorkOK'
         /\ DOMAIN threadStates \subseteq DOMAIN threadStates' /\ (AllThreadsIdle' <=> AllThreadsIdle)
PROOF
<1>1. PICK m \in Nat : Len(threadStates) <= m /\ m <= MaxThreadState /\ s \in [1..m -> StateType]
  BY DEF Waits, Widens
<1>2. PICK n \in Nat : n = Len(threadStates) /\ DOMAIN threadStates = 1..n
  BY States DEF IInv
<1>3. DOMAIN threadStates' = 1..m /\ DOMAIN threadStates \subseteq DOMAIN threadStates'
  BY <1>1, <1>2 DEF Waits
<1>4. \A j \in DOMAIN threadStates' : IF j \in DOMAIN threadStates
                                      THEN (IsIdle(j)' <=> IsIdle(j)) /\ threadStates'[j].docID = threadStates[j].docID
                                      ELSE IsIdle(j)'
  BY <1>3 DEF Waits, Widens, IsIdle
<1>5. line \subseteq DOMAIN threadStates /\ line' = line
  BY DEF Waits, IInv, StatesOK
<1>6. StatesOK'
  <2>1. line' \subseteq 1..m /\ threadStates' \in [1..m -> StateType]
    BY <1>1, <1>3, <1>5 DEF Waits
  <2> QED
    BY <2>1, <1>1, Restated
<1>7. AllThreadsIdle' <=> AllThreadsIdle
  BY <1>3, <1>4 DEF AllThreadsIdle
<1>8. UNCHANGED <<nextDocID, numDocsInRAM, nextWriteDocID, line, abortCount, monitor, ram, stored>>
  BY DEF Waits
<1>9. InTurn => InTurn'
  BY <1>3, <1>4, <1>5, <1>8 DEF InTurn
<1>10. StoredOK'
  BY <1>8, <1>9 DEF IInv, StoredOK
<1>11. WorkOK'
  <2>1. \A u \in Thread : /\ Working(u)' <=> Working(u)
                          /\ Working(u) => /\ Mine(u)' = Mine(u) /\ Mine(u) \in DOMAIN threadStates
    <3>1. call'[t].at = "wait" /\ call[t].at = "out" /\ \A u \in Thread \ {t} : call'[u] = call[u]
      BY DEF Waits, Moved
    <3> QED
      BY <3>1 DEF IInv, CallsOK, Working, Mine
  <2>2. WorkOK
    BY DEF IInv
  <2>3. (\A u, v \in Thread : Working(u) /\ Working(v) /\ Mine(u) = Mine(v) => u = v)'
    BY <2>1, <2>2 DEF WorkOK
  <2>4. (\A u \in Thread : Working(u) => ~IsIdle(Mine(u)) /\ Mine(u) \notin line)'
    <3> SUFFICES ASSUME NEW u \in Thread, Working(u)
                 PROVE  ~threadStates'[Mine(u)].isIdle /\ Mine(u) \notin line
      BY <2>1, <1>5 DEF IsIdle
    <3>1. Mine(u) \in DOMAIN threadStates /\ ~IsIdle(Mine(u)) /\ Mine(u) \notin line
      BY <2>1, <2>2 DEF WorkOK
    <3> QED
      BY <3>1, <1>3, <1>4 DEF IsIdle
  <2>5. (\A i \in DOMAIN threadStates : ~IsIdle(i) => i \in line \/ \E u \in Thread : Working(u) /\ Mine(u) = i)'
    BY <2>1, <2>2, <1>3, <1>4, <1>5 DEF WorkOK
  <2>6. (abortCount = 0 => \A i \in line : ~IsIdle(i))'
    BY <2>2, <1>3, <1>4, <1>5, <1>8 DEF WorkOK
  <2> QED
    BY <2>3, <2>4, <2>5, <2>6 DEF WorkOK
<1> QED
  BY <1>3, <1>6, <1>7, <1>10, <1>11

LEMMA WaitsKeeps ==
  ASSUME IInv, NEW t \in Thread, NEW c, NEW s, Waits(t, c, s)
  PROVE  IInv'
PROOF
<1>1. /\ call'[t].at = "wait" /\ call'[t].doc = docs + 1 /\ call'[t].state = c.state /\ ~call'[t].aborting
      /\ call[t].at = "out" /\ ~call[t].aborting
      /\ \A u \in Thread \ {t} : call'[u] = call[u]
  BY DEF Waits, Moved, IInv, CallsOK
<1>2. UNCHANGED <<nextDocID, numDocsInRAM, nextWriteDocID, line, pauseThreads, flushPending, bufferIsFull,
                  abortCount, closed, monitor, writerLock, ram, stored, deleteNum, numDeleteTerms,
                  deleteDocIDs, fresh, flushDeletes, applied, index, faults, failed, overtaken>>
  BY DEF Waits
<1>3. StatesOK' /\ StoredOK' /\ WorkOK'
  BY WaitsStates
<1>4. docs \in Nat /\ docs' = docs + 1 /\ docs' <= MaxDocs /\ monitor = NoOne
  BY BoundsAssumption DEF Waits, IInv, CountsOK
<1>5. CallsOK'
  <2>1. /\ DOMAIN threadStates \subseteq DOMAIN threadStates' /\ Moved(t, c, "wait") /\ CallsOK
        /\ "wait" \in {"unwind", "failed", "abort", "stuck", "out", "flush", "cleanup"} \/ ~c.aborting
        /\ "wait" \in {"wait", "process", "unwind", "finished", "failed"} =>
             c.state \in DOMAIN threadStates' /\ c.doc # 0
        /\ threadBindings' \in [Thread -> {0} \cup State]
        /\ \A u \in Thread : threadBindings'[u] \in {0} \cup DOMAIN threadStates'
    BY <1>4, WaitsStates DEF Waits, IInv
  <2> QED
    BY <2>1, CallsKept
<1>6. CountsOK'
  <2>1. \A u \in Thread : /\ call'[u].aborting <=> call[u].aborting
                          /\ (Flushing(u) \/ At(u, "stuck"))' <=> Flushing(u) \/ At(u, "stuck")
    BY <1>1 DEF Flushing, At
  <2>2. Aborters' = Aborters
    BY <2>1 DEF Aborters
  <2>3. Pausers' = Pausers
    BY <2>1 DEF Pausers
  <2>4. abortCount' = Cardinality(Aborters') /\ pauseThreads' = Cardinality(Pausers')
    BY <2>2, <2>3, <1>2 DEF IInv, CountsOK
  <2>5. nextDocID' + Cardinality(Waiters') <= docs'
    <3>2. PICK A : A = Waiters
      OBVIOUS
    <3>3. PICK B : B = Waiters'
      OBVIOUS
    <3>4. /\ A \in SUBSET Thread /\ B \in SUBSET Thread /\ t \notin A /\ t \in B
          /\ \A u \in Thread \ {t} : u \in A <=> u \in B
      BY <1>1, <3>2, <3>3 DEF Waiters, At
    <3>5. Cardinality(B) = Cardinality(A) + 1 /\ Cardinality(A) \in Nat
      BY <3>4, Recounted, Counted
    <3>6. nextDocID + Cardinality(A) <= docs /\ docs \in Nat /\ nextDocID \in Nat
      BY <3>2 DEF CountsOK, IInv, StoredOK
    <3> QED
      BY <3>3, <3>5, <3>6, <1>2, <1>4
  <2>6. \A j \in DOMAIN threadStates' : threadStates'[j].numThreads = Cardinality(Binders(j)')
    BY DEF Waits, CountsBinders, Binders
  <2> QED
    BY <2>4, <2>5, <2>6, <1>4 DEF CountsOK
<1>7. LocksOK'
  <2>1. AllThreadsIdle' <=> AllThreadsIdle
    BY WaitsStates
  <2>2. ASSUME NEW u \in Thread
        PROVE  /\ At(u, "stuck")' <=> monitor' = u
               /\ Flushing(u)' \/ (At(u, "abort")' /\ ~call'[u].aborting) => writerLock' = u
               /\ call'[u].at \in {"paused", "write", "apply", "clear", "resume"} => abortCount' = 0 /\ AllThreadsIdle'
               /\ call'[u].at \in {"apply", "clear", "resume"} => ram' = <<>>
    <3>1. CASE u = t
      BY <3>1, <1>1, <1>2, <1>4, NoOneAssumption DEF At, Flushing
    <3>2. CASE u # t
      <4>1. call'[u] = call[u]
        BY <3>2, <1>1
      <4> QED
        BY <4>1, <2>1, <1>2 DEF At, Flushing, IInv, LocksOK
    <3> QED
      BY <3>1, <3>2
  <2>3. fresh' # <<>> => \E u \in Thread : At(u, "apply")' \/ At(u, "clear")'
    BY <1>1, <1>2 DEF At, IInv, LocksOK
  <2>4. asleep' \subseteq Thread /\ monitor' = NoOne /\ writerLock' \in Thread \cup {NoOne}
    BY <1>2, <1>4 DEF Waits, IInv, LocksOK
  <2> QED
    BY <2>2, <2>3, <2>4 DEF LocksOK
<1>8. DocsOK'
  <2>1. DocsOK /\ \A u \in Thread : call[u].doc \in {0} \cup Documents
    BY CallTyped DEF IInv
  <2>2. /\ docs + 1 \notin Range(ram) \cup Range(fresh) \cup index \cup failed
        /\ \A u \in Thread : call[u].doc # docs + 1
    BY FreshDoc
  <2>3. \A u \in Thread : call'[u].doc <= docs'
    <3> SUFFICES ASSUME NEW u \in Thread, u # t
                 PROVE  call[u].doc <= docs + 1
      BY <1>1, <1>4
    <3>1. call[u].doc \in Nat /\ call[u].doc <= docs
      BY <2>1 DEF DocsOK, Documents
    <3> QED
      BY <3>1, <1>4
  <2>4. \A u, v \in Thread : u # v /\ call'[u].doc = call'[v].doc => call'[u].doc = 0
    BY <2>1, <2>2, <1>1 DEF DocsOK
  <2>5. \A u \in Thread : call'[u].at = "wait" =>
          call'[u].doc \notin Range(ram) \cup Range(fresh) \cup index \cup failed
    BY <2>1, <2>2, <1>1 DEF DocsOK, At
  <2>6. \A u \in Thread : call'[u].at \in {"process", "unwind", "failed"} => call'[u].doc \notin failed
    BY <2>1, <1>1 DEF DocsOK
  <2>7. \A d \in Range(ram) \cup Range(fresh) \cup index \cup failed : d <= docs'
    <3> SUFFICES ASSUME NEW d \in Range(ram) \cup Range(fresh) \cup index \cup failed
                 PROVE  d <= docs + 1
      BY <1>4
    <3>1. d \in Documents
      BY <2>1 DEF DocsOK, Range, IInv, StoredOK
    <3>2. d \in Nat /\ d <= docs
      BY <2>1, <3>1 DEF DocsOK, Documents
    <3> QED
      BY <3>2, <1>4
  <2>8. \A u \in Thread : call'[u].at = "clear" => applied \subseteq index \cup Range(fresh)
    BY <2>1, <1>1 DEF DocsOK, At
  <2> QED
    BY <2>1, <2>3, <2>4, <2>5, <2>6, <2>7, <2>8, <1>2 DEF DocsOK, At
<1>9. DeletesOK'
  <2>1. \A u \in Thread : \A p \in {"write", "apply", "clear"} : call'[u].at = p <=> call[u].at = p
    BY <1>1
  <2>2. TakenAsLive' <=> TakenAsLive
    BY <2>1, <1>2 DEF TakenAsLive, At
  <2>3. LiveBefore' = LiveBefore /\ LiveOf(fresh)' = LiveOf(fresh)
    BY <1>2 DEF LiveBefore, LiveOf
  <2> QED
    BY <2>1, <2>2, <2>3, <1>2 DEF IInv, DeletesOK, Segment, AllOrNone, At
<1>10. FlushOK' /\ RestOK' /\ ClosedOK'
  <2>1. Kept' = Kept
    BY <1>2 DEF Kept
  <2> QED
    BY <2>1, <1>2 DEF Waits, IInv, FlushOK, RestOK, ClosedOK
<1> QED
  BY <1>3, <1>5, <1>6, <1>7, <1>8, <1>9, <1>10 DEF IInv

LEMMA Entering ==
  ASSUME IInv, NEW t \in Thread, NEW up \in BOOLEAN, Enter(t, up)
  PROVE  \E c, s : Takes(t, c, s) \/ Waits(t, c, s)
PROOF
<1>1. Runs(t) /\ monitor = NoOne /\ call[t].at = "out" /\ ~closed /\ docs < MaxDocs /\ docs' = docs + 1
      /\ UNCHANGED <<closed, calls, faults, failed, overtaken>>
  BY DEF Enter, Runs, At
<1>2. PICK s, i, b : /\ s = Bound(t)[1] /\ i = Bound(t)[2] /\ b = [threadBindings EXCEPT ![t] = i]
                     /\ Widens(s) /\ i \in DOMAIN s /\ CountsBinders(s, b)
  BY <1>1, Binding DEF IInv
<1>3. PICK c : c = [NoCall EXCEPT !.state = i, !.doc = docs', !.update = up]
  OBVIOUS
<1>4. /\ threadBindings' = b
      /\ IF Blocked(s, i)
         THEN /\ threadStates' = s
              /\ GoWith(t, c, "wait")
              /\ Sleep(t)
              /\ UNCHANGED <<ids, pauseThreads, flags, abortCount, locks, buffered, deleted, flushed>>
         ELSE Start(t, c, s)
  BY <1>2, <1>3 DEF Enter
<1>5. PICK m \in Nat : m <= MaxThreadState /\ Len(threadStates) <= m /\ s \in [1..m -> StateType]
  BY <1>2 DEF Widens
<1>6. i \in State /\ i \in 1..m
  BY <1>2, <1>5, SizesAssumption DEF State
<1>7. docs \in Nat /\ docs' \in Documents /\ docs' <= MaxDocs /\ docs' \in Nat
  BY <1>1, BoundsAssumption DEF Documents, IInv, CountsOK
<1>8. /\ c \in CallType /\ ~c.aborting /\ c.doc = docs' /\ c.doc # 0 /\ c.state = i
  <2>1. PICK d : d = docs'
    OBVIOUS
  <2>2. c = [at |-> "out", state |-> i, doc |-> d, update |-> up, aborting |-> FALSE]
    BY <2>1, <1>3 DEF NoCall
  <2>3. d \in Documents /\ d # 0 /\ "out" \in Where
    BY <2>1, <1>7 DEF Documents, Where
  <2> QED
    BY <2>1, <2>2, <2>3, <1>6 DEF CallType
<1>9. /\ threadBindings' \in [Thread -> {0} \cup State]
      /\ \A u \in Thread : threadBindings'[u] \in {0} \cup DOMAIN s
  <2>1. PICK n \in Nat : n = Len(threadStates) /\ DOMAIN threadStates = 1..n
    BY States DEF IInv
  <2>2. threadBindings \in [Thread -> {0} \cup State] /\ \A u \in Thread : threadBindings[u] \in {0} \cup 1..n
    BY <2>1 DEF IInv, CallsOK
  <2>3. 1..n \subseteq 1..m /\ DOMAIN s = 1..m
    BY <2>1, <1>5
  <2> QED
    BY <2>2, <2>3, <1>2, <1>4, <1>6
<1>10. CASE Blocked(s, i)
  <2>1. GoWith(t, c, "wait") /\ asleep' = asleep \cup {t} /\ threadStates' = s
    BY <1>4, <1>10 DEF Sleep
  <2>2. Moved(t, c, "wait")
    <3>1. CallsOK /\ "wait" \in Where
      BY DEF IInv, Where
    <3> QED
      BY <3>1, <2>1, <1>8, Going
  <2>3. UNCHANGED <<nextDocID, numDocsInRAM, nextWriteDocID, line, pauseThreads, flushPending, bufferIsFull,
                    abortCount, closed, monitor, writerLock, ram, stored, deleteNum, numDeleteTerms,
                    deleteDocIDs, fresh, flushDeletes, applied, index, faults, failed, overtaken>>
    BY <1>1, <1>4, <1>10 DEF ids, flags, locks, buffered, deleted, flushed
  <2>4. Waits(t, c, s)
    BY <1>1, <1>2, <1>4, <1>8, <1>9, <2>1, <2>2, <2>3 DEF Waits
  <2> QED
    BY <2>4
<1>11. CASE ~Blocked(s, i)
  <2>1. Start(t, c, s) /\ GoWith(t, c, "process")
    BY <1>4, <1>11 DEF Start
  <2>2. Waiters' = Waiters
    <3>1. Moved(t, c, "process")
      <4>1. CallsOK /\ "process" \in Where
        BY DEF IInv, Where
      <4> QED
        BY <4>1, <2>1, <1>8, Going
    <3> QED
      BY <3>1, <1>1 DEF Waiters, At, Moved
  <2>3. nextDocID + 1 + Cardinality(Waiters') <= docs'
    <3>1. PICK k : k = Cardinality(Waiters)
      OBVIOUS
    <3>2. k \in Nat /\ nextDocID \in Nat /\ nextDocID + k <= docs
      BY <3>1, Counted DEF Waiters, IInv, CountsOK, StoredOK
    <3> QED
      BY <3>1, <3>2, <2>2, <1>1, <1>7
  <2>4. /\ c.doc \notin Range(ram) \cup index \cup failed
        /\ \A u \in Thread \ {t} : call[u].doc # c.doc
    BY <1>1, <1>8, FreshDoc
  <2>5. docs <= docs' /\ c.doc <= docs'
    BY <1>1, <1>7, <1>8
  <2>6. Takes(t, c, s)
    BY <1>1, <1>2, <1>4, <1>7, <1>8, <1>9, <1>11, <2>1, <2>3, <2>4, <2>5 DEF Takes
  <2> QED
    BY <2>6
<1> QED
  BY <1>10, <1>11

LEMMA EnterKeeps ==
  ASSUME IInv, NEW t \in Thread, NEW up \in BOOLEAN, Enter(t, up)
  PROVE  IInv'
PROOF
  BY Entering, StartKeeps, WaitsKeeps

-----------------------------------------------------------------------------
(* Buffers that are flushed, or given up.                                  *)

LEMMA ResetTo ==
  ASSUME NEW m \in Nat, m <= MaxThreadState, NEW s \in [1..m -> StateType], \A j \in 1..m : s[j].isIdle,
         Reset(s), line' = {}
  PROVE  /\ StatesOK' /\ InTurn' /\ AllThreadsIdle' /\ DOMAIN threadStates' = 1..m
         /\ \A j \in DOMAIN threadStates' : threadStates'[j].numThreads = Cardinality(Binders(j)')
         /\ threadBindings' \in [Thread -> {0} \cup State]
         /\ \A u \in Thread : threadBindings'[u] \in {0} \cup DOMAIN threadStates'
         /\ nextDocID' = 0 /\ numDocsInRAM' = 0 /\ nextWriteDocID' = 0
         /\ bufferIsFull' = FALSE /\ flushPending' = FALSE
PROOF
<1>1. /\ threadBindings' = [u \in Thread |-> 0]
      /\ nextDocID' = 0 /\ numDocsInRAM' = 0 /\ nextWriteDocID' = 0
      /\ bufferIsFull' = FALSE /\ flushPending' = FALSE
      /\ threadStates' = [j \in 1..m |-> [s[j] EXCEPT !.numThreads = 0, !.doFlushAfter = FALSE]]
  BY DEF Reset
<1>2. Cardinality(Thread) \in Nat
  <2>1. Thread \in SUBSET Thread
    OBVIOUS
  <2> QED
    BY <2>1, Counted
<1>3. \A j \in 1..m : threadStates'[j] \in StateType /\ threadStates'[j].isIdle /\ threadStates'[j].numThreads = 0
  <2> SUFFICES ASSUME NEW j \in 1..m
               PROVE  threadStates'[j] \in StateType /\ threadStates'[j].isIdle /\ threadStates'[j].numThreads = 0
    OBVIOUS
  <2>1. s[j] \in StateType /\ s[j].isIdle
    OBVIOUS
  <2>2. PICK e : e = [s[j] EXCEPT !.numThreads = 0, !.doFlushAfter = FALSE]
    OBVIOUS
  <2>3. threadStates'[j] = e
    BY <2>2, <1>1
  <2>4. 0 \in 0..Cardinality(Thread)
    BY <1>2
  <2>5. e \in StateType /\ e.isIdle /\ e.numThreads = 0
    BY <2>1, <2>2, <2>4 DEF StateType
  <2> QED
    BY <2>3, <2>5
<1>4. DOMAIN threadStates' = 1..m /\ threadStates' = [j \in 1..m |-> threadStates'[j]]
  BY <1>1
<1>5. StatesOK'
  <2>1. threadStates' \in [1..m -> StateType] /\ line' \subseteq 1..m
    BY <1>3, <1>4
  <2> QED
    BY <2>1, Restated
<1>6. \A j \in DOMAIN threadStates' : IsIdle(j)'
  BY <1>3, <1>4 DEF IsIdle
<1>7. AllThreadsIdle'
  BY <1>6 DEF AllThreadsIdle, IsIdle
<1>8. InTurn'
  <2>1. (\A k \in nextWriteDocID..(nextDocID - 1) :
           \E i \in DOMAIN threadStates : ~IsIdle(i) /\ threadStates[i].docID = k)'
    <3> SUFFICES ASSUME NEW k \in nextWriteDocID'..(nextDocID' - 1)
                 PROVE  FALSE
      OBVIOUS
    <3>1. k \in 0..(0 - 1)
      BY <1>1
    <3> QED
      BY <3>1
  <2> QED
    BY <2>1, <1>6 DEF InTurn
<1>9. \A j \in 1..m : Cardinality(Binders(j)') = 0
  <2> SUFFICES ASSUME NEW j \in 1..m
               PROVE  Cardinality(Binders(j)') = 0
    OBVIOUS
  <2>1. \A u \in Thread : threadBindings'[u] # j
    <3>1. j # 0
      OBVIOUS
    <3>2. \A u \in Thread : threadBindings'[u] = 0
      BY <1>1
    <3> QED
      BY <3>1, <3>2
  <2>2. Binders(j)' = {}
    BY <2>1 DEF Binders
  <2> QED
    BY <2>2, FS_EmptySet
<1>10. /\ threadBindings' \in [Thread -> {0} \cup State]
       /\ \A u \in Thread : threadBindings'[u] \in {0} \cup DOMAIN threadStates'
  BY <1>1
<1> QED
  BY <1>1, <1>3, <1>4, <1>5, <1>7, <1>8, <1>9, <1>10

\* No document is in RAM, and every thread state is idle.
Empty ==
    /\ ram = <<>> /\ stored = <<>> /\ line = {}
    /\ nextDocID = 0 /\ numDocsInRAM = 0 /\ nextWriteDocID = 0
    /\ AllThreadsIdle /\ InTurn /\ \A u \in Thread : ~Working(u)

LEMMA EmptyIsFine ==
  ASSUME Empty'
  PROVE  StoredOK' /\ WorkOK' /\ FlushOK' /\ ClosedOK'
PROOF
<1>1. StoredOK'
  BY BoundsAssumption DEF Empty, StoredOK
<1>2. WorkOK'
  BY DEF Empty, WorkOK, AllThreadsIdle
<1>3. Kept' = {}
  BY DEF Empty, Kept
<1>4. FlushOK'
  <2>1. Cardinality({}) = 0
    BY FS_EmptySet
  <2> QED
    BY <2>1, <1>3, SizesAssumption DEF FlushOK
<1>5. ClosedOK'
  BY DEF Empty, ClosedOK
<1> QED
  BY <1>1, <1>2, <1>4, <1>5

\* t, which paused the others, goes on with the flush.
FlushMoves(t, where) ==
    /\ monitor = NoOne /\ Moved(t, call[t], where)
    /\ call[t].at \in {"paused", "write", "apply", "clear"}
    /\ where \in {"write", "apply", "clear", "resume"}
    /\ AllThreadsIdle' /\ DOMAIN threadStates' = DOMAIN threadStates
    /\ \A j \in DOMAIN threadStates' : threadStates'[j].numThreads = Cardinality(Binders(j)')
    /\ threadBindings' \in [Thread -> {0} \cup State]
    /\ \A u \in Thread : threadBindings'[u] \in {0} \cup DOMAIN threadStates'
    /\ nextDocID' \in {0, nextDocID}
    /\ where = "write" \/ ram' = <<>>
    /\ fresh' = <<>> \/ where \in {"apply", "clear"}
    /\ asleep' \subseteq Thread
    /\ UNCHANGED <<pauseThreads, abortCount, closed, monitor, writerLock, docs, failed, overtaken>>

LEMMA FlushMoved ==
  ASSUME IInv, NEW t \in Thread, NEW where, FlushMoves(t, where)
  PROVE  /\ CallsOK' /\ CountsOK' /\ LocksOK'
         /\ call'[t].at = where /\ \A u \in Thread \ {t} : call'[u] = call[u]
PROOF
<1>1. /\ call'[t].at = where /\ ~call'[t].aborting /\ ~call[t].aborting
      /\ \A u \in Thread \ {t} : call'[u] = call[u]
      /\ call[t].at \in {"paused", "write", "apply", "clear"}
      /\ where \in {"write", "apply", "clear", "resume"}
  BY DEF FlushMoves, Moved, IInv, CallsOK
<1>2. UNCHANGED <<pauseThreads, abortCount, closed, monitor, writerLock, docs, failed, overtaken>>
      /\ monitor = NoOne
  BY DEF FlushMoves
<1>3. abortCount = 0 /\ writerLock = t
  BY <1>1 DEF IInv, LocksOK, Flushing
<1>4. CallsOK'
  <2>1. /\ DOMAIN threadStates \subseteq DOMAIN threadStates' /\ Moved(t, call[t], where) /\ CallsOK
        /\ where \in {"unwind", "failed", "abort", "stuck", "out", "flush", "cleanup"} \/ ~call[t].aborting
        /\ where \in {"wait", "process", "unwind", "finished", "failed"} =>
             call[t].state \in DOMAIN threadStates' /\ call[t].doc # 0
        /\ threadBindings' \in [Thread -> {0} \cup State]
        /\ \A u \in Thread : threadBindings'[u] \in {0} \cup DOMAIN threadStates'
    BY <1>1 DEF FlushMoves, IInv
  <2> QED
    BY <2>1, CallsKept
<1>5. CountsOK'
  <2>1. \A u \in Thread : /\ call'[u].aborting <=> call[u].aborting
                          /\ (Flushing(u) \/ At(u, "stuck"))' <=> Flushing(u) \/ At(u, "stuck")
                          /\ At(u, "wait")' <=> At(u, "wait")
    BY <1>1 DEF Flushing, At
  <2>2. Aborters' = Aborters
    BY <2>1 DEF Aborters
  <2>3. Pausers' = Pausers
    BY <2>1 DEF Pausers
  <2>4. Waiters' = Waiters
    BY <2>1 DEF Waiters
  <2>5. abortCount' = Cardinality(Aborters') /\ pauseThreads' = Cardinality(Pausers')
    BY <2>2, <2>3, <1>2 DEF IInv, CountsOK
  <2>6. docs' \in Nat /\ docs' <= MaxDocs /\ nextDocID' + Cardinality(Waiters') <= docs'
    <3>1. PICK k : k = Cardinality(Waiters)
      OBVIOUS
    <3>2. k \in Nat /\ nextDocID \in Nat /\ nextDocID + k <= docs /\ docs \in Nat /\ docs <= MaxDocs
      BY <3>1, Counted DEF Waiters, IInv, CountsOK, StoredOK
    <3>3. nextDocID' \in {0, nextDocID}
      BY DEF FlushMoves
    <3> QED
      BY <3>1, <3>2, <3>3, <2>4, <1>2
  <2> QED
    BY <2>5, <2>6 DEF CountsOK, FlushMoves
<1>6. LocksOK'
  <2>1. ASSUME NEW u \in Thread
        PROVE  /\ At(u, "stuck")' <=> monitor' = u
               /\ Flushing(u)' \/ (At(u, "abort")' /\ ~call'[u].aborting) => writerLock' = u
    <3>1. CASE u = t
      BY <3>1, <1>1, <1>2, <1>3, NoOneAssumption DEF At, Flushing
    <3>2. CASE u # t
      <4>1. call'[u] = call[u]
        BY <3>2, <1>1
      <4> QED
        BY <4>1, <1>2 DEF At, Flushing, IInv, LocksOK
    <3> QED
      BY <3>1, <3>2
  <2>2. abortCount' = 0 /\ AllThreadsIdle'
    BY <1>2, <1>3 DEF FlushMoves
  <2>3. \A u \in Thread : call'[u].at \in {"apply", "clear", "resume"} => ram' = <<>>
    <3>1. \A u \in Thread \ {t} : call'[u].at \notin {"apply", "clear", "resume"}
      BY <1>1, <1>3 DEF IInv, LocksOK, Flushing
    <3> QED
      BY <3>1, <1>1 DEF FlushMoves
  <2>4. fresh' # <<>> => \E u \in Thread : At(u, "apply")' \/ At(u, "clear")'
    BY <1>1 DEF At, FlushMoves
  <2>5. asleep' \subseteq Thread /\ monitor' = NoOne /\ writerLock' \in Thread \cup {NoOne}
    BY <1>2, <1>3 DEF FlushMoves
  <2> QED
    BY <2>1, <2>2, <2>3, <2>4, <2>5 DEF LocksOK
<1> QED
  BY <1>1, <1>4, <1>5, <1>6

\* Where documents are while t flushes.
LEMMA FlushDocs ==
  ASSUME IInv, NEW t \in Thread, NEW where, Moved(t, call[t], where),
         where \in {"write", "apply", "clear", "resume"},
         UNCHANGED <<docs, failed, overtaken>>,
         Range(ram') \cup Range(fresh') \cup index' \subseteq Range(ram) \cup Range(fresh) \cup index,
         ram' \in {<<>>, ram}, fresh' \in {<<>>, ram, fresh},
         (Range(ram') \cup Range(fresh')) \cap index' = {},
         applied' \subseteq Documents, \A u \in Thread \ {t} : call[u].at # "clear",
         where = "clear" => applied' \subseteq index' \cup Range(fresh')
  PROVE  DocsOK'
PROOF
<1>1. /\ call'[t].at = where /\ call'[t].doc \in {0, call[t].doc}
      /\ \A u \in Thread \ {t} : call'[u] = call[u]
  BY DEF Moved
<1>2. DocsOK /\ ram \in Seq(Documents)
  BY DEF IInv, StoredOK
<1>3. \A u \in Thread : call'[u].doc <= docs
  <2>1. 0 <= docs
    BY DEF IInv, CountsOK
  <2> QED
    BY <2>1, <1>1, <1>2 DEF DocsOK
<1>4. \A u, v \in Thread : u # v /\ call'[u].doc = call'[v].doc => call'[u].doc = 0
  BY <1>1, <1>2 DEF DocsOK
<1>5. \A u \in Thread : /\ call'[u].at = "wait" => call[u].at = "wait" /\ call'[u] = call[u]
                        /\ call'[u].at \in {"process", "unwind", "failed"} =>
                             call[u].at \in {"process", "unwind", "failed"} /\ call'[u] = call[u]
  BY <1>1
<1>6. \A u \in Thread : call'[u].at = "wait" =>
        call'[u].doc \notin Range(ram') \cup Range(fresh') \cup index' \cup failed
  BY <1>2, <1>5 DEF DocsOK, At
<1>7. \A u \in Thread : call'[u].at \in {"process", "unwind", "failed"} => call'[u].doc \notin failed
  BY <1>2, <1>5 DEF DocsOK
<1>8. \A d \in Range(ram') \cup Range(fresh') \cup index' \cup failed : d <= docs
  BY <1>2 DEF DocsOK
<1>9. Range(ram) \cup Range(fresh) \cup index \subseteq Documents
  BY <1>2 DEF DocsOK, Range
<1>10. /\ fresh' \in Seq(Documents) /\ index' \subseteq Documents
       /\ failed' \subseteq Documents /\ overtaken' \subseteq failed'
  <2>1. <<>> \in Seq(Documents) /\ fresh \in Seq(Documents)
    BY <1>2 DEF DocsOK
  <2>2. fresh' \in Seq(Documents)
    BY <2>1, <1>2
  <2> QED
    BY <2>2, <1>2, <1>9 DEF DocsOK
<1>11. /\ \A j, k \in DOMAIN ram' : ram'[j] = ram'[k] => j = k
       /\ \A j, k \in DOMAIN fresh' : fresh'[j] = fresh'[k] => j = k
  BY <1>2 DEF DocsOK
<1>12. \A u \in Thread : call'[u].at = "clear" => applied' \subseteq index' \cup Range(fresh')
  BY <1>1
<1> QED
  BY <1>3, <1>4, <1>6, <1>7, <1>8, <1>10, <1>11, <1>12 DEF DocsOK, At

\* What it found in RAM is not there any more.
Flushes(t, where) ==
    /\ FlushMoves(t, where) /\ where # "write"
    /\ Empty' /\ StatesOK' /\ faults' \in Nat
    /\ {flushPending', bufferIsFull', flushDeletes'} \subseteq BOOLEAN

LEMMA FlushesKeeps ==
  ASSUME IInv, NEW t \in Thread, NEW where, Flushes(t, where), DocsOK', DeletesOK'
  PROVE  IInv'
PROOF
<1>1. CallsOK' /\ CountsOK' /\ LocksOK'
  BY FlushMoved DEF Flushes
<1>2. StoredOK' /\ WorkOK' /\ FlushOK' /\ ClosedOK'
  BY EmptyIsFine DEF Flushes
<1>3. RestOK' /\ StatesOK'
  BY DEF Flushes, FlushMoves, IInv, RestOK
<1> QED
  BY <1>1, <1>2, <1>3 DEF IInv

\* Who has paused the others is alone at it, and finds all idle.
LEMMA FlusherAlone ==
  ASSUME IInv, NEW t \in Thread, call[t].at \in {"paused", "write", "apply", "clear"}
  PROVE  /\ abortCount = 0 /\ AllThreadsIdle /\ line = {}
         /\ \A u \in Thread : ~Working(u) /\ (u # t => ~Flushing(u))
         /\ fresh # <<>> => call[t].at \in {"apply", "clear"}
         /\ nextDocID = Len(ram) /\ numDocsInRAM = nextDocID /\ nextDocID \in Nat
         /\ ram = <<>> => stored = <<>> /\ nextWriteDocID = 0
PROOF
<1>1. abortCount = 0 /\ AllThreadsIdle /\ writerLock = t
  BY DEF IInv, LocksOK, Flushing
<1>2. \A u \in Thread : u # t => ~Flushing(u)
  BY <1>1 DEF IInv, LocksOK
<1>3. \A u \in Thread : ~Working(u)
  BY <1>1 DEF IInv, WorkOK, CallsOK, AllThreadsIdle, Working, Mine
<1>4. line = {}
  BY <1>1 DEF IInv, WorkOK, StatesOK, AllThreadsIdle
<1>5. fresh # <<>> => call[t].at \in {"apply", "clear"}
  <2> SUFFICES ASSUME fresh # <<>>
               PROVE  call[t].at \in {"apply", "clear"}
    OBVIOUS
  <2>1. PICK u \in Thread : At(u, "apply") \/ At(u, "clear")
    BY DEF IInv, LocksOK
  <2>2. Flushing(u)
    BY <2>1 DEF Flushing, At
  <2> QED
    BY <2>1, <2>2, <1>2 DEF At
<1>6. nextDocID = Len(ram) /\ numDocsInRAM = nextDocID /\ nextDocID \in Nat
  BY DEF IInv, StoredOK
<1>7. ram = <<>> => stored = <<>> /\ nextWriteDocID = 0
  <2> SUFFICES ASSUME ram = <<>>
               PROVE  stored = <<>> /\ nextWriteDocID = 0
    OBVIOUS
  <2>1. /\ nextWriteDocID = Len(stored) /\ nextWriteDocID <= nextDocID /\ stored \in Seq(Documents)
        /\ nextWriteDocID \in 0..MaxDocs
    BY <1>1 DEF IInv, StoredOK
  <2>2. nextDocID = 0
    BY <1>6
  <2>3. nextWriteDocID = 0
    BY <2>1, <2>2, BoundsAssumption
  <2> QED
    BY <2>1, <2>3, EmptySeq
<1> QED
  BY <1>1, <1>2, <1>3, <1>4, <1>5, <1>6, <1>7

LEMMA FlushesThen ==
  ASSUME IInv, NEW t \in Thread, NEW where, monitor = NoOne, monitor' = NoOne, line' = {},
         call[t].at \in {"write", "apply", "clear"}, where \in {"apply", "clear", "resume"}, Goto(t, where),
         ram' = <<>>, stored' = <<>>,
         \/ Reset(threadStates)
         \/ /\ ram = <<>>
            /\ UNCHANGED <<threadBindings, threadStates, nextDocID, numDocsInRAM, nextWriteDocID,
                           flags>>,
         fresh' = <<>> \/ where \in {"apply", "clear"}, asleep' = asleep \/ asleep' = {}, faults' \in Nat, flushDeletes' \in BOOLEAN,
         UNCHANGED <<pauseThreads, abortCount, closed, writerLock, docs, failed, overtaken>>
  PROVE  Flushes(t, where)
PROOF
<1>1. Moved(t, call[t], where)
  <2>1. CallsOK /\ where \in Where
    BY DEF IInv, Where
  <2> QED
    BY <2>1, Going1
<1>2. PICK n \in Nat : /\ n = Len(threadStates) /\ n <= MaxThreadState
                       /\ DOMAIN threadStates = 1..n /\ threadStates \in [1..n -> StateType]
  BY States DEF IInv
<1>3. AllThreadsIdle /\ line = {} /\ \A u \in Thread : ~Working(u)
  BY FlusherAlone
<1>4. \A u \in Thread : ~Working(u)'
  BY <1>1, <1>3 DEF Moved, Working
<1>5. /\ StatesOK' /\ InTurn' /\ AllThreadsIdle' /\ DOMAIN threadStates' = DOMAIN threadStates
      /\ \A j \in DOMAIN threadStates' : threadStates'[j].numThreads = Cardinality(Binders(j)')
      /\ threadBindings' \in [Thread -> {0} \cup State]
      /\ \A u \in Thread : threadBindings'[u] \in {0} \cup DOMAIN threadStates'
      /\ nextDocID' = 0 /\ numDocsInRAM' = 0 /\ nextWriteDocID' = 0
      /\ {flushPending', bufferIsFull'} \subseteq BOOLEAN
  <2>1. CASE Reset(threadStates)
    <3>1. \A j \in 1..n : threadStates[j].isIdle
      BY <1>2, <1>3 DEF AllThreadsIdle, IsIdle
    <3> QED
      BY <2>1, <3>1, <1>2, ResetTo
  <2>2. CASE ram = <<>> /\ UNCHANGED <<threadBindings, threadStates, nextDocID, numDocsInRAM, nextWriteDocID, flags>>
    <3>1. /\ StatesOK /\ CallsOK /\ CountsOK /\ abortCount = 0 /\ StoredOK
      BY FlusherAlone DEF IInv
    <3>2. InTurn
      BY <3>1 DEF StoredOK
    <3>3. InTurn'
      <4>1. UNCHANGED <<threadStates, nextDocID, nextWriteDocID, line>>
        BY <2>2, <1>3
      <4> QED
        BY <4>1, <3>2, InTurnKept
    <3>4. nextDocID = 0 /\ numDocsInRAM = 0 /\ nextWriteDocID = 0
      BY <2>2, FlusherAlone
    <3>5. StatesOK' /\ AllThreadsIdle'
      BY <3>1, <2>2, <1>3 DEF StatesOK, AllThreadsIdle, IsIdle
    <3>6. \A j \in DOMAIN threadStates' : threadStates'[j].numThreads = Cardinality(Binders(j)')
      BY <3>1, <2>2 DEF CountsOK, Binders
    <3>7. /\ threadBindings' \in [Thread -> {0} \cup State]
          /\ \A u \in Thread : threadBindings'[u] \in {0} \cup DOMAIN threadStates'
      BY <3>1, <2>2 DEF CallsOK
    <3>8. {flushPending', bufferIsFull'} \subseteq BOOLEAN
      BY <2>2 DEF flags, IInv, RestOK
    <3> QED
      BY <3>3, <3>4, <3>5, <3>6, <3>7, <3>8, <2>2
  <2> QED
    BY <2>1, <2>2
<1>6. Empty'
  BY <1>4, <1>5 DEF Empty
<1>7. asleep' \subseteq Thread
  BY DEF IInv, LocksOK
<1>8. FlushMoves(t, where)
  <2>1. nextDocID' = 0
    BY <1>6 DEF Empty
  <2> QED
    BY <2>1, <1>1, <1>5, <1>7 DEF FlushMoves
<1> QED
  BY <1>5, <1>6, <1>8 DEF Flushes

\* The thread that asks for deletes knows what there are until it is at the
\* next step.
LEMMA AskDeletesKeeps ==
  ASSUME IInv, NEW t \in Thread, AskDeletes(t)
  PROVE  IInv'
PROOF
<1>1. /\ monitor = NoOne /\ call[t].at = "paused" /\ flushDeletes' = HasDeletes
      /\ UNCHANGED <<threadStates, threadBindings, nextDocID, numDocsInRAM, nextWriteDocID, line, pauseThreads,
                     flushPending, bufferIsFull, abortCount, closed, monitor, writerLock, asleep>>
      /\ UNCHANGED <<ram, stored, deleteNum, numDeleteTerms, deleteDocIDs, fresh, applied, index, docs, failed,
                     overtaken, faults>>
  BY DEF AskDeletes, Runs, At, ids, flags, locks, buffered, deleted, bounds
<1>2. PICK where : where = IF numDocsInRAM > 0 THEN "write" ELSE IF HasDeletes THEN "apply" ELSE "resume"
  OBVIOUS
<1>3. /\ where \in {"write", "apply", "resume"} /\ where \in Where
      /\ where = "apply" => HasDeletes
  BY <1>2 DEF Where
<1>4. Moved(t, call[t], where)
  <2>1. CallsOK /\ Goto(t, where)
    BY <1>2 DEF AskDeletes, IInv
  <2> QED
    BY <2>1, <1>3, Going1
<1>5. /\ AllThreadsIdle /\ fresh = <<>> /\ nextDocID = Len(ram) /\ numDocsInRAM = nextDocID /\ nextDocID \in Nat
      /\ \A u \in Thread : ~Working(u) /\ (u # t => ~Flushing(u))
  BY <1>1, FlusherAlone
<1>6. where = "write" \/ ram = <<>>
  <2>1. ram \in Seq(Documents)
    BY DEF IInv, StoredOK
  <2>2. where # "write" => Len(ram) = 0
    BY <1>2, <1>5
  <2> QED
    BY <2>1, <2>2, EmptySeq
<1>7. AllThreadsIdle'
  BY <1>1, <1>5 DEF AllThreadsIdle, IsIdle
<1>8. /\ \A j \in DOMAIN threadStates' : threadStates'[j].numThreads = Cardinality(Binders(j)')
      /\ threadBindings' \in [Thread -> {0} \cup State]
      /\ \A u \in Thread : threadBindings'[u] \in {0} \cup DOMAIN threadStates'
  BY <1>1 DEF IInv, CountsOK, CallsOK, Binders
<1>9. FlushMoves(t, where)
  <2>1. asleep' \subseteq Thread
    BY <1>1 DEF IInv, LocksOK
  <2> QED
    BY <2>1, <1>1, <1>3, <1>4, <1>5, <1>6, <1>7, <1>8 DEF FlushMoves
<1>10. /\ CallsOK' /\ CountsOK' /\ LocksOK'
       /\ call'[t].at = where /\ \A u \in Thread \ {t} : call'[u] = call[u]
  BY <1>9, FlushMoved
<1>11. \A u \in Thread : ~Working(u)'
  BY <1>3, <1>5, <1>10 DEF Working
<1>12. StatesOK' /\ WorkOK'
  <2>1. StatesOK' /\ line' = {}
    BY <1>1, FlusherAlone DEF IInv, StatesOK
  <2> QED
    BY <2>1, <1>7, <1>11 DEF WorkOK, AllThreadsIdle
<1>13. StoredOK'
  <2>1. InTurn => InTurn'
    BY <1>1, InTurnKept
  <2> QED
    BY <2>1, <1>1 DEF IInv, StoredOK
<1>14. DocsOK'
  <2>1. (Range(ram) \cup Range(fresh)) \cap index = {} /\ applied \subseteq Documents
    BY DEF IInv, DocsOK
  <2>2. \A u \in Thread \ {t} : call[u].at # "clear"
    BY <1>5 DEF Flushing
  <2>3. where \in {"write", "apply", "clear", "resume"} /\ where # "clear"
    BY <1>3
  <2> QED
    BY <2>1, <2>2, <2>3, <1>1, <1>4, FlushDocs
<1>15. DeletesOK'
  <2>1. Segment' = Segment /\ DeletesOK
    BY <1>1 DEF Segment, IInv
  <2>2. \A u \in Thread : ~At(u, "write")
    BY <1>1, <1>5 DEF At, Flushing
  <2>3. TakenAsLive' => deleteDocIDs = {}
    BY <1>1 DEF TakenAsLive, HasDeletes
  <2>4. \A k \in DOMAIN ram : ram[k] \in failed => k - 1 \in deleteDocIDs \/ ram[k] \in overtaken
    BY <2>1 DEF DeletesOK
  <2>5. (\A k \in DOMAIN ram :
           ram[k] \in failed => (~TakenAsLive /\ k - 1 \in deleteDocIDs) \/ ram[k] \in overtaken)'
    BY <2>3, <2>4, <1>1
  <2>6. DOMAIN fresh' = {}
    BY <1>1, <1>5
  <2>7. (\A u \in Thread : call[u].at \in {"write", "apply"} /\ ~flushDeletes =>
           deleteNum = None /\ (overtaken = {} => deleteDocIDs = {}))'
    BY <1>1 DEF HasDeletes
  <2>8. \A u \in Thread : ~At(u, "clear")'
    BY <1>3, <1>5, <1>10 DEF At, Flushing
  <2>9. AllOrNone'
    BY <2>1, <1>1 DEF DeletesOK, AllOrNone
  <2> QED
    BY <2>1, <2>5, <2>6, <2>7, <2>8, <2>9, <1>1 DEF DeletesOK
<1>16. FlushOK'
  <2>1. Kept' = Kept
    BY <1>1 DEF Kept
  <2> QED
    BY <2>1, <1>1 DEF IInv, FlushOK
<1>17. ClosedOK'
  BY <1>1, <1>6, <1>10 DEF ClosedOK
<1>18. RestOK'
  BY <1>1 DEF IInv, RestOK, HasDeletes
<1> QED
  BY <1>10, <1>12, <1>13, <1>14, <1>15, <1>16, <1>17, <1>18 DEF IInv

LEMMA FlushSegmentKeeps ==
  ASSUME IInv, NEW t \in Thread, FlushSegment(t)
  PROVE  IInv'
PROOF
<1>1. /\ monitor = NoOne /\ call[t].at = "write" /\ Goto(t, "apply")
      /\ fresh' = ram /\ ram' = <<>> /\ stored' = <<>> /\ Reset(threadStates)
      /\ UNCHANGED <<line, pauseThreads, abortCount, closed, monitor, writerLock, asleep, deleteNum,
                     numDeleteTerms, deleteDocIDs, flushDeletes, applied, index, docs, failed, overtaken, faults>>
  BY DEF FlushSegment, Runs, At, locks, deleted, bounds
<1>2. /\ line = {} /\ fresh = <<>> /\ \A u \in Thread : u # t => ~Flushing(u)
  BY <1>1, FlusherAlone
<1>3. DocsOK /\ DeletesOK
  BY DEF IInv
<1>4. Flushes(t, "apply")
  <2>1. monitor' = NoOne /\ line' = {} /\ flushDeletes' \in BOOLEAN /\ faults' \in Nat /\ asleep' = asleep
    BY <1>1, <1>2 DEF IInv, RestOK
  <2>2. UNCHANGED <<pauseThreads, abortCount, closed, writerLock, docs, failed, overtaken>>
    BY <1>1
  <2> QED
    BY <2>1, <2>2, <1>1, FlushesThen
<1>5. /\ Moved(t, call[t], "apply")
      /\ call'[t].at = "apply" /\ \A u \in Thread \ {t} : call'[u] = call[u]
  BY <1>4 DEF Flushes, FlushMoves, Moved
<1>6. DocsOK'
  <2>1. /\ Range(ram') = {} /\ Range(fresh') = Range(ram) /\ Range(fresh) = {}
        /\ (Range(ram) \cup Range(fresh)) \cap index = {} /\ applied \subseteq Documents
    BY <1>1, <1>2, <1>3 DEF Range, DocsOK
  <2>2. \A u \in Thread \ {t} : call[u].at # "clear"
    BY <1>2 DEF Flushing
  <2>3. UNCHANGED <<docs, failed, overtaken, index, applied>>
    BY <1>1
  <2>4. Range(ram') \cup Range(fresh') \cup index' \subseteq Range(ram) \cup Range(fresh) \cup index
    BY <2>1, <2>3
  <2>5. (Range(ram') \cup Range(fresh')) \cap index' = {}
    BY <2>1, <2>3
  <2>6. "apply" \in {"write", "apply", "clear", "resume"} /\ "apply" # "clear"
        /\ ram' \in {<<>>, ram} /\ fresh' \in {<<>>, ram, fresh}
    BY <1>1
  <2> QED
    BY <2>1, <2>2, <2>3, <2>4, <2>5, <2>6, <1>5, FlushDocs
<1>7. DeletesOK'
  <2>1. Segment = ram /\ Segment' = ram
    BY <1>1, <1>2 DEF Segment
  <2>2. ~flushDeletes => TakenAsLive
    BY <1>1 DEF TakenAsLive, At
  <2>3. (\A k \in DOMAIN fresh :
           fresh[k] \in failed => (flushDeletes /\ k - 1 \in deleteDocIDs) \/ fresh[k] \in overtaken)'
    BY <2>2, <1>1, <1>3 DEF DeletesOK
  <2>4. (\A u \in Thread : call[u].at \in {"write", "apply"} /\ ~flushDeletes =>
           deleteNum = None /\ (overtaken = {} => deleteDocIDs = {}))'
    BY <1>1, <1>3 DEF DeletesOK
  <2>5. AllOrNone'
    BY <1>1, <1>3 DEF DeletesOK, AllOrNone
  <2>6. \A u \in Thread : ~At(u, "clear")'
    BY <1>2, <1>5 DEF At, Flushing
  <2>7. DOMAIN ram' = {}
    BY <1>1
  <2> QED
    BY <2>1, <2>3, <2>4, <2>5, <2>6, <2>7, <1>1, <1>3 DEF DeletesOK
<1> QED
  BY <1>4, <1>6, <1>7, FlushesKeeps

\* Nothing is buffered, and nobody is at a step that rests on what was.
LEMMA NothingBuffered ==
  ASSUME IInv, NEW t \in Thread, \A u \in Thread : u # t => ~Flushing(u),
         call'[t].at = "resume", \A u \in Thread \ {t} : call'[u] = call[u],
         ram' = <<>>, fresh' = <<>>, deleteNum' = None, numDeleteTerms' \in Nat, deleteDocIDs' \subseteq DocID,
         overtaken' = {} => deleteDocIDs' = {}, AllOrNone'
  PROVE  DeletesOK'
PROOF
<1>1. Segment' = <<>> /\ Len(Segment') = 0
  BY DEF Segment
<1>2. \A u \in Thread : call'[u].at \notin {"write", "apply", "clear"}
  BY DEF Flushing
<1>3. deleteNum' \in {None} \cup Nat /\ deleteNum' <= Len(Segment')
  BY <1>1 DEF None
<1>4. DOMAIN ram' = {} /\ DOMAIN fresh' = {}
  OBVIOUS
<1> QED
  BY <1>2, <1>3, <1>4 DEF DeletesOK, At

LEMMA FlushFailsKeeps ==
  ASSUME IInv, NEW t \in Thread, FlushFails(t)
  PROVE  IInv'
PROOF
<1>1. /\ monitor = NoOne /\ call[t].at = "write" /\ faults' = faults + 1 /\ Goto(t, "resume")
      /\ ram' = <<>> /\ stored' = <<>> /\ line' = {} /\ asleep' = {} /\ Reset(threadStates)
      /\ deleteNum' = None /\ numDeleteTerms' = 0 /\ deleteDocIDs' = {} /\ flushDeletes' = FALSE
      /\ UNCHANGED <<pauseThreads, abortCount, closed, monitor, writerLock, fresh, applied, index, docs,
                     failed, overtaken>>
  BY DEF FlushFails, Runs, At, locks, GiveUp, ClearDeletes, NotifyAll
<1>2. fresh = <<>> /\ \A u \in Thread : u # t => ~Flushing(u)
  BY <1>1, FlusherAlone
<1>3. Flushes(t, "resume")
  <2>1. monitor' = NoOne /\ flushDeletes' \in BOOLEAN /\ fresh' = <<>> /\ asleep' = {}
    BY <1>1, <1>2
  <2>3. faults' \in Nat
    BY <1>1 DEF IInv, RestOK
  <2>2. UNCHANGED <<pauseThreads, abortCount, closed, writerLock, docs, failed, overtaken>>
    BY <1>1
  <2> QED
    BY <2>1, <2>2, <2>3, <1>1, FlushesThen
<1>4. /\ Moved(t, call[t], "resume")
      /\ call'[t].at = "resume" /\ \A u \in Thread \ {t} : call'[u] = call[u]
  BY <1>3 DEF Flushes, FlushMoves, Moved
<1>5. DocsOK /\ DeletesOK
  BY DEF IInv
<1>6. DocsOK'
  <2>1. /\ Range(ram') = {} /\ Range(fresh') = {} /\ applied' \subseteq Documents
    BY <1>1, <1>2, <1>5 DEF Range, DocsOK
  <2>2. \A u \in Thread \ {t} : call[u].at # "clear"
    BY <1>2 DEF Flushing
  <2>3. UNCHANGED <<docs, failed, overtaken, index>>
    BY <1>1
  <2>4. "resume" \in {"write", "apply", "clear", "resume"} /\ "resume" # "clear"
        /\ ram' \in {<<>>, ram} /\ fresh' \in {<<>>, ram, fresh}
    BY <1>1
  <2> QED
    BY <2>1, <2>2, <2>3, <2>4, <1>4, FlushDocs
<1>7. DeletesOK'
  <2>1. AllOrNone'
    BY <1>1, <1>5 DEF DeletesOK, AllOrNone
  <2>2. fresh' = <<>> /\ numDeleteTerms' \in Nat /\ deleteDocIDs' \subseteq DocID
    BY <1>1, <1>2
  <2> QED
    BY <2>1, <2>2, <1>1, <1>2, <1>4, NothingBuffered
<1> QED
  BY <1>3, <1>6, <1>7, FlushesKeeps

\* The deletions are written, or there were none and the segment is live.
LEMMA ApplyDeletesKeeps ==
  ASSUME IInv, NEW t \in Thread, ApplyDeletes(t)
  PROVE  IInv'
PROOF
<1>1. /\ monitor = NoOne /\ call[t].at = "apply"
      /\ UNCHANGED <<threadStates, threadBindings, nextDocID, numDocsInRAM, nextWriteDocID, flags, line,
                     pauseThreads, abortCount, closed, monitor, writerLock, asleep>>
      /\ UNCHANGED <<ram, stored, deleteNum, numDeleteTerms, deleteDocIDs, flushDeletes, docs, faults, failed,
                     overtaken>>
  BY DEF ApplyDeletes, Runs, At, ids, locks, buffered, deleted, bounds
<1>2. PICK where : where = IF flushDeletes THEN "clear" ELSE "resume"
  OBVIOUS
<1>3. /\ Goto(t, where) /\ where \in {"clear", "resume"}
      /\ IF flushDeletes
         THEN where = "clear" /\ applied' = LiveBefore \cup LiveOf(fresh) /\ UNCHANGED <<fresh, index>>
         ELSE /\ where = "resume" /\ index' = index \cup {fresh[k] : k \in DOMAIN fresh}
              /\ fresh' = <<>> /\ UNCHANGED applied
  BY <1>2 DEF ApplyDeletes
<1>4. ram = <<>> /\ stored = <<>> /\ line = {} /\ \A u \in Thread : u # t => ~Flushing(u)
  <2>1. ram = <<>>
    BY <1>1 DEF IInv, LocksOK
  <2> QED
    BY <2>1, <1>1, FlusherAlone
<1>5. Flushes(t, where)
  <2>1. monitor' = NoOne /\ line' = {} /\ flushDeletes' \in BOOLEAN /\ faults' \in Nat /\ asleep' = asleep
        /\ ram' = <<>> /\ stored' = <<>> /\ where \in {"apply", "clear", "resume"}
        /\ (fresh' = <<>> \/ where \in {"apply", "clear"})
    BY <1>1, <1>3, <1>4 DEF IInv, RestOK
  <2>2. UNCHANGED <<pauseThreads, abortCount, closed, writerLock, docs, failed, overtaken>>
    BY <1>1
  <2>3. ram = <<>> /\ UNCHANGED <<threadBindings, threadStates, nextDocID, numDocsInRAM, nextWriteDocID, flags>>
    BY <1>1, <1>4
  <2> QED
    BY <2>1, <2>2, <2>3, <1>1, <1>3, FlushesThen
<1>6. /\ Moved(t, call[t], where)
      /\ call'[t].at = where /\ \A u \in Thread \ {t} : call'[u] = call[u]
  BY <1>5 DEF Flushes, FlushMoves, Moved
<1>7. DocsOK /\ DeletesOK /\ Range(fresh) \subseteq Documents
  BY DEF IInv, DocsOK, Range
<1>8. LiveBefore \cup LiveOf(fresh) \subseteq index \cup Range(fresh)
  BY DEF LiveBefore, LiveOf, Range
<1>9. index' \subseteq index \cup Range(fresh) /\ Range(fresh') \subseteq Range(fresh)
      /\ Range(fresh') \cap index' = {}
  <2>1. CASE flushDeletes
    BY <2>1, <1>3, <1>7 DEF DocsOK
  <2>2. CASE ~flushDeletes
    BY <2>2, <1>3 DEF Range
  <2> QED
    BY <2>1, <2>2
<1>10. DocsOK'
  <2>1. Range(ram') = {} /\ Range(ram) = {}
    BY <1>1, <1>4 DEF Range
  <2>2. \A u \in Thread \ {t} : call[u].at # "clear"
    BY <1>4 DEF Flushing
  <2>3. UNCHANGED <<docs, failed, overtaken>>
    BY <1>1
  <2>4. ram' \in {<<>>, ram} /\ fresh' \in {<<>>, ram, fresh} /\ where \in {"write", "apply", "clear", "resume"}
    BY <1>1, <1>3
  <2>5. applied' \subseteq Documents /\ (where = "clear" => applied' \subseteq index' \cup Range(fresh'))
    BY <1>3, <1>7, <1>8 DEF DocsOK
  <2>6. Range(ram') \cup Range(fresh') \cup index' \subseteq Range(ram) \cup Range(fresh) \cup index
    BY <2>1, <1>9
  <2>7. (Range(ram') \cup Range(fresh')) \cap index' = {}
    BY <2>1, <1>9
  <2> QED
    BY <2>2, <2>3, <2>4, <2>5, <2>6, <2>7, <1>6, FlushDocs
<1>11. CASE flushDeletes
  <2>1. /\ where = "clear" /\ applied' = LiveBefore \cup LiveOf(fresh) /\ flushDeletes'
        /\ UNCHANGED <<fresh, index, ram, deleteNum, numDeleteTerms, deleteDocIDs, failed, overtaken>>
    BY <1>1, <1>3, <1>11
  <2>2. Segment' = Segment /\ DOMAIN ram' = {}
    BY <2>1, <1>4 DEF Segment
  <2>3. AllOrNone'
    BY <2>1, <1>7 DEF DeletesOK, AllOrNone
  <2>4. applied' \cap failed \subseteq overtaken
    <3> SUFFICES ASSUME NEW d \in failed, d \in LiveBefore \/ d \in LiveOf(fresh)
                 PROVE  d \in overtaken
      BY <2>1
    <3>1. CASE d \in LiveBefore
      BY <3>1, <1>7 DEF LiveBefore, DeletesOK, AllOrNone
    <3>2. CASE d \in LiveOf(fresh)
      <4>1. PICK k \in DOMAIN fresh : d = fresh[k] /\ k - 1 \notin deleteDocIDs
        BY <3>2 DEF LiveOf
      <4> QED
        BY <4>1, <1>7 DEF DeletesOK
    <3> QED
      BY <3>1, <3>2
  <2>5. (LiveBefore \cup LiveOf(fresh))' = LiveBefore \cup LiveOf(fresh)
    BY <2>1 DEF LiveBefore, LiveOf
  <2>6. (\A u \in Thread : At(u, "clear") =>
           /\ applied \cap failed \subseteq overtaken
           /\ overtaken = {} => applied = LiveBefore \cup LiveOf(fresh))'
    BY <2>1, <2>4, <2>5
  <2>7. DeletesOK'
    BY <2>1, <2>2, <2>3, <2>6, <1>7 DEF DeletesOK
  <2> QED
    BY <2>7, <1>5, <1>10, FlushesKeeps
<1>12. CASE ~flushDeletes
  <2>1. where = "resume" /\ fresh' = <<>> /\ index' = index \cup {fresh[k] : k \in DOMAIN fresh}
    BY <1>3, <1>12
  <2>2. deleteNum = None /\ (overtaken = {} => deleteDocIDs = {})
    BY <1>1, <1>7, <1>12 DEF DeletesOK
  <2>3. AllOrNone'
    <3> SUFFICES ASSUME NEW d \in failed, d \in index \/ \E k \in DOMAIN fresh : d = fresh[k]
                 PROVE  d \in overtaken
      BY <2>1, <1>1 DEF AllOrNone
    <3> QED
      BY <1>7, <1>12 DEF DeletesOK, AllOrNone
  <2>4. numDeleteTerms' \in Nat /\ deleteDocIDs' \subseteq DocID /\ deleteNum' = None /\ ram' = <<>>
        /\ (overtaken' = {} => deleteDocIDs' = {})
    BY <2>2, <1>1, <1>4, <1>7 DEF DeletesOK
  <2>5. DeletesOK'
    BY <2>1, <2>3, <2>4, <1>4, <1>6, NothingBuffered
  <2> QED
    BY <2>5, <1>5, <1>10, FlushesKeeps
<1> QED
  BY <1>11, <1>12

\* What the deletions left is live.
LEMMA ClearBufferedDeletesKeeps ==
  ASSUME IInv, NEW t \in Thread, ClearBufferedDeletes(t)
  PROVE  IInv'
PROOF
<1>1. /\ monitor = NoOne /\ call[t].at = "clear" /\ Goto(t, "resume")
      /\ index' = applied /\ applied' = {} /\ fresh' = <<>> /\ flushDeletes' = FALSE
      /\ deleteNum' = None /\ numDeleteTerms' = 0 /\ deleteDocIDs' = {}
      /\ \/ Reset(threadStates)
         \/ UNCHANGED <<threadBindings, threadStates, nextDocID, numDocsInRAM, nextWriteDocID, flags>>
      /\ UNCHANGED <<line, pauseThreads, abortCount, closed, monitor, writerLock, asleep, ram, stored, docs,
                     faults, failed, overtaken>>
  BY DEF ClearBufferedDeletes, ClearDeletes, Runs, At, locks, buffered, bounds
<1>2. ram = <<>> /\ stored = <<>> /\ line = {} /\ \A u \in Thread : u # t => ~Flushing(u)
  <2>1. ram = <<>>
    BY <1>1 DEF IInv, LocksOK
  <2> QED
    BY <2>1, <1>1, FlusherAlone
<1>3. Flushes(t, "resume")
  <2>1. monitor' = NoOne /\ line' = {} /\ flushDeletes' \in BOOLEAN /\ faults' \in Nat /\ asleep' = asleep
        /\ ram' = <<>> /\ stored' = <<>>
    BY <1>1, <1>2 DEF IInv, RestOK
  <2>2. UNCHANGED <<pauseThreads, abortCount, closed, writerLock, docs, failed, overtaken>>
    BY <1>1
  <2>3. \/ Reset(threadStates)
        \/ ram = <<>> /\ UNCHANGED <<threadBindings, threadStates, nextDocID, numDocsInRAM, nextWriteDocID, flags>>
    BY <1>1, <1>2
  <2> QED
    BY <2>1, <2>2, <2>3, <1>1, FlushesThen
<1>4. /\ Moved(t, call[t], "resume")
      /\ call'[t].at = "resume" /\ \A u \in Thread \ {t} : call'[u] = call[u]
  BY <1>3 DEF Flushes, FlushMoves, Moved
<1>5. /\ DocsOK /\ DeletesOK /\ applied \subseteq index \cup Range(fresh)
      /\ applied \cap failed \subseteq overtaken
  BY <1>1 DEF IInv, DocsOK, DeletesOK, At
<1>6. DocsOK'
  <2>1. Range(ram') = {} /\ Range(fresh') = {} /\ index' \subseteq index \cup Range(fresh)
        /\ applied' \subseteq Documents
    BY <1>1, <1>2, <1>5 DEF Range
  <2>2. \A u \in Thread \ {t} : call[u].at # "clear"
    BY <1>2 DEF Flushing
  <2>3. UNCHANGED <<docs, failed, overtaken>>
    BY <1>1
  <2>4. "resume" \in {"write", "apply", "clear", "resume"} /\ "resume" # "clear"
        /\ ram' \in {<<>>, ram} /\ fresh' \in {<<>>, ram, fresh}
    BY <1>1
  <2> QED
    BY <2>1, <2>2, <2>3, <2>4, <1>4, FlushDocs
<1>7. DeletesOK'
  <2>1. AllOrNone'
    BY <1>1, <1>5 DEF AllOrNone
  <2>2. ram' = <<>> /\ numDeleteTerms' \in Nat /\ deleteDocIDs' \subseteq DocID
    BY <1>1, <1>2
  <2> QED
    BY <2>1, <2>2, <1>1, <1>2, <1>4, NothingBuffered
<1> QED
  BY <1>3, <1>6, <1>7, FlushesKeeps

\* t aborts with what it has in c, s being the thread states and b what threads
\* are bound to.
Aborts(t, c, s, b, count) ==
    /\ monitor = NoOne /\ call[t].at \in {"out", "wait", "abort"} /\ AbortWith(t, c, s, b, count)
    /\ Widens(s) /\ b \in [Thread -> {0} \cup State] /\ \A u \in Thread : b[u] \in {0} \cup DOMAIN s
    /\ c \in CallType /\ (call[t].aborting => c.aborting)
    /\ count = abortCount + (IF c.aborting /\ ~call[t].aborting THEN 1 ELSE 0)
    /\ fresh = <<>> /\ \A u \in Thread : call[u].at \notin {"paused", "write", "apply", "clear", "resume"}
    /\ docs' \in Nat /\ docs <= docs' /\ docs' <= MaxDocs /\ c.doc <= docs'
    /\ \A u \in Thread \ {t} : call[u].doc = c.doc => c.doc = 0
    /\ \/ failed' = failed
       \/ /\ failed' = failed \cup {c.doc}
          /\ c.doc \in Documents /\ c.doc \notin Range(ram) \cup index
    /\ faults' \in Nat
    /\ UNCHANGED <<closed, writerLock, fresh, flushDeletes, applied, index, overtaken>>

LEMMA AbortDocs ==
  ASSUME IInv, NEW t \in Thread, NEW c, NEW s, NEW b, NEW count, Aborts(t, c, s, b, count),
         NEW where \in {"cleanup", "stuck"}, Moved(t, c, where), ram' = ram \/ ram' = <<>>
  PROVE  DocsOK'
PROOF
<1>1. /\ call'[t].at = where /\ call'[t].doc \in {0, c.doc}
      /\ \A u \in Thread \ {t} : call'[u] = call[u]
  BY DEF Moved
<1>2. /\ UNCHANGED <<fresh, applied, index, overtaken>> /\ fresh = <<>>
      /\ \A u \in Thread : call[u].at # "clear"
      /\ docs \in Nat /\ docs' \in Nat /\ docs <= docs' /\ c.doc <= docs'
      /\ \A u \in Thread \ {t} : call[u].doc = c.doc => c.doc = 0
      /\ \/ failed' = failed
         \/ /\ failed' = failed \cup {c.doc} /\ c.doc \in Documents
            /\ c.doc \notin Range(ram) \cup index
  BY DEF Aborts, IInv, CountsOK
<1>3. DocsOK /\ ram \in Seq(Documents) /\ \A u \in Thread : call[u].doc \in {0} \cup Documents
  BY CallTyped DEF IInv, StoredOK
<1>4. Range(ram') \subseteq Range(ram) /\ Range(ram) \subseteq Documents
  BY <1>3 DEF Range
<1>5. \A d \in Documents : d <= docs => d <= docs'
  BY <1>2 DEF Documents
<1>6. \A u \in Thread : call'[u].doc <= docs'
  <2> SUFFICES ASSUME NEW u \in Thread
               PROVE  call'[u].doc <= docs'
    OBVIOUS
  <2>1. CASE u = t
    BY <2>1, <1>1, <1>2
  <2>2. CASE u # t
    BY <2>2, <1>1, <1>2, <1>3, <1>5 DEF DocsOK
  <2> QED
    BY <2>1, <2>2
<1>7. \A u, v \in Thread : u # v /\ call'[u].doc = call'[v].doc => call'[u].doc = 0
  BY <1>1, <1>2, <1>3 DEF DocsOK
<1>8. ASSUME NEW u \in Thread, call'[u].at \in {"wait", "process", "unwind", "failed"}
      PROVE  u # t /\ call'[u] = call[u] /\ (failed' = failed \/ call[u].doc # c.doc)
  <2>1. u # t /\ call'[u] = call[u]
    BY <1>1, <1>8
  <2>2. call[u].doc # 0
    BY <2>1, <1>8 DEF IInv, CallsOK
  <2> QED
    BY <2>1, <2>2, <1>2
<1>9. \A u \in Thread : call'[u].at = "wait" =>
        call'[u].doc \notin Range(ram') \cup Range(fresh) \cup index \cup failed'
  BY <1>2, <1>3, <1>4, <1>8 DEF DocsOK, At
<1>10. \A u \in Thread : call'[u].at \in {"process", "unwind", "failed"} => call'[u].doc \notin failed'
  BY <1>2, <1>3, <1>8 DEF DocsOK
<1>11. \A d \in Range(ram') \cup Range(fresh) \cup index \cup failed' : d <= docs'
  <2> SUFFICES ASSUME NEW d \in Range(ram) \cup Range(fresh) \cup index \cup failed
               PROVE  d <= docs'
    BY <1>2, <1>4
  <2>1. d \in Documents
    BY <1>2, <1>3, <1>4 DEF DocsOK, Range
  <2> QED
    BY <2>1, <1>3, <1>5 DEF DocsOK
<1>12. \A j, k \in DOMAIN ram' : ram'[j] = ram'[k] => j = k
  BY <1>3 DEF DocsOK
<1>13. (Range(ram') \cup Range(fresh)) \cap index = {}
  BY <1>3, <1>4 DEF DocsOK
<1>14. failed' \subseteq Documents /\ overtaken' \subseteq failed' /\ applied' \subseteq Documents
  BY <1>2, <1>3 DEF DocsOK
<1>15. \A u \in Thread : call'[u].at # "clear"
  BY <1>1, <1>2
<1> QED
  BY <1>2, <1>3, <1>6, <1>7, <1>9, <1>10, <1>11, <1>12, <1>13, <1>14, <1>15 DEF DocsOK, At

\* The threads that are counted, after t went on.
LEMMA AbortCounts ==
  ASSUME IInv, NEW t \in Thread, NEW c, NEW s, NEW b, NEW count, Aborts(t, c, s, b, count),
         NEW where \in {"cleanup", "stuck"}, Moved(t, c, where)
  PROVE  /\ abortCount \in Nat /\ count \in Nat /\ (count = 0 => abortCount = 0)
         /\ Cardinality(Aborters') = count - (IF c.aborting /\ where = "cleanup" THEN 1 ELSE 0)
         /\ Cardinality(Pausers') = pauseThreads + (IF where = "stuck" THEN 1 ELSE 0)
         /\ Cardinality(Waiters') \in Nat /\ nextDocID + Cardinality(Waiters') <= docs' /\ nextDocID \in Nat
         /\ (count = 0 => ~call'[t].aborting)
PROOF
<1>1. /\ call'[t].at = where /\ \A u \in Thread \ {t} : call'[u] = call[u]
      /\ call[t].at \in {"out", "wait", "abort"}
      /\ call'[t].aborting <=> c.aborting /\ where # "cleanup"
      /\ c.aborting \in BOOLEAN /\ call[t].aborting \in BOOLEAN
      /\ call[t].aborting => c.aborting
  BY CallTyped DEF Moved, Aborts, CallType, IInv
<1>2. PICK A, B, V, W : A = Aborters /\ B = Aborters' /\ V = Waiters /\ W = Waiters'
  OBVIOUS
<1>3. /\ A \in SUBSET Thread /\ B \in SUBSET Thread /\ \A u \in Thread \ {t} : u \in A <=> u \in B
      /\ t \in A <=> call[t].aborting
      /\ t \in B <=> call'[t].aborting
  BY <1>1, <1>2 DEF Aborters
<1>4. /\ t \in A /\ t \notin B => Cardinality(B) = Cardinality(A) - 1
      /\ t \notin A /\ t \in B => Cardinality(B) = Cardinality(A) + 1
      /\ (t \in A <=> t \in B) => B = A
  BY <1>3, Recounted
<1>5. Cardinality(A) \in Nat /\ abortCount = Cardinality(A) /\ (Cardinality(A) = 0 <=> A = {})
  BY <1>2, <1>3, Counted DEF IInv, CountsOK
<1>6. count = abortCount + (IF c.aborting /\ ~call[t].aborting THEN 1 ELSE 0)
  BY DEF Aborts
<1>7. Cardinality(B) = count - (IF c.aborting /\ where = "cleanup" THEN 1 ELSE 0)
  <2>1. CASE c.aborting /\ where = "cleanup"
    BY <2>1, <1>1, <1>3, <1>4, <1>5, <1>6
  <2>2. CASE c.aborting /\ where # "cleanup"
    BY <2>2, <1>1, <1>3, <1>4, <1>5, <1>6
  <2>3. CASE ~c.aborting
    BY <2>3, <1>1, <1>3, <1>4, <1>5, <1>6
  <2> QED
    BY <2>1, <2>2, <2>3
<1>8. count \in Nat /\ (count = 0 => abortCount = 0 /\ ~call'[t].aborting)
  <2>1. CASE c.aborting /\ ~call[t].aborting
    BY <2>1, <1>5, <1>6
  <2>2. CASE ~(c.aborting /\ ~call[t].aborting)
    <3>1. count = abortCount
      BY <2>2, <1>5, <1>6
    <3>2. abortCount = 0 => ~call[t].aborting
      BY <1>3, <1>5
    <3> QED
      BY <2>2, <3>1, <3>2, <1>1, <1>5
  <2> QED
    BY <2>1, <2>2
<1>9. Cardinality(Pausers') = pauseThreads + (IF where = "stuck" THEN 1 ELSE 0)
  <2>1. CallsOK /\ CountsOK
    BY DEF IInv
  <2>2. ~(Flushing(t) \/ At(t, "stuck")) /\ ((Flushing(t) \/ At(t, "stuck"))' <=> where = "stuck")
    BY <1>1 DEF Flushing, At
  <2>3. /\ pauseThreads \in Nat
        /\ IF (Flushing(t) \/ At(t, "stuck"))' THEN Cardinality(Pausers') = pauseThreads + 1
           ELSE Cardinality(Pausers') = pauseThreads
    BY <2>1, <2>2, Paused
  <2> QED
    BY <2>2, <2>3
<1>10. W \in SUBSET V /\ V \in SUBSET Thread
  BY <1>1, <1>2 DEF Waiters, At
<1>11. Cardinality(W) <= Cardinality(V) /\ Cardinality(W) \in Nat /\ Cardinality(V) \in Nat
  <2>1. IsFiniteSet(V) /\ Cardinality(V) \in Nat
    BY <1>10, Counted
  <2> QED
    BY <2>1, <1>10, FS_Subset, FS_CardinalityType
<1>12. nextDocID + Cardinality(W) <= docs' /\ nextDocID \in Nat
  <2>1. nextDocID + Cardinality(V) <= docs /\ nextDocID \in Nat /\ docs \in Nat
    BY <1>2 DEF IInv, CountsOK, StoredOK
  <2>2. docs' \in Nat /\ docs <= docs'
    BY DEF Aborts
  <2> QED
    BY <2>1, <2>2, <1>11
<1> QED
  BY <1>2, <1>5, <1>7, <1>8, <1>9, <1>11, <1>12

\* Nobody is at work: everything is given up.
LEMMA AbortFree ==
  ASSUME IInv, NEW t \in Thread, NEW c, NEW s, NEW b, NEW count, Aborts(t, c, s, b, count),
         \A i \in DOMAIN Dissolved(s) : Dissolved(s)[i].isIdle
  PROVE  IInv'
PROOF
<1>1. PICK m \in Nat : Len(threadStates) <= m /\ m <= MaxThreadState /\ s \in [1..m -> StateType]
  BY DEF Aborts, Widens
<1>2. PICK n \in Nat : n = Len(threadStates) /\ DOMAIN threadStates = 1..n
  BY States DEF IInv
<1>3. PICK free : free = Dissolved(s)
  OBVIOUS
<1>4. /\ free \in [1..m -> StateType] /\ \A j \in 1..m : free[j].isIdle
      /\ \A j \in 1..m : free[j].isIdle <=> s[j].isIdle \/ j \in line
  <2>1. free = [j \in 1..m |-> [s[j] EXCEPT !.isIdle = s[j].isIdle \/ j \in line]]
    BY <1>1, <1>3 DEF Dissolved
  <2>2. ASSUME NEW j \in 1..m
        PROVE  /\ [s[j] EXCEPT !.isIdle = s[j].isIdle \/ j \in line] \in StateType
               /\ [s[j] EXCEPT !.isIdle = s[j].isIdle \/ j \in line].isIdle <=> s[j].isIdle \/ j \in line
    <3>1. s[j] \in StateType
      BY <1>1
    <3> QED
      BY <3>1 DEF StateType
  <2>3. DOMAIN free = 1..m /\ \A j \in DOMAIN free : free[j].isIdle
    BY <2>1, <1>3
  <2> QED
    BY <2>1, <2>2, <2>3
<1>5. /\ ram' = <<>> /\ stored' = <<>> /\ line' = {} /\ asleep' = {} /\ Reset(free)
      /\ deleteNum' = None /\ numDeleteTerms' = 0 /\ deleteDocIDs' = {}
      /\ abortCount' = count - (IF c.aborting THEN 1 ELSE 0)
      /\ GoWith(t, c, "cleanup") /\ UNCHANGED <<pauseThreads, monitor>>
  BY <1>3 DEF Aborts, AbortWith, GiveUp, ClearDeletes, NotifyAll
<1>6. Moved(t, c, "cleanup")
  <2>1. CallsOK /\ c \in CallType /\ "cleanup" \in Where
    BY DEF IInv, Aborts, Where
  <2> QED
    BY <2>1, <1>5, Going
<1>7. /\ StatesOK' /\ InTurn' /\ AllThreadsIdle' /\ DOMAIN threadStates' = 1..m
      /\ \A j \in DOMAIN threadStates' : threadStates'[j].numThreads = Cardinality(Binders(j)')
      /\ threadBindings' \in [Thread -> {0} \cup State]
      /\ \A u \in Thread : threadBindings'[u] \in {0} \cup DOMAIN threadStates'
      /\ nextDocID' = 0 /\ numDocsInRAM' = 0 /\ nextWriteDocID' = 0
      /\ bufferIsFull' = FALSE /\ flushPending' = FALSE
  BY <1>1, <1>4, <1>5, ResetTo
<1>8. /\ call'[t].at = "cleanup" /\ ~call'[t].aborting /\ call[t].at \in {"out", "wait", "abort"}
      /\ \A u \in Thread \ {t} : call'[u] = call[u]
  BY <1>6 DEF Moved, Aborts
<1>9. \A u \in Thread : ~Working(u)'
  <2>1. \A u \in Thread : Working(u) =>
          Mine(u) \in DOMAIN threadStates /\ ~IsIdle(Mine(u)) /\ Mine(u) \notin line
    BY DEF IInv, CallsOK, WorkOK, Working, Mine
  <2>2. \A i \in DOMAIN threadStates : i \in 1..m /\ s[i].isIdle = threadStates[i].isIdle
    BY <1>1, <1>2 DEF Aborts, Widens
  <2>3. \A u \in Thread : ~Working(u)
    BY <2>1, <2>2, <1>4 DEF IsIdle
  <2> QED
    BY <2>3, <1>8 DEF Working
<1>10. Empty'
  BY <1>5, <1>7, <1>9 DEF Empty
<1>11. StoredOK' /\ WorkOK' /\ FlushOK' /\ ClosedOK'
  BY <1>10, EmptyIsFine
<1>12. /\ UNCHANGED <<closed, writerLock, fresh, flushDeletes, applied, index, overtaken>> /\ fresh = <<>>
       /\ \A u \in Thread : call[u].at \notin {"paused", "write", "apply", "clear", "resume"}
       /\ faults' \in Nat /\ monitor = NoOne
  BY DEF Aborts
<1>13. CallsOK'
  <2>1. /\ DOMAIN threadStates \subseteq DOMAIN threadStates' /\ Moved(t, c, "cleanup") /\ CallsOK
        /\ "cleanup" \in {"unwind", "failed", "abort", "stuck", "out", "flush", "cleanup"} \/ ~c.aborting
        /\ "cleanup" \in {"wait", "process", "unwind", "finished", "failed"} =>
             c.state \in DOMAIN threadStates' /\ c.doc # 0
        /\ threadBindings' \in [Thread -> {0} \cup State]
        /\ \A u \in Thread : threadBindings'[u] \in {0} \cup DOMAIN threadStates'
    BY <1>1, <1>2, <1>6, <1>7 DEF IInv
  <2> QED
    BY <2>1, CallsKept
<1>14. CountsOK'
  <2>1. /\ Cardinality(Aborters') = count - (IF c.aborting THEN 1 ELSE 0)
        /\ Cardinality(Pausers') = pauseThreads /\ pauseThreads \in Nat
        /\ Cardinality(Waiters') \in Nat /\ nextDocID + Cardinality(Waiters') <= docs' /\ nextDocID \in Nat
    <3>1. "cleanup" \in {"cleanup", "stuck"}
      OBVIOUS
    <3>2. pauseThreads \in Nat
      BY Counted DEF Pausers, IInv, CountsOK
    <3> QED
      BY <3>1, <3>2, <1>6, AbortCounts
  <2>2. docs' \in Nat /\ docs' <= MaxDocs
    BY DEF Aborts
  <2>3. nextDocID' + Cardinality(Waiters') <= docs'
    <3>1. PICK k : k = Cardinality(Waiters')
      OBVIOUS
    <3> QED
      BY <3>1, <2>1, <2>2, <1>7
  <2> QED
    BY <2>1, <2>2, <2>3, <1>5, <1>7 DEF CountsOK
<1>15. LocksOK'
  <2>1. ASSUME NEW u \in Thread
        PROVE  /\ At(u, "stuck")' <=> monitor' = u
               /\ Flushing(u)' \/ (At(u, "abort")' /\ ~call'[u].aborting) => writerLock' = u
               /\ call'[u].at \notin {"paused", "write", "apply", "clear", "resume"}
    <3>1. CASE u = t
      BY <3>1, <1>5, <1>8, <1>12, NoOneAssumption DEF At, Flushing
    <3>2. CASE u # t
      <4>1. call'[u] = call[u]
        BY <3>2, <1>8
      <4> QED
        BY <4>1, <1>5, <1>12 DEF At, Flushing, IInv, LocksOK
    <3> QED
      BY <3>1, <3>2
  <2>2. monitor' = NoOne /\ fresh' = <<>> /\ asleep' = {} /\ writerLock' \in Thread \cup {NoOne}
    BY <1>5, <1>12 DEF IInv, LocksOK
  <2> QED
    BY <2>1, <2>2 DEF LocksOK
<1>16. DocsOK'
  <2>1. "cleanup" \in {"cleanup", "stuck"} /\ (ram' = ram \/ ram' = <<>>)
    BY <1>5
  <2> QED
    BY <2>1, <1>6, AbortDocs
<1>17. DeletesOK'
  <2>1. Segment' = <<>> /\ Len(Segment') = 0
    BY <1>5, <1>12 DEF Segment
  <2>2. \A u \in Thread : call'[u].at \notin {"write", "apply", "clear"}
    BY <1>8, <1>12
  <2>3. AllOrNone'
    <3>1. failed' = failed \/ (failed' = failed \cup {c.doc} /\ c.doc \notin index)
      BY DEF Aborts
    <3> QED
      BY <3>1, <1>12 DEF IInv, DeletesOK, AllOrNone
  <2>4. deleteNum' \in {None} \cup Nat /\ deleteNum' <= Len(Segment') /\ numDeleteTerms' \in Nat
    BY <2>1, <1>5 DEF None
  <2>5. DOMAIN ram' = {} /\ DOMAIN fresh' = {}
    BY <1>5, <1>12
  <2> QED
    BY <2>2, <2>3, <2>4, <2>5, <1>5 DEF DeletesOK, At
<1>18. RestOK'
  BY <1>7, <1>12 DEF IInv, RestOK
<1> QED
  BY <1>7, <1>11, <1>13, <1>14, <1>15, <1>16, <1>17, <1>18 DEF IInv

\* Somebody is at work: t waits for it, with the monitor.
LEMMA AbortStuck ==
  ASSUME IInv, NEW t \in Thread, NEW c, NEW s, NEW b, NEW count, Aborts(t, c, s, b, count),
         ~(\A i \in DOMAIN Dissolved(s) : Dissolved(s)[i].isIdle)
  PROVE  IInv'
PROOF
<1>1. PICK m \in Nat : Len(threadStates) <= m /\ m <= MaxThreadState /\ s \in [1..m -> StateType]
  BY DEF Aborts, Widens
<1>2. PICK n \in Nat : n = Len(threadStates) /\ DOMAIN threadStates = 1..n
  BY States DEF IInv
<1>3. PICK free : free = Dissolved(s)
  OBVIOUS
<1>4. /\ free \in [1..m -> StateType]
      /\ \A j \in 1..m : free[j].isIdle <=> s[j].isIdle \/ j \in line
  <2>1. free = [j \in 1..m |-> [s[j] EXCEPT !.isIdle = s[j].isIdle \/ j \in line]]
    BY <1>1, <1>3 DEF Dissolved
  <2>2. ASSUME NEW j \in 1..m
        PROVE  /\ [s[j] EXCEPT !.isIdle = s[j].isIdle \/ j \in line] \in StateType
               /\ [s[j] EXCEPT !.isIdle = s[j].isIdle \/ j \in line].isIdle <=> s[j].isIdle \/ j \in line
    <3>1. s[j] \in StateType
      BY <1>1
    <3> QED
      BY <3>1 DEF StateType
  <2> QED
    BY <2>1, <2>2
<1>5. /\ threadStates' = free /\ line' = {} /\ abortCount' = count /\ pauseThreads' = pauseThreads + 1
      /\ monitor' = t /\ GoWith(t, c, "stuck") /\ threadBindings' = b
      /\ UNCHANGED <<nextDocID, numDocsInRAM, nextWriteDocID, flushPending, bufferIsFull, asleep, ram, stored,
                     deleteNum, numDeleteTerms, deleteDocIDs>>
  BY <1>3 DEF Aborts, AbortWith, flags, buffered, deleted
<1>6. Moved(t, c, "stuck")
  <2>1. CallsOK /\ c \in CallType /\ "stuck" \in Where
    BY DEF IInv, Aborts, Where
  <2> QED
    BY <2>1, <1>5, Going
<1>7. /\ call'[t].at = "stuck" /\ call[t].at \in {"out", "wait", "abort"}
      /\ \A u \in Thread \ {t} : call'[u] = call[u]
  BY <1>6 DEF Moved, Aborts
<1>8. /\ UNCHANGED <<closed, writerLock, fresh, flushDeletes, applied, index, overtaken>> /\ fresh = <<>>
      /\ \A u \in Thread : call[u].at \notin {"paused", "write", "apply", "clear", "resume"}
      /\ faults' \in Nat /\ monitor = NoOne
  BY DEF Aborts
<1>9. /\ abortCount \in Nat /\ count \in Nat /\ (count = 0 => abortCount = 0)
      /\ Cardinality(Aborters') = count
      /\ Cardinality(Pausers') = pauseThreads + 1
      /\ nextDocID + Cardinality(Waiters') <= docs'
  <2>1. "stuck" \in {"cleanup", "stuck"}
    OBVIOUS
  <2> QED
    BY <2>1, <1>6, AbortCounts
<1>10. DOMAIN threadStates' = 1..m /\ DOMAIN threadStates \subseteq 1..m /\ line \subseteq DOMAIN threadStates
  BY <1>1, <1>2, <1>4, <1>5 DEF IInv, StatesOK
<1>11. \A i \in 1..m : IF i \in DOMAIN threadStates THEN IsIdle(i)' <=> IsIdle(i) \/ i \in line
                       ELSE IsIdle(i)'
  <2>1. \A i \in 1..m : IF i \in DOMAIN threadStates THEN s[i].isIdle = threadStates[i].isIdle
                        ELSE s[i].isIdle
    BY <1>1 DEF Aborts, Widens
  <2> QED
    BY <2>1, <1>4, <1>5 DEF IsIdle
<1>12. StatesOK'
  <2>1. threadStates' \in [1..m -> StateType] /\ line' \subseteq 1..m
    BY <1>4, <1>5
  <2> QED
    BY <2>1, <1>1, Restated
<1>13. CallsOK'
  <2>1. /\ DOMAIN threadStates \subseteq DOMAIN threadStates' /\ Moved(t, c, "stuck") /\ CallsOK
        /\ "stuck" \in {"unwind", "failed", "abort", "stuck", "out", "flush", "cleanup"} \/ ~c.aborting
        /\ "stuck" \in {"wait", "process", "unwind", "finished", "failed"} =>
             c.state \in DOMAIN threadStates' /\ c.doc # 0
        /\ threadBindings' \in [Thread -> {0} \cup State]
        /\ \A u \in Thread : threadBindings'[u] \in {0} \cup DOMAIN threadStates'
    BY <1>1, <1>5, <1>6, <1>10 DEF IInv, Aborts
  <2> QED
    BY <2>1, CallsKept
<1>14. CountsOK'
  <2>1. docs' \in Nat /\ docs' <= MaxDocs /\ monitor' # NoOne
    BY <1>5, NoOneAssumption DEF Aborts
  <2> QED
    BY <2>1, <1>5, <1>9 DEF CountsOK
<1>15. LocksOK'
  <2>1. ASSUME NEW u \in Thread
        PROVE  /\ At(u, "stuck")' <=> monitor' = u
               /\ Flushing(u)' \/ (At(u, "abort")' /\ ~call'[u].aborting) => writerLock' = u
               /\ call'[u].at \notin {"paused", "write", "apply", "clear", "resume"}
    <3>1. CASE u = t
      BY <3>1, <1>5, <1>7 DEF At, Flushing
    <3>2. CASE u # t
      <4>1. call'[u] = call[u] /\ ~At(u, "stuck")
        BY <3>2, <1>7, <1>8, NoOneAssumption DEF IInv, LocksOK
      <4> QED
        BY <3>2, <4>1, <1>5, <1>8 DEF At, Flushing, IInv, LocksOK
    <3> QED
      BY <3>1, <3>2
  <2>2. ~AllThreadsIdle'
    <3>1. PICK i \in 1..m : ~free[i].isIdle
      BY <1>3, <1>4
    <3> QED
      BY <3>1, <1>5, <1>10 DEF AllThreadsIdle, IsIdle
  <2>3. fresh' = <<>> /\ asleep' \subseteq Thread /\ writerLock' \in Thread \cup {NoOne} /\ monitor' \in Thread
    BY <1>5, <1>8 DEF IInv, LocksOK
  <2> QED
    BY <2>1, <2>2, <2>3, <1>5 DEF LocksOK
<1>16. WorkOK'
  <2>1. \A u \in Thread : /\ Working(u)' <=> Working(u)
                          /\ Working(u) => Mine(u)' = Mine(u) /\ Mine(u) \in DOMAIN threadStates
    BY <1>7 DEF IInv, CallsOK, Working, Mine
  <2>2. WorkOK
    BY DEF IInv
  <2>3. (\A u, v \in Thread : Working(u) /\ Working(v) /\ Mine(u) = Mine(v) => u = v)'
    BY <2>1, <2>2 DEF WorkOK
  <2>4. (\A u \in Thread : Working(u) => ~IsIdle(Mine(u)) /\ Mine(u) \notin line)'
    <3> SUFFICES ASSUME NEW u \in Thread, Working(u)
                 PROVE  ~threadStates'[Mine(u)].isIdle
      BY <2>1, <1>5 DEF IsIdle
    <3>1. Mine(u) \in DOMAIN threadStates /\ ~IsIdle(Mine(u)) /\ Mine(u) \notin line
      BY <2>1, <2>2 DEF WorkOK
    <3> QED
      BY <3>1, <1>10, <1>11 DEF IsIdle
  <2>5. (\A i \in DOMAIN threadStates : ~IsIdle(i) => i \in line \/ \E u \in Thread : Working(u) /\ Mine(u) = i)'
    <3> SUFFICES ASSUME NEW i \in 1..m, ~IsIdle(i)'
                 PROVE  \E u \in Thread : Working(u)' /\ Mine(u)' = i
      BY <1>10
    <3>1. i \in DOMAIN threadStates /\ ~IsIdle(i) /\ i \notin line
      BY <1>11
    <3> QED
      BY <3>1, <2>1, <2>2 DEF WorkOK
  <2> QED
    BY <2>3, <2>4, <2>5, <1>5 DEF WorkOK
<1>17. StoredOK'
  <2>1. monitor' # NoOne
    BY <1>5, NoOneAssumption
  <2> QED
    BY <2>1, <1>5, <1>9 DEF IInv, StoredOK
<1>18. DocsOK'
  <2>1. "stuck" \in {"cleanup", "stuck"} /\ (ram' = ram \/ ram' = <<>>)
    BY <1>5
  <2> QED
    BY <2>1, <1>6, AbortDocs
<1>19. \A d \in Range(ram) \cup index : d \in failed' <=> d \in failed
  BY DEF Aborts
<1>20. DeletesOK'
  <2>1. \A u \in Thread : call'[u].at \notin {"write", "apply", "clear"}
    BY <1>7, <1>8
  <2>2. AllOrNone'
    BY <1>8, <1>19 DEF IInv, DeletesOK, AllOrNone
  <2>3. Segment' = Segment
    BY <1>5, <1>8 DEF Segment
  <2>4. ~TakenAsLive'
    BY <2>1 DEF TakenAsLive, At
  <2>5. (\A k \in DOMAIN ram : ram[k] \in failed => k - 1 \in deleteDocIDs \/ ram[k] \in overtaken)'
    BY <1>5, <1>8, <1>19 DEF Range, IInv, DeletesOK
  <2>6. DOMAIN fresh' = {}
    BY <1>8
  <2> QED
    BY <2>1, <2>2, <2>3, <2>4, <2>5, <2>6, <1>5, <1>8 DEF IInv, DeletesOK, At
<1>21. FlushOK' /\ ClosedOK' /\ RestOK'
  <2>1. Kept' = Kept
    BY <1>5, <1>19 DEF Kept, Range
  <2> QED
    BY <2>1, <1>5, <1>7, <1>8 DEF IInv, FlushOK, ClosedOK, RestOK
<1> QED
  BY <1>12, <1>13, <1>14, <1>15, <1>16, <1>17, <1>18, <1>20, <1>21 DEF IInv

LEMMA AbortsKeeps ==
  ASSUME IInv, NEW t \in Thread, NEW c, NEW s, NEW b, NEW count, Aborts(t, c, s, b, count)
  PROVE  IInv'
PROOF
  BY AbortFree, AbortStuck

LEMMA Aborting ==
  ASSUME IInv, NEW t \in Thread, Abort(t)
  PROVE  Aborts(t, call[t], threadStates, threadBindings, abortCount)
PROOF
<1>1. /\ monitor = NoOne /\ call[t].at = "abort"
      /\ AbortWith(t, call[t], threadStates, threadBindings, abortCount)
      /\ UNCHANGED <<closed, writerLock, fresh, flushDeletes, applied, index, docs, faults, failed, overtaken>>
  BY DEF Abort, Runs, At, flushed, bounds
<1>2. CallsOK /\ StatesOK /\ CountsOK /\ LocksOK /\ DocsOK
  BY DEF IInv
<1>3. \A u \in Thread : call[u].at \notin {"paused", "write", "apply", "clear", "resume"}
  <2>1. CASE call[t].aborting
    <3>1. abortCount # 0
      BY <2>1, <1>2, NobodyAborts
    <3> QED
      BY <3>1, <1>2 DEF LocksOK
  <2>2. CASE ~call[t].aborting
    <3>1. writerLock = t
      BY <2>2, <1>1, <1>2 DEF LocksOK, At
    <3> QED
      BY <3>1, <1>1, <1>2 DEF LocksOK, Flushing
  <2> QED
    BY <2>1, <2>2
<1>4. fresh = <<>>
  BY <1>2, <1>3 DEF LocksOK, At
<1>5. Widens(threadStates)
  BY <1>1, <1>2, SameStates
<1>6. /\ call[t] \in CallType /\ call[t].doc <= docs /\ abortCount \in Nat
      /\ \A u \in Thread \ {t} : call[u].doc = call[t].doc => call[t].doc = 0
      /\ docs' \in Nat /\ docs <= docs' /\ docs' <= MaxDocs /\ docs' = docs /\ faults' \in Nat
      /\ threadBindings \in [Thread -> {0} \cup State]
      /\ \A u \in Thread : threadBindings[u] \in {0} \cup DOMAIN threadStates
  BY <1>1, <1>2, CallTyped, NobodyAborts DEF DocsOK, CountsOK, CallsOK, IInv, RestOK
<1>7. abortCount = abortCount + (IF call[t].aborting /\ ~call[t].aborting THEN 1 ELSE 0)
  BY <1>6
<1> QED
  BY <1>1, <1>3, <1>4, <1>5, <1>6, <1>7 DEF Aborts

LEMMA InitFailing ==
  ASSUME IInv, NEW t \in Thread, InitFails(t)
  PROVE  \E c, s, b, count : Aborts(t, c, s, b, count)
PROOF
<1>1. /\ monitor = NoOne /\ call[t].at \in {"out", "wait"} /\ ~closed /\ faults' = faults + 1
      /\ UNCHANGED <<closed, writerLock, fresh, flushDeletes, applied, index, overtaken>>
      /\ docs' = (IF call[t].at = "out" THEN docs + 1 ELSE docs)
      /\ call[t].at = "out" => docs < MaxDocs
  BY DEF InitFails, Runs, At, flushed
<1>2. PICK s, i, d : /\ s = (IF call[t].at = "out" THEN Bound(t)[1] ELSE threadStates)
                     /\ i = (IF call[t].at = "out" THEN Bound(t)[2] ELSE Mine(t))
                     /\ d = (IF call[t].at = "out" THEN docs + 1 ELSE call[t].doc)
  OBVIOUS
<1>3. PICK b, c : /\ b = [threadBindings EXCEPT ![t] = i]
                  /\ c = [NoCall EXCEPT !.state = i, !.doc = d, !.aborting = TRUE]
  OBVIOUS
<1>4. /\ ~Blocked(s, i) /\ failed' = failed \cup {d}
      /\ AbortWith(t, c, s, b, abortCount + 1)
  BY <1>2, <1>3 DEF InitFails, At
<1>5. CallsOK /\ StatesOK /\ CountsOK /\ LocksOK /\ DocsOK /\ docs \in Nat
  BY DEF IInv, CountsOK
<1>6. Widens(s) /\ i \in DOMAIN s
  <2>1. CASE call[t].at = "out"
    <3>1. \E s1, i1, b1 : /\ s1 = Bound(t)[1] /\ i1 = Bound(t)[2] /\ b1 = [threadBindings EXCEPT ![t] = i1]
                          /\ Widens(s1) /\ i1 \in DOMAIN s1 /\ CountsBinders(s1, b1)
      BY <2>1, <1>1, <1>5, Binding
    <3> QED
      BY <2>1, <3>1, <1>2
  <2>2. CASE call[t].at = "wait"
    <3>1. Widens(threadStates)
      BY <1>1, <1>5, SameStates
    <3> QED
      BY <2>2, <3>1, <1>2, <1>5 DEF CallsOK, Mine
  <2> QED
    BY <2>1, <2>2, <1>1
<1>7. PICK m \in Nat : m <= MaxThreadState /\ Len(threadStates) <= m /\ s \in [1..m -> StateType]
  BY <1>6 DEF Widens
<1>8. i \in State /\ i \in 1..m
  BY <1>6, <1>7, SizesAssumption DEF State
<1>9. fresh = <<>> /\ \A u \in Thread : call[u].at \notin {"paused", "write", "apply", "clear", "resume"}
  <2>1. pauseThreads = 0
    BY <1>4 DEF Blocked
  <2>2. fresh = <<>> /\ \A u \in Thread : ~Flushing(u)
    BY <2>1, <1>5, NobodyPauses
  <2> QED
    BY <2>2 DEF Flushing
<1>10. /\ d \in Documents /\ d <= docs' /\ d \notin Range(ram) \cup index
       /\ \A u \in Thread \ {t} : call[u].doc # d
       /\ docs' \in Nat /\ docs <= docs' /\ docs' <= MaxDocs
  <2>1. CASE call[t].at = "out"
    <3>1. d = docs + 1 /\ docs' = docs + 1 /\ docs < MaxDocs
      BY <2>1, <1>1, <1>2
    <3> QED
      BY <3>1, <1>5, FreshDoc, BoundsAssumption DEF Documents
  <2>2. CASE call[t].at = "wait"
    <3>1. d = call[t].doc /\ docs' = docs
      BY <2>2, <1>1, <1>2
    <3>2. d # 0 /\ d \in Documents
      BY <2>2, <3>1, <1>5, CallTyped DEF CallsOK
    <3> QED
      BY <2>2, <3>1, <3>2, <1>5 DEF DocsOK, CountsOK, At
  <2> QED
    BY <2>1, <2>2, <1>1
<1>11. c \in CallType /\ c.aborting /\ c.doc = d
  <2>1. c = [at |-> "out", state |-> i, doc |-> d, update |-> FALSE, aborting |-> TRUE]
    BY <1>3 DEF NoCall
  <2>2. "out" \in Where
    BY DEF Where
  <2> QED
    BY <2>1, <2>2, <1>8, <1>10 DEF CallType
<1>12. /\ b \in [Thread -> {0} \cup State]
       /\ \A u \in Thread : b[u] \in {0} \cup DOMAIN s
  <2>1. PICK n \in Nat : n = Len(threadStates) /\ DOMAIN threadStates = 1..n
    BY <1>5, States
  <2>2. threadBindings \in [Thread -> {0} \cup State] /\ \A u \in Thread : threadBindings[u] \in {0} \cup 1..n
    BY <2>1, <1>5 DEF CallsOK
  <2>3. 1..n \subseteq 1..m /\ DOMAIN s = 1..m
    BY <2>1, <1>7
  <2> QED
    BY <2>2, <2>3, <1>3, <1>8
<1>13. ~call[t].aborting
  BY <1>1, <1>5 DEF CallsOK
<1>14. abortCount + 1 = abortCount + (IF c.aborting /\ ~call[t].aborting THEN 1 ELSE 0)
  BY <1>11, <1>13
<1>15. faults' \in Nat
  BY <1>1 DEF IInv, RestOK
<1>16. Aborts(t, c, s, b, abortCount + 1)
  BY <1>1, <1>4, <1>6, <1>9, <1>10, <1>11, <1>12, <1>13, <1>14, <1>15 DEF Aborts
<1> QED
  BY <1>16

LEMMA AbortKeeps ==
  ASSUME IInv, NEW t \in Thread, Abort(t) \/ InitFails(t)
  PROVE  IInv'
PROOF
  BY Aborting, InitFailing, AbortsKeeps

-----------------------------------------------------------------------------
(* The invariant, and what it says.                                        *)

LEMMA InitIInv ==
  ASSUME Init
  PROVE  IInv
PROOF
<1>1. /\ call = [t \in Thread |-> NoCall] /\ threadBindings = [t \in Thread |-> 0]
      /\ threadStates = <<>>
      /\ nextDocID = 0 /\ numDocsInRAM = 0 /\ nextWriteDocID = 0 /\ line = {}
      /\ pauseThreads = 0 /\ abortCount = 0
      /\ flushPending = FALSE /\ bufferIsFull = FALSE /\ closed = FALSE
      /\ monitor = NoOne /\ writerLock = NoOne /\ asleep = {}
      /\ ram = <<>> /\ stored = <<>>
      /\ deleteNum = None /\ numDeleteTerms = 0 /\ deleteDocIDs = {}
      /\ fresh = <<>> /\ flushDeletes = FALSE /\ applied = {} /\ index = {}
      /\ docs = 0 /\ calls = 0 /\ faults = 0 /\ failed = {} /\ overtaken = {}
  BY DEF Init
<1>2. \A t \in Thread : call[t] \in CallType /\ call[t].at = "out" /\ call[t].doc = 0 /\ ~call[t].aborting
  BY <1>1, NoCallType DEF NoCall
<1>3. CallsOK
  <2>1. call \in [Thread -> CallType] /\ threadBindings \in [Thread -> {0} \cup State]
    BY <1>1, NoCallType
  <2> QED
    BY <2>1, <1>1, <1>2 DEF CallsOK
<1>4. DOMAIN threadStates = {} /\ Len(threadStates) = 0 /\ AllThreadsIdle
  BY <1>1 DEF AllThreadsIdle
<1>5. StatesOK
  BY <1>1, <1>4, SizesAssumption DEF StatesOK
<1>6. CountsOK
  <2>1. Aborters = {} /\ Pausers = {} /\ Waiters = {}
    BY <1>2 DEF Aborters, Pausers, Waiters, Flushing, At
  <2>2. Cardinality({}) = 0
    BY FS_EmptySet
  <2> QED
    BY <2>1, <2>2, <1>1, <1>4, BoundsAssumption DEF CountsOK
<1>7. LocksOK
  BY <1>1, <1>2, NoOneAssumption DEF LocksOK, Flushing, At
<1>8. InTurn
  <2>1. nextWriteDocID..(nextDocID - 1) = {}
    BY <1>1
  <2> QED
    BY <2>1, <1>1, <1>4 DEF InTurn
<1>9. \A t \in Thread : ~Working(t)
  BY <1>2 DEF Working
<1>10. WorkOK
  BY <1>1, <1>4, <1>9 DEF WorkOK
<1>11. StoredOK
  BY <1>1, <1>8, BoundsAssumption DEF StoredOK
<1>12. Range(ram) = {} /\ Range(fresh) = {} /\ DOMAIN ram = {} /\ DOMAIN fresh = {} /\ Len(Segment) = 0
  BY <1>1 DEF Range, Segment
<1>13. DocsOK
  BY <1>1, <1>2, <1>12 DEF DocsOK, At
<1>14. DeletesOK
  BY <1>1, <1>2, <1>12 DEF DeletesOK, AllOrNone, At, None
<1>15. FlushOK
  <2>1. Kept = {} /\ Cardinality({}) = 0
    BY <1>12, FS_EmptySet DEF Kept
  <2> QED
    BY <2>1, SizesAssumption DEF FlushOK
<1>16. ClosedOK /\ RestOK
  BY <1>1 DEF ClosedOK, RestOK
<1> QED
  BY <1>3, <1>5, <1>6, <1>7, <1>10, <1>11, <1>13, <1>14, <1>15, <1>16 DEF IInv

LEMMA NextKeeps ==
  ASSUME IInv, [Next]_vars
  PROVE  IInv'
PROOF
<1>1. CASE UNCHANGED vars
  BY <1>1, StutterKeeps
<1>2. ASSUME NEW t \in Thread, Call(t)
      PROVE  IInv'
  <2>1. CASE \E up \in BOOLEAN : Enter(t, up)
    BY <2>1, EnterKeeps
  <2>2. CASE Delete(t)
    BY <2>2, DeleteKeeps
  <2>3. CASE FlushCall(t) \/ CloseCall(t)
    BY <2>3, FlushCallKeeps
  <2>4. CASE AbortCall(t)
    BY <2>4, AbortCallKeeps
  <2> QED
    BY <1>2, <2>1, <2>2, <2>3, <2>4 DEF Call
<1>3. ASSUME NEW t \in Thread, Step(t)
      PROVE  IInv'
  <2>1. CASE Awake(t)
    BY <2>1, AwakeKeeps
  <2>2. CASE AwakeDelete(t)
    BY <2>2, DeleteKeeps
  <2>3. CASE AwakePause(t) \/ Pause(t)
    BY <2>3, PausingKeeps
  <2>4. CASE FinishAborting(t)
    BY <2>4, FinishAbortingKeeps
  <2>5. CASE FinishTurn(t)
    BY <2>5, FinishTurnKeeps
  <2>6. CASE FinishInLine(t)
    BY <2>6, FinishInLineKeeps
  <2>7. CASE Failed(t)
    BY <2>7, FailedKeeps
  <2>8. CASE Finished(t)
    BY <2>8, FinishedKeeps
  <2>9. CASE Abort(t)
    BY <2>9, AbortKeeps
  <2>10. CASE Cleanup(t)
    BY <2>10, CleanupKeeps
  <2>11. CASE AskDeletes(t)
    BY <2>11, AskDeletesKeeps
  <2>12. CASE FlushSegment(t)
    BY <2>12, FlushSegmentKeeps
  <2>13. CASE ApplyDeletes(t)
    BY <2>13, ApplyDeletesKeeps
  <2>14. CASE ClearBufferedDeletes(t)
    BY <2>14, ClearBufferedDeletesKeeps
  <2>15. CASE Resume(t)
    BY <2>15, ResumeKeeps
  <2> QED
    BY <1>3, <2>1, <2>2, <2>3, <2>4, <2>5, <2>6, <2>7, <2>8, <2>9, <2>10, <2>11, <2>12, <2>13, <2>14, <2>15 DEF Step
<1>4. ASSUME NEW t \in Thread, Fault(t)
      PROVE  IInv'
  <2>1. CASE InitFails(t)
    BY <2>1, AbortKeeps
  <2>2. CASE FinishWriteFails(t)
    BY <2>2, FinishWriteFailsKeeps
  <2>3. CASE FlushFails(t)
    BY <2>3, FlushFailsKeeps
  <2>4. CASE \E ab \in BOOLEAN : ProcessFails(t, ab)
    BY <2>4, ProcessFailsKeeps
  <2> QED
    BY <1>4, <2>1, <2>2, <2>3, <2>4 DEF Fault
<1> QED
  BY <1>1, <1>2, <1>3, <1>4, BalanceKeeps DEF Next

\* In every reachable state: what is counted is there, a state that is not idle
\* is worked on or in line, the docIDs between the one to write next and the
\* one to give next are each that of one thread state, and documents that
\* failed are marked.
THEOREM Invariance == Spec => []IInv
PROOF
<1>1. Init => IInv
  BY InitIInv
<1>2. IInv /\ [Next]_vars => IInv'
  BY NextKeeps
<1> QED
  BY <1>1, <1>2, PTL DEF Spec

\* Every variable has a value of its type; what the code asserts not to be
\* negative, pauseThreads and abortCount, counts threads.
THEOREM TypeCorrect == Spec => []TypeOK
PROOF
<1>1. ASSUME IInv
      PROVE  TypeOK
  <2>1. call \in [Thread -> CallType] /\ threadBindings \in [Thread -> {0} \cup State]
    BY <1>1 DEF IInv, CallsOK
  <2>2. PICK n \in Nat : /\ n = Len(threadStates) /\ n <= MaxThreadState
                         /\ DOMAIN threadStates = 1..n /\ threadStates \in [1..n -> StateType]
    BY <1>1, States DEF IInv
  <2>3. Len(threadStates) <= MaxThreadState /\ \A i \in DOMAIN threadStates : threadStates[i] \in StateType
    BY <2>2
  <2>4. {nextDocID, numDocsInRAM, nextWriteDocID} \subseteq 0..MaxDocs
    <3>1. nextDocID = Len(ram) /\ numDocsInRAM = nextDocID /\ nextWriteDocID \in 0..MaxDocs /\ nextDocID \in Nat
      BY <1>1 DEF IInv, StoredOK
    <3>2. Cardinality(Waiters) \in Nat
      BY Counted DEF Waiters
    <3>3. nextDocID + Cardinality(Waiters) <= docs /\ docs \in Nat /\ docs <= MaxDocs
      BY <1>1 DEF IInv, CountsOK
    <3>4. nextDocID \in 0..MaxDocs
      BY <3>1, <3>2, <3>3, BoundsAssumption
    <3> QED
      BY <3>1, <3>4
  <2>5. pauseThreads \in 0..Cardinality(Thread) /\ abortCount \in 0..Cardinality(Thread)
    <3>1. PICK A, P : A = Aborters /\ P = Pausers
      OBVIOUS
    <3>2. A \in SUBSET Thread /\ P \in SUBSET Thread
      BY <3>1 DEF Aborters, Pausers
    <3>3. pauseThreads = Cardinality(P) /\ abortCount = Cardinality(A)
      BY <1>1, <3>1 DEF IInv, CountsOK
    <3> QED
      BY <3>2, <3>3, Counted
  <2>6. deleteNum \in {None} \cup 0..MaxDocs
    <3>1. deleteNum \in {None} \cup Nat /\ deleteNum <= Len(Segment)
      BY <1>1 DEF IInv, DeletesOK
    <3>2. Len(Segment) \in Nat /\ Len(Segment) <= MaxDocs
      <4>1. CASE fresh = <<>>
        BY <4>1, <2>4, <1>1, BoundsAssumption DEF Segment, IInv, StoredOK
      <4>2. CASE fresh # <<>>
        <5>1. fresh \in Seq(Documents) /\ \A j, k \in DOMAIN fresh : fresh[j] = fresh[k] => j = k
          BY <1>1 DEF IInv, DocsOK
        <5>2. PICK l \in Nat : l = Len(fresh) /\ DOMAIN fresh = 1..l /\ fresh \in [1..l -> Documents]
          BY <5>1
        <5>3. PICK f : f = fresh
          OBVIOUS
        <5>4. f \in Injection(1..l, Documents)
          BY <5>1, <5>2, <5>3 DEF Injection, IsInjective
        <5>5. /\ IsFiniteSet(Documents) /\ Cardinality(Documents) = MaxDocs
              /\ IsFiniteSet(1..l) /\ Cardinality(1..l) = l
          BY FS_Interval, BoundsAssumption DEF Documents
        <5>6. Cardinality(1..l) <= Cardinality(Documents)
          BY <5>4, <5>5, FS_Injection
        <5> QED
          BY <4>2, <5>2, <5>5, <5>6 DEF Segment
      <4> QED
        BY <4>1, <4>2
    <3> QED
      BY <3>1, <3>2, BoundsAssumption
  <2>7. line \subseteq DOMAIN threadStates /\ {flushPending, bufferIsFull, closed, flushDeletes} \subseteq BOOLEAN
        /\ monitor \in Thread \cup {NoOne} /\ writerLock \in Thread \cup {NoOne} /\ asleep \subseteq Thread
    BY <1>1 DEF IInv, StatesOK, RestOK, LocksOK
  <2>8. /\ ram \in Seq(Documents) /\ stored \in Seq(Documents) /\ fresh \in Seq(Documents)
        /\ numDeleteTerms \in Nat /\ deleteDocIDs \subseteq DocID
        /\ index \subseteq Documents /\ applied \subseteq Documents
        /\ failed \subseteq Documents /\ overtaken \subseteq failed
    BY <1>1 DEF IInv, StoredOK, DocsOK, DeletesOK
  <2> QED
    BY <2>1, <2>3, <2>4, <2>5, <2>6, <2>7, <2>8 DEF TypeOK, CallType, StateType
<1> QED
  BY <1>1, Invariance, PTL

\* The doc stores hold the documents in the order of their docIDs whichever
\* thread finishes first, and all of them once every thread state is idle: a
\* docID that is not written yet is that of a state that is not idle.
THEOREM InOrder == Spec => []StoredInOrder
PROOF
<1>1. ASSUME IInv
      PROVE  StoredInOrder
  <2> SUFFICES ASSUME abortCount = 0
               PROVE  /\ stored = SubSeq(ram, 1, Len(stored))
                      /\ AllThreadsIdle => Len(stored) = numDocsInRAM
    BY DEF StoredInOrder
  <2>1. /\ ram \in Seq(Documents) /\ stored \in Seq(Documents) /\ Len(ram) = nextDocID /\ numDocsInRAM = nextDocID
        /\ nextWriteDocID = Len(stored) /\ nextWriteDocID <= nextDocID
        /\ \A k \in 1..Len(stored) : stored[k] = ram[k]
    BY <1>1 DEF IInv, StoredOK
  <2>2. PICK n, m \in Nat : n = Len(stored) /\ m = Len(ram)
    BY <2>1
  <2>3. n <= m /\ stored \in [1..n -> Documents] /\ ram \in [1..m -> Documents]
    BY <2>1, <2>2
  <2>4. stored = SubSeq(ram, 1, n)
    <3>1. PICK v : v = SubSeq(ram, 1, n)
      OBVIOUS
    <3>2. v \in Seq(Documents) /\ Len(v) = n /\ \A k \in 1..n : v[k] = ram[k]
      BY <3>1, <2>1, <2>2, <2>3
    <3>3. v \in [1..n -> Documents]
      BY <3>2
    <3>4. \A k \in 1..n : v[k] = stored[k]
      BY <3>2, <2>1, <2>2
    <3> QED
      BY <3>1, <3>3, <3>4, <2>3
  <2>5. ASSUME AllThreadsIdle
        PROVE  Len(stored) = numDocsInRAM
    <3>1. monitor = NoOne
      BY <2>5, <1>1 DEF IInv, LocksOK
    <3>2. InTurn
      BY <3>1, <1>1 DEF IInv, StoredOK
    <3>3. CASE n < m
      <4>1. n \in nextWriteDocID..(nextDocID - 1)
        BY <3>3, <2>1, <2>2
      <4>2. PICK i \in DOMAIN threadStates : ~IsIdle(i)
        BY <4>1, <3>2 DEF InTurn
      <4> QED
        BY <4>2, <2>5 DEF AllThreadsIdle
    <3> QED
      BY <3>3, <2>1, <2>2, <2>3
  <2> QED
    BY <2>2, <2>4, <2>5
<1> QED
  BY <1>1, Invariance, PTL

\* While a thread state waits in line, the document whose docID is next is
\* being processed: its thread state is not idle and not in the line.
THEOREM LineMoves == Spec => []TurnComes
PROOF
<1>1. ASSUME IInv
      PROVE  TurnComes
  <2> SUFFICES ASSUME abortCount = 0, line # {}
               PROVE  /\ \A i \in line : ~IsIdle(i) /\ threadStates[i].docID > nextWriteDocID
                      /\ \E t \in Thread : call[t].at \in {"process", "unwind"} /\ MyTurn(t)
    BY DEF TurnComes
  <2>1. monitor = NoOne /\ line \subseteq DOMAIN threadStates
    BY <1>1 DEF IInv, LocksOK, StatesOK
  <2>2. InTurn /\ nextWriteDocID \in Int /\ nextDocID \in Int
    BY <2>1, <1>1, BoundsAssumption DEF IInv, StoredOK
  <2>3. \A i \in DOMAIN threadStates : threadStates[i].docID \in Int
    <3>1. PICK n \in Nat : DOMAIN threadStates = 1..n /\ threadStates \in [1..n -> StateType]
      BY <1>1, States DEF IInv
    <3>2. \A i \in 1..n : threadStates[i] \in StateType
      BY <3>1
    <3> QED
      BY <3>1, <3>2, BoundsAssumption DEF StateType, DocID
  <2>4. \A i \in line : ~IsIdle(i) /\ threadStates[i].docID > nextWriteDocID /\ threadStates[i].docID < nextDocID
    <3>1. \A i \in line : ~IsIdle(i)
      BY <1>1 DEF IInv, WorkOK
    <3> QED
      BY <3>1, <2>1, <2>2, <2>3 DEF InTurn
  <2>5. nextWriteDocID \in nextWriteDocID..(nextDocID - 1)
    <3>1. PICK i \in line : TRUE
      OBVIOUS
    <3> QED
      BY <3>1, <2>1, <2>2, <2>3, <2>4
  <2>6. PICK j \in DOMAIN threadStates : ~IsIdle(j) /\ threadStates[j].docID = nextWriteDocID
    BY <2>2, <2>5 DEF InTurn
  <2>7. j \notin line
    BY <2>2, <2>6 DEF InTurn
  <2>8. PICK t \in Thread : Working(t) /\ Mine(t) = j
    BY <2>6, <2>7, <1>1 DEF IInv, WorkOK
  <2>9. call[t].at \in {"process", "unwind"} /\ MyTurn(t)
    BY <2>6, <2>8 DEF Working, MyTurn
  <2> QED
    BY <2>4, <2>9
<1> QED
  BY <1>1, Invariance, PTL

\* However many threads add documents, a flush by document count finds at most
\* maxBufferedDocs of them that did not fail, as long as each failed document
\* was marked in time.
THEOREM AtMostN == Spec => []NeverMoreThanN
PROOF
<1>1. IInv => NeverMoreThanN
  BY DEF IInv, FlushOK, Kept, NeverMoreThanN
<1> QED
  BY <1>1, Invariance, PTL

\* A document whose call failed is not in the index, unless it was overtaken.
THEOREM FailedIsOut == Spec => []AllOrNone
PROOF
<1>1. IInv => AllOrNone
  BY DEF IInv, DeletesOK
<1> QED
  BY <1>1, Invariance, PTL

\* Once the writer is closed and all calls have returned, no document is left
\* in RAM.
THEOREM NothingLeft == Spec => []ClosedHoldsNothing
PROOF
<1>1. ASSUME IInv
      PROVE  ClosedHoldsNothing
  <2>1. \A t \in Thread : At(t, "out") => ~call[t].aborting
    BY <1>1 DEF IInv, CallsOK, At
  <2> QED
    BY <2>1, <1>1 DEF IInv, ClosedOK, ClosedHoldsNothing, At
<1> QED
  BY <1>1, Invariance, PTL

-----------------------------------------------------------------------------
(* The calls come one after the other.                                     *)

\* A step of the buffer as callers see it, or none.
Seen == Buffer!Next \/ UNCHANGED <<View, index>>

LEMMA Unseen ==
  ASSUME UNCHANGED <<fresh, ram, index, deleteNum, deleteDocIDs>>
  PROVE  Seen
PROOF
  BY DEF Seen, View, Segment

\* The document is added, or takes the place of all.
LEMMA StartSeen ==
  ASSUME IInv, NEW t \in Thread, NEW c, NEW s, Takes(t, c, s), overtaken = {}
  PROVE  Seen
PROOF
<1>1. Taken(t, c, c.state)
  BY Taking
<1>2. PICK n \in Nat : n = Len(ram) /\ ram \in Seq(Documents) /\ nextDocID = n
  BY <1>1 DEF IInv, StoredOK, Taken
<1>3. PICK d : d = c.doc
  OBVIOUS
<1>4. /\ d \in Documents /\ d \notin Range(ram) \cup index /\ ram' = Append(ram, d)
      /\ UNCHANGED <<fresh, index, deleteDocIDs>> /\ fresh = <<>>
      /\ deleteNum' \in {deleteNum, n}
  BY <1>1, <1>2, <1>3, TakenMoves DEF Taken, Takes
<1>5. /\ DOMAIN ram' = 1..(n + 1) /\ ram'[n + 1] = d /\ DOMAIN ram = 1..n
      /\ \A k \in 1..n : ram'[k] = ram[k]
  <2>1. ram' \in Seq(Documents) /\ Len(ram') = n + 1
    BY <1>2, <1>4, AppendProperties
  <2>2. ram'[n + 1] = d /\ \A k \in 1..n : ram'[k] = ram[k]
    BY <1>2, <1>4, AppendProperties
  <2> QED
    BY <2>1, <2>2, <1>2
<1>6. Segment = ram /\ Segment' = ram'
  BY <1>4 DEF Segment
<1>7. /\ deleteNum \in {None} \cup Nat /\ deleteNum <= n
      /\ \A k \in deleteDocIDs : k < n
  BY <1>2, <1>6 DEF IInv, DeletesOK
<1>8. (n + 1) - 1 \notin deleteDocIDs
  <2>1. n \notin deleteDocIDs
    BY <1>7
  <2> QED
    BY <2>1
<1>9. CASE deleteNum' = deleteNum
  <2>1. {j \in DOMAIN ram' : j > deleteNum /\ j - 1 \notin deleteDocIDs}
          = {j \in DOMAIN ram : j > deleteNum /\ j - 1 \notin deleteDocIDs} \cup {n + 1}
    BY <1>5, <1>7, <1>8 DEF None
  <2>2. {ram'[k] : k \in {j \in DOMAIN ram' : j > deleteNum /\ j - 1 \notin deleteDocIDs}}
          = {ram[k] : k \in {j \in DOMAIN ram : j > deleteNum /\ j - 1 \notin deleteDocIDs}} \cup {d}
    BY <2>1, <1>5
  <2>3. PICK X : X = {ram[k] : k \in {j \in DOMAIN ram :
                                     j > deleteNum /\ j - 1 \notin deleteDocIDs}}
    OBVIOUS
  <2>4. PICK D : D = {e \in index : deleteNum = None}
    OBVIOUS
  <2>5. View = D \cup X
    BY <2>3, <2>4, <1>6 DEF View
  <2>6. PICK Y : Y = {ram'[k] : k \in {j \in DOMAIN ram' :
                                      j > deleteNum /\ j - 1 \notin deleteDocIDs}}
    OBVIOUS
  <2>7. View' = D \cup Y
    <3>1. {e \in index' : deleteNum' = None} = D
      BY <2>4, <1>4, <1>9
    <3>2. {Segment'[k] : k \in {j \in DOMAIN Segment' :
                                  j > deleteNum' /\ j - 1 \notin deleteDocIDs'}} = Y
      BY <2>6, <1>4, <1>6, <1>9
    <3> QED
      BY <3>1, <3>2 DEF View
  <2>8. View' = View \cup {d}
    BY <2>2, <2>3, <2>5, <2>6, <2>7
  <2>9. d \notin View
    BY <1>4, <1>6 DEF View, Range
  <2> QED
    BY <2>8, <2>9, <1>4 DEF Seen, Buffer!Next, Buffer!Add
<1>10. CASE deleteNum' = n
  <2>1. {j \in DOMAIN ram' : j > n /\ j - 1 \notin deleteDocIDs} = {n + 1}
    BY <1>5, <1>8
  <2>2. {ram'[k] : k \in {j \in DOMAIN ram' : j > n /\ j - 1 \notin deleteDocIDs}} = {d}
    BY <2>1, <1>5
  <2>3. n # None
    BY DEF None
  <2>4. View' = {d}
    BY <2>2, <2>3, <1>4, <1>6, <1>10 DEF View
  <2> QED
    BY <2>4, <1>4 DEF Seen, Buffer!Next, Buffer!Update
<1> QED
  BY <1>4, <1>9, <1>10

\* The term deletes what was buffered before, and what is on disk.
LEMMA DeleteSeen ==
  ASSUME IInv, NEW t \in Thread, Delete(t) \/ AwakeDelete(t)
  PROVE  Seen
PROOF
<1>1. BufferDeleteTerm(t) /\ UNCHANGED <<fresh, ram, index>>
  BY DEF Delete, AwakeDelete, buffered, flushed
<1>2. CASE pauseThreads # 0 \/ flushPending
  <2>1. UNCHANGED <<deleteNum, deleteDocIDs>>
    BY <1>1, <1>2 DEF BufferDeleteTerm, deleted
  <2> QED
    BY <2>1, <1>1, Unseen
<1>3. CASE ~(pauseThreads # 0 \/ flushPending)
  <2>1. deleteNum' = NumAfter(numDocsInRAM) /\ deleteDocIDs' = deleteDocIDs
    BY <1>1, <1>3 DEF BufferDeleteTerm, AddDeleteTerm
  <2>2. fresh = <<>>
    <3>1. CountsOK /\ LocksOK /\ pauseThreads = 0
      BY <1>3 DEF IInv
    <3> QED
      BY <3>1, NobodyPauses
  <2>3. PICK n \in Nat : n = Len(ram) /\ ram \in Seq(Documents) /\ numDocsInRAM = n
    BY DEF IInv, StoredOK
  <2>4. Segment = ram /\ Segment' = ram
    BY <2>2, <1>1 DEF Segment
  <2>5. deleteNum \in {None} \cup Nat /\ deleteNum <= n
    BY <2>3, <2>4 DEF IInv, DeletesOK
  <2>6. deleteNum' = n
    BY <2>1, <2>3, <2>5 DEF NumAfter, None
  <2>7. n # None /\ DOMAIN ram = 1..n
    BY <2>3 DEF None
  <2>8. {j \in DOMAIN ram : j > n /\ j - 1 \notin deleteDocIDs} = {}
    BY <2>7
  <2>9. View' = {}
    BY <2>1, <2>4, <2>6, <2>7, <2>8, <1>1 DEF View
  <2> QED
    BY <2>9, <1>1 DEF Seen, Buffer!Next, Buffer!Delete
<1> QED
  BY <1>2, <1>3

\* The document that failed is as if it had not been added.
LEMMA FailedSeen ==
  ASSUME IInv, NEW t \in Thread, Failed(t), overtaken' = {}
  PROVE  Seen
PROOF
<1>1. PICK where, id : Fails(t, where, id)
  BY Failing
<1>2. PICK d : d = call[t].doc
  OBVIOUS
<1>3. /\ id \in DocID /\ fresh = <<>> /\ id + 1 \in DOMAIN ram /\ ram[id + 1] = d
      /\ d \notin index
      /\ \A k \in DOMAIN ram : ram[k] = d => k - 1 = id
  BY <1>1, <1>2, Marked
<1>4. /\ UNCHANGED <<ram, fresh, index, deleteNum>> /\ deleteDocIDs' = deleteDocIDs \cup {id}
      /\ ram \in Seq(Documents)
  BY <1>1 DEF Fails, buffered, flushed, IInv, StoredOK
<1>5. d \in Documents
  BY <1>3, <1>4
<1>6. id \in Int
  BY <1>3, BoundsAssumption DEF DocID
<1>7. Segment = ram /\ Segment' = ram
  BY <1>3, <1>4 DEF Segment
<1>8. {j \in DOMAIN ram : j > deleteNum /\ j - 1 \notin deleteDocIDs'}
        = {j \in DOMAIN ram : j > deleteNum /\ j - 1 \notin deleteDocIDs /\ ram[j] # d}
  <2> SUFFICES ASSUME NEW j \in DOMAIN ram
               PROVE  j - 1 \notin deleteDocIDs' <=> j - 1 \notin deleteDocIDs /\ ram[j] # d
    OBVIOUS
  <2>1. j - 1 = id <=> ram[j] = d
    <3>1. j \in Int
      BY <1>4
    <3>2. j - 1 = id => j = id + 1
      BY <3>1, <1>6
    <3> QED
      BY <3>2, <1>3
  <2> QED
    BY <2>1, <1>4
<1>9. {ram[k] : k \in {j \in DOMAIN ram : j > deleteNum /\ j - 1 \notin deleteDocIDs'}}
        = {ram[k] : k \in {j \in DOMAIN ram : j > deleteNum /\ j - 1 \notin deleteDocIDs}} \ {d}
  BY <1>8
<1>10. View' = View \ {d}
  BY <1>3, <1>4, <1>7, <1>9 DEF View
<1> QED
  BY <1>4, <1>5, <1>10 DEF Seen, Buffer!Next, Buffer!Fail

\* What is on disk is what callers have seen.
LEMMA FlushedSeen ==
  ASSUME fresh' = <<>>, ram' = <<>>, deleteNum' = None, View = index'
  PROVE  Seen
PROOF
<1>1. Segment' = <<>>
  BY DEF Segment
<1>2. DOMAIN Segment' = {}
  BY <1>1
<1>3. View' = index'
  BY <1>2 DEF View
<1> QED
  BY <1>3 DEF Seen, Buffer!Next, Buffer!Flush

\* With deletes nobody sees anything yet; without, the segment is flushed.
LEMMA ApplySeen ==
  ASSUME IInv, NEW t \in Thread, ApplyDeletes(t), overtaken = {}
  PROVE  Seen
PROOF
<1>1. /\ ram' = ram /\ call[t].at = "apply" /\ UNCHANGED <<deleteNum, deleteDocIDs>>
      /\ IF flushDeletes THEN UNCHANGED <<fresh, index>>
         ELSE index' = index \cup {fresh[k] : k \in DOMAIN fresh} /\ fresh' = <<>>
  BY DEF ApplyDeletes, deleted, buffered, At
<1>2. CASE flushDeletes
  BY <1>1, <1>2, Unseen
<1>3. CASE ~flushDeletes
  <2>1. deleteNum = None /\ deleteDocIDs = {}
    BY <1>1, <1>3 DEF IInv, DeletesOK
  <2>2. ram = <<>> /\ Segment = fresh
    BY <1>1 DEF IInv, LocksOK, Segment
  <2>3. PICK n \in Nat : DOMAIN fresh = 1..n
    BY DEF IInv, DocsOK
  <2>4. \A j \in DOMAIN fresh : j > deleteNum /\ j - 1 \notin deleteDocIDs
    BY <2>1, <2>3 DEF None
  <2>5. View = index'
    BY <2>1, <2>2, <2>4, <1>1, <1>3 DEF View
  <2> QED
    BY <2>1, <2>2, <2>5, <1>1, <1>3, FlushedSeen
<1> QED
  BY <1>2, <1>3

\* What was to be live once the deletes are written, callers have seen.
LEMMA ClearSeen ==
  ASSUME IInv, NEW t \in Thread, ClearBufferedDeletes(t), overtaken = {}
  PROVE  Seen
PROOF
<1>1. /\ fresh' = <<>> /\ ram' = ram /\ call[t].at = "clear" /\ index' = applied /\ deleteNum' = None
  BY DEF ClearBufferedDeletes, ClearDeletes, buffered, At
<1>2. ram = <<>> /\ Segment = fresh
  BY <1>1 DEF IInv, LocksOK, Segment
<1>3. applied = LiveBefore \cup LiveOf(fresh)
  BY <1>1 DEF IInv, DeletesOK, At
<1>4. PICK n \in Nat : DOMAIN fresh = 1..n
  BY DEF IInv, DocsOK
<1>5. \A j \in DOMAIN fresh : j - 1 >= deleteNum <=> j > deleteNum
  <2>1. deleteNum \in Int
    BY DEF IInv, DeletesOK, None
  <2> QED
    BY <2>1, <1>4
<1>6. View = applied
  <2>1. LiveOf(fresh) = {fresh[k] : k \in {j \in DOMAIN fresh : j > deleteNum /\ j - 1 \notin deleteDocIDs}}
    BY <1>5 DEF LiveOf
  <2>2. LiveBefore = {d \in index : deleteNum = None}
    BY DEF LiveBefore
  <2> QED
    BY <2>1, <2>2, <1>2, <1>3 DEF View
<1> QED
  BY <1>1, <1>2, <1>6, FlushedSeen

\* With the buffers given up, what is on disk is left.
LEMMA GivenUpSeen ==
  ASSUME ram' = <<>>, fresh' = <<>>, deleteNum' = None, index' = index
  PROVE  Seen
PROOF
<1>1. Segment' = <<>>
  BY DEF Segment
<1>2. DOMAIN Segment' = {}
  BY <1>1
<1>3. View' = index
  BY <1>2 DEF View
<1> QED
  BY <1>3 DEF Seen, Buffer!Next, Buffer!Abort

LEMMA AbortSeen ==
  ASSUME IInv, NEW t \in Thread, NEW c, NEW s, NEW b, NEW count, Aborts(t, c, s, b, count)
  PROVE  Seen
PROOF
<1>1. fresh' = <<>> /\ fresh' = fresh /\ index' = index
  BY DEF Aborts
<1>2. \/ ram' = <<>> /\ deleteNum' = None
      \/ UNCHANGED <<ram, deleteNum, deleteDocIDs>>
  BY DEF Aborts, AbortWith, GiveUp, ClearDeletes, buffered, deleted
<1> QED
  BY <1>1, <1>2, GivenUpSeen, Unseen

LEMMA FlushSegmentSeen ==
  ASSUME IInv, NEW t \in Thread, FlushSegment(t)
  PROVE  Seen
PROOF
<1>1. call[t].at = "write" /\ UNCHANGED <<deleteNum, deleteDocIDs, index>>
  BY DEF FlushSegment, At, deleted
<1>2. fresh = <<>>
  BY <1>1, FlusherAlone
<1>3. Segment' = Segment
  BY <1>2 DEF FlushSegment, buffered, Segment
<1> QED
  BY <1>1, <1>3 DEF Seen, View

LEMMA FlushFailsSeen ==
  ASSUME IInv, NEW t \in Thread, FlushFails(t)
  PROVE  Seen
PROOF
<1>1. call[t].at = "write" /\ ram' = <<>> /\ deleteNum' = None /\ UNCHANGED <<fresh, index>>
  BY DEF FlushFails, At, GiveUp, ClearDeletes, flushed
<1>2. fresh = <<>>
  BY <1>1, FlusherAlone
<1> QED
  BY <1>1, <1>2, GivenUpSeen

LEMMA NextSeen ==
  ASSUME IInv, [Next]_vars, overtaken' = {}
  PROVE  Seen
PROOF
<1>1. CASE UNCHANGED vars
  BY <1>1, Unseen DEF vars, buffered, deleted, flushed
<1>2. overtaken = {}
  <2>1. ASSUME NEW t \in Thread, Failed(t)
        PROVE  overtaken = {}
    BY <2>1 DEF Failed
  <2>2. ASSUME NEW t \in Thread, Call(t) \/ Step(t) \/ Fault(t) \/ BalanceRAM(t), ~Failed(t)
        PROVE  overtaken' = overtaken
    BY <2>2 DEF Call, Enter, Delete, FlushCall, CloseCall, AbortCall, Step, Awake, AwakeDelete, AwakePause,
                FinishAborting, FinishTurn, FinishInLine, Finished, Abort, Cleanup, Pause, AskDeletes, FlushSegment,
                ApplyDeletes, ClearBufferedDeletes, Resume, Fault, InitFails, FinishWriteFails, FlushFails, ProcessFails, BalanceRAM, bounds
  <2> QED
    BY <1>1, <2>1, <2>2 DEF Next, vars, bounds
<1>3. ASSUME NEW t \in Thread, NEW up \in BOOLEAN, Enter(t, up)
      PROVE  Seen
  <2>1. PICK c, s : Takes(t, c, s) \/ Waits(t, c, s)
    BY <1>3, Entering
  <2>2. CASE Takes(t, c, s)
    BY <2>2, <1>2, StartSeen
  <2>3. CASE Waits(t, c, s)
    <3>1. UNCHANGED <<fresh, ram, index, deleteNum, deleteDocIDs>>
      BY <2>3 DEF Waits
    <3> QED
      BY <3>1, Unseen
  <2> QED
    BY <2>1, <2>2, <2>3
<1>4. ASSUME NEW t \in Thread, Awake(t)
      PROVE  Seen
  <2>1. CASE Open /\ ~Blocked(threadStates, Mine(t))
    <3>1. PICK c, s : Takes(t, c, s)
      BY <1>4, <2>1, Awaking
    <3> QED
      BY <3>1, <1>2, StartSeen
  <2>2. CASE ~(Open /\ ~Blocked(threadStates, Mine(t)))
    <3>1. UNCHANGED <<fresh, ram, index, deleteNum, deleteDocIDs>>
      BY <1>4, <2>2 DEF Awake, buffered, deleted, flushed
    <3> QED
      BY <3>1, Unseen
  <2> QED
    BY <2>1, <2>2
<1>5. ASSUME NEW t \in Thread, Abort(t) \/ InitFails(t)
      PROVE  Seen
  <2>1. PICK c, s, b, count : Aborts(t, c, s, b, count)
    BY <1>5, Aborting, InitFailing
  <2> QED
    BY <2>1, AbortSeen
<1>6. ASSUME NEW t \in Thread, NEW ab \in BOOLEAN, ProcessFails(t, ab)
      PROVE  Seen
  <2>1. UNCHANGED <<fresh, ram, index, deleteNum, deleteDocIDs>>
    BY <1>6 DEF ProcessFails, buffered, deleted, flushed
  <2> QED
    BY <2>1, Unseen
<1>7. ASSUME NEW t \in Thread, \/ FlushCall(t) \/ CloseCall(t) \/ AbortCall(t)
                               \/ AwakePause(t) \/ Pause(t) \/ AskDeletes(t)
      PROVE  Seen
  <2>1. UNCHANGED <<fresh, ram, index, deleteNum, deleteDocIDs>>
    BY <1>7 DEF FlushCall, CloseCall, AbortCall, AwakePause, Pause, AskDeletes, buffered, deleted, flushed
  <2> QED
    BY <2>1, Unseen
<1>8. ASSUME NEW t \in Thread, \/ FinishAborting(t) \/ FinishTurn(t) \/ FinishInLine(t) \/ FinishWriteFails(t)
                               \/ Finished(t) \/ Cleanup(t) \/ Resume(t) \/ BalanceRAM(t)
      PROVE  Seen
  <2>1. UNCHANGED <<fresh, ram, index, deleteNum, deleteDocIDs>>
    BY <1>8 DEF FinishAborting, FinishTurn, FinishInLine, FinishWriteFails, Finished, Cleanup, Resume,
                BalanceRAM, buffered, deleted, flushed
  <2> QED
    BY <2>1, Unseen
<1>9. ASSUME NEW t \in Thread, Call(t) \/ Step(t) \/ Fault(t) \/ BalanceRAM(t)
      PROVE  Seen
  <2>1. CASE Call(t)
    BY <2>1, <1>3, <1>7, DeleteSeen DEF Call
  <2>2. CASE Step(t)
    BY <2>2, <1>2, <1>4, <1>5, <1>7, <1>8, DeleteSeen, FailedSeen, FlushSegmentSeen, ApplySeen, ClearSeen DEF Step
  <2>3. CASE Fault(t)
    BY <2>3, <1>5, <1>6, <1>8, FlushFailsSeen DEF Fault
  <2>4. CASE BalanceRAM(t)
    BY <2>4, <1>8
  <2> QED
    BY <1>9, <2>1, <2>2, <2>3, <2>4
<1> QED
  BY <1>1, <1>9 DEF Next

\* Whatever number of threads add, update, delete, flush and abort at once,
\* what they see of the buffer is changed by one call after the other: every
\* step is one of BufferedDocuments, or nobody sees it.
THEOREM OneAfterTheOther == Spec => Linearizable
PROOF
<1>1. ASSUME Init
      PROVE  Buffer!Init
  <2>1. fresh = <<>> /\ ram = <<>> /\ index = {}
    BY <1>1 DEF Init
  <2>2. Segment = <<>>
    BY <2>1 DEF Segment
  <2>3. View = {}
    BY <2>1, <2>2 DEF View
  <2> QED
    BY <2>1, <2>3 DEF Buffer!Init
<1>2. IInv /\ [Next]_vars => [Buffer!Next \/ overtaken' # {}]_<<View, index>>
  BY NextSeen DEF Seen
<1> QED
  BY <1>1, <1>2, Invariance, PTL DEF Spec, Linearizable
=============================================================================
