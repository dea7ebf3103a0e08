------------------------ MODULE MergeRegistry_proofs ------------------------
(***************************************************************************)
(* Proofs that the safety properties of MergeRegistry hold for any number  *)
(* of threads, segments, flushes, calls and failures, and for any merges   *)
(* that the policy may ask for: nothing is used of FindMerges.             *)
(*                                                                         *)
(* They all follow from one inductive invariant, IInv.  Of the merges it   *)
(* says that a pending or running one lies in the index as it was          *)
(* registered, apart from the others (PendingOK, RunningOK), and that      *)
(* mergingSegments is what they use (MergingExact).  Of the threads it     *)
(* says which steps a call may have left (CallsOK): this is why a thread   *)
(* that runs a merge has at hand a merge of the right kind (SchedulerOK,   *)
(* Stage), and why somebody will run what is pending (Served): a thread    *)
(* that registers merges has "schedule" after it, and neither a flush,     *)
(* whose writer may be closed, nor an abort before it.                     *)
(*                                                                         *)
(* The proof that a step keeps IInv has a lemma per action, or per actions *)
(* of one kind: those that leave the merges alone (QuietKeeps), and those  *)
(* that end the process (HaltKeeps).  MergesApart, MergingExact and        *)
(* PendingServed need the rest of IInv: none is inductive alone.           *)
(***************************************************************************)
EXTENDS MergeRegistry, SequenceTheorems, FiniteSetTheorems, TLAPS

IndexOK ==
    /\ counter \in Nat
    /\ segmentInfos \in Seq(0..(counter - 1)) /\ IsInjective(segmentInfos)
    /\ DOMAIN info = ToSet(segmentInfos)
    /\ \A n \in DOMAIN info : /\ info[n].dels \subseteq info[n].docs
                              /\ info[n].docs \subseteq Document

\* abort() can go back to the index the writer was opened with.
RollbackOK ==
    /\ rollback[1] \in Seq(0..(counter - 1)) /\ IsInjective(rollback[1])
    /\ DOMAIN rollback[2] = ToSet(rollback[1])
    /\ \A n \in DOMAIN rollback[2] : /\ rollback[2][n].dels \subseteq rollback[2][n].docs
                                     /\ rollback[2][n].docs \subseteq Document

Registered(m) ==
    /\ m \in Merge /\ m.src # <<>>
    /\ Uses(m) \subseteq 0..(counter - 1)

\* src lies in segs, after the first i.
Lies(segs, src, i) ==
    /\ i \in 0..(Len(segs) - Len(src))
    /\ \A k \in 1..Len(src) : segs[i + k] = src[k]
Contiguous(m) ==
    m.out \notin ToSet(segmentInfos) => \E i \in 0..Len(segmentInfos) : Lies(segmentInfos, m.src, i)

PendingOK ==
    /\ pendingMerges \in Seq(Merge)
    /\ \A k \in DOMAIN pendingMerges :
         /\ Registered(pendingMerges[k]) /\ Contiguous(pendingMerges[k])
         /\ pendingMerges[k].out = None
    /\ \A j, k \in DOMAIN pendingMerges :
         j # k => ToSet(pendingMerges[j].src) \cap ToSet(pendingMerges[k].src) = {}

RunningOK ==
    /\ \A m, n \in runningMerges : m = n
    /\ \A m \in runningMerges :
         /\ Registered(m) /\ Contiguous(m)
         /\ \A k \in DOMAIN pendingMerges : Uses(m) \cap ToSet(pendingMerges[k].src) = {}

RegistryOK ==
    /\ segmentsToOptimize \subseteq 0..(counter - 1)
    /\ mergingSegments \subseteq 0..(counter - 1)
    /\ stopMerges => pendingMerges = <<>> /\ runningMerges = {}

\* Where the merge stands, at each step of the thread that runs it.
Stage(m, step) ==
    /\ step = "mergeInit" => m.out = None
    /\ step = "commitMerge" => m.out # None /\ m.out \notin ToSet(segmentInfos)
    /\ step = "mergeFinish" => m.out \in ToSet(segmentInfos)

Merging(t) == \E step \in {"mergeInit", "commitMerge", "mergeFinish", "failed"} : At(t, step)

SchedulerOK ==
    /\ scheduler \in Thread \cup {NoOne}
    /\ \A m \in runningMerges : \E t \in Thread : Merging(t)
    /\ \A t \in Thread : Merging(t) =>
         /\ scheduler = t
         /\ \E m \in runningMerges : m.src = call[t].src /\ Stage(m, Head(call[t].todo))

\* What may follow a step of a call, and what may be the last.
Follows(a, b) ==
    \/ a = "flush" /\ b \in {"mark", "schedule", "stopMerges"}
    \/ a = "mark" /\ b = "selectOptimize"
    \/ a \in {"select", "selectOptimize", "mergeFinish"} /\ b = "schedule"
    \/ a = "schedule" /\ b \in {"schedule", "mark", "await", "finishMerges"}
    \/ a = "mergeInit" /\ b = "commitMerge"
    \/ a = "commitMerge" /\ b = "mergeFinish"
    \/ a = "stopMerges" /\ b \in {"rollback", "shut"}
    \/ a = "rollback" /\ b = "flush"
    \/ a = "finishMerges" /\ b = "shut"
    \/ a = "shut" /\ b = "close"
Ends(a) == a \in {"flush", "schedule", "failed", "await", "awoken", "close", "waitForClose"}

Steps == {"flush", "mark", "select", "selectOptimize", "schedule", "mergeInit", "commitMerge",
          "mergeFinish", "failed", "await", "awoken", "finishMerges", "stopMerges",
          "rollback", "shut", "close", "waitForClose"}

Script(s) ==
    /\ s \in Seq(Steps)
    /\ \A i \in 1..(Len(s) - 1) : Follows(s[i], s[i + 1])
    /\ s # <<>> => Ends(s[Len(s)])

CallOK(c) ==
    /\ DOMAIN c = {"op", "todo", "src", "max", "goal"}
    /\ c.op = "none" <=> c.todo = <<>>
    /\ Script(c.todo)
    /\ c.max \in 0..MaxSegments

CallsOK ==
    /\ DOMAIN call = Thread
    /\ \A t \in Thread : CallOK(call[t]) /\ (At(t, "rollback") => stopMerges)

\* Will run what is pending.
Serves(t) ==
    /\ "schedule" \in ToSet(call[t].todo)
    /\ Head(call[t].todo) \notin {"flush", "stopMerges", "rollback"}
Served == faults = 0 /\ halted = "no" /\ pendingMerges # <<>> => \E t \in Thread : Serves(t)

RestOK ==
    /\ mergeExceptions \in Seq(Seq(Nat)) /\ mergeGen \in Nat
    /\ {stopMerges, closing, overtaken} \subseteq BOOLEAN
    /\ life \in {"open", "shut", "closed"} /\ halted \in {"no", "loops", "undefined"}
    /\ asleep \subseteq Thread /\ faults \in Nat

IInv ==
    /\ IndexOK /\ RollbackOK /\ PendingOK /\ RunningOK /\ RegistryOK /\ MergingExact
    /\ SchedulerOK /\ CallsOK /\ Served /\ RestOK

-----------------------------------------------------------------------------
(* Scripts: the steps a call has left.                                     *)

LEMMA ScriptTail ==
  ASSUME NEW s, Script(s), s # <<>>
  PROVE  /\ Script(Tail(s))
         /\ Head(s) = s[1]
         /\ Tail(s) = <<>> => Ends(s[1])
         /\ Tail(s) # <<>> => Follows(s[1], Head(Tail(s)))
         /\ ToSet(s) = {s[1]} \cup ToSet(Tail(s))
PROOF
<1> DEFINE r == Tail(s)
<1>1. s \in Seq(Steps) /\ Len(s) \in Nat /\ Len(s) >= 1 /\ DOMAIN s = 1..Len(s)
  BY LenProperties, EmptySeq DEF Script
<1>2. /\ r \in Seq(Steps) /\ Len(r) = Len(s) - 1 /\ DOMAIN r = 1..Len(r)
      /\ \A i \in 1..Len(r) : r[i] = s[i + 1]
  BY <1>1, HeadTailProperties, LenProperties
<1>3. Head(s) = s[1]
  BY <1>1
<1>4. r = <<>> => Len(s) = 1
  BY <1>1, <1>2, EmptySeq
<1>5. r # <<>> => Len(r) >= 1 /\ Head(r) = s[2] /\ r[Len(r)] = s[Len(s)]
  <2> SUFFICES ASSUME r # <<>> PROVE Len(r) >= 1 /\ Head(r) = s[2] /\ r[Len(r)] = s[Len(s)]
    OBVIOUS
  <2>1. Len(r) \in Nat /\ Len(r) >= 1
    BY <1>2, EmptySeq, LenProperties
  <2>2. Head(r) = r[1]
    BY <1>2
  <2> QED
    BY <2>1, <2>2, <1>1, <1>2
<1>6. Script(r)
  <2>1. \A i \in 1..(Len(r) - 1) : Follows(r[i], r[i + 1])
    BY <1>1, <1>2 DEF Script
  <2>2. r # <<>> => Ends(r[Len(r)])
    BY <1>5 DEF Script
  <2> QED
    BY <2>1, <2>2, <1>2 DEF Script
<1>7. r # <<>> => Follows(s[1], Head(r))
  <2> SUFFICES ASSUME r # <<>> PROVE Follows(s[1], s[2])
    BY <1>5
  <2> QED
    BY <1>1, <1>2, <1>5 DEF Script
<1>8. r = <<>> => Ends(s[1])
  BY <1>4 DEF Script
<1>9. ToSet(s) = {s[1]} \cup ToSet(r)
  <2>1. ASSUME NEW i \in 1..Len(s) PROVE s[i] \in {s[1]} \cup ToSet(r)
    <3>1. CASE i = 1
      BY <3>1
    <3>2. CASE i # 1
      <4>1. i - 1 \in 1..Len(r) /\ (i - 1) + 1 = i
        BY <3>2, <1>1, <1>2
      <4>2. s[i] = r[i - 1]
        BY <4>1, <1>2
      <4> QED
        BY <4>1, <4>2, <1>2 DEF ToSet
    <3> QED
      BY <3>1, <3>2
  <2>2. ASSUME NEW i \in 1..Len(r) PROVE r[i] \in ToSet(s)
    <3>1. i + 1 \in 1..Len(s)
      BY <1>1, <1>2
    <3> QED
      BY <3>1, <1>1, <1>2 DEF ToSet
  <2>3. s[1] \in ToSet(s)
    BY <1>1 DEF ToSet
  <2>4. ToSet(s) \subseteq {s[1]} \cup ToSet(r)
    BY <2>1, <1>1 DEF ToSet
  <2>5. ToSet(r) \subseteq ToSet(s)
    BY <2>2, <1>2 DEF ToSet
  <2> QED
    BY <2>3, <2>4, <2>5
<1> QED
  BY <1>3, <1>6, <1>7, <1>8, <1>9

LEMMA ScriptCat ==
  ASSUME NEW a \in Seq(Steps), a # <<>>, NEW b, Script(b),
         \A i \in 1..(Len(a) - 1) : Follows(a[i], a[i + 1]),
         b # <<>> => Follows(a[Len(a)], Head(b)),
         b = <<>> => Ends(a[Len(a)])
  PROVE  /\ Script(a \o b) /\ a \o b # <<>>
         /\ Head(a \o b) = a[1]
         /\ ToSet(a \o b) = ToSet(a) \cup ToSet(b)
PROOF
<1> DEFINE c == a \o b
<1>1. /\ Len(a) \in Nat /\ Len(a) >= 1 /\ DOMAIN a = 1..Len(a)
      /\ b \in Seq(Steps) /\ Len(b) \in Nat /\ DOMAIN b = 1..Len(b)
  BY LenProperties, EmptySeq DEF Script
<1>2. /\ c \in Seq(Steps) /\ Len(c) = Len(a) + Len(b) /\ DOMAIN c = 1..(Len(a) + Len(b))
      /\ \A i \in 1..(Len(a) + Len(b)) : c[i] = IF i <= Len(a) THEN a[i] ELSE b[i - Len(a)]
  BY <1>1, ConcatProperties, LenProperties
<1>3. c # <<>> /\ Head(c) = a[1]
  BY <1>1, <1>2, EmptySeq
<1>4. b # <<>> => Len(b) >= 1 /\ Head(b) = b[1]
  BY <1>1, EmptySeq
<1>5. b = <<>> => Len(b) = 0
  BY EmptySeq
<1> HIDE DEF c
<1>6. ASSUME NEW i \in 1..(Len(c) - 1) PROVE Follows(c[i], c[i + 1])
  <2>1. CASE i < Len(a)
    <3>1. c[i] = a[i] /\ c[i + 1] = a[i + 1]
      BY <2>1, <1>1, <1>2
    <3> QED
      BY <3>1, <2>1, <1>1, <1>2
  <2>2. CASE i = Len(a)
    <3>1. Len(b) >= 1 /\ b # <<>>
      BY <2>2, <1>1, <1>2, <1>5
    <3>2. c[i] = a[Len(a)] /\ c[i + 1] = b[1]
      BY <2>2, <3>1, <1>1, <1>2
    <3> QED
      BY <3>1, <3>2, <1>4
  <2>3. CASE i > Len(a)
    <3> DEFINE j == i - Len(a)
    <3>1. j \in 1..(Len(b) - 1)
      BY <2>3, <1>1, <1>2
    <3>2. c[i] = b[j] /\ c[i + 1] = b[j + 1]
      BY <2>3, <1>1, <1>2
    <3> QED
      BY <3>1, <3>2 DEF Script
  <2>4. i \in Int /\ Len(a) \in Int
    BY <1>1, <1>2
  <2>5. i < Len(a) \/ i = Len(a) \/ i > Len(a)
    BY <2>4
  <2> QED
    BY <2>1, <2>2, <2>3, <2>5
<1>7. Ends(c[Len(c)])
  <2>1. CASE b = <<>>
    BY <2>1, <1>1, <1>2, <1>5
  <2>2. CASE b # <<>>
    <3>1. c[Len(c)] = b[Len(b)]
      BY <2>2, <1>1, <1>2, <1>4
    <3> QED
      BY <3>1, <2>2 DEF Script
  <2> QED
    BY <2>1, <2>2
<1>8. ToSet(c) = ToSet(a) \cup ToSet(b)
  <2>1. ASSUME NEW i \in 1..Len(a) PROVE i \in DOMAIN c /\ c[i] = a[i]
    BY <1>1, <1>2
  <2>2. ASSUME NEW j \in 1..Len(b) PROVE j + Len(a) \in DOMAIN c /\ c[j + Len(a)] = b[j]
    <3>1. j + Len(a) \in 1..(Len(a) + Len(b)) /\ ~(j + Len(a) <= Len(a)) /\ (j + Len(a)) - Len(a) = j
      BY <1>1
    <3> QED
      BY <3>1, <1>2
  <2>3. ASSUME NEW i \in DOMAIN c
        PROVE \/ i \in DOMAIN a /\ c[i] = a[i]
              \/ \E j \in DOMAIN b : c[i] = b[j]
    <3>1. CASE i <= Len(a)
      BY <3>1, <1>1, <1>2
    <3>2. CASE ~(i <= Len(a))
      <4>1. i - Len(a) \in 1..Len(b)
        BY <3>2, <1>1, <1>2
      <4> QED
        BY <3>2, <4>1, <1>1, <1>2
    <3> QED
      BY <3>1, <3>2
  <2>4. ToSet(c) \subseteq ToSet(a) \cup ToSet(b)
    BY <2>3 DEF ToSet
  <2>5. ToSet(a) \subseteq ToSet(c)
    BY <2>1, <1>1 DEF ToSet
  <2>6. ToSet(b) \subseteq ToSet(c)
    BY <2>2, <1>1 DEF ToSet
  <2> QED
    BY <2>4, <2>5, <2>6
<1> QED
  BY <1>2, <1>3, <1>6, <1>7, <1>8 DEF Script, c

\* The steps of the calls.
LEMMA Scripts ==
  /\ Script(<<>>) /\ Script(<<"flush">>) /\ Script(MaybeMerge) /\ Script(<<"waitForClose">>)
  /\ Script(<<"failed">>) /\ Script(<<"await">>) /\ Script(<<"awoken">>)
  /\ Script(<<"flush", "mark", "selectOptimize", "schedule">>)
  /\ Script(CloseSteps(TRUE)) /\ Script(CloseSteps(FALSE))
PROOF
<1>1. Script(<<>>)
  BY DEF Script
<1>2. Script(<<"flush">>) /\ Script(<<"waitForClose">>) /\ Script(<<"failed">>)
      /\ Script(<<"await">>) /\ Script(<<"awoken">>)
  BY DEF Script, Ends, Steps
<1>3. Script(MaybeMerge)
  <2> DEFINE s == <<"select", "schedule">>
  <2>1. /\ s \in Seq(Steps) /\ Len(s) = 2
        /\ s[1] = "select" /\ s[2] = "schedule"
    BY DEF Steps
  <2> HIDE DEF s
  <2>2. \A i \in 1..(Len(s) - 1) : Follows(s[i], s[i + 1])
    BY <2>1 DEF Follows
  <2>3. Script(s)
    BY <2>1, <2>2 DEF Script, Ends
  <2> QED
    BY <2>3 DEF s, MaybeMerge
<1>4. Script(<<"flush", "mark", "selectOptimize", "schedule">>)
  <2> DEFINE s == <<"flush", "mark", "selectOptimize", "schedule">>
  <2>1. /\ s \in Seq(Steps) /\ Len(s) = 4
        /\ s[1] = "flush" /\ s[2] = "mark" /\ s[3] = "selectOptimize"
        /\ s[4] = "schedule"
    BY DEF Steps
  <2> HIDE DEF s
  <2>2. \A i \in 1..(Len(s) - 1) : Follows(s[i], s[i + 1])
    BY <2>1 DEF Follows
  <2>3. Script(s)
    BY <2>1, <2>2 DEF Script, Ends
  <2> QED
    BY <2>3 DEF s
<1>5. Script(CloseSteps(TRUE))
  <2> DEFINE s == <<"flush", "schedule", "finishMerges", "shut", "close">>
  <2>1. /\ s \in Seq(Steps) /\ Len(s) = 5
        /\ s[1] = "flush" /\ s[2] = "schedule" /\ s[3] = "finishMerges"
        /\ s[4] = "shut" /\ s[5] = "close"
    BY DEF Steps
  <2> HIDE DEF s
  <2>2. \A i \in 1..(Len(s) - 1) : Follows(s[i], s[i + 1])
    BY <2>1 DEF Follows
  <2>3. Script(s)
    BY <2>1, <2>2 DEF Script, Ends
  <2> QED
    BY <2>3 DEF s, CloseSteps
<1>6. Script(CloseSteps(FALSE))
  <2> DEFINE s == <<"flush", "stopMerges", "shut", "close">>
  <2>1. /\ s \in Seq(Steps) /\ Len(s) = 4
        /\ s[1] = "flush" /\ s[2] = "stopMerges" /\ s[3] = "shut"
        /\ s[4] = "close"
    BY DEF Steps
  <2> HIDE DEF s
  <2>2. \A i \in 1..(Len(s) - 1) : Follows(s[i], s[i + 1])
    BY <2>1 DEF Follows
  <2>3. Script(s)
    BY <2>1, <2>2 DEF Script, Ends
  <2> QED
    BY <2>3 DEF s, CloseSteps
<1> QED
  BY <1>1, <1>2, <1>3, <1>4, <1>5, <1>6

-----------------------------------------------------------------------------
(* Steps of one thread.                                                    *)

\* Only the call of t changes.
Moves(t) ==
    /\ DOMAIN call' = Thread
    /\ \A u \in Thread \ {t} : call'[u] = call[u]
    /\ CallOK(call'[t])

LEMMA DoesMoves ==
  ASSUME NEW t \in Thread, NEW c, NEW steps, DOMAIN call = Thread,
         call' = [call EXCEPT ![t] = IF steps = <<>> THEN NoCall ELSE [c EXCEPT !.todo = steps]],
         Script(steps), DOMAIN c = {"op", "todo", "src", "max", "goal"},
         c.op # "none", c.max \in 0..MaxSegments
  PROVE  Moves(t) /\ call'[t].todo = steps /\ (steps # <<>> => call'[t].src = c.src)
PROOF
<1> DEFINE d == IF steps = <<>> THEN NoCall ELSE [c EXCEPT !.todo = steps]
<1>1. /\ DOMAIN call' = Thread /\ call'[t] = d
      /\ \A u \in Thread \ {t} : call'[u] = call[u]
  OBVIOUS
<1>2. CASE steps = <<>>
  <2>1. d = NoCall
    BY <1>2
  <2>2. /\ DOMAIN NoCall = {"op", "todo", "src", "max", "goal"}
        /\ NoCall.op = "none" /\ NoCall.todo = <<>> /\ NoCall.max = 0
    BY DEF NoCall
  <2>3. CallOK(NoCall)
    BY <2>2, Scripts, BoundsAssumption DEF CallOK
  <2> QED
    BY <1>1, <1>2, <2>1, <2>2, <2>3 DEF Moves
<1>3. CASE steps # <<>>
  <2>1. d = [c EXCEPT !.todo = steps]
    BY <1>3
  <2>2. /\ DOMAIN d = {"op", "todo", "src", "max", "goal"}
        /\ d.op = c.op /\ d.todo = steps /\ d.max = c.max /\ d.src = c.src
    BY <2>1
  <2> HIDE DEF d
  <2>3. CallOK(d)
    BY <1>3, <2>2 DEF CallOK
  <2> QED
    BY <1>1, <1>3, <2>2, <2>3 DEF Moves
<1> QED
  BY <1>2, <1>3

\* Neither a merge nor a rollback follows these steps, and the thread still
\* serves the pending merges.
LEMMA AdvancesMoves ==
  ASSUME CallsOK, NEW t \in Thread, call[t].todo # <<>>, Advances(t)
  PROVE  /\ Moves(t) /\ call'[t].todo = Tail(call[t].todo)
         /\ call'[t].todo # <<>> =>
              Follows(Head(call[t].todo), Head(call'[t].todo)) /\ call'[t].src = call[t].src
         /\ call'[t].todo = <<>> => Ends(Head(call[t].todo))
         /\ Head(call[t].todo) \notin {"mergeInit", "commitMerge"} => ~Merging(t)'
         /\ Head(call[t].todo) # "stopMerges" => ~At(t, "rollback")'
         /\ Head(call[t].todo) # "schedule" /\ Serves(t) => Serves(t)'
PROOF
<1> DEFINE s == call[t].todo
<1>1. CallOK(call[t]) /\ DOMAIN call = Thread /\ Script(s) /\ s # <<>>
  BY DEF CallsOK, CallOK
<1>2. /\ Script(Tail(s)) /\ Head(s) = s[1]
      /\ Tail(s) = <<>> => Ends(s[1])
      /\ Tail(s) # <<>> => Follows(s[1], Head(Tail(s)))
      /\ ToSet(s) = {s[1]} \cup ToSet(Tail(s))
  <2> HIDE DEF s
  <2> QED
    BY <1>1, ScriptTail
<1>3. call' = [call EXCEPT ![t] = IF Tail(s) = <<>> THEN NoCall ELSE [call[t] EXCEPT !.todo = Tail(s)]]
  BY DEF Advances, Goes, Rest, Does
<1>4. /\ Moves(t) /\ call'[t].todo = Tail(s)
      /\ Tail(s) # <<>> => call'[t].src = call[t].src
  <2>1. /\ DOMAIN call[t] = {"op", "todo", "src", "max", "goal"}
        /\ call[t].op # "none" /\ call[t].max \in 0..MaxSegments
    BY <1>1 DEF CallOK
  <2> HIDE DEF s
  <2> QED
    BY <1>1, <1>2, <1>3, <2>1, DoesMoves
<1> HIDE DEF s
<1>5. s[1] \notin {"mergeInit", "commitMerge"} => ~Merging(t)'
  BY <1>2, <1>4 DEF Merging, At, Follows
<1>6. s[1] # "stopMerges" => ~At(t, "rollback")'
  BY <1>2, <1>4 DEF At, Follows
<1>7. s[1] # "schedule" /\ Serves(t) => Serves(t)'
  <2> SUFFICES ASSUME s[1] # "schedule", Serves(t) PROVE Serves(t)'
    OBVIOUS
  <2>1. "schedule" \in ToSet(s) /\ s[1] \notin {"flush", "stopMerges", "rollback"}
    BY <1>2 DEF Serves, s
  <2>2. "schedule" \in ToSet(Tail(s))
    BY <1>2, <2>1
  <2>3. Tail(s) # <<>>
    BY <2>2 DEF ToSet
  <2> QED
    BY <1>2, <1>4, <2>1, <2>2, <2>3 DEF Serves, Follows
<1> QED
  BY <1>2, <1>4, <1>5, <1>6, <1>7 DEF s

\* The calls and the scheduler, when t runs no merge.
LEMMA IdleStep ==
  ASSUME CallsOK, SchedulerOK, NEW t \in Thread, Moves(t), ~Merging(t), ~Merging(t)',
         At(t, "rollback")' => stopMerges', stopMerges => stopMerges',
         scheduler' = scheduler \/ (scheduler \in {t, NoOne} /\ scheduler' \in {t, NoOne}),
         runningMerges' = runningMerges,
         \A m \in runningMerges : m.out \in ToSet(segmentInfos') <=> m.out \in ToSet(segmentInfos)
  PROVE  CallsOK' /\ SchedulerOK'
PROOF
<1>1. \A u \in Thread \ {t} : \A step : At(u, step)' <=> At(u, step)
  BY DEF At, Moves
<1>2. \A u \in Thread : Merging(u)' <=> Merging(u)
  BY <1>1 DEF Merging
<1>3. CallsOK'
  <2> SUFFICES ASSUME NEW u \in Thread
               PROVE  CallOK(call'[u]) /\ (At(u, "rollback")' => stopMerges')
    BY DEF CallsOK, Moves
  <2>1. CASE u = t
    BY <2>1 DEF Moves
  <2>2. CASE u # t
    BY <2>2, <1>1 DEF Moves, CallsOK
  <2> QED
    BY <2>1, <2>2
<1>4. scheduler' \in Thread \cup {NoOne}
  BY DEF SchedulerOK
<1>5. ASSUME NEW m \in runningMerges' PROVE \E u \in Thread : Merging(u)'
  BY <1>2 DEF SchedulerOK
<1>6. ASSUME NEW u \in Thread, Merging(u)'
      PROVE  /\ scheduler' = u
             /\ \E m \in runningMerges' : m.src = call'[u].src /\ Stage(m, Head(call[u].todo))'
  <2>1. u # t /\ Merging(u) /\ call'[u] = call[u]
    BY <1>2, <1>6 DEF Moves
  <2>2. scheduler' = u
    BY <2>1, NoOneAssumption DEF SchedulerOK
  <2>3. PICK m \in runningMerges : m.src = call[u].src /\ Stage(m, Head(call[u].todo))
    BY <2>1 DEF SchedulerOK
  <2>4. Stage(m, Head(call[u].todo))'
    BY <2>1, <2>3 DEF Stage
  <2> QED
    BY <2>1, <2>2, <2>3, <2>4
<1> QED
  BY <1>3, <1>4, <1>5, <1>6 DEF SchedulerOK

\* What is pending has a thread that will run it.
LEMMA ServedStep ==
  ASSUME Served, NEW t \in Thread, Moves(t),
         faults' = 0 => faults = 0, halted' = "no" => halted = "no",
         faults' = 0 /\ pendingMerges' # <<>> =>
             Serves(t)' \/ (pendingMerges # <<>> /\ ~Serves(t))
  PROVE  Served'
PROOF
<1> SUFFICES ASSUME faults' = 0, halted' = "no", pendingMerges' # <<>>
             PROVE  \E u \in Thread : Serves(u)'
  BY DEF Served
<1>1. CASE Serves(t)'
  BY <1>1
<1>2. CASE pendingMerges # <<>> /\ ~Serves(t)
  <2>1. PICK u \in Thread : Serves(u)
    BY <1>2 DEF Served
  <2>2. u # t /\ call'[u] = call[u]
    BY <2>1, <1>2 DEF Moves
  <2> QED
    BY <2>1, <2>2 DEF Serves
<1> QED
  BY <1>1, <1>2

\* What the index and the merges are like does not change.
Quiet == UNCHANGED <<index, rollback, segmentsToOptimize, merges, stopMerges>>

LEMMA Frame ==
  ASSUME IInv, Quiet
  PROVE  (IndexOK /\ RollbackOK /\ PendingOK /\ RunningOK /\ RegistryOK /\ MergingExact)'
PROOF
<1> USE DEF Quiet, index, merges
<1>1. IndexOK'
  BY DEF IInv, IndexOK
<1>2. RollbackOK'
  BY DEF IInv, RollbackOK
<1>3. \A m : Registered(m)' = Registered(m) /\ Contiguous(m)' = Contiguous(m)
  BY DEF Registered, Contiguous
<1>4. PendingOK'
  BY <1>3 DEF IInv, PendingOK
<1>5. RunningOK'
  BY <1>3 DEF IInv, RunningOK
<1>6. RegistryOK'
  BY DEF IInv, RegistryOK
<1>7. MergingExact'
  BY DEF IInv, MergingExact, Registereds
<1> QED
  BY <1>1, <1>2, <1>4, <1>5, <1>6, <1>7

LEMMA QuietStep ==
  ASSUME IInv, NEW t \in Thread, Quiet, RestOK', Moves(t), ~Merging(t), ~Merging(t)',
         ~At(t, "rollback")',
         scheduler' = scheduler \/ (scheduler \in {t, NoOne} /\ scheduler' \in {t, NoOne}),
         faults' = 0 => faults = 0, halted' = "no" => halted = "no",
         faults' = 0 /\ pendingMerges # <<>> /\ Serves(t) => Serves(t)'
  PROVE  IInv'
PROOF
<1>1. (IndexOK /\ RollbackOK /\ PendingOK /\ RunningOK /\ RegistryOK /\ MergingExact)'
  BY Frame
<1>2. /\ runningMerges' = runningMerges /\ pendingMerges' = pendingMerges
      /\ segmentInfos' = segmentInfos /\ stopMerges' = stopMerges
  BY DEF Quiet, index, merges
<1>3. CallsOK' /\ SchedulerOK'
  BY <1>2, IdleStep DEF IInv
<1>4. Served'
  BY <1>2, ServedStep DEF IInv
<1> QED
  BY <1>1, <1>3, <1>4 DEF IInv

\* Nobody steps once the process has ended.
LEMMA HaltStep ==
  ASSUME IInv, NEW how \in {"loops", "undefined"}, Halts(how), faults' \in Nat
  PROVE  IInv'
PROOF
<1> USE DEF Halts, index, merges, optimizing, ending, failures
<1>1. (IndexOK /\ RollbackOK /\ PendingOK /\ RunningOK /\ RegistryOK /\ MergingExact)'
  BY Frame DEF Quiet
<1>2. SchedulerOK'
  <2>1. \A t \in Thread : Merging(t)' <=> Merging(t)
    BY DEF Merging, At
  <2>2. \A m : Stage(m, "mergeInit")' = Stage(m, "mergeInit")
    BY DEF Stage
  <2> QED
    BY <2>1 DEF IInv, SchedulerOK, Stage
<1>3. CallsOK'
  BY DEF IInv, CallsOK, At
<1>4. Served' /\ RestOK'
  BY DEF IInv, Served, RestOK
<1> QED
  BY <1>1, <1>2, <1>3, <1>4 DEF IInv

LEMMA GoesMoves ==
  ASSUME CallsOK, NEW t \in Thread, call[t].todo # <<>>, NEW steps, Script(steps),
         call' = [call EXCEPT ![t] = IF steps = <<>> THEN NoCall ELSE [call[t] EXCEPT !.todo = steps]]
  PROVE  Moves(t) /\ call'[t].todo = steps /\ (steps # <<>> => call'[t].src = call[t].src)
PROOF
<1>1. /\ DOMAIN call = Thread /\ DOMAIN call[t] = {"op", "todo", "src", "max", "goal"}
      /\ call[t].op # "none" /\ call[t].max \in 0..MaxSegments
  BY DEF CallsOK, CallOK
<1> QED
  BY <1>1, DoesMoves

LEMMA StaysMoves ==
  ASSUME CallsOK, NEW t \in Thread, call' = call
  PROVE  Moves(t)
PROOF
  BY DEF CallsOK, Moves

-----------------------------------------------------------------------------
(* Calls, and steps that leave the merges alone.                           *)

LEMMA BeginsKeeps ==
  ASSUME IInv, NEW t \in Thread, NEW op, op # "none", NEW steps, Script(steps),
         NEW max \in 0..MaxSegments, steps # <<>>,
         Head(steps) \in {"flush", "select", "stopMerges", "waitForClose"},
         Begins(t, op, steps, max), closing' \in BOOLEAN, overtaken' \in BOOLEAN
  PROVE  IInv'
PROOF
<1>1. Quiet /\ call[t].op = "none" /\ scheduler' = scheduler /\ halted' = halted /\ faults' = faults
  BY DEF Begins, Out, Quiet, index, merges
<1> DEFINE c == [NoCall EXCEPT !.op = op, !.max = max]
<1>2. /\ DOMAIN c = {"op", "todo", "src", "max", "goal"}
      /\ c.op # "none" /\ c.max \in 0..MaxSegments
  BY DEF NoCall
<1>3. call' = [call EXCEPT ![t] = IF steps = <<>> THEN NoCall ELSE [c EXCEPT !.todo = steps]]
  BY DEF Begins, Does
<1> HIDE DEF c
<1>4. DOMAIN call = Thread /\ call[t].todo = <<>>
  BY <1>1 DEF IInv, CallsOK, CallOK
<1>5. Moves(t) /\ call'[t].todo = steps
  BY <1>2, <1>3, <1>4, DoesMoves
<1>6. ~Merging(t) /\ ~Serves(t)
  BY <1>4 DEF Merging, At, Serves, ToSet
<1>7. ~Merging(t)' /\ ~At(t, "rollback")'
  BY <1>5 DEF Merging, At
<1>8. RestOK'
  BY DEF IInv, RestOK, Begins, failures
<1> QED
  BY <1>1, <1>5, <1>6, <1>7, <1>8, QuietStep

LEMMA CallKeeps ==
  ASSUME IInv, NEW t \in Thread, Call(t)
  PROVE  IInv'
PROOF
<1>0. closing \in BOOLEAN /\ overtaken \in BOOLEAN /\ 0 \in 0..MaxSegments
  BY BoundsAssumption DEF IInv, RestOK
<1>1. CASE CallFlush(t)
  BY <1>0, <1>1, Scripts, BeginsKeeps DEF CallFlush
<1>2. CASE CallMaybeMerge(t)
  <2>1. MaybeMerge # <<>> /\ Head(MaybeMerge) = "select"
    BY DEF MaybeMerge
  <2> QED
    BY <1>0, <1>2, <2>1, Scripts, BeginsKeeps DEF CallMaybeMerge
<1>3. CASE CallOptimize(t)
  <2> DEFINE a == <<"flush", "mark", "selectOptimize", "schedule">>
  <2>1. PICK max \in 1..MaxSegments, wait \in BOOLEAN :
          Begins(t, "optimize", a \o (IF wait THEN <<"await">> ELSE <<>>), max)
    BY <1>3 DEF CallOptimize
  <2>2. a \in Seq(Steps) /\ a # <<>> /\ Len(a) = 4 /\ a[1] = "flush" /\ a[4] = "schedule"
    BY DEF Steps
  <2>3. Script(a)
    BY Scripts
  <2> HIDE DEF a
  <2> DEFINE b == IF wait THEN <<"await">> ELSE <<>>
  <2>4. Script(b) /\ (b # <<>> => Head(b) = "await")
    BY Scripts
  <2> HIDE DEF b
  <2>5. Script(a \o b) /\ a \o b # <<>> /\ Head(a \o b) = "flush"
    <3>1. \A i \in 1..(Len(a) - 1) : Follows(a[i], a[i + 1])
      BY <2>3 DEF Script
    <3>2. Follows("schedule", "await") /\ Ends("schedule")
      BY DEF Follows, Ends
    <3> QED
      BY <2>2, <2>4, <3>1, <3>2, ScriptCat
  <2>6. max \in 0..MaxSegments
    BY BoundsAssumption
  <2>7. Begins(t, "optimize", a \o b, max)
    BY <2>1 DEF b
  <2>8. closing' \in BOOLEAN /\ overtaken' \in BOOLEAN
    BY <1>0, <1>3 DEF CallOptimize
  <2> QED
    BY <2>5, <2>6, <2>7, <2>8, BeginsKeeps
<1>4. \A wait \in BOOLEAN : /\ Script(CloseSteps(wait))
                            /\ CloseSteps(wait) # <<>> /\ Head(CloseSteps(wait)) = "flush"
  BY Scripts DEF CloseSteps
<1>5. CASE CallClose(t)
  <2>1. PICK wait \in BOOLEAN :
          Begins(t, "close", IF closing THEN <<"waitForClose">> ELSE CloseSteps(wait), 0)
    BY <1>5 DEF CallClose
  <2> DEFINE s == IF closing THEN <<"waitForClose">> ELSE CloseSteps(wait)
  <2>2. Script(s) /\ s # <<>> /\ Head(s) \in {"flush", "waitForClose"}
    BY <1>4, Scripts
  <2>3. closing' \in BOOLEAN /\ overtaken' \in BOOLEAN
    BY <1>5 DEF CallClose
  <2> HIDE DEF s
  <2>4. Begins(t, "close", s, 0)
    BY <2>1 DEF s
  <2> QED
    BY <1>0, <2>2, <2>3, <2>4, BeginsKeeps
<1>6. CASE CallAbort(t)
  <2> DEFINE a == <<"stopMerges", "rollback">>
             b == CloseSteps(FALSE)
             s == IF closing THEN <<"waitForClose">> ELSE a \o b
  <2>1. /\ a \in Seq(Steps) /\ a # <<>> /\ Len(a) = 2
        /\ a[1] = "stopMerges" /\ a[2] = "rollback"
    BY DEF Steps
  <2> HIDE DEF a, b
  <2>2. Script(b) /\ b # <<>> /\ Head(b) = "flush"
    BY <1>4 DEF b
  <2>3. Script(a \o b) /\ a \o b # <<>> /\ Head(a \o b) = "stopMerges"
    <3>1. \A i \in 1..(Len(a) - 1) : Follows(a[i], a[i + 1])
      BY <2>1 DEF Follows
    <3>2. Follows(a[Len(a)], Head(b))
      BY <2>1, <2>2 DEF Follows
    <3> QED
      BY <2>1, <2>2, <3>1, <3>2, ScriptCat
  <2>4. Script(s) /\ s # <<>> /\ Head(s) \in {"stopMerges", "waitForClose"}
    BY <2>3, Scripts
  <2>5. closing' \in BOOLEAN /\ overtaken' \in BOOLEAN /\ Begins(t, "abort", s, 0)
    BY <1>6 DEF CallAbort, a, b
  <2> HIDE DEF s
  <2> QED
    BY <1>0, <2>4, <2>5, BeginsKeeps
<1> QED
  BY <1>1, <1>2, <1>3, <1>5, <1>6 DEF Call

\* A thread that throws ends its call.
LEMMA ThrowsMoves ==
  ASSUME CallsOK, NEW t \in Thread, call[t].todo # <<>>, Throws(t)
  PROVE  Moves(t) /\ call'[t].todo = <<>> /\ ~Merging(t)' /\ ~At(t, "rollback")' /\ ~Serves(t)'
PROOF
<1>1. Moves(t) /\ call'[t].todo = <<>>
  BY GoesMoves, Scripts DEF Throws, Goes, Does
<1> QED
  BY <1>1 DEF Merging, At, Serves, ToSet

LEMMA RunsHead ==
  ASSUME IInv, NEW t \in Thread, NEW step, Runs(t, step)
  PROVE  /\ call[t].todo # <<>> /\ Head(call[t].todo) = step /\ CallsOK
         /\ step \notin {"mergeInit", "commitMerge", "mergeFinish", "failed"} => ~Merging(t)
         /\ halted = "no"
PROOF
  BY DEF Runs, At, Merging, IInv

\* After these steps a call has none left.
LEMMA LastStep ==
  ASSUME CallsOK, NEW t \in Thread, call[t].todo # <<>>,
         Head(call[t].todo) \in {"await", "awoken", "failed"}
  PROVE  ~Serves(t)
PROOF
<1> DEFINE s == call[t].todo
<1>1. Script(s) /\ s # <<>>
  BY DEF CallsOK, CallOK
<1>2. Head(s) \in {"await", "awoken", "failed"}
  OBVIOUS
<1> HIDE DEF s
<1>3. /\ Head(s) = s[1] /\ ToSet(s) = {s[1]} \cup ToSet(Tail(s))
      /\ Tail(s) # <<>> => Follows(s[1], Head(Tail(s)))
  BY <1>1, ScriptTail
<1>4. Tail(s) = <<>>
  BY <1>2, <1>3 DEF Follows
<1>5. ToSet(<<>>) = {}
  BY DEF ToSet
<1>6. "schedule" \notin ToSet(s)
  BY <1>2, <1>3, <1>4, <1>5
<1> QED
  BY <1>6 DEF Serves, s

LEMMA QuietKeeps ==
  ASSUME IInv, NEW t \in Thread,
         \/ FlushNothing(t) \/ FlushClosed(t) \/ NoNextMerge(t) \/ Await(t) \/ Awoken(t)
         \/ AwokenToFailure(t) \/ FinishMerges(t) \/ WaitForClose(t) \/ Shut(t)
         \/ ShutFails(t) \/ Closed(t)
  PROVE  IInv'
PROOF
<1> USE DEF index, merges, optimizing, ending, failures, bounds
<1>1. CASE FlushNothing(t)
  <2>1. Runs(t, "flush") /\ Advances(t) /\ Quiet /\ scheduler' = scheduler
        /\ faults' = faults /\ halted' = halted
    BY <1>1 DEF FlushNothing, Quiet
  <2>2. RestOK'
    BY <1>1 DEF FlushNothing, RestOK, IInv
  <2> QED
    BY <2>1, <2>2, RunsHead, AdvancesMoves, QuietStep
<1>2. CASE FlushClosed(t)
  <2>1. CASE Halts("undefined")
    <3>1. faults' \in Nat
      BY <1>2 DEF FlushClosed, IInv, RestOK
    <3> QED
      BY <2>1, <3>1, HaltStep
  <2>2. CASE ~Halts("undefined")
    <3>1. Runs(t, "flush") /\ Goes(t, <<>>) /\ Quiet /\ scheduler' = scheduler
          /\ faults' = faults /\ halted' = halted
      BY <1>2, <2>2 DEF FlushClosed, Quiet
    <3>2. RestOK'
      BY <1>2, <2>2 DEF FlushClosed, RestOK, IInv
    <3>3. call[t].todo # <<>> /\ Head(call[t].todo) = "flush" /\ CallsOK /\ ~Merging(t)
      BY <3>1, RunsHead
    <3>4. Moves(t) /\ call'[t].todo = <<>>
      BY <3>1, <3>3, GoesMoves, Scripts DEF Goes, Does
    <3>5. ~Merging(t)' /\ ~At(t, "rollback")' /\ ~Serves(t)
      BY <3>3, <3>4 DEF Merging, At, Serves
    <3> QED
      BY <3>1, <3>2, <3>3, <3>4, <3>5, QuietStep
  <2> QED
    BY <2>1, <2>2
<1>3. CASE NoNextMerge(t)
  <2>1. Runs(t, "schedule") /\ Advances(t) /\ Quiet /\ scheduler \in {t, NoOne}
        /\ scheduler' = NoOne /\ pendingMerges = <<>>
        /\ faults' = faults /\ halted' = halted
    BY <1>3 DEF NoNextMerge, Scheduling, Quiet
  <2>2. RestOK'
    BY <1>3 DEF NoNextMerge, RestOK, IInv
  <2>3. call[t].todo # <<>> /\ Head(call[t].todo) = "schedule" /\ CallsOK /\ ~Merging(t)
    BY <2>1, RunsHead
  <2>4. Moves(t) /\ ~Merging(t)' /\ ~At(t, "rollback")'
    BY <2>1, <2>3, AdvancesMoves
  <2> QED
    BY <2>1, <2>2, <2>3, <2>4, QuietStep
<1>4. CASE Await(t) \/ Awoken(t)
  <2>1. Quiet /\ scheduler' = scheduler /\ faults' = faults /\ halted' = halted
    BY <1>4 DEF Await, Awoken, Quiet
  <2>2. RestOK'
    BY <1>4 DEF Await, Awoken, RestOK, IInv
  <2>3. /\ Runs(t, "await") \/ Runs(t, "awoken")
        /\ Goes(t, <<>>) \/ Goes(t, <<"await">>) \/ Goes(t, <<"awoken">>)
    BY <1>4 DEF Await, Awoken
  <2>4. /\ call[t].todo # <<>> /\ Head(call[t].todo) \in {"await", "awoken"}
        /\ CallsOK /\ ~Merging(t)
    BY <2>3, RunsHead
  <2>5. Moves(t) /\ call'[t].todo \in {<<>>, <<"await">>, <<"awoken">>}
    BY <2>3, <2>4, GoesMoves, Scripts DEF Goes, Does
  <2>6. ~Merging(t)' /\ ~At(t, "rollback")'
    BY <2>5 DEF Merging, At
  <2>7. ~Serves(t)
    BY <2>4, LastStep
  <2> QED
    BY <2>1, <2>2, <2>4, <2>5, <2>6, <2>7, QuietStep
<1>5. CASE AwokenToFailure(t)
  <2>1. Runs(t, "awoken") /\ Throws(t) /\ Quiet /\ faults' = faults /\ halted' = halted
    BY <1>5 DEF AwokenToFailure, Quiet
  <2>2. RestOK'
    BY <1>5 DEF AwokenToFailure, Throws, NotifyAll, RestOK, IInv
  <2>3. call[t].todo # <<>> /\ Head(call[t].todo) = "awoken" /\ CallsOK /\ ~Merging(t)
    BY <2>1, RunsHead
  <2>4. Moves(t) /\ ~Merging(t)' /\ ~At(t, "rollback")'
    BY <2>1, <2>3, ThrowsMoves
  <2>5. scheduler' = scheduler \/ (scheduler \in {t, NoOne} /\ scheduler' \in {t, NoOne})
    BY <2>1 DEF Throws
  <2>6. ~Serves(t)
    BY <2>3, LastStep
  <2> QED
    BY <2>1, <2>2, <2>3, <2>4, <2>5, <2>6, QuietStep
<1>6. CASE FinishMerges(t) \/ WaitForClose(t)
  <2>1. Quiet /\ scheduler' = scheduler /\ faults' = faults /\ halted' = halted
    BY <1>6 DEF FinishMerges, WaitForClose, Quiet
  <2>2. RestOK'
    BY <1>6 DEF FinishMerges, WaitForClose, RestOK, IInv
  <2>3. /\ Runs(t, "finishMerges") \/ Runs(t, "waitForClose")
        /\ Advances(t) \/ call' = call
    BY <1>6 DEF FinishMerges, WaitForClose
  <2>4. /\ call[t].todo # <<>> /\ Head(call[t].todo) \in {"finishMerges", "waitForClose"}
        /\ CallsOK /\ ~Merging(t)
    BY <2>3, RunsHead
  <2>5. CASE Advances(t)
    BY <2>1, <2>2, <2>4, <2>5, AdvancesMoves, QuietStep
  <2>6. CASE call' = call
    <3>1. Moves(t)
      BY <2>4, <2>6, StaysMoves
    <3>2. ~Merging(t)' /\ ~At(t, "rollback")' /\ (Serves(t) => Serves(t)')
      BY <2>4, <2>6 DEF Merging, At, Serves
    <3> QED
      BY <2>1, <2>2, <2>4, <3>1, <3>2, QuietStep
  <2> QED
    BY <2>3, <2>5, <2>6
<1>7. CASE Shut(t) \/ Closed(t)
  <2>1. Quiet /\ scheduler' = scheduler /\ faults' = faults /\ halted' = halted
        /\ Advances(t) /\ (Runs(t, "shut") \/ Runs(t, "close"))
    BY <1>7 DEF Shut, Closed, Quiet
  <2>2. RestOK'
    BY <1>7 DEF Shut, Closed, NotifyClosed, NotifyAll, RestOK, IInv
  <2>3. call[t].todo # <<>> /\ Head(call[t].todo) \in {"shut", "close"} /\ CallsOK /\ ~Merging(t)
    BY <2>1, RunsHead
  <2> QED
    BY <2>1, <2>2, <2>3, AdvancesMoves, QuietStep
<1>8. CASE ShutFails(t)
  <2>1. Runs(t, "shut") /\ Throws(t) /\ Quiet /\ faults' = faults + 1 /\ halted' = halted
    BY <1>8 DEF ShutFails, Quiet
  <2>2. RestOK'
    BY <1>8 DEF ShutFails, Throws, NotifyAll, RestOK, IInv
  <2>3. call[t].todo # <<>> /\ CallsOK /\ ~Merging(t)
    BY <2>1, RunsHead
  <2>4. Moves(t) /\ ~Merging(t)' /\ ~At(t, "rollback")'
    BY <2>1, <2>3, ThrowsMoves
  <2>5. scheduler' = scheduler \/ (scheduler \in {t, NoOne} /\ scheduler' \in {t, NoOne})
    BY <2>1 DEF Throws
  <2>6. faults' # 0
    BY <2>1 DEF IInv, RestOK
  <2> QED
    BY <2>1, <2>2, <2>3, <2>4, <2>5, <2>6, QuietStep
<1> QED
  BY <1>1, <1>2, <1>3, <1>4, <1>5, <1>6, <1>7, <1>8

LEMMA HaltKeeps ==
  ASSUME IInv, NEW t \in Thread,
         \/ MergeInitClosed(t) \/ MergeInitFails(t) \/ AwaitPastEnd(t) \/ AwokenToFreed(t)
         \/ StopMergesPastEnd(t) \/ \E step \in {"commitMerge", "mergeFinish", "failed"} : ExceptionsLoop(t, step)
  PROVE  IInv'
PROOF
<1>1. (Halts("undefined") \/ Halts("loops")) /\ (faults' = faults \/ faults' = faults + 1)
  BY DEF MergeInitClosed, MergeInitFails, AwaitPastEnd, AwokenToFreed, StopMergesPastEnd,
         ExceptionsLoop
<1>2. faults' \in Nat
  BY <1>1 DEF IInv, RestOK
<1> QED
  BY <1>1, <1>2, HaltStep

-----------------------------------------------------------------------------
(* The merge that runs.                                                    *)

LEMMA CallsStep ==
  ASSUME CallsOK, NEW t \in Thread, Moves(t), ~At(t, "rollback")' \/ stopMerges',
         stopMerges => stopMerges'
  PROVE  CallsOK'
PROOF
<1> SUFFICES ASSUME NEW u \in Thread
             PROVE  CallOK(call'[u]) /\ (At(u, "rollback")' => stopMerges')
  BY DEF CallsOK, Moves
<1>1. CASE u = t
  BY <1>1 DEF Moves
<1>2. CASE u # t
  <2>1. call'[u] = call[u]
    BY <1>2 DEF Moves
  <2>2. At(u, "rollback")' <=> At(u, "rollback")
    BY <2>1 DEF At
  <2> QED
    BY <2>1, <2>2 DEF CallsOK
<1> QED
  BY <1>1, <1>2

LEMMA MineRuns ==
  ASSUME IInv, NEW t \in Thread, Merging(t)
  PROVE  /\ runningMerges = {Mine(t)} /\ Mine(t).src = call[t].src
         /\ Registered(Mine(t)) /\ Contiguous(Mine(t))
         /\ \A k \in DOMAIN pendingMerges : Uses(Mine(t)) \cap ToSet(pendingMerges[k].src) = {}
         /\ Stage(Mine(t), Head(call[t].todo))
         /\ scheduler = t /\ ~stopMerges
         /\ \A u \in Thread \ {t} : ~Merging(u)
PROOF
<1>1. PICK m \in runningMerges : m.src = call[t].src /\ Stage(m, Head(call[t].todo))
  BY DEF IInv, SchedulerOK
<1>2. Mine(t) \in runningMerges /\ Mine(t).src = call[t].src
  BY <1>1 DEF Mine
<1>3. Mine(t) = m /\ runningMerges = {m}
  BY <1>1, <1>2 DEF IInv, RunningOK
<1>4. scheduler = t /\ \A u \in Thread \ {t} : ~Merging(u)
  BY DEF IInv, SchedulerOK
<1>5. ~stopMerges
  BY <1>1 DEF IInv, RegistryOK
<1>6. /\ Registered(m) /\ Contiguous(m)
      /\ \A k \in DOMAIN pendingMerges : Uses(m) \cap ToSet(pendingMerges[k].src) = {}
  BY <1>1 DEF IInv, RunningOK
<1> QED
  BY <1>1, <1>2, <1>3, <1>4, <1>5, <1>6

\* Who may run a merge when a thread is about to.
LEMMA NobodyRuns ==
  ASSUME IInv, NEW t \in Thread, ~Merging(t), scheduler \in {NoOne, t}
  PROVE  runningMerges = {} /\ \A u \in Thread : ~Merging(u)
PROOF
<1>1. \A u \in Thread : ~Merging(u)
  BY NoOneAssumption DEF IInv, SchedulerOK
<1> QED
  BY <1>1 DEF IInv, SchedulerOK

LEMMA OthersMerging ==
  ASSUME NEW t \in Thread, Moves(t)
  PROVE  \A u \in Thread \ {t} : Merging(u)' <=> Merging(u)
PROOF
<1>1. ASSUME NEW u \in Thread \ {t} PROVE Merging(u)' <=> Merging(u)
  <2>1. call'[u] = call[u]
    BY DEF Moves
  <2> QED
    BY <2>1 DEF Merging, At
<1> QED
  BY <1>1

LEMMA RunStep ==
  ASSUME NEW t \in Thread, Moves(t), \A u \in Thread \ {t} : ~Merging(u),
         scheduler' = t, Merging(t)', NEW m, runningMerges' = {m}, m.src = call'[t].src,
         NEW step, Head(call'[t].todo) = step, Stage(m, step)'
  PROVE  SchedulerOK'
PROOF
<1>1. \A u \in Thread \ {t} : ~Merging(u)'
  BY OthersMerging
<1>2. \A u \in Thread : Merging(u)' =>
         /\ scheduler' = u
         /\ \E n \in runningMerges' : n.src = call'[u].src /\ Stage(n, Head(call[u].todo))'
  BY <1>1 DEF Stage
<1> QED
  BY <1>2 DEF SchedulerOK

LEMMA EndStep ==
  ASSUME NEW t \in Thread, Moves(t), \A u \in Thread \ {t} : ~Merging(u), ~Merging(t)',
         scheduler' \in Thread \cup {NoOne}, runningMerges' = {}
  PROVE  SchedulerOK'
PROOF
<1>1. \A u \in Thread : ~Merging(u)'
  BY OthersMerging
<1> QED
  BY <1>1 DEF SchedulerOK

-----------------------------------------------------------------------------
(* The index grows.                                                        *)

LEMMA NamesBelow ==
  ASSUME NEW a \in Nat, NEW b \in Nat, b > a
  PROVE  a \in 0..(b - 1) /\ 0..(a - 1) \subseteq 0..(b - 1)
PROOF
  OBVIOUS

LEMMA Grown ==
  ASSUME IndexOK, segmentInfos' = Append(segmentInfos, counter),
         counter' \in Nat, counter' > counter
  PROVE  /\ segmentInfos' \in Seq(0..(counter' - 1)) /\ IsInjective(segmentInfos')
         /\ ToSet(segmentInfos') = ToSet(segmentInfos) \cup {counter}
         /\ ToSet(segmentInfos) \subseteq 0..(counter - 1)
         /\ counter \notin ToSet(segmentInfos)
         /\ \A m \in Merge : Contiguous(m) => Contiguous(m)'
PROOF
<1> DEFINE s == segmentInfos
           T == 0..(counter' - 1)
<1>1. s \in Seq(T) /\ counter \in T /\ counter \in Nat
  <2>1. counter \in Nat /\ s \in Seq(0..(counter - 1))
    BY DEF IndexOK
  <2>2. counter \in T /\ 0..(counter - 1) \subseteq T
    BY <2>1, NamesBelow, Zenon
  <2> HIDE DEF T
  <2> QED
    BY <2>1, <2>2, SeqMonotonic
<1>2. /\ Len(s) \in Nat /\ DOMAIN s = 1..Len(s)
      /\ \A i \in 1..Len(s) : s[i] \in 0..(counter - 1)
  BY LenProperties, ElementOfSeq DEF IndexOK
<1> HIDE DEF T
<1>3. /\ segmentInfos' \in Seq(T) /\ Len(segmentInfos') = Len(s) + 1
      /\ \A i \in 1..Len(s) : segmentInfos'[i] = s[i]
      /\ segmentInfos'[Len(s) + 1] = counter
      /\ DOMAIN segmentInfos' = 1..(Len(s) + 1)
  BY <1>1, <1>2, AppendProperties, LenProperties
<1>4. ToSet(s) \subseteq 0..(counter - 1) /\ counter \notin ToSet(s)
  BY <1>1, <1>2 DEF ToSet
<1>5. ToSet(segmentInfos') = ToSet(s) \cup {counter}
  <2>1. ASSUME NEW i \in 1..(Len(s) + 1) PROVE segmentInfos'[i] \in ToSet(s) \cup {counter}
    <3>1. i \in 1..Len(s) \/ i = Len(s) + 1
      BY <1>2
    <3> QED
      BY <3>1, <1>2, <1>3 DEF ToSet
  <2>2. ASSUME NEW i \in 1..Len(s) PROVE s[i] \in ToSet(segmentInfos')
    <3>1. i \in 1..(Len(s) + 1)
      BY <1>2
    <3> QED
      BY <3>1, <1>3 DEF ToSet
  <2>3. counter \in ToSet(segmentInfos')
    BY <1>2, <1>3 DEF ToSet
  <2>4. ToSet(segmentInfos') \subseteq ToSet(s) \cup {counter}
    BY <2>1, <1>3 DEF ToSet
  <2>5. ToSet(s) \subseteq ToSet(segmentInfos')
    BY <2>2, <1>2 DEF ToSet
  <2> QED
    BY <2>3, <2>4, <2>5
<1>6. IsInjective(segmentInfos')
  <2> SUFFICES ASSUME NEW i \in 1..(Len(s) + 1), NEW j \in 1..(Len(s) + 1),
                      segmentInfos'[i] = segmentInfos'[j]
               PROVE  i = j
    BY <1>3 DEF IsInjective
  <2>1. \A k \in 1..(Len(s) + 1) : k \in 1..Len(s) \/ k = Len(s) + 1
    BY <1>2
  <2>2. CASE i \in 1..Len(s) /\ j \in 1..Len(s)
    BY <2>2, <1>2, <1>3 DEF IsInjective, IndexOK
  <2>3. CASE i \in 1..Len(s) /\ j = Len(s) + 1
    BY <2>3, <1>1, <1>2, <1>3
  <2>4. CASE i = Len(s) + 1 /\ j \in 1..Len(s)
    BY <2>4, <1>1, <1>2, <1>3
  <2> QED
    BY <2>1, <2>2, <2>3, <2>4
<1>7. ASSUME NEW m \in Merge, Contiguous(m) PROVE Contiguous(m)'
  <2> SUFFICES ASSUME m.out \notin ToSet(segmentInfos')
               PROVE  \E i \in 0..Len(segmentInfos') : Lies(segmentInfos', m.src, i)
    BY DEF Contiguous
  <2>1. PICK i \in 0..Len(s) : Lies(s, m.src, i)
    BY <1>5, <1>7 DEF Contiguous
  <2>2. i \in 0..Len(segmentInfos')
    BY <1>2, <1>3
  <2>3. Len(m.src) \in Nat
    BY LenProperties DEF Merge
  <2>4. Lies(segmentInfos', m.src, i)
    <3>1. i \in 0..(Len(s) - Len(m.src)) /\ \A k \in 1..Len(m.src) : s[i + k] = m.src[k]
      BY <2>1 DEF Lies
    <3>2. i \in 0..(Len(segmentInfos') - Len(m.src))
      <4>1. i \in 0..(Len(s) - Len(m.src)) /\ Len(s) \in Nat
        BY <3>1, <1>2
      <4>2. Len(segmentInfos') = Len(s) + 1
        BY <1>3
      <4> QED
        BY <4>1, <4>2, <2>3
    <3>3. \A k \in 1..Len(m.src) : i + k \in 1..Len(s)
      BY <3>1, <2>3, <1>2
    <3> QED
      BY <3>1, <3>2, <3>3, <1>3 DEF Lies
  <2> QED
    BY <2>2, <2>4
<1> QED
  BY <1>3, <1>4, <1>5, <1>6, <1>7 DEF T

-----------------------------------------------------------------------------
(* Registering merges.                                                     *)

LEMMA UsesPending ==
  ASSUME NEW m, m.out = None
  PROVE  Uses(m) = ToSet(m.src)
PROOF
  BY DEF Uses, Bound

Used(S) == UNION {Uses(m) : m \in S}
Sources(c, n) == UNION {ToSet(c[i].src) : i \in 1..n}

LEMMA UsedUnion ==
  ASSUME NEW S, NEW T
  PROVE  Used(S \cup T) = Used(S) \cup Used(T)
PROOF
<1>1. \A R, x : x \in Used(R) <=> \E m \in R : x \in Uses(m)
  BY DEF Used
<1>2. Used(S \cup T) \subseteq Used(S) \cup Used(T)
  BY <1>1
<1>3. Used(S) \cup Used(T) \subseteq Used(S \cup T)
  BY <1>1
<1> QED
  BY <1>2, <1>3

\* What the members of s \o c are.
LEMMA CatMembers ==
  ASSUME NEW S, NEW s \in Seq(S), NEW c \in Seq(S)
  PROVE  /\ s \o c \in Seq(S) /\ Len(s) \in Nat /\ DOMAIN s = 1..Len(s)
         /\ \A k \in DOMAIN (s \o c) :
               \/ k \in DOMAIN s /\ (s \o c)[k] = s[k]
               \/ k \in Int /\ k - Len(s) \in DOMAIN c /\ (s \o c)[k] = c[k - Len(s)]
         /\ \A k \in DOMAIN s : k \in DOMAIN (s \o c) /\ (s \o c)[k] = s[k]
         /\ \A i \in DOMAIN c : Len(s) + i \in DOMAIN (s \o c) /\ (s \o c)[Len(s) + i] = c[i]
PROOF
<1> DEFINE q == s \o c
           a == Len(s)
           b == Len(c)
<1>1. /\ a \in Nat /\ DOMAIN s = 1..a /\ b \in Nat /\ DOMAIN c = 1..b
      /\ q \in Seq(S) /\ Len(q) = a + b
      /\ \A k \in 1..(a + b) : q[k] = IF k <= a THEN s[k] ELSE c[k - a]
  BY ConcatProperties, LenProperties
<1>2. DOMAIN q = 1..(a + b)
  BY <1>1, LenProperties
<1> HIDE DEF q, a, b
<1>3. \A k \in DOMAIN q : \/ k \in DOMAIN s /\ q[k] = s[k]
                          \/ k \in Int /\ k - a \in DOMAIN c /\ q[k] = c[k - a]
  <2> TAKE k \in DOMAIN q
  <2>1. k \in 1..(a + b) /\ k \in Int
    BY <1>1, <1>2
  <2>2. k <= a => k \in 1..a /\ q[k] = s[k]
    BY <2>1, <1>1
  <2>3. ~(k <= a) => k - a \in 1..b /\ q[k] = c[k - a]
    BY <2>1, <1>1
  <2>4. DOMAIN s = 1..a /\ DOMAIN c = 1..b
    BY <1>1
  <2> QED
    BY <2>1, <2>2, <2>3, <2>4, Zenon
<1>4. \A k \in DOMAIN s : k \in DOMAIN q /\ q[k] = s[k]
  BY <1>1, <1>2
<1>5. \A i \in DOMAIN c : a + i \in DOMAIN q /\ q[a + i] = c[i]
  <2> TAKE i \in DOMAIN c
  <2>1. a + i \in 1..(a + b) /\ ~(a + i <= a) /\ (a + i) - a = i
    BY <1>1
  <2> QED
    BY <2>1, <1>1, <1>2
<1> QED
  BY <1>1, <1>3, <1>4, <1>5, Zenon DEF q, a

LEMMA IsSeq ==
  ASSUME NEW S, NEW n \in Nat, NEW c \in [1..n -> S]
  PROVE  c \in Seq(S)
PROOF
  OBVIOUS

\* A merge that may be registered.
Fresh(m) == Registered(m) /\ Contiguous(m) /\ m.out = None

LEMMA NewMergeOK ==
  ASSUME IndexOK, mergeGen \in Nat, NEW range, InIndex(range),
         NEW opt \in BOOLEAN, NEW max \in 0..MaxSegments
  PROVE  Fresh(NewMerge(range, opt, max))
PROOF
<1> DEFINE s == segmentInfos
           T == 0..(counter - 1)
           a == range[1]
           b == range[2]
           src == SubSeq(s, a, b)
           m == NewMerge(range, opt, max)
<1>1. s \in Seq(T) /\ Len(s) \in Nat /\ DOMAIN s = 1..Len(s)
  BY LenProperties DEF IndexOK
<1>2. a \in 1..Len(s) /\ b \in a..Len(s)
  BY <1>1 DEF InIndex
<1>3. a \in Int /\ b \in Int /\ 1 <= a /\ a <= b /\ b <= Len(s)
  BY <1>1, <1>2
<1> HIDE DEF a, b, T
<1>4. \A i \in a..b : s[i] \in T
  <2>1. \A i \in a..b : i \in 1..Len(s)
    BY <1>1, <1>3
  <2> QED
    BY <1>1, <2>1, ElementOfSeq
<1>5. /\ src \in Seq(T) /\ Len(src) = b - a + 1
      /\ \A i \in 1..(b - a + 1) : src[i] = s[a + i - 1]
  BY <1>3, <1>4, SubSeqProperties
<1>6. /\ m.src = src /\ m.optimize = opt /\ m.max = max /\ m.gen = mergeGen
      /\ m.out = None /\ m.snap = <<>>
      /\ m = [src |-> src, optimize |-> opt, max |-> max, gen |-> mergeGen,
              out |-> None, snap |-> <<>>]
  BY DEF NewMerge, a, b
<1> HIDE DEF src, m
<1>7. src # <<>>
  BY <1>3, <1>5
<1>8. m \in Merge
  <2>1. T \subseteq Nat
    BY DEF T
  <2>2. src \in Seq(Nat)
    BY <1>5, <2>1, SeqMonotonic
  <2>3. <<>> \in Seq(SUBSET Document)
    BY EmptySeq
  <2> QED
    BY <1>6, <2>2, <2>3 DEF Merge
<1>9. Uses(m) \subseteq T
  <2>1. DOMAIN src = 1..Len(src) /\ \A i \in 1..Len(src) : src[i] \in T
    BY <1>5, LenProperties, ElementOfSeq
  <2>2. ToSet(src) \subseteq T
    BY <2>1 DEF ToSet
  <2> QED
    BY <2>2, <1>6, UsesPending
<1>10. Lies(s, src, a - 1)
  <2>1. a - 1 \in 0..(Len(s) - Len(src))
    BY <1>1, <1>3, <1>5
  <2>2. ASSUME NEW k \in 1..Len(src) PROVE s[(a - 1) + k] = src[k]
    <3>1. (a - 1) + k = a + k - 1 /\ k \in 1..(b - a + 1)
      BY <1>3, <1>5
    <3> QED
      BY <3>1, <1>5
  <2> QED
    BY <2>1, <2>2 DEF Lies
<1>11. Contiguous(m)
  <2>1. a - 1 \in 0..Len(s)
    BY <1>1, <1>3
  <2> QED
    BY <2>1, <1>6, <1>10 DEF Contiguous
<1> QED
  BY <1>6, <1>7, <1>8, <1>9, <1>11 DEF Fresh, Registered, m, T

\* Merges that are registered have no segment in common with one another or
\* with what is merging.
LEMMA RegistersOK ==
  ASSUME NEW ranges, NEW asked, \A k \in DOMAIN ranges : InIndex(ranges[k]) => Fresh(asked[k]),
         NEW n \in Nat, NEW nth \in [1..n -> DOMAIN ranges], NEW merging,
         Registers(ranges, asked, nth, merging)
  PROVE  /\ \A i \in 1..n : Fresh(asked[nth[i]]) /\ ToSet(asked[nth[i]].src) \cap merging = {}
         /\ \A i, j \in 1..n :
              i # j => ToSet(asked[nth[i]].src) \cap ToSet(asked[nth[j]].src) = {}
PROOF
<1>1. ASSUME NEW i \in 1..n
      PROVE  /\ InIndex(ranges[nth[i]])
             /\ ToSet(asked[nth[i]].src) \cap merging = {}
             /\ \A j \in 1..n : nth[j] < nth[i] =>
                  ToSet(asked[nth[i]].src) \cap ToSet(asked[nth[j]].src) = {}
  <2> DEFINE taken == UNION {ToSet(asked[nth[j]].src) : j \in {j \in DOMAIN nth : nth[j] < nth[i]}}
  <2>1. nth[i] \in DOMAIN ranges /\ DOMAIN nth = 1..n
    OBVIOUS
  <2>2. InIndex(ranges[nth[i]]) /\ Free(asked[nth[i]], merging \cup taken)
    BY <2>1, Zenon DEF Registers
  <2>3. ToSet(asked[nth[i]].src) \cap (merging \cup taken) = {}
    BY <2>2 DEF Free
  <2>4. \A j \in 1..n : nth[j] < nth[i] => ToSet(asked[nth[j]].src) \subseteq taken
    BY <2>1, Zenon
  <2> HIDE DEF taken
  <2> QED
    BY <2>2, <2>3, <2>4
<1>2. ASSUME NEW i \in 1..n PROVE Fresh(asked[nth[i]])
  BY <1>1
<1>3. ASSUME NEW i \in 1..n, NEW j \in 1..n, i # j
      PROVE  ToSet(asked[nth[i]].src) \cap ToSet(asked[nth[j]].src) = {}
  <2>1. i < j \/ j < i
    BY <1>3
  <2>2. i < j => nth[i] < nth[j]
    BY DEF Registers
  <2>3. j < i => nth[j] < nth[i]
    BY DEF Registers
  <2> QED
    BY <2>1, <2>2, <2>3, <1>1
<1> QED
  BY <1>1, <1>2, <1>3

\* The merges c[1]..c[n] that may be registered when these segments are merging.
Apart(c, n, merging) ==
    /\ \A i \in 1..n : Fresh(c[i]) /\ ToSet(c[i].src) \cap merging = {}
    /\ \A i, j \in 1..n : i # j => ToSet(c[i].src) \cap ToSet(c[j].src) = {}

\* They come after the P merges that were pending.
Adds(c, n, P) ==
    /\ DOMAIN pendingMerges = 1..P
    /\ pendingMerges' \in Seq(Merge)
    /\ \A k \in DOMAIN pendingMerges' :
         \/ k \in 1..P /\ pendingMerges'[k] = pendingMerges[k]
         \/ k \in Int /\ k - P \in 1..n /\ pendingMerges'[k] = c[k - P]
    /\ \A k \in 1..P : k \in DOMAIN pendingMerges' /\ pendingMerges'[k] = pendingMerges[k]
    /\ \A i \in 1..n : P + i \in DOMAIN pendingMerges' /\ pendingMerges'[P + i] = c[i]

\* The merges that run were registered, apart from those that are pending.
StillRuns ==
    /\ \A m \in runningMerges' :
         /\ Registered(m) /\ Contiguous(m)
         /\ \A k \in DOMAIN pendingMerges : Uses(m) \cap ToSet(pendingMerges[k].src) = {}
    /\ \A m, k \in runningMerges' : m = k

\* updatePendingMerges keeps the merges apart, and mergingSegments exact.
LEMMA RegisterStep ==
  ASSUME PendingOK, UNCHANGED index, ~stopMerges, StillRuns, NEW n \in Nat, NEW c, NEW merging,
         Apart(c, n, merging), NEW P \in Nat, Adds(c, n, P),
         mergingSegments' = merging \cup Sources(c, n),
         merging = Used(ToSet(pendingMerges) \cup runningMerges')
  PROVE  PendingOK' /\ RunningOK' /\ MergingExact' /\ mergingSegments' \subseteq 0..(counter - 1)
PROOF
<1> DEFINE q == pendingMerges'
<1>1. /\ \A i \in 1..n : /\ Registered(c[i]) /\ Contiguous(c[i]) /\ c[i].out = None
                         /\ ToSet(c[i].src) \cap merging = {}
                         /\ Uses(c[i]) = ToSet(c[i].src)
      /\ \A i, j \in 1..n : i # j => ToSet(c[i].src) \cap ToSet(c[j].src) = {}
  BY UsesPending DEF Fresh, Apart
<1>3. mergingSegments' = merging \cup Sources(c, n)
  OBVIOUS
<1>5. pendingMerges \in Seq(Merge) /\ P \in Nat /\ DOMAIN pendingMerges = 1..P
  BY DEF PendingOK, Adds
<1>6. /\ q \in Seq(Merge)
      /\ \A k \in 1..P : k \in DOMAIN q /\ q[k] = pendingMerges[k]
      /\ \A i \in 1..n : P + i \in DOMAIN q /\ q[P + i] = c[i]
  BY DEF Adds
<1>7. ASSUME NEW k \in DOMAIN q
      PROVE  \/ k \in 1..P /\ q[k] = pendingMerges[k]
             \/ k \in Int /\ k - P \in 1..n /\ q[k] = c[k - P]
  BY DEF Adds
<1> HIDE DEF q
<1>8. \A m : Registered(m)' = Registered(m) /\ Contiguous(m)' = Contiguous(m)
  BY DEF index, Registered, Contiguous
<1>9. \A k \in 1..P : /\ Registered(pendingMerges[k]) /\ Contiguous(pendingMerges[k])
                      /\ pendingMerges[k].out = None
                      /\ Uses(pendingMerges[k]) = ToSet(pendingMerges[k].src)
                      /\ ToSet(pendingMerges[k].src) \subseteq merging
  <2>1. \A k \in 1..P : /\ Registered(pendingMerges[k]) /\ Contiguous(pendingMerges[k])
                        /\ pendingMerges[k].out = None
    BY <1>5 DEF PendingOK
  <2>2. \A k \in 1..P : pendingMerges[k] \in ToSet(pendingMerges)
    BY <1>5 DEF ToSet
  <2>3. \A k \in 1..P : Uses(pendingMerges[k]) = ToSet(pendingMerges[k].src)
    BY <2>1, UsesPending
  <2>4. \A k \in 1..P : Uses(pendingMerges[k]) \subseteq merging
    BY <2>2 DEF Used
  <2> QED
    BY <2>1, <2>3, <2>4
<1>10. \A k \in DOMAIN q : Registered(q[k]) /\ Contiguous(q[k]) /\ q[k].out = None
  BY <1>1, <1>7, <1>9
<1>11. ASSUME NEW j \in DOMAIN q, NEW k \in DOMAIN q, j # k
       PROVE  ToSet(q[j].src) \cap ToSet(q[k].src) = {}
  <2>1. CASE j \in 1..P /\ q[j] = pendingMerges[j] /\ k \in 1..P /\ q[k] = pendingMerges[k]
    BY <2>1, <1>5, <1>11 DEF PendingOK
  <2>2. CASE j \in 1..P /\ q[j] = pendingMerges[j] /\ k - P \in 1..n /\ q[k] = c[k - P]
    BY <2>2, <1>1, <1>9
  <2>3. CASE j - P \in 1..n /\ q[j] = c[j - P] /\ k \in 1..P /\ q[k] = pendingMerges[k]
    BY <2>3, <1>1, <1>9
  <2>4. CASE j - P \in 1..n /\ q[j] = c[j - P] /\ k - P \in 1..n /\ q[k] = c[k - P]
    <3>1. j - P # k - P
      <4>1. j \in Int /\ k \in Int
        BY <2>4, <1>7, <1>5
      <4> QED
        BY <4>1, <1>11
    <3> QED
      BY <2>4, <3>1, <1>1
  <2> QED
    BY <1>7, <2>1, <2>2, <2>3, <2>4
<1>12. PendingOK'
  <2>1. q \in Seq(Merge)
    BY <1>6
  <2> QED
    BY <2>1, <1>8, <1>10, <1>11 DEF PendingOK, q
<1>13. ASSUME NEW m \in runningMerges', NEW k \in DOMAIN q
       PROVE  Uses(m) \cap ToSet(q[k].src) = {}
  <2>1. Uses(m) \subseteq merging
    BY DEF Used
  <2>2. CASE k \in 1..P /\ q[k] = pendingMerges[k]
    BY <2>2, <1>5 DEF StillRuns
  <2>3. CASE k - P \in 1..n /\ q[k] = c[k - P]
    BY <2>1, <2>3, <1>1
  <2> QED
    BY <1>7, <2>2, <2>3
<1>14. RunningOK'
  <2>1. \A m : Uses(m)' = Uses(m)
    BY DEF Uses, Bound
  <2> QED
    BY <2>1, <1>8, <1>13 DEF RunningOK, StillRuns, q
<1>15. ToSet(q) = ToSet(pendingMerges) \cup {c[i] : i \in 1..n}
  <2>3. ASSUME NEW k \in 1..P PROVE pendingMerges[k] \in ToSet(q)
    BY <1>6 DEF ToSet
  <2>4. ASSUME NEW i \in 1..n PROVE c[i] \in ToSet(q)
    BY <1>6 DEF ToSet
  <2>5. ASSUME NEW k \in DOMAIN q PROVE q[k] \in ToSet(pendingMerges) \cup {c[i] : i \in 1..n}
    <3>1. CASE k \in 1..P /\ q[k] = pendingMerges[k]
      BY <3>1, <1>5 DEF ToSet
    <3>2. CASE k - P \in 1..n /\ q[k] = c[k - P]
      BY <3>2
    <3> QED
      BY <3>1, <3>2, <1>7
  <2>6. ToSet(pendingMerges) \subseteq ToSet(q)
    BY <2>3, <1>5 DEF ToSet
  <2>7. {c[i] : i \in 1..n} \subseteq ToSet(q)
    BY <2>4
  <2>8. ToSet(q) \subseteq ToSet(pendingMerges) \cup {c[i] : i \in 1..n}
    BY <2>5 DEF ToSet
  <2> QED
    BY <2>6, <2>7, <2>8
<1>16. mergingSegments' = Used(ToSet(q) \cup runningMerges')
  <2> DEFINE new == {c[i] : i \in 1..n}
             old == ToSet(pendingMerges) \cup runningMerges'
  <2>1. ToSet(q) \cup runningMerges' = old \cup new
    BY <1>15
  <2>2. Used(new) = Sources(c, n)
    <3>1. \A x \in Used(new) : \E i \in 1..n : x \in ToSet(c[i].src)
      BY <1>1 DEF Used
    <3>2. \A i \in 1..n : \A x \in ToSet(c[i].src) : x \in Used(new)
      BY <1>1 DEF Used
    <3> HIDE DEF new
    <3> QED
      BY <3>1, <3>2 DEF Sources
  <2>3. merging = Used(old)
    OBVIOUS
  <2> HIDE DEF new, old
  <2>4. Used(old \cup new) = Used(old) \cup Used(new)
    BY UsedUnion
  <2> QED
    BY <2>1, <2>2, <2>3, <2>4, <1>3, Zenon
<1>17. MergingExact'
  BY <1>16 DEF MergingExact, Registereds, q, Used
<1>18. mergingSegments' \subseteq 0..(counter - 1)
  <2>1. \A k \in DOMAIN q : Uses(q[k]) \subseteq 0..(counter - 1)
    BY <1>10 DEF Registered
  <2>2. \A m \in ToSet(q) : Uses(m) \subseteq 0..(counter - 1)
    BY <2>1 DEF ToSet
  <2>3. \A m \in runningMerges' : Uses(m) \subseteq 0..(counter - 1)
    BY DEF Registered, StillRuns
  <2>4. Used(ToSet(q) \cup runningMerges') \subseteq 0..(counter - 1)
    BY <2>2, <2>3 DEF Used
  <2> QED
    BY <2>4, <1>16, Zenon
<1> QED
  BY <1>12, <1>14, <1>17, <1>18

Appends(c) == pendingMerges' = pendingMerges \o c

LEMMA Appended ==
  ASSUME pendingMerges \in Seq(Merge), NEW n \in Nat, NEW c \in Seq(Merge), DOMAIN c = 1..n,
         Appends(c)
  PROVE  \E P \in Nat : Adds(c, n, P)
PROOF
<1> DEFINE q == pendingMerges \o c
           P == Len(pendingMerges)
<1>1. /\ q \in Seq(Merge) /\ P \in Nat /\ DOMAIN pendingMerges = 1..P
      /\ \A k \in DOMAIN q : \/ k \in DOMAIN pendingMerges /\ q[k] = pendingMerges[k]
                             \/ k \in Int /\ k - P \in DOMAIN c /\ q[k] = c[k - P]
      /\ \A k \in DOMAIN pendingMerges : k \in DOMAIN q /\ q[k] = pendingMerges[k]
      /\ \A i \in DOMAIN c : P + i \in DOMAIN q /\ q[P + i] = c[i]
  BY CatMembers
<1>2. pendingMerges' = q
  BY DEF Appends
<1> HIDE DEF q, P
<1>3. Adds(c, n, P)
  BY <1>1, <1>2 DEF Adds
<1> QED
  BY <1>1, <1>3

\* What updatePendingMerges chose of these merges.
Chosen(ranges, asked, merging) ==
    /\ stopMerges => ranges = <<>>
    /\ \A k \in DOMAIN ranges : InIndex(ranges[k]) => Fresh(asked[k])
    /\ \E n \in 0..Len(ranges) : \E nth \in [1..n -> DOMAIN ranges] :
         /\ Registers(ranges, asked, nth, merging)
         /\ pendingMerges' = pendingMerges \o [i \in 1..n |-> asked[nth[i]]]
         /\ mergingSegments' = merging \cup UNION {ToSet(asked[nth[i]].src) : i \in 1..n}

\* It keeps the merges apart, and mergingSegments exact.
LEMMA ChosenKeeps ==
  ASSUME IInv, UNCHANGED index, UNCHANGED stopMerges, runningMerges' \subseteq runningMerges,
         NEW ranges, NEW asked, NEW merging, merging \subseteq mergingSegments,
         Chosen(ranges, asked, merging),
         ~stopMerges => merging = Used(ToSet(pendingMerges) \cup runningMerges')
  PROVE  /\ PendingOK' /\ RunningOK' /\ MergingExact' /\ mergingSegments' \subseteq 0..(counter - 1)
         /\ stopMerges => pendingMerges' = <<>>
PROOF
<1>1. /\ stopMerges => ranges = <<>>
      /\ \A k \in DOMAIN ranges : InIndex(ranges[k]) => Fresh(asked[k])
  BY Zenon DEF Chosen
<1>2. PICK n \in 0..Len(ranges) : \E nth \in [1..n -> DOMAIN ranges] :
        /\ Registers(ranges, asked, nth, merging)
        /\ pendingMerges' = pendingMerges \o [i \in 1..n |-> asked[nth[i]]]
        /\ mergingSegments' = merging \cup UNION {ToSet(asked[nth[i]].src) : i \in 1..n}
  BY Zenon DEF Chosen
<1>3. PICK nth \in [1..n -> DOMAIN ranges] :
        /\ Registers(ranges, asked, nth, merging)
        /\ pendingMerges' = pendingMerges \o [i \in 1..n |-> asked[nth[i]]]
        /\ mergingSegments' = merging \cup UNION {ToSet(asked[nth[i]].src) : i \in 1..n}
  BY <1>2, Zenon
<1>4. n \in Nat
  OBVIOUS
<1> DEFINE c == [i \in 1..n |-> asked[nth[i]]]
<1>5. DOMAIN c = 1..n /\ \A i \in 1..n : c[i] = asked[nth[i]]
  OBVIOUS
<1>6. Appends(c)
  BY <1>3 DEF Appends
<1>7. c \in [1..n -> {asked[nth[i]] : i \in 1..n}]
  OBVIOUS
<1> HIDE DEF c
<1>8. mergingSegments' = merging \cup Sources(c, n)
  <2>1. {ToSet(c[i].src) : i \in 1..n} = {ToSet(asked[nth[i]].src) : i \in 1..n}
    BY <1>5
  <2> QED
    BY <2>1, <1>3, Zenon DEF Sources
<1>9. Apart(c, n, merging)
  <2>1. /\ \A i \in 1..n : Fresh(asked[nth[i]]) /\ ToSet(asked[nth[i]].src) \cap merging = {}
        /\ \A i, j \in 1..n :
             i # j => ToSet(asked[nth[i]].src) \cap ToSet(asked[nth[j]].src) = {}
    BY <1>1, <1>3, <1>4, RegistersOK
  <2>2. /\ \A i \in 1..n : Fresh(c[i]) /\ ToSet(c[i].src) \cap merging = {}
        /\ \A i, j \in 1..n : i # j => ToSet(c[i].src) \cap ToSet(c[j].src) = {}
    BY <2>1, <1>5, Zenon
  <2> QED
    BY <2>2, Zenon DEF Apart
<1>10. PendingOK /\ StillRuns
  BY DEF IInv, RunningOK, StillRuns
<1>11. CASE ~stopMerges
  <2>1. c \in Seq(Merge)
    <3>1. \A i \in 1..n : c[i] \in Merge
      BY <1>9 DEF Apart, Fresh, Registered
    <3>2. c \in [1..n -> Merge]
      BY <3>1, <1>5, <1>7
    <3> QED
      BY <3>2, <1>4, IsSeq
  <2>2. pendingMerges \in Seq(Merge)
    BY <1>10 DEF PendingOK
  <2>3. PICK P \in Nat : Adds(c, n, P)
    BY <2>1, <2>2, <1>4, <1>5, <1>6, Appended, Zenon
  <2>4. merging = Used(ToSet(pendingMerges) \cup runningMerges')
    BY <1>11
  <2>5. PendingOK' /\ RunningOK' /\ MergingExact' /\ mergingSegments' \subseteq 0..(counter - 1)
    BY <1>4, <1>8, <1>9, <1>10, <1>11, <2>3, <2>4, RegisterStep, Zenon
  <2> QED
    BY <1>11, <2>5
<1>12. CASE stopMerges
  <2>1. pendingMerges = <<>> /\ runningMerges = {} /\ runningMerges' = {}
    BY <1>12 DEF IInv, RegistryOK
  <2>2. n = 0
    BY <1>1, <1>12
  <2>3. pendingMerges' = <<>>
    <3>1. c = <<>>
      BY <2>2 DEF c
    <3>2. pendingMerges' = <<>> \o <<>>
      BY <1>6, <2>1, <3>1, Zenon DEF Appends
    <3> QED
      BY <3>2
  <2>4. mergingSegments' = merging
    <3>1. {ToSet(c[i].src) : i \in 1..n} = {}
      BY <2>2
    <3> QED
      BY <1>8, <3>1 DEF Sources
  <2>5. PendingOK' /\ RunningOK'
    BY <2>1, <2>3 DEF PendingOK, RunningOK
  <2>6. MergingExact'
    BY <1>12 DEF MergingExact
  <2>7. mergingSegments' \subseteq 0..(counter - 1)
    BY <2>4 DEF IInv, RegistryOK
  <2> QED
    BY <2>3, <2>5, <2>6, <2>7
<1> QED
  BY <1>11, <1>12

-----------------------------------------------------------------------------
(* The steps that choose merges.                                           *)

LEMMA SelectChooses ==
  ASSUME IInv, NEW t \in Thread, Select(t) \/ SelectOptimize(t)
  PROVE  overtaken' \in BOOLEAN /\ \E ranges, asked, S : S = mergingSegments /\ Chosen(ranges, asked, S)
PROOF
<1>1. PICK S : S = mergingSegments
  OBVIOUS
<1>2. /\ IndexOK /\ mergeGen \in Nat /\ overtaken \in BOOLEAN
      /\ call[t].max \in 0..MaxSegments /\ 0 \in 0..MaxSegments
  BY BoundsAssumption DEF IInv, RestOK, CallsOK, CallOK
<1>3. CASE Select(t)
  <2>1. PICK ranges \in {IF stopMerges THEN <<>> ELSE Asked(FALSE, 0)} :
        \E asked \in {[k \in DOMAIN ranges |-> NewMerge(ranges[k], FALSE, 0)]} :
        \E n \in 0..Len(ranges) : \E nth \in [1..n -> DOMAIN ranges] :
          LET segs == UNION {ToSet(asked[nth[i]].src) : i \in 1..n}
          IN  /\ Registers(ranges, asked, nth, mergingSegments)
              /\ pendingMerges' = pendingMerges \o [i \in 1..n |-> asked[nth[i]]]
              /\ mergingSegments' = mergingSegments \cup segs
              /\ overtaken' = (overtaken \/ (~FALSE /\ segs \cap segmentsToOptimize # {}))
    BY <1>3, Zenon DEF Select, UpdatePendingMerges
  <2>2. PICK asked \in {[k \in DOMAIN ranges |-> NewMerge(ranges[k], FALSE, 0)]} :
        \E n \in 0..Len(ranges) : \E nth \in [1..n -> DOMAIN ranges] :
          /\ Registers(ranges, asked, nth, mergingSegments)
          /\ pendingMerges' = pendingMerges \o [i \in 1..n |-> asked[nth[i]]]
          /\ mergingSegments' = mergingSegments \cup UNION {ToSet(asked[nth[i]].src) : i \in 1..n}
    BY <2>1, Zenon
  <2>3. \A k \in DOMAIN ranges : InIndex(ranges[k]) => Fresh(asked[k])
    <3>1. \A k \in DOMAIN ranges : asked[k] = NewMerge(ranges[k], FALSE, 0)
      BY Zenon
    <3>2. \A range : InIndex(range) => Fresh(NewMerge(range, FALSE, 0))
      BY <1>2, NewMergeOK
    <3> QED
      BY <3>1, <3>2, Zenon
  <2>5. Chosen(ranges, asked, S)
    <3>1. PICK n \in 0..Len(ranges) : \E nth \in [1..n -> DOMAIN ranges] :
          /\ Registers(ranges, asked, nth, mergingSegments)
          /\ pendingMerges' = pendingMerges \o [i \in 1..n |-> asked[nth[i]]]
          /\ mergingSegments' = mergingSegments \cup UNION {ToSet(asked[nth[i]].src) : i \in 1..n}
      BY <2>2, Zenon
    <3>2. PICK nth \in [1..n -> DOMAIN ranges] :
          /\ Registers(ranges, asked, nth, mergingSegments)
          /\ pendingMerges' = pendingMerges \o [i \in 1..n |-> asked[nth[i]]]
          /\ mergingSegments' = mergingSegments \cup UNION {ToSet(asked[nth[i]].src) : i \in 1..n}
      BY <3>1, Zenon
    <3>3. Registers(ranges, asked, nth, S)
      BY <1>1, <3>2
    <3>4. mergingSegments' = S \cup UNION {ToSet(asked[nth[i]].src) : i \in 1..n}
      BY <1>1, <3>2, Zenon
    <3>5. stopMerges => ranges = <<>>
      OBVIOUS
    <3>6. \E k \in 0..Len(ranges) : \E f \in [1..k -> DOMAIN ranges] :
            /\ Registers(ranges, asked, f, S)
            /\ pendingMerges' = pendingMerges \o [i \in 1..k |-> asked[f[i]]]
            /\ mergingSegments' = S \cup UNION {ToSet(asked[f[i]].src) : i \in 1..k}
      BY <3>2, <3>3, <3>4, Zenon
    <3> QED
      BY <2>3, <3>5, <3>6, Zenon DEF Chosen
  <2>4. overtaken' \in BOOLEAN
    BY <1>2, <1>3, Zenon DEF Select, UpdatePendingMerges
  <2> QED
    BY <1>1, <2>4, <2>5
<1>4. CASE SelectOptimize(t)
  <2>1. PICK ranges \in {IF stopMerges THEN <<>> ELSE Asked(TRUE, call[t].max)} :
        \E asked \in {[k \in DOMAIN ranges |-> NewMerge(ranges[k], TRUE, call[t].max)]} :
        \E n \in 0..Len(ranges) : \E nth \in [1..n -> DOMAIN ranges] :
          LET segs == UNION {ToSet(asked[nth[i]].src) : i \in 1..n}
          IN  /\ Registers(ranges, asked, nth, mergingSegments)
              /\ pendingMerges' = pendingMerges \o [i \in 1..n |-> asked[nth[i]]]
              /\ mergingSegments' = mergingSegments \cup segs
              /\ overtaken' = (overtaken \/ (~TRUE /\ segs \cap segmentsToOptimize # {}))
    BY <1>4, Zenon DEF SelectOptimize, UpdatePendingMerges
  <2>2. PICK asked \in {[k \in DOMAIN ranges |-> NewMerge(ranges[k], TRUE, call[t].max)]} :
        \E n \in 0..Len(ranges) : \E nth \in [1..n -> DOMAIN ranges] :
          /\ Registers(ranges, asked, nth, mergingSegments)
          /\ pendingMerges' = pendingMerges \o [i \in 1..n |-> asked[nth[i]]]
          /\ mergingSegments' = mergingSegments \cup UNION {ToSet(asked[nth[i]].src) : i \in 1..n}
    BY <2>1, Zenon
  <2>3. \A k \in DOMAIN ranges : InIndex(ranges[k]) => Fresh(asked[k])
    <3>1. \A k \in DOMAIN ranges : asked[k] = NewMerge(ranges[k], TRUE, call[t].max)
      BY Zenon
    <3>2. \A range : InIndex(range) => Fresh(NewMerge(range, TRUE, call[t].max))
      BY <1>2, NewMergeOK
    <3> QED
      BY <3>1, <3>2, Zenon
  <2>5. Chosen(ranges, asked, S)
    <3>1. PICK n \in 0..Len(ranges) : \E nth \in [1..n -> DOMAIN ranges] :
          /\ Registers(ranges, asked, nth, mergingSegments)
          /\ pendingMerges' = pendingMerges \o [i \in 1..n |-> asked[nth[i]]]
          /\ mergingSegments' = mergingSegments \cup UNION {ToSet(asked[nth[i]].src) : i \in 1..n}
      BY <2>2, Zenon
    <3>2. PICK nth \in [1..n -> DOMAIN ranges] :
          /\ Registers(ranges, asked, nth, mergingSegments)
          /\ pendingMerges' = pendingMerges \o [i \in 1..n |-> asked[nth[i]]]
          /\ mergingSegments' = mergingSegments \cup UNION {ToSet(asked[nth[i]].src) : i \in 1..n}
      BY <3>1, Zenon
    <3>3. Registers(ranges, asked, nth, S)
      BY <1>1, <3>2
    <3>4. mergingSegments' = S \cup UNION {ToSet(asked[nth[i]].src) : i \in 1..n}
      BY <1>1, <3>2, Zenon
    <3>5. stopMerges => ranges = <<>>
      OBVIOUS
    <3>6. \E k \in 0..Len(ranges) : \E f \in [1..k -> DOMAIN ranges] :
            /\ Registers(ranges, asked, f, S)
            /\ pendingMerges' = pendingMerges \o [i \in 1..k |-> asked[f[i]]]
            /\ mergingSegments' = S \cup UNION {ToSet(asked[f[i]].src) : i \in 1..k}
      BY <3>2, <3>3, <3>4, Zenon
    <3> QED
      BY <2>3, <3>5, <3>6, Zenon DEF Chosen
  <2>4. overtaken' \in BOOLEAN
    BY <1>2, <1>4, Zenon DEF SelectOptimize, UpdatePendingMerges
  <2> QED
    BY <1>1, <2>4, <2>5
<1> QED
  BY <1>3, <1>4

\* Merges are chosen by a thread that goes on to run them.
LEMMA SelectKeeps ==
  ASSUME IInv, NEW t \in Thread, Select(t) \/ SelectOptimize(t)
  PROVE  IInv'
PROOF
<1>1. PICK ranges, asked, S : S = mergingSegments /\ Chosen(ranges, asked, S)
  BY SelectChooses
<1>2. /\ Runs(t, "select") \/ Runs(t, "selectOptimize")
      /\ Advances(t)
      /\ UNCHANGED <<segmentInfos, info, counter, rollback, segmentsToOptimize,
                     runningMerges, mergeExceptions, mergeGen, stopMerges, closing, life,
                     scheduler, asleep, halted, faults>>
  BY DEF Select, SelectOptimize, index, failures, ending, bounds
<1>3. ~stopMerges => S = Used(ToSet(pendingMerges) \cup runningMerges')
  <2>1. ~stopMerges => mergingSegments = Used(ToSet(pendingMerges) \cup runningMerges)
    BY DEF IInv, MergingExact, Registereds, Used
  <2> QED
    BY <2>1, <1>1, <1>2
<1>4. /\ PendingOK' /\ RunningOK' /\ MergingExact' /\ mergingSegments' \subseteq 0..(counter - 1)
      /\ stopMerges => pendingMerges' = <<>>
  <2>1. UNCHANGED index /\ UNCHANGED stopMerges /\ runningMerges' \subseteq runningMerges
    BY <1>2 DEF index
  <2> QED
    BY <1>1, <1>3, <2>1, ChosenKeeps
<1>5. /\ call[t].todo # <<>> /\ Head(call[t].todo) \in {"select", "selectOptimize"}
      /\ CallsOK /\ ~Merging(t)
  BY <1>2, RunsHead
<1>6. Moves(t) /\ ~Merging(t)' /\ ~At(t, "rollback")'
  BY <1>2, <1>5, AdvancesMoves
<1>7. Serves(t)'
  <2>1. Serves(t)
    <3> DEFINE s == call[t].todo
    <3>1. Script(s) /\ s # <<>>
      BY <1>5 DEF CallsOK, CallOK
    <3>2. Head(s) \in {"select", "selectOptimize"}
      BY <1>5
    <3> HIDE DEF s
    <3>3. /\ Head(s) = s[1] /\ ToSet(s) = {s[1]} \cup ToSet(Tail(s)) /\ Script(Tail(s))
          /\ Tail(s) = <<>> => Ends(s[1])
          /\ Tail(s) # <<>> => Follows(s[1], Head(Tail(s)))
      BY <3>1, ScriptTail
    <3>4. Tail(s) # <<>> /\ Head(Tail(s)) = "schedule"
      BY <3>2, <3>3 DEF Ends, Follows
    <3>5. Head(Tail(s)) \in ToSet(Tail(s))
      BY <3>3, <3>4, ScriptTail
    <3> QED
      BY <3>2, <3>3, <3>4, <3>5 DEF Serves, s
  <2> QED
    BY <2>1, <1>2, <1>5, AdvancesMoves
<1>8. CallsOK' /\ SchedulerOK'
  BY <1>2, <1>5, <1>6, IdleStep DEF IInv
<1>9. Served'
  BY <1>2, <1>6, <1>7, ServedStep DEF IInv
<1>10. IndexOK' /\ RollbackOK'
  BY <1>2 DEF IInv, IndexOK, RollbackOK
<1>11. RegistryOK' /\ RestOK'
  <2>1. overtaken' \in BOOLEAN
    BY SelectChooses
  <2> QED
    BY <1>2, <1>4, <2>1 DEF IInv, RegistryOK, RestOK
<1> QED
  BY <1>4, <1>8, <1>9, <1>10, <1>11 DEF IInv

LEMMA TailMembers ==
  ASSUME NEW S, NEW s \in Seq(S), s # <<>>
  PROVE  /\ Tail(s) \in Seq(S) /\ 1 \in DOMAIN s /\ Head(s) = s[1]
         /\ \A k \in DOMAIN Tail(s) : /\ k + 1 \in DOMAIN s /\ k + 1 # 1 /\ Tail(s)[k] = s[k + 1]
                                      /\ \A j \in DOMAIN Tail(s) : j # k => j + 1 # k + 1
         /\ ToSet(s) = {Head(s)} \cup ToSet(Tail(s))
PROOF
<1> DEFINE r == Tail(s)
<1>1. Len(s) \in Nat /\ Len(s) >= 1 /\ DOMAIN s = 1..Len(s)
  BY LenProperties, EmptySeq
<1>2. /\ r \in Seq(S) /\ Len(r) = Len(s) - 1 /\ DOMAIN r = 1..Len(r)
      /\ \A i \in 1..Len(r) : r[i] = s[i + 1]
  BY <1>1, HeadTailProperties, LenProperties
<1>3. Head(s) = s[1] /\ 1 \in DOMAIN s
  BY <1>1
<1> HIDE DEF r
<1>4. \A k \in DOMAIN r : /\ k + 1 \in DOMAIN s /\ k + 1 # 1 /\ r[k] = s[k + 1]
                          /\ \A j \in DOMAIN r : j # k => j + 1 # k + 1
  BY <1>1, <1>2
<1>5. \A i \in DOMAIN s : i = 1 \/ \E k \in DOMAIN r : r[k] = s[i]
  <2> SUFFICES ASSUME NEW i \in DOMAIN s, i # 1 PROVE \E k \in DOMAIN r : r[k] = s[i]
    OBVIOUS
  <2>1. i - 1 \in DOMAIN r /\ (i - 1) + 1 = i
    BY <1>1, <1>2
  <2> QED
    BY <2>1, <1>4
<1>6. ToSet(s) \subseteq {s[1]} \cup ToSet(r)
  BY <1>5 DEF ToSet
<1>7. ToSet(r) \subseteq ToSet(s) /\ s[1] \in ToSet(s)
  BY <1>3, <1>4 DEF ToSet
<1> QED
  BY <1>2, <1>3, <1>4, <1>6, <1>7 DEF r

-----------------------------------------------------------------------------
(* A merge begins.                                                         *)

LEMMA GetNextMergeKeeps ==
  ASSUME IInv, NEW t \in Thread, GetNextMerge(t)
  PROVE  IInv'
PROOF
<1>0. PICK h, r : h = Head(pendingMerges) /\ r = Tail(pendingMerges)
  OBVIOUS
<1> DEFINE p == pendingMerges
           a == <<"mergeInit", "commitMerge", "mergeFinish">>
           c == [call[t] EXCEPT !.src = h.src]
           todo == call[t].todo
<1>1. /\ Runs(t, "schedule") /\ scheduler \in {NoOne, t} /\ p # <<>>
      /\ scheduler' = t /\ pendingMerges' = Tail(p) /\ runningMerges' = runningMerges \cup {h}
      /\ UNCHANGED <<segmentInfos, info, counter, rollback, segmentsToOptimize, overtaken,
                     mergingSegments, mergeExceptions, mergeGen, stopMerges, closing, life,
                     asleep, halted, faults>>
  BY <1>0 DEF GetNextMerge, Scheduling, index, optimizing, failures, ending, bounds
<1>2. call' = [call EXCEPT ![t] = IF a \o todo = <<>> THEN NoCall ELSE [c EXCEPT !.todo = a \o todo]]
  BY <1>0 DEF GetNextMerge, Does
<1>3. todo # <<>> /\ Head(todo) = "schedule" /\ CallsOK /\ ~Merging(t) /\ halted = "no"
  BY <1>1, RunsHead
<1>4. /\ Script(todo) /\ DOMAIN call = Thread /\ call[t].op # "none"
      /\ DOMAIN call[t] = {"op", "todo", "src", "max", "goal"} /\ call[t].max \in 0..MaxSegments
  BY <1>3 DEF CallsOK, CallOK
<1>5. /\ DOMAIN c = {"op", "todo", "src", "max", "goal"}
      /\ c.op # "none" /\ c.max \in 0..MaxSegments /\ c.src = h.src
  BY <1>4
<1>6. /\ a \in Seq(Steps) /\ a # <<>> /\ Len(a) = 3
      /\ a[1] = "mergeInit" /\ a[2] = "commitMerge" /\ a[3] = "mergeFinish"
  BY DEF Steps
<1> HIDE DEF a, c, todo
<1>7. /\ Script(a \o todo) /\ a \o todo # <<>> /\ Head(a \o todo) = "mergeInit"
      /\ ToSet(a \o todo) = ToSet(a) \cup ToSet(todo)
  <2>1. \A i \in 1..(Len(a) - 1) : Follows(a[i], a[i + 1])
    BY <1>6 DEF Follows
  <2>2. Follows(a[Len(a)], Head(todo))
    BY <1>3, <1>6 DEF Follows
  <2> QED
    BY <1>3, <1>4, <1>6, <2>1, <2>2, ScriptCat
<1>8. Moves(t) /\ call'[t].todo = a \o todo /\ call'[t].src = h.src
  BY <1>2, <1>4, <1>5, <1>7, DoesMoves
<1>9. Merging(t)' /\ ~At(t, "rollback")' /\ Head(call'[t].todo) = "mergeInit"
  BY <1>7, <1>8 DEF Merging, At
<1>10. Serves(t)'
  <2>1. "schedule" \in ToSet(todo)
    BY <1>3, <1>4, ScriptTail
  <2> QED
    BY <2>1, <1>7, <1>8 DEF Serves
<1>11. runningMerges = {} /\ \A u \in Thread : ~Merging(u)
  BY <1>1, <1>3, NobodyRuns
<1>12. runningMerges' = {h}
  BY <1>1, <1>11
<1>13. /\ p \in Seq(Merge)
       /\ \A k \in DOMAIN p : Registered(p[k]) /\ Contiguous(p[k]) /\ p[k].out = None
       /\ \A j, k \in DOMAIN p : j # k => ToSet(p[j].src) \cap ToSet(p[k].src) = {}
  BY DEF IInv, PendingOK
<1>14. /\ r \in Seq(Merge) /\ 1 \in DOMAIN p /\ h = p[1]
       /\ \A k \in DOMAIN r : /\ k + 1 \in DOMAIN p /\ k + 1 # 1 /\ r[k] = p[k + 1]
                              /\ \A j \in DOMAIN r : j # k => j + 1 # k + 1
       /\ ToSet(p) = {h} \cup ToSet(r)
  BY <1>0, <1>1, <1>13, TailMembers
<1>15. pendingMerges' = r
  BY <1>0, <1>1
<1> HIDE DEF p
<1>16. \A m : Registered(m)' = Registered(m) /\ Contiguous(m)' = Contiguous(m)
  BY <1>1 DEF Registered, Contiguous
<1>17. PendingOK'
  <2>1. \A k \in DOMAIN r : Registered(r[k])' /\ Contiguous(r[k])' /\ r[k].out = None
    <3>1. \A k \in DOMAIN r : Registered(r[k]) /\ Contiguous(r[k]) /\ r[k].out = None
      BY <1>13, <1>14
    <3> QED
      BY <3>1, <1>16
  <2>2. \A j, k \in DOMAIN r : j # k => ToSet(r[j].src) \cap ToSet(r[k].src) = {}
    BY <1>13, <1>14
  <2> QED
    BY <2>1, <2>2, <1>14, <1>15 DEF PendingOK
<1>18. Registered(h) /\ Contiguous(h) /\ h.out = None
  BY <1>13, <1>14
<1>19. RunningOK'
  <2>1. Uses(h) = ToSet(h.src)
    BY <1>18, UsesPending
  <2>2. \A k \in DOMAIN r : Uses(h) \cap ToSet(r[k].src) = {}
    BY <2>1, <1>13, <1>14
  <2> QED
    BY <2>2, <1>12, <1>15, <1>16, <1>18 DEF RunningOK
<1>20. MergingExact'
  <2>1. ToSet(pendingMerges') \cup runningMerges' = ToSet(pendingMerges) \cup runningMerges
    BY <1>11, <1>12, <1>14, <1>15 DEF p
  <2> QED
    BY <2>1, <1>1 DEF IInv, MergingExact, Registereds
<1>21. SchedulerOK'
  <2>1. Stage(h, "mergeInit")'
    BY <1>18 DEF Stage
  <2> QED
    BY <2>1, <1>1, <1>8, <1>9, <1>11, <1>12, RunStep
<1>22. CallsOK'
  BY <1>1, <1>3, <1>8, <1>9, CallsStep
<1>23. Served'
  BY <1>1, <1>8, <1>10, ServedStep DEF IInv
<1>24. ~stopMerges
  BY <1>1 DEF IInv, RegistryOK, p
<1>25. IndexOK' /\ RollbackOK'
  BY <1>1 DEF IInv, IndexOK, RollbackOK
<1>26. RegistryOK' /\ RestOK'
  BY <1>1, <1>24 DEF IInv, RegistryOK, RestOK
<1> QED
  BY <1>17, <1>19, <1>20, <1>21, <1>22, <1>23, <1>25, <1>26 DEF IInv

-----------------------------------------------------------------------------
(* New segments.                                                           *)

\* What stays true when the index gets a new name, and maybe a new segment.
Grew ==
    /\ IndexOK' /\ RollbackOK'
    /\ counter \in Nat /\ counter' \in Nat /\ counter' > counter
    /\ 0..(counter - 1) \subseteq 0..(counter' - 1)
    /\ ToSet(segmentInfos) \subseteq 0..(counter - 1)
    /\ ToSet(segmentInfos) \subseteq ToSet(segmentInfos')
    /\ ToSet(segmentInfos') \subseteq ToSet(segmentInfos) \cup {counter}
    /\ \A m : Registered(m) => Registered(m)'
    /\ \A m \in Merge : Contiguous(m) => Contiguous(m)'

LEMMA Wider ==
  ASSUME IndexOK, RollbackOK, counter' \in Nat, counter' > counter, UNCHANGED rollback
  PROVE  /\ counter \in Nat /\ 0..(counter - 1) \subseteq 0..(counter' - 1) /\ RollbackOK'
         /\ segmentInfos \in Seq(0..(counter' - 1)) /\ ToSet(segmentInfos) \subseteq 0..(counter - 1)
         /\ \A m : Registered(m) => Registered(m)'
PROOF
<1>1. counter \in Nat /\ segmentInfos \in Seq(0..(counter - 1))
  BY DEF IndexOK
<1>2. 0..(counter - 1) \subseteq 0..(counter' - 1)
  BY <1>1, NamesBelow, Zenon
<1>3. ToSet(segmentInfos) \subseteq 0..(counter - 1)
  BY <1>1, LenProperties, ElementOfSeq DEF ToSet
<1>4. segmentInfos \in Seq(0..(counter' - 1))
  BY <1>1, <1>2, SeqMonotonic, Zenon
<1>5. RollbackOK'
  <2>1. rollback[1] \in Seq(0..(counter' - 1))
    BY <1>2, SeqMonotonic, Zenon DEF RollbackOK
  <2> QED
    BY <2>1 DEF RollbackOK
<1>6. ASSUME NEW m, Registered(m) PROVE Registered(m)'
  BY <1>2, <1>6 DEF Registered
<1> QED
  BY <1>1, <1>2, <1>3, <1>4, <1>5, <1>6

LEMMA FlushedOK ==
  ASSUME NEW n \in Nat
  PROVE  Flushed(n).dels \subseteq Flushed(n).docs /\ Flushed(n).docs \subseteq Document
PROOF
<1>1. Flushed(n).dels = {} /\ Flushed(n).docs = {n} \X (1..1)
  BY DEF Flushed, Segment
<1>2. {n} \X (1..1) \subseteq Nat \X Nat
  OBVIOUS
<1> QED
  BY <1>1, <1>2 DEF Document

\* A flushed segment comes after the others; f is what is known of those.
LEMMA Flushes ==
  ASSUME IndexOK, RollbackOK, NEW f, DOMAIN f = DOMAIN info,
         \A n \in DOMAIN f : f[n].dels \subseteq f[n].docs /\ f[n].docs \subseteq Document,
         segmentInfos' = Append(segmentInfos, counter),
         info' = WithFlushed(f, counter),
         counter' \in Nat, counter' > counter, UNCHANGED rollback
  PROVE  Grew
PROOF
<1>1. /\ segmentInfos' \in Seq(0..(counter' - 1)) /\ IsInjective(segmentInfos')
      /\ ToSet(segmentInfos') = ToSet(segmentInfos) \cup {counter}
      /\ \A m \in Merge : Contiguous(m) => Contiguous(m)'
  BY Grown
<1>2. /\ counter \in Nat /\ 0..(counter - 1) \subseteq 0..(counter' - 1) /\ RollbackOK'
      /\ ToSet(segmentInfos) \subseteq 0..(counter - 1)
      /\ \A m : Registered(m) => Registered(m)'
  BY Wider
<1>3. /\ DOMAIN info' = ToSet(segmentInfos')
      /\ \A n \in DOMAIN info' : info'[n] = IF n = counter THEN Flushed(counter) ELSE f[n]
  <2>1. info' = [n \in (DOMAIN f) \cup {counter} |-> IF n = counter THEN Flushed(counter) ELSE f[n]]
    BY DEF WithFlushed
  <2>2. DOMAIN f = ToSet(segmentInfos)
    BY DEF IndexOK
  <2> QED
    BY <2>1, <2>2, <1>1
<1>4. ASSUME NEW n \in DOMAIN info'
      PROVE  info'[n].dels \subseteq info'[n].docs /\ info'[n].docs \subseteq Document
  <2>1. CASE n # counter
    <3>1. n \in DOMAIN f /\ info'[n] = f[n]
      BY <2>1, <1>1, <1>3 DEF IndexOK
    <3> QED
      BY <3>1
  <2>2. CASE n = counter
    <3>1. info'[n] = Flushed(counter)
      BY <2>2, <1>3
    <3> QED
      BY <3>1, <1>2, FlushedOK
  <2> QED
    BY <2>1, <2>2
<1>5. IndexOK'
  BY <1>1, <1>3, <1>4 DEF IndexOK
<1> QED
  BY <1>1, <1>2, <1>5 DEF Grew

LEMMA Named ==
  ASSUME IndexOK, RollbackOK, UNCHANGED <<segmentInfos, info, rollback>>,
         counter' \in Nat, counter' > counter
  PROVE  Grew
PROOF
<1>1. /\ counter \in Nat /\ 0..(counter - 1) \subseteq 0..(counter' - 1) /\ RollbackOK'
      /\ segmentInfos \in Seq(0..(counter' - 1)) /\ ToSet(segmentInfos) \subseteq 0..(counter - 1)
      /\ \A m : Registered(m) => Registered(m)'
  BY Wider
<1>2. IndexOK'
  BY <1>1 DEF IndexOK
<1>3. \A m : Contiguous(m)' = Contiguous(m)
  BY DEF Contiguous
<1> QED
  BY <1>1, <1>2, <1>3 DEF Grew

LEMMA FlushKeeps ==
  ASSUME IInv, NEW t \in Thread, Flush(t)
  PROVE  IInv'
PROOF
<1>1. /\ Runs(t, "flush") /\ segmentInfos' = Append(segmentInfos, counter)
      /\ counter' = counter + 1
      /\ UNCHANGED <<rollback, segmentsToOptimize, overtaken, mergingSegments, pendingMerges,
                     runningMerges, mergeExceptions, mergeGen, stopMerges, closing, life,
                     scheduler, asleep, halted, faults>>
  BY DEF Flush, NewSegment, optimizing, merges, failures, ending
<1>2. call' = [call EXCEPT ![t] = IF AfterFlush(t) = <<>> THEN NoCall
                                  ELSE [call[t] EXCEPT !.todo = AfterFlush(t)]]
  BY DEF Flush, Goes, Does
<1>3. /\ counter \in Nat /\ counter' \in Nat /\ counter' > counter
      /\ \A n \in DOMAIN info : /\ info[n].dels \subseteq info[n].docs
                                /\ info[n].docs \subseteq Document
      /\ DOMAIN info = ToSet(segmentInfos)
  BY <1>1 DEF IInv, IndexOK
<1>4. PICK f : /\ DOMAIN f = DOMAIN info
               /\ \A n \in DOMAIN f : f[n].dels \subseteq f[n].docs /\ f[n].docs \subseteq Document
               /\ info' = WithFlushed(f, counter)
  <2>1. CASE info' = WithFlushed(info, counter)
    BY <2>1, <1>3
  <2>2. CASE \E n \in ToSet(segmentInfos) :
               /\ Live(n) # {}
               /\ info' = WithFlushed([info EXCEPT ![n].dels = @ \cup {CHOOSE d \in Live(n) : TRUE}],
                                      counter)
    <3>1. PICK n \in ToSet(segmentInfos) :
               /\ Live(n) # {}
               /\ info' = WithFlushed([info EXCEPT ![n].dels = @ \cup {CHOOSE d \in Live(n) : TRUE}],
                                      counter)
      BY <2>2
    <3> DEFINE d == CHOOSE d \in Live(n) : TRUE
               f == [info EXCEPT ![n].dels = @ \cup {d}]
    <3>2. d \in info[n].docs
      BY <3>1 DEF Live
    <3> HIDE DEF d
    <3>3. /\ DOMAIN f = DOMAIN info
          /\ \A k \in DOMAIN info : k # n => f[k] = info[k]
          /\ f[n] = [info[n] EXCEPT !.dels = @ \cup {d}]
      BY <1>3
    <3>4. f[n].docs = info[n].docs /\ f[n].dels \subseteq info[n].dels \cup {d}
      BY <3>3
    <3>5. info' = WithFlushed(f, counter)
      BY <3>1 DEF d
    <3> HIDE DEF f
    <3>6. \A k \in DOMAIN f : f[k].dels \subseteq f[k].docs /\ f[k].docs \subseteq Document
      <4>1. f[n].dels \subseteq f[n].docs /\ f[n].docs \subseteq Document
        BY <1>3, <3>2, <3>4
      <4>2. \A k \in DOMAIN f : k # n => f[k].dels \subseteq f[k].docs /\ f[k].docs \subseteq Document
        BY <1>3, <3>3
      <4> QED
        BY <4>1, <4>2
    <3> QED
      BY <3>3, <3>5, <3>6
  <2> QED
    BY <2>1, <2>2 DEF Flush
<1>5. Grew
  BY <1>1, <1>3, <1>4, Flushes DEF IInv
<1>6. /\ call[t].todo # <<>> /\ Head(call[t].todo) = "flush" /\ CallsOK /\ ~Merging(t)
      /\ halted = "no"
  BY <1>1, RunsHead
<1>7. /\ Script(AfterFlush(t))
      /\ AfterFlush(t) # <<>> => Head(AfterFlush(t)) \in {"select", "mark", "schedule", "stopMerges"}
  <2> DEFINE s == call[t].todo
             r == Tail(s)
  <2>1. Script(s) /\ s # <<>> /\ Head(s) = "flush"
    BY <1>6 DEF CallsOK, CallOK
  <2>2. AfterFlush(t) = IF "stopMerges" \in ToSet(r) THEN r ELSE MaybeMerge \o r
    BY DEF AfterFlush, Rest
  <2> HIDE DEF s
  <2>3. Script(r) /\ (r # <<>> => Follows("flush", Head(r)))
    BY <2>1, ScriptTail
  <2> HIDE DEF r
  <2>4. r # <<>> => Head(r) \in ToSet(r)
    BY <2>3, ScriptTail
  <2>5. CASE "stopMerges" \in ToSet(r)
    BY <2>2, <2>3, <2>5 DEF Follows
  <2>6. CASE "stopMerges" \notin ToSet(r)
    <3> DEFINE a == MaybeMerge
    <3>1. /\ a \in Seq(Steps) /\ a # <<>> /\ Len(a) = 2 /\ a[1] = "select" /\ a[2] = "schedule"
      BY DEF MaybeMerge, Steps
    <3> HIDE DEF a
    <3>2. \A i \in 1..(Len(a) - 1) : Follows(a[i], a[i + 1])
      BY <3>1 DEF Follows
    <3>3. r # <<>> => Follows(a[Len(a)], Head(r))
      BY <3>1, <2>3, <2>4, <2>6 DEF Follows
    <3>4. r = <<>> => Ends(a[Len(a)])
      BY <3>1 DEF Ends
    <3>5. Script(a \o r) /\ Head(a \o r) = "select"
      BY <2>3, <3>1, <3>2, <3>3, <3>4, ScriptCat
    <3> QED
      BY <2>2, <2>6, <3>5 DEF a
  <2> QED
    BY <2>5, <2>6
<1>8. Moves(t) /\ call'[t].todo = AfterFlush(t)
  BY <1>2, <1>6, <1>7, GoesMoves
<1>9. ~Merging(t)' /\ ~At(t, "rollback")'
  BY <1>7, <1>8 DEF Merging, At
<1>10. ~Serves(t)
  BY <1>6 DEF Serves
<1>11. CallsOK' /\ SchedulerOK'
  <2>1. \A m \in runningMerges : m.out # counter
    <3>1. \A m \in runningMerges : Registered(m)
      BY DEF IInv, RunningOK
    <3>2. \A m \in runningMerges : m.out # None => m.out \in 0..(counter - 1)
      BY <3>1 DEF Registered, Uses, Bound
    <3> QED
      BY <3>2, <1>3 DEF None
  <2>2. \A m \in runningMerges : m.out \in ToSet(segmentInfos') <=> m.out \in ToSet(segmentInfos)
    BY <2>1, <1>5 DEF Grew
  <2> QED
    BY <2>2, <1>1, <1>6, <1>8, <1>9, IdleStep DEF IInv
<1>12. Served'
  BY <1>1, <1>8, <1>10, ServedStep DEF IInv
<1>13. PendingOK'
  <2>1. PendingOK
    BY DEF IInv
  <2>2. \A k \in DOMAIN pendingMerges : pendingMerges[k] \in Merge
    BY <2>1 DEF PendingOK, Registered
  <2> QED
    BY <2>1, <2>2, <1>1, <1>5 DEF PendingOK, Grew
<1>14. RunningOK'
  <2>1. RunningOK
    BY DEF IInv
  <2>2. \A m \in runningMerges : m \in Merge
    BY <2>1 DEF RunningOK, Registered
  <2>3. \A m : Uses(m)' = Uses(m)
    BY DEF Uses, Bound
  <2> QED
    BY <2>1, <2>2, <2>3, <1>1, <1>5 DEF RunningOK, Grew
<1>15. MergingExact'
  BY <1>1 DEF IInv, MergingExact, Registereds
<1>16. RegistryOK' /\ RestOK'
  BY <1>1, <1>5 DEF IInv, RegistryOK, RestOK, Grew
<1> QED
  BY <1>5, <1>11, <1>12, <1>13, <1>14, <1>15, <1>16 DEF IInv, Grew

-----------------------------------------------------------------------------
(* optimize marks the merges.                                              *)

LEMMA MarkedOK ==
  ASSUME NEW m \in Merge, NEW max \in 0..MaxSegments
  PROVE  LET n == [m EXCEPT !.optimize = TRUE, !.max = max]
         IN  n \in Merge /\ n.src = m.src /\ n.out = m.out /\ Uses(n) = Uses(m)
PROOF
<1> DEFINE n == [m EXCEPT !.optimize = TRUE, !.max = max]
<1>1. n.src = m.src /\ n.out = m.out
  BY DEF Merge
<1>2. n \in Merge
  BY DEF Merge
<1> HIDE DEF n
<1>3. Uses(n) = Uses(m)
  BY <1>1 DEF Uses, Bound
<1> QED
  BY <1>1, <1>2, <1>3 DEF n

LEMMA MarkKeeps ==
  ASSUME IInv, NEW t \in Thread, Mark(t)
  PROVE  IInv'
PROOF
<1>1. /\ Runs(t, "mark")
      /\ mergeExceptions' = <<>> /\ mergeGen' = mergeGen + 1
      /\ segmentsToOptimize' = ToSet(segmentInfos)
      /\ UNCHANGED <<segmentInfos, info, counter, rollback, mergingSegments, stopMerges,
                     closing, life, scheduler, asleep, halted, faults>>
  BY DEF Mark, index, ending, bounds
<1>2. overtaken' \in BOOLEAN
  BY Zenon DEF Mark
<1>3. PICK max : max = call[t].max
  OBVIOUS
<1> DEFINE marked(m) == [m EXCEPT !.optimize = TRUE, !.max = max]
<1>4. /\ pendingMerges' = [k \in DOMAIN pendingMerges |-> marked(pendingMerges[k])]
      /\ runningMerges' = {marked(m) : m \in runningMerges}
  BY <1>3 DEF Mark
<1>5. /\ call[t].todo # <<>> /\ Head(call[t].todo) = "mark" /\ CallsOK /\ ~Merging(t)
  BY <1>1, RunsHead
<1>6. max \in 0..MaxSegments
  BY <1>3, <1>5 DEF CallsOK, CallOK
<1>7. \A m \in Merge : /\ marked(m) \in Merge /\ marked(m).src = m.src /\ marked(m).out = m.out
                       /\ Uses(marked(m)) = Uses(m)
  BY <1>6, MarkedOK
<1> HIDE DEF marked
<1>8. PendingOK /\ RunningOK
  BY DEF IInv
<1>9. /\ \A k \in DOMAIN pendingMerges : pendingMerges[k] \in Merge
      /\ \A m \in runningMerges : m \in Merge
  BY <1>8 DEF PendingOK, RunningOK, Registered
<1>10. \A m \in Merge : Registered(m) => Registered(marked(m))'
  BY <1>1, <1>7 DEF Registered
<1>11. \A m \in Merge : Contiguous(m) => Contiguous(marked(m))'
  BY <1>1, <1>7 DEF Contiguous
<1>12. PendingOK'
  <2>0. PICK q : q = pendingMerges'
    OBVIOUS
  <2>1. DOMAIN pendingMerges' = DOMAIN pendingMerges
    BY <1>4
  <2>2. \A k \in DOMAIN pendingMerges :
           /\ pendingMerges'[k] = marked(pendingMerges[k])
           /\ pendingMerges'[k] \in Merge
           /\ pendingMerges'[k].src = pendingMerges[k].src
           /\ pendingMerges'[k].out = pendingMerges[k].out
    BY <1>4, <1>7, <1>9
  <2>3. pendingMerges' \in Seq(Merge)
    <3>1. PICK n \in Nat : DOMAIN pendingMerges = 1..n
      BY <1>8, LenProperties DEF PendingOK
    <3>2. pendingMerges' \in [1..n -> Merge]
      BY <3>1, <2>1, <2>2, <1>4
    <3> QED
      BY <3>2, IsSeq
  <2>4. \A k \in DOMAIN pendingMerges :
           Registered(q[k])' /\ Contiguous(q[k])'
    <3>1. \A k \in DOMAIN pendingMerges :
            Registered(pendingMerges[k]) /\ Contiguous(pendingMerges[k])
      BY <1>8 DEF PendingOK
    <3> QED
      BY <3>1, <2>0, <1>4, <1>9, <1>10, <1>11
  <2>5. /\ q \in Seq(Merge) /\ DOMAIN q = DOMAIN pendingMerges
        /\ \A k \in DOMAIN pendingMerges : q[k].src = pendingMerges[k].src /\ q[k].out = pendingMerges[k].out
    BY <2>0, <2>1, <2>2, <2>3
  <2>6. \A k \in DOMAIN q : Registered(q[k])' /\ Contiguous(q[k])' /\ q[k].out = None
    BY <1>8, <2>4, <2>5 DEF PendingOK
  <2>7. \A j, k \in DOMAIN q : j # k => ToSet(q[j].src) \cap ToSet(q[k].src) = {}
    BY <1>8, <2>5 DEF PendingOK
  <2> QED
    BY <2>0, <2>5, <2>6, <2>7 DEF PendingOK
<1>13. RunningOK'
  <2>1. ASSUME NEW m \in runningMerges
        PROVE  /\ Registered(marked(m))' /\ Contiguous(marked(m))'
               /\ \A k \in DOMAIN pendingMerges' : Uses(marked(m)) \cap ToSet(pendingMerges'[k].src) = {}
    <3>1. Registered(m) /\ Contiguous(m) /\ m \in Merge
      BY <1>8, <1>9 DEF RunningOK
    <3>2. \A k \in DOMAIN pendingMerges : Uses(m) \cap ToSet(pendingMerges[k].src) = {}
      BY <1>8 DEF RunningOK
    <3>3. \A k \in DOMAIN pendingMerges' : k \in DOMAIN pendingMerges /\ pendingMerges'[k].src = pendingMerges[k].src
      BY <1>4, <1>7, <1>9
    <3> QED
      BY <3>1, <3>2, <3>3, <1>7, <1>10, <1>11
  <2>2. \A m, n \in runningMerges' : m = n
    BY <1>4, <1>8 DEF RunningOK
  <2> QED
    BY <2>1, <2>2, <1>4 DEF RunningOK
<1>14. MergingExact'
  <2>1. Used(ToSet(pendingMerges') \cup runningMerges') \subseteq Used(ToSet(pendingMerges) \cup runningMerges)
    <3>1. \A m \in ToSet(pendingMerges') : \E n \in ToSet(pendingMerges) : Uses(m) = Uses(n)
      BY <1>4, <1>7, <1>9 DEF ToSet
    <3>2. \A m \in runningMerges' : \E n \in runningMerges : Uses(m) = Uses(n)
      BY <1>4, <1>7, <1>9
    <3> QED
      BY <3>1, <3>2 DEF Used
  <2>2. Used(ToSet(pendingMerges) \cup runningMerges) \subseteq Used(ToSet(pendingMerges') \cup runningMerges')
    <3>1. \A m \in ToSet(pendingMerges) : \E n \in ToSet(pendingMerges') : Uses(m) = Uses(n)
      BY <1>4, <1>7, <1>9 DEF ToSet
    <3>2. \A m \in runningMerges : \E n \in runningMerges' : Uses(m) = Uses(n)
      BY <1>4, <1>7, <1>9
    <3> QED
      BY <3>1, <3>2 DEF Used
  <2>3. ~stopMerges => mergingSegments = Used(ToSet(pendingMerges) \cup runningMerges)
    BY DEF IInv, MergingExact, Registereds, Used
  <2>4. ~stopMerges' => mergingSegments' = Used(ToSet(pendingMerges') \cup runningMerges')
    BY <2>1, <2>2, <2>3, <1>1
  <2> QED
    BY <2>4 DEF MergingExact, Registereds, Used
<1>15. PICK goal : call' = [call EXCEPT ![t] = IF Tail(call[t].todo) = <<>> THEN NoCall
                                               ELSE [[call[t] EXCEPT !.goal = goal]
                                                       EXCEPT !.todo = Tail(call[t].todo)]]
  BY DEF Mark, Does, Rest
<1>16. /\ Script(Tail(call[t].todo))
       /\ Tail(call[t].todo) # <<>> /\ Head(Tail(call[t].todo)) = "selectOptimize"
       /\ Serves(t) => "schedule" \in ToSet(Tail(call[t].todo))
  <2> DEFINE s == call[t].todo
  <2>1. Script(s) /\ s # <<>> /\ Head(s) = "mark"
    BY <1>5 DEF CallsOK, CallOK
  <2>2. Serves(t) => "schedule" \in ToSet(s)
    BY DEF Serves
  <2> HIDE DEF s
  <2>3. /\ Head(s) = s[1] /\ ToSet(s) = {s[1]} \cup ToSet(Tail(s)) /\ Script(Tail(s))
        /\ Tail(s) = <<>> => Ends(s[1])
        /\ Tail(s) # <<>> => Follows(s[1], Head(Tail(s)))
    BY <2>1, ScriptTail
  <2>4. Tail(s) # <<>> /\ Head(Tail(s)) = "selectOptimize"
    BY <2>1, <2>3 DEF Ends, Follows
  <2> QED
    BY <2>1, <2>2, <2>3, <2>4 DEF s
<1>17. Moves(t) /\ call'[t].todo = Tail(call[t].todo)
  <2> DEFINE c == [call[t] EXCEPT !.goal = goal]
  <2>1. /\ DOMAIN call = Thread /\ DOMAIN call[t] = {"op", "todo", "src", "max", "goal"}
        /\ call[t].op # "none" /\ call[t].max \in 0..MaxSegments
    BY <1>5 DEF CallsOK, CallOK
  <2>2. /\ DOMAIN c = {"op", "todo", "src", "max", "goal"}
        /\ c.op # "none" /\ c.max \in 0..MaxSegments
    BY <2>1
  <2>3. call' = [call EXCEPT ![t] = IF Tail(call[t].todo) = <<>> THEN NoCall
                                    ELSE [c EXCEPT !.todo = Tail(call[t].todo)]]
    BY <1>15
  <2> HIDE DEF c
  <2> QED
    BY <2>1, <2>2, <2>3, <1>16, DoesMoves
<1>18. ~Merging(t)' /\ ~At(t, "rollback")' /\ (Serves(t) => Serves(t)')
  BY <1>16, <1>17 DEF Merging, At, Serves
<1>19. CallsOK'
  BY <1>1, <1>5, <1>17, <1>18, CallsStep
<1>20. Served'
  <2>1. pendingMerges' # <<>> => pendingMerges # <<>>
    BY <1>4
  <2> QED
    BY <2>1, <1>1, <1>17, <1>18, ServedStep DEF IInv
<1>21. SchedulerOK'
  <2>1. SchedulerOK
    BY DEF IInv
  <2>2. \A u \in Thread : Merging(u)' <=> Merging(u)
    BY <1>5, <1>17, <1>18, OthersMerging
  <2>3. ASSUME NEW u \in Thread, Merging(u)'
        PROVE  /\ scheduler' = u
               /\ \E m \in runningMerges' : m.src = call'[u].src /\ Stage(m, Head(call[u].todo))'
    <3>1. u # t /\ Merging(u) /\ call'[u] = call[u]
      BY <2>2, <2>3, <1>5, <1>17 DEF Moves
    <3>2. PICK m \in runningMerges : m.src = call[u].src /\ Stage(m, Head(call[u].todo))
      BY <2>1, <3>1 DEF SchedulerOK
    <3>3. PICK n : n = marked(m)
      OBVIOUS
    <3>4. n \in runningMerges' /\ n.src = m.src /\ n.out = m.out
      BY <3>3, <1>4, <1>7, <1>9
    <3>5. Stage(n, Head(call[u].todo))'
      BY <3>1, <3>2, <3>4, <1>1 DEF Stage
    <3> QED
      BY <2>1, <3>1, <3>2, <3>4, <3>5, <1>1 DEF SchedulerOK
  <2>4. ASSUME NEW m \in runningMerges' PROVE \E u \in Thread : Merging(u)'
    <3>1. \E n \in runningMerges : TRUE
      BY <1>4
    <3> QED
      BY <3>1, <2>1, <2>2 DEF SchedulerOK
  <2> QED
    BY <2>1, <2>3, <2>4, <1>1 DEF SchedulerOK
<1>22. RegistryOK'
  <2>1. ToSet(segmentInfos) \subseteq 0..(counter - 1)
    BY LenProperties, ElementOfSeq DEF IInv, IndexOK, ToSet
  <2>2. stopMerges => pendingMerges' = <<>> /\ runningMerges' = {}
    <3>1. stopMerges => pendingMerges = <<>> /\ runningMerges = {}
      BY DEF IInv, RegistryOK
    <3> QED
      BY <3>1, <1>4
  <2> QED
    BY <2>1, <2>2, <1>1 DEF IInv, RegistryOK
<1>23. RestOK'
  <2>1. <<>> \in Seq(Seq(Nat))
    BY EmptySeq
  <2> QED
    BY <2>1, <1>1, <1>2 DEF IInv, RestOK
<1>24. IndexOK' /\ RollbackOK'
  BY <1>1 DEF IInv, IndexOK, RollbackOK
<1> QED
  BY <1>12, <1>13, <1>14, <1>19, <1>20, <1>21, <1>22, <1>23, <1>24 DEF IInv

-----------------------------------------------------------------------------
(* The merge is named, and committed.                                      *)

LEMMA LiesMembers ==
  ASSUME NEW segs, NEW S, segs \in Seq(S), NEW src \in Seq(Nat), NEW i, Lies(segs, src, i)
  PROVE  \A k \in DOMAIN src : i + k \in DOMAIN segs /\ src[k] = segs[i + k] /\ src[k] \in ToSet(segs)
PROOF
<1>1. Len(src) \in Nat /\ DOMAIN src = 1..Len(src) /\ Len(segs) \in Nat /\ DOMAIN segs = 1..Len(segs)
  BY LenProperties
<1>2. i \in 0..(Len(segs) - Len(src)) /\ \A k \in 1..Len(src) : segs[i + k] = src[k]
  BY DEF Lies
<1>3. \A k \in 1..Len(src) : i + k \in 1..Len(segs)
  BY <1>1, <1>2
<1> QED
  BY <1>1, <1>2, <1>3 DEF ToSet

\* What the merge becomes when it is named.
NamedAs(n, m, name, snap) == n = [m EXCEPT !.out = name, !.snap = snap]

LEMMA NamedOK ==
  ASSUME NEW m, Registered(m), m.out = None, NEW name \in Nat, NEW snap \in Seq(SUBSET Document),
         NEW n, NamedAs(n, m, name, snap)
  PROVE  n \in Merge /\ n.src = m.src /\ n.out = name /\ Uses(n) = Uses(m) \cup {name}
PROOF
<1>1. n.src = m.src /\ n.out = name /\ n \in Merge
  BY DEF NamedAs, Registered, Merge
<1>2. name # None
  BY DEF None
<1>3. Uses(n) = ToSet(m.src) \cup {name} /\ Uses(m) = ToSet(m.src)
  BY <1>1, <1>2, UsesPending DEF Uses, Bound
<1> QED
  BY <1>1, <1>3

LEMMA MergeInitKeeps ==
  ASSUME IInv, NEW t \in Thread, MergeInit(t)
  PROVE  IInv'
PROOF
<1>1. /\ Runs(t, "mergeInit") /\ Advances(t)
      /\ UNCHANGED <<rollback, segmentsToOptimize, overtaken, pendingMerges, mergeExceptions,
                     mergeGen, stopMerges, closing, life, scheduler, asleep, halted, faults>>
  BY DEF MergeInit, optimizing, failures, ending
<1>2. PICK m, snap : m = Mine(t) /\ snap = [k \in DOMAIN m.src |-> info[m.src[k]].dels]
  OBVIOUS
<1>3. call[t].todo # <<>> /\ Head(call[t].todo) = "mergeInit" /\ CallsOK
  BY <1>1, RunsHead
<1>4. Merging(t)
  BY <1>3 DEF Merging, At
<1>5. /\ runningMerges = {m} /\ m.src = call[t].src /\ Registered(m) /\ Contiguous(m)
      /\ \A k \in DOMAIN pendingMerges : Uses(m) \cap ToSet(pendingMerges[k].src) = {}
      /\ m.out = None /\ scheduler = t /\ ~stopMerges
      /\ \A u \in Thread \ {t} : ~Merging(u)
  <2>1. /\ runningMerges = {Mine(t)} /\ Mine(t).src = call[t].src
        /\ Registered(Mine(t)) /\ Contiguous(Mine(t))
        /\ \A k \in DOMAIN pendingMerges : Uses(Mine(t)) \cap ToSet(pendingMerges[k].src) = {}
        /\ Stage(Mine(t), Head(call[t].todo))
        /\ scheduler = t /\ ~stopMerges
        /\ \A u \in Thread \ {t} : ~Merging(u)
    BY <1>4, MineRuns
  <2>2. Stage(m, "mergeInit")
    BY <2>1, <1>2, <1>3
  <2> QED
    BY <2>1, <2>2, <1>2 DEF Stage
<1>6. PICK name : /\ name \in {counter, counter + 1}
                  /\ runningMerges' = (runningMerges \ {m}) \cup {[m EXCEPT !.out = name, !.snap = snap]}
                  /\ mergingSegments' = mergingSegments \cup {name}
                  /\ counter' = name + 1
                  /\ \/ UNCHANGED <<segmentInfos, info>>
                     \/ /\ segmentInfos' = Append(segmentInfos, counter)
                        /\ info' = WithFlushed(info, counter)
                        /\ name = counter + 1
  BY <1>2 DEF MergeInit, Becomes, NewSegment
<1>7. IndexOK /\ RollbackOK /\ counter \in Nat /\ PendingOK
  BY DEF IInv, IndexOK
<1>8. name \in Nat /\ counter' \in Nat /\ counter' > counter /\ name >= counter
  BY <1>6, <1>7
<1>9. Grew
  <2>1. CASE UNCHANGED <<segmentInfos, info>>
    BY <2>1, <1>1, <1>7, <1>8, Named
  <2>2. CASE segmentInfos' = Append(segmentInfos, counter) /\ info' = WithFlushed(info, counter)
    <3>1. \A n \in DOMAIN info : info[n].dels \subseteq info[n].docs /\ info[n].docs \subseteq Document
      BY <1>7 DEF IndexOK
    <3> QED
      BY <2>2, <3>1, <1>1, <1>7, <1>8, Flushes
  <2> QED
    BY <2>1, <2>2, <1>6
<1>10. snap \in Seq(SUBSET Document)
  <2>1. m.src \in Seq(Nat)
    BY <1>5 DEF Registered, Merge
  <2>2. None \notin ToSet(segmentInfos)
    BY <1>9 DEF Grew, None
  <2>3. PICK i \in 0..Len(segmentInfos) : Lies(segmentInfos, m.src, i)
    BY <2>2, <1>5 DEF Contiguous
  <2>4. \A k \in DOMAIN m.src : m.src[k] \in ToSet(segmentInfos)
    <3>1. segmentInfos \in Seq(0..(counter - 1))
      BY <1>7 DEF IndexOK
    <3> QED
      BY <2>1, <2>3, <3>1, LiesMembers
  <2>5. \A k \in DOMAIN m.src : info[m.src[k]].dels \in SUBSET Document
    BY <2>4, <1>7 DEF IndexOK
  <2>6. PICK l \in Nat : DOMAIN m.src = 1..l
    BY <2>1, LenProperties
  <2>7. snap \in [1..l -> SUBSET Document]
    BY <2>5, <2>6, <1>2
  <2> QED
    BY <2>7, IsSeq
<1>11. PICK n : n = [m EXCEPT !.out = name, !.snap = snap]
  OBVIOUS
<1>12. n \in Merge /\ n.src = m.src /\ n.out = name /\ Uses(n) = Uses(m) \cup {name}
  <2>1. NamedAs(n, m, name, snap)
    BY <1>11, Zenon DEF NamedAs
  <2> QED
    BY <1>5, <1>8, <1>10, <2>1, NamedOK
<1>13. runningMerges' = {n}
  BY <1>5, <1>6, <1>11
<1>14. name \notin ToSet(segmentInfos') /\ name \notin 0..(counter - 1) /\ name # None
       /\ name \in 0..(counter' - 1)
  <2>1. name \notin 0..(counter - 1) /\ name # None /\ name \in 0..(counter' - 1)
    BY <1>6, <1>7, <1>8 DEF None
  <2>2. CASE UNCHANGED segmentInfos
    BY <2>1, <2>2, <1>9 DEF Grew
  <2>3. CASE name = counter + 1
    <3>1. name # counter
      BY <2>3, <1>7
    <3> QED
      BY <3>1, <2>1, <1>9 DEF Grew
  <2> QED
    BY <2>1, <2>2, <2>3, <1>6
<1>15. Registered(n)'
  <2>1. Registered(m)'
    BY <1>5, <1>9 DEF Grew
  <2> QED
    BY <2>1, <1>12, <1>14 DEF Registered
<1>16. Contiguous(n)'
  <2>1. m \in Merge
    BY <1>5 DEF Registered
  <2>2. Contiguous(m)'
    BY <2>1, <1>5, <1>9 DEF Grew
  <2>3. None \notin ToSet(segmentInfos')
    BY <1>7, <1>9 DEF Grew, None
  <2> QED
    BY <2>2, <2>3, <1>5, <1>12 DEF Contiguous
<1>17. \A k \in DOMAIN pendingMerges : ToSet(pendingMerges[k].src) \subseteq 0..(counter - 1)
  <2>1. \A k \in DOMAIN pendingMerges : Registered(pendingMerges[k])
    BY <1>7 DEF PendingOK
  <2> QED
    BY <2>1 DEF Registered, Uses
<1>18. RunningOK'
  <2>1. \A k \in DOMAIN pendingMerges' : Uses(n) \cap ToSet(pendingMerges'[k].src) = {}
    BY <1>1, <1>5, <1>12, <1>14, <1>17
  <2> QED
    BY <2>1, <1>13, <1>15, <1>16 DEF RunningOK
<1>19. PendingOK'
  <2>1. \A k \in DOMAIN pendingMerges : pendingMerges[k] \in Merge
    BY <1>7 DEF PendingOK, Registered
  <2> QED
    BY <2>1, <1>1, <1>7, <1>9 DEF PendingOK, Grew
<1>20. MergingExact'
  <2>1. mergingSegments = Used(ToSet(pendingMerges) \cup {m})
    BY <1>5 DEF IInv, MergingExact, Registereds, Used
  <2>2. Used(ToSet(pendingMerges) \cup {m}) = Used(ToSet(pendingMerges)) \cup Uses(m)
    <3>1. Used({m}) = Uses(m)
      BY DEF Used
    <3> QED
      BY <3>1, UsedUnion
  <2>3. Used(ToSet(pendingMerges) \cup {n}) = Used(ToSet(pendingMerges)) \cup Uses(n)
    <3>1. Used({n}) = Uses(n)
      BY DEF Used
    <3> QED
      BY <3>1, UsedUnion
  <2>4. mergingSegments' = Used(ToSet(pendingMerges) \cup {n})
    BY <2>1, <2>2, <2>3, <1>6, <1>12
  <2>5. mergingSegments' = Used(ToSet(pendingMerges') \cup runningMerges')
    BY <2>4, <1>1, <1>13
  <2> QED
    BY <2>5 DEF MergingExact, Registereds, Used
<1>21. /\ Moves(t) /\ call'[t].todo # <<>> /\ Head(call'[t].todo) = "commitMerge"
       /\ call'[t].src = m.src /\ ~At(t, "rollback")'
  BY <1>1, <1>3, <1>5, AdvancesMoves DEF Follows, Ends
<1>22. SchedulerOK'
  <2>1. Merging(t)'
    BY <1>21 DEF Merging, At
  <2>2. Stage(n, "commitMerge")'
    BY <1>12, <1>14 DEF Stage
  <2> QED
    BY <2>1, <2>2, <1>1, <1>5, <1>12, <1>13, <1>21, RunStep
<1>23. CallsOK'
  BY <1>1, <1>3, <1>21, CallsStep
<1>24. Served'
  <2>1. Serves(t) => Serves(t)'
    BY <1>1, <1>3, AdvancesMoves
  <2> QED
    BY <2>1, <1>1, <1>21, ServedStep DEF IInv
<1>25. RegistryOK' /\ RestOK'
  <2>1. mergingSegments' \subseteq 0..(counter' - 1)
    BY <1>6, <1>9, <1>14 DEF IInv, RegistryOK, Grew
  <2> QED
    BY <2>1, <1>1, <1>5, <1>9 DEF IInv, RegistryOK, RestOK, Grew
<1> QED
  BY <1>9, <1>18, <1>19, <1>20, <1>22, <1>23, <1>24, <1>25 DEF IInv, Grew

\* q is s but for x in place of the l elements after the first i.
Splices(q, s, i, l, x) ==
    /\ Len(q) = Len(s) - l + 1
    /\ \A k \in 1..i : q[k] = s[k]
    /\ q[i + 1] = x
    /\ \A k \in (i + 2)..(Len(s) - l + 1) : q[k] = s[k + l - 1]

\* c is b after a.
Joins(c, a, b) == c = a \o b

LEMMA Joined ==
  ASSUME NEW S, NEW a \in Seq(S), NEW b \in Seq(S), NEW c, Joins(c, a, b)
  PROVE  /\ c \in Seq(S) /\ Len(c) = Len(a) + Len(b)
         /\ \A k \in 1..Len(a) : c[k] = a[k]
         /\ \A k \in 1..Len(b) : c[Len(a) + k] = b[k]
PROOF
<1> DEFINE d == a \o b
<1>1. /\ d \in Seq(S) /\ Len(d) = Len(a) + Len(b)
      /\ \A k \in 1..(Len(a) + Len(b)) : d[k] = IF k <= Len(a) THEN a[k] ELSE b[k - Len(a)]
  BY ConcatProperties
<1>2. c = d
  BY DEF Joins
<1>3. Len(a) \in Nat /\ Len(b) \in Nat
  BY LenProperties
<1> HIDE DEF d
<1>4. ASSUME NEW k \in 1..Len(a) PROVE d[k] = a[k]
  <2>1. k \in 1..(Len(a) + Len(b)) /\ k <= Len(a)
    BY <1>3
  <2> QED
    BY <2>1, <1>1
<1>5. ASSUME NEW k \in 1..Len(b) PROVE d[Len(a) + k] = b[k]
  <2>1. Len(a) + k \in 1..(Len(a) + Len(b)) /\ ~(Len(a) + k <= Len(a)) /\ (Len(a) + k) - Len(a) = k
    BY <1>3
  <2> QED
    BY <2>1, <1>1
<1> QED
  BY <1>1, <1>2, <1>4, <1>5

\* q is s with the l elements after the first i replaced by x.
Replaces(q, s, i, l, x) == q = SubSeq(s, 1, i) \o <<x>> \o SubSeq(s, i + 1 + l, Len(s))

LEMMA Spliced ==
  ASSUME NEW S, NEW s \in Seq(S), NEW i \in Nat, NEW l \in Nat, l >= 1, i + l <= Len(s), NEW x \in S,
         NEW q, Replaces(q, s, i, l, x)
  PROVE  q \in Seq(S) /\ Splices(q, s, i, l, x)
PROOF
<1>1. PICK n, p, e, r, a : /\ n = Len(s) /\ p = SubSeq(s, 1, i) /\ e = <<x>>
                           /\ r = SubSeq(s, i + 1 + l, Len(s)) /\ a = SubSeq(s, 1, i) \o <<x>>
  OBVIOUS
<1>2. Joins(a, p, e) /\ Joins(q, a, r)
  BY <1>1, Zenon DEF Joins, Replaces
<1>3. n \in Nat /\ DOMAIN s = 1..n /\ (\A k \in 1..n : s[k] \in S) /\ i + l <= n
  BY <1>1, LenProperties, ElementOfSeq
<1>4. e \in Seq(S) /\ Len(e) = 1 /\ e[1] = x
  BY <1>1
<1>5. p \in Seq(S) /\ Len(p) = i /\ \A k \in 1..i : p[k] = s[k]
  <2>1. 1 \in Int /\ i \in Int /\ \A k \in 1..i : s[k] \in S
    BY <1>3
  <2>2. /\ p \in Seq(S)
        /\ Len(p) = IF 1 <= i THEN i - 1 + 1 ELSE 0
        /\ \A k \in 1..(i - 1 + 1) : p[k] = s[1 + k - 1]
    BY <1>1, <2>1, SubSeqProperties
  <2>3. Len(p) = i
    BY <2>2
  <2>4. ASSUME NEW k \in 1..i PROVE p[k] = s[k]
    <3>1. k \in 1..(i - 1 + 1) /\ 1 + k - 1 = k
      OBVIOUS
    <3> QED
      BY <3>1, <2>2
  <2> QED
    BY <2>2, <2>3, <2>4
<1>6. /\ r \in Seq(S) /\ Len(r) = n - i - l
      /\ \A k \in 1..(n - i - l) : r[k] = s[i + l + k]
  <2>1. PICK b : b = i + 1 + l
    OBVIOUS
  <2>2. b \in Int /\ n \in Int /\ \A k \in b..n : s[k] \in S
    BY <1>3, <2>1
  <2>3. r = SubSeq(s, b, n)
    BY <1>1, <2>1
  <2>4. /\ r \in Seq(S)
        /\ Len(r) = IF b <= n THEN n - b + 1 ELSE 0
        /\ \A k \in 1..(n - b + 1) : r[k] = s[b + k - 1]
    BY <2>2, <2>3, SubSeqProperties
  <2>5. Len(r) = n - i - l
    BY <1>3, <2>1, <2>4
  <2>6. ASSUME NEW k \in 1..(n - i - l) PROVE r[k] = s[i + l + k]
    <3>1. k \in 1..(n - b + 1) /\ b + k - 1 = i + l + k
      BY <1>3, <2>1
    <3> QED
      BY <3>1, <2>4
  <2> QED
    BY <2>4, <2>5, <2>6
<1>7. /\ a \in Seq(S) /\ Len(a) = i + 1
      /\ \A k \in 1..i : a[k] = s[k]
      /\ a[i + 1] = x
  <2>1. /\ a \in Seq(S) /\ Len(a) = Len(p) + Len(e)
        /\ \A k \in 1..Len(p) : a[k] = p[k]
        /\ \A k \in 1..Len(e) : a[Len(p) + k] = e[k]
    <3>1. p \in Seq(S) /\ e \in Seq(S) /\ Joins(a, p, e)
      BY <1>2, <1>4, <1>5
    <3> QED
      BY <3>1, Joined
  <2>2. 1 \in 1..Len(e)
    BY <1>4
  <2> QED
    BY <2>1, <2>2, <1>4, <1>5
<1>8. /\ q \in Seq(S) /\ Len(q) = Len(a) + Len(r)
      /\ \A k \in 1..Len(a) : q[k] = a[k]
      /\ \A k \in 1..Len(r) : q[Len(a) + k] = r[k]
  <2>1. a \in Seq(S) /\ r \in Seq(S) /\ Joins(q, a, r)
    BY <1>2, <1>6, <1>7
  <2> QED
    BY <2>1, Joined
<1>9. Len(q) = n - l + 1
  BY <1>3, <1>6, <1>7, <1>8
<1>10. \A k \in 1..(i + 1) : q[k] = a[k]
  BY <1>7, <1>8
<1>11. ASSUME NEW k \in (i + 2)..(n - l + 1) PROVE q[k] = s[k + l - 1]
  <2>1. PICK j : j = k - (i + 1)
    OBVIOUS
  <2>2. j \in 1..(n - i - l) /\ (i + 1) + j = k /\ i + l + j = k + l - 1
    BY <1>3, <2>1
  <2>3. q[(i + 1) + j] = r[j] /\ r[j] = s[i + l + j]
    BY <2>2, <1>6, <1>7, <1>8
  <2> QED
    BY <2>2, <2>3
<1>12. /\ \A k \in 1..i : q[k] = s[k]
       /\ q[i + 1] = x
  <2>1. \A k \in 1..i : k \in 1..(i + 1)
    OBVIOUS
  <2>2. i + 1 \in 1..(i + 1)
    OBVIOUS
  <2> QED
    BY <2>1, <2>2, <1>7, <1>10
<1> QED
  BY <1>1, <1>8, <1>9, <1>11, <1>12 DEF Splices

LEMMA SplicedMembers ==
  ASSUME NEW S, NEW s \in Seq(S), NEW q \in Seq(S), NEW i \in Nat, NEW l \in Nat, l >= 1,
         i + l <= Len(s), NEW x, Splices(q, s, i, l, x), IsInjective(s), x \notin ToSet(s)
  PROVE  IsInjective(q) /\ x \in ToSet(q) /\ ToSet(q) \subseteq ToSet(s) \cup {x}
PROOF
<1> DEFINE n == Len(s)
           f(k) == IF k <= i THEN k ELSE k + l - 1
<1>1. /\ n \in Nat /\ DOMAIN s = 1..n /\ DOMAIN q = 1..(n - l + 1)
      /\ i + l <= n
  BY LenProperties DEF Splices
<1>2. /\ \A k \in 1..i : q[k] = s[k]
      /\ q[i + 1] = x
      /\ \A k \in (i + 2)..(n - l + 1) : q[k] = s[k + l - 1]
  BY DEF Splices
<1> HIDE DEF n
<1>3. i + 1 \in DOMAIN q
  BY <1>1
<1>4. ASSUME NEW k \in DOMAIN q, k # i + 1
      PROVE  f(k) \in DOMAIN s /\ q[k] = s[f(k)]
  <2>1. CASE k <= i
    BY <2>1, <1>1, <1>2
  <2>2. CASE ~(k <= i)
    <3>1. f(k) = k + l - 1 /\ k \in (i + 2)..(n - l + 1)
      BY <2>2, <1>1, <1>4
    <3>2. k + l - 1 \in 1..n
      BY <3>1, <1>1
    <3> HIDE DEF f
    <3> QED
      BY <3>1, <3>2, <1>1, <1>2
  <2> QED
    BY <2>1, <2>2
<1>5. ASSUME NEW j \in DOMAIN q, NEW k \in DOMAIN q, j # i + 1, k # i + 1, f(j) = f(k)
      PROVE  j = k
  BY <1>1, <1>5
<1> HIDE DEF f
<1>6. ToSet(q) \subseteq ToSet(s) \cup {x}
  BY <1>2, <1>4 DEF ToSet
<1>7. \A k \in DOMAIN q : k # i + 1 => q[k] # x
  BY <1>4 DEF ToSet
<1>8. ASSUME NEW j \in DOMAIN q, NEW k \in DOMAIN q, q[j] = q[k] PROVE j = k
  <2>1. CASE j = i + 1 \/ k = i + 1
    BY <2>1, <1>2, <1>7, <1>8
  <2>2. CASE j # i + 1 /\ k # i + 1
    <3>1. f(j) = f(k)
      BY <2>2, <1>4, <1>8 DEF IsInjective
    <3> QED
      BY <3>1, <2>2, <1>5
  <2> QED
    BY <2>1, <2>2
<1> QED
  BY <1>2, <1>3, <1>6, <1>8 DEF IsInjective, ToSet

\* What lay elsewhere in s still does.
LEMMA SplicedLies ==
  ASSUME NEW S, NEW s \in Seq(S), NEW q \in Seq(S), NEW i, NEW src \in Seq(Nat), src # <<>>,
         NEW x, Lies(s, src, i), Splices(q, s, i, Len(src), x),
         NEW other \in Seq(Nat), other # <<>>, NEW j, Lies(s, other, j),
         ToSet(src) \cap ToSet(other) = {}
  PROVE  \E e \in 0..Len(q) : Lies(q, other, e)
PROOF
<1> DEFINE n == Len(s)
           l == Len(src)
           o == Len(other)
<1>1. /\ n \in Nat /\ l \in Nat /\ l >= 1 /\ o \in Nat /\ o >= 1
      /\ DOMAIN src = 1..l /\ DOMAIN other = 1..o
  BY LenProperties, EmptySeq
<1>2. /\ i \in 0..(n - l) /\ \A k \in 1..l : s[i + k] = src[k]
      /\ j \in 0..(n - o) /\ \A k \in 1..o : s[j + k] = other[k]
  BY DEF Lies
<1>3. /\ Len(q) = n - l + 1
      /\ \A k \in 1..i : q[k] = s[k]
      /\ \A k \in (i + 2)..(n - l + 1) : q[k] = s[k + l - 1]
  BY DEF Splices
<1> HIDE DEF n, l, o
<1>4. i \in Int /\ j \in Int /\ 0 <= i /\ i <= n - l /\ 0 <= j /\ j <= n - o
  BY <1>1, <1>2
<1>5. j + o <= i \/ j >= i + l
  <2> SUFFICES ASSUME j + o > i, j < i + l PROVE FALSE
    BY <1>1, <1>4
  <2>1. CASE j >= i
    <3>1. (j + 1) - i \in 1..l /\ 1 \in 1..o /\ i + ((j + 1) - i) = j + 1
      BY <2>1, <1>1, <1>4
    <3>2. src[(j + 1) - i] = other[1]
      BY <3>1, <1>2
    <3> QED
      BY <3>1, <3>2, <1>1 DEF ToSet
  <2>2. CASE j < i
    <3>1. (i + 1) - j \in 1..o /\ 1 \in 1..l /\ j + ((i + 1) - j) = i + 1
      BY <2>2, <1>1, <1>4
    <3>2. other[(i + 1) - j] = src[1]
      BY <3>1, <1>2
    <3> QED
      BY <3>1, <3>2, <1>1 DEF ToSet
  <2> QED
    BY <2>1, <2>2, <1>4
<1>6. CASE j + o <= i
  <2>1. j \in 0..(Len(q) - o) /\ j \in 0..Len(q)
    BY <1>1, <1>3, <1>4, <1>6
  <2>2. \A k \in 1..o : q[j + k] = other[k]
    <3>1. \A k \in 1..o : j + k \in 1..i
      BY <1>1, <1>4, <1>6
    <3> QED
      BY <3>1, <1>2, <1>3
  <2> QED
    BY <2>1, <2>2 DEF Lies, o
<1>7. CASE j >= i + l
  <2> DEFINE e == j - l + 1
  <2>1. e \in 0..(Len(q) - o) /\ e \in 0..Len(q)
    BY <1>1, <1>3, <1>4, <1>7
  <2>2. \A k \in 1..o : q[e + k] = other[k]
    <3>1. \A k \in 1..o : e + k \in (i + 2)..(n - l + 1) /\ (e + k) + l - 1 = j + k
      BY <1>1, <1>4, <1>7
    <3> QED
      BY <3>1, <1>2, <1>3
  <2> HIDE DEF e
  <2> QED
    BY <2>1, <2>2 DEF Lies, o
<1> QED
  BY <1>5, <1>6, <1>7

\* The merged segment has documents, and deletes some of them.
LEMMA MergedOK ==
  ASSUME NEW m, \A k \in DOMAIN m.src : /\ info[m.src[k]].dels \subseteq info[m.src[k]].docs
                                        /\ info[m.src[k]].docs \subseteq Document
  PROVE  Merged(m).dels \subseteq Merged(m).docs /\ Merged(m).docs \subseteq Document
PROOF
<1>1. /\ Merged(m).docs = UNION {info[m.src[k]].docs \ m.snap[k] : k \in DOMAIN m.src}
      /\ Merged(m).dels = UNION {info[m.src[k]].dels \ m.snap[k] : k \in DOMAIN m.src}
  BY DEF Merged
<1>2. \A k \in DOMAIN m.src : info[m.src[k]].dels \ m.snap[k] \subseteq info[m.src[k]].docs \ m.snap[k]
  OBVIOUS
<1>3. Merged(m).dels \subseteq Merged(m).docs
  BY <1>1, <1>2
<1>4. Merged(m).docs \subseteq Document
  BY <1>1
<1> QED
  BY <1>3, <1>4

LEMMA CommitMergeKeeps ==
  ASSUME IInv, NEW t \in Thread, CommitMerge(t)
  PROVE  IInv'
PROOF
<1>1. PICK m, s, first, q : /\ m = Mine(t) /\ s = segmentInfos /\ q = segmentInfos'
                            /\ first = CHOOSE i \in DOMAIN segmentInfos : segmentInfos[i] = m.src[1]
  OBVIOUS
<1>2. /\ Runs(t, "commitMerge") /\ Advances(t)
      /\ segmentInfos' = SubSeq(s, 1, first - 1) \o <<m.out>> \o SubSeq(s, first + Len(m.src), Len(s))
      /\ info' = [n \in ToSet(segmentInfos') |-> IF n = m.out THEN Merged(m) ELSE info[n]]
      /\ segmentsToOptimize' = segmentsToOptimize \cup ToOptimize(m)
  BY <1>1, Zenon DEF CommitMerge
<1>3. UNCHANGED <<counter, rollback, overtaken, mergingSegments, pendingMerges, runningMerges,
                  mergeExceptions, mergeGen, stopMerges, closing, life, scheduler, asleep,
                  halted, faults>>
  BY DEF CommitMerge, merges, failures, ending, bounds
<1>4. call[t].todo # <<>> /\ Head(call[t].todo) = "commitMerge" /\ CallsOK
  BY <1>2, RunsHead
<1>5. Merging(t)
  BY <1>4 DEF Merging, At
<1>6. /\ runningMerges = {m} /\ m.src = call[t].src /\ Registered(m) /\ Contiguous(m)
      /\ \A k \in DOMAIN pendingMerges : Uses(m) \cap ToSet(pendingMerges[k].src) = {}
      /\ m.out # None /\ m.out \notin ToSet(s) /\ scheduler = t /\ ~stopMerges
      /\ \A u \in Thread \ {t} : ~Merging(u)
  <2>1. /\ runningMerges = {Mine(t)} /\ Mine(t).src = call[t].src
        /\ Registered(Mine(t)) /\ Contiguous(Mine(t))
        /\ \A k \in DOMAIN pendingMerges : Uses(Mine(t)) \cap ToSet(pendingMerges[k].src) = {}
        /\ Stage(Mine(t), Head(call[t].todo))
        /\ scheduler = t /\ ~stopMerges
        /\ \A u \in Thread \ {t} : ~Merging(u)
    BY <1>5, MineRuns
  <2>2. Stage(m, "commitMerge")
    BY <2>1, <1>1, <1>4
  <2> QED
    BY <2>1, <2>2, <1>1 DEF Stage
<1>7. PICK T : T = 0..(counter - 1)
  OBVIOUS
<1>8. /\ s \in Seq(T) /\ IsInjective(s) /\ DOMAIN info = ToSet(s) /\ counter \in Nat
      /\ \A n \in DOMAIN info : info[n].dels \subseteq info[n].docs /\ info[n].docs \subseteq Document
  BY <1>1, <1>7 DEF IInv, IndexOK
<1>9. /\ m \in Merge /\ m.src \in Seq(Nat) /\ m.src # <<>> /\ m.out \in T
      /\ Uses(m) = ToSet(m.src) \cup {m.out}
  BY <1>6, <1>7 DEF Registered, Merge, Uses, Bound
<1>10. PICK i \in 0..Len(s) : Lies(s, m.src, i)
  BY <1>1, <1>6 DEF Contiguous
<1>11. \A k \in DOMAIN m.src : i + k \in DOMAIN s /\ m.src[k] = s[i + k] /\ m.src[k] \in ToSet(s)
  BY <1>8, <1>9, <1>10, LiesMembers
<1>12. PICK l : l = Len(m.src)
  OBVIOUS
<1>13. l \in Nat /\ l >= 1 /\ DOMAIN m.src = 1..l /\ i \in Nat /\ i + l <= Len(s) /\ Len(s) \in Nat
  BY <1>8, <1>9, <1>10, <1>12, LenProperties, EmptySeq DEF Lies
<1>14. first = i + 1
  <2>1. 1 \in DOMAIN m.src
    BY <1>13
  <2>2. i + 1 \in DOMAIN s /\ s[i + 1] = m.src[1]
    BY <2>1, <1>11
  <2>3. first \in DOMAIN s /\ s[first] = m.src[1]
    BY <2>2, <1>1
  <2> QED
    BY <2>2, <2>3, <1>8 DEF IsInjective
<1>15. Replaces(q, s, i, l, m.out)
  <2>1. first - 1 = i /\ first + Len(m.src) = i + 1 + l
    BY <1>12, <1>13, <1>14
  <2> QED
    BY <2>1, <1>1, <1>2, Zenon DEF Replaces
<1>16. q \in Seq(T) /\ Splices(q, s, i, l, m.out)
  BY <1>8, <1>9, <1>13, <1>15, Spliced
<1>17. IsInjective(q) /\ m.out \in ToSet(q) /\ ToSet(q) \subseteq ToSet(s) \cup {m.out}
  BY <1>6, <1>8, <1>13, <1>16, SplicedMembers
<1>18. IndexOK'
  <2>1. DOMAIN info' = ToSet(q)
    BY <1>1, <1>2
  <2>2. ASSUME NEW n \in ToSet(q)
        PROVE  info'[n].dels \subseteq info'[n].docs /\ info'[n].docs \subseteq Document
    <3>1. CASE n = m.out
      <4>1. \A k \in DOMAIN m.src : /\ info[m.src[k]].dels \subseteq info[m.src[k]].docs
                                    /\ info[m.src[k]].docs \subseteq Document
        BY <1>8, <1>11
      <4>2. info'[n] = Merged(m)
        BY <3>1, <1>1, <1>2
      <4> QED
        BY <4>1, <4>2, MergedOK
    <3>2. CASE n # m.out
      <4>1. info'[n] = info[n]
        BY <3>2, <1>1, <1>2
      <4> QED
        BY <3>2, <4>1, <1>8, <1>17
    <3> QED
      BY <3>1, <3>2
  <2> QED
    BY <2>1, <2>2, <1>1, <1>3, <1>7, <1>8, <1>16, <1>17 DEF IndexOK
<1>19. RollbackOK'
  BY <1>3 DEF IInv, RollbackOK
<1>20. \A n : Registered(n)' = Registered(n)
  BY <1>3 DEF Registered
<1>21. None \notin ToSet(s) /\ None \notin ToSet(q)
  <2>1. None \notin T
    BY <1>7, <1>8 DEF None
  <2> QED
    BY <2>1, <1>8, <1>16, ElementOfSeq DEF ToSet
<1>22. PendingOK'
  <2>1. PendingOK
    BY DEF IInv
  <2>2. ASSUME NEW k \in DOMAIN pendingMerges PROVE Contiguous(pendingMerges[k])'
    <3>1. PICK p : p = pendingMerges[k]
      OBVIOUS
    <3>2. Registered(p) /\ Contiguous(p) /\ p.out = None /\ ToSet(m.src) \cap ToSet(p.src) = {}
      BY <2>1, <3>1, <1>6, <1>9 DEF PendingOK
    <3>3. PICK j \in 0..Len(s) : Lies(s, p.src, j)
      BY <3>2, <1>1, <1>21 DEF Contiguous
    <3>4. p.src \in Seq(Nat) /\ p.src # <<>>
      BY <3>2 DEF Registered, Merge
    <3>5. Splices(q, s, i, Len(m.src), m.out)
      BY <1>12, <1>16
    <3>6. \E e \in 0..Len(q) : Lies(q, p.src, e)
      BY <3>2, <3>3, <3>4, <3>5, <1>8, <1>9, <1>10, <1>16, SplicedLies
    <3> QED
      BY <3>1, <3>6, <1>1, <1>3 DEF Contiguous
  <2> QED
    BY <2>1, <2>2, <1>3, <1>20 DEF PendingOK
<1>23. RunningOK'
  BY <1>1, <1>3, <1>6, <1>17, <1>20 DEF RunningOK, Contiguous
<1>24. MergingExact'
  BY <1>3 DEF IInv, MergingExact, Registereds
<1>25. RegistryOK'
  <2>1. ToOptimize(m) \subseteq T
    BY <1>9 DEF ToOptimize
  <2> QED
    BY <2>1, <1>2, <1>3, <1>7 DEF IInv, RegistryOK
<1>26. /\ Moves(t) /\ call'[t].todo # <<>> /\ Head(call'[t].todo) = "mergeFinish"
       /\ call'[t].src = m.src /\ ~At(t, "rollback")'
  BY <1>2, <1>4, <1>6, AdvancesMoves DEF Follows, Ends
<1>27. SchedulerOK'
  <2>1. Merging(t)'
    BY <1>26 DEF Merging, At
  <2>2. Stage(m, "mergeFinish")'
    BY <1>1, <1>17 DEF Stage
  <2> QED
    BY <2>1, <2>2, <1>3, <1>6, <1>26, RunStep
<1>28. CallsOK'
  BY <1>3, <1>4, <1>26, CallsStep
<1>29. Served'
  <2>1. Serves(t) => Serves(t)'
    BY <1>2, <1>4, AdvancesMoves
  <2> QED
    BY <2>1, <1>3, <1>26, ServedStep DEF IInv
<1>30. RestOK'
  BY <1>3 DEF IInv, RestOK
<1> QED
  BY <1>18, <1>19, <1>22, <1>23, <1>24, <1>25, <1>27, <1>28, <1>29, <1>30 DEF IInv

-----------------------------------------------------------------------------
(* The merge ends.                                                         *)

\* What the other merges use is what is left in mergingSegments.
LEMMA LeftMerging ==
  ASSUME IInv, NEW t \in Thread, Merging(t), NEW m, m = Mine(t)
  PROVE  Finished(m) = Used(ToSet(pendingMerges)) /\ Finished(m) \subseteq mergingSegments
PROOF
<1>1. /\ runningMerges = {m} /\ ~stopMerges
      /\ \A k \in DOMAIN pendingMerges : Uses(m) \cap ToSet(pendingMerges[k].src) = {}
  BY MineRuns
<1>2. mergingSegments = Used(ToSet(pendingMerges) \cup {m})
  BY <1>1 DEF IInv, MergingExact, Registereds, Used
<1>3. mergingSegments = Used(ToSet(pendingMerges)) \cup Uses(m)
  <2>1. Used({m}) = Uses(m)
    BY DEF Used
  <2> QED
    BY <1>2, <2>1, UsedUnion
<1>4. \A k \in DOMAIN pendingMerges : Uses(m) \cap Uses(pendingMerges[k]) = {}
  <2>1. \A k \in DOMAIN pendingMerges : pendingMerges[k].out = None
    BY DEF IInv, PendingOK
  <2> QED
    BY <2>1, <1>1, UsesPending
<1>5. Uses(m) \cap Used(ToSet(pendingMerges)) = {}
  BY <1>4 DEF Used, ToSet
<1> QED
  BY <1>3, <1>5 DEF Finished

LEMMA CascadeChooses ==
  ASSUME IInv, NEW t \in Thread, MergeEnded(t), Cascades, Merging(t)
  PROVE  overtaken' \in BOOLEAN /\ \E ranges, asked, m, S : m = Mine(t) /\ S = Finished(m) /\ Chosen(ranges, asked, S)
PROOF
<1>1. PICK m, opt, max, S : m = Mine(t) /\ opt = m.optimize /\ max = m.max /\ S = Finished(m)
  OBVIOUS
<1>2. /\ IndexOK /\ mergeGen \in Nat /\ overtaken \in BOOLEAN
      /\ opt \in BOOLEAN /\ max \in 0..MaxSegments
  <2>1. m \in Merge
    BY <1>1, MineRuns DEF Registered
  <2> QED
    BY <2>1, <1>1 DEF IInv, RestOK, Merge
<1>3. UpdatePendingMerges(Finished(m), m.optimize, m.max)
  BY <1>1, Zenon DEF MergeEnded
<1>4. PICK ranges \in {IF stopMerges THEN <<>> ELSE Asked(opt, max)} :
      \E asked \in {[k \in DOMAIN ranges |-> NewMerge(ranges[k], opt, max)]} :
      \E n \in 0..Len(ranges) : \E nth \in [1..n -> DOMAIN ranges] :
        LET segs == UNION {ToSet(asked[nth[i]].src) : i \in 1..n}
        IN  /\ Registers(ranges, asked, nth, S)
            /\ pendingMerges' = pendingMerges \o [i \in 1..n |-> asked[nth[i]]]
            /\ mergingSegments' = S \cup segs
            /\ overtaken' = (overtaken \/ (~opt /\ segs \cap segmentsToOptimize # {}))
  <2>1. UpdatePendingMerges(S, opt, max)
    BY <1>1, <1>3, Zenon
  <2> QED
    BY <2>1, Zenon DEF UpdatePendingMerges
<1>5. PICK asked \in {[k \in DOMAIN ranges |-> NewMerge(ranges[k], opt, max)]} :
      \E n \in 0..Len(ranges) : \E nth \in [1..n -> DOMAIN ranges] :
        /\ Registers(ranges, asked, nth, S)
        /\ pendingMerges' = pendingMerges \o [i \in 1..n |-> asked[nth[i]]]
        /\ mergingSegments' = S \cup UNION {ToSet(asked[nth[i]].src) : i \in 1..n}
  BY <1>4, Zenon
<1>6. \A k \in DOMAIN ranges : InIndex(ranges[k]) => Fresh(asked[k])
  <2>1. \A k \in DOMAIN ranges : asked[k] = NewMerge(ranges[k], opt, max)
    BY Zenon
  <2>2. \A range : InIndex(range) => Fresh(NewMerge(range, opt, max))
    BY <1>2, NewMergeOK
  <2> QED
    BY <2>1, <2>2, Zenon
<1>7. stopMerges => ranges = <<>>
  OBVIOUS
<1>8. Chosen(ranges, asked, S)
  BY <1>5, <1>6, <1>7, Zenon DEF Chosen
<1>9. overtaken' \in BOOLEAN
  BY <1>2, <1>3, Zenon DEF UpdatePendingMerges
<1> QED
  BY <1>1, <1>8, <1>9, Zenon

\* The merges that are left when it ended.
LEMMA EndedMerges ==
  ASSUME IInv, NEW t \in Thread, MergeEnded(t), Merging(t)
  PROVE  /\ PendingOK' /\ RunningOK' /\ MergingExact' /\ mergingSegments' \subseteq 0..(counter - 1)
         /\ runningMerges' = {} /\ overtaken' \in BOOLEAN
PROOF
<1>1. PICK m, S : m = Mine(t) /\ S = Finished(m)
  OBVIOUS
<1>2. /\ runningMerges = {m} /\ runningMerges' = runningMerges \ {m}
      /\ UNCHANGED <<segmentInfos, info, counter, stopMerges>>
  <2>1. runningMerges = {m}
    BY <1>1, MineRuns
  <2>2. runningMerges' = runningMerges \ {m}
    BY <1>1, Zenon DEF MergeEnded
  <2>3. UNCHANGED <<segmentInfos, info, counter, stopMerges>>
    BY DEF MergeEnded, index, ending
  <2> QED
    BY <2>1, <2>2, <2>3
<1>3. runningMerges' = {}
  BY <1>2
<1>4. S = Used(ToSet(pendingMerges)) /\ S \subseteq mergingSegments
  BY <1>1, LeftMerging
<1>5. S = Used(ToSet(pendingMerges) \cup runningMerges')
  BY <1>3, <1>4
<1>6. CASE Cascades
  <2>1. PICK ranges, asked : overtaken' \in BOOLEAN /\ Chosen(ranges, asked, S)
    BY <1>1, <1>6, CascadeChooses
  <2>2. UNCHANGED index /\ UNCHANGED stopMerges /\ runningMerges' \subseteq runningMerges
    BY <1>2, <1>3 DEF index
  <2> QED
    BY <1>3, <1>4, <1>5, <2>1, <2>2, ChosenKeeps
<1>7. CASE ~Cascades
  <2>1. mergingSegments' = S /\ pendingMerges' = pendingMerges /\ overtaken' = overtaken
    BY <1>1, <1>7, Zenon DEF MergeEnded
  <2>2. \A n : Registered(n)' = Registered(n) /\ Contiguous(n)' = Contiguous(n)
    BY <1>2 DEF Registered, Contiguous
  <2>3. PendingOK' /\ RunningOK'
    BY <1>3, <2>1, <2>2 DEF IInv, PendingOK, RunningOK
  <2>4. MergingExact'
    BY <1>5, <2>1 DEF MergingExact, Registereds, Used
  <2> QED
    BY <1>3, <1>4, <2>1, <2>3, <2>4 DEF IInv, RegistryOK, RestOK
<1> QED
  BY <1>6, <1>7

LEMMA MergeEndedKeeps ==
  ASSUME IInv, NEW t \in Thread, MergeEnded(t)
  PROVE  IInv'
PROOF
<1>1. /\ Runs(t, "mergeFinish") /\ asleep' = {}
      /\ Does(t, [call[t] EXCEPT !.src = <<>>], Rest(t))
      /\ UNCHANGED <<segmentInfos, info, counter, rollback, segmentsToOptimize, mergeExceptions,
                     mergeGen, stopMerges, closing, life, scheduler, halted, faults>>
  BY DEF MergeEnded, NotifyAll, index, failures, ending, bounds
<1>2. call[t].todo # <<>> /\ Head(call[t].todo) = "mergeFinish" /\ CallsOK
  BY <1>1, RunsHead
<1>3. Merging(t)
  BY <1>2 DEF Merging, At
<1>4. /\ PendingOK' /\ RunningOK' /\ MergingExact' /\ mergingSegments' \subseteq 0..(counter - 1)
      /\ runningMerges' = {} /\ overtaken' \in BOOLEAN
  BY <1>3, EndedMerges
<1>5. scheduler = t /\ ~stopMerges /\ \A u \in Thread \ {t} : ~Merging(u)
  BY <1>3, MineRuns
<1>6. PICK s, r, c : s = call[t].todo /\ r = Tail(s) /\ c = [call[t] EXCEPT !.src = <<>>]
  OBVIOUS
<1>7. /\ Script(s) /\ DOMAIN call = Thread /\ s # <<>> /\ Head(s) = "mergeFinish"
      /\ DOMAIN c = {"op", "todo", "src", "max", "goal"}
      /\ c.op # "none" /\ c.max \in 0..MaxSegments
  BY <1>2, <1>6 DEF CallsOK, CallOK
<1>8. /\ Script(r) /\ r # <<>> /\ Head(r) = "schedule" /\ "schedule" \in ToSet(r)
  <2>1. /\ Script(r) /\ Head(s) = s[1]
        /\ r = <<>> => Ends(s[1])
        /\ r # <<>> => Follows(s[1], Head(r))
    BY <1>6, <1>7, ScriptTail
  <2>2. r # <<>> /\ Head(r) = "schedule"
    BY <2>1, <1>7 DEF Ends, Follows
  <2> QED
    BY <2>1, <2>2, ScriptTail
<1>9. call' = [call EXCEPT ![t] = IF r = <<>> THEN NoCall ELSE [c EXCEPT !.todo = r]]
  BY <1>1, <1>6, Zenon DEF Does, Rest
<1>10. Moves(t) /\ call'[t].todo = r
  BY <1>7, <1>8, <1>9, DoesMoves
<1>11. ~Merging(t)' /\ ~At(t, "rollback")' /\ Serves(t)'
  BY <1>8, <1>10 DEF Merging, At, Serves
<1>12. SchedulerOK'
  BY <1>1, <1>4, <1>5, <1>10, <1>11, EndStep
<1>13. CallsOK'
  BY <1>1, <1>2, <1>10, <1>11, CallsStep
<1>14. Served'
  BY <1>1, <1>10, <1>11, ServedStep DEF IInv
<1>15. IndexOK' /\ RollbackOK'
  BY <1>1 DEF IInv, IndexOK, RollbackOK
<1>16. RegistryOK' /\ RestOK'
  BY <1>1, <1>4, <1>5 DEF IInv, RegistryOK, RestOK
<1> QED
  BY <1>4, <1>12, <1>13, <1>14, <1>15, <1>16 DEF IInv

-----------------------------------------------------------------------------
(* The merge fails.                                                        *)

LEMMA AddsExceptionOK ==
  ASSUME mergeExceptions \in Seq(Seq(Nat)), NEW m \in Merge, NEW e, AddsException(m, e)
  PROVE  e \in Seq(Seq(Nat))
PROOF
<1>1. m.src \in Seq(Nat)
  BY DEF Merge
<1>2. Append(mergeExceptions, m.src) \in Seq(Seq(Nat))
  BY <1>1, AppendProperties
<1> QED
  BY <1>2 DEF AddsException

LEMMA FreesException ==
  ASSUME NEW s \in Seq(Seq(Nat)), NEW src
  PROVE  [k \in DOMAIN s |-> IF s[k] = src THEN Freed ELSE s[k]] \in Seq(Seq(Nat))
PROOF
<1>1. PICK n \in Nat : DOMAIN s = 1..n
  BY LenProperties
<1>2. \A k \in 1..n : s[k] \in Seq(Nat)
  BY <1>1, ElementOfSeq, LenProperties
<1>3. Freed \in Seq(Nat)
  BY DEF Freed
<1>4. [k \in DOMAIN s |-> IF s[k] = src THEN Freed ELSE s[k]] \in [1..n -> Seq(Nat)]
  BY <1>1, <1>2, <1>3
<1> QED
  BY <1>4, IsSeq

\* The merge failed, and is about to be removed.
LEMMA MergeFailsKeeps ==
  ASSUME IInv, NEW t \in Thread,
         CommitMergeFails(t) \/ \E step \in {"commitMerge", "mergeFinish"} : MergeFails(t, step)
  PROVE  IInv'
PROOF
<1>1. /\ Runs(t, "commitMerge") \/ Runs(t, "mergeFinish")
      /\ faults' = faults + 1 /\ Goes(t, <<"failed">>)
      /\ UNCHANGED <<segmentInfos, info, counter, rollback, segmentsToOptimize, overtaken,
                     mergingSegments, pendingMerges, runningMerges, mergeGen, stopMerges,
                     closing, life, scheduler, asleep, halted>>
      /\ mergeExceptions' = mergeExceptions \/ AddsException(Mine(t), mergeExceptions')
  BY DEF CommitMergeFails, MergeFails, index, merges, optimizing, failures, ending
<1>2. /\ call[t].todo # <<>> /\ Head(call[t].todo) \in {"commitMerge", "mergeFinish"} /\ CallsOK
  BY <1>1, RunsHead
<1>3. Merging(t)
  BY <1>2 DEF Merging, At
<1>4. PICK m : m = Mine(t)
  OBVIOUS
<1>5. /\ runningMerges = {m} /\ m.src = call[t].src /\ m \in Merge /\ scheduler = t
      /\ \A u \in Thread \ {t} : ~Merging(u)
  BY <1>3, <1>4, MineRuns DEF Registered
<1>6. mergeExceptions' \in Seq(Seq(Nat))
  <2>1. mergeExceptions \in Seq(Seq(Nat))
    BY DEF IInv, RestOK
  <2>2. CASE AddsException(Mine(t), mergeExceptions')
    <3>1. PICK e : e = mergeExceptions'
      OBVIOUS
    <3>2. AddsException(m, e)
      BY <2>2, <3>1, <1>4
    <3> QED
      BY <2>1, <3>1, <3>2, <1>5, AddsExceptionOK
  <2> QED
    BY <2>1, <2>2, <1>1
<1>7. Quiet
  BY <1>1 DEF Quiet, index, merges
<1>8. (IndexOK /\ RollbackOK /\ PendingOK /\ RunningOK /\ RegistryOK /\ MergingExact)'
  BY <1>7, Frame
<1>9. Moves(t) /\ call'[t].todo = <<"failed">> /\ call'[t].src = m.src
  <2>1. Script(<<"failed">>) /\ <<"failed">> # <<>>
    BY Scripts
  <2> QED
    BY <2>1, <1>1, <1>2, <1>5, GoesMoves DEF Goes, Does
<1>10. Merging(t)' /\ ~At(t, "rollback")' /\ Head(call'[t].todo) = "failed"
  BY <1>9 DEF Merging, At
<1>11. SchedulerOK'
  <2>1. Stage(m, "failed")'
    BY DEF Stage
  <2> QED
    BY <2>1, <1>1, <1>5, <1>9, <1>10, RunStep
<1>12. CallsOK'
  BY <1>1, <1>2, <1>9, <1>10, CallsStep
<1>13. faults \in Nat /\ faults' # 0
  BY <1>1 DEF IInv, RestOK
<1>14. Served'
  BY <1>13 DEF Served
<1>15. RestOK'
  BY <1>1, <1>6, <1>13 DEF IInv, RestOK
<1> QED
  BY <1>8, <1>11, <1>12, <1>14, <1>15 DEF IInv

LEMMA MergeFailedKeeps ==
  ASSUME IInv, NEW t \in Thread, MergeFailed(t)
  PROVE  IInv'
PROOF
<1>1. PICK m, S : m = Mine(t) /\ S = Finished(m)
  OBVIOUS
<1>2. /\ Runs(t, "failed") /\ Throws(t)
      /\ UNCHANGED <<segmentInfos, info, counter, rollback, segmentsToOptimize, overtaken,
                     pendingMerges, mergeGen, stopMerges, life, halted, faults>>
  BY DEF MergeFailed, index, optimizing, bounds
<1>3. mergingSegments' = S /\ runningMerges' = runningMerges \ {m}
  BY <1>1, Zenon DEF MergeFailed
<1>4. call[t].todo # <<>> /\ Head(call[t].todo) = "failed" /\ CallsOK
  BY <1>2, RunsHead
<1>5. Merging(t)
  BY <1>4 DEF Merging, At
<1>6. /\ runningMerges = {m} /\ m \in Merge /\ scheduler = t /\ ~stopMerges
      /\ \A u \in Thread \ {t} : ~Merging(u)
  BY <1>1, <1>5, MineRuns DEF Registered
<1>7. S = Used(ToSet(pendingMerges)) /\ S \subseteq mergingSegments
  BY <1>1, <1>5, LeftMerging
<1>8. runningMerges' = {}
  BY <1>3, <1>6
<1>9. mergeExceptions' \in Seq(Seq(Nat))
  <2>1. PICK e \in {mergeExceptions, Append(mergeExceptions, m.src)} :
          /\ AddsException(m, e)
          /\ mergeExceptions' = [k \in DOMAIN e |-> IF e[k] = m.src THEN Freed ELSE e[k]]
    BY <1>1, Zenon DEF MergeFailed
  <2>2. mergeExceptions \in Seq(Seq(Nat))
    BY DEF IInv, RestOK
  <2>3. e \in Seq(Seq(Nat))
    BY <2>1, <2>2, <1>6, AddsExceptionOK
  <2> QED
    BY <2>1, <2>3, FreesException, Zenon
<1>10. Moves(t) /\ call'[t].todo = <<>> /\ ~Merging(t)' /\ ~At(t, "rollback")' /\ ~Serves(t)'
  BY <1>2, <1>4, ThrowsMoves
<1>11. scheduler' = NoOne /\ closing' \in BOOLEAN /\ asleep' = {}
  BY <1>2, <1>6 DEF Throws, NotifyAll, IInv, RestOK
<1>12. \A n : Registered(n)' = Registered(n) /\ Contiguous(n)' = Contiguous(n)
  BY <1>2 DEF Registered, Contiguous
<1>13. PendingOK' /\ RunningOK'
  BY <1>2, <1>8, <1>12 DEF IInv, PendingOK, RunningOK
<1>14. MergingExact'
  <2>1. ToSet(pendingMerges') \cup runningMerges' = ToSet(pendingMerges)
    BY <1>2, <1>8
  <2> QED
    BY <2>1, <1>3, <1>7 DEF MergingExact, Registereds, Used
<1>15. SchedulerOK'
  BY <1>6, <1>8, <1>10, <1>11, EndStep
<1>16. CallsOK'
  BY <1>2, <1>4, <1>10, CallsStep
<1>17. ~Serves(t)
  BY <1>4, LastStep
<1>18. Served'
  BY <1>2, <1>10, <1>17, ServedStep DEF IInv
<1>19. IndexOK' /\ RollbackOK'
  BY <1>2 DEF IInv, IndexOK, RollbackOK
<1>20. RegistryOK' /\ RestOK'
  BY <1>2, <1>3, <1>6, <1>7, <1>9, <1>11 DEF IInv, RegistryOK, RestOK
<1> QED
  BY <1>13, <1>14, <1>15, <1>16, <1>18, <1>19, <1>20 DEF IInv

-----------------------------------------------------------------------------
(* Merges are stopped, and what was done is taken back.                    *)

LEMMA StopMergesKeeps ==
  ASSUME IInv, NEW t \in Thread, StopMerges(t)
  PROVE  IInv'
PROOF
<1>1. /\ Runs(t, "stopMerges") /\ runningMerges = {} /\ stopMerges' = TRUE
      /\ pendingMerges' = <<>> /\ Advances(t) /\ mergingSegments' \subseteq mergingSegments
      /\ UNCHANGED <<segmentInfos, info, counter, rollback, segmentsToOptimize, overtaken,
                     runningMerges, mergeExceptions, mergeGen, closing, life, scheduler,
                     asleep, halted, faults>>
  BY DEF StopMerges, index, optimizing, failures, bounds
<1>2. call[t].todo # <<>> /\ Head(call[t].todo) = "stopMerges" /\ CallsOK /\ ~Merging(t)
  BY <1>1, RunsHead
<1>3. Moves(t) /\ ~Merging(t)'
  BY <1>1, <1>2, AdvancesMoves
<1>4. CallsOK' /\ SchedulerOK'
  BY <1>1, <1>2, <1>3, IdleStep DEF IInv
<1>5. PendingOK' /\ RunningOK' /\ MergingExact' /\ Served'
  BY <1>1 DEF PendingOK, RunningOK, MergingExact, Served
<1>6. IndexOK' /\ RollbackOK' /\ RegistryOK' /\ RestOK'
  BY <1>1 DEF IInv, IndexOK, RollbackOK, RegistryOK, RestOK
<1> QED
  BY <1>4, <1>5, <1>6 DEF IInv

LEMMA RollbackKeeps ==
  ASSUME IInv, NEW t \in Thread, Rollback(t)
  PROVE  IInv'
PROOF
<1>1. /\ Runs(t, "rollback") /\ Advances(t)
      /\ segmentInfos' = rollback[1] /\ info' = rollback[2]
      /\ UNCHANGED <<counter, rollback, segmentsToOptimize, overtaken, mergingSegments,
                     pendingMerges, runningMerges, mergeExceptions, mergeGen, stopMerges,
                     closing, life, scheduler, asleep, halted, faults>>
  BY DEF Rollback, optimizing, merges, failures, ending, bounds
<1>2. call[t].todo # <<>> /\ Head(call[t].todo) = "rollback" /\ CallsOK /\ ~Merging(t)
  BY <1>1, RunsHead
<1>3. stopMerges /\ pendingMerges = <<>> /\ runningMerges = {}
  BY <1>2 DEF CallsOK, At, IInv, RegistryOK
<1>4. Moves(t) /\ ~Merging(t)'
  BY <1>1, <1>2, AdvancesMoves
<1>5. CallsOK' /\ SchedulerOK'
  BY <1>1, <1>2, <1>3, <1>4, IdleStep DEF IInv
<1>6. PendingOK' /\ RunningOK' /\ MergingExact' /\ Served'
  BY <1>1, <1>3 DEF PendingOK, RunningOK, MergingExact, Served
<1>7. IndexOK' /\ RollbackOK'
  BY <1>1 DEF IInv, IndexOK, RollbackOK
<1>8. RegistryOK' /\ RestOK'
  BY <1>1 DEF IInv, RegistryOK, RestOK
<1> QED
  BY <1>5, <1>6, <1>7, <1>8 DEF IInv

-----------------------------------------------------------------------------
(* The invariant.                                                          *)

LEMMA InitialOK ==
  ASSUME NEW sizes \in Seq(Nat \ {0}), NEW s, s = [i \in DOMAIN sizes |-> i - 1]
  PROVE  /\ s \in Seq(0..(Len(sizes) - 1)) /\ IsInjective(s) /\ Len(sizes) \in Nat
         /\ \A n \in ToSet(s) : n \in Nat /\ sizes[n + 1] \in Nat
PROOF
<1>1. PICK l \in Nat : l = Len(sizes)
  BY LenProperties
<1>2. DOMAIN sizes = 1..l /\ \A i \in 1..l : sizes[i] \in Nat
  BY <1>1, LenProperties, ElementOfSeq
<1>3. DOMAIN s = 1..l /\ \A i \in 1..l : s[i] = i - 1 /\ s[i] \in 0..(l - 1)
  BY <1>2
<1>4. s \in [1..l -> 0..(l - 1)]
  BY <1>2, <1>3
<1>5. s \in Seq(0..(l - 1))
  BY <1>4, IsSeq
<1>6. IsInjective(s)
  BY <1>3 DEF IsInjective
<1>7. ASSUME NEW n \in ToSet(s) PROVE n \in Nat /\ sizes[n + 1] \in Nat
  <2>1. PICK i \in 1..l : n = i - 1
    BY <1>3 DEF ToSet
  <2>2. n + 1 = i
    BY <2>1
  <2> QED
    BY <2>1, <2>2, <1>2
<1> QED
  BY <1>1, <1>5, <1>6, <1>7

LEMMA InitIInv ==
  ASSUME Init
  PROVE  IInv
PROOF
<1>1. PICK sizes \in InitialSizes :
        /\ segmentInfos = [i \in DOMAIN sizes |-> i - 1]
        /\ info = [n \in ToSet(segmentInfos) |-> Segment(n, sizes[n + 1])]
        /\ counter = Len(sizes)
  BY DEF Init
<1>2. /\ rollback = <<segmentInfos, info>> /\ segmentsToOptimize = {} /\ overtaken = FALSE
      /\ mergingSegments = {} /\ pendingMerges = <<>> /\ runningMerges = {}
      /\ mergeExceptions = <<>> /\ mergeGen = 0 /\ stopMerges = FALSE /\ closing = FALSE
      /\ life = "open" /\ scheduler = NoOne /\ call = [t \in Thread |-> NoCall]
      /\ asleep = {} /\ halted = "no" /\ faults = 0
  BY DEF Init
<1>3. /\ segmentInfos \in Seq(0..(counter - 1)) /\ IsInjective(segmentInfos) /\ counter \in Nat
      /\ \A n \in ToSet(segmentInfos) : n \in Nat /\ sizes[n + 1] \in Nat
  BY <1>1, InitialAssumption, InitialOK
<1>4. ASSUME NEW n \in Nat, NEW size \in Nat
      PROVE  /\ Segment(n, size).dels \subseteq Segment(n, size).docs
             /\ Segment(n, size).docs \subseteq Document
  BY DEF Segment, Document
<1>5. IndexOK
  BY <1>1, <1>3, <1>4 DEF IndexOK
<1>6. RollbackOK
  BY <1>2, <1>5 DEF RollbackOK, IndexOK
<1>7. PendingOK /\ RunningOK /\ RegistryOK /\ Served
  BY <1>2 DEF PendingOK, RunningOK, RegistryOK, Served
<1>8. MergingExact
  BY <1>2 DEF MergingExact, Registereds, ToSet
<1>9. \A t \in Thread : call[t] = NoCall /\ call[t].todo = <<>>
  BY <1>2 DEF NoCall
<1>10. SchedulerOK
  BY <1>2, <1>9 DEF SchedulerOK, Merging, At
<1>11. CallOK(NoCall)
  <2>1. /\ DOMAIN NoCall = {"op", "todo", "src", "max", "goal"}
        /\ NoCall.op = "none" /\ NoCall.todo = <<>> /\ NoCall.max = 0
    BY DEF NoCall
  <2> QED
    BY <2>1, Scripts, BoundsAssumption DEF CallOK
<1>12. CallsOK
  BY <1>2, <1>9, <1>11 DEF CallsOK, At
<1>13. RestOK
  <2>1. mergeExceptions \in Seq(Seq(Nat))
    BY <1>2
  <2>2. {stopMerges, closing, overtaken} \subseteq BOOLEAN
    BY <1>2
  <2> QED
    BY <1>2, <2>1, <2>2 DEF RestOK
<1> QED
  BY <1>5, <1>6, <1>7, <1>8, <1>10, <1>12, <1>13 DEF IInv

LEMMA StutterKeeps ==
  ASSUME IInv, UNCHANGED vars
  PROVE  IInv'
PROOF
<1> USE DEF vars, index, merges, optimizing, ending, failures, bounds
<1>1. (IndexOK /\ RollbackOK /\ PendingOK /\ RunningOK /\ RegistryOK /\ MergingExact)'
  BY Frame DEF Quiet
<1>2. SchedulerOK'
  BY DEF IInv, SchedulerOK, Stage, Merging, At
<1>3. CallsOK'
  BY DEF IInv, CallsOK, At
<1>4. Served' /\ RestOK'
  BY DEF IInv, Served, Serves, RestOK
<1> QED
  BY <1>1, <1>2, <1>3, <1>4 DEF IInv

LEMMA NextKeeps ==
  ASSUME IInv, Next
  PROVE  IInv'
PROOF
<1>1. PICK t \in Thread : Call(t) \/ Step(t) \/ Fault(t)
  BY DEF Next
<1>2. CASE Call(t)
  BY <1>2, CallKeeps
<1>3. CASE Step(t)
  BY <1>3, FlushKeeps, QuietKeeps, MarkKeeps, SelectKeeps, GetNextMergeKeeps, MergeInitKeeps,
     HaltKeeps, CommitMergeKeeps, MergeEndedKeeps, MergeFailedKeeps, StopMergesKeeps,
     RollbackKeeps DEF Step
<1>4. CASE Fault(t)
  BY <1>4, HaltKeeps, MergeFailsKeeps, QuietKeeps DEF Fault
<1> QED
  BY <1>1, <1>2, <1>3, <1>4

\* The registry of merges, the calls and the index fit together in every state.
\* Of the calls it says which steps can follow which, that only the thread that
\* holds the scheduler's lock runs a merge, and at which step that merge has its
\* name and is in the index; of the merges, that each lies in the index as it
\* was registered and shares no segment with another.
THEOREM Invariance == Spec => []IInv
PROOF
<1>1. Init => IInv
  BY InitIInv
<1>2. IInv /\ [Next]_vars => IInv'
  BY NextKeeps, StutterKeeps
<1> QED
  BY <1>1, <1>2, PTL DEF Spec

-----------------------------------------------------------------------------
(* What it says.                                                           *)

\* Every variable has a value of its type for any number of threads, segments and
\* calls, and SerialMergeScheduler never runs two merges at a time.
THEOREM TypeCorrect == Spec => []TypeOK
PROOF
<1>1. IInv => TypeOK
  <2> SUFFICES ASSUME IInv PROVE TypeOK
    OBVIOUS
  <2>1. Registereds \subseteq Merge
    BY ElementOfSeq, LenProperties DEF IInv, PendingOK, RunningOK, Registered, Registereds, ToSet
  <2>2. Cardinality(runningMerges) <= 1
    <3>1. runningMerges = {} \/ \E m : runningMerges = {m}
      BY DEF IInv, RunningOK
    <3>2. Cardinality({}) = 0 /\ \A m : Cardinality({m}) = 1
      BY FS_EmptySet, FS_Singleton, Zenon
    <3>3. Cardinality(runningMerges) \in {0, 1}
      BY <3>1, <3>2, Zenon
    <3> QED
      BY <3>3
  <2>3. \A t \in Thread : Out(t) <=> call[t].todo = <<>>
    BY DEF IInv, CallsOK, CallOK, Out
  <2> QED
    BY <2>1, <2>2, <2>3 DEF TypeOK, IInv, IndexOK, RegistryOK, SchedulerOK, RestOK
<1> QED
  BY <1>1, Invariance, PTL

\* Until merges are stopped, mergingSegments is exactly what the registered
\* merges use: a segment that registerMerge adds is taken out when its merge
\* ends, fails or never begins.
THEOREM ExactlyMerging == Spec => []MergingExact
PROOF
<1>1. IInv => MergingExact
  BY DEF IInv
<1> QED
  BY <1>1, Invariance, PTL

\* While nothing fails, whoever registers a merge, or another thread, goes on to
\* run it: no pending merge is left behind.
THEOREM NoneForgotten == Spec => []PendingServed
PROOF
<1>1. IInv => PendingServed
  BY DEF IInv, Served, Serves, PendingServed
<1> QED
  BY <1>1, Invariance, PTL

LEMMA LiesSub ==
  ASSUME NEW S, NEW segs \in Seq(S), NEW src \in Seq(Nat), src # <<>>, NEW e, Lies(segs, src, e)
  PROVE  \E i, j \in DOMAIN segs : SubSeq(segs, i, j) = src
PROOF
<1>1. PICK l, n : l = Len(src) /\ n = Len(segs)
  OBVIOUS
<1>2. /\ l \in Nat /\ l >= 1 /\ DOMAIN src = 1..l /\ n \in Nat /\ DOMAIN segs = 1..n
      /\ e \in 0..(n - l) /\ (\A k \in 1..l : segs[e + k] = src[k])
  BY <1>1, LenProperties, EmptySeq DEF Lies
<1>3. PICK i, j : i = e + 1 /\ j = e + l
  OBVIOUS
<1>4. i \in 1..n /\ j \in 1..n /\ i <= j /\ j - i + 1 = l
  BY <1>2, <1>3
<1>5. i \in Int /\ j \in Int /\ \A k \in i..j : segs[k] \in S
  BY <1>1, <1>2, <1>4, ElementOfSeq
<1>6. PICK q : q = SubSeq(segs, i, j)
  OBVIOUS
<1>7. /\ q \in Seq(S) /\ Len(q) = IF i <= j THEN j - i + 1 ELSE 0
      /\ \A k \in 1..(j - i + 1) : q[k] = segs[i + k - 1]
  BY <1>5, <1>6, SubSeqProperties
<1>8. Len(q) = l
  BY <1>4, <1>7
<1>9. \A k \in 1..l : q[k] = src[k]
  <2> SUFFICES ASSUME NEW k \in 1..l PROVE q[k] = src[k]
    OBVIOUS
  <2>1. k \in 1..(j - i + 1) /\ i + k - 1 = e + k
    BY <1>2, <1>3, <1>4
  <2> QED
    BY <2>1, <1>2, <1>7
<1>10. q = src
  BY <1>1, <1>7, <1>8, <1>9, SeqEqual
<1> QED
  BY <1>2, <1>4, <1>6, <1>10

\* registerMerge and mergeFinish keep the merges apart: no segment is in two of
\* them, and the segments of one stay neighbours in the index, whatever is
\* flushed, merged or deleted meanwhile, until it is committed.
THEOREM KeptApart == Spec => []MergesApart
PROOF
<1>1. IInv => MergesApart
  <2> SUFFICES ASSUME IInv PROVE MergesApart
    OBVIOUS
  <2>1. \A k \in DOMAIN pendingMerges : Uses(pendingMerges[k]) = ToSet(pendingMerges[k].src)
    BY UsesPending DEF IInv, PendingOK
  <2>2. ASSUME NEW m \in Registereds, NEW n \in Registereds, m # n
        PROVE  Uses(m) \cap Uses(n) = {}
    <3>1. CASE m \in runningMerges /\ n \in runningMerges
      BY <3>1, <2>2 DEF IInv, RunningOK
    <3>2. CASE m \in runningMerges /\ n \in ToSet(pendingMerges)
      BY <3>2, <2>1 DEF IInv, RunningOK, ToSet
    <3>3. CASE m \in ToSet(pendingMerges) /\ n \in runningMerges
      BY <3>3, <2>1 DEF IInv, RunningOK, ToSet
    <3>4. CASE m \in ToSet(pendingMerges) /\ n \in ToSet(pendingMerges)
      <4>1. PICK j \in DOMAIN pendingMerges, k \in DOMAIN pendingMerges :
              m = pendingMerges[j] /\ n = pendingMerges[k]
        BY <3>4 DEF ToSet
      <4> QED
        BY <4>1, <2>1, <2>2 DEF IInv, PendingOK
    <3> QED
      BY <3>1, <3>2, <3>3, <3>4 DEF Registereds
  <2>3. ASSUME NEW m \in Registereds, m.out \notin ToSet(segmentInfos)
        PROVE  \E i, j \in DOMAIN segmentInfos : SubSeq(segmentInfos, i, j) = m.src
    <3>1. Registered(m) /\ Contiguous(m)
      BY DEF IInv, PendingOK, RunningOK, Registereds, ToSet
    <3>2. PICK e : Lies(segmentInfos, m.src, e)
      BY <3>1, <2>3 DEF Contiguous
    <3>3. m.src \in Seq(Nat) /\ m.src # <<>>
      BY <3>1 DEF Registered, Merge
    <3>4. PICK S : segmentInfos \in Seq(S)
      BY DEF IInv, IndexOK
    <3> QED
      BY <3>2, <3>3, <3>4, LiesSub
  <2> QED
    BY <2>2, <2>3 DEF MergesApart
<1> QED
  BY <1>1, Invariance, PTL
=============================================================================
