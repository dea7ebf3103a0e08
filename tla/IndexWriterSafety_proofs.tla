---------------------- MODULE IndexWriterSafety_proofs ----------------------
(***************************************************************************)
(* Proofs about the files of IndexWriter, continued: the steps that write  *)
(* segments_N, flush, open, close and crash; and the theorems that follow, *)
(* for every client of the writer that does not go on using it during      *)
(* abort().                                                                *)
(***************************************************************************)
EXTENDS IndexWriterFiles_proofs

-----------------------------------------------------------------------------
(* Writing segments_N.                                                     *)

\* What the steps of an operation that is about to write segments_N are.
LEMMA WriteSteps ==
  ASSUME IInv, FInv, HeadOf(op.todo) \in {"write", "finish"}, NEW S, S = Steps(op.todo),
         NEW t, t = Tail(op.todo)
  PROVE  /\ op.todo # <<>> /\ status # "closed"
         /\ t # <<>> /\ t \in Seq(Step) /\ Steps(t) \subseteq S /\ Ordered(t)
         /\ \A a \in S : a \in Steps(t) \/ a[1] = HeadOf(op.todo)
         /\ "segment" \notin Names(op.todo) /\ Names(t) \cap Firsts = {}
         /\ Names(t) \subseteq Names(op.todo)
         /\ Names(op.todo) = {HeadOf(op.todo)} \cup Names(t)
         /\ \A b \in Steps(t) : Before(Head(op.todo), b)
         /\ Head(op.todo)[1] = HeadOf(op.todo)
         /\ t[1] = op.todo[2] /\ Len(op.todo) >= 2
         /\ status = "opening" => infos = <<>> /\ Head(t) = <<"ctor">>
         /\ status # "opening" => Head(t) = <<"ckpt", TRUE>>
PROOF
<1>1. PICK o : o = op
  OBVIOUS
<1>2. /\ OpShape(o) /\ OrderShape(o, status, autoCommit) /\ o.todo # <<>>
      /\ o.todo \in Seq(Step) /\ Script(o.todo)
  <2>1. OpShape(o) /\ OrderShape(o, status, autoCommit)
    BY <1>1, PartsOf
  <2>2. o.todo # <<>>
    BY <1>1 DEF HeadOf
  <2> QED
    BY <2>1, <2>2 DEF OpShape
<1>3. PICK s, st : s = o.todo /\ st = status
  OBVIOUS
<1>4. /\ t \in Seq(Step) /\ Head(s) \in Steps(s) /\ Steps(s) = {Head(s)} \cup Steps(t)
      /\ Ordered(t) /\ \A b \in Steps(t) : Before(Head(s), b)
      /\ t # <<>> => Head(t) = s[2] /\ Len(s) >= 2
  <2>1. Ordered(s) /\ s \in Seq(Step) /\ s # <<>> /\ t = Tail(s)
    BY <1>1, <1>2, <1>3 DEF OrderShape
  <2> QED
    BY ONLY <2>1, StepsRest
<1>5. t # <<>> /\ (st = "opening" => Head(t) = <<"ctor">>) /\ (st # "opening" => Head(t) = <<"ckpt", TRUE>>)
  <2>1. PICK ac : ac = autoCommit
    OBVIOUS
  <2>2. OpShape(o) /\ OrderShape(o, st, ac) /\ HeadOf(o.todo) \in {"write", "finish"} /\ t = Tail(o.todo)
    BY <1>1, <1>2, <1>3, <2>1
  <2> QED
    BY ONLY <2>2, OrderWritten
<1>6. Head(s)[1] = HeadOf(op.todo)
  BY <1>1, <1>2, <1>3 DEF HeadOf
<1>7. Kinds(Steps(s)) = Names(s) /\ Kinds(Steps(t)) = Names(t)
  BY KindsAre
<1>8. Names(s) = {HeadOf(op.todo)} \cup Names(t)
  BY <1>4, <1>6, <1>7 DEF Kinds
<1>9. "segment" \notin Names(s)
  <2>1. \A b \in Steps(t) : b[1] # "segment"
    <3>1. <<"stores">>[1] = "stores" /\ <<"ckpt", FALSE>>[1] = "ckpt"
      OBVIOUS
    <3> QED
      BY <1>4, <1>6, <3>1 DEF Before
  <2> QED
    BY <1>7, <1>8, <2>1 DEF Kinds
<1>10. Names(t) \cap Firsts = {}
  BY <1>1, <1>2, <1>3, Rest
<1>11. status # "closed"
  BY <1>1, <1>2 DEF IInv, StartOK, StartShape
<1>12. status = "opening" => infos = <<>>
  BY Heads DEF FInv, WrittenOK
<1>13. t[1] = s[2]
  BY <1>4, <1>5
<1>14. s = op.todo /\ S = Steps(s)
  BY <1>1, <1>3
<1>15. \A a \in S : a \in Steps(t) \/ a[1] = HeadOf(op.todo)
  BY <1>4, <1>6, <1>14
<1>16. t # <<>> /\ Len(s) >= 2
  BY <1>4, <1>5
<1> QED
  BY <1>2, <1>3, <1>4, <1>5, <1>6, <1>8, <1>9, <1>10, <1>11, <1>12, <1>13, <1>14, <1>15, <1>16

\* The files, the buffer and the merge are not touched by a step of writing
\* segments_N: what was sound stays so with the first step done.
LEMMA WriteGoes ==
  ASSUME IInv, FInv, HeadOf(op.todo) \in {"write", "finish"},
         UNCHANGED <<deleter, status, infos, counter, buf, merge>>, dir \subseteq dir',
         NEW S2, Steps(Tail(op.todo)) \subseteq S2,
         S2 \subseteq Steps(Tail(op.todo)) \cup {<<"finish">>},
         NEW w2, w2 = World'
  PROVE  Sound(infos, S2, w2) /\ BufSoundIn(S2, w2) /\ MergeSoundIn(infos, w2)
PROOF
<1>1. PICK S, w, t : S = Steps(op.todo) /\ w = World /\ t = Tail(op.todo)
  OBVIOUS
<1>2. /\ w.safe = dir /\ w.base = D!Named(commits, last) /\ w.ref = D!Referenced
      /\ w.held = held /\ w.counter = counter /\ w.buf = buf /\ w.merge = merge
      /\ w.status = status /\ Kinds(S) = Names(op.todo)
      /\ Sound(infos, S, w) /\ BufSoundIn(S, w) /\ MergeSoundIn(infos, w)
      /\ BufShape(buf, counter) /\ MergeShape(merge, counter, buf.seg) /\ counter \in Nat
  BY <1>1, PartsOf
<1>3. /\ w2.safe = dir' /\ w2.base = D!Named(commits, last) /\ w2.ref = D!Referenced
      /\ w2.held = held /\ w2.counter = counter /\ w2.buf = buf /\ w2.merge = merge
      /\ w2.status = status
  BY WorldThen
<1>4. /\ Steps(t) \subseteq S
      /\ \A a \in S : a \in Steps(t) \/ a[1] = HeadOf(op.todo)
      /\ "segment" \notin Names(op.todo) /\ Names(t) \cap Firsts = {}
  <2>1. IInv /\ FInv /\ HeadOf(op.todo) \in {"write", "finish"}
    OBVIOUS
  <2> QED
    BY ONLY <2>1, <1>1, WriteSteps
<1>5. <<"finish">>[1] = "finish"
  OBVIOUS
<1>6. /\ \A a \in S \ S2 : a[1] \in {"write", "finish"}
      /\ \A a \in S2 : a \in S \/ a = <<"finish">>
      /\ \A k : k \notin {"write", "finish"} => (k \in Kinds(S) <=> k \in Kinds(S2))
  <2>1. \A a \in S \ S2 : a[1] \in {"write", "finish"}
    BY <1>1, <1>4
  <2>2. \A a \in S2 : a \in S \/ a = <<"finish">>
    BY <1>1, <1>4
  <2> QED
    BY <1>5, <2>1, <2>2 DEF Kinds
<1>7. \A a \in S2 : a[1] \notin {"stores", "segment"}
  <2>1. \A a \in Steps(t) : a[1] \in Names(t)
    BY KindsAre DEF Kinds
  <2>2. \A a \in S : a[1] \in Names(op.todo)
    BY <1>2 DEF Kinds
  <2> QED
    BY <1>1, <1>4, <1>5, <1>6, <2>1, <2>2 DEF Firsts
<1>8. FilesIn(infos) \subseteq dir
  BY <1>2 DEF Sound, FilesSound
<1>9. Sound(infos, S2, w2)
  <2>1. S2 \subseteq S \cup {<<"finish">>}
    BY <1>6
  <2>2. \A a \in S \ S2 : a[1] \notin {"stores", "merged"}
    BY <1>6
  <2>3. w2.status \notin {"closed", "opening"} /\ "ckpt" \notin Kinds(S2) =>
           FilesIn(infos) \subseteq w2.base
    BY <1>2, <1>3, <1>6 DEF Sound, FilesSound
  <2>4. w2.merge.stage = "compound" /\ "merged" \notin Kinds(S2) =>
           Cfs(w2.merge.out.name) \in w2.safe
    BY <1>2, <1>3, <1>6 DEF Sound
  <2>5. w2.held # {} => Writing(w2.merge) \/ "release" \in Kinds(S2)
    BY <1>2, <1>3, <1>6 DEF Sound
  <2>6. "ckpt" \notin Kinds(S2) /\ w.buf.store # None
           /\ ("ckpt" \in Kinds(S) \/ Store(w.buf.store) \in w.base) =>
           Store(w.buf.store) \in w2.base
    BY <1>2, <1>3, <1>6
  <2>7. FilesIn(infos) \subseteq w2.safe
    BY <1>3, <1>8
  <2>8. w2.buf = w.buf /\ w2.merge = w.merge /\ w2.counter = w.counter /\ w2.status = w.status
        /\ w2.ref = w.ref
    BY <1>2, <1>3
  <2> QED
    BY <1>2, <1>7, <2>1, <2>2, <2>3, <2>4, <2>5, <2>6, <2>7, <2>8, Popped
<1>10. BufSoundIn(S2, w2)
  <2>1. "segment" \notin Kinds(S)
    BY <1>2, <1>4
  <2>2. buf.store \in Name \cup {None}
    BY <1>2 DEF BufShape
  <2>3. buf.store # None => Store(buf.store) \in dir /\ (Store(buf.store) \in w.ref => Store(buf.store) \in w.base)
    BY <1>2 DEF BufSoundIn
  <2> QED
    BY <1>2, <1>3, <2>1, <2>2, <2>3, BufStill
<1>11. MergeSoundIn(infos, w2)
  BY <1>2, <1>3 DEF MergeSoundIn
<1> QED
  BY <1>9, <1>10, <1>11

\* A new segments_N is created.
LEMMA StartWriteSafe ==
  ASSUME IInv, FInv, DP!IInv, IInv', StartWrite
  PROVE  [DeleterStep]_(D!vars) /\ FInv'
PROOF
<1>1. HeadOf(op.todo) = "write"
  BY HeadAt DEF StartWrite
<1>2. PICK S, t, g : S = Steps(op.todo) /\ t = Tail(op.todo) /\ g = gen + 1
  OBVIOUS
<1>3. /\ op.todo # <<>> /\ status # "closed"
      /\ t # <<>> /\ t \in Seq(Step) /\ Steps(t) \subseteq S /\ Ordered(t)
      /\ Names(t) \cap Firsts = {}
      /\ Names(t) \subseteq Names(op.todo)
      /\ Names(op.todo) = {"write"} \cup Names(t)
      /\ \A a \in S : a \in Steps(t) \/ a[1] = "write"
      /\ \A b \in Steps(t) : Before(Head(op.todo), b)
      /\ Head(op.todo)[1] = "write"
      /\ t[1] = op.todo[2] /\ Len(op.todo) >= 2
      /\ status = "opening" => infos = <<>>
  <2>1. IInv /\ FInv /\ HeadOf(op.todo) \in {"write", "finish"}
    BY <1>1
  <2>2. /\ op.todo # <<>> /\ status # "closed"
        /\ t # <<>> /\ t \in Seq(Step) /\ Steps(t) \subseteq S /\ Ordered(t)
        /\ \A a \in S : a \in Steps(t) \/ a[1] = HeadOf(op.todo)
        /\ Names(t) \cap Firsts = {}
        /\ Names(t) \subseteq Names(op.todo)
        /\ Names(op.todo) = {HeadOf(op.todo)} \cup Names(t)
        /\ \A b \in Steps(t) : Before(Head(op.todo), b)
        /\ Head(op.todo)[1] = HeadOf(op.todo)
        /\ t[1] = op.todo[2] /\ Len(op.todo) >= 2
        /\ status = "opening" => infos = <<>>
    BY ONLY <2>1, <1>2, WriteSteps
  <2> QED
    BY ONLY <1>1, <2>2
<1>4. /\ gen' = g /\ g \in Gen /\ gen < g /\ gen \in Nat /\ g \in Nat
      /\ lastGen <= gen /\ lastGen \in Nat
      /\ UNCHANGED <<pinned, deleter, status, autoCommit, infos, lastGen, counter, commitPending,
                     rollback, buf, merge, faults>>
      /\ dir' = dir \cup {SegmentsFile(g)}
      /\ disk' = [h \in DOMAIN disk \cup {g} |->
                    IF h = g THEN [complete |-> FALSE, infos |-> <<>>, counter |-> counter]
                             ELSE disk[h]]
  <2>1. lastGen <= gen
    BY <1>3 DEF FInv, LastOK
  <2>2. lastGen \in Nat
    BY DEF IInv, RestOK
  <2>3. gen' = g
    BY <1>2 DEF StartWrite
  <2> QED
    BY <1>2, <2>1, <2>2, <2>3, Types DEF StartWrite, Gen
<1>5. PICK s : s = <<<<"finish">>>> \o t
  OBVIOUS
<1>6. PICK o, o2 : o = op /\ o2 = op'
  OBVIOUS
<1>7. OpShape(o) /\ Script(t) /\ OrderShape(o, status, autoCommit)
  <2>1. OpShape(o) /\ OrderShape(o, status, autoCommit)
    BY <1>6, PartsOf
  <2>2. Script(t)
    BY <1>2, <1>3, <1>6, <2>1, Rest DEF OpShape
  <2> QED
    BY <2>1, <2>2
<1>8. Script(s) /\ Names(s) = {"finish"} \cup Names(t) /\ s # <<>> /\ HeadOf(s) = "finish"
  BY <1>3, <1>5, <1>7, FinishScript
<1>9. o2 = Going(o, s)
  BY <1>2, <1>5, <1>6 DEF StartWrite, GoOn, Going
<1>10. OpShape(o2) /\ o2.todo = s /\ o2.onFail = op.onFail /\ o2.undo = op.undo
       /\ o2.pausing = op.pausing
  <2>1. OpShape(o2) /\ o2.todo = s /\ o2.onFail = o.onFail /\ o2.undo = o.undo
    BY <1>7, <1>8, <1>9, WentOn
  <2>2. o2.pausing = o.pausing
    BY <1>8, <1>9 DEF Going
  <2> QED
    BY <1>6, <2>1, <2>2
<1>11. PICK f : f = <<"finish">>
  OBVIOUS
<1>12. f[1] = "finish" /\ f \in Step
  BY <1>11 DEF Step
<1>13. PICK u : u = <<f>>
  OBVIOUS
<1>14. u \in Seq(Step) /\ Steps(u) = {f} /\ Ordered(u) /\ s = u \o t /\ Len(u) = 1 /\ u[1] = f
  <2>1. Steps(<<f>>) = {f} /\ Ordered(<<f>>)
    BY ONLY ShortLists
  <2>2. <<f>> \in Seq(Step)
    BY ONLY <1>12
  <2> QED
    BY <1>5, <1>11, <1>13, <2>1, <2>2
<1>15. Ordered(s) /\ Steps(s) = {f} \cup Steps(t)
  <2>1. \A b \in Steps(t) : Before(f, b)
    <3>1. \A b \in Steps(t) : b[1] # "segment"
      <4>1. <<"stores">>[1] = "stores" /\ <<"ckpt", FALSE>>[1] = "ckpt"
        OBVIOUS
      <4> QED
        BY <1>3, <4>1 DEF Before
    <3> QED
      BY <1>12, <3>1 DEF Before
  <2>2. \A a \in Steps(u), b \in Steps(t) : Before(a, b)
    BY <1>14, <2>1
  <2>3. Ordered(s) /\ Steps(s) = Steps(u) \cup Steps(t)
    BY ONLY <1>3, <1>14, <2>2, StepsJoin
  <2> QED
    BY <1>14, <2>3
<1>16. Len(s) >= 2 /\ s[2] = op.todo[2]
  <2>1. Len(s) >= 2 /\ s[2] = t[1]
    <3>1. t \in Seq(Step) /\ Len(t) >= 1
      BY <1>3
    <3>2. Len(s) = Len(u) + Len(t)
      <4>1. u \in Seq(Step) /\ t \in Seq(Step) /\ s = u \o t
        BY <1>14, <3>1
      <4> QED
        BY ONLY <4>1, ConcatProperties
    <3>3. s[2] = t[1]
      BY ONLY <1>14, <3>1, <3>2
    <3>4. Len(s) >= 2
      BY <1>14, <3>1, <3>2
    <3> QED
      BY <3>3, <3>4
  <2> QED
    BY <1>3, <2>1
<1>17. OrderShape(op', status', autoCommit)
  <2>1. PICK st, ac : st = status /\ ac = autoCommit
    OBVIOUS
  <2>2. OrderShape(o, st, ac)
    BY <1>7, <2>1
  <2>3. f # <<"ckpt", TRUE>>
    <3>1. <<"ckpt", TRUE>>[1] = "ckpt"
      OBVIOUS
    <3> QED
      BY <1>12, <3>1
  <2>4. /\ Ordered(o2.onFail) /\ <<"ckpt", TRUE>> \notin Steps(o2.onFail)
        /\ Names(o2.onFail) \cap {"ctor", "close", "segment", "cfs"} = {}
    BY <1>6, <1>10, <2>2 DEF OrderShape
  <2>5. /\ "ctor" \in Names(s) => st = "opening"
        /\ "segment" \in Names(s) => o2.pausing
    BY <1>3, <1>6, <1>8, <1>10, <2>2 DEF OrderShape
  <2>6. ~ac /\ <<"ckpt", TRUE>> \in Steps(s) => "close" \in Names(s)
    <3>1. <<"ckpt", TRUE>> \in Steps(s) => <<"ckpt", TRUE>> \in Steps(op.todo)
      BY <1>2, <1>3, <1>11, <1>15, <2>3
    <3>2. ~ac /\ <<"ckpt", TRUE>> \in Steps(op.todo) => "close" \in Names(op.todo)
      BY <1>6, <2>2 DEF OrderShape
    <3> QED
      BY <1>3, <1>8, <3>1, <3>2
  <2>7. s[2] = (IF st = "opening" THEN <<"ctor">> ELSE <<"ckpt", TRUE>>)
    <3>1. o.todo[2] = (IF st = "opening" THEN <<"ctor">> ELSE <<"ckpt", TRUE>>)
      BY <1>1, <1>6, <2>2 DEF OrderShape
    <3> QED
      BY <1>6, <1>16, <3>1
  <2>8. OrderShape(o2, st, ac)
    BY <1>10, <1>15, <1>16, <2>4, <2>5, <2>6, <2>7 DEF OrderShape
  <2> QED
    BY <1>4, <1>6, <2>1, <2>8
<1>18. op'.todo = s
  BY <1>6, <1>10
<1>19. Unreg = 0 /\ Unreg' = 0
  <2>1. <<"ckpt", TRUE>>[1] = "ckpt"
    OBVIOUS
  <2>2. Head(s)[1] = "finish"
    BY <1>8 DEF HeadOf
  <2> QED
    BY <1>3, <1>18, <2>1, <2>2 DEF Unreg
<1>20. \A h \in Gen : D!Readable(h) \/ SegmentsFile(h) \in D!Referenced => h < g
  <2>1. \A h \in Gen : D!Readable(h) \/ SegmentsFile(h) \in D!Referenced => h <= lastGen
    BY <1>3 DEF FInv, LastOK
  <2>2. Gen \subseteq Nat
    BY Generations
  <2> QED
    BY <1>4, <2>1, <2>2
<1>21. Stored' = [h \in DOMAIN Stored \cup {g} |->
                    IF h = g THEN [complete |-> FALSE, files |-> <<>>] ELSE Stored[h]]
  <2>1. PICK d2 : d2 = disk'
    OBVIOUS
  <2>2. /\ DOMAIN d2 = DOMAIN disk \cup {g}
        /\ d2[g].complete = FALSE
        /\ \A h \in DOMAIN d2 : h # g => h \in DOMAIN disk /\ d2[h] = disk[h]
    BY <1>4, <2>1
  <2>3. Stored' = [h \in DOMAIN d2 |-> [complete |-> d2[h].complete,
                                        files |-> IF d2[h].complete THEN InfosFiles(d2[h].infos)
                                                  ELSE <<>>]]
    BY <2>1 DEF Stored, FilesOn
  <2>4. DOMAIN Stored = DOMAIN disk
    BY DEF Stored
  <2>5. \A h \in DOMAIN disk : Stored[h] = [complete |-> disk[h].complete,
                                           files |-> IF disk[h].complete
                                                     THEN InfosFiles(disk[h].infos) ELSE <<>>]
    BY DEF Stored, FilesOn
  <2> QED
    BY <2>2, <2>3, <2>4, <2>5
<1>22. [DeleterStep]_(D!vars)
  <2>1. SegmentsFile(g) \notin deletable \cup D!Referenced
    BY <1>4, <1>20 DEF FInv, Clean
  <2>2. UNCHANGED <<refCounts, commits, last, held, deletable>> /\ Up' = Up
    BY <1>4 DEF deleter, Up
  <2>3. D!StartSegments(g)
    BY <1>4, <1>19, <1>20, <1>21, <2>1, <2>2 DEF D!StartSegments, Stored, Up, Unreg
  <2>4. D!StartSegments(gen')
    BY <1>4, <2>3 DEF D!StartSegments
  <2> QED
    BY <2>4 DEF DeleterStep
<1>23. PICK w2 : w2 = World'
  OBVIOUS
<1>24. /\ w2.safe = dir' /\ w2.base = D!Named(commits, last) /\ w2.ref = D!Referenced
       /\ w2.held = held /\ w2.counter = counter /\ w2.buf = buf /\ w2.merge = merge
       /\ w2.status = status /\ (D!Referenced)' = D!Referenced
  BY <1>4, <1>23, WorldThen
<1>25. Sound(infos, Steps(s), w2) /\ BufSoundIn(Steps(s), w2) /\ MergeSoundIn(infos, w2)
  <2>1. dir \subseteq dir' /\ UNCHANGED <<deleter, status, infos, counter, buf, merge>>
    BY <1>4
  <2>2. Steps(Tail(op.todo)) \subseteq Steps(s)
        /\ Steps(s) \subseteq Steps(Tail(op.todo)) \cup {<<"finish">>}
    BY <1>2, <1>11, <1>15
  <2> QED
    BY <1>1, <1>23, <2>1, <2>2, WriteGoes
<1>26. UndoSound'
  <2>1. SUFFICES ASSUME Undoing' PROVE Sound(op.undo, Steps(op.onFail), w2)
    BY <1>6, <1>10, <1>23 DEF UndoSound
  <2>2. Undoing
    BY <1>1, <1>6, <1>8, <1>10, <2>1 DEF Undoing, Undoes
  <2>3. PICK w : w = World
    OBVIOUS
  <2>4. Sound(op.undo, Steps(op.onFail), w)
    BY <2>2, <2>3 DEF FInv, UndoSound
  <2>5. ListOK(op.undo, counter)
    BY <2>2 DEF IInv, UndoOK, Fits
  <2>6. /\ w.safe = dir /\ w.base = D!Named(commits, last) /\ w.ref = D!Referenced
        /\ w.held = held /\ w.counter = counter /\ w.buf = buf /\ w.merge = merge
        /\ w.status = status /\ counter \in Nat
    BY <2>3, PartsOf
  <2>7. \A a \in Steps(op.onFail) : a \in Step
    BY Types DEF Steps
  <2>8. merge.stage = "compound" /\ "merged" \notin Kinds(Steps(op.onFail)) =>
          Cfs(merge.out.name) \in dir'
    BY <1>4, <2>4, <2>6 DEF Sound
  <2>9. dir \subseteq dir'
    BY <1>4
  <2> QED
    BY <1>24, <2>4, <2>5, <2>6, <2>7, <2>8, <2>9, Aside
<1>27. InfosSound' /\ BufSound' /\ MergeSound'
  BY <1>4, <1>18, <1>23, <1>25 DEF InfosSound, BufSound, MergeSound
<1>28. RollbackSound'
  <2>1. HeadOf(op'.todo) # "close" /\ HeadOf(op.todo) # "close" /\ commits' = commits
    BY <1>1, <1>4, <1>8, <1>18 DEF deleter
  <2> QED
    BY <1>4, <2>1 DEF FInv, RollbackSound, Backable, RollbackShape
<1>29. NamesBelow' /\ Clean' /\ OrderOK'
  BY <1>4, <1>17, <1>24 DEF FInv, NamesBelow, Clean, OrderOK, deleter
<1>30. PICK d2 : d2 = disk'
  OBVIOUS
<1>31. /\ DOMAIN d2 = DOMAIN disk \cup {g}
       /\ d2[g].complete = FALSE /\ d2[g].infos = <<>> /\ d2[g].counter = counter
       /\ \A h \in DOMAIN d2 : h # g => h \in DOMAIN disk /\ d2[h] = disk[h]
  BY <1>4, <1>30
<1>32. DiskSound'
  <2>1. \A h \in DOMAIN d2 : \A i \in DOMAIN d2[h].infos : d2[h].infos[i].store < d2[h].counter
    BY <1>31 DEF FInv, DiskSound
  <2>2. \A i \in DOMAIN infos : infos[i].store < counter
    BY <1>24, <1>25 DEF Sound, FilesSound
  <2>3. d2[gen'].counter = counter /\ infos' = infos
    BY <1>4, <1>31
  <2> QED
    BY <1>30, <2>1, <2>2, <2>3 DEF DiskSound
<1>33. LastOK'
  <2>1. \A h \in Gen : (D!Readable(h))' => D!Readable(h)
    <3>1. \A h \in Gen : SegmentsFile(h) = SegmentsFile(g) => h = g
      BY <1>4, Generations
    <3>2. SUFFICES ASSUME NEW h \in Gen, (D!Readable(h))' PROVE D!Readable(h)
      OBVIOUS
    <3>3. h \in DOMAIN d2 /\ d2[h].complete /\ SegmentsFile(h) \in dir'
      BY <1>30, <3>2 DEF D!Readable
    <3>4. h # g /\ SegmentsFile(h) \in dir
      BY <1>4, <1>31, <3>1, <3>3
    <3> QED
      BY <1>31, <3>3, <3>4 DEF D!Readable
  <2>2. \A h \in Gen : D!Readable(h) \/ SegmentsFile(h) \in D!Referenced => h <= lastGen
    BY <1>3 DEF FInv, LastOK
  <2>3. \A h \in Gen : (D!Readable(h))' \/ SegmentsFile(h) \in (D!Referenced)' => h <= lastGen
    BY <1>24, <2>1, <2>2
  <2>4. lastGen' = lastGen /\ lastGen <= gen'
    BY <1>4
  <2> QED
    BY <2>3, <2>4 DEF LastOK
<1>34. WrittenOK'
  <2>1. At("finish")' /\ ~At("ctor")'
    BY <1>8, <1>18, HeadAt
  <2>2. op'.todo # <<>> /\ Head(op'.todo) # <<"ckpt", TRUE>>
    <3>1. <<"ckpt", TRUE>>[1] = "ckpt"
      OBVIOUS
    <3>2. Head(s)[1] = "finish"
      BY <1>8 DEF HeadOf
    <3> QED
      BY <1>8, <1>18, <3>1, <3>2
  <2>3. g \in DOMAIN d2 /\ ~d2[g].complete /\ SegmentsFile(g) \in dir' /\ lastGen < g
    BY <1>4, <1>31
  <2>4. status' = "opening" => infos' = <<>>
    BY <1>3, <1>4
  <2> QED
    BY <1>4, <1>30, <2>1, <2>2, <2>3, <2>4 DEF WrittenOK
<1> QED
  BY <1>22, <1>26, <1>27, <1>28, <1>29, <1>32, <1>33, <1>34 DEF FInv

\* It is complete, and is the newest commit.
LEMMA FinishWriteSafe ==
  ASSUME IInv, FInv, DP!IInv, IInv', FinishWrite
  PROVE  [DeleterStep]_(D!vars) /\ FInv'
PROOF
<1>1. HeadOf(op.todo) = "finish" /\ At("finish")
  BY HeadAt DEF FinishWrite
<1>2. PICK S, t, g : S = Steps(op.todo) /\ t = Tail(op.todo) /\ g = gen
  OBVIOUS
<1>3. /\ op.todo # <<>> /\ status # "closed"
      /\ t # <<>> /\ t \in Seq(Step)
      /\ status = "opening" => infos = <<>> /\ Head(t) = <<"ctor">>
      /\ status # "opening" => Head(t) = <<"ckpt", TRUE>>
  <2>1. IInv /\ FInv /\ HeadOf(op.todo) \in {"write", "finish"}
    BY <1>1
  <2> QED
    BY ONLY <2>1, <1>2, WriteSteps
<1>4. /\ g \in DOMAIN disk /\ ~disk[g].complete /\ SegmentsFile(g) \in dir /\ lastGen < g
      /\ g \in Gen /\ g \in Nat /\ lastGen \in Nat
  <2>1. g \in DOMAIN disk /\ ~disk[g].complete /\ SegmentsFile(g) \in dir /\ lastGen < g
    BY <1>1, <1>2 DEF FInv, WrittenOK
  <2>2. g \in Gen /\ Gen \subseteq Nat
    BY <2>1, Generations DEF IInv, DiskOK
  <2>3. lastGen \in Nat
    BY DEF IInv, RestOK
  <2> QED
    BY <2>1, <2>2, <2>3
<1>5. /\ disk' = [disk EXCEPT ![g].complete = TRUE, ![g].infos = infos]
      /\ lastGen' = g /\ gen' = g /\ Advance
      /\ UNCHANGED <<dir, pinned, deleter, status, autoCommit, infos, gen,
                     counter, rollback, buf, merge, faults>>
  BY <1>2 DEF FinishWrite
<1>6. PICK d2 : d2 = disk'
  OBVIOUS
<1>7. /\ DOMAIN d2 = DOMAIN disk /\ d2[g].complete = TRUE /\ d2[g].infos = infos
      /\ d2[g].counter = disk[g].counter
      /\ \A h \in DOMAIN d2 : h # g => d2[h] = disk[h]
  <2>1. disk[g] \in DiskSegments
    BY <1>4 DEF IInv, DiskOK
  <2> QED
    BY <1>4, <1>5, <1>6, <2>1 DEF DiskSegments
<1>8. op'.todo = t /\ ~Undoing' /\ OrderOK' /\ HeadOf(t) \notin Firsts
  <2>1. Popping(op, op', status, autoCommit)
    BY <1>3, <1>5, Onward
  <2> QED
    BY <1>2, <1>5, <2>1 DEF Popping, Undoing, OrderOK
<1>9. Unreg = 0 /\ Unreg' = (IF Up THEN g ELSE 0)
  <2>1. <<"ckpt", TRUE>>[1] = "ckpt" /\ <<"ctor">>[1] = "ctor"
    OBVIOUS
  <2>2. Head(op.todo)[1] = "finish"
    BY <1>1, <1>3 DEF HeadOf
  <2>3. Up <=> status # "opening"
    BY <1>3 DEF Up
  <2> QED
    BY <1>3, <1>5, <1>8, <2>1, <2>2, <2>3 DEF Unreg
<1>10. /\ \A h \in Gen : D!Readable(h) => h < g
       /\ SegmentsFile(g) \notin D!Referenced
  <2>1. \A h \in Gen : D!Readable(h) \/ SegmentsFile(h) \in D!Referenced => h <= lastGen
    BY <1>3 DEF FInv, LastOK
  <2>2. Gen \subseteq Nat
    BY Generations
  <2> QED
    BY <1>4, <2>1, <2>2
<1>11. PICK fs : fs = InfosFiles(infos)
  OBVIOUS
<1>12. ListOK(infos, counter)
  BY PartsOf
<1>13. Stored' = [Stored EXCEPT ![g] = [complete |-> TRUE, files |-> fs]]
  <2>1. Stored' = [h \in DOMAIN d2 |-> [complete |-> d2[h].complete,
                                        files |-> IF d2[h].complete THEN InfosFiles(d2[h].infos)
                                                  ELSE <<>>]]
    BY <1>6 DEF Stored, FilesOn
  <2>2. /\ Stored = [h \in DOMAIN disk |-> Stored[h]]
        /\ \A h \in DOMAIN disk : Stored[h] = [complete |-> disk[h].complete,
                                              files |-> IF disk[h].complete
                                                        THEN InfosFiles(disk[h].infos) ELSE <<>>]
    BY DEF Stored, FilesOn
  <2> QED
    BY <1>4, <1>7, <1>11, <2>1, <2>2
<1>14. IF Up THEN D!Range(fs) \subseteq D!Usable ELSE fs = <<>>
  <2>1. CASE Up
    <3>1. FilesIn(infos) \subseteq dir
      BY DEF FInv, InfosSound, Sound, FilesSound, World
    <3>2. D!Range(fs) = FilesIn(infos)
      BY <1>11, <1>12, VectorsOfFiles
    <3> QED
      BY <2>1, <3>1, <3>2 DEF D!Usable, FInv, Clean
  <2>2. CASE ~Up
    <3>1. infos = <<>>
      BY <1>3, <2>2 DEF Up
    <3>2. PICK vs : vs = [i \in DOMAIN infos |-> FilesOf(infos[i])]
      OBVIOUS
    <3>3. vs = <<>>
      BY <3>1, <3>2
    <3>4. vs \in Seq(Seq(File)) /\ Len(vs) = 0
      BY <3>3
    <3>5. FlattenSeq(vs) = <<>>
      BY <3>4, Flattened
    <3> QED
      BY <1>11, <2>2, <3>2, <3>5 DEF InfosFiles
  <2> QED
    BY <2>1, <2>2
<1>15. [DeleterStep]_(D!vars)
  <2>1. UNCHANGED <<dir, refCounts, commits, last, held, deletable>> /\ Up' = Up
    BY <1>5 DEF deleter, Up
  <2>2. g \in DOMAIN Stored /\ ~Stored[g].complete
    BY <1>4 DEF Stored
  <2>3. SegmentsFile(g) \in D!Usable \ D!Referenced
    BY <1>4, <1>10 DEF D!Usable, FInv, Clean
  <2>4. D!FinishSegments(g, fs)
    BY <1>9, <1>10, <1>13, <1>14, <2>1, <2>2, <2>3 DEF D!FinishSegments, Stored, Up, Unreg
  <2>5. D!FinishSegments(gen, InfosFiles(infos))
    BY <1>2, <1>11, <2>4 DEF D!FinishSegments
  <2> QED
    BY <2>5 DEF DeleterStep
<1>16. PICK w2 : w2 = World'
  OBVIOUS
<1>17. Sound(infos, Steps(t), w2) /\ BufSoundIn(Steps(t), w2) /\ MergeSoundIn(infos, w2)
  <2>1. dir \subseteq dir' /\ UNCHANGED <<deleter, status, infos, counter, buf, merge>>
    BY <1>5
  <2>2. Steps(Tail(op.todo)) \subseteq Steps(t)
        /\ Steps(t) \subseteq Steps(Tail(op.todo)) \cup {<<"finish">>}
    BY <1>2
  <2> QED
    BY <1>1, <1>16, <2>1, <2>2, WriteGoes
<1>18. InfosSound' /\ UndoSound' /\ BufSound' /\ MergeSound'
  BY <1>5, <1>8, <1>16, <1>17 DEF InfosSound, UndoSound, BufSound, MergeSound
<1>19. (D!Referenced)' = D!Referenced
  BY <1>5, WorldThen
<1>20. RollbackSound'
  <2>1. HeadOf(op.todo) # "close" /\ commits' = commits
    BY <1>1, <1>5 DEF deleter
  <2> QED
    BY <1>5, <2>1 DEF FInv, RollbackSound, Backable, RollbackShape
<1>21. NamesBelow' /\ Clean'
  BY <1>5, <1>19 DEF FInv, NamesBelow, Clean, deleter
<1>22. ~At("finish")'
  BY <1>8, HeadAt DEF Firsts
<1>23. DiskSound'
  <2>1. \A h \in DOMAIN disk : \A i \in DOMAIN disk[h].infos : disk[h].infos[i].store < disk[h].counter
    BY DEF FInv, DiskSound
  <2>2. \A i \in DOMAIN infos : infos[i].store < disk[g].counter
    BY <1>1, <1>2 DEF FInv, DiskSound
  <2>3. \A h \in DOMAIN d2 : \A i \in DOMAIN d2[h].infos : d2[h].infos[i].store < d2[h].counter
    BY <1>7, <2>1, <2>2
  <2> QED
    BY <1>6, <1>22, <2>3 DEF DiskSound
<1>24. LastOK'
  <2>1. \A h \in Gen : (D!Readable(h))' => D!Readable(h) \/ h = g
    BY <1>5, <1>6, <1>7 DEF D!Readable
  <2>2. \A h \in Gen : SegmentsFile(h) \in D!Referenced => h <= lastGen
    BY <1>3 DEF FInv, LastOK
  <2>3. \A h \in Gen : (D!Readable(h))' \/ SegmentsFile(h) \in (D!Referenced)' => h <= g
    <3>1. Gen \subseteq Nat
      BY Generations
    <3> QED
      BY <1>4, <1>10, <1>19, <2>1, <2>2, <3>1
  <2>4. lastGen' = g /\ gen' = g /\ g <= g
    BY <1>4, <1>5
  <2> QED
    BY <2>3, <2>4 DEF LastOK
<1>25. WrittenOK'
  <2>1. HeadOf(t) \notin {"write", "finish"} /\ ~At("finish")'
    <3>1. HeadOf(t) # "finish" /\ HeadOf(t) # "write"
      BY <1>8 DEF Firsts
    <3> QED
      BY <1>8, <3>1, HeadAt
  <2>2. At("ctor")' => D!Newest(gen)' /\ disk'[gen'].infos = infos'
    <3>1. D!Readable(gen)'
      BY <1>4, <1>5, <1>6, <1>7 DEF D!Readable
    <3>2. \A h \in Gen : (D!Readable(h))' => h <= gen'
      <4>1. \A h \in Gen : (D!Readable(h))' => D!Readable(h) \/ h = g
        BY <1>5, <1>6, <1>7 DEF D!Readable
      <4>2. Gen \subseteq Nat
        BY Generations
      <4> QED
        BY <1>4, <1>5, <1>10, <4>1, <4>2
    <3> QED
      BY <1>5, <1>6, <1>7, <3>1, <3>2 DEF D!Newest
  <2>3. op'.todo # <<>> /\ Head(op'.todo) = <<"ckpt", TRUE>> =>
          gen' \in DOMAIN disk' /\ disk'[gen'].complete /\ disk'[gen'].infos = infos'
    BY <1>4, <1>5, <1>6, <1>7
  <2>4. Head1' \notin {"write", "finish"}
    BY <1>8, <2>1, HeadAt DEF Head1, HeadOf
  <2> QED
    BY <2>1, <2>2, <2>3, <2>4 DEF WrittenOK
<1> QED
  BY <1>8, <1>15, <1>18, <1>20, <1>21, <1>23, <1>24, <1>25 DEF FInv

\* Nothing happens to what the deleter sees.
LEMMA DeleterStutters ==
  ASSUME UNCHANGED <<dir, disk, deleter>>, Up' = Up, Unreg' = Unreg
  PROVE  [DeleterStep]_(D!vars)
PROOF
<1>1. Stored' = Stored
  BY DEF Stored, FilesOn
<1>2. UNCHANGED <<dir, refCounts, commits, last, held, deletable>>
  BY DEF deleter
<1>3. UNCHANGED D!vars
  BY <1>1, <1>2 DEF D!vars, Stored, Up, Unreg
<1> QED
  BY <1>3

\* It fails: the segments are again those before the operation changed them,
\* and the operation turns to its undo list.
LEMMA WriteFailsSafe ==
  ASSUME IInv, FInv, DP!IInv, IInv', WriteFails
  PROVE  [DeleterStep]_(D!vars) /\ FInv'
PROOF
<1>1. HeadOf(op.todo) \in {"write", "finish"} /\ Undoing
  BY Heads DEF WriteFails, Undoing, Undoes
<1>2. PICK S, t, f, is : S = Steps(op.todo) /\ t = Tail(op.todo) /\ f = op.onFail /\ is = op.undo
  OBVIOUS
<1>3. /\ op.todo # <<>> /\ status # "closed"
      /\ "segment" \notin Names(op.todo)
      /\ Head(op.todo)[1] = HeadOf(op.todo)
      /\ status = "opening" => infos = <<>>
  <2>1. IInv /\ FInv /\ HeadOf(op.todo) \in {"write", "finish"}
    BY <1>1
  <2> QED
    BY ONLY <2>1, <1>2, WriteSteps
<1>4. /\ infos' = is /\ GoOn(f) /\ merge.stage # "init"
      /\ UNCHANGED <<dir, disk, pinned, deleter, status, autoCommit, lastGen, counter, rollback, buf,
                     merge>>
  BY <1>2 DEF WriteFails, store
<1>5. gen <= gen' /\ gen' \in Nat /\ gen \in Nat
  <2>1. gen' \in {gen, gen + 1}
    BY DEF WriteFails
  <2> QED
    BY <2>1, Types
<1>6. PICK o, o2, st, ac : o = op /\ o2 = op' /\ st = status /\ ac = autoCommit
  OBVIOUS
<1>7. /\ OpShape(o) /\ OrderShape(o, st, ac) /\ Script(f) /\ f \in Seq(Step)
      /\ Names(f) \cap {"write", "finish", "stores", "bind"} = {}
  <2>1. OpShape(o) /\ OrderShape(o, st, ac)
    BY <1>6, PartsOf
  <2> QED
    BY <1>2, <1>6, <2>1 DEF OpShape
<1>8. /\ <<"ckpt", TRUE>> \notin Steps(f)
      /\ Names(f) \cap {"ctor", "close", "segment", "cfs"} = {} /\ Ordered(f)
  BY <1>2, <1>6, <1>7 DEF OrderShape
<1>9. o2 = Going(o, f)
  BY <1>4, <1>6 DEF GoOn, Going
<1>10. o2.todo = f
  BY <1>7, <1>9, WentOn
<1>11. OrderShape(o2, st, ac)
  <2>1. Names(f) \cap {"ctor", "write", "finish", "segment"} = {}
    BY <1>7, <1>8
  <2> QED
    BY <1>7, <1>8, <1>9, <2>1, OrderTurned
<1>12. HeadOf(f) \notin {"write", "finish", "ctor"} /\ (f = <<>> \/ Head(f) # <<"ckpt", TRUE>>)
  <2>1. HeadOf(f) = "idle" \/ HeadOf(f) \in Names(f)
    BY <1>7, HeadName
  <2>2. f # <<>> => Head(f) \in Steps(f)
    BY <1>7, StepsRest
  <2> QED
    BY <1>7, <1>8, <2>1, <2>2
<1>13. Unreg = 0 /\ Unreg' = 0
  <2>1. <<"ckpt", TRUE>>[1] = "ckpt"
    OBVIOUS
  <2> QED
    BY <1>1, <1>3, <1>6, <1>10, <1>12, <2>1 DEF Unreg
<1>14. [DeleterStep]_(D!vars)
  <2>1. Up' = Up /\ Unreg' = Unreg /\ UNCHANGED <<dir, disk, deleter>>
    BY <1>4, <1>13 DEF Up
  <2> QED
    BY ONLY <2>1, DeleterStutters
<1>15. PICK w, w2 : w = World /\ w2 = World'
  OBVIOUS
<1>16. /\ w.safe = dir /\ w.base = D!Named(commits, last) /\ w.ref = D!Referenced
       /\ w.held = held /\ w.counter = counter /\ w.buf = buf /\ w.merge = merge
       /\ w.status = status /\ Kinds(S) = Names(op.todo)
       /\ BufSoundIn(S, w) /\ MergeSoundIn(infos, w)
       /\ BufShape(buf, counter) /\ counter \in Nat
  BY <1>2, <1>15, PartsOf
<1>17. /\ w2.safe = dir /\ w2.base = D!Named(commits, last) /\ w2.ref = D!Referenced
       /\ w2.held = held /\ w2.counter = counter /\ w2.buf = buf /\ w2.merge = merge
       /\ w2.status = status /\ (D!Referenced)' = D!Referenced
  BY <1>4, <1>15, WorldThen
<1>18. Sound(is, Steps(f), w2)
  <2>1. Sound(is, Steps(f), w)
    BY <1>1, <1>2, <1>15 DEF FInv, UndoSound
  <2>2. w2 = w
    <3>1. D!Named(commits, last)' = D!Named(commits, last)
      BY <1>4 DEF D!Named, D!Range, deleter
    <3> QED
      BY <1>4, <1>15, <1>17, <3>1 DEF World, deleter
  <2> QED
    BY <2>1, <2>2
<1>19. BufSoundIn(Steps(f), w2)
  <2>1. "segment" \notin Kinds(S)
    BY <1>3, <1>16
  <2>2. buf.store \in Name \cup {None}
    BY <1>16 DEF BufShape
  <2>3. buf.store # None => Store(buf.store) \in dir /\ (Store(buf.store) \in w.ref => Store(buf.store) \in w.base)
    BY <1>16 DEF BufSoundIn
  <2> QED
    BY <1>16, <1>17, <2>1, <2>2, <2>3, BufStill
<1>20. MergeSoundIn(is, w2)
  BY <1>4, <1>16, <1>17 DEF MergeSoundIn
<1>21. InfosSound' /\ BufSound' /\ MergeSound'
  BY <1>4, <1>6, <1>10, <1>15, <1>18, <1>19, <1>20 DEF InfosSound, BufSound, MergeSound
<1>22. UndoSound'
  BY <1>6, <1>10, <1>12 DEF UndoSound, Undoing, Undoes
<1>23. RollbackSound'
  <2>1. Backable(autoCommit, status, f) => Backable(autoCommit, status, op.todo)
    BY <1>1 DEF Backable
  <2>2. RollbackShape(rollback, infos, status, counter, commits) =>
          RollbackShape(rollback, is, status, counter, commits)
    <3>1. status = "opening" => FilesIn(infos) = {}
      BY <1>3 DEF FilesIn
    <3> QED
      BY <3>1 DEF RollbackShape
  <2>3. UNCHANGED <<rollback, status, counter, commits, autoCommit>>
    BY <1>4 DEF deleter
  <2> QED
    BY <1>4, <1>6, <1>10, <2>1, <2>2, <2>3 DEF FInv, RollbackSound
<1>24. NamesBelow' /\ Clean' /\ OrderOK'
  BY <1>4, <1>6, <1>11, <1>17 DEF FInv, NamesBelow, Clean, OrderOK, deleter
<1>25. ~At("finish")' /\ ~At("ctor")' /\ Head1' \notin {"write", "finish"}
  <2>1. HeadOf(op'.todo) = HeadOf(f)
    BY <1>6, <1>10
  <2> QED
    BY <1>12, <2>1, HeadAt
<1>26. DiskSound' /\ WrittenOK'
  <2>1. DiskSound'
    BY <1>4, <1>25 DEF FInv, DiskSound
  <2>2. WrittenOK'
    BY <1>6, <1>10, <1>12, <1>25 DEF WrittenOK
  <2> QED
    BY <2>1, <2>2
<1>27. LastOK'
  <2>1. \A h \in Gen : (D!Readable(h))' <=> D!Readable(h)
    BY <1>4 DEF D!Readable
  <2>2. lastGen <= gen /\ lastGen \in Nat
    BY <1>3 DEF FInv, LastOK, IInv, RestOK
  <2>3. lastGen <= gen'
    BY <1>5, <2>2
  <2>4. \A h \in Gen : D!Readable(h) \/ SegmentsFile(h) \in D!Referenced => h <= lastGen
    BY <1>3 DEF FInv, LastOK
  <2>5. lastGen' = lastGen
    BY <1>4
  <2> QED
    BY <1>17, <2>1, <2>3, <2>4, <2>5 DEF LastOK
<1> QED
  BY <1>14, <1>21, <1>22, <1>23, <1>24, <1>26, <1>27 DEF FInv

-----------------------------------------------------------------------------
(* The end of an operation.                                                *)

\* A writer that is not there, or not yet or no longer.
LEMMA NoWriter ==
  ASSUME IInv, FInv, DP!IInv, IInv', Up' = FALSE, status' = "closed", op' = Idle,
         infos' = <<>>, counter' = 0, buf' = EmptyBuf, merge' = NoMerge, disk' = disk,
         pinned' = pinned, commits' = {}, last' = <<>>, held' = {}, deletable' = {}
  PROVE  FInv'
PROOF
<1>1. PICK w2 : w2 = World'
  OBVIOUS
<1>2. (D!Referenced)' = {}
  BY DEF D!Referenced, D!Named, D!Range, D!Holders
<1>3. /\ w2.held = {} /\ w2.counter = 0 /\ w2.buf = EmptyBuf /\ w2.merge = NoMerge
      /\ w2.status = "closed" /\ w2.ref = {}
  BY <1>1, <1>2, WorldIs
<1>4. EmptyBuf.store = None /\ EmptyBuf.seg = None /\ EmptyBuf.docs = {} /\ NoMerge.stage = "none"
  BY DEF EmptyBuf, NoMerge
<1>5. op'.todo = <<>> /\ op'.onFail = <<>>
  BY DEF Idle
<1>6. Steps(<<>>) = {} /\ Names(<<>>) = {} /\ Ordered(<<>>) /\ Kinds({}) = {} /\ HeadOf(<<>>) = "idle"
  <2>1. Steps(<<>>) = {} /\ Ordered(<<>>)
    BY ONLY ShortLists
  <2> QED
    BY <2>1 DEF Names, Kinds, HeadOf
<1>7. Sound(<<>>, {}, w2)
  <2>1. FilesIn(<<>>) = {}
    BY DEF FilesIn
  <2>2. ~Alone(NoMerge, {})
    BY <1>4 DEF Alone
  <2>3. FilesSound(<<>>, {}, w2)
    BY <1>3, <1>4, <2>1, <2>2 DEF FilesSound
  <2> QED
    BY <1>3, <1>4, <2>3 DEF Sound
<1>8. BufSoundIn({}, w2)
  BY <1>3, <1>4 DEF BufSoundIn, None
<1>9. MergeSoundIn(<<>>, w2)
  BY <1>3, <1>4 DEF MergeSoundIn, Writing
<1>10. InfosSound' /\ BufSound' /\ MergeSound'
  BY <1>1, <1>5, <1>6, <1>7, <1>8, <1>9 DEF InfosSound, BufSound, MergeSound
<1>11. UndoSound'
  BY <1>5, <1>6 DEF UndoSound, Undoing, Undoes
<1>12. RollbackSound' /\ NamesBelow' /\ Clean' /\ LastOK'
  BY <1>2 DEF FInv, RollbackSound, Backable, NamesBelow, Clean, LastOK
<1>13. ~At("finish")' /\ ~At("ctor")' /\ Head1' = "idle"
  BY <1>5, <1>6, HeadAt DEF Head1
<1>14. DiskSound' /\ WrittenOK'
  BY <1>5, <1>13 DEF FInv, DiskSound, WrittenOK
<1>15. OrderOK'
  <2>1. PICK o2 : o2 = op'
    OBVIOUS
  <2>2. o2.todo = <<>> /\ o2.onFail = <<>>
    BY <1>5, <2>1
  <2>3. OrderShape(o2, status', autoCommit')
    BY <1>6, <2>2 DEF OrderShape
  <2> QED
    BY <2>1, <2>3 DEF OrderOK
<1> QED
  BY <1>10, <1>11, <1>12, <1>14, <1>15 DEF FInv

\* The operation ends with an exception.
LEMMA ThrowSafe ==
  ASSUME IInv, FInv, DP!IInv, IInv', Throw
  PROVE  [DeleterStep]_(D!vars) /\ FInv'
PROOF
<1>1. op.todo # <<>> /\ HeadOf(op.todo) = "throw"
  BY HeadAt DEF Throw
<1>2. op' = Idle
  BY DEF Throw, GoOn
<1>3. UNCHANGED <<dir, disk, pinned, deleter, autoCommit, rollback, buf, merge>>
  BY DEF Throw, store
<1>4. Unreg = 0 /\ Unreg' = 0
  <2>1. <<"ckpt", TRUE>>[1] = "ckpt"
    OBVIOUS
  <2>2. Head(op.todo)[1] = "throw"
    BY <1>1 DEF HeadOf
  <2> QED
    BY <1>2, <2>1, <2>2 DEF Unreg, Idle
<1>5. status # "closed"
  BY <1>1 DEF IInv, StartOK, StartShape
<1>6. CASE status = "opening"
  <2>1. status' = "closed" /\ infos' = <<>> /\ counter' = 0
    BY <1>6 DEF Throw
  <2>2. Up = FALSE /\ Up' = FALSE
    BY <1>6, <2>1 DEF Up
  <2>3. buf = EmptyBuf /\ merge = NoMerge
    BY <1>6 DEF IInv, StartOK, StartShape
  <2>4. commits = {} /\ held = {} /\ last = <<>> /\ deletable = {}
    BY <2>2, DeleterKnows
  <2>5. FInv'
    BY <1>2, <1>3, <2>1, <2>2, <2>3, <2>4, NoWriter DEF deleter
  <2>6. Up' = Up /\ Unreg' = Unreg /\ UNCHANGED <<dir, disk, deleter>>
    BY <1>3, <1>4, <2>2
  <2>7. [DeleterStep]_(D!vars)
    BY ONLY <2>6, DeleterStutters
  <2> QED
    BY <2>5, <2>7
<1>7. CASE status # "opening"
  <2>1. UNCHANGED <<infos, gen, lastGen, counter>>
    BY <1>7 DEF Throw, si
  <2>2. /\ status' \in {status, "open", "closing"}
        /\ status' # status => status' \in {"open", "closing"}
    BY <1>7 DEF Throw
  <2>3. Up /\ Up' /\ (status' = "aborting" => ~autoCommit)
    BY <1>5, <1>7, <2>2 DEF Up, FInv, RollbackSound
  <2>4. [DeleterStep]_(D!vars)
    <3>1. Up' = Up /\ Unreg' = Unreg /\ UNCHANGED <<dir, disk, deleter>>
      BY <1>3, <1>4, <2>3
    <3> QED
      BY ONLY <3>1, DeleterStutters
  <2>5. PICK S, w, w2 : S = Steps(op.todo) /\ w = World /\ w2 = World'
    OBVIOUS
  <2>6. /\ w.safe = dir /\ w.base = D!Named(commits, last) /\ w.ref = D!Referenced
        /\ w.held = held /\ w.counter = counter /\ w.buf = buf /\ w.merge = merge
        /\ w.status = status /\ Kinds(S) = Names(op.todo)
        /\ Sound(infos, S, w) /\ BufSoundIn(S, w) /\ MergeSoundIn(infos, w)
        /\ BufShape(buf, counter) /\ OpShape(op) /\ counter \in Nat
        /\ OrderShape(op, status, autoCommit)
    BY <2>5, PartsOf
  <2>7. /\ w2.safe = dir /\ w2.base = D!Named(commits, last) /\ w2.ref = D!Referenced
        /\ w2.held = held /\ w2.counter = counter /\ w2.buf = buf /\ w2.merge = merge
        /\ w2.status = status' /\ (D!Referenced)' = D!Referenced
    BY <1>3, <2>1, <2>5, WorldThen
  <2>8. Kinds(S) = {"throw"} /\ <<"merged", "committed">> \notin S
    <3>1. PICK o, st, ac : o = op /\ st = status /\ ac = autoCommit
      OBVIOUS
    <3>2. PICK o2 : o2 = Going(o, Tail(o.todo))
      OBVIOUS
    <3>3. OpShape(o) /\ OrderShape(o, st, ac) /\ o.todo # <<>>
      BY <1>1, <2>6, <3>1
    <3>4. Popping(o, o2, st, ac)
      BY ONLY <3>2, <3>3, OrderGoing
    <3>5. o2.todo = <<>>
      BY <1>1, <3>1, <3>4 DEF Popping
    <3>6. Names(<<>>) = {}
      BY DEF Names
    <3>7. Kinds(S) = {"throw"}
      BY <1>1, <2>6, <3>1, <3>4, <3>5, <3>6 DEF Popping
    <3>8. <<"merged", "committed">>[1] = "merged"
      OBVIOUS
    <3> QED
      BY <3>7, <3>8 DEF Kinds
  <2>9. Steps(<<>>) = {} /\ Names(<<>>) = {} /\ Ordered(<<>>) /\ Kinds({}) = {} /\ HeadOf(<<>>) = "idle"
    <3>1. Steps(<<>>) = {} /\ Ordered(<<>>)
      BY ONLY ShortLists
    <3> QED
      BY <3>1 DEF Names, Kinds, HeadOf
  <2>10. op'.todo = <<>> /\ op'.onFail = <<>>
    BY <1>2 DEF Idle
  <2>11. Sound(infos, {}, w2)
    <3>1. Alone(merge, {}) => Alone(merge, S)
      BY <2>8, <2>9 DEF Alone
    <3>2. FilesSound(infos, S, w)
      BY <2>6 DEF Sound
    <3>3. FilesSound(infos, {}, w2)
      BY <1>5, <1>7, <2>6, <2>7, <2>8, <2>9, <3>1, <3>2 DEF FilesSound
    <3> QED
      BY <2>6, <2>7, <2>8, <2>9, <3>3 DEF Sound
  <2>12. BufSoundIn({}, w2)
    <3>1. "segment" \notin Kinds(S)
      BY <2>8
    <3>2. buf.store \in Name \cup {None}
      BY <2>6 DEF BufShape
    <3>3. buf.store # None => Store(buf.store) \in dir /\ (Store(buf.store) \in w.ref => Store(buf.store) \in w.base)
      BY <2>6 DEF BufSoundIn
    <3> QED
      BY <2>6, <2>7, <3>1, <3>2, <3>3, BufStill
  <2>13. MergeSoundIn(infos, w2)
    BY <2>6, <2>7 DEF MergeSoundIn
  <2>14. InfosSound' /\ BufSound' /\ MergeSound'
    BY <2>1, <2>5, <2>9, <2>10, <2>11, <2>12, <2>13 DEF InfosSound, BufSound, MergeSound
  <2>15. UndoSound'
    BY <2>9, <2>10 DEF UndoSound, Undoing, Undoes
  <2>16. OrderShape(op', status', autoCommit)
    <3>1. PICK o2 : o2 = op'
      OBVIOUS
    <3>2. o2.todo = <<>> /\ o2.onFail = <<>>
      BY <2>10, <3>1
    <3>3. OrderShape(o2, status', autoCommit)
      BY <2>9, <3>2 DEF OrderShape
    <3> QED
      BY <3>1, <3>3
  <2>17. RollbackSound' /\ NamesBelow' /\ DiskSound' /\ LastOK' /\ WrittenOK' /\ OrderOK' /\ Clean'
    <3>1. \A f \in (D!Referenced)' : f \in D!Referenced
      BY <2>7
    <3>2. \A g \in Gen : SegmentsFile(g) \in dir' => SegmentsFile(g) \in dir
      BY <1>3
    <3>3. /\ deletable' = {} /\ commits' = commits /\ counter <= counter'
          /\ status \notin {"closed", "opening"} /\ status' \notin {"closed", "opening"}
      BY <1>3, <2>1, <2>3, <2>6 DEF FInv, Clean, deleter, Up
    <3>4. HeadOf(op'.todo) \notin {"finish", "ctor"}
      BY <2>9, <2>10
    <3> QED
      BY <1>1, <1>3, <2>1, <2>3, <2>10, <2>16, <3>1, <3>2, <3>3, <3>4, RestStill
  <2> QED
    BY <2>4, <2>14, <2>15, <2>17 DEF FInv
<1> QED
  BY <1>6, <1>7

\* A merge is committed, or is over.
LEMMA MergedSafe ==
  ASSUME IInv, FInv, DP!IInv, IInv', Merged
  PROVE  [DeleterStep]_(D!vars) /\ FInv'
PROOF
<1>1. op.todo # <<>> /\ HeadOf(op.todo) = "merged" /\ Advance
  BY HeadAt DEF Merged
<1>2. PICK a, S, t, w, w2 : /\ a = Head(op.todo) /\ S = Steps(op.todo) /\ t = Tail(op.todo)
                            /\ w = World /\ w2 = World'
  OBVIOUS
<1>3. a[1] = "merged" /\ a \in S /\ (a[2] = "committed" => a = <<"merged", "committed">>)
      /\ a[2] \in {"none", "committed"}
  <2>1. a[1] = "merged" /\ a \in S /\ a \in Step
    BY <1>1, <1>2, HeadReady
  <2>2. a \in {"merged"} \X {"none", "committed"}
    BY <2>1 DEF Step
  <2> QED
    BY <2>1, <2>2
<1>4. /\ w.safe = dir /\ w.base = D!Named(commits, last) /\ w.ref = D!Referenced
      /\ w.held = held /\ w.counter = counter /\ w.buf = buf /\ w.merge = merge
      /\ w.status = status /\ Kinds(S) = Names(op.todo)
      /\ Sound(infos, S, w) /\ BufSoundIn(S, w) /\ MergeSoundIn(infos, w)
      /\ BufShape(buf, counter) /\ OpShape(op) /\ counter \in Nat
  BY <1>2, PartsOf
<1>5. UNCHANGED <<dir, disk, pinned, deleter, status, autoCommit, infos, gen, lastGen, counter,
                  rollback, buf>>
  BY DEF Merged, store, si
<1>6. /\ w2.safe = dir /\ w2.base = D!Named(commits, last) /\ w2.ref = D!Referenced
      /\ w2.held = held /\ w2.counter = counter /\ w2.buf = buf /\ w2.merge = merge'
      /\ w2.status = status /\ (D!Referenced)' = D!Referenced
  BY <1>2, <1>5, WorldThen
<1>7. merge.stage \in {"ending", "compound"} /\ Up
  <2>1. "merged" \in Names(op.todo)
    BY <1>3, <1>4 DEF Kinds
  <2>2. merge.stage \in {"ending", "compound"}
    BY <2>1 DEF IInv, OpOK, OpFits
  <2> QED
    BY <2>2, Merging DEF Up
<1>8. \/ merge' = NoMerge
      \/ a[2] = "committed" /\ merge'.stage = "committed" /\ merge'.out = merge.out
  <2>1. merge' = (IF a[2] = "none" THEN NoMerge ELSE [merge EXCEPT !.stage = a[2]])
    BY <1>2 DEF Merged
  <2>2. CASE a[2] = "none"
    BY <2>1, <2>2
  <2>3. CASE a[2] # "none"
    <3>1. a[2] = "committed" /\ merge' = [merge EXCEPT !.stage = "committed"]
      BY <1>3, <2>1, <2>3
    <3>2. [merge EXCEPT !.stage = "committed"].stage = "committed"
          /\ [merge EXCEPT !.stage = "committed"].out = merge.out
      BY Types DEF IInv, MergeOK, MergeShape
    <3> QED
      BY <3>1, <3>2
  <2> QED
    BY <2>2, <2>3
<1>9. PICK o2 : o2 = op'
  OBVIOUS
<1>10. /\ OrderShape(o2, status, autoCommit) /\ o2.todo = t /\ S = {a} \cup Steps(t)
       /\ ~Undoes(o2) /\ (t = <<>> \/ Head(t) # <<"ckpt", TRUE>>)
       /\ OpShape(o2) /\ HeadOf(t) \notin Firsts
  <2>1. Popping(op, op', status, autoCommit)
    BY <1>1, Onward
  <2> QED
    BY <1>1, <1>2, <1>9, <2>1 DEF Popping
<1>11. Names(t) \subseteq {"throw"}
  <2>1. Script(op.todo)
    BY <1>4 DEF OpShape
  <2>2. op.todo[1][1] = "merged"
    BY <1>1, <1>4, HeadName DEF OpShape
  <2> QED
    BY <1>1, <1>2, <2>1, <2>2, Rest
<1>12. /\ \A b \in Steps(t) : b[1] = "throw"
       /\ \A b \in S : b[1] \in {"merged", "throw"}
       /\ Kinds(Steps(t)) = Names(t)
  <2>1. Kinds(Steps(t)) = Names(t)
    BY KindsAre
  <2>2. \A b \in Steps(t) : b[1] = "throw"
    BY <1>11, <2>1 DEF Kinds
  <2> QED
    BY <1>3, <1>10, <2>1, <2>2
<1>13. Kinds(S) \subseteq {"merged", "throw"} /\ Kinds(Steps(t)) \subseteq {"throw"}
  BY <1>12 DEF Kinds
<1>14. held = {}
  BY <1>4, <1>7, <1>13 DEF Sound, Writing
<1>15. NoMerge.stage = "none"
  BY DEF NoMerge
<1>16. /\ merge'.stage \in {"none", "committed"} /\ ~Writing(merge')
       /\ merge'.stage = "committed" =>
            a = <<"merged", "committed">> /\ merge'.out.name = merge.out.name
  BY <1>3, <1>8, <1>15 DEF Writing
<1>17. Sound(infos, Steps(t), w2)
  <2>1. Alone(merge', Steps(t)) => Alone(merge, S) /\ merge'.out.name = merge.out.name
    <3>1. <<"merged", "committed">>[1] = "merged"
      OBVIOUS
    <3>2. <<"merged", "committed">> \notin Steps(t)
      BY <1>12, <3>1
    <3> QED
      BY <1>3, <1>16, <3>2 DEF Alone
  <2>2. FilesSound(infos, S, w)
    BY <1>4 DEF Sound
  <2>3. FilesSound(infos, Steps(t), w2)
    BY <1>4, <1>6, <1>13, <1>16, <2>1, <2>2 DEF FilesSound
  <2>4. \A b \in Steps(t) : Ready(b, Steps(t), infos, w2)
    BY <1>12 DEF Ready
  <2> QED
    BY <1>6, <1>14, <1>16, <2>3, <2>4 DEF Sound
<1>18. BufSoundIn(Steps(t), w2)
  <2>1. "segment" \notin Kinds(S)
    BY <1>13
  <2>2. buf.store \in Name \cup {None}
    BY <1>4 DEF BufShape
  <2>3. buf.store # None => Store(buf.store) \in dir /\ (Store(buf.store) \in w.ref => Store(buf.store) \in w.base)
    BY <1>4 DEF BufSoundIn
  <2> QED
    BY <1>4, <1>6, <2>1, <2>2, <2>3, BufStill
<1>19. MergeSoundIn(infos, w2)
  <2>1. merge.out.name < counter /\ merge.out.name \notin {buf.seg, buf.store}
    BY <1>4, <1>7 DEF MergeSoundIn
  <2> QED
    BY <1>6, <1>14, <1>16, <2>1 DEF MergeSoundIn
<1>20. InfosSound' /\ UndoSound' /\ BufSound' /\ MergeSound'
  BY <1>2, <1>5, <1>9, <1>10, <1>17, <1>18, <1>19 DEF InfosSound, UndoSound, Undoing, BufSound, MergeSound
<1>21. HeadOf(t) \notin {"finish", "ctor"}
  <2>1. HeadOf(t) = "idle" \/ HeadOf(t) \in Names(t)
    BY <1>9, <1>10, HeadName DEF OpShape
  <2> QED
    BY <1>11, <2>1
<1>22. RollbackSound' /\ NamesBelow' /\ DiskSound' /\ LastOK' /\ WrittenOK' /\ OrderOK' /\ Clean'
  <2>1. \A f \in (D!Referenced)' : f \in D!Referenced
    BY <1>6
  <2>2. \A g \in Gen : SegmentsFile(g) \in dir' => SegmentsFile(g) \in dir
    BY <1>5
  <2>3. /\ deletable' = {} /\ commits' = commits /\ counter <= counter'
        /\ status \notin {"closed", "opening"} /\ status' \notin {"closed", "opening"}
        /\ status' = "aborting" => ~autoCommit
    BY <1>4, <1>5, <1>7 DEF FInv, Clean, deleter, Up, RollbackSound
  <2>4. HeadOf(op'.todo) \notin {"finish", "ctor"} /\ (op'.todo = <<>> \/ Head(op'.todo) # <<"ckpt", TRUE>>)
    BY <1>9, <1>10, <1>21
  <2>5. OrderShape(op', status', autoCommit)
    BY <1>5, <1>9, <1>10
  <2> QED
    BY <1>1, <1>5, <2>1, <2>2, <2>3, <2>4, <2>5, RestStill
<1>23. [DeleterStep]_(D!vars)
  <2>1. Unreg = 0 /\ Unreg' = 0
    <3>1. <<"ckpt", TRUE>>[1] = "ckpt"
      OBVIOUS
    <3> QED
      BY <1>2, <1>3, <1>9, <1>10, <3>1 DEF Unreg
  <2>2. Up' = Up /\ Unreg' = Unreg /\ UNCHANGED <<dir, disk, deleter>>
    BY <1>5, <2>1 DEF Up
  <2> QED
    BY ONLY <2>2, DeleterStutters
<1> QED
  BY <1>20, <1>22, <1>23 DEF FInv

-----------------------------------------------------------------------------
(* Opening, closing and crashing.                                          *)

\* close() lets go of everything.
LEMMA CloseDeleterSafe ==
  ASSUME IInv, FInv, DP!IInv, IInv', CloseDeleter
  PROVE  [DeleterStep]_(D!vars) /\ FInv'
PROOF
<1>1. op.todo # <<>> /\ HeadOf(op.todo) = "close"
  BY HeadAt DEF CloseDeleter
<1>2. PICK a, S, w : a = Head(op.todo) /\ S = Steps(op.todo) /\ w = World
  OBVIOUS
<1>3. a[1] = "close" /\ a \in S /\ Ready(a, S, infos, w)
  BY <1>1, <1>2, HeadReady
<1>4. w.held = held /\ w.merge = merge /\ Sound(infos, S, w) /\ Kinds(S) = Names(op.todo)
      /\ OpShape(op) /\ OrderShape(op, status, autoCommit)
  BY <1>2, PartsOf
<1>5. merge.stage = "none"
  BY <1>3, <1>4 DEF Ready
<1>6. S = {a}
  <2>1. PICK o, st, ac : o = op /\ st = status /\ ac = autoCommit
    OBVIOUS
  <2>2. PICK o2 : o2 = Going(o, Tail(o.todo))
    OBVIOUS
  <2>3. OpShape(o) /\ OrderShape(o, st, ac) /\ o.todo # <<>>
    BY <1>1, <1>4, <2>1
  <2>4. Popping(o, o2, st, ac)
    BY ONLY <2>2, <2>3, OrderGoing
  <2>5. o2.todo = <<>> /\ S = {a} \cup Steps(o2.todo)
    BY <1>1, <1>2, <2>1, <2>4 DEF Popping
  <2>6. Steps(<<>>) = {}
    BY ONLY ShortLists
  <2> QED
    BY <2>5, <2>6
<1>7. held = {}
  <2>1. "release" \notin Kinds(S)
    BY <1>3, <1>6 DEF Kinds
  <2> QED
    BY <1>4, <1>5, <2>1 DEF Sound, Writing
<1>8. Up /\ Up' = FALSE
  BY <1>1, Opening, HeadAt DEF Up, CloseDeleter, Forget
<1>9. /\ dir' = dir /\ disk' = disk /\ pinned' = pinned /\ status' = "closed" /\ op' = Idle
      /\ infos' = <<>> /\ counter' = 0 /\ buf' = EmptyBuf /\ merge' = NoMerge /\ held' = {}
      /\ commits' = {} /\ last' = <<>> /\ deletable' = {} /\ refCounts' = << >>
  BY DEF CloseDeleter, Forget, D!ForgetEffect, FInv, Clean
<1>10. FInv'
  BY <1>8, <1>9, NoWriter
<1>11. Unreg = 0 /\ Unreg' = 0
  <2>1. <<"ckpt", TRUE>>[1] = "ckpt"
    OBVIOUS
  <2> QED
    BY <1>2, <1>3, <1>9, <2>1 DEF Unreg, Idle
<1>12. Stored' = Stored
  BY <1>9 DEF Stored, FilesOn
<1>13. D!Close(Busy)
  <2>1. dir' = dir \ (deletable \ Busy)
    BY DEF CloseDeleter
  <2> QED
    BY <1>7, <1>8, <1>9, <1>11, <1>12, <2>1 DEF D!Close, D!ForgetEffect, Stored, Up, Unreg
<1> QED
  BY <1>10, <1>13 DEF DeleterStep

\* The process dies.
LEMMA CrashSafe ==
  ASSUME IInv, FInv, DP!IInv, IInv', Crash
  PROVE  [DeleterStep]_(D!vars) /\ FInv'
PROOF
<1>1. /\ disk' = disk /\ pinned' = pinned /\ status' = "closed" /\ op' = Idle
      /\ infos' = <<>> /\ counter' = 0 /\ buf' = EmptyBuf /\ merge' = NoMerge /\ held' = {}
      /\ commits' = {} /\ last' = <<>> /\ deletable' = {} /\ refCounts' = << >>
  BY DEF Crash, Forget, D!ForgetEffect
<1>2. Up' = FALSE /\ Unreg' = 0 /\ Stored' = Stored
  BY <1>1 DEF Up, Unreg, Idle, Stored, FilesOn
<1>3. FInv'
  BY <1>1, <1>2, NoWriter
<1>4. CASE dir' = dir
  <2>1. D!Crash
    BY <1>1, <1>2, <1>4 DEF D!Crash, D!ForgetEffect, Stored, Up, Unreg
  <2> QED
    BY <1>3, <2>1 DEF DeleterStep
<1>5. CASE dir' # dir
  <2>1. At("ckpt") /\ Head(op.todo)[2] /\ dir' = dir \ {SegmentsFile(c.id) : c \in commits}
    BY <1>5 DEF Crash
  <2>2. PICK a : a = Head(op.todo)
    OBVIOUS
  <2>3. op.todo # <<>> /\ a[1] = "ckpt" /\ a \in Step /\ HeadOf(op.todo) = "ckpt"
    BY <2>1, <2>2, HeadAt, HeadReady
  <2>4. a = <<"ckpt", TRUE>>
    <3>1. a \in {"ckpt"} \X BOOLEAN
      BY <2>3 DEF Step
    <3>2. a = <<"ckpt", a[2]>> /\ a[2] \in BOOLEAN
      BY <3>1
    <3>3. a[2] = TRUE
      BY <2>1, <2>2, <3>2
    <3> QED
      BY <3>2, <3>3
  <2>5. Unreg = gen /\ gen \in Gen /\ gen # 0 /\ Up /\ D!Newest(gen) /\ SegmentsFile(gen) \notin D!Referenced
    <3>1. Unreg = gen
      BY <2>2, <2>3, <2>4 DEF Unreg
    <3>2. gen \in DOMAIN disk
      BY <2>2, <2>3, <2>4 DEF FInv, WrittenOK
    <3>3. gen \in Gen /\ gen # 0
      BY <3>2, Generations DEF IInv, DiskOK
    <3> QED
      BY <3>1, <3>3, DeleterKnows
  <2>6. PICK done : done = dir \ dir'
    OBVIOUS
  <2>7. done \subseteq {SegmentsFile(c.id) : c \in commits}
    BY <2>1, <2>6
  <2>8. dir' = dir \ done
    BY <2>1, <2>6
  <2>9. PICK fs : fs = InfosFiles(infos)
    OBVIOUS
  <2>10. fs \in Seq(File) /\ D!Range(fs) = FilesIn(infos) /\ \A f \in FilesIn(infos) : f[1] # "segments"
    BY <2>9, VectorsOfFiles, FilesKinds DEF IInv, InfosOK, Fits
  <2>11. gen \in DOMAIN disk /\ FilesOn(gen) = fs
    BY <2>2, <2>3, <2>4, <2>9 DEF FInv, WrittenOK, FilesOn
  <2>12. PICK point : point = D!CommitPoint(gen)
    OBVIOUS
  <2>13. D!Range(point.files) = {SegmentsFile(gen)} \cup FilesIn(infos)
    <3>1. point.files = <<SegmentsFile(gen)>> \o fs
      BY <2>11, <2>12 DEF D!CommitPoint
    <3>2. DP!Range(<<SegmentsFile(gen)>> \o fs) = {SegmentsFile(gen)} \cup DP!Range(fs)
      BY <2>5, <2>10, DP!CommitPointFiles, Generations DEF DP!Vector
    <3> QED
      BY <2>10, <3>1, <3>2, SameNames
  <2>14. \A h \in held : \A f \in D!Range(h.files) : f[1] # "segments"
    <3>1. SUFFICES ASSUME NEW h \in held PROVE \A f \in D!Range(h.files) : f[1] # "segments"
      OBVIOUS
    <3>2. h.files = InfosFiles(merge.clone)
      BY WorldIs DEF FInv, MergeSound, MergeSoundIn
    <3>3. PICK is : is = merge.clone
      OBVIOUS
    <3>4. is \in Seq(SegmentInfos)
      BY <3>3, Types DEF IInv, MergeOK, MergeShape
    <3>5. ToSet(InfosFiles(is)) = UNION {FileSet(is[i]) : i \in DOMAIN is}
      BY <3>4, FilesOfAll
    <3>6. \A f \in ToSet(InfosFiles(is)) : f[1] # "segments"
      BY <3>5, FileSetKinds
    <3> QED
      BY <3>2, <3>3, <3>6 DEF D!Range, ToSet
  <2>15. \A c \in commits : /\ SegmentsFile(c.id) \in D!Range(c.files)
                            /\ c.id \in Gen
    <3>1. SUFFICES ASSUME NEW c \in commits
                   PROVE  SegmentsFile(c.id) \in D!Range(c.files) /\ c.id \in Gen
      OBVIOUS
    <3>2. c.id \in DOMAIN Stored /\ c = DP!CommitPoint(c.id) /\ Stored[c.id].files \in Seq(File)
          /\ DOMAIN Stored \subseteq Gen
      BY DEF DP!IInv, DP!TypeOK
    <3>3. PICK g \in Gen, gs \in Seq(File) : g = c.id /\ gs = Stored[c.id].files
      BY <3>2
    <3>4. c.files = <<SegmentsFile(g)>> \o gs
      BY <3>2, <3>3 DEF DP!CommitPoint
    <3>5. DP!Range(<<SegmentsFile(g)>> \o gs) = {SegmentsFile(g)} \cup DP!Range(gs)
      BY DP!CommitPointFiles, Generations DEF DP!Vector
    <3> QED
      BY <3>3, <3>4, <3>5, SameNames
  <2>16. PICK point2, keep, gone : /\ point2 = D!Named({D!CommitPoint(Unreg)} \cup keep, fs)
                                   /\ keep = D!Holders \ commits
                                   /\ gone = D!Named(commits, last)
    OBVIOUS
  <2>17. \A f \in point2 : f[1] = "segments" => f = SegmentsFile(gen)
    <3>1. keep \subseteq held
      BY <2>16 DEF D!Holders
    <3>2. point2 = D!Range(fs) \cup D!Range(point.files) \cup UNION {D!Range(h.files) : h \in keep}
      BY <2>5, <2>12, <2>16 DEF D!Named
    <3> QED
      BY <2>10, <2>13, <2>14, <3>1, <3>2
  <2>18. done \subseteq {f \in gone : f \notin point2}
    <3>1. SUFFICES ASSUME NEW c \in commits PROVE SegmentsFile(c.id) \in gone /\ SegmentsFile(c.id) \notin point2
      BY <2>7
    <3>2. SegmentsFile(c.id) \in gone
      BY <2>15, <2>16 DEF D!Named
    <3>3. SegmentsFile(c.id) \in D!Referenced
      BY <2>16, <3>2, DeleterKnows
    <3>4. SegmentsFile(c.id)[1] = "segments"
      BY Fields
    <3> QED
      BY <2>5, <2>17, <3>2, <3>3, <3>4
  <2>19. Stored[Unreg].files = fs /\ Unreg # 0
    BY <2>5, <2>11 DEF Stored
  <2>20. D!CrashInCheckpoint(dir \ dir')
    BY <1>1, <1>2, <2>5, <2>6, <2>8, <2>16, <2>18, <2>19
       DEF D!CrashInCheckpoint, D!ForgetEffect, Stored, Up, Unreg
  <2> QED
    BY <1>3, <2>20 DEF DeleterStep
<1> QED
  BY <1>4, <1>5

\* A merge takes references to its sources, and a name.
LEMMA MergeBindSafe ==
  ASSUME IInv, FInv, DP!IInv, IInv', MergeBind
  PROVE  [DeleterStep]_(D!vars) /\ FInv'
PROOF
<1>1. op.todo # <<>> /\ HeadOf(op.todo) = "bind" /\ Advance
  BY HeadAt DEF MergeBind
<1>2. PICK S, t, w, w2 : S = Steps(op.todo) /\ t = Tail(op.todo) /\ w = World /\ w2 = World'
  OBVIOUS
<1>3. /\ w.safe = dir /\ w.base = D!Named(commits, last) /\ w.ref = D!Referenced
      /\ w.held = held /\ w.counter = counter /\ w.buf = buf /\ w.merge = merge
      /\ w.status = status /\ Kinds(S) = Names(op.todo)
      /\ Sound(infos, S, w) /\ BufSoundIn(S, w) /\ MergeSoundIn(infos, w)
      /\ BufShape(buf, counter) /\ OpShape(op) /\ ListOK(infos, counter) /\ counter \in Nat
  BY <1>2, PartsOf
<1>4. merge.stage = "init" /\ Up /\ status \notin {"closed", "opening"}
  <2>1. "bind" \in Names(op.todo)
    BY <1>1, Types, HeadName
  <2>2. merge.stage = "init"
    BY <2>1 DEF IInv, OpOK, OpFits
  <2> QED
    BY <2>2, Merging DEF Up
<1>5. PICK o2 : o2 = op'
  OBVIOUS
<1>6. /\ OrderShape(o2, status, autoCommit) /\ o2.todo = t /\ S = {Head(op.todo)} \cup Steps(t)
      /\ ~Undoes(o2) /\ t = <<>> /\ Names(op.todo) = {"bind"}
  <2>1. PICK o, st, ac : o = op /\ st = status /\ ac = autoCommit
    OBVIOUS
  <2>2. Popping(o, o2, st, ac)
    BY <1>1, <1>5, <2>1, Onward
  <2>3. Script(op.todo)
    BY <1>3 DEF OpShape
  <2>4. op.todo[1][1] = "bind"
    BY <1>1, <1>3, HeadName DEF OpShape
  <2>5. Names(t) = {}
    BY <1>1, <1>2, <2>3, <2>4, Rest
  <2>6. t \in Seq(Step)
    BY <1>2, <2>1, <2>2 DEF Popping, OpShape
  <2>7. t = <<>>
    BY <2>5, <2>6, HeadName
  <2> QED
    BY <1>1, <1>2, <2>1, <2>2, <2>5, <2>7 DEF Popping
<1>7. Kinds(S) = {"bind"} /\ Kinds(Steps(t)) = {} /\ Steps(t) = {}
  <2>1. Steps(<<>>) = {}
    BY ONLY ShortLists
  <2> QED
    BY <1>3, <1>6, <2>1 DEF Kinds
<1>8. held = {} /\ ~Writing(merge)
  BY <1>3, <1>4, <1>7 DEF Sound, Writing
<1>9. FilesIn(infos) \subseteq dir /\ FilesIn(infos) \subseteq D!Named(commits, last)
  BY <1>3, <1>4, <1>7 DEF Sound, FilesSound
<1>10. PICK c1, c2 : c1 = Current(merge.clone[1].name) /\ c2 = Current(merge.clone[2].name)
  OBVIOUS
<1>11. /\ c1 \in DOMAIN infos /\ c2 \in DOMAIN infos /\ infos[c1].name = merge.clone[1].name
       /\ \A i \in DOMAIN infos : infos[i] \in SegmentInfos
  BY <1>4, <1>10, Sources
<1>12. PICK src : src = [k \in 1..2 |-> infos[Current(merge.clone[k].name)]]
  OBVIOUS
<1>13. src \in Seq(SegmentInfos) /\ DOMAIN src = 1..2 /\ src[1] = infos[c1] /\ src[2] = infos[c2]
  <2>1. src[1] = infos[c1] /\ src[2] = infos[c2] /\ DOMAIN src = 1..2
    BY <1>10, <1>12
  <2>2. \A k \in 1..2 : src[k] \in SegmentInfos
    BY <2>1, <1>11
  <2>3. src \in [1..2 -> SegmentInfos]
    BY <2>1, <2>2, <1>12
  <2>4. PICK n \in Nat : n = 2
    OBVIOUS
  <2>5. src \in [1..n -> SegmentInfos]
    BY <2>3, <2>4
  <2>6. src \in Seq(SegmentInfos)
    BY <2>5
  <2> QED
    BY <2>1, <2>6
<1>14. PICK fs : fs = InfosFiles(src)
  OBVIOUS
<1>15. D!Range(fs) \subseteq FilesIn(infos)
  <2>1. ToSet(fs) = UNION {FileSet(src[i]) : i \in DOMAIN src}
    BY <1>13, <1>14, FilesOfAll
  <2>2. \A i \in DOMAIN infos : FileSet(infos[i]) \subseteq FilesIn(infos)
    BY <1>3, FilesKinds
  <2>3. \A i \in DOMAIN src : FileSet(src[i]) \subseteq FilesIn(infos)
    <3>1. SUFFICES ASSUME NEW i \in 1..2 PROVE FileSet(src[i]) \subseteq FilesIn(infos)
      BY <1>13
    <3>2. i = 1 \/ i = 2
      OBVIOUS
    <3> QED
      BY <1>11, <1>13, <2>2, <3>2
  <2> QED
    BY <2>1, <2>3 DEF D!Range, ToSet
<1>16. PICK h : h = [kind |-> "held", id |-> "merge", files |-> fs]
  OBVIOUS
<1>17. PICK m2 : m2 = merge'
  OBVIOUS
<1>18. /\ m2.stage = "running" /\ m2.clone = src /\ m2.stores = merge.stores
       /\ m2.out.name = counter /\ m2.out.delGen = 0 /\ m2.out.cfs = FALSE
       /\ m2.out.store = (IF merge.stores THEN None ELSE src[1].store)
       /\ m2.out.storeCfs = (~merge.stores /\ src[1].storeCfs)
  <2>1. PICK out : out = [name |-> counter, docs |-> {}, dels |-> {}, delGen |-> 0, cfs |-> FALSE,
                          store |-> IF merge.stores THEN None ELSE src[1].store,
                          storeCfs |-> ~merge.stores /\ src[1].storeCfs]
    OBVIOUS
  <2>2. m2 = [merge EXCEPT !.stage = "running", !.clone = src, !.out = out]
    BY <1>12, <1>17, <2>1 DEF MergeBind, NewSegmentName
  <2>3. merge \in [stage : Stages, clone : Seq(SegmentInfos), out : {None},
                   stores : BOOLEAN, aborted : BOOLEAN]
    BY <1>4 DEF IInv, MergeOK, MergeShape
  <2>4. m2.stage = "running" /\ m2.clone = src /\ m2.stores = merge.stores /\ m2.out = out
    BY <2>2, <2>3
  <2>5. /\ out.name = counter /\ out.delGen = 0 /\ out.cfs = FALSE
        /\ out.store = (IF merge.stores THEN None ELSE src[1].store)
        /\ out.storeCfs = (~merge.stores /\ src[1].storeCfs)
    BY <2>1
  <2> QED
    BY <2>4, <2>5
<1>19. /\ UNCHANGED <<dir, disk, pinned, commits, last, deletable, status, autoCommit, infos, gen,
                      lastGen, rollback, buf>>
       /\ counter' = counter + 1 /\ held' = {h} /\ D!IncRefEffect(h)
  BY <1>8, <1>12, <1>14, <1>16 DEF MergeBind, store
<1>20. (D!Referenced)' = D!Referenced
  <2>1. D!Referenced = D!Named(commits, last)
    <3>1. UNION {D!Range(g.files) : g \in held} = {}
      BY <1>8
    <3> QED
      BY <3>1, DeleterKnows
  <2>2. (D!Referenced)' = D!Named(commits, last) \cup UNION {D!Range(g.files) : g \in {h}}
    BY <1>19, ReferencedIs, NamedParts
  <2>3. h.files = fs
    BY <1>16
  <2> QED
    BY <1>9, <1>15, <2>1, <2>2, <2>3
<1>21. /\ w2.safe = dir /\ w2.base = D!Named(commits, last) /\ w2.ref = D!Referenced
       /\ w2.held = {h} /\ w2.counter = counter + 1 /\ w2.buf = buf /\ w2.merge = m2
       /\ w2.status = status
  BY <1>2, <1>17, <1>19, <1>20, WorldIs
<1>22. /\ \A i \in DOMAIN infos : infos[i].store < counter /\ infos[i].store \in Int
       /\ buf.store < counter /\ buf.seg < counter /\ buf.store \in Int /\ buf.seg \in Int
       /\ None \in Int /\ None < counter
       /\ \A f \in D!Referenced : f[1] = "segments" \/ (f[2] < counter)
  <2>1. \A i \in DOMAIN infos : infos[i].store < counter
    BY <1>3 DEF Sound, FilesSound
  <2>2. \A i \in DOMAIN infos : infos[i].store \in Int
    BY <1>3, ListTypes
  <2>3. buf.store < counter
    BY <1>3 DEF BufSoundIn
  <2>4. buf.seg < counter /\ buf.store \in Name \cup {None} /\ buf.seg \in Name \cup {None}
    BY <1>3 DEF BufShape
  <2>5. \A f \in D!Referenced : f[1] = "segments" \/ f[2] < counter
    BY DEF FInv, NamesBelow
  <2>6. None \in Int /\ None < counter
    BY <1>3 DEF None
  <2>7. buf.store \in Int /\ buf.seg \in Int
    BY <2>4 DEF Name, None
  <2> QED
    BY <2>1, <2>2, <2>3, <2>4, <2>5, <2>6, <2>7
<1>23. Sound(infos, Steps(t), w2)
  <2>1. ~Alone(m2, Steps(t))
    BY <1>7, <1>18 DEF Alone
  <2>2. \A i \in DOMAIN infos : infos[i].store < counter + 1 /\ infos[i].store # counter
    BY <1>3, <1>22
  <2>3. buf.store # None => Cfx(buf.store) \notin FilesIn(infos)
    BY <1>3 DEF Sound, FilesSound
  <2>4. FilesSound(infos, Steps(t), w2)
    BY <1>9, <1>18, <1>21, <2>1, <2>2, <2>3 DEF FilesSound
  <2>5. Writing(m2) /\ m2.stage # "compound"
    BY <1>18 DEF Writing
  <2> QED
    BY <1>7, <1>21, <2>4, <2>5 DEF Sound
<1>24. BufSoundIn(Steps(t), w2)
  <2>1. "segment" \notin Kinds(S)
    BY <1>7
  <2>2. buf.store < counter + 1
    BY <1>3, <1>22
  <2> QED
    BY <1>3, <1>7, <1>21, <2>1, <2>2 DEF BufSoundIn
<1>25. MergeSoundIn(infos, w2)
  <2>1. m2.out.name < counter + 1 /\ m2.out.name \notin {buf.seg, buf.store}
    BY <1>3, <1>18, <1>22
  <2>2. OutStore(m2) /\ m2.out.store < counter + 1
    <3>1. CASE merge.stores
      BY <1>3, <1>18, <1>22, <3>1 DEF OutStore
    <3>2. CASE ~merge.stores
      <4>1. infos[c1].store # None
        BY <1>3, <1>4, <1>11, <3>2 DEF MergeSoundIn
      <4>2. m2.out.store = infos[c1].store /\ m2.out.storeCfs = src[1].storeCfs
        BY <1>11, <1>13, <1>18, <3>2 DEF SegmentInfos
      <4>3. infos[c1].store < counter + 1
        BY <1>3, <1>11, <1>22
      <4> QED
        BY <1>13, <1>18, <3>2, <4>1, <4>2, <4>3 DEF OutStore
    <3> QED
      BY <3>1, <3>2
  <2>3. \A f \in D!Referenced : f[1] = "segments" \/ f[2] # counter
    BY <1>3, <1>22
  <2>4. \A g \in {h} : g = [kind |-> "held", id |-> "merge", files |-> InfosFiles(m2.clone)]
    BY <1>14, <1>16, <1>18
  <2> QED
    BY <1>18, <1>21, <2>1, <2>2, <2>3, <2>4 DEF MergeSoundIn, Writing
<1>26. InfosSound' /\ UndoSound' /\ BufSound' /\ MergeSound'
  BY <1>2, <1>5, <1>6, <1>19, <1>23, <1>24, <1>25 DEF InfosSound, UndoSound, Undoing, BufSound, MergeSound
<1>27. HeadOf(op'.todo) = "idle" /\ op'.todo = <<>>
  BY <1>5, <1>6 DEF HeadOf
<1>28. RollbackSound' /\ NamesBelow' /\ DiskSound' /\ LastOK' /\ WrittenOK' /\ OrderOK' /\ Clean'
  <2>1. \A f \in (D!Referenced)' : f \in D!Referenced
    BY <1>20
  <2>2. \A g \in Gen : SegmentsFile(g) \in dir' => SegmentsFile(g) \in dir
    BY <1>19
  <2>3. counter <= counter'
    BY <1>3, <1>19
  <2>4. /\ deletable' = {} /\ commits' = commits
        /\ status' \notin {"closed", "opening"}
        /\ status' = "aborting" => ~autoCommit
    BY <1>4, <1>19 DEF FInv, Clean, RollbackSound
  <2>5. OrderShape(op', status', autoCommit)
    BY <1>5, <1>6, <1>19
  <2> QED
    BY <1>1, <1>4, <1>19, <1>27, <2>1, <2>2, <2>3, <2>4, <2>5, RestStill
<1>29. [DeleterStep]_(D!vars)
  <2>1. Stored' = Stored /\ Up' = Up /\ Unreg = 0 /\ Unreg' = 0
    BY <1>1, <1>19, DeleterSame
  <2>2. D!Range(fs) \subseteq D!Usable
    BY <1>9, <1>15, DeleterKnows DEF D!Usable
  <2>3. D!Hold("merge", fs)
    BY <1>4, <1>8, <1>16, <1>19, <2>1, <2>2 DEF D!Hold, Stored, Up, Unreg
  <2>4. fs = InfosFiles(merge'.clone)
    BY <1>14, <1>17, <1>18
  <2>5. D!Hold("merge", InfosFiles(merge'.clone))
    BY <2>3, <2>4 DEF D!Hold
  <2> QED
    BY <2>5 DEF DeleterStep
<1> QED
  BY <1>26, <1>28, <1>29 DEF FInv

\* flushDocStores: the open doc stores are closed and, packed in a compound
\* file, are the segments' that share them.
LEMMA FlushDocStoresSafe ==
  ASSUME IInv, FInv, DP!IInv, IInv', FlushDocStores
  PROVE  [DeleterStep]_(D!vars) /\ FInv'
PROOF
<1>1. op.todo # <<>> /\ HeadOf(op.todo) = "stores" /\ Advance
  BY HeadAt DEF FlushDocStores
<1>2. PICK a, S, t, w, w2 : /\ a = Head(op.todo) /\ S = Steps(op.todo) /\ t = Tail(op.todo)
                            /\ w = World /\ w2 = World'
  OBVIOUS
<1>3. PICK x, js : x = buf.store /\ js = infos'
  OBVIOUS
<1>4. /\ w.safe = dir /\ w.base = D!Named(commits, last) /\ w.ref = D!Referenced
      /\ w.held = held /\ w.counter = counter /\ w.buf = buf /\ w.merge = merge
      /\ w.status = status /\ Kinds(S) = Names(op.todo)
      /\ Sound(infos, S, w) /\ BufSoundIn(S, w) /\ MergeSoundIn(infos, w)
      /\ BufShape(buf, counter) /\ MergeShape(merge, counter, buf.seg)
      /\ OpShape(op) /\ ListOK(infos, counter) /\ counter \in Nat
  BY <1>2, PartsOf
<1>5. a[1] = "stores" /\ a \in S /\ Ready(a, S, infos, w)
  BY <1>1, <1>2, HeadReady
<1>6. "segment" \in Kinds(S) /\ ("ckpt" \in Kinds(S) <=> UseCompound)
  BY <1>5 DEF Ready
<1>7. Up /\ status \notin {"closed", "opening"}
  BY <1>1, Opening, HeadAt DEF Up
<1>8. x \in Name /\ x # None
  BY <1>1, <1>3 DEF IInv, OpOK, OpFits, BufOK, BufShape, Name, None
<1>9. PICK o2 : o2 = op'
  OBVIOUS
<1>10. /\ OrderShape(o2, status, autoCommit) /\ o2.todo = t /\ S = {a} \cup Steps(t)
       /\ ~Undoes(o2) /\ HeadOf(t) \notin Firsts /\ OpShape(o2)
       /\ (t = <<>> \/ Head(t) # <<"ckpt", TRUE>>) /\ Names(t) \cap Firsts = {}
       /\ \A b \in Steps(t) : Before(a, b)
  <2>1. PICK o, st, ac : o = op /\ st = status /\ ac = autoCommit
    OBVIOUS
  <2>2. Popping(o, o2, st, ac)
    BY <1>1, <1>9, <2>1, Onward
  <2> QED
    BY <1>1, <1>2, <2>1, <2>2 DEF Popping
<1>11. Kinds(S) = {"stores"} \cup Kinds(Steps(t)) /\ "stores" \notin Kinds(Steps(t))
  <2>1. Kinds(Steps(t)) = Names(t)
    BY KindsAre
  <2> QED
    BY <1>5, <1>10, <2>1 DEF Kinds, Firsts
<1>12. /\ UNCHANGED <<disk, pinned, deleter, status, autoCommit, gen, lastGen, counter, rollback, merge>>
       /\ buf'.store = None /\ buf'.seg = buf.seg /\ buf'.docs = buf.docs
  <2>1. buf' = [buf EXCEPT !.store = None]
    BY DEF FlushDocStores
  <2> QED
    BY <1>4, <2>1 DEF FlushDocStores, BufShape
<1>13. /\ UseCompound => dir' = dir \cup {Cfx(x)}
       /\ ~UseCompound => dir' = dir /\ js = infos
  BY <1>3 DEF FlushDocStores
<1>14. /\ DOMAIN js = DOMAIN infos
       /\ \A i \in DOMAIN infos :
            /\ js[i].name = infos[i].name /\ js[i].store = infos[i].store
            /\ \/ js[i] = infos[i]
               \/ /\ UseCompound /\ infos[i].store = x /\ js[i].storeCfs
                  /\ js[i].cfs = infos[i].cfs /\ js[i].delGen = infos[i].delGen
  <2>1. CASE UseCompound
    <3>1. js = [i \in DOMAIN infos |-> IF infos[i].store = x
                                       THEN [infos[i] EXCEPT !.storeCfs = TRUE] ELSE infos[i]]
      BY <1>3, <2>1 DEF FlushDocStores
    <3>2. \A i \in DOMAIN infos : infos[i] \in SegmentInfos
      BY Types
    <3> QED
      BY <2>1, <3>1, <3>2 DEF SegmentInfos
  <2>2. CASE ~UseCompound
    BY <1>13, <2>2
  <2> QED
    BY <2>1, <2>2
<1>15. ListOK(js, counter)
  BY <1>3, <1>12 DEF IInv, InfosOK, Fits
<1>16. \A f \in FilesIn(js) : f \in FilesIn(infos) \/ (UseCompound /\ f = Cfx(x))
  <2>1. \A i \in DOMAIN infos : FileSet(infos[i]) \subseteq FilesIn(infos)
    BY <1>4, FilesKinds
  <2>2. \A f \in FilesIn(js) : \E k \in DOMAIN js : f \in FileSet(js[k])
    BY <1>15, FilesKinds
  <2>3. ASSUME NEW i \in DOMAIN infos, NEW f \in FileSet(js[i])
        PROVE  f \in FileSet(infos[i]) \/ (UseCompound /\ f = Cfx(x))
    <3>1. CASE js[i] = infos[i]
      BY <2>3, <3>1
    <3>2. CASE js[i] # infos[i]
      BY <1>8, <1>14, <2>3, <3>2 DEF FileSet
    <3> QED
      BY <3>1, <3>2
  <2> QED
    BY <1>14, <2>1, <2>2, <2>3
<1>17. /\ dir \subseteq dir' /\ (UseCompound => Cfx(x) \in dir') /\ Cfx(x)[1] = "cfx"
       /\ \A f \in dir' : f \in dir \/ f[1] # "segments"
  BY <1>13, Fields
<1>18. /\ w2.safe = dir' /\ w2.base = D!Named(commits, last) /\ w2.ref = D!Referenced
       /\ w2.held = held /\ w2.counter = counter /\ w2.buf = buf' /\ w2.merge = merge
       /\ w2.status = status /\ (D!Referenced)' = D!Referenced
  BY <1>2, <1>12, WorldThen
<1>19. /\ Store(x) \in dir /\ Cfx(x) \notin D!Referenced
       /\ FilesIn(infos) \subseteq dir
  BY <1>3, <1>4, <1>8 DEF BufSoundIn, Sound, FilesSound
<1>20. Alone(merge, Steps(t)) => Alone(merge, S)
  BY <1>10, <1>11 DEF Alone
<1>21. FilesSound(js, Steps(t), w2)
  <2>1. FilesIn(js) \subseteq dir'
    BY <1>16, <1>17, <1>19
  <2>2. "ckpt" \notin Kinds(Steps(t)) => FilesIn(js) \subseteq D!Named(commits, last)
    <3>1. SUFFICES ASSUME "ckpt" \notin Kinds(Steps(t)) PROVE FilesIn(js) \subseteq D!Named(commits, last)
      OBVIOUS
    <3>2. "ckpt" \notin Kinds(S)
      BY <1>11, <3>1
    <3> QED
      BY <1>4, <1>6, <1>7, <1>16, <3>2 DEF Sound, FilesSound
  <2>3. \A i \in DOMAIN js : /\ js[i].store < counter
                             /\ Writing(merge) => js[i].store # merge.out.name
    BY <1>4, <1>14 DEF Sound, FilesSound
  <2>4. Alone(merge, Steps(t)) => Cfs(merge.out.name) \notin D!Referenced \cup FilesIn(js)
    <3>1. Cfs(merge.out.name)[1] = "cfs"
      BY Fields
    <3>2. Cfs(merge.out.name) \in FilesIn(js) => Cfs(merge.out.name) \in FilesIn(infos)
      BY <1>16, <1>17, <3>1
    <3> QED
      BY <1>4, <1>20, <3>2 DEF Sound, FilesSound
  <2> QED
    BY <1>12, <1>18, <2>1, <2>2, <2>3, <2>4 DEF FilesSound
<1>22. \A b \in Steps(t) : Ready(b, Steps(t), js, w2)
  <2>1. SUFFICES ASSUME NEW b \in Steps(t) PROVE Ready(b, Steps(t), js, w2)
    OBVIOUS
  <2>2. b \in S /\ Ready(b, S, infos, w) /\ b[1] # "stores"
    BY <1>4, <1>10, <1>11, <2>1 DEF Sound, Kinds
  <2>3. \A n : Cfs(n) \in FilesIn(js) => Cfs(n) \in FilesIn(infos)
    <3>1. \A n : Cfs(n)[1] = "cfs"
      BY Fields
    <3> QED
      BY <1>16, <1>17, <3>1
  <2>4. b[1] = "segment" => SegmentReady(b, Steps(t), js, w2)
    <3>1. SUFFICES ASSUME b[1] = "segment" PROVE SegmentReady(b, Steps(t), js, w2)
      OBVIOUS
    <3>2. SegmentReady(b, S, infos, w)
      BY <2>2, <3>1 DEF Ready
    <3>3. /\ b[3] = x /\ ~b[2] /\ b[4] = UseCompound /\ x < counter
          /\ Writing(merge) => x # merge.out.name
      BY <1>3, <1>4, <1>11, <3>2 DEF SegmentReady
    <3>4. (IF b[4] THEN Cfx(x) ELSE Store(x)) \in dir'
      BY <1>17, <1>19, <3>3
    <3> QED
      BY <1>6, <1>8, <1>11, <1>12, <1>18, <1>19, <3>3, <3>4 DEF SegmentReady
  <2>5. b[1] = "refresh" => RefreshReady(b[2], Steps(t), w2)
    <3>1. SUFFICES ASSUME b[1] = "refresh" PROVE RefreshReady(b[2], Steps(t), w2)
      OBVIOUS
    <3>2. RefreshReady(b[2], S, w)
      BY <2>2, <3>1 DEF Ready
    <3> QED
      BY <1>3, <1>4, <1>8, <1>12, <1>18, <1>20, <3>2 DEF RefreshReady
  <2>6. b[1] = "new" => \E n \in Name : /\ b[2] = {Store(n)} /\ n < counter /\ n # None
                                        /\ Writing(merge) => n # merge.out.name
    <3>1. \A n \in Name : n # None
      BY DEF Name, None
    <3> QED
      BY <1>4, <2>2, <3>1 DEF Ready
  <2>7. b[1] = "delete" => DropReady(b[2], Steps(t), js, w2)
    <3>1. SUFFICES ASSUME b[1] = "delete" PROVE DropReady(b[2], Steps(t), js, w2)
      OBVIOUS
    <3>2. DropReady(b[2], S, infos, w)
      BY <2>2, <3>1 DEF Ready
    <3>3. PICK fs : fs = b[2]
      OBVIOUS
    <3>4. CASE \E n \in Name : /\ fs = {Cfs(n)} /\ Cfs(n) \notin D!Referenced \cup FilesIn(infos)
                               /\ Alone(merge, S) => n # merge.out.name
      BY <1>18, <1>20, <2>3, <3>3, <3>4 DEF DropReady
    <3>5. CASE (\A f \in fs : f[1] = "del") /\ fs \cap (D!Referenced \cup FilesIn(infos)) = {}
      <4>1. fs \cap (D!Referenced \cup FilesIn(js)) = {}
        BY <1>16, <1>17, <3>5
      <4> QED
        BY <1>18, <3>3, <3>5, <4>1 DEF DropReady
    <3> QED
      BY <1>4, <3>2, <3>3, <3>4, <3>5 DEF DropReady
  <2>8. b[1] = "cfs" => /\ Cfs(b[2]) \notin D!Referenced \cup FilesIn(js)
                        /\ Alone(merge, Steps(t)) => b[2] # merge.out.name
    BY <1>4, <1>20, <2>2, <2>3 DEF Ready
  <2>9. (b[1] = "release" => merge.stage = "ending") /\ (b[1] = "close" => merge.stage = "none")
    BY <1>4, <2>2 DEF Ready
  <2> QED
    BY <1>12, <1>18, <2>2, <2>4, <2>5, <2>6, <2>7, <2>8, <2>9 DEF Ready
<1>23. Sound(js, Steps(t), w2)
  <2>1. merge.stage = "compound" /\ "merged" \notin Kinds(Steps(t)) => Cfs(merge.out.name) \in dir'
    BY <1>4, <1>11, <1>17 DEF Sound
  <2>2. held # {} => Writing(merge) \/ "release" \in Kinds(Steps(t))
    BY <1>4, <1>11 DEF Sound
  <2> QED
    BY <1>18, <1>21, <1>22, <2>1, <2>2 DEF Sound
<1>24. BufSoundIn(Steps(t), w2)
  <2>1. "segment" \in Kinds(Steps(t))
    BY <1>6, <1>11
  <2>2. None < counter
    BY <1>4 DEF None
  <2> QED
    BY <1>4, <1>12, <1>18, <2>1, <2>2 DEF BufSoundIn
<1>25. MergeSoundIn(js, w2)
  <2>1. merge.stage = "init" /\ ~merge.stores =>
          \A i \in DOMAIN js : js[i].name = merge.clone[1].name => js[i].store # None
    BY <1>4, <1>14 DEF MergeSoundIn
  <2>2. merge.stage = "built" => /\ Core(merge.out.name) \in dir'
                                 /\ merge.stores => Store(merge.out.name) \in dir'
    BY <1>4, <1>17 DEF MergeSoundIn
  <2>3. counter <= counter
    BY <1>4
  <2> QED
    BY <1>4, <1>12, <1>18, <2>1, <2>2, <2>3, MergeSoundStill
<1>26. InfosSound' /\ UndoSound' /\ BufSound' /\ MergeSound'
  BY <1>2, <1>3, <1>9, <1>10, <1>23, <1>24, <1>25 DEF InfosSound, UndoSound, Undoing, BufSound, MergeSound
<1>27. /\ [DeleterStep]_(D!vars)
       /\ RollbackSound' /\ NamesBelow' /\ DiskSound' /\ LastOK' /\ WrittenOK' /\ OrderOK' /\ Clean'
  <2>1. HeadOf(t) \notin {"finish", "ctor"}
    <3>1. HeadOf(t) = "idle" \/ HeadOf(t) \in Names(t)
      BY <1>9, <1>10, HeadName DEF OpShape
    <3>2. "ctor" \notin Names(t)
      BY <1>7, <1>10 DEF OrderShape
    <3> QED
      BY <1>10, <3>1, <3>2 DEF Firsts
  <2>2. HeadOf(op'.todo) \notin {"finish", "ctor"} /\ (op'.todo = <<>> \/ Head(op'.todo) # <<"ckpt", TRUE>>)
        /\ OrderShape(op', status', autoCommit)
    BY <1>9, <1>10, <1>12, <2>1
  <2> QED
    BY <1>1, <1>7, <1>12, <1>17, <2>2, CommitRest
<1> QED
  BY <1>26, <1>27 DEF FInv

-----------------------------------------------------------------------------
(* Deletions files.  With autoCommit a failed commit takes the segments    *)
(* back to those before it, and later deletes come to the same names.      *)

\* For no segment of the list is there a deletions file in F that is newer
\* than the segment's own.
DelsFit(is, F) ==
    \A i \in DOMAIN is, g \in Nat : g > is[i].delGen => Del(is[i].name, g) \notin F

\* The commits, and the last checkpoint, know no deletions file that the
\* writer would still write: not for a segment it has or would go back to,
\* nor for the one that is being buffered.
DelsKnown ==
    autoCommit /\ Up =>
        /\ DelsFit(infos, D!Named(commits, last))
        /\ Undoing => DelsFit(op.undo, D!Named(commits, last))
        /\ buf.seg # None => \A g \in Nat : Del(buf.seg, g) \notin D!Named(commits, last)

\* A deletions file of a list is that of one of its segments.
LEMMA OwnDels ==
  ASSUME NEW is, NEW n, ListOK(is, n), NEW m, NEW g, Del(m, g) \in FilesIn(is)
  PROVE  \E k \in DOMAIN is : is[k].name = m /\ is[k].delGen = g
PROOF
<1>1. PICK k \in DOMAIN is : Del(m, g) \in FileSet(is[k])
  BY FilesKinds
<1>2. PICK s, f : s = is[k] /\ f = Del(m, g)
  OBVIOUS
<1>3. f[1] = "del" /\ f[2] = m /\ f[3] = g
  BY <1>2 DEF Del
<1>4. f = Del(s.name, s.delGen)
  <2>1. \A x : /\ Cfs(x)[1] # "del" /\ Core(x)[1] # "del"
               /\ Cfx(x)[1] # "del" /\ Store(x)[1] # "del"
    BY Fields
  <2> QED
    BY <1>1, <1>2, <1>3, <2>1 DEF FileSet
<1> QED
  BY <1>2, <1>3, <1>4 DEF Del

\* A list's own files fit it.
LEMMA OwnFit ==
  ASSUME NEW is, NEW n, ListOK(is, n)
  PROVE  DelsFit(is, FilesIn(is))
PROOF
<1>1. SUFFICES ASSUME NEW i \in DOMAIN is, NEW g \in Nat, g > is[i].delGen,
                      Del(is[i].name, g) \in FilesIn(is)
               PROVE  FALSE
  BY DEF DelsFit
<1>2. PICK k \in DOMAIN is : is[k].name = is[i].name /\ is[k].delGen = g
  BY <1>1, OwnDels
<1>3. k = i
  BY <1>2 DEF ListOK
<1>4. is[i].delGen \in Nat
  BY ListTypes DEF SegmentInfos
<1> QED
  BY <1>1, <1>2, <1>3, <1>4

\* What applying deletes does to the deletions files: a segment that changes
\* has the next one.
LEMMA NextDels ==
  ASSUME NEW s \in SegmentInfos, NEW ds, NEW r, r = ApplyDeletes(s, ds)
  PROVE  /\ r.name = s.name /\ s.delGen <= r.delGen
         /\ r # s => r.delGen = s.delGen + 1
PROOF
<1>1. r = s \/ r = [s EXCEPT !.dels = s.dels \cup (ds \cap s.docs), !.delGen = s.delGen + 1]
  BY DEF ApplyDeletes
<1>2. s.delGen \in Nat
  BY DEF SegmentInfos
<1>3. CASE r = s
  BY <1>2, <1>3
<1>4. CASE r = [s EXCEPT !.dels = s.dels \cup (ds \cap s.docs), !.delGen = s.delGen + 1]
  BY <1>2, <1>4 DEF SegmentInfos
<1> QED
  BY <1>1, <1>3, <1>4

\* The deletions files that a flush writes to older segments are new, and
\* there are none when no deletes are buffered.
LEMMA NewDelsApart ==
  ASSUME NEW n, ListOK(infos, n), NEW new, NEW all, all = infos \/ all = Append(infos, new),
         NEW ds, NEW js, js = AppliedTo(all, ds), ListOK(js, n),
         NEW F, DelsFit(infos, F)
  PROVE  /\ NewDels(infos, js) \subseteq File
         /\ \A f \in NewDels(infos, js) : f[1] = "del"
         /\ NewDels(infos, js) \cap (F \cup FilesIn(infos)) = {}
         /\ ds = {} => NewDels(infos, js) = {}
PROOF
<1>1. /\ infos \in Seq(SegmentInfos)
      /\ \A i \in DOMAIN infos : i \in DOMAIN all /\ all[i] = infos[i]
  <2>1. infos \in Seq(SegmentInfos)
    BY DEF ListOK
  <2> QED
    BY <2>1
<1>2. \A i \in DOMAIN infos :
        /\ i \in DOMAIN js /\ js[i].name = infos[i].name
        /\ js[i] = ApplyDeletes(infos[i], ds)
        /\ js[i] # infos[i] => js[i].delGen = infos[i].delGen + 1
  <2>1. SUFFICES ASSUME NEW i \in DOMAIN infos
        PROVE  /\ i \in DOMAIN js /\ js[i].name = infos[i].name
               /\ js[i] = ApplyDeletes(infos[i], ds)
               /\ js[i] # infos[i] => js[i].delGen = infos[i].delGen + 1
    OBVIOUS
  <2>2. i \in DOMAIN js /\ js[i] = ApplyDeletes(infos[i], ds) /\ infos[i] \in SegmentInfos
    BY <1>1 DEF AppliedTo
  <2> QED
    BY <2>2, NextDels
<1>3. SUFFICES ASSUME NEW f \in NewDels(infos, js)
      PROVE  f \in File /\ f[1] = "del" /\ f \notin F \cup FilesIn(infos) /\ ds # {}
  OBVIOUS
<1>4. PICK i \in DOMAIN infos : js[i] # infos[i] /\ f = Del(js[i].name, js[i].delGen)
  BY DEF NewDels
<1>5. PICK m, g : m = infos[i].name /\ g = infos[i].delGen + 1
  OBVIOUS
<1>6. f = Del(m, g) /\ g \in Nat /\ g > infos[i].delGen
  <2>1. infos[i].delGen \in Nat
    BY ListTypes DEF SegmentInfos
  <2> QED
    BY <1>2, <1>4, <1>5, <2>1
<1>7. f \notin F
  BY <1>5, <1>6 DEF DelsFit
<1>8. f \notin FilesIn(infos)
  <2>1. DelsFit(infos, FilesIn(infos))
    BY OwnFit
  <2> QED
    BY <1>5, <1>6, <2>1 DEF DelsFit
<1>9. f \in File
  <2>1. PICK k, s : k = i /\ s = js[k] /\ k \in DOMAIN js
    BY <1>2
  <2>2. s.delGen > 0 /\ f = Del(s.name, s.delGen)
    <3>1. infos[i].delGen \in Nat
      BY ListTypes DEF SegmentInfos
    <3> QED
      BY <1>2, <1>4, <2>1, <3>1
  <2>3. f \in FileSet(s)
    BY <2>2 DEF FileSet
  <2>4. f \in FilesIn(js)
    BY <2>1, <2>3, FilesKinds
  <2> QED
    BY <2>4, FilesAreFiles
<1>10. ds # {}
  BY <1>2, <1>4 DEF ApplyDeletes
<1> QED
  BY <1>6, <1>7, <1>8, <1>9, <1>10, Fields

-----------------------------------------------------------------------------
(* Flushing.                                                               *)

\* Where a flush writes a segment or its compound file, the deleter knows
\* every segment, and all that can follow is that a merge is bound.
LEMMA BindFollows ==
  ASSUME IInv, FInv, DP!IInv, op.todo # <<>>, HeadOf(op.todo) \in {"segment", "cfs"},
         NEW a, a = Head(op.todo), NEW t, t = Tail(op.todo), NEW S, S = Steps(op.todo)
  PROVE  /\ a \in S /\ a \in Step /\ a[1] = HeadOf(op.todo) /\ S = {a} \cup Steps(t)
         /\ t \in Seq(Step) /\ Ordered(t) /\ Names(t) \subseteq {"bind"} /\ Script(t)
         /\ \A b \in Steps(t) : b[1] = "bind"
         /\ Kinds(S) \subseteq {a[1], "bind"} /\ a[1] \in Kinds(S)
         /\ Up /\ status \notin {"closed", "opening"} /\ Unreg = 0
         /\ FilesIn(infos) \subseteq dir /\ FilesIn(infos) \subseteq D!Named(commits, last)
         /\ held # {} => Writing(merge)
         /\ Alone(merge, S) <=> merge.stage \in {"committed", "compound"}
         /\ merge.stage = "compound" => Cfs(merge.out.name) \in dir
PROOF
<1>1. PICK w : w = World
  OBVIOUS
<1>2. /\ w.safe = dir /\ w.base = D!Named(commits, last) /\ w.ref = D!Referenced
      /\ w.held = held /\ w.counter = counter /\ w.buf = buf /\ w.merge = merge
      /\ w.status = status /\ Kinds(S) = Names(op.todo) /\ Sound(infos, S, w) /\ OpShape(op)
      /\ OrderShape(op, status, autoCommit)
  BY <1>1, PartsOf
<1>3. a[1] = HeadOf(op.todo) /\ a \in S /\ a \in Step
  BY HeadReady
<1>4. PICK s : s = op.todo
  OBVIOUS
<1>5. s \in Seq(Step) /\ s # <<>> /\ Script(s) /\ Ordered(s)
  BY <1>2, <1>4 DEF OpShape, OrderShape
<1>6. t \in Seq(Step) /\ S = {a} \cup Steps(t) /\ Ordered(t) /\ \A b \in Steps(t) : Before(a, b)
  BY <1>4, <1>5, StepsRest
<1>7. Script(t)
  BY <1>4, <1>5, Rest
<1>8. \A b \in Steps(t) : b[1] = "bind"
  BY <1>3, <1>6 DEF Before
<1>9. Names(t) \subseteq {"bind"}
  <2>1. Kinds(Steps(t)) = Names(t)
    BY KindsAre
  <2> QED
    BY <1>8, <2>1 DEF Kinds
<1>10. Kinds(S) \subseteq {a[1], "bind"} /\ a[1] \in Kinds(S)
  BY <1>6, <1>8 DEF Kinds
<1>11. Up /\ status \notin {"closed", "opening"}
  BY Opening, HeadAt DEF Up
<1>12. Unreg = 0
  <2>1. <<"ckpt", TRUE>>[1] = "ckpt"
    OBVIOUS
  <2> QED
    BY <2>1 DEF Unreg, HeadOf
<1>13. "ckpt" \notin Kinds(S) /\ "release" \notin Kinds(S) /\ "merged" \notin Kinds(S)
  BY <1>3, <1>10
<1>14. FilesIn(infos) \subseteq dir /\ FilesIn(infos) \subseteq D!Named(commits, last)
       /\ (held # {} => Writing(merge))
       /\ (merge.stage = "compound" => Cfs(merge.out.name) \in dir)
  BY <1>2, <1>11, <1>13 DEF Sound, FilesSound
<1>15. Alone(merge, S) <=> merge.stage \in {"committed", "compound"}
  <2>1. <<"merged", "committed">>[1] = "merged"
    OBVIOUS
  <2>2. <<"merged", "committed">> \notin S
    BY <1>13, <2>1 DEF Kinds
  <2> QED
    BY <1>13, <2>2 DEF Alone
<1> QED
  BY <1>3, <1>6, <1>7, <1>8, <1>9, <1>10, <1>11, <1>12, <1>14, <1>15

\* The compound file of a new segment follows its checkpoint.
LEMMA FlushedSteps ==
  ASSUME NEW e \in Step, e[1] = "cfs", NEW r, NEW t \in Seq(Step), Ordered(t),
         Names(t) \subseteq {"bind"}, r = <<e>> \o t
  PROVE  /\ r \in Seq(Step) /\ Ordered(r) /\ Names(r) \subseteq {"cfs", "bind"}
         /\ \A b \in Steps(r) : b[1] = "bind" \/ b = e
PROOF
<1>1. PICK mk : mk = <<e>>
  OBVIOUS
<1>2. mk \in Seq(Step) /\ r = mk \o t
  BY <1>1
<1>3. Steps(mk) = {e} /\ Ordered(mk)
  <2>1. Steps(<<e>>) = {e} /\ Ordered(<<e>>)
    BY ONLY ShortLists
  <2> QED
    BY <1>1, <2>1
<1>4. \A b \in Steps(t) : b[1] = "bind"
  <2>1. Kinds(Steps(t)) = Names(t)
    BY KindsAre
  <2> QED
    BY <2>1 DEF Kinds
<1>5. \A y \in Steps(mk), z \in Steps(t) : Before(y, z)
  <2>1. \A z : z[1] = "bind" => Before(e, z)
    <3>1. SUFFICES ASSUME NEW z, z[1] = "bind" PROVE Before(e, z)
      OBVIOUS
    <3>2. z # <<"ckpt", TRUE>>
      <4>1. <<"ckpt", TRUE>>[1] = "ckpt"
        OBVIOUS
      <4> QED
        BY <3>1, <4>1
    <3> QED
      BY <3>1, <3>2 DEF Before
  <2> QED
    BY <1>3, <1>4, <2>1
<1>6. r \in Seq(Step)
  BY ONLY <1>2, t \in Seq(Step)
<1>7. Steps(r) = Steps(mk) \cup Steps(t) /\ Ordered(r)
  BY <1>2, <1>3, <1>5, StepsJoin
<1>8. \A b \in Steps(r) : b[1] = "bind" \/ b = e
  BY <1>3, <1>4, <1>7
<1>9. Names(r) \subseteq {"cfs", "bind"}
  <2>1. Kinds(Steps(r)) = Names(r)
    BY KindsAre
  <2> QED
    BY <1>8, <2>1 DEF Kinds
<1> QED
  BY <1>6, <1>7, <1>8, <1>9

\* What is done when a flush fails.
LEMMA UnflushSteps ==
  ASSUME buf.seg \in Name \cup {None}, NEW fs \in SUBSET File, NEW f, f = Unflush(fs)
  PROVE  /\ f \in Seq(Step) /\ Ordered(f) /\ Script(f) /\ f # <<>>
         /\ Names(f) \subseteq {"delete", "partial", "ckpt", "refresh", "throw"}
         /\ <<"ckpt", TRUE>> \notin Steps(f) /\ Head(f) # <<"ckpt", TRUE>>
         /\ \A b \in Steps(f) : \/ b[1] \in {"partial", "ckpt", "throw"}
                                \/ buf.seg # None /\ b = <<"refresh", buf.seg>>
                                \/ fs # {} /\ b = <<"delete", fs>>
         /\ HeadOf(f) \in {"delete", "partial"}
         /\ "ckpt" \in Kinds(Steps(f)) /\ "merged" \notin Kinds(Steps(f))
PROOF
<1>1. PICK de, pa, ck, re, th :
        /\ de = <<"delete", fs>> /\ pa = <<"partial">> /\ ck = <<"ckpt", FALSE>>
        /\ re = <<"refresh", buf.seg>> /\ th = <<"throw", "caller">>
  OBVIOUS
<1>2. /\ de \in Step /\ pa \in Step /\ ck \in Step /\ re \in Step /\ th \in Step
      /\ de[1] = "delete" /\ pa[1] = "partial" /\ ck[1] = "ckpt" /\ re[1] = "refresh"
      /\ th[1] = "throw" /\ ck # <<"ckpt", TRUE>>
  <2>1. ck[2] = FALSE /\ <<"ckpt", TRUE>>[2] = TRUE
    BY <1>1
  <2> QED
    BY <1>1, <2>1 DEF Step
<1>3. PICK d, s, r, t : /\ d = (IF fs = {} THEN <<>> ELSE <<de>>) /\ s = <<pa, ck>>
                        /\ r = (IF buf.seg = None THEN <<>> ELSE <<re>>) /\ t = <<th>>
  OBVIOUS
<1>4. f = ((d \o s) \o r) \o t
  BY <1>1, <1>3 DEF Unflush
<1>5. d \in Seq(Step) /\ s \in Seq(Step) /\ r \in Seq(Step) /\ t \in Seq(Step)
  BY ONLY <1>2, <1>3
<1>6. \A e \in {de, pa, ck, re, th} : e # <<"ckpt", TRUE>>
  <2>1. <<"ckpt", TRUE>>[1] = "ckpt"
    OBVIOUS
  <2> QED
    BY <1>2, <2>1
<1>7. /\ Steps(d) = (IF fs = {} THEN {} ELSE {de}) /\ Ordered(d)
      /\ Steps(s) = {pa, ck} /\ Ordered(s)
      /\ Steps(r) = (IF buf.seg = None THEN {} ELSE {re}) /\ Ordered(r)
      /\ Steps(t) = {th} /\ Ordered(t)
  <2>1. Before(pa, ck)
    BY <1>2, <1>6 DEF Before
  <2>2. /\ Steps(<<>>) = {} /\ Ordered(<<>>) /\ Steps(<<de>>) = {de} /\ Ordered(<<de>>)
        /\ Steps(<<pa, ck>>) = {pa, ck} /\ Ordered(<<pa, ck>>)
        /\ Steps(<<re>>) = {re} /\ Ordered(<<re>>) /\ Steps(<<th>>) = {th} /\ Ordered(<<th>>)
    BY ONLY <2>1, ShortLists
  <2> QED
    BY <1>3, <2>2
<1>8. PICK ds, dsr : ds = d \o s /\ dsr = ds \o r
  OBVIOUS
<1>9. ds \in Seq(Step) /\ dsr \in Seq(Step) /\ f \in Seq(Step) /\ f = dsr \o t
  BY ONLY <1>4, <1>5, <1>8
<1>10. /\ Before(de, pa) /\ Before(de, ck) /\ Before(de, re) /\ Before(pa, re) /\ Before(ck, re)
       /\ Before(de, th) /\ Before(pa, th) /\ Before(ck, th) /\ Before(re, th)
  BY <1>2, <1>6 DEF Before
<1>11. /\ Steps(ds) = Steps(d) \cup Steps(s) /\ Ordered(ds) /\ ds # <<>>
       /\ Head(ds) = (IF fs = {} THEN pa ELSE de)
  <2>1. \A a \in Steps(d), b \in Steps(s) : Before(a, b)
    BY <1>7, <1>10
  <2>2. /\ Steps(d \o s) = Steps(d) \cup Steps(s) /\ Ordered(d \o s)
        /\ d # <<>> => Head(d \o s) = Head(d) /\ d \o s # <<>>
        /\ d = <<>> => d \o s = s
    BY ONLY <1>5, <1>7, <2>1, StepsJoin
  <2>3. Head(<<de>>) = de /\ Head(s) = pa /\ s # <<>> /\ <<de>> # <<>>
    BY <1>3
  <2> QED
    BY <1>3, <1>8, <2>2, <2>3
<1>12. /\ Steps(dsr) = Steps(ds) \cup Steps(r) /\ Ordered(dsr) /\ dsr # <<>>
       /\ Head(dsr) = Head(ds)
  <2>1. \A a \in Steps(ds), b \in Steps(r) : Before(a, b)
    BY <1>7, <1>10, <1>11
  <2>2. /\ Steps(ds \o r) = Steps(ds) \cup Steps(r) /\ Ordered(ds \o r)
        /\ ds # <<>> => Head(ds \o r) = Head(ds) /\ ds \o r # <<>>
    BY ONLY <1>5, <1>7, <1>9, <1>11, <2>1, StepsJoin
  <2> QED
    BY <1>8, <1>11, <2>2
<1>13. /\ Steps(f) = Steps(dsr) \cup Steps(t) /\ Ordered(f) /\ f # <<>>
       /\ Head(f) = Head(dsr)
  <2>1. \A a \in Steps(dsr), b \in Steps(t) : Before(a, b)
    BY <1>7, <1>10, <1>11, <1>12
  <2>2. /\ Steps(dsr \o t) = Steps(dsr) \cup Steps(t) /\ Ordered(dsr \o t)
        /\ dsr # <<>> => Head(dsr \o t) = Head(dsr) /\ dsr \o t # <<>>
    BY ONLY <1>5, <1>7, <1>9, <1>12, <2>1, StepsJoin
  <2> QED
    BY <1>9, <1>12, <2>2
<1>14. Steps(f) = (IF fs = {} THEN {} ELSE {de}) \cup {pa, ck}
                    \cup (IF buf.seg = None THEN {} ELSE {re}) \cup {th}
  BY <1>7, <1>11, <1>12, <1>13
<1>15. Head(f) \in {pa, de}
  BY <1>11, <1>12, <1>13
<1>16. Script(f) /\ Names(f) \subseteq {"delete", "partial", "ckpt", "refresh", "throw"}
  <2>1. f = Unflush(fs)
    OBVIOUS
  <2> QED
    BY <2>1, UnflushScript
<1>17. "ckpt" \in Kinds(Steps(f)) /\ "merged" \notin Kinds(Steps(f))
  <2>1. Kinds(Steps(f)) = Names(f)
    BY KindsAre
  <2>2. "ckpt" \in Kinds(Steps(f))
    BY <1>2, <1>14 DEF Kinds
  <2> QED
    BY <1>16, <2>1, <2>2
<1>18. \A b \in Steps(f) : \/ b[1] \in {"partial", "ckpt", "throw"}
                           \/ buf.seg # None /\ b = <<"refresh", buf.seg>>
                           \/ fs # {} /\ b = <<"delete", fs>>
  BY <1>1, <1>2, <1>14
<1>19. HeadOf(f) \in {"delete", "partial"}
  BY <1>2, <1>13, <1>15 DEF HeadOf
<1> QED
  BY <1>6, <1>9, <1>13, <1>14, <1>15, <1>16, <1>17, <1>18, <1>19

\* Applying the buffered deletes gives segments new deletions files.
LEMMA AppliedFiles ==
  ASSUME NEW all, NEW n, ListOK(all, n), NEW ds, NEW js, js = AppliedTo(all, ds)
  PROVE  /\ DOMAIN js = DOMAIN all
         /\ \A i \in DOMAIN all :
              /\ js[i].name = all[i].name /\ js[i].store = all[i].store /\ js[i].cfs = all[i].cfs
              /\ \A f \in FileSet(js[i]) :
                   f \in FileSet(all[i]) \/ (js[i] # all[i] /\ f = Del(js[i].name, js[i].delGen))
PROOF
<1>1. DOMAIN js = DOMAIN all /\ \A i \in DOMAIN all : js[i] = ApplyDeletes(all[i], ds)
  BY DEF AppliedTo
<1>2. SUFFICES ASSUME NEW i \in DOMAIN all
      PROVE  /\ js[i].name = all[i].name /\ js[i].store = all[i].store /\ js[i].cfs = all[i].cfs
             /\ \A f \in FileSet(js[i]) :
                  f \in FileSet(all[i]) \/ (js[i] # all[i] /\ f = Del(js[i].name, js[i].delGen))
  BY <1>1
<1>3. all[i] \in SegmentInfos
  BY <1>2 DEF ListOK
<1>4. PICK s, r : s = all[i] /\ r = js[i]
  OBVIOUS
<1>5. r = s \/ r = [s EXCEPT !.dels = s.dels \cup (ds \cap s.docs), !.delGen = s.delGen + 1]
  BY <1>1, <1>4 DEF ApplyDeletes
<1>6. r.name = s.name /\ r.store = s.store /\ r.cfs = s.cfs /\ r.storeCfs = s.storeCfs
  BY <1>3, <1>4, <1>5 DEF SegmentInfos
<1>7. \A f \in FileSet(r) : f \in FileSet(s) \/ (r # s /\ f = Del(r.name, r.delGen))
  <2>1. CASE r = s
    BY <2>1
  <2>2. CASE r # s
    BY <1>6, <2>2 DEF FileSet
  <2> QED
    BY <2>1, <2>2
<1> QED
  BY <1>4, <1>6, <1>7

\* The files of the segments after a flush: what was there, the new segment
\* with its doc stores, and the new deletions files.
LEMMA FlushedFiles ==
  ASSUME ListOK(infos, counter),
         NEW new, ~new.cfs, NEW all, all = infos \/ all = Append(infos, new), ListOK(all, counter),
         NEW ds, NEW js, js = AppliedTo(all, ds), ListOK(js, counter)
  PROVE  /\ \A f \in FilesIn(js) :
              \/ f \in FilesIn(infos)
              \/ all # infos /\ f \in FileSet(new)
              \/ \E i \in DOMAIN all : js[i] # all[i] /\ f = Del(js[i].name, js[i].delGen)
         /\ \A i \in DOMAIN js :
              \/ \E k \in DOMAIN infos : js[i].name = infos[k].name /\ js[i].store = infos[k].store
              \/ all # infos /\ js[i].name = new.name /\ js[i].store = new.store
         /\ \A n : Cfs(n) \in FilesIn(js) => Cfs(n) \in FilesIn(infos)
PROOF
<1>1. /\ DOMAIN js = DOMAIN all
      /\ \A i \in DOMAIN all :
           /\ js[i].name = all[i].name /\ js[i].store = all[i].store /\ js[i].cfs = all[i].cfs
           /\ \A f \in FileSet(js[i]) :
                f \in FileSet(all[i]) \/ (js[i] # all[i] /\ f = Del(js[i].name, js[i].delGen))
  BY AppliedFiles
<1>2. infos \in Seq(SegmentInfos)
  BY DEF ListOK
<1>3. \A i \in DOMAIN all : (i \in DOMAIN infos /\ all[i] = infos[i]) \/ (all # infos /\ all[i] = new)
  <2>1. CASE all = infos
    BY <2>1
  <2>2. CASE all = Append(infos, new)
    <3>1. Len(all) = Len(infos) + 1
      BY <1>2, <2>2
    <3>2. all # infos
      BY <1>2, <3>1
    <3>3. \A i \in DOMAIN all : (i \in DOMAIN infos /\ all[i] = infos[i]) \/ all[i] = new
      BY <1>2, <2>2
    <3> QED
      BY <3>2, <3>3
  <2> QED
    BY <2>1, <2>2
<1>4. /\ \A i \in DOMAIN infos : FileSet(infos[i]) \subseteq FilesIn(infos)
      /\ \A f \in FilesIn(js) : \E i \in DOMAIN js : f \in FileSet(js[i])
  BY FilesKinds
<1>5. \A f \in FilesIn(js) :
        \/ f \in FilesIn(infos)
        \/ all # infos /\ f \in FileSet(new)
        \/ \E i \in DOMAIN all : js[i] # all[i] /\ f = Del(js[i].name, js[i].delGen)
  <2>1. SUFFICES ASSUME NEW f \in FilesIn(js)
        PROVE  \/ f \in FilesIn(infos)
               \/ all # infos /\ f \in FileSet(new)
               \/ \E i \in DOMAIN all : js[i] # all[i] /\ f = Del(js[i].name, js[i].delGen)
    OBVIOUS
  <2>2. PICK i \in DOMAIN all : f \in FileSet(js[i])
    BY <1>1, <1>4, <2>1
  <2>3. f \in FileSet(all[i]) \/ (js[i] # all[i] /\ f = Del(js[i].name, js[i].delGen))
    BY <1>1, <2>2
  <2>4. CASE f \in FileSet(all[i])
    BY <1>3, <1>4, <2>2, <2>4
  <2> QED
    BY <2>2, <2>3, <2>4
<1>6. \A i \in DOMAIN js :
        \/ \E k \in DOMAIN infos : js[i].name = infos[k].name /\ js[i].store = infos[k].store
        \/ all # infos /\ js[i].name = new.name /\ js[i].store = new.store
  BY <1>1, <1>3
<1>7. \A n : Cfs(n) \in FilesIn(js) => Cfs(n) \in FilesIn(infos)
  <2>1. SUFFICES ASSUME NEW n, Cfs(n) \in FilesIn(js) PROVE Cfs(n) \in FilesIn(infos)
    OBVIOUS
  <2>2. PICK i \in DOMAIN js : js[i].name = n /\ js[i].cfs
    BY <2>1, FilesKinds
  <2>3. i \in DOMAIN infos /\ all[i] = infos[i] /\ infos[i].name = n /\ infos[i].cfs
    BY <1>1, <1>3, <2>2
  <2>4. Cfs(n) \in FileSet(infos[i])
    BY <2>3 DEF FileSet
  <2> QED
    BY <1>4, <2>3, <2>4
<1> QED
  BY <1>5, <1>6, <1>7

\* Nothing was buffered: nothing is written.
LEMMA FlushEmpty ==
  ASSUME IInv, FInv, DP!IInv, IInv', FlushSegment, buf.docs = {}, buf.dels = {}
  PROVE  [DeleterStep]_(D!vars) /\ FInv'
PROOF
<1>1. op.todo # <<>> /\ HeadOf(op.todo) = "segment" /\ Advance
  BY HeadAt DEF FlushSegment
<1>2. PICK a, S, t, w, w2 : /\ a = Head(op.todo) /\ S = Steps(op.todo) /\ t = Tail(op.todo)
                            /\ w = World /\ w2 = World'
  OBVIOUS
<1>3. /\ a \in S /\ a[1] = "segment" /\ S = {a} \cup Steps(t)
      /\ t \in Seq(Step) /\ Ordered(t) /\ Names(t) \subseteq {"bind"}
      /\ \A b \in Steps(t) : b[1] = "bind"
      /\ Kinds(S) \subseteq {a[1], "bind"}
      /\ Up /\ status \notin {"closed", "opening"}
      /\ FilesIn(infos) \subseteq dir /\ FilesIn(infos) \subseteq D!Named(commits, last)
      /\ held # {} => Writing(merge)
      /\ Alone(merge, S) <=> merge.stage \in {"committed", "compound"}
      /\ merge.stage = "compound" => Cfs(merge.out.name) \in dir
  <2>1. HeadOf(op.todo) \in {"segment", "cfs"} /\ a = Head(op.todo) /\ t = Tail(op.todo) /\ S = Steps(op.todo)
    BY <1>1, <1>2
  <2>2. a[1] = HeadOf(op.todo) /\ HeadOf(op.todo) = "segment"
    BY ONLY IInv, FInv, DP!IInv, <1>1, <2>1, BindFollows
  <2> QED
    BY ONLY IInv, FInv, DP!IInv, <1>1, <2>1, <2>2, BindFollows
<1>4. /\ w.safe = dir /\ w.base = D!Named(commits, last) /\ w.ref = D!Referenced
      /\ w.held = held /\ w.counter = counter /\ w.buf = buf /\ w.merge = merge
      /\ w.status = status
      /\ Sound(infos, S, w) /\ BufSoundIn(S, w) /\ MergeSoundIn(infos, w)
  BY <1>2, PartsOf
<1>5. UNCHANGED <<dir, disk, pinned, deleter, status, autoCommit, infos, gen, lastGen, counter,
                  rollback, buf, merge>>
  BY <1>1 DEF FlushSegment
<1>6. w2 = w
  <2>1. UNCHANGED <<refCounts, commits, last, held, deletable>>
    BY <1>5 DEF deleter
  <2>2. (D!Referenced)' = D!Referenced /\ D!Named(commits, last)' = D!Named(commits, last)
    BY <2>1, ReferencedIs DEF D!Named
  <2> QED
    BY <1>2, <1>5, <2>1, <2>2 DEF World
<1>7. PICK o2 : o2 = op'
  OBVIOUS
<1>8. /\ OrderShape(o2, status, autoCommit) /\ o2.todo = t /\ ~Undoes(o2)
      /\ (t = <<>> \/ Head(t) # <<"ckpt", TRUE>>)
  <2>1. PICK o, st, ac : o = op /\ st = status /\ ac = autoCommit
    OBVIOUS
  <2>2. Popping(o, o2, st, ac)
    BY <1>1, <1>7, <2>1, Onward
  <2> QED
    BY <1>1, <1>2, <2>1, <2>2 DEF Popping
<1>9. \A b \in Steps(t) : b \in S /\ Ready(b, Steps(t), infos, w)
  BY <1>3 DEF Ready
<1>10. "merged" \notin Kinds(Steps(t)) /\ "ckpt" \notin Kinds(S) /\ "merged" \notin Kinds(S)
  BY <1>3 DEF Kinds
<1>11. Alone(merge, Steps(t)) => Alone(merge, S)
  <2>1. <<"merged", "committed">>[1] = "merged"
    OBVIOUS
  <2> QED
    BY <1>3, <1>10, <2>1 DEF Alone
<1>12. FilesSound(infos, Steps(t), w)
  BY <1>3, <1>4, <1>10, <1>11 DEF Sound, FilesSound
<1>13. Sound(infos, Steps(t), w)
  BY <1>3, <1>4, <1>9, <1>12 DEF Sound
<1>14. BufSoundIn(Steps(t), w)
  BY <1>4 DEF BufSoundIn
<1>15. InfosSound' /\ UndoSound' /\ BufSound' /\ MergeSound'
  BY <1>2, <1>4, <1>5, <1>6, <1>7, <1>8, <1>13, <1>14
     DEF InfosSound, UndoSound, Undoing, BufSound, MergeSound
<1>16. /\ [DeleterStep]_(D!vars)
       /\ RollbackSound' /\ NamesBelow' /\ DiskSound' /\ LastOK' /\ WrittenOK' /\ OrderOK' /\ Clean'
  <2>1. HeadOf(t) \notin {"finish", "ctor"}
    BY <1>3, HeadName
  <2>2. HeadOf(op'.todo) \notin {"finish", "ctor"} /\ (op'.todo = <<>> \/ Head(op'.todo) # <<"ckpt", TRUE>>)
        /\ OrderShape(op', status', autoCommit)
    BY <1>5, <1>7, <1>8, <2>1
  <2> QED
    BY <1>1, <1>3, <1>5, <2>2, CommitRest
<1> QED
  BY <1>15, <1>16 DEF FInv

\* Documents or deletes were buffered: a segment is written, deletes are
\* applied, and the segments are checkpointed.
LEMMA FlushWrites ==
  ASSUME IInv, FInv, DP!IInv, DelsKnown, IInv', FlushSegment, ~(buf.docs = {} /\ buf.dels = {})
  PROVE  [DeleterStep]_(D!vars) /\ FInv'
PROOF
<1>1. op.todo # <<>> /\ HeadOf(op.todo) = "segment"
  BY HeadAt DEF FlushSegment
<1>2. PICK a, S, t, w, w2 : /\ a = Head(op.todo) /\ S = Steps(op.todo) /\ t = Tail(op.todo)
                            /\ w = World /\ w2 = World'
  OBVIOUS
<1>3. /\ a \in S /\ a[1] = "segment" /\ a \in Step /\ S = {a} \cup Steps(t)
      /\ t \in Seq(Step) /\ Ordered(t) /\ Names(t) \subseteq {"bind"}
      /\ \A b \in Steps(t) : b[1] = "bind"
      /\ Kinds(S) \subseteq {a[1], "bind"}
      /\ Up /\ status \notin {"closed", "opening"}
      /\ FilesIn(infos) \subseteq dir /\ FilesIn(infos) \subseteq D!Named(commits, last)
      /\ held # {} => Writing(merge)
      /\ Alone(merge, S) <=> merge.stage \in {"committed", "compound"}
      /\ merge.stage = "compound" => Cfs(merge.out.name) \in dir
  <2>1. HeadOf(op.todo) \in {"segment", "cfs"} /\ a = Head(op.todo) /\ t = Tail(op.todo) /\ S = Steps(op.todo)
    BY <1>1, <1>2
  <2>2. a[1] = HeadOf(op.todo) /\ HeadOf(op.todo) = "segment"
    BY ONLY IInv, FInv, DP!IInv, <1>1, <2>1, BindFollows
  <2> QED
    BY ONLY IInv, FInv, DP!IInv, <1>1, <2>1, <2>2, BindFollows
<1>4. /\ w.safe = dir /\ w.base = D!Named(commits, last) /\ w.ref = D!Referenced
      /\ w.held = held /\ w.counter = counter /\ w.buf = buf /\ w.merge = merge
      /\ w.status = status
      /\ Sound(infos, S, w) /\ BufSoundIn(S, w) /\ MergeSoundIn(infos, w)
      /\ Fits(infos, counter, buf.seg, merge) /\ BufShape(buf, counter)
      /\ MergeShape(merge, counter, buf.seg) /\ ListOK(infos, counter) /\ counter \in Nat
  BY <1>2, PartsOf
<1>5. PICK fds, x, cfx : fds = a[2] /\ x = a[3] /\ cfx = a[4]
  OBVIOUS
<1>6. fds \in BOOLEAN /\ x \in Name \cup {None} /\ cfx \in BOOLEAN
  <2>1. a \in {"segment"} \X BOOLEAN \X (Name \cup {None}) \X BOOLEAN
    BY <1>3 DEF Step
  <2> QED
    BY <1>5, <2>1
<1>7. /\ x < counter
      /\ buf.docs # {} => x # None
      /\ Writing(merge) => x # merge.out.name
      /\ fds => buf.docs # {} /\ x = buf.seg /\ x = buf.store /\ ~cfx
      /\ cfx => buf.store = None
      /\ x # None => (IF cfx THEN Cfx(x) ELSE Store(x)) \in dir
  <2>1. Ready(a, S, infos, w)
    BY <1>3, <1>4 DEF Sound
  <2>2. "stores" \notin Kinds(S)
    BY <1>3
  <2>3. SegmentReady(a, S, infos, w)
    BY <1>3, <2>1 DEF Ready
  <2> QED
    BY <1>4, <1>5, <2>2, <2>3 DEF SegmentReady
<1>8. PICK st, sc : st = (IF fds THEN None ELSE x) /\ sc = (~fds /\ cfx)
  OBVIOUS
<1>9. PICK new : new = [name |-> buf.seg, docs |-> buf.docs, dels |-> {}, delGen |-> 0,
                        cfs |-> FALSE, store |-> st, storeCfs |-> sc]
  OBVIOUS
<1>10. PICK all : all = IF buf.docs # {} THEN Append(infos, new) ELSE infos
  OBVIOUS
<1>11. PICK mk : mk = IF buf.docs # {} /\ UseCompound THEN <<<<"cfs", buf.seg>>>> ELSE <<>>
  OBVIOUS
<1>13. PICK js, b2, o2, ds : js = infos' /\ b2 = buf' /\ o2 = op' /\ ds = buf.dels
  OBVIOUS
<1>12. PICK nds, f : /\ nds = NewDels(infos, js)
                     /\ f = IF buf.dels # {} /\ merge.stage # "none" THEN <<<<"die">>>>
                            ELSE Unflush(nds)
  OBVIOUS
<1>14. PICK dl : dl = {Del(js[i].name, js[i].delGen) : i \in {j \in DOMAIN all : js[j] # all[j]}}
  OBVIOUS
<1>15. /\ UNCHANGED <<disk, pinned, deletable, status, autoCommit, gen, lastGen, counter, rollback,
                      merge, faults, deleter>>
       /\ js = AppliedTo(all, ds)
       /\ dir' = dir \cup (IF buf.docs # {} THEN {Core(buf.seg)} ELSE {}) \cup dl
       /\ b2 = [buf EXCEPT !.docs = {}, !.dels = {}, !.seg = None,
                  !.store = IF buf.docs # {} /\ fds THEN None ELSE @]
       /\ o2 = Recommit(op, (CommitSteps \o mk) \o t, infos, f)
  <2>1. js = AppliedTo(all, ds)
    <3> DEFINE al == IF buf.docs # {}
                     THEN Append(infos, [name |-> buf.seg, docs |-> buf.docs, dels |-> {},
                            delGen |-> 0, cfs |-> FALSE,
                            store |-> IF Head(op.todo)[2] THEN None ELSE Head(op.todo)[3],
                            storeCfs |-> ~Head(op.todo)[2] /\ Head(op.todo)[4]])
                     ELSE infos
    <3>1. al = all
      BY <1>2, <1>5, <1>8, <1>9, <1>10
    <3>2. infos' = AppliedTo(al, buf.dels)
      BY Zenon DEF FlushSegment, AppliedTo
    <3> HIDE DEF al
    <3> QED
      BY <1>13, <3>1, <3>2
  <2>2. dir' = dir \cup (IF buf.docs # {} THEN {Core(buf.seg)} ELSE {}) \cup dl
    <3> DEFINE al == IF buf.docs # {}
                     THEN Append(infos, [name |-> buf.seg, docs |-> buf.docs, dels |-> {},
                            delGen |-> 0, cfs |-> FALSE,
                            store |-> IF Head(op.todo)[2] THEN None ELSE Head(op.todo)[3],
                            storeCfs |-> ~Head(op.todo)[2] /\ Head(op.todo)[4]])
                     ELSE infos
    <3>1. al = all
      BY <1>2, <1>5, <1>8, <1>9, <1>10
    <3>2. dir' = dir \cup (IF buf.docs # {} THEN {Core(buf.seg)} ELSE {})
                     \cup {Del(infos'[i].name, infos'[i].delGen) :
                             i \in {j \in DOMAIN al : infos'[j] # al[j]}}
      BY Zenon DEF FlushSegment
    <3> HIDE DEF al
    <3> QED
      BY <1>13, <1>14, <3>1, <3>2
  <2>3. b2 = [buf EXCEPT !.docs = {}, !.dels = {}, !.seg = None,
                !.store = IF buf.docs # {} /\ fds THEN None ELSE @]
    BY <1>2, <1>5, <1>13 DEF FlushSegment
  <2>4. o2 = Recommit(op, (CommitSteps \o mk) \o t, infos, f)
    BY <1>2, <1>11, <1>12, <1>13 DEF FlushSegment, Recommit
  <2>5. UNCHANGED <<disk, pinned, deletable, status, autoCommit, gen, lastGen, counter, rollback,
                    merge, faults, deleter>>
    BY DEF FlushSegment, deleter
  <2> QED
    BY <2>1, <2>2, <2>3, <2>4, <2>5
<1>16. /\ b2.docs = {} /\ b2.seg = None
       /\ b2.store = (IF buf.docs # {} /\ fds THEN None ELSE buf.store)
       /\ buf.seg \in Name \cup {None} /\ buf.store \in Name \cup {None}
       /\ buf.docs # {} => buf.seg \in Name /\ buf.seg < counter
       /\ buf.dels \subseteq Doc
       /\ buf.store < counter /\ None < counter
  <2>1. None < counter
    BY <1>4 DEF None
  <2> QED
    BY <1>4, <1>15, <2>1 DEF BufShape, BufSoundIn
<1>17. /\ st \in Name \cup {None} /\ sc \in BOOLEAN /\ ~new.cfs /\ new.name = buf.seg
       /\ new.store = st /\ new.storeCfs = sc /\ new.delGen = 0
  BY <1>6, <1>8, <1>9
<1>18. ListOK(all, counter) /\ ListOK(js, counter)
  <2>1. ListOK(js, counter)
    BY <1>13, <1>15 DEF IInv, InfosOK, Fits
  <2>2. CASE buf.docs # {}
    BY <1>9, <1>10, <1>17, <2>1, <2>2, NewSegment DEF Fits
  <2>3. CASE buf.docs = {}
    BY <1>4, <1>10, <2>1, <2>3
  <2> QED
    BY <2>2, <2>3
<1>19. all # infos => buf.docs # {}
  BY <1>10
<1>20. /\ \A g \in FilesIn(js) :
            \/ g \in FilesIn(infos)
            \/ buf.docs # {} /\ g \in FileSet(new)
            \/ \E i \in DOMAIN all : js[i] # all[i] /\ g = Del(js[i].name, js[i].delGen)
       /\ \A i \in DOMAIN js :
            \/ \E k \in DOMAIN infos : js[i].name = infos[k].name /\ js[i].store = infos[k].store
            \/ buf.docs # {} /\ js[i].name = new.name /\ js[i].store = new.store
       /\ \A n : Cfs(n) \in FilesIn(js) => Cfs(n) \in FilesIn(infos)
  <2>1. /\ ListOK(infos, counter) /\ ~new.cfs /\ (all = infos \/ all = Append(infos, new))
        /\ ListOK(all, counter) /\ js = AppliedTo(all, ds) /\ ListOK(js, counter)
    BY <1>4, <1>10, <1>15, <1>17, <1>18
  <2>2. /\ \A g \in FilesIn(js) :
             \/ g \in FilesIn(infos)
             \/ all # infos /\ g \in FileSet(new)
             \/ \E i \in DOMAIN all : js[i] # all[i] /\ g = Del(js[i].name, js[i].delGen)
        /\ \A i \in DOMAIN js :
             \/ \E k \in DOMAIN infos : js[i].name = infos[k].name /\ js[i].store = infos[k].store
             \/ all # infos /\ js[i].name = new.name /\ js[i].store = new.store
        /\ \A n : Cfs(n) \in FilesIn(js) => Cfs(n) \in FilesIn(infos)
    BY ONLY <2>1, FlushedFiles
  <2> QED
    BY <1>19, <2>2
<1>21. \A g \in FileSet(new) : /\ buf.docs # {} => g \in dir \/ g = Core(buf.seg)
                               /\ g[1] = "cfx" => cfx
  <2>1. \A g \in FileSet(new) :
          \/ g = Core(buf.seg)
          \/ ~fds /\ x # None /\ g = (IF cfx THEN Cfx(x) ELSE Store(x))
          \/ (fds \/ x = None) /\ g = Store(buf.seg)
    <3>1. \A g \in FileSet(new) :
            \/ g = Core(buf.seg)
            \/ st # None /\ g = (IF sc THEN Cfx(st) ELSE Store(st))
            \/ st = None /\ g = Store(buf.seg)
      BY <1>17 DEF FileSet
    <3> QED
      BY <1>8, <3>1
  <2>2. \A n : Core(n)[1] = "core" /\ Store(n)[1] = "store"
    BY Fields
  <2> QED
    BY <1>7, <2>1, <2>2
<1>22. \A i \in DOMAIN all : js[i] # all[i] =>
         Del(js[i].name, js[i].delGen) \in dl /\ Del(js[i].name, js[i].delGen)[1] = "del"
  BY <1>14, Fields
<1>23. /\ dir \subseteq dir' /\ (buf.docs # {} => Core(buf.seg) \in dir') /\ dl \subseteq dir'
       /\ \A g \in dir' : g \in dir \/ g[1] # "segments"
  <2>1. \A g \in dl : g[1] # "segments"
    BY <1>14, Fields
  <2>2. Core(buf.seg)[1] # "segments"
    BY Fields
  <2> QED
    BY <1>15, <2>1, <2>2
<1>24. FilesIn(js) \subseteq dir'
  BY <1>3, <1>20, <1>21, <1>22, <1>23
<1>25. PICK r : r = mk \o t
  OBVIOUS
<1>26. PICK c : c = (buf.docs # {} /\ UseCompound)
  OBVIOUS
<1>27. /\ r \in Seq(Step) /\ Ordered(r) /\ Names(r) \subseteq {"cfs", "bind"}
       /\ \A b \in Steps(r) : b[1] = "bind" \/ (c /\ b = <<"cfs", buf.seg>>)
       /\ (CommitSteps \o mk) \o t = CommitSteps \o r
  <2>1. PICK e, u : e = <<"cfs", buf.seg>> /\ u = CommitSteps
    OBVIOUS
  <2>2. /\ t \in Seq(Step) /\ Ordered(t) /\ Names(t) \subseteq {"bind"}
        /\ u \in Seq(Step)
    BY <1>3, <2>1, CommitScript DEF Script
  <2>3. mk = (IF c THEN <<e>> ELSE <<>>)
    BY <1>11, <1>26, <2>1
  <2>4. CASE c
    <3>1. e \in Step /\ e[1] = "cfs" /\ r = <<e>> \o t /\ mk = <<e>>
      BY <1>16, <1>25, <1>26, <2>1, <2>3, <2>4 DEF Step
    <3>2. /\ r \in Seq(Step) /\ Ordered(r) /\ Names(r) \subseteq {"cfs", "bind"}
          /\ \A b \in Steps(r) : b[1] = "bind" \/ b = e
      BY ONLY <2>2, <3>1, FlushedSteps
    <3>3. mk \in Seq(Step)
      BY ONLY <3>1
    <3>4. (u \o mk) \o t = u \o (mk \o t)
      BY ONLY <2>2, <3>3, ConcatAssociative
    <3> QED
      BY <1>25, <2>1, <2>4, <3>2, <3>4
  <2>5. CASE ~c
    <3>1. mk = <<>>
      BY <2>3, <2>5
    <3>2. mk \o t = t /\ u \o mk = u
      BY ONLY <2>2, <3>1
    <3> QED
      BY <1>3, <1>25, <2>1, <2>2, <3>2
  <2> QED
    BY <1>26, <2>4, <2>5
<1>44. /\ nds \subseteq File /\ \A g \in nds : g[1] = "del"
       /\ autoCommit => nds \cap (D!Named(commits, last) \cup FilesIn(infos)) = {}
       /\ ds = {} => nds = {}
  <2>1. PICK B : B = IF autoCommit THEN D!Named(commits, last) ELSE {}
    OBVIOUS
  <2>2. DelsFit(infos, B)
    <3>1. autoCommit => DelsFit(infos, D!Named(commits, last))
      BY <1>3 DEF DelsKnown
    <3>2. DelsFit(infos, {})
      BY DEF DelsFit
    <3> QED
      BY <2>1, <3>1, <3>2
  <2>3. /\ ListOK(infos, counter) /\ (all = infos \/ all = Append(infos, new))
        /\ js = AppliedTo(all, ds) /\ ListOK(js, counter) /\ DelsFit(infos, B)
    BY <1>4, <1>10, <1>15, <1>18, <2>2
  <2>4. /\ NewDels(infos, js) \subseteq File
        /\ \A g \in NewDels(infos, js) : g[1] = "del"
        /\ NewDels(infos, js) \cap (B \cup FilesIn(infos)) = {}
        /\ ds = {} => NewDels(infos, js) = {}
    BY ONLY <2>3, NewDelsApart
  <2> QED
    BY <1>12, <2>1, <2>4
<1>28. /\ f \in Seq(Step) /\ Ordered(f) /\ <<"ckpt", TRUE>> \notin Steps(f)
       /\ Names(f) \cap {"ctor", "close", "segment", "cfs"} = {}
       /\ buf.dels # {} /\ merge.stage # "none" => f = <<<<"die">>>>
       /\ buf.dels = {} \/ merge.stage = "none" =>
            /\ \A b \in Steps(f) : \/ b[1] \in {"partial", "ckpt", "throw"}
                                   \/ buf.seg # None /\ b = <<"refresh", buf.seg>>
                                   \/ nds # {} /\ b = <<"delete", nds>>
            /\ "ckpt" \in Kinds(Steps(f)) /\ "merged" \notin Kinds(Steps(f))
  <2>1. CASE buf.dels # {} /\ merge.stage # "none"
    <3>1. PICK e : e = <<"die">>
      OBVIOUS
    <3>2. f = <<e>> /\ e[1] = "die" /\ e \in Step
      BY <1>12, <2>1, <3>1 DEF Step
    <3>3. Names(<<e>>) = {"die"} /\ <<e>> \in Seq(Step)
      BY <3>2, Literals
    <3>4. Steps(<<e>>) = {e} /\ Ordered(<<e>>)
      BY ONLY ShortLists
    <3>5. e # <<"ckpt", TRUE>>
      <4>1. <<"ckpt", TRUE>>[1] = "ckpt"
        OBVIOUS
      <4> QED
        BY <3>2, <4>1
    <3> QED
      BY <2>1, <3>1, <3>2, <3>3, <3>4, <3>5
  <2>2. CASE buf.dels = {} \/ merge.stage = "none"
    <3>1. f = Unflush(nds) /\ nds \in SUBSET File /\ buf.seg \in Name \cup {None}
      BY <1>12, <1>16, <1>44, <2>2
    <3>2. /\ f \in Seq(Step) /\ Ordered(f)
          /\ Names(f) \subseteq {"delete", "partial", "ckpt", "refresh", "throw"}
          /\ <<"ckpt", TRUE>> \notin Steps(f)
          /\ \A b \in Steps(f) : \/ b[1] \in {"partial", "ckpt", "throw"}
                                 \/ buf.seg # None /\ b = <<"refresh", buf.seg>>
                                 \/ nds # {} /\ b = <<"delete", nds>>
          /\ "ckpt" \in Kinds(Steps(f)) /\ "merged" \notin Kinds(Steps(f))
      BY ONLY <3>1, UnflushSteps
    <3>3. Names(f) \cap {"ctor", "close", "segment", "cfs"} = {}
      BY <3>2
    <3> QED
      BY <2>2, <3>2, <3>3
  <2> QED
    BY <2>1, <2>2
<1>29. o2.todo = CommitSteps \o r /\ o2.undo = infos /\ o2.onFail = f
  BY <1>15, <1>27, Types DEF Recommit, IInv, OpOK, OpFits, OpShape
<1>30. PICK S2 : S2 = Steps(o2.todo)
  OBVIOUS
<1>31. /\ [DeleterStep]_(D!vars)
       /\ RollbackSound' /\ NamesBelow' /\ DiskSound' /\ LastOK' /\ WrittenOK' /\ OrderOK' /\ Clean'
       /\ "ckpt" \in Kinds(S2)
       /\ \A b \in S2 : b \in Steps(r) \/ b[1] \in {"write", "ckpt"}
  <2>1. op'.todo = CommitSteps \o r /\ op'.onFail = f
    BY <1>13, <1>29
  <2>2. Names(r) \cap {"ckpt", "ctor", "write", "finish", "segment", "close"} = {}
    BY <1>27
  <2>3. HeadOf(op.todo) \in {"idle", "segment", "cfs"}
    BY <1>1
  <2> QED
    BY <1>3, <1>13, <1>15, <1>23, <1>27, <1>28, <1>30, <2>1, <2>2, <2>3, CommitGoes
<1>32. /\ w2.safe = dir' /\ w2.base = D!Named(commits, last) /\ w2.ref = D!Referenced
       /\ w2.held = held /\ w2.counter = counter /\ w2.buf = b2 /\ w2.merge = merge
       /\ w2.status = status
  BY <1>2, <1>13, <1>15, WorldThen
<1>33. \A b \in S2 : b[1] \in {"bind", "write", "ckpt"} \/ (buf.docs # {} /\ b = <<"cfs", buf.seg>>)
  BY <1>26, <1>27, <1>31
<1>34. Alone(merge, S2) => merge.stage \in {"committed", "compound"}
  <2>1. <<"merged", "committed">>[1] = "merged" /\ <<"cfs", buf.seg>>[1] = "cfs"
    OBVIOUS
  <2> QED
    BY <1>33, <2>1 DEF Alone
<1>35. /\ merge.stage \in {"committed", "compound"} => Cfs(merge.out.name) \notin D!Referenced \cup FilesIn(infos)
       /\ merge.stage \notin {"none", "init"} => merge.out.name \notin {buf.seg, buf.store}
       /\ Writing(merge) => merge.out.name \in Name
       /\ buf.seg # None => Cfs(buf.seg) \notin D!Referenced
       /\ buf.docs # {} => buf.seg # None
  <2>1. \A n \in Name : n # None
    BY DEF Name, None
  <2> QED
    BY <1>3, <1>4, <1>16, <2>1, MergedName DEF Sound, FilesSound, MergeSoundIn, BufSoundIn, Writing
<1>36. FilesSound(js, S2, w2)
  <2>1. \A i \in DOMAIN js : /\ js[i].store < counter
                             /\ Writing(merge) => js[i].store # merge.out.name
    <3>1. SUFFICES ASSUME NEW i \in DOMAIN js
          PROVE  js[i].store < counter /\ (Writing(merge) => js[i].store # merge.out.name)
      OBVIOUS
    <3>2. \A k \in DOMAIN infos : infos[k].store < counter /\ (Writing(merge) => infos[k].store # merge.out.name)
      BY <1>4 DEF Sound, FilesSound
    <3>3. st < counter /\ (Writing(merge) => st # merge.out.name)
      <4>1. \A n \in Name : n # None
        BY DEF Name, None
      <4> QED
        BY <1>7, <1>8, <1>16, <1>35, <4>1
    <3> QED
      BY <1>17, <1>20, <3>2, <3>3
  <2>2. b2.store # None => Cfx(b2.store) \notin FilesIn(js)
    <3>1. SUFFICES ASSUME b2.store # None, Cfx(b2.store) \in FilesIn(js) PROVE FALSE
      OBVIOUS
    <3>2. b2.store = buf.store /\ ~(buf.docs # {} /\ fds)
      BY <1>16, <3>1
    <3>3. Cfx(buf.store)[1] = "cfx"
      BY Fields
    <3>4. Cfx(buf.store) \notin FilesIn(infos)
      BY <1>4, <3>1, <3>2 DEF Sound, FilesSound
    <3>5. buf.docs # {} /\ Cfx(buf.store) \in FileSet(new)
      BY <1>20, <1>22, <3>1, <3>2, <3>3, <3>4
    <3>6. cfx
      BY ONLY <1>21, <3>3, <3>5
    <3> QED
      BY <1>7, <3>1, <3>2, <3>6
  <2>3. Alone(merge, S2) => Cfs(merge.out.name) \notin D!Referenced \cup FilesIn(js)
    BY <1>20, <1>34, <1>35
  <2> QED
    BY <1>24, <1>31, <1>32, <2>1, <2>2, <2>3 DEF FilesSound
<1>37. Sound(js, S2, w2)
  <2>1. \A b \in S2 : Ready(b, S2, js, w2)
    <3>1. SUFFICES ASSUME NEW b \in S2 PROVE Ready(b, S2, js, w2)
      OBVIOUS
    <3>2. CASE b[1] \in {"bind", "write", "ckpt"}
      BY <3>2 DEF Ready
    <3>3. CASE buf.docs # {} /\ b = <<"cfs", buf.seg>>
      <4>1. b[1] = "cfs" /\ b[2] = buf.seg
        BY <3>3
      <4>2. Cfs(buf.seg) \notin FilesIn(infos)
        <5>1. buf.seg # None => \A i \in DOMAIN infos : infos[i].name # buf.seg
          BY <1>4 DEF Fits, Unused
        <5> QED
          BY <1>4, <1>35, <3>3, <5>1, FilesKinds
      <4>3. Cfs(buf.seg) \notin D!Referenced \cup FilesIn(js)
        BY <1>20, <1>35, <3>3, <4>2
      <4>4. Alone(merge, S2) => buf.seg # merge.out.name
        BY <1>34, <1>35
      <4> QED
        BY <1>32, <4>1, <4>3, <4>4 DEF Ready
    <3> QED
      BY <1>33, <3>2, <3>3
  <2> QED
    BY <1>3, <1>23, <1>32, <1>36, <2>1 DEF Sound
<1>38. autoCommit /\ (buf.dels = {} \/ merge.stage = "none") => Sound(infos, Steps(f), w2)
  <2>1. SUFFICES ASSUME autoCommit, buf.dels = {} \/ merge.stage = "none"
                 PROVE  Sound(infos, Steps(f), w2)
    OBVIOUS
  <2>2. PICK F : F = Steps(f)
    OBVIOUS
  <2>3. /\ \A b \in F : \/ b[1] \in {"partial", "ckpt", "throw"}
                        \/ buf.seg # None /\ b = <<"refresh", buf.seg>>
                        \/ nds # {} /\ b = <<"delete", nds>>
        /\ "ckpt" \in Kinds(F) /\ "merged" \notin Kinds(F)
    BY <1>28, <2>1, <2>2
  <2>4. Alone(merge, F) => merge.stage \in {"committed", "compound"}
    <3>1. <<"merged", "committed">>[1] = "merged"
      OBVIOUS
    <3> QED
      BY <2>3, <3>1 DEF Alone, Kinds
  <2>5. FilesSound(infos, F, w2)
    <3>1. /\ \A i \in DOMAIN infos : /\ infos[i].store < counter
                                     /\ Writing(merge) => infos[i].store # merge.out.name
          /\ buf.store # None => Cfx(buf.store) \notin FilesIn(infos)
      BY <1>4 DEF Sound, FilesSound
    <3>2. b2.store # None => b2.store = buf.store
      BY <1>16
    <3>3. FilesIn(infos) \subseteq dir'
      BY <1>3, <1>23
    <3> QED
      BY <1>32, <1>35, <2>3, <2>4, <3>1, <3>2, <3>3 DEF FilesSound
  <2>6. \A b \in F : Ready(b, F, infos, w2)
    <3>1. SUFFICES ASSUME NEW b \in F PROVE Ready(b, F, infos, w2)
      OBVIOUS
    <3>2. CASE b[1] \in {"partial", "ckpt", "throw"}
      BY <3>2 DEF Ready
    <3>3. CASE buf.seg # None /\ b = <<"refresh", buf.seg>>
      <4>1. b[1] = "refresh" /\ b[2] = buf.seg
        BY <3>3
      <4>2. buf.docs # {}
        BY <1>4, <3>3 DEF BufSoundIn
      <4>3. Writing(merge) => merge.stage \notin {"none", "init"}
        BY DEF Writing
      <4>4. RefreshReady(buf.seg, F, w2)
        BY <1>16, <1>32, <1>35, <2>3, <2>4, <3>3, <4>2, <4>3 DEF RefreshReady
      <4> QED
        BY <4>1, <4>4 DEF Ready
    <3>4. CASE nds # {} /\ b = <<"delete", nds>>
      <4>1. b[1] = "delete" /\ b[2] = nds
        BY <3>4
      <4>2. merge.stage = "none"
        BY <1>13, <1>44, <2>1, <3>4
      <4>3. held = {}
        BY <1>3, <4>2 DEF Writing
      <4>4. D!Referenced = D!Named(commits, last)
        BY <4>3, DeleterKnows
      <4>5. DropReady(nds, F, infos, w2)
        BY <1>32, <1>44, <2>1, <4>4 DEF DropReady
      <4> QED
        BY <4>1, <4>5 DEF Ready
    <3> QED
      BY <2>3, <3>2, <3>3, <3>4
  <2> QED
    BY <1>3, <1>23, <1>32, <2>2, <2>5, <2>6 DEF Sound
<1>39. BufSoundIn(S2, w2)
  <2>1. b2.store # None => b2.store = buf.store
    BY <1>16
  <2>2. buf.store # None =>
          /\ Store(buf.store) \in dir
          /\ Store(buf.store) \in D!Referenced => Store(buf.store) \in D!Named(commits, last)
          /\ Cfx(buf.store) \notin D!Referenced
    BY <1>4 DEF BufSoundIn
  <2> QED
    BY <1>16, <1>23, <1>32, <2>1, <2>2 DEF BufSoundIn
<1>40. MergeSoundIn(js, w2)
  <2>1. merge.stage = "init" /\ ~merge.stores =>
          \A i \in DOMAIN js : js[i].name = merge.clone[1].name => js[i].store # None
    <3>1. SUFFICES ASSUME merge.stage = "init", ~merge.stores, NEW i \in DOMAIN js,
                          js[i].name = merge.clone[1].name
                   PROVE  js[i].store # None
      OBVIOUS
    <3>2. \A k \in DOMAIN infos : infos[k].name = merge.clone[1].name => infos[k].store # None
      BY <1>4, <3>1 DEF MergeSoundIn
    <3>3. PICK k \in DOMAIN infos : infos[k].name = merge.clone[1].name
      <4>1. Together(merge.clone, infos)
        BY <1>4, <3>1 DEF Fits
      <4>2. PICK j \in DOMAIN infos : /\ j + 1 \in DOMAIN infos
                                      /\ \A m \in 1..2 : infos[j + m - 1].name = merge.clone[m].name
        BY <4>1 DEF Together
      <4>3. infos[j + 1 - 1].name = merge.clone[1].name
        BY <4>2
      <4>4. j + 1 - 1 = j
        BY <1>4, <4>2 DEF ListOK
      <4> QED
        BY <4>2, <4>3, <4>4
    <3>4. buf.seg # None => buf.seg # merge.clone[1].name
      BY <1>4, <3>3 DEF Fits, Unused
    <3> QED
      BY <1>17, <1>20, <1>35, <3>1, <3>2, <3>4
  <2>2. merge.stage = "built" => /\ Core(merge.out.name) \in dir'
                                 /\ merge.stores => Store(merge.out.name) \in dir'
    BY <1>4, <1>23 DEF MergeSoundIn
  <2>3. counter <= counter
    BY <1>4
  <2>4. w2.buf.seg \in {w.buf.seg, None, w.counter} /\ w2.buf.store \in {w.buf.store, None, w.counter}
    BY <1>4, <1>16, <1>32
  <2> QED
    BY <1>4, <1>32, <2>1, <2>2, <2>3, <2>4, MergeSoundStill
<1>41. InfosSound' /\ BufSound' /\ MergeSound'
  BY <1>2, <1>13, <1>30, <1>37, <1>39, <1>40 DEF InfosSound, BufSound, MergeSound
<1>42. UndoSound'
  <2>1. Undoes(o2) => autoCommit /\ (buf.dels = {} \/ merge.stage = "none")
    <3>1. Undoes(o2) => buf.dels = {} \/ merge.stage = "none"
      BY <1>28, <1>29 DEF Undoes
    <3>2. ~autoCommit => ~Undoes(o2)
      <4>1. SUFFICES ASSUME ~autoCommit PROVE HeadOf(o2.todo) = "ckpt"
        BY DEF Undoes
      <4>2. PICK e, u : e = <<"ckpt", FALSE>> /\ u = <<e>>
        OBVIOUS
      <4>3. e[1] = "ckpt" /\ e \in Step
        BY <4>2 DEF Step
      <4>4. CommitSteps = u
        BY <4>1, <4>2 DEF CommitSteps
      <4>5. u \o r # <<>> /\ Head(u \o r) = e
        <5>1. u \in Seq(Step) /\ u # <<>> /\ Head(u) = e
          <6>1. PICK g : g = e
            OBVIOUS
          <6>2. u = <<g>> /\ g \in Step
            BY <4>2, <4>3, <6>1
          <6>3. <<g>> \in Seq(Step) /\ <<g>> # <<>> /\ Head(<<g>>) = g
            BY ONLY <6>2
          <6> QED
            BY ONLY <6>1, <6>2, <6>3
        <5>2. r \in Seq(Step)
          BY ONLY <1>27
        <5> QED
          BY ONLY <5>1, <5>2, StepsJoin
      <4> QED
        BY <1>29, <4>3, <4>4, <4>5 DEF HeadOf
    <3> QED
      BY <3>1, <3>2
  <2>2. Undoes(o2) => Sound(o2.undo, Steps(o2.onFail), w2)
    BY <1>29, <1>38, <2>1
  <2> QED
    BY <1>2, <1>13, <2>2 DEF UndoSound, Undoing
<1> QED
  BY <1>31, <1>41, <1>42 DEF FInv

LEMMA FlushSegmentSafe ==
  ASSUME IInv, FInv, DP!IInv, DelsKnown, IInv', FlushSegment
  PROVE  [DeleterStep]_(D!vars) /\ FInv'
PROOF
BY FlushEmpty, FlushWrites

\* The compound file that is to be made belongs to no segment and no commit.
LEMMA CfsFacts ==
  ASSUME IInv, FInv, DP!IInv, op.todo # <<>>, HeadOf(op.todo) = "cfs",
         NEW n, n = Head(op.todo)[2]
  PROVE  /\ n \in Name /\ Cfs(n) \notin D!Referenced \cup FilesIn(infos)
         /\ merge.stage \in {"committed", "compound"} => n # merge.out.name
         /\ merge.stage \in {"committed", "compound"} =>
              Cfs(merge.out.name) \notin D!Referenced \cup FilesIn(infos) \cup {Cfs(n)}
PROOF
<1>1. PICK a, S, t, w : a = Head(op.todo) /\ S = Steps(op.todo) /\ t = Tail(op.todo) /\ w = World
  OBVIOUS
<1>2. /\ a \in S /\ a[1] = "cfs" /\ a \in Step
      /\ Alone(merge, S) <=> merge.stage \in {"committed", "compound"}
  <2>1. HeadOf(op.todo) \in {"segment", "cfs"} /\ a = Head(op.todo) /\ t = Tail(op.todo) /\ S = Steps(op.todo)
    BY <1>1
  <2>2. a[1] = HeadOf(op.todo) /\ HeadOf(op.todo) = "cfs" /\ op.todo # <<>>
    BY ONLY IInv, FInv, DP!IInv, op.todo # <<>>, HeadOf(op.todo) = "cfs", <2>1, BindFollows
  <2> QED
    BY ONLY IInv, FInv, DP!IInv, <2>1, <2>2, BindFollows
<1>3. w.ref = D!Referenced /\ w.merge = merge /\ Sound(infos, S, w)
  BY <1>1, PartsOf
<1>4. n = a[2] /\ n \in Name
  <2>1. a \in {"cfs"} \X Name
    BY <1>2 DEF Step
  <2> QED
    BY <1>1, <2>1
<1>5. Ready(a, S, infos, w)
  BY <1>2, <1>3 DEF Sound
<1>6. /\ Cfs(n) \notin D!Referenced \cup FilesIn(infos)
      /\ Alone(merge, S) => n # merge.out.name
  BY <1>2, <1>3, <1>4, <1>5 DEF Ready
<1>7. Alone(merge, S) => Cfs(merge.out.name) \notin D!Referenced \cup FilesIn(infos)
  BY <1>3 DEF Sound, FilesSound
<1>8. Cfs(n) = Cfs(merge.out.name) => n = merge.out.name
  BY Fields DEF Cfs
<1> QED
  BY <1>2, <1>4, <1>6, <1>7, <1>8

\* What is done when the compound file fails.
LEMMA CompoundFailSteps ==
  ASSUME NEW n \in Name, NEW fs, fs = {Cfs(n)}, NEW f,
         f = <<<<"delete", fs>>, <<"partial">>, <<"throw", "caller">>>>
  PROVE  /\ f \in Seq(Step) /\ Ordered(f) /\ Script(f)
         /\ Names(f) = {"delete", "partial", "throw"}
         /\ <<"ckpt", TRUE>> \notin Steps(f) /\ f # <<>> /\ HeadOf(f) = "delete"
         /\ Head(f) # <<"ckpt", TRUE>>
         /\ Steps(f) = {<<"delete", fs>>, <<"partial">>, <<"throw", "caller">>}
PROOF
<1>1. PICK a, b, c : a = <<"delete", fs>> /\ b = <<"partial">> /\ c = <<"throw", "caller">>
  OBVIOUS
<1>2. fs \in SUBSET File
  BY DEF Cfs, File
<1>3. /\ a \in Step /\ b \in Step /\ c \in Step
      /\ a[1] = "delete" /\ a[2] = fs /\ b[1] = "partial" /\ c[1] = "throw"
  BY <1>1, <1>2 DEF Step
<1>4. f = <<a, b, c>>
  BY <1>1
<1>5. Before(a, b) /\ Before(a, c) /\ Before(b, c)
  BY <1>3, PlainOrder
<1>6. Steps(<<a, b, c>>) = {a, b, c} /\ Ordered(<<a, b, c>>)
  BY ONLY <1>5, ThreeSteps
<1>7. f \in Seq(Step)
  BY ONLY <1>3, <1>4
<1>8. Script(f) /\ Names(f) = {"delete", "partial", "throw"}
  BY <1>2, FailScripts
<1>10. Steps(f) = {a, b, c} /\ Ordered(f)
  BY ONLY <1>4, <1>6
<1>11. \A e \in Steps(f) : e[1] \in {"partial", "throw"} \/ (e[1] = "delete" /\ e[2] = fs)
  BY ONLY <1>3, <1>10
<1>12. Head(f) = a /\ f # <<>>
  BY ONLY <1>4
<1>13. HeadOf(f) = "delete"
  BY <1>3, <1>12 DEF HeadOf
<1>14. <<"ckpt", TRUE>> \notin Steps(f) /\ Head(f) # <<"ckpt", TRUE>>
  <2>1. <<"ckpt", TRUE>>[1] = "ckpt"
    OBVIOUS
  <2> QED
    BY <1>3, <1>11, <1>12, <2>1
<1> QED
  BY <1>1, <1>7, <1>8, <1>10, <1>12, <1>13, <1>14

\* With those steps left, and that file made, the segments are in order.
LEMMA CompoundFailSound ==
  ASSUME IInv, FInv, DP!IInv, op.todo # <<>>, HeadOf(op.todo) = "cfs",
         NEW n, n = Head(op.todo)[2], NEW fs, fs = {Cfs(n)}, NEW f,
         f = <<<<"delete", fs>>, <<"partial">>, <<"throw", "caller">>>>,
         UNCHANGED <<deleter, buf, merge, counter, status>>, dir \subseteq dir',
         NEW w2, w2 = World'
  PROVE  Sound(infos, Steps(f), w2)
PROOF
<1>1. /\ n \in Name /\ Cfs(n) \notin D!Referenced \cup FilesIn(infos)
      /\ merge.stage \in {"committed", "compound"} => n # merge.out.name
      /\ merge.stage \in {"committed", "compound"} =>
           Cfs(merge.out.name) \notin D!Referenced \cup FilesIn(infos) \cup {Cfs(n)}
  BY CfsFacts
<1>2. PICK F : F = Steps(f)
  OBVIOUS
<1>3. /\ \A b \in F : b[1] \in {"partial", "throw"} \/ (b[1] = "delete" /\ b[2] = fs)
      /\ "merged" \notin Kinds(F) /\ "ckpt" \notin Kinds(F)
  <2>1. n \in Name
    BY <1>1
  <2>2. fs = {Cfs(n)} /\ f = <<<<"delete", fs>>, <<"partial">>, <<"throw", "caller">>>>
    OBVIOUS
  <2>3. Names(f) = {"delete", "partial", "throw"} /\ f \in Seq(Step)
        /\ (\A b \in Steps(f) : b[1] \in {"partial", "throw"} \/ (b[1] = "delete" /\ b[2] = fs))
        /\ "merged" \notin Kinds(Steps(f)) /\ "ckpt" \notin Kinds(Steps(f))
    <3>1. Names(f) = {"delete", "partial", "throw"} /\ f \in Seq(Step) /\ Ordered(f)
      BY ONLY <2>1, <2>2, CompoundFailSteps
    <3>2. \A b \in Steps(f) : b[1] \in {"partial", "throw"} \/ (b[1] = "delete" /\ b[2] = fs)
      <4>1. Steps(f) = {<<"delete", fs>>, <<"partial">>, <<"throw", "caller">>}
        BY ONLY <2>1, <2>2, CompoundFailSteps
      <4> QED
        BY <4>1
    <3>3. "merged" \notin Kinds(Steps(f)) /\ "ckpt" \notin Kinds(Steps(f))
      BY ONLY <3>1, KindsAre
    <3> QED
      BY ONLY <3>1, <3>2, <3>3
  <2> QED
    BY <1>2, <2>3
<1>4. PICK a, S, t, w : a = Head(op.todo) /\ S = Steps(op.todo) /\ t = Tail(op.todo) /\ w = World
  OBVIOUS
<1>5. /\ FilesIn(infos) \subseteq dir /\ FilesIn(infos) \subseteq D!Named(commits, last)
      /\ held # {} => Writing(merge)
      /\ merge.stage = "compound" => Cfs(merge.out.name) \in dir
  <2>1. HeadOf(op.todo) \in {"segment", "cfs"} /\ a = Head(op.todo) /\ t = Tail(op.todo) /\ S = Steps(op.todo)
    BY <1>4
  <2>2. op.todo # <<>>
    OBVIOUS
  <2> QED
    BY ONLY IInv, FInv, DP!IInv, <2>1, <2>2, BindFollows
<1>6. /\ w.safe = dir /\ w.base = D!Named(commits, last) /\ w.ref = D!Referenced
      /\ w.held = held /\ w.counter = counter /\ w.buf = buf /\ w.merge = merge
      /\ w.status = status /\ Sound(infos, S, w)
  BY <1>4, PartsOf
<1>7. /\ w2.safe = dir' /\ w2.base = D!Named(commits, last) /\ w2.ref = D!Referenced
      /\ w2.held = held /\ w2.counter = counter /\ w2.buf = buf /\ w2.merge = merge
      /\ w2.status = status
  BY WorldThen
<1>8. Alone(merge, F) => merge.stage \in {"committed", "compound"}
  <2>1. <<"merged", "committed">>[1] = "merged"
    OBVIOUS
  <2> QED
    BY <1>3, <2>1 DEF Alone, Kinds
<1>9. FilesSound(infos, F, w2)
  <2>1. /\ \A i \in DOMAIN infos : /\ infos[i].store < counter
                                   /\ Writing(merge) => infos[i].store # merge.out.name
        /\ buf.store # None => Cfx(buf.store) \notin FilesIn(infos)
    BY <1>6 DEF Sound, FilesSound
  <2> QED
    BY <1>1, <1>5, <1>7, <1>8, <2>1 DEF FilesSound
<1>10. \A b \in F : Ready(b, F, infos, w2)
  BY <1>1, <1>3, <1>7, <1>8 DEF Ready, DropReady
<1> QED
  BY <1>2, <1>5, <1>7, <1>9, <1>10 DEF Sound

LEMMA FlushCompoundSafe ==
  ASSUME IInv, FInv, DP!IInv, IInv', FlushCompound
  PROVE  [DeleterStep]_(D!vars) /\ FInv'
PROOF
<1>1. op.todo # <<>> /\ HeadOf(op.todo) = "cfs"
  BY HeadAt DEF FlushCompound
<1>2. PICK a, S, t, w, w2 : /\ a = Head(op.todo) /\ S = Steps(op.todo) /\ t = Tail(op.todo)
                            /\ w = World /\ w2 = World'
  OBVIOUS
<1>3. PICK n, fs, f, js, o2 : /\ n = a[2] /\ fs = {Cfs(n)}
                              /\ f = <<<<"delete", fs>>, <<"partial">>, <<"throw", "caller">>>>
                              /\ js = infos' /\ o2 = op'
  OBVIOUS
<1>4. /\ a[1] = "cfs" /\ a \in S
      /\ t \in Seq(Step) /\ Ordered(t) /\ Names(t) \subseteq {"bind"}
      /\ \A b \in Steps(t) : b[1] = "bind"
      /\ Kinds(S) \subseteq {a[1], "bind"}
      /\ Up /\ status \notin {"closed", "opening"}
      /\ FilesIn(infos) \subseteq dir /\ FilesIn(infos) \subseteq D!Named(commits, last)
      /\ held # {} => Writing(merge)
      /\ merge.stage = "compound" => Cfs(merge.out.name) \in dir
  <2>1. HeadOf(op.todo) \in {"segment", "cfs"} /\ a = Head(op.todo) /\ t = Tail(op.todo) /\ S = Steps(op.todo)
    BY <1>1, <1>2
  <2>2. a[1] = HeadOf(op.todo) /\ HeadOf(op.todo) = "cfs"
    BY ONLY IInv, FInv, DP!IInv, <1>1, <2>1, BindFollows
  <2> QED
    BY ONLY IInv, FInv, DP!IInv, <1>1, <2>1, <2>2, BindFollows
<1>5. /\ w.safe = dir /\ w.base = D!Named(commits, last) /\ w.ref = D!Referenced
      /\ w.held = held /\ w.counter = counter /\ w.buf = buf /\ w.merge = merge
      /\ w.status = status
      /\ Sound(infos, S, w) /\ BufSoundIn(S, w) /\ MergeSoundIn(infos, w)
      /\ BufShape(buf, counter) /\ MergeShape(merge, counter, buf.seg)
      /\ ListOK(infos, counter) /\ counter \in Nat
  BY <1>2, PartsOf
<1>6. /\ n \in Name /\ Cfs(n) \notin D!Referenced \cup FilesIn(infos)
      /\ merge.stage \in {"committed", "compound"} =>
           Cfs(merge.out.name) \notin D!Referenced \cup FilesIn(infos) \cup {Cfs(n)}
  <2>1. n = Head(op.todo)[2]
    BY <1>2, <1>3
  <2> QED
    BY <1>1, <2>1, CfsFacts
<1>7. /\ UNCHANGED <<disk, pinned, deleter, status, autoCommit, gen, lastGen, counter, rollback, buf,
                     merge>>
      /\ dir' = dir \cup {Cfs(n)}
      /\ js = [i \in DOMAIN infos |-> IF infos[i].name = n THEN [infos[i] EXCEPT !.cfs = TRUE] ELSE infos[i]]
      /\ o2 = Recommit(op, CommitSteps \o t, infos, f)
  BY <1>2, <1>3 DEF FlushCompound, Recommit
<1>8. o2.todo = CommitSteps \o t /\ o2.undo = infos /\ o2.onFail = f
  BY <1>7, Types DEF Recommit, IInv, OpOK, OpFits, OpShape
<1>9. /\ f \in Seq(Step) /\ Ordered(f) /\ <<"ckpt", TRUE>> \notin Steps(f)
      /\ Names(f) = {"delete", "partial", "throw"}
  <2>1. n \in Name /\ fs = {Cfs(n)} /\ f = <<<<"delete", fs>>, <<"partial">>, <<"throw", "caller">>>>
    BY <1>3, <1>6
  <2> QED
    BY ONLY <2>1, CompoundFailSteps
<1>10. PICK S2 : S2 = Steps(o2.todo)
  OBVIOUS
<1>11. dir \subseteq dir' /\ Cfs(n) \in dir' /\ \A g \in dir' : g \in dir \/ g[1] # "segments"
  BY <1>7, Fields
<1>12. /\ [DeleterStep]_(D!vars)
       /\ RollbackSound' /\ NamesBelow' /\ DiskSound' /\ LastOK' /\ WrittenOK' /\ OrderOK' /\ Clean'
       /\ "ckpt" \in Kinds(S2)
       /\ \A b \in S2 : b \in Steps(t) \/ b[1] \in {"write", "ckpt"}
  <2>1. op'.todo = CommitSteps \o t /\ op'.onFail = f
    BY <1>3, <1>8
  <2>2. /\ Names(t) \cap {"ckpt", "ctor", "write", "finish", "segment", "close"} = {}
        /\ Names(f) \cap {"ctor", "close", "segment", "cfs"} = {}
    BY <1>4, <1>9
  <2>3. HeadOf(op.todo) \in {"idle", "segment", "cfs"}
    BY <1>1
  <2> QED
    BY <1>3, <1>4, <1>7, <1>9, <1>10, <1>11, <2>1, <2>2, <2>3, CommitGoes
<1>13. \A b \in S2 : b[1] \in {"bind", "write", "ckpt"}
  BY <1>4, <1>12
<1>14. /\ w2.safe = dir' /\ w2.base = D!Named(commits, last) /\ w2.ref = D!Referenced
       /\ w2.held = held /\ w2.counter = counter /\ w2.buf = buf /\ w2.merge = merge
       /\ w2.status = status
  BY <1>2, <1>7, WorldThen
<1>15. /\ DOMAIN js = DOMAIN infos
       /\ \A i \in DOMAIN infos :
            /\ js[i].name = infos[i].name /\ js[i].store = infos[i].store
            /\ \A g \in FileSet(js[i]) : g \in FileSet(infos[i]) \/ g = Cfs(n)
  <2>1. \A i \in DOMAIN infos : infos[i] \in SegmentInfos
    BY Types
  <2>2. \A i \in DOMAIN infos :
          \/ js[i] = infos[i]
          \/ infos[i].name = n /\ js[i] = [infos[i] EXCEPT !.cfs = TRUE]
    BY <1>7
  <2>3. SUFFICES ASSUME NEW i \in DOMAIN infos
        PROVE  /\ js[i].name = infos[i].name /\ js[i].store = infos[i].store
               /\ \A g \in FileSet(js[i]) : g \in FileSet(infos[i]) \/ g = Cfs(n)
    BY <1>7
  <2>4. CASE js[i] = infos[i]
    BY <2>4
  <2>5. CASE infos[i].name = n /\ js[i] = [infos[i] EXCEPT !.cfs = TRUE]
    <3>1. /\ js[i].name = infos[i].name /\ js[i].store = infos[i].store /\ js[i].cfs
          /\ js[i].storeCfs = infos[i].storeCfs /\ js[i].delGen = infos[i].delGen
      BY <2>1, <2>5 DEF SegmentInfos
    <3> QED
      BY <2>5, <3>1 DEF FileSet
  <2> QED
    BY <2>2, <2>4, <2>5
<1>16. ListOK(js, counter)
  BY <1>3, <1>7 DEF IInv, InfosOK, Fits
<1>17. \A g \in FilesIn(js) : g \in FilesIn(infos) \/ g = Cfs(n)
  <2>1. \A i \in DOMAIN infos : FileSet(infos[i]) \subseteq FilesIn(infos)
    BY <1>5, FilesKinds
  <2>2. \A g \in FilesIn(js) : \E k \in DOMAIN js : g \in FileSet(js[k])
    BY <1>16, FilesKinds
  <2> QED
    BY <1>15, <2>1, <2>2
<1>18. Alone(merge, S2) => merge.stage \in {"committed", "compound"}
  <2>1. <<"merged", "committed">>[1] = "merged"
    OBVIOUS
  <2> QED
    BY <1>13, <2>1 DEF Alone
<1>19. FilesSound(js, S2, w2)
  <2>1. FilesIn(js) \subseteq dir'
    BY <1>4, <1>11, <1>17
  <2>2. \A i \in DOMAIN js : /\ js[i].store < counter
                             /\ Writing(merge) => js[i].store # merge.out.name
    BY <1>5, <1>15 DEF Sound, FilesSound
  <2>3. buf.store # None => Cfx(buf.store) \notin FilesIn(js)
    <3>1. Cfx(buf.store)[1] = "cfx" /\ Cfs(n)[1] = "cfs"
      BY Fields
    <3> QED
      BY <1>5, <1>17, <3>1 DEF Sound, FilesSound
  <2>4. Alone(merge, S2) => Cfs(merge.out.name) \notin D!Referenced \cup FilesIn(js)
    BY <1>6, <1>17, <1>18
  <2> QED
    BY <1>12, <1>14, <2>1, <2>2, <2>3, <2>4 DEF FilesSound
<1>20. Sound(js, S2, w2)
  <2>1. \A b \in S2 : Ready(b, S2, js, w2)
    BY <1>13 DEF Ready
  <2> QED
    BY <1>4, <1>11, <1>14, <1>19, <2>1 DEF Sound
<1>21. Sound(infos, Steps(f), w2)
  <2>1. n = Head(op.todo)[2] /\ UNCHANGED <<deleter, buf, merge, counter, status>>
    BY <1>2, <1>3, <1>7
  <2>2. fs = {Cfs(n)} /\ f = <<<<"delete", fs>>, <<"partial">>, <<"throw", "caller">>>>
    BY <1>3
  <2> QED
    BY <1>1, <1>2, <1>11, <2>1, <2>2, CompoundFailSound
<1>22. BufSoundIn(S2, w2)
  <2>1. "segment" \notin Kinds(S)
    BY <1>4
  <2> QED
    BY <1>5, <1>11, <1>14, <2>1 DEF BufSoundIn
<1>23. MergeSoundIn(js, w2)
  <2>1. merge.stage = "init" /\ ~merge.stores =>
          \A i \in DOMAIN js : js[i].name = merge.clone[1].name => js[i].store # None
    BY <1>5, <1>15 DEF MergeSoundIn
  <2>2. merge.stage = "built" => /\ Core(merge.out.name) \in dir'
                                 /\ merge.stores => Store(merge.out.name) \in dir'
    BY <1>5, <1>11 DEF MergeSoundIn
  <2>3. counter <= counter
    BY <1>5
  <2> QED
    BY <1>5, <1>14, <2>1, <2>2, <2>3, MergeSoundStill
<1>24. InfosSound' /\ UndoSound' /\ BufSound' /\ MergeSound'
  BY <1>2, <1>3, <1>8, <1>10, <1>20, <1>21, <1>22, <1>23 DEF InfosSound, UndoSound, BufSound, MergeSound
<1> QED
  BY <1>12, <1>24 DEF FInv

LEMMA FlushCompoundFailsSafe ==
  ASSUME IInv, FInv, DP!IInv, IInv', FlushCompoundFails
  PROVE  [DeleterStep]_(D!vars) /\ FInv'
PROOF
<1>1. op.todo # <<>> /\ HeadOf(op.todo) = "cfs"
  BY HeadAt DEF FlushCompoundFails
<1>2. PICK a, S, t, w, w2 : /\ a = Head(op.todo) /\ S = Steps(op.todo) /\ t = Tail(op.todo)
                            /\ w = World /\ w2 = World'
  OBVIOUS
<1>3. PICK n, fs, f, o2 : /\ n = a[2] /\ fs = {Cfs(n)} /\ o2 = op'
                          /\ f = <<<<"delete", fs>>, <<"partial">>, <<"throw", "caller">>>>
  OBVIOUS
<1>4. a[1] = "cfs" /\ Kinds(S) \subseteq {a[1], "bind"} /\ Up
  <2>1. HeadOf(op.todo) \in {"segment", "cfs"} /\ a = Head(op.todo) /\ t = Tail(op.todo) /\ S = Steps(op.todo)
    BY <1>1, <1>2
  <2>2. a[1] = HeadOf(op.todo) /\ HeadOf(op.todo) = "cfs"
    BY ONLY IInv, FInv, DP!IInv, <1>1, <2>1, BindFollows
  <2> QED
    BY ONLY IInv, FInv, DP!IInv, <1>1, <2>1, <2>2, BindFollows
<1>5. /\ w.safe = dir /\ w.base = D!Named(commits, last) /\ w.ref = D!Referenced
      /\ w.held = held /\ w.counter = counter /\ w.buf = buf /\ w.merge = merge
      /\ w.status = status /\ BufSoundIn(S, w) /\ MergeSoundIn(infos, w)
      /\ MergeShape(merge, counter, buf.seg) /\ counter \in Nat
      /\ OpShape(op) /\ OrderShape(op, status, autoCommit)
  BY <1>2, PartsOf
<1>6. n \in Name /\ n = Head(op.todo)[2]
  <2>1. n = Head(op.todo)[2]
    BY <1>2, <1>3
  <2> QED
    BY <1>1, <2>1, CfsFacts
<1>7. /\ UNCHANGED <<disk, pinned, deleter, status, autoCommit, infos, gen, lastGen, counter, rollback,
                     buf, merge>>
      /\ dir' = dir \cup {Cfs(n)} /\ o2 = Going(op, f)
  BY <1>2, <1>3 DEF FlushCompoundFails, GoOn, Going, si
<1>8. /\ f \in Seq(Step) /\ Ordered(f) /\ Script(f) /\ <<"ckpt", TRUE>> \notin Steps(f)
      /\ Names(f) = {"delete", "partial", "throw"} /\ f # <<>> /\ HeadOf(f) = "delete"
      /\ Head(f) # <<"ckpt", TRUE>>
  <2>1. n \in Name /\ fs = {Cfs(n)} /\ f = <<<<"delete", fs>>, <<"partial">>, <<"throw", "caller">>>>
    BY <1>3, <1>6
  <2> QED
    BY ONLY <2>1, CompoundFailSteps
<1>9. o2.todo = f
  BY <1>5, <1>7, <1>8, WentOn
<1>10. OrderShape(o2, status, autoCommit)
  <2>1. PICK o, st, ac : o = op /\ st = status /\ ac = autoCommit
    OBVIOUS
  <2>2. OpShape(o) /\ OrderShape(o, st, ac) /\ o2 = Going(o, f)
    BY <1>5, <1>7, <2>1
  <2>3. Names(f) \cap {"ctor", "write", "finish", "segment"} = {}
    BY <1>8
  <2>4. OrderShape(o2, st, ac)
    BY ONLY <1>8, <2>2, <2>3, OrderTurned
  <2> QED
    BY <2>1, <2>4
<1>11. dir \subseteq dir' /\ \A g \in dir' : g \in dir \/ g[1] # "segments"
  BY <1>7, Fields
<1>12. /\ [DeleterStep]_(D!vars)
       /\ RollbackSound' /\ NamesBelow' /\ DiskSound' /\ LastOK' /\ WrittenOK' /\ OrderOK' /\ Clean'
  <2>1. /\ HeadOf(op'.todo) \notin {"finish", "ctor"} /\ Head(op'.todo) # <<"ckpt", TRUE>>
        /\ OrderShape(op', status', autoCommit)
    BY <1>3, <1>7, <1>8, <1>9, <1>10
  <2> QED
    BY <1>1, <1>4, <1>7, <1>11, <2>1, CommitRest
<1>13. Sound(infos, Steps(f), w2)
  <2>1. fs = {Cfs(n)} /\ f = <<<<"delete", fs>>, <<"partial">>, <<"throw", "caller">>>>
    BY <1>3
  <2> QED
    BY <1>1, <1>2, <1>6, <1>7, <1>11, <2>1, CompoundFailSound
<1>14. /\ w2.safe = dir' /\ w2.base = D!Named(commits, last) /\ w2.ref = D!Referenced
       /\ w2.held = held /\ w2.counter = counter /\ w2.buf = buf /\ w2.merge = merge
       /\ w2.status = status
  BY <1>2, <1>7, WorldThen
<1>15. BufSoundIn(Steps(f), w2)
  <2>1. "segment" \notin Kinds(S)
    BY <1>4
  <2> QED
    BY <1>5, <1>11, <1>14, <2>1 DEF BufSoundIn
<1>16. MergeSoundIn(infos, w2)
  <2>1. merge.stage = "init" /\ ~merge.stores =>
          \A i \in DOMAIN infos : infos[i].name = merge.clone[1].name => infos[i].store # None
    BY <1>5 DEF MergeSoundIn
  <2>2. merge.stage = "built" => /\ Core(merge.out.name) \in dir'
                                 /\ merge.stores => Store(merge.out.name) \in dir'
    BY <1>5, <1>11 DEF MergeSoundIn
  <2>3. counter <= counter
    BY <1>5
  <2> QED
    BY <1>5, <1>14, <2>1, <2>2, <2>3, MergeSoundStill
<1>17. UndoSound'
  <2>1. ~Undoes(o2)
    BY <1>8, <1>9 DEF Undoes
  <2> QED
    BY <1>3, <2>1 DEF UndoSound, Undoing
<1>18. InfosSound' /\ BufSound' /\ MergeSound'
  BY <1>2, <1>3, <1>7, <1>9, <1>13, <1>15, <1>16 DEF InfosSound, BufSound, MergeSound
<1> QED
  BY <1>12, <1>17, <1>18 DEF FInv

LEMMA FlushFailsSafe ==
  ASSUME IInv, FInv, DP!IInv, IInv', FlushFails
  PROVE  [DeleterStep]_(D!vars) /\ FInv'
PROOF
<1>1. op.todo # <<>> /\ HeadOf(op.todo) = "segment"
  BY HeadAt DEF FlushFails
<1>2. PICK a, S, t, w, w2 : /\ a = Head(op.todo) /\ S = Steps(op.todo) /\ t = Tail(op.todo)
                            /\ w = World /\ w2 = World'
  OBVIOUS
<1>3. PICK n, f, o2, b2 : n = buf.seg /\ o2 = op' /\ b2 = buf' /\ f = Unflush({})
  OBVIOUS
<1>4. /\ Up /\ status \notin {"closed", "opening"}
      /\ FilesIn(infos) \subseteq dir /\ FilesIn(infos) \subseteq D!Named(commits, last)
      /\ held # {} => Writing(merge)
      /\ Alone(merge, S) <=> merge.stage \in {"committed", "compound"}
      /\ merge.stage = "compound" => Cfs(merge.out.name) \in dir
  <2>1. HeadOf(op.todo) \in {"segment", "cfs"} /\ a = Head(op.todo) /\ t = Tail(op.todo) /\ S = Steps(op.todo)
    BY <1>1, <1>2
  <2> QED
    BY ONLY IInv, FInv, DP!IInv, <1>1, <2>1, BindFollows
<1>5. /\ w.safe = dir /\ w.base = D!Named(commits, last) /\ w.ref = D!Referenced
      /\ w.held = held /\ w.counter = counter /\ w.buf = buf /\ w.merge = merge
      /\ w.status = status /\ Sound(infos, S, w) /\ BufSoundIn(S, w) /\ MergeSoundIn(infos, w)
      /\ BufShape(buf, counter) /\ MergeShape(merge, counter, buf.seg) /\ counter \in Nat
      /\ OpShape(op) /\ OrderShape(op, status, autoCommit)
  BY <1>2, PartsOf
<1>6. /\ UNCHANGED <<disk, pinned, deleter, status, autoCommit, infos, gen, lastGen, counter, rollback,
                     merge>>
      /\ dir' = dir \cup {Core(n)} /\ o2 = Going(op, f) /\ buf.docs # {}
      /\ b2 = [EmptyBuf EXCEPT !.closed = buf.closed]
  BY <1>3 DEF FlushFails, GoOn, Going, si
<1>7. b2.docs = {} /\ b2.seg = None /\ b2.store = None /\ None < counter
  <2>1. None < counter
    BY <1>5 DEF None
  <2> QED
    BY <1>6, <2>1 DEF EmptyBuf
<1>8. /\ n \in Name /\ n # None /\ n < counter
      /\ merge.stage \notin {"none", "init"} => n # merge.out.name
  <2>1. n \in Name /\ n < counter
    BY <1>3, <1>5, <1>6 DEF BufShape
  <2>2. merge.stage \notin {"none", "init"} => n # merge.out.name
    BY <1>3, <1>5 DEF MergeSoundIn
  <2> QED
    BY <2>1, <2>2 DEF Name, None
<1>9. /\ f \in Seq(Step) /\ Ordered(f) /\ Script(f) /\ <<"ckpt", TRUE>> \notin Steps(f)
      /\ Names(f) \subseteq {"delete", "partial", "ckpt", "refresh", "throw"} /\ f # <<>>
      /\ HeadOf(f) \in {"delete", "partial"} /\ Head(f) # <<"ckpt", TRUE>>
      /\ \A b \in Steps(f) : b[1] \in {"partial", "ckpt", "throw"} \/ b = <<"refresh", n>>
      /\ "ckpt" \in Kinds(Steps(f)) /\ "merged" \notin Kinds(Steps(f))
  <2>1. buf.seg \in Name \cup {None}
    BY <1>3, <1>8
  <2>2. PICK e : e = {} /\ e \in SUBSET File /\ f = Unflush(e)
    BY <1>3
  <2> QED
    BY <1>3, <2>1, <2>2, UnflushSteps
<1>11. o2.todo = f
  BY <1>5, <1>6, <1>9, WentOn
<1>12. OrderShape(o2, status, autoCommit)
  <2>1. PICK o, st, ac : o = op /\ st = status /\ ac = autoCommit
    OBVIOUS
  <2>2. OpShape(o) /\ OrderShape(o, st, ac) /\ o2 = Going(o, f)
    BY <1>5, <1>6, <2>1
  <2>3. Names(f) \cap {"ctor", "write", "finish", "segment"} = {}
    BY <1>9
  <2>4. OrderShape(o2, st, ac)
    BY ONLY <1>9, <2>2, <2>3, OrderTurned
  <2> QED
    BY <2>1, <2>4
<1>13. dir \subseteq dir' /\ \A g \in dir' : g \in dir \/ g[1] # "segments"
  BY <1>6, Fields
<1>14. /\ [DeleterStep]_(D!vars)
       /\ RollbackSound' /\ NamesBelow' /\ DiskSound' /\ LastOK' /\ WrittenOK' /\ OrderOK' /\ Clean'
  <2>2. /\ HeadOf(op'.todo) \notin {"finish", "ctor"} /\ Head(op'.todo) # <<"ckpt", TRUE>>
        /\ OrderShape(op', status', autoCommit)
    BY <1>3, <1>6, <1>9, <1>11, <1>12
  <2> QED
    BY <1>1, <1>4, <1>6, <1>13, <2>2, CommitRest
<1>15. /\ w2.safe = dir' /\ w2.base = D!Named(commits, last) /\ w2.ref = D!Referenced
       /\ w2.held = held /\ w2.counter = counter /\ w2.buf = b2 /\ w2.merge = merge
       /\ w2.status = status
  BY <1>2, <1>3, <1>6, WorldThen
<1>16. PICK F : F = Steps(f)
  OBVIOUS
<1>17. Alone(merge, F) => merge.stage \in {"committed", "compound"}
  <2>1. <<"merged", "committed">>[1] = "merged"
    OBVIOUS
  <2> QED
    BY <1>9, <1>16, <2>1 DEF Alone, Kinds
<1>18. FilesSound(infos, F, w2)
  <2>1. \A i \in DOMAIN infos : /\ infos[i].store < counter
                                /\ Writing(merge) => infos[i].store # merge.out.name
    BY <1>5 DEF Sound, FilesSound
  <2>2. Alone(merge, F) => Cfs(merge.out.name) \notin D!Referenced \cup FilesIn(infos)
    BY <1>4, <1>5, <1>17 DEF Sound, FilesSound
  <2> QED
    BY <1>4, <1>7, <1>9, <1>13, <1>15, <1>16, <2>1, <2>2 DEF FilesSound
<1>19. \A b \in F : Ready(b, F, infos, w2)
  <2>1. SUFFICES ASSUME NEW b \in F PROVE Ready(b, F, infos, w2)
    OBVIOUS
  <2>2. CASE b[1] \in {"partial", "ckpt", "throw"}
    BY <2>2 DEF Ready
  <2>3. CASE b = <<"refresh", n>>
    <3>1. b[1] = "refresh" /\ b[2] = n
      BY <2>3
    <3>2. Writing(merge) => merge.stage \notin {"none", "init"}
      BY DEF Writing
    <3>3. RefreshReady(n, F, w2)
      BY <1>7, <1>8, <1>15, <1>17, <3>2 DEF RefreshReady
    <3> QED
      BY <3>1, <3>3 DEF Ready
  <2> QED
    BY <1>9, <1>16, <2>2, <2>3
<1>20. Sound(infos, F, w2)
  BY <1>4, <1>13, <1>15, <1>18, <1>19 DEF Sound
<1>21. BufSoundIn(F, w2)
  BY <1>7, <1>15 DEF BufSoundIn
<1>22. MergeSoundIn(infos, w2)
  <2>1. merge.stage = "init" /\ ~merge.stores =>
          \A i \in DOMAIN infos : infos[i].name = merge.clone[1].name => infos[i].store # None
    BY <1>5 DEF MergeSoundIn
  <2>2. merge.stage = "built" => /\ Core(merge.out.name) \in dir'
                                 /\ merge.stores => Store(merge.out.name) \in dir'
    BY <1>5, <1>13 DEF MergeSoundIn
  <2>3. counter <= counter
    BY <1>5
  <2> QED
    BY <1>5, <1>7, <1>15, <2>1, <2>2, <2>3, MergeSoundStill
<1>23. UndoSound'
  <2>1. ~Undoes(o2)
    BY <1>9, <1>11 DEF Undoes
  <2> QED
    BY <1>3, <2>1 DEF UndoSound, Undoing
<1>24. InfosSound' /\ BufSound' /\ MergeSound'
  BY <1>2, <1>3, <1>6, <1>11, <1>16, <1>20, <1>21, <1>22 DEF InfosSound, BufSound, MergeSound
<1> QED
  BY <1>14, <1>23, <1>24 DEF FInv

-----------------------------------------------------------------------------
(* Opening.                                                                *)

\* Segments whose files are there are in order when nothing is buffered or
\* merged.
LEMMA FreshSound ==
  ASSUME NEW is, NEW S, NEW w, w.buf = EmptyBuf, w.merge = NoMerge, w.held = {},
         w.counter \in Nat, FilesIn(is) \subseteq w.safe,
         w.status \in {"closed", "opening"} \/ FilesIn(is) \subseteq w.base,
         \A i \in DOMAIN is : is[i].store < w.counter,
         Kinds(S) \subseteq {"ctor", "write", "finish", "throw"}
  PROVE  Sound(is, S, w) /\ BufSoundIn(S, w) /\ MergeSoundIn(is, w)
PROOF
<1>1. /\ w.buf.store = None /\ w.buf.seg = None /\ w.buf.docs = {} /\ w.merge.stage = "none"
  BY DEF EmptyBuf, NoMerge
<1>2. \A a \in S : a[1] \in {"ctor", "write", "finish", "throw"}
  BY DEF Kinds
<1>3. ~Alone(w.merge, S)
  <2>1. <<"merged", "committed">>[1] = "merged"
    OBVIOUS
  <2> QED
    BY <1>1, <1>2, <2>1 DEF Alone
<1>4. ~Writing(w.merge)
  BY <1>1 DEF Writing
<1>5. FilesSound(is, S, w)
  BY <1>1, <1>3, <1>4 DEF FilesSound
<1>6. \A a \in S : Ready(a, S, is, w)
  BY <1>2 DEF Ready
<1>7. Sound(is, S, w)
  BY <1>1, <1>5, <1>6 DEF Sound
<1>8. BufSoundIn(S, w)
  <2>1. None < w.counter
    BY DEF None
  <2> QED
    BY <1>1, <2>1 DEF BufSoundIn
<1>9. MergeSoundIn(is, w)
  BY <1>1, <1>4 DEF MergeSoundIn
<1> QED
  BY <1>7, <1>8, <1>9

\* The files of the commit point of a list of segments.
LEMMA PointFiles ==
  ASSUME NEW g \in Gen, g \in DOMAIN disk, disk[g].complete, NEW is, is = disk[g].infos,
         NEW n, ListOK(is, n)
  PROVE  D!Range(D!CommitPoint(g).files) = {SegmentsFile(g)} \cup FilesIn(is)
PROOF
<1>1. PICK fs : fs = InfosFiles(is)
  OBVIOUS
<1>2. fs \in Seq(File) /\ D!Range(fs) = FilesIn(is)
  BY <1>1, VectorsOfFiles
<1>3. D!CommitPoint(g).files = <<SegmentsFile(g)>> \o fs
  BY <1>1 DEF D!CommitPoint, FilesOn
<1>4. SegmentsFile(g) \in File
  BY Generations
<1>5. DP!Range(<<SegmentsFile(g)>> \o fs) = {SegmentsFile(g)} \cup DP!Range(fs)
  BY <1>2, <1>4, DP!CommitPointFiles, Generations DEF DP!Vector
<1> QED
  BY <1>2, <1>3, <1>5, SameNames

\* The constructor keeps one commit, the newest.
LEMMA OpenKeepsOne ==
  ASSUME NEW g, D!Readable(g), g \in Int, D!OpenEffect(g, {})
  PROVE  /\ commits' = {D!CommitPoint(g)} /\ last' = <<>> /\ deletable' = {}
         /\ dir' \subseteq dir
PROOF
<1>1. PICK F : F = {D!CommitPoint(h) : h \in {n \in DOMAIN Stored : n <= g /\ D!Readable(n)}}
  OBVIOUS
<1>2. PICK G : G = {c \in F : c.id # g}
  OBVIOUS
<1>3. PICK R : R = D!IncRef([f \in dir |-> 0], F, <<>>)
  OBVIOUS
<1>4. /\ commits' = F \ G /\ last' = <<>>
      /\ D!RemoveFiles((dir \ D!Named(F, <<>>)) \cup D!Freed(R, G, <<>>), {}, {})
  BY <1>1, <1>2, <1>3 DEF D!OpenEffect, Stored
<1>5. deletable' = {} /\ dir' \subseteq dir
  BY <1>4 DEF D!RemoveFiles
<1>6. \A h : D!CommitPoint(h).id = h
  BY DEF D!CommitPoint
<1>7. g \in DOMAIN Stored
  BY DEF D!Readable, Stored
<1>8. D!CommitPoint(g) \in F
  BY <1>1, <1>7
<1>9. F \ G = {D!CommitPoint(g)}
  BY <1>1, <1>2, <1>6, <1>8
<1> QED
  BY <1>4, <1>5, <1>9

\* The deleter is constructed, for the newest commit.
LEMMA ConstructDeleterSafe ==
  ASSUME IInv, FInv, DP!IInv, IInv', ConstructDeleter
  PROVE  [DeleterStep]_(D!vars) /\ FInv'
PROOF
<1>1. op.todo # <<>> /\ HeadOf(op.todo) = "ctor" /\ Advance /\ status' = "open"
  BY HeadAt DEF ConstructDeleter
<1>2. PICK o, o2, st, ac : o = op /\ o2 = op' /\ st = status /\ ac = autoCommit
  OBVIOUS
<1>3. Popping(o, o2, st, ac) /\ OrderShape(o, st, ac)
  BY <1>1, <1>2, Onward DEF FInv, OrderOK
<1>4. status = "opening"
  BY <1>1, <1>2, <1>3 DEF Popping, OrderShape
<1>5. /\ buf = EmptyBuf /\ merge = NoMerge
      /\ Names(op.todo) \subseteq {"ctor", "write", "finish", "throw"}
  BY <1>4 DEF IInv, StartOK, StartShape
<1>6. ~Up /\ Up' /\ held = {} /\ Busy = {} /\ pinned = {}
  BY <1>1, <1>4, DeleterKnows DEF Up
<1>7. UNCHANGED <<disk, pinned, held, autoCommit, infos, gen, lastGen, counter, rollback, buf, merge>>
  BY DEF ConstructDeleter, si
<1>8. D!Newest(gen) /\ D!Readable(gen) /\ disk[gen].infos = infos
  BY <1>1, HeadAt DEF FInv, WrittenOK, D!Newest
<1>9. gen \in DOMAIN disk /\ disk[gen].complete /\ SegmentsFile(gen) \in dir
  BY <1>8 DEF D!Readable
<1>10. gen \in Gen /\ gen \in Int /\ ListOK(infos, counter) /\ counter \in Nat
  BY <1>9, Generations, Types DEF IInv, DiskOK, InfosOK, Fits
<1>11. Names(o2.todo) \subseteq {"throw"}
  <2>1. Names(o2.todo) \subseteq {"ctor", "throw"}
    BY <1>2, <1>3, <1>5 DEF Popping, Firsts
  <2>2. Head(o.todo)[1] = "ctor"
    BY <1>1, <1>2 DEF HeadOf
  <2>3. "ctor" \notin Names(o2.todo)
    <3>1. SUFFICES ASSUME NEW b \in Steps(o2.todo), b[1] = "ctor" PROVE FALSE
      BY KindsAre DEF Kinds
    <3>2. Before(Head(o.todo), b)
      BY <1>3 DEF Popping
    <3> QED
      BY <2>2, <3>1, <3>2 DEF Before
  <2> QED
    BY <2>1, <2>3
<1>12. <<"ckpt", TRUE>>[1] = "ckpt"
  OBVIOUS
<1>13. Unreg = 0 /\ Unreg' = 0 /\ Stored' = Stored
  <2>1. Unreg = 0
    BY <1>1, <1>12 DEF Unreg, HeadOf
  <2>2. op'.todo = <<>> \/ Head(op'.todo) # <<"ckpt", TRUE>>
    BY <1>1, <1>2, <1>3 DEF Popping
  <2> QED
    BY <1>7, <2>1, <2>2 DEF Unreg, Stored, FilesOn
<1>14. D!OpenEffect(gen, {})
  BY <1>6 DEF ConstructDeleter
<1>15. [DeleterStep]_(D!vars)
  <2>1. D!OpenEffect(gen, Busy)
    BY DEF ConstructDeleter
  <2>2. D!Open(gen, Busy)
    BY <1>6, <1>7, <1>8, <1>13, <2>1 DEF D!Open, Stored, Up, Unreg
  <2> QED
    BY <2>2 DEF DeleterStep
<1>16. (D!Referenced)' \subseteq dir'
  BY <1>6, <1>15, Serving, ProtectedThen
<1>17. PICK point : point = D!CommitPoint(gen)
  OBVIOUS
<1>18. commits' = {point} /\ last' = <<>> /\ deletable' = {} /\ dir' \subseteq dir
  BY <1>8, <1>10, <1>14, <1>17, OpenKeepsOne
<1>19. D!Range(point.files) = {SegmentsFile(gen)} \cup FilesIn(infos)
  BY <1>8, <1>9, <1>10, <1>17, PointFiles
<1>20. (D!Referenced)' = {SegmentsFile(gen)} \cup FilesIn(infos)
       /\ D!Named(commits', last') = {SegmentsFile(gen)} \cup FilesIn(infos)
  <2>1. D!Named({point}, <<>>) = {SegmentsFile(gen)} \cup FilesIn(infos)
    BY <1>19 DEF D!Named, D!Range
  <2>2. commits' \cup held' = {point}
    BY <1>6, <1>7, <1>18
  <2> QED
    BY <1>18, <2>1, <2>2, ReferencedIs
<1>21. PICK w, w2 : w = World /\ w2 = World'
  OBVIOUS
<1>22. \A i \in DOMAIN infos : infos[i].store < counter
  <2>1. w.counter = counter /\ Sound(infos, Steps(op.todo), w)
    BY <1>21, WorldIs DEF FInv, InfosSound
  <2> QED
    BY <2>1 DEF Sound, FilesSound
<1>23. InfosSound' /\ BufSound' /\ MergeSound'
  <2>1. /\ w2.buf = EmptyBuf /\ w2.merge = NoMerge /\ w2.held = {} /\ w2.counter = counter
        /\ w2.safe = dir' /\ w2.base = D!Named(commits', last')
    BY <1>5, <1>6, <1>7, <1>21, WorldIs
  <2>2. PICK S2 : S2 = Steps(op'.todo)
    OBVIOUS
  <2>3. Kinds(S2) \subseteq {"ctor", "write", "finish", "throw"}
    BY <1>2, <1>11, <2>2, KindsAre
  <2>4. FilesIn(infos) \subseteq w2.safe /\ FilesIn(infos) \subseteq w2.base
    BY <1>16, <1>20, <2>1
  <2>5. Sound(infos, S2, w2) /\ BufSoundIn(S2, w2) /\ MergeSoundIn(infos, w2)
    BY <1>10, <1>22, <2>1, <2>3, <2>4, FreshSound
  <2> QED
    BY <1>7, <1>21, <2>2, <2>5 DEF InfosSound, BufSound, MergeSound
<1>24. UndoSound'
  BY <1>2, <1>3 DEF UndoSound, Undoing, Popping
<1>25. RollbackSound'
  <2>1. SUFFICES ASSUME ~autoCommit
                 PROVE  RollbackShape(rollback, infos, "open", counter, commits')
    BY <1>1, <1>7 DEF RollbackSound, Backable
  <2>2. Backable(autoCommit, status, op.todo)
    BY <1>1, <1>4, <2>1 DEF Backable
  <2>3. RollbackShape(rollback, infos, "opening", counter, commits)
    BY <1>4, <2>2 DEF FInv, RollbackSound
  <2>4. FilesIn(rollback) \subseteq D!Range(point.files) /\ \A i \in DOMAIN rollback : rollback[i].store < counter
    BY <1>19, <2>3 DEF RollbackShape
  <2> QED
    BY <1>18, <2>4 DEF RollbackShape
<1>26. NamesBelow'
  <2>1. SUFFICES ASSUME NEW f \in (D!Referenced)' PROVE f[1] = "segments" \/ f[2] < counter
    BY <1>7 DEF NamesBelow
  <2>2. CASE f = SegmentsFile(gen)
    BY <2>2, Fields
  <2>3. CASE f \in FilesIn(infos)
    <3>1. PICK i \in DOMAIN infos : f[2] = infos[i].name \/ f[2] = infos[i].store
      BY <1>10, <2>3, FilesKinds
    <3>2. infos[i].name < counter
      BY <1>10, <3>1, ListTypes
    <3> QED
      BY <1>22, <3>1, <3>2
  <2> QED
    BY <1>20, <2>2, <2>3
<1>27. LastOK'
  <2>1. SUFFICES ASSUME NEW g \in Gen, D!Readable(g)' \/ SegmentsFile(g) \in (D!Referenced)'
                 PROVE  g <= lastGen
    BY <1>1, <1>4, <1>7 DEF FInv, LastOK
  <2>2. CASE D!Readable(g)'
    <3>1. g \in DOMAIN Stored' /\ Stored'[g].complete /\ SegmentsFile(g) \in dir'
      BY <2>2 DEF D!Readable, Stored
    <3>2. D!Readable(g)
      BY <1>13, <1>18, <3>1 DEF D!Readable, Stored
    <3> QED
      BY <1>4, <3>2 DEF FInv, LastOK
  <2>3. CASE SegmentsFile(g) \in (D!Referenced)'
    <3>1. SegmentsFile(g) = SegmentsFile(gen)
      BY <1>10, <1>20, <2>3, Fields, FilesKinds
    <3>2. g = gen
      BY <1>10, <3>1, Generations
    <3> QED
      BY <1>4, <1>8, <3>2 DEF FInv, LastOK
  <2> QED
    BY <2>1, <2>2, <2>3
<1>28. ~At("finish")' /\ ~At("ctor")' /\ HeadOf(o2.todo) \notin {"write", "finish", "ctor"}
  <2>1. o2.todo \in Seq(Step)
    BY <1>3 DEF Popping, OpShape
  <2>2. HeadOf(o2.todo) \notin {"write", "finish", "ctor"}
    BY <1>11, <2>1, HeadName DEF HeadOf
  <2> QED
    BY <1>2, <2>2, HeadAt
<1>29. DiskSound' /\ Clean'
  BY <1>6, <1>7, <1>18, <1>28 DEF FInv, DiskSound, Clean
<1>30. WrittenOK'
  BY <1>1, <1>2, <1>3, <1>28 DEF WrittenOK, Popping
<1>31. OrderOK'
  <2>1. <<"ckpt", TRUE>> \notin Steps(o2.todo)
    <3>1. "ckpt" \notin Kinds(Steps(o2.todo))
      BY <1>11, KindsAre
    <3> QED
      BY <1>12, <3>1 DEF Kinds
  <2>2. OrderShape(o2, "open", ac)
    BY <1>3, <1>11, <1>28, <2>1 DEF Popping, OrderShape
  <2> QED
    BY <1>1, <1>2, <1>7, <2>2 DEF OrderOK
<1> QED
  BY <1>15, <1>23, <1>24, <1>25, <1>26, <1>27, <1>29, <1>30, <1>31 DEF FInv

\* segments_N of the generation that is found is the newest commit, and its
\* segments' files are there.
LEMMA FoundNewest ==
  ASSUME IInv
  PROVE  /\ FoundGen # 0 => D!Newest(FoundGen)
         /\ \A h \in Gen : D!Readable(h) => h <= (IF FoundGen # 0 THEN FoundGen ELSE CurrentGen)
PROOF
<1>1. PICK gs : gs = {g \in Gen : SegmentsFile(g) \in dir}
  OBVIOUS
<1>2. CurrentGen = IF gs = {} THEN 0 ELSE CHOOSE g \in gs : \A h \in gs : h <= g
  BY <1>1 DEF CurrentGen
<1>3. gs # {} => \A h \in gs : h <= (CHOOSE g \in gs : \A k \in gs : k <= g)
  BY <1>1, Largest
<1>4. \A h \in gs : h <= CurrentGen
  BY <1>2, <1>3
<1>5. PICK c : c = CurrentGen
  OBVIOUS
<1>6. \A h \in Gen : D!Readable(h) => h <= c
  BY <1>1, <1>4, <1>5 DEF D!Readable
<1>7. c \in Int /\ \A h \in Gen : h \in Int
  BY <1>5, CurrentGenType, Generations
<1>8. FoundGen = IF D!Readable(c) THEN c ELSE IF D!Readable(c - 1) THEN c - 1 ELSE 0
  BY <1>5 DEF FoundGen
<1>9. CASE D!Readable(c)
  <2>1. FoundGen = c
    BY <1>8, <1>9
  <2> QED
    BY <1>5, <1>6, <1>9, <2>1 DEF D!Newest
<1>10. CASE ~D!Readable(c)
  <2>1. \A h \in Gen : D!Readable(h) => h # c
    BY <1>10
  <2>2. \A h \in Gen : D!Readable(h) => h <= c - 1
    BY <1>6, <1>7, <2>1
  <2>3. FoundGen = IF D!Readable(c - 1) THEN c - 1 ELSE 0
    BY <1>8, <1>10
  <2>4. CASE D!Readable(c - 1)
    <3>1. FoundGen = c - 1
      BY <2>3, <2>4
    <3>2. PICK g : g = c - 1
      OBVIOUS
    <3>3. D!Newest(g)
      BY <2>2, <2>4, <3>2 DEF D!Newest
    <3>4. D!Newest(FoundGen)
      BY <3>1, <3>2, <3>3
    <3>5. FoundGen # 0 => \A h \in Gen : D!Readable(h) => h <= FoundGen
      BY <2>2, <3>1
    <3> QED
      BY <1>5, <1>6, <3>4, <3>5
  <2>5. CASE ~D!Readable(c - 1)
    <3>1. FoundGen = 0
      BY <2>3, <2>5
    <3> QED
      BY <1>5, <1>6, <3>1
  <2> QED
    BY <2>4, <2>5
<1> QED
  BY <1>9, <1>10

\* What the commit that is found says.
LEMMA FoundFiles ==
  ASSUME IInv, FInv, DP!IInv, FoundGen # 0
  PROVE  /\ FilesIn(disk[FoundGen].infos) \subseteq dir
         /\ \A i \in DOMAIN disk[FoundGen].infos :
              disk[FoundGen].infos[i].store < disk[FoundGen].counter
PROOF
<1>1. PICK g : g = FoundGen
  OBVIOUS
<1>2. g \in Gen /\ g \in DOMAIN disk /\ disk[g].complete /\ ListOK(disk[g].infos, disk[g].counter)
  BY <1>1, Found
<1>3. DP!Newest(g)
  BY <1>1, FoundNewest, SameCommits
<1>4. DP!Range(Stored[g].files) \subseteq dir
  BY <1>2, <1>3 DEF DP!IInv, DP!KeptIntact, DP!Kept
<1>5. Stored[g].files = InfosFiles(disk[g].infos)
  BY <1>2 DEF Stored, FilesOn
<1>6. D!Range(InfosFiles(disk[g].infos)) = FilesIn(disk[g].infos)
  BY <1>2, VectorsOfFiles
<1>7. FilesIn(disk[g].infos) \subseteq dir
  BY <1>4, <1>5, <1>6, SameNames
<1> QED
  BY <1>1, <1>2, <1>7 DEF FInv, DiskSound

\* A writer is opened on the segments is, of generation g.
LEMMA OpeningSafe ==
  ASSUME IInv, FInv, DP!IInv, IInv', status = "closed", status' = "opening",
         UNCHANGED <<dir, disk, pinned, deleter, buf, merge>>,
         NEW is, infos' = is, rollback' = is,
         NEW g \in Int, gen' = g, lastGen' = g, NEW n \in Nat, counter' = n,
         FilesIn(is) \subseteq dir, \A i \in DOMAIN is : is[i].store < n,
         \A h \in Gen : D!Readable(h) => h <= g,
         NEW o2, o2 = op', HeadOf(o2.todo) \in {"ctor", "write"},
         Names(o2.todo) \subseteq {"ctor", "write"}, Names(o2.onFail) \subseteq {"throw"},
         OrderShape(o2, "opening", autoCommit'),
         HeadOf(o2.todo) = "ctor" => D!Newest(g) /\ disk[g].infos = is,
         HeadOf(o2.todo) = "write" => is = <<>> /\ o2.undo = <<>>
  PROVE  [DeleterStep]_(D!vars) /\ FInv'
PROOF
<1>1. buf = EmptyBuf /\ merge = NoMerge /\ op.todo = <<>>
  BY DEF IInv, StartOK, StartShape
<1>2. ~Up /\ ~Up' /\ held = {} /\ D!Referenced = {} /\ pinned = {} /\ deletable = {}
  BY DeleterKnows DEF Up
<1>3. <<"ckpt", TRUE>>[1] = "ckpt"
  OBVIOUS
<1>4. Unreg = 0 /\ Unreg' = 0 /\ Stored' = Stored
  <2>1. Unreg = 0
    BY <1>1 DEF Unreg
  <2>2. o2.todo # <<>> => Head(o2.todo) # <<"ckpt", TRUE>>
    BY <1>3 DEF HeadOf
  <2> QED
    BY <2>1, <2>2 DEF Unreg, Stored, FilesOn
<1>5. [DeleterStep]_(D!vars)
  <2>1. Up' = Up
    BY DEF Up
  <2>2. UNCHANGED <<dir, disk, deleter>> /\ Unreg' = Unreg
    BY <1>4
  <2> QED
    BY <2>1, <2>2, DeleterStutters
<1>6. (D!Referenced)' = {} /\ held' = {} /\ deletable' = {} /\ commits' = commits
  <2>1. UNCHANGED <<commits, held, last, deletable>>
    BY DEF deleter
  <2> QED
    BY <1>2, <2>1, ReferencedIs
<1>7. PICK w2 : w2 = World'
  OBVIOUS
<1>8. /\ w2.buf = EmptyBuf /\ w2.merge = NoMerge /\ w2.held = {} /\ w2.counter = n
      /\ w2.safe = dir /\ w2.status = "opening"
  BY <1>1, <1>6, <1>7, WorldIs
<1>9. PICK S2, U2 : S2 = Steps(o2.todo) /\ U2 = Steps(o2.onFail)
  OBVIOUS
<1>10. Kinds(S2) = Names(o2.todo) /\ Kinds(U2) = Names(o2.onFail)
  BY <1>9, KindsAre
<1>11. Sound(is, S2, w2) /\ BufSoundIn(S2, w2) /\ MergeSoundIn(is, w2)
  BY <1>8, <1>10, FreshSound
<1>12. InfosSound' /\ BufSound' /\ MergeSound'
  BY <1>7, <1>9, <1>11 DEF InfosSound, BufSound, MergeSound
<1>13. UndoSound'
  <2>1. SUFFICES ASSUME Undoes(o2) PROVE Sound(o2.undo, U2, w2)
    BY <1>7, <1>9 DEF UndoSound, Undoing
  <2>2. o2.undo = is
    BY <2>1 DEF Undoes
  <2>3. Sound(is, U2, w2)
    BY <1>8, <1>10, FreshSound
  <2> QED
    BY <2>2, <2>3
<1>14. RollbackSound'
  <2>1. RollbackShape(is, is, "opening", n, commits')
    BY DEF RollbackShape
  <2> QED
    BY <2>1 DEF RollbackSound
<1>15. NamesBelow' /\ Clean'
  BY <1>2, <1>6 DEF NamesBelow, Clean
<1>17. ~At("finish")' /\ (At("ctor")' => HeadOf(o2.todo) = "ctor") /\ Head1' = HeadOf(o2.todo)
  BY HeadAt
<1>18. DiskSound'
  BY <1>17 DEF FInv, DiskSound
<1>19. \A h \in Gen : D!Readable(h)' => D!Readable(h)
  <2>1. SUFFICES ASSUME NEW h \in Gen, D!Readable(h)' PROVE D!Readable(h)
    OBVIOUS
  <2>2. h \in DOMAIN Stored' /\ Stored'[h].complete /\ SegmentsFile(h) \in dir'
    BY <2>1 DEF D!Readable, Stored
  <2> QED
    BY <1>4, <2>2 DEF D!Readable, Stored
<1>20. LastOK'
  BY <1>6, <1>19 DEF LastOK
<1>21. HeadOf(o2.todo) = "ctor" => D!Newest(gen)' /\ disk'[gen'].infos = infos'
  <2>1. SUFFICES ASSUME HeadOf(o2.todo) = "ctor" PROVE D!Newest(gen)'
    OBVIOUS
  <2>2. g \in DOMAIN Stored /\ Stored[g].complete /\ SegmentsFile(g) \in dir
    BY <2>1 DEF D!Newest, D!Readable, Stored
  <2>3. g \in DOMAIN Stored' /\ Stored'[g].complete /\ SegmentsFile(g) \in dir'
    BY <1>4, <2>2
  <2>4. D!Readable(gen)'
    BY <2>3 DEF D!Readable, Stored
  <2>5. \A h \in Gen : D!Readable(h)' => h <= gen'
    BY <1>19
  <2> QED
    BY <2>4, <2>5 DEF D!Newest
<1>22. WrittenOK'
  <2>1. op'.todo # <<>> => Head(op'.todo) # <<"ckpt", TRUE>>
    BY <1>3 DEF HeadOf
  <2>2. Head1' \in {"write", "finish"} => infos' = <<>>
    BY <1>17
  <2> QED
    BY <1>17, <1>21, <2>1, <2>2 DEF WrittenOK
<1>23. OrderOK'
  BY DEF OrderOK
<1> QED
  BY <1>5, <1>12, <1>13, <1>14, <1>15, <1>18, <1>20, <1>22, <1>23 DEF FInv

\* A writer is opened on the commit that is found,
LEMMA OpenSafe ==
  ASSUME IInv, FInv, DP!IInv, IInv', NEW ac \in AutoCommitModes, Open(ac)
  PROVE  [DeleterStep]_(D!vars) /\ FInv'
PROOF
<1>1. status = "closed" /\ status' = "opening" /\ FoundGen # 0
  BY DEF Open
<1>2. PICK g, is, n : g = FoundGen /\ is = disk[g].infos /\ n = disk[g].counter
  OBVIOUS
<1>3. g \in Gen /\ g \in Int /\ n \in Nat
  BY <1>1, <1>2, Found, Generations
<1>4. FilesIn(is) \subseteq dir /\ \A i \in DOMAIN is : is[i].store < n
  BY <1>1, <1>2, FoundFiles
<1>5. D!Newest(g) /\ \A h \in Gen : D!Readable(h) => h <= g
  BY <1>1, <1>2, FoundNewest
<1>6. /\ UNCHANGED <<dir, disk, pinned, deleter, buf, merge>>
      /\ infos' = is /\ rollback' = is /\ gen' = g /\ lastGen' = g /\ counter' = n
  BY <1>2 DEF Open, store
<1>7. PICK c, s : c = <<"ctor">> /\ s = <<c>>
  OBVIOUS
<1>8. c \in Step /\ c[1] = "ctor" /\ s \in Seq(Step) /\ Names(s) = {"ctor"} /\ s # <<>>
      /\ HeadOf(s) = "ctor" /\ Ordered(s) /\ Steps(s) = {c}
  <2>1. c \in Step /\ c[1] = "ctor"
    BY <1>7 DEF Step
  <2>2. s \in Seq(Step) /\ Names(s) = {"ctor"}
    BY <1>7, <2>1, Literals
  <2>3. s # <<>> /\ s[1] = c
    BY <1>7
  <2>4. HeadOf(s) = "ctor"
    BY <2>1, <2>2, <2>3, HeadName
  <2>5. Ordered(s) /\ Steps(s) = {c}
    BY ONLY <1>7, ShortLists
  <2> QED
    BY <2>1, <2>2, <2>3, <2>4, <2>5
<1>9. PICK o2 : o2 = op'
  OBVIOUS
<1>10. o2 = [todo |-> s, undo |-> infos, onFail |-> <<>>, pausing |-> FALSE]
  BY <1>7, <1>9 DEF Open, Begin
<1>11. o2.todo = s /\ o2.onFail = <<>>
  BY <1>10
<1>12. Names(<<>>) = {} /\ Ordered(<<>>) /\ Steps(<<>>) = {}
  <2>1. Ordered(<<>>) /\ Steps(<<>>) = {}
    BY ONLY ShortLists
  <2> QED
    BY <2>1, Literals
<1>13. OrderShape(o2, "opening", autoCommit')
  <2>1. <<"ckpt", TRUE>> # c
    BY <1>7
  <2> QED
    BY <1>8, <1>11, <1>12, <2>1 DEF OrderShape
<1>14. /\ HeadOf(o2.todo) = "ctor" /\ Names(o2.todo) \subseteq {"ctor", "write"}
       /\ Names(o2.onFail) \subseteq {"throw"}
  BY <1>8, <1>11, <1>12
<1> QED
  BY <1>1, <1>2, <1>3, <1>4, <1>5, <1>6, <1>9, <1>13, <1>14, OpeningSafe

\* or on an index that is to be created, in place of what is there.
LEMMA CreateSafe ==
  ASSUME IInv, FInv, DP!IInv, IInv', NEW ac \in AutoCommitModes, Create(ac)
  PROVE  [DeleterStep]_(D!vars) /\ FInv'
PROOF
<1>1. status = "closed" /\ status' = "opening"
  BY DEF Create
<1>2. PICK g, n : /\ g = (IF FoundGen # 0 THEN FoundGen ELSE CurrentGen)
                  /\ n = (IF FoundGen # 0 THEN disk[FoundGen].counter ELSE 0)
  OBVIOUS
<1>3. g \in Int /\ n \in Nat
  BY <1>2, Found, CurrentGenType, Generations
<1>4. \A h \in Gen : D!Readable(h) => h <= g
  BY <1>2, FoundNewest
<1>5. PICK e : e = <<>>
  OBVIOUS
<1>6. FilesIn(e) \subseteq dir /\ \A i \in DOMAIN e : e[i].store < n
  BY <1>5 DEF FilesIn
<1>7. /\ UNCHANGED <<dir, disk, pinned, deleter, buf, merge>>
      /\ infos' = e /\ rollback' = e /\ gen' = g /\ lastGen' = g /\ counter' = n
  BY <1>2, <1>5 DEF Create, store
<1>8. PICK w, c, t : w = <<"write">> /\ c = <<"ctor">> /\ t = <<"throw", "caller">>
  OBVIOUS
<1>9. /\ w \in Step /\ c \in Step /\ t \in Step
      /\ w[1] = "write" /\ c[1] = "ctor" /\ t[1] = "throw"
  BY <1>8 DEF Step
<1>10. PICK s, f : s = <<w, c>> /\ f = <<t>>
  OBVIOUS
<1>11. s \in Seq(Step) /\ Names(s) = {"write", "ctor"} /\ HeadOf(s) = "write" /\ s # <<>>
       /\ Len(s) = 2 /\ s[2] = <<"ctor">>
  <2>1. s \in Seq(Step) /\ Names(s) = {"write", "ctor"}
    BY <1>9, <1>10, Literals
  <2>2. s # <<>> /\ s[1] = w /\ Len(s) = 2 /\ s[2] = c
    BY <1>10
  <2> QED
    BY <1>8, <1>9, <2>1, <2>2, HeadName
<1>12. f \in Seq(Step) /\ Names(f) = {"throw"}
  BY <1>9, <1>10, Literals
<1>13. Ordered(s) /\ Steps(s) = {w, c}
  <2>1. Before(w, c)
    <3>1. c # <<"ckpt", TRUE>>
      BY <1>8
    <3> QED
      BY <1>9, <3>1 DEF Before
  <2> QED
    BY ONLY <1>10, <2>1, ShortLists
<1>14. Ordered(f) /\ Steps(f) = {t}
  BY ONLY <1>10, ShortLists
<1>15. PICK o2 : o2 = op'
  OBVIOUS
<1>16. o2 = [todo |-> s, undo |-> e, onFail |-> f, pausing |-> FALSE]
  BY <1>5, <1>8, <1>10, <1>15 DEF Create
<1>17. o2.todo = s /\ o2.onFail = f /\ o2.undo = e
  BY <1>16
<1>18. OrderShape(o2, "opening", autoCommit')
  <2>1. <<"ckpt", TRUE>> # w /\ <<"ckpt", TRUE>> # c /\ <<"ckpt", TRUE>> # t
    BY <1>8, <1>9
  <2>2. <<"ckpt", TRUE>> \notin Steps(s) /\ <<"ckpt", TRUE>> \notin Steps(f)
    BY <1>13, <1>14, <2>1
  <2>3. /\ Names(f) \cap {"ctor", "close", "segment", "cfs"} = {}
        /\ "segment" \notin Names(s)
    BY <1>11, <1>12
  <2>4. /\ Ordered(o2.todo) /\ Ordered(o2.onFail)
        /\ <<"ckpt", TRUE>> \notin Steps(o2.onFail) /\ <<"ckpt", TRUE>> \notin Steps(o2.todo)
        /\ Names(o2.onFail) \cap {"ctor", "close", "segment", "cfs"} = {}
        /\ "segment" \notin Names(o2.todo)
    BY <1>13, <1>14, <1>17, <2>2, <2>3
  <2>5. PICK st, first : st = "opening" /\ first = o2.todo[2]
    OBVIOUS
  <2>6. Len(o2.todo) >= 2 /\ first = <<"ctor">>
    BY <1>11, <1>17, <2>5
  <2>7. o2.todo[2] = (IF st = "opening" THEN <<"ctor">> ELSE <<"ckpt", TRUE>>)
    BY <2>5, <2>6
  <2>8. OrderShape(o2, st, autoCommit')
    BY <2>4, <2>5, <2>6, <2>7 DEF OrderShape
  <2> QED
    BY <2>5, <2>8
<1>19. /\ HeadOf(o2.todo) = "write" /\ Names(o2.todo) \subseteq {"ctor", "write"}
       /\ Names(o2.onFail) \subseteq {"throw"}
  BY <1>11, <1>12, <1>17
<1> QED
  BY <1>1, <1>3, <1>4, <1>5, <1>6, <1>7, <1>15, <1>17, <1>18, <1>19, OpeningSafe

-----------------------------------------------------------------------------
(* The invariant.                                                          *)

\* No file is there, and none is needed, before the first writer.
LEMMA FilesInit ==
  ASSUME Init, IInv
  PROVE  D!Init /\ DP!IInv /\ FInv
PROOF
<1>1. /\ dir = {} /\ disk = << >> /\ pinned = {} /\ deletable = {}
      /\ refCounts = << >> /\ commits = {} /\ last = <<>> /\ held = {}
      /\ status = "closed" /\ infos = <<>> /\ gen = 0 /\ lastGen = 0 /\ counter = 0
      /\ rollback = <<>> /\ buf = EmptyBuf /\ merge = NoMerge /\ op = Idle
  BY DEF Init
<1>2. op.todo = <<>> /\ op.onFail = <<>>
  BY <1>1 DEF Idle
<1>3. DOMAIN disk = {}
  BY <1>1
<1>4. Stored = << >> /\ ~Up /\ Unreg = 0
  <2>1. Stored = [g \in {} |-> [complete |-> disk[g].complete, files |-> FilesOn(g)]]
    BY <1>3 DEF Stored
  <2> QED
    BY <1>1, <1>2, <2>1 DEF Up, Unreg
<1>5. Up = FALSE
  BY <1>1 DEF Up
<1>6. D!Init /\ DP!Init
  BY <1>1, <1>4, <1>5 DEF D!Init, DP!Init, Stored, Up, Unreg
<1>7. DP!IInv
  BY <1>6, Generations, DP!InitInv
<1>8. PICK w : w = World
  OBVIOUS
<1>9. (D!Referenced) = {}
  BY <1>1 DEF D!Referenced, D!Named, D!Range, D!Holders
<1>10. /\ w.buf = EmptyBuf /\ w.merge = NoMerge /\ w.held = {} /\ w.counter = 0
       /\ w.status = "closed"
  BY <1>1, <1>8, WorldIs
<1>11. Steps(<<>>) = {} /\ Ordered(<<>>)
  BY ONLY ShortLists
<1>12. Kinds({}) = {} /\ Names(<<>>) = {} /\ HeadOf(<<>>) = "idle" /\ FilesIn(<<>>) = {}
  BY DEF Kinds, Names, HeadOf, FilesIn
<1>13. Sound(<<>>, {}, w) /\ BufSoundIn({}, w) /\ MergeSoundIn(<<>>, w)
  <2>1. PICK e, S : e = <<>> /\ S = {}
    OBVIOUS
  <2>2. /\ FilesIn(e) \subseteq w.safe /\ \A i \in DOMAIN e : e[i].store < w.counter
        /\ w.counter \in Nat /\ w.status \in {"closed", "opening"}
        /\ Kinds(S) \subseteq {"ctor", "write", "finish", "throw"}
    BY <1>10, <1>12, <2>1
  <2>3. Sound(e, S, w) /\ BufSoundIn(S, w) /\ MergeSoundIn(e, w)
    BY <1>10, <2>2, FreshSound
  <2> QED
    BY <2>1, <2>3
<1>14. InfosSound /\ BufSound /\ MergeSound
  BY <1>1, <1>2, <1>8, <1>11, <1>13 DEF InfosSound, BufSound, MergeSound
<1>15. UndoSound
  BY <1>2, <1>12 DEF UndoSound, Undoing, Undoes
<1>16. RollbackSound /\ NamesBelow /\ Clean /\ LastOK
  BY <1>1, <1>9 DEF RollbackSound, Backable, NamesBelow, Clean, LastOK
<1>17. ~At("finish") /\ ~At("ctor") /\ Head1 = "idle"
  BY <1>2 DEF At, Head1
<1>18. DiskSound /\ WrittenOK
  BY <1>2, <1>3, <1>17 DEF DiskSound, WrittenOK
<1>19. OrderOK
  <2>1. PICK o : o = op
    OBVIOUS
  <2>2. o.todo = <<>> /\ o.onFail = <<>>
    BY <1>2, <2>1
  <2>3. OrderShape(o, status, autoCommit)
    BY <1>11, <1>12, <2>2 DEF OrderShape
  <2> QED
    BY <2>1, <2>3 DEF OrderOK
<1> QED
  BY <1>6, <1>7, <1>14, <1>15, <1>16, <1>18, <1>19 DEF FInv

\* Nothing changes.
LEMMA StutterSafe ==
  ASSUME FInv, UNCHANGED vars
  PROVE  [DeleterStep]_(D!vars) /\ FInv'
PROOF
<1>1. UNCHANGED <<dir, disk, pinned, refCounts, commits, last, held, deletable, status, autoCommit,
                  infos, gen, lastGen, counter, commitPending, rollback, buf, merge, op>>
  BY DEF vars, store, deleter, si
<1>2. Stored' = Stored /\ Up' = Up /\ Unreg' = Unreg
  BY <1>1 DEF Stored, FilesOn, Up, Unreg
<1>3. [DeleterStep]_(D!vars)
  BY <1>1, <1>2, DeleterStutters DEF deleter
<1>4. (D!Referenced)' = D!Referenced
  BY <1>1 DEF D!Referenced, D!Named, D!Holders
<1>5. World' = World
  BY <1>1, <1>4 DEF World, D!Named
<1>6. InfosSound' /\ UndoSound' /\ BufSound' /\ MergeSound'
  BY <1>1, <1>5 DEF FInv, InfosSound, UndoSound, Undoing, BufSound, MergeSound
<1>7. RollbackSound' /\ NamesBelow' /\ DiskSound' /\ Clean' /\ OrderOK'
  BY <1>1, <1>4 DEF FInv, RollbackSound, NamesBelow, DiskSound, Clean, OrderOK, At, Head1
<1>8. \A g : D!Readable(g)' <=> D!Readable(g)
  BY <1>1 DEF D!Readable, FilesOn
<1>9. D!Newest(gen)' <=> D!Newest(gen)
  BY <1>1, <1>8 DEF D!Newest, D!Readable, FilesOn
<1>10. LastOK'
  BY <1>1, <1>4, <1>8 DEF FInv, LastOK
<1>11. WrittenOK'
  BY <1>1, <1>9 DEF FInv, WrittenOK, At, Head1
<1> QED
  BY <1>3, <1>6, <1>7, <1>10, <1>11 DEF FInv

-----------------------------------------------------------------------------
(* Deletions files, from step to step.                                     *)

\* s is a segment of infos with as many deletions files or more, or one whose
\* deletions files the deleter does not know.
Heir(s) ==
    \/ \E k \in DOMAIN infos : infos[k].name = s.name /\ infos[k].delGen <= s.delGen
    \/ \A g \in Nat : Del(s.name, g) \notin D!Named(commits, last)

LEMMA DelGens ==
  ASSUME NEW is \in Seq(SegmentInfos)
  PROVE  \A i \in DOMAIN is : is[i].delGen \in Nat
PROOF
<1>1. \A i \in DOMAIN is : is[i] \in SegmentInfos
  OBVIOUS
<1> QED
  BY <1>1 DEF SegmentInfos

\* Nothing is committed or checkpointed.
LEMMA DelsStill ==
  ASSUME IInv, DelsKnown, UNCHANGED <<commits, last>>,
         autoCommit' /\ Up' => autoCommit /\ Up,
         infos' \in Seq(SegmentInfos),
         (\A i \in DOMAIN infos' : Heir(infos'[i])) \/ (Undoing /\ infos' = op.undo),
         Undoing' => op'.undo = infos \/ (Undoing /\ op'.undo = op.undo),
         \/ buf'.seg \in {buf.seg, None}
         \/ \A g \in Nat : Del(buf'.seg, g) \notin D!Named(commits, last)
  PROVE  DelsKnown'
PROOF
<1>1. SUFFICES ASSUME autoCommit', Up' PROVE DelsKnown'
  BY DEF DelsKnown
<1>2. PICK F, js, o2, b2 : F = D!Named(commits, last) /\ js = infos' /\ o2 = op' /\ b2 = buf'
  OBVIOUS
<1>3. D!Named(commits, last)' = F
  BY <1>2 DEF D!Named
<1>4. /\ DelsFit(infos, F) /\ (Undoing => DelsFit(op.undo, F))
      /\ buf.seg # None => \A g \in Nat : Del(buf.seg, g) \notin F
  BY <1>1, <1>2 DEF DelsKnown
<1>5. DelsFit(js, F)
  <2>1. CASE Undoing /\ infos' = op.undo
    BY <1>2, <1>4, <2>1
  <2>2. CASE \A i \in DOMAIN infos' : Heir(infos'[i])
    <3>1. SUFFICES ASSUME NEW i \in DOMAIN js, NEW g \in Nat, g > js[i].delGen
                   PROVE  Del(js[i].name, g) \notin F
      BY DEF DelsFit
    <3>2. PICK s : s = js[i]
      OBVIOUS
    <3>3. js[i].delGen \in Nat /\ \A k \in DOMAIN infos : infos[k].delGen \in Nat
      <4>1. js \in Seq(SegmentInfos)
        BY <1>2
      <4> QED
        BY <3>1, <4>1, DelGens, Types
    <3>4. Heir(s)
      BY <1>2, <2>2, <3>2
    <3>5. CASE \A m \in Nat : Del(s.name, m) \notin D!Named(commits, last)
      BY <1>2, <3>2, <3>5
    <3>6. CASE \E k \in DOMAIN infos : infos[k].name = s.name /\ infos[k].delGen <= s.delGen
      <4>1. PICK k \in DOMAIN infos : infos[k].name = s.name /\ infos[k].delGen <= s.delGen
        BY <3>6
      <4>2. g > infos[k].delGen
        BY <3>1, <3>2, <3>3, <4>1
      <4> QED
        BY <1>4, <3>2, <4>1, <4>2 DEF DelsFit
    <3> QED
      BY <3>4, <3>5, <3>6 DEF Heir
  <2> QED
    BY <2>1, <2>2
<1>6. Undoing' => DelsFit(o2.undo, F)
  BY <1>2, <1>4
<1>7. b2.seg # None => \A g \in Nat : Del(b2.seg, g) \notin F
  BY <1>2, <1>4
<1>8. D!Named(commits', last') = F
  BY <1>2
<1> QED
  BY <1>2, <1>5, <1>6, <1>7, <1>8 DEF DelsKnown

\* Nor do the segments change.
LEMMA DelsBeside ==
  ASSUME IInv, DelsKnown, UNCHANGED <<commits, last, autoCommit, infos>>, Up' => Up,
         op' = op \/ op'.undo = infos \/ ~Undoing' \/ (Undoing /\ op'.undo = op.undo),
         \/ buf'.seg \in {buf.seg, None}
         \/ \A g \in Nat : Del(buf'.seg, g) \notin D!Named(commits, last)
  PROVE  DelsKnown'
PROOF
<1>1. \A i \in DOMAIN infos' : Heir(infos'[i])
  <2>1. \A k \in DOMAIN infos : infos[k].delGen \in Nat
    BY DelGens, Types
  <2> QED
    BY <2>1 DEF Heir
<1>2. Undoing' => op'.undo = infos \/ (Undoing /\ op'.undo = op.undo)
  BY DEF Undoing
<1>3. infos' \in Seq(SegmentInfos)
  BY Types
<1> QED
  BY <1>1, <1>2, <1>3, DelsStill

\* An operation begins, or takes a turn to steps that write no segments_N.
LEMMA Beginnings ==
  /\ \A steps, p : Begin(steps, p) => op'.undo = infos
  /\ \A steps : IInv /\ GoOn(steps) /\ HeadOf(steps) \notin {"write", "finish"} => ~Undoing'
  /\ IInv /\ FInv /\ op.todo # <<>> /\ Advance => ~Undoing'
PROOF
<1>1. \A steps, p : Begin(steps, p) => op'.undo = infos
  BY DEF Begin
<1>2. \A steps : IInv /\ GoOn(steps) /\ HeadOf(steps) \notin {"write", "finish"} => ~Undoing'
  <2>1. SUFFICES ASSUME NEW steps, IInv, GoOn(steps), HeadOf(steps) \notin {"write", "finish"}
                 PROVE  op'.todo = steps
    BY DEF Undoing, Undoes
  <2>2. CASE steps = <<>>
    BY <2>1, <2>2 DEF GoOn, Idle
  <2>3. CASE steps # <<>>
    BY <2>1, <2>3 DEF GoOn, IInv, OpOK, OpFits, OpShape
  <2> QED
    BY <2>2, <2>3
<1>3. IInv /\ FInv /\ op.todo # <<>> /\ Advance => ~Undoing'
  BY Onward DEF Popping, Undoing
<1> QED
  BY <1>1, <1>2, <1>3

\* Nobody knows deletions files of a name that was not handed out.
LEMMA NoDels ==
  ASSUME IInv, FInv, DP!IInv, NEW n \in Int, n >= counter
  PROVE  \A g \in Nat : Del(n, g) \notin D!Named(commits, last)
PROOF
<1>1. SUFFICES ASSUME NEW g \in Nat, Del(n, g) \in D!Referenced PROVE FALSE
  BY DeleterKnows
<1>2. PICK f : f = Del(n, g)
  OBVIOUS
<1>3. f[1] = "del" /\ f[2] = n /\ f \in D!Referenced
  BY <1>1, <1>2, Fields
<1>4. n < counter /\ counter \in Nat
  BY <1>3, Types DEF FInv, NamesBelow
<1> QED
  BY <1>4

\* The steps of an operation that leave the segments, the commits and the
\* buffered segment alone.
LEMMA PlainDels ==
  ASSUME IInv, FInv, DP!IInv, DelsKnown,
         \/ DeletePartial \/ DeleteFiles \/ DeleteNewFiles \/ Refresh \/ FinishWrite
         \/ MergeBind \/ MergeRelease \/ Merged
  PROVE  DelsKnown'
PROOF
<1>1. op.todo # <<>> /\ Advance
  BY HeadAt DEF DeletePartial, DeleteFiles, DeleteNewFiles, Refresh, FinishWrite, MergeBind,
     MergeRelease, Merged
<1>2. UNCHANGED <<commits, last, autoCommit, infos, status, buf>>
  BY DEF DeletePartial, DeleteFiles, DeleteNewFiles, Refresh, FinishWrite, MergeBind,
     MergeRelease, Merged, deleter, si
<1>3. ~Undoing' /\ (Up' => Up)
  BY <1>1, <1>2, Beginnings DEF Up
<1> QED
  BY <1>2, <1>3, DelsBeside

\* What goes beside the operation.
LEMMA AsideDels ==
  ASSUME IInv, FInv, DP!IInv, DelsKnown,
         \/ StopMerges \/ MergeBuild \/ MergeCompound \/ Abort \/ UNCHANGED vars
         \/ \E d \in Doc : AddDoc(d) \/ DeleteDoc(d)
  PROVE  DelsKnown'
PROOF
<1>1. UNCHANGED <<commits, last, autoCommit, infos, op>>
  BY DEF StopMerges, MergeBuild, MergeCompound, Abort, vars, AddDoc, DeleteDoc, deleter, si
<1>2. Up' => Up
  <2>1. status' = status \/ status = "open"
    BY DEF StopMerges, MergeBuild, MergeCompound, Abort, vars, AddDoc, DeleteDoc
  <2> QED
    BY <2>1 DEF Up
<1>3. \/ buf'.seg \in {buf.seg, None}
      \/ \A g \in Nat : Del(buf'.seg, g) \notin D!Named(commits, last)
  <2>1. CASE \/ StopMerges \/ MergeBuild \/ MergeCompound \/ Abort \/ UNCHANGED vars
    <3>1. buf' = buf
      BY <2>1 DEF StopMerges, MergeBuild, MergeCompound, Abort, vars
    <3> QED
      BY <3>1
  <2>2. CASE \E d \in Doc : DeleteDoc(d)
    BY <2>2 DEF DeleteDoc, IInv, BufOK, BufShape
  <2>3. CASE \E d \in Doc : AddDoc(d)
    <3>1. buf'.seg = BufSegment
      BY <2>3 DEF AddDoc, IInv, BufOK, BufShape
    <3>2. buf'.seg \in {buf.seg, counter}
      BY <3>1 DEF BufSegment, NewSegmentName
    <3>3. counter \in Int /\ counter >= counter
      BY Types
    <3> QED
      BY <3>2, <3>3, NoDels
  <2> QED
    BY <2>1, <2>2, <2>3
<1> QED
  BY <1>1, <1>2, <1>3, DelsBeside

\* An operation begins that leaves the segments alone.
LEMMA BegunDels ==
  ASSUME IInv, FInv, DP!IInv, DelsKnown,
         \/ Flush \/ CloseCommit \/ AbortClose \/ \E wait \in BOOLEAN : Close(wait)
         \/ \E d \in Doc : AddDocFails(d)
         \/ \E i \in 1..MaxSeg : MergeInit(i)
         \/ MergeFails \/ MergeDeletesFail \/ CommitMergeAborted \/ MergeCompoundFails
  PROVE  DelsKnown'
PROOF
<1>1. UNCHANGED <<commits, last, autoCommit, infos>>
  BY DEF Flush, CloseCommit, AbortClose, Close, AddDocFails, MergeInit, MergeFails,
     MergeDeletesFail, CommitMergeAborted, MergeCompoundFails, deleter, si
<1>2. op'.undo = infos
  <2>1. CASE CloseCommit
    BY <2>1 DEF CloseCommit
  <2>2. CASE Flush \/ AbortClose \/ \E wait \in BOOLEAN : Close(wait)
    <3>1. PICK s \in BOOLEAN : Begin(FlushSteps(s), TRUE)
      BY <2>2, Zenon DEF Flush, AbortClose, Close
    <3> QED
      BY <3>1, Beginnings
  <2>3. CASE (\E d \in Doc : AddDocFails(d)) \/ (\E i \in 1..MaxSeg : MergeInit(i))
    <3>1. \E s, p : Begin(s, p)
      BY <2>3, Zenon DEF AddDocFails, MergeInit
    <3> QED
      BY <3>1, Beginnings
  <2>4. CASE MergeFails \/ MergeDeletesFail \/ CommitMergeAborted \/ MergeCompoundFails
    BY <2>4 DEF MergeFails, MergeDeletesFail, CommitMergeAborted, MergeCompoundFails, Begin
  <2> QED
    BY <2>1, <2>2, <2>3, <2>4
<1>3. Up' => Up
  <2>1. status' = status \/ status \in {"open", "aborted"}
    BY DEF Flush, CloseCommit, AbortClose, Close, AddDocFails, MergeInit, MergeFails,
       MergeDeletesFail, CommitMergeAborted, MergeCompoundFails
  <2> QED
    BY <2>1 DEF Up
<1>4. buf'.seg \in {buf.seg, None}
  <2>1. buf.closed \in BOOLEAN /\ EmptyBuf.seg = None
    BY DEF IInv, BufOK, BufShape, EmptyBuf
  <2> QED
    BY <2>1 DEF Flush, CloseCommit, AbortClose, Close, AddDocFails, MergeInit, MergeFails,
       MergeDeletesFail, CommitMergeAborted, MergeCompoundFails, IInv, BufOK, BufShape
<1> QED
  BY <1>1, <1>2, <1>3, <1>4, DelsBeside

\* There is no writer with autoCommit after the step.
LEMMA GoneDels ==
  ASSUME IInv, FInv,
         \/ Crash \/ CloseDeleter \/ AbortRollback
         \/ \E ac \in AutoCommitModes : Open(ac) \/ Create(ac)
  PROVE  DelsKnown'
PROOF
<1>1. CASE Crash \/ CloseDeleter
  BY <1>1 DEF Crash, CloseDeleter, Forget, DelsKnown, Up
<1>2. CASE \E ac \in AutoCommitModes : Open(ac) \/ Create(ac)
  BY <1>2 DEF Open, Create, DelsKnown, Up
<1>3. CASE AbortRollback
  BY <1>3 DEF AbortRollback, FInv, RollbackSound, DelsKnown
<1> QED
  BY <1>1, <1>2, <1>3

\* A failure, or the end of an operation.
LEMMA FailedDels ==
  ASSUME IInv, FInv, DP!IInv, DelsKnown, IInv',
         FlushFails \/ FlushCompoundFails \/ WriteFails \/ StartWrite \/ Throw
  PROVE  DelsKnown'
PROOF
<1>1. CASE FlushFails
  <2>1. UNCHANGED <<commits, last, autoCommit, infos, status>> /\ buf'.seg = None
    BY <1>1 DEF FlushFails, deleter, si, EmptyBuf
  <2>2. ~Undoing'
    <3>1. PICK f : f = Unflush({})
      OBVIOUS
    <3>2. GoOn(f) /\ buf.seg \in Name \cup {None} /\ {} \in SUBSET File
      BY <1>1, <3>1 DEF FlushFails, IInv, BufOK, BufShape
    <3>3. HeadOf(f) \in {"delete", "partial"}
      BY <3>1, <3>2, UnflushSteps
    <3> QED
      BY <3>2, <3>3, Beginnings
  <2> QED
    BY <2>1, <2>2, DelsBeside DEF Up
<1>2. CASE FlushCompoundFails
  <2>1. UNCHANGED <<commits, last, autoCommit, infos, status, buf>>
    BY <1>2 DEF FlushCompoundFails, deleter, si
  <2>2. ~Undoing'
    <3>1. PICK f : f = <<<<"delete", {Cfs(Head(op.todo)[2])}>>, <<"partial">>, <<"throw", "caller">>>>
      OBVIOUS
    <3>2. GoOn(f)
      BY <1>2, <3>1 DEF FlushCompoundFails
    <3>3. HeadOf(f) = "delete"
      BY <3>1 DEF HeadOf
    <3> QED
      BY <3>2, <3>3, Beginnings
  <2> QED
    BY <2>1, <2>2, DelsBeside DEF Up
<1>3. CASE WriteFails
  <2>1. /\ UNCHANGED <<commits, last, autoCommit, status, buf>> /\ infos' = op.undo
        /\ GoOn(op.onFail) /\ Undoing
    BY <1>3, HeadAt DEF WriteFails, deleter, Undoing, Undoes
  <2>2. ~Undoing'
    <3>1. PICK f : f = op.onFail
      OBVIOUS
    <3>2. f \in Seq(Step) /\ Names(f) \cap {"write", "finish"} = {}
      BY <3>1 DEF IInv, OpOK, OpFits, OpShape
    <3>3. HeadOf(f) \notin {"write", "finish"}
      BY <3>2, HeadName
    <3> QED
      BY <2>1, <3>1, <3>3, Beginnings
  <2>3. infos' \in Seq(SegmentInfos)
    BY <2>1, Types
  <2> QED
    BY <2>1, <2>2, <2>3, DelsStill DEF Up
<1>4. CASE StartWrite
  <2>1. UNCHANGED <<commits, last, autoCommit, infos, status, buf>>
    BY <1>4 DEF StartWrite, deleter
  <2>2. HeadOf(op.todo) = "write" /\ GoOn(<<<<"finish">>>> \o Tail(op.todo)) /\ op.todo # <<>>
    BY <1>4, HeadAt DEF StartWrite
  <2>3. PICK e, t : e = <<<<"finish">>>> /\ t = e \o Tail(op.todo)
    OBVIOUS
  <2>4. t # <<>>
    <3>1. Tail(op.todo) \in Seq(Step) /\ e \in Seq(Step) /\ e # <<>>
      <4>1. op.todo \in Seq(Step)
        BY Types
      <4>2. PICK g : g = <<"finish">>
        OBVIOUS
      <4>3. g \in Step
        BY <4>2 DEF Step
      <4>4. <<g>> \in Seq(Step) /\ <<g>> # <<>>
        BY ONLY <4>3
      <4> QED
        BY <2>2, <2>3, <4>1, <4>2, <4>4
    <3> QED
      BY ONLY <2>3, <3>1, StepsJoin
  <2>5. op' = [op EXCEPT !.todo = t]
    BY <2>2, <2>3, <2>4 DEF GoOn
  <2>6. op'.undo = op.undo /\ op'.onFail = op.onFail
    BY <2>5 DEF IInv, OpOK, OpFits, OpShape
  <2>7. Undoing' => Undoing
    BY <2>2, <2>6 DEF Undoing, Undoes
  <2> QED
    BY <2>1, <2>6, <2>7, DelsBeside DEF Up
<1>5. CASE Throw
  <2>1. UNCHANGED <<commits, last, autoCommit, buf>> /\ GoOn(<<>>)
    BY <1>5 DEF Throw, deleter
  <2>2. CASE status = "opening"
    <3>1. status' = "closed"
      BY <1>5, <2>2 DEF Throw
    <3> QED
      BY <3>1 DEF DelsKnown, Up
  <2>3. CASE status # "opening"
    <3>1. infos' = infos
      BY <1>5, <2>3 DEF Throw, si
    <3>2. status # "closed"
      <4>1. op.todo # <<>>
        BY <1>5, HeadAt DEF Throw
      <4> QED
        BY <4>1 DEF IInv, StartOK, StartShape
    <3>3. HeadOf(<<>>) \notin {"write", "finish"}
      BY DEF HeadOf
    <3>4. ~Undoing'
      BY <2>1, <3>3, Beginnings
    <3> QED
      BY <2>1, <2>3, <3>1, <3>2, <3>4, DelsBeside DEF Up
  <2> QED
    BY <2>2, <2>3
<1> QED
  BY <1>1, <1>2, <1>3, <1>4, <1>5

\* Segments in other files keep their deletions files.
LEMMA SameDels ==
  ASSUME NEW js, js = [i \in DOMAIN infos |-> js[i]],
         \A i \in DOMAIN infos : js[i].name = infos[i].name /\ js[i].delGen = infos[i].delGen,
         IInv
  PROVE  \A i \in DOMAIN js : Heir(js[i])
PROOF
<1>1. SUFFICES ASSUME NEW i \in DOMAIN js
               PROVE  \E k \in DOMAIN infos : infos[k].name = js[i].name /\ infos[k].delGen <= js[i].delGen
  BY DEF Heir
<1>2. i \in DOMAIN infos
  BY <1>1
<1>3. infos[i].delGen \in Nat
  BY <1>2, DelGens, Types
<1> QED
  BY <1>2, <1>3

LEMMA FlushDocStoresDels ==
  ASSUME IInv, FInv, DP!IInv, DelsKnown, IInv', FlushDocStores
  PROVE  DelsKnown'
PROOF
<1>1. op.todo # <<>> /\ Advance
  BY HeadAt DEF FlushDocStores
<1>2. ~Undoing' /\ UNCHANGED <<commits, last, autoCommit, status>> /\ (Up' => Up)
  BY <1>1, Beginnings DEF FlushDocStores, deleter, Up
<1>3. buf'.seg = buf.seg
  BY DEF FlushDocStores, IInv, BufOK, BufShape
<1>4. PICK js : js = infos'
  OBVIOUS
<1>5. \A i \in DOMAIN js : Heir(js[i])
  <2>1. CASE ~UseCompound
    <3>1. js = infos /\ js = [i \in DOMAIN infos |-> js[i]]
      <4>1. infos \in Seq(SegmentInfos)
        BY Types
      <4>2. infos = [i \in DOMAIN infos |-> infos[i]]
        BY ONLY <4>1
      <4> QED
        BY <1>4, <2>1, <4>2 DEF FlushDocStores
    <3> QED
      BY <3>1, SameDels
  <2>2. CASE UseCompound
    <3>1. js = [i \in DOMAIN infos |-> IF infos[i].store = buf.store
                                       THEN [infos[i] EXCEPT !.storeCfs = TRUE] ELSE infos[i]]
      BY <1>4, <2>2 DEF FlushDocStores
    <3>2. \A i \in DOMAIN infos : infos[i] \in SegmentInfos
      BY Types
    <3>3. \A i \in DOMAIN infos : js[i].name = infos[i].name /\ js[i].delGen = infos[i].delGen
      BY <3>1, <3>2 DEF SegmentInfos
    <3>4. js = [i \in DOMAIN infos |-> js[i]]
      BY <3>1
    <3> QED
      BY <3>3, <3>4, SameDels
  <2> QED
    BY <2>1, <2>2
<1>6. infos' \in Seq(SegmentInfos)
  BY DEF IInv, InfosOK, Fits, ListOK
<1> QED
  BY <1>2, <1>3, <1>4, <1>5, <1>6, DelsStill

LEMMA FlushCompoundDels ==
  ASSUME IInv, FInv, DP!IInv, DelsKnown, IInv', FlushCompound
  PROVE  DelsKnown'
PROOF
<1>1. UNCHANGED <<commits, last, autoCommit, status, buf>> /\ (Up' => Up)
  BY DEF FlushCompound, deleter, Up
<1>2. op'.undo = infos
  <2>1. \E s, f : op' = [op EXCEPT !.todo = s, !.undo = infos, !.onFail = f]
    BY DEF FlushCompound
  <2> QED
    BY <2>1 DEF IInv, OpOK, OpFits, OpShape
<1>3. PICK js, n : js = infos' /\ n = Head(op.todo)[2]
  OBVIOUS
<1>4. js = [i \in DOMAIN infos |-> IF infos[i].name = n THEN [infos[i] EXCEPT !.cfs = TRUE] ELSE infos[i]]
  BY <1>3 DEF FlushCompound
<1>5. \A i \in DOMAIN infos : infos[i] \in SegmentInfos
  BY Types
<1>6. \A i \in DOMAIN infos : js[i].name = infos[i].name /\ js[i].delGen = infos[i].delGen
  BY <1>4, <1>5 DEF SegmentInfos
<1>7. js = [i \in DOMAIN infos |-> js[i]]
  BY <1>4
<1>8. \A i \in DOMAIN js : Heir(js[i])
  BY <1>6, <1>7, SameDels
<1>9. infos' \in Seq(SegmentInfos)
  BY DEF IInv, InfosOK, Fits, ListOK
<1> QED
  BY <1>1, <1>2, <1>3, <1>8, <1>9, DelsStill

LEMMA CommitCompoundDels ==
  ASSUME IInv, FInv, DP!IInv, DelsKnown, IInv', CommitCompound
  PROVE  DelsKnown'
PROOF
<1>1. UNCHANGED <<commits, last, autoCommit, status, buf>> /\ (Up' => Up)
  BY DEF CommitCompound, deleter, Up
<1>2. op'.undo = infos
  <2>1. CASE merge.aborted \/ \A i \in DOMAIN infos : infos[i].name # merge.out.name
    <3>1. \E s : Begin(s, FALSE)
      BY <2>1, Zenon DEF CommitCompound
    <3> QED
      BY <3>1, Beginnings
  <2>2. CASE ~(merge.aborted \/ \A i \in DOMAIN infos : infos[i].name # merge.out.name)
    <3>1. \E s, f : op' = [todo |-> s, undo |-> infos, onFail |-> f, pausing |-> FALSE]
      BY <2>2, Zenon DEF CommitCompound
    <3> QED
      BY <3>1
  <2> QED
    BY <2>1, <2>2
<1>3. PICK js, c : js = infos' /\ c = Current(merge.out.name)
  OBVIOUS
<1>4. js = infos \/ js = [infos EXCEPT ![c].cfs = TRUE]
  BY <1>3 DEF CommitCompound
<1>5. \A i \in DOMAIN infos : infos[i] \in SegmentInfos
  BY Types
<1>6. \A i \in DOMAIN infos : js[i].name = infos[i].name /\ js[i].delGen = infos[i].delGen
  <2>1. CASE js = infos
    BY <2>1
  <2>2. CASE js = [infos EXCEPT ![c].cfs = TRUE]
    BY <1>5, <2>2 DEF SegmentInfos
  <2> QED
    BY <1>4, <2>1, <2>2
<1>7. js = [i \in DOMAIN infos |-> js[i]]
  <2>1. infos \in Seq(SegmentInfos)
    BY Types
  <2>2. infos = [i \in DOMAIN infos |-> infos[i]]
    BY ONLY <2>1
  <2> QED
    BY <1>4, <2>2
<1>8. \A i \in DOMAIN js : Heir(js[i])
  BY <1>6, <1>7, SameDels
<1>9. infos' \in Seq(SegmentInfos)
  BY DEF IInv, InfosOK, Fits, ListOK
<1> QED
  BY <1>1, <1>2, <1>3, <1>8, <1>9, DelsStill

LEMMA CommitMergeDels ==
  ASSUME IInv, FInv, DP!IInv, DelsKnown, IInv', CommitMerge
  PROVE  DelsKnown'
PROOF
<1>1. UNCHANGED <<commits, last, autoCommit, status, buf>> /\ (Up' => Up)
  BY DEF CommitMerge, deleter, Up
<1>2. op'.undo = infos
  BY DEF CommitMerge
<1>3. PICK n, nd, c1 : n = merge.out.name /\ nd = NewDeletes /\ c1 = Current(merge.clone[1].name)
  OBVIOUS
<1>4. PICK dg, sc : /\ dg = IF nd = {} THEN 0 ELSE 1
                    /\ sc = (merge.out.storeCfs \/ (merge.out.store # None
                              /\ \E i \in DOMAIN infos :
                                   infos[i].store = merge.out.store /\ infos[i].storeCfs))
  OBVIOUS
<1>5. PICK out : out = [merge.out EXCEPT !.dels = nd, !.delGen = dg, !.storeCfs = sc]
  OBVIOUS
<1>6. merge.stage = "built" /\ infos' = Splice(c1, out)
  BY <1>3, <1>4, <1>5 DEF CommitMerge
<1>7. PICK js, is : js = infos' /\ is = infos
  OBVIOUS
<1>8. \A k \in DOMAIN js : js[k] = out \/ \E j \in DOMAIN is : js[k] = is[j]
  <2>1. is \in Seq(SegmentInfos) /\ c1 \in DOMAIN is
    BY <1>3, <1>6, <1>7, Sources, Types
  <2>2. js = SplicedAt(is, c1, out)
    BY <1>6, <1>7 DEF Splice, SplicedAt
  <2> QED
    BY ONLY <2>1, <2>2, SplicedFrom
<1>9. out.name = n
  BY <1>3, <1>5, <1>6, MergedName DEF SegmentInfos
<1>10. \A g \in Nat : Del(n, g) \notin D!Named(commits, last)
  <2>1. PICK w, S : w = World /\ S = Steps(op.todo)
    OBVIOUS
  <2>2. MergeSoundIn(infos, w) /\ w.merge = merge /\ w.ref = D!Referenced
    BY <2>1, PartsOf
  <2>3. \A f \in D!Referenced : f[1] = "segments" \/ f[2] # n
    BY <1>3, <1>6, <2>2 DEF MergeSoundIn, Writing
  <2>4. SUFFICES ASSUME NEW g \in Nat, Del(n, g) \in D!Referenced PROVE FALSE
    BY DeleterKnows
  <2>5. PICK f : f = Del(n, g)
    OBVIOUS
  <2>6. f[1] = "del" /\ f[2] = n
    BY <2>5, Fields
  <2> QED
    BY <2>3, <2>4, <2>5, <2>6
<1>11. \A i \in DOMAIN js : Heir(js[i])
  <2>1. \A k \in DOMAIN infos : infos[k].delGen \in Nat
    BY DelGens, Types
  <2>2. Heir(out)
    BY <1>9, <1>10 DEF Heir
  <2>3. \A k \in DOMAIN infos : Heir(infos[k])
    BY <2>1 DEF Heir
  <2> QED
    BY <1>7, <1>8, <2>2, <2>3
<1>12. infos' \in Seq(SegmentInfos)
  BY DEF IInv, InfosOK, Fits, ListOK
<1> QED
  BY <1>1, <1>2, <1>7, <1>11, <1>12, DelsStill

\* The new segment is that of the buffer, of which no deletions file is known.
LEMMA FlushSegmentDels ==
  ASSUME IInv, FInv, DP!IInv, DelsKnown, IInv', FlushSegment
  PROVE  DelsKnown'
PROOF
<1>0. SUFFICES ASSUME autoCommit', Up' PROVE DelsKnown'
  BY DEF DelsKnown
<1>1. op.todo # <<>>
  BY HeadAt DEF FlushSegment
<1>2. UNCHANGED <<commits, last, autoCommit, status>> /\ (Up' => Up)
  BY DEF FlushSegment, deleter, Up
<1>3. CASE buf.docs = {} /\ buf.dels = {}
  <2>1. Advance /\ UNCHANGED <<infos, buf>>
    BY <1>3 DEF FlushSegment
  <2> QED
    BY <1>1, <1>2, <2>1, Beginnings, DelsBeside
<1>4. CASE ~(buf.docs = {} /\ buf.dels = {})
  <2>1. PICK new : new = [name |-> buf.seg, docs |-> buf.docs, dels |-> {}, delGen |-> 0, cfs |-> FALSE,
                          store |-> IF Head(op.todo)[2] THEN None ELSE Head(op.todo)[3],
                          storeCfs |-> ~Head(op.todo)[2] /\ Head(op.todo)[4]]
    OBVIOUS
  <2>2. PICK all, ds, js : /\ all = IF buf.docs # {} THEN Append(infos, new) ELSE infos
                           /\ ds = buf.dels /\ js = infos'
    OBVIOUS
  <2>3. js = [i \in DOMAIN all |-> ApplyDeletes(all[i], ds)]
    BY <1>4, <2>1, <2>2, Zenon DEF FlushSegment
  <2>4. buf'.seg = None
    BY <1>4 DEF FlushSegment, IInv, BufOK, BufShape
  <2>5. op'.undo = infos
    <3>1. \E s, f : op' = [op EXCEPT !.todo = s, !.undo = infos, !.onFail = f]
      BY <1>4, Zenon DEF FlushSegment
    <3> QED
      BY <3>1 DEF IInv, OpOK, OpFits, OpShape
  <2>6. infos \in Seq(SegmentInfos) /\ infos' \in Seq(SegmentInfos)
    BY DEF IInv, InfosOK, Fits, ListOK
  <2>7. \A i \in DOMAIN all : (i \in DOMAIN infos /\ all[i] = infos[i]) \/ (buf.docs # {} /\ all[i] = new)
    <3>1. CASE buf.docs = {}
      BY <2>2, <3>1
    <3>2. CASE buf.docs # {}
      <4>1. PICK is : is = infos
        OBVIOUS
      <4>2. is \in Seq(SegmentInfos) /\ all = Append(is, new)
        BY <2>2, <2>6, <3>2, <4>1
      <4>3. \A i \in DOMAIN all : (i \in DOMAIN is /\ all[i] = is[i]) \/ all[i] = new
        BY ONLY <4>2
      <4> QED
        BY <3>2, <4>1, <4>3
    <3> QED
      BY <3>1, <3>2
  <2>8. \A i \in DOMAIN js : Heir(js[i])
    <3>1. SUFFICES ASSUME NEW i \in DOMAIN js PROVE Heir(js[i])
      OBVIOUS
    <3>2. i \in DOMAIN all /\ js[i] = ApplyDeletes(all[i], ds)
      BY <2>3, <3>1
    <3>3. PICK s, r : s = all[i] /\ r = js[i]
      OBVIOUS
    <3>4. CASE i \in DOMAIN infos /\ all[i] = infos[i]
      <4>1. s \in SegmentInfos /\ r = ApplyDeletes(s, ds)
        BY <2>6, <3>2, <3>3, <3>4
      <4>2. r.name = s.name /\ s.delGen <= r.delGen
        BY <4>1, NextDels
      <4> QED
        BY <3>3, <3>4, <4>2 DEF Heir
    <3>5. CASE buf.docs # {} /\ all[i] = new
      <4>1. s.name = buf.seg /\ buf.seg # None
        BY <2>1, <3>3, <3>5 DEF IInv, BufOK, BufShape
      <4>2. r = s \/ r = [s EXCEPT !.dels = s.dels \cup (ds \cap s.docs), !.delGen = s.delGen + 1]
        BY <3>2, <3>3 DEF ApplyDeletes
      <4>3. s = new
        BY <3>3, <3>5
      <4>4. r.name = s.name
        <5>1. CASE r = s
          BY <5>1
        <5>2. CASE r = [s EXCEPT !.dels = s.dels \cup (ds \cap s.docs), !.delGen = s.delGen + 1]
          BY <2>1, <4>3, <5>2
        <5> QED
          BY <4>2, <5>1, <5>2
      <4>5. autoCommit /\ Up => \A g \in Nat : Del(buf.seg, g) \notin D!Named(commits, last)
        BY <4>1 DEF DelsKnown
      <4>6. autoCommit /\ Up
        BY <1>0, <1>2
      <4> QED
        BY <3>3, <4>1, <4>4, <4>5, <4>6 DEF Heir
    <3> QED
      BY <2>7, <3>2, <3>4, <3>5
  <2> QED
    BY <1>2, <2>2, <2>4, <2>5, <2>6, <2>8, DelsStill
<1> QED
  BY <1>3, <1>4

\* The deleter comes to know the newest commit, whose deletions files are
\* those of the segments.
LEMMA ConstructDeleterDels ==
  ASSUME IInv, FInv, DP!IInv, IInv', ConstructDeleter
  PROVE  DelsKnown'
PROOF
<1>1. op.todo # <<>> /\ HeadOf(op.todo) = "ctor" /\ Advance
  BY HeadAt DEF ConstructDeleter
<1>2. ~Undoing' /\ UNCHANGED <<infos, counter, buf>>
  BY <1>1, Beginnings DEF ConstructDeleter, si
<1>3. status = "opening" /\ buf = EmptyBuf /\ Busy = {}
  <2>1. PICK o, o2, st, ac : o = op /\ o2 = op' /\ st = status /\ ac = autoCommit
    OBVIOUS
  <2>2. Popping(o, o2, st, ac) /\ OrderShape(o, st, ac)
    BY <1>1, <2>1, Onward DEF FInv, OrderOK
  <2>3. status = "opening"
    BY <1>1, <2>1, <2>2 DEF Popping, OrderShape
  <2> QED
    BY <2>3, DeleterKnows DEF IInv, StartOK, StartShape
<1>4. D!Readable(gen) /\ disk[gen].infos = infos
  BY <1>1, HeadAt DEF FInv, WrittenOK, D!Newest
<1>5. gen \in DOMAIN disk /\ disk[gen].complete
  BY <1>4 DEF D!Readable
<1>6. gen \in Gen /\ gen \in Int /\ ListOK(infos, counter)
  BY <1>5, Generations, Types DEF IInv, DiskOK, InfosOK, Fits
<1>7. D!OpenEffect(gen, {})
  BY <1>3 DEF ConstructDeleter
<1>8. PICK point : point = D!CommitPoint(gen)
  OBVIOUS
<1>9. commits' = {point} /\ last' = <<>>
  BY <1>4, <1>6, <1>7, <1>8, OpenKeepsOne
<1>10. D!Range(point.files) = {SegmentsFile(gen)} \cup FilesIn(infos)
  BY <1>4, <1>5, <1>6, <1>8, PointFiles
<1>11. D!Named(commits', last') = {SegmentsFile(gen)} \cup FilesIn(infos)
  BY <1>9, <1>10 DEF D!Named, D!Range
<1>12. PICK is, F : is = infos /\ F = D!Named(commits', last')
  OBVIOUS
<1>13. DelsFit(is, F)
  <2>1. DelsFit(is, FilesIn(is)) /\ F = {SegmentsFile(gen)} \cup FilesIn(is)
    BY <1>6, <1>11, <1>12, OwnFit
  <2>2. \A n, g : Del(n, g) # SegmentsFile(gen)
    BY DEF Del, SegmentsFile
  <2> QED
    BY <2>1, <2>2 DEF DelsFit
<1>14. DelsFit(infos', D!Named(commits', last')) /\ buf'.seg = None
  BY <1>2, <1>3, <1>12, <1>13 DEF EmptyBuf
<1> QED
  BY <1>2, <1>14 DEF DelsKnown

\* A checkpoint adds no files but those of the segments and the doc stores.
LEMMA DeleterCheckpointDels ==
  ASSUME IInv, FInv, DP!IInv, DelsKnown, IInv', DeleterCheckpoint
  PROVE  DelsKnown'
PROOF
<1>1. op.todo # <<>> /\ HeadOf(op.todo) = "ckpt" /\ Advance
  BY HeadAt DEF DeleterCheckpoint
<1>2. ~Undoing' /\ UNCHANGED <<infos, counter, buf, status, autoCommit>>
  BY <1>1, Beginnings DEF DeleterCheckpoint, si
<1>3. SUFFICES ASSUME autoCommit, Up PROVE DelsKnown'
  BY <1>2 DEF DelsKnown, Up
<1>4. PICK a, F, F2, is, b : /\ a = Head(op.todo) /\ is = infos /\ b = buf
                             /\ F = D!Named(commits, last) /\ F2 = D!Named(commits', last')
  OBVIOUS
<1>5. DelsFit(is, F) /\ (b.seg # None => \A g \in Nat : Del(b.seg, g) \notin F)
  BY <1>3, <1>4 DEF DelsKnown
<1>6. ListOK(is, counter) /\ (b.seg # None => Unused(b.seg, is))
  BY <1>4 DEF IInv, InfosOK, Fits
<1>7. \A n, g : Del(n, g) \in F2 => Del(n, g) \in F \cup FilesIn(is)
  <2>1. PICK fs, ds : fs = InfosFiles(infos)
                      /\ ds = IF buf.store = None THEN <<>> ELSE <<Store(buf.store)>>
    OBVIOUS
  <2>2. D!CheckpointEffect(fs, ds, a[2], gen, Busy)
    BY <1>4, <2>1 DEF DeleterCheckpoint
  <2>3. fs \in Seq(File) /\ D!Range(fs) = FilesIn(is)
    BY <1>4, <2>1, VectorsOfFiles DEF IInv, InfosOK, Fits
  <2>4. ds \in Seq(File) /\ \A i \in DOMAIN ds : ds[i][1] = "store"
    <3>1. CASE buf.store = None
      BY <2>1, <3>1
    <3>2. CASE buf.store # None
      <4>1. PICK e : e = Store(buf.store)
        OBVIOUS
      <4>2. e \in File /\ e[1] = "store" /\ ds = <<e>>
        <5>1. buf.store \in Name
          BY <3>2 DEF IInv, BufOK, BufShape
        <5> QED
          BY <2>1, <3>2, <4>1, <5>1, Fields DEF Store, File
      <4> QED
        BY ONLY <4>2
    <3> QED
      BY <3>1, <3>2
  <2>5. PICK new, front, gone :
           /\ new = IF a[2] THEN {D!CommitPoint(gen)} ELSE {}
           /\ front = IF a[2] THEN ds ELSE fs \o ds
           /\ gone = IF a[2] THEN commits ELSE {}
    OBVIOUS
  <2>6. commits' = (commits \ gone) \cup new /\ last' = front
    BY <2>2, <2>5 DEF D!CheckpointEffect
  <2>7. \A i \in DOMAIN front : front[i] \in FilesIn(is) \/ front[i][1] = "store"
    <3>1. \A i \in DOMAIN fs : fs[i] \in FilesIn(is)
      BY <2>3 DEF D!Range
    <3>2. PICK G, j : G = FilesIn(is) /\ j = fs \o ds
      OBVIOUS
    <3>3. \A i \in DOMAIN fs : fs[i] \in G
      BY <3>1, <3>2
    <3>4. \A i \in DOMAIN j : j[i] \in G \/ j[i][1] = "store"
      <4>1. fs \in Seq(File) /\ ds \in Seq(File) /\ j = fs \o ds
        BY <2>3, <2>4, <3>2
      <4>2. \A i \in DOMAIN j : \/ i \in DOMAIN fs /\ j[i] = fs[i]
                                \/ i - Len(fs) \in DOMAIN ds /\ j[i] = ds[i - Len(fs)]
        BY ONLY <4>1
      <4> QED
        BY <2>4, <3>3, <4>2
    <3> QED
      BY <2>4, <2>5, <3>2, <3>4
  <2>8. a[2] => D!Range(D!CommitPoint(gen).files) = {SegmentsFile(gen)} \cup FilesIn(is)
    <3>1. SUFFICES ASSUME a[2] PROVE D!Range(D!CommitPoint(gen).files) = {SegmentsFile(gen)} \cup FilesIn(is)
      OBVIOUS
    <3>2. a = <<"ckpt", TRUE>>
      <4>1. a[1] = "ckpt" /\ a \in Step
        BY <1>1, <1>4, HeadReady
      <4>2. a \in {"ckpt"} \X BOOLEAN
        BY <4>1 DEF Step
      <4>3. a = <<"ckpt", a[2]>> /\ a[2] \in BOOLEAN
        BY <4>2
      <4>4. a[2] = TRUE
        BY <3>1, <4>3
      <4> QED
        BY <4>3, <4>4
    <3>3. gen \in DOMAIN disk /\ disk[gen].complete /\ disk[gen].infos = infos
      BY <1>1, <1>4, <3>2 DEF FInv, WrittenOK
    <3>4. gen \in Gen
      BY <3>3 DEF IInv, DiskOK
    <3> QED
      BY <1>4, <1>6, <3>3, <3>4, PointFiles
  <2>9. SUFFICES ASSUME NEW f \in F2, f[1] = "del" PROVE f \in F \cup FilesIn(is)
    BY Fields
  <2>10. F2 = D!Range(front) \cup UNION {D!Range(c.files) : c \in (commits \ gone) \cup new}
    BY <1>4, <2>6 DEF D!Named
  <2>11. CASE f \in D!Range(front)
    BY <2>7, <2>9, <2>11 DEF D!Range
  <2>12. CASE \E c \in commits : f \in D!Range(c.files)
    BY <1>4, <2>12 DEF D!Named
  <2>13. CASE \E c \in new : f \in D!Range(c.files)
    <3>1. a[2] /\ f \in D!Range(D!CommitPoint(gen).files)
      BY <2>5, <2>13
    <3>2. f # SegmentsFile(gen)
      BY <2>9, Fields
    <3> QED
      BY <2>8, <3>1, <3>2
  <2> QED
    BY <2>10, <2>11, <2>12, <2>13
<1>8. DelsFit(is, F2)
  <2>1. DelsFit(is, FilesIn(is))
    BY <1>6, OwnFit
  <2> QED
    BY <1>5, <1>7, <2>1 DEF DelsFit
<1>9. b.seg # None => \A g \in Nat : Del(b.seg, g) \notin F2
  <2>1. SUFFICES ASSUME b.seg # None, NEW g \in Nat, Del(b.seg, g) \in F2 PROVE FALSE
    OBVIOUS
  <2>2. Del(b.seg, g) \in FilesIn(is)
    BY <1>5, <1>7, <2>1
  <2>3. \E k \in DOMAIN is : is[k].name = b.seg
    BY <1>6, <2>2, OwnDels
  <2> QED
    BY <1>6, <2>1, <2>3 DEF Unused
<1>10. DelsFit(infos', D!Named(commits', last'))
       /\ (buf'.seg # None => \A g \in Nat : Del(buf'.seg, g) \notin D!Named(commits', last'))
  BY <1>2, <1>4, <1>8, <1>9
<1> QED
  BY <1>2, <1>10 DEF DelsKnown

\* Every step keeps what is known of deletions files.
LEMMA DelsStep ==
  ASSUME IInv, FInv, DP!IInv, DelsKnown, IInv', ~Pins, [Next]_vars
  PROVE  DelsKnown'
PROOF
<1>1. CASE OpStep
  BY <1>1, ConstructDeleterDels, FlushDocStoresDels, FlushSegmentDels, FlushCompoundDels,
     FailedDels, DeleterCheckpointDels, PlainDels, GoneDels DEF OpStep
<1>2. CASE Failure
  BY <1>2, FailedDels, BegunDels, GoneDels DEF Failure
<1>3. CASE MergeStep
  BY <1>3, AsideDels, BegunDels, CommitMergeDels, CommitCompoundDels DEF MergeStep
<1>4. CASE CloseStep
  BY <1>4, AsideDels, BegunDels, GoneDels DEF CloseStep
<1>5. ~OpenReader /\ ~CloseReader
  BY DEF OpenReader, CloseReader, FInv, Clean
<1>6. CASE Call
  BY <1>5, <1>6, GoneDels, AsideDels, BegunDels DEF Call
<1>7. CASE UNCHANGED vars
  BY <1>7, AsideDels
<1> QED
  BY <1>1, <1>2, <1>3, <1>4, <1>6, <1>7 DEF Next

\* Every step asks of the deleter what its contract allows, when no thread
\* adds documents or flushes while another one aborts, and files can be
\* deleted while a reader has them open.
LEMMA StepSafe ==
  ASSUME IInv, FInv, DP!IInv, DelsKnown, IInv', ~Overlap, ~Pins, [Next]_vars
  PROVE  [DeleterStep]_(D!vars) /\ FInv'
PROOF
<1>1. CASE OpStep
  BY <1>1, ConstructDeleterSafe, FlushDocStoresSafe, FlushSegmentSafe, FlushCompoundSafe,
     StartWriteSafe, FinishWriteSafe, DeleterCheckpointSafe, DeletePartialSafe, DeleteFilesSafe,
     DeleteNewFilesSafe, RefreshSafe, ThrowSafe, MergeBindSafe, MergeReleaseSafe, MergedSafe,
     CloseDeleterSafe DEF OpStep
<1>2. CASE Failure
  BY <1>2, FlushFailsSafe, FlushCompoundFailsSafe, WriteFailsSafe, MergeDeletesFailSafe,
     MergeCompoundFailsSafe, CrashSafe DEF Failure
<1>3. CASE MergeStep
  BY <1>3, MergeBuildSafe, MergeFailsSafe, CommitMergeAbortedSafe, CommitMergeSafe,
     MergeCompoundSafe, CommitCompoundSafe DEF MergeStep
<1>4. CASE CloseStep
  BY <1>4, StopMergesSafe, CloseCommitSafe, AbortRollbackSafe, AbortCloseSafe DEF CloseStep
<1>5. ~OpenReader /\ ~CloseReader
  BY DEF OpenReader, CloseReader, FInv, Clean
<1>6. CASE Call
  BY <1>5, <1>6, OpenSafe, CreateSafe, AddDocSafe, AddDocFailsSafe, DeleteDocSafe, FlushSafe,
     MergeInitSafe, CloseSafe, AbortSafe DEF Call
<1>7. CASE UNCHANGED vars
  BY <1>7, StutterSafe
<1> QED
  BY <1>1, <1>2, <1>3, <1>4, <1>6, <1>7 DEF Next

\* The segments, the files and what the deleter knows of them fit each other.
Fitting == IInv /\ DP!IInv /\ FInv /\ DelsKnown

LEMMA FittingStep ==
  ASSUME Fitting, ~Overlap, ~Pins, [Next]_vars
  PROVE  Fitting' /\ [DeleterStep]_(D!vars) /\ DP!Advances
PROOF
<1>1. IInv'
  BY NextInv DEF Fitting
<1>2. [DeleterStep]_(D!vars) /\ FInv'
  BY <1>1, StepSafe DEF Fitting
<1>3. DP!IInv' /\ DP!Advances
  BY <1>1, <1>2, Serving DEF Fitting
<1>4. DelsKnown'
  BY <1>1, DelsStep DEF Fitting
<1> QED
  BY <1>1, <1>2, <1>3, <1>4 DEF Fitting

-----------------------------------------------------------------------------
(* Theorems.  Overlap is left out because the code does not keep the       *)
(* properties with it, Pins because a file whose deletion is to be tried   *)
(* again is a state FInv does not describe.                                *)

\* The inductive invariant: every list of segments the writer, its undo list,
\* its rollback list, the running merge and the newest commit hold has its
\* files in the directory, and whatever the rest of an operation of
\* IndexWriter.cpp still counts on is referenced by then; and no commit knows
\* a deletions file of a name that applyDeletes may still use.
THEOREM FilesFit ==
  ASSUME ~Overlap, ~Pins
  PROVE  Spec => []Fitting
PROOF
<1>1. Init => Fitting
  <2>1. Init => DelsKnown
    BY DEF Init, DelsKnown, Up
  <2> QED
    BY <2>1, InitInv, FilesInit DEF Fitting
<1>2. Fitting /\ [Next]_vars => Fitting'
  BY FittingStep
<1> QED
  BY <1>1, <1>2, PTL DEF Spec

\* IndexWriter drives IndexFileDeleter as that module's client may: every
\* call it makes, from init() to closeInternal(), on the error paths of
\* doFlush, commitMerge and mergeMiddle too, is one of the deleter's actions
\* with its guard, so no file is incRef'd that is not there, and no commit is
\* announced before its segments_N is written.
THEOREM ContractKept ==
  ASSUME ~Overlap, ~Pins
  PROVE  Spec => DeleterContract
PROOF
<1>1. Init => D!Init
  BY InitInv, FilesInit
<1>2. Fitting /\ [Next]_vars => [DeleterStep]_(D!vars)
  BY FittingStep
<1> QED
  BY <1>1, <1>2, FilesFit, PTL DEF Spec, DeleterContract

LEMMA ExistFollows ==
  ASSUME Fitting
  PROVE  SegmentFilesExist
PROOF
<1>1. PICK w : w = World
  OBVIOUS
<1>2. FilesIn(infos) \subseteq w.safe
  BY <1>1 DEF Fitting, FInv, InfosSound, Sound, FilesSound
<1> QED
  BY <1>1, <1>2, WorldIs DEF SegmentFilesExist

\* The files of segmentInfos are in the directory at every step, whatever
\* flushes, merges, failed commits, rollbacks and crashes came before, and
\* also while the deleter has not been told of the newest segments.
THEOREM FilesExist ==
  ASSUME ~Overlap, ~Pins
  PROVE  Spec => []SegmentFilesExist
PROOF
<1>1. Fitting => SegmentFilesExist
  BY ExistFollows
<1> QED
  BY <1>1, FilesFit, PTL

LEMMA FreshFollows ==
  ASSUME Fitting
  PROVE  NamesFresh
PROOF
  BY DEF Fitting, FInv, NamesBelow, NamesFresh

\* newSegmentName never hands out the name of a file somebody references, also
\* after a crash, an abort() or a reopen: the counter that is read with
\* segments_N is above every name in that commit.
THEOREM NamesNew ==
  ASSUME ~Overlap, ~Pins
  PROVE  Spec => []NamesFresh
PROOF
<1>1. Fitting => NamesFresh
  BY FreshFollows
<1> QED
  BY <1>1, FilesFit, PTL

LEMMA KeptFollows ==
  ASSUME DP!IInv
  PROVE  D!RefCountExact /\ D!Protected /\ D!NewestCommitIntact
PROOF
<1>1. \A rc, f : DP!At(rc, f) = D!At(rc, f)
  BY DEF DP!At, D!At
<1>2. DP!RefCountExact => D!RefCountExact
  <2>1. \A S : DP!Cardinality(S) = D!Cardinality(S)
    BY DEF DP!Cardinality, D!Cardinality
  <2>2. \A H, fs, f : DP!Count(fs, f) = D!Count(fs, f) /\ DP!Uses(H, f) = D!Uses(H, f)
    BY <2>1 DEF DP!Count, D!Count, DP!Uses, D!Uses
  <2>3. \A H, fs, f : DP!Tally(H, fs, f) = D!Tally(H, fs, f)
    BY <2>1, <2>2 DEF DP!Tally, D!Tally
  <2> QED
    BY <1>1, <2>3, SameNames DEF DP!RefCountExact, D!RefCountExact, Up
<1>3. DP!Protected => D!Protected
  BY SameNames DEF DP!Protected, D!Protected, Up
<1>4. DP!KeptIntact => D!NewestCommitIntact
  BY SameNames, SameCommits DEF DP!KeptIntact, DP!Kept, D!NewestCommitIntact, Stored
<1> QED
  BY <1>2, <1>3, <1>4 DEF DP!IInv, DP!Accounts

\* What IndexFileDeleter owes any client, it gives this one: its reference
\* counts are those of the commits, the last checkpoint and the running merge,
\* none of the files they reference is gone, and the newest commit has all of
\* its files.
THEOREM FilesKept ==
  ASSUME ~Overlap, ~Pins
  PROVE  Spec => [](D!RefCountExact /\ D!Protected /\ D!NewestCommitIntact)
PROOF
<1>1. Fitting => D!RefCountExact /\ D!Protected /\ D!NewestCommitIntact
  BY KeptFollows DEF Fitting
<1> QED
  BY <1>1, FilesFit, PTL

LEMMA AdvanceFollows ==
  ASSUME DP!Advances
  PROVE  [\A g \in Gen : D!Newest(g) => \E h \in Gen : h >= g /\ D!Newest(h)']_(D!vars)
PROOF
<1>1. \A h \in Gen : DP!Newest(h)' => D!Newest(h)'
  <2>1. \A h : DP!Readable(h)' <=> D!Readable(h)'
    BY DEF DP!Readable, D!Readable, Stored
  <2> QED
    BY <2>1 DEF DP!Newest, D!Newest
<1>2. \A g \in Gen : D!Newest(g) => DP!Newest(g)
  BY SameCommits
<1> QED
  BY <1>1, <1>2 DEF DP!Advances

\* While IndexWriter flushes, merges, closes, aborts, fails and crashes, a
\* reader that looks for the newest commit never finds an older one than it
\* could have found before.
THEOREM WriterAdvances ==
  ASSUME ~Overlap, ~Pins
  PROVE  Spec => D!CommitsAdvance
PROOF
<1>1. Fitting /\ [Next]_vars =>
        [\A g \in Gen : D!Newest(g) => \E h \in Gen : h >= g /\ D!Newest(h)']_(D!vars)
  BY FittingStep, AdvanceFollows
<1> QED
  BY <1>1, FilesFit, PTL DEF Spec, D!CommitsAdvance

\* For the deleter the contract is enough: with a file system that refuses to
\* delete open files, and with threads that use the writer during abort(), a
\* run in which IndexWriter keeps the contract keeps every count exact, every
\* referenced file and the newest commit.
THEOREM ContractServes ==
  Spec /\ DeleterContract => [](D!RefCountExact /\ D!Protected /\ D!NewestCommitIntact)
PROOF
<1>1. IInv /\ D!Init => DP!IInv
  BY Generations, DP!InitInv DEF D!Init, DP!Init, Stored, Up, Unreg
<1>2. IInv /\ IInv' /\ DP!IInv /\ [DeleterStep]_(D!vars) => DP!IInv'
  BY Serving
<1>3. DP!IInv => D!RefCountExact /\ D!Protected /\ D!NewestCommitIntact
  BY KeptFollows
<1> QED
  BY <1>1, <1>2, <1>3, Invariance, PTL DEF DeleterContract

=============================================================================
