------------------------ MODULE IndexReaders_proofs ------------------------
(***************************************************************************)
(* Proofs that the safety properties of IndexReaders hold for any number   *)
(* of readers, writers and commits, any look ahead and any number of       *)
(* faults.                                                                 *)
(*                                                                         *)
(* They all follow from one inductive invariant, IInv.  Its first part     *)
(* holds always: the states of a reader or writer and of its search fit    *)
(* together (HandlesOK), and the lock has one holder (LockOK).  The other  *)
(* holds as long as no commit is damaged or reverted and no lock is taken  *)
(* away (Clean): what is in the directory (FilesOK), that whoever commits  *)
(* has read the newest commit and is the only one to leave a file          *)
(* incomplete (CommitsOK), and what a search knows (SearchesOK).           *)
(*                                                                         *)
(* The heart is Knows: the commit that was the newest when a search began  *)
(* is there, or all up to it are gone (Gone), since deletions take all the *)
(* older commits.  So the generation a search tries is at least that one,  *)
(* or what it finds has to be newer; and as long as nothing is committed   *)
(* the first generation it tries, or the one before, is right (Straight).  *)
(*                                                                         *)
(* LocalStep and WriteStep split IInv up: the former is for the steps of   *)
(* one reader or writer that write no commit, the latter for those that    *)
(* do.  There is one lemma per action.                                     *)
(***************************************************************************)
EXTENDS IndexReaders, FiniteSetTheorems, TLAPS

-----------------------------------------------------------------------------
(* The inductive invariant.                                                *)

\* What may go wrong with the lock and the files that the invariant of the
\* files allows for: after it nothing is said of them.
Clean == mishaps \cap {"damaged", "released", "reverted"} = {}
Skipped == "skipped" \in mishaps

\* The steps of a commit, in which a reader or writer has the lock.
Committing == {"deleter", "create", "fill", "undo", "tear", "gen", "checkpoint", "release"}

\* The states h of a reader or writer p and s of its search fit together.
Shape(p, h, s) ==
    /\ s.pc = "idle" <=> h.pc # "search"
    /\ h.pc = "search" => s.goal \in IF p \in Reader THEN {"open", "current", "reopen", "check"}
                                                   ELSE {"read"}
    /\ h.pc = "closed" => h = Closed
    /\ h.pc \in Committing \cup {"open"} => h.gen \in Gen /\ h.lastGen \in Gen
    /\ s.goal \in {"current", "reopen", "check"} => h.gen \in Gen /\ h.lastGen \in Gen
    /\ h.pc = "create" \/ (h.pc = "deleter" /\ p \in Reader) => h.gen < MaxGen
    /\ s.goal # "none" => s.pc # "idle"

\* Who has the lock, and what a reader that does not commit is like.
Locking(p, h, s) ==
    /\ h.pc \in Committing \/ h.hasChanges \/ h.unchecked => h.holds = "yes"
    /\ p \in Writer /\ h.pc # "closed" => h.holds = "yes" /\ ~h.unchecked
    /\ s.goal \in {"check", "read"} => h.holds = "yes" /\ ~h.unchecked
    /\ s.goal = "open" => h.holds = "no"
    /\ h.pc \in {"checkpoint", "release"} => h.gen = h.lastGen
    /\ p \in Reader =>
         /\ ~h.hasChanges => h.gen = h.lastGen
         /\ h.pc \in Committing => h.hasChanges
         /\ h.pc = "search" => ~h.hasChanges
         /\ h.pc \in {"open", "search"} /\ s.goal # "check" /\ h.holds = "yes" =>
              h.hasChanges \/ h.unchecked

\* The generation a search tries, and how far it looked ahead.
Bounded(s) ==
    /\ s.gen <= MaxGen + s.look
    /\ s.method = 0 => s.look = 0
    /\ s.pc \in {"list", "gen"} => s.method = 0
    /\ s.pc \in {"infos", "files"} => s.gen >= 1
    /\ s.prev => s.gen > 1
    /\ s.pc = "found" => s.gen \in Gen

HandlesOK == \A p \in Handle : /\ Shape(p, handle[p], search[p])
                               /\ Locking(p, handle[p], search[p])
                               /\ Bounded(search[p])

\* The newest commit is there; what is incomplete is newer, and only one
\* generation newer unless one was skipped.
FilesOK ==
    /\ file[newest] = "whole"
    /\ genFile <= newest
    /\ \A g \in Gen :
         /\ file[g] # "damaged"
         /\ file[g] = "whole" => g <= newest
         /\ file[g] = "torn" => g > newest /\ (Skipped \/ g = newest + 1)

\* The incomplete files while p commits.
TornOK(p, h) ==
    /\ \/ h.pc \in {"create", "tear", "gen", "checkpoint", "release"}
       \/ h.pc = "open" /\ p \in Writer
       => \A g \in Gen : file[g] # "torn"
    /\ h.pc \in {"fill", "undo"} => \A g \in Gen : file[g] = "torn" => g = h.gen

\* Whoever commits has read the newest commit.
Current(h) ==
    /\ h.lastGen <= newest
    /\ h.holds = "yes" /\ ~h.unchecked /\ h.pc \notin {"closed", "search", "tear", "gen"}
         => h.lastGen = newest
    /\ h.pc \in {"create", "fill", "undo", "checkpoint", "release"} => h.lastGen = newest
    /\ h.pc \in {"tear", "gen", "checkpoint", "release"} => h.gen = newest
    /\ h.pc \in {"open", "deleter", "create"} =>
         h.gen >= h.lastGen /\ (Skipped \/ h.gen = h.lastGen)
    /\ h.pc \in {"fill", "undo"} => h.gen > newest /\ (Skipped \/ h.gen = newest + 1)

\* No commit up to g is left.
Gone(g) == \A h \in Gen : h <= g => file[h] # "whole"

\* What a search knows of the commit that was the newest when it began.
Knows(s) ==
    /\ s.start \in Gen /\ s.start <= newest
    /\ s.goal \in {"check", "read"} => s.start = newest
    /\ file[s.start] = "whole" \/ Gone(s.start)
    /\ s.pc = "list" => s.start \in s.seen \/ Gone(s.start)
    /\ s.pc = "gen" => s.genA >= s.start \/ Gone(s.start)
    /\ s.pc \in {"infos", "files"} =>
         (s.gen >= s.start /\ (s.prev => s.gen > s.start)) \/ Gone(s.start)
    /\ s.pc = "found" => s.gen >= s.start
    /\ s.pc = "found" /\ s.goal \in {"open", "reopen", "read"} => s.gen <= newest
    /\ s.pc = "lost" => newest > s.start \/ Skipped

\* With no commit since, the first generation that is tried is that of the
\* newest commit or of the one being written, and the one before it is next.
Straight(s) ==
    /\ s.pc \in {"list", "gen"} => s.gen = 0 /\ ~s.retry
    /\ s.pc = "list" => \A g \in s.seen : g <= s.start + 1
    /\ s.pc = "gen" => s.genA \in {s.start, s.start + 1}
    /\ s.pc \in {"infos", "files"} => /\ s.gen \in {s.start, s.start + 1}
                                      /\ ~s.retry /\ s.method = 0
                                      /\ s.prev => s.gen = s.start + 1
    /\ s.pc = "files" => s.start = IF s.prev THEN s.gen - 1 ELSE s.gen

Informed(s) == Knows(s) /\ (s.start = newest /\ ~Skipped => Straight(s))

SearchesOK == \A p \in Handle : search[p].pc # "idle" => Informed(search[p])

CommitsOK == \A p \in Handle : TornOK(p, handle[p]) /\ Current(handle[p])

\* LockExact, without the need to count.
LockOK ==
    "released" \notin mishaps =>
        /\ \A p, q \in Handle : handle[p].holds = "yes" /\ handle[q].holds = "yes" => p = q
        /\ \A p \in Handle : handle[p].holds = "yes" => lockFile
        /\ lockFile => "orphaned" \in mishaps \/ \E p \in Handle : handle[p].holds = "yes"

IInv ==
    /\ TypeOK /\ HandlesOK /\ LockOK
    /\ Clean => FilesOK /\ CommitsOK /\ SearchesOK

-----------------------------------------------------------------------------
(* Steps that write no commit.                                             *)

HandleState ==
    [pc : {"closed", "search", "open"} \cup Committing, gen : {0} \cup Gen,
     lastGen : {0} \cup Gen, hasChanges : BOOLEAN, stale : BOOLEAN,
     holds : {"no", "yes", "dangling"}, unchecked : BOOLEAN]

SearchState ==
    [goal : {"none", "open", "current", "reopen", "check", "read"},
     pc : {"idle", "list", "gen", "infos", "files", "found", "lost", "failed"},
     seen : SUBSET Gen, genA : {0} \cup Gen, method : {0, 1},
     gen : 0 .. MaxGen + Lookahead, look : 0 .. Lookahead,
     retry : BOOLEAN, prev : BOOLEAN, start : {0} \cup Gen]

\* These are the types of TypeOK.
LEMMA HandleStates ==
    HandleState = [
        pc : {"closed", "search", "open", "deleter", "create", "fill", "undo",
              "tear", "gen", "checkpoint", "release"},
        gen : {0} \cup Gen, lastGen : {0} \cup Gen, hasChanges : BOOLEAN,
        stale : BOOLEAN, holds : {"no", "yes", "dangling"}, unchecked : BOOLEAN]
<1>1. {"closed", "search", "open"} \cup Committing =
        {"closed", "search", "open", "deleter", "create", "fill", "undo",
         "tear", "gen", "checkpoint", "release"}
  BY DEF Committing
<1>. QED
  BY <1>1, Zenon DEF HandleState

\* The variables but for handle and search have their types.
OtherTypes ==
    /\ file \in [Gen -> {"none", "torn", "whole", "damaged"}]
    /\ genFile \in {0} \cup Gen /\ lockFile \in BOOLEAN
    /\ newest \in Gen /\ faults \in 0 .. MaxFaults
    /\ mishaps \subseteq {"orphaned", "released", "damaged", "skipped",
                          "reverted"}

\* TypeOK with names for the sets of records.
LEMMA Types ==
    /\ TypeOK <=> /\ OtherTypes /\ handle \in [Handle -> HandleState]
                  /\ search \in [Handle -> SearchState]
    /\ TypeOK' <=> /\ OtherTypes' /\ handle' \in [Handle -> HandleState]
                   /\ search' \in [Handle -> SearchState]
BY HandleStates, Zenon DEF TypeOK, OtherTypes, SearchState

\* What has to hold of the states h of p and s of its search.
Fits(p, h, s) ==
    /\ h \in HandleState /\ s \in SearchState
    /\ Shape(p, h, s) /\ Locking(p, h, s) /\ Bounded(s)
    /\ Clean => /\ TornOK(p, h) /\ Current(h)
                /\ s.pc # "idle" => Informed(s)

\* Everything fits, all the time.
LEMMA AllFit ==
    ASSUME IInv, NEW p \in Handle
    PROVE  Fits(p, handle[p], search[p])
BY Types DEF IInv, HandlesOK, CommitsOK, SearchesOK, Fits

\* Something goes wrong for good.
Worse == mishaps \ {"orphaned"} \subseteq mishaps'

\* Who has the lock does not change.
LEMMA LockKept ==
    ASSUME LockOK, Worse, lockFile' = lockFile,
           "orphaned" \in mishaps => "orphaned" \in mishaps',
           \A q \in Handle : handle'[q].holds = handle[q].holds
    PROVE  LockOK'
BY DEF LockOK, Worse

\* A step of p that writes and deletes no commit, or after which nothing is
\* said of them.
LEMMA LocalStep ==
    ASSUME IInv, NEW p \in Handle, NEW h, NEW s,
           handle' = [handle EXCEPT ![p] = h], search' = [search EXCEPT ![p] = s],
           Fits(p, h, s), OtherTypes', LockOK', Worse,
           Clean' => /\ UNCHANGED <<file, newest>> /\ genFile' <= newest
                     /\ Skipped' <=> Skipped
    PROVE  IInv'
<1>1. Clean' => Clean
  BY DEF Clean, Worse
<1>2. TypeOK'
  BY Types DEF IInv, Fits
<1>3. \A q \in Handle : /\ q = p => handle'[q] = h /\ search'[q] = s
                        /\ q # p => handle'[q] = handle[q] /\ search'[q] = search[q]
  BY Types DEF IInv
<1>4. \A q \in Handle : Fits(q, handle'[q], search'[q])
  BY <1>3, AllFit
<1>5. HandlesOK'
  BY <1>4 DEF HandlesOK, Fits
<1>6. ASSUME Clean' PROVE FilesOK' /\ CommitsOK' /\ SearchesOK'
  <2>1. FilesOK'
    BY <1>1, <1>6 DEF IInv, FilesOK
  <2>2. ASSUME NEW q \in Handle
        PROVE  TornOK(q, handle[q])' /\ Current(handle[q])'
    <3>1. TornOK(q, handle'[q]) /\ Current(handle'[q])
      BY <1>1, <1>4, <1>6 DEF Fits
    <3>. QED
      BY <1>6, <3>1 DEF TornOK, Current
  <2>3. ASSUME NEW q \in Handle, search'[q].pc # "idle"
        PROVE  Informed(search[q])'
    <3>1. Informed(search'[q])
      BY <1>1, <1>4, <1>6, <2>3 DEF Fits
    <3>. QED
      BY <1>6, <3>1 DEF Informed, Knows, Straight, Gone
  <2>. QED
    BY <2>1, <2>2, <2>3 DEF CommitsOK, SearchesOK
<1>. QED
  BY <1>2, <1>5, <1>6 DEF IInv

\* A step that changes no reader or writer.
LEMMA OuterStep ==
    ASSUME IInv, UNCHANGED <<handle, search>>, OtherTypes', LockOK', Worse,
           Clean' => UNCHANGED <<file, genFile, newest>> /\ (Skipped' <=> Skipped)
    PROVE  IInv'
<1>1. Clean' => Clean
  BY DEF Clean, Worse
<1>2. TypeOK' /\ HandlesOK'
  BY Types DEF IInv, HandlesOK, Shape, Locking, Bounded
<1>3. ASSUME Clean' PROVE FilesOK' /\ CommitsOK' /\ SearchesOK'
  BY <1>1, <1>3 DEF IInv, FilesOK, CommitsOK, TornOK, Current,
                    SearchesOK, Informed, Knows, Straight, Gone
<1>. QED
  BY <1>2, <1>3 DEF IInv

-----------------------------------------------------------------------------
(* The search.                                                             *)

\* A step of the search of p alone.
LEMMA Searches ==
    ASSUME IInv, NEW p \in Handle, NEW s \in SearchState,
           search[p].pc # "idle", s.pc # "idle", s.goal = search[p].goal, Bounded(s),
           Clean => Informed(s),
           search' = [search EXCEPT ![p] = s],
           UNCHANGED <<directory, handle, newest, mishaps>>, faults' \in 0 .. MaxFaults
    PROVE  IInv'
<1>1. handle' = [handle EXCEPT ![p] = handle[p]]
  BY Types DEF IInv
<1>2. Fits(p, handle[p], s)
  BY AllFit DEF Fits, Shape, Locking
<1>3. OtherTypes' /\ LockOK' /\ Worse
  BY Types DEF IInv, OtherTypes, LockOK, Worse, directory
<1>4. Clean' => /\ UNCHANGED <<file, newest>> /\ genFile' <= newest
                /\ Skipped' <=> Skipped
  BY DEF IInv, FilesOK, Clean, Skipped, directory
<1>. QED
  BY <1>1, <1>2, <1>3, <1>4, LocalStep

\* Generation n is tried after a look ahead of k.
Tries(s, m, k, n, a) ==
    [s EXCEPT !.pc = "infos", !.seen = {}, !.genA = 0, !.prev = FALSE,
              !.method = m, !.look = k, !.gen = n, !.retry = a]

LEMMA TriesOK ==
    ASSUME NEW s \in SearchState, NEW m \in {0, 1}, NEW k \in 0 .. Lookahead,
           NEW n \in Nat \ {0}, n <= MaxGen + k, m = 0 => k = 0, NEW a \in BOOLEAN
    PROVE  LET t == Tries(s, m, k, n, a)
           IN  /\ t \in SearchState /\ Bounded(t) /\ t.goal = s.goal /\ t.start = s.start
               /\ t.pc = "infos" /\ t.gen = n /\ t.method = m /\ t.retry = a /\ ~t.prev
<1>. USE BoundsAssumption DEF SearchState, Tries
<1>1. n \in 0 .. MaxGen + Lookahead
  OBVIOUS
<1>2. Tries(s, m, k, n, a) \in SearchState
  BY <1>1
<1>. QED
  BY <1>2 DEF Bounded

LEMMA NoSearchOK == NoSearch \in SearchState
BY BoundsAssumption DEF NoSearch, SearchState

\* Searches that start and end.
LEMMA EndsOK ==
    ASSUME NEW s \in SearchState
    PROVE  LET lost  == Lost(s)
               found == Found(s)
               tried == IF s.prev THEN s.gen - 1 ELSE s.gen
           IN  /\ lost \in SearchState /\ lost.pc = "lost" /\ Bounded(lost)
               /\ lost.goal = s.goal /\ lost.start = s.start
               /\ tried \in Gen =>
                    /\ found \in SearchState /\ found.pc = "found" /\ Bounded(found)
                    /\ found.goal = s.goal /\ found.start = s.start
                    /\ found.gen = tried
<1>. DEFINE N == NoSearch
            tried == IF s.prev THEN s.gen - 1 ELSE s.gen
            lost  == [N EXCEPT !.goal = s.goal, !.pc = "lost", !.start = s.start]
            found == [N EXCEPT !.goal = s.goal, !.pc = "found", !.start = s.start,
                               !.gen = tried]
<1>1. N \in SearchState /\ N.look = 0 /\ N.method = 0 /\ N.gen = 0 /\ ~N.prev
  BY NoSearchOK DEF NoSearch
<1>2. Lost(s) = lost /\ Found(s) = found
  BY Zenon DEF Lost, Found
<1>. HIDE DEF N, tried
<1>3. lost \in SearchState /\ lost.pc = "lost" /\ lost.goal = s.goal /\ lost.start = s.start
      /\ lost.look = 0 /\ lost.method = 0 /\ lost.gen = 0 /\ ~lost.prev
  BY <1>1 DEF SearchState
<1>4. Bounded(lost)
  BY <1>3, BoundsAssumption DEF Bounded
<1>5. ASSUME tried \in Gen
      PROVE  /\ found \in SearchState /\ found.pc = "found" /\ found.goal = s.goal
             /\ found.start = s.start /\ found.gen = tried /\ found.look = 0
             /\ found.method = 0 /\ ~found.prev
  <2>1. tried \in 0 .. MaxGen + Lookahead
    BY <1>5, BoundsAssumption DEF Gen
  <2>. QED
    BY <1>1, <2>1 DEF SearchState
<1>6. ASSUME tried \in Gen PROVE Bounded(found)
  BY <1>5, <1>6, BoundsAssumption DEF Bounded, Gen
<1>. HIDE DEF lost, found
<1>. QED
  BY <1>2, <1>3, <1>4, <1>5, <1>6 DEF tried

\* What Try makes of a search for which generation g is found, or tried again.
LEMMA TryOK ==
    ASSUME NEW s \in SearchState, NEW g \in Nat \ {0},
           \/ s.method = 0 /\ s.look = 0 /\ g <= MaxGen
           \/ s.method = 1 /\ s.gen = g /\ g <= MaxGen + s.look
    PROVE  LET t == Try(s, g)
           IN  /\ t \in SearchState /\ t.goal = s.goal /\ t.start = s.start /\ Bounded(t)
               /\ t.pc = "infos" \/ (t.pc = "lost" /\ s.retry)
               /\ t.pc = "infos" => t.gen >= g /\ ~t.prev
               /\ s.method = 0 /\ s.gen # g =>
                    t.pc = "infos" /\ t.gen = g /\ ~t.retry /\ t.method = 0
<1>1. /\ s.gen \in Nat /\ s.look \in 0 .. Lookahead /\ s.method \in {0, 1}
      /\ s.retry \in BOOLEAN /\ MaxGen \in Nat /\ Lookahead \in Nat
  BY BoundsAssumption DEF SearchState
<1>. DEFINE ahead == s.method = 1 \/ (s.gen = g /\ s.retry)
            more  == ahead /\ s.look < Lookahead
            next  == IF more THEN g + 1 ELSE g
            look  == IF more THEN s.look + 1 ELSE s.look
            m     == IF ahead THEN 1 ELSE 0
            again == next = s.gen
            u     == Tries(s, m, look, next, again)
<1>2. Try(s, g) = IF again /\ s.retry THEN Lost(s) ELSE u
  BY Zenon DEF Try, Tries
<1>3. m \in {0, 1} /\ look \in 0 .. Lookahead /\ next \in Nat \ {0} /\ next >= g
      /\ next <= MaxGen + look /\ again \in BOOLEAN
  BY <1>1
<1>4. (m = 0 => look = 0) /\ (s.method = 0 /\ s.gen # g => next = g /\ m = 0)
  BY <1>1
<1>5. s.method = 0 /\ s.gen # g => ~again
  BY <1>4
<1>. HIDE DEF m, look, next, again
<1>6. /\ u \in SearchState /\ Bounded(u) /\ u.goal = s.goal /\ u.start = s.start
      /\ u.pc = "infos" /\ u.gen = next /\ u.method = m /\ u.retry = again /\ ~u.prev
  BY <1>3, <1>4, TriesOK
<1>. HIDE DEF u
<1>7. CASE again /\ s.retry
  BY <1>2, <1>5, <1>7, EndsOK
<1>8. CASE ~(again /\ s.retry)
  BY <1>2, <1>3, <1>4, <1>5, <1>6, <1>8
<1>. QED
  BY <1>7, <1>8

\* The invariant for the variables of the directory.
LEMMA Directory ==
    ASSUME IInv
    PROVE  /\ MaxGen \in Nat \ {0} /\ Gen = 1 .. MaxGen /\ newest \in Gen
           /\ file \in [Gen -> {"none", "torn", "whole", "damaged"}]
           /\ genFile \in {0} \cup Gen /\ faults \in 0 .. MaxFaults
           /\ Clean => FilesOK
BY BoundsAssumption, Types DEF IInv, OtherTypes, Gen

\* A search that finds nothing.
LEMMA LostOK ==
    ASSUME NEW s \in SearchState, Informed(s), s.start # newest \/ Skipped, IInv
    PROVE  Informed(Lost(s))
BY EndsOK, Directory DEF Informed, Knows, Straight, SearchState

\* A search that tries a generation again.
LEMMA AgainOK ==
    ASSUME IInv, NEW s \in SearchState, s.pc \in {"infos", "files"}, Bounded(s),
           Clean => Informed(s), Clean => s.start # newest \/ Skipped
    PROVE  LET t == Again(s)
           IN  /\ t \in SearchState /\ Bounded(t) /\ t.goal = s.goal /\ t.pc # "idle"
               /\ Clean => Informed(t)
<1>1. CASE s.method = 1
  <2>. DEFINE t == Try(s, s.gen)
  <2>1. Again(s) = t
    BY <1>1 DEF Again
  <2>2. s.gen \in Nat \ {0} /\ s.gen <= MaxGen + s.look
    BY Directory DEF Bounded, SearchState
  <2>3. /\ t \in SearchState /\ Bounded(t) /\ t.goal = s.goal /\ t.start = s.start
        /\ t.pc \in {"infos", "lost"} /\ (t.pc = "infos" => t.gen >= s.gen /\ ~t.prev)
    BY <1>1, <2>2, TryOK
  <2>. HIDE DEF t
  <2>4. Clean => Informed(t)
    BY <2>3, Directory DEF Informed, Knows, SearchState
  <2>. QED
    BY <2>1, <2>3, <2>4
<1>2. CASE s.method # 1
  <2>. DEFINE t == [s EXCEPT !.pc = "list", !.seen = Listed, !.prev = FALSE]
  <2>1. Again(s) = t
    BY <1>2 DEF Again
  <2>2. /\ t \in SearchState /\ t.goal = s.goal /\ t.start = s.start /\ t.pc = "list"
        /\ t.gen = s.gen /\ t.method = 0 /\ t.look = s.look /\ ~t.prev /\ t.seen = Listed
    BY <1>2 DEF SearchState, Listed
  <2>3. Bounded(t)
    BY <2>2, <1>2 DEF Bounded, SearchState
  <2>. HIDE DEF t
  <2>4. Clean => Informed(t)
    BY <2>2, Directory DEF Informed, Knows, Listed
  <2>. QED
    BY <2>1, <2>2, <2>3, <2>4
<1>. QED
  BY <1>1, <1>2

\* A search for which doBody fails.
LEMMA MissOK ==
    ASSUME IInv, NEW s \in SearchState, s.pc \in {"infos", "files"}, Bounded(s),
           Clean => Informed(s), Tried(s) # "whole"
    PROVE  LET t == Miss(s)
           IN  /\ t \in SearchState /\ Bounded(t) /\ t.goal = s.goal /\ t.pc # "idle"
               /\ Clean => Informed(t)
<1>1. CASE ~s.prev /\ ~s.retry /\ s.gen > 1 /\ File(s.gen - 1) # "none"
  <2>. DEFINE t == [s EXCEPT !.pc = "infos", !.prev = TRUE]
  <2>1. Miss(s) = t
    BY <1>1 DEF Miss
  <2>2. /\ t \in SearchState /\ t.goal = s.goal /\ t.start = s.start /\ t.pc = "infos"
        /\ t.gen = s.gen /\ t.method = s.method /\ t.look = s.look /\ t.prev
        /\ t.retry = s.retry
    BY DEF SearchState
  <2>3. Bounded(t)
    BY <1>1, <2>2 DEF Bounded
  <2>. HIDE DEF t
  <2>4. ASSUME Clean PROVE Informed(t)
    <3>1. s.gen > s.start \/ Gone(s.start)
      BY <1>1, <2>4, Directory DEF Informed, Knows, Tried, File, SearchState
    <3>2. Knows(t)
      BY <2>2, <2>4, <3>1, Directory DEF Informed, Knows, SearchState
    <3>3. ASSUME s.start = newest, ~Skipped PROVE Straight(t)
      <4>1. s.gen = s.start + 1
        BY <1>1, <2>4, <3>3, Directory
        DEF Informed, Straight, Tried, File, FilesOK, SearchState
      <4>. QED
        BY <1>1, <2>2, <2>4, <3>3, <4>1 DEF Informed, Straight
    <3>. QED
      BY <2>2, <3>2, <3>3 DEF Informed
  <2>. QED
    BY <2>1, <2>2, <2>3, <2>4
<1>2. CASE ~(~s.prev /\ ~s.retry /\ s.gen > 1 /\ File(s.gen - 1) # "none")
  <2>1. Miss(s) = Again(s)
    BY <1>2 DEF Miss
  <2>2. ASSUME Clean, s.start = newest, ~Skipped PROVE FALSE
    <3>1. /\ ~s.retry /\ s.gen \in {s.start, s.start + 1}
          /\ s.prev => s.gen = s.start + 1
      BY <2>2 DEF Informed, Straight
    <3>2. s.gen = s.start + 1 /\ ~s.prev
      BY <2>2, <3>1, Directory DEF Tried, File, FilesOK, SearchState
    <3>. QED
      BY <1>2, <2>2, <3>1, <3>2, Directory DEF File, FilesOK
  <2>. QED
    BY <2>1, <2>2, AgainOK
<1>. QED
  BY <1>1, <1>2

\* The state of a search that goes on.
LEMMA SearchOK ==
    ASSUME IInv, NEW p \in Handle, search[p].pc # "idle"
    PROVE  search[p] \in SearchState /\ Bounded(search[p]) /\ (Clean => Informed(search[p]))
BY AllFit DEF Fits

LEMMA ListStep ==
    ASSUME IInv, NEW p \in Handle, List(p)
    PROVE  IInv'
<1>. DEFINE s == search[p]
<1>1. /\ s.pc = "list" /\ s \in SearchState /\ Bounded(s)
      /\ Clean => Informed(s)
  BY SearchOK DEF List, Searching
<1>2. PICK g \in s.seen \cup Listed \cup {0} :
        /\ \A h \in s.seen \cap Listed : h <= g
        /\ search' = [search EXCEPT ![p].pc = "gen", ![p].genA = g, ![p].seen = {}]
  BY DEF List
<1>. DEFINE t == [s EXCEPT !.pc = "gen", !.genA = g, !.seen = {}]
<1>3. search' = [search EXCEPT ![p] = t]
  BY <1>2, Types DEF IInv
<1>4. g \in {0} \cup Gen
  BY <1>1, <1>2 DEF Listed, SearchState
<1>5. /\ t \in SearchState /\ t.pc = "gen" /\ t.genA = g /\ t.goal = s.goal
      /\ t.start = s.start /\ t.gen = s.gen /\ t.method = s.method /\ t.look = s.look
      /\ t.retry = s.retry /\ t.prev = s.prev
  BY <1>1, <1>4 DEF SearchState
<1>6. Bounded(t)
  BY <1>1, <1>5 DEF Bounded
<1>7. ASSUME Clean PROVE Informed(t)
  <2>1. g >= s.start \/ Gone(s.start)
    BY <1>1, <1>2, <1>4, <1>7, Directory DEF Informed, Knows, Listed
  <2>2. Knows(t)
    BY <1>1, <1>5, <1>7, <2>1 DEF Informed, Knows
  <2>3. ASSUME s.start = newest, ~Skipped PROVE g \in {s.start, s.start + 1}
    <3>1. ~Gone(s.start)
      BY <1>7, <2>3, Directory DEF Gone, FilesOK
    <3>2. g <= s.start + 1
      BY <1>1, <1>2, <1>7, <2>3, Directory DEF Informed, Straight, Listed, FilesOK
    <3>. QED
      BY <1>1, <1>4, <2>1, <2>3, <3>1, <3>2, Directory
  <2>. QED
    BY <1>1, <1>5, <1>7, <2>2, <2>3 DEF Informed, Straight
<1>. HIDE DEF s, t
<1>8. s = search[p]
  BY DEF s
<1>9. UNCHANGED <<directory, handle, newest, mishaps>> /\ faults' \in 0 .. MaxFaults
  BY Directory DEF List
<1>. QED
  BY <1>1, <1>3, <1>5, <1>6, <1>7, <1>8, <1>9, Searches

LEMMA ReadGenStep ==
    ASSUME IInv, NEW p \in Handle, ReadGen(p)
    PROVE  IInv'
<1>. DEFINE s == search[p]
            g == IF s.genA > genFile THEN s.genA ELSE genFile
            t == Choose(s, genFile)
<1>1. /\ s.pc = "gen" /\ s \in SearchState /\ Bounded(s) /\ (Clean => Informed(s))
      /\ s.method = 0 /\ s.look = 0
  BY SearchOK DEF ReadGen, Searching, Bounded
<1>2. search' = [search EXCEPT ![p] = t]
  BY DEF ReadGen
<1>3. g \in 0 .. MaxGen
  BY <1>1, Directory DEF SearchState
<1>4. /\ t \in SearchState /\ t.goal = s.goal /\ t.pc # "idle" /\ Bounded(t)
      /\ Clean => Informed(t)
  <2>1. CASE g = 0
    <3>1. t = Lost(s)
      BY <2>1 DEF Choose
    <3>2. Clean => s.start # newest \/ Skipped
      BY <1>1, <2>1, Directory DEF Informed, Knows, Gone, FilesOK, SearchState
    <3>. QED
      BY <1>1, <3>1, <3>2, EndsOK, LostOK
  <2>2. CASE g # 0
    <3>1. t = Try(s, g)
      BY <2>2 DEF Choose
    <3>2. /\ t \in SearchState /\ t.goal = s.goal /\ t.start = s.start /\ Bounded(t)
          /\ t.pc = "infos" \/ (t.pc = "lost" /\ s.retry)
          /\ t.pc = "infos" => t.gen >= g /\ ~t.prev
          /\ s.gen # g => t.pc = "infos" /\ t.gen = g /\ ~t.retry /\ t.method = 0
      BY <1>1, <1>3, <2>2, <3>1, TryOK, Directory
    <3>. HIDE DEF t
    <3>3. ASSUME Clean PROVE Knows(t)
      <4>1. g >= s.start \/ Gone(s.start)
        BY <1>1, <1>3, <3>3, Directory DEF Informed, Knows, SearchState
      <4>2. s.retry => s.start # newest \/ Skipped
        BY <1>1, <3>3 DEF Informed, Straight
      <4>. QED
        BY <1>1, <3>2, <3>3, <4>1, <4>2, <1>3, Directory DEF Informed, Knows, SearchState
    <3>4. ASSUME Clean, s.start = newest, ~Skipped PROVE Straight(t)
      <4>1. g \in {s.start, s.start + 1} /\ s.gen = 0
        BY <1>1, <1>3, <3>4, Directory DEF Informed, Straight, FilesOK, SearchState
      <4>. QED
        BY <1>1, <2>2, <3>2, <4>1 DEF Straight
    <3>. QED
      BY <3>2, <3>3, <3>4 DEF Informed
  <2>. QED
    BY <2>1, <2>2
<1>. HIDE DEF t
<1>9. UNCHANGED <<directory, handle, newest, mishaps>> /\ faults' \in 0 .. MaxFaults
  BY Directory DEF ReadGen
<1>. QED
  BY <1>1, <1>2, <1>4, <1>9, Searches

\* A search for which doBody succeeds.
LEMMA FoundOK ==
    ASSUME IInv, NEW s \in SearchState, s.pc \in {"infos", "files"}, Bounded(s),
           Clean => Informed(s),
           Tried(s) = "whole" \/ (Tried(s) = "torn" /\ s.goal \in {"check", "current"})
    PROVE  LET t == Found(s)
           IN  /\ t \in SearchState /\ Bounded(t) /\ t.goal = s.goal /\ t.pc # "idle"
               /\ Clean => Informed(t)
<1>. DEFINE tried == IF s.prev THEN s.gen - 1 ELSE s.gen
            t == Found(s)
<1>1. tried \in Gen /\ file[tried] = Tried(s)
  BY DEF Tried, File
<1>2. /\ t \in SearchState /\ t.pc = "found" /\ Bounded(t) /\ t.goal = s.goal
      /\ t.start = s.start /\ t.gen = tried
  BY <1>1, EndsOK
<1>. HIDE DEF t
<1>3. ASSUME Clean PROVE Informed(t)
  <2>1. tried >= s.start
    BY <1>1, <1>3, Directory DEF Informed, Knows, Gone, FilesOK, SearchState
  <2>2. Tried(s) = "whole" => tried <= newest
    BY <1>1, <1>3, Directory DEF FilesOK
  <2>3. Knows(t)
    BY <1>2, <1>3, <2>1, <2>2 DEF Informed, Knows
  <2>. QED
    BY <1>2, <2>3 DEF Informed, Straight
<1>. QED
  BY <1>2, <1>3 DEF t

LEMMA ReadInfosStep ==
    ASSUME IInv, NEW p \in Handle, ReadInfos(p)
    PROVE  IInv'
<1>. DEFINE s == search[p]
<1>1. s.pc = "infos" /\ s \in SearchState /\ Bounded(s) /\ (Clean => Informed(s))
  BY SearchOK DEF ReadInfos, Searching
<1>2. UNCHANGED <<directory, handle, newest, mishaps>> /\ faults' \in 0 .. MaxFaults
  BY Directory DEF ReadInfos
<1>3. CASE Tried(s) = "whole" /\ s.goal \in {"open", "reopen"}
           /\ search' = [search EXCEPT ![p] = [s EXCEPT !.pc = "files"]]
  <2>. DEFINE t == [s EXCEPT !.pc = "files"]
  <2>1. /\ t \in SearchState /\ t.pc = "files" /\ t.goal = s.goal /\ t.start = s.start
        /\ t.gen = s.gen /\ t.method = s.method /\ t.look = s.look /\ t.retry = s.retry
        /\ t.prev = s.prev
    BY <1>1 DEF SearchState
  <2>2. Bounded(t)
    BY <1>1, <2>1 DEF Bounded
  <2>. HIDE DEF t
  <2>3. ASSUME Clean PROVE Informed(t)
    <3>1. Knows(t)
      BY <1>1, <2>1, <2>3 DEF Informed, Knows
    <3>2. ASSUME s.start = newest, ~Skipped
          PROVE  s.start = IF s.prev THEN s.gen - 1 ELSE s.gen
      BY <1>1, <1>3, <2>3, <3>2, Directory
      DEF Informed, Straight, Tried, File, FilesOK, SearchState
    <3>. QED
      BY <1>1, <2>1, <2>3, <3>1, <3>2 DEF Informed, Straight
  <2>4. search' = [search EXCEPT ![p] = t]
    BY <1>3 DEF t
  <2>. QED
    BY <1>1, <1>2, <2>1, <2>2, <2>3, <2>4, Searches
<1>4. CASE /\ Tried(s) = "whole" \/ (Tried(s) = "torn" /\ s.goal \in {"check", "current"})
           /\ search' = [search EXCEPT ![p] = Found(s)]
  BY <1>1, <1>2, <1>4, FoundOK, Searches
<1>5. CASE Tried(s) # "whole" /\ search' = [search EXCEPT ![p] = Miss(s)]
  BY <1>1, <1>2, <1>5, MissOK, Searches
<1>. QED
  BY <1>3, <1>4, <1>5 DEF ReadInfos

LEMMA OpenFilesStep ==
    ASSUME IInv, NEW p \in Handle, OpenFiles(p)
    PROVE  IInv'
<1>. DEFINE s == search[p]
<1>1. s.pc = "files" /\ s \in SearchState /\ Bounded(s) /\ (Clean => Informed(s))
  BY SearchOK DEF OpenFiles, Searching
<1>2. UNCHANGED <<directory, handle, newest, mishaps>> /\ faults' \in 0 .. MaxFaults
  BY Directory DEF OpenFiles
<1>3. CASE Tried(s) = "whole"
  <2>1. search' = [search EXCEPT ![p] = Found(s)]
    BY <1>3 DEF OpenFiles
  <2>. QED
    BY <1>1, <1>2, <1>3, <2>1, FoundOK, Searches
<1>4. CASE Tried(s) # "whole"
  <2>1. search' = [search EXCEPT ![p] = Miss(s)]
    BY <1>4 DEF OpenFiles
  <2>. QED
    BY <1>1, <1>2, <1>4, <2>1, MissOK, Searches
<1>. QED
  BY <1>3, <1>4

LEMMA SearchFailsStep ==
    ASSUME IInv, NEW p \in Handle, SearchFails(p)
    PROVE  IInv'
<1>. DEFINE s == search[p]
            lost == Lost(s)
            t == [lost EXCEPT !.pc = "failed"]
<1>1. s.pc # "idle" /\ s \in SearchState /\ Bounded(s) /\ (Clean => Informed(s))
  BY SearchOK DEF SearchFails
<1>2. search' = [search EXCEPT ![p] = t]
  BY DEF SearchFails
<1>3. lost \in SearchState /\ Bounded(lost) /\ lost.goal = s.goal /\ lost.start = s.start
      /\ lost.pc = "lost"
  BY <1>1, EndsOK
<1>. HIDE DEF lost
<1>4. /\ t \in SearchState /\ t.pc = "failed" /\ t.goal = s.goal /\ t.start = s.start
      /\ t.gen = lost.gen /\ t.method = lost.method /\ t.look = lost.look
      /\ t.prev = lost.prev
  BY <1>3 DEF SearchState
<1>. HIDE DEF t
<1>5. Bounded(t)
  BY <1>3, <1>4 DEF Bounded
<1>6. Clean => Informed(t)
  BY <1>1, <1>4 DEF Informed, Knows, Straight
<1>7. UNCHANGED <<directory, handle, newest, mishaps>> /\ faults' \in 0 .. MaxFaults
  BY Directory, BoundsAssumption DEF SearchFails, Fault
<1>. QED
  BY <1>1, <1>2, <1>4, <1>5, <1>6, <1>7, Searches

-----------------------------------------------------------------------------
(* Readers.                                                                *)

\* The write lock is taken, given back, or left behind by p.
LEMMA LockTaken ==
    ASSUME LockOK, Worse, ~lockFile, lockFile', NEW p \in Handle, handle'[p].holds = "yes",
           \A q \in Handle \ {p} : handle'[q].holds = handle[q].holds
    PROVE  LockOK'
BY DEF LockOK, Worse

LEMMA LockFreed ==
    ASSUME LockOK, Worse, NEW p \in Handle, handle[p].holds = "yes", lockFile' = FALSE,
           handle'[p].holds # "yes",
           \A q \in Handle \ {p} : handle'[q].holds = handle[q].holds
    PROVE  LockOK'
BY DEF LockOK, Worse

LEMMA LockLeft ==
    ASSUME LockOK, NEW p \in Handle, handle'[p].holds # "yes", lockFile' = lockFile,
           mishaps' = mishaps \cup Orphaned(p),
           \A q \in Handle \ {p} : handle'[q].holds = handle[q].holds
    PROVE  LockOK'
BY DEF LockOK, Orphaned

LEMMA NoSearchFits ==
    /\ NoSearch \in SearchState /\ Bounded(NoSearch)
    /\ NoSearch.pc = "idle" /\ NoSearch.goal = "none"
<1>1. /\ NoSearch.gen = 0 /\ NoSearch.look = 0 /\ NoSearch.method = 0 /\ ~NoSearch.prev
      /\ NoSearch.pc = "idle" /\ NoSearch.goal = "none"
  BY DEF NoSearch
<1>. QED
  BY <1>1, NoSearchOK, BoundsAssumption DEF Bounded

\* A search that begins.
Begun(goal) ==
    [NoSearch EXCEPT !.goal = goal, !.pc = "list", !.seen = Listed, !.start = newest]

LEMMA BegunOK ==
    ASSUME IInv, NEW goal \in {"open", "current", "reopen", "check", "read"}
    PROVE  /\ Begun(goal) \in SearchState /\ Bounded(Begun(goal))
           /\ Begun(goal).goal = goal /\ Begun(goal).pc = "list"
           /\ Clean => Informed(Begun(goal))
<1>. DEFINE N == NoSearch
            t == [N EXCEPT !.goal = goal, !.pc = "list", !.seen = Listed, !.start = newest]
<1>1. N \in SearchState /\ N.look = 0 /\ N.method = 0 /\ N.gen = 0 /\ ~N.prev /\ ~N.retry
  BY NoSearchOK DEF NoSearch
<1>2. Begun(goal) = t
  BY Zenon DEF Begun
<1>. HIDE DEF N
<1>3. /\ t \in SearchState /\ t.goal = goal /\ t.pc = "list" /\ t.seen = Listed
      /\ t.start = newest /\ t.gen = 0 /\ t.method = 0 /\ t.look = 0 /\ ~t.retry /\ ~t.prev
  BY <1>1, Directory DEF SearchState, Listed
<1>. HIDE DEF t
<1>4. Bounded(t)
  BY <1>3, Directory DEF Bounded
<1>5. ASSUME Clean PROVE Informed(t)
  <2>1. newest \in Listed /\ (~Skipped => \A g \in Listed : g <= newest + 1)
    BY <1>5, Directory DEF FilesOK, Listed
  <2>. QED
    BY <1>3, <1>5, <2>1, Directory DEF Informed, Knows, Straight, FilesOK
<1>. QED
  BY <1>2, <1>3, <1>4, <1>5

LEMMA ClosedFits ==
    ASSUME IInv, NEW p \in Handle, NEW s \in SearchState, s.pc = "idle", s.goal = "none",
           Bounded(s)
    PROVE  Fits(p, Closed, s)
<1>1. /\ Closed \in HandleState /\ Closed.pc = "closed" /\ Closed.gen = 0
      /\ Closed.lastGen = 0 /\ ~Closed.hasChanges /\ Closed.holds = "no"
      /\ ~Closed.unchecked
  BY DEF Closed, HandleState
<1>. QED
  BY <1>1, Directory DEF Fits, Shape, Locking, TornOK, Current, Committing

\* A step of p that leaves the directory and the lock alone.
LEMMA Moves ==
    ASSUME IInv, NEW p \in Handle, NEW h, NEW s,
           handle' = [handle EXCEPT ![p] = h], search' = [search EXCEPT ![p] = s],
           Fits(p, h, s), h.holds = handle[p].holds,
           UNCHANGED <<directory, newest, mishaps>>, faults' \in 0 .. MaxFaults
    PROVE  IInv'
<1>1. OtherTypes' /\ Worse
  BY Types DEF IInv, OtherTypes, Worse, directory
<1>2. \A q \in Handle : handle'[q].holds = handle[q].holds
  BY Types DEF IInv
<1>3. LockOK'
  BY <1>1, <1>2, LockKept DEF IInv, directory
<1>4. Clean' => /\ UNCHANGED <<file, newest>> /\ genFile' <= newest
                /\ Skipped' <=> Skipped
  BY DEF IInv, FilesOK, Clean, Skipped, directory
<1>. QED
  BY <1>1, <1>3, <1>4, LocalStep

\* The states of p and of its search.
LEMMA Own ==
    ASSUME IInv, NEW p \in Handle
    PROVE  /\ handle[p] \in HandleState /\ search[p] \in SearchState
           /\ Shape(p, handle[p], search[p]) /\ Locking(p, handle[p], search[p])
           /\ Bounded(search[p])
           /\ Clean => TornOK(p, handle[p]) /\ Current(handle[p])
           /\ Clean /\ search[p].pc # "idle" => Informed(search[p])
           /\ p \in Reader <=> p \notin Writer
BY AllFit, HandleAssumption DEF Fits, Handle

LEMMA Goes ==
    ASSUME NEW h \in HandleState, NEW pc \in {"closed", "search", "open"} \cup Committing
    PROVE  LET t == [h EXCEPT !.pc = pc]
           IN  /\ t \in HandleState /\ t.pc = pc /\ t.gen = h.gen /\ t.lastGen = h.lastGen
               /\ t.hasChanges = h.hasChanges /\ t.holds = h.holds
               /\ t.unchecked = h.unchecked
BY DEF HandleState

LEMMA OpenStep ==
    ASSUME IInv, NEW p \in Reader, Open(p)
    PROVE  IInv'
<1>. DEFINE h == [handle[p] EXCEPT !.pc = "search"]
            s == Begun("open")
<1>1. p \in Handle /\ handle[p] = Closed
  BY Own DEF Handle, Open, At, Shape
<1>2. handle' = [handle EXCEPT ![p] = h] /\ search' = [search EXCEPT ![p] = s]
  BY DEF Open, Goto, Begin, Begun
<1>3. /\ h \in HandleState /\ h.pc = "search" /\ ~h.hasChanges /\ h.holds = "no"
      /\ ~h.unchecked /\ h.gen = 0 /\ h.lastGen = 0 /\ handle[p].holds = "no"
  BY <1>1, Own, Goes DEF Closed
<1>4. /\ s \in SearchState /\ Bounded(s) /\ s.goal = "open" /\ s.pc = "list"
      /\ Clean => Informed(s)
  BY BegunOK
<1>. HIDE DEF h, s
<1>5. Fits(p, h, s)
  BY <1>1, <1>3, <1>4, Own, Directory
  DEF Fits, Shape, Locking, TornOK, Current, Committing
<1>. QED
  BY <1>1, <1>2, <1>3, <1>5, Directory, Moves DEF Open

\* A reader that was opened or reopened.
LEMMA FreshFits ==
    ASSUME IInv, NEW p \in Reader, NEW g \in Gen, Clean => g <= newest
    PROVE  LET h == [Closed EXCEPT !.pc = "open", !.gen = g, !.lastGen = g]
           IN  Fits(p, h, NoSearch) /\ h.holds = "no"
<1>. DEFINE h == [Closed EXCEPT !.pc = "open", !.gen = g, !.lastGen = g]
<1>1. /\ h \in HandleState /\ h.pc = "open" /\ h.gen = g /\ h.lastGen = g
      /\ ~h.hasChanges /\ h.holds = "no" /\ ~h.unchecked
  BY Directory DEF HandleState, Closed
<1>. HIDE DEF h
<1>2. Fits(p, h, NoSearch)
  BY <1>1, NoSearchFits, Directory, HandleAssumption
  DEF Fits, Shape, Locking, TornOK, Current, Committing
<1>. QED
  BY <1>1, <1>2 DEF h

LEMMA OpenedStep ==
    ASSUME IInv, NEW p \in Handle, Opened(p)
    PROVE  IInv'
<1>. DEFINE g == search[p].gen
            h == [Closed EXCEPT !.pc = "open", !.gen = g, !.lastGen = g]
<1>1. search[p].pc = "found" /\ search[p].goal = "open"
  BY DEF Opened, Concludes
<1>2. p \in Reader /\ handle[p].holds = "no"
  BY <1>1, Own DEF Shape, Locking, Handle
<1>3. g \in Gen /\ (Clean => g <= newest)
  BY <1>1, Own DEF Bounded, Informed, Knows
<1>4. Fits(p, h, NoSearch) /\ h.holds = "no"
  BY <1>2, <1>3, FreshFits
<1>5. handle' = [handle EXCEPT ![p] = h] /\ search' = [search EXCEPT ![p] = NoSearch]
  BY DEF Opened, End
<1>. HIDE DEF h
<1>. QED
  BY <1>2, <1>4, <1>5, Directory, Moves DEF Opened

LEMMA OpenFailedStep ==
    ASSUME IInv, NEW p \in Handle, OpenFailed(p)
    PROVE  IInv'
<1>1. search[p].goal = "open"
  BY DEF OpenFailed, Fails
<1>2. handle[p].holds = "no" /\ Closed.holds = "no"
  BY <1>1, Own DEF Locking, Closed
<1>3. handle' = [handle EXCEPT ![p] = Closed] /\ search' = [search EXCEPT ![p] = NoSearch]
  BY DEF OpenFailed, End
<1>4. Fits(p, Closed, NoSearch)
  BY NoSearchFits, ClosedFits
<1>. QED
  BY <1>2, <1>3, <1>4, Directory, Moves DEF OpenFailed

LEMMA ReopenStep ==
    ASSUME IInv, NEW p \in Reader, Reopen(p)
    PROVE  IInv'
<1>. DEFINE h == [handle[p] EXCEPT !.pc = "search"]
            s == Begun("current")
<1>1. p \in Handle /\ handle[p].pc = "open" /\ ~handle[p].hasChanges
  BY DEF Handle, Reopen, At
<1>2. handle' = [handle EXCEPT ![p] = h] /\ search' = [search EXCEPT ![p] = s]
  BY DEF Reopen, Goto, Begin, Begun
<1>3. /\ h \in HandleState /\ h.pc = "search" /\ h.hasChanges = handle[p].hasChanges
      /\ h.holds = handle[p].holds /\ h.unchecked = handle[p].unchecked
      /\ h.gen = handle[p].gen /\ h.lastGen = handle[p].lastGen
  BY <1>1, Own, Goes
<1>4. /\ s \in SearchState /\ Bounded(s) /\ s.goal = "current" /\ s.pc = "list"
      /\ Clean => Informed(s)
  BY BegunOK
<1>. HIDE DEF h, s
<1>5. Fits(p, h, s)
  BY <1>1, <1>3, <1>4, Own, Directory
  DEF Fits, Shape, Locking, TornOK, Current, Committing
<1>. QED
  BY <1>1, <1>2, <1>3, <1>5, Directory, Moves DEF Reopen

\* A reader whose search for something else than its staleness ends.
LEMMA BackFits ==
    ASSUME IInv, NEW p \in Handle, search[p].goal \in {"current", "reopen"}
    PROVE  LET h == [handle[p] EXCEPT !.pc = "open"]
           IN  Fits(p, h, NoSearch) /\ h.holds = handle[p].holds
<1>. DEFINE h == [handle[p] EXCEPT !.pc = "open"]
<1>1. /\ h \in HandleState /\ h.pc = "open" /\ h.hasChanges = handle[p].hasChanges
      /\ h.holds = handle[p].holds /\ h.unchecked = handle[p].unchecked
      /\ h.gen = handle[p].gen /\ h.lastGen = handle[p].lastGen
  BY Own, Goes
<1>2. p \in Reader /\ handle[p].pc = "search" /\ ~handle[p].hasChanges
  BY Own DEF Shape, Locking, Handle
<1>. HIDE DEF h
<1>3. Fits(p, h, NoSearch)
  BY <1>1, <1>2, NoSearchFits, Own, Directory
  DEF Fits, Shape, Locking, TornOK, Current, Committing
<1>. QED
  BY <1>1, <1>3 DEF h

LEMMA IsCurrentStep ==
    ASSUME IInv, NEW p \in Handle, IsCurrent(p)
    PROVE  IInv'
<1>1. search[p].pc = "found" /\ search[p].goal = "current"
  BY DEF IsCurrent, Concludes
<1>2. UNCHANGED <<directory, newest, mishaps>> /\ faults' \in 0 .. MaxFaults
  BY Directory DEF IsCurrent
<1>3. CASE search[p].gen = handle[p].gen
  <2>. DEFINE h == [handle[p] EXCEPT !.pc = "open"]
  <2>1. handle' = [handle EXCEPT ![p] = h] /\ search' = [search EXCEPT ![p] = NoSearch]
    BY <1>3 DEF IsCurrent, Goto, End
  <2>2. Fits(p, h, NoSearch) /\ h.holds = handle[p].holds
    BY <1>1, BackFits
  <2>. HIDE DEF h
  <2>. QED
    BY <1>2, <2>1, <2>2, Moves
<1>4. CASE search[p].gen # handle[p].gen
  <2>. DEFINE s == Begun("reopen")
  <2>1. search' = [search EXCEPT ![p] = s] /\ handle' = handle
    BY <1>4 DEF IsCurrent, Begin, Begun
  <2>2. handle' = [handle EXCEPT ![p] = handle[p]]
    BY <2>1, Types DEF IInv
  <2>3. /\ s \in SearchState /\ Bounded(s) /\ s.goal = "reopen" /\ s.pc = "list"
        /\ Clean => Informed(s)
    BY BegunOK
  <2>. HIDE DEF s
  <2>4. Fits(p, handle[p], s)
    BY <1>1, <2>3, Own DEF Fits, Shape, Locking, Committing
  <2>. QED
    BY <1>2, <2>1, <2>2, <2>4, Moves
<1>. QED
  BY <1>3, <1>4

LEMMA ReopenedStep ==
    ASSUME IInv, NEW p \in Handle, Reopened(p)
    PROVE  IInv'
<1>. DEFINE g == search[p].gen
            h == [Closed EXCEPT !.pc = "open", !.gen = g, !.lastGen = g]
<1>1. search[p].pc = "found" /\ search[p].goal = "reopen"
  BY DEF Reopened, Concludes
<1>2. p \in Reader
  BY <1>1, Own DEF Shape, Handle
<1>3. g \in Gen /\ (Clean => g <= newest)
  BY <1>1, Own DEF Bounded, Informed, Knows
<1>4. Fits(p, h, NoSearch) /\ h.holds = "no"
  BY <1>2, <1>3, FreshFits
<1>5. handle' = [handle EXCEPT ![p] = h] /\ search' = [search EXCEPT ![p] = NoSearch]
  BY DEF Reopened, End
<1>. HIDE DEF h
<1>6. /\ UNCHANGED <<file, genFile, lockFile, newest, faults>>
      /\ mishaps' = mishaps \cup Orphaned(p)
  BY DEF Reopened, directory
<1>7. OtherTypes' /\ Worse
  BY <1>6, Types DEF IInv, OtherTypes, Worse, Orphaned
<1>8. LockOK'
  BY <1>4, <1>5, <1>6, Types, LockLeft DEF IInv
<1>9. Clean' => /\ UNCHANGED <<file, newest>> /\ genFile' <= newest
                /\ Skipped' <=> Skipped
  BY <1>6 DEF IInv, FilesOK, Clean, Skipped, Orphaned
<1>. QED
  BY <1>4, <1>5, <1>7, <1>8, <1>9, LocalStep

LEMMA ReopenFailedStep ==
    ASSUME IInv, NEW p \in Handle, ReopenFailed(p)
    PROVE  IInv'
<1>. DEFINE h == [handle[p] EXCEPT !.pc = "open"]
<1>1. search[p].goal \in {"current", "reopen"}
  BY DEF ReopenFailed, Fails
<1>2. handle' = [handle EXCEPT ![p] = h] /\ search' = [search EXCEPT ![p] = NoSearch]
  BY DEF ReopenFailed, Goto, End
<1>3. Fits(p, h, NoSearch) /\ h.holds = handle[p].holds
  BY <1>1, BackFits
<1>. HIDE DEF h
<1>. QED
  BY <1>2, <1>3, Directory, Moves DEF ReopenFailed

LEMMA ChangeStep ==
    ASSUME IInv, NEW p \in Reader, Change(p)
    PROVE  IInv'
<1>. DEFINE h == [handle[p] EXCEPT !.hasChanges = TRUE]
<1>1. p \in Handle /\ handle[p].pc = "open" /\ handle[p].holds = "yes"
  BY DEF Handle, Change, At
<1>2. handle' = [handle EXCEPT ![p] = h] /\ search' = [search EXCEPT ![p] = search[p]]
  BY Types DEF IInv, Change
<1>3. /\ h \in HandleState /\ h.pc = "open" /\ h.hasChanges
      /\ h.holds = handle[p].holds /\ h.unchecked = handle[p].unchecked
      /\ h.gen = handle[p].gen /\ h.lastGen = handle[p].lastGen
  BY <1>1, Own DEF HandleState
<1>. HIDE DEF h
<1>4. Fits(p, h, search[p])
  BY <1>1, <1>3, Own, Directory
  DEF Fits, Shape, Locking, TornOK, Current, Committing
<1>. QED
  BY <1>1, <1>2, <1>3, <1>4, Directory, Moves DEF Change

\* A step of p that takes the lock or gives it back.
LEMMA LockMoves ==
    ASSUME IInv, NEW p \in Handle, NEW h, NEW s,
           handle' = [handle EXCEPT ![p] = h], search' = [search EXCEPT ![p] = s],
           Fits(p, h, s), UNCHANGED <<file, genFile, newest, mishaps, faults>>,
           \/ ~lockFile /\ lockFile' = TRUE /\ h.holds = "yes"
           \/ handle[p].holds = "yes" /\ lockFile' = FALSE /\ h.holds # "yes"
    PROVE  IInv'
<1>1. OtherTypes' /\ Worse
  BY Types DEF IInv, OtherTypes, Worse
<1>2. /\ handle'[p].holds = h.holds
      /\ \A q \in Handle \ {p} : handle'[q].holds = handle[q].holds
  BY Types DEF IInv
<1>3. LockOK'
  BY <1>1, <1>2, LockTaken, LockFreed DEF IInv
<1>4. Clean' => /\ UNCHANGED <<file, newest>> /\ genFile' <= newest
                /\ Skipped' <=> Skipped
  BY DEF IInv, FilesOK, Clean, Skipped
<1>. QED
  BY <1>1, <1>3, <1>4, LocalStep

LEMMA AcquireWriteLockStep ==
    ASSUME IInv, NEW p \in Reader, AcquireWriteLock(p)
    PROVE  IInv'
<1>. DEFINE h == [handle[p] EXCEPT !.holds = "yes", !.pc = "search"]
            s == Begun("check")
<1>1. p \in Handle /\ handle[p].pc = "open" /\ handle[p].holds = "no"
  BY DEF Handle, AcquireWriteLock, At
<1>2. handle' = [handle EXCEPT ![p] = h] /\ search' = [search EXCEPT ![p] = s]
  BY DEF AcquireWriteLock, Begin, Begun
<1>3. /\ h \in HandleState /\ h.pc = "search" /\ h.hasChanges = handle[p].hasChanges
      /\ h.holds = "yes" /\ h.unchecked = handle[p].unchecked
      /\ h.gen = handle[p].gen /\ h.lastGen = handle[p].lastGen
  BY <1>1, Own DEF HandleState
<1>4. /\ s \in SearchState /\ Bounded(s) /\ s.goal = "check" /\ s.pc = "list"
      /\ Clean => Informed(s)
  BY BegunOK
<1>. HIDE DEF h, s
<1>5. Fits(p, h, s)
  BY <1>1, <1>3, <1>4, Own, Directory
  DEF Fits, Shape, Locking, TornOK, Current, Committing
<1>. QED
  BY <1>1, <1>2, <1>3, <1>5, LockMoves DEF AcquireWriteLock

LEMMA CheckedStep ==
    ASSUME IInv, NEW p \in Handle, Checked(p)
    PROVE  IInv'
<1>. DEFINE h == [handle[p] EXCEPT !.hasChanges = TRUE, !.pc = "open"]
<1>1. /\ search[p].pc = "found" /\ search[p].goal = "check"
      /\ search[p].gen <= handle[p].gen
  BY DEF Checked, Concludes
<1>2. handle' = [handle EXCEPT ![p] = h] /\ search' = [search EXCEPT ![p] = NoSearch]
  BY DEF Checked, End
<1>3. /\ h \in HandleState /\ h.pc = "open" /\ h.hasChanges
      /\ h.holds = handle[p].holds /\ h.unchecked = handle[p].unchecked
      /\ h.gen = handle[p].gen /\ h.lastGen = handle[p].lastGen
  BY Own DEF HandleState
<1>. HIDE DEF h
<1>4. p \in Reader /\ handle[p].pc = "search" /\ ~handle[p].hasChanges
      /\ handle[p].holds = "yes" /\ ~handle[p].unchecked
  BY <1>1, Own DEF Shape, Locking, Handle
<1>5. handle[p].gen = handle[p].lastGen /\ handle[p].gen \in Gen /\ search[p].gen \in Gen
  BY <1>1, <1>4, Own DEF Shape, Locking, Bounded
\* The version of the reader is that of the newest commit.
<1>6. Clean => handle[p].lastGen = newest
  BY <1>1, <1>5, Own, Directory DEF Informed, Knows, Current
<1>7. Fits(p, h, NoSearch)
  BY <1>3, <1>4, <1>5, <1>6, NoSearchFits, Own, Directory
  DEF Fits, Shape, Locking, TornOK, Current, Committing
<1>. QED
  BY <1>2, <1>3, <1>7, Directory, Moves DEF Checked

LEMMA StaleStep ==
    ASSUME IInv, NEW p \in Handle, Stale(p)
    PROVE  IInv'
<1>. DEFINE h == [handle[p] EXCEPT !.stale = TRUE, !.holds = "dangling", !.pc = "open"]
<1>1. search[p].pc = "found" /\ search[p].goal = "check"
  BY DEF Stale, Concludes
<1>2. handle' = [handle EXCEPT ![p] = h] /\ search' = [search EXCEPT ![p] = NoSearch]
  BY DEF Stale, End
<1>3. /\ h \in HandleState /\ h.pc = "open" /\ h.hasChanges = handle[p].hasChanges
      /\ h.holds = "dangling" /\ h.unchecked = handle[p].unchecked
      /\ h.gen = handle[p].gen /\ h.lastGen = handle[p].lastGen
  BY Own DEF HandleState
<1>. HIDE DEF h
<1>4. p \in Reader /\ handle[p].pc = "search" /\ ~handle[p].hasChanges
      /\ handle[p].holds = "yes" /\ ~handle[p].unchecked
  BY <1>1, Own DEF Shape, Locking, Handle
<1>5. Fits(p, h, NoSearch)
  BY <1>1, <1>3, <1>4, NoSearchFits, Own, Directory
  DEF Fits, Shape, Locking, TornOK, Current, Committing
<1>. QED
  BY <1>2, <1>3, <1>4, <1>5, LockMoves DEF Stale

LEMMA CheckFailedStep ==
    ASSUME IInv, NEW p \in Handle, CheckFailed(p)
    PROVE  IInv'
<1>. DEFINE h == [handle[p] EXCEPT !.unchecked = TRUE, !.pc = "open"]
<1>1. search[p].goal = "check"
  BY DEF CheckFailed, Fails
<1>2. handle' = [handle EXCEPT ![p] = h] /\ search' = [search EXCEPT ![p] = NoSearch]
  BY DEF CheckFailed, End
<1>3. /\ h \in HandleState /\ h.pc = "open" /\ h.hasChanges = handle[p].hasChanges
      /\ h.holds = handle[p].holds /\ h.unchecked
      /\ h.gen = handle[p].gen /\ h.lastGen = handle[p].lastGen
  BY Own DEF HandleState
<1>. HIDE DEF h
<1>4. p \in Reader /\ handle[p].pc = "search" /\ ~handle[p].hasChanges
      /\ handle[p].holds = "yes"
  BY <1>1, Own DEF Shape, Locking, Handle
<1>5. Fits(p, h, NoSearch)
  BY <1>1, <1>3, <1>4, NoSearchFits, Own, Directory
  DEF Fits, Shape, Locking, TornOK, Current, Committing
<1>. QED
  BY <1>2, <1>3, <1>5, Directory, Moves DEF CheckFailed

-----------------------------------------------------------------------------
(* Commits, but for the steps that write and delete them.                  *)

LEMMA ObtainStep ==
    ASSUME IInv, NEW p \in Writer, Obtain(p)
    PROVE  IInv'
<1>. DEFINE h == [handle[p] EXCEPT !.holds = "yes", !.pc = "search"]
            s == Begun("read")
<1>1. p \in Handle /\ handle[p] = Closed
  BY Own DEF Handle, Obtain, At, Shape
<1>2. handle' = [handle EXCEPT ![p] = h] /\ search' = [search EXCEPT ![p] = s]
  BY DEF Obtain, Begin, Begun
<1>3. /\ h \in HandleState /\ h.pc = "search" /\ h.hasChanges = Closed.hasChanges
      /\ h.holds = "yes" /\ h.unchecked = Closed.unchecked
      /\ h.gen = Closed.gen /\ h.lastGen = Closed.lastGen
  BY <1>1, Own DEF HandleState
<1>4. /\ s \in SearchState /\ Bounded(s) /\ s.goal = "read" /\ s.pc = "list"
      /\ Clean => Informed(s)
  BY BegunOK
<1>. HIDE DEF h, s
<1>5. Fits(p, h, s)
  BY <1>1, <1>3, <1>4, Own, Directory
  DEF Fits, Shape, Locking, TornOK, Current, Committing, Closed
<1>. QED
  BY <1>1, <1>2, <1>3, <1>5, LockMoves DEF Obtain

LEMMA ReadStep ==
    ASSUME IInv, NEW p \in Handle, Read(p)
    PROVE  IInv'
<1>. DEFINE g == search[p].gen
            h == [handle[p] EXCEPT !.gen = g, !.lastGen = g, !.pc = "deleter"]
<1>1. search[p].pc = "found" /\ search[p].goal = "read"
  BY DEF Read, Concludes
<1>2. handle' = [handle EXCEPT ![p] = h] /\ search' = [search EXCEPT ![p] = NoSearch]
  BY DEF Read, End
<1>3. g \in Gen /\ (Clean => g = newest)
  BY <1>1, Own, Directory DEF Bounded, Informed, Knows
<1>4. /\ h \in HandleState /\ h.pc = "deleter" /\ h.hasChanges = handle[p].hasChanges
      /\ h.holds = handle[p].holds /\ h.unchecked = handle[p].unchecked
      /\ h.gen = g /\ h.lastGen = g
  BY <1>3, Own DEF HandleState, Committing
<1>. HIDE DEF h
<1>5. p \in Writer /\ p \notin Reader /\ handle[p].holds = "yes" /\ ~handle[p].unchecked
  BY <1>1, Own DEF Shape, Locking, Handle
<1>6. Fits(p, h, NoSearch)
  BY <1>3, <1>4, <1>5, NoSearchFits, Own, Directory
  DEF Fits, Shape, Locking, TornOK, Current, Committing
<1>. QED
  BY <1>2, <1>4, <1>6, Directory, Moves DEF Read

\* A step from pc to next that changes nothing else of p, nor of the directory.
LEMMA GoesStep ==
    ASSUME IInv, NEW p \in Handle, NEW next \in Committing \cup {"open"},
           handle[p].pc \notin {"search", "closed"}, Goto(p, next),
           LET h == [handle[p] EXCEPT !.pc = next]
           IN  Shape(p, h, search[p]) /\ Locking(p, h, search[p])
               /\ (Clean => TornOK(p, h) /\ Current(h)),
           UNCHANGED <<directory, search, newest, mishaps>>, faults' \in 0 .. MaxFaults
    PROVE  IInv'
<1>. DEFINE h == [handle[p] EXCEPT !.pc = next]
<1>1. handle' = [handle EXCEPT ![p] = h] /\ search' = [search EXCEPT ![p] = search[p]]
  BY Types DEF IInv, Goto
<1>2. h \in HandleState /\ h.holds = handle[p].holds
  BY Own, Goes
<1>3. search[p].pc = "idle"
  BY Own DEF Shape
<1>. HIDE DEF h
<1>4. Fits(p, h, search[p])
  BY <1>2, <1>3, Own DEF Fits, h
<1>. QED
  BY <1>1, <1>2, <1>4, Moves

LEMMA CommitStepOK ==
    ASSUME IInv, NEW p \in Handle, Commit(p)
    PROVE  IInv'
<1>. DEFINE next == IF p \in Reader THEN "deleter" ELSE "create"
            h == [handle[p] EXCEPT !.pc = next]
<1>0. next \in Committing
  BY DEF Committing
<1>1. /\ handle[p].pc = "open" /\ handle[p].gen < MaxGen /\ Goto(p, next)
      /\ p \in Reader => handle[p].hasChanges
      /\ UNCHANGED <<directory, search, newest, mishaps, faults>>
  BY DEF Commit, At
<1>. HIDE DEF next
<1>2. /\ h \in HandleState /\ h.pc = next /\ h.hasChanges = handle[p].hasChanges
      /\ h.holds = handle[p].holds /\ h.unchecked = handle[p].unchecked
      /\ h.gen = handle[p].gen /\ h.lastGen = handle[p].lastGen
  BY <1>0, Own, Goes
<1>3. p \notin Reader => p \in Writer
  BY DEF Handle
<1>4. Shape(p, h, search[p])
  BY <1>1, <1>2, Own DEF Shape, Committing, next
<1>5. Locking(p, h, search[p])
  BY <1>1, <1>2, <1>3, Own DEF Shape, Locking, Committing, next
<1>6. Clean => TornOK(p, h) /\ Current(h)
  BY <1>1, <1>2, <1>3, Own DEF TornOK, Current, Locking, next
<1>. QED
  BY <1>0, <1>1, <1>4, <1>5, <1>6, Directory, GoesStep

\* A reader or writer that ends and leaves its lock behind.
LEMMA Leaves ==
    ASSUME IInv, NEW p \in Handle, NEW s \in {search[p], NoSearch}, s.pc = "idle",
           handle' = [handle EXCEPT ![p] = Closed], search' = [search EXCEPT ![p] = s],
           mishaps' = mishaps \cup Orphaned(p),
           UNCHANGED <<directory, newest>>, faults' \in 0 .. MaxFaults
    PROVE  IInv'
<1>1. s \in SearchState /\ Bounded(s) /\ s.goal = "none"
  BY NoSearchFits, Own DEF Shape
<1>2. Fits(p, Closed, s)
  BY <1>1, ClosedFits
<1>3. OtherTypes' /\ Worse
  BY Types DEF IInv, OtherTypes, Worse, Orphaned, directory
<1>4. Closed.holds = "no"
  BY DEF Closed
<1>5. LockOK'
  BY <1>4, Types, LockLeft DEF IInv, directory
<1>6. Clean' => /\ UNCHANGED <<file, newest>> /\ genFile' <= newest
                /\ Skipped' <=> Skipped
  BY DEF IInv, FilesOK, Clean, Skipped, Orphaned, directory
<1>. QED
  BY <1>2, <1>3, <1>5, <1>6, LocalStep

LEMMA ReadFailedStep ==
    ASSUME IInv, NEW p \in Handle, ReadFailed(p)
    PROVE  IInv'
<1>1. search[p].goal = "read" /\ UNCHANGED <<file, genFile, newest, faults>>
  BY DEF ReadFailed, Fails
<1>2. handle[p].holds = "yes" /\ Closed.holds = "no"
  BY <1>1, Own DEF Locking, Closed
<1>3. handle' = [handle EXCEPT ![p] = Closed] /\ search' = [search EXCEPT ![p] = NoSearch]
  BY DEF ReadFailed, End
<1>4. CASE lockFile' = FALSE /\ UNCHANGED mishaps
  <2>1. Fits(p, Closed, NoSearch)
    BY NoSearchFits, ClosedFits
  <2>. QED
    BY <1>1, <1>2, <1>3, <1>4, <2>1, LockMoves
<1>5. CASE mishaps' = mishaps \cup Orphaned(p) /\ UNCHANGED lockFile
  <2>1. NoSearch \in {search[p], NoSearch} /\ NoSearch.pc = "idle" /\ faults' \in 0 .. MaxFaults
    BY <1>1, Directory DEF NoSearch
  <2>2. UNCHANGED <<directory, newest>>
    BY <1>1, <1>5 DEF directory
  <2>. QED
    BY <1>3, <1>5, <2>1, <2>2, Leaves
<1>. QED
  BY <1>4, <1>5 DEF ReadFailed

LEMMA DeleterFailsStep ==
    ASSUME IInv, NEW p \in Handle, DeleterFails(p)
    PROVE  IInv'
<1>1. /\ handle[p].pc = "deleter" /\ search[p].pc = "idle" /\ search[p].goal = "none"
      /\ UNCHANGED <<directory, search, newest, faults>>
  BY Own DEF DeleterFails, At, Shape
<1>2. CASE p \in Reader
  <2>. DEFINE h == [handle[p] EXCEPT !.pc = "open"]
  <2>1. Goto(p, "open") /\ UNCHANGED mishaps
    BY <1>2 DEF DeleterFails
  <2>2. /\ h \in HandleState /\ h.pc = "open" /\ h.hasChanges = handle[p].hasChanges
        /\ h.holds = handle[p].holds /\ h.unchecked = handle[p].unchecked
        /\ h.gen = handle[p].gen /\ h.lastGen = handle[p].lastGen
    BY Own, Goes
  <2>3. Shape(p, h, search[p]) /\ Locking(p, h, search[p])
    BY <1>1, <1>2, <2>2, Own DEF Shape, Locking, Committing
  <2>4. Clean => TornOK(p, h) /\ Current(h)
    BY <1>1, <1>2, <2>2, Own DEF TornOK, Current
  <2>. QED
    BY <1>1, <2>1, <2>3, <2>4, Directory, GoesStep
<1>3. CASE p \notin Reader
  <2>1. handle' = [handle EXCEPT ![p] = Closed] /\ mishaps' = mishaps \cup Orphaned(p)
    BY <1>3 DEF DeleterFails
  <2>2. search' = [search EXCEPT ![p] = search[p]]
    BY <1>1, Types DEF IInv
  <2>. QED
    BY <1>1, <2>1, <2>2, Directory, Leaves
<1>. QED
  BY <1>2, <1>3

LEMMA TearGenStep ==
    ASSUME IInv, NEW p \in Handle, TearGen(p)
    PROVE  IInv'
<1>. DEFINE h == [handle[p] EXCEPT !.pc = "gen"]
<1>1. /\ handle[p].pc = "tear" /\ genFile' = 0
      /\ UNCHANGED <<file, lockFile, search, newest, mishaps, faults>>
  BY DEF TearGen, At
<1>2. handle' = [handle EXCEPT ![p] = h] /\ search' = [search EXCEPT ![p] = search[p]]
  BY <1>1, Types DEF IInv, TearGen, Goto
<1>3. /\ h \in HandleState /\ h.pc = "gen" /\ h.hasChanges = handle[p].hasChanges
      /\ h.holds = handle[p].holds /\ h.unchecked = handle[p].unchecked
      /\ h.gen = handle[p].gen /\ h.lastGen = handle[p].lastGen
  BY Own, Goes DEF Committing
<1>. HIDE DEF h
<1>4. Shape(p, h, search[p]) /\ Locking(p, h, search[p])
  BY <1>1, <1>3, Own DEF Shape, Locking, Committing
<1>5. Clean => TornOK(p, h) /\ Current(h)
  BY <1>1, <1>3, Own DEF TornOK, Current
<1>6. Fits(p, h, search[p])
  BY <1>3, <1>4, <1>5, Own DEF Fits
<1>7. OtherTypes' /\ Worse
  BY <1>1, Types DEF IInv, OtherTypes, Worse
<1>8. LockOK'
  BY <1>1, <1>2, <1>3, <1>7, Types, LockKept DEF IInv
<1>9. Clean' => /\ UNCHANGED <<file, newest>> /\ genFile' <= newest
                /\ Skipped' <=> Skipped
  BY <1>1, Directory DEF Skipped
<1>. QED
  BY <1>2, <1>6, <1>7, <1>8, <1>9, LocalStep

LEMMA WriteGenStep ==
    ASSUME IInv, NEW p \in Handle, WriteGen(p)
    PROVE  IInv'
<1>. DEFINE h == [handle[p] EXCEPT !.lastGen = handle[p].gen, !.pc = "checkpoint"]
<1>1. /\ handle[p].pc = "gen" /\ genFile' \in {handle[p].gen, genFile}
      /\ faults' \in 0 .. MaxFaults
      /\ UNCHANGED <<file, lockFile, search, newest, mishaps>>
  BY Directory, BoundsAssumption DEF WriteGen, At, Fault
<1>2. handle' = [handle EXCEPT ![p] = h] /\ search' = [search EXCEPT ![p] = search[p]]
  BY <1>1, Types DEF IInv, WriteGen
<1>3. /\ h \in HandleState /\ h.pc = "checkpoint" /\ h.hasChanges = handle[p].hasChanges
      /\ h.holds = handle[p].holds /\ h.unchecked = handle[p].unchecked
      /\ h.gen = handle[p].gen /\ h.lastGen = handle[p].gen
  BY Own DEF HandleState, Committing
<1>. HIDE DEF h
<1>4. Shape(p, h, search[p]) /\ Locking(p, h, search[p]) /\ handle[p].gen \in Gen
  BY <1>1, <1>3, Own DEF Shape, Locking, Committing
<1>5. Clean => TornOK(p, h) /\ Current(h) /\ handle[p].gen = newest
  BY <1>1, <1>3, Own, Directory DEF TornOK, Current
<1>6. Fits(p, h, search[p])
  BY <1>3, <1>4, <1>5, Own DEF Fits
<1>7. OtherTypes' /\ Worse
  BY <1>1, <1>4, Types DEF IInv, OtherTypes, Worse
<1>8. LockOK'
  BY <1>1, <1>2, <1>3, <1>7, Types, LockKept DEF IInv
<1>9. Clean' => /\ UNCHANGED <<file, newest>> /\ genFile' <= newest
                /\ Skipped' <=> Skipped
  BY <1>1, <1>5, Directory DEF Clean, Skipped, FilesOK
<1>. QED
  BY <1>2, <1>6, <1>7, <1>8, <1>9, LocalStep

LEMMA ReleaseStep ==
    ASSUME IInv, NEW p \in Reader, Release(p)
    PROVE  IInv'
<1>. DEFINE h == [handle[p] EXCEPT !.holds = "no", !.unchecked = FALSE,
                                   !.hasChanges = FALSE, !.pc = "open"]
<1>1. /\ p \in Handle /\ handle[p].pc = "release" /\ lockFile' = FALSE
      /\ UNCHANGED <<file, genFile, search, newest, mishaps, faults>>
  BY DEF Release, At, Handle
<1>2. handle' = [handle EXCEPT ![p] = h] /\ search' = [search EXCEPT ![p] = search[p]]
  BY <1>1, Types DEF IInv, Release
<1>3. /\ h \in HandleState /\ h.pc = "open" /\ ~h.hasChanges /\ h.holds = "no"
      /\ ~h.unchecked /\ h.gen = handle[p].gen /\ h.lastGen = handle[p].lastGen
  BY <1>1, Own DEF HandleState
<1>. HIDE DEF h
<1>4. Shape(p, h, search[p]) /\ Locking(p, h, search[p]) /\ handle[p].holds = "yes"
  BY <1>1, <1>3, Own DEF Shape, Locking, Committing
<1>5. Clean => TornOK(p, h) /\ Current(h)
  BY <1>1, <1>3, Own, Directory DEF TornOK, Current
<1>6. Fits(p, h, search[p])
  BY <1>1, <1>3, <1>4, <1>5, Own DEF Fits
<1>. QED
  BY <1>1, <1>2, <1>3, <1>4, <1>6, LockMoves

-----------------------------------------------------------------------------
(* The end of a reader or writer, and what happens to the directory.       *)

LEMMA CloseStep ==
    ASSUME IInv, NEW p \in Handle, Close(p)
    PROVE  IInv'
<1>1. /\ handle[p].pc = "open" /\ lockFile' = (lockFile /\ handle[p].holds = "no")
      /\ handle[p].holds # "dangling" /\ handle' = [handle EXCEPT ![p] = Closed]
      /\ UNCHANGED <<file, genFile, search, newest, mishaps, faults>>
  BY DEF Close, At
<1>2. search' = [search EXCEPT ![p] = search[p]]
  BY <1>1, Types DEF IInv
<1>3. search[p].pc = "idle" /\ search[p].goal = "none" /\ Closed.holds = "no"
  BY <1>1, Own DEF Shape, Closed
<1>4. Fits(p, Closed, search[p])
  BY <1>3, Own, ClosedFits
<1>5. CASE handle[p].holds = "yes"
  <2>1. lockFile' = FALSE
    BY <1>1, <1>5
  <2>. QED
    BY <1>1, <1>2, <1>3, <1>4, <1>5, <2>1, LockMoves
<1>6. CASE handle[p].holds = "no"
  <2>1. lockFile' = lockFile
    BY <1>1, <1>6, Types DEF IInv, OtherTypes
  <2>. QED
    BY <1>1, <1>2, <1>3, <1>4, <1>6, <2>1, Directory, Moves DEF directory
<1>. QED
  BY <1>1, <1>5, <1>6, Own DEF HandleState

LEMMA CloseStaleStep ==
    ASSUME IInv, NEW p \in Reader, CloseStale(p)
    PROVE  IInv'
<1>1. /\ p \in Handle /\ handle[p].pc = "open" /\ handle[p].holds = "dangling"
      /\ UNCHANGED <<file, genFile, newest, faults>>
  BY DEF CloseStale, At, Handle
<1>2. CASE Die(p) /\ UNCHANGED lockFile
  BY <1>1, <1>2, NoSearchFits, Directory, Leaves DEF Die, End, directory
<1>3. CASE /\ lockFile' = FALSE /\ handle' = [handle EXCEPT ![p] = Closed]
           /\ mishaps' = mishaps \cup {"released"} /\ UNCHANGED search
  <2>1. search' = [search EXCEPT ![p] = search[p]]
    BY <1>3, Types DEF IInv
  <2>2. search[p].pc = "idle" /\ search[p].goal = "none"
    BY <1>1, Own DEF Shape
  <2>3. Fits(p, Closed, search[p])
    BY <1>1, <2>2, Own, ClosedFits
  <2>4. OtherTypes' /\ Worse /\ LockOK' /\ ~Clean'
    BY <1>1, <1>3, Types DEF IInv, OtherTypes, Worse, LockOK, Clean
  <2>. QED
    BY <1>1, <1>3, <2>1, <2>3, <2>4, LocalStep
<1>. QED
  BY <1>2, <1>3 DEF CloseStale

LEMMA CrashStep ==
    ASSUME IInv, NEW p \in Handle, Crash(p)
    PROVE  IInv'
<1>1. faults' \in 0 .. MaxFaults
  BY Directory, BoundsAssumption DEF Crash, Fault
<1>. QED
  BY <1>1, NoSearchFits, Leaves DEF Crash, Die, End

LEMMA UnlockStep ==
    ASSUME IInv, Unlock
    PROVE  IInv'
<1>1. OtherTypes' /\ Worse /\ LockOK'
  BY Types DEF IInv, Unlock, OtherTypes, Worse, LockOK
<1>2. Clean' => UNCHANGED <<file, genFile, newest>> /\ (Skipped' <=> Skipped)
  BY DEF Unlock, Skipped
<1>. QED
  BY <1>1, <1>2, OuterStep DEF Unlock

LEMMA DamageStep ==
    ASSUME IInv, Damage
    PROVE  IInv'
<1>1. faults' \in 0 .. MaxFaults
  BY Directory, BoundsAssumption DEF Damage, Fault
<1>2. OtherTypes' /\ Worse /\ LockOK' /\ ~Clean'
  BY <1>1, Types DEF IInv, Damage, OtherTypes, Worse, LockOK, Clean
<1>. QED
  BY <1>2, OuterStep DEF Damage

-----------------------------------------------------------------------------
(* The steps that write and delete commits.                                *)

\* Whoever commits is the only one that has the lock.
LEMMA Alone ==
    ASSUME IInv, Clean, NEW p \in Handle, handle[p].pc \in Committing,
           NEW q \in Handle, q # p
    PROVE  /\ handle[q].holds # "yes" /\ handle[q].pc \notin Committing
           /\ search[q].goal \notin {"check", "read"}
           /\ ~(q \in Writer /\ handle[q].pc = "open")
<1>1. handle[p].holds = "yes"
  BY Own DEF Locking
<1>2. handle[q].holds # "yes"
  BY <1>1 DEF IInv, LockOK, Clean
<1>. QED
  BY <1>2, Own DEF Locking

\* A step of a commit.  Of the commits up to the newest one, those that are
\* deleted are deleted with all before them, and none comes back.
LEMMA WriteStep ==
    ASSUME IInv, NEW p \in Handle, NEW h \in HandleState,
           handle[p].pc \in Committing, h.holds = handle[p].holds,
           handle' = [handle EXCEPT ![p] = h],
           Shape(p, h, search[p]), Locking(p, h, search[p]),
           UNCHANGED <<lockFile, search>>, OtherTypes', Worse,
           "orphaned" \in mishaps => "orphaned" \in mishaps',
           Clean' => /\ FilesOK' /\ TornOK(p, handle[p])' /\ Current(handle[p])'
                     /\ newest <= newest' /\ (Skipped => Skipped')
                     /\ \A g \in Gen : g <= newest =>
                          /\ file'[g] = "whole" => file[g] = "whole"
                          /\ file[g] = "whole" =>
                               file'[g] = "whole" \/ \A k \in Gen : k <= g => file'[k] # "whole"
    PROVE  IInv'
<1>1. Clean' => Clean
  BY DEF Clean, Worse
<1>2. TypeOK'
  BY Types DEF IInv
<1>3. \A q \in Handle : handle'[q] = IF q = p THEN h ELSE handle[q]
  BY Types DEF IInv
<1>4. HandlesOK'
  BY <1>3 DEF IInv, HandlesOK
<1>5. LockOK'
  BY <1>3, LockKept DEF IInv
<1>6. ASSUME Clean', NEW q \in Handle PROVE TornOK(q, handle[q])' /\ Current(handle[q])'
  <2>1. CASE q = p
    BY <1>6, <2>1
  <2>2. CASE q # p
    <3>1. /\ handle[q].holds # "yes" /\ handle[q].pc \notin Committing
          /\ ~(q \in Writer /\ handle[q].pc = "open")
      BY <1>1, <1>6, <2>2, Alone
    <3>2. handle[q].lastGen <= newest'
      BY <1>1, <1>6, <2>2, Own, Directory, Types DEF Current, OtherTypes, HandleState
    <3>. QED
      BY <1>1, <1>3, <1>6, <2>2, <3>1, <3>2, Own DEF TornOK, Current, Committing
  <2>. QED
    BY <2>1, <2>2
<1>7. ASSUME Clean', NEW q \in Handle, search[q].pc # "idle" PROVE Informed(search[q])'
  <2>. DEFINE s == search[q]
  <2>1. q # p /\ s.goal \notin {"check", "read"}
    <3>1. search[p].pc = "idle"
      BY Own DEF Shape, Committing
    <3>. QED
      BY <1>1, <1>7, <3>1, Alone
  <2>2. Informed(s) /\ s \in SearchState
    BY <1>1, <1>7, Own
  <2>3. newest' \in Gen /\ newest \in Gen /\ newest <= newest' /\ Gen = 1 .. MaxGen
        /\ MaxGen \in Nat
    BY <1>7, Types, Directory DEF OtherTypes
  <2>4. /\ file[s.start] = "whole" => file'[s.start] = "whole" \/ Gone(s.start)'
        /\ Gone(s.start) => Gone(s.start)'
    BY <1>7, <2>2, <2>3 DEF Informed, Knows, Gone
  <2>5. Knows(search[q])'
    BY <1>7, <2>1, <2>2, <2>3, <2>4 DEF Informed, Knows, SearchState, Skipped
  <2>6. s.start = newest' /\ ~Skipped' => s.start = newest /\ ~Skipped
    BY <1>7, <2>2, <2>3 DEF Informed, Knows
  <2>. QED
    BY <2>2, <2>5, <2>6 DEF Informed, Straight
<1>. QED
  BY <1>2, <1>4, <1>5, <1>6, <1>7 DEF IInv, CommitsOK, SearchesOK

\* What a step of p from pc to next does to its state.
LEMMA WriteGoes ==
    ASSUME IInv, NEW p \in Handle, NEW next \in Committing \cup {"open"},
           handle[p].pc \in Committing, Goto(p, next)
    PROVE  LET h == [handle[p] EXCEPT !.pc = next]
           IN  /\ h \in HandleState /\ handle' = [handle EXCEPT ![p] = h] /\ handle'[p] = h
               /\ h.pc = next /\ h.gen = handle[p].gen /\ h.lastGen = handle[p].lastGen
               /\ h.hasChanges = handle[p].hasChanges
               /\ h.holds = handle[p].holds /\ h.unchecked = handle[p].unchecked
BY Own, Goes, Types DEF IInv, Goto

LEMMA DeleterStep ==
    ASSUME IInv, NEW p \in Handle, Deleter(p)
    PROVE  IInv'
<1>. DEFINE next == IF p \in Reader THEN "create" ELSE "open"
            h == [handle[p] EXCEPT !.pc = next]
            last == handle[p].lastGen
            unused == {g \in Gen : g > last \/ file[g] = "torn"}
<1>1. /\ handle[p].pc = "deleter" /\ file[last] = "whole" /\ Goto(p, next)
      /\ mishaps' = mishaps \cup Reverted(p)
      /\ UNCHANGED <<genFile, lockFile, search, newest, faults>>
  BY DEF Deleter, At
<1>2. PICK old \in {Before(last), {}} : file' = Delete(unused \cup old)
  BY DEF Deleter
<1>3. next \in Committing \cup {"open"} /\ handle[p].pc \in Committing
  BY <1>1 DEF Committing
<1>. HIDE DEF next
<1>4. /\ h \in HandleState /\ handle' = [handle EXCEPT ![p] = h] /\ handle'[p] = h
      /\ h.pc = next /\ h.gen = handle[p].gen /\ h.lastGen = last
      /\ h.hasChanges = handle[p].hasChanges
      /\ h.holds = handle[p].holds /\ h.unchecked = handle[p].unchecked
  BY <1>1, <1>3, WriteGoes
<1>. HIDE DEF h
<1>5. Shape(p, h, search[p]) /\ Locking(p, h, search[p]) /\ last \in Gen
  BY <1>1, <1>3, <1>4, Own DEF Shape, Locking, Committing, next
<1>6. \A g \in Gen : file'[g] = IF g \in unused \cup old THEN "none" ELSE file[g]
  BY <1>2 DEF Delete
<1>7. OtherTypes' /\ Worse /\ ("orphaned" \in mishaps => "orphaned" \in mishaps')
  <2>1. file' \in [Gen -> {"none", "torn", "whole", "damaged"}]
    BY <1>2, Directory DEF Delete
  <2>. QED
    BY <1>1, <2>1, Types DEF IInv, OtherTypes, Worse, Reverted
<1>8. ASSUME Clean'
      PROVE  /\ FilesOK' /\ TornOK(p, handle[p])' /\ Current(handle[p])'
             /\ newest <= newest' /\ (Skipped => Skipped')
             /\ \A g \in Gen : g <= newest =>
                  /\ file'[g] = "whole" => file[g] = "whole"
                  /\ file[g] = "whole" =>
                       file'[g] = "whole" \/ \A k \in Gen : k <= g => file'[k] # "whole"
  <2>1. Clean /\ Reverted(p) = {} /\ (Skipped' <=> Skipped)
    BY <1>1, <1>8 DEF Clean, Skipped, Reverted
  \* A reader that was not checked would have reverted the index.
  <2>2. last = newest
    BY <1>1, <1>5, <2>1, Own, Directory DEF Reverted, FilesOK, Current, Locking, Committing
  <2>3. old \subseteq {g \in Gen : g < newest}
    BY <1>2, <2>2 DEF Before
  <2>4. file'[newest] = "whole" /\ \A g \in Gen : file'[g] # "torn"
    BY <1>6, <2>1, <2>2, <2>3, Directory DEF FilesOK
  <2>5. FilesOK'
    BY <1>1, <1>6, <2>1, <2>4, Directory DEF FilesOK
  <2>6. TornOK(p, handle[p])'
    BY <1>3, <1>4, <2>4 DEF TornOK
  <2>7. Current(handle[p])'
    BY <1>1, <1>3, <1>4, <2>1, <2>2, Own, Directory DEF Current, next, Skipped, HandleState
  <2>8. old = {} \/ \A g \in Gen : g < newest => file'[g] # "whole"
    BY <1>2, <1>6, <2>2 DEF Before
  <2>. QED
    BY <1>1, <1>6, <2>1, <2>2, <2>4, <2>5, <2>6, <2>7, <2>8, Directory
<1>. QED
  BY <1>1, <1>3, <1>4, <1>5, <1>7, <1>8, WriteStep

LEMMA CreateStep ==
    ASSUME IInv, NEW p \in Handle, Create(p)
    PROVE  IInv'
<1>. DEFINE g1 == handle[p].gen + 1
            h == [handle[p] EXCEPT !.gen = g1, !.pc = "fill"]
<1>1. /\ handle[p].pc = "create" /\ file' = [file EXCEPT ![g1] = "torn"]
      /\ handle' = [handle EXCEPT ![p] = h]
      /\ UNCHANGED <<genFile, lockFile, search, newest, mishaps, faults>>
  BY DEF Create, At
<1>2. /\ handle[p].pc \in Committing /\ g1 \in Gen
      /\ handle[p].gen \in Gen /\ handle[p].lastGen \in Gen
  BY <1>1, Own, Directory DEF Committing, Shape
<1>. HIDE DEF g1
<1>3. /\ h \in HandleState
      /\ h.pc = "fill" /\ h.gen = g1 /\ h.lastGen = handle[p].lastGen
      /\ h.hasChanges = handle[p].hasChanges
      /\ h.holds = handle[p].holds /\ h.unchecked = handle[p].unchecked
  <2>1. handle[p] \in HandleState /\ "fill" \in Committing
    BY Own DEF Committing
  <2>. QED
    BY <1>2, <2>1 DEF HandleState
<1>. HIDE DEF h
<1>3a. handle'[p] = h
  BY <1>1, Types DEF IInv
<1>4. Shape(p, h, search[p]) /\ Locking(p, h, search[p])
  BY <1>1, <1>2, <1>3, Own DEF Shape, Locking, Committing
<1>5. OtherTypes' /\ Worse
  BY <1>1, Types DEF IInv, OtherTypes, Worse
<1>6. \A g \in Gen : file'[g] = IF g = g1 THEN "torn" ELSE file[g]
  BY <1>1, Directory
<1>7. ASSUME Clean'
      PROVE  /\ FilesOK' /\ TornOK(p, handle[p])' /\ Current(handle[p])'
             /\ \A g \in Gen : g <= newest => file'[g] = file[g]
  <2>1. Clean /\ (Skipped' <=> Skipped)
    BY <1>1, <1>7 DEF Clean, Skipped
  <2>2. /\ g1 > newest /\ (Skipped \/ g1 = newest + 1) /\ handle[p].lastGen = newest
        /\ \A g \in Gen : file[g] # "torn"
    <3>1. /\ handle[p].lastGen = newest /\ handle[p].gen >= handle[p].lastGen
          /\ Skipped \/ handle[p].gen = handle[p].lastGen
          /\ \A g \in Gen : file[g] # "torn"
      BY <1>1, <2>1, Own DEF Current, TornOK
    <3>. QED
      BY <1>2, <3>1, Directory DEF g1
  <2>3. FilesOK'
    BY <1>1, <1>2, <1>6, <2>1, <2>2, Directory DEF FilesOK
  <2>4. TornOK(p, handle[p])'
    BY <1>3, <1>6, <1>3a, <2>2 DEF TornOK
  <2>5. Current(handle[p])'
    BY <1>1, <1>3, <1>3a, <2>1, <2>2, Directory DEF Current
  <2>. QED
    BY <1>6, <2>2, <2>3, <2>4, <2>5, Directory
<1>8. Clean' => newest <= newest' /\ (Skipped => Skipped')
  BY <1>1, Directory DEF Skipped
<1>. QED
  BY <1>1, <1>2, <1>3, <1>4, <1>5, <1>7, <1>8, WriteStep

LEMMA FillStep ==
    ASSUME IInv, NEW p \in Handle, Fill(p)
    PROVE  IInv'
<1>. DEFINE h == [handle[p] EXCEPT !.pc = "tear"]
            g1 == handle[p].gen
<1>1. /\ handle[p].pc = "fill" /\ file' = [file EXCEPT ![g1] = "whole"]
      /\ newest' = g1 /\ Goto(p, "tear")
      /\ UNCHANGED <<genFile, lockFile, search, mishaps, faults>>
  BY DEF Fill, At
<1>2. handle[p].pc \in Committing /\ g1 \in Gen /\ "tear" \in Committing
  BY <1>1, Own DEF Committing, Shape
<1>3. /\ h \in HandleState /\ handle' = [handle EXCEPT ![p] = h] /\ handle'[p] = h
      /\ h.pc = "tear" /\ h.gen = g1 /\ h.lastGen = handle[p].lastGen
      /\ h.hasChanges = handle[p].hasChanges
      /\ h.holds = handle[p].holds /\ h.unchecked = handle[p].unchecked
  BY <1>1, <1>2, WriteGoes
<1>. HIDE DEF h
<1>4. Shape(p, h, search[p]) /\ Locking(p, h, search[p])
  BY <1>1, <1>2, <1>3, Own DEF Shape, Locking, Committing
<1>5. OtherTypes' /\ Worse
  BY <1>1, <1>2, Types DEF IInv, OtherTypes, Worse
<1>6. \A g \in Gen : file'[g] = IF g = g1 THEN "whole" ELSE file[g]
  BY <1>1, Directory
<1>7. ASSUME Clean'
      PROVE  /\ FilesOK' /\ TornOK(p, handle[p])' /\ Current(handle[p])'
             /\ newest <= newest' /\ \A g \in Gen : g <= newest => file'[g] = file[g]
  <2>1. Clean /\ (Skipped' <=> Skipped)
    BY <1>1, <1>7 DEF Clean, Skipped
  <2>2. /\ g1 > newest /\ handle[p].lastGen = newest
        /\ \A g \in Gen : file[g] = "torn" => g = g1
    BY <1>1, <2>1, Own DEF Current, TornOK
  <2>3. FilesOK'
    BY <1>1, <1>2, <1>6, <2>1, <2>2, Directory DEF FilesOK
  <2>4. TornOK(p, handle[p])'
    BY <1>3, <1>6, <2>2 DEF TornOK
  <2>5. Current(handle[p])'
    BY <1>1, <1>2, <1>3, <2>1, <2>2, Directory DEF Current
  <2>. QED
    BY <1>1, <1>2, <1>6, <2>2, <2>3, <2>4, <2>5, Directory
<1>8. Skipped => Skipped'
  BY <1>1 DEF Skipped
<1>. QED
  BY <1>1, <1>2, <1>3, <1>4, <1>5, <1>7, <1>8, WriteStep

LEMMA FillFailsStep ==
    ASSUME IInv, NEW p \in Handle, FillFails(p)
    PROVE  IInv'
<1>. DEFINE h == [handle[p] EXCEPT !.pc = "undo"]
            g1 == handle[p].gen
<1>1. /\ handle[p].pc = "fill" /\ file' \in {file, Delete({g1})} /\ Goto(p, "undo")
      /\ faults' \in 0 .. MaxFaults
      /\ UNCHANGED <<genFile, lockFile, search, newest, mishaps>>
  BY Directory, BoundsAssumption DEF FillFails, At, Fault
<1>2. handle[p].pc \in Committing /\ "undo" \in Committing /\ g1 \in Gen
  BY <1>1, Own DEF Committing, Shape
<1>3. /\ h \in HandleState /\ handle' = [handle EXCEPT ![p] = h] /\ handle'[p] = h
      /\ h.pc = "undo" /\ h.gen = g1 /\ h.lastGen = handle[p].lastGen
      /\ h.hasChanges = handle[p].hasChanges
      /\ h.holds = handle[p].holds /\ h.unchecked = handle[p].unchecked
  BY <1>1, <1>2, WriteGoes
<1>. HIDE DEF h
<1>4. Shape(p, h, search[p]) /\ Locking(p, h, search[p])
  BY <1>1, <1>2, <1>3, Own DEF Shape, Locking, Committing
<1>5. \A g \in Gen : file'[g] = file[g] \/ (g = g1 /\ file'[g] = "none")
  BY <1>1 DEF Delete
<1>6. OtherTypes' /\ Worse /\ ("orphaned" \in mishaps => "orphaned" \in mishaps') /\ (Skipped' <=> Skipped)
  <2>1. file' \in [Gen -> {"none", "torn", "whole", "damaged"}]
    BY <1>1, Directory DEF Delete
  <2>. QED
    BY <1>1, <2>1, Types DEF IInv, OtherTypes, Worse, Skipped
<1>7. ASSUME Clean'
      PROVE  /\ FilesOK' /\ TornOK(p, handle[p])' /\ Current(handle[p])'
             /\ \A g \in Gen : g <= newest => file'[g] = file[g]
  <2>1. Clean
    BY <1>1, <1>7 DEF Clean
  <2>2. /\ g1 > newest /\ handle[p].lastGen = newest
        /\ \A g \in Gen : file[g] = "torn" => g = g1
    BY <1>1, <2>1, Own DEF Current, TornOK
  <2>3. FilesOK'
    <3>1. \A g \in Gen : file'[g] = file[g] \/ file'[g] = "none"
      BY <1>5
    <3>2. file'[newest] = "whole"
      BY <1>2, <1>5, <2>1, <2>2, Directory DEF FilesOK
    <3>. QED
      BY <1>1, <1>6, <2>1, <3>1, <3>2, Directory DEF FilesOK
  <2>4. TornOK(p, handle[p])'
    BY <1>3, <1>5, <2>2 DEF TornOK
  <2>5. Current(handle[p])'
    BY <1>1, <1>2, <1>3, <1>6, <2>1, <2>2, Own, Directory DEF Current
  <2>. QED
    BY <1>1, <1>2, <1>5, <2>2, <2>3, <2>4, <2>5, Directory
<1>8. newest <= newest'
  BY <1>1, Directory
<1>. QED
  BY <1>1, <1>2, <1>3, <1>4, <1>6, <1>7, <1>8, WriteStep

LEMMA UndoStep ==
    ASSUME IInv, NEW p \in Handle, Undo(p)
    PROVE  IInv'
<1>. DEFINE h == [handle[p] EXCEPT !.pc = "open"]
            g1 == handle[p].gen
<1>1. /\ handle[p].pc = "undo" /\ file' = Delete({g1})
      /\ mishaps' = mishaps \cup {"skipped"} /\ Goto(p, "open")
      /\ UNCHANGED <<genFile, lockFile, search, newest, faults>>
  BY DEF Undo, At
<1>2. handle[p].pc \in Committing /\ g1 \in Gen
  BY <1>1, Own DEF Committing, Shape
<1>3. /\ h \in HandleState /\ handle' = [handle EXCEPT ![p] = h] /\ handle'[p] = h
      /\ h.pc = "open" /\ h.gen = g1 /\ h.lastGen = handle[p].lastGen
      /\ h.hasChanges = handle[p].hasChanges
      /\ h.holds = handle[p].holds /\ h.unchecked = handle[p].unchecked
  BY <1>1, <1>2, WriteGoes
<1>. HIDE DEF h
<1>4. Shape(p, h, search[p]) /\ Locking(p, h, search[p])
  BY <1>1, <1>2, <1>3, Own DEF Shape, Locking, Committing
<1>5. \A g \in Gen : file'[g] = IF g = g1 THEN "none" ELSE file[g]
  BY <1>1 DEF Delete
<1>6. OtherTypes' /\ Worse /\ ("orphaned" \in mishaps => "orphaned" \in mishaps') /\ Skipped'
  <2>1. file' \in [Gen -> {"none", "torn", "whole", "damaged"}]
    BY <1>1, Directory DEF Delete
  <2>. QED
    BY <1>1, <2>1, Types DEF IInv, OtherTypes, Worse, Skipped
<1>7. ASSUME Clean'
      PROVE  /\ FilesOK' /\ TornOK(p, handle[p])' /\ Current(handle[p])'
             /\ \A g \in Gen : g <= newest => file'[g] = file[g]
  <2>1. Clean
    BY <1>1, <1>7 DEF Clean
  <2>2. /\ g1 > newest /\ handle[p].lastGen = newest
        /\ \A g \in Gen : file[g] = "torn" => g = g1
    BY <1>1, <2>1, Own DEF Current, TornOK
  <2>3. FilesOK'
    <3>1. \A g \in Gen : file'[g] # "torn" /\ (file'[g] = file[g] \/ file'[g] = "none")
      BY <1>5, <2>2
    <3>2. file'[newest] = "whole"
      BY <1>2, <1>5, <2>1, <2>2, Directory DEF FilesOK
    <3>. QED
      BY <1>1, <2>1, <3>1, <3>2, Directory DEF FilesOK
  <2>4. TornOK(p, handle[p])'
    BY <1>3, <1>5, <2>2 DEF TornOK
  <2>5. Current(handle[p])'
    BY <1>1, <1>2, <1>3, <1>6, <2>1, <2>2, Own, Directory DEF Current
  <2>. QED
    BY <1>1, <1>2, <1>5, <2>2, <2>3, <2>4, <2>5, Directory
<1>8. newest <= newest'
  BY <1>1, Directory
<1>. QED
  BY <1>1, <1>2, <1>3, <1>4, <1>6, <1>7, <1>8, WriteStep

LEMMA CheckpointStep ==
    ASSUME IInv, NEW p \in Handle, Checkpoint(p)
    PROVE  IInv'
<1>. DEFINE next == IF p \in Reader THEN "release" ELSE "open"
            h == [handle[p] EXCEPT !.pc = next]
            g1 == handle[p].gen
<1>1. /\ handle[p].pc = "checkpoint" /\ Goto(p, next)
      /\ UNCHANGED <<genFile, lockFile, search, newest, mishaps, faults>>
  BY DEF Checkpoint, At
<1>2. PICK old \in {Before(g1), {}} : file' = Delete(old)
  BY DEF Checkpoint
<1>3. next \in Committing \cup {"open"} /\ handle[p].pc \in Committing
  BY <1>1 DEF Committing
<1>. HIDE DEF next
<1>4. /\ h \in HandleState /\ handle' = [handle EXCEPT ![p] = h] /\ handle'[p] = h
      /\ h.pc = next /\ h.gen = g1 /\ h.lastGen = handle[p].lastGen
      /\ h.hasChanges = handle[p].hasChanges
      /\ h.holds = handle[p].holds /\ h.unchecked = handle[p].unchecked
  BY <1>1, <1>3, WriteGoes
<1>. HIDE DEF h
<1>5. Shape(p, h, search[p]) /\ Locking(p, h, search[p]) /\ g1 \in Gen
  BY <1>1, <1>3, <1>4, Own DEF Shape, Locking, Committing, next
<1>6. \A g \in Gen : file'[g] = IF g \in old THEN "none" ELSE file[g]
  BY <1>2 DEF Delete
<1>7. OtherTypes' /\ Worse
  <2>1. file' \in [Gen -> {"none", "torn", "whole", "damaged"}]
    BY <1>2, Directory DEF Delete
  <2>. QED
    BY <1>1, <2>1, Types DEF IInv, OtherTypes, Worse
<1>8. ASSUME Clean'
      PROVE  /\ FilesOK' /\ TornOK(p, handle[p])' /\ Current(handle[p])'
             /\ \A g \in Gen : g <= newest =>
                  /\ file'[g] = "whole" => file[g] = "whole"
                  /\ file[g] = "whole" =>
                       file'[g] = "whole" \/ \A k \in Gen : k <= g => file'[k] # "whole"
  <2>1. Clean /\ (Skipped' <=> Skipped)
    BY <1>1, <1>8 DEF Clean, Skipped
  <2>2. /\ g1 = newest /\ handle[p].lastGen = newest
        /\ \A g \in Gen : file[g] # "torn"
    BY <1>1, <2>1, Own DEF Current, TornOK
  <2>3. old \subseteq {g \in Gen : g < newest}
    BY <1>2, <2>2 DEF Before
  <2>4. FilesOK'
    BY <1>1, <1>6, <2>1, <2>3, Directory DEF FilesOK
  <2>5. TornOK(p, handle[p])'
    BY <1>3, <1>4, <1>6, <2>2 DEF TornOK
  <2>6. Current(handle[p])'
    BY <1>1, <1>3, <1>4, <2>1, <2>2, Directory DEF Current, next
  <2>7. old = {} \/ \A g \in Gen : g < newest => file'[g] # "whole"
    BY <1>2, <1>6, <2>2 DEF Before
  <2>8. file'[newest] = "whole"
    BY <1>6, <2>1, <2>3, Directory DEF FilesOK
  <2>. QED
    BY <1>1, <1>6, <2>4, <2>5, <2>6, <2>7, <2>8, Directory
<1>9. newest <= newest' /\ (Skipped => Skipped')
  BY <1>1, Directory DEF Skipped
<1>. QED
  BY <1>1, <1>3, <1>4, <1>5, <1>7, <1>8, <1>9, WriteStep

-----------------------------------------------------------------------------
(* The theorems.                                                           *)

LEMMA InitInv ==
    ASSUME Init
    PROVE  IInv
<1>1. /\ MaxGen \in Nat \ {0} /\ Gen = 1 .. MaxGen /\ MaxFaults \in Nat
      /\ file \in [Gen -> {"none", "torn", "whole", "damaged"}]
      /\ \A g \in Gen : file[g] = IF g = 1 THEN "whole" ELSE "none"
      /\ genFile = 1 /\ lockFile = FALSE /\ newest = 1 /\ mishaps = {} /\ faults = 0
  BY BoundsAssumption DEF Init, Gen
<1>2. /\ Closed \in HandleState /\ Closed.pc = "closed" /\ Closed.gen = 0
      /\ Closed.lastGen = 0 /\ ~Closed.hasChanges /\ Closed.holds = "no"
      /\ ~Closed.unchecked
  BY DEF Closed, HandleState
<1>3. /\ handle = [p \in Handle |-> Closed] /\ search = [p \in Handle |-> NoSearch]
      /\ \A p \in Handle : handle[p] = Closed /\ search[p] = NoSearch
  BY DEF Init
<1>4. TypeOK
  <2>0. 1 \in Gen /\ 0 \in 0 .. MaxFaults
    BY <1>1
  <2>1. OtherTypes
    BY <1>1, <2>0, Zenon DEF OtherTypes
  <2>2. handle \in [Handle -> HandleState] /\ search \in [Handle -> SearchState]
    BY <1>2, <1>3, NoSearchOK
  <2>. QED
    BY <2>1, <2>2, Types
<1>5. HandlesOK
  BY <1>2, <1>3, NoSearchFits DEF HandlesOK, Shape, Locking, Committing
<1>6. LockOK
  BY <1>1, <1>2, <1>3 DEF LockOK
<1>7. FilesOK
  BY <1>1 DEF FilesOK
<1>8. CommitsOK /\ SearchesOK
  BY <1>1, <1>2, <1>3, NoSearchFits DEF CommitsOK, SearchesOK, TornOK, Current
<1>. QED
  BY <1>4, <1>5, <1>6, <1>7, <1>8 DEF IInv

LEMMA NextInv ==
    ASSUME IInv, [Next]_vars
    PROVE  IInv'
<1>1. ASSUME NEW p \in Handle, SearchStep(p) PROVE IInv'
  BY <1>1, ListStep, ReadGenStep, ReadInfosStep, OpenFilesStep, OpenedStep, OpenFailedStep,
     IsCurrentStep, ReopenedStep, ReopenFailedStep, CheckedStep, StaleStep, CheckFailedStep,
     ReadStep, ReadFailedStep DEF SearchStep
<1>2. ASSUME NEW p \in Handle, CommitStep(p) PROVE IInv'
  BY <1>2, CommitStepOK, DeleterStep, DeleterFailsStep, CreateStep, FillStep, FillFailsStep,
     UndoStep, TearGenStep, WriteGenStep, CheckpointStep DEF CommitStep
<1>3. ASSUME NEW p \in Reader, ReaderStep(p) PROVE IInv'
  BY <1>3, OpenStep, ReopenStep, ChangeStep, AcquireWriteLockStep, ReleaseStep, CloseStaleStep
  DEF ReaderStep
<1>4. CASE UNCHANGED vars
  <2>1. OtherTypes' /\ LockOK' /\ Worse
    BY <1>4, Types DEF IInv, vars, directory, OtherTypes, LockOK, Worse
  <2>. QED
    BY <1>4, <2>1, OuterStep DEF vars, directory, Skipped
<1>. QED
  BY <1>1, <1>2, <1>3, <1>4, SearchFailsStep, CloseStep, CrashStep, ObtainStep, UnlockStep,
     DamageStep DEF Next

THEOREM Invariance == Spec => []IInv
<1>1. Init => IInv
  BY InitInv
<1>2. IInv /\ [Next]_vars => IInv'
  BY NextInv
<1>. QED
  BY <1>1, <1>2, PTL DEF Spec

\* The types of the variables, for any number of readers and writers.
THEOREM TypeCorrect == Spec => []TypeOK
<1>1. IInv => TypeOK
  BY DEF IInv
<1>. QED
  BY <1>1, Invariance, PTL

\* _FindSegmentsFile::doRun finds a commit that is no older than the newest one
\* when it began, and an index to which nothing is committed meanwhile.
THEOREM FindsCommit == Spec => []SearchFinds
<1>1. IInv => SearchFinds
  BY DEF IInv, SearchFinds, Clean, Skipped, SearchesOK, Informed, Knows
<1>. QED
  BY <1>1, Invariance, PTL

\* The write lock has one holder at most, and write.lock exists exactly while it
\* has one, but for the locks that are left behind.
THEOREM OneHolder == Spec => []LockExact
<1>1. ASSUME IInv PROVE LockExact
  <2>. SUFFICES ASSUME "released" \notin mishaps
                PROVE  LET holders == {p \in Handle : handle[p].holds = "yes"}
                       IN  /\ Cardinality(holders) <= 1
                           /\ holders # {} => lockFile
                           /\ lockFile => holders # {} \/ "orphaned" \in mishaps
    BY DEF LockExact
  <2>. DEFINE holders == {p \in Handle : handle[p].holds = "yes"}
  <2>1. \A p, q \in holders : p = q
    BY <1>1 DEF IInv, LockOK
  <2>2. Cardinality(holders) <= 1
    <3>. HIDE DEF holders
    <3>1. CASE holders = {}
      <4>1. Cardinality(holders) = 0
        BY <3>1, FS_EmptySet, Zenon
      <4>. QED
        BY <4>1
    <3>2. CASE holders # {}
      <4>1. PICK p : p \in holders
        BY <3>2
      <4>2. holders = {p}
        BY <2>1, <4>1
      <4>3. Cardinality(holders) = 1
        BY <4>2, FS_Singleton, Zenon
      <4>. QED
        BY <4>3
    <3>. QED
      BY <3>1, <3>2
  <2>3. /\ holders # {} => lockFile
        /\ lockFile => holders # {} \/ "orphaned" \in mishaps
    BY <1>1 DEF IInv, LockOK
  <2>. QED
    BY <2>2, <2>3
<1>. QED
  BY <1>1, Invariance, PTL

\* Who completes a commit has read the one before: an update that another
\* reader or writer committed is not overwritten.
THEOREM UpdatesKept == Spec => NoLostUpdate
<1>1. ASSUME IInv, NEW p \in Handle, At(p, "fill")
      PROVE  \/ handle[p].lastGen = newest
             \/ mishaps \cap {"released", "damaged", "reverted"} # {}
  <2>1. CASE Clean
    BY <1>1, <2>1, Own DEF At, Current
  <2>2. CASE ~Clean
    BY <2>2 DEF Clean
  <2>. QED
    BY <2>1, <2>2
<1>2. IInv => [\A p \in Handle :
                 (At(p, "fill") /\ handle'[p].pc = "tear") =>
                     \/ handle[p].lastGen = newest
                     \/ mishaps \cap {"released", "damaged", "reverted"} # {}]_vars
  BY <1>1
<1>. QED
  BY <1>2, Invariance, PTL DEF NoLostUpdate

=============================================================================
