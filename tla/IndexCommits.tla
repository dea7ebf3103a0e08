---------------------------- MODULE IndexCommits ----------------------------
(***************************************************************************)
(* What IndexWriter promises about documents, with segments, merges, files *)
(* and segments_N generations forgotten.  An index is the set of documents *)
(* a reader that opens now would see.  The documentation of autoCommit in  *)
(* index/IndexWriter.h is the informal version: with autoCommit every      *)
(* flush is visible, without it nothing is until close(), abort() and a    *)
(* crash leave the index as it was, and closing loses nothing.             *)
(***************************************************************************)
EXTENDS Naturals

CONSTANT Doc    \* The documents; each is told apart by a term of its own.

VARIABLES
    committed,  \* The documents of the newest commit.
    working,    \* Those of the writer's in-memory segments.
    adds,       \* Buffered documents.
    dels,       \* Documents with a buffered delete.
    mode,       \* The writer's mode, below.
    failures    \* How many I/O errors and crashes there have been.

vars == <<committed, working, adds, dels, mode, failures>>

\* "creating": a writer is replacing the index.  "auto" and "manual": open,
\* with or without autoCommit.  "finishing": a writer without autoCommit is
\* committing what it has, on close.  "aborting": it has given that up.
Mode == {"closed", "creating", "auto", "manual", "finishing", "aborting"}

TypeOK ==
    /\ committed \subseteq Doc
    /\ working \subseteq Doc
    /\ adds \subseteq Doc
    /\ dels \subseteq Doc
    /\ mode \in Mode
    /\ failures \in Nat

Init ==
    /\ committed = {}
    /\ working = {}
    /\ adds = {}
    /\ dels = {}
    /\ mode = "closed"
    /\ failures = 0

\* Opening shows the writer what is committed; creating starts from nothing.
Open ==
    /\ mode = "closed"
    /\ working' = committed
    /\ mode' \in {"auto", "manual"}
    /\ UNCHANGED <<committed, adds, dels, failures>>

Create ==
    /\ mode = "closed"
    /\ working' = {}
    /\ mode' = "creating"
    /\ UNCHANGED <<committed, adds, dels, failures>>

Created ==
    /\ mode = "creating"
    /\ working = committed
    /\ mode' \in {"auto", "manual"}
    /\ UNCHANGED <<committed, working, adds, dels, failures>>

Add(d) ==
    /\ mode \in {"auto", "manual"}
    /\ d \notin working \cup adds
    /\ adds' = adds \cup {d}
    /\ UNCHANGED <<committed, working, dels, mode, failures>>

Delete(d) ==
    /\ mode \in {"auto", "manual"}
    /\ d \in working \cup adds
    /\ dels' = dels \cup {d}
    /\ UNCHANGED <<committed, working, adds, mode, failures>>

\* A flush applies everything that is buffered, in one step.
Apply ==
    /\ mode \in {"auto", "manual", "finishing"}
    /\ working' = (working \cup adds) \ dels
    /\ adds' = {}
    /\ dels' = {}
    /\ UNCHANGED <<committed, mode, failures>>

\* A failed flush loses what was buffered and nothing else.
Drop ==
    /\ adds' = {}
    /\ dels' = {}
    /\ failures' = failures + 1
    /\ UNCHANGED <<committed, working, mode>>

\* Without autoCommit the index is published on close only.
Publish ==
    /\ mode \in {"auto", "finishing", "creating"}
    /\ committed' = working
    /\ UNCHANGED <<working, adds, dels, mode, failures>>

\* A commit that fails takes the writer back to the last commit.
Undo ==
    /\ mode = "auto"
    /\ working' = committed
    /\ failures' = failures + 1
    /\ UNCHANGED <<committed, adds, dels, mode>>

\* Any other failure goes unnoticed.
Fail ==
    /\ failures' = failures + 1
    /\ UNCHANGED <<committed, working, adds, dels, mode>>

Finish ==
    /\ mode = "manual"
    /\ mode' = "finishing"
    /\ UNCHANGED <<committed, working, adds, dels, failures>>

\* Closing failed: the writer is still open.
Unfinish ==
    /\ mode \in {"finishing", "aborting"}
    /\ mode' = "manual"
    /\ UNCHANGED <<committed, working, adds, dels, failures>>

\* abort() is for writers without autoCommit: everything since the last
\* commit is given up.
Abort ==
    /\ mode = "manual"
    /\ working' = committed
    /\ adds' = {}
    /\ dels' = {}
    /\ mode' = "aborting"
    /\ UNCHANGED <<committed, failures>>

\* An orderly close leaves nothing behind that is not committed.
Close ==
    /\ mode \in {"auto", "finishing", "aborting"}
    /\ adds = {}
    /\ dels = {}
    /\ working = committed
    /\ working' = {}
    /\ mode' = "closed"
    /\ UNCHANGED <<committed, adds, dels, failures>>

\* A creation that failed leaves the newest commit.
Abandon ==
    /\ mode = "creating"
    /\ working' = {}
    /\ mode' = "closed"
    /\ UNCHANGED <<committed, adds, dels, failures>>

\* So does a crash.
Crash ==
    /\ working' = {}
    /\ adds' = {}
    /\ dels' = {}
    /\ mode' = "closed"
    /\ failures' = failures + 1
    /\ UNCHANGED committed

Next ==
    \/ Open \/ Create \/ Created
    \/ \E d \in Doc : Add(d) \/ Delete(d)
    \/ Apply \/ Publish
    \/ Finish \/ Unfinish \/ Abort \/ Close
    \/ Drop \/ Undo \/ Fail \/ Abandon \/ Crash

Spec == Init /\ [][Next]_vars
=============================================================================
