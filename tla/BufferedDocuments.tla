------------------------- MODULE BufferedDocuments -------------------------
(***************************************************************************)
(* What the buffer of an IndexWriter promises, whatever number of threads  *)
(* use it: the index as a caller sees it, live, is changed by one call     *)
(* after the other; a flush makes it durable and changes nothing else; an  *)
(* abort takes it back to what is durable.  Every document matches the     *)
(* term that documents are deleted by.                                     *)
(***************************************************************************)
CONSTANT Doc

VARIABLES
    live,     \* Documents the calls so far have left.
    durable   \* Documents in flushed segments that are not deleted.

bufferVars == <<live, durable>>

Init == live = {} /\ durable = {}

Add(d) == d \notin live /\ live' = live \cup {d} /\ UNCHANGED durable

\* deleteDocuments: whatever was added before is gone.
Delete == live' = {} /\ UNCHANGED durable

\* updateDocument: delete and add in one.
Update(d) == live' = {d} /\ UNCHANGED durable

\* The document's call fails: it is as if it had never been added.
Fail(d) == live' = live \ {d} /\ UNCHANGED durable

Flush == durable' = live /\ UNCHANGED live

\* Everything since the last flush is given up, deletions included.
Abort == live' = durable /\ UNCHANGED durable

Next ==
    \/ \E d \in Doc : Add(d) \/ Update(d) \/ Fail(d)
    \/ Delete \/ Flush \/ Abort

Spec == Init /\ [][Next]_bufferVars
=============================================================================
