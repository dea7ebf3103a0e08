--------------------------- MODULE MCMergeRegistry ---------------------------
(* Small instances of MergeRegistry.                                       *)
EXTENDS MergeRegistry

\* An index that a merge factor of 2 leaves as it is, and one that was written
\* with a greater merge factor.
Written == {<<2, 1>>, <<1, 1, 1>>}
=============================================================================
