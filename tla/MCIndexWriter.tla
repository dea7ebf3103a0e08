---------------------------- MODULE MCIndexWriter ----------------------------
(* Small instances of IndexWriter.                                         *)
EXTENDS IndexWriter

Symmetry == Permutations(Doc)
=============================================================================
