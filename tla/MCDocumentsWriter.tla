-------------------------- MODULE MCDocumentsWriter --------------------------
(* Small instances of DocumentsWriter.  No symmetry: the threads' calls are *)
(* checked to return.                                                       *)
EXTENDS DocumentsWriter
=============================================================================
