--------------------------- MODULE MCIndexReaders ---------------------------
(* Small instances of IndexReaders: one reader and one writer.             *)
EXTENDS IndexReaders
=============================================================================
