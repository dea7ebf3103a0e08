------------------------- MODULE MCIndexFileDeleter -------------------------
(* A small instance of IndexFileDeleter.  A client passes vectors of at    *)
(* most one name, so a checkpoint's two vectors together may name a file   *)
(* twice, as two segments that share a doc store do.  A step may spare (or *)
(* pick) no file, one data file or all of them.                            *)
EXTENDS IndexFileDeleter, TLC

CONSTANTS Data, MaxGen

MCGen == 1..MaxGen
MCSegmentsFile(g) == <<"segments", g>>
MCFile == ({"data"} \X Data) \cup {MCSegmentsFile(g) : g \in MCGen}
MCVectors == {<<>>} \cup {<<<<"data", d>>>> : d \in Data}
MCFileSets == {{}, MCFile} \cup {{<<"data", d>>} : d \in Data}
MCOwner == {1}
Symmetry == Permutations(Data)
=============================================================================
