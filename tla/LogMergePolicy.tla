--------------------------- MODULE LogMergePolicy ---------------------------
(***************************************************************************)
(* index/MergePolicy.cpp, LogMergePolicy: which adjacent segments to merge *)
(* next.  A segment's level is the logarithm, base mergeFactor, of its     *)
(* size; levels are compared without logarithms here: a is within 3/4      *)
(* (LEVEL_LOG_SPAN) of m when a^4 * mergeFactor^3 >= m^4.                  *)
(*                                                                         *)
(* Segments are given by their sizes, in the order of the index; a merge   *)
(* is the pair of its first and its last segment.                          *)
(***************************************************************************)
EXTENDS Integers, Sequences, FiniteSetsExt

CONSTANTS
    MergeFactor,   \* mergeFactor
    MinMergeSize,  \* minMergeSize
    MaxMergeSize   \* The smaller of maxMergeSize and maxMergeDocs.

\* setMergeFactor refuses less than 2.
ASSUME MergeFactorAssumption == MergeFactor \in Nat /\ MergeFactor >= 2
ASSUME SizesAssumption == MinMergeSize \in Nat /\ MaxMergeSize \in Nat

AtLeast1(n) == IF n < 1 THEN 1 ELSE n

\* A segment of size a falls into the level whose largest has size m; all the
\* small ones are one level.
InLevel(a, m) ==
    \/ m < AtLeast1(MinMergeSize)
    \/ a >= AtLeast1(MinMergeSize) /\ a^4 * MergeFactor^3 >= m^4

\* The rightmost segment from start on that is in the level of the largest,
\* and so of all from start on.
Upto(sizes, start) ==
    LET top(i) == \A j \in start..Len(sizes) : InLevel(AtLeast1(sizes[i]), AtLeast1(sizes[j]))
    IN  CHOOSE i \in start..Len(sizes) : top(i) /\ \A k \in (i + 1)..Len(sizes) : ~top(k)

TooLarge(sizes, first, end) == \E i \in first..end : sizes[i] >= MaxMergeSize

\* The merges of mergeFactor segments in start..upto.
FullRanges(sizes, start, upto) ==
    SelectSeq([k \in 1..((upto - start + 1) \div MergeFactor) |->
                 <<start + (k - 1) * MergeFactor, start + k * MergeFactor - 1>>],
              LAMBDA r : ~TooLarge(sizes, r[1], r[2]))

\* findMerges: the level start..upto, and those after it.
FindMerges(sizes) ==
    LET n == Len(sizes)
        from[start \in 1..n, upto \in 1..n] ==
          FullRanges(sizes, start, upto)
            \o (IF upto = n THEN <<>> ELSE from[upto + 1, Upto(sizes, upto + 1)])
    IN  IF n = 0 THEN <<>> ELSE from[1, Upto(sizes, 1)]

\* The first of the n adjacent segments in 1..last that are merged when fewer
\* than mergeFactor are: those of least size, unless that is lopsided.
BestStart(sizes, last, n) ==
    LET sum(i) == MapThenSumSet(LAMBDA j : sizes[j], i..(i + n - 1))
        best[i \in 1..(last - n + 1)] ==
          IF i = 1 \/ (sum(i) < 2 * sizes[i - 1] /\ sum(i) < sum(best[i - 1]))
          THEN i ELSE best[i - 1]
    IN  best[last - n + 1]

\* isOptimized: no more than max of the segments in marked are there, and a
\* single one is clean.
IsOptimized(sizes, marked, clean, max) ==
    LET k == Cardinality(marked \cap DOMAIN sizes)
    IN  k <= max /\ (k = 1 => marked \cap DOMAIN sizes \subseteq clean)

\* findMergesForOptimize: full merges from the right, of the segments up to the
\* last one that is marked, or else one merge that leaves max of them.
FindMergesForOptimize(sizes, marked, clean, max) ==
    IF IsOptimized(sizes, marked, clean, max) \/ marked \cap DOMAIN sizes = {} THEN <<>>
    ELSE LET last == Max(marked \cap DOMAIN sizes)
             full == IF last < max THEN 0 ELSE (last - max + 1) \div MergeFactor
         IN  IF full > 0
             THEN [k \in 1..full |-> <<last - k * MergeFactor + 1, last - (k - 1) * MergeFactor>>]
             ELSE IF max = 1
             THEN IF last > 1 \/ 1 \notin clean THEN <<<<1, last>>>> ELSE <<>>
             ELSE IF last <= max THEN <<>>
             ELSE LET n == last - max + 1
                      first == BestStart(sizes, last, n)
                  IN  <<<<first, first + n - 1>>>>
=============================================================================
