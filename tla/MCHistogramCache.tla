-------------------------- MODULE MCHistogramCache --------------------------
(***************************************************************************)
(* Small instances of HistogramCache for TLC.                              *)
(***************************************************************************)
EXTENDS HistogramCache, TLC

CONSTANTS c1, c2, k1, k2, k3, x1, n1, n2, n3, s1, s2

\* A file for each key.
DistinctDiskNames ==
    [k \in Keys |-> CASE k = k1 -> n1 [] k = k2 -> n2 [] k = k3 -> n3]

\* Each known key has a specification of its own.
OwnSpec == [k \in Known |-> IF k = k1 THEN s1 ELSE s2]

\* The specification has not changed between the revisions.
SameSpec == [k \in Known |-> s1]

ConverterSymmetry == Permutations(Converters)

=============================================================================
