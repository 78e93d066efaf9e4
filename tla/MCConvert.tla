----------------------------- MODULE MCConvert -----------------------------
(***************************************************************************)
(* Small instances of Convert for TLC.                                     *)
(***************************************************************************)
EXTENDS Convert, TLC

CONSTANTS c1, c2, f1, f2, f3, n1, n2, n3

\* A name for each file.
DistinctNames ==
    [f \in Files |-> CASE f = f1 -> n1 [] f = f2 -> n2 [] f = f3 -> n3]

ConverterSymmetry == Permutations(Converters)

=============================================================================
