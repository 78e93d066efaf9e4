------------------------- MODULE MCConvertDelivery -------------------------
(***************************************************************************)
(* An instance of ConvertDelivery for TLC: two files, each under its own   *)
(* name.                                                                   *)
(***************************************************************************)
EXTENDS ConvertDelivery, TLC

CONSTANTS c1, c2, f1, f2, n1, n2

DistinctNames == (f1 :> n1) @@ (f2 :> n2)

\* The converters are interchangeable.
ConverterSymmetry == Permutations(Converters)

=============================================================================
