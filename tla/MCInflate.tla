----------------------------- MODULE MCInflate -----------------------------
(***************************************************************************)
(* Small instances of Inflate for TLC.                                     *)
(***************************************************************************)
EXTENDS Inflate

SmallLengths == 0 .. 14

=============================================================================
