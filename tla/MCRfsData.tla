----------------------------- MODULE MCRfsData -----------------------------
(***************************************************************************)
(* Instances of RfsData for TLC.                                           *)
(***************************************************************************)
EXTENDS RfsData

Symmetry == Permutations(Byte)
=============================================================================
