------------------------------- MODULE MCCow -------------------------------
(***************************************************************************)
(* Instances of Cow for TLC.                                               *)
(***************************************************************************)
EXTENDS Cow, TLC

Symmetry == Permutations(Proc) \cup Permutations(Page) \cup Permutations(Data)
=============================================================================
