------------------------------ MODULE MCSched ------------------------------
(***************************************************************************)
(* Instances of Sched for TLC.  Slots and harts are numbers the code       *)
(* searches in order, so there is no symmetry.                             *)
(***************************************************************************)
EXTENDS Sched
=============================================================================
