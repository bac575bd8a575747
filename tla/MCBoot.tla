------------------------------- MODULE MCBoot -------------------------------
(***************************************************************************)
(* Instances of Boot for TLC.  Harts and slots are numbers the code        *)
(* compares (hart 0, hart < argc, first free slot), so there is no         *)
(* symmetry.                                                               *)
(***************************************************************************)
EXTENDS Boot
=============================================================================
