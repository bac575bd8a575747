---------------------------- MODULE MCSemaphore ----------------------------
(***************************************************************************)
(* Instances of Semaphore for TLC.                                         *)
(***************************************************************************)
EXTENDS Semaphore

\* three processes on hart 1, so that two can wait and one wake them
ThreeOnOne == [p \in Proc |-> IF p = 4 THEN 0 ELSE 1]
InOrder == [h \in Hart |-> IF h = 0 THEN <<4>> ELSE <<1, 2, 3>>]

\* initial values, one of them negative
WithDebt == {-1, 0, 1}
=============================================================================
