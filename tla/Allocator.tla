----------------------------- MODULE Allocator -----------------------------
(***************************************************************************)
(* What malloc and free promise a program: the blocks it holds do not      *)
(* overlap, and stay where they are until it frees them.                   *)
(***************************************************************************)
EXTENDS Integers

CONSTANT Requests

VARIABLE live  \* the blocks the program holds: records [va, size]

Words(b) == b.va .. (b.va + b.size - 1)

Init == live = {}

Malloc(b) ==
  /\ b.size \in Requests
  /\ \A c \in live : Words(b) \cap Words(c) = {}
  /\ live' = live \cup {b}

Free(b) == live' = live \ {b}

Exit == live' = {}

Next ==
  \/ \E b \in live' \ live : Malloc(b)
  \/ \E b \in live : Free(b)
  \/ Exit

Spec == Init /\ [][Next]_live
=============================================================================
