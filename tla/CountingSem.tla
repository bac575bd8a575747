---------------------------- MODULE CountingSem ----------------------------
(***************************************************************************)
(* What sem_new, sem_P and sem_V promise: counting semaphores with permits *)
(* and first-come first-served waiting.  Module Semaphore implements this. *)
(***************************************************************************)
EXTENDS Integers, Sequences

CONSTANTS Sem, Proc, InitVals

VARIABLES
  open,     \* the semaphores that have been created
  permits,  \* permits to be had
  waiting   \* the processes waiting for one, in order of arrival

vars == <<open, permits, waiting>>

Init ==
  /\ open = {}
  /\ permits = [s \in Sem |-> 0]
  /\ waiting = [s \in Sem |-> <<>>]

\* A semaphore created with a negative value has no permits.
Create(s, n) ==
  /\ s \notin open /\ waiting[s] = <<>>
  /\ open' = open \cup {s}
  /\ permits' = [permits EXCEPT ![s] = IF n > 0 THEN n ELSE 0]
  /\ UNCHANGED waiting

\* P with a permit to be had,
Take(s) ==
  /\ s \in open /\ permits[s] > 0
  /\ permits' = [permits EXCEPT ![s] = @ - 1]
  /\ UNCHANGED <<open, waiting>>

\* and without one.  Who waits, waits once.
Wait(s, p) ==
  /\ s \in open /\ permits[s] = 0
  /\ \A r \in Sem : \A n \in 1 .. Len(waiting[r]) : waiting[r][n] # p
  /\ waiting' = [waiting EXCEPT ![s] = Append(@, p)]
  /\ UNCHANGED <<open, permits>>

\* V with nobody waiting,
Give(s) ==
  /\ s \in open /\ waiting[s] = <<>>
  /\ permits' = [permits EXCEPT ![s] = @ + 1]
  /\ UNCHANGED <<open, waiting>>

\* and for the process that has waited longest.
Wake(s) ==
  /\ s \in open /\ waiting[s] # <<>>
  /\ waiting' = [waiting EXCEPT ![s] = Tail(@)]
  /\ UNCHANGED <<open, permits>>

Next ==
  \E s \in Sem :
    \/ \E n \in InitVals : Create(s, n)
    \/ Take(s) \/ Give(s) \/ Wake(s)
    \/ \E p \in Proc : Wait(s, p)

Spec == Init /\ [][Next]_vars
=============================================================================
