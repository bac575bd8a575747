------------------------------ MODULE FileTree ------------------------------
(***************************************************************************)
(* What the file system promises its users: a tree of named files.         *)
(*                                                                         *)
(* A name is a triple <<directory, name, file>>.  A file exists as long as *)
(* it has a name; its length only grows, since no operation truncates it.  *)
(***************************************************************************)
EXTENDS Integers

CONSTANTS File, RootDir

VARIABLES
  names,  \* the set of <<directory, name, file>>
  kind,   \* kind[f] \in {"free", "file", "dir"}
  len     \* len[f]: blocks of data in f

Init ==
  /\ names = {}
  /\ kind = [f \in File |-> IF f = RootDir THEN "dir" ELSE "free"]
  /\ len = [f \in File |-> 0]

Taken(d, n) == \E f \in File : <<d, n, f>> \in names

\* open(O_CREAT) or mkdir gives a file nobody uses its first name.
Make(d, n, f, k) ==
  /\ kind[d] = "dir" /\ ~Taken(d, n)
  /\ kind[f] = "free"
  /\ names' = names \cup {<<d, n, f>>}
  /\ kind' = [kind EXCEPT ![f] = k]
  /\ len' = [len EXCEPT ![f] = 0]

Link(d, n, f) ==
  /\ kind[d] = "dir" /\ ~Taken(d, n)
  /\ kind[f] = "file"
  /\ names' = names \cup {<<d, n, f>>}
  /\ UNCHANGED <<kind, len>>

\* The file goes with its last name, and no sooner.
Unlink(d, n, f) ==
  /\ kind[f] = "file"
  /\ names' = names \ {<<d, n, f>>}
  /\ LET last == \A t \in names' : t[3] # f IN
     /\ kind' = [kind EXCEPT ![f] = IF last THEN "free" ELSE @]
     /\ len' = [len EXCEPT ![f] = IF last THEN 0 ELSE @]

Grow(f) ==
  /\ kind[f] = "file"
  /\ len' = [len EXCEPT ![f] = @ + 1]
  /\ UNCHANGED <<names, kind>>

\* A name appears, a name goes, or a file grows.
Next ==
  \/ \E t \in names' \ names :
       \/ \E k \in {"file", "dir"} : Make(t[1], t[2], t[3], k)
       \/ Link(t[1], t[2], t[3])
  \/ \E t \in names \ names' : Unlink(t[1], t[2], t[3])
  \/ \E f \in File : Grow(f)

Spec == Init /\ [][Next]_<<names, kind, len>>
=============================================================================
