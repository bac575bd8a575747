------------------------------- MODULE MCVfs -------------------------------
(***************************************************************************)
(* Instances of Vfs for TLC: a directory d, files a and b in the root of   *)
(* the RAM disk, and a file in d, reached by absolute and relative paths.  *)
(***************************************************************************)
EXTENDS Vfs

Abs(q) == [abs |-> TRUE, toks |-> <<"RAMDISK0">> \o q]
Rel(q) == [abs |-> FALSE, toks |-> q]

Mixed    == {Abs(<<"a">>), Abs(<<"b">>), Rel(<<"..", "d", "b">>)}
Down     == {Abs(<<"d">>)}
Names3   == {"a", "b", "d"}
Symmetry == Permutations(Proc)
=============================================================================
