------------------------------ MODULE MCShell ------------------------------
(***************************************************************************)
(* An instance of Shell for TLC: a program that prints more than the       *)
(* buffer holds, one that prints two words in two calls, one that scans    *)
(* and prints, one that prints and scans, and a builtin.                   *)
(***************************************************************************)
EXTENDS Shell

MCByte == {"x", "y", "z", Space, NUL}

MCPrograms ==
  [long |-> [kind |-> "exec", io |-> <<<<"x", "y", "x">>>>],
   two  |-> [kind |-> "exec", io |-> <<<<"y">>, <<Space, "x">>>>],
   ask  |-> [kind |-> "exec", io |-> <<<<"z">>, Scan>>],
   read |-> [kind |-> "exec", io |-> <<Scan, <<"z">>>>],
   pwd  |-> [kind |-> "builtin", io |-> <<"x">>]]

MCLines ==
  {<<"two">>, <<"long", "|", "read">>, <<"two", "|", "read">>,
   <<"pwd", "|", "read">>, <<"pwd", "|", "ask">>, <<"nope", "|", "read">>, <<"two", "|", "nope">>,
   <<"two", "|", "read", "|", "read">>, <<"two", "&", "pwd">>,
   <<"two", "&&", "read">>, <<"two", "|">>, <<"exit">>}
=============================================================================
