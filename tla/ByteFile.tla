------------------------------ MODULE ByteFile ------------------------------
(***************************************************************************)
(* What read, write and lseek promise for a file: a sequence of bytes and  *)
(* an offset into it.                                                      *)
(***************************************************************************)
EXTENDS Integers, Sequences

CONSTANTS Writes, MaxRead

VARIABLES content, offset, result

Init == content = << >> /\ offset = 0 /\ result = << >>

\* The bytes of w replace those from the offset on.
Write(w) ==
  /\ content' = SubSeq(content, 1, offset) \o w
                  \o SubSeq(content, offset + Len(w) + 1, Len(content))
  /\ offset' = offset + Len(w)
  /\ result' = << >>

\* At most n bytes, fewer only at the end of the file.
Read(n) ==
  LET end == IF offset + n < Len(content) THEN offset + n ELSE Len(content) IN
  /\ result' = SubSeq(content, offset + 1, end)
  /\ offset' = end
  /\ UNCHANGED content

Seek(n) ==
  /\ offset' = n
  /\ result' = << >>
  /\ UNCHANGED content

Next ==
  \/ \E w \in Writes : Write(w)
  \/ \E n \in 0 .. MaxRead : Read(n)
  \/ \E n \in 0 .. Len(content) : Seek(n)

Spec == Init /\ [][Next]_<<content, offset, result>>
=============================================================================
