------------------------------ MODULE RfsData ------------------------------
(***************************************************************************)
(* The bytes of one file of the RAM disk: rfs_read, rfs_write and          *)
(* rfs_lseek, called piece by piece by sys_user_read and sys_user_write,   *)
(* which cut a user buffer at its page boundaries.                         *)
(*                                                                         *)
(* Every transfer goes through rdev->iobuffer, which all files and inodes  *)
(* share.  Where the blocks of the file are on the disk does not matter    *)
(* here (Vfs shows that they are its own), so they are a sequence.  Bytes  *)
(* are text: the copies made with strcpy end at a NUL.                     *)
(***************************************************************************)
EXTENDS Integers, Sequences, SequencesExt, TLC

CONSTANTS
  BLKSIZE,   \* RFS_BLKSIZE = PGSIZE (the code has 4096)
  Byte,      \* byte values, without NUL
  MaxSize,   \* bound: bytes in the file (the code's limit is 10 blocks)
  MaxLen,    \* bound: bytes in one call
  Overwrite  \* whether programs write inside existing data

Pos    == 0 .. (BLKSIZE - 1)
Buffer == [1 .. BLKSIZE -> Byte]
Writes == UNION {[1 .. n -> Byte] : n \in 1 .. MaxLen}

ASSUME RfsDataAssumption ==
  /\ BLKSIZE \in Nat \ {0} /\ MaxSize \in Nat /\ MaxLen \in Nat
  /\ Overwrite \in BOOLEAN /\ Byte # {}

VARIABLES
  blk,       \* blk[k+1]: the block at addrs[k]; blocks = Len(blk)
  size,      \* f_inode->size
  offset,    \* file->offset
  iobuffer,  \* the device's one buffer
  result,    \* the bytes the last call returned
  panicked

vars == <<blk, size, offset, iobuffer, result, panicked>>

\* rfs_create has just given the file a block, whose content is left over.
Init ==
  /\ \E old \in Buffer : blk = <<old>>
  /\ iobuffer \in Buffer
  /\ size = 0 /\ offset = 0 /\ result = << >> /\ panicked = FALSE

Lesser(a, b) == IF a < b THEN a ELSE b

\* memcpy of bytes into a buffer from position at on.
Overlay(buf, at, bytes) ==
  [k \in 1 .. BLKSIZE |->
     IF k \in (at + 1) .. (at + Len(bytes)) THEN bytes[k - at] ELSE buf[k]]

\* The pieces of n bytes that start po bytes into a page, as <<first, last>>.
Pieces(n, po) ==
  [k \in 1 .. ((po + n + BLKSIZE - 1) \div BLKSIZE) |->
     <<IF k = 1 THEN 1 ELSE (k - 1) * BLKSIZE - po + 1,
       Lesser(n, k * BLKSIZE - po)>>]

(***************************************************************************)
(* rfs_write                                                               *)
(***************************************************************************)
\* Write iobuffer to block k, which the file may not have yet.
PutBlock(s, k, buf) ==
  [s EXCEPT !.iob = buf,
            !.blk = IF k = Len(@) THEN Append(@, buf) ELSE [@ EXCEPT ![k + 1] = buf]]

\* Mutant: the block is not read first.
PutFirstBlind(s, w, align) ==
  LET k == s.off \div BLKSIZE IN
  IF align = 0 THEN s
  ELSE PutBlock(s, k, Overlay(s.iob, align,
                              SubSeq(w, 1, Lesser(Len(w), BLKSIZE - align))))

\* The first block when the offset is inside it: it is read, changed, written.
PutFirst(s, w, align) ==
  LET k == s.off \div BLKSIZE IN
  IF align = 0 THEN s
  ELSE PutBlock(s, k, Overlay(s.blk[k + 1], align,
                              SubSeq(w, 1, Lesser(Len(w), BLKSIZE - align))))

\* What does not fill the last block is laid over whatever iobuffer holds.
PutLast(s, w, k, remain) ==
  PutBlock(s, k, Overlay(s.iob, 0, SubSeq(w, Len(w) - remain + 1, Len(w))))

\* Mutant: a block is written for a rest of no bytes.
HasRestEmpty(align, times, remain) == ~(align # 0 /\ times = 0)

\* Bytes remain that neither the first block nor the full ones took.
HasRest(align, times, remain) == remain > 0 /\ ~(align # 0 /\ times = 0)

\* rfs_write of the bytes w: the first block, the full blocks, the rest.
RfsWrite(s, w) ==
  LET align  == s.off % BLKSIZE
      k0     == s.off \div BLKSIZE
      times  == (Len(w) + align) \div BLKSIZE
      remain == (Len(w) + align) % BLKSIZE
      full   == [j \in 1 .. times |-> k0 + j - 1]
      PutFull(t, k) ==
        LET at == (k - k0) * BLKSIZE - align
        IN  IF at < 0 THEN t ELSE PutBlock(t, k, SubSeq(w, at + 1, at + BLKSIZE))
      s1 == FoldLeft(PutFull, PutFirst(s, w, align), full)
      s2 == IF HasRest(align, times, remain)
            THEN PutLast(s1, w, k0 + times, remain) ELSE s1
  IN  [s2 EXCEPT !.off = @ + Len(w),
                 !.size = IF @ < s.off + Len(w) THEN s.off + Len(w) ELSE @]

\* The write keeps every byte behind it: it ends at or after the end of the
\* file, at the end of a block, or in the block it started inside.
Spares(n) ==
  \/ offset + n >= size
  \/ (offset + n) % BLKSIZE = 0
  \/ offset % BLKSIZE # 0 /\ (offset % BLKSIZE) + n < BLKSIZE

\* write(fd, w, n) from a buffer that starts po bytes into its page.
Write(w, po) ==
  /\ ~panicked
  /\ offset + Len(w) <= MaxSize
  /\ Overwrite \/ Spares(Len(w))
  /\ LET WritePiece(s, pc) == RfsWrite(s, SubSeq(w, pc[1], pc[2]))
         s == FoldLeft(WritePiece, [blk |-> blk, iob |-> iobuffer, off |-> offset,
                                    size |-> size], Pieces(Len(w), po))
     IN  blk' = s.blk /\ iobuffer' = s.iob /\ offset' = s.off /\ size' = s.size
  /\ result' = << >>
  /\ UNCHANGED panicked

(***************************************************************************)
(* rfs_read and rfs_lseek                                                  *)
(***************************************************************************)
\* The read ends at the end of the file.
ReadLen(off, n) == IF size < off + n THEN size - off ELSE n

\* The bytes rfs_read copies: to the end of the first block, then whole
\* blocks, then the rest; iobuffer is left with the last block read.
RfsRead(s, n) ==
  LET len    == ReadLen(s.off, n)
      align  == s.off % BLKSIZE
      k0     == s.off \div BLKSIZE
      times  == (align + len) \div BLKSIZE
      remain == (align + len) % BLKSIZE
      first  == IF times = 0 THEN len ELSE BLKSIZE - align
      whole  == [j \in 1 .. (times - 1) |-> blk[k0 + j + 1]]
      more   == times > 0 /\ remain > 0
      last   == IF times = 0 THEN k0 ELSE IF more THEN k0 + times ELSE k0 + times - 1
  IN  [got |-> s.got \o SubSeq(blk[k0 + 1], align + 1, align + first)
                 \o FlattenSeq(whole)
                 \o (IF more THEN SubSeq(blk[k0 + times + 1], 1, remain) ELSE << >>),
       off |-> s.off + len, iob |-> blk[last + 1], short |-> len < n]

\* At the end of a file of full blocks rfs_read reads addrs[blocks], which was
\* never set: some block of the disk, or a number ramdisk_read panics at.
PastEnd(s) == s.off = Len(blk) * BLKSIZE

\* sys_user_read: pieces until one is short.
ReadPiece(s, pc) ==
  IF s.short THEN s
  ELSE IF PastEnd(s) THEN [s EXCEPT !.short = TRUE, !.past = TRUE]
  ELSE RfsRead(s, pc[2] - pc[1] + 1) @@ s

Read(n, po) ==
  /\ ~panicked
  /\ LET s == FoldLeft(ReadPiece, [got |-> << >>, off |-> offset, iob |-> iobuffer,
                                   short |-> FALSE, past |-> FALSE], Pieces(n, po))
     IN  /\ \/ result' = s.got /\ offset' = s.off /\ UNCHANGED panicked
               /\ IF s.past THEN iobuffer' \in Buffer ELSE iobuffer' = s.iob
            \/ s.past /\ panicked' = TRUE /\ UNCHANGED <<result, offset, iobuffer>>
  /\ UNCHANGED <<blk, size>>

\* SEEK_SET and SEEK_CUR accept the same positions.
Seek(n) ==
  /\ ~panicked
  /\ n # offset
  /\ offset' = n
  /\ result' = << >>
  /\ UNCHANGED <<blk, size, iobuffer, panicked>>

\* Any other transfer of the device: an inode, a directory, another file.
OtherIO ==
  /\ ~panicked
  /\ iobuffer' \in Buffer
  /\ result' = << >>
  /\ UNCHANGED <<blk, size, offset, panicked>>

Next ==
  \/ \E w \in Writes, po \in Pos : Write(w, po)
  \/ \E n \in 1 .. MaxLen, po \in Pos : Read(n, po)
  \/ \E n \in 0 .. size : Seek(n)
  \/ OtherIO

Spec == Init /\ [][Next]_vars

(***************************************************************************)
(* Properties                                                              *)
(***************************************************************************)
TypeOK ==
  /\ blk \in Seq(Buffer) /\ iobuffer \in Buffer
  /\ size \in 0 .. MaxSize /\ offset \in 0 .. size
  /\ result \in Seq(Byte) /\ panicked \in BOOLEAN

\* rfs_write allocates a block exactly when the data reaches one the file does
\* not have: at least one block, and otherwise as many as the bytes need.
BlocksFit ==
  /\ TypeOK
  /\ Len(blk) = IF size = 0 THEN 1 ELSE (size + BLKSIZE - 1) \div BLKSIZE

\* Read, write and lseek through the shared buffer, cut at block and at page
\* boundaries, are those of a sequence of bytes.
Bytes == INSTANCE ByteFile WITH
  MaxRead <- MaxLen,
  content <- SubSeq(FlattenSeq(blk), 1, size)

BytesSpec == Bytes!Spec
=============================================================================
