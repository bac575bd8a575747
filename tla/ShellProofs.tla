---------------------------- MODULE ShellProofs ----------------------------
(***************************************************************************)
(* Proofs about Shell, for any number of harts, slots and lines, any size  *)
(* of the buffer and any programs: the console is restored, the stages of  *)
(* a pipe run in order, and a pipe delivers what was printed into          *)
(* it (ConsoleRestored, StagesInOrder, PipeDelivers).                      *)
(***************************************************************************)
EXTENDS Shell, SequenceTheorems, WellFoundedInduction, TLAPS

Call   == Seq(Byte) \cup {Scan}
Places == {"prompt", "loop", "pipe", "run", "wait", "blocked", "returned", "reap", "exited"}

Pipe == [stdin_close : BOOLEAN, stdout_close : BOOLEAN, len : 0 .. BUFSIZE, pos : Nat,
         num : 0 .. 1, buf : [0 .. 1 -> [1 .. BUFSIZE -> Byte]]]

Child == [status : {"FREE", "READY", "ZOMBIE"}, io : Seq(Call), hart : Hart]

\* The position is in the text, and a closed pipe is empty.
PipeOK(q) ==
  /\ q \in Pipe /\ (q.pos = 0 \/ q.pos < q.len)
  /\ ~q.stdin_close /\ ~q.stdout_close => q.len = 0 /\ q.pos = 0

Types ==
  /\ pc \in Places /\ resume \in {"prompt", "returned", "reap"}
  /\ mode \in {"launch", "stage", "last"}
  /\ k \in Nat \ {0} /\ wait_count \in Nat /\ mc_cmd_idx \in Nat
  /\ proc \in [Slot -> Child] /\ pid \in Slot \cup {None}
  /\ pipe = [h \in Hart |-> pipe[h]] /\ \A h \in Hart : PipeOK(pipe[h])
  /\ src \in Seq(Byte) /\ cur \in Seq(Byte) /\ quiet \in BOOLEAN

\* The shell waits for the command it runs.
Waiting == pc = "wait" \/ (pc = "blocked" /\ resume = "returned")

\* A stage of a pipe is being run.
Piping == mode \in {"stage", "last"} /\ (Waiting \/ pc \in {"pipe", "run", "returned"})

\* The shell prints to the console and reads from it.
Closed == ~pipe[0].stdin_close /\ ~pipe[0].stdout_close

\* Behind ConsoleRestored: the pipe is open for stages only.
ConsoleInv ==
  /\ pc = "pipe" => mode = "stage"
  /\ ~Piping => Closed

\* Behind StagesInOrder: with no other job, the only child that runs is the one
\* that is waited for.
QuietInv == quiet => WithStatus("READY") \subseteq IF Waiting THEN {pid} ELSE {}

\* A list ends with a command that no other follows.
Ended(list) == Len(list) \in Nat /\ (Len(list) > 0 => list[Len(list)].op_type # "PIPLINE")

ListInv == Ended(cmds) /\ PipeHasReader

\* The first n bytes of b are those of text, as far as the buffer reaches.
Holds(b, n, text) == n = Lesser(Len(text), BUFSIZE) /\ \A j \in 1 .. n : b[j] = text[j]

\* What the pipe holds while the first stage writes, and before the second
\* reads.
WriterInv ==
  quiet /\ k = 1 /\ Piping /\ pc # "pipe" =>
    /\ pipe[0].stdin_close /\ ~pipe[0].stdout_close /\ pipe[0].pos = 0
    /\ Holds(pipe[0].buf[pipe[0].num], pipe[0].len, cur)

ReaderInv ==
  quiet /\ k = 2 /\ Piping /\ pipe[0].stdout_close /\ word = None /\ cur = << >> =>
    pipe[0].pos = 0 /\ Holds(Source(pipe[0]), pipe[0].len, src)

WordInv ==
  /\ k = 1 => word = None /\ mode # "last"
  /\ k = 1 /\ pc \in {"loop", "pipe"} => cur = << >> /\ pid = None /\ Closed
  /\ mode # "launch" /\ Waiting /\ pid \in Slot => proc[pid].hart = 0
  /\ quiet /\ k = 2 /\ word # None => word = FirstWord(SubSeq(src, 1, Lesser(Len(src), BUFSIZE)))

PipeInv == WriterInv /\ ReaderInv /\ WordInv

-----------------------------------------------------------------------------
(***************************************************************************)
(* The operators                                                           *)
(***************************************************************************)
\* A set of numbers has a least one.
LEMMA NatMin ==
  ASSUME NEW T \in SUBSET Nat, T # {}
  PROVE  \E n \in T : \A m \in T : n <= m
<1> DEFINE R == OpToRel(<, Nat)
<1>1. \A m, n \in T : <<m, n>> \notin R => n <= m
  BY DEF OpToRel
<1>2. IsWellFoundedOn(R, Nat)
  BY NatLessThanWellFounded, Zenon
<1> HIDE DEF R
<1>3. PICK n \in T : \A m \in T : ~(<<m, n>> \in R)
  BY <1>2, WFMin, Zenon
<1>4. \A m \in T : n <= m
  BY <1>1, <1>3, Zenon
<1> QED
  BY <1>4, Zenon

\* The first free slot, and the first child, are what their names say.
LEMMA FirstIsIn ==
  ASSUME NEW S \in SUBSET Slot, S # {}
  PROVE  First(S) \in S
<1>1. S \in SUBSET Nat
  BY ShellAssumption DEF Slot
<1>2. \E s \in S : \A t \in S : s <= t
  BY <1>1, NatMin, Zenon
<1> QED
  BY <1>2, Zenon DEF First

\* What a print does to the pipe: the flags, the position and the buffer of the
\* reader stay.
LEMMA PrintedFields ==
  ASSUME NEW q, PipeOK(q), NEW b \in Seq(Byte)
  PROVE  LET p == Printed(q, b) IN
         /\ PipeOK(p)
         /\ p.stdin_close = q.stdin_close /\ p.stdout_close = q.stdout_close
         /\ p.pos = q.pos /\ p.num = q.num
         /\ p.len = IF q.stdin_close THEN Total(q.len, Len(b)) ELSE q.len
         /\ Source(p) = Source(q)
         /\ q.stdin_close => \A j \in 1 .. BUFSIZE : p.buf[p.num][j] =
              IF j \in (q.len + 1) .. p.len THEN b[j - q.len] ELSE q.buf[q.num][j]
<1> DEFINE p == Printed(q, b)
           total == Total(q.len, Len(b))
           row == [j \in 1 .. BUFSIZE |->
                     IF j \in (q.len + 1) .. total THEN b[j - q.len] ELSE q.buf[q.num][j]]
<1>1. CASE ~q.stdin_close
  BY <1>1, Zenon DEF Printed
<1>2. CASE q.stdin_close
  <2>1. /\ q \in Pipe /\ q.len \in 0 .. BUFSIZE /\ q.num \in 0 .. 1 /\ q.pos \in Nat
        /\ q.buf \in [0 .. 1 -> [1 .. BUFSIZE -> Byte]] /\ BUFSIZE \in Nat /\ Len(b) \in Nat
    BY ShellAssumption DEF PipeOK, Pipe
  <2>2. total \in q.len .. BUFSIZE /\ total <= q.len + Len(b)
    BY <2>1 DEF Total, Lesser
  <2>3. p = [q EXCEPT !.len = total, !.buf[q.num] = row]
    BY <1>2, Zenon DEF Printed
  <2>4. row \in [1 .. BUFSIZE -> Byte]
    BY <2>1, <2>2
  <2> HIDE DEF p, total, row
  <2>5. /\ p = [q EXCEPT !.len = total, !.buf = [q.buf EXCEPT ![q.num] = row]]
        /\ [q.buf EXCEPT ![q.num] = row] \in [0 .. 1 -> [1 .. BUFSIZE -> Byte]]
    BY <2>1, <2>3, <2>4, Zenon DEF Pipe
  <2>6. /\ p \in Pipe /\ p.stdin_close = q.stdin_close /\ p.stdout_close = q.stdout_close
        /\ p.pos = q.pos /\ p.num = q.num /\ p.len = total /\ p.buf = [q.buf EXCEPT ![q.num] = row]
    <3> DEFINE buf == [q.buf EXCEPT ![q.num] = row]
    <3>1. total \in 0 .. BUFSIZE
      BY <2>1, <2>2
    <3>2. buf \in [0 .. 1 -> [1 .. BUFSIZE -> Byte]] /\ p = [q EXCEPT !.len = total, !.buf = buf]
      BY <2>5, Zenon
    <3> HIDE DEF buf
    <3> QED
      BY <2>1, <3>1, <3>2, Zenon DEF Pipe, buf
  <2>7. PipeOK(p)
    BY <1>2, <2>1, <2>2, <2>6 DEF PipeOK
  <2>8. Source(p) = Source(q)
    BY <2>1, <2>6 DEF Source
  <2>9. p.buf[p.num] = row
    BY <2>1, <2>6, Zenon
  <2>10. \A j \in 1 .. BUFSIZE : row[j] =
           IF j \in (q.len + 1) .. total THEN b[j - q.len] ELSE q.buf[q.num][j]
    BY Zenon DEF row
  <2> QED
    BY <1>2, <2>6, <2>7, <2>8, <2>9, <2>10, Zenon DEF total, p
<1> QED
  BY <1>1, <1>2, Zenon

\* The writer's buffer holds what has been printed, and after a print the new
\* bytes too.
LEMMA PrintedHolds ==
  ASSUME NEW q, PipeOK(q), q.stdin_close, NEW b \in Seq(Byte), NEW text \in Seq(Byte),
         Holds(q.buf[q.num], q.len, text)
  PROVE  Holds(Printed(q, b).buf[Printed(q, b).num], Printed(q, b).len, text \o b)
<1> DEFINE p == Printed(q, b)
<1>1. /\ p.len = Total(q.len, Len(b))
      /\ \A j \in 1 .. BUFSIZE : p.buf[p.num][j] =
              IF j \in (q.len + 1) .. p.len THEN b[j - q.len] ELSE q.buf[q.num][j]
  BY PrintedFields
<1>2. BUFSIZE \in Nat /\ Len(text) \in Nat /\ Len(b) \in Nat /\ q.len \in 0 .. BUFSIZE
  BY ShellAssumption DEF PipeOK, Pipe
<1>3. /\ Len(text \o b) = Len(text) + Len(b)
      /\ \A j \in 1 .. (Len(text) + Len(b)) :
           (text \o b)[j] = IF j <= Len(text) THEN text[j] ELSE b[j - Len(text)]
  BY ConcatProperties, Zenon
<1> HIDE DEF p
<1>4. p.len = Lesser(Len(text \o b), BUFSIZE)
  BY <1>1, <1>2, <1>3 DEF Holds, Total, Lesser
<1>5. ASSUME NEW j \in 1 .. p.len PROVE p.buf[p.num][j] = (text \o b)[j]
  <2>1. j \in 1 .. BUFSIZE /\ j \in 1 .. (Len(text) + Len(b)) /\ q.len <= Len(text)
    BY <1>2, <1>3, <1>4 DEF Holds, Lesser
  <2>2. CASE j <= q.len
    BY <1>1, <1>2, <1>3, <2>1, <2>2 DEF Holds
  <2>3. CASE j > q.len
    <3>1. q.len = Len(text)
      BY <1>2, <2>1, <2>3 DEF Holds, Lesser
    <3> QED
      BY <1>1, <1>2, <1>3, <2>1, <2>3, <3>1
  <2> QED
    BY <1>2, <2>1, <2>2, <2>3
<1> QED
  BY <1>4, <1>5, Zenon DEF Holds, p

\* What a scan does: nothing without a reading side, else it moves the position
\* or takes the pipe down.
LEMMA ScannedFields ==
  ASSUME NEW q, PipeOK(q)
  PROVE  LET p == Scanned(q) IN
         /\ PipeOK(p)
         /\ ~q.stdout_close => p = q
         /\ p.stdin_close => q.stdin_close
         /\ p.stdout_close => q.stdout_close
         /\ q.stdout_close /\ p.stdout_close => p.pos # 0
<1> DEFINE p == Scanned(q)
           I == {i \in (q.pos + 1) .. BUFSIZE : Source(q)[i] = NUL}
           nul == IF I # {} THEN Min(I) ELSE 0
           pos == IF nul = 0 THEN BUFSIZE + 1 ELSE nul
<1>1. q \in Pipe /\ q.pos \in Nat /\ q.len \in 0 .. BUFSIZE /\ BUFSIZE \in Nat
  BY ShellAssumption, Zenon DEF PipeOK, Pipe
<1>2. nul \in Nat
  <2>1. CASE I # {}
    <3>1. I \in SUBSET Nat
      BY <1>1
    <3> HIDE DEF I
    <3>2. Min(I) \in I
      BY <2>1, <3>1, NatMin, Zenon DEF Min
    <3> QED
      BY <3>1, <3>2, Zenon
  <2> QED
    BY <2>1, Zenon
<1>3. p = IF ~q.stdout_close THEN q
          ELSE IF pos >= q.len
          THEN [q EXCEPT !.stdin_close = FALSE, !.stdout_close = FALSE, !.len = 0, !.pos = 0]
          ELSE [q EXCEPT !.pos = pos]
  BY Zenon DEF Scanned, SelectInSubSeq
<1> HIDE DEF nul, p
<1>4. pos \in Nat \ {0}
  BY <1>1, <1>2
<1> HIDE DEF pos
<1>5. CASE ~q.stdout_close
  BY <1>3, <1>5, Zenon DEF p
<1>6. CASE q.stdout_close /\ pos >= q.len
  <2>1. p = [q EXCEPT !.stdin_close = FALSE, !.stdout_close = FALSE, !.len = 0, !.pos = 0]
    BY <1>3, <1>6, Zenon
  <2>2. /\ p.stdin_close = FALSE /\ p.stdout_close = FALSE /\ p.len = 0 /\ p.pos = 0
        /\ p.num = q.num /\ p.buf = q.buf
    BY <1>1, <2>1, Zenon DEF Pipe
  <2>3. 0 \in 0 .. BUFSIZE /\ 0 \in Nat
    BY <1>1
  <2>4. p \in Pipe
    BY <1>1, <2>1, <2>3, Zenon DEF Pipe
  <2> QED
    BY <1>6, <2>2, <2>4, Zenon DEF PipeOK, p
<1>7. CASE q.stdout_close /\ ~(pos >= q.len)
  <2>1. p = [q EXCEPT !.pos = pos]
    BY <1>3, <1>7, Zenon
  <2>2. /\ p \in Pipe /\ p.stdin_close = q.stdin_close /\ p.stdout_close = q.stdout_close
        /\ p.len = q.len /\ p.pos = pos
    BY <1>1, <1>4, <2>1, Zenon DEF Pipe
  <2> QED
    BY <1>1, <1>4, <1>7, <2>2 DEF PipeOK, p
<1> QED
  BY <1>5, <1>6, <1>7, Zenon

\* The three calls of the shell.
LEMMA CallFields ==
  ASSUME NEW q, PipeOK(q)
  PROVE  /\ LET p == PipeWrite(q) IN
            /\ PipeOK(p) /\ p.stdin_close /\ p.stdout_close = q.stdout_close
            /\ p.len = q.len /\ p.pos = q.pos /\ p.num = q.num /\ p.buf = q.buf
         /\ LET p == PipeRead(q) IN
            /\ PipeOK(p) /\ p.stdout_close
            /\ p.len = q.len /\ p.pos = q.pos /\ Source(p) = q.buf[q.num]
         /\ PipeOK(PipeReset(q)) /\ ~PipeReset(q).stdin_close /\ ~PipeReset(q).stdout_close
<1>1. /\ q \in Pipe /\ q.len \in 0 .. BUFSIZE /\ q.num \in 0 .. 1 /\ q.pos \in Nat
      /\ q.buf \in [0 .. 1 -> [1 .. BUFSIZE -> Byte]] /\ BUFSIZE \in Nat
      /\ 0 \in 0 .. BUFSIZE /\ (q.num + 1) % 2 \in 0 .. 1 /\ (((q.num + 1) % 2) + 1) % 2 = q.num
  BY ShellAssumption DEF PipeOK, Pipe
<1>2. LET p == PipeWrite(q) IN
      /\ PipeOK(p) /\ p.stdin_close /\ p.stdout_close = q.stdout_close
      /\ p.len = q.len /\ p.pos = q.pos /\ p.num = q.num /\ p.buf = q.buf
  BY <1>1, Zenon DEF PipeWrite, PipeOK, Pipe
<1>3. LET p == PipeRead(q) IN
      PipeOK(p) /\ p.stdout_close /\ p.len = q.len /\ p.pos = q.pos /\ Source(p) = q.buf[q.num]
  <2> DEFINE p == PipeRead(q)
             n == (q.num + 1) % 2
  <2>1. p = [q EXCEPT !.stdout_close = TRUE, !.num = n]
    BY Zenon DEF PipeRead
  <2>2. n \in 0 .. 1 /\ (n + 1) % 2 = q.num
    BY <1>1, Zenon
  <2> HIDE DEF n, p
  <2>3. /\ p \in Pipe /\ p.stdout_close = TRUE /\ p.stdin_close = q.stdin_close /\ p.num = n
        /\ p.len = q.len /\ p.pos = q.pos /\ p.buf = q.buf
    BY <1>1, <2>1, <2>2, Zenon DEF Pipe
  <2>4. Source(p) = q.buf[q.num]
    BY <2>2, <2>3, Zenon DEF Source
  <2> QED
    BY <2>3, <2>4, Zenon DEF PipeOK, p
<1>4. PipeOK(PipeReset(q)) /\ ~PipeReset(q).stdin_close /\ ~PipeReset(q).stdout_close
  <2> DEFINE p == PipeReset(q)
             buf == [q.buf EXCEPT ![0] = Zeroes]
  <2>1. Zeroes \in [1 .. BUFSIZE -> Byte]
    BY ShellAssumption, Zenon DEF Zeroes
  <2>2. buf \in [0 .. 1 -> [1 .. BUFSIZE -> Byte]]
    BY <1>1, <2>1, Zenon
  <2>3. p = [q EXCEPT !.stdin_close = FALSE, !.stdout_close = FALSE, !.len = 0, !.pos = 0, !.buf = buf]
    BY <1>1, Zenon DEF PipeReset, Pipe
  <2> HIDE DEF buf, p
  <2>4. p.stdin_close = FALSE /\ p.stdout_close = FALSE /\ p.len = 0 /\ p.pos = 0
    BY <1>1, <2>3, Zenon DEF Pipe
  <2>5. 0 \in Nat
    BY Zenon
  <2>6. p \in Pipe
    BY <1>1, <2>2, <2>3, <2>5, Zenon DEF Pipe
  <2> QED
    BY <2>4, <2>6, Zenon DEF PipeOK, p
<1> QED
  BY <1>2, <1>3, <1>4, Zenon

-----------------------------------------------------------------------------
(***************************************************************************)
(* Types                                                                   *)
(***************************************************************************)
\* What a program prints is a sequence of bytes.
LEMMA ProgramIO ==
  ASSUME NEW op
  PROVE  /\ Kind(op) = "exec" => Programs[op].io \in Seq(Call)
         /\ Kind(op) = "builtin" => Programs[op].io \in Seq(Byte)
BY ShellAssumption, Zenon DEF Kind, Call

LEMMA HartZero == 0 \in Hart
BY ShellAssumption DEF Hart

\* The pipes after a call on one of them.
LEMMA PipesOK ==
  ASSUME NEW h \in Hart, pipe = [i \in Hart |-> pipe[i]], \A i \in Hart : PipeOK(pipe[i]),
         NEW q, PipeOK(q), pipe' = [pipe EXCEPT ![h] = q]
  PROVE  /\ pipe' = [i \in Hart |-> pipe'[i]] /\ \A i \in Hart : PipeOK(pipe'[i])
         /\ pipe'[h] = q /\ \A i \in Hart \ {h} : pipe'[i] = pipe[i]
<1>1. pipe' = [i \in Hart |-> IF i = h THEN q ELSE pipe[i]]
  BY Zenon
<1>2. pipe'[h] = q /\ \A i \in Hart \ {h} : pipe'[i] = pipe[i]
  BY <1>1, Zenon
<1> QED
  BY <1>1, <1>2, Zenon

LEMMA TypesStep ==
  ASSUME Types, [Next]_vars
  PROVE  Types'
<1>0. /\ pc \in Places /\ resume \in {"prompt", "returned", "reap"}
      /\ mode \in {"launch", "stage", "last"}
      /\ k \in Nat \ {0} /\ wait_count \in Nat /\ mc_cmd_idx \in Nat
      /\ proc \in [Slot -> Child] /\ pid \in Slot \cup {None}
      /\ pipe = [h \in Hart |-> pipe[h]] /\ \A h \in Hart : PipeOK(pipe[h])
      /\ src \in Seq(Byte) /\ cur \in Seq(Byte) /\ quiet \in BOOLEAN
  BY Zenon DEF Types
<1>1. CASE UNCHANGED vars
  BY <1>0, <1>1, Zenon DEF Types, vars, shell, history
<1>2. ASSUME NEW line \in Lines, ReadLine(line) PROVE Types'
  BY <1>0, <1>2 DEF ReadLine, At, Types, Places
<1>3. CASE Loop
  BY <1>0, <1>3 DEF Loop, At, Types, Places, history
<1>4. CASE OpenPipe
  <2>1. pipe' = [pipe EXCEPT ![0] = PipeWrite(pipe[0])]
    BY <1>4, Zenon DEF OpenPipe
  <2>2. pipe' = [i \in Hart |-> pipe'[i]] /\ \A i \in Hart : PipeOK(pipe'[i])
    BY <1>0, <2>1, HartZero, CallFields, PipesOK, Zenon
  <2> QED
    BY <1>0, <1>4, <2>2, Zenon DEF OpenPipe, At, Types, Places, shell, history
<1>5. CASE Launch
  <2>1. TargetHart \in Hart
    BY <1>0, ShellAssumption DEF TargetHart, Hart
  <2>2. WithStatus("FREE") # {} => First(WithStatus("FREE")) \in Slot
    BY FirstIsIn, Zenon DEF WithStatus
  <2>3. Programs[cmds[k].operation].io \in Seq(Call)
    BY <1>5, ProgramIO, Zenon DEF Launch
  <2>4. proc' \in [Slot -> Child]
    <3> DEFINE f == First(WithStatus("FREE"))
               c == [status |-> "READY", io |-> Programs[cmds[k].operation].io, hart |-> TargetHart]
    <3>1. c \in Child
      BY <2>1, <2>3, Zenon DEF Child
    <3>2. proc' = proc \/ (f \in Slot /\ proc' = [proc EXCEPT ![f] = c])
      BY <1>5, <2>2, Zenon DEF Launch
    <3> HIDE DEF f, c
    <3> QED
      BY <1>0, <3>1, <3>2, Zenon
  <2> QED
    BY <1>0, <1>5, <2>2, <2>4, Zenon DEF Launch, At, Types, Places
<1>6. CASE Wait
  BY <1>0, <1>6, Zenon DEF Wait, At, Types, Places, history
<1>7. CASE RunInShell
  <2> DEFINE b == IF Kind(cmds[k].operation) = "builtin" THEN Programs[cmds[k].operation].io ELSE <<Space>>
  <2>1. b \in Seq(Byte)
    BY ProgramIO, ShellAssumption
  <2>2. pipe' = [pipe EXCEPT ![0] = Printed(pipe[0], b)] /\ cur' = cur \o b
    BY <1>7, Zenon DEF RunInShell
  <2> HIDE DEF b
  <2>3. pipe' = [i \in Hart |-> pipe'[i]] /\ \A i \in Hart : PipeOK(pipe'[i])
    BY <1>0, <2>1, <2>2, HartZero, PrintedFields, PipesOK, Zenon
  <2>4. cur' \in Seq(Byte)
    BY <1>0, <2>1, <2>2
  <2> QED
    BY <1>0, <1>7, <2>3, <2>4, Zenon DEF RunInShell, At, Types, Places
<1>8. CASE LaunchReturned
  BY <1>0, <1>8 DEF LaunchReturned, At, Types, Places, history
<1>9. CASE StageFails \/ LastDone
  <2>1. pipe' = [pipe EXCEPT ![0] = PipeReset(pipe[0])]
    BY <1>9, Zenon DEF StageFails, LastDone
  <2>2. pipe' = [i \in Hart |-> pipe'[i]] /\ \A i \in Hart : PipeOK(pipe'[i])
    BY <1>0, <2>1, HartZero, CallFields, PipesOK, Zenon
  <2> QED
    BY <1>0, <1>9, <2>2 DEF StageFails, LastDone, At, Types, Places, shell, history
<1>10. CASE StageDone
  <2>1. pipe' = [pipe EXCEPT ![0] = PipeRead(pipe[0])]
    BY <1>10, Zenon DEF StageDone
  <2>2. pipe' = [i \in Hart |-> pipe'[i]] /\ \A i \in Hart : PipeOK(pipe'[i])
    BY <1>0, <2>1, HartZero, CallFields, PipesOK, Zenon
  <2> QED
    BY <1>0, <1>10, <2>2 DEF StageDone, At, Types, Places
<1>11. CASE Reap
  <2>1. proc' \in [Slot -> Child]
    <3> DEFINE C == Slot \ WithStatus("FREE")
    <3>1. C # {} => First(C) \in Slot
      BY FirstIsIn, Zenon
    <3>2. proc' = proc \/ (C # {} /\ proc' = [proc EXCEPT ![First(C)].status = "FREE"])
      BY <1>11, Zenon DEF Reap
    <3> HIDE DEF C
    <3> QED
      BY <1>0, <3>1, <3>2, ZenonT(30) DEF Child
  <2> QED
    BY <1>0, <1>11, <2>1 DEF Reap, At, Types, Places, history
<1>12. ASSUME NEW s \in Slot, ChildIO(s) PROVE Types'
  <2> DEFINE op == Head(proc[s].io)
             h  == proc[s].hart
  <2>1. h \in Hart /\ proc[s].io \in Seq(Call) /\ proc[s].io # << >>
    BY <1>0, <1>12, Zenon DEF ChildIO, Child
  <2>2. op \in Call /\ Tail(proc[s].io) \in Seq(Call)
    BY <2>1
  <2>3. proc' \in [Slot -> Child]
    BY <1>0, <1>12, <2>2, ZenonT(30) DEF ChildIO, Child
  <2>4. CASE op = Scan
    <3>1. pipe' = [pipe EXCEPT ![h] = Scanned(pipe[h])] /\ cur' = cur
      BY <1>12, <2>4, Zenon DEF ChildIO
    <3> HIDE DEF h
    <3>2. pipe' = [i \in Hart |-> pipe'[i]] /\ \A i \in Hart : PipeOK(pipe'[i])
      BY <1>0, <2>1, <3>1, ScannedFields, PipesOK, Zenon
    <3> QED
      BY <1>0, <1>12, <2>3, <3>1, <3>2, Zenon DEF ChildIO, Types, shell
  <2>5. CASE op # Scan
    <3>1. pipe' = [pipe EXCEPT ![h] = Printed(pipe[h], op)] /\ cur' = IF s = pid THEN cur \o op ELSE cur
      BY <1>12, <2>5, Zenon DEF ChildIO
    <3>2. op \in Seq(Byte)
      BY <2>2, <2>5, Zenon DEF Call
    <3> HIDE DEF h, op
    <3>3. pipe' = [i \in Hart |-> pipe'[i]] /\ \A i \in Hart : PipeOK(pipe'[i])
      BY <1>0, <2>1, <3>1, <3>2, PrintedFields, PipesOK, Zenon
    <3>4. cur' \in Seq(Byte)
      BY <1>0, <3>1, <3>2
    <3> QED
      BY <1>0, <1>12, <2>3, <3>3, <3>4, Zenon DEF ChildIO, Types, shell
  <2> QED
    BY <2>4, <2>5, Zenon
<1>13. ASSUME NEW s \in Slot, ChildExit(s) PROVE Types'
  <2>1. proc' \in [Slot -> Child]
    BY <1>0, <1>13, Zenon DEF ChildExit, Child
  <2> QED
    BY <1>0, <1>13, <2>1, Zenon DEF ChildExit, Types, Places, shell, history
<1> QED
  BY <1>1, <1>2, <1>3, <1>4, <1>5, <1>6, <1>7, <1>8, <1>9, <1>10, <1>11, <1>12, <1>13
     DEF Next, ShellStep

-----------------------------------------------------------------------------
(***************************************************************************)
(* The console, the stages and the list                                    *)
(***************************************************************************)
\* A print or scan of a child leaves a closed pipe closed.
LEMMA ChildKeepsClosed ==
  ASSUME Types, NEW s \in Slot, ChildIO(s)
  PROVE  Closed => Closed'
<1> DEFINE op == Head(proc[s].io)
           h  == proc[s].hart
<1>0. 0 \in Hart /\ pipe = [i \in Hart |-> pipe[i]] /\ \A i \in Hart : PipeOK(pipe[i])
  BY HartZero, Zenon DEF Types
<1>1. h \in Hart /\ op \in Call
  BY DEF ChildIO, Types, Child
<1>2. PICK q : /\ PipeOK(q) /\ pipe' = [pipe EXCEPT ![h] = q]
               /\ ~pipe[h].stdin_close /\ ~pipe[h].stdout_close => ~q.stdin_close /\ ~q.stdout_close
  <2>1. CASE op = Scan
    <3>1. pipe' = [pipe EXCEPT ![h] = Scanned(pipe[h])]
      BY <2>1, Zenon DEF ChildIO
    <3>2. LET q == Scanned(pipe[h]) IN
          PipeOK(q) /\ (~pipe[h].stdin_close /\ ~pipe[h].stdout_close => ~q.stdin_close /\ ~q.stdout_close)
      BY <1>0, <1>1, ScannedFields, Zenon
    <3> QED
      BY <3>1, <3>2, Zenon
  <2>2. CASE op # Scan
    <3>1. pipe' = [pipe EXCEPT ![h] = Printed(pipe[h], op)]
      BY <2>2, Zenon DEF ChildIO
    <3>2. op \in Seq(Byte)
      BY <1>1, <2>2, Zenon DEF Call
    <3>3. LET q == Printed(pipe[h], op) IN
          PipeOK(q) /\ q.stdin_close = pipe[h].stdin_close /\ q.stdout_close = pipe[h].stdout_close
      BY <1>0, <1>1, <3>2, PrintedFields, Zenon
    <3> QED
      BY <3>1, <3>3, Zenon
  <2> QED
    BY <2>1, <2>2, Zenon
<1> HIDE DEF h, op
<1>3. pipe'[h] = q /\ \A i \in Hart \ {h} : pipe'[i] = pipe[i]
  BY <1>0, <1>1, <1>2, PipesOK, Zenon
<1> QED
  BY <1>0, <1>2, <1>3, Zenon DEF Closed

LEMMA ConsoleStep ==
  ASSUME Types, ConsoleInv, [Next]_vars
  PROVE  ConsoleInv'
<1>0. /\ 0 \in Hart /\ pipe = [h \in Hart |-> pipe[h]] /\ \A h \in Hart : PipeOK(pipe[h])
      /\ mode \in {"launch", "stage", "last"} /\ resume \in {"prompt", "returned", "reap"}
      /\ pc = "pipe" => mode = "stage"
      /\ ~Piping => Closed
  BY HartZero, Zenon DEF Types, ConsoleInv, Closed
<1> SUFFICES (pc' = "pipe" => mode' = "stage") /\ (~Piping' => Closed')
  BY Zenon DEF ConsoleInv, Closed
<1>1. CASE UNCHANGED vars
  BY <1>0, <1>1, Zenon DEF vars, shell, Piping, Waiting, Closed
<1>2. ASSUME NEW line \in Lines, ReadLine(line) PROVE (pc' = "pipe" => mode' = "stage") /\ (~Piping' => Closed')
  BY <1>0, <1>2, Zenon DEF ReadLine, At, Piping, Waiting, Closed
<1>3. CASE Loop
  BY <1>0, <1>3, Zenon DEF Loop, At, Piping, Waiting, Closed
<1>4. CASE OpenPipe
  BY <1>0, <1>4, Zenon DEF OpenPipe, At, Piping, Waiting, shell
<1>5. CASE Launch
  BY <1>0, <1>5, Zenon DEF Launch, At, Piping, Waiting, Closed
<1>6. CASE Wait
  BY <1>0, <1>6, Zenon DEF Wait, At, Piping, Waiting, Closed
<1>7. CASE RunInShell
  <2> DEFINE b == IF Kind(cmds[k].operation) = "builtin" THEN Programs[cmds[k].operation].io ELSE <<Space>>
  <2>1. b \in Seq(Byte)
    BY ProgramIO, ShellAssumption
  <2>2. /\ pipe' = [pipe EXCEPT ![0] = Printed(pipe[0], b)] /\ mode' = mode
        /\ pc = "run" /\ pc' = "returned"
    BY <1>7, Zenon DEF RunInShell, At
  <2> HIDE DEF b
  <2> DEFINE q == Printed(pipe[0], b)
  <2>3. PipeOK(q) /\ q.stdin_close = pipe[0].stdin_close /\ q.stdout_close = pipe[0].stdout_close
    BY <1>0, <2>1, PrintedFields, Zenon
  <2> HIDE DEF q
  <2>5. pipe'[0] = q
    BY <1>0, <2>2, <2>3, PipesOK, Zenon DEF q
  <2>4. Closed' <=> Closed
    BY <2>3, <2>5, Zenon DEF Closed
  <2> QED
    BY <1>0, <2>2, <2>4, Zenon DEF Piping, Waiting
<1>8. CASE LaunchReturned
  BY <1>0, <1>8, Zenon DEF LaunchReturned, At, Piping, Waiting, Closed
<1>9. CASE StageFails \/ LastDone
  <2>1. pipe' = [pipe EXCEPT ![0] = PipeReset(pipe[0])] /\ pc' # "pipe"
    BY <1>9, Zenon DEF StageFails, LastDone
  <2> DEFINE q == PipeReset(pipe[0])
  <2>3. PipeOK(q) /\ ~q.stdin_close /\ ~q.stdout_close
    BY <1>0, CallFields, Zenon
  <2> HIDE DEF q
  <2>2. Closed'
    BY <1>0, <2>1, <2>3, PipesOK, Zenon DEF Closed, q
  <2> QED
    BY <2>1, <2>2, Zenon
<1>10. CASE StageDone
  BY <1>0, <1>10, Zenon DEF StageDone, At, Piping, Waiting
<1>11. CASE Reap
  BY <1>0, <1>11, Zenon DEF Reap, At, Piping, Waiting, Closed
<1>12. ASSUME NEW s \in Slot, ChildIO(s) PROVE (pc' = "pipe" => mode' = "stage") /\ (~Piping' => Closed')
  <2>1. pc' = pc /\ mode' = mode /\ resume' = resume
    BY <1>12, Zenon DEF ChildIO, shell
  <2> QED
    BY <1>0, <1>12, <2>1, ChildKeepsClosed, Zenon DEF Piping, Waiting
<1>13. ASSUME NEW s \in Slot, ChildExit(s) PROVE (pc' = "pipe" => mode' = "stage") /\ (~Piping' => Closed')
  BY <1>0, <1>13, Zenon DEF ChildExit, Piping, Waiting, Closed, shell
<1> QED
  BY <1>1, <1>2, <1>3, <1>4, <1>5, <1>6, <1>7, <1>8, <1>9, <1>10, <1>11, <1>12, <1>13
     DEF Next, ShellStep

LEMMA QuietStep ==
  ASSUME Types, QuietInv, [Next]_vars
  PROVE  QuietInv'
<1> DEFINE R == WithStatus("READY")
<1>0. /\ proc \in [Slot -> Child] /\ resume \in {"prompt", "returned", "reap"}
      /\ quiet \in BOOLEAN
      /\ quiet /\ Waiting => R \subseteq {pid}
      /\ quiet /\ ~Waiting => R = {}
  BY Zenon DEF Types, QuietInv
<1> SUFFICES (quiet' /\ Waiting' => R' \subseteq {pid'}) /\ (quiet' /\ ~Waiting' => R' = {})
  BY Zenon DEF QuietInv
<1>1. CASE UNCHANGED vars
  BY <1>0, <1>1, Zenon DEF vars, shell, history, Waiting, WithStatus
<1>2. ASSUME NEW line \in Lines, ReadLine(line)
      PROVE  (quiet' /\ Waiting' => R' \subseteq {pid'}) /\ (quiet' /\ ~Waiting' => R' = {})
  BY <1>2, ZenonT(30) DEF ReadLine, At, Waiting, WithStatus
<1>3. CASE Loop \/ OpenPipe \/ Wait \/ RunInShell
  BY <1>0, <1>3 DEF Loop, OpenPipe, Wait, RunInShell, At, Waiting, WithStatus, shell, history
<1>4. CASE LaunchReturned \/ StageFails \/ StageDone \/ LastDone
  BY <1>0, <1>4 DEF LaunchReturned, StageFails, StageDone, LastDone, At, Waiting, WithStatus, shell, history
<1>5. CASE Launch
  <2>1. CASE WithStatus("FREE") = {}
    BY <1>0, <1>5, <2>1, Zenon DEF Launch, At, Waiting, WithStatus
  <2>2. CASE WithStatus("FREE") # {}
    <3> DEFINE f == First(WithStatus("FREE"))
               c == [status |-> "READY", io |-> Programs[cmds[k].operation].io, hart |-> TargetHart]
    <3>1. f \in Slot
      BY <2>2, FirstIsIn, Zenon DEF WithStatus
    <3>2. /\ proc' = [proc EXCEPT ![f] = c] /\ pid' = (IF Foreground THEN f ELSE None)
          /\ pc = "run" /\ pc' = (IF Foreground THEN "wait" ELSE "returned")
          /\ quiet' = (quiet /\ Foreground)
      BY <1>5, <2>2, Zenon DEF Launch, At
    <3> HIDE DEF f, c
    <3>3. R' \subseteq R \cup {f}
      BY <1>0, <3>1, <3>2, Zenon DEF WithStatus
    <3>4. quiet' => quiet /\ pc' = "wait" /\ pid' = f
      BY <3>2, Zenon
    <3> QED
      BY <1>0, <3>2, <3>3, <3>4, Zenon DEF Waiting
  <2> QED
    BY <2>1, <2>2, Zenon
<1>6. CASE Reap
  <2>1. quiet' = quiet /\ pid' = pid /\ pc = "reap" /\ (pc' \in {"prompt", "reap"} \/ (pc' = "blocked" /\ resume' = "reap"))
    BY <1>6, Zenon DEF Reap, At, history
  <2>2. R' \subseteq R
    <3> DEFINE C == Slot \ WithStatus("FREE")
    <3>1. proc' = proc \/ (C # {} /\ proc' = [proc EXCEPT ![First(C)].status = "FREE"])
      BY <1>6, Zenon DEF Reap
    <3>2. C # {} => First(C) \in Slot
      BY FirstIsIn, Zenon
    <3> HIDE DEF C
    <3> QED
      BY <1>0, <3>1, <3>2, Zenon DEF WithStatus, Child
  <2> QED
    BY <1>0, <2>1, <2>2, Zenon DEF Waiting
<1>7. ASSUME NEW s \in Slot, ChildIO(s)
      PROVE  (quiet' /\ Waiting' => R' \subseteq {pid'}) /\ (quiet' /\ ~Waiting' => R' = {})
  <2>1. R' \subseteq R
    BY <1>0, <1>7, Zenon DEF ChildIO, WithStatus, Child
  <2> QED
    BY <1>0, <1>7, <2>1, Zenon DEF ChildIO, Waiting, shell
<1>8. ASSUME NEW s \in Slot, ChildExit(s)
      PROVE  (quiet' /\ Waiting' => R' \subseteq {pid'}) /\ (quiet' /\ ~Waiting' => R' = {})
  <2>1. R' = R \ {s} /\ s \in R
    BY <1>0, <1>8, Zenon DEF ChildExit, WithStatus, Child
  <2>2. quiet' = quiet /\ pid' = pid /\ resume' = resume /\ pc' = IF pc = "blocked" THEN resume ELSE pc
    BY <1>8, Zenon DEF ChildExit, shell, history
  <2> QED
    BY <1>0, <2>1, <2>2, Zenon DEF Waiting
<1> QED
  BY <1>1, <1>2, <1>3, <1>4, <1>5, <1>6, <1>7, <1>8 DEF Next, ShellStep

\* What the parser has after n tokens: one state after the other.
First0 == [op |-> None, list |-> << >>]

Parses(f, m, line) ==
  \A n \in 0 .. m : f[n] = IF n = 0 THEN First0 ELSE ParseToken(f[n - 1], line[n])

LEMMA ParseExists ==
  ASSUME NEW line, NEW m \in Nat
  PROVE  \E f : f = [n \in 0 .. m |-> f[n]] /\ Parses(f, m, line)
<1> DEFINE U == {n \in 0 .. m : \A f : f = [i \in 0 .. n |-> f[i]] => ~Parses(f, n, line)}
<1> SUFFICES ASSUME U # {} PROVE FALSE
  OBVIOUS
<1>1. U \in SUBSET Nat
  OBVIOUS
<1> HIDE DEF U
<1>2. PICK n \in U : \A i \in U : n <= i
  BY <1>1, NatMin, Zenon
<1>3. n \in 0 .. m /\ \A f : f = [i \in 0 .. n |-> f[i]] => ~Parses(f, n, line)
  BY Zenon DEF U
<1>4. n # 0
  <2> SUFFICES ASSUME n = 0 PROVE FALSE
    BY Zenon
  <2> DEFINE f == [i \in 0 .. n |-> First0]
  <2>1. f = [i \in 0 .. n |-> f[i]] /\ Parses(f, n, line)
    BY DEF Parses
  <2> QED
    BY <1>3, <2>1, Zenon
<1>5. n - 1 \in 0 .. m /\ n - 1 \notin U
  BY <1>2, <1>3, <1>4
<1>6. PICK g : g = [i \in 0 .. (n - 1) |-> g[i]] /\ Parses(g, n - 1, line)
  BY <1>5, Zenon DEF U
<1> DEFINE v == ParseToken(g[n - 1], line[n])
           f == [i \in 0 .. n |-> IF i = n THEN v ELSE g[i]]
<1>7. f = [i \in 0 .. n |-> f[i]]
  BY Zenon
<1>8. Parses(f, n, line)
  <2> SUFFICES ASSUME NEW i \in 0 .. n
               PROVE  f[i] = IF i = 0 THEN First0 ELSE ParseToken(f[i - 1], line[i])
    BY Zenon DEF Parses
  <2>1. CASE i = n
    <3>1. i - 1 \in 0 .. n /\ i - 1 # n /\ i # 0
      BY <1>3, <1>4, <2>1
    <3>2. f[i - 1] = g[n - 1] /\ f[i] = v
      BY <2>1, <3>1, Zenon
    <3> QED
      BY <2>1, <3>1, <3>2, Zenon
  <2>2. CASE i # n
    <3>1. i \in 0 .. (n - 1) /\ (i # 0 => i - 1 \in 0 .. n /\ i - 1 # n)
      BY <1>3, <2>2
    <3>2. g[i] = IF i = 0 THEN First0 ELSE ParseToken(g[i - 1], line[i])
      BY <1>6, <3>1, Zenon DEF Parses
    <3>3. f[i] = g[i] /\ (i # 0 => f[i - 1] = g[i - 1])
      BY <2>2, <3>1, Zenon
    <3> HIDE DEF f
    <3> QED
      BY <3>2, <3>3, Zenon
  <2> QED
    BY <2>1, <2>2, Zenon
<1> QED
  BY <1>3, <1>7, <1>8, Zenon

\* A token keeps the shape of the parser's state: a list of commands and the
\* operation of the next one.
Shaped(s, L) == s = [op |-> s.op, list |-> s.list] /\ s.list \in Seq(L)

CommandsOf(S) == [operation : S \cup {None}, op_type : {"EXEC", "PIPLINE", "MULTISTART", "MULTICORE"}]

LEMMA TokenShape ==
  ASSUME NEW S, NEW s, Shaped(s, CommandsOf(S)), s.op \in S \cup {None}, NEW token \in S
  PROVE  Shaped(ParseToken(s, token), CommandsOf(S)) /\ ParseToken(s, token).op \in S \cup {None}
<1>1. CASE s.op = None
  <2>1. ParseToken(s, token) = [op |-> token, list |-> s.list]
    BY <1>1, Zenon DEF ParseToken, Shaped
  <2> QED
    BY <2>1 DEF Shaped
<1>2. CASE s.op # None /\ token \in DOMAIN Separators
  <2> DEFINE c == Command(s.op, Separators[token])
  <2>1. ParseToken(s, token) = [op |-> None, list |-> Append(s.list, c)]
    BY <1>2, Zenon DEF ParseToken
  <2>2. Separators[token] \in {"PIPLINE", "MULTISTART", "MULTICORE"}
    BY <1>2, Zenon DEF Separators
  <2>3. c \in CommandsOf(S)
    BY <2>2, Zenon DEF Command, CommandsOf
  <2> HIDE DEF c
  <2>4. Append(s.list, c) \in Seq(CommandsOf(S))
    BY <2>3 DEF Shaped
  <2> QED
    BY <2>1, <2>4 DEF Shaped
<1>3. CASE s.op # None /\ token \notin DOMAIN Separators
  BY <1>3, Zenon DEF ParseToken
<1> QED
  BY <1>1, <1>2, <1>3, Zenon

\* The parser's lists end with a command that no other follows.
LEMMA ListsEnd ==
  ASSUME NEW line \in Lines
  PROVE  Ended(Build(line))
<1> DEFINE m == Len(line)
           Body(f) == [n \in 0 .. m |-> IF n = 0 THEN First0 ELSE ParseToken(f[n - 1], line[n])]
           st == CHOOSE f : f = Body(f)
           S == {line[j] : j \in 1 .. m}
<1>0. m \in Nat
  BY ShellAssumption
<1>1. Build(line) = IF st[m].op = None THEN << >> ELSE Append(st[m].list, Command(st[m].op, "EXEC"))
  BY Zenon DEF Build, First0
<1> HIDE DEF m
<1>2. st = Body(st)
  <2>1. PICK f : f = [n \in 0 .. m |-> f[n]] /\ Parses(f, m, line)
    BY <1>0, ParseExists, Zenon
  <2>2. \A n \in 0 .. m : f[n] = Body(f)[n]
    BY <2>1, Zenon DEF Parses
  <2>3. Body(f) = [n \in 0 .. m |-> Body(f)[n]]
    BY Zenon
  <2>4. f = Body(f)
    <3> HIDE DEF Body
    <3> QED
      BY <2>1, <2>2, <2>3, Zenon
  <2> HIDE DEF Body
  <2> QED
    BY <2>4, Zenon
<1> HIDE DEF st
<1>3. \A n \in 0 .. m : st[n] = IF n = 0 THEN First0 ELSE ParseToken(st[n - 1], line[n])
  BY <1>2, Zenon
<1> HIDE DEF Body
<1> DEFINE Good(n) == Shaped(st[n], CommandsOf(S)) /\ st[n].op \in S \cup {None}
           U == {n \in 0 .. m : ~Good(n)}
<1>4. U = {}
  <2> SUFFICES ASSUME U # {} PROVE FALSE
    BY Zenon
  <2>1. U \in SUBSET Nat
    BY <1>0
  <2> HIDE DEF U
  <2>2. PICK n \in U : \A i \in U : n <= i
    BY <2>1, NatMin, Zenon
  <2>3. n \in 0 .. m /\ ~Good(n)
    BY Zenon DEF U
  <2>4. n # 0
    <3>1. Shaped(First0, CommandsOf(S)) /\ First0.op = None
      BY DEF Shaped, First0
    <3> QED
      BY <1>0, <1>3, <2>3, <3>1, Zenon
  <2>5. n - 1 \in 0 .. m /\ n - 1 \notin U /\ n \in 1 .. m
    BY <1>0, <2>2, <2>3, <2>4
  <2>6. Good(n - 1) /\ line[n] \in S
    BY <2>5, Zenon DEF U
  <2>7. st[n] = ParseToken(st[n - 1], line[n])
    BY <1>3, <2>3, <2>4, Zenon
  <2> HIDE DEF S
  <2> QED
    BY <2>3, <2>6, <2>7, TokenShape, Zenon
<1>5. Good(m)
  BY <1>0, <1>4
<1> DEFINE list == st[m].list
           c == Command(st[m].op, "EXEC")
<1> HIDE DEF S
<1>6. list \in Seq(CommandsOf(S)) /\ st[m].op \in S \cup {None}
  BY <1>5, Zenon DEF Shaped
<1>9. c.op_type = "EXEC" /\ c \in CommandsOf(S)
  BY <1>6, Zenon DEF Command, CommandsOf
<1> HIDE DEF list, c
<1>7. Ended(<< >>)
  BY DEF Ended
<1>8. Ended(Append(list, c))
  BY <1>6, <1>9 DEF Ended
<1> QED
  BY <1>1, <1>7, <1>8, Zenon DEF list, c

LEMMA ListStep ==
  ASSUME Types, ListInv, [Next]_vars
  PROVE  ListInv'
<1>0. /\ k \in Nat \ {0} /\ Ended(cmds) /\ mode \in {"launch", "stage", "last"} /\ resume \in {"prompt", "returned", "reap"}
      /\ pc # "prompt" /\ mode = "stage" => k < Len(cmds)
  BY Zenon DEF Types, ListInv, PipeHasReader
<1> SUFFICES Ended(cmds') /\ (pc' # "prompt" /\ mode' = "stage" => k' < Len(cmds'))
  BY Zenon DEF ListInv, PipeHasReader, Ended
<1>1. CASE UNCHANGED vars
  BY <1>0, <1>1, Zenon DEF vars, shell
<1>2. ASSUME NEW line \in Lines, ReadLine(line)
      PROVE  Ended(cmds') /\ (pc' # "prompt" /\ mode' = "stage" => k' < Len(cmds'))
  BY <1>2, ListsEnd, Zenon DEF ReadLine
<1>3. CASE Loop
  <2>1. cmds' = cmds /\ k' = k /\ (mode' = "stage" => k <= Len(cmds) /\ cmds[k].op_type = "PIPLINE")
    BY <1>3, Zenon DEF Loop
  <2> QED
    BY <1>0, <2>1 DEF Ended
<1>4. CASE OpenPipe \/ Launch \/ Wait \/ RunInShell \/ Reap
  BY <1>0, <1>4, Zenon DEF OpenPipe, Launch, Wait, RunInShell, Reap, At, shell
<1>5. CASE LaunchReturned \/ StageFails \/ LastDone
  BY <1>0, <1>5, Zenon DEF LaunchReturned, StageFails, LastDone, At, shell
<1>6. CASE StageDone
  <2>1. /\ cmds' = cmds /\ k' = k + 1 /\ k < Len(cmds)
        /\ mode' = IF cmds[k + 1].op_type = "PIPLINE" THEN "stage" ELSE "last"
    BY <1>0, <1>6, Zenon DEF StageDone, At
  <2> QED
    BY <1>0, <2>1 DEF Ended
<1>7. ASSUME NEW s \in Slot, ChildIO(s) \/ ChildExit(s)
      PROVE  Ended(cmds') /\ (pc' # "prompt" /\ mode' = "stage" => k' < Len(cmds'))
  <2>1. cmds' = cmds /\ k' = k /\ mode' = mode /\ (pc = "prompt" => pc' = "prompt")
    BY <1>7, Zenon DEF ChildIO, ChildExit, shell
  <2> QED
    BY <1>0, <2>1, Zenon
<1> QED
  BY <1>1, <1>2, <1>3, <1>4, <1>5, <1>6, <1>7, Zenon DEF Next, ShellStep

-----------------------------------------------------------------------------
(***************************************************************************)
(* What a pipe delivers                                                    *)
(***************************************************************************)
\* A scan returns a sequence of bytes.
LEMMA WordIsBytes ==
  ASSUME NEW q, PipeOK(q)
  PROVE  ScanWord(q) \in Seq(Byte)
<1> DEFINE b == SubSeq(Source(q), q.pos + 1, q.len)
           I == {i \in 1 .. Len(b) : b[i] \in {Space, NUL}}
           e == IF I # {} THEN Min(I) ELSE 0
<1>1. q.len \in 0 .. BUFSIZE /\ q.pos \in Nat /\ BUFSIZE \in Nat /\ Source(q) \in [1 .. BUFSIZE -> Byte]
  <2>1. (q.num + 1) % 2 \in 0 .. 1
    BY DEF PipeOK, Pipe
  <2> QED
    BY <2>1, ShellAssumption, Zenon DEF PipeOK, Pipe, Source
<1>2. Source(q) \in Seq(Byte) /\ Len(Source(q)) = BUFSIZE
  BY <1>1
<1>3. b \in Seq(Byte)
  BY <1>1, <1>2
<1> HIDE DEF b
<1>4. e = 0 \/ e \in 1 .. Len(b)
  <2>1. CASE I # {}
    <3>1. I \in SUBSET Nat /\ I \subseteq 1 .. Len(b)
      BY <1>3
    <3> HIDE DEF I
    <3>2. Min(I) \in I
      BY <2>1, <3>1, NatMin, Zenon DEF Min
    <3> QED
      BY <2>1, <3>1, <3>2, Zenon
  <2> QED
    BY <2>1, Zenon
<1>5. FirstWord(b) = IF e = 0 THEN b ELSE SubSeq(b, 1, e - 1)
  BY Zenon DEF FirstWord, SelectInSeq
<1> HIDE DEF e
<1>6. FirstWord(b) \in Seq(Byte)
  BY <1>3, <1>4, <1>5
<1> QED
  BY <1>6, Zenon DEF ScanWord, b

\* The reader scans the text its buffer holds.
LEMMA WordOfText ==
  ASSUME NEW q, PipeOK(q), q.pos = 0, NEW text \in Seq(Byte), Holds(Source(q), q.len, text)
  PROVE  ScanWord(q) = FirstWord(SubSeq(text, 1, Lesser(Len(text), BUFSIZE)))
<1> DEFINE n == q.len
<1>1. n \in 0 .. BUFSIZE /\ BUFSIZE \in Nat /\ Source(q) \in [1 .. BUFSIZE -> Byte]
  <2>1. (q.num + 1) % 2 \in 0 .. 1
    BY DEF PipeOK, Pipe
  <2> QED
    BY <2>1, ShellAssumption, Zenon DEF PipeOK, Pipe, Source
<1>2. n = Lesser(Len(text), BUFSIZE) /\ n <= Len(text) /\ \A j \in 1 .. n : Source(q)[j] = text[j]
  BY <1>1 DEF Holds, Lesser
<1> HIDE DEF n
<1>3. SubSeq(Source(q), 1, n) = [j \in 1 .. n |-> Source(q)[j]]
  BY <1>1
<1>4. SubSeq(text, 1, n) = [j \in 1 .. n |-> text[j]]
  BY <1>1, <1>2
<1>5. SubSeq(Source(q), 1, n) = SubSeq(text, 1, n)
  BY <1>2, <1>3, <1>4, Zenon
<1>6. q.pos + 1 = 1
  OBVIOUS
<1>7. ScanWord(q) = FirstWord(SubSeq(Source(q), 1, n))
  BY <1>6, Zenon DEF ScanWord, n
<1> QED
  BY <1>2, <1>5, <1>7, Zenon

\* A print of nothing by the reader leaves the text it will scan.
LEMMA NothingPrinted ==
  ASSUME NEW q, PipeOK(q), NEW b \in Seq(Byte), NEW c \in Seq(Byte), c \o b = << >>
  PROVE  c = << >> /\ Printed(q, b).len = q.len
<1>1. Len(c) = 0 /\ Len(b) = 0
  <2>1. Len(c \o b) = Len(c) + Len(b) /\ Len(c) \in Nat /\ Len(b) \in Nat
    BY ConcatProperties
  <2> QED
    BY <2>1
<1>2. c = << >>
  BY <1>1
<1>3. q.len \in 0 .. BUFSIZE /\ BUFSIZE \in Nat
  BY ShellAssumption, Zenon DEF PipeOK, Pipe
<1>4. Printed(q, b).len = IF q.stdin_close THEN Total(q.len, Len(b)) ELSE q.len
  BY PrintedFields, Zenon
<1>5. Total(q.len, Len(b)) = q.len
  BY <1>1, <1>3 DEF Total, Lesser
<1> QED
  BY <1>2, <1>4, <1>5, Zenon

\* The steps that touch neither the pipe nor the history of the line.
LEMMA DryStep ==
  ASSUME Types, ConsoleInv, PipeInv, UNCHANGED <<pipe, src, cur, word, k>>, quiet' => quiet,
         Piping' => (pc' = "pipe" /\ Closed) \/ (Piping /\ (pc' = "pipe" <=> pc = "pipe")),
         k = 1 => mode' # "last",
         k = 1 /\ pc' \in {"loop", "pipe"} => pc \in {"loop", "pipe"} /\ pid' = pid,
         mode' # "launch" /\ Waiting' /\ pid' \in Slot => proc'[pid'].hart = 0
  PROVE  PipeInv'
<1>1. WriterInv'
  BY Zenon DEF PipeInv, WriterInv
<1>2. ReaderInv'
  BY Zenon DEF PipeInv, ReaderInv, Closed, Source
<1>3. WordInv'
  BY Zenon DEF PipeInv, WordInv, Closed
<1> QED
  BY <1>1, <1>2, <1>3, Zenon DEF PipeInv

LEMMA DryActions ==
  ASSUME Types, ConsoleInv, PipeInv,
         \/ UNCHANGED vars \/ Loop \/ Launch \/ Wait \/ Reap
         \/ \E s \in Slot : ChildExit(s)
  PROVE  PipeInv'
<1>0. /\ mode \in {"launch", "stage", "last"} /\ resume \in {"prompt", "returned", "reap"}
      /\ pid \in Slot \cup {None} /\ proc \in [Slot -> Child] /\ None \notin Slot
      /\ ~Piping => Closed
      /\ k = 1 => mode # "last"
      /\ mode # "launch" /\ Waiting /\ pid \in Slot => proc[pid].hart = 0
  BY ShellAssumption, Zenon DEF Types, ConsoleInv, PipeInv, WordInv
<1>2. CASE Loop
  <2>1. /\ UNCHANGED <<pipe, src, cur, word, k, quiet, pid>> /\ pc = "loop" /\ Closed
        /\ pc' \in {"reap", "exited", "pipe", "run"} /\ mode' \in {"stage", "launch"}
        /\ pc' = "pipe" => mode' = "stage"
        /\ pc' = "run" => mode' = "launch"
    BY <1>0, <1>2, Zenon DEF Loop, At, history, Piping, Waiting
  <2> QED
    BY <2>1, DryStep, Zenon DEF Piping, Waiting
<1>3. CASE Launch
  <2>1. /\ UNCHANGED <<pipe, src, cur, word, k, mode, resume>> /\ (quiet' => quiet) /\ pc = "run"
        /\ pc' \in {"run", "wait", "returned"}
    BY <1>3, Zenon DEF Launch, At
  <2>2. mode # "launch" /\ pc' = "wait" => pid' \in Slot /\ proc'[pid'].hart = 0
    <3> DEFINE f == First(WithStatus("FREE"))
               c == [status |-> "READY", io |-> Programs[cmds[k].operation].io, hart |-> TargetHart]
    <3>0. SUFFICES ASSUME mode # "launch", pc' = "wait" PROVE pid' \in Slot /\ proc'[pid'].hart = 0
      BY Zenon
    <3>1. Foreground /\ TargetHart = 0
      BY <3>0, Zenon DEF Foreground, TargetHart
    <3>2. WithStatus("FREE") # {} /\ pid' = f /\ proc' = [proc EXCEPT ![f] = c]
      BY <1>3, <2>1, <3>0, <3>1, Zenon DEF Launch
    <3>3. f \in Slot
      BY <3>2, FirstIsIn, Zenon DEF WithStatus
    <3>4. c.hart = 0
      BY <3>1, Zenon
    <3> HIDE DEF f, c
    <3> QED
      BY <1>0, <3>2, <3>3, <3>4, Zenon
  <2> QED
    BY <1>0, <2>1, <2>2, DryStep, Zenon DEF Piping, Waiting
<1>4. CASE Wait
  <2>1. /\ UNCHANGED <<pipe, src, cur, word, k, quiet, mode, pid, proc>> /\ pc = "wait"
        /\ pc' = "blocked" /\ resume' = "returned"
    BY <1>4, Zenon DEF Wait, At, history
  <2> QED
    BY <1>0, <2>1, DryStep, Zenon DEF Piping, Waiting
<1>5. CASE Reap
  <2>1. /\ UNCHANGED <<pipe, src, cur, word, k, quiet, mode, pid>> /\ pc = "reap"
        /\ pc' \in {"prompt", "reap"} \/ (pc' = "blocked" /\ resume' = "reap")
    BY <1>5, Zenon DEF Reap, At, history
  <2> QED
    BY <1>0, <2>1, DryStep, Zenon DEF Piping, Waiting
<1>6. ASSUME NEW s \in Slot, ChildExit(s) PROVE PipeInv'
  <2>1. /\ UNCHANGED <<pipe, src, cur, word, k, quiet, mode, pid, resume>>
        /\ pc' = IF pc = "blocked" THEN resume ELSE pc
    BY <1>6, Zenon DEF ChildExit, history, shell
  <2>2. pid \in Slot => proc'[pid].hart = proc[pid].hart
    BY <1>0, <1>6, Zenon DEF ChildExit, Child
  <2>3. Waiting' => Waiting
    BY <1>0, <2>1, Zenon DEF Waiting
  <2>4. /\ pc' \in {"loop", "pipe"} => pc' = pc
        /\ Piping' => Piping /\ (pc' = "pipe" <=> pc = "pipe")
    BY <1>0, <2>1, Zenon DEF Piping, Waiting
  <2> QED
    BY <1>0, <2>1, <2>2, <2>3, <2>4, DryStep
<1>7. CASE UNCHANGED vars
  BY <1>7, Zenon DEF vars, shell, history, PipeInv, WriterInv, ReaderInv, WordInv, Piping, Waiting, Closed, Source
<1> QED
  BY <1>2, <1>3, <1>4, <1>5, <1>6, <1>7, Zenon

\* The shell's own calls on the pipe.
LEMMA WetActions ==
  ASSUME Types, ConsoleInv, PipeInv,
         \/ \E line \in Lines : ReadLine(line)
         \/ OpenPipe \/ RunInShell \/ LaunchReturned \/ StageFails \/ StageDone \/ LastDone
  PROVE  PipeInv'
<1>0. /\ 0 \in Hart /\ pipe = [h \in Hart |-> pipe[h]] /\ \A h \in Hart : PipeOK(pipe[h])
      /\ k \in Nat \ {0} /\ mode \in {"launch", "stage", "last"}
      /\ cur \in Seq(Byte) /\ src \in Seq(Byte)
      /\ ~Piping => Closed
      /\ k = 1 => word = None /\ mode # "last"
  BY HartZero, Zenon DEF Types, ConsoleInv, PipeInv, WordInv
<1>1. ASSUME NEW line \in Lines, ReadLine(line) PROVE PipeInv'
  <2>1. /\ pc = "prompt" /\ pc' = "loop" /\ k' = 1 /\ mode' = "launch" /\ pid' = None
        /\ cur' = << >> /\ word' = None /\ pipe' = pipe
    BY <1>1, Zenon DEF ReadLine, At
  <2>2. ~Piping' /\ ~Waiting' /\ Closed'
    BY <1>0, <2>1, Zenon DEF Piping, Waiting, Closed
  <2> QED
    BY <2>1, <2>2, Zenon DEF PipeInv, WriterInv, ReaderInv, WordInv
<1>2. CASE OpenPipe
  <2> DEFINE q == PipeWrite(pipe[0])
  <2>1. /\ pc = "pipe" /\ pc' = "run" /\ pipe' = [pipe EXCEPT ![0] = q]
        /\ UNCHANGED <<k, mode, pid, cur, src, word, quiet, proc, resume>>
    BY <1>2, Zenon DEF OpenPipe, At, shell, history
  <2>2. /\ PipeOK(q) /\ q.stdin_close /\ q.stdout_close = pipe[0].stdout_close
        /\ q.len = pipe[0].len /\ q.pos = pipe[0].pos /\ q.num = pipe[0].num /\ q.buf = pipe[0].buf
    BY <1>0, CallFields, Zenon
  <2> HIDE DEF q
  <2>3. pipe'[0] = q
    BY <1>0, <2>1, <2>2, PipesOK, Zenon
  <2>4. ~Waiting' /\ (Piping' <=> Piping)
    BY <2>1, Zenon DEF Piping, Waiting
  <2>5. WriterInv'
    <3>1. SUFFICES ASSUME quiet, k = 1, Piping
          PROVE  ~q.stdout_close /\ q.pos = 0 /\ Holds(q.buf[q.num], q.len, cur)
      BY <2>1, <2>2, <2>3, <2>4, Zenon DEF WriterInv, Holds
    <3>2. cur = << >> /\ Closed
      BY <2>1, <3>1, Zenon DEF PipeInv, WordInv
    <3>3. pipe[0].len = 0 /\ pipe[0].pos = 0 /\ ~pipe[0].stdout_close
      BY <1>0, <3>2, Zenon DEF Closed, PipeOK
    <3> QED
      BY <2>2, <3>2, <3>3, ShellAssumption DEF Holds, Lesser
  <2>6. ReaderInv'
    BY <2>1, <2>2, <2>3, <2>4 DEF PipeInv, ReaderInv, Source, Holds
  <2>7. WordInv'
    BY <2>1, <2>4, Zenon DEF PipeInv, WordInv
  <2> QED
    BY <2>5, <2>6, <2>7, Zenon DEF PipeInv
<1>3. CASE RunInShell
  <2> DEFINE b == IF Kind(cmds[k].operation) = "builtin" THEN Programs[cmds[k].operation].io ELSE <<Space>>
             q == Printed(pipe[0], b)
  <2>1. b \in Seq(Byte)
    BY ProgramIO, ShellAssumption
  <2>2. /\ pc = "run" /\ pc' = "returned" /\ pipe' = [pipe EXCEPT ![0] = q] /\ cur' = cur \o b
        /\ UNCHANGED <<k, mode, src, word, quiet, proc>>
    BY <1>3, Zenon DEF RunInShell, At
  <2> HIDE DEF b
  <2>3. /\ PipeOK(q) /\ q.stdin_close = pipe[0].stdin_close /\ q.stdout_close = pipe[0].stdout_close
        /\ q.pos = pipe[0].pos /\ Source(q) = Source(pipe[0])
    BY <1>0, <2>1, PrintedFields, Zenon
  <2>4. pipe'[0] = q
    <3> HIDE DEF q
    <3> QED
      BY <1>0, <2>2, <2>3, PipesOK, Zenon
  <2>5. ~Waiting' /\ (Piping' <=> Piping)
    BY <2>2, Zenon DEF Piping, Waiting
  <2>6. WriterInv'
    <3>1. SUFFICES ASSUME quiet, k = 1, Piping
          PROVE  q.stdin_close /\ ~q.stdout_close /\ q.pos = 0 /\ Holds(q.buf[q.num], q.len, cur \o b)
      BY <2>2, <2>4, <2>5, Zenon DEF WriterInv, Holds
    <3>2. /\ pipe[0].stdin_close /\ ~pipe[0].stdout_close /\ pipe[0].pos = 0
          /\ Holds(pipe[0].buf[pipe[0].num], pipe[0].len, cur)
      BY <2>2, <3>1, Zenon DEF PipeInv, WriterInv
    <3>3. Holds(q.buf[q.num], q.len, cur \o b)
      BY <1>0, <2>1, <3>2, PrintedHolds, Zenon
    <3> QED
      BY <2>3, <3>2, <3>3, Zenon
  <2>7. ReaderInv'
    <3>1. SUFFICES ASSUME quiet, k = 2, Piping, q.stdout_close, word = None, cur \o b = << >>
          PROVE  q.pos = 0 /\ Holds(Source(q), q.len, src)
      BY <2>2, <2>4, <2>5, Zenon DEF ReaderInv, Source, Holds
    <3>2. cur = << >> /\ q.len = pipe[0].len
      BY <1>0, <2>1, <3>1, NothingPrinted, Zenon
    <3>3. pipe[0].pos = 0 /\ Holds(Source(pipe[0]), pipe[0].len, src)
      BY <2>3, <3>1, <3>2, Zenon DEF PipeInv, ReaderInv
    <3> QED
      BY <2>3, <3>2, <3>3, Zenon
  <2>8. WordInv'
    BY <2>2, <2>5, Zenon DEF PipeInv, WordInv
  <2> QED
    BY <2>6, <2>7, <2>8, Zenon DEF PipeInv
<1>4. CASE LaunchReturned
  <2>1. /\ pc = "returned" /\ mode = "launch" /\ pc' \in {"prompt", "reap", "loop"}
        /\ k' = k + 1 \/ (pc' = "prompt" /\ k' = k)
        /\ UNCHANGED <<mode, pipe, cur, src, word, quiet, proc, pid>>
    BY <1>4, Zenon DEF LaunchReturned, At, history
  <2>2. ~Piping' /\ ~Waiting'
    BY <2>1, Zenon DEF Piping, Waiting
  <2>3. WordInv'
    BY <1>0, <2>1, <2>2 DEF PipeInv, WordInv
  <2> QED
    BY <2>2, <2>3, Zenon DEF PipeInv, WriterInv, ReaderInv
<1>5. CASE StageFails
  <2>1. pc' = "prompt" /\ UNCHANGED <<k, mode, cur, src, word, quiet, proc, pid>>
    BY <1>5, Zenon DEF StageFails, shell, history
  <2>2. ~Piping' /\ ~Waiting'
    BY <2>1, Zenon DEF Piping, Waiting
  <2>3. WordInv'
    BY <2>1, <2>2, Zenon DEF PipeInv, WordInv
  <2> QED
    BY <2>2, <2>3, Zenon DEF PipeInv, WriterInv, ReaderInv
<1>6. CASE LastDone
  <2>1. mode = "last" /\ pc' \in {"prompt", "loop"} /\ k' = k + 1 /\ UNCHANGED <<mode, word>>
    BY <1>6, Zenon DEF LastDone, At, history
  <2>2. ~Piping' /\ ~Waiting' /\ k' \notin {1, 2}
    BY <1>0, <2>1 DEF Piping, Waiting
  <2> QED
    BY <2>2, Zenon DEF PipeInv, WriterInv, ReaderInv, WordInv
<1>7. CASE StageDone
  <2> DEFINE q == PipeRead(pipe[0])
  <2>1. /\ pc = "returned" /\ mode = "stage" /\ k' = k + 1 /\ pc' \in {"pipe", "run"}
        /\ pipe' = [pipe EXCEPT ![0] = q] /\ src' = cur /\ word' = None /\ quiet' = quiet
    BY <1>7, Zenon DEF StageDone, At
  <2>2. PipeOK(q) /\ q.len = pipe[0].len /\ q.pos = pipe[0].pos /\ Source(q) = pipe[0].buf[pipe[0].num]
    BY <1>0, CallFields, Zenon
  <2> HIDE DEF q
  <2>3. pipe'[0] = q
    BY <1>0, <2>1, <2>2, PipesOK, Zenon
  <2>4. ~Waiting' /\ Piping /\ k' # 1 /\ (k' = 2 => k = 1)
    BY <1>0, <2>1 DEF Piping, Waiting
  <2>5. WriterInv'
    BY <2>4, Zenon DEF WriterInv
  <2>6. ReaderInv'
    <3>1. SUFFICES ASSUME quiet, k = 1 PROVE q.pos = 0 /\ Holds(Source(q), q.len, cur)
      BY <2>1, <2>3, <2>4, Zenon DEF ReaderInv, Source, Holds
    <3>2. pipe[0].pos = 0 /\ Holds(pipe[0].buf[pipe[0].num], pipe[0].len, cur)
      BY <2>1, <2>4, <3>1, Zenon DEF PipeInv, WriterInv
    <3> QED
      BY <2>2, <3>2, Zenon
  <2>7. WordInv'
    BY <2>1, <2>4, Zenon DEF WordInv
  <2> QED
    BY <2>5, <2>6, <2>7, Zenon DEF PipeInv
<1> QED
  BY <1>1, <1>2, <1>3, <1>4, <1>5, <1>6, <1>7

\* With no other job, a child that runs is the stage that is waited for, and
\* it prints and scans on the shell's hart.
LEMMA OneChild ==
  ASSUME Types, QuietInv, PipeInv, NEW s \in Slot, ChildIO(s), quiet
  PROVE  s = pid /\ Waiting /\ (mode # "launch" => proc[s].hart = 0)
<1>1. s \in WithStatus("READY")
  BY Zenon DEF ChildIO, WithStatus
<1> QED
  BY <1>1, Zenon DEF QuietInv, PipeInv, WordInv

LEMMA ScanStep ==
  ASSUME Types, ConsoleInv, QuietInv, PipeInv, NEW s \in Slot, ChildIO(s), Head(proc[s].io) = Scan
  PROVE  PipeInv'
<1> DEFINE h == proc[s].hart
           q == Scanned(pipe[0])
<1>0. /\ 0 \in Hart /\ pipe = [i \in Hart |-> pipe[i]] /\ \A i \in Hart : PipeOK(pipe[i])
      /\ h \in Hart /\ cur \in Seq(Byte) /\ src \in Seq(Byte) /\ proc \in [Slot -> Child]
      /\ pid \in Slot \cup {None} /\ None \notin Slot /\ None \notin Seq(Byte)
      /\ mode \in {"launch", "stage", "last"}
  BY HartZero, ShellAssumption, Zenon DEF Types, Child
<1>1. /\ pipe' = [pipe EXCEPT ![h] = Scanned(pipe[h])] /\ cur' = cur
      /\ word' = IF ReadsPipe(s) /\ pipe[h].stdout_close THEN ScanWord(pipe[h]) ELSE word
      /\ UNCHANGED <<pc, mode, resume, k, pid, src, quiet>>
  BY Zenon DEF ChildIO, shell
<1>2. (Waiting' <=> Waiting) /\ (Piping' <=> Piping)
  BY <1>1, Zenon DEF Piping, Waiting
<1>3. pid \in Slot => proc'[pid].hart = proc[pid].hart
  BY <1>0, Zenon DEF ChildIO, Child
<1>4. /\ PipeOK(q) /\ (~pipe[0].stdout_close => q = pipe[0])
      /\ q.stdout_close => pipe[0].stdout_close
  BY <1>0, ScannedFields, Zenon
<1>5. quiet /\ mode # "launch" => s = pid /\ Waiting /\ Piping /\ h = 0 /\ pipe'[0] = q
  <2>1. quiet /\ mode # "launch" => s = pid /\ Waiting /\ h = 0
    BY OneChild, Zenon
  <2>2. h = 0 => pipe'[0] = q
    BY <1>0, <1>1, <1>4, PipesOK, Zenon
  <2> QED
    BY <1>0, <2>1, <2>2, Zenon DEF Piping
<1> HIDE DEF h, q
<1>6. WriterInv'
  <2>1. SUFFICES ASSUME quiet, k = 1, Piping, pc # "pipe"
        PROVE  /\ pipe'[0].stdin_close /\ ~pipe'[0].stdout_close /\ pipe'[0].pos = 0
               /\ Holds(pipe'[0].buf[pipe'[0].num], pipe'[0].len, cur)
    BY <1>1, <1>2, Zenon DEF WriterInv, Holds
  <2>2. /\ pipe[0].stdin_close /\ ~pipe[0].stdout_close /\ pipe[0].pos = 0
        /\ Holds(pipe[0].buf[pipe[0].num], pipe[0].len, cur)
    BY <2>1, Zenon DEF PipeInv, WriterInv
  <2>3. pipe'[0] = pipe[0]
    BY <1>4, <1>5, <2>1, <2>2, Zenon DEF Piping
  <2> QED
    BY <2>2, <2>3, Zenon
<1>7. ReadsPipe(s) => word' = word \/ word' # None
  <2>1. ScanWord(pipe[h]) \in Seq(Byte)
    BY <1>0, WordIsBytes, Zenon
  <2> QED
    BY <1>0, <1>1, <2>1, Zenon
<1>8. ReaderInv'
  <2>1. SUFFICES ASSUME quiet, k = 2, Piping, q.stdout_close, word' = None, cur = << >>, pipe'[0] = q
        PROVE  FALSE
    BY <1>1, <1>2, <1>5, Zenon DEF ReaderInv, Piping
  <2>2. pipe[h].stdout_close /\ s = pid /\ mode \in {"stage", "last"}
    BY <1>4, <1>5, <2>1, Zenon DEF Piping
  <2>3. word = None => ReadsPipe(s)
    BY <2>1, <2>2 DEF ReadsPipe
  <2>4. ScanWord(pipe[h]) # None
    BY <1>0, WordIsBytes, Zenon
  <2> QED
    BY <1>1, <2>1, <2>2, <2>3, <2>4, Zenon
<1>9. WordInv'
  <2>1. k = 1 => word' = None /\ mode # "last"
    BY <1>1 DEF PipeInv, WordInv, ReadsPipe
  <2>2. k = 1 /\ pc \in {"loop", "pipe"} => cur = << >> /\ pid = None /\ Closed'
    BY ChildKeepsClosed, Zenon DEF PipeInv, WordInv
  <2>3. mode # "launch" /\ Waiting /\ pid \in Slot => proc'[pid].hart = 0
    BY <1>3, Zenon DEF PipeInv, WordInv
  <2>4. ASSUME quiet, k = 2, word' # None
        PROVE  word' = FirstWord(SubSeq(src, 1, Lesser(Len(src), BUFSIZE)))
    <3>1. CASE ReadsPipe(s) /\ pipe[h].stdout_close
      <4>1. word' = ScanWord(pipe[0]) /\ word = None /\ cur = << >> /\ Piping /\ pipe[0].stdout_close
        BY <1>1, <1>5, <2>4, <3>1, Zenon DEF ReadsPipe
      <4>2. pipe[0].pos = 0 /\ Holds(Source(pipe[0]), pipe[0].len, src)
        BY <2>4, <4>1, Zenon DEF PipeInv, ReaderInv
      <4> QED
        BY <1>0, <4>1, <4>2, WordOfText, Zenon
    <3>2. CASE ~(ReadsPipe(s) /\ pipe[h].stdout_close)
      BY <1>1, <2>4, <3>2, Zenon DEF PipeInv, WordInv
    <3> QED
      BY <3>1, <3>2, Zenon
  <2> QED
    BY <1>1, <1>2, <2>1, <2>2, <2>3, <2>4, Zenon DEF WordInv
<1> QED
  BY <1>6, <1>8, <1>9, Zenon DEF PipeInv

LEMMA PrintStep ==
  ASSUME Types, ConsoleInv, QuietInv, PipeInv, NEW s \in Slot, ChildIO(s), Head(proc[s].io) # Scan
  PROVE  PipeInv'
<1> DEFINE h == proc[s].hart
           b == Head(proc[s].io)
           q == Printed(pipe[0], b)
<1>0. /\ 0 \in Hart /\ pipe = [i \in Hart |-> pipe[i]] /\ \A i \in Hart : PipeOK(pipe[i])
      /\ h \in Hart /\ cur \in Seq(Byte) /\ src \in Seq(Byte) /\ proc \in [Slot -> Child]
      /\ pid \in Slot \cup {None} /\ None \notin Slot
      /\ mode \in {"launch", "stage", "last"} /\ b \in Seq(Byte)
  <2>1. proc[s] \in Child /\ proc[s].io \in Seq(Call) /\ proc[s].io # << >>
    BY Zenon DEF Types, Child, ChildIO
  <2>2. b \in Call
    BY <2>1
  <2> QED
    BY <2>1, <2>2, HartZero, ShellAssumption, Zenon DEF Types, Child, Call
<1>1. /\ pipe' = [pipe EXCEPT ![h] = Printed(pipe[h], b)] /\ cur' = (IF s = pid THEN cur \o b ELSE cur)
      /\ UNCHANGED <<pc, mode, resume, k, pid, src, quiet, word>>
  BY Zenon DEF ChildIO, shell
<1>2. (Waiting' <=> Waiting) /\ (Piping' <=> Piping)
  BY <1>1, Zenon DEF Piping, Waiting
<1>3. pid \in Slot => proc'[pid].hart = proc[pid].hart
  BY <1>0, Zenon DEF ChildIO, Child
<1>4. /\ PipeOK(q) /\ q.stdin_close = pipe[0].stdin_close /\ q.stdout_close = pipe[0].stdout_close
      /\ q.pos = pipe[0].pos /\ Source(q) = Source(pipe[0])
  BY <1>0, PrintedFields, Zenon
<1>5. quiet /\ mode # "launch" => s = pid /\ Waiting /\ Piping /\ h = 0 /\ pipe'[0] = q
  <2>1. quiet /\ mode # "launch" => s = pid /\ Waiting /\ h = 0
    BY OneChild, Zenon
  <2>2. h = 0 => pipe'[0] = q
    BY <1>0, <1>1, <1>4, PipesOK, Zenon
  <2> QED
    BY <1>0, <2>1, <2>2, Zenon DEF Piping
<1> HIDE DEF h, b
<1>6. WriterInv'
  <2>1. SUFFICES ASSUME quiet, k = 1, Piping, pc # "pipe", cur' = cur \o b, pipe'[0] = q
        PROVE  q.stdin_close /\ ~q.stdout_close /\ q.pos = 0 /\ Holds(q.buf[q.num], q.len, cur \o b)
    BY <1>1, <1>2, <1>5, Zenon DEF WriterInv, Holds, Piping
  <2>2. /\ pipe[0].stdin_close /\ ~pipe[0].stdout_close /\ pipe[0].pos = 0
        /\ Holds(pipe[0].buf[pipe[0].num], pipe[0].len, cur)
    BY <2>1, Zenon DEF PipeInv, WriterInv
  <2>3. Holds(q.buf[q.num], q.len, cur \o b)
    BY <1>0, <2>2, PrintedHolds, Zenon
  <2> QED
    BY <1>4, <2>2, <2>3, Zenon
<1>7. ReaderInv'
  <2>1. SUFFICES ASSUME quiet, k = 2, Piping, q.stdout_close, word = None, cur \o b = << >>, pipe'[0] = q
        PROVE  q.pos = 0 /\ Holds(Source(q), q.len, src)
    BY <1>1, <1>2, <1>5, Zenon DEF ReaderInv, Source, Holds, Piping
  <2>2. cur = << >> /\ q.len = pipe[0].len
    BY <1>0, <2>1, NothingPrinted, Zenon
  <2>3. pipe[0].pos = 0 /\ Holds(Source(pipe[0]), pipe[0].len, src)
    BY <1>4, <2>1, <2>2, Zenon DEF PipeInv, ReaderInv
  <2> QED
    BY <1>4, <2>2, <2>3, Zenon
<1>8. WordInv'
  <2>1. k = 1 /\ pc \in {"loop", "pipe"} => cur' = << >> /\ pid = None /\ Closed'
    BY <1>0, <1>1, ChildKeepsClosed, Zenon DEF PipeInv, WordInv
  <2>2. mode # "launch" /\ Waiting /\ pid \in Slot => proc'[pid].hart = 0
    BY <1>3, Zenon DEF PipeInv, WordInv
  <2> QED
    BY <1>1, <1>2, <2>1, <2>2, Zenon DEF PipeInv, WordInv
<1> QED
  BY <1>6, <1>7, <1>8, Zenon DEF PipeInv

-----------------------------------------------------------------------------
(***************************************************************************)
(* The theorems                                                            *)
(***************************************************************************)
ShellInv == Types /\ ConsoleInv /\ QuietInv /\ PipeInv

LEMMA ShellInit ==
  ASSUME Init
  PROVE  ShellInv
<1>1. PipeOK(NoPipe) /\ ~NoPipe.stdin_close /\ ~NoPipe.stdout_close
  BY ShellAssumption DEF NoPipe, PipeOK, Pipe, Zeroes
<1>2. /\ pipe = [h \in Hart |-> pipe[h]] /\ \A h \in Hart : pipe[h] = NoPipe
      /\ pipe[0] = NoPipe
  BY HartZero, Zenon DEF Init
<1>3. proc \in [Slot -> Child]
  BY HartZero DEF Init, Child
<1>4. Types
  BY <1>1, <1>2, <1>3 DEF Init, Types, Places
<1>5. Closed /\ ~Piping /\ ~Waiting
  BY <1>1, <1>2, Zenon DEF Init, Closed, Piping, Waiting
<1>6. QuietInv
  BY Zenon DEF Init, QuietInv, WithStatus
<1>7. PipeInv
  BY <1>5, Zenon DEF Init, PipeInv, WriterInv, ReaderInv, WordInv
<1> QED
  BY <1>4, <1>5, <1>6, <1>7, Zenon DEF Init, ShellInv, ConsoleInv

LEMMA ShellNext ==
  ASSUME ShellInv, [Next]_vars
  PROVE  ShellInv'
<1>1. Types' /\ ConsoleInv' /\ QuietInv'
  BY TypesStep, ConsoleStep, QuietStep, Zenon DEF ShellInv
<1>2. PipeInv'
  <2>1. ASSUME NEW s \in Slot, ChildIO(s) PROVE PipeInv'
    BY <2>1, ScanStep, PrintStep, Zenon DEF ShellInv
  <2> QED
    BY <2>1, DryActions, WetActions, Zenon DEF ShellInv, Next, ShellStep
<1> QED
  BY <1>1, <1>2, Zenon DEF ShellInv

\* The invariant the theorems rest on.
THEOREM ShellInvariant == Spec => []ShellInv
<1>1. Init => ShellInv
  BY ShellInit, Zenon
<1>2. ShellInv /\ [Next]_vars => ShellInv'
  BY ShellNext, Zenon
<1> QED
  BY <1>1, <1>2, PTL DEF Spec

\* At the prompt the shell prints to the console and reads from it, on every
\* path of exec_command, whatever the children do meanwhile.
THEOREM ConsoleRestoredCorrect == Spec => []ConsoleRestored
<1>1. ShellInv => ConsoleRestored
  BY Zenon DEF ShellInv, ConsoleInv, Piping, Waiting, Closed, ConsoleRestored
<1> QED
  BY <1>1, ShellInvariant, PTL

\* The reader of a two-stage pipe is given the first word of what the writer
\* has printed, for every size of the buffer and every program; length and
\* position stay in the buffer.
THEOREM PipeDeliversCorrect == Spec => []PipeDelivers
<1>1. ShellInv => PipeDelivers
  <2> SUFFICES ASSUME ShellInv PROVE PipeDelivers
    BY Zenon
  <2>1. TypeOK
    <3>1. \A s \in Slot : proc[s].status \in {"FREE", "READY", "ZOMBIE"} /\ proc[s].hart \in Hart
      BY Zenon DEF ShellInv, Types, Child
    <3>2. \A h \in Hart : pipe[h].len \in 0 .. BUFSIZE /\ (pipe[h].pos = 0 \/ pipe[h].pos < pipe[h].len)
      BY Zenon DEF ShellInv, Types, PipeOK, Pipe
    <3> QED
      BY <3>1, <3>2, Zenon DEF ShellInv, Types, Places, TypeOK
  <2> QED
    BY <2>1, Zenon DEF ShellInv, PipeInv, WordInv, PipeDelivers
<1> QED
  BY <1>1, ShellInvariant, PTL

\* A stage of a pipe starts when the one before it has exited, and has another
\* command behind it.
THEOREM StagesInOrderCorrect == Spec => []StagesInOrder
<1>1. Init => ListInv
  BY DEF Init, ListInv, Ended, PipeHasReader
<1>2. ShellInv /\ ListInv /\ [Next]_vars => ListInv'
  BY ListStep, Zenon DEF ShellInv
<1>3. ShellInv /\ ListInv => StagesInOrder
  BY Zenon DEF ShellInv, QuietInv, Waiting, ListInv, StagesInOrder
<1> QED
  BY <1>1, <1>2, <1>3, ShellInvariant, PTL DEF Spec
=============================================================================
