------------------------------- MODULE Shell -------------------------------
(***************************************************************************)
(* zshell: how it parses a line (zshell/parser.c) and runs it              *)
(* (zshell/execute.c), over fork, wait and exit and over the pipes of      *)
(* kernel/syscall.c.                                                       *)
(*                                                                         *)
(* A step is a system call of the shell or of a program it has started;    *)
(* the timer may switch between any two.  Calls of two harts do not        *)
(* overlap here: what happens when they do is the subject of Sched.        *)
(* Programs are sequences of prints and scans.  Parameters, which decide   *)
(* only what a program does, are left out, and so is running out of memory *)
(* in the parser.  A line has at least one token.                          *)
(***************************************************************************)
EXTENDS Integers, Sequences, FiniteSets, SequencesExt, TLC

CONSTANTS
  NCPU,     \* harts; the shell runs on hart 0
  NPROC,    \* process slots besides the shell's (the code has 32 in all)
  BUFSIZE,  \* IO_PIPELINE_BUF_SIZE (the code has 256)
  Lines,    \* lines the user may type, as sequences of tokens
  Programs, \* operation -> [kind, io]: what the operations do
  Byte,     \* what is printed and scanned
  Space,    \* a white-space byte
  Scan,     \* the call of scanf; the others are the bytes of a print
  NUL, None

Slot == 1 .. NPROC
Hart == 0 .. (NCPU - 1)

ASSUME ShellAssumption ==
  /\ NCPU \in Nat \ {0} /\ NPROC \in Nat /\ BUFSIZE \in Nat \ {0}
  /\ \A line \in Lines : line \in Seq(STRING)
  /\ {Space, NUL} \subseteq Byte /\ None \notin Seq(Byte) \cup Slot
  /\ \A op \in DOMAIN Programs :
       \/ Programs[op].kind = "exec" /\ Programs[op].io \in Seq(Seq(Byte) \cup {Scan})
       \/ Programs[op].kind = "builtin" /\ Programs[op].io \in Seq(Byte)

VARIABLES
  pc,          \* where the shell is
  mode,        \* how it runs the command: "launch", "stage" or "last" of a pipe
  resume,      \* where it goes on when it is woken
  cmds, k,     \* the commands of the line, and the one being run
  wait_count, mc_cmd_idx, ret,
  proc,        \* the children by slot: [status, io, hart]
  pid,         \* the child run_one_command waits for
  pipe,        \* pipline_buf and pipline_num of each hart
  machine,     \* "up" or "panic"
  src, cur,    \* history: what the stage before, and this one, have printed
  word,        \* history: what this stage was given, if its first call is a scan
  quiet        \* history: no other job ran during this line

shell   == <<mode, resume, cmds, k, wait_count, mc_cmd_idx, ret, pid>>
history == <<src, cur, word, quiet>>
vars    == <<pc, shell, proc, pipe, machine, history>>

(***************************************************************************)
(* The parser                                                              *)
(***************************************************************************)
Separators == [t \in {"|", "&", "&&"} |->
  CASE t = "|"  -> "PIPLINE"
    [] t = "&"  -> "MULTISTART"
    [] t = "&&" -> "MULTICORE"]

Command(op, type) == [operation |-> op, op_type |-> type]

\* The first token of a command is its operation, whatever it is; a separator
\* behind it ends the command, any other token is a parameter.
ParseToken(s, token) ==
  IF s.op = None THEN [s EXCEPT !.op = token]
  ELSE IF token \in DOMAIN Separators
  THEN [op |-> None, list |-> Append(s.list, Command(s.op, Separators[token]))]
  ELSE s

\* build_command.  A separator with nothing behind it kills the first command,
\* and with it the line.
Build(line) ==
  LET parsed[n \in 0 .. Len(line)] ==
        IF n = 0 THEN [op |-> None, list |-> << >>] ELSE ParseToken(parsed[n - 1], line[n])
      s == parsed[Len(line)]
  IN  IF s.op = None THEN << >> ELSE Append(s.list, Command(s.op, "EXEC"))

(***************************************************************************)
(* The pipe of a hart                                                      *)
(***************************************************************************)
Zeroes == [j \in 1 .. BUFSIZE |-> NUL]

NoPipe == [stdin_close |-> FALSE, stdout_close |-> FALSE, len |-> 0, pos |-> 0,
           num |-> 0, buf |-> [b \in 0 .. 1 |-> Zeroes]]

PipeWrite(q) == [q EXCEPT !.stdin_close = TRUE]

\* Mutant: the buffers are not swapped.
PipeReadSame(q) == [q EXCEPT !.stdout_close = TRUE]

PipeRead(q) == [q EXCEPT !.stdout_close = TRUE, !.num = (@ + 1) % 2]

\* The memset covers the first of the two buffers.
PipeReset(q) == [q EXCEPT !.stdin_close = FALSE, !.stdout_close = FALSE,
                          !.len = 0, !.pos = 0, !.buf[0] = Zeroes]

Lesser(a, b) == IF a < b THEN a ELSE b

Total(len, n) == Lesser(len + n, BUFSIZE)

\* sys_user_print: into the buffer as far as it has room, or to the console.
Printed(q, bytes) ==
  IF ~q.stdin_close THEN q
  ELSE LET total == Total(q.len, Len(bytes)) IN
       [q EXCEPT !.len = total,
                 !.buf[q.num] = [j \in 1 .. BUFSIZE |->
                    IF j \in (q.len + 1) .. total THEN bytes[j - q.len] ELSE @[j]]]

Source(q) == q.buf[(q.num + 1) % 2]

\* The bytes of b up to the first white space.
FirstWord(b) ==
  LET e == SelectInSeq(b, LAMBDA c : c \in {Space, NUL}) IN
  IF e = 0 THEN b ELSE SubSeq(b, 1, e - 1)

ScanWord(q) == FirstWord(SubSeq(Source(q), q.pos + 1, q.len))

\* sys_user_scanf skips to the next NUL; at the end it takes the pipe down, the
\* writing side with the reading side.
Scanned(q) ==
  LET nul == SelectInSubSeq(Source(q), q.pos + 1, BUFSIZE, LAMBDA c : c = NUL)
      pos == IF nul = 0 THEN BUFSIZE + 1 ELSE nul
  IN  IF ~q.stdout_close THEN q
      ELSE IF pos >= q.len
      THEN [q EXCEPT !.stdin_close = FALSE, !.stdout_close = FALSE,
                     !.len = 0, !.pos = 0]
      ELSE [q EXCEPT !.pos = pos]

(***************************************************************************)
(* The children                                                            *)
(***************************************************************************)
Init ==
  /\ pc = "prompt" /\ mode = "launch" /\ resume = "prompt"
  /\ cmds = << >> /\ k = 1 /\ wait_count = 0 /\ mc_cmd_idx = 0 /\ ret = 0
  /\ proc = [s \in Slot |-> [status |-> "FREE", io |-> << >>, hart |-> 0]]
  /\ pid = None
  /\ pipe = [h \in Hart |-> NoPipe]
  /\ machine = "up"
  /\ src = << >> /\ cur = << >> /\ word = None /\ quiet = TRUE

WithStatus(status) == {s \in Slot : proc[s].status = status}

First(S) == CHOOSE s \in S : \A t \in S : s <= t

\* The stage before this one is done and this one has neither scanned nor printed.
ReadsPipe(s) ==
  s = pid /\ mode \in {"stage", "last"} /\ k > 1 /\ word = None /\ cur = << >>

\* A program prints, or scans.
ChildIO(s) ==
  /\ machine = "up" /\ proc[s].status = "READY" /\ proc[s].io # << >>
  /\ proc' = [proc EXCEPT ![s].io = Tail(@)]
  /\ LET op == Head(proc[s].io)
         h  == proc[s].hart
         q  == pipe[h]
     IN
     IF op = Scan
     THEN /\ pipe' = [pipe EXCEPT ![h] = Scanned(q)]
          /\ word' = IF ReadsPipe(s) /\ q.stdout_close THEN ScanWord(q) ELSE word
          /\ UNCHANGED cur
     ELSE /\ pipe' = [pipe EXCEPT ![h] = Printed(q, op)]
          /\ cur' = IF s = pid THEN cur \o op ELSE cur
          /\ UNCHANGED word
  /\ UNCHANGED <<pc, shell, machine, src, quiet>>


\* sys_user_exit wakes the parent if it is blocked, whichever child it waits for.
ChildExit(s) ==
  /\ machine = "up" /\ proc[s].status = "READY" /\ proc[s].io = << >>
  /\ proc' = [proc EXCEPT ![s].status = "ZOMBIE"]
  /\ pc' = IF pc = "blocked" THEN resume ELSE pc
  /\ UNCHANGED <<shell, pipe, machine, history>>

(***************************************************************************)
(* The shell                                                               *)
(***************************************************************************)
At(where) == machine = "up" /\ pc = where

ReadLine(line) ==
  /\ At("prompt")
  /\ pc' = "loop"
  /\ cmds' = Build(line) /\ k' = 1
  /\ wait_count' = 0 /\ mc_cmd_idx' = 0 /\ ret' = 0
  /\ mode' = "launch" /\ pid' = None
  /\ src' = << >> /\ cur' = << >> /\ word' = None
  /\ quiet' = (WithStatus("READY") = {})
  /\ UNCHANGED <<resume, proc, pipe, machine>>

\* The head of exec_command's loop.
Loop ==
  /\ At("loop")
  /\ LET stage == k <= Len(cmds) /\ cmds[k].op_type = "PIPLINE" IN
     /\ pc' = CASE k > Len(cmds)               -> "reap"
                [] k <= Len(cmds) /\ cmds[k].operation = "exit" -> "exited"
                [] OTHER -> IF stage THEN "pipe" ELSE "run"
     /\ mode' = IF stage THEN "stage" ELSE "launch"
  /\ wait_count' = IF k > Len(cmds) THEN wait_count + 1 ELSE wait_count
  /\ UNCHANGED <<resume, cmds, k, mc_cmd_idx, ret, pid, proc, pipe, machine, history>>

\* pipline_write.
OpenPipe ==
  /\ At("pipe")
  /\ pipe' = [pipe EXCEPT ![0] = PipeWrite(@)]
  /\ pc' = "run"
  /\ UNCHANGED <<shell, proc, machine, history>>

\* Only a single command and the stages of a pipe are waited for at once.
Foreground == mode # "launch" \/ (cmds[k].op_type = "EXEC" /\ mc_cmd_idx = 0)

\* Commands after a && go round the harts, the others stay on the shell's.
TargetHart ==
  IF mode = "launch" /\ (cmds[k].op_type = "MULTICORE"
                         \/ (cmds[k].op_type = "EXEC" /\ mc_cmd_idx > 0))
  THEN mc_cmd_idx % NCPU ELSE 0

Kind(op) == IF op \in DOMAIN Programs THEN Programs[op].kind ELSE "unknown"

\* launch_process: fork in the first free slot, without which the kernel panics.
Launch ==
  /\ At("run") /\ Kind(cmds[k].operation) = "exec"
  /\ IF WithStatus("FREE") = {}
     THEN machine' = "panic" /\ UNCHANGED <<pc, proc, pid, ret, quiet>>
     ELSE /\ proc' = [proc EXCEPT ![First(WithStatus("FREE"))] =
                [status |-> "READY", io |-> Programs[cmds[k].operation].io,
                 hart |-> TargetHart]]
          /\ pid' = IF Foreground THEN First(WithStatus("FREE")) ELSE None
          /\ pc' = IF Foreground THEN "wait" ELSE "returned"
          /\ ret' = 0
          /\ quiet' = (quiet /\ Foreground)
          /\ UNCHANGED machine
  /\ UNCHANGED <<mode, resume, cmds, k, wait_count, mc_cmd_idx, pipe, src, cur, word>>

\* Mutant: the shell does not block.
WaitNot ==
  /\ At("wait")
  /\ pc' = "returned"
  /\ UNCHANGED <<shell, proc, pipe, machine, history>>

\* wait(pid) blocks whatever the status of the child is.
Wait ==
  /\ At("wait")
  /\ pc' = "blocked" /\ resume' = "returned"
  /\ UNCHANGED <<mode, cmds, k, wait_count, mc_cmd_idx, ret, pid, proc, pipe,
                 machine, history>>

\* A builtin prints from the shell itself, and so does the error for a command
\* there is not.
RunInShell ==
  /\ At("run") /\ Kind(cmds[k].operation) # "exec"
  /\ LET known == Kind(cmds[k].operation) = "builtin"
         bytes == IF known THEN Programs[cmds[k].operation].io ELSE <<Space>>
     IN
     /\ ret' = IF known THEN 0 ELSE -1
     /\ pipe' = [pipe EXCEPT ![0] = Printed(@, bytes)]
     /\ cur' = cur \o bytes
  /\ pid' = None
  /\ pc' = "returned"
  /\ UNCHANGED <<mode, resume, cmds, k, wait_count, mc_cmd_idx, proc, machine,
                 src, word, quiet>>

\* What exec_command does with the result of a command that is no stage.
LaunchReturned ==
  /\ At("returned") /\ mode = "launch"
  /\ LET type == cmds[k].op_type
         single == type = "EXEC" /\ mc_cmd_idx = 0
     IN
     IF ret # 0 /\ ~single
     THEN pc' = "prompt" /\ UNCHANGED <<k, wait_count, mc_cmd_idx>>
     ELSE /\ pc' = IF type = "EXEC" THEN "reap" ELSE "loop"
          /\ wait_count' = wait_count + (IF single THEN 0 ELSE 1)
                                      + (IF type = "EXEC" THEN 1 ELSE 0)
          /\ mc_cmd_idx' = IF type = "MULTISTART" \/ single THEN mc_cmd_idx
                           ELSE mc_cmd_idx + 1
          /\ k' = k + 1
  /\ UNCHANGED <<mode, resume, cmds, ret, pid, proc, pipe, machine, history>>

\* Mutant: a stage that fails leaves the pipe as it is.
StageFailsLeaves ==
  /\ At("returned") /\ mode = "stage" /\ ret # 0
  /\ pc' = "prompt"
  /\ UNCHANGED <<shell, proc, pipe, machine, history>>

StageFails ==
  /\ At("returned") /\ mode = "stage" /\ ret # 0
  /\ pipe' = [pipe EXCEPT ![0] = PipeReset(@)]
  /\ pc' = "prompt"
  /\ UNCHANGED <<shell, proc, machine, history>>

\* pipline_read, and on to the next command, another stage or the last.
StageDone ==
  /\ At("returned") /\ mode = "stage" /\ ret = 0
  /\ pipe' = [pipe EXCEPT ![0] = PipeRead(@)]
  /\ k' = k + 1
  /\ pc' = IF cmds[k + 1].op_type = "PIPLINE" THEN "pipe" ELSE "run"
  /\ mode' = IF cmds[k + 1].op_type = "PIPLINE" THEN "stage" ELSE "last"
  /\ src' = cur /\ cur' = << >> /\ word' = None
  /\ UNCHANGED <<resume, cmds, wait_count, mc_cmd_idx, ret, pid, proc, machine, quiet>>

LastDone ==
  /\ At("returned") /\ mode = "last"
  /\ pipe' = [pipe EXCEPT ![0] = PipeReset(@)]
  /\ pc' = IF ret # 0 THEN "prompt" ELSE "loop"
  /\ k' = k + 1
  /\ UNCHANGED <<mode, resume, cmds, wait_count, mc_cmd_idx, ret, pid, proc,
                 machine, history>>

\* One wait(-1) of the loop that ends a line: the first child counts.
Reap ==
  /\ At("reap")
  /\ LET children == Slot \ WithStatus("FREE") IN
     IF wait_count = 0 THEN pc' = "prompt" /\ UNCHANGED <<proc, resume, wait_count>>
     ELSE /\ wait_count' = wait_count - 1
          /\ IF children = {} THEN UNCHANGED <<pc, proc, resume>>
             ELSE IF proc[First(children)].status = "ZOMBIE"
             THEN /\ proc' = [proc EXCEPT ![First(children)].status = "FREE"]
                  /\ UNCHANGED <<pc, resume>>
             ELSE /\ pc' = "blocked" /\ resume' = "reap"
                  /\ UNCHANGED proc
  /\ UNCHANGED <<mode, cmds, k, mc_cmd_idx, ret, pid, pipe, machine, history>>

ShellStep ==
  \/ Loop \/ OpenPipe \/ Launch \/ Wait \/ RunInShell
  \/ LaunchReturned \/ StageFails \/ StageDone \/ LastDone \/ Reap

Next ==
  \/ \E line \in Lines : ReadLine(line)
  \/ ShellStep
  \/ \E s \in Slot : ChildIO(s) \/ ChildExit(s)

Spec == Init /\ [][Next]_vars

\* The round robin of Sched lets every process that can run go on; the user may
\* never type another line.
FairSpec ==
  /\ Spec
  /\ WF_vars(ShellStep)
  /\ \A s \in Slot : WF_vars(ChildIO(s) \/ ChildExit(s))

(***************************************************************************)
(* Properties                                                              *)
(***************************************************************************)
TypeOK ==
  /\ pc \in {"prompt", "loop", "pipe", "run", "wait", "blocked", "returned",
             "reap", "exited"}
  /\ \A s \in Slot : /\ proc[s].status \in {"FREE", "READY", "ZOMBIE"}
                     /\ proc[s].hart \in Hart
  /\ \A h \in Hart : /\ pipe[h].len \in 0 .. BUFSIZE
                     /\ pipe[h].pos = 0 \/ pipe[h].pos < pipe[h].len
  /\ pid \in Slot \cup {None} /\ wait_count \in Nat /\ mc_cmd_idx \in Nat

\* Whatever the line was and however it ended, the prompt goes to the console
\* and input comes from it: every path of exec_command that opened a pipe has
\* reset it.
ConsoleRestored ==
  pc = "prompt" => ~pipe[0].stdin_close /\ ~pipe[0].stdout_close

\* The reader of a two-stage pipe is given the first word of what the writer
\* printed, or of as much of it as the buffer holds, when no other job prints
\* or scans on the hart and the reader itself has not printed before: what it
\* prints moves the length that the two sides share.  Length and position
\* stay in the buffer (TypeOK).
PipeDelivers ==
  /\ TypeOK
  /\ quiet /\ k = 2 /\ word # None =>
       word = FirstWord(SubSeq(src, 1, Lesser(Len(src), BUFSIZE)))

\* exec_command never runs off the list: behind a command that ends in | the
\* parser has put another one.
PipeHasReader == pc # "prompt" /\ mode = "stage" => k < Len(cmds)

\* A stage of a pipe starts when the one before it has exited, although wait
\* returns when any child exits: there is no other child then; and it has another one behind it.
StagesInOrder ==
  /\ PipeHasReader
  /\ quiet /\ pc \in {"loop", "pipe", "run", "returned"} => WithStatus("READY") = {}

\* No command of the list is waited for by its pid.
Detached(list) ==
  \A j \in DOMAIN list :
    /\ list[j].op_type # "PIPLINE"
    /\ Kind(list[j].operation) = "exec" /\ list[j].op_type = "EXEC" =>
         \E i \in 1 .. (j - 1) : list[i].op_type = "MULTICORE"

=============================================================================
