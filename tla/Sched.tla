------------------------------- MODULE Sched -------------------------------
(***************************************************************************)
(* Processes on harts: the ready and block queues, schedule() with its     *)
(* shutdown protocol, fork, fork_to, wait, exit, yield and the timer       *)
(* (kernel/sched.c, kernel/process.c, kernel/syscall.c, kernel/strap.c).   *)
(*                                                                         *)
(* Kernel code is never preempted on its own hart, so a hart is at one     *)
(* location pc[h] of one handler.  A step is what a hart does between two  *)
(* accesses to shared memory that another hart can separate: the locked    *)
(* insertion into a ready queue is search, link, finish; the unlocked      *)
(* removal by schedule() is read, store; a block queue, which no lock      *)
(* protects, is searched in one step and changed in another.               *)
(*                                                                         *)
(* The queues are the code's linked lists: a head per hart and one         *)
(* queue_next per process, which ready and block queues share.             *)
(***************************************************************************)
EXTENDS Integers, FiniteSets

CONSTANTS
  NCPU,            \* harts
  NPROC,           \* slots of procs[]
  Argc,            \* programs named on the command line
  TIME_SLICE_LEN,  \* ticks of a time slice
  MaxForks,        \* bound: processes forked in a behaviour
  Syscalls,        \* what user programs do: a subset of AllSyscalls
  NULL

AllSyscalls == {"fork", "fork_to", "wait_any", "wait_pid", "exit", "yield", "timer"}

Hart == 0 .. (NCPU - 1)
Proc == 0 .. (NPROC - 1)

ASSUME SchedAssumption ==
  /\ NCPU \in Nat \ {0}
  /\ NPROC \in Nat /\ NPROC >= NCPU
  /\ Argc \in Nat \ {0}
  /\ TIME_SLICE_LEN \in Nat \ {0}
  /\ MaxForks \in Nat
  /\ Syscalls \subseteq AllSyscalls
  /\ NULL \notin Int

VARIABLES
  status, parent, next, tick,  \* of procs[i]: next is queue_next
  reserved,                    \* g_proc_reserved
  ready, block,                \* ready_queue_head, block_queue_head
  rlock,                       \* g_ready_queue_lock
  current,
  pc,        \* where each hart is; "user": in user mode
  arg,       \* the process the handler works on, besides current
  dst,       \* the queue it works on, or the slot schedule() looks at
  cur,       \* a pointer it has read: list tail, predecessor or successor
  then,      \* where an insertion returns to
  forks,     \* processes forked so far
  exitCount, shutdown,         \* exit_counter, g_should_shutdown
  machine    \* "on"; "off": shutdown(0); "panic", "assert"; "fault": a kernel trap

procs   == <<status, parent, next, tick>>
queues  == <<ready, block, rlock, current>>
control == <<pc, arg, dst, cur, then, forks>>
power   == <<exitCount, shutdown, machine>>
vars    == <<procs, reserved, queues, control, power>>

At(h, l)   == machine = "on" /\ pc[h] = l
Goto(h, l) == pc' = [pc EXCEPT ![h] = l]
Set(f, x, v) == [f EXCEPT ![x] = v]

\* A process is done for schedule() when its slot is FREE or ZOMBIE.
Done(p) == status[p] \in {"FREE", "ZOMBIE"}

\* The processes a traversal from x meets before NULL.
Path(x) ==
  LET step[n \in 0 .. NPROC] == IF n = 0 THEN x
                                ELSE IF step[n - 1] = NULL THEN NULL ELSE next[step[n - 1]]
  IN  {step[n] : n \in 0 .. NPROC} \ {NULL}

\* Its last process; none if the list runs into a cycle.
Last(x) == {p \in Path(x) : next[p] = NULL}

(***************************************************************************)
(* All harts have passed the sched_counter barrier of s_start (module      *)
(* Boot): the first Argc harts have a READY process, the others gave       *)
(* theirs up as ZOMBIE without releasing its slot.                         *)
(***************************************************************************)
Init ==
  /\ status = [p \in Proc |-> IF p >= NCPU THEN "FREE"
                              ELSE IF p < Argc THEN "READY" ELSE "ZOMBIE"]
  /\ parent = [p \in Proc |-> NULL]
  /\ next = [p \in Proc |-> NULL]
  /\ tick = [p \in Proc |-> 0]
  /\ reserved = [p \in Proc |-> p < NCPU /\ p >= Argc]
  /\ ready = [h \in Hart |-> IF h < Argc THEN h ELSE NULL]
  /\ block = [h \in Hart |-> NULL]
  /\ rlock = [h \in Hart |-> FALSE]
  /\ current = [h \in Hart |-> NULL]
  /\ pc = [h \in Hart |-> "sched"]
  /\ arg = [h \in Hart |-> NULL]
  /\ dst = [h \in Hart |-> NULL]
  /\ cur = [h \in Hart |-> NULL]
  /\ then = [h \in Hart |-> NULL]
  /\ forks = 0
  /\ exitCount = 0
  /\ shutdown = FALSE
  /\ machine = "on"

-----------------------------------------------------------------------------
(***************************************************************************)
(* insert_to_specific_ready_queue(arg, dst), after the reservation of the  *)
(* slot has been released by the callers' steps below.                     *)
(***************************************************************************)
Return(h) ==
  /\ Goto(h, then[h])
  /\ arg' = Set(arg, h, NULL)
  /\ dst' = Set(dst, h, NULL)
  /\ cur' = Set(cur, h, NULL)
  /\ then' = Set(then, h, NULL)

MakeReady(p) == status' = Set(status, p, IF status[p] = "ZOMBIE" THEN "ZOMBIE" ELSE "READY")

InsertEmpty(h) ==
  /\ At(h, "insert") /\ ~rlock[dst[h]]
  /\ ready[dst[h]] = NULL
  /\ MakeReady(arg[h])
  /\ next' = Set(next, arg[h], NULL)
  /\ ready' = Set(ready, dst[h], arg[h])
  /\ Return(h)
  /\ UNCHANGED <<parent, tick, reserved, block, rlock, current, forks, power>>

InsertPresent(h) ==
  /\ At(h, "insert") /\ ~rlock[dst[h]]
  /\ arg[h] \in Path(ready[dst[h]])
  /\ Return(h)
  /\ UNCHANGED <<procs, reserved, queues, forks, power>>

\* Mutant: the walk does not take the queue's lock.
InsertWalkUnlocked(h) ==
  /\ At(h, "insert")
  /\ arg[h] \notin Path(ready[dst[h]])
  /\ \E p \in Last(ready[dst[h]]) : cur' = Set(cur, h, p)
  /\ rlock' = Set(rlock, dst[h], TRUE)
  /\ Goto(h, "insert_link")
  /\ UNCHANGED <<procs, reserved, ready, block, current, arg, dst, then, forks, power>>

\* The lock is taken and the list walked to its end.
InsertWalk(h) ==
  /\ At(h, "insert") /\ ~rlock[dst[h]]
  /\ arg[h] \notin Path(ready[dst[h]])
  /\ \E p \in Last(ready[dst[h]]) : cur' = Set(cur, h, p)
  /\ rlock' = Set(rlock, dst[h], TRUE)
  /\ Goto(h, "insert_link")
  /\ UNCHANGED <<procs, reserved, ready, block, current, arg, dst, then, forks, power>>

InsertLink(h) ==
  /\ At(h, "insert_link")
  /\ next' = Set(next, cur[h], arg[h])
  /\ Goto(h, "insert_finish")
  /\ UNCHANGED <<status, parent, tick, reserved, queues, arg, dst, cur, then, forks, power>>

InsertFinish(h) ==
  /\ At(h, "insert_finish")
  /\ MakeReady(arg[h])
  /\ next' = Set(next, arg[h], NULL)
  /\ rlock' = Set(rlock, dst[h], FALSE)
  /\ Return(h)
  /\ UNCHANGED <<parent, tick, reserved, ready, block, current, forks, power>>

-----------------------------------------------------------------------------
(***************************************************************************)
(* do_fork and do_fork_to_hart: alloc_process searches and reserves under  *)
(* g_proc_alloc_lock in one step (no other hart turns a FREE slot into     *)
(* anything else without that lock).  The memory of the child is module    *)
(* Cow's subject.                                                          *)
(***************************************************************************)
Usable(p) == status[p] = "FREE" /\ ~reserved[p]

MayFork(h, t) ==
  /\ At(h, "user") /\ forks < MaxForks
  /\ ("fork" \in Syscalls /\ t = h) \/ "fork_to" \in Syscalls

\* Mutant: alloc_process does not reserve the slot.
ForkUnreserved(h, t) ==
  /\ MayFork(h, t)
  /\ \E c \in Proc :
       /\ Usable(c) /\ \A q \in Proc : q < c => ~Usable(q)
       /\ arg' = Set(arg, h, c)
  /\ dst' = Set(dst, h, t)
  /\ forks' = forks + 1
  /\ Goto(h, "fork_status")
  /\ UNCHANGED <<procs, reserved, queues, cur, then, power>>

Fork(h, t) ==
  /\ MayFork(h, t)
  /\ \E c \in Proc :
       /\ Usable(c) /\ \A q \in Proc : q < c => ~Usable(q)
       /\ reserved' = Set(reserved, c, TRUE)
       /\ arg' = Set(arg, h, c)
  /\ dst' = Set(dst, h, t)
  /\ forks' = forks + 1
  /\ Goto(h, "fork_status")
  /\ UNCHANGED <<procs, queues, cur, then, power>>

ForkPanic(h) ==
  /\ MayFork(h, h)
  /\ \A c \in Proc : ~Usable(c)
  /\ machine' = "panic"
  /\ UNCHANGED <<procs, reserved, queues, control, exitCount, shutdown>>

ForkStatus(h) ==
  /\ At(h, "fork_status")
  /\ status' = Set(status, arg[h], "READY")
  /\ Goto(h, "fork_parent")
  /\ UNCHANGED <<parent, next, tick, reserved, queues, arg, dst, cur, then, forks, power>>

ForkParent(h) ==
  /\ At(h, "fork_parent")
  /\ parent' = Set(parent, arg[h], current[h])
  /\ reserved' = Set(reserved, arg[h], FALSE)
  /\ then' = Set(then, h, "user")
  /\ Goto(h, "insert")
  /\ UNCHANGED <<status, next, tick, queues, arg, dst, cur, forks, power>>

-----------------------------------------------------------------------------

GiveUp(h) ==
  LET p == current[h] IN
  /\ status' = Set(status, p, "READY")
  /\ reserved' = Set(reserved, p, FALSE)
  /\ arg' = Set(arg, h, p)
  /\ dst' = Set(dst, h, h)
  /\ then' = Set(then, h, "sched")
  /\ Goto(h, "insert")
  /\ UNCHANGED <<parent, next, queues, cur, forks, power>>

Yield(h) ==
  /\ "yield" \in Syscalls /\ At(h, "user")
  /\ GiveUp(h)
  /\ UNCHANGED tick

SliceOver(h) == tick[current[h]] + 1 >= TIME_SLICE_LEN

TimerTick(h) ==
  /\ "timer" \in Syscalls /\ At(h, "user") /\ ~SliceOver(h)
  /\ tick' = [tick EXCEPT ![current[h]] = @ + 1]
  /\ UNCHANGED <<status, parent, next, reserved, queues, control, power>>

\* Mutant: the end of a time slice only restarts the count.
TimerSwitchKeeps(h) ==
  /\ "timer" \in Syscalls /\ At(h, "user") /\ SliceOver(h)
  /\ tick' = Set(tick, current[h], 0)
  /\ UNCHANGED <<status, parent, next, reserved, queues, control, power>>

TimerSwitch(h) ==
  /\ "timer" \in Syscalls /\ At(h, "user") /\ SliceOver(h)
  /\ tick' = Set(tick, current[h], 0)
  /\ GiveUp(h)

-----------------------------------------------------------------------------
(***************************************************************************)
(* do_wait.  A call without a child returns -1 and changes nothing.        *)
(***************************************************************************)
Child(p, i) == parent[i] = p /\ status[i] # "FREE"

FirstChild(p, i) == Child(p, i) /\ \A j \in Proc : j < i => ~Child(p, j)

\* wait(-1) looks at the first child only: it reaps it ...
WaitReap(h) ==
  /\ "wait_any" \in Syscalls /\ At(h, "user")
  /\ \E i \in Proc :
       /\ FirstChild(current[h], i) /\ status[i] = "ZOMBIE"
       /\ status' = Set(status, i, "FREE")
  /\ UNCHANGED <<parent, next, tick, reserved, queues, control, power>>

\* ... or waits,
WaitAny(h) ==
  /\ "wait_any" \in Syscalls /\ At(h, "user")
  /\ \E i \in Proc : FirstChild(current[h], i) /\ status[i] # "ZOMBIE"
  /\ Goto(h, "wait_block")
  /\ UNCHANGED <<procs, reserved, queues, arg, dst, cur, then, forks, power>>

\* and wait(pid) waits whatever the status of the child is.
WaitPid(h) ==
  /\ "wait_pid" \in Syscalls /\ At(h, "user")
  /\ \E i \in Proc \ {0} : parent[i] = current[h]
  /\ Goto(h, "wait_block")
  /\ UNCHANGED <<procs, reserved, queues, arg, dst, cur, then, forks, power>>

\* insert_to_block_queue: find the end of the hart's block queue, ...
WaitBlock(h) ==
  /\ At(h, "wait_block")
  /\ status' = Set(status, current[h], "BLOCKED")
  /\ IF block[h] = NULL THEN cur' = Set(cur, h, NULL)
                        ELSE \E p \in Last(block[h]) : cur' = Set(cur, h, p)
  /\ Goto(h, IF current[h] \in Path(block[h]) THEN "sched" ELSE "wait_link")
  /\ UNCHANGED <<parent, next, tick, reserved, queues, arg, dst, then, forks, power>>

\* ... and put the process there.
WaitLink(h) ==
  LET p == current[h] IN
  /\ At(h, "wait_link")
  /\ status' = Set(status, p, "BLOCKED")
  /\ IF cur[h] = NULL
       THEN block' = Set(block, h, p) /\ next' = Set(next, p, NULL)
       ELSE next' = [next EXCEPT ![cur[h]] = p, ![p] = NULL] /\ UNCHANGED block
  /\ cur' = Set(cur, h, NULL)
  /\ Goto(h, "sched")
  /\ UNCHANGED <<parent, tick, reserved, ready, rlock, current, arg, dst, then, forks, power>>

-----------------------------------------------------------------------------
(***************************************************************************)
(* sys_user_exit: look for the parent in every hart's block queue, become  *)
(* ZOMBIE, release the heap (module Cow), make the parent READY.           *)
(***************************************************************************)
\* Mutant: exit does not look for a waiting parent.
ExitUnseen(h) ==
  /\ "exit" \in Syscalls /\ At(h, "user")
  /\ Goto(h, "exit_zombie")
  /\ UNCHANGED <<procs, reserved, queues, arg, dst, cur, then, forks, power>>

Exit(h) ==
  /\ "exit" \in Syscalls /\ At(h, "user")
  /\ dst' = Set(dst, h, 0)
  /\ Goto(h, "exit_scan")
  /\ UNCHANGED <<procs, reserved, queues, arg, cur, then, forks, power>>

\* wake_from_block_queue on the queue of hart dst: not there ...
ExitScanMiss(h) ==
  LET q == block[dst[h]]
      last == dst[h] = NCPU - 1
  IN
  /\ At(h, "exit_scan")
  /\ q = NULL \/ (parent[current[h]] # NULL /\ parent[current[h]] \notin Path(q))
  /\ dst' = Set(dst, h, IF last THEN NULL ELSE dst[h] + 1)
  /\ Goto(h, IF last THEN "exit_zombie" ELSE "exit_scan")
  /\ UNCHANGED <<procs, reserved, queues, arg, cur, then, forks, power>>

\* ... or found, with its predecessor, ...
ExitScanHit(h) ==
  LET q == block[dst[h]]
      p == parent[current[h]]
  IN
  /\ At(h, "exit_scan")
  /\ q # NULL /\ p # NULL /\ p \in Path(q)
  /\ arg' = Set(arg, h, p)
  /\ IF p = q THEN UNCHANGED cur
              ELSE \E r \in Path(q) : next[r] = p /\ cur' = Set(cur, h, r)
  /\ Goto(h, "exit_unlink")
  /\ UNCHANGED <<procs, reserved, queues, dst, then, forks, power>>

\* ... or child_process->parent->pid is read through a NULL parent.
ExitScanFault(h) ==
  /\ At(h, "exit_scan")
  /\ block[dst[h]] # NULL /\ parent[current[h]] = NULL
  /\ machine' = "fault"
  /\ UNCHANGED <<procs, reserved, queues, control, exitCount, shutdown>>

ExitUnlink(h) ==
  LET p == arg[h] IN
  /\ At(h, "exit_unlink")
  /\ IF cur[h] = NULL
       THEN block' = Set(block, dst[h], next[p]) /\ next' = Set(next, p, NULL)
       ELSE next' = [next EXCEPT ![cur[h]] = next[p], ![p] = NULL] /\ UNCHANGED block
  /\ cur' = Set(cur, h, NULL)
  /\ Goto(h, "exit_zombie")
  /\ UNCHANGED <<status, parent, tick, reserved, ready, rlock, current, arg, dst, then, forks, power>>

ExitZombie(h) ==
  /\ At(h, "exit_zombie")
  /\ status' = Set(status, current[h], "ZOMBIE")
  /\ Goto(h, "exit_heap")
  /\ UNCHANGED <<parent, next, tick, reserved, queues, arg, dst, cur, then, forks, power>>

\* The lists, the page table and the heap bounds of the exiting process.
ExitHeap(h) ==
  /\ At(h, "exit_heap")
  /\ Goto(h, IF arg[h] = NULL THEN "sched" ELSE "exit_wake")
  /\ UNCHANGED <<procs, reserved, queues, arg, dst, cur, then, forks, power>>

\* Mutant: the exiting process is woken instead of its parent.
ExitWakeSelf(h) ==
  /\ At(h, "exit_wake")
  /\ status' = Set(status, current[h], "READY")
  /\ Goto(h, "exit_release")
  /\ UNCHANGED <<parent, next, tick, reserved, queues, arg, dst, cur, then, forks, power>>

ExitWake(h) ==
  /\ At(h, "exit_wake")
  /\ status' = Set(status, arg[h], "READY")
  /\ Goto(h, "exit_release")
  /\ UNCHANGED <<parent, next, tick, reserved, queues, arg, dst, cur, then, forks, power>>

ExitRelease(h) ==
  /\ At(h, "exit_release")
  /\ reserved' = Set(reserved, arg[h], FALSE)
  /\ then' = Set(then, h, "sched")
  /\ Goto(h, "insert")
  /\ UNCHANGED <<procs, queues, arg, dst, cur, forks, power>>

-----------------------------------------------------------------------------
(***************************************************************************)
(* schedule()                                                              *)
(***************************************************************************)
SchedTask(h) ==
  /\ At(h, "sched") /\ ~rlock[h] /\ ready[h] # NULL
  /\ Goto(h, "dequeue")
  /\ UNCHANGED <<procs, reserved, queues, arg, dst, cur, then, forks, power>>

SchedEmpty(h) ==
  /\ At(h, "sched") /\ ~rlock[h] /\ ready[h] = NULL
  /\ dst' = Set(dst, h, 0)
  /\ Goto(h, "scan")
  /\ UNCHANGED <<procs, reserved, queues, arg, cur, then, forks, power>>

\* The search of procs[] for a process that has not ended: one is found ...
ScanLive(h) ==
  /\ At(h, "scan") /\ ~Done(dst[h])
  /\ dst' = Set(dst, h, NULL)
  /\ Goto(h, "idle")
  /\ UNCHANGED <<procs, reserved, queues, arg, cur, then, forks, power>>

ScanDone(h) ==
  /\ At(h, "scan") /\ Done(dst[h]) /\ dst[h] < NPROC - 1
  /\ dst' = Set(dst, h, dst[h] + 1)
  /\ UNCHANGED <<procs, reserved, queues, pc, arg, cur, then, forks, power>>

\* ... or none: this hart decides to shut the machine down.
ScanAllDone(h) ==
  /\ At(h, "scan") /\ Done(dst[h]) /\ dst[h] = NPROC - 1
  /\ dst' = Set(dst, h, NULL)
  /\ shutdown' = TRUE
  /\ Goto(h, "arrive_decided")
  /\ UNCHANGED <<procs, reserved, queues, arg, cur, then, forks, exitCount, machine>>

\* The spinning idle loop: a task has come, or the shutdown flag is up.
IdleTask(h) ==
  /\ At(h, "idle") /\ ~shutdown /\ ~rlock[h] /\ ready[h] # NULL
  /\ Goto(h, "idle_recheck")
  /\ UNCHANGED <<procs, reserved, queues, arg, dst, cur, then, forks, power>>

IdleRecheck(h) ==
  /\ At(h, "idle_recheck") /\ ~shutdown
  /\ Goto(h, "dequeue")
  /\ UNCHANGED <<procs, reserved, queues, arg, dst, cur, then, forks, power>>

IdleShutdown(h) ==
  /\ At(h, "idle") \/ At(h, "idle_recheck")
  /\ shutdown
  /\ Goto(h, "arrive_idle")
  /\ UNCHANGED <<procs, reserved, queues, arg, dst, cur, then, forks, power>>

\* sync_barrier(&exit_counter, NCPU)
ExitArrive(h) ==
  /\ At(h, "arrive_decided") \/ At(h, "arrive_idle")
  /\ exitCount' = exitCount + 1
  /\ Goto(h, IF pc[h] = "arrive_decided" THEN "barrier_decided" ELSE "barrier_idle")
  /\ UNCHANGED <<procs, reserved, queues, arg, dst, cur, then, forks, shutdown, machine>>

\* Mutant: hart 0 does not wait for the other harts.
PowerOffAlone(h) ==
  /\ At(h, "barrier_decided") /\ h = 0
  /\ machine' = "off"
  /\ UNCHANGED <<procs, reserved, queues, control, exitCount, shutdown>>

\* Mutant: hart 0 waits for one hart more than there are.
PowerOffLate(h) ==
  /\ At(h, "barrier_decided") /\ exitCount > NCPU /\ h = 0
  /\ machine' = "off"
  /\ UNCHANGED <<procs, reserved, queues, control, exitCount, shutdown>>

\* Behind it hart 0 powers off, if it is there by its own decision ...
PowerOff(h) ==
  /\ At(h, "barrier_decided") /\ exitCount >= NCPU /\ h = 0
  /\ machine' = "off"
  /\ UNCHANGED <<procs, reserved, queues, control, exitCount, shutdown>>

\* ... and everybody else spins.
Spin(h) ==
  /\ \/ At(h, "barrier_decided") /\ h # 0
     \/ At(h, "barrier_idle")
  /\ exitCount >= NCPU
  /\ Goto(h, "spin")
  /\ UNCHANGED <<procs, reserved, queues, arg, dst, cur, then, forks, power>>

\* The removal of the head, without the lock: read it and its successor, ...
Dequeue(h) ==
  /\ At(h, "dequeue") /\ ready[h] # NULL
  /\ status[ready[h]] = "READY"
  /\ current' = Set(current, h, ready[h])
  /\ cur' = Set(cur, h, next[ready[h]])
  /\ Goto(h, "switch")
  /\ UNCHANGED <<procs, reserved, ready, block, rlock, arg, dst, then, forks, power>>

\* (the assertion current->status == READY, and a NULL head)
DequeueFails(h) ==
  /\ At(h, "dequeue")
  /\ machine' = IF ready[h] = NULL THEN "fault"
                ELSE IF status[ready[h]] # "READY" THEN "assert" ELSE "on"
  /\ machine' # "on"
  /\ UNCHANGED <<procs, reserved, queues, control, exitCount, shutdown>>

\* Mutant: the process stays at the head of the queue.
SwitchKeepsHead(h) ==
  /\ At(h, "switch")
  /\ status' = Set(status, current[h], "RUNNING")
  /\ cur' = Set(cur, h, NULL)
  /\ Goto(h, "user")
  /\ UNCHANGED <<parent, next, tick, reserved, queues, arg, dst, then, forks, power>>

\* ... store the successor, and run the process.
Switch(h) ==
  /\ At(h, "switch")
  /\ ready' = Set(ready, h, cur[h])
  /\ status' = Set(status, current[h], "RUNNING")
  /\ cur' = Set(cur, h, NULL)
  /\ Goto(h, "user")
  /\ UNCHANGED <<parent, next, tick, reserved, block, rlock, current, arg, dst, then, forks, power>>

-----------------------------------------------------------------------------
Syscall(h) ==
  \/ \E t \in Hart : Fork(h, t)
  \/ ForkPanic(h)
  \/ Yield(h) \/ WaitReap(h) \/ WaitAny(h) \/ WaitPid(h) \/ Exit(h)

Timer(h) == TimerTick(h) \/ TimerSwitch(h)

Kernel(h) ==
  \/ InsertEmpty(h) \/ InsertPresent(h) \/ InsertWalk(h) \/ InsertLink(h) \/ InsertFinish(h)
  \/ ForkStatus(h) \/ ForkParent(h)
  \/ WaitBlock(h) \/ WaitLink(h)
  \/ ExitScanMiss(h) \/ ExitScanHit(h) \/ ExitScanFault(h) \/ ExitUnlink(h)
  \/ ExitZombie(h) \/ ExitHeap(h) \/ ExitWake(h) \/ ExitRelease(h)
  \/ SchedTask(h) \/ SchedEmpty(h) \/ ScanLive(h) \/ ScanDone(h) \/ ScanAllDone(h)
  \/ IdleTask(h) \/ IdleRecheck(h) \/ IdleShutdown(h)
  \/ ExitArrive(h) \/ PowerOff(h) \/ Spin(h)
  \/ Dequeue(h) \/ DequeueFails(h) \/ Switch(h)

Next == \E h \in Hart : Syscall(h) \/ Timer(h) \/ Kernel(h)

Spec == Init /\ [][Next]_vars

\* A hart never stops on its own.  A timer interrupt that becomes pending in
\* the kernel is taken at the return to user mode.
FairSpec == Spec /\ \A h \in Hart : WF_vars(Kernel(h)) /\ SF_vars(Timer(h))

-----------------------------------------------------------------------------
Statuses == {"FREE", "READY", "RUNNING", "BLOCKED", "ZOMBIE"}

\* Every variable keeps the range of its C counterpart.
TypeOK ==
  /\ status \in [Proc -> Statuses]
  /\ parent \in [Proc -> Proc \cup {NULL}]
  /\ next \in [Proc -> Proc \cup {NULL}]
  /\ tick \in [Proc -> 0 .. (TIME_SLICE_LEN - 1)]
  /\ reserved \in [Proc -> BOOLEAN]
  /\ ready \in [Hart -> Proc \cup {NULL}]
  /\ block \in [Hart -> Proc \cup {NULL}]
  /\ rlock \in [Hart -> BOOLEAN]
  /\ current \in [Hart -> Proc \cup {NULL}]
  /\ arg \in [Hart -> Proc \cup {NULL}]
  /\ cur \in [Hart -> Proc \cup {NULL}]
  /\ forks \in 0 .. MaxForks
  /\ exitCount \in 0 .. NCPU
  /\ shutdown \in BOOLEAN
  /\ machine \in {"on", "off", "panic", "assert", "fault"}

\* A process that is READY is in the ready queue of a hart, or on its way into
\* one or out of one: schedule() will find it.
InTransit(p) ==
  \E h \in Hart :
    \/ arg[h] = p /\ pc[h] \in {"fork_parent", "exit_release", "insert", "insert_link", "insert_finish"}
    \/ current[h] = p /\ pc[h] = "switch"

ReadyIsQueued ==
  \A p \in Proc : status[p] = "READY" =>
    InTransit(p) \/ \E h \in Hart : p \in Path(ready[h])

\* A BLOCKED process is in a block queue, or on its way into one or out of one:
\* the exit of a child will find it.
BlockedIsQueued ==
  \A p \in Proc : status[p] = "BLOCKED" =>
    \/ \E h \in Hart : p \in Path(block[h])
    \/ \E h \in Hart : \/ current[h] = p /\ pc[h] = "wait_link"
                       \/ arg[h] = p /\ pc[h] \in {"exit_zombie", "exit_heap", "exit_wake"}

\* Outside an insertion's critical section the ready and the block queues,
\* which share queue_next, have no process in common and no cycle.
QueuesDisjoint ==
  (\A h \in Hart : ~rlock[h]) =>
    /\ \A h, k \in Hart : Path(ready[h]) \cap Path(block[k]) = {}
    /\ \A h \in Hart : /\ ready[h] # NULL => Last(ready[h]) # {}
                       /\ block[h] # NULL => Last(block[h]) # {}


\* A process that waits in a block queue has a child whose exit is still to
\* come and will find it there.
WaiterHasChild ==
  \A h \in Hart : \A p \in Path(block[h]) :
    \E c \in Proc : parent[c] = p /\ ~Done(c)

\* Only the processes the harts execute are RUNNING, each on one hart.
RunningIsCurrent ==
  \A h \in Hart : pc[h] = "user" =>
    /\ status[current[h]] = "RUNNING"
    /\ \A k \in Hart \ {h} : pc[k] = "user" => current[k] # current[h]

\* While fork builds a child in a slot no other fork works on that slot.
BuildExclusive ==
  \A h, k \in Hart :
    h # k /\ pc[h] \in {"fork_status", "fork_parent"} /\ pc[k] \in {"fork_status", "fork_parent"}
      => arg[h] # arg[k]

\* A hart in exit still uses its process: the slot is not FREE for reuse.
ExitOwnsSlot ==
  \A h \in Hart : pc[h] \in {"exit_heap", "exit_wake", "exit_release"} =>
    status[current[h]] = "ZOMBIE"

\* The machine is switched off, or decided to be, only when no process is left.
ShutdownWhenDone == shutdown => \A p \in Proc : Done(p)

\* shutdown(0) is called with every hart at the exit barrier or behind it: no
\* process is running then.
OffAtBarrier ==
  machine = "off" => \A h \in Hart : pc[h] \in {"barrier_decided", "barrier_idle", "spin"}

\* Two harts are never in the critical section of one ready queue, and the
\* lock is held while one is: insertions do not lose each other's link.
InSection(h) == pc[h] \in {"insert_link", "insert_finish"}

LockedByOne ==
  /\ \A h \in Hart : InSection(h) => rlock[dst[h]]
  /\ \A h, k \in Hart : h # k /\ InSection(h) /\ InSection(k) => dst[h] # dst[k]

(***************************************************************************)
(* The inductive invariant behind OffAtBarrier and LockedByOne: where a    *)
(* handler's registers are in use, and what the exit barrier has counted.  *)
(***************************************************************************)
Inserting == {"insert", "insert_link", "insert_finish"}
AtBarrier == {"barrier_decided", "barrier_idle", "spin"}
WithArg   == Inserting \cup {"fork_status", "fork_parent", "exit_unlink", "exit_zombie",
                             "exit_heap", "exit_wake", "exit_release"}
WithQueue == WithArg \ {"exit_zombie", "exit_heap"}
Locations == WithArg \cup AtBarrier \cup
             {"user", "wait_block", "wait_link", "exit_scan", "sched", "scan", "idle",
              "idle_recheck", "arrive_decided", "arrive_idle", "dequeue", "switch"}

ControlInv ==
  /\ pc \in [Hart -> Locations]
  /\ dst = [h \in Hart |-> dst[h]]
  /\ arg = [h \in Hart |-> arg[h]]
  /\ then = [h \in Hart |-> then[h]]
  /\ rlock \in [Hart -> BOOLEAN]
  /\ \A h \in Hart :
       /\ pc[h] \in Inserting => then[h] \in {"user", "sched"}
       /\ pc[h] \notin WithArg => arg[h] = NULL
       /\ pc[h] \in WithQueue \cup {"exit_scan"} => dst[h] \in Hart
       /\ pc[h] \in {"exit_zombie", "exit_heap"} /\ arg[h] # NULL => dst[h] \in Hart

BarrierInv ==
  /\ exitCount = Cardinality({h \in Hart : pc[h] \in AtBarrier})
  /\ machine = "off" => exitCount >= NCPU

SchedInv == ControlInv /\ BarrierInv /\ LockedByOne

(***************************************************************************)
(* The inductive invariant behind HeadIsReady and RunningIsCurrent, of     *)
(* programs that do not wait.  A process runs on the hart home[p] it was   *)
(* forked to; home is not a variable, the invariant says there is one.     *)
(***************************************************************************)
Waitless == Syscalls \cap {"wait_any", "wait_pid"} = {}

\* The handler of h has process arg[h] on its way into a queue.
Moving(h) == pc[h] \in Inserting \cup {"fork_status", "fork_parent"}

\* The handler of h was entered from the process it returns to or ends.
Serving(h) ==
  \/ pc[h] \in {"user", "fork_status", "fork_parent", "exit_scan", "exit_zombie"}
  \/ pc[h] \in Inserting /\ then[h] = "user"

\* schedule() has seen that the queue is not empty.
Taking(h) == pc[h] \in {"idle_recheck", "dequeue", "switch"}

\* A pointer may lead to it: into a queue it is put last, or at its end.
Linked(p) ==
  status[p] = "READY" /\ \A h \in Hart : Moving(h) /\ arg[h] = p => pc[h] = "insert_finish"

\* Its own queue_next counts.
Settled(p) == status[p] = "READY" /\ \A h \in Hart : Moving(h) => arg[h] # p

MovingInv(home) ==
  \A h \in Hart : Moving(h) =>
    /\ arg[h] \in Proc /\ home[arg[h]] = dst[h]
    /\ status[arg[h]] = IF pc[h] = "fork_status" THEN "FREE" ELSE "READY"
    /\ pc[h] \in {"fork_status", "fork_parent"} => reserved[arg[h]]
    /\ \A k \in Hart \ {h} : Moving(k) => arg[k] # arg[h]
    /\ pc[h] = "insert_link" =>
         /\ cur[h] \in Proc /\ home[cur[h]] = dst[h]
         /\ status[cur[h]] # "FREE" /\ next[cur[h]] = NULL

ServingInv(home) ==
  \A h \in Hart : Serving(h) =>
    current[h] \in Proc /\ status[current[h]] = "RUNNING" /\ home[current[h]] = h

HeadInv(home) ==
  \A h \in Hart :
    /\ ready[h] # NULL => ready[h] \in Proc /\ Linked(ready[h]) /\ home[ready[h]] = h
    /\ Taking(h) => ready[h] # NULL /\ Settled(ready[h])
    /\ pc[h] = "switch" => current[h] = ready[h] /\ cur[h] \in {NULL, next[ready[h]]}

LinkInv(home) ==
  \A p \in Proc : Settled(p) /\ next[p] # NULL =>
    /\ next[p] \in Proc /\ Linked(next[p]) /\ home[next[p]] = home[p]
    /\ \A h \in Hart : ready[h] # next[p]
    /\ \A q \in Proc \ {p} : Settled(q) => next[q] # next[p]

NoWaiter ==
  /\ \A h \in Hart :
       /\ block[h] = NULL
       /\ pc[h] \notin {"wait_block", "wait_link", "exit_unlink", "exit_wake", "exit_release"}
       /\ pc[h] \in {"exit_zombie", "exit_heap"} => arg[h] = NULL
  /\ machine \notin {"assert", "fault"}

RunTypes ==
  /\ status \in [Proc -> Statuses] /\ next \in [Proc -> Proc \cup {NULL}]
  /\ reserved \in [Proc -> BOOLEAN]
  /\ ready \in [Hart -> Proc \cup {NULL}] /\ block \in [Hart -> Proc \cup {NULL}]
  /\ current \in [Hart -> Proc \cup {NULL}] /\ cur \in [Hart -> Proc \cup {NULL}]

RunInv(home) ==
  RunTypes /\ NoWaiter /\ MovingInv(home) /\ ServingInv(home) /\ HeadInv(home) /\ LinkInv(home)

EachHasHome == \E home \in [Proc -> Hart] : RunInv(home)

\* The assertion of schedule() that the head of the queue is READY holds.
HeadIsReady == machine # "assert"

\* No trap is ever taken from supervisor mode.
NoKernelFault == machine # "fault"

\* A process that ended stays ended until its slot is given back.
ZombieStays == [][\A p \in Proc : status[p] = "ZOMBIE" => status'[p] \in {"ZOMBIE", "FREE"}]_vars

\* Round robin: a READY process runs eventually, unless the machine stops.
NoStarvation ==
  \A p \in Proc : status[p] = "READY" ~> (status[p] = "RUNNING" \/ machine # "on")

\* When all processes have ended the machine is switched off.
PowersOff == (\A p \in Proc : Done(p)) ~> (machine # "on")
=============================================================================
