-------------------------------- MODULE Boot --------------------------------
(***************************************************************************)
(* The start of all harts: m_start (kernel/machine/minit.c), s_start and   *)
(* load_user_program (kernel/kernel.c), alloc_process and the release of   *)
(* its slot reservation (kernel/process.c), and the first insertion in a   *)
(* ready queue (kernel/sched.c), down to the call of schedule().           *)
(*                                                                         *)
(* Harts run these functions concurrently.  Hart 0 alone initialises the   *)
(* shared subsystems; three single-use barriers (sync_barrier) order the   *)
(* others behind it.  A spin-locked section that only touches what its     *)
(* lock protects is one step; alloc_process also reads status, which its   *)
(* lock does not protect, so its search and its reservation are two.       *)
(***************************************************************************)
EXTENDS Integers, FiniteSets

CONSTANTS
  NCPU,    \* harts
  NPROC,   \* slots of procs[]
  Argc,    \* programs named on the command line
  NoSlot

ASSUME BootAssumption ==
  /\ NCPU \in Nat \ {0}
  /\ NPROC \in Nat
  /\ Argc \in Nat \ {0}
  /\ NoSlot \notin 0 .. (NPROC - 1)

Hart == 0 .. (NCPU - 1)
Slot == 0 .. (NPROC - 1)
Barriers == {"m_counter", "s_counter", "sched_counter"}
Subsystems == {"spike_file", "htif", "pmm", "kern_vm", "proc_pool", "fs", "sem_pool"}

VARIABLES
  pc,        \* where each hart is
  counter,   \* the barriers' counters
  up,        \* subsystems hart 0 has initialised
  status,    \* procs[i].status
  reserved,  \* g_proc_reserved
  lock,      \* g_proc_alloc_lock is held
  mine,      \* the slot alloc_process gave the hart
  queue,     \* ready_queue_head[h]: the hart's first process
  panicked

slots == <<status, reserved, lock, mine, queue>>
vars  == <<pc, counter, up, slots, panicked>>

Goto(h, l) == pc' = [pc EXCEPT ![h] = l]
At(h, l)   == pc[h] = l /\ ~panicked

Init ==
  /\ pc = [h \in Hart |-> IF h = 0 THEN "m_init" ELSE "m_arrive"]
  /\ counter = [b \in Barriers |-> 0]
  /\ up = {}
  /\ status = [i \in Slot |-> "FREE"]
  /\ reserved = [i \in Slot |-> FALSE]
  /\ lock = FALSE
  /\ mine = [h \in Hart |-> NoSlot]
  /\ queue = [h \in Hart |-> NoSlot]
  /\ panicked = FALSE

-----------------------------------------------------------------------------
(***************************************************************************)
(* sync_barrier: amoadd, then spin until the counter reaches NCPU.  The    *)
(* hart whose amoadd completes the count does not spin.                    *)
(***************************************************************************)

\* Mutant: the barrier opens one hart early.
ArriveEarly(h, from, b, wait, to) ==
  /\ At(h, from)
  /\ counter' = [counter EXCEPT ![b] = @ + 1]
  /\ Goto(h, IF counter[b] + 2 < NCPU THEN wait ELSE to)
  /\ UNCHANGED <<up, slots, panicked>>

Arrive(h, from, b, wait, to) ==
  /\ At(h, from)
  /\ counter' = [counter EXCEPT ![b] = @ + 1]
  /\ Goto(h, IF counter[b] + 1 < NCPU THEN wait ELSE to)
  /\ UNCHANGED <<up, slots, panicked>>

\* Mutant: the spin waits for one hart more than there are.
LeaveLate(h, b, wait, to) ==
  /\ At(h, wait)
  /\ counter[b] > NCPU
  /\ Goto(h, to)
  /\ UNCHANGED <<counter, up, slots, panicked>>

Leave(h, b, wait, to) ==
  /\ At(h, wait)
  /\ counter[b] >= NCPU
  /\ Goto(h, to)
  /\ UNCHANGED <<counter, up, slots, panicked>>

-----------------------------------------------------------------------------
(***************************************************************************)
(* Machine mode.  Hart 0: spike_file_init, init_dtb; the others go to the  *)
(* barrier at once.                                                        *)
(***************************************************************************)
MInit(h) ==
  /\ At(h, "m_init")
  /\ up' = up \cup {"spike_file", "htif"}
  /\ Goto(h, "m_arrive")
  /\ UNCHANGED <<counter, slots, panicked>>

MArrive(h) == Arrive(h, "m_arrive", "m_counter", "m_wait", "s_start")
MLeave(h)  == Leave(h, "m_counter", "m_wait", "s_start")

(***************************************************************************)
(* Supervisor mode: hart 0 initialises, all meet at s_counter.             *)
(***************************************************************************)
SOther(h) ==
  /\ At(h, "s_start") /\ h # 0
  /\ Goto(h, "s_arrive")
  /\ UNCHANGED <<counter, up, slots, panicked>>

SInitMemory(h) ==
  /\ At(h, "s_start") /\ h = 0
  /\ up' = up \cup {"pmm", "kern_vm"}
  /\ Goto(h, "s_procs")
  /\ UNCHANGED <<counter, slots, panicked>>

\* init_proc_pool clears procs[] and g_proc_reserved.
SInitProcs(h) ==
  /\ At(h, "s_procs")
  /\ up' = up \cup {"proc_pool"}
  /\ status' = [i \in Slot |-> "FREE"]
  /\ reserved' = [i \in Slot |-> FALSE]
  /\ Goto(h, "s_fs")
  /\ UNCHANGED <<counter, lock, mine, queue, panicked>>

SInitFs(h) ==
  /\ At(h, "s_fs")
  /\ up' = up \cup {"fs", "sem_pool"}
  /\ Goto(h, "s_arrive")
  /\ UNCHANGED <<counter, slots, panicked>>

SArrive(h) == Arrive(h, "s_arrive", "s_counter", "s_wait", "alloc")
SLeave(h)  == Leave(h, "s_counter", "s_wait", "alloc")

-----------------------------------------------------------------------------
(***************************************************************************)
(* load_user_program: alloc_process, then the ELF file or ZOMBIE.          *)
(***************************************************************************)
Usable(i) == status[i] = "FREE" /\ ~reserved[i]

FirstUsable(i) == Usable(i) /\ \A j \in Slot : j < i => ~Usable(j)

\* Mutant: the search does not take g_proc_alloc_lock.
AllocSearchUnlocked(h) ==
  /\ At(h, "alloc")
  /\ \E i \in Slot : FirstUsable(i) /\ mine' = [mine EXCEPT ![h] = i]
  /\ lock' = TRUE
  /\ Goto(h, "alloc_reserve")
  /\ UNCHANGED <<counter, up, status, reserved, queue, panicked>>

\* The lock is taken and the first slot that is FREE and not reserved found.
AllocSearch(h) ==
  /\ At(h, "alloc") /\ ~lock
  /\ \E i \in Slot : FirstUsable(i) /\ mine' = [mine EXCEPT ![h] = i]
  /\ lock' = TRUE
  /\ Goto(h, "alloc_reserve")
  /\ UNCHANGED <<counter, up, status, reserved, queue, panicked>>

AllocPanic(h) ==
  /\ At(h, "alloc") /\ ~lock
  /\ \A i \in Slot : ~Usable(i)
  /\ panicked' = TRUE
  /\ UNCHANGED <<pc, counter, up, slots>>

AllocReserve(h) ==
  /\ At(h, "alloc_reserve")
  /\ reserved' = [reserved EXCEPT ![mine[h]] = TRUE]
  /\ lock' = FALSE
  /\ Goto(h, "load")
  /\ UNCHANGED <<counter, up, status, mine, queue, panicked>>

\* A hart with a program on the command line reads it; a file that cannot be
\* opened, or is no ELF file, panics.
Load(h) ==
  /\ At(h, "load") /\ h < Argc
  /\ Goto(h, "loaded")
  /\ UNCHANGED <<counter, up, slots, panicked>>

LoadPanic(h) ==
  /\ At(h, "load") /\ h < Argc
  /\ panicked' = TRUE
  /\ UNCHANGED <<pc, counter, up, slots>>

LoadNothing(h) ==
  /\ At(h, "load") /\ ~(h < Argc)
  /\ status' = [status EXCEPT ![mine[h]] = "ZOMBIE"]
  /\ Goto(h, "loaded")
  /\ UNCHANGED <<counter, up, reserved, lock, mine, queue, panicked>>

\* s_start: a ZOMBIE is handed to free_process, anything else is queued.
FreeZombie(h) ==
  /\ At(h, "loaded") /\ status[mine[h]] = "ZOMBIE"
  /\ Goto(h, "sched_arrive")
  /\ UNCHANGED <<counter, up, slots, panicked>>

\* insert_to_specific_ready_queue first releases the reservation ...
Release(h) ==
  /\ At(h, "loaded") /\ status[mine[h]] # "ZOMBIE" /\ ~lock
  /\ reserved' = [reserved EXCEPT ![mine[h]] = FALSE]
  /\ Goto(h, "insert")
  /\ UNCHANGED <<counter, up, status, lock, mine, queue, panicked>>

\* ... and only then, under the hart's queue lock, makes the process READY.
Insert(h) ==
  /\ At(h, "insert")
  /\ status' = [status EXCEPT ![mine[h]] = IF @ = "ZOMBIE" THEN @ ELSE "READY"]
  /\ queue' = [queue EXCEPT ![h] = mine[h]]
  /\ Goto(h, "sched_arrive")
  /\ UNCHANGED <<counter, up, reserved, lock, mine, panicked>>

\* Mutant: the last barrier reuses the counter of the one before.
SchedArriveReused(h) == Arrive(h, "sched_arrive", "s_counter", "sched_wait", "schedule")

SchedArrive(h) == Arrive(h, "sched_arrive", "sched_counter", "sched_wait", "schedule")
SchedLeave(h)  == Leave(h, "sched_counter", "sched_wait", "schedule")

-----------------------------------------------------------------------------
Step(h) ==
  \/ MInit(h) \/ MArrive(h) \/ MLeave(h)
  \/ SOther(h) \/ SInitMemory(h) \/ SInitProcs(h) \/ SInitFs(h)
  \/ SArrive(h) \/ SLeave(h)
  \/ AllocSearch(h) \/ AllocPanic(h) \/ AllocReserve(h)
  \/ Load(h) \/ LoadPanic(h) \/ LoadNothing(h)
  \/ FreeZombie(h) \/ Release(h) \/ Insert(h)
  \/ SchedArrive(h) \/ SchedLeave(h)

Next == \E h \in Hart : Step(h)

Spec == Init /\ [][Next]_vars

\* Harts are hardware threads: none stops on its own.
FairSpec == Spec /\ \A h \in Hart : WF_vars(Step(h))

-----------------------------------------------------------------------------
Locations ==
  {"m_init", "m_arrive", "m_wait", "s_start", "s_procs", "s_fs", "s_arrive",
   "s_wait", "alloc", "alloc_reserve", "load", "loaded", "insert",
   "sched_arrive", "sched_wait", "schedule"}

\* Where a hart is before the amoadd of a barrier, and behind the barrier.
BeforeM     == {"m_init", "m_arrive"}
BeforeS     == BeforeM \cup {"m_wait", "s_start", "s_procs", "s_fs", "s_arrive"}
BeforeSched == Locations \ {"sched_wait", "schedule"}
BehindS     == Locations \ (BeforeS \cup {"s_wait"})

\* Between the reservation of its slot and the release of the reservation.
Building == {"load", "loaded"}

\* Every variable keeps the range of its C counterpart.
TypeOK ==
  /\ pc \in [Hart -> Locations]
  /\ counter \in [Barriers -> Nat]
  /\ up \subseteq Subsystems
  /\ status \in [Slot -> {"FREE", "READY", "ZOMBIE"}]
  /\ reserved \in [Slot -> BOOLEAN]
  /\ lock \in BOOLEAN
  /\ mine \in [Hart -> Slot \cup {NoSlot}]
  /\ queue \in [Hart -> Slot \cup {NoSlot}]
  /\ panicked \in BOOLEAN

\* No hart allocates a process, or does anything behind the s_counter barrier
\* of s_start, before hart 0 has initialised every shared subsystem.
InitBeforeUse == \A h \in Hart : pc[h] \in BehindS => up = Subsystems

\* No hart enters schedule(), where it may conclude that all processes have
\* ended, before every other hart has queued its first process or given it up.
ScheduleAfterLoad ==
  \A h, k \in Hart : pc[h] = "schedule" => pc[k] \notin BeforeSched

\* While a hart builds the process in the slot alloc_process gave it, no other
\* hart builds one in the same slot.
BuildExclusive ==
  \A h, k \in Hart :
    h # k /\ pc[h] \in Building /\ pc[k] \in Building => mine[h] # mine[k]

(***************************************************************************)
(* The inductive invariant.  A barrier's counter is the number of harts    *)
(* past its amoadd, and a hart behind the barrier shows the count full.    *)
(***************************************************************************)
Past(before) == {h \in Hart : pc[h] \notin before}

CountInv ==
  /\ counter["m_counter"] = Cardinality(Past(BeforeM))
  /\ counter["s_counter"] = Cardinality(Past(BeforeS))
  /\ counter["sched_counter"] = Cardinality(Past(BeforeSched))

OpenInv ==
  \A h \in Hart :
    /\ pc[h] \notin BeforeM \cup {"m_wait"} => counter["m_counter"] >= NCPU
    /\ pc[h] \in BehindS => counter["s_counter"] >= NCPU
    /\ pc[h] = "schedule" => counter["sched_counter"] >= NCPU

\* How far hart 0 has come tells what is initialised; only it initialises.
UpInv ==
  /\ \A h \in Hart \ {0} : pc[h] \notin {"m_init", "s_procs", "s_fs"}
  /\ pc[0] # "m_init" => {"spike_file", "htif"} \subseteq up
  /\ pc[0] \in {"s_procs", "s_fs"} => {"pmm", "kern_vm"} \subseteq up
  /\ pc[0] = "s_fs" => "proc_pool" \in up
  /\ pc[0] \notin BeforeS \/ pc[0] = "s_arrive" => up = Subsystems

\* g_proc_alloc_lock is held by the one hart between search and reservation,
\* whose slot nobody has reserved; a hart building a process has its own.
SlotInv ==
  /\ \A h \in Hart : pc[h] = "alloc_reserve" => lock /\ mine[h] \in Slot /\ ~reserved[mine[h]]
  /\ \A h, k \in Hart : pc[h] = "alloc_reserve" /\ pc[k] = "alloc_reserve" => h = k
  /\ \A h \in Hart : pc[h] \in Building => mine[h] \in Slot /\ reserved[mine[h]]
  /\ \A h \in Hart : pc[h] = "insert" => mine[h] \in Slot
  /\ BuildExclusive

BootInv == TypeOK /\ CountInv /\ OpenInv /\ UpInv /\ SlotInv

\* Every hart gets to schedule(), unless a hart panics first: the barriers and
\* the allocation lock never leave a hart behind.
AllScheduled == <>(panicked \/ \A h \in Hart : pc[h] = "schedule")

\* "Reserve this slot immediately so other harts cannot pick the same process"
\* (alloc_process): two harts never end up with the same slot.
SlotsDistinct ==
  \A h, k \in Hart :
    h # k /\ mine[h] # NoSlot /\ mine[k] # NoSlot => mine[h] # mine[k]
=============================================================================
