----------------------------- MODULE Semaphore -----------------------------
(***************************************************************************)
(* The kernel's semaphores (kernel/semaphore.c and the sem_ system calls   *)
(* of kernel/syscall.c) with the harts and processes that use them.        *)
(*                                                                         *)
(* The kernel learns its hart's number from register tp, and a return to   *)
(* user mode loads tp from the process's trapframe.  So a handler on hart  *)
(* h acts as hart Me(h), the home of the process it last switched to, and  *)
(* works for current[Me(h)].                                               *)
(*                                                                         *)
(* A ready queue is a sequence changed in one step: module Sched looks     *)
(* into its linked list.  No program frees a semaphore (free_semaphore has *)
(* no caller).  Programs use a semaphore once sem_new has returned its id. *)
(***************************************************************************)
EXTENDS Integers, Sequences, Functions

CONSTANTS
  NCPU,
  NSEMAPHORE,  \* slots of semaphores[]
  Proc,        \* the processes, one of which each hart runs at a time
  Home,        \* tp in the trapframe of each process: the hart it was made for
  InitReady,   \* the ready queues when the harts start to schedule
  InitVals,    \* initial values the programs ask for
  Pinned,      \* programs share a semaphore only with processes of their hart
  MaxNew,      \* bound: calls of sem_new
  MaxValue,    \* bound: value of a semaphore
  NULL

Hart == 0 .. (NCPU - 1)
Slot == 0 .. (NSEMAPHORE - 1)

ASSUME SemaphoreAssumption ==
  /\ NCPU \in Nat \ {0}
  /\ NSEMAPHORE \in Nat \ {0}
  /\ Home \in [Proc -> Hart]
  /\ InitVals \subseteq Int
  /\ Pinned \in BOOLEAN
  /\ MaxNew \in Nat /\ MaxValue \in Nat
  /\ NULL \notin Int \cup Proc

\* A process is in the ready queue of its hart, once.
ASSUME ReadyAssumption ==
  /\ InitReady \in [Hart -> Seq(Proc)]
  /\ \A h \in Hart :
       IsInjective(InitReady[h]) /\ Range(InitReady[h]) = {p \in Proc : Home[p] = h}

VARIABLES
  nextId,   \* g_next_semaphore_id
  semId,    \* sem_id of each slot; -1: SEM_FREE
  value,
  queue,    \* proc_queue_head: the processes waiting
  semLock,  \* g_semaphore_lock
  known,    \* slots whose sem_new has returned, so that programs may use them
  maker,    \* the hart each of them was created on
  born,     \* and its initial value
  status,
  ready,    \* ready_queue_head
  current,
  on,       \* the process each hart last switched to: its registers
  pc,       \* where each hart is; "user": in user mode
  id, slot, woken,  \* locals of the handlers
  machine   \* "on" or "panic"

sems   == <<nextId, semId, value, queue, known, maker, born>>
procs  == <<status, ready, current>>
locals == <<id, slot, woken>>
vars   == <<sems, semLock, procs, on, pc, locals, machine>>

Me(h) == IF on[h] = NULL THEN h ELSE Home[on[h]]
This(h) == current[Me(h)]

At(h, l)     == machine = "on" /\ pc[h] = l
Goto(h, l)   == pc' = [pc EXCEPT ![h] = l]
Set(f, x, v) == [f EXCEPT ![x] = v]

\* The end of smode_trap_handler: switch_to(current[hartid]).
Return(h) == Goto(h, "user") /\ on' = Set(on, h, This(h))

\* Harts are about to schedule; init_semaphore_pool has run.
Init ==
  /\ nextId = 0
  /\ semId = [i \in Slot |-> -1]
  /\ value = [i \in Slot |-> -1]
  /\ queue = [i \in Slot |-> <<>>]
  /\ semLock = FALSE
  /\ known = {}
  /\ maker = [i \in Slot |-> NULL]
  /\ born = [i \in Slot |-> 0]
  /\ status = [p \in Proc |-> "READY"]
  /\ ready = InitReady
  /\ current = [h \in Hart |-> NULL]
  /\ on = [h \in Hart |-> NULL]
  /\ pc = [h \in Hart |-> "sched"]
  /\ id = [h \in Hart |-> NULL]
  /\ slot = [h \in Hart |-> NULL]
  /\ woken = [h \in Hart |-> NULL]
  /\ machine = "on"

-----------------------------------------------------------------------------
(***************************************************************************)
(* sys_user_sem_new                                                        *)
(***************************************************************************)
\* alloc_semaphore_id, under g_semaphore_lock
New(h) ==
  /\ At(h, "user") /\ ~semLock /\ nextId < MaxNew
  /\ id' = Set(id, h, nextId)
  /\ nextId' = nextId + 1
  /\ Goto(h, "new_slot")
  /\ UNCHANGED <<semId, value, queue, known, maker, born, semLock, procs, on, slot, woken, machine>>

Free(i) == semId[i] = -1

\* Mutant: the id is read from the counter again.
NewSlotReread(h) ==
  /\ At(h, "new_slot")
  /\ \E i \in Slot :
       /\ Free(i) /\ \A j \in Slot : j < i => ~Free(j)
       /\ semId' = Set(semId, i, nextId - 1)
       /\ slot' = Set(slot, h, i)
  /\ Goto(h, "new_value")
  /\ UNCHANGED <<nextId, value, queue, known, maker, born, semLock, procs, on, id, woken, machine>>

\* alloc_semaphore, under g_semaphore_pool_lock: the first free slot ...
NewSlot(h) ==
  /\ At(h, "new_slot")
  /\ \E i \in Slot :
       /\ Free(i) /\ \A j \in Slot : j < i => ~Free(j)
       /\ semId' = Set(semId, i, id[h])
       /\ slot' = Set(slot, h, i)
  /\ Goto(h, "new_value")
  /\ UNCHANGED <<nextId, value, queue, known, maker, born, semLock, procs, on, id, woken, machine>>

\* ... or none.  The id is lost.
NewFull(h) ==
  /\ At(h, "new_slot")
  /\ \A i \in Slot : ~Free(i)
  /\ Return(h)
  /\ UNCHANGED <<sems, semLock, procs, locals, machine>>

\* The initial value is stored when the semaphore is in use already.
NewValue(h) ==
  /\ At(h, "new_value")
  /\ \E v \in InitVals : value' = Set(value, slot[h], v) /\ born' = Set(born, slot[h], v)
  /\ known' = known \cup {slot[h]}
  /\ maker' = Set(maker, slot[h], Me(h))
  /\ Return(h)
  /\ UNCHANGED <<nextId, semId, queue, semLock, procs, locals, machine>>

-----------------------------------------------------------------------------
(***************************************************************************)
(* sys_user_sem_P and sys_user_sem_V.  get_semaphore finds the slot of an  *)
(* id; a call with an id that has none returns -1 and changes nothing.     *)
(***************************************************************************)
MayUse(h, i) ==
  /\ At(h, "user") /\ ~semLock
  /\ i \in known
  /\ Pinned => maker[i] = Me(h)

\* Mutant: P goes through at 0.
PTakeAtZero(h, i) ==
  /\ MayUse(h, i) /\ value[i] >= 0
  /\ value' = [value EXCEPT ![i] = @ - 1]
  /\ Return(h)
  /\ UNCHANGED <<nextId, semId, queue, known, maker, born, semLock, procs, locals, machine>>

PTake(h, i) ==
  /\ MayUse(h, i) /\ value[i] - 1 >= 0
  /\ value' = [value EXCEPT ![i] = @ - 1]
  /\ Return(h)
  /\ UNCHANGED <<nextId, semId, queue, known, maker, born, semLock, procs, locals, machine>>

PWait(h, i) ==
  /\ MayUse(h, i) /\ value[i] - 1 < 0
  /\ value' = [value EXCEPT ![i] = @ - 1]
  /\ slot' = Set(slot, h, i)
  /\ semLock' = TRUE
  /\ Goto(h, "p_block")
  /\ UNCHANGED <<nextId, semId, queue, known, maker, born, procs, on, id, woken, machine>>

Enqueue(q, p) == IF p \in Range(q) THEN q ELSE Append(q, p)

\* The process enters the queue; the lock is released before schedule().
PBlock(h) ==
  /\ At(h, "p_block")
  /\ status' = Set(status, This(h), "BLOCKED")
  /\ queue' = [queue EXCEPT ![slot[h]] = Enqueue(@, This(h))]
  /\ semLock' = FALSE
  /\ Goto(h, "sched")
  /\ UNCHANGED <<nextId, semId, value, known, maker, born, ready, current, on, locals, machine>>

VGive(h, i) ==
  /\ MayUse(h, i) /\ value[i] + 1 > 0 /\ value[i] < MaxValue
  /\ value' = [value EXCEPT ![i] = @ + 1]
  /\ Return(h)
  /\ UNCHANGED <<nextId, semId, queue, known, maker, born, semLock, procs, locals, machine>>

\* Mutant: the process that came last is woken.
VWakeLast(h, i) ==
  /\ MayUse(h, i) /\ value[i] + 1 <= 0 /\ queue[i] # <<>>
  /\ value' = [value EXCEPT ![i] = @ + 1]
  /\ woken' = Set(woken, h, queue[i][Len(queue[i])])
  /\ queue' = [queue EXCEPT ![i] = SubSeq(@, 1, Len(@) - 1)]
  /\ semLock' = TRUE
  /\ Goto(h, "v_ready")
  /\ UNCHANGED <<nextId, semId, known, maker, born, procs, on, id, slot, machine>>

VWake(h, i) ==
  /\ MayUse(h, i) /\ value[i] + 1 <= 0 /\ queue[i] # <<>>
  /\ value' = [value EXCEPT ![i] = @ + 1]
  /\ woken' = Set(woken, h, Head(queue[i]))
  /\ queue' = [queue EXCEPT ![i] = Tail(@)]
  /\ semLock' = TRUE
  /\ Goto(h, "v_ready")
  /\ UNCHANGED <<nextId, semId, known, maker, born, procs, on, id, slot, machine>>

\* panic("semaphore_V: no process to wake up.")
VPanic(h, i) ==
  /\ MayUse(h, i) /\ value[i] + 1 <= 0 /\ queue[i] = <<>>
  /\ value' = [value EXCEPT ![i] = @ + 1]
  /\ machine' = "panic"
  /\ UNCHANGED <<nextId, semId, queue, known, maker, born, semLock, procs, on, pc, locals>>

\* Mutant: the process is made READY but not queued.
VReadyDropped(h) ==
  /\ At(h, "v_ready")
  /\ status' = Set(status, woken[h], "READY")
  /\ woken' = Set(woken, h, NULL)
  /\ semLock' = FALSE
  /\ Return(h)
  /\ UNCHANGED <<sems, ready, current, id, slot, machine>>

\* Mutant: the woken process goes to the queue of hart 0.
VReadyHartZero(h) ==
  /\ At(h, "v_ready")
  /\ status' = Set(status, woken[h], "READY")
  /\ ready' = [ready EXCEPT ![0] = Enqueue(@, woken[h])]
  /\ woken' = Set(woken, h, NULL)
  /\ semLock' = FALSE
  /\ Return(h)
  /\ UNCHANGED <<sems, current, id, slot, machine>>

\* insert_to_ready_queue: the queue of the hart that executes V.
VReady(h) ==
  /\ At(h, "v_ready")
  /\ status' = Set(status, woken[h], "READY")
  /\ ready' = [ready EXCEPT ![Me(h)] = Enqueue(@, woken[h])]
  /\ woken' = Set(woken, h, NULL)
  /\ semLock' = FALSE
  /\ Return(h)
  /\ UNCHANGED <<sems, current, id, slot, machine>>

-----------------------------------------------------------------------------
\* sys_user_yield, or the end of a time slice
Yield(h) ==
  /\ At(h, "user")
  /\ status' = Set(status, This(h), "READY")
  /\ ready' = [ready EXCEPT ![Me(h)] = Enqueue(@, This(h))]
  /\ Goto(h, "sched")
  /\ UNCHANGED <<sems, semLock, current, on, locals, machine>>

\* schedule() and switch_to, which loads tp
Schedule(h) ==
  LET q == ready[Me(h)] IN
  /\ At(h, "sched") /\ q # <<>> /\ status[Head(q)] = "READY"
  /\ ready' = Set(ready, Me(h), Tail(q))
  /\ current' = Set(current, Me(h), Head(q))
  /\ status' = Set(status, Head(q), "RUNNING")
  /\ on' = Set(on, h, Head(q))
  /\ Goto(h, "user")
  /\ UNCHANGED <<sems, semLock, locals, machine>>

Step(h) ==
  \/ New(h) \/ NewSlot(h) \/ NewFull(h) \/ NewValue(h)
  \/ \E i \in Slot : PTake(h, i) \/ PWait(h, i) \/ VGive(h, i) \/ VWake(h, i) \/ VPanic(h, i)
  \/ PBlock(h) \/ VReady(h)
  \/ Yield(h) \/ Schedule(h)

Next == \E h \in Hart : Step(h)

Spec == Init /\ [][Next]_vars

-----------------------------------------------------------------------------
\* Every variable keeps its range; an id is one the counter has handed out.
TypeOK ==
  /\ nextId \in 0 .. MaxNew
  /\ semId \in [Slot -> -1 .. (MaxNew - 1)]
  /\ value \in [Slot -> Int]
  /\ queue \in [Slot -> Seq(Proc)]
  /\ semLock \in BOOLEAN
  /\ known \subseteq Slot
  /\ status \in [Proc -> {"READY", "RUNNING", "BLOCKED"}]
  /\ ready \in [Hart -> Seq(Proc)]
  /\ current \in [Hart -> Proc \cup {NULL}]
  /\ on \in [Hart -> Proc \cup {NULL}]
  /\ machine \in {"on", "panic"}

\* get_semaphore is a function: two semaphores in use have different ids, also
\* when harts create them at the same time.
IdsUnique ==
  /\ TypeOK
  /\ \A i, j \in Slot : i # j /\ ~Free(i) => semId[i] # semId[j]

\* V finds the process that the value promises, unless a semaphore was created
\* with a negative value: that is the only way into the panic of semaphore_V.
NoWakePanic == machine = "panic" => \E i \in known : born[i] < 0

\* The value of a semaphore says who waits: as many processes as it is below 0,
\* or below the negative value it was created with; so V finds one to wake.
WaitersCounted ==
  /\ NoWakePanic
  /\ ~semLock => \A i \in known :
       LET floor == IF born[i] < 0 THEN born[i] ELSE 0
       IN  Len(queue[i]) = IF value[i] < floor THEN floor - value[i] ELSE 0

\* Nobody is lost: a BLOCKED process is in a semaphore's queue (or V is moving
\* it), a READY one in a ready queue, and no process is in two places.
Places(p) ==
  {<<"sem", i>> : i \in {i \in Slot : p \in Range(queue[i])}} \cup
  {<<"ready", h>> : h \in {h \in Hart : p \in Range(ready[h])}} \cup
  {<<"woken", h>> : h \in {h \in Hart : woken[h] = p}}

NobodyLost ==
  \A p \in Proc :
    /\ status[p] = "RUNNING" => Places(p) = {}
    /\ status[p] = "READY" => \E h \in Hart : Places(p) = {<<"ready", h>>}
    /\ status[p] = "BLOCKED" =>
         \/ \E i \in Slot : Places(p) = {<<"sem", i>>}
         \/ \E h \in Hart : Places(p) = {<<"woken", h>>}

\* current[hartid] is the application that runs on the hart: a trap is handled
\* for the process that caused it.
CurrentIsRunning == \A h \in Hart : pc[h] = "user" => This(h) = on[h]

\* The semaphores are counting semaphores with first-come first-served waiting.
Abstract == INSTANCE CountingSem WITH
  Sem <- Slot,
  open <- known,
  permits <- [i \in Slot |-> IF i \in known /\ value[i] > 0 THEN value[i] ELSE 0],
  waiting <- queue

CountsAndQueues == Abstract!Spec
-----------------------------------------------------------------------------
(***************************************************************************)
(* The inductive invariant, in parts.  The proofs are in SemaphoreProofs.  *)
(***************************************************************************)
\* p's hart has switched to some process.
Started(p) == current[Home[p]] # NULL

\* The locals' types as well.
TypeInv ==
  /\ TypeOK
  /\ maker \in [Slot -> Hart \cup {NULL}]
  /\ born \in [Slot -> Int]
  /\ pc \in [Hart -> {"sched", "user", "new_slot", "new_value", "p_block", "v_ready"}]
  /\ id \in [Hart -> Int \cup {NULL}]
  /\ slot \in [Hart -> Slot \cup {NULL}]
  /\ woken \in [Hart -> Proc \cup {NULL}]

\* Locals are set where the handlers read them.
LocalInv ==
  \A h \in Hart :
    /\ pc[h] # "sched" => on[h] # NULL
    /\ pc[h] \in {"new_value", "p_block"} => slot[h] # NULL
    /\ pc[h] = "v_ready" <=> woken[h] # NULL

\* The process a handler works for exists: a process that has left its hart's
\* first queue has been current there.
StartInv ==
  /\ \A h \in Hart :
       /\ on[h] # NULL => Started(on[h])
       /\ current[h] # NULL => Started(current[h])
       /\ woken[h] # NULL => Started(woken[h])
       /\ \A p \in Range(ready[h]) : Home[p] = h \/ Started(p)
  /\ \A i \in Slot : \A p \in Range(queue[i]) : Started(p)

\* An id is on its way to one slot or in it.
IdInv ==
  /\ \A i \in Slot : semId[i] < nextId
  /\ \A i, j \in Slot : i # j /\ ~Free(i) => semId[i] # semId[j]
  /\ \A h \in Hart : pc[h] = "new_slot" =>
       /\ id[h] \in 0 .. (nextId - 1)
       /\ \A i \in Slot : semId[i] # id[h]
       /\ \A k \in Hart \ {h} : pc[k] = "new_slot" => id[k] # id[h]

\* A slot belongs to one sem_new until that returns.
SlotInv ==
  /\ \A i \in known : ~Free(i)
  /\ \A i \in Slot \ known : queue[i] = <<>>
  /\ \A h \in Hart : pc[h] = "new_value" =>
       /\ ~Free(slot[h]) /\ slot[h] \notin known
       /\ \A k \in Hart \ {h} : pc[k] = "new_value" => slot[k] # slot[h]
  /\ \A h \in Hart : pc[h] = "p_block" => slot[h] \in known

\* g_semaphore_lock is held by the one hart that is inside P or V.
LockInv ==
  /\ semLock <=> \E h \in Hart : pc[h] \in {"p_block", "v_ready"}
  /\ \A h, k \in Hart :
       pc[h] \in {"p_block", "v_ready"} /\ pc[k] \in {"p_block", "v_ready"} => h = k

\* With semaphores that stay on their hart, processes do too.
HomeInv ==
  /\ \A h \in Hart :
       /\ on[h] = current[h]
       /\ on[h] # NULL => Home[on[h]] = h
       /\ woken[h] # NULL => Home[woken[h]] = h
       /\ pc[h] = "p_block" => maker[slot[h]] = h
       /\ \A p \in Range(ready[h]) : Home[p] = h
  /\ \A i \in Slot : \A p \in Range(queue[i]) : Home[p] = maker[i]

\* Where a process is, from its status.
PlaceInv ==
  /\ \A h \in Hart :
       /\ pc[h] # "sched" => status[on[h]] = "RUNNING"
       /\ woken[h] # NULL => status[woken[h]] = "BLOCKED"
       /\ IsInjective(ready[h])
       /\ \A p \in Range(ready[h]) : status[p] = "READY"
  /\ \A i \in Slot :
       /\ IsInjective(queue[i])
       /\ \A p \in Range(queue[i]) :
            /\ status[p] = "BLOCKED"
            /\ \A h \in Hart : woken[h] # p
            /\ \A j \in Slot : p \in Range(queue[j]) => j = i
  /\ \A p \in Proc :
       /\ status[p] = "READY" => p \in Range(ready[Home[p]])
       /\ status[p] = "BLOCKED" => \/ \E i \in Slot : p \in Range(queue[i])
                                   \/ \E h \in Hart : woken[h] = p

\* How many wait at a semaphore with value v that was created with value b.
Debt(v, b) ==
  LET floor == IF b < 0 THEN b ELSE 0 IN IF v < floor THEN floor - v ELSE 0

\* P has counted its process before it queues it.  A semaphore created with
\* a negative value never rises above that value.
CountInv ==
  /\ NoWakePanic
  /\ machine = "on" => \A i \in known : born[i] < 0 => value[i] <= born[i]
  /\ \A h \in Hart : pc[h] = "p_block" =>
       /\ value[slot[h]] < 0
       /\ Len(queue[slot[h]]) + 1 = Debt(value[slot[h]], born[slot[h]])
  /\ \A i \in known :
       (\A h \in Hart : pc[h] = "p_block" => slot[h] # i) => Len(queue[i]) = Debt(value[i], born[i])
=============================================================================
