-------------------------------- MODULE Cow --------------------------------
(***************************************************************************)
(* Physical pages, their reference counts and copy-on-write heaps:         *)
(* kernel/pmm.c, the heap part of do_fork, the COW part of                 *)
(* handle_user_page_fault, and the unmapping of a heap by exit and exec.   *)
(*                                                                         *)
(* A spin-locked section of pmm.c is one step: page_ref_count and the free *)
(* list are only touched under their own lock.  Everything between two     *)
(* such sections may interleave with the other harts.  A process executes  *)
(* kernel code on one hart at a time, so the kernel's program counter is   *)
(* kept per process and at most NCPU processes are inside the kernel.      *)
(*                                                                         *)
(* A page holds two words the properties tell apart: data, which user      *)
(* stores (and read()) write, and meta, the header of the heap block at    *)
(* the start of the page, which the kernel writes through the page's       *)
(* physical address (set_next, set_size, set_flag).                        *)
(***************************************************************************)
EXTENDS Integers, Sequences, FiniteSets

CONSTANTS
  Proc,      \* process slots
  Page,      \* physical pages handed to pmm_init
  MaxHeap,   \* bound: heap pages per process
  Data,      \* values of a user word
  NCPU,      \* harts
  Syscalls,  \* what user programs do: a subset of AllSyscalls
  NoProc, NoPage, NoData

AllSyscalls == {"malloc", "free", "store", "read", "fork", "exit", "exec"}

VPage == 0 .. (MaxHeap - 1)

ASSUME CowAssumption ==
  /\ IsFiniteSet(Proc) /\ NoProc \notin Proc
  /\ IsFiniteSet(Page) /\ NoPage \notin Page
  /\ MaxHeap \in Nat \ {0}
  /\ Data # {}
  /\ NCPU \in Nat \ {0}
  /\ Syscalls \subseteq AllSyscalls

VARIABLES
  freeList,  \* g_free_mem_list, head first
  ref,       \* page_ref_count
  data, meta,
  pa,        \* pa[p][v]: the physical page in the PTE, NoPage if not PTE_V
  cow,       \* cow[p][v]: PTE_COW set and PTE_W clear; FALSE: PTE_W set
  pc,        \* where the process is in the kernel; "none": slot unused
  va,        \* the heap page a kernel operation is working on
  pg,        \* the physical page in the operation's hand
  child,     \* the child a fork is building
  resume,    \* what follows the unmapping of the heap
  panicked,
  viewD, viewM  \* history: what each process stored, or inherited, last

mem     == <<freeList, ref>>
words   == <<data, meta>>
table   == <<pa, cow>>
control == <<pc, va, pg, child, resume, panicked>>
views   == <<viewD, viewM>>
vars    == <<mem, words, table, control, views>>

KernelPC == {"fault_alloc", "fault_copy", "fault_dec", "fault_map",
             "fork_inc", "fork_map", "unmap", "unmap_push", "unmap_clear"}

TypeOK ==
  /\ freeList \in Seq(Page)
  /\ ref \in [Page -> Nat]
  /\ data \in [Page -> Data]
  /\ meta \in [Page -> Proc \cup {NoProc}]
  /\ pa \in [Proc -> [VPage -> Page \cup {NoPage}]]
  /\ cow \in [Proc -> [VPage -> BOOLEAN]]
  /\ pc \in [Proc -> {"none", "embryo", "user"} \cup KernelPC]
  /\ va \in [Proc -> Nat]
  /\ pg \in [Proc -> Page \cup {NoPage}]
  /\ child \in [Proc -> Proc \cup {NoProc}]
  /\ resume \in [Proc -> {"none", "user"}]
  /\ panicked \in BOOLEAN
  /\ viewD \in [Proc -> [VPage -> Data \cup {NoData}]]
  /\ viewM \in [Proc -> [VPage -> Proc \cup {NoProc}]]

Mapped(p, v) == pa[p][v] # NoPage

InKernel == {p \in Proc : pc[p] \in KernelPC}

\* A user-mode process traps into the kernel on one of the NCPU harts.
MayTrap(p) ==
  /\ ~panicked
  /\ pc[p] = "user"
  /\ Cardinality(InKernel) < NCPU

At(p, label) == ~panicked /\ pc[p] = label

Goto(p, label) == pc' = [pc EXCEPT ![p] = label]

SetPte(p, v, page, isCow) ==
  /\ pa' = [pa EXCEPT ![p][v] = page]
  /\ cow' = [cow EXCEPT ![p][v] = isCow]

(***************************************************************************)
(* Init: pmm_init has pushed every page; the boot process has no heap yet. *)
(***************************************************************************)
Init ==
  /\ freeList \in {s \in [1 .. Cardinality(Page) -> Page] :
                     \A i, j \in DOMAIN s : s[i] = s[j] => i = j}
  /\ ref = [g \in Page |-> 0]
  /\ data \in {[g \in Page |-> d] : d \in Data}
  /\ meta = [g \in Page |-> NoProc]
  /\ pa = [p \in Proc |-> [v \in VPage |-> NoPage]]
  /\ cow = [p \in Proc |-> [v \in VPage |-> FALSE]]
  /\ \E boot \in Proc :
       pc = [p \in Proc |-> IF p = boot THEN "user" ELSE "none"]
  /\ va = [p \in Proc |-> 0]
  /\ pg = [p \in Proc |-> NoPage]
  /\ child = [p \in Proc |-> NoProc]
  /\ resume = [p \in Proc |-> "none"]
  /\ panicked = FALSE
  /\ viewD = [p \in Proc |-> [v \in VPage |-> NoData]]
  /\ viewM = [p \in Proc |-> [v \in VPage |-> NoProc]]

(***************************************************************************)
(* malloc and free (sys_user_allocate_mem, sys_user_free_mem)              *)
(***************************************************************************)
\* No free block fits: the heap grows by the page at heap_top.  alloc_page
\* pops the head of the free list and sets its count to 1; when the list is
\* empty malloc returns NULL and nothing changes.
GrowHeap(p, v) ==
  /\ "malloc" \in Syscalls /\ MayTrap(p)
  /\ ~Mapped(p, v) /\ \A u \in VPage : u < v => Mapped(p, u)
  /\ freeList # << >>
  /\ freeList' = Tail(freeList)
  /\ ref' = [ref EXCEPT ![Head(freeList)] = 1]
  /\ SetPte(p, v, Head(freeList), FALSE)
  /\ meta' = [meta EXCEPT ![Head(freeList)] = p]
  /\ viewD' = [viewD EXCEPT ![p][v] = data[Head(freeList)]]
  /\ viewM' = [viewM EXCEPT ![p][v] = p]
  /\ UNCHANGED <<data, control>>

\* A block of a mapped page is freed, or a free block reused by malloc: the
\* header is rewritten at its physical address, whatever the PTE permits.
WriteHeader(p, v) ==
  /\ "free" \in Syscalls /\ MayTrap(p)
  /\ Mapped(p, v)
  /\ meta' = [meta EXCEPT ![pa[p][v]] = p]
  /\ viewM' = [viewM EXCEPT ![p][v] = p]
  /\ UNCHANGED <<mem, data, table, control, viewD>>

(***************************************************************************)
(* Stores by user code, and by the kernel on its behalf (sys_user_read)    *)
(***************************************************************************)
UserStore(p, v, d) ==
  /\ "store" \in Syscalls /\ ~panicked /\ pc[p] = "user"
  /\ Mapped(p, v) /\ ~cow[p][v]
  /\ data' = [data EXCEPT ![pa[p][v]] = d]
  /\ viewD' = [viewD EXCEPT ![p][v] = d]
  /\ UNCHANGED <<mem, meta, table, control, viewM>>

\* The buffer is written at the physical address lookup_pa returns.
ReadIntoBuffer(p, v, d) ==
  /\ "read" \in Syscalls /\ MayTrap(p)
  /\ Mapped(p, v)
  /\ data' = [data EXCEPT ![pa[p][v]] = d]
  /\ viewD' = [viewD EXCEPT ![p][v] = d]
  /\ UNCHANGED <<mem, meta, table, control, viewM>>

(***************************************************************************)
(* handle_user_page_fault: a store to a copy-on-write page                 *)
(***************************************************************************)
\* The fault, up to and including get_page_ref(old_pa): the page is shared ...
StoreFaultShared(p, v) ==
  /\ "store" \in Syscalls /\ MayTrap(p)
  /\ Mapped(p, v) /\ cow[p][v]
  /\ ref[pa[p][v]] > 1
  /\ va' = [va EXCEPT ![p] = v]
  /\ Goto(p, "fault_alloc")
  /\ UNCHANGED <<mem, words, table, pg, child, resume, panicked, views>>

\* Mutant: a page two processes share is taken over in place.
StoreFaultSoleOffByOne(p, v) ==
  /\ "store" \in Syscalls /\ MayTrap(p)
  /\ Mapped(p, v) /\ cow[p][v]
  /\ ~(ref[pa[p][v]] > 2)
  /\ va' = [va EXCEPT ![p] = v]
  /\ pg' = [pg EXCEPT ![p] = pa[p][v]]
  /\ Goto(p, "fault_map")
  /\ UNCHANGED <<mem, words, table, child, resume, panicked, views>>

\* ... or new_page = old_pa.
StoreFaultSole(p, v) ==
  /\ "store" \in Syscalls /\ MayTrap(p)
  /\ Mapped(p, v) /\ cow[p][v]
  /\ ~(ref[pa[p][v]] > 1)
  /\ va' = [va EXCEPT ![p] = v]
  /\ pg' = [pg EXCEPT ![p] = pa[p][v]]
  /\ Goto(p, "fault_map")
  /\ UNCHANGED <<mem, words, table, child, resume, panicked, views>>

\* new_page = alloc_page()
FaultAlloc(p) ==
  /\ At(p, "fault_alloc")
  /\ freeList # << >>
  /\ freeList' = Tail(freeList)
  /\ ref' = [ref EXCEPT ![Head(freeList)] = 1]
  /\ pg' = [pg EXCEPT ![p] = Head(freeList)]
  /\ Goto(p, "fault_copy")
  /\ UNCHANGED <<words, table, va, child, resume, panicked, views>>

\* alloc_page() returned NULL, which is not tested: memcpy to NULL traps in
\* S-mode, and smode_trap_handler panics when the trap is not from user mode.
FaultPanic(p) ==
  /\ At(p, "fault_alloc")
  /\ freeList = << >>
  /\ panicked' = TRUE
  /\ UNCHANGED <<mem, words, table, pc, va, pg, child, resume, views>>

\* memcpy(new_page, old_pa, PGSIZE)
FaultCopy(p) ==
  /\ At(p, "fault_copy")
  /\ data' = [data EXCEPT ![pg[p]] = data[pa[p][va[p]]]]
  /\ meta' = [meta EXCEPT ![pg[p]] = meta[pa[p][va[p]]]]
  /\ Goto(p, "fault_dec")
  /\ UNCHANGED <<mem, table, va, pg, child, resume, panicked, views>>

\* dec_page_ref(old_pa): floors at 0 and never frees the page.
FaultDec(p) ==
  /\ At(p, "fault_dec")
  /\ LET old == pa[p][va[p]] IN
       ref' = [ref EXCEPT ![old] = IF ref[old] > 0 THEN ref[old] - 1 ELSE ref[old]]
  /\ Goto(p, "fault_map")
  /\ UNCHANGED <<freeList, words, table, va, pg, child, resume, panicked, views>>

\* The PTE becomes writable and points to new_page (or still to old_pa).
FaultMap(p) ==
  /\ At(p, "fault_map")
  /\ SetPte(p, va[p], pg[p], FALSE)
  /\ pg' = [pg EXCEPT ![p] = NoPage]
  /\ va' = [va EXCEPT ![p] = 0]
  /\ Goto(p, "user")
  /\ UNCHANGED <<mem, words, child, resume, panicked, views>>

(***************************************************************************)
(* do_fork: build the child's heap, page by page                           *)
(***************************************************************************)
Fork(p, c) ==
  /\ "fork" \in Syscalls /\ MayTrap(p)
  /\ pc[c] = "none"
  /\ pc' = [pc EXCEPT ![p] = "fork_inc", ![c] = "embryo"]
  /\ child' = [child EXCEPT ![p] = c]
  /\ va' = [va EXCEPT ![p] = 0]
  /\ UNCHANGED <<mem, words, table, pg, resume, panicked, views>>

\* Mutant: fork shares a page without counting the child's reference.
ForkIncSkipped(p) ==
  /\ At(p, "fork_inc")
  /\ va[p] \in VPage /\ Mapped(p, va[p])
  /\ Goto(p, "fork_map")
  /\ UNCHANGED <<mem, words, table, va, pg, child, resume, panicked, views>>

\* The loop from heap_bottom to heap_top: inc_page_ref of the next mapped page.
ForkInc(p) ==
  /\ At(p, "fork_inc")
  /\ va[p] \in VPage /\ Mapped(p, va[p])
  /\ ref' = [ref EXCEPT ![pa[p][va[p]]] = @ + 1]
  /\ Goto(p, "fork_map")
  /\ UNCHANGED <<freeList, words, table, va, pg, child, resume, panicked, views>>

\* The heap is mapped without holes, so the first page that is not mapped is
\* heap_top: the loop ends and the child is inserted in the ready queue.
ForkDone(p) ==
  /\ At(p, "fork_inc")
  /\ ~(va[p] \in VPage /\ Mapped(p, va[p]))
  /\ pc' = [pc EXCEPT ![p] = "user", ![child[p]] = "user"]
  /\ child' = [child EXCEPT ![p] = NoProc]
  /\ va' = [va EXCEPT ![p] = 0]
  /\ UNCHANGED <<mem, words, table, pg, resume, panicked, views>>

\* Mutant: the parent keeps its write permission.
ForkMapParentWritable(p) ==
  /\ At(p, "fork_map")
  /\ LET c == child[p] v == va[p] IN
       /\ pa' = [pa EXCEPT ![c][v] = pa[p][v]]
       /\ cow' = [cow EXCEPT ![c][v] = TRUE]
       /\ viewD' = [viewD EXCEPT ![c][v] = viewD[p][v]]
       /\ viewM' = [viewM EXCEPT ![c][v] = viewM[p][v]]
  /\ va' = [va EXCEPT ![p] = @ + 1]
  /\ Goto(p, "fork_inc")
  /\ UNCHANGED <<mem, words, pg, child, resume, panicked>>

\* user_vm_map of the page in the child, then the parent's own PTE.  Neither
\* process runs user code in between, and no other hart reads either table.
ForkMap(p) ==
  /\ At(p, "fork_map")
  /\ LET c == child[p] v == va[p] IN
       /\ pa' = [pa EXCEPT ![c][v] = pa[p][v]]
       /\ cow' = [cow EXCEPT ![c][v] = TRUE, ![p][v] = TRUE]
       /\ viewD' = [viewD EXCEPT ![c][v] = viewD[p][v]]
       /\ viewM' = [viewM EXCEPT ![c][v] = viewM[p][v]]
  /\ va' = [va EXCEPT ![p] = @ + 1]
  /\ Goto(p, "fork_inc")
  /\ UNCHANGED <<mem, words, pg, child, resume, panicked>>

(***************************************************************************)
(* exit and exec: unmap the heap                                           *)
(***************************************************************************)
\* sys_user_exit frees every allocated block, which rewrites the headers, and
\* then unmaps every page of the heap.
Exit(p) ==
  /\ "exit" \in Syscalls /\ MayTrap(p)
  /\ Goto(p, "unmap")
  /\ resume' = [resume EXCEPT ![p] = "none"]
  /\ meta' = [g \in Page |-> IF \E v \in VPage : pa[p][v] = g THEN p ELSE meta[g]]
  /\ viewM' = [viewM EXCEPT ![p] = [v \in VPage |-> IF Mapped(p, v) THEN p ELSE @[v]]]
  /\ UNCHANGED <<mem, data, table, va, pg, child, panicked, viewD>>

Exec(p) ==
  /\ "exec" \in Syscalls /\ MayTrap(p)
  /\ Goto(p, "unmap")
  /\ resume' = [resume EXCEPT ![p] = "user"]
  /\ UNCHANGED <<mem, words, table, va, pg, child, panicked, views>>

\* free_page of a page that others hold too
UnmapShared(p, v) ==
  /\ At(p, "unmap") /\ Mapped(p, v)
  /\ ref[pa[p][v]] > 1
  /\ ref' = [ref EXCEPT ![pa[p][v]] = @ - 1]
  /\ va' = [va EXCEPT ![p] = v]
  /\ Goto(p, "unmap_clear")
  /\ UNCHANGED <<freeList, words, table, pg, child, resume, panicked, views>>

\* Mutant: free_page does not look at the count.
UnmapLastUnchecked(p, v) ==
  /\ At(p, "unmap") /\ Mapped(p, v)
  /\ ref' = [ref EXCEPT ![pa[p][v]] = 0]
  /\ va' = [va EXCEPT ![p] = v]
  /\ pg' = [pg EXCEPT ![p] = pa[p][v]]
  /\ Goto(p, "unmap_push")
  /\ UNCHANGED <<freeList, words, table, child, resume, panicked, views>>

\* Mutant: the last reference goes, the page does not reach the free list.
UnmapLastLost(p, v) ==
  /\ At(p, "unmap") /\ Mapped(p, v)
  /\ ~(ref[pa[p][v]] > 1)
  /\ ref' = [ref EXCEPT ![pa[p][v]] = 0]
  /\ va' = [va EXCEPT ![p] = v]
  /\ Goto(p, "unmap_clear")
  /\ UNCHANGED <<freeList, words, table, pg, child, resume, panicked, views>>

\* free_page of the last reference, up to the release of g_page_ref_lock
UnmapLast(p, v) ==
  /\ At(p, "unmap") /\ Mapped(p, v)
  /\ ~(ref[pa[p][v]] > 1)
  /\ ref' = [ref EXCEPT ![pa[p][v]] = 0]
  /\ va' = [va EXCEPT ![p] = v]
  /\ pg' = [pg EXCEPT ![p] = pa[p][v]]
  /\ Goto(p, "unmap_push")
  /\ UNCHANGED <<freeList, words, table, child, resume, panicked, views>>

\* the rest of free_page: the list node overwrites the start of the page
UnmapPush(p) ==
  /\ At(p, "unmap_push")
  /\ freeList' = <<pg[p]>> \o freeList
  /\ meta' = [meta EXCEPT ![pg[p]] = NoProc]
  /\ Goto(p, "unmap_clear")
  /\ UNCHANGED <<ref, data, table, va, pg, child, resume, panicked, views>>

\* *pte = 0
UnmapClear(p) ==
  /\ At(p, "unmap_clear")
  /\ SetPte(p, va[p], NoPage, FALSE)
  /\ viewD' = [viewD EXCEPT ![p][va[p]] = NoData]
  /\ viewM' = [viewM EXCEPT ![p][va[p]] = NoProc]
  /\ pg' = [pg EXCEPT ![p] = NoPage]
  /\ va' = [va EXCEPT ![p] = 0]
  /\ Goto(p, "unmap")
  /\ UNCHANGED <<mem, words, child, resume, panicked>>

\* exit: the slot may be reused once the parent has reaped it; exec: the new
\* program starts with an empty heap
UnmapDone(p) ==
  /\ At(p, "unmap")
  /\ \A v \in VPage : ~Mapped(p, v)
  /\ Goto(p, resume[p])
  /\ resume' = [resume EXCEPT ![p] = "none"]
  /\ UNCHANGED <<mem, words, table, va, pg, child, panicked, views>>

KernelStep(p) ==
  \/ FaultAlloc(p) \/ FaultPanic(p) \/ FaultCopy(p) \/ FaultDec(p) \/ FaultMap(p)
  \/ ForkInc(p) \/ ForkMap(p) \/ ForkDone(p)
  \/ \E v \in VPage : UnmapShared(p, v) \/ UnmapLast(p, v)
  \/ UnmapPush(p) \/ UnmapClear(p) \/ UnmapDone(p)

Trap(p) ==
  \/ \E v \in VPage :
       GrowHeap(p, v) \/ WriteHeader(p, v) \/ StoreFaultShared(p, v) \/ StoreFaultSole(p, v)
  \/ \E v \in VPage, d \in Data : ReadIntoBuffer(p, v, d)
  \/ \E c \in Proc : Fork(p, c)
  \/ Exit(p) \/ Exec(p)

Next ==
  \E p \in Proc :
    \/ Trap(p)
    \/ KernelStep(p)
    \/ \E v \in VPage, d \in Data : UserStore(p, v, d)

Spec == Init /\ [][Next]_vars

(***************************************************************************)
(* Who holds a reference to a page                                         *)
(***************************************************************************)
\* The page that entry v of p's table holds a counted reference to.  It is the
\* page in the PTE, except between a change of the count and of the PTE.
Owns(p, v) ==
  IF pc[p] = "fault_map" /\ va[p] = v THEN pg[p]
  ELSE IF pc[p] \in {"unmap_push", "unmap_clear"} /\ va[p] = v THEN NoPage
  ELSE pa[p][v]

\* A page counted once more on behalf of the operation p is in: the new page
\* of a fault, or the reference fork has taken for the child's PTE.
InHand(p) ==
  IF pc[p] \in {"fault_copy", "fault_dec"} THEN pg[p]
  ELSE IF pc[p] = "fork_map" THEN pa[p][va[p]]
  ELSE NoPage

\* References are held by table entries <<p, v>> and by operations <<p, Op>>.
Op == -1

Slot == VPage \cup {Op}

Hold(p, k) == IF k = Op THEN InHand(p) ELSE Owns(p, k)

Holders(g) == {t \in Proc \X Slot : Hold(t[1], t[2]) = g}

Pushing == {p \in Proc : pc[p] = "unmap_push"}

(***************************************************************************)
(* Properties                                                              *)
(***************************************************************************)
\* page_ref_count is exact: at every instant, in whatever way faults, forks,
\* exits and execs of different processes interleave, the count of a page is
\* the number of PTEs and of operations in progress that hold it (inc_page_ref,
\* dec_page_ref, alloc_page, free_page).
RefExact == \A g \in Page : ref[g] = Cardinality(Holders(g))

\* The free list never holds a page twice, nor a page that some process or some
\* operation still holds, nor one that a hart is about to push: no page can be
\* freed twice or handed out while it is in use (free_page, alloc_page).
FreeListSound ==
  /\ \A i, j \in 1 .. Len(freeList) : freeList[i] = freeList[j] => i = j
  /\ \A i \in 1 .. Len(freeList) :
       /\ Holders(freeList[i]) = {}
       /\ \A p \in Pushing : pg[p] # freeList[i]
  /\ \A p, q \in Pushing : pg[p] = pg[q] => p = q

\* A page that one process may write without a fault belongs to no other entry
\* of any page table; an entry whose reference is already dropped does not count
\* (the write-permission handling of do_fork and handle_user_page_fault).
WritableIsPrivate ==
  \A p, q \in Proc, v, u \in VPage :
    /\ pc[p] = "user" /\ Mapped(p, v) /\ ~cow[p][v]
    /\ <<q, u>> # <<p, v>>
    => Owns(q, u) # pa[p][v]

\* Processes related by fork are isolated: a process running user code finds in
\* its heap what it stored there itself, or inherited, last.
DataIsolated ==
  \A p \in Proc, v \in VPage :
    pc[p] = "user" /\ Mapped(p, v) => data[pa[p][v]] = viewD[p][v]

\* The same for the headers of the heap blocks, which malloc, free and exit
\* write by physical address.
MetaIsolated ==
  \A p \in Proc, v \in VPage :
    pc[p] = "user" /\ Mapped(p, v) => meta[pa[p][v]] = viewM[p][v]

\* A page is in the free list, or on its way there.
Returned(g) ==
  \/ \E i \in 1 .. Len(freeList) : freeList[i] = g
  \/ \E p \in Pushing : pg[p] = g

\* No page is lost: one that nothing holds can be allocated again.
NoLeak == \A g \in Page : Holders(g) = {} => Returned(g)

(***************************************************************************)
(* The inductive invariant                                                 *)
(***************************************************************************)
\* An entry that is writable, or that a fault is about to make writable.
Private(p, v) == ~cow[p][v] \/ (pc[p] = "fault_map" /\ va[p] = v)

PrivateInv ==
  \A p, q \in Proc, v, u \in VPage :
    /\ Private(p, v) /\ Owns(p, v) # NoPage
    /\ p # q \/ v # u
    => Owns(q, u) # Owns(p, v)

\* The page a fault has just allocated is held by that fault alone.
FreshInv ==
  \A p \in Proc : pc[p] \in {"fault_copy", "fault_dec"} =>
    /\ pg[p] \in Page
    /\ Holders(pg[p]) = {<<p, Op>>}

PushInv ==
  \A p \in Pushing : pg[p] \in Page /\ Holders(pg[p]) = {}

\* What the program counters say about the operations in progress.
FaultInv ==
  \A p \in Proc :
    /\ pc[p] \in {"fault_alloc", "fault_copy", "fault_dec", "fault_map"} =>
         va[p] \in VPage /\ Mapped(p, va[p]) /\ cow[p][va[p]]
    /\ pc[p] = "fault_map" => pg[p] \in Page
    /\ pc[p] \in {"unmap_push", "unmap_clear"} => va[p] \in VPage

ForkInv ==
  /\ \A p \in Proc : pc[p] \in {"fork_inc", "fork_map"} =>
       /\ child[p] \in Proc /\ pc[child[p]] = "embryo"
       /\ \A v \in VPage : v >= va[p] => pa[child[p]][v] = NoPage
  /\ \A p \in Proc : pc[p] = "fork_map" => va[p] \in VPage /\ Mapped(p, va[p])
  /\ \A p \in Proc : child[p] # NoProc => pc[p] \in {"fork_inc", "fork_map"}
  /\ \A p, q \in Proc : child[p] = child[q] /\ child[p] # NoProc => p = q
  /\ \A p \in Proc, v \in VPage : pc[p] = "none" => ~Mapped(p, v)

\* Every reference holder sees in its page what the process should see.
DataInv ==
  "read" \notin Syscalls =>
    \A p \in Proc :
      /\ \A v \in VPage : Owns(p, v) # NoPage => data[Owns(p, v)] = viewD[p][v]
      /\ pc[p] = "fault_dec" => data[pg[p]] = viewD[p][va[p]]

\* The inductive invariant behind the theorems of CowProofs.
IInv ==
  /\ TypeOK /\ RefExact /\ FreeListSound
  /\ PrivateInv /\ FreshInv /\ PushInv /\ FaultInv /\ ForkInv /\ DataInv

\* What is added with one hart: nobody else gives up the shared page a fault is
\* copying, so that dec_page_ref leaves a reference to it.
OneHartInv ==
  /\ \A p, q \in InKernel : p = q
  /\ \A p \in Proc : pc[p] \in {"fault_alloc", "fault_copy", "fault_dec"} => ref[pa[p][va[p]]] > 1
  /\ \A g \in Page : ref[g] = 0 => Returned(g)
=============================================================================
