-------------------------------- MODULE Heap --------------------------------
(***************************************************************************)
(* The heap of a process: malloc, free and the part of exit that gives the *)
(* heap back (kernel/syscall.c), over the first-fit lists of               *)
(* kernel/process.c.                                                       *)
(*                                                                         *)
(* Addresses and sizes count words of 8 bytes from heap_bottom, since      *)
(* malloc rounds its argument up to 8.  A block is its header of HDR words *)
(* and size words behind it.  Sharing of the pages after a fork is the     *)
(* subject of Cow.                                                         *)
(***************************************************************************)
EXTENDS Integers, Sequences, FiniteSets, FiniteSetsExt, SequencesExt

CONSTANTS
  HDR,       \* words of a pd header (the code has 3)
  PAGE,      \* words of a page (the code has 512)
  Requests,  \* sizes programs ask for, in words
  Pages,     \* bound: physical pages there are for the heap
  MaxLive,   \* bound: blocks in use at a time
  WORD       \* 2^64 in the code: sizes are unsigned

ASSUME HeapAssumption ==
  /\ HDR \in Nat \ {0} /\ PAGE \in Nat /\ PAGE > HDR
  /\ Requests \subseteq Nat \ {0} /\ Pages \in Nat /\ MaxLive \in Nat
  /\ WORD \in Nat

VARIABLES
  free,    \* free_list, as a sequence of [va, size]
  alloc,   \* alloc_list, the newest block first
  top,     \* heap_top
  pages,   \* physical pages left
  state    \* "running", "exited", or "panic"

vars == <<free, alloc, top, pages, state>>

Init ==
  /\ free = << >> /\ alloc = << >> /\ top = 0
  /\ pages = Pages /\ state = "running"

Block(va, size) == [va |-> va, size |-> size]

End(b) == b.va + HDR + b.size

PageOf(b) == b.va \div PAGE

(***************************************************************************)
(* The lists                                                               *)
(***************************************************************************)
\* Mutant: the list is not sorted.
InsertFreeUnsorted(list, b) == <<b>> \o list

\* insert_free_block with sort_pd_list_ascend: before the first block that is
\* not below it.  A block of size 0 is not put back, except into an empty list.
InsertFree(list, b) ==
  LET k == SelectInSeq(list, LAMBDA c : c.va >= b.va) IN
  IF list # << >> /\ b.size = 0 THEN list
  ELSE IF k = 0 THEN Append(list, b) ELSE InsertAt(list, k, b)

\* sort_free_list_ascend takes the blocks one by one into a new list.
SortFree(list) == FoldLeft(InsertFree, << >>, list)

\* Mutant: blocks of a page merge whatever lies between them.
MergeStepOverGap(list, b) ==
  IF list # << >> /\ PageOf(Last(list)) = PageOf(b)
  THEN Append(Front(list), Block(Last(list).va, End(b) - Last(list).va - HDR))
  ELSE Append(list, b)

\* One step of merge_free_blocks: neighbours merge when both start in a page.
MergeStep(list, b) ==
  IF list # << >> /\ End(Last(list)) = b.va /\ PageOf(Last(list)) = PageOf(b)
  THEN Append(Front(list), Block(Last(list).va, Last(list).size + HDR + b.size))
  ELSE Append(list, b)

MergeFree(list) == SortFree(FoldLeft(MergeStep, << >>, SortFree(list)))

\* first_fit_alloc takes the first block that has the size, or that has room
\* for another header; 0 if there is none.
Fits(b, n) == b.size = n \/ b.size >= n + HDR

FirstFit(list, n) == SelectInSeq(list, LAMBDA b : Fits(b, n))

\* Mutants: the rest starts at the end of the contents without the header, or
\* is forgotten.
SplitOverlaps(list, k, n) ==
  IF list[k].size = n THEN RemoveAt(list, k)
  ELSE [list EXCEPT ![k] = Block(@.va + n, @.size - n)]

SplitForgets(list, k, n) == RemoveAt(list, k)

\* The list without the n words allocated from its k-th block.
Split(list, k, n) ==
  IF list[k].size = n THEN RemoveAt(list, k)
  ELSE [list EXCEPT ![k] = Block(@.va + HDR + n, @.size - n - HDR)]

Take(list, n) ==
  LET k == FirstFit(list, n) IN
  /\ free' = Split(list, k, n)
  /\ alloc' = <<Block(list[k].va, n)>> \o alloc

(***************************************************************************)
(* malloc                                                                  *)
(***************************************************************************)
Small(n) == n + HDR <= PAGE

MallocFits(n) ==
  /\ state = "running"
  /\ FirstFit(free, n) # 0
  /\ Take(free, n)
  /\ UNCHANGED <<top, pages, state>>

\* A request that fits in a page gets a new one.  The page may still not do:
\* then malloc returns NULL and the page is left on the free list.
MallocPage(n) ==
  /\ state = "running"
  /\ Small(n) /\ FirstFit(free, n) = 0 /\ pages > 0
  /\ pages' = pages - 1
  /\ top' = top + PAGE
  /\ LET list == InsertFree(free, Block(top, PAGE - HDR)) IN
     IF FirstFit(list, n) # 0 THEN Take(list, n)
     ELSE free' = list /\ UNCHANGED alloc
  /\ UNCHANGED state

\* The block a large request starts with: the highest free one if it reaches
\* heap_top, else a new page at heap_top.
Extends == free # << >> /\ End(Last(free)) >= top

Start == IF Extends THEN Last(free) ELSE Block(top, PAGE - HDR)

\* The pages behind it: as many as the rest fills, and another one if the rest
\* does not end at a page boundary.
Fill(rest) == IF rest <= 0 THEN 0 ELSE (rest + PAGE - 1) \div PAGE

MorePages(rest) == Fill(rest) + IF Fill(rest) * PAGE # rest THEN 1 ELSE 0

\* A request of more than a page, when no free block fits.
MallocLarge(n) ==
  /\ state = "running"
  /\ ~Small(n) /\ FirstFit(free, n) = 0
  /\ LET rest  == n - Start.size
         list  == IF Extends THEN Front(free) ELSE free
         first == IF Extends THEN 0 ELSE 1
         top1  == top + first * PAGE
         left  == top1 + MorePages(rest) * PAGE - (top1 + rest)
     IN
     /\ pages >= first + MorePages(rest)
     /\ pages' = pages - first - MorePages(rest)
     /\ top' = top1 + MorePages(rest) * PAGE
     /\ free' = IF left = 0 THEN list
                ELSE InsertFree(list, Block(top1 + rest, left - HDR))
     /\ alloc' = <<Block(Start.va, n)>> \o alloc
  /\ UNCHANGED state

\* The pages run out half way.  The block started is made free, with a size
\* computed from the page the loop has reached, one too small.
MallocLargeFails(n) ==
  /\ state = "running"
  /\ ~Small(n) /\ FirstFit(free, n) = 0
  /\ LET first == IF Extends THEN 0 ELSE 1
         got   == pages - first
     IN
     /\ pages > 0
     /\ pages < first + MorePages(n - Start.size)
     /\ free' = InsertFree(IF Extends THEN Front(free) ELSE free,
                  Block(Start.va, ((got - 1) * PAGE + Start.size) % WORD))
     /\ top' = top + pages * PAGE
  /\ pages' = 0
  /\ UNCHANGED <<alloc, state>>

(***************************************************************************)
(* free and exit                                                           *)
(***************************************************************************)
\* first_fit_free: back on the list, sorted, and merged.
Freed(list, b) == MergeFree(InsertFree(list, b))

Free(k) ==
  /\ state = "running"
  /\ alloc' = RemoveAt(alloc, k)
  /\ free' = Freed(free, alloc[k])
  /\ UNCHANGED <<top, pages, state>>

\* What exit has on the free list once it has freed every block.
AllFreed ==
  MergeFree(SortFree(FoldLeft(Freed, free, alloc)))

\* It unmaps the page at each block that is not larger than a page, and
\* user_vm_unmap panics unless the block starts at a page boundary.
OnePage(b) == b.size + HDR <= PAGE

Unmappable(b) == OnePage(b) => b.va % PAGE = 0

\* A header behind a block in its page would be read after the page has gone.
Readable(list, k) ==
  \A j \in 1 .. (k - 1) : OnePage(list[j]) => PageOf(list[j]) # PageOf(list[k])

Exit ==
  /\ state = "running"
  /\ LET list == AllFreed IN
     state' = IF \A k \in DOMAIN list : Unmappable(list[k]) /\ Readable(list, k)
              THEN "exited" ELSE "panic"
  /\ free' = << >> /\ alloc' = << >> /\ top' = 0 /\ pages' = Pages

\* Memory does not run out in the middle of a large request.
Next ==
  \/ /\ Len(alloc) < MaxLive
     /\ \E n \in Requests : MallocFits(n) \/ MallocPage(n) \/ MallocLarge(n)
  \/ \E k \in DOMAIN alloc : Free(k)
  \/ Exit

Spec == Init /\ [][Next]_vars

\* It may.
SpecShort == Init /\ [][Next \/ \E n \in Requests : MallocLargeFails(n)]_vars

(***************************************************************************)
(* Properties                                                              *)
(***************************************************************************)
TypeOK ==
  /\ free \in Seq([va : Nat, size : Nat])
  /\ alloc \in Seq([va : Nat, size : Requests])
  /\ top \in 0 .. (Pages * PAGE) /\ pages \in 0 .. Pages
  /\ state \in {"running", "exited", "panic"}

Blocks == Range(free) \cup Range(alloc)

\* Headers and contents of all blocks, free or allocated, are apart from each
\* other and inside the mapped heap: what first_fit_alloc splits and malloc
\* grows, and what free merges, never hands out a word twice.
BlocksApart ==
  /\ \A b \in Blocks : b.va >= 0 /\ End(b) <= top
  /\ \A b, c \in Blocks : b # c => End(b) <= c.va \/ End(c) <= b.va
  /\ Cardinality(Blocks) = Len(free) + Len(alloc)

\* The free list is in address order, on which merge_free_blocks and the
\* choice of the highest block rely, after every split, insertion and merge.
FreeOrdered ==
  /\ TypeOK
  /\ \A k \in 1 .. (Len(free) - 1) : End(free[k]) <= free[k + 1].va

\* A word of the heap that no block covers belongs to a header of an empty
\* block that sort_pd_list_ascend dropped: nothing else is ever lost.
OnlyHeadersLost ==
  LET starts == {b.va : b \in Blocks} \cup {top}
      ends   == {End(b) : b \in Blocks} \cup {0}
  IN  \A e \in ends : \E s \in starts :
        s >= e /\ (s - e) % HDR = 0 /\ \A b \in Blocks : b.va < e \/ b.va >= s

\* Malloc hands out blocks that overlap no block in use, free takes back one.
Live == INSTANCE Allocator WITH live <- {Block(b.va + HDR, b.size) : b \in Range(alloc)}

LiveSpec == Live!Spec

\* exit gives back every page: user_vm_unmap asserts that an address is at a
\* page boundary, and no sequence of malloc and free makes it panic.
ExitAligned == state # "panic"

(***************************************************************************)
(* The inductive invariant.  The proofs are in HeapProofs.                 *)
(***************************************************************************)
Apart(b, c) == End(b) <= c.va \/ End(c) <= b.va

\* Every block of the list ends before the later ones start.
Sorted(list) ==
  \A i, j \in 1 .. Len(list) : i < j => End(list[i]) <= list[j].va

HeapInv ==
  /\ TypeOK
  /\ top = (Pages - pages) * PAGE
  /\ Sorted(free) /\ IsInjective(alloc) /\ Range(free) \cap Range(alloc) = {}
  /\ \A b \in Blocks : End(b) <= top
  /\ \A b, c \in Blocks : b # c => Apart(b, c)
  /\ OnlyHeadersLost
=============================================================================
