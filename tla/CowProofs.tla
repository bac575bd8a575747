------------------------------ MODULE CowProofs ------------------------------
(***************************************************************************)
(* Theorems about Cow: for any number of processes, pages, heap pages and  *)
(* harts, reference counts are exact, the free list is sound, writable     *)
(* pages are private and forked heaps are isolated; on one hart no page is *)
(* lost.                                                                   *)
(***************************************************************************)
EXTENDS CowRefs

(***************************************************************************)
(* Private pages                                                           *)
(***************************************************************************)
\* The steps that give no entry a new page and make no entry private.
Passive(p, v, d, c) ==
  \/ WriteHeader(p, v)
  \/ StoreFaultShared(p, v)
  \/ ReadIntoBuffer(p, v, d)
  \/ Fork(p, c)
  \/ Exit(p)
  \/ Exec(p)
  \/ FaultAlloc(p)
  \/ FaultPanic(p)
  \/ FaultCopy(p)
  \/ FaultMap(p)
  \/ ForkInc(p)
  \/ ForkDone(p)
  \/ UnmapShared(p, v)
  \/ UnmapLast(p, v)
  \/ UnmapPush(p)
  \/ UnmapClear(p)
  \/ UnmapDone(p)
  \/ UserStore(p, v, d)

\* What a table entry holds is what it owns, before a step and after it.
LEMMA OwnsHold ==
  \A q \in Proc, u \in VPage :
    u \in Slot /\ Hold(q, u) = Owns(q, u) /\ Hold(q, u)' = Owns(q, u)'
BY SlotFinite, Zenon DEF Hold, Slot

\* user_vm_map in fork: the child's entry, and no other, comes to own the page.
LEMMA MapOwns ==
  ASSUME IInv, NEW p \in Proc, ForkMap(p), NEW b, b = child[p], NEW y, y = va[p],
         NEW h, h = pa[p][va[p]]
  PROVE  /\ y \in VPage /\ b \in Proc /\ b # p /\ h \in Page /\ h # NoPage
         /\ Owns(b, y)' = h
         /\ \A a \in Proc, e \in VPage : ~(a = b /\ e = y) => Owns(a, e)' = Owns(a, e)
<1>1. /\ y \in VPage /\ b \in Proc /\ b # p /\ h \in Page
      /\ Hold(b, y)' = h /\ OthersKeep(b, y, p, Op)
  BY HoldMap, ZenonT(30)
<1>2. h # NoPage
  BY <1>1, CowAssumption, Zenon
<1>3. Owns(b, y)' = h
  BY <1>1, OwnsHold, Zenon
<1>4. ASSUME NEW a \in Proc, NEW e \in VPage, ~(a = b /\ e = y)
      PROVE  Owns(a, e)' = Owns(a, e)
  <2>1. e \in Slot /\ e # Op
    BY SlotFinite, CowAssumption, Zenon DEF Slot
  <2>2. Hold(a, e)' = Hold(a, e)
    BY <1>1, <1>4, <2>1, Zenon DEF OthersKeep
  <2> QED  BY <2>2, OwnsHold, Zenon
<1> QED  BY <1>1, <1>2, <1>3, <1>4, Zenon

\* The owner of a page is among its holders.
LEMMA OwnerHolds ==
  ASSUME NEW q \in Proc, NEW u \in VPage, NEW g, Owns(q, u) = g
  PROVE  <<q, u>> \in Holders(g)
BY OwnsHold, Zenon DEF Holders

\* In the steps of Passive an entry keeps what it owns or gives it up.
LEMMA PassiveOwns ==
  ASSUME IInv, NEW p \in Proc, NEW v \in VPage, NEW d \in Data, NEW c \in Proc,
         Passive(p, v, d, c)
  PROVE  \A q \in Proc, u \in VPage : Owns(q, u)' = Owns(q, u) \/ Owns(q, u)' = NoPage
<1>1. CASE Quiet(p, v, d, c)
  BY <1>1, HoldQuiet, OwnsHold, Zenon
<1>2. CASE FaultAlloc(p)
  BY <1>2, HoldAlloc, OwnsHold, SlotFinite DEF OthersKeep
<1>3. CASE ForkInc(p)
  BY <1>3, HoldInc, OwnsHold, SlotFinite DEF OthersKeep
<1>4. CASE UnmapShared(p, v) \/ UnmapLast(p, v)
  BY <1>4, HoldDrop, OwnsHold DEF OthersKeep
<1> QED  BY <1>1, <1>2, <1>3, <1>4, Zenon DEF Passive, Quiet

\* The steps of Passive make no entry writable.
LEMMA PassivePrivate ==
  ASSUME IInv, NEW p \in Proc, NEW v \in VPage, NEW d \in Data, NEW c \in Proc,
         Passive(p, v, d, c), NEW q \in Proc, NEW u \in VPage,
         Private(q, u)', Owns(q, u)' # NoPage
  PROVE  Private(q, u)
<1> USE DEF vars, mem, words, table, control, views, MayTrap, At, Goto, SetPte, Mapped
<1>0. TypeOK /\ FaultInv /\ ForkInv
  BY Zenon DEF IInv
<1>1. CASE WriteHeader(p, v)
  BY <1>0, <1>1, Zenon DEF TypeOK, Private, WriteHeader
<1>2. CASE StoreFaultShared(p, v)
  BY <1>0, <1>2, Zenon DEF TypeOK, Private, StoreFaultShared
<1>3. CASE ReadIntoBuffer(p, v, d)
  BY <1>0, <1>3, Zenon DEF TypeOK, Private, ReadIntoBuffer
<1>4. CASE Fork(p, c)
  BY <1>0, <1>4, Zenon DEF TypeOK, Private, Fork
<1>5. CASE Exit(p)
  BY <1>0, <1>5, Zenon DEF TypeOK, Private, Exit
<1>6. CASE Exec(p)
  BY <1>0, <1>6, Zenon DEF TypeOK, Private, Exec
<1>7. CASE FaultAlloc(p)
  BY <1>0, <1>7, Zenon DEF TypeOK, Private, FaultAlloc
<1>8. CASE FaultPanic(p)
  BY <1>0, <1>8, Zenon DEF TypeOK, Private, FaultPanic
<1>9. CASE FaultCopy(p)
  BY <1>0, <1>9, Zenon DEF TypeOK, Private, FaultCopy
<1>10. CASE FaultMap(p)
  BY <1>0, <1>10, Zenon DEF TypeOK, Private, FaultMap, FaultInv
<1>11. CASE ForkInc(p)
  BY <1>0, <1>11, Zenon DEF TypeOK, Private, ForkInc
<1>12. CASE ForkDone(p)
  BY <1>0, <1>12 DEF TypeOK, Private, ForkDone, ForkInv
<1>13. CASE UnmapShared(p, v)
  BY <1>0, <1>13, Zenon DEF TypeOK, Private, UnmapShared
<1>14. CASE UnmapLast(p, v)
  BY <1>0, <1>14, Zenon DEF TypeOK, Private, UnmapLast
<1>15. CASE UnmapPush(p)
  BY <1>0, <1>15, Zenon DEF TypeOK, Private, UnmapPush
<1>16. CASE UnmapClear(p)
  BY <1>0, <1>16, Zenon DEF TypeOK, Private, UnmapClear, FaultInv, Owns
<1>17. CASE UnmapDone(p)
  BY <1>0, <1>17, ZenonT(30) DEF TypeOK, Private, UnmapDone
<1>18. CASE UserStore(p, v, d)
  BY <1>0, <1>18, Zenon DEF TypeOK, Private, UserStore
<1> QED  BY <1>1, <1>2, <1>3, <1>4, <1>5, <1>6, <1>7, <1>8, <1>9, <1>10, <1>11, <1>12, <1>13, <1>14, <1>15, <1>16, <1>17, <1>18, SMTT(30) DEF Passive

\* A step keeps writable entries private.
LEMMA PrivateStep ==
  ASSUME IInv, NEW p \in Proc, NEW v \in VPage, NEW d \in Data, NEW c \in Proc,
         Step(p, v, d, c)
  PROVE  PrivateInv'
<1> SUFFICES ASSUME NEW q \in Proc, NEW r \in Proc, NEW u \in VPage, NEW w \in VPage,
                    Private(q, u)', Owns(q, u)' # NoPage, q # r \/ u # w,
                    Owns(r, w)' = Owns(q, u)'
             PROVE  FALSE
  BY Zenon DEF PrivateInv
<1>0. /\ TypeOK /\ FreeListSound /\ FreshInv /\ PrivateInv /\ v \in Slot /\ Op \in Slot
      /\ VPage \subseteq Slot /\ Op \notin VPage
  BY SlotFinite, Zenon DEF IInv, Slot
<1>1. CASE Passive(p, v, d, c)
  BY <1>0, <1>1, PassiveOwns, PassivePrivate DEF PrivateInv
<1>2. CASE StoreFaultSole(p, v)
  <2>1. \A a \in Proc, e \in VPage : Owns(a, e)' = Owns(a, e)
    BY <1>2, HoldQuiet, OwnsHold DEF Quiet
  <2>2. CASE q = p /\ u = v
    <3>1. PICK h : h = pa[p][v]
      BY Zenon
    <3>2. Owns(p, v) = h /\ h \in Page /\ ~(ref[h] > 1)
      BY <1>0, <1>2, <3>1 DEF StoreFaultSole, Owns, MayTrap, TypeOK, Mapped
    <3>3. <<p, v>> \in Holders(h) /\ <<r, w>> \in Holders(h)
      BY <1>0, <2>1, <2>2, <3>2, OwnsHold DEF Holders
    <3>4. Holders(h) = {<<p, v>>}
      BY <3>2, <3>3, OneMember, HoldersFinite, Zenon DEF IInv, RefExact
    <3> QED  BY <2>2, <3>3, <3>4, Zenon
  <2>3. CASE ~(q = p /\ u = v)
    <3>1. Private(q, u)
      BY <1>0, <1>2, <2>3, Zenon DEF StoreFaultSole, Private, TypeOK, Goto, table
    <3> QED  BY <1>0, <2>1, <3>1 DEF PrivateInv
  <2> QED  BY <2>2, <2>3, Zenon
<1>3. CASE GrowHeap(p, v)
  <2>1. PICK h : h = Head(freeList)
    BY Zenon
  <2>2. h \in Page /\ Holders(h) = {}
    BY <1>0, <1>3, <2>1, FreeHead, Zenon DEF GrowHeap
  <2>3. /\ Owns(p, v)' = h
        /\ \A a \in Proc, e \in VPage : ~(a = p /\ e = v) => Owns(a, e)' = Owns(a, e)
    BY <1>3, <2>1, HoldGrow, OwnsHold DEF OthersKeep
  <2>4. \A a \in Proc, e \in VPage : Owns(a, e) # h
    BY <2>2, OwnerHolds, ZenonT(30)
  <2>5. ~(q = p /\ u = v) /\ ~(r = p /\ w = v)
    BY <2>3, <2>4
  <2>6. Private(q, u)
    BY <1>0, <1>3, <2>5, Zenon DEF GrowHeap, Private, TypeOK, SetPte, control
  <2> QED  BY <1>0, <2>3, <2>5, <2>6 DEF PrivateInv
<1>4. CASE FaultDec(p)
  <2>1. PICK y, old, new : y = va[p] /\ old = pa[p][va[p]] /\ new = pg[p]
    BY Zenon
  <2>2. /\ y \in VPage /\ Owns(p, y)' = new
        /\ \A a \in Proc, e \in VPage : ~(a = p /\ e = y) => Owns(a, e)' = Owns(a, e)
    BY <1>0, <1>4, <2>1, HoldDec, OwnsHold DEF OthersKeep
  <2>3. \A a \in Proc, e \in VPage : Owns(a, e) # new
    <3>1. Holders(new) = {<<p, Op>>}
      BY <1>0, <1>4, <2>1, Zenon DEF FreshInv, FaultDec, At
    <3>2. \A a \in Proc, e \in VPage : <<a, e>> # <<p, Op>>
      BY <1>0, Zenon
    <3> QED  BY <3>1, <3>2, OwnerHolds, ZenonT(30)
  <2>4. ~(q = p /\ u = y) /\ ~(r = p /\ w = y)
    BY <2>2, <2>3
  <2>5. Private(q, u)
    BY <1>0, <1>4, <2>1, <2>4, Zenon DEF FaultDec, Private, TypeOK, Goto, table
  <2> QED  BY <1>0, <2>2, <2>4, <2>5 DEF PrivateInv
<1>5. CASE ForkMap(p)
  <2>1. PICK b, y, h : b = child[p] /\ y = va[p] /\ h = pa[p][va[p]]
    BY Zenon
  <2>2. /\ y \in VPage /\ b \in Proc /\ b # p /\ h \in Page /\ h # NoPage /\ Owns(b, y)' = h
        /\ \A a \in Proc, e \in VPage : ~(a = b /\ e = y) => Owns(a, e)' = Owns(a, e)
    BY <1>5, <2>1, MapOwns
  <2>3. Owns(p, y) = h /\ pc[b] = "embryo" /\ pc[p] = "fork_map"
    BY <1>5, <2>1, Zenon DEF ForkMap, At, Owns, IInv, ForkInv
  <2>4. /\ cow'[b][y] = TRUE /\ cow'[p][y] = TRUE
        /\ pc'[b] = "embryo" /\ pc'[p] = "fork_inc"
    BY <1>0, <1>5, <2>1, <2>2, <2>3, Zenon DEF ForkMap, TypeOK, Goto
  <2>5. ~(q = b /\ u = y) /\ ~(q = p /\ u = y)
    BY <2>4, Zenon DEF Private
  <2>6. Private(q, u)
    BY <1>0, <1>5, <2>1, <2>2, <2>4, <2>5, Zenon DEF ForkMap, Private, TypeOK, Goto
  <2>7. CASE r = b /\ w = y
    <3>1. Owns(q, u) = h
      BY <2>2, <2>5, <2>7, ZenonT(30)
    <3> QED  BY <1>0, <2>2, <2>3, <2>5, <2>6, <3>1 DEF PrivateInv
  <2>8. CASE ~(r = b /\ w = y)
    BY <1>0, <2>2, <2>5, <2>6, <2>8 DEF PrivateInv
  <2> QED  BY <2>7, <2>8, Zenon
<1> QED  BY <1>1, <1>2, <1>3, <1>4, <1>5, Zenon DEF Step, Passive

(***************************************************************************)
(* Isolation                                                               *)
(***************************************************************************)
\* The steps that leave user data, and what processes should see of it, alone
\* and that bring no page to a table entry.
Silent(p, v, d, c) ==
  \/ WriteHeader(p, v)
  \/ StoreFaultShared(p, v)
  \/ StoreFaultSole(p, v)
  \/ Fork(p, c)
  \/ Exit(p)
  \/ Exec(p)
  \/ FaultAlloc(p)
  \/ FaultPanic(p)
  \/ FaultMap(p)
  \/ ForkInc(p)
  \/ ForkDone(p)
  \/ UnmapShared(p, v)
  \/ UnmapLast(p, v)
  \/ UnmapPush(p)
  \/ UnmapDone(p)

\* The steps of Silent store no data and copy none.
LEMMA SilentKeep ==
  ASSUME IInv, NEW p \in Proc, NEW v \in VPage, NEW d \in Data, NEW c \in Proc,
         Silent(p, v, d, c)
  PROVE  /\ data' = data /\ viewD' = viewD
         /\ \A q \in Proc : pc'[q] = "fault_dec" =>
              pc[q] = "fault_dec" /\ pg'[q] = pg[q] /\ va'[q] = va[q]
<1> USE DEF vars, mem, words, table, control, views, MayTrap, At, Goto, SetPte
<1>0. TypeOK
  BY Zenon DEF IInv
<1>1. CASE WriteHeader(p, v)
  BY <1>0, <1>1, Zenon DEF TypeOK, WriteHeader
<1>2. CASE StoreFaultShared(p, v)
  BY <1>0, <1>2, Zenon DEF TypeOK, StoreFaultShared
<1>3. CASE StoreFaultSole(p, v)
  BY <1>0, <1>3, Zenon DEF TypeOK, StoreFaultSole
<1>4. CASE Fork(p, c)
  BY <1>0, <1>4, Zenon DEF TypeOK, Fork
<1>5. CASE Exit(p)
  BY <1>0, <1>5, Zenon DEF TypeOK, Exit
<1>6. CASE Exec(p)
  BY <1>0, <1>6, Zenon DEF TypeOK, Exec
<1>7. CASE FaultAlloc(p)
  BY <1>0, <1>7, Zenon DEF TypeOK, FaultAlloc
<1>8. CASE FaultPanic(p)
  BY <1>0, <1>8, Zenon DEF TypeOK, FaultPanic
<1>9. CASE FaultMap(p)
  BY <1>0, <1>9, Zenon DEF TypeOK, FaultMap
<1>10. CASE ForkInc(p)
  BY <1>0, <1>10, Zenon DEF TypeOK, ForkInc
<1>11. CASE ForkDone(p)
  BY <1>0, <1>11, Zenon DEF TypeOK, ForkDone
<1>12. CASE UnmapShared(p, v)
  BY <1>0, <1>12, Zenon DEF TypeOK, UnmapShared
<1>13. CASE UnmapLast(p, v)
  BY <1>0, <1>13, Zenon DEF TypeOK, UnmapLast
<1>14. CASE UnmapPush(p)
  BY <1>0, <1>14, Zenon DEF TypeOK, UnmapPush
<1>15. CASE UnmapDone(p)
  BY <1>0, <1>15, Zenon DEF TypeOK, UnmapDone
<1> QED  BY <1>1, <1>2, <1>3, <1>4, <1>5, <1>6, <1>7, <1>8, <1>9, <1>10, <1>11, <1>12, <1>13, <1>14, <1>15, Zenon DEF Silent

\* A step keeps every page equal to what its holders should see in it.
LEMMA DataStep ==
  ASSUME IInv, NEW p \in Proc, NEW v \in VPage, NEW d \in Data, NEW c \in Proc,
         Step(p, v, d, c)
  PROVE  DataInv'
<1> SUFFICES ASSUME "read" \notin Syscalls, NEW q \in Proc
             PROVE  /\ \A u \in VPage : Owns(q, u)' # NoPage => (data[Owns(q, u)] = viewD[q][u])'
                    /\ pc'[q] = "fault_dec" => data'[pg'[q]] = viewD'[q][va'[q]]
  BY Zenon DEF DataInv
<1>0. /\ TypeOK /\ FreeListSound /\ FreshInv /\ PrivateInv /\ FaultInv /\ ForkInv
      /\ VPage \subseteq Slot /\ Op \notin VPage /\ NoPage \notin Page
  BY SlotFinite, CowAssumption, Zenon DEF IInv, Slot
<1>a. \A a \in Proc :
        /\ \A u \in VPage : Owns(a, u) # NoPage => data[Owns(a, u)] = viewD[a][u]
        /\ pc[a] = "fault_dec" => data[pg[a]] = viewD[a][va[a]]
  BY Zenon DEF IInv, DataInv
<1>1. CASE Silent(p, v, d, c)
  <2>1. \A u \in VPage : Owns(q, u)' = Owns(q, u) \/ Owns(q, u)' = NoPage
    <3>1. CASE StoreFaultSole(p, v)
      BY <3>1, HoldQuiet, OwnsHold, Zenon DEF Quiet
    <3>2. CASE ~StoreFaultSole(p, v)
      BY <1>1, <3>2, PassiveOwns, Zenon DEF Silent, Passive
    <3> QED  BY <3>1, <3>2, Zenon
  <2> QED  BY <1>a, <1>1, <2>1, SilentKeep
<1>2. CASE GrowHeap(p, v)
  <2>1. PICK h : h = Head(freeList)
    BY Zenon
  <2>2. h \in Page /\ Holders(h) = {}
    BY <1>0, <1>2, <2>1, FreeHead, Zenon DEF GrowHeap
  <2>3. /\ Owns(p, v)' = h
        /\ \A a \in Proc, e \in VPage : ~(a = p /\ e = v) => Owns(a, e)' = Owns(a, e)
    BY <1>2, <2>1, HoldGrow, OwnsHold DEF OthersKeep
  <2>4. /\ data' = data /\ viewD' = [viewD EXCEPT ![p][v] = data[h]] /\ pc[p] = "user"
        /\ pc' = pc /\ pg' = pg /\ va' = va
    BY <1>2, <2>1, Zenon DEF GrowHeap, control, MayTrap
  <2> QED  BY <1>0, <1>a, <2>3, <2>4 DEF TypeOK
<1>3. CASE ReadIntoBuffer(p, v, d)
  BY <1>3, Zenon DEF ReadIntoBuffer
<1>4. CASE UserStore(p, v, d)
  <2>1. PICK h : h = pa[p][v]
    BY Zenon
  <2>2. \A a \in Proc, e \in VPage : Owns(a, e)' = Owns(a, e)
    BY <1>4, HoldQuiet, OwnsHold, Zenon DEF Quiet
  <2>3. Owns(p, v) = h /\ h \in Page /\ h # NoPage /\ Private(p, v)
    BY <1>0, <1>4, <2>1 DEF UserStore, Owns, Private, Mapped, TypeOK
  <2>4. \A a \in Proc, e \in VPage : ~(a = p /\ e = v) => Owns(a, e) # h
    BY <1>0, <2>3, Zenon DEF PrivateInv
  <2>5. /\ data' = [data EXCEPT ![h] = d] /\ viewD' = [viewD EXCEPT ![p][v] = d]
        /\ pc' = pc /\ pg' = pg /\ va' = va /\ pc[p] = "user"
    BY <1>4, <2>1, Zenon DEF UserStore, control
  <2>6. pc[q] = "fault_dec" => q # p /\ pg[q] # h /\ pg[q] \in Page
    <3> SUFFICES ASSUME pc[q] = "fault_dec" PROVE q # p /\ pg[q] # h /\ pg[q] \in Page
      BY Zenon
    <3>1. q \in Fresh /\ q # p
      BY <2>5, Zenon DEF Fresh
    <3>2. Hold(p, v) = h /\ v \in Slot
      BY <2>3, OwnsHold, Zenon
    <3> QED  BY <1>0, <3>1, <3>2, NotFresh, Zenon DEF FreshInv, Fresh
  <2>7. \A u \in VPage : Owns(q, u) # NoPage => Owns(q, u) \in Page
    BY <1>0, SMTT(30) DEF TypeOK, Owns, FaultInv
  <2> QED  BY <1>0, <1>a, <2>2, <2>3, <2>4, <2>5, <2>6, <2>7, SMTT(30) DEF TypeOK
<1>5. CASE FaultCopy(p)
  <2>1. PICK y, old, new : y = va[p] /\ old = pa[p][va[p]] /\ new = pg[p]
    BY Zenon
  <2>2. \A a \in Proc, e \in VPage : Owns(a, e)' = Owns(a, e)
    BY <1>5, HoldQuiet, OwnsHold, Zenon DEF Quiet
  <2>3. y \in VPage /\ old \in Page /\ new \in Page /\ Holders(new) = {<<p, Op>>}
    BY <1>0, <1>5, <2>1 DEF FaultCopy, At, FaultInv, FreshInv, TypeOK, Mapped
  <2>4. \A a \in Proc, e \in VPage : Owns(a, e) # new
    <3>1. \A a \in Proc, e \in VPage : <<a, e>> # <<p, Op>>
      BY <1>0, Zenon
    <3> QED  BY <2>3, <3>1, OwnerHolds, ZenonT(30)
  <2>5. Owns(p, y) = old /\ data[old] = viewD[p][y]
    BY <1>0, <1>a, <1>5, <2>1, <2>3, Zenon DEF FaultCopy, At, Owns
  <2>6. /\ data' = [data EXCEPT ![new] = data[old]] /\ viewD' = viewD
        /\ pg' = pg /\ va' = va /\ pc' = [pc EXCEPT ![p] = "fault_dec"]
    BY <1>5, <2>1, Zenon DEF FaultCopy, views, Goto
  <2>7. \A u \in VPage : Owns(q, u) # NoPage => Owns(q, u) \in Page
    BY <1>0 DEF TypeOK, Owns, FaultInv
  <2>8. \A u \in VPage : Owns(q, u)' # NoPage => (data[Owns(q, u)] = viewD[q][u])'
    BY <1>0, <1>a, <2>2, <2>4, <2>6, <2>7, SMTT(30) DEF TypeOK
  <2>9. pc'[q] = "fault_dec" => data'[pg'[q]] = viewD'[q][va'[q]]
    <3>1. CASE q = p
      BY <1>0, <2>1, <2>3, <2>5, <2>6, <3>1, Zenon DEF TypeOK
    <3>2. CASE q # p
      <4> SUFFICES ASSUME pc[q] = "fault_dec" PROVE data'[pg[q]] = viewD[q][va[q]]
        BY <1>0, <2>6, <3>2, Zenon DEF TypeOK
      <4>1. Holders(pg[q]) = {<<q, Op>>} /\ pg[q] \in Page
        BY <1>0, Zenon DEF FreshInv
      <4>2. pg[q] # new
        <5>1. <<p, Op>> # <<q, Op>>
          BY <3>2, Zenon
        <5>2. {<<p, Op>>} # {<<q, Op>>}
          BY <5>1, ZenonT(30)
        <5> QED  BY <2>3, <4>1, <5>2, Zenon
      <4> QED  BY <1>0, <1>a, <2>6, <4>1, <4>2, Zenon DEF TypeOK
    <3> QED  BY <3>1, <3>2, Zenon
  <2> QED  BY <2>8, <2>9, Zenon
<1>6. CASE FaultDec(p)
  <2>1. PICK y, old, new : y = va[p] /\ old = pa[p][va[p]] /\ new = pg[p]
    BY Zenon
  <2>2. /\ y \in VPage /\ Owns(p, y)' = new
        /\ \A a \in Proc, e \in VPage : ~(a = p /\ e = y) => Owns(a, e)' = Owns(a, e)
    BY <1>0, <1>6, <2>1, HoldDec, OwnsHold DEF OthersKeep
  <2>3. /\ data' = data /\ viewD' = viewD /\ pg' = pg /\ va' = va
        /\ pc[p] = "fault_dec" /\ pc' = [pc EXCEPT ![p] = "fault_map"]
    BY <1>6, ZenonT(30) DEF FaultDec, At, Goto, words, views
  <2>4. data[new] = viewD[p][y]
    BY <1>a, <2>1, <2>3, ZenonT(30)
  <2> QED  BY <1>0, <1>a, <2>2, <2>3, <2>4 DEF TypeOK
<1>7. CASE ForkMap(p)
  <2>1. PICK b, y, h : b = child[p] /\ y = va[p] /\ h = pa[p][va[p]]
    BY Zenon
  <2>2. /\ y \in VPage /\ b \in Proc /\ b # p /\ h \in Page /\ h # NoPage /\ Owns(b, y)' = h
        /\ \A a \in Proc, e \in VPage : ~(a = b /\ e = y) => Owns(a, e)' = Owns(a, e)
    BY <1>7, <2>1, MapOwns
  <2>3. Owns(p, y) = h /\ pc[b] = "embryo" /\ pc[p] = "fork_map"
    BY <1>7, <2>1, Zenon DEF ForkMap, At, Owns, IInv, ForkInv
  <2>4. data[h] = viewD[p][y]
    BY <1>a, <2>2, <2>3, SMTT(30)
  <2>5. /\ data' = data /\ viewD' = [viewD EXCEPT ![b][y] = viewD[p][y]] /\ pg' = pg
        /\ va' = [va EXCEPT ![p] = @ + 1] /\ pc' = [pc EXCEPT ![p] = "fork_inc"]
    BY <1>7, <2>1, Zenon DEF ForkMap, Goto, words
  <2>6. \A u \in VPage : Owns(q, u)' # NoPage => (data[Owns(q, u)] = viewD[q][u])'
    BY <1>0, <1>a, <2>2, <2>4, <2>5, SMTT(30) DEF TypeOK
  <2>7. pc'[q] = "fault_dec" => data'[pg'[q]] = viewD'[q][va'[q]]
    <3> SUFFICES ASSUME pc'[q] = "fault_dec" PROVE data'[pg'[q]] = viewD'[q][va'[q]]
      BY Zenon
    <3>1. q # p /\ pc[q] = "fault_dec" /\ q # b /\ va'[q] = va[q]
      BY <1>0, <2>3, <2>5, Zenon DEF TypeOK
    <3>2. viewD'[q] = viewD[q]
      BY <1>0, <2>5, <3>1, Zenon DEF TypeOK
    <3> QED  BY <1>a, <2>5, <3>1, <3>2, Zenon
  <2> QED  BY <2>6, <2>7, Zenon
<1>8. CASE UnmapClear(p)
  <2>1. PICK y : y = va[p]
    BY Zenon
  <2>2. \A a \in Proc, e \in VPage : Owns(a, e)' = Owns(a, e)
    BY <1>8, HoldQuiet, OwnsHold, Zenon DEF Quiet
  <2>3. Owns(p, y) = NoPage /\ y \in VPage
    BY <1>0, <1>8, <2>1, Zenon DEF UnmapClear, At, Owns, FaultInv
  <2>4. /\ data' = data /\ viewD' = [viewD EXCEPT ![p][y] = NoData]
        /\ \A a \in Proc : a # p => pc'[a] = pc[a] /\ pg'[a] = pg[a] /\ va'[a] = va[a]
        /\ pc'[p] = "unmap"
    BY <1>0, <1>8, <2>1, Zenon DEF UnmapClear, Goto, words, TypeOK
  <2> QED  BY <1>0, <1>a, <2>2, <2>3, <2>4, SMTT(30) DEF TypeOK
<1> QED  BY <1>1, <1>2, <1>3, <1>4, <1>5, <1>6, <1>7, <1>8, ZenonT(30) DEF Step, Silent

(***************************************************************************)
(* Theorems                                                                *)
(***************************************************************************)
\* The state after pmm_init satisfies the invariant.
LEMMA InitIInv == Init => IInv
<1> SUFFICES ASSUME Init PROVE IInv
  BY Zenon
<1> USE CowAssumption
<1>1. Cardinality(Page) \in Nat
  BY FS_CardinalityType, Zenon
<1>2. freeList \in Seq(Page) /\ \A i, j \in DOMAIN freeList : freeList[i] = freeList[j] => i = j
  <2>1. PICK n \in Nat : n = Cardinality(Page)
    BY <1>1, Zenon
  <2>2. freeList \in [1 .. n -> Page] /\ \A i, j \in DOMAIN freeList : freeList[i] = freeList[j] => i = j
    BY <2>1, Zenon DEF Init
  <2>3. \A m \in Nat : [1 .. m -> Page] \subseteq Seq(Page)
    OBVIOUS
  <2> QED  BY <2>2, <2>3, Zenon
<1>3. TypeOK
  BY <1>2, SlotFinite, ZenonT(30) DEF Init, TypeOK, KernelPC
<1>4. \A q \in Proc, l \in Slot : Hold(q, l) = NoPage
  BY Zenon DEF Init, Hold, Owns, InHand, Slot
<1>5. \A g \in Page : Holders(g) = {}
  BY <1>4, Zenon DEF Holders
<1>6. RefExact
  BY <1>5, FS_EmptySet, ZenonT(30) DEF Init, RefExact
<1>7. Pushing = {} /\ \A q \in Proc : pc[q] \in {"user", "none"} /\ child[q] = NoProc
  BY Zenon DEF Init, Pushing
<1>8. FreeListSound
  BY <1>2, <1>5, <1>7 DEF FreeListSound
<1>9. PrivateInv
  BY <1>4, OwnsHold, Zenon DEF PrivateInv
<1>10. FreshInv /\ PushInv /\ FaultInv
  BY <1>7, Zenon DEF FreshInv, PushInv, FaultInv
<1>11. ForkInv
  BY <1>7, Zenon DEF ForkInv, Init, Mapped
<1>12. DataInv
  BY <1>4, <1>7, OwnsHold, Zenon DEF DataInv
<1> QED  BY <1>3, <1>6, <1>8, <1>9, <1>10, <1>11, <1>12, Zenon DEF IInv

\* Every step of Next is one of the steps the lemmas above are about.
LEMMA NextStep ==
  ASSUME Next
  PROVE  \E p \in Proc, v \in VPage, d \in Data, c \in Proc : Step(p, v, d, c)
<1>1. PICK p \in Proc : \/ Trap(p) \/ KernelStep(p)
                       \/ \E v \in VPage, d \in Data : UserStore(p, v, d)
  BY Zenon DEF Next
<1>2. PICK v0 \in VPage, d0 \in Data : TRUE
  BY CowAssumption DEF VPage
<1>3. CASE Trap(p)
  <2>1. CASE \E v \in VPage : \/ GrowHeap(p, v) \/ WriteHeader(p, v)
                            \/ StoreFaultShared(p, v) \/ StoreFaultSole(p, v)
    BY <1>2, <2>1, Zenon DEF Step
  <2>2. CASE \E v \in VPage, d \in Data : ReadIntoBuffer(p, v, d)
    BY <1>2, <2>2, Zenon DEF Step
  <2>3. CASE \E c \in Proc : Fork(p, c)
    BY <1>2, <2>3, Zenon DEF Step
  <2>4. CASE Exit(p) \/ Exec(p)
    BY <1>2, <2>4, Zenon DEF Step
  <2> QED  BY <1>3, <2>1, <2>2, <2>3, <2>4, Zenon DEF Trap
<1>4. CASE KernelStep(p)
  <2>1. CASE \E v \in VPage : UnmapShared(p, v) \/ UnmapLast(p, v)
    BY <1>2, <2>1, Zenon DEF Step
  <2>2. CASE ~\E v \in VPage : UnmapShared(p, v) \/ UnmapLast(p, v)
    BY <1>2, <1>4, <2>2, Zenon DEF KernelStep, Step
  <2> QED  BY <2>1, <2>2, Zenon
<1>5. CASE \E v \in VPage, d \in Data : UserStore(p, v, d)
  BY <1>5, Zenon DEF Step
<1> QED  BY <1>1, <1>3, <1>4, <1>5, Zenon

\* Every step keeps the invariant.
LEMMA StepIInv == IInv /\ [Next]_vars => IInv'
<1> SUFFICES ASSUME IInv, [Next]_vars PROVE IInv'
  BY Zenon
<1>1. CASE Next
  <2>1. PICK p \in Proc, v \in VPage, d \in Data, c \in Proc : Step(p, v, d, c)
    BY <1>1, NextStep, Zenon
  <2>2. TypeOK' /\ RefExact' /\ FreeListSound' /\ PushInv'
    BY <2>1, TypeStep, RefStep, FreeStep, Zenon
  <2>3. PrivateInv' /\ FreshInv' /\ DataInv'
    BY <2>1, PrivateStep, FreshStep, DataStep, Zenon
  <2>4. FaultInv' /\ ForkInv'
    BY <2>1, FaultStep, ForkStep, Zenon
  <2> QED  BY <2>2, <2>3, <2>4, Zenon DEF IInv
<1>2. CASE UNCHANGED vars
  <2>1. UNCHANGED <<freeList, ref, data, meta, pa, cow, pc, va, pg, child, resume, panicked,
                    viewD, viewM>>
    BY <1>2, Zenon DEF vars, mem, words, table, control, views
  <2>2. /\ \A q \in Proc, u \in VPage : Owns(q, u)' = Owns(q, u) /\ Private(q, u)' = Private(q, u)
        /\ \A q \in Proc, l \in Slot : Hold(q, l)' = Hold(q, l)
        /\ Pushing' = Pushing
    BY <2>1 DEF Owns, Hold, InHand, Private, Pushing
  <2>3. \A g : Holders(g)' = Holders(g)
    BY <2>2, HoldSame, Zenon
  <2>4. TypeOK' /\ FaultInv' /\ ForkInv'
    BY <2>1, Zenon DEF IInv, TypeOK, FaultInv, ForkInv, Mapped
  <2>5. RefExact' /\ FreeListSound' /\ PushInv' /\ FreshInv'
    BY <2>1, <2>2, <2>3, ZenonT(30) DEF IInv, RefExact, FreeListSound, PushInv, FreshInv
  <2>6. PrivateInv' /\ DataInv'
    BY <2>1, <2>2 DEF IInv, PrivateInv, DataInv
  <2> QED  BY <2>4, <2>5, <2>6, Zenon DEF IInv
<1> QED  BY <1>1, <1>2, Zenon

\* The inductive invariant holds in every reachable state.
THEOREM CowInvariant == Spec => []IInv
BY InitIInv, StepIInv, PTL DEF Spec

\* Every variable of the memory manager keeps its type.
THEOREM CowTypeCorrect == Spec => []TypeOK
<1>1. IInv => TypeOK
  BY Zenon DEF IInv
<1> QED  BY CowInvariant, <1>1, PTL

\* page_ref_count is exact, however faults, forks, exits and execs interleave.
THEOREM CountsExact == Spec => []RefExact
<1>1. IInv => RefExact
  BY Zenon DEF IInv
<1> QED  BY CowInvariant, <1>1, PTL

\* No page is ever freed twice, or allocated while somebody holds it.
THEOREM FreeListIsSound == Spec => []FreeListSound
<1>1. IInv => FreeListSound
  BY Zenon DEF IInv
<1> QED  BY CowInvariant, <1>1, PTL

\* A page that can be written without a fault belongs to one table entry.
THEOREM WritablePagesPrivate == Spec => []WritableIsPrivate
<1>1. IInv => WritableIsPrivate
  <2> SUFFICES ASSUME IInv, NEW p \in Proc, NEW q \in Proc, NEW v \in VPage, NEW u \in VPage,
                      pc[p] = "user", Mapped(p, v), ~cow[p][v], <<q, u>> # <<p, v>>
               PROVE  Owns(q, u) # pa[p][v]
    BY Zenon DEF WritableIsPrivate
  <2>1. Owns(p, v) = pa[p][v] /\ Owns(p, v) # NoPage /\ Private(p, v)
    BY Zenon DEF Owns, Private, Mapped
  <2>2. p # q \/ v # u
    BY Zenon
  <2> QED  BY <2>1, <2>2, Zenon DEF IInv, PrivateInv
<1> QED  BY CowInvariant, <1>1, PTL

\* Programs that do not read files into their heap find there what they stored
\* themselves or inherited, whatever their relatives by fork store, free or unmap.
THEOREM HeapsIsolated ==
  ASSUME "read" \notin Syscalls
  PROVE  Spec => []DataIsolated
<1>1. IInv => DataIsolated
  <2> SUFFICES ASSUME IInv, NEW p \in Proc, NEW v \in VPage, pc[p] = "user", Mapped(p, v)
               PROVE  data[pa[p][v]] = viewD[p][v]
    BY Zenon DEF DataIsolated
  <2>1. Owns(p, v) = pa[p][v] /\ Owns(p, v) # NoPage
    BY Zenon DEF Owns, Mapped
  <2> QED  BY <2>1, Zenon DEF IInv, DataInv
<1> QED  BY CowInvariant, <1>1, PTL

-----------------------------------------------------------------------------
(***************************************************************************)
(* One hart: no page is lost                                               *)
(***************************************************************************)
\* The count of a page is 0 exactly when nothing holds it.
LEMMA NoneHold ==
  ASSUME IInv, NEW g \in Page
  PROVE  ref[g] = 0 <=> Holders(g) = {}
<1>1. IsFiniteSet(Proc \X Slot)
  BY CowAssumption, SlotFinite, FS_Product, Zenon
<1>2. IsFiniteSet(Holders(g))
  BY <1>1, FS_Subset, Zenon DEF Holders
<1>3. ref[g] = Cardinality(Holders(g))
  BY Zenon DEF IInv, RefExact
<1> QED  BY <1>2, <1>3, FS_EmptySet, Zenon

\* On one hart a process is in the kernel only when no other is.
LEMMA OneInKernel ==
  ASSUME NCPU = 1, IInv, OneHartInv, NEW p \in Proc, NEW v \in VPage, NEW d \in Data, NEW c \in Proc,
         Step(p, v, d, c), ~UserStore(p, v, d)
  PROVE  \A q \in InKernel' : q = p
<1>1. \A q \in InKernel : q = p
  <2>1. CASE MayTrap(p)
    <3>1. IsFiniteSet(InKernel)
      BY CowAssumption, FS_Subset, Zenon DEF InKernel
    <3>2. Cardinality(InKernel) = 0
      BY <2>1, <3>1, FS_CardinalityType DEF MayTrap
    <3> QED  BY <3>1, <3>2, FS_EmptySet, Zenon
  <2>2. CASE p \in InKernel
    BY <2>2, Zenon DEF OneHartInv
  <2>3. MayTrap(p) \/ pc[p] \in KernelPC
    <3>1. CASE \/ GrowHeap(p, v) \/ WriteHeader(p, v) \/ StoreFaultShared(p, v) \/ StoreFaultSole(p, v)
               \/ ReadIntoBuffer(p, v, d) \/ Fork(p, c) \/ Exit(p) \/ Exec(p)
      BY <3>1, Zenon DEF GrowHeap, WriteHeader, StoreFaultShared, StoreFaultSole, ReadIntoBuffer, Fork, Exit, Exec
    <3>2. CASE FaultAlloc(p) \/ FaultPanic(p) \/ FaultCopy(p) \/ FaultDec(p) \/ FaultMap(p)
      BY <3>2, Zenon DEF FaultAlloc, FaultPanic, FaultCopy, FaultDec, FaultMap, At, KernelPC
    <3>3. CASE ForkInc(p) \/ ForkMap(p) \/ ForkDone(p)
      BY <3>3, Zenon DEF ForkInc, ForkMap, ForkDone, At, KernelPC
    <3>4. CASE UnmapShared(p, v) \/ UnmapLast(p, v) \/ UnmapPush(p) \/ UnmapClear(p) \/ UnmapDone(p)
      BY <3>4, Zenon DEF UnmapShared, UnmapLast, UnmapPush, UnmapClear, UnmapDone, At, KernelPC
    <3> QED  BY <3>1, <3>2, <3>3, <3>4, Zenon DEF Step
  <2> QED  BY <2>1, <2>2, <2>3, Zenon DEF InKernel
<1>2. pc \in [Proc -> {"none", "embryo", "user"} \cup KernelPC]
  BY Zenon DEF IInv, TypeOK
<1>3. ASSUME NEW q \in Proc, q # p PROVE pc'[q] = pc[q] \/ pc'[q] \in {"embryo", "user"}
  <2>1. CASE Fork(p, c)
    BY <1>2, <1>3, <2>1, Zenon DEF Fork
  <2>2. CASE ForkDone(p)
    BY <1>2, <1>3, <2>2, Zenon DEF ForkDone
  <2>3. CASE GrowHeap(p, v) \/ WriteHeader(p, v) \/ ReadIntoBuffer(p, v, d) \/ FaultPanic(p)
    BY <2>3, Zenon DEF GrowHeap, WriteHeader, ReadIntoBuffer, FaultPanic, control
  <2>4. CASE StoreFaultShared(p, v) \/ StoreFaultSole(p, v) \/ Exit(p) \/ Exec(p)
    BY <1>2, <1>3, <2>4, Zenon DEF StoreFaultShared, StoreFaultSole, Exit, Exec, Goto
  <2>5. CASE FaultAlloc(p) \/ FaultCopy(p) \/ FaultDec(p) \/ FaultMap(p) \/ ForkInc(p) \/ ForkMap(p)
    BY <1>2, <1>3, <2>5, Zenon DEF FaultAlloc, FaultCopy, FaultDec, FaultMap, ForkInc, ForkMap, Goto
  <2>6. CASE UnmapShared(p, v) \/ UnmapLast(p, v) \/ UnmapPush(p) \/ UnmapClear(p) \/ UnmapDone(p)
    BY <1>2, <1>3, <2>6, Zenon DEF UnmapShared, UnmapLast, UnmapPush, UnmapClear, UnmapDone, Goto
  <2> QED  BY <2>1, <2>2, <2>3, <2>4, <2>5, <2>6, Zenon DEF Step
<1> QED  BY <1>1, <1>3, Zenon DEF InKernel, KernelPC

\* The page a fault copies stays shared until dec_page_ref.
LEMMA CopiedStaysShared ==
  ASSUME NCPU = 1, IInv, OneHartInv, NEW p \in Proc, NEW v \in VPage, NEW d \in Data, NEW c \in Proc,
         Step(p, v, d, c), NEW q \in Proc, pc'[q] \in {"fault_alloc", "fault_copy", "fault_dec"}
  PROVE  ref'[pa'[q][va'[q]]] > 1
<1>0. TypeOK /\ FreeListSound
  BY Zenon DEF IInv
<1>1. CASE UserStore(p, v, d)
  BY <1>1, Zenon DEF UserStore, mem, table, control, OneHartInv
<1>2. CASE ~UserStore(p, v, d)
  <2>1. q = p
    BY <1>2, OneInKernel, Zenon DEF InKernel, KernelPC
  <2>2. CASE StoreFaultShared(p, v)
    BY <1>0, <2>1, <2>2, Zenon DEF StoreFaultShared, mem, table, TypeOK
  <2>3. CASE FaultAlloc(p)
    <3>1. ref[pa[p][va[p]]] > 1 /\ UNCHANGED <<pa, va>>
      BY <2>3, Zenon DEF FaultAlloc, At, OneHartInv, table
    <3>2. PICK h : h = Head(freeList)
      BY Zenon
    <3>3. h \in Page /\ Holders(h) = {}
      BY <1>0, <2>3, <3>2, FreeHead, Zenon DEF FaultAlloc, FreeListSound
    <3>4. ref[h] = 0
      BY <3>3, NoneHold, Zenon
    <3>5. ref' = [ref EXCEPT ![h] = 1]
      BY <2>3, <3>2, Zenon DEF FaultAlloc
    <3>6. pa[p][va[p]] # h
      BY <3>1, <3>4
    <3>7. ref'[pa[p][va[p]]] = ref[pa[p][va[p]]]
      BY <1>0, <3>3, <3>5, <3>6 DEF TypeOK
    <3> QED  BY <2>1, <3>1, <3>7, Zenon
  <2>4. CASE FaultCopy(p)
    BY <2>1, <2>4, Zenon DEF FaultCopy, At, mem, table, OneHartInv
  <2>5. CASE FaultPanic(p)
    BY <2>1, <2>5, Zenon DEF FaultPanic, At, mem, table, OneHartInv
  <2>6. CASE GrowHeap(p, v) \/ WriteHeader(p, v) \/ ReadIntoBuffer(p, v, d)
    BY <2>1, <2>6, Zenon DEF GrowHeap, WriteHeader, ReadIntoBuffer, MayTrap, control
  <2>7. CASE Fork(p, c)
    BY <1>0, <2>1, <2>7, Zenon DEF Fork, MayTrap, TypeOK
  <2>8. CASE ForkDone(p)
    BY <1>0, <2>1, <2>8, Zenon DEF ForkDone, TypeOK
  <2>9. CASE StoreFaultSole(p, v) \/ Exit(p) \/ Exec(p) \/ FaultDec(p) \/ FaultMap(p)
    BY <1>0, <2>1, <2>9, Zenon DEF StoreFaultSole, Exit, Exec, FaultDec, FaultMap, Goto, TypeOK
  <2>10. CASE ForkInc(p) \/ ForkMap(p) \/ UnmapShared(p, v) \/ UnmapLast(p, v)
    BY <1>0, <2>1, <2>10, Zenon DEF ForkInc, ForkMap, UnmapShared, UnmapLast, Goto, TypeOK
  <2>11. CASE UnmapPush(p) \/ UnmapClear(p) \/ UnmapDone(p)
    BY <1>0, <2>1, <2>11, Zenon DEF UnmapPush, UnmapClear, UnmapDone, Goto, TypeOK
  <2> QED  BY <1>2, <2>2, <2>3, <2>4, <2>5, <2>6, <2>7, <2>8, <2>9, <2>10, <2>11 DEF Step
<1> QED  BY <1>1, <1>2, Zenon

\* A page is returned after the step if it was, and no list, no push and no
\* count has changed.
LEMMA ReturnedKept ==
  ASSUME OneHartInv, UNCHANGED <<freeList, ref>>,
         \A q \in Pushing : q \in Pushing' /\ pg'[q] = pg[q],
         NEW g \in Page, ref'[g] = 0
  PROVE  Returned(g)'
BY Zenon DEF OneHartInv, Returned

\* A page with count 0 is in the free list or about to be pushed, after every step.
LEMMA ReturnedStep ==
  ASSUME NCPU = 1, IInv, OneHartInv, NEW p \in Proc, NEW v \in VPage, NEW d \in Data, NEW c \in Proc,
         Step(p, v, d, c), NEW g \in Page, ref'[g] = 0
  PROVE  Returned(g)'
<1>0. TypeOK /\ FreeListSound /\ PushInv /\ FaultInv /\ ForkInv
  BY Zenon DEF IInv
<1>1. pc \in [Proc -> {"none", "embryo", "user"} \cup KernelPC] /\ pg \in [Proc -> Page \cup {NoPage}]
      /\ ref \in [Page -> Nat] /\ freeList \in Seq(Page)
  BY <1>0, Zenon DEF TypeOK
<1>2. CASE GrowHeap(p, v) \/ FaultAlloc(p)
  <2>1. PICK h : h = Head(freeList)
    BY Zenon
  <2>2. /\ freeList # << >> /\ freeList' = Tail(freeList) /\ ref' = [ref EXCEPT ![h] = 1]
        /\ \A q \in Pushing : pc'[q] = pc[q] /\ pg'[q] = pg[q]
    BY <1>1, <1>2, <2>1, Zenon DEF GrowHeap, FaultAlloc, MayTrap, At, Goto, Pushing, control
  <2>3. h \in Page /\ h = freeList[1] /\ Len(freeList) \in Nat
    BY <1>0, <2>1, <2>2, FreeHead, Zenon
  <2>4. g # h /\ ref[g] = 0
    BY <1>1, <2>2, <2>3
  <2>5. Returned(g)
    BY <2>4, Zenon DEF OneHartInv
  <2>6. CASE \E i \in 1 .. Len(freeList) : freeList[i] = g
    <3>1. PICK i \in 1 .. Len(freeList) : freeList[i] = g
      BY <2>6, Zenon
    <3>2. i # 1
      BY <2>3, <2>4, <3>1, Zenon
    <3>3. i - 1 \in 1 .. Len(freeList) - 1 /\ (i - 1) + 1 = i
      BY <2>3, <3>2
    <3>4. /\ Len(freeList') = Len(freeList) - 1
          /\ \A k \in 1 .. Len(freeList') : freeList'[k] = freeList[k + 1]
      BY <1>1, <2>2, HeadTailProperties
    <3>5. i - 1 \in 1 .. Len(freeList') /\ freeList'[i - 1] = g
      BY <3>1, <3>3, <3>4, Zenon
    <3> QED  BY <3>5, Zenon DEF Returned
  <2>7. CASE \E q \in Pushing : pg[q] = g
    BY <2>2, <2>7, Zenon DEF Returned, Pushing
  <2> QED  BY <2>5, <2>6, <2>7, Zenon DEF Returned
<1>3. CASE FaultDec(p)
  <2>1. PICK h : h = pa[p][va[p]]
    BY Zenon
  <2>2. h \in Page /\ ref[h] > 1
    BY <1>0, <1>3, <2>1 DEF FaultDec, At, OneHartInv, FaultInv, Mapped, TypeOK
  <2>3. ref' = [ref EXCEPT ![h] = IF ref[h] > 0 THEN ref[h] - 1 ELSE ref[h]]
    BY <1>3, <2>1, Zenon DEF FaultDec
  <2>4. ref[g] = 0
    BY <1>1, <2>2, <2>3
  <2>5. freeList' = freeList /\ \A q \in Pushing : q \in Pushing' /\ pg'[q] = pg[q]
    BY <1>1, <1>3, Zenon DEF FaultDec, At, Goto, Pushing
  <2> QED  BY <2>4, <2>5, Zenon DEF OneHartInv, Returned
<1>4. CASE ForkInc(p)
  <2>1. PICK h : h = pa[p][va[p]]
    BY Zenon
  <2>2. h \in Page /\ ref' = [ref EXCEPT ![h] = ref[h] + 1]
    BY <1>0, <1>4, <2>1 DEF ForkInc, Mapped, TypeOK
  <2>3. ref[g] = 0
    BY <1>1, <2>2
  <2>4. freeList' = freeList /\ \A q \in Pushing : q \in Pushing' /\ pg'[q] = pg[q]
    BY <1>1, <1>4, Zenon DEF ForkInc, At, Goto, Pushing
  <2> QED  BY <2>3, <2>4, Zenon DEF OneHartInv, Returned
<1>5. CASE UnmapShared(p, v)
  <2>1. PICK h : h = pa[p][v]
    BY Zenon
  <2>2. h \in Page /\ ref[h] > 1 /\ ref' = [ref EXCEPT ![h] = ref[h] - 1]
    BY <1>0, <1>5, <2>1 DEF UnmapShared, Mapped, TypeOK
  <2>3. ref[g] = 0
    BY <1>1, <2>2
  <2>4. freeList' = freeList /\ \A q \in Pushing : q \in Pushing' /\ pg'[q] = pg[q]
    BY <1>1, <1>5, Zenon DEF UnmapShared, At, Goto, Pushing
  <2> QED  BY <2>3, <2>4, Zenon DEF OneHartInv, Returned
<1>6. CASE UnmapLast(p, v)
  <2>1. PICK h : h = pa[p][v]
    BY Zenon
  <2>2. h \in Page /\ ref' = [ref EXCEPT ![h] = 0]
    BY <1>0, <1>6, <2>1 DEF UnmapLast, Mapped, TypeOK
  <2>3. freeList' = freeList /\ \A q \in Pushing : q \in Pushing' /\ pg'[q] = pg[q]
    BY <1>1, <1>6, Zenon DEF UnmapLast, At, Goto, Pushing
  <2>4. p \in Pushing' /\ pg'[p] = h
    BY <1>1, <1>6, <2>1, Zenon DEF UnmapLast, At, Goto, Pushing
  <2>5. CASE g = h
    BY <2>4, <2>5, Zenon DEF Returned
  <2>6. CASE g # h
    <3>1. ref[g] = 0
      BY <1>1, <2>2, <2>6, Zenon
    <3> QED  BY <2>3, <3>1, Zenon DEF OneHartInv, Returned
  <2> QED  BY <2>5, <2>6, Zenon
<1>7. CASE UnmapPush(p)
  <2>1. PICK h : h = pg[p]
    BY Zenon
  <2>2. h \in Page /\ freeList' = <<h>> \o freeList /\ ref' = ref
    BY <1>0, <1>7, <2>1, Zenon DEF UnmapPush, At, Pushing, PushInv
  <2>3. \A q \in Pushing : q # p => q \in Pushing' /\ pg'[q] = pg[q]
    BY <1>1, <1>7, Zenon DEF UnmapPush, At, Goto, Pushing
  <2>4. /\ Len(freeList') = Len(freeList) + 1 /\ Len(freeList) \in Nat
        /\ \A i \in 1 .. Len(freeList') :
             freeList'[i] = IF i = 1 THEN h ELSE freeList[i - 1]
    BY <1>1, <2>2, ConcatProperties
  <2>5. Returned(g)
    BY <2>2, Zenon DEF OneHartInv
  <2>6. CASE \E i \in 1 .. Len(freeList) : freeList[i] = g
    <3>1. PICK i \in 1 .. Len(freeList) : freeList[i] = g
      BY <2>6, Zenon
    <3>2. i + 1 \in 1 .. Len(freeList') /\ (i + 1) - 1 = i /\ i + 1 # 1
      BY <2>4
    <3>3. freeList'[i + 1] = g
      BY <2>4, <3>1, <3>2, Zenon
    <3> QED  BY <3>2, <3>3, Zenon DEF Returned
  <2>7. CASE \E q \in Pushing : pg[q] = g
    <3>1. CASE g = h
      <4>1. 1 \in 1 .. Len(freeList') /\ freeList'[1] = g
        BY <2>4, <3>1
      <4> QED  BY <4>1, Zenon DEF Returned
    <3>2. CASE g # h
      BY <2>1, <2>3, <2>7, <3>2, Zenon DEF Returned
    <3> QED  BY <3>1, <3>2, Zenon
  <2> QED  BY <2>5, <2>6, <2>7, Zenon DEF Returned
<1>8. CASE WriteHeader(p, v) \/ ReadIntoBuffer(p, v, d) \/ UserStore(p, v, d) \/ FaultPanic(p)
  <2>1. UNCHANGED <<freeList, ref, pc, pg>>
    BY <1>8, Zenon DEF WriteHeader, ReadIntoBuffer, UserStore, FaultPanic, mem, control
  <2> QED  BY <2>1, ReturnedKept, Zenon DEF Pushing
<1>9. CASE StoreFaultShared(p, v) \/ StoreFaultSole(p, v) \/ Exit(p) \/ Exec(p) \/ FaultCopy(p) \/ FaultMap(p)
  <2>1. UNCHANGED <<freeList, ref>> /\ \A q \in Pushing : q \in Pushing' /\ pg'[q] = pg[q]
    BY <1>1, <1>9, Zenon DEF StoreFaultShared, StoreFaultSole, Exit, Exec, FaultCopy, FaultMap, mem, MayTrap, At, Goto, Pushing
  <2> QED  BY <2>1, ReturnedKept, Zenon
<1>10. CASE Fork(p, c) \/ ForkMap(p) \/ ForkDone(p)
  <2>1. UNCHANGED <<freeList, ref>> /\ \A q \in Pushing : q \in Pushing' /\ pg'[q] = pg[q]
    BY <1>0, <1>1, <1>10, Zenon DEF Fork, ForkMap, ForkDone, ForkInv, mem, MayTrap, At, Goto, Pushing
  <2> QED  BY <2>1, ReturnedKept, Zenon
<1>11. CASE UnmapClear(p) \/ UnmapDone(p)
  <2>0. pc[p] # "unmap_push" /\ UNCHANGED <<freeList, ref>>
    BY <1>11, Zenon DEF UnmapClear, UnmapDone, mem, At
  <2>1. \A q \in Pushing : q # p /\ q \in Pushing' /\ pg'[q] = pg[q]
    BY <1>1, <1>11, <2>0, Zenon DEF UnmapClear, UnmapDone, Goto, Pushing
  <2> QED  BY <2>0, <2>1, ReturnedKept, Zenon
<1> QED  BY <1>2, <1>3, <1>4, <1>5, <1>6, <1>7, <1>8, <1>9, <1>10, <1>11 DEF Step

\* pmm_init has put every page into the free list.
LEMMA InitReturned ==
  ASSUME Init, NEW g \in Page
  PROVE  Returned(g)
<1>1. IsFiniteSet(Page) /\ Cardinality(Page) \in Nat
  BY CowAssumption, FS_CardinalityType, Zenon
<1>2. PICK n \in Nat : n = Cardinality(Page)
  BY <1>1, Zenon
<1>3. freeList \in [1 .. n -> Page] /\ \A i, j \in DOMAIN freeList : freeList[i] = freeList[j] => i = j
  BY <1>2, Zenon DEF Init
<1>4. freeList \in Injection(1 .. n, Page)
  BY <1>3, Zenon DEF Injection, IsInjective
<1>5. Cardinality(1 .. n) = n
  BY FS_Interval
<1>6. freeList \in Surjection(1 .. n, Page)
  BY <1>1, <1>2, <1>4, <1>5, FS_Injection, Zenon
<1>7. \E i \in 1 .. n : freeList[i] = g
  BY <1>6, Zenon DEF Surjection
<1>8. Len(freeList) = n
  BY <1>3
<1> QED  BY <1>7, <1>8, Zenon DEF Returned

LEMMA InitOneHart == Init => OneHartInv
<1> SUFFICES ASSUME Init PROVE OneHartInv
  BY Zenon
<1>1. \A q \in Proc : pc[q] \in {"user", "none"}
  BY Zenon DEF Init
<1>2. \A g \in Page : Returned(g)
  BY InitReturned, Zenon
<1> QED  BY <1>1, <1>2, Zenon DEF OneHartInv, InKernel, KernelPC

LEMMA StepOneHart ==
  ASSUME NCPU = 1
  PROVE  IInv /\ OneHartInv /\ [Next]_vars => OneHartInv'
<1> SUFFICES ASSUME IInv, OneHartInv, [Next]_vars PROVE OneHartInv'
  BY Zenon
<1>1. CASE Next
  <2>1. PICK p \in Proc, v \in VPage, d \in Data, c \in Proc : Step(p, v, d, c)
    BY <1>1, NextStep, Zenon
  <2>2. \A q, r \in InKernel' : q = r
    <3>1. CASE UserStore(p, v, d)
      BY <3>1, Zenon DEF UserStore, control, InKernel, OneHartInv
    <3>2. CASE ~UserStore(p, v, d)
      BY <2>1, <3>2, OneInKernel, Zenon
    <3> QED  BY <3>1, <3>2, Zenon
  <2>3. \A q \in Proc : pc'[q] \in {"fault_alloc", "fault_copy", "fault_dec"} => ref'[pa'[q][va'[q]]] > 1
    BY <2>1, CopiedStaysShared, Zenon
  <2>4. \A g \in Page : ref'[g] = 0 => Returned(g)'
    BY <2>1, ReturnedStep, Zenon
  <2> QED  BY <2>2, <2>3, <2>4, Zenon DEF OneHartInv
<1>2. CASE UNCHANGED vars
  <2>1. UNCHANGED <<freeList, ref, pa, pc, va, pg>>
    BY <1>2, Zenon DEF vars, mem, table, control
  <2> QED  BY <2>1, Zenon DEF OneHartInv, InKernel, Returned, Pushing
<1> QED  BY <1>1, <1>2, Zenon

\* On one hart no page is ever lost: when the last reference to a page goes, in
\* whatever order faults, forks, exits and execs share it and give it up, the
\* page comes back to the free list.
THEOREM NothingLeaks ==
  ASSUME NCPU = 1
  PROVE  Spec => []NoLeak
<1>1. IInv /\ OneHartInv => NoLeak
  BY NoneHold, Zenon DEF NoLeak, OneHartInv
<1>2. IInv /\ OneHartInv /\ [Next]_vars => OneHartInv'
  BY StepOneHart, Zenon
<1> QED  BY InitOneHart, <1>1, <1>2, CowInvariant, PTL DEF Spec
=============================================================================
