------------------------------ MODULE CowRefs -------------------------------
(***************************************************************************)
(* Lemmas about Cow: counting the holders of a page, the steps of the      *)
(* handlers one by one, what each does to the holders, and that every step *)
(* keeps the reference counts exact, the free list sound and the pages of  *)
(* faults in progress fresh.                                               *)
(***************************************************************************)
EXTENDS Cow, FiniteSetTheorems, SequenceTheorems, TLAPS

(***************************************************************************)
(* Counting                                                                *)
(***************************************************************************)
\* Two distinct members make a finite set count at least 2.
LEMMA TwoMembers ==
  ASSUME NEW S, IsFiniteSet(S), NEW a \in S, NEW b \in S, a # b
  PROVE  Cardinality(S) \in Nat /\ Cardinality(S) >= 2
<1> DEFINE T == S \ {a}
           U == T \ {b}
<1>1. IsFiniteSet(T) /\ Cardinality(T) = Cardinality(S) - 1
  BY FS_RemoveElement, Zenon
<1>2. IsFiniteSet(U) /\ Cardinality(U) = Cardinality(T) - 1
  <2>1. b \in T
    BY Zenon
  <2> QED  BY <1>1, <2>1, FS_RemoveElement, Zenon
<1>3. Cardinality(S) \in Nat /\ Cardinality(U) \in Nat
  BY <1>2, FS_CardinalityType, Zenon
<1> QED  BY <1>1, <1>2, <1>3

\* A finite set that counts at most 1 is the singleton of any of its members.
LEMMA OneMember ==
  ASSUME NEW S, IsFiniteSet(S), NEW a \in S, ~(Cardinality(S) > 1)
  PROVE  S = {a}
<1> SUFFICES ASSUME NEW b \in S, b # a PROVE FALSE
  BY Zenon
<1> QED  BY TwoMembers

\* References can be counted: there are finitely many table entries and operations.
LEMMA SlotFinite ==
  /\ IsFiniteSet(Proc \X Slot)
  /\ Op \notin VPage
  /\ VPage \subseteq Nat
<1>1. IsFiniteSet(VPage) /\ VPage \subseteq Nat /\ Op \notin VPage
  BY FS_Interval, CowAssumption DEF VPage, Op
<1>2. IsFiniteSet(Slot)
  BY <1>1, FS_AddElement, Zenon DEF Slot
<1> QED  BY <1>1, <1>2, FS_Product, CowAssumption, Zenon

\* The holders of a page are finitely many, now and after a step.
LEMMA HoldersFinite ==
  /\ \A g : IsFiniteSet(Holders(g)) /\ Cardinality(Holders(g)) \in Nat
  /\ \A g : IsFiniteSet(Holders(g)') /\ Cardinality(Holders(g)') \in Nat
<1>1. \A g : Holders(g) \subseteq Proc \X Slot
  BY Zenon DEF Holders
<1>2. \A g : Holders(g)' \subseteq Proc \X Slot
  BY Zenon DEF Holders
<1> QED  BY <1>1, <1>2, SlotFinite, FS_Subset, FS_CardinalityType, Zenon

(***************************************************************************)
(* How a step changes the holders.  A step changes what at most two of them *)
(* hold; the lemmas give the new sets of holders and their sizes.          *)
(***************************************************************************)
\* No holder other than <<p, k>> and <<r, m>> changes what it holds.
OthersKeep(p, k, r, m) ==
  \A q \in Proc, l \in Slot :
    ~(q = p /\ l = k) /\ ~(q = r /\ l = m) => Hold(q, l)' = Hold(q, l)

\* When no reference changes hands, every page keeps its holders.
LEMMA HoldSame ==
  ASSUME \A q \in Proc, l \in Slot : Hold(q, l)' = Hold(q, l)
  PROVE  \A g : Holders(g)' = Holders(g)
BY Zenon DEF Holders

\* <<p, k>> takes a reference to y.
LEMMA HoldTake ==
  ASSUME NEW p \in Proc, NEW k \in Slot, NEW y \in Page,
         Hold(p, k) = NoPage, Hold(p, k)' = y, OthersKeep(p, k, p, k)
  PROVE  /\ Holders(y)' = Holders(y) \cup {<<p, k>>}
         /\ Cardinality(Holders(y)') = Cardinality(Holders(y)) + 1
         /\ \A g \in Page : g # y => Holders(g)' = Holders(g)
<1>1. /\ <<p, k>> \notin Holders(y)
      /\ Holders(y)' = Holders(y) \cup {<<p, k>>}
  BY CowAssumption DEF Holders, OthersKeep
<1>2. \A g \in Page : g # y => Holders(g)' = Holders(g)
  BY CowAssumption, Zenon DEF Holders, OthersKeep
<1>3. Cardinality(Holders(y)') = Cardinality(Holders(y)) + 1
  BY <1>1, HoldersFinite, FS_AddElement, ZenonT(30)
<1> QED  BY <1>1, <1>2, <1>3, Zenon

\* <<p, k>> gives up its reference to x.
LEMMA HoldGive ==
  ASSUME NEW p \in Proc, NEW k \in Slot, NEW x \in Page,
         Hold(p, k) = x, Hold(p, k)' = NoPage, OthersKeep(p, k, p, k)
  PROVE  /\ <<p, k>> \in Holders(x)
         /\ Holders(x)' = Holders(x) \ {<<p, k>>}
         /\ Cardinality(Holders(x)') = Cardinality(Holders(x)) - 1
         /\ \A g \in Page : g # x => Holders(g)' = Holders(g)
<1>1. /\ <<p, k>> \in Holders(x)
      /\ Holders(x)' = Holders(x) \ {<<p, k>>}
  BY CowAssumption DEF Holders, OthersKeep
<1>2. \A g \in Page : g # x => Holders(g)' = Holders(g)
  BY CowAssumption, Zenon DEF Holders, OthersKeep
<1>3. Cardinality(Holders(x)') = Cardinality(Holders(x)) - 1
  BY <1>1, HoldersFinite, FS_RemoveElement, ZenonT(30)
<1> QED  BY <1>1, <1>2, <1>3, Zenon

\* <<r, m>> hands its reference to y over to <<p, k>>.
LEMMA HandOver ==
  ASSUME NEW p \in Proc, NEW k \in Slot, NEW r \in Proc, NEW m \in Slot,
         ~(p = r /\ k = m), NEW y \in Page,
         Hold(p, k) # y, Hold(p, k)' = y,
         Hold(r, m) = y, Hold(r, m)' = NoPage, OthersKeep(p, k, r, m)
  PROVE  /\ Holders(y)' = (Holders(y) \ {<<r, m>>}) \cup {<<p, k>>}
         /\ Cardinality(Holders(y)') = Cardinality(Holders(y))
         /\ \A g \in Page : g # Hold(p, k) /\ g # y => Holders(g)' = Holders(g)
<1>0. NoPage \notin Page
  BY CowAssumption, Zenon
<1> DEFINE Y == Holders(y) \ {<<r, m>>}
<1>1. /\ <<r, m>> \in Holders(y)
      /\ <<p, k>> \notin Holders(y)
      /\ Holders(y)' = Y \cup {<<p, k>>}
  BY <1>0 DEF Holders, OthersKeep
<1>2. IsFiniteSet(Y) /\ Cardinality(Y) = Cardinality(Holders(y)) - 1
  BY <1>1, HoldersFinite, FS_RemoveElement, ZenonT(30)
<1>3. Cardinality(Y \cup {<<p, k>>}) = Cardinality(Y) + 1
  <2>1. <<p, k>> \notin Y
    BY <1>1, Zenon
  <2> QED  BY <1>2, <2>1, FS_AddElement, Zenon
<1>4. Cardinality(Holders(y)') = Cardinality(Holders(y))
  BY <1>1, <1>2, <1>3, HoldersFinite
<1>5. \A g \in Page : g # Hold(p, k) /\ g # y => Holders(g)' = Holders(g)
  BY <1>0, Zenon DEF Holders, OthersKeep
<1> QED  BY <1>1, <1>4, <1>5, Zenon

\* The same when <<p, k>> gives up a reference to x in exchange.
LEMMA Exchange ==
  ASSUME NEW p \in Proc, NEW k \in Slot, NEW r \in Proc, NEW m \in Slot,
         ~(p = r /\ k = m), NEW x \in Page, NEW y \in Page, x # y,
         Hold(p, k) = x, Hold(p, k)' = y,
         Hold(r, m) = y, Hold(r, m)' = NoPage, OthersKeep(p, k, r, m)
  PROVE  /\ <<p, k>> \in Holders(x)
         /\ Holders(x)' = Holders(x) \ {<<p, k>>}
         /\ Cardinality(Holders(x)') = Cardinality(Holders(x)) - 1
<1>1. <<p, k>> \in Holders(x) /\ Holders(x)' = Holders(x) \ {<<p, k>>}
  BY CowAssumption DEF Holders, OthersKeep
<1>2. Cardinality(Holders(x)') = Cardinality(Holders(x)) - 1
  BY <1>1, HoldersFinite, FS_RemoveElement, ZenonT(30)
<1> QED  BY <1>1, <1>2, Zenon

(***************************************************************************)
(* Steps                                                                   *)
(***************************************************************************)
\* The disjuncts of Next, one by one.
Step(p, v, d, c) ==
  \/ GrowHeap(p, v)
  \/ WriteHeader(p, v)
  \/ StoreFaultShared(p, v)
  \/ StoreFaultSole(p, v)
  \/ ReadIntoBuffer(p, v, d)
  \/ Fork(p, c)
  \/ Exit(p)
  \/ Exec(p)
  \/ FaultAlloc(p)
  \/ FaultPanic(p)
  \/ FaultCopy(p)
  \/ FaultDec(p)
  \/ FaultMap(p)
  \/ ForkInc(p)
  \/ ForkMap(p)
  \/ ForkDone(p)
  \/ UnmapShared(p, v)
  \/ UnmapLast(p, v)
  \/ UnmapPush(p)
  \/ UnmapClear(p)
  \/ UnmapDone(p)
  \/ UserStore(p, v, d)

\* A step keeps every variable in its type.
LEMMA TypeStep ==
  ASSUME IInv, NEW p \in Proc, NEW v \in VPage, NEW d \in Data, NEW c \in Proc,
         Step(p, v, d, c)
  PROVE  TypeOK'
<1> USE SlotFinite DEF vars, mem, words, table, control, views, MayTrap, At, Goto, SetPte,
        Mapped, KernelPC
<1>0. TypeOK /\ FaultInv /\ ForkInv /\ FreshInv /\ PushInv
  BY Zenon DEF IInv
<1>1. CASE GrowHeap(p, v)
  <2>1. Head(freeList) \in Page /\ Tail(freeList) \in Seq(Page)
    BY <1>0, <1>1, HeadTailProperties, Zenon DEF TypeOK, GrowHeap
  <2> QED  BY <1>0, <1>1, <2>1, Zenon DEF TypeOK, GrowHeap
<1>2. CASE WriteHeader(p, v)
  BY <1>0, <1>2, Zenon DEF TypeOK, WriteHeader
<1>3. CASE StoreFaultShared(p, v)
  BY <1>0, <1>3, Zenon DEF TypeOK, StoreFaultShared
<1>4. CASE StoreFaultSole(p, v)
  BY <1>0, <1>4 DEF TypeOK, StoreFaultSole
<1>5. CASE ReadIntoBuffer(p, v, d)
  BY <1>0, <1>5, Zenon DEF TypeOK, ReadIntoBuffer
<1>6. CASE Fork(p, c)
  BY <1>0, <1>6, ZenonT(30) DEF TypeOK, Fork
<1>7. CASE Exit(p)
  BY <1>0, <1>7, Zenon DEF TypeOK, Exit
<1>8. CASE Exec(p)
  BY <1>0, <1>8, Zenon DEF TypeOK, Exec
<1>9. CASE FaultAlloc(p)
  BY <1>0, <1>9 DEF TypeOK, FaultAlloc
<1>10. CASE FaultPanic(p)
  BY <1>0, <1>10, Zenon DEF TypeOK, FaultPanic
<1>11. CASE FaultCopy(p)
  BY <1>0, <1>11 DEF TypeOK, FaultCopy, FaultInv, FreshInv
<1>12. CASE FaultDec(p)
  BY <1>0, <1>12 DEF TypeOK, FaultDec, FaultInv
<1>13. CASE FaultMap(p)
  BY <1>0, <1>13, Zenon DEF TypeOK, FaultMap, FaultInv
<1>14. CASE ForkInc(p)
  BY <1>0, <1>14 DEF TypeOK, ForkInc
<1>15. CASE ForkMap(p)
  <2>1. va[p] \in VPage /\ child[p] \in Proc
    BY <1>0, <1>15, Zenon DEF ForkMap, ForkInv
  <2>2. /\ pa' \in [Proc -> [VPage -> Page \cup {NoPage}]]
        /\ viewD' \in [Proc -> [VPage -> Data \cup {NoData}]]
        /\ viewM' \in [Proc -> [VPage -> Proc \cup {NoProc}]]
    BY <1>0, <1>15, <2>1, SMTT(30) DEF TypeOK, ForkMap
  <2>3. cow' \in [Proc -> [VPage -> BOOLEAN]]
    BY <1>0, <1>15, <2>1, ZenonT(30) DEF TypeOK, ForkMap
  <2>4. /\ va' \in [Proc -> Nat] /\ pc' = [pc EXCEPT ![p] = "fork_inc"]
        /\ UNCHANGED <<mem, words, pg, child, resume, panicked>>
    BY <1>0, <1>15 DEF TypeOK, ForkMap
  <2> QED  BY <1>0, <2>2, <2>3, <2>4, Zenon DEF TypeOK
<1>16. CASE ForkDone(p)
  BY <1>0, <1>16, ZenonT(30) DEF TypeOK, ForkDone, ForkInv
<1>17. CASE UnmapShared(p, v)
  BY <1>0, <1>17 DEF TypeOK, UnmapShared
<1>18. CASE UnmapLast(p, v)
  BY <1>0, <1>18 DEF TypeOK, UnmapLast
<1>19. CASE UnmapPush(p)
  BY <1>0, <1>19, SMTT(30) DEF TypeOK, UnmapPush, PushInv, Pushing
<1>20. CASE UnmapClear(p)
  BY <1>0, <1>20, Zenon DEF TypeOK, UnmapClear, FaultInv
<1>21. CASE UnmapDone(p)
  BY <1>0, <1>21, Zenon DEF TypeOK, UnmapDone
<1>22. CASE UserStore(p, v, d)
  BY <1>0, <1>22, Zenon DEF TypeOK, UserStore
<1> QED  BY <1>1, <1>2, <1>3, <1>4, <1>5, <1>6, <1>7, <1>8, <1>9, <1>10, <1>11, <1>12, <1>13, <1>14, <1>15, <1>16, <1>17, <1>18, <1>19, <1>20, <1>21, <1>22, Zenon DEF Step

\* A step keeps what the program counters say about faults and unmappings.
LEMMA FaultStep ==
  ASSUME IInv, NEW p \in Proc, NEW v \in VPage, NEW d \in Data, NEW c \in Proc,
         Step(p, v, d, c)
  PROVE  FaultInv'
<1> USE DEF vars, mem, words, table, control, views, MayTrap, At, Goto, SetPte, Mapped
<1>0. TypeOK /\ FaultInv /\ ForkInv /\ FreshInv
  BY Zenon DEF IInv
<1>1. CASE GrowHeap(p, v)
  BY <1>0, <1>1, Zenon DEF TypeOK, FaultInv, GrowHeap
<1>2. CASE WriteHeader(p, v)
  BY <1>0, <1>2, Zenon DEF TypeOK, FaultInv, WriteHeader
<1>3. CASE StoreFaultShared(p, v)
  BY <1>0, <1>3, Zenon DEF TypeOK, FaultInv, StoreFaultShared
<1>4. CASE StoreFaultSole(p, v)
  BY <1>0, <1>4 DEF TypeOK, FaultInv, StoreFaultSole
<1>5. CASE ReadIntoBuffer(p, v, d)
  BY <1>0, <1>5, Zenon DEF TypeOK, FaultInv, ReadIntoBuffer
<1>6. CASE Fork(p, c)
  BY <1>0, <1>6 DEF TypeOK, FaultInv, Fork, ForkInv
<1>7. CASE Exit(p)
  BY <1>0, <1>7, Zenon DEF TypeOK, FaultInv, Exit
<1>8. CASE Exec(p)
  BY <1>0, <1>8, Zenon DEF TypeOK, FaultInv, Exec
<1>9. CASE FaultAlloc(p)
  BY <1>0, <1>9, Zenon DEF TypeOK, FaultInv, FaultAlloc
<1>10. CASE FaultPanic(p)
  BY <1>0, <1>10, Zenon DEF TypeOK, FaultInv, FaultPanic
<1>11. CASE FaultCopy(p)
  BY <1>0, <1>11, Zenon DEF TypeOK, FaultInv, FaultCopy
<1>12. CASE FaultDec(p)
  BY <1>0, <1>12, Zenon DEF TypeOK, FaultInv, FaultDec, FreshInv
<1>13. CASE FaultMap(p)
  BY <1>0, <1>13, Zenon DEF TypeOK, FaultInv, FaultMap
<1>14. CASE ForkInc(p)
  BY <1>0, <1>14, SMTT(30) DEF TypeOK, FaultInv, ForkInc, ForkInv
<1>15. CASE ForkMap(p)
  BY <1>0, <1>15 DEF TypeOK, FaultInv, ForkMap, ForkInv
<1>16. CASE ForkDone(p)
  BY <1>0, <1>16 DEF TypeOK, FaultInv, ForkDone, ForkInv
<1>17. CASE UnmapShared(p, v)
  BY <1>0, <1>17, Zenon DEF TypeOK, FaultInv, UnmapShared
<1>18. CASE UnmapLast(p, v)
  BY <1>0, <1>18, Zenon DEF TypeOK, FaultInv, UnmapLast
<1>19. CASE UnmapPush(p)
  BY <1>0, <1>19, Zenon DEF TypeOK, FaultInv, UnmapPush
<1>20. CASE UnmapClear(p)
  BY <1>0, <1>20, Zenon DEF TypeOK, FaultInv, UnmapClear
<1>21. CASE UnmapDone(p)
  <2>1. /\ pc'[p] \in {"none", "user"} /\ \A q \in Proc : q # p => pc'[q] = pc[q]
        /\ UNCHANGED <<pa, cow, va, pg>>
    BY <1>0, <1>21, Zenon DEF TypeOK, UnmapDone
  <2> QED  BY <1>0, <2>1, Zenon DEF FaultInv
<1>22. CASE UserStore(p, v, d)
  BY <1>0, <1>22 DEF TypeOK, FaultInv, UserStore
<1> QED  BY <1>1, <1>2, <1>3, <1>4, <1>5, <1>6, <1>7, <1>8, <1>9, <1>10, <1>11, <1>12, <1>13, <1>14, <1>15, <1>16, <1>17, <1>18, <1>19, <1>20, <1>21, <1>22, Zenon DEF Step

\* A step keeps what the program counters say about forks.
LEMMA ForkStep ==
  ASSUME IInv, NEW p \in Proc, NEW v \in VPage, NEW d \in Data, NEW c \in Proc,
         Step(p, v, d, c)
  PROVE  ForkInv'
<1> USE DEF vars, mem, words, table, control, views, MayTrap, At, Goto, SetPte, Mapped
<1>0. TypeOK /\ FaultInv /\ ForkInv /\ FreshInv
  BY Zenon DEF IInv
<1>1. CASE GrowHeap(p, v)
  BY <1>0, <1>1 DEF TypeOK, ForkInv, GrowHeap
<1>2. CASE WriteHeader(p, v)
  BY <1>0, <1>2 DEF TypeOK, ForkInv, WriteHeader
<1>3. CASE StoreFaultShared(p, v)
  BY <1>0, <1>3 DEF TypeOK, ForkInv, StoreFaultShared
<1>4. CASE StoreFaultSole(p, v)
  BY <1>0, <1>4 DEF TypeOK, ForkInv, StoreFaultSole
<1>5. CASE ReadIntoBuffer(p, v, d)
  BY <1>0, <1>5 DEF TypeOK, ForkInv, ReadIntoBuffer
<1>6. CASE Fork(p, c)
  <2>1. /\ p # c /\ pc[p] = "user" /\ pc[c] = "none"
        /\ pc'[p] = "fork_inc" /\ pc'[c] = "embryo"
        /\ child'[p] = c /\ UNCHANGED pa
        /\ \A q \in Proc : q # p /\ q # c => pc'[q] = pc[q]
        /\ \A q \in Proc : q # p => child'[q] = child[q] /\ va'[q] = va[q]
    BY <1>0, <1>6, Zenon DEF TypeOK, Fork
  <2>2. \A q \in Proc : q # p => child[q] # c
    BY <1>0, <2>1, CowAssumption DEF ForkInv
  <2> QED  BY <1>0, <2>1, <2>2, CowAssumption DEF ForkInv
<1>7. CASE Exit(p)
  BY <1>0, <1>7 DEF TypeOK, ForkInv, Exit
<1>8. CASE Exec(p)
  BY <1>0, <1>8 DEF TypeOK, ForkInv, Exec
<1>9. CASE FaultAlloc(p)
  BY <1>0, <1>9 DEF TypeOK, ForkInv, FaultAlloc
<1>10. CASE FaultPanic(p)
  BY <1>0, <1>10, SMTT(30) DEF TypeOK, ForkInv, FaultPanic
<1>11. CASE FaultCopy(p)
  BY <1>0, <1>11, SMTT(30) DEF TypeOK, ForkInv, FaultCopy
<1>12. CASE FaultDec(p)
  BY <1>0, <1>12, SMTT(30) DEF TypeOK, ForkInv, FaultDec
<1>13. CASE FaultMap(p)
  BY <1>0, <1>13, SMTT(30) DEF TypeOK, ForkInv, FaultMap, FaultInv
<1>14. CASE ForkInc(p)
  BY <1>0, <1>14, SMTT(30) DEF TypeOK, ForkInv, ForkInc
<1>15. CASE ForkMap(p)
  <2> DEFINE b == child[p]
  <2>1. /\ pc[p] = "fork_map" /\ b \in Proc /\ pc[b] = "embryo" /\ va[p] \in VPage
        /\ \A q \in Proc : q # p => child[q] # b
    BY <1>0, <1>15, CowAssumption, SMTT(30) DEF ForkMap, ForkInv
  <2>2. /\ pc'[p] = "fork_inc" /\ va'[p] = va[p] + 1 /\ UNCHANGED child
        /\ \A q \in Proc : q # p => pc'[q] = pc[q] /\ va'[q] = va[q]
    BY <1>0, <1>15, Zenon DEF TypeOK, ForkMap
  <2>3. /\ \A u \in VPage : u # va[p] => pa'[b][u] = pa[b][u]
        /\ \A q \in Proc : q # b => pa'[q] = pa[q]
    BY <1>0, <1>15, <2>1, Zenon DEF TypeOK, ForkMap
  <2>4. va[p] \in Nat /\ VPage \subseteq Nat
    BY <2>1, SlotFinite, ZenonT(30)
  <2> HIDE DEF b
  <2>5. \A q \in Proc : pc'[q] \in {"fork_inc", "fork_map"} =>
          /\ child'[q] \in Proc /\ pc'[child'[q]] = "embryo"
          /\ \A u \in VPage : u >= va'[q] => pa'[child'[q]][u] = NoPage
    <3> SUFFICES ASSUME NEW q \in Proc, pc'[q] \in {"fork_inc", "fork_map"}
                 PROVE  /\ child'[q] \in Proc /\ pc'[child'[q]] = "embryo"
                        /\ \A u \in VPage : u >= va'[q] => pa'[child'[q]][u] = NoPage
      BY Zenon
    <3>1. CASE q = p
      <4>1. child'[q] = b /\ pc'[b] = "embryo" /\ va'[q] = va[p] + 1
        BY <2>1, <2>2, <3>1, Zenon DEF b
      <4>2. \A u \in VPage : u >= va[p] => pa[b][u] = NoPage
        BY <1>0, <2>1, Zenon DEF ForkInv, b
      <4>3. \A u \in VPage : u >= va[p] + 1 => u >= va[p] /\ u # va[p]
        BY <2>4
      <4>4. \A u \in VPage : u >= va[p] + 1 => pa'[b][u] = NoPage
        BY <2>3, <4>2, <4>3, Zenon
      <4> QED  BY <2>1, <4>1, <4>4, Zenon
    <3>2. CASE q # p
      <4>1. pc[q] \in {"fork_inc", "fork_map"} /\ child'[q] = child[q] /\ va'[q] = va[q]
        BY <2>2, <3>2, Zenon
      <4>2. /\ child[q] \in Proc /\ pc[child[q]] = "embryo"
            /\ \A u \in VPage : u >= va[q] => pa[child[q]][u] = NoPage
        BY <1>0, <4>1, Zenon DEF ForkInv
      <4>3. child[q] # p /\ child[q] # b
        BY <2>1, <3>2, <4>2, Zenon
      <4> QED  BY <2>2, <2>3, <4>1, <4>2, <4>3, Zenon
    <3> QED  BY <3>1, <3>2, Zenon
  <2> QED  BY <1>0, <2>1, <2>2, <2>3, <2>5, SMTT(30) DEF ForkInv
<1>16. CASE ForkDone(p)
  <2>1. /\ pc[p] = "fork_inc" /\ child[p] \in Proc /\ pc[child[p]] = "embryo"
        /\ \A q \in Proc : q # p => child[q] # child[p]
    BY <1>0, <1>16, CowAssumption DEF ForkDone, ForkInv
  <2>2. /\ pc'[p] = "user" /\ pc'[child[p]] = "user" /\ child'[p] = NoProc
        /\ \A q \in Proc : q # p /\ q # child[p] => pc'[q] = pc[q]
        /\ \A q \in Proc : q # p => child'[q] = child[q] /\ va'[q] = va[q]
        /\ UNCHANGED pa
    BY <1>0, <1>16, <2>1, Zenon DEF TypeOK, ForkDone
  <2> QED  BY <1>0, <2>1, <2>2, SMTT(30) DEF ForkInv
<1>17. CASE UnmapShared(p, v)
  BY <1>0, <1>17, SMTT(30) DEF TypeOK, ForkInv, UnmapShared
<1>18. CASE UnmapLast(p, v)
  BY <1>0, <1>18, SMTT(30) DEF TypeOK, ForkInv, UnmapLast
<1>19. CASE UnmapPush(p)
  BY <1>0, <1>19, SMTT(30) DEF TypeOK, ForkInv, UnmapPush
<1>20. CASE UnmapClear(p)
  BY <1>0, <1>20, SMTT(30) DEF TypeOK, ForkInv, UnmapClear, FaultInv
<1>21. CASE UnmapDone(p)
  <2>1. /\ pc'[p] \in {"none", "user"} /\ \A q \in Proc : q # p => pc'[q] = pc[q]
        /\ pc[p] = "unmap" /\ UNCHANGED <<pa, child, va>>
        /\ \A u \in VPage : ~Mapped(p, u)
    BY <1>0, <1>21, Zenon DEF TypeOK, UnmapDone
  <2> QED  BY <1>0, <2>1 DEF ForkInv
<1>22. CASE UserStore(p, v, d)
  BY <1>0, <1>22, SMTT(30) DEF TypeOK, ForkInv, UserStore
<1> QED  BY <1>1, <1>2, <1>3, <1>4, <1>5, <1>6, <1>7, <1>8, <1>9, <1>10, <1>11, <1>12, <1>13, <1>14, <1>15, <1>16, <1>17, <1>18, <1>19, <1>20, <1>21, <1>22, Zenon DEF Step

(***************************************************************************)
(* What each kind of step does to the holders                              *)
(***************************************************************************)
\* The steps that neither take nor drop a reference.
Quiet(p, v, d, c) ==
  \/ WriteHeader(p, v)
  \/ StoreFaultShared(p, v)
  \/ StoreFaultSole(p, v)
  \/ ReadIntoBuffer(p, v, d)
  \/ Fork(p, c)
  \/ Exit(p)
  \/ Exec(p)
  \/ FaultPanic(p)
  \/ FaultCopy(p)
  \/ FaultMap(p)
  \/ ForkDone(p)
  \/ UnmapPush(p)
  \/ UnmapClear(p)
  \/ UnmapDone(p)
  \/ UserStore(p, v, d)

\* The steps of Quiet move no reference and change no count.
LEMMA HoldQuiet ==
  ASSUME IInv, NEW p \in Proc, NEW v \in VPage, NEW d \in Data, NEW c \in Proc,
         Quiet(p, v, d, c)
  PROVE  /\ \A q \in Proc, l \in Slot : Hold(q, l)' = Hold(q, l)
         /\ ref' = ref
<1> USE SlotFinite DEF vars, mem, words, table, control, views, MayTrap, At, Goto, SetPte, Mapped
<1>0. TypeOK /\ FaultInv /\ ForkInv
  BY Zenon DEF IInv
<1>a. ref' = ref
  BY ZenonT(30) DEF Quiet, WriteHeader, StoreFaultShared, StoreFaultSole, ReadIntoBuffer, Fork, Exit, Exec, FaultPanic, FaultCopy, FaultMap, ForkDone, UnmapPush, UnmapClear, UnmapDone, UserStore
<1> SUFFICES ASSUME NEW q \in Proc, NEW l \in Slot PROVE Hold(q, l)' = Hold(q, l)
  BY <1>a, Zenon
<1>1. CASE WriteHeader(p, v)
  BY <1>0, <1>1, Zenon DEF TypeOK, Hold, Owns, InHand, Slot, WriteHeader
<1>2. CASE StoreFaultShared(p, v)
  BY <1>0, <1>2, Zenon DEF TypeOK, Hold, Owns, InHand, Slot, StoreFaultShared
<1>3. CASE StoreFaultSole(p, v)
  BY <1>0, <1>3, Zenon DEF TypeOK, Hold, Owns, InHand, Slot, StoreFaultSole
<1>4. CASE ReadIntoBuffer(p, v, d)
  BY <1>0, <1>4, Zenon DEF TypeOK, Hold, Owns, InHand, Slot, ReadIntoBuffer
<1>5. CASE Fork(p, c)
  BY <1>0, <1>5, SMTT(30) DEF TypeOK, Hold, Owns, InHand, Slot, Fork, ForkInv
<1>6. CASE Exit(p)
  BY <1>0, <1>6, Zenon DEF TypeOK, Hold, Owns, InHand, Slot, Exit
<1>7. CASE Exec(p)
  BY <1>0, <1>7, Zenon DEF TypeOK, Hold, Owns, InHand, Slot, Exec
<1>8. CASE FaultPanic(p)
  BY <1>0, <1>8, Zenon DEF TypeOK, Hold, Owns, InHand, Slot, FaultPanic
<1>9. CASE FaultCopy(p)
  BY <1>0, <1>9, Zenon DEF TypeOK, Hold, Owns, InHand, Slot, FaultCopy
<1>10. CASE FaultMap(p)
  BY <1>0, <1>10, Zenon DEF TypeOK, Hold, Owns, InHand, Slot, FaultMap, FaultInv
<1>11. CASE ForkDone(p)
  BY <1>0, <1>11, SMTT(30) DEF TypeOK, Hold, Owns, InHand, Slot, ForkDone, ForkInv
<1>12. CASE UnmapPush(p)
  BY <1>0, <1>12, Zenon DEF TypeOK, Hold, Owns, InHand, Slot, UnmapPush, FaultInv
<1>13. CASE UnmapClear(p)
  BY <1>0, <1>13, Zenon DEF TypeOK, Hold, Owns, InHand, Slot, UnmapClear, FaultInv
<1>14. CASE UnmapDone(p)
  BY <1>0, <1>14, ZenonT(30) DEF TypeOK, Hold, Owns, InHand, Slot, UnmapDone
<1>15. CASE UserStore(p, v, d)
  BY <1>0, <1>15, Zenon DEF TypeOK, Hold, Owns, InHand, Slot, UserStore
<1> QED  BY <1>1, <1>2, <1>3, <1>4, <1>5, <1>6, <1>7, <1>8, <1>9, <1>10, <1>11, <1>12, <1>13, <1>14, <1>15, Zenon DEF Quiet

\* malloc: the new heap entry takes the page at the head of the free list.
LEMMA HoldGrow ==
  ASSUME IInv, NEW p \in Proc, NEW v \in VPage, GrowHeap(p, v)
  PROVE  /\ Head(freeList) \in Page
         /\ Hold(p, v) = NoPage /\ Hold(p, v)' = Head(freeList)
         /\ OthersKeep(p, v, p, v)
<1> USE SlotFinite DEF vars, mem, words, table, control, views, MayTrap, At, Goto, SetPte, Mapped
<1>1. TypeOK /\ Head(freeList) \in Page
  BY HeadTailProperties, Zenon DEF IInv, TypeOK, GrowHeap
<1>2. pc' = pc /\ va' = va /\ pg' = pg /\ pc[p] = "user"
      /\ pa' = [pa EXCEPT ![p][v] = Head(freeList)] /\ pa[p][v] = NoPage
  BY Zenon DEF GrowHeap
<1> QED  BY <1>1, <1>2 DEF TypeOK, OthersKeep, Hold, Owns, InHand, Slot

\* alloc_page in a fault: the operation takes the page at the head of the free list.
LEMMA HoldAlloc ==
  ASSUME IInv, NEW p \in Proc, FaultAlloc(p)
  PROVE  /\ Head(freeList) \in Page
         /\ Hold(p, Op) = NoPage /\ Hold(p, Op)' = Head(freeList)
         /\ OthersKeep(p, Op, p, Op)
<1> USE SlotFinite DEF vars, mem, words, table, control, views, MayTrap, At, Goto, SetPte, Mapped
<1>1. TypeOK /\ Head(freeList) \in Page
  BY HeadTailProperties, Zenon DEF IInv, TypeOK, FaultAlloc
<1> QED  BY <1>1, Zenon DEF TypeOK, OthersKeep, Hold, Owns, InHand, Slot, FaultAlloc

\* inc_page_ref in fork: the operation takes a reference to the page it shares.
LEMMA HoldInc ==
  ASSUME IInv, NEW p \in Proc, ForkInc(p)
  PROVE  /\ pa[p][va[p]] \in Page
         /\ Hold(p, Op) = NoPage /\ Hold(p, Op)' = pa[p][va[p]]
         /\ OthersKeep(p, Op, p, Op)
<1> USE SlotFinite DEF vars, mem, words, table, control, views, MayTrap, At, Goto, SetPte, Mapped
<1> QED  BY SMTT(30) DEF IInv, TypeOK, OthersKeep, Hold, Owns, InHand, Slot, ForkInc

\* free_page in exit and exec: the entry gives up its page.
LEMMA HoldDrop ==
  ASSUME IInv, NEW p \in Proc, NEW v \in VPage, UnmapShared(p, v) \/ UnmapLast(p, v)
  PROVE  /\ pa[p][v] \in Page
         /\ Hold(p, v) = pa[p][v] /\ Hold(p, v)' = NoPage
         /\ OthersKeep(p, v, p, v)
<1> USE SlotFinite DEF vars, mem, words, table, control, views, MayTrap, At, Goto, SetPte, Mapped
<1>1. CASE UnmapShared(p, v)
  BY <1>1, SMTT(30) DEF IInv, TypeOK, OthersKeep, Hold, Owns, InHand, Slot, UnmapShared
<1>2. CASE UnmapLast(p, v)
  BY <1>2, SMTT(30) DEF IInv, TypeOK, OthersKeep, Hold, Owns, InHand, Slot, UnmapLast
<1> QED  BY <1>1, <1>2, Zenon

\* dec_page_ref in a fault: the entry exchanges the old page for the new one.
LEMMA HoldDec ==
  ASSUME IInv, NEW p \in Proc, FaultDec(p), NEW u, u = va[p],
         NEW old, old = pa[p][va[p]], NEW new, new = pg[p]
  PROVE  /\ u \in VPage /\ old \in Page /\ new \in Page /\ old # new
         /\ Hold(p, u) = old /\ Hold(p, u)' = new
         /\ Hold(p, Op) = new /\ Hold(p, Op)' = NoPage
         /\ OthersKeep(p, u, p, Op)
<1> USE SlotFinite DEF vars, mem, words, table, control, views, MayTrap, At, Goto, SetPte, Mapped
<1>0. TypeOK /\ FaultInv /\ FreshInv
  BY Zenon DEF IInv
<1>1. u \in VPage /\ old \in Page /\ new \in Page
  BY <1>0, SMTT(30) DEF TypeOK, FaultInv, FreshInv, FaultDec
<1>2. Hold(p, u) = old /\ Hold(p, Op) = new
  BY <1>1, Zenon DEF Hold, Owns, InHand, Slot, FaultDec
<1>3. old # new
  <2> SUFFICES ASSUME old = new PROVE FALSE
    BY Zenon
  <2>1. <<p, u>> \in Holders(new)
    BY <1>1, <1>2, Zenon DEF Holders, Slot
  <2>2. Holders(new) = {<<p, Op>>}
    BY <1>0, Zenon DEF FreshInv, FaultDec
  <2> QED  BY <1>1, <2>1, <2>2, Zenon
<1>4. Hold(p, u)' = new /\ Hold(p, Op)' = NoPage
  BY <1>0, <1>1, Zenon DEF TypeOK, Hold, Owns, InHand, Slot, FaultDec
<1>5. OthersKeep(p, u, p, Op)
  BY <1>0, <1>1, Zenon DEF TypeOK, OthersKeep, Hold, Owns, InHand, Slot, FaultDec
<1> QED  BY <1>1, <1>2, <1>3, <1>4, <1>5, Zenon

\* user_vm_map in fork: the reference goes from the operation to the child's entry.
LEMMA HoldMap ==
  ASSUME IInv, NEW p \in Proc, ForkMap(p), NEW b, b = child[p], NEW u, u = va[p],
         NEW g, g = pa[p][va[p]]
  PROVE  /\ u \in VPage /\ b \in Proc /\ b # p /\ g \in Page
         /\ Hold(b, u) = NoPage /\ Hold(b, u)' = g
         /\ Hold(p, Op) = g /\ Hold(p, Op)' = NoPage
         /\ OthersKeep(b, u, p, Op)
<1> USE SlotFinite DEF vars, mem, words, table, control, views, MayTrap, At, Goto, SetPte, Mapped
<1>0. TypeOK /\ ForkInv
  BY Zenon DEF IInv
<1>1. /\ u \in VPage /\ b \in Proc /\ b # p /\ g \in Page
      /\ pa[b][u] = NoPage /\ pc[b] = "embryo" /\ pc[p] = "fork_map"
  BY <1>0, SMTT(30) DEF TypeOK, ForkInv, ForkMap
<1>2. /\ pa' = [pa EXCEPT ![b][u] = g] /\ pg' = pg
      /\ va' = [va EXCEPT ![p] = @ + 1] /\ pc' = [pc EXCEPT ![p] = "fork_inc"]
  BY Zenon DEF ForkMap
<1>3. /\ Hold(b, u) = NoPage /\ Hold(b, u)' = g
      /\ Hold(p, Op) = g /\ Hold(p, Op)' = NoPage
  BY <1>0, <1>1, <1>2, Zenon DEF TypeOK, Hold, Owns, InHand
<1>4. OthersKeep(b, u, p, Op)
  BY <1>0, <1>1, <1>2 DEF TypeOK, OthersKeep, Hold, Owns, InHand, Slot
<1> QED  BY <1>1, <1>3, <1>4, Zenon

\* The page alloc_page is about to return is held by nobody.
LEMMA FreeHead ==
  ASSUME TypeOK, FreeListSound, freeList # << >>, NEW h, h = Head(freeList)
  PROVE  /\ h \in Page /\ Len(freeList) \in Nat /\ 1 \in 1 .. Len(freeList)
         /\ h = freeList[1]
         /\ Holders(h) = {} /\ \A q \in Pushing : pg[q] # h
<1>1. /\ h \in Page /\ Len(freeList) \in Nat /\ 1 \in 1 .. Len(freeList)
      /\ h = freeList[1]
  BY HeadTailProperties, EmptySeq DEF TypeOK
<1> QED  BY <1>1, ZenonT(30) DEF FreeListSound

(***************************************************************************)
(* Reference counts                                                        *)
(***************************************************************************)
\* A step keeps the reference counts exact.
LEMMA RefStep ==
  ASSUME IInv, NEW p \in Proc, NEW v \in VPage, NEW d \in Data, NEW c \in Proc,
         Step(p, v, d, c)
  PROVE  RefExact'
<1>0. TypeOK /\ RefExact /\ FreeListSound /\ v \in Slot /\ Op \in Slot
  BY Zenon DEF IInv, Slot
<1>a. \A g : Cardinality(Holders(g)) \in Nat
  BY HoldersFinite, Zenon
<1>b. \A g : Holders(g) = {} => Cardinality(Holders(g)) = 0
  BY FS_EmptySet, Zenon
<1>1. CASE Quiet(p, v, d, c)
  BY <1>0, <1>1, HoldQuiet, HoldSame, Zenon DEF RefExact
<1>2. CASE GrowHeap(p, v)
  <2>1. PICK h : h = Head(freeList)
    BY Zenon
  <2>2. freeList # << >> /\ ref' = [ref EXCEPT ![h] = 1]
    BY <1>2, <2>1, Zenon DEF GrowHeap
  <2>3. h \in Page /\ Cardinality(Holders(h)) = 0
    BY <1>0, <1>b, <2>1, <2>2, FreeHead, Zenon
  <2>4. /\ Cardinality(Holders(h)') = Cardinality(Holders(h)) + 1
        /\ \A g \in Page : g # h => Holders(g)' = Holders(g)
    <3>1. h # NoPage /\ Hold(p, v) = NoPage /\ Hold(p, v)' = h /\ OthersKeep(p, v, p, v)
      BY <1>2, <2>1, <2>3, HoldGrow, CowAssumption, Zenon
    <3> QED  BY <1>0, <2>3, <3>1, HoldTake, Zenon
  <2> QED  BY <1>0, <2>2, <2>3, <2>4 DEF RefExact, TypeOK
<1>3. CASE FaultAlloc(p)
  <2>1. PICK h : h = Head(freeList)
    BY Zenon
  <2>2. freeList # << >> /\ ref' = [ref EXCEPT ![h] = 1]
    BY <1>3, <2>1, Zenon DEF FaultAlloc
  <2>3. h \in Page /\ Cardinality(Holders(h)) = 0
    BY <1>0, <1>b, <2>1, <2>2, FreeHead, Zenon
  <2>4. /\ Cardinality(Holders(h)') = Cardinality(Holders(h)) + 1
        /\ \A g \in Page : g # h => Holders(g)' = Holders(g)
    <3>1. h # NoPage /\ Hold(p, Op) = NoPage /\ Hold(p, Op)' = h /\ OthersKeep(p, Op, p, Op)
      BY <1>3, <2>1, <2>3, HoldAlloc, CowAssumption, Zenon
    <3> QED  BY <1>0, <2>3, <3>1, HoldTake, Zenon
  <2> QED  BY <1>0, <2>2, <2>3, <2>4 DEF RefExact, TypeOK
<1>4. CASE ForkInc(p)
  <2>1. PICK h : h = pa[p][va[p]]
    BY Zenon
  <2>2. h \in Page /\ h # NoPage /\ ref' = [ref EXCEPT ![h] = @ + 1]
    BY <1>4, <2>1, HoldInc, CowAssumption, ZenonT(30) DEF ForkInc
  <2>3. /\ Cardinality(Holders(h)') = Cardinality(Holders(h)) + 1
        /\ \A g \in Page : g # h => Holders(g)' = Holders(g)
    <3>1. Hold(p, Op) = NoPage /\ Hold(p, Op)' = h /\ OthersKeep(p, Op, p, Op)
      BY <1>4, <2>1, HoldInc, Zenon
    <3> QED  BY <1>0, <2>2, <3>1, HoldTake, Zenon
  <2> QED  BY <1>0, <2>2, <2>3, Zenon DEF RefExact, TypeOK
<1>5. CASE UnmapShared(p, v) \/ UnmapLast(p, v)
  <2>1. PICK h : h = pa[p][v]
    BY Zenon
  <2>2. /\ h \in Page /\ h # NoPage
        /\ Hold(p, v) = h /\ Hold(p, v)' = NoPage /\ OthersKeep(p, v, p, v)
    BY <1>5, <2>1, HoldDrop, CowAssumption, Zenon
  <2>3. /\ <<p, v>> \in Holders(h)
        /\ Cardinality(Holders(h)') = Cardinality(Holders(h)) - 1
        /\ \A g \in Page : g # h => Holders(g)' = Holders(g)
    BY <1>0, <2>2, HoldGive, Zenon
  <2>4. ref' = [ref EXCEPT ![h] = @ - 1]
    <3>1. CASE UnmapShared(p, v)
      BY <2>1, <3>1, Zenon DEF UnmapShared
    <3>2. CASE UnmapLast(p, v)
      <4>1. ref[h] = Cardinality(Holders(h)) /\ ~(ref[h] > 1) /\ ref' = [ref EXCEPT ![h] = 0]
        BY <1>0, <2>1, <2>2, <3>2, Zenon DEF RefExact, UnmapLast
      <4>2. ref[h] # 0
        BY <1>a, <2>3, <4>1, HoldersFinite, FS_EmptySet, Zenon
      <4>3. ref[h] - 1 = 0
        BY <1>a, <4>1, <4>2
      <4> QED  BY <4>1, <4>3, Zenon
    <3> QED  BY <1>5, <3>1, <3>2, Zenon
  <2> QED  BY <1>0, <2>2, <2>3, <2>4, Zenon DEF RefExact, TypeOK
<1>6. CASE FaultDec(p)
  <2>1. PICK u, old, new : u = va[p] /\ old = pa[p][va[p]] /\ new = pg[p]
    BY Zenon
  <2>2. /\ u \in Slot /\ old \in Page /\ new \in Page /\ old # new /\ new # NoPage /\ old # NoPage
        /\ u # Op
        /\ Hold(p, u) = old /\ Hold(p, u)' = new
        /\ Hold(p, Op) = new /\ Hold(p, Op)' = NoPage /\ OthersKeep(p, u, p, Op)
    BY <1>6, <2>1, HoldDec, CowAssumption, SlotFinite DEF Slot
  <2>3. /\ Cardinality(Holders(new)') = Cardinality(Holders(new))
        /\ <<p, u>> \in Holders(old)
        /\ Cardinality(Holders(old)') = Cardinality(Holders(old)) - 1
        /\ \A g \in Page : g # new /\ g # old => Holders(g)' = Holders(g)
    <3>1. /\ <<p, u>> \in Holders(old)
          /\ Cardinality(Holders(old)') = Cardinality(Holders(old)) - 1
      BY <1>0, <2>2, Exchange
    <3>2. /\ Cardinality(Holders(new)') = Cardinality(Holders(new))
          /\ \A g \in Page : g # Hold(p, u) /\ g # new => Holders(g)' = Holders(g)
      BY <1>0, <2>2, HandOver
    <3> QED  BY <2>2, <3>1, <3>2, Zenon
  <2>4. ref[old] # 0
    BY <1>0, <2>2, <2>3, HoldersFinite, FS_EmptySet, Zenon DEF RefExact
  <2>5. ref' = [ref EXCEPT ![old] = @ - 1]
    <3>1. ref[old] > 0
      BY <1>0, <2>2, <2>4 DEF TypeOK
    <3> QED  BY <1>6, <2>1, <3>1, ZenonT(30) DEF FaultDec
  <2> QED  BY <1>0, <2>2, <2>3, <2>5, ZenonT(30) DEF RefExact, TypeOK
<1>7. CASE ForkMap(p)
  <2>1. PICK b, u, h : b = child[p] /\ u = va[p] /\ h = pa[p][va[p]]
    BY Zenon
  <2>2. /\ u \in Slot /\ b \in Proc /\ h \in Page /\ h # NoPage /\ b # p
        /\ Hold(b, u) = NoPage /\ Hold(b, u)' = h
        /\ Hold(p, Op) = h /\ Hold(p, Op)' = NoPage /\ OthersKeep(b, u, p, Op)
    BY <1>7, <2>1, HoldMap, CowAssumption DEF Slot
  <2>3. /\ Cardinality(Holders(h)') = Cardinality(Holders(h))
        /\ \A g \in Page : g # h => Holders(g)' = Holders(g)
    <3>1. /\ Cardinality(Holders(h)') = Cardinality(Holders(h))
          /\ \A g \in Page : g # Hold(b, u) /\ g # h => Holders(g)' = Holders(g)
      BY <1>0, <2>2, HandOver
    <3> QED  BY <2>2, <3>1, CowAssumption, Zenon
  <2>4. ref' = ref
    BY <1>7, Zenon DEF ForkMap, mem
  <2> QED  BY <1>0, <2>2, <2>3, <2>4, Zenon DEF RefExact
<1> QED  BY <1>1, <1>2, <1>3, <1>4, <1>5, <1>6, <1>7, Zenon DEF Step, Quiet

(***************************************************************************)
(* The free list                                                           *)
(***************************************************************************)
\* A step that pops or pushes nothing and starts no push keeps the list sound
\* if it takes no reference to a page that nobody held.
LEMMA FreeKeep ==
  ASSUME TypeOK, FreeListSound, PushInv, freeList' = freeList,
         \A g \in Page : Holders(g) = {} => Holders(g)' = {},
         \A q \in Pushing' : q \in Pushing /\ pg'[q] = pg[q]
  PROVE  FreeListSound' /\ PushInv'
<1>1. \A i \in 1 .. Len(freeList) : freeList[i] \in Page
  BY DEF TypeOK
<1>2. PushInv'
  BY Zenon DEF PushInv
<1> QED  BY <1>1, <1>2, ZenonT(30) DEF FreeListSound

\* The same for a step that pops the head of the list and takes a reference to it.
LEMMA FreePop ==
  ASSUME TypeOK, FreeListSound, PushInv, freeList # << >>, freeList' = Tail(freeList),
         NEW h, h = Head(freeList),
         \A g \in Page : g # h => Holders(g)' = Holders(g),
         \A q \in Pushing' : q \in Pushing /\ pg'[q] = pg[q]
  PROVE  FreeListSound' /\ PushInv'
<1>1. /\ h \in Page /\ h = freeList[1] /\ Len(freeList) \in Nat /\ 1 \in 1 .. Len(freeList)
      /\ \A q \in Pushing : pg[q] # h
  BY FreeHead, Zenon
<1>2. PushInv'
  BY <1>1, Zenon DEF PushInv
<1>3. /\ Len(freeList') = Len(freeList) - 1
      /\ \A i \in 1 .. Len(freeList') : freeList'[i] = freeList[i + 1]
  BY HeadTailProperties, Zenon DEF TypeOK
<1>4. \A i \in 1 .. Len(freeList') : i + 1 \in 1 .. Len(freeList) /\ i + 1 # 1
  BY <1>1, <1>3
<1>5. \A i \in 1 .. Len(freeList') : freeList'[i] \in Page /\ freeList'[i] # h
  BY <1>1, <1>3, <1>4 DEF FreeListSound, TypeOK
<1>6. \A i, j \in 1 .. Len(freeList') : freeList'[i] = freeList'[j] => i = j
  <2> SUFFICES ASSUME NEW i \in 1 .. Len(freeList'), NEW j \in 1 .. Len(freeList'),
                      freeList'[i] = freeList'[j]
               PROVE  i = j
    BY Zenon
  <2>1. i + 1 = j + 1
    BY <1>3, <1>4 DEF FreeListSound
  <2> QED  BY <2>1
<1>7. \A i \in 1 .. Len(freeList') :
        /\ Holders(freeList[i])' = {}
        /\ \A q \in Pushing' : pg'[q] # freeList'[i]
  <2> SUFFICES ASSUME NEW i \in 1 .. Len(freeList')
               PROVE  /\ Holders(freeList[i])' = {}
                      /\ \A q \in Pushing' : pg'[q] # freeList'[i]
    BY Zenon
  <2>1. PICK g \in Page : g = freeList'[i] /\ g # h
    BY <1>5, Zenon
  <2>2. Holders(g)' = Holders(g)
    BY <2>1, Zenon
  <2>3. Holders(g) = {} /\ \A q \in Pushing : pg[q] # g
    BY <1>3, <1>4, <2>1, SMTT(30) DEF FreeListSound
  <2> QED  BY <2>1, <2>2, <2>3, Zenon
<1> QED  BY <1>2, <1>6, <1>7, ZenonT(30) DEF FreeListSound

\* Only UnmapLast starts a push, and the page to push does not change under way.
LEMMA PushingKeep ==
  ASSUME IInv, NEW p \in Proc, NEW v \in VPage, NEW d \in Data, NEW c \in Proc,
         Step(p, v, d, c), ~UnmapLast(p, v)
  PROVE  \A q \in Pushing' : q \in Pushing /\ pg'[q] = pg[q]
<1> USE DEF vars, mem, words, table, control, views, MayTrap, At, Goto, SetPte, Pushing
<1>0. TypeOK
  BY Zenon DEF IInv
<1>1. CASE GrowHeap(p, v)
  BY <1>0, <1>1, Zenon DEF TypeOK, GrowHeap
<1>2. CASE WriteHeader(p, v)
  BY <1>0, <1>2, Zenon DEF TypeOK, WriteHeader
<1>3. CASE StoreFaultShared(p, v)
  BY <1>0, <1>3, Zenon DEF TypeOK, StoreFaultShared
<1>4. CASE StoreFaultSole(p, v)
  BY <1>0, <1>4, Zenon DEF TypeOK, StoreFaultSole
<1>5. CASE ReadIntoBuffer(p, v, d)
  BY <1>0, <1>5, Zenon DEF TypeOK, ReadIntoBuffer
<1>6. CASE Fork(p, c)
  BY <1>0, <1>6, Zenon DEF TypeOK, Fork
<1>7. CASE Exit(p)
  BY <1>0, <1>7, Zenon DEF TypeOK, Exit
<1>8. CASE Exec(p)
  BY <1>0, <1>8, Zenon DEF TypeOK, Exec
<1>9. CASE FaultAlloc(p)
  BY <1>0, <1>9, Zenon DEF TypeOK, FaultAlloc
<1>10. CASE FaultPanic(p)
  BY <1>0, <1>10, Zenon DEF TypeOK, FaultPanic
<1>11. CASE FaultCopy(p)
  BY <1>0, <1>11, Zenon DEF TypeOK, FaultCopy
<1>12. CASE FaultDec(p)
  BY <1>0, <1>12, Zenon DEF TypeOK, FaultDec
<1>13. CASE FaultMap(p)
  BY <1>0, <1>13, Zenon DEF TypeOK, FaultMap
<1>14. CASE ForkInc(p)
  BY <1>0, <1>14, Zenon DEF TypeOK, ForkInc
<1>15. CASE ForkMap(p)
  BY <1>0, <1>15, Zenon DEF TypeOK, ForkMap
<1>16. CASE ForkDone(p)
  BY <1>0, <1>16, Zenon DEF TypeOK, ForkDone
<1>17. CASE UnmapShared(p, v)
  BY <1>0, <1>17, Zenon DEF TypeOK, UnmapShared
<1>18. CASE UnmapPush(p)
  BY <1>0, <1>18, Zenon DEF TypeOK, UnmapPush
<1>19. CASE UnmapClear(p)
  BY <1>0, <1>19, Zenon DEF TypeOK, UnmapClear
<1>20. CASE UnmapDone(p)
  BY <1>0, <1>20, Zenon DEF TypeOK, UnmapDone
<1>21. CASE UserStore(p, v, d)
  BY <1>0, <1>21, Zenon DEF TypeOK, UserStore
<1> HIDE DEF vars, mem, words, table, control, views, MayTrap, At, Goto, SetPte, Pushing
<1> QED  BY <1>1, <1>2, <1>3, <1>4, <1>5, <1>6, <1>7, <1>8, <1>9, <1>10, <1>11, <1>12, <1>13, <1>14, <1>15, <1>16, <1>17, <1>18, <1>19, <1>20, <1>21, Zenon DEF Step

\* A step keeps the free list sound, and the pages on their way to it.
LEMMA FreeStep ==
  ASSUME IInv, NEW p \in Proc, NEW v \in VPage, NEW d \in Data, NEW c \in Proc,
         Step(p, v, d, c)
  PROVE  FreeListSound' /\ PushInv'
<1>0. TypeOK /\ FreeListSound /\ PushInv /\ v \in Slot /\ Op \in Slot /\ VPage \subseteq Slot
  BY Zenon DEF IInv, Slot
<1>a. \A q \in Proc, l \in Slot : <<q, l>> \in Holders(Hold(q, l))
  BY Zenon DEF Holders
<1>1. CASE Quiet(p, v, d, c) /\ ~UnmapPush(p)
  <2>1. \A g : Holders(g)' = Holders(g)
    BY <1>1, HoldQuiet, HoldSame, Zenon
  <2>2. freeList' = freeList /\ ~UnmapLast(p, v)
    BY <1>1, ZenonT(30) DEF Quiet, WriteHeader, StoreFaultShared, StoreFaultSole, ReadIntoBuffer, Fork,
       Exit, Exec, FaultPanic, FaultCopy, FaultMap, ForkDone, UnmapClear, UnmapDone, UserStore,
       UnmapLast, mem, MayTrap, At, Goto, Mapped
  <2> QED  BY <1>0, <2>1, <2>2, PushingKeep, FreeKeep, Zenon
<1>2. CASE GrowHeap(p, v)
  <2>1. PICK h : h = Head(freeList)
    BY Zenon
  <2>2. freeList # << >> /\ freeList' = Tail(freeList) /\ ~UnmapLast(p, v)
    BY <1>2, Zenon DEF GrowHeap, MayTrap, UnmapLast, At
  <2>3. h \in Page
    BY <1>0, <2>1, <2>2, FreeHead, Zenon
  <2>4. \A g \in Page : g # h => Holders(g)' = Holders(g)
    BY <1>0, <1>2, <2>1, <2>3, HoldGrow, HoldTake, SMTT(30)
  <2> QED  BY <1>0, <2>1, <2>2, <2>4, PushingKeep, FreePop, Zenon
<1>3. CASE FaultAlloc(p)
  <2>1. PICK h : h = Head(freeList)
    BY Zenon
  <2>2. freeList # << >> /\ freeList' = Tail(freeList) /\ ~UnmapLast(p, v)
    BY <1>3, Zenon DEF FaultAlloc, UnmapLast, At
  <2>3. h \in Page
    BY <1>0, <2>1, <2>2, FreeHead, Zenon
  <2>4. \A g \in Page : g # h => Holders(g)' = Holders(g)
    BY <1>0, <1>3, <2>1, <2>3, HoldAlloc, HoldTake, SMTT(30)
  <2> QED  BY <1>0, <2>1, <2>2, <2>4, PushingKeep, FreePop, Zenon
<1>4. CASE ForkInc(p)
  <2>1. PICK h, u : h = pa[p][va[p]] /\ u = va[p]
    BY Zenon
  <2>2. /\ h \in Page /\ u \in VPage /\ Hold(p, u) = h /\ freeList' = freeList
        /\ ~UnmapLast(p, v)
    BY <1>4, <2>1, HoldInc, SlotFinite, ZenonT(30) DEF ForkInc, At, Hold, Owns, UnmapLast
  <2>3. \A g \in Page : g # h => Holders(g)' = Holders(g)
    BY <1>0, <1>4, <2>1, <2>2, HoldInc, HoldTake
  <2>4. Holders(h) # {}
    BY <1>0, <1>a, <2>2, ZenonT(30)
  <2> QED  BY <1>0, <2>2, <2>3, <2>4, PushingKeep, FreeKeep, Zenon
<1>5. CASE UnmapShared(p, v)
  <2>1. PICK h : h = pa[p][v]
    BY Zenon
  <2>2. /\ h \in Page /\ Hold(p, v) = h /\ freeList' = freeList /\ ~UnmapLast(p, v)
    BY <1>5, <2>1, HoldDrop, ZenonT(30) DEF UnmapShared, UnmapLast
  <2>3. \A g \in Page : g # h => Holders(g)' = Holders(g)
    BY <1>0, <1>5, <2>1, <2>2, HoldDrop, HoldGive, ZenonT(30)
  <2>4. Holders(h) # {}
    BY <1>0, <1>a, <2>2, ZenonT(30)
  <2> QED  BY <1>0, <2>2, <2>3, <2>4, PushingKeep, FreeKeep, Zenon
<1>6. CASE FaultDec(p)
  <2>1. PICK u, old, new : u = va[p] /\ old = pa[p][va[p]] /\ new = pg[p]
    BY Zenon
  <2>2. /\ u \in Slot /\ old \in Page /\ new \in Page /\ old # new /\ u # Op
        /\ Hold(p, u) = old /\ Hold(p, u)' = new
        /\ Hold(p, Op) = new /\ Hold(p, Op)' = NoPage /\ OthersKeep(p, u, p, Op)
    BY <1>6, <2>1, HoldDec, SlotFinite, SMTT(30) DEF Slot
  <2>3. freeList' = freeList /\ ~UnmapLast(p, v)
    BY <1>6, Zenon DEF FaultDec, UnmapLast, At
  <2>4. \A g \in Page : g # Hold(p, u) /\ g # new => Holders(g)' = Holders(g)
    BY <1>0, <2>2, HandOver
  <2>5. Holders(old) # {} /\ Holders(new) # {}
    BY <1>0, <1>a, <2>2, ZenonT(30)
  <2> QED  BY <1>0, <2>2, <2>3, <2>4, <2>5, PushingKeep, FreeKeep, Zenon
<1>7. CASE ForkMap(p)
  <2>1. PICK b, u, h : b = child[p] /\ u = va[p] /\ h = pa[p][va[p]]
    BY Zenon
  <2>2. /\ u \in Slot /\ b \in Proc /\ h \in Page /\ h # NoPage /\ b # p
        /\ Hold(b, u) = NoPage /\ Hold(b, u)' = h
        /\ Hold(p, Op) = h /\ Hold(p, Op)' = NoPage /\ OthersKeep(b, u, p, Op)
    BY <1>7, <2>1, HoldMap, CowAssumption, SMTT(30) DEF Slot
  <2>3. freeList' = freeList /\ ~UnmapLast(p, v)
    BY <1>7, Zenon DEF ForkMap, UnmapLast, At, mem
  <2>4. \A g \in Page : g # Hold(b, u) /\ g # h => Holders(g)' = Holders(g)
    BY <1>0, <2>2, HandOver
  <2>5. Holders(h) # {} /\ NoPage \notin Page
    BY <1>0, <1>a, <2>2, CowAssumption, ZenonT(30)
  <2> QED  BY <1>0, <2>2, <2>3, <2>4, <2>5, PushingKeep, FreeKeep, Zenon
<1>8. CASE UnmapLast(p, v)
  <2>1. PICK h : h = pa[p][v]
    BY Zenon
  <2>2. /\ h \in Page /\ h # NoPage /\ Hold(p, v) = h /\ Hold(p, v)' = NoPage
        /\ OthersKeep(p, v, p, v)
    BY <1>8, <2>1, HoldDrop, CowAssumption, Zenon
  <2>3. /\ <<p, v>> \in Holders(h) /\ Holders(h)' = Holders(h) \ {<<p, v>>}
        /\ \A g \in Page : g # h => Holders(g)' = Holders(g)
    BY <1>0, <2>2, HoldGive, Zenon
  <2>4. Holders(h) = {<<p, v>>}
    <3>1. ~(Cardinality(Holders(h)) > 1)
      BY <1>8, <2>1, <2>2, Zenon DEF UnmapLast, IInv, RefExact
    <3> QED  BY <2>3, <3>1, OneMember, HoldersFinite, Zenon
  <2>5. Holders(h)' = {} /\ \A g \in Page : Holders(g) = {} => Holders(g)' = {} /\ g # h
    BY <2>3, <2>4, ZenonT(30)
  <2>6. /\ freeList' = freeList /\ p \in Pushing' /\ pg'[p] = h
        /\ \A q \in Pushing' : q # p => q \in Pushing /\ pg'[q] = pg[q]
    BY <1>0, <1>8, <2>1, Zenon DEF UnmapLast, Pushing, TypeOK, Goto
  <2>7. PushInv'
    BY <1>0, <2>2, <2>5, <2>6, Zenon DEF PushInv
  <2>8. \A i \in 1 .. Len(freeList) : freeList[i] \in Page
    BY <1>0 DEF TypeOK
  <2> QED  BY <1>0, <2>2, <2>5, <2>6, <2>7, <2>8, ZenonT(30) DEF FreeListSound, PushInv
<1>9. CASE UnmapPush(p)
  <2>1. PICK h : h = pg[p]
    BY Zenon
  <2>2. /\ p \in Pushing /\ h \in Page /\ freeList' = <<h>> \o freeList
        /\ \A q \in Pushing' : q # p /\ q \in Pushing /\ pg'[q] = pg[q]
    BY <1>0, <1>9, <2>1, Zenon DEF UnmapPush, Pushing, PushInv, TypeOK, At, Goto
  <2>3. \A g : Holders(g)' = Holders(g)
    BY <1>9, HoldQuiet, HoldSame, Zenon DEF Quiet
  <2>4. PushInv'
    BY <1>0, <2>2, <2>3, ZenonT(30) DEF PushInv
  <2>5. /\ Len(freeList') = Len(freeList) + 1 /\ Len(freeList) \in Nat
        /\ \A i \in 1 .. Len(freeList') :
             freeList'[i] = IF i = 1 THEN h ELSE freeList[i - 1]
    BY <1>0, <2>2, ConcatProperties DEF TypeOK
  <2>6. \A i \in 1 .. Len(freeList') : i # 1 => i - 1 \in 1 .. Len(freeList)
    BY <2>5
  <2>7. Holders(h) = {} /\ \A q \in Pushing' : pg'[q] # h
    BY <1>0, <2>1, <2>2, ZenonT(30) DEF PushInv, FreeListSound
  <2>8. \A i \in 1 .. Len(freeList) : freeList[i] # h
    BY <1>0, <2>1, <2>2, Zenon DEF FreeListSound
  <2>9. \A i, j \in 1 .. Len(freeList') : freeList'[i] = freeList'[j] => i = j
    <3> SUFFICES ASSUME NEW i \in 1 .. Len(freeList'), NEW j \in 1 .. Len(freeList'),
                        freeList'[i] = freeList'[j], i # j
                 PROVE  FALSE
      BY Zenon
    <3>1. CASE i = 1
      BY <2>5, <2>6, <2>8, <3>1, Zenon
    <3>2. CASE j = 1
      BY <2>5, <2>6, <2>8, <3>2, Zenon
    <3>3. CASE i # 1 /\ j # 1
      <4>1. freeList[i - 1] = freeList[j - 1] /\ i - 1 \in 1 .. Len(freeList) /\ j - 1 \in 1 .. Len(freeList)
        BY <2>5, <2>6, <3>3, Zenon
      <4>2. i - 1 = j - 1
        BY <1>0, <4>1, Zenon DEF FreeListSound
      <4> QED  BY <4>2, SMTT(30)
    <3> QED  BY <3>1, <3>2, <3>3, Zenon
  <2>10. \A i \in 1 .. Len(freeList') :
           /\ Holders(freeList[i])' = {}
           /\ \A q \in Pushing' : pg'[q] # freeList'[i]
    <3> SUFFICES ASSUME NEW i \in 1 .. Len(freeList')
                 PROVE  /\ Holders(freeList[i])' = {}
                        /\ \A q \in Pushing' : pg'[q] # freeList'[i]
      BY Zenon
    <3>1. PICK g : g = freeList'[i]
      BY Zenon
    <3>2. Holders(g) = {} /\ \A q \in Pushing' : pg'[q] # g
      <4>1. CASE i = 1
        BY <2>5, <2>7, <3>1, <4>1, Zenon
      <4>2. CASE i # 1
        <5>1. PICK j \in 1 .. Len(freeList) : g = freeList[j]
          BY <2>5, <2>6, <3>1, <4>2, Zenon
        <5> QED  BY <1>0, <2>2, <5>1, Zenon DEF FreeListSound
      <4> QED  BY <4>1, <4>2, Zenon
    <3>3. Holders(g)' = {}
      BY <2>3, <3>2, Zenon
    <3> QED  BY <3>1, <3>2, <3>3, Zenon
  <2>11. \A q, r \in Pushing' : pg'[q] = pg'[r] => q = r
    BY <1>0, <2>2, Zenon DEF FreeListSound
  <2> QED  BY <2>4, <2>9, <2>10, <2>11, ZenonT(30) DEF FreeListSound
<1> QED  BY <1>1, <1>2, <1>3, <1>4, <1>5, <1>6, <1>7, <1>8, <1>9, Zenon DEF Step, Quiet

(***************************************************************************)
(* The pages of faults in progress                                         *)
(***************************************************************************)
Fresh == {q \in Proc : pc[q] \in {"fault_copy", "fault_dec"}}

\* Only FaultAlloc starts a copy, and the new page does not change under way.
LEMMA FreshKeep ==
  ASSUME IInv, NEW p \in Proc, NEW v \in VPage, NEW d \in Data, NEW c \in Proc,
         Step(p, v, d, c), ~FaultAlloc(p)
  PROVE  \A q \in Fresh' : q \in Fresh /\ pg'[q] = pg[q]
<1> USE DEF vars, mem, words, table, control, views, MayTrap, At, Goto, SetPte, Fresh
<1>0. TypeOK
  BY Zenon DEF IInv
<1>1. CASE GrowHeap(p, v)
  BY <1>0, <1>1, Zenon DEF TypeOK, GrowHeap
<1>2. CASE WriteHeader(p, v)
  BY <1>0, <1>2, Zenon DEF TypeOK, WriteHeader
<1>3. CASE StoreFaultShared(p, v)
  BY <1>0, <1>3, Zenon DEF TypeOK, StoreFaultShared
<1>4. CASE StoreFaultSole(p, v)
  BY <1>0, <1>4, Zenon DEF TypeOK, StoreFaultSole
<1>5. CASE ReadIntoBuffer(p, v, d)
  BY <1>0, <1>5, Zenon DEF TypeOK, ReadIntoBuffer
<1>6. CASE Fork(p, c)
  BY <1>0, <1>6, Zenon DEF TypeOK, Fork
<1>7. CASE Exit(p)
  BY <1>0, <1>7, Zenon DEF TypeOK, Exit
<1>8. CASE Exec(p)
  BY <1>0, <1>8, Zenon DEF TypeOK, Exec
<1>9. CASE FaultPanic(p)
  BY <1>0, <1>9, Zenon DEF TypeOK, FaultPanic
<1>10. CASE FaultCopy(p)
  BY <1>0, <1>10, Zenon DEF TypeOK, FaultCopy
<1>11. CASE FaultDec(p)
  BY <1>0, <1>11, Zenon DEF TypeOK, FaultDec
<1>12. CASE FaultMap(p)
  BY <1>0, <1>12, Zenon DEF TypeOK, FaultMap
<1>13. CASE ForkInc(p)
  BY <1>0, <1>13, Zenon DEF TypeOK, ForkInc
<1>14. CASE ForkMap(p)
  BY <1>0, <1>14, Zenon DEF TypeOK, ForkMap
<1>15. CASE ForkDone(p)
  BY <1>0, <1>15, Zenon DEF TypeOK, ForkDone
<1>16. CASE UnmapShared(p, v)
  BY <1>0, <1>16, Zenon DEF TypeOK, UnmapShared
<1>17. CASE UnmapLast(p, v)
  BY <1>0, <1>17, Zenon DEF TypeOK, UnmapLast
<1>18. CASE UnmapPush(p)
  BY <1>0, <1>18, Zenon DEF TypeOK, UnmapPush
<1>19. CASE UnmapClear(p)
  BY <1>0, <1>19, Zenon DEF TypeOK, UnmapClear
<1>20. CASE UnmapDone(p)
  BY <1>0, <1>20, Zenon DEF TypeOK, UnmapDone
<1>21. CASE UserStore(p, v, d)
  BY <1>0, <1>21, Zenon DEF TypeOK, UserStore
<1> QED  BY <1>1, <1>2, <1>3, <1>4, <1>5, <1>6, <1>7, <1>8, <1>9, <1>10, <1>11, <1>12, <1>13, <1>14, <1>15, <1>16, <1>17, <1>18, <1>19, <1>20, <1>21, ZenonT(30) DEF Step

\* A page somebody else holds is not the new page of a fault.
LEMMA NotFresh ==
  ASSUME FreshInv, NEW q \in Fresh, NEW r \in Proc, NEW m \in Slot, NEW h,
         Hold(r, m) = h, ~(r = q /\ m = Op)
  PROVE  pg[q] # h
<1>1. <<r, m>> \in Holders(h)
  BY Zenon DEF Holders
<1>2. Holders(pg[q]) = {<<q, Op>>}
  BY Zenon DEF FreshInv, Fresh
<1> QED  BY <1>1, <1>2

\* A step keeps the new page of every fault in progress private to it.
LEMMA FreshStep ==
  ASSUME IInv, NEW p \in Proc, NEW v \in VPage, NEW d \in Data, NEW c \in Proc,
         Step(p, v, d, c)
  PROVE  FreshInv'
<1>0. /\ TypeOK /\ FreeListSound /\ FreshInv /\ v \in Slot /\ Op \in Slot
      /\ VPage \subseteq Slot /\ v # Op
  BY SlotFinite, Zenon DEF IInv, Slot
<1>a. ASSUME \A q \in Fresh' : /\ q \in Fresh /\ pg'[q] = pg[q]
                               /\ \A g : g = pg[q] => Holders(g)' = Holders(g)
      PROVE  FreshInv'
  <2> SUFFICES ASSUME NEW q \in Fresh'
               PROVE  pg'[q] \in Page /\ Holders(pg[q])' = {<<q, Op>>}
    BY Zenon DEF FreshInv, Fresh
  <2>1. PICK g : g = pg[q]
    BY Zenon
  <2>2. g \in Page /\ Holders(g) = {<<q, Op>>} /\ g = pg'[q]
    BY <1>0, <1>a, <2>1, Zenon DEF FreshInv, Fresh
  <2>3. Holders(g)' = {<<q, Op>>}
    BY <1>a, <2>1, <2>2, Zenon
  <2> QED  BY <2>2, <2>3, Zenon
<1>1. CASE Quiet(p, v, d, c)
  <2>1. ~FaultAlloc(p)
    BY <1>1, ZenonT(30) DEF Quiet, WriteHeader, StoreFaultShared, StoreFaultSole, ReadIntoBuffer, Fork,
       Exit, Exec, FaultPanic, FaultCopy, FaultMap, ForkDone, UnmapPush, UnmapClear, UnmapDone,
       UserStore, FaultAlloc, MayTrap, At
  <2> QED  BY <1>1, <1>a, <2>1, FreshKeep, HoldQuiet, HoldSame, Zenon
<1>2. CASE GrowHeap(p, v)
  <2>1. PICK h : h = Head(freeList)
    BY Zenon
  <2>2. freeList # << >> /\ ~FaultAlloc(p)
    BY <1>2, Zenon DEF GrowHeap, MayTrap, FaultAlloc, At
  <2>3. h \in Page /\ Holders(h) = {}
    BY <1>0, <2>1, <2>2, FreeHead, Zenon
  <2>4. \A g \in Page : g # h => Holders(g)' = Holders(g)
    BY <1>0, <1>2, <2>1, <2>3, HoldGrow, HoldTake, SMTT(30)
  <2>5. \A q \in Fresh : pg[q] \in Page /\ pg[q] # h
    BY <1>0, <2>3, ZenonT(30) DEF FreshInv, Fresh
  <2> QED  BY <1>a, <2>2, <2>4, <2>5, FreshKeep, Zenon
<1>3. CASE FaultAlloc(p)
  <2>1. PICK h : h = Head(freeList)
    BY Zenon
  <2>2. /\ freeList # << >> /\ pg'[p] = h
        /\ \A q \in Fresh' : q # p => q \in Fresh /\ pg'[q] = pg[q]
    BY <1>0, <1>3, <2>1, Zenon DEF FaultAlloc, TypeOK, Fresh, Goto
  <2>3. h \in Page /\ Holders(h) = {}
    BY <1>0, <2>1, <2>2, FreeHead, Zenon
  <2>4. /\ Holders(h)' = {<<p, Op>>}
        /\ \A g \in Page : g # h => Holders(g)' = Holders(g)
    <3>1. Hold(p, Op) = NoPage /\ Hold(p, Op)' = h /\ OthersKeep(p, Op, p, Op)
      BY <1>3, <2>1, HoldAlloc, Zenon
    <3>2. /\ Holders(h)' = Holders(h) \cup {<<p, Op>>}
          /\ \A g \in Page : g # h => Holders(g)' = Holders(g)
      BY <1>0, <2>3, <3>1, HoldTake, Zenon
    <3> QED  BY <2>3, <3>2, Zenon
  <2>5. \A q \in Fresh : pg[q] \in Page /\ pg[q] # h
    BY <1>0, <2>3, ZenonT(30) DEF FreshInv, Fresh
  <2> SUFFICES ASSUME NEW q \in Fresh'
               PROVE  pg'[q] \in Page /\ Holders(pg[q])' = {<<q, Op>>}
    BY Zenon DEF FreshInv, Fresh
  <2>6. PICK g : g = pg'[q]
    BY Zenon
  <2>7. g \in Page /\ Holders(g)' = {<<q, Op>>}
    <3>1. CASE q = p
      BY <2>2, <2>3, <2>4, <2>6, <3>1, Zenon
    <3>2. CASE q # p
      <4>1. g = pg[q] /\ q \in Fresh
        BY <2>2, <2>6, <3>2, Zenon
      <4>2. g \in Page /\ g # h /\ Holders(g) = {<<q, Op>>}
        BY <1>0, <2>5, <4>1, Zenon DEF FreshInv, Fresh
      <4> QED  BY <2>4, <4>2, Zenon
    <3> QED  BY <3>1, <3>2, Zenon
  <2> QED  BY <2>6, <2>7, Zenon
<1>4. CASE ForkInc(p)
  <2>1. PICK h, u : h = pa[p][va[p]] /\ u = va[p]
    BY Zenon
  <2>2. h \in Page /\ u \in VPage /\ u # Op /\ Hold(p, u) = h /\ ~FaultAlloc(p)
    BY <1>4, <2>1, HoldInc, SlotFinite, ZenonT(30) DEF ForkInc, At, Hold, Owns, FaultAlloc
  <2>3. \A g \in Page : g # h => Holders(g)' = Holders(g)
    BY <1>0, <1>4, <2>1, <2>2, HoldInc, HoldTake, SMTT(30)
  <2>4. \A q \in Fresh : pg[q] \in Page /\ pg[q] # h
    BY <1>0, <2>2, NotFresh, ZenonT(30) DEF FreshInv, Fresh
  <2> QED  BY <1>a, <2>2, <2>3, <2>4, FreshKeep, Zenon
<1>5. CASE UnmapShared(p, v) \/ UnmapLast(p, v)
  <2>1. PICK h : h = pa[p][v]
    BY Zenon
  <2>2. h \in Page /\ Hold(p, v) = h /\ ~FaultAlloc(p)
    BY <1>5, <2>1, HoldDrop, ZenonT(30) DEF UnmapShared, UnmapLast, FaultAlloc, At
  <2>3. \A g \in Page : g # h => Holders(g)' = Holders(g)
    BY <1>0, <1>5, <2>1, <2>2, HoldDrop, HoldGive, ZenonT(30)
  <2>4. \A q \in Fresh : pg[q] \in Page /\ pg[q] # h
    BY <1>0, <2>2, NotFresh, ZenonT(30) DEF FreshInv, Fresh
  <2> QED  BY <1>a, <2>2, <2>3, <2>4, FreshKeep, ZenonT(30)
<1>6. CASE FaultDec(p)
  <2>1. PICK u, old, new : u = va[p] /\ old = pa[p][va[p]] /\ new = pg[p]
    BY Zenon
  <2>2. /\ u \in Slot /\ old \in Page /\ new \in Page /\ old # new /\ u # Op
        /\ Hold(p, u) = old /\ Hold(p, u)' = new
        /\ Hold(p, Op) = new /\ Hold(p, Op)' = NoPage /\ OthersKeep(p, u, p, Op)
    BY <1>6, <2>1, HoldDec, SlotFinite, ZenonT(30) DEF Slot
  <2>3. ~FaultAlloc(p) /\ p \notin Fresh'
    BY <1>0, <1>6, Zenon DEF FaultDec, FaultAlloc, At, Goto, Fresh, TypeOK
  <2>4. \A g \in Page : g # Hold(p, u) /\ g # new => Holders(g)' = Holders(g)
    BY <1>0, <2>2, HandOver, SMTT(30)
  <2>5. \A q \in Fresh : q # p => pg[q] \in Page /\ pg[q] # old /\ pg[q] # new
    BY <1>0, <2>2, NotFresh, Zenon DEF FreshInv, Fresh
  <2> QED  BY <1>a, <2>2, <2>3, <2>4, <2>5, FreshKeep, Zenon
<1>7. CASE ForkMap(p)
  <2>1. PICK b, u, h : b = child[p] /\ u = va[p] /\ h = pa[p][va[p]]
    BY Zenon
  <2>2. /\ u \in Slot /\ b \in Proc /\ h \in Page /\ h # NoPage /\ b # p
        /\ Hold(b, u) = NoPage /\ Hold(b, u)' = h
        /\ Hold(p, Op) = h /\ Hold(p, Op)' = NoPage /\ OthersKeep(b, u, p, Op)
    BY <1>7, <2>1, HoldMap, CowAssumption, SMTT(30) DEF Slot
  <2>3. ~FaultAlloc(p) /\ p \notin Fresh
    BY <1>7, Zenon DEF ForkMap, FaultAlloc, At, Fresh
  <2>4. \A g \in Page : g # Hold(b, u) /\ g # h => Holders(g)' = Holders(g)
    BY <1>0, <2>2, HandOver
  <2>5. \A q \in Fresh : pg[q] \in Page /\ pg[q] # NoPage /\ pg[q] # h
    BY <1>0, <2>2, <2>3, NotFresh, CowAssumption, Zenon DEF FreshInv, Fresh
  <2> QED  BY <1>a, <2>2, <2>3, <2>4, <2>5, FreshKeep, ZenonT(30)
<1> QED  BY <1>1, <1>2, <1>3, <1>4, <1>5, <1>6, <1>7, Zenon DEF Step, Quiet
=============================================================================
