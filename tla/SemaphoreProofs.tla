-------------------------- MODULE SemaphoreProofs --------------------------
(***************************************************************************)
(* Proofs about module Semaphore.  Ids are unique whatever the programs    *)
(* do; that waiters are counted and nobody is lost, and that the           *)
(* semaphores are counting semaphores, is proved for programs that use a   *)
(* semaphore on the hart it was created on (Pinned).                       *)
(***************************************************************************)
EXTENDS Semaphore, TLAPS

-----------------------------------------------------------------------------
(***************************************************************************)
(* Queues                                                                  *)
(***************************************************************************)
\* insert_to_ready_queue and the semaphore's queue: who is in already is not
\* put in again, and nobody else moves.
LEMMA EnqueueFacts ==
  ASSUME NEW q \in Seq(Proc), NEW p \in Proc
  PROVE  /\ Enqueue(q, p) \in Seq(Proc)
         /\ Range(Enqueue(q, p)) = Range(q) \cup {p}
         /\ IsInjective(q) => IsInjective(Enqueue(q, p))
         /\ p \notin Range(q) => /\ Enqueue(q, p) = Append(q, p)
                                 /\ Len(Enqueue(q, p)) = Len(q) + 1
<1>1. CASE p \in Range(q)
  BY <1>1, Zenon DEF Enqueue
<1>2. CASE p \notin Range(q)
  <2> DEFINE r == Append(q, p)
  <2>1. /\ r \in Seq(Proc) /\ Len(r) = Len(q) + 1 /\ Len(q) \in Nat
        /\ \A i \in 1 .. Len(q) : r[i] = q[i]
        /\ r[Len(q) + 1] = p
    OBVIOUS
  <2>2. DOMAIN q = 1 .. Len(q) /\ DOMAIN r = 1 .. (Len(q) + 1)
    BY <2>1
  <2> HIDE DEF r
  <2>3. Range(r) = Range(q) \cup {p}
    BY <2>1, <2>2 DEF Range
  <2>4. ASSUME IsInjective(q) PROVE IsInjective(r)
    BY <2>1, <2>2, <2>4, <1>2 DEF IsInjective, Range
  <2>5. Enqueue(q, p) = r
    BY <1>2, Zenon DEF Enqueue, r
  <2> QED
    BY <2>1, <2>3, <2>4, <2>5, Zenon DEF r
<1> QED
  BY <1>1, <1>2, Zenon

\* Taking the head of a queue leaves the others in it.
LEMMA TailFacts ==
  ASSUME NEW q \in Seq(Proc), q # <<>>
  PROVE  /\ Head(q) \in Proc /\ Tail(q) \in Seq(Proc)
         /\ Len(Tail(q)) = Len(q) - 1
         /\ Range(q) = Range(Tail(q)) \cup {Head(q)}
         /\ IsInjective(q) => IsInjective(Tail(q)) /\ Head(q) \notin Range(Tail(q))
<1> DEFINE t == Tail(q)
<1>1. /\ Head(q) \in Proc /\ t \in Seq(Proc) /\ Len(t) = Len(q) - 1
      /\ \A i \in 1 .. Len(t) : t[i] = q[i + 1]
  OBVIOUS
<1>2. Head(q) = q[1] /\ Len(q) \in Nat \ {0} /\ DOMAIN q = 1 .. Len(q) /\ DOMAIN t = 1 .. (Len(q) - 1)
  BY <1>1
<1> HIDE DEF t
<1>3. Range(q) = Range(t) \cup {q[1]}
  <2>1. ASSUME NEW i \in DOMAIN q, i # 1 PROVE q[i] = t[i - 1] /\ i - 1 \in DOMAIN t
    BY <1>1, <1>2, <2>1
  <2>2. ASSUME NEW i \in DOMAIN t PROVE t[i] = q[i + 1] /\ i + 1 \in DOMAIN q
    BY <1>1, <1>2
  <2>3. 1 \in DOMAIN q
    BY <1>2
  <2> QED
    BY <2>1, <2>2, <2>3 DEF Range
<1>4. ASSUME IsInjective(q) PROVE IsInjective(t) /\ q[1] \notin Range(t)
  <2>1. ASSUME NEW a \in DOMAIN t PROVE a + 1 \in DOMAIN q /\ t[a] = q[a + 1] /\ a + 1 # 1
    BY <1>1, <1>2
  <2>2. ASSUME NEW a \in DOMAIN t, NEW b \in DOMAIN t, t[a] = t[b] PROVE a = b
    BY <1>2, <1>4, <2>1, <2>2 DEF IsInjective
  <2>3. 1 \in DOMAIN q
    BY <1>2
  <2> QED
    BY <1>4, <2>1, <2>2, <2>3 DEF IsInjective, Range
<1> QED
  BY <1>1, <1>2, <1>3, <1>4, Zenon DEF t

-----------------------------------------------------------------------------
\* Every action: a hart's program counter, and the process it works for.
LEMMA ThisIsProc ==
  ASSUME TypeInv, StartInv, NEW h \in Hart, on[h] # NULL
  PROVE  Me(h) = Home[on[h]] /\ Me(h) \in Hart /\ This(h) \in Proc /\ on[h] \in Proc
BY SemaphoreAssumption, Zenon DEF TypeInv, StartInv, TypeOK, Me, This, Started

LEMMA InitInv ==
  Init => TypeInv /\ LocalInv /\ StartInv /\ IdInv /\ SlotInv /\ LockInv /\ HomeInv /\ PlaceInv /\ CountInv
<1> SUFFICES ASSUME Init PROVE TypeInv /\ LocalInv /\ StartInv /\ IdInv /\ SlotInv /\ LockInv /\ HomeInv /\ PlaceInv /\ CountInv
  BY Zenon
<1> USE SemaphoreAssumption DEF Init
<1>1. \A h \in Hart : /\ ready[h] \in Seq(Proc) /\ IsInjective(ready[h])
                       /\ Range(ready[h]) = {p \in Proc : Home[p] = h}
  BY ReadyAssumption, Zenon
<1>2. Range(<<>>) = {} /\ IsInjective(<<>>) /\ Len(<<>>) = 0
  BY DEF Range, IsInjective
<1>3. TypeOK
  <2>1. ready \in [Hart -> Seq(Proc)]
    BY ReadyAssumption, Zenon
  <2>2. <<>> \in Seq(Proc) /\ -1 \in -1 .. (MaxNew - 1) /\ 0 \in 0 .. MaxNew /\ -1 \in Int
    OBVIOUS
  <2> QED
    BY <2>1, <2>2, Zenon DEF TypeOK
<1>4. TypeInv /\ LocalInv /\ StartInv
  BY <1>1, <1>2, <1>3 DEF TypeInv, LocalInv, StartInv, Started
<1>5. IdInv /\ SlotInv /\ LockInv
  BY DEF IdInv, SlotInv, LockInv, Free
<1>6. HomeInv
  BY <1>1, <1>2, Zenon DEF HomeInv
<1>7. PlaceInv
  BY <1>1, <1>2, Zenon DEF PlaceInv
<1>8. CountInv
  BY Zenon DEF CountInv, NoWakePanic
<1> QED
  BY <1>4, <1>5, <1>6, <1>7, <1>8, Zenon
-----------------------------------------------------------------------------
(***************************************************************************)
(* Steps                                                                   *)
(***************************************************************************)
\* The end of a trap: the hart goes on with current[] of the hart it acts as.
Returned(h) ==
  /\ on' \in [Hart -> Proc \cup {NULL}] /\ on'[h] \in Proc /\ on'[h] = This(h)
  /\ pc' \in [Hart -> {"sched", "user", "new_slot", "new_value", "p_block", "v_ready"}]
  /\ pc'[h] = "user"
  /\ \A k \in Hart \ {h} : on'[k] = on[k] /\ pc'[k] = pc[k]

LEMMA ReturnFacts ==
  ASSUME TypeInv, LocalInv, StartInv, NEW h \in Hart, pc[h] # "sched", Return(h)
  PROVE  Returned(h)
<1>1. This(h) \in Proc
  BY ThisIsProc, Zenon DEF LocalInv
<1> QED
  BY <1>1, Zenon DEF TypeInv, TypeOK, Return, Returned, Goto, Set

LEMMA TypeStep ==
  ASSUME TypeInv, LocalInv, StartInv, IdInv, [Next]_vars
  PROVE  TypeInv'
<1> USE SemaphoreAssumption
<1>1. CASE UNCHANGED vars
  BY <1>1, Zenon DEF vars, sems, procs, locals, TypeInv, TypeOK
<1>2. ASSUME NEW h \in Hart, New(h) PROVE TypeInv'
  BY <1>2 DEF New, procs, Goto, TypeInv, TypeOK, At, Set
<1>3. ASSUME NEW h \in Hart, NewSlot(h) PROVE TypeInv'
  <2>1. id[h] \in -1 .. (MaxNew - 1)
    BY <1>3 DEF NewSlot, At, IdInv, TypeInv, TypeOK
  <2> QED
    BY <1>3, <2>1 DEF NewSlot, procs, Goto, TypeInv, TypeOK, At, Set
<1>4. ASSUME NEW h \in Hart, NewFull(h) PROVE TypeInv'
  <2>1. Returned(h)
    BY <1>4, ReturnFacts, Zenon DEF NewFull, At
  <2> QED
    BY <1>4, <2>1, Zenon DEF NewFull, procs, sems, locals, TypeInv, TypeOK, At, Set, Returned
<1>5. ASSUME NEW h \in Hart, NewValue(h) PROVE TypeInv'
  <2>1. Returned(h)
    BY <1>5, ReturnFacts, Zenon DEF NewValue, At
  <2>2. slot[h] \in Slot
    BY <1>5, Zenon DEF NewValue, At, LocalInv, TypeInv
  <2>3. Me(h) \in Hart
    BY <1>5, ThisIsProc, Zenon DEF NewValue, At, LocalInv
  <2> QED
    BY <1>5, <2>1, <2>2, <2>3 DEF NewValue, procs, locals, TypeInv, TypeOK, At, Set, Returned
<1>6. ASSUME NEW h \in Hart, NEW i \in Slot, PTake(h, i) PROVE TypeInv'
  <2>1. Returned(h)
    BY <1>6, ReturnFacts, Zenon DEF PTake, At, MayUse
  <2> QED
    BY <1>6, <2>1 DEF PTake, procs, locals, TypeInv, TypeOK, At, Set, Returned
<1>7. ASSUME NEW h \in Hart, NEW i \in Slot, PWait(h, i) PROVE TypeInv'
  BY <1>7 DEF PWait, procs, Goto, TypeInv, TypeOK, Set
<1>8. ASSUME NEW h \in Hart, NEW i \in Slot, VGive(h, i) PROVE TypeInv'
  <2>1. Returned(h)
    BY <1>8, ReturnFacts, Zenon DEF VGive, At, MayUse
  <2>2. value' \in [Slot -> Int]
    BY <1>8 DEF VGive, TypeInv, TypeOK
  <2> QED
    BY <1>8, <2>1, <2>2, Zenon DEF VGive, procs, locals, TypeInv, TypeOK, Returned
<1>9. ASSUME NEW h \in Hart, NEW i \in Slot, VWake(h, i) PROVE TypeInv'
  <2>1. Head(queue[i]) \in Proc /\ Tail(queue[i]) \in Seq(Proc)
    BY <1>9, TailFacts, Zenon DEF VWake, TypeInv, TypeOK
  <2>2. value' \in [Slot -> Int]
    BY <1>9 DEF VWake, TypeInv, TypeOK
  <2>3. woken' \in [Hart -> Proc \cup {NULL}] /\ queue' \in [Slot -> Seq(Proc)]
    BY <1>9, <2>1, Zenon DEF VWake, Set, TypeInv, TypeOK
  <2> QED
    BY <1>9, <2>2, <2>3, Zenon DEF VWake, procs, Goto, TypeInv, TypeOK, Set
<1>10. ASSUME NEW h \in Hart, NEW i \in Slot, VPanic(h, i) PROVE TypeInv'
  BY <1>10 DEF VPanic, procs, locals, TypeInv, TypeOK, At, Set
<1>11. ASSUME NEW h \in Hart, PBlock(h) PROVE TypeInv'
  <2>1. Me(h) \in Hart /\ This(h) \in Proc
    BY <1>11, ThisIsProc, Zenon DEF PBlock, At, LocalInv
  <2>2. slot[h] \in Slot
    BY <1>11, Zenon DEF PBlock, At, LocalInv, TypeInv
  <2>3. Enqueue(queue[slot[h]], This(h)) \in Seq(Proc)
    BY <2>1, <2>2, EnqueueFacts, Zenon DEF TypeInv, TypeOK
  <2> QED
    BY <1>11, <2>1, <2>2, <2>3, Zenon DEF PBlock, locals, Goto, TypeInv, TypeOK, At, Set
<1>12. ASSUME NEW h \in Hart, VReady(h) PROVE TypeInv'
  <2>1. Returned(h)
    BY <1>12, ReturnFacts, Zenon DEF VReady, At
  <2>2. Me(h) \in Hart /\ This(h) \in Proc
    BY <1>12, ThisIsProc, Zenon DEF VReady, At, LocalInv
  <2>3. woken[h] \in Proc
    BY <1>12, Zenon DEF VReady, At, LocalInv, TypeInv
  <2>4. Enqueue(ready[Me(h)], woken[h]) \in Seq(Proc)
    BY <2>2, <2>3, EnqueueFacts, Zenon DEF TypeInv, TypeOK
  <2> QED
    BY <1>12, <2>1, <2>2, <2>3, <2>4, Zenon DEF VReady, sems, TypeInv, TypeOK, At, Set, Returned
<1>13. ASSUME NEW h \in Hart, Yield(h) PROVE TypeInv'
  <2>1. Me(h) \in Hart /\ This(h) \in Proc
    BY <1>13, ThisIsProc, Zenon DEF Yield, At, LocalInv
  <2>2. Enqueue(ready[Me(h)], This(h)) \in Seq(Proc)
    BY <2>1, EnqueueFacts, Zenon DEF TypeInv, TypeOK
  <2> QED
    BY <1>13, <2>1, <2>2, Zenon DEF Yield, sems, locals, Goto, TypeInv, TypeOK, At, Set
<1>14. ASSUME NEW h \in Hart, Schedule(h) PROVE TypeInv'
  <2>1. Me(h) \in Hart
    BY ThisIsProc, Zenon DEF Me
  <2>2. Head(ready[Me(h)]) \in Proc /\ Tail(ready[Me(h)]) \in Seq(Proc)
    BY <1>14, <2>1, TailFacts, Zenon DEF Schedule, TypeInv, TypeOK
  <2> QED
    BY <1>14, <2>1, <2>2, Zenon DEF Schedule, sems, locals, Goto, TypeInv, TypeOK, At, Set
<1> QED
  BY <1>1, <1>2, <1>3, <1>4, <1>5, <1>6, <1>7, <1>8, <1>9, <1>10, <1>11, <1>12, <1>13, <1>14, Zenon DEF Next, Step

LEMMA LocalStep ==
  ASSUME TypeInv, LocalInv, StartInv, [Next]_vars
  PROVE  LocalInv'
<1> USE SemaphoreAssumption
<1>1. CASE UNCHANGED vars
  BY <1>1, Zenon DEF vars, sems, procs, locals, LocalInv
<1>2. ASSUME NEW h \in Hart, New(h) PROVE LocalInv'
  BY <1>2, Zenon DEF New, procs, Goto, TypeInv, TypeOK, LocalInv, At, Set
<1>3. ASSUME NEW h \in Hart, NewSlot(h) PROVE LocalInv'
  <2>1. PICK i \in Slot : slot' = [slot EXCEPT ![h] = i]
    BY <1>3, Zenon DEF NewSlot, Set
  <2>2. i # NULL /\ pc' = [pc EXCEPT ![h] = "new_value"] /\ pc[h] = "new_slot" /\ UNCHANGED <<on, woken>>
    BY <1>3 DEF NewSlot, Slot, Goto, At
  <2> QED
    BY <2>1, <2>2, Zenon DEF TypeInv, LocalInv
<1>4. ASSUME NEW h \in Hart, NewFull(h) PROVE LocalInv'
  <2>1. Returned(h)
    BY <1>4, ReturnFacts, Zenon DEF NewFull, At
  <2> QED
    BY <1>4, <2>1 DEF NewFull, procs, sems, locals, TypeInv, TypeOK, LocalInv, At, Set, Returned
<1>5. ASSUME NEW h \in Hart, NewValue(h) PROVE LocalInv'
  <2>1. Returned(h)
    BY <1>5, ReturnFacts, Zenon DEF NewValue, At
  <2> QED
    BY <1>5, <2>1 DEF NewValue, procs, locals, TypeInv, TypeOK, LocalInv, At, Set, Returned
<1>6. ASSUME NEW h \in Hart, NEW i \in Slot, PTake(h, i) PROVE LocalInv'
  <2>1. Returned(h)
    BY <1>6, ReturnFacts, Zenon DEF PTake, At, MayUse
  <2>2. pc[h] = "user" /\ UNCHANGED <<slot, woken>>
    BY <1>6, Zenon DEF PTake, MayUse, At, locals
  <2> QED
    BY <2>1, <2>2, Zenon DEF TypeInv, LocalInv, Returned
<1>7. ASSUME NEW h \in Hart, NEW i \in Slot, PWait(h, i) PROVE LocalInv'
  <2>1. i # NULL /\ on[h] # NULL /\ pc[h] = "user"
    BY <1>7 DEF Slot, PWait, MayUse, At, LocalInv
  <2> QED
    BY <1>7, <2>1, Zenon DEF PWait, Goto, TypeInv, LocalInv, Set
<1>8. ASSUME NEW h \in Hart, NEW i \in Slot, VGive(h, i) PROVE LocalInv'
  <2>1. Returned(h)
    BY <1>8, ReturnFacts, Zenon DEF VGive, At, MayUse
  <2>2. pc[h] = "user" /\ UNCHANGED <<slot, woken>>
    BY <1>8, Zenon DEF VGive, MayUse, At, locals
  <2> QED
    BY <2>1, <2>2, Zenon DEF TypeInv, LocalInv, Returned
<1>9. ASSUME NEW h \in Hart, NEW i \in Slot, VWake(h, i) PROVE LocalInv'
  <2>1. Head(queue[i]) \in Proc /\ Tail(queue[i]) \in Seq(Proc)
    BY <1>9, TailFacts, Zenon DEF VWake, TypeInv, TypeOK
  <2> QED
    BY <1>9, <2>1, Zenon DEF VWake, procs, Goto, MayUse, TypeInv, TypeOK, LocalInv, At, Set
<1>10. ASSUME NEW h \in Hart, NEW i \in Slot, VPanic(h, i) PROVE LocalInv'
  BY <1>10, Zenon DEF VPanic, procs, locals, TypeInv, TypeOK, LocalInv, At, Set
<1>11. ASSUME NEW h \in Hart, PBlock(h) PROVE LocalInv'
  BY <1>11, Zenon DEF PBlock, locals, Goto, TypeInv, TypeOK, LocalInv, At, Set
<1>12. ASSUME NEW h \in Hart, VReady(h) PROVE LocalInv'
  <2>1. Returned(h)
    BY <1>12, ReturnFacts, Zenon DEF VReady, At
  <2> QED
    BY <1>12, <2>1 DEF VReady, sems, TypeInv, TypeOK, LocalInv, At, Set, Returned
<1>13. ASSUME NEW h \in Hart, Yield(h) PROVE LocalInv'
  BY <1>13, Zenon DEF Yield, sems, locals, Goto, TypeInv, TypeOK, LocalInv, At, Set
<1>14. ASSUME NEW h \in Hart, Schedule(h) PROVE LocalInv'
  <2>1. Me(h) \in Hart
    BY ThisIsProc, Zenon DEF Me
  <2>2. Head(ready[Me(h)]) \in Proc /\ Tail(ready[Me(h)]) \in Seq(Proc)
    BY <1>14, <2>1, TailFacts, Zenon DEF Schedule, TypeInv, TypeOK
  <2> QED
    BY <1>14, <2>1, <2>2, Zenon DEF Schedule, sems, locals, Goto, TypeInv, TypeOK, LocalInv, At, Set
<1> QED
  BY <1>1, <1>2, <1>3, <1>4, <1>5, <1>6, <1>7, <1>8, <1>9, <1>10, <1>11, <1>12, <1>13, <1>14, Zenon DEF Next, Step

LEMMA StartIntro ==
  ASSUME \A k \in Hart : /\ on'[k] # NULL => current'[Home[on'[k]]] # NULL
                         /\ current'[k] # NULL => current'[Home[current'[k]]] # NULL
                         /\ woken'[k] # NULL => current'[Home[woken'[k]]] # NULL,
         \A k \in Hart : \A x \in Range(ready'[k]) : Home[x] = k \/ current'[Home[x]] # NULL,
         \A i \in Slot : \A x \in Range(queue'[i]) : current'[Home[x]] # NULL
  PROVE  StartInv'
BY Zenon DEF StartInv, Started

LEMMA StartStep ==
  ASSUME TypeInv, LocalInv, StartInv, [Next]_vars
  PROVE  StartInv'
<1> USE SemaphoreAssumption
<1>1. ASSUME UNCHANGED <<current, ready, queue, woken>>,
             \A k \in Hart : on'[k] = on[k] \/ \E l \in Hart : on'[k] = current[l]
      PROVE  StartInv'
  BY <1>1, Zenon DEF StartInv, Started
<1>2. ASSUME NEW h \in Hart, pc[h] # "sched", Return(h)
      PROVE  \A k \in Hart : on'[k] = on[k] \/ \E l \in Hart : on'[k] = current[l]
  <2>1. Returned(h) /\ Me(h) \in Hart
    BY <1>2, ThisIsProc, ReturnFacts, Zenon DEF LocalInv
  <2> QED
    BY <2>1, Zenon DEF This, Returned
<1>3. CASE UNCHANGED vars
  BY <1>1, <1>3, Zenon DEF vars, procs, sems, locals
<1>4. ASSUME NEW h \in Hart, New(h) \/ NewSlot(h) PROVE StartInv'
  BY <1>1, <1>4, Zenon DEF New, NewSlot, procs
<1>5. ASSUME NEW h \in Hart, NewFull(h) \/ NewValue(h) PROVE StartInv'
  BY <1>1, <1>2, <1>5, Zenon DEF NewFull, NewValue, At, procs, sems, locals
<1>6. ASSUME NEW h \in Hart, NEW i \in Slot, PTake(h, i) \/ VGive(h, i) PROVE StartInv'
  BY <1>1, <1>2, <1>6, Zenon DEF PTake, VGive, MayUse, At, procs, locals
<1>7. ASSUME NEW h \in Hart, NEW i \in Slot, PWait(h, i) \/ VPanic(h, i) PROVE StartInv'
  BY <1>1, <1>7, Zenon DEF PWait, VPanic, procs, locals
<1>8. ASSUME NEW h \in Hart, NEW i \in Slot, VWake(h, i) PROVE StartInv'
  <2>1. Head(queue[i]) \in Range(queue[i]) /\ Range(Tail(queue[i])) \subseteq Range(queue[i])
    BY <1>8, TailFacts DEF VWake, TypeInv, TypeOK
  <2>2. \A j \in Slot : Range(queue'[j]) \subseteq Range(queue[j])
    BY <1>8, <2>1, Zenon DEF VWake, TypeInv, TypeOK
  <2>3. \A k \in Hart : woken'[k] \in {woken[k], Head(queue[i])}
    BY <1>8, Zenon DEF VWake, Set, TypeInv
  <2> QED
    BY <1>8, <2>1, <2>2, <2>3, Zenon DEF VWake, procs, StartInv, Started
<1>9. ASSUME NEW h \in Hart, PBlock(h) PROVE StartInv'
  <2>1. This(h) \in Proc /\ Started(This(h)) /\ slot[h] \in Slot
    <3>1. Me(h) \in Hart /\ This(h) \in Proc /\ slot[h] \in Slot
      BY <1>9, ThisIsProc, Zenon DEF PBlock, At, LocalInv, TypeInv
    <3> QED
      BY <3>1, Zenon DEF StartInv, This
  <2>2. \A i \in Slot : \A p \in Range(queue'[i]) : p \in Range(queue[i]) \/ p = This(h)
    <3>1. queue' = [queue EXCEPT ![slot[h]] = Enqueue(queue[slot[h]], This(h))] /\ queue[slot[h]] \in Seq(Proc)
      BY <1>9, <2>1, Zenon DEF PBlock, TypeInv, TypeOK
    <3>2. Range(Enqueue(queue[slot[h]], This(h))) = Range(queue[slot[h]]) \cup {This(h)}
      BY <3>1, <2>1, EnqueueFacts, Zenon
    <3> QED
      BY <2>1, <3>1, <3>2, Zenon DEF TypeInv, TypeOK
  <2> QED
    BY <1>9, <2>1, <2>2, Zenon DEF PBlock, locals, StartInv, Started
<1>10. ASSUME NEW h \in Hart, VReady(h) PROVE StartInv'
  <2>1. Me(h) \in Hart /\ woken[h] \in Proc /\ Started(woken[h])
    BY <1>10, ThisIsProc, Zenon DEF VReady, At, LocalInv, StartInv, TypeInv
  <2>2. \A k \in Hart : on'[k] = on[k] \/ \E l \in Hart : on'[k] = current[l]
    BY <1>2, <1>10, Zenon DEF VReady, At
  <2>3. \A k \in Hart : woken'[k] = woken[k] \/ woken'[k] = NULL
    BY <1>10, Zenon DEF VReady, Set, TypeInv
  <2>4. \A k \in Hart : \A p \in Range(ready'[k]) : p \in Range(ready[k]) \/ p = woken[h]
    BY <1>10, <2>1, EnqueueFacts DEF VReady, TypeInv, TypeOK
  <2>5. UNCHANGED <<current, queue>>
    BY <1>10, Zenon DEF VReady, sems
  <2> QED
    <3>1. \A k \in Hart : /\ on'[k] # NULL => current'[Home[on'[k]]] # NULL
                          /\ current'[k] # NULL => current'[Home[current'[k]]] # NULL
                          /\ woken'[k] # NULL => current'[Home[woken'[k]]] # NULL
      BY <2>2, <2>3, <2>5 DEF StartInv, Started
    <3>2. \A k \in Hart : \A x \in Range(ready'[k]) : Home[x] = k \/ current'[Home[x]] # NULL
      BY <2>1, <2>4, <2>5, Zenon DEF StartInv, Started
    <3>3. \A i \in Slot : \A x \in Range(queue'[i]) : current'[Home[x]] # NULL
      BY <2>5, Zenon DEF StartInv, Started
    <3> QED
      BY <3>1, <3>2, <3>3, StartIntro, Zenon
<1>11. ASSUME NEW h \in Hart, Yield(h) PROVE StartInv'
  <2>1. Me(h) \in Hart /\ This(h) \in Proc /\ Started(This(h))
    <3>1. Me(h) \in Hart /\ This(h) \in Proc
      BY <1>11, ThisIsProc, Zenon DEF Yield, At, LocalInv
    <3> QED
      BY <3>1, Zenon DEF StartInv, This
  <2>2. \A k \in Hart : \A p \in Range(ready'[k]) : p \in Range(ready[k]) \/ p = This(h)
    BY <1>11, <2>1, EnqueueFacts DEF Yield, TypeInv, TypeOK
  <2> QED
    BY <1>11, <2>1, <2>2, Zenon DEF Yield, sems, locals, StartInv, Started
<1>12. ASSUME NEW h \in Hart, Schedule(h) PROVE StartInv'
  <2> DEFINE m == Me(h)  p == Head(ready[m])
  <2>1. m \in Hart
    BY ThisIsProc, Zenon DEF Me
  <2>2. p \in Proc /\ p \in Range(ready[m]) /\ Range(Tail(ready[m])) \subseteq Range(ready[m])
    BY <1>12, <2>1, TailFacts DEF Schedule, TypeInv, TypeOK
  <2>3. /\ current' = [current EXCEPT ![m] = p] /\ on' = [on EXCEPT ![h] = p]
        /\ ready' = [ready EXCEPT ![m] = Tail(ready[m])]
        /\ UNCHANGED <<queue, woken>>
    BY <1>12, Zenon DEF Schedule, Set, sems, locals
  <2> HIDE DEF m, p
  <2>4. \A x \in Proc : Started(x) => Started(x)'
    BY <2>1, <2>2, <2>3, Zenon DEF Started, TypeInv, TypeOK
  <2>5. current'[Home[p]] # NULL
    <3>1. Home[p] = m \/ Started(p)
      BY <2>1, <2>2, Zenon DEF StartInv
    <3>2. p # NULL /\ current'[m] = p
      BY <2>1, <2>2, <2>3, Zenon DEF TypeInv, TypeOK
    <3> QED
      BY <2>2, <2>4, <3>1, <3>2, Zenon DEF Started
  <2>6. \A k \in Hart : /\ on'[k] \in {on[k], p} /\ current'[k] \in {current[k], p}
                        /\ Range(ready'[k]) \subseteq Range(ready[k])
    BY <2>1, <2>2, <2>3, Zenon DEF TypeInv, TypeOK
  <2>7. \A k \in Hart : Range(ready[k]) \subseteq Proc /\ on[k] \in Proc \cup {NULL} /\ current[k] \in Proc \cup {NULL} /\ woken[k] \in Proc \cup {NULL}
    BY DEF TypeInv, TypeOK, Range
  <2>8. \A i \in Slot : Range(queue[i]) \subseteq Proc
    BY DEF TypeInv, TypeOK, Range
  <2>9. ASSUME NEW k \in Hart
        PROVE  /\ on'[k] # NULL => Started(on[k])'
               /\ current'[k] # NULL => Started(current[k])'
               /\ woken'[k] # NULL => Started(woken[k])'
    <3>1. on'[k] = p \/ (on'[k] = on[k] /\ (on[k] # NULL => Started(on[k])))
      BY <2>6, Zenon DEF StartInv
    <3>2. current'[k] = p \/ (current'[k] = current[k] /\ (current[k] # NULL => Started(current[k])))
      BY <2>6, Zenon DEF StartInv
    <3>3. woken'[k] = woken[k] /\ (woken[k] # NULL => Started(woken[k]))
      BY <2>3, Zenon DEF StartInv
    <3>4. \A x \in Proc : Started(x) => current'[Home[x]] # NULL
      BY <2>4, Zenon DEF Started
    <3> QED
      BY <2>5, <2>7, <3>1, <3>2, <3>3, <3>4, Zenon DEF Started
  <2>10. \A k \in Hart : \A x \in Range(ready'[k]) : Home[x] = k \/ Started(x)'
    BY <2>4, <2>6, <2>7, Zenon DEF StartInv
  <2>11. \A i \in Slot : \A x \in Range(queue'[i]) : Started(x)'
    BY <2>3, <2>4, <2>8, Zenon DEF StartInv
  <2> QED
    BY <2>9, <2>10, <2>11, Zenon DEF StartInv
<1> QED
  BY <1>3, <1>4, <1>5, <1>6, <1>7, <1>8, <1>9, <1>10, <1>11, <1>12, Zenon DEF Next, Step

\* alloc_semaphore_id hands out an id once, and alloc_semaphore stores the one
\* its caller was given.
LEMMA IdStep ==
  ASSUME TypeInv, IdInv, [Next]_vars
  PROVE  IdInv'
<1> USE SemaphoreAssumption
<1>1. ASSUME UNCHANGED <<nextId, semId, id>>, \A h \in Hart : pc'[h] = "new_slot" => pc[h] = "new_slot"
      PROVE  IdInv'
  BY <1>1, Zenon DEF IdInv, Free
<1>2. CASE UNCHANGED vars
  BY <1>1, <1>2, Zenon DEF vars, sems, locals
<1>3. ASSUME NEW h \in Hart, New(h) PROVE IdInv'
  BY <1>3 DEF New, IdInv, TypeInv, TypeOK, Free, At, Goto, Set
<1>4. ASSUME NEW h \in Hart, NewSlot(h) PROVE IdInv'
  <2>1. PICK i \in Slot : Free(i) /\ semId' = [semId EXCEPT ![i] = id[h]]
    BY <1>4, Zenon DEF NewSlot, Set
  <2>2. pc[h] = "new_slot" /\ pc' = [pc EXCEPT ![h] = "new_value"] /\ UNCHANGED <<nextId, id>>
    BY <1>4, Zenon DEF NewSlot, At, Goto, Set
  <2>3. DOMAIN pc = Hart /\ DOMAIN semId = Slot /\ \A j \in Slot : semId[j] \in Int
    BY DEF TypeInv, TypeOK
  <2>4. id[h] \in 0 .. (nextId - 1) /\ (\A j \in Slot : semId[j] # id[h])
        /\ \A k \in Hart \ {h} : pc[k] = "new_slot" => id[k] # id[h]
    BY <2>2, Zenon DEF IdInv
  <2>5. \A j \in Slot : semId'[j] = IF j = i THEN id[h] ELSE semId[j]
    BY <2>1, <2>3, Zenon
  <2>6. \A k \in Hart : pc'[k] = "new_slot" => k # h /\ pc[k] = "new_slot"
    BY <2>2, <2>3, Zenon
  <2>7. \A j \in Slot : semId'[j] < nextId
    <3>1. nextId \in Int /\ \A j \in Slot : semId[j] < nextId
      BY DEF IdInv, TypeInv, TypeOK
    <3> QED
      BY <2>4, <2>5, <3>1
  <2>8. \A j, k \in Slot : j # k /\ semId'[j] # -1 => semId'[j] # semId'[k]
    <3>1. \A j, k \in Slot : j # k /\ semId[j] # -1 => semId[j] # semId[k]
      BY Zenon DEF IdInv, Free
    <3> QED
      BY <2>4, <2>5, <3>1, Zenon
  <2>9. ASSUME NEW k \in Hart, pc'[k] = "new_slot"
        PROVE  /\ id[k] \in 0 .. (nextId - 1)
               /\ \A j \in Slot : semId'[j] # id[k]
               /\ \A g \in Hart \ {k} : pc'[g] = "new_slot" => id[g] # id[k]
    <3>1. k # h /\ pc[k] = "new_slot"
      BY <2>6, <2>9, Zenon
    <3>2. /\ id[k] \in 0 .. (nextId - 1) /\ (\A j \in Slot : semId[j] # id[k])
          /\ \A g \in Hart \ {k} : pc[g] = "new_slot" => id[g] # id[k]
      BY <3>1, Zenon DEF IdInv
    <3> QED
      BY <2>4, <2>5, <2>6, <3>1, <3>2, Zenon
  <2> QED
    BY <2>2, <2>7, <2>8, <2>9, Zenon DEF IdInv, Free
<1>5. ASSUME NEW h \in Hart, NewFull(h) \/ NewValue(h) \/ PBlock(h) \/ VReady(h) \/ Yield(h) \/ Schedule(h)
      PROVE  IdInv'
  BY <1>1, <1>5, Zenon DEF NewFull, NewValue, PBlock, VReady, Yield, Schedule, Return, Goto, sems, locals, TypeInv
<1>6. ASSUME NEW h \in Hart, NEW i \in Slot,
             PTake(h, i) \/ PWait(h, i) \/ VGive(h, i) \/ VWake(h, i) \/ VPanic(h, i)
      PROVE  IdInv'
  BY <1>1, <1>6, Zenon DEF PTake, PWait, VGive, VWake, VPanic, Return, Goto, locals, TypeInv
<1> QED
  BY <1>2, <1>3, <1>4, <1>5, <1>6, Zenon DEF Next, Step

\* A slot is taken by one sem_new; nobody waits in it before that returns.
LEMMA SlotStep ==
  ASSUME TypeInv, LocalInv, IdInv, SlotInv, [Next]_vars
  PROVE  SlotInv'
<1> USE SemaphoreAssumption
<1>1. ASSUME UNCHANGED <<semId, known, queue, slot>>,
             \A h \in Hart : pc'[h] \in {"new_value", "p_block"} => pc'[h] = pc[h]
      PROVE  SlotInv'
  BY <1>1, Zenon DEF SlotInv, Free
<1>2. CASE UNCHANGED vars
  BY <1>1, <1>2, Zenon DEF vars, sems, locals
<1>3. ASSUME NEW h \in Hart, New(h) \/ NewFull(h) \/ VReady(h) \/ Yield(h) \/ Schedule(h) PROVE SlotInv'
  BY <1>1, <1>3, Zenon DEF New, NewFull, VReady, Yield, Schedule, Return, Goto, sems, locals, TypeInv
<1>4. ASSUME NEW h \in Hart, NEW i \in Slot, PTake(h, i) \/ VGive(h, i) \/ VPanic(h, i) PROVE SlotInv'
  BY <1>1, <1>4, Zenon DEF PTake, VGive, VPanic, Return, Goto, locals, TypeInv
<1>5. ASSUME NEW h \in Hart, NewSlot(h) PROVE SlotInv'
  <2>1. PICK i \in Slot : Free(i) /\ semId' = [semId EXCEPT ![i] = id[h]] /\ slot' = [slot EXCEPT ![h] = i]
    BY <1>5, Zenon DEF NewSlot, Set
  <2>2. id[h] # -1 /\ pc' = [pc EXCEPT ![h] = "new_value"] /\ UNCHANGED <<known, queue>>
    BY <1>5 DEF NewSlot, At, IdInv, Goto
  <2> QED
    BY <2>1, <2>2 DEF SlotInv, Free, TypeInv, TypeOK
<1>6. ASSUME NEW h \in Hart, NewValue(h) PROVE SlotInv'
  <2>1. slot[h] \in Slot /\ ~Free(slot[h]) /\ pc[h] = "new_value"
    BY <1>6, Zenon DEF NewValue, At, LocalInv, TypeInv, SlotInv
  <2>2. pc' = [pc EXCEPT ![h] = "user"] /\ known' = known \cup {slot[h]} /\ UNCHANGED <<semId, queue, slot>>
    BY <1>6, Zenon DEF NewValue, Return, Goto, locals
  <2> QED
    BY <2>1, <2>2, Zenon DEF SlotInv, Free, TypeInv, TypeOK
<1>7. ASSUME NEW h \in Hart, NEW i \in Slot, PWait(h, i) PROVE SlotInv'
  BY <1>7, Zenon DEF PWait, MayUse, Set, Goto, SlotInv, Free, TypeInv
<1>8. ASSUME NEW h \in Hart, NEW i \in Slot, VWake(h, i) PROVE SlotInv'
  BY <1>8, Zenon DEF VWake, MayUse, Goto, SlotInv, Free, TypeInv, TypeOK
<1>9. ASSUME NEW h \in Hart, PBlock(h) PROVE SlotInv'
  BY <1>9 DEF PBlock, At, Goto, locals, SlotInv, Free, TypeInv, TypeOK
<1> QED
  BY <1>2, <1>3, <1>4, <1>5, <1>6, <1>7, <1>8, <1>9, Zenon DEF Next, Step

\* P and V are inside g_semaphore_lock one at a time.
LEMMA LockStep ==
  ASSUME TypeInv, LockInv, [Next]_vars
  PROVE  LockInv'
<1> DEFINE Inside == {"p_block", "v_ready"}
<1>1. ASSUME UNCHANGED semLock, \A k \in Hart : pc'[k] \in Inside <=> pc[k] \in Inside PROVE LockInv'
  BY <1>1, Zenon DEF LockInv
<1>2. CASE UNCHANGED vars
  BY <1>1, <1>2, Zenon DEF vars
<1>3. ASSUME NEW h \in Hart, New(h) \/ NewSlot(h) \/ NewFull(h) \/ NewValue(h) \/ Yield(h) \/ Schedule(h) PROVE LockInv'
  <2>1. UNCHANGED semLock /\ pc[h] \notin Inside /\ \E l \in {"new_slot", "new_value", "user", "sched"} : pc' = [pc EXCEPT ![h] = l]
    BY <1>3, Zenon DEF New, NewSlot, NewFull, NewValue, Yield, Schedule, Return, Goto, At
  <2> QED
    BY <1>1, <2>1, Zenon DEF TypeInv
<1>4. ASSUME NEW h \in Hart, NEW i \in Slot, PTake(h, i) \/ VGive(h, i) \/ VPanic(h, i) PROVE LockInv'
  <2>1. UNCHANGED semLock /\ pc[h] \notin Inside /\ (pc' = pc \/ pc' = [pc EXCEPT ![h] = "user"])
    BY <1>4, Zenon DEF PTake, VGive, VPanic, MayUse, Return, Goto, At
  <2> QED
    BY <1>1, <2>1, Zenon DEF TypeInv
<1>5. ASSUME NEW h \in Hart, NEW i \in Slot, PWait(h, i) \/ VWake(h, i) PROVE LockInv'
  <2>1. ~semLock /\ semLock' = TRUE /\ \E l \in Inside : pc' = [pc EXCEPT ![h] = l]
    BY <1>5, Zenon DEF PWait, VWake, MayUse, Goto
  <2> QED
    BY <2>1 DEF LockInv, TypeInv
<1>6. ASSUME NEW h \in Hart, PBlock(h) \/ VReady(h) PROVE LockInv'
  <2>1. pc[h] \in Inside /\ semLock' = FALSE /\ \E l \in {"sched", "user"} : pc' = [pc EXCEPT ![h] = l]
    BY <1>6, Zenon DEF PBlock, VReady, At, Return, Goto
  <2> QED
    BY <2>1, Zenon DEF LockInv, TypeInv
<1> QED
  BY <1>2, <1>3, <1>4, <1>5, <1>6, Zenon DEF Next, Step

-----------------------------------------------------------------------------
\* The part of the invariant that does not depend on what the programs share.
BaseInv == TypeInv /\ LocalInv /\ StartInv /\ IdInv /\ SlotInv /\ LockInv

LEMMA BaseStep ==
  BaseInv /\ [Next]_vars => BaseInv'
BY TypeStep, LocalStep, StartStep, IdStep, SlotStep, LockStep, Zenon DEF BaseInv

LEMMA BaseCorrect == Spec => []BaseInv
<1>1. Init => BaseInv
  BY InitInv, Zenon DEF BaseInv
<1> QED
  BY <1>1, BaseStep, PTL DEF Spec

\* sem_new: get_semaphore is a function of the id, with any number of harts
\* creating semaphores at a time and whatever the programs share.
THEOREM IdsUniqueCorrect == Spec => []IdsUnique
<1>1. BaseInv => IdsUnique
  BY Zenon DEF BaseInv, TypeInv, IdInv, IdsUnique
<1> QED
  BY <1>1, BaseCorrect, PTL
-----------------------------------------------------------------------------
(***************************************************************************)
(* Programs that use a semaphore on the hart it was created on             *)
(***************************************************************************)
LEMMA Stays ==
  ASSUME TypeInv, HomeInv, NEW h \in Hart
  PROVE  Me(h) = h /\ This(h) = on[h]
BY Zenon DEF TypeInv, TypeOK, HomeInv, Me, This

\* A trap returns to the process that caused it.
LEMMA ReturnStays ==
  ASSUME TypeInv, HomeInv, NEW h \in Hart, Return(h)
  PROVE  on' = on /\ pc' = [pc EXCEPT ![h] = "user"]
BY Stays, Zenon DEF TypeInv, TypeOK, Return, Goto, Set

\* What the steps that move a process do, for such programs.
Wakes(h, i) ==
  /\ ~semLock /\ machine = "on" /\ i \in known /\ maker[i] = h /\ value[i] + 1 <= 0
  /\ pc[h] = "user" /\ queue[i] # <<>>
  /\ queue' = [queue EXCEPT ![i] = Tail(queue[i])]
  /\ woken' = [woken EXCEPT ![h] = Head(queue[i])]
  /\ value' = [value EXCEPT ![i] = value[i] + 1]
  /\ pc' = [pc EXCEPT ![h] = "v_ready"]
  /\ UNCHANGED <<status, on, current, ready, maker, slot, known, born, machine>>

Blocks(h) ==
  /\ pc[h] = "p_block" /\ slot[h] \in Slot /\ slot[h] \in known /\ on[h] \in Proc /\ machine = "on"
  /\ queue' = [queue EXCEPT ![slot[h]] = Enqueue(queue[slot[h]], on[h])]
  /\ status' = [status EXCEPT ![on[h]] = "BLOCKED"]
  /\ pc' = [pc EXCEPT ![h] = "sched"]
  /\ UNCHANGED <<on, current, woken, ready, maker, slot, value, known, born, machine>>

Readies(h) ==
  /\ pc[h] = "v_ready" /\ woken[h] \in Proc
  /\ ready' = [ready EXCEPT ![h] = Enqueue(ready[h], woken[h])]
  /\ status' = [status EXCEPT ![woken[h]] = "READY"]
  /\ woken' = [woken EXCEPT ![h] = NULL]
  /\ pc' = [pc EXCEPT ![h] = "user"]
  /\ UNCHANGED <<on, current, queue, maker, slot>>

Yields(h) ==
  /\ pc[h] = "user" /\ on[h] \in Proc
  /\ ready' = [ready EXCEPT ![h] = Enqueue(ready[h], on[h])]
  /\ status' = [status EXCEPT ![on[h]] = "READY"]
  /\ pc' = [pc EXCEPT ![h] = "sched"]
  /\ UNCHANGED <<on, current, queue, maker, slot, woken>>

Dispatches(h) ==
  /\ pc[h] = "sched" /\ ready[h] # <<>>
  /\ ready' = [ready EXCEPT ![h] = Tail(ready[h])]
  /\ status' = [status EXCEPT ![Head(ready[h])] = "RUNNING"]
  /\ current' = [current EXCEPT ![h] = Head(ready[h])]
  /\ on' = [on EXCEPT ![h] = Head(ready[h])]
  /\ pc' = [pc EXCEPT ![h] = "user"]
  /\ UNCHANGED <<queue, maker, slot, woken>>

LEMMA WakeEffect ==
  ASSUME BaseInv, HomeInv, Pinned, NEW h \in Hart, NEW i \in Slot, VWake(h, i)
  PROVE  Wakes(h, i)
BY Stays, Zenon DEF Wakes, BaseInv, VWake, MayUse, At, Goto, Set, procs

LEMMA BlockEffect ==
  ASSUME BaseInv, HomeInv, NEW h \in Hart, PBlock(h)
  PROVE  Blocks(h)
<1>1. TypeInv /\ LocalInv /\ SlotInv
  BY Zenon DEF BaseInv
<1>2. pc[h] = "p_block" /\ slot[h] \in Slot /\ slot[h] \in known /\ on[h] \in Proc
  BY <1>1, Zenon DEF PBlock, At, TypeInv, TypeOK, LocalInv, SlotInv
<1> QED
  BY <1>1, <1>2, Stays, Zenon DEF Blocks, PBlock, At, Goto, Set, locals

LEMMA ReadyEffect ==
  ASSUME BaseInv, HomeInv, NEW h \in Hart, VReady(h)
  PROVE  Readies(h)
<1>1. TypeInv /\ LocalInv
  BY Zenon DEF BaseInv
<1>2. pc[h] = "v_ready" /\ woken[h] \in Proc
  BY <1>1, Zenon DEF VReady, At, TypeInv, LocalInv
<1> QED
  BY <1>1, <1>2, Stays, ReturnStays, Zenon DEF Readies, VReady, Set, sems

LEMMA YieldEffect ==
  ASSUME BaseInv, HomeInv, NEW h \in Hart, Yield(h)
  PROVE  Yields(h)
<1>1. TypeInv /\ LocalInv
  BY Zenon DEF BaseInv
<1>2. pc[h] = "user" /\ on[h] \in Proc
  BY <1>1, Zenon DEF Yield, At, TypeInv, TypeOK, LocalInv
<1> QED
  BY <1>1, <1>2, Stays, Zenon DEF Yields, Yield, Goto, Set, sems, locals

LEMMA ScheduleEffect ==
  ASSUME BaseInv, HomeInv, NEW h \in Hart, Schedule(h)
  PROVE  Dispatches(h)
BY Stays, Zenon DEF Dispatches, BaseInv, Schedule, At, Goto, Set, sems, locals

LEMMA HomeStep ==
  ASSUME BaseInv, HomeInv, Pinned, [Next]_vars
  PROVE  HomeInv'
<1> USE SemaphoreAssumption
<1>0. TypeInv /\ LocalInv /\ SlotInv
  BY Zenon DEF BaseInv
<1>1. ASSUME UNCHANGED <<on, current, woken, ready, queue, maker>>,
             \A k \in Hart : pc'[k] = "p_block" => pc[k] = "p_block" /\ slot'[k] = slot[k]
      PROVE  HomeInv'
  BY <1>1, Zenon DEF HomeInv
<1>2. CASE UNCHANGED vars
  BY <1>1, <1>2, Zenon DEF vars, sems, procs, locals
<1>3. ASSUME NEW h \in Hart, New(h) \/ NewSlot(h) PROVE HomeInv'
  <2>1. UNCHANGED <<on, current, woken, ready, queue, maker>> /\ \A k \in Hart \ {h} : slot'[k] = slot[k] /\ pc'[k] = pc[k]
    BY <1>0, <1>3, Zenon DEF New, NewSlot, procs, Set, Goto, TypeInv
  <2>2. pc'[h] # "p_block"
    BY <1>0, <1>3, Zenon DEF New, NewSlot, Goto, TypeInv
  <2> QED
    BY <1>1, <2>1, <2>2, Zenon
<1>4. ASSUME NEW h \in Hart, NewFull(h) PROVE HomeInv'
  BY <1>0, <1>1, <1>4, ReturnStays, Zenon DEF NewFull, procs, sems, locals, TypeInv
<1>5. ASSUME NEW h \in Hart, NEW i \in Slot, PTake(h, i) \/ VGive(h, i) PROVE HomeInv'
  BY <1>0, <1>1, <1>5, ReturnStays, Zenon DEF PTake, VGive, procs, locals, TypeInv
<1>6. ASSUME NEW h \in Hart, NEW i \in Slot, VPanic(h, i) PROVE HomeInv'
  BY <1>1, <1>6, Zenon DEF VPanic, procs, locals
<1>7. ASSUME NEW h \in Hart, NewValue(h) PROVE HomeInv'
  <2>1. on' = on /\ pc' = [pc EXCEPT ![h] = "user"] /\ UNCHANGED <<current, woken, ready, queue, slot>>
    BY <1>0, <1>7, ReturnStays, Zenon DEF NewValue, procs, locals
  <2>2. slot[h] \in Slot \ known /\ maker' = [maker EXCEPT ![slot[h]] = Me(h)]
    BY <1>0, <1>7, Zenon DEF NewValue, At, Set, TypeInv, LocalInv, SlotInv
  <2>3. queue[slot[h]] = <<>> /\ Range(<<>>) = {}
    BY <1>0, <2>2 DEF SlotInv, Range
  <2>4. \A k \in Hart : pc'[k] = "p_block" => pc[k] = "p_block" /\ slot[k] \in known
    BY <1>0, <2>1, Zenon DEF SlotInv, TypeInv
  <2>5. \A k \in Hart : pc'[k] = "p_block" => maker'[slot[k]] = k
    BY <1>0, <2>2, <2>4 DEF HomeInv, TypeInv, TypeOK
  <2>6. \A i \in Slot : \A p \in Range(queue[i]) : Home[p] = maker'[i]
    BY <1>0, <2>2, <2>3, Zenon DEF HomeInv, TypeInv, TypeOK
  <2> QED
    BY <2>1, <2>5, <2>6, Zenon DEF HomeInv
<1>8. ASSUME NEW h \in Hart, NEW i \in Slot, PWait(h, i) PROVE HomeInv'
  <2>1. UNCHANGED <<on, current, woken, ready, queue, maker>> /\ maker[i] = h
    BY <1>0, <1>8, Stays, Zenon DEF PWait, MayUse, procs
  <2>2. slot' = [slot EXCEPT ![h] = i] /\ pc' = [pc EXCEPT ![h] = "p_block"]
    BY <1>8, Zenon DEF PWait, Set, Goto
  <2> QED
    BY <1>0, <2>1, <2>2 DEF HomeInv, TypeInv
<1>9. ASSUME NEW h \in Hart, NEW i \in Slot, VWake(h, i) PROVE HomeInv'
  <2>0. Wakes(h, i)
    BY <1>9, WakeEffect, Zenon
  <2>1. Head(queue[i]) \in Range(queue[i]) /\ Range(Tail(queue[i])) \subseteq Range(queue[i])
    BY <1>0, <2>0, TailFacts DEF TypeInv, TypeOK, Wakes
  <2>2. /\ maker[i] = h /\ UNCHANGED <<on, current, ready, maker, slot>>
        /\ woken'[h] = Head(queue[i]) /\ queue'[i] = Tail(queue[i]) /\ pc'[h] = "v_ready"
        /\ \A k \in Hart \ {h} : woken'[k] = woken[k] /\ pc'[k] = pc[k]
        /\ \A j \in Slot \ {i} : queue'[j] = queue[j]
    BY <1>0, <2>0, Zenon DEF TypeInv, TypeOK, Wakes
  <2>3. \A j \in Slot : \A p \in Range(queue[j]) : Home[p] = maker[j]
    BY Zenon DEF HomeInv
  <2>4. \A j \in Slot : Range(queue'[j]) \subseteq Range(queue[j])
    BY <2>1, <2>2
  <2>5. Home[woken'[h]] = h
    BY <2>1, <2>2, <2>3, Zenon
  <2>6. \A k \in Hart : woken'[k] # NULL => Home[woken'[k]] = k
    BY <2>2, <2>5 DEF HomeInv
  <2>7. \A k \in Hart : pc'[k] = "p_block" => pc[k] = "p_block"
    BY <2>2
  <2> QED
    BY <2>2, <2>3, <2>4, <2>6, <2>7 DEF HomeInv
<1>10. ASSUME NEW h \in Hart, PBlock(h) PROVE HomeInv'
  <2>0. Blocks(h)
    BY <1>10, BlockEffect, Zenon
  <2>1. Range(Enqueue(queue[slot[h]], on[h])) = Range(queue[slot[h]]) \cup {on[h]}
    BY <1>0, <2>0, EnqueueFacts, Zenon DEF TypeInv, TypeOK, Blocks
  <2> QED
    BY <1>0, <2>0, <2>1 DEF HomeInv, TypeInv, TypeOK, Blocks
<1>11. ASSUME NEW h \in Hart, VReady(h) PROVE HomeInv'
  <2>0. Readies(h)
    BY <1>11, ReadyEffect, Zenon
  <2>1. Range(Enqueue(ready[h], woken[h])) = Range(ready[h]) \cup {woken[h]}
    BY <1>0, <2>0, EnqueueFacts, Zenon DEF TypeInv, TypeOK, Readies
  <2> QED
    BY <1>0, <2>0, <2>1 DEF HomeInv, TypeInv, TypeOK, Readies
<1>12. ASSUME NEW h \in Hart, Yield(h) PROVE HomeInv'
  <2>0. Yields(h)
    BY <1>12, YieldEffect, Zenon
  <2>1. Range(Enqueue(ready[h], on[h])) = Range(ready[h]) \cup {on[h]}
    BY <1>0, <2>0, EnqueueFacts, Zenon DEF TypeInv, TypeOK, Yields
  <2> QED
    BY <1>0, <2>0, <2>1 DEF HomeInv, TypeInv, TypeOK, Yields
<1>13. ASSUME NEW h \in Hart, Schedule(h) PROVE HomeInv'
  <2>0. Dispatches(h)
    BY <1>13, ScheduleEffect, Zenon
  <2>1. Head(ready[h]) \in Range(ready[h]) /\ Range(Tail(ready[h])) \subseteq Range(ready[h])
    BY <1>0, <2>0, TailFacts DEF TypeInv, TypeOK, Dispatches
  <2> QED
    BY <1>0, <2>0, <2>1 DEF HomeInv, TypeInv, TypeOK, Dispatches
<1> QED
  BY <1>2, <1>3, <1>4, <1>5, <1>6, <1>7, <1>8, <1>9, <1>10, <1>11, <1>12, <1>13, Zenon DEF Next, Step

LEMMA PlaceIntro ==
  ASSUME \A k \in Hart : /\ pc'[k] # "sched" => status'[on'[k]] = "RUNNING"
                         /\ woken'[k] # NULL => status'[woken'[k]] = "BLOCKED",
         \A k \in Hart : IsInjective(ready'[k]) /\ \A x \in Range(ready'[k]) : status'[x] = "READY",
         \A j \in Slot : IsInjective(queue'[j]) /\ \A x \in Range(queue'[j]) : status'[x] = "BLOCKED",
         \A j \in Slot : \A x \in Range(queue'[j]) :
           (\A k \in Hart : woken'[k] # x) /\ \A l \in Slot : x \in Range(queue'[l]) => l = j,
         \A x \in Proc : status'[x] = "READY" => x \in Range(ready'[Home[x]]),
         \A x \in Proc : status'[x] = "BLOCKED" => \/ \E j \in Slot : x \in Range(queue'[j])
                                                   \/ \E k \in Hart : woken'[k] = x
  PROVE  PlaceInv'
BY Zenon DEF PlaceInv

\* A process moves with its status.
LEMMA PlaceStep ==
  ASSUME BaseInv, HomeInv, PlaceInv, Pinned, [Next]_vars
  PROVE  PlaceInv'
<1> USE SemaphoreAssumption
<1>0. TypeInv /\ LocalInv /\ LockInv
  BY Zenon DEF BaseInv
<1>a. \A k \in Hart : Range(ready[k]) \subseteq Proc /\ ready[k] \in Seq(Proc)
  BY <1>0 DEF TypeInv, TypeOK, Range
<1>b. \A j \in Slot : Range(queue[j]) \subseteq Proc /\ queue[j] \in Seq(Proc)
  BY <1>0 DEF TypeInv, TypeOK, Range
<1>c. /\ \A k \in Hart : pc[k] # "sched" => on[k] \in Proc /\ status[on[k]] = "RUNNING"
      /\ \A k \in Hart : woken[k] # NULL => woken[k] \in Proc /\ status[woken[k]] = "BLOCKED" /\ pc[k] = "v_ready"
      /\ \A k, l \in Hart : on[k] # NULL /\ on[k] = on[l] => k = l
  BY <1>0 DEF TypeInv, TypeOK, LocalInv, PlaceInv, HomeInv
<1>d. \A j \in Slot : IsInjective(queue[j]) /\ \A x \in Range(queue[j]) : status[x] = "BLOCKED"
  BY Zenon DEF PlaceInv
<1>e. \A j \in Slot : \A x \in Range(queue[j]) : \A k \in Hart : woken[k] # x
  BY Zenon DEF PlaceInv
<1>f. \A j, l \in Slot : \A x \in Range(queue[j]) : x \in Range(queue[l]) => l = j
  BY Zenon DEF PlaceInv
<1>g. \A k \in Hart : IsInjective(ready[k]) /\ \A x \in Range(ready[k]) : status[x] = "READY"
  BY Zenon DEF PlaceInv
<1>i. \A x \in Proc : status[x] = "READY" => x \in Range(ready[Home[x]])
  BY Zenon DEF PlaceInv
<1>j. \A x \in Proc : status[x] = "BLOCKED" => \/ \E l \in Slot : x \in Range(queue[l])
                                               \/ \E k \in Hart : woken[k] = x
  BY Zenon DEF PlaceInv
<1>1. ASSUME UNCHANGED <<status, on, woken, ready, queue>>,
             \A k \in Hart : pc'[k] # "sched" => pc[k] # "sched"
      PROVE  PlaceInv'
  BY <1>1 DEF PlaceInv
<1>2. CASE UNCHANGED vars
  BY <1>1, <1>2, Zenon DEF vars, sems, procs, locals
<1>3. ASSUME NEW h \in Hart, New(h) \/ NewSlot(h) PROVE PlaceInv'
  BY <1>0, <1>1, <1>3, Zenon DEF New, NewSlot, At, Goto, procs, TypeInv
<1>4. ASSUME NEW h \in Hart, NewFull(h) \/ NewValue(h) PROVE PlaceInv'
  BY <1>0, <1>1, <1>4, ReturnStays DEF NewFull, NewValue, At, procs, sems, locals, TypeInv
<1>5. ASSUME NEW h \in Hart, NEW i \in Slot, PTake(h, i) \/ VGive(h, i) PROVE PlaceInv'
  BY <1>0, <1>1, <1>5, ReturnStays DEF PTake, VGive, MayUse, At, procs, locals, TypeInv
<1>6. ASSUME NEW h \in Hart, NEW i \in Slot, PWait(h, i) \/ VPanic(h, i) PROVE PlaceInv'
  BY <1>0, <1>1, <1>6, Zenon DEF PWait, VPanic, MayUse, At, Goto, procs, locals, TypeInv
<1>7. ASSUME NEW h \in Hart, NEW i \in Slot, VWake(h, i) PROVE PlaceInv'
  <2> DEFINE w == Head(queue[i])  q == Tail(queue[i])
  <2>1. Wakes(h, i)
    BY <1>7, WakeEffect, Zenon
  <2>2. w \in Proc /\ Range(queue[i]) = Range(q) \cup {w} /\ IsInjective(q) /\ w \notin Range(q)
    BY <1>b, <1>d, <1>g, <2>1, TailFacts, Zenon DEF Wakes
  <2>3. \A k \in Hart : woken[k] = NULL
    BY <1>0, <1>c, <2>1, Zenon DEF Wakes, LockInv
  <2>4. UNCHANGED <<status, on, ready>> /\ pc[h] # "sched" /\ pc' = [pc EXCEPT ![h] = "v_ready"]
    BY <2>1, Zenon DEF Wakes
  <2>5. \A k \in Hart : woken'[k] = IF k = h THEN w ELSE NULL
    BY <1>0, <2>1, <2>3, Zenon DEF Wakes, TypeInv
  <2>6. \A j \in Slot : queue'[j] = IF j = i THEN q ELSE queue[j]
    BY <1>0, <2>1, Zenon DEF Wakes, TypeInv, TypeOK
  <2>7. status[w] = "BLOCKED" /\ \A j \in Slot : w \in Range(queue[j]) => j = i
    BY <1>d, <1>f, <2>2, Zenon
  <2> HIDE DEF w, q
  <2>11. \A k \in Hart : /\ pc'[k] # "sched" => status'[on'[k]] = "RUNNING"
                         /\ woken'[k] # NULL => status'[woken'[k]] = "BLOCKED"
    BY <1>0, <1>c, <2>4, <2>5, <2>7, Zenon DEF TypeInv
  <2>12. \A k \in Hart : IsInjective(ready'[k]) /\ \A x \in Range(ready'[k]) : status'[x] = "READY"
    BY <1>g, <2>4, Zenon
  <2>13. \A j \in Slot : IsInjective(queue'[j]) /\ \A x \in Range(queue'[j]) : status'[x] = "BLOCKED"
    BY <1>d, <2>2, <2>4, <2>6, Zenon
  <2>14. \A j \in Slot : \A x \in Range(queue'[j]) :
          (\A k \in Hart : woken'[k] # x) /\ \A l \in Slot : x \in Range(queue'[l]) => l = j
    <3> SUFFICES ASSUME NEW j \in Slot, NEW x \in Range(queue'[j])
                 PROVE  (\A k \in Hart : woken'[k] # x) /\ \A l \in Slot : x \in Range(queue'[l]) => l = j
      BY Zenon
    <3>1. x \in Range(queue[j]) /\ x # w
      BY <2>2, <2>6, <2>7, Zenon
    <3>2. x \in Proc
      BY <1>b, <3>1, Zenon
    <3>3. \A k \in Hart : woken'[k] # x
      BY <2>5, <3>1, <3>2, Zenon
    <3>4. \A l \in Slot : Range(queue'[l]) \subseteq Range(queue[l])
      BY <2>2, <2>6, Zenon
    <3> QED
      BY <1>f, <3>1, <3>3, <3>4, Zenon
  <2>15. \A x \in Proc : status'[x] = "READY" => x \in Range(ready'[Home[x]])
    BY <1>i, <2>4, Zenon
  <2>16. \A x \in Proc : status'[x] = "BLOCKED" => \/ \E j \in Slot : x \in Range(queue'[j])
                                                   \/ \E k \in Hart : woken'[k] = x
    BY <1>j, <2>2, <2>3, <2>4, <2>5, <2>6
  <2> QED
    BY <2>11, <2>12, <2>13, <2>14, <2>15, <2>16, PlaceIntro, Zenon
<1>8. ASSUME NEW h \in Hart, PBlock(h) PROVE PlaceInv'
  <2> DEFINE p == on[h]  i == slot[h]  q == Enqueue(queue[slot[h]], on[h])
  <2>1. Blocks(h)
    BY <1>8, BlockEffect, Zenon
  <2>a. p \in Proc /\ i \in Slot /\ status[p] = "RUNNING"
    BY <1>c, <2>1, Zenon DEF Blocks
  <2>b. queue[i] \in Seq(Proc) /\ IsInjective(queue[i])
    BY <1>b, <1>d, <2>a, Zenon
  <2>2. p \in Proc /\ i \in Slot /\ status[p] = "RUNNING" /\ Range(q) = Range(queue[i]) \cup {p} /\ IsInjective(q)
    BY <2>a, <2>b, EnqueueFacts, Zenon
  <2>3. UNCHANGED <<on, woken, ready>> /\ pc' = [pc EXCEPT ![h] = "sched"]
    BY <2>1, Zenon DEF Blocks
  <2>4. \A j \in Slot : queue'[j] = IF j = i THEN q ELSE queue[j]
    BY <1>0, <2>1, Zenon DEF Blocks, TypeInv, TypeOK
  <2>5. \A x \in Proc : status'[x] = IF x = p THEN "BLOCKED" ELSE status[x]
    BY <1>0, <2>1, Zenon DEF Blocks, TypeInv, TypeOK
  <2>6. /\ \A k \in Hart : woken[k] # p /\ p \notin Range(ready[k]) /\ (k # h => on[k] # p)
        /\ \A j \in Slot : p \notin Range(queue[j])
    <3>1. status[p] # "BLOCKED" /\ status[p] # "READY" /\ p # NULL
      BY <2>2, Zenon
    <3>2. \A k \in Hart : woken[k] # p /\ p \notin Range(ready[k])
      BY <1>c, <1>g, <3>1
    <3>3. \A k \in Hart : k # h => on[k] # p
      BY <1>c, <3>1, Zenon
    <3>4. \A j \in Slot : p \notin Range(queue[j])
      BY <1>d, <3>1, Zenon
    <3> QED
      BY <3>2, <3>3, <3>4, Zenon
  <2> HIDE DEF p, i, q
  <2>11. \A k \in Hart : /\ pc'[k] # "sched" => status'[on'[k]] = "RUNNING"
                         /\ woken'[k] # NULL => status'[woken'[k]] = "BLOCKED"
    BY <1>0, <1>c, <2>3, <2>5, <2>6 DEF TypeInv
  <2>12. \A k \in Hart : IsInjective(ready'[k]) /\ \A x \in Range(ready'[k]) : status'[x] = "READY"
    BY <1>a, <1>g, <2>3, <2>5, <2>6, Zenon
  <2>13. \A j \in Slot : IsInjective(queue'[j]) /\ \A x \in Range(queue'[j]) : status'[x] = "BLOCKED"
    BY <1>b, <1>d, <2>2, <2>4, <2>5
  <2>14. \A j \in Slot : \A x \in Range(queue'[j]) :
          (\A k \in Hart : woken'[k] # x) /\ \A l \in Slot : x \in Range(queue'[l]) => l = j
    BY <1>e, <1>f, <2>2, <2>3, <2>4, <2>6
  <2>15. \A x \in Proc : status'[x] = "READY" => x \in Range(ready'[Home[x]])
    BY <1>i, <2>3, <2>5, Zenon
  <2>16. \A x \in Proc : status'[x] = "BLOCKED" => \/ \E j \in Slot : x \in Range(queue'[j])
                                                   \/ \E k \in Hart : woken'[k] = x
    BY <1>j, <2>2, <2>3, <2>4, <2>5, Zenon
  <2> QED
    BY <2>11, <2>12, <2>13, <2>14, <2>15, <2>16, PlaceIntro, Zenon
<1>9. ASSUME NEW h \in Hart, VReady(h) PROVE PlaceInv'
  <2> DEFINE w == woken[h]  q == Enqueue(ready[h], woken[h])
  <2>1. Readies(h)
    BY <1>9, ReadyEffect, Zenon
  <2>a. w \in Proc /\ status[w] = "BLOCKED" /\ Home[w] = h
    BY <1>c, <2>1, Zenon DEF Readies, HomeInv
  <2>b. ready[h] \in Seq(Proc) /\ IsInjective(ready[h])
    BY <1>a, <1>g, Zenon
  <2>2. w \in Proc /\ status[w] = "BLOCKED" /\ Home[w] = h /\ Range(q) = Range(ready[h]) \cup {w} /\ IsInjective(q)
    BY <2>a, <2>b, EnqueueFacts, Zenon
  <2>3. UNCHANGED <<on, queue>> /\ pc[h] # "sched" /\ pc' = [pc EXCEPT ![h] = "user"]
    BY <2>1, Zenon DEF Readies
  <2>4. \A k \in Hart : ready'[k] = IF k = h THEN q ELSE ready[k]
    BY <1>0, <2>1, Zenon DEF Readies, TypeInv, TypeOK
  <2>5. \A x \in Proc : status'[x] = IF x = w THEN "READY" ELSE status[x]
    BY <1>0, <2>1, Zenon DEF Readies, TypeInv, TypeOK
  <2>6. \A k \in Hart : k # h => woken[k] = NULL
    BY <1>0, <1>c, <2>1, Zenon DEF Readies, LockInv
  <2>7. \A k \in Hart : woken'[k] = NULL
    BY <1>0, <2>1, <2>6, Zenon DEF Readies, TypeInv
  <2>8. \A j \in Slot : w \notin Range(queue[j])
    BY <1>e, Zenon
  <2> HIDE DEF w, q
  <2>11. \A k \in Hart : /\ pc'[k] # "sched" => status'[on'[k]] = "RUNNING"
                         /\ woken'[k] # NULL => status'[woken'[k]] = "BLOCKED"
    BY <1>0, <1>c, <2>2, <2>3, <2>5, <2>7 DEF TypeInv
  <2>12. \A k \in Hart : IsInjective(ready'[k]) /\ \A x \in Range(ready'[k]) : status'[x] = "READY"
    BY <1>a, <1>g, <2>2, <2>4, <2>5
  <2>13. \A j \in Slot : IsInjective(queue'[j]) /\ \A x \in Range(queue'[j]) : status'[x] = "BLOCKED"
    BY <1>b, <1>d, <2>3, <2>5, <2>8, Zenon
  <2>14. \A j \in Slot : \A x \in Range(queue'[j]) :
          (\A k \in Hart : woken'[k] # x) /\ \A l \in Slot : x \in Range(queue'[l]) => l = j
    <3>1. \A x \in Proc : \A k \in Hart : woken'[k] # x
      BY <2>7, Zenon
    <3> QED
      BY <1>b, <1>f, <2>3, <3>1, Zenon
  <2>15. \A x \in Proc : status'[x] = "READY" => x \in Range(ready'[Home[x]])
    BY <1>i, <2>2, <2>4, <2>5, Zenon
  <2>16. \A x \in Proc : status'[x] = "BLOCKED" => \/ \E j \in Slot : x \in Range(queue'[j])
                                                   \/ \E k \in Hart : woken'[k] = x
    BY <1>j, <2>3, <2>5, <2>6 DEF w
  <2> QED
    BY <2>11, <2>12, <2>13, <2>14, <2>15, <2>16, PlaceIntro, Zenon
<1>10. ASSUME NEW h \in Hart, Yield(h) PROVE PlaceInv'
  <2> DEFINE p == on[h]  q == Enqueue(ready[h], on[h])
  <2>1. Yields(h)
    BY <1>10, YieldEffect, Zenon
  <2>a. p \in Proc /\ status[p] = "RUNNING" /\ Home[p] = h
    BY <1>c, <2>1, Zenon DEF Yields, HomeInv
  <2>b. ready[h] \in Seq(Proc) /\ IsInjective(ready[h])
    BY <1>a, <1>g, Zenon
  <2>2. p \in Proc /\ status[p] = "RUNNING" /\ Home[p] = h /\ Range(q) = Range(ready[h]) \cup {p} /\ IsInjective(q)
    BY <2>a, <2>b, EnqueueFacts, Zenon
  <2>3. UNCHANGED <<on, queue, woken>> /\ pc' = [pc EXCEPT ![h] = "sched"]
    BY <2>1, Zenon DEF Yields
  <2>4. \A k \in Hart : ready'[k] = IF k = h THEN q ELSE ready[k]
    BY <1>0, <2>1, Zenon DEF Yields, TypeInv, TypeOK
  <2>5. \A x \in Proc : status'[x] = IF x = p THEN "READY" ELSE status[x]
    BY <1>0, <2>1, Zenon DEF Yields, TypeInv, TypeOK
  <2>6. /\ \A k \in Hart : woken[k] # p /\ (k # h => on[k] # p)
        /\ \A j \in Slot : p \notin Range(queue[j])
    BY <1>c, <1>d, <1>g, <2>2
  <2> HIDE DEF p, q
  <2>11. \A k \in Hart : /\ pc'[k] # "sched" => status'[on'[k]] = "RUNNING"
                         /\ woken'[k] # NULL => status'[woken'[k]] = "BLOCKED"
    BY <1>0, <1>c, <2>3, <2>5, <2>6 DEF TypeInv
  <2>12. \A k \in Hart : IsInjective(ready'[k]) /\ \A x \in Range(ready'[k]) : status'[x] = "READY"
    BY <1>a, <1>g, <2>2, <2>4, <2>5
  <2>13. \A j \in Slot : IsInjective(queue'[j]) /\ \A x \in Range(queue'[j]) : status'[x] = "BLOCKED"
    BY <1>b, <1>d, <2>3, <2>5, <2>6, Zenon
  <2>14. \A j \in Slot : \A x \in Range(queue'[j]) :
          (\A k \in Hart : woken'[k] # x) /\ \A l \in Slot : x \in Range(queue'[l]) => l = j
    BY <1>e, <1>f, <2>3, Zenon
  <2>15. \A x \in Proc : status'[x] = "READY" => x \in Range(ready'[Home[x]])
    BY <1>i, <2>2, <2>4, <2>5, Zenon
  <2>16. \A x \in Proc : status'[x] = "BLOCKED" => \/ \E j \in Slot : x \in Range(queue'[j])
                                                   \/ \E k \in Hart : woken'[k] = x
    BY <1>j, <2>2, <2>3, <2>5, Zenon
  <2> QED
    BY <2>11, <2>12, <2>13, <2>14, <2>15, <2>16, PlaceIntro, Zenon
<1>11. ASSUME NEW h \in Hart, Schedule(h) PROVE PlaceInv'
  <2> DEFINE p == Head(ready[h])  q == Tail(ready[h])
  <2>1. Dispatches(h)
    BY <1>11, ScheduleEffect, Zenon
  <2>2. p \in Proc /\ Range(ready[h]) = Range(q) \cup {p} /\ IsInjective(q) /\ p \notin Range(q)
    BY <1>a, <1>d, <1>g, <2>1, TailFacts, Zenon DEF Dispatches
  <2>3. UNCHANGED <<queue, woken>> /\ pc' = [pc EXCEPT ![h] = "user"]
    BY <2>1, Zenon DEF Dispatches
  <2>4. \A k \in Hart : ready'[k] = IF k = h THEN q ELSE ready[k]
    BY <1>0, <2>1, Zenon DEF Dispatches, TypeInv, TypeOK
  <2>5. \A x \in Proc : status'[x] = IF x = p THEN "RUNNING" ELSE status[x]
    BY <1>0, <2>1, Zenon DEF Dispatches, TypeInv, TypeOK
  <2>6. status[p] = "READY" /\ Home[p] = h /\ \A k \in Hart : k # h => p \notin Range(ready[k])
    BY <1>d, <1>g, <2>2 DEF HomeInv
  <2>7. \A k \in Hart : on'[k] = IF k = h THEN p ELSE on[k]
    BY <1>0, <2>1, Zenon DEF Dispatches, TypeInv, TypeOK
  <2>8. /\ \A k \in Hart : woken[k] # p /\ (pc[k] # "sched" => on[k] # p)
        /\ \A j \in Slot : p \notin Range(queue[j])
    BY <1>c, <1>d, <2>2, <2>6
  <2> HIDE DEF p, q
  <2>11. \A k \in Hart : /\ pc'[k] # "sched" => status'[on'[k]] = "RUNNING"
                         /\ woken'[k] # NULL => status'[woken'[k]] = "BLOCKED"
    BY <1>0, <1>c, <2>2, <2>3, <2>5, <2>7, <2>8 DEF TypeInv
  <2>12. \A k \in Hart : IsInjective(ready'[k]) /\ \A x \in Range(ready'[k]) : status'[x] = "READY"
    BY <1>a, <1>g, <2>2, <2>4, <2>5, <2>6
  <2>13. \A j \in Slot : IsInjective(queue'[j]) /\ \A x \in Range(queue'[j]) : status'[x] = "BLOCKED"
    BY <1>b, <1>d, <2>3, <2>5, <2>8, Zenon
  <2>14. \A j \in Slot : \A x \in Range(queue'[j]) :
          (\A k \in Hart : woken'[k] # x) /\ \A l \in Slot : x \in Range(queue'[l]) => l = j
    BY <1>e, <1>f, <2>3, Zenon
  <2>15. \A x \in Proc : status'[x] = "READY" => x \in Range(ready'[Home[x]])
    BY <1>i, <2>2, <2>4, <2>5, Zenon
  <2>16. \A x \in Proc : status'[x] = "BLOCKED" => \/ \E j \in Slot : x \in Range(queue'[j])
                                                   \/ \E k \in Hart : woken'[k] = x
    BY <1>j, <2>2, <2>3, <2>5, Zenon
  <2> QED
    BY <2>11, <2>12, <2>13, <2>14, <2>15, <2>16, PlaceIntro, Zenon
<1> QED
  BY <1>2, <1>3, <1>4, <1>5, <1>6, <1>7, <1>8, <1>9, <1>10, <1>11, Zenon DEF Next, Step

-----------------------------------------------------------------------------
(***************************************************************************)
(* The value counts who waits                                              *)
(***************************************************************************)
LEMMA DebtFacts ==
  ASSUME NEW v \in Int, NEW b \in Int
  PROVE  /\ Debt(v, b) \in Nat
         /\ v >= 0 => Debt(v, b) = 0
         /\ v <= 0 /\ (b < 0 => v <= b) => Debt(v - 1, b) = Debt(v, b) + 1
         /\ Debt(v, b) > 0 => Debt(v + 1, b) = Debt(v, b) - 1 /\ (b < 0 => v + 1 <= b)
         /\ Debt(v, b) = 0 => Debt(v + 1, b) = 0 /\ (v < 0 => b < 0)
         /\ Debt(v, v) = 0
BY DEF Debt

\* P counts its process, then queues it; V finds the one it has counted.
LEMMA CountStep ==
  ASSUME BaseInv, HomeInv, PlaceInv, CountInv, Pinned, [Next]_vars
  PROVE  CountInv'
<1> USE SemaphoreAssumption
<1>0. TypeInv /\ LocalInv /\ SlotInv /\ LockInv
  BY Zenon DEF BaseInv
<1>a. known \subseteq Slot /\ \A i \in known : i \in Slot /\ value[i] \in Int /\ born[i] \in Int /\ queue[i] \in Seq(Proc)
  BY <1>0, Zenon DEF TypeInv, TypeOK
<1>b. ~semLock => /\ \A k \in Hart : pc[k] # "p_block"
                  /\ \A i \in known : Len(queue[i]) = Debt(value[i], born[i])
  BY <1>0, Zenon DEF LockInv, CountInv
<1>c. machine = "on" => \A i \in known : born[i] < 0 => value[i] <= born[i]
  BY Zenon DEF CountInv
<1>1. ASSUME UNCHANGED <<value, queue, known, born, machine>>,
             \A k \in Hart : /\ pc'[k] = "p_block" <=> pc[k] = "p_block"
                             /\ pc[k] = "p_block" => slot'[k] = slot[k]
      PROVE  CountInv'
  BY <1>1, Zenon DEF CountInv, NoWakePanic
<1>2. ASSUME machine' = "on", \A k \in Hart : pc'[k] # "p_block",
             \A i \in known' : /\ born'[i] < 0 => value'[i] <= born'[i]
                               /\ Len(queue'[i]) = Debt(value'[i], born'[i])
      PROVE  CountInv'
  BY <1>2, Zenon DEF CountInv, NoWakePanic
<1>3. CASE UNCHANGED vars
  BY <1>1, <1>3, Zenon DEF vars, sems, procs, locals
<1>4. ASSUME NEW h \in Hart, New(h) \/ NewSlot(h) PROVE CountInv'
  <2>1. UNCHANGED <<value, queue, known, born, machine>> /\ pc[h] # "p_block"
    BY <1>4, Zenon DEF New, NewSlot, At
  <2>2. pc'[h] # "p_block" /\ \A k \in Hart \ {h} : slot'[k] = slot[k] /\ pc'[k] = pc[k]
    BY <1>0, <1>4, Zenon DEF New, NewSlot, Goto, Set, TypeInv
  <2> QED
    BY <1>1, <2>1, <2>2, Zenon
<1>5. ASSUME NEW h \in Hart, NewFull(h) PROVE CountInv'
  <2>1. UNCHANGED <<value, queue, known, born, machine, slot>> /\ pc[h] # "p_block"
    BY <1>5, Zenon DEF NewFull, At, sems, locals
  <2>2. pc' = [pc EXCEPT ![h] = "user"]
    BY <1>5, Zenon DEF NewFull, Return, Goto
  <2> QED
    BY <1>0, <1>1, <2>1, <2>2, Zenon DEF TypeInv
<1>6. ASSUME NEW h \in Hart, VReady(h) \/ Yield(h) \/ Schedule(h) PROVE CountInv'
  <2>1. UNCHANGED <<value, queue, known, born, machine, slot>> /\ pc[h] # "p_block"
    BY <1>6, Zenon DEF VReady, Yield, Schedule, At, sems, locals
  <2>2. \E l \in {"user", "sched"} : pc' = [pc EXCEPT ![h] = l]
    BY <1>6, Zenon DEF VReady, Yield, Schedule, Return, Goto
  <2> QED
    BY <1>0, <1>1, <2>1, <2>2, Zenon DEF TypeInv
<1>7. ASSUME NEW h \in Hart, NEW i \in Slot, PTake(h, i) \/ VGive(h, i) PROVE CountInv'
  <2>1. ~semLock /\ i \in known /\ pc' = [pc EXCEPT ![h] = "user"] /\ UNCHANGED <<queue, known, born, machine>>
    BY <1>7, Zenon DEF PTake, VGive, MayUse, Return, Goto
  <2>2. machine = "on"
    BY <1>7, Zenon DEF PTake, VGive, MayUse, At
  <2>3. /\ value[i] >= 0
        /\ \/ value' = [value EXCEPT ![i] = value[i] - 1] /\ value[i] - 1 >= 0
           \/ value' = [value EXCEPT ![i] = value[i] + 1]
    <3>1. value[i] \in Int
      BY <1>0, Zenon DEF TypeInv, TypeOK
    <3>2. CASE PTake(h, i)
      BY <1>a, <2>1, <3>1, <3>2 DEF PTake
    <3>3. CASE VGive(h, i)
      BY <1>a, <2>1, <3>1, <3>3 DEF VGive
    <3> QED
      BY <1>7, <3>2, <3>3, Zenon
  <2>4. value'[i] \in Int /\ value'[i] >= 0 /\ \A j \in known : j # i => value'[j] = value[j]
    BY <1>0, <1>a, <2>1, <2>3 DEF TypeInv, TypeOK
  <2>5. Debt(value[i], born[i]) = 0 /\ Debt(value'[i], born[i]) = 0
    BY <1>a, <2>1, <2>3, <2>4, DebtFacts, Zenon
  <2>7. Len(queue[i]) = 0 /\ ~(born[i] < 0)
    BY <1>a, <1>b, <1>c, <2>1, <2>2, <2>3, <2>5
  <2>6. \A k \in Hart : pc'[k] # "p_block"
    BY <1>0, <1>b, <2>1, Zenon DEF TypeInv
  <2> QED
    BY <1>b, <1>c, <1>2, <2>1, <2>2, <2>4, <2>5, <2>6, <2>7, Zenon
<1>8. ASSUME NEW h \in Hart, NEW i \in Slot, VWake(h, i) PROVE CountInv'
  <2>1. Wakes(h, i)
    BY <1>8, WakeEffect, Zenon
  <2>2. /\ ~semLock /\ machine = "on" /\ machine' = "on" /\ i \in known
        /\ queue[i] # <<>> /\ queue[i] \in Seq(Proc) /\ value[i] \in Int /\ born[i] \in Int
        /\ known' = known /\ born' = born
    BY <1>a, <2>1, Zenon DEF Wakes
  <2>3. /\ value'[i] = value[i] + 1 /\ queue'[i] = Tail(queue[i])
        /\ \A j \in known : j # i => value'[j] = value[j] /\ queue'[j] = queue[j]
    BY <1>0, <1>a, <2>1, Zenon DEF Wakes, TypeInv, TypeOK
  <2>4. Len(queue[i]) \in Nat \ {0} /\ Len(Tail(queue[i])) = Len(queue[i]) - 1
    BY <2>2, TailFacts
  <2>5. Len(queue[i]) = Debt(value[i], born[i])
    BY <1>b, <2>2, Zenon
  <2>6. Debt(value[i] + 1, born[i]) = Debt(value[i], born[i]) - 1 /\ (born[i] < 0 => value[i] + 1 <= born[i])
    <3>1. Debt(value[i], born[i]) > 0
      BY <2>4, <2>5
    <3> QED
      BY <2>2, <3>1, DebtFacts, Zenon
  <2>7. \A k \in Hart : pc'[k] # "p_block"
    BY <1>0, <1>b, <2>1, Zenon DEF TypeInv, Wakes
  <2> QED
    BY <1>b, <1>c, <1>2, <2>2, <2>3, <2>4, <2>5, <2>6, <2>7, Zenon
<1>9. ASSUME NEW h \in Hart, NEW i \in Slot, VPanic(h, i) PROVE CountInv'
  <2>1. /\ ~semLock /\ machine = "on" /\ machine' = "panic" /\ i \in known /\ i \in Slot
        /\ queue[i] = <<>> /\ value[i] + 1 <= 0
        /\ UNCHANGED <<known, born, queue, pc, slot>>
    BY <1>9, Zenon DEF VPanic, MayUse, At, locals
  <2>2. value'[i] = value[i] + 1 /\ \A j \in known : j # i => value'[j] = value[j]
    BY <1>0, <1>9, <1>a, <2>1, Zenon DEF VPanic, TypeInv, TypeOK
  <2>3. Debt(value[i], born[i]) = 0
    BY <1>b, <2>1, Zenon
  <2>4. value[i] \in Int /\ born[i] \in Int /\ value[i] < 0
    BY <1>a, <2>1
  <2>5. Debt(value[i] + 1, born[i]) = 0 /\ born[i] < 0
    BY <2>3, <2>4 DEF Debt
  <2>6. \A j \in known' : Len(queue'[j]) = Debt(value'[j], born'[j])
    BY <1>b, <2>1, <2>2, <2>3, <2>5, Zenon
  <2>7. \A k \in Hart : pc'[k] # "p_block"
    BY <1>b, <2>1, Zenon
  <2> QED
    BY <2>1, <2>5, <2>6, <2>7, Zenon DEF CountInv, NoWakePanic
<1>10. ASSUME NEW h \in Hart, PBlock(h) PROVE CountInv'
  <2> DEFINE i == slot[h]
  <2>1. Blocks(h)
    BY <1>10, BlockEffect, Zenon
  <2>2. /\ pc[h] = "p_block" /\ i \in Slot /\ i \in known /\ machine' = "on" /\ on[h] \in Proc
        /\ pc' = [pc EXCEPT ![h] = "sched"] /\ UNCHANGED <<value, known, born>>
        /\ queue[i] \in Seq(Proc) /\ machine = "on"
    BY <1>a, <2>1, Zenon DEF Blocks
  <2>3. on[h] \notin Range(queue[i])
    <3>1. status[on[h]] = "RUNNING"
      BY <2>2, Zenon DEF PlaceInv
    <3> QED
      BY <2>2, <3>1, Zenon DEF PlaceInv
  <2>4. Len(Enqueue(queue[i], on[h])) = Len(queue[i]) + 1
    BY <2>2, <2>3, EnqueueFacts, Zenon
  <2>5. queue'[i] = Enqueue(queue[i], on[h]) /\ \A j \in known : j # i => queue'[j] = queue[j]
    BY <1>0, <1>a, <2>1, <2>2 DEF Blocks, TypeInv, TypeOK
  <2>6. \A k \in Hart : pc[k] = "p_block" => k = h
    BY <1>0, <2>2, Zenon DEF LockInv
  <2>7. \A k \in Hart : pc'[k] # "p_block"
    BY <1>0, <2>2, <2>6, Zenon DEF TypeInv
  <2> HIDE DEF i
  <2>8. \A j \in known : j # i => Len(queue[j]) = Debt(value[j], born[j])
    BY <2>6, Zenon DEF CountInv, i
  <2>9. Len(queue[i]) + 1 = Debt(value[i], born[i])
    BY <2>2, Zenon DEF CountInv, i
  <2> QED
    BY <1>2, <1>c, <2>2, <2>4, <2>5, <2>7, <2>8, <2>9, Zenon
<1>11. ASSUME NEW h \in Hart, NEW i \in Slot, PWait(h, i) PROVE CountInv'
  <2>1. /\ ~semLock /\ machine = "on" /\ machine' = "on" /\ i \in known /\ value[i] - 1 < 0
        /\ pc' = [pc EXCEPT ![h] = "p_block"] /\ slot' = [slot EXCEPT ![h] = i]
        /\ UNCHANGED <<known, born, queue>>
    BY <1>11, Zenon DEF PWait, MayUse, At, Goto, Set
  <2>2. value'[i] = value[i] - 1 /\ \A j \in known : j # i => value'[j] = value[j]
    BY <1>0, <1>11, <1>a, <2>1 DEF PWait, TypeInv, TypeOK
  <2>3. value[i] \in Int /\ born[i] \in Int /\ value[i] <= 0 /\ (born[i] < 0 => value[i] <= born[i])
    BY <1>a, <1>c, <2>1
  <2>4. Debt(value[i] - 1, born[i]) = Debt(value[i], born[i]) + 1
    BY <2>3, DebtFacts, Zenon
  <2>5. \A k \in Hart : pc'[k] = "p_block" => slot'[k] = i
    BY <1>0, <1>b, <2>1, Zenon DEF TypeInv
  <2>6. pc'[h] = "p_block" /\ slot'[h] = i
    BY <1>0, <2>1, Zenon DEF TypeInv
  <2>7. Len(queue'[i]) + 1 = Debt(value'[i], born'[i]) /\ value'[i] < 0
    BY <1>b, <2>1, <2>2, <2>3, <2>4, Zenon
  <2>8. \A j \in known' : j # i => Len(queue'[j]) = Debt(value'[j], born'[j])
    BY <1>b, <2>1, <2>2, Zenon
  <2>9. \A j \in known' : born'[j] < 0 => value'[j] <= born'[j]
    BY <1>c, <2>1, <2>2, <2>3
  <2> QED
    BY <2>1, <2>5, <2>6, <2>7, <2>8, <2>9, Zenon DEF CountInv, NoWakePanic
<1>12. ASSUME NEW h \in Hart, NewValue(h) PROVE CountInv'
  <2> DEFINE i == slot[h]
  <2>1. /\ machine = "on" /\ machine' = "on" /\ i \notin known /\ i \in Slot /\ pc[h] = "new_value"
        /\ known' = known \cup {i} /\ pc' = [pc EXCEPT ![h] = "user"]
        /\ UNCHANGED <<queue, slot>>
    BY <1>0, <1>12, Zenon DEF NewValue, At, Return, Goto, TypeInv, LocalInv, SlotInv, locals
  <2>2. PICK v \in Int : value' = [value EXCEPT ![i] = v] /\ born' = [born EXCEPT ![i] = v]
    BY <1>12, Zenon DEF NewValue, Set
  <2>3. queue[i] = <<>> /\ Len(<<>>) = 0 /\ Debt(v, v) = 0
    BY <1>0, <2>1, DebtFacts, Zenon DEF SlotInv
  <2>4. \A k \in Hart : pc'[k] = "p_block" <=> pc[k] = "p_block"
    BY <1>0, <2>1, Zenon DEF TypeInv
  <2>5. \A k \in Hart : pc[k] = "p_block" => slot[k] \in known /\ slot[k] # i
    BY <1>0, <2>1, Zenon DEF SlotInv
  <2>6. value'[i] = v /\ born'[i] = v /\ \A j \in known : value'[j] = value[j] /\ born'[j] = born[j]
    BY <1>0, <1>a, <2>1, <2>2, Zenon DEF TypeInv, TypeOK
  <2> HIDE DEF i
  <2>7. \A k \in Hart : pc'[k] = "p_block" =>
          value'[slot'[k]] < 0 /\ Len(queue'[slot'[k]]) + 1 = Debt(value'[slot'[k]], born'[slot'[k]])
    BY <2>1, <2>4, <2>5, <2>6, Zenon DEF CountInv
  <2>8. \A j \in known' : (\A k \in Hart : pc'[k] = "p_block" => slot'[k] # j)
                            => Len(queue'[j]) = Debt(value'[j], born'[j])
    BY <2>1, <2>3, <2>4, <2>6, Zenon DEF CountInv
  <2>9. \A j \in known' : born'[j] < 0 => value'[j] <= born'[j]
    BY <1>c, <2>1, <2>6
  <2> QED
    BY <2>1, <2>7, <2>8, <2>9, Zenon DEF CountInv, NoWakePanic
<1> QED
  BY <1>3, <1>4, <1>5, <1>6, <1>7, <1>8, <1>9, <1>10, <1>11, <1>12, Zenon DEF Next, Step

-----------------------------------------------------------------------------
PinInv == BaseInv /\ HomeInv /\ PlaceInv /\ CountInv

LEMMA PinStep ==
  ASSUME Pinned
  PROVE  PinInv /\ [Next]_vars => PinInv'
BY BaseStep, HomeStep, PlaceStep, CountStep, Zenon DEF PinInv

LEMMA PinCorrect ==
  ASSUME Pinned
  PROVE  Spec => []PinInv
<1>1. Init => PinInv
  BY InitInv, Zenon DEF BaseInv, PinInv
<1>2. PinInv /\ [Next]_vars => PinInv'
  BY PinStep, Zenon
<1> QED
  BY <1>1, <1>2, PTL DEF Spec

\* sem_P and sem_V: outside the critical section the value of a semaphore
\* tells how many wait, so V finds a process whenever it looks for one, and
\* only a semaphore created with a negative value leads into its panic.
THEOREM WaitersCountedCorrect ==
  ASSUME Pinned
  PROVE  Spec => []WaitersCounted
<1>1. PinInv => WaitersCounted
  BY Zenon DEF PinInv, BaseInv, LockInv, CountInv, WaitersCounted, Debt
<1> QED
  BY <1>1, PinCorrect, PTL

\* P, V, yield and schedule: a process is in one place, the one its status
\* names.
THEOREM NobodyLostCorrect ==
  ASSUME Pinned
  PROVE  Spec => []NobodyLost
<1>1. ASSUME PinInv PROVE NobodyLost
  <2> SUFFICES ASSUME NEW p \in Proc
               PROVE  /\ status[p] = "RUNNING" => Places(p) = {}
                      /\ status[p] = "READY" => \E h \in Hart : Places(p) = {<<"ready", h>>}
                      /\ status[p] = "BLOCKED" =>
                           \/ \E i \in Slot : Places(p) = {<<"sem", i>>}
                           \/ \E h \in Hart : Places(p) = {<<"woken", h>>}
    BY Zenon DEF NobodyLost
  <2> DEFINE InSem(i) == i \in Slot /\ p \in Range(queue[i])
             InReady(h) == h \in Hart /\ p \in Range(ready[h])
             InHand(h) == h \in Hart /\ woken[h] = p
  <2>1. \A x : x \in Places(p) <=> \/ \E i : InSem(i) /\ x = <<"sem", i>>
                                   \/ \E h : InReady(h) /\ x = <<"ready", h>>
                                   \/ \E h : InHand(h) /\ x = <<"woken", h>>
    BY Zenon DEF Places
  <2>2. /\ \A i : InSem(i) => status[p] = "BLOCKED" /\ (\A j : InSem(j) => j = i) /\ \A h : ~InHand(h)
        /\ \A h : InReady(h) => status[p] = "READY" /\ h = Home[p]
        /\ \A h : InHand(h) => status[p] = "BLOCKED"
    <3>1. HomeInv /\ PlaceInv
      BY <1>1, Zenon DEF PinInv
    <3>2. \A i : InSem(i) => status[p] = "BLOCKED"
      BY <3>1, Zenon DEF PlaceInv
    <3>3. \A i : InSem(i) => \A j : InSem(j) => j = i
      BY <3>1, Zenon DEF PlaceInv
    <3>4. \A i : InSem(i) => \A h : ~InHand(h)
      BY <3>1, Zenon DEF PlaceInv
    <3>5. \A h : InReady(h) => status[p] = "READY" /\ h = Home[p]
      BY <3>1 DEF PlaceInv, HomeInv
    <3>6. \A h : InHand(h) => status[p] = "BLOCKED"
      <4>1. \A h \in Hart : woken[h] # NULL => status[woken[h]] = "BLOCKED"
        BY <3>1, Zenon DEF PlaceInv
      <4>2. p # NULL
        BY SemaphoreAssumption, Zenon
      <4> QED
        BY <4>1, <4>2, Zenon
    <3> QED
      BY <3>2, <3>3, <3>4, <3>5, <3>6, Zenon
  <2>3. \A h, k : InHand(h) /\ InHand(k) => h = k
    BY <1>1, SemaphoreAssumption, Zenon DEF PinInv, BaseInv, LocalInv, LockInv
  <2>4. /\ status[p] = "READY" => InReady(Home[p])
        /\ status[p] = "BLOCKED" => (\E i \in Slot : InSem(i)) \/ (\E h \in Hart : InHand(h))
    BY <1>1, SemaphoreAssumption, Zenon DEF PinInv, PlaceInv
  <2>5. Home[p] \in Hart
    BY SemaphoreAssumption, Zenon
  <2> HIDE DEF InSem, InReady, InHand
  <2>6. ASSUME status[p] = "RUNNING" PROVE Places(p) = {}
    BY <2>1, <2>2, <2>6, Zenon
  <2>7. ASSUME status[p] = "READY" PROVE Places(p) = {<<"ready", Home[p]>>}
    BY <2>1, <2>2, <2>4, <2>7
  <2>8. ASSUME NEW i \in Slot, InSem(i) PROVE Places(p) = {<<"sem", i>>}
    BY <2>1, <2>2, <2>8
  <2>9. ASSUME NEW h \in Hart, InHand(h) PROVE Places(p) = {<<"woken", h>>}
    BY <2>1, <2>2, <2>3, <2>9, Zenon
  <2> QED
    BY <2>4, <2>5, <2>6, <2>7, <2>8, <2>9, Zenon
<1> QED
  BY <1>1, PinCorrect, PTL

\* smode_trap_handler: a trap is handled for the process that caused it.
THEOREM CurrentIsRunningCorrect ==
  ASSUME Pinned
  PROVE  Spec => []CurrentIsRunning
<1>1. PinInv => CurrentIsRunning
  BY Stays, Zenon DEF PinInv, BaseInv, CurrentIsRunning
<1> QED
  BY <1>1, PinCorrect, PTL

-----------------------------------------------------------------------------
(***************************************************************************)
(* The semaphores implement counting semaphores: each step of the kernel   *)
(* is one of CountingSem, or none.                                         *)
(***************************************************************************)
\* The permits that the value of a semaphore in use stands for.
Permits == [i \in Slot |-> IF i \in known /\ value[i] > 0 THEN value[i] ELSE 0]

LEMMA InitMaps == Init => Abstract!Init
BY Zenon DEF Init, Abstract!Init

LEMMA StutterMaps ==
  ASSUME UNCHANGED <<known, queue>>, Permits' = Permits
  PROVE  [Abstract!Next]_(Abstract!vars)
BY Zenon DEF Abstract!vars, Permits

LEMMA StepMaps ==
  ASSUME Pinned, PinInv, [Next]_vars
  PROVE  [Abstract!Next]_(Abstract!vars)
<1> USE SemaphoreAssumption
<1>0. TypeInv /\ LocalInv /\ SlotInv /\ LockInv /\ BaseInv /\ HomeInv /\ PlaceInv /\ CountInv
  BY Zenon DEF PinInv, BaseInv
<1>a. known \subseteq Slot /\ \A i \in Slot : value[i] \in Int /\ born[i] \in Int /\ queue[i] \in Seq(Proc)
  BY <1>0, Zenon DEF TypeInv, TypeOK
<1>b. ~semLock => \A i \in known : Len(queue[i]) = Debt(value[i], born[i])
  BY <1>0, Zenon DEF LockInv, CountInv
<1>1. CASE UNCHANGED <<known, queue, value>>
  BY <1>1, StutterMaps, Zenon DEF Permits
<1>2. ASSUME NEW h \in Hart, NewValue(h) PROVE Abstract!Next
  <2> DEFINE i == slot[h]
  <2>1. i \in Slot /\ i \notin known /\ known' = known \cup {i} /\ queue' = queue /\ queue[i] = <<>>
    BY <1>0, <1>2 DEF NewValue, At, TypeInv, LocalInv, SlotInv
  <2>2. PICK v \in InitVals : value' = [value EXCEPT ![i] = v]
    BY <1>2, Zenon DEF NewValue, Set
  <2>3. Permits' = [Permits EXCEPT ![i] = IF v > 0 THEN v ELSE 0]
    BY <1>0, <2>1, <2>2, Zenon DEF Permits, TypeInv, TypeOK
  <2> HIDE DEF i
  <2>4. Abstract!Create(i, v)
    BY <2>1, <2>3, Zenon DEF Abstract!Create, Permits
  <2> QED
    BY <2>1, <2>2, <2>4, Zenon DEF Abstract!Next
<1>3. ASSUME NEW h \in Hart, NEW i \in Slot, PTake(h, i) PROVE Abstract!Next
  <2>1. /\ i \in known /\ UNCHANGED <<known, queue>> /\ value[i] - 1 >= 0
        /\ value' = [value EXCEPT ![i] = value[i] - 1]
    BY <1>3, Zenon DEF PTake, MayUse
  <2>2. Permits[i] = value[i] /\ value[i] > 0
    BY <1>a, <2>1 DEF Permits
  <2>3. Permits' = [Permits EXCEPT ![i] = Permits[i] - 1]
    <3>1. value'[i] = value[i] - 1 /\ \A j \in Slot : j # i => value'[j] = value[j]
      BY <1>0, <2>1, Zenon DEF TypeInv, TypeOK
    <3>2. (IF value'[i] > 0 THEN value'[i] ELSE 0) = value[i] - 1
      BY <1>a, <2>1, <3>1
    <3>3. Permits'[i] = value[i] - 1 /\ \A j \in Slot : j # i => Permits'[j] = Permits[j]
      BY <2>1, <3>1, <3>2, Zenon DEF Permits
    <3> QED
      BY <2>2, <3>3, Zenon DEF Permits
  <2>4. Abstract!Take(i)
    BY <2>1, <2>2, <2>3, Zenon DEF Abstract!Take, Permits
  <2> QED
    BY <2>4, Zenon DEF Abstract!Next
<1>4. ASSUME NEW h \in Hart, NEW i \in Slot, VGive(h, i) PROVE Abstract!Next
  <2>1. /\ i \in known /\ UNCHANGED <<known, queue>> /\ value[i] + 1 > 0 /\ ~semLock
        /\ value' = [value EXCEPT ![i] = value[i] + 1]
    BY <1>4, Zenon DEF VGive, MayUse
  <2>2. Permits[i] = value[i] /\ value[i] >= 0
    BY <1>a, <2>1 DEF Permits
  <2>3. Permits' = [Permits EXCEPT ![i] = Permits[i] + 1]
    BY <1>0, <1>a, <2>1, <2>2, Zenon DEF Permits, TypeInv, TypeOK
  <2>4. Debt(value[i], born[i]) = 0
    BY <1>a, <2>2, DebtFacts, Zenon
  <2>5. queue[i] = <<>>
    BY <1>a, <1>b, <2>1, <2>4
  <2>6. Abstract!Give(i)
    BY <2>1, <2>3, <2>5, Zenon DEF Abstract!Give, Permits
  <2> QED
    BY <2>6, Zenon DEF Abstract!Next
<1>5. ASSUME NEW h \in Hart, NEW i \in Slot, PWait(h, i) \/ VPanic(h, i)
      PROVE  UNCHANGED <<known, queue>> /\ Permits' = Permits
  <2>1. i \in known /\ UNCHANGED <<known, queue>>
    BY <1>5, Zenon DEF PWait, VPanic, MayUse
  <2>2. value[i] <= 0 /\ value'[i] \in Int /\ value'[i] <= 0 /\ \A j \in Slot : j # i => value'[j] = value[j]
    BY <1>0, <1>5, <1>a DEF PWait, VPanic, TypeInv, TypeOK
  <2>3. \A j \in Slot : (j \in known' /\ value'[j] > 0 <=> j \in known /\ value[j] > 0)
                       /\ (j \in known /\ value[j] > 0 => value'[j] = value[j])
    BY <1>a, <2>1, <2>2
  <2> QED
    BY <2>1, <2>3, Zenon DEF Permits
<1>6. ASSUME NEW h \in Hart, NEW i \in Slot, VWake(h, i) PROVE Abstract!Next
  <2>1. Wakes(h, i)
    BY <1>0, <1>6, WakeEffect, Zenon
  <2>2. /\ i \in known /\ known' = known /\ queue[i] # <<>>
        /\ queue' = [queue EXCEPT ![i] = Tail(queue[i])]
    BY <2>1, Zenon DEF Wakes
  <2>3. value[i] <= 0 /\ value'[i] \in Int /\ value'[i] <= 0 /\ \A j \in Slot : j # i => value'[j] = value[j]
    BY <1>0, <1>a, <2>1 DEF Wakes, TypeInv, TypeOK
  <2>4. Permits' = Permits
    <3>1. \A j \in Slot : (j \in known' /\ value'[j] > 0 <=> j \in known /\ value[j] > 0)
                         /\ (j \in known /\ value[j] > 0 => value'[j] = value[j])
      BY <1>a, <2>2, <2>3
    <3> QED
      BY <3>1, Zenon DEF Permits
  <2>5. Abstract!Wake(i)
    BY <2>2, <2>4, Zenon DEF Abstract!Wake, Permits
  <2> QED
    BY <2>5, Zenon DEF Abstract!Next
<1>7. ASSUME NEW h \in Hart, PBlock(h) PROVE Abstract!Next
  <2> DEFINE i == slot[h]  p == on[h]
  <2>1. Blocks(h)
    BY <1>0, <1>7, BlockEffect, Zenon
  <2>2. pc[h] = "p_block" /\ i \in Slot /\ i \in known /\ p \in Proc /\ UNCHANGED <<known, value>>
    BY <2>1, Zenon DEF Blocks
  <2>3. status[p] = "RUNNING"
    BY <1>0, <2>2, Zenon DEF PlaceInv
  <2>4. \A j \in Slot : p \notin Range(queue[j])
    BY <1>0, <2>3, Zenon DEF PlaceInv
  <2>5. Enqueue(queue[i], p) = Append(queue[i], p)
    BY <1>a, <2>2, <2>4, EnqueueFacts, Zenon
  <2>6. queue' = [queue EXCEPT ![i] = Append(queue[i], p)]
    BY <2>1, <2>5, Zenon DEF Blocks
  <2>7. value[i] < 0
    BY <1>0, <2>2, Zenon DEF CountInv
  <2>8. Permits[i] = 0 /\ Permits' = Permits
    BY <1>a, <2>2, <2>7 DEF Permits
  <2>9. \A r \in Slot : \A n \in 1 .. Len(queue[r]) : queue[r][n] # p
    BY <1>a, <2>4 DEF Range
  <2> HIDE DEF i, p
  <2>10. Abstract!Wait(i, p)
    BY <2>2, <2>6, <2>8, <2>9, Zenon DEF Abstract!Wait, Permits
  <2> QED
    BY <2>2, <2>10, Zenon DEF Abstract!Next
<1>8. ASSUME NEW h \in Hart, \/ New(h) \/ NewSlot(h) \/ NewFull(h) \/ VReady(h) \/ Yield(h) \/ Schedule(h)
      PROVE  UNCHANGED <<known, queue, value>>
  BY <1>8, Zenon DEF New, NewSlot, NewFull, VReady, Yield, Schedule, sems
<1>9. UNCHANGED vars => UNCHANGED <<known, queue, value>>
  BY Zenon DEF vars, sems
<1>10. CASE \E h \in Hart, i \in Slot : PWait(h, i) \/ VPanic(h, i)
  BY <1>5, <1>10, StutterMaps, Zenon
<1> QED
  BY <1>1, <1>2, <1>3, <1>4, <1>6, <1>7, <1>8, <1>9, <1>10, Zenon DEF Next, Step

\* sem_new, sem_P and sem_V are counting semaphores that wake who has waited
\* longest, for every number of harts, semaphores and processes.
THEOREM CountsAndQueuesCorrect ==
  ASSUME Pinned
  PROVE  Spec => CountsAndQueues
<1>1. PinInv /\ [Next]_vars => [Abstract!Next]_(Abstract!vars)
  BY StepMaps, Zenon
<1> QED
  BY <1>1, InitMaps, PinCorrect, PTL DEF Spec, CountsAndQueues, Abstract!Spec
=============================================================================
