----------------------------- MODULE SchedProofs -----------------------------
(***************************************************************************)
(* Sched for every number of harts and slots and every workload: the exit  *)
(* barrier holds shutdown(0) back until every hart is there, and the lock  *)
(* of a ready queue admits one inserting hart.  For the workloads without  *)
(* wait: the queues and the harts agree about which process runs where.    *)
(***************************************************************************)
EXTENDS Sched, FiniteSetTheorems, TLAPS

\* One hart's step.
HartStep(h) == Syscall(h) \/ Timer(h) \/ Kernel(h)

\* What a step of one hart leaves alone: the location and the registers of
\* every other hart.
LEMMA OthersStay ==
  ASSUME NEW h \in Hart, ControlInv, HartStep(h)
  PROVE  \A k \in Hart \ {h} :
           /\ pc'[k] = pc[k] /\ arg'[k] = arg[k]
           /\ dst'[k] = dst[k] /\ then'[k] = then[k]
<1> USE DEF ControlInv, Goto, Set, control
<1>1. ASSUME NEW t \in Hart, Fork(h, t) PROVE \A k \in Hart \ {h} :
           /\ pc'[k] = pc[k] /\ arg'[k] = arg[k]
           /\ dst'[k] = dst[k] /\ then'[k] = then[k]
  BY <1>1, Zenon DEF Fork, MayFork
<1>2. CASE InsertEmpty(h) \/ InsertPresent(h)
  BY <1>2, Zenon DEF InsertEmpty, InsertPresent, Return
<1>3. CASE InsertFinish(h)
  BY <1>3, Zenon DEF InsertFinish, Return
<1>4. CASE InsertWalk(h)
  BY <1>4, Zenon DEF InsertWalk
<1>5. CASE InsertLink(h)
  BY <1>5, Zenon DEF InsertLink
<1>6. CASE ForkPanic(h) \/ ForkStatus(h) \/ ForkParent(h)
  BY <1>6, Zenon DEF ForkPanic, ForkStatus, ForkParent, MayFork
<1>7. CASE Yield(h) \/ TimerTick(h) \/ TimerSwitch(h)
  BY <1>7, Zenon DEF Yield, TimerTick, TimerSwitch, GiveUp
<1>8. CASE WaitReap(h) \/ WaitAny(h) \/ WaitPid(h)
  BY <1>8, Zenon DEF WaitReap, WaitAny, WaitPid
<1>9. CASE WaitBlock(h) \/ WaitLink(h)
  BY <1>9, Zenon DEF WaitBlock, WaitLink
<1>10. CASE ExitScanMiss(h)
  BY <1>10, Zenon DEF ExitScanMiss
<1>11. CASE ExitScanHit(h) \/ ExitScanFault(h)
  BY <1>11, Zenon DEF ExitScanHit, ExitScanFault
<1>12. CASE Exit(h) \/ ExitUnlink(h) \/ ExitZombie(h) \/ ExitHeap(h) \/ ExitWake(h) \/ ExitRelease(h)
  BY <1>12, Zenon DEF Exit, ExitUnlink, ExitZombie, ExitHeap, ExitWake, ExitRelease
<1>13. CASE SchedTask(h) \/ SchedEmpty(h) \/ ScanLive(h) \/ ScanDone(h) \/ ScanAllDone(h)
  BY <1>13, Zenon DEF SchedTask, SchedEmpty, ScanLive, ScanDone, ScanAllDone
<1>14. CASE IdleTask(h) \/ IdleRecheck(h) \/ IdleShutdown(h)
  BY <1>14, Zenon DEF IdleTask, IdleRecheck, IdleShutdown
<1>15. CASE ExitArrive(h) \/ PowerOff(h) \/ Spin(h)
  BY <1>15, Zenon DEF ExitArrive, PowerOff, Spin
<1>16. CASE Dequeue(h) \/ DequeueFails(h) \/ Switch(h)
  BY <1>16, Zenon DEF Dequeue, DequeueFails, Switch
<1> QED
  BY <1>1, <1>2, <1>3, <1>4, <1>5, <1>6, <1>7, <1>8, <1>9, <1>10, <1>11, <1>12, <1>13, <1>14, <1>15, <1>16, Zenon
     DEF HartStep, Syscall, Timer, Kernel

\* Every handler sets the registers it uses before it goes where they are read.
LEMMA ControlStep ==
  ASSUME NEW h \in Hart, ControlInv, HartStep(h)
  PROVE  ControlInv'
<1>1. NCPU \in Nat \ {0} /\ NULL \notin Int /\ 0 \in Hart /\ Hart \subseteq Int
  BY SchedAssumption DEF Hart
<1> USE <1>1 DEF ControlInv, Goto, At, Set, control, queues, Inserting, AtBarrier, WithArg, WithQueue, Locations
<1>2. ASSUME NEW t \in Hart, Fork(h, t) PROVE ControlInv'
  BY <1>2, Zenon DEF Fork, MayFork
<1>3. CASE InsertEmpty(h) \/ InsertPresent(h)
  BY <1>3 DEF InsertEmpty, InsertPresent, Return
<1>4. CASE InsertFinish(h)
  BY <1>4, Zenon DEF InsertFinish, Return
<1>5. CASE InsertWalk(h)
  BY <1>5, Zenon DEF InsertWalk
<1>6. CASE InsertLink(h)
  BY <1>6, Zenon DEF InsertLink
<1>7. CASE ForkPanic(h) \/ ForkStatus(h) \/ ForkParent(h)
  BY <1>7 DEF ForkPanic, ForkStatus, ForkParent, MayFork
<1>8. CASE Yield(h) \/ TimerTick(h) \/ TimerSwitch(h)
  BY <1>8 DEF Yield, TimerTick, TimerSwitch, GiveUp
<1>9. CASE WaitReap(h) \/ WaitAny(h) \/ WaitPid(h)
  BY <1>9 DEF WaitReap, WaitAny, WaitPid
<1>10. CASE WaitBlock(h) \/ WaitLink(h)
  BY <1>10 DEF WaitBlock, WaitLink
<1>11. CASE ExitScanMiss(h)
  <2>1. dst[h] \in Hart
    BY <1>11, Zenon DEF ExitScanMiss
  <2>2. \A d \in Hart : d # NCPU - 1 => d + 1 \in Hart
    BY SchedAssumption DEF Hart
  <2> QED
    BY <1>11, <2>1, <2>2, Zenon DEF ExitScanMiss
<1>12. CASE ExitScanHit(h) \/ ExitScanFault(h)
  BY <1>12 DEF ExitScanHit, ExitScanFault
<1>13. CASE Exit(h) \/ ExitUnlink(h) \/ ExitZombie(h) \/ ExitHeap(h) \/ ExitWake(h) \/ ExitRelease(h)
  BY <1>13 DEF Exit, ExitUnlink, ExitZombie, ExitHeap, ExitWake, ExitRelease
<1>14. CASE SchedTask(h) \/ SchedEmpty(h) \/ ScanLive(h) \/ ScanDone(h) \/ ScanAllDone(h)
  BY <1>14 DEF SchedTask, SchedEmpty, ScanLive, ScanDone, ScanAllDone
<1>15. CASE IdleTask(h) \/ IdleRecheck(h) \/ IdleShutdown(h)
  BY <1>15 DEF IdleTask, IdleRecheck, IdleShutdown
<1>16. CASE ExitArrive(h) \/ PowerOff(h) \/ Spin(h)
  BY <1>16 DEF ExitArrive, PowerOff, Spin
<1>17. CASE Dequeue(h) \/ DequeueFails(h) \/ Switch(h)
  BY <1>17 DEF Dequeue, DequeueFails, Switch
<1> QED
  BY <1>2, <1>3, <1>4, <1>5, <1>6, <1>7, <1>8, <1>9, <1>10, <1>11, <1>12, <1>13, <1>14, <1>15, <1>16, <1>17, Zenon
     DEF HartStep, Syscall, Timer, Kernel

\* A hart enters the critical section of a queue only when its lock is free,
\* and only the hart inside frees it.
LEMMA LockStep ==
  ASSUME NEW h \in Hart, ControlInv, LockedByOne, HartStep(h)
  PROVE  LockedByOne'
<1>1. \A k \in Hart \ {h} : pc'[k] = pc[k] /\ dst'[k] = dst[k]
  BY OthersStay, Zenon
<1> USE <1>1 DEF ControlInv, LockedByOne, InSection, Goto, At, Set, control, queues, Inserting, WithArg, WithQueue
<1>2. ASSUME NEW t \in Hart, Fork(h, t) PROVE LockedByOne'
  BY <1>2, Zenon DEF Fork, MayFork
<1>3. CASE InsertEmpty(h) \/ InsertPresent(h)
  BY <1>3 DEF InsertEmpty, InsertPresent, Return
<1>4. CASE InsertFinish(h)
  BY <1>4 DEF InsertFinish, Return
<1>5. CASE InsertWalk(h)
  BY <1>5 DEF InsertWalk
<1>6. CASE InsertLink(h)
  BY <1>6 DEF InsertLink
<1>7. CASE ForkPanic(h) \/ ForkStatus(h) \/ ForkParent(h)
  BY <1>7 DEF ForkPanic, ForkStatus, ForkParent, MayFork
<1>8. CASE Yield(h) \/ TimerTick(h) \/ TimerSwitch(h)
  BY <1>8 DEF Yield, TimerTick, TimerSwitch, GiveUp
<1>9. CASE WaitReap(h) \/ WaitAny(h) \/ WaitPid(h)
  BY <1>9 DEF WaitReap, WaitAny, WaitPid
<1>10. CASE WaitBlock(h) \/ WaitLink(h)
  BY <1>10 DEF WaitBlock, WaitLink
<1>11. CASE ExitScanMiss(h)
  BY <1>11, Zenon DEF ExitScanMiss
<1>12. CASE ExitScanHit(h) \/ ExitScanFault(h)
  BY <1>12 DEF ExitScanHit, ExitScanFault
<1>13. CASE Exit(h) \/ ExitUnlink(h) \/ ExitZombie(h) \/ ExitHeap(h) \/ ExitWake(h) \/ ExitRelease(h)
  BY <1>13 DEF Exit, ExitUnlink, ExitZombie, ExitHeap, ExitWake, ExitRelease
<1>14. CASE SchedTask(h) \/ SchedEmpty(h) \/ ScanLive(h) \/ ScanDone(h) \/ ScanAllDone(h)
  BY <1>14 DEF SchedTask, SchedEmpty, ScanLive, ScanDone, ScanAllDone
<1>15. CASE IdleTask(h) \/ IdleRecheck(h) \/ IdleShutdown(h)
  BY <1>15 DEF IdleTask, IdleRecheck, IdleShutdown
<1>16. CASE ExitArrive(h) \/ PowerOff(h) \/ Spin(h)
  BY <1>16 DEF ExitArrive, PowerOff, Spin
<1>17. CASE Dequeue(h) \/ DequeueFails(h) \/ Switch(h)
  BY <1>17 DEF Dequeue, DequeueFails, Switch
<1> QED
  BY <1>2, <1>3, <1>4, <1>5, <1>6, <1>7, <1>8, <1>9, <1>10, <1>11, <1>12, <1>13, <1>14, <1>15, <1>16, <1>17, Zenon
     DEF HartStep, Syscall, Timer, Kernel

\* The exit barrier counts each hart once, when it arrives, and hart 0 calls
\* shutdown(0) only behind it.
LEMMA BarrierStep ==
  ASSUME NEW h \in Hart, ControlInv, BarrierInv, HartStep(h)
  PROVE  BarrierInv'
<1> DEFINE B == {k \in Hart : pc[k] \in AtBarrier}
<1>1. IsFiniteSet(Hart) /\ NCPU \in Nat
  BY SchedAssumption, FS_Interval DEF Hart
<1>2. IsFiniteSet(B) /\ Cardinality(B) \in Nat
  BY <1>1, FS_Subset, FS_CardinalityType, Zenon
<1>3. \A k \in Hart \ {h} : pc'[k] = pc[k]
  BY OthersStay, Zenon
<1>4. CASE ExitArrive(h)
  <2>1. pc[h] \notin AtBarrier /\ pc'[h] \in AtBarrier
    BY <1>4, Zenon DEF ExitArrive, At, Goto, ControlInv, AtBarrier
  <2>2. B' = B \cup {h} /\ h \notin B
    BY <1>3, <2>1
  <2>3. Cardinality(B') = Cardinality(B) + 1
    BY <1>2, <2>2, FS_AddElement, Zenon
  <2>4. exitCount' = exitCount + 1 /\ machine' = "on"
    BY <1>4, Zenon DEF ExitArrive, At
  <2> QED
    BY <1>2, <2>3, <2>4, Zenon DEF BarrierInv
<1>5. CASE ~ExitArrive(h)
  <2>1. pc[h] \in AtBarrier <=> pc'[h] \in AtBarrier
    BY <1>5, Zenon DEF HartStep, Syscall, Timer, Kernel, InsertEmpty, InsertPresent, InsertFinish, InsertWalk, InsertLink, ForkPanic, ForkStatus,
       ForkParent, Yield, TimerTick, TimerSwitch, WaitReap, WaitAny, WaitPid, WaitBlock,
       WaitLink, ExitScanMiss, ExitScanHit, ExitScanFault, Exit, ExitUnlink, ExitZombie,
       ExitHeap, ExitWake, ExitRelease, SchedTask, SchedEmpty, ScanLive, ScanDone, ScanAllDone,
       IdleTask, IdleRecheck, IdleShutdown, PowerOff, Spin, Dequeue, DequeueFails, Switch, Fork,
       GiveUp, Return, MayFork, ControlInv, Goto, At, Set, control, AtBarrier, Inserting
  <2>2. exitCount' = exitCount
    BY <1>5, Zenon DEF HartStep, Syscall, Timer, Kernel, InsertEmpty, InsertPresent, InsertFinish, InsertWalk, InsertLink, ForkPanic, ForkStatus,
       ForkParent, Yield, TimerTick, TimerSwitch, WaitReap, WaitAny, WaitPid, WaitBlock,
       WaitLink, ExitScanMiss, ExitScanHit, ExitScanFault, Exit, ExitUnlink, ExitZombie,
       ExitHeap, ExitWake, ExitRelease, SchedTask, SchedEmpty, ScanLive, ScanDone, ScanAllDone,
       IdleTask, IdleRecheck, IdleShutdown, PowerOff, Spin, Dequeue, DequeueFails, Switch, Fork,
       GiveUp, Return, MayFork, power
  <2>3. machine' = "off" => exitCount >= NCPU
    BY <1>5, Zenon DEF HartStep, Syscall, Timer, Kernel, InsertEmpty, InsertPresent, InsertFinish, InsertWalk, InsertLink, ForkPanic, ForkStatus,
       ForkParent, Yield, TimerTick, TimerSwitch, WaitReap, WaitAny, WaitPid, WaitBlock,
       WaitLink, ExitScanMiss, ExitScanHit, ExitScanFault, Exit, ExitUnlink, ExitZombie,
       ExitHeap, ExitWake, ExitRelease, SchedTask, SchedEmpty, ScanLive, ScanDone, ScanAllDone,
       IdleTask, IdleRecheck, IdleShutdown, PowerOff, Spin, Dequeue, DequeueFails, Switch, Fork,
       GiveUp, Return, MayFork, power, At, BarrierInv
  <2>4. B' = B
    BY <1>3, <2>1
  <2> QED
    BY <2>2, <2>3, <2>4, Zenon DEF BarrierInv
<1> QED
  BY <1>4, <1>5, Zenon

\* The whole invariant, for every number of harts and every workload.
THEOREM SchedInvariant == Spec => []SchedInv
<1>1. Init => SchedInv
  <2> SUFFICES ASSUME Init PROVE SchedInv
    BY Zenon
  <2>1. ControlInv
    BY Zenon DEF Init, ControlInv, Inserting, WithArg, WithQueue, Locations
  <2>2. LockedByOne
    BY Zenon DEF Init, LockedByOne, InSection
  <2>3. {h \in Hart : pc[h] \in AtBarrier} = {}
    BY Zenon DEF Init, AtBarrier
  <2>4. BarrierInv
    BY <2>3, FS_EmptySet, Zenon DEF Init, BarrierInv
  <2> QED
    BY <2>1, <2>2, <2>4, Zenon DEF SchedInv
<1>2. SchedInv /\ [Next]_vars => SchedInv'
  <2> SUFFICES ASSUME SchedInv, [Next]_vars PROVE SchedInv'
    BY Zenon
  <2>1. CASE Next
    BY <2>1, ControlStep, LockStep, BarrierStep, Zenon DEF Next, HartStep, SchedInv
  <2>2. CASE UNCHANGED vars
    BY <2>2, Zenon DEF vars, control, queues, power, SchedInv, ControlInv, LockedByOne, InSection, BarrierInv
  <2> QED
    BY <2>1, <2>2, Zenon
<1> QED
  BY <1>1, <1>2, PTL DEF Spec

\* "A final barrier lets all harts exit": shutdown(0) is called only when every
\* hart is at the exit barrier or behind it, so no process is running then.
THEOREM ShutdownBehindBarrier == Spec => []OffAtBarrier
<1>1. SchedInv => OffAtBarrier
  <2> SUFFICES ASSUME SchedInv, machine = "off" PROVE \A h \in Hart : pc[h] \in AtBarrier
    BY Zenon DEF OffAtBarrier, AtBarrier
  <2> DEFINE B == {h \in Hart : pc[h] \in AtBarrier}
  <2>1. NCPU \in Nat /\ NCPU > 0 /\ 0 \in Int /\ NCPU - 1 \in Int
    BY SchedAssumption
  <2>2. IsFiniteSet(Hart)
    BY <2>1, FS_Interval, Zenon DEF Hart
  <2>3. Cardinality(Hart) = IF 0 > NCPU - 1 THEN 0 ELSE (NCPU - 1) - 0 + 1
    BY <2>1, FS_Interval, Zenon DEF Hart
  <2>4. B \subseteq Hart
    BY Zenon
  <2>5. IsFiniteSet(B) /\ Cardinality(B) <= Cardinality(Hart)
          /\ (Cardinality(B) = Cardinality(Hart) => B = Hart)
    BY <2>2, <2>4, FS_Subset, Zenon
  <2>6. Cardinality(B) \in Nat /\ Cardinality(B) >= NCPU
    BY <2>5, FS_CardinalityType, Zenon DEF SchedInv, BarrierInv
  <2>7. B = Hart
    BY <2>1, <2>3, <2>5, <2>6
  <2> QED
    BY <2>7, Zenon
<1> QED
  BY <1>1, SchedInvariant, PTL

\* g_ready_queue_lock: no two harts insert into one ready queue at a time.
THEOREM InsertionsExclusive == Spec => []LockedByOne
<1>1. SchedInv => LockedByOne
  BY Zenon DEF SchedInv
<1> QED
  BY <1>1, SchedInvariant, PTL

-----------------------------------------------------------------------------
(***************************************************************************)
(* Traversals                                                              *)
(***************************************************************************)
\* The least of a set of numbers, on which the two inductions below rest.
LEMMA NatMin ==
  ASSUME NEW T \in SUBSET Nat, T # {}
  PROVE  \E n \in T : \A m \in T : n <= m
<1> DEFINE R == OpToRel(<, Nat)
<1>1. \A m, n \in T : <<m, n>> \notin R => n <= m
  BY DEF OpToRel
<1>2. IsWellFoundedOn(R, Nat)
  BY NatLessThanWellFounded, Zenon
<1> HIDE DEF R
<1>3. PICK n \in T : \A m \in T : ~(<<m, n>> \in R)
  BY <1>2, WFMin, Zenon
<1>4. \A m \in T : n <= m
  BY <1>1, <1>3, Zenon
<1> QED
  BY <1>4, Zenon

\* The traversal from x is a function: one of its prefixes after another.
Walks(f, m, x) ==
  \A n \in 0 .. m : f[n] = IF n = 0 THEN x ELSE IF f[n - 1] = NULL THEN NULL ELSE next[f[n - 1]]

LEMMA WalkExists ==
  ASSUME NEW x, NEW m \in Nat
  PROVE  \E f : f = [n \in 0 .. m |-> f[n]] /\ Walks(f, m, x)
<1> DEFINE U == {n \in 0 .. m : \A f : f = [i \in 0 .. n |-> f[i]] => ~Walks(f, n, x)}
<1> SUFFICES ASSUME U # {} PROVE FALSE
  OBVIOUS
<1>1. U \in SUBSET Nat
  OBVIOUS
<1> HIDE DEF U
<1>2. PICK n \in U : \A k \in U : n <= k
  BY <1>1, NatMin, Zenon
<1>3. n \in 0 .. m /\ \A f : f = [i \in 0 .. n |-> f[i]] => ~Walks(f, n, x)
  BY Zenon DEF U
<1>4. n # 0
  <2> SUFFICES ASSUME n = 0 PROVE FALSE
    BY Zenon
  <2> DEFINE f == [i \in 0 .. n |-> x]
  <2>1. f = [i \in 0 .. n |-> f[i]] /\ Walks(f, n, x)
    BY DEF Walks
  <2> QED
    BY <1>3, <2>1, Zenon
<1>5. n - 1 \in 0 .. m /\ n - 1 \notin U
  BY <1>2, <1>3, <1>4
<1>6. PICK g : g = [i \in 0 .. (n - 1) |-> g[i]] /\ Walks(g, n - 1, x)
  BY <1>5, Zenon DEF U
<1> DEFINE v == IF g[n - 1] = NULL THEN NULL ELSE next[g[n - 1]]
           f == [i \in 0 .. n |-> IF i = n THEN v ELSE g[i]]
<1>7. f = [i \in 0 .. n |-> f[i]]
  BY Zenon
<1>8. Walks(f, n, x)
  <2> SUFFICES ASSUME NEW i \in 0 .. n
               PROVE  f[i] = IF i = 0 THEN x ELSE IF f[i - 1] = NULL THEN NULL ELSE next[f[i - 1]]
    BY Zenon DEF Walks
  <2>1. CASE i = n
    <3>1. i - 1 \in 0 .. n /\ i - 1 # n /\ i # 0
      BY <1>3, <1>4, <2>1
    <3>2. f[i - 1] = g[n - 1] /\ f[i] = v
      BY <2>1, <3>1, Zenon
    <3> QED
      BY <3>1, <3>2, Zenon
  <2>2. CASE i # n
    <3>1. i \in 0 .. (n - 1) /\ (i # 0 => i - 1 \in 0 .. n /\ i - 1 # n)
      BY <1>3, <2>2
    <3>2. g[i] = IF i = 0 THEN x ELSE IF g[i - 1] = NULL THEN NULL ELSE next[g[i - 1]]
      BY <1>6, <3>1, Zenon DEF Walks
    <3>3. f[i] = g[i] /\ (i # 0 => f[i - 1] = g[i - 1])
      BY <2>2, <3>1, Zenon
    <3> HIDE DEF f
    <3> QED
      BY <3>2, <3>3, Zenon
  <2> QED
    BY <2>1, <2>2, Zenon
<1> QED
  BY <1>3, <1>7, <1>8, Zenon

\* A traversal that starts in a set closed under queue_next stays in it.
LEMMA PathStays ==
  ASSUME NEW x, NEW G, x \in G \cup {NULL}, \A y \in G : next[y] \in G \cup {NULL}
  PROVE  Path(x) \subseteq G
<1> DEFINE Body(f) == [n \in 0 .. NPROC |->
             IF n = 0 THEN x ELSE IF f[n - 1] = NULL THEN NULL ELSE next[f[n - 1]]]
           st == CHOOSE f : f = Body(f)
<1>0. NPROC \in Nat
  BY SchedAssumption, Zenon
<1>1. Path(x) = {st[n] : n \in 0 .. NPROC} \ {NULL}
  BY Zenon DEF Path
<1>2. st = Body(st)
  <2>1. PICK f : f = [n \in 0 .. NPROC |-> f[n]] /\ Walks(f, NPROC, x)
    BY <1>0, WalkExists, Zenon
  <2>2. \A n \in 0 .. NPROC : f[n] = Body(f)[n]
    BY <2>1, Zenon DEF Walks
  <2>3. Body(f) = [n \in 0 .. NPROC |-> Body(f)[n]]
    BY Zenon
  <2>4. f = Body(f)
    <3> HIDE DEF Body
    <3> QED
      BY <2>1, <2>2, <2>3, Zenon
  <2> HIDE DEF Body
  <2> QED
    BY <2>4, Zenon
<1> HIDE DEF st
<1>3. \A n \in 0 .. NPROC : st[n] = IF n = 0 THEN x ELSE IF st[n - 1] = NULL THEN NULL ELSE next[st[n - 1]]
  BY <1>2, Zenon
<1> HIDE DEF Body
<1> DEFINE U == {n \in 0 .. NPROC : st[n] \notin G \cup {NULL}}
<1>4. U = {}
  <2> SUFFICES ASSUME U # {} PROVE FALSE
    BY Zenon
  <2>1. U \in SUBSET Nat
    BY <1>0
  <2> HIDE DEF U
  <2>2. PICK n \in U : \A k \in U : n <= k
    BY <2>1, NatMin, Zenon
  <2>3. n \in 0 .. NPROC /\ st[n] \notin G \cup {NULL}
    BY Zenon DEF U
  <2>4. n # 0 /\ n - 1 \in 0 .. NPROC
    BY <1>0, <1>3, <2>3
  <2>5. n - 1 \notin U
    BY <2>2, <2>3, <2>4
  <2>6. st[n - 1] \in G \cup {NULL}
    BY <2>4, <2>5, Zenon DEF U
  <2> QED
    BY <1>3, <2>3, <2>4, <2>6, Zenon
<1> QED
  BY <1>1, <1>4, Zenon

-----------------------------------------------------------------------------
(***************************************************************************)
(* Programs that do not wait                                               *)
(***************************************************************************)
\* A step of h leaves the registers and the process of every other hart alone.
LEMMA OthersKeep ==
  ASSUME NEW h \in Hart, ControlInv, RunTypes, HartStep(h)
  PROVE  \A k \in Hart \ {h} : cur'[k] = cur[k] /\ current'[k] = current[k]
<1> USE DEF RunTypes, Set, control, queues
<1>1. ASSUME NEW t \in Hart, Fork(h, t) PROVE \A k \in Hart \ {h} : cur'[k] = cur[k] /\ current'[k] = current[k]
  BY <1>1, Zenon DEF Fork, MayFork
<1>2. CASE InsertEmpty(h) \/ InsertPresent(h)
  BY <1>2, Zenon DEF InsertEmpty, InsertPresent, Return
<1>3. CASE InsertFinish(h)
  BY <1>3, Zenon DEF InsertFinish, Return
<1>4. CASE InsertWalk(h) \/ InsertLink(h)
  BY <1>4, Zenon DEF InsertWalk, InsertLink
<1>5. CASE ForkPanic(h) \/ ForkStatus(h) \/ ForkParent(h)
  BY <1>5, Zenon DEF ForkPanic, ForkStatus, ForkParent
<1>6. CASE Yield(h) \/ TimerTick(h) \/ TimerSwitch(h)
  BY <1>6, Zenon DEF Yield, TimerTick, TimerSwitch, GiveUp
<1>7. CASE WaitReap(h) \/ WaitAny(h) \/ WaitPid(h)
  BY <1>7, Zenon DEF WaitReap, WaitAny, WaitPid
<1>8. CASE WaitBlock(h) \/ WaitLink(h)
  BY <1>8, Zenon DEF WaitBlock, WaitLink
<1>9. CASE ExitScanMiss(h) \/ ExitScanHit(h) \/ ExitScanFault(h)
  BY <1>9, Zenon DEF ExitScanMiss, ExitScanHit, ExitScanFault
<1>10. CASE Exit(h) \/ ExitUnlink(h) \/ ExitZombie(h) \/ ExitHeap(h) \/ ExitWake(h) \/ ExitRelease(h)
  BY <1>10, Zenon DEF Exit, ExitUnlink, ExitZombie, ExitHeap, ExitWake, ExitRelease
<1>11. CASE SchedTask(h) \/ SchedEmpty(h) \/ ScanLive(h) \/ ScanDone(h) \/ ScanAllDone(h)
  BY <1>11, Zenon DEF SchedTask, SchedEmpty, ScanLive, ScanDone, ScanAllDone
<1>12. CASE IdleTask(h) \/ IdleRecheck(h) \/ IdleShutdown(h)
  BY <1>12, Zenon DEF IdleTask, IdleRecheck, IdleShutdown
<1>13. CASE ExitArrive(h) \/ PowerOff(h) \/ Spin(h)
  BY <1>13, Zenon DEF ExitArrive, PowerOff, Spin
<1>14. CASE Dequeue(h) \/ DequeueFails(h) \/ Switch(h)
  BY <1>14, Zenon DEF Dequeue, DequeueFails, Switch
<1> QED
  BY <1>1, <1>2, <1>3, <1>4, <1>5, <1>6, <1>7, <1>8, <1>9, <1>10, <1>11, <1>12, <1>13, <1>14, Zenon
     DEF HartStep, Syscall, Timer, Kernel

\* The other harts are where they were.
Stays(h) ==
  \A k \in Hart \ {h} :
    /\ pc'[k] = pc[k] /\ arg'[k] = arg[k] /\ dst'[k] = dst[k] /\ then'[k] = then[k]
    /\ cur'[k] = cur[k] /\ current'[k] = current[k]

\* MovingInv of one insertion.
Carried(home, h) ==
  /\ arg[h] \in Proc /\ home[arg[h]] = dst[h]
  /\ status[arg[h]] = IF pc[h] = "fork_status" THEN "FREE" ELSE "READY"
  /\ pc[h] \in {"fork_status", "fork_parent"} => reserved[arg[h]]
  /\ \A k \in Hart \ {h} : Moving(k) => arg[k] # arg[h]
  /\ pc[h] = "insert_link" =>
       /\ cur[h] \in Proc /\ home[cur[h]] = dst[h]
       /\ status[cur[h]] # "FREE" /\ next[cur[h]] = NULL

\* The insertions of the other harts, and what h has begun itself.  The homes of
\* processes are new; a slot that is free and not reserved has none yet.
LEMMA MovingKept ==
  ASSUME NEW home, NEW new, NEW h \in Hart, MovingInv(home), Moving(h)' => Carried(new, h)',
         \A q \in Proc : status[q] # "FREE" \/ reserved[q] => new[q] = home[q],
         \A k \in Hart \ {h} : Moving(k)' =>
           /\ Moving(k) /\ pc'[k] = pc[k] /\ arg'[k] = arg[k] /\ dst'[k] = dst[k] /\ cur'[k] = cur[k],
         \A k \in Hart \ {h} : Moving(k)' => status'[arg[k]] = status[arg[k]],
         \A k \in Hart \ {h} : Moving(k)' /\ reserved[arg[k]] => reserved'[arg[k]],
         \A q \in Proc : status[q] # "FREE" => status'[q] # "FREE",
         \A q \in Proc : next[q] = NULL => next'[q] = NULL
  PROVE  MovingInv(new)'
<1>1. ASSUME NEW k \in Hart \ {h}, Moving(k)' PROVE Carried(new, k)'
  <2>1. Carried(home, k)
    BY <1>1, Zenon DEF MovingInv, Carried
  <2>2. \A j \in Hart \ {k} : Moving(j)' => arg'[j] # arg'[k]
    <3>1. Moving(h)' => arg'[h] # arg'[k]
      BY <1>1, Zenon DEF Carried
    <3>2. ASSUME NEW j \in Hart \ {k, h}, Moving(j)' PROVE arg'[j] # arg'[k]
      BY <1>1, <2>1, <3>2, Zenon DEF Carried
    <3> QED
      BY <3>1, <3>2, Zenon
  <2>3. /\ new[arg[k]] = home[arg[k]]
        /\ pc[k] = "insert_link" => new[cur[k]] = home[cur[k]]
    BY <2>1, Zenon DEF Carried
  <2> QED
    BY <1>1, <2>1, <2>2, <2>3 DEF Carried
<1> QED
  <2>1. \A k \in Hart : Moving(k)' => Carried(new, k)'
    BY <1>1, Zenon
  <2> QED
    BY <2>1, Zenon DEF MovingInv, Carried

\* The heads of the queues, for a step of h that takes none.
LEMMA HeadKept ==
  ASSUME NEW home, NEW new, NEW h \in Hart, HeadInv(home), Stays(h),
         ~Taking(h)', ready' = ready, next' = next,
         \A p \in Proc : Linked(p) => Linked(p)' /\ new[p] = home[p],
         \A p \in Proc : Settled(p) => Settled(p)'
  PROVE  HeadInv(new)'
<1>1. \A k \in Hart : Taking(k)' => Taking(k)
  BY Zenon DEF Taking, Stays
<1>2. ASSUME NEW k \in Hart, pc'[k] = "switch"
      PROVE  pc[k] = "switch" /\ cur'[k] = cur[k] /\ current'[k] = current[k]
  BY <1>2, Zenon DEF Taking, Stays
<1> QED
  BY <1>1, <1>2, ZenonT(30) DEF HeadInv

\* What the harts in user mode rest on, for a step of h.
LEMMA ServingKept ==
  ASSUME NEW home, NEW h \in Hart, ServingInv(home), Stays(h),
         \A k \in Hart \ {h} : Serving(k) => status'[current[k]] = status[current[k]],
         Serving(h)' => /\ current'[h] \in Proc /\ status'[current'[h]] = "RUNNING"
                        /\ home[current'[h]] = h
  PROVE  ServingInv(home)'
<1>1. \A k \in Hart \ {h} : Serving(k)' => Serving(k) /\ current'[k] = current[k]
  BY Zenon DEF Stays, Serving
<1> QED
  BY <1>1 DEF ServingInv

\* A step of h that neither touches a queue nor begins or ends an insertion.
LEMMA QuietStep ==
  ASSUME NEW home, RunInv(home), NEW h \in Hart, Stays(h),
         UNCHANGED <<status, next, reserved, ready, block>>,
         ~Moving(h), ~Moving(h)',
         Serving(h)' => Serving(h) /\ current'[h] = current[h],
         Taking(h)' => ready[h] # NULL /\ Settled(ready[h]),
         pc'[h] = "switch" => current'[h] = ready[h] /\ cur'[h] = next[ready[h]],
         RunTypes', NoWaiter'
  PROVE  RunInv(home)'
<1>0. RunTypes /\ MovingInv(home) /\ ServingInv(home) /\ HeadInv(home) /\ LinkInv(home)
  BY Zenon DEF RunInv
<1>1. /\ \A k \in Hart : Moving(k)' => k # h
      /\ \A k \in Hart : Moving(k)' <=> Moving(k)
      /\ \A k \in Hart : Moving(k) => pc'[k] = pc[k] /\ arg'[k] = arg[k] /\ dst'[k] = dst[k] /\ cur'[k] = cur[k]
  BY Zenon DEF Stays, Moving
<1>2. \A p : Settled(p)' <=> Settled(p)
  BY <1>1, Zenon DEF Settled
<1>3. \A p : Linked(p)' <=> Linked(p)
  BY <1>1, Zenon DEF Linked
<1>4. MovingInv(home)'
  BY <1>0, <1>1, MovingKept, ZenonT(30)
<1>5. ServingInv(home)'
  <2>1. \A k \in Hart : Serving(k)' => Serving(k) /\ current'[k] = current[k]
    BY Zenon DEF Stays, Serving
  <2> QED
    BY <1>0, <2>1, Zenon DEF ServingInv
<1>6. HeadInv(home)'
  <2>1. \A k \in Hart : Taking(k)' => ready[k] # NULL /\ Settled(ready[k])
    BY <1>0, Zenon DEF Stays, Taking, HeadInv
  <2>2. \A k \in Hart : pc'[k] = "switch" => current'[k] = ready[k] /\ cur'[k] \in {NULL, next[ready[k]]}
    BY <1>0, Zenon DEF Stays, HeadInv
  <2> QED
    BY <1>0, <1>2, <1>3, <2>1, <2>2, Zenon DEF HeadInv
<1>7. LinkInv(home)'
  BY <1>0, <1>2, <1>3, Zenon DEF LinkInv
<1> QED
  BY <1>4, <1>5, <1>6, <1>7, Zenon DEF RunInv

LEMMA NullIsNoProcess == NULL \notin Proc
BY SchedAssumption DEF Proc

\* With the queue's lock free no process of the queue is at its end only.
LEMMA Unlocked ==
  ASSUME NEW home, LockedByOne, MovingInv(home), NEW d \in Hart, ~rlock[d],
         NEW p, Linked(p), home[p] = d
  PROVE  Settled(p)
BY DEF Linked, Settled, MovingInv, LockedByOne, InSection

\* The traversal of an unlocked queue meets processes that are READY, settled
\* and at home there.
LEMMA QueueWalk ==
  ASSUME NEW home, LockedByOne, RunTypes, MovingInv(home), HeadInv(home), LinkInv(home),
         NEW d \in Hart, ~rlock[d], NEW p \in Path(ready[d])
  PROVE  p \in Proc /\ Settled(p) /\ home[p] = d
<1> DEFINE G == {x \in Proc : Settled(x) /\ home[x] = d}
<1>2. ready[d] \in G \cup {NULL}
  <2>1. CASE ready[d] # NULL
    <3>1. ready[d] \in Proc /\ Linked(ready[d]) /\ home[ready[d]] = d
      BY <2>1, Zenon DEF HeadInv
    <3> QED
      BY <3>1, Unlocked, Zenon
  <2> QED
    BY <2>1, Zenon
<1>3. ASSUME NEW y \in G PROVE next[y] \in G \cup {NULL}
  <2>1. CASE next[y] # NULL
    <3>1. next[y] \in Proc /\ Linked(next[y]) /\ home[next[y]] = d
      BY <2>1, Zenon DEF LinkInv
    <3> QED
      BY <3>1, Unlocked, Zenon
  <2> QED
    BY <2>1, Zenon
<1>4. G \subseteq Proc
  BY Zenon
<1> HIDE DEF G
<1>5. Path(ready[d]) \subseteq G
  BY <1>2, <1>3, <1>4, PathStays, Zenon DEF RunTypes
<1> QED
  BY <1>5, Zenon DEF G

\* An insertion into an empty queue.
LEMMA InsertEmptyRun ==
  ASSUME NEW home \in [Proc -> Hart], NEW h \in Hart,
         ControlInv, LockedByOne, RunTypes, NoWaiter,
         MovingInv(home), ServingInv(home), HeadInv(home), LinkInv(home),
         Stays(h), InsertEmpty(h)
  PROVE  RunInv(home)'
<1> DEFINE a == arg[h]
           d == dst[h]
<1>1. /\ a \in Proc /\ d \in Hart /\ home[a] = d /\ status[a] = "READY" /\ ~Linked(a)
      /\ ready[d] = NULL /\ Moving(h) /\ pc[h] = "insert" /\ then[h] \in {"user", "sched"}
  BY DEF InsertEmpty, At, ControlInv, MovingInv, Moving, Inserting, WithQueue, WithArg, Linked
<1>2. /\ status' = status /\ next' = [next EXCEPT ![a] = NULL] /\ ready' = [ready EXCEPT ![d] = a]
      /\ pc'[h] = then[h] /\ arg'[h] = NULL /\ UNCHANGED <<reserved, block, current, machine>>
      /\ cur' \in [Hart -> Proc \cup {NULL}]
  BY <1>1 DEF InsertEmpty, MakeReady, Return, Goto, Set, RunTypes, ControlInv, power
<1> USE <1>1, <1>2
<1>3. RunTypes'
  BY Zenon DEF RunTypes
<1>4. NoWaiter'
  BY Zenon DEF NoWaiter, Stays
<1> HIDE DEF a, d
<1>n. /\ next'[a] = NULL /\ \A p \in Proc \ {a} : next'[p] = next[p]
      /\ ready'[d] = a /\ \A k \in Hart \ {d} : ready'[k] = ready[k]
  BY Zenon DEF RunTypes
<1>a. /\ ~Moving(h)'
      /\ \A k \in Hart \ {h} : Moving(k)' <=> Moving(k)
  BY Zenon DEF Moving, Stays, Inserting
<1>b. /\ \A p : Settled(p)' <=> Settled(p) \/ p = a
      /\ \A p : Linked(p)' <=> Linked(p) \/ p = a
  BY <1>a DEF Settled, Linked, Stays, MovingInv, a
<1>5. MovingInv(home)'
  BY <1>a, <1>n DEF MovingInv, Stays
<1>6. ServingInv(home)'
  BY DEF ServingInv, Serving, Stays, Inserting
<1>7. HeadInv(home)'
  BY <1>b, <1>n DEF HeadInv, Stays, Taking
<1>8. LinkInv(home)'
  BY <1>b, <1>n DEF LinkInv
<1> QED
  BY <1>3, <1>4, <1>5, <1>6, <1>7, <1>8, Zenon DEF RunInv

\* An insertion that takes the lock and walks to the end of the queue.
LEMMA InsertWalkRun ==
  ASSUME NEW home \in [Proc -> Hart], NEW h \in Hart,
         ControlInv, LockedByOne, RunTypes, NoWaiter,
         MovingInv(home), ServingInv(home), HeadInv(home), LinkInv(home),
         Stays(h), InsertWalk(h)
  PROVE  RunInv(home)'
<1> DEFINE d == dst[h]
<1>1. d \in Hart /\ ~rlock[d] /\ pc[h] = "insert"
  BY Zenon DEF InsertWalk, At, ControlInv, WithQueue, WithArg, Inserting
<1>2. /\ pc'[h] = "insert_link" /\ UNCHANGED <<status, next, reserved, ready, block, current, arg, dst, then, machine>>
      /\ \E p \in Path(ready[d]) : next[p] = NULL /\ cur' = [cur EXCEPT ![h] = p]
  BY Zenon DEF InsertWalk, Last, Goto, Set, RunTypes, ControlInv, power, procs
<1> USE <1>1, <1>2
<1> HIDE DEF d
<1>c. PICK p \in Path(ready[d]) : next[p] = NULL /\ cur' = [cur EXCEPT ![h] = p]
  BY Zenon
<1>d. p \in Proc /\ Settled(p) /\ home[p] = d
  BY QueueWalk
<1>3. RunTypes'
  BY <1>c, <1>d, Zenon DEF RunTypes
<1>4. NoWaiter'
  BY Zenon DEF NoWaiter, Stays
<1>a. \A k \in Hart : Moving(k)' <=> Moving(k)
  BY Zenon DEF Moving, Stays, Inserting
<1>b. /\ \A q : Settled(q)' <=> Settled(q)
      /\ \A q : Linked(q)' <=> Linked(q)
  BY <1>a, Zenon DEF Settled, Linked, Stays
<1>5. MovingInv(home)'
  <2>1. cur'[h] = p /\ status[p] = "READY"
    BY <1>c, <1>d, Zenon DEF RunTypes, Settled
  <2> QED
    BY <1>a, <1>c, <1>d, <2>1 DEF MovingInv, Stays, d
<1>6. ServingInv(home)'
  BY DEF ServingInv, Serving, Stays, Inserting
<1>7. HeadInv(home)'
  BY <1>b DEF HeadInv, Stays, Taking
<1>8. LinkInv(home)'
  BY <1>b, Zenon DEF LinkInv
<1> QED
  BY <1>3, <1>4, <1>5, <1>6, <1>7, <1>8, Zenon DEF RunInv

\* The old end of the queue is linked to the process.
LEMMA InsertLinkRun ==
  ASSUME NEW home \in [Proc -> Hart], NEW h \in Hart,
         ControlInv, LockedByOne, RunTypes, NoWaiter,
         MovingInv(home), ServingInv(home), HeadInv(home), LinkInv(home),
         Stays(h), InsertLink(h)
  PROVE  RunInv(home)'
<1> DEFINE a == arg[h]
           c == cur[h]
<1>1. /\ a \in Proc /\ dst[h] \in Hart /\ home[a] = dst[h] /\ status[a] = "READY" /\ ~Linked(a) /\ Moving(h)
      /\ c \in Proc /\ home[c] = dst[h] /\ next[c] = NULL /\ pc[h] = "insert_link"
  BY DEF InsertLink, At, ControlInv, MovingInv, Moving, Inserting, WithQueue, WithArg, Linked
<1>2. /\ next' = [next EXCEPT ![c] = a]
      /\ pc'[h] = "insert_finish" /\ UNCHANGED <<status, reserved, ready, block, current, arg, dst, cur, then, machine>>
  BY Zenon DEF InsertLink, Goto, Set, ControlInv, power, queues
<1> USE <1>1, <1>2
<1>3. RunTypes'
  BY Zenon DEF RunTypes
<1>4. NoWaiter'
  BY Zenon DEF NoWaiter, Stays
<1> HIDE DEF a, c
<1>n. next'[c] = a /\ \A p \in Proc \ {c} : next'[p] = next[p]
  BY Zenon DEF RunTypes
<1>a. \A k \in Hart : Moving(k)' <=> Moving(k)
  BY Zenon DEF Moving, Stays, Inserting
<1>b. /\ \A p : Settled(p)' <=> Settled(p)
      /\ \A p : Linked(p)' <=> Linked(p) \/ p = a
      /\ ~Settled(a)
  BY <1>a DEF Settled, Linked, Stays, MovingInv, a
<1>5. MovingInv(home)'
  <2>1. \A k \in Hart \ {h} : pc[k] = "insert_link" => dst[k] # dst[h]
    BY Zenon DEF LockedByOne, InSection
  <2>2. \A k \in Hart \ {h} : Moving(k) /\ pc[k] = "insert_link" => next'[cur[k]] = next[cur[k]]
    BY <1>n, <2>1 DEF MovingInv
  <2> QED
    BY <1>a, <2>2 DEF MovingInv, Stays
<1>6. ServingInv(home)'
  BY DEF ServingInv, Serving, Stays, Inserting
<1>7. HeadInv(home)'
  BY <1>b, <1>n DEF HeadInv, Stays, Taking
<1>8. LinkInv(home)'
  <2>1. \A p \in Proc : Settled(p) => next[p] # a
    BY NullIsNoProcess, Zenon DEF LinkInv
  <2>2. \A k \in Hart : ready[k] # a
    BY NullIsNoProcess, Zenon DEF HeadInv
  <2> QED
    BY <1>b, <1>n, <2>1, <2>2 DEF LinkInv
<1> QED
  BY <1>3, <1>4, <1>5, <1>6, <1>7, <1>8, Zenon DEF RunInv

\* The inserted process becomes the end of the queue.
LEMMA InsertFinishRun ==
  ASSUME NEW home \in [Proc -> Hart], NEW h \in Hart,
         ControlInv, LockedByOne, RunTypes, NoWaiter,
         MovingInv(home), ServingInv(home), HeadInv(home), LinkInv(home),
         Stays(h), InsertFinish(h)
  PROVE  RunInv(home)'
<1> DEFINE a == arg[h]
<1>1. /\ a \in Proc /\ home[a] = dst[h] /\ status[a] = "READY" /\ Moving(h)
      /\ pc[h] = "insert_finish" /\ then[h] \in {"user", "sched"}
  BY DEF InsertFinish, At, ControlInv, MovingInv, Moving, Inserting
<1>2. /\ status' = status /\ next' = [next EXCEPT ![a] = NULL]
      /\ pc'[h] = then[h] /\ arg'[h] = NULL /\ UNCHANGED <<reserved, ready, block, current, machine>>
      /\ cur' \in [Hart -> Proc \cup {NULL}]
  BY <1>1 DEF InsertFinish, MakeReady, Return, Goto, Set, RunTypes, ControlInv, power
<1> USE <1>1, <1>2
<1>3. RunTypes'
  BY Zenon DEF RunTypes
<1>4. NoWaiter'
  BY Zenon DEF NoWaiter, Stays
<1> HIDE DEF a
<1>n. next'[a] = NULL /\ \A p \in Proc \ {a} : next'[p] = next[p]
  BY Zenon DEF RunTypes
<1>a. /\ ~Moving(h)'
      /\ \A k \in Hart \ {h} : Moving(k)' <=> Moving(k)
  BY Zenon DEF Moving, Stays, Inserting
<1>b. /\ \A p : Settled(p)' <=> Settled(p) \/ p = a
      /\ \A p : Linked(p)' <=> Linked(p)
      /\ ~Settled(a)
  BY <1>a DEF Settled, Linked, Stays, MovingInv, a
<1>5. MovingInv(home)'
  <2>1. \A k \in Hart \ {h} : Moving(k)' =>
          Moving(k) /\ pc'[k] = pc[k] /\ arg'[k] = arg[k] /\ dst'[k] = dst[k] /\ cur'[k] = cur[k]
    BY <1>a, Zenon DEF Stays
  <2>2. \A q \in Proc : next[q] = NULL => next'[q] = NULL
    BY <1>n, Zenon
  <2> QED
    BY <1>a, <2>1, <2>2, MovingKept, ZenonT(30)
<1>6. ServingInv(home)'
  <2>1. Serving(h)' => current'[h] \in Proc /\ status'[current'[h]] = "RUNNING" /\ home[current'[h]] = h
    BY Zenon DEF ServingInv, Serving, Inserting
  <2> QED
    BY <2>1, ServingKept, Zenon
<1>7. HeadInv(home)'
  <2>1. \A k \in Hart : Taking(k)' => Taking(k)
    BY Zenon DEF Taking, Stays
  <2>2. ASSUME NEW k \in Hart, pc'[k] = "switch"
        PROVE  pc[k] = "switch" /\ cur'[k] = cur[k] /\ next'[ready[k]] = next[ready[k]]
    <3>1. k # h /\ pc[k] = "switch" /\ cur'[k] = cur[k]
      BY <2>2, Zenon DEF Stays
    <3>2. ready[k] \in Proc /\ Settled(ready[k])
      BY <3>1, Zenon DEF HeadInv, Taking
    <3> QED
      BY <1>b, <1>n, <3>1, <3>2, Zenon
  <2> QED
    BY <1>b, <2>1, <2>2 DEF HeadInv
<1>8. LinkInv(home)'
  BY <1>b, <1>n DEF LinkInv
<1> QED
  BY <1>3, <1>4, <1>5, <1>6, <1>7, <1>8, Zenon DEF RunInv

\* fork has reserved a slot: the child is at home on the hart it is forked to.
LEMMA ForkRun ==
  ASSUME NEW home \in [Proc -> Hart], NEW h \in Hart, NEW t \in Hart,
         ControlInv, LockedByOne, RunTypes, NoWaiter,
         MovingInv(home), ServingInv(home), HeadInv(home), LinkInv(home),
         Stays(h), Fork(h, t)
  PROVE  \E c \in Proc : RunInv([home EXCEPT ![c] = t])'
<1>1. PICK c \in Proc : Usable(c) /\ reserved' = [reserved EXCEPT ![c] = TRUE] /\ arg' = [arg EXCEPT ![h] = c]
  BY Zenon DEF Fork, Set
<1> DEFINE new == [home EXCEPT ![c] = t]
<1>2. /\ status[c] = "FREE" /\ ~reserved[c] /\ pc[h] = "user"
      /\ pc'[h] = "fork_status" /\ arg'[h] = c /\ dst'[h] = t
      /\ UNCHANGED <<status, next, ready, block, current, cur, machine>>
  BY <1>1, Zenon DEF Fork, MayFork, At, Usable, Goto, Set, ControlInv, power, procs, queues
<1> USE <1>1, <1>2
<1>n. new[c] = t /\ \A p \in Proc \ {c} : new[p] = home[p]
  BY Zenon
<1>m. reserved'[c] /\ \A p \in Proc \ {c} : reserved'[p] = reserved[p]
  BY Zenon DEF RunTypes
<1>3. RunTypes'
  BY Zenon DEF RunTypes
<1>4. NoWaiter'
  BY Zenon DEF NoWaiter, Stays
<1> HIDE DEF new
<1>a. \A k \in Hart \ {h} : Moving(k)' <=> Moving(k)
  BY Zenon DEF Moving, Stays
<1>b. /\ \A k \in Hart \ {h} : Moving(k) => arg[k] # c
      /\ Moving(h)' /\ ~Moving(h)
  BY Zenon DEF MovingInv, Moving, Inserting
<1>c. /\ \A p : Settled(p)' <=> Settled(p)
      /\ \A p : Linked(p)' <=> Linked(p)
      /\ ~Linked(c) /\ ~Settled(c)
  BY <1>a, <1>b DEF Settled, Linked, Stays
<1>5. MovingInv(new)'
  <2>1. \A k \in Hart \ {h} : Moving(k)' =>
          Moving(k) /\ pc'[k] = pc[k] /\ arg'[k] = arg[k] /\ dst'[k] = dst[k] /\ cur'[k] = cur[k]
    BY <1>a, Zenon DEF Stays
  <2>2. \A q \in Proc : status[q] # "FREE" \/ reserved[q] => new[q] = home[q]
    BY <1>n, Zenon
  <2>3. \A k \in Hart \ {h} : Moving(k)' /\ reserved[arg[k]] => reserved'[arg[k]]
    <3>1. \A k \in Hart \ {h} : Moving(k)' => arg[k] \in Proc \ {c}
      BY <1>b, <2>1, Zenon DEF MovingInv
    <3> QED
      BY <1>m, <3>1, Zenon
  <2>4. Carried(new, h)'
    BY <1>a, <1>b, <1>n, <1>m, <2>1, Zenon DEF Carried
  <2> QED
    BY <2>1, <2>2, <2>3, <2>4, MovingKept, Zenon
<1>6. ServingInv(new)'
  <2>1. \A k \in Hart : Serving(k)' => Serving(k)
    BY Zenon DEF Serving, Stays
  <2> QED
    BY <1>n, <2>1, Zenon DEF ServingInv
<1>7. HeadInv(new)'
  <2>1. ~Taking(h)'
    BY Zenon DEF Taking
  <2>2. \A p \in Proc : Linked(p) => Linked(p)' /\ new[p] = home[p]
    BY <1>c, <1>n, ZenonT(30)
  <2> QED
    BY <1>c, <2>1, <2>2, HeadKept, Zenon
<1>8. LinkInv(new)'
  BY <1>c, <1>n, Zenon DEF LinkInv
<1> QED
  BY <1>3, <1>4, <1>5, <1>6, <1>7, <1>8, Zenon DEF RunInv, new

\* The child becomes READY, and is still out of every queue.
LEMMA ForkStatusRun ==
  ASSUME NEW home \in [Proc -> Hart], NEW h \in Hart,
         ControlInv, LockedByOne, RunTypes, NoWaiter,
         MovingInv(home), ServingInv(home), HeadInv(home), LinkInv(home),
         Stays(h), ForkStatus(h)
  PROVE  RunInv(home)'
<1> DEFINE a == arg[h]
<1>1. /\ a \in Proc /\ home[a] = dst[h] /\ status[a] = "FREE" /\ reserved[a] /\ Moving(h) /\ pc[h] = "fork_status"
  BY Zenon DEF ForkStatus, At, MovingInv, Moving
<1>2. /\ status' = [status EXCEPT ![a] = "READY"] /\ pc'[h] = "fork_parent"
      /\ UNCHANGED <<next, reserved, ready, block, current, arg, dst, cur, then, machine>>
  BY Zenon DEF ForkStatus, Goto, Set, ControlInv, power, queues
<1>3. RunTypes'
  BY <1>1, <1>2, Zenon DEF RunTypes, Statuses
<1>4. NoWaiter'
  BY <1>1, <1>2, Zenon DEF NoWaiter, Stays
<1>n. status'[a] = "READY" /\ \A p \in Proc \ {a} : status'[p] = status[p]
  BY <1>1, <1>2, Zenon DEF RunTypes
<1>u. pc'[h] = "fork_parent" /\ UNCHANGED <<next, reserved, ready, current, arg, dst, cur>>
  BY <1>2, Zenon
<1> USE <1>1, <1>u
<1> HIDE DEF a
<1>a. Moving(h)' /\ \A k \in Hart : Moving(k)' <=> Moving(k)
  BY Zenon DEF Moving, Stays
<1>b. /\ \A p \in Proc : Settled(p)' <=> Settled(p)
      /\ \A p \in Proc : Linked(p)' <=> Linked(p)
  BY <1>a, <1>n DEF Settled, Linked, Stays, a
<1>5. MovingInv(home)'
  <2>1. \A k \in Hart \ {h} : Moving(k)' =>
          Moving(k) /\ pc'[k] = pc[k] /\ arg'[k] = arg[k] /\ dst'[k] = dst[k] /\ cur'[k] = cur[k]
    BY <1>a, Zenon DEF Stays
  <2>2. \A k \in Hart \ {h} : Moving(k) => arg[k] \in Proc /\ arg[k] # a
    BY Zenon DEF MovingInv, a
  <2>3. Carried(home, h)'
    BY <1>n, <2>1, <2>2, Zenon DEF Carried, a
  <2>4. \A k \in Hart \ {h} : Moving(k)' => status'[arg[k]] = status[arg[k]]
    BY <1>n, <2>1, <2>2, Zenon
  <2>5. \A q \in Proc : status[q] # "FREE" => status'[q] # "FREE"
    BY <1>n, Zenon
  <2> QED
    BY <2>1, <2>3, <2>4, <2>5, MovingKept, ZenonT(30)
<1>6. ServingInv(home)'
  <2>1. Serving(h)' => current'[h] \in Proc /\ status'[current'[h]] = "RUNNING" /\ home[current'[h]] = h
    BY <1>n, Zenon DEF ServingInv, Serving
  <2>2. \A k \in Hart \ {h} : Serving(k) => status'[current[k]] = status[current[k]]
    BY <1>n, Zenon DEF ServingInv
  <2> QED
    BY <2>1, <2>2, ServingKept, Zenon
<1>7. HeadInv(home)'
  <2>1. ~Taking(h)'
    BY ZenonT(30) DEF Taking
  <2> QED
    BY <1>b, <2>1, HeadKept, Zenon
<1>8. LinkInv(home)'
  BY <1>b, Zenon DEF LinkInv
<1> QED
  BY <1>3, <1>4, <1>5, <1>6, <1>7, <1>8, Zenon DEF RunInv

\* The reservation of the slot ends.
LEMMA ForkParentRun ==
  ASSUME NEW home \in [Proc -> Hart], NEW h \in Hart,
         ControlInv, LockedByOne, RunTypes, NoWaiter,
         MovingInv(home), ServingInv(home), HeadInv(home), LinkInv(home),
         Stays(h), ForkParent(h)
  PROVE  RunInv(home)'
<1> DEFINE a == arg[h]
<1>1. a \in Proc /\ Moving(h) /\ pc[h] = "fork_parent"
  BY Zenon DEF ForkParent, At, MovingInv, Moving
<1>2. /\ reserved' = [reserved EXCEPT ![a] = FALSE] /\ pc'[h] = "insert" /\ then'[h] = "user"
      /\ UNCHANGED <<status, next, ready, block, current, arg, dst, cur, machine>>
  BY Zenon DEF ForkParent, Goto, Set, ControlInv, power, queues
<1>3. RunTypes'
  BY <1>1, <1>2, Zenon DEF RunTypes
<1>4. NoWaiter'
  BY <1>1, <1>2, Zenon DEF NoWaiter, Stays
<1>n. \A p \in Proc \ {a} : reserved'[p] = reserved[p]
  BY <1>1, <1>2, Zenon DEF RunTypes
<1>u. pc'[h] = "insert" /\ then'[h] = "user" /\ UNCHANGED <<status, next, ready, current, arg, dst, cur>>
  BY <1>2, Zenon
<1> USE <1>1, <1>u
<1> HIDE DEF a
<1>a. \A k \in Hart : Moving(k)' <=> Moving(k)
  BY Zenon DEF Moving, Stays, Inserting
<1>b. /\ \A p : Settled(p)' <=> Settled(p)
      /\ \A p : Linked(p)' <=> Linked(p)
  BY <1>a, Zenon DEF Settled, Linked, Stays
<1>5. MovingInv(home)'
  BY <1>a, <1>n DEF MovingInv, Stays, a
<1>6. ServingInv(home)'
  BY Zenon DEF ServingInv, Serving, Stays
<1>7. HeadInv(home)'
  BY <1>b, Zenon DEF HeadInv, Stays, Taking
<1>8. LinkInv(home)'
  BY <1>b, Zenon DEF LinkInv
<1> QED
  BY <1>3, <1>4, <1>5, <1>6, <1>7, <1>8, Zenon DEF RunInv

\* The current process leaves the hart for the rear of its queue.
LEMMA GiveUpRun ==
  ASSUME NEW home \in [Proc -> Hart], NEW h \in Hart,
         ControlInv, LockedByOne, RunTypes, NoWaiter,
         MovingInv(home), ServingInv(home), HeadInv(home), LinkInv(home),
         Stays(h),
         At(h, "user"), GiveUp(h)
  PROVE  RunInv(home)'
<1> DEFINE p == current[h]
<1>1. p \in Proc /\ status[p] = "RUNNING" /\ home[p] = h
  BY Zenon DEF At, ServingInv, Serving
<1>2. /\ status' = [status EXCEPT ![p] = "READY"] /\ reserved' = [reserved EXCEPT ![p] = FALSE]
      /\ pc'[h] = "insert" /\ arg'[h] = p /\ dst'[h] = h /\ then'[h] = "sched"
      /\ UNCHANGED <<next, ready, block, current, cur, machine>>
  BY Zenon DEF GiveUp, Goto, Set, ControlInv, power, queues
<1>3. RunTypes'
  BY <1>1, <1>2, Zenon DEF RunTypes, Statuses
<1>4. NoWaiter'
  BY <1>1, <1>2, Zenon DEF NoWaiter, Stays
<1>n. /\ status'[p] = "READY" /\ \A q \in Proc \ {p} : status'[q] = status[q]
      /\ \A q \in Proc \ {p} : reserved'[q] = reserved[q]
  BY <1>1, <1>2, Zenon DEF RunTypes
<1>o. pc[h] = "user"
  BY Zenon DEF At
<1>u. /\ pc'[h] = "insert" /\ arg'[h] = p /\ dst'[h] = h /\ then'[h] = "sched"
      /\ UNCHANGED <<next, ready, current, cur>>
  BY <1>2, Zenon
<1> USE <1>1, <1>u
<1> HIDE DEF p
<1>a. Moving(h)' /\ ~Moving(h) /\ \A k \in Hart \ {h} : Moving(k)' <=> Moving(k)
  BY <1>o, Zenon DEF Moving, Stays, Inserting
<1>b. /\ \A q \in Proc : Settled(q)' <=> Settled(q)
      /\ \A q \in Proc : Linked(q)' <=> Linked(q)
  BY <1>a, <1>n DEF Settled, Linked, Stays
<1>c. \A k \in Hart \ {h} : Moving(k) => arg[k] # p
  BY Zenon DEF MovingInv
<1>5. MovingInv(home)'
  <2>1. \A k \in Hart \ {h} : Moving(k)' =>
          Moving(k) /\ pc'[k] = pc[k] /\ arg'[k] = arg[k] /\ dst'[k] = dst[k] /\ cur'[k] = cur[k]
    BY <1>a, Zenon DEF Stays
  <2>2. Carried(home, h)'
    BY <1>a, <1>c, <1>n, <2>1, Zenon DEF Carried
  <2>3. \A k \in Hart \ {h} : Moving(k)' => status'[arg[k]] = status[arg[k]]
    BY <1>c, <1>n, <2>1, Zenon DEF MovingInv
  <2>4. \A k \in Hart \ {h} : Moving(k)' /\ reserved[arg[k]] => reserved'[arg[k]]
    BY <1>c, <1>n, <2>1, Zenon DEF MovingInv
  <2>5. \A q \in Proc : status[q] # "FREE" => status'[q] # "FREE"
    BY <1>n, Zenon
  <2> QED
    BY <2>1, <2>2, <2>3, <2>4, <2>5, MovingKept, ZenonT(30)
<1>6. ServingInv(home)'
  <2>1. ~Serving(h)'
    BY Zenon DEF Serving
  <2>2. \A k \in Hart \ {h} : Serving(k) => status'[current[k]] = status[current[k]]
    BY <1>n, Zenon DEF ServingInv
  <2> QED
    BY <2>1, <2>2, ServingKept, Zenon
<1>7. HeadInv(home)'
  <2>1. ~Taking(h)'
    BY Zenon DEF Taking
  <2> QED
    BY <1>b, <2>1, HeadKept, Zenon
<1>8. LinkInv(home)'
  BY <1>b, Zenon DEF LinkInv
<1> QED
  BY <1>3, <1>4, <1>5, <1>6, <1>7, <1>8, Zenon DEF RunInv

\* The current process ends.
LEMMA ExitZombieRun ==
  ASSUME NEW home \in [Proc -> Hart], NEW h \in Hart,
         ControlInv, LockedByOne, RunTypes, NoWaiter,
         MovingInv(home), ServingInv(home), HeadInv(home), LinkInv(home),
         Stays(h), ExitZombie(h)
  PROVE  RunInv(home)'
<1> DEFINE p == current[h]
<1>1. p \in Proc /\ status[p] = "RUNNING" /\ home[p] = h /\ pc[h] = "exit_zombie" /\ arg[h] = NULL
  BY Zenon DEF ExitZombie, At, ServingInv, Serving, NoWaiter
<1>2. /\ status' = [status EXCEPT ![p] = "ZOMBIE"] /\ pc'[h] = "exit_heap"
      /\ UNCHANGED <<next, reserved, ready, block, current, arg, dst, cur, then, machine>>
  BY Zenon DEF ExitZombie, Goto, Set, ControlInv, power, queues
<1>3. RunTypes'
  BY <1>1, <1>2, Zenon DEF RunTypes, Statuses
<1>4. NoWaiter'
  BY <1>1, <1>2, Zenon DEF NoWaiter, Stays
<1>n. status'[p] = "ZOMBIE" /\ \A q \in Proc \ {p} : status'[q] = status[q]
  BY <1>1, <1>2, Zenon DEF RunTypes
<1>u. pc'[h] = "exit_heap" /\ UNCHANGED <<next, reserved, ready, current, arg, dst, cur>>
  BY <1>2, Zenon
<1> USE <1>1, <1>u
<1> HIDE DEF p
<1>a. ~Moving(h) /\ \A k \in Hart : Moving(k)' <=> Moving(k)
  BY Zenon DEF Moving, Stays, Inserting
<1>b. /\ \A q \in Proc : Settled(q)' <=> Settled(q)
      /\ \A q \in Proc : Linked(q)' <=> Linked(q)
  BY <1>a, <1>n, Zenon DEF Settled, Linked, Stays
<1>5. MovingInv(home)'
  <2>1. \A k \in Hart \ {h} : Moving(k)' =>
          Moving(k) /\ pc'[k] = pc[k] /\ arg'[k] = arg[k] /\ dst'[k] = dst[k] /\ cur'[k] = cur[k]
    BY <1>a, Zenon DEF Stays
  <2>2. \A k \in Hart \ {h} : Moving(k)' => status'[arg[k]] = status[arg[k]]
    BY <1>n, <2>1, Zenon DEF MovingInv
  <2>3. \A q \in Proc : status[q] # "FREE" => status'[q] # "FREE"
    BY <1>n, Zenon
  <2> QED
    BY <1>a, <2>1, <2>2, <2>3, MovingKept, ZenonT(30)
<1>6. ServingInv(home)'
  <2>1. ~Serving(h)'
    BY Zenon DEF Serving, Inserting
  <2>2. \A k \in Hart \ {h} : Serving(k) => status'[current[k]] = status[current[k]]
    BY <1>n, Zenon DEF ServingInv
  <2> QED
    BY <2>1, <2>2, ServingKept, Zenon
<1>7. HeadInv(home)'
  <2>1. ~Taking(h)'
    BY ZenonT(30) DEF Taking
  <2> QED
    BY <1>b, <2>1, HeadKept, Zenon
<1>8. LinkInv(home)'
  BY <1>b, Zenon DEF LinkInv
<1> QED
  BY <1>3, <1>4, <1>5, <1>6, <1>7, <1>8, Zenon DEF RunInv

\* The head of the queue is removed and runs.
LEMMA SwitchRun ==
  ASSUME NEW home \in [Proc -> Hart], NEW h \in Hart,
         ControlInv, LockedByOne, RunTypes, NoWaiter,
         MovingInv(home), ServingInv(home), HeadInv(home), LinkInv(home),
         Stays(h), Switch(h)
  PROVE  RunInv(home)'
<1> DEFINE p == current[h]
           c == cur[h]
<1>1. /\ p \in Proc /\ p = ready[h] /\ Settled(p) /\ status[p] = "READY" /\ home[p] = h
      /\ c \in {NULL, next[p]} /\ pc[h] = "switch"
  BY DEF Switch, At, HeadInv, Taking, Settled
<1>2. /\ status' = [status EXCEPT ![p] = "RUNNING"] /\ pc'[h] = "user" /\ ready' = [ready EXCEPT ![h] = c]
      /\ UNCHANGED <<next, reserved, block, current, arg, dst, then, machine>>
      /\ cur' = [cur EXCEPT ![h] = NULL]
  BY Zenon DEF Switch, Goto, Set, ControlInv, power
<1>3. RunTypes'
  BY <1>1, <1>2, Zenon DEF RunTypes, Statuses
<1>4. NoWaiter'
  BY <1>1, <1>2, Zenon DEF NoWaiter, Stays
<1>n. /\ status'[p] = "RUNNING" /\ \A q \in Proc \ {p} : status'[q] = status[q]
      /\ ready'[h] = c /\ \A k \in Hart \ {h} : ready'[k] = ready[k]
  BY <1>1, <1>2, Zenon DEF RunTypes
<1>u. pc'[h] = "user" /\ UNCHANGED <<next, reserved, current, arg, dst>>
  BY <1>2, Zenon
<1> USE <1>1, <1>u
<1> HIDE DEF p, c
<1>a. ~Moving(h) /\ \A k \in Hart : Moving(k)' <=> Moving(k)
  BY Zenon DEF Moving, Stays, Inserting
<1>b. /\ \A q \in Proc : Settled(q)' <=> Settled(q) /\ q # p
      /\ \A q \in Proc : Linked(q)' <=> Linked(q) /\ q # p
  BY <1>a, <1>n DEF Settled, Linked, Stays
<1>c. c # NULL => /\ c \in Proc /\ Linked(c) /\ home[c] = h /\ c # p
                  /\ \A q \in Proc \ {p} : Settled(q) => next[q] # c
  <2> SUFFICES ASSUME c # NULL
               PROVE  /\ c \in Proc /\ Linked(c) /\ home[c] = h /\ c # p
                      /\ \A q \in Proc \ {p} : Settled(q) => next[q] # c
    BY Zenon
  <2>1. c = next[p]
    BY Zenon
  <2> QED
    BY <2>1, Zenon DEF LinkInv
<1>5. MovingInv(home)'
  <2>1. \A k \in Hart \ {h} : Moving(k)' =>
          Moving(k) /\ pc'[k] = pc[k] /\ arg'[k] = arg[k] /\ dst'[k] = dst[k] /\ cur'[k] = cur[k]
    BY <1>a, Zenon DEF Stays
  <2>2. \A k \in Hart \ {h} : Moving(k)' => status'[arg[k]] = status[arg[k]]
    BY <1>n, <2>1, Zenon DEF MovingInv, Settled
  <2>3. \A q \in Proc : status[q] # "FREE" => status'[q] # "FREE"
    BY <1>n, Zenon
  <2> QED
    BY <1>a, <2>1, <2>2, <2>3, MovingKept, ZenonT(30)
<1>6. ServingInv(home)'
  <2>1. current'[h] \in Proc /\ status'[current'[h]] = "RUNNING" /\ home[current'[h]] = h
    BY <1>n, Zenon DEF p
  <2>2. \A k \in Hart \ {h} : Serving(k) => status'[current[k]] = status[current[k]]
    BY <1>n, Zenon DEF ServingInv
  <2> QED
    BY <2>1, <2>2, ServingKept, Zenon
<1>7. HeadInv(home)'
  <2>1. ASSUME NEW k \in Hart \ {h}, ready[k] # NULL
        PROVE  ready[k] \in Proc /\ ready[k] # p /\ Linked(ready[k]) /\ home[ready[k]] = k
    BY <2>1, Zenon DEF HeadInv
  <2>2. ASSUME NEW k \in Hart, NEW r, r = ready'[k], r # NULL
        PROVE  r \in Proc /\ Linked(r)' /\ home[r] = k
    <3>1. CASE k = h
      BY <1>b, <1>c, <1>n, <2>2, <3>1, Zenon
    <3>2. CASE k # h
      BY <1>b, <1>n, <2>1, <2>2, <3>2, Zenon
    <3> QED
      BY <3>1, <3>2, Zenon
  <2>3. ASSUME NEW k \in Hart, NEW r, r = ready'[k], Taking(k)'
        PROVE  r # NULL /\ Settled(r)'
    <3>1. k # h /\ Taking(k) /\ r = ready[k]
      BY <1>n, <2>3, Zenon DEF Taking, Stays
    <3>2. r # NULL /\ Settled(r)
      BY <3>1, Zenon DEF HeadInv
    <3> QED
      BY <1>b, <2>1, <3>1, <3>2, Zenon
  <2>4. ASSUME NEW k \in Hart, pc'[k] = "switch"
        PROVE  current'[k] = ready'[k] /\ cur'[k] \in {NULL, next'[ready'[k]]}
    <3>1. k # h /\ pc[k] = "switch" /\ cur'[k] = cur[k] /\ ready'[k] = ready[k]
      BY <1>n, <2>4, Zenon DEF Stays
    <3> QED
      BY <3>1, Zenon DEF HeadInv
  <2> QED
    <3>1. ASSUME NEW k \in Hart, ready'[k] # NULL
          PROVE  ready'[k] \in Proc /\ Linked(ready[k])' /\ home[ready'[k]] = k
      BY <2>2, <3>1, Zenon
    <3>2. ASSUME NEW k \in Hart, Taking(k)'
          PROVE  ready'[k] # NULL /\ Settled(ready[k])'
      BY <2>3, <3>2, ZenonT(30)
    <3> QED
      BY <2>4, <3>1, <3>2, Zenon DEF HeadInv
<1>8. LinkInv(home)'
  BY <1>b, <1>c, <1>n DEF LinkInv
<1> QED
  BY <1>3, <1>4, <1>5, <1>6, <1>7, <1>8, Zenon DEF RunInv

\* The steps that move no process and take none from a queue.
Calm == AtBarrier \cup {"user", "exit_scan", "exit_zombie", "exit_heap", "sched", "scan", "idle",
                        "arrive_decided", "arrive_idle"}

LEMMA CalmRun ==
  ASSUME NEW home \in [Proc -> Hart], NEW h \in Hart, SchedInv, RunInv(home), Stays(h),
         \/ TimerTick(h) \/ ForkPanic(h) \/ Exit(h) \/ ExitScanMiss(h) \/ ExitHeap(h)
         \/ SchedEmpty(h) \/ ScanLive(h) \/ ScanDone(h) \/ ScanAllDone(h) \/ IdleShutdown(h)
         \/ ExitArrive(h) \/ PowerOff(h) \/ Spin(h)
  PROVE  RunInv(home)'
<1>0. ControlInv /\ RunTypes /\ NoWaiter
  BY Zenon DEF RunInv, SchedInv
<1>1. /\ UNCHANGED <<status, next, reserved, ready, block, current, cur, arg>>
      /\ machine' \in {machine, "off", "panic"}
  BY Zenon DEF TimerTick, ForkPanic, Exit, ExitScanMiss, ExitHeap, SchedEmpty, ScanLive, ScanDone, ScanAllDone,
         IdleShutdown, ExitArrive, PowerOff, Spin, procs, queues, control, power
<1>2. /\ pc[h] \in Calm \cup {"idle_recheck"} /\ pc'[h] \in Calm
      /\ pc'[h] \in {"user", "exit_scan", "exit_zombie"} => pc[h] \in {"user", "exit_scan", "exit_zombie"}
      /\ pc'[h] \in {"exit_zombie", "exit_heap"} => arg[h] = NULL
  <2> USE DEF At, Goto, ControlInv, Calm, AtBarrier
  <2>1. CASE TimerTick(h) \/ ForkPanic(h)
    BY <1>0, <2>1, Zenon DEF TimerTick, ForkPanic, MayFork, control
  <2>2. CASE Exit(h) \/ ExitScanMiss(h)
    BY <1>0, <2>2, Zenon DEF Exit, ExitScanMiss, WithArg, Inserting
  <2>3. CASE ExitHeap(h)
    BY <1>0, <2>3, Zenon DEF ExitHeap, NoWaiter
  <2>4. CASE SchedEmpty(h) \/ ScanLive(h) \/ ScanDone(h) \/ ScanAllDone(h)
    BY <1>0, <2>4, Zenon DEF SchedEmpty, ScanLive, ScanDone, ScanAllDone
  <2>5. CASE IdleShutdown(h) \/ ExitArrive(h) \/ Spin(h)
    BY <1>0, <2>5, Zenon DEF IdleShutdown, ExitArrive, Spin
  <2>6. CASE PowerOff(h)
    BY <1>0, <2>6, Zenon DEF PowerOff, control
  <2> QED
    BY <2>1, <2>2, <2>3, <2>4, <2>5, <2>6, Zenon
<1>3. ~Moving(h) /\ ~Moving(h)' /\ ~Taking(h)' /\ (Serving(h)' => Serving(h)) /\ pc'[h] # "switch"
  BY <1>2, Zenon DEF Calm, AtBarrier, Moving, Taking, Serving, Inserting
<1>4. RunTypes'
  BY <1>0, <1>1, Zenon DEF RunTypes
<1>5. NoWaiter'
  BY <1>0, <1>1, <1>2, Zenon DEF NoWaiter, Stays, Calm, AtBarrier
<1> QED
  BY <1>1, <1>3, <1>4, <1>5, QuietStep, Zenon

\* schedule() has found the queue unlocked and not empty, and reads its head.
LEMMA TakeRun ==
  ASSUME NEW home \in [Proc -> Hart], NEW h \in Hart, SchedInv, RunInv(home), Stays(h),
         SchedTask(h) \/ IdleTask(h) \/ IdleRecheck(h) \/ Dequeue(h)
  PROVE  RunInv(home)'
<1>0. ControlInv /\ LockedByOne /\ RunTypes /\ NoWaiter /\ MovingInv(home) /\ HeadInv(home)
  BY Zenon DEF RunInv, SchedInv
<1>1. /\ UNCHANGED <<status, next, reserved, ready, block, arg, machine>>
      /\ current' \in [Hart -> Proc \cup {NULL}] /\ cur' \in [Hart -> Proc \cup {NULL}]
  <2>1. CASE SchedTask(h) \/ IdleTask(h) \/ IdleRecheck(h)
    BY <1>0, <2>1, Zenon DEF SchedTask, IdleTask, IdleRecheck, procs, queues, power, RunTypes
  <2>2. CASE Dequeue(h)
    <3>1. ready[h] \in Proc /\ next[ready[h]] \in Proc \cup {NULL}
      BY <1>0, <2>2, Zenon DEF Dequeue, RunTypes
    <3> QED
      BY <1>0, <2>2, <3>1, Zenon DEF Dequeue, Set, procs, power, RunTypes
  <2> QED
    BY <2>1, <2>2, Zenon
<1>2. pc[h] \in {"sched", "idle", "idle_recheck", "dequeue"} /\ pc'[h] \in {"idle_recheck", "dequeue", "switch"}
  BY <1>0, Zenon DEF SchedTask, IdleTask, IdleRecheck, Dequeue, At, Goto, ControlInv
<1>3. ready[h] # NULL /\ Settled(ready[h])
  <2>1. CASE SchedTask(h) \/ IdleTask(h)
    <3>1. ready[h] # NULL /\ ~rlock[h]
      BY <2>1, Zenon DEF SchedTask, IdleTask
    <3> QED
      BY <1>0, <3>1, Unlocked DEF HeadInv
  <2>2. CASE IdleRecheck(h) \/ Dequeue(h)
    BY <1>0, <2>2, Zenon DEF IdleRecheck, Dequeue, At, HeadInv, Taking
  <2> QED
    BY <2>1, <2>2, ZenonT(30)
<1>4. pc'[h] = "switch" => current'[h] = ready[h] /\ cur'[h] = next[ready[h]]
  BY <1>0, Zenon DEF SchedTask, IdleTask, IdleRecheck, Dequeue, Goto, Set, ControlInv, RunTypes
<1>5. ~Moving(h) /\ ~Moving(h)' /\ ~Serving(h)'
  BY <1>2, Zenon DEF Moving, Serving, Inserting
<1>6. RunTypes'
  BY <1>0, <1>1, Zenon DEF RunTypes
<1>7. NoWaiter'
  BY <1>0, <1>1, <1>2, Zenon DEF NoWaiter, Stays
<1> QED
  BY <1>1, <1>3, <1>4, <1>5, <1>6, <1>7, QuietStep, Zenon

\* What does not happen: a wait, the wake-up of a waiting process, the
\* insertion of a process that is in the queue, a head that is not READY.
LEMMA NeverHappens ==
  ASSUME Waitless, NEW home \in [Proc -> Hart], NEW h \in Hart, SchedInv, RunInv(home)
  PROVE  /\ ~WaitReap(h) /\ ~WaitAny(h) /\ ~WaitPid(h) /\ ~WaitBlock(h) /\ ~WaitLink(h)
         /\ ~ExitScanHit(h) /\ ~ExitScanFault(h) /\ ~ExitUnlink(h) /\ ~ExitWake(h) /\ ~ExitRelease(h)
         /\ ~InsertPresent(h) /\ ~DequeueFails(h)
<1>0. ControlInv /\ LockedByOne /\ RunTypes /\ NoWaiter /\ MovingInv(home) /\ HeadInv(home) /\ LinkInv(home)
  BY Zenon DEF RunInv, SchedInv
<1>1. ~WaitReap(h) /\ ~WaitAny(h) /\ ~WaitPid(h)
  BY Zenon DEF Waitless, WaitReap, WaitAny, WaitPid
<1>2. ~WaitBlock(h) /\ ~WaitLink(h) /\ ~ExitUnlink(h) /\ ~ExitWake(h) /\ ~ExitRelease(h)
  BY <1>0, Zenon DEF WaitBlock, WaitLink, ExitUnlink, ExitWake, ExitRelease, At, NoWaiter
<1>3. ~ExitScanHit(h) /\ ~ExitScanFault(h)
  BY <1>0, Zenon DEF ExitScanHit, ExitScanFault, At, NoWaiter, ControlInv
<1>4. ~InsertPresent(h)
  <2> SUFFICES ASSUME InsertPresent(h) PROVE FALSE
    BY Zenon
  <2>1. pc[h] = "insert" /\ dst[h] \in Hart /\ ~rlock[dst[h]] /\ arg[h] \in Path(ready[dst[h]])
    BY <1>0, Zenon DEF InsertPresent, At, ControlInv, WithQueue, WithArg, Inserting
  <2>2. Settled(arg[h])
    BY <1>0, <2>1, QueueWalk, Zenon
  <2> QED
    BY <2>1, <2>2, Zenon DEF Settled, Moving, Inserting
<1>5. ~DequeueFails(h)
  BY <1>0, Zenon DEF DequeueFails, At, HeadInv, Taking, Settled
<1> QED
  BY <1>1, <1>2, <1>3, <1>4, <1>5, Zenon

\* The invariant is inductive.
LEMMA RunStep ==
  ASSUME Waitless, SchedInv, EachHasHome, [Next]_vars
  PROVE  EachHasHome'
<1>1. PICK home \in [Proc -> Hart] : RunInv(home)
  BY Zenon DEF EachHasHome
<1>2. CASE UNCHANGED vars
  <2>0. RunTypes /\ NoWaiter /\ MovingInv(home) /\ ServingInv(home) /\ HeadInv(home) /\ LinkInv(home)
    BY <1>1, Zenon DEF RunInv
  <2>1. /\ status' = status /\ next' = next /\ reserved' = reserved /\ ready' = ready /\ block' = block
        /\ current' = current /\ cur' = cur
        /\ pc' = pc /\ arg' = arg /\ dst' = dst /\ then' = then /\ machine' = machine
    BY <1>2 DEF vars, procs, queues, control, power
  <2>2. /\ \A k : (Moving(k)' <=> Moving(k)) /\ (Serving(k)' <=> Serving(k)) /\ (Taking(k)' <=> Taking(k))
        /\ \A p : (Settled(p)' <=> Settled(p)) /\ (Linked(p)' <=> Linked(p))
    BY <2>1, Zenon DEF Moving, Serving, Taking, Settled, Linked
  <2>3. RunTypes' /\ NoWaiter'
    BY <2>0, <2>1, Zenon DEF RunTypes, NoWaiter
  <2>4. MovingInv(home)'
    BY <2>0, <2>1, <2>2, Zenon DEF MovingInv
  <2>5. ServingInv(home)'
    BY <2>0, <2>1, <2>2, Zenon DEF ServingInv
  <2>6. HeadInv(home)'
    BY <2>0, <2>1, <2>2, Zenon DEF HeadInv
  <2>7. LinkInv(home)'
    BY <2>0, <2>1, <2>2, Zenon DEF LinkInv
  <2> QED
    BY <2>3, <2>4, <2>5, <2>6, <2>7, Zenon DEF RunInv, EachHasHome
<1>3. ASSUME NEW h \in Hart, HartStep(h) PROVE EachHasHome'
  <2>0. /\ ControlInv /\ LockedByOne /\ RunTypes /\ NoWaiter
        /\ MovingInv(home) /\ ServingInv(home) /\ HeadInv(home) /\ LinkInv(home)
    BY <1>1, Zenon DEF SchedInv, RunInv
  <2>1. Stays(h)
    BY <1>3, <2>0, OthersStay, OthersKeep, Zenon DEF Stays
  <2>2. ASSUME NEW t \in Hart, Fork(h, t) PROVE EachHasHome'
    <3>1. PICK c \in Proc : RunInv([home EXCEPT ![c] = t])'
      BY <2>0, <2>1, <2>2, ForkRun, Zenon
    <3>2. [home EXCEPT ![c] = t] \in [Proc -> Hart]
      BY Zenon
    <3> QED
      BY <3>1, <3>2, Zenon DEF EachHasHome
  <2>3. ASSUME ~(\E t \in Hart : Fork(h, t)) PROVE RunInv(home)'
    <3>1. CASE InsertEmpty(h) \/ InsertWalk(h) \/ InsertLink(h) \/ InsertFinish(h)
      BY <2>0, <2>1, <3>1, InsertEmptyRun, InsertWalkRun, InsertLinkRun, InsertFinishRun, Zenon
    <3>2. CASE ForkStatus(h) \/ ForkParent(h) \/ ExitZombie(h) \/ Switch(h)
      BY <2>0, <2>1, <3>2, ForkStatusRun, ForkParentRun, ExitZombieRun, SwitchRun, Zenon
    <3>3. CASE Yield(h) \/ TimerSwitch(h)
      BY <2>0, <2>1, <3>3, GiveUpRun, Zenon DEF Yield, TimerSwitch
    <3>4. CASE SchedTask(h) \/ IdleTask(h) \/ IdleRecheck(h) \/ Dequeue(h)
      BY <1>1, <2>1, <3>4, TakeRun, Zenon
    <3>5. CASE \/ TimerTick(h) \/ ForkPanic(h) \/ Exit(h) \/ ExitScanMiss(h) \/ ExitHeap(h)
               \/ SchedEmpty(h) \/ ScanLive(h) \/ ScanDone(h) \/ ScanAllDone(h) \/ IdleShutdown(h)
               \/ ExitArrive(h) \/ PowerOff(h) \/ Spin(h)
      BY <1>1, <2>1, <3>5, CalmRun, Zenon
    <3> QED
      BY <1>1, <1>3, <2>3, <3>1, <3>2, <3>3, <3>4, <3>5, NeverHappens, Zenon DEF HartStep, Syscall, Timer, Kernel
  <2>4. CASE ~(\E t \in Hart : Fork(h, t))
    <3>1. RunInv(home)'
      BY <2>3, <2>4, Zenon
    <3> QED
      BY <3>1, Zenon DEF EachHasHome
  <2> QED
    BY <2>2, <2>4, Zenon
<1> QED
  BY <1>2, <1>3, Zenon DEF Next, HartStep

LEMMA RunInit ==
  ASSUME Init
  PROVE  EachHasHome
<1> DEFINE home == [p \in Proc |-> IF p < NCPU THEN p ELSE 0]
<1>1. home \in [Proc -> Hart] /\ \A h \in Hart : h \in Proc /\ home[h] = h
  BY SchedAssumption DEF Proc, Hart
<1>2. RunTypes
  BY <1>1, SchedAssumption, Zenon DEF Init, RunTypes, Statuses
<1>3. \A h \in Hart : ~Moving(h) /\ ~Serving(h) /\ ~Taking(h) /\ pc[h] = "sched" /\ block[h] = NULL
  BY Zenon DEF Init, Moving, Serving, Taking, Inserting
<1>4. NoWaiter
  BY <1>3, Zenon DEF NoWaiter, Init
<1> HIDE DEF home
<1>5. MovingInv(home) /\ ServingInv(home)
  BY <1>3, Zenon DEF MovingInv, ServingInv
<1>6. HeadInv(home)
  <2>1. ASSUME NEW h \in Hart, ready[h] # NULL PROVE ready[h] = h /\ status[h] = "READY"
    BY <1>1, <2>1, SchedAssumption DEF Init, Hart, Proc
  <2> QED
    BY <1>1, <1>3, <2>1, Zenon DEF HeadInv, Linked
<1>7. LinkInv(home)
  BY Zenon DEF LinkInv, Init
<1> QED
  BY <1>1, <1>2, <1>4, <1>5, <1>6, <1>7, Zenon DEF EachHasHome, RunInv

\* Programs that do not wait: every process has its hart, whose queue it is
\* put into and on which it runs.
THEOREM HomesKept ==
  ASSUME Waitless
  PROVE  Spec => []EachHasHome
<1>1. Init => EachHasHome
  BY RunInit, Zenon
<1>2. SchedInv /\ EachHasHome /\ [Next]_vars => EachHasHome'
  BY RunStep, Zenon
<1> QED
  BY <1>1, <1>2, SchedInvariant, PTL DEF Spec

\* Programs that do not wait: the assertion of schedule() that the head of the
\* queue is READY holds, on any number of harts.
THEOREM HeadIsReadyCorrect ==
  ASSUME Waitless
  PROVE  Spec => []HeadIsReady
<1>1. EachHasHome => HeadIsReady
  BY Zenon DEF EachHasHome, RunInv, NoWaiter, HeadIsReady
<1> QED
  BY <1>1, HomesKept, PTL

\* Programs that do not wait: no exit reads through the NULL parent of a
\* process, and no empty queue is dequeued.
THEOREM NoKernelFaultCorrect ==
  ASSUME Waitless
  PROVE  Spec => []NoKernelFault
<1>1. EachHasHome => NoKernelFault
  BY Zenon DEF EachHasHome, RunInv, NoWaiter, NoKernelFault
<1> QED
  BY <1>1, HomesKept, PTL

\* Programs that do not wait: what a hart runs is RUNNING, and no two harts run
\* the same process.
THEOREM RunningIsCurrentCorrect ==
  ASSUME Waitless
  PROVE  Spec => []RunningIsCurrent
<1>1. EachHasHome => RunningIsCurrent
  BY DEF EachHasHome, RunInv, ServingInv, Serving, RunningIsCurrent
<1> QED
  BY <1>1, HomesKept, PTL

\* No step makes a process that ended anything but FREE.
LEMMA ZombieStep ==
  ASSUME Waitless, SchedInv, EachHasHome, [Next]_vars, NEW p \in Proc, status[p] = "ZOMBIE"
  PROVE  status'[p] = "ZOMBIE"
<1>1. PICK home \in [Proc -> Hart] : RunInv(home)
  BY Zenon DEF EachHasHome
<1>2. RunTypes /\ NoWaiter /\ MovingInv(home) /\ ServingInv(home) /\ HeadInv(home)
  BY <1>1, Zenon DEF RunInv
<1>3. CASE UNCHANGED vars
  BY <1>3, Zenon DEF vars, procs
<1>4. ASSUME NEW h \in Hart, HartStep(h) PROVE status'[p] = "ZOMBIE"
  <2>1. CASE status' = status
    BY <2>1, Zenon
  <2>2. ASSUME NEW t \in Hart, Fork(h, t) PROVE status' = status
    BY <2>2, Zenon DEF Fork, procs
  <2>3. CASE InsertEmpty(h) \/ InsertFinish(h)
    BY <1>2, <2>3, Zenon DEF InsertEmpty, InsertFinish, MakeReady, Set, RunTypes
  <2>4. CASE InsertWalk(h) \/ InsertLink(h) \/ ForkParent(h) \/ ForkPanic(h)
    BY <2>1, <2>4, Zenon DEF InsertWalk, InsertLink, ForkParent, ForkPanic, procs
  <2>5. CASE ForkStatus(h)
    <3>1. arg[h] # p
      BY <1>2, <2>5, Zenon DEF ForkStatus, At, MovingInv, Moving
    <3> QED
      BY <1>2, <2>5, <3>1, Zenon DEF ForkStatus, Set, RunTypes
  <2>6. CASE Yield(h) \/ TimerSwitch(h)
    <3>1. current[h] # p
      BY <1>2, <2>6, Zenon DEF Yield, TimerSwitch, At, ServingInv, Serving
    <3> QED
      BY <1>2, <2>6, <3>1, Zenon DEF Yield, TimerSwitch, GiveUp, Set, RunTypes
  <2>7. CASE ExitZombie(h)
    BY <1>2, <2>7, Zenon DEF ExitZombie, Set, RunTypes
  <2>8. CASE Switch(h)
    <3>1. current[h] # p
      BY <1>2, <2>8, Zenon DEF Switch, At, HeadInv, Taking, Settled
    <3> QED
      BY <1>2, <2>8, <3>1, Zenon DEF Switch, Set, RunTypes
  <2>9. CASE SchedTask(h) \/ IdleTask(h) \/ IdleRecheck(h) \/ Dequeue(h)
    BY <2>1, <2>9, Zenon DEF SchedTask, IdleTask, IdleRecheck, Dequeue, procs
  <2>10. CASE \/ TimerTick(h) \/ Exit(h) \/ ExitScanMiss(h) \/ ExitHeap(h)
              \/ SchedEmpty(h) \/ ScanLive(h) \/ ScanDone(h) \/ ScanAllDone(h) \/ IdleShutdown(h)
              \/ ExitArrive(h) \/ PowerOff(h) \/ Spin(h)
    BY <2>1, <2>10, Zenon DEF TimerTick, Exit, ExitScanMiss, ExitHeap, SchedEmpty, ScanLive, ScanDone, ScanAllDone,
      IdleShutdown, ExitArrive, PowerOff, Spin, procs
  <2> QED
    BY <1>1, <1>4, <2>1, <2>2, <2>3, <2>4, <2>5, <2>6, <2>7, <2>8, <2>9, <2>10, NeverHappens, Zenon
       DEF HartStep, Syscall, Timer, Kernel
<1> QED
  BY <1>3, <1>4, Zenon DEF Next, HartStep

\* Programs that do not wait: a process that ended stays ended, whatever the
\* other harts do with queues it was in.
THEOREM ZombieStaysCorrect ==
  ASSUME Waitless
  PROVE  Spec => ZombieStays
<1>1. SchedInv /\ EachHasHome /\ [Next]_vars
        => [\A p \in Proc : status[p] = "ZOMBIE" => status'[p] \in {"ZOMBIE", "FREE"}]_vars
  BY ZombieStep, Zenon
<1> QED
  BY <1>1, SchedInvariant, HomesKept, PTL DEF Spec, ZombieStays
=============================================================================
