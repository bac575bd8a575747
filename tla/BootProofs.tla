----------------------------- MODULE BootProofs -----------------------------
(***************************************************************************)
(* Boot for every number of harts, slots and programs: BootInv is          *)
(* inductive, so the initialisation order, the schedule barrier and the    *)
(* exclusive construction of a slot hold in every behaviour.               *)
(***************************************************************************)
EXTENDS Boot, FiniteSetTheorems, TLAPS

\* A barrier's count is full only when every hart has arrived: a set of at
\* least NCPU harts is the set of all harts.
LEMMA FullBarrier ==
  ASSUME NEW A, A \subseteq Hart, Cardinality(A) >= NCPU
  PROVE  A = Hart
<1>1. NCPU \in Nat
  BY BootAssumption, Zenon
<1>2. IsFiniteSet(Hart) /\ Cardinality(Hart) = NCPU
  <2>1. NCPU > 0 /\ 0 \in Int /\ NCPU - 1 \in Int
    BY BootAssumption
  <2>2. Cardinality(Hart) = IF 0 > NCPU - 1 THEN 0 ELSE (NCPU - 1) - 0 + 1
    BY <2>1, FS_Interval, Zenon DEF Hart
  <2>3. IsFiniteSet(Hart)
    BY <2>1, FS_Interval, Zenon DEF Hart
  <2> QED
    BY <1>1, <2>1, <2>2, <2>3
<1>3. IsFiniteSet(A) /\ Cardinality(A) <= Cardinality(Hart)
         /\ (Cardinality(A) = Cardinality(Hart) => A = Hart)
  BY <1>2, FS_Subset, Zenon
<1>4. Cardinality(A) \in Nat
  BY <1>3, FS_CardinalityType, Zenon
<1> QED
  BY <1>1, <1>2, <1>3, <1>4

\* The amoadd of sync_barrier keeps the counter equal to the number of harts
\* that have arrived.
LEMMA CountOneMore ==
  ASSUME NEW A, A \subseteq Hart, NEW h \in Hart, h \notin A
  PROVE  Cardinality(A \cup {h}) = Cardinality(A) + 1
<1>1. IsFiniteSet(Hart)
  BY BootAssumption, FS_Interval DEF Hart
<1>2. IsFiniteSet(A)
  BY <1>1, FS_Subset, Zenon
<1> QED
  BY <1>2, FS_AddElement, Zenon

\* What one hart's step leaves alone: the other harts' locations.
LEMMA OthersStay ==
  ASSUME NEW h \in Hart, TypeOK, Step(h)
  PROVE  \A k \in Hart \ {h} : pc'[k] = pc[k]
  BY Zenon DEF Step, TypeOK, MInit, MArrive, MLeave, SOther, SInitMemory, SInitProcs, SInitFs,
         SArrive, SLeave, AllocSearch, AllocPanic, AllocReserve, Load, LoadPanic, LoadNothing,
         FreeZombie, Release, Insert, SchedArrive, SchedLeave, Arrive, Leave, Goto, slots

\* Every action keeps the ranges of the variables.
LEMMA TypeStep ==
  ASSUME NEW h \in Hart, BootInv, Step(h)
  PROVE  TypeOK'
<1>0. TypeOK
  BY Zenon DEF BootInv
<1> USE <1>0 DEF TypeOK, Locations, Goto, At, slots
<1>1. CASE MInit(h)
  BY <1>1, Zenon DEF MInit, Subsystems
<1>2. CASE SOther(h)
  BY <1>2, Zenon DEF SOther
<1>3. CASE SInitMemory(h)
  BY <1>3, Zenon DEF SInitMemory, Subsystems
<1>4. CASE SInitProcs(h)
  BY <1>4, Zenon DEF SInitProcs, Subsystems
<1>5. CASE SInitFs(h)
  BY <1>5, Zenon DEF SInitFs, Subsystems
<1>6. CASE MArrive(h)
  BY <1>6 DEF MArrive, Arrive, Barriers
<1>7. CASE SArrive(h)
  BY <1>7 DEF SArrive, Arrive, Barriers
<1>8. CASE SchedArrive(h)
  BY <1>8 DEF SchedArrive, Arrive, Barriers
<1>9. CASE MLeave(h)
  BY <1>9, Zenon DEF MLeave, Leave
<1>10. CASE SLeave(h)
  BY <1>10, Zenon DEF SLeave, Leave
<1>11. CASE SchedLeave(h)
  BY <1>11, Zenon DEF SchedLeave, Leave
<1>12. CASE AllocSearch(h)
  BY <1>12, Zenon DEF AllocSearch
<1>13. CASE AllocPanic(h)
  BY <1>13, Zenon DEF AllocPanic
<1>14. CASE AllocReserve(h)
  BY <1>14, Zenon DEF AllocReserve
<1>15. CASE Load(h)
  BY <1>15, Zenon DEF Load
<1>16. CASE LoadPanic(h)
  BY <1>16, Zenon DEF LoadPanic
<1>17. CASE LoadNothing(h)
  BY <1>17, Zenon DEF LoadNothing
<1>18. CASE FreeZombie(h)
  BY <1>18, Zenon DEF FreeZombie
<1>19. CASE Release(h)
  BY <1>19, Zenon DEF Release
<1>20. CASE Insert(h)
  BY <1>20, Zenon DEF Insert
<1> HIDE DEF TypeOK
<1> QED
  BY <1>1, <1>2, <1>3, <1>4, <1>5, <1>6, <1>7, <1>8, <1>9, <1>10, <1>11, <1>12, <1>13, <1>14, <1>15, <1>16, <1>17, <1>18, <1>19, <1>20, Zenon DEF Step

\* A counter changes by the amoadd of its own barrier only, and the harts past
\* that amoadd are then one more.
LEMMA CountStep ==
  ASSUME NEW h \in Hart, BootInv, Step(h)
  PROVE  CountInv'
<1> DEFINE M == Past(BeforeM) S == Past(BeforeS) D == Past(BeforeSched)
<1>0. TypeOK /\ CountInv /\ M \subseteq Hart /\ S \subseteq Hart /\ D \subseteq Hart
  BY Zenon DEF BootInv, Past
<1>1. CASE MArrive(h)
  <2>1. M' = M \cup {h} /\ h \notin M /\ S' = S /\ D' = D
    BY <1>0, <1>1, Zenon DEF MArrive, Arrive, At, Goto, TypeOK, Past, BeforeM, BeforeS, BeforeSched, Locations
  <2>2. Cardinality(M \cup {h}) = Cardinality(M) + 1
    BY <1>0, <2>1, CountOneMore, Zenon
  <2>3. counter' = [counter EXCEPT !["m_counter"] = @ + 1]
    BY <1>1, Zenon DEF MArrive, Arrive
  <2> QED
    BY <1>0, <2>1, <2>2, <2>3, Zenon DEF CountInv, TypeOK, Barriers
<1>2. CASE SArrive(h)
  <2>1. S' = S \cup {h} /\ h \notin S /\ M' = M /\ D' = D
    BY <1>0, <1>2, Zenon DEF SArrive, Arrive, At, Goto, TypeOK, Past, BeforeM, BeforeS, BeforeSched, Locations
  <2>2. Cardinality(S \cup {h}) = Cardinality(S) + 1
    BY <1>0, <2>1, CountOneMore, Zenon
  <2>3. counter' = [counter EXCEPT !["s_counter"] = @ + 1]
    BY <1>2, Zenon DEF SArrive, Arrive
  <2> QED
    BY <1>0, <2>1, <2>2, <2>3, Zenon DEF CountInv, TypeOK, Barriers
<1>3. CASE SchedArrive(h)
  <2>1. D' = D \cup {h} /\ h \notin D /\ M' = M /\ S' = S
    BY <1>0, <1>3, Zenon DEF SchedArrive, Arrive, At, Goto, TypeOK, Past, BeforeM, BeforeS, BeforeSched, Locations
  <2>2. Cardinality(D \cup {h}) = Cardinality(D) + 1
    BY <1>0, <2>1, CountOneMore, Zenon
  <2>3. counter' = [counter EXCEPT !["sched_counter"] = @ + 1]
    BY <1>3, Zenon DEF SchedArrive, Arrive
  <2> QED
    BY <1>0, <2>1, <2>2, <2>3, Zenon DEF CountInv, TypeOK, Barriers
<1>4. CASE M' = M /\ S' = S /\ D' = D /\ counter' = counter
  BY <1>0, <1>4, Zenon DEF CountInv
<1>5. CASE ~(MArrive(h) \/ SArrive(h) \/ SchedArrive(h))
  <2>1. counter' = counter
    BY <1>5, Zenon DEF Step, MInit, MLeave, SOther, SInitMemory, SInitProcs, SInitFs, SLeave,
       AllocSearch, AllocPanic, AllocReserve, Load, LoadPanic, LoadNothing, FreeZombie, Release,
       Insert, SchedLeave, Leave
  <2>2. /\ pc[h] \in BeforeM <=> pc'[h] \in BeforeM
        /\ pc[h] \in BeforeS <=> pc'[h] \in BeforeS
        /\ pc[h] \in BeforeSched <=> pc'[h] \in BeforeSched
    BY <1>0, <1>5 DEF Step, MInit, MLeave, SOther, SInitMemory, SInitProcs, SInitFs, SLeave,
       AllocSearch, AllocPanic, AllocReserve, Load, LoadPanic, LoadNothing, FreeZombie, Release,
       Insert, SchedLeave, Leave, Goto, At, TypeOK, BeforeM, BeforeS, BeforeSched, Locations
  <2>3. \A k \in Hart \ {h} : pc'[k] = pc[k]
    BY <1>0, OthersStay, Zenon
  <2> QED
    BY <2>1, <2>2, <2>3, <1>4 DEF Past
<1> QED
  BY <1>1, <1>2, <1>3, <1>5, Zenon

\* A hart gets behind a barrier only when the count is full, and counts only
\* grow.
LEMMA OpenStep ==
  ASSUME NEW h \in Hart, BootInv, Step(h)
  PROVE  OpenInv'
<1>0. TypeOK /\ OpenInv /\ NCPU \in Nat
  BY BootAssumption, Zenon DEF BootInv
<1>1. \A b \in Barriers : counter[b] \in Nat /\ counter'[b] \in Nat /\ counter'[b] >= counter[b]
  BY <1>0 DEF Step, TypeOK, MInit, MArrive, MLeave, SOther, SInitMemory, SInitProcs, SInitFs,
     SArrive, SLeave, AllocSearch, AllocPanic, AllocReserve, Load, LoadPanic, LoadNothing,
     FreeZombie, Release, Insert, SchedArrive, SchedLeave, Arrive, Leave
<1>2. \A k \in Hart \ {h} : pc'[k] = pc[k]
  BY <1>0, OthersStay, Zenon
<1>3. /\ pc'[h] \notin BeforeM \cup {"m_wait"} => counter'["m_counter"] >= NCPU
      /\ pc'[h] \in BehindS => counter'["s_counter"] >= NCPU
      /\ pc'[h] = "schedule" => counter'["sched_counter"] >= NCPU
  <2> USE <1>0, <1>1 DEF OpenInv, TypeOK, Goto, At, BeforeM, BeforeS, BehindS, Locations, Barriers
  <2>1. CASE MInit(h) \/ SOther(h) \/ SInitMemory(h) \/ SInitProcs(h) \/ SInitFs(h)
    BY <2>1, Zenon DEF MInit, SOther, SInitMemory, SInitProcs, SInitFs
  <2>2. CASE MArrive(h)
    BY <2>2 DEF MArrive, Arrive
  <2>3. CASE SArrive(h)
    BY <2>3 DEF SArrive, Arrive
  <2>4. CASE SchedArrive(h)
    BY <2>4 DEF SchedArrive, Arrive
  <2>5. CASE MLeave(h) \/ SLeave(h) \/ SchedLeave(h)
    BY <2>5, Zenon DEF MLeave, SLeave, SchedLeave, Leave
  <2>6. CASE AllocSearch(h) \/ AllocPanic(h) \/ AllocReserve(h)
    BY <2>6, Zenon DEF AllocSearch, AllocPanic, AllocReserve
  <2>7. CASE Load(h) \/ LoadPanic(h) \/ LoadNothing(h)
    BY <2>7, Zenon DEF Load, LoadPanic, LoadNothing
  <2>8. CASE FreeZombie(h) \/ Release(h) \/ Insert(h)
    BY <2>8, Zenon DEF FreeZombie, Release, Insert
  <2> QED
    BY <2>1, <2>2, <2>3, <2>4, <2>5, <2>6, <2>7, <2>8, Zenon DEF Step
<1> QED
  BY <1>0, <1>1, <1>2, <1>3 DEF OpenInv, Barriers

\* Behind the s_counter barrier of s_start all harts have arrived at it, and
\* in schedule() all harts have arrived at the last one.
LEMMA BehindBarrier ==
  ASSUME BootInv, NEW h \in Hart
  PROVE  /\ pc[h] \in BehindS => \A k \in Hart : pc[k] \notin BeforeS
         /\ pc[h] = "schedule" => \A k \in Hart : pc[k] \notin BeforeSched
<1>1. Past(BeforeS) \subseteq Hart /\ Past(BeforeSched) \subseteq Hart
  BY Zenon DEF Past
<1>2. ASSUME pc[h] \in BehindS PROVE Past(BeforeS) = Hart
  <2>1. Cardinality(Past(BeforeS)) >= NCPU
    BY <1>2, Zenon DEF BootInv, OpenInv, CountInv
  <2> QED
    BY <1>1, <2>1, FullBarrier, Zenon
<1>3. ASSUME pc[h] = "schedule" PROVE Past(BeforeSched) = Hart
  <2>1. Cardinality(Past(BeforeSched)) >= NCPU
    BY <1>3, Zenon DEF BootInv, OpenInv, CountInv
  <2> QED
    BY <1>1, <2>1, FullBarrier, Zenon
<1> QED
  BY <1>2, <1>3, Zenon DEF Past

\* Only hart 0 initialises, and it passes a point of s_start only after the
\* subsystems before that point are up.
LEMMA UpStep ==
  ASSUME NEW h \in Hart, BootInv, Step(h)
  PROVE  UpInv'
<1>0. TypeOK /\ UpInv /\ 0 \in Hart
  BY BootAssumption DEF BootInv, Hart
<1>2. \A k \in Hart \ {h} : pc'[k] = pc[k]
  BY <1>0, OthersStay, Zenon
<1> USE <1>0, <1>2 DEF UpInv, TypeOK, Goto, At, BeforeM, BeforeS, Locations
<1>3. CASE MInit(h)
  BY <1>3, Zenon DEF MInit
<1>4. CASE SInitMemory(h)
  BY <1>4, Zenon DEF SInitMemory
<1>5. CASE SInitProcs(h)
  BY <1>5, Zenon DEF SInitProcs
<1>6. CASE SInitFs(h)
  <2>1. /\ h = 0 /\ pc[0] = "s_fs" /\ pc'[0] = "s_arrive"
        /\ up' = up \cup {"fs", "sem_pool"} /\ up \subseteq Subsystems
    BY <1>6, Zenon DEF SInitFs
  <2>2. {"spike_file", "htif", "pmm", "kern_vm", "proc_pool"} \subseteq up
    BY <2>1, Zenon
  <2> HIDE <1>0 DEF UpInv, TypeOK
  <2>3. up' = Subsystems
    BY <2>1, <2>2, Zenon DEF Subsystems
  <2> QED
    BY <1>0, <2>1, <2>3, Zenon DEF UpInv, Subsystems
<1>7. CASE SOther(h) \/ MArrive(h) \/ SArrive(h) \/ SchedArrive(h)
  BY <1>7, Zenon DEF SOther, MArrive, SArrive, SchedArrive, Arrive
<1>8. CASE MLeave(h) \/ SLeave(h) \/ SchedLeave(h)
  BY <1>8, Zenon DEF MLeave, SLeave, SchedLeave, Leave
<1>9. CASE AllocSearch(h) \/ AllocPanic(h) \/ AllocReserve(h)
  BY <1>9, Zenon DEF AllocSearch, AllocPanic, AllocReserve
<1>10. CASE Load(h) \/ LoadPanic(h) \/ LoadNothing(h)
  BY <1>10, Zenon DEF Load, LoadPanic, LoadNothing
<1>11. CASE FreeZombie(h) \/ Release(h) \/ Insert(h)
  BY <1>11, Zenon DEF FreeZombie, Release, Insert
<1> QED
  BY <1>3, <1>4, <1>5, <1>6, <1>7, <1>8, <1>9, <1>10, <1>11, Zenon DEF Step

\* The search and the reservation of alloc_process are one under the lock, so
\* a slot under construction stays reserved, by one hart.
LEMMA SlotStep ==
  ASSUME NEW h \in Hart, BootInv, Step(h)
  PROVE  SlotInv'
<1>0. TypeOK /\ SlotInv /\ UpInv
  BY Zenon DEF BootInv
<1>2. \A k \in Hart \ {h} : pc'[k] = pc[k]
  BY <1>0, OthersStay, Zenon
<1> USE <1>0, <1>2 DEF SlotInv, BuildExclusive, Building, TypeOK, Goto, At, slots
<1>3. CASE MInit(h) \/ SOther(h) \/ SInitMemory(h) \/ SInitFs(h)
  BY <1>3 DEF MInit, SOther, SInitMemory, SInitFs
<1>4. CASE SInitProcs(h)
  <2>1. h \in Hart /\ pc[h] = "s_procs"
    BY <1>4, Zenon DEF SInitProcs
  <2>2. \A k \in Hart : pc[k] \notin BehindS
    BY <2>1, BehindBarrier, Zenon DEF BeforeS
  <2>3. \A k \in Hart : pc[k] \notin {"alloc_reserve", "load", "loaded", "insert"}
    BY <2>2, Zenon DEF BehindS, BeforeS, BeforeM, Locations
  <2> QED
    BY <1>4, <2>3, Zenon DEF SInitProcs
<1>5. CASE MArrive(h) \/ SArrive(h) \/ SchedArrive(h)
  BY <1>5 DEF MArrive, SArrive, SchedArrive, Arrive
<1>6. CASE MLeave(h) \/ SLeave(h) \/ SchedLeave(h)
  BY <1>6 DEF MLeave, SLeave, SchedLeave, Leave
<1>7. CASE AllocSearch(h)
  BY <1>7 DEF AllocSearch, FirstUsable, Usable
<1>8. CASE AllocReserve(h)
  BY <1>8 DEF AllocReserve
<1>9. CASE AllocPanic(h) \/ Load(h) \/ LoadPanic(h) \/ LoadNothing(h)
  BY <1>9 DEF AllocPanic, Load, LoadPanic, LoadNothing
<1>10. CASE FreeZombie(h) \/ Insert(h)
  BY <1>10 DEF FreeZombie, Insert
<1>11. CASE Release(h)
  BY <1>11, Zenon DEF Release
<1> QED
  BY <1>3, <1>4, <1>5, <1>6, <1>7, <1>8, <1>9, <1>10, <1>11, Zenon DEF Step

\* When the harts start nothing is counted, initialised or reserved.
LEMMA InitInv == Init => BootInv
<1> SUFFICES ASSUME Init PROVE BootInv
  BY Zenon
<1>1. TypeOK
  BY Zenon DEF Init, TypeOK, Locations
<1>2. CountInv
  <2>1. Past(BeforeM) = {} /\ Past(BeforeS) = {} /\ Past(BeforeSched) = {}
    BY Zenon DEF Init, Past, BeforeM, BeforeS, BeforeSched, Locations
  <2> QED
    BY <2>1, FS_EmptySet, Zenon DEF CountInv, Init, Barriers
<1>3. OpenInv
  BY Zenon DEF Init, OpenInv, BehindS, BeforeS, BeforeM, Locations
<1>4. UpInv
  BY BootAssumption DEF Init, UpInv, Hart, BeforeS, BeforeM
<1>5. SlotInv
  BY Zenon DEF Init, SlotInv, BuildExclusive, Building
<1> QED
  BY <1>1, <1>2, <1>3, <1>4, <1>5, Zenon DEF BootInv

\* The whole invariant, for every number of harts and slots.
THEOREM BootInvariant == Spec => []BootInv
<1>1. BootInv /\ [Next]_vars => BootInv'
  <2> SUFFICES ASSUME BootInv, [Next]_vars PROVE BootInv'
    BY Zenon
  <2>1. CASE Next
    BY <2>1, TypeStep, CountStep, OpenStep, UpStep, SlotStep, Zenon DEF Next, BootInv
  <2>2. CASE UNCHANGED vars
    BY <2>2, Zenon DEF vars, slots, BootInv, TypeOK, CountInv, OpenInv, UpInv, SlotInv, BuildExclusive, Past
  <2> QED
    BY <2>1, <2>2, Zenon
<1> QED
  BY InitInv, <1>1, PTL DEF Spec

\* No hart uses a shared subsystem before hart 0 has initialised all of them:
\* what the s_counter barrier of s_start is for.
THEOREM InitialisedBeforeUse == Spec => []InitBeforeUse
<1>1. BootInv => InitBeforeUse
  <2> SUFFICES ASSUME BootInv, NEW h \in Hart, pc[h] \in BehindS PROVE up = Subsystems
    BY Zenon DEF InitBeforeUse
  <2>1. 0 \in Hart
    BY BootAssumption DEF Hart
  <2>2. pc[0] \notin BeforeS
    BY <2>1, BehindBarrier, Zenon
  <2> QED
    BY <2>2, Zenon DEF BootInv, UpInv
<1> QED
  BY <1>1, BootInvariant, PTL

\* No hart runs the scheduler while another still loads its first process.
THEOREM ScheduledAfterLoad == Spec => []ScheduleAfterLoad
<1>1. BootInv => ScheduleAfterLoad
  BY BehindBarrier, Zenon DEF ScheduleAfterLoad
<1> QED
  BY <1>1, BootInvariant, PTL

\* alloc_process never lets two harts build a process in one slot at the same
\* time.
THEOREM BuiltExclusively == Spec => []BuildExclusive
<1>1. BootInv => BuildExclusive
  BY Zenon DEF BootInv, SlotInv
<1> QED
  BY <1>1, BootInvariant, PTL
=============================================================================
