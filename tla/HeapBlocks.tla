----------------------------- MODULE HeapBlocks -----------------------------
(***************************************************************************)
(* What the proofs about Heap rest on: facts about sequences and folds,    *)
(* sets of blocks that tile the heap, and the lists malloc and free keep   *)
(* in address order.                                                       *)
(***************************************************************************)
EXTENDS Heap, SequenceTheorems, WellFoundedInduction, TLAPS

BlockSet == [va : Nat, size : Nat]

-----------------------------------------------------------------------------
(***************************************************************************)
(* Numbers and sequences                                                   *)
(***************************************************************************)
\* The least of a set of numbers, on which the inductions below rest.
LEMMA NatMin ==
  ASSUME NEW T \in SUBSET Nat, T # {}
  PROVE  \E n \in T : \A m \in T : n <= m
<1> DEFINE R == OpToRel(<, Nat)
<1>1. \A m, n \in T : <<m, n>> \notin R => n <= m
  BY DEF OpToRel
<1>2. IsWellFoundedOn(R, Nat)
  BY NatLessThanWellFounded, Zenon
<1> HIDE DEF R
<1>3. PICK n \in T : \A m \in T : ~(<<m, n>> \in R)
  BY <1>2, WFMin, Zenon
<1>4. \A m \in T : n <= m
  BY <1>1, <1>3, Zenon
<1> QED
  BY <1>4, Zenon

\* Induction up to n, for a set.
LEMMA UpTo ==
  ASSUME NEW n \in Nat, NEW T, 0 \in T, \A i \in 1 .. n : i - 1 \in T => i \in T
  PROVE  \A i \in 0 .. n : i \in T
<1> DEFINE U == {i \in 0 .. n : i \notin T}
<1> SUFFICES ASSUME U # {} PROVE FALSE
  BY Zenon
<1>1. U \in SUBSET Nat
  OBVIOUS
<1> HIDE DEF U
<1>2. PICK m \in U : \A k \in U : m <= k
  BY <1>1, NatMin, Zenon
<1>3. m \in 0 .. n /\ m \notin T
  BY Zenon DEF U
<1>4. m # 0 /\ m - 1 \notin U
  BY <1>2, <1>3
<1> QED
  BY <1>3, <1>4 DEF U

LEMMA MaxIs ==
  ASSUME NEW s, NEW m \in s, s \subseteq Int, \A x \in s : x <= m
  PROVE  Max(s) = m
<1>1. Max(s) \in s /\ \A y \in s : Max(s) >= y
  <2>1. \E x \in s : \A y \in s : x >= y
    BY Zenon
  <2> QED
    BY <2>1, Zenon DEF Max
<1>2. Max(s) \in Int /\ m \in Int /\ Max(s) >= m /\ Max(s) <= m
  BY <1>1, Zenon
<1> QED
  BY <1>2

LEMMA MinIs ==
  ASSUME NEW s \in SUBSET Nat, s # {}
  PROVE  Min(s) \in s /\ \A x \in s : Min(s) <= x
<1>1. \E x \in s : \A y \in s : x =< y
  BY NatMin, Zenon
<1> QED
  BY <1>1, Zenon DEF Min

LEMMA InsertAtFacts ==
  ASSUME NEW S, NEW s \in Seq(S), NEW k \in 1 .. (Len(s) + 1), NEW e \in S
  PROVE  /\ InsertAt(s, k, e) \in Seq(S)
         /\ Len(InsertAt(s, k, e)) = Len(s) + 1
         /\ \A i \in 1 .. (Len(s) + 1) :
              InsertAt(s, k, e)[i] = IF i < k THEN s[i] ELSE IF i = k THEN e ELSE s[i - 1]
<1> DEFINE a == SubSeq(s, 1, k - 1)  b == SubSeq(s, k, Len(s))  c == a \o <<e>>
<1>1. Len(s) \in Nat
  BY LenProperties, Zenon
<1>2. a \in Seq(S) /\ Len(a) = k - 1 /\ \A i \in 1 .. (k - 1) : a[i] = s[i]
  BY <1>1, SubSeqProperties
<1>3. b \in Seq(S) /\ Len(b) = Len(s) - k + 1 /\ \A i \in 1 .. (Len(s) - k + 1) : b[i] = s[k + i - 1]
  BY <1>1, SubSeqProperties
<1>4. <<e>> \in Seq(S) /\ Len(<<e>>) = 1 /\ <<e>>[1] = e
  OBVIOUS
<1> HIDE DEF a, b
<1>5. c \in Seq(S) /\ Len(c) = k /\ c[k] = e /\ \A i \in 1 .. (k - 1) : c[i] = s[i]
  BY <1>1, <1>2, <1>4, ConcatProperties
<1> HIDE DEF c
<1>6. /\ c \o b \in Seq(S) /\ Len(c \o b) = Len(s) + 1
      /\ \A i \in 1 .. (Len(s) + 1) : (c \o b)[i] = IF i <= k THEN c[i] ELSE b[i - k]
  BY <1>1, <1>3, <1>5, ConcatProperties
<1>7. InsertAt(s, k, e) = c \o b
  BY Zenon DEF InsertAt, a, b, c
<1>8. \A i \in 1 .. (Len(s) + 1) : (c \o b)[i] = IF i < k THEN s[i] ELSE IF i = k THEN e ELSE s[i - 1]
  <2> SUFFICES ASSUME NEW i \in 1 .. (Len(s) + 1)
               PROVE  (c \o b)[i] = IF i < k THEN s[i] ELSE IF i = k THEN e ELSE s[i - 1]
    BY Zenon
  <2>1. CASE i < k
    <3>1. i \in 1 .. (k - 1) /\ i <= k
      BY <1>1, <2>1
    <3> QED
      BY <1>5, <1>6, <2>1, <3>1, Zenon
  <2>2. CASE i = k
    <3>1. i <= k /\ ~(i < k)
      BY <1>1, <2>2
    <3> QED
      BY <1>5, <1>6, <2>2, <3>1, Zenon
  <2>3. CASE i > k
    <3>1. i - k \in 1 .. (Len(s) - k + 1) /\ k + (i - k) - 1 = i - 1 /\ ~(i <= k) /\ ~(i < k) /\ i # k
      BY <1>1, <2>3
    <3>2. b[i - k] = s[k + (i - k) - 1]
      BY <1>3, <3>1, Zenon
    <3> QED
      BY <1>6, <3>1, <3>2, Zenon
  <2>4. i < k \/ i = k \/ i > k
    BY <1>1
  <2> QED
    BY <2>1, <2>2, <2>3, <2>4, Zenon
<1> QED
  BY <1>6, <1>7, <1>8, Zenon

LEMMA RemoveAtFacts ==
  ASSUME NEW S, NEW s \in Seq(S), NEW k \in 1 .. Len(s)
  PROVE  /\ RemoveAt(s, k) \in Seq(S)
         /\ Len(RemoveAt(s, k)) = Len(s) - 1
         /\ \A i \in 1 .. (Len(s) - 1) : RemoveAt(s, k)[i] = IF i < k THEN s[i] ELSE s[i + 1]
<1> DEFINE a == SubSeq(s, 1, k - 1)  b == SubSeq(s, k + 1, Len(s))
<1>1. Len(s) \in Nat
  BY LenProperties, Zenon
<1>2. a \in Seq(S) /\ Len(a) = k - 1 /\ \A i \in 1 .. (k - 1) : a[i] = s[i]
  BY <1>1, SubSeqProperties
<1>3. b \in Seq(S) /\ Len(b) = Len(s) - k /\ \A i \in 1 .. (Len(s) - k) : b[i] = s[k + i]
  BY <1>1, SubSeqProperties
<1> HIDE DEF a, b
<1>4. /\ a \o b \in Seq(S) /\ Len(a \o b) = Len(s) - 1
      /\ \A i \in 1 .. (Len(s) - 1) : (a \o b)[i] = IF i < k THEN a[i] ELSE b[i - k + 1]
  <2>1. /\ a \o b \in Seq(S) /\ Len(a \o b) = Len(a) + Len(b)
        /\ \A i \in 1 .. (Len(a) + Len(b)) :
             (a \o b)[i] = IF i <= Len(a) THEN a[i] ELSE b[i - Len(a)]
    BY <1>2, <1>3, ConcatProperties, Zenon
  <2>2. Len(a) + Len(b) = Len(s) - 1
    BY <1>1, <1>2, <1>3
  <2>3. \A i \in 1 .. (Len(s) - 1) : (i <= Len(a) <=> i < k) /\ i - Len(a) = i - k + 1
    BY <1>1, <1>2
  <2> QED
    BY <2>1, <2>2, <2>3, Zenon
<1>5. RemoveAt(s, k) = a \o b
  BY Zenon DEF RemoveAt, a, b
<1>6. ASSUME NEW i \in 1 .. (Len(s) - 1)
      PROVE  (a \o b)[i] = IF i < k THEN s[i] ELSE s[i + 1]
  <2>1. CASE i < k
    BY <1>2, <1>4, <2>1
  <2>2. CASE ~(i < k)
    <3>1. i - k + 1 \in 1 .. (Len(s) - k) /\ k + (i - k + 1) = i + 1
      BY <1>1, <2>2
    <3> QED
      BY <1>3, <1>4, <2>2, <3>1, Zenon
  <2> QED
    BY <2>1, <2>2, Zenon
<1> QED
  BY <1>4, <1>5, <1>6, Zenon

LEMMA FrontFacts ==
  ASSUME NEW S, NEW s \in Seq(S), s # << >>
  PROVE  /\ Front(s) \in Seq(S) /\ Len(Front(s)) = Len(s) - 1 /\ Len(s) \in Nat \ {0}
         /\ \A i \in 1 .. (Len(s) - 1) : Front(s)[i] = s[i]
         /\ Last(s) = s[Len(s)] /\ Last(s) \in S
<1>1. Len(s) \in Nat \ {0} /\ s \in [1 .. Len(s) -> S]
  BY LenProperties, EmptySeq, Zenon
<1> QED
  BY <1>1, SubSeqProperties DEF Front, Last
-----------------------------------------------------------------------------
(***************************************************************************)
(* Folds, one element after the other                                      *)
(***************************************************************************)
\* g folds the elements of seq whose indices are in a set.
Folding(g, n, base, seq, op) ==
  \A s \in SUBSET (1 .. n) :
    g[s] = IF s = {} THEN base ELSE op[<<g[s \ {Max(s)}], seq[Max(s)]>>]

\* The function in the definition of FoldLeft exists.
LEMMA Iterates ==
  ASSUME NEW A, NEW base \in A, NEW B, NEW n \in Nat, NEW seq \in [1 .. n -> B], NEW op \in [A \X B -> A]
  PROVE  \E g \in [SUBSET (1 .. n) -> A] : Folding(g, n, base, seq, op)
<1> DEFINE OK(g, m) == \A s \in SUBSET (1 .. m) :
             g[s] = IF s = {} THEN base ELSE op[<<g[s \ {Max(s)}], seq[Max(s)]>>]
           T == {m \in 0 .. n : \A g \in [SUBSET (1 .. m) -> A] : ~OK(g, m)}
<1>1. 0 \notin T
  <2> DEFINE g == [s \in SUBSET (1 .. 0) |-> base]
  <2>1. g \in [SUBSET (1 .. 0) -> A] /\ OK(g, 0)
    OBVIOUS
  <2> HIDE DEF OK
  <2> QED
    BY <2>1, Zenon
<1>2. ASSUME NEW m \in 0 .. n, m # 0, m - 1 \notin T PROVE m \notin T
  <2>0. m - 1 \in 0 .. n
    BY <1>2
  <2>1. PICK g \in [SUBSET (1 .. (m - 1)) -> A] : OK(g, m - 1)
    <3> HIDE DEF OK
    <3> QED
      BY <1>2, <2>0, Zenon
  <2> DEFINE h == [s \in SUBSET (1 .. m) |-> IF m \in s THEN op[<<g[s \ {m}], seq[m]>>] ELSE g[s]]
  <2>2. \A s \in SUBSET (1 .. m) : s \ {m} \in SUBSET (1 .. (m - 1)) /\ (m \notin s => s \in SUBSET (1 .. (m - 1)))
    BY <1>2
  <2>3. m \in 1 .. n /\ seq[m] \in B
    BY <1>2
  <2>4. h \in [SUBSET (1 .. m) -> A]
    BY <2>2, <2>3, Zenon
  <2>5. OK(h, m)
    <3> SUFFICES ASSUME NEW s \in SUBSET (1 .. m)
                 PROVE  h[s] = IF s = {} THEN base ELSE op[<<h[s \ {Max(s)}], seq[Max(s)]>>]
      BY Zenon
    <3>1. CASE m \in s
      <4>0. s \subseteq Int /\ \A x \in s : x <= m
        OBVIOUS
      <4>1. Max(s) = m
        BY <3>1, <4>0, MaxIs, Zenon
      <4>2. h[s \ {m}] = g[s \ {m}]
        BY <2>2, Zenon
      <4> QED
        BY <3>1, <4>1, <4>2, Zenon
    <3>2. CASE m \notin s
      <4>1. h[s] = g[s] /\ h[s \ {Max(s)}] = g[s \ {Max(s)}]
        BY <2>2, <3>2, Zenon
      <4>2. s \in SUBSET (1 .. (m - 1))
        BY <2>2, <3>2, Zenon
      <4>3. g[s] = IF s = {} THEN base ELSE op[<<g[s \ {Max(s)}], seq[Max(s)]>>]
        BY <2>1, <4>2, Zenon
      <4> QED
        BY <4>1, <4>3, Zenon
    <3> QED
      BY <3>1, <3>2, Zenon
  <2> HIDE DEF OK
  <2> QED
    BY <2>4, <2>5, Zenon
<1> HIDE DEF OK
<1>3. T = {}
  <2> DEFINE U == {m \in 0 .. n : m \notin T}
  <2>2. T \subseteq 0 .. n
    BY Zenon
  <2> HIDE DEF T
  <2>1. 0 \in U /\ \A m \in 1 .. n : m - 1 \in U => m \in U
    BY <1>1, <1>2
  <2>3. \A m \in 0 .. n : m \in U
    <3> HIDE DEF U
    <3> QED
      BY <2>1, UpTo, Zenon
  <2> QED
    BY <2>2, <2>3, Zenon
<1>4. \E g \in [SUBSET (1 .. n) -> A] : OK(g, n)
  <2>1. n \in 0 .. n
    OBVIOUS
  <2> QED
    BY <1>3, <2>1, Zenon
<1> QED
  BY <1>4, Zenon DEF OK, Folding
LEMMA MaxIn ==
  ASSUME NEW n \in Nat, NEW s \in SUBSET (1 .. n), s # {}
  PROVE  Max(s) \in s
<1> DEFINE U == {n - x : x \in s}
<1>1. U \in SUBSET Nat
  OBVIOUS
<1>0. U # {}
  BY Zenon
<1>2. PICK u \in U : \A v \in U : u <= v
  BY <1>0, <1>1, NatMin, Zenon
<1>3. PICK m \in s : u = n - m
  BY <1>2, Zenon
<1>4. \A x \in s : m >= x
  BY <1>2, <1>3
<1> QED
  BY <1>4, Zenon DEF Max

LEMMA Prefix ==
  ASSUME NEW n \in Nat, NEW i \in 1 .. n
  PROVE  /\ 1 .. i # {} /\ 1 .. i \in SUBSET (1 .. n)
         /\ Max(1 .. i) = i /\ (1 .. i) \ {i} = 1 .. (i - 1)
<1>1. i \in 1 .. i /\ 1 .. i \subseteq Int /\ \A x \in 1 .. i : x <= i
  OBVIOUS
<1>2. Max(1 .. i) = i
  BY <1>1, MaxIs, Zenon
<1> QED
  BY <1>2

\* F is the lists the fold goes through.
Inserts(F, n, base, list) ==
  /\ F[0] = base /\ FoldLeft(InsertFree, base, list) = F[n]
  /\ \A i \in 1 .. n : F[i] = InsertFree(F[i - 1], list[i])

Merges(F, n, base, list) ==
  /\ F[0] = base /\ FoldLeft(MergeStep, base, list) = F[n]
  /\ \A i \in 1 .. n : F[i] = MergeStep(F[i - 1], list[i])

LEMMA FoldInsert ==
  ASSUME NEW A, NEW B, NEW n \in Nat, NEW list \in [1 .. n -> B],
         NEW base \in A, \A l \in A, b \in B : InsertFree(l, b) \in A
  PROVE  \E F \in [0 .. n -> A] : Inserts(F, n, base, list)
<1> DEFINE Body(h) == [s \in SUBSET (1 .. n) |->
             IF s = {} THEN base ELSE InsertFree(h[s \ {Max(s)}], list[Max(s)])]
           it == CHOOSE h : h = Body(h)
<1>1. FoldLeft(InsertFree, base, list) = it[1 .. n]
  BY Zenon DEF FoldLeft, MapThenFoldSet
<1>2. it = Body(it)
  <2> DEFINE op == [x \in A \X B |-> InsertFree(x[1], x[2])]
  <2>1. op \in [A \X B -> A]
    BY Zenon
  <2>3. \A l \in A, b \in B : op[<<l, b>>] = InsertFree(l, b)
    BY Zenon
  <2> HIDE DEF op
  <2>5. PICK g \in [SUBSET (1 .. n) -> A] : Folding(g, n, base, list, op)
    BY <2>1, Iterates, Zenon
  <2>6. \A s \in SUBSET (1 .. n) : s # {} => Max(s) \in 1 .. n /\ s \ {Max(s)} \in SUBSET (1 .. n)
    BY MaxIn, Zenon
  <2>7. \A s \in SUBSET (1 .. n) :
          g[s] = IF s = {} THEN base ELSE InsertFree(g[s \ {Max(s)}], list[Max(s)])
    BY <2>3, <2>5, <2>6, Zenon DEF Folding
  <2>8. g = Body(g)
    BY <2>7, Zenon
  <2> HIDE DEF Body
  <2> QED
    BY <2>8, Zenon
<1> DEFINE F == [i \in 0 .. n |-> it[1 .. i]]
<1> HIDE DEF it
<1>3. it[1 .. 0] = base
  BY <1>2
<1>4. ASSUME NEW i \in 1 .. n PROVE it[1 .. i] = InsertFree(it[1 .. (i - 1)], list[i])
  <2>1. /\ 1 .. i # {} /\ 1 .. i \in SUBSET (1 .. n)
        /\ Max(1 .. i) = i /\ (1 .. i) \ {i} = 1 .. (i - 1)
    BY Prefix, Zenon
  <2> QED
    BY <1>2, <2>1, Zenon
<1> HIDE DEF Body
<1>5. \A i \in 0 .. n : it[1 .. i] \in A
  <2> DEFINE T == {i \in 0 .. n : it[1 .. i] \in A}
  <2>1. 0 \in T
    BY <1>3
  <2>2. \A i \in 1 .. n : i - 1 \in T => i \in T
    BY <1>4
  <2>3. \A i \in 0 .. n : i \in T
    <3> HIDE DEF T
    <3> QED
      BY <2>1, <2>2, UpTo, Zenon
  <2> QED
    BY <2>3, Zenon
<1>6. /\ F \in [0 .. n -> A] /\ F[0] = base /\ F[n] = it[1 .. n]
      /\ \A i \in 1 .. n : F[i] = InsertFree(F[i - 1], list[i])
  BY <1>3, <1>4, <1>5
<1> HIDE DEF F
<1> QED
  BY <1>1, <1>6, Zenon DEF Inserts

LEMMA FoldMerge ==
  ASSUME NEW A, NEW B, NEW n \in Nat, NEW list \in [1 .. n -> B],
         NEW base \in A, \A l \in A, b \in B : MergeStep(l, b) \in A
  PROVE  \E F \in [0 .. n -> A] : Merges(F, n, base, list)
<1> DEFINE Body(h) == [s \in SUBSET (1 .. n) |->
             IF s = {} THEN base ELSE MergeStep(h[s \ {Max(s)}], list[Max(s)])]
           it == CHOOSE h : h = Body(h)
<1>1. FoldLeft(MergeStep, base, list) = it[1 .. n]
  BY Zenon DEF FoldLeft, MapThenFoldSet
<1>2. it = Body(it)
  <2> DEFINE op == [x \in A \X B |-> MergeStep(x[1], x[2])]
  <2>1. op \in [A \X B -> A]
    BY Zenon
  <2>3. \A l \in A, b \in B : op[<<l, b>>] = MergeStep(l, b)
    BY Zenon
  <2> HIDE DEF op
  <2>5. PICK g \in [SUBSET (1 .. n) -> A] : Folding(g, n, base, list, op)
    BY <2>1, Iterates, Zenon
  <2>6. \A s \in SUBSET (1 .. n) : s # {} => Max(s) \in 1 .. n /\ s \ {Max(s)} \in SUBSET (1 .. n)
    BY MaxIn, Zenon
  <2>7. \A s \in SUBSET (1 .. n) :
          g[s] = IF s = {} THEN base ELSE MergeStep(g[s \ {Max(s)}], list[Max(s)])
    BY <2>3, <2>5, <2>6, Zenon DEF Folding
  <2>8. g = Body(g)
    BY <2>7, Zenon
  <2> HIDE DEF Body
  <2> QED
    BY <2>8, Zenon
<1> DEFINE F == [i \in 0 .. n |-> it[1 .. i]]
<1> HIDE DEF it
<1>3. it[1 .. 0] = base
  BY <1>2
<1>4. ASSUME NEW i \in 1 .. n PROVE it[1 .. i] = MergeStep(it[1 .. (i - 1)], list[i])
  <2>1. /\ 1 .. i # {} /\ 1 .. i \in SUBSET (1 .. n)
        /\ Max(1 .. i) = i /\ (1 .. i) \ {i} = 1 .. (i - 1)
    BY Prefix, Zenon
  <2> QED
    BY <1>2, <2>1, Zenon
<1> HIDE DEF Body
<1>5. \A i \in 0 .. n : it[1 .. i] \in A
  <2> DEFINE T == {i \in 0 .. n : it[1 .. i] \in A}
  <2>1. 0 \in T
    BY <1>3
  <2>2. \A i \in 1 .. n : i - 1 \in T => i \in T
    BY <1>4
  <2>3. \A i \in 0 .. n : i \in T
    <3> HIDE DEF T
    <3> QED
      BY <2>1, <2>2, UpTo, Zenon
  <2> QED
    BY <2>3, Zenon
<1>6. /\ F \in [0 .. n -> A] /\ F[0] = base /\ F[n] = it[1 .. n]
      /\ \A i \in 1 .. n : F[i] = MergeStep(F[i - 1], list[i])
  BY <1>3, <1>4, <1>5
<1> HIDE DEF F
<1> QED
  BY <1>1, <1>6, Zenon DEF Merges

-----------------------------------------------------------------------------
(***************************************************************************)
(* Sets of blocks                                                          *)
(***************************************************************************)
\* The lengths of runs of lost headers.
Gaps == {x \in Nat : x % HDR = 0}

StartIn(s, B, t) == s = t \/ \E b \in B : s = b.va

EndIn(e, B) == e = 0 \/ \E b \in B : e = End(b)

\* Nothing but headers from e to s.
Lost(e, s, B) == s - e \in Gaps /\ \A b \in B : b.va < e \/ b.va >= s

Disjoint(B) == \A b, c \in B : b # c => Apart(b, c)

\* The blocks of B lie in the words below t, overlap nowhere and leave out
\* only headers.
Tiles(B, t) ==
  /\ B \subseteq BlockSet /\ t \in Nat
  /\ \A b \in B : End(b) <= t
  /\ Disjoint(B)
  /\ \A e : EndIn(e, B) => \E s : StartIn(s, B, t) /\ Lost(e, s, B)

LEMMA BlockFacts ==
  ASSUME NEW b \in BlockSet
  PROVE  /\ b.va \in Nat /\ b.size \in Nat /\ End(b) \in Nat /\ End(b) > b.va
         /\ End(b) = b.va + HDR + b.size
         /\ b = Block(b.va, b.size)
BY HeapAssumption DEF BlockSet, End, Block

LEMMA BlockIs ==
  ASSUME NEW v \in Nat, NEW n \in Nat
  PROVE  /\ Block(v, n) \in BlockSet /\ Block(v, n).va = v /\ Block(v, n).size = n
         /\ End(Block(v, n)) = v + HDR + n
BY HeapAssumption, Zenon DEF BlockSet, End, Block

LEMMA DivMod ==
  ASSUME NEW h \in Nat \ {0}, NEW x \in Int
  PROVE  x = h * (x \div h) + (x % h) /\ x % h \in 0 .. (h - 1) /\ x \div h \in Int
OBVIOUS

LEMMA DivNat ==
  ASSUME NEW h \in Nat \ {0}, NEW x \in Nat
  PROVE  x \div h \in Nat
OBVIOUS

LEMMA GapFacts ==
  /\ 0 \in Gaps /\ Gaps \subseteq Nat
  /\ \A x, y \in Gaps : x + HDR + y \in Gaps
<1>0. HDR \in Nat \ {0}
  BY HeapAssumption, Zenon
<1>1. ASSUME NEW x \in Nat PROVE x = HDR * (x \div HDR) + (x % HDR) /\ x \div HDR \in Nat
  <2>1. x \in Int
    OBVIOUS
  <2> QED
    BY <1>0, <2>1, DivMod, DivNat, Zenon
<1>2. \A m, h \in Nat : h # 0 => (h * m) % h = 0
  OBVIOUS
<1>3. \A x, y, h \in Nat : h * (x + y + 1) = h * x + h + h * y
  OBVIOUS
<1>4. 0 \in Gaps /\ Gaps \subseteq Nat
  BY <1>0 DEF Gaps
<1>5. ASSUME NEW x \in Gaps, NEW y \in Gaps PROVE x + HDR + y \in Gaps
  <2>1. x \in Nat /\ y \in Nat /\ x % HDR = 0 /\ y % HDR = 0
    BY Zenon DEF Gaps
  <2>2. PICK k \in Nat : x = HDR * k
    BY <1>0, <1>1, <2>1
  <2>3. PICK l \in Nat : y = HDR * l
    BY <1>0, <1>1, <2>1
  <2>4. x + HDR + y = HDR * (k + l + 1)
    BY <1>0, <1>3, <2>2, <2>3, Zenon
  <2>5. (x + HDR + y) % HDR = 0
    BY <1>0, <1>2, <2>4
  <2> QED
    BY <1>0, <2>1, <2>5 DEF Gaps
<1> QED
  BY <1>4, <1>5, Zenon

\* A header without contents is forgotten.
LEMMA TilesDrop ==
  ASSUME NEW B, NEW t, Tiles(B, t), NEW d \in B, d.size = 0
  PROVE  Tiles(B \ {d}, t)
<1> DEFINE C == B \ {d}
<1>0. \A b \in B : /\ b.va \in Nat /\ End(b) \in Nat /\ End(b) > b.va /\ End(b) <= t
                   /\ b # d => End(b) <= d.va \/ End(d) <= b.va
  BY BlockFacts, Zenon DEF Tiles, Disjoint, Apart
<1>1. End(d) = d.va + HDR /\ HDR \in Nat /\ t \in Nat
  BY BlockFacts, HeapAssumption DEF Tiles
<1>2. C \subseteq BlockSet /\ t \in Nat /\ (\A b \in C : End(b) <= t) /\ Disjoint(C)
  BY Zenon DEF Tiles, Disjoint
<1>3. ASSUME NEW e, EndIn(e, C) PROVE \E s : StartIn(s, C, t) /\ Lost(e, s, C)
  <2>1. e \in Nat
    BY <1>0, <1>3 DEF EndIn
  <2>2. EndIn(e, B) /\ EndIn(End(d), B)
    BY <1>3, Zenon DEF EndIn
  <2>3. PICK s : StartIn(s, B, t) /\ Lost(e, s, B)
    BY <2>2, Zenon DEF Tiles
  <2>4. PICK u : StartIn(u, B, t) /\ Lost(End(d), u, B)
    BY <2>2, Zenon DEF Tiles
  <2>5. s \in Nat /\ u \in Nat
    BY <1>0, <1>1, <2>3, <2>4, Zenon DEF StartIn
  <2>6. CASE StartIn(s, C, t)
    BY <2>3, <2>6, Zenon DEF Lost
  <2>7. CASE ~StartIn(s, C, t)
    <3>1. s = d.va
      BY <2>3, <2>7, Zenon DEF StartIn
    <3>2. StartIn(u, C, t)
      <4>1. u - End(d) \in Nat
        BY <2>4, GapFacts, Zenon DEF Lost
      <4>2. u # d.va
        BY <1>0, <2>5, <4>1
      <4> QED
        BY <2>4, <4>2, Zenon DEF StartIn
    <3>3. s - e \in Gaps /\ u - End(d) \in Gaps
      BY <2>3, <2>4, Zenon DEF Lost
    <3>4. u - e = (s - e) + HDR + (u - End(d))
      BY <1>0, <1>1, <2>1, <2>5, <3>1
    <3>5. u - e \in Gaps
      BY <3>3, <3>4, GapFacts, Zenon
    <3>6. ASSUME NEW b \in C PROVE b.va < e \/ b.va >= u
      <4>1. (b.va < e \/ b.va >= s) /\ (b.va < End(d) \/ b.va >= u)
        BY <2>3, <2>4, Zenon DEF Lost
      <4>2. End(b) <= d.va \/ End(d) <= b.va
        BY <1>0, Zenon
      <4> QED
        BY <1>0, <2>1, <2>5, <3>1, <4>1, <4>2
    <3> QED
      BY <3>2, <3>5, <3>6, Zenon DEF Lost
  <2> QED
    BY <2>6, <2>7, Zenon
<1> QED
  BY <1>2, <1>3, Zenon DEF Tiles

\* Neighbours become one block.
LEMMA TilesMerge ==
  ASSUME NEW B, NEW t, Tiles(B, t), NEW x \in B, NEW y \in B, NEW z \in BlockSet,
         End(x) = y.va, z.va = x.va, End(z) = End(y)
  PROVE  Tiles((B \ {x, y}) \cup {z}, t)
<1> DEFINE C == (B \ {x, y}) \cup {z}
<1>0. \A b \in B : /\ b.va \in Nat /\ End(b) \in Nat /\ End(b) > b.va /\ End(b) <= t
                   /\ b # x => End(b) <= x.va \/ End(x) <= b.va
                   /\ b # y => End(b) <= y.va \/ End(y) <= b.va
  BY BlockFacts, Zenon DEF Tiles, Disjoint, Apart
<1>1. t \in Nat /\ x # y
  BY <1>0 DEF Tiles
<1>a. \A b \in B \ {x, y} : End(b) <= z.va \/ End(z) <= b.va
  BY <1>0, <1>1
<1>2. C \subseteq BlockSet /\ t \in Nat /\ (\A b \in C : End(b) <= t)
  BY <1>0, Zenon DEF Tiles
<1>3. Disjoint(C)
  BY <1>a, Zenon DEF Tiles, Disjoint, Apart
<1>4. ASSUME NEW e, EndIn(e, C) PROVE \E s : StartIn(s, C, t) /\ Lost(e, s, C)
  <2>1. e \in Nat /\ EndIn(e, B)
    BY <1>0, <1>4 DEF EndIn
  <2>2. PICK s : StartIn(s, B, t) /\ Lost(e, s, B)
    BY <2>1, Zenon DEF Tiles
  <2>3. s \in Nat /\ s >= e
    <3>1. s \in Nat
      BY <1>0, <1>1, <2>2, Zenon DEF StartIn
    <3>2. s - e \in Nat
      BY <2>2, GapFacts, Zenon DEF Lost
    <3> QED
      BY <2>1, <3>1, <3>2
  <2>4. Lost(e, s, C)
    BY <2>2, Zenon DEF Lost
  <2>5. s # y.va
    <3> SUFFICES ASSUME s = y.va PROVE FALSE
      BY Zenon
    <3>1. x.va < e
      BY <1>0, <2>2 DEF Lost
    <3>2. PICK c \in C : e = End(c)
      BY <1>0, <1>4, <3>1 DEF EndIn
    <3> QED
      BY <1>0, <1>1, <1>a, <2>3, <3>1, <3>2
  <2>6. StartIn(s, C, t)
    BY <2>2, <2>5, Zenon DEF StartIn
  <2> QED
    BY <2>4, <2>6, Zenon
<1> QED
  BY <1>2, <1>3, <1>4, Zenon DEF Tiles

\* A block becomes two.
LEMMA TilesSplit ==
  ASSUME NEW B, NEW t, Tiles(B, t), NEW x \in B, NEW a \in BlockSet, NEW r \in BlockSet,
         a.va = x.va, r.va = End(a), End(r) = End(x)
  PROVE  Tiles((B \ {x}) \cup {a, r}, t)
<1> DEFINE C == (B \ {x}) \cup {a, r}
<1>0. \A b \in B : /\ b.va \in Nat /\ End(b) \in Nat /\ End(b) > b.va /\ End(b) <= t
                   /\ b # x => End(b) <= x.va \/ End(x) <= b.va
  BY BlockFacts, Zenon DEF Tiles, Disjoint, Apart
<1>1. /\ t \in Nat /\ a.va \in Nat /\ End(a) \in Nat /\ End(a) > a.va
      /\ r.va \in Nat /\ End(r) \in Nat /\ End(r) > r.va
  BY BlockFacts, Zenon DEF Tiles
<1>a. \A b \in B \ {x} : /\ End(b) <= a.va \/ End(a) <= b.va
                         /\ End(b) <= r.va \/ End(r) <= b.va
  BY <1>0, <1>1
<1>2. C \subseteq BlockSet /\ t \in Nat /\ (\A b \in C : End(b) <= t)
  BY <1>0, <1>1 DEF Tiles
<1>3. Disjoint(C)
  BY <1>1, <1>a DEF Tiles, Disjoint, Apart
<1>4. ASSUME NEW e, EndIn(e, C) PROVE \E s : StartIn(s, C, t) /\ Lost(e, s, C)
  <2>1. CASE e = End(a)
    <3>1. StartIn(r.va, C, t)
      BY Zenon DEF StartIn
    <3>2. r.va - e = 0
      BY <1>1, <2>1
    <3>3. \A b \in C : b.va < e \/ b.va >= r.va
      BY <1>0, <1>1, <2>1
    <3> QED
      BY <3>1, <3>2, <3>3, GapFacts, Zenon DEF Lost
  <2>2. CASE e # End(a)
    <3>1. e \in Nat /\ EndIn(e, B)
      BY <1>0, <1>4, <2>2 DEF EndIn
    <3>2. PICK s : StartIn(s, B, t) /\ Lost(e, s, B)
      BY <3>1, Zenon DEF Tiles
    <3>3. s \in Nat
      BY <1>0, <1>1, <3>2, Zenon DEF StartIn
    <3>4. StartIn(s, C, t)
      BY <3>2, Zenon DEF StartIn
    <3>5. r.va < e \/ r.va >= s
      <4>1. x.va < e \/ x.va >= s
        BY <3>2, Zenon DEF Lost
      <4>2. CASE e = 0
        BY <1>0, <1>1, <3>3, <4>1, <4>2
      <4>3. ASSUME NEW c \in B, e = End(c) PROVE r.va < e \/ r.va >= s
        BY <1>0, <1>1, <3>3, <4>1, <4>3
      <4> QED
        BY <3>1, <4>2, <4>3, Zenon DEF EndIn
    <3>6. Lost(e, s, C)
      BY <3>2, <3>5, Zenon DEF Lost
    <3> QED
      BY <3>4, <3>6, Zenon
  <2> QED
    BY <2>1, <2>2, Zenon
<1> QED
  BY <1>2, <1>3, <1>4, Zenon DEF Tiles

\* The heap grows by a block.
LEMMA TilesGrow ==
  ASSUME NEW B, NEW t, Tiles(B, t), NEW z \in BlockSet, z.va = t
  PROVE  Tiles(B \cup {z}, End(z))
<1> DEFINE C == B \cup {z}  u == End(z)
<1>0. \A b \in B : b.va \in Nat /\ End(b) \in Nat /\ End(b) > b.va /\ End(b) <= t
  BY BlockFacts, Zenon DEF Tiles
<1>1. t \in Nat /\ u \in Nat /\ u > t
  BY BlockFacts, Zenon DEF Tiles
<1>2. C \subseteq BlockSet /\ \A b \in C : End(b) <= u
  BY <1>0, <1>1 DEF Tiles
<1>3. Disjoint(C)
  BY <1>0, Zenon DEF Tiles, Disjoint, Apart
<1>4. ASSUME NEW e, EndIn(e, C) PROVE \E s : StartIn(s, C, u) /\ Lost(e, s, C)
  <2>1. CASE EndIn(e, B)
    <3>1. PICK s : StartIn(s, B, t) /\ Lost(e, s, B)
      BY <2>1, Zenon DEF Tiles
    <3>2. StartIn(s, C, u)
      BY <3>1, Zenon DEF StartIn
    <3>3. s \in Nat /\ s <= t
      BY <1>0, <1>1, <3>1 DEF StartIn
    <3>4. Lost(e, s, C)
      BY <3>1, <3>3, Zenon DEF Lost
    <3> QED
      BY <3>2, <3>4, Zenon
  <2>2. CASE ~EndIn(e, B)
    <3>1. e = u
      BY <1>4, <2>2, Zenon DEF EndIn
    <3>2. StartIn(u, C, u)
      BY Zenon DEF StartIn
    <3>3. u - u = 0 /\ \A b \in C : b.va < u
      BY <1>0, <1>1
    <3> QED
      BY <3>1, <3>2, <3>3, GapFacts, Zenon DEF Lost
  <2> QED
    BY <2>1, <2>2, Zenon
<1>5. u \in Nat
  BY <1>1, Zenon
<1> HIDE DEF u
<1> QED
  BY <1>2, <1>3, <1>4, <1>5, Zenon DEF Tiles, u

\* The highest block grows.
LEMMA TilesExtend ==
  ASSUME NEW B, NEW t, Tiles(B, t), NEW x \in B, End(x) = t,
         NEW z \in BlockSet, z.va = x.va, End(z) >= t
  PROVE  Tiles((B \ {x}) \cup {z}, End(z))
<1> DEFINE C == (B \ {x}) \cup {z}  u == End(z)
<1>0. \A b \in B : /\ b.va \in Nat /\ End(b) \in Nat /\ End(b) > b.va /\ End(b) <= t
                   /\ b # x => End(b) <= x.va \/ End(x) <= b.va
  BY BlockFacts, Zenon DEF Tiles, Disjoint, Apart
<1>1. t \in Nat /\ u \in Nat /\ u >= t /\ u > z.va
  BY BlockFacts, Zenon DEF Tiles
<1>a. \A b \in B \ {x} : End(b) <= z.va
  BY <1>0, <1>1
<1>2. C \subseteq BlockSet /\ \A b \in C : End(b) <= u
  BY <1>0, <1>1 DEF Tiles
<1>3. Disjoint(C)
  BY <1>a, Zenon DEF Tiles, Disjoint, Apart
<1>4. ASSUME NEW e, EndIn(e, C) PROVE \E s : StartIn(s, C, u) /\ Lost(e, s, C)
  <2>1. CASE e = u
    <3>1. StartIn(u, C, u)
      BY Zenon DEF StartIn
    <3>2. u - u = 0 /\ \A b \in C : b.va < u
      BY <1>0, <1>1
    <3> QED
      BY <2>1, <3>1, <3>2, GapFacts, Zenon DEF Lost
  <2>2. CASE e # u
    <3>1. EndIn(e, B) /\ e \in Nat /\ e <= x.va
      BY <1>0, <1>4, <1>a, <2>2 DEF EndIn
    <3>2. PICK s : StartIn(s, B, t) /\ Lost(e, s, B)
      BY <3>1, Zenon DEF Tiles
    <3>3. x.va >= s
      BY <1>0, <3>1, <3>2 DEF Lost
    <3>4. s # t
      BY <1>0, <1>1, <3>3
    <3>5. StartIn(s, C, u)
      BY <3>2, <3>4, Zenon DEF StartIn
    <3>6. Lost(e, s, C)
      BY <3>2, Zenon DEF Lost
    <3> QED
      BY <3>5, <3>6, Zenon
  <2> QED
    BY <2>1, <2>2, Zenon
<1>5. u \in Nat
  BY <1>1, Zenon
<1> QED
  BY <1>2, <1>3, <1>4, <1>5, Zenon DEF Tiles

-----------------------------------------------------------------------------
(***************************************************************************)
(* The operations on lists                                                 *)
(***************************************************************************)
LEMMA RangeFacts ==
  ASSUME NEW S, NEW s \in Seq(S)
  PROVE  /\ Range(s) \subseteq S /\ Len(s) \in Nat
         /\ \A x : x \in Range(s) <=> \E i \in 1 .. Len(s) : x = s[i]
BY LenProperties DEF Range

LEMMA RangeAppend ==
  ASSUME NEW S, NEW s \in Seq(S), NEW e \in S
  PROVE  Range(Append(s, e)) = Range(s) \cup {e}
<1> DEFINE r == Append(s, e)  n == Len(s)
<1>1. n \in Nat /\ r \in Seq(S) /\ Len(r) = n + 1 /\ r[n + 1] = e /\ \A i \in 1 .. n : r[i] = s[i]
  OBVIOUS
<1>2. \A x : x \in Range(s) <=> \E i \in 1 .. n : x = s[i]
  BY RangeFacts, Zenon
<1> HIDE DEF n, r
<1>3. \A x : x \in Range(r) <=> \E i \in 1 .. (n + 1) : x = r[i]
  BY <1>1, RangeFacts
<1>4. Range(r) = Range(s) \cup {e}
  BY <1>1, <1>2, <1>3
<1> QED
  BY <1>4, Zenon DEF r

\* Where insert_free_block puts a block.
Place(list, b) == SelectInSeq(list, LAMBDA c : c.va >= b.va)

LEMMA PlaceFacts ==
  ASSUME NEW list \in Seq(BlockSet), NEW b \in BlockSet
  PROVE  /\ Place(list, b) \in 0 .. Len(list)
         /\ Place(list, b) # 0 => list[Place(list, b)].va >= b.va
         /\ \A i \in 1 .. Len(list) : Place(list, b) = 0 \/ i < Place(list, b) => list[i].va < b.va
<1> DEFINE I == {i \in 1 .. Len(list) : list[i].va >= b.va}
<1>0. b.va \in Nat /\ Len(list) \in Nat /\ \A i \in 1 .. Len(list) : list[i].va \in Nat
  BY LenProperties, BlockFacts, Zenon
<1>1. Place(list, b) = IF I # {} THEN Min(I) ELSE 0
  BY Zenon DEF Place, SelectInSeq
<1>2. I \in SUBSET Nat
  BY <1>0
<1>3. I # {} => Min(I) \in I /\ \A x \in I : Min(I) <= x
  <2> HIDE DEF I
  <2> QED
    BY <1>2, MinIs, Zenon
<1>4. CASE I = {}
  BY <1>0, <1>1, <1>4
<1>5. CASE I # {}
  <2>1. Place(list, b) \in I /\ \A x \in I : Place(list, b) <= x
    BY <1>1, <1>3, <1>5, Zenon
  <2> HIDE DEF Place
  <2> QED
    BY <1>0, <2>1
<1> QED
  BY <1>4, <1>5, Zenon

LEMMA InsertType ==
  ASSUME NEW list \in Seq(BlockSet), NEW b \in BlockSet
  PROVE  InsertFree(list, b) \in Seq(BlockSet)
<1>1. InsertFree(list, b) = IF list # << >> /\ b.size = 0 THEN list
                            ELSE IF Place(list, b) = 0 THEN Append(list, b)
                            ELSE InsertAt(list, Place(list, b), b)
  BY Zenon DEF InsertFree, Place
<1>2. Place(list, b) # 0 => Place(list, b) \in 1 .. (Len(list) + 1)
  BY PlaceFacts, LenProperties
<1> QED
  BY <1>1, <1>2, InsertAtFacts, AppendProperties

\* insert_free_block keeps the order, if the block overlaps none in the list.
LEMMA InsertSorted ==
  ASSUME NEW list \in Seq(BlockSet), Sorted(list), NEW b \in BlockSet,
         \A c \in Range(list) : Apart(b, c)
  PROVE  /\ Sorted(InsertFree(list, b))
         /\ Range(InsertFree(list, b)) =
              IF list # << >> /\ b.size = 0 THEN Range(list) ELSE Range(list) \cup {b}
<1> DEFINE n == Len(list)  k == Place(list, b)  r == InsertFree(list, b)
           V(i) == list[i].va  E(i) == End(list[i])
<1>0. n \in Nat /\ \A i \in 1 .. n : V(i) \in Nat /\ E(i) \in Nat /\ E(i) > V(i)
  BY LenProperties, BlockFacts, Zenon
<1>1. b.va \in Nat /\ End(b) \in Nat /\ End(b) > b.va
  BY BlockFacts, Zenon
<1>2. \A i \in 1 .. n : End(b) <= V(i) \/ E(i) <= b.va
  BY RangeFacts, Zenon DEF Apart
<1>3. \A i, j \in 1 .. n : i < j => E(i) <= V(j)
  BY Zenon DEF Sorted
<1>4. k \in 0 .. n /\ (k # 0 => V(k) >= b.va)
      /\ \A i \in 1 .. n : k = 0 \/ i < k => V(i) < b.va
  BY PlaceFacts, Zenon
<1>5. r = IF list # << >> /\ b.size = 0 THEN list
          ELSE IF k = 0 THEN Append(list, b) ELSE InsertAt(list, k, b)
  BY Zenon DEF InsertFree, Place
<1> HIDE DEF n, k, r, V, E
<1>6. \A i \in 1 .. n : k = 0 \/ i < k => E(i) <= b.va
  BY <1>0, <1>1, <1>2, <1>4
<1>7. \A i \in 1 .. n : k # 0 /\ i >= k => End(b) <= V(i)
  <2> SUFFICES ASSUME NEW i \in 1 .. n, k # 0, i >= k PROVE End(b) <= V(i)
    BY Zenon
  <2>1. V(i) >= b.va
    BY <1>0, <1>1, <1>3, <1>4
  <2> QED
    BY <1>0, <1>1, <1>2, <2>1
<1>8. CASE list # << >> /\ b.size = 0
  BY <1>5, <1>8, Zenon DEF r
<1>9. CASE ~(list # << >> /\ b.size = 0) /\ k = 0
  <2>1. r = Append(list, b)
    BY <1>5, <1>9, Zenon
  <2>2. r \in Seq(BlockSet) /\ Len(r) = n + 1 /\ r[n + 1] = b /\ \A i \in 1 .. n : r[i] = list[i]
    BY <2>1, AppendProperties DEF n
  <2>3. Sorted(r)
    <3>1. \A i \in 1 .. n : r[i].va = V(i) /\ End(r[i]) = E(i)
      BY <2>2, Zenon DEF V, E
    <3>2. r[n + 1].va = b.va
      BY <2>2, Zenon
    <3>3. ASSUME NEW i \in 1 .. (n + 1), NEW j \in 1 .. (n + 1), i < j
          PROVE  End(r[i]) <= r[j].va
      <4>1. i \in 1 .. n /\ (j \in 1 .. n \/ j = n + 1)
        BY <1>0, <3>3
      <4> QED
        BY <1>3, <1>6, <1>9, <3>1, <3>2, <3>3, <4>1, Zenon
    <3> QED
      BY <2>2, <3>3, Zenon DEF Sorted
  <2>4. \A x : x \in Range(r) <=> x = b \/ \E i \in 1 .. n : x = list[i]
    <3>1. \A x : x \in Range(r) <=> \E i \in 1 .. (n + 1) : x = r[i]
      BY <2>2, RangeFacts
    <3> QED
      BY <1>0, <2>2, <3>1
  <2>5. Range(r) = Range(list) \cup {b}
    BY <2>4, RangeFacts, Zenon DEF n
  <2> QED
    BY <1>9, <2>3, <2>5, Zenon DEF r
<1>10. CASE ~(list # << >> /\ b.size = 0) /\ k # 0
  <2>1. r = InsertAt(list, k, b) /\ k \in 1 .. (n + 1) /\ k \in 1 .. n
    BY <1>0, <1>4, <1>5, <1>10
  <2>2. /\ r \in Seq(BlockSet) /\ Len(r) = n + 1
        /\ \A i \in 1 .. (n + 1) : r[i] = IF i < k THEN list[i] ELSE IF i = k THEN b ELSE list[i - 1]
    BY <2>1, InsertAtFacts DEF n
  <2>3. Sorted(r)
    <3> SUFFICES ASSUME NEW i \in 1 .. (n + 1), NEW j \in 1 .. (n + 1), i < j
                 PROVE  End(r[i]) <= r[j].va
      BY <2>2, Zenon DEF Sorted
    <3>0. \A l \in 1 .. (n + 1) :
            /\ l < k => r[l].va = V(l) /\ End(r[l]) = E(l)
            /\ l = k => r[l].va = b.va /\ End(r[l]) = End(b)
            /\ l > k => r[l].va = V(l - 1) /\ End(r[l]) = E(l - 1)
      BY <1>0, <2>1, <2>2 DEF V, E
    <3>1. CASE i < k /\ j < k
      <4>1. i \in 1 .. n /\ j \in 1 .. n
        BY <1>0, <2>1, <3>1
      <4> QED
        BY <1>3, <3>0, <3>1, <4>1, Zenon
    <3>2. CASE i < k /\ j = k
      <4>1. i \in 1 .. n
        BY <1>0, <2>1, <3>2
      <4> QED
        BY <1>6, <3>0, <3>2, <4>1, Zenon
    <3>3. CASE i < k /\ j > k
      <4>1. i \in 1 .. n /\ j - 1 \in 1 .. n /\ i < j - 1
        BY <1>0, <2>1, <3>3
      <4> QED
        BY <1>3, <3>0, <3>3, <4>1, Zenon
    <3>4. CASE i = k
      <4>1. j > k /\ k # 0 /\ j - 1 >= k /\ j - 1 \in 1 .. n
        BY <1>0, <2>1, <3>4
      <4> QED
        BY <1>7, <3>0, <3>4, <4>1, Zenon
    <3>5. CASE i > k
      <4>1. j > k /\ i - 1 \in 1 .. n /\ j - 1 \in 1 .. n /\ i - 1 < j - 1
        BY <1>0, <2>1, <3>5
      <4> QED
        BY <1>3, <3>0, <3>5, <4>1, Zenon
    <3> QED
      BY <1>0, <2>1, <3>1, <3>2, <3>3, <3>4, <3>5
  <2>4. \A x : x \in Range(r) <=> x = b \/ \E i \in 1 .. n : x = list[i]
    <3>1. \A x : x \in Range(r) <=> \E i \in 1 .. (n + 1) : x = r[i]
      BY <2>2, RangeFacts
    <3>2. ASSUME NEW i \in 1 .. n PROVE \E j \in 1 .. (n + 1) : list[i] = r[j]
      <4>1. CASE i < k
        BY <1>0, <2>1, <2>2, <4>1
      <4>2. CASE i >= k
        <5>1. i + 1 \in 1 .. (n + 1) /\ ~(i + 1 < k) /\ i + 1 # k /\ (i + 1) - 1 = i
          BY <1>0, <2>1, <4>2
        <5> QED
          BY <2>2, <5>1, Zenon
      <4> QED
        BY <1>0, <2>1, <4>1, <4>2
    <3>3. r[k] = b /\ k \in 1 .. (n + 1)
      BY <2>1, <2>2
    <3>4. ASSUME NEW i \in 1 .. (n + 1) PROVE r[i] = b \/ \E j \in 1 .. n : r[i] = list[j]
      <4>1. (i < k /\ i \in 1 .. n) \/ i = k \/ (~(i < k) /\ i # k /\ i - 1 \in 1 .. n)
        BY <1>0, <2>1
      <4> QED
        BY <2>2, <4>1
    <3> QED
      BY <3>1, <3>2, <3>3, <3>4
  <2>5. Range(r) = Range(list) \cup {b}
    BY <2>4, RangeFacts, Zenon DEF n
  <2> QED
    BY <1>10, <2>3, <2>5, Zenon DEF r
<1> QED
  BY <1>8, <1>9, <1>10, Zenon

-----------------------------------------------------------------------------
(***************************************************************************)
(* Lists and the blocks beside them                                        *)
(***************************************************************************)
\* The list is in order, and tiles the heap below t together with the blocks
\* of C.
Keeps(list, C, t) ==
  /\ list \in Seq(BlockSet) /\ Sorted(list)
  /\ Range(list) \cap C = {}
  /\ Tiles(Range(list) \cup C, t)

LEMMA KeepsFacts ==
  ASSUME NEW list, NEW C, NEW t, Keeps(list, C, t)
  PROVE  /\ C \subseteq BlockSet /\ t \in Nat
         /\ \A b \in Range(list) \cup C : /\ b \in BlockSet /\ b.va \in Nat /\ End(b) \in Nat
                                          /\ End(b) > b.va /\ End(b) <= t
         /\ \A b, c \in Range(list) \cup C : b # c => Apart(b, c)
BY BlockFacts, Zenon DEF Keeps, Tiles, Disjoint

LEMMA SortedInjective ==
  ASSUME NEW list \in Seq(BlockSet), Sorted(list)
  PROVE  \A i, j \in 1 .. Len(list) : list[i] = list[j] => i = j
<1> SUFFICES ASSUME NEW i \in 1 .. Len(list), NEW j \in 1 .. Len(list), list[i] = list[j], i # j
             PROVE  FALSE
  BY Zenon
<1>1. list[i] \in BlockSet /\ (i < j \/ j < i)
  BY LenProperties
<1>2. End(list[i]) <= list[i].va
  BY <1>1, Zenon DEF Sorted
<1> QED
  BY <1>1, <1>2, BlockFacts

\* insert_free_block: a block beside the list goes into it.
LEMMA InsertKeeps ==
  ASSUME NEW list, NEW C, NEW t, NEW b, Keeps(list, C \cup {b}, t), b \notin C
  PROVE  Keeps(InsertFree(list, b), C, t)
<1> DEFINE B == Range(list) \cup (C \cup {b})
<1>1. list \in Seq(BlockSet) /\ Sorted(list) /\ Tiles(B, t) /\ Range(list) \cap (C \cup {b}) = {}
  BY Zenon DEF Keeps
<1>2. b \in BlockSet /\ \A c \in Range(list) : Apart(b, c)
  BY <1>1, KeepsFacts
<1>3. InsertFree(list, b) \in Seq(BlockSet) /\ Sorted(InsertFree(list, b))
  BY <1>1, <1>2, InsertType, InsertSorted, Zenon
<1>4. CASE list # << >> /\ b.size = 0
  <2>1. Range(InsertFree(list, b)) = Range(list)
    BY <1>1, <1>2, <1>4, InsertSorted, Zenon
  <2>2. B \ {b} = Range(list) \cup C
    BY <1>1, Zenon
  <2>3. Tiles(B \ {b}, t)
    BY <1>1, <1>4, TilesDrop, Zenon
  <2> QED
    BY <1>1, <1>3, <2>1, <2>2, <2>3, Zenon DEF Keeps
<1>5. CASE ~(list # << >> /\ b.size = 0)
  <2>1. Range(InsertFree(list, b)) = Range(list) \cup {b}
    BY <1>1, <1>2, <1>5, InsertSorted, Zenon
  <2>2. B = Range(InsertFree(list, b)) \cup C
    BY <2>1, Zenon
  <2> QED
    BY <1>1, <1>3, <2>1, <2>2, Zenon DEF Keeps
<1> QED
  BY <1>4, <1>5, Zenon

\* The blocks of a list behind its i-th.
Rest(list, i) == {list[j] : j \in (i + 1) .. Len(list)}

LEMMA RestFacts ==
  ASSUME NEW list \in Seq(BlockSet), Sorted(list)
  PROVE  /\ Rest(list, 0) = Range(list) /\ Rest(list, Len(list)) = {}
         /\ \A i \in 1 .. Len(list) : /\ Rest(list, i - 1) = Rest(list, i) \cup {list[i]}
                                      /\ list[i] \notin Rest(list, i)
                                      /\ list[i] \in Range(list)
                                      /\ Rest(list, i) \subseteq Range(list)
<1>0. Len(list) \in Nat
  BY LenProperties, Zenon
<1>1. Rest(list, 0) = Range(list) /\ Rest(list, Len(list)) = {}
  BY <1>0, RangeFacts DEF Rest
<1>2. ASSUME NEW i \in 1 .. Len(list)
      PROVE  Rest(list, i - 1) = Rest(list, i) \cup {list[i]}
  <2>1. (i - 1) + 1 = i /\ i .. Len(list) = ((i + 1) .. Len(list)) \cup {i}
    BY <1>0
  <2> QED
    BY <2>1, Zenon DEF Rest
<1>3. ASSUME NEW i \in 1 .. Len(list) PROVE list[i] \notin Rest(list, i)
  BY <1>0, SortedInjective DEF Rest
<1>4. ASSUME NEW i \in 1 .. Len(list) PROVE list[i] \in Range(list) /\ Rest(list, i) \subseteq Range(list)
  BY <1>0, RangeFacts DEF Rest
<1> QED
  BY <1>1, <1>2, <1>3, <1>4, Zenon

\* sort_free_list_ascend keeps the tiling: it loses headers only.
LEMMA SortKeeps ==
  ASSUME NEW list, NEW C, NEW t, Keeps(list, C, t)
  PROVE  Keeps(SortFree(list), C, t)
<1> DEFINE n == Len(list)  A == Seq(BlockSet)
<1>0. list \in A /\ Sorted(list) /\ Range(list) \cap C = {} /\ Tiles(Range(list) \cup C, t)
  BY Zenon DEF Keeps
<1>1. n \in Nat /\ list \in [1 .. n -> BlockSet] /\ << >> \in A
  BY <1>0, LenProperties
<1>2. \A l \in A, b \in BlockSet : InsertFree(l, b) \in A
  BY InsertType, Zenon
<1>3. PICK F \in [0 .. n -> A] : Inserts(F, n, << >>, list)
  <2> HIDE DEF n, A
  <2> QED
    BY <1>1, <1>2, FoldInsert, Zenon
<1>4. /\ F[0] = << >> /\ SortFree(list) = F[n]
      /\ \A i \in 1 .. n : F[i] = InsertFree(F[i - 1], list[i])
  BY <1>3, Zenon DEF SortFree, Inserts
<1> DEFINE D(i) == Rest(list, i) \cup C
           T == {i \in 0 .. n : Keeps(F[i], D(i), t)}
<1>5. D(0) = Range(list) \cup C /\ D(n) = C
  BY <1>0, RestFacts, Zenon
<1>6. \A i \in 1 .. n : D(i - 1) = D(i) \cup {list[i]} /\ list[i] \notin D(i)
  BY <1>0, RestFacts, Zenon
<1> HIDE DEF D, n, A
<1>7. 0 \in T
  <2>1. << >> \in Seq(BlockSet) /\ Sorted(<< >>) /\ Range(<< >>) = {}
    BY DEF Sorted, Range
  <2>2. Range(<< >>) \cup D(0) = Range(list) \cup C
    BY <1>5, <2>1, Zenon
  <2> QED
    BY <1>0, <1>1, <1>4, <2>1, <2>2 DEF Keeps
<1>8. ASSUME NEW i \in 1 .. n, i - 1 \in T PROVE i \in T
  <2>1. Keeps(F[i - 1], D(i) \cup {list[i]}, t) /\ list[i] \notin D(i)
    BY <1>6, <1>8, Zenon
  <2>2. Keeps(InsertFree(F[i - 1], list[i]), D(i), t)
    BY <2>1, InsertKeeps, Zenon
  <2> QED
    BY <1>1, <1>4, <2>2
<1>9. n \in T
  <2>1. \A i \in 0 .. n : i \in T
    <3> HIDE DEF T
    <3> QED
      BY <1>1, <1>7, <1>8, UpTo, Zenon
  <2> QED
    BY <1>1, <2>1
<1> QED
  BY <1>4, <1>5, <1>9, Zenon

\* One step of merge_free_blocks: a block behind the list goes to its end, or
\* into its last block.
LEMMA MergeStepKeeps ==
  ASSUME NEW list, NEW C, NEW t, NEW b, Keeps(list, C \cup {b}, t), b \notin C,
         \A x \in Range(list) : End(x) <= b.va
  PROVE  /\ Keeps(MergeStep(list, b), C, t)
         /\ \A x \in Range(MergeStep(list, b)) : End(x) <= End(b)
<1> DEFINE B == Range(list) \cup (C \cup {b})  n == Len(list)
<1>1. list \in Seq(BlockSet) /\ Sorted(list) /\ Tiles(B, t) /\ Range(list) \cap (C \cup {b}) = {}
  BY Zenon DEF Keeps
<1>2. b \in BlockSet /\ b.va \in Nat /\ b.size \in Nat /\ End(b) \in Nat /\ End(b) > b.va
  BY KeepsFacts, BlockFacts, Zenon
<1>3. /\ n \in Nat /\ \A i, j \in 1 .. n : i < j => End(list[i]) <= list[j].va
      /\ \A i \in 1 .. n : /\ list[i] \in BlockSet /\ list[i] \in Range(list)
                           /\ list[i].va \in Nat /\ End(list[i]) \in Nat /\ End(list[i]) <= b.va
  BY <1>1, RangeFacts, BlockFacts, Zenon DEF Sorted
<1>4. CASE ~(list # << >> /\ End(Last(list)) = b.va /\ PageOf(Last(list)) = PageOf(b))
  <2> DEFINE r == Append(list, b)
  <2>1. MergeStep(list, b) = r
    BY <1>4, Zenon DEF MergeStep
  <2>2. r \in Seq(BlockSet) /\ Len(r) = n + 1 /\ r[n + 1] = b /\ \A i \in 1 .. n : r[i] = list[i]
    BY <1>1, <1>2, AppendProperties
  <2>3. Range(r) = Range(list) \cup {b}
    BY <1>1, <1>2, RangeAppend, Zenon
  <2> HIDE DEF r, n
  <2>4. Sorted(r)
    <3> SUFFICES ASSUME NEW i \in 1 .. (n + 1), NEW j \in 1 .. (n + 1), i < j
                 PROVE  End(r[i]) <= r[j].va
      BY <2>2, Zenon DEF Sorted
    <3>1. i \in 1 .. n /\ (j \in 1 .. n \/ j = n + 1)
      BY <1>3
    <3> QED
      BY <1>3, <2>2, <3>1, Zenon
  <2>5. Range(r) \cup C = B
    BY <2>3, Zenon
  <2>6. \A x \in Range(r) : End(x) <= End(b)
    BY <1>2, <1>3, <2>3, KeepsFacts
  <2> QED
    BY <1>1, <2>1, <2>2, <2>3, <2>4, <2>5, <2>6, Zenon DEF Keeps
<1>5. CASE list # << >> /\ End(Last(list)) = b.va /\ PageOf(Last(list)) = PageOf(b)
  <2> DEFINE x == Last(list)  z == Block(x.va, x.size + HDR + b.size)
             f == Front(list)  r == Append(f, z)
  <2>1. MergeStep(list, b) = r
    BY <1>5, Zenon DEF MergeStep
  <2>2. /\ f \in Seq(BlockSet) /\ Len(f) = n - 1 /\ n \in Nat \ {0} /\ x = list[n] /\ x \in BlockSet
        /\ \A i \in 1 .. (n - 1) : f[i] = list[i]
    BY <1>1, <1>5, FrontFacts
  <2>3. z \in BlockSet /\ z.va = x.va /\ End(z) = End(b)
    <3>1. x.va \in Nat /\ x.size \in Nat /\ End(x) = x.va + HDR + x.size /\ End(x) = b.va
      BY <1>5, <2>2, BlockFacts, Zenon
    <3>2. End(b) = b.va + HDR + b.size /\ HDR \in Nat /\ x.size + HDR + b.size \in Nat
      BY <1>2, <3>1, BlockFacts, HeapAssumption
    <3>3. z \in BlockSet /\ z.va = x.va /\ End(z) = x.va + HDR + (x.size + HDR + b.size)
      BY <3>1, <3>2, BlockIs, Zenon
    <3> QED
      BY <1>2, <3>1, <3>2, <3>3
  <2> HIDE DEF x, z, f
  <2>4. /\ r \in Seq(BlockSet) /\ Len(r) = n /\ r[n] = z /\ \A i \in 1 .. (n - 1) : r[i] = list[i]
        /\ Range(r) = Range(f) \cup {z}
    BY <2>2, <2>3, AppendProperties, RangeAppend
  <2>5. Range(f) = Range(list) \ {x}
    <3>1. \A y : y \in Range(f) <=> \E i \in 1 .. (n - 1) : y = list[i]
      BY <2>2, RangeFacts
    <3>2. \A y : y \in Range(list) <=> \E i \in 1 .. n : y = list[i]
      BY <1>1, RangeFacts, Zenon
    <3>3. \A i \in 1 .. (n - 1) : list[i] # list[n]
      BY <1>1, <2>2, SortedInjective
    <3> QED
      BY <2>2, <3>1, <3>2, <3>3
  <2> HIDE DEF r, n
  <2>6. Sorted(r)
    <3> SUFFICES ASSUME NEW i \in 1 .. n, NEW j \in 1 .. n, i < j PROVE End(r[i]) <= r[j].va
      BY <2>4, Zenon DEF Sorted
    <3>1. i \in 1 .. (n - 1) /\ (j \in 1 .. (n - 1) \/ j = n)
      BY <2>2
    <3>2. End(list[i]) <= list[j].va
      BY <1>3, Zenon
    <3> QED
      BY <2>2, <2>3, <2>4, <3>1, <3>2, Zenon
  <2>7. x \in Range(list) /\ x \in B /\ b \in B /\ End(x) = b.va
    BY <1>3, <1>5, <2>2 DEF x
  <2>8. Tiles((B \ {x, b}) \cup {z}, t)
    BY <1>1, <2>3, <2>7, TilesMerge, Zenon
  <2>9. (B \ {x, b}) \cup {z} = Range(r) \cup C
    BY <1>1, <2>4, <2>5, <2>7
  <2>10. Range(r) \cap C = {}
    <3>1. z \notin C
      <4> SUFFICES ASSUME z \in C PROVE FALSE
        BY Zenon
      <4>1. End(z) <= x.va \/ End(x) <= z.va
        BY <1>1, <2>7, KeepsFacts, Zenon DEF Apart
      <4>2. x.va \in Nat /\ End(x) \in Nat /\ End(x) > x.va /\ End(z) \in Nat /\ End(z) > z.va
        BY <2>7, KeepsFacts, Zenon
      <4> QED
        BY <2>3, <4>1, <4>2
    <3> QED
      BY <1>1, <2>4, <2>5, <3>1, Zenon
  <2>11. \A y \in Range(r) : End(y) <= End(b)
    BY <1>2, <1>3, <2>3, <2>4, <2>5, KeepsFacts
  <2> QED
    BY <2>1, <2>4, <2>6, <2>8, <2>9, <2>10, <2>11, Zenon DEF Keeps
<1> QED
  BY <1>4, <1>5, Zenon

LEMMA MergeType ==
  ASSUME NEW list \in Seq(BlockSet), NEW b \in BlockSet
  PROVE  MergeStep(list, b) \in Seq(BlockSet)
<1>1. CASE ~(list # << >> /\ End(Last(list)) = b.va /\ PageOf(Last(list)) = PageOf(b))
  BY <1>1, AppendProperties, Zenon DEF MergeStep
<1>2. CASE list # << >> /\ End(Last(list)) = b.va /\ PageOf(Last(list)) = PageOf(b)
  <2>1. Front(list) \in Seq(BlockSet) /\ Last(list) \in BlockSet
    BY <1>2, FrontFacts, Zenon
  <2>2. Block(Last(list).va, Last(list).size + HDR + b.size) \in BlockSet
    BY <2>1, BlockFacts, HeapAssumption DEF Block, BlockSet
  <2> QED
    BY <1>2, <2>1, <2>2, AppendProperties, Zenon DEF MergeStep
<1> QED
  BY <1>1, <1>2, Zenon

LEMMA MergeKeeps ==
  ASSUME NEW list, NEW C, NEW t, Keeps(list, C, t)
  PROVE  Keeps(FoldLeft(MergeStep, << >>, list), C, t)
<1> DEFINE n == Len(list)  A == Seq(BlockSet)
<1>0. list \in A /\ Sorted(list) /\ Range(list) \cap C = {} /\ Tiles(Range(list) \cup C, t)
  BY Zenon DEF Keeps
<1>1. n \in Nat /\ list \in [1 .. n -> BlockSet] /\ << >> \in A
  BY <1>0, LenProperties
<1>2. \A l \in A, b \in BlockSet : MergeStep(l, b) \in A
  BY MergeType, Zenon
<1>3. PICK F \in [0 .. n -> A] : Merges(F, n, << >>, list)
  <2> HIDE DEF n, A
  <2> QED
    BY <1>1, <1>2, FoldMerge, Zenon
<1>4. /\ F[0] = << >> /\ FoldLeft(MergeStep, << >>, list) = F[n]
      /\ \A i \in 1 .. n : F[i] = MergeStep(F[i - 1], list[i])
  BY <1>3, Zenon DEF Merges
<1> DEFINE D(i) == Rest(list, i) \cup C
           T == {i \in 0 .. n : /\ Keeps(F[i], D(i), t)
                                /\ \A x \in Range(F[i]), j \in (i + 1) .. n : End(x) <= list[j].va}
<1>5. D(0) = Range(list) \cup C /\ D(n) = C
  BY <1>0, RestFacts, Zenon
<1>6. \A i \in 1 .. n : D(i - 1) = D(i) \cup {list[i]} /\ list[i] \notin D(i)
  BY <1>0, RestFacts, Zenon
<1>a. /\ \A i \in 1 .. n : list[i].va \in Nat /\ End(list[i]) \in Nat
      /\ \A i, j \in 1 .. n : i < j => End(list[i]) <= list[j].va
  BY <1>0, <1>1, BlockFacts, Zenon DEF Sorted
<1> HIDE DEF D, n, A
<1>7. 0 \in T
  <2>1. << >> \in Seq(BlockSet) /\ Sorted(<< >>) /\ Range(<< >>) = {}
    BY DEF Sorted, Range
  <2>2. Range(<< >>) \cup D(0) = Range(list) \cup C
    BY <1>5, <2>1, Zenon
  <2>3. Keeps(F[0], D(0), t)
    BY <1>0, <1>4, <2>1, <2>2, Zenon DEF Keeps
  <2> QED
    BY <1>1, <1>4, <2>1, <2>3
<1>8. ASSUME NEW i \in 1 .. n, i - 1 \in T PROVE i \in T
  <2>1. Keeps(F[i - 1], D(i) \cup {list[i]}, t) /\ list[i] \notin D(i)
    BY <1>6, <1>8, Zenon
  <2>2. \A x \in Range(F[i - 1]) : End(x) <= list[i].va
    <3>1. (i - 1) + 1 = i /\ i \in i .. n
      BY <1>1
    <3> QED
      BY <1>8, <3>1, Zenon
  <2>3. /\ Keeps(MergeStep(F[i - 1], list[i]), D(i), t)
        /\ \A x \in Range(MergeStep(F[i - 1], list[i])) : End(x) <= End(list[i])
    BY <2>1, <2>2, MergeStepKeeps, Zenon
  <2>4. Keeps(F[i], D(i), t) /\ \A x \in Range(F[i]) : End(x) <= End(list[i]) /\ End(x) \in Nat
    BY <1>4, <2>3, KeepsFacts
  <2>5. \A j \in (i + 1) .. n : j \in 1 .. n /\ i < j
    BY <1>1
  <2>6. \A x \in Range(F[i]), j \in (i + 1) .. n : End(x) <= list[j].va
    BY <1>a, <2>4, <2>5
  <2>7. i \in 0 .. n
    BY <1>1
  <2> QED
    BY <2>4, <2>6, <2>7, Zenon
<1>9. n \in T
  <2>1. \A i \in 0 .. n : i \in T
    <3> HIDE DEF T
    <3> QED
      BY <1>1, <1>7, <1>8, UpTo, Zenon
  <2> QED
    BY <1>1, <2>1
<1> QED
  BY <1>4, <1>5, <1>9, Zenon

\* first_fit_free: the block goes back on the list, merged with neighbours.
LEMMA FreedKeeps ==
  ASSUME NEW list, NEW C, NEW t, NEW b, Keeps(list, C \cup {b}, t), b \notin C
  PROVE  Keeps(Freed(list, b), C, t)
<1>1. Keeps(InsertFree(list, b), C, t)
  BY InsertKeeps, Zenon
<1>2. Keeps(SortFree(InsertFree(list, b)), C, t)
  BY <1>1, SortKeeps, Zenon
<1>3. Keeps(FoldLeft(MergeStep, << >>, SortFree(InsertFree(list, b))), C, t)
  BY <1>2, MergeKeeps, Zenon
<1> QED
  BY <1>3, SortKeeps, Zenon DEF Freed, MergeFree
=============================================================================
