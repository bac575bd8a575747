----------------------------- MODULE HeapProofs -----------------------------
(***************************************************************************)
(* Proofs about module Heap, for every size of pages, headers and          *)
(* requests: the blocks of the two lists never overlap and cover the heap  *)
(* but for headers of empty blocks, and malloc and free implement an       *)
(* allocator.                                                              *)
(***************************************************************************)
EXTENDS HeapBlocks, FiniteSetTheorems

-----------------------------------------------------------------------------
(***************************************************************************)
(* Cutting blocks                                                          *)
(***************************************************************************)
LEMMA RemoveRange ==
  ASSUME NEW S, NEW list \in Seq(S), NEW k \in 1 .. Len(list),
         \A i, j \in 1 .. Len(list) : list[i] = list[j] => i = j
  PROVE  /\ Range(RemoveAt(list, k)) = Range(list) \ {list[k]}
         /\ \A i, j \in 1 .. (Len(list) - 1) : RemoveAt(list, k)[i] = RemoveAt(list, k)[j] => i = j
<1> DEFINE n == Len(list)  r == RemoveAt(list, k)  O(i) == IF i < k THEN i ELSE i + 1
<1>1. n \in Nat /\ \A x : x \in Range(list) <=> \E i \in 1 .. n : x = list[i]
  BY RangeFacts, Zenon
<1>2. r \in Seq(S) /\ Len(r) = n - 1
      /\ \A i \in 1 .. (n - 1) : r[i] = IF i < k THEN list[i] ELSE list[i + 1]
  BY RemoveAtFacts, Zenon
<1>3. \A x : x \in Range(r) <=> \E i \in 1 .. (n - 1) : x = r[i]
  BY <1>2, RangeFacts
<1> HIDE DEF r, n
<1>a. k \in 1 .. n /\ \A i, j \in 1 .. n : list[i] = list[j] => i = j
  BY Zenon DEF n
<1>4. /\ \A i \in 1 .. (n - 1) : O(i) \in 1 .. n /\ O(i) # k
      /\ \A i, j \in 1 .. (n - 1) : O(i) = O(j) => i = j
  BY <1>1, <1>a
<1>5. \A i \in 1 .. n : i # k => \E j \in 1 .. (n - 1) : i = O(j)
  <2> SUFFICES ASSUME NEW i \in 1 .. n, i # k PROVE \E j \in 1 .. (n - 1) : i = O(j)
    BY Zenon
  <2>1. CASE i < k
    BY <1>1, <1>a, <2>1
  <2>2. CASE i > k
    <3>1. i - 1 \in 1 .. (n - 1) /\ ~(i - 1 < k) /\ (i - 1) + 1 = i
      BY <1>1, <1>a, <2>2
    <3> QED
      BY <3>1, Zenon
  <2> QED
    BY <1>1, <1>a, <2>1, <2>2
<1>6. \A i \in 1 .. (n - 1) : r[i] = list[O(i)]
  BY <1>2, Zenon
<1> HIDE DEF O
<1>7. Range(r) = Range(list) \ {list[k]}
  <2>1. ASSUME NEW x, x \in Range(r) PROVE x \in Range(list) /\ x # list[k]
    <3>1. PICK i \in 1 .. (n - 1) : x = list[O(i)]
      BY <1>3, <1>6, <2>1
    <3>2. O(i) \in 1 .. n /\ O(i) # k
      BY <1>4, Zenon
    <3> QED
      BY <1>1, <1>a, <3>1, <3>2, Zenon
  <2>2. ASSUME NEW x, x \in Range(list), x # list[k] PROVE x \in Range(r)
    <3>1. PICK i \in 1 .. n : x = list[i] /\ i # k
      BY <1>1, <2>2, Zenon
    <3>2. PICK j \in 1 .. (n - 1) : i = O(j)
      BY <1>5, <3>1, Zenon
    <3> QED
      BY <1>3, <1>6, <3>1, <3>2, Zenon
  <2> QED
    BY <2>1, <2>2, Zenon
<1>8. \A i, j \in 1 .. (n - 1) : r[i] = r[j] => i = j
  BY <1>4, <1>6, <1>a, Zenon
<1> QED
  BY <1>7, <1>8, Zenon DEF r, n

\* first_fit_alloc: the first block of a size that will do.
LEMMA FirstFitFacts ==
  ASSUME NEW list \in Seq(BlockSet), NEW n
  PROVE  /\ FirstFit(list, n) \in 0 .. Len(list)
         /\ FirstFit(list, n) # 0 => Fits(list[FirstFit(list, n)], n)
<1> DEFINE I == {i \in 1 .. Len(list) : Fits(list[i], n)}
<1>0. Len(list) \in Nat
  BY LenProperties, Zenon
<1>1. FirstFit(list, n) = IF I # {} THEN Min(I) ELSE 0
  BY Zenon DEF FirstFit, SelectInSeq
<1>2. I \in SUBSET Nat
  BY <1>0
<1>3. I # {} => Min(I) \in I
  <2> HIDE DEF I
  <2> QED
    BY <1>2, MinIs, Zenon
<1> QED
  BY <1>0, <1>1, <1>3

\* A block in use is cut from a free one: the whole of it, or its low end.
LEMMA SplitKeeps ==
  ASSUME NEW list, NEW C, NEW t, Keeps(list, C, t), NEW n \in Nat,
         NEW k \in 1 .. Len(list), Fits(list[k], n)
  PROVE  /\ Block(list[k].va, n) \in BlockSet /\ Block(list[k].va, n) \notin C
         /\ Keeps(Split(list, k, n), C \cup {Block(list[k].va, n)}, t)
<1> DEFINE x == list[k]  a == Block(x.va, n)  B == Range(list) \cup C  m == Len(list)
<1>1. list \in Seq(BlockSet) /\ Sorted(list) /\ Tiles(B, t) /\ Range(list) \cap C = {}
  BY Zenon DEF Keeps
<1>2. m \in Nat /\ x \in BlockSet /\ x \in Range(list) /\ x.va \in Nat /\ x.size \in Nat
      /\ End(x) = x.va + HDR + x.size
  BY <1>1, RangeFacts, BlockFacts, Zenon
<1>3. a \in BlockSet /\ a.va = x.va /\ a.size = n /\ End(a) = x.va + HDR + n
  BY <1>2, BlockIs, Zenon
<1>4. HDR \in Nat \ {0}
  BY HeapAssumption, Zenon
\* What lies in x is beside the list's other blocks.
<1>5. ASSUME NEW y \in BlockSet, x.va <= y.va, y.va < End(x) PROVE y \in B => y = x
  <2>1. y \in B /\ y # x => (End(y) <= x.va \/ End(x) <= y.va)
    BY <1>2, KeepsFacts, Zenon DEF Apart
  <2>2. y.va \in Nat /\ End(y) \in Nat /\ End(y) > y.va
    BY BlockFacts, Zenon
  <2> QED
    BY <1>2, <1>4, <1>5, <2>1, <2>2
<1>6. a \in B => a = x
  <2>1. x.va <= a.va /\ a.va < End(x)
    BY <1>2, <1>3, <1>4
  <2> QED
    BY <1>3, <1>5, <2>1, Zenon
<1>7. a \notin C
  BY <1>1, <1>2, <1>6, Zenon
<1>8. CASE x.size = n
  <2>1. a = x /\ Split(list, k, n) = RemoveAt(list, k)
    BY <1>2, <1>8, BlockFacts, Zenon DEF Split
  <2>2. Range(RemoveAt(list, k)) = Range(list) \ {x}
    BY <1>1, SortedInjective, RemoveRange, Zenon
  <2>3. /\ RemoveAt(list, k) \in Seq(BlockSet) /\ Len(RemoveAt(list, k)) = m - 1
        /\ \A i \in 1 .. (m - 1) : RemoveAt(list, k)[i] = IF i < k THEN list[i] ELSE list[i + 1]
    BY <1>1, RemoveAtFacts, Zenon
  <2>4. Sorted(RemoveAt(list, k))
    <3> SUFFICES ASSUME NEW i \in 1 .. (m - 1), NEW j \in 1 .. (m - 1), i < j
                 PROVE  End(RemoveAt(list, k)[i]) <= RemoveAt(list, k)[j].va
      BY <2>3, Zenon DEF Sorted
    <3> DEFINE i1 == IF i < k THEN i ELSE i + 1  j1 == IF j < k THEN j ELSE j + 1
    <3>1. i1 \in 1 .. m /\ j1 \in 1 .. m /\ i1 < j1
      BY <1>2
    <3>2. RemoveAt(list, k)[i] = list[i1] /\ RemoveAt(list, k)[j] = list[j1]
      BY <2>3, Zenon
    <3> HIDE DEF i1, j1
    <3> QED
      BY <1>1, <3>1, <3>2, Zenon DEF Sorted
  <2>5. B = (Range(list) \ {x}) \cup (C \cup {a})
    BY <1>2, <2>1, Zenon
  <2> QED
    BY <1>1, <1>3, <1>7, <2>1, <2>2, <2>3, <2>4, <2>5, Zenon DEF Keeps
<1>9. CASE x.size # n
  <2> DEFINE r == Block(x.va + HDR + n, x.size - n - HDR)  l == [list EXCEPT ![k] = r]
  <2>1. x.size >= n + HDR
    BY <1>9, Zenon DEF Fits
  <2>2. Split(list, k, n) = l
    BY <1>1, <1>9, Zenon DEF Split
  <2>3. r \in BlockSet /\ r.va = End(a) /\ End(r) = End(x)
    <3>1. /\ x.va + HDR + n \in Nat /\ x.size - n - HDR \in Nat
          /\ x.va + HDR + n + HDR + (x.size - n - HDR) = x.va + HDR + x.size
      <4> DEFINE v == x.va  s == x.size
      <4>1. v \in Nat /\ s \in Nat /\ HDR \in Nat /\ s >= n + HDR
        BY <1>2, <1>4, <2>1, Zenon
      <4> HIDE DEF v, s
      <4>2. v + HDR + n \in Nat /\ s - n - HDR \in Nat /\ v + HDR + n + HDR + (s - n - HDR) = v + HDR + s
        BY <4>1
      <4> QED
        BY <4>2, Zenon DEF v, s
    <3>2. r \in BlockSet /\ r.va = x.va + HDR + n
          /\ End(r) = x.va + HDR + n + HDR + (x.size - n - HDR)
      BY <3>1, BlockIs, Zenon
    <3> QED
      BY <1>2, <1>3, <3>1, <3>2, Zenon
  <2> HIDE DEF r
  <2>4. l \in Seq(BlockSet) /\ Len(l) = m /\ \A i \in 1 .. m : l[i] = IF i = k THEN r ELSE list[i]
    BY <1>1, <2>3
  <2>5. Range(l) = (Range(list) \ {x}) \cup {r}
    <3>1. \A y : y \in Range(l) <=> \E i \in 1 .. m : y = l[i]
      BY <2>4, RangeFacts, Zenon
    <3>2. \A y : y \in Range(list) <=> \E i \in 1 .. m : y = list[i]
      BY <1>1, RangeFacts, Zenon
    <3>3. \A i \in 1 .. m : list[i] = x => i = k
      BY <1>1, SortedInjective, Zenon
    <3> HIDE DEF l, m
    <3> QED
      BY <2>4, <3>1, <3>2, <3>3 DEF m
  <2> HIDE DEF l
  <2>6. Sorted(l)
    <3> SUFFICES ASSUME NEW i \in 1 .. m, NEW j \in 1 .. m, i < j PROVE End(l[i]) <= l[j].va
      BY <2>4, Zenon DEF Sorted
    <3>1. End(list[i]) <= list[j].va /\ list[j] \in BlockSet /\ list[i] \in BlockSet
      BY <1>1, <1>2 DEF Sorted
    <3>2. End(l[i]) = End(list[i]) /\ End(list[i]) \in Nat /\ list[j].va \in Nat
      BY <2>3, <2>4, <3>1, BlockFacts, Zenon
    <3>3. l[j].va \in Nat /\ l[j].va >= list[j].va
      <4>1. r.va \in Nat /\ r.va >= x.va
        BY <1>2, <1>3, <1>4, <2>3
      <4>2. CASE j = k
        BY <2>4, <4>1, <4>2, Zenon
      <4>3. CASE j # k
        BY <2>4, <3>2, <4>3
      <4> QED
        BY <4>2, <4>3, Zenon
    <3> QED
      BY <3>1, <3>2, <3>3
  <2>7. Tiles((B \ {x}) \cup {a, r}, t)
    BY <1>1, <1>2, <1>3, <2>3, TilesSplit
  <2>8. r \notin B /\ a # r
    <3>1. x.va <= r.va /\ r.va < End(x) /\ r.va # x.va
      BY <1>2, <1>3, <1>4, <2>1, <2>3
    <3> QED
      BY <1>3, <1>5, <2>3, <3>1, Zenon
  <2>9. (B \ {x}) \cup {a, r} = Range(l) \cup (C \cup {a}) /\ Range(l) \cap (C \cup {a}) = {}
    BY <1>1, <1>2, <1>6, <1>7, <2>5, <2>8
  <2> QED
    BY <1>3, <1>7, <2>2, <2>4, <2>6, <2>7, <2>9, Zenon DEF Keeps
<1> QED
  BY <1>8, <1>9, Zenon


\* The block a large request starts with grows to heap_top and is cut in two.
LEMMA CarveKeeps ==
  ASSUME NEW list, NEW C, NEW t, NEW z \in BlockSet, Keeps(list, C \cup {z}, t), z \notin C,
         NEW n \in Nat, n = z.size \/ n + HDR <= z.size, NEW a, a = Block(z.va, n), NEW l,
         l = IF n = z.size THEN list
             ELSE InsertFree(list, Block(z.va + HDR + n, z.size - n - HDR))
  PROVE  a \notin C /\ Keeps(l, C \cup {a}, t)
<1> DEFINE B == Range(list) \cup (C \cup {z})
<1>1. list \in Seq(BlockSet) /\ Sorted(list) /\ Tiles(B, t) /\ Range(list) \cap (C \cup {z}) = {}
  BY Zenon DEF Keeps
<1>2. z.va \in Nat /\ z.size \in Nat /\ End(z) = z.va + HDR + z.size /\ HDR \in Nat \ {0}
  BY BlockFacts, HeapAssumption, Zenon
<1>3. a \in BlockSet /\ a.va = z.va /\ a.size = n /\ End(a) = z.va + HDR + n
  BY <1>2, BlockIs, Zenon
<1>4. ASSUME NEW y \in BlockSet, z.va <= y.va, y.va < End(z) PROVE y \in B => y = z
  <2>1. y \in B /\ y # z => (End(y) <= z.va \/ End(z) <= y.va)
    BY KeepsFacts, Zenon DEF Apart
  <2>2. y.va \in Nat /\ End(y) \in Nat /\ End(y) > y.va
    BY BlockFacts, Zenon
  <2> QED
    BY <1>2, <1>4, <2>1, <2>2
<1>5. a \in B => a = z
  <2>1. z.va <= a.va /\ a.va < End(z)
    BY <1>2, <1>3
  <2> QED
    BY <1>3, <1>4, <2>1, Zenon
<1>6. a \notin C
  BY <1>5, Zenon
<1>7. CASE n = z.size
  <2>1. a = z
    BY <1>7, BlockFacts, Zenon
  <2> QED
    BY <1>6, <1>7, <2>1, Zenon
<1>8. CASE n # z.size
  <2> DEFINE r == Block(z.va + HDR + n, z.size - n - HDR)
  <2>1. r \in BlockSet /\ r.va = End(a) /\ End(r) = End(z)
    <3>1. z.va + HDR + n \in Nat /\ z.size - n - HDR \in Nat
      BY <1>2, <1>8
    <3>2. r \in BlockSet /\ r.va = z.va + HDR + n
          /\ End(r) = z.va + HDR + n + HDR + (z.size - n - HDR)
      BY <3>1, BlockIs, Zenon
    <3> QED
      BY <1>2, <1>3, <3>2
  <2>2. l = InsertFree(list, r)
    BY <1>8, Zenon
  <2> HIDE DEF r
  <2>3. Tiles((B \ {z}) \cup {a, r}, t)
    BY <1>1, <1>3, <2>1, TilesSplit
  <2>4. r \notin B /\ a # r
    <3>1. z.va <= r.va /\ r.va < End(z) /\ r.va # z.va
      BY <1>2, <1>3, <1>8, <2>1
    <3> QED
      BY <1>3, <1>4, <2>1, <3>1, Zenon
  <2>5. (B \ {z}) \cup {a, r} = Range(list) \cup ((C \cup {a}) \cup {r})
        /\ Range(list) \cap ((C \cup {a}) \cup {r}) = {}
    BY <1>1, <1>5, <2>4, Zenon
  <2>6. Keeps(list, (C \cup {a}) \cup {r}, t)
    BY <1>1, <2>3, <2>5, Zenon DEF Keeps
  <2>7. r \notin C \cup {a}
    BY <2>4, Zenon
  <2>8. Keeps(InsertFree(list, r), C \cup {a}, t)
    BY <2>1, <2>6, <2>7, InsertKeeps, Zenon
  <2> QED
    BY <1>6, <2>2, <2>8, Zenon
<1> QED
  BY <1>7, <1>8, Zenon


-----------------------------------------------------------------------------
(***************************************************************************)
(* The two lists                                                           *)
(***************************************************************************)
UsedSet == [va : Nat, size : Requests]

\* Free list f and blocks in use u, each once, tile the heap below t.
Shape(f, u, t) ==
  /\ u \in Seq(UsedSet) /\ IsInjective(u)
  /\ Keeps(f, Range(u), t)

LEMMA UsedFacts ==
  /\ UsedSet \subseteq BlockSet
  /\ \A v \in Nat, n \in Requests : n \in Nat \ {0} /\ Block(v, n) \in UsedSet
BY HeapAssumption, Zenon DEF UsedSet, BlockSet, Block

LEMMA Push ==
  ASSUME NEW u \in Seq(UsedSet), IsInjective(u), NEW a \in UsedSet, a \notin Range(u)
  PROVE  /\ Cons(a, u) \in Seq(UsedSet) /\ IsInjective(Cons(a, u))
         /\ Range(Cons(a, u)) = Range(u) \cup {a}
<1> DEFINE n == Len(u)  r == Cons(a, u)
<1>1. <<a>> \in Seq(UsedSet) /\ Len(<<a>>) = 1 /\ <<a>>[1] = a /\ n \in Nat
  OBVIOUS
<1>2. r \in Seq(UsedSet) /\ Len(r) = n + 1
      /\ \A i \in 1 .. (n + 1) : r[i] = IF i <= 1 THEN <<a>>[i] ELSE u[i - 1]
  <2>1. r \in Seq(UsedSet) /\ Len(r) = 1 + n
        /\ \A i \in 1 .. (1 + n) : r[i] = IF i <= 1 THEN <<a>>[i] ELSE u[i - 1]
    BY <1>1, ConcatProperties DEF Cons
  <2>2. 1 + n = n + 1
    BY <1>1
  <2> QED
    BY <2>1, <2>2, Zenon
<1>3. /\ \A x : x \in Range(u) <=> \E i \in 1 .. n : x = u[i]
      /\ \A x : x \in Range(r) <=> \E i \in 1 .. (n + 1) : x = r[i]
  <2>1. \A x : x \in Range(u) <=> \E i \in 1 .. n : x = u[i]
    BY RangeFacts, Zenon
  <2>2. \A x : x \in Range(r) <=> \E i \in 1 .. Len(r) : x = r[i]
    BY <1>2, RangeFacts, Zenon
  <2> QED
    BY <1>2, <2>1, <2>2, Zenon
<1>4. \A i, j \in 1 .. n : u[i] = u[j] => i = j
  BY DEF IsInjective
<1>5. DOMAIN r = 1 .. (n + 1)
  BY <1>2
<1> HIDE DEF n
<1>6. r[1] = a /\ \A i \in 1 .. n : i + 1 \in 1 .. (n + 1) /\ r[i + 1] = u[i]
  <2>1. r[1] = a
    BY <1>1, <1>2
  <2>2. ASSUME NEW i \in 1 .. n PROVE i + 1 \in 1 .. (n + 1) /\ r[i + 1] = u[i]
    <3>1. i + 1 \in 1 .. (n + 1) /\ ~(i + 1 <= 1) /\ (i + 1) - 1 = i
      BY <1>1
    <3>2. r[i + 1] = u[(i + 1) - 1]
      BY <1>2, <3>1, Zenon
    <3> QED
      BY <3>1, <3>2, Zenon
  <2> QED
    BY <2>1, <2>2, Zenon
<1>7. \A j \in 1 .. (n + 1) : j = 1 \/ \E i \in 1 .. n : j = i + 1
  <2> SUFFICES ASSUME NEW j \in 1 .. (n + 1), j # 1 PROVE \E i \in 1 .. n : j = i + 1
    BY Zenon
  <2>1. j - 1 \in 1 .. n /\ j = (j - 1) + 1
    BY <1>1
  <2> QED
    BY <2>1, Zenon
<1>8. Range(r) = Range(u) \cup {a}
  <2>1. 1 \in 1 .. (n + 1)
    BY <1>1
  <2>2. ASSUME NEW x, x \in Range(r) PROVE x \in Range(u) \cup {a}
    BY <1>3, <1>6, <1>7, <2>2
  <2>3. ASSUME NEW x, x \in Range(u) \cup {a} PROVE x \in Range(r)
    BY <1>3, <1>6, <2>1, <2>3
  <2> QED
    BY <2>2, <2>3, Zenon
<1>9. IsInjective(r)
  <2> SUFFICES ASSUME NEW i \in 1 .. (n + 1), NEW j \in 1 .. (n + 1), r[i] = r[j] PROVE i = j
    BY <1>5, Zenon DEF IsInjective
  <2>1. \A l \in 1 .. n : r[l + 1] # a
    BY <1>3, <1>6, Zenon
  <2>2. CASE i = 1 \/ j = 1
    BY <1>6, <1>7, <2>1, <2>2
  <2>3. CASE i # 1 /\ j # 1
    <3>1. PICK p \in 1 .. n, q \in 1 .. n : i = p + 1 /\ j = q + 1
      BY <1>7, <2>3, Zenon
    <3>2. u[p] = u[q]
      BY <1>6, <3>1, Zenon
    <3> QED
      BY <1>4, <3>1, <3>2, Zenon
  <2> QED
    BY <2>2, <2>3, Zenon
<1> QED
  BY <1>2, <1>8, <1>9, Zenon

LEMMA Pop ==
  ASSUME NEW f, NEW u, NEW t, Shape(f, u, t), NEW k \in DOMAIN u
  PROVE  /\ Shape(Freed(f, u[k]), RemoveAt(u, k), t)
         /\ u[k] \in Range(u) /\ Range(RemoveAt(u, k)) = Range(u) \ {u[k]}
<1>1. u \in Seq(UsedSet) /\ k \in 1 .. Len(u) /\ \A i, j \in 1 .. Len(u) : u[i] = u[j] => i = j
  <2>1. u \in Seq(UsedSet)
    BY Zenon DEF Shape
  <2>2. DOMAIN u = 1 .. Len(u)
    BY <2>1
  <2> QED
    BY <2>1, <2>2, Zenon DEF Shape, IsInjective
<1>2. /\ RemoveAt(u, k) \in Seq(UsedSet) /\ DOMAIN RemoveAt(u, k) = 1 .. (Len(u) - 1)
  <2>1. RemoveAt(u, k) \in Seq(UsedSet) /\ Len(RemoveAt(u, k)) = Len(u) - 1
    BY <1>1, RemoveAtFacts, Zenon
  <2> HIDE DEF RemoveAt
  <2> QED
    BY <2>1
<1>3. /\ Range(RemoveAt(u, k)) = Range(u) \ {u[k]}
      /\ \A i, j \in 1 .. (Len(u) - 1) : RemoveAt(u, k)[i] = RemoveAt(u, k)[j] => i = j
  BY <1>1, RemoveRange
<1>4. u[k] \in Range(u)
  BY <1>1, Zenon DEF Range
<1>5. Keeps(f, (Range(u) \ {u[k]}) \cup {u[k]}, t)
  <2>1. (Range(u) \ {u[k]}) \cup {u[k]} = Range(u)
    BY <1>4, Zenon
  <2> QED
    BY <2>1, Zenon DEF Shape
<1>6. Keeps(Freed(f, u[k]), Range(u) \ {u[k]}, t)
  <2>1. u[k] \notin Range(u) \ {u[k]}
    BY Zenon
  <2> QED
    BY <1>5, <2>1, FreedKeeps, Zenon
<1> QED
  BY <1>2, <1>3, <1>4, <1>6, Zenon DEF Shape, IsInjective


\* first_fit_alloc.
LEMMA TakeShape ==
  ASSUME NEW f, NEW u, NEW t, Shape(f, u, t), NEW n \in Requests, FirstFit(f, n) # 0,
         NEW a, a = Block(f[FirstFit(f, n)].va, n), NEW r, r = Cons(a, u)
  PROVE  /\ a \in UsedSet /\ a \notin Range(u)
         /\ Shape(Split(f, FirstFit(f, n), n), r, t)
         /\ Range(r) = Range(u) \cup {a}
<1> DEFINE k == FirstFit(f, n)
<1>1. f \in Seq(BlockSet) /\ Keeps(f, Range(u), t) /\ u \in Seq(UsedSet) /\ IsInjective(u)
  BY Zenon DEF Shape, Keeps
<1>2. n \in Nat /\ Len(f) \in Nat
  BY <1>1, UsedFacts
<1>3. k \in 0 .. Len(f) /\ Fits(f[k], n)
  BY <1>1, FirstFitFacts, Zenon
<1> HIDE DEF k
<1>4. k \in 1 .. Len(f)
  BY <1>2, <1>3 DEF k
<1>5. f[k] \in BlockSet
  BY <1>1, <1>4
<1>6. a = Block(f[k].va, n) /\ a \in UsedSet
  <2>1. f[k].va \in Nat
    BY <1>5, BlockFacts, Zenon
  <2>2. Block(f[k].va, n) \in UsedSet
    BY <2>1, UsedFacts, Zenon
  <2> QED
    BY <2>2, Zenon DEF k
<1>7. a \notin Range(u) /\ Keeps(Split(f, k, n), Range(u) \cup {a}, t)
  BY <1>1, <1>2, <1>3, <1>4, <1>6, SplitKeeps
<1> DEFINE l == Split(f, k, n)
<1>8. Keeps(l, Range(u) \cup {a}, t)
  BY <1>7, Zenon
<1> HIDE DEF l
<1>9. r \in Seq(UsedSet) /\ IsInjective(r) /\ Range(r) = Range(u) \cup {a}
  BY <1>1, <1>6, <1>7, Push, Zenon
<1>10. Shape(l, r, t)
  BY <1>8, <1>9, Zenon DEF Shape
<1> QED
  BY <1>6, <1>7, <1>9, <1>10 DEF k, l

\* A block at heap_top.
LEMMA GrowKeeps ==
  ASSUME NEW list, NEW C, NEW t, Keeps(list, C, t), NEW z \in BlockSet, z.va = t
  PROVE  z \notin C /\ Keeps(list, C \cup {z}, End(z))
<1>1. list \in Seq(BlockSet) /\ Sorted(list) /\ Range(list) \cap C = {}
      /\ Tiles(Range(list) \cup C, t)
  BY Zenon DEF Keeps
<1>2. z \notin Range(list) \cup C
  <2>1. z \in Range(list) \cup C => End(z) <= t
    BY KeepsFacts, Zenon
  <2> QED
    BY <2>1, BlockFacts
<1>3. Tiles((Range(list) \cup C) \cup {z}, End(z))
  BY <1>1, TilesGrow, Zenon
<1>4. (Range(list) \cup C) \cup {z} = Range(list) \cup (C \cup {z})
      /\ Range(list) \cap (C \cup {z}) = {}
  BY <1>1, <1>2, Zenon
<1> QED
  BY <1>1, <1>2, <1>3, <1>4, Zenon DEF Keeps

\* The highest free block grows over heap_top.
LEMMA ExtendKeeps ==
  ASSUME NEW list, NEW C, NEW t, Keeps(list, C, t), list # << >>, End(Last(list)) = t,
         NEW z \in BlockSet, z.va = Last(list).va, End(z) >= t
  PROVE  z \notin C /\ Keeps(Front(list), C \cup {z}, End(z))
<1> DEFINE x == Last(list)  B == Range(list) \cup C  m == Len(list)  l == Front(list)
<1>1. list \in Seq(BlockSet) /\ Sorted(list) /\ Range(list) \cap C = {} /\ Tiles(B, t)
  BY Zenon DEF Keeps
<1>2. /\ l \in Seq(BlockSet) /\ Len(l) = m - 1 /\ m \in Nat \ {0}
      /\ \A i \in 1 .. (m - 1) : l[i] = list[i]
      /\ x = list[m]
  BY <1>1, FrontFacts, Zenon
<1>3. /\ \A y : y \in Range(list) <=> \E i \in 1 .. m : y = list[i]
      /\ \A y : y \in Range(l) <=> \E i \in 1 .. (m - 1) : y = l[i]
  <2>1. \A y : y \in Range(list) <=> \E i \in 1 .. m : y = list[i]
    BY <1>1, RangeFacts, Zenon
  <2> HIDE DEF l
  <2>2. \A y : y \in Range(l) <=> \E i \in 1 .. Len(l) : y = l[i]
    BY <1>2, RangeFacts, Zenon
  <2> QED
    BY <1>2, <2>1, <2>2, Zenon
<1>4. \A i, j \in 1 .. m : list[i] = list[j] => i = j
  BY <1>1, SortedInjective, Zenon
<1>5. Sorted(l)
  <2> HIDE DEF l
  <2> SUFFICES ASSUME NEW i \in 1 .. (m - 1), NEW j \in 1 .. (m - 1), i < j
               PROVE  End(l[i]) <= l[j].va
    BY <1>2, Zenon DEF Sorted
  <2>1. i \in 1 .. m /\ j \in 1 .. m
    BY <1>2
  <2> QED
    BY <1>1, <1>2, <2>1, Zenon DEF Sorted
<1> HIDE DEF l, m
<1>6. /\ m \in 1 .. m
      /\ \A i \in 1 .. m : i = m \/ i \in 1 .. (m - 1)
      /\ \A i \in 1 .. (m - 1) : i \in 1 .. m /\ i # m
  BY <1>2
<1>7. x \in Range(list) /\ x \in BlockSet /\ Range(l) = Range(list) \ {x}
  <2>1. x \in Range(list)
    BY <1>2, <1>3, <1>6, Zenon
  <2>2. ASSUME NEW y, y \in Range(l) PROVE y \in Range(list) /\ y # x
    <3>1. PICK i \in 1 .. (m - 1) : y = list[i]
      BY <1>2, <1>3, <2>2
    <3> QED
      BY <1>2, <1>3, <1>4, <1>6, <3>1
  <2>3. ASSUME NEW y, y \in Range(list), y # x PROVE y \in Range(l)
    <3>1. PICK i \in 1 .. m : y = list[i]
      BY <1>3, <2>3, Zenon
    <3> QED
      BY <1>2, <1>3, <1>6, <2>3, <3>1, Zenon
  <2>4. x \in BlockSet
    BY <2>1, KeepsFacts, Zenon
  <2> QED
    BY <2>1, <2>2, <2>3, <2>4, Zenon
<1> HIDE DEF x
<1>8. z \in B => z = x
  <2> SUFFICES ASSUME z \in B, z # x PROVE FALSE
    BY Zenon
  <2>1. End(z) <= x.va \/ End(x) <= z.va
    BY <1>7, KeepsFacts, Zenon DEF Apart
  <2>2. z.va \in Nat /\ End(z) \in Nat /\ End(z) > z.va /\ End(x) \in Nat /\ End(x) > x.va
    BY <1>7, BlockFacts, Zenon
  <2> QED
    BY <2>1, <2>2 DEF x
<1>9. Tiles((B \ {x}) \cup {z}, End(z))
  <2>1. x \in B
    BY <1>7, Zenon
  <2> QED
    BY <1>1, <2>1, TilesExtend DEF x
<1>10. (B \ {x}) \cup {z} = Range(l) \cup (C \cup {z}) /\ Range(l) \cap (C \cup {z}) = {}
       /\ z \notin C
  BY <1>1, <1>7, <1>8
<1> QED
  BY <1>2, <1>5, <1>9, <1>10, Zenon DEF Keeps, l

\* A new page on the free list.
LEMMA PageShape ==
  ASSUME NEW f, NEW u, NEW t, Shape(f, u, t)
  PROVE  Shape(InsertFree(f, Block(t, PAGE - HDR)), u, t + PAGE)
<1> DEFINE z == Block(t, PAGE - HDR)
<1>1. Keeps(f, Range(u), t)
  BY Zenon DEF Shape
<1>2. t \in Nat
  BY <1>1, KeepsFacts, Zenon
<1>3. z \in BlockSet /\ z.va = t /\ End(z) = t + PAGE
  <2>1. PAGE - HDR \in Nat /\ t + HDR + (PAGE - HDR) = t + PAGE
    BY <1>2, HeapAssumption
  <2> QED
    BY <1>2, <2>1, BlockIs, Zenon
<1> HIDE DEF z
<1>4. z \notin Range(u) /\ Keeps(f, Range(u) \cup {z}, End(z))
  BY <1>1, <1>3, GrowKeeps, Zenon
<1>5. Keeps(InsertFree(f, z), Range(u), t + PAGE)
  BY <1>3, <1>4, InsertKeeps, Zenon
<1> QED
  BY <1>5, Zenon DEF Shape, z


\* The pages behind the start of a large request hold the rest of it, and
\* what is left has room for a header.
LEMMA MorePagesFacts ==
  ASSUME NEW rest \in Int
  PROVE  /\ MorePages(rest) \in Nat /\ MorePages(rest) * PAGE \in Nat
         /\ MorePages(rest) * PAGE = rest \/ MorePages(rest) * PAGE >= rest + HDR
<1>0. PAGE \in Nat \ {0} /\ HDR \in Nat /\ PAGE > HDR
  BY HeapAssumption
<1>1. \A i, p \in Nat : i * p \in Nat /\ (i + 1) * p = i * p + p /\ i * p = p * i
  OBVIOUS
<1>2. Fill(rest) \in Nat /\ (rest > 0 => Fill(rest) * PAGE >= rest) /\ (rest <= 0 => Fill(rest) = 0)
  <2>1. CASE rest <= 0
    BY <2>1 DEF Fill
  <2>2. CASE rest > 0
    <3> DEFINE y == rest + PAGE - 1  d == y \div PAGE
    <3>1. y \in Nat /\ y \in Int
      BY <1>0, <2>2
    <3>2. Fill(rest) = d
      BY <2>2 DEF Fill
    <3>3. y = PAGE * d + (y % PAGE) /\ y % PAGE \in 0 .. (PAGE - 1) /\ d \in Nat
      <4> HIDE DEF y
      <4> QED
        BY <1>0, <3>1, DivMod, DivNat, Zenon
    <3>4. PAGE * d = d * PAGE /\ PAGE * d \in Nat
      BY <1>0, <1>1, <3>3, Zenon
    <3>5. PAGE * d >= rest
      <4> DEFINE w == PAGE * d  v == y % PAGE
      <4>1. w \in Nat /\ v \in 0 .. (PAGE - 1) /\ rest + PAGE - 1 = w + v
        BY <3>3, <3>4, Zenon
      <4> HIDE DEF w, v
      <4>2. w >= rest
        BY <1>0, <4>1
      <4> QED
        BY <4>2, Zenon DEF w
    <3> HIDE DEF d
    <3> QED
      BY <2>2, <3>2, <3>3, <3>4, <3>5
  <2> QED
    BY <2>1, <2>2
<1> DEFINE q == Fill(rest)  w == q * PAGE
<1>3. w \in Nat /\ (q + 1) * PAGE = w + PAGE /\ (q = 0 => w = 0)
  BY <1>0, <1>1, <1>2
<1>4. MorePages(rest) = q + (IF w # rest THEN 1 ELSE 0)
  BY Zenon DEF MorePages
<1>5. q \in Nat /\ (rest > 0 => w >= rest) /\ (rest <= 0 => q = 0)
  BY <1>2, Zenon
<1> HIDE DEF q, w
<1>6. CASE w = rest
  <2>1. MorePages(rest) = q
    BY <1>4, <1>5, <1>6
  <2> QED
    BY <1>3, <1>5, <1>6, <2>1, Zenon DEF w
<1>7. CASE w # rest
  <2>1. MorePages(rest) = q + 1
    BY <1>4, <1>7
  <2>2. w + PAGE >= rest + HDR
    BY <1>0, <1>3, <1>5
  <2> QED
    BY <1>0, <1>3, <1>5, <2>1, <2>2
<1> QED
  BY <1>6, <1>7, Zenon


\* The empty heap.
LEMMA EmptyShape == Shape(<< >>, << >>, 0)
<1>1. << >> \in Seq(UsedSet) /\ << >> \in Seq(BlockSet) /\ Range(<< >>) = {}
  BY DEF Range
<1>2. Sorted(<< >>) /\ IsInjective(<< >>)
  BY DEF Sorted, IsInjective
<1>3. Tiles({}, 0)
  <2>1. \A e : EndIn(e, {}) => StartIn(0, {}, 0) /\ Lost(e, 0, {})
    BY GapFacts DEF EndIn, StartIn, Lost
  <2> QED
    BY <2>1, Zenon DEF Tiles, Disjoint
<1>4. Keeps(<< >>, {}, 0)
  <2>1. Range(<< >>) \cup {} = {} /\ Range(<< >>) \cap {} = {}
    BY <1>1, Zenon
  <2> QED
    BY <1>1, <1>2, <1>3, <2>1, Zenon DEF Keeps
<1> QED
  BY <1>1, <1>2, <1>4 DEF Shape

-----------------------------------------------------------------------------
(***************************************************************************)
(* The steps                                                               *)
(***************************************************************************)
\* malloc returns block a.
Returns(a) ==
  /\ a \in UsedSet /\ a \notin Range(alloc)
  /\ Range(alloc') = Range(alloc) \cup {a}
  /\ Shape(free', alloc', top')

LEMMA MallocFitsStep ==
  ASSUME Shape(free, alloc, top), NEW n \in Requests, MallocFits(n)
  PROVE  \E a : Returns(a)
<1> DEFINE a == Block(free[FirstFit(free, n)].va, n)
<1>1. FirstFit(free, n) # 0 /\ free' = Split(free, FirstFit(free, n), n)
      /\ alloc' = Cons(a, alloc) /\ top' = top
  BY Zenon DEF MallocFits, Take, Cons
<1> HIDE DEF a
<1>2. /\ a \in UsedSet /\ a \notin Range(alloc)
      /\ Shape(Split(free, FirstFit(free, n), n), alloc', top)
      /\ Range(alloc') = Range(alloc) \cup {a}
  BY <1>1, TakeShape DEF a
<1> QED
  BY <1>1, <1>2, Zenon DEF Returns

LEMMA MallocPageStep ==
  ASSUME Shape(free, alloc, top), NEW n \in Requests, MallocPage(n)
  PROVE  (\E a : Returns(a)) \/ (alloc' = alloc /\ Shape(free', alloc', top'))
<1> DEFINE list == InsertFree(free, Block(top, PAGE - HDR))
           a == Block(list[FirstFit(list, n)].va, n)
<1>1. Shape(list, alloc, top + PAGE)
  BY PageShape, Zenon
<1>2. top' = top + PAGE
  BY Zenon DEF MallocPage
<1>3. IF FirstFit(list, n) # 0 THEN free' = Split(list, FirstFit(list, n), n) /\ alloc' = Cons(a, alloc)
      ELSE free' = list /\ alloc' = alloc
  BY Zenon DEF MallocPage, Take, Cons
<1> HIDE DEF list
<1>4. CASE FirstFit(list, n) = 0
  BY <1>1, <1>2, <1>3, <1>4, Zenon
<1>5. CASE FirstFit(list, n) # 0
  <2> HIDE DEF a
  <2>1. /\ a \in UsedSet /\ a \notin Range(alloc)
        /\ Shape(Split(list, FirstFit(list, n), n), alloc', top + PAGE)
        /\ Range(alloc') = Range(alloc) \cup {a}
    BY <1>1, <1>3, <1>5, TakeShape DEF a
  <2> QED
    BY <1>2, <1>3, <1>5, <2>1, Zenon DEF Returns
<1> QED
  BY <1>4, <1>5, Zenon

\* The start of a large request grows to the new heap_top; the request is cut
\* from its low end.
LEMMA MallocLargeStep ==
  ASSUME Shape(free, alloc, top), NEW n \in Requests, MallocLarge(n)
  PROVE  \E a : Returns(a)
<1> DEFINE rest == n - Start.size
           list == IF Extends THEN Front(free) ELSE free
           top1 == top + (IF Extends THEN 0 ELSE 1) * PAGE
           w    == MorePages(rest) * PAGE
           left == top1 + w - (top1 + rest)
           z    == Block(Start.va, Start.size + w)
           a    == Block(Start.va, n)
<1>0. Keeps(free, Range(alloc), top) /\ alloc \in Seq(UsedSet) /\ IsInjective(alloc)
      /\ free \in Seq(BlockSet)
  BY Zenon DEF Shape, Keeps
<1>1. /\ top' = top1 + w
      /\ free' = IF left = 0 THEN list ELSE InsertFree(list, Block(top1 + rest, left - HDR))
      /\ alloc' = Cons(a, alloc)
  BY Zenon DEF MallocLarge, Cons
<1>2. top \in Nat /\ PAGE \in Nat /\ HDR \in Nat /\ PAGE > HDR /\ n \in Nat
  BY <1>0, KeepsFacts, HeapAssumption, UsedFacts, Zenon
<1>3. Start \in BlockSet /\ End(Start) = top1
      /\ (Extends => Start = Last(free) /\ End(Last(free)) = top)
      /\ (~Extends => Start.va = top)
  <2>1. CASE Extends
    <3>1. free # << >> /\ End(Last(free)) >= top /\ Start = Last(free) /\ top1 = top
      BY <1>2, <2>1 DEF Extends, Start
    <3>2. Last(free) \in BlockSet /\ Last(free) \in Range(free)
      <4>1. Last(free) \in BlockSet /\ Last(free) = free[Len(free)] /\ Len(free) \in Nat \ {0}
        BY <1>0, <3>1, FrontFacts, Zenon
      <4>2. Len(free) \in 1 .. Len(free)
        BY <4>1
      <4> QED
        BY <1>0, <4>1, <4>2, RangeFacts, Zenon
    <3>3. End(Last(free)) <= top /\ End(Last(free)) \in Nat
      BY <1>0, <3>2, KeepsFacts
    <3> QED
      BY <1>2, <2>1, <3>1, <3>2, <3>3
  <2>2. CASE ~Extends
    <3>1. Start = Block(top, PAGE - HDR) /\ top1 = top + PAGE
      BY <1>2, <2>2 DEF Start
    <3>2. PAGE - HDR \in Nat /\ top + HDR + (PAGE - HDR) = top + PAGE
      BY <1>2
    <3> QED
      BY <1>2, <2>2, <3>1, <3>2, BlockIs
  <2> QED
    BY <2>1, <2>2, Zenon
<1>4. Start.va \in Nat /\ Start.size \in Nat /\ top1 = Start.va + HDR + Start.size
  BY <1>3, BlockFacts, Zenon
<1>5. rest \in Int /\ w \in Nat /\ (w = rest \/ w >= rest + HDR)
  BY <1>2, <1>4, MorePagesFacts
<1> HIDE DEF w
<1>6. z \in BlockSet /\ z.va = Start.va /\ z.size = Start.size + w /\ End(z) = top1 + w
  <2>1. Start.size + w \in Nat
    BY <1>4, <1>5
  <2>2. z \in BlockSet /\ z.va = Start.va /\ z.size = Start.size + w
        /\ End(z) = Start.va + HDR + (Start.size + w)
    BY <1>4, <2>1, BlockIs, Zenon
  <2> QED
    BY <1>2, <1>4, <1>5, <2>2
<1> HIDE DEF z
<1>7. z \notin Range(alloc) /\ Keeps(list, Range(alloc) \cup {z}, top')
  <2>1. CASE Extends
    <3>1. End(z) >= top /\ z.va = Last(free).va /\ End(Last(free)) = top /\ free # << >>
          /\ list = Front(free)
      BY <1>2, <1>3, <1>5, <1>6, <2>1 DEF Extends
    <3> QED
      BY <1>0, <1>1, <1>6, <3>1, ExtendKeeps
  <2>2. CASE ~Extends
    <3>1. z.va = top /\ list = free
      BY <1>3, <1>6, <2>2, Zenon
    <3> QED
      BY <1>0, <1>1, <1>6, <3>1, GrowKeeps
  <2> QED
    BY <2>1, <2>2, Zenon
<1>8. /\ n = z.size \/ n + HDR <= z.size
      /\ left = 0 <=> n = z.size
      /\ top1 + rest = z.va + HDR + n /\ left - HDR = z.size - n - HDR
  BY <1>2, <1>4, <1>5, <1>6
<1>9. free' = IF n = z.size THEN list
              ELSE InsertFree(list, Block(z.va + HDR + n, z.size - n - HDR))
  BY <1>1, <1>8, Zenon
<1>10. a = Block(z.va, n) /\ a \in UsedSet
  BY <1>4, <1>6, UsedFacts, Zenon
<1>n. n \in Nat /\ z \in BlockSet /\ (n = z.size \/ n + HDR <= z.size)
  BY <1>2, <1>6, <1>8, Zenon
<1>p. alloc' = Cons(a, alloc) /\ alloc \in Seq(UsedSet) /\ IsInjective(alloc) /\ a \in UsedSet
  BY <1>0, <1>1, <1>10, Zenon
<1> HIDE DEF list, a, rest, top1, left
<1>11. a \notin Range(alloc) /\ Keeps(free', Range(alloc) \cup {a}, top')
  BY <1>n, <1>7, <1>9, <1>10, CarveKeeps
<1>12. alloc' \in Seq(UsedSet) /\ IsInjective(alloc') /\ Range(alloc') = Range(alloc) \cup {a}
  BY <1>p, <1>11, Push, Zenon
<1> QED
  BY <1>10, <1>11, <1>12, Zenon DEF Returns, Shape


\* What a step does to the two lists.
LEMMA NextShape ==
  ASSUME Shape(free, alloc, top), Next
  PROVE  /\ Shape(free', alloc', top')
         /\ \/ \E a : Returns(a)
            \/ \E a \in Range(alloc) : Range(alloc') = Range(alloc) \ {a}
            \/ alloc' = << >> \/ alloc' = alloc
<1>1. ASSUME NEW n \in Requests, MallocFits(n) \/ MallocLarge(n)
      PROVE  \E a : Returns(a)
  BY <1>1, MallocFitsStep, MallocLargeStep, Zenon
<1>2. ASSUME NEW n \in Requests, MallocPage(n)
      PROVE  (\E a : Returns(a)) \/ (alloc' = alloc /\ Shape(free', alloc', top'))
  BY <1>2, MallocPageStep, Zenon
<1>3. ASSUME NEW k \in DOMAIN alloc, Free(k)
      PROVE  /\ Shape(free', alloc', top')
             /\ alloc[k] \in Range(alloc) /\ Range(alloc') = Range(alloc) \ {alloc[k]}
  <2>1. free' = Freed(free, alloc[k]) /\ alloc' = RemoveAt(alloc, k) /\ top' = top
    BY <1>3, Zenon DEF Free
  <2> QED
    BY <2>1, Pop, Zenon
<1>4. ASSUME Exit
      PROVE  Shape(free', alloc', top') /\ alloc' = << >>
  <2>1. free' = << >> /\ alloc' = << >> /\ top' = 0
    BY <1>4, Zenon DEF Exit
  <2> QED
    BY <2>1, EmptyShape, Zenon
<1>5. (\E a : Returns(a)) => Shape(free', alloc', top')
  BY Zenon DEF Returns
<1> QED
  BY <1>1, <1>2, <1>3, <1>4, <1>5, Zenon DEF Next

\* heap_top moves by the pages mapped.
LEMMA NextPages ==
  ASSUME pages \in 0 .. Pages, top = (Pages - pages) * PAGE, top \in Nat,
         free \in Seq(BlockSet), state \in {"running", "exited", "panic"}, Next
  PROVE  /\ pages' \in 0 .. Pages /\ top' = (Pages - pages') * PAGE
         /\ state' \in {"running", "exited", "panic"}
<1>0. PAGE \in Nat /\ Pages \in Nat
  BY HeapAssumption, Zenon
<1>1. ASSUME NEW i \in Int, NEW j \in Int, NEW p \in Int PROVE (i + j) * p = i * p + j * p
  OBVIOUS
<1>2. ASSUME NEW j \in 0 .. pages, pages' = pages - j, top' = top + j * PAGE
      PROVE  pages' \in 0 .. Pages /\ top' = (Pages - pages') * PAGE
  <2>1. pages' \in 0 .. Pages /\ Pages - pages' = (Pages - pages) + j
    BY <1>0, <1>2
  <2>2. Pages - pages \in Int /\ j \in Int /\ PAGE \in Int
    BY <1>0
  <2>3. ((Pages - pages) + j) * PAGE = (Pages - pages) * PAGE + j * PAGE
    BY <1>1, <2>2, Zenon
  <2> QED
    BY <1>2, <2>1, <2>3, Zenon
<1>3. ASSUME NEW n \in Requests, MallocFits(n) \/ MallocPage(n)
      PROVE  pages' \in 0 .. Pages /\ top' = (Pages - pages') * PAGE
  <2>1. CASE MallocFits(n)
    BY <2>1, Zenon DEF MallocFits
  <2>2. CASE MallocPage(n)
    <3>1. 1 \in 0 .. pages /\ pages' = pages - 1 /\ top' = top + 1 * PAGE
      BY <1>0, <2>2 DEF MallocPage
    <3> QED
      BY <1>2, <3>1, Zenon
  <2> QED
    BY <1>3, <2>1, <2>2, Zenon
<1>4. ASSUME NEW n \in Requests, MallocLarge(n)
      PROVE  pages' \in 0 .. Pages /\ top' = (Pages - pages') * PAGE
  <2> DEFINE h == IF Extends THEN 0 ELSE 1  m == MorePages(n - Start.size)
  <2>1. pages >= h + m /\ pages' = pages - h - m /\ top' = top + h * PAGE + m * PAGE
    BY <1>4, Zenon DEF MallocLarge
  <2>2. Start.size \in Nat /\ n \in Nat
    <3>1. CASE Extends
      <4>1. free # << >> /\ Start = Last(free)
        BY <3>1, Zenon DEF Extends, Start
      <4>2. Start \in BlockSet
        BY <4>1, FrontFacts, ZenonT(30)
      <4> QED
        BY <4>2, BlockFacts, UsedFacts, Zenon
    <3>2. CASE ~Extends
      BY <3>2, UsedFacts, HeapAssumption DEF Start, Block
    <3> QED
      BY <3>1, <3>2, Zenon
  <2>3. m \in Nat
    <3>1. n - Start.size \in Int
      BY <2>2
    <3> QED
      BY <3>1, MorePagesFacts, Zenon
  <2>4. h \in Nat
    BY Zenon
  <2> HIDE DEF h, m
  <2>5. (h + m) * PAGE = h * PAGE + m * PAGE
    BY <1>0, <1>1, <2>3, <2>4
  <2>6. h + m \in 0 .. pages /\ pages' = pages - (h + m)
    BY <2>1, <2>3, <2>4
  <2>7. h * PAGE \in Nat /\ m * PAGE \in Nat
    BY <1>0, <2>3, <2>4
  <2>8. top' = top + (h + m) * PAGE
    BY <2>1, <2>5, <2>7
  <2> QED
    BY <1>2, <2>6, <2>8, Zenon
<1>5. ASSUME NEW k \in DOMAIN alloc, Free(k)
      PROVE  pages' \in 0 .. Pages /\ top' = (Pages - pages') * PAGE
  BY <1>5, Zenon DEF Free
<1>6. ASSUME Exit
      PROVE  pages' \in 0 .. Pages /\ top' = (Pages - pages') * PAGE
  BY <1>0, <1>6 DEF Exit
<1>7. state' \in {"running", "exited", "panic"}
  BY Zenon DEF Next, MallocFits, MallocPage, MallocLarge, Free, Exit
<1> QED
  BY <1>3, <1>4, <1>5, <1>6, <1>7, Zenon DEF Next


-----------------------------------------------------------------------------
(***************************************************************************)
(* The invariant                                                           *)
(***************************************************************************)
\* OnlyHeadersLost, of blocks B below t.
HeadersLost(B, t) ==
  \A e \in {End(b) : b \in B} \cup {0} : \E s \in {b.va : b \in B} \cup {t} :
    s >= e /\ (s - e) % HDR = 0 /\ \A b \in B : b.va < e \/ b.va >= s

LEMMA LostIs ==
  ASSUME NEW B \in SUBSET BlockSet, NEW t \in Nat
  PROVE  HeadersLost(B, t) <=> \A e : EndIn(e, B) => \E s : StartIn(s, B, t) /\ Lost(e, s, B)
<1>1. \A b \in B : b.va \in Nat /\ End(b) \in Nat
  BY BlockFacts, Zenon
<1>2. \A e : e \in {End(b) : b \in B} \cup {0} <=> EndIn(e, B)
  BY Zenon DEF EndIn
<1>3. \A s : s \in {b.va : b \in B} \cup {t} <=> StartIn(s, B, t)
  BY Zenon DEF StartIn
<1>4. \A e : EndIn(e, B) => e \in Nat
  BY <1>1 DEF EndIn
<1>5. \A s : StartIn(s, B, t) => s \in Nat
  BY <1>1, Zenon DEF StartIn
<1>6. \A e, s \in Nat : (s >= e /\ (s - e) % HDR = 0) <=> s - e \in Gaps
  BY HeapAssumption DEF Gaps
<1>7. \A e, s \in Nat : (s >= e /\ (s - e) % HDR = 0 /\ \A b \in B : b.va < e \/ b.va >= s)
                        <=> Lost(e, s, B)
  BY <1>6, Zenon DEF Lost
<1>8. HeadersLost(B, t) <=>
        \A e : EndIn(e, B) => \E s : StartIn(s, B, t) /\ s >= e /\ (s - e) % HDR = 0
                                     /\ \A b \in B : b.va < e \/ b.va >= s
  BY <1>2, <1>3, Zenon DEF HeadersLost
<1> QED
  BY <1>4, <1>5, <1>7, <1>8

\* The inductive invariant in terms of the two lists.
LEMMA ShapeIs ==
  ASSUME NEW f \in Seq(BlockSet), NEW u \in Seq(UsedSet), NEW t \in Nat
  PROVE  Shape(f, u, t) <=>
           /\ Sorted(f) /\ IsInjective(u) /\ Range(f) \cap Range(u) = {}
           /\ \A b \in Range(f) \cup Range(u) : End(b) <= t
           /\ \A b, c \in Range(f) \cup Range(u) : b # c => Apart(b, c)
           /\ HeadersLost(Range(f) \cup Range(u), t)
<1> DEFINE B == Range(f) \cup Range(u)
<1>1. B \in SUBSET BlockSet
  <2>1. Range(f) \subseteq BlockSet /\ Range(u) \subseteq UsedSet
    BY RangeFacts, Zenon
  <2> QED
    BY <2>1, UsedFacts, Zenon
<1> HIDE DEF B
<1>2. HeadersLost(B, t) <=> \A e : EndIn(e, B) => \E s : StartIn(s, B, t) /\ Lost(e, s, B)
  BY <1>1, LostIs, Zenon
<1>3. Tiles(B, t) <=> /\ \A b \in B : End(b) <= t
                      /\ \A b, c \in B : b # c => Apart(b, c)
                      /\ HeadersLost(B, t)
  BY <1>1, <1>2, Zenon DEF Tiles, Disjoint
<1>4. Shape(f, u, t) <=> Sorted(f) /\ IsInjective(u) /\ Range(f) \cap Range(u) = {} /\ Tiles(B, t)
  BY Zenon DEF Shape, Keeps, B
<1> QED
  BY <1>3, <1>4, Zenon DEF B

LEMMA InvShape ==
  ASSUME HeapInv
  PROVE  Shape(free, alloc, top) /\ free \in Seq(BlockSet) /\ top \in Nat
<1>1. free \in Seq(BlockSet) /\ alloc \in Seq(UsedSet) /\ top \in Nat
  BY HeapAssumption DEF HeapInv, TypeOK, BlockSet, UsedSet
<1>2. HeadersLost(Range(free) \cup Range(alloc), top)
  BY Zenon DEF HeapInv, OnlyHeadersLost, HeadersLost, Blocks
<1> QED
  BY <1>1, <1>2, ShapeIs, Zenon DEF HeapInv, Blocks

LEMMA ShapeInv ==
  ASSUME NEW f, NEW u, NEW t, Shape(f, u, t)
  PROVE  /\ f \in Seq(BlockSet) /\ u \in Seq(UsedSet) /\ t \in Nat
         /\ Sorted(f) /\ IsInjective(u) /\ Range(f) \cap Range(u) = {}
         /\ \A b \in Range(f) \cup Range(u) : End(b) <= t
         /\ \A b, c \in Range(f) \cup Range(u) : b # c => Apart(b, c)
         /\ HeadersLost(Range(f) \cup Range(u), t)
<1>1. f \in Seq(BlockSet) /\ u \in Seq(UsedSet) /\ t \in Nat
  BY Zenon DEF Shape, Keeps, Tiles
<1> QED
  BY <1>1, ShapeIs, Zenon

LEMMA TopBound ==
  ASSUME NEW p \in 0 .. Pages, NEW t, t = (Pages - p) * PAGE
  PROVE  t \in 0 .. (Pages * PAGE)
<1>0. PAGE \in Nat /\ Pages \in Nat /\ p \in Nat /\ Pages - p \in Nat
  BY HeapAssumption
<1>1. \A i, j, k \in Nat : (i + j) * k = i * k + j * k /\ i * k \in Nat
  OBVIOUS
<1>2. ((Pages - p) + p) * PAGE = (Pages - p) * PAGE + p * PAGE
      /\ (Pages - p) * PAGE \in Nat /\ p * PAGE \in Nat
  BY <1>0, <1>1
<1>3. (Pages - p) + p = Pages
  BY <1>0
<1> QED
  BY <1>2, <1>3

LEMMA HeapInvInit ==
  ASSUME Init
  PROVE  HeapInv
<1>1. Shape(free, alloc, top)
  BY EmptyShape, Zenon DEF Init
<1>2. pages \in 0 .. Pages /\ top = (Pages - pages) * PAGE /\ state \in {"running", "exited", "panic"}
  BY HeapAssumption DEF Init
<1>3. top \in 0 .. (Pages * PAGE)
  BY <1>2, TopBound, Zenon
<1>4. TypeOK
  BY <1>1, <1>2, <1>3, ShapeInv, Zenon DEF TypeOK, BlockSet, UsedSet
<1>5. OnlyHeadersLost
  BY <1>1, ShapeInv, ZenonT(30) DEF OnlyHeadersLost, HeadersLost, Blocks
<1> QED
  BY <1>1, <1>2, <1>4, <1>5, ShapeInv, Zenon DEF HeapInv, Blocks

LEMMA HeapInvStep ==
  ASSUME HeapInv, [Next]_vars
  PROVE  HeapInv'
<1>1. CASE Next
  <2>1. Shape(free, alloc, top) /\ free \in Seq(BlockSet) /\ top \in Nat
    BY InvShape, Zenon
  <2>2. Shape(free', alloc', top')
    BY <1>1, <2>1, NextShape, Zenon
  <2>3. /\ pages' \in 0 .. Pages /\ top' = (Pages - pages') * PAGE
        /\ state' \in {"running", "exited", "panic"}
    BY <1>1, <2>1, NextPages, Zenon DEF HeapInv, TypeOK
  <2>4. top' \in 0 .. (Pages * PAGE)
    BY <2>3, TopBound, Zenon
  <2>5. TypeOK'
    BY <2>2, <2>3, <2>4, ShapeInv, Zenon DEF TypeOK, BlockSet, UsedSet
  <2>6. OnlyHeadersLost'
    BY <2>2, ShapeInv, ZenonT(30) DEF OnlyHeadersLost, HeadersLost, Blocks
  <2> QED
    BY <2>2, <2>3, <2>5, <2>6, ShapeInv, Zenon DEF HeapInv, Blocks
<1>2. CASE UNCHANGED vars
  BY <1>2, Zenon DEF vars, HeapInv, TypeOK, OnlyHeadersLost, Blocks
<1> QED
  BY <1>1, <1>2, Zenon


\* The inductive invariant of Heap: malloc, free and exit keep the free list in
\* order, the blocks of both lists apart and inside the heap, and lose nothing
\* but headers.
THEOREM HeapInvariant == Spec => []HeapInv
<1>1. Init => HeapInv
  BY HeapInvInit, Zenon
<1>2. HeapInv /\ [Next]_vars => HeapInv'
  BY HeapInvStep, Zenon
<1> QED
  BY <1>1, <1>2, PTL DEF Spec

\* The free list is in address order after every first_fit_alloc, malloc and
\* merge_free_blocks, whatever the sizes.
THEOREM FreeOrderedCorrect == Spec => []FreeOrdered
<1>1. ASSUME HeapInv PROVE FreeOrdered
  <2>1. TypeOK /\ Sorted(free) /\ Len(free) \in Nat
    BY <1>1 DEF HeapInv, TypeOK
  <2>2. ASSUME NEW k \in 1 .. (Len(free) - 1) PROVE End(free[k]) <= free[k + 1].va
    <3>1. k \in 1 .. Len(free) /\ k + 1 \in 1 .. Len(free) /\ k < k + 1
      BY <2>1
    <3> QED
      BY <2>1, <3>1, Zenon DEF Sorted
  <2> QED
    BY <2>1, <2>2, Zenon DEF FreeOrdered
<1>2. HeapInv => FreeOrdered
  BY <1>1
<1> QED
  BY <1>2, HeapInvariant, PTL

\* Between them first_fit_alloc, malloc and free lose no word of the heap but
\* headers of blocks without contents.
THEOREM OnlyHeadersLostCorrect == Spec => []OnlyHeadersLost
<1>1. HeapInv => OnlyHeadersLost
  BY Zenon DEF HeapInv
<1> QED
  BY <1>1, HeapInvariant, PTL

LEMMA RangeCount ==
  ASSUME NEW S, NEW s \in Seq(S), \A i, j \in 1 .. Len(s) : s[i] = s[j] => i = j
  PROVE  IsFiniteSet(Range(s)) /\ Cardinality(Range(s)) = Len(s)
<1> DEFINE n == Len(s)
<1>1. n \in Nat /\ DOMAIN s = 1 .. n /\ \A x : x \in Range(s) <=> \E i \in 1 .. n : x = s[i]
  BY RangeFacts
<1>2. s \in [1 .. n -> Range(s)]
  <2>1. s = [i \in 1 .. n |-> s[i]]
    BY <1>1
  <2>2. \A i \in 1 .. n : s[i] \in Range(s)
    BY <1>1, Zenon
  <2> QED
    BY <2>1, <2>2, Zenon
<1>3. s \in Injection(1 .. n, Range(s))
  BY <1>1, <1>2, Zenon DEF Injection, IsInjective
<1>4. s \in Surjection(1 .. n, Range(s))
  BY <1>1, <1>2, Zenon DEF Surjection
<1>5. ExistsBijection(1 .. n, Range(s))
  BY <1>3, <1>4, Zenon DEF ExistsBijection, Bijection
<1>6. IsFiniteSet(1 .. n) /\ Cardinality(1 .. n) = n
  <2>1. 1 \in Int /\ n \in Int /\ (1 > n => n = 0) /\ n - 1 + 1 = n
    BY <1>1
  <2>2. IsFiniteSet(1 .. n) /\ Cardinality(1 .. n) = IF 1 > n THEN 0 ELSE n - 1 + 1
    BY <2>1, FS_Interval, Zenon
  <2> QED
    BY <2>1, <2>2, Zenon
<1> HIDE DEF n
<1>7. IsFiniteSet(Range(s)) /\ Cardinality(Range(s)) = Cardinality(1 .. n)
  BY <1>5, <1>6, FS_Bijection, Zenon
<1> QED
  BY <1>6, <1>7, Zenon DEF n

\* No word of the heap is in two blocks, free or in use, and no block is on the
\* lists twice.
THEOREM BlocksApartCorrect == Spec => []BlocksApart
<1>1. ASSUME HeapInv PROVE BlocksApart
  <2>1. free \in Seq(BlockSet) /\ alloc \in Seq(UsedSet) /\ top \in Nat
        /\ Shape(free, alloc, top) /\ Range(free) \cap Range(alloc) = {}
        /\ Sorted(free)
    BY <1>1, InvShape, ShapeInv, Zenon
  <2>2. IsFiniteSet(Range(free)) /\ Cardinality(Range(free)) = Len(free)
    <3>1. \A i, j \in 1 .. Len(free) : free[i] = free[j] => i = j
      BY <2>1, SortedInjective, Zenon
    <3> QED
      BY <2>1, <3>1, RangeCount, ZenonT(30)
  <2>3. IsFiniteSet(Range(alloc)) /\ Cardinality(Range(alloc)) = Len(alloc)
    <3>1. DOMAIN alloc = 1 .. Len(alloc)
      BY <2>1
    <3>2. \A i, j \in 1 .. Len(alloc) : alloc[i] = alloc[j] => i = j
      BY <1>1, <3>1, Zenon DEF HeapInv, IsInjective
    <3> QED
      BY <2>1, <3>2, RangeCount, Zenon
  <2>4. Cardinality(Range(free) \cap Range(alloc)) = 0
    BY <2>1, FS_EmptySet, Zenon
  <2>5. Cardinality(Range(free) \cup Range(alloc)) = Cardinality(Range(free))
          + Cardinality(Range(alloc)) - Cardinality(Range(free) \cap Range(alloc))
    BY <2>2, <2>3, FS_Union, Zenon
  <2>6. Len(free) \in Nat /\ Len(alloc) \in Nat
    BY <2>1
  <2>7. Cardinality(Blocks) = Len(free) + Len(alloc)
    BY <2>2, <2>3, <2>4, <2>5, <2>6 DEF Blocks
  <2>8. \A b \in Blocks : b.va >= 0 /\ End(b) <= top
    <3>1. \A b \in Blocks : b.va \in Nat /\ End(b) <= top
      BY <2>1, KeepsFacts, Zenon DEF Shape, Blocks
    <3> QED
      BY <3>1
  <2>9. \A b, c \in Blocks : b # c => End(b) <= c.va \/ End(c) <= b.va
    BY <1>1, Zenon DEF HeapInv, Apart
  <2> QED
    BY <2>7, <2>8, <2>9, Zenon DEF BlocksApart
<1>2. HeapInv => BlocksApart
  BY <1>1, Zenon
<1> QED
  BY <1>2, HeapInvariant, PTL

-----------------------------------------------------------------------------
(***************************************************************************)
(* The allocator                                                           *)
(***************************************************************************)
\* What the program sees of a block: its contents.
Contents(b) == Block(b.va + HDR, b.size)

LEMMA ContentsFacts ==
  /\ \A b, c \in UsedSet : Contents(b) = Contents(c) => b = c
  /\ \A b \in UsedSet : /\ Contents(b).va = b.va + HDR /\ Contents(b).size = b.size
                        /\ Contents(b).va + Contents(b).size = End(b)
                        /\ b.va \in Nat /\ End(b) \in Nat /\ b.size \in Requests
<1>0. HDR \in Nat /\ Requests \subseteq Nat
  BY HeapAssumption, Zenon
<1>1. \A b \in UsedSet : b.va \in Nat /\ b.size \in Requests /\ b = [va |-> b.va, size |-> b.size]
  BY DEF UsedSet
<1>2. \A b \in UsedSet : Contents(b).va = b.va + HDR /\ Contents(b).size = b.size
  BY Zenon DEF Contents, Block
<1>3. \A b \in UsedSet : Contents(b).va + Contents(b).size = End(b) /\ End(b) \in Nat
  BY <1>0, <1>1, <1>2 DEF End
<1>4. ASSUME NEW b \in UsedSet, NEW c \in UsedSet, Contents(b) = Contents(c) PROVE b = c
  <2>1. b.va + HDR = c.va + HDR /\ b.size = c.size
    BY <1>2, <1>4, Zenon
  <2>2. b.va = c.va
    BY <1>0, <1>1, <2>1
  <2> QED
    BY <1>1, <2>1, <2>2, Zenon
<1> QED
  BY <1>1, <1>2, <1>3, <1>4

\* malloc and free implement Allocator: malloc returns words no block in use
\* has, every other block stays where it is, and only free and exit take one
\* away.
THEOREM AllocatorCorrect == Spec => LiveSpec
<1> DEFINE live == {Block(b.va + HDR, b.size) : b \in Range(alloc)}
<1>1. Init => Live!Init
  BY DEF Init, Live!Init, Range
<1>2. ASSUME HeapInv, HeapInv', [Next]_vars PROVE [Live!Next]_live
  <2>1. CASE UNCHANGED vars
    BY <2>1, Zenon DEF vars
  <2>2. CASE Next
    <3>1. Shape(free, alloc, top) /\ Range(alloc) \subseteq UsedSet
      <4>1. Shape(free, alloc, top)
        BY <1>2, InvShape, Zenon
      <4>2. alloc \in Seq(UsedSet)
        BY <4>1, Zenon DEF Shape
      <4> QED
        BY <4>1, <4>2, RangeFacts, Zenon
    <3>2. live = {Contents(b) : b \in Range(alloc)} /\ live' = {Contents(b) : b \in Range(alloc')}
      BY Zenon DEF Contents
    <3> HIDE DEF live
    <3>3. ASSUME NEW a, Returns(a) PROVE Live!Next
      <4>1. a \in UsedSet /\ a \notin Range(alloc) /\ Range(alloc') = Range(alloc) \cup {a}
        BY <3>3, Zenon DEF Returns
      <4>2. Contents(a) \in live' /\ live' = live \cup {Contents(a)}
        BY <3>2, <4>1, Zenon
      <4>3. Contents(a) \notin live
        BY <3>1, <3>2, <4>1, ContentsFacts, Zenon
      <4>4. Contents(a).size \in Requests
        BY <4>1, ContentsFacts, Zenon
      <4>5. ASSUME NEW c \in live PROVE Live!Words(Contents(a)) \cap Live!Words(c) = {}
        <5>1. PICK b \in Range(alloc) : c = Contents(b)
          BY <3>2, Zenon
        <5>2. b \in UsedSet /\ b # a
          BY <3>1, <4>1, Zenon
        <5>3. End(a) <= b.va \/ End(b) <= a.va
          BY <1>2, <4>1, <5>1, <5>2, Zenon DEF HeapInv, Blocks, Apart
        <5> DEFINE x == Contents(a)  y == Contents(b)
        <5>4. /\ x.va = a.va + HDR /\ x.va + x.size = End(a) /\ a.va \in Nat /\ End(a) \in Nat
              /\ y.va = b.va + HDR /\ y.va + y.size = End(b) /\ b.va \in Nat /\ End(b) \in Nat
              /\ x.size \in Nat /\ y.size \in Nat
          BY <4>1, <5>2, ContentsFacts, HeapAssumption, Zenon
        <5>5. HDR \in Nat
          BY HeapAssumption, Zenon
        <5> HIDE DEF x, y
        <5>6. (x.va .. (x.va + x.size - 1)) \cap (y.va .. (y.va + y.size - 1)) = {}
          BY <5>3, <5>4, <5>5
        <5> QED
          BY <5>1, <5>6, Zenon DEF Live!Words, x, y
      <4>6. Live!Malloc(Contents(a))
        BY <4>2, <4>4, <4>5, Zenon DEF Live!Malloc, live
      <4> QED
        BY <4>2, <4>3, <4>6, Zenon DEF Live!Next, live
    <3>4. ASSUME NEW a \in Range(alloc), Range(alloc') = Range(alloc) \ {a} PROVE Live!Next
      <4>1. Contents(a) \in live /\ live' = live \ {Contents(a)}
        BY <3>1, <3>2, <3>4, ContentsFacts
      <4> QED
        BY <4>1, Zenon DEF Live!Next, Live!Free, live
    <3>5. ASSUME alloc' = << >> PROVE Live!Next
      <4>1. Range(alloc') = {}
        BY <3>5 DEF Range
      <4>2. live' = {}
        BY <3>2, <4>1, Zenon
      <4> QED
        BY <4>2, Zenon DEF Live!Next, Live!Exit, live
    <3>6. ASSUME alloc' = alloc PROVE live' = live
      BY <3>2, <3>6, Zenon
    <3> QED
      BY <2>2, <3>1, <3>3, <3>4, <3>5, <3>6, NextShape
  <2> QED
    BY <1>2, <2>1, <2>2, Zenon
<1> QED
  BY <1>1, <1>2, HeapInvariant, PTL DEF Spec, LiveSpec, Live!Spec

=============================================================================
