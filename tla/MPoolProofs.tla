---------------------------- MODULE MPoolProofs -----------------------------
(***************************************************************************)
(* The heap stays partitioned, whatever its size, the number of CPUs and   *)
(* the requests, and a CPU can always take back what it gave to its local  *)
(* pool.  The first is about sets of blocks only: an operation cuts one    *)
(* block into parts, or gives blocks another list.                         *)
(***************************************************************************)
EXTENDS MPool, FiniteSetTheorems, TLAPS

\* What holds of the blocks of the heap.
Sound(B) ==
  /\ B \subseteq Block
  /\ \A b \in B : b.start + b.size <= First + HeapPages
  /\ \A b \in B : b.list = "entry" => b.size = 1

Covers(B) == \A x \in Page : \E b \in B : x \in PagesOf(b)
Disjoint(B) == \A b1, b2 \in B : b1 # b2 => PagesOf(b1) \cap PagesOf(b2) = {}

Partition(B) == Sound(B) /\ Covers(B) /\ Disjoint(B)

\* The blocks of S are the parts of b.
Parts(S, b) ==
  /\ Sound(S)
  /\ \A s \in S : PagesOf(s) \subseteq PagesOf(b)
  /\ \A x \in PagesOf(b) : \E s \in S : x \in PagesOf(s)
  /\ Disjoint(S)

\* The free pages of a pool.
FreePagesIn(B, p) == {x \in Page : \E b \in B : b.pool = p /\ x \in PagesOf(b)}

\* The fields of a block.
LEMMA Fields ==
  ASSUME NEW B, Sound(B), NEW b \in B
  PROVE  /\ b.start \in Page /\ b.size \in 1 .. HeapPages
         /\ b.start \in Nat /\ b.size \in Nat \ {0}
         /\ b.list \in {"entry", "chunk", "used"}
         /\ b.list = "used" <=> b.pool = NoPool
         /\ b.pool \in Pool \cup {NoPool}
         /\ b.start + b.size <= First + HeapPages
         /\ PagesOf(b) \subseteq Page /\ b.start \in PagesOf(b)
         /\ b = [list |-> b.list, pool |-> b.pool, start |-> b.start, size |-> b.size]
<1>1. b \in Block /\ b.start + b.size <= First + HeapPages
  BY DEF Sound
<1>2. b.start \in Page /\ b.size \in 1 .. HeapPages /\ b.list \in {"entry", "chunk", "used"}
      /\ b = [list |-> b.list, pool |-> b.pool, start |-> b.start, size |-> b.size]
      /\ b.pool \in Pool \cup {NoPool}
      /\ (b.list = "used" <=> b.pool = NoPool)
  BY <1>1, MPoolAssumption DEF Block, Pool
<1> QED  BY <1>1, <1>2, MPoolAssumption DEF Page, PagesOf

\* Cutting a block into parts keeps a partition.
LEMMA Cut ==
  ASSUME NEW B, Partition(B), NEW b \in B, NEW S, Parts(S, b)
  PROVE  Partition((B \ {b}) \cup S)
<1> DEFINE C == (B \ {b}) \cup S
<1>1. Sound(C)
  BY DEF Partition, Parts, Sound
<1>2. Covers(C)
  <2> SUFFICES ASSUME NEW x \in Page PROVE \E k \in C : x \in PagesOf(k)
    BY DEF Covers
  <2>1. PICK k \in B : x \in PagesOf(k)
    BY DEF Partition, Covers
  <2> QED  BY <2>1 DEF Parts
<1>3. Disjoint(C)
  <2> SUFFICES ASSUME NEW b1 \in C, NEW b2 \in C, b1 # b2
               PROVE  PagesOf(b1) \cap PagesOf(b2) = {}
    BY DEF Disjoint
  <2>1. CASE b1 \in B \ {b} /\ b2 \in B \ {b}
    BY <2>1 DEF Partition, Disjoint
  <2>2. CASE b1 \in S /\ b2 \in S
    BY <2>2 DEF Parts, Disjoint
  <2>3. CASE b1 \in B \ {b} /\ b2 \in S
    BY <2>3 DEF Partition, Disjoint, Parts
  <2>4. CASE b1 \in S /\ b2 \in B \ {b}
    BY <2>4 DEF Partition, Disjoint, Parts
  <2> QED  BY <2>1, <2>2, <2>3, <2>4
<1> QED  BY <1>1, <1>2, <1>3 DEF Partition

\* So does giving one block another list.
LEMMA Relist ==
  ASSUME NEW B, Partition(B), NEW b \in B, NEW k \in Block,
         k.start = b.start, k.size = b.size, k.list = "entry" => k.size = 1
  PROVE  Partition((B \ {b}) \cup {k})
<1>1. Parts({k}, b)
  BY Fields DEF Partition, Sound, Parts, Disjoint, PagesOf
<1> QED  BY <1>1, Cut

\* The size of a block is the number of its pages.
LEMMA SizeOfBlock ==
  ASSUME NEW start \in Nat, NEW size \in Nat \ {0}
  PROVE  IsFiniteSet(start .. start + size - 1) /\ Cardinality(start .. start + size - 1) = size
<1>1. start \in Int /\ start + size - 1 \in Int /\ ~(start > start + size - 1)
  OBVIOUS
<1>2. IsFiniteSet(start .. start + size - 1)
      /\ Cardinality(start .. start + size - 1) =
           IF start > start + size - 1 THEN 0 ELSE start + size - 1 - start + 1
  BY <1>1, FS_Interval
<1> QED  BY <1>1, <1>2

\* Sets of pages have a size.
LEMMA PagesAreFinite ==
  /\ IsFiniteSet(Page) /\ Cardinality(Page) = HeapPages
  /\ \A S \in SUBSET Page : /\ IsFiniteSet(S)
                            /\ Cardinality(S) \in 0 .. HeapPages
                            /\ Cardinality(S) = 0 <=> S = {}
<1>1. IsFiniteSet(Page) /\ Cardinality(Page) = HeapPages
  BY SizeOfBlock, MPoolAssumption DEF Page
<1>2. ASSUME NEW S \in SUBSET Page
      PROVE  IsFiniteSet(S) /\ Cardinality(S) \in 0 .. HeapPages
             /\ (Cardinality(S) = 0 <=> S = {})
  <2>1. IsFiniteSet(S) /\ Cardinality(S) <= Cardinality(Page)
    BY <1>1, FS_Subset
  <2>2. Cardinality(S) \in Nat
    BY <2>1, FS_CardinalityType
  <2>3. Cardinality(S) = 0 <=> S = {}
    BY <2>1, FS_EmptySet
  <2> QED  BY <1>1, <2>1, <2>2, <2>3, MPoolAssumption
<1> QED  BY <1>1, <1>2

\* What is left when the pages start .. start + n - 1 of b are taken, with the
\* block of these pages.
Taken(p, b, start, n) ==
  {Used(start, n)} \cup Rest(p, b.start, start) \cup Rest(p, start + n, b.start + b.size)

\* These pages are pages of b.
Within(b, start, n) == b.start <= start /\ start + n <= b.start + b.size

LEMMA InRest ==
  ASSUME NEW p, NEW start, NEW end
  PROVE  \A s : s \in Rest(p, start, end) <=> s = Chunk(p, start, end - start) /\ start < end
BY DEF Rest

LEMMA RestPages ==
  ASSUME NEW p, NEW start \in Nat, NEW end \in Nat, NEW s \in Rest(p, start, end)
  PROVE  s.pool = p /\ PagesOf(s) = start .. end - 1
BY DEF Rest, Chunk, PagesOf

LEMMA TakenParts ==
  ASSUME NEW B, Sound(B), NEW b \in B, NEW p \in Pool, NEW start \in Nat, NEW n \in Nat \ {0},
         b.start <= start, start + n <= b.start + b.size
  PROVE  Parts(Taken(p, b, start, n), b)
<1> DEFINE S == Taken(p, b, start, n)
           front == Chunk(p, b.start, start - b.start)
           back == Chunk(p, start + n, b.start + b.size - (start + n))
           used == Used(start, n)
<1>1. /\ b.start \in Nat /\ b.size \in Nat /\ b.start >= First
      /\ b.start + b.size <= First + HeapPages
  BY Fields, MPoolAssumption DEF Page
<1>2. \A s : s \in S <=> \/ s = used
                         \/ s = front /\ b.start < start
                         \/ s = back /\ start + n < b.start + b.size
  <2>1. \A s : s \in Rest(p, b.start, start) <=> s = front /\ b.start < start
    BY InRest
  <2>2. \A s : s \in Rest(p, start + n, b.start + b.size)
                <=> s = back /\ start + n < b.start + b.size
    <3>1. PICK lo, hi : lo = start + n /\ hi = b.start + b.size
      OBVIOUS
    <3>2. \A s : s \in Rest(p, lo, hi) <=> s = Chunk(p, lo, hi - lo) /\ lo < hi
      BY InRest
    <3>3. back = Chunk(p, lo, hi - lo)
      BY <1>1, <3>1 DEF Chunk
    <3>4. Rest(p, lo, hi) = Rest(p, start + n, b.start + b.size)
      BY <3>1
    <3> HIDE DEF back
    <3>5. (lo < hi) <=> (start + n < b.start + b.size)
      BY <3>1
    <3> QED  BY <3>2, <3>3, <3>4, <3>5, Zenon
  <2>3. \A s : s \in S <=> \/ s = used
                           \/ s \in Rest(p, b.start, start)
                           \/ s \in Rest(p, start + n, b.start + b.size)
    BY Zenon DEF Taken
  <2> HIDE DEF S, front, back, used
  <2> QED  BY <2>1, <2>2, <2>3, Zenon
<1>3. used \in Block /\ (b.start < start => front \in Block)
      /\ (start + n < b.start + b.size => back \in Block)
  BY <1>1, MPoolAssumption DEF Block, Used, Chunk, Page
<1>4. /\ PagesOf(used) = start .. start + n - 1
      /\ PagesOf(front) = b.start .. start - 1
      /\ PagesOf(back) = start + n .. b.start + b.size - 1
      /\ PagesOf(b) = b.start .. b.start + b.size - 1
  BY <1>1, SMTT(60) DEF PagesOf, Used, Chunk
<1>5. /\ used.start + used.size = start + n
      /\ front.start + front.size = start
      /\ back.start + back.size = b.start + b.size
      /\ used.list # "entry" /\ front.list # "entry" /\ back.list # "entry"
  BY <1>1 DEF Used, Chunk
<1> HIDE DEF S, front, back, used
<1>6. Sound(S)
  <2>1. S \subseteq Block
    BY <1>2, <1>3, Zenon
  <2>2. \A s \in S : s.start + s.size <= First + HeapPages /\ s.list # "entry"
    <3> TAKE s \in S
    <3>1. s = used \/ s = front \/ s = back
      BY <1>2, Zenon
    <3>2. /\ start + n <= First + HeapPages /\ start <= First + HeapPages
          /\ b.start + b.size <= First + HeapPages
      BY <1>1, MPoolAssumption
    <3> QED  BY <1>5, <3>1, <3>2, Zenon
  <2> QED  BY <2>1, <2>2 DEF Sound
<1>7. \A s \in S : PagesOf(s) \subseteq PagesOf(b)
  <2>1. PagesOf(used) \subseteq PagesOf(b) /\ PagesOf(front) \subseteq PagesOf(b)
        /\ PagesOf(back) \subseteq PagesOf(b)
    BY <1>1, <1>4, SMTT(60)
  <2> QED  BY <1>2, <2>1, Zenon
<1>8. \A x \in PagesOf(b) : \E s \in S : x \in PagesOf(s)
  <2> TAKE x \in PagesOf(b)
  <2>1. CASE x < start
    BY <1>1, <1>2, <1>4, <2>1, SMTT(60)
  <2>2. CASE x >= start /\ x < start + n
    BY <1>1, <1>2, <1>4, <2>2, SMTT(60)
  <2>3. CASE x >= start + n
    BY <1>1, <1>2, <1>4, <2>3, SMTT(60)
  <2> QED  BY <1>1, <1>4, <2>1, <2>2, <2>3
<1>9. Disjoint(S)
  <2>1. /\ PagesOf(used) \cap PagesOf(front) = {}
        /\ PagesOf(used) \cap PagesOf(back) = {}
        /\ PagesOf(front) \cap PagesOf(back) = {}
    BY <1>1, <1>4, SMTT(60)
  <2> QED  BY <1>2, <2>1 DEF Disjoint
<1> QED  BY <1>6, <1>7, <1>8, <1>9 DEF S, Parts

\* An allocation takes pages of a block of the pool.
LEMMA TakesTaken ==
  ASSUME Partition(blocks), NEW p \in Pool, NEW r, r.size \in Nat \ {0}, r.align \in Nat \ {0},
         Takes(p, r)
  PROVE  \E b \in blocks, start \in Nat :
           /\ b.pool = p
           /\ Within(b, start, r.size)
           /\ blocks' = (blocks \ {b}) \cup Taken(p, b, start, r.size)
<1>1. Sound(blocks)
  BY DEF Partition
<1>2. CASE Single(r)
  <2>1. PICK b \in blocks :
          /\ b.pool = p
          /\ \/ b.list = "entry" /\ blocks' = (blocks \ {b}) \cup {Used(b.start, 1)}
             \/ blocks' = (blocks \ {b}) \cup {Used(b.start, 1)}
                            \cup Rest(p, b.start + 1, b.start + b.size)
    BY <1>2 DEF Takes, alloc, entry_list, chunk_list
  <2>2. b.start \in Nat /\ b.size \in Nat \ {0} /\ (b.list = "entry" => b.size = 1)
    BY <1>1, Fields DEF Sound
  <2>3. Rest(p, b.start, b.start) = {} /\ (b.size = 1 => Rest(p, b.start + 1, b.start + b.size) = {})
    BY <2>2 DEF Rest
  <2>4. blocks' = (blocks \ {b}) \cup Taken(p, b, b.start, 1)
    BY <2>1, <2>2, <2>3 DEF Taken
  <2> QED  BY <1>2, <2>1, <2>2, <2>4 DEF Single, Within
<1>3. CASE ~Single(r)
  <2>1. PICK b \in blocks, start \in Page :
          /\ b.pool = p
          /\ start - b.start \in 0 .. r.align - 1
          /\ start + r.size <= b.start + b.size
          /\ blocks' = (blocks \ {b}) \cup {Used(start, r.size)}
                         \cup Rest(p, b.start, start)
                         \cup Rest(p, start + r.size, b.start + b.size)
    BY <1>3 DEF Takes, alloc_pages, chunk_list, Fits
  <2>2. b.start \in Nat /\ start \in Nat
    BY <1>1, Fields, MPoolAssumption DEF Page
  <2>3. b.start <= start
    BY <2>1, <2>2
  <2>4. blocks' = (blocks \ {b}) \cup Taken(p, b, start, r.size)
    BY <2>1 DEF Taken
  <2> QED  BY <2>1, <2>2, <2>3, <2>4 DEF Within
<1> QED  BY <1>2, <1>3

\* In C, pool p has n free pages less than in B.
Fewer(B, C, p, n) == Cardinality(FreePagesIn(C, p)) = Cardinality(FreePagesIn(B, p)) - n

\* Taking pages from a pool: the pool has so many less, the other pools as
\* many as before.
LEMMA TakenFree ==
  ASSUME NEW B, Partition(B), NEW b \in B, NEW p \in Pool, b.pool = p,
         NEW start \in Nat, NEW n \in Nat \ {0}, Within(b, start, n),
         NEW C, C = (B \ {b}) \cup Taken(p, b, start, n)
  PROVE  /\ Partition(C)
         /\ \A k \in C : k.pool = NoPool \/ k.pool = p \/ k \in B
         /\ Fewer(B, C, p, n)
         /\ \A q \in Pool \ {p} : FreePagesIn(C, q) = FreePagesIn(B, q)
<1> USE DEF Within
<1> DEFINE gone == start .. start + n - 1
           had == FreePagesIn(B, p)
           has == FreePagesIn(C, p)
<1>0. Sound(B) /\ Disjoint(B)
  BY DEF Partition
<1>1. Parts(Taken(p, b, start, n), b)
  BY <1>0, TakenParts
<1>2. Partition(C)
  BY <1>1, Cut
<1>3. \A s \in Taken(p, b, start, n) : \/ s.pool = NoPool /\ PagesOf(s) = gone
                                       \/ s.pool = p /\ PagesOf(s) \cap gone = {}
  <2> SUFFICES ASSUME NEW s \in Taken(p, b, start, n)
               PROVE  \/ s.pool = NoPool /\ PagesOf(s) = gone
                      \/ s.pool = p /\ PagesOf(s) \cap gone = {}
    OBVIOUS
  <2>0. b.start \in Nat /\ b.size \in Nat
    BY <1>0, Fields
  <2>1. CASE s = Used(start, n)
    BY <2>1 DEF Used, PagesOf
  <2>2. CASE s \in Rest(p, b.start, start)
    <3>1. PagesOf(s) = b.start .. start - 1 /\ s.pool = p
      BY <2>0, <2>2, RestPages, SMTT(60)
    <3> QED  BY <2>0, <3>1
  <2>3. CASE s \in Rest(p, start + n, b.start + b.size)
    <3>1. PICK lo \in Nat, hi \in Nat : lo = start + n /\ hi = b.start + b.size
      BY <2>0
    <3>2. s \in Rest(p, lo, hi)
      BY <2>3, <3>1
    <3>3. PagesOf(s) = lo .. hi - 1 /\ s.pool = p
      BY <3>2, RestPages
    <3> QED  BY <2>0, <3>1, <3>3
  <2> QED  BY <2>1, <2>2, <2>3, Zenon DEF Taken
<1>4. gone \subseteq PagesOf(b) /\ PagesOf(b) \subseteq Page
  BY <1>0, Fields DEF PagesOf
<1> HIDE DEF gone
<1>5. NoPool \notin Pool
  BY MPoolAssumption DEF Pool
<1>6. gone \subseteq had
  BY <1>4 DEF FreePagesIn
<1>7. has = had \ gone
  <2>1. ASSUME NEW x \in has PROVE x \in had \ gone
    <3>1. PICK k \in C : k.pool = p /\ x \in PagesOf(k)
      BY <2>1 DEF FreePagesIn
    <3>2. CASE k \in B \ {b}
      <4>1. x \notin PagesOf(b)
        BY <1>0, <3>1, <3>2 DEF Disjoint
      <4> QED  BY <1>4, <2>1, <3>1, <3>2, <4>1 DEF FreePagesIn
    <3>3. CASE k \in Taken(p, b, start, n)
      <4>1. x \in PagesOf(b)
        BY <1>1, <3>1, <3>3 DEF Parts
      <4> QED  BY <1>3, <1>4, <1>5, <3>1, <3>3, <4>1 DEF FreePagesIn
    <3> QED  BY <3>1, <3>2, <3>3
  <2>2. ASSUME NEW x \in had \ gone PROVE x \in has
    <3>1. PICK k \in B : k.pool = p /\ x \in PagesOf(k)
      BY <2>2 DEF FreePagesIn
    <3>2. CASE k = b
      <4>1. PICK s \in Taken(p, b, start, n) : x \in PagesOf(s)
        BY <1>1, <3>1, <3>2 DEF Parts
      <4> QED  BY <1>3, <2>2, <4>1 DEF FreePagesIn
    <3> QED  BY <2>2, <3>1, <3>2 DEF FreePagesIn
  <2> QED  BY <2>1, <2>2, SMTT(60)
<1>8. Cardinality(gone) = n /\ IsFiniteSet(gone)
  BY SizeOfBlock DEF gone
<1>9. Cardinality(has) = Cardinality(had) - n
  <2>1. IsFiniteSet(had)
    BY PagesAreFinite DEF FreePagesIn
  <2>2. Cardinality(had \ gone) = Cardinality(had) - Cardinality(had \cap gone)
    BY <2>1, FS_Difference, Zenon
  <2>3. had \cap gone = gone
    BY <1>6
  <2> QED  BY <1>7, <1>8, <2>2, <2>3, Zenon
<1>10. \A k \in C : k.pool = NoPool \/ k.pool = p \/ k \in B
  BY <1>3
<1>11. ASSUME NEW q \in Pool \ {p} PROVE FreePagesIn(C, q) = FreePagesIn(B, q)
  <2>1. \A k : k \in C /\ k.pool = q <=> k \in B /\ k.pool = q
    BY <1>3, <1>5
  <2> QED  BY <2>1 DEF FreePagesIn
<1> QED  BY <1>2, <1>9, <1>10, <1>11 DEF Fewer

\* Giving a block in use to a pool: the pool has so many pages more.
LEMMA GivenBack ==
  ASSUME NEW B, Partition(B), NEW b \in B, b.pool = NoPool, NEW p \in Pool,
         NEW k \in Block, k.pool = p, k.start = b.start, k.size = b.size,
         k.list = "entry" => k.size = 1, NEW C, C = (B \ {b}) \cup {k}
  PROVE  /\ Partition(C)
         /\ Cardinality(FreePagesIn(C, p)) = Cardinality(FreePagesIn(B, p)) + b.size
         /\ \A q \in Pool \ {p} : FreePagesIn(C, q) = FreePagesIn(B, q)
<1> DEFINE had == FreePagesIn(B, p)
           has == FreePagesIn(C, p)
<1>0. Sound(B) /\ Disjoint(B)
  BY DEF Partition
<1>1. Partition(C)
  BY Relist
<1>2. NoPool \notin Pool
  BY MPoolAssumption DEF Pool
<1>3. PagesOf(k) = PagesOf(b) /\ PagesOf(b) \subseteq Page
  BY <1>0, Fields DEF PagesOf
<1>4. has = had \cup PagesOf(b)
  BY <1>2, <1>3 DEF FreePagesIn
<1>5. had \cap PagesOf(b) = {}
  BY <1>0, <1>2 DEF FreePagesIn, Disjoint
<1>6. IsFiniteSet(PagesOf(b)) /\ Cardinality(PagesOf(b)) = b.size /\ b.size \in Nat
  BY <1>0, Fields, SizeOfBlock DEF PagesOf
<1>7. Cardinality(has) = Cardinality(had) + b.size
  <2>1. IsFiniteSet(had) /\ Cardinality(had) \in Nat
    BY PagesAreFinite DEF FreePagesIn
  <2>2. Cardinality(had \cup PagesOf(b)) =
          Cardinality(had) + Cardinality(PagesOf(b)) - Cardinality(had \cap PagesOf(b))
    BY <1>6, <2>1, FS_Union
  <2>3. Cardinality(had \cap PagesOf(b)) = 0
    BY <1>5, FS_EmptySet
  <2> HIDE DEF had, has
  <2>4. Cardinality(had \cup PagesOf(b)) = Cardinality(had) + b.size
    BY <1>6, <2>1, <2>2, <2>3
  <2> QED  BY <1>4, <2>4, Zenon
<1>8. ASSUME NEW q \in Pool \ {p} PROVE FreePagesIn(C, q) = FreePagesIn(B, q)
  <2>1. \A j : j \in C /\ j.pool = q <=> j \in B /\ j.pool = q
    BY <1>2
  <2> QED  BY <2>1 DEF FreePagesIn
<1> QED  BY <1>1, <1>7, <1>8

\* The merge of a pool into its fallback changes only which pool blocks are on.
LEMMA MergedFree ==
  ASSUME Partition(blocks), NEW c \in CPU
  PROVE  /\ Partition(Merged(c))
         /\ \A k \in Merged(c) : k.pool = Shared \/ (k \in blocks /\ k.pool # c)
         /\ \A q \in CPU \ {c} : FreePagesIn(Merged(c), q) = FreePagesIn(blocks, q)
<1> DEFINE M(b) == IF b.pool = c THEN [b EXCEPT !.pool = Shared] ELSE b
<1>0. Sound(blocks) /\ Disjoint(blocks) /\ Covers(blocks)
  BY DEF Partition
<1>1. c \in Pool /\ Shared \in Pool /\ c # NoPool /\ c # Shared
  BY MPoolAssumption DEF Pool
<1>2. ASSUME NEW b \in blocks
      PROVE  /\ M(b) \in Block /\ M(b).start = b.start /\ M(b).size = b.size /\ M(b).list = b.list
             /\ M(b).pool = (IF b.pool = c THEN Shared ELSE b.pool)
             /\ b.pool # c => M(b) = b
             /\ PagesOf(M(b)) = PagesOf(b)
  <2>1. b \in Block
    BY <1>0 DEF Sound
  <2>2. CASE b.pool = c
    <3>1. M(b) = [b EXCEPT !.pool = Shared]
      BY <2>2
    <3> HIDE DEF M
    <3>2. /\ M(b) \in Block /\ M(b).start = b.start /\ M(b).size = b.size /\ M(b).list = b.list
          /\ M(b).pool = Shared
      BY <1>1, <2>1, <2>2, <3>1 DEF Block
    <3> QED  BY <2>2, <3>2 DEF PagesOf
  <2>3. CASE b.pool # c
    BY <2>1, <2>3
  <2> QED  BY <2>2, <2>3
<1>3. \A k : k \in Merged(c) <=> \E b \in blocks : k = M(b)
  BY DEF Merged
<1> HIDE DEF M
<1>4. Sound(Merged(c))
  BY <1>0, <1>2, <1>3, SMTT(60) DEF Sound
<1>5. Covers(Merged(c))
  BY <1>0, <1>2, <1>3 DEF Covers
<1>6. Disjoint(Merged(c))
  BY <1>0, <1>2, <1>3 DEF Disjoint
<1>7. \A k \in Merged(c) : k.pool = Shared \/ (k \in blocks /\ k.pool # c)
  BY <1>2, <1>3
<1>8. ASSUME NEW q \in CPU \ {c} PROVE FreePagesIn(Merged(c), q) = FreePagesIn(blocks, q)
  <2>1. q # Shared
    BY MPoolAssumption
  <2>2. \A j : j \in Merged(c) /\ j.pool = q <=> j \in blocks /\ j.pool = q
    BY <1>2, <1>3, <2>1
  <2> QED  BY <2>2 DEF FreePagesIn
<1> QED  BY <1>4, <1>5, <1>6, <1>7, <1>8 DEF Partition

(***************************************************************************)
(* The inductive invariant.  What RollbackStaysLocal rests on is Reserved: *)
(* the pages counted in a CPU's reserve are in its local pool, since no    *)
(* other CPU takes pages from there.                                       *)
(***************************************************************************)

Calls == {{}} \cup {{[size |-> r.size, align |-> r.align, at |-> p]} : r \in Requests, p \in Pool}

OwnCall == \A c \in CPU : \A r \in call[c] : r.at = Shared \/ (r.at = c /\ c \in local)

Reserved == \A c \in CPU : reserve[c] <= Cardinality(FreePagesIn(blocks, c))

IInv ==
  /\ Partition(blocks)
  /\ local \subseteq CPU
  /\ call \in [CPU -> Calls]
  /\ reserve \in [CPU -> Nat]
  /\ NothingLeftBehind
  /\ RollbackStaysLocal
  /\ OwnCall
  /\ Reserved

\* An allocation under way.
LEMMA Underway ==
  ASSUME IInv, NEW c \in CPU, NEW r \in call[c]
  PROVE  /\ call[c] = {r}
         /\ r.size \in Nat \ {0} /\ r.align \in Nat \ {0} /\ r.at \in Pool
         /\ {[r EXCEPT !.at = Shared]} \in Calls
         /\ [r EXCEPT !.at = Shared].at = Shared
         /\ Single([r EXCEPT !.at = Shared]) <=> Single(r)
<1>1. call[c] \in Calls
  BY SMTT(60) DEF IInv
<1>2. PICK q \in Requests, p \in Pool : call[c] = {[size |-> q.size, align |-> q.align, at |-> p]}
  BY <1>1, SMTT(60) DEF Calls
<1>3. r = [size |-> q.size, align |-> q.align, at |-> p]
  BY <1>2
<1>4. q.size \in Nat \ {0} /\ q.align \in Nat \ {0}
  BY MPoolAssumption
<1>5. [r EXCEPT !.at = Shared] = [size |-> q.size, align |-> q.align, at |-> Shared]
  BY <1>3
<1>6. {[r EXCEPT !.at = Shared]} \in Calls
  BY <1>5 DEF Calls, Pool
<1> QED  BY <1>2, <1>3, <1>4, <1>5, <1>6 DEF Single

\* The pages in a CPU's pool are counted by a natural number.
LEMMA FreeCount ==
  ASSUME NEW B, NEW p
  PROVE  /\ Cardinality(FreePagesIn(B, p)) \in 0 .. HeapPages
         /\ Cardinality(FreePagesIn(B, p)) = 0 <=> FreePagesIn(B, p) = {}
BY PagesAreFinite DEF FreePagesIn

LEMMA InitInv == Init => IInv
<1> SUFFICES ASSUME Init PROVE IInv
  OBVIOUS
<1> DEFINE k == Chunk(Shared, First, HeapPages)
<1>1. k \in Block /\ PagesOf(k) = Page /\ k.start + k.size = First + HeapPages
      /\ k.list = "chunk" /\ k.pool = Shared
  BY MPoolAssumption DEF Chunk, Block, Page, Pool, PagesOf
<1>2. blocks = {k}
  BY DEF Init
<1> HIDE DEF k
<1>3. Partition(blocks)
  <2>1. Sound(blocks)
    BY <1>1, <1>2, MPoolAssumption DEF Sound
  <2>2. Covers(blocks) /\ Disjoint(blocks)
    BY <1>1, <1>2 DEF Covers, Disjoint
  <2> QED  BY <2>1, <2>2 DEF Partition
<1>4. NothingLeftBehind
  BY <1>1, <1>2, MPoolAssumption DEF NothingLeftBehind
<1>5. Reserved
  BY FreeCount, MPoolAssumption DEF Init, Reserved
<1> QED  BY <1>3, <1>4, <1>5 DEF IInv, Init, Calls, RollbackStaysLocal, OwnCall

LEMMA NewStep == ASSUME IInv, NEW c \in CPU, New(c) PROVE IInv'
<1>1. Partition(blocks)' /\ NothingLeftBehind'
  BY DEF IInv, New, NothingLeftBehind, Partition, Sound, Covers, Disjoint
<1>2. reserve' \in [CPU -> Nat] /\ local' \subseteq CPU /\ call' \in [CPU -> Calls]
  BY DEF IInv, New
<1>3. RollbackStaysLocal' /\ OwnCall'
  BY DEF IInv, New, RollbackStaysLocal, OwnCall
<1>4. Reserved'
  BY FreeCount, MPoolAssumption DEF IInv, New, Reserved
<1> QED  BY <1>1, <1>2, <1>3, <1>4 DEF IInv

LEMMA CallStep == ASSUME IInv, NEW c \in CPU, Call(c) PROVE IInv'
<1>1. Partition(blocks)' /\ NothingLeftBehind' /\ Reserved'
  BY DEF IInv, Call, NothingLeftBehind, Partition, Sound, Covers, Disjoint, Reserved
<1>2. PICK r \in Requests :
        call' = [call EXCEPT ![c] = {[size |-> r.size, align |-> r.align, at |-> PoolOf(c)]}]
  BY Zenon DEF Call
<1>3. PoolOf(c) \in Pool /\ (PoolOf(c) = Shared \/ (PoolOf(c) = c /\ c \in local))
      /\ (c \in local => PoolOf(c) # Shared)
  BY MPoolAssumption DEF Pool, PoolOf
<1>4. {[size |-> r.size, align |-> r.align, at |-> PoolOf(c)]} \in Calls
  BY <1>3 DEF Calls
<1>5. reserve' \in [CPU -> Nat] /\ local' \subseteq CPU /\ call' \in [CPU -> Calls]
  BY <1>2, <1>4, SMTT(60) DEF IInv, Call
<1>6. \A d \in CPU : \A q \in call'[d] : \/ d = c /\ q.at = PoolOf(c)
                                         \/ q \in call[d]
  BY <1>2 DEF IInv
<1>7. OwnCall' /\ RollbackStaysLocal'
  BY <1>3, <1>6, SMTT(60) DEF IInv, Call, OwnCall, RollbackStaysLocal
<1> QED  BY <1>1, <1>5, <1>7 DEF IInv

LEMMA SucceedsStep == ASSUME IInv, NEW c \in CPU, Succeeds(c) PROVE IInv'
<1>1. PICK r \in call[c] :
        /\ Takes(r.at, r)
        /\ reserve' = [reserve EXCEPT ![c] = IF @ > r.size THEN @ - r.size ELSE 0]
        /\ call' = [call EXCEPT ![c] = {}]
        /\ UNCHANGED local
  BY Zenon DEF Succeeds
<1>2. r.size \in Nat \ {0} /\ r.align \in Nat \ {0} /\ r.at \in Pool
  BY Underway, Zenon
<1>3. PICK b \in blocks, start \in Nat :
        /\ b.pool = r.at
        /\ Within(b, start, r.size)
        /\ blocks' = (blocks \ {b}) \cup Taken(r.at, b, start, r.size)
  BY <1>1, <1>2, TakesTaken, SMTT(60) DEF IInv
<1>4. /\ Partition(blocks')
      /\ \A k \in blocks' : k.pool = NoPool \/ k.pool = r.at \/ k \in blocks
      /\ Fewer(blocks, blocks', r.at, r.size)
      /\ \A q \in Pool \ {r.at} : FreePagesIn(blocks', q) = FreePagesIn(blocks, q)
  <2>1. PICK B, C, p, n : B = blocks /\ C = blocks' /\ p = r.at /\ n = r.size
    BY SMTT(60)
  <2>2. Partition(B) /\ b \in B /\ p \in Pool /\ b.pool = p /\ n \in Nat \ {0}
        /\ Within(b, start, n)
        /\ C = (B \ {b}) \cup Taken(p, b, start, n)
    BY <1>2, <1>3, <2>1, SMTT(60) DEF IInv
  <2>3. /\ Partition(C)
        /\ \A k \in C : k.pool = NoPool \/ k.pool = p \/ k \in B
        /\ Fewer(B, C, p, n)
        /\ \A q \in Pool \ {p} : FreePagesIn(C, q) = FreePagesIn(B, q)
    BY <2>2, TakenFree
  <2> QED  BY <2>1, <2>3
<1>5. r.at = Shared \/ (r.at = c /\ c \in local)
  BY DEF IInv, OwnCall
<1>6. /\ reserve' \in [CPU -> Nat]
      /\ \A d \in CPU \ {c} : reserve'[d] = reserve[d]
      /\ reserve'[c] = IF reserve[c] > r.size THEN reserve[c] - r.size ELSE 0
  BY <1>1, <1>2 DEF IInv
<1>7. call' \in [CPU -> Calls] /\ local' \subseteq CPU
  BY <1>1, SMTT(60) DEF IInv, Calls
<1>8. NothingLeftBehind'
  BY <1>1, <1>4, <1>5, MPoolAssumption, SMTT(60) DEF IInv, NothingLeftBehind
<1>9. OwnCall' /\ RollbackStaysLocal'
  BY <1>1, <1>6 DEF IInv, OwnCall, RollbackStaysLocal
<1>10. Reserved'
  <2> SUFFICES ASSUME NEW d \in CPU
               PROVE  reserve'[d] <= Cardinality(FreePagesIn(blocks', d))
    BY DEF Reserved
  <2>0. /\ reserve[d] <= Cardinality(FreePagesIn(blocks, d)) /\ reserve[d] \in Nat
        /\ Cardinality(FreePagesIn(blocks, d)) \in Nat
        /\ Cardinality(FreePagesIn(blocks', d)) \in Nat
    BY FreeCount, MPoolAssumption, SMTT(60) DEF IInv, Reserved
  <2>1. CASE d = r.at
    <3>1. d = c
      BY <1>5, <2>1, MPoolAssumption, SMTT(60)
    <3>2. Cardinality(FreePagesIn(blocks', d)) = Cardinality(FreePagesIn(blocks, d)) - r.size
      BY <1>4, <2>1 DEF Fewer
    <3> QED  BY <1>2, <1>6, <2>0, <3>1, <3>2
  <2>2. CASE d # r.at
    <3>1. FreePagesIn(blocks', d) = FreePagesIn(blocks, d)
      BY <1>4, <2>2, SMTT(60) DEF Pool
    <3>2. reserve'[d] <= reserve[d]
      BY <1>2, <1>6, <2>0
    <3> QED  BY <2>0, <3>1, <3>2, <1>6, SMTT(60)
  <2> QED  BY <2>1, <2>2
<1> QED  BY <1>4, <1>6, <1>7, <1>8, <1>9, <1>10 DEF IInv

LEMMA FallsBackStep == ASSUME IInv, NEW c \in CPU, FallsBack(c) PROVE IInv'
<1>1. PICK r \in call[c] :
        /\ Lacks(r.at, r)
        /\ call' = [call EXCEPT ![c] = IF r.at = Shared THEN {} ELSE {[r EXCEPT !.at = Shared]}]
        /\ UNCHANGED <<blocks, local, reserve>>
  BY Zenon DEF FallsBack
<1>2. Partition(blocks)' /\ NothingLeftBehind' /\ Reserved'
  BY <1>1 DEF IInv, NothingLeftBehind, Partition, Sound, Covers, Disjoint, Reserved
<1>3. /\ {[r EXCEPT !.at = Shared]} \in Calls /\ [r EXCEPT !.at = Shared].at = Shared
      /\ Single([r EXCEPT !.at = Shared]) <=> Single(r)
  BY Underway
<1>4. reserve' \in [CPU -> Nat] /\ local' \subseteq CPU /\ call' \in [CPU -> Calls]
  BY <1>1, <1>3 DEF IInv, Calls
<1>5. \A d \in CPU : \A q \in call'[d] : \/ /\ d = c /\ r.at # Shared
                                            /\ q = [r EXCEPT !.at = Shared]
                                         \/ q \in call[d]
  BY <1>1 DEF IInv
<1>6. OwnCall'
  BY <1>1, <1>3, <1>5, Zenon DEF IInv, OwnCall
<1>7. r.at # Shared /\ Single(r) => reserve[c] = 0
  <2> SUFFICES ASSUME r.at # Shared, Single(r) PROVE reserve[c] = 0
    OBVIOUS
  <2>1. r.at = c
    BY DEF IInv, OwnCall
  <2>2. \A b \in blocks : b.pool # c
    <3> SUFFICES ASSUME NEW b \in blocks, b.pool = c PROVE FALSE
      OBVIOUS
    <3>1. b.list \in {"entry", "chunk", "used"} /\ (b.list = "used" <=> b.pool = NoPool)
      BY Fields DEF IInv, Partition
    <3>2. c # NoPool
      BY MPoolAssumption
    <3>3. entry_list(c) = {} /\ chunk_list(c) = {}
      BY <1>1, <2>1, Zenon DEF Lacks
    <3> QED  BY <3>1, <3>2, <3>3, Zenon DEF entry_list, chunk_list
  <2>3. Cardinality(FreePagesIn(blocks, c)) = 0
    <3>1. FreePagesIn(blocks, c) = {}
      BY <2>2, Zenon DEF FreePagesIn
    <3> QED  BY <3>1, FreeCount, Zenon
  <2> QED  BY <2>3 DEF IInv, Reserved
<1>8. RollbackStaysLocal'
  <2> SUFFICES ASSUME NEW d \in local, NEW q \in call'[d], Single(q), q.at = Shared
               PROVE  reserve[d] = 0
    BY <1>1 DEF RollbackStaysLocal, Single
  <2>1. d \in CPU
    BY DEF IInv
  <2> QED  BY <1>3, <1>5, <1>7, <2>1 DEF IInv, RollbackStaysLocal
<1> QED  BY <1>2, <1>4, <1>6, <1>8 DEF IInv

LEMMA GiveBackStep ==
  ASSUME IInv, NEW c \in CPU, call[c] = {}, NEW b \in blocks, b.list = "used",
         NEW k \in Block, k.pool = PoolOf(c), k.start = b.start, k.size = b.size,
         k.list = "entry" => k.size = 1, GiveBack(c, b, k)
  PROVE  IInv'
<1>1. /\ blocks' = (blocks \ {b}) \cup {k}
      /\ reserve' = [reserve EXCEPT ![c] = IF c \in local THEN @ + b.size ELSE @]
      /\ local' = local /\ call' = call
  BY DEF GiveBack
<1>2. b.pool = NoPool /\ b.size \in Nat
  BY Fields DEF IInv, Partition
<1>3. PoolOf(c) \in Pool /\ (PoolOf(c) = Shared \/ (PoolOf(c) = c /\ c \in local))
      /\ (c \in local => PoolOf(c) = c)
  BY DEF Pool, PoolOf
<1>4. /\ Partition(blocks')
      /\ Cardinality(FreePagesIn(blocks', PoolOf(c)))
           = Cardinality(FreePagesIn(blocks, PoolOf(c))) + b.size
      /\ \A q \in Pool \ {PoolOf(c)} : FreePagesIn(blocks', q) = FreePagesIn(blocks, q)
  <2>1. PICK B, C, p : B = blocks /\ C = blocks' /\ p = PoolOf(c)
    OBVIOUS
  <2>2. Partition(B) /\ b \in B /\ b.pool = NoPool /\ p \in Pool /\ k.pool = p
        /\ C = (B \ {b}) \cup {k}
    BY <1>1, <1>2, <1>3, <2>1, SMTT(60) DEF IInv
  <2>3. /\ Partition(C)
        /\ Cardinality(FreePagesIn(C, p)) = Cardinality(FreePagesIn(B, p)) + b.size
        /\ \A q \in Pool \ {p} : FreePagesIn(C, q) = FreePagesIn(B, q)
    BY <2>2, GivenBack
  <2> QED  BY <2>1, <2>3
<1>5. /\ reserve' \in [CPU -> Nat]
      /\ \A d \in CPU \ {c} : reserve'[d] = reserve[d]
      /\ reserve'[c] = IF c \in local THEN reserve[c] + b.size ELSE reserve[c]
  BY <1>1, <1>2 DEF IInv
<1>6. NothingLeftBehind'
  BY <1>1, <1>3, MPoolAssumption, SMTT(60) DEF IInv, NothingLeftBehind
<1>7. OwnCall' /\ RollbackStaysLocal'
  BY <1>1, <1>5, SMTT(60) DEF IInv, OwnCall, RollbackStaysLocal
<1>8. Reserved'
  <2> SUFFICES ASSUME NEW d \in CPU
               PROVE  reserve'[d] <= Cardinality(FreePagesIn(blocks', d))
    BY SMTT(60) DEF Reserved
  <2>0. /\ reserve[d] <= Cardinality(FreePagesIn(blocks, d)) /\ reserve[d] \in Nat
        /\ Cardinality(FreePagesIn(blocks, d)) \in Nat
    BY FreeCount, MPoolAssumption, SMTT(60) DEF IInv, Reserved
  <2>1. CASE d = PoolOf(c)
    <3>1. d = c
      BY <1>3, <2>1, MPoolAssumption, SMTT(60)
    <3>2. Cardinality(FreePagesIn(blocks', d)) = Cardinality(FreePagesIn(blocks, d)) + b.size
      BY <1>4, <2>1, SMTT(60)
    <3> QED  BY <1>2, <1>5, <2>0, <3>1, <3>2, SMTT(60)
  <2>2. CASE d # PoolOf(c)
    <3>1. FreePagesIn(blocks', d) = FreePagesIn(blocks, d)
      BY <1>4, <2>2, SMTT(60) DEF Pool
    <3>2. reserve'[d] = reserve[d]
      BY <1>3, <1>5, <2>2, SMTT(60)
    <3> QED  BY <2>0, <3>1, <3>2, SMTT(60)
  <2> QED  BY <2>1, <2>2
<1> QED  BY <1>1, <1>4, <1>5, <1>6, <1>7, <1>8, SMTT(60) DEF IInv

LEMMA FreeStep == ASSUME IInv, NEW c \in CPU, Free(c) PROVE IInv'
<1>1. PICK b \in blocks : /\ b.list = "used" /\ b.size = 1
                          /\ GiveBack(c, b, Entry(PoolOf(c), b.start))
  BY DEF Free
<1>2. PICK k : k = Entry(PoolOf(c), b.start)
  OBVIOUS
<1>3. PoolOf(c) \in Pool
  BY DEF Pool, PoolOf
<1>4. b.start \in Page /\ 1 \in 1 .. HeapPages
  BY Fields, MPoolAssumption, SMTT(60) DEF IInv, Partition
<1>5. k \in Block /\ k.pool = PoolOf(c) /\ k.start = b.start /\ k.size = b.size
  BY <1>1, <1>2, <1>3, <1>4, SMTT(60) DEF Entry, Block
<1> QED  BY <1>1, <1>2, <1>5, GiveBackStep, SMTT(60) DEF Free

LEMMA FreePagesStep == ASSUME IInv, NEW c \in CPU, FreePages(c) PROVE IInv'
<1>1. PICK b \in blocks : b.list = "used" /\ GiveBack(c, b, Chunk(PoolOf(c), b.start, b.size))
  BY DEF FreePages
<1>2. PICK k : k = Chunk(PoolOf(c), b.start, b.size)
  OBVIOUS
<1>3. PoolOf(c) \in Pool
  BY DEF Pool, PoolOf
<1>4. b.start \in Page /\ b.size \in 1 .. HeapPages
  BY Fields DEF IInv, Partition
<1>5. k \in Block /\ k.pool = PoolOf(c) /\ k.start = b.start /\ k.size = b.size
      /\ k.list # "entry"
  BY <1>2, <1>3, <1>4 DEF Chunk, Block
<1> QED  BY <1>1, <1>2, <1>5, GiveBackStep, SMTT(60) DEF FreePages

LEMMA DropStep == ASSUME IInv, NEW c \in CPU, Drop(c) PROVE IInv'
<1>1. /\ c \in local /\ call[c] = {} /\ blocks' = Merged(c) /\ local' = local \ {c}
      /\ reserve' = [reserve EXCEPT ![c] = 0] /\ call' = call
  BY DEF Drop
<1>2. /\ Partition(blocks')
      /\ \A k \in blocks' : k.pool = Shared \/ (k \in blocks /\ k.pool # c)
      /\ \A q \in CPU \ {c} : FreePagesIn(blocks', q) = FreePagesIn(blocks, q)
  BY <1>1, MergedFree DEF IInv
<1>3. /\ reserve' \in [CPU -> Nat] /\ reserve'[c] = 0
      /\ \A d \in CPU \ {c} : reserve'[d] = reserve[d]
  BY <1>1 DEF IInv
<1>4. NothingLeftBehind'
  BY <1>1, <1>2, MPoolAssumption DEF IInv, NothingLeftBehind
<1>5. OwnCall' /\ RollbackStaysLocal'
  BY <1>1, <1>3 DEF IInv, OwnCall, RollbackStaysLocal
<1>6. Reserved'
  <2>1. Cardinality(FreePagesIn(blocks', c)) \in Nat
    BY FreeCount, MPoolAssumption
  <2> QED  BY <1>2, <1>3, <2>1 DEF IInv, Reserved
<1> QED  BY <1>1, <1>2, <1>3, <1>4, <1>5, <1>6, SMTT(60) DEF IInv

LEMMA StepInv == IInv /\ [Next]_vars => IInv'
<1> SUFFICES ASSUME IInv, [Next]_vars PROVE IInv'
  BY SMTT(60)
<1>1. CASE UNCHANGED vars
  BY <1>1 DEF vars, IInv, Partition, Sound, Covers, Disjoint, NothingLeftBehind,
              RollbackStaysLocal, OwnCall, Reserved
<1>2. ASSUME NEW c \in CPU,
             New(c) \/ Call(c) \/ Succeeds(c) \/ FallsBack(c) \/ Free(c) \/ FreePages(c) \/ Drop(c)
      PROVE  IInv'
  BY <1>2, NewStep, CallStep, SucceedsStep, FallsBackStep, FreeStep, FreePagesStep, DropStep, SMTT(60)
<1> QED  BY <1>1, <1>2 DEF Next

\* The invariant says what the properties do.
LEMMA InvImplies == IInv => TypeOK /\ HeapIsPartitioned /\ NothingLeftBehind /\ RollbackStaysLocal
<1> SUFFICES ASSUME IInv
             PROVE  TypeOK /\ HeapIsPartitioned /\ NothingLeftBehind /\ RollbackStaysLocal
  OBVIOUS
<1>1. \A c \in CPU : reserve[c] \in 0 .. HeapPages
  <2> TAKE c \in CPU
  <2>1. Cardinality(FreePagesIn(blocks, c)) \in 0 .. HeapPages
    BY FreeCount
  <2>2. reserve[c] \in Nat /\ reserve[c] <= Cardinality(FreePagesIn(blocks, c))
    BY DEF IInv, Reserved
  <2> QED  BY <2>1, <2>2, MPoolAssumption
<1>2. reserve \in [CPU -> 0 .. HeapPages]
  BY <1>1, SMTT(60) DEF IInv
<1>3. TypeOK
  BY <1>2 DEF IInv, TypeOK, Partition, Sound, Calls
<1>4. HeapIsPartitioned
  BY DEF IInv, HeapIsPartitioned, Partition, Covers, Disjoint
<1> QED  BY <1>3, <1>4 DEF IInv

THEOREM Invariance == Spec => []IInv
BY InitInv, StepInv, PTL DEF Spec

\* Type correctness: no chunk is empty or sticks out of the heap, and the
\* reserve of a CPU is never more than the heap.
THEOREM TypeCorrect == Spec => []TypeOK
BY Invariance, InvImplies, PTL

\* For any number of CPUs, any size of the heap and any requests, no sequence
\* of allocations, frees and merges loses a page or hands one out twice.
THEOREM HeapStaysPartitioned == Spec => []HeapIsPartitioned
BY Invariance, InvImplies, PTL

\* A pool that is dropped gives all its pages to the fallback.
THEOREM DropLeavesNothing == Spec => []NothingLeftBehind
BY Invariance, InvImplies, PTL

\* What a CPU gave to its local pool it can take back, page by page, without
\* the fallback: the rollback of a mapping does not depend on other CPUs.
THEOREM RollbackIsLocal == Spec => []RollbackStaysLocal
BY Invariance, InvImplies, PTL

=============================================================================
