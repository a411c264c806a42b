------------------------------- MODULE MPool --------------------------------
(***************************************************************************)
(* The page pools: the hypervisor's pool, shared by all CPUs, and the      *)
(* pools that a call makes on its stack with new_with_fallback, whose      *)
(* fallback is the shared one and which are dropped when the call returns. *)
(* The page tables take their pages from these pools and give them back.   *)
(*                                                                         *)
(* The heap is cut into blocks of contiguous pages.  A block is an entry   *)
(* (a single page) or a chunk on the lists of one pool, or it is in use.   *)
(* Which of several entries or chunks a list yields is left open: the list *)
(* nodes are in the free pages themselves and have no other meaning.       *)
(***************************************************************************)
EXTENDS Integers, FiniteSets

CONSTANTS
  CPU,        \* the physical CPUs; also name the local pool of each
  Shared,     \* Hypervisor::mpool
  NoPool,     \* the pool of a block in use
  First,      \* the page number of the first page of PTABLE_BUF
  HeapPages,  \* HEAP_PAGES
  Requests    \* the sizes and alignments of allocations, in pages

ASSUME MPoolAssumption ==
  /\ Shared \notin CPU /\ NoPool \notin CPU \cup {Shared}
  /\ First \in Nat
  /\ HeapPages \in Nat \ {0}
  /\ Requests \subseteq [size : Nat \ {0}, align : Nat \ {0}]

VARIABLES
  blocks,     \* the blocks that the heap is cut into
  local,      \* the CPUs that have a local pool
  call,       \* call[c]: the allocation under way on c, or {}
  reserve     \* reserve[c]: the pages that c gave to its local pool and has
              \* not taken back by as many allocations since

vars == <<blocks, local, call, reserve>>

Page == First .. First + HeapPages - 1
Pool == CPU \cup {Shared}

Block == [list : {"entry", "chunk"}, pool : Pool, start : Page, size : 1 .. HeapPages]
           \cup [list : {"used"}, pool : {NoPool}, start : Page, size : 1 .. HeapPages]

PagesOf(b) == b.start .. b.start + b.size - 1

Entry(p, start) == [list |-> "entry", pool |-> p, start |-> start, size |-> 1]
Chunk(p, start, size) == [list |-> "chunk", pool |-> p, start |-> start, size |-> size]
Used(start, size) == [list |-> "used", pool |-> NoPool, start |-> start, size |-> size]

\* one_time_init gives the whole of PTABLE_BUF to the pool.
Init ==
  /\ blocks = {Chunk(Shared, First, HeapPages)}
  /\ local = {}
  /\ call = [c \in CPU |-> {}]
  /\ reserve = [c \in CPU |-> 0]

(***************************************************************************)
(* Pool: the operations on one pool, under its lock.                       *)
(***************************************************************************)

entry_list(p) == {b \in blocks : b.list = "entry" /\ b.pool = p}
chunk_list(p) == {b \in blocks : b.list = "chunk" /\ b.pool = p}

\* The pages start .. end - 1 of a chunk that is split, if there are any.
Rest(p, start, end) == IF start < end THEN {Chunk(p, start, end - start)} ELSE {}

\* A mutant of alloc: the rest of the chunk begins at the page handed out.
allocOverlaps(p) ==
  \/ \E b \in entry_list(p) : blocks' = (blocks \ {b}) \cup {Used(b.start, 1)}
  \/ /\ entry_list(p) = {}
     /\ \E b \in chunk_list(p) :
          blocks' = (blocks \ {b}) \cup {Used(b.start, 1)}
                      \cup Rest(p, b.start, b.start + b.size - 1)

\* Pool::alloc takes an entry, or else the first page of a chunk.
alloc(p) ==
  \/ \E b \in entry_list(p) : blocks' = (blocks \ {b}) \cup {Used(b.start, 1)}
  \/ /\ entry_list(p) = {}
     /\ \E b \in chunk_list(p) :
          blocks' = (blocks \ {b}) \cup {Used(b.start, 1)}
                      \cup Rest(p, b.start + 1, b.start + b.size)

\* start is the chunk's start rounded up, and the request fits behind it.
Fits(b, start, r) ==
  /\ start - b.start \in 0 .. r.align - 1
  /\ start % r.align = 0
  /\ start + r.size <= b.start + b.size

\* Pool::alloc_pages takes the request from a chunk that it fits in, and puts
\* what is left before and behind it back.
alloc_pages(p, r) ==
  \E b \in chunk_list(p), start \in Page :
    /\ Fits(b, start, r)
    /\ blocks' = (blocks \ {b}) \cup {Used(start, r.size)}
                   \cup Rest(p, b.start, start)
                   \cup Rest(p, start + r.size, b.start + b.size)

Single(r) == r.size = 1 /\ r.align = 1

Takes(p, r) == IF Single(r) THEN alloc(p) ELSE alloc_pages(p, r)

Lacks(p, r) ==
  IF Single(r) THEN entry_list(p) = {} /\ chunk_list(p) = {}
  ELSE ~\E b \in chunk_list(p), start \in Page : Fits(b, start, r)

(***************************************************************************)
(* MPool: the calls, which go from a pool to its fallback.                 *)
(***************************************************************************)

\* new_with_fallback(&self.mpool).
New(c) ==
  /\ c \notin local /\ call[c] = {}
  /\ local' = local \cup {c}
  /\ reserve' = [reserve EXCEPT ![c] = 0]
  /\ UNCHANGED <<blocks, call>>

\* The pool that the code on c allocates from and frees to.
PoolOf(c) == IF c \in local THEN c ELSE Shared

\* MPool::alloc or alloc_pages is called.
Call(c) ==
  /\ call[c] = {}
  /\ \E r \in Requests :
       call' = [call EXCEPT ![c] = {[size |-> r.size, align |-> r.align, at |-> PoolOf(c)]}]
  /\ UNCHANGED <<blocks, local, reserve>>

\* The pool that the call has reached has what it asks for.
Succeeds(c) ==
  \E r \in call[c] :
    /\ Takes(r.at, r)
    /\ reserve' = [reserve EXCEPT ![c] = IF @ > r.size THEN @ - r.size ELSE 0]
    /\ call' = [call EXCEPT ![c] = {}]
    /\ UNCHANGED local

\* It has not, and the call goes on with the fallback, or fails.
FallsBack(c) ==
  \E r \in call[c] :
    /\ Lacks(r.at, r)
    /\ call' = [call EXCEPT ![c] = IF r.at = Shared THEN {} ELSE {[r EXCEPT !.at = Shared]}]
    /\ UNCHANGED <<blocks, local, reserve>>

\* The page is on c's pool, and counts for its reserve.
GiveBack(c, b, freed) ==
  /\ blocks' = (blocks \ {b}) \cup {freed}
  /\ reserve' = [reserve EXCEPT ![c] = IF c \in local THEN @ + b.size ELSE @]
  /\ UNCHANGED <<local, call>>

\* A mutant of Free: the page goes to the fallback.
FreeToFallback(c) ==
  /\ call[c] = {}
  /\ \E b \in blocks :
       /\ b.list = "used" /\ b.size = 1
       /\ GiveBack(c, b, Entry(Shared, b.start))

\* MPool::free and free_pages, of pages that this or another CPU allocated.
Free(c) ==
  /\ call[c] = {}
  /\ \E b \in blocks :
       /\ b.list = "used" /\ b.size = 1
       /\ GiveBack(c, b, Entry(PoolOf(c), b.start))

FreePages(c) ==
  /\ call[c] = {}
  /\ \E b \in blocks :
       /\ b.list = "used"
       /\ GiveBack(c, b, Chunk(PoolOf(c), b.start, b.size))

\* The lists of c's pool merged into those of the fallback.
Merged(c) == {IF b.pool = c THEN [b EXCEPT !.pool = Shared] ELSE b : b \in blocks}

\* The local pool is dropped.
Drop(c) ==
  /\ c \in local /\ call[c] = {}
  /\ blocks' = Merged(c)
  /\ local' = local \ {c}
  /\ reserve' = [reserve EXCEPT ![c] = 0]
  /\ UNCHANGED call

Next ==
  \E c \in CPU :
    New(c) \/ Call(c) \/ Succeeds(c) \/ FallsBack(c) \/ Free(c) \/ FreePages(c) \/ Drop(c)

Spec == Init /\ [][Next]_vars

(***************************************************************************)
(* Properties.                                                             *)
(***************************************************************************)

\* Every variable has its type: a chunk is never empty ("debug_assert_ne!(size,
\* 0)") and never sticks out of the heap.
TypeOK ==
  /\ blocks \subseteq Block
  /\ \A b \in blocks : b.start + b.size <= First + HeapPages
  /\ \A b \in blocks : b.list = "entry" => b.size = 1
  /\ local \subseteq CPU
  /\ call \in [CPU -> {{}} \cup {{[size |-> r.size, align |-> r.align, at |-> p]} :
                                   r \in Requests, p \in Pool}]
  /\ reserve \in [CPU -> 0 .. HeapPages]

\* No page is lost, and no page is handed out twice or on two lists: after any
\* splits, frees to other pools and merges on any CPUs, the blocks cover the
\* heap without overlap.
HeapIsPartitioned ==
  /\ \A x \in Page : \E b \in blocks : x \in PagesOf(b)
  /\ \A b1, b2 \in blocks : b1 # b2 => PagesOf(b1) \cap PagesOf(b2) = {}

\* Only a CPU that is making a call has free pages in its local pool: the
\* merge leaves nothing behind.
NothingLeftBehind == \A b \in blocks : b.pool \in CPU => b.pool \in local

\* The comment on local_page_pool: "Create a local pool so any freed memory
\* can't be used by another thread.  This is to ensure the original mapping
\* can be restored".  As long as a CPU has given its pool pages that it has
\* not taken back, its allocations of single pages do not leave the pool, so
\* that they cannot fail for what other CPUs do.
RollbackStaysLocal ==
  \A c \in local : \A r \in call[c] : Single(r) /\ r.at = Shared => reserve[c] = 0
=============================================================================
