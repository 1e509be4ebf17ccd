----------------------------- MODULE KernelHeap -----------------------------
(***************************************************************************)
(* kmalloc and kfree of mm/vmm.c: a bump allocator over HEAP_SIZE bytes    *)
(* that never takes anything back.  Addresses are u64 and wrap at U64, and *)
(* a size may be any u64.  The clients' side is blocks, the blocks that    *)
(* kmalloc returned and that were not passed to kfree.                     *)
(***************************************************************************)
EXTENDS Integers

CONSTANTS
  HEAP_START,      \* kernel_heap_start
  HEAP_SIZE,       \* the 1 MB limit
  U64,             \* 2^64
  Sizes            \* the sizes callers ask for

ASSUME HeapAssumption ==
  /\ HEAP_START \in Nat \ {0}
  /\ HEAP_SIZE \in Nat \ {0}
  /\ U64 \in Nat
  /\ U64 % 8 = 0
  /\ HEAP_START % 8 = 0
  /\ HEAP_START + HEAP_SIZE < U64
  /\ Sizes \subseteq 0 .. (U64 - 1)

VARIABLES
  simple_heap_ptr, blocks,
  wrapped      \* history: a size passed the exhaustion check by wrapping

heapVars == <<simple_heap_ptr, blocks, wrapped>>

HeapInit == simple_heap_ptr = 0 /\ blocks = {} /\ wrapped = FALSE

\* A sum of two u64 values.
Wrap(n) == IF n < U64 THEN n ELSE n - U64

\* ALIGN_UP(size, 8); near 2^64 the sum wraps first.
AlignUp(size) == LET n == Wrap(size + 7) IN n - (n % 8)

\* The static pointer, which the first call that gets this far initialises.
HeapPtr == IF simple_heap_ptr = 0 THEN HEAP_START ELSE simple_heap_ptr

\* The exhaustion check, computed in 64 bits.
Fits(size) == Wrap(HeapPtr + AlignUp(size)) < HEAP_START + HEAP_SIZE

\* One of the two sums of the check leaves 64 bits.
Wraps(size) == size + 7 >= U64 \/ HeapPtr + AlignUp(size) >= U64

\* kmalloc returns a block.
KmallocOk(size) ==
  /\ size # 0
  /\ Fits(size)
  /\ simple_heap_ptr' = Wrap(HeapPtr + AlignUp(size))
  /\ wrapped' = (wrapped \/ Wraps(size))
  /\ blocks' = blocks \cup {[base |-> HeapPtr, size |-> size]}

\* kmalloc returns NULL: nothing asked for, or "Simple heap exhausted!".
KmallocNull(size) ==
  \/ size = 0 /\ UNCHANGED heapVars
  \/ /\ size # 0
     /\ ~Fits(size)
     /\ simple_heap_ptr' = HeapPtr
     /\ UNCHANGED <<blocks, wrapped>>

kmalloc(size) == KmallocOk(size) \/ KmallocNull(size)

KfreeRewinds(ptr) ==
  /\ blocks' = {b \in blocks : b.base # ptr}
  /\ simple_heap_ptr' = ptr
  /\ UNCHANGED wrapped

\* kfree does nothing; the caller gives the block up.
kfree(ptr) ==
  /\ blocks' = {b \in blocks : b.base # ptr}
  /\ UNCHANGED <<simple_heap_ptr, wrapped>>

HeapNext ==
  \/ \E size \in Sizes : kmalloc(size)
  \/ \E b \in blocks : kfree(b.base)

HeapSpec == HeapInit /\ [][HeapNext]_heapVars

-----------------------------------------------------------------------------
HeapTypeOK ==
  /\ simple_heap_ptr \in 0 .. (U64 - 1)
  /\ blocks \subseteq [base : 0 .. (U64 - 1), size : 1 .. (U64 - 1)]
  /\ wrapped \in BOOLEAN

\* Two live blocks share no byte and every one starts on an 8-byte boundary,
\* also after blocks between them were freed.
BlocksDisjoint ==
  /\ \A b \in blocks : b.base % 8 = 0
  /\ \A b, c \in blocks :
       b # c => b.base + b.size <= c.base \/ c.base + c.size <= b.base

\* Every block lies in the heap.
BlocksInHeap ==
  \A b \in blocks :
    HEAP_START <= b.base /\ b.base + b.size < HEAP_START + HEAP_SIZE

\* Whatever was allocated and freed before, live blocks are disjoint, aligned
\* and inside the heap ("within existing mapped kernel memory"), as long as no
\* size near 2^64 was asked for that wraps the exhaustion check: kmalloc has no
\* guard against those, and sys_malloc passes any size on.
HeapSound == ~wrapped => BlocksDisjoint /\ BlocksInHeap
=============================================================================
