----------------------------- MODULE PmmSimple -----------------------------
(***************************************************************************)
(* The physical memory manager of the build, mm/pmm_simple.c: a stack of   *)
(* at most MAX_FREE_PAGES freed pages on top of a bump pointer.            *)
(*                                                                         *)
(* Addresses are counted in pages: an address the allocator handles is a   *)
(* multiple of PAGE_SIZE, and the u64 byte addresses wrap at ADDR_PAGES    *)
(* pages.  freed_pages is only ever incremented and is left out.           *)
(***************************************************************************)
EXTENDS Integers, FiniteSets

CONSTANTS
  START_PAGE,      \* PMM_START_ADDR / PAGE_SIZE
  END_PAGE,        \* PMM_END_ADDR / PAGE_SIZE
  MAX_FREE_PAGES,
  ADDR_PAGES,      \* 2^64 / PAGE_SIZE
  Counts           \* the counts clients pass to pmm_alloc_pages

ASSUME PoolAssumption ==
  /\ START_PAGE \in Nat \ {0}
  /\ END_PAGE \in Nat
  /\ START_PAGE < END_PAGE
  /\ MAX_FREE_PAGES \in Nat \ {0}
  /\ ADDR_PAGES \in Nat
  /\ END_PAGE < ADDR_PAGES

\* No client asks for a run so long that its end wraps around.
ASSUME CountsAssumption ==
  Counts \subseteq {n \in Nat : END_PAGE + n < ADDR_PAGES}

VARIABLES
  free_pages,       \* the array behind the stack
  free_page_count,
  next_page,        \* next_page_addr / PAGE_SIZE
  allocated_pages,
  owners            \* how many clients got a page and did not give it back

vars == <<free_pages, free_page_count, next_page, allocated_pages, owners>>

Pool == START_PAGE .. (END_PAGE - 1)

total_pages == END_PAGE - START_PAGE

held == {p \in Pool : owners[p] > 0}

\* A client gets, and gives back, the pages of a set.
Got(run) ==
  owners' = [p \in Pool |-> IF p \in run THEN owners[p] + 1 ELSE owners[p]]

GivenBack(run) ==
  owners' = [p \in Pool |-> IF p \in run /\ owners[p] > 0 THEN owners[p] - 1
                                                       ELSE owners[p]]

\* pmm_init, with the BSS cleared by paging.c before it.
Init ==
  /\ free_pages = [i \in 0 .. (MAX_FREE_PAGES - 1) |-> 0]
  /\ free_page_count = 0
  /\ next_page = START_PAGE
  /\ allocated_pages = 0
  /\ owners = [p \in Pool |-> 0]

-----------------------------------------------------------------------------
AddrPlusOneShort(page, n) == page + n - 1

\* page + n * PAGE_SIZE in 64 bits, for n pages below the wrap.
AddrPlus(page, n) ==
  IF page + n < ADDR_PAGES THEN page + n ELSE page + n - ADDR_PAGES

PopFreeKeepsCount ==
  /\ free_page_count > 0
  /\ Got({free_pages[free_page_count - 1]})
  /\ allocated_pages' = allocated_pages + 1
  /\ UNCHANGED <<free_pages, free_page_count, next_page>>

\* pmm_alloc_page: the most recently freed page first.
PopFree ==
  /\ free_page_count > 0
  /\ free_page_count' = free_page_count - 1
  /\ allocated_pages' = allocated_pages + 1
  /\ Got({free_pages[free_page_count - 1]})
  /\ UNCHANGED <<free_pages, next_page>>

\* pmm_alloc_page: the next page never handed out yet.
BumpNext ==
  /\ free_page_count = 0
  /\ next_page < END_PAGE
  /\ next_page' = next_page + 1
  /\ allocated_pages' = allocated_pages + 1
  /\ Got({next_page})
  /\ UNCHANGED <<free_pages, free_page_count>>

pmm_alloc_page ==
  \/ PopFree
  \/ BumpNext
  \/ free_page_count = 0 /\ next_page >= END_PAGE /\ UNCHANGED vars

\* pmm_alloc_pages: a contiguous run, from the bump pointer only.
pmm_alloc_pages(count) ==
  \/ /\ count # 0
     /\ AddrPlus(next_page, count) <= END_PAGE
     /\ next_page' = AddrPlus(next_page, count)
     /\ allocated_pages' = allocated_pages + count
     /\ Got(next_page .. (next_page + count - 1))
     /\ UNCHANGED <<free_pages, free_page_count>>
  \/ /\ count = 0 \/ AddrPlus(next_page, count) > END_PAGE
     /\ UNCHANGED vars

-----------------------------------------------------------------------------
RoomOneTooMany == MAX_FREE_PAGES - free_page_count + 1

RoomOneTooFew == MAX_FREE_PAGES - free_page_count - 1

\* How many more pages the free stack takes.
Room == MAX_FREE_PAGES - free_page_count

\* allocated_pages after n pages went to the stack: it stops at 0.
Returned(n) == IF allocated_pages >= n THEN allocated_pages - n ELSE 0

\* n pages from page on are pushed on the stack, in order.
Push(page, n) ==
  /\ free_pages' = [i \in 0 .. (MAX_FREE_PAGES - 1) |->
                      IF free_page_count <= i /\ i < free_page_count + n
                      THEN page + (i - free_page_count)
                      ELSE free_pages[i]]
  /\ free_page_count' = free_page_count + n
  /\ allocated_pages' = Returned(n)
  /\ UNCHANGED next_page

FreeRunAlwaysDecrements(page, count) ==
  LET n == IF count <= Room THEN count ELSE Room IN
  /\ free_pages' = [i \in 0 .. (MAX_FREE_PAGES - 1) |->
                      IF free_page_count <= i /\ i < free_page_count + n
                      THEN page + (i - free_page_count)
                      ELSE free_pages[i]]
  /\ free_page_count' = free_page_count + n
  /\ allocated_pages' = Returned(count)
  /\ GivenBack(page .. (page + count - 1))
  /\ UNCHANGED next_page

\* count pages from page on, all inside the pool, are freed one by one; the
\* ones for which the stack has no room are dropped without a trace.
FreeRun(page, count) ==
  /\ Push(page, IF count <= Room THEN count ELSE Room)
  /\ GivenBack(page .. (page + count - 1))

pmm_free_page(page) ==
  \/ page \in Pool /\ FreeRun(page, 1)
  \/ page \notin Pool /\ UNCHANGED vars

\* The loop over pmm_free_page, for a run that lies inside the pool.
pmm_free_pages(page, count) ==
  /\ page .. (page + count - 1) \subseteq Pool
  /\ FreeRun(page, count)

\* Clients as they are in the kernel: they give back pages they hold, or the
\* 0 of an allocation that failed.
Next ==
  \/ pmm_alloc_page
  \/ \E n \in Counts : pmm_alloc_pages(n)
  \/ \E p \in held \cup {0} : pmm_free_page(p)
  \/ \E p \in held, n \in Counts :
       /\ p .. (p + n - 1) \subseteq held
       /\ pmm_free_pages(p, n)

Spec == Init /\ [][Next]_vars

-----------------------------------------------------------------------------
FreeStack == {free_pages[i] : i \in 0 .. (free_page_count - 1)}

\* pmm_get_stats
StatsFree == free_page_count + (END_PAGE - next_page)
StatsUsed == allocated_pages

\* Pages the allocator handed out once and nobody can reach any more.
Lost == (START_PAGE .. (next_page - 1)) \ (held \cup FreeStack)

TypeOK ==
  /\ free_pages \in [0 .. (MAX_FREE_PAGES - 1) -> Pool \cup {0}]
  /\ free_page_count \in 0 .. MAX_FREE_PAGES
  /\ next_page \in START_PAGE .. END_PAGE
  /\ allocated_pages \in Nat
  /\ owners \in [Pool -> Nat]

\* No page has two owners: the page pmm_alloc_page returns next, and every page
\* that will follow it from the stack, is one nobody holds, no page is on the
\* stack twice, and the two ways out of the allocator, stack and bump pointer,
\* never meet.
NoAliasing ==
  /\ \A i \in 0 .. (free_page_count - 1) :
       free_pages[i] \in START_PAGE .. (next_page - 1) /\ free_pages[i] \notin held
  /\ \A i, j \in 0 .. (free_page_count - 1) :
       free_pages[i] = free_pages[j] => i = j
  /\ \A p \in held : owners[p] = 1 /\ p < next_page

\* pmm_get_stats never loses count: free + used = total, also after pages
\* were dropped because the free stack was full (they stay counted as used).
StatsAddUp == StatsFree + StatsUsed = total_pages

\* A page gets lost only in a pmm_free_page that finds the free stack full.
LostOnlyWhenFull == [][Lost' # Lost => free_page_count' = MAX_FREE_PAGES]_vars

Abstract == INSTANCE PageAllocator WITH Pages <- Pool

\* The stack and the bump pointer together are a page allocator: no page that
\* is held is handed out again.
ImplementsPageAllocator == Abstract!Spec
=============================================================================
