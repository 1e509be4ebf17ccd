----------------------------- MODULE PmmBitmap ------------------------------
(***************************************************************************)
(* The bitmap allocator mm/pmm.c, which the build can take in the place of *)
(* mm/pmm_simple.c: one bit a page and a hint, first_free_page, where the  *)
(* search for a free page begins.  Memory is counted in pages.             *)
(*                                                                         *)
(* The result 0 means failure to every caller, and it is the address of    *)
(* page 0, which is in the bitmap.  owners is the clients' side: a client  *)
(* holds what it was given, unless it was given 0.                         *)
(***************************************************************************)
EXTENDS Integers, FiniteSetsExt

CONSTANTS
  MAX_PAGES,
  TOTAL_MEMORY, FREE_MEMORY,   \* the numbers pmm_init starts the statistics with
  Counts                       \* the counts clients pass to pmm_alloc_pages

ASSUME BitmapAssumption ==
  /\ MAX_PAGES \in Nat \ {0}
  /\ {TOTAL_MEMORY, FREE_MEMORY} \subseteq Nat
  /\ MAX_PAGES <= FREE_MEMORY
  /\ FREE_MEMORY <= TOTAL_MEMORY
  /\ Counts \subseteq 1 .. MAX_PAGES

VARIABLES
  used,              \* the pages whose bit is set
  first_free_page,
  free_memory, used_memory,
  owners

vars == <<used, first_free_page, free_memory, used_memory, owners>>

Pages == 0 .. (MAX_PAGES - 1)

held == {p \in Pages : owners[p] > 0}

Init ==
  /\ used = {}
  /\ first_free_page = 0
  /\ free_memory = FREE_MEMORY
  /\ used_memory = TOTAL_MEMORY - FREE_MEMORY
  /\ owners = [p \in Pages |-> 0]

-----------------------------------------------------------------------------
FitsIgnoresUse(n) == first_free_page .. (MAX_PAGES - n)

\* Where a search for n free pages in a row, from the hint on, finds them.
Fits(n) ==
  {p \in first_free_page .. (MAX_PAGES - n) : (p .. (p + n - 1)) \cap used = {}}

\* Pages are marked and given to a client, who takes 0 for a failure.
Allocate(p, n) ==
  LET run == p .. (p + n - 1) IN
  /\ used' = used \cup run
  /\ free_memory' = free_memory - n
  /\ used_memory' = used_memory + n
  /\ owners' = [q \in Pages |-> IF q \in run /\ p # 0 THEN owners[q] + 1 ELSE owners[q]]

\* The hint moves on when the page it points to is taken.
Hint(p) == IF p = first_free_page THEN first_free_page + 1 ELSE first_free_page

pmm_alloc_page ==
  \/ /\ Fits(1) # {}
     /\ Allocate(Min(Fits(1)), 1)
     /\ first_free_page' = Hint(Min(Fits(1)))
  \/ Fits(1) = {} /\ UNCHANGED vars

pmm_alloc_pages(n) ==
  \/ n = 1 /\ pmm_alloc_page
  \/ /\ n # 1
     /\ Fits(n) # {}
     /\ Allocate(Min(Fits(n)), n)
     /\ UNCHANGED first_free_page
  \/ n # 1 /\ Fits(n) = {} /\ UNCHANGED vars

\* What pmm_free_page ignores, of the addresses on a page boundary.
Ignored(p) == p = 0 \/ p >= MAX_PAGES \/ p \notin used

HintStays(p) == first_free_page

HintBack(p) == IF p < first_free_page THEN p ELSE first_free_page

pmm_free_page(p) ==
  \/ /\ ~Ignored(p)
     /\ used' = used \ {p}
     /\ free_memory' = free_memory + 1
     /\ used_memory' = used_memory - 1
     /\ first_free_page' = HintBack(p)
     /\ owners' = [owners EXCEPT ![p] = IF @ > 0 THEN @ - 1 ELSE 0]
  \/ Ignored(p) /\ UNCHANGED vars

\* The pages that the loop of pmm_free_pages does free.
pmm_free_pages(p, n) ==
  LET run == {q \in p .. (p + n - 1) : ~Ignored(q)} IN
  /\ used' = used \ run
  /\ free_memory' = free_memory + Cardinality(run)
  /\ used_memory' = used_memory - Cardinality(run)
  /\ first_free_page' = Min({first_free_page} \cup run)
  /\ owners' = [q \in Pages |-> IF q \in run /\ owners[q] > 0 THEN owners[q] - 1 ELSE owners[q]]

\* Clients free what they hold, and single pages that are free already, the 0
\* of a failed allocation included.
Freeable(p) == p \in held \/ p \notin used \/ p = 0

Next ==
  \/ pmm_alloc_page
  \/ \E n \in Counts : pmm_alloc_pages(n)
  \/ \E p \in 0 .. MAX_PAGES : Freeable(p) /\ pmm_free_page(p)
  \/ \E p \in Pages, n \in Counts :
       p .. (p + n - 1) \subseteq held /\ pmm_free_pages(p, n)

Spec == Init /\ [][Next]_vars

-----------------------------------------------------------------------------
\* The hint never passes a free page, so that a search that starts there misses
\* none.  Three functions move it, and pmm_alloc_pages does not.
HintBelowFree == \A p \in Pages : p < first_free_page => p \in used

Abstract == INSTANCE PageAllocator

\* The bitmap with its hint is a page allocator, double frees included.
ImplementsPageAllocator == Abstract!Spec
=============================================================================
