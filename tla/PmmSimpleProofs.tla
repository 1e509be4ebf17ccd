-------------------------- MODULE PmmSimpleProofs --------------------------
(***************************************************************************)
(* Proofs about PmmSimple for every pool, stack size and set of counts.    *)
(*                                                                         *)
(* The invariant behind them adds to TypeOK, NoAliasing and StatsAddUp     *)
(* that the counter allocated_pages is never below the number of pages     *)
(* that clients hold: without it the decrement in pmm_free_page could meet *)
(* the counter at 0, skip, and break the sum.                              *)
(***************************************************************************)
EXTENDS PmmSimple, FiniteSetTheorems, TLAPS

CountCoversHeld ==
  /\ IsFiniteSet(held)
  /\ Cardinality(held) <= allocated_pages

IInv == TypeOK /\ NoAliasing /\ StatsAddUp /\ CountCoversHeld

-----------------------------------------------------------------------------
\* Giving back a run of held pages takes its length off what is held.
LEMMA RemoveRun ==
  ASSUME NEW S, IsFiniteSet(S), NEW a \in Nat, NEW n \in Nat,
         a .. (a + n - 1) \subseteq S
  PROVE  /\ IsFiniteSet(S \ (a .. (a + n - 1)))
         /\ Cardinality(S \ (a .. (a + n - 1))) = Cardinality(S) - n
<1> DEFINE run == a .. (a + n - 1)
           rest == S \ run
<1>1. IsFiniteSet(run) /\ Cardinality(run) = n
  BY FS_Interval
<1>2. IsFiniteSet(rest)
  BY FS_Subset, Zenon
<1>3. Cardinality(rest) \in Nat /\ Cardinality(S) \in Nat
  BY <1>2, FS_CardinalityType, Zenon
<1>4. Cardinality(rest \cup run)
        = Cardinality(rest) + Cardinality(run) - Cardinality(rest \cap run)
  BY <1>1, <1>2, FS_Union, Zenon
<1>5. rest \cup run = S /\ rest \cap run = {}
  BY Zenon
<1>6. Cardinality({}) = 0
  BY FS_EmptySet, Zenon
<1> HIDE DEF run, rest
<1>7. Cardinality(rest \cup run) = Cardinality(S) /\ Cardinality(rest \cap run) = 0
  BY <1>5, <1>6, Zenon
<1>8. Cardinality(S) = Cardinality(rest) + n
  BY <1>1, <1>3, <1>4, <1>7
<1> QED BY <1>2, <1>3, <1>8 DEF rest, run

\* Handing out a run of fresh pages adds its length.
LEMMA AddRun ==
  ASSUME NEW S, IsFiniteSet(S), NEW a \in Nat, NEW n \in Nat,
         (a .. (a + n - 1)) \cap S = {}
  PROVE  /\ IsFiniteSet(S \cup (a .. (a + n - 1)))
         /\ Cardinality(S \cup (a .. (a + n - 1))) = Cardinality(S) + n
<1> DEFINE run == a .. (a + n - 1)
<1>1. IsFiniteSet(run) /\ Cardinality(run) = n
  BY FS_Interval
<1>2. Cardinality(S) \in Nat
  BY FS_CardinalityType, Zenon
<1>3. /\ IsFiniteSet(S \cup run)
      /\ Cardinality(S \cup run)
           = Cardinality(S) + Cardinality(run) - Cardinality(S \cap run)
  BY <1>1, FS_Union, Zenon
<1>4. S \cap run = {}
  BY Zenon
<1>5. Cardinality({}) = 0
  BY FS_EmptySet, Zenon
<1>6. Cardinality(S \cup run) = Cardinality(S) + n - 0
  BY <1>1, <1>3, <1>4, <1>5, Zenon
<1> QED BY <1>2, <1>3, <1>6

\* Pages a client gets are held; the ones nobody held before have one owner.
LEMMA GotHeld ==
  ASSUME TypeOK, NEW run \in SUBSET Pool, Got(run)
  PROVE  /\ owners' \in [Pool -> Nat]
         /\ held' = held \cup run
         /\ \A p \in Pool : p \in run /\ p \notin held => owners'[p] = 1
         /\ \A p \in Pool : p \notin run => owners'[p] = owners[p]
<1>1. /\ owners \in [Pool -> Nat]
      /\ owners' = [p \in Pool |-> IF p \in run THEN owners[p] + 1 ELSE owners[p]]
  BY Zenon DEF TypeOK, Got
<1>2. owners' \in [Pool -> Nat]
  BY <1>1
<1>3. \A p \in Pool : owners'[p] > 0 <=> (owners[p] > 0 \/ p \in run)
  BY <1>1
<1>4. held' = held \cup run
  BY <1>3, Zenon DEF held, Pool
<1>5. \A p \in Pool : p \in run /\ p \notin held => owners'[p] = 1
  BY <1>1 DEF held
<1> QED BY <1>1, <1>2, <1>4, <1>5, Zenon

\* Pages their only owner gives back are held by nobody.
LEMMA GivenBackHeld ==
  ASSUME TypeOK, NoAliasing, NEW run \in SUBSET held, GivenBack(run)
  PROVE  /\ owners' = [p \in Pool |-> IF p \in run THEN 0 ELSE owners[p]]
         /\ owners' \in [Pool -> Nat]
         /\ held' = held \ run
<1>1. /\ owners \in [Pool -> Nat]
      /\ owners' = [p \in Pool |-> IF p \in run /\ owners[p] > 0 THEN owners[p] - 1
                                                               ELSE owners[p]]
  BY Zenon DEF TypeOK, GivenBack
<1>2. \A p \in run : p \in Pool /\ owners[p] = 1
  BY Zenon DEF NoAliasing, held
<1>3. owners' = [p \in Pool |-> IF p \in run THEN 0 ELSE owners[p]]
  BY <1>1, <1>2
<1>4. owners' \in [Pool -> Nat]
  BY <1>1, <1>3
<1>5. \A p \in Pool : owners'[p] > 0 <=> (owners[p] > 0 /\ p \notin run)
  BY <1>1, <1>3
<1>6. held' = held \ run
  BY <1>5, Zenon DEF held, Pool
<1> QED BY <1>3, <1>4, <1>6, Zenon

-----------------------------------------------------------------------------
\* pmm_init establishes the invariant.
LEMMA InitInv == Init => IInv
<1> SUFFICES ASSUME Init PROVE IInv
  BY Zenon
<1>1. TypeOK /\ NoAliasing /\ StatsAddUp
  BY PoolAssumption DEF Init, TypeOK, NoAliasing, StatsAddUp, StatsFree,
     StatsUsed, total_pages, Pool, held
<1>2. CountCoversHeld
  <2>1. held = {}
    BY DEF Init, held
  <2> QED BY <2>1, FS_EmptySet DEF Init, CountCoversHeld
<1> QED BY <1>1, <1>2, Zenon DEF IInv

\* A page popped from the stack was nobody's.
LEMMA PopFreeInv == IInv /\ PopFree => IInv'
<1> SUFFICES ASSUME IInv, PopFree PROVE IInv'
  BY Zenon
<1> USE PoolAssumption DEF IInv
<1> DEFINE p == free_pages[free_page_count - 1]
<1>1. p \in START_PAGE .. (next_page - 1) /\ p \notin held /\ p \in Pool
  BY DEF TypeOK, NoAliasing, PopFree, Pool
<1> HIDE DEF p
<1>0. Got({p}) /\ {p} \in SUBSET Pool
  BY <1>1, Zenon DEF PopFree, p
<1>2. TypeOK'
  BY <1>0, GotHeld DEF TypeOK, PopFree
<1>3. NoAliasing'
  <2>1. free_page_count' = free_page_count - 1 /\ free_page_count - 1 \in Nat
    BY DEF TypeOK, PopFree
  <2>2. \A i \in 0 .. (free_page_count' - 1) :
          /\ i \in 0 .. (free_page_count - 1) /\ i # free_page_count - 1
          /\ free_pages'[i] = free_pages[i]
    BY <2>1 DEF TypeOK, PopFree
  <2>3. \A i \in 0 .. (free_page_count' - 1) : free_pages[i] # p
    BY <2>1, <2>2 DEF NoAliasing, p
  <2>4. held' = held \cup {p} /\ next_page' = next_page
    BY <1>0, GotHeld, Zenon DEF PopFree
  <2>5. \A q \in held' : owners'[q] = 1 /\ q < next_page'
    <3>1. \A q \in held : q \in Pool
      BY Zenon DEF held
    <3>2. owners'[p] = 1 /\ \A q \in Pool : q # p => owners'[q] = owners[q]
      BY <1>0, <1>1, GotHeld
    <3>3. \A q \in held : owners[q] = 1 /\ q < next_page
      BY Zenon DEF NoAliasing
    <3>4. p < next_page
      BY <1>1 DEF TypeOK
    <3> QED BY <1>1, <2>4, <3>1, <3>2, <3>3, <3>4, Zenon
  <2> QED BY <2>2, <2>3, <2>4, <2>5, <1>1, Zenon DEF NoAliasing
<1>4. StatsAddUp'
  BY DEF TypeOK, StatsAddUp, StatsFree, StatsUsed, total_pages, PopFree
<1>5. CountCoversHeld'
  <2>1. IsFiniteSet(held') /\ Cardinality(held') = Cardinality(held) + 1
    BY <1>0, <1>1, GotHeld, FS_AddElement DEF CountCoversHeld
  <2>2. Cardinality(held) \in Nat
    BY FS_CardinalityType, Zenon DEF CountCoversHeld
  <2> QED BY <2>1, <2>2 DEF CountCoversHeld, PopFree, TypeOK
<1> QED BY <1>2, <1>3, <1>4, <1>5, Zenon

\* A page at the bump pointer was never handed out.
LEMMA BumpRunInv ==
  ASSUME NEW n \in Nat, IInv, next_page + n <= END_PAGE,
         next_page' = next_page + n,
         allocated_pages' = allocated_pages + n,
         Got(next_page .. (next_page + n - 1)),
         UNCHANGED <<free_pages, free_page_count>>
  PROVE  IInv'
<1> USE PoolAssumption DEF IInv
<1> DEFINE run == next_page .. (next_page + n - 1)
<1>0. run \in SUBSET Pool /\ held \subseteq Pool
  BY DEF TypeOK, Pool, held
<1>1. run \cap held = {} /\ held' = held \cup run
  BY <1>0, GotHeld DEF TypeOK, NoAliasing
<1>2. TypeOK'
  BY <1>0, GotHeld DEF TypeOK
<1>3. NoAliasing'
  <2>1. \A q \in held' : owners'[q] = 1 /\ q < next_page'
    <3>1. \A q \in run : q < next_page + n
      BY DEF TypeOK
    <3>2. \A q \in held : q < next_page + n /\ owners'[q] = 1
      <4>1. \A q \in held : q \in Pool /\ q \notin run /\ q \in Nat
        BY <1>0, <1>1 DEF Pool
      <4> QED BY <1>0, <4>1, GotHeld DEF NoAliasing, TypeOK
    <3>3. \A q \in run : owners'[q] = 1
      BY <1>0, <1>1, GotHeld, Zenon
    <3> HIDE DEF run
    <3> QED BY <1>1, <3>1, <3>2, <3>3, Zenon
  <2> QED BY <1>1, <2>1 DEF TypeOK, NoAliasing
<1>4. StatsAddUp'
  BY DEF TypeOK, StatsAddUp, StatsFree, StatsUsed, total_pages
<1>5. CountCoversHeld'
  <2>1. IsFiniteSet(held') /\ Cardinality(held') = Cardinality(held) + n
    <3>1. next_page \in Nat /\ IsFiniteSet(held)
      BY DEF CountCoversHeld, TypeOK
    <3> QED BY <1>1, <3>1, AddRun, Zenon
  <2>2. Cardinality(held) \in Nat
    BY FS_CardinalityType, Zenon DEF CountCoversHeld
  <2> QED BY <2>1, <2>2 DEF CountCoversHeld, TypeOK
<1> QED BY <1>2, <1>3, <1>4, <1>5, Zenon

\* Freeing held pages keeps the invariant, whether or not all of them fit on
\* the stack.
LEMMA FreeRunInv ==
  ASSUME NEW page \in Nat, NEW count \in Nat, IInv,
         page .. (page + count - 1) \subseteq held,
         FreeRun(page, count)
  PROVE  IInv'
<1> USE PoolAssumption DEF IInv
<1> DEFINE n == IF count <= Room THEN count ELSE Room
           last == page + count - 1
<1>1. n \in Nat /\ n <= count /\ n <= Room /\ Room \in Nat
  BY DEF TypeOK, Room
<1>0. /\ held' = held \ (page .. last)
      /\ owners' = [p \in Pool |-> IF p \in page .. last THEN 0 ELSE owners[p]]
      /\ owners' \in [Pool -> Nat]
  BY GivenBackHeld DEF FreeRun
<1>2. /\ IsFiniteSet(held') /\ Cardinality(held') = Cardinality(held) - count
      /\ Cardinality(held) \in Nat /\ Cardinality(held') \in Nat
  BY <1>0, RemoveRun, FS_CardinalityType, Zenon DEF CountCoversHeld
<1>3. allocated_pages' = allocated_pages - n /\ allocated_pages' >= Cardinality(held')
  BY <1>1, <1>2 DEF CountCoversHeld, FreeRun, Push, Returned, TypeOK
<1>4. /\ free_page_count' = free_page_count + n
      /\ next_page' = next_page
      /\ held' = held \ (page .. last)
      /\ \A i \in 0 .. (MAX_FREE_PAGES - 1) :
           free_pages'[i] = IF free_page_count <= i /\ i < free_page_count + n
                            THEN page + (i - free_page_count) ELSE free_pages[i]
  BY <1>0, Zenon DEF FreeRun, Push
<1>5. \A i \in 0 .. (MAX_FREE_PAGES - 1) :
        free_page_count <= i /\ i < free_page_count + n
          => /\ free_pages'[i] \in page .. last
             /\ free_pages'[i] \in held
             /\ free_pages'[i] = page + (i - free_page_count)
             /\ free_pages'[i] \in Pool
  BY <1>1, <1>4 DEF TypeOK, held
<1>6. TypeOK'
  <2>1. free_pages' \in [0 .. (MAX_FREE_PAGES - 1) -> Pool \cup {0}]
    <3>1. \A i \in 0 .. (MAX_FREE_PAGES - 1) : free_pages'[i] \in Pool \cup {0}
      BY <1>4, <1>5, Zenon DEF TypeOK
    <3> DEFINE F(i) == IF free_page_count <= i /\ i < free_page_count + n
                       THEN page + (i - free_page_count) ELSE free_pages[i]
    <3>2. free_pages' = [i \in 0 .. (MAX_FREE_PAGES - 1) |-> F(i)]
      BY Zenon DEF FreeRun, Push
    <3>3. \A i \in 0 .. (MAX_FREE_PAGES - 1) : F(i) \in Pool \cup {0}
      BY <3>1, <1>4, Zenon
    <3> HIDE DEF F
    <3> QED BY <3>2, <3>3, Zenon
  <2>2. allocated_pages' \in Nat
    BY <1>1, <1>2, <1>3 DEF TypeOK
  <2>3. free_page_count' \in 0 .. MAX_FREE_PAGES
    BY <1>1, <1>4 DEF TypeOK, Room
  <2> QED BY <2>1, <2>2, <2>3, <1>0, <1>4, Zenon DEF TypeOK
<1>7. NoAliasing'
  <2>1. \A i \in 0 .. (free_page_count' - 1) : i \in 0 .. (MAX_FREE_PAGES - 1)
    BY <1>1, <1>4 DEF TypeOK, Room
  <2>2. \A i \in 0 .. (free_page_count' - 1) :
          \/ /\ i \in 0 .. (free_page_count - 1)
             /\ free_pages'[i] = free_pages[i]
             /\ free_pages'[i] \notin held
             /\ free_pages'[i] \in START_PAGE .. (next_page - 1)
          \/ /\ free_page_count <= i /\ i < free_page_count + n
             /\ free_pages'[i] = page + (i - free_page_count)
             /\ free_pages'[i] \in page .. last
             /\ free_pages'[i] \in held
             /\ free_pages'[i] \in START_PAGE .. (next_page - 1)
    <3> SUFFICES ASSUME NEW i \in 0 .. (free_page_count' - 1)
                 PROVE  \/ /\ i \in 0 .. (free_page_count - 1)
                           /\ free_pages'[i] = free_pages[i]
                           /\ free_pages'[i] \notin held
                           /\ free_pages'[i] \in START_PAGE .. (next_page - 1)
                        \/ /\ free_page_count <= i /\ i < free_page_count + n
                           /\ free_pages'[i] = page + (i - free_page_count)
                           /\ free_pages'[i] \in page .. last
                           /\ free_pages'[i] \in held
                           /\ free_pages'[i] \in START_PAGE .. (next_page - 1)
      BY Zenon
    <3>0. i \in 0 .. (MAX_FREE_PAGES - 1) /\ free_page_count \in Nat
      BY <2>1 DEF TypeOK
    <3>1. CASE i < free_page_count
      BY <3>0, <3>1, <1>4 DEF NoAliasing
    <3>2. CASE i >= free_page_count
      <4>1. free_page_count <= i /\ i < free_page_count + n
        BY <3>0, <3>2, <1>1, <1>4
      <4> QED BY <4>1, <3>0, <1>5 DEF NoAliasing, TypeOK, Pool
    <3> QED BY <3>0, <3>1, <3>2
  <2>3. \A i, j \in 0 .. (free_page_count' - 1) : free_pages'[i] = free_pages'[j] => i = j
    BY <2>2, <1>1, <1>4 DEF TypeOK, NoAliasing
  <2>4. \A p \in held' : owners'[p] = 1 /\ p < next_page'
    <3>1. \A p \in held' : p \in Pool /\ p \in held /\ p \notin page .. last
      BY <1>4, Zenon DEF held
    <3> QED BY <1>0, <1>4, <3>1, Zenon DEF NoAliasing
  <2>5. \A i \in 0 .. (free_page_count' - 1) :
          free_pages'[i] \in START_PAGE .. (next_page' - 1) /\ free_pages'[i] \notin held'
    BY <2>2, <1>4, Zenon
  <2> QED BY <2>3, <2>4, <2>5, Zenon DEF NoAliasing
<1>8. StatsAddUp'
  BY <1>1, <1>3, <1>4 DEF TypeOK, StatsAddUp, StatsFree, StatsUsed, total_pages
<1>9. CountCoversHeld'
  BY <1>2, <1>3, <1>6, Zenon DEF CountCoversHeld, TypeOK
<1> QED BY <1>6, <1>7, <1>8, <1>9, Zenon

-----------------------------------------------------------------------------
\* Every operation of the allocator keeps the invariant.
LEMMA NextInv == IInv /\ [Next]_vars => IInv'
<1> SUFFICES ASSUME IInv, [Next]_vars PROVE IInv'
  BY Zenon
<1>0. /\ next_page \in Nat /\ next_page <= END_PAGE /\ held \subseteq Nat
      /\ START_PAGE \in Nat /\ END_PAGE \in Nat
  BY PoolAssumption DEF IInv, TypeOK, Pool, held
<1>1. CASE UNCHANGED vars
  BY <1>1, Zenon DEF vars, IInv, TypeOK, NoAliasing, StatsAddUp, StatsFree, StatsUsed,
     CountCoversHeld, held
<1>2. CASE pmm_alloc_page
  <2>1. CASE BumpNext
    <3>1. next_page .. (next_page + 1 - 1) = {next_page}
      BY <1>0
    <3>2. Got(next_page .. (next_page + 1 - 1))
      BY <2>1, <3>1, Zenon DEF BumpNext
    <3>3. /\ next_page + 1 <= END_PAGE
          /\ next_page' = next_page + 1
          /\ allocated_pages' = allocated_pages + 1
          /\ UNCHANGED <<free_pages, free_page_count>>
      BY <2>1, <1>0 DEF BumpNext
    <3> QED BY <3>2, <3>3, BumpRunInv, Zenon
  <2> QED BY <1>1, <1>2, <2>1, PopFreeInv, Zenon DEF pmm_alloc_page
<1>3. ASSUME NEW n \in Counts, pmm_alloc_pages(n) PROVE IInv'
  <2>1. n \in Nat /\ AddrPlus(next_page, n) = next_page + n
    BY <1>0, PoolAssumption, CountsAssumption DEF AddrPlus
  <2> QED BY <1>1, <1>3, <2>1, BumpRunInv, Zenon DEF pmm_alloc_pages
<1>4. ASSUME NEW p \in held \cup {0}, pmm_free_page(p) PROVE IInv'
  <2>1. CASE p \in Pool
    <3>1. p \in held /\ p \in Nat /\ p .. (p + 1 - 1) = {p}
      BY <1>0, <2>1, PoolAssumption DEF Pool
    <3> QED BY <1>4, <2>1, <3>1, FreeRunInv, Zenon DEF pmm_free_page
  <2> QED BY <1>1, <1>4, <2>1, Zenon DEF pmm_free_page
<1>5. ASSUME NEW p \in held, NEW n \in Counts,
             p .. (p + n - 1) \subseteq held, pmm_free_pages(p, n)
      PROVE  IInv'
  <2>1. n \in Nat /\ p \in Nat
    BY <1>0, CountsAssumption, Zenon
  <2> QED BY <1>5, <2>1, FreeRunInv, Zenon DEF pmm_free_pages
<1> QED BY <1>1, <1>2, <1>3, <1>4, <1>5, Zenon DEF Next

\* The inductive invariant of pmm_simple.c holds for clients that free only
\* what they hold.
THEOREM Invariant == Spec => []IInv
BY InitInv, NextInv, PTL DEF Spec

\* pmm_simple.c keeps its state in its types: in particular the free stack
\* never outgrows its array.
THEOREM TypeCorrect == Spec => []TypeOK
<1>1. IInv => TypeOK
  BY Zenon DEF IInv
<1> QED BY <1>1, Invariant, PTL

\* Neither pmm_alloc_page nor pmm_alloc_pages ever hands out a held page.
THEOREM NeverAliases == Spec => []NoAliasing
<1>1. IInv => NoAliasing
  BY Zenon DEF IInv
<1> QED BY <1>1, Invariant, PTL

\* pmm_get_stats always reports free + used = total.
THEOREM StatsConsistent == Spec => []StatsAddUp
<1>1. IInv => StatsAddUp
  BY Zenon DEF IInv
<1> QED BY <1>1, Invariant, PTL

-----------------------------------------------------------------------------
\* Each operation of pmm_simple.c is a step of the abstract allocator.
LEMMA StepRefines == IInv /\ [Next]_vars => [Abstract!Next]_owners
<1> SUFFICES ASSUME IInv, [Next]_vars PROVE [Abstract!Next]_owners
  BY Zenon
<1> USE PoolAssumption
<1>0. /\ next_page \in START_PAGE .. END_PAGE
      /\ \A p \in held : p \in Pool /\ p < next_page /\ owners[p] = 1
      /\ owners \in [Pool -> Nat]
      /\ TypeOK /\ NoAliasing
  BY Zenon DEF IInv, TypeOK, NoAliasing, held
<1>1. CASE UNCHANGED vars
  BY <1>1, Zenon DEF vars
<1>2. ASSUME NEW a \in Pool, NEW b \in Pool, a .. b \subseteq held, GivenBack(a .. b)
      PROVE  [Abstract!Next]_owners
  <2>1. owners' = [p \in Pool |-> IF p \in a .. b THEN 0 ELSE owners[p]]
    BY <1>0, <1>2, GivenBackHeld, Zenon
  <2> QED BY <1>0, <1>2, <2>1 DEF Abstract!Next, Abstract!Give
<1>3. ASSUME NEW a \in Pool, NEW b \in Pool, a .. b \subseteq Pool \ held, Got(a .. b)
      PROVE  [Abstract!Next]_owners
  <2>1. \A p \in a .. b : p \in Pool /\ owners[p] = 0
    BY <1>0, <1>3 DEF held
  <2>2. owners' = [p \in Pool |-> IF p \in a .. b THEN 1 ELSE owners[p]]
    BY <1>3, <2>1 DEF Got
  <2> QED BY <2>1, <2>2, Zenon DEF Abstract!Next, Abstract!Take
<1>4. CASE pmm_alloc_page
  <2>1. CASE PopFree
    <3> DEFINE p == free_pages[free_page_count - 1]
    <3>1. p \in START_PAGE .. (next_page - 1) /\ p \notin held
      BY <1>0, <2>1 DEF PopFree, TypeOK, NoAliasing
    <3>2. p \in Pool /\ p .. p = {p} /\ Got({p})
      BY <1>0, <2>1, <3>1 DEF PopFree, Pool
    <3> HIDE DEF p
    <3> QED BY <1>3, <3>1, <3>2, Zenon
  <2>2. CASE BumpNext
    <3>1. /\ next_page \in Pool /\ next_page .. next_page = {next_page}
          /\ next_page \notin held /\ Got({next_page})
      BY <1>0, <2>2 DEF BumpNext, Pool
    <3> QED BY <1>3, <3>1, Zenon
  <2> QED BY <1>1, <1>4, <2>1, <2>2, Zenon DEF pmm_alloc_page
<1>5. ASSUME NEW n \in Counts, pmm_alloc_pages(n) PROVE [Abstract!Next]_owners
  <2>1. n \in Nat /\ AddrPlus(next_page, n) = next_page + n
    BY <1>0, CountsAssumption DEF AddrPlus
  <2>2. CASE n # 0 /\ next_page + n <= END_PAGE
    <3> DEFINE b == next_page + n - 1
    <3>1. /\ next_page \in Pool /\ b \in Pool
          /\ next_page .. b \subseteq Pool \ held
      BY <1>0, <2>1, <2>2 DEF Pool
    <3>2. Got(next_page .. b)
      BY <1>5, <2>1, <2>2, <1>0 DEF pmm_alloc_pages
    <3> HIDE DEF b
    <3> QED BY <1>3, <3>1, <3>2, Zenon
  <2>3. CASE ~(n # 0 /\ next_page + n <= END_PAGE)
    BY <1>1, <1>5, <2>1, <2>3, <1>0, Zenon DEF pmm_alloc_pages
  <2> QED BY <2>2, <2>3, Zenon
<1>6. ASSUME NEW p \in held \cup {0}, pmm_free_page(p) PROVE [Abstract!Next]_owners
  <2>1. CASE p \in Pool
    <3>1. p \in held /\ p .. p = {p} /\ p .. (p + 1 - 1) = {p}
      BY <1>6, <2>1 DEF Pool
    <3>2. GivenBack(p .. p)
      BY <1>6, <2>1, <3>1, Zenon DEF pmm_free_page, FreeRun
    <3> QED BY <1>2, <2>1, <3>1, <3>2, Zenon
  <2> QED BY <1>1, <1>6, <2>1, Zenon DEF pmm_free_page
<1>7. ASSUME NEW p \in held, NEW n \in Counts, p .. (p + n - 1) \subseteq held,
             pmm_free_pages(p, n)
      PROVE  [Abstract!Next]_owners
  <2>1. GivenBack(p .. (p + n - 1)) /\ n \in Nat /\ p \in Pool /\ p \in Nat
    BY <1>0, <1>7, CountsAssumption DEF pmm_free_pages, FreeRun, Pool
  <2>2. CASE n = 0
    <3>1. p .. (p + n - 1) = {}
      BY <2>1, <2>2
    <3>2. owners' = [q \in Pool |-> owners[q]]
      BY <2>1, <3>1, Zenon DEF GivenBack
    <3>3. owners' = owners
      BY <1>0, <3>2, Zenon
    <3> QED BY <3>3, Zenon
  <2>3. CASE n # 0
    <3>1. p + n - 1 \in held
      BY <1>7, <2>1, <2>3
    <3> QED BY <1>0, <1>2, <1>7, <2>1, <3>1, Zenon
  <2> QED BY <2>2, <2>3, Zenon
<1> QED BY <1>1, <1>4, <1>5, <1>6, <1>7, Zenon DEF Next

\* pmm_simple.c implements the abstract page allocator.
THEOREM Refinement == Spec => ImplementsPageAllocator
<1>1. Init => Abstract!Init
  BY Zenon DEF Init, Abstract!Init
<1> QED BY <1>1, StepRefines, Invariant, PTL
        DEF Spec, ImplementsPageAllocator, Abstract!Spec

-----------------------------------------------------------------------------
\* A popped page moves from the stack to its holder.
LEMMA PopLosesNone ==
  ASSUME IInv, PopFree
  PROVE  Lost' = Lost
<1> USE PoolAssumption DEF IInv
<1> DEFINE p == free_pages[free_page_count - 1]
<1>1. p \in START_PAGE .. (next_page - 1) /\ p \in Pool
  BY DEF TypeOK, NoAliasing, PopFree, Pool
<1>2. held' = held \cup {p} /\ next_page' = next_page
  BY <1>1, GotHeld DEF PopFree
<1>3. FreeStack' \cup {p} = FreeStack
  <2>1. /\ free_page_count' = free_page_count - 1 /\ free_pages' = free_pages
        /\ free_page_count \in Nat /\ free_page_count > 0
    BY DEF PopFree, TypeOK
  <2>2. 0 .. (free_page_count - 1) = (0 .. (free_page_count' - 1)) \cup {free_page_count - 1}
    BY <2>1
  <2> QED BY <2>1, <2>2, Zenon DEF FreeStack
<1> HIDE DEF p
<1> QED BY <1>2, <1>3, Zenon DEF Lost

\* Pages from the bump pointer go to their holder and were nowhere before.
LEMMA BumpLosesNone ==
  ASSUME IInv, NEW n \in Nat, next_page + n <= END_PAGE,
         next_page' = next_page + n,
         Got(next_page .. (next_page + n - 1)),
         UNCHANGED <<free_pages, free_page_count>>
  PROVE  Lost' = Lost
<1> USE PoolAssumption DEF IInv
<1> DEFINE run == next_page .. (next_page + n - 1)
<1>0. run \in SUBSET Pool
  BY DEF TypeOK, Pool
<1>1. held' = held \cup run /\ FreeStack' = FreeStack
  BY <1>0, GotHeld, Zenon DEF FreeStack
<1>2. /\ START_PAGE .. (next_page' - 1) = (START_PAGE .. (next_page - 1)) \cup run
      /\ (START_PAGE .. (next_page - 1)) \cap run = {}
  BY DEF TypeOK
<1> HIDE DEF run
<1> QED BY <1>1, <1>2, Zenon DEF Lost

\* Freed pages that all fit on the stack move there from their holder.
LEMMA FreeLosesNone ==
  ASSUME IInv, NEW page \in Nat, NEW count \in Nat,
         page .. (page + count - 1) \subseteq held,
         FreeRun(page, count), count <= Room
  PROVE  Lost' = Lost
<1> USE PoolAssumption DEF IInv
<1> DEFINE run == page .. (page + count - 1)
<1>1. held' = held \ run /\ next_page' = next_page
  BY GivenBackHeld, Zenon DEF FreeRun, Push
<1>2. /\ free_page_count \in Nat /\ MAX_FREE_PAGES \in Nat
      /\ free_page_count' = free_page_count + count
      /\ free_page_count + count <= MAX_FREE_PAGES
      /\ \A i \in 0 .. (MAX_FREE_PAGES - 1) :
           free_pages'[i] = IF free_page_count <= i /\ i < free_page_count + count
                            THEN page + (i - free_page_count) ELSE free_pages[i]
  BY DEF FreeRun, Push, Room, TypeOK
<1>3. FreeStack' = FreeStack \cup run
  <2>1. \A i \in 0 .. (free_page_count - 1) :
          free_pages'[i] = free_pages[i] /\ i \in 0 .. (free_page_count' - 1)
    BY <1>2
  <2>2. \A i \in 0 .. (free_page_count' - 1) :
          i \in 0 .. (free_page_count - 1) \/ free_pages'[i] \in run
    BY <1>2
  <2>3. \A q \in run : \E i \in 0 .. (free_page_count' - 1) : free_pages'[i] = q
    <3> SUFFICES ASSUME NEW q \in run
                 PROVE  \E i \in 0 .. (free_page_count' - 1) : free_pages'[i] = q
      BY Zenon
    <3> DEFINE k == free_page_count + (q - page)
    <3>1. k \in 0 .. (free_page_count' - 1) /\ k \in 0 .. (MAX_FREE_PAGES - 1)
      BY <1>2
    <3>2. free_page_count <= k /\ k < free_page_count + count
      BY <1>2
    <3>3. page + (k - free_page_count) = q
      BY <1>2
    <3> HIDE DEF k
    <3>4. free_pages'[k] = q
      BY <1>2, <3>1, <3>2, <3>3, Zenon
    <3> QED BY <3>1, <3>4, Zenon
  <2> HIDE DEF run
  <2> QED BY <2>1, <2>2, <2>3 DEF FreeStack
<1>4. run \subseteq held
  BY Zenon
<1> HIDE DEF run
<1> QED BY <1>1, <1>3, <1>4, Zenon DEF Lost

\* Every step loses no page, or leaves the stack full.
LEMMA StepLoses ==
  ASSUME IInv, Next
  PROVE  Lost' = Lost \/ free_page_count' = MAX_FREE_PAGES
<1>0. /\ next_page \in Nat /\ next_page <= END_PAGE /\ held \subseteq Nat
      /\ START_PAGE \in Nat /\ END_PAGE \in Nat
  BY PoolAssumption DEF IInv, TypeOK, Pool, held
<1>1. CASE UNCHANGED vars
  BY <1>1, Zenon DEF vars, Lost, held, FreeStack
<1>2. CASE pmm_alloc_page
  <2>1. CASE BumpNext
    <3>1. next_page .. (next_page + 1 - 1) = {next_page}
      BY <1>0
    <3>2. Got(next_page .. (next_page + 1 - 1))
      BY <2>1, <3>1, Zenon DEF BumpNext
    <3>3. /\ next_page + 1 <= END_PAGE
          /\ next_page' = next_page + 1
          /\ UNCHANGED <<free_pages, free_page_count>>
      BY <2>1, <1>0 DEF BumpNext
    <3> QED BY <3>2, <3>3, BumpLosesNone, Zenon
  <2> QED BY <1>1, <1>2, <2>1, PopLosesNone, Zenon DEF pmm_alloc_page
<1>3. ASSUME NEW n \in Counts, pmm_alloc_pages(n)
      PROVE  Lost' = Lost
  <2>1. n \in Nat /\ AddrPlus(next_page, n) = next_page + n
    BY <1>0, PoolAssumption, CountsAssumption DEF AddrPlus
  <2>2. CASE UNCHANGED vars
    BY <2>2, Zenon DEF vars, Lost, held, FreeStack
  <2> QED BY <1>3, <2>1, <2>2, BumpLosesNone, Zenon DEF pmm_alloc_pages
<1>4. ASSUME NEW page \in held, NEW count \in Nat,
             page .. (page + count - 1) \subseteq held, FreeRun(page, count)
      PROVE  Lost' = Lost \/ free_page_count' = MAX_FREE_PAGES
  <2>1. CASE count <= Room
    BY <1>0, <1>4, <2>1, FreeLosesNone, Zenon
  <2>2. CASE ~(count <= Room)
    BY <1>4, <2>2, PoolAssumption DEF FreeRun, Push, Room, IInv, TypeOK
  <2> QED BY <2>1, <2>2, Zenon
<1>5. ASSUME NEW p \in held \cup {0}, pmm_free_page(p)
      PROVE  Lost' = Lost \/ free_page_count' = MAX_FREE_PAGES
  <2>1. CASE p \in Pool
    <3>1. p \in held /\ p \in Nat /\ p .. (p + 1 - 1) = {p}
      BY <1>0, <2>1, PoolAssumption DEF Pool
    <3>2. FreeRun(p, 1)
      BY <1>5, <2>1, Zenon DEF pmm_free_page
    <3> QED BY <1>4, <3>1, <3>2, Zenon
  <2> QED BY <1>1, <1>5, <2>1, Zenon DEF pmm_free_page
<1>6. ASSUME NEW p \in held, NEW n \in Counts,
             p .. (p + n - 1) \subseteq held, pmm_free_pages(p, n)
      PROVE  Lost' = Lost \/ free_page_count' = MAX_FREE_PAGES
  BY <1>4, <1>6, CountsAssumption, Zenon DEF pmm_free_pages
<1> QED BY <1>2, <1>3, <1>5, <1>6, Zenon DEF Next

\* A page gets lost only in a pmm_free_page that leaves the free stack full: no
\* other step, and no interplay of stack and bump pointer, loses one.
THEOREM LosesOnlyWhenFull == Spec => LostOnlyWhenFull
<1>1. IInv /\ [Next]_vars => [Lost' # Lost => free_page_count' = MAX_FREE_PAGES]_vars
  BY StepLoses, Zenon
<1> QED BY <1>1, Invariant, PTL DEF Spec, LostOnlyWhenFull
=============================================================================
