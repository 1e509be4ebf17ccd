-------------------------- MODULE PmmBitmapProofs ---------------------------
(***************************************************************************)
(* Proofs about PmmBitmap for every bitmap and every set of counts.        *)
(*                                                                         *)
(* The invariant behind them adds to HintBelowFree that a page somebody    *)
(* holds has its bit set, has one owner, and is not page 0: the bit is all *)
(* that keeps the two searches away from it, and pmm_free_page would       *)
(* ignore page 0.                                                          *)
(***************************************************************************)
EXTENDS PmmBitmap, WellFoundedInduction, TLAPS

BitmapTypes ==
  /\ used \subseteq Pages
  /\ first_free_page \in Nat
  /\ owners \in [Pages -> {0, 1}]

HeldIsUsed == \A p \in Pages : owners[p] = 1 => p \in used /\ p # 0

BitmapIInv == BitmapTypes /\ HeldIsUsed /\ HintBelowFree

-----------------------------------------------------------------------------
\* The first fit exists and is the least.
LEMMA MinFacts ==
  ASSUME NEW S \in SUBSET Nat, S # {}
  PROVE  Min(S) \in S /\ \A y \in S : Min(S) <= y
<1> DEFINE less == {ss \in Nat \X Nat : ss[1] < ss[2]}
<1>1. IsWellFoundedOn(less, Nat)
  <2>1. OpToRel(<, Nat) = less
    BY Zenon DEF OpToRel
  <2> QED BY <2>1, NatLessThanWellFounded, Zenon
<1>2. \A a, b \in Nat : a < b => <<a, b>> \in less
  BY Zenon
<1> HIDE DEF less
<1>3. PICK x \in S : \A y \in S : ~(<<y, x>> \in less)
  BY <1>1, WFMin, Zenon
<1>4. ASSUME NEW y \in S PROVE x <= y
  <2>1. x \in Nat /\ y \in Nat
    BY Zenon
  <2>2. ~(y < x)
    BY <1>2, <1>3, <2>1, Zenon
  <2> QED BY <2>1, <2>2
<1> QED BY <1>4, Zenon DEF Min

\* What a search finds is a run of free pages of the bitmap.
LEMMA FitsFacts ==
  ASSUME BitmapTypes, NEW n \in 1 .. MAX_PAGES, Fits(n) # {}
  PROVE  LET p == Min(Fits(n)) IN
         /\ p \in Pages /\ p + n - 1 \in Pages /\ p >= first_free_page
         /\ p .. (p + n - 1) \subseteq Pages \ used
         /\ p \in p .. (p + n - 1)
<1> DEFINE p == Min(Fits(n))
<1>1. Fits(n) \in SUBSET Nat
  BY BitmapAssumption DEF Fits, BitmapTypes
<1>2. p \in Fits(n)
  BY <1>1, MinFacts, Zenon
<1> HIDE DEF p
<1>3. /\ p \in first_free_page .. (MAX_PAGES - n)
      /\ (p .. (p + n - 1)) \cap used = {}
  BY <1>2, Zenon DEF Fits
<1>4. p \in Pages /\ p + n - 1 \in Pages /\ p >= first_free_page /\ p \in p .. (p + n - 1)
  BY <1>3, BitmapAssumption DEF BitmapTypes, Pages
<1>5. \A q \in p .. (p + n - 1) : q \in Pages
  BY <1>4, BitmapAssumption DEF Pages
<1> QED BY <1>3, <1>4, <1>5, Zenon DEF p

\* Marking a run of free pages hands out pages that nobody holds, or, for the
\* run at page 0, which its client takes for a failure, hands out none.
LEMMA AllocateFacts ==
  ASSUME BitmapTypes, HeldIsUsed, NEW p \in Pages, NEW n \in 1 .. MAX_PAGES,
         p + n - 1 \in Pages, p .. (p + n - 1) \subseteq Pages \ used,
         Allocate(p, n)
  PROVE  /\ used' = used \cup (p .. (p + n - 1))
         /\ used' \subseteq Pages
         /\ owners' \in [Pages -> {0, 1}]
         /\ HeldIsUsed'
         /\ [Abstract!Next]_owners
<1> DEFINE run == p .. (p + n - 1)
<1>1. /\ used' = used \cup run
      /\ owners' = [q \in Pages |-> IF q \in run /\ p # 0 THEN owners[q] + 1 ELSE owners[q]]
  BY Zenon DEF Allocate
<1>2. \A q \in run : q \in Pages /\ owners[q] = 0
  BY Zenon DEF BitmapTypes, HeldIsUsed
<1>3. p # 0 => 0 \notin run
  BY BitmapAssumption DEF Pages
<1>4. p + n - 1 \in Pages /\ owners \in [Pages -> {0, 1}] /\ used \subseteq Pages
  BY Zenon DEF BitmapTypes
<1>5. CASE p = 0
  <2>1. owners' = owners
    BY <1>1, <1>4, <1>5, Zenon
  <2> QED BY <1>1, <1>2, <1>4, <2>1, Zenon DEF HeldIsUsed
<1>6. CASE p # 0
  <2> HIDE DEF run
  <2>1. owners' = [q \in Pages |-> IF q \in run THEN 1 ELSE owners[q]]
    BY <1>1, <1>2, <1>6
  <2>2. owners' \in [Pages -> {0, 1}] /\ used' \subseteq Pages
    BY <1>1, <1>2, <1>4, <2>1, Zenon
  <2>3. HeldIsUsed'
    BY <1>1, <1>3, <1>6, <2>1, Zenon DEF HeldIsUsed
  <2>4. Abstract!Take
    BY <1>2, <1>4, <2>1, Zenon DEF run, Abstract!Take
  <2> QED BY <1>1, <2>2, <2>3, <2>4, Zenon DEF run, Abstract!Next
<1> QED BY <1>5, <1>6, Zenon

\* Clearing the bits of held pages gives them back, and moves the hint to the
\* first of them if it was beyond.
LEMMA FreeFacts ==
  ASSUME BitmapIInv, NEW a \in Pages, NEW b \in Pages, a .. b \subseteq held,
         used' = used \ (a .. b),
         owners' = [q \in Pages |-> IF q \in a .. b THEN 0 ELSE owners[q]],
         first_free_page' = IF a < first_free_page THEN a ELSE first_free_page
  PROVE  BitmapIInv' /\ [Abstract!Next]_owners
<1> USE BitmapAssumption
<1>1. /\ used \subseteq Pages /\ first_free_page \in Nat /\ a \in Nat
      /\ owners \in [Pages -> {0, 1}] /\ HeldIsUsed /\ HintBelowFree
  BY DEF BitmapIInv, BitmapTypes, Pages
<1>2. \A q \in a .. b : q \in Pages /\ owners[q] = 1
  BY <1>1 DEF held
<1>3. BitmapTypes'
  BY <1>1, Zenon DEF BitmapTypes
<1>4. HeldIsUsed'
  BY <1>1 DEF HeldIsUsed
<1>5. HintBelowFree'
  <2> SUFFICES ASSUME NEW q \in Pages, q < first_free_page' PROVE q \in used'
    BY Zenon DEF HintBelowFree
  <2>1. q \in Nat /\ q < first_free_page /\ q < a
    BY <1>1 DEF Pages
  <2>2. q \notin a .. b
    BY <1>1, <2>1 DEF Pages
  <2> QED BY <1>1, <2>1, <2>2, Zenon DEF HintBelowFree
<1>6. Abstract!Give
  BY <1>2, Zenon DEF Abstract!Give
<1> QED BY <1>3, <1>4, <1>5, <1>6, Zenon DEF BitmapIInv, Abstract!Next

-----------------------------------------------------------------------------
\* pmm_alloc_page, with the step of the hint.
LEMMA AllocPageStep ==
  ASSUME BitmapIInv, pmm_alloc_page, Fits(1) # {}
  PROVE  BitmapIInv' /\ [Abstract!Next]_owners
<1> DEFINE p == Min(Fits(1))
<1>1. Allocate(p, 1) /\ first_free_page' = Hint(p)
  BY Zenon DEF pmm_alloc_page
<1>2. 1 \in 1 .. MAX_PAGES /\ BitmapTypes /\ HeldIsUsed /\ HintBelowFree
  BY BitmapAssumption DEF BitmapIInv
<1>3. /\ p \in Pages /\ p + 1 - 1 \in Pages
      /\ p .. (p + 1 - 1) \subseteq Pages \ used
      /\ p \in p .. (p + 1 - 1)
  BY <1>2, FitsFacts, Zenon
<1> HIDE DEF p
<1>4. /\ used' = used \cup (p .. (p + 1 - 1))
      /\ used' \subseteq Pages
      /\ owners' \in [Pages -> {0, 1}]
      /\ HeldIsUsed'
      /\ [Abstract!Next]_owners
  BY <1>1, <1>2, <1>3, AllocateFacts, Zenon
<1>5. first_free_page' \in Nat
  BY <1>1, <1>2 DEF Hint, BitmapTypes
<1>6. HintBelowFree'
  <2> SUFFICES ASSUME NEW q \in Pages, q < first_free_page' PROVE q \in used'
    BY Zenon DEF HintBelowFree
  <2>1. q < first_free_page \/ q = p
    BY <1>1, <1>2 DEF Hint, BitmapTypes, Pages
  <2> QED BY <1>2, <1>3, <1>4, <2>1, Zenon DEF HintBelowFree
<1> QED BY <1>4, <1>5, <1>6, Zenon DEF BitmapIInv, BitmapTypes

\* Every operation keeps the invariant and is a step of the abstract allocator.
LEMMA BitmapStep == BitmapIInv /\ [Next]_vars => BitmapIInv' /\ [Abstract!Next]_owners
<1> SUFFICES ASSUME BitmapIInv, [Next]_vars
             PROVE  BitmapIInv' /\ [Abstract!Next]_owners
  BY Zenon
<1>0. /\ BitmapTypes /\ HeldIsUsed /\ HintBelowFree
      /\ owners \in [Pages -> {0, 1}] /\ first_free_page \in Nat
  BY Zenon DEF BitmapIInv, BitmapTypes
<1>1. CASE UNCHANGED vars
  BY <1>1, Zenon DEF vars, BitmapIInv, BitmapTypes, HeldIsUsed, HintBelowFree
<1>2. CASE pmm_alloc_page
  BY <1>1, <1>2, AllocPageStep, Zenon DEF pmm_alloc_page
<1>3. ASSUME NEW n \in Counts, pmm_alloc_pages(n)
      PROVE  BitmapIInv' /\ [Abstract!Next]_owners
  <2>1. CASE Fits(n) # {} /\ Allocate(Min(Fits(n)), n) /\ UNCHANGED first_free_page
    <3> DEFINE p == Min(Fits(n))
    <3>1. n \in 1 .. MAX_PAGES
      BY BitmapAssumption, Zenon
    <3>2. /\ p \in Pages /\ p + n - 1 \in Pages
          /\ p .. (p + n - 1) \subseteq Pages \ used
      BY <1>0, <2>1, <3>1, FitsFacts, Zenon
    <3> HIDE DEF p
    <3>3. /\ used' = used \cup (p .. (p + n - 1))
          /\ used' \subseteq Pages
          /\ owners' \in [Pages -> {0, 1}]
          /\ HeldIsUsed'
          /\ [Abstract!Next]_owners
      BY <1>0, <2>1, <3>1, <3>2, AllocateFacts, Zenon DEF p
    <3>4. HintBelowFree'
      BY <1>0, <2>1, <3>3, Zenon DEF HintBelowFree
    <3> QED BY <1>0, <2>1, <3>3, <3>4, Zenon DEF BitmapIInv, BitmapTypes
  <2> QED BY <1>1, <1>2, <1>3, <2>1, Zenon DEF pmm_alloc_pages
<1>4. ASSUME NEW p \in 0 .. MAX_PAGES, Freeable(p), pmm_free_page(p)
      PROVE  BitmapIInv' /\ [Abstract!Next]_owners
  <2>1. CASE Ignored(p)
    BY <1>1, <1>4, <2>1, Zenon DEF pmm_free_page
  <2>2. CASE ~Ignored(p)
    <3>1. p \in held /\ p \in Pages /\ p .. p = {p} /\ owners[p] = 1
      BY <1>0, <1>4, <2>2, BitmapAssumption DEF Freeable, Ignored, held, Pages
    <3>2. /\ used' = used \ (p .. p)
          /\ first_free_page' = IF p < first_free_page THEN p ELSE first_free_page
      BY <1>4, <2>2, <3>1, Zenon DEF pmm_free_page, HintBack
    <3>3. owners' = [q \in Pages |-> IF q \in p .. p THEN 0 ELSE owners[q]]
      BY <1>0, <1>4, <2>2, <3>1 DEF pmm_free_page
    <3>4. p .. p \subseteq held
      BY <3>1, Zenon
    <3> QED BY <3>1, <3>2, <3>3, <3>4, FreeFacts, Zenon
  <2> QED BY <2>1, <2>2, Zenon
<1>5. ASSUME NEW p \in Pages, NEW n \in Counts, p .. (p + n - 1) \subseteq held,
             pmm_free_pages(p, n)
      PROVE  BitmapIInv' /\ [Abstract!Next]_owners
  <2> DEFINE run == p .. (p + n - 1)
             given == {q \in run : ~Ignored(q)}
  <2>1. n \in Nat /\ n >= 1 /\ p \in Nat
    BY BitmapAssumption DEF Pages
  <2>2. \A q \in run : q \in Pages /\ owners[q] = 1 /\ ~Ignored(q)
    BY <1>0, <1>5, BitmapAssumption DEF held, HeldIsUsed, Ignored, Pages
  <2>3. given = run
    BY <2>2, Zenon
  <2>4. p \in run /\ p + n - 1 \in run /\ \A q \in run : q >= p /\ q \in Nat
    BY <2>1
  <2>5. /\ used' = used \ run
        /\ first_free_page' = Min({first_free_page} \cup run)
        /\ owners' = [q \in Pages |-> IF q \in run /\ owners[q] > 0
                                     THEN owners[q] - 1 ELSE owners[q]]
    BY <1>5, <2>3, Zenon DEF pmm_free_pages
  <2> HIDE DEF run
  <2>6. owners' = [q \in Pages |-> IF q \in run THEN 0 ELSE owners[q]]
    BY <2>2, <2>5
  <2>7. first_free_page' = IF p < first_free_page THEN p ELSE first_free_page
    <3> DEFINE S == {first_free_page} \cup run
    <3>1. S \in SUBSET Nat /\ S # {}
      BY <1>0, <2>4, Zenon
    <3>2. Min(S) \in S /\ \A y \in S : Min(S) <= y
      BY <3>1, MinFacts, Zenon
    <3>3. /\ Min(S) = first_free_page \/ Min(S) \in run
          /\ Min(S) <= first_free_page /\ Min(S) <= p /\ Min(S) \in Nat
      BY <2>4, <3>1, <3>2, Zenon
    <3> HIDE DEF S
    <3>4. Min(S) = first_free_page \/ Min(S) >= p
      BY <2>4, <3>3, Zenon
    <3> QED BY <1>0, <2>1, <2>5, <3>3, <3>4 DEF S
  <2> QED BY <1>5, <2>2, <2>4, <2>5, <2>6, <2>7, FreeFacts, Zenon DEF run
<1> QED BY <1>1, <1>2, <1>3, <1>4, <1>5, Zenon DEF Next

-----------------------------------------------------------------------------
\* The inductive invariant of mm/pmm.c holds for clients that free what they
\* hold, or single pages that are free already.
THEOREM BitmapInvariant == Spec => []BitmapIInv
<1>1. Init => BitmapIInv
  BY BitmapAssumption DEF Init, BitmapIInv, BitmapTypes, HeldIsUsed, HintBelowFree, Pages
<1> QED BY <1>1, BitmapStep, PTL DEF Spec

\* first_free_page never passes a free page, whichever of the four operations
\* moved it or left it behind.
THEOREM HintNeverPassesFree == Spec => []HintBelowFree
<1>1. BitmapIInv => HintBelowFree
  BY Zenon DEF BitmapIInv
<1> QED BY <1>1, BitmapInvariant, PTL

\* The searches from the hint are complete: when one for n pages fails, and
\* pmm_alloc_page or pmm_alloc_pages returns 0, the whole bitmap, the part below
\* the hint included, has no n free pages in a row.
SearchComplete ==
  \A n \in 1 .. MAX_PAGES :
    Fits(n) = {} =>
      \A p \in 0 .. (MAX_PAGES - n) : (p .. (p + n - 1)) \cap used # {}

\* No allocation of mm/pmm.c fails for a run of pages that is free.
THEOREM SearchMissesNothing == Spec => []SearchComplete
<1>1. BitmapIInv => SearchComplete
  <2> SUFFICES ASSUME BitmapIInv, NEW n \in 1 .. MAX_PAGES, Fits(n) = {},
                      NEW p \in 0 .. (MAX_PAGES - n)
               PROVE  (p .. (p + n - 1)) \cap used # {}
    BY Zenon DEF SearchComplete
  <2>1. /\ first_free_page \in Nat /\ MAX_PAGES \in Nat /\ p \in Pages
        /\ p \in p .. (p + n - 1)
    BY BitmapAssumption DEF BitmapIInv, BitmapTypes, Pages
  <2>2. CASE p < first_free_page
    BY <2>1, <2>2, Zenon DEF BitmapIInv, HintBelowFree
  <2>3. CASE p >= first_free_page
    <3>1. p \in first_free_page .. (MAX_PAGES - n)
      BY <2>1, <2>3
    <3> QED BY <3>1, Zenon DEF Fits
  <2> QED BY <2>1, <2>2, <2>3 DEF Pages
<1> QED BY <1>1, BitmapInvariant, PTL

\* mm/pmm.c implements the abstract page allocator, double frees included.
THEOREM BitmapRefinement == Spec => ImplementsPageAllocator
<1>1. Init => Abstract!Init
  BY Zenon DEF Init, Abstract!Init
<1>2. BitmapIInv /\ [Next]_vars => [Abstract!Next]_owners
  BY BitmapStep, Zenon
<1> QED BY <1>1, <1>2, BitmapInvariant, PTL
        DEF Spec, ImplementsPageAllocator, Abstract!Spec
=============================================================================
