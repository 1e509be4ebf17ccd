-------------------------- MODULE KernelPagingProofs --------------------------
(***************************************************************************)
(* The proofs about KernelPaging, for every layout of the sections, every  *)
(* page size and every way the boot loader may have mapped the image.      *)
(*                                                                         *)
(* The inductive invariant says how far each of the two loops has come:    *)
(* the pages behind the first are writable, together with the rest of      *)
(* their leaf, and the bytes behind the second are the ones cleared.  What *)
(* the processor has cached agrees with the tables once CR3 was written,   *)
(* and not before: until then a cached entry may still be read-only.       *)
(***************************************************************************)
EXTENDS KernelPaging, TLAPS

-----------------------------------------------------------------------------
(* Division, as address arithmetic uses it. *)

\* The quotient and the remainder that PageOf and the alignment of the sections
\* in linker.ld are about.
LEMMA DivisionFacts ==
  \A a \in Nat, d \in Nat \ {0} :
         /\ a \div d \in Nat
         /\ a % d \in 0 .. (d - 1)
         /\ a = d * (a \div d) + (a % d)
         /\ d * (a \div d) <= a
         /\ a < d * (a \div d) + d
OBVIOUS

\* An address below d * n is in a page below n.
LEMMA DivisionBelow ==
  ASSUME NEW a \in Nat, NEW n \in Nat, NEW d \in Nat \ {0}, a < d * n
  PROVE  a \div d < n
<1> DEFINE q == a \div d
<1>1. q \in Nat /\ d * q <= a
  BY DivisionFacts, Zenon
<1>2. ASSUME q >= n PROVE FALSE
  <2>1. PICK k \in Nat : q = n + k
    BY <1>1, <1>2
  <2>2. d * q = d * n + d * k /\ d * k \in Nat
    BY <2>1
  <2> QED
    BY <1>1, <2>2
<1> HIDE DEF q
<1>3. q < n
  BY <1>1, <1>2
<1> QED
  BY <1>3, Zenon DEF q

\* An address from d * n on is in a page from n on.
LEMMA DivisionAbove ==
  ASSUME NEW a \in Nat, NEW n \in Nat, NEW d \in Nat \ {0}, d * n <= a
  PROVE  n <= a \div d
<1> DEFINE q == a \div d
<1>1. q \in Nat /\ a < d * q + d
  BY DivisionFacts, Zenon
<1>2. ASSUME q < n PROVE FALSE
  <2>1. PICK k \in Nat : n = q + 1 + k
    BY <1>1, <1>2
  <2>2. d * n = d * q + d + d * k /\ d * k \in Nat
    BY <1>1, <2>1
  <2> QED
    BY <1>1, <2>2
<1> HIDE DEF q
<1>3. n <= q
  BY <1>1, <1>2
<1> QED
  BY <1>3, Zenon DEF q

-----------------------------------------------------------------------------
(* The pages of the two sections. *)

\* .data starts at a page boundary and the image ends at one, so that the loop
\* of enable_bss_write_permissions stays inside the image.
LEMMA SectionPages ==
  /\ PageOf(data_start) \in Nat /\ EndPage \in Nat /\ PageOf(kernel_end) \in Nat
  /\ EndPage <= PageOf(kernel_end)
<1> USE LayoutAssumption
<1>1. /\ data_start \in Nat /\ bss_end \in Nat /\ kernel_end \in Nat
      /\ Page \in Nat \ {0} /\ bss_end + Page - 1 \in Nat
  OBVIOUS
<1>2. PageOf(data_start) \in Nat /\ EndPage \in Nat /\ PageOf(kernel_end) \in Nat
  BY <1>1, DivisionFacts, Zenon DEF PageOf, EndPage
<1> DEFINE k == PageOf(kernel_end)
<1>3. kernel_end = Page * k
  BY <1>1, DivisionFacts DEF PageOf
<1>4. Page * (k + 1) = Page * k + Page
  BY <1>1, <1>2
<1>5. bss_end + Page - 1 < Page * (k + 1)
  BY <1>1, <1>3, <1>4
<1>6. (bss_end + Page - 1) \div Page < k + 1
  BY <1>1, <1>2, <1>5, DivisionBelow
<1> QED
  BY <1>2, <1>6 DEF EndPage, PageOf

\* Each byte of .bss is in a page that the loop comes to: the rounding of
\* bss_end in enable_bss_write_permissions takes in the last, partly used page.
LEMMA BssPages ==
  ASSUME NEW a \in bss_start .. (bss_end - 1)
  PROVE  PageOf(a) \in PageOf(data_start) .. (EndPage - 1)
<1>1. /\ a \in Nat /\ data_start \in Nat /\ bss_end \in Nat
      /\ Page \in Nat \ {0} /\ bss_end + Page - 1 \in Nat
      /\ data_start <= a /\ a <= bss_end - 1
  BY LayoutAssumption
<1> DEFINE p == PageOf(a)
           s == PageOf(data_start)
<1>2. /\ p \in Nat /\ Page * p <= a
      /\ s \in Nat /\ Page * s <= data_start
  <2>1. p \in Nat /\ Page * p <= a
    BY <1>1, DivisionFacts, Zenon DEF PageOf
  <2>2. s \in Nat /\ Page * s <= data_start
    BY <1>1, DivisionFacts, Zenon DEF PageOf
  <2> QED
    BY <2>1, <2>2, Zenon
<1>3. s <= a \div Page
  BY <1>1, <1>2, DivisionAbove
<1>4. Page * (p + 1) = Page * p + Page
  <2> HIDE DEF p
  <2> QED
    BY <1>1, <1>2
<1>5. Page * (p + 1) <= bss_end + Page - 1
  BY <1>1, <1>2, <1>4
<1>6. p + 1 <= (bss_end + Page - 1) \div Page
  <2> HIDE DEF p
  <2> QED
    BY <1>1, <1>2, <1>5, DivisionAbove
<1>7. s <= p /\ p + 1 <= EndPage
  BY <1>3, <1>6, Zenon DEF EndPage, PageOf
<1> QED
  BY <1>2, <1>7, SectionPages

-----------------------------------------------------------------------------
(* The inductive invariant. *)

KTypeOK ==
  /\ pc \in {"enable", "halted", "flush", "first", "clear", "done", "fault"}
  /\ va \in PageOf(data_start) .. EndPage
  /\ i \in Nat
  /\ leaf \in [Pages -> {0, 1, B, B * B}]
  /\ writable \in [Pages -> BOOLEAN]
  /\ tlb \subseteq [pages : SUBSET Pages, w : BOOLEAN]

\* The pages of a leaf have one entry between them, and so one W flag.
LeavesAgree ==
  \A p \in Pages : leaf[p] # 0 =>
    \A q \in LeafOf(p) : leaf[q] = leaf[p] /\ writable[q] = writable[p]

\* The pages the first loop has passed are writable, and it passes all of them
\* unless it meets one that is not mapped.
PassedWritable ==
  /\ \A p \in PageOf(data_start) .. (va - 1) : writable[p]
  /\ pc = "halted" => va < EndPage /\ leaf[va] = 0
  /\ pc \notin {"enable", "halted"} => va = EndPage

\* After the write of CR3 the processor has cached what the tables say.
TlbFresh ==
  pc \in {"first", "clear", "done"} => \A t \in tlb : \A q \in t.pages : t.w = writable[q]

\* The bytes behind the second loop.
Cleared == {a \in bss_start .. (bss_end - 1) : a = bss_start \/ a < bss_start + i}

ClearedSoFar ==
  /\ pc \in {"enable", "halted", "flush", "first"} => i = 0 /\ zeroed = {}
  /\ pc = "clear" => zeroed = Cleared
  /\ pc = "done" => zeroed = bss_start .. (bss_end - 1)

KInv ==
  /\ KTypeOK /\ LeavesAgree /\ PassedWritable /\ TlbFresh /\ ClearedSoFar
  /\ NoWriteFault

-----------------------------------------------------------------------------
(* What the steps do. *)

\* The pages of .data and .bss are pages of the image.
LEMMA LoopPages ==
  /\ PageOf(data_start) <= EndPage
  /\ \A p \in PageOf(data_start) .. (EndPage - 1) : p \in Pages
<1>1. bss_start \in bss_start .. (bss_end - 1)
  BY LayoutAssumption
<1>2. PageOf(bss_start) \in PageOf(data_start) .. (EndPage - 1)
  BY <1>1, BssPages, Zenon
<1> QED
  BY <1>2, SectionPages DEF Pages

\* A write to .bss succeeds once the first loop is done and the TLB was emptied.
LEMMA BssCanBeWritten ==
  ASSUME KInv, pc \in {"first", "clear"}, NEW a \in bss_start .. (bss_end - 1)
  PROVE  CanWrite(a)
<1>1. va = EndPage
  BY Zenon DEF KInv, PassedWritable
<1>2. PageOf(a) \in PageOf(data_start) .. (va - 1)
  BY <1>1, BssPages, Zenon
<1>3. writable[PageOf(a)]
  BY <1>2, Zenon DEF KInv, PassedWritable
<1>4. \A t \in tlb : PageOf(a) \in t.pages => t.w
  BY <1>3, Zenon DEF KInv, TlbFresh
<1> QED
  BY <1>3, <1>4, Zenon DEF CanWrite

\* make_page_writable_minimal sets the W flag of the whole leaf of its page and
\* takes none away.
LEMMA MakeWritable ==
  ASSUME KTypeOK, LeavesAgree, NEW p \in Pages, leaf[p] # 0,
         make_page_writable_minimal(p), leaf' = leaf
  PROVE  /\ writable' \in [Pages -> BOOLEAN]
         /\ writable'[p]
         /\ \A q \in Pages : writable[q] => writable'[q]
         /\ LeavesAgree'
         /\ tlb' \subseteq tlb
<1>1. p \in LeafOf(p)
  BY Zenon DEF LeafOf
<1>2. CASE writable[p] /\ UNCHANGED <<writable, tlb>>
  BY <1>2, Zenon DEF KTypeOK, LeavesAgree, LeafOf
<1>3. CASE /\ ~writable[p]
           /\ writable' = [q \in Pages |-> writable[q] \/ q \in LeafOf(p)]
           /\ tlb' = Invlpg(p)
  <2>1. /\ writable' \in [Pages -> BOOLEAN] /\ writable'[p]
        /\ \A q \in Pages : writable[q] => writable'[q]
    BY <1>1, <1>3, Zenon DEF KTypeOK
  <2>2. ASSUME NEW q \in Pages, leaf[q] # 0, NEW r \in LeafOf(q)
        PROVE  leaf[r] = leaf[q] /\ writable'[r] = writable'[q]
    <3>1. r \in Pages /\ leaf[r] = leaf[q] /\ writable[r] = writable[q]
      BY <2>2, Zenon DEF LeavesAgree, LeafOf
    <3>2. r \in LeafOf(p) <=> q \in LeafOf(p)
      BY <2>2, <3>1, Zenon DEF LeavesAgree, LeafOf
    <3> QED
      BY <1>3, <3>1, <3>2, Zenon
  <2>3. LeavesAgree'
    BY <2>2, Zenon DEF LeavesAgree, LeafOf
  <2>4. tlb' \subseteq tlb
    BY <1>3, Zenon DEF Invlpg
  <2> QED
    BY <2>1, <2>3, <2>4, Zenon
<1> QED
  BY <1>2, <1>3, Zenon DEF make_page_writable_minimal

-----------------------------------------------------------------------------
(* The invariant holds at first and is kept by every step. *)

LEMMA KInitInv == KInit => KInv
<1> SUFFICES ASSUME KInit PROVE KInv
  BY Zenon
<1>1. KTypeOK
  BY LoopPages, SectionPages DEF KInit, BootMapping, KTypeOK
<1>2. LeavesAgree
  BY Zenon DEF KInit, BootMapping, LeavesAgree, LeafOf
<1>3. PassedWritable /\ TlbFresh /\ ClearedSoFar /\ NoWriteFault
  BY SectionPages DEF KInit, PassedWritable, TlbFresh, ClearedSoFar, NoWriteFault
<1> QED
  BY <1>1, <1>2, <1>3, Zenon DEF KInv

LEMMA KNextInv == KInv /\ [KNext]_kvars => KInv'
<1> SUFFICES ASSUME KInv, [KNext]_kvars PROVE KInv'
  BY Zenon
<1> USE DEF KInv
<1>1. CASE CpuFill
  <2>1. PICK p \in Pages :
          leaf[p] # 0 /\ tlb' = {[pages |-> LeafOf(p), w |-> writable[p]]}
    BY <1>1, Zenon DEF CpuFill
  <2>2. UNCHANGED <<pc, va, i, leaf, writable, zeroed>>
    BY <1>1, Zenon DEF CpuFill
  <2>3. KTypeOK'
    <3>1. LeafOf(p) \in SUBSET Pages /\ writable[p] \in BOOLEAN
      BY Zenon DEF LeafOf, KTypeOK
    <3>2. tlb' \subseteq [pages : SUBSET Pages, w : BOOLEAN]
      BY <2>1, <3>1
    <3> QED
      BY <2>2, <3>2, Zenon DEF KTypeOK, PageOf, EndPage, Pages
  <2>4. TlbFresh'
    BY <2>1, <2>2 DEF TlbFresh, LeavesAgree
  <2> QED
    BY <2>2, <2>3, <2>4, Zenon DEF LeavesAgree, LeafOf, PassedWritable, ClearedSoFar, Cleared,
                            NoWriteFault
<1>2. CASE enable_bss_write_permissions
  <2>1. pc = "enable" /\ UNCHANGED <<i, leaf, zeroed>>
    BY <1>2, Zenon DEF enable_bss_write_permissions
  <2>2. CASE /\ va < EndPage /\ leaf[va] # 0
             /\ make_page_writable_minimal(va)
             /\ va' = va + 1 /\ pc' = pc
    <3>1. va \in Pages
      BY <2>2, LoopPages, SectionPages DEF KTypeOK
    <3>2. /\ writable' \in [Pages -> BOOLEAN] /\ writable'[va]
          /\ \A q \in Pages : writable[q] => writable'[q]
          /\ LeavesAgree' /\ tlb' \subseteq tlb
      BY <2>1, <2>2, <3>1, MakeWritable, Zenon
    <3>3. KTypeOK'
      BY <2>1, <2>2, <3>2, SectionPages DEF KTypeOK
    <3>4. PassedWritable'
      <4>1. ASSUME NEW p \in PageOf(data_start) .. (va' - 1) PROVE writable'[p]
        <5>1. p \in Pages
          BY <2>2, LoopPages, SectionPages DEF KTypeOK
        <5>2. CASE p = va
          BY <3>2, <5>2, Zenon
        <5>3. CASE p # va
          <6>1. p \in PageOf(data_start) .. (va - 1)
            BY <2>2, <5>3, SectionPages DEF KTypeOK
          <6> QED
            BY <3>2, <5>1, <6>1, Zenon DEF PassedWritable
        <5> QED
          BY <5>2, <5>3, Zenon
      <4> QED
        BY <2>1, <2>2, <4>1, Zenon DEF PassedWritable
    <3> QED
      BY <2>1, <2>2, <3>2, <3>3, <3>4, Zenon DEF TlbFresh, ClearedSoFar, NoWriteFault
  <2>3. CASE va < EndPage /\ leaf[va] = 0 /\ pc' = "halted" /\ UNCHANGED <<va, writable, tlb>>
    BY <2>1, <2>3, Zenon DEF KTypeOK, LeavesAgree, LeafOf, PassedWritable, TlbFresh, ClearedSoFar,
                      NoWriteFault
  <2>4. CASE va >= EndPage /\ pc' = "flush" /\ UNCHANGED <<va, writable, tlb>>
    <3>1. va' = EndPage
      BY <2>4, SectionPages DEF KTypeOK
    <3> QED
      BY <2>1, <2>4, <3>1, Zenon DEF KTypeOK, LeavesAgree, LeafOf, PassedWritable, TlbFresh,
                              ClearedSoFar, NoWriteFault
  <2> QED
    BY <1>2, <2>2, <2>3, <2>4, Zenon DEF enable_bss_write_permissions
<1>3. CASE Flush
  BY <1>3, Zenon DEF Flush, KTypeOK, LeavesAgree, LeafOf, PassedWritable, TlbFresh, ClearedSoFar,
              NoWriteFault
<1>4. CASE ClearFirst
  <2>1. bss_start \in bss_start .. (bss_end - 1)
    BY LayoutAssumption
  <2>2. CanWrite(bss_start)
    BY <1>4, <2>1, BssCanBeWritten, Zenon DEF ClearFirst
  <2>3. /\ pc = "first" /\ zeroed' = zeroed \cup {bss_start} /\ pc' = "clear"
        /\ UNCHANGED <<va, i, leaf, writable, tlb>>
    BY <1>4, <2>2, Zenon DEF ClearFirst, Clear
  <2>4. zeroed' = Cleared'
    BY <2>1, <2>3 DEF ClearedSoFar, Cleared
  <2> QED
    BY <2>3, <2>4, Zenon DEF KTypeOK, LeavesAgree, LeafOf, PassedWritable, TlbFresh, ClearedSoFar,
                      NoWriteFault
<1>5. CASE ClearChunk
  <2>1. pc = "clear" /\ UNCHANGED <<va, leaf, writable, tlb>> /\ zeroed = Cleared
    BY <1>5, Zenon DEF ClearChunk, ClearedSoFar
  <2>2. CASE i < bss_size /\ i' = i + Page
             /\ Clear((bss_start + i) .. (bss_start + i + Chunk - 1), "clear")
    <3>1. /\ (bss_start + i) .. (bss_start + i + Chunk - 1) \subseteq bss_start .. (bss_end - 1)
          /\ \A a \in bss_start .. (bss_end - 1) :
               a \in (bss_start + i) .. (bss_start + i + Chunk - 1)
                 <=> a >= bss_start + i /\ a < bss_start + i'
      <4>1. /\ bss_start \in Nat /\ bss_end \in Nat /\ Page \in Nat /\ i \in Nat
            /\ i < bss_end - bss_start /\ i' = i + Page
        BY <2>2, LayoutAssumption DEF bss_size, KTypeOK
      <4>2. Chunk = IF (bss_end - bss_start) - i < Page THEN (bss_end - bss_start) - i ELSE Page
        BY Zenon DEF Chunk, bss_size
      <4>3. /\ Chunk \in Nat /\ Chunk <= Page
            /\ (Chunk = Page /\ bss_start + i + Chunk <= bss_end) \/ bss_start + i + Chunk = bss_end
        BY <4>1, <4>2
      <4> QED
        BY <4>1, <4>3
    <3>2. \A a \in (bss_start + i) .. (bss_start + i + Chunk - 1) : CanWrite(a)
      BY <2>1, <3>1, BssCanBeWritten, Zenon
    <3>3. /\ zeroed' = zeroed \cup ((bss_start + i) .. (bss_start + i + Chunk - 1))
          /\ pc' = "clear"
      BY <2>2, <3>2, Zenon DEF Clear
    <3>4. i' \in Nat
      BY <2>2, LayoutAssumption DEF KTypeOK
    <3>5. zeroed' = Cleared'
      BY <2>1, <2>2, <3>1, <3>3, <3>4, LayoutAssumption DEF Cleared, KTypeOK
    <3> QED
      BY <2>1, <3>3, <3>4, <3>5, Zenon DEF KTypeOK, LeavesAgree, LeafOf, PassedWritable, TlbFresh,
                                    ClearedSoFar, NoWriteFault
  <2>3. CASE i >= bss_size /\ pc' = "done" /\ UNCHANGED <<i, zeroed>>
    <3>1. zeroed' = bss_start .. (bss_end - 1)
      BY <2>1, <2>3, LayoutAssumption DEF Cleared, bss_size, KTypeOK
    <3> QED
      BY <2>1, <2>3, <3>1, Zenon DEF KTypeOK, LeavesAgree, LeafOf, PassedWritable, TlbFresh,
                              ClearedSoFar, NoWriteFault
  <2> QED
    BY <1>5, <2>2, <2>3, Zenon DEF ClearChunk
<1>6. CASE UNCHANGED kvars
  BY <1>6, Zenon DEF kvars, KTypeOK, LeavesAgree, LeafOf, PassedWritable, TlbFresh, ClearedSoFar,
              Cleared, NoWriteFault
<1> QED
  BY <1>1, <1>2, <1>3, <1>4, <1>5, <1>6, Zenon DEF KNext, KernelStep

-----------------------------------------------------------------------------
\* KInv holds throughout the boot code of mm/paging.c: how far
\* enable_bss_write_permissions and the clearing loop have come decides which
\* pages are writable, what may be cached and which bytes are zero.
THEOREM KernelPagingInvariant == KSpec => []KInv
  BY KInitInv, KNextInv, PTL DEF KSpec

\* activate_kernel_page_tables never writes to a read-only page while it clears
\* .bss, with any page sizes and section layout and whatever was cached before
\* CR3 is written.
THEOREM NoWriteFaultTheorem == KSpec => []NoWriteFault
<1>1. KInv => NoWriteFault
  BY Zenon DEF KInv
<1> QED
  BY <1>1, KernelPagingInvariant, PTL

\* When activate_kernel_page_tables is done the bytes it cleared are those of
\* .bss, no more and no fewer, also if .bss ends inside a page.
THEOREM BssClearedExactlyTheorem == KSpec => []BssClearedExactly
<1>1. KInv => BssClearedExactly
  BY Zenon DEF KInv, ClearedSoFar, BssClearedExactly
<1> QED
  BY <1>1, KernelPagingInvariant, PTL

\* The loop ends behind the page of the last byte of .bss.
LEMMA LastPage == EndPage = PageOf(bss_end - 1) + 1
<1> DEFINE b == bss_end - 1
           p == PageOf(b)
<1>1. b \in Nat /\ Page \in Nat \ {0} /\ b + Page \in Nat
  BY LayoutAssumption
<1>2. p \in Nat /\ Page * p <= b /\ b < Page * p + Page
  <2> HIDE DEF b
  <2> QED
    BY <1>1, DivisionFacts, Zenon DEF PageOf
<1>3. bss_end + Page - 1 = b + Page
  BY LayoutAssumption
<1>4. p + 1 <= (b + Page) \div Page /\ (b + Page) \div Page < p + 2
  <2> HIDE DEF b, p
  <2>1. Page * (p + 1) = Page * p + Page /\ Page * (p + 2) = Page * p + Page + Page
    BY <1>1, <1>2
  <2>2. Page * (p + 1) <= b + Page /\ b + Page < Page * (p + 2)
    BY <1>1, <1>2, <2>1
  <2> QED
    BY <1>1, <1>2, <2>2, DivisionAbove, DivisionBelow
<1> QED
  BY <1>1, <1>2, <1>3, <1>4, SectionPages DEF EndPage, PageOf

\* The machine is stopped only for a page of .data or .bss that is not mapped.
HaltsOnlyUnmapped ==
  pc = "halted" => \E p \in PageOf(data_start) .. PageOf(bss_end - 1) : leaf[p] = 0

\* enable_bss_write_permissions stops the machine only for a page of .data or
\* .bss that the boot loader did not map: never for a page behind bss_end.
THEOREM HaltsOnlyUnmappedTheorem == KSpec => []HaltsOnlyUnmapped
<1>1. PageOf(bss_end - 1) \in Int /\ EndPage = PageOf(bss_end - 1) + 1
  BY LayoutAssumption, LastPage DEF PageOf
<1>2. KInv => HaltsOnlyUnmapped
  BY <1>1, SectionPages DEF KInv, KTypeOK, PassedWritable, HaltsOnlyUnmapped
<1> QED
  BY <1>2, KernelPagingInvariant, PTL
=============================================================================
