---------------------------- MODULE KernelPaging ----------------------------
(***************************************************************************)
(* mm/paging.c: the first thing the boot does is to make the pages of      *)
(* .data and .bss writable in the tables the boot loader left, of whatever *)
(* page sizes it chose, and then to clear .bss.                            *)
(*                                                                         *)
(* A mapping is given by its leaves: leaf[p] is the number of pages mapped *)
(* by the entry that maps page p (1, B or B * B for 4 KB, 2 MB and 1 GB,   *)
(* 0 if p is not mapped) and writable[p] the W flag of that entry.  The    *)
(* entries above a leaf are taken to be writable, as the boot loader makes *)
(* them; the code never looks at their flags.  An address is a byte, Page  *)
(* bytes to a page.  tlb holds one cached translation or none.             *)
(***************************************************************************)
EXTENDS Integers

CONSTANTS
  B, Page,
  data_start, bss_start, bss_end, kernel_end    \* from linker.ld

ASSUME LayoutAssumption ==
  /\ B \in Nat \ {0, 1}
  /\ Page \in Nat \ {0}
  /\ {data_start, bss_start, bss_end, kernel_end} \subseteq Nat
  /\ data_start <= bss_start
  /\ bss_start < bss_end
  /\ bss_end <= kernel_end
  /\ \A a \in {data_start, bss_start, kernel_end} : a % Page = 0

VARIABLES pc, va, i, leaf, writable, tlb, zeroed

kvars == <<pc, va, i, leaf, writable, tlb, zeroed>>

PageOf(a) == a \div Page
Pages == 0 .. (PageOf(kernel_end) - 1)

\* The pages that share the leaf of page p.
LeafOf(p) == {q \in Pages : q \div leaf[p] = p \div leaf[p]}

\* All ways to map the kernel.
BootMapping ==
  /\ leaf \in {f \in [Pages -> {0, 1, B, B * B}] :
                 \A p, q \in Pages :
                   f[p] # 0 /\ q \div f[p] = p \div f[p] => f[q] = f[p]}
  /\ writable \in {f \in [Pages -> BOOLEAN] :
                     \A p \in Pages :
                       IF leaf[p] = 0 THEN ~f[p] ELSE \A q \in LeafOf(p) : f[q] = f[p]}

KInit ==
  /\ pc = "enable"
  /\ va = PageOf(data_start)
  /\ i = 0
  /\ BootMapping
  /\ tlb = {}
  /\ zeroed = {}

-----------------------------------------------------------------------------
\* The processor may cache a translation at any time.
CpuFill ==
  /\ \E p \in Pages :
       leaf[p] # 0 /\ tlb' = {[pages |-> LeafOf(p), w |-> writable[p]]}
  /\ UNCHANGED <<pc, va, i, leaf, writable, zeroed>>

\* invlpg with the first address of the leaf of p.
Invlpg(p) == {t \in tlb : p - (p % leaf[p]) \notin t.pages}

\* make_page_writable_minimal for a page that is mapped.
make_page_writable_minimal(p) ==
  \/ writable[p] /\ UNCHANGED <<writable, tlb>>
  \/ /\ ~writable[p]
     /\ writable' = [q \in Pages |-> writable[q] \/ q \in LeafOf(p)]
     /\ tlb' = Invlpg(p)

EndTruncated == PageOf(bss_end)

EndOneMore == PageOf(bss_end + Page - 1) + 1

\* The page at which the loop ends: bss_end rounded up.
EndPage == PageOf(bss_end + Page - 1)

\* The loop of enable_bss_write_permissions; a page that is not mapped stops
\* the machine.
enable_bss_write_permissions ==
  /\ pc = "enable"
  /\ \/ /\ va < EndPage
        /\ leaf[va] # 0
        /\ make_page_writable_minimal(va)
        /\ va' = va + 1
        /\ pc' = pc
     \/ /\ va < EndPage
        /\ leaf[va] = 0
        /\ pc' = "halted"
        /\ UNCHANGED <<va, writable, tlb>>
     \/ /\ va >= EndPage
        /\ pc' = "flush"
        /\ UNCHANGED <<va, writable, tlb>>
  /\ UNCHANGED <<i, leaf, zeroed>>

\* activate_kernel_page_tables: CR3 is written back, which empties the TLB.
Flush ==
  /\ pc = "flush"
  /\ tlb' = {}
  /\ pc' = "first"
  /\ UNCHANGED <<va, i, leaf, writable, zeroed>>

\* A write to address a succeeds in the tables and in the cache.
CanWrite(a) ==
  /\ writable[PageOf(a)]
  /\ \A t \in tlb : PageOf(a) \in t.pages => t.w

\* A loop that writes zero to the bytes of a set, and then goes on at next.
Clear(bytes, next) ==
  IF \A a \in bytes : CanWrite(a)
  THEN zeroed' = zeroed \cup bytes /\ pc' = next
  ELSE pc' = "fault" /\ UNCHANGED zeroed

\* The first byte is cleared on its own.
ClearFirst ==
  /\ pc = "first"
  /\ Clear({bss_start}, "clear")
  /\ UNCHANGED <<va, i, leaf, writable, tlb>>

ChunkAlways == Page

bss_size == bss_end - bss_start

\* The size of the chunk at offset i.
Chunk == IF bss_size - i < Page THEN bss_size - i ELSE Page

\* The clearing loop, a chunk at a time.
ClearChunk ==
  /\ pc = "clear"
  /\ \/ /\ i < bss_size
        /\ Clear((bss_start + i) .. (bss_start + i + Chunk - 1), "clear")
        /\ i' = i + Page
     \/ /\ i >= bss_size
        /\ pc' = "done"
        /\ UNCHANGED <<i, zeroed>>
  /\ UNCHANGED <<va, leaf, writable, tlb>>

KernelStep == enable_bss_write_permissions \/ Flush \/ ClearFirst \/ ClearChunk

KNext == KernelStep \/ CpuFill

\* The kernel goes on executing.
KSpec == KInit /\ [][KNext]_kvars /\ WF_kvars(KernelStep)

-----------------------------------------------------------------------------
\* The clearing of .bss never writes to a page that is read-only, whatever
\* page sizes the image is mapped with and whatever the processor has cached:
\* this early in the boot idt_init has not run and nothing handles a page fault.
NoWriteFault == pc # "fault"

\* Once activate_kernel_page_tables is done, each byte of .bss was cleared and
\* no byte of another section was, with a .bss that ends inside a page.
BssClearedExactly == pc = "done" => zeroed = bss_start .. (bss_end - 1)

\* If every page of .data and .bss is mapped, the permission fix and the
\* clearing come to their end: the boot does not stop because of a page behind
\* them.
MappedImageBoots ==
  (\A p \in PageOf(data_start) .. PageOf(bss_end - 1) : leaf[p] # 0) ~> pc = "done"
=============================================================================
