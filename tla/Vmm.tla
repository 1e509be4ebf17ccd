-------------------------------- MODULE Vmm ---------------------------------
(***************************************************************************)
(* The kernel's mapping functions, mm/vmm.c.  They work on current_pml4,   *)
(* the root that vmm_init found in CR3, whatever CR3 holds later.          *)
(*                                                                         *)
(* A page of physical memory is used at its number plus KERNEL_VMA_BASE.   *)
(* That reaches the page only where the active tables map the address to   *)
(* it.  A call that touches a table it does not reach faults or goes to    *)
(* another page: strayed records it, and the model ends there.  What it    *)
(* says of the memory, it says as long as no call has strayed.             *)
(*                                                                         *)
(* tlb stands for one translation that the processor may have cached, any  *)
(* one: the functions invalidate page by page, so that what holds of one   *)
(* cached translation holds of each.                                       *)
(***************************************************************************)
EXTENDS PageTables

CONSTANTS
  KERNEL_VMA_BASE,  \* the page at which vmm.c expects physical memory
  current_pml4,  \* the root of the kernel's tables
  BootMem,       \* physical memory as the boot loader leaves it
  BootPool,      \* the pages of the allocator, in its order
  KVas,          \* pages the kernel maps
  PAddrs,        \* pages it maps them to
  KFlags,        \* flags it asks for
  Counts         \* page counts of the calls, 1 for the ones on a page

\* Physical memory and the pages of a sequence.
Memories == [Frames -> [Idx -> Entries]]
PagesOf(p) == {p[k] : k \in DOMAIN p}

\* The boot loader's tables form a tree under one root, of pages that the
\* allocator does not hand out, and the allocator has no page twice.
ASSUME BootAssumption ==
  /\ current_pml4 \in Frames
  /\ BootMem \in Memories
  /\ BootPool \in Seq(Frames)
  /\ \A j, k \in DOMAIN BootPool : BootPool[j] = BootPool[k] => j = k
  /\ IsTree(BootMem, PagesOf(BootPool), Levels(BootMem, current_pml4))

\* The pages that calls can name.
Seen == UNION {va .. (va + n - 1) : va \in KVas, n \in Counts}

\* Virtual addresses have 48 bits, four indices and an offset; a call with a
\* page count may as well be made with a smaller one.
ASSUME CallAssumption ==
  /\ KERNEL_VMA_BASE \in Nat
  /\ KVas \subseteq Nat
  /\ Seen \subseteq 0 .. (B * B * B * B - 1)
  /\ PAddrs \subseteq Nat
  /\ KFlags \subseteq SUBSET {"P", "W", "U", "G", "NX"}
  /\ Counts \subseteq Nat /\ 1 \in Counts
  /\ \A n \in Counts : 1 .. n \subseteq Counts

VARIABLES mem, pool, cr3, tlb,
  strayed    \* a call has used an address that does not lead to its table

vmmVars == <<mem, pool, cr3, tlb, strayed>>

NoTlb == [va |-> -1]
KTable == {"P", "W"}

\* Physical memory, as a record, and the memory that a call leaves.
Phys == [mem |-> mem, pool |-> pool, at |-> NoPage]
Becomes(s) == mem' = s.mem /\ pool' = s.pool

\* vmm_init takes the root from CR3 and touches no table.
VmmInit ==
  /\ mem = BootMem
  /\ pool = BootPool
  /\ cr3 = current_pml4
  /\ tlb = NoTlb
  /\ strayed = FALSE

-----------------------------------------------------------------------------
\* PHYS_TO_VIRT: page f is used at KERNEL_VMA_BASE + f, which leads to it when
\* the active tables map that page to f, and writable.
Reaches(m, f) ==
  LET a == Access(m, cr3, KERNEL_VMA_BASE + f) IN
  /\ Present(Leaf(m, cr3, KERNEL_VMA_BASE + f))
  /\ a.frame = f /\ a.write

\* The tables on the way to va.
Walked(m, va) ==
  LET p == Path(m, current_pml4, va)
  IN  {current_pml4} \cup {p[k].frame : k \in {j \in 1 .. 3 : Present(p[j])}}

\* A call on va that leads from memory m to m2 reaches the tables it uses, those
\* that it makes included.
InReach(m, m2, va) == \A t \in Walked(m2, va) : Reaches(m, t)

Strays == strayed' = TRUE /\ UNCHANGED <<mem, pool, cr3, tlb>>

-----------------------------------------------------------------------------
\* The processor caches the translation of a page that is mapped.
CpuFill(vas) ==
  /\ \E va \in vas :
       /\ Present(Leaf(mem, cr3, va))
       /\ tlb' = [va |-> va, access |-> Access(mem, cr3, va)]
  /\ UNCHANGED <<mem, pool, cr3, strayed>>

\* invlpg for each page of vas.
Invlpg(vas) == tlb' = IF tlb.va \in vas THEN NoTlb ELSE tlb

WriteCr3KeepsTlb(root) == cr3' = root /\ tlb' = tlb

\* A write of CR3 drops the cached translations, the global ones excepted.
WriteCr3(root) ==
  /\ cr3' = root
  /\ tlb' = IF tlb # NoTlb /\ tlb.access.global THEN tlb ELSE NoTlb

-----------------------------------------------------------------------------
KEntry(p, f) == [frame |-> p, flags |-> f \cup {"P"}]

vmm_map_page(va, p, f) ==
  LET s == MapIn(Phys, current_pml4, va, KEntry(p, f), KTable, {}) IN
  \/ /\ InReach(mem, s.mem, va)
     /\ Becomes(s)
     /\ IF Ok(s) THEN Invlpg({va}) ELSE tlb' = tlb
     /\ UNCHANGED <<cr3, strayed>>
  \/ ~InReach(mem, s.mem, va) /\ Strays

\* vmm_unmap_page, as a function of the memory: the entry is cleared when the
\* tables down to it are there.  The tables stay.
UnmapPage(m, va) ==
  LET pd == Path(m, current_pml4, va)[3] IN
  IF Present(pd) THEN [m EXCEPT ![pd.frame][PT_INDEX(va)] = Zero] ELSE m

\* invlpg is executed for a page whose tables are there only.
Flushed(m, vas) == {va \in vas : Present(Path(m, current_pml4, va)[3])}

vmm_unmap_page(va) ==
  \/ /\ InReach(mem, mem, va)
     /\ mem' = UnmapPage(mem, va)
     /\ Invlpg(Flushed(mem, {va}))
     /\ UNCHANGED <<pool, cr3, strayed>>
  \/ ~InReach(mem, mem, va) /\ Strays

\* vmm_get_physical, called in memory m: 0 for a page that is not mapped.
vmm_get_physical(m, va) ==
  LET e == Leaf(m, current_pml4, va) IN IF Present(e) THEN e.frame ELSE 0

-----------------------------------------------------------------------------
\* The loop of vmm_unmap_pages, and of the clean-up in vmm_map_pages.
UnmapRun(m, va, n) ==
  LET loop[j \in 0 .. n] == IF j = 0 THEN m ELSE UnmapPage(loop[j - 1], va + j - 1)
  IN  loop[n]

\* The loop of vmm_map_pages, up to its end or to the page that fails.
MapRun(s, va, p, n, f) ==
  LET maps == [i \in 1 .. n |-> [va |-> va + i - 1, leaf |-> KEntry(p + i - 1, f)]]
  IN  MapSeq(s, current_pml4, maps, KTable, {})

CleanedUpFromSecond(r, va, n) ==
  IF r.done = n THEN r.s.mem ELSE UnmapRun(r.s.mem, va + 1, r.done)

\* What vmm_map_pages leaves: all n pages mapped, or those it mapped unmapped.
CleanedUp(r, va, n) ==
  IF r.done = n THEN r.s.mem ELSE UnmapRun(r.s.mem, va, r.done)

\* Each page of a run is reached in the memory that the pages before it leave.
UnmapInReach(m, va, n) ==
  \A j \in 1 .. n : LET mj == UnmapRun(m, va, j - 1) IN InReach(mj, mj, va + j - 1)

MapInReach(va, p, n, f) ==
  LET r == MapRun(Phys, va, p, n, f) IN
  /\ \A j \in 1 .. n : j <= r.done + 1 =>
       InReach(MapRun(Phys, va, p, j - 1, f).s.mem, MapRun(Phys, va, p, j, f).s.mem, va + j - 1)
  /\ r.done < n => UnmapInReach(r.s.mem, va, r.done)

vmm_map_pages(va, p, n, f) ==
  LET r == MapRun(Phys, va, p, n, f) IN
  \/ /\ MapInReach(va, p, n, f)
     /\ mem' = CleanedUp(r, va, n)
     /\ pool' = r.s.pool
     /\ Invlpg(va .. (va + r.done - 1))
     /\ UNCHANGED <<cr3, strayed>>
  \/ ~MapInReach(va, p, n, f) /\ Strays

vmm_unmap_pages(va, n) ==
  \/ /\ UnmapInReach(mem, va, n)
     /\ mem' = UnmapRun(mem, va, n)
     /\ Invlpg(Flushed(mem, va .. (va + n - 1)))
     /\ UNCHANGED <<pool, cr3, strayed>>
  \/ ~UnmapInReach(mem, va, n) /\ Strays

VmmNext ==
  /\ ~strayed
  /\ \/ CpuFill(KVas)
     \/ \E va \in KVas :
          \/ vmm_unmap_page(va)
          \/ \E p \in PAddrs, f \in KFlags : vmm_map_page(va, p, f)
          \/ \E n \in Counts :
               \/ vmm_unmap_pages(va, n)
               \/ \E p \in PAddrs, f \in KFlags : vmm_map_pages(va, p, n, f)

VmmSpec == VmmInit /\ [][VmmNext]_vmmVars

-----------------------------------------------------------------------------
\* As long as no call has strayed, the tables below the kernel's root form a
\* tree: every table hangs on one entry of the level above.  Every function that
\* walks them rests on it, and so does the clean-up of vmm_map_pages, which leaves
\* the tables it made.
TablesFormTree ==
  LET root == current_pml4
      on(x) == mem[x[1]][x[2]]
      parents(t, ts) == {x \in ts \X Idx : Present(on(x)) /\ on(x).frame = t}
      onlyOn(ts, below) == \A t \in below :
        /\ \A a, b \in parents(t, ts) : a = b
        /\ t \notin ts
  IN  ~strayed =>
        /\ onlyOn({root}, Pdpts(mem, root))
        /\ onlyOn(Pdpts(mem, root), Pds(mem, root))
        /\ onlyOn(Pds(mem, root), Pts(mem, root))

\* The cached translation is the one that the tables below root give.
CachedFrom(root) ==
  Present(Leaf(mem, root, tlb.va)) /\ tlb.access = Access(mem, root, tlb.va)

\* A translation that the processor has cached while it uses the kernel's tables
\* is the one they give, as long as no call has strayed: every change of an entry
\* in use is followed by its invlpg.
TlbCoherent == ~strayed /\ cr3 = current_pml4 /\ tlb # NoTlb => CachedFrom(current_pml4)

\* How the pages that calls can name are mapped.
KMap == [va \in Seen |-> Leaf(mem, current_pml4, va)]

KernelMap == INSTANCE AddressMap
  WITH map <- KMap, lost <- strayed, Vas <- Seen, FlagSets <- KFlags,
       Unmapped <- Zero, Entry <- KEntry

\* The mapping functions implement the abstract map: until a call strays, each
\* call changes the mapping of the pages it names and of no other page, also when
\* it has to make tables and when it runs out of them halfway.
ImplementsAddressMap == KernelMap!Spec

\* What vmm_map_pages, with the result r and the memory m2, has done to page v.
Outcome(r, m2, va, p, n, f, v) ==
  IF v \in va .. (va + r.done - 1)
  THEN IF r.done = n
       THEN /\ Leaf(m2, current_pml4, v) = KEntry(p + v - va, f)
            /\ vmm_get_physical(m2, v) = p + v - va
       ELSE Leaf(m2, current_pml4, v) = Zero /\ vmm_get_physical(m2, v) = 0
  ELSE Leaf(m2, current_pml4, v) = KMap[v]

\* vmm_map_pages called in any state in which it reaches its tables maps all its
\* pages, or it fails and the pages up to the failure are unmapped, those that
\* were mapped before the call too; no other page is changed.  So a call that
\* fails on pages that were not mapped changes no mapping.  vmm_get_physical tells
\* the outcome.
MapPagesAllOrUnmapped ==
  ~strayed =>
    \A va \in KVas, p \in PAddrs, n \in Counts, f \in KFlags :
      MapInReach(va, p, n, f) =>
        LET r == MapRun(Phys, va, p, n, f)
        IN  \A v \in Seen : Outcome(r, CleanedUp(r, va, n), va, p, n, f, v)
=============================================================================
