------------------------------- MODULE UserAs -------------------------------
(***************************************************************************)
(* User address spaces.  mm/user_as.c builds a root of its own for each    *)
(* process, with the high half of a template taken from the kernel's root; *)
(* mm/user_mapping.c maps a program into the address space that is active. *)
(* The kernel goes on mapping pages with mm/vmm.c meanwhile, until a call  *)
(* of it strays.  These two files use physical memory through the boot     *)
(* loader's direct map (phys_to_virt of mm/paging.c), which has all of it. *)
(* What the pages hold (the code that is copied) is left out.              *)
(***************************************************************************)
EXTENDS Vmm, SequencesExt

CONSTANTS
  CODE_VA,     \* 0x10000, the code page of create_user_process
  STACK_VA,    \* 0x800000, the first of its two stack pages
  UM_CODE_VA,  \* 0x400000, the code page of setup_user_address_space
  MaxProcs     \* bound on the processes created

VARIABLES
  kernel_pml4_template,  \* the template, or NoPage
  procs,                 \* roots that create_user_process returned
  staged                 \* the roots in which setup_user_address_space succeeded
                         \* and make_code_page_executable has not been called

asVars == <<kernel_pml4_template, procs, staged>>
userVars == <<vmmVars, asVars>>

\* The addresses are in the low half, in page tables of their own but for the
\* two stack pages, and no other page of these is next to the stack.
ASSUME UserAssumption ==
  /\ {CODE_VA, STACK_VA, UM_CODE_VA} \subseteq 0 .. ((B \div 2) * B * B * B - 3)
  /\ STACK_VA > 0 /\ STACK_VA % B = 0
  /\ {CODE_VA, UM_CODE_VA} \cap ((STACK_VA - 1) .. (STACK_VA + 2)) = {}
  /\ CODE_VA # UM_CODE_VA
  /\ MaxProcs \in Nat

UTable == {"P", "W", "U"}
RX == {"P", "U"}
RW == {"P", "U", "W", "NX"}
RWX == {"P", "U", "W"}        \* USER_PAGE_WRITE

UserInit ==
  /\ VmmInit
  /\ kernel_pml4_template = NoPage
  /\ procs = {}
  /\ staged = {}

-----------------------------------------------------------------------------
\* The entries of a root's high half, the low half empty.
HighHalfOf(root) == [i \in Idx |-> IF i \in High THEN mem[root][i] ELSE Zero]

init_kernel_pml4_template ==
  /\ kernel_pml4_template = NoPage
  /\ pool # <<>>
  /\ kernel_pml4_template' = Head(pool)
  /\ mem' = [mem EXCEPT ![Head(pool)] = HighHalfOf(cr3)]
  /\ pool' = Tail(pool)
  /\ UNCHANGED <<cr3, tlb, strayed, procs, staged>>

-----------------------------------------------------------------------------
\* The first n pages of the pool, or as many as there are, zeroed.
TakeZeroed(s, n) ==
  LET k == IF n <= Len(s.pool) THEN n ELSE Len(s.pool)
      taken == {s.pool[j] : j \in 1 .. k}
  IN  [s EXCEPT !.mem = [f \in Frames |-> IF f \in taken THEN EmptyTable ELSE @[f]],
                !.pool = SubSeq(@, k + 1, Len(@))]

user_as_create_empty(s) ==
  [s EXCEPT !.mem[Head(s.pool)] = EmptyTable,
            !.pool = Tail(@),
            !.at = Head(s.pool)]

\* A new root with the template's entries; not called without a free page.
user_as_create(s) ==
  [s EXCEPT !.mem[Head(s.pool)] = HighHalfOf(kernel_pml4_template),
            !.pool = Tail(@),
            !.at = Head(s.pool)]

\* The mappings of a program: code page, then the two stack pages.
Program(codeVa, codeFlags, pages) ==
  << [va |-> codeVa,       leaf |-> [frame |-> pages[1], flags |-> codeFlags]],
     [va |-> STACK_VA,     leaf |-> [frame |-> pages[2], flags |-> RW]],
     [va |-> STACK_VA + 1, leaf |-> [frame |-> pages[3], flags |-> RW]] >>

\* The root is made, then three pages are taken, all that are left if there are
\* fewer, then mapped.  A failure returns at once and gives nothing back.
create_user_process ==
  /\ Cardinality(procs) < MaxProcs
  /\ kernel_pml4_template # NoPage
  /\ pool # <<>>
  /\ LET as    == user_as_create(Phys)
         pages == as.pool
         taken == TakeZeroed(as, 3)
         r     == MapSeq(taken, as.at, Program(CODE_VA, RX, pages), UTable, {"U"})
     IN  IF Len(pages) < 3
         THEN Becomes(taken) /\ UNCHANGED procs
         ELSE /\ Becomes(r.s)
              /\ procs' = IF r.done = 3 THEN procs \cup {as.at} ELSE procs
  /\ UNCHANGED <<cr3, tlb, strayed, kernel_pml4_template, staged>>

\* CR3 is written before user mode is entered.
switch_to_user_process(root) ==
  /\ WriteCr3(root)
  /\ UNCHANGED <<mem, pool, strayed, asVars>>

-----------------------------------------------------------------------------
\* Three pages are taken as they are and mapped in the active address space,
\* the code page writable.  Pages are given back when there are not three of
\* them, and not when a mapping fails.
setup_user_address_space ==
  /\ IF Len(pool) < 3
     THEN /\ pool' = Reverse(pool)
          /\ UNCHANGED <<mem, cr3, tlb, staged>>
     ELSE LET taken == [Phys EXCEPT !.pool = SubSeq(@, 4, Len(@))]
              r     == MapSeq(taken, cr3, Program(UM_CODE_VA, RWX, pool), UTable, {"U"})
          IN  /\ Becomes(r.s)
              /\ IF r.done = 0 THEN UNCHANGED <<cr3, tlb>> ELSE WriteCr3(cr3)
              /\ staged' = IF r.done = 3 THEN staged \cup {cr3} ELSE staged
  /\ UNCHANGED <<strayed, kernel_pml4_template, procs>>

\* The code page loses W and NX.  The function takes it for granted that the
\* tables on the way to the page are there.
make_code_page_executable ==
  /\ Present(Path(mem, cr3, UM_CODE_VA)[3])
  /\ LET pt == Path(mem, cr3, UM_CODE_VA)[3].frame IN
     mem' = [mem EXCEPT ![pt][PT_INDEX(UM_CODE_VA)].flags = @ \ {"W", "NX"}]
  /\ Invlpg({UM_CODE_VA})
  /\ staged' = staged \ {cr3}
  /\ UNCHANGED <<pool, cr3, strayed, kernel_pml4_template, procs>>

UserVas == {CODE_VA, STACK_VA, STACK_VA + 1, UM_CODE_VA}

UserNext ==
  \/ VmmNext /\ UNCHANGED asVars
  \/ /\ ~strayed
     /\ \/ CpuFill(UserVas) /\ UNCHANGED asVars
        \/ init_kernel_pml4_template
        \/ create_user_process
        \/ \E root \in procs : switch_to_user_process(root)
        \/ setup_user_address_space
        \/ make_code_page_executable

UserSpec == UserInit /\ [][UserNext]_userVars

-----------------------------------------------------------------------------
Roots == procs \cup {current_pml4}

\* As long as no call of vmm.c has strayed, what user mode can reach in one
\* address space are pages of the pool that were taken from it, that hold no page
\* table of any address space, and that user mode cannot reach in another.
UserPagesIsolated ==
  ~strayed =>
    \A r \in Roots :
      LET reach == UserPages(mem, r) IN
      /\ reach \subseteq Frames \ ToSet(pool)
      /\ reach \cap {kernel_pml4_template} = {}
      /\ \A q \in Roots :
           /\ reach \cap Tables(mem, q) = {}
           /\ q # r => reach \cap UserPages(mem, q) = {}

\* A process that create_user_process returned keeps its code page executable
\* and not writable and its stack pages writable and not executable, with U set
\* on all four levels, and the pages around the stack stay unmapped, whatever
\* is mapped afterwards, as long as no call of vmm.c has strayed.
ProcessLayout ==
  ~strayed =>
    \A r \in procs :
      /\ LET a == Access(mem, r, CODE_VA) IN a.user /\ a.exec /\ ~a.write
      /\ \A va \in {STACK_VA, STACK_VA + 1} :
           LET a == Access(mem, r, va) IN a.user /\ a.write /\ ~a.exec
      /\ \A va \in {STACK_VA - 1, STACK_VA + 2} : ~Present(Leaf(mem, r, va))

\* "sharing kernel high-half" (user_as.c) goes as far as the template's entries,
\* as long as no call of vmm.c has strayed: a page that the kernel maps in the
\* high half is mapped alike in every process, whenever it is mapped, if the PML4
\* entry it comes under was in use when the template was taken.  A page under an
\* entry that came later is mapped in no process.
KernelHalfShared ==
  ~strayed =>
    \A r \in procs, va \in KVas :
      IF Present(mem[kernel_pml4_template][PML4_INDEX(va)])
      THEN Access(mem, r, va) = Access(mem, current_pml4, va)
      ELSE ~Present(Leaf(mem, r, va))

\* "Proper cache coherency and invalidation" (src/README.md), with its one
\* exception, as long as no call of vmm.c has strayed: a translation that the
\* processor has cached is the one that the active tables give; or it is a global
\* one of a page that the kernel maps under a PML4 entry that the process lacks,
\* which a switch of CR3 leaves in place, and then it is what the kernel's tables
\* give, whatever has changed in them since.
TlbNeverStale ==
  ~strayed /\ tlb # NoTlb =>
    \/ CachedFrom(cr3)
    \/ /\ tlb.access.global /\ ~Present(mem[cr3][PML4_INDEX(tlb.va)])
       /\ CachedFrom(current_pml4)

\* "W^X enforcement" (make_code_page_executable): in an address space in which no
\* program is being staged, no page is both writable and executable in user mode.
WriteXorExecute ==
  ~strayed =>
    \A r \in Roots \ staged, va \in UserVas :
      LET a == Access(mem, r, va) IN ~(a.user /\ a.write /\ a.exec)

=============================================================================
