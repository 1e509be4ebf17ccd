# A TLA+ verification of the Myria kernel

Myria is a small x86-64 kernel (`src/os/kernel`). It boots through Limine, makes
its own data writable, sets up a page allocator, page tables, a heap, a thread
table and a system call interface, tests them, and then enters user mode in an
address space of its own. This directory holds TLA+ models of those parts, TLC
configurations that check them on small instances, and TLAPS proofs of the
central ones. `PROJECT.json` maps every definition to the source lines it stands
for and lists runs, mutants, findings, hazards and theorems.

## Inventory

The build (`os/kernel/CMakeLists.txt`, `os/Makefile`) contains less than the tree. One CPU, no
timer interrupt, no saved context is ever loaded: the built kernel is one flow
of control. What makes it hard is not parallelism but long sequences of calls,
re-entrance (threads executed by `sched_run_threads` call the scheduler),
allocations that fail halfway, caches in the processor, and fixed-width
arithmetic at the boundaries. Nothing is persisted, so there is no crash
recovery. The tree also holds an earlier kernel (`kmain.c`) with a timer
interrupt, which is modelled as well.

| Part | Source | State | Operations | What must hold |
|---|---|---|---|---|
| Page allocator | `mm/pmm_simple.c` | bump pointer, stack of 1024 freed pages, counter | alloc/free page, alloc/free run, statistics | a page has one owner; free + used = total |
| Bitmap allocator (not built) | `mm/pmm.c` | bitmap, hint, statistics | the same interface | the hint hides no free page |
| Heap | `mm/vmm.c` 187-222 | static bump pointer | `kmalloc`, `kfree` | live blocks are disjoint and inside the heap |
| Virtual memory | `mm/vmm.c` | page tables in memory, CR3, TLB | map, unmap, look up pages and runs | a call changes the pages it names only, also when it fails, for as long as it reaches its tables |
| User address spaces | `mm/user_as.c`, `mm/user_mapping.c` | PML4 template, process roots | take template, create, switch, stage a program, make code executable | processes share no page; the kernel half is shared; W^X |
| Boot paging | `mm/paging.c` | boot loader's tables, .bss | set W, flush, clear | .bss is writable and zero, and nothing else is touched |
| Scheduler | `sched/thread_minimal.c` | thread table, `current_thread`, counters | create, yield, tick, start, run (nested too), clean up | `current_thread` never dangles; tids and stacks are not shared; no thread is executed twice at once; nobody starves |
| System calls | `syscall/syscalls.c` | statistics | dispatch, eight handlers | a thread keeps its pid; blocks stay clear of stacks |
| System call entry | `arch/x86_64/syscall_entry.S`, `msr.c` | registers, stack, `saved_user_rsp` | the instructions | user state survives; arguments arrive |
| GDT, TSS, IDT | `arch/x86_64/gdt.c`, `gdt_flush.S`, `idt_minimal.c` | descriptor tables, stacks | write the tables, enter user mode, stubs, fault handler | every exception of user mode is reported; a debug exception returns |
| Boot and self tests | `minimal_test.c`, `user_init.c`, `user_payload.S` | the script, the tests' variables | calls the others in order | each part is initialised before it is used; the boot ends |
| Earlier kernel (not built) | `kmain.c`, `gdt_idt.c`, `lapic.c`, `timer.S`, `timer.c` | tick counter, local APIC, the loop's registers | initialise, interrupt, heartbeat | the interrupt is invisible; the heartbeat goes on |
| Not built, not modelled | `sched/thread.c`, `context*.S`, `pmm_minimal.c`, `arch/x86_64/paging.c`, ... | | | |

Interactions: `thread_create` and `sys_malloc` take memory from the heap;
`sys_yield`, `sys_sleep` and the bodies of threads call `sched_yield`; the page
table code takes tables from the page allocator; a process copies the kernel's
half of the PML4; SYSRETQ uses selectors that `msr.c` computes from `gdt.c`,
and an exception finds its stub and its stack through `idt_minimal.c` and `gdt.c`.

## Modules

| Module | Models | Notes |
|---|---|---|
| `PageAllocator` | what any page allocator promises | abstract: how many owners each page has |
| `PmmSimple` | `pmm_simple.c` | refines `PageAllocator` |
| `PmmSimpleProofs` | | theorems about `PmmSimple` |
| `PmmBitmap` | `pmm.c` | refines `PageAllocator` |
| `PmmBitmapProofs` | | theorems about `PmmBitmap` |
| `KernelHeap` | `kmalloc`, `kfree` | u64 sums wrap at `U64`; a size may be any u64 |
| `Scheduler` | `thread_minimal.c` | extends `KernelHeap`: stacks come from it |
| `SchedulerProofs` | | theorems about `KernelHeap` and `Scheduler` |
| `Syscalls` | `syscalls.c` | extends `Scheduler` |
| `SyscallsProofs` | | theorems about `Syscalls` and `Boot` |
| `Boot` | `minimal_test.c`, `user_init.c`, `user_payload.S` | extends `Syscalls`: the client of all it models |
| `PageTables` | the table operators of `vmm.c` and `user_as.c` | operators on a record of memory, free pages and the position of a walk |
| `AddressMap` | what a set of mappings promises | abstract |
| `Vmm` | the mapping functions of `vmm.c` | refines `AddressMap`, until a call leaves the window at `KERNEL_VMA_BASE` |
| `VmmProofs` | | theorems about `PageTables` and `Vmm` |
| `UserAs` | `user_as.c`, `user_mapping.c` | extends `Vmm` |
| `KernelPaging` | `paging.c` | leaves of three sizes |
| `KernelPagingProofs` | | theorems about `KernelPaging` |
| `Descriptors` | `gdt_set_entry`, `gdt_set_tss`, `idt_set_gate` | operators: encoding, and the processor's decoding |
| `Processor` | | registers, stacks, the instructions on them (external) |
| `SyscallEntry` | `syscall_entry.S` | one instruction per step, extends `Processor` |
| `FaultEntry` | `gdt.c`, `idt_minimal.c` | extends `SyscallEntry` and `Descriptors`: system calls and exceptions together |
| `FaultEntryProofs` | | theorems about `SyscallEntry` and `FaultEntry` |
| `Timer` | `kmain.c`, `gdt_idt.c`, `lapic.c`, `timer.S`, `timer.c` | extends `Processor` and `Descriptors` |
| `TimerProofs` | | theorems about `Timer` |

Each `MC*` module instantiates one of them for TLC; `MCMemory` is the physical
memory that `MCVmm` and `MCUserAs` share. Operators named like a
variant of another one (`MakeTableNoZeroing` before `MakeTable`) are its mutants:
the plausible mistakes that the properties are shown to catch.

### How the models correspond to the code

*Page allocator.* `free_pages`, `free_page_count`, `next_page` and
`allocated_pages` are the static variables; addresses are page numbers. The
clients' side is `owners`, how many clients believe they hold a page. A call is
one action; clients free what they hold.

*Heap.* `simple_heap_ptr` is the static pointer, 0 until the first call.
`blocks` is the clients' side. `AlignUp` and the exhaustion check are computed
modulo `U64`, and a caller may ask for any u64. `wrapped` is a history variable:
some size has passed the check because a sum wrapped. From then on the pointer
can be anywhere, and what the properties say of blocks, stacks and tids they say
up to that call.

*Scheduler.* The columns of `thread_table` are functions from slots. A call is
one step, except `sched_run_threads`: its loop is split where it calls an entry
point, and the entry point may do everything the kernel may, which includes
calling `sched_run_threads`. `callers` is the stack of the calls that wait for such
a nested one, each with the slot and the tid it executes; its depth is bounded
by `MaxNesting`, for the kernel's stack. `run_nested` says that the executing thread has
made a nested call, and `again` records the calls whose thread a nested call
executed a second time. With `Protocol` `"one"` the kernel keeps to one way of
running threads: the boot's `sched_run_threads`, any number of times and nested
or not, until `sched_start` enables the scheduler, and `sched_yield` from then
on. `"any"` mixes them. u32 counters
wrap at `U32`. `thread_wrapper` would run if the contexts that `thread_create`
prepares were loaded; nothing loads them.

*System calls.* One action per handler, reached through `syscall_dispatch`.
`sys_sleep` is a loop: during it only `SleepYield` is enabled, as in the code.
`MaxSyscalls` bounds the two counters, which otherwise grow for ever.

*Boot.* `kmain` is a sequence of calls with their arguments, one step each; a
worker's iteration is a step. Before it come the steps of `x86_early_init` that
set the statics of heap, scheduler and system calls, from arbitrary contents of
`.bss`. The other steps of `x86_early_init` are the initial states of
`KernelPaging`, `FaultEntry`, `PmmSimple`, `Vmm` and `UserAs`. The three user
programs of the tree run one at a time.

*Page tables.* Physical memory is a function from pages to tables; an entry is
a page and a set of flags. The free pages come in the allocator's order and
hold arbitrary entries, so that zeroing matters. A single cached translation
stands for the TLB: what holds of an arbitrary cached entry holds of each.
Addresses are page numbers, with `B` entries per table.

`vmm.c` uses a physical page at `KERNEL_VMA_BASE` plus its address
(`PHYS_TO_VIRT`, and the sums in lines 76 to 179). `Reaches` says when that is
the page: when the active tables map the address to it, and writable. Every call
has two outcomes: it reaches the tables that it walks and makes, or it does not.
In the second case it faults or works on another page; `strayed` records it and
the model ends. So the window is not assumed: it is what the tables map, calls
can remap it, and a process that is active has the part of it that the template
has. `user_as.c` and `user_mapping.c` use the HHDM (`phys_to_virt`), which the
boot loader maps over all memory; this is assumed. Nothing in the tree calls the
mapping functions of `vmm.c`, nor the functions of `user_mapping.c` that
`UserAs` models: their callers in the model are any sequence of calls.

*System call entry and exceptions.* A routine is a sequence of instructions,
and `pc` names the routine and the place in it. A word tells where it came
from, so that a register or a field filled from the wrong place shows. Called C
functions may change every register that the calling convention lets them
change. The bytes of an address are symbolic too: `gdt.c` and `idt_minimal.c`
spread them over fields, and the processor's side puts them together. Delivery
of an exception looks at the gate, the code segment, the TSS and the room on
the stack; an empty gate is a general protection fault or a double fault in its
turn, and what cannot be delivered shuts the machine down. The user's stack has
room for a few words, for the entry code alone, or for `syscall_dispatch` and
what it calls too, which take `DispatchRoom` words.

*Timer.* The loop of `kmain` is three steps, with its two times in RBX and R13,
which a compiler has to keep across the calls. The handler is five: the pushes,
the two calls, the pops, IRETQ. The interrupt may come before every step of the
loop. The local APIC is its request and in-service bits for vector 32. `lapic.c`
accesses its registers at 0xFEE00000; that the boot loader maps this page to
itself is assumed, no code of the tree sees to it.

*Boot paging.* A mapping is the size and the W flag of the leaf of each page,
over all mappings the boot loader could leave. Entries above leaves are taken
to be writable.

## Runs

"pass" runs; in each, every property has a mutant that violates it.

| Run | Checks | Instance |
|---|---|---|
| `pmm` | `NoAliasing`, `StatsAddUp`, `LostOnlyWhenFull`, refinement of `PageAllocator` | six pages, a free stack of three, runs of 0 to 3: stack overflow and exhaustion both happen |
| `pmm_bitmap` | `HintBelowFree`, refinement of `PageAllocator` | nine pages, runs of up to three, double frees |
| `sched_any` | five invariants of the table, `HeapSound` | three slots, a heap for three stacks shared with other blocks, one size that wraps, `U32` = 5, slices of 2, clean-up every 2 ticks, calls of `sched_run_threads` nested two deep |
| `syscalls` | `RunningAccountedFor`, `NeverTwiceAtOnce`, `PidIsOwn`, `CompletionIsTrue`, `RunExecutesAll`, `ReadyGetsTurn` | three slots, a heap for four stacks, one way of running threads, nested two deep, two counted calls, sleeps of 0 and 2 yields |
| `boot` | `WorkersRunOnce`, `BootUsesSyscalls`, `BootEnds` | the code's own sizes: eight slots, a heap of 1 MB; three user programs, two contents of each word of `.bss` |
| `vmm` | `TablesFormTree`, `MapPagesAllOrUnmapped`, refinement of `AddressMap` | tables of four entries, three free pages: every walk can fail at every level. The pages that calls name lie at the end of a table, at the beginning of one that is missing, under an empty PML4 entry, and in the window itself, where remapping one puts a table out of reach |
| `user_as` | `UserPagesIsolated`, `ProcessLayout`, `KernelHalfShared`, `TlbNeverStale` | two processes, staged programs, 24 free pages, the last of them outside the window; kernel pages under a PML4 entry that the template has and under one that it lacks when it is taken first. The steps of `Vmm` are steps of this one |
| `entry` | `UserStateKept`, `ArgumentsPassed`, `StubReports`, `DebugStateKept`, `UserFaultsReported` | system calls and eight kinds of exceptions in any order, two turns of user mode told apart, two results, room for 3, 12 or 20 words, of which `syscall_dispatch` takes 4 |
| `paging` | `NoWriteFault`, `BssClearedExactly`, `MappedImageBoots` | all mappings of six pages with tables of two entries |
| `timer` | `HeartbeatOnTime`, `HeartbeatsForever`, `InterruptTransparent` | a heartbeat every 3 ticks, rounds of at most 2 ticks, a counter that wraps at 11 |

The bounds are small, and enough for these properties because each limit is
reached: stacks, tables, heaps and pools fill up, counters come close to their
width, a walk crosses from one table to the next, a section ends inside a page.
`syscalls` makes only the calls that are more than a step of `Scheduler`:
sleep, getpid, read, a number without a handler and one out of range. The
others are made by `boot`, and `SyscallsImplementScheduler` proves that none
adds a behaviour. In `boot` the heap is large enough for everything, so the
fallback of `test_threading_system` to direct calls is in the model and is not
reached; the theorems about `Boot` hold for every heap and every size of the
thread table, and so cover it. `CHECK_DEADLOCK FALSE` is used only where the machine really stops:
`sys_exit` and the final loop in `boot`, the halt in `paging`, halt and
shutdown in `entry`, a call that strays in `vmm` and `user_as`.

"violation" runs show where the code does not do what a comment or the
repository's README says. `PROJECT.json` quotes the line for each.

| Run | What it shows |
|---|---|
| `user_as_wx` | a failed `setup_user_address_space` leaves the code page writable and executable |
| `entry_debug` | after a system call CS is 0x2B, the TSS selector, and a debug exception that should return ends in a halt |

### Deviations that the models show and no run is about

The models follow the code here too; the properties are stated so that they say
what does hold.

* `mm/vmm.c:204`: for a size near 2^64 the sum wraps and passes the exhaustion
  check ("within existing mapped kernel memory", line 203), and `sys_malloc` passes
  any size on. Afterwards blocks overlap or lie outside the heap. The properties
  of heap, stacks and tids hold up to that call (`~wrapped`). The boot makes
  none before user mode, which `BootedKernelSound` proves.
* `mm/vmm.c:76`: a table is zeroed and filled through `KERNEL_VMA_BASE` plus its
  physical address, a "direct mapping" (`types.h:57`) that only the boot loader's
  tables decide about; `user_as.c` uses the HHDM for the same purpose. For a page
  outside that window the call faults or changes other memory. The properties of
  `Vmm` and `UserAs` hold up to such a call (`~strayed`).
* `sched/thread_minimal.c:255`: when `sched_start` and `sched_run_threads` are
  mixed, a thread that has yielded is READY while its entry point is on the stack,
  and a nested `sched_run_threads` executes it a second time. When that execution
  returns the slot becomes a ZOMBIE, and it can be cleaned up and reused under the
  first one. `ExecutingSlotKept` says what holds of the others, `NeverTwiceAtOnce`
  that one way of running threads excludes it.
* `sched/thread_minimal.c:265`: a nested `sched_run_threads` returns with
  `current_thread` NULL, so that the thread that called it gets 1 from
  `sys_getpid`. `PidIsOwn` is about threads that have made no nested call.
* `sched/thread_minimal.c:142`: finished threads keep their slots until `sched_tick`
  cleans up, which nothing in the tree calls: eight threads fill the table for good.
* `mm/vmm.c:216`: `kfree` gives nothing back, though the self test says
  of the next allocation "Should reuse freed space" (`minimal_test.c:129`).
* `sched/thread_minimal.c:255`: after `sched_start`, `sched_run_threads` skips
  the RUNNING thread and reports completion (line 269). `CompletionIsTrue` is
  stated for one way of running threads.
* `mm/vmm.c:232`: the clean-up of a failed `vmm_map_pages` unmaps the first pages
  of the run also where they were mapped before the call (line 231 speaks of
  partial mappings). `MapPagesAllOrUnmapped` says exactly what it leaves.
* `mm/user_as.c:55`: a kernel mapping under a PML4 entry that was empty when the
  template was taken is missing in processes ("sharing kernel high-half", line
  13). A global translation of it stays cached across the change of CR3, where the
  repository's README speaks of "Proper cache coherency and invalidation".
  `KernelHalfShared` says that such a page is mapped in no process, and
  `TlbNeverStale` that the cached translation is then the kernel's; the run reaches
  both.
* `mm/pmm.c:69`: the bitmap allocator may hand out page 0, which is also its
  failure value (line 73); the run that begins there is lost.
* `sched/thread_minimal.c:116`: the `sched_yield` at the end of `thread_wrapper`
  sets the thread READY that line 278 has just made a ZOMBIE ("Thread finished -
  mark as zombie"). Nothing in the build executes it.
* `arch/x86_64/syscall_entry.S:49`: R8 is overwritten and the fifth argument
  never moved to R9, as line 42 says it is. `ArgumentsPassed` is about the other five.
* `arch/x86_64/syscall_entry.S:24`: in Intel syntax this loads the word at the
  label, whose address is that of `saved_user_rsp`: the handler runs on the
  user's stack (line 23: "Load kernel syscall stack"). `UserStateKept` holds all
  the same; a call without room on that stack faults in the kernel, and, the
  frame finding no room either, the machine shuts down; `syscall_dispatch` can run
  out of it as well.
* `arch/x86_64/idt_minimal.c:255`: no gate uses an interrupt stack, though
  `gdt.c:160` prepares one "for double faults, etc.".
* `arch/x86_64/idt_minimal.c:83`: the generic stub puts the vector in RAX, where
  nobody looks, and restores its two words in the wrong order. `StubReports` is
  about the others. It may take the debug case and return.
* `arch/x86_64/idt_minimal.c:107`: `isr_1` returns to user mode without RSI, RCX,
  RDX and R8 to R11. `DebugStateKept` is about the registers it does keep.
* `arch/x86_64/idt_minimal.c:272`: the breakpoint gate has DPL 0, so that INT3 in
  user mode is a general protection fault.
* `mm/paging.c:186`: a large page that holds .bss and .text becomes writable as a
  whole (line 110: "Targeted").
* `mm/paging.c:210`: the section of the TSS (`gdt.c:70`, `linker.ld`) is not in
  the ranges made writable (line 204).

### Fairness

* `CooperativeSyscallSpec`: weak fairness of the loop of `sched_run_threads`, which
  runs on the only flow of control, and strong fairness of `RunReturn`: entry points
  return, also if they make nested calls in between (those in the tree are
  bounded loops).
* It adds weak fairness of `sched_yield` and of the loop of `sys_sleep`. Threads are
  cooperative, and the ones in the tree yield in every iteration.
* No fairness of `sched_tick` is assumed anywhere: nothing calls it.
* `KSpec`, `BootSpec` and `Spec` of `FaultEntry`: weak fairness of the kernel's
  next step, on a processor that runs. User mode is not fair: it may loop.
* `Spec` of `Timer`: weak fairness of the loop, of the handler, of the delivery of
  a requested interrupt and of the timer, all of which the hardware gives. That a
  round of the loop takes at most `MaxLag` ticks is a bound on speed, without
  which no time could be promised; in the code a round takes microseconds.

## Proofs

All theorems hold for every value of the constants that satisfies the named
assumptions, which state the sizes that the code fixes: non-empty pool and
stack (`PoolAssumption`), a non-empty bitmap and counts that fit in it
(`BitmapAssumption`), an aligned heap that ends below 2^64
(`HeapAssumption`), a heap with room for fewer than 2^32 stacks (`StackAssumption`),
the constants of kmain's tests (`ScriptAssumption`), tables of at least two entries
(`TableAssumption`), a tree of boot page tables made of pages that the allocator
does not have (`BootAssumption`), addresses of 48 bits (`CallAssumption`), sections
in the order of the linker script that begin on pages (`LayoutAssumption`),
exceptions below 32 (`FaultAssumption`), a dispatcher that takes at least a word of
stack (`EntryAssumption`), and a tick counter wide enough for a
period and two rounds (`TimerAssumption`).

* `PmmSimpleProofs`: `TypeCorrect`, `NeverAliases`, `StatsConsistent`,
  `LosesOnlyWhenFull` (an action property, with one lemma for each way a page
  moves between stack, bump pointer and holder) and `Refinement` of `PageAllocator`. `NoAliasing` is inductive only with the types
  and `CountCoversHeld`: `allocated_pages` counts at least the pages that clients
  hold, so that the decrement guarded by "above 0" is always taken. The lemmas
  `RemoveRun` and `AddRun` do the counting; each action has its own lemma.
* `PmmBitmapProofs`: `HintNeverPassesFree`, `BitmapRefinement` of `PageAllocator`, and
  `SearchMissesNothing`: an allocation fails only when the whole bitmap has no
  free run of that length. `BitmapIInv` adds to `HintBelowFree` that a held page
  has its bit set, has one owner and is not page 0. `MinFacts`, that the first
  fit exists, comes from the well-foundedness of `<` on the naturals.
* `SchedulerProofs`: of the heap, `HeapBlocksSound`. The invariant adds that every
  block lies below the bump pointer, which stays aligned and inside the heap, as
  long as no size has wrapped (`HeapClean`). Of the scheduler, type correctness,
  `CurrentIsRunning`, `RunningAccountedFor`, `NeverTwiceAtOnce`, `ExecutingSlotKept`,
  `TidsFresh`, `StacksOwned`, `SlicesPositive` and `ActiveCountsReady`, all from
  `SchedIInv`, for every depth of nested calls. Its part `Core` holds whatever sizes
  are asked for: `FrameInv` relates the stack of calls to the table (two calls are
  in the same slot only if the outer one's thread was executed again), and `OneMode`
  says that before `sched_start` the RUNNING threads are those of the calls on that
  stack, with `current_thread` the innermost or NULL, and that after it only
  `sched_yield` moves `current_thread`. `Memory`, as long as no size has wrapped, adds
  `Budget` (each tid handed out has used up a stack's worth of heap, so the counter
  cannot wrap) and `LiveStates`. `YieldExchanges` reduces `sched_yield` to an exchange
  of two roles, after which each operation is one lemma. `CompletionNeverEarly` is
  proved for `Protocol = "one"`, with `Passed` on top of `SchedIInv`: before
  `sched_start` the used slots come first in the table, so that a thread created
  meanwhile lies ahead of every loop on the stack of calls, and all threads behind
  a loop are ZOMBIEs or executed by an outer call.
* `SyscallsProofs`: `SyscallsImplementScheduler`, every system call is a step that
  `Scheduler` allows or none, and so all theorems above hold of the kernel with
  system calls, `SyscallCompletionNeverEarly` among them; `PidNeverStale` and
  `MallocNeverInStack` follow from the scheduler's invariant
  (`SyscallInvariant`). Of the boot, `BootUsesSyscallsTheorem`,
  `WorkersRunOnceTheorem` and `BootedKernelSound`, which carries the theorems about
  heap, scheduler and system calls over to the booted kernel and adds that no size
  wraps before user mode. `BootInv` ties the
  position in kmain's script to what is held, created and run so far: which of the
  test's pointers are blocks, which slot belongs to which worker, and whose body
  has run, by the loop of `sched_run_threads` or by a direct call.
* `KernelPagingProofs`: `NoWriteFaultTheorem`, `BssClearedExactlyTheorem` and
  `HaltsOnlyUnmappedTheorem`, for every mapping the boot loader can leave. `KInv`
  says how far each loop has come: the pages behind the first one are writable
  (`PassedWritable`), the bytes behind the second one are zero (`ClearedSoFar`), the
  pages under one large leaf agree (`LeavesAgree`), and no stale read-only
  translation is left once the TLB was emptied (`TlbFresh`). The lemmas about
  division connect bytes with pages.
* `VmmProofs`: `TablesFormTreeTheorem`, `MapPagesAllOrUnmappedTheorem`,
  `TlbCoherentTheorem` and `ImplementsAddressMapTheorem`, all of them up to a call
  that strays, for every window and every content of the boot loader's tables. In
  `VmmSpec` nothing writes CR3, because `vmm.c` does not: `TlbCoherentTheorem` is
  about the calls of `vmm.c` on the active tables, and what a switch of address
  spaces adds is left to the run `user_as` (`TlbNeverStale`). The invariant is `IsTree` for some assignment of levels to pages: free pages have
  level 0, an entry of a table points one level down, and no table hangs on two
  entries. From it follows that two walks that meet in a table have the same
  indices so far (`SameTable`), and so that writing the last entry of one changes no
  other. `DescendFacts`, `DownToTable` and `MapInFacts` follow one call down the
  levels, through every point where it can run out of tables; `MapSeqFacts`
  and `UnmapRunFacts` treat the loops with `Induction`, induction over the naturals
  as a statement about sets, which the provers can use.
* `TimerProofs`: `HeartbeatOnTimeTheorem` and `InterruptTransparentTheorem`. `TInv`
  says at every step of the handler what is on the stack and which registers
  still hold the interrupted code's values (`Kept`), and that the two times the
  loop holds lie behind the counter by `since` and `lag` modulo 2^64 (`Times`), also
  while the handler runs between two of the loop's steps.
* `FaultEntryProofs`: `UserStateKeptTheorem`, `ArgumentsPassedTheorem`,
  `StubReportsTheorem`, `DebugStateKeptTheorem`, and `ShutdownTheorem`: the
  processor shuts down only in a system call without room on the user's stack.
  `ArgumentsPassedTheorem` leaves out the fifth argument, which the code loses.
  `IInv` has one assertion per instruction: the depth of the stack, the words in it
  and where each register's content came from, by position in the routine
  (`SyscallOK`, `StubOK`, `ErrorStubOK`, `GenericOK`). `DeliveredFacts` computes
  once, from the tables that `gdt.c` and `idt_minimal.c` write, which stub an
  exception reaches.

Only model-checked: all liveness properties, which the prover cannot treat
(`RunExecutesAll`, `ReadyGetsTurn`, `MappedImageBoots`,
`UserFaultsReported`, `HeartbeatsForever`, `BootEnds`), and the properties of
`UserAs`: `UserPagesIsolated`, `ProcessLayout`, `KernelHalfShared` and
`TlbNeverStale`.

## Not modelled

* `sched/thread.c` with `context_switch.S`: not built, and its first
  `sched_yield` reads through a NULL `current_thread`.
* `thread_wrapper`, which nothing in the build executes; `start.S`, which
  aligns the boot loader's stack and makes three calls; the stubs of `idt_minimal.c` that no gate points to.
* `pmm_minimal.c`, `pmm_test.c`, `arch/x86_64/paging.c`: not built, stubs or
  replaced.
* Serial port, logging, port access: pure output.
* Huge pages in `vmm.c` and `user_as.c`, which do not look at the flag.
* What a call of `vmm.c` does after it has left its window, and the mapping of the
  HHDM and of the local APIC's registers, which the boot loader makes.
* Contents of pages other than tables; names, priorities and run times of threads.
* Read-only entries above the leaves in `paging.c`, which the boot loader does not
  make and the code does not look at.
