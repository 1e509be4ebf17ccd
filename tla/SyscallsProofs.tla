--------------------------- MODULE SyscallsProofs ---------------------------
(***************************************************************************)
(* System calls are clients of the scheduler: every behaviour of Syscalls  *)
(* is one of Scheduler, for every value of the constants.  The step that   *)
(* needs an invariant is the loop of sys_sleep, which yields: it is only   *)
(* entered by a caller that has the flow of control, and nothing takes     *)
(* that away while it sleeps.  What is proved of Scheduler then carries    *)
(* over, and with it the two properties of Syscalls follow.                *)
(*                                                                         *)
(* The boot is a client of the system calls in turn: its invariant ties    *)
(* the position in kmain's script to what the script holds, created and    *)
(* ran so far.  kmain then makes only calls that Syscalls allows, and each *)
(* worker runs once, however the allocations and the creates came out.     *)
(***************************************************************************)
EXTENDS Boot, SchedulerProofs

SleeperCalls == sleep_left > 0 => Calling

\* Initially nobody sleeps.
LEMMA SleeperInit == SyscallInit => SleeperCalls
BY DEF SyscallInit, SleeperCalls

\* A handler leaves the loop of sched_run_threads alone.
LEMMA HandlerKeepsRun ==
  ASSUME NEW n, NEW arg, Handler(n, arg)
  PROVE  UNCHANGED runVars
<1>1. UNCHANGED vars => UNCHANGED runVars
  BY Zenon DEF vars
<1>2. sched_yield => UNCHANGED runVars
  BY Zenon DEF sched_yield
<1>3. UNCHANGED schedVars => UNCHANGED runVars
  BY Zenon DEF schedVars
<1> QED BY <1>1, <1>2, <1>3, Zenon DEF Handler, sys_exit, sys_write, sys_read, sys_getpid,
           sys_sleep, sys_yield, sys_malloc, sys_free

\* A refused call changes nothing that the loop or a sleeper could notice.
LEMMA DispatchKeepsRun ==
  ASSUME NEW n, NEW arg, syscall_dispatch(n, arg)
  PROVE  UNCHANGED runVars
<1>1. UNCHANGED vars => UNCHANGED runVars
  BY Zenon DEF vars
<1> QED BY <1>1, HandlerKeepsRun, Zenon DEF syscall_dispatch

\* Whoever sleeps keeps the flow of control.
LEMMA SleeperNext ==
  ASSUME SleeperCalls, [SyscallNext]_allVars
  PROVE  SleeperCalls'
<1>1. CASE SleepYield
  BY <1>1, Zenon DEF SleepYield, sched_yield, SleeperCalls, Calling, runVars
<1>2. CASE Outside(Next)
  BY <1>2 DEF Outside, sysVars, SleeperCalls
<1>3. ASSUME Calling, NEW n, NEW arg, syscall_dispatch(n, arg)
      PROVE  SleeperCalls'
  BY <1>3, DispatchKeepsRun, Zenon DEF SleeperCalls, Calling, runVars
<1>4. CASE UNCHANGED allVars
  BY <1>4, Zenon DEF allVars, vars, sysVars, runVars, SleeperCalls, Calling
<1> QED BY <1>1, <1>2, <1>3, <1>4, Zenon DEF SyscallNext

-----------------------------------------------------------------------------
\* The arguments of the two calls that use the heap.
LEMMA HeapArguments ==
  /\ Arguments(SYS_MALLOC) = Sizes
  /\ Arguments(SYS_FREE) = {b.base : b \in {c \in blocks : ~IsStack(c)}}
BY DEF Arguments, SYS_WRITE, SYS_SLEEP, SYS_MALLOC, SYS_FREE

\* sys_malloc and sys_free are uses of the heap that Scheduler allows.
LEMMA HeapCallUsesHeap ==
  ASSUME NEW n, NEW arg \in Arguments(n),
         \/ n = SYS_MALLOC /\ sys_malloc(arg)
         \/ n = SYS_FREE /\ sys_free(arg)
  PROVE  OtherHeapUse
<1>1. UNCHANGED schedVars =>
        UNCHANGED <<tableVars, current_thread, next_tid, active_thread_count,
                    scheduler_ticks, scheduler_enabled, runVars>>
  BY Zenon DEF schedVars
<1>2. CASE n = SYS_MALLOC /\ sys_malloc(arg)
  BY <1>1, <1>2, HeapArguments, Zenon DEF sys_malloc, OtherHeapUse
<1>3. CASE n = SYS_FREE /\ sys_free(arg)
  <2>1. PICK b \in blocks : ~IsStack(b) /\ arg = b.base
    BY <1>3, HeapArguments, Zenon
  <2> QED BY <1>1, <1>3, <2>1, Zenon DEF sys_free, OtherHeapUse
<1> QED BY <1>2, <1>3, Zenon

\* A system call is a step of the scheduler, or none.
LEMMA DispatchImplements ==
  ASSUME Calling, NEW n, NEW arg \in Arguments(n), syscall_dispatch(n, arg)
  PROVE  Next \/ UNCHANGED vars
<1>1. CASE Handler(n, arg)
  <2>1. UNCHANGED vars \/ sched_yield \/ OtherHeapUse
    BY <1>1, HeapCallUsesHeap, Zenon DEF Handler, sys_exit, sys_write, sys_read, sys_getpid,
       sys_sleep, sys_yield
  <2> QED BY <2>1, Zenon DEF Next
<1>2. CASE UNCHANGED vars
  BY <1>2, Zenon
<1> QED BY <1>1, <1>2, Zenon DEF syscall_dispatch

\* Every step with system calls is a step of the scheduler, or none.
LEMMA SyscallNextImplements ==
  ASSUME SleeperCalls, [SyscallNext]_allVars
  PROVE  [Next]_vars
<1>1. CASE SleepYield
  BY <1>1, Zenon DEF SleepYield, SleeperCalls, Next
<1>2. CASE Outside(Next)
  BY <1>2, Zenon DEF Outside
<1>3. ASSUME Calling, NEW n \in Numbers, NEW arg \in Arguments(n), syscall_dispatch(n, arg)
      PROVE  [Next]_vars
  BY <1>3, DispatchImplements, Zenon
<1>4. CASE UNCHANGED allVars
  BY <1>4, Zenon DEF allVars
<1> QED BY <1>1, <1>2, <1>3, <1>4, Zenon DEF SyscallNext

-----------------------------------------------------------------------------
\* syscalls.c uses the scheduler and the heap as Scheduler lets its clients: with
\* system calls from the kernel, from threads and from user mode, thread_minimal.c
\* still behaves as specified.
THEOREM SyscallsImplementScheduler == SyscallSpec => Spec
<1>1. SyscallInit => Init
  BY Zenon DEF SyscallInit
<1>2. SyscallSpec => []SleeperCalls
  BY SleeperInit, SleeperNext, PTL DEF SyscallSpec
<1>3. SleeperCalls /\ [SyscallNext]_allVars => [Next]_vars
  BY SyscallNextImplements, Zenon
<1> QED BY <1>1, <1>2, <1>3, PTL DEF SyscallSpec, Spec

\* The scheduler's invariant, with system calls.
THEOREM SyscallInvariant == SyscallSpec => []SchedIInv
BY SyscallsImplementScheduler, SchedInvariant, PTL

\* sched_run_threads prints "All threads completed" only when they are, also when
\* the threads it executes make system calls.
THEOREM SyscallCompletionNeverEarly ==
  ASSUME Protocol = "one"
  PROVE  SyscallSpec => CompletionIsTrue
BY SyscallsImplementScheduler, CompletionNeverEarly, PTL

\* The executing thread is the current one, until it makes a nested call.
LEMMA PidFromInv == SchedIInv => PidIsOwn
<1> SUFFICES ASSUME SchedIInv, Protocol = "one", run_pc = "exec", ~run_nested
             PROVE  Pid = run_tid
  BY Zenon DEF PidIsOwn
<1>1. TypeOK /\ FrameInv /\ OneMode
  BY Zenon DEF SchedIInv, Core
<1>2. again = {} /\ current_thread = run_i
  <2>1. run_pc # "idle"
    OBVIOUS
  <2> QED BY <1>1, <2>1, Zenon DEF OneMode
<1>3. Top \in Levels /\ Frame(Top) = Executed(run_i, run_tid)
  BY <1>1, Basics DEF Top, Levels, Frame, Executed
<1>4. Frame(Top).slot = run_i /\ Frame(Top).tid = run_tid
  BY <1>3 DEF Executed
<1>5. run_i \in Slots /\ tid[run_i] = run_tid
  BY <1>1, <1>2, <1>3, <1>4 DEF FrameInv, ExecutingSlotKept
<1>6. current_thread # NULL
  BY <1>2, <1>5, Basics, Zenon
<1> QED BY <1>2, <1>5, <1>6, Zenon DEF Pid

\* A block that is no stack is another block than every stack.
LEMMA OutsideFromInv == SchedIInv => MallocOutsideStacks
<1> SUFFICES ASSUME SchedIInv, ~wrapped, NEW b \in blocks, NEW i \in Slots, tid[i] # 0,
                    ~IsStack(b)
             PROVE  \/ b.base + b.size <= stack_base[i]
                    \/ stack_base[i] + THREAD_STACK_SIZE <= b.base
  BY Zenon DEF MallocOutsideStacks
<1> DEFINE s == [base |-> stack_base[i], size |-> THREAD_STACK_SIZE]
<1>0. HeapClean /\ StacksOwned
  BY Zenon DEF SchedIInv, Memory
<1>1. s \in blocks
  BY <1>0, Zenon DEF StacksOwned
<1>2. b.base # s.base
  BY Zenon DEF IsStack
<1>3. b # s
  BY <1>2, Zenon
<1> QED BY <1>0, <1>1, <1>3, Zenon DEF HeapClean, BlocksDisjoint

\* sys_getpid gives a thread that sched_run_threads executes its own tid, however
\* often it yielded or slept before, as long as it does not call sched_run_threads.
THEOREM PidNeverStale == SyscallSpec => []PidIsOwn
BY PidFromInv, SyscallInvariant, PTL

\* A block of sys_malloc that was not freed covers no byte of a thread's stack,
\* unless a size, of this or of an earlier call, wrapped the check of kmalloc.
THEOREM MallocNeverInStack == SyscallSpec => []MallocOutsideStacks
BY OutsideFromInv, SyscallInvariant, PTL

-----------------------------------------------------------------------------
\* The boot.  kmain's script is straight-line code, so its invariant says for
\* each entry what the entries before it left behind.
TidNames == <<"tid1", "tid2", "tid3">>

\* The pointers whose blocks kmain holds before entry n.
Live(n) ==
  CASE n = 2 -> {"ptr1"}
    [] n = 3 -> {"ptr1", "ptr2"}
    [] n \in 4 .. 5 -> {"ptr1", "ptr2", "ptr3"}
    [] n = 6 -> {"ptr1", "ptr3"}
    [] n = 7 -> {"ptr1", "ptr3", "ptr4"}
    [] n = 8 -> {"ptr3", "ptr4"}
    [] n = 9 -> {"ptr4"}
    [] n \in 11 .. 12 -> {"large_ptr"}
    [] n \in 20 .. 21 -> {"ptr"}
    [] OTHER -> {}

\* Before kmain: nothing uses the heap, the threads or the system calls yet.
Early ==
  /\ phase \in {"activate_kernel_page_tables", "sched_init", "syscall_init"}
  /\ at = 1
  /\ blocks = {} /\ wrapped = FALSE
  /\ run_pc = "idle" /\ run_i = 0 /\ run_tid = 0
  /\ callers = <<>> /\ run_nested = FALSE /\ again = {}
  /\ sleep_left = 0 /\ halted = FALSE /\ ret = 0
  /\ phase # "activate_kernel_page_tables" => simple_heap_ptr = 0
  /\ phase = "syscall_init" => Init
  /\ DOMAIN syscall_counts = 0 .. (MAX_SYSCALLS - 1)

Shape ==
  /\ ran = [w \in Workers |-> ran[w]]
  /\ var = [v \in Pointers \cup Tids |-> var[v]]
  /\ entry_point = [i \in Slots |-> entry_point[i]]
  /\ program \in Seq(UserCalls)

\* The script goes forward; only user mode halts the machine, and only the last
\* calls sleep.
Control ==
  /\ at \in 1 .. 24
  /\ phase # "kmain" => at = 24
  /\ phase = "kmain" /\ at = 1 => SyscallInit
  /\ phase # "user" => ~halted
  /\ at <= 22 => sleep_left = 0
  /\ phase # "user" => ~wrapped
  /\ ~scheduler_enabled

\* When the first n threads were created, they are in the first n slots.
Created(n) ==
  (\A k \in 1 .. n : var[TidNames[k]] # 0) =>
    /\ n <= MAX_THREADS
    /\ \A i \in Slots : tid[i] # 0 <=> i < n
    /\ \A i \in 0 .. (n - 1) : entry_point[i] = i + 1

Creating ==
  /\ at <= 13 => \A i \in Slots : tid[i] = 0
  /\ at <= 16 => \A i \in Slots : tid[i] # 0 => state[i] = "READY"
  /\ at \in 13 .. 16 => Created(at - 13)

\* No worker ran; the workers run by direct calls; sched_run_threads runs them,
\* the one in slot i as the i-th; each of them ran once.
Pending == run_pc = "idle" /\ body = <<>> /\ \A w \in Workers : ran[w] = 0

Direct ==
  /\ run_pc = "idle"
  /\ body \in {<<1, 2, 3>>, <<2, 3>>, <<3>>}
  /\ \A w \in Workers : ran[w] = IF w < body[1] THEN 1 ELSE 0

Threads ==
  /\ 3 <= MAX_THREADS /\ run_i \in 0 .. 3 /\ callers = <<>>
  /\ \A i \in Slots : tid[i] # 0 <=> i < 3
  /\ \A i \in 0 .. 2 :
       /\ entry_point[i] = i + 1
       /\ ran[i + 1] = IF i < run_i THEN 1 ELSE 0
       /\ i > run_i => state[i] = "READY"
  /\ \/ run_pc = "scan" /\ body = <<>> /\ (run_i < 3 => state[run_i] = "READY")
     \/ run_pc = "exec" /\ run_i < 3 /\ body = <<run_i + 1>>

Done == run_pc = "idle" /\ body = <<>> /\ \A w \in Workers : ran[w] = 1

Working ==
  /\ at <= 16 => Pending
  /\ at = 17 => Threads \/ Direct \/ Done
  /\ at > 17 => Done

\* A pointer that kmain still holds is 0 or a block of its own, no stack.
Holding ==
  /\ \A p \in Live(at) : var[p] # 0 =>
       /\ \E b \in blocks : b.base = var[p] /\ ~IsStack(b)
       /\ \A q \in Live(at) \ {p} : var[q] # var[p]
  /\ at = 21 => var["ptr"] # 0

KmainInv ==
  /\ SchedIInv /\ SleeperCalls
  /\ Control /\ Creating /\ Working /\ Holding

BootInv ==
  /\ Shape
  /\ ~InKmain => Early /\ Pending
  /\ InKmain => KmainInv

-----------------------------------------------------------------------------
\* The script.
LEMMA KmainEntries ==
  /\ kmain[1] = <<"kmalloc", "ptr1", 64>> /\ kmain[2] = <<"kmalloc", "ptr2", 128>>
  /\ kmain[3] = <<"kmalloc", "ptr3", 256>> /\ kmain[4] = <<"unless", {"ptr1", "ptr2", "ptr3"}, 5>>
  /\ kmain[5] = <<"kfree", "ptr2">> /\ kmain[6] = <<"kmalloc", "ptr4", 100>>
  /\ kmain[7] = <<"kfree", "ptr1">> /\ kmain[8] = <<"kfree", "ptr3">>
  /\ kmain[9] = <<"kfree", "ptr4">> /\ kmain[10] = <<"kmalloc", "large_ptr", 4096>>
  /\ kmain[11] = <<"unless", {"large_ptr"}, 1>> /\ kmain[12] = <<"kfree", "large_ptr">>
  /\ kmain[13] = <<"create", "tid1", 1>> /\ kmain[14] = <<"create", "tid2", 2>>
  /\ kmain[15] = <<"create", "tid3", 3>> /\ kmain[16] = <<"run", Tids>>
  /\ kmain[17] = <<"call", SYS_GETPID, 0>> /\ kmain[18] = <<"call", SYS_YIELD, 0>>
  /\ kmain[19] = <<"call", SYS_MALLOC, 256>> /\ kmain[20] = <<"unless", {"ptr"}, 1>>
  /\ kmain[21] = <<"call", SYS_FREE, 0>> /\ kmain[22] = <<"call", SYS_SLEEP, 50>>
  /\ kmain[23] = <<"call", SYS_WRITE, 1>> /\ kmain[24] = <<"user">>
BY DEF kmain, test_memory_management, test_threading_system, test_system_calls, Kmalloc, Kfree,
   Unless, Create, Call

\* Where the script makes each kind of call.
LEMMA KmainKinds ==
  ASSUME at \in 1 .. 24
  PROVE  /\ Entry[1] = "kmalloc" => at \in {1, 2, 3, 6, 10}
         /\ Entry[1] = "kfree" => at \in {5, 7, 8, 9, 12}
         /\ Entry[1] = "unless" => at \in {4, 11, 20}
         /\ Entry[1] = "create" => at \in {13, 14, 15}
         /\ Entry[1] = "run" => at = 16
         /\ Entry[1] = "call" => at \in {17, 18, 19, 21, 22, 23}
         /\ Entry[1] = "user" => at = 24
<1>1. at \in {1, 2, 3, 6, 10} => Entry[1] = "kmalloc"
  BY KmainEntries DEF Entry
<1>2. at \in {5, 7, 8, 9, 12} => Entry[1] = "kfree"
  BY KmainEntries DEF Entry
<1>3. at \in {4, 11, 20} => Entry[1] = "unless"
  BY KmainEntries DEF Entry
<1>4. at \in {13, 14, 15} => Entry[1] = "create"
  BY KmainEntries DEF Entry
<1>5. at = 16 => Entry[1] = "run"
  BY KmainEntries DEF Entry
<1>6. at \in {17, 18, 19, 21, 22, 23} => Entry[1] = "call"
  BY KmainEntries DEF Entry
<1>7. at = 24 => Entry[1] = "user"
  BY KmainEntries DEF Entry
<1>8. \/ at \in {1, 2, 3, 6, 10} \/ at \in {5, 7, 8, 9, 12} \/ at \in {4, 11, 20}
      \/ at \in {13, 14, 15} \/ at = 16 \/ at \in {17, 18, 19, 21, 22, 23} \/ at = 24
  OBVIOUS
<1> QED BY <1>1, <1>2, <1>3, <1>4, <1>5, <1>6, <1>7, <1>8

\* BootInit, whatever is in .bss.
LEMMA BootInitInv == BootInit => BootInv
<1> SUFFICES ASSUME BootInit PROVE BootInv
  BY Zenon
<1>1. ~InKmain
  BY Zenon DEF BootInit, InKmain
<1>2. Shape
  <2>1. program \in Seq(UserCalls)
    BY ScriptAssumption DEF BootInit
  <2> QED BY <2>1, Zenon DEF BootInit, Shape
<1>3. Early
  <2>1. DOMAIN syscall_counts = 0 .. (MAX_SYSCALLS - 1)
    BY Zenon DEF BootInit
  <2> QED BY <2>1, Zenon DEF BootInit, Early
<1>4. Pending
  BY Zenon DEF BootInit, Pending
<1> QED BY <1>1, <1>2, <1>3, <1>4, Zenon DEF BootInv

\* A step that leaves kmain's locals and the workers alone keeps their shape.
LEMMA ShapeKept ==
  ASSUME Shape, UNCHANGED testVars
  PROVE  Shape'
BY Zenon DEF Shape, testVars

LEMMA PendingKept ==
  ASSUME Pending, UNCHANGED testVars, UNCHANGED runVars
  PROVE  Pending'
BY Zenon DEF Pending, testVars, runVars

\* The steps before kmain.
LEMMA ClearBssInv ==
  ASSUME BootInv, ClearBss
  PROVE  BootInv'
<1>1. ~InKmain /\ Early /\ Pending /\ Shape
  BY Zenon DEF ClearBss, InKmain, BootInv
<1>2. phase' = "sched_init" /\ at' = at
  BY Zenon DEF ClearBss, Enter
<1>3. ~InKmain'
  BY <1>2, Zenon DEF InKmain
<1>4. Shape' /\ Pending'
  <2>1. /\ UNCHANGED <<var, body, ran, program>> /\ UNCHANGED runVars
        /\ entry_point' = [i \in Slots |-> 0]
    BY Zenon DEF ClearBss
  <2> QED BY <1>1, <2>1, Zenon DEF Shape, Pending, runVars
<1>5. Early'
  <2>1. DOMAIN syscall_counts' = DOMAIN syscall_counts
    BY Zenon DEF ClearBss
  <2>2. /\ UNCHANGED <<blocks, wrapped, run_pc, run_i, run_tid, callers, run_nested, again>>
        /\ UNCHANGED <<sleep_left, halted, ret>> /\ simple_heap_ptr' = 0
    BY Zenon DEF ClearBss, runVars
  <2> QED BY <1>1, <1>2, <2>1, <2>2, Zenon DEF Early
<1> QED BY <1>3, <1>4, <1>5, Zenon DEF BootInv

LEMMA SchedInitStepInv ==
  ASSUME BootInv, sched_init
  PROVE  BootInv'
<1>1. ~InKmain /\ Early /\ Pending /\ Shape
  BY Zenon DEF sched_init, InKmain, BootInv
<1>2. phase' = "syscall_init" /\ at' = at /\ phase = "sched_init"
  BY Zenon DEF sched_init, Enter
<1>3. ~InKmain'
  BY <1>2, Zenon DEF InKmain
<1>4. UNCHANGED <<blocks, simple_heap_ptr, wrapped, run_pc, run_i, run_tid, callers, run_nested,
                  again, sleep_left, halted, ret, syscall_counts, var, body, ran, program>>
  BY Zenon DEF sched_init, heapVars, runVars, sysVars
<1>5. entry_point' = [i \in Slots |-> 0]
  BY Zenon DEF sched_init
<1>6. Shape' /\ Pending'
  BY <1>1, <1>4, <1>5, Zenon DEF Shape, Pending
<1>7. /\ simple_heap_ptr = 0 /\ blocks = {} /\ wrapped = FALSE
      /\ run_pc = "idle" /\ run_i = 0 /\ run_tid = 0
      /\ callers = <<>> /\ run_nested = FALSE /\ again = {}
  BY <1>1, <1>2, Zenon DEF Early
<1>8. Init'
  BY <1>4, <1>7, Zenon DEF sched_init, Init, HeapInit
<1>9. Early'
  BY <1>1, <1>2, <1>4, <1>7, <1>8, Zenon DEF Early
<1> QED BY <1>3, <1>6, <1>9, Zenon DEF BootInv

LEMMA SyscallInitStepInv ==
  ASSUME BootInv, syscall_init
  PROVE  BootInv'
<1>1. ~InKmain /\ Early /\ Pending /\ Shape
  BY Zenon DEF syscall_init, InKmain, BootInv
<1>2. phase' = "kmain" /\ at' = 1 /\ phase = "syscall_init" /\ at = 1
  BY <1>1, Zenon DEF syscall_init, Enter, Early
<1>3. UNCHANGED vars /\ UNCHANGED testVars /\ UNCHANGED <<sleep_left, halted, ret>>
  BY Zenon DEF syscall_init
<1>4. Shape' /\ Pending'
  BY <1>1, <1>3, ShapeKept, PendingKept, Zenon DEF vars
<1>5. Init'
  BY <1>1, <1>2, <1>3, Zenon DEF Early, Init, HeapInit, vars, heapVars, tableVars, runVars
<1>6. SyscallInit'
  <2>1. DOMAIN syscall_counts = 0 .. (MAX_SYSCALLS - 1) /\ sleep_left = 0 /\ halted = FALSE /\ ret = 0
    BY <1>1, Zenon DEF Early
  <2>2. syscall_counts' = [n \in 0 .. (MAX_SYSCALLS - 1) |-> 0] /\ total_syscalls' = 0
    BY <2>1, Zenon DEF syscall_init
  <2> QED BY <1>3, <1>5, <2>1, <2>2, Zenon DEF SyscallInit
<1>7. SchedIInv' /\ SleeperCalls'
  <2>1. SchedIInv'
    BY <1>5, SchedInitInv, PTL
  <2> QED BY <2>1, <1>6 DEF SyscallInit, SleeperCalls
<1>8. Control' /\ Creating' /\ Working' /\ Holding'
  <2>1. Control'
    <3>1. ~wrapped' /\ ~scheduler_enabled' /\ ~halted' /\ sleep_left' = 0
      BY <1>5, <1>6, Zenon DEF Init, HeapInit, SyscallInit
    <3> QED BY <1>2, <1>6, <3>1 DEF Control
  <2>2. Creating'
    BY <1>2, <1>5 DEF Creating, Init
  <2>3. Working'
    BY <1>2, <1>4 DEF Working
  <2>4. Holding'
    BY <1>2 DEF Holding, Live
  <2> QED BY <2>1, <2>2, <2>3, <2>4, Zenon
<1> QED BY <1>2, <1>4, <1>7, <1>8, Zenon DEF BootInv, KmainInv, InKmain

-----------------------------------------------------------------------------
\* What holds wherever Syscalls is used as it should be.
LEMMA Carry ==
  ASSUME SchedIInv, SleeperCalls, [SyscallNext]_allVars
  PROVE  SchedIInv' /\ SleeperCalls'
BY SyscallNextImplements, SleeperNext, SchedNextInv, Zenon

\* kmain has the flow of control at a call of its script.
LEMMA AtFacts ==
  ASSUME BootInv, NEW kind, At(kind)
  PROVE  /\ phase = "kmain" /\ InKmain /\ Entry[1] = kind
         /\ sleep_left = 0 /\ ~halted
         /\ Shape /\ KmainInv
         /\ at \in 1 .. 24
BY Zenon DEF At, InKmain, BootInv, KmainInv, Control

\* A new block starts above all the others.
LEMMA FreshBase ==
  ASSUME SchedIInv, ~wrapped
  PROVE  /\ HeapPtr # 0
         /\ \A b \in blocks : b.base # HeapPtr
<1>0. HeapTypeOK /\ HeapClean
  BY Zenon DEF SchedIInv, Core, TypeOK, Memory
<1>1. HeapPtr \in Nat /\ HeapPtr # 0
  BY <1>0, HeapAssumption DEF HeapClean, BelowPtr
<1>2. \A b \in blocks : b.base \in Nat /\ b.size \in 1 .. (U64 - 1) /\ b.base + b.size <= HeapPtr
  BY <1>0 DEF HeapClean, BelowPtr, HeapTypeOK
<1> QED BY <1>1, <1>2, HeapAssumption

\* The sizes of kmain and of thread stacks do not wrap the check of kmalloc.
LEMMA SmallSizes ==
  ASSUME SchedIInv, ~wrapped, NEW size \in 1 .. THREAD_STACK_SIZE, kmalloc(size)
  PROVE  ~wrapped'
<1>1. HeapPtr \in Nat /\ HeapPtr <= HEAP_START + HEAP_SIZE
  <2>1. HeapClean
    BY Zenon DEF SchedIInv, Memory
  <2> QED BY <2>1, HeapAssumption DEF HeapClean, BelowPtr
<1>2. size \in 0 .. (U64 - 1) /\ size + 7 < U64 /\ HEAP_START \in Nat /\ HEAP_SIZE \in Nat /\ U64 \in Nat
      /\ HEAP_START + HEAP_SIZE + 8192 < U64
  BY HeapAssumption, ScriptAssumption DEF THREAD_STACK_SIZE
<1>3. AlignUp(size) \in Nat /\ AlignUp(size) <= 8192
  BY <1>2 DEF AlignUp, Wrap, THREAD_STACK_SIZE
<1>4. ~(size + 7 >= U64) /\ ~(HeapPtr + AlignUp(size) >= U64)
  BY <1>1, <1>2, <1>3
<1>5. ~Wraps(size)
  BY <1>4, Zenon DEF Wraps
<1>6. CASE KmallocOk(size)
  BY <1>5, <1>6, Zenon DEF KmallocOk
<1>7. CASE KmallocNull(size)
  BY <1>7, Zenon DEF KmallocNull, heapVars
<1> QED BY <1>6, <1>7, Zenon DEF kmalloc

\* kmalloc takes no block away, and a block it returns is there.
LEMMA KmallocBlocks ==
  ASSUME NEW n, n # 0, kmalloc(n)
  PROVE  /\ blocks \subseteq blocks'
         /\ Fits(n) => \E b \in blocks' : b.base = HeapPtr
<1>1. CASE KmallocOk(n)
  <2>1. [base |-> HeapPtr, size |-> n] \in blocks'
    BY <1>1, Zenon DEF KmallocOk
  <2>2. [base |-> HeapPtr, size |-> n].base = HeapPtr
    BY Zenon
  <2> QED BY <1>1, <2>1, <2>2, Zenon DEF KmallocOk
<1>2. CASE KmallocNull(n)
  BY <1>2, Zenon DEF KmallocNull
<1> QED BY <1>1, <1>2, Zenon DEF kmalloc

\* The step of a kmain entry that uses the heap outside of system calls.
LEMMA HeapEntryUses ==
  ASSUME KmainInv, phase = "kmain", at <= 16, sleep_left = 0, OtherHeapUse \/ UNCHANGED vars,
         UNCHANGED sysVars
  PROVE  [SyscallNext]_allVars
<1>1. Calling /\ ~halted
  BY Zenon DEF KmainInv, Working, Pending, Calling, Control
<1>2. CASE OtherHeapUse
  BY <1>1, <1>2, Zenon DEF Next, Outside, SyscallNext
<1>3. CASE UNCHANGED vars
  BY <1>3, Zenon DEF allVars
<1> QED BY <1>2, <1>3, Zenon

\* kmain's kmalloc, at each place.
LEMMA KmallocEntries ==
  ASSUME at \in {1, 2, 3, 6, 10}
  PROVE  /\ Entry[2] \in Pointers /\ Entry[3] \in Sizes /\ Entry[3] # 0
         /\ Entry[3] \in 1 .. THREAD_STACK_SIZE
         /\ Live(at + 1) = Live(at) \cup {Entry[2]}
         /\ Entry[2] \notin Live(at)
<1>1. /\ Entry[3] \in Sizes /\ Entry[3] # 0 /\ Entry[2] \in Pointers
      /\ Entry[3] \in 1 .. THREAD_STACK_SIZE
  <2> DEFINE Used == {64, 100, 128, 256, 4096}
  <2>1. Used \subseteq Sizes
    BY ScriptAssumption
  <2>2. Entry[3] \in Used
    BY KmainEntries DEF Entry
  <2>3. Entry[2] \in Pointers
    BY KmainEntries DEF Entry, Pointers
  <2>4. \A n \in Used : n \in 1 .. THREAD_STACK_SIZE /\ n # 0
    BY DEF THREAD_STACK_SIZE
  <2> HIDE DEF Used
  <2> QED BY <2>1, <2>2, <2>3, <2>4, Zenon
<1>2. Live(1) = {} /\ Live(2) = {"ptr1"} /\ Live(3) = {"ptr1", "ptr2"}
  BY DEF Live
<1>3. Live(4) = {"ptr1", "ptr2", "ptr3"} /\ Live(6) = {"ptr1", "ptr3"}
  BY DEF Live
<1>4. Live(7) = {"ptr1", "ptr3", "ptr4"} /\ Live(10) = {} /\ Live(11) = {"large_ptr"}
  BY DEF Live
<1>5. CASE at = 1
  BY <1>1, <1>2, <1>5, KmainEntries DEF Entry
<1>6. CASE at = 2
  BY <1>1, <1>2, <1>6, KmainEntries DEF Entry
<1>7. CASE at = 3
  BY <1>1, <1>2, <1>3, <1>7, KmainEntries DEF Entry
<1>8. CASE at = 6
  BY <1>1, <1>3, <1>4, <1>8, KmainEntries DEF Entry
<1>9. CASE at = 10
  BY <1>1, <1>4, <1>9, KmainEntries DEF Entry
<1> QED BY <1>5, <1>6, <1>7, <1>8, <1>9

\* kmain's kfree, at each place.
LEMMA KfreeEntries ==
  ASSUME at \in {5, 7, 8, 9, 12}
  PROVE  /\ Entry[2] \in Live(at)
         /\ Live(at + 1) = Live(at) \ {Entry[2]}
<1>1. Live(5) = {"ptr1", "ptr2", "ptr3"} /\ Live(6) = {"ptr1", "ptr3"}
  BY DEF Live
<1>2. Live(7) = {"ptr1", "ptr3", "ptr4"} /\ Live(8) = {"ptr3", "ptr4"} /\ Live(9) = {"ptr4"}
  BY DEF Live
<1>3. Live(10) = {} /\ Live(12) = {"large_ptr"} /\ Live(13) = {}
  BY DEF Live
<1>4. CASE at = 5
  BY <1>1, <1>4, KmainEntries DEF Entry
<1>5. CASE at = 7
  BY <1>2, <1>5, KmainEntries DEF Entry
<1>6. CASE at = 8
  BY <1>2, <1>6, KmainEntries DEF Entry
<1>7. CASE at = 9
  BY <1>2, <1>3, <1>7, KmainEntries DEF Entry
<1>8. CASE at = 12
  BY <1>3, <1>8, KmainEntries DEF Entry
<1> QED BY <1>4, <1>5, <1>6, <1>7, <1>8, Zenon

\* The heap tests come before the threads.
LEMMA HeapTestsKeep ==
  ASSUME KmainInv, phase = "kmain", at \in 1 .. 12, at' \in 2 .. 13, phase' = phase,
         ~wrapped', UNCHANGED schedVars, UNCHANGED sysVars, UNCHANGED <<entry_point, body, ran>>
  PROVE  Control' /\ Creating' /\ Working'
<1>1. UNCHANGED <<tid, state, scheduler_enabled, run_pc>>
  BY Zenon DEF schedVars, tableVars, runVars
<1>2. UNCHANGED <<halted, sleep_left>>
  BY Zenon DEF sysVars
<1>3. Control'
  BY <1>1, <1>2 DEF KmainInv, Control
<1>4. \A i \in Slots : tid'[i] = 0
  BY <1>1 DEF KmainInv, Creating
<1>5. Creating'
  <2>1. at' = 13 => Created(at - 13)'
    BY <1>4, SchedAssumption DEF Created, Slots
  <2> QED BY <1>4, <2>1 DEF Creating
<1>6. Working'
  BY <1>1 DEF KmainInv, Working, Pending
<1> QED BY <1>3, <1>5, <1>6, Zenon

LEMMA CallKmallocInv ==
  ASSUME BootInv, CallKmalloc
  PROVE  BootInv' /\ [SyscallNext]_allVars
<1>1. /\ phase = "kmain" /\ InKmain /\ Entry[1] = "kmalloc" /\ sleep_left = 0
      /\ Shape /\ KmainInv /\ at \in 1 .. 24
  BY AtFacts, Zenon DEF CallKmalloc
<1>2. at \in {1, 2, 3, 6, 10}
  BY <1>1, KmainKinds, Zenon
<1> DEFINE v == Entry[2]
           n == Entry[3]
<1>3. /\ v \in Pointers /\ n \in Sizes /\ n # 0 /\ n \in 1 .. THREAD_STACK_SIZE
      /\ Live(at + 1) = Live(at) \cup {v} /\ v \notin Live(at)
  BY <1>2, KmallocEntries, Zenon
<1>4. /\ kmalloc(n) /\ var' = [var EXCEPT ![v] = IF Fits(n) THEN HeapPtr ELSE 0]
      /\ at' = at + 1 /\ phase' = phase
      /\ UNCHANGED schedVars /\ UNCHANGED sysVars /\ UNCHANGED <<entry_point, body, ran, program>>
  BY Zenon DEF CallKmalloc, Goto
<1> HIDE DEF v, n
<1>5. [SyscallNext]_allVars
  <2>1. OtherHeapUse
    BY <1>3, <1>4, Zenon DEF OtherHeapUse, schedVars
  <2> QED BY <1>1, <1>2, <1>4, <2>1, HeapEntryUses
<1>6. SchedIInv' /\ SleeperCalls'
  BY <1>1, <1>5, Carry, Zenon DEF KmainInv
<1>7. Control' /\ Creating' /\ Working' /\ ~wrapped
  <2>1. ~wrapped
    BY <1>1, <1>2 DEF KmainInv, Control
  <2>2. ~wrapped'
    BY <1>1, <1>3, <1>4, <2>1, SmallSizes, Zenon DEF KmainInv
  <2> QED BY <1>1, <1>2, <1>4, <2>1, <2>2, HeapTestsKeep
<1>8. Shape'
  BY <1>1, <1>3, <1>4, Zenon DEF Shape
<1>9. var'[v] = (IF Fits(n) THEN HeapPtr ELSE 0) /\ \A p \in Live(at) : var'[p] = var[p]
  <2>1. v \in Pointers \cup Tids
    BY <1>3, Zenon
  <2>2. \A p \in Live(at) : p \in Pointers
    BY <1>2, Zenon DEF Live, Pointers
  <2> QED BY <1>1, <1>3, <1>4, <2>1, <2>2, Zenon DEF Shape
<1>10. Holding'
  <2>1. \A b : ~IsStack(b)'
    BY <1>2, <1>4, <1>7 DEF IsStack, Creating
  <2>2. blocks \subseteq blocks' /\ (Fits(n) => \E b \in blocks' : b.base = HeapPtr)
    BY <1>3, <1>4, KmallocBlocks, Zenon
  <2>3. HeapPtr # 0 /\ \A b \in blocks : b.base # HeapPtr
    BY <1>1, <1>7, FreshBase, Zenon DEF KmainInv
  <2>4. \A p \in Live(at) : var[p] # 0 =>
          /\ \E b \in blocks : b.base = var[p]
          /\ \A q \in Live(at) \ {p} : var[q] # var[p]
    BY <1>1, Zenon DEF KmainInv, Holding
  <2>5. \A p \in Live(at) : var'[p] # var'[v] \/ var'[v] = 0
    BY <1>9, <2>3, <2>4, Zenon
  <2>6. ASSUME NEW p \in Live(at)', var'[p] # 0
        PROVE  /\ \E b \in blocks' : b.base = var'[p] /\ ~IsStack(b)'
               /\ \A q \in Live(at)' \ {p} : var'[q] # var'[p]
    <3>1. Live(at)' = Live(at) \cup {v}
      BY <1>3, <1>4, Zenon DEF Live
    <3>2. CASE p = v
      BY <1>9, <2>1, <2>2, <2>5, <2>6, <3>1, <3>2, Zenon
    <3>3. CASE p \in Live(at)
      BY <1>9, <2>1, <2>2, <2>4, <2>5, <2>6, <3>1, <3>3, Zenon
    <3> QED BY <2>6, <3>1, <3>2, <3>3, Zenon
  <2>7. at' # 21
    BY <1>2, <1>4
  <2> QED BY <2>6, <2>7, Zenon DEF Holding
<1> QED BY <1>1, <1>4, <1>5, <1>6, <1>7, <1>8, <1>10, Zenon DEF BootInv, KmainInv, InKmain

LEMMA CallKfreeInv ==
  ASSUME BootInv, CallKfree
  PROVE  BootInv' /\ [SyscallNext]_allVars
<1>1. /\ phase = "kmain" /\ InKmain /\ Entry[1] = "kfree" /\ sleep_left = 0
      /\ Shape /\ KmainInv /\ at \in 1 .. 24
  BY AtFacts, Zenon DEF CallKfree
<1>2. at \in {5, 7, 8, 9, 12}
  BY <1>1, KmainKinds, Zenon
<1> DEFINE v == Entry[2]
<1>3. v \in Live(at) /\ Live(at + 1) = Live(at) \ {v}
  BY <1>2, KfreeEntries, Zenon
<1>4. /\ blocks' = {b \in blocks : b.base # var[v]} /\ UNCHANGED <<simple_heap_ptr, wrapped>>
      /\ at' = at + 1 /\ phase' = phase
      /\ UNCHANGED schedVars /\ UNCHANGED sysVars /\ UNCHANGED testVars
  BY Zenon DEF CallKfree, Goto, kfree
<1>5. UNCHANGED <<var, entry_point, body, ran, program>>
  BY <1>4, Zenon DEF testVars
<1> HIDE DEF v
<1>6. \A b : ~IsStack(b)
  BY <1>1, <1>2 DEF KmainInv, Creating, IsStack
<1>7. [SyscallNext]_allVars
  <2>1. CASE \E b \in blocks : b.base = var[v]
    <3>1. PICK b \in blocks : b.base = var[v]
      BY <2>1, Zenon
    <3>2. OtherHeapUse
      BY <1>4, <1>6, <3>1, Zenon DEF OtherHeapUse, schedVars, kfree
    <3> QED BY <1>1, <1>2, <1>4, <3>2, HeapEntryUses
  <2>2. CASE ~ \E b \in blocks : b.base = var[v]
    <3>1. UNCHANGED blocks
      BY <1>4, <2>2, Zenon
    <3>2. UNCHANGED vars
      BY <1>4, <3>1, Zenon DEF vars, heapVars, schedVars
    <3> QED BY <1>1, <1>2, <1>4, <3>2, HeapEntryUses
  <2> QED BY <2>1, <2>2, Zenon
<1>8. SchedIInv' /\ SleeperCalls'
  BY <1>1, <1>7, Carry, Zenon DEF KmainInv
<1>9. Control' /\ Creating' /\ Working'
  <2>1. ~wrapped'
    BY <1>1, <1>2, <1>4 DEF KmainInv, Control
  <2> QED BY <1>1, <1>2, <1>4, <1>5, <2>1, HeapTestsKeep
<1>10. Shape'
  BY <1>1, <1>4, ShapeKept, Zenon
<1>11. Holding'
  <2>1. \A b : ~IsStack(b)'
    BY <1>2, <1>4, <1>9 DEF IsStack, Creating
  <2>2. \A p \in Live(at) : var[p] # 0 =>
          /\ \E b \in blocks : b.base = var[p]
          /\ \A q \in Live(at) \ {p} : var[q] # var[p]
    BY <1>1, Zenon DEF KmainInv, Holding
  <2>3. Live(at)' = Live(at) \ {v}
    BY <1>3, <1>4, Zenon DEF Live
  <2>4. ASSUME NEW p \in Live(at)', var'[p] # 0
        PROVE  /\ \E b \in blocks' : b.base = var'[p] /\ ~IsStack(b)'
               /\ \A q \in Live(at)' \ {p} : var'[q] # var'[p]
    <3>1. p \in Live(at) /\ p # v /\ var'[p] = var[p] /\ var[p] # 0 /\ var[v] # var[p]
      BY <1>3, <1>5, <2>2, <2>3, <2>4, Zenon
    <3>2. PICK b \in blocks : b.base = var[p]
      BY <2>2, <3>1, Zenon
    <3>3. b \in blocks'
      BY <1>4, <3>1, <3>2, Zenon
    <3> QED BY <1>5, <2>1, <2>2, <2>3, <3>1, <3>2, <3>3, Zenon
  <2>5. at' # 21
    BY <1>2, <1>4
  <2> QED BY <2>4, <2>5, Zenon DEF Holding
<1> QED BY <1>1, <1>4, <1>7, <1>8, <1>9, <1>10, <1>11, Zenon DEF BootInv, KmainInv, InKmain

\* The branches of kmain.
LEMMA TestInv ==
  ASSUME BootInv, Test
  PROVE  BootInv' /\ [SyscallNext]_allVars
<1>1. /\ phase = "kmain" /\ InKmain /\ Entry[1] = "unless" /\ sleep_left = 0
      /\ Shape /\ KmainInv /\ at \in 1 .. 24
  BY AtFacts, Zenon DEF Test
<1>2. at \in {4, 11, 20}
  BY <1>1, KmainKinds, Zenon
<1>3. /\ at = 4 => at' \in {5, 10}
      /\ at = 11 => at' \in {12, 13}
      /\ at = 20 => at' = IF var["ptr"] # 0 THEN 21 ELSE 22
  <2>1. at = 4 => Entry = <<"unless", {"ptr1", "ptr2", "ptr3"}, 5>>
    BY KmainEntries DEF Entry
  <2>2. at = 11 => Entry = <<"unless", {"large_ptr"}, 1>>
    BY KmainEntries DEF Entry
  <2>3. at = 20 => Entry = <<"unless", {"ptr"}, 1>>
    BY KmainEntries DEF Entry
  <2> QED BY <1>2, <2>1, <2>2, <2>3 DEF Test, Goto
<1>4. phase' = phase /\ UNCHANGED allVars /\ UNCHANGED testVars
  BY Zenon DEF Test, Goto
<1>5. /\ UNCHANGED <<var, entry_point, body, ran, program>> /\ UNCHANGED schedVars /\ UNCHANGED sysVars
      /\ UNCHANGED vars /\ UNCHANGED <<blocks, wrapped, tid, stack_base, state, scheduler_enabled, run_pc, halted,
                                        sleep_left>>
  BY <1>4, Zenon DEF testVars, allVars, vars, schedVars, heapVars, tableVars, runVars, sysVars
<1>6. SchedIInv' /\ SleeperCalls'
  BY <1>1, <1>4, Carry, Zenon DEF KmainInv
<1>7. Shape'
  BY <1>1, <1>4, ShapeKept, Zenon
<1>8. Control' /\ Creating' /\ Working'
  <2>1. CASE at \in {4, 11}
    <3>1. ~wrapped'
      BY <1>1, <1>5, <2>1 DEF KmainInv, Control
    <3> QED BY <1>1, <1>3, <1>4, <1>5, <2>1, <3>1, HeapTestsKeep
  <2>2. CASE at = 20
    <3>1. at' \in {21, 22}
      BY <1>3, <2>2, Zenon
    <3>2. Control'
      BY <1>1, <1>4, <1>5, <2>2, <3>1 DEF KmainInv, Control
    <3>3. Creating'
      BY <3>1 DEF Creating
    <3>4. Working'
      BY <1>1, <1>5, <2>2, <3>1 DEF KmainInv, Working, Done
    <3> QED BY <3>2, <3>3, <3>4, Zenon
  <2> QED BY <1>2, <2>1, <2>2, Zenon
<1>9. Holding'
  <2>1. Live(at)' \subseteq Live(at)
    BY <1>2, <1>3 DEF Live
  <2>2. \A b : IsStack(b)' <=> IsStack(b)
    BY <1>5, Zenon DEF IsStack
  <2>3. at' = 21 => var'["ptr"] # 0
    BY <1>2, <1>3, <1>5
  <2>4. \A p \in Live(at) : var[p] # 0 =>
          /\ \E b \in blocks : b.base = var[p] /\ ~IsStack(b)
          /\ \A q \in Live(at) \ {p} : var[q] # var[p]
    BY <1>1, Zenon DEF KmainInv, Holding
  <2>5. \A p \in Live(at)' : var'[p] # 0 =>
          /\ \E b \in blocks' : b.base = var'[p] /\ ~IsStack(b)'
          /\ \A q \in Live(at)' \ {p} : var'[q] # var'[p]
    BY <1>5, <2>1, <2>2, <2>4, Zenon
  <2> QED BY <2>3, <2>5, Zenon DEF Holding
<1> QED BY <1>1, <1>4, <1>6, <1>7, <1>8, <1>9, Zenon DEF BootInv, KmainInv, InKmain

-----------------------------------------------------------------------------
\* The test threads.  thread_create fills the first free slot or changes nothing
\* in the table.
LEMMA CreateResult ==
  ASSUME SchedIInv, ~wrapped, thread_create
  PROVE  /\ \/ UNCHANGED <<tid, state, next_tid>>
            \/ \E slot \in Slots :
                 /\ tid[slot] = 0 /\ \A j \in 0 .. (slot - 1) : tid[j] # 0
                 /\ tid' = [tid EXCEPT ![slot] = next_tid]
                 /\ state' = [state EXCEPT ![slot] = "READY"]
                 /\ next_tid # 0
         /\ UNCHANGED <<run_pc, scheduler_enabled>>
         /\ ~wrapped'
<1>1. next_tid # 0
  <2>1. Budget
    BY Zenon DEF SchedIInv, Memory
  <2> QED BY <2>1, SchedAssumption DEF Budget
<1>2. ~wrapped'
  <2>1. CASE kmalloc(THREAD_STACK_SIZE)
    <3>1. THREAD_STACK_SIZE \in 1 .. THREAD_STACK_SIZE
      BY DEF THREAD_STACK_SIZE
    <3> QED BY <2>1, <3>1, SmallSizes, Zenon
  <2>2. CASE UNCHANGED vars
    BY <2>2, Zenon DEF vars, heapVars
  <2> QED BY <2>1, <2>2, Zenon DEF thread_create, kmalloc
<1> QED BY <1>1, <1>2, Zenon DEF thread_create, FreeSlot, runVars, tableVars, vars

\* The creates of kmain.
LEMMA CreateEntries ==
  ASSUME at \in {13, 14, 15}
  PROVE  Entry[2] = TidNames[at - 12] /\ Entry[3] = at - 12
<1>1. CASE at = 13
  BY <1>1, KmainEntries DEF Entry, TidNames
<1>2. CASE at = 14
  BY <1>2, KmainEntries DEF Entry, TidNames
<1>3. CASE at = 15
  BY <1>3, KmainEntries DEF Entry, TidNames
<1> QED BY <1>1, <1>2, <1>3, Zenon

\* One more thread in the next slot.
LEMMA CreatedNext ==
  ASSUME SchedIInv, ~wrapped, Shape, NEW n \in 0 .. 2, Created(n), thread_create,
         var' = [var EXCEPT ![TidNames[n + 1]] = IF next_tid' # next_tid THEN next_tid ELSE 0],
         entry_point' = [i \in Slots |-> IF tid'[i] # tid[i] THEN n + 1 ELSE entry_point[i]]
  PROVE  Created(n + 1)'
<1> SUFFICES ASSUME \A k \in 1 .. (n + 1) : var'[TidNames[k]] # 0
             PROVE  /\ n + 1 <= MAX_THREADS
                    /\ \A i \in Slots : tid'[i] # 0 <=> i < n + 1
                    /\ \A i \in 0 .. n : entry_point'[i] = i + 1
  BY DEF Created
<1>1. TidNames[1] = "tid1" /\ TidNames[2] = "tid2" /\ TidNames[3] = "tid3"
  BY Zenon DEF TidNames
<1>2. \A k \in 1 .. 3 : TidNames[k] \in Pointers \cup Tids
  BY <1>1 DEF Tids
<1>3. var'[TidNames[n + 1]] = (IF next_tid' # next_tid THEN next_tid ELSE 0)
  BY <1>2 DEF Shape
<1>4. \A k \in 1 .. n : var[TidNames[k]] # 0
  <2> SUFFICES ASSUME NEW k \in 1 .. n PROVE var[TidNames[k]] # 0
    BY Zenon
  <2>1. k \in 1 .. 3 /\ n + 1 \in 1 .. 3 /\ k # n + 1 /\ k \in 1 .. (n + 1)
    OBVIOUS
  <2>2. TidNames[k] # TidNames[n + 1]
    BY <1>1, <2>1
  <2>3. var'[TidNames[k]] = var[TidNames[k]]
    BY <1>2, <2>1, <2>2, Zenon DEF Shape
  <2> QED BY <2>1, <2>3, Zenon
<1>5. /\ n <= MAX_THREADS
      /\ \A i \in Slots : tid[i] # 0 <=> i < n
      /\ \A i \in 0 .. (n - 1) : entry_point[i] = i + 1
  BY <1>4, Zenon DEF Created
<1>6. next_tid' # next_tid
  <2>1. n + 1 \in 1 .. (n + 1)
    OBVIOUS
  <2> QED BY <1>3, <2>1, Zenon
<1>7. PICK slot \in Slots :
        /\ tid[slot] = 0 /\ \A j \in 0 .. (slot - 1) : tid[j] # 0
        /\ tid' = [tid EXCEPT ![slot] = next_tid]
        /\ next_tid # 0
  BY <1>6, CreateResult, Zenon
<1>8. slot = n /\ n + 1 <= MAX_THREADS
  <2>1. slot >= n
    BY <1>5, <1>7 DEF Slots
  <2>2. slot > n => n \in Slots /\ n \in 0 .. (slot - 1)
    BY SchedAssumption DEF Slots
  <2>3. ~(n < n)
    OBVIOUS
  <2>4. ~(slot > n)
    BY <1>5, <1>7, <2>2, <2>3, Zenon
  <2> QED BY <2>1, <2>4, SchedAssumption DEF Slots
<1>9. tid \in [Slots -> 0 .. (U32 - 1)]
  BY Zenon DEF SchedIInv, Core, TypeOK
<1>10. tid'[n] = next_tid /\ \A i \in Slots \ {n} : tid'[i] = tid[i]
  BY <1>7, <1>8, <1>9, Zenon
<1>11. \A i \in Slots : tid'[i] # 0 <=> i < n + 1
  BY <1>5, <1>7, <1>8, <1>10, SchedAssumption DEF Slots
<1>12. \A i \in 0 .. n : entry_point'[i] = i + 1
  <2> SUFFICES ASSUME NEW i \in 0 .. n PROVE entry_point'[i] = i + 1
    BY Zenon
  <2>1. i \in Slots
    BY <1>8, SchedAssumption DEF Slots
  <2>2. CASE i = n
    BY <1>7, <1>8, <1>10, <2>1, <2>2, Zenon
  <2>3. CASE i # n
    BY <1>5, <1>10, <2>1, <2>3
  <2> QED BY <2>2, <2>3, Zenon
<1> QED BY <1>8, <1>11, <1>12, Zenon

LEMMA CallThreadCreateInv ==
  ASSUME BootInv, CallThreadCreate
  PROVE  BootInv' /\ [SyscallNext]_allVars
<1>1. /\ phase = "kmain" /\ InKmain /\ Entry[1] = "create" /\ sleep_left = 0 /\ ~halted
      /\ Shape /\ KmainInv /\ at \in 1 .. 24
  BY AtFacts, Zenon DEF CallThreadCreate
<1>2. at \in {13, 14, 15}
  BY <1>1, KmainKinds, Zenon
<1>3. Entry[2] = TidNames[at - 12] /\ Entry[3] = at - 12
  BY <1>2, CreateEntries, Zenon
<1>4. /\ thread_create
      /\ var' = [var EXCEPT ![TidNames[at - 12]] = IF next_tid' # next_tid THEN next_tid ELSE 0]
      /\ entry_point' = [i \in Slots |-> IF tid'[i] # tid[i] THEN at - 12 ELSE entry_point[i]]
      /\ at' = at + 1 /\ phase' = phase
      /\ UNCHANGED sysVars /\ UNCHANGED <<body, ran, program>>
  BY <1>3, Zenon DEF CallThreadCreate, Goto
<1>5. SchedIInv /\ Control /\ Creating /\ Pending /\ SleeperCalls /\ ~wrapped
  BY <1>1, <1>2 DEF KmainInv, Working, Control
<1>6. [SyscallNext]_allVars
  <2>1. Calling
    BY <1>5, Zenon DEF Pending, Calling
  <2> QED BY <1>1, <1>4, <2>1, Zenon DEF Next, Outside, SyscallNext
<1>7. SchedIInv' /\ SleeperCalls'
  BY <1>5, <1>6, Carry, Zenon
<1>8. Shape'
  BY <1>1, <1>4, Zenon DEF Shape
<1>9. UNCHANGED <<run_pc, scheduler_enabled>> /\ ~wrapped'
  BY <1>4, <1>5, CreateResult, Zenon
<1>10. Control'
  BY <1>1, <1>2, <1>4, <1>5, <1>9 DEF Control, sysVars
<1>11. Creating'
  <2>1. Created(at - 13)
    BY <1>2, <1>5 DEF Creating
  <2>2. /\ at - 13 \in 0 .. 2 /\ (at - 13) + 1 = at - 12
    BY <1>2
  <2>3. PICK n \in 0 .. 2 : n = at - 13 /\ n + 1 = at - 12 /\ Created(n)
    BY <2>1, <2>2, Zenon
  <2>4. /\ var' = [var EXCEPT ![TidNames[n + 1]] = IF next_tid' # next_tid THEN next_tid ELSE 0]
        /\ entry_point' = [i \in Slots |-> IF tid'[i] # tid[i] THEN n + 1 ELSE entry_point[i]]
    BY <1>4, <2>3, Zenon
  <2>5. \A i \in Slots : tid'[i] # 0 => state'[i] = "READY"
    <3>1. \A i \in Slots : tid[i] # 0 => state[i] = "READY"
      BY <1>2, <1>5 DEF Creating
    <3>2. tid \in [Slots -> 0 .. (U32 - 1)] /\ state \in [Slots -> {"READY", "RUNNING", "ZOMBIE"}]
      BY <1>5, Zenon DEF SchedIInv, Core, TypeOK
    <3> QED BY <1>4, <1>5, <3>1, <3>2, CreateResult, Zenon
  <2>6. (at - 13)' = n + 1
    BY <1>2, <1>4, <2>3
  <2>7. Created(at - 13)'
    <3>1. Created(n + 1)'
      BY <1>1, <1>4, <1>5, <2>3, <2>4, CreatedNext, Zenon
    <3> QED
      BY <2>6, <3>1, Zenon DEF Created
  <2> QED BY <1>2, <1>4, <2>5, <2>7 DEF Creating
<1>12. Working'
  BY <1>2, <1>4, <1>5, <1>9 DEF Working, Pending
<1>13. Holding'
  BY <1>2, <1>4 DEF Holding, Live
<1> QED BY <1>1, <1>4, <1>6, <1>7, <1>8, <1>10, <1>11, <1>12, <1>13, Zenon DEF BootInv, KmainInv, InKmain

LEMMA RunWorkersInv ==
  ASSUME BootInv, RunWorkers
  PROVE  BootInv' /\ [SyscallNext]_allVars
<1>1. /\ phase = "kmain" /\ InKmain /\ Entry[1] = "run" /\ sleep_left = 0 /\ ~halted
      /\ Shape /\ KmainInv /\ at \in 1 .. 24
  BY AtFacts, Zenon DEF RunWorkers
<1>2. at = 16
  BY <1>1, KmainKinds, Zenon
<1>3. Entry[2] = Tids
  BY <1>2, KmainEntries DEF Entry
<1>4. /\ at' = 17 /\ phase' = phase
      /\ UNCHANGED sysVars /\ UNCHANGED <<var, entry_point, ran, program>>
  BY <1>2 DEF RunWorkers, Goto
<1>5. SchedIInv /\ Control /\ Creating /\ Pending /\ SleeperCalls
  BY <1>1, <1>2 DEF KmainInv, Working
<1>6. ASSUME \A v \in Tids : var[v] # 0
      PROVE  [SyscallNext]_allVars /\ Threads' /\ UNCHANGED <<scheduler_enabled, wrapped>>
  <2>1. sched_run_threads /\ UNCHANGED body
    BY <1>3, <1>6, Zenon DEF RunWorkers
  <2>2. [SyscallNext]_allVars
    <3>1. MayRun
      BY <1>5, Zenon DEF Control, MayRun
    <3> QED BY <1>1, <1>4, <2>1, <3>1, Zenon DEF Next, Outside, SyscallNext
  <2>3. /\ run_pc' = "scan" /\ run_i' = 0 /\ callers' = <<>>
        /\ UNCHANGED <<tid, state, scheduler_enabled, wrapped>>
    <3>1. run_pc = "idle" /\ callers = <<>>
      BY <1>5, Zenon DEF Pending, SchedIInv, Core, FrameInv
    <3> QED BY <2>1, <3>1 DEF sched_run_threads, outsideRun, heapVars
  <2>4. Threads'
    <3>1. \A k \in 1 .. 3 : var[TidNames[k]] # 0
      BY <1>6 DEF TidNames, Tids
    <3>2. Created(3)
      <4>1. at - 13 = 3 /\ at \in 13 .. 16
        BY <1>2
      <4> QED BY <1>5, <4>1, Zenon DEF Creating
    <3>3. /\ 3 <= MAX_THREADS
          /\ \A i \in Slots : tid[i] # 0 <=> i < 3
          /\ \A i \in 0 .. 2 : entry_point[i] = i + 1
      BY <3>1, <3>2 DEF Created
    <3>4. \A i \in 0 .. 2 : i \in Slots /\ state[i] = "READY"
      BY <1>2, <1>5, <3>3, SchedAssumption DEF Creating, Slots
    <3>5. \A i \in 0 .. 2 : ran[i + 1] = 0
      BY <1>5 DEF Pending, Workers, Iterations
    <3>6. body' = <<>>
      BY <1>5, <2>1, Zenon DEF Pending
    <3> QED BY <1>4, <2>3, <3>3, <3>4, <3>5, <3>6 DEF Threads
  <2> QED BY <1>4, <2>2, <2>3, <2>4, Zenon
<1>7. ASSUME ~ \A v \in Tids : var[v] # 0
      PROVE  [SyscallNext]_allVars /\ Direct' /\ UNCHANGED <<scheduler_enabled, wrapped>>
  <2>1. body' = <<1, 2, 3>> /\ UNCHANGED vars
    BY <1>3, <1>7, Zenon DEF RunWorkers
  <2>2. UNCHANGED <<run_pc, scheduler_enabled, wrapped>>
    BY <2>1, Zenon DEF vars, heapVars, runVars
  <2>3. Direct'
    <3>1. \A w \in Workers : ~(w < 1)
      BY DEF Workers, Iterations
    <3>2. body'[1] = 1
      BY <2>1, Zenon
    <3> QED BY <1>4, <1>5, <2>1, <2>2, <3>1, <3>2, Zenon DEF Direct, Pending
  <2> QED BY <1>4, <2>1, <2>2, <2>3, Zenon DEF allVars
<1>8. [SyscallNext]_allVars /\ (Threads' \/ Direct') /\ UNCHANGED <<scheduler_enabled, wrapped>>
  BY <1>6, <1>7, Zenon
<1>9. SchedIInv' /\ SleeperCalls'
  BY <1>5, <1>8, Carry, Zenon
<1>10. Shape'
  BY <1>1, <1>4, Zenon DEF Shape
<1>11. Control' /\ Creating' /\ Holding'
  BY <1>1, <1>4, <1>5, <1>8 DEF Control, Creating, Holding, Live, sysVars
<1>12. Working'
  BY <1>4, <1>8 DEF Working
<1> QED BY <1>1, <1>4, <1>8, <1>9, <1>10, <1>11, <1>12, Zenon DEF BootInv, KmainInv, InKmain

\* The workers run between two entries of kmain.
LEMMA AtWork ==
  ASSUME BootInv, run_pc # "idle" \/ body # <<>>
  PROVE  /\ InKmain /\ phase = "kmain" /\ at = 17
         /\ sleep_left = 0 /\ ~halted /\ ~scheduler_enabled
         /\ Shape /\ KmainInv
         /\ Threads \/ Direct
<1>1. InKmain /\ KmainInv /\ Shape
  BY Zenon DEF BootInv, Pending
<1>2. at = 17
  BY <1>1 DEF KmainInv, Working, Pending, Done, Control
<1>3. phase = "kmain" /\ sleep_left = 0 /\ ~halted /\ ~scheduler_enabled
  BY <1>1, <1>2 DEF KmainInv, Control
<1> QED BY <1>1, <1>2, <1>3, Zenon DEF KmainInv, Working, Done

\* What a step of a worker keeps besides the workers.
LEMMA WorkStep ==
  ASSUME BootInv, run_pc # "idle" \/ body # <<>>, [SyscallNext]_allVars,
         UNCHANGED <<phase, at, var, entry_point, program, scheduler_enabled, wrapped>>,
         UNCHANGED sysVars,
         ran' = [w \in Workers |-> ran'[w]],
         Threads' \/ Direct' \/ Done'
  PROVE  BootInv'
<1>1. /\ InKmain /\ phase = "kmain" /\ at = 17 /\ Shape /\ KmainInv
  BY AtWork, Zenon
<1>2. SchedIInv' /\ SleeperCalls'
  BY <1>1, Carry, Zenon DEF KmainInv
<1>3. Shape'
  BY <1>1, Zenon DEF Shape
<1>4. Control'
  BY <1>1 DEF KmainInv, Control, sysVars
<1>5. Creating' /\ Holding' /\ Working'
  BY <1>1 DEF Creating, Holding, Live, Working
<1> QED BY <1>1, <1>2, <1>3, <1>4, <1>5, Zenon DEF BootInv, KmainInv, InKmain

LEMMA EnterWorkerInv ==
  ASSUME BootInv, EnterWorker
  PROVE  BootInv' /\ [SyscallNext]_allVars
<1>1. RunEnter /\ run_pc = "scan" /\ run_pc' = "exec"
  BY Zenon DEF EnterWorker, RunEnter
<1>2. /\ sleep_left = 0 /\ ~halted /\ Shape /\ KmainInv /\ Threads
  BY <1>1, AtWork, Zenon DEF Direct
<1>3. UNCHANGED <<phase, at, var, entry_point, ran, program>> /\ UNCHANGED sysVars
  BY Zenon DEF EnterWorker
<1>4. [SyscallNext]_allVars
  BY <1>1, <1>2, <1>3, Zenon DEF Next, Outside, SyscallNext
<1>5. PICK i \in run_i .. (MAX_THREADS - 1) :
        /\ Ready(i)
        /\ \A j \in run_i .. (i - 1) : ~Ready(j)
        /\ state' = [state EXCEPT ![i] = "RUNNING"]
        /\ run_i' = i
  BY <1>1, Zenon DEF RunEnter
<1>6. UNCHANGED <<tid, scheduler_enabled, wrapped, callers>>
  BY <1>1, Zenon DEF RunEnter, outsideRun, heapVars
<1>7. run_i \in 0 .. 3 /\ i \in Slots /\ i < 3 /\ 3 <= MAX_THREADS
  BY <1>2, <1>5, SchedAssumption DEF Threads, Slots, Ready, ReadyIn
<1>8. i = run_i
  <2>1. run_i < 3 => Ready(run_i)
    BY <1>1, <1>2, <1>7, SchedAssumption DEF Threads, Ready, ReadyIn, Slots
  <2>2. run_i < i => run_i \in run_i .. (i - 1) /\ run_i < 3
    BY <1>7, SchedAssumption DEF Slots
  <2>3. run_i <= i
    BY <1>5, <1>7, SchedAssumption DEF Slots
  <2> QED BY <1>5, <1>7, <2>1, <2>2, <2>3, SchedAssumption DEF Slots
<1>9. Threads'
  <2>1. body' = <<run_i' + 1>>
    BY <1>2, <1>5, <1>7, <1>8 DEF EnterWorker, Threads
  <2>2. state \in [Slots -> {"READY", "RUNNING", "ZOMBIE"}]
    BY <1>2, Zenon DEF KmainInv, SchedIInv, Core, TypeOK
  <2>3. \A j \in 0 .. 2 : j > run_i => state'[j] = "READY"
    <3> SUFFICES ASSUME NEW j \in 0 .. 2, j > run_i PROVE state'[j] = "READY"
      BY Zenon
    <3>1. state[j] = "READY" /\ j \in Slots /\ j # i
      BY <1>2, <1>7, <1>8, SchedAssumption DEF Threads, Slots
    <3> QED BY <1>5, <2>2, <3>1, Zenon
  <2> QED BY <1>1, <1>2, <1>3, <1>5, <1>6, <1>7, <1>8, <2>1, <2>3 DEF Threads
<1>10. ran' = [w \in Workers |-> ran'[w]]
  BY <1>2, <1>3, Zenon DEF Shape
<1>11. BootInv'
  BY <1>1, <1>3, <1>4, <1>6, <1>9, <1>10, WorkStep, Zenon
<1> QED BY <1>4, <1>11, Zenon

LEMMA WorkerYieldsInv ==
  ASSUME BootInv, WorkerYields
  PROVE  BootInv' /\ [SyscallNext]_allVars
<1>1. body # <<>> /\ sched_yield
  BY Zenon DEF WorkerYields
<1>2. /\ sleep_left = 0 /\ ~halted /\ ~scheduler_enabled /\ Shape /\ KmainInv
      /\ Threads \/ Direct
  BY <1>1, AtWork, Zenon
<1>3. UNCHANGED <<phase, at, var, entry_point, body, ran, program>> /\ UNCHANGED sysVars
  BY Zenon DEF WorkerYields
<1>4. [SyscallNext]_allVars
  <2>1. Calling
    BY <1>1, <1>2, Zenon DEF Threads, Direct, Calling
  <2> QED BY <1>1, <1>2, <1>3, <2>1, Zenon DEF Next, Outside, SyscallNext
<1>5. UNCHANGED <<tid, state, scheduler_enabled, wrapped, run_pc, run_i, callers>>
  BY <1>1, <1>2, Zenon DEF sched_yield, Yield, heapVars, runVars
<1>6. Threads' \/ Direct'
  BY <1>2, <1>3, <1>5, Zenon DEF Threads, Direct
<1>7. ran' = [w \in Workers |-> ran'[w]]
  BY <1>2, <1>3, Zenon DEF Shape
<1>8. BootInv'
  BY <1>1, <1>3, <1>4, <1>5, <1>6, <1>7, WorkStep, Zenon
<1> QED BY <1>4, <1>8, Zenon

LEMMA WorkerReturnsInv ==
  ASSUME BootInv, WorkerReturns
  PROVE  BootInv' /\ [SyscallNext]_allVars
<1>1. body # <<>>
  BY Zenon DEF WorkerReturns
<1>2. /\ sleep_left = 0 /\ ~halted /\ ~scheduler_enabled /\ Shape /\ KmainInv
      /\ Threads \/ Direct
  BY <1>1, AtWork, Zenon
<1>3. /\ UNCHANGED <<phase, at, var, entry_point, program>> /\ UNCHANGED sysVars
      /\ ran' = [ran EXCEPT ![body[1]] = @ + 1] /\ body' = Tail(body)
      /\ IF run_pc = "exec" THEN RunReturn ELSE UNCHANGED vars
  BY Zenon DEF WorkerReturns
<1>4. Workers = {1, 2, 3}
  BY DEF Workers, Iterations
<1>5. ran' = [w \in Workers |-> ran'[w]]
  BY <1>2, <1>3, Zenon DEF Shape
<1>6. CASE Threads
  <2>1. /\ run_pc = "exec" /\ run_i \in 0 .. 2 /\ body = <<run_i + 1>> /\ RunReturn
    BY <1>1, <1>3, <1>6 DEF Threads
  <2>2. [SyscallNext]_allVars
    BY <1>2, <1>3, <2>1, Zenon DEF Next, Outside, SyscallNext
  <2>3. /\ UNCHANGED <<tid, scheduler_enabled, wrapped, callers>>
        /\ state' = [state EXCEPT ![run_i] = "ZOMBIE"]
        /\ run_pc' = "scan" /\ run_i' = run_i + 1
    BY <2>1, Zenon DEF RunReturn, outsideRun, heapVars, Finished, LoopNext
  <2>4. body' = <<>>
    BY <1>3, <2>1
  <2>5. body[1] = run_i + 1 /\ run_i + 1 \in Workers
    BY <1>4, <2>1
  <2>6. ran[run_i + 1] = 0
    BY <1>6, <2>1 DEF Threads
  <2>7. ran'[run_i + 1] = 1 /\ \A w \in Workers \ {run_i + 1} : ran'[w] = ran[w]
    BY <1>2, <1>3, <2>5, <2>6 DEF Shape
  <2>8. \A i \in 0 .. 2 : ran'[i + 1] = IF i < run_i' THEN 1 ELSE 0
    <3> SUFFICES ASSUME NEW i \in 0 .. 2 PROVE ran'[i + 1] = IF i < run_i + 1 THEN 1 ELSE 0
      BY <2>3, Zenon
    <3>1. i + 1 \in Workers /\ ran[i + 1] = IF i < run_i THEN 1 ELSE 0
      BY <1>4, <1>6 DEF Threads
    <3>2. CASE i = run_i
      BY <2>7, <3>2
    <3>3. CASE i # run_i
      <4>1. i + 1 # run_i + 1 /\ (i < run_i + 1 <=> i < run_i)
        BY <2>1, <3>3
      <4> QED BY <2>7, <3>1, <4>1, Zenon
    <3> QED BY <3>2, <3>3, Zenon
  <2>9. \A i \in 0 .. 2 : i >= run_i' => state'[i] = "READY"
    <3> SUFFICES ASSUME NEW i \in 0 .. 2, i >= run_i + 1 PROVE state'[i] = "READY"
      BY <2>3, Zenon
    <3>1. state[i] = "READY" /\ i # run_i
      BY <1>6, <2>1 DEF Threads
    <3>2. i \in Slots /\ state \in [Slots -> {"READY", "RUNNING", "ZOMBIE"}]
      BY <1>2, <1>6, SchedAssumption DEF KmainInv, SchedIInv, Core, TypeOK, Threads, Slots
    <3> QED BY <2>3, <3>1, <3>2, Zenon
  <2>10. Threads'
    <3>1. run_i' \in 0 .. 3
      BY <2>1, <2>3
    <3>2. run_i' < 3 => state'[run_i'] = "READY"
      BY <2>9, <3>1
    <3>3. \A i \in 0 .. 2 : i > run_i' => state'[i] = "READY"
      BY <2>9, <3>1
    <3> QED BY <1>3, <1>6, <2>3, <2>4, <2>8, <3>1, <3>2, <3>3, Zenon DEF Threads
  <2>11. BootInv'
    BY <1>1, <1>3, <1>5, <2>2, <2>3, <2>10, WorkStep, Zenon
  <2> QED BY <2>2, <2>11, Zenon
<1>7. CASE Direct
  <2>1. run_pc = "idle" /\ UNCHANGED vars
    BY <1>3, <1>7, Zenon DEF Direct
  <2>2. [SyscallNext]_allVars
    BY <1>3, <2>1, Zenon DEF allVars
  <2>3. UNCHANGED <<scheduler_enabled, wrapped, run_pc>>
    BY <2>1, Zenon DEF vars, heapVars, runVars
  <2>4. body \in {<<1, 2, 3>>, <<2, 3>>, <<3>>} /\ \A w \in Workers : ran[w] = IF w < body[1] THEN 1 ELSE 0
    BY <1>7, Zenon DEF Direct
  <2>5. ASSUME body = <<1, 2, 3>> PROVE Direct'
    <3>1. body[1] = 1 /\ body' = <<2, 3>> /\ body'[1] = 2
      BY <1>3, <2>5
    <3>2. ran[1] = 0 /\ ran[2] = 0 /\ ran[3] = 0
      BY <1>4, <2>4, <3>1
    <3>3. ran'[1] = 1 /\ ran'[2] = 0 /\ ran'[3] = 0
      BY <1>2, <1>3, <1>4, <3>1, <3>2 DEF Shape
    <3> QED BY <1>4, <2>1, <2>3, <3>1, <3>3 DEF Direct
  <2>6. ASSUME body = <<2, 3>> PROVE Direct'
    <3>1. body[1] = 2 /\ body' = <<3>> /\ body'[1] = 3
      BY <1>3, <2>6
    <3>2. ran[1] = 1 /\ ran[2] = 0 /\ ran[3] = 0
      BY <1>4, <2>4, <3>1
    <3>3. ran'[1] = 1 /\ ran'[2] = 1 /\ ran'[3] = 0
      BY <1>2, <1>3, <1>4, <3>1, <3>2 DEF Shape
    <3> QED BY <1>4, <2>1, <2>3, <3>1, <3>3 DEF Direct
  <2>7. ASSUME body # <<1, 2, 3>>, body # <<2, 3>> PROVE Done'
    <3>0. body = <<3>>
      BY <2>4, <2>7, Zenon
    <3>1. body[1] = 3 /\ body' = <<>>
      BY <1>3, <3>0
    <3>2. ran[1] = 1 /\ ran[2] = 1 /\ ran[3] = 0
      BY <1>4, <2>4, <3>1
    <3>3. ran'[1] = 1 /\ ran'[2] = 1 /\ ran'[3] = 1
      BY <1>2, <1>3, <1>4, <3>1, <3>2 DEF Shape
    <3> QED BY <1>4, <2>1, <2>3, <3>1, <3>3, Zenon DEF Done
  <2>8. Direct' \/ Done'
    BY <2>4, <2>5, <2>6, <2>7, Zenon
  <2>9. BootInv'
    BY <1>1, <1>3, <1>5, <2>2, <2>3, <2>8, WorkStep, Zenon
  <2> QED BY <2>2, <2>9, Zenon
<1> QED BY <1>2, <1>6, <1>7, Zenon

LEMMA AllThreadsCompletedInv ==
  ASSUME BootInv, AllThreadsCompleted
  PROVE  BootInv' /\ [SyscallNext]_allVars
<1>0. RunFinish /\ run_pc = "scan"
  BY Zenon DEF AllThreadsCompleted, RunFinish
<1>2. /\ sleep_left = 0 /\ ~halted /\ Shape /\ KmainInv /\ Threads
  BY <1>0, AtWork, Zenon DEF Direct
<1>1. RunFinish /\ run_pc = "scan" /\ run_pc' = "idle"
  BY <1>0, <1>2, Zenon DEF RunFinish, Threads
<1>3. UNCHANGED <<phase, at, var, entry_point, body, ran, program>> /\ UNCHANGED sysVars
  BY Zenon DEF AllThreadsCompleted, bootVars
<1>4. [SyscallNext]_allVars
  BY <1>1, <1>2, <1>3, Zenon DEF Next, Outside, SyscallNext
<1>5. UNCHANGED <<scheduler_enabled, wrapped>>
  BY <1>1, Zenon DEF RunFinish, outsideRun, heapVars
<1>6. run_i = 3
  <2>1. run_i \in 0 .. 3
    BY <1>2, Zenon DEF Threads
  <2>2. run_i < 3 => Ready(run_i) /\ run_i \in run_i .. (MAX_THREADS - 1)
    BY <1>1, <1>2, SchedAssumption DEF Threads, Ready, ReadyIn, Slots
  <2>3. ~(run_i < 3)
    BY <1>1, <2>2, Zenon DEF RunFinish
  <2> QED BY <2>1, <2>3
<1>7. Done'
  <2>1. \A i \in 0 .. 2 : ran[i + 1] = 1
    BY <1>2, <1>6 DEF Threads
  <2>2. ran[1] = 1 /\ ran[2] = 1 /\ ran[3] = 1
    <3>1. ran[0 + 1] = 1 /\ ran[1 + 1] = 1 /\ ran[2 + 1] = 1
      BY <2>1
    <3> QED BY <3>1
  <2>3. body = <<>>
    BY <1>1, <1>2, Zenon DEF Threads
  <2> QED BY <1>1, <1>3, <2>2, <2>3 DEF Done, Workers, Iterations
<1>8. ran' = [w \in Workers |-> ran'[w]]
  BY <1>2, <1>3, Zenon DEF Shape
<1>9. BootInv'
  BY <1>1, <1>3, <1>4, <1>5, <1>7, <1>8, WorkStep, Zenon
<1> QED BY <1>4, <1>9, Zenon

-----------------------------------------------------------------------------
\* What a system call leaves alone.
LEMMA DispatchKeeps ==
  ASSUME NEW n, NEW arg, syscall_dispatch(n, arg)
  PROVE  /\ UNCHANGED <<scheduler_enabled, run_pc>>
         /\ n # SYS_EXIT => UNCHANGED halted
         /\ n # SYS_SLEEP => UNCHANGED sleep_left
         /\ n # SYS_MALLOC => UNCHANGED wrapped
<1>1. UNCHANGED run_pc
  BY DispatchKeepsRun, Zenon DEF runVars
<1>2. UNCHANGED vars => UNCHANGED <<scheduler_enabled, wrapped>>
  BY Zenon DEF vars, heapVars
<1>3. sched_yield => UNCHANGED <<scheduler_enabled, wrapped>>
  BY Zenon DEF sched_yield, heapVars
<1>4. UNCHANGED schedVars => UNCHANGED scheduler_enabled
  BY Zenon DEF schedVars
<1>5. CASE Handler(n, arg)
  BY <1>1, <1>2, <1>3, <1>4, <1>5, Zenon DEF Handler, sys_exit, sys_write, sys_read, sys_getpid,
     sys_sleep, sys_yield, sys_malloc, sys_free, kfree
<1>6. CASE Refused(n)
  BY <1>1, <1>2, <1>6, Zenon DEF syscall_dispatch
<1> QED BY <1>5, <1>6, Zenon DEF syscall_dispatch

\* Four calls look at their argument.
LEMMA ArgumentUnused ==
  ASSUME NEW n, NEW arg, n \notin {SYS_WRITE, SYS_SLEEP, SYS_MALLOC, SYS_FREE},
         syscall_dispatch(n, arg)
  PROVE  Arguments(n) = {0} /\ syscall_dispatch(n, 0)
<1>1. Arguments(n) = {0}
  BY Zenon DEF Arguments
<1>2. Handler(n, arg) => Handler(n, 0)
  BY Zenon DEF Handler
<1> QED BY <1>1, <1>2, Zenon DEF syscall_dispatch

LEMMA OtherArguments ==
  /\ Arguments(SYS_WRITE) = {0, 1}
  /\ Arguments(SYS_SLEEP) = Sleeps
  /\ Arguments(SYS_GETPID) = {0}
  /\ Arguments(SYS_YIELD) = {0}
BY DEF Arguments, SYS_WRITE, SYS_SLEEP, SYS_MALLOC, SYS_FREE, SYS_GETPID, SYS_YIELD

\* sys_malloc is kmalloc.
LEMMA MallocIsKmalloc ==
  ASSUME NEW size, syscall_dispatch(SYS_MALLOC, size)
  PROVE  kmalloc(size)
<1>1. ~Refused(SYS_MALLOC)
  BY DEF Refused, Implemented, SYS_MALLOC, MAX_SYSCALLS
<1>2. sys_malloc(size)
  BY <1>1 DEF syscall_dispatch, Handler, SYS_EXIT, SYS_WRITE, SYS_READ, SYS_GETPID, SYS_SLEEP,
     SYS_YIELD, SYS_MALLOC, SYS_FREE
<1> QED BY <1>2, Zenon DEF sys_malloc

\* The block of sys_malloc is no thread's stack.
LEMMA MallocResult ==
  ASSUME SchedIInv, ~wrapped, NEW size, size # 0, syscall_dispatch(SYS_MALLOC, size), ret' # 0
  PROVE  \E b \in blocks' : b.base = ret' /\ ~IsStack(b)'
<1>1. ~Refused(SYS_MALLOC)
  BY DEF Refused, Implemented, SYS_MALLOC, MAX_SYSCALLS
<1>2. sys_malloc(size)
  BY <1>1 DEF syscall_dispatch, Handler, SYS_EXIT, SYS_WRITE, SYS_READ, SYS_GETPID, SYS_SLEEP,
     SYS_YIELD, SYS_MALLOC, SYS_FREE
<1>3. kmalloc(size) /\ Fits(size) /\ ret' = HeapPtr /\ UNCHANGED <<tid, stack_base>>
  BY <1>2, Zenon DEF sys_malloc, schedVars, tableVars
<1>4. PICK b \in blocks' : b.base = HeapPtr
  BY <1>3, KmallocBlocks, Zenon
<1>5. \A i \in Slots : tid[i] # 0 => stack_base[i] # HeapPtr
  <2> SUFFICES ASSUME NEW i \in Slots, tid[i] # 0 PROVE stack_base[i] # HeapPtr
    BY Zenon
  <2> DEFINE s == [base |-> stack_base[i], size |-> THREAD_STACK_SIZE]
  <2>1. s \in blocks
    BY Zenon DEF SchedIInv, Memory, StacksOwned
  <2>2. s.base # HeapPtr
    BY <2>1, FreshBase, Zenon
  <2> QED BY <2>2, Zenon
<1>6. ~IsStack(b)'
  BY <1>3, <1>4, <1>5, Zenon DEF IsStack
<1> QED BY <1>3, <1>4, <1>6, Zenon

\* The number and the argument of each call are of the kind it takes.
LEMMA CallEntries ==
  ASSUME Holding, at \in {17, 18, 19, 21, 22, 23},
         NEW arg, arg = IF Entry[2] = SYS_FREE THEN var["ptr"] ELSE Entry[3]
  PROVE  /\ Entry[2] \in Numbers /\ Entry[2] # SYS_EXIT
         /\ arg \in Arguments(Entry[2])
         /\ Entry[2] = SYS_MALLOC <=> at = 19
         /\ Entry[2] = SYS_SLEEP => at = 22
         /\ at = 19 => arg = 256
<1> DEFINE n == Entry[2]
<1>0. /\ SYS_WRITE \in Numbers /\ SYS_GETPID \in Numbers /\ SYS_SLEEP \in Numbers
      /\ SYS_YIELD \in Numbers /\ SYS_MALLOC \in Numbers /\ SYS_FREE \in Numbers
      /\ 256 \in Sizes /\ 50 \in Sleeps
  BY ScriptAssumption
<1>1. CASE at = 17
  <2>1. Entry[2] = SYS_GETPID /\ Entry[3] = 0
    BY <1>1, KmainEntries DEF Entry
  <2> QED BY <1>0, <1>1, <2>1, OtherArguments DEF SYS_GETPID, SYS_FREE, SYS_EXIT, SYS_MALLOC, SYS_SLEEP
<1>2. CASE at = 18
  <2>1. Entry[2] = SYS_YIELD /\ Entry[3] = 0
    BY <1>2, KmainEntries DEF Entry
  <2> QED BY <1>0, <1>2, <2>1, OtherArguments DEF SYS_YIELD, SYS_FREE, SYS_EXIT, SYS_MALLOC, SYS_SLEEP
<1>3. CASE at = 19
  <2>1. Entry[2] = SYS_MALLOC /\ Entry[3] = 256
    BY <1>3, KmainEntries DEF Entry
  <2> QED BY <1>0, <1>3, <2>1, HeapArguments DEF SYS_FREE, SYS_EXIT, SYS_MALLOC, SYS_SLEEP
<1>4. CASE at = 21
  <2>1. Entry[2] = SYS_FREE
    BY <1>4, KmainEntries DEF Entry
  <2>2. Live(21) = {"ptr"}
    BY DEF Live
  <2>3. \E b \in blocks : b.base = var["ptr"] /\ ~IsStack(b)
    BY <1>4, <2>2, Zenon DEF Holding
  <2>4. var["ptr"] \in Arguments(SYS_FREE)
    BY <2>3, HeapArguments, Zenon
  <2> QED BY <1>0, <1>4, <2>1, <2>4 DEF SYS_FREE, SYS_EXIT, SYS_MALLOC, SYS_SLEEP
<1>5. CASE at = 22
  <2>1. Entry[2] = SYS_SLEEP /\ Entry[3] = 50
    BY <1>5, KmainEntries DEF Entry
  <2> QED BY <1>0, <1>5, <2>1, OtherArguments DEF SYS_FREE, SYS_EXIT, SYS_MALLOC, SYS_SLEEP
<1>6. CASE at = 23
  <2>1. Entry[2] = SYS_WRITE /\ Entry[3] = 1
    BY <1>6, KmainEntries DEF Entry
  <2> QED BY <1>0, <1>6, <2>1, OtherArguments DEF SYS_WRITE, SYS_FREE, SYS_EXIT, SYS_MALLOC, SYS_SLEEP
<1> QED BY <1>1, <1>2, <1>3, <1>4, <1>5, <1>6

LEMMA CallSyscallInv ==
  ASSUME BootInv, CallSyscall
  PROVE  BootInv' /\ [SyscallNext]_allVars
<1>1. /\ phase = "kmain" /\ InKmain /\ Entry[1] = "call" /\ sleep_left = 0 /\ ~halted
      /\ Shape /\ KmainInv /\ at \in 1 .. 24
  BY AtFacts, Zenon DEF CallSyscall
<1>2. at \in {17, 18, 19, 21, 22, 23}
  BY <1>1, KmainKinds, Zenon
<1>3. Done /\ SchedIInv /\ SleeperCalls /\ Control /\ Holding
      /\ ~wrapped
  <2>1. run_pc = "idle" /\ body = <<>>
    BY Zenon DEF CallSyscall
  <2> QED BY <1>1, <1>2, <2>1 DEF KmainInv, Control, Working, Threads, Direct
<1> DEFINE n == Entry[2]
           arg == IF Entry[2] = SYS_FREE THEN var["ptr"] ELSE Entry[3]
<1>4. /\ n \in Numbers /\ n # SYS_EXIT
      /\ arg \in Arguments(n)
      /\ n = SYS_MALLOC <=> at = 19
      /\ n = SYS_SLEEP => at = 22
      /\ at = 19 => arg = 256
  BY <1>2, <1>3, CallEntries
<1>5. /\ syscall_dispatch(n, arg)
      /\ var' = IF n = SYS_MALLOC THEN [var EXCEPT !["ptr"] = ret'] ELSE var
      /\ at' = at + 1 /\ phase' = phase
      /\ UNCHANGED <<entry_point, body, ran, program>>
  BY Zenon DEF CallSyscall, Goto
<1> HIDE DEF n, arg
<1>6. [SyscallNext]_allVars
  <2>1. Calling
    BY <1>3, Zenon DEF Done, Calling
  <2> QED BY <1>1, <1>4, <1>5, <2>1 DEF SyscallNext
<1>7. SchedIInv' /\ SleeperCalls'
  BY <1>3, <1>6, Carry, Zenon
<1>8. Shape'
  BY <1>1, <1>5, Zenon DEF Shape
<1>9. /\ UNCHANGED <<scheduler_enabled, run_pc>> /\ UNCHANGED halted
      /\ n # SYS_SLEEP => UNCHANGED sleep_left
      /\ ~wrapped'
  <2>1. at = 19 => ~wrapped'
    <3> SUFFICES ASSUME at = 19 PROVE ~wrapped'
      BY Zenon
    <3>1. syscall_dispatch(SYS_MALLOC, 256) /\ ~wrapped
      BY <1>3, <1>4, <1>5
    <3>2. kmalloc(256)
      BY <3>1, MallocIsKmalloc, Zenon
    <3>3. 256 \in 1 .. THREAD_STACK_SIZE
      BY DEF THREAD_STACK_SIZE
    <3> QED BY <1>3, <3>1, <3>2, <3>3, SmallSizes, Zenon
  <2> QED BY <1>3, <1>4, <1>5, <2>1, DispatchKeeps
<1>10. Control'
  BY <1>1, <1>2, <1>3, <1>4, <1>5, <1>9 DEF Control
<1>11. Creating'
  BY <1>2, <1>5 DEF Creating
<1>12. Working'
  BY <1>2, <1>3, <1>5, <1>9 DEF Working, Done
<1>13. Holding'
  <2>1. CASE at = 19
    <3>1. Live(at)' = {"ptr"} /\ at' # 21
      BY <1>5, <2>1 DEF Live
    <3>2. var'["ptr"] = ret'
      BY <1>1, <1>4, <1>5, <2>1, Zenon DEF Shape, Pointers
    <3>3. syscall_dispatch(SYS_MALLOC, 256)
      BY <1>4, <1>5, <2>1, Zenon
    <3>4. ret' # 0 => \E b \in blocks' : b.base = ret' /\ ~IsStack(b)'
      BY <1>3, <2>1, <3>3, MallocResult
    <3> QED BY <3>1, <3>2, <3>4, Zenon DEF Holding
  <2>2. CASE at # 19
    <3>1. at' \in {18, 19, 22, 23, 24}
      BY <1>2, <1>5, <2>2
    <3>2. Live(at)' = {} /\ at' # 21
      BY <3>1 DEF Live
    <3> QED BY <3>2, Zenon DEF Holding
  <2> QED BY <2>1, <2>2, Zenon
<1> QED BY <1>1, <1>5, <1>6, <1>7, <1>8, <1>10, <1>11, <1>12, <1>13, Zenon DEF BootInv, KmainInv, InKmain

\* Steps after the calls of kmain: it sleeps, or user mode runs.
LEMMA LateStep ==
  ASSUME BootInv, InKmain, at \in 23 .. 24, [SyscallNext]_allVars, at' = at, InKmain',
         phase' # "kmain" => at' = 24,
         phase' # "user" => ~halted' /\ ~wrapped',
         UNCHANGED <<scheduler_enabled, run_pc, body, ran>>, Shape'
  PROVE  BootInv'
<1>1. KmainInv /\ Done
  BY DEF BootInv, KmainInv, Working
<1>2. SchedIInv' /\ SleeperCalls'
  BY <1>1, Carry, Zenon DEF KmainInv
<1>3. Control'
  BY <1>1 DEF KmainInv, Control
<1>4. Creating' /\ Working'
  BY <1>1 DEF Creating, Working, Done
<1>5. Holding'
  BY DEF Holding, Live
<1> QED BY <1>2, <1>3, <1>4, <1>5, Zenon DEF BootInv, KmainInv

LEMMA SleepInv ==
  ASSUME BootInv, Sleep
  PROVE  BootInv' /\ [SyscallNext]_allVars
<1>1. SleepYield /\ UNCHANGED bootVars /\ sleep_left > 0
  BY Zenon DEF Sleep, SleepYield
<1>2. /\ UNCHANGED <<phase, at, body, ran, halted, scheduler_enabled, wrapped, run_pc>>
      /\ UNCHANGED testVars
  BY <1>1, Zenon DEF bootVars, testVars, SleepYield, sched_yield, heapVars, runVars
<1>3. [SyscallNext]_allVars
  BY <1>1, Zenon DEF SyscallNext
<1>4. InKmain
  BY <1>1 DEF BootInv, Early
<1>5. /\ at \in 23 .. 24 /\ (phase # "kmain" => at = 24)
      /\ (phase # "user" => ~halted /\ ~wrapped) /\ Shape
  BY <1>1, <1>4 DEF BootInv, KmainInv, Control
<1>6. InKmain' /\ Shape'
  BY <1>2, <1>4, <1>5, ShapeKept, Zenon DEF InKmain
<1> QED BY <1>2, <1>3, <1>4, <1>5, <1>6, LateStep, Zenon

LEMMA TestUserModeInv ==
  ASSUME BootInv, test_user_mode
  PROVE  BootInv' /\ [SyscallNext]_allVars
<1>1. /\ phase = "kmain" /\ InKmain /\ Entry[1] = "user" /\ ~halted /\ Shape /\ at \in 1 .. 24
      /\ ~wrapped
  <2>1. phase = "kmain" /\ KmainInv
    BY AtFacts, Zenon DEF test_user_mode
  <2>2. ~wrapped
    BY <2>1 DEF KmainInv, Control
  <2> QED BY <2>2, AtFacts, Zenon DEF test_user_mode
<1>2. at = 24
  BY <1>1, KmainKinds, Zenon
<1>3. phase' \in {"user", "ready"} /\ at' = at /\ UNCHANGED allVars /\ UNCHANGED testVars
  BY Zenon DEF test_user_mode, Enter
<1>4. UNCHANGED <<scheduler_enabled, wrapped, run_pc, body, ran, halted>>
  BY <1>3, Zenon DEF allVars, vars, heapVars, runVars, sysVars, testVars
<1>5. InKmain' /\ Shape'
  BY <1>1, <1>3, ShapeKept, Zenon DEF InKmain
<1> QED BY <1>1, <1>2, <1>3, <1>4, <1>5, LateStep

LEMMA UserSyscallInv ==
  ASSUME BootInv, UserSyscall
  PROVE  BootInv' /\ [SyscallNext]_allVars
<1> DEFINE n == program[1][1]
           arg == program[1][2]
<1>1. /\ phase = "user" /\ program # <<>> /\ sleep_left = 0 /\ ~halted
      /\ syscall_dispatch(n, arg) /\ program' = Tail(program)
      /\ UNCHANGED <<phase, at, var, entry_point, body, ran>>
  BY Zenon DEF UserSyscall
<1>2. InKmain /\ KmainInv /\ Shape
  BY <1>1, Zenon DEF BootInv, InKmain
<1>3. at = 24 /\ Done
  BY <1>1, <1>2 DEF KmainInv, Control, Working
<1>4. program[1] \in UserCalls /\ Tail(program) \in Seq(UserCalls)
  <2>1. program \in Seq(UserCalls)
    BY <1>2, Zenon DEF Shape
  <2> QED BY <1>1, <2>1
<1>5. /\ n \in Numbers /\ n # SYS_FREE
      /\ n = SYS_WRITE => arg \in {0, 1}
      /\ n = SYS_SLEEP => arg \in Sleeps
      /\ n = SYS_MALLOC => arg \in Sizes
  BY <1>4, Zenon DEF UserCalls
<1> HIDE DEF n, arg
<1>6. \E a \in Arguments(n) : syscall_dispatch(n, a)
  <2>1. CASE n \in {SYS_WRITE, SYS_SLEEP, SYS_MALLOC}
    BY <1>1, <1>5, <2>1, OtherArguments, HeapArguments, Zenon
  <2>2. CASE n \notin {SYS_WRITE, SYS_SLEEP, SYS_MALLOC}
    <3>1. Arguments(n) = {0} /\ syscall_dispatch(n, 0)
      BY <1>1, <1>5, <2>2, ArgumentUnused, Zenon
    <3>2. 0 \in Arguments(n)
      BY <3>1, Zenon
    <3> QED BY <3>1, <3>2, Zenon
  <2> QED BY <2>1, <2>2, Zenon
<1>7. [SyscallNext]_allVars
  <2>1. Calling
    BY <1>3, Zenon DEF Done, Calling
  <2> QED BY <1>1, <1>5, <1>6, <2>1, Zenon DEF SyscallNext
<1>8. Shape'
  BY <1>1, <1>2, <1>4, Zenon DEF Shape
<1>9. UNCHANGED <<scheduler_enabled, run_pc>>
  BY <1>1, DispatchKeeps, Zenon
<1>10. InKmain'
  BY <1>1, <1>2, Zenon DEF InKmain
<1> QED BY <1>1, <1>2, <1>3, <1>7, <1>8, <1>9, <1>10, LateStep

-----------------------------------------------------------------------------
\* Every step of the boot.
LEMMA BootStep ==
  ASSUME BootInv, BootNext
  PROVE  BootInv' /\ (InKmain => [SyscallNext]_allVars)
<1>1. CASE ClearBss
  BY <1>1, ClearBssInv, Zenon DEF ClearBss, InKmain
<1>2. CASE sched_init
  BY <1>2, SchedInitStepInv, Zenon DEF sched_init, InKmain
<1>3. CASE syscall_init
  BY <1>3, SyscallInitStepInv, Zenon DEF syscall_init, InKmain
<1>4. CASE CallKmalloc
  BY <1>4, CallKmallocInv, Zenon
<1>5. CASE CallKfree
  BY <1>5, CallKfreeInv, Zenon
<1>6. CASE Test
  BY <1>6, TestInv, Zenon
<1>7. CASE CallThreadCreate
  BY <1>7, CallThreadCreateInv, Zenon
<1>8. CASE RunWorkers
  BY <1>8, RunWorkersInv, Zenon
<1>9. CASE EnterWorker
  BY <1>9, EnterWorkerInv, Zenon
<1>10. CASE WorkerYields
  BY <1>10, WorkerYieldsInv, Zenon
<1>11. CASE WorkerReturns
  BY <1>11, WorkerReturnsInv, Zenon
<1>12. CASE AllThreadsCompleted
  BY <1>12, AllThreadsCompletedInv, Zenon
<1>13. CASE CallSyscall
  BY <1>13, CallSyscallInv, Zenon
<1>14. CASE Sleep
  BY <1>14, SleepInv, Zenon
<1>15. CASE test_user_mode
  BY <1>15, TestUserModeInv, Zenon
<1>16. CASE UserSyscall
  BY <1>16, UserSyscallInv, Zenon
<1> QED BY <1>1, <1>2, <1>3, <1>4, <1>5, <1>6, <1>7, <1>8, <1>9, <1>10, <1>11, <1>12, <1>13,
           <1>14, <1>15, <1>16 DEF BootNext

\* A step that changes nothing.
LEMMA BootStutter ==
  ASSUME BootInv, UNCHANGED systemVars
  PROVE  BootInv'
<1>1. UNCHANGED allVars /\ UNCHANGED bootVars
  BY Zenon DEF systemVars
<1>2. UNCHANGED bootVars => UNCHANGED <<phase, at, var, entry_point, body, ran, program>>
  BY Zenon DEF bootVars
<1>3. UNCHANGED vars /\ UNCHANGED sysVars
  BY <1>1, Zenon DEF allVars
<1>4. UNCHANGED <<simple_heap_ptr, blocks, wrapped, tid, state, time_slice, stack_base,
                  current_thread, next_tid, active_thread_count, scheduler_ticks,
                  scheduler_enabled, run_pc, run_i, run_tid, callers, run_nested, again>>
  BY <1>3, Zenon DEF vars, heapVars, tableVars, runVars
<1>5. UNCHANGED <<syscall_counts, total_syscalls, sleep_left, halted, ret>>
  BY <1>3, Zenon DEF sysVars
<1>6. Shape' /\ (Pending => Pending') /\ (InKmain' <=> InKmain)
  BY <1>1, <1>2, <1>4, Zenon DEF BootInv, Shape, Pending, InKmain
<1>7. Init => Init'
  BY <1>4, Zenon DEF Init, HeapInit
<1>8. ASSUME ~InKmain PROVE Early'
  BY <1>1, <1>2, <1>4, <1>5, <1>7, <1>8, Zenon DEF BootInv, Early
<1>9. ASSUME InKmain PROVE KmainInv'
  <2>1. KmainInv
    BY <1>9, Zenon DEF BootInv
  <2>2. SchedIInv' /\ SleeperCalls'
    BY <1>1, <2>1, Carry, Zenon DEF KmainInv
  <2>3. Control'
    BY <1>1, <1>2, <1>4, <1>5, <1>7, <2>1, Zenon DEF KmainInv, Control, SyscallInit
  <2>4. Creating'
    BY <1>1, <1>2, <1>4, <2>1, Zenon DEF KmainInv, Creating, Created
  <2>5. Working'
    BY <1>1, <1>2, <1>4, <2>1 DEF KmainInv, Working, Pending, Threads, Direct, Done
  <2>6. Holding'
    BY <1>1, <1>2, <1>4, <2>1 DEF KmainInv, Holding, Live, IsStack
  <2> QED BY <2>2, <2>3, <2>4, <2>5, <2>6, Zenon DEF KmainInv
<1> QED BY <1>6, <1>8, <1>9, Zenon DEF BootInv

\* The boot keeps its invariant, whatever .bss held, however small the heap and
\* the thread table are, and for every user program: from kmain on the scheduler
\* and the heap are as their specifications say.
THEOREM BootInvariant == BootSpec => []BootInv
<1>1. BootInv /\ [BootNext]_systemVars => BootInv'
  BY BootStep, BootStutter, Zenon
<1> QED BY <1>1, BootInitInv, PTL DEF BootSpec

\* kmain, its threads and the user program use heap, scheduler and system calls as
\* Syscalls lets its clients: what is proved there holds in the booted kernel.
THEOREM BootUsesSyscallsTheorem == BootSpec => BootUsesSyscalls
<1>1. BootInv => (phase = "kmain" /\ at = 1 => SyscallInit)
  BY Zenon DEF BootInv, InKmain, KmainInv, Control
<1>2. BootInv /\ [BootNext]_systemVars => [InKmain => SyscallNext]_allVars
  BY BootStep, Zenon DEF systemVars
<1> QED BY <1>1, <1>2, BootInvariant, PTL DEF BootSpec, BootUsesSyscalls

\* In the booted kernel, from kmain on: blocks of the heap are disjoint, every
\* thread owns its stack, no block of sys_malloc covers one, sys_getpid gives an
\* executing thread its own tid, and current_thread never dangles.  Only a size
\* that a user program passes to SYS_MALLOC can wrap the heap's check and void
\* what is said of memory.
THEOREM BootedKernelSound ==
  BootSpec => [](InKmain => /\ HeapSound /\ StacksOwned /\ MallocOutsideStacks
                            /\ PidIsOwn /\ CurrentIsRunning
                            /\ phase # "user" => ~wrapped)
<1>1. BootInv => (InKmain => /\ HeapSound /\ StacksOwned /\ MallocOutsideStacks
                             /\ PidIsOwn /\ CurrentIsRunning
                             /\ phase # "user" => ~wrapped)
  <2> SUFFICES ASSUME BootInv, InKmain
               PROVE  /\ HeapSound /\ StacksOwned /\ MallocOutsideStacks
                      /\ PidIsOwn /\ CurrentIsRunning
                      /\ phase # "user" => ~wrapped
    BY Zenon
  <2>1. SchedIInv /\ (phase # "user" => ~wrapped)
    BY Zenon DEF BootInv, KmainInv, Control
  <2>2. HeapSound /\ StacksOwned /\ CurrentIsRunning
    BY <2>1, Zenon DEF SchedIInv, Core, Memory, HeapClean, HeapSound, StacksOwned
  <2> QED BY <2>1, <2>2, PidFromInv, OutsideFromInv, Zenon
<1> QED BY <1>1, BootInvariant, PTL

\* Each test thread's body runs exactly once before the next test, as a thread or,
\* when a thread_create failed, by the direct call.
THEOREM WorkersRunOnceTheorem == BootSpec => []WorkersRunOnce
<1>1. BootInv => WorkersRunOnce
  <2> SUFFICES ASSUME BootInv PROVE WorkersRunOnce
    BY Zenon
  <2>1. ThreadsTested = 16
    BY DEF ThreadsTested, test_memory_management, test_threading_system
  <2>2. Workers = {1, 2, 3}
    BY DEF Workers, Iterations
  <2>3. CASE ~InKmain
    BY <2>1, <2>3 DEF BootInv, Early, Pending, WorkersRunOnce
  <2>4. CASE InKmain
    <3>1. at \in 1 .. 24 /\ Working
      BY <2>4, Zenon DEF BootInv, KmainInv, Control
    <3>2. at > 17 => Done
      BY <3>1, Zenon DEF Working
    <3>3. Pending \/ Threads \/ Direct \/ Done
      BY <3>1 DEF Working
    <3>4. Threads => \A w \in Workers : ran[w] <= 1
      <4> SUFFICES ASSUME Threads PROVE ran[1] <= 1 /\ ran[2] <= 1 /\ ran[3] <= 1
        BY <2>2, Zenon
      <4>1. \A i \in 0 .. 2 : ran[i + 1] <= 1
        BY DEF Threads
      <4>2. ran[0 + 1] <= 1 /\ ran[1 + 1] <= 1 /\ ran[2 + 1] <= 1
        BY <4>1
      <4> QED BY <4>2
    <3>5. \A w \in Workers : ran[w] <= 1
      BY <3>3, <3>4 DEF Pending, Direct, Done
    <3> QED BY <2>1, <3>2, <3>5 DEF WorkersRunOnce, Done
  <2> QED BY <2>3, <2>4, Zenon
<1> QED BY <1>1, BootInvariant, PTL
=============================================================================
