-------------------------------- MODULE Boot --------------------------------
(***************************************************************************)
(* The boot of the built kernel, minimal_test.c, as the client of the      *)
(* heap, the scheduler and the system calls: x86_early_init as far as it   *)
(* touches their statics, the tests that kmain runs, with the bodies of    *)
(* its threads, and the user program that test_user_mode enters.  The rest *)
(* of x86_early_init is in KernelPaging, FaultEntry, PmmSimple and UserAs. *)
(* kmain is a script, one entry for each call it makes.                    *)
(***************************************************************************)
EXTENDS Syscalls

CONSTANTS
  Programs,     \* what may run in user mode: sequences of <<number, argument>>
  JunkWords     \* what .bss may hold before it is cleared

\* A system call of user mode: SYS_FREE needs a pointer that the kernel handed
\* out, and no program in the source uses it.
UserCalls ==
  {c \in Numbers \X Nat :
     /\ c[1] # SYS_FREE
     /\ c[1] = SYS_WRITE => c[2] \in {0, 1}
     /\ c[1] = SYS_SLEEP => c[2] \in Sleeps
     /\ c[1] = SYS_MALLOC => c[2] \in Sizes}

\* The numbers, sizes and times that kmain's tests use are among the constants,
\* and none of these sizes reaches from the heap to the end of the address space.
ASSUME ScriptAssumption ==
  /\ Programs \subseteq Seq(UserCalls)
  /\ {64, 100, 128, 256, 4096} \subseteq Sizes
  /\ HEAP_START + HEAP_SIZE + THREAD_STACK_SIZE < U64
  /\ {SYS_WRITE, SYS_GETPID, SYS_SLEEP, SYS_YIELD, SYS_MALLOC, SYS_FREE} \subseteq Numbers
  /\ 50 \in Sleeps

VARIABLES
  phase,        \* the part of the boot
  at,           \* the next entry of kmain's script
  var,          \* kmain's pointers and tids
  entry_point,  \* which worker each slot of thread_table is for
  body,         \* the workers still to be called: the first one is executing
  left,         \* yields that it still makes
  ran,          \* how often each worker ran to its end
  program       \* what user mode still calls

bootVars == <<phase, at, var, entry_point, body, left, ran, program>>
systemVars == <<allVars, bootVars>>

Pointers == {"ptr1", "ptr2", "ptr3", "ptr4", "large_ptr", "ptr"}
Tids == {"tid1", "tid2", "tid3"}

\* The loops of test_thread1, test_thread2 and test_thread3.
Iterations == <<3, 3, 2>>
Workers == DOMAIN Iterations

-----------------------------------------------------------------------------
\* The entries: a call, where its result goes, its arguments.  "unless" skips
\* entries when one of the variables is 0.  SYS_FREE is called with ptr.
Kmalloc(v, size) == <<"kmalloc", v, size>>
Kfree(v) == <<"kfree", v>>
Unless(vs, n) == <<"unless", vs, n>>
Create(v, w) == <<"create", v, w>>
Call(n, arg) == <<"call", n, arg>>

test_memory_management ==
  << Kmalloc("ptr1", 64), Kmalloc("ptr2", 128), Kmalloc("ptr3", 256),
     Unless({"ptr1", "ptr2", "ptr3"}, 5),
     Kfree("ptr2"), Kmalloc("ptr4", 100), Kfree("ptr1"), Kfree("ptr3"), Kfree("ptr4"),
     Kmalloc("large_ptr", 4096), Unless({"large_ptr"}, 1), Kfree("large_ptr") >>

test_threading_system ==
  << Create("tid1", 1), Create("tid2", 2), Create("tid3", 3), <<"run", Tids>> >>

test_system_calls ==
  << Call(SYS_GETPID, 0), Call(SYS_YIELD, 0),
     Call(SYS_MALLOC, 256), Unless({"ptr"}, 1), Call(SYS_FREE, 0),
     Call(SYS_SLEEP, 50), Call(SYS_WRITE, 1) >>

kmain ==
  test_memory_management \o test_threading_system \o test_system_calls \o <<<<"user">>>>

\* The payload that the build copies to user space, and the two programs of
\* user_init.c that it could.
user_payload == <<<<SYS_EXIT, 99>>>>
simple_user_loop == <<<<SYS_WRITE, 1>>, <<SYS_EXIT, 0>>>>
user_init_main ==
  << <<SYS_WRITE, 1>>, <<SYS_WRITE, 1>>, <<SYS_WRITE, 1>>,
     <<SYS_GETPID, 0>>, <<SYS_WRITE, 1>>,
     <<SYS_WRITE, 1>>, <<SYS_YIELD, 0>>, <<SYS_WRITE, 1>>,
     <<SYS_WRITE, 1>>, <<SYS_SLEEP, 100>>, <<SYS_WRITE, 1>>,
     <<SYS_WRITE, 1>>, <<SYS_EXIT, 0>> >>

Entry == kmain[at]
At(kind) == phase = "kmain" /\ Entry[1] = kind /\ sleep_left = 0
Goto(n) == at' = n /\ UNCHANGED phase
Enter(p) == phase' = p /\ UNCHANGED at

\* Tests that come after the threads.
ThreadsTested == Len(test_memory_management) + Len(test_threading_system)

-----------------------------------------------------------------------------
\* The image holds next_tid; the other statics are in .bss, whose memory may
\* hold anything; each array is filled with one word.
BootInit ==
  /\ simple_heap_ptr \in JunkWords /\ blocks = {} /\ wrapped = FALSE
  /\ \E junk \in JunkWords :
       /\ tid = [i \in Slots |-> junk] /\ time_slice = [i \in Slots |-> junk]
       /\ stack_base = [i \in Slots |-> junk] /\ entry_point = [i \in Slots |-> junk]
  /\ \E junk \in {"READY", "RUNNING", "ZOMBIE"} : state = [i \in Slots |-> junk]
  /\ current_thread \in {NULL, 0} /\ next_tid = 1
  /\ active_thread_count \in JunkWords /\ scheduler_ticks \in JunkWords
  /\ scheduler_enabled \in BOOLEAN
  /\ run_pc = "idle" /\ run_i = 0 /\ run_tid = 0
  /\ callers = <<>> /\ run_nested = FALSE /\ again = {}
  /\ total_syscalls \in JunkWords
  /\ \E junk \in JunkWords : syscall_counts = [n \in 0 .. (MAX_SYSCALLS - 1) |-> junk]
  /\ sleep_left = 0 /\ halted = FALSE /\ ret = 0
  /\ phase = "activate_kernel_page_tables" /\ at = 1
  /\ var = [v \in Pointers \cup Tids |-> 0]
  /\ body = <<>> /\ left = 0
  /\ ran = [w \in Workers |-> 0]
  /\ program \in Programs

testVars == <<var, entry_point, body, left, ran, program>>

BssNotCleared ==
  /\ phase = "activate_kernel_page_tables"
  /\ Enter("sched_init")
  /\ UNCHANGED <<allVars, testVars>>

\* .bss becomes zero; 0 is also the state READY.
ClearBss ==
  /\ phase = "activate_kernel_page_tables"
  /\ simple_heap_ptr' = 0
  /\ tid' = [i \in Slots |-> 0] /\ state' = [i \in Slots |-> "READY"]
  /\ time_slice' = [i \in Slots |-> 0] /\ stack_base' = [i \in Slots |-> 0]
  /\ entry_point' = [i \in Slots |-> 0]
  /\ current_thread' = NULL
  /\ active_thread_count' = 0 /\ scheduler_ticks' = 0
  /\ scheduler_enabled' = FALSE
  /\ total_syscalls' = 0
  /\ syscall_counts' = [n \in DOMAIN syscall_counts |-> 0]
  /\ Enter("sched_init")
  /\ UNCHANGED <<blocks, wrapped, next_tid, runVars, sleep_left, halted, ret,
                 var, body, left, ran, program>>

sched_init ==
  /\ phase = "sched_init"
  /\ current_thread' = NULL /\ next_tid' = 1
  /\ active_thread_count' = 0 /\ scheduler_ticks' = 0
  /\ scheduler_enabled' = FALSE
  /\ tid' = [i \in Slots |-> 0] /\ state' = [i \in Slots |-> "ZOMBIE"]
  /\ time_slice' = [i \in Slots |-> 0] /\ stack_base' = [i \in Slots |-> 0]
  /\ entry_point' = [i \in Slots |-> 0]
  /\ Enter("syscall_init")
  /\ UNCHANGED <<heapVars, runVars, sysVars, var, body, left, ran, program>>

syscall_init ==
  /\ phase = "syscall_init"
  /\ total_syscalls' = 0
  /\ syscall_counts' = [n \in DOMAIN syscall_counts |-> 0]
  /\ Enter("kmain")
  /\ UNCHANGED <<vars, sleep_left, halted, ret, testVars>>

-----------------------------------------------------------------------------
CallKmalloc ==
  /\ At("kmalloc")
  /\ kmalloc(Entry[3])
  /\ var' = [var EXCEPT ![Entry[2]] = IF Fits(Entry[3]) THEN HeapPtr ELSE 0]
  /\ Goto(at + 1)
  /\ UNCHANGED <<schedVars, sysVars, entry_point, body, left, ran, program>>

CallKfree ==
  /\ At("kfree")
  /\ kfree(var[Entry[2]])
  /\ Goto(at + 1)
  /\ UNCHANGED <<schedVars, sysVars, testVars>>

Test ==
  /\ At("unless")
  /\ Goto(at + 1 + (IF \A v \in Entry[2] : var[v] # 0 THEN 0 ELSE Entry[3]))
  /\ UNCHANGED <<allVars, testVars>>

\* The tid that thread_create returned.
CallThreadCreate ==
  /\ At("create")
  /\ thread_create
  /\ var' = [var EXCEPT ![Entry[2]] = IF next_tid' # next_tid THEN next_tid ELSE 0]
  /\ entry_point' = [i \in Slots |-> IF tid'[i] # tid[i] THEN Entry[3] ELSE entry_point[i]]
  /\ Goto(at + 1)
  /\ UNCHANGED <<sysVars, body, left, ran, program>>

\* With all threads created, sched_run_threads; otherwise the bodies are called
\* directly.
RunWorkers ==
  /\ At("run") /\ run_pc = "idle" /\ body = <<>>
  /\ IF \A v \in Entry[2] : var[v] # 0
     THEN sched_run_threads /\ UNCHANGED <<body, left>>
     ELSE /\ body' = <<1, 2, 3>> /\ left' = Iterations[1]
          /\ UNCHANGED vars
  /\ Goto(at + 1)
  /\ UNCHANGED <<sysVars, var, entry_point, ran, program>>

EnterWorker ==
  /\ RunEnter
  /\ body' = <<entry_point[run_i']>>
  /\ left' = Iterations[body'[1]]
  /\ UNCHANGED <<sysVars, phase, at, var, entry_point, ran, program>>

IterationLost == left

Iteration == left - 1

\* An iteration of the executing worker.
WorkerYields ==
  /\ body # <<>> /\ left > 0
  /\ sched_yield
  /\ left' = Iteration
  /\ UNCHANGED <<sysVars, phase, at, var, entry_point, body, ran, program>>

\* It returns to sched_run_threads, or to the next direct call.
WorkerReturns ==
  /\ body # <<>> /\ left = 0
  /\ IF run_pc = "exec" THEN RunReturn ELSE UNCHANGED vars
  /\ ran' = [ran EXCEPT ![body[1]] = @ + 1]
  /\ body' = Tail(body)
  /\ left' = IF Len(body) > 1 THEN Iterations[body[2]] ELSE 0
  /\ UNCHANGED <<sysVars, phase, at, var, entry_point, program>>

AllThreadsCompleted ==
  /\ RunFinish
  /\ UNCHANGED <<sysVars, bootVars>>

CallSyscall ==
  /\ At("call") /\ run_pc = "idle" /\ body = <<>>
  /\ syscall_dispatch(Entry[2], IF Entry[2] = SYS_FREE THEN var["ptr"] ELSE Entry[3])
  /\ var' = IF Entry[2] = SYS_MALLOC THEN [var EXCEPT !["ptr"] = ret'] ELSE var
  /\ Goto(at + 1)
  /\ UNCHANGED <<entry_point, body, left, ran, program>>

Sleep ==
  /\ SleepYield
  /\ UNCHANGED bootVars

\* create_user_process may fail; then test_user_mode returns.
test_user_mode ==
  /\ At("user")
  /\ \E p \in {"user", "ready"} : Enter(p)
  /\ UNCHANGED <<allVars, testVars>>

UserSyscall ==
  /\ phase = "user" /\ program # <<>> /\ sleep_left = 0 /\ ~halted
  /\ syscall_dispatch(program[1][1], program[1][2])
  /\ program' = Tail(program)
  /\ UNCHANGED <<phase, at, var, entry_point, body, left, ran>>

BootNext ==
  \/ ClearBss \/ sched_init \/ syscall_init
  \/ CallKmalloc \/ CallKfree \/ Test
  \/ CallThreadCreate \/ RunWorkers \/ EnterWorker \/ WorkerYields \/ WorkerReturns
  \/ AllThreadsCompleted
  \/ CallSyscall \/ Sleep
  \/ test_user_mode \/ UserSyscall

\* One flow of control, which nothing interrupts.
BootSpec == BootInit /\ [][BootNext]_systemVars /\ WF_systemVars(BootNext)

-----------------------------------------------------------------------------
InKmain == phase \in {"kmain", "user", "ready"}

\* What Syscalls assumes of its client, the boot does: kmain begins with the
\* statics initialised, whatever was in memory, and then makes no call that
\* "one" way of running threads does not allow.
BootUsesSyscalls ==
  /\ [](phase = "kmain" /\ at = 1 => SyscallInit)
  /\ [][InKmain => SyscallNext]_allVars

\* Each test thread's body runs exactly once before the next test begins, as a
\* thread or by the direct call that test_threading_system falls back to.
WorkersRunOnce ==
  /\ \A w \in Workers : ran[w] <= 1
  /\ at > ThreadsTested + 1 => \A w \in Workers : ran[w] = 1

\* The boot comes to its end: the user program's sys_exit halts the machine, or
\* without a user process kmain reaches its "KERNEL READY" loop.
BootEnds == <>(halted \/ phase = "ready")
=============================================================================
