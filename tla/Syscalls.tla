------------------------------ MODULE Syscalls ------------------------------
(***************************************************************************)
(* syscall/syscalls.c on top of the scheduler and the heap its handlers    *)
(* use.  A call is one step, except sys_sleep, which yields in a loop.     *)
(* Calls come from whoever has the flow of control: the kernel's own tests *)
(* and user mode, or a thread that sched_run_threads executes.             *)
(***************************************************************************)
EXTENDS Scheduler

CONSTANTS
  Numbers,       \* the call numbers used
  Sleeps,        \* the arguments of sys_sleep, in milliseconds
  MaxSyscalls    \* bound on the calls that are counted

ASSUME SyscallAssumption ==
  /\ Numbers \subseteq Nat
  /\ Sleeps \subseteq Nat
  /\ MaxSyscalls \in Nat

SYS_EXIT == 0
SYS_WRITE == 1
SYS_READ == 2
SYS_GETPID == 7
SYS_SLEEP == 8
SYS_YIELD == 9
SYS_MALLOC == 10
SYS_FREE == 11
MAX_SYSCALLS == 12

\* The entries of syscall_table that are not NULL.
Implemented ==
  {SYS_EXIT, SYS_WRITE, SYS_READ, SYS_GETPID, SYS_SLEEP, SYS_YIELD, SYS_MALLOC, SYS_FREE}

VARIABLES
  syscall_counts, total_syscalls,
  sleep_left,    \* how often sys_sleep still yields
  halted,        \* sys_exit stopped the machine
  ret            \* what the last call returned

sysVars == <<syscall_counts, total_syscalls, sleep_left, halted, ret>>
allVars == <<vars, sysVars>>

\* (u64)-1
ENOSYS == U64 - 1

\* syscall_init, after sched_init
SyscallInit ==
  /\ Init
  /\ syscall_counts = [n \in 0 .. (MAX_SYSCALLS - 1) |-> 0]
  /\ total_syscalls = 0
  /\ sleep_left = 0
  /\ halted = FALSE
  /\ ret = 0

-----------------------------------------------------------------------------
\* The two checks of syscall_dispatch.
Refused(n) == n >= MAX_SYSCALLS \/ n \notin Implemented

Count(n) ==
  /\ syscall_counts' = [syscall_counts EXCEPT ![n] = @ + 1]
  /\ total_syscalls' = total_syscalls + 1

\* The machine halts for good.
sys_exit ==
  /\ halted' = TRUE
  /\ UNCHANGED <<vars, sleep_left, ret>>

\* Standard output and standard error take everything.
sys_write(fd, count) ==
  /\ ret' = IF fd \in {1, 2} THEN count ELSE ENOSYS
  /\ UNCHANGED <<vars, sleep_left, halted>>

sys_read == ret' = 0 /\ UNCHANGED <<vars, sleep_left, halted>>

Pid == IF current_thread = NULL THEN 1 ELSE tid[current_thread]

sys_getpid == ret' = Pid /\ UNCHANGED <<vars, sleep_left, halted>>

\* How often sys_sleep yields.
Yields(ms) == ms \div 10

sys_sleep(ms) ==
  /\ sleep_left' = Yields(ms)
  /\ ret' = 0
  /\ UNCHANGED <<vars, halted>>

\* One round of the loop in sys_sleep.
SleepYield ==
  /\ sleep_left > 0
  /\ sched_yield
  /\ sleep_left' = sleep_left - 1
  /\ UNCHANGED <<syscall_counts, total_syscalls, halted, ret>>

sys_yield == sched_yield /\ ret' = 0 /\ UNCHANGED <<sleep_left, halted>>

schedVars == <<tableVars, current_thread, next_tid, active_thread_count,
               scheduler_ticks, scheduler_enabled, runVars>>

sys_malloc(size) ==
  /\ kmalloc(size)
  /\ ret' = IF size # 0 /\ Fits(size) THEN HeapPtr ELSE 0
  /\ UNCHANGED <<schedVars, sleep_left, halted>>

sys_free(ptr) == kfree(ptr) /\ ret' = 0 /\ UNCHANGED <<schedVars, sleep_left, halted>>

\* The call through syscall_table.
Handler(n, arg) ==
  \/ n = SYS_EXIT /\ sys_exit
  \/ n = SYS_WRITE /\ sys_write(arg, 19)
  \/ n = SYS_READ /\ sys_read
  \/ n = SYS_GETPID /\ sys_getpid
  \/ n = SYS_SLEEP /\ sys_sleep(arg)
  \/ n = SYS_YIELD /\ sys_yield
  \/ n = SYS_MALLOC /\ sys_malloc(arg)
  \/ n = SYS_FREE /\ sys_free(arg)

syscall_dispatch(n, arg) ==
  \/ /\ Refused(n)
     /\ ret' = ENOSYS
     /\ UNCHANGED <<vars, syscall_counts, total_syscalls, sleep_left, halted>>
  \/ ~Refused(n) /\ total_syscalls < MaxSyscalls /\ Count(n) /\ Handler(n, arg)

\* First arguments of the kind that each call takes.
Arguments(n) ==
  CASE n = SYS_WRITE -> {0, 1}
    [] n = SYS_SLEEP -> Sleeps
    [] n = SYS_MALLOC -> Sizes
    [] n = SYS_FREE -> {b.base : b \in {c \in blocks : ~IsStack(c)}}
    [] OTHER -> {0}

\* What the flow of control does outside of system calls.
Outside(A) == sleep_left = 0 /\ ~halted /\ A /\ UNCHANGED sysVars

SyscallNext ==
  \/ SleepYield
  \/ Outside(Next)
  \/ /\ sleep_left = 0 /\ ~halted
     /\ Calling
     /\ \E n \in Numbers : \E arg \in Arguments(n) : syscall_dispatch(n, arg)

SyscallSpec == SyscallInit /\ [][SyscallNext]_allVars

\* Entry points return, whatever they call before, the loop that called them goes
\* on, sys_sleep comes to its end, and threads, being cooperative, keep calling
\* sched_yield.
CooperativeSyscallSpec ==
  /\ SyscallSpec
  /\ WF_allVars(Outside(RunEnter)) /\ SF_allVars(Outside(RunReturn))
  /\ WF_allVars(Outside(RunFinish))
  /\ WF_allVars(SleepYield)
  /\ WF_allVars(Outside(Calling /\ sched_yield))

-----------------------------------------------------------------------------
\* A thread that sched_run_threads executes gets its own tid from sys_getpid
\* for as long as it runs, however often it yields or sleeps: a yield does not
\* take the flow of control away there, and current_thread must not move either.
\* A thread that itself called sched_run_threads is the exception: the nested
\* call leaves current_thread NULL behind.
PidIsOwn ==
  Protocol = "one" /\ run_pc = "exec" /\ ~run_nested => Pid = run_tid

\* A block that sys_malloc returned and the caller did not free overlaps no
\* thread's stack, whatever threads were created and blocks freed meanwhile,
\* unless a size made the heap's pointer wrap.
MallocOutsideStacks ==
  ~wrapped =>
    \A b \in blocks, i \in Slots :
      tid[i] # 0 /\ ~IsStack(b) =>
        \/ b.base + b.size <= stack_base[i]
        \/ stack_base[i] + THREAD_STACK_SIZE <= b.base
=============================================================================
