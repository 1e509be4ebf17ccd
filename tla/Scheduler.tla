----------------------------- MODULE Scheduler -----------------------------
(***************************************************************************)
(* sched/thread_minimal.c on top of the kernel heap it takes stacks from.  *)
(*                                                                         *)
(* The build wires no timer and never loads a saved context, so everything *)
(* runs on one flow of control: sched_yield and sched_tick move the state  *)
(* of the table, and sched_run_threads is what executes a thread, by       *)
(* calling its entry point.  A call is one step, except sched_run_threads, *)
(* whose loop is taken apart where it calls out (RunEnter, RunReturn):     *)
(* the body of a thread may call everything the kernel may, and that       *)
(* includes sched_run_threads itself.  callers is the stack of the calls   *)
(* that wait for such a nested one.                                        *)
(*                                                                         *)
(* Names, priorities, contexts and total_runtime carry no control and are  *)
(* left out; stack_top is stack_base + THREAD_STACK_SIZE.                  *)
(***************************************************************************)
EXTENDS KernelHeap, Sequences

CONSTANTS
  MAX_THREADS,
  DEFAULT_TIME_SLICE,
  CLEANUP_PERIOD,     \* the 100 of sched_tick
  U32,                \* 2^32
  MaxNesting,         \* how many nested calls the kernel's stack has room for
  Protocol            \* which entry points the kernel uses, see below

THREAD_STACK_SIZE == 8192

ASSUME SchedAssumption ==
  /\ MAX_THREADS \in Nat \ {0}
  /\ DEFAULT_TIME_SLICE \in Nat \ {0}
  /\ DEFAULT_TIME_SLICE < U64
  /\ CLEANUP_PERIOD \in Nat \ {0}
  /\ U32 \in Nat \ {0, 1}
  /\ MaxNesting \in Nat
  /\ Protocol \in {"one", "any"}

\* A heap that cannot hold U32 stacks, and a size that is a u64.
ASSUME StackAssumption ==
  /\ HEAP_SIZE <= (U32 - 1) * THREAD_STACK_SIZE
  /\ THREAD_STACK_SIZE < U64

VARIABLES
  tid, state, time_slice, stack_base,   \* the columns of thread_table
  current_thread, next_tid, active_thread_count,
  scheduler_ticks, scheduler_enabled,
  run_pc,    \* sched_run_threads: not running, in its loop, in an entry point
  run_i,     \* its loop variable
  run_tid,   \* the tid whose entry point it called last
  callers,     \* the calls that wait for a nested one: what each executes
  run_nested,  \* the executing thread has made a nested call
  again        \* history: the levels of calls whose thread, not finished yet,
               \* a nested call executed again

tableVars == <<tid, state, time_slice, stack_base>>
runVars == <<run_pc, run_i, run_tid, callers, run_nested, again>>
vars == <<heapVars, tableVars, current_thread, next_tid, active_thread_count,
          scheduler_ticks, scheduler_enabled, runVars>>

NULL == -1
Slots == 0 .. (MAX_THREADS - 1)

\* sched_init
Init ==
  /\ HeapInit
  /\ tid = [i \in Slots |-> 0]
  /\ state = [i \in Slots |-> "ZOMBIE"]
  /\ time_slice = [i \in Slots |-> 0]
  /\ stack_base = [i \in Slots |-> 0]
  /\ current_thread = NULL
  /\ next_tid = 1
  /\ active_thread_count = 0
  /\ scheduler_ticks = 0
  /\ scheduler_enabled = FALSE
  /\ run_pc = "idle"
  /\ run_i = 0
  /\ run_tid = 0
  /\ callers = <<>>
  /\ run_nested = FALSE
  /\ again = {}

-----------------------------------------------------------------------------
Inc32(n) == IF n + 1 = U32 THEN 0 ELSE n + 1
Dec64(n) == IF n = 0 THEN U64 - 1 ELSE n - 1

\* A thread that can be picked, when the column of states is st.
ReadyIn(st, i) == tid[i] # 0 /\ st[i] = "READY"

Ready(i) == ReadyIn(state, i)

StartIdxZero == 0

\* The slot after the current one, or the first.
StartIdx ==
  IF current_thread = NULL THEN 0 ELSE (current_thread + 1) % MAX_THREADS

\* How many slots the search looks at before slot i.
Steps(i) == IF i >= StartIdx THEN i - StartIdx ELSE i - StartIdx + MAX_THREADS

\* The thread find_next_thread returns, as a singleton, or {} for NULL, when
\* the states are st and active_thread_count is count.
find_next_thread(st, count) ==
  IF count = 0
  THEN {}
  ELSE {i \in Slots : /\ ReadyIn(st, i)
                      /\ \A j \in Slots : ReadyIn(st, j) => Steps(i) <= Steps(j)}

SwitchKeepsOld(st, next) ==
  /\ current_thread' = next
  /\ state' = [st EXCEPT ![next] = "RUNNING"]

\* The end of sched_yield: the table says next runs and the old thread waits.
Switch(st, next) ==
  /\ current_thread' = next
  /\ state' = [st EXCEPT ![next] = "RUNNING", ![current_thread] = "READY"]

YieldWhenDisabled(st, count) ==
  LET others == find_next_thread(st, count) \ {current_thread} IN
  \/ current_thread # NULL /\ \E next \in others : Switch(st, next)
  \/ /\ current_thread = NULL \/ others = {}
     /\ state' = st
     /\ UNCHANGED current_thread

\* sched_yield called in states st: it changes current_thread and the states.
Yield(st, count) ==
  LET others == find_next_thread(st, count) \ {current_thread} IN
  \/ /\ scheduler_enabled
     /\ current_thread # NULL
     /\ \E next \in others : Switch(st, next)
  \/ /\ ~scheduler_enabled \/ current_thread = NULL \/ others = {}
     /\ state' = st
     /\ UNCHANGED current_thread

sched_yield ==
  /\ Yield(state, active_thread_count)
  /\ UNCHANGED <<heapVars, tid, time_slice, stack_base, next_tid,
                 active_thread_count, scheduler_ticks, scheduler_enabled, runVars>>

ReclaimableNotRunning(i) == state'[i] # "RUNNING" /\ tid[i] # 0

\* What cleanup_zombie_threads clears, in the states the yield before it left.
Reclaimable(i) == state'[i] = "ZOMBIE" /\ tid[i] # 0

CleanupKeepsTid ==
  LET zombies == {i \in Slots : Reclaimable(i)} IN
  /\ stack_base' = [i \in Slots |-> IF i \in zombies THEN 0 ELSE stack_base[i]]
  /\ blocks' = {b \in blocks : \A i \in zombies : b.base # stack_base[i]}
  /\ UNCHANGED tid

cleanup_zombie_threads ==
  LET zombies == {i \in Slots : Reclaimable(i)} IN
  /\ tid' = [i \in Slots |-> IF i \in zombies THEN 0 ELSE tid[i]]
  /\ stack_base' = [i \in Slots |-> IF i \in zombies THEN 0 ELSE stack_base[i]]
  /\ blocks' = {b \in blocks : \A i \in zombies : b.base # stack_base[i]}

ExpiredBelowZero(slice) == slice < 0

Expired(slice) == slice = 0

\* The time slice of the current thread: counted down, and on 0 filled up
\* again, with a yield.
Charge ==
  LET slice == Dec64(time_slice[current_thread]) IN
  \/ /\ Expired(slice)
     /\ time_slice' = [time_slice EXCEPT ![current_thread] = DEFAULT_TIME_SLICE]
     /\ Yield(state, active_thread_count)
  \/ /\ ~Expired(slice)
     /\ time_slice' = [time_slice EXCEPT ![current_thread] = slice]
     /\ UNCHANGED <<current_thread, state>>

sched_tick ==
  \/ ~scheduler_enabled /\ UNCHANGED vars
  \/ /\ scheduler_enabled
     /\ scheduler_ticks' = Inc32(scheduler_ticks)
     /\ IF current_thread # NULL
        THEN Charge
        ELSE UNCHANGED <<time_slice, current_thread, state>>
     /\ IF scheduler_ticks' % CLEANUP_PERIOD = 0
        THEN cleanup_zombie_threads
        ELSE UNCHANGED <<tid, stack_base, blocks>>
     /\ UNCHANGED <<simple_heap_ptr, wrapped, next_tid, active_thread_count,
                    scheduler_enabled, runVars>>

-----------------------------------------------------------------------------
FreeSlotAny(i) == tid[i] = 0

\* The first free slot of the table.
FreeSlot(i) == tid[i] = 0 /\ \A j \in 0 .. (i - 1) : tid[j] # 0

NextTidSame == next_tid

\* next_tid++
NextTid == Inc32(next_tid)

\* active_thread_count++
ActiveOneMore == Inc32(active_thread_count)

\* thread_create with an entry point; without one it returns 0 at once.
thread_create ==
  \/ \E slot \in Slots :
       /\ FreeSlot(slot)
       /\ KmallocOk(THREAD_STACK_SIZE)
       /\ tid' = [tid EXCEPT ![slot] = next_tid]
       /\ next_tid' = NextTid
       /\ state' = [state EXCEPT ![slot] = "READY"]
       /\ time_slice' = [time_slice EXCEPT ![slot] = DEFAULT_TIME_SLICE]
       /\ stack_base' = [stack_base EXCEPT ![slot] = HeapPtr]
       /\ active_thread_count' = ActiveOneMore
       /\ UNCHANGED <<current_thread, scheduler_ticks, scheduler_enabled, runVars>>
  \/ /\ \E slot \in Slots : FreeSlot(slot)
     /\ KmallocNull(THREAD_STACK_SIZE)
     /\ UNCHANGED <<tableVars, current_thread, next_tid, active_thread_count,
                    scheduler_ticks, scheduler_enabled, runVars>>
  \/ (\A slot \in Slots : tid[slot] # 0) /\ UNCHANGED vars

sched_start ==
  /\ scheduler_enabled' = TRUE
  /\ \/ \E first \in find_next_thread(state, active_thread_count) :
          /\ current_thread' = first
          /\ state' = [state EXCEPT ![first] = "RUNNING"]
     \/ /\ find_next_thread(state, active_thread_count) = {}
        /\ UNCHANGED <<current_thread, state>>
  /\ UNCHANGED <<heapVars, tid, time_slice, stack_base, next_tid,
                 active_thread_count, scheduler_ticks, runVars>>
-----------------------------------------------------------------------------
outsideRun == <<heapVars, tid, time_slice, stack_base, next_tid,
                active_thread_count, scheduler_ticks, scheduler_enabled>>

\* The slot and the thread whose entry point a call of sched_run_threads is in.
Executed(slot, t) == [slot |-> slot, tid |-> t]

\* A call from the kernel, or from the entry point that is executing.
sched_run_threads ==
  /\ \/ run_pc = "idle" /\ UNCHANGED callers
     \/ /\ run_pc = "exec"
        /\ Len(callers) < MaxNesting
        /\ callers' = Append(callers, Executed(run_i, run_tid))
  /\ run_pc' = "scan"
  /\ run_i' = 0
  /\ run_nested' = FALSE
  /\ UNCHANGED <<outsideRun, state, current_thread, run_tid, again>>

\* The loop reaches the next READY thread and calls its entry point.
RunEnter ==
  /\ run_pc = "scan"
  /\ \E i \in run_i .. (MAX_THREADS - 1) :
       /\ Ready(i)
       /\ \A j \in run_i .. (i - 1) : ~Ready(j)
       /\ current_thread' = i
       /\ state' = [state EXCEPT ![i] = "RUNNING"]
       /\ run_i' = i
       /\ run_tid' = tid[i]
       /\ again' = again \cup {n \in DOMAIN callers : callers[n] = Executed(i, tid[i])}
  /\ run_pc' = "exec"
  /\ UNCHANGED <<outsideRun, callers, run_nested>>

LoopSkips == run_i + 2

LoopNext == run_i + 1

Finished == [state EXCEPT ![run_i] = "ZOMBIE"]

RunReturnKeepsCurrent ==
  /\ run_pc = "exec"
  /\ state' = Finished
  /\ run_pc' = "scan"
  /\ run_i' = LoopNext
  /\ run_nested' = FALSE
  /\ again' = again \ {Len(callers) + 1}
  /\ UNCHANGED <<outsideRun, run_tid, callers, current_thread>>

\* The entry point returns.
RunReturn ==
  /\ run_pc = "exec"
  /\ state' = Finished
  /\ current_thread' = NULL
  /\ run_pc' = "scan"
  /\ run_i' = LoopNext
  /\ run_nested' = FALSE
  /\ again' = again \ {Len(callers) + 1}
  /\ UNCHANGED <<outsideRun, run_tid, callers>>

\* The loop finds nothing more to run: "All threads completed".  A nested call
\* returns to the entry point that made it.
RunFinish ==
  /\ run_pc = "scan"
  /\ \A i \in run_i .. (MAX_THREADS - 1) : ~Ready(i)
  /\ \/ /\ callers = <<>>
        /\ run_pc' = "idle"
        /\ UNCHANGED <<run_i, run_tid, callers, run_nested>>
     \/ /\ callers # <<>>
        /\ run_pc' = "exec"
        /\ run_i' = callers[Len(callers)].slot
        /\ run_tid' = callers[Len(callers)].tid
        /\ callers' = SubSeq(callers, 1, Len(callers) - 1)
        /\ run_nested' = TRUE
  /\ UNCHANGED <<outsideRun, state, current_thread, again>>

-----------------------------------------------------------------------------
\* The flow of control that can call into the scheduler: the kernel, or the
\* entry point that sched_run_threads called.
Calling == run_pc # "scan"

\* "one": the kernel keeps to one way of running threads at a time.  It calls
\* sched_run_threads, as the boot does, nested or not, or it calls sched_start,
\* once, outside of threads, and sched_run_threads never again.  "any": every
\* mixture.
MayStart ==
  \/ Protocol = "any"
  \/ ~scheduler_enabled /\ run_pc = "idle"

MayRun == Protocol = "any" \/ ~scheduler_enabled

IsStack(b) == \E i \in Slots : tid[i] # 0 /\ stack_base[i] = b.base

OtherHeapUse ==
  /\ \/ \E size \in Sizes : kmalloc(size)
     \/ \E b \in blocks : ~IsStack(b) /\ kfree(b.base)
  /\ UNCHANGED <<tableVars, current_thread, next_tid, active_thread_count,
                 scheduler_ticks, scheduler_enabled, runVars>>

Next ==
  \/ Calling /\ thread_create
  \/ Calling /\ sched_yield
  \/ Calling /\ sched_tick
  \/ Calling /\ MayStart /\ sched_start
  \/ Calling /\ OtherHeapUse
  \/ MayRun /\ sched_run_threads
  \/ RunEnter
  \/ RunReturn
  \/ RunFinish

Spec == Init /\ [][Next]_vars

-----------------------------------------------------------------------------
TypeOK ==
  /\ HeapTypeOK
  /\ tid \in [Slots -> 0 .. (U32 - 1)]
  /\ state \in [Slots -> {"READY", "RUNNING", "ZOMBIE"}]
  /\ time_slice \in [Slots -> 0 .. DEFAULT_TIME_SLICE]
  /\ stack_base \in [Slots -> 0 .. (U64 - 1)]
  /\ current_thread \in Slots \cup {NULL}
  /\ next_tid \in 0 .. (U32 - 1)
  /\ active_thread_count \in 0 .. (U32 - 1)
  /\ scheduler_ticks \in 0 .. (U32 - 1)
  /\ scheduler_enabled \in BOOLEAN
  /\ run_pc \in {"idle", "scan", "exec"}
  /\ run_i \in 0 .. MAX_THREADS
  /\ run_tid \in 0 .. (U32 - 1)
  /\ callers \in Seq([slot : Slots, tid : 0 .. (U32 - 1)])
  /\ Len(callers) <= MaxNesting
  /\ run_nested \in BOOLEAN
  /\ again \subseteq 1 .. (MaxNesting + 1)

\* The calls of sched_run_threads that are in an entry point, the outermost as
\* number 1, and what the n-th of them executes.
Top == IF run_pc = "exec" THEN Len(callers) + 1 ELSE Len(callers)
Levels == 1 .. Top
Frame(n) == IF n <= Len(callers) THEN callers[n] ELSE Executed(run_i, run_tid)

\* current_thread never dangles: the slot it points to is in use and RUNNING,
\* so that sched_yield and sched_tick never charge, reschedule or name a
\* thread that finished or was cleaned up.
CurrentIsRunning ==
  current_thread # NULL =>
    tid[current_thread] # 0 /\ state[current_thread] = "RUNNING"

\* No thread is left RUNNING for good, as long as the kernel keeps to one way of
\* running threads: it is current_thread, or some call of sched_run_threads is in
\* its entry point and marks it ZOMBIE when that returns.
RunningAccountedFor ==
  Protocol # "any" =>
    \A i \in Slots : state[i] = "RUNNING" =>
      i = current_thread \/ \E n \in Levels : Frame(n).slot = i

\* As long as the kernel keeps to one way of running threads, no nested call of
\* sched_run_threads executes a thread whose entry point has not returned yet.
NeverTwiceAtOnce == Protocol # "any" => again = {}

\* While the entry point of a thread executes, its slot is neither cleaned up
\* nor given to another thread nor marked ZOMBIE, whatever that code calls and
\* however deep: the call of sched_run_threads that executes it still finds the
\* same live thread there when it marks it ZOMBIE.  The exception is a thread
\* that a nested call executed again (it had yielded and was READY): when that
\* second execution returns, the slot can be cleaned up and reused under the
\* first one.
ExecutingSlotKept ==
  \A n \in Levels \ again :
    /\ Frame(n).tid # 0
    /\ tid[Frame(n).slot] = Frame(n).tid
    /\ state[Frame(n).slot] # "ZOMBIE"

\* No tid is in use twice and none is reused: the u32 counter never gets back
\* to 0, because the heap, unless a size made its pointer wrap, runs out of
\* stacks before.
TidsFresh ==
  ~wrapped =>
    /\ \A i, j \in Slots : tid[i] = tid[j] /\ tid[i] # 0 => i = j
    /\ \A i \in Slots : tid[i] < next_tid

\* Every thread in the table owns a stack of THREAD_STACK_SIZE bytes that is
\* allocated and that overlaps no other thread's, unless a size made the heap's
\* pointer wrap.
StacksOwned ==
  ~wrapped =>
    /\ \A i \in Slots : tid[i] # 0 =>
         [base |-> stack_base[i], size |-> THREAD_STACK_SIZE] \in blocks
    /\ \A i, j \in Slots :
         tid[i] # 0 /\ tid[j] # 0 /\ i # j =>
           \/ stack_base[i] + THREAD_STACK_SIZE <= stack_base[j]
           \/ stack_base[j] + THREAD_STACK_SIZE <= stack_base[i]

\* The decrement in sched_tick never takes a time slice below zero (to 2^64-1,
\* after which the thread would keep the CPU for good).
SlicesPositive ==
  \A i \in Slots : tid[i] # 0 => time_slice[i] \in 1 .. DEFAULT_TIME_SLICE

\* The early return of find_next_thread for a zero active_thread_count never
\* hides a thread that is READY, unless a size made the heap's pointer wrap.
ActiveCountsReady ==
  ~wrapped /\ (\E i \in Slots : Ready(i)) => active_thread_count # 0

\* sched_run_threads prints "All threads completed" only when every thread in
\* the table has been executed to its end, except those whose entry points the
\* call is nested in.
CompletionIsTrue ==
  [][run_pc = "scan" /\ (run_pc' = "idle" \/ callers' # callers)
       => \A i \in Slots : tid[i] # 0 =>
            \/ state[i] = "ZOMBIE"
            \/ \E n \in DOMAIN callers : callers[n].slot = i]_vars

\* A READY thread gets its turn once a first thread is current: round-robin
\* order starves nobody.
ReadyGetsTurn ==
  \A i \in Slots :
    (current_thread # NULL /\ Ready(i)) ~> (current_thread = i)

\* A call of sched_run_threads, nested or not, executes every thread that is READY
\* to its end.
RunExecutesAll ==
  \A i \in Slots :
    (run_pc = "scan" /\ run_i = 0 /\ Ready(i)) ~> (tid[i] # 0 /\ state[i] = "ZOMBIE")
=============================================================================
